----------------------------- MODULE SpiWordSlot -----------------------------
(***************************************************************************)
(* What the SA-1100 SPI driver promises its readers about received words: *)
(* a single slot.  Each '=' clocks a new word into the slot, replacing a  *)
(* word nobody has read; a read empties the slot and gets the word that   *)
(* was in it, so no word is delivered twice and no word is delivered     *)
(* that was never received.  Sa1100Spi.tla shows that the globals word    *)
(* and wordValid, writeSPI and reloadMyBuffer implement this slot.        *)
(***************************************************************************)
EXTENDS Naturals

VARIABLES slot,   \* the number of the unread word, or 0 when there is none
          sent,   \* how many words have been received
          got     \* the numbers of the words readers have taken

vars == <<slot, sent, got>>

Init == slot = 0 /\ sent = 0 /\ got = {}

\* A new word arrives and replaces the slot's content.
Publish ==
    /\ sent' = sent + 1
    /\ slot' = sent + 1
    /\ UNCHANGED got

\* A reader empties the slot and gets its word.
Take ==
    /\ slot # 0
    /\ got' = got \cup {slot}
    /\ slot' = 0
    /\ UNCHANGED sent

Next == Publish \/ Take

Spec == Init /\ [][Next]_vars
=============================================================================

----------------------------- MODULE PuckRxFifo -----------------------------
(***************************************************************************)
(* What the receive path of the puck firmware promises its command loop:  *)
(* a bounded first-in first-out queue of received bytes.  A byte that     *)
(* arrives while the queue holds Capacity bytes is simply not in it; the  *)
(* loop takes the queued bytes once each, oldest first, and holds one at  *)
(* a time until it has dealt with it; a power cycle empties the queue.    *)
(* Puck.tla shows that rxByteBuffer, its interrupt handler               *)
(* and getChar implement this specification.                              *)
(***************************************************************************)
EXTENDS Naturals, Sequences

CONSTANTS Bytes,     \* the values a byte may take
          Capacity,  \* how many bytes the queue holds at once
          None       \* "no byte taken yet"

VARIABLES queue,     \* the bytes received and not yet taken, oldest first
          taken      \* the byte the loop holds, or None

vars == <<queue, taken>>

Init == queue = <<>> /\ taken = None

\* A byte is received while there is room for it.
Arrive(c) ==
    /\ Len(queue) < Capacity
    /\ queue' = Append(queue, c)
    /\ UNCHANGED taken

\* The command loop takes the oldest byte.
Take ==
    /\ taken = None
    /\ queue # <<>>
    /\ taken' = Head(queue)
    /\ queue' = Tail(queue)

\* The command loop is done with the byte it holds.
Consume ==
    /\ taken # None
    /\ taken' = None
    /\ UNCHANGED queue

\* Power cycle.
Reset ==
    /\ queue' = <<>>
    /\ taken' = None

Next == (\E c \in Bytes : Arrive(c)) \/ Take \/ Consume \/ Reset

Spec == Init /\ [][Next]_vars
=============================================================================

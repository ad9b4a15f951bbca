---------------------------- MODULE ChunkedWrite ----------------------------
(***************************************************************************)
(* The write() handler shared by the three SA-1100 command drivers         *)
(* (gpio_write, lddio_write, spi_write): the user buffer is copied into a  *)
(* 512-byte chunk and parsed, chunk after chunk, until source reaches      *)
(* srcEnd.  The size of each chunk is computed from count, which the loop  *)
(* never decrements.  The operators below give the sequence of offsets     *)
(* into the user buffer whose bytes reach parseNextByte.                   *)
(***************************************************************************)
EXTENDS Naturals, Sequences

CONSTANTS
    ChunkSize,    \* sizeof(chunk): 512 in the code
    MaxCount      \* largest count passed to write()

VARIABLE count    \* the count argument of the write() being checked

\* The offsets of the bytes one pass of the loop body copies and parses.
ChunkOffsets(source, limit) == [i \in 1 .. limit |-> source + i - 1]

RECURSIVE WriteLoop(_, _, _)
WriteLoop(source, srcEnd, n) ==
    IF source >= srcEnd THEN << >>
    ELSE LET limit == IF n <= ChunkSize THEN n ELSE ChunkSize
         IN  ChunkOffsets(source, limit) \o WriteLoop(source + limit, srcEnd, n)

gpio_write(n) == WriteLoop(0, n, n)

Init == count \in 0 .. MaxCount
Next == UNCHANGED count

\* No byte from past the end of the user buffer reaches parseNextByte
\* (the spec: write() parses the byte stream it is given, in any chunks).
StaysInBuffer == \A i \in 1 .. Len(gpio_write(count)) : gpio_write(count)[i] < count
=============================================================================

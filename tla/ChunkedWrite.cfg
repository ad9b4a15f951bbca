\* write() of up to three chunks of a four-byte chunk buffer.
CONSTANTS
    ChunkSize = 4
    MaxCount = 12
INIT Init
NEXT Next
INVARIANT StaysInBuffer

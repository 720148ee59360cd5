\* Sizes around the boundaries: none, one byte, a chunk less one byte, a chunk,
\* two chunks and a byte.  Two edits can truncate a file and let it grow again.
CONSTANTS
    ChunkSize = 2
    MaxSize = 5
    MaxEdits = 2
    MaxFlight = 2
    ZERO = ZERO
SPECIFICATION Spec
INVARIANT TypeOK
INVARIANT HonestTransferVerifies
INVARIANT BytesKeepTheirPlace
INVARIANT GapsMeanShrunk
CHECK_DEADLOCK FALSE

\* Two pieces, two slots, one seeder that may be dropped and dialled again: both
\* slots can work on one piece or on different ones, an answer can end both, and
\* the last peer can go while workers run.
CONSTANTS
    NumChunks = 2
    Peers = {p1}
    Workers = {w1, w2}
    MaxRetries = 1
    Replies = {"good","malformed"}
    MaxInFlight = 1
    NULL = NULL
SPECIFICATION Spec
SYMMETRY Symmetry
INVARIANT TypeOK
INVARIANT SuccessMeansWritten
INVARIANT RequestedHasWorker
INVARIANT GivesUpOnlyUnheld
PROPERTY ImplementsTransfer

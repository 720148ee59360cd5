\* One piece, two slots: the duplicate worker can fail after the first one succeeded.
CONSTANTS
    NumChunks = 1
    Peers = {p1}
    Workers = {w1, w2}
    MaxRetries = 2
    Replies = {"good"}
    MaxInFlight = 1
    NULL = NULL
SPECIFICATION Spec
INVARIANT IncompleteMeansMissing

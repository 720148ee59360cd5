\* One piece and two slots, so that the second worker is a duplicate; two attempts,
\* which any number of faults can exhaust again and again.
CONSTANTS
    NumChunks = 1
    Peers = {p1}
    Workers = {w1, w2}
    MaxRetries = 2
    Replies = {"good","malformed"}
    MaxInFlight = 1
    NULL = NULL
SPECIFICATION FairSpec
PROPERTY CleanDownloadSucceeds
PROPERTY FaultyDownloadEnds

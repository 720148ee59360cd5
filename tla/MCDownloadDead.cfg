\* The only connection may break; the tracker answers.
CONSTANTS
    NumChunks = 1
    Peers = {p1}
    Workers = {w1}
    MaxRetries = 2
    Replies = {"good"}
    MaxInFlight = 1
    NULL = NULL
SPECIFICATION AnsweredSpec
PROPERTY DisconnectionIsReported

\* One node downloads, the other seeds and may be shut down; writes fail
\* half-way and the connection breaks.
CONSTANTS
    Nodes = {a, b}
    Seeders = {b}
    Downloaders = {a}
    MaxSends = 5
    QueueCap = 1
    BufferCap = 2
    BodyWrites = 2
    Leaving = {b}
    MaxRequests = 4
    MaxFaults = 2
CHECK_DEADLOCK FALSE
SPECIFICATION Spec
INVARIANT TypeOK
INVARIANT FramesIntact
INVARIANT NoAnswerTwice
PROPERTY SeederSurvivesRequests

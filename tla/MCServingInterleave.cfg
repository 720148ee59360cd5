\* A node asks for a chunk while it answers one over the same connection.
CONSTANTS
    Nodes = {a, b}
    Seeders = {b}
    Downloaders = {a, b}
    MaxSends = 5
    QueueCap = 1
    BufferCap = 2
    BodyWrites = 2
    Leaving = {}
    MaxRequests = 1
    MaxFaults = 0
CHECK_DEADLOCK FALSE
SPECIFICATION Spec
INVARIANT FramesIntact

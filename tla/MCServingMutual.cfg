\* Both serve and both download, with room for one write and one message.
CONSTANTS
    Nodes = {a, b}
    Seeders = {a, b}
    Downloaders = {a, b}
    MaxSends = 2
    QueueCap = 1
    BufferCap = 1
    BodyWrites = 1
    Leaving = {}
    MaxRequests = 3
    MaxFaults = 0
CHECK_DEADLOCK FALSE
SPECIFICATION FairSpec
PROPERTY RpcLoopReturns

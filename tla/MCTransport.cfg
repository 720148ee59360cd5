\* Two overlapping calls, a bootstrap node given by name and one connection from
\* outside.  A public address hides a local one (filterPeerList), one address is
\* malformed.  Every wait is one Tick, and DialTime is the sum of the two before
\* it and one more.
CONSTANTS
    Calls = {c1, c2}
    BOOT = BOOT
    a1 = a1
    a2 = a2
    a3 = a3
    bad = bad
    name = name
    me = me
    loopback4 = loopback4
    Bootstrap = {name}
    Addrs = {a1, a2, a3, bad, name}
    Public = {a1}
    Invalid = {bad}
    MyAddr = me
    Entries <- MCEntries
    Remotes <- MCRemotes
    LOOPBACK6 = loopback6
    LOCALHOST = name
    Inbound = {e1}
    ListenColons = 1
    PunchTime = 1
    ConnectTime = 1
    DialTime = 3
    SettleTime = 1
    MaxDeletes = 1
    NULL = NULL
SPECIFICATION FairSpec
INVARIANT TypeOK
INVARIANT DialSuccessIsConnection
INVARIANT FailedCallLeavesNothing
CHECK_DEADLOCK FALSE
PROPERTY EveryCallReturns

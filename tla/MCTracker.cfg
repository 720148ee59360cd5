\* Two files and two peers with two overlapping /peers requests: a peer can
\* leave one file and stay on the other, and a request's sweep can hit the
\* list another request iterates over.
CONSTANTS
    Files = {f1, f2}
    Addrs = {p1, p2}
    Hashes = {h1}
    Clients = {c1, c2}
    Threshold = 1
    PerPage = 1
    NULL = NULL
SPECIFICATION FairSpec
INVARIANT TypeOK
INVARIANT PeerCountsMatch
INVARIANT ListedPeersAreTimed
INVARIANT UntiedFileOnOnePage
PROPERTY OnlyFreshPeersReplied
PROPERTY SilentPeerUnlisted
PROPERTY ImplementsDirectory

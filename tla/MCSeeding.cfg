\* Two files at one address, shared one after the other as main's processes do, so
\* that announcements of one file refresh the timestamp that the ghost listing of
\* the other depends on.  A period is two ticks of 15 s and the threshold two
\* periods.  One fault makes a round fail; the second round is then late.
CONSTANTS
    Files = {f1, f2}
    Addrs = {p1}
    Hashes = {h1}
    Clients = {}
    Threshold = 4
    PeriodTicks = 2
    Rounds = 2
    NULL = NULL
    MaxTries = 2
    MaxShares = 1
    MaxFaults = 2
SPECIFICATION SeedingFairSpec
INVARIANT SeedingTypeOK
PROPERTY ActiveSeederKept
PROPERTY SeededFileGetsListed
PROPERTY GhostListingExpires

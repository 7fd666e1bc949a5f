SPECIFICATION FairSpec
CONSTANTS
    Sessions = {s1}
    Workers = {w1}
    Poller = poller
    NoCaller = nobody
    Keys = {"k1", "k2"}
    Prices = {1}
    MaxAmount = 2
    Callers <- AllCallers
    Books <- AllBooks
    Worlds <- MCWorlds
    Garbage = garbage
    NoSnapshot = none
    NoKey = nokey
    ChanCap = 1
    MaxRequests = 2
    MaxChanges = 1
    MaxTimeouts = 1
INVARIANTS TypeOK SteadyViewAgrees
PROPERTIES OwnAnswer ViewConverges
CHECK_DEADLOCK FALSE

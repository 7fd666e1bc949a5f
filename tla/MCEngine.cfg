SPECIFICATION FairSpec
CONSTANTS
    Clients = {c1, c2}
    Users = {u1}
    Requests <- AllRequests
    Slices <- AskOrNothing
    Funds = 2
    MaxCreates = 3
INVARIANTS TypeOK FrozenMatchesLog
PROPERTIES StuckIsSilent AnsweredUnlessStuck
CHECK_DEADLOCK FALSE

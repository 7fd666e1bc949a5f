SPECIFICATION FairSpec
CONSTANTS
    Users = {u1, u2}
    Types = {"limit", "market"}
    Prices = {1, 3}
    TickDen = 1
    FeeDen = 1000
    Amounts = {1, 2}
    MaxLoaded = 2
    MaxOrders = 3
    StartTables <- MixedOnly
INVARIANTS TypeOK BookAgreesWithHeap FillsAreRight
PROPERTIES NothingFromNowhere LimitMatchingEnds
CHECK_DEADLOCK FALSE

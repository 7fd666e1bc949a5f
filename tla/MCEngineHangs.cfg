SPECIFICATION FairSpec
CONSTANTS
    Clients = {c1}
    Users = {u1}
    Requests <- AllRequests
    Slices <- AskOrNothing
    Funds = 2
    MaxCreates = 1
PROPERTIES RequestsAnswered
CHECK_DEADLOCK FALSE

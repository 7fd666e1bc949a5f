SPECIFICATION RpcSpec
CONSTANTS
    Users = {u1}
    Clients = {c1, c2}
    Keys <- AllKeys
    Amounts = {0, 1, 2}
    MaxFunds = 3
    Requests <- AllRequests
    Books <- AllBooks
    Funds = 1
    MaxRequests = 3
    MaxPage = 3
INVARIANTS RpcTypeOK NeverOverdrawn OrdersAccounted  
PROPERTIES LedgerSpec
CHECK_DEADLOCK FALSE

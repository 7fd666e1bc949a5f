SPECIFICATION FairRecovery
CONSTANTS
    Users = {u1}
    Holds = {1}
    Worlds <- AllWorlds
    QueueSize = 1
    BatchSize = 2
    MaxWrites = 3
    MaxDays = 2
INVARIANTS RecoveryTypeOK RowsInOrder DumpShortByOneHold
PROPERTIES AcceptedGetsDurable LostOnlyWhenFull DumpsKeepUp
CHECK_DEADLOCK FALSE

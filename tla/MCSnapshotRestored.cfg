SPECIFICATION RecoverySpec
CONSTANTS
    Users = {u1}
    Holds = {1}
    Worlds <- AllWorlds
    QueueSize = 1
    BatchSize = 2
    MaxWrites = 2
    MaxDays = 1
PROPERTIES SnapshotRestored
CHECK_DEADLOCK FALSE

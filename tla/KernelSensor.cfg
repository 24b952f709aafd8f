SPECIFICATION FairSpec
CONSTANTS
    Threads = {"p1", "p2"}
    LeaderOf <- MCLeaderOf
    StartTime <- MCStartTime
    Paths = {"out", "secret"}
    SensitivePath = "secret"
    NoPath = NoPath
    RingSlots = 1
    MaxPending = 1
    MaxOps = 3
INVARIANTS
    TypeOK
    PendingMatchesCall
    NoSilentLoss
    NoPhantomRecord
    CausesAddUp
    LossCountedOnce
PROPERTIES
    PendingDrains
    KeepsContract
CHECK_DEADLOCK FALSE

SPECIFICATION Spec
CONSTANTS
    Threads = {"p1", "t2"}
    LeaderOf <- MCLeaderOf
    StartTime <- MCStartTime
    Paths = {"out", "secret"}
    SensitivePath = "secret"
    NoPath = NoPath
    RingSlots = 1
    MaxPending = 1
    MaxOps = 3
INVARIANT RecordsNameTheProcess
CHECK_DEADLOCK FALSE

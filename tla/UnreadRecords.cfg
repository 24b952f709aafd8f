SPECIFICATION Spec
CONSTANTS
    Missing = Missing
    Wrap = 8
    maxEvents = 10
    FlagSets <- MCOneFlagSet
    KernelRecords <- MCRecords
    ArtifactDigests <- MCDigests
    maxTrackedProcesses = 2
    RingSlots = 2
    MaxRecords = 3
    MaxDrops = 0
    MaxClock = 1
    MaxSuspend = 0
    EarlyBuild = FALSE
    MaxRestarts = 0
INVARIANT NoRecordLeftOut
CHECK_DEADLOCK FALSE

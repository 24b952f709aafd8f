SPECIFICATION Spec
CONSTANTS
    Missing = Missing
    Wrap = 8
    maxEvents = 10
    FlagSets <- MCOneFlagSet
    KernelRecords <- MCRecords
    ArtifactDigests <- MCDigests
    maxTrackedProcesses = 2
    RingSlots = 1
    MaxRecords = 3
    MaxDrops = 0
    MaxClock = 2
    MaxSuspend = 1
    EarlyBuild = FALSE
    MaxRestarts = 0
INVARIANT KernelEventsInBootTime
CHECK_DEADLOCK FALSE

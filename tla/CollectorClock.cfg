SPECIFICATION FairSpec
CONSTANTS
    Missing = Missing
    Wrap = 8
    maxEvents = 10
    FlagSets <- MCOneFlagSet
    KernelRecords <- MCLossKinds
    ArtifactDigests <- MCDigests
    maxTrackedProcesses = 1
    RingSlots = 2
    MaxRecords = 2
    MaxDrops = 1
    MaxClock = 2
    MaxSuspend = 1
    EarlyBuild = FALSE
    MaxRestarts = 0
INVARIANTS
    OnlyKernelRecordsRace
PROPERTIES
    SignalEndsCollector
CHECK_DEADLOCK FALSE

SPECIFICATION Spec
CONSTANTS
    Missing = Missing
    Wrap = 8
    maxEvents = 6
    FlagSets <- MCFlagSets
    KernelRecords <- MCActivity
    ArtifactDigests <- MCDigests
    maxTrackedProcesses = 1
    RingSlots = 1
    MaxRecords = 4
    MaxDrops = 0
    MaxClock = 1
    MaxSuspend = 0
    EarlyBuild = TRUE
    MaxRestarts = 1
INVARIANTS
    TypeOK
    StreamChained
    WriterOwnsStream
    AttributionSound
    ProducerIsLastOpener
    FinalizedStreamParses
PROPERTIES
    EvidenceAppendOnly
    ImplementsLedger
CHECK_DEADLOCK FALSE

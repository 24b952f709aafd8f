SPECIFICATION PipelineSpec
CONSTANTS
    Missing = Missing
    Wrap = 8
    maxEvents = 10
    maxValues = 2000
    FlagSets <- MCFlagSets
    KernelRecords <- MCRecords
    ArtifactDigests <- MCDigests
    maxTrackedProcesses = 1
    RingSlots = 1
    MaxRecords = 3
    MaxDrops = 1
    MaxClock = 1
    MaxSuspend = 0
    EarlyBuild = TRUE
    MaxRestarts = 0
    Bytes = {b1, b2}
    Policy <- MCPolicy
INVARIANTS
    ReleaseIsWitnessed
    ForbiddenNeverAllowed
    CompleteEvidenceIsLossless
    CausesCoverCorrelation
SYMMETRY MCSymmetry
CHECK_DEADLOCK FALSE

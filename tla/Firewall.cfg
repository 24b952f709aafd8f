SPECIFICATION Spec
CONSTANTS
    Missing = Missing
    Wrap = 64
    maxEvents = 10
    maxValues = 2000
    NoFile = NoFile
    Torn = Torn
    Source <- MCSource
    Artifacts <- MCArtifacts
    EventDocs <- MCEventDocs
    Provenances <- MCProvenances
    Policies <- MCPolicies
    Assemblers = {a1, a2}
    Command <- MCCommand
    Scenarios <- MCScenarios
INVARIANTS
    TypeOK
    AllowIsAdmissible
    AdmissibleIsAllowed
    AllowMeansAssembled
    SuccessMeansWhole
    PublishedWhole
PROPERTY FinishedOutputStays
SYMMETRY MCSymmetry
CHECK_DEADLOCK FALSE

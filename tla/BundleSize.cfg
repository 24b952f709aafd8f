SPECIFICATION Spec
CONSTANTS
    Missing = Missing
    Wrap = 64
    maxEvents = 10
    maxValues = 50
    NoFile = NoFile
    Torn = Torn
    Source <- MCSource
    Artifacts <- MCArtifacts
    EventDocs <- MCLargeDocs
    Provenances <- MCProvenances
    Policies <- MCPolicies
    Assemblers = {a1}
    Command <- MCCommand
    Scenarios <- MCOneBuild
INVARIANT WrittenBundleLoads
CHECK_DEADLOCK FALSE

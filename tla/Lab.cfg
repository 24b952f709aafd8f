SPECIFICATION FairSpec
CONSTANTS
    Nobody = Nobody
    Jobs <- MCJobs
    Commands <- MCCommands
    RuntimeThreads = {1, 2}
    Servers <- MCServers
    Clients <- MCClients
    Port <- MCPort
    Scripts <- MCScripts
    MaxRounds = 2
    MaxAttempts = 1
INVARIANTS
    LabProgramsConfined
    ReadyMeansListening
    PassedScriptDidItsWork
    ProofShowsMode
PROPERTIES
    EverythingEnds
CHECK_DEADLOCK FALSE

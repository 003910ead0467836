CONSTANTS
    a = a
    b = b
    c = c
    s = s
    t = t
    wf = wf
    Runs <- MCRuns
    Sessions <- OneSession
    Workflows <- MCWorkflows
    SessionOf <- AllInOne
    WorkflowFor <- MCWorkflowFor
    WorkflowOf <- MCWorkflowOf
    Removable = {}
    Impatient = {b}
    Erasable = {a}
    MaxConcurrent = 1
    HistoryLimit = 1
    PruneEvery = 2
    PoolSize = 1
    MaxTurns = 2
    MaxCrashes = 0
    MaxVoice = 0
    StoreMayFail = TRUE
    SaveMayFail = TRUE
    TornWrites = FALSE
SPECIFICATION FairManagerSpec
INVARIANTS FileFollowsMemory
PROPERTIES EveryCallEnds
CHECK_DEADLOCK FALSE

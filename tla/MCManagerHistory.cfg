CONSTANTS
    a = a
    b = b
    c = c
    s = s
    t = t
    wf = wf
    Runs <- MCRuns
    Sessions <- OneSession
    Workflows <- MCWorkflows
    SessionOf <- AllInOne
    WorkflowFor <- MCWorkflowFor
    WorkflowOf <- MCWorkflowOf
    Removable = {}
    Impatient = {a}
    Erasable = {a}
    MaxConcurrent = 1
    HistoryLimit = 1
    PruneEvery = 2
    PoolSize = 2
    MaxTurns = 0
    MaxCrashes = 1
    MaxVoice = 0
    StoreMayFail = FALSE
    SaveMayFail = FALSE
    TornWrites = FALSE
SPECIFICATION ManagerSpec
INVARIANTS HistoryIsKept
PROPERTIES OutcomesAreFinal
CHECK_DEADLOCK FALSE

CONSTANTS
    a = a
    b = b
    c = c
    s = s
    t = t
    wf = wf
    Runs <- MCRuns
    Sessions <- MCSessions
    Workflows <- MCWorkflows
    SessionOf <- MCSessionOf
    WorkflowFor <- MCWorkflowFor
    WorkflowOf <- MCWorkflowOf
    Removable = {wf}
    Impatient = {a, b, c}
    Erasable = {}
    MaxConcurrent = 1
    HistoryLimit = 0
    PruneEvery = 2
    PoolSize = 2
    MaxTurns = 1
    MaxCrashes = 1
    MaxVoice = 1
    StoreMayFail = FALSE
    SaveMayFail = FALSE
    TornWrites = FALSE
SPECIFICATION ManagerSpec
INVARIANTS DeletedStaysDeleted TurnsAreExact DeliveredIsDurable
PROPERTIES SlotSpec
CHECK_DEADLOCK FALSE

CONSTANTS
    a = a
    b = b
    c = c
    d = d
    other = other
    wf = wf
    wg = wg
    Runs <- MCRuns
    Workflows <- MCWorkflows
    WorkflowOf <- MCWorkflowOf
    MaxConcurrent = 2
SPECIFICATION FairSlotSpec
INVARIANTS PermitsBalance
PROPERTIES NoOvertaking NobodyStarves ImplementsAdmission

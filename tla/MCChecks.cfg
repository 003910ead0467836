CONSTANTS
    n1 = n1
    n2 = n2
    n3 = n3
    n4 = n4
    a1 = a1
    a2 = a2
    a3 = a3
    a4 = a4
    none = none
    Nodes <- MCNodes
    Agents <- MCAgents
    NoNode = none
    Definitions <- MCDefinitions
    Delegations = {1, 2}
    r1 = r1
    r2 = r2
    m1 = m1
    p1 = p1
    p2 = p2
    k1 = k1
    MaxCases = 2
    Requests <- MCRequests
    Marks <- MCMarks
    MaxEdits = 1
    Providers <- MCProviders
    Keys <- MCKeys
    Settings <- MCSettings
    NoKey = none
    SDK = FALSE
    Texts <- MCTexts
    Sizes = {6, 12}
    Overlaps = {0, 5}
    LookAhead = 3
SPECIFICATION Spec
INVARIANTS PlanIsFaithful FramesTellTheRun ChecksTellTheTruth KeysAndFindingsAreTrue ChunksHoldTheText
PROPERTIES EveryPlanningEnds
CHECK_DEADLOCK FALSE

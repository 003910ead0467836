CONSTANTS
    e1 = e1
    e2 = e2
    a = a
    b = b
    d1 = d1
    s1 = s1
    s2 = s2
    t1 = t1
    t2 = t2
    t3 = t3
    x = x
    y = y
    p = p
    q = q
    worker = worker
    flow = flow
    task = task
    none = none
    Editors <- MCEditors
    Contents <- MCContents
    MaxSnapshots = 2
    MaxVersions = 5
    Absent = none
    Deployments <- MCDeployments
    Settings <- MCSettings
    MaxRelease = 4
    Missing = none
    Writers <- MCWriters
    MaxRecords = 4
    MaxEdits = 3
    None = none
    Minute = 4
    Hour = 10
    PerMinute = 2
    PerHour = 4
    Horizon = 17
    Ingestions <- MCIngestions
    Sources <- MCSources
    MaxChunks = 2
    Nothing = none
    Tools <- MCTools
    Functions <- MCFunctions
    Endpoints <- MCEndpoints
    Agents <- MCAgents
    Workflows <- MCWorkflows
    Imports <- MCImports
    Void = none
SPECIFICATION Spec
INVARIANTS VersionsAreCoherent PagesAreAsDeployed ReportsTheFirstChange LimitsAreExact DocumentIsReplacedWhole ChunksHaveTheirVectors CatalogueIsTrue
CHECK_DEADLOCK FALSE

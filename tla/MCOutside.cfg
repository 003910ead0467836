CONSTANTS
    s1 = s1
    s2 = s2
    f1 = f1
    none = none
    c1 = c1
    c2 = c2
    k1 = k1
    a1 = a1
    a2 = a2
    boss = boss
    fun = fun
    mcp = mcp
    conn = conn
    db = db
    big = big
    small = small
    Sessions <- MCSessions
    Files <- MCFiles
    Nothing = none
    MaxMessages = 2
    MaxLoads = 1
    Null = none
    MaxStarts = 2
    MaxQueued = 2
    Callers <- MCCallers
    ServiceTokens <- MCTokens
    NoRow = none
    MaxRows = 2
    MaxKeys = 3
    MaxGrants = 2
    MaxRestarts = 1
    Crews <- MCCrews
    Listed <- MCListed
    ToolIds <- MCToolIds
    KindOf <- MCKindOf
    Nobody = none
    MaxReloads = 1
    MaxToolCalls = 3
SPECIFICATION Spec
INVARIANTS VisitorIsRespected ConnectionsAreSound RunHasItsTools
PROPERTIES VisitorIsServed
CHECK_DEADLOCK FALSE

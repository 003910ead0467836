CONSTANTS
    t1 = t1
    t2 = t2
    c1 = c1
    c2 = c2
    c3 = c3
    s1 = s1
    none = none
    asks = asks
    asksOne = asksOne
    group = group
    key1 = key1
    key2 = key2
    key3 = key3
    alpha = alpha
    beta = beta
    text = text
    user1 = user1
    user2 = user2
    anyone = anyone
    monitor1 = monitor1
    monitor2 = monitor2
    Tickets <- MCTickets
    Conns <- MCConns
    Sessions <- MCSessions
    SessionOfTicket <- MCSessionOfTicket
    NoTicket = none
    SaveMayFail = FALSE
    Life = 1
    Remember = 3
    MaxSpent = 1
    MaxConcurrent = 1
    MaxNow = 4
    MaxRestarts = 1
    Threads <- MCThreads
    Scopes <- MCScopes
    Responses <- MCResponses
    Wants <- MCWants
    Configs <- MCConfigs
    NoLayer = none
    MaxWrites = 2
    MaxUses = 2
    MaxUpdates = 1
    Models <- MCModels
    Contents <- MCContents
    CachedSessions <- MCSessions
    Users <- MCUsers
    Callers <- MCActors
    Processes <- MCProcesses
    Nothing = none
    MaxStores = 2
    MaxCounted = 3
SPECIFICATION Spec
SYMMETRY Alike
INVARIANTS OneConversationPerTicket ConversationsAreSettled ResponsesAreCached ContentIsRightlyDropped
CHECK_DEADLOCK FALSE

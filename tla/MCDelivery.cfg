CONSTANTS
    kickoff = kickoff
    tool = tool
    t1 = t1
    none = none
    fileA = fileA
    fileP = fileP
    Agents = fileA
    Providers = fileP
    NoContent = none
    MaxEdits = 2
    Emitters <- MCEmitters
    MaxEmit = 2
    MaxEvents = 5
    Tasks <- MCTasks
    NoTask = none
    MaxRetries = 2
    Prefetch = 1
    MaxCopies = 6
    MaxBreaks = 2
    MaxStops = 1
SPECIFICATION Spec
INVARIANTS StreamIsWhole RecordIsTrue TasksAreAccountedFor ConfigIsSound
PROPERTIES  ImplementsContract WatchersCatchUp
CHECK_DEADLOCK FALSE

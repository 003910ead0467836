CONSTANTS
    n1 = n1
    n2 = n2
    n3 = n3
    n4 = n4
    a1 = a1
    a2 = a2
    a3 = a3
    a4 = a4
    none = none
    Nodes <- MCNodes
    Agents <- MCAgents
    NoNode = none
    Definitions <- MCJoins
    Delegations = {}
SPECIFICATION CrewSpec
INVARIANTS UpstreamIsKnown
CHECK_DEADLOCK FALSE

---------------------------- MODULE GraphChecks ----------------------------
(***************************************************************************)
(* The checks a graph meets before a crew is planned from it: the canvas   *)
(* asks for diagnostics (diagnose_graph, detect_cycles), POST              *)
(* /topologies/validate asks about a topology and POST /topologies stores  *)
(* one on its workflow (validate_topology, _has_cycle, _store_topology).   *)
(* What was stored is then planned, so that what the checks let through    *)
(* can be held against the crew that runs.                                 *)
(*                                                                         *)
(* Both cycle checks are one depth-first walk.  They differ in their roots *)
(* and in what they do with a cycle: validate_topology stops, the canvas   *)
(* goes on with the next root and with the path as it was left.            *)
(***************************************************************************)
EXTENDS CrewPlan

Types == {"single", "sequential", "tree", "graph"}     \* TopologyType

VARIABLES
    asker,          \* "canvas", "validate" or "create"
    verdict,        \* "walking", "walked", "rejected" or the type accepted
    calls,          \* the nested calls of dfs(), innermost first
    visited,        \* visited
    onPath,         \* rec_stack
    trail,          \* path
    cycles          \* the cycles found

checkVars == <<asker, verdict, calls, visited, onPath, trail, cycles>>

WalkInit ==
    /\ asker \in {"canvas", "validate", "create"}
    /\ verdict = "walking"
    /\ calls = <<>> /\ visited = {} /\ onPath = {} /\ trail = <<>>
    /\ cycles = <<>>

ChecksInit == PlanInit /\ WalkInit

-----------------------------------------------------------------------------
(* The walk                                                                *)

\* The canvas starts from the nodes that have edges, in the order in which
\* the edges name them; a topology starts from all nodes, in its own order.
Roots ==
    IF asker = "canvas" THEN [k \in 1..Len(def.edges) |-> def.edges[k][1]] ELSE def.nodes

UnseenRoots == {i \in 1..Len(Roots) : Roots[i] \notin visited}

\* The edges of n that make dfs(n) do something.
Ways(n) == {k \in 1..Len(def.edges) :
                def.edges[k][1] = n /\ (def.edges[k][2] \notin visited \/ def.edges[k][2] \in onPath)}

Enter(n) ==
    /\ calls' = <<n>> \o calls
    /\ visited' = visited \cup {n}
    /\ onPath' = onPath \cup {n}
    /\ trail' = Append(trail, n)

\* The next root; validate_topology has its verdict when there is none.
StartWalk ==
    /\ verdict = "walking" /\ calls = <<>>
    /\ IF UnseenRoots = {}
       THEN verdict' = "walked" /\ UNCHANGED <<calls, visited, onPath, trail>>
       ELSE \E i \in UnseenRoots : First(i, UnseenRoots) /\ Enter(Roots[i]) /\ UNCHANGED verdict
    /\ UNCHANGED <<planVars, asker, cycles>>

\* dfs(neighbor) for a neighbour not visited.
Descend ==
    /\ verdict = "walking" /\ calls # <<>>
    /\ \E k \in Ways(Head(calls)) :
          /\ First(k, Ways(Head(calls)))
          /\ def.edges[k][2] \notin visited
          /\ Enter(def.edges[k][2])
    /\ UNCHANGED <<planVars, asker, verdict, cycles>>

\* path[path.index(neighbor):] + [neighbor]
CycleAt(n) ==
    LET Places == {j \in 1..Len(trail) : trail[j] = n}
        start  == CHOOSE j \in Places : First(j, Places)
    IN Append(SubSeq(trail, start, Len(trail)), n)

\* Every call returns True: nothing is taken off the path.
CloseCycle ==
    /\ verdict = "walking" /\ calls # <<>>
    /\ \E k \in Ways(Head(calls)) :
          /\ First(k, Ways(Head(calls)))
          /\ def.edges[k][2] \in visited
          /\ cycles' = Append(cycles, CycleAt(def.edges[k][2]))
    /\ calls' = <<>>
    /\ verdict' = IF asker = "canvas" THEN "walking" ELSE "walked"
    /\ UNCHANGED <<planVars, asker, visited, onPath, trail>>

\* Fault: a call returns and leaves its node on the path.
LeaveMarked ==
    /\ verdict = "walking" /\ calls # <<>> /\ Ways(Head(calls)) = {}
    /\ calls' = Tail(calls)
    /\ UNCHANGED <<planVars, asker, verdict, visited, onPath, trail, cycles>>

Leave ==
    /\ verdict = "walking" /\ calls # <<>> /\ Ways(Head(calls)) = {}
    /\ calls' = Tail(calls)
    /\ onPath' = onPath \ {Head(calls)}
    /\ trail' = SubSeq(trail, 1, Len(trail) - 1)
    /\ UNCHANGED <<planVars, asker, verdict, visited, cycles>>

-----------------------------------------------------------------------------
(* validate_topology and the two endpoints                                 *)

Parents(n) == {k \in 1..Len(def.edges) : def.edges[k][2] = n}

\* Fault: the nodes the walk for cycles came to are the reachable ones.
ReachedByWalk == visited

\* _get_reachable_nodes
Reached ==
    LET Spread(S) == S \cup {def.edges[k][2] : k \in {j \in 1..Len(def.edges) : def.edges[j][1] \in S}}
        Up[i \in 0..Len(def.nodes)] == IF i = 0 THEN {def.entry} ELSE Spread(Up[i-1])
    IN Up[Len(def.nodes)]

\* Whether validate_topology has no error for a topology of this type, with
\* a limit to its iterations or without.
Sound(type, limited) ==
    /\ type # "single" => Reached = NodeSet(def)
    /\ CASE type = "single"     -> Len(def.nodes) = 1 /\ def.edges = <<>>
         [] type = "sequential" -> Len(def.edges) = Len(def.nodes) - 1 /\ cycles = <<>>
         [] type = "tree"       -> /\ cycles = <<>>
                                   /\ \A n \in NodeSet(def) \ {def.entry} :
                                         \E k \in Parents(n) : Parents(n) = {k}
         [] type = "graph"      -> cycles = <<>> \/ limited

\* structural_checks_applicable
Structural == def.edges # <<>>

\* POST /topologies/validate; without edges the checks are skipped.
Validate(type, limited) ==
    /\ asker = "validate" /\ verdict = "walked"
    /\ verdict' = IF Structural => Sound(type, limited) THEN type ELSE "rejected"
    /\ UNCHANGED <<planVars, asker, calls, visited, onPath, trail, cycles>>

\* POST /topologies: _store_topology wants every agent to exist.
Create(type, limited) ==
    /\ asker = "create" /\ verdict = "walked"
    /\ verdict' = IF Sound(type, limited) /\ (\A n \in NodeSet(def) : Staffed(n))
                  THEN type ELSE "rejected"
    /\ UNCHANGED <<planVars, asker, calls, visited, onPath, trail, cycles>>

\* A run of the workflow it was stored on.
PlanStored == asker = "create" /\ verdict \in Types /\ PlanNext /\ UNCHANGED checkVars

ChecksNext ==
    \/ StartWalk \/ Descend \/ CloseCycle \/ Leave
    \/ \E type \in Types, limited \in BOOLEAN : Validate(type, limited) \/ Create(type, limited)
    \/ PlanStored

ChecksSpec == ChecksInit /\ [][ChecksNext]_<<planVars, checkVars>>

-----------------------------------------------------------------------------
(* Properties                                                              *)

\* Types of the checks.
ChecksTypeOK ==
    /\ PlanTypeOK
    /\ asker \in {"canvas", "validate", "create"}
    /\ verdict \in {"walking", "walked", "rejected"} \cup Types
    /\ calls \in Seq(Nodes) /\ trail \in Seq(Nodes)
    /\ onPath \subseteq visited /\ visited \subseteq Nodes
    /\ cycles \in Seq(Seq(Nodes))

\* Some nodes each have an edge from another of them.
HasCycle(d) ==
    \E S \in (SUBSET NodeSet(d)) \ {{}} :
        \A n \in S : \E k \in 1..Len(d.edges) : d.edges[k][2] = n /\ d.edges[k][1] \in S

IsCycle(c) ==
    /\ Len(c) > 1 /\ c[1] = c[Len(c)]
    /\ \A i \in 1..(Len(c) - 1) : \E k \in 1..Len(def.edges) : def.edges[k] = <<c[i], c[i+1]>>

\* A walk that ended has found a cycle just when the graph has one, from
\* whichever root it came upon it, and the first it names goes along edges
\* of the graph (detect_cycles, _has_cycle).
CyclesAreNoticed ==
    /\ verdict = "walked" => (cycles # <<>> <=> HasCycle(def))
    /\ cycles # <<>> => IsCycle(cycles[1])

TaskNodesOf == {tasks[i].node : i \in 1..Len(tasks)}

\* What POST /topologies stores runs as drawn, although validator and
\* planner walk the graph in code of their own: every node has its task, no
\* node but the entry runs before a node that leads to it, and in a topology
\* stored as sequential or as a tree each task is given the output of every
\* node that leads to it (validate_topology, _ordered_nodes, _create_tasks).
AcceptedGraphsRunAsDrawn ==
    asker = "create" /\ verdict \in Types /\ FromNodes =>
        /\ TaskNodesOf = NodeSet(def)
        /\ \A i \in 2..Len(tasks) : \E j \in 1..(i-1) : tasks[j].node \in Predecessors(tasks[i].node)
        /\ verdict \in {"sequential", "tree"} =>
              \A i \in 1..Len(tasks) : tasks[i].context = Predecessors(tasks[i].node)

\* The checks tell of the graph what the crew will find in it.
ChecksHoldInTheRun == CyclesAreNoticed /\ AcceptedGraphsRunAsDrawn

(* Two statements that do not hold of the code (see README, Divergences).  *)

\* "List of cycles, where each cycle is a list of node IDs" (detect_cycles):
\* after the first cycle the path keeps the nodes of the walk that found it,
\* and a later root that leads to one of them is reported as a cycle.
EveryCycleIsReal == \A i \in 1..Len(cycles) : IsCycle(cycles[i])

\* POST /topologies/validate answers for POST /topologies: "Validate a
\* workflow topology configuration without creating it".
ValidatedCanBeStored ==
    asker = "validate" /\ verdict \in Types => \E limited \in BOOLEAN : Sound(verdict, limited)
=============================================================================

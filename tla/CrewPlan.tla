------------------------------ MODULE CrewPlan ------------------------------
(***************************************************************************)
(* How CrewAIWorkflowRuntime (src/crewai_runtime/runtime.py) turns a       *)
(* workflow definition into a crew: the order of the nodes, the agent that *)
(* manages, the specialists, and one task per node with the earlier tasks  *)
(* whose outputs it is given as context.                                   *)
(*                                                                         *)
(* A definition is a graph of nodes with an agent behind each.  Agents are *)
(* looked up in a file of their own when the run starts, so a node may be  *)
(* left without one.  Prompts, models, memory and knowledge are left out.  *)
(* In the definitions below an operator marked "Fault" is a bug the code   *)
(* does not have, which some property has to notice.                       *)
(***************************************************************************)
EXTENDS Integers, Sequences

CONSTANTS
    Nodes,          \* node ids
    Agents,         \* agent ids
    NoNode,         \* `None` where a node may stand
    Definitions     \* the workflow definitions a run may be asked for

\* What the planning reads of WorkflowConfig, TopologyConfig and AgentConfig.
Definition ==
    [nodes      : Seq(Nodes),           \* topology.nodes, in the order of the file
     entry      : Nodes,                \* topology.entry_node
     edges      : Seq(Nodes \X Nodes),  \* topology.edges
     agent      : [Nodes -> Agents],    \* agent_id of each node
     configured : SUBSET Agents,        \* agents found in the agents file
     selectors  : SUBSET Nodes,         \* is_router, or an agent that is a selector
     tooled     : SUBSET Agents,        \* agents with tools, configured or attached
     process    : {"sequential", "hierarchical"},
     tasks      : Seq([node : Nodes, agent : Agents])]  \* explicit tasks

In(x, s) == \E i \in 1..Len(s) : s[i] = x

\* What validate_edges and validate_entry_node ensure, and that no two nodes
\* have one id, which the editor sees to and no validator checks.
WellFormed(d) ==
    /\ \A i, j \in 1..Len(d.nodes) : d.nodes[i] = d.nodes[j] => i = j
    /\ In(d.entry, d.nodes)
    /\ \A k \in 1..Len(d.edges) : In(d.edges[k][1], d.nodes) /\ In(d.edges[k][2], d.nodes)

ASSUME PlanAssumption ==
    /\ NoNode \notin Nodes
    /\ Definitions \subseteq Definition
    /\ \A d \in Definitions : WellFormed(d)

VARIABLES
    def,            \* the definition of this run
    plan,           \* "ordering", "staffing", "tasking", "ready" or "refused"
    ordered,        \* _ordered_nodes, as far as it got
    path,           \* the nested calls of visit(), innermost first
    manager,        \* manager_node
    crew,           \* the agents in crew_agent_by_id
    explicit,       \* whether the tasks are made from workflow.tasks
    item,           \* the next item a task is made from
    tasks           \* the tasks, index-aligned with their TaskMeta

planVars == <<def, plan, ordered, path, manager, crew, explicit, item, tasks>>

NodeSet(d) == {d.nodes[i] : i \in 1..Len(d.nodes)}

\* A task and its TaskMeta, both named after the node.
Task == [node : Nodes, agent : Agents, context : SUBSET Nodes, final : BOOLEAN]

First(i, S) == i \in S /\ \A k \in S : i <= k

-----------------------------------------------------------------------------
(* _ordered_nodes: depth first from the entry node along the edges in the  *)
(* order of the file, then the nodes not reached.  Without edges that is   *)
(* the entry node and the others in order, as the code's first branch says.*)

\* The edges by which visit(n) still has somewhere to go.
Open(n) == {k \in 1..Len(def.edges) : def.edges[k][1] = n /\ ~In(def.edges[k][2], ordered)}

\* The nodes the walk did not reach.
Unseen == {i \in 1..Len(def.nodes) : ~In(def.nodes[i], ordered)}

PlanInit ==
    /\ def \in Definitions
    /\ plan = "ordering"
    /\ ordered = <<def.entry>>
    /\ path = <<def.entry>>
    /\ manager = NoNode
    /\ crew = {}
    /\ explicit = FALSE
    /\ item = 1
    /\ tasks = <<>>

\* Fault: an edge is followed whether or not its end was seen.
VisitAgain ==
    /\ plan = "ordering" /\ path # <<>>
    /\ LET Ways == {k \in 1..Len(def.edges) : def.edges[k][1] = Head(path)}
       IN IF Ways = {}
          THEN path' = Tail(path) /\ UNCHANGED ordered
          ELSE \E k \in Ways : /\ First(k, Ways)
                               /\ IF In(def.edges[k][2], ordered)
                                  THEN UNCHANGED ordered
                                  ELSE ordered' = Append(ordered, def.edges[k][2])
                               /\ path' = <<def.edges[k][2]>> \o Tail(path)
    /\ UNCHANGED <<def, plan, manager, crew, explicit, item, tasks>>

\* One call of visit() enters the next unseen successor, or returns.
Visit ==
    /\ plan = "ordering" /\ path # <<>>
    /\ IF Open(Head(path)) = {}
       THEN path' = Tail(path) /\ UNCHANGED ordered
       ELSE \E k \in Open(Head(path)) :
               /\ First(k, Open(Head(path)))
               /\ ordered' = Append(ordered, def.edges[k][2])
               /\ path' = <<def.edges[k][2]>> \o path
    /\ UNCHANGED <<def, plan, manager, crew, explicit, item, tasks>>

\* Fault: the nodes the walk did not reach are left out.
FinishOrderReached ==
    /\ plan = "ordering" /\ path = <<>>
    /\ plan' = "staffing"
    /\ UNCHANGED <<def, ordered, path, manager, crew, explicit, item, tasks>>

\* The unreached nodes are appended one by one.
FinishOrder ==
    /\ plan = "ordering" /\ path = <<>>
    /\ IF Unseen = {}
       THEN plan' = "staffing" /\ UNCHANGED ordered
       ELSE /\ \E i \in Unseen : First(i, Unseen) /\ ordered' = Append(ordered, def.nodes[i])
            /\ UNCHANGED plan
    /\ UNCHANGED <<def, path, manager, crew, explicit, item, tasks>>

-----------------------------------------------------------------------------
(* Manager and specialists                                                 *)

Staffed(n) == def.agent[n] \in def.configured

\* _manager_node: in a hierarchical crew, the first selector with an agent.
Leaders == {i \in 1..Len(ordered) : /\ def.process = "hierarchical"
                                    /\ ordered[i] \in def.selectors
                                    /\ Staffed(ordered[i])}

\* The manager's agent is no specialist, at whichever node it stands.
Specialists(leader) ==
    {def.agent[ordered[i]] : i \in {j \in 1..Len(ordered) :
        Staffed(ordered[j]) /\ (leader # NoNode => def.agent[ordered[j]] # def.agent[leader])}}

\* Fault: the task is named after the agent.
LeaderTaskByAgent(leader) ==
    [node |-> def.agent[leader], agent |-> def.agent[leader], context |-> {}, final |-> TRUE]

\* The manager-led crew has one task, without an assigned agent: the request.
LeaderTask(leader) == [node |-> leader, agent |-> def.agent[leader], context |-> {}, final |-> TRUE]

Staff ==
    /\ plan = "staffing"
    /\ \/ Leaders = {} /\ manager' = NoNode
       \/ \E i \in Leaders : First(i, Leaders) /\ manager' = ordered[i]
    /\ crew' = Specialists(manager')
    /\ IF crew' = {} \/ (manager' # NoNode /\ def.agent[manager'] \in def.tooled)
       THEN plan' = "refused" /\ UNCHANGED <<explicit, tasks>>
       ELSE IF manager' # NoNode
            THEN plan' = "ready" /\ tasks' = <<LeaderTask(manager')>> /\ UNCHANGED explicit
            ELSE plan' = "tasking" /\ explicit' = (def.tasks # <<>>) /\ UNCHANGED tasks
    /\ UNCHANGED <<def, ordered, path, item>>

-----------------------------------------------------------------------------
(* _create_tasks                                                           *)

Items == IF explicit THEN Len(def.tasks) ELSE Len(ordered)

NodeOf(i)  == IF explicit THEN def.tasks[i].node ELSE ordered[i]
AgentOf(i) == IF explicit THEN def.tasks[i].agent ELSE def.agent[ordered[i]]

TaskNodes == {tasks[i].node : i \in 1..Len(tasks)}

Predecessors(n) == {m \in Nodes : \E k \in 1..Len(def.edges) : def.edges[k] = <<m, n>>}

\* Fault: every earlier task is upstream.
ContextOfAll(n) == TaskNodes

\* _upstream_task_pairs, and all earlier tasks for an explicit one.
ContextOf(n) ==
    IF explicit THEN TaskNodes
    ELSE IF def.edges = <<>>
         THEN IF tasks = <<>> THEN {} ELSE {tasks[Len(tasks)].node}
         ELSE TaskNodes \cap Predecessors(n)

\* Fault: the first item is taken for the last.
IsFinalFirst(i) == i = 1

IsFinal(i) == i = Items

\* One turn of the loop: an item without an agent is skipped.
CreateTask ==
    /\ plan = "tasking" /\ item <= Items
    /\ item' = item + 1
    /\ IF AgentOf(item) \in crew
       THEN tasks' = Append(tasks, [node    |-> NodeOf(item),
                                    agent   |-> AgentOf(item),
                                    context |-> ContextOf(NodeOf(item)),
                                    final   |-> IsFinal(item)])
       ELSE UNCHANGED tasks
    /\ UNCHANGED <<def, plan, ordered, path, manager, crew, explicit>>

\* Explicit tasks none of which has an agent give way to the nodes.
FinishTasks ==
    /\ plan = "tasking" /\ item > Items
    /\ IF tasks = <<>> /\ explicit
       THEN explicit' = FALSE /\ item' = 1 /\ UNCHANGED plan
       ELSE plan' = "ready" /\ UNCHANGED <<explicit, item>>
    /\ UNCHANGED <<def, ordered, path, manager, crew, tasks>>

PlanNext == Visit \/ FinishOrder \/ Staff \/ CreateTask \/ FinishTasks

PlanSpec == PlanInit /\ [][PlanNext]_planVars

-----------------------------------------------------------------------------
(* Properties                                                              *)

\* Types of the plan.
PlanTypeOK ==
    /\ def \in Definition /\ WellFormed(def)
    /\ plan \in {"ordering", "staffing", "tasking", "ready", "refused"}
    /\ ordered \in Seq(Nodes)
    /\ path \in Seq(Nodes)
    /\ manager \in Nodes \cup {NoNode}
    /\ crew \subseteq Agents
    /\ explicit \in BOOLEAN
    /\ item \in Nat
    /\ tasks \in Seq(Task)

\* The crew is planned from the nodes of the graph, one task for each.
FromNodes == plan = "ready" /\ manager = NoNode /\ ~explicit

\* A crew planned from the graph gives every node whose agent exists exactly
\* one task and no other node any: branches, joins, cycles and unreachable
\* parts neither lose a node nor run it twice (_ordered_nodes, _create_tasks).
EveryStaffedNodeHasOneTask ==
    FromNodes =>
        /\ \A n \in NodeSet(def) : Staffed(n) => In(n, [i \in 1..Len(tasks) |-> tasks[i].node])
        /\ \A i, j \in 1..Len(tasks) : tasks[i].node = tasks[j].node => i = j
        /\ \A i \in 1..Len(tasks) : tasks[i].node \in NodeSet(def) /\ Staffed(tasks[i].node)

\* A tree, as validate_topology defines it: one parent each, all reachable.
\* Reachable: no set closed under the edges that holds the entry omits a node.
Closed(d, S) == \A k \in 1..Len(d.edges) : d.edges[k][1] \in S => d.edges[k][2] \in S
IsTree(d) ==
    /\ d.edges # <<>>
    /\ \A j, k \in 1..Len(d.edges) : d.edges[j][2] = d.edges[k][2] => j = k
    /\ \A k \in 1..Len(d.edges) : d.edges[k][2] # d.entry
    /\ \A S \in SUBSET NodeSet(d) : d.entry \in S /\ Closed(d, S) => S = NodeSet(d)

\* In a sequential or tree topology no context is lost: a task is given the
\* output of every node with an edge to it (_upstream_task_pairs).
TreesKeepTheirContext ==
    FromNodes /\ IsTree(def) =>
        \A i \in 1..Len(tasks) :
            tasks[i].context = {m \in Predecessors(tasks[i].node) : Staffed(m)}

\* Whatever a task is given as context runs before it, and nothing but the
\* last task is told that its output is the reply: a crew never waits for a
\* later task and never answers in the middle.
ContextComesFirst ==
    \A i \in 1..Len(tasks) :
        /\ \A m \in tasks[i].context : \E j \in 1..(i-1) : tasks[j].node = m
        /\ tasks[i].final => i = Len(tasks)

\* The crew is the graph: its nodes, what leads to them, in an order that runs.
PlanIsFaithful == EveryStaffedNodeHasOneTask /\ TreesKeepTheirContext /\ ContextComesFirst
=============================================================================

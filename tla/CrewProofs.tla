----------------------------- MODULE CrewProofs -----------------------------
(***************************************************************************)
(* Proofs about CrewPlan and CrewRun for all definitions, whatever their   *)
(* graphs, agents and tasks, and any number of delegations: the plan is    *)
(* the graph, and the frames tell the run.  And about ModelRoutes for all  *)
(* providers, keys and settings: what was entered is kept, and what the    *)
(* canvas finds is what the run will meet.                                 *)
(***************************************************************************)
EXTENDS CrewRun, ModelRoutes, SequenceLemmas

-----------------------------------------------------------------------------
(* Sequences                                                               *)

LEMMA AppendHas ==
    ASSUME NEW S, NEW s \in Seq(S), NEW e \in S, NEW x
    PROVE  In(x, Append(s, e)) <=> In(x, s) \/ x = e
<1>1. /\ Len(s) \in Nat /\ Len(Append(s, e)) = Len(s) + 1
      /\ \A i \in 1..Len(s) : Append(s, e)[i] = s[i]
      /\ Append(s, e)[Len(s) + 1] = e
  BY AppendProperties, LenProperties
<1> HIDE DEF In
<1>2. ASSUME In(x, s) PROVE In(x, Append(s, e))
  BY <1>1, <1>2 DEF In
<1>3. ASSUME x = e PROVE In(x, Append(s, e))
  BY <1>1, <1>3 DEF In
<1>4. ASSUME In(x, Append(s, e)) PROVE In(x, s) \/ x = e
  BY <1>1, <1>4 DEF In
<1> QED
  BY <1>2, <1>3, <1>4

LEMMA PushHas ==
    ASSUME NEW S, NEW s \in Seq(S), NEW e \in S, NEW x
    PROVE  /\ <<e>> \o s \in Seq(S)
           /\ In(x, <<e>> \o s) <=> x = e \/ In(x, s)
<1>1. <<e>> \in Seq(S) /\ Len(<<e>>) = 1 /\ <<e>>[1] = e
  OBVIOUS
<1>2. /\ <<e>> \o s \in Seq(S)
      /\ Len(s) \in Nat /\ Len(<<e>> \o s) = 1 + Len(s)
      /\ \A i \in 1..(1 + Len(s)) : (<<e>> \o s)[i] = IF i <= 1 THEN <<e>>[i] ELSE s[i - 1]
  BY <1>1, ConcatProperties, LenProperties
<1>3. PICK t : t = <<e>> \o s
  OBVIOUS
<1>4. /\ Len(t) = 1 + Len(s) /\ t[1] = e
      /\ \A i \in 1..Len(s) : t[i + 1] = s[i]
  BY <1>1, <1>2, <1>3
<1>5. ASSUME In(x, s) PROVE In(x, t)
  BY <1>2, <1>4, <1>5 DEF In
<1>6. ASSUME x = e PROVE In(x, t)
  BY <1>2, <1>4, <1>6 DEF In
<1>7. ASSUME In(x, t) PROVE x = e \/ In(x, s)
  <2>1. PICK i \in 1..(1 + Len(s)) : t[i] = x
    BY <1>4, <1>7 DEF In
  <2>2. CASE i = 1
    BY <1>4, <2>1, <2>2
  <2>3. CASE i # 1
    BY <1>2, <1>4, <2>1, <2>3 DEF In
  <2> QED
    BY <2>2, <2>3
<1> QED
  BY <1>2, <1>3, <1>5, <1>6, <1>7

LEMMA PopHas ==
    ASSUME NEW S, NEW s \in Seq(S), s # <<>>, NEW x
    PROVE  /\ Tail(s) \in Seq(S) /\ Head(s) \in S /\ In(Head(s), s)
           /\ In(x, s) => x = Head(s) \/ In(x, Tail(s))
           /\ In(x, Tail(s)) => In(x, s)
<1>1. /\ Len(s) \in Nat /\ Len(s) > 0 /\ Head(s) = s[1] /\ Head(s) \in S
      /\ Tail(s) \in Seq(S) /\ Len(Tail(s)) = Len(s) - 1
      /\ \A i \in 1..(Len(s) - 1) : Tail(s)[i] = s[i + 1]
  BY HeadTailProperties, LenProperties, EmptySeq
<1>2. In(Head(s), s)
  BY <1>1 DEF In
<1>3. ASSUME In(x, s), x # Head(s) PROVE In(x, Tail(s))
  <2>1. PICK i \in 1..Len(s) : s[i] = x
    BY <1>3 DEF In
  <2>2. i - 1 \in 1..(Len(s) - 1) /\ Tail(s)[i - 1] = x
    BY <1>1, <1>3, <2>1
  <2> QED
    BY <1>1, <2>2 DEF In
<1>4. ASSUME In(x, Tail(s)) PROVE In(x, s)
  <2>1. PICK i \in 1..(Len(s) - 1) : s[i + 1] = x
    BY <1>1, <1>4 DEF In
  <2>2. i + 1 \in 1..Len(s)
    BY <1>1
  <2> QED
    BY <2>1, <2>2 DEF In
<1> QED
  BY <1>1, <1>2, <1>3, <1>4

-----------------------------------------------------------------------------
(***************************************************************************)
(* The plan (CrewPlan)                                                     *)
(***************************************************************************)

\* Types of the plan, and the definition it is made for.
PlanDataOK ==
    /\ def \in Definitions
    /\ plan \in {"ordering", "staffing", "tasking", "ready", "refused"}
    /\ ordered \in Seq(Nodes) /\ path \in Seq(Nodes)
    /\ manager \in Nodes \cup {NoNode}
    /\ crew \subseteq Agents
    /\ explicit \in BOOLEAN
    /\ item \in Nat \ {0}
    /\ tasks \in Seq(Task)

\* s has nodes of d, the entry first and none twice.
IsOrder(d, s) ==
    /\ s \in Seq(Nodes) /\ Len(s) > 0 /\ s[1] = d.entry
    /\ \A i, j \in 1..Len(s) : s[i] = s[j] => i = j
    /\ \A i \in 1..Len(s) : In(s[i], d.nodes)

\* The order is one of the definition's nodes, in the end of all.
OrderOK ==
    /\ IsOrder(def, ordered)
    /\ \A i \in 1..Len(path) : In(path[i], ordered)
    /\ plan # "ordering" => path = <<>> /\ \A i \in 1..Len(def.nodes) : In(def.nodes[i], ordered)

\* The edges lead everywhere from the entry.
Spans(d) == \A S \in SUBSET NodeSet(d) : d.entry \in S /\ Closed(d, S) => S = NodeSet(d)

\* Then the walk leaves a node when it has been down every edge, and comes to a node
\* from one that leads to it.
WalkOK ==
    Spans(def) =>
        /\ \A n \in Nodes : In(n, ordered) /\ ~In(n, path) => Open(n) = {}
        /\ \A i \in 2..Len(ordered) : \E k \in 1..Len(def.edges), j \in 1..(i - 1) :
              def.edges[k][1] = ordered[j] /\ def.edges[k][2] = ordered[i]

\* Who is in the crew, and when there are tasks.
StaffOK ==
    /\ plan \in {"ordering", "staffing"} =>
          tasks = <<>> /\ item = 1 /\ explicit = FALSE /\ manager = NoNode
    /\ plan = "refused" => tasks = <<>>
    /\ plan \in {"tasking", "ready"} => crew = Specialists(manager)
    /\ plan = "tasking" => manager = NoNode
    /\ plan = "ready" /\ manager # NoNode => tasks = <<LeaderTask(manager)>>

\* A crew of its own, as opposed to one that a manager leads.
OwnCrew == plan \in {"tasking", "ready"} /\ manager = NoNode

\* A task comes after its context, and the last item makes the last task.
TasksOK ==
    OwnCrew =>
        /\ plan = "ready" => item > Items
        /\ \A i \in 1..Len(tasks) :
              /\ \A m \in tasks[i].context : \E j \in 1..(i - 1) : tasks[j].node = m
              /\ tasks[i].final => i = Len(tasks) /\ item > Items

\* The tasks are those of the staffed nodes before the item, each once.
NodeTasksOK ==
    OwnCrew /\ explicit = FALSE =>
        /\ \A i \in 1..Len(tasks) : \E p \in 1..Len(ordered) :
              p < item /\ tasks[i].node = ordered[p] /\ Staffed(ordered[p])
        /\ \A p \in 1..Len(ordered) :
              p < item /\ Staffed(ordered[p]) => \E i \in 1..Len(tasks) : tasks[i].node = ordered[p]
        /\ \A i, j \in 1..Len(tasks) : tasks[i].node = tasks[j].node => i = j
        /\ IsTree(def) => \A i \in 1..Len(tasks) :
              tasks[i].context = {m \in Predecessors(tasks[i].node) : Staffed(m)}

PlanInv == PlanDataOK /\ OrderOK /\ WalkOK /\ StaffOK /\ TasksOK /\ NodeTasksOK

\* What the planning may take from a definition.
LEMMA DefinitionSays ==
    ASSUME NEW d \in Definitions
    PROVE  /\ d \in Definition /\ WellFormed(d)
           /\ d.entry \in Nodes /\ In(d.entry, d.nodes)
           /\ d.nodes \in Seq(Nodes) /\ Len(d.nodes) \in Nat
           /\ \A i \in 1..Len(d.nodes) : d.nodes[i] \in Nodes
           /\ Len(d.edges) \in Nat
           /\ \A k \in 1..Len(d.edges) :
                 /\ d.edges[k][1] \in Nodes /\ d.edges[k][2] \in Nodes
                 /\ In(d.edges[k][1], d.nodes) /\ In(d.edges[k][2], d.nodes)
                 /\ d.edges[k] = <<d.edges[k][1], d.edges[k][2]>>
           /\ \A n \in Nodes : d.agent[n] \in Agents
           /\ d.tasks \in Seq([node : Nodes, agent : Agents]) /\ Len(d.tasks) \in Nat
           /\ \A i \in 1..Len(d.tasks) : d.tasks[i].node \in Nodes /\ d.tasks[i].agent \in Agents
<1>1. d \in Definition /\ WellFormed(d)
  BY PlanAssumption DEF PlanAssumption
<1>2. /\ d.entry \in Nodes /\ d.nodes \in Seq(Nodes) /\ d.edges \in Seq(Nodes \X Nodes)
      /\ d.agent \in [Nodes -> Agents] /\ d.tasks \in Seq([node : Nodes, agent : Agents])
  BY <1>1 DEF Definition
<1>3. /\ Len(d.nodes) \in Nat /\ Len(d.edges) \in Nat /\ Len(d.tasks) \in Nat
      /\ \A i \in 1..Len(d.nodes) : d.nodes[i] \in Nodes
      /\ \A k \in 1..Len(d.edges) : d.edges[k] \in Nodes \X Nodes
      /\ \A i \in 1..Len(d.tasks) : d.tasks[i] \in [node : Nodes, agent : Agents]
  BY <1>2, LenProperties, ElementOfSeq
<1> QED
  BY <1>1, <1>2, <1>3 DEF WellFormed

LEMMA OrderedNodes ==
    ASSUME PlanDataOK
    PROVE  /\ Len(ordered) \in Nat /\ Len(tasks) \in Nat
           /\ \A i \in 1..Len(ordered) : ordered[i] \in Nodes
           /\ \A i \in 1..Len(tasks) : tasks[i] \in Task
BY LenProperties, ElementOfSeq DEF PlanDataOK

LEMMA PlanInitInv == PlanInit => PlanInv
<1> SUFFICES ASSUME PlanInit PROVE PlanInv
  OBVIOUS
<1>1. /\ def \in Definitions /\ plan = "ordering" /\ ordered = <<def.entry>> /\ path = <<def.entry>>
      /\ manager = NoNode /\ crew = {} /\ explicit = FALSE /\ item = 1 /\ tasks = <<>>
  BY DEF PlanInit
<1>2. def.entry \in Nodes /\ In(def.entry, def.nodes)
  BY <1>1, DefinitionSays
<1>3. ordered \in Seq(Nodes) /\ Len(ordered) = 1 /\ ordered[1] = def.entry
  BY <1>1, <1>2
<1>4. path \in Seq(Nodes) /\ Len(path) = 1 /\ path[1] = def.entry
  BY <1>1, <1>2
<1>5. PlanDataOK
  <2>1. tasks \in Seq(Task)
    BY <1>1, EmptySeq
  <2>2. /\ plan \in {"ordering", "staffing", "tasking", "ready", "refused"}
        /\ manager \in Nodes \cup {NoNode} /\ crew \subseteq Agents
        /\ item \in Nat \ {0}
    BY <1>1
  <2>3. explicit \in BOOLEAN
    BY <1>1, Zenon
  <2> QED
    BY <1>1, <1>3, <1>4, <2>1, <2>2, <2>3 DEF PlanDataOK
<1>6. OrderOK
  BY <1>1, <1>2, <1>3, <1>4 DEF OrderOK, IsOrder, In
<1>7. WalkOK
  BY <1>3, <1>4 DEF WalkOK, In
<1>8. StaffOK
  BY <1>1 DEF StaffOK
<1>9. ~OwnCrew
  BY <1>1 DEF OwnCrew
<1> QED
  BY <1>5, <1>6, <1>7, <1>8, <1>9 DEF PlanInv, TasksOK, NodeTasksOK

\* While the nodes are put in order there is nothing else.
LEMMA OrderingKeepsTheRest ==
    ASSUME StaffOK, plan = "ordering", plan' \in {"ordering", "staffing"},
           manager' = manager, explicit' = explicit, item' = item, tasks' = tasks
    PROVE  StaffOK' /\ TasksOK' /\ NodeTasksOK'
BY DEF StaffOK, TasksOK, NodeTasksOK, OwnCrew

\* The order with one more node.
LEMMA OneMoreNode ==
    ASSUME NEW d \in Definitions, NEW s, IsOrder(d, s), NEW n \in Nodes,
           In(n, d.nodes), ~In(n, s)
    PROVE  /\ IsOrder(d, Append(s, n))
           /\ Len(Append(s, n)) = Len(s) + 1 /\ Append(s, n)[Len(s) + 1] = n
           /\ \A i \in 1..Len(s) : Append(s, n)[i] = s[i]
<1>1. PICK t : t = Append(s, n)
  OBVIOUS
<1>2. /\ Len(s) \in Nat
      /\ t \in Seq(Nodes) /\ Len(t) = Len(s) + 1 /\ t[Len(s) + 1] = n
      /\ \A i \in 1..Len(s) : t[i] = s[i]
  BY <1>1, AppendProperties, LenProperties DEF IsOrder
<1>3. \A i \in 1..Len(s) : s[i] # n
  BY DEF In
<1>4. \A i \in 1..Len(t) : i \in 1..Len(s) \/ i = Len(s) + 1
  BY <1>2
<1>5. \A i, j \in 1..Len(t) : t[i] = t[j] => i = j
  BY <1>2, <1>3, <1>4 DEF IsOrder
<1>6. \A i \in 1..Len(t) : In(t[i], d.nodes)
  BY <1>2, <1>4 DEF IsOrder
<1>7. Len(t) > 0 /\ t[1] = d.entry
  BY <1>2 DEF IsOrder
<1>8. IsOrder(d, t)
  BY <1>2, <1>5, <1>6, <1>7 DEF IsOrder
<1> QED
  BY <1>1, <1>2, <1>8

LEMMA VisitKeepsInv == PlanInv /\ Visit => PlanInv'
<1> SUFFICES ASSUME PlanInv, Visit PROVE PlanInv'
  OBVIOUS
<1>1. /\ plan = "ordering" /\ path # <<>>
      /\ def' = def /\ plan' = plan /\ manager' = manager /\ crew' = crew
      /\ explicit' = explicit /\ item' = item /\ tasks' = tasks
  BY DEF Visit
<1>2. /\ PlanDataOK /\ OrderOK /\ WalkOK /\ StaffOK
      /\ def \in Definitions /\ ordered \in Seq(Nodes) /\ path \in Seq(Nodes)
  BY DEF PlanInv, PlanDataOK
<1>3. StaffOK' /\ TasksOK' /\ NodeTasksOK'
  BY <1>1, <1>2, OrderingKeepsTheRest
<1>4. /\ Len(ordered) \in Nat /\ Len(path) \in Nat
      /\ Head(path) \in Nodes /\ In(Head(path), path)
      /\ \A x : In(x, path) => In(x, ordered)
  BY <1>1, <1>2, LenProperties, PopHas DEF OrderOK, In
<1>5. CASE Open(Head(path)) = {}
  <2>1. path' = Tail(path) /\ ordered' = ordered
    BY <1>5 DEF Visit
  <2>2. /\ path' \in Seq(Nodes)
        /\ \A x : In(x, path) => x = Head(path) \/ In(x, path')
        /\ \A x : In(x, path') => In(x, path)
    BY <1>1, <1>2, <2>1, PopHas
  <2>3. PlanDataOK'
    BY <1>1, <1>2, <2>1, <2>2 DEF PlanDataOK
  <2>4. \A i \in 1..Len(path') : In(path'[i], ordered)
    BY <1>4, <2>2 DEF In
  <2>5. OrderOK'
    BY <1>1, <1>2, <2>1, <2>4 DEF OrderOK, IsOrder
  <2>6. WalkOK'
    <3>1. \A n : Open(n)' = Open(n)
      BY <1>1, <2>1 DEF Open
    <3> QED
      BY <1>1, <1>2, <1>5, <2>1, <2>2, <3>1 DEF WalkOK
  <2> QED
    BY <1>3, <2>3, <2>5, <2>6 DEF PlanInv
<1>6. CASE Open(Head(path)) # {}
  <2>1. PICK k \in Open(Head(path)) :
           ordered' = Append(ordered, def.edges[k][2]) /\ path' = <<def.edges[k][2]>> \o path
    BY <1>6 DEF Visit
  <2>2. PICK n : n = def.edges[k][2]
    OBVIOUS
  <2>3. /\ k \in 1..Len(def.edges) /\ def.edges[k][1] = Head(path)
        /\ n \in Nodes /\ In(n, def.nodes) /\ ~In(n, ordered)
    BY <1>2, <2>2, DefinitionSays DEF Open
  <2>4. /\ IsOrder(def, ordered') /\ ordered' \in Seq(Nodes)
        /\ Len(ordered') = Len(ordered) + 1 /\ ordered'[Len(ordered) + 1] = n
        /\ \A i \in 1..Len(ordered) : ordered'[i] = ordered[i]
    <3>1. ordered' = Append(ordered, n)
      BY <2>1, <2>2
    <3>2. IsOrder(def, Append(ordered, n)) => IsOrder(def, ordered') /\ ordered' \in Seq(Nodes)
      BY <3>1 DEF IsOrder
    <3> QED
      BY <1>2, <2>3, <3>1, <3>2, OneMoreNode DEF OrderOK
  <2>5. /\ path' \in Seq(Nodes)
        /\ \A x : In(x, path') <=> x = n \/ In(x, path)
        /\ \A x : In(x, ordered') <=> In(x, ordered) \/ x = n
    BY <1>2, <2>1, <2>2, <2>3, PushHas, AppendHas
  <2>6. PlanDataOK'
    BY <1>1, <1>2, <2>4, <2>5 DEF PlanDataOK
  <2>7. \A i \in 1..Len(path') : In(path'[i], ordered')
    <3>1. \A x : In(x, path') => In(x, ordered')
      BY <1>4, <2>5
    <3>2. \A i \in 1..Len(path') : In(path'[i], path')
      BY DEF In
    <3> QED
      BY <3>1, <3>2
  <2>8. OrderOK'
    BY <1>1, <1>4, <2>4, <2>7 DEF OrderOK, IsOrder
  <2>9. ASSUME Spans(def)
        PROVE  /\ \A m \in Nodes : In(m, ordered') /\ ~In(m, path') => Open(m)' = {}
               /\ \A i \in 2..Len(ordered') : \E e \in 1..Len(def.edges), j \in 1..(i - 1) :
                    def.edges[e][1] = ordered'[j] /\ def.edges[e][2] = ordered'[i]
    <3>1. \A m : Open(m)' \subseteq Open(m)
      BY <1>1, <2>5 DEF Open
    <3>2. ASSUME NEW m \in Nodes, In(m, ordered'), ~In(m, path') PROVE Open(m)' = {}
      BY <1>2, <2>5, <2>9, <3>1, <3>2 DEF WalkOK
    <3>3. ASSUME NEW i \in 2..Len(ordered')
          PROVE  \E e \in 1..Len(def.edges), j \in 1..(i - 1) :
                    def.edges[e][1] = ordered'[j] /\ def.edges[e][2] = ordered'[i]
      <4>1. CASE i = Len(ordered) + 1
        <5>1. PICK j \in 1..Len(ordered) : ordered[j] = Head(path)
          BY <1>4 DEF In
        <5>2. ordered'[j] = Head(path) /\ ordered'[i] = n /\ j \in 1..(i - 1)
          BY <1>4, <2>4, <4>1, <5>1
        <5> QED
          BY <2>2, <2>3, <5>2
      <4>2. CASE i # Len(ordered) + 1
        <5>1. i \in 2..Len(ordered) /\ \A j \in 1..(i - 1) : j \in 1..Len(ordered)
          BY <1>4, <2>4, <4>2
        <5> QED
          BY <1>2, <1>4, <2>4, <2>9, <5>1 DEF WalkOK
      <4> QED
        BY <4>1, <4>2
    <3> QED
      BY <3>2, <3>3
  <2>10. WalkOK'
    <3>1. Spans(def)' => Spans(def)
      BY <1>1
    <3> QED
      BY <1>1, <2>9, <3>1 DEF WalkOK
  <2> QED
    BY <1>3, <2>6, <2>8, <2>10 DEF PlanInv
<1> QED
  BY <1>5, <1>6

\* When the walk is over it has been everywhere.
LEMMA GraphsAreWalkedWhole ==
    ASSUME PlanDataOK, OrderOK, WalkOK, Spans(def), path = <<>>
    PROVE  \A i \in 1..Len(def.nodes) : In(def.nodes[i], ordered)
<1> DEFINE S == {n \in NodeSet(def) : In(n, ordered)}
<1>1. def \in Definitions /\ Len(ordered) > 0 /\ ordered[1] = def.entry
      /\ \A n \in Nodes : In(n, ordered) => Open(n) = {}
  <2>1. Len(path) = 0
    BY EmptySeq
  <2>2. \A n : ~In(n, path)
    BY <2>1 DEF In
  <2> QED
    BY <2>2 DEF PlanDataOK, OrderOK, IsOrder, WalkOK
<1>2. \A n : n \in NodeSet(def) <=> In(n, def.nodes)
  BY DEF NodeSet, In
<1>3. def.entry \in S
  BY <1>1, <1>2, OrderedNodes, DefinitionSays DEF In
<1>4. Closed(def, S)
  <2> SUFFICES ASSUME NEW k \in 1..Len(def.edges), def.edges[k][1] \in S
               PROVE  def.edges[k][2] \in S
    BY DEF Closed
  <2>1. /\ def.edges[k][1] \in Nodes /\ def.edges[k][2] \in NodeSet(def)
    BY <1>1, <1>2, DefinitionSays
  <2>2. Open(def.edges[k][1]) = {}
    BY <1>1, <2>1
  <2> QED
    BY <2>1, <2>2 DEF Open
<1>5. S \in SUBSET NodeSet(def)
  OBVIOUS
<1>6. S = NodeSet(def)
  <2> HIDE DEF S
  <2> QED
    BY <1>3, <1>4, <1>5 DEF Spans
<1> QED
  BY <1>6 DEF NodeSet

LEMMA FinishOrderKeepsInv == PlanInv /\ FinishOrder => PlanInv'
<1> SUFFICES ASSUME PlanInv, FinishOrder PROVE PlanInv'
  OBVIOUS
<1>1. /\ plan = "ordering" /\ path = <<>> /\ path' = path
      /\ def' = def /\ manager' = manager /\ crew' = crew
      /\ explicit' = explicit /\ item' = item /\ tasks' = tasks
  BY DEF FinishOrder
<1>2. /\ PlanDataOK /\ OrderOK /\ WalkOK /\ StaffOK
      /\ def \in Definitions /\ ordered \in Seq(Nodes)
  BY DEF PlanInv, PlanDataOK
<1>3. plan' \in {"ordering", "staffing"}
  BY <1>1 DEF FinishOrder
<1>4. StaffOK' /\ TasksOK' /\ NodeTasksOK'
  BY <1>1, <1>2, <1>3, OrderingKeepsTheRest
<1>5. CASE Unseen = {}
  <2>1. plan' = "staffing" /\ ordered' = ordered
    BY <1>5 DEF FinishOrder
  <2>2. \A i \in 1..Len(def.nodes) : In(def.nodes[i], ordered)
    BY <1>5 DEF Unseen
  <2>3. PlanDataOK'
    BY <1>1, <1>2, <2>1 DEF PlanDataOK
  <2>4. OrderOK'
    BY <1>1, <1>2, <2>1, <2>2 DEF OrderOK, IsOrder
  <2>5. WalkOK'
    <3>1. (\A n : Open(n)' = Open(n)) /\ (Spans(def)' => Spans(def))
      BY <1>1, <2>1 DEF Open
    <3> QED
      BY <1>1, <1>2, <2>1, <3>1 DEF WalkOK
  <2> QED
    BY <1>4, <2>3, <2>4, <2>5 DEF PlanInv
<1>6. CASE Unseen # {}
  <2>1. PICK i \in Unseen : ordered' = Append(ordered, def.nodes[i])
    BY <1>6 DEF FinishOrder
  <2>2. plan' = plan
    BY <1>6 DEF FinishOrder
  <2>3. PICK n : n = def.nodes[i]
    OBVIOUS
  <2>4. i \in 1..Len(def.nodes) /\ n \in Nodes /\ In(n, def.nodes) /\ ~In(n, ordered)
    BY <1>2, <2>3, DefinitionSays DEF Unseen, In
  <2>5. IsOrder(def, ordered') /\ ordered' \in Seq(Nodes)
    <3>1. ordered' = Append(ordered, n)
      BY <2>1, <2>3
    <3>2. IsOrder(def, Append(ordered, n)) => IsOrder(def, ordered') /\ ordered' \in Seq(Nodes)
      BY <3>1 DEF IsOrder
    <3> QED
      BY <1>2, <2>4, <3>2, OneMoreNode DEF OrderOK
  <2>6. PlanDataOK'
    BY <1>1, <1>2, <2>2, <2>5 DEF PlanDataOK
  <2>7. OrderOK'
    BY <1>1, <2>2, <2>5, EmptySeq DEF OrderOK, IsOrder
  <2>8. ~Spans(def)
    BY <1>1, <1>2, <2>3, <2>4, GraphsAreWalkedWhole
  <2>9. WalkOK'
    <3>1. Spans(def)' => Spans(def)
      BY <1>1
    <3> QED
      BY <2>8, <3>1 DEF WalkOK
  <2> QED
    BY <1>4, <2>6, <2>7, <2>9 DEF PlanInv
<1> QED
  BY <1>5, <1>6

\* The order is done with.
LEMMA TheOrderStays ==
    ASSUME PlanInv, plan # "ordering", plan' # "ordering",
           def' = def, ordered' = ordered, path' = path
    PROVE  OrderOK' /\ WalkOK'
<1>1. OrderOK'
  BY DEF PlanInv, OrderOK, IsOrder
<1>2. (\A n : Open(n)' = Open(n)) /\ (Spans(def)' => Spans(def))
  BY DEF Open
<1>3. WalkOK'
  BY <1>2 DEF PlanInv, WalkOK
<1> QED
  BY <1>1, <1>3

LEMMA StaffKeepsInv == PlanInv /\ Staff => PlanInv'
<1> SUFFICES ASSUME PlanInv, Staff PROVE PlanInv'
  OBVIOUS
<1>1. /\ plan = "staffing" /\ plan' \in {"refused", "ready", "tasking"}
      /\ def' = def /\ ordered' = ordered /\ path' = path /\ item' = item
      /\ crew' = Specialists(manager')
  BY DEF Staff
<1>2. /\ PlanDataOK /\ StaffOK /\ tasks = <<>> /\ item = 1 /\ explicit = FALSE
      /\ def \in Definitions /\ ordered \in Seq(Nodes)
      /\ \A i \in 1..Len(ordered) : ordered[i] \in Nodes
  BY <1>1, OrderedNodes DEF PlanInv, PlanDataOK, StaffOK
<1>3. OrderOK' /\ WalkOK'
  BY <1>1, TheOrderStays
<1>4. manager' \in Nodes \cup {NoNode}
  BY <1>2 DEF Staff, Leaders
<1>5. crew' \subseteq Agents
  BY <1>1, <1>2, DefinitionSays DEF Specialists
<1>6. \/ plan' = "refused" /\ tasks' = tasks /\ explicit' = explicit
      \/ plan' = "ready" /\ manager' # NoNode /\ tasks' = <<LeaderTask(manager')>>
         /\ explicit' = explicit
      \/ plan' = "tasking" /\ manager' = NoNode /\ tasks' = tasks
         /\ explicit' = (def.tasks # <<>>)
  BY DEF Staff
<1>7. tasks' \in Seq(Task)
  <2>1. CASE tasks' = tasks
    BY <1>2, <2>1 DEF PlanDataOK
  <2>2. ASSUME manager' # NoNode, tasks' = <<LeaderTask(manager')>>
        PROVE  tasks' \in Seq(Task)
    <3>1. def.agent[manager'] \in Agents
      BY <1>2, <1>4, <2>2, DefinitionSays
    <3>2. LeaderTask(manager') \in Task
      BY <1>4, <2>2, <3>1 DEF LeaderTask, Task
    <3> QED
      BY <2>2, <3>2
  <2> QED
    BY <1>6, <2>1, <2>2
<1>8. explicit' \in BOOLEAN
  BY <1>2, <1>6, Zenon
<1>9. PlanDataOK'
  BY <1>1, <1>2, <1>3, <1>4, <1>5, <1>7, <1>8 DEF PlanDataOK
<1>10. StaffOK'
  <2>1. \A m : Specialists(m)' = Specialists(m)
    BY <1>1 DEF Specialists, Staffed
  <2>2. \A m : LeaderTask(m)' = LeaderTask(m)
    BY <1>1 DEF LeaderTask
  <2> QED
    BY <1>1, <1>2, <1>6 DEF StaffOK, Specialists, Staffed, LeaderTask
<1>11. OwnCrew' => plan' = "tasking" /\ tasks' = <<>> /\ item' = 1
  BY <1>1, <1>2, <1>6 DEF OwnCrew
<1>12. Len(<<>>) = 0
  BY EmptySeq
<1>13. TasksOK'
  BY <1>11, <1>12 DEF TasksOK
<1>14. NodeTasksOK'
  BY <1>11, <1>12 DEF NodeTasksOK
<1> QED
  BY <1>3, <1>9, <1>10, <1>13, <1>14 DEF PlanInv

-----------------------------------------------------------------------------
(* The tasks                                                               *)

\* The item a task is made from.
LEMMA ItemIsThere ==
    ASSUME PlanInv, plan = "tasking", item <= Items
    PROVE  /\ NodeOf(item) \in Nodes /\ Items \in Nat
           /\ explicit = FALSE => item \in 1..Len(ordered) /\ NodeOf(item) = ordered[item]
                                  /\ Items = Len(ordered)
<1>1. /\ PlanDataOK /\ def \in Definitions /\ item \in Nat \ {0} /\ explicit \in BOOLEAN
  BY DEF PlanInv, PlanDataOK
<1>2. Len(ordered) \in Nat /\ Len(def.tasks) \in Nat
  BY <1>1, OrderedNodes, DefinitionSays
<1>3. CASE explicit = TRUE
  <2>1. Items = Len(def.tasks) /\ NodeOf(item) = def.tasks[item].node
    BY <1>3 DEF Items, NodeOf
  <2> QED
    BY <1>1, <1>2, <1>3, <2>1, DefinitionSays
<1>4. CASE explicit = FALSE
  <2>1. Items = Len(ordered) /\ NodeOf(item) = ordered[item]
    BY <1>4 DEF Items, NodeOf
  <2> QED
    BY <1>1, <1>2, <1>4, <2>1, OrderedNodes
<1> QED
  BY <1>1, <1>3, <1>4

\* In a tree the tasks made so far hold all that leads to the item.
LEMMA ContextInATree ==
    ASSUME PlanInv, plan = "tasking", item <= Items, explicit = FALSE, IsTree(def)
    PROVE  ContextOf(ordered[item]) = {m \in Predecessors(ordered[item]) : Staffed(m)}
<1>1. /\ PlanDataOK /\ OrderOK /\ WalkOK /\ NodeTasksOK /\ OwnCrew
      /\ item \in 1..Len(ordered) /\ def \in Definitions
  BY ItemIsThere DEF PlanInv, StaffOK, OwnCrew, PlanDataOK
<1>2. ContextOf(ordered[item]) = TaskNodes \cap Predecessors(ordered[item])
  BY DEF ContextOf, IsTree
<1>3. ASSUME NEW m \in TaskNodes PROVE Staffed(m)
  BY <1>1, <1>3 DEF TaskNodes, NodeTasksOK
<1>4. ASSUME NEW m \in Predecessors(ordered[item]), Staffed(m) PROVE m \in TaskNodes
  <2>1. PICK k \in 1..Len(def.edges) : def.edges[k] = <<m, ordered[item]>>
    BY DEF Predecessors
  <2>2. def.edges[k][1] = m /\ def.edges[k][2] = ordered[item]
    BY <2>1
  <2>3. item # 1
    BY <1>1, <2>2 DEF IsTree, OrderOK, IsOrder
  <2>4. item \in 2..Len(ordered)
    BY <1>1, <2>3
  <2>5. PICK e \in 1..Len(def.edges), j \in 1..(item - 1) :
           def.edges[e][1] = ordered[j] /\ def.edges[e][2] = ordered[item]
    BY <1>1, <2>4 DEF WalkOK, IsTree, Spans
  <2>6. e = k
    BY <2>2, <2>5 DEF IsTree
  <2>7. j \in 1..Len(ordered) /\ j < item /\ m = ordered[j]
    BY <1>1, <2>2, <2>5, <2>6
  <2>8. \E i \in 1..Len(tasks) : tasks[i].node = ordered[j]
    BY <1>1, <1>4, <2>7 DEF NodeTasksOK
  <2> QED
    BY <2>7, <2>8 DEF TaskNodes
<1> QED
  BY <1>2, <1>3, <1>4

\* The context of a new task is of earlier ones.
LEMMA ContextIsOfTasks ==
    ASSUME PlanDataOK, NEW n
    PROVE  ContextOf(n) \subseteq TaskNodes /\ TaskNodes \subseteq Nodes
<1>1. TaskNodes \subseteq Nodes
  BY OrderedNodes DEF TaskNodes, Task
<1>2. tasks # <<>> => tasks[Len(tasks)].node \in TaskNodes
  <2>1. tasks # <<>> => Len(tasks) \in 1..Len(tasks)
    BY EmptySeq DEF PlanDataOK
  <2> QED
    BY <2>1 DEF TaskNodes
<1> QED
  BY <1>1, <1>2 DEF ContextOf

\* A staffed node has its agent in the crew, and no other node has.
LEMMA StaffedIsInTheCrew ==
    ASSUME PlanDataOK, crew = Specialists(NoNode), NEW p \in 1..Len(ordered)
    PROVE  def.agent[ordered[p]] \in crew <=> Staffed(ordered[p])
BY DEF Specialists, Staffed

LEMMA CreateTaskKeepsInv == PlanInv /\ CreateTask => PlanInv'
<1> SUFFICES ASSUME PlanInv, CreateTask PROVE PlanInv'
  OBVIOUS
<1>1. /\ plan = "tasking" /\ plan' = "tasking" /\ item <= Items /\ item' = item + 1
      /\ def' = def /\ ordered' = ordered /\ path' = path /\ manager' = manager
      /\ crew' = crew /\ explicit' = explicit
  BY DEF CreateTask
<1>2. /\ PlanDataOK /\ StaffOK /\ TasksOK /\ NodeTasksOK /\ OwnCrew /\ manager = NoNode
      /\ crew = Specialists(NoNode)
      /\ item \in Nat \ {0} /\ def \in Definitions /\ tasks \in Seq(Task) /\ crew \subseteq Agents
  BY <1>1 DEF PlanInv, PlanDataOK, StaffOK, OwnCrew
<1>3. OrderOK' /\ WalkOK'
  BY <1>1, TheOrderStays
<1>4. /\ Len(tasks) \in Nat /\ Items \in Nat /\ NodeOf(item) \in Nodes
      /\ \A i \in 1..Len(tasks) : tasks[i] \in Task
      /\ Len(ordered) \in Nat /\ \A i \in 1..Len(ordered) : ordered[i] \in Nodes
  BY <1>1, <1>2, ItemIsThere, OrderedNodes
<1>5. /\ Items' = Items /\ OwnCrew' = OwnCrew
      /\ \A n : Staffed(n)' = Staffed(n)
      /\ \A n : Predecessors(n)' = Predecessors(n)
  BY <1>1 DEF Items, OwnCrew, Staffed, Predecessors
<1>6. StaffOK'
  BY <1>1, <1>2 DEF StaffOK, Specialists, Staffed
<1>7. IsTree(def)' => IsTree(def)
  BY <1>1
<1>8. CASE AgentOf(item) \notin crew
  <2>1. tasks' = tasks
    BY <1>8 DEF CreateTask
  <2>2. PlanDataOK'
    BY <1>1, <1>2, <2>1 DEF PlanDataOK
  <2>3. \A i \in 1..Len(tasks) : ~tasks[i].final
    BY <1>1, <1>2, <1>4 DEF TasksOK
  <2>4. TasksOK'
    BY <1>1, <1>2, <2>1, <2>3 DEF TasksOK
  <2>5. ASSUME explicit = FALSE, NEW p \in 1..Len(ordered), p < item + 1, Staffed(ordered[p])
        PROVE  p < item
    <3>1. p # item
      BY <1>2, <1>8, <2>5, StaffedIsInTheCrew DEF AgentOf
    <3> QED
      BY <1>2, <2>5, <3>1
  <2>6. \A p \in 1..Len(ordered) : p < item => p < item + 1
    BY <1>2
  <2>7. NodeTasksOK'
    <3>1. explicit' = FALSE => explicit = FALSE
      BY <1>1
    <3>2. SUFFICES ASSUME explicit = FALSE
          PROVE  NodeTasksOK'
      BY <3>1 DEF NodeTasksOK
    <3>3. \A i \in 1..Len(tasks) : \E p \in 1..Len(ordered) :
              p < item + 1 /\ tasks[i].node = ordered[p] /\ Staffed(ordered[p])
      BY <1>2, <2>6, <3>2 DEF NodeTasksOK
    <3>4. \A p \in 1..Len(ordered) : p < item + 1 /\ Staffed(ordered[p])
              => \E i \in 1..Len(tasks) : tasks[i].node = ordered[p]
      BY <1>2, <2>5, <3>2 DEF NodeTasksOK
    <3>5. \A i, j \in 1..Len(tasks) : tasks[i].node = tasks[j].node => i = j
      BY <1>2, <3>2 DEF NodeTasksOK
    <3>6. IsTree(def) => \A i \in 1..Len(tasks) :
              tasks[i].context = {m \in Predecessors(tasks[i].node) : Staffed(m)}
      BY <1>2, <3>2 DEF NodeTasksOK
    <3> QED
      BY <1>1, <1>5, <1>7, <2>1, <3>3, <3>4, <3>5, <3>6 DEF NodeTasksOK
  <2> QED
    BY <1>3, <1>6, <2>2, <2>4, <2>7 DEF PlanInv
<1>9. CASE AgentOf(item) \in crew
  <2>1. PICK t : /\ t = [node |-> NodeOf(item), agent |-> AgentOf(item),
                         context |-> ContextOf(NodeOf(item)), final |-> IsFinal(item)]
                 /\ tasks' = Append(tasks, t)
    BY <1>9 DEF CreateTask
  <2>2. /\ t.node = NodeOf(item) /\ t.context = ContextOf(NodeOf(item))
        /\ t.final = IsFinal(item)
        /\ t.context \subseteq TaskNodes
    BY <1>2, <2>1, ContextIsOfTasks
  <2>3. t \in Task
    <3>1. t.context \in SUBSET Nodes
      BY <1>2, <2>2, ContextIsOfTasks
    <3>2. IsFinal(item) \in BOOLEAN
      BY DEF IsFinal
    <3> QED
      BY <1>2, <1>4, <1>9, <2>1, <2>2, <3>1, <3>2 DEF Task
  <2>4. /\ tasks' \in Seq(Task) /\ Len(tasks') = Len(tasks) + 1
        /\ tasks'[Len(tasks) + 1] = t
        /\ \A i \in 1..Len(tasks) : tasks'[i] = tasks[i]
    BY <1>2, <2>1, <2>3, AppendProperties
  <2>5. \A i \in 1..Len(tasks') : i \in 1..Len(tasks) \/ i = Len(tasks) + 1
    BY <1>4, <2>4
  <2>6. PlanDataOK'
    BY <1>1, <1>2, <2>4 DEF PlanDataOK
  <2>7. \A i \in 1..Len(tasks) : ~tasks[i].final
    BY <1>1, <1>2, <1>4 DEF TasksOK
  <2>8. ASSUME NEW i \in 1..Len(tasks')
        PROVE  /\ \A m \in tasks'[i].context : \E j \in 1..(i - 1) : tasks'[j].node = m
               /\ tasks'[i].final => i = Len(tasks') /\ item' > Items'
    <3>1. CASE i \in 1..Len(tasks)
      <4>1. \A j \in 1..(i - 1) : j \in 1..Len(tasks) /\ tasks'[j] = tasks[j]
        BY <1>4, <2>4, <3>1
      <4> QED
        BY <1>2, <2>4, <2>7, <3>1, <4>1 DEF TasksOK
    <3>2. CASE i = Len(tasks) + 1
      <4>1. ASSUME NEW m \in t.context PROVE \E j \in 1..(i - 1) : tasks'[j].node = m
        <5>1. PICK j \in 1..Len(tasks) : tasks[j].node = m
          BY <2>2, <4>1 DEF TaskNodes
        <5> QED
          BY <1>4, <2>4, <3>2, <5>1
      <4>2. t.final => item = Items
        BY <2>2 DEF IsFinal
      <4>3. t.final => item' > Items'
        BY <1>1, <1>2, <1>5, <4>2
      <4> QED
        BY <2>4, <3>2, <4>1, <4>3
    <3> QED
      BY <2>5, <3>1, <3>2
  <2>9. TasksOK'
    BY <1>1, <2>8 DEF TasksOK
  <2>10. NodeTasksOK'
    <3>1. explicit' = FALSE => explicit = FALSE
      BY <1>1
    <3>2. SUFFICES ASSUME explicit = FALSE
          PROVE  NodeTasksOK'
      BY <3>1 DEF NodeTasksOK
    <3>3. /\ item \in 1..Len(ordered) /\ t.node = ordered[item] /\ Staffed(ordered[item])
      BY <1>1, <1>2, <1>9, <2>2, <3>2, ItemIsThere, StaffedIsInTheCrew DEF AgentOf
    <3>4. \A i \in 1..Len(tasks) : \E p \in 1..Len(ordered) :
              p < item /\ tasks[i].node = ordered[p] /\ Staffed(ordered[p])
      BY <1>2, <3>2 DEF NodeTasksOK
    <3>5. \A i \in 1..Len(tasks) : tasks[i].node # t.node
      BY <1>2, <3>3, <3>4 DEF PlanInv, OrderOK, IsOrder
    <3>6. \A i \in 1..Len(tasks') : \E p \in 1..Len(ordered) :
              p < item + 1 /\ tasks'[i].node = ordered[p] /\ Staffed(ordered[p])
      <4>1. \A p \in 1..Len(ordered) : p < item => p < item + 1
        BY <1>2
      <4>2. item < item + 1
        BY <1>2
      <4>3. SUFFICES ASSUME NEW i \in 1..Len(tasks')
                     PROVE  \E p \in 1..Len(ordered) :
                                p < item + 1 /\ tasks'[i].node = ordered[p] /\ Staffed(ordered[p])
        OBVIOUS
      <4>4. CASE i \in 1..Len(tasks)
        <5>1. tasks'[i] = tasks[i]
          BY <2>4, <4>4
        <5>2. PICK p \in 1..Len(ordered) : p < item /\ tasks[i].node = ordered[p] /\ Staffed(ordered[p])
          BY <3>4, <4>4
        <5>3. p < item + 1
          BY <4>1, <5>2
        <5> QED
          BY <5>1, <5>2, <5>3
      <4>5. CASE i = Len(tasks) + 1
        <5>1. tasks'[i] = t
          BY <2>4, <4>5
        <5> QED
          BY <3>3, <4>2, <5>1
      <4> QED
        BY <2>4, <2>5, <4>3, <4>4, <4>5
    <3>7. ASSUME NEW p \in 1..Len(ordered), p < item + 1, Staffed(ordered[p])
          PROVE  \E i \in 1..Len(tasks') : tasks'[i].node = ordered[p]
      <4>1. CASE p = item
        BY <1>4, <2>4, <3>3, <4>1
      <4>2. CASE p # item
        <5>1. p < item
          BY <1>2, <3>7, <4>2
        <5>2. PICK i \in 1..Len(tasks) : tasks[i].node = ordered[p]
          BY <1>2, <3>2, <3>7, <5>1 DEF NodeTasksOK
        <5> QED
          BY <1>4, <2>4, <5>2
      <4> QED
        BY <4>1, <4>2
    <3>8. \A i, j \in 1..Len(tasks') : tasks'[i].node = tasks'[j].node => i = j
      <4>1. \A i, j \in 1..Len(tasks) : tasks[i].node = tasks[j].node => i = j
        BY <1>2, <3>2 DEF NodeTasksOK
      <4> QED
        BY <2>4, <2>5, <3>5, <4>1
    <3>9. ASSUME IsTree(def), NEW i \in 1..Len(tasks')
          PROVE  tasks'[i].context = {m \in Predecessors(tasks'[i].node) : Staffed(m)}
      <4>1. CASE i \in 1..Len(tasks)
        BY <1>2, <2>4, <3>2, <3>9, <4>1 DEF NodeTasksOK
      <4>2. CASE i = Len(tasks) + 1
        BY <1>1, <2>2, <2>4, <3>2, <3>3, <3>9, <4>2, ContextInATree
      <4> QED
        BY <2>5, <4>1, <4>2
    <3> QED
      BY <1>1, <1>5, <1>7, <3>6, <3>7, <3>8, <3>9 DEF NodeTasksOK
  <2> QED
    BY <1>3, <1>6, <2>6, <2>9, <2>10 DEF PlanInv
<1> QED
  BY <1>8, <1>9

LEMMA FinishTasksKeepsInv == PlanInv /\ FinishTasks => PlanInv'
<1> SUFFICES ASSUME PlanInv, FinishTasks PROVE PlanInv'
  OBVIOUS
<1>1. /\ plan = "tasking" /\ item > Items /\ plan' \in {"tasking", "ready"}
      /\ def' = def /\ ordered' = ordered /\ path' = path /\ manager' = manager
      /\ crew' = crew /\ tasks' = tasks
  BY DEF FinishTasks
<1>2. /\ PlanDataOK /\ StaffOK /\ TasksOK /\ NodeTasksOK /\ OwnCrew /\ manager = NoNode
      /\ item \in Nat \ {0}
  BY <1>1 DEF PlanInv, PlanDataOK, StaffOK, OwnCrew
<1>3. OrderOK' /\ WalkOK'
  BY <1>1, TheOrderStays
<1>4. StaffOK'
  BY <1>1, <1>2 DEF StaffOK, Specialists, Staffed
<1>5. \/ plan' = "tasking" /\ explicit' = FALSE /\ item' = 1 /\ tasks = <<>>
      \/ plan' = "ready" /\ explicit' = explicit /\ item' = item
  BY DEF FinishTasks
<1>6. explicit' \in BOOLEAN
  BY <1>2, <1>5, Zenon DEF PlanDataOK
<1>7. PlanDataOK'
  BY <1>1, <1>2, <1>5, <1>6 DEF PlanDataOK
<1>8. CASE plan' = "tasking" /\ item' = 1 /\ tasks = <<>>
  <2>1. Len(tasks') = 0
    BY <1>1, <1>8, EmptySeq
  <2>2. TasksOK'
    BY <1>8, <2>1 DEF TasksOK
  <2>3. NodeTasksOK'
    BY <1>8, <2>1 DEF NodeTasksOK
  <2> QED
    BY <1>3, <1>4, <1>7, <2>2, <2>3 DEF PlanInv
<1>9. CASE plan' = "ready" /\ explicit' = explicit /\ item' = item
  <2>1. Items' = Items
    BY <1>1, <1>9 DEF Items
  <2>2. /\ \A n : Staffed(n)' = Staffed(n)
        /\ \A n : Predecessors(n)' = Predecessors(n)
        /\ IsTree(def)' => IsTree(def)
    BY <1>1 DEF Staffed, Predecessors
  <2>3. TasksOK'
    BY <1>1, <1>2, <1>9, <2>1 DEF TasksOK
  <2>4. NodeTasksOK'
    BY <1>1, <1>2, <1>9, <2>2 DEF NodeTasksOK
  <2> QED
    BY <1>3, <1>4, <1>7, <2>3, <2>4 DEF PlanInv
<1> QED
  BY <1>5, <1>8, <1>9

LEMMA PlanStepKeepsInv == PlanInv /\ [PlanNext]_planVars => PlanInv'
<1>1. PlanInv /\ UNCHANGED planVars => PlanInv'
  <2> SUFFICES ASSUME PlanInv, UNCHANGED planVars PROVE PlanInv'
    OBVIOUS
  <2>1. /\ def' = def /\ plan' = plan /\ ordered' = ordered /\ path' = path /\ manager' = manager
        /\ crew' = crew /\ explicit' = explicit /\ item' = item /\ tasks' = tasks
    BY DEF planVars
  <2>2. PlanDataOK' /\ OrderOK'
    BY <2>1 DEF PlanInv, PlanDataOK, OrderOK, IsOrder
  <2>3. WalkOK'
    <3>1. (\A n : Open(n)' = Open(n)) /\ (Spans(def)' => Spans(def))
      BY <2>1 DEF Open
    <3> QED
      BY <2>1, <3>1 DEF PlanInv, WalkOK
  <2>4. StaffOK'
    BY <2>1 DEF PlanInv, StaffOK, Specialists, Staffed, LeaderTask
  <2>5. /\ Items' = Items /\ OwnCrew' = OwnCrew
        /\ \A n : Staffed(n)' = Staffed(n)
        /\ \A n : Predecessors(n)' = Predecessors(n)
        /\ IsTree(def)' => IsTree(def)
    BY <2>1 DEF Items, OwnCrew, Staffed, Predecessors
  <2>6. TasksOK'
    BY <2>1, <2>5 DEF PlanInv, TasksOK
  <2>7. NodeTasksOK'
    BY <2>1, <2>5 DEF PlanInv, NodeTasksOK
  <2> QED
    BY <2>2, <2>3, <2>4, <2>6, <2>7 DEF PlanInv
<1> QED
  BY <1>1, VisitKeepsInv, FinishOrderKeepsInv, StaffKeepsInv, CreateTaskKeepsInv,
     FinishTasksKeepsInv DEF PlanNext

LEMMA PlanInvSays == PlanInv => PlanIsFaithful
<1> SUFFICES ASSUME PlanInv PROVE PlanIsFaithful
  OBVIOUS
<1>1. /\ PlanDataOK /\ OrderOK /\ StaffOK /\ TasksOK /\ NodeTasksOK
      /\ def \in Definitions /\ item \in Nat \ {0} /\ explicit \in BOOLEAN
      /\ Len(ordered) \in Nat /\ Len(tasks) \in Nat
      /\ \A i \in 1..Len(ordered) : ordered[i] \in Nodes
  BY OrderedNodes DEF PlanInv, PlanDataOK
<1>2. ASSUME FromNodes
      PROVE  /\ OwnCrew /\ explicit = FALSE /\ item > Len(ordered)
             /\ \A p \in 1..Len(ordered) : p < item
             /\ \A n \in NodeSet(def) : In(n, ordered)
  <2>1. OwnCrew /\ explicit = FALSE /\ plan = "ready"
    BY <1>2, <1>1 DEF FromNodes, OwnCrew
  <2>2. Items = Len(ordered)
    BY <2>1 DEF Items
  <2>3. item > Len(ordered)
    BY <1>1, <2>1, <2>2 DEF TasksOK
  <2>4. \A n \in NodeSet(def) : In(n, ordered)
    BY <1>1, <2>1 DEF OrderOK, NodeSet
  <2> QED
    BY <1>1, <2>1, <2>3, <2>4
<1>3. EveryStaffedNodeHasOneTask
  <2> SUFFICES ASSUME FromNodes
               PROVE  /\ \A n \in NodeSet(def) :
                            Staffed(n) => In(n, [i \in 1..Len(tasks) |-> tasks[i].node])
                      /\ \A i, j \in 1..Len(tasks) : tasks[i].node = tasks[j].node => i = j
                      /\ \A i \in 1..Len(tasks) :
                            tasks[i].node \in NodeSet(def) /\ Staffed(tasks[i].node)
    BY DEF EveryStaffedNodeHasOneTask
  <2>1. PICK nodes : nodes = [i \in 1..Len(tasks) |-> tasks[i].node]
    OBVIOUS
  <2>2. Len(nodes) = Len(tasks) /\ \A i \in 1..Len(tasks) : nodes[i] = tasks[i].node
    BY <1>1, <2>1
  <2>3. ASSUME NEW n \in NodeSet(def), Staffed(n) PROVE In(n, nodes)
    <3>1. PICK p \in 1..Len(ordered) : ordered[p] = n
      BY <1>2, <2>3 DEF In
    <3>2. PICK i \in 1..Len(tasks) : tasks[i].node = n
      BY <1>1, <1>2, <2>3, <3>1 DEF NodeTasksOK
    <3> QED
      BY <2>2, <3>2 DEF In
  <2>4. ASSUME NEW i \in 1..Len(tasks)
        PROVE  tasks[i].node \in NodeSet(def) /\ Staffed(tasks[i].node)
    <3>1. PICK p \in 1..Len(ordered) : tasks[i].node = ordered[p] /\ Staffed(ordered[p])
      BY <1>1, <1>2 DEF NodeTasksOK
    <3>2. In(ordered[p], def.nodes)
      BY <1>1 DEF OrderOK, IsOrder
    <3> QED
      BY <3>1, <3>2 DEF In, NodeSet
  <2>5. \A i, j \in 1..Len(tasks) : tasks[i].node = tasks[j].node => i = j
    BY <1>1, <1>2 DEF NodeTasksOK
  <2> QED
    BY <2>1, <2>3, <2>4, <2>5
<1>4. TreesKeepTheirContext
  BY <1>1, <1>2 DEF NodeTasksOK, TreesKeepTheirContext
<1>5. ContextComesFirst
  <2>1. CASE OwnCrew
    BY <1>1, <2>1 DEF TasksOK, ContextComesFirst
  <2>2. CASE tasks = <<>>
    <3>1. Len(tasks) = 0
      BY <2>2, EmptySeq
    <3> QED
      BY <3>1 DEF ContextComesFirst
  <2>3. CASE tasks = <<LeaderTask(manager)>>
    <3>1. Len(tasks) = 1 /\ tasks[1].context = {}
      BY <2>3 DEF LeaderTask
    <3> QED
      BY <3>1 DEF ContextComesFirst
  <2> QED
    BY <1>1, <2>1, <2>2, <2>3 DEF StaffOK, OwnCrew, PlanDataOK
<1> QED
  BY <1>3, <1>4, <1>5 DEF PlanIsFaithful

LEMMA PlanInvAlways == CrewSpec => []PlanInv
<1>1. RunInit => PlanInv
  BY PlanInitInv DEF RunInit
<1>2. PlanInv /\ [RunNext]_vars => PlanInv'
  <2>1. [RunNext]_vars => [PlanNext]_planVars
    BY DEF RunNext, vars, Plan, Kickoff, TaskDone, Returns, Raises, OwnStep, Delegated,
           Delegate, Step, Announce, Answer, Report
  <2> QED
    BY <2>1, PlanStepKeepsInv
<1> QED
  BY <1>1, <1>2, PTL DEF CrewSpec

\* A crew planned from the graph has one task for every node whose agent exists and no
\* other, a task of a tree is given the outputs of all that leads to it, and no task is
\* given what comes later (_ordered_nodes, _create_tasks): for every graph of any size,
\* with branches, joins, cycles and parts nobody reaches.
THEOREM PlansAreAlwaysFaithful == CrewSpec => []PlanIsFaithful
BY PlanInvAlways, PlanInvSays, PTL
-----------------------------------------------------------------------------
(***************************************************************************)
(* The run (CrewRun)                                                       *)
(***************************************************************************)

FrameType == [what : {"input", "output", "transfer"}, node : Nodes, shows : SUBSET Nodes]

\* Types of the run; before the kickoff there is nothing, and after it a plan.
RunDataOK ==
    /\ kickoff \in {"idle", "running", "returned", "raised"}
    /\ at \in Nat \ {0}
    /\ frames \in Seq(FrameType)
    /\ deleg \in [Delegations -> Delegation]
    /\ kickoff = "idle" =>
          /\ at = 1 /\ inputs = {} /\ outputs = {} /\ ran = {} /\ frames = <<>>
          /\ \A d \in Delegations : deleg[d].at = "none"
    /\ kickoff # "idle" => plan = "ready" /\ at <= Len(tasks) + 1

\* Only a manager delegates, to its crew, and a specialist that is announced has run.
ThreadsOK ==
    \A d \in Delegations :
        deleg[d].at # "none" =>
            /\ kickoff # "idle" /\ manager # NoNode
            /\ deleg[d].agent \in crew
            /\ deleg[d].at # "working" => deleg[d].agent \in ran

Specialist == crew \cap ran
Announcing(d) == deleg[d].at = "announcing"

\* What was announced in frames s: of specialists that ran, each once.
TransfersOK(s) ==
    /\ \A k \in 1..Len(s) : s[k].what = "transfer" =>
          manager # NoNode /\ def.agent[s[k].node] \in Specialist
    /\ \A k, l \in 1..Len(s) :
          s[k].what = "transfer" /\ s[l].what = "transfer"
          /\ def.agent[s[k].node] = def.agent[s[l].node] => k = l
    /\ manager # NoNode => \A k \in 1..Len(s) : s[k].what = "output" =>
          s[k].node = manager \/ \E a \in Specialist : s[k].node = NodeOfAgent(a)

\* Each is announced or about to be, by one of its threads.
AnnouncersOK ==
    /\ \A d \in Delegations : \A k \in 1..Len(frames) :
          Announcing(d) /\ frames[k].what = "transfer" => def.agent[frames[k].node] # deleg[d].agent
    /\ \A d, e \in Delegations :
          Announcing(d) /\ Announcing(e) /\ deleg[d].agent = deleg[e].agent => d = e
    /\ manager # NoNode => \A a \in Specialist :
          \/ \E d \in Delegations : Announcing(d) /\ deleg[d].agent = a
          \/ \E k \in 1..Len(frames) : frames[k].what = "transfer" /\ frames[k].node = NodeOfAgent(a)

\* In a crew of its own the frames are inputs and outputs in turn, up to the task that
\* is worked on, which is announced if the crew is sequential.
Begins(i) == i < at \/ (i = at /\ Sequential)
FramesOK ==
    kickoff # "idle" /\ manager = NoNode /\ Distinct =>
        /\ Len(frames) = 2 * (at - 1) + (IF Sequential /\ at <= Len(tasks) THEN 1 ELSE 0)
        /\ \A i \in 1..Len(tasks) :
              /\ Begins(i) => frames[2 * i - 1] = Frame("input", tasks[i].node, tasks[i].context)
              /\ i < at => frames[2 * i] = Frame("output", tasks[i].node, {})
        /\ inputs = {tasks[i].node : i \in {j \in 1..Len(tasks) : Begins(j)}}
        /\ outputs = {tasks[i].node : i \in {j \in 1..Len(tasks) : j < at}}

RunInv == RunDataOK /\ ThreadsOK /\ TransfersOK(frames) /\ AnnouncersOK /\ FramesOK

\* Nothing of the plan changes; no delegation does; of the crew nobody runs for the first
\* time, unless it works without a manager.
PlanStands    == UNCHANGED planVars
ThreadsRest   == deleg' = deleg
NobodyElseRan == ran \subseteq ran' /\ (manager # NoNode => crew \cap ran' = Specialist)

\* t is s and then frames of E.
Adds(s, t, E) ==
    /\ t \in Seq(FrameType) /\ Len(t) >= Len(s)
    /\ \A k \in 1..Len(s) : t[k] = s[k]
    /\ \A k \in (Len(s) + 1)..Len(t) : t[k] \in E

\* Frames of the tasks: none is a transfer, and a manager's outputs are its own.
Quiet == {f \in FrameType : /\ f.what # "transfer"
                            /\ manager # NoNode /\ f.what = "output" => f.node = manager}

LEMMA AddsOne ==
    ASSUME NEW s \in Seq(FrameType), NEW E \in SUBSET FrameType, NEW f \in E
    PROVE  Adds(s, Append(s, f), E) /\ Append(s, f) \in Seq(FrameType)
<1>1. PICK t : t = Append(s, f)
  OBVIOUS
<1>2. /\ t \in Seq(FrameType) /\ Len(t) = Len(s) + 1 /\ t[Len(s) + 1] = f
      /\ \A k \in 1..Len(s) : t[k] = s[k]
      /\ Len(s) \in Nat
  BY <1>1, AppendProperties, LenProperties
<1>3. \A k \in (Len(s) + 1)..Len(t) : k = Len(s) + 1
  BY <1>2
<1> QED
  BY <1>1, <1>2, <1>3 DEF Adds

LEMMA AddsNone ==
    ASSUME NEW s \in Seq(FrameType), NEW E
    PROVE  Adds(s, s, E)
<1>1. Len(s) \in Nat
  BY LenProperties
<1> QED
  BY <1>1 DEF Adds

LEMMA AddsMore ==
    ASSUME NEW s \in Seq(FrameType), NEW t, NEW u, NEW E, Adds(s, t, E), Adds(t, u, E)
    PROVE  Adds(s, u, E)
<1>1. Len(s) \in Nat /\ Len(t) \in Nat /\ Len(u) \in Nat
  BY LenProperties DEF Adds
<1>2. \A k \in 1..Len(s) : u[k] = s[k]
  BY <1>1 DEF Adds
<1>3. ASSUME NEW k \in (Len(s) + 1)..Len(u)
      PROVE  u[k] \in E
  <2>1. CASE k <= Len(t)
    <3>1. k \in 1..Len(t) /\ k \in (Len(s) + 1)..Len(t)
      BY <1>1, <2>1
    <3> QED
      BY <3>1 DEF Adds
  <2>2. CASE k > Len(t)
    <3>1. k \in (Len(t) + 1)..Len(u)
      BY <1>1, <2>2
    <3> QED
      BY <3>1 DEF Adds
  <2> QED
    BY <1>1, <2>1, <2>2
<1> QED
  BY <1>1, <1>2, <1>3 DEF Adds

LEMMA AddsSays ==
    ASSUME NEW s \in Seq(FrameType), NEW t, NEW E, Adds(s, t, E)
    PROVE  /\ Len(s) \in Nat /\ Len(t) \in Nat
           /\ \A k \in 1..Len(t) : k \in 1..Len(s) \/ t[k] \in E
           /\ \A k \in 1..Len(s) : k \in 1..Len(t) /\ t[k] = s[k]
<1>1. Len(s) \in Nat /\ Len(t) \in Nat /\ Len(t) >= Len(s)
  BY LenProperties DEF Adds
<1>2. ASSUME NEW k \in 1..Len(t), k \notin 1..Len(s) PROVE k \in (Len(s) + 1)..Len(t)
  BY <1>1, <1>2
<1>3. \A k \in 1..Len(s) : k \in 1..Len(t)
  BY <1>1
<1> QED
  BY <1>1, <1>2, <1>3 DEF Adds

LEMMA StandingPlan ==
    ASSUME PlanStands
    PROVE  /\ def' = def /\ plan' = plan /\ ordered' = ordered /\ path' = path
           /\ manager' = manager /\ crew' = crew /\ explicit' = explicit /\ item' = item
           /\ tasks' = tasks
           /\ \A a : NodeOfAgent(a)' = NodeOfAgent(a)
           /\ Distinct' = Distinct /\ Sequential' = Sequential
BY DEF PlanStands, planVars, NodeOfAgent, First, Distinct, Sequential

\* A specialist has a node of its own, which is not the manager's.
LEMMA NodeOfSpecialist ==
    ASSUME PlanInv, plan = "ready", NEW a \in crew
    PROVE  /\ NodeOfAgent(a) \in Nodes /\ def.agent[NodeOfAgent(a)] = a
           /\ manager # NoNode => a # def.agent[manager]
<1> DEFINE S == {j \in 1..Len(ordered) : def.agent[ordered[j]] = a}
<1>1. /\ PlanDataOK /\ crew = Specialists(manager) /\ def \in Definitions
  BY DEF PlanInv, StaffOK, PlanDataOK
<1>2. /\ Len(ordered) \in Nat
      /\ \A i \in 1..Len(ordered) : ordered[i] \in Nodes
  BY <1>1, OrderedNodes
<1>3. manager # NoNode => a # def.agent[manager]
  BY <1>1 DEF Specialists
<1>4. S # {} /\ S \in SUBSET Nat
  BY <1>1, <1>2 DEF Specialists
<1>5. PICK x \in S : First(x, S)
  <2> HIDE DEF S
  <2> QED
    BY <1>4, LeastElement DEF First
<1>6. x \in 1..Len(ordered)
  OBVIOUS
<1>7. PICK y : y = CHOOSE i \in 1..Len(ordered) : First(i, S)
  OBVIOUS
<1>8. First(y, S)
  <2> HIDE DEF S
  <2> QED
    BY <1>5, <1>6, <1>7
<1>9. y \in S
  BY <1>8 DEF First
<1>10. NodeOfAgent(a) = ordered[y]
  BY <1>7 DEF NodeOfAgent
<1> QED
  BY <1>2, <1>3, <1>9, <1>10

-----------------------------------------------------------------------------
(* The steps of the kickoff                                                *)

\* What its frames leave as it was.
LEMMA OwnStepsKeepTheRest ==
    ASSUME PlanInv, ThreadsOK, TransfersOK(frames), AnnouncersOK, frames \in Seq(FrameType),
           PlanStands, ThreadsRest, NobodyElseRan, kickoff' # "idle",
           Adds(frames, frames', Quiet)
    PROVE  ThreadsOK' /\ TransfersOK(frames)' /\ AnnouncersOK'
<1>1. /\ def' = def /\ manager' = manager /\ crew' = crew
      /\ \A a : NodeOfAgent(a)' = NodeOfAgent(a)
  BY StandingPlan
<1>2. ThreadsOK'
  BY <1>1 DEF ThreadsOK, ThreadsRest, NobodyElseRan
<1>3. /\ Specialist \subseteq Specialist'
      /\ manager # NoNode => Specialist' = Specialist
  BY <1>1 DEF Specialist, NobodyElseRan
<1>4. /\ Len(frames) \in Nat
      /\ \A k \in 1..Len(frames) : k \in 1..Len(frames') /\ frames'[k] = frames[k]
  BY AddsSays
<1>5. \A k \in 1..Len(frames') : k \in 1..Len(frames) \/ frames'[k] \in Quiet
  BY AddsSays
<1>6. ASSUME NEW k \in 1..Len(frames'), frames'[k].what = "transfer"
      PROVE  k \in 1..Len(frames) /\ frames'[k] = frames[k]
  BY <1>4, <1>5, <1>6 DEF Quiet
<1>7. ASSUME NEW k \in 1..Len(frames'), frames'[k].what = "output", manager # NoNode
      PROVE  frames'[k].node = manager \/ \E a \in Specialist : frames'[k].node = NodeOfAgent(a)
  <2>1. CASE k \in 1..Len(frames)
    BY <1>4, <1>7, <2>1 DEF TransfersOK
  <2>2. CASE frames'[k] \in Quiet
    BY <1>7, <2>2 DEF Quiet
  <2> QED
    BY <1>5, <2>1, <2>2
<1>8. TransfersOK(frames)'
  <2>1. \A k \in 1..Len(frames') : frames'[k].what = "transfer" =>
            manager' # NoNode /\ def'.agent[frames'[k].node] \in Specialist'
    BY <1>1, <1>3, <1>6 DEF TransfersOK
  <2>2. \A k, l \in 1..Len(frames') :
            frames'[k].what = "transfer" /\ frames'[l].what = "transfer"
            /\ def'.agent[frames'[k].node] = def'.agent[frames'[l].node] => k = l
    BY <1>1, <1>6 DEF TransfersOK
  <2>3. manager' # NoNode => \A k \in 1..Len(frames') : frames'[k].what = "output" =>
            frames'[k].node = manager'
            \/ \E a \in Specialist' : frames'[k].node = NodeOfAgent(a)'
    BY <1>1, <1>3, <1>7
  <2> QED
    BY <2>1, <2>2, <2>3 DEF TransfersOK
<1>9. AnnouncersOK'
  <2>1. \A d : Announcing(d)' = Announcing(d) /\ (deleg[d].agent)' = deleg[d].agent
    BY DEF ThreadsRest, Announcing
  <2>2. \A d \in Delegations : \A k \in 1..Len(frames') :
            Announcing(d)' /\ frames'[k].what = "transfer"
                => def'.agent[frames'[k].node] # deleg'[d].agent
    BY <1>1, <1>6, <2>1 DEF AnnouncersOK
  <2>3. \A d, e \in Delegations :
            Announcing(d)' /\ Announcing(e)' /\ deleg'[d].agent = deleg'[e].agent => d = e
    BY <2>1 DEF AnnouncersOK
  <2>4. ASSUME manager # NoNode, NEW a \in Specialist
        PROVE  \/ \E d \in Delegations : Announcing(d)' /\ deleg'[d].agent = a
               \/ \E k \in 1..Len(frames') :
                     frames'[k].what = "transfer" /\ frames'[k].node = NodeOfAgent(a)
    <3>1. CASE \E d \in Delegations : Announcing(d) /\ deleg[d].agent = a
      BY <2>1, <3>1
    <3>2. ASSUME NEW k \in 1..Len(frames),
                 frames[k].what = "transfer", frames[k].node = NodeOfAgent(a)
          PROVE  k \in 1..Len(frames') /\ frames'[k] = frames[k]
      BY <1>4
    <3> QED
      BY <2>4, <3>1, <3>2 DEF AnnouncersOK
  <2>5. manager' # NoNode => \A a \in Specialist' :
            \/ \E d \in Delegations : Announcing(d)' /\ deleg'[d].agent = a
            \/ \E k \in 1..Len(frames') :
                  frames'[k].what = "transfer" /\ frames'[k].node = NodeOfAgent(a)'
    BY <1>1, <1>3, <2>4
  <2> QED
    BY <2>2, <2>3, <2>5 DEF AnnouncersOK
<1> QED
  BY <1>2, <1>8, <1>9

\* The frames of a task.
LEMMA FramesOfTasks ==
    ASSUME PlanInv, plan = "ready", NEW i \in 1..Len(tasks), NEW done
    PROVE  /\ InputFrame(i, done) \in Quiet
           /\ Frame("output", tasks[i].node, {}) \in Quiet
<1>1. PlanDataOK /\ StaffOK /\ tasks[i] \in Task
  BY OrderedNodes DEF PlanInv
<1>2. tasks[i].node \in Nodes /\ tasks[i].context \in SUBSET Nodes
  BY <1>1 DEF Task
<1>3. manager # NoNode => tasks[i].node = manager
  <2> SUFFICES ASSUME manager # NoNode PROVE tasks[i].node = manager
    OBVIOUS
  <2>1. tasks = <<LeaderTask(manager)>>
    BY <1>1 DEF StaffOK
  <2>2. i = 1 /\ tasks[1] = LeaderTask(manager)
    BY <2>1
  <2> QED
    BY <2>2 DEF LeaderTask
<1>4. InputFrame(i, done) \in FrameType /\ InputFrame(i, done).what = "input"
  BY <1>2 DEF InputFrame, Frame, FrameType
<1>5. /\ Frame("output", tasks[i].node, {}) \in FrameType
      /\ Frame("output", tasks[i].node, {}).node = tasks[i].node
      /\ Frame("output", tasks[i].node, {}).what = "output"
  BY <1>2 DEF Frame, FrameType
<1> QED
  BY <1>3, <1>4, <1>5 DEF Quiet

\* The next input comes on top of what was sent.
LEMMA NextInputAdds ==
    ASSUME PlanInv, plan = "ready", NEW sent \in Seq(FrameType), NEW known, NEW done,
           AnnounceNext(known, done, sent)
    PROVE  Adds(sent, frames', Quiet)
<1>1. CASE Sequential /\ Unannounced(known) # {}
  <2>1. PICK i \in Unannounced(known) : frames' = Append(sent, InputFrame(i, done))
    BY <1>1 DEF AnnounceNext
  <2>2. i \in 1..Len(tasks)
    BY DEF Unannounced
  <2>3. InputFrame(i, done) \in Quiet
    BY <2>2, FramesOfTasks
  <2>4. Quiet \in SUBSET FrameType
    BY DEF Quiet
  <2> QED
    BY <2>1, <2>3, <2>4, AddsOne
<1>2. CASE ~(Sequential /\ Unannounced(known) # {})
  <2>1. frames' = sent
    BY <1>2 DEF AnnounceNext
  <2> QED
    BY <2>1, AddsNone
<1> QED
  BY <1>1, <1>2

\* Where upstream has put out its outputs, an input shows the whole context.
LEMMA ContextIsShown ==
    ASSUME PlanInv, OwnCrew, NEW i \in 1..Len(tasks), NEW done,
           done = {tasks[h].node : h \in {j \in 1..Len(tasks) : j < i}}
    PROVE  InputFrame(i, done) = Frame("input", tasks[i].node, tasks[i].context)
<1>1. Len(tasks) \in Nat
  BY OrderedNodes DEF PlanInv
<1>2. \A j \in 1..(i - 1) : j \in 1..Len(tasks) /\ j < i
  BY <1>1
<1>3. tasks[i].context \subseteq done
  BY <1>2 DEF PlanInv, TasksOK
<1>4. tasks[i].context \cap done = tasks[i].context
  BY <1>3
<1> QED
  BY <1>4 DEF InputFrame

\* What stays when the kickoff takes a step.
LEMMA AfterKickoff ==
    ASSUME PlanInv, RunInv, plan = "ready"
    PROVE  /\ ThreadsOK /\ TransfersOK(frames) /\ AnnouncersOK /\ frames \in Seq(FrameType)
           /\ Len(frames) \in Nat /\ Len(tasks) \in Nat /\ at \in Nat \ {0}
           /\ deleg \in [Delegations -> Delegation]
           /\ manager = NoNode => OwnCrew
BY LenProperties, OrderedNodes DEF RunInv, RunDataOK, PlanInv, OwnCrew

LEMMA KickoffKeepsInv == PlanInv /\ RunInv /\ Kickoff => RunInv'
<1> SUFFICES ASSUME PlanInv, RunInv, Kickoff PROVE RunInv'
  OBVIOUS
<1>1. /\ plan = "ready" /\ kickoff' = "running" /\ PlanStands
      /\ AnnounceNext({}, {}, frames)
      /\ at' = at /\ outputs' = outputs /\ ran' = ran /\ deleg' = deleg
  BY DEF Kickoff, PlanStands
<1>2. /\ at = 1 /\ outputs = {} /\ frames = <<>> /\ Len(frames) = 0
  BY EmptySeq DEF Kickoff, RunInv, RunDataOK
<1>3. /\ ThreadsOK /\ TransfersOK(frames) /\ AnnouncersOK /\ frames \in Seq(FrameType)
      /\ Len(tasks) \in Nat /\ deleg \in [Delegations -> Delegation]
      /\ manager = NoNode => OwnCrew
  BY <1>1, AfterKickoff
<1>4. Adds(frames, frames', Quiet)
  BY <1>1, <1>3, NextInputAdds
<1>5. ThreadsOK' /\ TransfersOK(frames)' /\ AnnouncersOK'
  <2>1. ThreadsRest /\ NobodyElseRan /\ kickoff' # "idle"
    BY <1>1 DEF ThreadsRest, NobodyElseRan, Specialist
  <2> QED
    BY <1>1, <1>3, <1>4, <2>1, OwnStepsKeepTheRest
<1>6. /\ plan' = plan /\ manager' = manager /\ tasks' = tasks
      /\ Distinct' = Distinct /\ Sequential' = Sequential
  BY <1>1, StandingPlan
<1>7. RunDataOK'
  BY <1>1, <1>2, <1>3, <1>4, <1>6 DEF RunDataOK, Adds
<1>8. ASSUME manager = NoNode, Distinct
      PROVE  FramesOK'
  <2>1. \A i \in 1..Len(tasks) : ~(i < at) /\ (Begins(i)' <=> i = 1 /\ Sequential)
    BY <1>1, <1>2, <1>3, <1>6 DEF Begins
  <2>2. outputs' = {tasks[i].node : i \in {j \in 1..Len(tasks) : j < at}}
    BY <1>1, <1>2, <2>1
  <2>3. CASE Sequential /\ 1 <= Len(tasks)
    <3>1. Unannounced({}) = 1..Len(tasks) /\ 1 \in 1..Len(tasks)
      BY <1>3, <2>3 DEF Unannounced
    <3>2. PICK i \in Unannounced({}) : /\ First(i, Unannounced({}))
                                       /\ inputs' = {} \cup {tasks[i].node}
                                       /\ frames' = Append(frames, InputFrame(i, {}))
      BY <1>1, <2>3, <3>1 DEF AnnounceNext
    <3>3. 1 \in 1..Len(tasks) /\ i = 1
      <4>1. i \in 1..Len(tasks) /\ \A k \in 1..Len(tasks) : i <= k
        BY <3>1, <3>2 DEF First
      <4> QED
        BY <1>3, <3>1, <4>1
    <3>4. PICK f : f = InputFrame(1, {})
      OBVIOUS
    <3>5. f \in FrameType
      BY <1>1, <3>3, <3>4, FramesOfTasks DEF Quiet
    <3>6. Len(frames') = 1 /\ frames'[1] = f
      BY <1>2, <1>3, <3>2, <3>3, <3>4, <3>5, AppendProperties
    <3>7. f = Frame("input", tasks[1].node, tasks[1].context)
      <4>1. {} = {tasks[h].node : h \in {j \in 1..Len(tasks) : j < 1}}
        BY <1>3
      <4> QED
        BY <1>3, <1>8, <3>3, <3>4, <4>1, ContextIsShown
    <3>8. inputs' = {tasks[i_1].node : i_1 \in {j \in 1..Len(tasks) : Begins(j)'}}
      BY <2>1, <2>3, <3>2, <3>3
    <3> QED
      BY <1>1, <1>2, <1>6, <2>1, <2>2, <2>3, <3>6, <3>7, <3>8 DEF FramesOK
  <2>4. CASE ~(Sequential /\ 1 <= Len(tasks))
    <3>1. ~(Sequential /\ Unannounced({}) # {})
      BY <1>3, <2>4 DEF Unannounced
    <3>2. inputs' = {} /\ frames' = frames
      BY <1>1, <3>1 DEF AnnounceNext
    <3>3. \A i \in 1..Len(tasks) : ~Begins(i)'
      BY <1>3, <2>1, <2>4
    <3> QED
      BY <1>1, <1>2, <1>6, <2>1, <2>2, <2>4, <3>2, <3>3 DEF FramesOK
  <2> QED
    BY <2>3, <2>4
<1>9. FramesOK'
  BY <1>6, <1>8 DEF FramesOK
<1> QED
  BY <1>5, <1>7, <1>9 DEF RunInv

\* A step that sends nothing and only lets an agent run, or ends the kickoff.
LEMMA SilentStepsKeepInv ==
    ASSUME PlanInv, RunInv, (\E a \in Agents : OwnStep(a)) \/ Returns \/ Raises
    PROVE  RunInv'
<1>1. /\ kickoff = "running" /\ kickoff' \in {"running", "returned", "raised"} /\ PlanStands
      /\ at' = at /\ inputs' = inputs /\ outputs' = outputs /\ frames' = frames /\ deleg' = deleg
  BY DEF OwnStep, Returns, Raises, PlanStands
<1>2. plan = "ready"
  BY <1>1 DEF RunInv, RunDataOK
<1>3. /\ ThreadsOK /\ TransfersOK(frames) /\ AnnouncersOK /\ frames \in Seq(FrameType)
      /\ deleg \in [Delegations -> Delegation]
  BY <1>2, AfterKickoff
<1>4. NobodyElseRan
  <2>1. \/ ran' = ran
        \/ /\ manager = NoNode /\ ran \subseteq ran'
        \/ /\ manager # NoNode /\ ran' = ran \cup {def.agent[manager]}
    BY DEF OwnStep, Returns, Raises
  <2>2. manager # NoNode => def.agent[manager] \notin crew
    BY <1>2, NodeOfSpecialist
  <2> QED
    BY <2>1, <2>2 DEF NobodyElseRan, Specialist
<1>5. ThreadsOK' /\ TransfersOK(frames)' /\ AnnouncersOK'
  <2>1. ThreadsRest /\ kickoff' # "idle" /\ Adds(frames, frames', Quiet)
    BY <1>1, <1>3, AddsNone DEF ThreadsRest
  <2> QED
    BY <1>1, <1>3, <1>4, <2>1, OwnStepsKeepTheRest
<1>6. /\ plan' = plan /\ manager' = manager /\ tasks' = tasks
      /\ Distinct' = Distinct /\ Sequential' = Sequential
  BY <1>1, StandingPlan
<1>7. RunDataOK'
  BY <1>1, <1>3, <1>6 DEF RunInv, RunDataOK
<1>8. FramesOK'
  <2>1. \A i : Begins(i)' = Begins(i)
    BY <1>1, <1>6 DEF Begins
  <2> QED
    BY <1>1, <1>6, <2>1 DEF RunInv, FramesOK
<1> QED
  BY <1>5, <1>7, <1>8 DEF RunInv

\* The finished task's frames, and the next input, come on top of what was sent.
LEMMA TaskDoneAdds ==
    ASSUME PlanInv, RunInv, TaskDone
    PROVE  \E i \in 1..Len(tasks), told \in Seq(FrameType) :
              /\ First(i, {j \in 1..Len(tasks) : tasks[j].node = tasks[at].node})
              /\ ran' = ran \cup {tasks[i].agent}
              /\ outputs' = outputs \cup {tasks[i].node}
              /\ told = IF tasks[i].node \in inputs THEN frames
                        ELSE Append(frames, InputFrame(i, outputs))
              /\ AnnounceNext(inputs \cup {tasks[i].node}, outputs',
                              Append(told, Frame("output", tasks[i].node, {})))
              /\ Adds(frames, frames', Quiet)
<1>1. plan = "ready" /\ frames \in Seq(FrameType)
  BY DEF TaskDone, RunInv, RunDataOK
<1>2. PICK i \in 1..Len(tasks) :
         /\ First(i, {j \in 1..Len(tasks) : tasks[j].node = tasks[at].node})
         /\ ran' = ran \cup {tasks[i].agent}
         /\ outputs' = outputs \cup {tasks[i].node}
         /\ \E told : /\ told = IF tasks[i].node \in inputs THEN frames
                                ELSE Append(frames, InputFrame(i, outputs))
                      /\ AnnounceNext(inputs \cup {tasks[i].node}, outputs',
                                      Append(told, Frame("output", tasks[i].node, {})))
  BY DEF TaskDone
<1>3. PICK told : /\ told = IF tasks[i].node \in inputs THEN frames
                            ELSE Append(frames, InputFrame(i, outputs))
                  /\ AnnounceNext(inputs \cup {tasks[i].node}, outputs',
                                  Append(told, Frame("output", tasks[i].node, {})))
  BY <1>2
<1>4. PICK f, g : f = InputFrame(i, outputs) /\ g = Frame("output", tasks[i].node, {})
  OBVIOUS
<1>5. f \in Quiet /\ g \in Quiet /\ Quiet \in SUBSET FrameType
  BY <1>1, <1>4, FramesOfTasks DEF Quiet
<1>6. told \in Seq(FrameType) /\ Adds(frames, told, Quiet)
  <2>1. told = frames \/ told = Append(frames, f)
    BY <1>3, <1>4
  <2> QED
    BY <1>1, <1>5, <2>1, AddsOne, AddsNone
<1>7. PICK sent : sent = Append(told, g)
  OBVIOUS
<1>8. sent \in Seq(FrameType) /\ Adds(told, sent, Quiet)
  BY <1>5, <1>6, <1>7, AddsOne
<1>9. PICK known, done : known = inputs \cup {tasks[i].node} /\ done = outputs'
  OBVIOUS
<1>10. AnnounceNext(known, done, sent)
  BY <1>3, <1>4, <1>7, <1>9 DEF AnnounceNext, Unannounced, InputFrame
<1>11. Adds(sent, frames', Quiet)
  BY <1>1, <1>8, <1>10, NextInputAdds
<1>12. Adds(frames, frames', Quiet)
  BY <1>1, <1>6, <1>8, <1>11, AddsMore
<1> QED
  BY <1>2, <1>3, <1>6, <1>12

\* The frames a task of a crew without a manager leaves.
LEMMA TaskDoneTells ==
    ASSUME PlanInv, RunInv, TaskDone, manager = NoNode, Distinct
    PROVE  FramesOK'
<1>1. /\ plan = "ready" /\ kickoff = "running" /\ kickoff' = "running" /\ PlanStands
      /\ at' = at + 1 /\ at <= Len(tasks)
  BY DEF TaskDone, PlanStands, RunInv, RunDataOK
<1>2. /\ Len(frames) \in Nat /\ Len(tasks) \in Nat /\ at \in Nat \ {0} /\ at \in 1..Len(tasks)
      /\ frames \in Seq(FrameType) /\ OwnCrew /\ FramesOK
  BY <1>1, AfterKickoff DEF RunInv
<1>3. /\ plan' = plan /\ manager' = manager /\ tasks' = tasks
      /\ Distinct' = Distinct /\ Sequential' = Sequential
  BY <1>1, StandingPlan
<1>4. PICK i \in 1..Len(tasks), told \in Seq(FrameType) :
         /\ First(i, {j \in 1..Len(tasks) : tasks[j].node = tasks[at].node})
         /\ outputs' = outputs \cup {tasks[i].node}
         /\ told = IF tasks[i].node \in inputs THEN frames
                   ELSE Append(frames, InputFrame(i, outputs))
         /\ AnnounceNext(inputs \cup {tasks[i].node}, outputs',
                         Append(told, Frame("output", tasks[i].node, {})))
  BY TaskDoneAdds
<1>5. i = at
  BY <1>2, <1>4 DEF First, Distinct
<1>6. /\ Len(frames) = 2 * (at - 1) + (IF Sequential THEN 1 ELSE 0)
      /\ inputs = {tasks[k].node : k \in {j \in 1..Len(tasks) : Begins(j)}}
      /\ outputs = {tasks[k].node : k \in {j \in 1..Len(tasks) : j < at}}
      /\ \A k \in 1..Len(tasks) :
            /\ Begins(k) => frames[2 * k - 1] = Frame("input", tasks[k].node, tasks[k].context)
            /\ k < at => frames[2 * k] = Frame("output", tasks[k].node, {})
  BY <1>1, <1>2 DEF FramesOK
<1>7. tasks[at].node \in inputs <=> Sequential
  BY <1>2, <1>6 DEF Begins, Distinct
<1>8. /\ InputFrame(at, outputs) = Frame("input", tasks[at].node, tasks[at].context)
      /\ InputFrame(at, outputs) \in FrameType
      /\ Frame("output", tasks[at].node, {}) \in FrameType
  BY <1>1, <1>2, <1>6, ContextIsShown, FramesOfTasks DEF Quiet
<1>9. PICK f, g : /\ f = Frame("input", tasks[at].node, tasks[at].context)
                  /\ g = Frame("output", tasks[at].node, {})
  OBVIOUS
<1>10. /\ Len(told) = 2 * at - 1 /\ told[2 * at - 1] = f
       /\ \A k \in 1..Len(frames) : told[k] = frames[k]
  <2>1. CASE Sequential
    <3>1. told = frames
      BY <1>4, <1>5, <1>7, <2>1
    <3>2. Begins(at)
      BY <2>1 DEF Begins
    <3>3. Len(frames) = 2 * at - 1
      BY <1>2, <1>6, <2>1
    <3>4. frames[2 * at - 1] = f
      BY <1>2, <1>6, <1>9, <3>2
    <3> QED
      BY <3>1, <3>3, <3>4
  <2>2. CASE ~Sequential
    <3>1. told = Append(frames, f) /\ f \in FrameType /\ Len(frames) + 1 = 2 * at - 1
      BY <1>2, <1>4, <1>5, <1>6, <1>7, <1>8, <1>9, <2>2
    <3> QED
      BY <1>2, <3>1, AppendProperties
  <2> QED
    BY <2>1, <2>2
<1>11. PICK sent : sent = Append(told, g)
  OBVIOUS
<1>12. /\ sent \in Seq(FrameType) /\ Len(sent) = 2 * at
       /\ sent[2 * at - 1] = f /\ sent[2 * at] = g
       /\ \A k \in 1..Len(frames) : sent[k] = frames[k]
  <2>1. /\ sent \in Seq(FrameType) /\ Len(sent) = Len(told) + 1 /\ sent[Len(told) + 1] = g
        /\ \A k \in 1..Len(told) : sent[k] = told[k]
    BY <1>8, <1>9, <1>11, AppendProperties
  <2>2. \A k \in 1..Len(frames) : k \in 1..Len(told)
    BY <1>2, <1>6, <1>10
  <2> QED
    BY <1>2, <1>10, <2>1, <2>2
<1>13. PICK known : known = inputs \cup {tasks[at].node}
  OBVIOUS
<1>14. known = {tasks[k].node : k \in {j \in 1..Len(tasks) : j < at + 1}}
  <2>1. \A j \in 1..Len(tasks) : j < at + 1 <=> Begins(j) \/ j = at
    BY <1>2 DEF Begins
  <2> QED
    BY <1>2, <1>6, <1>13, <2>1
<1>15. outputs' = {tasks[k].node : k \in {j \in 1..Len(tasks) : j < at + 1}}
  <2>1. \A j \in 1..Len(tasks) : j < at + 1 <=> j < at \/ j = at
    BY <1>2
  <2> QED
    BY <1>2, <1>4, <1>5, <1>6, <2>1
<1>16. PICK done : done = outputs'
  OBVIOUS
<1>17. Unannounced(known) = {j \in 1..Len(tasks) : at + 1 <= j}
  <2>1. \A j \in 1..Len(tasks) : at + 1 <= j <=> ~(j < at + 1)
    BY <1>2
  <2> QED
    BY <1>14, <2>1 DEF Unannounced, Distinct
<1>18. \A k \in 1..Len(tasks) : k < at + 1 =>
          /\ 2 * k - 1 \in 1..Len(sent) /\ 2 * k \in 1..Len(sent)
          /\ sent[2 * k - 1] = Frame("input", tasks[k].node, tasks[k].context)
          /\ sent[2 * k] = Frame("output", tasks[k].node, {})
  <2> TAKE k \in 1..Len(tasks)
  <2> HAVE k < at + 1
  <2>1. CASE k = at
    BY <1>2, <1>9, <1>12, <2>1
  <2>2. CASE k # at
    <3>1. k < at /\ 2 * k - 1 \in 1..Len(frames) /\ 2 * k \in 1..Len(frames)
      BY <1>2, <1>6, <2>2
    <3>2. 2 * k - 1 \in 1..Len(sent) /\ 2 * k \in 1..Len(sent)
      BY <1>2, <1>12, <3>1
    <3> QED
      BY <1>6, <1>12, <3>1, <3>2 DEF Begins
  <2> QED
    BY <2>1, <2>2
<1>19. AnnounceNext(known, done, sent)
  BY <1>4, <1>5, <1>9, <1>11, <1>13, <1>16 DEF AnnounceNext, Unannounced, InputFrame
<1>20. CASE Sequential /\ at + 1 <= Len(tasks)
  <2>1. at + 1 \in 1..Len(tasks) /\ at + 1 \in Unannounced(known)
    BY <1>2, <1>17, <1>20
  <2>2. PICK h \in Unannounced(known) : /\ First(h, Unannounced(known))
                                        /\ inputs' = known \cup {tasks[h].node}
                                        /\ frames' = Append(sent, InputFrame(h, done))
    BY <1>19, <1>20, <2>1 DEF AnnounceNext
  <2>3. h = at + 1
    <3>1. h <= at + 1 /\ at + 1 <= h /\ h \in 1..Len(tasks)
      BY <1>17, <2>1, <2>2 DEF First
    <3> QED
      BY <1>2, <3>1
  <2>4. /\ InputFrame(h, done) = Frame("input", tasks[h].node, tasks[h].context)
        /\ InputFrame(h, done) \in FrameType
    BY <1>1, <1>2, <1>15, <1>16, <2>1, <2>3, ContextIsShown, FramesOfTasks DEF Quiet
  <2>5. /\ Len(frames') = 2 * at + 1
        /\ frames'[2 * at + 1] = Frame("input", tasks[h].node, tasks[h].context)
        /\ \A k \in 1..Len(sent) : frames'[k] = sent[k]
    BY <1>12, <2>2, <2>4, AppendProperties
  <2>6. \A k \in 1..Len(tasks) : Begins(k)' <=> k < at + 1 \/ k = at + 1
    BY <1>1, <1>3, <1>20 DEF Begins
  <2>7. inputs' = {tasks[k].node : k \in {j \in 1..Len(tasks) : Begins(j)'}}
    BY <1>14, <2>1, <2>2, <2>3, <2>6
  <2>8. \A k \in 1..Len(tasks) :
           /\ Begins(k)' => frames'[2 * k - 1] = Frame("input", tasks[k].node, tasks[k].context)
           /\ k < at + 1 => frames'[2 * k] = Frame("output", tasks[k].node, {})
    <3> TAKE k \in 1..Len(tasks)
    <3>1. CASE k < at + 1
      BY <1>18, <2>5, <3>1
    <3>2. CASE k = at + 1
      <4>1. 2 * k - 1 = 2 * at + 1 /\ ~(k < at + 1)
        BY <1>2, <3>2
      <4> QED
        BY <2>3, <2>5, <3>2, <4>1
    <3> QED
      BY <2>6, <3>1, <3>2
  <2>9. Len(frames') = 2 * (at' - 1) + (IF Sequential /\ at' <= Len(tasks) THEN 1 ELSE 0)
    BY <1>1, <1>2, <1>20, <2>5
  <2> QED
    BY <1>1, <1>3, <1>15, <2>7, <2>8, <2>9 DEF FramesOK
<1>21. CASE ~(Sequential /\ at + 1 <= Len(tasks))
  <2>1. ~(Sequential /\ Unannounced(known) # {})
    BY <1>2, <1>17, <1>21
  <2>2. inputs' = known /\ frames' = sent
    BY <1>19, <2>1 DEF AnnounceNext
  <2>3. \A k \in 1..Len(tasks) : Begins(k)' <=> k < at + 1
    BY <1>1, <1>2, <1>3, <1>21 DEF Begins
  <2>4. inputs' = {tasks[k].node : k \in {j \in 1..Len(tasks) : Begins(j)'}}
    BY <1>14, <2>2, <2>3
  <2>5. Len(frames') = 2 * (at' - 1) + (IF Sequential /\ at' <= Len(tasks) THEN 1 ELSE 0)
    BY <1>1, <1>2, <1>12, <1>21, <2>2
  <2>6. \A k \in 1..Len(tasks) :
           /\ Begins(k)' => frames'[2 * k - 1] = Frame("input", tasks[k].node, tasks[k].context)
           /\ k < at + 1 => frames'[2 * k] = Frame("output", tasks[k].node, {})
    BY <1>18, <2>2, <2>3
  <2> QED
    BY <1>1, <1>3, <1>15, <2>4, <2>5, <2>6 DEF FramesOK
<1> QED
  BY <1>20, <1>21

LEMMA TaskDoneKeepsInv == PlanInv /\ RunInv /\ TaskDone => RunInv'
<1> SUFFICES ASSUME PlanInv, RunInv, TaskDone PROVE RunInv'
  OBVIOUS
<1>1. /\ plan = "ready" /\ kickoff' = "running" /\ PlanStands
      /\ at' = at + 1 /\ at <= Len(tasks) /\ deleg' = deleg
  BY DEF TaskDone, PlanStands, RunInv, RunDataOK
<1>2. /\ ThreadsOK /\ TransfersOK(frames) /\ AnnouncersOK /\ frames \in Seq(FrameType)
      /\ Len(tasks) \in Nat /\ at \in Nat \ {0} /\ deleg \in [Delegations -> Delegation]
  BY <1>1, AfterKickoff
<1>3. PICK i \in 1..Len(tasks) : ran' = ran \cup {tasks[i].agent} /\ Adds(frames, frames', Quiet)
  BY TaskDoneAdds
<1>4. NobodyElseRan
  <2>1. ASSUME manager # NoNode PROVE tasks[i].agent \notin crew
    <3>1. tasks = <<LeaderTask(manager)>>
      BY <1>1, <2>1 DEF PlanInv, StaffOK
    <3>2. i = 1 /\ tasks[1] = LeaderTask(manager)
      BY <3>1
    <3>3. tasks[i].agent = def.agent[manager]
      BY <3>2 DEF LeaderTask
    <3> QED
      BY <1>1, <2>1, <3>3, NodeOfSpecialist
  <2> QED
    BY <1>3, <2>1 DEF NobodyElseRan, Specialist
<1>5. ThreadsOK' /\ TransfersOK(frames)' /\ AnnouncersOK'
  <2>1. ThreadsRest /\ kickoff' # "idle"
    BY <1>1 DEF ThreadsRest
  <2> QED
    BY <1>1, <1>2, <1>3, <1>4, <2>1, OwnStepsKeepTheRest
<1>6. plan' = plan /\ manager' = manager /\ tasks' = tasks /\ Distinct' = Distinct
  BY <1>1, StandingPlan
<1>7. RunDataOK'
  BY <1>1, <1>2, <1>3, <1>6 DEF RunDataOK, Adds
<1>8. FramesOK'
  BY <1>6, TaskDoneTells DEF FramesOK
<1> QED
  BY <1>5, <1>7, <1>8 DEF RunInv

-----------------------------------------------------------------------------
(* The steps of a delegation                                               *)

\* Only thread d moves on.
Moves(d, record) == deleg' = [deleg EXCEPT ![d] = record]

\* What every step of a delegation leaves alone.
LEMMA DelegatedRests ==
    ASSUME PlanInv, RunInv, NEW d \in Delegations, Delegated(d)
    PROVE  /\ PlanStands /\ kickoff' = kickoff /\ kickoff # "idle" /\ at' = at /\ inputs' = inputs
           /\ plan = "ready" /\ manager # NoNode
           /\ def' = def /\ plan' = plan /\ manager' = manager /\ crew' = crew /\ tasks' = tasks
           /\ \A a : NodeOfAgent(a)' = NodeOfAgent(a)
           /\ ThreadsOK /\ TransfersOK(frames) /\ AnnouncersOK /\ frames \in Seq(FrameType)
           /\ Len(frames) \in Nat /\ at \in Nat \ {0} /\ deleg \in [Delegations -> Delegation]
<1>1. PlanStands /\ kickoff' = kickoff /\ at' = at /\ inputs' = inputs
  BY DEF Delegated, Delegate, Step, Announce, Answer, Report, PlanStands
<1>2. kickoff # "idle" /\ manager # NoNode
  <2>1. CASE \E a \in Agents : Delegate(d, a)
    BY <2>1 DEF Delegate
  <2>2. CASE (\E last \in BOOLEAN : Step(d, last)) \/ Announce(d) \/ Answer(d) \/ Report(d)
    <3>1. deleg[d].at # "none"
      BY <2>2 DEF Step, Announce, Answer, Report
    <3> QED
      BY <3>1 DEF RunInv, ThreadsOK
  <2> QED
    BY <2>1, <2>2 DEF Delegated
<1>3. plan = "ready"
  BY <1>2 DEF RunInv, RunDataOK
<1> QED
  BY <1>1, <1>2, <1>3, StandingPlan, AfterKickoff

\* The types and the frames of the tasks after such a step.
LEMMA DelegatedKeepsTheRest ==
    ASSUME PlanInv, RunInv, NEW d \in Delegations, Delegated(d),
           NEW record \in Delegation, Moves(d, record), frames' \in Seq(FrameType)
    PROVE  RunDataOK' /\ FramesOK'
<1>1. /\ kickoff' = kickoff /\ kickoff # "idle" /\ at' = at /\ plan' = plan
      /\ manager' = manager /\ manager # NoNode /\ tasks' = tasks
      /\ deleg \in [Delegations -> Delegation]
  BY DelegatedRests
<1>2. deleg' \in [Delegations -> Delegation]
  BY <1>1 DEF Moves
<1>3. RunDataOK'
  BY <1>1, <1>2 DEF RunInv, RunDataOK
<1>4. FramesOK'
  BY <1>1 DEF FramesOK
<1> QED
  BY <1>3, <1>4

LEMMA OneOnTop ==
    ASSUME NEW s \in Seq(FrameType), NEW f \in FrameType
    PROVE  /\ Append(s, f) \in Seq(FrameType)
           /\ \A k \in 1..Len(s) : k \in 1..Len(Append(s, f)) /\ Append(s, f)[k] = s[k]
           /\ \A k \in 1..Len(Append(s, f)) : k \in 1..Len(s) \/ Append(s, f)[k] = f
           /\ \E k \in 1..Len(Append(s, f)) : k \notin 1..Len(s) /\ Append(s, f)[k] = f
           /\ \A k, l \in 1..Len(Append(s, f)) : k \notin 1..Len(s) /\ l \notin 1..Len(s) => k = l
<1>1. PICK t : t = Append(s, f)
  OBVIOUS
<1>2. /\ t \in Seq(FrameType) /\ Len(s) \in Nat /\ Len(t) = Len(s) + 1
      /\ t[Len(s) + 1] = f /\ \A k \in 1..Len(s) : t[k] = s[k]
  BY <1>1, AppendProperties, LenProperties
<1>3. \A k \in 1..Len(t) : k \in 1..Len(s) \/ k = Len(s) + 1
  BY <1>2
<1>4. Len(s) + 1 \in 1..Len(t) /\ Len(s) + 1 \notin 1..Len(s)
  BY <1>2
<1>5. \A k \in 1..Len(s) : k \in 1..Len(t)
  BY <1>2
<1> QED
  BY <1>1, <1>2, <1>3, <1>4, <1>5

\* The specialists that ran are who they were, and so is who announces them, and nothing
\* but outputs is sent.
CastStays ==
    /\ Specialist' = Specialist /\ manager' = manager /\ def' = def
    /\ \A a : NodeOfAgent(a)' = NodeOfAgent(a)
SameAnnouncers ==
    \A e \in Delegations : /\ Announcing(e)' <=> Announcing(e)
                           /\ Announcing(e) => deleg'[e] = deleg[e]
NoTransferSent ==
    /\ \A k \in 1..Len(frames) : k \in 1..Len(frames') /\ frames'[k] = frames[k]
    /\ \A k \in 1..Len(frames') : frames'[k].what = "transfer" => k \in 1..Len(frames)

LEMMA AnnouncersStay ==
    ASSUME AnnouncersOK, CastStays, SameAnnouncers, NoTransferSent
    PROVE  AnnouncersOK'
<1>1. \A e \in Delegations : \A k \in 1..Len(frames') :
          Announcing(e)' /\ frames'[k].what = "transfer"
              => def'.agent[frames'[k].node] # deleg'[e].agent
  BY DEF AnnouncersOK, CastStays, SameAnnouncers, NoTransferSent, Announcing
<1>2. \A d, e \in Delegations :
          Announcing(d)' /\ Announcing(e)' /\ deleg'[d].agent = deleg'[e].agent => d = e
  BY DEF AnnouncersOK, SameAnnouncers, Announcing
<1>3. ASSUME manager # NoNode, NEW a \in Specialist
      PROVE  \/ \E e \in Delegations : Announcing(e)' /\ deleg'[e].agent = a
             \/ \E k \in 1..Len(frames') :
                   frames'[k].what = "transfer" /\ frames'[k].node = NodeOfAgent(a)
  <2>1. ASSUME NEW e \in Delegations, Announcing(e), deleg[e].agent = a
        PROVE  Announcing(e)' /\ deleg'[e].agent = a
    BY <2>1 DEF SameAnnouncers, Announcing
  <2>2. ASSUME NEW k \in 1..Len(frames),
               frames[k].what = "transfer", frames[k].node = NodeOfAgent(a)
        PROVE  k \in 1..Len(frames') /\ frames'[k] = frames[k]
    BY DEF NoTransferSent
  <2> QED
    BY <1>3, <2>1, <2>2 DEF AnnouncersOK
<1> QED
  BY <1>1, <1>2, <1>3 DEF AnnouncersOK, CastStays

LEMMA DelegateKeepsInv ==
    ASSUME PlanInv, RunInv, NEW d \in Delegations, NEW a \in Agents, Delegate(d, a)
    PROVE  RunInv'
<1>1. /\ deleg[d].at = "none" /\ a \in crew /\ ran' = ran /\ frames' = frames
  BY DEF Delegate
<1>2. PICK record : record = [agent |-> a, at |-> "working", last |-> FALSE]
  OBVIOUS
<1>3. /\ record \in Delegation /\ record.at = "working" /\ record.agent = a
  BY <1>2 DEF Delegation
<1>4. Delegated(d) /\ Moves(d, record)
  BY <1>2 DEF Delegated, Delegate, Moves
<1>5. /\ kickoff' = kickoff /\ kickoff # "idle" /\ manager # NoNode
      /\ def' = def /\ manager' = manager /\ crew' = crew
      /\ \A b : NodeOfAgent(b)' = NodeOfAgent(b)
      /\ ThreadsOK /\ TransfersOK(frames) /\ AnnouncersOK /\ frames \in Seq(FrameType)
      /\ deleg \in [Delegations -> Delegation]
  BY <1>4, DelegatedRests
<1>6. RunDataOK' /\ FramesOK'
  BY <1>1, <1>3, <1>4, <1>5, DelegatedKeepsTheRest
<1>7. deleg'[d] = record /\ \A e \in Delegations : e # d => deleg'[e] = deleg[e]
  BY <1>4, <1>5 DEF Moves
<1>8. ThreadsOK'
  BY <1>1, <1>3, <1>5, <1>7 DEF ThreadsOK
<1>9. Specialist' = Specialist
  BY <1>1, <1>5 DEF Specialist
<1>10. TransfersOK(frames)'
  BY <1>1, <1>5, <1>9 DEF TransfersOK
<1>11. \A e \in Delegations : /\ Announcing(e)' <=> Announcing(e)
                              /\ Announcing(e) => deleg'[e] = deleg[e]
  BY <1>1, <1>3, <1>7 DEF Announcing
<1>12. AnnouncersOK'
  <2>1. CastStays /\ SameAnnouncers /\ NoTransferSent
    BY <1>1, <1>5, <1>9, <1>11 DEF CastStays, SameAnnouncers, NoTransferSent
  <2> QED
    BY <1>5, <2>1, AnnouncersStay
<1> QED
  BY <1>6, <1>8, <1>10, <1>12 DEF RunInv

\* A specialist has gone on after it was announced: nobody announces anew.
LEMMA AnswerKeepsInv ==
    ASSUME PlanInv, RunInv, NEW d \in Delegations, NEW record \in Delegation, Moves(d, record),
           Delegated(d), deleg[d].at \in {"working", "answering", "reporting"},
           record.at \notin {"announcing", "none", "working"}, record.agent = deleg[d].agent,
           deleg[d].agent \in ran, NobodyElseRan, ran' \subseteq ran,
           frames' \in Seq(FrameType),
           frames' = frames \/ frames' = Append(frames, Frame("output", NodeOfAgent(deleg[d].agent), {}))
    PROVE  RunInv'
<1>1. RunDataOK' /\ FramesOK'
  BY DelegatedKeepsTheRest
<1>2. /\ kickoff' = kickoff /\ kickoff # "idle" /\ manager # NoNode /\ plan = "ready"
      /\ def' = def /\ manager' = manager /\ crew' = crew
      /\ \A b : NodeOfAgent(b)' = NodeOfAgent(b)
      /\ ThreadsOK /\ TransfersOK(frames) /\ AnnouncersOK /\ frames \in Seq(FrameType)
      /\ Len(frames) \in Nat /\ deleg \in [Delegations -> Delegation]
  BY DelegatedRests
<1>3. deleg'[d] = record /\ \A e \in Delegations : e # d => deleg'[e] = deleg[e]
  BY <1>2 DEF Moves
<1>4. deleg[d].agent \in crew /\ deleg[d].agent \in Specialist
  BY <1>2 DEF ThreadsOK, Specialist
<1>5. ran' = ran /\ Specialist' = Specialist
  BY <1>2 DEF NobodyElseRan, Specialist
<1>6. ThreadsOK'
  BY <1>2, <1>3, <1>4, <1>5 DEF ThreadsOK
<1>7. PICK f : f = Frame("output", NodeOfAgent(deleg[d].agent), {})
  OBVIOUS
<1>8. f \in FrameType /\ f.what = "output" /\ f.node = NodeOfAgent(deleg[d].agent)
  BY <1>2, <1>4, <1>7, NodeOfSpecialist DEF Frame, FrameType
<1>9. \A k \in 1..Len(frames) : k \in 1..Len(frames') /\ frames'[k] = frames[k]
  <2>1. CASE frames' = frames
    BY <2>1
  <2>2. CASE frames' = Append(frames, f)
    BY <1>2, <1>8, <2>2, OneOnTop
  <2> QED
    BY <1>7, <2>1, <2>2
<1>10. \A k \in 1..Len(frames') : k \in 1..Len(frames) \/ frames'[k] = f
  <2>1. CASE frames' = frames
    BY <2>1
  <2>2. CASE frames' = Append(frames, f)
    BY <1>2, <1>8, <2>2, OneOnTop
  <2> QED
    BY <1>7, <2>1, <2>2
<1>11. TransfersOK(frames)'
  <2>1. ASSUME NEW k \in 1..Len(frames'), frames'[k].what = "transfer"
        PROVE  k \in 1..Len(frames) /\ frames'[k] = frames[k]
    BY <1>8, <1>9, <1>10, <2>1
  <2>2. ASSUME NEW k \in 1..Len(frames'), frames'[k].what = "output"
        PROVE  frames'[k].node = manager \/ \E a \in Specialist : frames'[k].node = NodeOfAgent(a)
    <3>1. CASE k \in 1..Len(frames)
      BY <1>2, <1>9, <2>2, <3>1 DEF TransfersOK
    <3>2. CASE frames'[k] = f
      BY <1>4, <1>8, <3>2
    <3> QED
      BY <1>10, <3>1, <3>2
  <2> QED
    BY <1>2, <1>5, <2>1, <2>2 DEF TransfersOK
<1>12. \A e \in Delegations : /\ Announcing(e)' <=> Announcing(e)
                              /\ Announcing(e) => deleg'[e] = deleg[e]
  BY <1>3 DEF Announcing
<1>13. AnnouncersOK'
  <2>1. \A k \in 1..Len(frames') : frames'[k].what = "transfer" => k \in 1..Len(frames)
    BY <1>8, <1>10
  <2>2. CastStays /\ SameAnnouncers /\ NoTransferSent
    BY <1>2, <1>5, <1>9, <1>12, <2>1 DEF CastStays, SameAnnouncers, NoTransferSent
  <2> QED
    BY <1>2, <2>2, AnnouncersStay
<1> QED
  BY <1>1, <1>6, <1>11, <1>13 DEF RunInv

LEMMA AnnounceKeepsInv ==
    ASSUME PlanInv, RunInv, NEW d \in Delegations, Announce(d)
    PROVE  RunInv'
<1>1. PICK f, record :
         /\ f = Frame("transfer", NodeOfAgent(deleg[d].agent), {})
         /\ record = [deleg[d] EXCEPT !.at = IF deleg[d].last THEN "answering" ELSE "working"]
  OBVIOUS
<1>2. /\ Announcing(d) /\ ran' = ran /\ frames' = Append(frames, f)
      /\ deleg' = [deleg EXCEPT ![d].at = IF deleg[d].last THEN "answering" ELSE "working"]
      /\ Delegated(d)
  BY <1>1 DEF Announce, Announcing, MoveOn, Delegated
<1>3. /\ kickoff' = kickoff /\ kickoff # "idle" /\ manager # NoNode /\ plan = "ready"
      /\ def' = def /\ manager' = manager /\ crew' = crew
      /\ \A b : NodeOfAgent(b)' = NodeOfAgent(b)
      /\ ThreadsOK /\ TransfersOK(frames) /\ AnnouncersOK /\ frames \in Seq(FrameType)
      /\ Len(frames) \in Nat /\ deleg \in [Delegations -> Delegation]
  BY <1>2, DelegatedRests
<1>4. PICK a : a = deleg[d].agent
  OBVIOUS
<1>5. /\ record \in Delegation /\ record.at \in {"answering", "working"} /\ record.agent = a
      /\ Moves(d, record)
  BY <1>1, <1>2, <1>3, <1>4 DEF Delegation, Moves
<1>6. a \in crew /\ a \in Specialist
  BY <1>2, <1>3, <1>4 DEF ThreadsOK, Specialist, Announcing
<1>7. /\ f \in FrameType /\ f.what = "transfer" /\ f.node = NodeOfAgent(a)
      /\ def.agent[f.node] = a
  BY <1>1, <1>3, <1>4, <1>6, NodeOfSpecialist DEF Frame, FrameType
<1>8. /\ frames' \in Seq(FrameType)
      /\ \A k \in 1..Len(frames) : k \in 1..Len(frames') /\ frames'[k] = frames[k]
      /\ \A k \in 1..Len(frames') : k \in 1..Len(frames) \/ frames'[k] = f
      /\ \E k \in 1..Len(frames') : k \notin 1..Len(frames) /\ frames'[k] = f
      /\ \A k, l \in 1..Len(frames') : k \notin 1..Len(frames) /\ l \notin 1..Len(frames) => k = l
  <2>1. PICK s, t : s = frames /\ t = Append(s, f)
    OBVIOUS
  <2>2. s \in Seq(FrameType) /\ f \in FrameType
    BY <1>3, <1>7, <2>1
  <2>3. /\ t \in Seq(FrameType)
        /\ \A k \in 1..Len(s) : k \in 1..Len(t) /\ t[k] = s[k]
        /\ \A k \in 1..Len(t) : k \in 1..Len(s) \/ t[k] = f
        /\ \E k \in 1..Len(t) : k \notin 1..Len(s) /\ t[k] = f
        /\ \A k, l \in 1..Len(t) : k \notin 1..Len(s) /\ l \notin 1..Len(s) => k = l
    BY <2>1, <2>2, OneOnTop
  <2>4. frames' = t /\ s = frames
    BY <1>2, <2>1
  <2> QED
    BY <2>3, <2>4
<1>9. RunDataOK' /\ FramesOK'
  BY <1>2, <1>5, <1>8, DelegatedKeepsTheRest
<1>10. deleg'[d] = record /\ \A e \in Delegations : e # d => deleg'[e] = deleg[e]
  BY <1>3, <1>5 DEF Moves
<1>11. Specialist' = Specialist
  BY <1>2, <1>3 DEF Specialist
<1>12. ThreadsOK'
  <2>1. \A e \in Delegations : deleg'[e].at # "none" =>
           deleg'[e].agent \in crew /\ (deleg'[e].at # "working" => deleg'[e].agent \in ran)
    <3> TAKE e \in Delegations
    <3>1. CASE e = d
      BY <1>5, <1>6, <1>10, <3>1 DEF Specialist
    <3>2. CASE e # d
      BY <1>3, <1>10, <3>2 DEF ThreadsOK
    <3> QED
      BY <3>1, <3>2
  <2> QED
    BY <1>2, <1>3, <2>1 DEF ThreadsOK
\* Nothing was sent about this specialist yet.
<1>13. \A k \in 1..Len(frames) : frames[k].what = "transfer" => def.agent[frames[k].node] # a
  BY <1>2, <1>3, <1>4 DEF AnnouncersOK
<1>14. TransfersOK(frames)'
  <2>1. \A k \in 1..Len(frames') : frames'[k].what = "transfer" =>
            manager' # NoNode /\ def'.agent[frames'[k].node] \in Specialist'
    BY <1>3, <1>6, <1>7, <1>8, <1>11 DEF TransfersOK
  <2>2. ASSUME NEW k \in 1..Len(frames'), NEW l \in 1..Len(frames'),
               frames'[k].what = "transfer", frames'[l].what = "transfer",
               def.agent[frames'[k].node] = def.agent[frames'[l].node]
        PROVE  k = l
    <3>1. CASE k \in 1..Len(frames) /\ l \in 1..Len(frames)
      BY <1>3, <1>8, <2>2, <3>1 DEF TransfersOK
    <3>2. CASE k \in 1..Len(frames) /\ l \notin 1..Len(frames)
      BY <1>7, <1>8, <1>13, <2>2, <3>2
    <3>3. CASE k \notin 1..Len(frames) /\ l \in 1..Len(frames)
      BY <1>7, <1>8, <1>13, <2>2, <3>3
    <3>4. CASE k \notin 1..Len(frames) /\ l \notin 1..Len(frames)
      BY <1>8, <3>4
    <3> QED
      BY <3>1, <3>2, <3>3, <3>4
  <2>3. ASSUME NEW k \in 1..Len(frames'), frames'[k].what = "output"
        PROVE  frames'[k].node = manager \/ \E b \in Specialist : frames'[k].node = NodeOfAgent(b)
    <3>1. k \in 1..Len(frames) /\ frames'[k] = frames[k]
      BY <1>7, <1>8, <2>3
    <3> QED
      BY <1>3, <2>3, <3>1 DEF TransfersOK
  <2> QED
    BY <1>3, <1>11, <2>1, <2>2, <2>3 DEF TransfersOK
<1>15. \A e \in Delegations : Announcing(e)' => e # d /\ Announcing(e) /\ deleg'[e] = deleg[e]
  BY <1>5, <1>10 DEF Announcing
<1>16. AnnouncersOK'
  <2>1. ASSUME NEW e \in Delegations, NEW k \in 1..Len(frames'), Announcing(e)',
               frames'[k].what = "transfer"
        PROVE  def.agent[frames'[k].node] # deleg'[e].agent
    <3>1. e # d /\ Announcing(e) /\ deleg'[e] = deleg[e]
      BY <1>15, <2>1
    <3>2. deleg[e].agent # a
      BY <1>2, <1>3, <1>4, <3>1 DEF AnnouncersOK
    <3>3. CASE k \in 1..Len(frames)
      <4>1. frames'[k] = frames[k] /\ frames[k].what = "transfer"
        BY <1>8, <2>1, <3>3
      <4>2. def.agent[frames[k].node] # deleg[e].agent
        BY <1>3, <3>1, <3>3, <4>1 DEF AnnouncersOK
      <4> QED
        BY <3>1, <4>1, <4>2
    <3>4. CASE frames'[k] = f
      BY <1>7, <3>1, <3>2, <3>4
    <3> QED
      BY <1>8, <3>3, <3>4
  <2>2. ASSUME NEW e \in Delegations, NEW g \in Delegations, Announcing(e)', Announcing(g)',
               deleg'[e].agent = deleg'[g].agent
        PROVE  e = g
    BY <1>3, <1>15, <2>2 DEF AnnouncersOK
  <2>3. ASSUME NEW b \in Specialist
        PROVE  \/ \E e \in Delegations : Announcing(e)' /\ deleg'[e].agent = b
               \/ \E k \in 1..Len(frames') :
                     frames'[k].what = "transfer" /\ frames'[k].node = NodeOfAgent(b)
    <3>1. CASE b = a
      BY <1>7, <1>8, <3>1
    <3>2. ASSUME b # a, NEW e \in Delegations, Announcing(e), deleg[e].agent = b
          PROVE  Announcing(e)' /\ deleg'[e].agent = b
      BY <1>4, <1>10, <3>2 DEF Announcing
    <3>3. ASSUME NEW k \in 1..Len(frames), frames[k].what = "transfer", frames[k].node = NodeOfAgent(b)
          PROVE  k \in 1..Len(frames') /\ frames'[k] = frames[k]
      BY <1>8
    <3>4. \/ \E e \in Delegations : Announcing(e) /\ deleg[e].agent = b
          \/ \E k \in 1..Len(frames) : frames[k].what = "transfer" /\ frames[k].node = NodeOfAgent(b)
      BY <1>3, <2>3 DEF AnnouncersOK
    <3> QED
      BY <3>1, <3>2, <3>3, <3>4
  <2> QED
    BY <1>3, <1>11, <2>1, <2>2, <2>3 DEF AnnouncersOK
<1> QED
  BY <1>9, <1>12, <1>14, <1>16 DEF RunInv

\* A specialist whose agent has not run is announced by this thread.
LEMMA FirstStepKeepsInv ==
    ASSUME PlanInv, RunInv, NEW d \in Delegations, NEW last \in BOOLEAN, Step(d, last),
           deleg[d].agent \notin ran
    PROVE  RunInv'
<1>1. PICK record : record = [deleg[d] EXCEPT !.at = "announcing", !.last = last]
  OBVIOUS
<1>2. PICK a : a = deleg[d].agent
  OBVIOUS
<1>3. /\ deleg[d].at = "working" /\ ran' = ran \cup {a} /\ frames' = frames
      /\ deleg' = [deleg EXCEPT ![d].at = "announcing", ![d].last = last]
      /\ Delegated(d)
  BY <1>2 DEF Step, Delegated
<1>4. /\ kickoff' = kickoff /\ kickoff # "idle" /\ manager # NoNode
      /\ def' = def /\ manager' = manager /\ crew' = crew
      /\ \A b : NodeOfAgent(b)' = NodeOfAgent(b)
      /\ ThreadsOK /\ TransfersOK(frames) /\ AnnouncersOK /\ frames \in Seq(FrameType)
      /\ deleg \in [Delegations -> Delegation]
  BY <1>3, DelegatedRests
<1>5. /\ record \in Delegation /\ record.at = "announcing" /\ record.agent = a
      /\ Moves(d, record)
  BY <1>1, <1>2, <1>3, <1>4 DEF Delegation, Moves
<1>6. RunDataOK' /\ FramesOK'
  BY <1>3, <1>4, <1>5, DelegatedKeepsTheRest
<1>7. deleg'[d] = record /\ \A e \in Delegations : e # d => deleg'[e] = deleg[e]
  BY <1>4, <1>5 DEF Moves
<1>8. a \in crew /\ a \notin ran
  BY <1>2, <1>3, <1>4 DEF ThreadsOK
<1>9. Specialist' = Specialist \cup {a} /\ a \notin Specialist
  BY <1>3, <1>4, <1>8 DEF Specialist
<1>10. ThreadsOK'
  <2>1. \A e \in Delegations : deleg'[e].at # "none" =>
           deleg'[e].agent \in crew /\ (deleg'[e].at # "working" => deleg'[e].agent \in ran')
    <3> TAKE e \in Delegations
    <3>1. CASE e = d
      <4>1. a \in ran'
        BY <1>3
      <4>2. deleg'[e].agent = a
        BY <1>5, <1>7, <3>1
      <4> QED
        BY <1>8, <4>1, <4>2
    <3>2. CASE e # d
      BY <1>3, <1>4, <1>7, <3>2 DEF ThreadsOK
    <3> QED
      BY <3>1, <3>2
  <2> QED
    BY <1>4, <2>1 DEF ThreadsOK
<1>11. TransfersOK(frames)'
  BY <1>3, <1>4, <1>9 DEF TransfersOK
\* Nobody else announces it, and it was not announced.
<1>12. \A e \in Delegations : Announcing(e) => deleg[e].agent # a
  BY <1>4, <1>8 DEF ThreadsOK, Announcing
<1>13. \A k \in 1..Len(frames) : frames[k].what = "transfer" => def.agent[frames[k].node] # a
  BY <1>4, <1>9 DEF TransfersOK
<1>14. \A e \in Delegations : e # d => (Announcing(e)' <=> Announcing(e))
  BY <1>7 DEF Announcing
<1>15. AnnouncersOK'
  <2>1. ASSUME NEW e \in Delegations, NEW k \in 1..Len(frames), Announcing(e)',
               frames[k].what = "transfer"
        PROVE  def.agent[frames[k].node] # deleg'[e].agent
    BY <1>4, <1>5, <1>7, <1>13, <1>14, <2>1 DEF AnnouncersOK
  <2>2. ASSUME NEW e \in Delegations, NEW g \in Delegations, Announcing(e)', Announcing(g)',
               deleg'[e].agent = deleg'[g].agent
        PROVE  e = g
    BY <1>4, <1>5, <1>7, <1>12, <1>14, <2>2 DEF AnnouncersOK
  <2>3. ASSUME NEW b \in Specialist \cup {a}
        PROVE  \/ \E e \in Delegations : Announcing(e)' /\ deleg'[e].agent = b
               \/ \E k \in 1..Len(frames) :
                     frames[k].what = "transfer" /\ frames[k].node = NodeOfAgent(b)
    <3>1. CASE b = a
      BY <1>5, <1>7, <3>1 DEF Announcing
    <3>2. CASE b \in Specialist
      <4>1. \A e \in Delegations : Announcing(e) => Announcing(e)' /\ deleg'[e] = deleg[e]
        BY <1>3, <1>7 DEF Announcing
      <4> QED
        BY <1>4, <3>2, <4>1 DEF AnnouncersOK
    <3> QED
      BY <3>1, <3>2
  <2> QED
    BY <1>3, <1>4, <1>9, <2>1, <2>2, <2>3 DEF AnnouncersOK
<1> QED
  BY <1>6, <1>10, <1>11, <1>15 DEF RunInv

LEMMA DelegatedKeepsInv == \A d \in Delegations : PlanInv /\ RunInv /\ Delegated(d) => RunInv'
<1> SUFFICES ASSUME NEW d \in Delegations, PlanInv, RunInv, Delegated(d) PROVE RunInv'
  OBVIOUS
<1>1. ASSUME NEW a \in Agents, Delegate(d, a) PROVE RunInv'
  BY <1>1, DelegateKeepsInv
<1>2. ASSUME NEW last \in BOOLEAN, Step(d, last), deleg[d].agent \notin ran PROVE RunInv'
  BY <1>2, FirstStepKeepsInv
<1>3. CASE Announce(d)
  BY <1>3, AnnounceKeepsInv
\* The steps after which the specialist answers, has answered or has returned.
<1>4. ASSUME NEW place \in {"answering", "reporting", "returned"},
             deleg' = [deleg EXCEPT ![d].at = place], ran' = ran,
             deleg[d].at \in {"working", "answering", "reporting"}, deleg[d].agent \in ran,
             \/ frames' = frames
             \/ frames' = Append(frames, Frame("output", NodeOfAgent(deleg[d].agent), {}))
      PROVE  RunInv'
  <2>1. PICK record : record = [deleg[d] EXCEPT !.at = place]
    OBVIOUS
  <2>2. /\ deleg \in [Delegations -> Delegation] /\ frames \in Seq(FrameType)
        /\ plan = "ready" /\ ThreadsOK
    BY DelegatedRests
  <2>3. /\ record \in Delegation /\ record.at = place /\ record.agent = deleg[d].agent
        /\ Moves(d, record)
    BY <1>4, <2>1, <2>2 DEF Delegation, Moves
  <2>4. frames' \in Seq(FrameType)
    <3>1. deleg[d].agent \in crew
      BY <1>4, <2>2 DEF ThreadsOK
    <3>2. PICK f : f = Frame("output", NodeOfAgent(deleg[d].agent), {})
      OBVIOUS
    <3>3. f \in FrameType
      BY <2>2, <3>1, <3>2, NodeOfSpecialist DEF Frame, FrameType
    <3> QED
      BY <1>4, <2>2, <3>2, <3>3, AddsOne
  <2>5. NobodyElseRan /\ ran' \subseteq ran
    BY <1>4 DEF NobodyElseRan, Specialist
  <2> QED
    BY <1>4, <2>3, <2>4, <2>5, AnswerKeepsInv
<1>5. ASSUME NEW last \in BOOLEAN, Step(d, last), deleg[d].agent \in ran PROVE RunInv'
  <2>1. /\ deleg[d].at = "working" /\ deleg' = [deleg EXCEPT ![d].at = "answering"]
        /\ ran' = ran /\ frames' = frames
    BY <1>5 DEF Step, MoveOn
  <2> QED
    BY <1>4, <1>5, <2>1
<1>6. CASE Answer(d)
  <2>1. /\ deleg[d].at = "answering" /\ deleg' = [deleg EXCEPT ![d].at = "reporting"]
        /\ ran' = ran /\ frames' = frames
    BY <1>6 DEF Answer, MoveOn
  <2>2. deleg[d].agent \in ran
    BY <2>1 DEF RunInv, ThreadsOK
  <2> QED
    BY <1>4, <2>1, <2>2
<1>7. CASE Report(d)
  <2>1. /\ deleg[d].at = "reporting" /\ deleg' = [deleg EXCEPT ![d].at = "returned"]
        /\ ran' = ran
        /\ frames' = Append(frames, Frame("output", NodeOfAgent(deleg[d].agent), {}))
    BY <1>7 DEF Report, MoveOn
  <2>2. deleg[d].agent \in ran
    BY <2>1 DEF RunInv, ThreadsOK
  <2> QED
    BY <1>4, <2>1, <2>2
<1> QED
  BY <1>1, <1>2, <1>3, <1>5, <1>6, <1>7 DEF Delegated

LEMMA RunInitInv == RunInit => RunInv
<1> SUFFICES ASSUME RunInit PROVE RunInv
  OBVIOUS
<1>1. /\ def \in Definitions /\ kickoff = "idle" /\ at = 1 /\ inputs = {} /\ outputs = {}
      /\ ran = {} /\ frames = <<>> /\ deleg = [d \in Delegations |-> NoDelegation]
  BY DEF RunInit, PlanInit
<1>2. NoDelegation \in Delegation /\ NoDelegation.at = "none"
  <2>1. def.agent[def.entry] \in Agents
    BY <1>1, DefinitionSays
  <2>2. (CHOOSE a \in Agents : TRUE) \in Agents
    BY <2>1
  <2> QED
    BY <2>2 DEF NoDelegation, Delegation
<1>3. deleg \in [Delegations -> Delegation] /\ \A d \in Delegations : deleg[d].at = "none"
  BY <1>1, <1>2
<1>4. frames \in Seq(FrameType) /\ Len(frames) = 0
  BY <1>1, EmptySeq
<1>5. RunDataOK
  <2>1. /\ kickoff \in {"idle", "running", "returned", "raised"} /\ at \in Nat \ {0}
        /\ kickoff # "idle" => plan = "ready" /\ at <= Len(tasks) + 1
    BY <1>1
  <2>2. at = 1 /\ inputs = {} /\ outputs = {} /\ ran = {} /\ frames = <<>>
    BY <1>1
  <2> QED
    BY <1>3, <1>4, <2>1, <2>2, Zenon DEF RunDataOK
<1>6. ThreadsOK
  BY <1>3 DEF ThreadsOK
<1>7. TransfersOK(frames)
  BY <1>4 DEF TransfersOK
<1>8. AnnouncersOK
  <2>1. /\ \A d \in Delegations : ~Announcing(d)
        /\ \A k \in 1..Len(frames) : FALSE
        /\ Specialist = {}
    BY <1>1, <1>3, <1>4 DEF Specialist, Announcing
  <2> QED
    BY <2>1 DEF AnnouncersOK
<1>9. FramesOK
  BY <1>1 DEF FramesOK
<1> QED
  BY <1>5, <1>6, <1>7, <1>8, <1>9 DEF RunInv

\* Before the kickoff there is nothing that a change of the plan could disturb.
LEMMA PlanKeepsInv == PlanInv /\ RunInv /\ Plan => RunInv'
<1> SUFFICES ASSUME PlanInv, RunInv, Plan PROVE RunInv'
  OBVIOUS
<1>1. /\ kickoff' = kickoff /\ at' = at /\ inputs' = inputs /\ outputs' = outputs /\ ran' = ran
      /\ frames' = frames /\ deleg' = deleg
  BY DEF Plan, runVars
<1>2. plan # "ready"
  BY DEF Plan, PlanNext, Visit, FinishOrder, Staff, CreateTask, FinishTasks
<1>3. /\ kickoff = "idle" /\ ran = {} /\ frames = <<>> /\ Len(frames) = 0
      /\ \A d \in Delegations : deleg[d].at = "none"
  BY <1>2, EmptySeq DEF RunInv, RunDataOK
<1>4. RunDataOK'
  BY <1>1, <1>3 DEF RunInv, RunDataOK
<1>5. ThreadsOK'
  BY <1>1, <1>3 DEF ThreadsOK
<1>6. TransfersOK(frames)'
  <2>1. Len(frames') = 0
    BY <1>1, <1>3
  <2>2. \A k \in 1..Len(frames') : FALSE
    BY <2>1
  <2> QED
    BY <2>2 DEF TransfersOK
<1>7. AnnouncersOK'
  BY <1>1, <1>3 DEF AnnouncersOK, Specialist, Announcing
<1>8. FramesOK'
  BY <1>1, <1>3 DEF FramesOK
<1> QED
  BY <1>4, <1>5, <1>6, <1>7, <1>8 DEF RunInv

LEMMA RunStepKeepsInv == PlanInv /\ RunInv /\ [RunNext]_vars => RunInv'
<1>1. PlanInv /\ RunInv /\ UNCHANGED vars => RunInv'
  <2> SUFFICES ASSUME PlanInv, RunInv, UNCHANGED vars PROVE RunInv'
    OBVIOUS
  <2>1. /\ kickoff' = kickoff /\ at' = at /\ inputs' = inputs /\ outputs' = outputs /\ ran' = ran
        /\ frames' = frames /\ deleg' = deleg /\ PlanStands
    BY DEF vars, runVars, PlanStands
  <2>2. /\ def' = def /\ plan' = plan /\ manager' = manager /\ crew' = crew /\ tasks' = tasks
        /\ \A a : NodeOfAgent(a)' = NodeOfAgent(a)
        /\ Distinct' = Distinct /\ Sequential' = Sequential
    BY <2>1, StandingPlan
  <2>3. RunDataOK' /\ ThreadsOK'
    BY <2>1, <2>2 DEF RunInv, RunDataOK, ThreadsOK
  <2>4. Specialist' = Specialist
    BY <2>1, <2>2 DEF Specialist
  <2>5. TransfersOK(frames)'
    BY <2>1, <2>2, <2>4 DEF RunInv, TransfersOK
  <2>6. AnnouncersOK'
    BY <2>1, <2>2, <2>4 DEF RunInv, AnnouncersOK, Announcing
  <2>7. FramesOK'
    <3>1. \A i : Begins(i)' = Begins(i)
      BY <2>1, <2>2 DEF Begins
    <3> QED
      BY <2>1, <2>2, <3>1 DEF RunInv, FramesOK
  <2> QED
    BY <2>3, <2>5, <2>6, <2>7 DEF RunInv
<1>2. PlanInv /\ RunInv /\ RunNext => RunInv'
  BY PlanKeepsInv, KickoffKeepsInv, TaskDoneKeepsInv, SilentStepsKeepInv, DelegatedKeepsInv
     DEF RunNext
<1> QED
  BY <1>1, <1>2

-----------------------------------------------------------------------------
(* What the frames tell                                                    *)

LEMMA SpecialistsAreToldOnce == PlanInv /\ RunInv => SpecialistsAreAnnouncedOnce
<1> SUFFICES ASSUME PlanInv, RunInv, NEW n \in Nodes
             PROVE  /\ \A k, l \in {k \in 1..Len(frames) :
                                      frames[k].what = "transfer" /\ frames[k].node = n} : k = l
                    /\ Resting = Delegations /\ manager # NoNode /\ n # manager /\ OutputAt(n) # {}
                         => {k \in 1..Len(frames) :
                               frames[k].what = "transfer" /\ frames[k].node = n} # {}
  BY DEF SpecialistsAreAnnouncedOnce
<1>1. TransfersOK(frames) /\ AnnouncersOK
  BY DEF RunInv
<1>2. \A k, l \in {k \in 1..Len(frames) : frames[k].what = "transfer" /\ frames[k].node = n} : k = l
  BY <1>1 DEF TransfersOK
<1>3. ASSUME Resting = Delegations, manager # NoNode, n # manager, OutputAt(n) # {}
      PROVE  {k \in 1..Len(frames) : frames[k].what = "transfer" /\ frames[k].node = n} # {}
  <2>1. PICK k \in 1..Len(frames) : frames[k].what = "output" /\ frames[k].node = n
    BY <1>3 DEF OutputAt
  <2>2. PICK a \in Specialist : n = NodeOfAgent(a)
    BY <1>1, <1>3, <2>1 DEF TransfersOK
  <2>3. \A d \in Delegations : ~Announcing(d)
    BY <1>3 DEF Resting, Announcing
  <2>4. \E l \in 1..Len(frames) : frames[l].what = "transfer" /\ frames[l].node = NodeOfAgent(a)
    BY <1>1, <1>3, <2>3 DEF AnnouncersOK
  <2> QED
    BY <2>2, <2>4
<1> QED
  BY <1>2, <1>3

\* Every number is odd or even.
LEMMA OddOrEven ==
    ASSUME NEW k \in Nat \ {0}
    PROVE  \E i \in Nat \ {0} : k = 2 * i - 1 \/ k = 2 * i
<1>1. (k + 1) \div 2 \in Nat \ {0}
  OBVIOUS
<1>2. k = 2 * ((k + 1) \div 2) - 1 \/ k = 2 * ((k + 1) \div 2)
  OBVIOUS
<1> QED
  BY <1>1, <1>2

\* In a crew of its own the input and the output of a task are where FramesOK has them.
LEMMA FramesAreOfTasks ==
    ASSUME PlanInv, RunInv, kickoff # "idle", manager = NoNode, Distinct, plan = "ready",
           NEW i \in 1..Len(tasks)
    PROVE  /\ InputAt(tasks[i].node) = IF Begins(i) THEN {2 * i - 1} ELSE {}
           /\ OutputAt(tasks[i].node) = IF i < at THEN {2 * i} ELSE {}
           /\ Begins(i) => frames[2 * i - 1].shows = tasks[i].context
<1>1. /\ Len(frames) \in Nat /\ Len(tasks) \in Nat /\ at \in Nat \ {0} /\ at <= Len(tasks) + 1
      /\ FramesOK
  BY AfterKickoff DEF RunInv, RunDataOK
<1>2. /\ \/ Sequential /\ at <= Len(tasks) /\ Len(frames) = 2 * at - 1
         \/ (Sequential => at = Len(tasks) + 1) /\ Len(frames) = 2 * at - 2
      /\ \A j \in 1..Len(tasks) :
            /\ Begins(j) => frames[2 * j - 1] = Frame("input", tasks[j].node, tasks[j].context)
            /\ j < at => frames[2 * j] = Frame("output", tasks[j].node, {})
  <2>1. /\ Len(frames) = 2 * (at - 1) + (IF Sequential /\ at <= Len(tasks) THEN 1 ELSE 0)
        /\ \A j \in 1..Len(tasks) :
              /\ Begins(j) => frames[2 * j - 1] = Frame("input", tasks[j].node, tasks[j].context)
              /\ j < at => frames[2 * j] = Frame("output", tasks[j].node, {})
    BY <1>1 DEF FramesOK
  <2>2. CASE Sequential /\ at <= Len(tasks)
    BY <1>1, <2>1, <2>2
  <2>3. CASE ~(Sequential /\ at <= Len(tasks))
    BY <1>1, <2>1, <2>3
  <2> QED
    BY <2>2, <2>3
<1>3. ASSUME NEW j \in 1..Len(tasks)
      PROVE  /\ Begins(j) => 2 * j - 1 \in 1..Len(frames)
             /\ j < at => 2 * j \in 1..Len(frames)
  <2>1. CASE Sequential /\ at <= Len(tasks) /\ Len(frames) = 2 * at - 1
    BY <1>1, <2>1 DEF Begins
  <2>2. CASE (Sequential => at = Len(tasks) + 1) /\ Len(frames) = 2 * at - 2
    BY <1>1, <2>2 DEF Begins
  <2> QED
    BY <1>2, <2>1, <2>2
<1>4. ASSUME NEW k \in 1..Len(frames)
      PROVE  \E j \in 1..Len(tasks) : \/ k = 2 * j - 1 /\ Begins(j)
                                      \/ k = 2 * j /\ j < at
  <2>0. k \in Nat \ {0} /\ k <= Len(frames)
    BY <1>1
  <2>1. PICK j \in Nat \ {0} : k = 2 * j - 1 \/ k = 2 * j
    BY <2>0, OddOrEven
  <2>2. CASE k = 2 * j
    <3>1. j < at
      BY <1>1, <1>2, <2>0, <2>2
    <3>2. j \in 1..Len(tasks)
      BY <1>1, <3>1
    <3> QED
      BY <2>2, <3>1, <3>2
  <2>3. CASE k = 2 * j - 1
    <3>1. j < at \/ (j = at /\ Sequential /\ at <= Len(tasks))
      BY <1>1, <1>2, <2>0, <2>3
    <3>2. j \in 1..Len(tasks)
      BY <1>1, <3>1
    <3> QED
      BY <2>3, <3>1, <3>2 DEF Begins
  <2> QED
    BY <2>1, <2>2, <2>3
<1>5. \A j \in 1..Len(tasks) :
         /\ Begins(j) => /\ frames[2 * j - 1].what = "input"
                         /\ frames[2 * j - 1].node = tasks[j].node
                         /\ frames[2 * j - 1].shows = tasks[j].context
         /\ j < at => frames[2 * j].what = "output" /\ frames[2 * j].node = tasks[j].node
  <2> TAKE j \in 1..Len(tasks)
  <2>1. ASSUME Begins(j)
        PROVE  /\ frames[2 * j - 1].what = "input" /\ frames[2 * j - 1].node = tasks[j].node
               /\ frames[2 * j - 1].shows = tasks[j].context
    <3>1. frames[2 * j - 1] = Frame("input", tasks[j].node, tasks[j].context)
      BY <1>2, <2>1
    <3> QED
      BY <3>1 DEF Frame
  <2>2. ASSUME j < at
        PROVE  frames[2 * j].what = "output" /\ frames[2 * j].node = tasks[j].node
    <3>1. frames[2 * j] = Frame("output", tasks[j].node, {})
      BY <1>2, <2>2
    <3> QED
      BY <3>1 DEF Frame
  <2> QED
    BY <2>1, <2>2
<1>6. ASSUME NEW k \in InputAt(tasks[i].node) PROVE Begins(i) /\ k = 2 * i - 1
  <2>1. k \in 1..Len(frames) /\ frames[k].what = "input" /\ frames[k].node = tasks[i].node
    BY DEF InputAt
  <2>2. PICK j \in 1..Len(tasks) : \/ k = 2 * j - 1 /\ Begins(j)
                                   \/ k = 2 * j /\ j < at
    BY <1>4, <2>1
  <2>3. k = 2 * j - 1 /\ Begins(j)
    BY <1>5, <2>1, <2>2
  <2>4. j = i
    BY <1>5, <2>1, <2>3 DEF Distinct
  <2> QED
    BY <2>3, <2>4
<1>7. ASSUME NEW k \in OutputAt(tasks[i].node) PROVE i < at /\ k = 2 * i
  <2>1. k \in 1..Len(frames) /\ frames[k].what = "output" /\ frames[k].node = tasks[i].node
    BY DEF OutputAt
  <2>2. PICK j \in 1..Len(tasks) : \/ k = 2 * j - 1 /\ Begins(j)
                                   \/ k = 2 * j /\ j < at
    BY <1>4, <2>1
  <2>3. k = 2 * j /\ j < at
    BY <1>5, <2>1, <2>2
  <2>4. j = i
    BY <1>5, <2>1, <2>3 DEF Distinct
  <2> QED
    BY <2>3, <2>4
<1>8. Begins(i) => 2 * i - 1 \in InputAt(tasks[i].node)
  BY <1>3, <1>5 DEF InputAt
<1>9. i < at => 2 * i \in OutputAt(tasks[i].node)
  BY <1>3, <1>5 DEF OutputAt
<1>10. InputAt(tasks[i].node) = IF Begins(i) THEN {2 * i - 1} ELSE {}
  BY <1>6, <1>8
<1>11. OutputAt(tasks[i].node) = IF i < at THEN {2 * i} ELSE {}
  BY <1>7, <1>9
<1>12. Begins(i) => frames[2 * i - 1].shows = tasks[i].context
  BY <1>5
<1> QED
  BY <1>10, <1>11, <1>12

LEMMA FramesAreToldInOrder == PlanInv /\ RunInv => FramesFollowTheTasks
<1> SUFFICES ASSUME PlanInv, RunInv, plan = "ready", manager = NoNode, Distinct,
                    NEW i \in 1..Len(tasks), NEW n, n = tasks[i].node
             PROVE  /\ i < at => /\ \E k \in InputAt(n), l \in OutputAt(n) :
                                      /\ InputAt(n) = {k} /\ OutputAt(n) = {l} /\ k < l
                                      /\ frames[k].shows = tasks[i].context
                                 /\ \A j \in 1..(i-1) : \A k \in OutputAt(tasks[j].node),
                                                           l \in InputAt(n) : k < l
                    /\ i = at /\ kickoff = "running"
                         => OutputAt(n) = {} /\ (InputAt(n) # {} <=> Sequential)
                    /\ i > at => InputAt(n) = {} /\ OutputAt(n) = {}
  BY DEF FramesFollowTheTasks
<1>1. at \in Nat \ {0} /\ Len(tasks) \in Nat
  BY AfterKickoff
<1>2. CASE kickoff = "idle"
  <2>1. at = 1 /\ Len(frames) = 0
    BY <1>2, EmptySeq DEF RunInv, RunDataOK
  <2>2. InputAt(n) = {} /\ OutputAt(n) = {}
    BY <2>1 DEF InputAt, OutputAt
  <2>3. ~(i < at) /\ kickoff # "running"
    BY <1>2, <2>1
  <2> QED
    BY <2>2, <2>3
<1>3. CASE kickoff # "idle"
  <2>1. \A j \in 1..Len(tasks) :
           /\ InputAt(tasks[j].node) = IF Begins(j) THEN {2 * j - 1} ELSE {}
           /\ OutputAt(tasks[j].node) = IF j < at THEN {2 * j} ELSE {}
           /\ Begins(j) => frames[2 * j - 1].shows = tasks[j].context
    BY <1>3, FramesAreOfTasks
  <2>2. ASSUME i < at
        PROVE  /\ \E k \in InputAt(n), l \in OutputAt(n) :
                     /\ InputAt(n) = {k} /\ OutputAt(n) = {l} /\ k < l
                     /\ frames[k].shows = tasks[i].context
               /\ \A j \in 1..(i-1) : \A k \in OutputAt(tasks[j].node), l \in InputAt(n) : k < l
    <3>1. /\ InputAt(n) = {2 * i - 1} /\ OutputAt(n) = {2 * i}
          /\ frames[2 * i - 1].shows = tasks[i].context
      BY <2>1, <2>2 DEF Begins
    <3>2. 2 * i - 1 < 2 * i
      BY <1>1
    <3>3. ASSUME NEW j \in 1..(i - 1) PROVE \A k \in OutputAt(tasks[j].node) : k < 2 * i - 1
      <4>1. j \in 1..Len(tasks) /\ j < at /\ 2 * j < 2 * i - 1
        BY <1>1, <2>2
      <4> QED
        BY <2>1, <4>1
    <3> QED
      BY <3>1, <3>2, <3>3
  <2>3. ASSUME i = at PROVE OutputAt(n) = {} /\ (InputAt(n) # {} <=> Sequential)
    <3>1. ~(i < at) /\ (Begins(i) <=> Sequential)
      BY <1>1, <2>3 DEF Begins
    <3> QED
      BY <2>1, <3>1
  <2>4. ASSUME i > at PROVE InputAt(n) = {} /\ OutputAt(n) = {}
    <3>1. ~(i < at) /\ ~Begins(i)
      BY <1>1, <2>4 DEF Begins
    <3> QED
      BY <2>1, <3>1
  <2> QED
    BY <2>2, <2>3, <2>4
<1> QED
  BY <1>2, <1>3

\* What the emitter tells of a run is what the run did: the inputs and outputs of a crew's
\* tasks in their order, each once and with its context, and every specialist of a manager
\* announced once, before its node shows an output when the manager is done without it
\* (ExecutionEventEmitter): for every plan, however many threads delegate.
THEOREM FramesAlwaysTellTheRun == CrewSpec => []FramesTellTheRun
<1>1. RunInit => RunInv
  BY RunInitInv
<1>2. PlanInv /\ RunInv /\ [RunNext]_vars => RunInv'
  BY RunStepKeepsInv
<1>3. PlanInv /\ RunInv => FramesTellTheRun
  BY SpecialistsAreToldOnce, FramesAreToldInOrder DEF FramesTellTheRun
<1> QED
  BY <1>1, <1>2, <1>3, PlanInvAlways, PTL DEF CrewSpec

-----------------------------------------------------------------------------
(***************************************************************************)
(* Keys and routes (ModelRoutes)                                           *)
(***************************************************************************)

KeyFiles == [Providers -> Keys \cup {NoKey}]

\* A request has put its key into the file it is about to save, or has saved it: no
\* other request came between.
RequestIsSound ==
    /\ DOMAIN call = DOMAIN NoCall
    /\ call.at \in {"none", "key", "conflict?", "writing"}
    /\ call.at # "none" => /\ call.provider \in Providers /\ call.file \in Docs
                           /\ call.key \in Keys \cup {NoKey}
    /\ call.at = "key" => /\ call.key \in offered[call.provider] /\ call.key # NoKey
                          /\ call.keys = WithKey(call.provider, call.key)
    /\ call.at \in {"conflict?", "writing"} /\ call.key # NoKey => StoredKeys[call.provider] = call.key

RoutesInv == RoutesTypeOK /\ RequestIsSound /\ KeysAreKept

LEMMA KeyFilesAreWhole == ASSUME NEW p \in Providers, NEW f, DOMAIN f = Providers PROVE f # Torn
  BY DEF Torn

LEMMA StoredKeysType == RoutesTypeOK => StoredKeys \in KeyFiles
  BY DEF RoutesTypeOK, StoredKeys, KeyFiles, NoKeys

LEMMA RoutesInvInit == RoutesInit => RoutesInv
<1> SUFFICES ASSUME RoutesInit PROVE RoutesInv
  OBVIOUS
<1>1. RoutesTypeOK
  BY DEF RoutesInit, RoutesTypeOK, Docs, Nowhere, NoKeys, NoCall
<1>2. RequestIsSound
  BY DEF RoutesInit, RequestIsSound, NoCall
<1>3. KeysAreKept
  BY DEF RoutesInit, KeysAreKept, StoredKeys, NoKeys
<1>. QED  BY <1>1, <1>2, <1>3 DEF RoutesInv

LEMMA BeginKeeps ==
    ASSUME RoutesInv, NEW p \in Providers, NEW doc \in Docs, NEW k \in Keys \cup {NoKey}, Begin(p, doc, k)
    PROVE  RoutesInv'
<1>1. PICK c : c = [at |-> IF k = NoKey THEN "conflict?" ELSE "key", provider |-> p, key |-> k,
                    keys |-> IF k = NoKey THEN Torn ELSE WithKey(p, k), file |-> doc]
  OBVIOUS
<1>2. call' = c /\ StoredKeys' = StoredKeys
  BY <1>1 DEF Begin, StoredKeys
<1>3. /\ c.at = (IF k = NoKey THEN "conflict?" ELSE "key") /\ c.provider = p /\ c.key = k /\ c.file = doc
      /\ c.keys = (IF k = NoKey THEN Torn ELSE WithKey(p, k)) /\ DOMAIN c = DOMAIN NoCall
  BY <1>1 DEF NoCall
<1>4. offered' \in [Providers -> SUBSET Keys] /\ (k # NoKey => k \in offered'[p])
      /\ \A q \in Providers : offered[q] \subseteq offered'[q]
  BY DEF Begin, RoutesInv, RoutesTypeOK
<1>5. RoutesTypeOK'
  BY <1>2, <1>3, <1>4 DEF Begin, RoutesInv, RoutesTypeOK
<1>6. RequestIsSound'
  <2>1. WithKey(p, k)' = WithKey(p, k)
    BY <1>2 DEF WithKey
  <2>. QED  BY <1>2, <1>3, <1>4, <2>1 DEF RequestIsSound
<1>7. KeysAreKept'
  BY <1>2, <1>4 DEF Begin, RoutesInv, KeysAreKept
<1>. QED  BY <1>5, <1>6, <1>7 DEF RoutesInv

LEMMA DocsWithOneChanged ==
    ASSUME RoutesInv, providersFile # Torn, NEW p \in Providers, NEW s \in Setting \cup {Absent}
    PROVE  [providersFile EXCEPT ![p] = s] \in Docs
  BY DEF RoutesInv, RoutesTypeOK, Docs

LEMMA RequestsKeep ==
    ASSUME RoutesInv, NEW p \in Providers,
           \/ \E s \in Settings, k \in Keys \cup {NoKey} : CreateProvider(p, s, k) \/ UpdateProvider(p, s, k)
           \/ DeleteProvider(p)
    PROVE  RoutesInv'
<1>1. ASSUME NEW s \in Settings, NEW k \in Keys \cup {NoKey}, CreateProvider(p, s, k) \/ UpdateProvider(p, s, k)
      PROVE  RoutesInv'
  <2>1. providersFile # Torn /\ s \in Setting
    BY <1>1, RoutesAssumption DEF CreateProvider, UpdateProvider, RoutesAssumption
  <2>2. PICK doc \in Docs : doc = [providersFile EXCEPT ![p] = s]
    BY <2>1, DocsWithOneChanged
  <2>3. Begin(p, doc, k)
    BY <1>1, <2>2 DEF CreateProvider, UpdateProvider
  <2>. QED  BY <2>3, BeginKeeps
<1>2. CASE DeleteProvider(p)
  <2>1. PICK doc \in Docs : doc = [providersFile EXCEPT ![p] = Absent]
    BY <1>2, DocsWithOneChanged DEF DeleteProvider
  <2>2. Begin(p, doc, NoKey)
    BY <1>2, <2>1 DEF DeleteProvider
  <2>. QED  BY <2>2, BeginKeeps
<1>. QED  BY <1>1, <1>2

LEMMA DeleteKeyKeeps == ASSUME RoutesInv, NEW p \in Providers, DeleteKey(p) PROVE RoutesInv'
<1>1. StoredKeys \in KeyFiles
  BY StoredKeysType DEF RoutesInv
<1>2. PICK f \in KeyFiles : f = WithKey(p, NoKey)
  BY <1>1 DEF WithKey, KeyFiles
<1>3. f[p] = NoKey /\ \A q \in Providers : q # p => f[q] = StoredKeys[q]
  BY <1>1, <1>2 DEF WithKey, KeyFiles
<1>4. StoredKeys'[p] = NoKey /\ \A q \in Providers : q # p => StoredKeys'[q] = StoredKeys[q]
  <2>1. CASE StoredKeys[p] # NoKey
    <3>1. keyFile' = f /\ f # Torn
      BY <1>2, <2>1, KeyFilesAreWhole DEF DeleteKey, KeyFiles
    <3>2. StoredKeys' = f
      BY <3>1 DEF StoredKeys
    <3>. QED  BY <1>3, <3>2
  <2>2. CASE StoredKeys[p] = NoKey
    <3>1. keyFile' = keyFile
      BY <2>2 DEF DeleteKey
    <3>2. StoredKeys' = StoredKeys
      BY <3>1 DEF StoredKeys
    <3>. QED  BY <2>2, <3>2
  <2>. QED  BY <2>1, <2>2
<1>5. /\ accepted' \in KeyFiles /\ offered' \in [Providers -> SUBSET Keys]
      /\ accepted'[p] = NoKey /\ \A q \in Providers : q # p => accepted'[q] = accepted[q] /\ offered'[q] = offered[q]
  BY DEF DeleteKey, RoutesInv, RoutesTypeOK, KeyFiles
<1>6. RoutesTypeOK'
  BY <1>2, <1>5 DEF DeleteKey, RoutesInv, RoutesTypeOK, KeyFiles
<1>7. RequestIsSound'
  BY DEF DeleteKey, RoutesInv, RequestIsSound
<1>8. KeysAreKept'
  BY <1>4, <1>5 DEF RoutesInv, KeysAreKept
<1>. QED  BY <1>6, <1>7, <1>8 DEF RoutesInv

LEMMA ReplaceKeysKeeps == ASSUME RoutesInv, ReplaceKeys PROVE RoutesInv'
<1>1. PICK p, k, c : /\ c = call /\ DOMAIN c = DOMAIN NoCall /\ p \in Providers /\ p = c.provider /\ k = c.key /\ k \in offered[p] /\ k # NoKey
                     /\ c.keys = WithKey(p, k) /\ c.file \in Docs
  BY DEF ReplaceKeys, RoutesInv, RequestIsSound
<1>2. k \in Keys /\ StoredKeys \in KeyFiles
  BY <1>1, StoredKeysType DEF RoutesInv, RoutesTypeOK
<1>3. PICK f \in KeyFiles : f = WithKey(p, k) /\ f[p] = k /\ \A q \in Providers : q # p => f[q] = StoredKeys[q]
  BY <1>1, <1>2 DEF WithKey, KeyFiles
<1>4. keyFile' = f /\ f # Torn
  BY <1>1, <1>3, KeyFilesAreWhole DEF ReplaceKeys, KeyFiles
<1>5. StoredKeys' = f
  BY <1>4 DEF StoredKeys
<1>6. PICK d : d = [c EXCEPT !.at = "conflict?"] /\ call' = d
  BY <1>1 DEF ReplaceKeys
<1>7. d.at = "conflict?" /\ d.provider = p /\ d.key = k /\ d.file = c.file /\ DOMAIN d = DOMAIN NoCall
  BY <1>1, <1>6 DEF NoCall
<1>8. RoutesTypeOK'
  BY <1>3, <1>4, <1>6, <1>7 DEF ReplaceKeys, RoutesInv, RoutesTypeOK, KeyFiles
<1>9. RequestIsSound'
  BY <1>1, <1>2, <1>3, <1>5, <1>6, <1>7 DEF RequestIsSound
<1>10. KeysAreKept'
  BY <1>1, <1>3, <1>5 DEF ReplaceKeys, RoutesInv, KeysAreKept
<1>. QED  BY <1>8, <1>9, <1>10 DEF RoutesInv

LEMMA ConflictKeeps == ASSUME RoutesInv, Conflict PROVE RoutesInv'
<1>1. RoutesTypeOK'
  BY DEF Conflict, NoCall, RoutesInv, RoutesTypeOK
<1>2. RequestIsSound'
  BY DEF Conflict, NoCall, RequestIsSound
<1>3. KeysAreKept'
  BY DEF Conflict, RoutesInv, KeysAreKept, StoredKeys
<1>. QED  BY <1>1, <1>2, <1>3 DEF RoutesInv

LEMMA OpenFileKeeps == ASSUME RoutesInv, OpenFile PROVE RoutesInv'
<1>1. PICK c : c = call /\ DOMAIN c = DOMAIN NoCall
  BY DEF RoutesInv, RequestIsSound
<1>2. PICK d : d = [c EXCEPT !.at = "writing"] /\ call' = d
  BY <1>1 DEF OpenFile
<1>3. /\ d.at = "writing" /\ d.provider = c.provider /\ d.key = c.key /\ d.file = c.file /\ DOMAIN d = DOMAIN NoCall
      /\ c.at = "conflict?"
  BY <1>1, <1>2 DEF OpenFile, NoCall
<1>4. RoutesTypeOK'
  BY <1>2, <1>3 DEF OpenFile, RoutesInv, RoutesTypeOK
<1>5. StoredKeys' = StoredKeys
  BY DEF OpenFile, StoredKeys
<1>6. RequestIsSound'
  BY <1>1, <1>2, <1>3, <1>5 DEF RoutesInv, RequestIsSound
<1>7. KeysAreKept'
  BY <1>5 DEF OpenFile, RoutesInv, KeysAreKept
<1>. QED  BY <1>4, <1>6, <1>7 DEF RoutesInv

LEMMA WriteFileKeeps == ASSUME RoutesInv, WriteFile PROVE RoutesInv'
<1>1. PICK p, k, doc : /\ p = call.provider /\ k = call.key /\ doc = call.file /\ p \in Providers
                       /\ k \in Keys \cup {NoKey} /\ doc \in Docs /\ (k # NoKey => StoredKeys[p] = k)
  BY DEF WriteFile, RoutesInv, RequestIsSound
<1>2. providersFile' = doc /\ saved' = doc /\ copy' = copy /\ keyFile' = keyFile /\ call' = NoCall
  BY <1>1 DEF WriteFile
<1>3. StoredKeys' = StoredKeys
  BY <1>2 DEF StoredKeys
<1>4. /\ accepted' \in KeyFiles /\ offered' \in [Providers -> SUBSET Keys]
      /\ \A q \in Providers : StoredKeys[q] \in {accepted'[q]} \cup offered'[q]
  <2>1. CASE k = NoKey
    BY <1>1, <2>1 DEF WriteFile, RoutesInv, RoutesTypeOK, KeysAreKept, KeyFiles
  <2>2. CASE k # NoKey
    <3>1. accepted' = [accepted EXCEPT ![p] = k] /\ offered' = [offered EXCEPT ![p] = {}]
      BY <1>1, <2>2 DEF WriteFile
    <3>2. accepted \in KeyFiles /\ offered \in [Providers -> SUBSET Keys]
      BY DEF RoutesInv, RoutesTypeOK, KeyFiles
    <3>3. accepted' \in KeyFiles /\ offered' \in [Providers -> SUBSET Keys]
      BY <1>1, <3>1, <3>2 DEF KeyFiles
    <3>4. /\ accepted'[p] = k
          /\ \A q \in Providers : q # p => accepted'[q] = accepted[q] /\ offered'[q] = offered[q]
      BY <1>1, <3>1, <3>2 DEF KeyFiles
    <3>. QED  BY <1>1, <2>2, <3>3, <3>4 DEF RoutesInv, KeysAreKept
  <2>. QED  BY <2>1, <2>2
<1>5. RoutesTypeOK'
  BY <1>1, <1>2, <1>4 DEF NoCall, RoutesInv, RoutesTypeOK, KeyFiles
<1>6. RequestIsSound'
  BY <1>2 DEF RequestIsSound, NoCall
<1>7. KeysAreKept'
  BY <1>3, <1>4 DEF KeysAreKept
<1>. QED  BY <1>5, <1>6, <1>7 DEF RoutesInv

LEMMA ReadingKeeps == ASSUME RoutesInv, Reload \/ RestartRoutes PROVE RoutesInv'
<1>1. StoredKeys' = StoredKeys
  BY DEF Reload, RestartRoutes, StoredKeys
<1>2. RoutesTypeOK'
  BY DEF Reload, RestartRoutes, NoCall, RoutesInv, RoutesTypeOK
<1>3. RequestIsSound'
  BY <1>1 DEF Reload, RestartRoutes, NoCall, RoutesInv, RequestIsSound
<1>4. KeysAreKept'
  BY <1>1 DEF Reload, RestartRoutes, RoutesInv, KeysAreKept
<1>. QED  BY <1>2, <1>3, <1>4 DEF RoutesInv

LEMMA RoutesInvNext == RoutesInv /\ [RoutesNext]_routeVars => RoutesInv'
<1> SUFFICES ASSUME RoutesInv, [RoutesNext]_routeVars PROVE RoutesInv'
  OBVIOUS
<1>1. CASE RoutesNext
  BY <1>1, RequestsKeep, DeleteKeyKeeps, ReplaceKeysKeeps, ConflictKeeps, OpenFileKeeps, WriteFileKeeps, ReadingKeeps
     DEF RoutesNext
<1>2. CASE UNCHANGED routeVars
  BY <1>2 DEF routeVars, RoutesInv, RoutesTypeOK, RequestIsSound, KeysAreKept, StoredKeys, WithKey
<1>. QED  BY <1>1, <1>2

\* What canvas and run make of one provider with a copy that is current, and what the
\* canvas alone vouches for with one that is not.
LEMMA FindingsFit == RoutesInv => FindingsFitTheRoute
<1> SUFFICES ASSUME RoutesInv, copy # Torn, NEW p \in Providers
             PROVE  IF Found(p)
                    THEN copy = providersFile => ~Usable(p)
                    ELSE /\ copy = providersFile /\ copy[p].llm /\ copy[p].endpoint => Usable(p)
                         /\ copy[p].auth = "required" => Findable(p) /\ HasKey(p)
  BY DEF FindingsFitTheRoute
<1>1. CASE Found(p)
  <2>1. SUFFICES ASSUME copy = providersFile, Usable(p) PROVE FALSE
    BY <1>1
  <2>2. Loaded(p) = copy[p]
    BY <2>1 DEF Loaded
  <2>3. Findable(p)
    BY <2>1 DEF Usable, Resolved
  <2>4. copy[p] # Absent /\ copy[p].enabled
    BY <2>2, <2>3 DEF Findable
  <2>5. copy[p].auth = "required" => KeyFound(p)
    BY <2>1, <2>2, <2>3 DEF Usable, KeyFound
  <2>. QED  BY <1>1, <2>4, <2>5 DEF Found
<1>2. CASE ~Found(p)
  <2>1. copy[p] # Absent /\ copy[p].enabled /\ (copy[p].auth = "required" => KeyFound(p))
    BY <1>2 DEF Found
  <2>2. copy[p].auth = "required" => Findable(p) /\ HasKey(p)
    BY <2>1 DEF KeyFound
  <2>3. ASSUME copy = providersFile, copy[p].llm, copy[p].endpoint PROVE Usable(p)
    <3>1. Loaded(p) = copy[p]
      BY <2>3 DEF Loaded
    <3>2. Resolved(p)
      BY <2>1, <2>3, <3>1 DEF Resolved, Findable
    <3>. QED  BY <2>2, <3>1, <3>2 DEF Usable
  <2>. QED  BY <1>2, <2>2, <2>3
<1>. QED  BY <1>1, <1>2

\* Wherever the process stops, whatever runs read meanwhile and whichever requests
\* follow one another: the key of the last request that was answered is kept unless
\* another was offered since, and what the canvas finds of an agent's model, reading
\* what is in the file, a run meets (api_providers.py, workflow_diagnostics,
\* resolve_llm): for any number of providers, keys and settings.
THEOREM KeysAndFindingsAreAlwaysTrue == RoutesSpec => []KeysAndFindingsAreTrue
<1>1. RoutesSpec => []RoutesInv
  BY RoutesInvInit, RoutesInvNext, PTL DEF RoutesSpec
<1>2. RoutesInv => KeysAndFindingsAreTrue
  BY FindingsFit DEF RoutesInv, KeysAndFindingsAreTrue
<1>. QED  BY <1>1, <1>2, PTL
=============================================================================

------------------------------ MODULE CrewRun ------------------------------
(***************************************************************************)
(* A planned crew at work, seen through ExecutionEventEmitter              *)
(* (src/crewai_runtime/execution_events.py): the kickoff runs the tasks in *)
(* their order and reports each when it is done; in a crew led by a        *)
(* manager the specialists it delegates to report from threads of their    *)
(* own.  The emitter keeps its state under a lock and emits a specialist's *)
(* frames outside it.                                                      *)
(*                                                                         *)
(* A frame is what it tells of which node, and for an input the upstream   *)
(* nodes whose output it shows; node_started and node_input are one frame. *)
(***************************************************************************)
EXTENDS CrewPlan

CONSTANTS
    Delegations     \* bound: delegations of one run

VARIABLES
    kickoff,        \* "idle", "running", "returned" or "raised"
    at,             \* the task the kickoff works on
    inputs,         \* the nodes of emitter._inputs
    outputs,        \* the nodes of emitter._outputs
    ran,            \* emitter._agents_ran
    frames,         \* what reached the sink
    deleg           \* the delegations, each in its thread

runVars == <<kickoff, at, inputs, outputs, ran, frames, deleg>>
vars == <<planVars, runVars>>

NoDelegation == [agent |-> CHOOSE a \in Agents : TRUE, at |-> "none", last |-> FALSE]
Delegation == [agent : Agents, last : BOOLEAN,
               at : {"none", "working", "announcing", "answering", "reporting", "returned"}]

Frame(what, node, shows) == [what |-> what, node |-> node, shows |-> shows]

Resting == {d \in Delegations : deleg[d].at \in {"none", "returned"}}

RunInit ==
    /\ PlanInit
    /\ kickoff = "idle"
    /\ at = 1
    /\ inputs = {} /\ outputs = {} /\ ran = {}
    /\ frames = <<>>
    /\ deleg = [d \in Delegations |-> NoDelegation]

Plan == PlanNext /\ UNCHANGED runVars

-----------------------------------------------------------------------------
(* The emitter, each operation under its lock                              *)

\* register_tasks(sequential=not hierarchical)
Sequential == def.process = "sequential"

\* _record_and_emit_input: the frame shows what upstream has put out so far.
InputFrame(i, done) == Frame("input", tasks[i].node, tasks[i].context \cap done)

\* The metas not announced yet, and the one announced next.
Unannounced(known) == {i \in 1..Len(tasks) : tasks[i].node \notin known}

\* Fault: the next task is announced by its place in the list.
AnnounceByPlace(known, done, sent) ==
    IF Sequential /\ at < Len(tasks)
    THEN inputs' = known \cup {tasks[at + 1].node} /\ frames' = Append(sent, InputFrame(at + 1, done))
    ELSE inputs' = known /\ frames' = sent

AnnounceNext(known, done, sent) ==
    IF Sequential /\ Unannounced(known) # {}
    THEN \E i \in Unannounced(known) :
            /\ First(i, Unannounced(known))
            /\ inputs' = known \cup {tasks[i].node}
            /\ frames' = Append(sent, InputFrame(i, done))
    ELSE inputs' = known /\ frames' = sent

\* on_kickoff_start
Kickoff ==
    /\ plan = "ready" /\ kickoff = "idle"
    /\ kickoff' = "running"
    /\ AnnounceNext({}, {}, frames)
    /\ UNCHANGED <<planVars, at, outputs, ran, deleg>>

\* step_callback of an agent nobody delegated to from a manager's node.
OwnStep(a) ==
    /\ kickoff = "running" /\ at <= Len(tasks)
    /\ IF manager # NoNode THEN a = def.agent[manager] ELSE a = tasks[at].agent
    /\ a \notin ran
    /\ ran' = ran \cup {a}
    /\ UNCHANGED <<planVars, kickoff, at, inputs, outputs, frames, deleg>>

\* task_callback: the task's name finds the first meta of that node.
TaskDone ==
    /\ kickoff = "running" /\ at <= Len(tasks)
    /\ Resting = Delegations
    /\ at' = at + 1
    /\ \E i \in 1..Len(tasks) :
          /\ First(i, {j \in 1..Len(tasks) : tasks[j].node = tasks[at].node})
          /\ ran' = ran \cup {tasks[i].agent}
          /\ outputs' = outputs \cup {tasks[i].node}
          /\ LET told == IF tasks[i].node \in inputs THEN frames
                         ELSE Append(frames, InputFrame(i, outputs))
             IN AnnounceNext(inputs \cup {tasks[i].node}, outputs',
                             Append(told, Frame("output", tasks[i].node, {})))
    /\ UNCHANGED <<planVars, kickoff, deleg>>

Returns ==
    /\ kickoff = "running" /\ at > Len(tasks)
    /\ kickoff' = "returned"
    /\ UNCHANGED <<planVars, at, inputs, outputs, ran, frames, deleg>>

\* An exception of the kickoff becomes the text of the response.
Raises ==
    /\ kickoff = "running" /\ at <= Len(tasks)
    /\ Resting = Delegations
    /\ kickoff' = "raised"
    /\ UNCHANGED <<planVars, at, inputs, outputs, ran, frames, deleg>>

-----------------------------------------------------------------------------
(* Delegations of a manager: agent_step(delegated_from=...)                *)

\* node_for_agent: the first node of the agent.
NodeOfAgent(a) ==
    ordered[CHOOSE i \in 1..Len(ordered) :
              First(i, {j \in 1..Len(ordered) : def.agent[ordered[j]] = a})]

MoveOn(d, place) == deleg' = [deleg EXCEPT ![d].at = place]

Delegate(d, a) ==
    /\ kickoff = "running" /\ at <= Len(tasks) /\ manager # NoNode
    /\ deleg[d].at = "none"
    /\ a \in crew
    /\ deleg' = [deleg EXCEPT ![d] = [agent |-> a, at |-> "working", last |-> FALSE]]
    /\ UNCHANGED <<planVars, kickoff, at, inputs, outputs, ran, frames>>

\* Fault: the agent is looked up here and added when it is announced.
StepUnlocked(d, last) ==
    /\ deleg[d].at = "working"
    /\ IF deleg[d].agent \notin ran
       THEN deleg' = [deleg EXCEPT ![d].at = "announcing", ![d].last = last] /\ UNCHANGED ran
       ELSE /\ last /\ MoveOn(d, "answering")
            /\ ran' = ran \cup {deleg[d].agent}
    /\ UNCHANGED <<planVars, kickoff, at, inputs, outputs, frames>>

\* The first section under the lock decides who announces the specialist.
Step(d, last) ==
    /\ deleg[d].at = "working"
    /\ IF deleg[d].agent \notin ran
       THEN /\ deleg' = [deleg EXCEPT ![d].at = "announcing", ![d].last = last]
            /\ ran' = ran \cup {deleg[d].agent}
       ELSE last /\ MoveOn(d, "answering") /\ UNCHANGED ran
    /\ UNCHANGED <<planVars, kickoff, at, inputs, outputs, frames>>

\* Emission of agent_transfer, outside the lock.
Announce(d) ==
    /\ deleg[d].at = "announcing"
    /\ frames' = Append(frames, Frame("transfer", NodeOfAgent(deleg[d].agent), {}))
    /\ MoveOn(d, IF deleg[d].last THEN "answering" ELSE "working")
    /\ UNCHANGED <<planVars, kickoff, at, inputs, outputs, ran>>

\* The final answer is put down under the lock and emitted after it.
Answer(d) ==
    /\ deleg[d].at = "answering"
    /\ outputs' = outputs \cup {NodeOfAgent(deleg[d].agent)}
    /\ MoveOn(d, "reporting")
    /\ UNCHANGED <<planVars, kickoff, at, inputs, ran, frames>>

Report(d) ==
    /\ deleg[d].at = "reporting"
    /\ frames' = Append(frames, Frame("output", NodeOfAgent(deleg[d].agent), {}))
    /\ MoveOn(d, "returned")
    /\ UNCHANGED <<planVars, kickoff, at, inputs, outputs, ran>>

Delegated(d) ==
    \/ \E a \in Agents : Delegate(d, a)
    \/ \E last \in BOOLEAN : Step(d, last)
    \/ Announce(d) \/ Answer(d) \/ Report(d)

RunNext ==
    \/ Plan
    \/ Kickoff \/ TaskDone \/ Returns \/ Raises
    \/ \E a \in Agents : OwnStep(a)
    \/ \E d \in Delegations : Delegated(d)

CrewSpec == RunInit /\ [][RunNext]_vars

\* Planning is a stretch of code without a wait.
FairCrewSpec == CrewSpec /\ WF_vars(Plan)

-----------------------------------------------------------------------------
(* Properties                                                              *)

Distinct == \A i, j \in 1..Len(tasks) : tasks[i].node = tasks[j].node => i = j

InputAt(n)  == {k \in 1..Len(frames) : frames[k].what = "input" /\ frames[k].node = n}
OutputAt(n) == {k \in 1..Len(frames) : frames[k].what = "output" /\ frames[k].node = n}

\* What the emitter tells is what the kickoff does, although the two keep
\* their own accounts: in a crew whose tasks have nodes of their own, each
\* finished task has one input frame and after it one output frame, in the
\* order of the tasks; the input shows every output the task was given as
\* context; a task that has not begun is announced only if it is the next
\* (_handle_task_output, _record_and_emit_input).
FramesFollowTheTasks ==
    plan = "ready" /\ manager = NoNode /\ Distinct =>
        \A i \in 1..Len(tasks) :
            LET n == tasks[i].node
            IN /\ i < at => /\ \E k \in InputAt(n), l \in OutputAt(n) :
                                 /\ InputAt(n) = {k} /\ OutputAt(n) = {l} /\ k < l
                                 /\ frames[k].shows = tasks[i].context
                            /\ \A j \in 1..(i-1) : \A k \in OutputAt(tasks[j].node), l \in InputAt(n) : k < l
               /\ i = at /\ kickoff = "running" => OutputAt(n) = {} /\ (InputAt(n) # {} <=> Sequential)
               /\ i > at => InputAt(n) = {} /\ OutputAt(n) = {}

\* A specialist is announced once, by whichever of its threads was first,
\* and its node shows no output when the manager is done without it
\* (agent_step).
SpecialistsAreAnnouncedOnce ==
    \A n \in Nodes :
        LET Transfers == {k \in 1..Len(frames) : frames[k].what = "transfer" /\ frames[k].node = n}
        IN /\ \A k, l \in Transfers : k = l
           /\ Resting = Delegations /\ manager # NoNode /\ n # manager /\ OutputAt(n) # {}
                => Transfers # {}

\* The frames tell a run as it went, whichever of the kickoff and the
\* delegations in their threads took its step first.
FramesTellTheRun == FramesFollowTheTasks /\ SpecialistsAreAnnouncedOnce

\* Planning ends for every definition, with cycles in its graph or without.
PlanningEnds == <>(plan \in {"ready", "refused"})

\* An acyclic graph all of which is reached.
Acyclic(d) ==
    /\ \A S \in SUBSET NodeSet(d) : d.entry \in S /\ Closed(d, S) => S = NodeSet(d)
    /\ \A S \in SUBSET NodeSet(d) \ {{}} :
          \E n \in S : \A k \in 1..Len(d.edges) : d.edges[k][2] = n => d.edges[k][1] \notin S

\* "The next node's node_started/node_input are emitted as soon as the
\* previous task completes (its upstream context is fully known by then)"
\* (execution_events.py): when a node of an acyclic graph is announced, every
\* node with an edge to it has put out its output.
UpstreamIsKnown ==
    FromNodes /\ Acyclic(def) =>
        \A k \in 1..Len(frames) :
            frames[k].what = "input" =>
                \A m \in Predecessors(frames[k].node) : Staffed(m) => m \in frames[k].shows
=============================================================================

----------------------------- MODULE CrewTools -----------------------------
(***************************************************************************)
(* The tools of one run (src/crewai_runtime/runtime.py): how its agents    *)
(* come by them, what is opened for them and closed after, and what the    *)
(* run tells of their calls.  Beside the run, on another thread, requests  *)
(* reload the tool registry (src/config/tool_registry.py).                 *)
(*                                                                         *)
(* A tool is of one of four kinds: a "function", which the runtime wraps;  *)
(* a "connector", which reports its calls itself; an "mcp" server, which   *)
(* is opened for the run; any other "factory" (databases, Gmail).          *)
(* A crew is                                                               *)
(*   agents      the agents of the ordered nodes, one for each node        *)
(*   attached    the tools attached to each of these nodes                 *)
(*   configured  the agents there are                                      *)
(*   own         the tools of each agent                                   *)
(*   manager     the agent that leads, or Nobody                           *)
(*   models      of each agent, the settings of its model by their three   *)
(*               places, from the weakest to the strongest                 *)
(*   pin         the settings its deployment fixes                         *)
(***************************************************************************)
EXTENDS Integers, SequencesExt

CONSTANTS
    Crews,          \* the crews a run may be of
    Listed,         \* the tools of tools.json, in its order
    ToolIds, KindOf,
    Nobody,         \* no manager
    MaxReloads,     \* bound: loads of the registry by requests
    MaxToolCalls    \* bound: calls of tools in the run

ASSUME CrewToolsAssumption ==
    /\ KindOf \in [ToolIds -> {"function", "connector", "mcp", "factory"}]
    /\ \A c \in Crews :
          /\ c.agents \in Seq(DOMAIN c.own)
          /\ c.attached \in Seq(Seq(ToolIds)) /\ Len(c.attached) = Len(c.agents)
          /\ \A a \in DOMAIN c.own : c.own[a] \in Seq(ToolIds)

VARIABLES
    registry,       \* ToolRegistry: made yet, the tools it has
    reloads,        \* loads by requests so far
    toLoad,         \* what the load under way has yet to register, in order
    crew,
    stage,             \* how far the run is
    todo,           \* the tools to fetch yet, each with the place of its agent
    built,          \* crew_agents
    cache,          \* run_tool_cache
    stack,          \* the ExitStack: the servers to stop, last first
    running,        \* servers the run has started and nobody has stopped
    calls,          \* the tool of each call, in the order they began
    underway,       \* calls that have not come back
    toolIo,         \* per tool, the call whose arguments and the one whose result it shows
    finished,       \* the calls whose result was reported
    outcome,        \* what the caller of the run is told
    mixed,          \* tools of which two calls were under way at once (bookkeeping)
    opened,         \* servers opened for the run, one entry each time (bookkeeping)
    excused         \* tools with why no agent has them (bookkeeping)

registryVars == <<registry, reloads, toLoad>>
ioVars       == <<calls, underway, toolIo, finished, mixed>>
buildVars    == <<crew, todo, built, cache, stack, running, opened, excused>>
crewToolVars == <<registryVars, ioVars, buildVars, stage, outcome>>

NotLoading == <<>>
Blank == [args |-> 0, result |-> 0]

\* tool_ids: those attached are added to the agent's own once each.
Added(ids, more) ==
    ids \o FlattenSeq([k \in DOMAIN more |->
        IF more[k] \in ToSet(ids) \/ \E j \in 1..(k - 1) : more[j] = more[k] THEN <<>> ELSE <<more[k]>>])

\* Fault: only the first node of an agent adds the tools attached to it.
FirstAttached(c, a) == c.attached[CHOOSE i \in DOMAIN c.agents :
                                     c.agents[i] = a /\ \A j \in 1..(i - 1) : c.agents[j] # a]

\* _node_attachments: the tools of all the nodes of an agent.
Attached(c, a) ==
    FlattenSeq([i \in DOMAIN c.agents |-> IF c.agents[i] = a THEN c.attached[i] ELSE <<>>])

ToolsOf(c, a) == Added(c.own[a], Attached(c, a))

\* The agents that are built, one for each node that is not the manager's.
Specialists(c) ==
    FlattenSeq([i \in DOMAIN c.agents |->
        IF c.agents[i] # c.manager /\ c.agents[i] \in c.configured THEN <<c.agents[i]>> ELSE <<>>])

\* dict.update: what is on top wins.
Over(top, below) == [f \in DOMAIN top \cup DOMAIN below |-> IF f \in DOMAIN top THEN top[f] ELSE below[f]]

\* _effective_model_config
OwnModel(c, a) == Over(c.models[a].override, Over(c.models[a].settings, c.models[a].config))

\* ... and what the deployment fixes on top.
ModelOf(c, a) == Over(c.pin, OwnModel(c, a))

\* _crew_llm_config: the planner, and the manager of a crew without a leading
\* agent, have the model of the first agent there is.
CrewModel(c) ==
    OwnModel(c, SelectSeq(c.agents, LAMBDA x : x \in c.configured)[1])

Errands(c) ==
    FlattenSeq([i \in DOMAIN Specialists(c) |->
        LET mine == ToolsOf(c, Specialists(c)[i])
        IN  [j \in DOMAIN mine |-> [place |-> i, tool |-> mine[j]]]])

ToolsInit ==
    /\ registry = [ready |-> FALSE, tools |-> {}] /\ reloads = 0 /\ toLoad = NotLoading
    /\ crew \in Crews
    /\ stage = "waiting" /\ todo = <<>> /\ built = <<>> /\ cache = <<>>
    /\ stack = <<>> /\ running = {}
    /\ calls = <<>> /\ underway = {} /\ finished = {} /\ mixed = {}
    /\ toolIo = [t \in ToolIds |-> Blank]
    /\ outcome = "none" /\ opened = <<>> /\ excused = {}

-----------------------------------------------------------------------------
(* The registry                                                            *)

\* get_tool_registry shows the registry before it is loaded; reload_from_config
\* empties it first.  A configuration that is not valid leaves it empty.  (Once the
\* crew is together, nobody looks.)
LoadBegins ==
    /\ reloads < MaxReloads /\ toLoad = NotLoading /\ stage \in {"waiting", "building"}
    /\ reloads' = reloads + 1
    /\ registry' = [ready |-> TRUE, tools |-> {}]
    /\ toLoad' \in {NotLoading, Listed}
    /\ UNCHANGED <<ioVars, buildVars, stage, outcome>>

\* register_tool_from_entrypoint, one after the other
Registers ==
    /\ toLoad # NotLoading
    /\ toLoad' = Tail(toLoad)
    /\ registry' = [registry EXCEPT !.tools = @ \cup {Head(toLoad)}]
    /\ UNCHANGED <<reloads, ioVars, buildVars, stage, outcome>>

-----------------------------------------------------------------------------
(* The crew is put together                                                *)

RunBegins ==
    /\ stage = "waiting"
    /\ stage' = "building"
    /\ todo' = Errands(crew)
    /\ built' = [i \in DOMAIN Specialists(crew) |->
                    [agent |-> Specialists(crew)[i], tools |-> {}, model |-> ModelOf(crew, Specialists(crew)[i])]]
    /\ UNCHANGED <<crew, cache, stack, running, opened, excused, registryVars, ioVars, outcome>>

\* Whoever asks first loads the registry, if it can be; only others find it half
\* loaded.
MakesRegistry ==
    /\ stage = "building" /\ todo # <<>> /\ ~registry.ready
    /\ \E tools \in {ToSet(Listed), {}} : registry' = [ready |-> TRUE, tools |-> tools]
    /\ UNCHANGED <<reloads, toLoad, ioVars, buildVars, stage, outcome>>

Errand == Head(todo)
Looks(kinds) ==
    /\ stage = "building" /\ todo # <<>> /\ registry.ready
    /\ Errand.tool \in registry.tools /\ KindOf[Errand.tool] \in kinds
Given == built' = [built EXCEPT ![Errand.place].tools = @ \cup {Errand.tool}]
Done  == todo' = Tail(todo) /\ UNCHANGED <<crew, stage, registryVars, ioVars, outcome>>
Remembers(how) ==
    cache' = [t \in DOMAIN cache \cup {Errand.tool} |-> IF t = Errand.tool THEN how ELSE cache[t]]
Excused(why) == excused' = excused \cup {<<Errand.tool, why>>}

Misses ==
    /\ stage = "building" /\ todo # <<>> /\ registry.ready /\ Errand.tool \notin registry.tools
    /\ Excused("missing") /\ Done
    /\ UNCHANGED <<built, cache, stack, running, opened>>

Wraps ==
    /\ Looks({"function"})
    /\ Given /\ Done
    /\ UNCHANGED <<cache, stack, running, opened, excused>>

\* Fault: what another agent had built is not handed on.
Forgotten == Done /\ UNCHANGED <<built, cache, stack, running, opened, excused>>

\* A factory builds once in a run.
Shares ==
    /\ cache[Errand.tool] = "built" => Given
    /\ cache[Errand.tool] # "built" => UNCHANGED built
    /\ Done /\ UNCHANGED <<cache, stack, running, opened, excused>>

FindsBuilt == Looks({"mcp", "connector", "factory"}) /\ Errand.tool \in DOMAIN cache /\ Shares

First(kinds) == Looks(kinds) /\ Errand.tool \notin DOMAIN cache

\* A build that fails with anything but a ConnectorError.
Fails ==
    /\ First({"mcp", "connector", "factory"})
    /\ Remembers("failed") /\ Excused("failed") /\ Done
    /\ UNCHANGED <<built, stack, running, opened>>

Builds ==
    /\ First({"connector", "factory"})
    /\ Remembers("built") /\ Given /\ Done
    /\ UNCHANGED <<stack, running, opened, excused>>

\* Fault: the server is to be stopped once its tools are known.
OpensUnguarded ==
    /\ First({"mcp"})
    /\ running' = running \cup {Errand.tool} /\ opened' = Append(opened, Errand.tool)
    /\ \/ /\ stack' = <<Errand.tool>> \o stack
          /\ Remembers("built") /\ Given /\ UNCHANGED excused
       \/ /\ UNCHANGED stack
          /\ Remembers("failed") /\ Excused("failed") /\ UNCHANGED built
    /\ Done

\* McpToolFactory.build: the server runs, is to be stopped, and lists its tools.
OpensServer ==
    /\ First({"mcp"})
    /\ running' = running \cup {Errand.tool} /\ opened' = Append(opened, Errand.tool)
    /\ stack' = <<Errand.tool>> \o stack
    /\ \/ Remembers("built") /\ Given /\ UNCHANGED excused
       \/ Remembers("failed") /\ Excused("failed") /\ UNCHANGED built
    /\ Done

\* A connector without its connection fails the run.
FailsRun ==
    /\ First({"connector"})
    /\ stage' = "closing" /\ outcome' = "error" /\ Excused("lost")
    /\ UNCHANGED <<crew, todo, built, cache, stack, running, opened, registryVars, ioVars>>

\* A crew needs a specialist, and its manager no tools.
CanStart == built # <<>> /\ (crew.manager # Nobody => ToolsOf(crew, crew.manager) = <<>>)

StartsWork ==
    /\ stage = "building" /\ todo = <<>>
    /\ IF CanStart THEN stage' = "working" /\ UNCHANGED outcome
       ELSE stage' = "closing" /\ outcome' = "error"
    /\ UNCHANGED <<buildVars, registryVars, ioVars>>

-----------------------------------------------------------------------------
(* The crew works                                                          *)

\* Fault: the record of a tool is updated with the new arguments.
BegunOver(shown, k) == [shown EXCEPT !.args = k]

\* tool_started: a new record of the tool.
Begun(shown, k) == [args |-> k, result |-> 0]

\* Agents call tools, of which CrewAI may run several at once.  Those of the other
\* kinds leave no trace.
Calls ==
    /\ stage = "working" /\ Len(calls) < MaxToolCalls
    /\ \E i \in DOMAIN built : \E t \in built[i].tools :
          /\ KindOf[t] \in {"function", "connector"}
          /\ calls' = Append(calls, t)
          /\ mixed' = IF t \in {calls[k] : k \in underway} THEN mixed \cup {t} ELSE mixed
          /\ toolIo' = [toolIo EXCEPT ![t] = Begun(toolIo[t], Len(calls'))]
    /\ underway' = underway \cup {Len(calls')}
    /\ UNCHANGED <<finished, buildVars, stage, registryVars, outcome>>

\* Fault: only a call that succeeds is reported.
ReportedIfGood(k, good) == good

\* The wrapper reports how a call ended; so does a connector's tool, unless what
\* was raised is no ConnectorError.
Reported(k, good) == good \/ KindOf[calls[k]] = "function"

CallEnds(k, good) ==
    /\ k \in underway
    /\ underway' = underway \ {k}
    /\ IF Reported(k, good)
       THEN finished' = finished \cup {k} /\ toolIo' = [toolIo EXCEPT ![calls[k]].result = k]
       ELSE UNCHANGED <<finished, toolIo>>
    /\ UNCHANGED <<calls, mixed, buildVars, stage, registryVars, outcome>>

\* kickoff ends, and whatever it raises is the answer.
WorkEnds ==
    /\ stage = "working" /\ underway = {}
    /\ stage' = "closing" /\ outcome' = "answer"
    /\ UNCHANGED <<buildVars, registryVars, ioVars>>

\* ExitStack: every callback is called, and one that raises is what the caller sees.
Closes ==
    /\ stage = "closing" /\ stack # <<>>
    /\ stack' = Tail(stack)
    /\ running' = running \ {Head(stack)}
    /\ outcome' \in {outcome, "error"}
    /\ UNCHANGED <<crew, stage, todo, built, cache, opened, excused, registryVars, ioVars>>

RunEnds ==
    /\ stage = "closing" /\ stack = <<>>
    /\ stage' = "over"
    /\ UNCHANGED <<buildVars, registryVars, ioVars, outcome>>

ToolsNext ==
    \/ LoadBegins \/ Registers
    \/ RunBegins \/ MakesRegistry \/ Misses \/ Wraps \/ FindsBuilt \/ Fails \/ Builds \/ OpensServer
    \/ FailsRun \/ StartsWork
    \/ Calls \/ (\E k \in underway, good \in BOOLEAN : CallEnds(k, good))
    \/ WorkEnds \/ Closes \/ RunEnds

ToolsSpec == ToolsInit /\ [][ToolsNext]_crewToolVars

-----------------------------------------------------------------------------
(* Properties                                                              *)

\* Every server a run opens is stopped when the run is over, however it ended and
\* wherever it failed, and runs as long as an agent may call it ("no matter where
\* the failure happens", runtime.py:143).
ServersAreStopped ==
    /\ stage = "over" => running = {}
    /\ stage = "working" => \A i \in DOMAIN built : \A t \in built[i].tools :
          KindOf[t] = "mcp" => t \in running

\* Agents that share a server share one connection ("instead of spawning one each",
\* runtime.py:214).
ServersAreShared == IsInjective(opened)

\* A working agent has every tool of its own and of all its nodes, but for those
\* that the registry missed just then or whose build failed; none goes without the
\* tools of a connector whose connection is gone.
AgentsHaveTheirTools ==
    stage = "working" =>
        \A i \in DOMAIN built :
            LET mine == ToSet(crew.own[built[i].agent]) \cup
                        UNION {ToSet(crew.attached[n]) : n \in {m \in DOMAIN crew.agents :
                                                               crew.agents[m] = built[i].agent}}
            IN  \A t \in mine : t \in built[i].tools \/ <<t, "missing">> \in excused \/ <<t, "failed">> \in excused

\* Every call of a wrapped tool that has come back was reported, whether it
\* succeeded or not, and what the run shows of a tool is the arguments of one call
\* with the result of that call, unless calls of the tool overlapped.
CallsAreReported ==
    /\ \A k \in DOMAIN calls : KindOf[calls[k]] = "function" /\ k \notin underway => k \in finished
    /\ \A t \in ToolIds \ mixed : toolIo[t].result \in {0, toolIo[t].args}

\* What a deployment fixes of the model, every agent it runs has.
AgentsArePinned == \A i \in DOMAIN built : \A f \in DOMAIN crew.pin : built[i].model[f] = crew.pin[f]

RunHasItsTools ==
    ServersAreStopped /\ ServersAreShared /\ AgentsHaveTheirTools /\ CallsAreReported /\ AgentsArePinned

\* What does not hold.  A tool that is registered reaches its agents: a reload of
\* the registry empties it first, and a run that looks meanwhile goes on without.
NoToolIsMissed == \A t \in ToolIds : <<t, "missing">> \notin excused

\* A call's result is shown with its own arguments, also when calls overlap.
ShownTogether == \A t \in ToolIds : toolIo[t].result \in {0, toolIo[t].args}

\* What a deployment fixes, the planner and the crew's manager have too.
CrewIsPinned == \A f \in DOMAIN crew.pin : CrewModel(crew)[f] = crew.pin[f]
=============================================================================

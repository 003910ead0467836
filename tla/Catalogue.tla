----------------------------- MODULE Catalogue -----------------------------
(***************************************************************************)
(* The catalogue of a server: its tools, its agents, which name tools, and *)
(* its workflows, which name agents (src/api/routers/tools.py,             *)
(* functions.py, agents.py, workflows.py, topologies.py, builder.py).      *)
(* Each kind is one JSON document, read through the cache of ConfigLoader  *)
(* and written whole.  Other parts of the process have copies of their     *)
(* own, taken at different times: the dependency validator, the runtime,   *)
(* the tool registry and the workflow registry.                            *)
(*                                                                         *)
(* Every handler is one stretch of the event loop, except the import of a  *)
(* Swagger document, which awaits its download between reading the tools   *)
(* and saving them.  A plan of the builder is its handlers in a row.       *)
(*                                                                         *)
(* A tool is whether it is a generated function and whether it was revised *)
(* since it was made.  Left out are tools that are disabled or whose entry *)
(* point does not load, files that are not valid, functions Python still   *)
(* has in memory without their source, and the watcher of development.     *)
(***************************************************************************)
EXTENDS Naturals, FiniteSets

CONSTANTS
    Tools, Agents, Workflows,   \* ids
    Functions,                  \* ids that generated functions may have
    Endpoints,                  \* ids that imported documents may yield
    Imports,                    \* imports that may run at once
    Void                        \* no entry, or nothing read yet

Tool == [function : BOOLEAN, revised : BOOLEAN]
Document == [Tools -> Tool \cup {Void}]

\* A running import: its copy of the tools, and the tools that changed since.
Import == [copy : Document, missed : SUBSET Tools]

ASSUME CatalogueAssumption ==
    /\ Functions \subseteq Tools /\ Endpoints \subseteq Tools
    /\ Void \notin Tool /\ Void \notin Import
    /\ \A set \in (SUBSET Tools) \cup (SUBSET Agents) : set # Void

VARIABLES
    tools, agents, workflows,   \* tools.json, agents.json, workflows.json
    listed,         \* ConfigLoader._cache["tools"]
    known,          \* the validator's loader: the ids of the tools it once read
    employed,       \* the runtime's loader: the agents it once read
    live,           \* ToolRegistry._tools, the ids
    registered,     \* WorkflowRegistry._workflows_config
    sources,        \* the functions that have their Python file
    imports,        \* each running import: its copy of the tools, and what it misses
    wanted,          \* what the last request that succeeded made of each tool (bookkeeping)
    doubtful        \* tools an import or a failed save may have changed since (bookkeeping)

caches == <<listed, known, employed, live, registered>>
catalogueVars == <<tools, agents, workflows, caches, sources, imports, wanted, doubtful>>

Plain    == [function |-> FALSE, revised |-> FALSE]
Function == [function |-> TRUE, revised |-> FALSE]

Present(document) == {e \in DOMAIN document : document[e] # Void}
Nowhere(ids) == [e \in ids |-> Void]

CatalogueInit ==
    /\ tools = Nowhere(Tools) /\ agents = Nowhere(Agents) /\ workflows = Nowhere(Workflows)
    /\ listed = tools /\ registered = workflows
    /\ known = Void /\ employed = Void /\ live = Void
    /\ sources = {}
    /\ imports = Nowhere(Imports)
    /\ wanted = tools /\ doubtful = {}

-----------------------------------------------------------------------------
(* The document of the tools                                               *)

\* Fault: the save leaves the cache of the loader as it was.
SaveBehindTheCache(document) == tools' = document /\ UNCHANGED listed

\* _save_tools_config: the file is written, then the cache follows it.
SaveTools(document) == tools' = document /\ listed' = document

\* Running imports do not see what changes after they read.
Unseen(changed) ==
    [i \in Imports |-> IF imports[i] = Void THEN Void
                       ELSE [imports[i] EXCEPT !.missed = @ \cup changed]]

\* A request that succeeded had the last word on a tool; whether there should be
\* such a tool at all is settled when it is made or deleted.
LastWord(t) == wanted' = [wanted EXCEPT ![t] = tools'[t]] /\ imports' = Unseen({t})
Settled(t)  == LastWord(t) /\ doubtful' = doubtful \ {t}

\* reload_from_config reads the file; a function without its source does not load.
Loaded(document, files) ==
    {t \in Present(document) : document[t].function => t \in files}

RegisterTool(t) ==
    /\ listed[t] = Void
    /\ SaveTools([listed EXCEPT ![t] = Plain])
    /\ Settled(t)
    /\ live' = IF live = Void THEN Loaded(tools', sources) ELSE live \cup {t}
    /\ UNCHANGED <<agents, workflows, known, employed, registered, sources>>

\* The registry is reloaded when the update names "enabled" or "entrypoint".
UpdateTool(t) ==
    /\ listed[t] # Void
    /\ SaveTools([listed EXCEPT ![t].revised = ~@])
    /\ LastWord(t) /\ UNCHANGED doubtful
    /\ live' \in {live, Loaded(tools', sources)}
    /\ UNCHANGED <<agents, workflows, known, employed, registered, sources>>

\* validate_tool_deletion, which reads agents.json itself.
Unused(t) == \A a \in Present(agents) : t \notin agents[a]

DeleteTool(t) ==
    /\ listed[t] # Void /\ Unused(t)
    /\ SaveTools([listed EXCEPT ![t] = Void])
    /\ Settled(t)
    /\ live' = Loaded(tools', sources)
    /\ UNCHANGED <<agents, workflows, known, employed, registered, sources>>

\* functions.py edits the loader's own cache, so that a save that raises leaves
\* the edit there.  Neither endpoint tells the tool registry.
EditInPlace(t, entry) ==
    /\ listed' = [listed EXCEPT ![t] = entry]
    /\ \/ /\ tools' = listed'
          /\ Settled(t)
       \/ /\ doubtful' = doubtful \cup {t}
          /\ UNCHANGED <<tools, imports, wanted>>
    /\ UNCHANGED <<agents, workflows, known, employed, live, registered>>

CreateFunction(t) ==
    /\ listed[t] = Void
    /\ sources' = sources \cup {t}
    /\ EditInPlace(t, Function)

\* Nothing asks whether an agent uses the function.  Its file goes after the save.
DeleteFunction(t) ==
    /\ listed[t] # Void /\ listed[t].function
    /\ EditInPlace(t, Void)
    /\ sources' = IF tools' = listed' THEN sources \ {t} ELSE sources

-----------------------------------------------------------------------------
(* import_swagger_tools                                                    *)

StartImport(i) ==
    /\ imports[i] = Void
    /\ imports' = [imports EXCEPT ![i] = [copy |-> listed, missed |-> {}]]
    /\ UNCHANGED <<tools, agents, workflows, caches, sources, wanted, doubtful>>

\* The document yields some endpoints, or none if it cannot be had.  What the
\* copy read before the await does not list is added to that copy.
FinishImport(i, found) ==
    LET read == imports[i]
        new  == {t \in found : read.copy[t] = Void}
    IN  /\ read # Void
        /\ IF new = {}
           THEN /\ imports' = [imports EXCEPT ![i] = Void]
                /\ UNCHANGED <<tools, listed, live, wanted, doubtful>>
           ELSE /\ SaveTools([t \in Tools |-> IF t \in new THEN Plain ELSE read.copy[t]])
                /\ wanted' = [t \in Tools |-> IF t \in new THEN Plain ELSE wanted[t]]
                /\ doubtful' = (doubtful \cup read.missed) \ new
                /\ imports' = [Unseen(new) EXCEPT ![i] = Void]
                /\ live' = Loaded(tools', sources)
        /\ UNCHANGED <<agents, workflows, known, employed, registered, sources>>

-----------------------------------------------------------------------------
(* Agents and workflows                                                    *)

\* validate_agent_tool_references: the first agent with tools makes the
\* validator read them, for good, also if the agent is refused.
CheckTools(used) == known' = IF used = {} \/ known # Void THEN known ELSE Present(tools)
Refused(used) == used # {} /\ ~(used \subseteq known')

SaveAgent(a, used) ==
    /\ CheckTools(used)
    /\ agents' = IF Refused(used) THEN agents ELSE [agents EXCEPT ![a] = used]
    /\ UNCHANGED <<tools, workflows, listed, employed, live, registered, sources, imports, wanted, doubtful>>

CreateAgent(a, used) == agents[a] = Void /\ SaveAgent(a, used)
UpdateAgent(a, used) == agents[a] # Void /\ SaveAgent(a, used)

\* Fault: the deletion asks the workflow registry, which has a copy of its own.
UnassignedByRegistry(a) == \A w \in Present(registered) : a \notin registered[w]

\* validate_agent_deletion, which reads workflows.json itself.
Unassigned(a) == \A w \in Present(workflows) : a \notin workflows[w]

DeleteAgent(a) ==
    /\ agents[a] # Void /\ Unassigned(a)
    /\ agents' = [agents EXCEPT ![a] = Void]
    /\ UNCHANGED <<tools, workflows, caches, sources, imports, wanted, doubtful>>

SaveWorkflow(w, team) ==
    /\ team # {} /\ team \subseteq Present(agents)
    /\ workflows' = [workflows EXCEPT ![w] = team]
    /\ UNCHANGED <<tools, agents, listed, known, employed, live, sources, imports, wanted, doubtful>>

CreateWorkflow(w, team) == workflows[w] = Void /\ SaveWorkflow(w, team) /\ UNCHANGED registered
UpdateWorkflow(w, team) == workflows[w] # Void /\ SaveWorkflow(w, team) /\ UNCHANGED registered

\* _store_topology and the end of apply_builder_plan reload the registry.
StoreTopology(w, team) == workflows[w] # Void /\ SaveWorkflow(w, team) /\ registered' = workflows'
ApplyPlan(w, team)     == SaveWorkflow(w, team) /\ registered' = workflows'

DeleteWorkflow(w) ==
    /\ workflows[w] # Void
    /\ workflows' = [workflows EXCEPT ![w] = Void]
    /\ UNCHANGED <<tools, agents, caches, sources, imports, wanted, doubtful>>

-----------------------------------------------------------------------------
(* Those who read                                                          *)

\* The first run makes the runtime read the agents, for good, and the first
\* agent with tools makes the tool registry.
Run(w) ==
    /\ registered[w] # Void
    /\ employed' = IF employed = Void THEN agents ELSE employed
    /\ live' = IF live = Void /\ \E a \in registered[w] : employed'[a] \notin {Void, {}}
               THEN Loaded(tools, sources) ELSE live
    /\ UNCHANGED <<tools, agents, workflows, listed, known, registered, sources, imports, wanted, doubtful>>

\* POST /configs/reload: the cache of ConfigLoader, and nobody else's copy.
ReloadAll ==
    /\ listed' = tools
    /\ UNCHANGED <<tools, agents, workflows, known, employed, live, registered, sources, imports, wanted, doubtful>>

Restart ==
    /\ listed' = tools /\ registered' = workflows
    /\ known' = Void /\ employed' = Void /\ live' = Void
    /\ imports' = Nowhere(Imports)
    /\ UNCHANGED <<tools, agents, workflows, sources, wanted, doubtful>>

CatalogueNext ==
    \/ \E t \in Tools : RegisterTool(t) \/ UpdateTool(t) \/ DeleteTool(t)
    \/ \E t \in Functions : CreateFunction(t) \/ DeleteFunction(t)
    \/ \E i \in Imports : StartImport(i) \/ \E found \in SUBSET Endpoints : FinishImport(i, found)
    \/ \E a \in Agents : DeleteAgent(a) \/ \E used \in SUBSET Tools : CreateAgent(a, used) \/ UpdateAgent(a, used)
    \/ \E w \in Workflows : DeleteWorkflow(w) \/ Run(w) \/ \E team \in SUBSET Agents :
           CreateWorkflow(w, team) \/ UpdateWorkflow(w, team) \/ StoreTopology(w, team) \/ ApplyPlan(w, team)
    \/ ReloadAll \/ Restart

CatalogueSpec == CatalogueInit /\ [][CatalogueNext]_catalogueVars

-----------------------------------------------------------------------------
(* Properties                                                              *)

\* What the last request that succeeded made of a tool is what tools.json says of
\* it, although every save writes the whole document from a copy: the cache that
\* set_config keeps (config_loader.py:162).  Excepted are tools that changed while
\* an import had its copy (tools.py:676), and functions whose save failed
\* (functions.py:70): both are overwritten, or written late, without a word.
LastWordCounts == \A t \in Tools \ doubtful : tools[t] = wanted[t]

\* Every agent of every workflow is in agents.json: the deletion of an agent and
\* the save of a workflow each check the other's document (dependency_validation.py).
WorkflowsResolve == \A w \in Present(workflows) : workflows[w] \subseteq Present(agents)

\* Once the tool registry is made, it and tools.json differ by generated functions
\* at most, which functions.py does not tell it of; registering, updating and
\* deleting a tool, and imports, do (tools.py:131, 315, 401, 722).
OnlyFunctionsDiffer ==
    live # Void => /\ live \ Present(tools) \subseteq Functions
                   /\ Present(tools) \ live \subseteq Functions

\* A function that tools.json lists has its Python file: the file is written before
\* the save and removed after it (functions.py:169, 257).
FunctionsHaveSources == \A t \in Present(tools) \ doubtful : tools[t].function => t \in sources

\* The documents keep what they were told and refer to what is there, and the live
\* tools are those listed, whatever mixture of requests, imports, failed saves,
\* reloads and restarts led here.
CatalogueIsTrue == LastWordCounts /\ WorkflowsResolve /\ OnlyFunctionsDiffer /\ FunctionsHaveSources

\* Every tool of every agent is in tools.json ("Validate that all tool references in
\* an agent configuration exist", dependency_validation.py:51).  This does not hold
\* (README, Divergences): the validator remembers tools since deleted, DELETE
\* /functions/{id} asks nobody, and an import loses tools.
AgentsResolve == \A a \in Present(agents) : agents[a] \subseteq Present(tools)

\* A run of a workflow finds its agents ("Agents, workflows, tools ... are editable
\* via the Studio UI, the REST API, or a text editor", README.md:67).  This does not
\* hold (README, Divergences): the runtime reads the agents once, at its first run.
RunsHaveTheirAgents ==
    employed # Void => \A w \in Present(registered) : registered[w] \subseteq Present(employed)
=============================================================================

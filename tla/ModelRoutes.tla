---------------------------- MODULE ModelRoutes ----------------------------
(***************************************************************************)
(* From a provider's settings and key to the route of a run: the endpoints *)
(* of src/api/routers/api_providers.py, the key file of                    *)
(* config/provider_secrets.py, config/provider_registry.py, what the       *)
(* canvas says of an agent's model (workflow_diagnostics), and what a run  *)
(* makes of it (crewai_runtime/runtime.py).                                *)
(*                                                                         *)
(* Settings are in a file written in place, keys in one that is replaced   *)
(* whole.  A request holds the event loop from its first step to its last, *)
(* but runs read both files from threads of their own, the process may     *)
(* stop anywhere, and ConfigLoader, whose copy the canvas reads, is not    *)
(* told of the providers.                                                  *)
(***************************************************************************)
EXTENDS Integers

CONSTANTS
    Providers,      \* provider ids
    Keys,           \* API keys
    NoKey,          \* `None` where a key may stand
    Settings,       \* the settings a request may bring
    SDK             \* whether CrewAI's own provider classes are installed

\* What the code asks of a provider: whether it is enabled and of type llm,
\* whether it has a prefix and so a native route, whether it has a base_url,
\* what "auth" asks for and whether the variable it names is set.
Setting == [enabled : BOOLEAN, llm : BOOLEAN, native : BOOLEAN, endpoint : BOOLEAN,
            auth : {"none", "optional", "required"}, env : BOOLEAN]

ASSUME RoutesAssumption ==
    /\ NoKey \notin Keys
    /\ Settings \subseteq Setting
    /\ SDK \in BOOLEAN

\* A provider that is not in the file, and a file that is not JSON.
Absent == [auth |-> "absent"]
Torn   == [p \in {} |-> Absent]

VARIABLES
    providersFile,  \* configs/api_providers.json
    keyFile,        \* data/provider_secrets.json
    copy,           \* api_providers in ConfigLoader's cache
    call,           \* the request that holds the event loop
    saved,          \* the providers as last saved (bookkeeping)
    accepted,       \* the key of the last request that was answered (bookkeeping)
    offered         \* the keys offered since (bookkeeping)

routeVars == <<providersFile, keyFile, copy, call, saved, accepted, offered>>

NoCall == [at |-> "none", provider |-> NoKey, key |-> NoKey, keys |-> Torn, file |-> Torn]

Nowhere == [p \in Providers |-> Absent]
NoKeys  == [p \in Providers |-> NoKey]

RoutesInit ==
    /\ providersFile = Nowhere /\ saved = Nowhere /\ copy = Nowhere
    /\ keyFile = NoKeys
    /\ call = NoCall
    /\ accepted = NoKeys /\ offered = [p \in Providers |-> {}]

-----------------------------------------------------------------------------
(* Keys (provider_secrets)                                                 *)

\* _load
StoredKeys == IF keyFile = Torn THEN NoKeys ELSE keyFile

WithKey(p, k) == [StoredKeys EXCEPT ![p] = k]

\* Fault: the key file is opened for writing and written.
ReplaceKeysInPlace ==
    /\ call.at = "key"
    /\ IF keyFile = Torn
       THEN keyFile' = call.keys /\ call' = [call EXCEPT !.at = "conflict?"]
       ELSE keyFile' = Torn /\ UNCHANGED call
    /\ UNCHANGED <<providersFile, copy, saved, accepted, offered>>

\* _save: a temporary file takes the place of the old one.
ReplaceKeys ==
    /\ call.at = "key"
    /\ keyFile' = call.keys
    /\ call' = [call EXCEPT !.at = "conflict?"]
    /\ UNCHANGED <<providersFile, copy, saved, accepted, offered>>

\* DELETE .../key
DeleteKey(p) ==
    /\ call.at = "none"
    /\ keyFile' = IF StoredKeys[p] # NoKey THEN WithKey(p, NoKey) ELSE keyFile
    /\ accepted' = [accepted EXCEPT ![p] = NoKey]
    /\ offered' = [offered EXCEPT ![p] = {}]
    /\ UNCHANGED <<providersFile, copy, call, saved>>

-----------------------------------------------------------------------------
(* Providers (api_providers)                                               *)

\* A request that brings settings, and perhaps a key: the key goes first.
Begin(p, doc, k) ==
    /\ call.at = "none" /\ providersFile # Torn
    /\ call' = [at |-> IF k = NoKey THEN "conflict?" ELSE "key", provider |-> p, key |-> k,
                keys |-> IF k = NoKey THEN Torn ELSE WithKey(p, k), file |-> doc]
    /\ offered' = IF k = NoKey THEN offered ELSE [offered EXCEPT ![p] = @ \cup {k}]
    /\ UNCHANGED <<providersFile, keyFile, copy, saved, accepted>>

\* A new provider that brings a key does not require the variable it names.
CreateProvider(p, s, k) ==
    /\ providersFile # Torn /\ providersFile[p] = Absent
    /\ s.auth = (IF s.auth = "none" THEN "none" ELSE IF k = NoKey THEN "required" ELSE "optional")
    /\ Begin(p, [providersFile EXCEPT ![p] = s], k)

\* Fields an update leaves out stay, none is taken away, and a variable that
\* is named where there was no "auth" is required.
UpdateProvider(p, s, k) ==
    /\ providersFile # Torn /\ providersFile[p] # Absent
    /\ s.auth \in (IF providersFile[p].auth = "none" THEN {"none", "required"} ELSE {providersFile[p].auth})
    /\ providersFile[p].native => s.native
    /\ providersFile[p].endpoint => s.endpoint
    /\ Begin(p, [providersFile EXCEPT ![p] = s], k)

DeleteProvider(p) ==
    /\ providersFile # Torn /\ providersFile[p] # Absent
    /\ Begin(p, [providersFile EXCEPT ![p] = Absent], NoKey)

\* The version token of an update is not the current one (409).
Conflict ==
    /\ call.at = "conflict?" /\ call.file[call.provider] # Absent
    /\ providersFile[call.provider] # Absent
    /\ call' = NoCall
    /\ UNCHANGED <<providersFile, keyFile, copy, saved, accepted, offered>>

\* _save_api_providers_config: open(path, "w"), then json.dump.
OpenFile ==
    /\ call.at = "conflict?"
    /\ providersFile' = Torn
    /\ call' = [call EXCEPT !.at = "writing"]
    /\ UNCHANGED <<keyFile, copy, saved, accepted, offered>>

WriteFile ==
    /\ call.at = "writing"
    /\ providersFile' = call.file /\ saved' = call.file
    /\ call' = NoCall
    /\ IF call.key = NoKey
       THEN UNCHANGED <<accepted, offered>>
       ELSE /\ accepted' = [accepted EXCEPT ![call.provider] = call.key]
            /\ offered' = [offered EXCEPT ![call.provider] = {}]
    /\ UNCHANGED <<keyFile, copy>>

\* POST /configs/reload; a file that cannot be read leaves no copy.
Reload ==
    /\ call.at = "none"
    /\ copy' = providersFile
    /\ UNCHANGED <<providersFile, keyFile, call, saved, accepted, offered>>

\* The process stops and starts: the files are as they were.
RestartRoutes ==
    /\ call' = NoCall
    /\ copy' = providersFile
    /\ UNCHANGED <<providersFile, keyFile, saved, accepted, offered>>

-----------------------------------------------------------------------------
(* Routes (provider_registry)                                              *)

\* _load_providers: a file that cannot be parsed holds no providers.
Loaded(p) == IF providersFile = Torn THEN Absent ELSE providersFile[p]

\* _find_provider does not raise.
Findable(p) == Loaded(p) # Absent /\ Loaded(p).enabled /\ Loaded(p).llm

\* _resolve_api_key: the key stored, else the variable.
HasKey(p) == StoredKeys[p] # NoKey \/ (Loaded(p) # Absent /\ Loaded(p).env)

\* Fault: the key is looked up whatever became of the provider.
KeyFoundAnyway(p) == HasKey(p)

\* resolve_api_key
KeyFound(p) == Findable(p) /\ HasKey(p)

\* resolve_llm does not raise.
Resolved(p) == Findable(p) /\ (Loaded(p).native \/ Loaded(p).endpoint)

\* _resolve_registered_provider, as a run's thread calls it in any state: the
\* native class, the endpoint it may also have, or the legacy prefix of the
\* model's name.
Route(p) ==
    IF ~Resolved(p) THEN "legacy"
    ELSE IF ~Loaded(p).native \/ SDK THEN "registered"
    ELSE IF Loaded(p).endpoint THEN "compatible" ELSE "legacy"

\* _check_agent_model: whether it has a finding of severity error.
Found(p) ==
    \/ copy[p] = Absent
    \/ ~copy[p].enabled
    \/ copy[p].auth = "required" /\ ~KeyFound(p)

RoutesNext ==
    \/ \E p \in Providers :
          \/ \E s \in Settings, k \in Keys \cup {NoKey} : CreateProvider(p, s, k) \/ UpdateProvider(p, s, k)
          \/ DeleteProvider(p) \/ DeleteKey(p)
    \/ ReplaceKeys \/ Conflict \/ OpenFile \/ WriteFile
    \/ Reload \/ RestartRoutes

RoutesSpec == RoutesInit /\ [][RoutesNext]_routeVars

-----------------------------------------------------------------------------
(* Properties                                                              *)

Docs == [Providers -> Setting \cup {Absent}]

\* Types of the routes.
RoutesTypeOK ==
    /\ providersFile \in Docs \cup {Torn} /\ copy \in Docs \cup {Torn} /\ saved \in Docs
    /\ keyFile \in [Providers -> Keys \cup {NoKey}] \cup {Torn}
    /\ call.at \in {"none", "key", "conflict?", "writing"}
    /\ accepted \in [Providers -> Keys \cup {NoKey}] /\ offered \in [Providers -> SUBSET Keys]

\* A key the API took is there until it is removed or another is offered:
\* no crash while a key is saved loses it or the key of another provider
\* ("a crash cannot leave a half-written secret store behind", _save).
KeysAreKept ==
    \A p \in Providers : StoredKeys[p] \in {accepted[p]} \cup offered[p]

\* What a run needs of p: a route, and a key where one is required.
Usable(p) == Resolved(p) /\ (Loaded(p).auth = "required" => HasKey(p))

\* The canvas and the runs look with different code at different copies.
\* With a copy that is current, an agent without an error has a provider it
\* can use, if that provider has an endpoint and is one for models, and an
\* agent with an error has none.  With a copy that is out of date this is
\* still so of an agent without an error whose provider required a key,
\* because the key is looked up behind the current settings
\* (_check_agent_model, resolve_api_key, resolve_llm).
FindingsFitTheRoute ==
    copy # Torn =>
        \A p \in Providers :
            IF Found(p)
            THEN copy = providersFile => ~Usable(p)
            ELSE /\ copy = providersFile /\ copy[p].llm /\ copy[p].endpoint => Usable(p)
                 /\ copy[p].auth = "required" => Findable(p) /\ HasKey(p)

\* Keys and findings can be relied on.
KeysAndFindingsAreTrue == KeysAreKept /\ FindingsFitTheRoute

(* Three statements that do not hold of the code (see README, Divergences).*)

\* "never silently falls back" (resolve_llm): a run falls back when its
\* provider was saved as one it can use, because it read the file while it
\* was written, or after a stop in the middle of that.
RunsGoToTheirProvider ==
    \A p \in Providers :
        saved[p] # Absent /\ saved[p].enabled /\ saved[p].llm /\ saved[p].endpoint => Route(p) # "legacy"

\* A request that was refused leaves the keys as they were.
RefusalsKeepTheKey == call.at = "none" => StoredKeys = accepted

\* A finding is true of the providers as they were saved.
FindingsAreCurrent == copy # Torn /\ saved = providersFile => \A p \in Providers : Found(p) => ~Usable(p)
=============================================================================

----------------------------- MODULE LiveConfig -----------------------------
(***************************************************************************)
(* The JSON files of the configuration directory and four holders of what  *)
(* they say, each with its own way of following a change (src/config/      *)
(* config_loader.py, config_manager.py, loader.py with watcher.py, and     *)
(* src/infrastructure/providers/adapter.py).                               *)
(*                                                                         *)
(* A file is written in place: it is truncated, and whole again later.     *)
(* Watchers run in threads of their own, so any step of theirs, of the     *)
(* requests and of the writers may come between any two others.            *)
(***************************************************************************)
EXTENDS Integers, FiniteSets, Sequences

CONSTANTS
    Agents,         \* the file that is validated before it is replaced
    Providers,      \* the file of the providers, which the adapter reads
    NoContent,      \* `None` where a file's content may stand
    MaxEdits        \* bound: times a file is written

ConfigFiles == {Agents, Providers}

\* valid: what the models accept; torn: a file under way, which does not parse.
Forms   == {"valid", "invalid", "torn"}
Content == [n : Nat, form : Forms]

\* What the observer's thread has read of a file.
Reading == [file : ConfigFiles, content : Content]

ASSUME LiveAssumption ==
    /\ Agents # Providers
    /\ NoContent \notin ConfigFiles \cup Content \cup Reading
    /\ MaxEdits \in Nat

VARIABLES
    disk,           \* what each file holds
    touched,        \* st_mtime of each file
    edits,          \* files written so far
    hand,           \* the file an editor has open
    saver,          \* the endpoint that saves a file, at its next step
    notices,        \* files whose change the observer has not handled
    crossed         \* files written while a request or a save had read them and not
                    \* stored what it read (bookkeeping)

diskVars == <<disk, touched, edits, hand, saver, crossed>>

VARIABLES
    loader,         \* ConfigLoader._cache
    read,           \* what the observer's thread has read and not stored
    getting,        \* what a request has read of each file and not stored
    toload          \* the files a reload_all has still to read

loaderVars == <<loader, read, getting, toload>>

VARIABLES
    manager,        \* ConfigurationManager._agents, and a cache that is not validated first
    checked,        \* a reload has validated the agents and not read them again
    wrote,          \* the agents were written since then (bookkeeping)
    dropped         \* a reload lost the agents it had (bookkeeping)

managerVars == <<manager, checked, wrote, dropped>>

VARIABLES
    services,       \* the caches of ConfigurationLoader
    fetched,        \* what a load has read of each file and not stored
    reloading,      \* a reload_all is under way
    got,            \* what that has read and not stored
    since,          \* the version of the providers when it began (bookkeeping)
    overtaken,      \* a load had read them by then and not stored (bookkeeping)
    pending         \* ConfigFileEventHandler._pending_reload

servicesVars == <<services, fetched, reloading, got, since, overtaken, pending>>

VARIABLES
    adapter,        \* the step of the adapter and of its watcher's thread
    providers,      \* ProviderAdapter._providers
    seen,           \* _file_mtimes of the providers' file
    client,         \* the client that is cached, as the content it was made of
    making,         \* what a request has looked up for the client it makes
    met,            \* that client was stored over a reload (bookkeeping)
    noticed         \* the file was written after its time was recorded first (bookkeeping)

adapterVars == <<adapter, providers, seen, client, making, met, noticed>>

liveVars == <<diskVars, notices, loaderVars, managerVars, servicesVars, adapterVars>>

NoSave == [at |-> "rest", file |-> NoContent, content |-> NoContent]

LiveInit ==
    /\ disk = [f \in ConfigFiles |-> [n |-> 0, form |-> "valid"]]
    /\ touched = [f \in ConfigFiles |-> 0] /\ edits = 0
    /\ hand = NoContent /\ saver = NoSave /\ crossed = {}
    /\ loader = disk /\ notices = {} /\ read = NoContent
    /\ getting = [f \in ConfigFiles |-> NoContent] /\ toload = {}
    /\ manager = [f \in ConfigFiles |-> NoContent] /\ checked = FALSE /\ wrote = FALSE /\ dropped = FALSE
    /\ services = [f \in ConfigFiles |-> NoContent] /\ fetched = services
    /\ reloading = FALSE /\ got = NoContent /\ since = 0 /\ overtaken = FALSE /\ pending = FALSE
    /\ adapter = "new" /\ providers = NoContent /\ seen = 0 /\ client = NoContent
    /\ making = NoContent /\ met = FALSE /\ noticed = FALSE

-----------------------------------------------------------------------------
(* The files.  Two writers do not have one open at once.                   *)

PutFile(f, n, form) ==
    /\ disk' = [disk EXCEPT ![f] = [n |-> n, form |-> form]]
    /\ touched' = [touched EXCEPT ![f] = @ + 1]
    /\ notices' = notices \cup {f}
    /\ wrote' = (wrote \/ f = Agents)
    /\ noticed' = (noticed \/ (f = Providers /\ adapter \notin {"new", "loaded"}))
    /\ UNCHANGED <<loaderVars, manager, checked, dropped, servicesVars,
                   adapter, providers, seen, client, making, met>>

\* A file is written that somebody has read and not stored.
Crosses(f) ==
    crossed' = IF getting[f] # NoContent \/ (saver.at = "storing" /\ saver.file = f)
               THEN crossed \cup {f} ELSE crossed

\* Somebody edits a file: an operator, a deployment, another process.
EditBegins(f) ==
    /\ hand = NoContent /\ disk[f].form # "torn" /\ edits < MaxEdits
    /\ hand' = f /\ edits' = edits + 1
    /\ Crosses(f)
    /\ PutFile(f, edits', "torn")
    /\ UNCHANGED saver

EditEnds(form) ==
    /\ hand # NoContent
    /\ hand' = NoContent
    /\ PutFile(hand, disk[hand].n, form)
    /\ UNCHANGED <<edits, saver, crossed>>

\* An endpoint saves a file (_save_agents_config and its like).
SaveBegins(f) ==
    /\ saver.at = "rest" /\ disk[f].form # "torn" /\ edits < MaxEdits
    /\ saver' = [NoSave EXCEPT !.at = "writing", !.file = f] /\ edits' = edits + 1
    /\ Crosses(f)
    /\ PutFile(f, edits', "torn")
    /\ UNCHANGED hand

SaveWrites ==
    /\ saver.at = "writing"
    /\ PutFile(saver.file, disk[saver.file].n, "valid")
    /\ saver' = [saver EXCEPT !.at = "setting", !.content = disk'[saver.file]]
    /\ UNCHANGED <<edits, hand, crossed>>

-----------------------------------------------------------------------------
(* ConfigLoader: what does not parse is logged and the old content stays   *)

\* set_config, with what was saved
SaveSets ==
    /\ saver.at = "setting"
    /\ saver' = [saver EXCEPT !.at = "reading"]
    /\ loader' = [loader EXCEPT ![saver.file] = saver.content]

\* _reload_single_file, by the endpoint itself
SaveReads ==
    /\ saver.at = "reading"
    /\ saver' = IF disk[saver.file].form = "torn" THEN NoSave
                ELSE [saver EXCEPT !.at = "storing", !.content = disk[saver.file]]
    /\ UNCHANGED loader

SaveStores ==
    /\ saver.at = "storing"
    /\ saver' = NoSave
    /\ loader' = [loader EXCEPT ![saver.file] = saver.content]

\* on_modified, _reload_single_file, _load_file
WatchReads(f) ==
    /\ f \in notices /\ read = NoContent
    /\ notices' = notices \ {f}
    /\ read' = IF disk[f].form = "torn" THEN NoContent ELSE [file |-> f, content |-> disk[f]]
    /\ UNCHANGED loader

\* Fault: what was changed meanwhile counts as handled.
WatchStoresLate ==
    /\ read # NoContent
    /\ loader' = [loader EXCEPT ![read.file] = read.content]
    /\ notices' = notices \ {read.file}
    /\ read' = NoContent

WatchStores ==
    /\ read # NoContent
    /\ loader' = [loader EXCEPT ![read.file] = read.content]
    /\ read' = NoContent
    /\ UNCHANGED notices

\* get_config of what is not in the cache, as far as json.load.  Two requests do
\* not read one file at once.
GetReads(f) ==
    /\ loader[f] = NoContent /\ getting[f] = NoContent /\ disk[f].form # "torn"
    /\ getting' = [getting EXCEPT ![f] = disk[f]]
    /\ UNCHANGED <<loader, toload>>

\* reload_all empties the cache ...
ReloadAll ==
    /\ loader' = [f \in ConfigFiles |-> NoContent]
    /\ toload' = ConfigFiles
    /\ UNCHANGED getting

\* ... and loads the files in any order, up to the first that does not parse.
ReloadReads(f) ==
    /\ f \in toload /\ getting[f] = NoContent
    /\ IF disk[f].form = "torn" THEN toload' = {} /\ UNCHANGED getting
       ELSE toload' = toload \ {f} /\ getting' = [getting EXCEPT ![f] = disk[f]]
    /\ UNCHANGED loader

\* _load_file assigns what it has read, whatever the cache has by then.
LoadStores(f) ==
    /\ getting[f] # NoContent
    /\ loader' = [loader EXCEPT ![f] = getting[f]]
    /\ getting' = [getting EXCEPT ![f] = NoContent]
    /\ UNCHANGED toload

ObserverStep ==
    /\ WatchStores \/ \E f \in ConfigFiles : WatchReads(f)
    /\ UNCHANGED <<getting, toload, diskVars, managerVars, servicesVars, adapterVars>>

LoaderNext ==
    \/ ObserverStep
    \/ /\ ReloadAll \/ \E f \in ConfigFiles : GetReads(f) \/ ReloadReads(f) \/ LoadStores(f)
       /\ UNCHANGED <<notices, read, diskVars, managerVars, servicesVars, adapterVars>>

-----------------------------------------------------------------------------
(* ConfigurationManager                                                    *)

\* Fault: what parses is taken.
LoadUnchecked(f) == IF disk[f].form # "torn" THEN disk[f] ELSE NoContent

\* load_*_config: what does not parse or validate is refused.
Load(f) == IF disk[f].form = "valid" THEN disk[f] ELSE NoContent

ManagerLoads(f) ==
    /\ manager[f] = NoContent
    /\ manager' = [manager EXCEPT ![f] = Load(f)]
    /\ UNCHANGED <<checked, wrote, dropped>>

\* reload_config_file of a file that is not validated first (execution, cache)
ManagerReloads(f) ==
    /\ f # Agents
    /\ manager' = [manager EXCEPT ![f] = Load(f)]
    /\ UNCHANGED <<checked, wrote, dropped>>

\* Fault: a file that does not parse is taken for one that validates.
ManagerChecksForm ==
    /\ ~checked /\ disk[Agents].form # "torn"
    /\ checked' = TRUE /\ wrote' = FALSE
    /\ UNCHANGED <<manager, dropped>>

\* reload_config_file of agents, workflows and topologies: first validated ...
ManagerChecks ==
    /\ ~checked /\ disk[Agents].form = "valid"
    /\ checked' = TRUE /\ wrote' = FALSE
    /\ UNCHANGED <<manager, dropped>>

\* ... then dropped and read again
ManagerReplaces ==
    /\ checked
    /\ checked' = FALSE
    /\ manager' = [manager EXCEPT ![Agents] = Load(Agents)]
    /\ dropped' = (dropped \/ (~wrote /\ manager'[Agents] = NoContent))
    /\ UNCHANGED wrote

\* reload_all stops at what is refused, execution and cache before the agents.
ManagerReloadsAll ==
    /\ manager' = [f \in ConfigFiles |-> IF f = Agents /\ Load(Providers) = NoContent THEN NoContent ELSE Load(f)]
    /\ UNCHANGED <<checked, wrote, dropped>>

ManagerNext ==
    /\ \/ \E f \in ConfigFiles : ManagerLoads(f) \/ ManagerReloads(f)
       \/ ManagerChecks \/ ManagerReplaces \/ ManagerReloadsAll
    /\ UNCHANGED <<diskVars, notices, loaderVars, servicesVars, adapterVars>>

-----------------------------------------------------------------------------
(* ConfigurationLoader and ConfigWatcher                                   *)

\* load_*() reads and validates what is not cached; validate_files() and a registry's
\* reload_from_config() do so past the cache, and not with the agents.  Two loads
\* do not have read one file at once.
ServicesReads(f) ==
    /\ services[f] = NoContent \/ f = Providers
    /\ fetched[f] = NoContent /\ Load(f) # NoContent
    /\ fetched' = [fetched EXCEPT ![f] = Load(f)]
    /\ UNCHANGED <<services, reloading, got, since, overtaken>>

\* ... and then assigns it, whatever the cache has by then.
ServicesStores(f) ==
    /\ fetched[f] # NoContent
    /\ services' = [services EXCEPT ![f] = fetched[f]]
    /\ fetched' = [fetched EXCEPT ![f] = NoContent]
    /\ UNCHANGED <<reloading, got, since, overtaken>>

\* Fault: what is cached is not reloaded.
ServicesBeginLazily ==
    /\ ~reloading
    /\ reloading' = (services[Providers] = NoContent)
    /\ since' = disk[Providers].n /\ overtaken' = (fetched[Providers] # NoContent)
    /\ UNCHANGED <<services, fetched, got>>

\* reload_all drops and loads providers, prompts and tools, and no agents; the
\* watcher calls it at the first change of a while.
ServicesBegin ==
    /\ ~reloading
    /\ services' = [services EXCEPT ![Providers] = NoContent]
    /\ reloading' = TRUE
    /\ since' = disk[Providers].n /\ overtaken' = (fetched[Providers] # NoContent)
    /\ UNCHANGED <<fetched, got>>

\* It ends at a file that is refused.
ReloadFetches ==
    /\ reloading /\ got = NoContent
    /\ got' = Load(Providers) /\ reloading' = (got' # NoContent)
    /\ UNCHANGED <<services, fetched, since, overtaken>>

ReloadPuts ==
    /\ got # NoContent
    /\ services' = [services EXCEPT ![Providers] = got]
    /\ got' = NoContent /\ reloading' = FALSE
    /\ UNCHANGED <<fetched, since, overtaken>>

\* A change within debounce_seconds of the last reload is only remembered.
Debounce(f) ==
    /\ f \in notices
    /\ notices' = notices \ {f}
    /\ pending' = TRUE

ServicesNext ==
    /\ \/ /\ \/ \E f \in ConfigFiles : ServicesReads(f) \/ ServicesStores(f)
             \/ ServicesBegin \/ ReloadFetches \/ ReloadPuts
          /\ UNCHANGED <<pending, notices>>
       \/ /\ \E f \in ConfigFiles : Debounce(f)
          /\ UNCHANGED <<services, fetched, reloading, got, since, overtaken>>
    /\ UNCHANGED <<diskVars, loaderVars, managerVars, adapterVars>>

-----------------------------------------------------------------------------
(* ProviderAdapter                                                         *)

\* The constructor loads the file, and then the watcher records its time.
AdapterStarts ==
    /\ adapter = "new" /\ disk[Providers].form # "torn"
    /\ adapter' = "loaded" /\ providers' = disk[Providers]
    /\ UNCHANGED <<seen, client, making, met, noticed>>

WatcherStarts ==
    /\ adapter = "loaded"
    /\ adapter' = "watching" /\ seen' = touched[Providers]
    /\ UNCHANGED <<providers, client, making, met, noticed>>

\* _check_file_changes compares, and then records the time there is by then.
FindsChange ==
    /\ adapter = "watching" /\ touched[Providers] > seen
    /\ adapter' = "changed"
    /\ UNCHANGED <<providers, seen, client, making, met, noticed>>

RecordsTime ==
    /\ adapter = "changed"
    /\ adapter' = "reloading" /\ seen' = touched[Providers]
    /\ UNCHANGED <<providers, client, making, met, noticed>>

\* Fault: the clients outlive the reload.
KeepsClients ==
    /\ adapter = "reloading"
    /\ adapter' = "clearing"
    /\ UNCHANGED <<providers, seen, client, making, met, noticed>>

\* reload_configs: the clients, the providers, the file
ClearsClients ==
    /\ adapter = "reloading"
    /\ adapter' = "clearing" /\ client' = NoContent /\ met' = FALSE
    /\ UNCHANGED <<providers, seen, making, noticed>>

ClearsProviders ==
    /\ adapter = "clearing"
    /\ adapter' = "reading" /\ providers' = NoContent
    /\ UNCHANGED <<seen, client, making, met, noticed>>

\* Fault: what does not parse ends the thread.
ReadsOrStops ==
    /\ adapter = "reading"
    /\ adapter' = IF disk[Providers].form = "torn" THEN "stopped" ELSE "watching"
    /\ providers' = IF disk[Providers].form = "torn" THEN NoContent ELSE disk[Providers]
    /\ UNCHANGED <<seen, client, making, met, noticed>>

\* A file that does not parse leaves no provider; the thread goes on watching.
Reads ==
    /\ adapter = "reading"
    /\ adapter' = "watching"
    /\ providers' = IF disk[Providers].form = "torn" THEN NoContent ELSE disk[Providers]
    /\ UNCHANGED <<seen, client, making, met, noticed>>

\* get_*_client without a client that is young enough: the provider is looked
\* up, its credentials are fetched, and the client is stored.
LooksUp ==
    /\ client = NoContent /\ making = NoContent
    /\ providers # NoContent /\ providers.form = "valid"
    /\ making' = providers
    /\ UNCHANGED <<adapter, providers, seen, client, met, noticed>>

StoresClient ==
    /\ making # NoContent
    /\ client' = making /\ making' = NoContent
    /\ met' = (making # providers \/ adapter = "clearing")
    /\ UNCHANGED <<adapter, providers, seen, noticed>>

\* cache_ttl_seconds
Expires ==
    /\ client # NoContent
    /\ client' = NoContent /\ met' = FALSE
    /\ UNCHANGED <<adapter, providers, seen, making, noticed>>

WatcherStep ==
    /\ FindsChange \/ RecordsTime \/ ClearsClients \/ ClearsProviders \/ Reads
    /\ UNCHANGED <<diskVars, notices, loaderVars, managerVars, servicesVars>>

AdapterNext ==
    \/ WatcherStep
    \/ /\ AdapterStarts \/ WatcherStarts \/ LooksUp \/ StoresClient \/ Expires
       /\ UNCHANGED <<diskVars, notices, loaderVars, managerVars, servicesVars>>

-----------------------------------------------------------------------------
SaverStep ==
    \/ SaveWrites
    \/ /\ SaveSets \/ SaveReads \/ SaveStores
       /\ UNCHANGED <<disk, touched, edits, hand, crossed, notices, read, getting, toload, managerVars, servicesVars, adapterVars>>

EditorNext ==
    \/ \E f \in ConfigFiles : EditBegins(f)
    \/ \E form \in {"valid", "invalid"} : EditEnds(form)

DiskNext == EditorNext \/ SaverStep \/ \E f \in ConfigFiles : SaveBegins(f)

LiveNext == DiskNext \/ LoaderNext \/ ManagerNext \/ ServicesNext \/ AdapterNext

\* The observer's thread, the watcher's thread and an endpoint at work go on.
SaverFairness    == WF_liveVars(SaverStep)
ObserverFairness == WF_liveVars(ObserverStep)
WatcherFairness  == WF_liveVars(WatcherStep)
LiveFairness     == SaverFairness /\ ObserverFairness /\ WatcherFairness

LiveSpec == LiveInit /\ [][LiveNext]_liveVars /\ LiveFairness
-----------------------------------------------------------------------------
(* Properties                                                              *)

\* Types of the holders.
LiveTypeOK ==
    /\ \A f \in ConfigFiles : disk[f].form \in Forms /\ touched[f] \in 0..2 * edits
    /\ edits \in 0..MaxEdits /\ hand \in ConfigFiles \cup {NoContent}
    /\ saver.at \in {"rest", "writing", "setting", "reading", "storing"} /\ notices \subseteq ConfigFiles
    /\ adapter \in {"new", "loaded", "watching", "changed", "reloading", "clearing", "reading"}

\* No holder has what did not parse, and those that validate have nothing that
\* is invalid, whenever in a write they read.
OnlyWholeFilesAreServed ==
    /\ \A f \in ConfigFiles : loader[f] # NoContent => loader[f].form # "torn"
    /\ \A c \in {manager[f] : f \in ConfigFiles} \cup {services[f] : f \in ConfigFiles} :
          c # NoContent => c.form = "valid"

\* "Invalid agents config, keeping previous version": a reload of the agents
\* never loses those there are, unless the file is written between its two
\* readings (reload_config_file).
PreviousVersionIsKept == ~dropped

\* When a reload_all is over, or has failed, what it reloads is not from before
\* it began, whatever loads came between its steps, unless a load had read the file
\* by then and not stored it (ConfigurationLoader.reload_all, load_providers).
ReloadIsFresh ==
    ~overtaken /\ ~reloading /\ services[Providers] # NoContent => services[Providers].n >= since

\* A client is one of the providers' file as it was loaded last, except one
\* whose making a reload overtook: that one lasts for its time (get_*_client,
\* reload_configs).
ClientsFollowTheFile ==
    client # NoContent /\ ~met => client = providers \/ adapter = "clearing"

\* What holds of the holders at any time.
ConfigIsSound ==
    OnlyWholeFilesAreServed /\ PreviousVersionIsKept /\ ReloadIsFresh /\ ClientsFollowTheFile

\* With hot reload, once the writing has ended, ConfigLoader has what each file
\* holds, whatever was torn when the observer read it, unless that file was written
\* between the two halves of a load by a request, a reload_all or the end of a save:
\* this one stores the older content, and nothing corrects it.
LoaderCatchesUp ==
    <>[](\A f \in ConfigFiles \ crossed :
            loader[f] \in {NoContent, disk[f]} \/ disk[f].form = "torn")

\* A change after the watcher has started reaches the adapter, through files
\* that do not parse when they are read (_watch_files).
AdapterCatchesUp == <>[](noticed => providers = disk[Providers] \/ disk[Providers].form = "torn")

(* Four statements that do not hold of the code (see README, Divergences). *)

\* "readers see the new state immediately, with or without the file watcher":
\* the observer may store what it read before the save.
SavedStaysSeen ==
    [][ObserverStep => \A f \in ConfigFiles :
          loader[f] # NoContent => loader'[f] # NoContent /\ loader'[f].n >= loader[f].n]_liveVars

\* "Start watching configuration files for changes": also those that come while
\* the adapter is made.
EditsAreNoticed == <>[](adapter = "watching" => providers = disk[Providers] \/ disk[Providers].form = "torn")

\* "Debounce rapid changes": the change that is held back is reloaded later.
DebouncedIsReloaded == pending ~> ~pending

\* "Reload all configurations, bypassing cache": the agents too.
AllIsReloaded == [][ServicesBegin => services'[Agents] = NoContent]_liveVars
=============================================================================

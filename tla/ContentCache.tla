---------------------------- MODULE ContentCache -----------------------------
(***************************************************************************)
(* The embeddings and sessions cached in Redis (src/infrastructure/        *)
(* embedding_cache.py, session_cache.py), what CacheManager does to them   *)
(* (invalidations, strategies, warming), and the counts of llm_cache.py.   *)
(*                                                                         *)
(* Redis has no query: an invalidation lists the keys, reads each entry    *)
(* and deletes it if it matches, and a warming asks, fetches and stores.   *)
(* Between any two of these other processes store and delete, entries      *)
(* expire, and calls of Redis fail, which every method answers with None,  *)
(* False or an empty list.  A monitor counts the requests of its process   *)
(* and shares one record in Redis with the others.                         *)
(***************************************************************************)
EXTENDS Integers, Sequences, FiniteSets

CONSTANTS
    Models,         \* embedding models, as what stands between their colons
    Contents,       \* texts, as what stands between their colons
    CachedSessions, \* session ids
    Users,          \* user ids in the metadata of sessions
    Callers,        \* callers of the manager, in any process
    Processes,      \* processes with a monitor of their own
    Nothing,        \* `None`
    MaxStores,      \* bound: entries stored
    MaxCounted      \* bound: requests recorded

\* _compute_content_hash hashes model and content with a colon between them.
Key(model, content) == model \o content

Texts == {<<m, c>> : m \in Models, c \in Contents}
EmbeddingKeys == {Key(t[1], t[2]) : t \in Texts}
Keys == EmbeddingKeys \cup CachedSessions

VARIABLES
    store,          \* what Redis holds
    old,            \* the sessions made longer ago than a strategy allows
    fresh,          \* the state of each session outside the cache, a number
    actor,          \* the callers, each at its next step
    stores,         \* entries stored so far
    spoiled,        \* keys that lost an entry that was there, and not meant,
                    \* when the invalidation looked (bookkeeping)
    counts,         \* LLMCacheMonitor.metrics of each process
    shared,         \* llm_cache:metrics in Redis
    counted         \* the requests recorded since the beginning (bookkeeping)

entryVars   == <<store, old, fresh, actor, stores, spoiled>>
countVars   == <<counts, shared, counted>>
contentVars == <<entryVars, countVars>>

Idle == [at |-> "rest", what |-> Nothing, todo |-> {}, key |-> Nothing, state |-> 0,
         since |-> 0, looked |-> 0, aged |-> {}, failed |-> FALSE]

NoCounts == [total |-> 0, hits |-> 0, misses |-> 0]

ContentInit ==
    /\ store = [k \in Keys |-> Nothing]
    /\ old = {}
    /\ fresh = [s \in CachedSessions |-> 0]
    /\ actor = [x \in Callers |-> Idle]
    /\ stores = 0 /\ spoiled = {}
    /\ counts = [p \in Processes |-> NoCounts]
    /\ shared = Nothing
    /\ counted = NoCounts

-----------------------------------------------------------------------------
(* Single entries                                                          *)

\* An entry: the model or the user it names, the text it was computed from or
\* the state of the session, and when it was stored.
Entry(tag, of) == [tag |-> tag, of |-> of, stored |-> stores + 1]

PutEntry(k, entry) ==
    /\ stores < MaxStores
    /\ stores' = stores + 1
    /\ store' = [store EXCEPT ![k] = entry]

\* EmbeddingCache.set and set_batch, one after the other
SetEmbedding(m, c) ==
    /\ PutEntry(Key(m, c), Entry(m, c))
    /\ UNCHANGED <<old, fresh, actor, spoiled>>

\* SessionCache.set
SetSession(s, u) ==
    /\ PutEntry(s, Entry(u, fresh[s]))
    /\ UNCHANGED <<old, fresh, actor, spoiled>>

\* delete; an entry that expires
DeleteEntry(k) ==
    /\ store[k] # Nothing
    /\ store' = [store EXCEPT ![k] = Nothing]
    /\ UNCHANGED <<old, fresh, actor, stores, spoiled>>

\* A session goes on outside the cache.
GoesOn(s) ==
    /\ fresh[s] < MaxStores
    /\ fresh' = [fresh EXCEPT ![s] = @ + 1]
    /\ UNCHANGED <<store, old, actor, stores, spoiled>>

\* A session gets older than the strategy's limit; created_at is never set
\* again.
GetsOld(s) ==
    /\ old' = old \cup {s}
    /\ UNCHANGED <<store, fresh, actor, stores, spoiled>>

-----------------------------------------------------------------------------
(* Invalidation: by user, by model, by age, or all of a kind               *)

Kinds == {<<"user", u>> : u \in Users} \cup {<<"model", m>> : m \in Models}
         \cup {<<"age", Nothing>>, <<"sessions", Nothing>>, <<"embeddings", Nothing>>}

Listed(what) == IF what[1] \in {"user", "age", "sessions"} THEN CachedSessions ELSE EmbeddingKeys

\* An embedding has no created_at, so a strategy by age matches none; it is
\* asked all the same, after the sessions.
Matches(what, k, entry) ==
    CASE what[1] \in {"user", "model"} -> entry.tag = what[2]
      [] what[1] = "age"               -> k \in old
      [] OTHER                         -> TRUE

\* keys(): a list of what is there now, or, if it fails, an empty one.
StartInvalidation(x, what) ==
    /\ actor[x].at \in {"rest", "done"}
    /\ \E failed \in BOOLEAN :
          actor' = [actor EXCEPT ![x] =
              [Idle EXCEPT !.at = "listing", !.what = what, !.since = stores, !.aged = old, !.failed = failed,
                           !.todo = IF failed THEN {} ELSE {k \in Listed(what) : store[k] # Nothing}]]
    /\ UNCHANGED <<store, old, fresh, stores, spoiled>>

\* Fault: nothing is read before it is deleted.
LookAway(x, k) ==
    LET c == actor[x]
    IN /\ c.at = "listing" /\ k \in c.todo
       /\ actor' = [actor EXCEPT ![x] = [c EXCEPT !.at = "dropping", !.key = k, !.looked = stores]]
       /\ UNCHANGED <<store, old, fresh, stores, spoiled>>

\* get_session_metadata, get_by_hash, which are None also when they fail;
\* clearing all does not look.
Look(x, k) ==
    LET c == actor[x]
    IN /\ c.at = "listing" /\ k \in c.todo
       /\ IF \/ c.what[1] \in {"sessions", "embeddings"}
             \/ store[k] # Nothing /\ Matches(c.what, k, store[k])
          THEN actor' = [actor EXCEPT ![x] = [c EXCEPT !.at = "dropping", !.key = k, !.looked = stores]]
          ELSE actor' = [actor EXCEPT ![x].todo = @ \ {k}]
       /\ UNCHANGED <<store, old, fresh, stores, spoiled>>

LookFails(x, k) ==
    /\ actor[x].at = "listing" /\ k \in actor[x].todo
    /\ actor[x].what[1] \notin {"sessions", "embeddings"}
    /\ actor' = [actor EXCEPT ![x].todo = @ \ {k}, ![x].failed = TRUE]
    /\ UNCHANGED <<store, old, fresh, stores, spoiled>>

\* Fault: the first that is found is the last that is dropped.
DropLast(x) ==
    LET c == actor[x]
    IN /\ c.at = "dropping"
       /\ store' = [store EXCEPT ![c.key] = Nothing]
       /\ actor' = [actor EXCEPT ![x] = [c EXCEPT !.at = "listing", !.todo = {}]]
       /\ UNCHANGED <<old, fresh, stores, spoiled>>

Meant(what, k, entry) ==
    \/ what[1] \in {"sessions", "embeddings"}
    \/ what[1] = "age" /\ k \in old
    \/ what[1] \in {"user", "model"} /\ entry.tag = what[2]

\* delete
Drop(x) ==
    LET c == actor[x]
    IN /\ c.at = "dropping"
       /\ store' = [store EXCEPT ![c.key] = Nothing]
       /\ spoiled' = IF store[c.key] # Nothing /\ store[c.key].stored <= c.looked
                          /\ ~Meant(c.what, c.key, store[c.key])
                      THEN spoiled \cup {c.key} ELSE spoiled
       /\ actor' = [actor EXCEPT ![x] = [c EXCEPT !.at = "listing", !.todo = @ \ {c.key}]]
       /\ UNCHANGED <<old, fresh, stores>>

DropFails(x) ==
    LET c == actor[x]
    IN /\ c.at = "dropping"
       /\ actor' = [actor EXCEPT ![x] = [c EXCEPT !.at = "listing", !.todo = @ \ {c.key}, !.failed = TRUE]]
       /\ UNCHANGED <<store, old, fresh, stores, spoiled>>

Finish(x) ==
    /\ actor[x].at = "listing" /\ actor[x].todo = {}
    /\ actor' = [actor EXCEPT ![x].at = "done"]
    /\ UNCHANGED <<store, old, fresh, stores, spoiled>>

-----------------------------------------------------------------------------
(* Warming                                                                 *)

\* exists(), which is False also when it fails.
StartWarming(x, s) ==
    /\ actor[x].at \in {"rest", "done"}
    /\ actor' = [actor EXCEPT ![x] = [Idle EXCEPT !.at = "fetching", !.key = s]]
    /\ UNCHANGED <<store, old, fresh, stores, spoiled>>

\* fetch_callback
Fetch(x) ==
    /\ actor[x].at = "fetching"
    /\ actor' = [actor EXCEPT ![x].at = "storing", ![x].state = fresh[actor[x].key]]
    /\ UNCHANGED <<store, old, fresh, stores, spoiled>>

Warm(x, u) ==
    /\ actor[x].at = "storing"
    /\ PutEntry(actor[x].key, Entry(u, actor[x].state))
    /\ actor' = [actor EXCEPT ![x] = Idle]
    /\ UNCHANGED <<old, fresh, spoiled>>

-----------------------------------------------------------------------------
(* The monitors                                                            *)

Plus(c, hit) == [total  |-> c.total + 1,
                 hits   |-> IF hit THEN c.hits + 1 ELSE c.hits,
                 misses |-> IF hit THEN c.misses ELSE c.misses + 1]

\* record_request: the counts of the process, whatever the others have stored;
\* storing them may fail.
RecordRequest(p, hit) ==
    /\ counted.total < MaxCounted
    /\ counted' = Plus(counted, hit)
    /\ counts' = [counts EXCEPT ![p] = Plus(@, hit)]
    /\ shared' \in {shared, counts'[p]}

\* Fault: what another process stored is added to what this one counted.
GetMetricsAdding(p) ==
    /\ shared # Nothing
    /\ counts' = [counts EXCEPT ![p].total = @ + shared.total, ![p].hits = @ + shared.hits,
                                ![p].misses = @ + shared.misses]
    /\ UNCHANGED <<shared, counted>>

\* get_metrics, when Redis has some
GetMetrics(p) ==
    /\ shared # Nothing
    /\ counts' = [counts EXCEPT ![p] = shared]
    /\ UNCHANGED <<shared, counted>>

\* reset_metrics; deleting the record may fail.
ResetMetrics(p) ==
    /\ counts' = [counts EXCEPT ![p] = NoCounts]
    /\ shared' \in {shared, Nothing}
    /\ UNCHANGED counted

EntriesNext ==
    \/ \E m \in Models, c \in Contents : SetEmbedding(m, c)
    \/ \E k \in Keys : DeleteEntry(k)
    \/ \E s \in CachedSessions : GoesOn(s) \/ GetsOld(s) \/ \E u \in Users : SetSession(s, u)
    \/ \E x \in Callers :
          \/ \E what \in Kinds : StartInvalidation(x, what)
          \/ \E k \in Keys : Look(x, k) \/ LookFails(x, k)
          \/ \E s \in CachedSessions : StartWarming(x, s)
          \/ \E u \in Users : Warm(x, u)
          \/ Drop(x) \/ DropFails(x) \/ Finish(x) \/ Fetch(x)

CountsNext ==
    \E p \in Processes : \/ \E hit \in BOOLEAN : RecordRequest(p, hit)
                          \/ GetMetrics(p) \/ ResetMetrics(p)

ContentNext ==
    \/ EntriesNext /\ UNCHANGED countVars
    \/ CountsNext /\ UNCHANGED entryVars

ContentSpec == ContentInit /\ [][ContentNext]_contentVars

-----------------------------------------------------------------------------
(* Properties                                                              *)

\* Types of the caches.
ContentTypeOK ==
    /\ \A k \in Keys : store[k] # Nothing => store[k].stored \in 1..stores
    /\ old \subseteq CachedSessions /\ spoiled \subseteq Keys
    /\ \A x \in Callers : /\ actor[x].at \in {"rest", "listing", "dropping", "done", "fetching", "storing"}
                           /\ actor[x].todo \subseteq Keys

\* When an invalidation ends and no call of it failed, nothing that was cached
\* when it began and is meant by it is cached, whatever was stored, deleted,
\* warmed and invalidated meanwhile (invalidate_*, apply_invalidation_strategy).
InvalidationIsThorough ==
    \A x \in Callers : actor[x].at = "done" /\ ~actor[x].failed =>
        \A k \in Listed(actor[x].what) :
            store[k] # Nothing /\ store[k].stored <= actor[x].since =>
                IF actor[x].what[1] = "age" THEN k \notin actor[x].aged
                ELSE ~Meant(actor[x].what, k, store[k])

\* An invalidation deletes what is not meant by it only if that was stored
\* after it had looked: no other user's session and no other model's embedding.
OthersAreSpared == spoiled = {}

\* Whatever the processes store over one another and reset, the counts of a
\* monitor are of one set of requests that were made (LLMCacheMonitor).
CountsAreOfRequests ==
    \A c \in {counts[p] : p \in Processes} \cup ({shared} \ {Nothing}) :
        /\ c.total = c.hits + c.misses
        /\ c.hits <= counted.hits /\ c.misses <= counted.misses

\* What invalidation and counting promise.
ContentIsRightlyDropped ==
    InvalidationIsThorough /\ OthersAreSpared /\ CountsAreOfRequests

(* Three statements that do not hold of the code (see README, Divergences).*)

\* "Compute hash for content and model combination": models apart, keys apart.
KeysAreApart == \A s, t \in Texts : Key(s[1], s[2]) = Key(t[1], t[2]) => s = t

\* "Check if already cached": warming leaves what is cached as it is.
WarmingKeepsWhatIsCached ==
    [][\A x \in Callers, u \in Users, s \in CachedSessions :
          actor[x].key = s /\ Warm(x, u) => store[s] = Nothing]_contentVars

\* "Persisting metrics": Redis has the requests of all processes.
RequestsAreCounted == shared # Nothing => shared.total = counted.total
=============================================================================

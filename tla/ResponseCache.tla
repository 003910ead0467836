---------------------------- MODULE ResponseCache ----------------------------
(***************************************************************************)
(* The responses CacheManager keeps (src/infrastructure/cache_manager.py): *)
(* per workflow and agent a layer in memory, LRU or LFU, in front of one   *)
(* Redis for all processes.  Each layer has a lock of its own, but a read  *)
(* is three steps (memory, Redis, memory) and a write is two, with the     *)
(* steps of other threads in between.  Redis may forget anything, as it    *)
(* expires, and fail at any call.                                          *)
(*                                                                         *)
(* A response is its version: the number of the write that stored it.      *)
(***************************************************************************)
EXTENDS Integers, FiniteSetsExt, SequencesExt

CONSTANTS
    Threads,        \* callers
    Scopes,         \* <<workflow, agent>>, each with its layer in memory
    Responses,      \* cache keys
    Wants,          \* bound: the keys each caller asks for or stores
    Configs,        \* what CacheConfig may say
    NoLayer,        \* `None` where a layer in memory or in a config may stand
    MaxWrites,      \* bound: calls of cache_response
    MaxUses,        \* bound: uses of one entry of an LFU layer
    MaxUpdates      \* bound: calls of update_cache_config

\* LayerConfig; size 0 stands for no limit, ttl 0 for no expiry.
LayerConfig == [enabled : BOOLEAN, ttl : Nat, size : Nat, policy : {"LRU", "LFU", "TTL"}]

ASSUME CacheAssumption ==
    /\ NoLayer \notin LayerConfig
    /\ NoLayer \notin [policy : {"LRU", "LFU"}, size : Nat,
                       items : Seq([key : Responses, version : Nat, uses : Nat])]
    /\ \A c \in Configs :
          /\ c.enabled \in BOOLEAN
          /\ c.layer \in LayerConfig \cup {NoLayer}
          /\ c.agents \in [Scopes -> LayerConfig \cup {NoLayer}]
          /\ c.workflows \in [Scopes -> LayerConfig \cup {NoLayer}]
    /\ \A t \in Threads : Wants[t] \subseteq Responses

VARIABLES
    config,         \* cache_config
    memory,         \* _memory_caches
    redis,          \* the version Redis holds
    caller,         \* the threads, each at its next step
    writes,         \* writes so far
    updates,        \* updates of the configuration so far
    shown,          \* the last version a scope stored or was answered, 0 once
                    \* two calls of it met at the key (bookkeeping)
    recent          \* the keys a layer was used for, the last use last (bookkeeping)

cacheVars == <<config, memory, redis, caller, writes, updates, shown, recent>>

Free == [at |-> "free", scope |-> NoLayer, key |-> NoLayer, version |-> 0,
         layer |-> NoLayer, made |-> 0]

CacheInit ==
    /\ config \in Configs
    /\ memory = [s \in Scopes |-> NoLayer]
    /\ redis = [k \in Responses |-> 1]          \* of a process before
    /\ caller = [t \in Threads |-> Free]
    /\ writes = 1 /\ updates = 0
    /\ shown = [s \in Scopes |-> [k \in Responses |-> 1]]
    /\ recent = [s \in Scopes |-> <<>>]

-----------------------------------------------------------------------------
(* The configuration: agent before workflow before global                  *)

\* The overrides that name this layer, the most specific first.
Overrides(c, s) ==
    LET There(x) == IF x = NoLayer THEN <<>> ELSE <<x>>
    IN There(c.agents[s]) \o There(c.workflows[s])

\* is_cache_enabled
Enabled(c, s) ==
    /\ c.enabled
    /\ IF Overrides(c, s) # <<>> THEN Head(Overrides(c, s)).enabled
       ELSE c.layer # NoLayer /\ c.layer.enabled

\* Fault: the workflow's override is laid over the agent's.
MergeReversed(c, s) ==
    LET Over(o, l) == IF o = NoLayer THEN l ELSE [o EXCEPT !.size = IF @ = 0 THEN l.size ELSE @]
    IN Over(c.workflows[s], Over(c.agents[s], c.layer))

\* An override that names no size leaves the one it is laid over.
Merge(c, s) ==
    LET Over(o, l) == IF o = NoLayer THEN l ELSE [o EXCEPT !.size = IF @ = 0 THEN l.size ELSE @]
    IN Over(c.agents[s], Over(c.workflows[s], c.layer))

\* get_effective_layer_config
Effective(c, s) ==
    IF ~Enabled(c, s) \/ c.layer = NoLayer THEN NoLayer ELSE Merge(c, s)

-----------------------------------------------------------------------------
(* A layer in memory: its entries in the order of their last use (LRU) or  *)
(* of their coming (LFU), the latter with the number of their uses.        *)

NewLayer(l) == [policy |-> l.policy, size |-> l.size, items |-> <<>>]

\* _get_memory_cache: a layer that is there is taken as it is.
LayerFor(s, l) ==
    IF l.size = 0 THEN NoLayer
    ELSE IF memory[s] # NoLayer THEN memory[s]
    ELSE IF l.policy = "TTL" THEN NoLayer ELSE NewLayer(l)

At(m, k) == {i \in 1..Len(m.items) : m.items[i].key = k}

\* A sequence without what is at the place, if there is one.
Without(q, places) == IF places = {} THEN q ELSE RemoveAt(q, CHOOSE i \in places : TRUE)

Others(m, k) == Without(m.items, At(m, k))

\* Fault: an entry that is read keeps its place.
TouchedInPlace(m, i) == m

\* LRUCache.get and LFUCache.get of the entry at i.
Touched(m, i) ==
    IF m.policy = "LRU"
    THEN [m EXCEPT !.items = Append(RemoveAt(m.items, i), m.items[i])]
    ELSE [m EXCEPT !.items[i].uses = @ + 1]

LeastUsed(m) ==
    Min({i \in 1..Len(m.items) : \A j \in 1..Len(m.items) : m.items[i].uses <= m.items[j].uses})

\* Fault: both policies make room after the new entry is in.
WithItemEvictingLate(m, k, v) ==
    LET all == Append(Others(m, k), [key |-> k, version |-> v, uses |-> 1])
    IN [m EXCEPT !.items = IF Len(all) <= m.size THEN all
                           ELSE RemoveAt(all, LeastUsed([m EXCEPT !.items = all]))]

\* LRUCache.set and LFUCache.set
WithItem(m, k, v) ==
    LET all  == Append(Others(m, k), [key |-> k, version |-> v, uses |-> 1])
        room == IF Len(m.items) < m.size THEN m.items ELSE RemoveAt(m.items, LeastUsed(m))
    IN [m EXCEPT !.items =
           IF m.policy = "LRU"
           THEN IF Len(all) > m.size THEN Tail(all) ELSE all
           ELSE IF At(m, k) # {}
           THEN [i \in 1..Len(m.items) |->
                    IF i \in At(m, k) THEN [key |-> k, version |-> v, uses |-> m.items[i].uses + 1]
                    ELSE m.items[i]]
           ELSE Append(room, [key |-> k, version |-> v, uses |-> 1])]

-----------------------------------------------------------------------------
(* get_cached_response and cache_response; a call that is bypassed changes *)
(* nothing.                                                                *)

\* The key is the one used last.
UsedLast(used, k) == Append(Without(used, {i \in 1..Len(used) : used[i] = k}), k)

Use(s, k) == [recent EXCEPT ![s] = UsedLast(@, k)]

Meets(s, k) == \E t \in Threads : caller[t].at # "free" /\ caller[t].scope = s /\ caller[t].key = k

Shows(s, k, v) == shown' = [shown EXCEPT ![s][k] = IF @ = 0 \/ Meets(s, k) THEN 0 ELSE v]

Called(t, s, k, at) ==
    /\ caller' = [caller EXCEPT ![t] = [at |-> at, scope |-> s, key |-> k, version |-> 0,
                                       layer |-> Effective(config, s), made |-> updates]]
    /\ Shows(s, k, shown[s][k])

\* The configuration and the layer in memory.
Read(t, s, k) ==
    /\ caller[t].at = "free" /\ Effective(config, s) # NoLayer
    /\ LET m == LayerFor(s, Effective(config, s))
       IN IF m # NoLayer /\ At(m, k) # {}
          THEN \E i \in At(m, k) :
                  /\ m.items[i].uses < MaxUses
                  /\ memory' = [memory EXCEPT ![s] = Touched(m, i)]
                  /\ Shows(s, k, m.items[i].version)
                  /\ recent' = Use(s, k)
                  /\ UNCHANGED caller
          ELSE /\ memory' = IF m = NoLayer THEN memory ELSE [memory EXCEPT ![s] = m]
               /\ Called(t, s, k, IF m = NoLayer THEN "asking" ELSE "asking, to fill")
               /\ UNCHANGED recent
    /\ UNCHANGED <<config, redis, writes, updates>>

\* RedisCache.get_json: None for what is not there, for what expired and for
\* every error.
Ask(t) ==
    LET c == caller[t]
    IN /\ c.at \in {"asking", "asking, to fill"}
       /\ \/ caller' = [caller EXCEPT ![t] = Free] /\ UNCHANGED shown
          \/ /\ shown' = [shown EXCEPT ![c.scope][c.key] = IF @ = 0 THEN 0 ELSE redis[c.key]]
             /\ caller' = [caller EXCEPT ![t] =
                              IF c.at = "asking" THEN Free
                              ELSE [c EXCEPT !.at = "filling", !.version = redis[c.key]]]
       /\ UNCHANGED <<config, memory, redis, writes, updates, recent>>

\* The layer is the one taken at the start, which an update may have dropped.
Fill(t) ==
    LET c == caller[t]
    IN /\ c.at = "filling"
       /\ IF c.made = updates
          THEN /\ memory' = [memory EXCEPT ![c.scope] = WithItem(@, c.key, c.version)]
               /\ recent' = Use(c.scope, c.key)
          ELSE UNCHANGED <<memory, recent>>
       /\ caller' = [caller EXCEPT ![t] = Free]
       /\ UNCHANGED <<config, redis, writes, updates, shown>>

Write(t, s, k) ==
    /\ caller[t].at = "free" /\ Effective(config, s) # NoLayer
    /\ Called(t, s, k, "writing")
    /\ UNCHANGED <<config, memory, redis, writes, updates, recent>>

\* RedisCache.set_json; one that fails, by a timeout perhaps, may have stored
\* the response all the same.
Set(t) ==
    LET c == caller[t]
    IN /\ c.at = "writing"
       /\ \/ UNCHANGED <<redis, writes>>
          \/ /\ writes < MaxWrites
             /\ writes' = writes + 1
             /\ redis' = [redis EXCEPT ![c.key] = writes']
       /\ \/ caller' = [caller EXCEPT ![t] = Free] /\ UNCHANGED shown
          \/ /\ writes' > writes
             /\ shown' = [shown EXCEPT ![c.scope][c.key] = IF @ = 0 THEN 0 ELSE writes']
             /\ caller' = [caller EXCEPT ![t] = [c EXCEPT !.at = "keeping", !.version = writes']]
       /\ UNCHANGED <<config, memory, updates, recent>>

\* Fault: what was stored is read into memory by the next read.
KeepLater(t) ==
    /\ caller[t].at = "keeping"
    /\ caller' = [caller EXCEPT ![t] = Free]
    /\ UNCHANGED <<config, memory, redis, writes, updates, shown, recent>>

\* The layer is looked up now, with the configuration of the start.
Keep(t) ==
    LET c == caller[t]
        m == LayerFor(c.scope, c.layer)
    IN /\ c.at = "keeping"
       /\ IF m = NoLayer THEN UNCHANGED <<memory, recent>>
          ELSE /\ \A i \in At(m, c.key) : m.items[i].uses < MaxUses
               /\ memory' = [memory EXCEPT ![c.scope] = WithItem(m, c.key, c.version)]
               /\ recent' = Use(c.scope, c.key)
       /\ caller' = [caller EXCEPT ![t] = Free]
       /\ UNCHANGED <<config, redis, writes, updates, shown>>

\* Another process, with layers of its own, stores a response.
Elsewhere(k) ==
    /\ writes < MaxWrites
    /\ writes' = writes + 1
    /\ redis' = [redis EXCEPT ![k] = writes']
    /\ UNCHANGED <<config, memory, caller, updates, shown, recent>>

\* update_cache_config
UpdateConfig(c) ==
    /\ updates < MaxUpdates
    /\ config' = c
    /\ memory' = [s \in Scopes |-> NoLayer]
    /\ recent' = [s \in Scopes |-> <<>>]
    /\ updates' = updates + 1
    /\ UNCHANGED <<redis, caller, writes, shown>>

CacheNext ==
    \/ \E t \in Threads :
          \/ \E s \in Scopes, k \in Wants[t] : Read(t, s, k) \/ Write(t, s, k)
          \/ Ask(t) \/ Fill(t) \/ Set(t) \/ Keep(t)
    \/ \E k \in Responses : Elsewhere(k)
    \/ \E c \in Configs : UpdateConfig(c)

CacheSpec == CacheInit /\ [][CacheNext]_cacheVars

-----------------------------------------------------------------------------
(* Properties                                                              *)

Layers == {s \in Scopes : memory[s] # NoLayer}

\* Types of the cache.
CacheTypeOK ==
    /\ config \in Configs
    /\ \A s \in Layers : /\ memory[s].policy \in {"LRU", "LFU"} /\ memory[s].size \in Nat \ {0}
                          /\ Len(memory[s].items) <= memory[s].size
    /\ \A t \in Threads : caller[t].at \in {"free", "asking", "asking, to fill", "filling", "writing", "keeping"}
    /\ \A s \in Scopes, k \in Responses : shown[s][k] \in 0..writes

\* A layer that evicts by use has just the last keys it was used for, as many
\* as it may have, each once (LRUCache).
RecentlyUsedAreKept ==
    \A s \in Layers :
        LET m == memory[s]
            last == Len(recent[s])
        IN m.policy = "LRU" =>
              [i \in 1..Len(m.items) |-> m.items[i].key]
                  = SubSeq(recent[s], Max({1, last - m.size + 1}), last)

\* A layer that evicts by frequency has the key used last, each key once, and
\* has lost no key while it had room (LFUCache).
FrequentlyUsedAreKept ==
    \A s \in Layers :
        LET m == memory[s]
        IN /\ \A i, j \in 1..Len(m.items) : i # j => m.items[i].key # m.items[j].key
           /\ Len(m.items) = Min({m.size, Len(recent[s])})
           /\ recent[s] # <<>> => At(m, recent[s][Len(recent[s])]) # {}

\* Calls look into the layer: with no size to keep, one that a late write left
\* there is passed by.
Consulted(s) == Effective(config, s) # NoLayer /\ Effective(config, s).size > 0

\* Of a layer that is looked into, and of a key at which no two calls of its
\* scope met: memory never has less than the scope stored or was answered last,
\* so that a scope reads its writes and never an older response after a newer
\* one, through failures of Redis, expiry, evictions and changes of the
\* configuration, although other scopes write the key behind it
\* (get_cached_response).
MemoryIsNotBehind ==
    \A s \in Layers : Consulted(s) => \A i \in 1..Len(memory[s].items) :
        LET item == memory[s].items[i]
        IN shown[s][item.key] # 0 /\ ~Meets(s, item.key) => item.version = shown[s][item.key]

\* Who decides about a scope decides whole: the first of agent, workflow and
\* layer that says anything, and for the size the first that names one
\* (is_cache_enabled and get_effective_layer_config agree).
TheMostSpecificDecides ==
    \A s \in Scopes :
        LET l    == Effective(config, s)
            says == Append(Overrides(config, s), config.layer)
            named == {i \in 1..Len(says) : says[i].size > 0}
        IN l # NoLayer =>
              /\ l.enabled /\ l.enabled = Head(says).enabled
              /\ l.ttl = Head(says).ttl /\ l.policy = Head(says).policy
              /\ l.size = IF named = {} THEN 0 ELSE says[Min(named)].size

\* What the cache promises.
ResponsesAreCached ==
    RecentlyUsedAreKept /\ FrequentlyUsedAreKept /\ MemoryIsNotBehind /\ TheMostSpecificDecides

(* Two statements that do not hold of the code (see README, Divergences).  *)

\* "Check if cache is enabled": without a layer of its type nothing is cached.
EnabledIsCached == \A s \in Scopes : Enabled(config, s) => Effective(config, s) # NoLayer

\* "Clear memory caches to apply new policies": a write under way makes a
\* layer of the old one.
PoliciesAreApplied ==
    \A s \in Layers : Effective(config, s) # NoLayer =>
        memory[s].policy = Effective(config, s).policy /\ memory[s].size = Effective(config, s).size
=============================================================================

------------------------------ MODULE MCMemory -------------------------------
(***************************************************************************)
(* Instances for TLC of what a process keeps in memory for its callers.    *)
(* Each behaviour is one of these, while the others rest:                  *)
(*   VoiceCall     three connections, two tickets for one session, room to *)
(*                 remember one and to let one speak                       *)
(*   ResponseCache two callers and three keys; a layer for two responses,  *)
(*                 and overrides by an LFU one, none, and one without any  *)
(*   ContentCache  embeddings of two models and a session of two users     *)
(*                 under an invalidation; or two monitors that count       *)
(***************************************************************************)
EXTENDS VoiceCall, ResponseCache, ContentCache, TLC

CONSTANTS t1, t2, c1, c2, c3, s1, none,
          asks, asksOne, group, key1, key2, key3,
          alpha, beta, text, user1, user2, anyone, monitor1, monitor2

MCTickets  == {t1, t2}
MCConns    == {c1, c2, c3}
MCSessions == {s1}
MCSessionOfTicket == [t \in MCTickets |-> s1]

MCThreads   == {asks, asksOne}
MCScopes    == {group}
MCResponses == {key1, key2, key3}
MCWants     == (asks :> MCResponses) @@ (asksOne :> {key1})

Lru     == [enabled |-> TRUE, ttl |-> 1, size |-> 2, policy |-> "LRU"]
NoOverride == [scope \in MCScopes |-> none]
Bare    == [enabled |-> TRUE, layer |-> Lru, agents |-> NoOverride, workflows |-> NoOverride]
MCConfigs ==
    {Bare,
     [Bare EXCEPT !.layer.size = 0],
     [Bare EXCEPT !.workflows[group] = [enabled |-> TRUE, ttl |-> 0, size |-> 0, policy |-> "LFU"]],
     [Bare EXCEPT !.workflows[group] = [Lru EXCEPT !.enabled = FALSE],
                  !.agents[group] = [Lru EXCEPT !.size = 1, !.policy = "TTL"]]}

MCModels    == {<<alpha>>, <<alpha, beta>>}
MCContents  == {<<text>>, <<beta, text>>}
MCUsers     == {user1, user2}
MCActors    == {anyone}
MCProcesses == {monitor1, monitor2}

\* The connections are alike; the other parts know none.
Alike == Permutations(MCConns)

VARIABLE part

memoryVars == <<part, vars, cacheVars, contentVars>>

Init ==
    /\ part \in {"voice", "responses", "entries", "counts"}
    /\ VoiceInit /\ CacheInit /\ ContentInit
    /\ part # "responses" => config = Bare

Next ==
    /\ UNCHANGED part
    /\ \/ part = "voice" /\ VoiceNext /\ UNCHANGED <<cacheVars, contentVars>>
       \/ part = "responses" /\ CacheNext /\ UNCHANGED <<vars, contentVars>>
       \/ part = "entries" /\ EntriesNext /\ UNCHANGED <<vars, cacheVars, countVars>>
       \/ part = "counts" /\ CountsNext /\ UNCHANGED <<vars, cacheVars, entryVars>>

Spec == Init /\ [][Next]_memoryVars
=============================================================================

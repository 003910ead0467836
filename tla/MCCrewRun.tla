----------------------------- MODULE MCCrewRun -----------------------------
(***************************************************************************)
(* Instances of CrewRun for TLC.  Four families of definitions:            *)
(*   Whole     four nodes, all agents there: n1 -> n2 and every sequence   *)
(*             of up to three more edges (an edge's place among those of   *)
(*             other nodes does not matter to the code, so some edge of    *)
(*             the entry may be taken to come first);                      *)
(*   Holes     three nodes, every sequence of up to three edges, loops     *)
(*             among them, one agent missing or none;                      *)
(*   Led       hierarchical crews of three nodes, with shared agents,      *)
(*             selectors and tools on every node, agents missing;          *)
(*   Written   up to three explicit tasks, in any order, repeated, without *)
(*             an agent.                                                   *)
(***************************************************************************)
EXTENDS CrewRun, FiniteSets, TLC

CONSTANTS n1, n2, n3, n4, a1, a2, a3, a4, none

MCNodes  == {n1, n2, n3, n4}
MCAgents == {a1, a2, a3, a4}

Own    == n1 :> a1 @@ n2 :> a2 @@ n3 :> a3 @@ n4 :> a4
Shared == n1 :> a1 @@ n2 :> a2 @@ n3 :> a2 @@ n4 :> a4

Base == [nodes |-> <<n1, n2, n3>>, entry |-> n1, edges |-> <<>>, agent |-> Own,
         configured |-> MCAgents, selectors |-> {}, tooled |-> {},
         process |-> "sequential", tasks |-> <<>>]

Edges(Arrows, len) ==
    {s \in UNION {[1..k -> Arrows] : k \in 0..len} :
        \A i, j \in DOMAIN s : s[i] = s[j] => i = j}

Whole == {[Base EXCEPT !.nodes = <<n1, n2, n3, n4>>, !.edges = <<<<n1, n2>>>> \o e] :
             e \in Edges({f \in MCNodes \X MCNodes : f[1] # f[2] /\ f # <<n1, n2>>}, 3)}

Holes == {[Base EXCEPT !.edges = e, !.configured = MCAgents \ m] :
             e \in Edges({n1, n2, n3} \X {n1, n2, n3}, 3), m \in {{}, {a1}, {a2}, {a3}}}

Led == {[Base EXCEPT !.edges = e, !.agent = g, !.process = "hierarchical",
                     !.selectors = s, !.tooled = t, !.configured = c] :
           e \in {<<>>, <<<<n1, n2>>, <<n1, n3>>>>}, g \in {Own, Shared},
           s \in {{}, {n1}, {n2, n3}}, t \in {{}, {a2}}, c \in {{a1, a2, a3}, {a2, a3}, {a1}}}

Written == {[Base EXCEPT !.edges = <<<<n1, n2>>>>, !.configured = {a1, a2}, !.tasks = s] :
               s \in UNION {[1..k -> [node : {n1, n2}, agent : {a1, a2, a3}]] : k \in 1..3}}

MCDefinitions == Whole \cup Holes \cup Led \cup Written
MCJoins       == Whole
=============================================================================

----------------------------- MODULE MCOutside -----------------------------
(***************************************************************************)
(* Instances for TLC of what meets the system from outside: the two        *)
(* scripts of a chatbot page, the accounts at other services, and the      *)
(* tools of a run.  They share nothing: each behaviour is one of           *)
(*   chat      ChatPage: two conversations, two messages, a file, and a    *)
(*             history on its way                                          *)
(*   voice     VoicePage: two starts, so that an attempt meets the socket  *)
(*             of an earlier conversation and another attempt              *)
(*   accounts  Connections, the calls of token connections                 *)
(*   mail      Connections, the calls of the Gmail account                 *)
(*   tools     CrewTools: a run of three nodes while the registry reloads  *)
(* while the others rest.                                                  *)
(***************************************************************************)
EXTENDS ChatPage, VoicePage, Connections, CrewTools

CONSTANTS s1, s2, f1, none, c1, c2, k1, a1, a2, boss, fun, mcp, conn, db, big, small

MCSessions == {s1, s2}
MCFiles    == {f1}

MCCallers == {c1, c2}
MCTokens  == {k1}

MCToolIds == {fun, mcp, conn, db}
MCListed  == <<fun, mcp, conn, db>>
MCKindOf  == [t \in MCToolIds |->
    CASE t = fun -> "function" [] t = mcp -> "mcp" [] t = conn -> "connector" [] t = db -> "factory"]

\* Three nodes, of which the first and the last are of one agent or the first is
\* its manager's; a model with settings from three places.
TheModel == [config |-> [model |-> big, temperature |-> 1], settings |-> [temperature |-> 2],
             override |-> [max_tokens |-> 3]]
Team ==
    [agents |-> <<a1, a2, a1>>, attached |-> <<<<fun>>, <<conn>>, <<mcp, fun>>>>,
     configured |-> {a1, a2}, own |-> (a1 :> <<db>>) @@ (a2 :> <<mcp>>) @@ (boss :> <<>>),
     manager |-> none, models |-> [a \in {a1, a2, boss} |-> TheModel], pin |-> [model |-> small]]
Led == [Team EXCEPT !.agents = <<boss, a1, a2>>, !.manager = boss, !.configured = {boss, a1, a2}]
MCCrews == {Team, Led, [Led EXCEPT !.configured = {boss, a1}]}

VARIABLE part

vars == <<part, pageVars, clientVars, connectionVars, crewToolVars>>

Init ==
    /\ part \in {"chat", "voice", "accounts", "mail", "tools"}
    /\ PageInit /\ VoiceInit /\ ConnectionsInit /\ ToolsInit
    /\ part \notin {"accounts", "mail"} => configured
    /\ part # "tools" => crew = Team

Next ==
    \/ part = "chat" /\ PageNext /\ UNCHANGED <<part, clientVars, connectionVars, crewToolVars>>
    \/ part = "voice" /\ VoiceNext /\ UNCHANGED <<part, pageVars, connectionVars, crewToolVars>>
    \/ part = "accounts" /\ TokensNext /\ UNCHANGED <<part, pageVars, clientVars, crewToolVars>>
    \/ part = "mail" /\ GmailNext /\ UNCHANGED <<part, pageVars, clientVars, crewToolVars>>
    \/ part = "tools" /\ ToolsNext /\ UNCHANGED <<part, pageVars, clientVars, connectionVars>>

\* A script that rests has nothing under way.
Spec == Init /\ [][Next]_vars /\ PageFairness /\ VoiceFairness

\* Neither script does what its visitor did not ask, nor takes the answer to one
\* thing for the answer to another.
VisitorIsRespected == VisitorIsObeyed /\ NobodyIsOverheard

\* Neither script leaves its visitor waiting for good: the composer comes back
\* after every answer, and every start of a call comes to an end.
VisitorIsServed == ComposerComesBack /\ StartComesToAnEnd
=============================================================================

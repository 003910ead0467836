-------------------------- MODULE MCSessionManager --------------------------
(***************************************************************************)
(* Instances of SessionManager for TLC: three calls of one workflow, all   *)
(* in one session or one of them in a session of its own.                  *)
(***************************************************************************)
EXTENDS SessionManager, TLC

CONSTANTS a, b, c, s, t, wf

MCRuns        == {a, b, c}
MCSessions    == {s, t}
OneSession    == {s}
AllInOne      == [r \in MCRuns |-> s]
MCWorkflows   == {wf}
MCSessionOf   == [r \in MCRuns |-> IF r = c THEN t ELSE s]
MCWorkflowFor == [x \in Sessions |-> wf]
MCWorkflowOf  == [r \in MCRuns |-> wf]
=============================================================================

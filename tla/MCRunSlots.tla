----------------------------- MODULE MCRunSlots -----------------------------
(***************************************************************************)
(* Instance of RunSlots for TLC: four runs of one workflow with two slots, *)
(* so that two permits can be free while two runs still wait, and one run  *)
(* of another workflow, whose slots are its own.                           *)
(***************************************************************************)
EXTENDS RunSlots, TLC

CONSTANTS a, b, c, d, other, wf, wg

MCRuns       == {a, b, c, d, other}
MCWorkflows  == {wf, wg}
MCWorkflowOf == [r \in MCRuns |-> IF r = other THEN wg ELSE wf]
=============================================================================

----------------------------- MODULE MCRecords -----------------------------
(***************************************************************************)
(* Instances for TLC of the components that keep records on disk or in     *)
(* memory and share nothing: each behaviour is one of ConfigVersions,      *)
(* Deployments, AuditTrail, RateLimiter, RagService or Catalogue, while    *)
(* the others rest.  Two editors whose contents come back, with a limit of *)
(* two snapshots; one deployment, as the others only make deployments.json *)
(* unreadable to it, with two settings over four releases; three writers   *)
(* of four audit records and three changes from outside; an hour of two    *)
(* and a half minutes, with limits that either window may reach first;     *)
(* three ingestions of two documents of up to two chunks; two tools, of    *)
(* which one may be generated and one imported, an agent, a workflow and   *)
(* one import.                                                             *)
(***************************************************************************)
EXTENDS ConfigVersions, Deployments, AuditTrail, RateLimiter, RagService, Catalogue

CONSTANTS e1, e2, a, b, d1, s1, s2, t1, t2, t3, x, y, p, q, worker, flow, task, none

MCEditors     == {e1, e2}
MCContents    == {a, b}
MCDeployments == {d1}
MCSettings    == {s1, s2}
MCWriters     == {t1, t2, t3}
MCIngestions  == {t1, t2, t3}           \* they run in threads, as writers do
MCSources     == {x, y}
MCTools       == {p, q}                 \* p may be generated, q imported
MCFunctions   == {p}
MCEndpoints   == {q}
MCAgents      == {worker}
MCWorkflows   == {flow}
MCImports     == {task}

VARIABLE part

Init ==
    /\ part \in {"versions", "deployments", "audit", "limiter", "rag", "catalogue"}
    /\ VersionsInit /\ (part # "versions" => prompt = Absent)
    /\ DeploymentsInit /\ TrailInit /\ LimiterInit
    /\ RagInit /\ CatalogueInit

Next ==
    \/ /\ part = "versions" /\ VersionsNext
       /\ UNCHANGED <<part, deploymentVars, trailVars, limiterVars, vars, catalogueVars>>
    \/ /\ part = "deployments" /\ DeploymentsNext
       /\ UNCHANGED <<part, versionVars, trailVars, limiterVars, vars, catalogueVars>>
    \/ /\ part = "audit" /\ TrailNext
       /\ UNCHANGED <<part, versionVars, deploymentVars, limiterVars, vars, catalogueVars>>
    \/ /\ part = "limiter" /\ LimiterNext
       /\ UNCHANGED <<part, versionVars, deploymentVars, trailVars, vars, catalogueVars>>
    \/ /\ part = "rag" /\ RagNext
       /\ UNCHANGED <<part, versionVars, deploymentVars, trailVars, limiterVars, catalogueVars>>
    \/ /\ part = "catalogue" /\ CatalogueNext
       /\ UNCHANGED <<part, versionVars, deploymentVars, trailVars, limiterVars, vars>>

Spec == Init /\ [][Next]_<<part, versionVars, deploymentVars, trailVars, limiterVars, vars, catalogueVars>>
=============================================================================

---------------------------- MODULE Deployments ----------------------------
(***************************************************************************)
(* Deployed chatbot pages (src/api/routers/deployments.py): a record in    *)
(* deployments.json, and a directory with the page and the settings it was *)
(* rendered from.  A page the server rendered carries the revision of its  *)
(* template, and is rendered again when it is served by a later release.   *)
(*                                                                         *)
(* No handler suspends, so each is one step.  Every file is written in     *)
(* place, deployments.json with the records of all deployments at once: a  *)
(* write that fails, or that the end of the process cuts short, leaves the *)
(* file as it was or torn.  The settings of a request are one value.       *)
(***************************************************************************)
EXTENDS Integers

CONSTANTS
    Deployments,    \* ids
    Settings,       \* what a request asks for, its frontend_html apart
    Missing,
    MaxRelease      \* bound: revisions of the template

\* What may be written for a deployment; without a stamp it is a document, or torn
\* before it.
Pages   == [settings : Settings, look : {"default", "themed", "custom", "torn"}, stamp : Nat \cup {Missing}]
Records == [settings : Settings, status : {"active", "error"}]

ASSUME DeploymentsAssumption ==
    /\ MaxRelease \in Nat \ {0}
    /\ Missing \notin Settings \cup Nat \cup Pages \cup Records

VARIABLES
    release,        \* PAGE_VERSION of the running server
    records,        \* deployments.json
    readable,       \* it parses
    page,           \* index.html of each deployment
    kept,           \* its deployment.json: the settings of the page, if that parses
    asked,          \* the page each deployment was last given (bookkeeping)
    cut             \* whether its files were left as a failure left them, and whether its
                    \* record tells so (bookkeeping)

deploymentVars == <<release, records, readable, page, kept, asked, cut>>

DeploymentsInit ==
    /\ release = 1
    /\ records = [d \in Deployments |-> Missing] /\ readable = TRUE
    /\ page  = [d \in Deployments |-> Missing]
    /\ kept  = [d \in Deployments |-> Missing]
    /\ asked = [d \in Deployments |-> Missing]
    /\ cut = [d \in Deployments |-> "no"]

-----------------------------------------------------------------------------
(* Pages                                                                   *)

\* default_chatbot_html, with the stamp of the release.
Rendered(settings) == [settings |-> settings, look |-> "default", stamp |-> release]

\* generate_chatbot_frontend: the page of the release in colours of its own,
\* or a document the model wrote, which has no stamp.
Frontends ==
    {[look |-> "themed", stamp |-> n] : n \in 1..release} \cup {[look |-> "custom", stamp |-> Missing]}

\* _render_deployment_html: the settings go into a frontend that came with
\* the request.
Made(settings, frontend) ==
    IF frontend = Missing THEN Rendered(settings)
    ELSE [settings |-> settings, look |-> frontend.look, stamp |-> frontend.stamp]

\* Fault: a page without a stamp counts as old.
OldOrForeign(p) == IF p.stamp = Missing THEN TRUE ELSE p.stamp < release

\* page_generation
Old(p) == IF p.stamp = Missing THEN FALSE ELSE p.stamp < release

-----------------------------------------------------------------------------
(* The handlers                                                            *)

Put(f, d, value) == [f EXCEPT ![d] = value]

\* What is left of a page whose writing is cut short: its stamp is at its beginning.
Torn(p) == {[p EXCEPT !.look = "torn", !.stamp = stamp] : stamp \in {p.stamp, Missing}}

\* write_text over what a file holds: done, not begun, or torn.
Written == {"whole", "kept", "torn"}

\* _save_config, after which the file holds these records.
Save(saved, new) ==
    /\ records' = (IF saved = "whole" THEN new ELSE records)
    /\ readable' = (saved # "torn")

\* flash_deploy.  A failure to write the page is recorded, one to record is not.
Flash(d, settings, frontend) ==
    /\ readable
    /\ asked' = Put(asked, d, Made(settings, frontend))
    /\ \E index, json, saved \in Written :
        /\ index # "whole" => json = "kept"
        /\ CASE index = "whole" -> page' = Put(page, d, asked'[d])
             [] index = "torn"  -> \E p \in Torn(asked'[d]) : page' = Put(page, d, p)
             [] index = "kept"  -> page' = page
        /\ kept' = CASE json = "whole" -> Put(kept, d, settings)
                     [] json = "torn"  -> Put(kept, d, Missing)
                     [] json = "kept"  -> kept
        /\ Save(saved, Put(records, d, [settings |-> settings,
                                        status |-> IF json = "whole" THEN "active" ELSE "error"]))
        /\ cut' = Put(cut, d, IF saved # "whole" THEN "untold" ELSE IF json = "whole" THEN "no" ELSE "told")
    /\ UNCHANGED release

\* Fault: the directory is only removed when the record has no error.
DeleteActive(d) ==
    /\ readable /\ records[d] # Missing
    /\ Save("whole", Put(records, d, Missing))
    /\ IF records[d].status = "active"
       THEN page' = Put(page, d, Missing) /\ kept' = Put(kept, d, Missing)
       ELSE UNCHANGED <<page, kept>>
    /\ cut' = Put(cut, d, "no")
    /\ UNCHANGED <<release, asked>>

\* delete_deployment: the record first, the directory after it.
DeleteDeployment(d) ==
    /\ readable /\ records[d] # Missing
    /\ \/ /\ Save("whole", Put(records, d, Missing))
          /\ page' \in {page, Put(page, d, Missing)} /\ kept' \in {kept, Put(kept, d, Missing)}
          /\ cut' = Put(cut, d, IF page'[d] = Missing /\ kept'[d] = Missing THEN "no" ELSE "untold")
       \/ Save("torn", records) /\ UNCHANGED <<page, kept, cut>>
    /\ UNCHANGED <<release, asked>>

\* serve_deployment_page: _refresh_page_if_stale does nothing for a page that
\* cannot be rendered, and tells nobody of one it could not write.
Serve(d) ==
    /\ page[d] # Missing
    /\ \/ UNCHANGED <<page, cut>>
       \/ /\ Old(page[d]) /\ kept[d] # Missing
          /\ \/ page' = Put(page, d, Rendered(kept[d])) /\ UNCHANGED cut
             \/ /\ \E p \in Torn(Rendered(kept[d])) : page' = Put(page, d, p)
                /\ cut' = Put(cut, d, IF cut[d] = "told" THEN "told" ELSE "untold")
    /\ UNCHANGED <<release, records, readable, kept, asked>>

\* The server is replaced by one with a newer template.
Upgrade ==
    /\ release < MaxRelease
    /\ release' = release + 1
    /\ UNCHANGED <<records, readable, page, kept, asked, cut>>

DeploymentsNext ==
    \/ Upgrade
    \/ \E d \in Deployments :
        \/ DeleteDeployment(d) \/ Serve(d)
        \/ \E settings \in Settings, frontend \in Frontends \cup {Missing} : Flash(d, settings, frontend)

DeploymentsSpec == DeploymentsInit /\ [][DeploymentsNext]_deploymentVars

-----------------------------------------------------------------------------
\* As long as deployments.json parses, a page is there exactly for a record, through
\* deployments over one another, refreshes and new releases it has the settings of
\* that record, by which the server chooses the model and the voice, and a record
\* says "error" exactly when its page could not be written (flash_deploy,
\* deployment_model_override, _refresh_page_if_stale).  The exception is a page of
\* which a failed save, a failed removal or a failed refresh told nobody.
PageAgreesWithRecord ==
    readable => \A d \in Deployments : cut[d] # "untold" =>
        IF records[d] = Missing THEN page[d] = Missing /\ cut[d] = "no"
        ELSE /\ records[d].status = "error" <=> cut[d] = "told"
             /\ records[d].status = "active" =>
                  /\ page[d] # Missing /\ page[d].look # "torn"
                  /\ page[d].settings = records[d].settings /\ kept[d] = records[d].settings

\* A document the model wrote is served as it was deployed, whatever release
\* serves it and whatever was deployed there before (page_generation).
ForeignPagesAreLeftAlone ==
    \A d \in Deployments : cut[d] = "no" /\ page[d] # Missing /\ asked[d].look = "custom" => page[d] = asked[d]

\* What is served is what was deployed, as far as the code promises it.
PagesAreAsDeployed == PageAgreesWithRecord /\ ForeignPagesAreLeftAlone

\* "Rendering is deterministic from the stored configuration, so regenerating
\* is safe": serving a page never changes how it looks.  This does not hold
\* (README, Divergences).
RegeneratingIsSafe ==
    \A d \in Deployments : cut[d] = "no" /\ page[d] # Missing => page[d].look = asked[d].look
=============================================================================

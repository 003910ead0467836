--------------------------- MODULE ConfigVersions ---------------------------
(***************************************************************************)
(* The versions of one prompt (src/config/versioned_service.py), kept by   *)
(* two sets of endpoints: those of prompts (src/api/routers/prompts.py),   *)
(* which write the prompt into a file and its versions into the database,  *)
(* and those of configurations (src/api/routers/configs.py), which write   *)
(* versions alone.                                                         *)
(*                                                                         *)
(* No handler suspends, so each is one step, of which the database or the  *)
(* file may refuse a part.  A content stands for the whole prompt, for     *)
(* what an edit of some of its fields makes of it, and for its etag: equal *)
(* contents have equal etags.                                              *)
(***************************************************************************)
EXTENDS Integers, FiniteSetsExt, Sequences, Functions

CONSTANTS
    Editors,
    Contents,
    Absent,
    MaxSnapshots,   \* max_snapshots of the service
    MaxVersions     \* bound: versions ever committed

ASSUME VersionsAssumption ==
    /\ MaxSnapshots \in Nat /\ MaxVersions \in Nat
    /\ Absent \notin Contents

VARIABLES
    prompt,         \* the prompt in prompt_templates.json
    snapshots,      \* its rows in config_snapshots: from version to content
    held,           \* what each editor was last shown, with its tokens
    committed,      \* the content of every version committed (bookkeeping)
    split,          \* file and versions were last written apart (bookkeeping)
    admitted        \* the last edit that a token let through (bookkeeping)

versionVars == <<prompt, snapshots, held, committed, split, admitted>>

Tokens == {"none", "version", "etag"}

VersionsInit ==
    /\ prompt \in Contents \cup {Absent}
    /\ snapshots = <<>> /\ committed = <<>>
    /\ held = [e \in Editors |-> Absent]
    /\ split = FALSE
    /\ admitted = Absent

-----------------------------------------------------------------------------
(* VersionedConfigService                                                  *)

Latest == Max(DOMAIN snapshots)
Has == DOMAIN snapshots # {}

\* Fault: the newest rows go instead of the oldest.
RetainedNewest(versions) ==
    LET spare == Max({Cardinality(versions) - MaxSnapshots, 0})
    IN  {v \in versions : Cardinality({w \in versions : w > v}) >= spare}

\* _apply_retention_policy: what it leaves of the rows it sees.  The new row
\* is not among them, as the database session does not flush by itself.
Retained(versions) ==
    LET spare == Max({Cardinality(versions) - MaxSnapshots, 0})
    IN  {v \in versions : Cardinality({w \in versions : w < v}) >= spare}

Commit(content) ==
    LET new == IF Has THEN Latest + 1 ELSE 1
    IN  /\ Len(committed) < MaxVersions
        /\ snapshots' = [v \in Retained(DOMAIN snapshots) \cup {new} |-> IF v = new THEN content ELSE snapshots[v]]
        /\ committed' = Append(committed, content)

\* Fault: any etag of a row that is kept passes.
MatchesSome(e, token) ==
    IF token = "none" \/ ~Has THEN TRUE
    ELSE \E v \in DOMAIN snapshots : IF token = "version" THEN held[e].version = v ELSE held[e].etag = snapshots[v]

\* The comparison of the token with the current version; a first version
\* is created whatever the token.
Matches(e, token) ==
    IF token = "none" \/ ~Has THEN TRUE
    ELSE IF token = "version" THEN held[e].version = Latest ELSE held[e].etag = snapshots[Latest]

\* update_config, when it finds no conflict.
Update(e, content, token) ==
    /\ Matches(e, token)
    /\ Commit(content)
    /\ admitted' = IF token = "none" \/ ~Has THEN admitted
                   ELSE [shown |-> held[e].shown, replaced |-> snapshots[Latest], apart |-> held[e].apart]

\* An editor sends back a token it was given.
Sends(e, token) ==
    IF token = "none" THEN TRUE ELSE held[e] # Absent /\ held[e].version # Absent

\* What a response shows, with the tokens of a version.
Shown(content, version, etag) ==
    [shown |-> content, version |-> version, etag |-> etag, apart |-> etag # content]
Answer(e, content) == held' = [held EXCEPT ![e] = Shown(content, Len(committed'), content)]
Bare(e, content)   == held' = [held EXCEPT ![e] = Shown(content, Absent, Absent)]

-----------------------------------------------------------------------------
(* The endpoints of configurations                                         *)

GetConfig(e) ==
    /\ Has
    /\ held' = [held EXCEPT ![e] = Shown(snapshots[Latest], Latest, snapshots[Latest])]
    /\ UNCHANGED <<prompt, snapshots, committed, split, admitted>>

UpdateConfig(e, content, token) ==
    /\ Sends(e, token)
    /\ Update(e, content, token)
    /\ split' = TRUE
    /\ Answer(e, content)
    /\ UNCHANGED prompt

RollbackConfig(e, target) ==
    /\ target \in DOMAIN snapshots
    /\ Commit(snapshots[target])
    /\ split' = TRUE
    /\ Answer(e, snapshots[target])
    /\ UNCHANGED <<prompt, admitted>>

-----------------------------------------------------------------------------
(* The endpoints of prompts.  The versioned service counts as available    *)
(* when its table can be found at that moment.                             *)

GetPrompt(e, available) ==
    /\ prompt # Absent
    /\ IF available /\ Has THEN held' = [held EXCEPT ![e] = Shown(prompt, Latest, snapshots[Latest])]
       ELSE Bare(e, prompt)
    /\ UNCHANGED <<prompt, snapshots, committed, split, admitted>>

\* The prompt is written to the file first, its version after it.
CreatePrompt(e, content, available) ==
    /\ prompt = Absent
    /\ prompt' = content
    /\ \/ /\ available
          /\ Update(e, content, "none")
          /\ split' = FALSE
          /\ Answer(e, content)
       \/ /\ ~available
          /\ split' = Has
          /\ Bare(e, content)
          /\ UNCHANGED <<snapshots, committed, admitted>>
       \/ /\ available      \* the version is not stored, and the call fails
          /\ split' = Has
          /\ UNCHANGED <<snapshots, held, committed, admitted>>

\* Fault: the file is saved before the token is looked at.
SaveFirst(e, content, token, available) ==
    /\ prompt # Absent
    /\ Sends(e, token)
    /\ prompt' = content
    /\ IF available /\ Matches(e, token)
       THEN /\ Update(e, content, token)
            /\ split' = FALSE
            /\ Answer(e, content)
       ELSE /\ split' = (IF available THEN split ELSE Has)
            /\ UNCHANGED <<snapshots, held, committed, admitted>>

\* The version is stored first, if the token passes, and the file after it.
UpdatePrompt(e, content, token, available) ==
    /\ prompt # Absent
    /\ Sends(e, token)
    /\ \/ /\ available
          /\ Update(e, content, token)
          /\ prompt' = content
          /\ split' = FALSE
          /\ Answer(e, content)
       \/ /\ available      \* the file cannot be written, and the call fails
          /\ Update(e, content, token)
          /\ split' = TRUE
          /\ UNCHANGED <<prompt, held>>
       \/ /\ ~available
          /\ prompt' = content
          /\ split' = Has
          /\ Bare(e, content)
          /\ UNCHANGED <<snapshots, committed, admitted>>

\* The versions stay, and a new prompt of that name carries them on.
DeletePrompt ==
    /\ prompt # Absent
    /\ prompt' = Absent
    /\ UNCHANGED <<snapshots, held, committed, split, admitted>>

VersionsNext ==
    \/ DeletePrompt
    \/ \E e \in Editors :
        \/ GetConfig(e)
        \/ \E v \in DOMAIN snapshots : RollbackConfig(e, v)
        \/ \E available \in BOOLEAN :
            \/ GetPrompt(e, available)
            \/ \E content \in Contents :
                \/ CreatePrompt(e, content, available)
                \/ \E token \in Tokens : UpdatePrompt(e, content, token, available)
        \/ \E content \in Contents, token \in Tokens : UpdateConfig(e, content, token)

VersionsSpec == VersionsInit /\ [][VersionsNext]_versionVars

-----------------------------------------------------------------------------
\* An edit that its token lets through replaces what its editor was shown,
\* however many others wrote, rolled back, deleted and created in between
\* (update_config), unless it was shown a prompt of the file with the tokens
\* of a version that has another content.
TokensProtectTheRead ==
    admitted # Absent /\ ~admitted.apart => admitted.replaced = admitted.shown

\* The rows are the last versions without a gap, one more than max_snapshots
\* of them if there were so many, each with the content it was committed
\* with: retention and rollback neither lose nor renumber a version
\* (_apply_retention_policy, rollback_config).
HistoryIsTheLastVersions ==
    /\ DOMAIN snapshots = {v \in DOMAIN committed : v >= Len(committed) - MaxSnapshots}
    /\ \A v \in DOMAIN snapshots : snapshots[v] = committed[v]

\* The prompt in the file is its latest version, unless a write reached only
\* one of the two since (create_prompt, update_prompt).
PromptIsItsLatestVersion ==
    prompt # Absent /\ Has /\ ~split => prompt = snapshots[Latest]

\* The rows, their history, the file and the tokens of the editors fit
\* together.
VersionsAreCoherent == HistoryIsTheLastVersions /\ PromptIsItsLatestVersion /\ TokensProtectTheRead

\* "Maximum number of snapshots to retain per config": there are never more
\* rows than max_snapshots.  This does not hold (README, Divergences).
SnapshotsWithinLimit == Cardinality(DOMAIN snapshots) <= MaxSnapshots
=============================================================================

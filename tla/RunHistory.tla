----------------------------- MODULE RunHistory -----------------------------
(***************************************************************************)
(* The run history: the workflow_runs table behind RunStore                *)
(* (src/infrastructure/database/run_store.py) and the part of              *)
(* SessionManager that writes it and trims it (_finish_run_record).        *)
(*                                                                         *)
(* A row is the run it records and its status.  The table is kept in the   *)
(* order of started_at, oldest first.  Every action is one database        *)
(* transaction, with the bookkeeping that goes with it; SessionManager     *)
(* says which thread performs it and when.                                 *)
(***************************************************************************)
EXTENDS Integers, SequencesExt

CONSTANTS
    HistoryLimit,   \* settings.app.run_history_limit (ge=0)
    PruneEvery,     \* _PRUNE_EVERY
    StoreMayFail    \* whether a transaction may raise (the database is down)

ASSUME HistoryAssumption ==
    /\ HistoryLimit \in Nat
    /\ PruneEvery \in Nat \ {0}
    /\ StoreMayFail \in BOOLEAN

VARIABLES
    rows,           \* workflow_runs
    sincePrune      \* SessionManager._runs_since_prune

historyVars == <<rows, sincePrune>>

Statuses == {"running", "succeeded", "failed"}

OnRecord(r)    == \E i \in DOMAIN rows : rows[i].run = r
StatusOf(r)    == rows[CHOOSE i \in DOMAIN rows : rows[i].run = r].status
WithStatus(st) == {rows[i].run : i \in {j \in DOMAIN rows : rows[j].status = st}}

HistoryInit ==
    /\ rows = <<>>
    /\ sincePrune = 0

\* RunStore.start
StartRow(r) ==
    /\ rows' = Append(rows, [run |-> r, status |-> "running"])
    /\ UNCHANGED sincePrune

\* RunStore.prune(keep): all but the newest `keep` rows go, whatever their status.
KeepNewest(keep, table) ==
    SubSeq(table, IF Len(table) > keep THEN Len(table) - keep + 1 ELSE 1, Len(table))

Finished(r, st) ==
    [i \in DOMAIN rows |-> IF rows[i].run = r THEN [rows[i] EXCEPT !.status = st] ELSE rows[i]]

\* Faults: the counter is never reset, or the table never trimmed.
CountForEver    == sincePrune' = sincePrune + 1
TrimNone(table) == rows' = table

\* One more run is finished; every PruneEvery of them the table is to be trimmed.
\* The statements on the counter hold no call at which threads could switch.
TrimDue  == sincePrune + 1 >= PruneEvery
CountOne == sincePrune' = IF TrimDue THEN 0 ELSE sincePrune + 1

\* The trimming, which may fail when the counter is reset already.
Trim(table) ==
    \/ rows' = KeepNewest(HistoryLimit, table)
    \/ StoreMayFail /\ rows' = table

\* Nothing is written: the transaction raised, and the exception is logged.
StoreFails == StoreMayFail /\ UNCHANGED historyVars

\* _finish_run_record on the event loop thread: RunStore.finish and the
\* trimming in one stretch.  A row that is gone makes finish raise KeyError.
FinishRow(r, st) ==
    \/ /\ OnRecord(r)
       /\ CountOne
       /\ IF TrimDue THEN Trim(Finished(r, st)) ELSE rows' = Finished(r, st)
    \/ ~OnRecord(r) /\ UNCHANGED historyVars
    \/ StoreFails

\* The same call in a worker thread: other transactions come between the two.
CommitRow(r, st) ==
    /\ OnRecord(r)
    /\ rows' = Finished(r, st)
    /\ UNCHANGED sincePrune

\* RunStore.delete, from DELETE /runs/{id}: a running row may go, too.  The run is
\* the primary key.
DeleteRow(r) ==
    \E i \in DOMAIN rows :
        /\ rows[i].run = r
        /\ rows' = RemoveAt(rows, i)
        /\ UNCHANGED sincePrune

\* Fault: the rows of finished runs are failed as well.
FailEveryRow == [i \in DOMAIN rows |-> [rows[i] EXCEPT !.status = "failed"]]

\* RunStore.mark_interrupted
FailRunningRows ==
    [i \in DOMAIN rows |-> IF rows[i].status = "running"
                           THEN [rows[i] EXCEPT !.status = "failed"] ELSE rows[i]]

\* A new process: the counter starts at zero and the lifespan handler marks the
\* interrupted runs, or logs that it could not.
ReopenHistory ==
    /\ sincePrune' = 0
    /\ \/ rows' = FailRunningRows
       \/ StoreMayFail /\ UNCHANGED rows
=============================================================================

--------------------------- MODULE SessionManager ---------------------------
(***************************************************************************)
(* SessionManager.process_message (src/api/session_manager.py) with all    *)
(* that happens around it: the slots (RunSlots), the run history           *)
(* (RunHistory), the sessions and their file (SessionStore), the worker    *)
(* threads asyncio.to_thread runs the blocking work on, the requests that  *)
(* arrive meanwhile, cancellation, and a crash with its restart.           *)
(*                                                                         *)
(* A call awaits at most one thread at a time: the one that opens its row, *)
(* the one that runs the crew, the one that closes the row.  Cancelling    *)
(* the call withdraws a job no thread has taken; a job that runs goes on,  *)
(* and nobody waits for it any more.                                       *)
(*                                                                         *)
(* Actions of the event loop are the stretches of the coroutine between    *)
(* two suspension points, each with everything it does.                    *)
(***************************************************************************)
EXTENDS RunSlots, RunHistory, SessionStore

CONSTANTS
    SessionOf,      \* the session each call addresses
    WorkflowFor,    \* the workflow of each session
    Removable,      \* the workflows that may be unregistered
    MaxTurns,       \* max_turns of the calls; 0: not given
    PoolSize,       \* threads of the default executor
    Impatient,      \* bound: the calls that may be cancelled
    Erasable,       \* bound: the calls whose rows a user may delete
    MaxCrashes,     \* bound: crashes of the process
    MaxVoice,       \* bound: turns of a session a spoken exchange may add to
    TornWrites      \* whether a crash may come while sessions.json is written

ASSUME ManagerAssumption ==
    /\ SessionOf \in [Runs -> Sessions]
    /\ WorkflowFor \in [Sessions -> Workflows]
    /\ \A r \in Runs : WorkflowOf[r] = WorkflowFor[SessionOf[r]]
    /\ Removable \subseteq Workflows /\ Impatient \subseteq Runs /\ Erasable \subseteq Runs
    /\ MaxTurns \in Nat /\ MaxCrashes \in Nat /\ MaxVoice \in Nat
    /\ PoolSize \in Nat \ {0}
    /\ TornWrites \in BOOLEAN

VARIABLES
    call,           \* where each call of process_message stands
    recorded,       \* whether `record` of the call is not None
    job,            \* the blocking work of each call
    registered,     \* the workflows in the registry
    crashes

managerVars == <<call, recorded, job, registered, crashes>>
vars == <<slotVars, historyVars, storeVars, managerVars>>

\* "opening", "executing" and "closing" are the three awaits of process_message.
Live  == {"opening", "executing", "closing"}
Ended == {"rejected", "limited", "replied", "failed", "cancelled", "lost"}

Job(what, at) == [what |-> what, at |-> at]
NoJob == Job("none", "none")
Jobs  == {NoJob} \cup [what : {"open", "crew"}, at : {"queued", "running", "done", "raised"}]
                 \cup [what : {"close"}, at : {"queued", "running", "committed", "trimming", "done"}]

Working == {r \in Runs : job[r].at \in {"running", "committed", "trimming"}}

\* The future of a cancelled to_thread call: only a job in the queue is withdrawn.
Abandon(r) == job' = [job EXCEPT ![r] = IF r \in Working THEN @ ELSE NoJob]

Become(r, state) == call' = [call EXCEPT ![r] = state]
Hand(r, what)    == job' = [job EXCEPT ![r] = Job(what, "queued")]

-----------------------------------------------------------------------------
ManagerInit ==
    /\ SlotInit /\ HistoryInit /\ StoreInit
    /\ call = [r \in Runs |-> "idle"]
    /\ recorded = [r \in Runs |-> FALSE]
    /\ job = [r \in Runs |-> NoJob]
    /\ registered = Workflows
    /\ crashes = 0

-----------------------------------------------------------------------------
(* Requests                                                                *)

Create(s) ==
    /\ WorkflowFor[s] \in registered
    /\ CreateSession(s)
    /\ UNCHANGED <<slotVars, historyVars, managerVars>>

Delete(s) ==
    /\ DeleteSession(s)
    /\ UNCHANGED <<slotVars, historyVars, managerVars>>

Speak(s) ==
    /\ sess[s].turns < MaxVoice
    /\ SpeakTurn(s)
    /\ UNCHANGED <<slotVars, historyVars, managerVars>>

DeleteRun(r) ==
    /\ DeleteRow(r)
    /\ UNCHANGED <<slotVars, storeVars, managerVars>>

RemoveWorkflow(w) ==
    /\ w \in registered \cap Removable
    /\ registered' = registered \ {w}
    /\ UNCHANGED <<slotVars, historyVars, storeVars, call, recorded, job, crashes>>

\* The call enters `async with self._run_slot`: with a permit it hands its work
\* to the crew thread in the same stretch, without one it queues.
EnterSlot(r) ==
    /\ Become(r, "executing")
    /\ \/ EnterFree(r) /\ Hand(r, "crew")
       \/ EnterBusy(r) /\ job' = [job EXCEPT ![r] = NoJob]

Acceptable(r) ==
    /\ SessionOf[r] \in listed
    /\ sess[SessionOf[r]].active
    /\ WorkflowFor[SessionOf[r]] \in registered

\* Fault: the limit is compared with the turns before this one.
OverLimitLate(r) == MaxTurns > 0 /\ sess[SessionOf[r]].turns > MaxTurns

OverLimit(r) == MaxTurns > 0 /\ sess[SessionOf[r]].turns + 1 > MaxTurns

\* process_message up to its first suspension point.
Submit(r) ==
    /\ call[r] = "idle"
    /\ UNCHANGED <<historyVars, recorded, registered, crashes>>
    /\ \/ /\ ~Acceptable(r)
          /\ Become(r, "rejected")
          /\ UNCHANGED <<slotVars, storeVars, job>>
       \/ /\ Acceptable(r) /\ OverLimit(r)
          /\ RefuseMessage(SessionOf[r], r)
          /\ Become(r, "limited")
          /\ UNCHANGED <<slotVars, job>>
       \/ /\ Acceptable(r) /\ ~OverLimit(r)
          /\ TakeMessage(SessionOf[r], r)
          /\ IF HistoryLimit > 0
             THEN Become(r, "opening") /\ Hand(r, "open") /\ UNCHANGED slotVars
             ELSE EnterSlot(r)

-----------------------------------------------------------------------------
(* Worker threads                                                          *)

JobStep(r, from, to) ==
    /\ job[r] = from
    /\ job' = [job EXCEPT ![r] = to]
    /\ UNCHANGED <<slotVars, storeVars, call, recorded, registered, crashes>>

TakeJob(r) ==
    /\ Cardinality(Working) < PoolSize
    /\ JobStep(r, Job(job[r].what, "queued"), Job(job[r].what, "running"))
    /\ UNCHANGED historyVars

OpenRow(r) ==
    \/ JobStep(r, Job("open", "running"), Job("open", "done")) /\ StartRow(r)
    \/ JobStep(r, Job("open", "running"), Job("open", "raised")) /\ StoreFails

\* The crew's kickoff returns a result or the runtime raises.
RunCrew(r) ==
    \E end \in {"done", "raised"} :
        /\ JobStep(r, Job("crew", "running"), Job("crew", end))
        /\ UNCHANGED historyVars

\* Fault: the thread of a row that is gone never finishes.
CloseRowIfThere(r) ==
    /\ CommitRow(r, "succeeded")
    /\ JobStep(r, Job("close", "running"), Job("close", "committed"))

CloseRow(r) ==
    \/ /\ CommitRow(r, "succeeded")
       /\ JobStep(r, Job("close", "running"), Job("close", "committed"))
    \/ /\ UNCHANGED historyVars
       /\ ~OnRecord(r) \/ StoreMayFail
       /\ JobStep(r, Job("close", "running"), Job("close", "done"))

CountRun(r) ==
    /\ CountOne
    /\ UNCHANGED rows
    /\ JobStep(r, Job("close", "committed"), Job("close", IF TrimDue THEN "trimming" ELSE "done"))

TrimTable(r) ==
    /\ Trim(rows)
    /\ UNCHANGED sincePrune
    /\ JobStep(r, Job("close", "trimming"), Job("close", "done"))

-----------------------------------------------------------------------------
(* The event loop: a call resumes                                          *)

\* The row is open, or the store failed and the run goes ahead unrecorded.
Opened(r) ==
    /\ call[r] = "opening" /\ job[r].at \in {"done", "raised"}
    /\ recorded' = [recorded EXCEPT ![r] = job[r].at = "done"]
    /\ EnterSlot(r)
    /\ UNCHANGED <<historyVars, storeVars, registered, crashes>>

SlotGranted(r) ==
    /\ Resume(r)
    /\ Hand(r, "crew")
    /\ UNCHANGED <<historyVars, storeVars, call, recorded, registered, crashes>>

\* The crew returned: the call leaves its slot, keeps the answer and saves it.
Reply(r) ==
    /\ call[r] = "executing" /\ job[r] = Job("crew", "done")
    /\ Leave(r)
    /\ AnswerMessage(SessionOf[r], r)
    /\ IF recorded[r] THEN Become(r, "closing") /\ Hand(r, "close")
                      ELSE Become(r, "replied") /\ job' = [job EXCEPT ![r] = NoJob]
    /\ UNCHANGED <<historyVars, recorded, registered, crashes>>

\* Fault: the exception passes by and the row stays as it was opened.
LeaveRowOpen(r, state) ==
    /\ Become(r, state)
    /\ UNCHANGED <<historyVars, storeVars, recorded, registered, crashes>>

\* `except BaseException`: the row is closed on the loop's own thread.
CloseFailed(r, state) ==
    /\ IF recorded[r] THEN FinishRow(r, "failed") ELSE UNCHANGED historyVars
    /\ Become(r, state)
    /\ UNCHANGED <<storeVars, recorded, registered, crashes>>

Fail(r) ==
    /\ call[r] = "executing" /\ job[r] = Job("crew", "raised")
    /\ Leave(r)
    /\ job' = [job EXCEPT ![r] = NoJob]
    /\ CloseFailed(r, "failed")

Closed(r) ==
    /\ call[r] = "closing" /\ job[r] = Job("close", "done")
    /\ Become(r, "replied")
    /\ job' = [job EXCEPT ![r] = NoJob]
    /\ UNCHANGED <<slotVars, historyVars, storeVars, recorded, registered, crashes>>

-----------------------------------------------------------------------------
(* The event loop: a call is cancelled (a timeout, a client that went)     *)

\* While its row is opened or closed: neither await is inside a try statement.
CancelUnguarded(r) ==
    /\ call[r] \in {"opening", "closing"}
    /\ Abandon(r)
    /\ Become(r, "cancelled")
    /\ UNCHANGED <<slotVars, historyVars, storeVars, recorded, registered, crashes>>

\* While it queues for its slot: the cancellation, and the stretch in which the
\* call leaves the queue.
CancelWaiting(r) ==
    /\ CancelQueued(r)
    /\ UNCHANGED <<historyVars, storeVars, managerVars>>

Withdraw(r) ==
    /\ Unwind(r)
    /\ UNCHANGED job
    /\ CloseFailed(r, "cancelled")

\* Fault: the slot of a cancelled run is not given back.
CancelKeepingSlot(r) ==
    /\ call[r] = "executing" /\ phase[r] = "inside"
    /\ phase' = [phase EXCEPT ![r] = "outside"]
    /\ UNCHANGED <<permits, waiters, waitingRuns, activeRuns>>
    /\ Abandon(r)
    /\ CloseFailed(r, "cancelled")

\* While the crew works: the slot is free at once, the thread is not.
CancelRunning(r) ==
    /\ call[r] = "executing" /\ phase[r] = "inside"
    /\ Leave(r)
    /\ Abandon(r)
    /\ CloseFailed(r, "cancelled")

-----------------------------------------------------------------------------
\* The process dies and a new one starts.
Crash ==
    /\ crashes < MaxCrashes
    /\ crashes' = crashes + 1
    /\ Restart
    /\ ReopenHistory
    /\ \E file \in {disk} \cup (IF TornWrites THEN {EmptyFile} ELSE {}) : LoadSessions(file)
    /\ call' = [r \in Runs |-> IF call[r] \in Live THEN "lost" ELSE call[r]]
    /\ job' = [r \in Runs |-> NoJob]
    /\ UNCHANGED <<recorded, registered>>

CallStep(r) ==
    \/ Opened(r) \/ SlotGranted(r) \/ Reply(r) \/ Fail(r) \/ Closed(r) \/ Withdraw(r)
ThreadStep(r) ==
    \/ TakeJob(r) \/ OpenRow(r) \/ RunCrew(r) \/ CloseRow(r) \/ CountRun(r)
    \/ TrimTable(r)

ManagerNext ==
    \/ \E s \in Sessions : Create(s) \/ Delete(s) \/ Speak(s)
    \/ \E w \in Workflows : RemoveWorkflow(w)
    \/ \E r \in Runs :
        \/ Submit(r)
        \/ r \in Erasable /\ DeleteRun(r)
        \/ r \in Impatient /\ (CancelUnguarded(r) \/ CancelWaiting(r) \/ CancelRunning(r))
        \/ CallStep(r)
        \/ ThreadStep(r)
    \/ Crash

ManagerSpec == ManagerInit /\ [][ManagerNext]_vars

(* The event loop runs what is ready, the executor's threads take jobs and *)
(* finish them, a kickoff returns.  Requests, cancellations and crashes    *)
(* need not happen.                                                        *)
ManagerFairness ==
    \A r \in Runs : WF_vars(CallStep(r)) /\ WF_vars(ThreadStep(r))

FairManagerSpec == ManagerSpec /\ ManagerFairness

-----------------------------------------------------------------------------
(* Properties *)

Says(session, role, r) == \E i \in DOMAIN session.log : session.log[i] = <<role, r>>
Answered(session)      == {r \in Runs : Says(session, "assistant", r)}

\* Every variable has its type.
ManagerTypeOK ==
    /\ call \in [Runs -> Live \cup Ended \cup {"idle"}]
    /\ recorded \in [Runs -> BOOLEAN]
    /\ job \in [Runs -> Jobs]
    /\ registered \subseteq Workflows
    /\ listed \subseteq made /\ gone \subseteq made /\ made \subseteq Sessions /\ DOMAIN disk \subseteq Sessions
    /\ sincePrune \in 0..(PruneEvery - 1)
    /\ \A i \in DOMAIN rows : rows[i].run \in Runs /\ rows[i].status \in Statuses

\* The history agrees with what happened to the call, through cancellation,
\* trimming, deletion and restarts: a caller that got its answer never finds
\* its run failed or running, a run under way is not recorded as over, and a
\* run recorded as succeeded has its answer in the session.
HistoryAgreesWithCalls ==
    \A r \in Runs : OnRecord(r) =>
        /\ call[r] = "replied" => StatusOf(r) = "succeeded"
        /\ call[r] = "failed" => StatusOf(r) = "failed"
        /\ call[r] \in {"opening", "executing"} => StatusOf(r) = "running"
        /\ StatusOf(r) = "succeeded" => r \in Answered(sess[SessionOf[r]])

\* A run has one row at most, and an outcome once recorded is never rewritten:
\* not by a late cancellation, not by the marking of interrupted runs.
OutcomesAreFinal ==
    [][\A i \in DOMAIN rows, j \in DOMAIN rows' :
          rows[i].run = rows'[j].run /\ rows[i].status # "running" => rows'[j] = rows[i]]_vars

\* What the caller was told survives: an answer that was delivered is in
\* sessions.json, after the question, until the session is deleted.
DeliveredIsDurable ==
    \A r \in Runs : call[r] = "replied" =>
        \/ SessionOf[r] \in gone
        \/ /\ SessionOf[r] \in DOMAIN disk
           /\ \E i, j \in DOMAIN disk[SessionOf[r]].log :
                 /\ i < j
                 /\ disk[SessionOf[r]].log[i] = <<"user", r>>
                 /\ disk[SessionOf[r]].log[j] = <<"assistant", r>>

\* The file never runs ahead of memory or apart from it: what it holds of a
\* listed session is a prefix of what memory holds.
FileFollowsMemory ==
    \A s \in DOMAIN disk \cap listed :
        /\ IsPrefix(disk[s].log, sess[s].log)
        /\ disk[s].turns <= sess[s].turns

\* A deleted session does not come back, in memory or in the file, although
\* calls still under way hold its object, answer on it and save.
DeletedStaysDeleted ==
    gone \cap (listed \cup DOMAIN disk) = {}

\* turn_count is the number of typed messages and spoken exchanges in the log,
\* in memory and in the file, whatever was interleaved or interrupted.
TurnsCountMessages ==
    LET Turns(session) == Cardinality({i \in DOMAIN session.log :
                                          session.log[i][1] \in {"user", "voice"}})
    IN  /\ \A s \in Sessions : sess[s].turns = Turns(sess[s])
        /\ \A s \in DOMAIN disk : disk[s].turns = Turns(disk[s])

\* A session gives at most MaxTurns answers, though its calls run concurrently
\* and answer in any order.
TurnLimitHolds ==
    MaxTurns > 0 => \A s \in Sessions : Cardinality(Answered(sess[s])) <= MaxTurns

\* The count is right and the limit it is compared with holds.
TurnsAreExact == TurnsCountMessages /\ TurnLimitHolds

HistoryBound ==
    LET Trimming  == {r \in Runs : job[r] = Job("close", "trimming")}
        Uncounted == {r \in WithStatus("running") \cup Working : OnRecord(r)}
    IN  HistoryLimit + (PruneEvery - 1) + Cardinality(Uncounted)
            + PruneEvery * Cardinality(Trimming)

\* While the process lives, the table outgrows its limit by no more than the
\* runs not yet counted, the PruneEvery - 1 that wait for the next trimming, and
\* those of the trimmings under way.
HistoryIsTrimmed == crashes = 0 => Len(rows) <= HistoryBound

\* The history tells what happened, of no more runs than it should.
HistoryIsKept == HistoryAgreesWithCalls /\ HistoryIsTrimmed

\* Every accepted call ends: nobody waits for a slot, a thread or a row for ever,
\* whichever calls are cancelled.
EveryCallEnds == \A r \in Runs : call[r] \in Live ~> call[r] \in Ended

-----------------------------------------------------------------------------
(* What the documentation says and the code does not do                    *)

\* "Runs of one workflow that execute at once" (README, DELAXIS_MAX_CONCURRENT_RUNS):
\* at most MaxConcurrent crews of a workflow execute.  A cancelled run frees its
\* slot while its crew's thread works on.
WorkersWithinLimit ==
    \A w \in Workflows :
        Cardinality({r \in Working : job[r].what = "crew" /\ WorkflowOf[r] = w}) <= MaxConcurrent

\* "a running row belongs to a process that stopped mid-run" (mark_interrupted):
\* the runs a new process marks as interrupted were under way.  A call that was
\* cancelled while its row was opened or closed leaves a running row behind.
InterruptedRunsWereLive ==
    [][crashes' # crashes => \A r \in WithStatus("running") : call[r] \in Live]_vars
=============================================================================

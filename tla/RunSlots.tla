------------------------------ MODULE RunSlots ------------------------------
(***************************************************************************)
(* Admission of workflow runs, the part of SessionManager that bounds how  *)
(* many runs of one workflow execute at a time (_run_slot and run_status   *)
(* in src/api/session_manager.py).  Each workflow has one                  *)
(* asyncio.Semaphore; a run that finds no permit queues on it, and two     *)
(* counters per workflow, read by GET /topologies/{id}/status, follow the  *)
(* queue and the runs inside.                                              *)
(*                                                                         *)
(* A run is one execution of the body of `async with self._run_slot(...)`. *)
(* The whole component runs on one event loop, so each action is a stretch *)
(* of code between two suspension points.  A task can be cancelled at the  *)
(* one suspension point of the entry (a queued run), and between the       *)
(* moment its permit is handed over and the moment it resumes.             *)
(*                                                                         *)
(* asyncio.Semaphore is not part of the repository: its operations are     *)
(* modelled from the CPython implementation the code runs on.              *)
(***************************************************************************)
EXTENDS Integers, SequencesExt

CONSTANTS
    Runs,           \* the calls that may want a slot
    Workflows,      \* workflow ids
    WorkflowOf,     \* the workflow each run belongs to
    MaxConcurrent   \* settings.app.max_concurrent_runs_per_workflow (ge=1)

ASSUME SlotsAssumption ==
    /\ IsFiniteSet(Runs)
    /\ WorkflowOf \in [Runs -> Workflows]
    /\ MaxConcurrent \in Nat \ {0}

VARIABLES
    phase,        \* where each run stands with respect to its slot
    permits,      \* Semaphore._value of each workflow
    waiters,      \* Semaphore._waiters of each workflow, oldest first
    waitingRuns,  \* SessionManager._waiting_runs
    activeRuns    \* SessionManager._active_runs

slotVars == <<phase, permits, waiters, waitingRuns, activeRuns>>

\* "pending": queued, its future not done.      "granted": future has a result.
\* "dropped": queued, then the task cancelled.  "revoked": granted, then cancelled.
Queued == {"pending", "granted", "dropped", "revoked"}
Phases == Queued \cup {"outside", "inside"}

InPhase(w, P) == {r \in Runs : WorkflowOf[r] = w /\ phase[r] \in P}
Pending(w)    == InPhase(w, {"pending"})

-----------------------------------------------------------------------------
(* asyncio.Semaphore *)
(* An operator introduced as a fault is the wrong version of the definition *)
(* below it.  No specification uses it: it is there to be swapped in, to see *)
(* that a property notices.                                                 *)

\* Fault: the queue is looked at and the permits are forgotten.
LockedByQueueOnly(w) ==
    \E i \in DOMAIN waiters[w] : phase[waiters[w][i]] # "dropped"

\* Semaphore.locked(): no permit, or somebody queued who was not cancelled.
Locked(w) ==
    \/ permits[w] = 0
    \/ \E i \in DOMAIN waiters[w] : phase[waiters[w][i]] # "dropped"

Ahead(w, q, r) ==
    \E i, j \in DOMAIN waiters[w] :
        i < j /\ waiters[w][i] = q /\ waiters[w][j] = r

\* Fault: the newest waiter is woken first.
NewestIsWoken(w, n, S) ==
    /\ S \subseteq Pending(w)
    /\ Cardinality(S) <= n
    /\ Cardinality(S) = n \/ S = Pending(w)
    /\ \A r \in S, q \in Pending(w) \ S : Ahead(w, q, r)

\* S are the runs that up to n calls of _wake_up_next hand a permit to: the n
\* longest-waiting runs whose future is not done, or all of them.
IsWoken(w, n, S) ==
    /\ S \subseteq Pending(w)
    /\ Cardinality(S) <= n
    /\ Cardinality(S) = n \/ S = Pending(w)
    /\ \A r \in S, q \in Pending(w) \ S : Ahead(w, r, q)

\* r moves to phase p while the runs of S are handed a permit.
Move(r, p, S) ==
    phase' = [q \in Runs |-> IF q = r THEN p
                             ELSE IF q \in S THEN "granted" ELSE phase[q]]

\* _waiters.remove(fut)
Dequeue(w, r) ==
    waiters' = [waiters EXCEPT ![w] =
                    RemoveAt(@, CHOOSE i \in DOMAIN @ : @[i] = r)]

-----------------------------------------------------------------------------
SlotInit ==
    /\ phase = [r \in Runs |-> "outside"]
    /\ permits = [w \in Workflows |-> MaxConcurrent]
    /\ waiters = [w \in Workflows |-> <<>>]
    /\ waitingRuns = [w \in Workflows |-> 0]
    /\ activeRuns = [w \in Workflows |-> 0]

\* acquire() with a free permit does not suspend: the run is inside at once,
\* and _waiting_runs is incremented and decremented in the same stretch.
EnterFree(r) ==
    LET w == WorkflowOf[r] IN
    /\ phase[r] = "outside"
    /\ ~Locked(w)
    /\ permits' = [permits EXCEPT ![w] = @ - 1]
    /\ activeRuns' = [activeRuns EXCEPT ![w] = @ + 1]
    /\ phase' = [phase EXCEPT ![r] = "inside"]
    /\ UNCHANGED <<waiters, waitingRuns>>

EnterBusy(r) ==
    LET w == WorkflowOf[r] IN
    /\ phase[r] = "outside"
    /\ Locked(w)
    /\ waiters' = [waiters EXCEPT ![w] = Append(@, r)]
    /\ waitingRuns' = [waitingRuns EXCEPT ![w] = @ + 1]
    /\ phase' = [phase EXCEPT ![r] = "pending"]
    /\ UNCHANGED <<permits, activeRuns>>

\* Fault: the resumed run wakes nobody.
ResumeWithoutWaking(r) ==
    LET w == WorkflowOf[r] IN
    /\ phase[r] = "granted"
    /\ Move(r, "inside", {})
    /\ Dequeue(w, r)
    /\ waitingRuns' = [waitingRuns EXCEPT ![w] = @ - 1]
    /\ activeRuns' = [activeRuns EXCEPT ![w] = @ + 1]
    /\ UNCHANGED permits

\* The task resumes with its permit: it leaves the deque, wakes as many others
\* as there are permits left, and goes inside.
Resume(r) ==
    LET w == WorkflowOf[r] IN
    /\ phase[r] = "granted"
    /\ \E S \in SUBSET Pending(w) :
        /\ IsWoken(w, permits[w], S)
        /\ permits' = [permits EXCEPT ![w] = @ - Cardinality(S)]
        /\ Move(r, "inside", S)
    /\ Dequeue(w, r)
    /\ waitingRuns' = [waitingRuns EXCEPT ![w] = @ - 1]
    /\ activeRuns' = [activeRuns EXCEPT ![w] = @ + 1]

\* task.cancel() on a queued run: a future not done is cancelled with it, one
\* that has its result stays done and the task is cancelled when it resumes.
CancelQueued(r) ==
    /\ phase[r] \in {"pending", "granted"}
    /\ phase' = [phase EXCEPT ![r] = IF @ = "pending" THEN "dropped" ELSE "revoked"]
    /\ UNCHANGED <<permits, waiters, waitingRuns, activeRuns>>

\* The cancelled task leaves the queue with n permits free, and the finally
\* clause of acquire() wakes the runs they allow.
UnwindWith(r, n) ==
    LET w == WorkflowOf[r] IN
    /\ phase[r] \in {"dropped", "revoked"}
    /\ \E S \in SUBSET Pending(w) :
        /\ IsWoken(w, n, S)
        /\ permits' = [permits EXCEPT ![w] = n - Cardinality(S)]
        /\ Move(r, "outside", S)
    /\ Dequeue(w, r)
    /\ waitingRuns' = [waitingRuns EXCEPT ![w] = @ - 1]
    /\ UNCHANGED activeRuns

\* Faults: the permit of a run cancelled after its hand-over is lost, handed
\* back although there was none, or handed back without waking anybody.
UnwindLosingPermit(r)    == UnwindWith(r, permits[WorkflowOf[r]])
UnwindAlwaysReturning(r) == UnwindWith(r, permits[WorkflowOf[r]] + 1)

UnwindWithoutWaking(r) ==
    LET w == WorkflowOf[r] IN
    /\ phase[r] \in {"dropped", "revoked"}
    /\ permits' = [permits EXCEPT ![w] = @ + (IF phase[r] = "revoked" THEN 1 ELSE 0)]
    /\ Move(r, "outside", {})
    /\ Dequeue(w, r)
    /\ waitingRuns' = [waitingRuns EXCEPT ![w] = @ - 1]
    /\ UNCHANGED activeRuns

\* A permit the run had been handed goes back.
Unwind(r) ==
    UnwindWith(r, permits[WorkflowOf[r]] + (IF phase[r] = "revoked" THEN 1 ELSE 0))

\* Fault: the counter is decremented on return only, not in a finally clause.
LeaveKeepingCount(r) ==
    LET w == WorkflowOf[r] IN
    /\ phase[r] = "inside"
    /\ \E S \in SUBSET Pending(w) :
        /\ IsWoken(w, 1, S)
        /\ permits' = [permits EXCEPT ![w] = @ + 1 - Cardinality(S)]
        /\ Move(r, "outside", S)
    /\ UNCHANGED <<activeRuns, waiters, waitingRuns>>

\* The body ended, by return, exception or cancellation: the finally clause of
\* _run_slot, with release() waking at most one run.
Leave(r) ==
    LET w == WorkflowOf[r] IN
    /\ phase[r] = "inside"
    /\ \E S \in SUBSET Pending(w) :
        /\ IsWoken(w, 1, S)
        /\ permits' = [permits EXCEPT ![w] = @ + 1 - Cardinality(S)]
        /\ Move(r, "outside", S)
    /\ activeRuns' = [activeRuns EXCEPT ![w] = @ - 1]
    /\ UNCHANGED <<waiters, waitingRuns>>

\* The process stops and starts again: a new SessionManager has no slots in use.
Restart ==
    /\ phase' = [r \in Runs |-> "outside"]
    /\ permits' = [w \in Workflows |-> MaxConcurrent]
    /\ waiters' = [w \in Workflows |-> <<>>]
    /\ waitingRuns' = [w \in Workflows |-> 0]
    /\ activeRuns' = [w \in Workflows |-> 0]

SlotNext ==
    \/ \E r \in Runs :
        \/ EnterFree(r)
        \/ EnterBusy(r)
        \/ Resume(r)
        \/ CancelQueued(r)
        \/ Unwind(r)
        \/ Leave(r)
    \/ Restart

SlotSpec == SlotInit /\ [][SlotNext]_slotVars

(* The event loop runs every ready task (Resume, Unwind), and a run's body   *)
(* ends: the crew's kickoff returns or raises.  Nobody has to start a run,   *)
(* cancel one or restart the process.                                        *)
SlotFairness ==
    \A r \in Runs : WF_slotVars(Resume(r)) /\ WF_slotVars(Unwind(r)) /\ WF_slotVars(Leave(r))

FairSlotSpec == SlotSpec /\ SlotFairness

-----------------------------------------------------------------------------
(* Properties *)

\* Every variable has its type.
SlotTypeOK ==
    /\ phase \in [Runs -> Phases]
    /\ permits \in [Workflows -> Nat]
    /\ waiters \in [Workflows -> Seq(Runs)]
    /\ waitingRuns \in [Workflows -> Int]
    /\ activeRuns \in [Workflows -> Int]

\* The deque holds exactly the queued runs of its workflow, each once: no
\* cancellation leaves a dead entry behind or removes somebody else's.
QueueExact ==
    \A w \in Workflows :
        /\ \A r \in Runs : (\E i \in DOMAIN waiters[w] : waiters[w][i] = r)
                               <=> r \in InPhase(w, Queued)
        /\ \A i, j \in DOMAIN waiters[w] : waiters[w][i] = waiters[w][j] => i = j

\* No permit is lost or invented, whatever mixture of exits, cancellations and
\* hand-overs happened: the free ones, those handed to a run that has not
\* resumed, and those in use add up to the configured limit.
PermitsConserved ==
    \A w \in Workflows :
        permits[w] + Cardinality(InPhase(w, {"granted", "revoked", "inside"})) = MaxConcurrent

\* At most max_concurrent_runs_per_workflow bodies of one workflow are inside.
CapRespected ==
    \A w \in Workflows : Cardinality(InPhase(w, {"inside"})) <= MaxConcurrent

\* The counters behind GET /topologies/{id}/status count the runs inside and
\* the runs queued, also after cancellations.
StatusTruthful ==
    \A w \in Workflows :
        /\ activeRuns[w] = Cardinality(InPhase(w, {"inside"}))
        /\ waitingRuns[w] = Cardinality(InPhase(w, Queued))

\* No lost wake-up: when a run waits although a permit is free, some run that
\* will pass the permit on is about to resume or to unwind.
NoLostWakeup ==
    \A w \in Workflows :
        permits[w] > 0 /\ Pending(w) # {} => InPhase(w, {"granted", "revoked"}) # {}

\* The account of the permits: none is lost, none is given twice, none lies
\* idle while somebody waits, and the status endpoint tells how it stands.
PermitsBalance == PermitsConserved /\ CapRespected /\ StatusTruthful /\ NoLostWakeup

\* A run that obtains a permit overtakes nobody: no run of its workflow that
\* was queued before it is still waiting after the step.
NoOvertaking ==
    [][\A r, q \in Runs :
          /\ WorkflowOf[r] = WorkflowOf[q]
          /\ phase[q] = "pending" /\ phase'[q] = "pending"
          /\ phase[r] \in {"outside", "pending"} /\ phase'[r] \in {"granted", "inside"}
          => phase[r] = "pending" /\ Ahead(WorkflowOf[r], r, q)]_slotVars

\* Whoever queues gets in or gives up: no run waits for ever, also when new
\* runs keep coming.
NobodyStarves ==
    \A r \in Runs : phase[r] \in Queued ~> phase[r] \in {"inside", "outside"}

-----------------------------------------------------------------------------
(* The abstract specification this component implements.                   *)

InSlot  == {r \in Runs : phase[r] = "inside"}
InQueue == {r \in Runs : phase[r] \in Queued}

Abstract == INSTANCE BoundedAdmission
    WITH holders <- InSlot, waiting <- InQueue, Limit <- MaxConcurrent

\* _run_slot is a bounded admission: the hand-over of permits through futures,
\* with its cancellations, never lets a run in without room.
ImplementsAdmission == Abstract!AdmissionSpec
=============================================================================

-------------------------- MODULE BoundedAdmission --------------------------
(***************************************************************************)
(* What the admission of workflow runs promises its callers: at most       *)
(* Limit runs of one workflow hold a slot, a run that finds no room waits, *)
(* and a waiting run either gets a slot or gives up.  How the slots are    *)
(* handed over is left open; RunSlots implements this specification.       *)
(***************************************************************************)
EXTENDS FiniteSets, Integers

CONSTANTS
    Runs,           \* the calls that may want a slot
    WorkflowOf,     \* the workflow each run belongs to
    Limit           \* how many runs of one workflow may hold a slot

VARIABLES
    holders,        \* the runs that hold a slot
    waiting         \* the runs that asked for one

admissionVars == <<holders, waiting>>

Room(r) == Cardinality({q \in holders : WorkflowOf[q] = WorkflowOf[r]}) < Limit

-----------------------------------------------------------------------------
AdmissionInit ==
    /\ holders = {}
    /\ waiting = {}

\* A run that has not asked yet gets a slot at once ...
Take(r) ==
    /\ r \notin holders \cup waiting
    /\ Room(r)
    /\ holders' = holders \cup {r}
    /\ UNCHANGED waiting

\* ... or waits for one.
Ask(r) ==
    /\ r \notin holders \cup waiting
    /\ waiting' = waiting \cup {r}
    /\ UNCHANGED holders

Admit(r) ==
    /\ r \in waiting
    /\ Room(r)
    /\ holders' = holders \cup {r}
    /\ waiting' = waiting \ {r}

GiveUp(r) ==
    /\ r \in waiting
    /\ waiting' = waiting \ {r}
    /\ UNCHANGED holders

Release(r) ==
    /\ r \in holders
    /\ holders' = holders \ {r}
    /\ UNCHANGED waiting

\* The process restarts: nobody holds a slot or waits for one.
Reset ==
    /\ holders' = {}
    /\ waiting' = {}

AdmissionNext ==
    \/ \E r \in Runs : Take(r) \/ Ask(r) \/ Admit(r) \/ GiveUp(r) \/ Release(r)
    \/ Reset

AdmissionSpec == AdmissionInit /\ [][AdmissionNext]_admissionVars
=============================================================================

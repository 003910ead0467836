------------------------ MODULE SessionManagerProofs ------------------------
(***************************************************************************)
(* Proofs about RunSlots and SessionManager for every set of runs, calls,  *)
(* sessions and workflows and every limit.  First the slots alone: the     *)
(* inductive invariant is built in layers, the types and the exactness of  *)
(* the deque, then the conservation of permits, the counters and the       *)
(* absence of lost wake-ups, each of which uses the first layer.  The      *)
(* session manager uses the slots as RunSlots specifies, so that what is   *)
(* proved there holds of the whole session manager; the session store      *)
(* keeps the file and the index together; the calls count their turns,     *)
(* and find their answers in the file; the rows of the run history tell    *)
(* what the calls did, and stay within bounds, for every interleaving of   *)
(* the event loop with the threads.                                        *)
(***************************************************************************)
EXTENDS SessionManager, SequenceLemmas

-----------------------------------------------------------------------------
(* Lemmas about the operators *)

\* Every set of runs is finite.
LEMMA RunSetFinite ==
    ASSUME NEW S \in SUBSET Runs
    PROVE  IsFiniteSet(S) /\ Cardinality(S) \in Nat
BY SlotsAssumption, FS_Subset, FS_CardinalityType

\* Taking a queued run out of the deque of its workflow leaves all the others.
LEMMA DequeueEffect ==
    ASSUME SlotTypeOK, QueueExact,
           NEW r \in Runs, phase[r] \in Queued, Dequeue(WorkflowOf[r], r)
    PROVE  LET w == WorkflowOf[r] IN
           /\ waiters' \in [Workflows -> Seq(Runs)]
           /\ \A v \in Workflows : v # w => waiters'[v] = waiters[v]
           /\ \A q : (\E i \in DOMAIN waiters'[w] : waiters'[w][i] = q)
                         <=> q # r /\ (\E i \in DOMAIN waiters[w] : waiters[w][i] = q)
           /\ \A i, j \in DOMAIN waiters'[w] : waiters'[w][i] = waiters'[w][j] => i = j
<1> DEFINE w == WorkflowOf[r]
           s == waiters[w]
           k == CHOOSE i \in DOMAIN s : s[i] = r
           t == RemoveAt(s, k)
<1>1. w \in Workflows
  BY SlotsAssumption
<1>2. s \in Seq(Runs)
  BY <1>1 DEF SlotTypeOK
<1>3. \E i \in DOMAIN s : s[i] = r
  BY <1>1 DEF QueueExact, InPhase
<1>4. \A i, j \in DOMAIN s : s[i] = s[j] => i = j
  BY <1>1 DEF QueueExact
<1> HIDE DEF w
<1>5. k \in DOMAIN s /\ s[k] = r
  BY <1>3
<1>6. DOMAIN s = 1..Len(s) /\ Len(s) \in Nat
  BY <1>2, LenProperties
<1>7. waiters' = [waiters EXCEPT ![w] = t]
  BY DEF Dequeue, w
<1>8. waiters'[w] = t /\ \A v \in Workflows : v # w => waiters'[v] = waiters[v]
  BY <1>1, <1>7 DEF SlotTypeOK
<1> HIDE DEF k, s
<1>9. /\ t \in Seq(Runs)
      /\ Len(t) = Len(s) - 1
      /\ \A j \in 1..(Len(s) - 1) : t[j] = IF j < k THEN s[j] ELSE s[j + 1]
  BY <1>2, <1>5, <1>6, RemoveAtProperties
<1> HIDE DEF t
<1>10. DOMAIN t = 1..(Len(s) - 1)
  BY <1>9, LenProperties
<1>11. waiters' \in [Workflows -> Seq(Runs)]
  BY <1>7, <1>9 DEF SlotTypeOK
<1>12. ASSUME NEW q, NEW i \in DOMAIN t, t[i] = q
       PROVE  q # r /\ \E j \in DOMAIN s : s[j] = q
  <2>1. CASE i < k
    BY <1>4, <1>5, <1>6, <1>9, <1>10, <1>12, <2>1
  <2>2. CASE ~(i < k)
    BY <1>4, <1>5, <1>6, <1>9, <1>10, <1>12, <2>2
  <2>. QED  BY <2>1, <2>2
<1>13. ASSUME NEW q, q # r, NEW i \in DOMAIN s, s[i] = q
       PROVE  \E j \in DOMAIN t : t[j] = q
  <2>1. i # k
    BY <1>5, <1>13
  <2>2. CASE i < k
    <3>1. i \in 1..(Len(s) - 1) /\ t[i] = q
      BY <1>5, <1>6, <1>9, <1>13, <2>2
    <3>. QED  BY <1>10, <3>1
  <2>3. CASE i > k
    <3>1. i - 1 \in 1..(Len(s) - 1) /\ ~(i - 1 < k) /\ (i - 1) + 1 = i
      BY <1>5, <1>6, <1>13, <2>3
    <3>2. t[i - 1] = q
      BY <1>9, <1>13, <3>1
    <3>. QED  BY <1>10, <3>1, <3>2
  <2>. QED  BY <1>5, <1>6, <2>1, <2>2, <2>3
<1>14. ASSUME NEW i \in DOMAIN t, NEW j \in DOMAIN t, t[i] = t[j]
       PROVE  i = j
  <2> DEFINE at(n) == IF n < k THEN n ELSE n + 1
  <2>1. \A n \in DOMAIN t : at(n) \in DOMAIN s /\ t[n] = s[at(n)]
    BY <1>5, <1>6, <1>9, <1>10
  <2>2. at(i) = at(j)
    BY <1>4, <1>14, <2>1
  <2>. QED  BY <1>5, <1>6, <1>10, <2>2
<1>. QED  BY <1>8, <1>11, <1>12, <1>13, <1>14 DEF w, s

-----------------------------------------------------------------------------
(* First layer: the types and the deque *)

Shape == SlotTypeOK /\ QueueExact

LEMMA ShapeInit == SlotInit => Shape
BY SlotsAssumption, EmptySeq
   DEF SlotInit, Shape, SlotTypeOK, QueueExact, InPhase, Phases, Queued

\* Handing out permits moves pending runs to "granted" and r to p, nothing else.
LEMMA MoveEffect ==
    ASSUME SlotTypeOK, NEW r \in Runs, NEW p \in Phases,
           NEW S \in SUBSET Pending(WorkflowOf[r]), r \notin S, Move(r, p, S)
    PROVE  /\ phase' \in [Runs -> Phases]
           /\ phase'[r] = p
           /\ \A q \in S : phase[q] = "pending" /\ phase'[q] = "granted"
           /\ \A q \in Runs : q # r /\ q \notin S => phase'[q] = phase[q]
           /\ S \subseteq Runs
BY DEF SlotTypeOK, Move, Phases, Queued, Pending, InPhase

\* A step that takes r out of the deque, moves it to p and hands permits to the
\* runs of S keeps the shape of the state.
LEMMA DequeueShape ==
    ASSUME Shape, NEW r \in Runs, phase[r] \in Queued \ {"pending"},
           NEW p \in {"inside", "outside"}, NEW S \in SUBSET Pending(WorkflowOf[r]),
           Move(r, p, S), Dequeue(WorkflowOf[r], r),
           permits' \in [Workflows -> Nat],
           waitingRuns' \in [Workflows -> Int], activeRuns' \in [Workflows -> Int]
    PROVE  Shape'
<1> DEFINE w == WorkflowOf[r]
<1>1. r \notin S
  BY DEF Pending, InPhase
<1>2. /\ phase' \in [Runs -> Phases] /\ phase'[r] = p
      /\ \A q \in S : phase[q] = "pending" /\ phase'[q] = "granted"
      /\ \A q \in Runs : q # r /\ q \notin S => phase'[q] = phase[q]
  <2>1. p \in Phases
    BY DEF Phases
  <2>. QED  BY <1>1, <2>1, MoveEffect DEF Shape
<1>3. /\ waiters' \in [Workflows -> Seq(Runs)]
      /\ \A v \in Workflows : v # w => waiters'[v] = waiters[v]
      /\ \A q : (\E i \in DOMAIN waiters'[w] : waiters'[w][i] = q)
                    <=> q # r /\ (\E i \in DOMAIN waiters[w] : waiters[w][i] = q)
      /\ \A i, j \in DOMAIN waiters'[w] : waiters'[w][i] = waiters'[w][j] => i = j
  BY DequeueEffect DEF Shape
<1>4. \A q \in Runs, v \in Workflows :
          q \in InPhase(v, Queued)' <=> q \in InPhase(v, Queued) /\ q # r
  BY <1>2 DEF InPhase, Queued
<1>5. \A v \in Workflows : v # w => r \notin InPhase(v, Queued)
  BY DEF InPhase
<1> HIDE DEF w
<1>6. ASSUME NEW v \in Workflows
      PROVE  /\ \A q \in Runs : (\E i \in DOMAIN waiters'[v] : waiters'[v][i] = q)
                                    <=> q \in InPhase(v, Queued)'
             /\ \A i, j \in DOMAIN waiters'[v] : waiters'[v][i] = waiters'[v][j] => i = j
  <2>1. CASE v = w
    BY <1>3, <1>4, <2>1 DEF Shape, QueueExact
  <2>2. CASE v # w
    <3>1. waiters'[v] = waiters[v]
      BY <1>3, <2>2
    <3>2. \A q \in Runs : q \in InPhase(v, Queued)' <=> q \in InPhase(v, Queued)
      BY <1>4, <1>5, <2>2
    <3>. QED  BY <3>1, <3>2 DEF Shape, QueueExact
  <2>. QED  BY <2>1, <2>2
<1>7. QueueExact'
  BY <1>6 DEF QueueExact
<1>8. SlotTypeOK'
  BY <1>2, <1>3 DEF SlotTypeOK
<1>. QED  BY <1>7, <1>8 DEF Shape

\* The number of runs woken is a natural number within the permits offered.
LEMMA WokenCount ==
    ASSUME NEW w, NEW n \in Nat, NEW S, IsWoken(w, n, S)
    PROVE  /\ S \in SUBSET Runs /\ IsFiniteSet(S)
           /\ Cardinality(S) \in Nat /\ n - Cardinality(S) \in Nat
<1>1. S \in SUBSET Runs /\ Cardinality(S) <= n
  BY DEF IsWoken, Pending, InPhase
<1>2. IsFiniteSet(S) /\ Cardinality(S) \in Nat
  BY <1>1, RunSetFinite
<1>. QED  BY <1>1, <1>2

LEMMA ShapeNext == Shape /\ [SlotNext]_slotVars => Shape'
<1> SUFFICES ASSUME Shape, [SlotNext]_slotVars PROVE Shape'
  OBVIOUS
<1> USE DEF Shape
<1>w. \A r \in Runs : WorkflowOf[r] \in Workflows
  BY SlotsAssumption
<1>1. ASSUME NEW r \in Runs, EnterFree(r) PROVE Shape'
  <2>1. SlotTypeOK'
    BY <1>1, <1>w, SlotsAssumption DEF SlotTypeOK, EnterFree, Locked, Phases
  <2>2. QueueExact'
    BY <1>1, <1>w DEF SlotTypeOK, QueueExact, EnterFree, InPhase, Queued, Phases
  <2>. QED  BY <2>1, <2>2
<1>2. ASSUME NEW r \in Runs, EnterBusy(r) PROVE Shape'
  <2> DEFINE w == WorkflowOf[r]
             s == waiters[w]
  <2>1. w \in Workflows /\ s \in Seq(Runs)
    BY <1>w DEF SlotTypeOK
  <2>2. /\ Append(s, r) \in Seq(Runs)
        /\ DOMAIN s = 1..Len(s) /\ Len(s) \in Nat
        /\ DOMAIN Append(s, r) = 1..(Len(s) + 1)
        /\ \A i \in 1..Len(s) : Append(s, r)[i] = s[i]
        /\ Append(s, r)[Len(s) + 1] = r
    BY <2>1, AppendProperties, LenProperties
  <2>3. waiters' = [waiters EXCEPT ![w] = Append(s, r)]
    BY <1>2 DEF EnterBusy
  <2>4. waiters'[w] = Append(s, r) /\ \A v \in Workflows : v # w => waiters'[v] = waiters[v]
    BY <2>1, <2>3 DEF SlotTypeOK
  <2>5. SlotTypeOK'
    BY <1>2, <2>1, <2>2, <2>3 DEF SlotTypeOK, EnterBusy, Phases, Queued
  <2>6. /\ phase[r] = "outside" /\ phase'[r] = "pending"
        /\ \A q \in Runs : q # r => phase'[q] = phase[q]
    BY <1>2 DEF EnterBusy, SlotTypeOK
  <2>7. \A i \in DOMAIN s : s[i] # r
    BY <2>1, <2>6 DEF QueueExact, InPhase, Queued
  <2>8. ASSUME NEW v \in Workflows
        PROVE  /\ \A q \in Runs : (\E i \in DOMAIN waiters'[v] : waiters'[v][i] = q)
                                      <=> q \in InPhase(v, Queued)'
               /\ \A i, j \in DOMAIN waiters'[v] : waiters'[v][i] = waiters'[v][j] => i = j
    <3>1. \A q \in Runs : q \in InPhase(v, Queued)'
                              <=> q \in InPhase(v, Queued) \/ (q = r /\ v = w)
      BY <2>6 DEF InPhase, Queued
    <3>2. CASE v # w
      BY <2>4, <3>1, <3>2 DEF QueueExact
    <3>3. CASE v = w
      <4>1. DOMAIN waiters'[v] = 1..(Len(s) + 1) /\ waiters'[v] = Append(s, r)
        BY <2>2, <2>4, <3>3
      <4>2. /\ \A i, j \in 1..Len(s) : s[i] = s[j] => i = j
            /\ \A q \in Runs : (\E i \in 1..Len(s) : s[i] = q) <=> q \in InPhase(v, Queued)
        BY <2>1, <2>2, <3>3 DEF QueueExact
      <4>3. \A i \in 1..Len(s) : s[i] # r
        BY <2>2, <2>7
      <4> HIDE DEF s
      <4>4. ASSUME NEW q \in Runs
            PROVE  (\E i \in 1..(Len(s) + 1) : Append(s, r)[i] = q)
                       <=> q = r \/ \E i \in 1..Len(s) : s[i] = q
        BY <2>2
      <4>5. ASSUME NEW i \in 1..(Len(s) + 1), NEW j \in 1..(Len(s) + 1),
                   Append(s, r)[i] = Append(s, r)[j]
            PROVE  i = j
        BY <2>2, <4>2, <4>3, <4>5
      <4>. QED  BY <3>1, <3>3, <4>1, <4>2, <4>4, <4>5
    <3>. QED  BY <3>2, <3>3
  <2>9. QueueExact'
    BY <2>8 DEF QueueExact
  <2>. QED  BY <2>5, <2>9
<1>3. ASSUME NEW r \in Runs, Resume(r) PROVE Shape'
  <2> DEFINE w == WorkflowOf[r]
  <2>1. PICK S \in SUBSET Pending(w) :
            /\ IsWoken(w, permits[w], S)
            /\ permits' = [permits EXCEPT ![w] = @ - Cardinality(S)]
            /\ Move(r, "inside", S)
    BY <1>3 DEF Resume
  <2>2. /\ phase[r] = "granted" /\ Dequeue(w, r)
        /\ waitingRuns' = [waitingRuns EXCEPT ![w] = @ - 1]
        /\ activeRuns' = [activeRuns EXCEPT ![w] = @ + 1]
    BY <1>3 DEF Resume
  <2>3. permits[w] \in Nat
    BY <1>w DEF SlotTypeOK
  <2>4. permits[w] - Cardinality(S) \in Nat
    BY <2>1, <2>3, WokenCount
  <2>5. permits' \in [Workflows -> Nat]
    BY <2>1, <2>4 DEF SlotTypeOK
  <2>6. waitingRuns' \in [Workflows -> Int] /\ activeRuns' \in [Workflows -> Int]
    BY <1>w, <2>2 DEF SlotTypeOK
  <2>. QED  BY <2>1, <2>2, <2>5, <2>6, DequeueShape DEF Queued
<1>4. ASSUME NEW r \in Runs, CancelQueued(r) PROVE Shape'
  <2>1. SlotTypeOK'
    BY <1>4 DEF SlotTypeOK, CancelQueued, Phases, Queued
  <2>2. QueueExact'
    BY <1>4 DEF SlotTypeOK, QueueExact, CancelQueued, InPhase, Queued
  <2>. QED  BY <2>1, <2>2
<1>5. ASSUME NEW r \in Runs, Unwind(r) PROVE Shape'
  <2> DEFINE w == WorkflowOf[r]
             n == permits[w] + (IF phase[r] = "revoked" THEN 1 ELSE 0)
  <2>1. PICK S \in SUBSET Pending(w) :
            /\ IsWoken(w, n, S)
            /\ permits' = [permits EXCEPT ![w] = n - Cardinality(S)]
            /\ Move(r, "outside", S)
    BY <1>5 DEF Unwind, UnwindWith
  <2>2. /\ phase[r] \in {"dropped", "revoked"} /\ Dequeue(w, r)
        /\ waitingRuns' = [waitingRuns EXCEPT ![w] = @ - 1]
        /\ activeRuns' = activeRuns
    BY <1>5 DEF Unwind, UnwindWith
  <2>3. n \in Nat
    BY <1>w DEF SlotTypeOK
  <2>4. n - Cardinality(S) \in Nat
    BY <2>1, <2>3, WokenCount
  <2>5. permits' \in [Workflows -> Nat]
    BY <2>1, <2>4 DEF SlotTypeOK
  <2>6. waitingRuns' \in [Workflows -> Int] /\ activeRuns' \in [Workflows -> Int]
    BY <1>w, <2>2 DEF SlotTypeOK
  <2>. QED  BY <2>1, <2>2, <2>5, <2>6, DequeueShape DEF Queued
<1>6. ASSUME NEW r \in Runs, Leave(r) PROVE Shape'
  <2> DEFINE w == WorkflowOf[r]
  <2>1. PICK S \in SUBSET Pending(w) :
            /\ IsWoken(w, 1, S)
            /\ permits' = [permits EXCEPT ![w] = @ + 1 - Cardinality(S)]
            /\ Move(r, "outside", S)
    BY <1>6 DEF Leave
  <2>2. /\ phase[r] = "inside" /\ waiters' = waiters /\ waitingRuns' = waitingRuns
        /\ activeRuns' = [activeRuns EXCEPT ![w] = @ - 1]
    BY <1>6 DEF Leave
  <2>3. r \notin S
    BY <2>2 DEF Pending, InPhase
  <2>4. /\ phase' \in [Runs -> Phases] /\ phase'[r] = "outside"
        /\ \A q \in S : phase[q] = "pending" /\ phase'[q] = "granted"
        /\ \A q \in Runs : q # r /\ q \notin S => phase'[q] = phase[q]
    BY <2>1, <2>3, MoveEffect DEF Phases
  <2>5. permits[w] + 1 - Cardinality(S) \in Nat
    <3>1. permits[w] \in Nat
      BY <1>w DEF SlotTypeOK
    <3>2. Cardinality(S) \in Nat /\ 1 - Cardinality(S) \in Nat
      BY <2>1, WokenCount
    <3>. QED  BY <3>1, <3>2
  <2>6. permits' \in [Workflows -> Nat] /\ activeRuns' \in [Workflows -> Int]
    BY <1>w, <2>1, <2>2, <2>5 DEF SlotTypeOK
  <2>7. \A q \in Runs, v \in Workflows :
            q \in InPhase(v, Queued)' <=> q \in InPhase(v, Queued)
    BY <2>2, <2>4 DEF InPhase, Queued
  <2>. QED  BY <2>2, <2>4, <2>6, <2>7 DEF SlotTypeOK, QueueExact
<1>7. ASSUME Restart PROVE Shape'
  BY <1>7, SlotsAssumption, EmptySeq
     DEF Restart, SlotTypeOK, QueueExact, InPhase, Phases, Queued
<1>8. CASE UNCHANGED slotVars
  BY <1>8 DEF slotVars, SlotTypeOK, QueueExact, InPhase
<1>. QED  BY <1>1, <1>2, <1>3, <1>4, <1>5, <1>6, <1>7, <1>8 DEF SlotNext

\* The types and the deque are right in every reachable state.
THEOREM SlotTypeCorrect == SlotSpec => [](SlotTypeOK /\ QueueExact)
BY ShapeInit, ShapeNext, PTL DEF SlotSpec, Shape

-----------------------------------------------------------------------------
(* Second layer: permits and counters *)

Using(w) == InPhase(w, {"granted", "revoked", "inside"})
Inside(w) == InPhase(w, {"inside"})
Waiting(w) == InPhase(w, Queued)

Accounting == PermitsConserved /\ StatusTruthful

\* Adding and removing runs changes a count by what was added or removed.
LEMMA CountRuns ==
    ASSUME NEW A \in SUBSET Runs
    PROVE  /\ Cardinality(A) \in Nat
           /\ \A r \in Runs : Cardinality(A \cup {r})
                                  = Cardinality(A) + (IF r \in A THEN 0 ELSE 1)
           /\ \A r \in Runs : Cardinality(A \ {r})
                                  = Cardinality(A) - (IF r \in A THEN 1 ELSE 0)
           /\ \A B \in SUBSET Runs : A \cap B = {} =>
                  Cardinality(A \cup B) = Cardinality(A) + Cardinality(B)
<1>1. IsFiniteSet(A) /\ Cardinality(A) \in Nat
  BY RunSetFinite
<1>2. ASSUME NEW r \in Runs
      PROVE  /\ Cardinality(A \cup {r}) = Cardinality(A) + (IF r \in A THEN 0 ELSE 1)
             /\ Cardinality(A \ {r}) = Cardinality(A) - (IF r \in A THEN 1 ELSE 0)
  <2>1. Cardinality(A \cup {r}) = IF r \in A THEN Cardinality(A) ELSE Cardinality(A) + 1
    BY <1>1, FS_AddElement
  <2>2. Cardinality(A \ {r}) = IF r \in A THEN Cardinality(A) - 1 ELSE Cardinality(A)
    BY <1>1, FS_RemoveElement
  <2>. QED  BY <1>1, <2>1, <2>2
<1>3. ASSUME NEW B \in SUBSET Runs, A \cap B = {}
      PROVE  Cardinality(A \cup B) = Cardinality(A) + Cardinality(B)
  <2>1. IsFiniteSet(B) /\ Cardinality(B) \in Nat
    BY RunSetFinite
  <2>2. Cardinality(A \cup B) = Cardinality(A) + Cardinality(B) - Cardinality(A \cap B)
    BY <1>1, <2>1, FS_Union
  <2>3. Cardinality(A \cap B) = 0
    BY <1>3, FS_EmptySet
  <2>. QED  BY <1>1, <2>1, <2>2, <2>3
<1>. QED  BY <1>1, <1>2, <1>3

\* The sets that the accounting counts after r moved to p and S was woken.
LEMMA SetsAfterMove ==
    ASSUME Shape, NEW r \in Runs, phase[r] # "pending",
           NEW p \in {"inside", "outside"}, NEW S \in SUBSET Pending(WorkflowOf[r]),
           Move(r, p, S)
    PROVE  LET w == WorkflowOf[r] IN
           /\ Using(w)' = (IF p = "inside" THEN Using(w) \cup {r} ELSE Using(w) \ {r}) \cup S
           /\ Inside(w)' = (IF p = "inside" THEN Inside(w) \cup {r} ELSE Inside(w) \ {r})
           /\ Waiting(w)' = Waiting(w) \ {r}
           /\ \A v \in Workflows \ {w} :
                  Using(v)' = Using(v) /\ Inside(v)' = Inside(v) /\ Waiting(v)' = Waiting(v)
           /\ Using(w) \cap S = {} /\ r \notin S /\ S \in SUBSET Runs
<1>1. r \notin S /\ S \in SUBSET Runs /\ \A q \in S : WorkflowOf[q] = WorkflowOf[r]
  BY DEF Pending, InPhase
<1>2. /\ phase'[r] = p
      /\ \A q \in S : phase[q] = "pending" /\ phase'[q] = "granted"
      /\ \A q \in Runs : q # r /\ q \notin S => phase'[q] = phase[q]
  <2>1. p \in Phases
    BY DEF Phases
  <2>. QED  BY <1>1, <2>1, MoveEffect DEF Shape
<1>. QED  BY <1>1, <1>2 DEF Using, Inside, Waiting, InPhase, Queued

LEMMA AccountingInit == SlotInit => Accounting
<1> SUFFICES ASSUME SlotInit, NEW w \in Workflows
             PROVE  /\ permits[w] + Cardinality(Using(w)) = MaxConcurrent
                    /\ activeRuns[w] = Cardinality(Inside(w))
                    /\ waitingRuns[w] = Cardinality(Waiting(w))
  BY DEF Accounting, PermitsConserved, StatusTruthful, Using, Inside, Waiting
<1>1. Using(w) = {} /\ Inside(w) = {} /\ Waiting(w) = {}
  BY DEF SlotInit, Using, Inside, Waiting, InPhase, Queued
<1>. QED  BY <1>1, FS_EmptySet, SlotsAssumption DEF SlotInit

LEMMA AccountingNext == Shape /\ Accounting /\ [SlotNext]_slotVars => Accounting'
<1> SUFFICES ASSUME Shape, Accounting, [SlotNext]_slotVars, NEW v \in Workflows
             PROVE  /\ permits'[v] + Cardinality(Using(v)') = MaxConcurrent
                    /\ activeRuns'[v] = Cardinality(Inside(v)')
                    /\ waitingRuns'[v] = Cardinality(Waiting(v)')
  BY DEF Accounting, PermitsConserved, StatusTruthful, Using, Inside, Waiting
<1> DEFINE Goal == /\ permits'[v] + Cardinality(Using(v)') = MaxConcurrent
                   /\ activeRuns'[v] = Cardinality(Inside(v)')
                   /\ waitingRuns'[v] = Cardinality(Waiting(v)')
<1>a. \A w \in Workflows : /\ permits[w] + Cardinality(Using(w)) = MaxConcurrent
                           /\ activeRuns[w] = Cardinality(Inside(w))
                           /\ waitingRuns[w] = Cardinality(Waiting(w))
  BY DEF Accounting, PermitsConserved, StatusTruthful, Using, Inside, Waiting
<1>b. \A w : Using(w) \in SUBSET Runs /\ Inside(w) \in SUBSET Runs /\ Waiting(w) \in SUBSET Runs
  BY DEF Using, Inside, Waiting, InPhase
<1>c. \A w \in Workflows : permits[w] \in Nat /\ activeRuns[w] \in Int /\ waitingRuns[w] \in Int
  BY DEF Shape, SlotTypeOK
<1>d. \A r \in Runs : WorkflowOf[r] \in Workflows
  BY SlotsAssumption
<1>e. MaxConcurrent \in Nat
  BY SlotsAssumption
<1>1. ASSUME NEW r \in Runs, EnterFree(r) PROVE Goal
  <2> DEFINE w == WorkflowOf[r]
  <2>1. /\ phase[r] = "outside" /\ phase' = [phase EXCEPT ![r] = "inside"]
        /\ permits' = [permits EXCEPT ![w] = @ - 1]
        /\ activeRuns' = [activeRuns EXCEPT ![w] = @ + 1]
        /\ waitingRuns' = waitingRuns
    BY <1>1 DEF EnterFree
  <2>2. /\ Using(w)' = Using(w) \cup {r} /\ r \notin Using(w)
        /\ Inside(w)' = Inside(w) \cup {r} /\ r \notin Inside(w)
        /\ Waiting(w)' = Waiting(w)
        /\ v # w => Using(v)' = Using(v) /\ Inside(v)' = Inside(v) /\ Waiting(v)' = Waiting(v)
    BY <2>1 DEF Shape, SlotTypeOK, Using, Inside, Waiting, InPhase, Queued
  <2>3. CASE v = w
    <3>1. /\ Cardinality(Using(v)') = Cardinality(Using(v)) + 1
          /\ Cardinality(Inside(v)') = Cardinality(Inside(v)) + 1
      BY <1>b, <2>2, <2>3, CountRuns
    <3>2. permits'[v] = permits[v] - 1 /\ activeRuns'[v] = activeRuns[v] + 1
      BY <1>d, <2>1, <2>3 DEF Shape, SlotTypeOK
    <3>3. Cardinality(Using(v)) \in Nat /\ Cardinality(Inside(v)) \in Nat
      BY <1>b, CountRuns
    <3>. QED  BY <1>a, <1>c, <1>d, <1>e, <2>1, <2>2, <2>3, <3>1, <3>2, <3>3
  <2>4. CASE v # w
    BY <1>a, <2>1, <2>2, <2>4 DEF Shape, SlotTypeOK
  <2>. QED  BY <2>3, <2>4
<1>2. ASSUME NEW r \in Runs, EnterBusy(r) PROVE Goal
  <2> DEFINE w == WorkflowOf[r]
  <2>1. /\ phase[r] = "outside" /\ phase' = [phase EXCEPT ![r] = "pending"]
        /\ permits' = permits /\ activeRuns' = activeRuns
        /\ waitingRuns' = [waitingRuns EXCEPT ![w] = @ + 1]
    BY <1>2 DEF EnterBusy
  <2>2. /\ Using(v)' = Using(v) /\ Inside(v)' = Inside(v)
        /\ Waiting(w)' = Waiting(w) \cup {r} /\ r \notin Waiting(w)
        /\ v # w => Waiting(v)' = Waiting(v)
    BY <2>1 DEF Shape, SlotTypeOK, Using, Inside, Waiting, InPhase, Queued
  <2>3. Cardinality(Waiting(w) \cup {r}) = Cardinality(Waiting(w)) + 1
    BY <1>b, <2>2, CountRuns
  <2>. QED  BY <1>a, <1>c, <1>d, <2>1, <2>2, <2>3 DEF Shape, SlotTypeOK
<1>3. ASSUME NEW r \in Runs, Resume(r) PROVE Goal
  <2> DEFINE w == WorkflowOf[r]
  <2>1. PICK S \in SUBSET Pending(w) :
            /\ permits' = [permits EXCEPT ![w] = @ - Cardinality(S)]
            /\ Move(r, "inside", S)
    BY <1>3 DEF Resume
  <2>2. /\ phase[r] = "granted"
        /\ waitingRuns' = [waitingRuns EXCEPT ![w] = @ - 1]
        /\ activeRuns' = [activeRuns EXCEPT ![w] = @ + 1]
    BY <1>3 DEF Resume
  <2>3. r \in Using(w) /\ r \in Waiting(w) /\ r \notin Inside(w)
    BY <2>2 DEF Using, Inside, Waiting, InPhase, Queued
  <2>4. /\ Using(w)' = (Using(w) \cup {r}) \cup S
        /\ Inside(w)' = Inside(w) \cup {r}
        /\ Waiting(w)' = Waiting(w) \ {r}
        /\ v # w => Using(v)' = Using(v) /\ Inside(v)' = Inside(v) /\ Waiting(v)' = Waiting(v)
        /\ Using(w) \cap S = {} /\ S \in SUBSET Runs
    BY <2>1, <2>2, SetsAfterMove
  <2>5. CASE v = w
    <3>1. Using(v)' = Using(v) \cup S
      BY <2>3, <2>4, <2>5
    <3>2. /\ Cardinality(Using(v)') = Cardinality(Using(v)) + Cardinality(S)
          /\ Cardinality(Inside(v)') = Cardinality(Inside(v)) + 1
          /\ Cardinality(Waiting(v)') = Cardinality(Waiting(v)) - 1
      <4>1. Cardinality(Using(v)') = Cardinality(Using(v)) + Cardinality(S)
        BY <1>b, <2>4, <2>5, <3>1, CountRuns
      <4>2. Cardinality(Inside(v)') = Cardinality(Inside(v)) + 1
        BY <1>b, <2>3, <2>4, <2>5, CountRuns
      <4>3. Cardinality(Waiting(v)') = Cardinality(Waiting(v)) - 1
        BY <1>b, <2>3, <2>4, <2>5, CountRuns
      <4>. QED  BY <4>1, <4>2, <4>3
    <3>3. /\ permits'[v] = permits[v] - Cardinality(S)
          /\ activeRuns'[v] = activeRuns[v] + 1
          /\ waitingRuns'[v] = waitingRuns[v] - 1
      BY <2>1, <2>2, <2>5 DEF Shape, SlotTypeOK
    <3>4. Cardinality(Using(v)) \in Nat /\ Cardinality(S) \in Nat
      BY <1>b, <2>4, CountRuns
    <3>. QED  BY <1>a, <1>c, <1>e, <3>2, <3>3, <3>4
  <2>6. CASE v # w
    BY <1>a, <2>1, <2>2, <2>4, <2>6 DEF Shape, SlotTypeOK
  <2>. QED  BY <2>5, <2>6
<1>4. ASSUME NEW r \in Runs, CancelQueued(r) PROVE Goal
  <2>1. /\ phase[r] \in {"pending", "granted"}
        /\ phase' = [phase EXCEPT ![r] = IF @ = "pending" THEN "dropped" ELSE "revoked"]
        /\ permits' = permits /\ activeRuns' = activeRuns /\ waitingRuns' = waitingRuns
    BY <1>4 DEF CancelQueued
  <2>2. Using(v)' = Using(v) /\ Inside(v)' = Inside(v) /\ Waiting(v)' = Waiting(v)
    BY <2>1 DEF Shape, SlotTypeOK, Using, Inside, Waiting, InPhase, Queued
  <2>. QED  BY <1>a, <2>1, <2>2
<1>5. ASSUME NEW r \in Runs, Unwind(r) PROVE Goal
  <2> DEFINE w == WorkflowOf[r]
             n == permits[w] + (IF phase[r] = "revoked" THEN 1 ELSE 0)
  <2>1. PICK S \in SUBSET Pending(w) :
            /\ permits' = [permits EXCEPT ![w] = n - Cardinality(S)]
            /\ Move(r, "outside", S)
    BY <1>5 DEF Unwind, UnwindWith
  <2>2. /\ phase[r] \in {"dropped", "revoked"}
        /\ waitingRuns' = [waitingRuns EXCEPT ![w] = @ - 1]
        /\ activeRuns' = activeRuns
    BY <1>5 DEF Unwind, UnwindWith
  <2>3. r \in Waiting(w) /\ r \notin Inside(w) /\ (r \in Using(w) <=> phase[r] = "revoked")
    BY <2>2 DEF Using, Inside, Waiting, InPhase, Queued
  <2>4. /\ Using(w)' = (Using(w) \ {r}) \cup S
        /\ Inside(w)' = Inside(w) \ {r}
        /\ Waiting(w)' = Waiting(w) \ {r}
        /\ v # w => Using(v)' = Using(v) /\ Inside(v)' = Inside(v) /\ Waiting(v)' = Waiting(v)
        /\ Using(w) \cap S = {} /\ S \in SUBSET Runs
    BY <2>1, <2>2, SetsAfterMove
  <2>5. CASE v = w
    <3>1. (Using(v) \ {r}) \cap S = {} /\ Using(v) \ {r} \in SUBSET Runs
      BY <1>b, <2>4, <2>5
    <3>2. /\ Cardinality(Using(v)') = Cardinality(Using(v) \ {r}) + Cardinality(S)
          /\ Cardinality(Using(v) \ {r})
                 = Cardinality(Using(v)) - (IF phase[r] = "revoked" THEN 1 ELSE 0)
          /\ Cardinality(Inside(v)') = Cardinality(Inside(v))
          /\ Cardinality(Waiting(v)') = Cardinality(Waiting(v)) - 1
      <4>1. Cardinality(Using(v)') = Cardinality(Using(v) \ {r}) + Cardinality(S)
        BY <2>4, <2>5, <3>1, CountRuns
      <4>2. Cardinality(Using(v) \ {r})
                = Cardinality(Using(v)) - (IF phase[r] = "revoked" THEN 1 ELSE 0)
        BY <1>b, <2>3, <2>5, CountRuns
      <4>3. Inside(v)' = Inside(v)
        BY <2>3, <2>4, <2>5
      <4>4. Cardinality(Waiting(v)') = Cardinality(Waiting(v)) - 1
        BY <1>b, <2>3, <2>4, <2>5, CountRuns
      <4>. QED  BY <4>1, <4>2, <4>3, <4>4
    <3>3. /\ permits'[v] = n - Cardinality(S)
          /\ waitingRuns'[v] = waitingRuns[v] - 1
      BY <2>1, <2>2, <2>5 DEF Shape, SlotTypeOK
    <3>4. Cardinality(Using(v)) \in Nat /\ Cardinality(S) \in Nat
      BY <1>b, <2>4, CountRuns
    <3>. QED  BY <1>a, <1>c, <1>e, <2>2, <2>5, <3>2, <3>3, <3>4
  <2>6. CASE v # w
    BY <1>a, <2>1, <2>2, <2>4, <2>6 DEF Shape, SlotTypeOK
  <2>. QED  BY <2>5, <2>6
<1>6. ASSUME NEW r \in Runs, Leave(r) PROVE Goal
  <2> DEFINE w == WorkflowOf[r]
  <2>1. PICK S \in SUBSET Pending(w) :
            /\ permits' = [permits EXCEPT ![w] = @ + 1 - Cardinality(S)]
            /\ Move(r, "outside", S)
    BY <1>6 DEF Leave
  <2>2. /\ phase[r] = "inside" /\ waitingRuns' = waitingRuns
        /\ activeRuns' = [activeRuns EXCEPT ![w] = @ - 1]
    BY <1>6 DEF Leave
  <2>3. r \in Using(w) /\ r \in Inside(w) /\ r \notin Waiting(w)
    BY <2>2 DEF Using, Inside, Waiting, InPhase, Queued
  <2>4. /\ Using(w)' = (Using(w) \ {r}) \cup S
        /\ Inside(w)' = Inside(w) \ {r}
        /\ Waiting(w)' = Waiting(w) \ {r}
        /\ v # w => Using(v)' = Using(v) /\ Inside(v)' = Inside(v) /\ Waiting(v)' = Waiting(v)
        /\ Using(w) \cap S = {} /\ S \in SUBSET Runs
    BY <2>1, <2>2, SetsAfterMove
  <2>5. CASE v = w
    <3>1. /\ (Using(v) \ {r}) \cap S = {} /\ Using(v) \ {r} \in SUBSET Runs
          /\ Waiting(v)' = Waiting(v)
      BY <1>b, <2>3, <2>4, <2>5
    <3>2. /\ Cardinality(Using(v)') = Cardinality(Using(v) \ {r}) + Cardinality(S)
          /\ Cardinality(Using(v) \ {r}) = Cardinality(Using(v)) - 1
          /\ Cardinality(Inside(v)') = Cardinality(Inside(v)) - 1
      <4>1. Cardinality(Using(v)') = Cardinality(Using(v) \ {r}) + Cardinality(S)
        BY <2>4, <2>5, <3>1, CountRuns
      <4>2. Cardinality(Using(v) \ {r}) = Cardinality(Using(v)) - 1
        BY <1>b, <2>3, <2>5, CountRuns
      <4>3. Cardinality(Inside(v)') = Cardinality(Inside(v)) - 1
        BY <1>b, <2>3, <2>4, <2>5, CountRuns
      <4>. QED  BY <4>1, <4>2, <4>3
    <3>3. /\ permits'[v] = permits[v] + 1 - Cardinality(S)
          /\ activeRuns'[v] = activeRuns[v] - 1
      BY <2>1, <2>2, <2>5 DEF Shape, SlotTypeOK
    <3>4. Cardinality(Using(v)) \in Nat /\ Cardinality(S) \in Nat
      BY <1>b, <2>4, CountRuns
    <3>. QED  BY <1>a, <1>c, <1>e, <2>2, <3>1, <3>2, <3>3, <3>4
  <2>6. CASE v # w
    BY <1>a, <2>1, <2>2, <2>4, <2>6 DEF Shape, SlotTypeOK
  <2>. QED  BY <2>5, <2>6
<1>7. ASSUME Restart PROVE Goal
  <2>1. Using(v)' = {} /\ Inside(v)' = {} /\ Waiting(v)' = {}
    BY <1>7 DEF Restart, Using, Inside, Waiting, InPhase, Queued
  <2>. QED  BY <1>7, <2>1, FS_EmptySet, SlotsAssumption DEF Restart
<1>8. CASE UNCHANGED slotVars
  <2>1. Using(v)' = Using(v) /\ Inside(v)' = Inside(v) /\ Waiting(v)' = Waiting(v)
    BY <1>8 DEF slotVars, Using, Inside, Waiting, InPhase
  <2>. QED  BY <1>8, <1>a, <2>1 DEF slotVars
<1>. QED  BY <1>1, <1>2, <1>3, <1>4, <1>5, <1>6, <1>7, <1>8 DEF SlotNext

-----------------------------------------------------------------------------
(* Third layer: no permit stays free next to a run that nobody will wake *)

LEMMA NoLostWakeupInit == SlotInit => NoLostWakeup
BY DEF SlotInit, NoLostWakeup, Pending, InPhase

LEMMA NoLostWakeupNext == Shape /\ NoLostWakeup /\ [SlotNext]_slotVars => NoLostWakeup'
<1> SUFFICES ASSUME Shape, NoLostWakeup, [SlotNext]_slotVars, NEW v \in Workflows,
                    permits'[v] > 0, NEW x \in Pending(v)'
             PROVE  InPhase(v, {"granted", "revoked"})' # {}
  BY DEF NoLostWakeup
<1> DEFINE Goal == InPhase(v, {"granted", "revoked"})' # {}
<1>a. permits[v] > 0 /\ Pending(v) # {} =>
          \E q \in Runs : WorkflowOf[q] = v /\ phase[q] \in {"granted", "revoked"}
  BY DEF NoLostWakeup, InPhase
<1>b. x \in Runs /\ WorkflowOf[x] = v /\ phase'[x] = "pending"
  BY DEF Pending, InPhase
<1>c. (\E q \in Runs : WorkflowOf[q] = v /\ phase'[q] \in {"granted", "revoked"}) => Goal
  BY DEF InPhase
<1>d. \A r \in Runs : WorkflowOf[r] \in Workflows
  BY SlotsAssumption
<1>e. phase \in [Runs -> Phases] /\ permits \in [Workflows -> Nat]
  BY DEF Shape, SlotTypeOK
<1>f. \A w \in Workflows, q \in Runs :
          (\E i \in DOMAIN waiters[w] : waiters[w][i] = q)
              <=> WorkflowOf[q] = w /\ phase[q] \in Queued
  BY DEF Shape, QueueExact, InPhase
<1>1. ASSUME NEW r \in Runs, EnterFree(r) PROVE Goal
  <2>1. /\ ~Locked(WorkflowOf[r]) /\ phase' = [phase EXCEPT ![r] = "inside"]
        /\ permits' = [permits EXCEPT ![WorkflowOf[r]] = @ - 1]
    BY <1>1 DEF EnterFree
  <2>2. x # r /\ phase[x] = "pending"
    BY <1>b, <1>e, <2>1
  <2>3. WorkflowOf[r] # v
    BY <1>b, <1>f, <2>1, <2>2 DEF Locked, Queued
  <2>4. PICK q \in Runs : WorkflowOf[q] = v /\ phase[q] \in {"granted", "revoked"}
    BY <1>a, <1>b, <1>d, <1>e, <2>1, <2>2, <2>3 DEF Pending, InPhase
  <2>. QED  BY <1>c, <1>e, <2>1, <2>3, <2>4
<1>2. ASSUME NEW r \in Runs, EnterBusy(r) PROVE Goal
  <2>1. /\ Locked(WorkflowOf[r]) /\ phase[r] = "outside"
        /\ phase' = [phase EXCEPT ![r] = "pending"] /\ permits' = permits
    BY <1>2 DEF EnterBusy
  <2>2. CASE x = r
    <3>1. PICK i \in DOMAIN waiters[v] : phase[waiters[v][i]] # "dropped"
      BY <1>b, <2>1, <2>2 DEF Locked
    <3>2. waiters[v][i] \in Runs
      BY <1>b, <1>d, <3>1, ElementOfSeq, LenProperties DEF Shape, SlotTypeOK
    <3>3. WorkflowOf[waiters[v][i]] = v
          /\ phase[waiters[v][i]] \in {"pending", "granted", "revoked"}
      BY <1>f, <3>1, <3>2 DEF Queued
    <3>4. PICK q \in Runs : WorkflowOf[q] = v /\ phase[q] \in {"granted", "revoked"}
      BY <1>a, <2>1, <3>2, <3>3 DEF Pending, InPhase
    <3>. QED  BY <1>c, <1>e, <2>1, <3>4
  <2>3. CASE x # r
    <3>1. phase[x] = "pending"
      BY <1>b, <1>e, <2>1, <2>3
    <3>2. PICK q \in Runs : WorkflowOf[q] = v /\ phase[q] \in {"granted", "revoked"}
      BY <1>a, <1>b, <2>1, <3>1 DEF Pending, InPhase
    <3>. QED  BY <1>c, <1>e, <2>1, <3>2
  <2>. QED  BY <2>2, <2>3
<1>3. ASSUME NEW r \in Runs, NEW p \in {"inside", "outside"}, phase[r] # "pending",
             NEW S \in SUBSET Pending(WorkflowOf[r]), Move(r, p, S),
             WorkflowOf[r] # v, permits'[v] = permits[v]
      PROVE  Goal
  <2>1. \A q \in Runs : WorkflowOf[q] = v => phase'[q] = phase[q]
    BY <1>3 DEF Move, Pending, InPhase
  <2>2. PICK q \in Runs : WorkflowOf[q] = v /\ phase[q] \in {"granted", "revoked"}
    BY <1>a, <1>b, <1>3, <2>1 DEF Pending, InPhase
  <2>. QED  BY <1>c, <2>1, <2>2
<1>4. ASSUME NEW r \in Runs, NEW p \in {"inside", "outside"}, phase[r] # "pending",
             NEW S \in SUBSET Pending(WorkflowOf[r]), Move(r, p, S),
             WorkflowOf[r] = v, S = Pending(v)
      PROVE  FALSE
  BY <1>b, <1>4 DEF Move, Pending, InPhase
<1>5. ASSUME NEW r \in Runs, NEW p \in {"inside", "outside"}, phase[r] # "pending",
             NEW n \in Nat, NEW S \in SUBSET Pending(WorkflowOf[r]),
             IsWoken(WorkflowOf[r], n, S), Move(r, p, S),
             permits' = [permits EXCEPT ![WorkflowOf[r]] = n - Cardinality(S)]
      PROVE  Goal
  <2>1. CASE WorkflowOf[r] = v
    <3>1. n - Cardinality(S) > 0
      BY <1>d, <1>e, <1>5, <2>1
    <3>2. Cardinality(S) \in Nat
      BY <1>5, WokenCount
    <3>3. S = Pending(v)
      BY <1>5, <2>1, <3>1, <3>2 DEF IsWoken
    <3>. QED  BY <1>4, <1>5, <2>1, <3>3
  <2>2. CASE WorkflowOf[r] # v
    BY <1>3, <1>5, <1>e, <2>2
  <2>. QED  BY <2>1, <2>2
<1>6. ASSUME NEW r \in Runs, Resume(r) PROVE Goal
  <2>1. PICK S \in SUBSET Pending(WorkflowOf[r]) :
            /\ IsWoken(WorkflowOf[r], permits[WorkflowOf[r]], S)
            /\ permits' = [permits EXCEPT ![WorkflowOf[r]] = @ - Cardinality(S)]
            /\ Move(r, "inside", S)
    BY <1>6 DEF Resume
  <2>2. phase[r] # "pending" /\ permits[WorkflowOf[r]] \in Nat
    BY <1>6, <1>d, <1>e DEF Resume
  <2>. QED  BY <1>5, <2>1, <2>2
<1>7. ASSUME NEW r \in Runs, CancelQueued(r) PROVE Goal
  <2>1. /\ phase' = [phase EXCEPT ![r] = IF @ = "pending" THEN "dropped" ELSE "revoked"]
        /\ phase[r] \in {"pending", "granted"} /\ permits' = permits
    BY <1>7 DEF CancelQueued
  <2>2. phase[x] = "pending"
    BY <1>b, <1>e, <2>1
  <2>3. PICK q \in Runs : WorkflowOf[q] = v /\ phase[q] \in {"granted", "revoked"}
    BY <1>a, <1>b, <2>1, <2>2 DEF Pending, InPhase
  <2>4. phase'[q] \in {"granted", "revoked"}
    BY <1>e, <2>1, <2>3
  <2>. QED  BY <1>c, <2>3, <2>4
<1>8. ASSUME NEW r \in Runs, Unwind(r) PROVE Goal
  <2> DEFINE n == permits[WorkflowOf[r]] + (IF phase[r] = "revoked" THEN 1 ELSE 0)
  <2>1. PICK S \in SUBSET Pending(WorkflowOf[r]) :
            /\ IsWoken(WorkflowOf[r], n, S)
            /\ permits' = [permits EXCEPT ![WorkflowOf[r]] = n - Cardinality(S)]
            /\ Move(r, "outside", S)
    BY <1>8 DEF Unwind, UnwindWith
  <2>2. phase[r] # "pending" /\ n \in Nat
    BY <1>8, <1>d, <1>e DEF Unwind, UnwindWith
  <2> HIDE DEF n
  <2>. QED  BY <1>5, <2>1, <2>2
<1>9. ASSUME NEW r \in Runs, Leave(r) PROVE Goal
  <2>1. PICK S \in SUBSET Pending(WorkflowOf[r]) :
            /\ IsWoken(WorkflowOf[r], 1, S)
            /\ permits' = [permits EXCEPT ![WorkflowOf[r]] = @ + 1 - Cardinality(S)]
            /\ Move(r, "outside", S)
    BY <1>9 DEF Leave
  <2>2. phase[r] = "inside"
    BY <1>9 DEF Leave
  <2>3. CASE WorkflowOf[r] # v
    BY <1>3, <1>e, <2>1, <2>2, <2>3
  <2>4. CASE WorkflowOf[r] = v
    <3>1. Cardinality(S) = 1
      BY <1>4, <2>1, <2>2, <2>4 DEF IsWoken
    <3>2. PICK q : q \in S
      BY <3>1, FS_EmptySet
    <3>3. q \in Runs /\ WorkflowOf[q] = v /\ phase'[q] = "granted"
      BY <2>1, <2>2, <2>4, <3>2 DEF Move, Pending, InPhase
    <3>. QED  BY <1>c, <3>3
  <2>. QED  BY <2>3, <2>4
<1>10. ASSUME Restart PROVE Goal
  BY <1>10, <1>b DEF Restart
<1>11. CASE UNCHANGED slotVars
  BY <1>11, <1>a, <1>b, <1>c DEF slotVars, Pending, InPhase
<1>. QED  BY <1>1, <1>2, <1>6, <1>7, <1>8, <1>9, <1>10, <1>11 DEF SlotNext

-----------------------------------------------------------------------------
(* The theorems *)

SlotInv == Shape /\ Accounting /\ NoLostWakeup

\* The inductive invariant of the component: the shape of the queue and of the
\* variables, the accounting of permits and runs, and the pending wake-ups.
THEOREM SlotInvariant == SlotSpec => []SlotInv
<1>1. SlotInit => SlotInv
  BY ShapeInit, AccountingInit, NoLostWakeupInit DEF SlotInv
<1>2. SlotInv /\ [SlotNext]_slotVars => SlotInv'
  BY ShapeNext, AccountingNext, NoLostWakeupNext DEF SlotInv
<1>. QED  BY <1>1, <1>2, PTL DEF SlotSpec

\* Permits are conserved through every exit, cancellation and hand-over.
THEOREM PermitsAreConserved == SlotSpec => []PermitsConserved
BY SlotInvariant, PTL DEF SlotInv, Accounting

\* The numbers the status endpoint reports are the numbers of runs inside and queued.
THEOREM StatusIsTruthful == SlotSpec => []StatusTruthful
BY SlotInvariant, PTL DEF SlotInv, Accounting

\* A free permit and a waiting run never coexist without somebody about to pass
\* the permit on.
THEOREM NoWakeupIsLost == SlotSpec => []NoLostWakeup
BY SlotInvariant, PTL DEF SlotInv

\* Never more than MaxConcurrent runs of a workflow are inside.
THEOREM CapIsRespected == SlotSpec => []CapRespected
<1>1. SlotInv => CapRespected
  <2> SUFFICES ASSUME SlotInv, NEW w \in Workflows
               PROVE  Cardinality(Inside(w)) <= MaxConcurrent
    BY DEF CapRespected, Inside
  <2>1. Inside(w) \in SUBSET Using(w) /\ Using(w) \in SUBSET Runs
    BY DEF Inside, Using, InPhase
  <2>2. IsFiniteSet(Using(w)) /\ Cardinality(Using(w)) \in Nat
    BY <2>1, RunSetFinite
  <2>3. Cardinality(Inside(w)) \in Nat /\ Cardinality(Inside(w)) <= Cardinality(Using(w))
    BY <2>1, <2>2, RunSetFinite, FS_Subset
  <2>4. permits[w] \in Nat /\ permits[w] + Cardinality(Using(w)) = MaxConcurrent
    BY DEF SlotInv, Shape, SlotTypeOK, Accounting, PermitsConserved, Using
  <2>. QED  BY <2>2, <2>3, <2>4
<1>. QED  BY <1>1, SlotInvariant, PTL

\* The whole account of the permits balances in every reachable state.
THEOREM PermitsAlwaysBalance == SlotSpec => []PermitsBalance
BY PermitsAreConserved, CapIsRespected, StatusIsTruthful, NoWakeupIsLost, PTL DEF PermitsBalance

\* First come, first served.
THEOREM NobodyIsOvertaken == SlotSpec => NoOvertaking
<1> DEFINE Fair == \A r, q \in Runs :
              /\ WorkflowOf[r] = WorkflowOf[q]
              /\ phase[q] = "pending" /\ phase'[q] = "pending"
              /\ phase[r] \in {"outside", "pending"} /\ phase'[r] \in {"granted", "inside"}
              => phase[r] = "pending" /\ Ahead(WorkflowOf[r], r, q)
<1>1. SlotInv /\ [SlotNext]_slotVars => [Fair]_slotVars
  <2> SUFFICES ASSUME SlotInv, SlotNext, NEW r \in Runs, NEW q \in Runs,
                      WorkflowOf[r] = WorkflowOf[q],
                      phase[q] = "pending", phase'[q] = "pending",
                      phase[r] \in {"outside", "pending"},
                      phase'[r] \in {"granted", "inside"}
               PROVE  phase[r] = "pending" /\ Ahead(WorkflowOf[r], r, q)
    OBVIOUS
  <2>a. phase \in [Runs -> Phases]
    BY DEF SlotInv, Shape, SlotTypeOK
  <2>1. ASSUME NEW s \in Runs, NEW p \in {"inside", "outside"}, NEW n,
               phase[s] \notin {"outside", "pending"},
               NEW S \in SUBSET Pending(WorkflowOf[s]),
               IsWoken(WorkflowOf[s], n, S), Move(s, p, S)
        PROVE  phase[r] = "pending" /\ Ahead(WorkflowOf[r], r, q)
    <3>1. r \in S /\ phase[r] = "pending" /\ WorkflowOf[s] = WorkflowOf[r]
      BY <2>1 DEF Move, Pending, InPhase
    <3>2. q \in Pending(WorkflowOf[s]) \ S
      BY <2>1, <3>1 DEF Move, Pending, InPhase
    <3>. QED  BY <2>1, <3>1, <3>2 DEF IsWoken
  <2>2. ASSUME NEW s \in Runs, EnterFree(s)
        PROVE  phase[r] = "pending" /\ Ahead(WorkflowOf[r], r, q)
    <3>1. s = r /\ ~Locked(WorkflowOf[q])
      BY <2>2, <2>a DEF EnterFree
    <3>2. \E i \in DOMAIN waiters[WorkflowOf[q]] : waiters[WorkflowOf[q]][i] = q
      BY SlotsAssumption DEF SlotInv, Shape, QueueExact, InPhase, Queued
    <3>. QED  BY <3>1, <3>2 DEF Locked
  <2>3. ASSUME NEW s \in Runs, EnterBusy(s) \/ CancelQueued(s)
        PROVE  FALSE
    BY <2>3, <2>a DEF EnterBusy, CancelQueued
  <2>4. ASSUME NEW s \in Runs, Resume(s)
        PROVE  phase[r] = "pending" /\ Ahead(WorkflowOf[r], r, q)
    BY <2>1, <2>4 DEF Resume
  <2>5. ASSUME NEW s \in Runs, Unwind(s)
        PROVE  phase[r] = "pending" /\ Ahead(WorkflowOf[r], r, q)
    BY <2>1, <2>5 DEF Unwind, UnwindWith
  <2>6. ASSUME NEW s \in Runs, Leave(s)
        PROVE  phase[r] = "pending" /\ Ahead(WorkflowOf[r], r, q)
    BY <2>1, <2>6 DEF Leave
  <2>7. ASSUME Restart PROVE FALSE
    BY <2>7 DEF Restart
  <2>. QED  BY <2>2, <2>3, <2>4, <2>5, <2>6, <2>7 DEF SlotNext
<1>. QED  BY <1>1, SlotInvariant, PTL DEF SlotSpec, NoOvertaking

-----------------------------------------------------------------------------
(* Refinement: a step of the slots is a step of the bounded admission, or  *)
(* leaves its state alone.                                                 *)

\* The permit a granted run holds is room for it: the runs of its workflow that
\* are inside are fewer than the limit.
LEMMA GrantedHasRoom ==
    ASSUME SlotInv, NEW r \in Runs,
           phase[r] = "granted" \/ (phase[r] = "outside" /\ permits[WorkflowOf[r]] # 0)
    PROVE  Abstract!Room(r)
<1> DEFINE w == WorkflowOf[r]
<1>1. w \in Workflows
  BY SlotsAssumption
<1>2. Inside(w) \in SUBSET Using(w) /\ Using(w) \in SUBSET Runs
  BY DEF Inside, Using, InPhase
<1>3. IsFiniteSet(Using(w)) /\ Cardinality(Using(w)) \in Nat
  BY <1>2, RunSetFinite
<1>4. permits[w] \in Nat /\ permits[w] + Cardinality(Using(w)) = MaxConcurrent
  BY <1>1 DEF SlotInv, Shape, SlotTypeOK, Accounting, PermitsConserved, Using
<1>5. Cardinality(Inside(w)) \in Nat /\ Cardinality(Inside(w)) <= Cardinality(Using(w))
  BY <1>2, <1>3, RunSetFinite, FS_Subset
<1>6. phase[r] = "granted" => Cardinality(Inside(w)) < Cardinality(Using(w))
  <2>1. SUFFICES ASSUME phase[r] = "granted" PROVE Inside(w) # Using(w)
    BY <1>2, <1>3, <1>5, FS_Subset
  <2>2. r \in Using(w) /\ r \notin Inside(w)
    BY <2>1 DEF Inside, Using, InPhase
  <2>. QED  BY <2>2
<1>7. Cardinality(Inside(w)) < MaxConcurrent
  <2>1. MaxConcurrent \in Nat
    BY SlotsAssumption
  <2>2. CASE phase[r] = "granted"
    BY <1>3, <1>4, <1>5, <1>6, <2>1, <2>2
  <2>3. CASE permits[w] # 0
    BY <1>3, <1>4, <1>5, <2>1, <2>3
  <2>. QED  BY <2>2, <2>3
<1>8. {q \in InSlot : WorkflowOf[q] = WorkflowOf[r]} = Inside(w)
  BY DEF InSlot, Inside, InPhase
<1>9. \A S : Abstract!Cardinality(S) = Cardinality(S)
  BY DEF Abstract!Cardinality, Cardinality
<1>. QED  BY <1>7, <1>8, <1>9 DEF Abstract!Room

\* RunSlots implements BoundedAdmission: whatever the order of hand-overs and
\* cancellations, a run comes inside only when there is room for it.
THEOREM SlotsImplementAdmission == SlotSpec => ImplementsAdmission
<1>1. SlotInit => Abstract!AdmissionInit
  BY DEF SlotInit, Abstract!AdmissionInit, InSlot, InQueue, Queued
<1>2. SlotInv /\ [SlotNext]_slotVars => [Abstract!AdmissionNext]_<<InSlot, InQueue>>
  <2> SUFFICES ASSUME SlotInv, [SlotNext]_slotVars
               PROVE  Abstract!AdmissionNext \/ (InSlot' = InSlot /\ InQueue' = InQueue)
    BY DEF Abstract!admissionVars
  <2>a. phase \in [Runs -> Phases]
    BY DEF SlotInv, Shape, SlotTypeOK
  <2>1. ASSUME NEW r \in Runs, EnterFree(r)
        PROVE  Abstract!Take(r)
    <3>1. Abstract!Room(r)
      BY <2>1, GrantedHasRoom DEF EnterFree, Locked
    <3>2. r \notin InSlot \cup InQueue
      BY <2>1 DEF EnterFree, InSlot, InQueue, Queued
    <3>3. InSlot' = InSlot \cup {r} /\ InQueue' = InQueue
      BY <2>1, <2>a DEF EnterFree, InSlot, InQueue, Queued, Phases
    <3>. QED  BY <3>1, <3>2, <3>3 DEF Abstract!Take
  <2>2. ASSUME NEW r \in Runs, EnterBusy(r)
        PROVE  Abstract!Ask(r)
    <3>1. r \notin InSlot \cup InQueue
      BY <2>2 DEF EnterBusy, InSlot, InQueue, Queued
    <3>2. InSlot' = InSlot /\ InQueue' = InQueue \cup {r}
      BY <2>2, <2>a DEF EnterBusy, InSlot, InQueue, Queued, Phases
    <3>. QED  BY <3>1, <3>2 DEF Abstract!Ask
  <2>3. ASSUME NEW r \in Runs, NEW p, NEW S \in SUBSET Pending(WorkflowOf[r]), Move(r, p, S),
               phase[r] # "pending"
        PROVE  \A q \in Runs : q # r =>
                  /\ phase'[q] \in Queued <=> phase[q] \in Queued
                  /\ phase'[q] = "inside" <=> phase[q] = "inside"
    BY <2>3 DEF Move, Pending, InPhase, Queued
  <2>4. ASSUME NEW r \in Runs, Resume(r)
        PROVE  Abstract!Admit(r)
    <3>1. Abstract!Room(r) /\ r \in InQueue
      BY <2>4, GrantedHasRoom DEF Resume, InQueue, Queued
    <3>2. phase'[r] = "inside" /\ r \notin InQueue'
      BY <2>4, <2>a DEF Resume, Move, InQueue, Queued
    <3>3. InSlot' = InSlot \cup {r} /\ InQueue' = InQueue \ {r}
      BY <2>4, <2>3, <3>2 DEF Resume, InSlot, InQueue
    <3>. QED  BY <3>1, <3>3 DEF Abstract!Admit
  <2>5. ASSUME NEW r \in Runs, CancelQueued(r)
        PROVE  InSlot' = InSlot /\ InQueue' = InQueue
    BY <2>5, <2>a DEF CancelQueued, InSlot, InQueue, Queued, Phases
  <2>6. ASSUME NEW r \in Runs, Unwind(r)
        PROVE  Abstract!GiveUp(r)
    <3>1. r \in InQueue /\ r \notin InSlot
      BY <2>6 DEF Unwind, UnwindWith, InQueue, InSlot, Queued
    <3>2. phase'[r] = "outside" /\ r \notin InQueue' /\ r \notin InSlot'
      BY <2>6, <2>a DEF Unwind, UnwindWith, Move, InQueue, InSlot, Queued
    <3>3. InSlot' = InSlot /\ InQueue' = InQueue \ {r}
      BY <2>6, <2>3, <3>1, <3>2 DEF Unwind, UnwindWith, InSlot, InQueue
    <3>. QED  BY <3>1, <3>3 DEF Abstract!GiveUp
  <2>7. ASSUME NEW r \in Runs, Leave(r)
        PROVE  Abstract!Release(r)
    <3>1. r \in InSlot /\ r \notin InQueue
      BY <2>7 DEF Leave, InQueue, InSlot, Queued
    <3>2. phase'[r] = "outside" /\ r \notin InQueue' /\ r \notin InSlot'
      BY <2>7, <2>a DEF Leave, Move, InQueue, InSlot, Queued
    <3>3. InSlot' = InSlot \ {r} /\ InQueue' = InQueue
      BY <2>7, <2>3, <3>1, <3>2 DEF Leave, InSlot, InQueue
    <3>. QED  BY <3>1, <3>3 DEF Abstract!Release
  <2>8. ASSUME Restart
        PROVE  Abstract!Reset
    BY <2>8 DEF Restart, Abstract!Reset, InSlot, InQueue, Queued
  <2>9. ASSUME UNCHANGED slotVars
        PROVE  InSlot' = InSlot /\ InQueue' = InQueue
    BY <2>9 DEF slotVars, InSlot, InQueue
  <2>. QED
    BY <2>1, <2>2, <2>4, <2>5, <2>6, <2>7, <2>8, <2>9 DEF SlotNext, Abstract!AdmissionNext
<1>. QED
  BY <1>1, <1>2, SlotInvariant, PTL
     DEF SlotSpec, ImplementsAdmission, Abstract!AdmissionSpec, Abstract!admissionVars

-----------------------------------------------------------------------------
(* The session manager uses the slots as RunSlots says                     *)

LEMMA EnterSlotIsSlotStep ==
    ASSUME NEW r \in Runs, EnterSlot(r)
    PROVE  SlotNext
BY DEF EnterSlot, SlotNext

\* Every step of the session manager is a step of the slots or leaves them alone.
LEMMA StepIsSlotStep == [ManagerNext]_vars => [SlotNext]_slotVars
<1> SUFFICES ASSUME [ManagerNext]_vars
             PROVE  SlotNext \/ UNCHANGED slotVars
  OBVIOUS
<1>1. CASE UNCHANGED vars
  BY <1>1 DEF vars
<1>2. ASSUME NEW s \in Sessions, Create(s) \/ Delete(s) \/ Speak(s)
      PROVE  UNCHANGED slotVars
  BY <1>2 DEF Create, Delete, Speak
<1>3. ASSUME NEW w \in Workflows, RemoveWorkflow(w)
      PROVE  UNCHANGED slotVars
  BY <1>3 DEF RemoveWorkflow
<1>4. ASSUME NEW r \in Runs, Submit(r)
      PROVE  SlotNext \/ UNCHANGED slotVars
  <2>1. UNCHANGED slotVars \/ EnterSlot(r)
    BY <1>4 DEF Submit
  <2>. QED  BY <2>1, EnterSlotIsSlotStep
<1>5. ASSUME NEW r \in Runs, DeleteRun(r)
      PROVE  UNCHANGED slotVars
  BY <1>5 DEF DeleteRun
<1>6. ASSUME NEW r \in Runs, CancelUnguarded(r) \/ CancelWaiting(r) \/ CancelRunning(r)
      PROVE  SlotNext \/ UNCHANGED slotVars
  BY <1>6 DEF CancelUnguarded, CancelWaiting, CancelRunning, SlotNext
<1>7. ASSUME NEW r \in Runs, Opened(r)
      PROVE  SlotNext
  BY <1>7, EnterSlotIsSlotStep DEF Opened
<1>8. ASSUME NEW r \in Runs, SlotGranted(r) \/ Reply(r) \/ Fail(r) \/ Closed(r) \/ Withdraw(r)
      PROVE  SlotNext \/ UNCHANGED slotVars
  BY <1>8 DEF SlotGranted, Reply, Fail, Closed, Withdraw, SlotNext
<1>9. ASSUME NEW r \in Runs, ThreadStep(r)
      PROVE  UNCHANGED slotVars
  BY <1>9 DEF ThreadStep, TakeJob, OpenRow, RunCrew, CloseRow, CountRun, TrimTable, JobStep
<1>10. ASSUME Crash
       PROVE  SlotNext
  BY <1>10 DEF Crash, SlotNext
<1>. QED
  BY <1>1, <1>2, <1>3, <1>4, <1>5, <1>6, <1>7, <1>8, <1>9, <1>10 DEF ManagerNext, CallStep

\* SessionManager implements RunSlots: no path through process_message, and no
\* crash, takes or gives back a slot outside _run_slot.
THEOREM ManagerImplementsSlots == ManagerSpec => SlotSpec
<1>1. ManagerInit => SlotInit
  BY DEF ManagerInit
<1>. QED  BY <1>1, StepIsSlotStep, PTL DEF ManagerSpec, SlotSpec

\* In the whole session manager, with its records, sessions, threads and
\* crashes, at most MaxConcurrent runs of a workflow are inside their slot.
THEOREM ManagerRespectsCap == ManagerSpec => []CapRespected
BY ManagerImplementsSlots, CapIsRespected, PTL

-----------------------------------------------------------------------------
(* The session store                                                       *)

Entries     == {"user", "assistant", "notice", "voice"} \X (Runs \cup Sessions)
SessionType == [active : BOOLEAN, turns : Nat, log : Seq(Entries)]

\* One message more in a session: it keeps what was said.
Longer(old, new) == IsPrefix(old.log, new.log) /\ old.turns <= new.turns

LEMMA SaidIsLonger ==
    ASSUME NEW x \in SessionType, NEW e \in Entries, NEW role, NEW who, e = <<role, who>>
    PROVE  Said(x, role, who) \in SessionType /\ Longer(x, Said(x, role, who))
<1>1. /\ x.log \in Seq(Entries) /\ Len(x.log) \in Nat
      /\ DOMAIN x.log = 1..Len(x.log)
      /\ \A i \in 1..Len(x.log) : x.log[i] \in Entries
  BY LenProperties DEF SessionType
<1> DEFINE new == Append(x.log, e)
<1>2. /\ new \in Seq(Entries) /\ Len(new) = Len(x.log) + 1
      /\ \A i \in 1..Len(x.log) : new[i] = x.log[i]
  BY <1>1, AppendProperties
<1>3. Said(x, role, who) = [x EXCEPT !.log = new]
  BY DEF Said
<1>4. /\ Said(x, role, who) \in SessionType
      /\ Said(x, role, who).log = new /\ Said(x, role, who).turns = x.turns
  BY <1>2, <1>3 DEF SessionType
<1>. HIDE DEF new
<1>5. SubSeq(x.log, 1, Len(x.log)) = SubSeq(new, 1, Len(x.log))
  <2> DEFINE p == SubSeq(x.log, 1, Len(x.log))
             q == SubSeq(new, 1, Len(x.log))
  <2>1. /\ p \in Seq(Entries)
        /\ Len(p) = IF 1 <= Len(x.log) THEN Len(x.log) - 1 + 1 ELSE 0
        /\ \A i \in 1..(Len(x.log) - 1 + 1) : p[i] = x.log[1 + i - 1]
    BY <1>1, SubSeqProperties
  <2>2. \A i \in 1..Len(x.log) : new[i] \in Entries
    BY <1>1, <1>2
  <2>3. /\ q \in Seq(Entries)
        /\ Len(q) = IF 1 <= Len(x.log) THEN Len(x.log) - 1 + 1 ELSE 0
        /\ \A i \in 1..(Len(x.log) - 1 + 1) : q[i] = new[1 + i - 1]
    BY <1>1, <2>2, SubSeqProperties
  <2>. HIDE DEF p, q
  <2>4. Len(p) = Len(x.log) /\ Len(q) = Len(x.log)
    BY <1>1, <2>1, <2>3
  <2>5. \A i \in 1..Len(p) : p[i] = q[i]
    BY <1>1, <1>2, <2>1, <2>3, <2>4
  <2>6. p = q
    BY <2>1, <2>3, <2>4, <2>5, SeqEqual
  <2>. QED  BY <2>6 DEF p, q
<1>6. x.turns \in Nat
  BY DEF SessionType
<1>. QED  BY <1>1, <1>2, <1>4, <1>5, <1>6 DEF Longer, IsPrefix

\* A prefix agrees with the whole, element by element.
LEMMA PrefixAgrees ==
    ASSUME NEW s \in Seq(Entries), NEW t \in Seq(Entries), IsPrefix(s, t)
    PROVE  /\ Len(s) \in Nat /\ Len(t) \in Nat /\ Len(s) <= Len(t)
           /\ \A i \in 1..Len(s) : s[i] = t[i]
<1>1. /\ Len(s) \in Nat /\ Len(t) \in Nat /\ Len(s) <= Len(t)
      /\ SubSeq(s, 1, Len(s)) = SubSeq(t, 1, Len(s))
  BY LenProperties DEF IsPrefix
<1>2. (\A i \in 1..Len(s) : s[i] \in Entries) /\ (\A i \in 1..Len(t) : t[i] \in Entries)
  BY LenProperties
<1>3. \A i \in 1..Len(s) : t[i] \in Entries
  BY <1>1, <1>2
<1>4. \A i \in 1..(Len(s) - 1 + 1) : SubSeq(s, 1, Len(s))[i] = s[1 + i - 1]
  BY <1>1, <1>2, SubSeqProperties
<1>5. \A i \in 1..(Len(s) - 1 + 1) : SubSeq(t, 1, Len(s))[i] = t[1 + i - 1]
  BY <1>1, <1>3, SubSeqProperties
<1>. QED  BY <1>1, <1>4, <1>5

LEMMA LongerIsTransitive ==
    ASSUME NEW x \in SessionType, NEW y \in SessionType, NEW z \in SessionType,
           Longer(x, y), Longer(y, z)
    PROVE  Longer(x, z)
<1>1. /\ x.log \in Seq(Entries) /\ y.log \in Seq(Entries) /\ z.log \in Seq(Entries)
      /\ x.turns \in Nat /\ y.turns \in Nat /\ z.turns \in Nat
  BY DEF SessionType
<1>2. IsPrefix(x.log, y.log) /\ IsPrefix(y.log, z.log) /\ x.turns <= z.turns
  BY <1>1 DEF Longer
<1>3. ASSUME NEW s \in Seq(Entries), NEW t \in Seq(Entries),
             Len(s) <= Len(t), \A i \in 1..Len(s) : s[i] = t[i]
      PROVE  IsPrefix(s, t)
  <2>1. Len(s) \in Nat /\ Len(t) \in Nat
    BY LenProperties
  <2>2. (\A i \in 1..Len(s) : s[i] \in Entries) /\ (\A i \in 1..Len(s) : t[i] \in Entries)
    BY <1>3, LenProperties
  <2>3. /\ SubSeq(s, 1, Len(s)) \in Seq(Entries)
        /\ Len(SubSeq(s, 1, Len(s))) = IF 1 <= Len(s) THEN Len(s) - 1 + 1 ELSE 0
        /\ \A i \in 1..(Len(s) - 1 + 1) : SubSeq(s, 1, Len(s))[i] = s[1 + i - 1]
    BY <2>1, <2>2, SubSeqProperties
  <2>4. /\ SubSeq(t, 1, Len(s)) \in Seq(Entries)
        /\ Len(SubSeq(t, 1, Len(s))) = IF 1 <= Len(s) THEN Len(s) - 1 + 1 ELSE 0
        /\ \A i \in 1..(Len(s) - 1 + 1) : SubSeq(t, 1, Len(s))[i] = t[1 + i - 1]
    BY <2>1, <2>2, SubSeqProperties
  <2>5. \A i \in 1..Len(SubSeq(s, 1, Len(s))) :
           SubSeq(s, 1, Len(s))[i] = SubSeq(t, 1, Len(s))[i]
    BY <1>3, <2>1, <2>3, <2>4
  <2>6. Len(SubSeq(s, 1, Len(s))) = Len(SubSeq(t, 1, Len(s)))
    BY <2>3, <2>4
  <2>7. SubSeq(s, 1, Len(s)) = SubSeq(t, 1, Len(s))
    BY <2>3, <2>4, <2>5, <2>6, SeqEqual
  <2>. QED  BY <1>3, <2>7 DEF IsPrefix
<1>4. /\ Len(x.log) \in Nat /\ Len(y.log) \in Nat /\ Len(z.log) \in Nat
      /\ Len(x.log) <= Len(y.log) /\ Len(y.log) <= Len(z.log)
      /\ \A i \in 1..Len(x.log) : x.log[i] = y.log[i]
      /\ \A i \in 1..Len(y.log) : y.log[i] = z.log[i]
  BY <1>1, <1>2, PrefixAgrees
<1>5. IsPrefix(x.log, z.log)
  <2>1. Len(x.log) <= Len(z.log)
    BY <1>4
  <2>2. \A i \in 1..Len(x.log) : i \in 1..Len(y.log) /\ x.log[i] = z.log[i]
    BY <1>4
  <2>. QED  BY <1>1, <1>3, <2>1, <2>2
<1>. QED  BY <1>2, <1>5 DEF Longer

LEMMA LongerIsReflexive ==
    ASSUME NEW x \in SessionType
    PROVE  Longer(x, x)
<1>1. Len(x.log) \in Nat /\ x.turns \in Nat
  BY LenProperties DEF SessionType
<1>. QED  BY <1>1 DEF Longer, IsPrefix

StoreShape ==
    /\ sess \in [Sessions -> SessionType]
    /\ disk \in [DOMAIN disk -> SessionType]
    /\ made \subseteq Sessions
    /\ listed \subseteq made /\ gone \subseteq made /\ DOMAIN disk \subseteq made

\* Session s has grown, in memory or in the file, too.
Grows(s) ==
    /\ \E x \in SessionType : Longer(sess[s], x) /\ sess' = [sess EXCEPT ![s] = x]
    /\ UNCHANGED <<listed, made, gone>>
    /\ SaveSessions \/ UNCHANGED disk

StoreStep ==
    \/ \E s \in Sessions : CreateSession(s) \/ DeleteSession(s) \/ Grows(s)
    \/ \E file \in {disk, EmptyFile} : LoadSessions(file)
    \/ UNCHANGED storeVars

LEMMA MessagesGrow ==
    ASSUME StoreShape, NEW s \in Sessions,
           \/ \E r \in Runs : TakeMessage(s, r) \/ RefuseMessage(s, r) \/ AnswerMessage(s, r)
           \/ SpeakTurn(s)
    PROVE  Grows(s)
<1>0. sess[s] \in SessionType /\ sess \in [Sessions -> SessionType]
  BY DEF StoreShape
<1>1. ASSUME NEW x \in SessionType
      PROVE  NextTurn(x) \in SessionType /\ Longer(x, NextTurn(x))
  <2>1. NextTurn(x) = [x EXCEPT !.turns = @ + 1]
    BY DEF NextTurn
  <2>2. NextTurn(x) \in SessionType /\ NextTurn(x).log = x.log /\ NextTurn(x).turns = x.turns + 1
    BY <2>1 DEF SessionType
  <2>3. Longer(x, x) /\ x.turns \in Nat
    BY LongerIsReflexive DEF SessionType
  <2>. QED  BY <2>2, <2>3 DEF Longer
<1>2. \A x \in SessionType, role \in {"user", "assistant", "notice", "voice"},
        who \in Runs \cup Sessions :
          Said(x, role, who) \in SessionType /\ Longer(x, Said(x, role, who))
  <2>1. ASSUME NEW x \in SessionType, NEW role \in {"user", "assistant", "notice", "voice"},
               NEW who \in Runs \cup Sessions
        PROVE  Said(x, role, who) \in SessionType /\ Longer(x, Said(x, role, who))
    <3>1. <<role, who>> \in Entries
      BY DEF Entries
    <3>. QED  BY <3>1, SaidIsLonger
  <2>. QED  BY <2>1
<1>3. ASSUME NEW r \in Runs, TakeMessage(s, r)
      PROVE  Grows(s)
  <2>1. PICK x \in SessionType : x = Said(sess[s], "user", r) /\ Longer(sess[s], x)
    BY <1>0, <1>2
  <2>2. NextTurn(x) \in SessionType /\ Longer(sess[s], NextTurn(x))
    BY <1>0, <1>1, <2>1, LongerIsTransitive
  <2>3. sess' = [sess EXCEPT ![s] = NextTurn(x)]
    BY <1>0, <1>3, <2>1 DEF TakeMessage
  <2>. QED  BY <1>3, <2>2, <2>3 DEF TakeMessage, Grows
<1>4. ASSUME NEW r \in Runs, AnswerMessage(s, r)
      PROVE  Grows(s)
  <2>1. PICK x \in SessionType : x = Said(sess[s], "assistant", r) /\ Longer(sess[s], x)
    BY <1>0, <1>2
  <2>2. sess' = [sess EXCEPT ![s] = x]
    BY <1>0, <1>4, <2>1 DEF AnswerMessage
  <2>. QED  BY <1>4, <2>1, <2>2 DEF AnswerMessage, Grows
<1>5. CASE SpeakTurn(s)
  <2>1. PICK x \in SessionType : x = Said(sess[s], "voice", s) /\ Longer(sess[s], x)
    BY <1>0, <1>2
  <2>2. NextTurn(x) \in SessionType /\ Longer(sess[s], NextTurn(x))
    BY <1>0, <1>1, <2>1, LongerIsTransitive
  <2>3. sess' = [sess EXCEPT ![s] = NextTurn(x)]
    BY <1>0, <1>5, <2>1 DEF SpeakTurn
  <2>. QED  BY <1>5, <2>2, <2>3 DEF SpeakTurn, Grows
<1>6. ASSUME NEW r \in Runs, RefuseMessage(s, r)
      PROVE  Grows(s)
  <2>1. PICK x \in SessionType : x = Said(sess[s], "user", r) /\ Longer(sess[s], x)
    BY <1>0, <1>2
  <2>2. PICK y \in SessionType : y = NextTurn(x) /\ Longer(sess[s], y)
    BY <1>0, <1>1, <2>1, LongerIsTransitive
  <2>3. PICK z \in SessionType : z = Said(y, "notice", r) /\ Longer(sess[s], z)
    BY <1>0, <1>2, <2>2, LongerIsTransitive
  <2>4. /\ [z EXCEPT !.active = FALSE] \in SessionType
        /\ [z EXCEPT !.active = FALSE].log = z.log /\ [z EXCEPT !.active = FALSE].turns = z.turns
    BY DEF SessionType
  <2>5. Longer(sess[s], [z EXCEPT !.active = FALSE])
    BY <2>3, <2>4 DEF Longer
  <2>6. sess' = [sess EXCEPT ![s] = [z EXCEPT !.active = FALSE]]
    BY <1>0, <1>6, <2>1, <2>2, <2>3 DEF RefuseMessage
  <2>. QED  BY <1>6, <2>4, <2>5, <2>6 DEF RefuseMessage, Grows
<1>. QED  BY <1>3, <1>4, <1>5, <1>6

\* Every step of the session manager does one of a few things to the sessions.
LEMMA StepIsStoreStep == StoreShape /\ [ManagerNext]_vars => StoreStep
<1> SUFFICES ASSUME StoreShape, [ManagerNext]_vars
             PROVE  StoreStep
  OBVIOUS
<1>a. SessionOf \in [Runs -> Sessions]
  BY ManagerAssumption
<1>1. CASE UNCHANGED vars
  BY <1>1 DEF vars, storeVars, StoreStep
<1>2. ASSUME NEW s \in Sessions, Create(s) \/ Delete(s)
      PROVE  StoreStep
  BY <1>2 DEF Create, Delete, StoreStep
<1>3. ASSUME NEW s \in Sessions, Speak(s)
      PROVE  StoreStep
  BY <1>3, MessagesGrow DEF Speak, StoreStep
<1>4. ASSUME NEW w \in Workflows, RemoveWorkflow(w)
      PROVE  StoreStep
  BY <1>4 DEF RemoveWorkflow, StoreStep
<1>5. ASSUME NEW r \in Runs, Submit(r)
      PROVE  StoreStep
  <2>1. \/ UNCHANGED storeVars
        \/ RefuseMessage(SessionOf[r], r)
        \/ TakeMessage(SessionOf[r], r)
    BY <1>5 DEF Submit
  <2>2. SessionOf[r] \in Sessions
    BY <1>a
  <2>. QED  BY <2>1, <2>2, MessagesGrow DEF StoreStep
<1>6. ASSUME NEW r \in Runs,
             \/ DeleteRun(r)
             \/ CancelUnguarded(r) \/ CancelWaiting(r) \/ CancelRunning(r)
      PROVE  StoreStep
  BY <1>6 DEF DeleteRun, CancelUnguarded, CancelWaiting, CancelRunning, CloseFailed, StoreStep
<1>7. ASSUME NEW r \in Runs, Opened(r) \/ SlotGranted(r) \/ Fail(r) \/ Closed(r) \/ Withdraw(r)
      PROVE  StoreStep
  BY <1>7 DEF Opened, SlotGranted, Fail, Closed, Withdraw, CloseFailed, StoreStep
<1>8. ASSUME NEW r \in Runs, Reply(r)
      PROVE  StoreStep
  <2>1. AnswerMessage(SessionOf[r], r) /\ SessionOf[r] \in Sessions
    BY <1>a, <1>8 DEF Reply
  <2>. QED  BY <2>1, MessagesGrow DEF StoreStep
<1>9. ASSUME NEW r \in Runs, ThreadStep(r)
      PROVE  StoreStep
  BY <1>9 DEF ThreadStep, TakeJob, OpenRow, RunCrew, CloseRow, CountRun, TrimTable, JobStep, StoreStep
<1>10. ASSUME Crash
       PROVE  StoreStep
  BY <1>10 DEF Crash, StoreStep
<1>. QED
  BY <1>1, <1>2, <1>3, <1>4, <1>5, <1>6, <1>7, <1>8, <1>9, <1>10 DEF ManagerNext, CallStep

LEMMA StoreShapeInit == ManagerInit => StoreShape /\ FileFollowsMemory
<1>1. NewSession \in SessionType
  BY EmptySeq DEF NewSession, SessionType
<1>. QED
  BY <1>1 DEF ManagerInit, StoreInit, StoreShape, FileFollowsMemory, EmptyFile

LEMMA StoreShapeNext ==
    StoreShape /\ FileFollowsMemory /\ StoreStep => (StoreShape /\ FileFollowsMemory)'
<1> SUFFICES ASSUME StoreShape, FileFollowsMemory, StoreStep
             PROVE  (StoreShape /\ FileFollowsMemory)'
  OBVIOUS
<1> USE DEF StoreShape
<1>0. FileFollowsMemory <=> \A s \in DOMAIN disk \cap listed : Longer(disk[s], sess[s])
  BY DEF FileFollowsMemory, Longer
<1>p. FileFollowsMemory' <=> \A s \in DOMAIN disk' \cap listed' : Longer(disk'[s], sess'[s])
  BY DEF FileFollowsMemory, Longer
<1>n. NewSession \in SessionType
  BY EmptySeq DEF NewSession, SessionType
<1>e. EmptyFile \in [DOMAIN EmptyFile -> SessionType] /\ DOMAIN EmptyFile = {}
  BY DEF EmptyFile
<1>1. ASSUME sess' \in [Sessions -> SessionType], listed' \subseteq Sessions, SaveSessions,
             \A s \in DOMAIN disk \cap listed' : Longer(disk[s], sess'[s])
      PROVE  /\ disk' \in [DOMAIN disk' -> SessionType]
             /\ DOMAIN disk' \subseteq listed' \cup DOMAIN disk
             /\ \A s \in DOMAIN disk' \cap listed' : Longer(disk'[s], sess'[s])
  <2>1. CASE disk' = [s \in listed' |-> sess'[s]]
    BY <1>1, <2>1, LongerIsReflexive
  <2>2. CASE disk' = disk
    BY <1>1, <2>2
  <2>3. CASE disk' = EmptyFile
    BY <1>e, <2>3
  <2>. QED  BY <1>1, <2>1, <2>2, <2>3 DEF SaveSessions
<1>2. ASSUME NEW s \in Sessions, CreateSession(s)
      PROVE  (StoreShape /\ FileFollowsMemory)'
  <2>1. /\ s \notin made /\ made' = made \cup {s} /\ listed' = listed \cup {s} /\ gone' = gone
        /\ sess' = [sess EXCEPT ![s] = NewSession] /\ SaveSessions
    BY <1>2 DEF CreateSession
  <2>2. sess' \in [Sessions -> SessionType] /\ listed' \subseteq Sessions
    BY <1>n, <2>1
  <2>3. \A q \in DOMAIN disk \cap listed' : Longer(disk[q], sess'[q])
    BY <1>0, <2>1
  <2>. QED  BY <1>1, <1>p, <2>1, <2>2, <2>3
<1>3. ASSUME NEW s \in Sessions, DeleteSession(s)
      PROVE  (StoreShape /\ FileFollowsMemory)'
  <2>1. /\ made' = made /\ listed' = listed \ {s} /\ gone' = gone \cup {s} /\ s \in listed
        /\ sess' = sess /\ SaveSessions
    BY <1>3 DEF DeleteSession
  <2>2. \A q \in DOMAIN disk \cap listed' : Longer(disk[q], sess'[q])
    BY <1>0, <2>1
  <2>. QED  BY <1>1, <1>p, <2>1, <2>2
<1>4. ASSUME NEW s \in Sessions, Grows(s)
      PROVE  (StoreShape /\ FileFollowsMemory)'
  <2>1. PICK x \in SessionType : Longer(sess[s], x) /\ sess' = [sess EXCEPT ![s] = x]
    BY <1>4 DEF Grows
  <2>2. made' = made /\ listed' = listed /\ gone' = gone /\ (SaveSessions \/ disk' = disk)
    BY <1>4 DEF Grows
  <2>3. sess' \in [Sessions -> SessionType]
    BY <2>1
  <2>4. ASSUME NEW q \in DOMAIN disk \cap listed'
        PROVE  Longer(disk[q], sess'[q])
    <3>1. Longer(disk[q], sess[q]) /\ disk[q] \in SessionType /\ sess[q] \in SessionType
      BY <1>0, <2>2
    <3>2. CASE q = s
      BY <2>1, <3>1, <3>2, LongerIsTransitive
    <3>3. CASE q # s
      BY <2>1, <3>1, <3>3
    <3>. QED  BY <3>2, <3>3
  <2>5. CASE SaveSessions
    BY <1>1, <1>p, <2>2, <2>3, <2>4, <2>5
  <2>6. CASE disk' = disk
    BY <1>p, <2>2, <2>3, <2>4, <2>6
  <2>. QED  BY <2>2, <2>5, <2>6
<1>5. ASSUME NEW file \in {disk, EmptyFile}, LoadSessions(file)
      PROVE  (StoreShape /\ FileFollowsMemory)'
  <2>1. /\ disk' = file /\ listed' = DOMAIN file /\ made' = made /\ gone' = gone
        /\ sess' = [s \in Sessions |-> IF s \in DOMAIN file THEN file[s] ELSE sess[s]]
    BY <1>5 DEF LoadSessions
  <2>2. file \in [DOMAIN file -> SessionType] /\ DOMAIN file \subseteq made
    BY <1>e
  <2>3. \A q \in DOMAIN file : sess'[q] = file[q] /\ file[q] \in SessionType
    BY <2>1, <2>2
  <2>4. \A q \in DOMAIN disk' \cap listed' : Longer(disk'[q], sess'[q])
    BY <2>1, <2>3, LongerIsReflexive
  <2>. QED  BY <1>p, <2>1, <2>2, <2>4
<1>6. ASSUME UNCHANGED storeVars
      PROVE  (StoreShape /\ FileFollowsMemory)'
  BY <1>0, <1>p, <1>6 DEF storeVars
<1>. QED  BY <1>2, <1>3, <1>4, <1>5, <1>6 DEF StoreStep

\* What sessions.json holds of a session is a prefix of what memory holds,
\* whether writes fail or are torn, and across restarts.
THEOREM FileAlwaysFollowsMemory == ManagerSpec => []FileFollowsMemory
<1>1. StoreShape /\ FileFollowsMemory /\ [ManagerNext]_vars => (StoreShape /\ FileFollowsMemory)'
  BY StepIsStoreStep, StoreShapeNext
<1>. QED  BY <1>1, StoreShapeInit, PTL DEF ManagerSpec

\* With writes that succeed, no call that still holds a deleted session brings
\* it back, in memory or in the file.
THEOREM DeletedSessionsStayDeleted ==
    ASSUME ~SaveMayFail
    PROVE  ManagerSpec => []DeletedStaysDeleted
<1> DEFINE Inv == /\ StoreShape /\ FileFollowsMemory
                  /\ gone \cap listed = {} /\ DOMAIN disk \subseteq listed
<1>1. ManagerInit => Inv
  BY StoreShapeInit DEF ManagerInit, StoreInit, EmptyFile
<1>2. Inv /\ [ManagerNext]_vars => Inv'
  <2> SUFFICES ASSUME Inv, [ManagerNext]_vars
               PROVE  (gone \cap listed = {} /\ DOMAIN disk \subseteq listed)'
    BY StepIsStoreStep, StoreShapeNext
  <2>a. StoreStep
    BY StepIsStoreStep
  <2>b. gone \subseteq made /\ listed \subseteq made
    BY DEF StoreShape
  <2>1. ASSUME NEW s \in Sessions, CreateSession(s) \/ DeleteSession(s) \/ Grows(s)
        PROVE  (gone \cap listed = {} /\ DOMAIN disk \subseteq listed)'
    <3>1. SaveSessions => DOMAIN disk' = listed'
      BY DEF SaveSessions
    <3>2. CASE CreateSession(s)
      BY <2>b, <3>1, <3>2 DEF CreateSession
    <3>3. CASE DeleteSession(s)
      BY <2>b, <3>1, <3>3 DEF DeleteSession
    <3>4. CASE Grows(s)
      BY <3>1, <3>4 DEF Grows
    <3>. QED  BY <2>1, <3>2, <3>3, <3>4
  <2>2. ASSUME NEW file \in {disk, EmptyFile}, LoadSessions(file)
        PROVE  (gone \cap listed = {} /\ DOMAIN disk \subseteq listed)'
    BY <2>2 DEF LoadSessions, EmptyFile
  <2>3. ASSUME UNCHANGED storeVars
        PROVE  (gone \cap listed = {} /\ DOMAIN disk \subseteq listed)'
    BY <2>3 DEF storeVars
  <2>. QED  BY <2>a, <2>1, <2>2, <2>3 DEF StoreStep
<1>3. Inv => DeletedStaysDeleted
  BY DEF DeletedStaysDeleted
<1>. QED  BY <1>1, <1>2, <1>3, PTL DEF ManagerSpec

-----------------------------------------------------------------------------
(* The calls and their sessions                                           *)

Calls == Live \cup Ended \cup {"idle"}

\* A call whose message was taken and is not answered yet.
Asking == {"opening", "executing"}

\* Steps that leave the sessions alone move calls on, or end them.
CallsMoveOn ==
    /\ UNCHANGED storeVars
    /\ call' \in [Runs -> Calls]
    /\ \A r \in Runs :
          \/ call'[r] = call[r]
          \/ call[r] = "opening" /\ call'[r] = "executing"
          \/ call[r] = "closing" /\ call'[r] = "replied"
          \/ call[r] \in Live /\ call'[r] \in {"failed", "cancelled"}

\* Whoever has a slot or queues for one is executing.
CallsOfSlots ==
    /\ call \in [Runs -> Calls]
    /\ phase \in [Runs -> Phases]
    /\ \A r \in Runs : phase[r] # "outside" => call[r] = "executing"

\* Every step is one of those that touch a session, or moves calls on.
LEMMA StepIsCallStep ==
    ASSUME CallsOfSlots, [ManagerNext]_vars
    PROVE  \/ \E s \in Sessions : Create(s) \/ Delete(s) \/ Speak(s)
           \/ \E r \in Runs : Submit(r) \/ Reply(r)
           \/ Crash
           \/ CallsMoveOn
<1> USE DEF Calls, Live, Ended, CallsOfSlots
<1>1. CASE UNCHANGED vars
  BY <1>1 DEF vars, managerVars, CallsMoveOn
<1>2. ASSUME NEW w \in Workflows, RemoveWorkflow(w)
      PROVE  CallsMoveOn
  BY <1>2 DEF RemoveWorkflow, CallsMoveOn
<1>3. ASSUME NEW r \in Runs, DeleteRun(r) \/ CancelWaiting(r)
      PROVE  CallsMoveOn
  BY <1>3 DEF DeleteRun, CancelWaiting, CallsMoveOn, managerVars
<1>4. ASSUME NEW r \in Runs, NEW c \in Calls, Become(r, c), UNCHANGED storeVars,
             \/ call[r] = "opening" /\ c = "executing"
             \/ call[r] = "closing" /\ c = "replied"
             \/ call[r] \in Live /\ c \in {"failed", "cancelled"}
      PROVE  CallsMoveOn
  BY <1>4 DEF Become, CallsMoveOn
<1>5. ASSUME NEW r \in Runs, CancelUnguarded(r) \/ CancelRunning(r)
      PROVE  CallsMoveOn
  BY <1>4, <1>5 DEF CancelUnguarded, CancelRunning, CloseFailed
<1>6. ASSUME NEW r \in Runs, Opened(r)
      PROVE  CallsMoveOn
  BY <1>4, <1>6 DEF Opened, EnterSlot
<1>7. ASSUME NEW r \in Runs, SlotGranted(r)
      PROVE  CallsMoveOn
  BY <1>7 DEF SlotGranted, CallsMoveOn
<1>8. ASSUME NEW r \in Runs, Fail(r) \/ Closed(r)
      PROVE  CallsMoveOn
  BY <1>4, <1>8 DEF Fail, Closed, CloseFailed
<1>9. ASSUME NEW r \in Runs, Withdraw(r)
      PROVE  CallsMoveOn
  <2>1. call[r] = "executing"
    BY <1>9 DEF Withdraw, Unwind, UnwindWith
  <2>. QED  BY <1>4, <1>9, <2>1 DEF Withdraw, CloseFailed
<1>10. ASSUME NEW r \in Runs, ThreadStep(r)
       PROVE  CallsMoveOn
  BY <1>10 DEF ThreadStep, TakeJob, OpenRow, RunCrew, CloseRow, CountRun, TrimTable, JobStep, CallsMoveOn
<1>. QED
  BY <1>1, <1>2, <1>3, <1>5, <1>6, <1>7, <1>8, <1>9, <1>10 DEF ManagerNext, CallStep

\* A step of the slots takes one run in or out; others are at most handed a permit.
LEMMA SlotStepOfOne ==
    ASSUME CallsOfSlots, NEW r \in Runs,
           \/ EnterFree(r) \/ EnterBusy(r) \/ Resume(r) \/ CancelQueued(r)
           \/ Unwind(r) \/ Leave(r)
    PROVE  /\ phase' \in [Runs -> Phases]
           /\ \A q \in Runs \ {r} : phase'[q] # "outside" => phase[q] # "outside"
           /\ Unwind(r) \/ Leave(r) => phase'[r] = "outside"
<1> USE DEF CallsOfSlots, Phases, Queued
<1>1. CASE EnterFree(r) \/ EnterBusy(r) \/ CancelQueued(r)
  BY <1>1 DEF EnterFree, EnterBusy, CancelQueued, Unwind, UnwindWith, Leave
<1>2. ASSUME NEW p \in Phases, NEW S \in SUBSET Pending(WorkflowOf[r]), Move(r, p, S)
      PROVE  /\ phase' \in [Runs -> Phases]
             /\ \A q \in Runs \ {r} : phase'[q] # "outside" => phase[q] # "outside"
             /\ phase'[r] = p
  BY <1>2 DEF Move, Pending, InPhase
<1>3. CASE Resume(r)
  BY <1>2, <1>3 DEF Resume, Unwind, UnwindWith, Leave
<1>4. CASE Unwind(r) \/ Leave(r)
  BY <1>2, <1>4 DEF Unwind, UnwindWith, Leave
<1>. QED  BY <1>1, <1>3, <1>4

LEMMA CallsOfSlotsInit == ManagerInit => CallsOfSlots
BY DEF ManagerInit, SlotInit, CallsOfSlots, Calls, Live, Ended, Phases, Queued

LEMMA CallsOfSlotsNext == CallsOfSlots /\ [ManagerNext]_vars => CallsOfSlots'
<1> SUFFICES ASSUME CallsOfSlots, [ManagerNext]_vars
             PROVE  CallsOfSlots'
  OBVIOUS
<1> USE DEF Calls, Live, Ended
<1>1. ASSUME UNCHANGED <<call, slotVars>>
      PROVE  CallsOfSlots'
  BY <1>1 DEF CallsOfSlots, slotVars
<1>2. ASSUME UNCHANGED call, UNCHANGED slotVars
      PROVE  CallsOfSlots'
  BY <1>2 DEF CallsOfSlots, slotVars
<1>3. ASSUME NEW r \in Runs, NEW c \in Calls, Become(r, c),
             \/ UNCHANGED slotVars /\ call[r] # "executing"
             \/ (EnterFree(r) \/ EnterBusy(r)) /\ c = "executing"
             \/ Unwind(r) \/ Leave(r)
      PROVE  CallsOfSlots'
  <2>1. call' \in [Runs -> Calls] /\ call'[r] = c /\ \A q \in Runs \ {r} : call'[q] = call[q]
    BY <1>3 DEF Become, CallsOfSlots
  <2>2. CASE UNCHANGED slotVars /\ call[r] # "executing"
    BY <2>1, <2>2 DEF CallsOfSlots, slotVars
  <2>3. CASE (EnterFree(r) \/ EnterBusy(r)) /\ c = "executing"
    BY <2>1, <2>3, SlotStepOfOne DEF CallsOfSlots
  <2>4. CASE Unwind(r) \/ Leave(r)
    BY <2>1, <2>4, SlotStepOfOne DEF CallsOfSlots
  <2>. QED  BY <1>3, <2>2, <2>3, <2>4
<1>4. CASE UNCHANGED vars
  BY <1>1, <1>4 DEF vars, managerVars
<1>5. ASSUME NEW s \in Sessions, Create(s) \/ Delete(s) \/ Speak(s)
      PROVE  CallsOfSlots'
  BY <1>1, <1>5 DEF Create, Delete, Speak, managerVars
<1>6. ASSUME NEW w \in Workflows, RemoveWorkflow(w)
      PROVE  CallsOfSlots'
  BY <1>1, <1>6 DEF RemoveWorkflow
<1>7. ASSUME NEW r \in Runs, EnterSlot(r)
      PROVE  CallsOfSlots'
  BY <1>3, <1>7 DEF EnterSlot
<1>8. ASSUME NEW r \in Runs, Submit(r)
      PROVE  CallsOfSlots'
  <2>1. call[r] = "idle"
    BY <1>8 DEF Submit
  <2>2. \/ EnterSlot(r)
        \/ UNCHANGED slotVars /\ \E c \in {"rejected", "limited", "opening"} : Become(r, c)
    BY <1>8 DEF Submit
  <2>. QED  BY <1>3, <1>7, <2>1, <2>2
<1>9. ASSUME NEW r \in Runs, DeleteRun(r) \/ ThreadStep(r)
      PROVE  CallsOfSlots'
  BY <1>1, <1>9 DEF DeleteRun, ThreadStep, TakeJob, OpenRow, RunCrew, CloseRow, CountRun, TrimTable,
     JobStep, managerVars
<1>10. ASSUME NEW r \in Runs, CancelUnguarded(r) \/ Closed(r)
       PROVE  CallsOfSlots'
  BY <1>3, <1>10 DEF CancelUnguarded, Closed
<1>11. ASSUME NEW r \in Runs, CancelWaiting(r) \/ SlotGranted(r)
       PROVE  CallsOfSlots'
  <2>1. call' = call /\ (CancelQueued(r) \/ Resume(r))
    BY <1>11 DEF CancelWaiting, SlotGranted, managerVars
  <2>2. phase[r] # "outside"
    BY <2>1 DEF CancelQueued, Resume
  <2>. QED  BY <2>1, <2>2, SlotStepOfOne DEF CallsOfSlots
<1>12. ASSUME NEW r \in Runs, CancelRunning(r) \/ Fail(r) \/ Withdraw(r) \/ Reply(r)
       PROVE  CallsOfSlots'
  <2>1. /\ Leave(r) \/ Unwind(r)
        /\ \E c \in {"cancelled", "failed", "closing", "replied"} : Become(r, c)
    BY <1>12 DEF CancelRunning, Fail, Withdraw, Reply, CloseFailed
  <2>. QED  BY <1>3, <2>1
<1>13. ASSUME NEW r \in Runs, Opened(r)
       PROVE  CallsOfSlots'
  BY <1>7, <1>13 DEF Opened
<1>14. ASSUME Crash
       PROVE  CallsOfSlots'
  BY <1>14 DEF Crash, Restart, CallsOfSlots, Phases
<1>. QED
  BY <1>4, <1>5, <1>6, <1>8, <1>9, <1>10, <1>11, <1>12, <1>13, <1>14 DEF ManagerNext, CallStep

-----------------------------------------------------------------------------
(* Turns                                                                   *)

TypedIn(session)    == {i \in DOMAIN session.log : session.log[i][1] \in {"user", "voice"}}
TypedTurns(session) == Cardinality(TypedIn(session))

WithinLimit(n) == MaxTurns > 0 => n <= MaxTurns

\* The turns of a session are the messages in it, enough for all of P, and P is
\* within the limit.
Counted(session, P) ==
    /\ session.turns = TypedTurns(session)
    /\ Cardinality(P) <= session.turns
    /\ WithinLimit(Cardinality(P))

Sound(session) == Counted(session, Answered(session))

\* The answers of a session, with those it is still to be given.
Asked(s)    == {r \in Runs : SessionOf[r] = s /\ call[r] \in Asking}
Promised(s) == Answered(sess[s]) \cup Asked(s)

\* Every answer, given or to come, has its turn: a call that is let in has counted
\* its turn before anybody else is let in.
PromisesAreCounted == \A s \in Sessions : Counted(sess[s], Promised(s))

FileIsSound == \A s \in DOMAIN disk : Sound(disk[s])

\* Whoever was let in was let into a session that was made.
CallsHaveSessions == \A r \in Runs : call[r] \notin {"idle", "rejected"} => SessionOf[r] \in made

TurnsInv ==
    /\ CallsOfSlots /\ StoreShape /\ FileFollowsMemory
    /\ PromisesAreCounted /\ FileIsSound /\ CallsHaveSessions

LEMMA CallSetsAreFinite ==
    /\ \A S \in SUBSET Runs : IsFiniteSet(S) /\ Cardinality(S) \in Nat
    /\ \A S \in SUBSET Runs : \A T \in SUBSET S : Cardinality(T) <= Cardinality(S)
<1>1. \A S \in SUBSET Runs : IsFiniteSet(S)
  BY SlotsAssumption, FS_Subset
<1>. QED  BY <1>1, FS_Subset, FS_CardinalityType

\* What add_message adds: the role and the call, at the end.
LEMMA WhatIsSaid ==
    ASSUME NEW x \in SessionType, NEW role \in {"user", "assistant", "notice", "voice"},
           NEW who \in Runs \cup Sessions
    PROVE  /\ Said(x, role, who) \in SessionType
           /\ Said(x, role, who).turns = x.turns /\ Said(x, role, who).active = x.active
           /\ Len(x.log) \in Nat /\ DOMAIN x.log = 1..Len(x.log)
           /\ DOMAIN Said(x, role, who).log = 1..(Len(x.log) + 1)
           /\ \A i \in 1..Len(x.log) : Said(x, role, who).log[i] = x.log[i]
           /\ Said(x, role, who).log[Len(x.log) + 1] = <<role, who>>
<1> DEFINE e == <<role, who>>
           new == Append(x.log, e)
<1>1. e \in Entries /\ x.log \in Seq(Entries)
  BY DEF Entries, SessionType
<1>2. Len(x.log) \in Nat /\ DOMAIN x.log = 1..Len(x.log)
  BY <1>1, LenProperties
<1> HIDE DEF e
<1>3. /\ new \in Seq(Entries) /\ Len(new) = Len(x.log) + 1
      /\ \A i \in 1..Len(x.log) : new[i] = x.log[i]
      /\ new[Len(x.log) + 1] = e
  BY <1>1, AppendProperties
<1>4. DOMAIN new = 1..(Len(x.log) + 1)
  BY <1>3, LenProperties
<1>5. Said(x, role, who) = [x EXCEPT !.log = new]
  BY DEF Said, e
<1> HIDE DEF new
<1>6. /\ Said(x, role, who) \in SessionType /\ Said(x, role, who).log = new
      /\ Said(x, role, who).turns = x.turns /\ Said(x, role, who).active = x.active
  BY <1>3, <1>5 DEF SessionType
<1>. QED  BY <1>2, <1>3, <1>4, <1>6 DEF e

\* A list with one entry more at its end.
OneMore(new, old, e) ==
    /\ Len(old) \in Nat /\ DOMAIN old = 1..Len(old) /\ DOMAIN new = 1..(Len(old) + 1)
    /\ \A i \in 1..Len(old) : new[i] = old[i]
    /\ new[Len(old) + 1] = e

LEMMA AppendIsOneMore ==
    ASSUME NEW S, NEW old \in Seq(S), NEW e \in S
    PROVE  OneMore(Append(old, e), old, e)
<1>1. Len(old) \in Nat /\ DOMAIN old = 1..Len(old)
  BY LenProperties
<1>2. /\ Append(old, e) \in Seq(S) /\ Len(Append(old, e)) = Len(old) + 1
      /\ \A i \in 1..Len(old) : Append(old, e)[i] = old[i]
      /\ Append(old, e)[Len(old) + 1] = e
  BY AppendProperties
<1>3. DOMAIN Append(old, e) = 1..(Len(old) + 1)
  BY <1>2, LenProperties
<1>. QED  BY <1>1, <1>2, <1>3 DEF OneMore

LEMMA SaidCounts ==
    ASSUME NEW x \in SessionType, NEW role \in {"user", "assistant", "notice", "voice"},
           NEW who \in Runs \cup Sessions
    PROVE  /\ TypedTurns(x) \in Nat
           /\ TypedTurns(Said(x, role, who)) =
                 IF role \in {"user", "voice"} THEN TypedTurns(x) + 1 ELSE TypedTurns(x)
           /\ Answered(x) \subseteq Answered(Said(x, role, who))
           /\ Answered(Said(x, role, who)) \subseteq
                 Answered(x) \cup (IF role = "assistant" THEN {who} ELSE {})
<1> DEFINE y == Said(x, role, who)
           n == Len(x.log)
           e == <<role, who>>
<1>0. OneMore(y.log, x.log, e)
  <2>1. e \in Entries /\ x.log \in Seq(Entries)
    BY DEF Entries, SessionType
  <2> HIDE DEF e
  <2>2. OneMore(Append(x.log, e), x.log, e)
    BY <2>1, AppendIsOneMore
  <2>3. y = [x EXCEPT !.log = Append(x.log, e)]
    BY DEF Said, e
  <2>4. y.log = Append(x.log, e)
    BY <2>3 DEF SessionType
  <2>. QED  BY <2>2, <2>4
<1> HIDE DEF y
<1>1. /\ n \in Nat /\ DOMAIN x.log = 1..n /\ DOMAIN y.log = 1..(n + 1)
      /\ \A i \in 1..n : y.log[i] = x.log[i]
      /\ y.log[n + 1] = <<role, who>>
  BY <1>0 DEF OneMore
<1> HIDE DEF n, e
<1>2. TypedIn(y) = IF role \in {"user", "voice"} THEN TypedIn(x) \cup {n + 1} ELSE TypedIn(x)
  <2>1. \A i \in 1..(n + 1) : i \in TypedIn(y) <=>
            (i \in TypedIn(x) \/ (i = n + 1 /\ role \in {"user", "voice"}))
    BY <1>1 DEF TypedIn
  <2>2. TypedIn(x) \subseteq 1..(n + 1) /\ TypedIn(y) \subseteq 1..(n + 1) /\ n + 1 \in 1..(n + 1)
    BY <1>1 DEF TypedIn
  <2>. QED  BY <2>1, <2>2
<1>3. IsFiniteSet(TypedIn(x)) /\ n + 1 \notin TypedIn(x) /\ TypedTurns(x) \in Nat
  <2>1. TypedIn(x) \subseteq 1..n /\ IsFiniteSet(1..n)
    BY <1>1, FS_Interval DEF TypedIn
  <2>2. IsFiniteSet(TypedIn(x))
    BY <2>1, FS_Subset
  <2>. QED  BY <1>1, <2>1, <2>2, FS_CardinalityType DEF TypedTurns
<1>4. TypedTurns(y) = IF role \in {"user", "voice"} THEN TypedTurns(x) + 1 ELSE TypedTurns(x)
  BY <1>2, <1>3, FS_AddElement DEF TypedTurns
<1>5. Answered(x) \subseteq Answered(y)
  BY <1>1 DEF Answered, Says
<1>6. Answered(y) \subseteq Answered(x) \cup (IF role = "assistant" THEN {who} ELSE {})
  BY <1>1 DEF Answered, Says
<1>. QED  BY <1>3, <1>4, <1>5, <1>6 DEF y

LEMMA NextTurnCounts ==
    ASSUME NEW x \in SessionType
    PROVE  /\ NextTurn(x) \in SessionType
           /\ NextTurn(x).turns = x.turns + 1 /\ NextTurn(x).log = x.log
           /\ TypedTurns(NextTurn(x)) = TypedTurns(x)
           /\ Answered(NextTurn(x)) = Answered(x)
<1>1. /\ NextTurn(x) \in SessionType
      /\ NextTurn(x).turns = x.turns + 1 /\ NextTurn(x).log = x.log
  BY DEF NextTurn, SessionType
<1>. QED  BY <1>1 DEF TypedTurns, TypedIn, Answered, Says

LEMMA NewSessionIsSound ==
    /\ NewSession \in SessionType
    /\ NewSession.turns = 0 /\ TypedTurns(NewSession) = 0 /\ Answered(NewSession) = {}
<1>1. NewSession \in SessionType /\ NewSession.turns = 0 /\ DOMAIN NewSession.log = {}
  BY EmptySeq DEF NewSession, SessionType
<1>2. TypedIn(NewSession) = {} /\ Answered(NewSession) = {}
  BY <1>1 DEF TypedIn, Answered, Says
<1>. QED  BY <1>1, <1>2, FS_EmptySet DEF TypedTurns

\* Fewer are promised, and no turn is taken back.
LEMMA CountedShrinks ==
    ASSUME NEW x \in SessionType, NEW y \in SessionType, NEW P \in SUBSET Runs, NEW Q \in SUBSET P,
           Counted(x, P), y.turns = TypedTurns(y), x.turns <= y.turns
    PROVE  Counted(y, Q)
<1>1. x.turns \in Nat /\ y.turns \in Nat /\ MaxTurns \in Nat
  BY ManagerAssumption DEF SessionType
<1>2. Cardinality(P) \in Nat /\ Cardinality(Q) \in Nat /\ Cardinality(Q) <= Cardinality(P)
  BY CallSetsAreFinite
<1>. QED  BY <1>1, <1>2 DEF Counted, WithinLimit

\* One more is promised, and one more turn is counted, within the limit.
LEMMA CountedGrows ==
    ASSUME NEW x \in SessionType, NEW y \in SessionType, NEW P \in SUBSET Runs, NEW r \in Runs,
           NEW Q \in SUBSET (P \cup {r}),
           Counted(x, P), y.turns = TypedTurns(y), y.turns = x.turns + 1, WithinLimit(x.turns + 1)
    PROVE  Counted(y, Q)
<1>1. x.turns \in Nat /\ y.turns \in Nat /\ MaxTurns \in Nat
  BY ManagerAssumption DEF SessionType
<1>2. /\ P \cup {r} \in SUBSET Runs /\ Cardinality(P) \in Nat /\ IsFiniteSet(P)
      /\ Cardinality(Q) \in Nat /\ Cardinality(Q) <= Cardinality(P \cup {r})
  BY CallSetsAreFinite
<1>3. Cardinality(P \cup {r}) <= Cardinality(P) + 1
  <2>1. IsFiniteSet(P) /\ Cardinality(P) \in Nat
    BY <1>2
  <2>2. Cardinality(P \cup {r}) = IF r \in P THEN Cardinality(P) ELSE Cardinality(P) + 1
    BY <2>1, FS_AddElement, Zenon
  <2>. QED  BY <2>1, <2>2
<1>4. Cardinality(P \cup {r}) \in Nat
  BY <1>2, CallSetsAreFinite
<1>5. Cardinality(P) <= x.turns
  BY DEF Counted
<1>6. Cardinality(Q) <= x.turns + 1 /\ x.turns + 1 = y.turns
  BY <1>1, <1>2, <1>3, <1>4, <1>5
<1>7. WithinLimit(Cardinality(Q))
  BY <1>1, <1>2, <1>6 DEF WithinLimit
<1>. QED  BY <1>6, <1>7 DEF Counted

LEMMA TurnsInvInit == ManagerInit => TurnsInv
<1> SUFFICES ASSUME ManagerInit
             PROVE  PromisesAreCounted /\ FileIsSound /\ CallsHaveSessions
  BY CallsOfSlotsInit, StoreShapeInit DEF TurnsInv
<1>1. sess = [s \in Sessions |-> NewSession] /\ disk = EmptyFile /\ call = [r \in Runs |-> "idle"]
  BY DEF ManagerInit, StoreInit
<1>2. \A s \in Sessions : Promised(s) = {} /\ sess[s] = NewSession
  BY <1>1, NewSessionIsSound DEF Promised, Asked, Asking
<1>3. Cardinality({}) = 0 /\ MaxTurns \in Nat
  BY FS_EmptySet, ManagerAssumption
<1>4. PromisesAreCounted
  BY <1>2, <1>3, NewSessionIsSound DEF PromisesAreCounted, Counted, WithinLimit
<1>. QED  BY <1>1, <1>4 DEF FileIsSound, EmptyFile, CallsHaveSessions

\* A step that changes one session at most, and promises nobody else more.
LEMMA OneSessionCounts ==
    ASSUME TurnsInv, NEW s \in Sessions, NEW x \in SessionType,
           sess' = [sess EXCEPT ![s] = x], Counted(x, Promised(s)'),
           \A q \in Sessions \ {s} : Asked(q)' \subseteq Asked(q)
    PROVE  PromisesAreCounted'
<1> SUFFICES ASSUME NEW q \in Sessions
             PROVE  Counted(sess'[q], Promised(q)')
  BY DEF PromisesAreCounted
<1>1. sess \in [Sessions -> SessionType] /\ Counted(sess[q], Promised(q))
  BY DEF TurnsInv, StoreShape, PromisesAreCounted
<1>2. CASE q = s
  BY <1>1, <1>2
<1>3. CASE q # s
  <2>1. sess'[q] = sess[q] /\ sess[q] \in SessionType
    BY <1>1, <1>3
  <2>2. Promised(q)' \subseteq Promised(q) /\ Promised(q) \subseteq Runs
    BY <1>3, <2>1 DEF Promised, Answered, Asked
  <2>3. sess[q].turns = TypedTurns(sess[q]) /\ sess[q].turns <= sess[q].turns
    BY <1>1, <2>1 DEF Counted, SessionType
  <2>. QED  BY <1>1, <2>1, <2>2, <2>3, CountedShrinks
<1>. QED  BY <1>2, <1>3

\* What is saved is sound when memory and the old file are.
LEMMA SavingIsSound ==
    ASSUME FileIsSound, SaveSessions \/ UNCHANGED disk, PromisesAreCounted',
           sess' \in [Sessions -> SessionType], listed' \subseteq Sessions
    PROVE  FileIsSound'
<1>0. ASSUME NEW s \in listed'
      PROVE  Sound(sess'[s])
  <2>1. Counted(sess'[s], Promised(s)') /\ sess'[s] \in SessionType
    BY DEF PromisesAreCounted
  <2>2. Answered(sess'[s]) \subseteq Promised(s)' /\ Promised(s)' \subseteq Runs
    BY DEF Promised, Answered, Asked
  <2>3. sess'[s].turns = TypedTurns(sess'[s]) /\ sess'[s].turns <= sess'[s].turns
    BY <2>1 DEF Counted, SessionType
  <2>. QED  BY <2>1, <2>2, <2>3, CountedShrinks DEF Sound
<1>1. CASE disk' = [s \in listed' |-> sess'[s]]
  BY <1>0, <1>1 DEF FileIsSound
<1>2. CASE disk' = disk
  BY <1>2 DEF FileIsSound
<1>3. CASE disk' = EmptyFile
  BY <1>3 DEF FileIsSound, EmptyFile
<1>. QED  BY <1>1, <1>2, <1>3 DEF SaveSessions

LEMMA TurnsInvNext == TurnsInv /\ [ManagerNext]_vars => TurnsInv'
<1> SUFFICES ASSUME TurnsInv, [ManagerNext]_vars
             PROVE  TurnsInv'
  OBVIOUS
<1>0. /\ sess \in [Sessions -> SessionType] /\ listed \subseteq made /\ made \subseteq Sessions
      /\ call \in [Runs -> Calls] /\ SessionOf \in [Runs -> Sessions]
  BY ManagerAssumption DEF TurnsInv, StoreShape, CallsOfSlots
<1>1. CallsOfSlots' /\ StoreShape' /\ FileFollowsMemory'
  BY CallsOfSlotsNext, StepIsStoreStep, StoreShapeNext DEF TurnsInv
<1>2. SUFFICES PromisesAreCounted' /\ FileIsSound' /\ CallsHaveSessions'
  BY <1>1 DEF TurnsInv
<1>3. sess' \in [Sessions -> SessionType] /\ listed' \subseteq Sessions
  BY <1>1 DEF StoreShape
<1>4. \A s \in Sessions :
         /\ Counted(sess[s], Promised(s)) /\ sess[s].turns = TypedTurns(sess[s])
         /\ sess[s].turns \in Nat
         /\ Promised(s) \in SUBSET Runs /\ Promised(s)' \in SUBSET Runs
  BY <1>0 DEF TurnsInv, PromisesAreCounted, Counted, SessionType, Promised, Answered, Asked
<1>5. ASSUME NEW s \in Sessions, NEW role \in {"user", "assistant", "voice"},
             NEW who \in Runs \cup Sessions
      PROVE  LET y == Said(sess[s], role, who)
             IN  /\ y \in SessionType /\ y.turns = sess[s].turns
                 /\ TypedTurns(y) = sess[s].turns + (IF role = "assistant" THEN 0 ELSE 1)
                 /\ Answered(y) \subseteq Answered(sess[s]) \cup (IF role = "assistant" THEN {who} ELSE {})
  <2>1. sess[s] \in SessionType /\ sess[s].turns = TypedTurns(sess[s]) /\ sess[s].turns \in Nat
    BY <1>0, <1>4
  <2>2. role \in {"user", "assistant", "notice", "voice"}
    OBVIOUS
  <2> DEFINE y == Said(sess[s], role, who)
  <2>3. y \in SessionType /\ y.turns = sess[s].turns
    <3>1. PICK x \in SessionType : x = sess[s]
      BY <2>1
    <3>2. Said(x, role, who) \in SessionType /\ Said(x, role, who).turns = x.turns
      BY <2>2, WhatIsSaid
    <3>. QED  BY <3>1, <3>2
  <2>4. /\ TypedTurns(y) = IF role \in {"user", "voice"} THEN TypedTurns(sess[s]) + 1
                                                        ELSE TypedTurns(sess[s])
        /\ Answered(y) \subseteq Answered(sess[s]) \cup (IF role = "assistant" THEN {who} ELSE {})
    BY <2>1, <2>2, SaidCounts
  <2> HIDE DEF y
  <2>5. TypedTurns(y) = sess[s].turns + (IF role = "assistant" THEN 0 ELSE 1)
    BY <2>1, <2>4
  <2>. QED  BY <2>3, <2>4, <2>5 DEF y
<1>6. ASSUME NEW s \in Sessions, CreateSession(s), UNCHANGED call
      PROVE  PromisesAreCounted' /\ FileIsSound' /\ CallsHaveSessions'
  <2>1. /\ s \notin made /\ made' = made \cup {s} /\ sess' = [sess EXCEPT ![s] = NewSession]
        /\ SaveSessions
    BY <1>6 DEF CreateSession
  <2>2. Asked(s)' = {} /\ \A q \in Sessions : Asked(q)' = Asked(q)
    BY <1>6, <2>1 DEF TurnsInv, CallsHaveSessions, Asked, Asking
  <2>3. Promised(s)' = {}
    BY <1>0, <2>1, <2>2, NewSessionIsSound DEF Promised
  <2>4. Counted(NewSession, {})
    BY NewSessionIsSound, FS_EmptySet, ManagerAssumption DEF Counted, WithinLimit
  <2>5. PromisesAreCounted'
    BY <2>1, <2>2, <2>3, <2>4, NewSessionIsSound, OneSessionCounts
  <2>6. FileIsSound'
    BY <1>3, <2>1, <2>5, SavingIsSound DEF TurnsInv
  <2>. QED  BY <1>6, <2>1, <2>5, <2>6 DEF TurnsInv, CallsHaveSessions
\* Steps that leave the sessions as they are, and promise nobody more.
<1>7. ASSUME UNCHANGED <<sess, made>>, SaveSessions \/ UNCHANGED disk,
             \A s \in Sessions : Asked(s)' \subseteq Asked(s),
             \A r \in Runs : call'[r] \in {"idle", "rejected", call[r]} \/ call[r] \in Live
      PROVE  PromisesAreCounted' /\ FileIsSound' /\ CallsHaveSessions'
  <2>1. ASSUME NEW s \in Sessions
        PROVE  Counted(sess'[s], Promised(s)')
    <3>1. sess'[s] = sess[s] /\ sess[s] \in SessionType /\ Promised(s)' \subseteq Promised(s)
      BY <1>0, <1>7 DEF Promised
    <3>. QED  BY <1>4, <3>1, CountedShrinks
  <2>2. PromisesAreCounted'
    BY <2>1 DEF PromisesAreCounted
  <2>3. FileIsSound'
    BY <1>3, <1>7, <2>2, SavingIsSound DEF TurnsInv
  <2>. QED  BY <1>7, <2>2, <2>3 DEF TurnsInv, CallsHaveSessions, Live
<1>8. ASSUME NEW s \in Sessions, Delete(s)
      PROVE  PromisesAreCounted' /\ FileIsSound' /\ CallsHaveSessions'
  BY <1>7, <1>8 DEF Delete, DeleteSession, managerVars, Asked
\* A step that adds to session s and saves, or leaves the saving for later.
<1>9. ASSUME NEW s \in made, NEW x \in SessionType, sess' = [sess EXCEPT ![s] = x], UNCHANGED made,
             SaveSessions \/ UNCHANGED disk, Counted(x, Promised(s)'),
             \A q \in Runs : SessionOf[q] = s \/ call'[q] = call[q]
      PROVE  PromisesAreCounted' /\ FileIsSound' /\ CallsHaveSessions'
  <2>1. \A q \in Sessions \ {s} : Asked(q)' \subseteq Asked(q)
    BY <1>9 DEF Asked
  <2>2. PromisesAreCounted'
    BY <1>0, <1>9, <2>1, OneSessionCounts
  <2>3. FileIsSound'
    BY <1>3, <1>9, <2>2, SavingIsSound DEF TurnsInv
  <2>. QED  BY <1>9, <2>2, <2>3 DEF TurnsInv, CallsHaveSessions
<1>10. ASSUME NEW s \in Sessions, Speak(s)
       PROVE  PromisesAreCounted' /\ FileIsSound' /\ CallsHaveSessions'
  <2> DEFINE y == Said(sess[s], "voice", s)
             x == NextTurn(y)
  <2>1. /\ s \in made /\ sess' = [sess EXCEPT ![s] = x] /\ UNCHANGED made /\ SaveSessions
        /\ call' = call
    BY <1>0, <1>10 DEF Speak, SpeakTurn, managerVars
  <2>2. /\ y \in SessionType /\ y.turns = sess[s].turns /\ TypedTurns(y) = sess[s].turns + 1
        /\ Answered(y) \subseteq Answered(sess[s])
    BY <1>5
  <2> HIDE DEF y
  <2>3. /\ x \in SessionType /\ x.turns = sess[s].turns + 1 /\ TypedTurns(x) = x.turns
        /\ Answered(x) \subseteq Answered(sess[s])
    BY <2>2, NextTurnCounts
  <2> HIDE DEF x
  <2>4. Promised(s)' \subseteq Promised(s)
    BY <1>0, <2>1, <2>3 DEF Promised, Asked
  <2>5. Counted(x, Promised(s)')
    <3>1. sess[s].turns <= x.turns /\ sess[s] \in SessionType
      BY <1>0, <1>4, <2>3
    <3>. QED  BY <1>4, <2>3, <2>4, <3>1, CountedShrinks
  <2>. QED  BY <1>9, <2>1, <2>3, <2>5
\* A message that is let in, or refused: one more message, one more turn.
<1>11. ASSUME NEW r \in Runs, NEW c \in Calls, Become(r, c), TakeMessage(SessionOf[r], r),
              SessionOf[r] \in listed, WithinLimit(sess[SessionOf[r]].turns + 1)
       PROVE  PromisesAreCounted' /\ FileIsSound' /\ CallsHaveSessions'
  <2> DEFINE s == SessionOf[r]
             y == Said(sess[s], "user", r)
             x == NextTurn(y)
  <2>1. /\ s \in made /\ s \in Sessions /\ sess' = [sess EXCEPT ![s] = x] /\ UNCHANGED <<made, disk>>
    BY <1>0, <1>11 DEF TakeMessage
  <2>2. /\ y \in SessionType /\ y.turns = sess[s].turns /\ TypedTurns(y) = sess[s].turns + 1
        /\ Answered(y) \subseteq Answered(sess[s])
    BY <1>5, <2>1
  <2> HIDE DEF y
  <2>3. /\ x \in SessionType /\ x.turns = sess[s].turns + 1 /\ TypedTurns(x) = x.turns
        /\ Answered(x) \subseteq Answered(sess[s])
    BY <2>2, NextTurnCounts
  <2> HIDE DEF x
  <2>4. \A q \in Runs : q = r \/ call'[q] = call[q]
    BY <1>0, <1>11 DEF Become
  <2>5. Promised(s)' \subseteq Promised(s) \cup {r}
    BY <1>0, <2>1, <2>3, <2>4 DEF Promised, Asked
  <2>6. Counted(x, Promised(s)')
    <3>1. sess[s] \in SessionType
      BY <1>0, <2>1
    <3>. QED  BY <1>4, <1>11, <2>1, <2>3, <2>5, <3>1, CountedGrows
  <2>. QED  BY <1>9, <2>1, <2>3, <2>4, <2>6
<1>12. ASSUME NEW r \in Runs, Become(r, "limited"), RefuseMessage(SessionOf[r], r),
              SessionOf[r] \in listed
       PROVE  PromisesAreCounted' /\ FileIsSound' /\ CallsHaveSessions'
  <2> DEFINE s == SessionOf[r]
             y == Said(sess[s], "user", r)
             z == NextTurn(y)
             v == Said(z, "notice", r)
             x == [v EXCEPT !.active = FALSE]
  <2>1. /\ s \in made /\ s \in Sessions /\ sess' = [sess EXCEPT ![s] = x] /\ UNCHANGED made
        /\ SaveSessions
    BY <1>0, <1>12 DEF RefuseMessage
  <2>2. /\ y \in SessionType /\ y.turns = sess[s].turns /\ TypedTurns(y) = sess[s].turns + 1
        /\ Answered(y) \subseteq Answered(sess[s])
    BY <1>5, <2>1
  <2> HIDE DEF y
  <2>3. /\ z \in SessionType /\ z.turns = sess[s].turns + 1 /\ TypedTurns(z) = z.turns
        /\ Answered(z) \subseteq Answered(sess[s])
    BY <2>2, NextTurnCounts
  <2> HIDE DEF z
  <2>4. /\ v \in SessionType /\ v.turns = z.turns /\ TypedTurns(v) = TypedTurns(z)
        /\ Answered(v) \subseteq Answered(z)
    BY <2>3, WhatIsSaid, SaidCounts
  <2> HIDE DEF v
  <2>5. x \in SessionType /\ x.turns = v.turns /\ x.log = v.log
    BY <2>4 DEF SessionType
  <2>6. TypedTurns(x) = TypedTurns(v) /\ Answered(x) = Answered(v)
    BY <2>5 DEF TypedTurns, TypedIn, Answered, Says
  <2> HIDE DEF x
  <2>7. \A q \in Runs : q = r \/ call'[q] = call[q]
    BY <1>0, <1>12 DEF Become
  <2>8. call'[r] = "limited"
    BY <1>0, <1>12 DEF Become
  <2>9. Promised(s)' \subseteq Promised(s)
    BY <1>0, <2>1, <2>3, <2>4, <2>5, <2>6, <2>7, <2>8 DEF Promised, Asked, Asking
  <2>10. x.turns = TypedTurns(x) /\ sess[s].turns <= x.turns /\ sess[s] \in SessionType
    BY <1>0, <1>4, <2>1, <2>3, <2>4, <2>5, <2>6
  <2>11. Counted(x, Promised(s)')
    BY <1>4, <2>1, <2>5, <2>9, <2>10, CountedShrinks
  <2>. QED  BY <1>9, <2>1, <2>5, <2>7, <2>11
<1>13. ASSUME NEW r \in Runs, Submit(r)
       PROVE  PromisesAreCounted' /\ FileIsSound' /\ CallsHaveSessions'
  <2>1. CASE Become(r, "rejected") /\ UNCHANGED storeVars
    <3>1. \A q \in Runs : call'[q] \in {"rejected", call[q]}
      BY <1>0, <2>1 DEF Become
    <3>2. \A s \in Sessions : Asked(s)' \subseteq Asked(s)
      BY <3>1 DEF Asked, Asking
    <3>. QED  BY <1>7, <2>1, <3>1, <3>2 DEF storeVars
  <2>2. CASE /\ Acceptable(r) /\ OverLimit(r) /\ RefuseMessage(SessionOf[r], r)
             /\ Become(r, "limited")
    BY <1>12, <2>2 DEF Acceptable
  <2>3. CASE /\ Acceptable(r) /\ ~OverLimit(r) /\ TakeMessage(SessionOf[r], r)
             /\ Become(r, "opening") \/ Become(r, "executing")
    <3>1. sess[SessionOf[r]].turns \in Nat /\ MaxTurns \in Nat
      BY <1>0, <1>4, ManagerAssumption
    <3>2. WithinLimit(sess[SessionOf[r]].turns + 1)
      BY <2>3, <3>1 DEF OverLimit, WithinLimit
    <3>3. {"opening", "executing"} \subseteq Calls
      BY DEF Calls, Live
    <3>. QED  BY <1>11, <2>3, <3>2, <3>3 DEF Acceptable
  <2>. QED  BY <1>13, <2>1, <2>2, <2>3 DEF Submit, EnterSlot
<1>14. ASSUME NEW r \in Runs, Reply(r)
       PROVE  PromisesAreCounted' /\ FileIsSound' /\ CallsHaveSessions'
  <2> DEFINE s == SessionOf[r]
             x == Said(sess[s], "assistant", r)
  <2>1. /\ call[r] = "executing" /\ s \in made /\ s \in Sessions
        /\ sess' = [sess EXCEPT ![s] = x] /\ UNCHANGED made /\ SaveSessions
        /\ Become(r, "closing") \/ Become(r, "replied")
    BY <1>0, <1>14 DEF Reply, AnswerMessage, TurnsInv, CallsHaveSessions
  <2>2. /\ x \in SessionType /\ x.turns = sess[s].turns /\ TypedTurns(x) = sess[s].turns
        /\ Answered(x) \subseteq Answered(sess[s]) \cup {r}
    <3>1. /\ x \in SessionType /\ x.turns = sess[s].turns
          /\ TypedTurns(x) = sess[s].turns + (IF "assistant" = "assistant" THEN 0 ELSE 1)
          /\ Answered(x) \subseteq Answered(sess[s])
                 \cup (IF "assistant" = "assistant" THEN {r} ELSE {})
      BY <1>5, <2>1
    <3>2. sess[s].turns \in Nat
      BY <1>4, <2>1
    <3>. QED  BY <3>1, <3>2
  <2> HIDE DEF x
  <2>3. \A q \in Runs : q = r \/ call'[q] = call[q]
    BY <1>0, <2>1 DEF Become
  <2>4. call'[r] \in {"closing", "replied"}
    BY <1>0, <2>1 DEF Become
  <2>5. r \in Asked(s)
    BY <2>1 DEF Asked, Asking
  <2>6. Promised(s)' \subseteq Promised(s)
    BY <1>0, <2>1, <2>2, <2>3, <2>4, <2>5 DEF Promised, Asked, Asking
  <2>7. sess[s].turns <= x.turns /\ sess[s] \in SessionType
    BY <1>0, <1>4, <2>1, <2>2
  <2>8. Counted(x, Promised(s)')
    BY <1>4, <2>1, <2>2, <2>6, <2>7, CountedShrinks
  <2>. QED  BY <1>9, <2>1, <2>2, <2>3, <2>8
<1>15. ASSUME NEW file \in {disk, EmptyFile}, LoadSessions(file),
              call' = [r \in Runs |-> IF call[r] \in Live THEN "lost" ELSE call[r]]
       PROVE  PromisesAreCounted' /\ FileIsSound' /\ CallsHaveSessions'
  <2>1. /\ disk' = file /\ made' = made
        /\ \A s \in Sessions : sess'[s] = IF s \in DOMAIN file THEN file[s] ELSE sess[s]
    BY <1>15 DEF LoadSessions
  <2>2. \A s \in DOMAIN file : Sound(file[s])
    BY DEF EmptyFile, TurnsInv, FileIsSound
  <2>3. \A s \in Sessions : Asked(s)' = {}
    BY <1>15 DEF Asked, Asking, Live
  <2>4. ASSUME NEW s \in Sessions
        PROVE  Counted(sess'[s], Promised(s)')
    <3>1. Promised(s)' = Answered(sess'[s])
      BY <2>3 DEF Promised
    <3>2. CASE s \in DOMAIN file
      BY <2>1, <2>2, <3>1, <3>2 DEF Sound
    <3>3. CASE s \notin DOMAIN file
      <4>1. sess'[s] = sess[s] /\ Promised(s)' \subseteq Promised(s) /\ sess[s] \in SessionType
        BY <1>0, <2>1, <3>1, <3>3 DEF Promised
      <4>. QED  BY <1>4, <4>1, CountedShrinks
    <3>. QED  BY <3>2, <3>3
  <2>5. FileIsSound'
    BY <2>1, <2>2 DEF FileIsSound
  <2>. QED  BY <1>15, <2>1, <2>4, <2>5 DEF PromisesAreCounted, TurnsInv, CallsHaveSessions, Live
<1>16. CASE Crash
  BY <1>15, <1>16 DEF Crash
<1>17. CASE CallsMoveOn
  <2>1. \A s \in Sessions : Asked(s)' \subseteq Asked(s)
    BY <1>17 DEF CallsMoveOn, Asked, Asking, Live
  <2>. QED  BY <1>7, <1>17, <2>1 DEF CallsMoveOn, storeVars, Live
<1>18. ASSUME NEW s \in Sessions, Create(s)
       PROVE  PromisesAreCounted' /\ FileIsSound' /\ CallsHaveSessions'
  BY <1>6, <1>18 DEF Create, managerVars
<1>. QED
  BY <1>8, <1>10, <1>13, <1>14, <1>16, <1>17, <1>18, StepIsCallStep DEF TurnsInv

\* turn_count is what the log says, in memory and in the file, and a session gives
\* no more answers than max_turns, through failed and torn writes and restarts.
THEOREM TurnsAreAlwaysExact == ManagerSpec => []TurnsAreExact
<1>1. TurnsInv => TurnsAreExact
  <2> SUFFICES ASSUME TurnsInv
               PROVE  TurnsCountMessages /\ TurnLimitHolds
    BY DEF TurnsAreExact
  <2>1. TurnsCountMessages
    BY DEF TurnsInv, PromisesAreCounted, FileIsSound, Sound, Counted, TypedTurns, TypedIn,
       TurnsCountMessages
  <2>2. ASSUME NEW s \in Sessions
        PROVE  Sound(sess[s])
    <3>1. sess[s] \in SessionType /\ Counted(sess[s], Promised(s))
      BY DEF TurnsInv, StoreShape, PromisesAreCounted
    <3>2. Answered(sess[s]) \subseteq Promised(s) /\ Promised(s) \subseteq Runs
      BY DEF Promised, Answered, Asked
    <3>3. sess[s].turns = TypedTurns(sess[s]) /\ sess[s].turns <= sess[s].turns
      BY <3>1 DEF Counted, SessionType
    <3>. QED  BY <3>1, <3>2, <3>3, CountedShrinks DEF Sound
  <2>3. TurnLimitHolds
    BY <2>2 DEF TurnLimitHolds, Sound, Counted, WithinLimit
  <2>. QED  BY <2>1, <2>3
<1>. QED  BY <1>1, TurnsInvInit, TurnsInvNext, PTL DEF ManagerSpec

-----------------------------------------------------------------------------
(* Answers and the file                                                    *)

\* The question of r stands in the session, before its answer.
Settled(session, r) ==
    \E i, j \in DOMAIN session.log :
        i < j /\ session.log[i] = <<"user", r>> /\ session.log[j] = <<"assistant", r>>

\* The file lists the sessions that were made and not deleted.
FileIsListed == DOMAIN disk = listed /\ listed = made \ gone

\* The question of a call that is not answered stays where its answer will follow.
QuestionsAreKept == \A r \in Runs : call[r] \in Asking => Says(sess[SessionOf[r]], "user", r)

AnswersAreFiled ==
    \A r \in Runs : call[r] \in {"closing", "replied"} =>
        \/ SessionOf[r] \in gone
        \/ SessionOf[r] \in DOMAIN disk /\ Settled(disk[SessionOf[r]], r)

DurableInv == TurnsInv /\ FileIsListed /\ QuestionsAreKept /\ AnswersAreFiled

LEMMA LongerKeeps ==
    ASSUME NEW x \in SessionType, NEW y \in SessionType, Longer(x, y), NEW r \in Runs
    PROVE  /\ \A role : Says(x, role, r) => Says(y, role, r)
           /\ Settled(x, r) => Settled(y, r)
<1>1. x.log \in Seq(Entries) /\ y.log \in Seq(Entries) /\ IsPrefix(x.log, y.log)
  BY DEF SessionType, Longer
<1>2. DOMAIN x.log \subseteq DOMAIN y.log /\ \A i \in DOMAIN x.log : y.log[i] = x.log[i]
  <2>1. DOMAIN x.log = 1..Len(x.log) /\ DOMAIN y.log = 1..Len(y.log)
    BY <1>1, LenProperties
  <2>. QED  BY <1>1, <2>1, PrefixAgrees
<1>. QED  BY <1>2 DEF Says, Settled

\* Sessions that were made keep what was said in them, and what is written is all
\* of them: what was filed stays filed.
LEMMA FiledStaysFiled ==
    ASSUME ~SaveMayFail, DurableInv, StoreShape',
           \A s \in made : Longer(sess[s], sess'[s]),
           gone \subseteq gone', listed' = made' \ gone', made \subseteq made',
           SaveSessions \/ UNCHANGED <<listed, disk>>
    PROVE  /\ FileIsListed'
           /\ \A r \in Runs : Says(sess[SessionOf[r]], "user", r) /\ SessionOf[r] \in made
                              => Says(sess'[SessionOf[r]], "user", r)
           /\ \A r \in Runs :
                 \/ SessionOf[r] \in gone
                 \/ SessionOf[r] \in DOMAIN disk /\ Settled(disk[SessionOf[r]], r)
                 => \/ SessionOf[r] \in gone'
                    \/ SessionOf[r] \in DOMAIN disk' /\ Settled(disk'[SessionOf[r]], r)
<1>1. /\ sess \in [Sessions -> SessionType] /\ sess' \in [Sessions -> SessionType]
      /\ disk \in [DOMAIN disk -> SessionType] /\ made \subseteq Sessions
      /\ DOMAIN disk = listed /\ listed = made \ gone
  BY DEF DurableInv, TurnsInv, StoreShape, FileIsListed
<1>2. (SaveSessions /\ disk' = [s \in listed' |-> sess'[s]]) \/ UNCHANGED <<listed, disk>>
  BY DEF SaveSessions
<1>3. FileIsListed'
  BY <1>1, <1>2 DEF FileIsListed
<1>4. \A r \in Runs : Says(sess[SessionOf[r]], "user", r) /\ SessionOf[r] \in made
                              => Says(sess'[SessionOf[r]], "user", r)
  BY <1>1, LongerKeeps
<1>5. ASSUME NEW r \in Runs, SessionOf[r] \notin gone',
             SessionOf[r] \in DOMAIN disk, Settled(disk[SessionOf[r]], r)
      PROVE  SessionOf[r] \in DOMAIN disk' /\ Settled(disk'[SessionOf[r]], r)
  <2> DEFINE s == SessionOf[r]
  <2>1. s \in listed /\ s \in listed' /\ s \in made /\ s \in Sessions
    BY <1>1, <1>5
  <2>2. CASE disk' = [q \in listed' |-> sess'[q]]
    <3>1. Longer(disk[s], sess[s])
      BY <1>1, <2>1 DEF DurableInv, TurnsInv, FileFollowsMemory, Longer
    <3>2. disk[s] \in SessionType /\ sess[s] \in SessionType /\ sess'[s] \in SessionType
      BY <1>1, <2>1
    <3>3. Longer(sess[s], sess'[s])
      BY <2>1
    <3>4. Settled(sess'[s], r)
      BY <1>5, <3>1, <3>2, <3>3, LongerKeeps
    <3>. QED  BY <2>1, <2>2, <3>4
  <2>3. CASE disk' = disk
    BY <1>5, <2>3
  <2>. QED  BY <1>2, <2>2, <2>3
<1>. QED  BY <1>3, <1>4, <1>5

LEMMA DurableInvNext ==
    ASSUME ~SaveMayFail, ~TornWrites
    PROVE  DurableInv /\ [ManagerNext]_vars => DurableInv'
<1> SUFFICES ASSUME DurableInv, [ManagerNext]_vars
             PROVE  DurableInv'
  OBVIOUS
<1>0. /\ sess \in [Sessions -> SessionType] /\ listed \subseteq made /\ made \subseteq Sessions
      /\ gone \subseteq made
      /\ call \in [Runs -> Calls] /\ SessionOf \in [Runs -> Sessions]
      /\ FileIsListed
  BY ManagerAssumption DEF DurableInv, TurnsInv, StoreShape, CallsOfSlots
<1>1. TurnsInv' /\ StoreShape'
  BY TurnsInvNext DEF DurableInv, TurnsInv
<1>2. \A s \in Sessions : Longer(sess[s], sess[s])
  BY <1>0, LongerIsReflexive
\* Calls that were asking or answered already.
<1>3. ASSUME \A s \in made : Longer(sess[s], sess'[s]),
             gone \subseteq gone', listed' = made' \ gone', made \subseteq made',
             SaveSessions \/ UNCHANGED <<listed, disk>>,
             \A r \in Runs :
                \/ call'[r] = call[r]
                \/ call'[r] \notin (Asking \cup {"closing", "replied"})
                \/ call[r] \in Asking /\ call'[r] \in Asking
                \/ call[r] = "closing" /\ call'[r] = "replied"
                \/ call'[r] \in Asking /\ Says(sess'[SessionOf[r]], "user", r)
                \/ /\ call'[r] \in {"closing", "replied"}
                   /\ \/ SessionOf[r] \in gone'
                      \/ SessionOf[r] \in DOMAIN disk' /\ Settled(disk'[SessionOf[r]], r)
      PROVE  DurableInv'
  <2>1. /\ FileIsListed'
        /\ \A r \in Runs : Says(sess[SessionOf[r]], "user", r) /\ SessionOf[r] \in made
                              => Says(sess'[SessionOf[r]], "user", r)
        /\ \A r \in Runs :
                 \/ SessionOf[r] \in gone
                 \/ SessionOf[r] \in DOMAIN disk /\ Settled(disk[SessionOf[r]], r)
                 => \/ SessionOf[r] \in gone'
                    \/ SessionOf[r] \in DOMAIN disk' /\ Settled(disk'[SessionOf[r]], r)
    BY <1>1, <1>3, FiledStaysFiled
  <2>2. \A r \in Runs : call[r] \in Asking => SessionOf[r] \in made
    BY DEF DurableInv, TurnsInv, CallsHaveSessions, Asking
  <2>3. QuestionsAreKept'
    BY <1>3, <2>1, <2>2 DEF DurableInv, QuestionsAreKept, Asking
  <2>4. AnswersAreFiled'
    BY <1>3, <2>1 DEF DurableInv, AnswersAreFiled, Asking
  <2>. QED  BY <1>1, <2>1, <2>3, <2>4 DEF DurableInv
<1>4. ASSUME NEW s \in Sessions, Create(s)
      PROVE  DurableInv'
  <2>1. \A q \in made : Longer(sess[q], sess'[q])
    BY <1>0, <1>2, <1>4 DEF Create, CreateSession
  <2>. QED  BY <1>0, <1>3, <1>4, <2>1 DEF Create, CreateSession, managerVars, FileIsListed
<1>5. ASSUME NEW s \in Sessions, Delete(s)
      PROVE  DurableInv'
  <2>1. \A q \in made : Longer(sess[q], sess'[q])
    BY <1>0, <1>2, <1>5 DEF Delete, DeleteSession
  <2>. QED  BY <1>0, <1>3, <1>5, <2>1 DEF Delete, DeleteSession, managerVars, FileIsListed
\* A session that grows.
<1>6. ASSUME NEW s \in Sessions, Grows(s),
             \A r \in Runs :
                \/ call'[r] = call[r]
                \/ call'[r] \notin (Asking \cup {"closing", "replied"})
                \/ call'[r] \in Asking /\ Says(sess'[SessionOf[r]], "user", r)
                \/ /\ call'[r] \in {"closing", "replied"}
                   /\ \/ SessionOf[r] \in gone'
                      \/ SessionOf[r] \in DOMAIN disk' /\ Settled(disk'[SessionOf[r]], r)
      PROVE  DurableInv'
  <2>1. \A q \in made : Longer(sess[q], sess'[q])
    BY <1>0, <1>2, <1>6 DEF Grows
  <2>. QED  BY <1>0, <1>3, <1>6, <2>1 DEF Grows, FileIsListed
<1>7. ASSUME NEW s \in Sessions, Speak(s)
      PROVE  DurableInv'
  <2>1. Grows(s)
    BY <1>7, MessagesGrow DEF Speak, DurableInv, TurnsInv
  <2>. QED  BY <1>6, <1>7, <2>1 DEF Speak, managerVars
<1>8. ASSUME NEW r \in Runs, Submit(r)
      PROVE  DurableInv'
  <2> DEFINE s == SessionOf[r]
  <2>0. s \in Sessions
    BY <1>0
  <2>1. CASE Become(r, "rejected") /\ UNCHANGED storeVars
    <3>1. \A q \in Runs : call'[q] \in {"rejected", call[q]}
      BY <1>0, <2>1 DEF Become
    <3>. QED  BY <1>0, <1>2, <1>3, <2>1, <3>1 DEF storeVars, FileIsListed, Asking
  <2>2. CASE RefuseMessage(s, r) /\ Become(r, "limited")
    <3>1. Grows(s)
      BY <2>0, <2>2, MessagesGrow DEF DurableInv, TurnsInv
    <3>2. \A q \in Runs : call'[q] \in {"limited", call[q]}
      BY <1>0, <2>2 DEF Become
    <3>. QED  BY <1>6, <2>0, <3>1, <3>2 DEF Asking
  <2>3. CASE TakeMessage(s, r) /\ (Become(r, "opening") \/ Become(r, "executing"))
    <3>1. Grows(s)
      BY <2>0, <2>3, MessagesGrow DEF DurableInv, TurnsInv
    <3>2. \A q \in Runs : call'[q] = call[q] \/ (q = r /\ call'[q] \in Asking)
      BY <1>0, <2>3 DEF Become, Asking
    <3>3. Says(sess'[s], "user", r)
      <4> DEFINE y == Said(sess[s], "user", r)
      <4>1. /\ y \in SessionType
            /\ Len(sess[s].log) + 1 \in DOMAIN y.log
            /\ y.log[Len(sess[s].log) + 1] = <<"user", r>>
        <5>1. /\ sess[s] \in SessionType /\ "user" \in {"user", "assistant", "notice", "voice"}
              /\ r \in Runs \cup Sessions
          BY <1>0, <2>0
        <5>2. /\ Len(sess[s].log) \in Nat /\ DOMAIN y.log = 1..(Len(sess[s].log) + 1)
              /\ y.log[Len(sess[s].log) + 1] = <<"user", r>> /\ y \in SessionType
          BY <5>1, WhatIsSaid
        <5> HIDE DEF y
        <5>. QED  BY <5>2
      <4> HIDE DEF y
      <4>2. NextTurn(y).log = y.log
        BY <4>1, NextTurnCounts
      <4>3. sess'[s] = NextTurn(y)
        BY <1>0, <2>0, <2>3 DEF TakeMessage, y
      <4>. QED  BY <4>1, <4>2, <4>3 DEF Says
    <3>. QED  BY <1>6, <2>0, <3>1, <3>2, <3>3
  <2>. QED  BY <1>8, <2>1, <2>2, <2>3 DEF Submit, EnterSlot
<1>9. ASSUME NEW r \in Runs, Reply(r)
      PROVE  DurableInv'
  <2> DEFINE s == SessionOf[r]
             y == Said(sess[s], "assistant", r)
  <2>1. /\ call[r] = "executing" /\ s \in made /\ s \in Sessions /\ AnswerMessage(s, r)
        /\ Become(r, "closing") \/ Become(r, "replied")
    BY <1>0, <1>9 DEF Reply, DurableInv, TurnsInv, CallsHaveSessions
  <2>2. Grows(s)
    BY <2>1, MessagesGrow DEF DurableInv, TurnsInv
  <2>3. \A q \in Runs : call'[q] = call[q] \/ (q = r /\ call'[q] \in {"closing", "replied"})
    BY <1>0, <2>1 DEF Become
  <2>4. Says(sess[s], "user", r)
    BY <2>1 DEF DurableInv, QuestionsAreKept, Asking
  <2>5. /\ Len(sess[s].log) \in Nat /\ DOMAIN sess[s].log = 1..Len(sess[s].log)
        /\ DOMAIN y.log = 1..(Len(sess[s].log) + 1)
        /\ \A i \in 1..Len(sess[s].log) : y.log[i] = sess[s].log[i]
        /\ y.log[Len(sess[s].log) + 1] = <<"assistant", r>>
    <3>1. /\ sess[s] \in SessionType /\ "assistant" \in {"user", "assistant", "notice", "voice"}
          /\ r \in Runs \cup Sessions
      BY <1>0, <2>1
    <3>. QED  BY <3>1, WhatIsSaid
  <2> HIDE DEF y
  <2>6. Settled(y, r)
    <3>1. PICK i \in 1..Len(sess[s].log) : sess[s].log[i] = <<"user", r>>
      BY <2>4, <2>5 DEF Says
    <3>2. i \in DOMAIN y.log /\ y.log[i] = <<"user", r>> /\ i < Len(sess[s].log) + 1
          /\ Len(sess[s].log) + 1 \in DOMAIN y.log
      BY <2>5, <3>1
    <3>. QED  BY <2>5, <3>2 DEF Settled
  <2>7. SessionOf[r] \in gone' \/ (SessionOf[r] \in DOMAIN disk' /\ Settled(disk'[SessionOf[r]], r))
    <3>1. /\ sess'[s] = y /\ gone' = gone /\ listed' = listed
          /\ disk' = [q \in listed' |-> sess'[q]]
      BY <1>0, <2>1 DEF AnswerMessage, SaveSessions, y
    <3>. QED  BY <1>0, <2>1, <2>6, <3>1 DEF FileIsListed
  <2>. QED  BY <1>6, <2>1, <2>2, <2>3, <2>7
<1>10. CASE Crash
  <2>1. /\ disk' = disk /\ listed' = DOMAIN disk /\ UNCHANGED <<made, gone>>
        /\ \A r \in Runs : call'[r] = IF call[r] \in Live THEN "lost" ELSE call[r]
    BY <1>10 DEF Crash, LoadSessions
  <2>2. \A r \in Runs : call'[r] \notin Asking /\ (call'[r] \in {"closing", "replied"} => call[r] = "replied")
    BY <2>1 DEF Asking, Live
  <2>3. QuestionsAreKept' /\ AnswersAreFiled'
    BY <2>1, <2>2 DEF DurableInv, QuestionsAreKept, AnswersAreFiled
  <2>. QED  BY <1>0, <1>1, <2>1, <2>3 DEF FileIsListed, DurableInv
<1>11. CASE CallsMoveOn
  <2>1. \A r \in Runs :
           \/ call'[r] = call[r]
           \/ call'[r] \notin (Asking \cup {"closing", "replied"})
           \/ call[r] \in Asking /\ call'[r] \in Asking
           \/ call[r] = "closing" /\ call'[r] = "replied"
    BY <1>11 DEF CallsMoveOn, Asking, Live
  <2>2. UNCHANGED storeVars
    BY <1>11 DEF CallsMoveOn
  <2>. QED  BY <1>0, <1>2, <1>3, <2>1, <2>2 DEF storeVars, FileIsListed
<1>. QED
  BY <1>4, <1>5, <1>7, <1>8, <1>9, <1>10, <1>11, StepIsCallStep DEF DurableInv, TurnsInv

\* With writes that succeed, an answer that was delivered is in sessions.json,
\* after its question, until the session is deleted: other calls, spoken turns,
\* refusals, cancellations and restarts do not take it away.
THEOREM DeliveredAnswersAreDurable ==
    ASSUME ~SaveMayFail, ~TornWrites
    PROVE  ManagerSpec => []DeliveredIsDurable
<1>1. ManagerInit => DurableInv
  BY TurnsInvInit DEF ManagerInit, StoreInit, EmptyFile, DurableInv, FileIsListed,
     QuestionsAreKept, AnswersAreFiled, Asking
<1>2. DurableInv => DeliveredIsDurable
  BY DEF DurableInv, AnswersAreFiled, Settled, DeliveredIsDurable
<1>3. DurableInv /\ [ManagerNext]_vars => DurableInv'
  BY DurableInvNext
<1>. QED  BY <1>1, <1>2, <1>3, PTL DEF ManagerSpec

-----------------------------------------------------------------------------
(* The rows of the run history                                             *)

RowType == [run : Runs, status : Statuses]

\* One row per run.
TableOK(table) ==
    /\ table \in Seq(RowType)
    /\ \A i, j \in DOMAIN table : table[i].run = table[j].run => i = j

\* What is on record of run r.
ShownIn(table, r) == {table[i].status : i \in {j \in DOMAIN table : table[j].run = r}}
Shown(r)          == ShownIn(rows, r)

LEMMA TableElements ==
    ASSUME NEW table \in Seq(RowType)
    PROVE  /\ Len(table) \in Nat /\ DOMAIN table = 1..Len(table)
           /\ \A i \in DOMAIN table : table[i] \in RowType
BY LenProperties, ElementOfSeq

\* A table whose rows are taken from another, each once.
LEMMA SomeOfTheRows ==
    ASSUME NEW old, TableOK(old), NEW new \in Seq(RowType), NEW f \in [DOMAIN new -> DOMAIN old],
           \A i, j \in DOMAIN new : f[i] = f[j] => i = j,
           \A i \in DOMAIN new : new[i] = old[f[i]]
    PROVE  TableOK(new) /\ \A r : ShownIn(new, r) \subseteq ShownIn(old, r)
<1>1. TableOK(new)
  BY DEF TableOK
<1>2. ASSUME NEW r
      PROVE  ShownIn(new, r) \subseteq ShownIn(old, r)
  BY DEF ShownIn
<1>. QED  BY <1>1, <1>2

LEMMA RowRemoved ==
    ASSUME NEW table, TableOK(table), NEW i \in DOMAIN table
    PROVE  /\ TableOK(RemoveAt(table, i)) /\ Len(RemoveAt(table, i)) = Len(table) - 1
           /\ \A r : ShownIn(RemoveAt(table, i), r) \subseteq ShownIn(table, r)
           /\ ShownIn(RemoveAt(table, i), table[i].run) = {}
           /\ \A q : q # table[i].run => ShownIn(table, q) \subseteq ShownIn(RemoveAt(table, i), q)
<1> DEFINE before == SubSeq(table, 1, i - 1)
           after  == SubSeq(table, i + 1, Len(table))
           new    == RemoveAt(table, i)
           f      == [j \in 1..(Len(table) - 1) |-> IF j < i THEN j ELSE j + 1]
<1>1. /\ table \in Seq(RowType) /\ Len(table) \in Nat /\ DOMAIN table = 1..Len(table)
      /\ \A j \in 1..Len(table) : table[j] \in RowType
  BY TableElements DEF TableOK
<1>2. /\ before \in Seq(RowType) /\ Len(before) = i - 1
      /\ \A j \in 1..(i - 1) : before[j] = table[j]
  BY <1>1, SubSeqProperties
<1>3. /\ after \in Seq(RowType) /\ Len(after) = Len(table) - i
      /\ \A j \in 1..(Len(table) - i) : after[j] = table[i + j]
  BY <1>1, SubSeqProperties
<1>4. new = before \o after
  BY DEF RemoveAt
<1> HIDE DEF before, after, new
<1>5. /\ new \in Seq(RowType) /\ Len(new) = Len(table) - 1
      /\ \A j \in 1..(Len(table) - 1) :
            new[j] = IF j <= i - 1 THEN before[j] ELSE after[j - (i - 1)]
  <2>1. /\ before \o after \in Seq(RowType)
        /\ Len(before \o after) = Len(before) + Len(after)
        /\ \A j \in 1..(Len(before) + Len(after)) :
              (before \o after)[j] = IF j <= Len(before) THEN before[j] ELSE after[j - Len(before)]
    BY <1>2, <1>3, ConcatProperties
  <2>2. Len(before) + Len(after) = Len(table) - 1
    BY <1>1, <1>2, <1>3
  <2>. QED  BY <1>2, <1>4, <2>1, <2>2
<1>6. DOMAIN new = 1..(Len(table) - 1)
  BY <1>5, TableElements
<1>7. ASSUME NEW j \in 1..(Len(table) - 1)
      PROVE  f[j] \in DOMAIN table /\ f[j] # i /\ new[j] = table[f[j]]
  <2>1. CASE j < i
    BY <1>1, <1>2, <1>5, <2>1
  <2>2. CASE j >= i
    <3>1. j - (i - 1) \in 1..(Len(table) - i) /\ i + (j - (i - 1)) = j + 1 /\ ~(j <= i - 1)
      BY <1>1, <2>2
    <3>2. after[j - (i - 1)] = table[j + 1] /\ new[j] = after[j - (i - 1)]
      BY <1>3, <1>5, <3>1
    <3>. QED  BY <1>1, <2>2, <3>1, <3>2
  <2>. QED  BY <1>1, <2>1, <2>2
<1>8. /\ f \in [DOMAIN new -> DOMAIN table]
      /\ \A j, k \in DOMAIN new : f[j] = f[k] => j = k
  <2>1. f \in [DOMAIN new -> DOMAIN table]
    BY <1>1, <1>6, <1>7
  <2>2. \A j \in DOMAIN new : j \in Nat
    BY <1>6
  <2>. QED  BY <1>1, <1>6, <2>1, <2>2
<1>9. TableOK(new) /\ \A r : ShownIn(new, r) \subseteq ShownIn(table, r)
  <2>1. new \in Seq(RowType)
    BY <1>5
  <2>2. \A j \in DOMAIN new : new[j] = table[f[j]]
    BY <1>6, <1>7
  <2> HIDE DEF f, new
  <2>. QED  BY <1>8, <2>1, <2>2, SomeOfTheRows
<1>10. \A j \in DOMAIN new : new[j].run # table[i].run
  BY <1>6, <1>7 DEF TableOK
<1>11. ASSUME NEW q, q # table[i].run, NEW k \in DOMAIN table, table[k].run = q
       PROVE  \E j \in DOMAIN new : new[j] = table[k]
  <2>1. k # i /\ k \in 1..Len(table)
    BY <1>1, <1>11
  <2>2. CASE k < i
    BY <1>1, <1>6, <1>7, <2>1, <2>2
  <2>3. CASE k > i
    <3>1. k - 1 \in 1..(Len(table) - 1) /\ ~(k - 1 < i) /\ (k - 1) + 1 = k
      BY <1>1, <2>1, <2>3
    <3>. QED  BY <1>6, <1>7, <3>1
  <2>. QED  BY <1>1, <2>1, <2>2, <2>3
<1>12. \A q : q # table[i].run => ShownIn(table, q) \subseteq ShownIn(new, q)
  BY <1>11 DEF ShownIn
<1>. QED  BY <1>5, <1>9, <1>10, <1>12 DEF new, ShownIn

LEMMA RowsTrimmed ==
    ASSUME NEW table, TableOK(table)
    PROVE  LET new == KeepNewest(HistoryLimit, table)
           IN  /\ TableOK(new) /\ Len(new) <= HistoryLimit
               /\ \A r : ShownIn(new, r) \subseteq ShownIn(table, r)
<1> DEFINE m   == IF Len(table) > HistoryLimit THEN Len(table) - HistoryLimit + 1 ELSE 1
           new == KeepNewest(HistoryLimit, table)
           n   == Len(table) - m + 1
           f   == [j \in 1..n |-> m + j - 1]
<1>1. /\ table \in Seq(RowType) /\ Len(table) \in Nat /\ DOMAIN table = 1..Len(table)
      /\ \A j \in 1..Len(table) : table[j] \in RowType
      /\ HistoryLimit \in Nat
  BY TableElements, HistoryAssumption DEF TableOK
<1>2. m \in 1..(Len(table) + 1) /\ n \in Nat /\ n <= HistoryLimit
  BY <1>1
<1>3. new = SubSeq(table, m, Len(table))
  BY DEF KeepNewest
<1> HIDE DEF m, new
<1>4. /\ new \in Seq(RowType) /\ Len(new) = n
      /\ \A j \in 1..n : new[j] = table[m + j - 1]
  BY <1>1, <1>2, <1>3, SubSeqProperties
<1>5. DOMAIN new = 1..n
  BY <1>4, TableElements
<1>6. /\ f \in [DOMAIN new -> DOMAIN table]
      /\ \A j, k \in DOMAIN new : f[j] = f[k] => j = k
      /\ \A j \in DOMAIN new : new[j] = table[f[j]]
  <2>1. \A j \in 1..n : m + j - 1 \in 1..Len(table)
    BY <1>1, <1>2
  <2>2. f \in [1..n -> 1..Len(table)] /\ \A j \in 1..n : f[j] = m + j - 1
    BY <2>1
  <2>3. \A j, k \in 1..n : m + j - 1 = m + k - 1 => j = k
    BY <1>1, <1>2
  <2> HIDE DEF f
  <2>. QED  BY <1>1, <1>4, <1>5, <2>2, <2>3
<1>7. TableOK(new) /\ \A r : ShownIn(new, r) \subseteq ShownIn(table, r)
  BY <1>4, <1>6, SomeOfTheRows
<1>. QED  BY <1>2, <1>4, <1>7 DEF new

LEMMA RowAdded ==
    ASSUME NEW table, TableOK(table), NEW r \in Runs, ShownIn(table, r) = {}
    PROVE  LET new == Append(table, [run |-> r, status |-> "running"])
           IN  /\ TableOK(new) /\ Len(new) = Len(table) + 1
               /\ ShownIn(new, r) = {"running"}
               /\ \A q : q # r => ShownIn(new, q) = ShownIn(table, q)
<1> DEFINE row == [run |-> r, status |-> "running"]
           new == Append(table, row)
<1>1. /\ table \in Seq(RowType) /\ Len(table) \in Nat /\ DOMAIN table = 1..Len(table)
  BY TableElements DEF TableOK
<1>2. row \in RowType /\ row.run = r /\ row.status = "running"
  BY DEF RowType, Statuses
<1> HIDE DEF row
<1>3. /\ new \in Seq(RowType) /\ Len(new) = Len(table) + 1
      /\ \A i \in 1..Len(table) : new[i] = table[i]
      /\ new[Len(table) + 1] = row
  BY <1>1, <1>2, AppendProperties
<1> HIDE DEF new
<1>4. DOMAIN new = 1..(Len(table) + 1)
  BY <1>3, TableElements
<1>5. \A i \in 1..Len(table) : table[i].run # r
  BY <1>1 DEF ShownIn
<1>6. TableOK(new)
  BY <1>1, <1>2, <1>3, <1>4, <1>5 DEF TableOK
<1>7. ShownIn(new, r) = {"running"}
  <2>1. {j \in DOMAIN new : new[j].run = r} = {Len(table) + 1}
    BY <1>1, <1>2, <1>3, <1>4, <1>5
  <2>. QED  BY <1>2, <1>3, <2>1 DEF ShownIn
<1>8. ASSUME NEW q, q # r
      PROVE  ShownIn(new, q) = ShownIn(table, q)
  <2>1. {j \in DOMAIN new : new[j].run = q} = {j \in DOMAIN table : table[j].run = q}
    BY <1>1, <1>2, <1>3, <1>4, <1>8
  <2>2. \A j \in {k \in DOMAIN table : table[k].run = q} : new[j].status = table[j].status
    BY <1>1, <1>3
  <2>. QED  BY <2>1, <2>2 DEF ShownIn
<1>. QED  BY <1>3, <1>6, <1>7, <1>8 DEF new, row

\* Rows that keep their runs and get other statuses.
LEMMA RowsRewritten ==
    ASSUME NEW table, TableOK(table), NEW new, DOMAIN new = DOMAIN table,
           new = [i \in DOMAIN table |-> new[i]],
           \A i \in DOMAIN table : new[i] \in RowType /\ new[i].run = table[i].run
    PROVE  TableOK(new) /\ Len(new) = Len(table)
<1>1. /\ Len(table) \in Nat /\ DOMAIN table = 1..Len(table)
  BY TableElements DEF TableOK
<1>2. new \in [1..Len(table) -> RowType]
  BY <1>1
<1>3. new \in Seq(RowType)
  BY <1>1, <1>2, SeqDef
<1>4. Len(new) = Len(table)
  BY <1>1, <1>3, TableElements
<1>. QED  BY <1>3, <1>4 DEF TableOK

LEMMA RecordIsShown == \A r : OnRecord(r) <=> Shown(r) # {}
BY DEF OnRecord, Shown, ShownIn

LEMMA RowsFinished ==
    ASSUME TableOK(rows), NEW r \in Runs, NEW st \in Statuses
    PROVE  /\ TableOK(Finished(r, st)) /\ Len(Finished(r, st)) = Len(rows)
           /\ ShownIn(Finished(r, st), r) = IF OnRecord(r) THEN {st} ELSE {}
           /\ \A q : q # r => ShownIn(Finished(r, st), q) = Shown(q)
<1> DEFINE new == Finished(r, st)
<1>1. \A i \in DOMAIN rows : rows[i] \in RowType
  BY TableElements DEF TableOK
<1>2. /\ DOMAIN new = DOMAIN rows /\ new = [i \in DOMAIN rows |-> new[i]]
      /\ \A i \in DOMAIN rows :
            /\ new[i] \in RowType /\ new[i].run = rows[i].run
            /\ new[i].status = IF rows[i].run = r THEN st ELSE rows[i].status
  BY <1>1 DEF Finished, RowType
<1> HIDE DEF new
<1>3. TableOK(new) /\ Len(new) = Len(rows)
  BY <1>2, RowsRewritten
<1>4. ShownIn(new, r) = IF OnRecord(r) THEN {st} ELSE {}
  BY <1>2 DEF ShownIn, OnRecord
<1>5. ASSUME NEW q, q # r
      PROVE  ShownIn(new, q) = Shown(q)
  BY <1>2, <1>5 DEF ShownIn, Shown
<1>. QED  BY <1>3, <1>4, <1>5 DEF new

LEMMA RowsInterrupted ==
    ASSUME TableOK(rows)
    PROVE  /\ TableOK(FailRunningRows)
           /\ \A q : ShownIn(FailRunningRows, q) \subseteq
                        (Shown(q) \ {"running"})
                           \cup (IF "running" \in Shown(q) THEN {"failed"} ELSE {})
<1> DEFINE new == FailRunningRows
<1>1. \A i \in DOMAIN rows : rows[i] \in RowType
  BY TableElements DEF TableOK
<1>2. /\ DOMAIN new = DOMAIN rows /\ new = [i \in DOMAIN rows |-> new[i]]
      /\ \A i \in DOMAIN rows :
            /\ new[i] \in RowType /\ new[i].run = rows[i].run
            /\ new[i].status = IF rows[i].status = "running" THEN "failed" ELSE rows[i].status
  BY <1>1 DEF FailRunningRows, RowType, Statuses
<1> HIDE DEF new
<1>3. TableOK(new)
  BY <1>2, RowsRewritten
<1>4. ASSUME NEW q
      PROVE  ShownIn(new, q) \subseteq (Shown(q) \ {"running"})
                           \cup (IF "running" \in Shown(q) THEN {"failed"} ELSE {})
  BY <1>2 DEF ShownIn, Shown
<1>. QED  BY <1>3, <1>4 DEF new

\* The transactions of the history, by what is on record of each run.
Others(r) == \A q \in Runs \ {r} : Shown(q)' \subseteq Shown(q)

LEMMA HistoryMoves ==
    ASSUME TableOK(rows), NEW r \in Runs
    PROVE  /\ StartRow(r) /\ Shown(r) = {} =>
                 /\ TableOK(rows') /\ Len(rows') = Len(rows) + 1
                 /\ Shown(r)' = {"running"} /\ \A q \in Runs \ {r} : Shown(q)' = Shown(q)
           /\ CommitRow(r, "succeeded") =>
                 /\ TableOK(rows') /\ Len(rows') = Len(rows)
                 /\ Shown(r)' = {"succeeded"} /\ \A q \in Runs \ {r} : Shown(q)' = Shown(q)
           /\ DeleteRow(r) =>
                 /\ TableOK(rows') /\ Len(rows') = Len(rows) - 1
                 /\ \A q \in Runs : Shown(q)' \subseteq Shown(q)
           /\ Trim(rows) =>
                 /\ TableOK(rows')
                 /\ Len(rows') <= HistoryLimit \/ (StoreMayFail /\ rows' = rows)
                 /\ \A q \in Runs : Shown(q)' \subseteq Shown(q)
           /\ FinishRow(r, "failed") =>
                 /\ TableOK(rows') /\ Others(r)
                 /\ Shown(r)' \subseteq {"failed"} \/ (StoreMayFail /\ Shown(r)' = Shown(r))
           /\ ReopenHistory =>
                 /\ TableOK(rows')
                 /\ (StoreMayFail /\ rows' = rows) \/ \A q \in Runs : "running" \notin Shown(q)'
                 /\ \A q \in Runs : "running" \in Shown(q) \/ Shown(q)' \subseteq Shown(q)
                 /\ \A q \in Runs : Shown(q)' \subseteq Shown(q) \cup {"failed"}
                 /\ \A q \in Runs : Shown(q) = {} => Shown(q)' = {}
<1> USE DEF Shown
<1>1. ASSUME StartRow(r), Shown(r) = {}
      PROVE  /\ TableOK(rows') /\ Len(rows') = Len(rows) + 1
             /\ Shown(r)' = {"running"} /\ \A q \in Runs \ {r} : Shown(q)' = Shown(q)
  BY <1>1, RowAdded DEF StartRow
<1>2. ASSUME CommitRow(r, "succeeded")
      PROVE  /\ TableOK(rows') /\ Len(rows') = Len(rows)
             /\ Shown(r)' = {"succeeded"} /\ \A q \in Runs \ {r} : Shown(q)' = Shown(q)
  BY <1>2, RowsFinished DEF CommitRow, Statuses
<1>3. ASSUME DeleteRow(r)
      PROVE  /\ TableOK(rows') /\ Len(rows') = Len(rows) - 1
             /\ \A q \in Runs : Shown(q)' \subseteq Shown(q)
  BY <1>3, RowRemoved DEF DeleteRow
<1>4. ASSUME Trim(rows)
      PROVE  /\ TableOK(rows')
             /\ Len(rows') <= HistoryLimit \/ (StoreMayFail /\ rows' = rows)
             /\ \A q \in Runs : Shown(q)' \subseteq Shown(q)
  BY <1>4, RowsTrimmed DEF Trim
<1>5. ASSUME FinishRow(r, "failed")
      PROVE  /\ TableOK(rows') /\ Others(r)
             /\ Shown(r)' \subseteq {"failed"} \/ (StoreMayFail /\ Shown(r)' = Shown(r))
  <2> DEFINE new == Finished(r, "failed")
  <2>1. /\ TableOK(new) /\ ShownIn(new, r) \subseteq {"failed"}
        /\ \A q \in Runs \ {r} : ShownIn(new, q) = Shown(q)
    BY RowsFinished DEF Statuses
  <2>2. CASE rows' = new
    BY <2>1, <2>2 DEF Others
  <2>3. CASE rows' = KeepNewest(HistoryLimit, new)
    BY <2>1, <2>3, RowsTrimmed DEF Others
  <2>4. CASE rows' = rows /\ (StoreMayFail \/ ~OnRecord(r))
    BY <2>4, RecordIsShown DEF Others
  <2>. QED  BY <1>5, <2>2, <2>3, <2>4 DEF FinishRow, Trim, StoreFails, historyVars
<1>6. ASSUME ReopenHistory
      PROVE  /\ TableOK(rows')
             /\ (StoreMayFail /\ rows' = rows) \/ \A q \in Runs : "running" \notin Shown(q)'
             /\ \A q \in Runs : "running" \in Shown(q) \/ Shown(q)' \subseteq Shown(q)
             /\ \A q \in Runs : Shown(q)' \subseteq Shown(q) \cup {"failed"}
             /\ \A q \in Runs : Shown(q) = {} => Shown(q)' = {}
  BY <1>6, RowsInterrupted DEF ReopenHistory
<1>. QED  BY <1>1, <1>2, <1>3, <1>4, <1>5, <1>6

-----------------------------------------------------------------------------
(* The calls and what is on record of them                                 *)

\* How a call and its blocking work fit what the table shows of it.  With a store
\* that fails, a row may keep an earlier status, but never a wrong outcome.
Fits(state, work, known, shown) ==
    /\ state \in {"idle", "rejected", "limited"} => work = NoJob /\ shown = {}
    /\ state = "opening" => work.what = "open"
    /\ state = "executing" =>
          /\ work.what \in {"none", "crew"}
          /\ shown \subseteq (IF known THEN {"running"} ELSE {})
    /\ state = "closing" => work.what = "close"
    /\ state \in {"replied", "failed", "lost"} => work = NoJob
    /\ work.what = "open" => shown \subseteq (IF work.at = "done" THEN {"running"} ELSE {})
    /\ work.what = "close" =>
          IF work.at \in {"queued", "running"} THEN shown \subseteq {"running"}
                                               ELSE StoreMayFail \/ shown \subseteq {"succeeded"}
    /\ state = "replied" => StoreMayFail \/ shown \subseteq {"succeeded"}
    /\ state = "failed" => StoreMayFail \/ shown \subseteq {"failed"}

CallFits(r) == Fits(call[r], job[r], recorded[r], Shown(r))

RecordsFit ==
    /\ CallsOfSlots
    /\ TableOK(rows)
    /\ job \in [Runs -> Jobs]
    /\ recorded \in [Runs -> BOOLEAN]
    /\ \A r \in Runs : CallFits(r)

\* What is on record of a run goes, or was not its outcome.
NothingIsRewritten == \A q \in Runs : Shown(q)' \subseteq Shown(q) \/ Shown(q) \subseteq {"running"}

LEMMA RecordsFitInit == ManagerInit => RecordsFit
<1> SUFFICES ASSUME ManagerInit
             PROVE  RecordsFit
  OBVIOUS
<1>1. /\ rows = <<>> /\ job = [r \in Runs |-> NoJob] /\ recorded = [r \in Runs |-> FALSE]
      /\ call = [r \in Runs |-> "idle"]
  BY DEF ManagerInit, HistoryInit
<1>2. rows \in Seq(RowType) /\ DOMAIN rows = {}
  BY <1>1, EmptySeq
<1>3. TableOK(rows) /\ \A r \in Runs : Shown(r) = {}
  BY <1>2 DEF TableOK, Shown, ShownIn
<1>4. NoJob \in Jobs /\ NoJob.what = "none"
  BY DEF Jobs, NoJob, Job
<1>5. \A r \in Runs : CallFits(r)
  BY <1>1, <1>3, <1>4 DEF CallFits, Fits
<1>. QED  BY <1>1, <1>3, <1>4, <1>5, CallsOfSlotsInit DEF RecordsFit

\* A step of one call, which leaves on record of the others what was or less.
LEMMA OneCallFits ==
    ASSUME RecordsFit, CallsOfSlots', NEW r \in Runs, TableOK(rows'),
           job' \in [Runs -> Jobs], recorded' \in [Runs -> BOOLEAN],
           \A q \in Runs \ {r} : /\ call'[q] = call[q] /\ job'[q] = job[q]
                                 /\ recorded'[q] = recorded[q],
           Others(r), CallFits(r)',
           Shown(r)' \subseteq Shown(r) \/ Shown(r) \subseteq {"running"}
    PROVE  RecordsFit' /\ NothingIsRewritten
<1>1. ASSUME NEW q \in Runs \ {r}
      PROVE  CallFits(q)'
  <2>1. Fits(call[q], job[q], recorded[q], Shown(q)) /\ Shown(q)' \subseteq Shown(q)
    BY DEF RecordsFit, CallFits, Others
  <2>2. Fits(call[q], job[q], recorded[q], Shown(q)')
    BY <2>1 DEF Fits
  <2>. QED  BY <2>2 DEF CallFits
<1>2. RecordsFit'
  BY <1>1 DEF RecordsFit
<1>3. NothingIsRewritten
  BY DEF Others, NothingIsRewritten
<1>. QED  BY <1>2, <1>3

LEMMA JobFields ==
    /\ \A what, at : Job(what, at).what = what /\ Job(what, at).at = at
    /\ NoJob.what = "none" /\ NoJob.at = "none" /\ NoJob \in Jobs
    /\ Job("open", "queued") \in Jobs /\ Job("crew", "queued") \in Jobs /\ Job("close", "queued") \in Jobs
    /\ \A j \in Jobs : j.what \in {"none", "open", "crew", "close"} /\ (j.what = "none" => j = NoJob)
BY DEF Job, NoJob, Jobs

\* A thread's step, on the job of one call.
LEMMA ThreadStepFits ==
    ASSUME RecordsFit, CallsOfSlots', NEW r \in Runs, NEW from \in Jobs, NEW to \in Jobs,
           JobStep(r, from, to), from # NoJob, to.what = from.what, TableOK(rows'), Others(r),
           Shown(r)' \subseteq Shown(r) \/ Shown(r) \subseteq {"running"},
           from.what = "crew" => Shown(r)' \subseteq Shown(r),
           from.what = "open" => Shown(r)' \subseteq (IF to.at = "done" THEN {"running"} ELSE {}),
           from.what = "close" =>
              IF to.at \in {"queued", "running"} THEN Shown(r)' \subseteq {"running"}
                                                 ELSE StoreMayFail \/ Shown(r)' \subseteq {"succeeded"}
    PROVE  RecordsFit' /\ NothingIsRewritten
<1>1. /\ job[r] = from /\ job' = [job EXCEPT ![r] = to] /\ call' = call /\ recorded' = recorded
      /\ job \in [Runs -> Jobs] /\ recorded \in [Runs -> BOOLEAN] /\ CallFits(r)
  BY DEF JobStep, RecordsFit
<1>2. job' \in [Runs -> Jobs] /\ job'[r] = to /\ \A q \in Runs \ {r} : job'[q] = job[q]
  BY <1>1
<1>3. from.what \in {"open", "crew", "close"}
  BY JobFields
<1>4. CallFits(r)'
  BY <1>1, <1>2, <1>3 DEF CallFits, Fits
<1>. QED  BY <1>1, <1>2, <1>4, OneCallFits

LEMMA ThreadKeepsRecords ==
    ASSUME RecordsFit, CallsOfSlots', NEW r \in Runs, ThreadStep(r)
    PROVE  RecordsFit' /\ NothingIsRewritten
<1>0. /\ TableOK(rows) /\ job[r] \in Jobs /\ CallFits(r)
  BY DEF RecordsFit
<1>1. UNCHANGED rows => TableOK(rows') /\ Others(r) /\ Shown(r)' = Shown(r)
  BY <1>0 DEF Others, Shown
<1>2. CASE TakeJob(r)
  <2> DEFINE w == job[r].what
  <2>1. /\ JobStep(r, Job(w, "queued"), Job(w, "running")) /\ UNCHANGED rows
        /\ job[r] = Job(w, "queued")
    BY <1>2 DEF TakeJob, JobStep, historyVars
  <2>2. w \in {"open", "crew", "close"} /\ Job(w, "queued") # NoJob /\ Job(w, "running") \in Jobs
    BY <1>0, <2>1 DEF Jobs, Job, NoJob
  <2> HIDE DEF w
  <2>3. /\ w = "open" => Shown(r) = {}
        /\ w = "close" => Shown(r) \subseteq {"running"}
    BY <1>0, <2>1, JobFields DEF CallFits, Fits
  <2>. QED  BY <1>0, <1>1, <2>1, <2>2, <2>3, JobFields, ThreadStepFits
<1>3. CASE OpenRow(r)
  <2>1. /\ JobStep(r, Job("open", "running"), Job("open", "done"))
           \/ JobStep(r, Job("open", "running"), Job("open", "raised"))
        /\ job[r] = Job("open", "running")
    BY <1>3 DEF OpenRow, JobStep
  <2>2. /\ Job("open", "running") \in Jobs /\ Job("open", "running") # NoJob
        /\ Job("open", "done") \in Jobs /\ Job("open", "raised") \in Jobs
    BY DEF Jobs, Job, NoJob
  <2>3. Shown(r) = {}
    BY <1>0, <2>1, JobFields DEF CallFits, Fits
  <2>4. CASE JobStep(r, Job("open", "running"), Job("open", "done")) /\ StartRow(r)
    <3>1. TableOK(rows') /\ Others(r) /\ Shown(r)' = {"running"}
      BY <1>0, <2>3, <2>4, HistoryMoves DEF Others
    <3>. QED  BY <2>2, <2>3, <2>4, <3>1, JobFields, ThreadStepFits
  <2>5. CASE JobStep(r, Job("open", "running"), Job("open", "raised")) /\ UNCHANGED rows
    BY <1>1, <2>2, <2>3, <2>5, JobFields, ThreadStepFits
  <2>. QED  BY <1>3, <2>4, <2>5 DEF OpenRow, StoreFails, historyVars
<1>4. CASE RunCrew(r)
  <2>1. PICK end \in {"done", "raised"} :
           JobStep(r, Job("crew", "running"), Job("crew", end)) /\ UNCHANGED rows
    BY <1>4 DEF RunCrew, historyVars
  <2>2. /\ Job("crew", "running") \in Jobs /\ Job("crew", "running") # NoJob
        /\ Job("crew", end) \in Jobs
    BY DEF Jobs, Job, NoJob
  <2>. QED  BY <1>1, <2>1, <2>2, JobFields, ThreadStepFits
<1>5. CASE CloseRow(r)
  <2>1. /\ Job("close", "running") \in Jobs /\ Job("close", "running") # NoJob
        /\ Job("close", "committed") \in Jobs /\ Job("close", "done") \in Jobs
    BY DEF Jobs, Job, NoJob
  <2>2. job[r] = Job("close", "running")
    BY <1>5 DEF CloseRow, JobStep
  <2>3. Shown(r) \subseteq {"running"}
    BY <1>0, <2>2, JobFields DEF CallFits, Fits
  <2>4. CASE CommitRow(r, "succeeded") /\ JobStep(r, Job("close", "running"), Job("close", "committed"))
    <3>1. TableOK(rows') /\ Others(r) /\ Shown(r)' = {"succeeded"}
      BY <1>0, <2>4, HistoryMoves DEF Others
    <3>. QED  BY <2>1, <2>3, <2>4, <3>1, JobFields, ThreadStepFits
  <2>5. CASE /\ UNCHANGED rows /\ (~OnRecord(r) \/ StoreMayFail)
             /\ JobStep(r, Job("close", "running"), Job("close", "done"))
    <3>1. StoreMayFail \/ Shown(r) = {}
      BY <2>5, RecordIsShown
    <3>. QED  BY <1>1, <2>1, <2>3, <2>5, <3>1, JobFields, ThreadStepFits
  <2>. QED  BY <1>5, <2>4, <2>5 DEF CloseRow, historyVars
<1>6. CASE CountRun(r) \/ TrimTable(r)
  <2>1. PICK from \in {"committed", "trimming"}, to \in {"trimming", "done"} :
           JobStep(r, Job("close", from), Job("close", to))
    BY <1>6 DEF CountRun, TrimTable
  <2>2. Job("close", from) \in Jobs /\ Job("close", from) # NoJob /\ Job("close", to) \in Jobs
    BY DEF Jobs, Job, NoJob
  <2>3. StoreMayFail \/ Shown(r) \subseteq {"succeeded"}
    <3>1. job[r] = Job("close", from)
      BY <2>1 DEF JobStep
    <3>. QED  BY <1>0, <3>1, JobFields DEF CallFits, Fits
  <2>4. TableOK(rows') /\ \A q \in Runs : Shown(q)' \subseteq Shown(q)
    <3>1. CASE UNCHANGED rows
      BY <1>0, <3>1 DEF Shown
    <3>2. CASE Trim(rows)
      BY <1>0, <3>2, HistoryMoves
    <3>. QED  BY <1>6, <3>1, <3>2 DEF CountRun, TrimTable
  <2>. QED  BY <2>1, <2>2, <2>3, <2>4, JobFields, ThreadStepFits DEF Others
<1>. QED  BY <1>2, <1>3, <1>4, <1>5, <1>6 DEF ThreadStep

\* The event loop's steps of a call that write no row.
LEMMA CallMovesOnRecord ==
    ASSUME RecordsFit, CallsOfSlots', NEW r \in Runs, UNCHANGED rows,
           NEW state, NEW work \in Jobs, NEW known \in BOOLEAN,
           call' = [call EXCEPT ![r] = state], job' = [job EXCEPT ![r] = work],
           recorded' = [recorded EXCEPT ![r] = known],
           Fits(state, work, known, Shown(r))
    PROVE  RecordsFit' /\ NothingIsRewritten
<1>1. /\ call \in [Runs -> Calls] /\ job \in [Runs -> Jobs] /\ recorded \in [Runs -> BOOLEAN]
      /\ TableOK(rows)
  BY DEF RecordsFit, CallsOfSlots
<1>2. /\ call'[r] = state /\ job'[r] = work /\ recorded'[r] = known
      /\ job' \in [Runs -> Jobs] /\ recorded' \in [Runs -> BOOLEAN]
      /\ \A q \in Runs \ {r} : call'[q] = call[q] /\ job'[q] = job[q] /\ recorded'[q] = recorded[q]
  BY <1>1
<1>3. TableOK(rows') /\ \A q \in Runs : Shown(q)' = Shown(q)
  BY <1>1 DEF Shown
<1>4. CallFits(r)'
  BY <1>2, <1>3 DEF CallFits
<1>. QED  BY <1>2, <1>3, <1>4, OneCallFits DEF Others

\* The end of a call that was executing: the row it opened is closed.
LEMMA ExecutionEndsOnRecord ==
    ASSUME RecordsFit, CallsOfSlots', NEW r \in Runs, NEW state \in {"failed", "cancelled"},
           NEW work \in Jobs, call[r] = "executing", CloseFailed(r, state),
           job' = [job EXCEPT ![r] = work],
           work.what \in {"none", "crew"}, state = "failed" => work = NoJob
    PROVE  RecordsFit' /\ NothingIsRewritten
<1>1. /\ call \in [Runs -> Calls] /\ job \in [Runs -> Jobs] /\ recorded \in [Runs -> BOOLEAN]
      /\ TableOK(rows) /\ CallFits(r)
  BY DEF RecordsFit, CallsOfSlots
<1>2. /\ call'[r] = state /\ job'[r] = work /\ job' \in [Runs -> Jobs] /\ recorded' = recorded
      /\ \A q \in Runs \ {r} : call'[q] = call[q] /\ job'[q] = job[q]
  BY <1>1 DEF CloseFailed, Become
<1>3. Shown(r) \subseteq (IF recorded[r] THEN {"running"} ELSE {})
  BY <1>1 DEF CallFits, Fits
<1>4. TableOK(rows') /\ Others(r) /\ (Shown(r)' \subseteq {"failed"} \/ StoreMayFail)
  <2>1. CASE recorded[r]
    <3>1. FinishRow(r, "failed")
      BY <2>1 DEF CloseFailed
    <3>. QED  BY <1>1, <3>1, HistoryMoves
  <2>2. CASE ~recorded[r]
    <3>1. rows' = rows
      BY <2>2 DEF CloseFailed, historyVars
    <3>2. Shown(r) = {} /\ \A q \in Runs : Shown(q)' = Shown(q)
      BY <1>3, <2>2, <3>1 DEF Shown
    <3>. QED  BY <1>1, <3>1, <3>2 DEF Others
  <2>. QED  BY <2>1, <2>2
<1>5. CallFits(r)'
  BY <1>2, <1>4, JobFields DEF CallFits, Fits
<1>. QED  BY <1>1, <1>2, <1>3, <1>4, <1>5, OneCallFits

LEMMA RecordsFitNext == RecordsFit /\ [ManagerNext]_vars => RecordsFit' /\ NothingIsRewritten
<1> SUFFICES ASSUME RecordsFit, [ManagerNext]_vars
             PROVE  RecordsFit' /\ NothingIsRewritten
  OBVIOUS
<1>0. /\ call \in [Runs -> Calls] /\ job \in [Runs -> Jobs] /\ recorded \in [Runs -> BOOLEAN]
      /\ TableOK(rows) /\ CallsOfSlots /\ \A r \in Runs : CallFits(r)
  BY DEF RecordsFit, CallsOfSlots
<1>1. CallsOfSlots'
  BY <1>0, CallsOfSlotsNext
<1>2. ASSUME UNCHANGED <<call, job, recorded, rows>>
      PROVE  RecordsFit' /\ NothingIsRewritten
  <2>1. \A r \in Runs : Shown(r)' = Shown(r)
    BY <1>2 DEF Shown
  <2>. QED  BY <1>0, <1>1, <1>2, <2>1 DEF RecordsFit, CallFits, NothingIsRewritten
<1>3. \A r \in Runs : /\ job = [job EXCEPT ![r] = job[r]] /\ job[r] \in Jobs
                      /\ recorded = [recorded EXCEPT ![r] = recorded[r]] /\ recorded[r] \in BOOLEAN
                      /\ call = [call EXCEPT ![r] = call[r]]
  BY <1>0
<1>4. CASE UNCHANGED vars
  BY <1>2, <1>4 DEF vars, managerVars, historyVars
<1>5. ASSUME NEW s \in Sessions, Create(s) \/ Delete(s) \/ Speak(s)
      PROVE  RecordsFit' /\ NothingIsRewritten
  BY <1>2, <1>5 DEF Create, Delete, Speak, managerVars, historyVars
<1>6. ASSUME NEW w \in Workflows, RemoveWorkflow(w)
      PROVE  RecordsFit' /\ NothingIsRewritten
  BY <1>2, <1>6 DEF RemoveWorkflow, historyVars
<1>7. ASSUME NEW r \in Runs, CancelWaiting(r)
      PROVE  RecordsFit' /\ NothingIsRewritten
  BY <1>2, <1>7 DEF CancelWaiting, managerVars, historyVars
<1>8. ASSUME NEW r \in Runs, DeleteRun(r)
      PROVE  RecordsFit' /\ NothingIsRewritten
  <2>1. /\ UNCHANGED <<call, job, recorded>> /\ TableOK(rows')
        /\ \A q \in Runs : Shown(q)' \subseteq Shown(q)
    BY <1>0, <1>8, HistoryMoves DEF DeleteRun, managerVars
  <2>2. CallFits(r)'
    BY <1>0, <2>1 DEF CallFits, Fits
  <2>. QED  BY <1>0, <1>1, <2>1, <2>2, OneCallFits DEF Others
<1>9. ASSUME NEW r \in Runs, NEW known \in BOOLEAN, EnterSlot(r), UNCHANGED rows,
             recorded' = [recorded EXCEPT ![r] = known],
             Shown(r) \subseteq (IF known THEN {"running"} ELSE {})
      PROVE  RecordsFit' /\ NothingIsRewritten
  <2>1. PICK work \in {NoJob, Job("crew", "queued")} :
           job' = [job EXCEPT ![r] = work] /\ call' = [call EXCEPT ![r] = "executing"]
    BY <1>9 DEF EnterSlot, Become, Hand
  <2>2. Fits("executing", work, known, Shown(r)) /\ work \in Jobs
    BY <1>9, JobFields DEF Fits
  <2>. QED  BY <1>1, <1>9, <2>1, <2>2, CallMovesOnRecord
<1>10. ASSUME NEW r \in Runs, Submit(r)
       PROVE  RecordsFit' /\ NothingIsRewritten
  <2>1. call[r] = "idle" /\ UNCHANGED <<rows, recorded>>
    BY <1>10 DEF Submit, historyVars
  <2>2. job[r] = NoJob /\ Shown(r) = {}
    BY <1>0, <2>1 DEF CallFits, Fits
  <2>3. CASE EnterSlot(r)
    BY <1>3, <1>9, <2>1, <2>2, <2>3
  <2>4. CASE \E state \in {"rejected", "limited"} : Become(r, state) /\ UNCHANGED job
    <3>1. PICK state \in {"rejected", "limited"} : Become(r, state) /\ UNCHANGED job
      BY <2>4
    <3>2. Fits(state, job[r], recorded[r], Shown(r))
      BY <2>2, JobFields DEF Fits
    <3>3. /\ call' = [call EXCEPT ![r] = state] /\ job' = [job EXCEPT ![r] = job[r]]
          /\ recorded' = [recorded EXCEPT ![r] = recorded[r]]
      BY <1>3, <2>1, <3>1 DEF Become
    <3>4. job[r] \in Jobs /\ recorded[r] \in BOOLEAN /\ UNCHANGED rows
      BY <1>3, <2>1
    <3>. QED  BY <1>1, <3>2, <3>3, <3>4, CallMovesOnRecord
  <2>5. CASE Become(r, "opening") /\ Hand(r, "open")
    <3>1. Fits("opening", Job("open", "queued"), recorded[r], Shown(r))
      BY <2>2, JobFields DEF Fits
    <3>2. /\ call' = [call EXCEPT ![r] = "opening"]
          /\ job' = [job EXCEPT ![r] = Job("open", "queued")]
          /\ recorded' = [recorded EXCEPT ![r] = recorded[r]]
          /\ recorded[r] \in BOOLEAN /\ UNCHANGED rows
      BY <1>3, <2>1, <2>5 DEF Become, Hand
    <3>. QED  BY <1>1, <3>1, <3>2, JobFields, CallMovesOnRecord
  <2>. QED  BY <1>10, <2>3, <2>4, <2>5 DEF Submit
<1>11. ASSUME NEW r \in Runs, Opened(r)
       PROVE  RecordsFit' /\ NothingIsRewritten
  <2>1. /\ call[r] = "opening" /\ job[r].at \in {"done", "raised"} /\ EnterSlot(r) /\ UNCHANGED rows
        /\ recorded' = [recorded EXCEPT ![r] = (job[r].at = "done")]
    BY <1>11 DEF Opened, historyVars
  <2>2. Shown(r) \subseteq (IF job[r].at = "done" THEN {"running"} ELSE {})
    BY <1>0, <2>1 DEF CallFits, Fits
  <2>. QED  BY <1>9, <2>1, <2>2
<1>12. ASSUME NEW r \in Runs, SlotGranted(r)
       PROVE  RecordsFit' /\ NothingIsRewritten
  <2>1. /\ job' = [job EXCEPT ![r] = Job("crew", "queued")] /\ UNCHANGED <<rows, call, recorded>>
        /\ phase[r] # "outside"
    BY <1>12 DEF SlotGranted, Hand, Resume, historyVars
  <2>2. call[r] = "executing"
    BY <1>0, <2>1 DEF CallsOfSlots
  <2>3. Fits(call[r], Job("crew", "queued"), recorded[r], Shown(r))
    BY <1>0, <2>2, JobFields DEF CallFits, Fits
  <2>4. /\ call' = [call EXCEPT ![r] = call[r]]
        /\ recorded' = [recorded EXCEPT ![r] = recorded[r]] /\ recorded[r] \in BOOLEAN
    BY <1>3, <2>1
  <2>5. Job("crew", "queued") \in Jobs
    BY JobFields
  <2>6. UNCHANGED rows /\ job' = [job EXCEPT ![r] = Job("crew", "queued")]
    BY <2>1
  <2>. QED  BY <1>1, <2>3, <2>4, <2>5, <2>6, CallMovesOnRecord
<1>13. ASSUME NEW r \in Runs, Reply(r)
       PROVE  RecordsFit' /\ NothingIsRewritten
  <2>1. /\ call[r] = "executing" /\ UNCHANGED <<rows, recorded>>
        /\ \/ recorded[r] /\ Become(r, "closing") /\ Hand(r, "close")
           \/ ~recorded[r] /\ Become(r, "replied") /\ job' = [job EXCEPT ![r] = NoJob]
    BY <1>13 DEF Reply, historyVars
  <2>2. Shown(r) \subseteq (IF recorded[r] THEN {"running"} ELSE {})
    BY <1>0, <2>1 DEF CallFits, Fits
  <2>3. CASE recorded[r] /\ Become(r, "closing") /\ Hand(r, "close")
    <3>1. Fits("closing", Job("close", "queued"), recorded[r], Shown(r))
      BY <2>2, <2>3, JobFields DEF Fits
    <3>2. /\ call' = [call EXCEPT ![r] = "closing"] /\ job' = [job EXCEPT ![r] = Job("close", "queued")]
          /\ recorded' = [recorded EXCEPT ![r] = recorded[r]]
          /\ recorded[r] \in BOOLEAN /\ UNCHANGED rows
      BY <1>3, <2>1, <2>3 DEF Become, Hand
    <3>. QED  BY <1>1, <3>1, <3>2, JobFields, CallMovesOnRecord
  <2>4. CASE ~recorded[r] /\ Become(r, "replied") /\ job' = [job EXCEPT ![r] = NoJob]
    <3>1. Fits("replied", NoJob, recorded[r], Shown(r))
      BY <2>2, <2>4, JobFields DEF Fits
    <3>2. /\ call' = [call EXCEPT ![r] = "replied"] /\ job' = [job EXCEPT ![r] = NoJob]
          /\ recorded' = [recorded EXCEPT ![r] = recorded[r]]
          /\ recorded[r] \in BOOLEAN /\ UNCHANGED rows
      BY <1>3, <2>1, <2>4 DEF Become
    <3>. QED  BY <1>1, <3>1, <3>2, JobFields, CallMovesOnRecord
  <2>. QED  BY <2>1, <2>3, <2>4
<1>14. ASSUME NEW r \in Runs, Closed(r)
       PROVE  RecordsFit' /\ NothingIsRewritten
  <2>1. Fits("replied", NoJob, recorded[r], Shown(r))
    <3>1. job[r] = Job("close", "done")
      BY <1>14 DEF Closed
    <3>. QED  BY <1>0, <3>1, JobFields DEF CallFits, Fits
  <2>2. /\ call' = [call EXCEPT ![r] = "replied"] /\ job' = [job EXCEPT ![r] = NoJob]
        /\ UNCHANGED <<rows, recorded>>
    BY <1>14 DEF Closed, Become, historyVars
  <2>3. recorded' = [recorded EXCEPT ![r] = recorded[r]] /\ recorded[r] \in BOOLEAN /\ NoJob \in Jobs
    BY <1>3, <2>2, JobFields
  <2>. QED  BY <1>1, <2>1, <2>2, <2>3, CallMovesOnRecord
<1>15. ASSUME NEW r \in Runs, CancelUnguarded(r)
       PROVE  RecordsFit' /\ NothingIsRewritten
  <2>1. PICK work \in {job[r], NoJob} : job' = [job EXCEPT ![r] = work]
    BY <1>15 DEF CancelUnguarded, Abandon
  <2>2. Fits("cancelled", work, recorded[r], Shown(r)) /\ work \in Jobs
    BY <1>0, <1>3, JobFields DEF CallFits, Fits
  <2>. QED  BY <1>1, <1>3, <1>15, <2>1, <2>2, CallMovesOnRecord DEF CancelUnguarded, Become, historyVars
<1>16. ASSUME NEW r \in Runs, CancelRunning(r) \/ Withdraw(r)
       PROVE  RecordsFit' /\ NothingIsRewritten
  <2>1. CloseFailed(r, "cancelled") /\ call[r] = "executing"
    BY <1>0, <1>16 DEF CancelRunning, Withdraw, Unwind, UnwindWith, CallsOfSlots
  <2>2. job[r].what \in {"none", "crew"}
    BY <1>0, <2>1 DEF CallFits, Fits
  <2>3. PICK work \in {job[r], NoJob} : job' = [job EXCEPT ![r] = work]
    BY <1>3, <1>16 DEF CancelRunning, Withdraw, Abandon
  <2>. QED  BY <1>1, <1>3, <2>1, <2>2, <2>3, JobFields, ExecutionEndsOnRecord
<1>17. ASSUME NEW r \in Runs, Fail(r)
       PROVE  RecordsFit' /\ NothingIsRewritten
  BY <1>1, <1>17, JobFields, ExecutionEndsOnRecord DEF Fail
<1>18. ASSUME NEW r \in Runs, ThreadStep(r)
       PROVE  RecordsFit' /\ NothingIsRewritten
  BY <1>1, <1>18, ThreadKeepsRecords
<1>19. CASE Crash
  <2>1. /\ call' = [r \in Runs |-> IF call[r] \in Live THEN "lost" ELSE call[r]]
        /\ job' = [r \in Runs |-> NoJob] /\ recorded' = recorded /\ ReopenHistory
    BY <1>19 DEF Crash
  <2>2. TableOK(rows') /\ job' \in [Runs -> Jobs] /\ recorded' \in [Runs -> BOOLEAN]
    <3>1. Runs # {} => TableOK(rows')
      BY <1>0, <2>1, HistoryMoves
    <3>2. TableOK(rows')
      BY <1>0, <2>1, RowsInterrupted DEF ReopenHistory
    <3>. QED  BY <1>0, <2>1, <3>2, JobFields
  <2>3. ASSUME NEW r \in Runs
        PROVE  /\ CallFits(r)'
               /\ Shown(r)' \subseteq Shown(r) \/ Shown(r) \subseteq {"running"}
    <3>1. /\ "running" \in Shown(r) \/ Shown(r)' \subseteq Shown(r)
          /\ Shown(r)' \subseteq Shown(r) \cup {"failed"}
          /\ Shown(r) = {} => Shown(r)' = {}
      BY <1>0, <2>1, HistoryMoves
    <3>2. "running" \in Shown(r) => Shown(r) = {"running"}
      BY <1>0 DEF TableOK, Shown, ShownIn
    <3>3. /\ job'[r] = NoJob /\ recorded'[r] = recorded[r]
          /\ call'[r] = IF call[r] \in Live THEN "lost" ELSE call[r]
      BY <2>1
    <3>4. Fits(call[r], job[r], recorded[r], Shown(r))
      BY <1>0 DEF CallFits
    <3>5. call[r] = "replied" => StoreMayFail \/ Shown(r)' \subseteq {"succeeded"}
      BY <3>1, <3>2, <3>4 DEF Fits
    <3>6. call[r] = "failed" => StoreMayFail \/ Shown(r)' \subseteq {"failed"}
      BY <3>1, <3>4 DEF Fits
    <3>7. call[r] \in {"idle", "rejected", "limited"} => Shown(r)' = {}
      BY <3>1, <3>4 DEF Fits
    <3>8. CallFits(r)'
      BY <3>3, <3>5, <3>6, <3>7, JobFields DEF CallFits, Fits, Live
    <3>. QED  BY <3>1, <3>2, <3>8
  <2>. QED  BY <1>1, <2>2, <2>3 DEF RecordsFit, NothingIsRewritten
<1>. QED
  BY <1>4, <1>5, <1>6, <1>7, <1>8, <1>10, <1>11, <1>12, <1>13, <1>14, <1>15, <1>16, <1>17, <1>18,
     <1>19 DEF ManagerNext, CallStep

\* A run has one row at most and its outcome is written once: neither a late
\* cancellation nor a thread nobody waits for, neither trimming nor a restart
\* rewrites it, and a store that fails at any moment does not either.
THEOREM OutcomesAreWrittenOnce == ManagerSpec => OutcomesAreFinal
<1>1. RecordsFit /\ RecordsFit' /\ NothingIsRewritten =>
         [\A i \in DOMAIN rows, j \in DOMAIN rows' :
             rows[i].run = rows'[j].run /\ rows[i].status # "running" => rows'[j] = rows[i]]_vars
  <2> SUFFICES ASSUME RecordsFit, RecordsFit', NothingIsRewritten,
                      NEW i \in DOMAIN rows, NEW j \in DOMAIN rows',
                      rows[i].run = rows'[j].run, rows[i].status # "running"
               PROVE  rows'[j] = rows[i]
    OBVIOUS
  <2>1. rows[i] \in RowType /\ rows'[j] \in RowType
    BY TableElements DEF RecordsFit, TableOK
  <2>2. PICK r \in Runs : r = rows[i].run /\ r = rows'[j].run
    BY <2>1 DEF RowType
  <2>3. rows[i].status \in Shown(r) /\ rows'[j].status \in Shown(r)'
    BY <2>2 DEF Shown, ShownIn
  <2>4. rows'[j].status \in Shown(r)
    BY <2>3 DEF NothingIsRewritten
  <2>5. rows'[j].status = rows[i].status
    BY <2>2, <2>4 DEF Shown, ShownIn, RecordsFit, TableOK
  <2>. QED  BY <2>1, <2>5 DEF RowType
<1>. QED  BY <1>1, RecordsFitInit, RecordsFitNext, PTL DEF ManagerSpec, OutcomesAreFinal

-----------------------------------------------------------------------------
(* Answers and the run history                                             *)

\* The answer of r is in its session, and in what a new process would read of it.
Known(r) ==
    /\ r \in Answered(sess[SessionOf[r]])
    /\ SessionOf[r] \in DOMAIN disk => r \in Answered(disk[SessionOf[r]])

\* Something says that r succeeded, or is about to.
Vouched(r) ==
    call[r] \in {"closing", "replied"} \/ job[r].what = "close" \/ "succeeded" \in Shown(r)

AnswersStand == \A r \in Runs : Vouched(r) => Known(r)

\* Only the answer makes anything say so.
LEMMA OnlyReplyVouches ==
    ASSUME RecordsFit, [ManagerNext]_vars, NEW q \in Runs, Vouched(q)'
    PROVE  Vouched(q) \/ Reply(q)
<1>0. /\ call \in [Runs -> Calls] /\ job \in [Runs -> Jobs] /\ recorded \in [Runs -> BOOLEAN]
      /\ TableOK(rows) /\ CallsOfSlots /\ \A r \in Runs : CallFits(r)
  BY DEF RecordsFit, CallsOfSlots
<1>a. UNCHANGED rows => Shown(q)' = Shown(q)
  BY DEF Shown
<1>1. ASSUME NEW state, NEW work, NEW r \in Runs, UNCHANGED rows,
             call' = [call EXCEPT ![r] = state], job' = [job EXCEPT ![r] = work],
             state \in {"closing", "replied"} => call[r] \in {"closing", "replied"},
             work.what = "close" => job[r].what = "close"
      PROVE  Vouched(q)
  <2>1. /\ call'[q] \in {"closing", "replied"} => call[q] \in {"closing", "replied"}
        /\ job'[q].what = "close" => job[q].what = "close"
    BY <1>0, <1>1
  <2>. QED  BY <1>a, <1>1, <2>1 DEF Vouched
<1>2. ASSUME UNCHANGED <<call, job, rows>>
      PROVE  Vouched(q)
  BY <1>a, <1>2 DEF Vouched
<1>3. CASE UNCHANGED vars
  BY <1>2, <1>3 DEF vars, managerVars, historyVars
<1>4. ASSUME NEW s \in Sessions, Create(s) \/ Delete(s) \/ Speak(s)
      PROVE  Vouched(q)
  BY <1>2, <1>4 DEF Create, Delete, Speak, managerVars, historyVars
<1>5. ASSUME NEW w \in Workflows, RemoveWorkflow(w)
      PROVE  Vouched(q)
  BY <1>2, <1>5 DEF RemoveWorkflow, historyVars
<1>6. ASSUME NEW r \in Runs, CancelWaiting(r)
      PROVE  Vouched(q)
  BY <1>2, <1>6 DEF CancelWaiting, managerVars, historyVars
<1>7. ASSUME NEW r \in Runs, DeleteRun(r)
      PROVE  Vouched(q)
  <2>1. Shown(q)' \subseteq Shown(q) /\ UNCHANGED <<call, job>>
    BY <1>0, <1>7, HistoryMoves DEF DeleteRun, managerVars
  <2>. QED  BY <2>1 DEF Vouched
<1>8. ASSUME NEW r \in Runs, Submit(r)
      PROVE  Vouched(q)
  <2>1. PICK state \in {"rejected", "limited", "opening", "executing"},
             work \in {job[r], NoJob, Job("open", "queued"), Job("crew", "queued")} :
           call' = [call EXCEPT ![r] = state] /\ job' = [job EXCEPT ![r] = work]
    BY <1>0, <1>8 DEF Submit, EnterSlot, Become, Hand
  <2>2. UNCHANGED rows /\ (work.what = "close" => job[r].what = "close")
    BY <1>8, JobFields DEF Submit, historyVars
  <2>3. state \in {"closing", "replied"} => call[r] \in {"closing", "replied"}
    OBVIOUS
  <2>. QED  BY <1>1, <2>1, <2>2, <2>3
<1>9. ASSUME NEW r \in Runs, Opened(r) \/ SlotGranted(r) \/ Closed(r) \/ CancelUnguarded(r)
      PROVE  Vouched(q)
  <2>1. PICK state \in {call[r], "executing", "replied", "cancelled"},
             work \in {job[r], NoJob, Job("crew", "queued")} :
           /\ call' = [call EXCEPT ![r] = state] /\ job' = [job EXCEPT ![r] = work]
           /\ state = "replied" => call[r] \in {"closing", "replied"}
    BY <1>0, <1>9 DEF Opened, EnterSlot, SlotGranted, Closed, CancelUnguarded, Abandon, Become, Hand
  <2>2. UNCHANGED rows
    BY <1>9 DEF Opened, SlotGranted, Closed, CancelUnguarded, historyVars
  <2>3. work.what = "close" => job[r].what = "close"
    BY JobFields
  <2>4. state \in {"closing", "replied"} => call[r] \in {"closing", "replied"}
    BY <2>1
  <2>. QED  BY <1>1, <2>1, <2>2, <2>3, <2>4
<1>10. ASSUME NEW r \in Runs, CancelRunning(r) \/ Withdraw(r) \/ Fail(r)
       PROVE  Vouched(q)
  <2>1. PICK state \in {"failed", "cancelled"}, work \in {job[r], NoJob} :
           /\ CloseFailed(r, state)
           /\ call' = [call EXCEPT ![r] = state] /\ job' = [job EXCEPT ![r] = work]
    BY <1>0, <1>10 DEF CancelRunning, Withdraw, Fail, CloseFailed, Abandon, Become
  <2>2. CASE UNCHANGED rows
    BY <1>1, <2>1, <2>2, JobFields
  <2>3. CASE FinishRow(r, "failed")
    <3>1. Shown(q)' \subseteq Shown(q) \cup {"failed"}
      BY <1>0, <2>3, HistoryMoves DEF Others
    <3>2. /\ call'[q] \in {"closing", "replied"} => call[q] \in {"closing", "replied"}
          /\ job'[q].what = "close" => job[q].what = "close"
      BY <1>0, <2>1, JobFields
    <3>. QED  BY <3>1, <3>2 DEF Vouched
  <2>. QED  BY <2>1, <2>2, <2>3 DEF CloseFailed, historyVars
<1>11. ASSUME NEW r \in Runs, ThreadStep(r)
       PROVE  Vouched(q)
  <2>1. /\ call' = call /\ job'[q].what = job[q].what
    BY <1>0, <1>11, JobFields DEF ThreadStep, TakeJob, OpenRow, RunCrew, CloseRow, CountRun, TrimTable,
       JobStep
  <2>2. CASE UNCHANGED rows
    BY <1>a, <2>1, <2>2 DEF Vouched
  <2>3. CASE job[r] = Job("open", "running") /\ StartRow(r)
    <3>1. Shown(r) = {}
      BY <1>0, <2>3, JobFields DEF CallFits, Fits
    <3>2. Shown(q)' \subseteq Shown(q) \cup {"running"}
      BY <1>0, <2>3, <3>1, HistoryMoves
    <3>. QED  BY <2>1, <3>2 DEF Vouched
  <2>4. CASE job[r] = Job("close", "running") /\ CommitRow(r, "succeeded")
    <3>1. q = r \/ Shown(q)' = Shown(q)
      BY <1>0, <2>4, HistoryMoves
    <3>. QED  BY <2>1, <2>4, <3>1, JobFields DEF Vouched
  <2>5. CASE Trim(rows)
    <3>1. Shown(q)' \subseteq Shown(q)
      BY <1>0, <2>5, HistoryMoves
    <3>. QED  BY <2>1, <3>1 DEF Vouched
  <2>. QED
    BY <1>11, <2>2, <2>3, <2>4, <2>5 DEF ThreadStep, TakeJob, OpenRow, RunCrew, CloseRow, CountRun,
       TrimTable, JobStep, StoreFails, historyVars
<1>12. CASE Crash
  <2>1. /\ call'[q] = (IF call[q] \in Live THEN "lost" ELSE call[q]) /\ job'[q] = NoJob
        /\ Shown(q)' \subseteq Shown(q) \cup {"failed"}
    BY <1>0, <1>12, HistoryMoves DEF Crash
  <2>. QED  BY <2>1, JobFields DEF Vouched
<1>13. ASSUME NEW r \in Runs, Reply(r)
       PROVE  Vouched(q) \/ Reply(q)
  <2>1. \/ Become(r, "closing") /\ Hand(r, "close")
        \/ Become(r, "replied") /\ job' = [job EXCEPT ![r] = NoJob]
    BY <1>13 DEF Reply
  <2>2. q # r => call'[q] = call[q] /\ job'[q] = job[q]
    BY <1>0, <2>1 DEF Become, Hand
  <2>3. UNCHANGED rows
    BY <1>13 DEF Reply, historyVars
  <2>. QED  BY <1>a, <1>13, <2>2, <2>3 DEF Vouched
<1>. QED
  BY <1>3, <1>4, <1>5, <1>6, <1>7, <1>8, <1>9, <1>10, <1>11, <1>12, <1>13 DEF ManagerNext, CallStep

\* No step takes an answer out of a session, or of its file alone.
LEMMA KnownStaysKnown ==
    ASSUME TurnsInv, StoreShape', [ManagerNext]_vars, NEW r \in Runs, SessionOf[r] \in made, Known(r)
    PROVE  Known(r)'
<1> DEFINE s == SessionOf[r]
<1>0. /\ sess \in [Sessions -> SessionType] /\ sess' \in [Sessions -> SessionType]
      /\ s \in made /\ s \in Sessions
  BY DEF TurnsInv, StoreShape
<1>1. ASSUME Longer(sess[s], sess'[s]), SaveSessions \/ UNCHANGED disk
      PROVE  Known(r)'
  <2>1. r \in Answered(sess'[s])
    BY <1>0, <1>1, LongerKeeps DEF Known, Answered
  <2>. QED  BY <1>1, <2>1 DEF Known, SaveSessions, EmptyFile
<1>2. Longer(sess[s], sess[s])
  BY <1>0, LongerIsReflexive
<1>3. StoreStep
  BY StepIsStoreStep DEF TurnsInv
<1>4. ASSUME NEW t \in Sessions, CreateSession(t) \/ DeleteSession(t)
      PROVE  Known(r)'
  <2>1. sess'[s] = sess[s] /\ SaveSessions
    BY <1>0, <1>4 DEF CreateSession, DeleteSession
  <2>. QED  BY <1>1, <1>2, <2>1
<1>5. ASSUME NEW t \in Sessions, Grows(t)
      PROVE  Known(r)'
  <2>1. Longer(sess[s], sess'[s]) /\ (SaveSessions \/ UNCHANGED disk)
    BY <1>0, <1>2, <1>5 DEF Grows
  <2>. QED  BY <1>1, <2>1
<1>6. ASSUME NEW file \in {disk, EmptyFile}, LoadSessions(file)
      PROVE  Known(r)'
  BY <1>0, <1>6 DEF LoadSessions, Known, EmptyFile
<1>7. ASSUME UNCHANGED storeVars
      PROVE  Known(r)'
  BY <1>7 DEF storeVars, Known
<1>. QED  BY <1>3, <1>4, <1>5, <1>6, <1>7 DEF StoreStep

LEMMA AnswersStandNext ==
    ASSUME ~SaveMayFail
    PROVE  TurnsInv /\ RecordsFit /\ AnswersStand /\ [ManagerNext]_vars => AnswersStand'
<1> SUFFICES ASSUME TurnsInv, RecordsFit, AnswersStand, [ManagerNext]_vars,
                    NEW r \in Runs, Vouched(r)'
             PROVE  Known(r)'
  BY DEF AnswersStand
<1>0. StoreShape'
  BY StepIsStoreStep, StoreShapeNext DEF TurnsInv
<1>1. CASE Vouched(r)
  <2>1. Known(r)
    BY <1>1 DEF AnswersStand
  <2>2. call[r] \notin {"idle", "rejected"}
    BY <1>1, JobFields DEF Vouched, RecordsFit, CallFits, Fits
  <2>3. SessionOf[r] \in made
    BY <2>2 DEF TurnsInv, CallsHaveSessions
  <2>. QED  BY <1>0, <2>1, <2>3, KnownStaysKnown
<1>2. CASE Reply(r)
  <2> DEFINE s == SessionOf[r]
             y == Said(sess[s], "assistant", r)
  <2>1. /\ s \in Sessions /\ sess \in [Sessions -> SessionType] /\ sess[s] \in SessionType
        /\ "assistant" \in {"user", "assistant", "notice", "voice"} /\ r \in Runs \cup Sessions
    BY ManagerAssumption DEF TurnsInv, StoreShape
  <2>2. /\ sess' = [sess EXCEPT ![s] = y] /\ disk' = [q \in listed' |-> sess'[q]]
    BY <1>2 DEF Reply, AnswerMessage, SaveSessions
  <2>3. Len(sess[s].log) + 1 \in DOMAIN y.log /\ y.log[Len(sess[s].log) + 1] = <<"assistant", r>>
    <3>1. /\ Len(sess[s].log) \in Nat /\ DOMAIN y.log = 1..(Len(sess[s].log) + 1)
          /\ y.log[Len(sess[s].log) + 1] = <<"assistant", r>>
      BY <2>1, WhatIsSaid
    <3> HIDE DEF y
    <3>. QED  BY <3>1
  <2> HIDE DEF y
  <2>4. r \in Answered(y)
    BY <2>3 DEF Answered, Says
  <2>. QED  BY <2>1, <2>2, <2>4 DEF Known
<1>. QED  BY <1>1, <1>2, OnlyReplyVouches

-----------------------------------------------------------------------------
(* The size of the run history                                             *)

\* Runs whose row the counter has yet to count, and threads that are to trim.
Due(r)    == "running" \in Shown(r) \/ (Shown(r) # {} /\ job[r] = Job("close", "committed"))
DueRuns   == {r \in Runs : Due(r)}
Trimmings == {r \in Runs : job[r] = Job("close", "trimming")}

\* Every row beyond the limit is counted, or will be by a step that is due; a
\* counter that was reset stands for the PruneEvery rows a thread is to trim.
WithinBudget ==
    Len(rows) <= HistoryLimit + sincePrune + Cardinality(DueRuns) + PruneEvery * Cardinality(Trimmings)

CounterInRange == sincePrune \in 0..(PruneEvery - 1) /\ crashes \in Nat

RowsAreCounted == CounterInRange /\ (crashes = 0 => WithinBudget)

LEMMA CountedSetsAreFinite ==
    /\ IsFiniteSet(DueRuns) /\ Cardinality(DueRuns) \in Nat
    /\ IsFiniteSet(Trimmings) /\ Cardinality(Trimmings) \in Nat
    /\ PruneEvery * Cardinality(Trimmings) \in Nat
<1>1. DueRuns \in SUBSET Runs /\ Trimmings \in SUBSET Runs /\ PruneEvery \in Nat
  BY HistoryAssumption DEF DueRuns, Trimmings
<1>2. \A n \in Nat : PruneEvery * n \in Nat
  BY <1>1
<1>. QED  BY <1>1, <1>2, CallSetsAreFinite

\* The same of the next state.
LEMMA NextSetsAreFinite ==
    /\ IsFiniteSet(DueRuns') /\ Cardinality(DueRuns') \in Nat
    /\ IsFiniteSet(Trimmings') /\ Cardinality(Trimmings') \in Nat
    /\ PruneEvery * Cardinality(Trimmings') \in Nat
<1>1. DueRuns' \in SUBSET Runs /\ Trimmings' \in SUBSET Runs /\ PruneEvery \in Nat
  BY HistoryAssumption DEF DueRuns, Trimmings
<1>2. \A n \in Nat : PruneEvery * n \in Nat
  BY <1>1
<1>. QED  BY <1>1, <1>2, CallSetsAreFinite

\* What one run fewer is due may be counted instead.
LEMMA DueMovesToTheCounter ==
    ASSUME NEW limit \in Nat, NEW trims \in Nat, NEW old \in Nat, NEW new \in Nat,
           NEW since \in Nat, NEW after \in Nat, NEW due \in Nat, NEW left \in Nat,
           new - after + 1 <= old - since, old <= limit + since + due + trims, due <= left + 1
    PROVE  new <= limit + after + left + trims
  OBVIOUS

\* The steps that trim, and those that move what was due to the counter.
LEMMA BudgetKept ==
    ASSUME RowsAreCounted, Len(rows) \in Nat, Len(rows') \in Nat,
           sincePrune' \in 0..(PruneEvery - 1), UNCHANGED crashes,
           \/ Len(rows') <= HistoryLimit
           \/ /\ Len(rows') <= Len(rows) /\ sincePrune' = sincePrune
              /\ DueRuns \subseteq DueRuns' /\ Trimmings' = Trimmings
           \/ /\ Len(rows') = Len(rows) + 1 /\ sincePrune' = sincePrune /\ Trimmings' = Trimmings
              /\ \E r \in Runs \ DueRuns : DueRuns \cup {r} \subseteq DueRuns'
           \/ /\ Len(rows') - sincePrune' + 1 <= Len(rows) - sincePrune /\ Trimmings' = Trimmings
              /\ \E r \in Runs : DueRuns \ {r} \subseteq DueRuns'
           \/ /\ Len(rows') = Len(rows) /\ sincePrune = PruneEvery - 1 /\ sincePrune' = 0
              /\ \E r \in Runs \ Trimmings : Trimmings' = Trimmings \cup {r}
              /\ \E r \in Runs : DueRuns \ {r} \subseteq DueRuns'
    PROVE  RowsAreCounted'
<1> DEFINE d == Cardinality(DueRuns)
           e == Cardinality(DueRuns')
           t == Cardinality(Trimmings)
           u == Cardinality(Trimmings')
<1>1. /\ HistoryLimit \in Nat /\ PruneEvery \in Nat /\ sincePrune \in Nat /\ sincePrune' \in Nat
      /\ d \in Nat /\ e \in Nat /\ t \in Nat /\ u \in Nat
      /\ PruneEvery * t \in Nat /\ PruneEvery * u \in Nat
  BY HistoryAssumption, CountedSetsAreFinite, NextSetsAreFinite DEF RowsAreCounted, CounterInRange
<1>2. ASSUME NEW S \in SUBSET DueRuns'
      PROVE  Cardinality(S) <= e
  <2>1. DueRuns' \in SUBSET Runs
    BY DEF DueRuns
  <2>. QED  BY <2>1, CallSetsAreFinite
<1>3. ASSUME NEW r \in Runs, DueRuns \ {r} \subseteq DueRuns'
      PROVE  d <= e + 1
  <2>1. Cardinality(DueRuns \ {r}) >= d - 1 /\ Cardinality(DueRuns \ {r}) \in Nat
    <3>1. Cardinality(DueRuns \ {r}) = IF r \in DueRuns THEN d - 1 ELSE d
      BY CountedSetsAreFinite, FS_RemoveElement
    <3>. QED  BY <1>1, <3>1, CountedSetsAreFinite, FS_RemoveElement, FS_CardinalityType
  <2>. QED  BY <1>1, <1>2, <1>3, <2>1
<1>4. (crashes = 0 => WithinBudget) /\ crashes' = crashes /\ crashes \in Nat
  BY DEF RowsAreCounted, CounterInRange
<1>5. SUFFICES ASSUME WithinBudget
               PROVE  Len(rows') <= HistoryLimit + sincePrune' + e + PruneEvery * u
  BY <1>4 DEF RowsAreCounted, CounterInRange, WithinBudget
<1>6. Len(rows) <= HistoryLimit + sincePrune + d + PruneEvery * t
  BY <1>5 DEF WithinBudget
<1>7. CASE Len(rows') <= HistoryLimit
  <2> HIDE DEF d, e, t, u
  <2>. QED  BY <1>1, <1>7
<1>8. CASE /\ Len(rows') <= Len(rows) /\ sincePrune' = sincePrune
           /\ DueRuns \subseteq DueRuns' /\ Trimmings' = Trimmings
  <2>1. d <= e /\ t = u
    BY <1>2, <1>8
  <2> HIDE DEF d, e, t, u
  <2>. QED  BY <1>1, <1>6, <1>8, <2>1
<1>9. CASE /\ Len(rows') = Len(rows) + 1 /\ sincePrune' = sincePrune /\ Trimmings' = Trimmings
           /\ \E r \in Runs \ DueRuns : DueRuns \cup {r} \subseteq DueRuns'
  <2>1. PICK r \in Runs \ DueRuns : DueRuns \cup {r} \subseteq DueRuns'
    BY <1>9
  <2>2. Cardinality(DueRuns \cup {r}) = d + 1
    BY <2>1, CountedSetsAreFinite, FS_AddElement
  <2>3. d + 1 <= e /\ t = u
    BY <1>2, <1>9, <2>1, <2>2
  <2> HIDE DEF d, e, t, u
  <2>. QED  BY <1>1, <1>6, <1>9, <2>3
<1>10. CASE /\ Len(rows') - sincePrune' + 1 <= Len(rows) - sincePrune /\ Trimmings' = Trimmings
            /\ \E r \in Runs : DueRuns \ {r} \subseteq DueRuns'
  <2>1. d <= e + 1 /\ t = u
    BY <1>3, <1>10
  <2> DEFINE p == PruneEvery * t
             q == PruneEvery * u
  <2> HIDE DEF d, e, t, u
  <2>2. p \in Nat /\ p = q /\ Len(rows) <= HistoryLimit + sincePrune + d + p
    BY <1>1, <1>6, <2>1
  <2> HIDE DEF p, q
  <2>3. Len(rows') <= HistoryLimit + sincePrune' + e + q
    <3>1. PICK m, n : m = Len(rows) /\ n = Len(rows')
      OBVIOUS
    <3>2. n - sincePrune' + 1 <= m - sincePrune /\ m <= HistoryLimit + sincePrune + d + p
      BY <1>10, <2>2, <3>1
    <3>3. /\ m \in Nat /\ n \in Nat /\ d \in Nat /\ e \in Nat /\ p \in Nat /\ q = p /\ d <= e + 1
          /\ HistoryLimit \in Nat /\ sincePrune \in Nat /\ sincePrune' \in Nat
      BY <1>1, <2>1, <2>2, <3>1
    <3>4. n <= HistoryLimit + sincePrune' + e + q
      BY <3>2, <3>3, DueMovesToTheCounter
    <3>. QED  BY <3>1, <3>4
  <2>. QED  BY <2>3 DEF q
<1>11. CASE /\ Len(rows') = Len(rows) /\ sincePrune = PruneEvery - 1 /\ sincePrune' = 0
            /\ \E r \in Runs \ Trimmings : Trimmings' = Trimmings \cup {r}
            /\ \E r \in Runs : DueRuns \ {r} \subseteq DueRuns'
  <2>1. d <= e + 1
    BY <1>3, <1>11
  <2>2. u = t + 1
    BY <1>11, CountedSetsAreFinite, FS_AddElement
  <2> HIDE DEF d, e, t, u
  <2>3. PruneEvery * u = PruneEvery * t + PruneEvery
    BY <1>1, <2>2
  <2>. QED  BY <1>1, <1>6, <1>11, <2>1, <2>3
<1>. QED  BY <1>7, <1>8, <1>9, <1>10, <1>11

\* A step that writes no row, of a call whose thread is not counting or trimming.
LEMMA QuietStepKeepsBudget ==
    ASSUME RecordsFit, RowsAreCounted, UNCHANGED <<rows, sincePrune, crashes>>,
           NEW r \in Runs, NEW work, job' = [job EXCEPT ![r] = work],
           \/ work = job[r]
           \/ /\ job[r] \notin {Job("close", "committed"), Job("close", "trimming")}
              /\ work # Job("close", "trimming")
    PROVE  RowsAreCounted'
<1>1. /\ job \in [Runs -> Jobs] /\ Len(rows) \in Nat
  BY TableElements DEF RecordsFit, TableOK
<1>2. \A q \in Runs : job'[q] = IF q = r THEN work ELSE job[q]
  BY <1>1
<1>3. \A q \in Runs : Shown(q)' = Shown(q)
  BY DEF Shown
<1>4. DueRuns \subseteq DueRuns' /\ Trimmings' = Trimmings
  BY <1>2, <1>3 DEF DueRuns, Due, Trimmings
<1>5. sincePrune' \in 0..(PruneEvery - 1) /\ Len(rows') = Len(rows)
  BY DEF RowsAreCounted, CounterInRange
<1>. QED  BY <1>1, <1>4, <1>5, BudgetKept

\* A row is closed on the loop's own thread, counted, and the table trimmed if due.
LEMMA FinishKeepsBudget ==
    ASSUME ~StoreMayFail, RecordsFit, TableOK(rows'), RowsAreCounted, UNCHANGED crashes,
           NEW r \in Runs, FinishRow(r, "failed"), NEW work, job' = [job EXCEPT ![r] = work],
           job[r].what \in {"none", "crew"}, work = job[r] \/ work = NoJob
    PROVE  RowsAreCounted'
<1>1. /\ job \in [Runs -> Jobs] /\ Len(rows) \in Nat /\ Len(rows') \in Nat /\ TableOK(rows)
      /\ PruneEvery \in Nat \ {0} /\ sincePrune \in 0..(PruneEvery - 1)
  BY HistoryAssumption, TableElements DEF RecordsFit, TableOK, RowsAreCounted, CounterInRange
<1>2. \A q \in Runs : job'[q] = IF q = r THEN work ELSE job[q]
  BY <1>1
<1>3. Trimmings' = Trimmings
  BY <1>2, JobFields DEF Trimmings
<1>4. CASE TrimDue /\ Len(rows') <= HistoryLimit /\ CountOne
  <2>1. sincePrune' \in 0..(PruneEvery - 1)
    BY <1>1, <1>4 DEF CountOne
  <2>. QED  BY <1>1, <1>4, <2>1, BudgetKept
<1>5. CASE ~TrimDue /\ rows' = Finished(r, "failed") /\ CountOne
  <2>1. sincePrune' = sincePrune + 1 /\ sincePrune' \in 0..(PruneEvery - 1)
    BY <1>1, <1>5 DEF CountOne, TrimDue
  <2>2. Len(rows') = Len(rows) /\ \A q \in Runs \ {r} : Shown(q)' = Shown(q)
    BY <1>1, <1>5, RowsFinished DEF Shown, Statuses
  <2>3. DueRuns \ {r} \subseteq DueRuns'
    BY <1>2, <2>2 DEF DueRuns, Due
  <2>4. Len(rows') - sincePrune' + 1 <= Len(rows) - sincePrune
    BY <1>1, <2>1, <2>2
  <2>. QED  BY <1>1, <1>3, <2>1, <2>3, <2>4, BudgetKept
<1>6. CASE UNCHANGED historyVars
  <2>1. work # Job("close", "trimming") /\ job[r] \notin {Job("close", "committed"), Job("close", "trimming")}
    BY JobFields
  <2>. QED  BY <1>6, <2>1, QuietStepKeepsBudget DEF historyVars
<1>7. ASSUME TrimDue, Trim(Finished(r, "failed"))
      PROVE  Len(rows') <= HistoryLimit
  <2>1. TableOK(Finished(r, "failed"))
    BY <1>1, RowsFinished DEF Statuses
  <2>. QED  BY <1>7, <2>1, RowsTrimmed DEF Trim
<1>. QED  BY <1>4, <1>5, <1>6, <1>7 DEF FinishRow, StoreFails

\* What the threads of the store do.
LEMMA ThreadKeepsBudget ==
    ASSUME ~StoreMayFail, RecordsFit, TableOK(rows'), RowsAreCounted, NEW r \in Runs, ThreadStep(r)
    PROVE  RowsAreCounted'
<1>1. /\ job \in [Runs -> Jobs] /\ Len(rows) \in Nat /\ Len(rows') \in Nat /\ TableOK(rows)
      /\ PruneEvery \in Nat \ {0} /\ sincePrune \in 0..(PruneEvery - 1) /\ CallFits(r)
  BY HistoryAssumption, TableElements DEF RecordsFit, TableOK, RowsAreCounted, CounterInRange
<1>2. ASSUME NEW from, NEW to, JobStep(r, from, to)
      PROVE  /\ job[r] = from /\ job' = [job EXCEPT ![r] = to] /\ crashes' = crashes
             /\ \A q \in Runs : job'[q] = IF q = r THEN to ELSE job[q]
  BY <1>1, <1>2 DEF JobStep
<1>3. ASSUME NEW from, NEW to, JobStep(r, from, to), UNCHANGED historyVars,
             from \notin {Job("close", "committed"), Job("close", "trimming")},
             to # Job("close", "trimming")
      PROVE  RowsAreCounted'
  BY <1>2, <1>3, QuietStepKeepsBudget DEF historyVars
<1>4. CASE TakeJob(r)
  <2> DEFINE w == job[r].what
  <2>1. JobStep(r, Job(w, "queued"), Job(w, "running")) /\ UNCHANGED historyVars
    BY <1>4 DEF TakeJob
  <2> HIDE DEF w
  <2>. QED  BY <1>3, <2>1, JobFields
<1>5. CASE RunCrew(r)
  <2>1. PICK end \in {"done", "raised"} :
           JobStep(r, Job("crew", "running"), Job("crew", end)) /\ UNCHANGED historyVars
    BY <1>5 DEF RunCrew
  <2>. QED  BY <1>3, <2>1, JobFields
<1>6. CASE OpenRow(r)
  <2>1. JobStep(r, Job("open", "running"), Job("open", "done")) /\ StartRow(r)
    BY <1>6 DEF OpenRow, StoreFails
  <2>2. Shown(r) = {}
    BY <1>1, <1>2, <2>1, JobFields DEF CallFits, Fits
  <2>3. /\ Len(rows') = Len(rows) + 1 /\ sincePrune' = sincePrune /\ Shown(r)' = {"running"}
        /\ \A q \in Runs \ {r} : Shown(q)' = Shown(q)
    BY <1>1, <2>1, <2>2, HistoryMoves DEF StartRow
  <2>4. /\ job[r] = Job("open", "running") /\ crashes' = crashes
        /\ \A q \in Runs : job'[q] = IF q = r THEN Job("open", "done") ELSE job[q]
    BY <1>2, <2>1
  <2>5. r \in Runs \ DueRuns /\ DueRuns \cup {r} \subseteq DueRuns'
    BY <2>2, <2>3, <2>4 DEF DueRuns, Due
  <2>6. Trimmings' = Trimmings
    BY <2>4, JobFields DEF Trimmings
  <2>. QED  BY <1>1, <2>3, <2>4, <2>5, <2>6, BudgetKept
<1>7. CASE CloseRow(r)
  <2>1. CASE /\ CommitRow(r, "succeeded")
             /\ JobStep(r, Job("close", "running"), Job("close", "committed"))
    <3>1. /\ Len(rows') = Len(rows) /\ sincePrune' = sincePrune /\ Shown(r)' = {"succeeded"}
          /\ \A q \in Runs \ {r} : Shown(q)' = Shown(q)
      BY <1>1, <2>1, HistoryMoves DEF CommitRow
    <3>2. /\ job[r] = Job("close", "running") /\ crashes' = crashes
          /\ \A q \in Runs : job'[q] = IF q = r THEN Job("close", "committed") ELSE job[q]
      BY <1>2, <2>1
    <3>3. DueRuns \subseteq DueRuns'
      BY <3>1, <3>2 DEF DueRuns, Due
    <3>4. Trimmings' = Trimmings
      BY <3>2, JobFields DEF Trimmings
    <3>. QED  BY <1>1, <3>1, <3>2, <3>3, <3>4, BudgetKept
  <2>2. CASE /\ UNCHANGED historyVars
             /\ JobStep(r, Job("close", "running"), Job("close", "done"))
    BY <1>3, <2>2, JobFields
  <2>. QED  BY <1>7, <2>1, <2>2 DEF CloseRow
<1>8. CASE CountRun(r)
  <2>1. PICK to \in {Job("close", "trimming"), Job("close", "done")} :
           /\ JobStep(r, Job("close", "committed"), to)
           /\ to = IF TrimDue THEN Job("close", "trimming") ELSE Job("close", "done")
           /\ CountOne /\ UNCHANGED rows
    BY <1>8 DEF CountRun
  <2>2. /\ job[r] = Job("close", "committed") /\ crashes' = crashes
        /\ \A q \in Runs : job'[q] = IF q = r THEN to ELSE job[q]
    BY <1>2, <2>1
  <2>3. \A q \in Runs : Shown(q)' = Shown(q)
    BY <2>1 DEF Shown
  <2>4. DueRuns \ {r} \subseteq DueRuns' /\ Len(rows') = Len(rows)
    BY <2>1, <2>2, <2>3 DEF DueRuns, Due
  <2>5. CASE TrimDue
    <3>1. sincePrune = PruneEvery - 1 /\ sincePrune' = 0 /\ sincePrune' \in 0..(PruneEvery - 1)
      BY <1>1, <2>1, <2>5 DEF TrimDue, CountOne
    <3>2. r \in Runs \ Trimmings /\ Trimmings' = Trimmings \cup {r}
      BY <2>1, <2>2, <2>5, JobFields DEF Trimmings
    <3>. QED  BY <1>1, <2>2, <2>4, <3>1, <3>2, BudgetKept
  <2>6. CASE ~TrimDue
    <3>1. sincePrune' = sincePrune + 1 /\ sincePrune' \in 0..(PruneEvery - 1)
      BY <1>1, <2>1, <2>6 DEF TrimDue, CountOne
    <3>2. Trimmings' = Trimmings
      BY <2>1, <2>2, <2>6, JobFields DEF Trimmings
    <3>3. Len(rows') - sincePrune' + 1 <= Len(rows) - sincePrune
      BY <1>1, <2>4, <3>1
    <3>. QED  BY <1>1, <2>2, <2>4, <3>1, <3>2, <3>3, BudgetKept
  <2>. QED  BY <2>5, <2>6
<1>9. CASE TrimTable(r)
  <2>1. Len(rows') <= HistoryLimit /\ sincePrune' \in 0..(PruneEvery - 1) /\ crashes' = crashes
    BY <1>1, <1>9, HistoryMoves DEF TrimTable, JobStep
  <2>. QED  BY <1>1, <2>1, BudgetKept
<1>. QED  BY <1>4, <1>5, <1>6, <1>7, <1>8, <1>9 DEF ThreadStep

LEMMA RowsAreCountedNext ==
    ASSUME ~StoreMayFail
    PROVE  RecordsFit /\ RowsAreCounted /\ [ManagerNext]_vars => RowsAreCounted'
<1> SUFFICES ASSUME RecordsFit, RowsAreCounted, [ManagerNext]_vars
             PROVE  RowsAreCounted'
  OBVIOUS
<1>0. /\ call \in [Runs -> Calls] /\ job \in [Runs -> Jobs] /\ TableOK(rows) /\ CallsOfSlots
      /\ \A r \in Runs : CallFits(r) /\ job = [job EXCEPT ![r] = job[r]]
      /\ TableOK(rows') /\ Len(rows) \in Nat /\ Len(rows') \in Nat
  BY RecordsFitNext, TableElements DEF RecordsFit, CallsOfSlots, TableOK
<1>1. ASSUME UNCHANGED <<job, rows, sincePrune, crashes>>
      PROVE  RowsAreCounted'
  BY <1>1 DEF RowsAreCounted, CounterInRange, WithinBudget, DueRuns, Due, Trimmings, Shown
<1>2. CASE UNCHANGED vars
  BY <1>1, <1>2 DEF vars, managerVars, historyVars
<1>3. ASSUME NEW s \in Sessions, Create(s) \/ Delete(s) \/ Speak(s)
      PROVE  RowsAreCounted'
  BY <1>1, <1>3 DEF Create, Delete, Speak, managerVars, historyVars
<1>4. ASSUME NEW w \in Workflows, RemoveWorkflow(w)
      PROVE  RowsAreCounted'
  BY <1>1, <1>4 DEF RemoveWorkflow, historyVars
<1>5. ASSUME NEW r \in Runs, CancelWaiting(r)
      PROVE  RowsAreCounted'
  BY <1>1, <1>5 DEF CancelWaiting, managerVars, historyVars
<1>6. ASSUME NEW r \in Runs, DeleteRun(r)
      PROVE  RowsAreCounted'
  <2>1. /\ UNCHANGED <<job, crashes, sincePrune>> /\ Len(rows') = Len(rows) - 1
        /\ \E i \in DOMAIN rows : rows[i].run = r /\ rows' = RemoveAt(rows, i)
    BY <1>0, <1>6, HistoryMoves DEF DeleteRun, DeleteRow, managerVars
  <2>2. ASSUME NEW q \in Runs \ {r}
        PROVE  Shown(q)' = Shown(q)
    <3>1. PICK i \in DOMAIN rows : rows[i].run = r /\ rows' = RemoveAt(rows, i)
      BY <2>1
    <3>2. ShownIn(RemoveAt(rows, i), q) \subseteq ShownIn(rows, q)
      BY <1>0, RowRemoved
    <3>3. ShownIn(rows, q) \subseteq ShownIn(RemoveAt(rows, i), q)
      BY <1>0, <3>1, RowRemoved
    <3>. QED  BY <3>1, <3>2, <3>3 DEF Shown
  <2>3. DueRuns \ {r} \subseteq DueRuns' /\ Trimmings' = Trimmings
    BY <2>1, <2>2 DEF DueRuns, Due, Trimmings
  <2>4. sincePrune \in 0..(PruneEvery - 1) /\ PruneEvery \in Nat
    BY HistoryAssumption DEF RowsAreCounted, CounterInRange
  <2>5. Len(rows') - sincePrune' + 1 <= Len(rows) - sincePrune /\ sincePrune' \in 0..(PruneEvery - 1)
    BY <1>0, <2>1, <2>4
  <2>. QED  BY <1>0, <2>1, <2>3, <2>5, BudgetKept
<1>7. ASSUME NEW r \in Runs, Submit(r)
      PROVE  RowsAreCounted'
  <2>1. PICK work \in {job[r], NoJob, Job("open", "queued"), Job("crew", "queued")} :
           job' = [job EXCEPT ![r] = work]
    BY <1>0, <1>7 DEF Submit, EnterSlot, Hand
  <2>2. job[r] = NoJob
    BY <1>0, <1>7 DEF Submit, CallFits, Fits
  <2>3. /\ job[r] \notin {Job("close", "committed"), Job("close", "trimming")}
        /\ work # Job("close", "trimming")
    BY <2>2, JobFields
  <2>4. UNCHANGED <<rows, sincePrune, crashes>>
    BY <1>7 DEF Submit, historyVars
  <2>. QED  BY <2>1, <2>3, <2>4, QuietStepKeepsBudget
<1>8. ASSUME NEW r \in Runs, Opened(r) \/ SlotGranted(r) \/ Reply(r) \/ Closed(r)
      PROVE  RowsAreCounted'
  <2>1. PICK work \in {NoJob, Job("crew", "queued"), Job("close", "queued")} :
           job' = [job EXCEPT ![r] = work]
    BY <1>0, <1>8 DEF Opened, EnterSlot, SlotGranted, Reply, Closed, Hand
  <2>2. job[r] \notin {Job("close", "committed"), Job("close", "trimming")}
    <3>1. CASE SlotGranted(r)
      <4>1. call[r] = "executing"
        BY <1>0, <3>1 DEF SlotGranted, Resume, CallsOfSlots
      <4>. QED  BY <1>0, <4>1, JobFields DEF CallFits, Fits
    <3>2. CASE Opened(r) \/ Reply(r) \/ Closed(r)
      BY <3>2, JobFields DEF Opened, Reply, Closed
    <3>. QED  BY <1>8, <3>1, <3>2
  <2>3. UNCHANGED <<rows, sincePrune, crashes>>
    BY <1>8 DEF Opened, SlotGranted, Reply, Closed, historyVars
  <2>4. work # Job("close", "trimming")
    BY JobFields
  <2>. QED  BY <2>1, <2>2, <2>3, <2>4, QuietStepKeepsBudget
<1>9. ASSUME NEW r \in Runs, CancelUnguarded(r)
      PROVE  RowsAreCounted'
  <2>1. \/ job' = [job EXCEPT ![r] = job[r]]
        \/ r \notin Working /\ job' = [job EXCEPT ![r] = NoJob]
    BY <1>9 DEF CancelUnguarded, Abandon
  <2>2. r \notin Working => job[r] \notin {Job("close", "committed"), Job("close", "trimming")}
    BY JobFields DEF Working
  <2>3. UNCHANGED <<rows, sincePrune, crashes>>
    BY <1>9 DEF CancelUnguarded, historyVars
  <2>. QED  BY <2>1, <2>2, <2>3, JobFields, QuietStepKeepsBudget
<1>10. ASSUME NEW r \in Runs, CancelRunning(r) \/ Withdraw(r) \/ Fail(r)
       PROVE  RowsAreCounted'
  <2>1. PICK state \in {"failed", "cancelled"}, work \in {job[r], NoJob} :
           CloseFailed(r, state) /\ job' = [job EXCEPT ![r] = work]
    BY <1>0, <1>10 DEF CancelRunning, Withdraw, Fail, CloseFailed, Abandon
  <2>2. call[r] = "executing"
    BY <1>0, <1>10 DEF CancelRunning, Withdraw, Fail, Unwind, UnwindWith, CallsOfSlots
  <2>3. job[r].what \in {"none", "crew"}
    BY <1>0, <2>2 DEF CallFits, Fits
  <2>4. CASE FinishRow(r, "failed")
    BY <1>0, <2>1, <2>3, <2>4, FinishKeepsBudget DEF CloseFailed
  <2>5. CASE UNCHANGED historyVars
    <3>1. UNCHANGED <<rows, sincePrune, crashes>>
      BY <2>1, <2>5 DEF CloseFailed, historyVars
    <3>2. \/ work = job[r]
          \/ /\ job[r] \notin {Job("close", "committed"), Job("close", "trimming")}
             /\ work # Job("close", "trimming")
      BY <2>1, <2>3, JobFields
    <3>. QED  BY <2>1, <3>1, <3>2, QuietStepKeepsBudget
  <2>. QED  BY <2>1, <2>4, <2>5 DEF CloseFailed
<1>11. ASSUME NEW r \in Runs, ThreadStep(r)
       PROVE  RowsAreCounted'
  BY <1>0, <1>11, ThreadKeepsBudget
<1>12. CASE Crash
  <2>1. crashes' = crashes + 1 /\ sincePrune' = 0 /\ crashes \in Nat
    BY <1>12 DEF Crash, ReopenHistory, RowsAreCounted, CounterInRange
  <2>2. PruneEvery \in Nat \ {0}
    BY HistoryAssumption
  <2>. QED  BY <2>1, <2>2 DEF RowsAreCounted, CounterInRange
<1>. QED
  BY <1>2, <1>3, <1>4, <1>5, <1>6, <1>7, <1>8, <1>9, <1>10, <1>11, <1>12 DEF ManagerNext, CallStep

\* With a database and a file that take what is written, and through every
\* cancellation and restart: what is on record of a call is what happened to it, an
\* answer stands in the session whose run succeeded, and until the process dies the
\* table is never longer than the runs under way and the trimmings due explain.
THEOREM HistoryIsAlwaysKept ==
    ASSUME ~StoreMayFail, ~SaveMayFail
    PROVE  ManagerSpec => []HistoryIsKept
<1> DEFINE Inv == TurnsInv /\ RecordsFit /\ AnswersStand /\ RowsAreCounted
<1>1. ManagerInit => Inv
  <2> SUFFICES ASSUME ManagerInit
               PROVE  AnswersStand /\ RowsAreCounted
    BY TurnsInvInit, RecordsFitInit
  <2>1. /\ rows = <<>> /\ sincePrune = 0 /\ crashes = 0
        /\ call = [r \in Runs |-> "idle"] /\ job = [r \in Runs |-> NoJob]
    BY DEF ManagerInit, HistoryInit
  <2>2. \A r \in Runs : Shown(r) = {}
    BY <2>1 DEF Shown, ShownIn
  <2>3. AnswersStand
    BY <2>1, <2>2, JobFields DEF AnswersStand, Vouched
  <2>4. HistoryLimit \in Nat /\ PruneEvery \in Nat \ {0} /\ Len(rows) = 0
    BY <2>1, HistoryAssumption
  <2>. QED
    BY <2>1, <2>3, <2>4, CountedSetsAreFinite DEF RowsAreCounted, CounterInRange, WithinBudget
<1>2. Inv /\ [ManagerNext]_vars => Inv'
  BY TurnsInvNext, RecordsFitNext, AnswersStandNext, RowsAreCountedNext
<1>3. Inv => HistoryIsKept
  <2> SUFFICES ASSUME Inv
               PROVE  HistoryAgreesWithCalls /\ HistoryIsTrimmed
    BY DEF HistoryIsKept
  <2>1. ASSUME NEW r \in Runs, OnRecord(r)
        PROVE  /\ call[r] = "replied" => StatusOf(r) = "succeeded"
               /\ call[r] = "failed" => StatusOf(r) = "failed"
               /\ call[r] \in {"opening", "executing"} => StatusOf(r) = "running"
               /\ StatusOf(r) = "succeeded" => r \in Answered(sess[SessionOf[r]])
    <3>1. StatusOf(r) \in Shown(r)
      BY <2>1 DEF OnRecord, StatusOf, Shown, ShownIn
    <3>2. Fits(call[r], job[r], recorded[r], Shown(r))
      BY DEF RecordsFit, CallFits
    <3>3. StatusOf(r) = "succeeded" => r \in Answered(sess[SessionOf[r]])
      BY <3>1 DEF AnswersStand, Vouched, Known
    <3>. QED  BY <3>1, <3>2, <3>3 DEF Fits
  <2>2. HistoryAgreesWithCalls
    BY <2>1 DEF HistoryAgreesWithCalls
  <2>3. HistoryIsTrimmed
    <3> DEFINE Uncounted == {r \in WithStatus("running") \cup Working : OnRecord(r)}
    <3>1. DueRuns \subseteq Uncounted
      BY RecordIsShown, JobFields DEF DueRuns, Due, WithStatus, Working, Shown, ShownIn
    <3>2. Uncounted \in SUBSET Runs
      <4>1. \A i \in DOMAIN rows : rows[i].run \in Runs
        BY TableElements DEF RecordsFit, TableOK, RowType
      <4>. QED  BY <4>1 DEF WithStatus, Working
    <3>3. Cardinality(DueRuns) <= Cardinality(Uncounted) /\ Cardinality(Uncounted) \in Nat
      BY <3>1, <3>2, CallSetsAreFinite
    <3>4. HistoryBound = HistoryLimit + (PruneEvery - 1) + Cardinality(Uncounted)
                            + PruneEvery * Cardinality(Trimmings)
      BY DEF HistoryBound, Trimmings
    <3>5. /\ HistoryLimit \in Nat /\ PruneEvery \in Nat \ {0} /\ sincePrune \in 0..(PruneEvery - 1)
          /\ Len(rows) \in Nat
      BY HistoryAssumption, TableElements DEF RowsAreCounted, CounterInRange, RecordsFit, TableOK
    <3> HIDE DEF Uncounted
    <3>6. Cardinality(DueRuns) \in Nat /\ PruneEvery * Cardinality(Trimmings) \in Nat
      BY CountedSetsAreFinite
    <3>7. WithinBudget => Len(rows) <= HistoryBound
      BY <3>3, <3>4, <3>5, <3>6 DEF WithinBudget
    <3>. QED  BY <3>7 DEF HistoryIsTrimmed, RowsAreCounted
  <2>. QED  BY <2>2, <2>3
<1>. QED  BY <1>1, <1>2, <1>3, PTL DEF ManagerSpec
=============================================================================

--------------------------- MODULE DeliveryProofs ---------------------------
(***************************************************************************)
(* Proofs about the components that hand work, files and events from one   *)
(* holder to the next, for all values of their constants: the message      *)
(* broker (what becomes of a task, for any number of tasks, messages,      *)
(* retries and closing channels), the configuration files under its        *)
(* services, and the stream of a run's events to its client.               *)
(***************************************************************************)
EXTENDS StreamRelay, TaskBroker, LiveConfig, SequenceTheorems, FiniteSetTheorems, TLAPS

-----------------------------------------------------------------------------
(***************************************************************************)
(* Message broker (TaskBroker)                                             *)
(***************************************************************************)

\* A message is live until its task was handled or published again.  TaskInv follows
\* the live messages of each task: one is left until the task is settled, a message
\* whose handler raised has more failures behind it than retries, and what was handled
\* and what is live are together no more than one and what closing channels gave back.
LiveAt == {"queued", "working", "dead", "waiting", "failed", "spent"}
FailedAt == {"dead", "waiting", "resent", "failed", "spent"}

Live(t) == {c \in Copies : copy[c].task = t /\ copy[c].at \in LiveAt}

\* Only a published task is with the broker, and it stays until it is settled.
Followed ==
    /\ \A c \in Copies : copy[c].at # "none" => copy[c].task \in published
    /\ \A t \in Tasks : times[t] > 0 => t \in published
    /\ \A t \in published : Live(t) # {} \/ times[t] > 0 \/ t \in discarded \cup mislaid

\* The retries of a message were failures of its task.
Tried ==
    /\ \A c \in Copies : copy[c].at # "none" => copy[c].retries <= failures[copy[c].task]
    /\ \A c \in Copies : copy[c].at \in FailedAt => copy[c].retries < failures[copy[c].task]
    /\ \A c \in Copies : copy[c].at = "spent" => copy[c].retries = MaxRetries
    /\ DiscardedAfterAllRetries

\* No task is handled, or about to be, more often than it was given out.
Counted == \A t \in Tasks : times[t] + Cardinality(Live(t)) <= 1 + returned[t]

TaskInv == BrokerTypeOK /\ Followed /\ Tried /\ Counted

-----------------------------------------------------------------------------
LEMMA FiniteCopies == \A S : S \subseteq Copies => IsFiniteSet(S) /\ Cardinality(S) \in Nat
<1>1. IsFiniteSet(1..MaxCopies)
  BY FS_Interval, BrokerAssumption DEF BrokerAssumption
<1> QED
  BY <1>1, FS_Subset, FS_CardinalityType DEF Copies

LEMMA LiveIsFinite == \A t : IsFiniteSet(Live(t)) /\ Cardinality(Live(t)) \in Nat
  BY FiniteCopies DEF Live

\* At most one element more.
LEMMA OneMore ==
    ASSUME NEW S \in SUBSET Copies, NEW T, NEW d, T \subseteq S \cup {d}
    PROVE  Cardinality(T) <= Cardinality(S) + 1
<1>1. IsFiniteSet(S) /\ Cardinality(S) \in Nat
  BY FiniteCopies
<1>2. IsFiniteSet(S \cup {d}) /\ Cardinality(S \cup {d}) <= Cardinality(S) + 1
  BY <1>1, FS_AddElement
<1>3. Cardinality(S \cup {d}) \in Nat
  BY <1>2, FS_CardinalityType
<1>4. Cardinality(T) \in Nat /\ Cardinality(T) <= Cardinality(S \cup {d})
  BY <1>2, FS_Subset, FS_CardinalityType
<1> QED
  BY <1>1, <1>2, <1>3, <1>4

LEMMA OneLess ==
    ASSUME NEW S \in SUBSET Copies, NEW c \in S
    PROVE  Cardinality(S \ {c}) = Cardinality(S) - 1 /\ Cardinality(S) \in Nat
  BY FiniteCopies, FS_RemoveElement

LEMMA NoMore ==
    ASSUME NEW S \in SUBSET Copies, NEW T \in SUBSET S
    PROVE  Cardinality(T) <= Cardinality(S)
  BY FiniteCopies, FS_Subset

-----------------------------------------------------------------------------
(* What each kind of step does to the messages                             *)

\* A step that leaves the messages where they are.
Stays == ConsumeTasks \/ StopConsuming \/ StartProcessing \/ StopProcessing \/ \E q \in Queues : Declare(q)

LEMMA TaskInvInit == BrokerInit => TaskInv
<1> SUFFICES ASSUME BrokerInit PROVE TaskInv
  OBVIOUS
<1>1. \A c \in Copies : copy[c].at = "none" /\ copy[c].task = NoTask
  BY DEF BrokerInit, NoCopy
<1>2. BrokerTypeOK
  <2>1. NoCopy \in Copy
    BY BrokerAssumption DEF BrokerAssumption, NoCopy, Copy, Places
  <2>2. copy \in [Copies -> Copy]
    BY <2>1 DEF BrokerInit
  <2> QED
    BY <1>1, <2>2 DEF BrokerInit, BrokerTypeOK
<1>3. \A t : Live(t) = {}
  BY <1>1 DEF Live, LiveAt
<1>4. Followed
  BY <1>1 DEF BrokerInit, Followed
<1>5. Tried
  BY <1>1 DEF BrokerInit, Tried, FailedAt, DiscardedAfterAllRetries
<1>6. Counted
  BY <1>3, FS_EmptySet DEF BrokerInit, Counted
<1> QED
  BY <1>2, <1>4, <1>5, <1>6 DEF TaskInv

LEMMA StaysKeepsIt == TaskInv /\ (Stays \/ UNCHANGED brokerVars) => TaskInv'
<1> SUFFICES ASSUME TaskInv, Stays \/ UNCHANGED brokerVars PROVE TaskInv'
  OBVIOUS
<1>1. UNCHANGED <<copy, published, ledger>>
  BY DEF Stays, ConsumeTasks, StopConsuming, StartProcessing, StopProcessing, Declare, brokerVars, setup
<1>2. BrokerTypeOK'
  <2>1. declared' \subseteq Queues /\ consuming' \subseteq declared' /\ breaks' \in Nat /\ stops' \in Nat
    <3>1. declared \subseteq Queues /\ consuming \subseteq declared /\ breaks \in Nat /\ stops \in Nat
      BY DEF TaskInv, BrokerTypeOK
    <3>2. CASE ConsumeTasks \/ StartProcessing
      BY <3>1, <3>2 DEF ConsumeTasks, StartProcessing
    <3>3. CASE StopConsuming \/ StopProcessing
      BY <3>1, <3>3 DEF StopConsuming, StopProcessing
    <3>4. CASE \E q \in Queues : Declare(q)
      BY <3>1, <3>4 DEF Declare
    <3>5. CASE UNCHANGED brokerVars
      BY <3>1, <3>5 DEF brokerVars, setup
    <3> QED
      BY <3>2, <3>3, <3>4, <3>5 DEF Stays
  <2>2. processing' \in BOOLEAN
    <3>1. processing \in BOOLEAN
      BY DEF TaskInv, BrokerTypeOK
    <3>2. CASE StartProcessing \/ StopProcessing
      BY <3>2 DEF StartProcessing, StopProcessing
    <3>3. CASE ConsumeTasks \/ StopConsuming \/ (\E q \in Queues : Declare(q)) \/ UNCHANGED brokerVars
      BY <3>1, <3>3 DEF ConsumeTasks, StopConsuming, Declare, brokerVars, setup
    <3> QED
      BY <3>2, <3>3 DEF Stays
  <2> QED
    BY <1>1, <2>1, <2>2 DEF TaskInv, BrokerTypeOK, ledger
<1>3. \A t : Live(t)' = Live(t)
  BY <1>1 DEF Live
<1>4. Followed' /\ Tried' /\ Counted'
  BY <1>1, <1>3 DEF TaskInv, Followed, Tried, Counted, ledger, DiscardedAfterAllRetries
<1> QED
  BY <1>2, <1>4 DEF TaskInv
LEMMA PutFacts ==
    ASSUME BrokerTypeOK, NEW c \in Copies, NEW place \in Places \ {"none"}, copy[c].at # "none", Put(c, place)
    PROVE  /\ copy' \in [Copies -> Copy]
           /\ \A d \in Copies : copy'[d].task = NoTask <=> copy'[d].at = "none"
           /\ \A d \in Copies : /\ copy'[d].task = copy[d].task
                                /\ copy'[d].retries = copy[d].retries
                                /\ copy'[d].at = IF d = c THEN place ELSE copy[d].at
<1>1. copy \in [Copies -> Copy]
  BY DEF BrokerTypeOK
<1>2. copy' = [copy EXCEPT ![c] = [copy[c] EXCEPT !.at = place]]
  BY DEF Put
<1>3. [copy[c] EXCEPT !.at = place] \in Copy
  BY <1>1 DEF Copy
<1>4. copy[c] \in [task : Tasks \cup {NoTask}, retries : 0..MaxRetries, at : Places]
  BY <1>1 DEF Copy
<1>5. /\ [copy[c] EXCEPT !.at = place].task = copy[c].task
      /\ [copy[c] EXCEPT !.at = place].retries = copy[c].retries
      /\ [copy[c] EXCEPT !.at = place].at = place
  BY <1>4
<1>6. \A d \in Copies : copy'[d] = IF d = c THEN [copy[c] EXCEPT !.at = place] ELSE copy[d]
  BY <1>1, <1>2
<1> QED
  BY <1>1, <1>2, <1>3, <1>5, <1>6 DEF BrokerTypeOK

LEMMA TakeAwayFacts ==
    ASSUME BrokerTypeOK, NEW c \in Copies, TakeAway(c)
    PROVE  /\ copy' \in [Copies -> Copy]
           /\ \A d \in Copies : copy'[d].task = NoTask <=> copy'[d].at = "none"
           /\ copy'[c].at = "none" /\ copy'[c].task = NoTask
           /\ \A d \in Copies \ {c} : copy'[d] = copy[d]
<1>1. NoCopy \in Copy /\ NoCopy.at = "none" /\ NoCopy.task = NoTask
  BY BrokerAssumption DEF BrokerAssumption, NoCopy, Copy, Places
<1>2. copy \in [Copies -> Copy] /\ copy' = [copy EXCEPT ![c] = NoCopy]
  BY DEF BrokerTypeOK, TakeAway
<1> QED
  BY <1>1, <1>2 DEF BrokerTypeOK

\* A message that moves between two live places, no failure forgotten.
LEMMA MoveKeepsIt ==
    ASSUME TaskInv, NEW c \in Copies, NEW place \in {"working", "waiting", "failed", "spent"}, Put(c, place),
           copy[c].at \in {"queued", "dead", "waiting"}, place # "working" => copy[c].at \in FailedAt,
           place = "spent" => copy[c].retries = MaxRetries, UNCHANGED <<setup, ledger>>
    PROVE  TaskInv'
<1>1. BrokerTypeOK /\ Followed /\ Tried /\ Counted
  BY DEF TaskInv
<1>2. place \in Places \ {"none"} /\ copy[c].at # "none"
  BY DEF Places
<1>3. /\ copy' \in [Copies -> Copy]
      /\ \A d \in Copies : copy'[d].task = NoTask <=> copy'[d].at = "none"
      /\ \A d \in Copies : /\ copy'[d].task = copy[d].task
                           /\ copy'[d].retries = copy[d].retries
                           /\ copy'[d].at = IF d = c THEN place ELSE copy[d].at
  BY <1>1, <1>2, PutFacts
<1>4. BrokerTypeOK'
  BY <1>1, <1>3 DEF BrokerTypeOK, setup, ledger
<1>5. \A t : Live(t)' = Live(t)
  BY <1>3 DEF Live, LiveAt
<1>6. Followed'
  BY <1>1, <1>3, <1>5 DEF Followed, setup, ledger
<1>7. Tried'
  BY <1>1, <1>3 DEF Tried, FailedAt, DiscardedAfterAllRetries, setup, ledger
<1>8. Counted'
  BY <1>1, <1>5 DEF Counted, ledger
<1> QED
  BY <1>4, <1>6, <1>7, <1>8 DEF TaskInv

LEMMA HandledKeepsIt ==
    ASSUME TaskInv, NEW c \in Copies, Handled(c)
    PROVE  TaskInv'
<1> DEFINE t0 == copy[c].task
<1>1. BrokerTypeOK /\ Followed /\ Tried /\ Counted
  BY DEF TaskInv
<1>2. /\ copy[c].at = "working" /\ Put(c, "handled")
      /\ times' = [times EXCEPT ![t0] = @ + 1]
      /\ UNCHANGED <<setup, failures, returned, discarded, mislaid>>
  BY DEF Handled, Bump
<1>3. "handled" \in Places \ {"none"} /\ copy[c].at # "none"
  BY <1>2 DEF Places
<1>4. t0 \in Tasks /\ t0 \in published /\ c \in Live(t0) /\ published \subseteq Tasks
  BY <1>1, <1>2 DEF BrokerTypeOK, Copy, Followed, Live, LiveAt
<1>5. /\ copy' \in [Copies -> Copy]
      /\ \A d \in Copies : copy'[d].task = NoTask <=> copy'[d].at = "none"
      /\ \A d \in Copies : /\ copy'[d].task = copy[d].task
                           /\ copy'[d].retries = copy[d].retries
                           /\ copy'[d].at = IF d = c THEN "handled" ELSE copy[d].at
  BY <1>1, <1>2, <1>3, PutFacts
<1>6. /\ times' \in [Tasks -> Nat] /\ times'[t0] = times[t0] + 1
      /\ \A t \in Tasks \ {t0} : times'[t] = times[t]
      /\ \A t \in Tasks : times[t] \in Nat /\ returned[t] \in Nat
  BY <1>1, <1>2, <1>4 DEF BrokerTypeOK
<1>7. BrokerTypeOK'
  BY <1>1, <1>2, <1>5, <1>6 DEF BrokerTypeOK, setup
<1>8. \A t : Live(t)' = Live(t) \ {c}
  BY <1>2, <1>5 DEF Live, LiveAt
<1>9. Followed'
  <2>1. \A t \in published' : t # t0 => Live(t)' = Live(t)
    BY <1>8 DEF Live
  <2>2. \A t \in Tasks : times'[t] > 0 => t \in published'
    BY <1>1, <1>2, <1>4, <1>6 DEF Followed, setup
  <2>3. times'[t0] > 0
    BY <1>4, <1>6
  <2>4. \A d \in Copies : copy'[d].at # "none" => copy'[d].task \in published'
    BY <1>1, <1>2, <1>5, <1>3 DEF Followed, setup
  <2>5. ASSUME NEW t \in published'
        PROVE  Live(t)' # {} \/ times'[t] > 0 \/ t \in discarded' \cup mislaid'
    <3>1. t \in published /\ t \in Tasks
      BY <1>2, <1>4 DEF setup
    <3>2. CASE t = t0
      BY <2>3, <3>2
    <3>3. CASE t # t0
      <4>1. Live(t) # {} \/ times[t] > 0 \/ t \in discarded \cup mislaid
        BY <1>1, <3>1 DEF Followed
      <4>2. times'[t] = times[t] /\ Live(t)' = Live(t)
        BY <1>6, <2>1, <3>1, <3>3
      <4> QED
        BY <1>2, <4>1, <4>2
    <3> QED
      BY <3>2, <3>3
  <2> QED
    BY <2>2, <2>4, <2>5 DEF Followed
<1>10. Tried'
  BY <1>1, <1>2, <1>5 DEF Tried, FailedAt, DiscardedAfterAllRetries, setup
<1>11. ASSUME NEW t \in Tasks
       PROVE  times'[t] + Cardinality(Live(t)') <= 1 + returned'[t]
  <2>1. times[t] + Cardinality(Live(t)) <= 1 + returned[t] /\ returned'[t] = returned[t]
    BY <1>1, <1>2 DEF Counted
  <2>2. Live(t) \in SUBSET Copies
    BY DEF Live
  <2>3. CASE t = t0
    <3>1. Cardinality(Live(t) \ {c}) = Cardinality(Live(t)) - 1 /\ Cardinality(Live(t)) \in Nat
      BY <1>4, <2>2, <2>3, OneLess
    <3> QED
      BY <1>6, <1>8, <2>1, <2>3, <3>1
  <2>4. CASE t # t0
    <3>1. Live(t)' = Live(t)
      BY <1>8, <2>4 DEF Live
    <3> QED
      BY <1>6, <2>1, <2>4, <3>1
  <2> QED
    BY <2>3, <2>4
<1> QED
  BY <1>7, <1>9, <1>10, <1>11 DEF TaskInv, Counted

LEMMA HandlerFailsKeepsIt ==
    ASSUME TaskInv, NEW c \in Copies, HandlerFails(c)
    PROVE  TaskInv'
<1>0. PICK t0 : t0 = copy[c].task
  OBVIOUS
<1> USE <1>0
<1>1. BrokerTypeOK /\ Followed /\ Tried /\ Counted
  BY DEF TaskInv
<1>2. /\ copy[c].at = "working"
      /\ failures' = [failures EXCEPT ![t0] = @ + 1]
      /\ UNCHANGED <<setup, times, returned, discarded>>
  BY DEF HandlerFails, Bump
<1>3. \/ Put(c, "dead") /\ UNCHANGED mislaid
      \/ TakeAway(c) /\ mislaid' = mislaid \cup {t0}
  BY DEF HandlerFails
<1>4. /\ t0 \in Tasks /\ t0 \in published /\ c \in Live(t0)
      /\ published \subseteq Tasks /\ copy[c].retries \in 0..MaxRetries /\ copy[c].retries <= failures[t0]
  BY <1>1, <1>2 DEF BrokerTypeOK, Copy, Followed, Tried, Live, LiveAt
<1>5. /\ copy' \in [Copies -> Copy]
      /\ \A d \in Copies : copy'[d].task = NoTask <=> copy'[d].at = "none"
      /\ \A d \in Copies \ {c} : /\ copy'[d].task = copy[d].task
                                 /\ copy'[d].retries = copy[d].retries
                                 /\ copy'[d].at = copy[d].at
      /\ \/ /\ copy'[c].task = t0 /\ copy'[c].retries = copy[c].retries /\ copy'[c].at = "dead"
            /\ UNCHANGED mislaid
         \/ copy'[c].at = "none" /\ mislaid' = mislaid \cup {t0}
  <2>1. CASE Put(c, "dead") /\ UNCHANGED mislaid
    <3>1. "dead" \in Places \ {"none"} /\ copy[c].at # "none"
      BY <1>2 DEF Places
    <3> QED
      BY <1>1, <2>1, <3>1, PutFacts
  <2>2. CASE TakeAway(c) /\ mislaid' = mislaid \cup {t0}
    BY <1>1, <2>2, TakeAwayFacts
  <2> QED
    BY <1>3, <2>1, <2>2
<1>6. /\ failures' \in [Tasks -> Nat] /\ failures'[t0] = failures[t0] + 1
      /\ \A t \in Tasks \ {t0} : failures'[t] = failures[t]
      /\ \A t \in Tasks : failures[t] \in Nat /\ times[t] \in Nat /\ returned[t] \in Nat
  BY <1>1, <1>2, <1>4 DEF BrokerTypeOK
<1>7. BrokerTypeOK'
  BY <1>1, <1>2, <1>4, <1>5, <1>6 DEF BrokerTypeOK, setup
<1>8. \A t : Live(t)' \subseteq Live(t) /\ (t # t0 => Live(t)' = Live(t))
  BY <1>2, <1>5 DEF Live, LiveAt
<1>9. Followed'
  <2>1. \A t \in Tasks : times'[t] > 0 => t \in published'
    BY <1>1, <1>2 DEF Followed, setup
  <2>2. \A d \in Copies : copy'[d].at # "none" => copy'[d].task \in published'
    BY <1>1, <1>2, <1>4, <1>5 DEF Followed, setup
  <2>3. Live(t0)' # {} \/ t0 \in mislaid'
    BY <1>5 DEF Live, LiveAt
  <2>4. ASSUME NEW t \in published', t # t0
        PROVE  Live(t)' # {} \/ times'[t] > 0 \/ t \in discarded' \cup mislaid'
    <3>1. Live(t) # {} \/ times[t] > 0 \/ t \in discarded \cup mislaid
      BY <1>1, <1>2 DEF Followed, setup
    <3>2. times' = times /\ discarded' = discarded /\ mislaid \subseteq mislaid' /\ Live(t)' = Live(t)
      BY <1>2, <1>5, <1>8, <2>4
    <3> QED
      BY <3>1, <3>2
  <2> QED
    BY <2>1, <2>2, <2>3, <2>4 DEF Followed
<1>10. Tried'
  <2>1. \A t \in Tasks : failures[t] <= failures'[t]
    BY <1>4, <1>6
  <2>2. MaxRetries \in Nat /\ \A t \in discarded : t \in Tasks /\ failures[t] > MaxRetries
    BY <1>1, BrokerAssumption DEF Tried, DiscardedAfterAllRetries, BrokerTypeOK, BrokerAssumption
  <2>3. DiscardedAfterAllRetries'
    <3>1. \A t \in discarded : failures'[t] > MaxRetries
      BY <1>6, <2>1, <2>2, <1>7 DEF BrokerTypeOK
    <3> QED
      BY <1>2, <3>1 DEF DiscardedAfterAllRetries
  <2>4. ASSUME NEW d \in Copies, copy'[d].at # "none"
        PROVE  /\ copy'[d].retries <= failures'[copy'[d].task]
               /\ copy'[d].at \in FailedAt => copy'[d].retries < failures'[copy'[d].task]
               /\ copy'[d].at = "spent" => copy'[d].retries = MaxRetries
    <3>1. CASE d = c
      BY <1>4, <1>5, <1>6, <2>4, <3>1
    <3>2. CASE d # c
      <4>1. copy'[d].task = copy[d].task /\ copy'[d].retries = copy[d].retries /\ copy'[d].at = copy[d].at
        BY <1>5, <3>2
      <4>2. copy[d].task \in Tasks /\ copy[d].retries \in Nat
        BY <1>1, <2>4, <4>1 DEF BrokerTypeOK, Copy, Followed
      <4>3. failures[copy[d].task] <= failures'[copy[d].task]
        BY <2>1, <4>2
      <4>4. failures[copy[d].task] \in Nat /\ failures'[copy[d].task] \in Nat
        BY <1>6, <4>2
      <4>5. /\ copy[d].retries <= failures[copy[d].task]
            /\ copy[d].at \in FailedAt => copy[d].retries < failures[copy[d].task]
            /\ copy[d].at = "spent" => copy[d].retries = MaxRetries
        BY <1>1, <2>4, <4>1 DEF Tried
      <4> QED
        BY <4>1, <4>2, <4>3, <4>4, <4>5
    <3> QED
      BY <3>1, <3>2
  <2>5. \A d \in Copies : copy'[d].at \in FailedAt \cup {"spent"} => copy'[d].at # "none"
    BY DEF FailedAt
  <2> QED
    BY <2>3, <2>4, <2>5 DEF Tried
<1>11. Counted'
  <2>1. ASSUME NEW t \in Tasks
        PROVE  times'[t] + Cardinality(Live(t)') <= 1 + returned'[t]
    <3>1. Live(t) \in SUBSET Copies /\ Live(t)' \in SUBSET Live(t)
      BY <1>8 DEF Live
    <3>2. Cardinality(Live(t)') <= Cardinality(Live(t))
      BY <3>1, NoMore
    <3>3. Cardinality(Live(t)') \in Nat /\ Cardinality(Live(t)) \in Nat
      BY <3>1, FiniteCopies DEF Live
    <3>4. times[t] + Cardinality(Live(t)) <= 1 + returned[t]
      BY <1>1 DEF Counted
    <3> QED
      BY <1>2, <1>6, <3>2, <3>3, <3>4
  <2> QED
    BY <2>1 DEF Counted
<1> QED
  BY <1>7, <1>9, <1>10, <1>11 DEF TaskInv

LEMMA RetryKeepsIt ==
    ASSUME TaskInv, NEW c \in Copies, Retry(c)
    PROVE  TaskInv'
<1>0. PICK t0 : t0 = copy[c].task
  OBVIOUS
<1> USE <1>0
<1> DEFINE again(d) == [task |-> t0, retries |-> copy[c].retries + 1, at |-> "queued"]
<1>1. BrokerTypeOK /\ Followed /\ Tried /\ Counted
  BY DEF TaskInv
<1>2. copy[c].at = "waiting" /\ copy[c].retries < MaxRetries /\ UNCHANGED <<setup, ledger>>
  BY DEF Retry
<1>3. PICK d \in Copies : copy[d].at = "none" /\ copy' = [copy EXCEPT ![c].at = "resent", ![d] = again(d)]
  BY DEF Retry, NewCopy
<1>4. /\ t0 \in Tasks /\ t0 \in published /\ c \in Live(t0) /\ d \notin Live(t0)
      /\ published \subseteq Tasks /\ copy[c].retries \in 0..MaxRetries /\ copy[c].retries < failures[t0]
  BY <1>1, <1>2, <1>3 DEF BrokerTypeOK, Copy, Followed, Tried, Live, LiveAt, FailedAt
<1>5. d # c /\ copy \in [Copies -> Copy]
  BY <1>1, <1>2, <1>3 DEF BrokerTypeOK
<1>6. /\ copy' \in [Copies -> Copy]
      /\ copy'[c].task = t0 /\ copy'[c].retries = copy[c].retries /\ copy'[c].at = "resent"
      /\ copy'[d].task = t0 /\ copy'[d].retries = copy[c].retries + 1 /\ copy'[d].at = "queued"
      /\ \A e \in Copies \ {c, d} : copy'[e] = copy[e]
  <2>1. copy[c].retries + 1 \in 0..MaxRetries
    BY <1>2, <1>4, BrokerAssumption DEF BrokerAssumption
  <2>2. again(d) \in Copy /\ "resent" \in Places
    BY <1>4, <2>1 DEF Copy, Places
  <2>3. copy[c] \in [task : Tasks \cup {NoTask}, retries : 0..MaxRetries, at : Places]
    BY <1>5 DEF Copy
  <2>4. [copy[c] EXCEPT !.at = "resent"] \in Copy
    BY <2>2, <2>3 DEF Copy
  <2>5. copy' = [[copy EXCEPT ![c] = [copy[c] EXCEPT !.at = "resent"]] EXCEPT ![d] = again(d)]
    BY <1>3, <1>5
  <2>6. copy'[c] = [copy[c] EXCEPT !.at = "resent"] /\ copy'[d] = again(d)
    BY <1>5, <2>5
  <2>7. copy' \in [Copies -> Copy]
    BY <1>5, <2>2, <2>4, <2>5
  <2>8. \A e \in Copies \ {c, d} : copy'[e] = copy[e]
    BY <1>5, <2>5
  <2> QED
    BY <2>3, <2>6, <2>7, <2>8
<1>7. BrokerTypeOK'
  BY <1>1, <1>2, <1>4, <1>6, BrokerAssumption DEF BrokerTypeOK, BrokerAssumption, setup, ledger
<1>8. Live(t0)' = (Live(t0) \ {c}) \cup {d} /\ \A t : t # t0 => Live(t)' = Live(t)
  BY <1>2, <1>3, <1>5, <1>6 DEF Live, LiveAt
<1>9. Followed'
  <2>1. \A t \in Tasks : times'[t] > 0 => t \in published'
    BY <1>1, <1>2 DEF Followed, setup, ledger
  <2>2. \A e \in Copies : copy'[e].at # "none" => copy'[e].task \in published'
    BY <1>1, <1>2, <1>4, <1>6 DEF Followed, setup
  <2>3. ASSUME NEW t \in published'
        PROVE  Live(t)' # {} \/ times'[t] > 0 \/ t \in discarded' \cup mislaid'
    BY <1>1, <1>2, <1>8 DEF Followed, setup, ledger
  <2> QED
    BY <2>1, <2>2, <2>3 DEF Followed
<1>10. Tried'
  <2>1. failures[t0] \in Nat
    BY <1>1, <1>4 DEF BrokerTypeOK
  <2>2. DiscardedAfterAllRetries'
    BY <1>1, <1>2 DEF Tried, DiscardedAfterAllRetries, ledger
  <2>3. failures' = failures
    BY <1>2 DEF ledger
  <2>4. ASSUME NEW e \in Copies
        PROVE  /\ copy'[e].at # "none" => copy'[e].retries <= failures'[copy'[e].task]
               /\ copy'[e].at \in FailedAt => copy'[e].retries < failures'[copy'[e].task]
               /\ copy'[e].at = "spent" => copy'[e].retries = MaxRetries
    <3>1. CASE e = c
      BY <1>4, <1>6, <2>1, <2>3, <3>1
    <3>2. CASE e = d
      BY <1>4, <1>6, <2>1, <2>3, <3>2 DEF FailedAt
    <3>3. CASE e \notin {c, d}
      BY <1>1, <1>6, <2>3, <3>3 DEF Tried
    <3> QED
      BY <3>1, <3>2, <3>3
  <2> QED
    BY <2>2, <2>4 DEF Tried
<1>11. Counted'
  <2>1. Live(t0) \in SUBSET Copies /\ Live(t0) \ {c} \in SUBSET Copies
    BY DEF Live
  <2>2. Cardinality(Live(t0) \ {c}) = Cardinality(Live(t0)) - 1 /\ Cardinality(Live(t0)) \in Nat
    BY <1>4, <2>1, OneLess
  <2>3. Cardinality((Live(t0) \ {c}) \cup {d}) <= Cardinality(Live(t0) \ {c}) + 1
    BY <2>1, OneMore
  <2>4. Live(t0)' \in SUBSET Copies
    BY DEF Live
  <2>5. Cardinality(Live(t0)') <= Cardinality(Live(t0)) /\ Cardinality(Live(t0)') \in Nat
    BY <1>8, <2>2, <2>3, <2>4, FiniteCopies
  <2>6. ASSUME NEW t \in Tasks
        PROVE  times'[t] + Cardinality(Live(t)') <= 1 + returned'[t]
    <3>1. times[t] + Cardinality(Live(t)) <= 1 + returned[t] /\ times[t] \in Nat /\ returned[t] \in Nat
      BY <1>1 DEF Counted, BrokerTypeOK
    <3>2. UNCHANGED <<times, returned>>
      BY <1>2 DEF ledger
    <3>3. CASE t = t0
      BY <2>2, <2>5, <3>1, <3>2, <3>3
    <3>4. CASE t # t0
      <4>1. Live(t)' = Live(t)
        BY <1>8, <3>4
      <4> QED
        BY <3>1, <3>2, <4>1
    <3> QED
      BY <3>3, <3>4
  <2> QED
    BY <2>6 DEF Counted
<1> QED
  BY <1>7, <1>9, <1>10, <1>11 DEF TaskInv

LEMMA AcknowledgeKeepsIt ==
    ASSUME TaskInv, NEW c \in Copies, Acknowledge(c)
    PROVE  TaskInv'
<1>0. PICK t0 : t0 = copy[c].task
  OBVIOUS
<1> USE <1>0
<1>1. BrokerTypeOK /\ Followed /\ Tried /\ Counted
  BY DEF TaskInv
<1>2. /\ copy[c].at \in {"handled", "resent", "failed", "spent"} /\ TakeAway(c)
      /\ UNCHANGED <<setup, times, failures, returned>>
  BY DEF Acknowledge
<1>3. /\ mislaid'   = IF copy[c].at = "failed" THEN mislaid \cup {t0} ELSE mislaid
      /\ discarded' = IF copy[c].at = "spent" THEN discarded \cup {t0} ELSE discarded
  BY DEF Acknowledge
<1>4. /\ t0 \in Tasks /\ t0 \in published /\ published \subseteq Tasks
      /\ copy[c].at = "spent" => copy[c].retries = MaxRetries /\ copy[c].retries < failures[t0]
  BY <1>1, <1>2 DEF BrokerTypeOK, Copy, Followed, Tried, FailedAt
<1>5. /\ copy' \in [Copies -> Copy]
      /\ \A d \in Copies : copy'[d].task = NoTask <=> copy'[d].at = "none"
      /\ copy'[c].at = "none"
      /\ \A d \in Copies \ {c} : copy'[d] = copy[d]
  BY <1>1, <1>2, TakeAwayFacts
<1>6. BrokerTypeOK'
  BY <1>1, <1>2, <1>3, <1>4, <1>5 DEF BrokerTypeOK, setup
<1>7. /\ \A t : Live(t)' \subseteq Live(t) /\ (t # t0 => Live(t)' = Live(t))
      /\ copy[c].at \in {"handled", "resent"} => Live(t0)' = Live(t0)
  BY <1>2, <1>5 DEF Live, LiveAt
<1>8. Followed'
  <2>1. \A t \in Tasks : times'[t] > 0 => t \in published'
    BY <1>1, <1>2 DEF Followed, setup
  <2>2. \A d \in Copies : copy'[d].at # "none" => copy'[d].task \in published'
    BY <1>1, <1>2, <1>5 DEF Followed, setup
  <2>3. ASSUME NEW t \in published'
        PROVE  Live(t)' # {} \/ times'[t] > 0 \/ t \in discarded' \cup mislaid'
    <3>1. Live(t) # {} \/ times[t] > 0 \/ t \in discarded \cup mislaid
      BY <1>1, <1>2 DEF Followed, setup
    <3>2. CASE t = t0 /\ copy[c].at \in {"failed", "spent"}
      BY <1>3, <3>2
    <3>3. CASE t # t0 \/ copy[c].at \in {"handled", "resent"}
      <4>1. Live(t)' = Live(t) /\ times' = times /\ discarded \subseteq discarded' /\ mislaid \subseteq mislaid'
        BY <1>2, <1>3, <1>7, <3>3
      <4> QED
        BY <3>1, <4>1
    <3> QED
      BY <1>2, <3>2, <3>3
  <2> QED
    BY <2>1, <2>2, <2>3 DEF Followed
<1>9. Tried'
  <2>1. \A d \in Copies : copy'[d].at # "none" => copy'[d] = copy[d]
    BY <1>5
  <2>2. DiscardedAfterAllRetries'
    <3>1. \A t \in discarded : failures[t] > MaxRetries
      BY <1>1 DEF Tried, DiscardedAfterAllRetries
    <3>2. copy[c].at = "spent" => failures[t0] > MaxRetries
      <4>1. failures[t0] \in Nat /\ MaxRetries \in Nat
        BY <1>1, <1>4, BrokerAssumption DEF BrokerTypeOK, BrokerAssumption
      <4> QED
        BY <1>4, <4>1
    <3>3. failures' = failures
      BY <1>2
    <3> QED
      BY <1>3, <3>1, <3>2, <3>3 DEF DiscardedAfterAllRetries
  <2>3. ASSUME NEW d \in Copies
        PROVE  /\ copy'[d].at # "none" => copy'[d].retries <= failures'[copy'[d].task]
               /\ copy'[d].at \in FailedAt => copy'[d].retries < failures'[copy'[d].task]
               /\ copy'[d].at = "spent" => copy'[d].retries = MaxRetries
    BY <1>1, <1>2, <2>1, <1>5 DEF Tried, FailedAt
  <2> QED
    BY <2>2, <2>3 DEF Tried
<1>10. Counted'
  <2>1. ASSUME NEW t \in Tasks
        PROVE  times'[t] + Cardinality(Live(t)') <= 1 + returned'[t]
    <3>1. Live(t) \in SUBSET Copies /\ Live(t)' \in SUBSET Live(t)
      BY <1>7 DEF Live
    <3>2. Cardinality(Live(t)') <= Cardinality(Live(t))
      BY <3>1, NoMore
    <3>3. Cardinality(Live(t)') \in Nat /\ Cardinality(Live(t)) \in Nat
      BY <3>1, FiniteCopies DEF Live
    <3>4. times[t] + Cardinality(Live(t)) <= 1 + returned[t] /\ times[t] \in Nat /\ returned[t] \in Nat
      BY <1>1 DEF Counted, BrokerTypeOK
    <3> QED
      BY <1>2, <3>2, <3>3, <3>4
  <2> QED
    BY <2>1 DEF Counted
<1> QED
  BY <1>6, <1>8, <1>9, <1>10 DEF TaskInv

LEMMA PublishKeepsIt ==
    ASSUME TaskInv, NEW t0 \in Tasks, PublishTask(t0)
    PROVE  TaskInv'
<1>1. BrokerTypeOK /\ Followed /\ Tried /\ Counted
  BY DEF TaskInv
<1>2. /\ t0 \notin published /\ published' = published \cup {t0}
      /\ UNCHANGED <<declared, consuming, processing, breaks, stops, times, failures, returned, discarded>>
  BY DEF PublishTask
<1>3. /\ \A t \in Tasks : times[t] \in Nat /\ returned[t] \in Nat /\ failures[t] \in Nat
      /\ times[t0] = 0 /\ Live(t0) = {}
  BY <1>1, <1>2 DEF BrokerTypeOK, Followed, Live, LiveAt
<1>4. CASE "queue" \in declared
  <2>1. PICK d \in Copies : copy[d].at = "none" /\ copy' = [copy EXCEPT ![d] = [task |-> t0, retries |-> 0, at |-> "queued"]]
    BY <1>4 DEF PublishTask, NewCopy
  <2>2. mislaid' = mislaid
    BY <1>4 DEF PublishTask
  <2>3. [task |-> t0, retries |-> 0, at |-> "queued"] \in Copy
    BY BrokerAssumption DEF BrokerAssumption, Copy, Places
  <2>4. /\ copy' \in [Copies -> Copy]
        /\ copy'[d] = [task |-> t0, retries |-> 0, at |-> "queued"]
        /\ \A e \in Copies \ {d} : copy'[e] = copy[e]
    BY <1>1, <2>1, <2>3 DEF BrokerTypeOK
  <2>5. copy'[d].task = t0 /\ copy'[d].retries = 0 /\ copy'[d].at = "queued"
    BY <2>4
  <2>6. BrokerTypeOK'
    BY <1>1, <1>2, <2>2, <2>4, <2>5, BrokerAssumption DEF BrokerTypeOK, BrokerAssumption
  <2>7. Live(t0)' = {d} /\ \A t : t # t0 => Live(t)' = Live(t)
    BY <1>3, <2>1, <2>4, <2>5 DEF Live, LiveAt
  <2>8. Followed'
    <3>1. \A t \in Tasks : times'[t] > 0 => t \in published'
      BY <1>1, <1>2 DEF Followed
    <3>2. \A e \in Copies : copy'[e].at # "none" => copy'[e].task \in published'
      BY <1>1, <1>2, <2>4, <2>5 DEF Followed
    <3>3. ASSUME NEW t \in published'
          PROVE  Live(t)' # {} \/ times'[t] > 0 \/ t \in discarded' \cup mislaid'
      BY <1>1, <1>2, <2>2, <2>7 DEF Followed
    <3> QED
      BY <3>1, <3>2, <3>3 DEF Followed
  <2>9. Tried'
    <3>1. DiscardedAfterAllRetries'
      BY <1>1, <1>2 DEF Tried, DiscardedAfterAllRetries
    <3>2. ASSUME NEW e \in Copies
          PROVE  /\ copy'[e].at # "none" => copy'[e].retries <= failures'[copy'[e].task]
                 /\ copy'[e].at \in FailedAt => copy'[e].retries < failures'[copy'[e].task]
                 /\ copy'[e].at = "spent" => copy'[e].retries = MaxRetries
      <4>1. CASE e = d
        BY <1>2, <1>3, <2>5, <4>1 DEF FailedAt
      <4>2. CASE e # d
        BY <1>1, <1>2, <2>4, <4>2 DEF Tried
      <4> QED
        BY <4>1, <4>2
    <3> QED
      BY <3>1, <3>2 DEF Tried
  <2>10. Counted'
    <3>1. Cardinality({d}) = 1
      BY FS_EmptySet, FS_Singleton
    <3>2. ASSUME NEW t \in Tasks
          PROVE  times'[t] + Cardinality(Live(t)') <= 1 + returned'[t]
      <4>1. CASE t = t0
        <5>1. Live(t)' = {d}
          BY <2>7, <4>1
        <5>2. times'[t] = 0 /\ returned'[t] \in Nat
          BY <1>2, <1>3, <4>1
        <5> QED
          BY <3>1, <5>1, <5>2
      <4>2. CASE t # t0
        BY <1>1, <1>2, <2>7, <4>2 DEF Counted
      <4> QED
        BY <4>1, <4>2
    <3> QED
      BY <3>2 DEF Counted
  <2> QED
    BY <2>6, <2>8, <2>9, <2>10 DEF TaskInv
<1>5. CASE "queue" \notin declared
  <2>1. copy' = copy /\ mislaid' = mislaid \cup {t0}
    BY <1>5 DEF PublishTask
  <2>2. BrokerTypeOK'
    BY <1>1, <1>2, <2>1 DEF BrokerTypeOK
  <2>3. \A t : Live(t)' = Live(t)
    BY <2>1 DEF Live
  <2>4. Followed'
    BY <1>1, <1>2, <2>1, <2>3 DEF Followed
  <2>5. Tried' /\ Counted'
    BY <1>1, <1>2, <2>1, <2>3 DEF Tried, Counted, DiscardedAfterAllRetries
  <2> QED
    BY <2>2, <2>4, <2>5 DEF TaskInv
<1> QED
  BY <1>4, <1>5

\* A closing channel makes live again at most what it gives back.
LEMMA GiveBackKeepsIt ==
    ASSUME TaskInv, NEW Channels \in SUBSET Queues, GiveBack(Channels),
           UNCHANGED <<declared, published, times, failures, discarded, mislaid>>,
           consuming' \subseteq consuming, processing' \in BOOLEAN, breaks' \in Nat, stops' \in Nat
    PROVE  TaskInv'
<1>0. PICK Back : Back = UNION {UnsettledOn(q) : q \in Channels}
  OBVIOUS
<1>1. BrokerTypeOK /\ Followed /\ Tried /\ Counted
  BY DEF TaskInv
<1>2. /\ copy' = [c \in Copies |->
                    IF c \notin Back THEN copy[c]
                    ELSE [copy[c] EXCEPT !.at = IF c \in UnsettledOn("queue") THEN "queued" ELSE "dead"]]
      /\ returned' = [t \in Tasks |-> returned[t] + Cardinality({c \in Back : copy[c].task = t})]
  BY <1>0 DEF GiveBack
<1>3. /\ Back \subseteq Copies
      /\ \A c \in Back : copy[c].at \in Unsettled["queue"] \cup Unsettled["dlq"]
  <2>1. \A q \in Channels : q \in {"queue", "dlq"} /\ UnsettledOn(q) \subseteq Copies
    BY DEF UnsettledOn, Queues
  <2> QED
    BY <1>0, <2>1 DEF UnsettledOn
<1>4. ASSUME NEW c \in Back
      PROVE  /\ copy'[c].task = copy[c].task /\ copy'[c].retries = copy[c].retries
             /\ copy'[c] \in Copy /\ copy[c].at # "none"
             /\ copy'[c].at \in {"queued", "dead"}
             /\ copy'[c].at = "dead" => copy[c].at \in FailedAt
  <2>1. c \in Copies /\ copy[c] \in [task : Tasks \cup {NoTask}, retries : 0..MaxRetries, at : Places]
    BY <1>1, <1>3 DEF BrokerTypeOK, Copy
  <2>2. copy'[c] = [copy[c] EXCEPT !.at = IF c \in UnsettledOn("queue") THEN "queued" ELSE "dead"]
    BY <1>2, <2>1
  <2>3. c \notin UnsettledOn("queue") => copy[c].at \in FailedAt
    BY <1>3, <2>1 DEF UnsettledOn, Unsettled, FailedAt
  <2>4. copy[c].at # "none"
    BY <1>3 DEF Unsettled
  <2> QED
    BY <2>1, <2>2, <2>3, <2>4 DEF Copy, Places
<1>5. \A c \in Copies \ Back : copy'[c] = copy[c]
  BY <1>2
<1>6. copy' \in [Copies -> Copy]
  <2>1. \A c \in Copies : copy'[c] \in Copy
    BY <1>1, <1>4, <1>5 DEF BrokerTypeOK
  <2> QED
    BY <1>2, <2>1
<1>7. ASSUME NEW t
      PROVE  IsFiniteSet({c \in Back : copy[c].task = t}) /\ Cardinality({c \in Back : copy[c].task = t}) \in Nat
  <2>1. {c \in Back : copy[c].task = t} \subseteq Copies
    BY <1>3
  <2> QED
    BY <2>1, FiniteCopies
<1>8. BrokerTypeOK'
  <2>1. returned' \in [Tasks -> Nat]
    <3>1. ASSUME NEW t \in Tasks
          PROVE  returned[t] + Cardinality({c \in Back : copy[c].task = t}) \in Nat
      <4>1. returned[t] \in Nat
        BY <1>1 DEF BrokerTypeOK
      <4>2. Cardinality({c \in Back : copy[c].task = t}) \in Nat
        BY <1>7
      <4> QED
        BY <4>1, <4>2
    <3> QED
      BY <1>2, <3>1
  <2>2. \A c \in Copies : copy'[c].task = NoTask <=> copy'[c].at = "none"
    BY <1>1, <1>4, <1>5 DEF BrokerTypeOK
  <2> QED
    BY <1>1, <1>6, <2>1, <2>2 DEF BrokerTypeOK
<1>9. ASSUME NEW t
      PROVE  Live(t) \subseteq Live(t)' /\ Live(t)' \subseteq Live(t) \cup {c \in Back : copy[c].task = t}
  BY <1>3, <1>4, <1>5 DEF Live, LiveAt
<1>10. Followed'
  <2>1. ASSUME NEW c \in Copies, copy'[c].at # "none"
        PROVE  copy'[c].task \in published'
    BY <1>1, <1>4, <1>5, <2>1 DEF Followed
  <2>2. ASSUME NEW t \in published'
        PROVE  Live(t)' # {} \/ times'[t] > 0 \/ t \in discarded' \cup mislaid'
    BY <1>1, <1>9 DEF Followed
  <2>3. \A t \in Tasks : times'[t] > 0 => t \in published'
    BY <1>1 DEF Followed
  <2> QED
    BY <2>1, <2>2, <2>3 DEF Followed
<1>11. Tried'
  <2>1. DiscardedAfterAllRetries'
    BY <1>1 DEF Tried, DiscardedAfterAllRetries
  <2>2. ASSUME NEW c \in Copies
        PROVE  /\ copy'[c].at # "none" => copy'[c].retries <= failures'[copy'[c].task]
               /\ copy'[c].at \in FailedAt => copy'[c].retries < failures'[copy'[c].task]
               /\ copy'[c].at = "spent" => copy'[c].retries = MaxRetries
    <3>1. CASE c \in Back
      BY <1>1, <1>4, <3>1 DEF Tried, FailedAt
    <3>2. CASE c \notin Back
      BY <1>1, <1>5, <3>2 DEF Tried
    <3> QED
      BY <3>1, <3>2
  <2> QED
    BY <2>1, <2>2 DEF Tried
<1>12. Counted'
  <2>1. ASSUME NEW t \in Tasks
        PROVE  times'[t] + Cardinality(Live(t)') <= 1 + returned'[t]
    <3> DEFINE Given == {c \in Back : copy[c].task = t}
    <3>1. PICK L, N, G : L = Live(t) /\ N = Live(t)' /\ G = Given
      OBVIOUS
    <3>2. IsFiniteSet(L) /\ IsFiniteSet(G) /\ N \subseteq L \cup G /\ Cardinality(L) \in Nat /\ Cardinality(G) \in Nat
      BY <1>7, <1>9, <3>1, LiveIsFinite
    <3>3. IsFiniteSet(L \cup G) /\ Cardinality(L \cup G) <= Cardinality(L) + Cardinality(G)
      <4>1. /\ IsFiniteSet(L \cap G) /\ Cardinality(L \cap G) \in Nat
        BY <3>2, FS_Intersection, FS_CardinalityType
      <4>2. Cardinality(L \cup G) = Cardinality(L) + Cardinality(G) - Cardinality(L \cap G) /\ IsFiniteSet(L \cup G)
        BY <3>2, FS_Union
      <4> QED
        BY <3>2, <4>1, <4>2
    <3>4. Cardinality(N) <= Cardinality(L \cup G) /\ Cardinality(N) \in Nat /\ Cardinality(L \cup G) \in Nat
      BY <3>2, <3>3, FS_Subset, FS_CardinalityType
    <3>5. times[t] + Cardinality(L) <= 1 + returned[t] /\ times[t] \in Nat /\ returned[t] \in Nat
      BY <1>1, <3>1 DEF Counted, BrokerTypeOK
    <3>6. returned'[t] = returned[t] + Cardinality(G) /\ times'[t] = times[t]
      BY <1>2, <3>1
    <3>7. times'[t] + Cardinality(N) <= 1 + returned'[t]
      BY <3>2, <3>3, <3>4, <3>5, <3>6
    <3> QED
      BY <3>1, <3>7
  <2> QED
    BY <2>1 DEF Counted
<1> QED
  BY <1>8, <1>10, <1>11, <1>12 DEF TaskInv

-----------------------------------------------------------------------------
LEMMA TaskInvNext == TaskInv /\ [BrokerNext]_brokerVars => TaskInv'
<1> SUFFICES ASSUME TaskInv, [BrokerNext]_brokerVars
             PROVE  TaskInv'
    OBVIOUS
<1>1. CASE Stays \/ UNCHANGED brokerVars
  BY <1>1, StaysKeepsIt
<1>2. ASSUME NEW q \in Queues, Break(q)
      PROVE  TaskInv'
  <2>1. /\ {q} \in SUBSET Queues /\ GiveBack({q}) /\ breaks' = breaks + 1
        /\ UNCHANGED <<declared, consuming, processing, published, stops, times, failures, discarded, mislaid>>
    BY <1>2 DEF Break
  <2>2. consuming' \subseteq consuming /\ breaks' \in Nat /\ stops' \in Nat
    BY <2>1 DEF TaskInv, BrokerTypeOK
  <2>3. processing' \in BOOLEAN
    BY <2>1 DEF TaskInv, BrokerTypeOK
  <2> QED
    BY <2>1, <2>2, <2>3, GiveBackKeepsIt
<1>3. CASE Die
  <2>1. /\ Queues \in SUBSET Queues /\ GiveBack(Queues) /\ breaks' = breaks + 1
        /\ consuming' = {} /\ processing' = FALSE
        /\ UNCHANGED <<declared, published, stops, times, failures, discarded, mislaid>>
    BY <1>3 DEF Die
  <2>2. consuming' \subseteq consuming /\ breaks' \in Nat /\ stops' \in Nat
    BY <2>1 DEF TaskInv, BrokerTypeOK
  <2>3. processing' \in BOOLEAN
    BY <2>1
  <2> QED
    BY <2>1, <2>2, <2>3, GiveBackKeepsIt
<1>4. ASSUME NEW t \in Tasks, PublishTask(t)
      PROVE  TaskInv'
  BY <1>4, PublishKeepsIt
<1>5. ASSUME NEW c \in Copies, CopyStep(c)
      PROVE  TaskInv'
  <2>1. CASE Deliver("queue", c) \/ Deliver("dlq", c)
    BY <2>1, MoveKeepsIt DEF Deliver, Ready, FailedAt
  <2>2. CASE Handled(c) \/ HandlerFails(c)
    BY <2>2, HandledKeepsIt, HandlerFailsKeepsIt
  <2>3. CASE Retry(c)
    BY <2>3, RetryKeepsIt
  <2>4. CASE RetryFails(c) \/ GiveUp(c)
    BY <2>4, MoveKeepsIt DEF RetryFails, GiveUp, FailedAt
  <2>5. CASE Acknowledge(c)
    BY <2>5, AcknowledgeKeepsIt
  <2> QED
    BY <1>5, <2>1, <2>2, <2>3, <2>4, <2>5 DEF CopyStep
<1> QED
  BY <1>1, <1>2, <1>3, <1>4, <1>5 DEF BrokerNext, Stays

LEMMA TaskInvSuffices == TaskInv => TasksAreAccountedFor
<1> SUFFICES ASSUME TaskInv
             PROVE  NoTaskVanishes /\ DiscardedAfterAllRetries /\ HandledOnceUnlessReturned
    BY DEF TasksAreAccountedFor
<1>1. NoTaskVanishes
  <2>1. \A t : Live(t) \subseteq CopiesOf(t)
    BY DEF Live, CopiesOf
  <2> QED
    BY <2>1 DEF TaskInv, Followed, NoTaskVanishes
<1>2. DiscardedAfterAllRetries
  BY DEF TaskInv, Tried
<1>3. ASSUME NEW t \in Tasks
      PROVE  times[t] <= 1 + returned[t]
  <2>1. times[t] + Cardinality(Live(t)) <= 1 + returned[t] /\ times[t] \in Nat /\ returned[t] \in Nat
    BY DEF TaskInv, Counted, BrokerTypeOK
  <2> QED
    BY <2>1, LiveIsFinite
<1> QED
  BY <1>1, <1>2, <1>3 DEF HandledOnceUnlessReturned

\* A published task is with the broker until it was handled or given up, given up
\* only after all its retries, and handled again only when a closing channel gave
\* it back, for any number of tasks, messages, retries and closing channels.
THEOREM TasksAreAlwaysAccountedFor == BrokerSpec => []TasksAreAccountedFor
  BY TaskInvInit, TaskInvNext, TaskInvSuffices, PTL DEF BrokerSpec

-----------------------------------------------------------------------------
(***************************************************************************)
(* Configuration files and services (LiveConfig)                           *)
(***************************************************************************)

\* ConfigInv follows what was read of a file on its way into a cache: it was whole when
\* it was read, agents that were found valid still are, and a client under way is of
\* the providers that are cached.
Whole(content) == content \in Content /\ content.form # "torn"
Valid(content) == content \in Content /\ content.form = "valid"

FilesOK ==
    /\ disk \in [ConfigFiles -> Content] /\ edits \in Nat
    /\ \A f \in ConfigFiles : disk[f].n <= edits
    /\ hand \in ConfigFiles \cup {NoContent}

\* What a save, the observer or a load is about to store was whole when it was read.
LoadersAreWhole ==
    /\ loader = [f \in ConfigFiles |-> loader[f]]
    /\ \A f \in ConfigFiles : loader[f] # NoContent => Whole(loader[f])
    /\ getting = [f \in ConfigFiles |-> getting[f]]
    /\ \A f \in ConfigFiles : getting[f] # NoContent => Whole(getting[f])
    /\ saver = [at |-> saver.at, file |-> saver.file, content |-> saver.content]
    /\ saver.at # "rest" => saver.file \in ConfigFiles
    /\ saver.at \in {"setting", "storing"} => Whole(saver.content)
    /\ read # NoContent => read \in Reading /\ Whole(read.content)

\* Agents that were found valid still are, unless they were written since.
ManagerIsValid ==
    /\ manager = [f \in ConfigFiles |-> manager[f]]
    /\ \A f \in ConfigFiles : manager[f] # NoContent => Valid(manager[f])
    /\ checked /\ ~wrote => disk[Agents].form = "valid"
    /\ ~dropped

\* Without a load that had read the providers when the last reload_all began, neither
\* they nor what is about to be stored as them is older than that.
ServicesAreFresh ==
    /\ services = [f \in ConfigFiles |-> services[f]]
    /\ \A f \in ConfigFiles : services[f] # NoContent => Valid(services[f])
    /\ fetched = [f \in ConfigFiles |-> fetched[f]]
    /\ \A f \in ConfigFiles : fetched[f] # NoContent => Valid(fetched[f])
    /\ got # NoContent => reloading /\ Valid(got) /\ got.n >= since
    /\ since \in Nat /\ since <= disk[Providers].n
    /\ ~overtaken => /\ services[Providers] # NoContent => services[Providers].n >= since
                     /\ fetched[Providers] # NoContent => fetched[Providers].n >= since

\* From the clearing of the clients to the next reading of the file, every client
\* is one that was stored over the reload.
ClientsAreKnown ==
    /\ adapter \in {"new", "reading"} => providers = NoContent
    /\ adapter = "new" => client = NoContent /\ making = NoContent
    /\ adapter \in {"clearing", "reading"} /\ client # NoContent => met
    /\ met \in BOOLEAN
    /\ ClientsFollowTheFile

ConfigInv == FilesOK /\ LoadersAreWhole /\ ManagerIsValid /\ ServicesAreFresh /\ ClientsAreKnown

LEMMA ConfigInvSays == ConfigInv => ConfigIsSound
<1> SUFFICES ASSUME ConfigInv PROVE ConfigIsSound
  OBVIOUS
<1>1. OnlyWholeFilesAreServed
  BY DEF ConfigInv, LoadersAreWhole, ManagerIsValid, ServicesAreFresh, OnlyWholeFilesAreServed, Whole, Valid
<1>2. PreviousVersionIsKept /\ ReloadIsFresh /\ ClientsFollowTheFile
  BY DEF ConfigInv, ManagerIsValid, ServicesAreFresh, ClientsAreKnown, PreviousVersionIsKept, ReloadIsFresh
<1> QED
  BY <1>1, <1>2 DEF ConfigIsSound

LEMMA ConfigInvInit == LiveInit => ConfigInv
<1> SUFFICES ASSUME LiveInit PROVE ConfigInv
  OBVIOUS
<1>1. FilesOK
  BY DEF LiveInit, FilesOK, Content, Forms
<1>2. LoadersAreWhole
  <2>1. \A f \in ConfigFiles : loader[f] = disk[f] /\ Whole(disk[f])
    BY DEF LiveInit, Whole, Content, Forms
  <2> QED
    BY <2>1 DEF LiveInit, LoadersAreWhole, NoSave
<1>3. ManagerIsValid /\ ServicesAreFresh
  BY LiveAssumption DEF LiveInit, ManagerIsValid, ServicesAreFresh, ConfigFiles, LiveAssumption
<1>4. ClientsAreKnown
  BY DEF LiveInit, ClientsAreKnown, ClientsFollowTheFile
<1> QED
  BY <1>1, <1>2, <1>3, <1>4 DEF ConfigInv

\* A file that is read is whole or valid as its form says.
LEMMA LoadIsValid ==
    ASSUME FilesOK, NEW f \in ConfigFiles
    PROVE  /\ disk[f] # NoContent
           /\ disk[f].form # "torn" => Whole(disk[f])
           /\ Load(f) # NoContent => Load(f) = disk[f] /\ Valid(disk[f])
           /\ Load(f) = NoContent <=> disk[f].form # "valid"
  BY LiveAssumption DEF FilesOK, Load, Whole, Valid, LiveAssumption

\* A write of a file changes nothing for the holders but the manager's bookkeeping.
LEMMA WritingKeepsInv ==
    ASSUME ConfigInv, NEW f \in ConfigFiles, NEW n \in Nat, NEW form \in Forms,
           PutFile(f, n, form), n >= disk[f].n, n <= edits',
           edits' \in Nat, edits <= edits', hand' \in ConfigFiles \cup {NoContent}
    PROVE  /\ FilesOK' /\ ManagerIsValid' /\ ServicesAreFresh' /\ ClientsAreKnown'
           /\ disk'[f] = [n |-> n, form |-> form] /\ UNCHANGED loaderVars
<1>1. /\ disk' = [disk EXCEPT ![f] = [n |-> n, form |-> form]] /\ wrote' = (wrote \/ f = Agents)
      /\ UNCHANGED <<loaderVars, manager, checked, dropped, services, fetched, reloading,
                     got, since, overtaken, adapter, providers, client, making, met>>
  BY DEF PutFile, servicesVars
<1>2. [n |-> n, form |-> form] \in Content
  BY DEF Content
<1>3. disk \in [ConfigFiles -> Content] /\ \A g \in ConfigFiles : disk[g].n \in Nat /\ disk[g].n <= edits
  BY DEF ConfigInv, FilesOK, Content
<1>4. /\ disk'[f] = [n |-> n, form |-> form] /\ \A g \in ConfigFiles \ {f} : disk'[g] = disk[g]
      /\ disk' \in [ConfigFiles -> Content]
  BY <1>1, <1>2, <1>3
<1>5. FilesOK'
  <2>1. edits \in Nat
    BY DEF ConfigInv, FilesOK
  <2>2. \A g \in ConfigFiles : disk'[g].n <= edits'
    BY <1>3, <1>4, <2>1
  <2> QED
    BY <1>4, <2>2 DEF FilesOK
<1>6. ManagerIsValid'
  <2>1. f # Agents => disk'[Agents] = disk[Agents]
    BY <1>4 DEF ConfigFiles
  <2> QED
    BY <1>1, <2>1 DEF ConfigInv, ManagerIsValid
<1>7. ServicesAreFresh'
  <2>1. disk'[Providers].n >= disk[Providers].n /\ Providers \in ConfigFiles
    BY <1>3, <1>4 DEF ConfigFiles
  <2>2. disk'[Providers].n \in Nat /\ disk[Providers].n \in Nat
    BY <1>3, <1>4, <2>1
  <2>3. since \in Nat /\ since <= disk'[Providers].n
    BY <2>1, <2>2 DEF ConfigInv, ServicesAreFresh
  <2> QED
    BY <1>1, <2>3 DEF ConfigInv, ServicesAreFresh
<1>8. ClientsAreKnown'
  BY <1>1 DEF ConfigInv, ClientsAreKnown, ClientsFollowTheFile
<1> QED
  BY <1>1, <1>4, <1>5, <1>6, <1>7, <1>8

LEMMA DiskKeepsInv ==
    ASSUME ConfigInv, DiskNext
    PROVE  ConfigInv'
<1> USE DEF LiveAssumption
<1>1. /\ edits \in Nat /\ hand \in ConfigFiles \cup {NoContent}
      /\ \A f \in ConfigFiles : disk[f].n \in Nat /\ disk[f].n <= edits
  BY DEF ConfigInv, FilesOK, Content
<1>2. ASSUME NEW f \in ConfigFiles, EditBegins(f) PROVE ConfigInv'
  <2>1. PutFile(f, edits', "torn") /\ edits' = edits + 1 /\ hand' = f /\ saver' = saver
    BY <1>2 DEF EditBegins
  <2>2. FilesOK' /\ ManagerIsValid' /\ ServicesAreFresh' /\ ClientsAreKnown' /\ UNCHANGED loaderVars
    <3>1. /\ edits' \in Nat /\ edits' >= disk[f].n /\ edits' <= edits' /\ "torn" \in Forms
          /\ edits' \in Nat /\ edits <= edits' /\ hand' \in ConfigFiles \cup {NoContent}
      BY <1>1, <2>1 DEF Forms
    <3> QED
      BY <2>1, <3>1, WritingKeepsInv
  <2>3. LoadersAreWhole'
    BY <2>1, <2>2 DEF ConfigInv, LoadersAreWhole, loaderVars
  <2> QED
    BY <2>2, <2>3 DEF ConfigInv
<1>3. ASSUME NEW form \in {"valid", "invalid"}, EditEnds(form) PROVE ConfigInv'
  <2>1. hand \in ConfigFiles /\ PutFile(hand, disk[hand].n, form) /\ edits' = edits /\ hand' = NoContent /\ saver' = saver
    BY <1>1, <1>3 DEF EditEnds
  <2>2. FilesOK' /\ ManagerIsValid' /\ ServicesAreFresh' /\ ClientsAreKnown' /\ UNCHANGED loaderVars
    <3>1. /\ disk[hand].n \in Nat /\ disk[hand].n >= disk[hand].n /\ disk[hand].n <= edits' /\ form \in Forms
          /\ edits' \in Nat /\ edits <= edits' /\ hand' \in ConfigFiles \cup {NoContent}
      BY <1>1, <2>1 DEF Forms
    <3> QED
      BY <2>1, <3>1, WritingKeepsInv
  <2>3. LoadersAreWhole'
    BY <2>1, <2>2 DEF ConfigInv, LoadersAreWhole, loaderVars
  <2> QED
    BY <2>2, <2>3 DEF ConfigInv
<1>4. ASSUME NEW f \in ConfigFiles, SaveBegins(f) PROVE ConfigInv'
  <2>1. /\ PutFile(f, edits', "torn") /\ edits' = edits + 1 /\ hand' = hand
        /\ saver' = [at |-> "writing", file |-> f, content |-> NoContent]
    BY <1>4 DEF SaveBegins, NoSave
  <2>2. FilesOK' /\ ManagerIsValid' /\ ServicesAreFresh' /\ ClientsAreKnown' /\ UNCHANGED loaderVars
    <3>1. /\ edits' \in Nat /\ edits' >= disk[f].n /\ edits' <= edits' /\ "torn" \in Forms
          /\ edits' \in Nat /\ edits <= edits' /\ hand' \in ConfigFiles \cup {NoContent}
      BY <1>1, <2>1 DEF Forms
    <3> QED
      BY <2>1, <3>1, WritingKeepsInv
  <2>3. LoadersAreWhole'
    BY <2>1, <2>2 DEF ConfigInv, LoadersAreWhole, loaderVars
  <2> QED
    BY <2>2, <2>3 DEF ConfigInv
<1>5. CASE SaveWrites
  <2>1. /\ saver.file \in ConfigFiles /\ PutFile(saver.file, disk[saver.file].n, "valid")
        /\ edits' = edits /\ hand' = hand
        /\ saver' = [at |-> "setting", file |-> saver.file, content |-> disk'[saver.file]]
    BY <1>5 DEF SaveWrites, ConfigInv, LoadersAreWhole
  <2>2. /\ FilesOK' /\ ManagerIsValid' /\ ServicesAreFresh' /\ ClientsAreKnown' /\ UNCHANGED loaderVars
        /\ disk'[saver.file].form = "valid"
    <3> DEFINE n == disk[saver.file].n
    <3>1. /\ n \in Nat /\ n >= disk[saver.file].n /\ n <= edits' /\ "valid" \in Forms
          /\ edits' \in Nat /\ edits <= edits' /\ hand' \in ConfigFiles \cup {NoContent}
      BY <1>1, <2>1 DEF Forms
    <3>2. disk'[saver.file] = [n |-> n, form |-> "valid"]
      BY <2>1, <3>1, WritingKeepsInv
    <3> QED
      BY <2>1, <3>1, <3>2, WritingKeepsInv
  <2>3. Whole(disk'[saver.file])
    BY <2>1, <2>2 DEF FilesOK, Whole
  <2>4. LoadersAreWhole'
    BY <2>1, <2>2, <2>3 DEF ConfigInv, LoadersAreWhole, loaderVars
  <2> QED
    BY <2>2, <2>4 DEF ConfigInv
<1>6. CASE /\ SaveSets \/ SaveReads \/ SaveStores
           /\ UNCHANGED <<disk, touched, edits, hand, crossed, notices, read, getting, toload,
                          managerVars, servicesVars, adapterVars>>
  <2>1. FilesOK' /\ ManagerIsValid' /\ ServicesAreFresh' /\ ClientsAreKnown'
    BY <1>6 DEF ConfigInv, FilesOK, ManagerIsValid, ServicesAreFresh, ClientsAreKnown, ClientsFollowTheFile,
                managerVars, servicesVars, adapterVars
  <2>2. LoadersAreWhole'
    <3>1. CASE SaveSets
      <4>1. saver' = [at |-> "reading", file |-> saver.file, content |-> saver.content]
        BY <3>1 DEF SaveSets, ConfigInv, LoadersAreWhole
      <4>2. saver.file \in ConfigFiles /\ Whole(saver.content) /\ loader' = [loader EXCEPT ![saver.file] = saver.content]
        BY <3>1 DEF SaveSets, ConfigInv, LoadersAreWhole
      <4> QED
        BY <1>6, <4>1, <4>2 DEF ConfigInv, LoadersAreWhole
    <3>2. CASE SaveReads
      <4>1. saver.file \in ConfigFiles /\ loader' = loader
        BY <3>2 DEF SaveReads, ConfigInv, LoadersAreWhole
      <4>2. \/ saver' = NoSave
            \/ /\ saver' = [at |-> "storing", file |-> saver.file, content |-> disk[saver.file]]
               /\ disk[saver.file].form # "torn"
        BY <3>2 DEF SaveReads, ConfigInv, LoadersAreWhole
      <4>3. disk[saver.file].form # "torn" => Whole(disk[saver.file])
        BY <4>1, LoadIsValid DEF ConfigInv
      <4> QED
        BY <1>6, <4>1, <4>2, <4>3 DEF ConfigInv, LoadersAreWhole, NoSave
    <3>3. CASE SaveStores
      <4>1. saver.file \in ConfigFiles /\ Whole(saver.content) /\ loader' = [loader EXCEPT ![saver.file] = saver.content]
            /\ saver' = NoSave
        BY <3>3 DEF SaveStores, ConfigInv, LoadersAreWhole
      <4> QED
        BY <1>6, <4>1 DEF ConfigInv, LoadersAreWhole, NoSave
    <3> QED
      BY <1>6, <3>1, <3>2, <3>3
  <2> QED
    BY <2>1, <2>2 DEF ConfigInv
<1> QED
  BY <1>2, <1>3, <1>4, <1>5, <1>6 DEF DiskNext, EditorNext, SaverStep

\* ConfigLoader: what is stored is what was read, and it was whole then.
LEMMA LoaderKeepsInv ==
    ASSUME ConfigInv, LoaderNext
    PROVE  ConfigInv'
<1>1. UNCHANGED <<diskVars, managerVars, servicesVars, adapterVars>>
  BY DEF LoaderNext, ObserverStep
<1>2. FilesOK' /\ ManagerIsValid' /\ ServicesAreFresh' /\ ClientsAreKnown'
  BY <1>1 DEF ConfigInv, FilesOK, ManagerIsValid, ServicesAreFresh, ClientsAreKnown, ClientsFollowTheFile,
              diskVars, managerVars, servicesVars, adapterVars
<1> SUFFICES LoadersAreWhole'
  BY <1>2 DEF ConfigInv
<1>3. ASSUME loader' = [f \in ConfigFiles |-> loader'[f]],
             \A f \in ConfigFiles : loader'[f] # NoContent => Whole(loader'[f]),
             getting' = [f \in ConfigFiles |-> getting'[f]],
             \A f \in ConfigFiles : getting'[f] # NoContent => Whole(getting'[f]),
             read' # NoContent => read' \in Reading /\ Whole(read'.content)
      PROVE  LoadersAreWhole'
  BY <1>1, <1>3 DEF ConfigInv, LoadersAreWhole, diskVars
<1>4. FilesOK /\ LoadersAreWhole
  BY DEF ConfigInv
<1>5. \A f \in ConfigFiles : disk[f].form # "torn" => Whole(disk[f])
  BY <1>4, LoadIsValid
<1>6. CASE WatchStores /\ getting' = getting
  <2>1. /\ read.file \in ConfigFiles /\ Whole(read.content) /\ read' = NoContent
        /\ loader' = [loader EXCEPT ![read.file] = read.content]
    BY <1>4, <1>6 DEF WatchStores, LoadersAreWhole, Reading
  <2> QED
    BY <1>3, <1>4, <1>6, <2>1 DEF LoadersAreWhole
<1>7. ASSUME NEW f \in ConfigFiles, WatchReads(f), getting' = getting PROVE LoadersAreWhole'
  <2>1. loader' = loader /\ read' = IF disk[f].form = "torn" THEN NoContent ELSE [file |-> f, content |-> disk[f]]
    BY <1>7 DEF WatchReads
  <2>2. read' # NoContent => read' \in Reading /\ Whole(read'.content)
    BY <1>5, <2>1 DEF Reading, Whole
  <2> QED
    BY <1>3, <1>4, <1>7, <2>1, <2>2 DEF LoadersAreWhole
<1>8. ASSUME NEW f \in ConfigFiles, GetReads(f) \/ ReloadReads(f), read' = read PROVE LoadersAreWhole'
  <2>1. /\ loader' = loader
        /\ \/ getting' = getting
           \/ disk[f].form # "torn" /\ getting' = [getting EXCEPT ![f] = disk[f]]
    BY <1>8 DEF GetReads, ReloadReads
  <2> QED
    BY <1>3, <1>4, <1>5, <1>8, <2>1 DEF LoadersAreWhole
<1>9. ASSUME NEW f \in ConfigFiles, LoadStores(f), read' = read PROVE LoadersAreWhole'
  BY <1>3, <1>4, <1>9 DEF LoadStores, LoadersAreWhole
<1>10. CASE ReloadAll /\ read' = read
  BY <1>3, <1>4, <1>10 DEF ReloadAll, LoadersAreWhole
<1> QED
  BY <1>6, <1>7, <1>8, <1>9, <1>10 DEF LoaderNext, ObserverStep

\* ConfigurationManager: agents are dropped only to be read again, and they can be.
LEMMA ManagerKeepsInv ==
    ASSUME ConfigInv, ManagerNext
    PROVE  ConfigInv'
<1>1. UNCHANGED <<diskVars, notices, loaderVars, servicesVars, adapterVars>>
  BY DEF ManagerNext
<1>2. FilesOK' /\ LoadersAreWhole' /\ ServicesAreFresh' /\ ClientsAreKnown'
  BY <1>1 DEF ConfigInv, FilesOK, LoadersAreWhole, ServicesAreFresh, ClientsAreKnown, ClientsFollowTheFile,
              diskVars, loaderVars, servicesVars, adapterVars
<1> SUFFICES ManagerIsValid'
  BY <1>2 DEF ConfigInv
<1>3. FilesOK /\ ManagerIsValid /\ disk' = disk
  BY <1>1 DEF ConfigInv, diskVars
<1>4. \A f \in ConfigFiles : /\ Load(f) # NoContent => Valid(Load(f))
                             /\ disk[f].form = "valid" => Load(f) # NoContent
  BY <1>3, LoadIsValid DEF Load
<1>5. Agents \in ConfigFiles
  BY DEF ConfigFiles
<1>6. CASE \E f \in ConfigFiles : ManagerLoads(f) \/ ManagerReloads(f)
  BY <1>3, <1>4, <1>6 DEF ManagerLoads, ManagerReloads, ManagerIsValid
<1>7. CASE ManagerChecks
  BY <1>3, <1>7 DEF ManagerChecks, ManagerIsValid
<1>8. CASE ManagerReplaces
  <2>1. manager'[Agents] = Load(Agents) /\ \A f \in ConfigFiles \ {Agents} : manager'[f] = manager[f]
    BY <1>3, <1>5, <1>8 DEF ManagerReplaces, ManagerIsValid
  <2>2. ~dropped'
    BY <1>3, <1>4, <1>5, <1>8, <2>1 DEF ManagerReplaces, ManagerIsValid
  <2>3. manager' = [f \in ConfigFiles |-> manager'[f]]
    BY <1>3, <1>8 DEF ManagerReplaces, ManagerIsValid
  <2> QED
    BY <1>3, <1>4, <1>5, <1>8, <2>1, <2>2, <2>3 DEF ManagerReplaces, ManagerIsValid
<1>9. CASE ManagerReloadsAll
  BY <1>3, <1>4, <1>9 DEF ManagerReloadsAll, ManagerIsValid
<1> QED
  BY <1>6, <1>7, <1>8, <1>9 DEF ManagerNext

\* ConfigurationLoader: the providers are dropped when a reload begins, so what is
\* there was read after that, or was on its way then.
LEMMA ServicesKeepInv ==
    ASSUME ConfigInv, ServicesNext
    PROVE  ConfigInv'
<1>1. UNCHANGED <<diskVars, loaderVars, managerVars, adapterVars>>
  BY DEF ServicesNext
<1>2. FilesOK' /\ LoadersAreWhole' /\ ManagerIsValid' /\ ClientsAreKnown'
  BY <1>1 DEF ConfigInv, FilesOK, LoadersAreWhole, ManagerIsValid, ClientsAreKnown, ClientsFollowTheFile,
              diskVars, loaderVars, managerVars, adapterVars
<1> SUFFICES ServicesAreFresh'
  BY <1>2 DEF ConfigInv
<1>3. FilesOK /\ ServicesAreFresh /\ disk' = disk
  BY <1>1 DEF ConfigInv, diskVars
<1>4. \A f \in ConfigFiles : Load(f) # NoContent => Valid(Load(f)) /\ Load(f).n = disk[f].n
  BY <1>3, LoadIsValid DEF Load
<1>5. Providers \in ConfigFiles /\ disk[Providers].n \in Nat
  BY <1>3 DEF ConfigFiles, FilesOK, Content
<1>6. ASSUME NEW f \in ConfigFiles, ServicesReads(f) PROVE ServicesAreFresh'
  BY <1>3, <1>4, <1>5, <1>6 DEF ServicesReads, ServicesAreFresh
<1>7. ASSUME NEW f \in ConfigFiles, ServicesStores(f) PROVE ServicesAreFresh'
  BY <1>3, <1>5, <1>7 DEF ServicesStores, ServicesAreFresh
<1>8. CASE ServicesBegin
  <2>1. got = NoContent /\ got' = NoContent /\ fetched' = fetched /\ since' = disk[Providers].n
    BY <1>3, <1>8 DEF ServicesBegin, ServicesAreFresh
  <2>2. services' = [services EXCEPT ![Providers] = NoContent] /\ overtaken' = (fetched[Providers] # NoContent)
    BY <1>8 DEF ServicesBegin
  <2>3. services'[Providers] = NoContent /\ \A f \in ConfigFiles \ {Providers} : services'[f] = services[f]
    BY <1>3, <1>5, <2>2 DEF ServicesAreFresh
  <2>4. ~overtaken' => fetched'[Providers] = NoContent
    BY <2>1, <2>2
  <2>5. services' = [f \in ConfigFiles |-> services'[f]]
    BY <1>3, <2>2 DEF ServicesAreFresh
  <2>6. since' \in Nat /\ since' <= disk'[Providers].n
    BY <1>3, <1>5, <2>1
  <2>7. /\ fetched' = [f \in ConfigFiles |-> fetched'[f]]
        /\ \A f \in ConfigFiles : fetched'[f] # NoContent => Valid(fetched'[f])
    BY <1>3, <2>1 DEF ServicesAreFresh
  <2>8. \A f \in ConfigFiles : services'[f] # NoContent => Valid(services'[f])
    BY <1>3, <2>3 DEF ServicesAreFresh
  <2> QED
    BY <2>1, <2>3, <2>4, <2>5, <2>6, <2>7, <2>8 DEF ServicesAreFresh
<1>9. CASE ReloadFetches
  BY <1>3, <1>4, <1>5, <1>9 DEF ReloadFetches, ServicesAreFresh
<1>10. CASE ReloadPuts
  BY <1>3, <1>5, <1>10 DEF ReloadPuts, ServicesAreFresh
<1>11. CASE UNCHANGED <<services, fetched, reloading, got, since, overtaken>>
  BY <1>3, <1>11 DEF ServicesAreFresh
<1> QED
  BY <1>6, <1>7, <1>8, <1>9, <1>10, <1>11 DEF ServicesNext

\* ProviderAdapter: while the providers are missing, a client that is made was
\* looked up before.
LEMMA AdapterKeepsInv ==
    ASSUME ConfigInv, AdapterNext
    PROVE  ConfigInv'
<1>1. UNCHANGED <<diskVars, notices, loaderVars, managerVars, servicesVars>>
  BY DEF AdapterNext, WatcherStep
<1>2. FilesOK' /\ LoadersAreWhole' /\ ManagerIsValid' /\ ServicesAreFresh'
  BY <1>1 DEF ConfigInv, FilesOK, LoadersAreWhole, ManagerIsValid, ServicesAreFresh,
              diskVars, loaderVars, managerVars, servicesVars
<1> SUFFICES ClientsAreKnown'
  BY <1>2 DEF ConfigInv
<1>3. CASE FindsChange \/ RecordsTime \/ ClearsClients \/ ClearsProviders \/ Reads
  BY <1>3 DEF FindsChange, RecordsTime, ClearsClients, ClearsProviders, Reads,
              ConfigInv, ClientsAreKnown, ClientsFollowTheFile
<1>4. CASE AdapterStarts \/ WatcherStarts \/ LooksUp \/ StoresClient \/ Expires
  BY <1>4 DEF AdapterStarts, WatcherStarts, LooksUp, StoresClient, Expires,
              ConfigInv, ClientsAreKnown, ClientsFollowTheFile
<1> QED
  BY <1>3, <1>4 DEF AdapterNext, WatcherStep

\* However the writers and the four holders interleave, no holder has what did not
\* parse or validate, a refused reload of the agents keeps those there are, a
\* reload_all leaves no provider from before it began unless a load had read the file by
\* then and not stored it, and a client is one of the file as it was loaded last unless
\* a reload overtook its making.
THEOREM ConfigIsAlwaysSound == LiveSpec => []ConfigIsSound
<1>1. ConfigInv /\ [LiveNext]_liveVars => ConfigInv'
  <2>1. CASE UNCHANGED liveVars
    BY <2>1 DEF ConfigInv, FilesOK, LoadersAreWhole, ManagerIsValid, ServicesAreFresh, ClientsAreKnown,
                ClientsFollowTheFile, liveVars, diskVars, loaderVars, managerVars, servicesVars, adapterVars
  <2> QED
    BY <2>1, DiskKeepsInv, LoaderKeepsInv, ManagerKeepsInv, ServicesKeepInv, AdapterKeepsInv DEF LiveNext
<1> QED
  BY <1>1, ConfigInvInit, ConfigInvSays, PTL DEF LiveSpec

-----------------------------------------------------------------------------
(***************************************************************************)
(* Stream relay (StreamRelay)                                              *)
(*                                                                         *)
(* Its types, and that it sends its frames as FrameContract says: RelayInv *)
(* ties the place where stream_message stands to the last frame it has     *)
(* yielded, and the queue to runtime events.  That the stream is whole:    *)
(* StreamInv follows the events of a thread through callbacks, queue and   *)
(* frames together, and says when nothing is left on the way (InStep).     *)
(* That the record is true: RecordInv adds what the recorder keeps of each *)
(* thread, how it ends, and that it is as long as the stream is going to   *)
(* be, counting what threads hold and the relay will add.                  *)
(***************************************************************************)

RelayInv ==
    /\ RelayTypeOK
    /\ relay \in {"none", "new"} => frames = <<>>
    /\ relay \in {"opened", "relaying", "draining"} => Contract!UnderWay
    /\ relay = "told" => frames # <<>> /\ frames[Len(frames)] = Token
    /\ \A e \in Emitters : holding[e] => emitted[e] > 0

LEMMA NotedKeepsType ==
    ASSUME NEW log \in Seq(Contract!Frames), Len(log) <= MaxEvents,
           NEW frame \in Contract!Frames
    PROVE  /\ Noted(log, frame) \in Seq(Contract!Frames)
           /\ Len(Noted(log, frame)) <= MaxEvents
  BY RelayAssumption DEF Noted, RelayAssumption

LEMMA FrameTypes ==
    /\ Start \in Contract!Frames /\ Token \in Contract!Frames
    /\ Done \in Contract!Frames /\ Error \in Contract!Frames
    /\ RunEvents \subseteq Contract!Frames
  BY DEF Contract!Frames, Start, Token, Done, Error

LEMMA RelayInvInit == StreamInit => RelayInv
  BY RelayAssumption DEF RelayAssumption, StreamInit, RelayInv, RelayTypeOK, RelayStates, RunStates

LEMMA RelayInvNext == RelayInv /\ [StreamNext]_streamVars => RelayInv'
<1> SUFFICES ASSUME RelayInv, [StreamNext]_streamVars
             PROVE  RelayInv'
    OBVIOUS
<1> USE FrameTypes
<1>1. ASSUME NEW e \in Emitters, Record(e)
      PROVE  RelayInv'
  <2>1. emitted[e] + 1 \in 1..MaxEmit
    BY <1>1, RelayAssumption DEF RelayInv, RelayTypeOK, Record, RelayAssumption
  <2>2. Event(e, emitted'[e]) \in Contract!Frames
    BY <1>1, <2>1 DEF RelayInv, RelayTypeOK, Record, RunEvents
  <2>3. events' \in Seq(Contract!Frames) /\ Len(events') <= MaxEvents
    BY <1>1, <2>2, NotedKeepsType DEF RelayInv, RelayTypeOK, Record
  <2>4. emitted' \in [Emitters -> 0..MaxEmit] /\ holding' \in [Emitters -> BOOLEAN]
    BY <1>1, <2>1 DEF RelayInv, RelayTypeOK, Record, Streamed
  <2> QED
    BY <1>1, <2>3, <2>4 DEF RelayInv, RelayTypeOK, Record, relayVars, Contract!UnderWay
<1>2. ASSUME NEW e \in Emitters, HandOver(e)
      PROVE  RelayInv'
  <2>1. Event(e, emitted[e]) \in RunEvents
    BY <1>2 DEF RelayInv, RelayTypeOK, HandOver, RunEvents
  <2> QED
    BY <1>2, <2>1 DEF RelayInv, RelayTypeOK, HandOver, relayVars, runVars, Contract!UnderWay
<1>3. CASE CrewEnds
  BY <1>3 DEF RelayInv, RelayTypeOK, CrewEnds, relayVars, runVars, Contract!UnderWay
<1>4. CASE StartRun
  <2>1. <<Start>> \in Seq(Contract!Frames) /\ Len(<<Start>>) = 1 /\ <<>> \in Seq(Contract!Frames) /\ Len(<<>>) = 0
    OBVIOUS
  <2>2. events' \in Seq(Contract!Frames) /\ Len(events') <= MaxEvents
    <3>1. events \in Seq(Contract!Frames) /\ Len(events) <= MaxEvents /\ 1 <= MaxEvents /\ 0 <= MaxEvents
      BY RelayAssumption DEF RelayInv, RelayTypeOK, RelayAssumption
    <3>2. \/ events' = events \/ events' = <<Start>> \/ events' = <<>>
      BY <1>4 DEF StartRun
    <3> QED
      BY <2>1, <3>1, <3>2
  <2>3. crew' \in {crew, "working"} /\ run' \in {"raised", "returned", "executing"}
    BY <1>4 DEF StartRun
  <2>4. UNCHANGED <<relayVars, ready, emitted, holding, stored>>
    BY <1>4 DEF StartRun
  <2> QED
    BY <2>2, <2>3, <2>4 DEF RelayInv, RelayTypeOK, RunStates, relayVars, Contract!UnderWay
<1>5. CASE Dispatch
  <2>1. ready \in Seq(RunEvents \cup {KickoffOver}) /\ ready # <<>>
    BY <1>5 DEF RelayInv, RelayTypeOK, Dispatch
  <2>2. Head(ready) \in RunEvents \cup {KickoffOver} /\ Tail(ready) \in Seq(RunEvents \cup {KickoffOver})
    BY <2>1
  <2>3. queue \in Seq(RunEvents) /\ run \in RunStates
    BY DEF RelayInv, RelayTypeOK
  <2>4. ready' = Tail(ready) /\ UNCHANGED <<relay, frames, crewVars, events, stored>>
    BY <1>5 DEF Dispatch
  <2>5. queue' \in Seq(RunEvents) /\ run' \in RunStates
    <3>1. CASE Head(ready) = KickoffOver
      BY <1>5, <2>3, <3>1 DEF Dispatch, RunStates
    <3>2. CASE Head(ready) # KickoffOver
      <4>1. Head(ready) \in RunEvents /\ queue' = Append(queue, Head(ready)) /\ run' = run
        BY <1>5, <2>2, <3>2 DEF Dispatch
      <4> QED
        BY <2>3, <4>1
    <3> QED
      BY <3>1, <3>2
  <2> QED
    BY <2>2, <2>4, <2>5 DEF RelayInv, RelayTypeOK, crewVars, Contract!UnderWay
<1>6. CASE Reply
  <2>1. events' \in Seq(Contract!Frames) /\ Len(events') <= MaxEvents
    <3>1. /\ Noted(events, Token) \in Seq(Contract!Frames)
          /\ Len(Noted(events, Token)) <= MaxEvents
      BY NotedKeepsType DEF RelayInv, RelayTypeOK
    <3> QED
      BY <1>6, <3>1, NotedKeepsType DEF Reply
  <2> QED
    BY <1>6, <2>1 DEF RelayInv, RelayTypeOK, Reply, RunStates, relayVars, crewVars, Contract!UnderWay
<1>7. CASE Fail \/ Cancel
  <2>1. events' \in Seq(Contract!Frames) /\ Len(events') <= MaxEvents
    BY <1>7, NotedKeepsType DEF RelayInv, RelayTypeOK, Fail, Cancel
  <2> QED
    BY <1>7, <2>1
       DEF RelayInv, RelayTypeOK, Fail, Cancel, RunStates, relayVars, crewVars, Contract!UnderWay
<1>8. CASE CloseRow
  BY <1>8 DEF RelayInv, RelayTypeOK, CloseRow, RunStates, relayVars, crewVars, Contract!UnderWay
<1>9. CASE Open
  BY <1>9 DEF RelayInv, RelayTypeOK, Open, RelayStep, Yields, RelayStates, crewVars, Contract!UnderWay, Start
<1>10. CASE Begin
  BY <1>10 DEF RelayInv, RelayTypeOK, Begin, RelayStep, RelayStates, RunStates, crewVars, Contract!UnderWay
<1>11. CASE Forward
  <2>1. Head(queue) \in RunEvents /\ Tail(queue) \in Seq(RunEvents)
    BY <1>11 DEF RelayInv, RelayTypeOK, Forward
  <2>2. frames \in Seq(Contract!Frames) /\ frames' = Append(frames, Head(queue))
    BY <1>11 DEF RelayInv, RelayTypeOK, Forward, Yields
  <2>3. frames' \in Seq(Contract!Frames) /\ Contract!UnderWay'
    BY <2>1, <2>2 DEF Contract!UnderWay
  <2>4. relay' = relay /\ queue' = Tail(queue) /\ UNCHANGED <<run, ready, crewVars, events, stored>>
    BY <1>11 DEF Forward, RelayStep
  <2>5. relay \in {"relaying", "draining"}
    BY <1>11 DEF Forward, RelayStep
  <2> QED
    BY <2>1, <2>3, <2>4, <2>5 DEF RelayInv, RelayTypeOK, crewVars
<1>12. CASE Notice \/ Leave
  BY <1>12 DEF RelayInv, RelayTypeOK, Notice, Leave, RelayStep, RelayStates, crewVars, Contract!UnderWay
<1>13. CASE Conclude \/ Finish
  <2>0. frames \in Seq(Contract!Frames)
    BY DEF RelayInv, RelayTypeOK
  <2>1. frames' \in Seq(Contract!Frames)
    <3>1. PICK f \in Contract!Frames : frames' = Append(frames, f)
      BY <1>13 DEF Conclude, Finish, Yields
    <3> QED
      BY <2>0, <3>1
  <2>2. relay' = "told" => frames' # <<>> /\ frames'[Len(frames')] = Token
    BY <1>13, <2>0 DEF Conclude, Finish, RelayStep, Yields
  <2>3. relay' \in {"told", "ended"} /\ UNCHANGED <<queue, run, ready, crewVars, events, stored>>
    BY <1>13 DEF Conclude, Finish, RelayStep
  <2> QED
    BY <2>1, <2>2, <2>3 DEF RelayInv, RelayTypeOK, RelayStates, crewVars
<1>14. CASE UNCHANGED streamVars
  BY <1>14 DEF RelayInv, RelayTypeOK, streamVars, relayVars, crewVars, runVars, Contract!UnderWay
<1>15. CASE CancelClosing
  BY <1>15 DEF RelayInv, RelayTypeOK, CancelClosing, RunStates, relayVars, crewVars, Contract!UnderWay
<1> QED
  BY <1>1, <1>2, <1>3, <1>4, <1>5, <1>6, <1>7, <1>8, <1>9, <1>10, <1>11, <1>12, <1>13, <1>14, <1>15
     DEF StreamNext, RunSteps, ThreadSteps, RelaySteps

LEMMA RelayInvAlways == StreamSpec => []RelayInv
  BY RelayInvInit, RelayInvNext, PTL DEF StreamSpec

-----------------------------------------------------------------------------
\* The variables of the stream have their types, the recorder stays within its
\* limit, for any number of threads and events.
THEOREM RelayTypeCorrect == StreamSpec => []RelayTypeOK
<1>1. RelayInv => RelayTypeOK
  BY DEF RelayInv
<1> QED
  BY <1>1, RelayInvAlways, PTL

LEMMA StepSendsByContract == RelayInv /\ [StreamNext]_streamVars => [Contract!ContractNext]_frames
<1> SUFFICES ASSUME RelayInv, [StreamNext]_streamVars
             PROVE  Contract!ContractNext \/ UNCHANGED frames
    OBVIOUS
<1>1. CASE Open
  BY <1>1 DEF RelayInv, Open, RelayStep, Yields, Contract!ContractNext, Contract!Begin,
     Contract!Send, Start
<1>2. CASE Forward
  <2>1. Head(queue) \in RunEvents /\ Contract!UnderWay
    BY <1>2 DEF RelayInv, RelayTypeOK, Forward, RelayStep
  <2> QED
    BY <1>2, <2>1 DEF Forward, Yields, Contract!ContractNext, Contract!Relay, Contract!Send
<1>3. CASE Conclude
  BY <1>3 DEF RelayInv, Conclude, RelayStep, Yields, Contract!ContractNext, Contract!Answer,
     Contract!GiveUp, Contract!Send, Token, Error
<1>4. CASE Finish
  BY <1>4 DEF RelayInv, Finish, RelayStep, Yields, Contract!ContractNext, Contract!Complete,
     Contract!Send, Token, Done
<1>5. ASSUME \/ RunSteps \/ ThreadSteps \/ Cancel \/ CancelClosing \/ Begin \/ Notice \/ Leave
             \/ UNCHANGED streamVars
      PROVE  UNCHANGED frames
  BY <1>5 DEF RunSteps, ThreadSteps, StartRun, Dispatch, Reply, Fail, CloseRow, CrewEnds, Record,
     HandOver, Cancel, CancelClosing, Begin, Notice, Leave, RelayStep, relayVars, streamVars
<1> QED
  BY <1>1, <1>2, <1>3, <1>4, <1>5 DEF StreamNext, RelaySteps

\* stream_message keeps the contract its docstring states: START first, then live
\* events, then TOKEN and DONE, or ERROR in their place, and nothing after.
THEOREM RelaySendsTheContract == StreamSpec => ImplementsContract
<1>1. StreamInit => Contract!ContractInit
  BY DEF StreamInit, Contract!ContractInit
<1> QED
  BY <1>1, RelayInvAlways, StepSendsByContract, PTL
     DEF StreamSpec, ImplementsContract, Contract!ContractSpec

-----------------------------------------------------------------------------
(* Sequences of frames, and the events of a thread in them                 *)

Waiting == Contract!Frames \cup {KickoffOver}

LEMMA WaitingTypes ==
    /\ RunEvents \subseteq Waiting /\ Contract!Frames \subseteq Waiting /\ KickoffOver \in Waiting
    /\ \A f \in RunEvents : f # KickoffOver
<1>1. ASSUME NEW f \in RunEvents
      PROVE  f # KickoffOver
  <2>1. f[1] = "event" /\ KickoffOver[1] = "kickoff over"
    BY DEF RunEvents, Event, KickoffOver
  <2> QED
    BY <2>1
<1> QED
  BY <1>1, FrameTypes DEF Waiting

LEMMA AppendToThree ==
    ASSUME NEW S, NEW f \in Seq(S), NEW q \in Seq(S), NEW r \in Seq(S), NEW x \in S
    PROVE  f \o q \o Append(r, x) = Append(f \o q \o r, x)
<1>1. f \o q \in Seq(S) /\ f \o q \o r \in Seq(S) /\ <<x>> \in Seq(S)
  BY ConcatProperties
<1>2. Append(r, x) = r \o <<x>> /\ Append(f \o q \o r, x) = (f \o q \o r) \o <<x>>
  BY <1>1, AppendIsConcat
<1>3. ((f \o q) \o r) \o <<x>> = (f \o q) \o (r \o <<x>>)
  BY <1>1, ConcatAssociative
<1> QED
  BY <1>2, <1>3

LEMMA MovesUp ==
    ASSUME NEW S, NEW q \in Seq(S), NEW r \in Seq(S), r # <<>>
    PROVE  Append(q, Head(r)) \o Tail(r) = q \o r
<1>1. Head(r) \in S /\ Tail(r) \in Seq(S) /\ <<Head(r)>> \in Seq(S)
  BY HeadTailProperties
<1>2. Append(q, Head(r)) = q \o <<Head(r)>> /\ r = <<Head(r)>> \o Tail(r)
  <2>1. r = <<Head(r)>> \o Tail(r)
    BY <1>1
  <2> QED
    BY <1>1, <2>1, AppendIsConcat
<1>3. (q \o <<Head(r)>>) \o Tail(r) = q \o (<<Head(r)>> \o Tail(r))
  BY <1>1, ConcatAssociative
<1> QED
  BY <1>2, <1>3

NoEvent(x) == \A e \in Emitters, k \in 1..MaxEmit : x # Event(e, k)

LEMMA OthersAreNoEvents ==
    NoEvent(Start) /\ NoEvent(Token) /\ NoEvent(Done) /\ NoEvent(Error) /\ NoEvent(KickoffOver)
  BY DEF NoEvent, Start, Token, Done, Error, KickoffOver, Event,
     Contract!Start, Contract!Token, Contract!Done, Contract!Error

LEMMA EventsDiffer ==
    \A d, e, k, l : Event(d, k) = Event(e, l) => d = e /\ k = l
  BY DEF Event

\* A frame that is no event of the thread changes nothing for it.
LEMMA BringsTheSame ==
    ASSUME NEW S, NEW seq \in Seq(S), NEW x, NEW e \in Emitters, NEW n \in Int,
           \A k \in 1..MaxEmit : x # Event(e, k), n <= MaxEmit
    PROVE  Brings(Append(seq, x), e, n) <=> Brings(seq, e, n)
<1>1. /\ DOMAIN seq = 1..Len(seq) /\ Len(seq) \in Nat
      /\ DOMAIN Append(seq, x) = 1..(Len(seq) + 1)
      /\ \A i \in DOMAIN seq : Append(seq, x)[i] = seq[i]
      /\ Append(seq, x)[Len(seq) + 1] = x
  <2>1. seq \in Seq(S \cup {x}) /\ x \in S \cup {x}
    BY SeqMonotonic
  <2> QED
    BY <2>1, AppendProperties, LenProperties
<1>2. PICK t : t = Append(seq, x)
  OBVIOUS
<1>3. \A i \in DOMAIN t, k \in 1..MaxEmit : t[i] = Event(e, k) => i \in DOMAIN seq /\ t[i] = seq[i]
  BY <1>1, <1>2
<1>4. DOMAIN seq \subseteq DOMAIN t /\ \A i \in DOMAIN seq : t[i] = seq[i]
  BY <1>1, <1>2
<1>5. 1..n \subseteq 1..MaxEmit
  BY RelayAssumption DEF RelayAssumption
<1>6. Brings(t, e, n) => Brings(seq, e, n)
  BY <1>3, <1>4, <1>5 DEF Brings
<1>7. Brings(seq, e, n) => Brings(t, e, n)
  BY <1>3, <1>4, <1>5 DEF Brings
<1> QED
  BY <1>2, <1>6, <1>7

LEMMA BringsOneMore ==
    ASSUME NEW S, NEW seq \in Seq(S), NEW e \in Emitters, NEW n \in Nat, n < MaxEmit, Brings(seq, e, n)
    PROVE  Brings(Append(seq, Event(e, n + 1)), e, n + 1)
<1>0. PICK x : x = Event(e, n + 1)
  OBVIOUS
<1>1. /\ DOMAIN seq = 1..Len(seq) /\ Len(seq) \in Nat
      /\ DOMAIN Append(seq, x) = 1..(Len(seq) + 1)
      /\ \A i \in DOMAIN seq : Append(seq, x)[i] = seq[i]
      /\ Append(seq, x)[Len(seq) + 1] = x
  <2>1. seq \in Seq(S \cup {x}) /\ x \in S \cup {x}
    BY SeqMonotonic
  <2> QED
    BY <2>1, AppendProperties, LenProperties
<1>2. PICK t, last : t = Append(seq, x) /\ last = Len(seq) + 1
  OBVIOUS
<1>3. \A k \in 1..(n + 1) : \E i \in DOMAIN t : t[i] = Event(e, k)
  <2>1. \A k \in 1..n : \E i \in DOMAIN t : t[i] = Event(e, k)
    BY <1>1, <1>2 DEF Brings
  <2>2. last \in DOMAIN t /\ t[last] = Event(e, n + 1)
    BY <1>0, <1>1, <1>2
  <2> QED
    BY <2>1, <2>2
<1>4. ASSUME NEW i \in DOMAIN t, NEW k \in 1..MaxEmit, t[i] = Event(e, k)
      PROVE  \/ i \in DOMAIN seq /\ seq[i] = Event(e, k) /\ k <= n /\ i < last
             \/ i = last /\ k = n + 1
  <2>1. CASE i = last
    BY <1>0, <1>1, <1>2, <1>4, <2>1, EventsDiffer
  <2>2. CASE i # last
    <3>1. i \in DOMAIN seq /\ seq[i] = Event(e, k) /\ i < last
      BY <1>1, <1>2, <1>4, <2>2
    <3> QED
      BY <3>1 DEF Brings
  <2> QED
    BY <2>1, <2>2
<1>5. ASSUME NEW i \in DOMAIN t, NEW j \in DOMAIN t, NEW k \in 1..MaxEmit, NEW l \in 1..MaxEmit,
             t[i] = Event(e, k), t[j] = Event(e, l)
      PROVE  k <= n + 1 /\ (i < j => k < l)
  <2>1. \/ i \in DOMAIN seq /\ seq[i] = Event(e, k) /\ k <= n /\ i < last
        \/ i = last /\ k = n + 1
    BY <1>4, <1>5
  <2>2. \/ j \in DOMAIN seq /\ seq[j] = Event(e, l) /\ l <= n /\ j < last
        \/ j = last /\ l = n + 1
    BY <1>4, <1>5
  <2>3. CASE i \in DOMAIN seq /\ j \in DOMAIN seq /\ seq[i] = Event(e, k) /\ seq[j] = Event(e, l) /\ k <= n
    BY <2>3 DEF Brings
  <2>4. CASE i = last /\ k = n + 1
    BY <1>1, <1>2, <2>2, <2>4
  <2>5. CASE j = last /\ l = n + 1
    BY <1>1, <1>2, <2>1, <2>5
  <2> QED
    BY <2>1, <2>2, <2>3, <2>4, <2>5
<1> QED
  BY <1>0, <1>2, <1>3, <1>5 DEF Brings

-----------------------------------------------------------------------------
(* The stream is whole                                                     *)

\* Of a run that is streamed: where the crew, the run and the relay stand
\* together, and when nothing is left on the way.
InStep ==
    /\ crew = "idle" => ready = <<>> /\ queue = <<>> /\ \A e \in Emitters : ~holding[e] /\ emitted[e] = 0
    /\ crew = "working" => run = "executing" /\ \A i \in DOMAIN ready : ready[i] # KickoffOver
    /\ crew \in {"done", "raised"} => \A e \in Emitters : ~holding[e]
    /\ crew \in {"done", "raised"} /\ run # "executing" => ready = <<>>
    /\ crew \in {"done", "raised"} /\ run = "executing" =>
          /\ ready # <<>> /\ ready[Len(ready)] = KickoffOver
          /\ \A i \in DOMAIN ready : ready[i] = KickoffOver => i = Len(ready)
    /\ run \in {"none", "created"} => crew = "idle"
    /\ run \in {"executing", "resuming", "closing", "failing"} => crew # "idle"
    /\ run \notin {"cancelling", "cancelled", "leaving", "left"}
    /\ relay \in {"new", "opened"} => run = "none"
    /\ relay \in {"draining", "told", "ended"} => run \in {"returned", "raised"}
    /\ relay \in {"told", "ended"} => queue = <<>>
    /\ relay = "told" => run = "returned"
    /\ relay = "ended" => frames[Len(frames)] = IF run = "returned" THEN Done ELSE Error

StreamInv == RelayInv /\ (Streamed => InStep) /\ NothingIsLostOnTheWay

LEMMA StreamInvInit == StreamInit => StreamInv
<1> SUFFICES ASSUME StreamInit PROVE StreamInv
  OBVIOUS
<1>1. RelayInv
  BY RelayInvInit
<1>2. Streamed => InStep
  BY DEF StreamInit, Streamed, InStep
<1>3. ASSUME NEW e \in Emitters
      PROVE  Brings(InFlight, e, HandedOver(e))
  <2>1. InFlight = <<>> /\ HandedOver(e) = 0
    BY DEF StreamInit, InFlight, HandedOver
  <2>2. Brings(<<>>, e, 0)
    BY DEF Brings
  <2> QED
    BY <2>1, <2>2
<1> QED
  BY <1>1, <1>2, <1>3 DEF StreamInv, NothingIsLostOnTheWay

LEMMA Steady == StreamNext => Streamed' = Streamed
  BY DEF StreamNext, RunSteps, ThreadSteps, RelaySteps, StartRun, Dispatch, Reply, Fail, CloseRow, CrewEnds,
     Record, HandOver, Open, Begin, Forward, Notice, Conclude, Finish, Cancel, CancelClosing, Leave, RelayStep,
     relayVars, Streamed

LEMMA InStepNext ==
    ASSUME RelayInv, Streamed, InStep, StreamNext
    PROVE  InStep'
<1>0. RelayTypeOK
  BY DEF RelayInv
<1>1. ASSUME NEW e \in Emitters, Record(e)
      PROVE  InStep'
  <2>1. UNCHANGED <<relayVars, ready, crew, run, stored>> /\ crew = "working"
    BY <1>1 DEF Record
  <2> QED
    BY <2>1 DEF InStep, relayVars
<1>2. ASSUME NEW e \in Emitters, HandOver(e)
      PROVE  InStep'
  <2>1. /\ UNCHANGED <<relayVars, crew, emitted, runVars>> /\ ready' = Append(ready, Event(e, emitted[e]))
        /\ crew = "working"
    BY <1>0, <1>2 DEF HandOver, InStep, RelayTypeOK
  <2>2. ready \in Seq(Waiting) /\ Event(e, emitted[e]) \in RunEvents
    BY <1>0, <1>2, WaitingTypes DEF RelayInv, RelayTypeOK, HandOver, RunEvents, Waiting
  <2>3. Event(e, emitted[e]) # KickoffOver /\ Event(e, emitted[e]) \in Waiting
    BY <2>2, WaitingTypes
  <2>4. \A i \in DOMAIN ready' : ready'[i] # KickoffOver
    <3>1. \A i \in DOMAIN ready : ready[i] # KickoffOver
      BY <2>1 DEF InStep
    <3>2. ready' \in Seq(Waiting) /\ Len(ready') = Len(ready) + 1 /\ ready'[Len(ready) + 1] = Event(e, emitted[e])
      BY <2>1, <2>2, <2>3, AppendProperties
    <3>3. \A i \in 1..Len(ready) : ready'[i] = ready[i]
      BY <2>1, <2>2, <2>3, AppendProperties
    <3>4. DOMAIN ready = 1..Len(ready) /\ DOMAIN ready' = 1..Len(ready') /\ Len(ready) \in Nat
      BY <2>2, <3>2, LenProperties
    <3> QED
      BY <2>3, <3>1, <3>2, <3>3, <3>4
  <2> QED
    BY <2>1, <2>4 DEF InStep, relayVars, runVars
<1>3. CASE CrewEnds
  <2>1. /\ UNCHANGED <<relayVars, emitted, holding, runVars>> /\ ready' = Append(ready, KickoffOver)
        /\ crew = "working" /\ run = "executing" /\ crew' \in {"done", "raised"}
        /\ \A e \in Emitters : ~holding[e]
        /\ \A i \in DOMAIN ready : ready[i] # KickoffOver
    BY <1>3 DEF CrewEnds, InStep
  <2>2. ready \in Seq(Waiting) /\ KickoffOver \in Waiting
    BY <1>0, WaitingTypes DEF RelayTypeOK, Waiting
  <2>3. /\ ready' \in Seq(Waiting) /\ Len(ready') = Len(ready) + 1 /\ ready'[Len(ready) + 1] = KickoffOver
        /\ \A i \in 1..Len(ready) : ready'[i] = ready[i]
    BY <2>1, <2>2, AppendProperties
  <2>4. DOMAIN ready = 1..Len(ready) /\ DOMAIN ready' = 1..Len(ready') /\ Len(ready) \in Nat /\ ready' # <<>>
    BY <2>2, <2>3, LenProperties, EmptySeq
  <2>5. ready'[Len(ready')] = KickoffOver /\ \A i \in DOMAIN ready' : ready'[i] = KickoffOver => i = Len(ready')
    BY <2>1, <2>3, <2>4
  <2> QED
    BY <2>1, <2>4, <2>5 DEF InStep, relayVars, runVars
<1>4. CASE StartRun
  <2>1. /\ run = "created" /\ UNCHANGED <<relayVars, ready, emitted, holding, stored>> /\ crew = "idle"
        /\ \/ run' \in {"raised", "returned"} /\ crew' = crew
           \/ run' = "executing" /\ crew' = "working"
    BY <1>4 DEF StartRun, InStep
  <2>2. ready' = <<>> /\ DOMAIN ready' = {}
    BY <2>1 DEF InStep
  <2> QED
    BY <2>1, <2>2 DEF InStep, relayVars
<1>5. CASE Dispatch
  <2>1. /\ ready # <<>> /\ ready' = Tail(ready) /\ UNCHANGED <<relay, frames, crewVars, events, stored>>
        /\ crew # "idle" /\ run = "executing"
    BY <1>0, <1>5 DEF Dispatch, InStep, RelayTypeOK
  <2>2. ready \in Seq(Waiting) /\ queue \in Seq(RunEvents)
    <3>1. ready \in Seq(RunEvents \cup {KickoffOver}) /\ RunEvents \cup {KickoffOver} \subseteq Waiting
      BY <1>0, WaitingTypes DEF RelayTypeOK
    <3> QED
      BY <1>0, <3>1, SeqMonotonic DEF RelayTypeOK
  <2>3. /\ Tail(ready) \in Seq(Waiting) /\ Len(Tail(ready)) = Len(ready) - 1
        /\ \A i \in 1..Len(Tail(ready)) : Tail(ready)[i] = ready[i + 1]
        /\ Head(ready) = ready[1] /\ Len(ready) \in Nat \ {0} /\ DOMAIN ready = 1..Len(ready)
        /\ DOMAIN Tail(ready) = 1..Len(Tail(ready))
        /\ Tail(ready) = <<>> <=> Len(ready) = 1
    <3>1. /\ Head(ready) \in Waiting /\ Tail(ready) \in Seq(Waiting) /\ Len(Tail(ready)) = Len(ready) - 1
          /\ \A i \in 1..Len(Tail(ready)) : Tail(ready)[i] = ready[i + 1]
      BY <2>1, <2>2, HeadTailProperties
    <3>2. Len(ready) \in Nat \ {0} /\ DOMAIN ready = 1..Len(ready) /\ Head(ready) = ready[1]
      BY <2>1, <2>2, LenProperties, EmptySeq
    <3>3. DOMAIN Tail(ready) = 1..Len(Tail(ready)) /\ (Tail(ready) = <<>> <=> Len(Tail(ready)) = 0)
      BY <3>1, LenProperties, EmptySeq
    <3> QED
      BY <3>1, <3>2, <3>3
  <2>4. CASE Head(ready) = KickoffOver
    <3>1. run' = "resuming" /\ queue' = queue
      BY <1>5, <2>1, <2>4 DEF Dispatch
    <3>2. crew \in {"done", "raised"}
      <4>1. 1 \in DOMAIN ready /\ ready[1] = KickoffOver
        BY <2>3, <2>4
      <4>2. crew \in {"idle", "working", "done", "raised"}
        BY <1>0 DEF RelayTypeOK
      <4> QED
        BY <2>1, <4>1, <4>2 DEF InStep
    <3>3. Len(ready) = 1
      BY <2>1, <2>3, <2>4, <3>2 DEF InStep
    <3> QED
      BY <2>1, <2>3, <3>1, <3>2, <3>3 DEF InStep, crewVars
  <2>5. CASE Head(ready) # KickoffOver
    <3>1. run' = run /\ queue' = Append(queue, Head(ready))
      BY <1>5, <2>5 DEF Dispatch
    <3>2. CASE crew = "working"
      <4>1. \A i \in DOMAIN ready' : ready'[i] # KickoffOver
        BY <2>1, <2>3, <3>2 DEF InStep
      <4> QED
        BY <2>1, <3>1, <3>2, <4>1 DEF InStep, crewVars
    <3>3. CASE crew \in {"done", "raised"}
      <4>1. Len(ready) > 1 /\ ready[Len(ready)] = KickoffOver
        BY <2>1, <2>3, <2>5, <3>3 DEF InStep
      <4>2. /\ ready' # <<>> /\ ready'[Len(ready')] = KickoffOver
            /\ \A i \in DOMAIN ready' : ready'[i] = KickoffOver => i = Len(ready')
        BY <2>1, <2>3, <3>3, <4>1 DEF InStep
      <4> QED
        BY <2>1, <3>1, <3>3, <4>2 DEF InStep, crewVars
    <3> QED
      BY <1>0, <2>1, <3>2, <3>3 DEF RelayTypeOK
  <2> QED
    BY <2>4, <2>5
<1>6. CASE Reply \/ Fail \/ CloseRow
  <2>1. /\ UNCHANGED <<relayVars, ready, crewVars>>
        /\ run \in {"resuming", "closing", "failing", "cancelling", "leaving"}
        /\ run' \in {"closing", "failing", "returned", "raised", "cancelled", "left"}
        /\ run' = "cancelled" => run = "cancelling"
        /\ run' = "left" => run = "leaving"
    BY <1>6 DEF Reply, Fail, CloseRow
  <2> QED
    BY <2>1 DEF InStep, relayVars, crewVars
<1>7. CASE Open
  BY <1>7 DEF Open, RelayStep, InStep, crewVars
<1>8. CASE Begin
  BY <1>8 DEF Begin, RelayStep, InStep, crewVars
<1>9. CASE Forward
  <2>1. relay' = relay /\ relay \in {"relaying", "draining"} /\ UNCHANGED <<ready, crewVars, events, stored, run>>
    BY <1>9 DEF Forward, RelayStep
  <2>2. queue # <<>>
    BY <1>9 DEF Forward
  <2> QED
    BY <2>1, <2>2 DEF InStep, crewVars
<1>10. CASE Notice \/ Leave
  BY <1>10 DEF Notice, Leave, RelayStep, InStep, crewVars
<1>11. CASE Conclude \/ Finish
  <2>1. /\ UNCHANGED <<queue, run, ready, crewVars>> /\ queue = <<>>
        /\ \/ relay' = "told" /\ run = "returned"
           \/ relay' = "ended" /\ run = "raised" /\ frames' = Append(frames, Error)
           \/ relay' = "ended" /\ run = "returned" /\ frames' = Append(frames, Done)
    BY <1>11 DEF Conclude, Finish, RelayStep, Yields, InStep
  <2>2. relay' = "ended" => frames'[Len(frames')] = IF run' = "returned" THEN Done ELSE Error
    BY <1>0, <2>1 DEF RelayTypeOK
  <2> QED
    BY <2>1, <2>2 DEF InStep, crewVars
<1>12. CASE Cancel \/ CancelClosing
  BY <1>12 DEF Cancel, CancelClosing
<1> QED
  BY <1>1, <1>2, <1>3, <1>4, <1>5, <1>6, <1>7, <1>8, <1>9, <1>10, <1>11, <1>12
     DEF StreamNext, RunSteps, ThreadSteps, RelaySteps

\* What each step does to the frames on their way.
LEMMA FlightSteps ==
    ASSUME RelayInv, Streamed, InStep
    PROVE  /\ InFlight \in Seq(Waiting) /\ frames \in Seq(Waiting)
           /\ \A d \in Emitters : HandOver(d) => /\ InFlight' = Append(InFlight, Event(d, emitted[d]))
                                                 /\ Event(d, emitted[d]) \in Waiting
           /\ CrewEnds => InFlight' = Append(InFlight, KickoffOver)
           /\ Dispatch => \/ run' = run /\ InFlight' = InFlight
                          \/ /\ run' = "resuming" /\ run = "executing" /\ crew \in {"done", "raised"}
                             /\ InFlight' \in Seq(Waiting) /\ InFlight = Append(InFlight', KickoffOver)
           /\ Forward => InFlight' = InFlight
           /\ Open \/ Conclude \/ Finish => InFlight = frames /\ InFlight' = frames'
           /\ UNCHANGED <<frames, queue, ready>> => InFlight' = InFlight
<1>1. /\ frames \in Seq(Waiting) /\ queue \in Seq(Waiting) /\ ready \in Seq(Waiting)
      /\ emitted \in [Emitters -> 0..MaxEmit] /\ holding \in [Emitters -> BOOLEAN]
      /\ crew \in {"idle", "working", "done", "raised"}
      /\ MaxEmit \in Nat
  <2>1. RunEvents \cup {KickoffOver} \subseteq Waiting /\ RunEvents \subseteq Waiting /\ Contract!Frames \subseteq Waiting
    BY WaitingTypes
  <2>2. frames \in Seq(Contract!Frames) /\ queue \in Seq(RunEvents) /\ ready \in Seq(RunEvents \cup {KickoffOver})
    BY DEF RelayInv, RelayTypeOK
  <2>3. frames \in Seq(Waiting) /\ queue \in Seq(Waiting) /\ ready \in Seq(Waiting)
    BY <2>1, <2>2, SeqMonotonic
  <2> QED
    BY <2>3, RelayAssumption DEF RelayInv, RelayTypeOK, RelayAssumption
<1>2. InFlight \in Seq(Waiting)
  BY <1>1, ConcatProperties DEF InFlight
<1>3. ASSUME NEW d \in Emitters, HandOver(d)
      PROVE  InFlight' = Append(InFlight, Event(d, emitted[d])) /\ Event(d, emitted[d]) \in Waiting
  <2>1. UNCHANGED <<frames, queue, emitted>> /\ holding[d] /\ ready' = Append(ready, Event(d, emitted[d]))
    BY <1>3 DEF HandOver, relayVars
  <2>2. emitted[d] \in 1..MaxEmit
    BY <1>1, <2>1 DEF RelayInv
  <2>3. Event(d, emitted[d]) \in Waiting
    BY <2>2, WaitingTypes DEF RunEvents
  <2> QED
    BY <1>1, <2>1, <2>3, AppendToThree DEF InFlight
<1>4. ASSUME CrewEnds
      PROVE  InFlight' = Append(InFlight, KickoffOver)
  <2>1. UNCHANGED <<frames, queue>> /\ ready' = Append(ready, KickoffOver)
    BY <1>4 DEF CrewEnds, relayVars
  <2> QED
    BY <1>1, <2>1, WaitingTypes, AppendToThree DEF InFlight
<1>5. ASSUME Dispatch
      PROVE  \/ run' = run /\ InFlight' = InFlight
             \/ /\ run' = "resuming" /\ run = "executing" /\ crew \in {"done", "raised"}
                /\ InFlight' \in Seq(Waiting) /\ InFlight = Append(InFlight', KickoffOver)
  <2>1. /\ ready # <<>> /\ ready' = Tail(ready) /\ frames' = frames
        /\ run = "executing" /\ crew # "idle"
    BY <1>1, <1>5 DEF Dispatch, InStep
  <2>2. CASE Head(ready) = KickoffOver
    <3>1. queue' = queue /\ run' = "resuming"
      BY <1>5, <2>1, <2>2 DEF Dispatch
    <3>2. Len(ready) \in Nat \ {0} /\ DOMAIN ready = 1..Len(ready) /\ ready[1] = KickoffOver
      BY <1>1, <2>1, <2>2, LenProperties, EmptySeq
    <3>3. Len(ready) = 1 /\ crew \in {"done", "raised"}
      <4>1. 1 \in DOMAIN ready
        BY <3>2
      <4>2. crew \in {"done", "raised"}
        BY <1>1, <2>1, <3>2, <4>1 DEF InStep
      <4> QED
        BY <2>1, <3>2, <4>1, <4>2 DEF InStep
    <3>4. Tail(ready) = <<>> /\ ready = <<KickoffOver>>
      <4>1. Tail(ready) \in Seq(Waiting) /\ Len(Tail(ready)) = 0
        BY <1>1, <2>1, <3>3, HeadTailProperties
      <4>2. <<KickoffOver>> \in Seq(Waiting) /\ Len(<<KickoffOver>>) = 1 /\ <<KickoffOver>>[1] = KickoffOver
        BY WaitingTypes
      <4>3. ready = <<KickoffOver>>
        BY <1>1, <3>2, <3>3, <4>2, SeqEqual
      <4> QED
        BY <4>1, <4>3, EmptySeq
    <3>5. frames \o queue \in Seq(Waiting)
      BY <1>1, ConcatProperties
    <3>6. InFlight' = frames \o queue /\ InFlight = Append(frames \o queue, KickoffOver)
      BY <2>1, <3>1, <3>4, <3>5, WaitingTypes, ConcatEmptySeq, AppendIsConcat DEF InFlight
    <3> QED
      BY <2>1, <3>1, <3>3, <3>5, <3>6
  <2>3. CASE Head(ready) # KickoffOver
    <3>1. queue' = Append(queue, Head(ready)) /\ run' = run
      BY <1>5, <2>3 DEF Dispatch
    <3>2. queue' \o ready' = queue \o ready
      BY <1>1, <2>1, <3>1, MovesUp
    <3>3. Head(ready) \in Waiting /\ Tail(ready) \in Seq(Waiting)
      BY <1>1, <2>1, HeadTailProperties
    <3>4. queue' \in Seq(Waiting) /\ ready' \in Seq(Waiting)
      BY <1>1, <2>1, <3>1, <3>3, AppendProperties
    <3>5. frames \o queue' \o ready' = frames \o (queue' \o ready')
      <4>1. frames \in Seq(Waiting)
        BY <1>1
      <4> QED
        BY <3>4, <4>1, ConcatAssociative
    <3>6. frames \o queue \o ready = frames \o (queue \o ready)
      BY <1>1, ConcatAssociative
    <3> QED
      BY <2>1, <3>1, <3>2, <3>5, <3>6 DEF InFlight
  <2> QED
    BY <2>2, <2>3
<1>6. ASSUME Forward
      PROVE  InFlight' = InFlight
  <2>1. queue # <<>> /\ queue' = Tail(queue) /\ frames' = Append(frames, Head(queue)) /\ ready' = ready
    BY <1>6 DEF Forward, RelayStep, Yields
  <2>2. frames' \o queue' = frames \o queue
    BY <1>1, <2>1, MovesUp
  <2> QED
    BY <2>1, <2>2 DEF InFlight
<1>7. ASSUME Open \/ Conclude \/ Finish
      PROVE  InFlight = frames /\ InFlight' = frames'
  <2>1. queue = <<>> /\ ready = <<>> /\ UNCHANGED <<queue, ready>>
    BY <1>1, <1>7 DEF Open, Conclude, Finish, RelayStep, InStep
  <2>2. PICK x \in Waiting : frames' = Append(frames, x)
    BY <1>7, FrameTypes, WaitingTypes DEF Open, Conclude, Finish, Yields
  <2>3. frames' \in Seq(Waiting)
    BY <1>1, <2>2, AppendProperties
  <2>4. frames \o <<>> \o <<>> = frames /\ frames' \o <<>> \o <<>> = frames'
    BY <1>1, <2>3, ConcatEmptySeq
  <2> QED
    BY <2>1, <2>4 DEF InFlight
<1>8. UNCHANGED <<frames, queue, ready>> => InFlight' = InFlight
  BY DEF InFlight
<1> QED
  BY <1>1, <1>2, <1>3, <1>4, <1>5, <1>6, <1>7, <1>8

LEMMA NothingIsLostNext ==
    ASSUME RelayInv, Streamed, InStep, StreamNext, NEW e \in Emitters, Brings(InFlight, e, HandedOver(e))
    PROVE  Brings(InFlight, e, HandedOver(e))'
<1> SUFFICES Brings(InFlight', e, HandedOver(e)')
  BY DEF Brings
<1>0. /\ emitted \in [Emitters -> 0..MaxEmit] /\ holding \in [Emitters -> BOOLEAN]
      /\ HandedOver(e) \in Int /\ HandedOver(e) <= MaxEmit /\ MaxEmit \in Nat
      /\ InFlight \in Seq(Waiting)
  BY RelayAssumption, FlightSteps DEF RelayInv, RelayTypeOK, RelayAssumption, HandedOver
<1>1. PICK n, way : n = HandedOver(e) /\ way = InFlight
  OBVIOUS
<1>2. n \in Int /\ n <= MaxEmit /\ way \in Seq(Waiting) /\ Brings(way, e, n)
  BY <1>0, <1>1
<1>3. ASSUME UNCHANGED <<emitted, holding>>
      PROVE  HandedOver(e)' = n
  BY <1>1, <1>3 DEF HandedOver
<1>4. ASSUME NEW d \in Emitters, Record(d)
      PROVE  Brings(InFlight', e, HandedOver(e)')
  <2>1. UNCHANGED <<frames, queue, ready>> /\ ~holding[d]
        /\ emitted' = [emitted EXCEPT ![d] = @ + 1] /\ holding' = [holding EXCEPT ![d] = TRUE]
    BY <1>4 DEF Record, relayVars
  <2>2. HandedOver(e)' = n
    <3>1. CASE e = d
      BY <1>0, <1>1, <2>1, <3>1 DEF HandedOver
    <3>2. CASE e # d
      BY <1>0, <1>1, <2>1, <3>2 DEF HandedOver
    <3> QED
      BY <3>1, <3>2
  <2> QED
    BY <1>1, <1>2, <2>1, <2>2, FlightSteps
<1>5. ASSUME NEW d \in Emitters, HandOver(d)
      PROVE  Brings(InFlight', e, HandedOver(e)')
  <2>1. holding[d] /\ emitted' = emitted /\ holding' = [holding EXCEPT ![d] = FALSE]
    BY <1>5 DEF HandOver
  <2>2. InFlight' = Append(way, Event(d, emitted[d]))
    BY <1>1, <1>5, FlightSteps
  <2>3. emitted[d] \in 1..MaxEmit
    BY <1>0, <2>1 DEF RelayInv
  <2>4. CASE e = d
    <3>1. n = emitted[e] - 1 /\ HandedOver(e)' = emitted[e]
      BY <1>0, <1>1, <2>1, <2>4 DEF HandedOver
    <3>2. n \in Nat /\ n < MaxEmit /\ n + 1 = emitted[e]
      BY <2>3, <2>4, <3>1, <1>0
    <3>3. Brings(Append(way, Event(e, n + 1)), e, n + 1)
      BY <1>2, <3>2, BringsOneMore
    <3> QED
      BY <2>2, <2>4, <3>1, <3>2, <3>3
  <2>5. CASE e # d
    <3>1. HandedOver(e)' = n
      BY <1>0, <1>1, <2>1, <2>5 DEF HandedOver
    <3>2. \A k \in 1..MaxEmit : Event(d, emitted[d]) # Event(e, k)
      BY <2>5, EventsDiffer
    <3>3. Brings(Append(way, Event(d, emitted[d])), e, n)
      BY <1>2, <3>2, BringsTheSame
    <3> QED
      BY <2>2, <3>1, <3>3
  <2> QED
    BY <2>4, <2>5
<1>6. CASE CrewEnds
  <2>1. UNCHANGED <<emitted, holding>> /\ InFlight' = Append(way, KickoffOver)
    BY <1>1, <1>6, FlightSteps DEF CrewEnds
  <2>2. Brings(Append(way, KickoffOver), e, n)
    BY <1>2, OthersAreNoEvents, BringsTheSame DEF NoEvent
  <2> QED
    BY <1>3, <2>1, <2>2
<1>7. CASE StartRun \/ Reply \/ Fail \/ CloseRow \/ Cancel \/ CancelClosing \/ Begin \/ Notice \/ Leave \/ Forward
  <2>1. UNCHANGED <<emitted, holding>> /\ (UNCHANGED <<frames, queue, ready>> \/ Forward)
    BY <1>7 DEF StartRun, Reply, Fail, CloseRow, Cancel, CancelClosing, Begin, Notice, Leave, Forward, RelayStep,
              relayVars, crewVars
  <2>2. InFlight' = way
    BY <1>1, <2>1, FlightSteps
  <2> QED
    BY <1>2, <1>3, <2>1, <2>2
<1>8. CASE Dispatch
  <2>1. UNCHANGED <<emitted, holding>>
    BY <1>8 DEF Dispatch, crewVars
  <2>2. CASE InFlight' = InFlight
    BY <1>1, <1>2, <1>3, <2>1, <2>2
  <2>3. CASE InFlight' \in Seq(Waiting) /\ InFlight = Append(InFlight', KickoffOver)
    <3>1. PICK rest \in Seq(Waiting) : rest = InFlight' /\ way = Append(rest, KickoffOver)
      BY <1>1, <2>3
    <3>2. Brings(rest, e, n)
      BY <1>2, <3>1, OthersAreNoEvents, BringsTheSame DEF NoEvent
    <3> QED
      BY <1>3, <2>1, <3>1, <3>2
  <2> QED
    BY <1>8, <2>2, <2>3, FlightSteps
<1>9. CASE Open \/ Conclude \/ Finish
  <2>1. UNCHANGED <<emitted, holding>> /\ way = frames /\ InFlight' = frames'
    BY <1>1, <1>9, FlightSteps DEF Open, Conclude, Finish, RelayStep, crewVars
  <2>2. PICK x : frames' = Append(frames, x) /\ NoEvent(x)
    BY <1>9, OthersAreNoEvents DEF Open, Conclude, Finish, Yields
  <2>3. Brings(Append(way, x), e, n)
    BY <1>2, <2>2, BringsTheSame DEF NoEvent
  <2> QED
    BY <1>3, <2>1, <2>2, <2>3
<1> QED
  BY <1>4, <1>5, <1>6, <1>7, <1>8, <1>9 DEF StreamNext, RunSteps, ThreadSteps, RelaySteps

LEMMA StreamInvNext == StreamInv /\ [StreamNext]_streamVars => StreamInv'
<1> SUFFICES ASSUME StreamInv, [StreamNext]_streamVars PROVE StreamInv'
  OBVIOUS
<1>1. RelayInv'
  BY RelayInvNext DEF StreamInv
<1>2. CASE StreamNext
  <2>1. Streamed' = Streamed
    BY <1>2, Steady
  <2>2. Streamed' => InStep'
    BY <1>2, <2>1, InStepNext DEF StreamInv
  <2>3. NothingIsLostOnTheWay'
    BY <1>2, <2>1, NothingIsLostNext DEF StreamInv, NothingIsLostOnTheWay
  <2> QED
    BY <1>1, <2>2, <2>3 DEF StreamInv
<1>3. CASE UNCHANGED streamVars
  <2>1. (Streamed => InStep)'
    BY <1>3 DEF StreamInv, Streamed, InStep, streamVars, relayVars, crewVars, runVars
  <2>2. NothingIsLostOnTheWay'
    <3>1. relay' = relay /\ InFlight' = InFlight
      BY <1>3 DEF streamVars, relayVars, InFlight
    <3>2. \A e \in Emitters : HandedOver(e)' = HandedOver(e)
      BY <1>3 DEF streamVars, crewVars, HandedOver
    <3>3. ASSUME NEW e \in Emitters, Brings(InFlight, e, HandedOver(e)) PROVE Brings(InFlight, e, HandedOver(e))'
      BY <3>1, <3>2, <3>3 DEF Brings
    <3>4. Streamed' => Streamed
      BY <3>1 DEF Streamed
    <3>. QED  BY <3>3, <3>4 DEF StreamInv, NothingIsLostOnTheWay
  <2> QED
    BY <1>1, <2>1, <2>2 DEF StreamInv
<1> QED
  BY <1>2, <1>3

LEMMA StreamInvSuffices == StreamInv => StreamIsWhole
<1> SUFFICES ASSUME StreamInv, relay = "ended"
             PROVE  /\ \A e \in Emitters : Brings(frames, e, emitted[e])
                    /\ Last(frames) = IF run = "returned" THEN Done ELSE Error
    BY DEF StreamIsWhole, StreamInv, StreamIsComplete
<1>1. Streamed /\ InStep
  BY DEF StreamInv, Streamed
<1>2. Last(frames) = IF run = "returned" THEN Done ELSE Error
  BY <1>1 DEF InStep, Last
<1>3. /\ queue = <<>> /\ ready = <<>> /\ \A e \in Emitters : ~holding[e]
  BY <1>1 DEF InStep, StreamInv, RelayInv, RelayTypeOK
<1>4. InFlight = frames
  <2>1. frames \in Seq(Contract!Frames)
    BY DEF StreamInv, RelayInv, RelayTypeOK
  <2> QED
    BY <1>3, <2>1, ConcatEmptySeq DEF InFlight
<1> QED
  BY <1>1, <1>2, <1>3, <1>4 DEF StreamInv, NothingIsLostOnTheWay, HandedOver

\* On its way through callbacks, queue and relay no event is lost, doubled or
\* overtaken by a later one of its thread, and a stream that ended carried them all
\* before the frame that tells its outcome, for any number of threads and events.
THEOREM StreamIsAlwaysWhole == StreamSpec => []StreamIsWhole
  BY StreamInvInit, StreamInvNext, StreamInvSuffices, PTL DEF StreamSpec

-----------------------------------------------------------------------------
(* The record is true: what it holds of each thread, and the outcome       *)

Has(log, frame) == \E i \in DOMAIN log : log[i] = frame

\* Of the n events of thread e the log holds the first, and all until it was full.
Keeps(log, e, n) == \E m \in 0..n : Brings(log, e, m) /\ (Len(log) < MaxEvents => m = n)

LEMMA NotedFacts ==
    ASSUME NEW log \in Seq(Contract!Frames), log # <<>>, Len(log) <= MaxEvents, NEW frame \in Contract!Frames
    PROVE  /\ Noted(log, frame) \in Seq(Contract!Frames) /\ Noted(log, frame) # <<>>
           /\ Len(Noted(log, frame)) \in Nat \ {0} /\ Len(log) \in Nat \ {0}
           /\ \/ /\ Len(log) < MaxEvents /\ Noted(log, frame) = Append(log, frame)
                 /\ Len(Noted(log, frame)) = Len(log) + 1
              \/ Len(log) = MaxEvents /\ Noted(log, frame) = log
           /\ Len(Noted(log, frame)) <= MaxEvents
<1>1. Len(log) \in Nat \ {0}
  BY EmptySeq
<1>2. Append(log, frame) \in Seq(Contract!Frames) /\ Len(Append(log, frame)) = Len(log) + 1
  BY AppendProperties
<1>3. Append(log, frame) # <<>>
  BY <1>1, <1>2, EmptySeq
<1> QED
  BY <1>1, <1>2, <1>3, RelayAssumption DEF Noted, RelayAssumption

LEMMA HasAppended ==
    ASSUME NEW log \in Seq(Contract!Frames), NEW x \in Contract!Frames
    PROVE  \A f : Has(Append(log, x), f) <=> Has(log, f) \/ x = f
<1>1. /\ DOMAIN log = 1..Len(log) /\ Len(log) \in Nat
      /\ DOMAIN Append(log, x) = 1..(Len(log) + 1)
      /\ \A i \in 1..Len(log) : Append(log, x)[i] = log[i]
      /\ Append(log, x)[Len(log) + 1] = x
  BY AppendProperties, LenProperties
<1> QED
  BY <1>1 DEF Has

LEMMA KeepsOther ==
    ASSUME NEW log \in Seq(Contract!Frames), log # <<>>, Len(log) <= MaxEvents, NEW x \in Contract!Frames,
           NEW e \in Emitters, \A k \in 1..MaxEmit : x # Event(e, k), NEW n \in 0..MaxEmit, Keeps(log, e, n)
    PROVE  Keeps(Noted(log, x), e, n)
<1>1. PICK m \in 0..n : Brings(log, e, m) /\ (Len(log) < MaxEvents => m = n)
  BY DEF Keeps
<1>2. m \in Int /\ m <= MaxEmit
  BY RelayAssumption DEF RelayAssumption
<1>3. CASE Len(log) < MaxEvents /\ Noted(log, x) = Append(log, x)
  BY <1>1, <1>2, <1>3, BringsTheSame DEF Keeps
<1>4. CASE Noted(log, x) = log
  BY <1>4
<1> QED
  BY <1>3, <1>4, NotedFacts

LEMMA KeepsOneMore ==
    ASSUME NEW log \in Seq(Contract!Frames), log # <<>>, Len(log) <= MaxEvents,
           NEW e \in Emitters, NEW n \in Nat, n < MaxEmit, Event(e, n + 1) \in Contract!Frames, Keeps(log, e, n)
    PROVE  Keeps(Noted(log, Event(e, n + 1)), e, n + 1)
<1>1. PICK m \in 0..n : Brings(log, e, m) /\ (Len(log) < MaxEvents => m = n)
  BY DEF Keeps
<1>2. CASE Len(log) < MaxEvents /\ Noted(log, Event(e, n + 1)) = Append(log, Event(e, n + 1))
  <2>1. Brings(Append(log, Event(e, n + 1)), e, n + 1)
    BY <1>1, <1>2, BringsOneMore
  <2> QED
    BY <1>2, <2>1, n + 1 \in 0..(n + 1) DEF Keeps
<1>3. CASE Len(log) = MaxEvents /\ Noted(log, Event(e, n + 1)) = log
  <2>1. m \in 0..(n + 1) /\ ~(Len(log) < MaxEvents)
    BY <1>3, RelayAssumption DEF RelayAssumption
  <2> QED
    BY <1>1, <1>3, <2>1 DEF Keeps
<1> QED
  BY <1>2, <1>3, NotedFacts

Threads ==
    /\ run \in {"none", "created"} => crew = "idle" /\ events = <<>>
    /\ crew = "idle" => \A e \in Emitters : emitted[e] = 0
    /\ events # <<>> => \A e \in Emitters : Keeps(events, e, emitted[e])
    /\ stored # <<>> => \A e \in Emitters : \E m \in 0..emitted[e] : Brings(stored, e, m)

Outcome ==
    /\ run \in {"none", "created", "executing", "resuming"} => ~Has(events, Done) /\ ~Has(events, Error)
    /\ run \in {"closing", "leaving"} =>
          ~Has(events, Error) /\ (events # <<>> /\ Len(events) < MaxEvents => Has(events, Done))
    /\ run \in {"failing", "cancelling"} =>
          ~Has(events, Done) /\ (events # <<>> /\ Len(events) < MaxEvents => Has(events, Error))
    /\ run \notin {"returned", "left", "raised", "cancelled"} => stored = <<>>
    /\ stored # <<>> /\ Len(stored) < MaxEvents =>
          /\ Has(stored, Done) <=> run \in {"returned", "left"}
          /\ Has(stored, Error) <=> run \in {"raised", "cancelled"}

LEMMA ThreadsNext ==
    ASSUME RelayInv, Streamed => InStep, Threads, StreamNext
    PROVE  Threads'
<1>0. /\ events \in Seq(Contract!Frames) /\ Len(events) <= MaxEvents
      /\ emitted \in [Emitters -> 0..MaxEmit] /\ MaxEmit \in Nat
  BY RelayAssumption DEF RelayInv, RelayTypeOK, RelayAssumption
<1>1. ASSUME NEW d \in Emitters, Record(d)
      PROVE  Threads'
  <2>1. /\ emitted' = [emitted EXCEPT ![d] = @ + 1] /\ crew = "working" /\ emitted[d] < MaxEmit
        /\ UNCHANGED <<crew, run, stored>>
    BY <1>1 DEF Record
  <2>2. emitted'[d] = emitted[d] + 1 /\ \A e \in Emitters \ {d} : emitted'[e] = emitted[e]
    BY <1>0, <2>1
  <2>3. events' = Noted(events, Event(d, emitted[d] + 1))
    BY <1>1, <2>2 DEF Record
  <2>4. Event(d, emitted[d] + 1) \in Contract!Frames
    BY <1>0, <2>1, FrameTypes DEF RunEvents
  <2>5. ASSUME events' # <<>>, NEW e \in Emitters
        PROVE  Keeps(events', e, emitted'[e])
    <3>1. events # <<>>
      BY <2>3, <2>5 DEF Noted
    <3>2. Keeps(events, e, emitted[e])
      BY <3>1 DEF Threads
    <3>3. CASE e = d
      BY <1>0, <2>1, <2>2, <2>3, <2>4, <3>1, <3>2, <3>3, KeepsOneMore
    <3>4. CASE e # d
      <4>1. \A k \in 1..MaxEmit : Event(d, emitted[d] + 1) # Event(e, k)
        BY <3>4, EventsDiffer
      <4>2. emitted'[e] = emitted[e] /\ emitted[e] \in 0..MaxEmit
        BY <1>0, <2>2, <3>4
      <4> QED
        BY <1>0, <2>3, <2>4, <3>1, <3>2, <4>1, <4>2, KeepsOther
    <3> QED
      BY <3>3, <3>4
  <2>6. ASSUME stored' # <<>>, NEW e \in Emitters
        PROVE  \E m \in 0..emitted'[e] : Brings(stored', e, m)
    <3>1. PICK m \in 0..emitted[e] : Brings(stored, e, m)
      BY <2>1, <2>6 DEF Threads
    <3>2. m \in 0..emitted'[e]
      BY <1>0, <2>2
    <3> QED
      BY <2>1, <3>1, <3>2
  <2>7. run' \notin {"none", "created"}
    BY <2>1 DEF Threads
  <2> QED
    BY <2>1, <2>5, <2>6, <2>7 DEF Threads, Keeps, Brings
<1>2. ASSUME UNCHANGED <<emitted, events, stored, crew>>, run' \in {"none", "created"} => run \in {"none", "created"}
      PROVE  Threads'
  BY <1>2 DEF Threads, Keeps, Brings
<1>3. CASE CrewEnds
  <2>1. UNCHANGED <<emitted, events, stored, run>> /\ crew = "working" /\ crew' # "idle"
    BY <1>3 DEF CrewEnds, runVars
  <2> QED
    BY <2>1 DEF Threads, Keeps, Brings
<1>4. CASE StartRun
  <2>1. /\ UNCHANGED <<emitted, stored>> /\ crew = "idle" /\ events = <<>>
        /\ run' \in {"raised", "returned", "executing"}
        /\ \/ crew' = crew /\ events' = events
           \/ crew' = "working" /\ events' \in {<<Start>>, <<>>}
    BY <1>4 DEF StartRun, Threads
  <2>2. ASSUME events' # <<>>, NEW e \in Emitters
        PROVE  Keeps(events', e, emitted'[e])
    <3>1. events' = <<Start>> /\ emitted'[e] = 0
      BY <2>1, <2>2 DEF Threads
    <3>2. Append(<<>>, Start) = <<Start>> /\ <<>> \in Seq(Contract!Frames)
      OBVIOUS
    <3>3. Brings(<<>>, e, 0)
      BY DEF Brings
    <3>4. Brings(<<Start>>, e, 0)
      <4>1. \A k \in 1..MaxEmit : Start # Event(e, k)
        BY OthersAreNoEvents DEF NoEvent
      <4>2. 0 \in Int /\ 0 <= MaxEmit
        BY <1>0
      <4>3. Brings(Append(<<>>, Start), e, 0)
        BY <3>2, <3>3, <4>1, <4>2, BringsTheSame
      <4> QED
        BY <3>2, <4>3
    <3> QED
      BY <3>1, <3>4 DEF Keeps
  <2> QED
    BY <2>1, <2>2 DEF Threads, Keeps, Brings
<1>5. CASE Reply \/ Fail \/ Cancel
  <2>1. /\ UNCHANGED <<emitted, stored, crew>> /\ run' \notin {"none", "created"} /\ run \notin {"none", "created"}
        /\ \/ events' = Noted(Noted(events, Token), Done)
           \/ events' = Noted(events, Error)
    BY <1>5 DEF Reply, Fail, Cancel, crewVars
  <2>2. ASSUME events' # <<>>, NEW e \in Emitters
        PROVE  Keeps(events', e, emitted'[e])
    <3>1. events # <<>>
      BY <2>1, <2>2 DEF Noted
    <3>2. Keeps(events, e, emitted[e]) /\ emitted[e] \in 0..MaxEmit
      BY <1>0, <3>1 DEF Threads
    <3>3. ASSUME NEW log \in Seq(Contract!Frames), log # <<>>, Len(log) <= MaxEvents, Keeps(log, e, emitted[e]),
                 NEW x \in {Token, Done, Error}
          PROVE  /\ Keeps(Noted(log, x), e, emitted[e]) /\ Noted(log, x) \in Seq(Contract!Frames)
                 /\ Noted(log, x) # <<>> /\ Len(Noted(log, x)) <= MaxEvents
      <4>1. x \in Contract!Frames /\ \A k \in 1..MaxEmit : x # Event(e, k)
        BY FrameTypes, OthersAreNoEvents DEF NoEvent
      <4> QED
        BY <3>2, <3>3, <4>1, KeepsOther, NotedFacts
    <3>4. Keeps(Noted(events, Error), e, emitted[e])
      BY <1>0, <3>1, <3>2, <3>3
    <3>5. Keeps(Noted(Noted(events, Token), Done), e, emitted[e])
      <4>1. /\ Keeps(Noted(events, Token), e, emitted[e]) /\ Noted(events, Token) \in Seq(Contract!Frames)
            /\ Noted(events, Token) # <<>> /\ Len(Noted(events, Token)) <= MaxEvents
        BY <1>0, <3>1, <3>2, <3>3
      <4> QED
        BY <4>1, <3>3
    <3> QED
      BY <2>1, <3>4, <3>5
  <2> QED
    BY <2>1, <2>2 DEF Threads, Keeps, Brings
<1>6. CASE CloseRow
  <2>1. UNCHANGED <<emitted, events, crew>> /\ stored' = events /\ run' \notin {"none", "created"}
    BY <1>6 DEF CloseRow, crewVars
  <2>2. ASSUME stored' # <<>>, NEW e \in Emitters
        PROVE  \E m \in 0..emitted'[e] : Brings(stored', e, m)
    BY <2>1, <2>2 DEF Threads, Keeps
  <2>3. ASSUME events' # <<>>, NEW e \in Emitters
        PROVE  Keeps(events', e, emitted'[e])
    BY <2>1, <2>3 DEF Threads
  <2> QED
    BY <2>1, <2>2, <2>3 DEF Threads, Keeps, Brings
<1>7. CASE Begin
  <2>1. run = "none" /\ UNCHANGED <<emitted, events, stored, crew>>
    BY <1>7 DEF Begin, RelayStep, InStep, Streamed, crewVars
  <2> QED
    BY <1>2, <2>1
<1>8. CASE Dispatch \/ Open \/ Forward \/ Notice \/ Conclude \/ Finish \/ Leave \/ \E e \in Emitters : HandOver(e)
  <2>1. UNCHANGED <<emitted, events, stored, crew>> /\ (run' = run \/ (run = "executing" /\ run' = "resuming"))
    <3>1. CASE Dispatch
      BY <3>1 DEF Dispatch, crewVars
    <3>2. CASE Open \/ Forward \/ Notice \/ Conclude \/ Finish \/ Leave
      BY <3>2 DEF Open, Forward, Notice, Conclude, Finish, Leave, RelayStep, crewVars
    <3>3. CASE \E e \in Emitters : HandOver(e)
      BY <3>3 DEF HandOver, runVars
    <3> QED
      BY <1>8, <3>1, <3>2, <3>3
  <2> QED
    BY <1>2, <2>1
<1>9. CASE CancelClosing
  <2>1. UNCHANGED <<emitted, events, stored, crew>> /\ run' \notin {"none", "created"}
    BY <1>9 DEF CancelClosing, crewVars
  <2>2. ASSUME events' # <<>>, NEW e \in Emitters
        PROVE  Keeps(events', e, emitted'[e])
    BY <2>1, <2>2 DEF Threads
  <2>3. ASSUME stored' # <<>>, NEW e \in Emitters
        PROVE  \E m \in 0..emitted'[e] : Brings(stored', e, m)
    BY <2>1, <2>3 DEF Threads
  <2> QED
    BY <2>1, <2>2, <2>3 DEF Threads, Keeps, Brings
<1> QED
  BY <1>1, <1>3, <1>4, <1>5, <1>6, <1>7, <1>8, <1>9 DEF StreamNext, RunSteps, ThreadSteps, RelaySteps

LEMMA OutcomeNext ==
    ASSUME RelayInv, Streamed => InStep, Threads, Outcome, StreamNext
    PROVE  Outcome'
<1>0. /\ events \in Seq(Contract!Frames) /\ Len(events) <= MaxEvents
      /\ Token # Done /\ Token # Error /\ Done # Error /\ Start # Done /\ Start # Error
  BY DEF RelayInv, RelayTypeOK, Start, Token, Done, Error, Contract!Start, Contract!Token, Contract!Done,
     Contract!Error
<1>1. ASSUME NEW d \in Emitters, Record(d)
      PROVE  Outcome'
  <2>1. /\ UNCHANGED <<run, stored>> /\ events' = Noted(events, Event(d, emitted'[d]))
        /\ emitted' = [emitted EXCEPT ![d] = @ + 1] /\ crew = "working" /\ emitted[d] < MaxEmit
    BY <1>1 DEF Record
  <2>2. emitted'[d] \in 1..MaxEmit
    BY <2>1, RelayAssumption DEF RelayInv, RelayTypeOK, RelayAssumption
  <2>3. PICK x \in Contract!Frames : x = Event(d, emitted'[d]) /\ x # Done /\ x # Error
    BY <2>2, FrameTypes, OthersAreNoEvents DEF RunEvents, NoEvent
  <2>4. CASE events = <<>>
    BY <2>1, <2>4 DEF Noted, Outcome
  <2>5. CASE events # <<>>
    <3>1. /\ Has(events', Done) <=> Has(events, Done)
          /\ Has(events', Error) <=> Has(events, Error)
      <4>1. events' = Append(events, x) \/ events' = events
        BY <1>0, <2>1, <2>3, <2>5, NotedFacts
      <4>2. \A f : Has(Append(events, x), f) <=> Has(events, f) \/ x = f
        BY <1>0, HasAppended
      <4> QED
        BY <2>3, <4>1, <4>2
    <3>2. events' # <<>> /\ (Len(events') < MaxEvents => Len(events) < MaxEvents)
      BY <1>0, <2>1, <2>3, <2>5, NotedFacts, RelayAssumption DEF RelayAssumption
    <3> QED
      BY <2>1, <2>5, <3>1, <3>2 DEF Outcome
  <2> QED
    BY <2>4, <2>5
<1>2. ASSUME UNCHANGED <<events, stored>>, run' = run \/ (run = "executing" /\ run' = "resuming")
      PROVE  Outcome'
  BY <1>2 DEF Outcome
<1>3. CASE StartRun
  <2>1. /\ stored' = <<>> /\ events = <<>> /\ run' \in {"raised", "returned", "executing"}
        /\ events' \in {<<Start>>, <<>>}
    BY <1>3 DEF StartRun, Threads, Outcome
  <2>2. ~Has(events', Done) /\ ~Has(events', Error)
    BY <1>0, <2>1 DEF Has
  <2> QED
    BY <2>1, <2>2 DEF Outcome
<1>4. CASE Reply
  <2>1. /\ events' = Noted(Noted(events, Token), Done) /\ stored' = stored /\ stored = <<>>
        /\ run' \in {"closing", "returned"} /\ ~Has(events, Error)
    BY <1>4 DEF Reply, Outcome
  <2>2. CASE events = <<>>
    <3>1. events' = <<>>
      BY <2>1, <2>2 DEF Noted
    <3> QED
      BY <2>1, <2>2, <3>1 DEF Outcome
  <2>3. CASE events # <<>>
    <3>0. PICK log : log = Noted(events, Token)
      OBVIOUS
    <3>1. /\ log \in Seq(Contract!Frames) /\ log # <<>> /\ Len(log) <= MaxEvents /\ ~Has(log, Error)
      <4>1. Token \in Contract!Frames
        BY FrameTypes
      <4>2. log = events \/ log = Append(events, Token)
        BY <1>0, <2>3, <3>0, <4>1, NotedFacts
      <4>3. ~Has(log, Error)
        BY <1>0, <2>1, <4>1, <4>2, HasAppended
      <4> QED
        BY <1>0, <2>3, <3>0, <4>1, <4>3, NotedFacts
    <3>2. /\ events' = Append(log, Done) \/ (events' = log /\ Len(log) = MaxEvents)
      BY <2>1, <3>0, <3>1, FrameTypes, NotedFacts
    <3>3. ~Has(events', Error)
      <4>1. Has(Append(log, Done), Error) <=> Has(log, Error) \/ Done = Error
        BY <3>1, FrameTypes, HasAppended
      <4> QED
        BY <1>0, <3>1, <3>2, <4>1
    <3>4. Len(events') < MaxEvents => Has(events', Done)
      <4>1. Has(Append(log, Done), Done)
        BY <3>1, FrameTypes, HasAppended
      <4>2. events' = log => ~(Len(events') < MaxEvents) \/ events' = Append(log, Done)
        BY <3>2, RelayAssumption DEF RelayAssumption
      <4> QED
        BY <3>2, <4>1, <4>2
    <3> QED
      BY <2>1, <3>3, <3>4 DEF Outcome
  <2> QED
    BY <2>2, <2>3
<1>5. CASE Fail \/ Cancel
  <2>1. /\ events' = Noted(events, Error) /\ stored' = stored /\ stored = <<>>
        /\ run' \in {"failing", "raised", "cancelling", "cancelled"} /\ ~Has(events, Done)
    BY <1>5 DEF Fail, Cancel, Outcome
  <2>2. CASE events = <<>>
    <3>1. events' = <<>>
      BY <2>1, <2>2 DEF Noted
    <3> QED
      BY <2>1, <2>2, <3>1 DEF Outcome
  <2>3. CASE events # <<>>
    <3>1. events' = Append(events, Error) \/ (events' = events /\ Len(events) = MaxEvents)
      BY <1>0, <2>1, <2>3, FrameTypes, NotedFacts
    <3>2. ~Has(events', Done) /\ (Len(events') < MaxEvents => Has(events', Error))
      <4>1. \A f : Has(Append(events, Error), f) <=> Has(events, f) \/ Error = f
        BY <1>0, FrameTypes, HasAppended
      <4>2. events' = events => ~(Len(events') < MaxEvents) \/ events' = Append(events, Error)
        BY <3>1, RelayAssumption DEF RelayAssumption
      <4> QED
        BY <1>0, <2>1, <3>1, <4>1, <4>2
    <3> QED
      BY <2>1, <3>2 DEF Outcome
  <2> QED
    BY <2>2, <2>3
<1>6. CASE CloseRow
  <2>1. /\ stored' = events /\ events' = events
        /\ \/ run = "closing"    /\ run' = "returned"
           \/ run = "leaving"    /\ run' = "left"
           \/ run = "failing"    /\ run' = "raised"
           \/ run = "cancelling" /\ run' = "cancelled"
    BY <1>6 DEF CloseRow
  <2> QED
    BY <2>1 DEF Outcome
<1>7. CASE Begin
  <2>1. run = "none" /\ run' = "created" /\ UNCHANGED <<events, stored>>
    BY <1>7 DEF Begin, RelayStep, InStep, Streamed, crewVars
  <2> QED
    BY <2>1 DEF Outcome
<1>8. CASE Dispatch \/ CrewEnds \/ Open \/ Forward \/ Notice \/ Conclude \/ Finish \/ Leave \/ \E e \in Emitters : HandOver(e)
  <2>1. CASE Dispatch
    BY <1>2, <2>1 DEF Dispatch, crewVars
  <2>2. CASE Open \/ Forward \/ Notice \/ Conclude \/ Finish \/ Leave
    BY <1>2, <2>2 DEF Open, Forward, Notice, Conclude, Finish, Leave, RelayStep, crewVars
  <2>3. CASE CrewEnds \/ \E e \in Emitters : HandOver(e)
    BY <1>2, <2>3 DEF CrewEnds, HandOver, runVars
  <2> QED
    BY <1>8, <2>1, <2>2, <2>3
<1>9. CASE CancelClosing
  BY <1>9 DEF CancelClosing, Outcome
<1> QED
  BY <1>1, <1>3, <1>4, <1>5, <1>6, <1>7, <1>8, <1>9 DEF StreamNext, RunSteps, ThreadSteps, RelaySteps

-----------------------------------------------------------------------------
(* The record is true: its length and its order are those of the stream    *)

InView  == Streamed /\ relay # "gone"
Holders == {e \in Emitters : holding[e]}
Lonely  == \A d \in Emitters, e \in Emitters : emitted[d] > 0 /\ emitted[e] > 0 => d = e

\* The frames the relay will still add of its own; the callback that ends the
\* kickoff is on its way like a frame and becomes none.
Coming ==
    IF run \in {"closing", "returned"} THEN (IF relay = "told" THEN 1 ELSE IF relay = "ended" THEN 0 ELSE 2)
    ELSE IF run \in {"failing", "raised"} THEN (IF relay = "ended" THEN 0 ELSE 1)
    ELSE IF run = "executing" /\ crew \in {"done", "raised"} THEN -1 ELSE 0

Due == Len(InFlight) + Cardinality(Holders) + Coming

\* The record has as many frames as the stream is going to have, up to its limit.
SameLength == Len(events) = IF Due < MaxEvents THEN Due ELSE MaxEvents

\* Beyond what is on its way the record has the frames the relay is about to add.
SameEnd ==
    LET next == Len(InFlight) + 1
    IN  /\ run \in {"closing", "returned"} /\ relay \notin {"told", "ended"} =>
              /\ next \in DOMAIN events => events[next] = Token
              /\ next + 1 \in DOMAIN events => events[next + 1] = Done
        /\ relay = "told" /\ next \in DOMAIN events => events[next] = Done
        /\ run \in {"failing", "raised"} /\ relay # "ended" /\ next \in DOMAIN events => events[next] = Error

\* With a single thread the record is what is on its way, frame by frame.
SameFrames ==
    /\ \A i \in DOMAIN events \cap DOMAIN InFlight : events[i] = InFlight[i]
    /\ \A e \in Holders : Len(InFlight) + 1 \in DOMAIN events => events[Len(InFlight) + 1] = Event(e, emitted[e])

Alike ==
    /\ relay = "opened" \/ run = "created" => frames = <<Start>>
    /\ stored # <<>> => stored = events
    /\ events # <<>> => SameLength /\ SameEnd /\ (Lonely => SameFrames)

LEMMA HoldersAreFinite == IsFiniteSet(Holders) /\ Cardinality(Holders) \in Nat
<1>1. IsFiniteSet(Emitters) /\ Holders \subseteq Emitters
  BY RelayAssumption DEF RelayAssumption, Holders
<1> QED
  BY <1>1, FS_Subset, FS_CardinalityType

LEMMA NobodyHolds == (\A e \in Emitters : ~holding[e]) => Holders = {} /\ Cardinality(Holders) = 0
  BY FS_EmptySet DEF Holders

\* A frame that is noted is the last of the record, or the record was full.
LEMMA NotedLast ==
    ASSUME NEW log \in Seq(Contract!Frames), log # <<>>, Len(log) <= MaxEvents, NEW x \in Contract!Frames,
           NEW new, new = Noted(log, x)
    PROVE  /\ new \in Seq(Contract!Frames) /\ new # <<>> /\ Len(new) <= MaxEvents
           /\ DOMAIN log = 1..Len(log) /\ DOMAIN new = 1..Len(new) /\ Len(log) \in Nat \ {0} /\ Len(new) \in Nat \ {0}
           /\ Len(new) = IF Len(log) < MaxEvents THEN Len(log) + 1 ELSE Len(log)
           /\ \A i \in DOMAIN log : new[i] = log[i]
           /\ Len(log) < MaxEvents => new[Len(log) + 1] = x
<1>1. /\ new \in Seq(Contract!Frames) /\ new # <<>> /\ Len(new) \in Nat \ {0} /\ Len(log) \in Nat \ {0}
      /\ \/ Len(log) < MaxEvents /\ new = Append(log, x) /\ Len(new) = Len(log) + 1
         \/ Len(log) = MaxEvents /\ new = log
      /\ Len(new) <= MaxEvents
  BY NotedFacts
<1>2. DOMAIN log = 1..Len(log) /\ DOMAIN new = 1..Len(new)
  BY <1>1, LenProperties
<1>3. /\ \A i \in 1..Len(log) : Append(log, x)[i] = log[i]
      /\ Append(log, x)[Len(log) + 1] = x
  BY AppendProperties
<1>4. CASE Len(log) < MaxEvents /\ new = Append(log, x) /\ Len(new) = Len(log) + 1
  BY <1>1, <1>2, <1>3, <1>4
<1>5. CASE Len(log) = MaxEvents /\ new = log
  <2>1. ~(Len(log) < MaxEvents)
    BY <1>5, RelayAssumption DEF RelayAssumption
  <2> QED
    BY <1>1, <1>2, <1>5, <2>1
<1> QED
  BY <1>1, <1>4, <1>5

\* One more frame on its way.
LEMMA WayLonger ==
    ASSUME NEW way \in Seq(Waiting), NEW x \in Waiting, NEW longer, longer = Append(way, x)
    PROVE  /\ DOMAIN way = 1..Len(way) /\ Len(way) \in Nat
           /\ Len(longer) = Len(way) + 1 /\ DOMAIN longer = 1..(Len(way) + 1)
           /\ \A i \in DOMAIN way : longer[i] = way[i]
           /\ longer[Len(way) + 1] = x
  BY AppendProperties, LenProperties

\* Nothing of the record is beyond what is due.
LEMMA WithinDue ==
    ASSUME SameLength, NEW n \in Int, Due = n, events \in Seq(Contract!Frames)
    PROVE  /\ Len(events) <= n \/ Len(events) = MaxEvents
           /\ Len(events) = n \/ Len(events) = MaxEvents
           /\ Len(events) <= n
           /\ Len(events) <= MaxEvents /\ DOMAIN events = 1..Len(events) /\ Len(events) \in Nat
  BY RelayAssumption, LenProperties DEF SameLength, RelayAssumption

LEMMA AlikeNext ==
    ASSUME RelayInv, InStep, Threads, Outcome, InView, Alike, StreamNext, InView'
    PROVE  Alike'
<1>0. /\ events \in Seq(Contract!Frames) /\ Len(events) <= MaxEvents /\ MaxEvents \in Nat \ {0}
      /\ emitted \in [Emitters -> 0..MaxEmit] /\ holding \in [Emitters -> BOOLEAN] /\ MaxEmit \in Nat
      /\ Cardinality(Holders) \in Nat /\ IsFiniteSet(Holders) /\ InFlight \in Seq(Waiting) /\ frames \in Seq(Waiting)
      /\ relay \in RelayStates \ {"none", "gone"} /\ run \in RunStates
      /\ crew \in {"idle", "working", "done", "raised"} /\ Streamed
  BY RelayAssumption, HoldersAreFinite, FlightSteps DEF RelayInv, RelayTypeOK, RelayAssumption, InView, Streamed
<1>1. PICK L, way, N : way = InFlight /\ L = Len(InFlight) /\ N = Cardinality(Holders)
  OBVIOUS
<1>2. L \in Nat /\ N \in Nat /\ way \in Seq(Waiting) /\ DOMAIN way = 1..L /\ Due = L + N + Coming
  BY <1>0, <1>1, LenProperties DEF Due
<1>3. DOMAIN events = 1..Len(events) /\ Len(events) \in Nat
  BY <1>0, LenProperties
<1>4. ASSUME NEW d \in Emitters, Record(d)
      PROVE  Alike'
  <2>1. /\ UNCHANGED <<relay, frames, queue, ready, crew, run, stored>> /\ ~holding[d] /\ crew = "working"
        /\ emitted' = [emitted EXCEPT ![d] = @ + 1] /\ holding' = [holding EXCEPT ![d] = TRUE]
        /\ events' = Noted(events, Event(d, emitted'[d])) /\ emitted[d] < MaxEmit
    BY <1>0, <1>4 DEF Record, relayVars
  <2>2. run = "executing" /\ stored = <<>> /\ InFlight' = way
    BY <1>0, <1>1, <2>1, FlightSteps DEF InStep, Outcome
  <2>3. PICK x \in Contract!Frames : x = Event(d, emitted'[d])
    <3>1. emitted'[d] \in 1..MaxEmit
      BY <1>0, <2>1
    <3> QED
      BY <3>1, FrameTypes DEF RunEvents
  <2>4. ASSUME events # <<>>
        PROVE  SameLength' /\ SameEnd' /\ (Lonely => SameFrames)'
    <3>1. Coming = 0 /\ Coming' = 0
      BY <2>1, <2>2 DEF Coming
    <3>2. Cardinality(Holders') = N + 1
      <4>1. Holders' = Holders \cup {d} /\ d \notin Holders
        BY <1>0, <2>1 DEF Holders
      <4> QED
        BY <1>0, <1>1, <4>1, FS_AddElement
    <3>3. Due' = L + N + 1
      BY <1>1, <1>2, <2>2, <3>1, <3>2 DEF Due
    <3>4. SameLength /\ (Lonely => SameFrames)
      BY <2>4 DEF Alike
    <3>5. /\ events' \in Seq(Contract!Frames) /\ DOMAIN events' = 1..Len(events') /\ Len(events') \in Nat \ {0}
          /\ Len(events') = IF Len(events) < MaxEvents THEN Len(events) + 1 ELSE Len(events)
          /\ \A i \in DOMAIN events : events'[i] = events[i]
          /\ Len(events) < MaxEvents => events'[Len(events) + 1] = x
      <4>1. PICK new : new = events' /\ new = Noted(events, x)
        BY <2>1, <2>3
      <4>2. events \in Seq(Contract!Frames) /\ events # <<>> /\ Len(events) <= MaxEvents
        BY <1>0, <2>4
      <4> QED
        BY <4>1, <4>2, NotedLast
    <3>6. Len(events) = IF L + N < MaxEvents THEN L + N ELSE MaxEvents
      BY <1>2, <3>1, <3>4 DEF SameLength
    <3>7. SameLength'
      <4>1. Len(events') = IF L + N + 1 < MaxEvents THEN L + N + 1 ELSE MaxEvents
        <5>1. L + N \in Nat /\ MaxEvents \in Nat /\ Len(events) \in Nat
          BY <1>0, <1>2, <1>3
        <5>2. CASE L + N < MaxEvents
          <6>1. Len(events) = L + N /\ Len(events') = L + N + 1
            BY <3>5, <3>6, <5>2
          <6> QED
            BY <5>1, <5>2, <6>1
        <5>3. CASE ~(L + N < MaxEvents)
          <6>1. Len(events') = MaxEvents
            BY <3>5, <3>6, <5>1, <5>3
          <6> QED
            BY <5>1, <5>3, <6>1
        <5> QED
          BY <5>2, <5>3
      <4> QED
        BY <3>3, <4>1 DEF SameLength
    <3>8. SameEnd'
      BY <2>1, <2>2 DEF SameEnd, InStep
    <3>9. ASSUME Lonely'
          PROVE  SameFrames'
      <4>1. Lonely /\ \A e \in Emitters : emitted[e] > 0 => e = d
        BY <1>0, <2>1, <3>9 DEF Lonely
      <4>2. Holders = {} /\ N = 0
        BY <1>0, <1>1, <2>1, <4>1, NobodyHolds DEF RelayInv
      <4>3. Holders' = {d}
        BY <1>0, <2>1, <4>2 DEF Holders
      <4>4. SameFrames
        BY <3>4, <4>1
      <4>5. \A i \in DOMAIN events' \cap DOMAIN way : events'[i] = way[i]
        <5>1. \A i \in DOMAIN events' \cap DOMAIN way : i \in DOMAIN events
          BY <1>0, <1>2, <1>3, <3>5, <3>6, <4>2
        <5> QED
          BY <1>1, <3>5, <4>4, <5>1 DEF SameFrames
      <4>6. L + 1 \in DOMAIN events' => events'[L + 1] = x
        BY <1>0, <1>2, <1>3, <3>5, <3>6, <4>2
      <4> QED
        BY <1>1, <2>2, <2>3, <4>3, <4>5, <4>6 DEF SameFrames
    <3> QED
      BY <3>7, <3>8, <3>9
  <2>5. events' # <<>> => events # <<>>
    BY <2>1 DEF Noted
  <2> QED
    BY <2>1, <2>2, <2>4, <2>5 DEF Alike
<1>5. ASSUME NEW d \in Emitters, HandOver(d)
      PROVE  Alike'
  <2>1. /\ UNCHANGED <<relay, frames, crew, emitted, run, events, stored>> /\ holding[d]
        /\ holding' = [holding EXCEPT ![d] = FALSE]
    BY <1>5 DEF HandOver, relayVars, runVars
  <2>2. /\ InFlight' = Append(way, Event(d, emitted[d])) /\ Event(d, emitted[d]) \in Waiting
    BY <1>0, <1>1, <1>5, FlightSteps
  <2>3. crew = "working" /\ run = "executing"
    BY <1>0, <2>1 DEF InStep
  <2>4. /\ Len(InFlight') = L + 1 /\ DOMAIN InFlight' = 1..(L + 1)
        /\ \A i \in DOMAIN way : InFlight'[i] = way[i]
        /\ InFlight'[L + 1] = Event(d, emitted[d])
    BY <1>1, <1>2, <2>2, WayLonger
  <2>5. ASSUME events # <<>>
        PROVE  SameLength' /\ SameEnd' /\ (Lonely => SameFrames)'
    <3>1. Coming = 0 /\ Coming' = 0
      BY <2>1, <2>3 DEF Coming
    <3>2. Cardinality(Holders') = N - 1 /\ Holders' = Holders \ {d} /\ d \in Holders
      <4>1. Holders' = Holders \ {d} /\ d \in Holders
        BY <1>0, <2>1 DEF Holders
      <4> QED
        BY <1>0, <1>1, <4>1, FS_RemoveElement
    <3>3. Due' = L + N /\ Due = L + N
      BY <1>2, <2>4, <3>1, <3>2 DEF Due
    <3>4. SameLength /\ (Lonely => SameFrames)
      BY <2>5 DEF Alike
    <3>5. SameLength'
      BY <2>1, <3>3, <3>4 DEF SameLength
    <3>6. SameEnd'
      BY <2>1, <2>3 DEF SameEnd, InStep
    <3>7. ASSUME Lonely'
          PROVE  SameFrames'
      <4>1. Lonely /\ SameFrames
        BY <2>1, <3>4, <3>7 DEF Lonely
      <4>2. \A e \in Holders : e = d
        BY <1>0, <2>1, <4>1 DEF Holders, Lonely, RelayInv
      <4>3. Holders' = {}
        BY <3>2, <4>2
      <4>4. ASSUME NEW i \in DOMAIN events' \cap DOMAIN InFlight'
            PROVE  events'[i] = InFlight'[i]
        <5>1. CASE i = L + 1
          <6>1. L + 1 \in DOMAIN events /\ d \in Holders
            BY <2>1, <3>2, <5>1
          <6> QED
            BY <1>1, <2>1, <2>4, <4>1, <5>1, <6>1 DEF SameFrames
        <5>2. CASE i # L + 1
          <6>1. i \in DOMAIN way /\ i \in DOMAIN events
            BY <1>2, <2>1, <2>4, <5>2
          <6> QED
            BY <1>1, <2>1, <2>4, <4>1, <6>1 DEF SameFrames
        <5> QED
          BY <5>1, <5>2
      <4> QED
        BY <4>3, <4>4 DEF SameFrames
    <3> QED
      BY <3>5, <3>6, <3>7
  <2> QED
    BY <2>1, <2>5 DEF Alike
<1>6. CASE CrewEnds
  <2>1. /\ UNCHANGED <<relay, frames, emitted, holding, run, events, stored>> /\ crew = "working"
        /\ crew' \in {"done", "raised"} /\ \A e \in Emitters : ~holding[e]
    BY <1>6 DEF CrewEnds, relayVars, runVars
  <2>2. InFlight' = Append(way, KickoffOver) /\ run = "executing"
    BY <1>0, <1>1, <1>6, <2>1, FlightSteps DEF InStep
  <2>3. /\ Len(InFlight') = L + 1 /\ DOMAIN InFlight' = 1..(L + 1)
        /\ \A i \in DOMAIN way : InFlight'[i] = way[i]
    BY <1>1, <1>2, <2>2, WaitingTypes, WayLonger
  <2>4. Holders = {} /\ Holders' = {} /\ N = 0 /\ Cardinality(Holders') = 0
    BY <1>1, <2>1, NobodyHolds DEF Holders
  <2>5. ASSUME events # <<>>
        PROVE  SameLength' /\ SameEnd' /\ (Lonely => SameFrames)'
    <3>1. Due = L /\ Due' = L
      BY <1>2, <2>1, <2>2, <2>3, <2>4 DEF Due, Coming
    <3>2. SameLength /\ (Lonely => SameFrames)
      BY <2>5 DEF Alike
    <3>3. SameLength'
      BY <2>1, <3>1, <3>2 DEF SameLength
    <3>4. SameEnd'
      BY <2>1, <2>2 DEF SameEnd, InStep
    <3>5. \A i \in DOMAIN events' \cap DOMAIN InFlight' : i \in DOMAIN way /\ i \in DOMAIN events
      BY <1>0, <1>2, <2>1, <2>3, <3>1, <3>2, WithinDue
    <3>6. ASSUME Lonely'
          PROVE  SameFrames'
      <4>1. SameFrames
        BY <2>1, <3>2, <3>6 DEF Lonely
      <4>2. \A i \in DOMAIN events' \cap DOMAIN InFlight' : events'[i] = InFlight'[i]
        BY <1>1, <2>1, <2>3, <3>5, <4>1 DEF SameFrames
      <4> QED
        BY <2>4, <4>2 DEF SameFrames
    <3> QED
      BY <3>3, <3>4, <3>6
  <2> QED
    BY <2>1, <2>5 DEF Alike
<1>7. CASE StartRun
  <2>1. /\ run = "created" /\ crew = "idle" /\ UNCHANGED <<relay, frames, queue, ready, emitted, holding, stored>>
        /\ events = <<>> /\ stored = <<>> /\ frames = <<Start>> /\ run' # "created"
    BY <1>7 DEF StartRun, relayVars, InStep, Threads, Outcome, Alike
  <2>2. frames' = <<Start>> /\ stored' = <<>>
    BY <2>1
  <2>3. ASSUME events' # <<>>
        PROVE  SameLength' /\ SameEnd' /\ SameFrames'
    <3>1. run' = "executing" /\ crew' = "working" /\ events' = <<Start>>
      BY <1>7, <2>1, <2>3 DEF StartRun
    <3>2. InFlight' = <<Start>>
      <4>1. queue = <<>> /\ ready = <<>> /\ <<Start>> \in Seq(Contract!Frames)
        BY <2>1, FrameTypes DEF InStep
      <4> QED
        BY <2>1, <2>2, <4>1, ConcatEmptySeq DEF InFlight
    <3>3. Holders' = {} /\ Cardinality(Holders') = 0
      BY <2>1, FS_EmptySet DEF InStep, Holders
    <3>4. Len(<<Start>>) = 1 /\ DOMAIN <<Start>> = {1}
      OBVIOUS
    <3>5. SameLength'
      BY <1>0, <3>1, <3>2, <3>3, <3>4 DEF SameLength, Due, Coming
    <3>6. SameEnd'
      BY <2>1, <3>1 DEF SameEnd, InStep
    <3>7. SameFrames'
      BY <3>1, <3>2, <3>3 DEF SameFrames
    <3> QED
      BY <3>5, <3>6, <3>7
  <2> QED
    BY <2>2, <2>3 DEF Alike
<1>8. CASE Dispatch
  <2>1. UNCHANGED <<relay, frames, crew, emitted, holding, events, stored>>
    BY <1>8 DEF Dispatch, crewVars
  <2>2. CASE run' = run /\ InFlight' = InFlight
    <3>1. UNCHANGED <<Due, SameLength, SameEnd, Lonely, SameFrames>>
      BY <2>1, <2>2 DEF SameLength, SameEnd, Lonely, SameFrames, Due, Coming, Holders
    <3> QED
      BY <2>1, <2>2, <3>1 DEF Alike
  <2>3. CASE /\ run' = "resuming" /\ run = "executing" /\ crew \in {"done", "raised"}
             /\ InFlight' \in Seq(Waiting) /\ InFlight = Append(InFlight', KickoffOver)
    <3>1. PICK rest \in Seq(Waiting) : rest = InFlight' /\ way = Append(rest, KickoffOver)
      BY <1>1, <2>3
    <3>2. /\ Len(rest) \in Nat /\ L = Len(rest) + 1 /\ DOMAIN rest = 1..Len(rest)
          /\ \A i \in DOMAIN rest : way[i] = rest[i]
      BY <1>1, <3>1, WaitingTypes, WayLonger
    <3>3. Holders = {} /\ Holders' = {} /\ N = 0 /\ Cardinality(Holders') = 0
      BY <1>1, <2>1, <2>3, NobodyHolds DEF Holders, InStep
    <3>4. ASSUME events # <<>>
          PROVE  SameLength' /\ SameEnd' /\ (Lonely => SameFrames)'
      <4>1. Due = Len(rest) /\ Due' = Len(rest)
        BY <1>2, <2>1, <2>3, <3>1, <3>2, <3>3 DEF Due, Coming
      <4>2. SameLength /\ (Lonely => SameFrames)
        BY <3>4 DEF Alike
      <4>3. SameLength'
        BY <2>1, <4>1, <4>2 DEF SameLength
      <4>4. SameEnd'
        BY <2>1, <2>3 DEF SameEnd, InStep
      <4>5. ASSUME Lonely'
            PROVE  SameFrames'
        <5>1. SameFrames
          BY <2>1, <4>2, <4>5 DEF Lonely
        <5>2. \A i \in DOMAIN events' \cap DOMAIN InFlight' : events'[i] = InFlight'[i]
          <6>1. \A i \in DOMAIN rest : i \in DOMAIN way
            BY <1>2, <3>2
          <6> QED
            BY <1>1, <2>1, <3>1, <3>2, <5>1, <6>1 DEF SameFrames
        <5> QED
          BY <3>3, <5>2 DEF SameFrames
      <4> QED
        BY <4>3, <4>4, <4>5
    <3> QED
      BY <2>1, <2>3, <3>4 DEF Alike
  <2> QED
    BY <1>0, <1>8, <2>2, <2>3, FlightSteps
<1>9. CASE Reply
  <2>1. /\ UNCHANGED <<relay, frames, queue, ready, crew, emitted, holding, stored>>
        /\ run = "resuming" /\ crew = "done" /\ run' \in {"closing", "returned"}
        /\ events' = Noted(Noted(events, Token), Done) /\ stored = <<>>
    BY <1>9 DEF Reply, relayVars, crewVars, Outcome
  <2>2. InFlight' = way /\ relay \notin {"opened", "told", "ended"}
    BY <1>0, <1>1, <2>1, FlightSteps DEF InStep
  <2>3. Holders = {} /\ Holders' = {} /\ N = 0 /\ Cardinality(Holders') = 0
    BY <1>1, <2>1, NobodyHolds DEF Holders, InStep
  <2>4. ASSUME events # <<>>
        PROVE  SameLength' /\ SameEnd' /\ (Lonely => SameFrames)'
    <3>1. Due = L /\ Due' = L + 2
      BY <1>1, <1>2, <2>1, <2>2, <2>3 DEF Due, Coming
    <3>2. SameLength /\ (Lonely => SameFrames)
      BY <2>4 DEF Alike
    <3>3. Len(events) = IF L < MaxEvents THEN L ELSE MaxEvents
      BY <3>1, <3>2 DEF SameLength
    <3>4. PICK log : log = Noted(events, Token)
      OBVIOUS
    <3>5. /\ log \in Seq(Contract!Frames) /\ log # <<>> /\ Len(log) <= MaxEvents
          /\ DOMAIN log = 1..Len(log) /\ Len(log) \in Nat \ {0}
          /\ Len(log) = IF Len(events) < MaxEvents THEN Len(events) + 1 ELSE Len(events)
          /\ \A i \in DOMAIN events : log[i] = events[i]
          /\ Len(events) < MaxEvents => log[Len(events) + 1] = Token
      <4>1. events \in Seq(Contract!Frames) /\ Len(events) <= MaxEvents /\ Token \in Contract!Frames
        BY <1>0, FrameTypes
      <4> QED
        BY <2>4, <3>4, <4>1, NotedLast, Zenon
    <3>6. PICK new : new = events' /\ new = Noted(log, Done)
      BY <2>1, <3>4
    <3>7. /\ DOMAIN new = 1..Len(new) /\ Len(new) \in Nat \ {0}
          /\ Len(new) = IF Len(log) < MaxEvents THEN Len(log) + 1 ELSE Len(log)
          /\ \A i \in DOMAIN log : new[i] = log[i]
          /\ Len(log) < MaxEvents => new[Len(log) + 1] = Done
      <4>1. Done \in Contract!Frames
        BY FrameTypes
      <4> QED
        BY <3>5, <3>6, <4>1, NotedLast, Zenon
    <3>8. SameLength'
      <4>1. Len(new) = IF L + 2 < MaxEvents THEN L + 2 ELSE MaxEvents
        BY <1>0, <1>2, <3>3, <3>5, <3>7
      <4> QED
        BY <3>1, <3>6, <4>1 DEF SameLength
    <3>9. SameEnd'
      <4>1. L + 1 \in DOMAIN new => new[L + 1] = Token
        BY <1>0, <1>2, <3>3, <3>5, <3>7
      <4>2. L + 2 \in DOMAIN new => new[L + 2] = Done
        BY <1>0, <1>2, <3>3, <3>5, <3>7
      <4>3. Len(InFlight') = L /\ L + 1 + 1 = L + 2
        BY <1>1, <1>2, <2>2
      <4> QED
        BY <2>1, <2>2, <3>6, <4>1, <4>2, <4>3 DEF SameEnd
    <3>10. ASSUME Lonely'
           PROVE  SameFrames'
      <4>1. SameFrames
        BY <2>1, <3>2, <3>10 DEF Lonely
      <4>2. \A i \in DOMAIN new \cap DOMAIN way : i \in DOMAIN events /\ i \in DOMAIN log
        BY <1>0, <1>2, <1>3, <3>3, <3>5, <3>7
      <4>3. \A i \in DOMAIN new \cap DOMAIN way : new[i] = way[i]
        BY <1>1, <3>5, <3>7, <4>1, <4>2 DEF SameFrames
      <4> QED
        BY <2>2, <2>3, <3>6, <4>3 DEF SameFrames
    <3> QED
      BY <3>8, <3>9, <3>10
  <2>5. events' # <<>> => events # <<>>
    BY <2>1 DEF Noted
  <2> QED
    BY <2>1, <2>2, <2>4, <2>5 DEF Alike
<1>10. CASE Fail
  <2>1. /\ UNCHANGED <<relay, frames, queue, ready, crew, emitted, holding, stored>>
        /\ run = "resuming" /\ crew = "raised" /\ run' \in {"failing", "raised"}
        /\ events' = Noted(events, Error) /\ stored = <<>>
    BY <1>10 DEF Fail, relayVars, crewVars, Outcome
  <2>2. InFlight' = way /\ relay \notin {"opened", "told", "ended"}
    BY <1>0, <1>1, <2>1, FlightSteps DEF InStep
  <2>3. Holders = {} /\ Holders' = {} /\ N = 0 /\ Cardinality(Holders') = 0
    BY <1>1, <2>1, NobodyHolds DEF Holders, InStep
  <2>4. ASSUME events # <<>>
        PROVE  SameLength' /\ SameEnd' /\ (Lonely => SameFrames)'
    <3>1. Due = L /\ Due' = L + 1
      BY <1>1, <1>2, <2>1, <2>2, <2>3 DEF Due, Coming
    <3>2. SameLength /\ (Lonely => SameFrames)
      BY <2>4 DEF Alike
    <3>3. Len(events) = IF L < MaxEvents THEN L ELSE MaxEvents
      BY <3>1, <3>2 DEF SameLength
    <3>4. PICK new : new = events' /\ new = Noted(events, Error)
      BY <2>1
    <3>5. /\ DOMAIN new = 1..Len(new) /\ Len(new) \in Nat \ {0}
          /\ Len(new) = IF Len(events) < MaxEvents THEN Len(events) + 1 ELSE Len(events)
          /\ \A i \in DOMAIN events : new[i] = events[i]
          /\ Len(events) < MaxEvents => new[Len(events) + 1] = Error
      <4>1. events \in Seq(Contract!Frames) /\ events # <<>> /\ Len(events) <= MaxEvents /\ Error \in Contract!Frames
        BY <1>0, <2>4, FrameTypes
      <4>2. PICK log : log = events
        OBVIOUS
      <4>3. PICK x : x = Error
        OBVIOUS
      <4>4. /\ log \in Seq(Contract!Frames) /\ log # <<>> /\ Len(log) <= MaxEvents
            /\ x \in Contract!Frames /\ new = Noted(log, x)
        BY <3>4, <4>1, <4>2, <4>3
      <4>5. /\ DOMAIN new = 1..Len(new) /\ Len(new) \in Nat \ {0}
            /\ Len(new) = IF Len(log) < MaxEvents THEN Len(log) + 1 ELSE Len(log)
            /\ \A i \in DOMAIN log : new[i] = log[i]
            /\ Len(log) < MaxEvents => new[Len(log) + 1] = x
        BY <4>4, NotedLast, Zenon
      <4> QED
        BY <4>2, <4>3, <4>5
    <3>6. SameLength'
      <4>1. Len(new) = IF L + 1 < MaxEvents THEN L + 1 ELSE MaxEvents
        BY <1>0, <1>2, <3>3, <3>5
      <4> QED
        BY <3>1, <3>4, <4>1 DEF SameLength
    <3>7. SameEnd'
      <4>1. L + 1 \in DOMAIN new => new[L + 1] = Error
        BY <1>0, <1>2, <3>3, <3>5
      <4>2. Len(InFlight') = L
        BY <1>1, <2>2
      <4> QED
        BY <2>1, <2>2, <3>4, <4>1, <4>2 DEF SameEnd
    <3>8. ASSUME Lonely'
          PROVE  SameFrames'
      <4>1. SameFrames
        BY <2>1, <3>2, <3>8 DEF Lonely
      <4>2. \A i \in DOMAIN new \cap DOMAIN way : i \in DOMAIN events
        BY <1>0, <1>2, <1>3, <3>3, <3>5
      <4>3. \A i \in DOMAIN new \cap DOMAIN way : new[i] = way[i]
        BY <1>1, <3>5, <4>1, <4>2 DEF SameFrames
      <4> QED
        BY <2>2, <2>3, <3>4, <4>3 DEF SameFrames
    <3> QED
      BY <3>6, <3>7, <3>8
  <2>5. events' # <<>> => events # <<>>
    BY <2>1 DEF Noted
  <2> QED
    BY <2>1, <2>2, <2>4, <2>5 DEF Alike
<1>11. CASE CloseRow \/ Notice \/ Forward
  <2>1. /\ InFlight' = InFlight /\ UNCHANGED <<crew, emitted, holding, events>>
        /\ (run' = "created" => run = "created") /\ relay' # "opened"
        /\ stored' = stored \/ stored' = events
    <3>1. CASE CloseRow
      BY <1>0, <3>1, FlightSteps DEF CloseRow, relayVars, crewVars, InStep
    <3>2. CASE Notice
      BY <1>0, <3>2, FlightSteps DEF Notice, RelayStep, crewVars
    <3>3. CASE Forward
      BY <1>0, <3>3, FlightSteps DEF Forward, RelayStep, crewVars
    <3> QED
      BY <1>11, <3>1, <3>2, <3>3
  <2>2. /\ run' \in {"closing", "returned"} <=> run \in {"closing", "returned"}
        /\ run' \in {"failing", "raised"} <=> run \in {"failing", "raised"}
        /\ run' = "executing" <=> run = "executing"
        /\ relay' = "told" <=> relay = "told"
        /\ relay' = "ended" <=> relay = "ended"
    <3>1. CASE CloseRow
      BY <3>1 DEF CloseRow, relayVars, InStep
    <3>2. CASE Notice \/ Forward
      BY <3>2 DEF Notice, Forward, RelayStep
    <3> QED
      BY <1>11, <3>1, <3>2
  <2>3. Coming' = Coming /\ Holders' = Holders
    BY <2>1, <2>2 DEF Coming, Holders
  <2>4. SameLength' <=> SameLength
    BY <2>1, <2>3 DEF SameLength, Due
  <2>5. SameEnd' <=> SameEnd
    BY <2>1, <2>2 DEF SameEnd
  <2>6. (Lonely => SameFrames)' <=> (Lonely => SameFrames)
    BY <2>1, <2>3 DEF Lonely, SameFrames
  <2>7. run' # "created"
    BY <1>11 DEF CloseRow, Notice, Forward, RelayStep, InStep
  <2> QED
    BY <2>1, <2>4, <2>5, <2>6, <2>7 DEF Alike
<1>12. CASE Open \/ Begin
  <2>1. run = "none" /\ events' = <<>> /\ stored' = <<>>
    BY <1>12 DEF Open, Begin, RelayStep, InStep, Threads, Outcome
  <2>2. frames' = <<Start>>
    <3>1. CASE Open
      <4>1. frames = <<>> /\ frames' = Append(frames, Start)
        BY <3>1 DEF Open, RelayStep, Yields, RelayInv
      <4> QED
        BY <4>1
    <3>2. CASE Begin
      BY <3>2 DEF Begin, RelayStep, Alike
    <3> QED
      BY <1>12, <3>1, <3>2
  <2> QED
    BY <2>1, <2>2 DEF Alike
<1>13. CASE Conclude \/ Finish
  <2>1. /\ UNCHANGED <<run, crew, emitted, holding, events, stored>> /\ way = frames /\ InFlight' = frames'
        /\ run \in {"returned", "raised"}
    BY <1>0, <1>1, <1>13, FlightSteps DEF Conclude, Finish, RelayStep, crewVars, InStep
  <2>2. PICK x \in Contract!Frames :
          /\ frames' = Append(frames, x)
          /\ \/ relay = "draining" /\ run = "returned" /\ relay' = "told" /\ x = Token
             \/ relay = "draining" /\ run = "raised" /\ relay' = "ended" /\ x = Error
             \/ relay = "told" /\ run = "returned" /\ relay' = "ended" /\ x = Done
    BY <1>13, FrameTypes DEF Conclude, Finish, RelayStep, Yields, InStep
  <2>3. /\ Len(InFlight') = L + 1 /\ DOMAIN InFlight' = 1..(L + 1)
        /\ \A i \in DOMAIN way : InFlight'[i] = way[i]
        /\ InFlight'[L + 1] = x
    BY <1>1, <1>2, <2>1, <2>2, WaitingTypes, WayLonger
  <2>4. Holders = {} /\ Holders' = {} /\ N = 0 /\ Cardinality(Holders') = 0
    BY <1>0, <1>1, <2>1, NobodyHolds DEF Holders, InStep
  <2>5. ASSUME events # <<>>
        PROVE  SameLength' /\ SameEnd' /\ (Lonely => SameFrames)'
    <3>1. Due' = Due
      <4>1. Coming' = Coming - 1 /\ Coming \in Int
        BY <2>1, <2>2 DEF Coming
      <4> QED
        BY <1>1, <1>2, <2>3, <2>4, <4>1 DEF Due
    <3>2. SameLength /\ SameEnd /\ (Lonely => SameFrames)
      BY <2>5 DEF Alike
    <3>3. SameLength'
      BY <2>1, <3>1, <3>2 DEF SameLength
    <3>4. L + 1 \in DOMAIN events => events[L + 1] = x
      BY <1>1, <2>2, <3>2 DEF SameEnd
    <3>5. SameEnd'
      <4>1. relay' = "told" /\ L + 1 + 1 \in DOMAIN events => events[L + 1 + 1] = Done
        BY <1>1, <2>2, <3>2 DEF SameEnd
      <4> QED
        BY <2>1, <2>2, <2>3, <4>1 DEF SameEnd
    <3>6. ASSUME Lonely'
          PROVE  SameFrames'
      <4>1. SameFrames
        BY <2>1, <3>2, <3>6 DEF Lonely
      <4>2. \A i \in DOMAIN events \cap DOMAIN way : events[i] = InFlight'[i]
        BY <1>1, <2>3, <4>1 DEF SameFrames
      <4>3. \A i \in DOMAIN InFlight' : i \in DOMAIN way \/ i = L + 1
        BY <1>2, <2>3
      <4>4. \A i \in DOMAIN events' \cap DOMAIN InFlight' : events'[i] = InFlight'[i]
        BY <2>1, <2>3, <3>4, <4>2, <4>3
      <4> QED
        BY <2>4, <4>4 DEF SameFrames
    <3> QED
      BY <3>3, <3>5, <3>6
  <2>6. relay' # "opened" /\ run' # "created"
    BY <2>1, <2>2
  <2> QED
    BY <2>1, <2>5, <2>6 DEF Alike
<1>14. CASE Leave \/ Cancel \/ CancelClosing
  BY <1>0, <1>14 DEF Leave, Cancel, CancelClosing, RelayStep, InView
<1> QED
  BY <1>4, <1>5, <1>6, <1>7, <1>8, <1>9, <1>10, <1>11, <1>12, <1>13, <1>14
     DEF StreamNext, RunSteps, ThreadSteps, RelaySteps

-----------------------------------------------------------------------------
RecordInv ==
    /\ StreamInv
    /\ Threads
    /\ Outcome
    /\ InView => Alike

LEMMA RecordInvInit == StreamInit => RecordInv
<1> SUFFICES ASSUME StreamInit PROVE RecordInv
  OBVIOUS
<1>1. Threads
  BY DEF StreamInit, Threads
<1>2. Outcome
  BY DEF StreamInit, Outcome, Has
<1>3. InView => Alike
  BY DEF StreamInit, InView, Streamed, Alike
<1> QED
  BY <1>1, <1>2, <1>3, StreamInvInit DEF RecordInv

LEMMA RecordInvNext == RecordInv /\ [StreamNext]_streamVars => RecordInv'
<1> SUFFICES ASSUME RecordInv, [StreamNext]_streamVars PROVE RecordInv'
  OBVIOUS
<1>1. StreamInv'
  BY StreamInvNext DEF RecordInv
<1>2. CASE StreamNext
  <2>1. RelayInv /\ (Streamed => InStep) /\ Threads /\ Outcome
    BY DEF RecordInv, StreamInv
  <2>2. Threads' /\ Outcome'
    BY <1>2, <2>1, ThreadsNext, OutcomeNext
  <2>3. InView' => InView
    BY <1>2 DEF StreamNext, RunSteps, ThreadSteps, RelaySteps, StartRun, Dispatch, Reply, Fail, CloseRow, CrewEnds,
       Record, HandOver, Open, Begin, Forward, Notice, Conclude, Finish, Cancel, CancelClosing, Leave, RelayStep,
       relayVars, InView, Streamed
  <2>4. InView' => Alike'
    BY <1>2, <2>1, <2>3, AlikeNext DEF RecordInv, InView
  <2> QED
    BY <1>1, <2>2, <2>4 DEF RecordInv
<1>3. CASE UNCHANGED streamVars
  <2>1. UNCHANGED <<relay, frames, queue, ready, run, crew, emitted, holding, events, stored>>
    BY <1>3 DEF streamVars, relayVars, crewVars, runVars
  <2>2. Threads'
    BY <2>1 DEF RecordInv, Threads, Keeps, Brings
  <2>3. Outcome'
    BY <2>1 DEF RecordInv, Outcome, Has
  <2>4. InFlight' = InFlight /\ Holders' = Holders /\ Coming' = Coming /\ InView' = InView
    BY <2>1 DEF InFlight, Holders, Coming, InView, Streamed
  <2>5. UNCHANGED <<SameLength, SameEnd, Lonely, SameFrames>>
    BY <2>1, <2>4 DEF SameLength, SameEnd, Lonely, SameFrames, Due
  <2>6. (InView => Alike)'
    BY <2>1, <2>4, <2>5 DEF RecordInv, Alike
  <2> QED
    BY <1>1, <2>2, <2>3, <2>6 DEF RecordInv
<1> QED
  BY <1>2, <1>3

LEMMA AtMostOne ==
    Cardinality({e \in Emitters : emitted[e] > 0}) <= 1 => Lonely
<1> SUFFICES ASSUME Cardinality({e \in Emitters : emitted[e] > 0}) <= 1,
                    NEW d \in Emitters, NEW e \in Emitters, emitted[d] > 0, emitted[e] > 0, d # e
             PROVE  FALSE
    BY DEF Lonely
<1>1. PICK S : S = {c \in Emitters : emitted[c] > 0}
  OBVIOUS
<1>2. IsFiniteSet(S) /\ Cardinality(S) \in Nat /\ d \in S /\ e \in S
  BY <1>1, RelayAssumption, FS_Subset, FS_CardinalityType DEF RelayAssumption
<1>3. IsFiniteSet(S \ {d}) /\ Cardinality(S \ {d}) = Cardinality(S) - 1 /\ e \in S \ {d}
  BY <1>2, FS_RemoveElement
<1>4. Cardinality(S \ {d}) = 0
  BY <1>1, <1>2, <1>3, FS_CardinalityType
<1> QED
  BY <1>3, <1>4, FS_EmptySet

LEMMA RecordInvSuffices == RecordInv => RecordIsTrue
<1> SUFFICES ASSUME RecordInv
             PROVE  RecordIsTheStream /\ RecordTellsTheOutcome
    BY DEF RecordIsTrue
<1>0. RelayInv /\ (Streamed => InStep) /\ Threads /\ Outcome /\ (InView => Alike) /\ MaxEvents \in Nat \ {0}
  BY RelayAssumption DEF RecordInv, StreamInv, RelayAssumption
<1>1. RecordTellsTheOutcome
  BY <1>0 DEF RecordTellsTheOutcome, Threads, Outcome, Recorded, Has
<1>2. ASSUME relay = "ended", stored # <<>>
      PROVE  /\ Len(stored) = IF Len(frames) < MaxEvents THEN Len(frames) ELSE MaxEvents
             /\ Lonely => IsPrefix(stored, frames)
  <2>1. Streamed /\ InStep /\ Alike
    BY <1>0, <1>2 DEF InView, Streamed
  <2>2. stored = events /\ SameLength /\ (Lonely => SameFrames)
    BY <1>2, <2>1 DEF Alike
  <2>3. run \in {"returned", "raised"} /\ queue = <<>>
    BY <1>2, <2>1 DEF InStep
  <2>4. ready = <<>> /\ \A e \in Emitters : ~holding[e]
    BY <1>0, <2>1, <2>3 DEF InStep, RelayInv, RelayTypeOK
  <2>5. Coming = 0 /\ Cardinality(Holders) = 0
    BY <1>2, <2>3, <2>4, NobodyHolds DEF Coming
  <2>6. InFlight = frames /\ frames \in Seq(Contract!Frames) /\ stored \in Seq(Contract!Frames)
    <3>1. frames \in Seq(Contract!Frames) /\ stored \in Seq(Contract!Frames)
      BY <1>0 DEF RelayInv, RelayTypeOK
    <3>2. InFlight = frames
      BY <2>3, <2>4, <3>1, ConcatEmptySeq DEF InFlight
    <3> QED
      BY <3>1, <3>2
  <2>7. /\ DOMAIN stored = 1..Len(stored) /\ Len(stored) \in Nat
        /\ DOMAIN frames = 1..Len(frames) /\ Len(frames) \in Nat
    BY <2>6, LenProperties
  <2>8. Len(stored) = IF Len(frames) < MaxEvents THEN Len(frames) ELSE MaxEvents
    BY <2>2, <2>5, <2>6, <2>7 DEF SameLength, Due
  <2>9. ASSUME Lonely
        PROVE  IsPrefix(stored, frames)
    <3>1. Len(stored) <= Len(frames)
      BY <1>0, <2>7, <2>8
    <3>2. \A i \in 1..Len(stored) : stored[i] = frames[i]
      <4>1. \A i \in 1..Len(stored) : i \in DOMAIN stored \cap DOMAIN frames
        BY <2>7, <3>1
      <4> QED
        BY <2>2, <2>6, <2>9, <4>1 DEF SameFrames
    <3>3. /\ SubSeq(stored, 1, Len(stored)) \in Seq(Contract!Frames)
          /\ Len(SubSeq(stored, 1, Len(stored))) = Len(stored)
          /\ \A i \in 1..Len(stored) : SubSeq(stored, 1, Len(stored))[i] = stored[i]
      BY <2>6, <2>7
    <3>4. /\ SubSeq(frames, 1, Len(stored)) \in Seq(Contract!Frames)
          /\ Len(SubSeq(frames, 1, Len(stored))) = Len(stored)
          /\ \A i \in 1..Len(stored) : SubSeq(frames, 1, Len(stored))[i] = frames[i]
      BY <2>6, <2>7, <3>1
    <3>5. SubSeq(stored, 1, Len(stored)) = SubSeq(frames, 1, Len(stored))
      BY <3>2, <3>3, <3>4, SeqEqual
    <3> QED
      BY <3>1, <3>5 DEF IsPrefix
  <2> QED
    BY <2>8, <2>9
<1>3. RecordIsTheStream
  BY <1>2, AtMostOne DEF RecordIsTheStream
<1> QED
  BY <1>1, <1>3

\* What is recorded is what was streamed, up to where the recorder was full and
\* frame by frame for a single thread, and tells how its run ended, for any number
\* of threads and events and any limit of the recorder.
THEOREM RecordIsAlwaysTrue == StreamSpec => []RecordIsTrue
  BY RecordInvInit, RecordInvNext, RecordInvSuffices, PTL DEF StreamSpec
=============================================================================

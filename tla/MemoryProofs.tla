---------------------------- MODULE MemoryProofs ----------------------------
(***************************************************************************)
(* Proofs about what a process keeps in memory for its callers, for all    *)
(* values of the constants: voice sessions (a ticket opens one             *)
(* conversation, and a conversation leaves its slot and its transcript),   *)
(* the cached embeddings and sessions (what an invalidation drops and      *)
(* leaves, and what the monitors count) and the cached responses (what a   *)
(* layer keeps, and how old what it keeps may be).                         *)
(***************************************************************************)
EXTENDS VoiceCall, ContentCache, ResponseCache, SequenceLemmas

-----------------------------------------------------------------------------
(***************************************************************************)
(* Voice sessions (VoiceCall)                                              *)
(***************************************************************************)

\* TicketInv says which tickets are remembered as spent; the other invariants follow a
\* conversation from its ticket to its slot and its transcript.
SpentEntry == [ticket : Tickets, since : Nat]
Connection == [at : Stages, ticket : Tickets \cup {NoTicket}, process : Nat, heard : BOOLEAN, reported : BOOLEAN,
               up : {"running", "returned", "raised"}, down : {"running", "returned", "raised"}]

VoiceDataOK ==
    /\ now \in Nat /\ process \in Nat
    /\ minted \in [Tickets -> {Unminted} \cup Nat] /\ \A t \in Tickets : minted[t] <= now
    /\ spent \in Seq(SpentEntry)
    /\ conn \in [Conns -> Connection]
    /\ \A c \in Conns : conn[c].ticket # NoTicket => minted[conn[c].ticket] # Unminted

-----------------------------------------------------------------------------
(* Tickets                                                                 *)

\* Entries are in the order of their times, each of a ticket of its own that was
\* alive then, and there are no more than the cache holds.
SpentInOrder ==
    /\ Len(spent) <= MaxSpent
    /\ \A i \in DOMAIN spent :
         LET t == spent[i].ticket
         IN  /\ minted[t] # Unminted /\ minted[t] <= spent[i].since
             /\ spent[i].since <= minted[t] + Life /\ spent[i].since <= now
    /\ \A i, j \in DOMAIN spent : i < j => /\ spent[i].since <= spent[j].since
                                           /\ spent[i].ticket # spent[j].ticket

\* What Mint assumes, at all times.
FewAreRecent == Cardinality(Recent) <= MaxSpent

\* A ticket that is alive and was spent in this process is remembered.
AliveIsRemembered ==
    \A c \in Conns :
        /\ conn[c].ticket # NoTicket => conn[c].process <= process
        /\ conn[c].ticket # NoTicket /\ conn[c].process = process /\ Alive(conn[c].ticket) =>
             \E i \in DOMAIN spent : spent[i].ticket = conn[c].ticket

TicketInv ==
    /\ VoiceDataOK
    /\ FewAreRecent
    /\ Life < Remember => SpentInOrder /\ AliveIsRemembered /\ OneConversationPerTicket

LEMMA RecentIsFinite == IsFiniteSet(Recent) /\ Cardinality(Recent) \in Nat
<1>1. Recent \in SUBSET Tickets
  BY DEF Recent
<1> QED
  BY <1>1, FS_Subset, FS_CardinalityType, VoiceAssumption DEF VoiceAssumption

LEMMA TicketInvInit == VoiceInit => TicketInv
<1> SUFFICES ASSUME VoiceInit PROVE TicketInv
  OBVIOUS
<1>1. VoiceDataOK
  <2>1. Silent \in Connection
    BY DEF Silent, Connection, Stages
  <2> QED
    BY <2>1 DEF VoiceInit, VoiceDataOK, Unminted, Silent
<1>2. Recent = {}
  BY DEF VoiceInit, Recent
<1>3. FewAreRecent
  BY <1>2, FS_EmptySet, VoiceAssumption DEF FewAreRecent, VoiceAssumption
<1>4. SpentInOrder
  BY VoiceAssumption DEF VoiceInit, SpentInOrder, VoiceAssumption
<1>5. AliveIsRemembered /\ OneConversationPerTicket
  BY DEF VoiceInit, AliveIsRemembered, OneConversationPerTicket, Silent
<1> QED
  BY <1>1, <1>3, <1>4, <1>5 DEF TicketInv

\* A spent ticket that is still alive has not been forgotten.
LEMMA AliveHasNotExpired ==
    ASSUME VoiceDataOK, Life < Remember, SpentInOrder, NEW i \in DOMAIN spent, Alive(spent[i].ticket)
    PROVE  i \in Remembered
<1>1. spent[i] \in SpentEntry
  BY DEF VoiceDataOK
<1> PICK t \in Tickets, since \in Nat : t = spent[i].ticket /\ since = spent[i].since
  BY <1>1 DEF SpentEntry
<1>2. minted[t] \in Nat /\ minted[t] <= since /\ now <= minted[t] + Life /\ now \in Nat
  BY DEF SpentInOrder, VoiceDataOK, Alive, Unminted
<1>3. now < since + Remember
  BY <1>2, VoiceAssumption DEF VoiceAssumption
<1> QED
  BY <1>3 DEF Remembered

\* The tickets of the cache and the one that is spent next are distinct and,
\* while the oldest of them is alive, all recent: one of them too many.
LEMMA OldestHasExpired ==
    ASSUME VoiceDataOK, FewAreRecent, Life < Remember, SpentInOrder,
           NEW t \in Tickets, Redeemable(t), Len(spent) = MaxSpent
    PROVE  ~Alive(spent[1].ticket)
<1> USE VoiceAssumption DEF VoiceAssumption
<1> SUFFICES ASSUME Alive(spent[1].ticket) PROVE FALSE
  OBVIOUS
<1> DEFINE n == Len(spent)
           f == [i \in 1..(n + 1) |-> IF i <= n THEN spent[i].ticket ELSE t]
<1>1. n \in Nat \ {0} /\ DOMAIN spent = 1..n /\ \A i \in 1..n : spent[i] \in SpentEntry
  BY DEF VoiceDataOK
<1>2. \A i \in 1..n : spent[i].ticket \in Tickets /\ spent[i].since \in Nat
  BY <1>1 DEF SpentEntry
<1>3. \A i \in 1..n : spent[i].ticket # t
  BY <1>1, AliveHasNotExpired DEF Redeemable
<1>4. \A i, j \in 1..(n + 1) : f[i] = f[j] => i = j
  <2> SUFFICES ASSUME NEW i \in 1..(n + 1), NEW j \in 1..(n + 1), i < j PROVE f[i] # f[j]
    BY <1>1
  <2>1. i \in 1..n
    BY <1>1
  <2>2. CASE j \in 1..n
    BY <1>1, <2>1, <2>2 DEF SpentInOrder
  <2>3. CASE j = n + 1
    BY <1>1, <1>3, <2>1, <2>3
  <2> QED
    BY <1>1, <2>2, <2>3
<1>5. /\ minted[spent[1].ticket] \in Nat /\ now <= minted[spent[1].ticket] + Life /\ now \in Nat
      /\ minted[spent[1].ticket] <= spent[1].since
  <2>1. 1 \in DOMAIN spent /\ spent[1].ticket \in Tickets
    BY <1>1, <1>2
  <2>2. minted[spent[1].ticket] \in Nat /\ now <= minted[spent[1].ticket] + Life /\ now \in Nat
    BY <2>1 DEF Alive, VoiceDataOK, Unminted
  <2> QED
    BY <2>1, <2>2 DEF SpentInOrder
<1>6. ASSUME NEW i \in 1..n PROVE spent[i].ticket \in Recent
  <2>1. /\ minted[spent[i].ticket] \in Nat /\ spent[i].since <= minted[spent[i].ticket] + Life
        /\ minted[spent[i].ticket] # Unminted
    BY <1>1, <1>2 DEF SpentInOrder, VoiceDataOK, Unminted
  <2>2. spent[1].since <= spent[i].since
    <3>1. CASE i = 1
      BY <1>1, <1>2, <3>1
    <3>2. CASE i # 1
      BY <1>1, <3>2 DEF SpentInOrder
    <3> QED
      BY <3>1, <3>2
  <2>3. now <= minted[spent[i].ticket] + 2 * Life
    BY <1>1, <1>2, <1>5, <2>1, <2>2
  <2> QED
    BY <1>2, <2>1, <2>3 DEF Recent
<1>7. t \in Recent
  BY <1>5 DEF Redeemable, Alive, Recent, VoiceDataOK, Unminted
<1>8. f \in [1..(n + 1) -> Recent]
  BY <1>1, <1>6, <1>7
<1>9. IsFiniteSet(1..(n + 1)) /\ Cardinality(1..(n + 1)) = n + 1
  BY <1>1, FS_Interval
<1>10. Cardinality(Recent) < n + 1
  BY <1>1, RecentIsFinite DEF FewAreRecent
<1>11. \E i, j \in 1..(n + 1) : i # j /\ f[i] = f[j]
  <2> HIDE DEF f
  <2> QED
    BY <1>8, <1>9, <1>10, RecentIsFinite, FS_PigeonHole
<1> QED
  BY <1>4, <1>11

\* What spending a ticket does to the cache.
LEMMA SpendKeepsOrder ==
    ASSUME VoiceDataOK, FewAreRecent, Life < Remember, SpentInOrder,
           NEW t \in Tickets, Redeemable(t), Spend(t), now' = now, minted' = minted
    PROVE  /\ SpentInOrder'
           /\ \E i \in DOMAIN spent' : spent'[i].ticket = t
           /\ \A i \in DOMAIN spent : Alive(spent[i].ticket) =>
                \E j \in DOMAIN spent' : spent'[j].ticket = spent[i].ticket
<1> USE VoiceAssumption DEF VoiceAssumption
<1> DEFINE n    == Len(spent)
           full == n = MaxSpent
           e    == [ticket |-> t, since |-> now]
<1>1. n \in Nat /\ DOMAIN spent = 1..n /\ n <= MaxSpent /\ now \in Nat /\ spent \in Seq(SpentEntry)
  BY DEF VoiceDataOK, SpentInOrder
<1>2. \A i \in 1..n : spent[i].ticket \in Tickets /\ spent[i].since \in Nat
  <2>1. \A i \in 1..n : spent[i] \in SpentEntry
    BY <1>1
  <2> QED
    BY <2>1 DEF SpentEntry
<1>3. e \in SpentEntry
  BY <1>1 DEF SpentEntry
<1>4. PICK d \in {0, 1}, m \in Nat : n = m + d /\ (full => d = 1) /\ (~full => d = 0)
  <2> HIDE DEF n
  <2>1. CASE full
    <3>1. n - 1 \in Nat /\ n = (n - 1) + 1
      BY <1>1, <2>1
    <3> QED
      BY <2>1, <3>1
  <2>2. CASE ~full
    BY <1>1, <2>2
  <2> QED
    BY <2>1, <2>2
<1>5. m + 1 <= MaxSpent
  <2> HIDE DEF n
  <2> QED
    BY <1>1, <1>4
<1>6. /\ Len(spent') = m + 1 /\ spent'[m + 1] = e /\ DOMAIN spent' = 1..(m + 1)
      /\ \A i \in 1..m : spent'[i] = spent[i + d]
  <2>1. CASE full
    <3>1. spent # <<>>
      BY <1>1, <2>1
    <3>2. /\ Tail(spent) \in Seq(SpentEntry) /\ Len(Tail(spent)) = n - 1
          /\ \A i \in 1..(n - 1) : Tail(spent)[i] = spent[i + 1]
      BY <1>1, <3>1
    <3>3. spent' = Append(Tail(spent), e)
      BY <2>1 DEF Spend
    <3>4. d = 1 /\ m = n - 1
      BY <1>4, <2>1
    <3> HIDE DEF e
    <3> QED
      BY <1>1, <1>3, <3>2, <3>3, <3>4, AppendProperties
  <2>2. CASE ~full
    <3>1. spent' = Append(spent, e)
      BY <2>2 DEF Spend
    <3>2. /\ Len(spent') = n + 1 /\ spent'[n + 1] = e /\ DOMAIN spent' = 1..(n + 1)
          /\ \A i \in 1..n : spent'[i] = spent[i]
      <4> HIDE DEF e
      <4> QED
        BY <1>1, <1>3, <3>1, AppendProperties
    <3>3. d = 0 /\ m = n
      BY <1>4, <2>2
    <3> HIDE DEF n
    <3> QED
      BY <1>1, <3>2, <3>3
  <2> QED
    BY <2>1, <2>2
<1>7. /\ Alive(t) /\ minted[t] \in Nat /\ minted[t] # Unminted /\ now <= minted[t] + Life
      /\ minted[t] <= now
  BY DEF Redeemable, Alive, VoiceDataOK, Unminted
<1> HIDE DEF e
<1>8. e.ticket = t /\ e.since = now
  BY DEF e
<1>9. \A i \in 1..n : spent[i].ticket # t
  BY <1>1, AliveHasNotExpired, <1>7 DEF Redeemable
<1>10. full => ~Alive(spent[1].ticket)
  BY OldestHasExpired
<1> HIDE DEF n, full
<1>11. Len(spent') <= MaxSpent
  BY <1>6, <1>5
<1>12. ASSUME NEW i \in 1..(m + 1)
       PROVE  /\ minted[spent'[i].ticket] # Unminted /\ minted[spent'[i].ticket] <= spent'[i].since
              /\ spent'[i].since <= minted[spent'[i].ticket] + Life /\ spent'[i].since <= now
  <2>1. CASE i = m + 1
    <3>1. spent'[i] = e
      BY <2>1, <1>6
    <3> QED
      BY <3>1, <1>7, <1>8, <1>1
  <2>2. CASE i # m + 1
    <3>1. i \in 1..m
      BY <1>4, <2>2
    <3>2. spent'[i] = spent[i + d] /\ i + d \in DOMAIN spent
      BY <3>1, <1>1, <1>6, <1>4
    <3> QED
      BY <3>2 DEF SpentInOrder
  <2> QED
    BY <2>1, <2>2
<1>13. ASSUME NEW i \in 1..(m + 1), NEW j \in 1..(m + 1), i < j
       PROVE  spent'[i].since <= spent'[j].since /\ spent'[i].ticket # spent'[j].ticket
  <2>1. i \in 1..m /\ spent'[i] = spent[i + d] /\ i + d \in DOMAIN spent
    <3>1. i \in 1..m
      BY <1>4, <1>13
    <3> QED
      BY <3>1, <1>1, <1>6, <1>4
  <2>2. CASE j = m + 1
    <3>1. spent'[j] = e
      BY <2>2, <1>6
    <3>2. spent[i + d].since <= now /\ spent[i + d].ticket # t
      BY <2>1, <1>1, <1>9 DEF SpentInOrder
    <3> QED
      BY <2>1, <3>1, <3>2, <1>8
  <2>3. CASE j # m + 1
    <3>1. j \in 1..m /\ spent'[j] = spent[j + d] /\ j + d \in DOMAIN spent
      BY <2>3, <1>1, <1>6, <1>4
    <3>2. i + d < j + d
      BY <1>4, <1>13
    <3> QED
      BY <2>1, <3>1, <3>2 DEF SpentInOrder
  <2> QED
    BY <2>2, <2>3
<1>14. SpentInOrder'
  BY <1>6, <1>11, <1>12, <1>13 DEF SpentInOrder
<1>15. m + 1 \in DOMAIN spent' /\ spent'[m + 1].ticket = t
  BY <1>6, <1>4, <1>8
<1>16. ASSUME NEW i \in DOMAIN spent, Alive(spent[i].ticket)
       PROVE  \E j \in DOMAIN spent' : spent'[j].ticket = spent[i].ticket
  <2>1. i - d \in 1..m
    <3>1. full => i # 1
      BY <1>10, <1>16
    <3> QED
      BY <3>1, <1>1, <1>4
  <2>2. spent'[i - d] = spent[i] /\ i - d \in DOMAIN spent'
    <3>1. (i - d) + d = i
      BY <1>1, <1>4
    <3> QED
      BY <2>1, <3>1, <1>6, <1>4
  <2> QED
    BY <2>2
<1> QED
  BY <1>14, <1>15, <1>16

\* A step that redeems nothing, while the clock stands still.
LEMMA QuietKeepsTickets ==
    ASSUME TicketInv, UNCHANGED <<now, minted, spent, process>>, conn' \in [Conns -> Connection],
           \A c \in Conns : conn'[c].ticket = conn[c].ticket /\ conn'[c].process = conn[c].process
    PROVE  TicketInv'
<1>1. VoiceDataOK'
  BY DEF TicketInv, VoiceDataOK
<1>2. Recent' = Recent /\ \A t : Alive(t)' = Alive(t)
  BY DEF Recent, Alive
<1>3. FewAreRecent'
  BY <1>2 DEF TicketInv, FewAreRecent
<1>4. SpentInOrder => SpentInOrder'
  BY DEF SpentInOrder
<1>5. OneConversationPerTicket => OneConversationPerTicket'
  BY DEF OneConversationPerTicket
<1>6. AliveIsRemembered => AliveIsRemembered'
  <2> SUFFICES ASSUME AliveIsRemembered, NEW c \in Conns, conn'[c].ticket # NoTicket
               PROVE  /\ conn'[c].process <= process'
                      /\ conn'[c].process = process' /\ Alive(conn'[c].ticket) =>
                           \E i \in DOMAIN spent' : spent'[i].ticket = conn'[c].ticket
    BY DEF AliveIsRemembered, Alive
  <2> QED
    BY DEF AliveIsRemembered
<1> QED
  BY <1>1, <1>3, <1>4, <1>5, <1>6 DEF TicketInv

LEMMA TickKeepsTickets == ASSUME TicketInv, Tick PROVE TicketInv'
<1> USE VoiceAssumption DEF VoiceAssumption
<1>1. now \in Nat /\ now' = now + 1 /\ UNCHANGED <<minted, spent, conn, process>>
  BY DEF Tick, TicketInv, VoiceDataOK
<1>2. VoiceDataOK'
  BY <1>1 DEF TicketInv, VoiceDataOK, Unminted
<1>3. \A t \in Tickets : minted[t] \in Int
  BY DEF TicketInv, VoiceDataOK, Unminted
<1>4. Recent' \in SUBSET Recent
  BY <1>1, <1>3 DEF Recent
<1>5. FewAreRecent'
  <2>1. Cardinality(Recent') <= Cardinality(Recent) /\ Cardinality(Recent') \in Nat
    BY <1>4, RecentIsFinite, FS_Subset, FS_CardinalityType
  <2> QED
    BY <2>1, RecentIsFinite DEF TicketInv, FewAreRecent
<1>6. SpentInOrder => SpentInOrder'
  <2>1. \A i \in DOMAIN spent : spent[i].since \in Nat
    <3>1. \A i \in DOMAIN spent : spent[i] \in SpentEntry
      BY DEF TicketInv, VoiceDataOK
    <3> QED
      BY <3>1 DEF SpentEntry
  <2> QED
    BY <1>1, <2>1 DEF SpentInOrder
<1>7. OneConversationPerTicket => OneConversationPerTicket'
  BY <1>1 DEF OneConversationPerTicket
<1>8. AliveIsRemembered => AliveIsRemembered'
  <2> SUFFICES ASSUME AliveIsRemembered, NEW c \in Conns, conn[c].ticket # NoTicket
               PROVE  /\ conn[c].process <= process
                      /\ conn[c].process = process /\ Alive(conn[c].ticket)' =>
                           \E i \in DOMAIN spent : spent[i].ticket = conn[c].ticket
    BY <1>1 DEF AliveIsRemembered, Alive
  <2>1. conn[c].ticket \in Tickets
    BY DEF TicketInv, VoiceDataOK, Connection
  <2>2. Alive(conn[c].ticket)' => Alive(conn[c].ticket)
    BY <1>1, <1>3, <2>1 DEF Alive
  <2> QED
    BY <2>2 DEF AliveIsRemembered
<1> QED
  BY <1>2, <1>5, <1>6, <1>7, <1>8 DEF TicketInv

LEMMA MintKeepsTickets == ASSUME TicketInv, NEW t \in Tickets, Mint(t) PROVE TicketInv'
<1> USE VoiceAssumption DEF VoiceAssumption
<1>1. /\ minted' = [minted EXCEPT ![t] = now] /\ minted[t] = Unminted
      /\ UNCHANGED <<now, spent, conn, process>> /\ Cardinality(Recent) < MaxSpent
  BY DEF Mint
<1>2. VoiceDataOK'
  BY <1>1 DEF TicketInv, VoiceDataOK, Unminted
<1>3. \A u \in Tickets \ {t} : minted'[u] = minted[u]
  BY <1>1 DEF TicketInv, VoiceDataOK
<1>4. FewAreRecent'
  <2>1. Recent' \in SUBSET (Recent \cup {t})
    BY <1>1, <1>3 DEF Recent
  <2>2. /\ IsFiniteSet(Recent \cup {t}) /\ Cardinality(Recent \cup {t}) <= Cardinality(Recent) + 1
        /\ Cardinality(Recent \cup {t}) \in Nat
    <3>1. /\ IsFiniteSet(Recent \cup {t})
          /\ Cardinality(Recent \cup {t}) = IF t \in Recent THEN Cardinality(Recent) ELSE Cardinality(Recent) + 1
      BY RecentIsFinite, FS_AddElement
    <3> QED
      BY <3>1, RecentIsFinite
  <2>3. Cardinality(Recent') <= Cardinality(Recent \cup {t}) /\ Cardinality(Recent') \in Nat
    BY <2>1, <2>2, FS_Subset, FS_CardinalityType
  <2> QED
    BY <1>1, <2>2, <2>3, RecentIsFinite DEF FewAreRecent
<1>5. ASSUME SpentInOrder PROVE SpentInOrder'
  <2>1. \A i \in DOMAIN spent : spent[i].ticket \in Tickets \ {t}
    <3>1. \A i \in DOMAIN spent : spent[i] \in SpentEntry
      BY DEF TicketInv, VoiceDataOK
    <3> QED
      BY <1>1, <1>5, <3>1 DEF SpentInOrder, SpentEntry
  <2> QED
    BY <1>1, <1>3, <1>5, <2>1 DEF SpentInOrder
<1>6. OneConversationPerTicket => OneConversationPerTicket'
  BY <1>1 DEF OneConversationPerTicket
<1>7. AliveIsRemembered => AliveIsRemembered'
  <2> SUFFICES ASSUME AliveIsRemembered, NEW c \in Conns, conn[c].ticket # NoTicket
               PROVE  /\ conn[c].process <= process
                      /\ conn[c].process = process /\ Alive(conn[c].ticket)' =>
                           \E i \in DOMAIN spent : spent[i].ticket = conn[c].ticket
    BY <1>1 DEF AliveIsRemembered, Alive
  <2>1. conn[c].ticket \in Tickets \ {t}
    BY <1>1 DEF TicketInv, VoiceDataOK, Connection
  <2>2. Alive(conn[c].ticket)' => Alive(conn[c].ticket)
    BY <1>1, <1>3, <2>1 DEF Alive
  <2> QED
    BY <2>2 DEF AliveIsRemembered
<1> QED
  BY <1>2, <1>4, <1>5, <1>6, <1>7 DEF TicketInv

\* Who is let in with a ticket is the first: had it been spent before, it would be
\* remembered.
LEMMA ConnectKeepsTickets ==
    ASSUME TicketInv, NEW c \in Conns, NEW t \in Tickets, Connect(c, t)
    PROVE  TicketInv'
<1> USE VoiceAssumption DEF VoiceAssumption
<1>1. PICK stage \in {"accepting", "refused"} :
        conn' = [conn EXCEPT ![c].at = stage, ![c].ticket = t, ![c].process = process]
  BY DEF Connect
<1>2. /\ UNCHANGED <<now, minted, process>> /\ Redeemable(t) /\ Spend(t) /\ Alive(t)
  BY DEF Connect, Redeemable
<1>3. /\ conn' \in [Conns -> Connection]
      /\ conn'[c].ticket = t /\ conn'[c].process = process
      /\ \A d \in Conns \ {c} : conn'[d] = conn[d]
  <2>1. conn[c] \in Connection /\ conn \in [Conns -> Connection] /\ process \in Nat /\ stage \in Stages
    BY DEF TicketInv, VoiceDataOK, Stages, Inside
  <2> DEFINE new == [conn[c] EXCEPT !.at = stage, !.ticket = t, !.process = process]
  <2>2. new \in Connection /\ new.ticket = t /\ new.process = process
    BY <2>1 DEF Connection
  <2>3. conn' = [conn EXCEPT ![c] = new]
    BY <1>1, <2>1
  <2> HIDE DEF new
  <2> QED
    BY <2>1, <2>2, <2>3
<1>4. VoiceDataOK'
  <2>1. [ticket |-> t, since |-> now] \in SpentEntry
    BY DEF TicketInv, VoiceDataOK, SpentEntry
  <2>2. spent' \in Seq(SpentEntry)
    <3> DEFINE kept == IF Len(spent) = MaxSpent THEN Tail(spent) ELSE spent
    <3>1. spent \in Seq(SpentEntry) /\ (Len(spent) = MaxSpent => spent # <<>>)
      BY DEF TicketInv, VoiceDataOK
    <3>2. kept \in Seq(SpentEntry)
      BY <3>1
    <3>3. spent' = Append(kept, [ticket |-> t, since |-> now])
      BY <1>2 DEF Spend
    <3> HIDE DEF kept
    <3> QED
      BY <2>1, <3>2, <3>3
  <2> QED
    BY <1>2, <1>3, <2>2 DEF TicketInv, VoiceDataOK, Alive
<1>5. FewAreRecent'
  BY <1>2 DEF TicketInv, FewAreRecent, Recent
<1>6. ASSUME Life < Remember PROVE SpentInOrder' /\ AliveIsRemembered' /\ OneConversationPerTicket'
  <2>1. /\ SpentInOrder'
        /\ \E i \in DOMAIN spent' : spent'[i].ticket = t
        /\ \A i \in DOMAIN spent : Alive(spent[i].ticket) =>
             \E j \in DOMAIN spent' : spent'[j].ticket = spent[i].ticket
    BY <1>2, <1>6, SpendKeepsOrder DEF TicketInv
  <2>2. \A u : Alive(u)' <=> Alive(u)
    BY <1>2 DEF Alive
  <2>3. AliveIsRemembered'
    <3> SUFFICES ASSUME NEW d \in Conns, conn'[d].ticket # NoTicket
                 PROVE  /\ conn'[d].process <= process'
                        /\ conn'[d].process = process' /\ Alive(conn'[d].ticket) =>
                             \E i \in DOMAIN spent' : spent'[i].ticket = conn'[d].ticket
      BY <1>2 DEF AliveIsRemembered, Alive
    <3>1. CASE d = c
      BY <1>2, <1>3, <2>1, <3>1 DEF TicketInv, VoiceDataOK
    <3>2. CASE d # c
      BY <1>2, <1>3, <1>6, <2>1, <3>2 DEF TicketInv, AliveIsRemembered
    <3> QED
      BY <3>1, <3>2
  <2>4. ASSUME NEW d \in Conns \ {c}, conn[d].ticket = t, conn[d].process = process PROVE FALSE
    <3>1. PICK i \in DOMAIN spent : spent[i].ticket = t
      BY <1>2, <1>6, <2>4 DEF TicketInv, AliveIsRemembered
    <3>2. i \in Remembered
      BY <1>2, <1>6, <3>1, AliveHasNotExpired DEF TicketInv
    <3> QED
      BY <1>2, <3>1, <3>2 DEF Redeemable
  <2>5. OneConversationPerTicket'
    BY <1>3, <1>6, <2>4 DEF TicketInv, OneConversationPerTicket
  <2> QED
    BY <2>1, <2>3, <2>5
<1> QED
  BY <1>4, <1>5, <1>6 DEF TicketInv

LEMMA RestartKeepsTickets == ASSUME TicketInv, Restart PROVE TicketInv'
<1> USE VoiceAssumption DEF VoiceAssumption
<1>1. /\ UNCHANGED <<now, minted>> /\ process' = process + 1 /\ spent' = <<>>
      /\ conn' = [c \in Conns |-> IF conn[c].at \in Inside THEN [conn[c] EXCEPT !.at = "lost"] ELSE conn[c]]
  BY DEF Restart
<1>2. /\ conn' \in [Conns -> Connection]
      /\ \A c \in Conns : conn'[c].ticket = conn[c].ticket /\ conn'[c].process = conn[c].process
  <2>1. \A c \in Conns : conn[c] \in Connection
    BY DEF TicketInv, VoiceDataOK
  <2>2. \A c \in Conns : /\ conn'[c] = IF conn[c].at \in Inside THEN [conn[c] EXCEPT !.at = "lost"] ELSE conn[c]
                         /\ [conn[c] EXCEPT !.at = "lost"] \in Connection
                         /\ [conn[c] EXCEPT !.at = "lost"].ticket = conn[c].ticket
                         /\ [conn[c] EXCEPT !.at = "lost"].process = conn[c].process
    BY <1>1, <2>1 DEF Connection, Stages
  <2>3. \A c \in Conns : /\ conn'[c] \in Connection
                         /\ conn'[c].ticket = conn[c].ticket /\ conn'[c].process = conn[c].process
    BY <2>1, <2>2
  <2> QED
    BY <1>1, <2>3
<1>3. VoiceDataOK'
  BY <1>1, <1>2 DEF TicketInv, VoiceDataOK
<1>4. FewAreRecent'
  BY <1>1 DEF TicketInv, FewAreRecent, Recent
<1>5. SpentInOrder'
  BY <1>1 DEF SpentInOrder
<1>6. OneConversationPerTicket => OneConversationPerTicket'
  BY <1>2 DEF OneConversationPerTicket
<1>7. AliveIsRemembered => AliveIsRemembered'
  <2>1. process \in Nat /\ \A c \in Conns : conn[c].process \in Nat
    BY DEF TicketInv, VoiceDataOK, Connection
  <2> QED
    BY <1>1, <1>2, <2>1 DEF AliveIsRemembered
<1> QED
  BY <1>3, <1>4, <1>5, <1>6, <1>7 DEF TicketInv

\* The steps of a conversation leave its ticket as it was.
LEMMA ConversationKeepsTickets ==
    ASSUME TicketInv, NEW c \in Conns,
           \/ Accept(c) \/ Hear(c) \/ PumpUpEnds(c) \/ PumpDownEnds(c)
           \/ BridgeEnds(c) \/ BridgeStopped(c) \/ Finally(c)
           \/ \E t \in Tickets : Refuse(c, t)
    PROVE  TicketInv'
<1> USE DEF Put
<1>1. conn[c] \in Connection
  BY DEF TicketInv, VoiceDataOK
<1>2. /\ UNCHANGED <<now, minted, spent, process>>
      /\ \/ \E stage \in Stages : conn' = [conn EXCEPT ![c].at = stage]
         \/ conn' = [conn EXCEPT ![c].heard = TRUE]
         \/ \E end \in {"returned", "raised"} : conn' = [conn EXCEPT ![c].up = end]
         \/ \E end \in {"returned", "raised"} : conn' = [conn EXCEPT ![c].down = end]
         \/ conn' = [conn EXCEPT ![c].at = "reported", ![c].reported = TRUE]
  BY DEF Accept, Hear, PumpUpEnds, PumpDownEnds, BridgeEnds, BridgeStopped, Finally, Refuse, Stages, Inside
<1>3. /\ conn' \in [Conns -> Connection]
      /\ \A d \in Conns : conn'[d].ticket = conn[d].ticket /\ conn'[d].process = conn[d].process
  <2>1. ASSUME NEW new \in Connection, conn' = [conn EXCEPT ![c] = new],
               new.ticket = conn[c].ticket, new.process = conn[c].process
        PROVE  /\ conn' \in [Conns -> Connection]
               /\ \A d \in Conns : conn'[d].ticket = conn[d].ticket /\ conn'[d].process = conn[d].process
    BY <2>1 DEF TicketInv, VoiceDataOK
  <2>3. CASE \E stage \in Stages : conn' = [conn EXCEPT ![c].at = stage]
    <3>0. PICK stage \in Stages : conn' = [conn EXCEPT ![c].at = stage]
      BY <2>3
    <3> DEFINE new == [conn[c] EXCEPT !.at = stage]
    <3>1. new \in Connection /\ new.ticket = conn[c].ticket /\ new.process = conn[c].process
      BY <1>1 DEF Connection, Stages, Inside
    <3>2. conn' = [conn EXCEPT ![c] = new]
      BY <3>0 DEF TicketInv, VoiceDataOK
    <3> HIDE DEF new
    <3> QED
      BY <3>1, <3>2, <2>1
  <2>4. CASE conn' = [conn EXCEPT ![c].heard = TRUE]
    <3> DEFINE new == [conn[c] EXCEPT !.heard = TRUE]
    <3>1. new \in Connection /\ new.ticket = conn[c].ticket /\ new.process = conn[c].process
      BY <1>1 DEF Connection, Stages, Inside
    <3>2. conn' = [conn EXCEPT ![c] = new]
      BY <2>4 DEF TicketInv, VoiceDataOK
    <3> HIDE DEF new
    <3> QED
      BY <3>1, <3>2, <2>1
  <2>5. CASE \E end \in {"returned", "raised"} : conn' = [conn EXCEPT ![c].up = end]
    <3>0. PICK end \in {"returned", "raised"} : conn' = [conn EXCEPT ![c].up = end]
      BY <2>5
    <3> DEFINE new == [conn[c] EXCEPT !.up = end]
    <3>1. new \in Connection /\ new.ticket = conn[c].ticket /\ new.process = conn[c].process
      BY <1>1 DEF Connection, Stages, Inside
    <3>2. conn' = [conn EXCEPT ![c] = new]
      BY <3>0 DEF TicketInv, VoiceDataOK
    <3> HIDE DEF new
    <3> QED
      BY <3>1, <3>2, <2>1
  <2>6. CASE \E end \in {"returned", "raised"} : conn' = [conn EXCEPT ![c].down = end]
    <3>0. PICK end \in {"returned", "raised"} : conn' = [conn EXCEPT ![c].down = end]
      BY <2>6
    <3> DEFINE new == [conn[c] EXCEPT !.down = end]
    <3>1. new \in Connection /\ new.ticket = conn[c].ticket /\ new.process = conn[c].process
      BY <1>1 DEF Connection, Stages, Inside
    <3>2. conn' = [conn EXCEPT ![c] = new]
      BY <3>0 DEF TicketInv, VoiceDataOK
    <3> HIDE DEF new
    <3> QED
      BY <3>1, <3>2, <2>1
  <2>7. CASE conn' = [conn EXCEPT ![c].at = "reported", ![c].reported = TRUE]
    <3> DEFINE new == [conn[c] EXCEPT !.at = "reported", !.reported = TRUE]
    <3>1. new \in Connection /\ new.ticket = conn[c].ticket /\ new.process = conn[c].process
      BY <1>1 DEF Connection, Stages, Inside
    <3>2. conn' = [conn EXCEPT ![c] = new]
      BY <2>7 DEF TicketInv, VoiceDataOK
    <3> HIDE DEF new
    <3> QED
      BY <3>1, <3>2, <2>1
  <2> QED
    BY <1>2, <2>3, <2>4, <2>5, <2>6, <2>7
<1> QED
  BY <1>2, <1>3, QuietKeepsTickets

LEMMA TicketStepKeepsInv == TicketInv /\ [VoiceNext]_vars => TicketInv'
<1> SUFFICES ASSUME TicketInv, [VoiceNext]_vars PROVE TicketInv'
  OBVIOUS
<1>1. CASE UNCHANGED voiceVars
  <2>1. UNCHANGED <<now, minted, spent, process, conn>>
    BY <1>1 DEF voiceVars
  <2> QED
    BY <2>1, QuietKeepsTickets DEF TicketInv, VoiceDataOK
<1>2. ASSUME NEW s \in Sessions, Create(s) \/ Delete(s) PROVE TicketInv'
  BY <1>1, <1>2 DEF Create, Delete
<1>3. CASE UNCHANGED vars
  BY <1>1, <1>3 DEF vars
<1> QED
  BY <1>2, <1>3, TickKeepsTickets, RestartKeepsTickets, MintKeepsTickets, ConnectKeepsTickets,
     ConversationKeepsTickets DEF VoiceNext

\* A ticket opens one conversation at most while the process lives, for any number
\* of tickets and connections and any size of the cache (redeem).
THEOREM TicketsOpenOneConversation == VoiceSpec => []OneConversationPerTicket
<1>1. TicketInv => OneConversationPerTicket
  BY DEF TicketInv, OneConversationPerTicket
<1> QED
  BY <1>1, TicketInvInit, TicketStepKeepsInv, PTL DEF VoiceSpec

-----------------------------------------------------------------------------
(* Slots                                                                   *)

Speakers == {c \in Conns : conn[c].at \in Inside}

SlotsInv == VoiceDataOK /\ permits \in Nat /\ IsFiniteSet(Speakers) /\ CapacityIsReturned

\* What a step on a connection does to it, and that it leaves the others alone.
LEMMA ConversationSteps ==
    ASSUME VoiceDataOK, NEW c \in Conns,
           \/ Accept(c) \/ Hear(c) \/ PumpUpEnds(c) \/ PumpDownEnds(c)
           \/ BridgeEnds(c) \/ BridgeStopped(c)
           \/ \E t \in Tickets : Refuse(c, t)
    PROVE  /\ UNCHANGED <<storeVars, permits>>
           /\ \A d \in Conns \ {c} : conn'[d] = conn[d]
           /\ conn[c].at # "ended" /\ conn'[c].at # "ended"
           /\ conn[c].at \in Inside <=> conn'[c].at \in Inside
           /\ conn'[c].ticket = conn[c].ticket
<1> USE DEF Put, Speaking
<1>1. conn \in [Conns -> Connection] /\ conn[c] \in Connection
  BY DEF VoiceDataOK
<1>2. /\ UNCHANGED <<storeVars, permits>>
      /\ \A d \in Conns \ {c} : conn'[d] = conn[d]
  BY <1>1 DEF Accept, Hear, PumpUpEnds, PumpDownEnds, BridgeEnds, BridgeStopped, Refuse
<1>3. CASE Accept(c)
  BY <1>1, <1>2, <1>3 DEF Accept, Inside, Connection
<1>4. CASE Hear(c)
  BY <1>1, <1>2, <1>4 DEF Hear, Inside, Connection
<1>5. CASE PumpUpEnds(c)
  BY <1>1, <1>2, <1>5 DEF PumpUpEnds, Inside, Connection
<1>6. CASE PumpDownEnds(c)
  BY <1>1, <1>2, <1>6 DEF PumpDownEnds, Inside, Connection
<1>7. CASE BridgeEnds(c)
  BY <1>1, <1>2, <1>7 DEF BridgeEnds, Inside, Connection
<1>8. CASE BridgeStopped(c)
  BY <1>1, <1>2, <1>8 DEF BridgeStopped, Inside, Connection
<1>9. CASE \E t \in Tickets : Refuse(c, t)
  BY <1>1, <1>2, <1>9 DEF Refuse, Inside, Connection
<1> QED
  BY <1>3, <1>4, <1>5, <1>6, <1>7, <1>8, <1>9

LEMMA ConnectSteps ==
    ASSUME VoiceDataOK, NEW c \in Conns, NEW t \in Tickets, Connect(c, t)
    PROVE  /\ UNCHANGED storeVars
           /\ \A d \in Conns \ {c} : conn'[d] = conn[d]
           /\ conn[c].at = "none" /\ conn'[c].ticket = t
           /\ \/ permits > 0 /\ SessionOfTicket[t] \in listed /\ permits' = permits - 1 /\ conn'[c].at = "accepting"
              \/ permits' = permits /\ conn'[c].at = "refused"
<1>1. conn \in [Conns -> Connection] /\ conn[c] \in Connection
  BY DEF VoiceDataOK
<1>2. PICK stage \in {"accepting", "refused"} :
        /\ conn' = [conn EXCEPT ![c].at = stage, ![c].ticket = t, ![c].process = process]
        /\ \/ permits > 0 /\ SessionOfTicket[t] \in listed /\ permits' = permits - 1 /\ stage = "accepting"
           \/ permits' = permits /\ stage = "refused"
  BY DEF Connect
<1> DEFINE new == [conn[c] EXCEPT !.at = stage, !.ticket = t, !.process = process]
<1>3. new.at = stage /\ new.ticket = t
  BY <1>1 DEF Connection
<1>4. conn' = [conn EXCEPT ![c] = new]
  BY <1>1, <1>2
<1> HIDE DEF new
<1>5. conn'[c] = new /\ \A d \in Conns \ {c} : conn'[d] = conn[d]
  BY <1>1, <1>4
<1> QED
  BY <1>2, <1>3, <1>5 DEF Connect

LEMMA FinallySteps ==
    ASSUME VoiceDataOK, NEW c \in Conns, Finally(c)
    PROVE  /\ conn[c].at \in {"reported", "broken"} /\ permits' = permits + 1
           /\ conn' = [conn EXCEPT ![c].at = "ended"]
           /\ \A d \in Conns \ {c} : conn'[d] = conn[d]
           /\ conn'[c] = [conn[c] EXCEPT !.at = "ended"]
  BY DEF Finally, Put, VoiceDataOK

LEMMA RestartSteps ==
    ASSUME VoiceDataOK, Restart
    PROVE  /\ permits' = MaxConcurrent
           /\ \A c \in Conns : IF conn[c].at \in Inside THEN conn'[c] = [conn[c] EXCEPT !.at = "lost"]
                               ELSE conn'[c] = conn[c]
           /\ \A c \in Conns : conn'[c].at \notin Inside /\ (conn'[c].at = "ended" <=> conn[c].at = "ended")
<1>1. \A c \in Conns : conn[c] \in Connection
  BY DEF VoiceDataOK
<1> QED
  BY <1>1 DEF Restart, Connection, Inside

LEMMA SlotsInvInit == VoiceInit => SlotsInv
<1> SUFFICES ASSUME VoiceInit PROVE SlotsInv
  OBVIOUS
<1>1. Speakers = {}
  BY DEF VoiceInit, Speakers, Silent, Inside
<1>2. VoiceDataOK
  BY TicketInvInit DEF TicketInv
<1>3. permits = MaxConcurrent /\ MaxConcurrent \in Nat
  BY VoiceAssumption DEF VoiceInit, VoiceAssumption
<1>4. IsFiniteSet(Speakers) /\ Cardinality(Speakers) = 0
  BY <1>1, FS_EmptySet
<1>5. permits + Cardinality(Speakers) = MaxConcurrent
  BY <1>3, <1>4
<1> QED
  BY <1>2, <1>3, <1>4, <1>5 DEF SlotsInv, CapacityIsReturned, Speakers

LEMMA SlotsStepKeepsInv == TicketInv /\ SlotsInv /\ [VoiceNext]_vars => SlotsInv'
<1> SUFFICES ASSUME TicketInv, SlotsInv, [VoiceNext]_vars PROVE SlotsInv'
  OBVIOUS
<1> USE VoiceAssumption DEF VoiceAssumption
<1>1. VoiceDataOK' /\ VoiceDataOK
  BY TicketStepKeepsInv DEF TicketInv
<1>2. permits \in Nat /\ IsFiniteSet(Speakers) /\ permits + Cardinality(Speakers) = MaxConcurrent
      /\ Cardinality(Speakers) \in Nat
  BY FS_CardinalityType DEF SlotsInv, CapacityIsReturned, Speakers
<1>3. ASSUME permits' \in Nat, IsFiniteSet(Speakers'), permits' + Cardinality(Speakers') = MaxConcurrent
      PROVE  SlotsInv'
  BY <1>1, <1>3 DEF SlotsInv, CapacityIsReturned, Speakers
<1>4. CASE permits' = permits /\ Speakers' = Speakers
  BY <1>2, <1>3, <1>4
<1>5. CASE UNCHANGED <<permits, conn>>
  BY <1>4, <1>5 DEF Speakers
<1>6. ASSUME NEW c \in Conns,
             \/ Accept(c) \/ Hear(c) \/ PumpUpEnds(c) \/ PumpDownEnds(c)
             \/ BridgeEnds(c) \/ BridgeStopped(c) \/ \E t \in Tickets : Refuse(c, t)
      PROVE  SlotsInv'
  <2>1. permits' = permits /\ Speakers' = Speakers
    BY <1>1, <1>6, ConversationSteps DEF Speakers
  <2> QED
    BY <1>4, <2>1
<1>7. ASSUME NEW c \in Conns, NEW t \in Tickets, Connect(c, t) PROVE SlotsInv'
  <2>1. /\ \A d \in Conns \ {c} : conn'[d] = conn[d]
        /\ conn[c].at = "none"
        /\ \/ permits > 0 /\ permits' = permits - 1 /\ conn'[c].at = "accepting"
           \/ permits' = permits /\ conn'[c].at = "refused"
    BY <1>1, <1>7, ConnectSteps
  <2>2. CASE permits' = permits /\ conn'[c].at = "refused"
    <3>1. Speakers' = Speakers
      BY <2>1, <2>2 DEF Speakers, Inside
    <3> QED
      BY <1>4, <2>2, <3>1
  <2>3. CASE permits > 0 /\ permits' = permits - 1 /\ conn'[c].at = "accepting"
    <3>1. Speakers' = Speakers \cup {c} /\ c \notin Speakers
      BY <2>1, <2>3 DEF Speakers, Inside
    <3>2. IsFiniteSet(Speakers') /\ Cardinality(Speakers') = Cardinality(Speakers) + 1
      BY <1>2, <3>1, FS_AddElement
    <3> QED
      BY <1>2, <1>3, <2>3, <3>2
  <2> QED
    BY <2>1, <2>2, <2>3
<1>8. ASSUME NEW c \in Conns, Finally(c) PROVE SlotsInv'
  <2>1. /\ conn[c].at \in {"reported", "broken"} /\ permits' = permits + 1
        /\ \A d \in Conns \ {c} : conn'[d] = conn[d]
        /\ conn'[c].at = "ended"
    BY <1>1, <1>8, FinallySteps DEF VoiceDataOK, Connection
  <2>2. Speakers' = Speakers \ {c} /\ c \in Speakers
    BY <2>1 DEF Speakers, Inside
  <2>3. IsFiniteSet(Speakers') /\ Cardinality(Speakers') = Cardinality(Speakers) - 1
    BY <1>2, <2>2, FS_RemoveElement
  <2> QED
    BY <1>2, <1>3, <2>1, <2>3
<1>9. CASE Restart
  <2>1. Speakers' = {} /\ permits' = MaxConcurrent
    BY <1>1, <1>9, RestartSteps DEF Speakers
  <2> QED
    BY <1>3, <2>1, FS_EmptySet
<1>10. CASE Tick \/ (\E t \in Tickets : Mint(t)) \/ UNCHANGED vars
            \/ \E s \in Sessions : Create(s) \/ Delete(s)
  BY <1>5, <1>10 DEF Tick, Mint, Create, Delete, vars, voiceVars
<1> QED
  BY <1>6, <1>7, <1>8, <1>9, <1>10 DEF VoiceNext

\* Every conversation gives its slot back, however it ends (voice_websocket).
THEOREM CapacityIsAlwaysReturned == VoiceSpec => []CapacityIsReturned
<1>1. SlotsInv => CapacityIsReturned
  BY DEF SlotsInv
<1> QED
  BY <1>1, TicketInvInit, TicketStepKeepsInv, SlotsInvInit, SlotsStepKeepsInv, PTL DEF VoiceSpec

-----------------------------------------------------------------------------
(* Transcripts                                                             *)

Written(s) == {c \in Ended(s) : conn[c].reported}

Session == [active : BOOLEAN, turns : Nat, log : Seq({"voice"} \X Sessions)]

\* The file is the memory, and a conversation is of a session that was made.
FileIsMemory ==
    /\ sess \in [Sessions -> Session]
    /\ listed \subseteq made /\ listed \subseteq Sessions
    /\ DOMAIN disk = listed
    /\ \A s \in listed : disk[s] = sess[s]

SpokenInSessions ==
    \A c \in Conns : conn[c].at \in Inside \cup {"ended"} =>
        conn[c].ticket \in Tickets /\ SessionOfTicket[conn[c].ticket] \in made

EachIsWritten ==
    \A s \in listed : IsFiniteSet(Written(s)) /\ Voices(sess[s]) = Cardinality(Written(s))

TranscriptInv == VoiceDataOK /\ FileIsMemory /\ SpokenInSessions /\ EachIsWritten

LEMMA TranscriptInvInit == VoiceInit => TranscriptInv
<1> SUFFICES ASSUME VoiceInit PROVE TranscriptInv
  OBVIOUS
<1>1. VoiceDataOK
  BY TicketInvInit DEF TicketInv
<1>2. FileIsMemory /\ EachIsWritten
  BY DEF VoiceInit, StoreInit, FileIsMemory, EachIsWritten, Session, NewSession, EmptyFile
<1>3. SpokenInSessions
  BY DEF VoiceInit, SpokenInSessions, Silent, Inside
<1> QED
  BY <1>1, <1>2, <1>3 DEF TranscriptInv

\* A step that writes no session and ends no conversation.
LEMMA AsideKeepsTranscripts ==
    ASSUME TranscriptInv, VoiceDataOK', UNCHANGED storeVars,
           \A d \in Conns : conn[d].at = "ended" \/ conn'[d].at = "ended" => conn'[d] = conn[d],
           \A d \in Conns : conn'[d].at \in Inside =>
             \/ conn[d].at \in Inside /\ conn'[d].ticket = conn[d].ticket
             \/ conn'[d].ticket \in Tickets /\ SessionOfTicket[conn'[d].ticket] \in made
    PROVE  TranscriptInv'
<1>1. UNCHANGED <<sess, listed, made, disk>>
  BY DEF storeVars
<1>2. \A s : Written(s)' = Written(s)
  BY DEF Written, Ended
<1>3. FileIsMemory'
  BY <1>1 DEF TranscriptInv, FileIsMemory
<1>4. SpokenInSessions'
  BY <1>1 DEF TranscriptInv, SpokenInSessions
<1>5. EachIsWritten'
  BY <1>1, <1>2 DEF TranscriptInv, EachIsWritten
<1> QED
  BY <1>3, <1>4, <1>5 DEF TranscriptInv

\* A spoken exchange is one entry more.
LEMMA SpeakingIsHeard ==
    ASSUME NEW session \in Session, NEW s \in Sessions
    PROVE  /\ NextTurn(Said(session, "voice", s)) \in Session
           /\ Voices(NextTurn(Said(session, "voice", s))) = Voices(session) + 1
<1> DEFINE log  == session.log
           more == Append(log, <<"voice", s>>)
           new  == NextTurn(Said(session, "voice", s))
           V    == {i \in DOMAIN log : log[i][1] = "voice"}
<1>1. log \in Seq({"voice"} \X Sessions) /\ Len(log) \in Nat /\ <<"voice", s>> \in {"voice"} \X Sessions
  BY DEF Session
<1>2. new = [active |-> session.active, turns |-> session.turns + 1, log |-> more]
  <2>1. session = [active |-> session.active, turns |-> session.turns, log |-> session.log]
    BY DEF Session
  <2>2. Said(session, "voice", s) = [active |-> session.active, turns |-> session.turns, log |-> more]
    <3> HIDE DEF new
    <3>1. Said(session, "voice", s) = [session EXCEPT !.log = more]
      BY DEF Said
    <3> HIDE DEF more
    <3> QED
      BY <2>1, <3>1
  <2> HIDE DEF more
  <2> QED
    BY <2>2 DEF NextTurn
<1>3. more \in Seq({"voice"} \X Sessions)
  BY <1>1
<1>4. new \in Session
  <2>1. session.active \in BOOLEAN /\ session.turns + 1 \in Nat
    BY DEF Session
  <2> HIDE DEF more, new
  <2> QED
    BY <1>2, <1>3, <2>1 DEF Session
<1>5. /\ DOMAIN more = 1..(Len(log) + 1) /\ more[Len(log) + 1] = <<"voice", s>>
      /\ \A i \in 1..Len(log) : more[i] = log[i]
  BY <1>1
<1>6. {i \in DOMAIN more : more[i][1] = "voice"} = V \cup {Len(log) + 1}
  BY <1>1, <1>5
<1>7. IsFiniteSet(V) /\ Len(log) + 1 \notin V
  <2>1. IsFiniteSet(1..Len(log))
    <3> HIDE DEF log
    <3> QED
      BY <1>1, FS_Interval
  <2>2. DOMAIN log = 1..Len(log)
    BY <1>1
  <2>3. V \in SUBSET (1..Len(log)) /\ Len(log) + 1 \notin V
    BY <1>1, <2>2
  <2> HIDE DEF V
  <2> QED
    BY <2>1, <2>3, FS_Subset
<1>8. Cardinality(V \cup {Len(log) + 1}) = Cardinality(V) + 1
  BY <1>7, FS_AddElement
<1>9. new.log = more
  BY <1>2
<1>10. Voices(new) = Cardinality(V) + 1
  BY <1>6, <1>8, <1>9 DEF Voices
<1> QED
  BY <1>4, <1>10 DEF Voices

LEMMA FinallyKeepsTranscripts ==
    ASSUME TranscriptInv, ~SaveMayFail, NEW c \in Conns, Finally(c), VoiceDataOK'
    PROVE  TranscriptInv'
<1> USE VoiceAssumption DEF VoiceAssumption
<1>1. /\ conn[c].at \in {"reported", "broken"}
      /\ \A d \in Conns \ {c} : conn'[d] = conn[d]
      /\ conn'[c] = [conn[c] EXCEPT !.at = "ended"]
  BY FinallySteps DEF TranscriptInv
<1>2. /\ conn'[c].at = "ended" /\ conn'[c].ticket = conn[c].ticket /\ conn'[c].heard = conn[c].heard
      /\ conn'[c].reported = conn[c].reported
  BY <1>1 DEF TranscriptInv, VoiceDataOK, Connection
<1>3. conn[c].ticket \in Tickets /\ conn[c].ticket # NoTicket /\ SessionOfTicket[conn[c].ticket] \in made
  BY <1>1 DEF TranscriptInv, SpokenInSessions, Inside
<1> PICK s \in Sessions : s = SessionOfTicket[conn[c].ticket]
  BY <1>3
<1>4. c \notin Written(s)
  BY <1>1 DEF Written, Ended
<1>5. Written(s)' = IF conn[c].reported /\ conn[c].heard THEN Written(s) \cup {c} ELSE Written(s)
  <2>1. \A d \in Conns \ {c} : d \in Written(s)' <=> d \in Written(s)
    BY <1>1 DEF Written, Ended
  <2>2. c \in Written(s)' <=> conn[c].reported /\ conn[c].heard
    BY <1>2, <1>3 DEF Written, Ended
  <2>3. Written(s) \subseteq Conns /\ Written(s)' \subseteq Conns
    BY DEF Written, Ended
  <2> QED
    BY <1>4, <2>1, <2>2, <2>3
<1>6. \A x \in Sessions \ {s} : Written(x)' = Written(x)
  <2> SUFFICES ASSUME NEW x \in Sessions \ {s} PROVE Written(x)' = Written(x)
    OBVIOUS
  <2>1. \A d \in Conns \ {c} : d \in Written(x)' <=> d \in Written(x)
    BY <1>1 DEF Written, Ended
  <2>2. c \notin Written(x)' /\ c \notin Written(x)
    BY <1>2 DEF Written, Ended
  <2>3. Written(x) \subseteq Conns /\ Written(x)' \subseteq Conns
    BY DEF Written, Ended
  <2> QED
    BY <2>1, <2>2, <2>3
<1>7. CASE conn[c].reported /\ conn[c].heard /\ s \in listed
  <2>1. /\ sess' = [sess EXCEPT ![s] = NextTurn(Said(@, "voice", s))]
        /\ UNCHANGED <<listed, made>> /\ disk' = [x \in listed' |-> sess'[x]]
    BY <1>7 DEF Finally, SpeakTurn, SaveSessions
  <2>2. sess[s] \in Session /\ sess \in [Sessions -> Session]
    BY DEF TranscriptInv, FileIsMemory
  <2>3. /\ sess'[s] = NextTurn(Said(sess[s], "voice", s)) /\ \A x \in Sessions \ {s} : sess'[x] = sess[x]
    BY <2>1, <2>2
  <2>4. sess' \in [Sessions -> Session] /\ Voices(sess'[s]) = Voices(sess[s]) + 1
    BY <2>1, <2>2, <2>3, SpeakingIsHeard
  <2>5. FileIsMemory'
    BY <2>1, <2>4 DEF TranscriptInv, FileIsMemory
  <2>6. IsFiniteSet(Written(s)') /\ Cardinality(Written(s)') = Cardinality(Written(s)) + 1
    BY <1>4, <1>5, <1>7, FS_AddElement DEF TranscriptInv, EachIsWritten
  <2>7. EachIsWritten'
    BY <1>6, <1>7, <2>1, <2>3, <2>4, <2>6 DEF TranscriptInv, EachIsWritten, FileIsMemory
  <2>8. SpokenInSessions'
    BY <1>1, <1>2, <1>3, <2>1 DEF TranscriptInv, SpokenInSessions
  <2> QED
    BY <2>5, <2>7, <2>8 DEF TranscriptInv
<1>8. CASE ~(conn[c].reported /\ conn[c].heard /\ s \in listed)
  <2>1. UNCHANGED <<sess, listed, made, disk>>
    BY <1>8 DEF Finally, storeVars
  <2>2. \A x \in listed : Written(x)' = Written(x)
    BY <1>5, <1>6, <1>8 DEF TranscriptInv, FileIsMemory
  <2>3. EachIsWritten'
    BY <2>1, <2>2 DEF TranscriptInv, EachIsWritten
  <2>4. SpokenInSessions'
    BY <1>1, <1>2, <1>3, <2>1 DEF TranscriptInv, SpokenInSessions
  <2> QED
    BY <2>1, <2>3, <2>4 DEF TranscriptInv, FileIsMemory
<1> QED
  BY <1>7, <1>8

LEMMA CreateKeepsTranscripts ==
    ASSUME TranscriptInv, ~SaveMayFail, NEW s \in Sessions, Create(s)
    PROVE  TranscriptInv'
<1>1. /\ s \notin made /\ made' = made \cup {s} /\ listed' = listed \cup {s}
      /\ sess' = [sess EXCEPT ![s] = NewSession] /\ disk' = [x \in listed' |-> sess'[x]]
      /\ UNCHANGED <<now, minted, spent, permits, conn, process>>
  BY DEF Create, CreateSession, SaveSessions, voiceVars
<1>2. sess \in [Sessions -> Session] /\ listed \subseteq made /\ listed \subseteq Sessions
  BY DEF TranscriptInv, FileIsMemory
<1>3. NewSession \in Session
  BY DEF NewSession, Session
<1>4. /\ sess' \in [Sessions -> Session] /\ sess'[s] = NewSession
      /\ \A x \in Sessions \ {s} : sess'[x] = sess[x]
  BY <1>1, <1>2, <1>3
<1>5. FileIsMemory'
  BY <1>1, <1>2, <1>4 DEF FileIsMemory
<1>6. \A x : Written(x)' = Written(x)
  BY <1>1 DEF Written, Ended
<1>7. Written(s) = {} /\ Voices(NewSession) = 0
  <2>1. Written(s) = {}
    BY <1>1 DEF Written, Ended, TranscriptInv, SpokenInSessions
  <2>2. {i \in DOMAIN NewSession.log : NewSession.log[i][1] = "voice"} = {}
    BY DEF NewSession
  <2> QED
    BY <2>1, <2>2, FS_EmptySet DEF Voices
<1>8. EachIsWritten'
  BY <1>1, <1>2, <1>4, <1>6, <1>7, FS_EmptySet DEF TranscriptInv, EachIsWritten
<1>9. SpokenInSessions' /\ VoiceDataOK'
  BY <1>1 DEF TranscriptInv, SpokenInSessions, VoiceDataOK
<1> QED
  BY <1>5, <1>8, <1>9 DEF TranscriptInv

LEMMA DeleteKeepsTranscripts ==
    ASSUME TranscriptInv, ~SaveMayFail, NEW s \in Sessions, Delete(s)
    PROVE  TranscriptInv'
<1>1. /\ listed' = listed \ {s} /\ UNCHANGED <<sess, made>> /\ disk' = [x \in listed' |-> sess'[x]]
      /\ UNCHANGED <<now, minted, spent, permits, conn, process>>
  BY DEF Delete, DeleteSession, SaveSessions, voiceVars
<1>2. FileIsMemory'
  BY <1>1 DEF TranscriptInv, FileIsMemory
<1>3. \A x : Written(x)' = Written(x)
  BY <1>1 DEF Written, Ended
<1>4. EachIsWritten'
  BY <1>1, <1>3 DEF TranscriptInv, EachIsWritten
<1>5. SpokenInSessions' /\ VoiceDataOK'
  BY <1>1 DEF TranscriptInv, SpokenInSessions, VoiceDataOK
<1> QED
  BY <1>2, <1>4, <1>5 DEF TranscriptInv

\* The new process reads the sessions as they were.
LEMMA RestartKeepsTranscripts ==
    ASSUME TranscriptInv, Restart, VoiceDataOK'
    PROVE  TranscriptInv'
<1>1. /\ disk' = disk /\ listed' = listed /\ made' = made
      /\ sess' = [s \in Sessions |-> IF s \in DOMAIN disk THEN disk[s] ELSE sess[s]]
  BY DEF Restart, LoadSessions, TranscriptInv, FileIsMemory
<1>2. sess' = sess
  BY <1>1 DEF TranscriptInv, FileIsMemory
<1>3. /\ \A c \in Conns : conn'[c].at \notin Inside
      /\ \A c \in Conns : conn[c].at = "ended" \/ conn'[c].at = "ended" => conn'[c] = conn[c]
  BY RestartSteps DEF TranscriptInv, Inside
<1>4. \A s : Written(s)' = Written(s)
  BY <1>3 DEF Written, Ended
<1>5. FileIsMemory' /\ EachIsWritten'
  BY <1>1, <1>2, <1>4 DEF TranscriptInv, FileIsMemory, EachIsWritten
<1>6. SpokenInSessions'
  BY <1>1, <1>3 DEF TranscriptInv, SpokenInSessions
<1> QED
  BY <1>5, <1>6 DEF TranscriptInv

LEMMA TranscriptStepKeepsInv ==
    ASSUME ~SaveMayFail
    PROVE  TicketInv /\ TranscriptInv /\ [VoiceNext]_vars => TranscriptInv'
<1> SUFFICES ASSUME TicketInv, TranscriptInv, [VoiceNext]_vars PROVE TranscriptInv'
  OBVIOUS
<1>1. VoiceDataOK' /\ VoiceDataOK
  BY TicketStepKeepsInv DEF TicketInv
<1>2. CASE UNCHANGED <<storeVars, conn>>
  BY <1>1, <1>2, AsideKeepsTranscripts
<1>3. ASSUME NEW c \in Conns,
             \/ Accept(c) \/ Hear(c) \/ PumpUpEnds(c) \/ PumpDownEnds(c)
             \/ BridgeEnds(c) \/ BridgeStopped(c) \/ \E t \in Tickets : Refuse(c, t)
      PROVE  TranscriptInv'
  <2>1. /\ UNCHANGED storeVars
        /\ \A d \in Conns \ {c} : conn'[d] = conn[d]
        /\ conn[c].at # "ended" /\ conn'[c].at # "ended"
        /\ conn[c].at \in Inside <=> conn'[c].at \in Inside
        /\ conn'[c].ticket = conn[c].ticket
    BY <1>1, <1>3, ConversationSteps
  <2> QED
    BY <1>1, <2>1, AsideKeepsTranscripts
<1>4. ASSUME NEW c \in Conns, NEW t \in Tickets, Connect(c, t) PROVE TranscriptInv'
  <2>1. /\ UNCHANGED storeVars
        /\ \A d \in Conns \ {c} : conn'[d] = conn[d]
        /\ conn[c].at = "none" /\ conn'[c].ticket = t /\ conn'[c].at \in {"accepting", "refused"}
        /\ conn'[c].at = "accepting" => SessionOfTicket[t] \in made
    BY <1>1, <1>4, ConnectSteps DEF TranscriptInv, FileIsMemory
  <2> QED
    BY <1>1, <2>1, AsideKeepsTranscripts DEF Inside
<1>5. ASSUME NEW c \in Conns, Finally(c) PROVE TranscriptInv'
  BY <1>1, <1>5, FinallyKeepsTranscripts
<1>6. CASE Restart
  BY <1>1, <1>6, RestartKeepsTranscripts
<1>7. CASE Tick \/ (\E t \in Tickets : Mint(t)) \/ UNCHANGED vars
  BY <1>2, <1>7 DEF Tick, Mint, vars, voiceVars
<1> QED
  BY <1>3, <1>4, <1>5, <1>6, <1>7, CreateKeepsTranscripts, DeleteKeepsTranscripts DEF VoiceNext

\* With writes that succeed, a conversation leaves its slot and its transcript, in
\* memory and in the file, once if its bridge reported and never if it broke
\* (voice_websocket, record_voice_turn).
THEOREM ConversationsAreAlwaysSettled ==
    ASSUME ~SaveMayFail
    PROVE  VoiceSpec => []ConversationsAreSettled
<1>1. SlotsInv /\ TranscriptInv => ConversationsAreSettled
  BY DEF SlotsInv, TranscriptInv, FileIsMemory, EachIsWritten, ConversationsAreSettled,
         TranscriptFollowsTheBridge, Written
<1>2. TicketInv /\ TranscriptInv /\ [VoiceNext]_vars => TranscriptInv'
  BY TranscriptStepKeepsInv
<1> QED
  BY <1>1, <1>2, TicketInvInit, TicketStepKeepsInv, SlotsInvInit, SlotsStepKeepsInv,
     TranscriptInvInit, PTL DEF VoiceSpec

-----------------------------------------------------------------------------
(***************************************************************************)
(* Embeddings, sessions and counts (ContentCache)                          *)
(***************************************************************************)

\* A caller of which everything is true that it needs (IsSound) stays so whatever the
\* others store and delete, so each step is about the one caller that moves.
IsActor(c) ==
    c = [at |-> c.at, what |-> c.what, todo |-> c.todo, key |-> c.key, state |-> c.state,
         since |-> c.since, looked |-> c.looked, aged |-> c.aged, failed |-> c.failed]

\* Nothing of key k that was there when the invalidation began, and meant, is left.
Cleared(c, k) ==
    store[k] # Nothing /\ store[k].stored <= c.since =>
        IF c.what[1] = "age" THEN k \notin c.aged ELSE ~Meant(c.what, k, store[k])

Invalidates(c) == c.at \in {"listing", "dropping", "done"}

Began(c) == Invalidates(c) =>
    c.what \in Kinds /\ c.since \in Nat /\ c.since <= stores /\ c.aged \subseteq old

\* An invalidation has cleared what it has no more to do with, unless a call failed.
HasCleared(c) ==
    /\ Invalidates(c) /\ ~c.failed => \A k \in Listed(c.what) \ c.todo : Cleared(c, k)
    /\ c.at = "done" => c.todo = {}

\* What it is about to delete was meant when it looked.
Aimed(c) == c.at = "dropping" =>
    /\ c.key \in Keys /\ c.looked \in Nat /\ c.looked <= stores
    /\ store[c.key] # Nothing /\ store[c.key].stored <= c.looked => Meant(c.what, c.key, store[c.key])

Warms(c) == c.at \in {"fetching", "storing"} => c.key \in Keys

IsSound(c) == IsActor(c) /\ Began(c) /\ HasCleared(c) /\ Aimed(c) /\ Warms(c)

StoreOK ==
    /\ stores \in Nat
    /\ store = [k \in Keys |-> store[k]]
    /\ \A k \in Keys : store[k] # Nothing => store[k].stored \in Nat /\ store[k].stored <= stores
    /\ actor = [x \in Callers |-> actor[x]]

EntriesInv == StoreOK /\ spoiled = {} /\ \A x \in Callers : IsSound(actor[x])

OfRequests(c) ==
    /\ c \in [total : Nat, hits : Nat, misses : Nat]
    /\ c.total = c.hits + c.misses
    /\ c.hits <= counted.hits /\ c.misses <= counted.misses

CountsInv ==
    /\ counted \in [total : Nat, hits : Nat, misses : Nat]
    /\ counts = [p \in Processes |-> counts[p]]
    /\ \A p \in Processes : OfRequests(counts[p])
    /\ shared # Nothing => OfRequests(shared)

LEMMA ContentInvSays == EntriesInv /\ CountsInv => ContentIsRightlyDropped
<1> SUFFICES ASSUME EntriesInv, CountsInv PROVE ContentIsRightlyDropped
  OBVIOUS
<1>1. InvalidationIsThorough
  BY DEF EntriesInv, IsSound, HasCleared, Invalidates, InvalidationIsThorough, Cleared
<1>2. OthersAreSpared /\ CountsAreOfRequests
  BY DEF EntriesInv, CountsInv, OfRequests, OthersAreSpared, CountsAreOfRequests
<1> QED
  BY <1>1, <1>2 DEF ContentIsRightlyDropped

LEMMA IdleIsSound == IsSound(Idle) /\ IsSound(Idle)'
<1>1. IsActor(Idle) /\ Idle.at = "rest"
  BY DEF IsActor, Idle
<1> QED
  BY <1>1 DEF IsSound, Began, HasCleared, Aimed, Warms, Invalidates, IsActor, Idle

LEMMA ContentInvInit == ContentInit => EntriesInv /\ CountsInv
<1> SUFFICES ASSUME ContentInit PROVE EntriesInv /\ CountsInv
  OBVIOUS
<1>1. StoreOK
  BY DEF ContentInit, StoreOK
<1>2. \A x \in Callers : actor[x] = Idle
  BY DEF ContentInit
<1>3. OfRequests(NoCounts) /\ counted \in [total : Nat, hits : Nat, misses : Nat]
  BY DEF ContentInit, OfRequests, NoCounts
<1>4. CountsInv
  BY <1>3 DEF ContentInit, CountsInv
<1>5. EntriesInv
  BY <1>1, <1>2, IdleIsSound DEF ContentInit, EntriesInv
<1> QED
  BY <1>4, <1>5

\* A sound caller stays sound whatever else is stored and deleted: what is stored from
\* now on is later than what it saw, and deleting, and growing old, only helps.
Goes(l) == store'[l] = store[l] \/ store'[l] = Nothing \/ store'[l].stored = stores + 1

GoesForward ==
    /\ StoreOK' /\ spoiled' = {} /\ stores <= stores' /\ old \subseteq old'
    /\ \A l \in Keys : Goes(l)

LEMMA SoundStaysSound ==
    ASSUME StoreOK, GoesForward, NEW c, IsSound(c)
    PROVE  IsSound(c)'
<1> /\ stores \in Nat /\ stores' \in Nat /\ stores <= stores' /\ old \subseteq old'
    /\ \A l \in Keys : Goes(l)
  BY DEF StoreOK, GoesForward
<1>1. IsActor(c) /\ Began(c) /\ HasCleared(c) /\ Aimed(c) /\ Warms(c)
  BY DEF IsSound
<1>2. Began(c)'
  BY <1>1 DEF Began, Invalidates
<1>3. ASSUME Invalidates(c), ~c.failed, NEW l \in Listed(c.what) \ c.todo
      PROVE  Cleared(c, l)'
  <2>1. l \in Keys /\ Cleared(c, l) /\ c.since \in Nat /\ c.since <= stores
    BY <1>1, <1>3 DEF Began, HasCleared, Listed, Keys
  <2>2. CASE store'[l] = store[l]
    BY <2>1, <2>2 DEF Cleared, Meant
  <2>3. CASE store'[l] = Nothing
    BY <2>3 DEF Cleared
  <2>4. CASE store'[l].stored = stores + 1
    BY <2>1, <2>4 DEF Cleared
  <2> QED
    BY <2>1, <2>2, <2>3, <2>4 DEF Goes
<1>4. HasCleared(c)'
  BY <1>1, <1>3 DEF HasCleared, Invalidates
<1>5. Aimed(c)'
  <2> SUFFICES ASSUME c.at = "dropping" PROVE Aimed(c)'
    BY DEF Aimed
  <2>1. c.key \in Keys /\ c.looked \in Nat /\ c.looked <= stores
    BY <1>1 DEF Aimed
  <2>2. ASSUME store'[c.key] # Nothing, store'[c.key].stored <= c.looked
        PROVE  Meant(c.what, c.key, store[c.key])'
    BY <1>1, <2>1, <2>2 DEF Aimed, Goes, Meant
  <2> QED
    BY <2>1, <2>2 DEF Aimed
<1>6. IsActor(c)' /\ Warms(c)'
  BY <1>1 DEF IsActor, Warms
<1> QED
  BY <1>2, <1>4, <1>5, <1>6 DEF IsSound

\* It is enough to look at the caller that moves.
LEMMA OneCallerMoves ==
    ASSUME EntriesInv, GoesForward,
           NEW d, IsSound(d)', NEW x,
           actor' \in {actor, [actor EXCEPT ![x] = d]}
    PROVE  EntriesInv'
<1>1. actor = [y \in Callers |-> actor[y]]
  BY DEF EntriesInv, StoreOK
<1>2. ASSUME NEW y \in Callers PROVE IsSound(actor[y])'
  <2>1. CASE actor'[y] = d
    BY <2>1 DEF IsSound, IsActor, Began, HasCleared, Aimed, Warms, Invalidates, Cleared, Meant
  <2>2. CASE actor'[y] = actor[y]
    <3>1. IsSound(actor[y])
      BY DEF EntriesInv
    <3> DEFINE c == actor[y]
    <3>2. c = actor'[y] /\ IsSound(c)
      BY <2>2, <3>1
    <3> HIDE DEF c
    <3>3. PICK e : e = c
      OBVIOUS
    <3>4. IsSound(e)
      BY <3>2, <3>3
    <3>5. IsSound(e)'
      BY <3>4, SoundStaysSound DEF EntriesInv
    <3> QED
      BY <3>2, <3>3, <3>5 DEF IsSound, IsActor, Began, HasCleared, Aimed, Warms, Invalidates, Cleared, Meant
  <2>3. actor'[y] \in {d, actor[y]}
    BY <1>1
  <2> QED
    BY <2>1, <2>2, <2>3
<1> QED
  BY <1>2 DEF EntriesInv, GoesForward

LEMMA StoringKeepsInv ==
    ASSUME EntriesInv, NEW k \in Keys, NEW tag, NEW of, PutEntry(k, Entry(tag, of)),
           UNCHANGED <<old, spoiled>>,
           actor' = actor \/ \E x \in Callers : actor' = [actor EXCEPT ![x] = Idle]
    PROVE  EntriesInv'
<1>1. StoreOK
  BY DEF EntriesInv
<1>2. /\ stores' = stores + 1 /\ stores \in Nat /\ store' = [store EXCEPT ![k] = Entry(tag, of)]
      /\ Entry(tag, of).stored = stores + 1
  BY <1>1 DEF PutEntry, Entry, StoreOK
<1>3. /\ store' = [l \in Keys |-> store'[l]] /\ store'[k].stored = stores + 1
      /\ \A l \in Keys \ {k} : store'[l] = store[l]
  BY <1>1, <1>2 DEF StoreOK
<1>4. StoreOK'
  BY <1>1, <1>2, <1>3 DEF StoreOK
<1>5. GoesForward
  BY <1>2, <1>3, <1>4 DEF GoesForward, Goes, EntriesInv
<1> QED
  BY <1>5, IdleIsSound, OneCallerMoves

LEMMA DeletingKeepsInv ==
    ASSUME EntriesInv, UNCHANGED <<stores, actor, spoiled>>, old \subseteq old',
           store' = store \/ \E k \in Keys : store' = [store EXCEPT ![k] = Nothing]
    PROVE  EntriesInv'
<1>1. StoreOK
  BY DEF EntriesInv
<1>2. /\ store' = [l \in Keys |-> store'[l]]
      /\ \A l \in Keys : store'[l] = store[l] \/ store'[l] = Nothing
  BY <1>1 DEF StoreOK
<1>3. StoreOK' /\ stores <= stores'
  BY <1>1, <1>2 DEF StoreOK
<1>4. GoesForward
  BY <1>2, <1>3 DEF GoesForward, Goes, EntriesInv
<1> QED
  BY <1>4, IdleIsSound, OneCallerMoves

\* A step that changes nothing but one caller.
Moves(x, d) == actor' = [actor EXCEPT ![x] = d] /\ UNCHANGED <<store, old, stores, spoiled>>

LEMMA MovingKeepsInv ==
    ASSUME EntriesInv, NEW d, IsSound(d), NEW x, Moves(x, d)
    PROVE  EntriesInv'
<1>1. StoreOK /\ stores \in Nat
  BY DEF EntriesInv, StoreOK
<1>2. GoesForward
  BY <1>1 DEF GoesForward, StoreOK, Goes, EntriesInv, Moves
<1>3. IsSound(d)'
  BY <1>1, <1>2, SoundStaysSound
<1>4. actor' \in {actor, [actor EXCEPT ![x] = d]}
  BY DEF Moves
<1> QED
  BY <1>2, <1>3, <1>4, OneCallerMoves

LEMMA StartInvalidationKeepsInv ==
    ASSUME EntriesInv, NEW x \in Callers, NEW what \in Kinds, StartInvalidation(x, what)
    PROVE  EntriesInv'
<1>1. PICK failed \in BOOLEAN :
         actor' = [actor EXCEPT ![x] =
              [Idle EXCEPT !.at = "listing", !.what = what, !.since = stores, !.aged = old, !.failed = failed,
                           !.todo = IF failed THEN {} ELSE {k \in Listed(what) : store[k] # Nothing}]]
  BY DEF StartInvalidation
<1> DEFINE todo == IF failed THEN {} ELSE {k \in Listed(what) : store[k] # Nothing}
<1>2. PICK d : d = [Idle EXCEPT !.at = "listing", !.what = what, !.since = stores, !.aged = old,
                                !.failed = failed, !.todo = todo]
  OBVIOUS
<1>3. /\ d.at = "listing" /\ d.what = what /\ d.since = stores /\ d.aged = old /\ d.failed = failed
      /\ d.todo = todo /\ IsActor(d)
  BY <1>2 DEF Idle, IsActor
<1>4. ASSUME ~failed, NEW k \in Listed(what) \ todo PROVE store[k] = Nothing
  BY <1>4
<1>5. stores \in Nat
  BY DEF EntriesInv, StoreOK
<1>6. actor' = [actor EXCEPT ![x] = d]
  BY <1>1, <1>2
<1> HIDE DEF todo
<1>7. IsSound(d)
  BY <1>3, <1>4, <1>5 DEF IsSound, Began, HasCleared, Aimed, Warms, Invalidates, Cleared
<1> QED
  BY <1>6, <1>7, MovingKeepsInv DEF Moves, StartInvalidation

\* What a look does not pick was not meant, or is gone.
LEMMA LookKeepsInv ==
    ASSUME EntriesInv, NEW x \in Callers, NEW k \in Keys, Look(x, k)
    PROVE  EntriesInv'
<1> PICK c : c = actor[x]
  OBVIOUS
<1>1. IsSound(c) /\ c.at = "listing" /\ k \in c.todo /\ stores \in Nat
  BY DEF EntriesInv, StoreOK, Look
<1>2. IsActor(c) /\ c.what \in Kinds /\ c.aged \subseteq old /\ Began(c) /\ HasCleared(c)
  BY <1>1 DEF IsSound, Began, Invalidates
<1> DEFINE Found == \/ c.what[1] \in {"sessions", "embeddings"}
                    \/ store[k] # Nothing /\ Matches(c.what, k, store[k])
<1>3. Kinds = {<<"user", u>> : u \in Users} \cup {<<"model", m>> : m \in Models}
              \cup {<<"age", Nothing>>, <<"sessions", Nothing>>, <<"embeddings", Nothing>>}
  BY DEF Kinds
<1>4. c.what[1] \in {"user", "model", "age", "sessions", "embeddings"}
  BY <1>2, <1>3
<1>5. CASE Found
  <2>1. PICK d : d = [c EXCEPT !.at = "dropping", !.key = k, !.looked = stores]
    OBVIOUS
  <2>2. /\ d.at = "dropping" /\ d.key = k /\ d.looked = stores /\ d.what = c.what /\ d.todo = c.todo
        /\ d.since = c.since /\ d.aged = c.aged /\ d.failed = c.failed /\ IsActor(d)
    BY <1>2, <2>1 DEF IsActor
  <2>3. store[k] # Nothing => Meant(c.what, k, store[k])
    BY <1>4, <1>5 DEF Matches, Meant
  <2>4. Began(d) /\ HasCleared(d)
    BY <1>1, <1>2, <2>2 DEF Began, HasCleared, Invalidates, Cleared
  <2>5. Aimed(d) /\ Warms(d)
    BY <1>1, <2>2, <2>3 DEF Aimed, Warms
  <2>6. actor' = [actor EXCEPT ![x] = d]
    BY <1>5, <2>1 DEF Look
  <2> QED
    BY <2>2, <2>4, <2>5, <2>6, MovingKeepsInv DEF Moves, Look, IsSound
<1>6. CASE ~Found
  <2>1. PICK d : d = [c EXCEPT !.todo = @ \ {k}]
    OBVIOUS
  <2>2. /\ d.at = "listing" /\ d.todo = c.todo \ {k} /\ d.what = c.what
        /\ d.since = c.since /\ d.aged = c.aged /\ d.failed = c.failed /\ IsActor(d)
    BY <1>1, <1>2, <2>1 DEF IsActor
  <2>3. Cleared(c, k)
    BY <1>2, <1>4, <1>6 DEF Matches, Meant, Cleared
  <2>4. Began(d) /\ HasCleared(d)
    BY <1>1, <1>2, <2>2, <2>3 DEF Began, HasCleared, Invalidates, Cleared
  <2>5. Aimed(d) /\ Warms(d)
    BY <2>2 DEF Aimed, Warms
  <2>6. actor' = [actor EXCEPT ![x] = d]
    BY <1>6, <2>1 DEF Look
  <2> QED
    BY <2>2, <2>4, <2>5, <2>6, MovingKeepsInv DEF Moves, Look, IsSound
<1> QED
  BY <1>5, <1>6

\* After a call that failed, the invalidation promises nothing more.
LEMMA FailingKeepsInv ==
    ASSUME EntriesInv, NEW x \in Callers, NEW k,
           LookFails(x, k) \/ DropFails(x)
    PROVE  EntriesInv'
<1> PICK c : c = actor[x]
  OBVIOUS
<1>1. IsSound(c) /\ c.at \in {"listing", "dropping"}
  BY DEF EntriesInv, LookFails, DropFails
<1>2. IsActor(c) /\ Began(c)
  BY <1>1 DEF IsSound
<1>3. PICK d : d = IF LookFails(x, k) THEN [c EXCEPT !.todo = @ \ {k}, !.failed = TRUE]
                   ELSE [c EXCEPT !.at = "listing", !.todo = @ \ {c.key}, !.failed = TRUE]
  OBVIOUS
<1>4. d.at = "listing" /\ d.failed /\ d.what = c.what /\ d.since = c.since /\ d.aged = c.aged /\ IsActor(d)
  BY <1>2, <1>3 DEF IsActor, LookFails
<1>5. IsSound(d)
  BY <1>1, <1>2, <1>4 DEF IsSound, Began, HasCleared, Aimed, Warms, Invalidates
<1>6. actor' = [actor EXCEPT ![x] = d]
  BY <1>3 DEF LookFails, DropFails
<1> QED
  BY <1>5, <1>6, MovingKeepsInv DEF Moves, LookFails, DropFails

\* What is deleted was meant when it was read, or was stored since.
LEMMA DropKeepsInv ==
    ASSUME EntriesInv, NEW x \in Callers, Drop(x)
    PROVE  EntriesInv'
<1> PICK c : c = actor[x]
  OBVIOUS
<1>1. IsSound(c) /\ c.at = "dropping" /\ StoreOK
  BY DEF EntriesInv, Drop
<1>2. /\ IsActor(c) /\ Began(c) /\ HasCleared(c) /\ c.key \in Keys
      /\ store[c.key] # Nothing /\ store[c.key].stored <= c.looked => Meant(c.what, c.key, store[c.key])
  BY <1>1 DEF IsSound, Aimed
<1>3. store' = [store EXCEPT ![c.key] = Nothing] /\ stores' = stores /\ old' = old /\ spoiled' = {}
  BY <1>2 DEF Drop, EntriesInv
<1>4. PICK d : d = [c EXCEPT !.at = "listing", !.todo = @ \ {c.key}]
  OBVIOUS
<1>5. /\ d.at = "listing" /\ d.todo = c.todo \ {c.key} /\ d.what = c.what
      /\ d.since = c.since /\ d.aged = c.aged /\ d.failed = c.failed /\ IsActor(d)
  BY <1>2, <1>4 DEF IsActor
<1>6. /\ store' = [l \in Keys |-> store'[l]] /\ store'[c.key] = Nothing
      /\ \A l \in Keys : store'[l] = store[l] \/ store'[l] = Nothing
  BY <1>1, <1>2, <1>3 DEF StoreOK
<1>7. actor' = [actor EXCEPT ![x] = d]
  BY <1>4 DEF Drop
<1>8. GoesForward
  BY <1>1, <1>3, <1>6, <1>7 DEF GoesForward, StoreOK, Goes
<1>9. IsSound(c)'
  BY <1>1, <1>8, SoundStaysSound
<1>10. IsSound(d)'
  <2>1. Began(c)' /\ HasCleared(c)'
    BY <1>9 DEF IsSound
  <2>2. Began(d)'
    BY <1>1, <1>5, <2>1 DEF Began, Invalidates
  <2>3. Cleared(c, c.key)'
    BY <1>6 DEF Cleared
  <2>4. HasCleared(d)'
    BY <1>1, <1>5, <2>1, <2>3 DEF HasCleared, Invalidates, Cleared
  <2> QED
    BY <1>5, <2>2, <2>4 DEF IsSound, IsActor, Aimed, Warms
<1>11. actor' \in {actor, [actor EXCEPT ![x] = d]}
  BY <1>7
<1> QED
  BY <1>8, <1>10, <1>11, OneCallerMoves

LEMMA FinishKeepsInv ==
    ASSUME EntriesInv, NEW x \in Callers, Finish(x)
    PROVE  EntriesInv'
<1> PICK c : c = actor[x]
  OBVIOUS
<1>1. IsSound(c) /\ c.at = "listing" /\ c.todo = {}
  BY DEF EntriesInv, Finish
<1>2. PICK d : d = [c EXCEPT !.at = "done"]
  OBVIOUS
<1>3. /\ d.at = "done" /\ d.todo = {} /\ d.what = c.what
      /\ d.since = c.since /\ d.aged = c.aged /\ d.failed = c.failed /\ IsActor(d)
  BY <1>1, <1>2 DEF IsSound, IsActor
<1>4. IsSound(d)
  BY <1>1, <1>3 DEF IsSound, Began, HasCleared, Aimed, Warms, Invalidates, Cleared
<1>5. actor' = [actor EXCEPT ![x] = d]
  BY <1>2 DEF Finish
<1> QED
  BY <1>4, <1>5, MovingKeepsInv DEF Moves, Finish

LEMMA WarmingKeepsInv ==
    ASSUME EntriesInv, NEW x \in Callers,
           Fetch(x) \/ \E s \in CachedSessions : StartWarming(x, s)
    PROVE  EntriesInv'
<1> PICK c : c = actor[x]
  OBVIOUS
<1>1. IsSound(c)
  BY DEF EntriesInv
<1>2. ASSUME NEW d, IsActor(d), d.at \in {"fetching", "storing"}, d.key \in Keys PROVE IsSound(d)
  BY <1>2 DEF IsSound, Began, HasCleared, Aimed, Warms, Invalidates
<1>3. CASE Fetch(x)
  <2>1. PICK d : d = [c EXCEPT !.at = "storing", !.state = fresh[c.key]]
    OBVIOUS
  <2>2. IsActor(d) /\ d.at = "storing" /\ d.key \in Keys
    BY <1>1, <1>3, <2>1 DEF IsSound, IsActor, Warms, Fetch
  <2>3. actor' = [actor EXCEPT ![x] = d]
    BY <1>3, <2>1 DEF Fetch
  <2> QED
    BY <1>2, <1>3, <2>2, <2>3, MovingKeepsInv DEF Moves, Fetch
<1>4. ASSUME NEW s \in CachedSessions, StartWarming(x, s) PROVE EntriesInv'
  <2>1. PICK d : d = [Idle EXCEPT !.at = "fetching", !.key = s]
    OBVIOUS
  <2>2. IsActor(d) /\ d.at = "fetching" /\ d.key \in Keys
    BY <2>1 DEF Idle, IsActor, Keys
  <2>3. actor' = [actor EXCEPT ![x] = d]
    BY <1>4, <2>1 DEF StartWarming
  <2> QED
    BY <1>2, <1>4, <2>2, <2>3, MovingKeepsInv DEF Moves, StartWarming
<1> QED
  BY <1>3, <1>4

LEMMA EntriesNextKeepsInv ==
    ASSUME EntriesInv, EntriesNext
    PROVE  EntriesInv'
<1>1. ASSUME NEW m \in Models, NEW c \in Contents, SetEmbedding(m, c) PROVE EntriesInv'
  <2>1. <<m, c>> \in Texts
    BY DEF Texts
  <2>2. Key(<<m, c>>[1], <<m, c>>[2]) \in EmbeddingKeys
    BY <2>1 DEF EmbeddingKeys
  <2>3. Key(m, c) \in Keys
    BY <2>2 DEF Keys
  <2> QED
    BY <1>1, <2>3, StoringKeepsInv DEF SetEmbedding
<1>2. ASSUME NEW k \in Keys, DeleteEntry(k) PROVE EntriesInv'
  BY <1>2, DeletingKeepsInv DEF DeleteEntry
<1>3. ASSUME NEW s \in CachedSessions, GoesOn(s) \/ GetsOld(s) PROVE EntriesInv'
  BY <1>3, DeletingKeepsInv DEF GoesOn, GetsOld
<1>4. ASSUME NEW s \in CachedSessions, NEW u \in Users, SetSession(s, u) PROVE EntriesInv'
  BY <1>4, StoringKeepsInv DEF SetSession, Keys
<1>5. ASSUME NEW x \in Callers, NEW u \in Users, Warm(x, u) PROVE EntriesInv'
  <2>1. actor[x].key \in Keys
    BY <1>5 DEF Warm, EntriesInv, IsSound, Warms
  <2> QED
    BY <1>5, <2>1, StoringKeepsInv DEF Warm
<1> QED
  BY <1>1, <1>2, <1>3, <1>4, <1>5, StartInvalidationKeepsInv, LookKeepsInv, FailingKeepsInv,
     DropKeepsInv, FinishKeepsInv, WarmingKeepsInv DEF EntriesNext

\* A monitor counts requests that were made: its own, or those of a process that
\* stored its counts.
LEMMA CountsNextKeepsInv ==
    ASSUME CountsInv, CountsNext
    PROVE  CountsInv'
<1> PICK p \in Processes : (\E hit \in BOOLEAN : RecordRequest(p, hit)) \/ GetMetrics(p) \/ ResetMetrics(p)
  BY DEF CountsNext
<1>1. /\ counted \in [total : Nat, hits : Nat, misses : Nat]
      /\ \A q \in Processes : OfRequests(counts[q])
      /\ shared # Nothing => OfRequests(shared)
  BY DEF CountsInv
<1>2. ASSUME NEW hit \in BOOLEAN, RecordRequest(p, hit) PROVE CountsInv'
  <2>1. ASSUME NEW c \in [total : Nat, hits : Nat, misses : Nat]
        PROVE  /\ Plus(c, hit) \in [total : Nat, hits : Nat, misses : Nat]
               /\ Plus(c, hit).total = c.total + 1
               /\ Plus(c, hit).hits = IF hit THEN c.hits + 1 ELSE c.hits
               /\ Plus(c, hit).misses = IF hit THEN c.misses ELSE c.misses + 1
    BY DEF Plus
  <2>2. /\ counted' \in [total : Nat, hits : Nat, misses : Nat]
        /\ counted'.hits = IF hit THEN counted.hits + 1 ELSE counted.hits
        /\ counted'.misses = IF hit THEN counted.misses ELSE counted.misses + 1
    BY <1>1, <1>2, <2>1 DEF RecordRequest
  <2>3. ASSUME NEW c, OfRequests(c) PROVE OfRequests(c)' /\ OfRequests(Plus(c, hit))'
    <3>1. /\ c \in [total : Nat, hits : Nat, misses : Nat]
          /\ c.total = c.hits + c.misses /\ c.hits <= counted.hits /\ c.misses <= counted.misses
      BY <2>3 DEF OfRequests
    <3>2. c.hits \in Nat /\ c.misses \in Nat /\ counted.hits \in Nat /\ counted.misses \in Nat
      BY <1>1, <3>1
    <3>3. OfRequests(c)'
      BY <2>2, <3>1, <3>2 DEF OfRequests
    <3> DEFINE plus == Plus(c, hit)
    <3>4. /\ plus \in [total : Nat, hits : Nat, misses : Nat]
          /\ plus.total = c.total + 1
          /\ plus.hits = IF hit THEN c.hits + 1 ELSE c.hits
          /\ plus.misses = IF hit THEN c.misses ELSE c.misses + 1
      BY <2>1, <3>1
    <3> HIDE DEF plus
    <3>5. OfRequests(plus)'
      BY <2>2, <3>1, <3>2, <3>4 DEF OfRequests
    <3> QED
      BY <3>3, <3>5 DEF plus
  <2>4. /\ counts' = [q \in Processes |-> counts'[q]] /\ counts'[p] = Plus(counts[p], hit)
        /\ \A q \in Processes \ {p} : counts'[q] = counts[q]
        /\ shared' \in {shared, counts'[p]}
    BY <1>2 DEF RecordRequest, CountsInv
  <2>5. \A q \in Processes : OfRequests(counts[q])'
    BY <1>1, <2>3, <2>4 DEF OfRequests
  <2>6. shared' # Nothing => OfRequests(shared)'
    BY <1>1, <2>3, <2>4, <2>5 DEF OfRequests
  <2> QED
    BY <2>2, <2>4, <2>5, <2>6 DEF CountsInv
<1>3. CASE GetMetrics(p)
  BY <1>1, <1>3 DEF GetMetrics, CountsInv, OfRequests
<1>4. CASE ResetMetrics(p)
  <2>1. OfRequests(NoCounts)
    BY <1>1 DEF OfRequests, NoCounts
  <2>2. /\ counts' = [q \in Processes |-> counts'[q]] /\ counted' = counted
        /\ \A q \in Processes : counts'[q] \in {counts[q], NoCounts}
        /\ shared' \in {shared, Nothing}
    BY <1>4 DEF ResetMetrics, CountsInv
  <2> QED
    BY <1>1, <2>1, <2>2 DEF CountsInv, OfRequests
<1> QED
  BY <1>2, <1>3, <1>4

LEMMA ContentInvNext == EntriesInv /\ CountsInv /\ [ContentNext]_contentVars => (EntriesInv /\ CountsInv)'
<1> SUFFICES ASSUME EntriesInv, CountsInv, [ContentNext]_contentVars PROVE EntriesInv' /\ CountsInv'
  OBVIOUS
<1>1. UNCHANGED entryVars => EntriesInv'
  BY DeletingKeepsInv DEF entryVars
<1>2. UNCHANGED countVars => CountsInv'
  BY DEF countVars, CountsInv, OfRequests
<1> QED
  BY <1>1, <1>2, EntriesNextKeepsInv, CountsNextKeepsInv DEF ContentNext, contentVars

\* An invalidation of which no call failed leaves nothing that was there when it began
\* and is meant by it, deletes nothing else that was there when it looked, and the counts
\* of every monitor are of requests that were made (invalidate_*, LLMCacheMonitor), for
\* any number of callers, processes and entries.
THEOREM ContentIsAlwaysRightlyDropped == ContentSpec => []ContentIsRightlyDropped
<1>1. EntriesInv /\ CountsInv /\ [ContentNext]_contentVars => (EntriesInv /\ CountsInv)'
  BY ContentInvNext
<1> QED
  BY <1>1, ContentInvInit, ContentInvSays, PTL DEF ContentSpec

-----------------------------------------------------------------------------
(***************************************************************************)
(* Responses (ResponseCache)                                               *)
(***************************************************************************)

\* LayerKeeps says what a layer has of the keys it was used for, by its policy.
CachedItem == [key : Responses, version : Nat, uses : Nat]
Layer == [policy : {"LRU", "LFU"}, size : Nat \ {0}, items : Seq(CachedItem)]

Has(m, k) == \E i \in 1..Len(m.items) : m.items[i].key = k

EachOnce(used) == \A i, j \in 1..Len(used) : i # j => used[i] # used[j]

\* The items are as many as the keys, or as there is room for.
Fills(m, last) ==
    Len(m.items) <= m.size /\ Len(m.items) <= last /\ (Len(m.items) < m.size => Len(m.items) = last)

LayerKeeps(m, used) ==
    /\ EachOnce(used)
    /\ Fills(m, Len(used))
    /\ \A i, j \in 1..Len(m.items) : i # j => m.items[i].key # m.items[j].key
    /\ \A i \in 1..Len(m.items) : \E j \in 1..Len(used) : used[j] = m.items[i].key
    /\ Len(m.items) = Len(used) => \A j \in 1..Len(used) : Has(m, used[j])
    /\ used # <<>> => Has(m, used[Len(used)])
    /\ m.policy = "LRU" =>
         \A i \in 1..Len(m.items) : m.items[i].key = used[Len(used) - Len(m.items) + i]

-----------------------------------------------------------------------------
(* Layers                                                                  *)

LEMMA WithoutOne ==
    ASSUME NEW S, NEW q \in Seq(S), NEW places \in SUBSET (1..Len(q)), places # {}
    PROVE  \E p \in places :
              /\ Without(q, places) \in Seq(S)
              /\ Len(Without(q, places)) = Len(q) - 1
              /\ \A i \in 1..(Len(q) - 1) : Without(q, places)[i] = IF i < p THEN q[i] ELSE q[i + 1]
<1>1. PICK p : p = CHOOSE i \in places : TRUE
  OBVIOUS
<1>2. p \in places /\ p \in 1..Len(q)
  BY <1>1
<1>3. Without(q, places) = RemoveAt(q, p)
  BY <1>1 DEF Without
<1>. QED  BY <1>2, <1>3, RemoveAtProperties

\* The key used last is the last one, each key stands once, and the others keep
\* their order.
MovedLast(used, k, u) ==
    /\ u \in Seq(Responses) /\ Len(u) \in Nat /\ Len(u) # 0 /\ u[Len(u)] = k
    /\ EachOnce(u)
    /\ \/ /\ \A j \in 1..Len(used) : used[j] # k
          /\ Len(u) = Len(used) + 1
          /\ \A i \in 1..Len(used) : u[i] = used[i]
       \/ \E q \in 1..Len(used) :
             /\ used[q] = k /\ Len(u) = Len(used)
             /\ \A i \in 1..(Len(used) - 1) : u[i] = IF i < q THEN used[i] ELSE used[i + 1]

LEMMA UsedLastIs ==
    ASSUME NEW used \in Seq(Responses), EachOnce(used), NEW k \in Responses
    PROVE  MovedLast(used, k, UsedLast(used, k))
<1>1. PICK there : there = {i \in 1..Len(used) : used[i] = k}
  OBVIOUS
<1>2. PICK w : w = Without(used, there)
  OBVIOUS
<1>3. PICK u : u = UsedLast(used, k)
  OBVIOUS
<1>4. u = Append(w, k)
  BY <1>1, <1>2, <1>3 DEF UsedLast
<1>5. PICK last : last = Len(used) /\ last \in Nat
  BY LenProperties
<1>6. \A i, j \in 1..last : i # j => used[i] # used[j]
  BY <1>5 DEF EachOnce
<1>7. CASE there = {}
  <2>1. w = used
    BY <1>2, <1>7 DEF Without
  <2>2. u \in Seq(Responses) /\ Len(u) = last + 1 /\ u[last + 1] = k /\ \A i \in 1..last : u[i] = used[i]
    BY <1>4, <1>5, <2>1, AppendProperties
  <2>3. \A i \in 1..last : used[i] # k
    BY <1>1, <1>5, <1>7
  <2>4. \A i, j \in 1..(last + 1) : i # j => u[i] # u[j]
    <3>1. ASSUME NEW i \in 1..(last + 1), NEW j \in 1..(last + 1), i # j PROVE u[i] # u[j]
      <4>1. CASE i = last + 1
        <5>1. j \in 1..last
          BY <1>5, <3>1, <4>1
        <5>. QED  BY <2>2, <2>3, <4>1, <5>1
      <4>2. CASE j = last + 1
        <5>1. i \in 1..last
          BY <1>5, <3>1, <4>2
        <5>. QED  BY <2>2, <2>3, <4>2, <5>1
      <4>3. CASE i # last + 1 /\ j # last + 1
        <5>1. i \in 1..last /\ j \in 1..last
          BY <1>5, <4>3
        <5>. QED  BY <1>6, <2>2, <3>1, <5>1
      <4>. QED  BY <4>1, <4>2, <4>3
    <3>. QED  BY <3>1
  <2>5. EachOnce(u)
    BY <2>2, <2>4 DEF EachOnce
  <2>6. Len(u) \in Nat /\ Len(u) # 0 /\ u[Len(u)] = k
    BY <1>5, <2>2
  <2>. QED  BY <1>3, <1>5, <2>2, <2>3, <2>5, <2>6 DEF MovedLast
<1>8. CASE there # {}
  <2>1. PICK q \in there : /\ w \in Seq(Responses) /\ Len(w) = last - 1
                           /\ \A i \in 1..(last - 1) : w[i] = IF i < q THEN used[i] ELSE used[i + 1]
    <3>1. there \in SUBSET (1..Len(used))
      BY <1>1
    <3>. QED  BY <1>2, <1>5, <1>8, <3>1, WithoutOne
  <2>2. q \in 1..last /\ used[q] = k /\ (last - 1) + 1 = last /\ last - 1 \in Nat
    BY <1>1, <1>5, <2>1
  <2>3. u \in Seq(Responses) /\ Len(u) = last /\ u[last] = k /\ \A i \in 1..(last - 1) : u[i] = w[i]
    BY <1>4, <2>1, <2>2, AppendProperties
  <2>4. \A i \in 1..(last - 1) : u[i] = IF i < q THEN used[i] ELSE used[i + 1]
    BY <2>1, <2>3
  <2>5. ASSUME NEW i \in 1..(last - 1)
        PROVE  \E a \in 1..last : u[i] = used[a] /\ a # q /\ a = IF i < q THEN i ELSE i + 1
    <3>1. PICK a : a = IF i < q THEN i ELSE i + 1
      OBVIOUS
    <3>2. a \in 1..last /\ a # q
      BY <1>5, <2>2, <3>1
    <3>. QED  BY <2>4, <3>1, <3>2
  <2>6. \A i, j \in 1..last : i # j => u[i] # u[j]
    <3>1. ASSUME NEW i \in 1..last, NEW j \in 1..last, i # j PROVE u[i] # u[j]
      <4>1. CASE i = last
        <5>1. j \in 1..(last - 1)
          BY <1>5, <3>1, <4>1
        <5>2. PICK b \in 1..last : u[j] = used[b] /\ b # q
          BY <2>5, <5>1
        <5>. QED  BY <1>6, <2>2, <2>3, <4>1, <5>2
      <4>2. CASE j = last
        <5>1. i \in 1..(last - 1)
          BY <1>5, <3>1, <4>2
        <5>2. PICK b \in 1..last : u[i] = used[b] /\ b # q
          BY <2>5, <5>1
        <5>. QED  BY <1>6, <2>2, <2>3, <4>2, <5>2
      <4>3. CASE i # last /\ j # last
        <5>1. i \in 1..(last - 1) /\ j \in 1..(last - 1)
          BY <1>5, <4>3
        <5>2. PICK a \in 1..last : u[i] = used[a] /\ a # q /\ a = IF i < q THEN i ELSE i + 1
          BY <2>5, <5>1
        <5>3. PICK b \in 1..last : u[j] = used[b] /\ b # q /\ b = IF j < q THEN j ELSE j + 1
          BY <2>5, <5>1
        <5>4. a # b
          BY <1>5, <2>2, <3>1, <5>2, <5>3
        <5>. QED  BY <1>6, <5>2, <5>3, <5>4
      <4>. QED  BY <4>1, <4>2, <4>3
    <3>. QED  BY <3>1
  <2>7. EachOnce(u)
    BY <2>3, <2>6 DEF EachOnce
  <2>8. Len(u) \in Nat /\ Len(u) # 0 /\ u[Len(u)] = k
    BY <1>5, <2>2, <2>3
  <2>. QED  BY <1>3, <1>5, <2>2, <2>3, <2>4, <2>7, <2>8 DEF MovedLast
<1>. QED  BY <1>7, <1>8

\* The keys used are those before and the one used now.
LEMMA UsedLastHas ==
    ASSUME NEW used \in Seq(Responses), NEW k, NEW u, MovedLast(used, k, u)
    PROVE  \A j \in 1..Len(used) : \E i \in 1..Len(u) : u[i] = used[j]
<1>1. PICK last : last = Len(used) /\ last \in Nat
  BY LenProperties
<1>2. /\ Len(u) \in Nat /\ Len(u) # 0 /\ u[Len(u)] = k
      /\ \/ Len(u) = last + 1 /\ \A i \in 1..last : u[i] = used[i]
         \/ \E q \in 1..last :
               /\ used[q] = k /\ Len(u) = last
               /\ \A i \in 1..(last - 1) : u[i] = IF i < q THEN used[i] ELSE used[i + 1]
  BY <1>1 DEF MovedLast
<1> SUFFICES ASSUME NEW j \in 1..last PROVE \E i \in 1..Len(u) : u[i] = used[j]
  BY <1>1
<1>3. CASE Len(u) = last + 1 /\ \A i \in 1..last : u[i] = used[i]
  <2>1. j \in 1..Len(u)
    BY <1>1, <1>3
  <2>. QED  BY <1>3, <2>1
<1>4. CASE \E q \in 1..last :
               /\ used[q] = k /\ Len(u) = last
               /\ \A i \in 1..(last - 1) : u[i] = IF i < q THEN used[i] ELSE used[i + 1]
  <2>1. PICK q \in 1..last :
               /\ used[q] = k /\ Len(u) = last
               /\ \A i \in 1..(last - 1) : u[i] = IF i < q THEN used[i] ELSE used[i + 1]
    BY <1>4
  <2>2. CASE j = q
    <3>1. Len(u) \in 1..Len(u)
      BY <1>2
    <3>. QED  BY <1>2, <2>1, <2>2, <3>1
  <2>3. CASE j < q
    <3>1. j \in 1..(last - 1) /\ j \in 1..Len(u)
      BY <1>1, <2>1, <2>3
    <3>. QED  BY <2>1, <2>3, <3>1
  <2>4. CASE j > q
    <3>1. j - 1 \in 1..(last - 1) /\ j - 1 \in 1..Len(u) /\ ~(j - 1 < q) /\ (j - 1) + 1 = j
      BY <1>1, <2>1, <2>4
    <3>. QED  BY <2>1, <3>1
  <2>5. j = q \/ j < q \/ j > q
    BY <2>1
  <2>. QED  BY <2>2, <2>3, <2>4, <2>5
<1>. QED  BY <1>1, <1>2, <1>3, <1>4

\* What is left of a layer without a key it has once.
LeftWithout(m, k, o) ==
    /\ o \in Seq(CachedItem)
    /\ \/ ~Has(m, k) /\ o = m.items
       \/ \E p \in 1..Len(m.items) :
             /\ m.items[p].key = k /\ Len(o) = Len(m.items) - 1
             /\ \A i \in 1..(Len(m.items) - 1) : o[i] = IF i < p THEN m.items[i] ELSE m.items[i + 1]

LEMMA OthersAre ==
    ASSUME NEW m \in Layer, NEW k
    PROVE  LeftWithout(m, k, Others(m, k))
<1>1. m.items \in Seq(CachedItem)
  BY DEF Layer
<1>2. PICK places : places = At(m, k)
  OBVIOUS
<1>3. places = {i \in 1..Len(m.items) : m.items[i].key = k} /\ Others(m, k) = Without(m.items, places)
  BY <1>2 DEF At, Others
<1>4. CASE places = {}
  <2>1. ~Has(m, k)
    BY <1>3, <1>4 DEF Has
  <2>2. Others(m, k) = m.items
    BY <1>3, <1>4 DEF Without
  <2>. QED  BY <1>1, <2>1, <2>2 DEF LeftWithout
<1>5. CASE places # {}
  <2>1. places \in SUBSET (1..Len(m.items))
    BY <1>3
  <2>2. PICK p \in places :
              /\ Without(m.items, places) \in Seq(CachedItem)
              /\ Len(Without(m.items, places)) = Len(m.items) - 1
              /\ \A i \in 1..(Len(m.items) - 1) :
                    Without(m.items, places)[i] = IF i < p THEN m.items[i] ELSE m.items[i + 1]
    BY <1>1, <1>5, <2>1, WithoutOne
  <2>3. p \in 1..Len(m.items) /\ m.items[p].key = k
    BY <1>3
  <2>. QED  BY <1>3, <2>2, <2>3 DEF LeftWithout
<1>. QED  BY <1>4, <1>5

\* There is one that was used least.
LEMMA LeastUsedIsThere ==
    ASSUME NEW m \in Layer, Len(m.items) # 0
    PROVE  LeastUsed(m) \in 1..Len(m.items)
<1>1. m.items \in Seq(CachedItem) /\ Len(m.items) \in Nat
  BY LenProperties DEF Layer
<1>2. \A i \in 1..Len(m.items) : m.items[i].uses \in Nat
  <2>1. \A i \in 1..Len(m.items) : m.items[i] \in CachedItem
    BY <1>1, ElementOfSeq
  <2>. QED  BY <2>1 DEF CachedItem
<1>3. PICK T : T = {m.items[i].uses : i \in 1..Len(m.items)}
  OBVIOUS
<1>4. T \in SUBSET Nat /\ T # {}
  <2>1. 1 \in 1..Len(m.items)
    BY <1>1
  <2>. QED  BY <1>2, <1>3, <2>1
<1>5. PICK least \in T : \A x \in T : least <= x
  BY <1>4, LeastElement
<1>6. PICK L : L = {i \in 1..Len(m.items) : \A j \in 1..Len(m.items) : m.items[i].uses <= m.items[j].uses}
  OBVIOUS
<1>7. L \in SUBSET Nat /\ L # {}
  <2>1. PICK i \in 1..Len(m.items) : m.items[i].uses = least
    BY <1>3
  <2>2. i \in L
    BY <1>3, <1>5, <1>6, <2>1
  <2>. QED  BY <1>6, <2>2
<1>8. Min(L) \in L
  BY <1>7, MinOfNats
<1>9. LeastUsed(m) = Min(L)
  BY <1>6 DEF LeastUsed
<1>. QED  BY <1>6, <1>8, <1>9

\* A layer whose keys are the end of those it was used for has all it should.
LEMMA EndOfUsedKeeps ==
    ASSUME NEW w \in Layer, NEW u \in Seq(Responses), EachOnce(u), Fills(w, Len(u)),
           \A i \in 1..Len(w.items) : w.items[i].key = u[Len(u) - Len(w.items) + i]
    PROVE  LayerKeeps(w, u)
<1>1. PICK n, last : n = Len(w.items) /\ last = Len(u) /\ n \in Nat /\ last \in Nat
  BY LenProperties DEF Layer
<1>2. n <= w.size /\ n <= last /\ (n < w.size => n = last) /\ w.size \in Nat /\ w.size # 0
  BY <1>1 DEF Fills, Layer
<1>3. \A i \in 1..n : last - n + i \in 1..last /\ w.items[i].key = u[last - n + i]
  <2>1. \A i \in 1..n : w.items[i].key = u[last - n + i]
    BY <1>1
  <2>2. n <= last
    BY <1>2
  <2>3. \A i \in 1..n : last - n + i \in 1..last
    BY <1>1, <2>2
  <2>. QED  BY <2>1, <2>3
<1>4. \A i, j \in 1..n : i # j => w.items[i].key # w.items[j].key
  <2>1. ASSUME NEW i \in 1..n, NEW j \in 1..n, i # j PROVE w.items[i].key # w.items[j].key
    <3>1. PICK a, b : a = last - n + i /\ b = last - n + j
      OBVIOUS
    <3>2. a \in 1..last /\ b \in 1..last /\ w.items[i].key = u[a] /\ w.items[j].key = u[b]
      BY <1>3, <3>1
    <3>3. a # b
      BY <1>1, <2>1, <3>1
    <3>. QED  BY <1>1, <3>2, <3>3 DEF EachOnce
  <2>. QED  BY <2>1
<1>5. \A i \in 1..n : \E j \in 1..last : u[j] = w.items[i].key
  BY <1>3
<1>6. n = last => \A j \in 1..last : Has(w, u[j])
  <2>1. ASSUME n = last, NEW j \in 1..last PROVE Has(w, u[j])
    <3>1. j \in 1..n /\ last - n + j = j
      BY <1>1, <2>1
    <3>2. w.items[j].key = u[j]
      BY <1>3, <3>1
    <3>. QED  BY <1>1, <3>1, <3>2 DEF Has
  <2>. QED  BY <2>1
<1>7. u # <<>> => Has(w, u[last])
  <2>1. ASSUME u # <<>> PROVE Has(w, u[last])
    <3>1. last # 0
      BY <1>1, <2>1, EmptySeq
    <3>2. n \in 1..n /\ last - n + n = last
      BY <1>1, <1>2, <3>1
    <3>3. w.items[n].key = u[last]
      BY <1>3, <3>2
    <3>. QED  BY <1>1, <3>2, <3>3 DEF Has
  <2>. QED  BY <2>1
<1>. QED  BY <1>1, <1>4, <1>5, <1>6, <1>7 DEF LayerKeeps

\* A layer that evicts by use moves the key to its end, and has no more than it may.
MovedIn(m, k, w) ==
    /\ w \in Layer /\ w.policy = m.policy /\ w.size = m.size
    /\ Len(w.items) # 0 /\ w.items[Len(w.items)].key = k
    /\ \/ \E p \in 1..Len(m.items) :
             /\ m.items[p].key = k /\ Len(w.items) = Len(m.items)
             /\ \A i \in 1..(Len(m.items) - 1) :
                   w.items[i].key = IF i < p THEN m.items[i].key ELSE m.items[i + 1].key
       \/ /\ ~Has(m, k) /\ Len(m.items) < m.size /\ Len(w.items) = Len(m.items) + 1
          /\ \A i \in 1..Len(m.items) : w.items[i].key = m.items[i].key
       \/ /\ ~Has(m, k) /\ Len(m.items) = m.size /\ Len(w.items) = Len(m.items)
          /\ \A i \in 1..(Len(m.items) - 1) : w.items[i].key = m.items[i + 1].key

LEMMA MovedInKeeps ==
    ASSUME NEW m \in Layer, m.policy = "LRU", NEW used \in Seq(Responses), LayerKeeps(m, used),
           NEW k, NEW w, MovedIn(m, k, w), NEW u, MovedLast(used, k, u)
    PROVE  LayerKeeps(w, u)
<1>1. PICK n, last : n = Len(m.items) /\ last = Len(used) /\ n \in Nat /\ last \in Nat
  BY LenProperties DEF Layer
<1>2. PICK nn, ll : nn = Len(w.items) /\ ll = Len(u) /\ nn \in Nat /\ ll \in Nat
  BY LenProperties DEF Layer, MovedIn, MovedLast
<1>3. PICK size : size = m.size /\ w.size = size /\ size \in Nat /\ size # 0
  BY DEF Layer, MovedIn
<1>4. /\ n <= size /\ n <= last /\ (n < size => n = last)
      /\ n = last => \A j \in 1..last : Has(m, used[j])
      /\ \A i \in 1..n : w.policy = "LRU" /\ m.items[i].key = used[last - n + i]
  BY <1>1, <1>3 DEF LayerKeeps, Fills, MovedIn
<1>5. \A i, j \in 1..last : i # j => used[i] # used[j]
  BY <1>1 DEF LayerKeeps, EachOnce
<1>6. n \in Nat /\ last \in Nat /\ n <= last
  BY <1>1, <1>4
<1>7. w \in Layer /\ u \in Seq(Responses) /\ EachOnce(u) /\ nn # 0 /\ ll # 0 /\ w.items[nn].key = k /\ u[ll] = k
  BY <1>2 DEF MovedIn, MovedLast
<1>8. /\ nn <= size /\ nn <= ll /\ (nn < size => nn = ll)
      /\ \A i \in 1..(nn - 1) : w.items[i].key = u[ll - nn + i]
  <2>1. CASE \E p \in 1..n :
             /\ m.items[p].key = k /\ nn = n
             /\ \A i \in 1..(n - 1) :
                   w.items[i].key = IF i < p THEN m.items[i].key ELSE m.items[i + 1].key
    <3>1. PICK p \in 1..n :
             /\ m.items[p].key = k /\ nn = n
             /\ \A i \in 1..(n - 1) :
                   w.items[i].key = IF i < p THEN m.items[i].key ELSE m.items[i + 1].key
      BY <2>1
    <3>2. PICK a : a = last - n + p
      OBVIOUS
    <3>3. a \in 1..last /\ used[a] = k
      <4>1. p \in 1..n /\ m.items[p].key = k
        BY <3>1
      <4>2. a \in 1..last
        BY <1>6, <3>2, <4>1
      <4>3. m.items[p].key = used[last - n + p]
        BY <1>4, <4>1
      <4>. QED  BY <3>2, <4>1, <4>2, <4>3
    <3>4. ll = last /\ \A i \in 1..(last - 1) : u[i] = IF i < a THEN used[i] ELSE used[i + 1]
      <4>1. PICK q \in 1..last :
             /\ used[q] = k /\ ll = last
             /\ \A i \in 1..(last - 1) : u[i] = IF i < q THEN used[i] ELSE used[i + 1]
        BY <1>1, <1>2, <3>3 DEF MovedLast
      <4>2. q = a
        BY <1>5, <3>3, <4>1
      <4>. QED  BY <4>1, <4>2
    <3>5. ASSUME NEW i \in 1..(n - 1) PROVE w.items[i].key = u[last - n + i]
      <4>1. PICK b : b = last - n + i
        OBVIOUS
      <4>2. b \in 1..(last - 1) /\ i \in 1..n /\ i + 1 \in 1..n
            /\ (b < a <=> i < p) /\ b + 1 = last - n + (i + 1)
        <5>1. p \in Int /\ i \in Int /\ 1 <= i /\ i <= n - 1
          BY <1>6, <3>1
        <5>. QED  BY <1>6, <3>2, <4>1, <5>1
      <4>3. m.items[i].key = used[b] /\ m.items[i + 1].key = used[b + 1]
        BY <1>4, <4>1, <4>2
      <4>4. u[b] = IF b < a THEN used[b] ELSE used[b + 1]
        BY <3>4, <4>2
      <4>. QED  BY <3>1, <4>1, <4>2, <4>3, <4>4
    <3>. QED  BY <1>4, <3>1, <3>4, <3>5
  <2>2. CASE ~Has(m, k) /\ n < size /\ nn = n + 1 /\ \A i \in 1..n : w.items[i].key = m.items[i].key
    <3>1. n = last
      BY <1>4, <2>2
    <3>2. \A j \in 1..last : used[j] # k
      BY <1>4, <2>2, <3>1
    <3>3. ll = last + 1 /\ \A i \in 1..last : u[i] = used[i]
      BY <1>1, <1>2, <3>2 DEF MovedLast
    <3>4. ASSUME NEW i \in 1..(nn - 1) PROVE w.items[i].key = u[ll - nn + i]
      <4>1. i \in 1..n /\ i \in 1..last /\ ll - nn + i = i /\ last - n + i = i
        BY <1>1, <2>2, <3>1, <3>3
      <4>. QED  BY <1>4, <2>2, <3>3, <4>1
    <3>. QED  BY <1>1, <1>3, <2>2, <3>1, <3>3, <3>4
  <2>3. CASE ~Has(m, k) /\ n = size /\ nn = n /\ \A i \in 1..(n - 1) : w.items[i].key = m.items[i + 1].key
    <3>1. \A i \in 1..n : used[last - n + i] # k
      BY <1>1, <1>4, <2>3 DEF Has
    <3>2. CASE ll = last + 1 /\ \A i \in 1..last : u[i] = used[i]
      <4>1. ASSUME NEW i \in 1..(n - 1) PROVE w.items[i].key = u[ll - nn + i]
        <5>1. PICK b : b = ll - nn + i
          OBVIOUS
        <5>2. b \in 1..last /\ i + 1 \in 1..n /\ last - n + (i + 1) = b
          BY <1>1, <1>4, <2>3, <3>2, <5>1
        <5>3. m.items[i + 1].key = used[b]
          BY <1>4, <5>2
        <5>. QED  BY <2>3, <3>2, <5>1, <5>2, <5>3
      <4>2. nn <= ll
        BY <1>1, <1>4, <2>3, <3>2
      <4>. QED  BY <1>3, <2>3, <4>1, <4>2
    <3>3. CASE \E q \in 1..last :
             /\ used[q] = k /\ ll = last
             /\ \A i \in 1..(last - 1) : u[i] = IF i < q THEN used[i] ELSE used[i + 1]
      <4>1. PICK q \in 1..last :
             /\ used[q] = k /\ ll = last
             /\ \A i \in 1..(last - 1) : u[i] = IF i < q THEN used[i] ELSE used[i + 1]
        BY <3>3
      <4>2. q <= last - n
        <5>1. SUFFICES ASSUME q > last - n PROVE FALSE
          BY <1>1, <4>1
        <5>2. PICK i : i = q - (last - n)
          OBVIOUS
        <5>3. i \in 1..n /\ last - n + i = q
          BY <1>6, <4>1, <5>1, <5>2
        <5>4. used[last - n + i] # k
          BY <3>1, <5>3
        <5>. QED  BY <4>1, <5>3, <5>4
      <4>3. ASSUME NEW i \in 1..(n - 1) PROVE w.items[i].key = u[ll - nn + i]
        <5>1. PICK b : b = last - n + i
          OBVIOUS
        <5>2. b \in 1..(last - 1) /\ ~(b < q) /\ i + 1 \in 1..n /\ last - n + (i + 1) = b + 1
          <6>1. q \in Int /\ i \in Int /\ 1 <= i /\ i <= n - 1
            BY <1>6, <4>1
          <6>. QED  BY <1>6, <4>2, <5>1, <6>1
        <5>3. m.items[i + 1].key = used[b + 1]
          BY <1>4, <5>2
        <5>4. u[b] = used[b + 1]
          BY <4>1, <5>2
        <5>5. ll - nn + i = b
          BY <2>3, <4>1, <5>1
        <5>. QED  BY <2>3, <5>3, <5>4, <5>5
      <4>. QED  BY <1>3, <1>4, <2>3, <4>1, <4>3
    <3>. QED  BY <1>1, <1>2, <3>2, <3>3 DEF MovedLast
  <2>. QED  BY <1>1, <1>2, <1>3, <2>1, <2>2, <2>3 DEF MovedIn
<1>9. \A i \in 1..nn : w.items[i].key = u[ll - nn + i]
  <2>1. ASSUME NEW i \in 1..nn PROVE w.items[i].key = u[ll - nn + i]
    <3>1. CASE i = nn
      <4>1. ll - nn + i = ll
        BY <1>2, <3>1
      <4>. QED  BY <1>7, <3>1, <4>1
    <3>2. CASE i # nn
      <4>1. i \in 1..(nn - 1)
        BY <1>2, <3>2
      <4>. QED  BY <1>8, <4>1
    <3>. QED  BY <3>1, <3>2
  <2>. QED  BY <2>1
<1>10. Fills(w, Len(u))
  BY <1>2, <1>3, <1>8 DEF Fills
<1>. QED  BY <1>2, <1>7, <1>9, <1>10, EndOfUsedKeeps

\* Nothing else is used now than before, but the key.
LEMMA UsedLastOnly ==
    ASSUME NEW used \in Seq(Responses), NEW k, NEW u, MovedLast(used, k, u)
    PROVE  \A i \in 1..Len(u) : u[i] = k \/ \E j \in 1..Len(used) : u[i] = used[j]
<1>1. PICK last, ll : last = Len(used) /\ last \in Nat /\ ll = Len(u) /\ ll \in Nat
  BY LenProperties DEF MovedLast
<1>2. /\ u[ll] = k
      /\ \/ ll = last + 1 /\ \A i \in 1..last : u[i] = used[i]
         \/ \E q \in 1..last :
               /\ used[q] = k /\ ll = last
               /\ \A i \in 1..(last - 1) : u[i] = IF i < q THEN used[i] ELSE used[i + 1]
  BY <1>1 DEF MovedLast
<1> SUFFICES ASSUME NEW i \in 1..ll, i # ll PROVE \E j \in 1..last : u[i] = used[j]
  BY <1>1, <1>2
<1>3. CASE ll = last + 1 /\ \A j \in 1..last : u[j] = used[j]
  <2>1. i \in 1..last
    BY <1>1, <1>3
  <2>. QED  BY <1>3, <2>1
<1>4. CASE \E q \in 1..last :
               /\ used[q] = k /\ ll = last
               /\ \A j \in 1..(last - 1) : u[j] = IF j < q THEN used[j] ELSE used[j + 1]
  <2>1. PICK q \in 1..last :
               /\ used[q] = k /\ ll = last
               /\ \A j \in 1..(last - 1) : u[j] = IF j < q THEN used[j] ELSE used[j + 1]
    BY <1>4
  <2>2. i \in 1..(last - 1) /\ i \in 1..last /\ i + 1 \in 1..last
    BY <1>1, <2>1
  <2>. QED  BY <2>1, <2>2
<1>. QED  BY <1>2, <1>3, <1>4

\* A layer that evicts by frequency keeps the place of a key it has.
LEMMA SameKeysKeep ==
    ASSUME NEW m \in Layer, m.policy = "LFU", NEW used \in Seq(Responses), LayerKeeps(m, used),
           NEW k, Has(m, k), NEW u, MovedLast(used, k, u),
           NEW w \in Layer, w.policy = m.policy, w.size = m.size, Len(w.items) = Len(m.items),
           \A i \in 1..Len(m.items) : w.items[i].key = m.items[i].key
    PROVE  LayerKeeps(w, u)
<1>1. PICK n, last : n = Len(m.items) /\ last = Len(used) /\ n \in Nat /\ last \in Nat
  BY LenProperties DEF Layer
<1>2. /\ n <= m.size /\ n <= last /\ (n < m.size => n = last)
      /\ \A i, j \in 1..n : i # j => m.items[i].key # m.items[j].key
      /\ \A i \in 1..n : \E j \in 1..last : used[j] = m.items[i].key
      /\ n = last => \A j \in 1..last : Has(m, used[j])
  BY <1>1 DEF LayerKeeps, Fills
<1>3. EachOnce(u) /\ u[Len(u)] = k
  BY DEF MovedLast
<1>4. \A x : Has(w, x) <=> Has(m, x)
  BY <1>1 DEF Has
<1>5. Len(u) = last
  <2>1. PICK i \in 1..n : m.items[i].key = k
    BY <1>1 DEF Has
  <2>2. \E j \in 1..last : used[j] = k
    BY <1>2, <2>1
  <2>. QED  BY <1>1, <2>2 DEF MovedLast
<1>6. Fills(w, Len(u))
  BY <1>1, <1>2, <1>5 DEF Fills
<1>7. \A i \in 1..Len(w.items) : \E j \in 1..Len(u) : u[j] = w.items[i].key
  <2>1. ASSUME NEW i \in 1..n PROVE \E j \in 1..Len(u) : u[j] = w.items[i].key
    <3>1. PICK a \in 1..last : used[a] = m.items[i].key
      BY <1>2
    <3>2. PICK j \in 1..Len(u) : u[j] = used[a]
      BY <1>1, UsedLastHas
    <3>. QED  BY <1>1, <3>1, <3>2
  <2>. QED  BY <1>1, <2>1
<1>8. Len(w.items) = Len(u) => \A j \in 1..Len(u) : Has(w, u[j])
  <2>1. ASSUME n = last, NEW j \in 1..Len(u) PROVE Has(w, u[j])
    <3>1. u[j] = k \/ \E a \in 1..last : u[j] = used[a]
      BY <1>1, UsedLastOnly
    <3>. QED  BY <1>2, <1>4, <2>1, <3>1
  <2>. QED  BY <1>1, <1>5, <2>1
<1>9. \A i, j \in 1..Len(w.items) : i # j => w.items[i].key # w.items[j].key
  BY <1>1, <1>2
<1>. QED  BY <1>3, <1>4, <1>6, <1>7, <1>8, <1>9 DEF LayerKeeps

\* It takes a new key in at its end, in a place of its own or in that of another.
TakenIn(m, k, w) ==
    /\ w \in Layer /\ w.policy = m.policy /\ w.size = m.size /\ ~Has(m, k)
    /\ \/ /\ Len(m.items) < m.size /\ Len(w.items) = Len(m.items) + 1
          /\ \A i \in 1..Len(m.items) : w.items[i].key = m.items[i].key
       \/ /\ Len(m.items) = m.size /\ Len(w.items) = Len(m.items)
          /\ \E e \in 1..Len(m.items) : \A i \in 1..(Len(m.items) - 1) :
                w.items[i].key = IF i < e THEN m.items[i].key ELSE m.items[i + 1].key
    /\ w.items[Len(w.items)].key = k

LEMMA TakenInKeeps ==
    ASSUME NEW m \in Layer, m.policy = "LFU", NEW used \in Seq(Responses), LayerKeeps(m, used),
           NEW k, NEW w, TakenIn(m, k, w), NEW u, MovedLast(used, k, u)
    PROVE  LayerKeeps(w, u)
<1>1. PICK n, last : n = Len(m.items) /\ last = Len(used) /\ n \in Nat /\ last \in Nat
  BY LenProperties DEF Layer
<1>2. PICK nn, ll : nn = Len(w.items) /\ ll = Len(u) /\ nn \in Nat /\ ll \in Nat
  BY LenProperties DEF Layer, TakenIn, MovedLast
<1>3. PICK size : size = m.size /\ w.size = size /\ size \in Nat /\ size # 0
  BY DEF Layer, TakenIn
<1>4. /\ n <= size /\ n <= last /\ (n < size => n = last)
      /\ \A i, j \in 1..n : i # j => m.items[i].key # m.items[j].key
      /\ \A i \in 1..n : \E j \in 1..last : used[j] = m.items[i].key
      /\ n = last => \A j \in 1..last : Has(m, used[j])
  BY <1>1, <1>3 DEF LayerKeeps, Fills
<1>5. n \in Nat /\ last \in Nat /\ size \in Nat /\ n <= size /\ n <= last /\ (n < size => n = last)
  BY <1>1, <1>3, <1>4
<1>6. EachOnce(u) /\ u[ll] = k /\ ll # 0 /\ (ll = last + 1 \/ (ll = last /\ \E q \in 1..last : used[q] = k))
  <2>1. EachOnce(u) /\ u[ll] = k /\ ll # 0
    BY <1>2 DEF MovedLast
  <2>2. ll = last + 1 \/ (ll = last /\ \E q \in 1..last : used[q] = k)
    BY <1>1, <1>2 DEF MovedLast
  <2>. QED  BY <2>1, <2>2
<1>7. /\ w \in Layer /\ w.policy = "LFU" /\ w.items[nn].key = k
      /\ \A i \in 1..n : m.items[i].key # k
      /\ \/ /\ n < size /\ nn = n + 1
            /\ \A i \in 1..n : w.items[i].key = m.items[i].key
         \/ /\ n = size /\ nn = n
            /\ \E e \in 1..n : \A i \in 1..(n - 1) :
                  w.items[i].key = IF i < e THEN m.items[i].key ELSE m.items[i + 1].key
  BY <1>1, <1>2, <1>3 DEF TakenIn, Has
<1>8. ASSUME n = last, NEW j \in 1..last PROVE used[j] # k
  <2>1. PICK i \in 1..n : m.items[i].key = used[j]
    BY <1>1, <1>4, <1>8 DEF Has
  <2>. QED  BY <1>7, <2>1
<1>9. /\ nn <= size /\ nn <= ll /\ nn # 0 /\ (nn < size => nn = ll)
      /\ nn = ll => n < size
  <2>1. CASE n < size /\ nn = n + 1
    <3>1. ll = last + 1
      BY <1>5, <1>6, <1>8, <2>1
    <3>. QED  BY <1>5, <2>1, <3>1
  <2>2. CASE n = size /\ nn = n
    <3>1. ll = last + 1 \/ (ll = last /\ n # last)
      BY <1>6, <1>8
    <3>2. nn < ll
      BY <1>5, <2>2, <3>1
    <3>. QED  BY <1>2, <1>3, <1>5, <2>2, <3>2
  <2>. QED  BY <1>7, <2>1, <2>2
<1>10. PICK e : /\ \A i \in 1..(nn - 1) : e[i] \in 1..n /\ w.items[i].key = m.items[e[i]].key
                /\ \A i, j \in 1..(nn - 1) : i # j => e[i] # e[j]
  <2>1. CASE n < size /\ nn = n + 1 /\ \A i \in 1..n : w.items[i].key = m.items[i].key
    <3>1. PICK f : f = [i \in 1..n |-> i]
      OBVIOUS
    <3>2. 1..(nn - 1) = 1..n
      BY <1>5, <2>1
    <3>3. \A i \in 1..n : f[i] \in 1..n /\ f[i] = i
      BY <3>1
    <3>4. \A i \in 1..n : w.items[i].key = m.items[f[i]].key
      BY <2>1, <3>3
    <3>5. \A i, j \in 1..n : i # j => f[i] # f[j]
      BY <3>3
    <3>6. \A i \in 1..(nn - 1) : f[i] \in 1..n /\ w.items[i].key = m.items[f[i]].key
      BY <3>2, <3>3, <3>4
    <3>7. \A i, j \in 1..(nn - 1) : i # j => f[i] # f[j]
      BY <3>2, <3>5
    <3>. QED  BY <3>6, <3>7
  <2>2. CASE n = size /\ nn = n /\ \E e \in 1..n : \A i \in 1..(n - 1) :
                  w.items[i].key = IF i < e THEN m.items[i].key ELSE m.items[i + 1].key
    <3>1. PICK p \in 1..n : \A i \in 1..(n - 1) :
                  w.items[i].key = IF i < p THEN m.items[i].key ELSE m.items[i + 1].key
      BY <2>2
    <3>2. PICK f : f = [i \in 1..(n - 1) |-> IF i < p THEN i ELSE i + 1]
      OBVIOUS
    <3>3. \A i \in 1..(n - 1) : f[i] = IF i < p THEN i ELSE i + 1
      BY <3>2
    <3>4. \A i \in 1..(n - 1) : f[i] \in 1..n
      BY <1>5, <3>3
    <3>5. \A i, j \in 1..(n - 1) : i # j => f[i] # f[j]
      BY <1>5, <3>3
    <3>6. \A i \in 1..(n - 1) : w.items[i].key = m.items[f[i]].key
      BY <3>1, <3>3
    <3>. QED  BY <2>2, <3>4, <3>5, <3>6
  <2>. QED  BY <1>7, <2>1, <2>2
<1>11. Fills(w, Len(u))
  BY <1>2, <1>3, <1>9 DEF Fills
<1>12. ASSUME NEW i \in 1..nn, NEW j \in 1..nn, i # j PROVE w.items[i].key # w.items[j].key
  <2>1. CASE i = nn
    <3>1. j \in 1..(nn - 1)
      BY <1>2, <1>12, <2>1
    <3>. QED  BY <1>7, <1>10, <2>1, <3>1
  <2>2. CASE j = nn
    <3>1. i \in 1..(nn - 1)
      BY <1>2, <1>12, <2>2
    <3>. QED  BY <1>7, <1>10, <2>2, <3>1
  <2>3. CASE i # nn /\ j # nn
    <3>1. i \in 1..(nn - 1) /\ j \in 1..(nn - 1)
      BY <1>2, <2>3
    <3>2. e[i] \in 1..n /\ e[j] \in 1..n /\ e[i] # e[j]
      BY <1>10, <1>12, <3>1
    <3>. QED  BY <1>4, <1>10, <3>1, <3>2
  <2>. QED  BY <2>1, <2>2, <2>3
<1>13. ASSUME NEW i \in 1..nn PROVE \E j \in 1..ll : u[j] = w.items[i].key
  <2>1. CASE i = nn
    <3>1. ll \in 1..ll
      BY <1>2, <1>6
    <3>. QED  BY <1>6, <1>7, <2>1, <3>1
  <2>2. CASE i # nn
    <3>1. i \in 1..(nn - 1)
      BY <1>2, <2>2
    <3>2. PICK a \in 1..last : used[a] = w.items[i].key
      BY <1>4, <1>10, <3>1
    <3>. QED  BY <1>1, <1>2, <3>2, UsedLastHas
  <2>. QED  BY <2>1, <2>2
<1>14. ASSUME nn = ll, NEW j \in 1..ll PROVE Has(w, u[j])
  <2>1. n < size /\ nn = n + 1 /\ n = last /\ \A i \in 1..n : w.items[i].key = m.items[i].key
    BY <1>5, <1>7, <1>9, <1>14
  <2>2. CASE u[j] = k
    <3>1. nn \in 1..nn
      BY <1>2, <1>9
    <3>. QED  BY <1>2, <1>7, <2>2, <3>1 DEF Has
  <2>3. CASE \E a \in 1..last : u[j] = used[a]
    <3>1. PICK i \in 1..n : m.items[i].key = u[j]
      BY <1>1, <1>4, <2>1, <2>3 DEF Has
    <3>2. i \in 1..nn
      BY <1>5, <2>1
    <3>. QED  BY <1>2, <2>1, <3>1, <3>2 DEF Has
  <2>. QED  BY <1>1, <1>2, <2>2, <2>3, UsedLastOnly
<1>15. Has(w, u[Len(u)])
  <2>1. nn \in 1..nn
    BY <1>2, <1>9
  <2>. QED  BY <1>2, <1>6, <1>7, <2>1 DEF Has
<1>. QED  BY <1>2, <1>6, <1>7, <1>11, <1>12, <1>13, <1>14, <1>15 DEF LayerKeeps

\* The items of a layer are those before, with one of the key perhaps.
ItemsFrom(m, k, v, w) ==
    \A i \in 1..Len(w.items) :
        \/ w.items[i].key = k /\ w.items[i].version = v
        \/ /\ w.items[i].key # k
           /\ \E j \in 1..Len(m.items) : /\ w.items[i].key = m.items[j].key
                                         /\ w.items[i].version = m.items[j].version

LEMMA LayerIs ==
    ASSUME NEW m \in Layer
    PROVE  /\ m.items \in Seq(CachedItem) /\ Len(m.items) \in Nat
           /\ \A i \in 1..Len(m.items) : m.items[i] \in CachedItem
           /\ m.size \in Nat /\ m.size # 0 /\ (m.policy = "LRU" \/ m.policy = "LFU")
           /\ \A q \in Seq(CachedItem) : LET w == [m EXCEPT !.items = q]
                                  IN w \in Layer /\ w.policy = m.policy /\ w.size = m.size /\ w.items = q
<1>1. /\ m = [policy |-> m.policy, size |-> m.size, items |-> m.items]
      /\ m.items \in Seq(CachedItem) /\ m.size \in Nat /\ m.size # 0 /\ m.policy \in {"LRU", "LFU"}
  BY DEF Layer
<1>2. Len(m.items) \in Nat /\ \A i \in 1..Len(m.items) : m.items[i] \in CachedItem
  BY <1>1, LenProperties, ElementOfSeq
<1>3. ASSUME NEW q \in Seq(CachedItem), NEW w, w = [m EXCEPT !.items = q]
      PROVE  w \in Layer /\ w.policy = m.policy /\ w.size = m.size /\ w.items = q
  <2>1. w = [policy |-> m.policy, size |-> m.size, items |-> q]
    BY <1>1, <1>3
  <2>. QED  BY <1>1, <1>3, <2>1 DEF Layer
<1>. QED  BY <1>1, <1>2, <1>3

\* LRUCache.set
LEMMA SetLru ==
    ASSUME NEW m \in Layer, m.policy = "LRU", Len(m.items) <= m.size,
           NEW k \in Responses, NEW v \in Nat, NEW w, w = WithItem(m, k, v),
           \A i, j \in 1..Len(m.items) : i # j => m.items[i].key # m.items[j].key
    PROVE  MovedIn(m, k, w) /\ ItemsFrom(m, k, v, w)
<1>1. PICK n : n = Len(m.items) /\ n \in Nat
  BY LayerIs
<1>2. PICK new : new = [key |-> k, version |-> v, uses |-> 1]
  OBVIOUS
<1>3. new \in CachedItem /\ new.key = k /\ new.version = v
  BY <1>2 DEF CachedItem
<1>4. PICK o : o = Others(m, k)
  OBVIOUS
<1>5. LeftWithout(m, k, o)
  BY <1>4, OthersAre
<1>6. PICK all : all = Append(o, new)
  OBVIOUS
<1>7. PICK q : q = IF Len(all) > m.size THEN Tail(all) ELSE all
  OBVIOUS
<1>8. w = [m EXCEPT !.items = q]
  BY <1>2, <1>4, <1>6, <1>7 DEF WithItem
<1>9. /\ o \in Seq(CachedItem)
      /\ \/ ~Has(m, k) /\ o = m.items
         \/ \E p \in 1..n :
               /\ m.items[p].key = k /\ Len(o) = n - 1
               /\ \A i \in 1..(n - 1) : o[i] = IF i < p THEN m.items[i] ELSE m.items[i + 1]
  BY <1>1, <1>5 DEF LeftWithout
<1>10. /\ all \in Seq(CachedItem) /\ Len(all) = Len(o) + 1 /\ all[Len(o) + 1] = new
       /\ \A i \in 1..Len(o) : all[i] = o[i]
  BY <1>3, <1>6, <1>9, AppendProperties
<1>11. PICK size : size = m.size /\ size \in Nat /\ size # 0 /\ n <= size
  BY <1>1, LayerIs
<1>12. CASE \E p \in 1..n :
               /\ m.items[p].key = k /\ Len(o) = n - 1
               /\ \A i \in 1..(n - 1) : o[i] = IF i < p THEN m.items[i] ELSE m.items[i + 1]
  <2>1. PICK p \in 1..n :
               /\ m.items[p].key = k /\ Len(o) = n - 1
               /\ \A i \in 1..(n - 1) : o[i] = IF i < p THEN m.items[i] ELSE m.items[i + 1]
    BY <1>12
  <2>2. Len(all) = n /\ (n - 1) + 1 = n /\ n # 0
    BY <1>1, <1>10, <2>1
  <2>3. q = all
    BY <1>7, <1>11, <2>2
  <2>4. w \in Layer /\ w.policy = m.policy /\ w.size = m.size /\ w.items = all
    BY <1>8, <1>10, <2>3, LayerIs
  <2>5. /\ all[n] = new
        /\ \A i \in 1..(n - 1) : all[i] = IF i < p THEN m.items[i] ELSE m.items[i + 1]
    BY <1>10, <2>1, <2>2
  <2>6. MovedIn(m, k, w)
    <3>1. \A i \in 1..(n - 1) : all[i].key = IF i < p THEN m.items[i].key ELSE m.items[i + 1].key
      BY <2>5
    <3>. QED  BY <1>1, <1>3, <2>1, <2>2, <2>4, <2>5, <3>1 DEF MovedIn
  <2>7. ASSUME NEW i \in 1..n
        PROVE  \/ all[i].key = k /\ all[i].version = v
               \/ /\ all[i].key # k
                  /\ \E j \in 1..n : all[i].key = m.items[j].key /\ all[i].version = m.items[j].version
    <3>1. CASE i = n
      BY <1>3, <2>5, <3>1
    <3>2. CASE i # n
      <4>1. i \in 1..(n - 1)
        BY <1>1, <3>2
      <4>2. PICK j : j = IF i < p THEN i ELSE i + 1
        OBVIOUS
      <4>3. j \in 1..n /\ j # p
        BY <1>1, <4>1, <4>2
      <4>4. all[i] = m.items[j]
        BY <2>5, <4>1, <4>2
      <4>5. m.items[j].key # k
        BY <1>1, <2>1, <4>3
      <4>. QED  BY <4>3, <4>4, <4>5
    <3>. QED  BY <3>1, <3>2
  <2>8. n = Len(m.items) /\ n = Len(w.items)
    BY <1>1, <2>2, <2>4
  <2>9. ItemsFrom(m, k, v, w)
    BY <2>4, <2>7, <2>8 DEF ItemsFrom
  <2>. QED  BY <2>4, <2>6, <2>9
<1>13. CASE ~Has(m, k) /\ o = m.items
  <2>1. /\ Len(all) = n + 1 /\ all[n + 1] = new
        /\ \A i \in 1..n : all[i] = m.items[i] /\ m.items[i].key # k
    BY <1>1, <1>10, <1>13 DEF Has
  <2>2. CASE n < size
    <3>1. q = all
      BY <1>1, <1>7, <1>11, <2>1, <2>2
    <3>2. w \in Layer /\ w.policy = m.policy /\ w.size = m.size /\ w.items = all
      BY <1>8, <1>10, <3>1, LayerIs
    <3>3. n + 1 # 0
      BY <1>1
    <3>4. MovedIn(m, k, w)
      BY <1>1, <1>3, <1>11, <1>13, <2>1, <2>2, <3>2, <3>3 DEF MovedIn
    <3>5. ASSUME NEW i \in 1..(n + 1)
          PROVE  \/ all[i].key = k /\ all[i].version = v
                 \/ /\ all[i].key # k
                    /\ \E j \in 1..n : all[i].key = m.items[j].key /\ all[i].version = m.items[j].version
      <4>1. i = n + 1 \/ i \in 1..n
        BY <1>1
      <4>. QED  BY <1>3, <2>1, <4>1
    <3>6. n = Len(m.items) /\ n + 1 = Len(w.items)
      BY <1>1, <2>1, <3>2
    <3>7. ItemsFrom(m, k, v, w)
      BY <3>2, <3>5, <3>6 DEF ItemsFrom
    <3>. QED  BY <3>2, <3>4, <3>7
  <2>3. CASE n = size
    <3>1. q = Tail(all)
      BY <1>1, <1>7, <1>11, <2>1, <2>3
    <3>2. all # <<>>
      BY <1>3, <1>6, <1>9, AppendProperties
    <3>3. q \in Seq(CachedItem) /\ Len(q) = n /\ \A i \in 1..n : q[i] = all[i + 1]
      <4>1. Len(all) - 1 = n
        BY <1>1, <2>1
      <4>. QED  BY <1>10, <3>1, <3>2, <4>1, HeadTailProperties
    <3>4. w \in Layer /\ w.policy = m.policy /\ w.size = m.size /\ w.items = q
      BY <1>8, <3>3, LayerIs
    <3>5. n # 0 /\ n \in 1..n /\ q[n] = new
      BY <1>1, <1>11, <2>1, <2>3, <3>3
    <3>6. \A i \in 1..(n - 1) : i \in 1..n /\ i + 1 \in 1..n /\ q[i] = m.items[i + 1]
      <4>1. \A i \in 1..(n - 1) : i \in 1..n /\ i + 1 \in 1..n
        BY <1>1
      <4>. QED  BY <2>1, <3>3, <4>1
    <3>7. MovedIn(m, k, w)
      BY <1>1, <1>3, <1>11, <1>13, <2>3, <3>3, <3>4, <3>5, <3>6 DEF MovedIn
    <3>8. ASSUME NEW i \in 1..n
          PROVE  \/ q[i].key = k /\ q[i].version = v
                 \/ /\ q[i].key # k
                    /\ \E j \in 1..n : q[i].key = m.items[j].key /\ q[i].version = m.items[j].version
      <4>1. i = n \/ i \in 1..(n - 1)
        BY <1>1
      <4>. QED  BY <1>3, <2>1, <3>5, <3>6, <4>1
    <3>9. n = Len(m.items) /\ n = Len(w.items)
      BY <1>1, <3>3, <3>4
    <3>10. ItemsFrom(m, k, v, w)
      BY <3>4, <3>8, <3>9 DEF ItemsFrom
    <3>. QED  BY <3>4, <3>7, <3>10
  <2>. QED  BY <1>1, <1>11, <2>2, <2>3
<1>. QED  BY <1>9, <1>12, <1>13

\* A function on 1..n is a sequence.
LEMMA IsSequence ==
    ASSUME NEW S, NEW n \in Nat, NEW q \in [1..n -> S]
    PROVE  q \in Seq(S) /\ Len(q) = n
  OBVIOUS

LEMMA EntryIs ==
    ASSUME NEW x \in CachedItem
    PROVE  /\ [x EXCEPT !.uses = @ + 1] \in CachedItem
           /\ [x EXCEPT !.uses = @ + 1].key = x.key
           /\ [x EXCEPT !.uses = @ + 1].version = x.version
<1>1. PICK key \in Responses, version \in Nat, uses \in Nat :
          x = [key |-> key, version |-> version, uses |-> uses]
  BY DEF CachedItem
<1>2. [x EXCEPT !.uses = @ + 1] = [key |-> key, version |-> version, uses |-> uses + 1]
  BY <1>1
<1>3. uses + 1 \in Nat
  OBVIOUS
<1>. QED  BY <1>1, <1>2, <1>3 DEF CachedItem

\* LFUCache.set of a key that is there
LEMMA SetLfuAgain ==
    ASSUME NEW m \in Layer, m.policy = "LFU", NEW k, Has(m, k), NEW v \in Nat,
           NEW w, w = WithItem(m, k, v)
    PROVE  /\ w \in Layer /\ w.policy = m.policy /\ w.size = m.size /\ Len(w.items) = Len(m.items)
           /\ \A i \in 1..Len(m.items) : w.items[i].key = m.items[i].key
           /\ ItemsFrom(m, k, v, w)
<1>1. PICK n : n = Len(m.items) /\ n \in Nat /\ \A i \in 1..n : m.items[i] \in CachedItem
  BY LayerIs
<1>2. PICK places : places = At(m, k)
  OBVIOUS
<1>3. places = {i \in 1..n : m.items[i].key = k} /\ places # {}
  BY <1>1, <1>2 DEF At, Has
<1>4. PICK q : q = [i \in 1..n |-> IF i \in places
                                 THEN [key |-> k, version |-> v, uses |-> m.items[i].uses + 1]
                                 ELSE m.items[i]]
  OBVIOUS
<1>5. w = [m EXCEPT !.items = q]
  BY <1>1, <1>2, <1>3, <1>4 DEF WithItem
<1>6. ASSUME NEW i \in 1..n
      PROVE  /\ q[i] \in CachedItem /\ q[i].key = m.items[i].key
             /\ IF i \in places THEN q[i].version = v ELSE q[i].version = m.items[i].version
  <2>1. m.items[i] \in CachedItem
    BY <1>1
  <2>2. CASE i \in places
    <3>1. q[i] = [key |-> k, version |-> v, uses |-> m.items[i].uses + 1] /\ m.items[i].key = k
      BY <1>3, <1>4, <2>2
    <3>2. m.items[i].uses + 1 \in Nat /\ k \in Responses
      BY <2>1, <3>1 DEF CachedItem
    <3>. QED  BY <2>2, <3>1, <3>2 DEF CachedItem
  <2>3. CASE i \notin places
    <3>1. q[i] = m.items[i]
      BY <1>4, <2>3
    <3>. QED  BY <2>1, <2>3, <3>1
  <2>. QED  BY <2>2, <2>3
<1>7. q \in [1..n -> CachedItem]
  BY <1>4, <1>6
<1>8. q \in Seq(CachedItem) /\ Len(q) = n
  BY <1>1, <1>7, IsSequence
<1>9. w \in Layer /\ w.policy = m.policy /\ w.size = m.size /\ w.items = q
  BY <1>5, <1>8, LayerIs
<1>10. ASSUME NEW i \in 1..n
       PROVE  \/ q[i].key = k /\ q[i].version = v
              \/ /\ q[i].key # k
                 /\ \E j \in 1..n : q[i].key = m.items[j].key /\ q[i].version = m.items[j].version
  BY <1>3, <1>6
<1>. QED  BY <1>1, <1>6, <1>8, <1>9, <1>10 DEF ItemsFrom

\* LFUCache.set of a new key
LEMMA SetLfuFirst ==
    ASSUME NEW m \in Layer, m.policy = "LFU", Len(m.items) <= m.size,
           NEW k \in Responses, ~Has(m, k), NEW v \in Nat, NEW w, w = WithItem(m, k, v)
    PROVE  TakenIn(m, k, w) /\ ItemsFrom(m, k, v, w)
<1>1. PICK n : n = Len(m.items) /\ n \in Nat /\ m.items \in Seq(CachedItem)
  BY LayerIs
<1>2. PICK size : size = m.size /\ size \in Nat /\ size # 0 /\ n <= size
  BY <1>1, LayerIs
<1>3. PICK new : new = [key |-> k, version |-> v, uses |-> 1]
  OBVIOUS
<1>4. new \in CachedItem /\ new.key = k /\ new.version = v
  BY <1>3 DEF CachedItem
<1>5. At(m, k) = {} /\ \A i \in 1..n : m.items[i].key # k
  BY <1>1 DEF At, Has
<1>6. PICK room : room = IF n < size THEN m.items ELSE RemoveAt(m.items, LeastUsed(m))
  OBVIOUS
<1>7. PICK q : q = Append(room, new)
  OBVIOUS
<1>8. w = [m EXCEPT !.items = q]
  BY <1>1, <1>2, <1>3, <1>5, <1>6, <1>7 DEF WithItem
<1>9. CASE n < size
  <2>1. /\ q \in Seq(CachedItem) /\ Len(q) = n + 1 /\ q[n + 1] = new
        /\ \A i \in 1..n : q[i] = m.items[i]
    BY <1>1, <1>4, <1>6, <1>7, <1>9, AppendProperties
  <2>2. w \in Layer /\ w.policy = m.policy /\ w.size = m.size /\ w.items = q
    BY <1>8, <2>1, LayerIs
  <2>3. TakenIn(m, k, w)
    BY <1>1, <1>2, <1>4, <1>9, <2>1, <2>2 DEF TakenIn
  <2>4. ASSUME NEW i \in 1..(n + 1)
        PROVE  \/ q[i].key = k /\ q[i].version = v
               \/ /\ q[i].key # k
                  /\ \E j \in 1..n : q[i].key = m.items[j].key /\ q[i].version = m.items[j].version
    <3>1. i = n + 1 \/ i \in 1..n
      BY <1>1
    <3>. QED  BY <1>4, <1>5, <2>1, <3>1
  <2>5. ItemsFrom(m, k, v, w)
    BY <1>1, <2>1, <2>2, <2>4 DEF ItemsFrom
  <2>. QED  BY <2>3, <2>5
<1>10. CASE n = size
  <2>1. PICK e : e = LeastUsed(m) /\ e \in 1..n
    BY <1>1, <1>2, <1>10, LeastUsedIsThere
  <2>2. /\ room \in Seq(CachedItem) /\ Len(room) = n - 1
        /\ \A i \in 1..(n - 1) : room[i] = IF i < e THEN m.items[i] ELSE m.items[i + 1]
    <3>1. room = RemoveAt(m.items, e)
      BY <1>2, <1>6, <1>10, <2>1
    <3>. QED  BY <1>1, <2>1, <3>1, RemoveAtProperties
  <2>3. n \in 1..n /\ (n - 1) + 1 = n /\ n # 0
    BY <1>1, <2>1
  <2>4. /\ q \in Seq(CachedItem) /\ Len(q) = n /\ q[n] = new
        /\ \A i \in 1..(n - 1) : q[i] = room[i]
    BY <1>4, <1>7, <2>2, <2>3, AppendProperties
  <2>5. w \in Layer /\ w.policy = m.policy /\ w.size = m.size /\ w.items = q
    BY <1>8, <2>4, LayerIs
  <2>6. \A i \in 1..(n - 1) : q[i] = IF i < e THEN m.items[i] ELSE m.items[i + 1]
    BY <2>2, <2>4
  <2>7. TakenIn(m, k, w)
    <3>1. \A i \in 1..(n - 1) : q[i].key = IF i < e THEN m.items[i].key ELSE m.items[i + 1].key
      BY <2>6
    <3>. QED  BY <1>1, <1>2, <1>4, <1>10, <2>1, <2>4, <2>5, <3>1 DEF TakenIn
  <2>8. ASSUME NEW i \in 1..n
        PROVE  \/ q[i].key = k /\ q[i].version = v
               \/ /\ q[i].key # k
                  /\ \E j \in 1..n : q[i].key = m.items[j].key /\ q[i].version = m.items[j].version
    <3>1. CASE i = n
      BY <1>4, <2>4, <3>1
    <3>2. CASE i # n
      <4>1. i \in 1..(n - 1) /\ i \in 1..n /\ i + 1 \in 1..n
        BY <1>1, <3>2
      <4>. QED  BY <1>5, <2>6, <4>1
    <3>. QED  BY <3>1, <3>2
  <2>. QED  BY <1>1, <2>4, <2>5, <2>7, <2>8 DEF ItemsFrom
<1>. QED  BY <1>1, <1>2, <1>9, <1>10

\* What a layer takes in it keeps by its policy.
LEMMA WithItemKeeps ==
    ASSUME NEW m \in Layer, NEW used \in Seq(Responses), LayerKeeps(m, used),
           NEW k \in Responses, NEW v \in Nat
    PROVE  /\ WithItem(m, k, v) \in Layer
           /\ LayerKeeps(WithItem(m, k, v), UsedLast(used, k))
           /\ ItemsFrom(m, k, v, WithItem(m, k, v))
<1>1. PICK w, u : w = WithItem(m, k, v) /\ u = UsedLast(used, k)
  OBVIOUS
<1>2. MovedLast(used, k, u)
  BY <1>1, UsedLastIs DEF LayerKeeps
<1>3. /\ Len(m.items) <= m.size
      /\ \A i, j \in 1..Len(m.items) : i # j => m.items[i].key # m.items[j].key
  BY DEF LayerKeeps, Fills
<1>4. CASE m.policy = "LRU"
  <2>1. MovedIn(m, k, w) /\ ItemsFrom(m, k, v, w)
    BY <1>1, <1>3, <1>4, SetLru
  <2>2. w \in Layer
    BY <2>1 DEF MovedIn
  <2>. QED  BY <1>1, <1>2, <1>4, <2>1, <2>2, MovedInKeeps
<1>5. CASE m.policy = "LFU" /\ Has(m, k)
  <2>1. /\ w \in Layer /\ w.policy = m.policy /\ w.size = m.size /\ Len(w.items) = Len(m.items)
        /\ \A i \in 1..Len(m.items) : w.items[i].key = m.items[i].key
        /\ ItemsFrom(m, k, v, w)
    BY <1>1, <1>5, SetLfuAgain
  <2>. QED  BY <1>1, <1>2, <1>5, <2>1, SameKeysKeep
<1>6. CASE m.policy = "LFU" /\ ~Has(m, k)
  <2>1. TakenIn(m, k, w) /\ ItemsFrom(m, k, v, w)
    BY <1>1, <1>3, <1>6, SetLfuFirst
  <2>2. w \in Layer
    BY <2>1 DEF TakenIn
  <2>. QED  BY <1>1, <1>2, <1>6, <2>1, <2>2, TakenInKeeps
<1>. QED  BY <1>4, <1>5, <1>6, LayerIs

\* The items of a layer are those before, in another order perhaps.
ItemsOf(m, w) ==
    \A i \in 1..Len(w.items) : \E j \in 1..Len(m.items) :
        w.items[i].key = m.items[j].key /\ w.items[i].version = m.items[j].version

\* What is read stays, and is the one used last.
LEMMA TouchedKeeps ==
    ASSUME NEW m \in Layer, NEW used \in Seq(Responses), LayerKeeps(m, used),
           NEW k, NEW at \in 1..Len(m.items), m.items[at].key = k
    PROVE  /\ Touched(m, at) \in Layer
           /\ LayerKeeps(Touched(m, at), UsedLast(used, k))
           /\ ItemsOf(m, Touched(m, at))
<1>1. PICK w, u : w = Touched(m, at) /\ u = UsedLast(used, k)
  OBVIOUS
<1>2. PICK n : n = Len(m.items) /\ n \in Nat /\ m.items \in Seq(CachedItem) /\ \A i \in 1..n : m.items[i] \in CachedItem
  BY LayerIs
<1>3. MovedLast(used, k, u)
  <2>1. k \in Responses
    BY <1>2 DEF CachedItem
  <2>. QED  BY <1>1, <2>1, UsedLastIs DEF LayerKeeps
<1>4. CASE m.policy = "LRU"
  <2>1. PICK q : q = Append(RemoveAt(m.items, at), m.items[at])
    OBVIOUS
  <2>2. w = [m EXCEPT !.items = q]
    BY <1>1, <1>4, <2>1 DEF Touched
  <2>3. at \in 1..n /\ (n - 1) + 1 = n /\ n # 0
    BY <1>2
  <2>4. /\ RemoveAt(m.items, at) \in Seq(CachedItem) /\ Len(RemoveAt(m.items, at)) = n - 1
        /\ \A i \in 1..(n - 1) : RemoveAt(m.items, at)[i] = IF i < at THEN m.items[i] ELSE m.items[i + 1]
    BY <1>2, RemoveAtProperties
  <2>5. /\ q \in Seq(CachedItem) /\ Len(q) = n /\ q[n] = m.items[at]
        /\ \A i \in 1..(n - 1) : q[i] = RemoveAt(m.items, at)[i]
    BY <1>2, <2>1, <2>3, <2>4, AppendProperties
  <2>6. \A i \in 1..(n - 1) : q[i] = IF i < at THEN m.items[i] ELSE m.items[i + 1]
    BY <2>4, <2>5
  <2>7. w \in Layer /\ w.policy = m.policy /\ w.size = m.size /\ w.items = q
    BY <2>2, <2>5, LayerIs
  <2>8. MovedIn(m, k, w)
    <3>1. \A i \in 1..(n - 1) : q[i].key = IF i < at THEN m.items[i].key ELSE m.items[i + 1].key
      BY <2>6
    <3>. QED  BY <1>2, <2>3, <2>5, <2>7, <3>1 DEF MovedIn
  <2>9. ASSUME NEW i \in 1..n
        PROVE  \E j \in 1..n : q[i].key = m.items[j].key /\ q[i].version = m.items[j].version
    <3>1. CASE i = n
      BY <2>3, <2>5, <3>1
    <3>2. CASE i # n
      <4>1. i \in 1..(n - 1) /\ i \in 1..n /\ i + 1 \in 1..n
        BY <1>2, <3>2
      <4>. QED  BY <2>6, <4>1
    <3>. QED  BY <3>1, <3>2
  <2>10. ItemsOf(m, w)
    <3>1. w.items = q /\ Len(q) = n /\ Len(m.items) = n
      BY <1>2, <2>5, <2>7
    <3>. QED  BY <2>9, <3>1 DEF ItemsOf
  <2>. QED  BY <1>1, <1>3, <1>4, <2>7, <2>8, <2>10, MovedInKeeps
<1>5. CASE m.policy = "LFU"
  <2>1. PICK q : q = [m.items EXCEPT ![at].uses = @ + 1]
    OBVIOUS
  <2>2. w = [m EXCEPT !.items = q]
    BY <1>1, <1>5, <2>1 DEF Touched
  <2>3. m.items \in [1..n -> CachedItem]
    BY <1>2, LenProperties
  <2>4. \A i \in 1..n : q[i] \in CachedItem /\ q[i].key = m.items[i].key /\ q[i].version = m.items[i].version
    <3>1. ASSUME NEW i \in 1..n
          PROVE  q[i] \in CachedItem /\ q[i].key = m.items[i].key /\ q[i].version = m.items[i].version
      <4>1. m.items[i] \in CachedItem
        BY <1>2
      <4>2. CASE i = at
        <5>1. q[i] = [m.items[i] EXCEPT !.uses = @ + 1]
          BY <2>1, <2>3, <4>2
        <5>. QED  BY <4>1, <5>1, EntryIs
      <4>3. CASE i # at
        <5>1. q[i] = m.items[i]
          BY <2>1, <2>3, <4>3
        <5>. QED  BY <4>1, <5>1
      <4>. QED  BY <4>2, <4>3
    <3>. QED  BY <3>1
  <2>5. q \in [1..n -> CachedItem]
    BY <2>1, <2>3, <2>4
  <2>6. q \in Seq(CachedItem) /\ Len(q) = n
    BY <1>2, <2>5, IsSequence
  <2>7. w \in Layer /\ w.policy = m.policy /\ w.size = m.size /\ w.items = q
    BY <2>2, <2>6, LayerIs
  <2>8. Has(m, k)
    BY DEF Has
  <2>9. ItemsOf(m, w)
    BY <1>2, <2>4, <2>6, <2>7 DEF ItemsOf
  <2>. QED  BY <1>1, <1>2, <1>3, <1>5, <2>4, <2>6, <2>7, <2>8, <2>9, SameKeysKeep
<1>. QED  BY <1>4, <1>5, LayerIs

-----------------------------------------------------------------------------
(* The cache                                                               *)

\* CacheInv: the layers keep what their policies say; a call that began under the
\* configuration that stands has its layer; and Known says, of a key at which no
\* two calls of its scope met, what the one that is there may find in memory.
Call == [at : {"asking", "asking, to fill", "filling", "writing", "keeping"}, scope : Scopes,
         key : Responses, version : Nat, layer : LayerConfig, made : Nat]

CacheDataOK ==
    /\ config \in Configs
    /\ memory \in [Scopes -> Layer \cup {NoLayer}]
    /\ redis \in [Responses -> Nat]
    /\ caller \in [Threads -> Call \cup {Free}]
    /\ writes \in Nat /\ updates \in Nat
    /\ shown \in [Scopes -> [Responses -> Nat]]
    /\ recent \in [Scopes -> Seq(Responses)]

LayersKeep ==
    \A s \in Scopes :
        IF memory[s] = NoLayer THEN recent[s] = <<>> ELSE LayerKeeps(memory[s], recent[s])

CallsFollow ==
    \A t \in Threads :
        caller[t].at # "free" =>
            /\ caller[t].made <= updates
            /\ caller[t].made = updates =>
                 /\ caller[t].layer = Effective(config, caller[t].scope)
                 /\ caller[t].at \in {"asking, to fill", "filling"} => memory[caller[t].scope] # NoLayer

\* The versions of a key in a layer.
VersionsIn(m, k) == {m.items[i].version : i \in At(m, k)}

Versions(s, k) == IF memory[s] = NoLayer THEN {} ELSE VersionsIn(memory[s], k)

Busy(t, s, k) == caller[t].at # "free" /\ caller[t].scope = s /\ caller[t].key = k

Known(s, k) ==
    shown[s][k] # 0 =>
        /\ \A t, u \in Threads : Busy(t, s, k) /\ Busy(u, s, k) => t = u
        /\ \A t \in Threads :
             Busy(t, s, k) /\ caller[t].at \in {"filling", "keeping"} => caller[t].version = shown[s][k]
        /\ Consulted(s) =>
             /\ (\A t \in Threads : ~Busy(t, s, k)) => Versions(s, k) \subseteq {shown[s][k]}
             /\ \A t \in Threads : Busy(t, s, k) =>
                  /\ caller[t].at = "writing" => Versions(s, k) \subseteq {shown[s][k]}
                  /\ caller[t].at \in {"asking", "asking, to fill", "filling"} \/ caller[t].made # updates =>
                       Versions(s, k) = {}

CacheInv ==
    /\ CacheDataOK
    /\ LayersKeep
    /\ CallsFollow
    /\ \A s \in Scopes, k \in Responses : Known(s, k)

LEMMA NoLayerIsNone == NoLayer \notin Layer /\ NoLayer \notin LayerConfig
  BY CacheAssumption DEF Layer, CachedItem

LEMMA EffectiveIs ==
    ASSUME NEW c \in Configs, NEW s \in Scopes
    PROVE  Effective(c, s) \in LayerConfig \cup {NoLayer}
<1>1. /\ c.layer \in LayerConfig \cup {NoLayer}
      /\ c.agents[s] \in LayerConfig \cup {NoLayer}
      /\ c.workflows[s] \in LayerConfig \cup {NoLayer}
  BY CacheAssumption
<1> DEFINE Over(o, l) == IF o = NoLayer THEN l ELSE [o EXCEPT !.size = IF @ = 0 THEN l.size ELSE @]
<1>2. ASSUME NEW o \in LayerConfig \cup {NoLayer}, NEW l \in LayerConfig
      PROVE  Over(o, l) \in LayerConfig
  BY NoLayerIsNone DEF LayerConfig
<1> HIDE DEF Over
<1>3. Merge(c, s) = Over(c.agents[s], Over(c.workflows[s], c.layer))
  BY DEF Merge, Over
<1>4. c.layer # NoLayer => Merge(c, s) \in LayerConfig
  BY <1>1, <1>2, <1>3
<1>. QED  BY <1>4 DEF Effective

\* A layer that is made new, or is there, keeps what was used.
LEMMA LayerForIs ==
    ASSUME CacheDataOK, LayersKeep, NEW s \in Scopes, NEW l \in LayerConfig,
           NEW m, m = LayerFor(s, l), m # NoLayer
    PROVE  /\ m \in Layer /\ LayerKeeps(m, recent[s]) /\ l.size # 0
           /\ memory[s] # NoLayer => m = memory[s]
           /\ memory[s] = NoLayer => m.items = <<>> /\ recent[s] = <<>>
<1>1. CASE memory[s] # NoLayer
  <2>1. m = memory[s] /\ l.size # 0
    BY <1>1 DEF LayerFor
  <2>. QED  BY <1>1, <2>1 DEF CacheDataOK, LayersKeep
<1>2. CASE memory[s] = NoLayer
  <2>1. m = NewLayer(l) /\ l.size # 0 /\ l.policy # "TTL" /\ recent[s] = <<>>
    BY <1>2 DEF LayerFor, LayersKeep
  <2>2. l.policy \in {"LRU", "LFU"} /\ l.size \in Nat \ {0}
    BY <2>1 DEF LayerConfig
  <2>3. m = [policy |-> l.policy, size |-> l.size, items |-> <<>>]
    BY <2>1 DEF NewLayer
  <2>4. m \in Layer
    BY <2>2, <2>3 DEF Layer
  <2>5. LayerKeeps(m, <<>>)
    BY <2>2, <2>3 DEF LayerKeeps, EachOnce, Fills
  <2>. QED  BY <1>2, <2>1, <2>3, <2>4, <2>5
<1>. QED  BY <1>1, <1>2

\* What a layer takes in is the only version of its key, and brings none of another.
LEMMA VersionsAfterItem ==
    ASSUME NEW m, NEW k, NEW v, NEW w, ItemsFrom(m, k, v, w)
    PROVE  /\ VersionsIn(w, k) \subseteq {v}
           /\ \A y : y # k => VersionsIn(w, y) \subseteq VersionsIn(m, y)
<1>1. \A y : VersionsIn(w, y) = {w.items[i].version : i \in {i \in 1..Len(w.items) : w.items[i].key = y}}
  BY DEF VersionsIn, At
<1>2. \A i \in 1..Len(w.items) :
        \/ w.items[i].key = k /\ w.items[i].version = v
        \/ /\ w.items[i].key # k
           /\ \E j \in 1..Len(m.items) : /\ w.items[i].key = m.items[j].key
                                         /\ w.items[i].version = m.items[j].version
  BY DEF ItemsFrom
<1>3. VersionsIn(w, k) \subseteq {v}
  BY <1>1, <1>2
<1>4. ASSUME NEW y, y # k, NEW x \in VersionsIn(w, y) PROVE x \in VersionsIn(m, y)
  <2>1. PICK i \in 1..Len(w.items) : w.items[i].key = y /\ w.items[i].version = x
    BY <1>1
  <2>2. PICK j \in 1..Len(m.items) : y = m.items[j].key /\ x = m.items[j].version
    BY <1>2, <1>4, <2>1
  <2>. QED  BY <2>2 DEF VersionsIn, At
<1>. QED  BY <1>3, <1>4

LEMMA VersionsAfterTouch ==
    ASSUME NEW m, NEW w, ItemsOf(m, w)
    PROVE  \A y : VersionsIn(w, y) \subseteq VersionsIn(m, y)
<1>1. ASSUME NEW y, NEW x \in VersionsIn(w, y) PROVE x \in VersionsIn(m, y)
  <2>1. PICK i \in 1..Len(w.items) : w.items[i].key = y /\ w.items[i].version = x
    BY <1>1 DEF VersionsIn, At
  <2>2. PICK j \in 1..Len(m.items) : y = m.items[j].key /\ x = m.items[j].version
    BY <2>1 DEF ItemsOf
  <2>. QED  BY <2>2 DEF VersionsIn, At
<1>. QED  BY <1>1

LEMMA VersionsOfNone ==
    ASSUME NEW m, m.items = <<>>
    PROVE  \A y : VersionsIn(m, y) = {}
<1>1. Len(m.items) = 0
  OBVIOUS
<1>2. \A y : At(m, y) = {}
  BY <1>1 DEF At
<1>. QED  BY <1>2 DEF VersionsIn

\* A layer is changed, and with it what it was used for.
LEMMA LayerChanges ==
    ASSUME CacheDataOK, LayersKeep, NEW s \in Scopes,
           NEW w \in Layer, NEW u \in Seq(Responses), LayerKeeps(w, u),
           memory' = [memory EXCEPT ![s] = w], recent' = [recent EXCEPT ![s] = u]
    PROVE  /\ memory' \in [Scopes -> Layer \cup {NoLayer}] /\ recent' \in [Scopes -> Seq(Responses)]
           /\ memory'[s] = w /\ \A x \in Scopes : x # s => memory'[x] = memory[x]
           /\ \A x \in Scopes : memory[x] # NoLayer => memory'[x] # NoLayer
           /\ LayersKeep'
<1>1. memory' \in [Scopes -> Layer \cup {NoLayer}] /\ recent' \in [Scopes -> Seq(Responses)]
  BY DEF CacheDataOK
<1>2. /\ memory'[s] = w /\ recent'[s] = u
      /\ \A x \in Scopes : x # s => memory'[x] = memory[x] /\ recent'[x] = recent[x]
  BY DEF CacheDataOK
<1>3. w # NoLayer
  BY NoLayerIsNone
<1>4. ASSUME NEW x \in Scopes
      PROVE  IF memory'[x] = NoLayer THEN recent'[x] = <<>> ELSE LayerKeeps(memory'[x], recent'[x])
  <2>1. CASE x = s
    BY <1>2, <1>3, <2>1
  <2>2. CASE x # s
    BY <1>2, <2>2 DEF LayersKeep
  <2>. QED  BY <2>1, <2>2
<1>5. LayersKeep'
  BY <1>4 DEF LayersKeep
<1>. QED  BY <1>1, <1>2, <1>3, <1>5

-----------------------------------------------------------------------------
(* Steps of a call                                                         *)

\* A step of one caller at one key of a scope.
StepAt(t, s, k) ==
    /\ config' = config /\ updates' = updates
    /\ \A x \in Scopes, y \in Responses : x # s \/ y # k =>
         shown'[x][y] = shown[x][y] /\ Versions(x, y)' \subseteq Versions(x, y)
    /\ \A u \in Threads : u # t => caller'[u] = caller[u]
    /\ caller[t].at # "free" => caller[t].scope = s /\ caller[t].key = k
    /\ caller'[t].at # "free" => caller'[t].scope = s /\ caller'[t].key = k

LEMMA OthersAreKnown ==
    ASSUME NEW t \in Threads, NEW s \in Scopes, NEW k \in Responses, StepAt(t, s, k),
           NEW x \in Scopes, NEW y \in Responses, x # s \/ y # k, Known(x, y)
    PROVE  Known(x, y)'
<1>1. config' = config /\ updates' = updates /\ shown'[x][y] = shown[x][y] /\ Versions(x, y)' \subseteq Versions(x, y)
  BY DEF StepAt
<1>2. Consulted(x)' <=> Consulted(x)
  BY <1>1 DEF Consulted
<1>3. \A u \in Threads : (Busy(u, x, y)' <=> Busy(u, x, y)) /\ (Busy(u, x, y)' => caller'[u] = caller[u])
  <2>1. ASSUME NEW u \in Threads
        PROVE  (Busy(u, x, y)' <=> Busy(u, x, y)) /\ (Busy(u, x, y)' => caller'[u] = caller[u])
    <3>1. CASE u # t
      <4>1. caller'[u] = caller[u]
        BY <3>1 DEF StepAt
      <4>. QED  BY <4>1 DEF Busy
    <3>2. CASE u = t
      BY <3>2 DEF StepAt, Busy
    <3>. QED  BY <3>1, <3>2
  <2>. QED  BY <2>1
<1> DEFINE v == shown[x][y]
<1>4. ASSUME shown'[x][y] # 0
      PROVE  /\ \A a, b \in Threads : Busy(a, x, y)' /\ Busy(b, x, y)' => a = b
             /\ \A a \in Threads :
                  Busy(a, x, y)' /\ caller'[a].at \in {"filling", "keeping"} => caller'[a].version = shown'[x][y]
             /\ Consulted(x)' =>
                  /\ (\A a \in Threads : ~Busy(a, x, y)') => Versions(x, y)' \subseteq {shown'[x][y]}
                  /\ \A a \in Threads : Busy(a, x, y)' =>
                       /\ caller'[a].at = "writing" => Versions(x, y)' \subseteq {shown'[x][y]}
                       /\ caller'[a].at \in {"asking", "asking, to fill", "filling"} \/ caller'[a].made # updates' =>
                            Versions(x, y)' = {}
  <2>1. v # 0
    BY <1>1, <1>4
  <2>2. \A a, b \in Threads : Busy(a, x, y)' /\ Busy(b, x, y)' => a = b
    BY <1>3, <2>1 DEF Known
  <2>3. ASSUME NEW a \in Threads, Busy(a, x, y)'
        PROVE  Busy(a, x, y) /\ caller'[a] = caller[a]
    BY <1>3, <2>3
  <2>4. ASSUME NEW a \in Threads, Busy(a, x, y)', caller'[a].at \in {"filling", "keeping"}
        PROVE  caller'[a].version = shown'[x][y]
    BY <1>1, <2>1, <2>3, <2>4 DEF Known
  <2>5. ASSUME Consulted(x)', \A a \in Threads : ~Busy(a, x, y)'
        PROVE  Versions(x, y)' \subseteq {shown'[x][y]}
    <3>1. Versions(x, y) \subseteq {v}
      BY <1>2, <1>3, <2>1, <2>5 DEF Known
    <3>. QED  BY <1>1, <3>1
  <2>6. ASSUME Consulted(x)', NEW a \in Threads, Busy(a, x, y)'
        PROVE  /\ caller'[a].at = "writing" => Versions(x, y)' \subseteq {shown'[x][y]}
               /\ caller'[a].at \in {"asking", "asking, to fill", "filling"} \/ caller'[a].made # updates' =>
                    Versions(x, y)' = {}
    <3>1. /\ caller[a].at = "writing" => Versions(x, y) \subseteq {v}
          /\ caller[a].at \in {"asking", "asking, to fill", "filling"} \/ caller[a].made # updates =>
               Versions(x, y) = {}
      BY <1>2, <2>1, <2>3, <2>6 DEF Known
    <3>. QED  BY <1>1, <2>3, <2>6, <3>1
  <2>. QED  BY <2>2, <2>4, <2>5, <2>6
<1>. QED  BY <1>4 DEF Known

\* After its step the caller is there alone, or nobody is.
LEMMA OneIsKnown ==
    ASSUME NEW t \in Threads, NEW s \in Scopes, NEW k \in Responses, StepAt(t, s, k),
           shown'[s][k] # 0 =>
               /\ \A u \in Threads : Busy(u, s, k) => u = t
               /\ caller'[t].at \in {"filling", "keeping"} => caller'[t].version = shown'[s][k]
               /\ Consulted(s) =>
                    /\ caller'[t].at \in {"free", "writing"} => Versions(s, k)' \subseteq {shown'[s][k]}
                    /\ caller'[t].at \in {"asking", "asking, to fill", "filling"} \/ caller'[t].made # updates =>
                         (caller'[t].at # "free" => Versions(s, k)' = {})
    PROVE  Known(s, k)'
<1>1. config' = config /\ updates' = updates
  BY DEF StepAt
<1>2. Consulted(s)' <=> Consulted(s)
  BY <1>1 DEF Consulted
<1>3. Busy(t, s, k)' <=> caller'[t].at # "free"
  BY DEF Busy, StepAt
<1>4. ASSUME shown'[s][k] # 0, NEW u \in Threads, Busy(u, s, k)' PROVE u = t
  <2>1. CASE u # t
    <3>1. caller'[u] = caller[u]
      BY <2>1 DEF StepAt
    <3>2. Busy(u, s, k)
      BY <1>4, <3>1 DEF Busy
    <3>. QED  BY <1>4, <3>2
  <2>. QED  BY <2>1
<1>5. ASSUME shown'[s][k] # 0
      PROVE  /\ \A a, b \in Threads : Busy(a, s, k)' /\ Busy(b, s, k)' => a = b
             /\ \A a \in Threads :
                  Busy(a, s, k)' /\ caller'[a].at \in {"filling", "keeping"} => caller'[a].version = shown'[s][k]
             /\ Consulted(s)' =>
                  /\ (\A a \in Threads : ~Busy(a, s, k)') => Versions(s, k)' \subseteq {shown'[s][k]}
                  /\ \A a \in Threads : Busy(a, s, k)' =>
                       /\ caller'[a].at = "writing" => Versions(s, k)' \subseteq {shown'[s][k]}
                       /\ caller'[a].at \in {"asking", "asking, to fill", "filling"} \/ caller'[a].made # updates' =>
                            Versions(s, k)' = {}
  <2>1. \A a, b \in Threads : Busy(a, s, k)' /\ Busy(b, s, k)' => a = b
    BY <1>4, <1>5
  <2>2. ASSUME NEW a \in Threads, Busy(a, s, k)', caller'[a].at \in {"filling", "keeping"}
        PROVE  caller'[a].version = shown'[s][k]
    BY <1>4, <1>5, <2>2
  <2>3. ASSUME Consulted(s)', \A a \in Threads : ~Busy(a, s, k)'
        PROVE  Versions(s, k)' \subseteq {shown'[s][k]}
    BY <1>2, <1>3, <1>5, <2>3
  <2>4. ASSUME Consulted(s)', NEW a \in Threads, Busy(a, s, k)'
        PROVE  /\ caller'[a].at = "writing" => Versions(s, k)' \subseteq {shown'[s][k]}
               /\ caller'[a].at \in {"asking", "asking, to fill", "filling"} \/ caller'[a].made # updates' =>
                    Versions(s, k)' = {}
    <3>1. a = t /\ caller'[t].at # "free"
      BY <1>3, <1>4, <1>5, <2>4
    <3>. QED  BY <1>1, <1>2, <1>5, <2>4, <3>1
  <2>. QED  BY <2>1, <2>2, <2>3, <2>4
<1>. QED  BY <1>5 DEF Known

LEMMA EveryKeyIsKnown ==
    ASSUME NEW t \in Threads, NEW s \in Scopes, NEW k \in Responses, StepAt(t, s, k),
           \A x \in Scopes, y \in Responses : Known(x, y), Known(s, k)'
    PROVE  (\A x \in Scopes, y \in Responses : Known(x, y))'
<1>1. ASSUME NEW x \in Scopes, NEW y \in Responses PROVE Known(x, y)'
  <2>1. CASE x = s /\ y = k
    BY <2>1
  <2>2. CASE x # s \/ y # k
    <3>1. Known(x, y)
      OBVIOUS
    <3>. QED  BY <2>2, <3>1, OthersAreKnown
  <2>. QED  BY <2>1, <2>2
<1>. QED  BY <1>1

\* A caller goes on, or rests.
LEMMA CallerMoves ==
    ASSUME CacheDataOK, CallsFollow, NEW t \in Threads, NEW c \in Call \cup {Free},
           caller' = [caller EXCEPT ![t] = c], config' = config, updates' = updates,
           \A x \in Scopes : memory[x] # NoLayer => memory'[x] # NoLayer,
           c.at # "free" =>
              /\ c.made <= updates
              /\ c.made = updates => /\ c.layer = Effective(config, c.scope)
                                     /\ c.at \in {"asking, to fill", "filling"} => memory'[c.scope] # NoLayer
    PROVE  /\ caller' \in [Threads -> Call \cup {Free}]
           /\ caller'[t] = c /\ \A u \in Threads : u # t => caller'[u] = caller[u]
           /\ CallsFollow'
<1>1. caller' \in [Threads -> Call \cup {Free}]
  BY DEF CacheDataOK
<1>2. caller'[t] = c /\ \A u \in Threads : u # t => caller'[u] = caller[u]
  BY DEF CacheDataOK
<1>3. ASSUME NEW u \in Threads, caller'[u].at # "free"
      PROVE  /\ caller'[u].made <= updates'
             /\ caller'[u].made = updates' =>
                  /\ caller'[u].layer = Effective(config', caller'[u].scope)
                  /\ caller'[u].at \in {"asking, to fill", "filling"} => memory'[caller'[u].scope] # NoLayer
  <2>1. CASE u = t
    BY <1>2, <1>3, <2>1
  <2>2. CASE u # t
    <3>1. caller'[u] = caller[u]
      BY <1>2, <2>2
    <3>2. caller[u] \in Call
      <4>1. caller[u] \in Call \cup {Free}
        BY DEF CacheDataOK
      <4>2. Free.at = "free"
        BY DEF Free
      <4>. QED  BY <1>3, <3>1, <4>1, <4>2
    <3>3. caller[u].scope \in Scopes
      BY <3>2 DEF Call
    <3>. QED  BY <1>3, <3>1, <3>3 DEF CallsFollow
  <2>. QED  BY <2>1, <2>2
<1>4. CallsFollow'
  BY <1>3 DEF CallsFollow
<1>. QED  BY <1>1, <1>2, <1>4

\* What the scope has seen last.
Showing(s, k, v) ==
    /\ shown' \in [Scopes -> [Responses -> Nat]] /\ shown'[s][k] = v
    /\ \A x \in Scopes, y \in Responses : x # s \/ y # k => shown'[x][y] = shown[x][y]

LEMMA ShownIs ==
    ASSUME CacheDataOK, NEW s \in Scopes, NEW k \in Responses, NEW v \in Nat,
           shown' = [shown EXCEPT ![s][k] = v]
    PROVE  Showing(s, k, v)
  BY DEF CacheDataOK, Showing

LEMMA ShowsIs ==
    ASSUME CacheDataOK, NEW s \in Scopes, NEW k \in Responses, NEW v \in Nat, Shows(s, k, v)
    PROVE  /\ shown' \in [Scopes -> [Responses -> Nat]]
           /\ shown'[s][k] # 0 =>
                shown[s][k] # 0 /\ shown'[s][k] = v /\ \A u \in Threads : ~Busy(u, s, k)
           /\ \A x \in Scopes, y \in Responses : x # s \/ y # k => shown'[x][y] = shown[x][y]
<1>1. PICK z : z = IF shown[s][k] = 0 \/ Meets(s, k) THEN 0 ELSE v
  OBVIOUS
<1>2. z \in Nat /\ (z # 0 => shown[s][k] # 0 /\ z = v /\ ~Meets(s, k))
  BY <1>1
<1>3. shown' = [shown EXCEPT ![s][k] = z]
  BY <1>1 DEF Shows
<1>4. ~Meets(s, k) => \A u \in Threads : ~Busy(u, s, k)
  BY DEF Meets, Busy
<1>5. Showing(s, k, z)
  BY <1>2, <1>3, ShownIs
<1>. QED  BY <1>2, <1>4, <1>5 DEF Showing

\* A call that goes on is one.
LEMMA CallIs ==
    ASSUME CacheDataOK, NEW t \in Threads, caller[t].at # "free"
    PROVE  /\ caller[t] \in Call /\ caller[t].scope \in Scopes /\ caller[t].key \in Responses
           /\ caller[t].version \in Nat /\ caller[t].layer \in LayerConfig
<1>1. caller[t] \in Call \cup {Free}
  BY DEF CacheDataOK
<1>2. Free.at = "free"
  BY DEF Free
<1>3. caller[t] \in Call
  BY <1>1, <1>2
<1>. QED  BY <1>3 DEF Call

LEMMA BusyIsKnown ==
    ASSUME NEW t \in Threads, NEW s \in Scopes, NEW k \in Responses, Known(s, k), Busy(t, s, k),
           shown[s][k] # 0
    PROVE  /\ \A u \in Threads : Busy(u, s, k) => u = t
           /\ caller[t].at \in {"filling", "keeping"} => caller[t].version = shown[s][k]
           /\ Consulted(s) =>
                /\ caller[t].at = "writing" => Versions(s, k) \subseteq {shown[s][k]}
                /\ caller[t].at \in {"asking", "asking, to fill", "filling"} \/ caller[t].made # updates =>
                     Versions(s, k) = {}
  BY DEF Known

\* Nothing is changed in memory, or the layer of one scope.
LEMMA VersionsStay ==
    ASSUME memory' = memory
    PROVE  \A x \in Scopes, y \in Responses : Versions(x, y)' = Versions(x, y)
  BY DEF Versions

\* get_cached_response: the layer has it.
LEMMA ReadHit ==
    ASSUME CacheInv, NEW t \in Threads, NEW s \in Scopes, NEW k \in Responses,
           caller[t].at = "free", NEW l \in LayerConfig, NEW m, m = LayerFor(s, l), m # NoLayer,
           NEW i \in At(m, k), memory' = [memory EXCEPT ![s] = Touched(m, i)],
           Shows(s, k, m.items[i].version), recent' = Use(s, k),
           UNCHANGED <<caller, config, redis, writes, updates>>
    PROVE  CacheInv'
<1>1. CacheDataOK /\ LayersKeep /\ CallsFollow /\ \A x \in Scopes, y \in Responses : Known(x, y)
  BY DEF CacheInv
<1>2. m \in Layer /\ LayerKeeps(m, recent[s])
  BY <1>1, LayerForIs
<1>3. i \in 1..Len(m.items) /\ m.items[i].key = k
  BY DEF At
<1>4. m = memory[s] /\ memory[s] # NoLayer
  <2>1. m.items # <<>>
    BY <1>3
  <2>. QED  BY <1>1, <2>1, LayerForIs
<1>5. recent[s] \in Seq(Responses)
  BY <1>1 DEF CacheDataOK
<1>6. PICK w, u : w = Touched(m, i) /\ u = UsedLast(recent[s], k)
  OBVIOUS
<1>7. w \in Layer /\ LayerKeeps(w, u) /\ ItemsOf(m, w)
  BY <1>2, <1>3, <1>5, <1>6, TouchedKeeps
<1>8. u \in Seq(Responses)
  BY <1>2, <1>5, <1>6, UsedLastIs DEF MovedLast, LayerKeeps
<1>9. memory' = [memory EXCEPT ![s] = w] /\ recent' = [recent EXCEPT ![s] = u]
  BY <1>6 DEF Use
<1>10. /\ memory' \in [Scopes -> Layer \cup {NoLayer}] /\ recent' \in [Scopes -> Seq(Responses)]
       /\ memory'[s] = w /\ \A x \in Scopes : x # s => memory'[x] = memory[x]
       /\ \A x \in Scopes : memory[x] # NoLayer => memory'[x] # NoLayer
       /\ LayersKeep'
  BY <1>1, <1>7, <1>8, <1>9, LayerChanges
<1>11. m.items[i].version \in Nat /\ m.items[i].version \in Versions(s, k)
  <2>1. m.items[i] \in CachedItem
    BY <1>2, <1>3, LayerIs
  <2>2. m.items[i].version \in VersionsIn(m, k)
    BY DEF VersionsIn
  <2>. QED  BY <1>4, <2>1, <2>2 DEF CachedItem, Versions
<1>12. /\ shown' \in [Scopes -> [Responses -> Nat]]
       /\ shown'[s][k] # 0 =>
            shown[s][k] # 0 /\ shown'[s][k] = m.items[i].version /\ \A a \in Threads : ~Busy(a, s, k)
       /\ \A x \in Scopes, y \in Responses : x # s \/ y # k => shown'[x][y] = shown[x][y]
  BY <1>1, <1>11, ShowsIs
<1>13. \A x \in Scopes, y \in Responses : Versions(x, y)' \subseteq Versions(x, y)
  <2>1. \A y : VersionsIn(w, y) \subseteq VersionsIn(m, y)
    BY <1>7, VersionsAfterTouch
  <2>2. ASSUME NEW x \in Scopes, NEW y \in Responses PROVE Versions(x, y)' \subseteq Versions(x, y)
    <3>1. CASE x = s
      <4>1. Versions(x, y)' \subseteq VersionsIn(w, y)
        BY <1>10, <3>1 DEF Versions
      <4>2. Versions(x, y) = VersionsIn(m, y)
        BY <1>4, <3>1 DEF Versions
      <4>. QED  BY <2>1, <4>1, <4>2
    <3>2. CASE x # s
      BY <1>10, <3>2 DEF Versions
    <3>. QED  BY <3>1, <3>2
  <2>. QED  BY <2>2
<1>14. StepAt(t, s, k)
  BY <1>12, <1>13 DEF StepAt
<1>15. Known(s, k)'
  <2>1. ASSUME shown'[s][k] # 0
        PROVE  /\ \A a \in Threads : Busy(a, s, k) => a = t
               /\ Consulted(s) => Versions(s, k)' \subseteq {shown'[s][k]}
    <3>1. shown[s][k] # 0 /\ shown'[s][k] = m.items[i].version /\ \A a \in Threads : ~Busy(a, s, k)
      BY <1>12, <2>1
    <3>2. Known(s, k)
      BY <1>1
    <3>3. Consulted(s) => Versions(s, k) \subseteq {shown[s][k]}
      BY <3>1, <3>2 DEF Known
    <3>. QED  BY <1>11, <1>13, <3>1, <3>3
  <2>2. caller'[t].at = "free"
    OBVIOUS
  <2>. QED  BY <1>14, <2>1, <2>2, OneIsKnown
<1>16. CacheDataOK'
  BY <1>1, <1>10, <1>12 DEF CacheDataOK
<1>17. CallsFollow'
  <2>1. ASSUME NEW a \in Threads, caller[a].at # "free", memory[caller[a].scope] # NoLayer
        PROVE  memory'[caller[a].scope] # NoLayer
    BY <1>1, <1>10, <2>1, CallIs
  <2>. QED  BY <1>1, <2>1 DEF CallsFollow
<1>18. (\A x \in Scopes, y \in Responses : Known(x, y))'
  BY <1>1, <1>14, <1>15, EveryKeyIsKnown
<1>. QED  BY <1>10, <1>16, <1>17, <1>18 DEF CacheInv

\* No key gets a version in memory.
NothingOf(s, k) == Consulted(s) => Versions(s, k)' = {}

NoneAreAdded == \A x \in Scopes, y \in Responses : Versions(x, y)' \subseteq Versions(x, y)

\* What a call is set to when it begins.
Begun(s, k, at) ==
    [at |-> at, scope |-> s, key |-> k, version |-> 0, layer |-> Effective(config, s), made |-> updates]

LEMMA NumberIsNoMore == \A n \in Nat : n <= n
  OBVIOUS

\* What the beginning of a call does to the layers.
LayersBegin(s, k, step) ==
    /\ memory' \in [Scopes -> Layer \cup {NoLayer}] /\ recent' \in [Scopes -> Seq(Responses)]
    /\ LayersKeep'
    /\ \A x \in Scopes : memory[x] # NoLayer => memory'[x] # NoLayer
    /\ NoneAreAdded
    /\ step = "asking, to fill" => memory'[s] # NoLayer
    /\ step # "writing" => NothingOf(s, k)

\* A call begins: the key is known when it is there alone.
LEMMA CallBegins ==
    ASSUME CacheInv, NEW t \in Threads, NEW s \in Scopes, NEW k \in Responses,
           caller[t].at = "free", Effective(config, s) # NoLayer,
           NEW step \in {"asking", "asking, to fill", "writing"}, Called(t, s, k, step),
           LayersBegin(s, k, step), UNCHANGED <<config, redis, writes, updates>>
    PROVE  CacheInv'
<1>1. CacheDataOK /\ LayersKeep /\ CallsFollow /\ \A x \in Scopes, y \in Responses : Known(x, y)
  BY DEF CacheInv
<1>2. PICK c : c = Begun(s, k, step)
  OBVIOUS
<1>3. /\ c \in Call /\ c.at = step /\ c.scope = s /\ c.key = k
      /\ c.made = updates /\ updates \in Nat /\ c.layer = Effective(config, s)
  <2>1. Effective(config, s) \in LayerConfig /\ updates \in Nat
    BY <1>1, EffectiveIs DEF CacheDataOK
  <2>2. c = [at |-> step, scope |-> s, key |-> k, version |-> 0, layer |-> Effective(config, s), made |-> updates]
    BY <1>2 DEF Begun
  <2>3. c \in Call
    BY <2>1, <2>2 DEF Call
  <2>. QED  BY <2>1, <2>2, <2>3
<1>4. caller' = [caller EXCEPT ![t] = c]
  BY <1>2 DEF Called, Begun
<1>5. /\ memory' \in [Scopes -> Layer \cup {NoLayer}] /\ recent' \in [Scopes -> Seq(Responses)]
      /\ LayersKeep'
      /\ \A x \in Scopes : memory[x] # NoLayer => memory'[x] # NoLayer
      /\ \A x \in Scopes, y \in Responses : Versions(x, y)' \subseteq Versions(x, y)
      /\ step = "asking, to fill" => memory'[s] # NoLayer
      /\ step # "writing" /\ Consulted(s) => Versions(s, k)' = {}
  BY DEF LayersBegin, NoneAreAdded, NothingOf
<1>6. /\ caller' \in [Threads -> Call \cup {Free}]
      /\ caller'[t] = c /\ \A u \in Threads : u # t => caller'[u] = caller[u]
      /\ CallsFollow'
  <2>1. c.made <= updates
    <3>1. updates <= updates
      BY <1>3, NumberIsNoMore
    <3>. QED  BY <1>3, <3>1
  <2>2. c.at \in {"asking, to fill", "filling"} => memory'[c.scope] # NoLayer
    <3>1. step # "filling"
      OBVIOUS
    <3>2. c.at \in {"asking, to fill", "filling"} => step = "asking, to fill"
      BY <1>3, <3>1
    <3>. QED  BY <1>3, <1>5, <3>2
  <2>. QED  BY <1>1, <1>3, <1>4, <1>5, <2>1, <2>2, CallerMoves
<1>7. shown[s][k] \in Nat
  <2>1. shown \in [Scopes -> [Responses -> Nat]]
    BY <1>1 DEF CacheDataOK
  <2>. QED  BY <2>1
<1>8. /\ shown' \in [Scopes -> [Responses -> Nat]]
      /\ shown'[s][k] # 0 =>
            shown[s][k] # 0 /\ shown'[s][k] = shown[s][k] /\ \A a \in Threads : ~Busy(a, s, k)
      /\ \A x \in Scopes, y \in Responses : x # s \/ y # k => shown'[x][y] = shown[x][y]
  BY <1>1, <1>7, ShowsIs DEF Called
<1>9. StepAt(t, s, k)
  BY <1>3, <1>6, <1>8, <1>5 DEF StepAt
<1>10. Known(s, k)'
  <2>1. ASSUME shown'[s][k] # 0
        PROVE  /\ \A a \in Threads : Busy(a, s, k) => a = t
               /\ Consulted(s) => /\ step = "writing" => Versions(s, k)' \subseteq {shown'[s][k]}
                                  /\ step \in {"asking", "asking, to fill"} => Versions(s, k)' = {}
    <3>1. shown[s][k] # 0 /\ shown'[s][k] = shown[s][k] /\ \A a \in Threads : ~Busy(a, s, k)
      BY <1>8, <2>1
    <3>2. Known(s, k)
      BY <1>1
    <3>3. Consulted(s) => Versions(s, k) \subseteq {shown[s][k]}
      BY <3>1, <3>2 DEF Known
    <3>. QED  BY <1>5, <3>1, <3>3
  <2>2. caller'[t].at = step /\ step \notin {"free", "filling", "keeping"} /\ caller'[t].made = updates'
    BY <1>3, <1>6
  <2>. QED  BY <1>9, <2>1, <2>2, OneIsKnown
<1>11. CacheDataOK'
  BY <1>1, <1>6, <1>8, <1>5 DEF CacheDataOK
<1>12. (\A x \in Scopes, y \in Responses : Known(x, y))'
  BY <1>1, <1>9, <1>10, EveryKeyIsKnown
<1>. QED  BY <1>6, <1>11, <1>12, <1>5 DEF CacheInv

\* get_cached_response
LEMMA ReadStep ==
    ASSUME CacheInv, NEW t \in Threads, NEW s \in Scopes, NEW k \in Responses, Read(t, s, k)
    PROVE  CacheInv'
<1>1. CacheDataOK /\ LayersKeep /\ CallsFollow /\ \A x \in Scopes, y \in Responses : Known(x, y)
  BY DEF CacheInv
<1>2. caller[t].at = "free" /\ Effective(config, s) # NoLayer /\ UNCHANGED <<config, redis, writes, updates>>
  BY DEF Read
<1>3. PICK l : l = Effective(config, s) /\ l \in LayerConfig
  BY <1>1, <1>2, EffectiveIs DEF CacheDataOK
<1>4. PICK m : m = LayerFor(s, l)
  OBVIOUS
<1>5. CASE m # NoLayer /\ At(m, k) # {}
  <2>1. PICK i \in At(m, k) :
                  /\ memory' = [memory EXCEPT ![s] = Touched(m, i)]
                  /\ Shows(s, k, m.items[i].version)
                  /\ recent' = Use(s, k)
                  /\ UNCHANGED caller
    BY <1>3, <1>4, <1>5 DEF Read
  <2>. QED  BY <1>2, <1>3, <1>4, <1>5, <2>1, ReadHit
<1>6. CASE ~(m # NoLayer /\ At(m, k) # {})
  <2>1. /\ memory' = IF m = NoLayer THEN memory ELSE [memory EXCEPT ![s] = m]
        /\ Called(t, s, k, IF m = NoLayer THEN "asking" ELSE "asking, to fill")
        /\ recent' = recent
    BY <1>3, <1>4, <1>6 DEF Read
  <2>2. CASE m = NoLayer
    <3>1. memory' = memory /\ recent' = recent /\ Called(t, s, k, "asking")
      BY <2>1, <2>2
    <3>2. Consulted(s) => Versions(s, k) = {}
      <4>1. Consulted(s) => l.size # 0
        BY <1>3 DEF Consulted
      <4>2. l.size # 0 => memory[s] = NoLayer
        BY <1>4, <2>2 DEF LayerFor
      <4>. QED  BY <4>1, <4>2 DEF Versions
    <3>3. /\ memory' \in [Scopes -> Layer \cup {NoLayer}] /\ LayersKeep' /\ recent' \in [Scopes -> Seq(Responses)]
          /\ \A x \in Scopes : memory[x] # NoLayer => memory'[x] # NoLayer
      BY <1>1, <3>1 DEF CacheDataOK, LayersKeep
    <3>4. \A x \in Scopes, y \in Responses : Versions(x, y)' = Versions(x, y)
      BY <3>1, VersionsStay
    <3>5. NoneAreAdded
      BY <3>4 DEF NoneAreAdded
    <3>6. NothingOf(s, k)
      BY <3>2, <3>4 DEF NothingOf
    <3>7. LayersBegin(s, k, "asking")
      BY <3>3, <3>5, <3>6 DEF LayersBegin
    <3>. QED  BY <1>2, <3>1, <3>7, CallBegins
  <2>3. CASE m # NoLayer
    <3>1. memory' = [memory EXCEPT ![s] = m] /\ recent' = recent /\ Called(t, s, k, "asking, to fill")
      BY <2>1, <2>3
    <3>2. /\ m \in Layer /\ LayerKeeps(m, recent[s])
          /\ memory[s] # NoLayer => m = memory[s]
          /\ memory[s] = NoLayer => m.items = <<>>
      BY <1>1, <1>3, <1>4, <2>3, LayerForIs
    <3>3. PICK u : u = recent[s]
      OBVIOUS
    <3>4. u \in Seq(Responses) /\ LayerKeeps(m, u) /\ recent' = [recent EXCEPT ![s] = u]
      BY <1>1, <3>1, <3>2, <3>3 DEF CacheDataOK
    <3>5. /\ memory' \in [Scopes -> Layer \cup {NoLayer}] /\ recent' \in [Scopes -> Seq(Responses)]
          /\ memory'[s] = m /\ \A x \in Scopes : x # s => memory'[x] = memory[x]
          /\ \A x \in Scopes : memory[x] # NoLayer => memory'[x] # NoLayer
          /\ LayersKeep'
      BY <1>1, <3>1, <3>2, <3>4, LayerChanges
    <3>6. ASSUME NEW x \in Scopes, NEW y \in Responses PROVE Versions(x, y)' \subseteq Versions(x, y)
      <4>1. CASE x = s /\ memory[s] # NoLayer
        BY <3>2, <3>5, <4>1 DEF Versions
      <4>2. CASE x = s /\ memory[s] = NoLayer
        <5>1. VersionsIn(m, y) = {}
          BY <3>2, <4>2, VersionsOfNone
        <5>. QED  BY <3>5, <4>2, <5>1 DEF Versions
      <4>3. CASE x # s
        BY <3>5, <4>3 DEF Versions
      <4>. QED  BY <4>1, <4>2, <4>3
    <3>7. Versions(s, k)' = {}
      <4>1. VersionsIn(m, k) = {}
        BY <1>6, <2>3 DEF VersionsIn
      <4>. QED  BY <3>5, <4>1 DEF Versions
    <3>8. memory'[s] # NoLayer
      BY <2>3, <3>5
    <3>9. NoneAreAdded
      BY <3>6 DEF NoneAreAdded
    <3>10. NothingOf(s, k)
      BY <3>7 DEF NothingOf
    <3>11. LayersBegin(s, k, "asking, to fill")
      BY <3>5, <3>8, <3>9, <3>10 DEF LayersBegin
    <3>. QED  BY <1>2, <3>1, <3>11, CallBegins
  <2>. QED  BY <2>2, <2>3
<1>. QED  BY <1>5, <1>6

\* cache_response begins.
LEMMA WriteStep ==
    ASSUME CacheInv, NEW t \in Threads, NEW s \in Scopes, NEW k \in Responses, Write(t, s, k)
    PROVE  CacheInv'
<1>1. CacheDataOK /\ LayersKeep
  BY DEF CacheInv
<1>2. /\ caller[t].at = "free" /\ Effective(config, s) # NoLayer /\ Called(t, s, k, "writing")
      /\ UNCHANGED <<config, redis, writes, updates>> /\ memory' = memory /\ recent' = recent
  BY DEF Write
<1>3. /\ memory' \in [Scopes -> Layer \cup {NoLayer}] /\ LayersKeep' /\ recent' \in [Scopes -> Seq(Responses)]
      /\ \A x \in Scopes : memory[x] # NoLayer => memory'[x] # NoLayer
  BY <1>1, <1>2 DEF CacheDataOK, LayersKeep
<1>4. \A x \in Scopes, y \in Responses : Versions(x, y)' = Versions(x, y)
  BY <1>2, VersionsStay
<1>5. NoneAreAdded
  BY <1>4 DEF NoneAreAdded
<1>6. LayersBegin(s, k, "writing")
  BY <1>3, <1>5 DEF LayersBegin
<1>. QED  BY <1>2, <1>6, CallBegins

\* The layers after a step at one key.
LayersGoOn(s, k) ==
    /\ memory' \in [Scopes -> Layer \cup {NoLayer}] /\ recent' \in [Scopes -> Seq(Responses)]
    /\ LayersKeep'
    /\ \A x \in Scopes : memory[x] # NoLayer => memory'[x] # NoLayer
    /\ \A x \in Scopes, y \in Responses : x # s \/ y # k => Versions(x, y)' \subseteq Versions(x, y)

LEMMA LayersRest ==
    ASSUME CacheDataOK, LayersKeep, memory' = memory, recent' = recent, NEW s, NEW k
    PROVE  LayersGoOn(s, k) /\ \A x \in Scopes, y \in Responses : Versions(x, y)' = Versions(x, y)
<1>1. /\ memory' \in [Scopes -> Layer \cup {NoLayer}] /\ recent' \in [Scopes -> Seq(Responses)]
      /\ \A x \in Scopes : memory[x] # NoLayer => memory'[x] # NoLayer
  BY DEF CacheDataOK
<1>2. LayersKeep'
  BY DEF LayersKeep
<1>3. \A x \in Scopes, y \in Responses : Versions(x, y)' = Versions(x, y)
  BY VersionsStay
<1>. QED  BY <1>1, <1>2, <1>3 DEF LayersGoOn

LEMMA LayerTakes ==
    ASSUME CacheDataOK, LayersKeep, NEW s \in Scopes, NEW k \in Responses, NEW v \in Nat,
           NEW m \in Layer, LayerKeeps(m, recent[s]),
           memory[s] # NoLayer => m = memory[s], memory[s] = NoLayer => m.items = <<>>,
           memory' = [memory EXCEPT ![s] = WithItem(m, k, v)], recent' = Use(s, k)
    PROVE  LayersGoOn(s, k) /\ Versions(s, k)' \subseteq {v}
<1>1. PICK w, u : w = WithItem(m, k, v) /\ u = UsedLast(recent[s], k)
  OBVIOUS
<1>2. recent[s] \in Seq(Responses)
  BY DEF CacheDataOK
<1>3. w \in Layer /\ LayerKeeps(w, u) /\ ItemsFrom(m, k, v, w)
  BY <1>1, <1>2, WithItemKeeps
<1>4. u \in Seq(Responses)
  BY <1>1, <1>2, UsedLastIs DEF MovedLast, LayerKeeps
<1>5. memory' = [memory EXCEPT ![s] = w] /\ recent' = [recent EXCEPT ![s] = u]
  BY <1>1 DEF Use
<1>6. /\ memory' \in [Scopes -> Layer \cup {NoLayer}] /\ recent' \in [Scopes -> Seq(Responses)]
      /\ memory'[s] = w /\ \A x \in Scopes : x # s => memory'[x] = memory[x]
      /\ \A x \in Scopes : memory[x] # NoLayer => memory'[x] # NoLayer
      /\ LayersKeep'
  BY <1>3, <1>4, <1>5, LayerChanges
<1>7. /\ VersionsIn(w, k) \subseteq {v}
      /\ \A y : y # k => VersionsIn(w, y) \subseteq VersionsIn(m, y)
  BY <1>3, VersionsAfterItem
<1>8. Versions(s, k)' \subseteq {v}
  BY <1>6, <1>7 DEF Versions
<1>9. ASSUME NEW x \in Scopes, NEW y \in Responses, x # s \/ y # k
      PROVE  Versions(x, y)' \subseteq Versions(x, y)
  <2>1. CASE x # s
    BY <1>6, <2>1 DEF Versions
  <2>2. CASE x = s /\ y # k
    <3>1. Versions(x, y)' \subseteq VersionsIn(m, y)
      BY <1>6, <1>7, <2>2 DEF Versions
    <3>2. CASE memory[s] # NoLayer
      <4>1. Versions(x, y) = VersionsIn(m, y)
        BY <2>2, <3>2 DEF Versions
      <4>. QED  BY <3>1, <4>1
    <3>3. CASE memory[s] = NoLayer
      <4>1. VersionsIn(m, y) = {}
        BY <3>3, VersionsOfNone
      <4>. QED  BY <3>1, <4>1
    <3>. QED  BY <3>2, <3>3
  <2>. QED  BY <1>9, <2>1, <2>2
<1>. QED  BY <1>6, <1>8, <1>9 DEF LayersGoOn

\* A call goes on to its next step, c, or ends.
StepGoesOn(t, s, k, c) ==
    /\ caller' = [caller EXCEPT ![t] = c] /\ config' = config /\ updates' = updates
    /\ redis' \in [Responses -> Nat] /\ writes' \in Nat
    /\ shown' \in [Scopes -> [Responses -> Nat]]
    /\ \A x \in Scopes, y \in Responses : x # s \/ y # k => shown'[x][y] = shown[x][y]
    /\ LayersGoOn(s, k)

NextOf(t, c) ==
    \/ c = Free
    \/ /\ c \in Call /\ c.scope = caller[t].scope /\ c.key = caller[t].key
       /\ c.layer = caller[t].layer /\ c.made = caller[t].made
       /\ c.at \in {"filling", "keeping"} /\ (c.at = "filling" => caller[t].at = "asking, to fill")

\* What is known at its key then.
KnowsNow(t, s, k, c) ==
    shown'[s][k] # 0 =>
        /\ shown[s][k] # 0
        /\ c # Free => c.version = shown'[s][k]
        /\ Consulted(s) =>
             /\ c = Free => Versions(s, k)' \subseteq {shown'[s][k]}
             /\ c # Free /\ (c.at = "filling" \/ c.made # updates) => Versions(s, k)' = {}

LEMMA CallGoesOn ==
    ASSUME CacheInv, NEW t \in Threads, NEW s \in Scopes, NEW k \in Responses, Busy(t, s, k),
           NEW c, NextOf(t, c), StepGoesOn(t, s, k, c), KnowsNow(t, s, k, c)
    PROVE  CacheInv'
<1>1. CacheDataOK /\ LayersKeep /\ CallsFollow /\ \A x \in Scopes, y \in Responses : Known(x, y)
  BY DEF CacheInv
<1>2. caller[t].at # "free" /\ caller[t].scope = s /\ caller[t].key = k
  BY DEF Busy
<1>3. /\ memory' \in [Scopes -> Layer \cup {NoLayer}] /\ recent' \in [Scopes -> Seq(Responses)]
      /\ LayersKeep'
      /\ \A x \in Scopes : memory[x] # NoLayer => memory'[x] # NoLayer
      /\ \A x \in Scopes, y \in Responses : x # s \/ y # k => Versions(x, y)' \subseteq Versions(x, y)
  BY DEF StepGoesOn, LayersGoOn
<1>4. /\ caller' = [caller EXCEPT ![t] = c] /\ config' = config /\ updates' = updates
      /\ redis' \in [Responses -> Nat] /\ writes' \in Nat
      /\ shown' \in [Scopes -> [Responses -> Nat]]
      /\ \A x \in Scopes, y \in Responses : x # s \/ y # k => shown'[x][y] = shown[x][y]
  BY DEF StepGoesOn
<1>5. /\ c \in Call \cup {Free}
      /\ c = Free <=> c.at = "free"
      /\ c # Free => /\ c.scope = s /\ c.key = k /\ c.layer = caller[t].layer /\ c.made = caller[t].made
                     /\ c.at \in {"filling", "keeping"} /\ (c.at = "filling" => caller[t].at = "asking, to fill")
  <2>1. Free.at = "free"
    BY DEF Free
  <2>2. c # Free => c \in Call /\ c.at \in {"filling", "keeping"}
    BY DEF NextOf
  <2>3. c # Free => c.at # "free"
    BY <2>2
  <2>4. c # Free => /\ c.scope = s /\ c.key = k /\ c.layer = caller[t].layer /\ c.made = caller[t].made
                    /\ (c.at = "filling" => caller[t].at = "asking, to fill")
    BY <1>2 DEF NextOf
  <2>. QED  BY <2>1, <2>2, <2>3, <2>4
<1>6. /\ caller' \in [Threads -> Call \cup {Free}]
      /\ caller'[t] = c /\ \A u \in Threads : u # t => caller'[u] = caller[u]
      /\ CallsFollow'
  <2>1. c.at # "free" =>
              /\ c.made <= updates
              /\ c.made = updates => /\ c.layer = Effective(config, c.scope)
                                     /\ c.at \in {"asking, to fill", "filling"} => memory'[c.scope] # NoLayer
    <3>1. /\ caller[t].made <= updates
          /\ caller[t].made = updates =>
                 /\ caller[t].layer = Effective(config, s)
                 /\ caller[t].at = "asking, to fill" => memory[s] # NoLayer
      BY <1>1, <1>2 DEF CallsFollow
    <3>2. c.at \in {"filling", "keeping"} => c.at # "asking, to fill"
      OBVIOUS
    <3>. QED  BY <1>3, <1>5, <3>1, <3>2
  <2>. QED  BY <1>1, <1>3, <1>4, <1>5, <2>1, CallerMoves
<1>7. StepAt(t, s, k)
  BY <1>2, <1>3, <1>4, <1>5, <1>6 DEF StepAt
<1>8. Known(s, k)'
  <2>1. ASSUME shown'[s][k] # 0
        PROVE  /\ \A u \in Threads : Busy(u, s, k) => u = t
               /\ c.at \in {"filling", "keeping"} => c.version = shown'[s][k]
               /\ Consulted(s) =>
                    /\ c.at = "free" => Versions(s, k)' \subseteq {shown'[s][k]}
                    /\ c.at # "free" /\ (c.at = "filling" \/ c.made # updates) => Versions(s, k)' = {}
    <3>1. /\ shown[s][k] # 0
          /\ c # Free => c.version = shown'[s][k]
          /\ Consulted(s) =>
               /\ c = Free => Versions(s, k)' \subseteq {shown'[s][k]}
               /\ c # Free /\ (c.at = "filling" \/ c.made # updates) => Versions(s, k)' = {}
      BY <2>1 DEF KnowsNow
    <3>2. \A u \in Threads : Busy(u, s, k) => u = t
      BY <1>1, <3>1 DEF Known
    <3>. QED  BY <1>5, <3>1, <3>2
  <2>2. c.at \notin {"asking", "asking, to fill", "writing"} /\ caller'[t] = c /\ updates' = updates
    BY <1>4, <1>5, <1>6
  <2>. QED  BY <1>7, <2>1, <2>2, OneIsKnown
<1>9. CacheDataOK'
  BY <1>1, <1>3, <1>4, <1>6 DEF CacheDataOK
<1>10. (\A x \in Scopes, y \in Responses : Known(x, y))'
  BY <1>1, <1>7, <1>8, EveryKeyIsKnown
<1>. QED  BY <1>3, <1>6, <1>9, <1>10 DEF CacheInv

\* RedisCache.get_json
LEMMA AskStep ==
    ASSUME CacheInv, NEW t \in Threads, Ask(t)
    PROVE  CacheInv'
<1>1. CacheDataOK /\ LayersKeep /\ \A x \in Scopes, y \in Responses : Known(x, y)
  BY DEF CacheInv
<1>2. /\ caller[t].at \in {"asking", "asking, to fill"} /\ caller[t].at # "free"
      /\ UNCHANGED <<config, memory, redis, writes, updates, recent>>
  BY DEF Ask
<1>3. PICK s \in Scopes, k \in Responses : s = caller[t].scope /\ k = caller[t].key
  BY <1>1, <1>2, CallIs
<1>4. Busy(t, s, k) /\ caller[t] \in Call
  BY <1>1, <1>2, <1>3, CallIs DEF Busy
<1>5. LayersGoOn(s, k) /\ Versions(s, k)' = Versions(s, k)
  BY <1>1, <1>2, LayersRest
<1>6. redis' \in [Responses -> Nat] /\ writes' \in Nat
  BY <1>1, <1>2 DEF CacheDataOK
<1>7. shown[s][k] # 0 /\ Consulted(s) => Versions(s, k) = {}
  BY <1>1, <1>2, <1>4, BusyIsKnown
<1>8. CASE caller' = [caller EXCEPT ![t] = Free] /\ shown' = shown
  <2>1. NextOf(t, Free)
    BY DEF NextOf
  <2>2. StepGoesOn(t, s, k, Free)
    BY <1>1, <1>2, <1>5, <1>6, <1>8 DEF StepGoesOn, CacheDataOK
  <2>3. KnowsNow(t, s, k, Free)
    BY <1>5, <1>7, <1>8 DEF KnowsNow
  <2>. QED  BY <1>4, <2>1, <2>2, <2>3, CallGoesOn
<1>9. CASE /\ shown' = [shown EXCEPT ![s][k] = IF @ = 0 THEN 0 ELSE redis[k]]
           /\ caller' = [caller EXCEPT ![t] =
                            IF caller[t].at = "asking" THEN Free
                            ELSE [caller[t] EXCEPT !.at = "filling", !.version = redis[k]]]
  <2>1. PICK v : v = IF shown[s][k] = 0 THEN 0 ELSE redis[k]
    OBVIOUS
  <2>2. redis[k] \in Nat /\ v \in Nat /\ (v # 0 => shown[s][k] # 0 /\ v = redis[k])
    BY <1>1, <2>1 DEF CacheDataOK
  <2>3. shown' = [shown EXCEPT ![s][k] = v]
    BY <1>9, <2>1
  <2>4. /\ shown' \in [Scopes -> [Responses -> Nat]] /\ shown'[s][k] = v
        /\ \A x \in Scopes, y \in Responses : x # s \/ y # k => shown'[x][y] = shown[x][y]
    <3>1. Showing(s, k, v)
      BY <1>1, <2>2, <2>3, ShownIs
    <3>. QED  BY <3>1 DEF Showing
  <2>5. PICK c : c = IF caller[t].at = "asking" THEN Free
                     ELSE [caller[t] EXCEPT !.at = "filling", !.version = redis[k]]
    OBVIOUS
  <2>6. NextOf(t, c) /\ (c # Free => c.version = redis[k])
    <3>1. CASE caller[t].at = "asking"
      BY <2>5, <3>1 DEF NextOf
    <3>2. CASE caller[t].at = "asking, to fill"
      <4>1. c = [caller[t] EXCEPT !.at = "filling", !.version = redis[k]]
        BY <2>5, <3>2
      <4>2. /\ c \in Call /\ c.scope = caller[t].scope /\ c.key = caller[t].key
            /\ c.layer = caller[t].layer /\ c.made = caller[t].made
            /\ c.at = "filling" /\ c.version = redis[k]
        BY <1>4, <2>2, <4>1 DEF Call
      <4>. QED  BY <3>2, <4>2 DEF NextOf
    <3>. QED  BY <1>2, <3>1, <3>2
  <2>7. StepGoesOn(t, s, k, c)
    BY <1>2, <1>5, <1>6, <1>9, <2>4, <2>5 DEF StepGoesOn
  <2>8. KnowsNow(t, s, k, c)
    BY <1>5, <1>7, <2>2, <2>4, <2>6 DEF KnowsNow
  <2>. QED  BY <1>4, <2>6, <2>7, <2>8, CallGoesOn
<1>. QED  BY <1>3, <1>8, <1>9 DEF Ask

\* get_cached_response: what Redis had is taken into the layer.
LEMMA FillStep ==
    ASSUME CacheInv, NEW t \in Threads, Fill(t)
    PROVE  CacheInv'
<1>1. CacheDataOK /\ LayersKeep /\ CallsFollow /\ \A x \in Scopes, y \in Responses : Known(x, y)
  BY DEF CacheInv
<1>2. /\ caller[t].at = "filling" /\ caller[t].at # "free" /\ caller' = [caller EXCEPT ![t] = Free]
      /\ UNCHANGED <<config, redis, writes, updates, shown>>
  BY DEF Fill
<1>3. PICK s \in Scopes, k \in Responses : s = caller[t].scope /\ k = caller[t].key
  BY <1>1, <1>2, CallIs
<1>4. PICK v \in Nat : v = caller[t].version
  BY <1>1, <1>2, CallIs
<1>5. Busy(t, s, k)
  BY <1>2, <1>3 DEF Busy
<1>6. /\ redis' \in [Responses -> Nat] /\ writes' \in Nat /\ shown' \in [Scopes -> [Responses -> Nat]]
      /\ config' = config /\ updates' = updates /\ shown' = shown
  BY <1>1, <1>2 DEF CacheDataOK
<1>7. shown[s][k] # 0 => v = shown[s][k] /\ (Consulted(s) => Versions(s, k) = {})
  BY <1>1, <1>2, <1>4, <1>5, BusyIsKnown
<1>8. LayersGoOn(s, k) /\ (Versions(s, k)' \subseteq {v} \/ Versions(s, k)' = Versions(s, k))
  <2>1. CASE caller[t].made = updates
    <3>1. memory' = [memory EXCEPT ![s] = WithItem(memory[s], k, v)] /\ recent' = Use(s, k)
      BY <1>3, <1>4, <2>1 DEF Fill
    <3>2. memory[s] # NoLayer
      BY <1>1, <1>2, <1>3, <2>1 DEF CallsFollow
    <3>3. PICK m : m = memory[s]
      OBVIOUS
    <3>4. m \in Layer /\ LayerKeeps(m, recent[s]) /\ memory' = [memory EXCEPT ![s] = WithItem(m, k, v)]
      BY <1>1, <3>1, <3>2, <3>3 DEF CacheDataOK, LayersKeep
    <3>. QED  BY <1>1, <3>1, <3>2, <3>3, <3>4, LayerTakes
  <2>2. CASE caller[t].made # updates
    <3>1. memory' = memory /\ recent' = recent
      BY <2>2 DEF Fill
    <3>. QED  BY <1>1, <3>1, LayersRest
  <2>. QED  BY <2>1, <2>2
<1>9. StepGoesOn(t, s, k, Free)
  BY <1>2, <1>6, <1>8 DEF StepGoesOn
<1>10. KnowsNow(t, s, k, Free)
  BY <1>6, <1>7, <1>8 DEF KnowsNow
<1>11. NextOf(t, Free)
  BY DEF NextOf
<1>. QED  BY <1>5, <1>9, <1>10, <1>11, CallGoesOn

\* RedisCache.set_json
LEMMA SetStep ==
    ASSUME CacheInv, NEW t \in Threads, Set(t)
    PROVE  CacheInv'
<1>1. CacheDataOK /\ LayersKeep /\ \A x \in Scopes, y \in Responses : Known(x, y)
  BY DEF CacheInv
<1>2. /\ caller[t].at = "writing" /\ caller[t].at # "free"
      /\ UNCHANGED <<config, memory, updates, recent>>
  BY DEF Set
<1>3. PICK s \in Scopes, k \in Responses : s = caller[t].scope /\ k = caller[t].key
  BY <1>1, <1>2, CallIs
<1>4. Busy(t, s, k) /\ caller[t] \in Call
  BY <1>1, <1>2, <1>3, CallIs DEF Busy
<1>5. LayersGoOn(s, k) /\ Versions(s, k)' = Versions(s, k)
  BY <1>1, <1>2, LayersRest
<1>6. redis' \in [Responses -> Nat] /\ writes' \in Nat
  <2>1. redis \in [Responses -> Nat] /\ writes \in Nat /\ writes + 1 \in Nat
    BY <1>1 DEF CacheDataOK
  <2>2. CASE redis' = redis /\ writes' = writes
    BY <2>1, <2>2
  <2>3. CASE writes' = writes + 1 /\ redis' = [redis EXCEPT ![k] = writes']
    BY <2>1, <2>3
  <2>. QED  BY <1>3, <2>2, <2>3 DEF Set
<1>7. shown[s][k] # 0 /\ Consulted(s) =>
        /\ Versions(s, k) \subseteq {shown[s][k]}
        /\ caller[t].made # updates => Versions(s, k) = {}
  BY <1>1, <1>2, <1>4, BusyIsKnown
<1>8. CASE caller' = [caller EXCEPT ![t] = Free] /\ shown' = shown
  <2>1. NextOf(t, Free)
    BY DEF NextOf
  <2>2. StepGoesOn(t, s, k, Free)
    BY <1>1, <1>2, <1>5, <1>6, <1>8 DEF StepGoesOn, CacheDataOK
  <2>3. KnowsNow(t, s, k, Free)
    BY <1>5, <1>7, <1>8 DEF KnowsNow
  <2>. QED  BY <1>4, <2>1, <2>2, <2>3, CallGoesOn
<1>9. CASE /\ shown' = [shown EXCEPT ![s][k] = IF @ = 0 THEN 0 ELSE writes']
           /\ caller' = [caller EXCEPT ![t] = [caller[t] EXCEPT !.at = "keeping", !.version = writes']]
  <2>1. PICK n \in Nat : n = writes'
    BY <1>6
  <2>2. PICK v : v = IF shown[s][k] = 0 THEN 0 ELSE n
    OBVIOUS
  <2>3. v \in Nat /\ (v # 0 => shown[s][k] # 0 /\ v = n)
    BY <2>2
  <2>4. shown' = [shown EXCEPT ![s][k] = v]
    BY <1>9, <2>1, <2>2
  <2>5. /\ shown' \in [Scopes -> [Responses -> Nat]] /\ shown'[s][k] = v
        /\ \A x \in Scopes, y \in Responses : x # s \/ y # k => shown'[x][y] = shown[x][y]
    <3>1. Showing(s, k, v)
      BY <1>1, <2>3, <2>4, ShownIs
    <3>. QED  BY <3>1 DEF Showing
  <2>6. PICK c : c = [caller[t] EXCEPT !.at = "keeping", !.version = n]
    OBVIOUS
  <2>7. /\ c \in Call /\ c.scope = caller[t].scope /\ c.key = caller[t].key
        /\ c.layer = caller[t].layer /\ c.made = caller[t].made
        /\ c.at = "keeping" /\ c.version = n
    BY <1>4, <2>6 DEF Call
  <2>8. NextOf(t, c)
    BY <2>7 DEF NextOf
  <2>9. StepGoesOn(t, s, k, c)
    BY <1>2, <1>5, <1>6, <1>9, <2>1, <2>5, <2>6 DEF StepGoesOn
  <2>10. KnowsNow(t, s, k, c)
    <3>1. c # Free
      BY <2>7 DEF Free
    <3>. QED  BY <1>5, <1>7, <2>3, <2>5, <2>7, <3>1 DEF KnowsNow
  <2>. QED  BY <1>4, <2>8, <2>9, <2>10, CallGoesOn
<1>. QED  BY <1>3, <1>8, <1>9 DEF Set

\* cache_response: what was stored is taken into the layer of its configuration.
LEMMA KeepStep ==
    ASSUME CacheInv, NEW t \in Threads, Keep(t)
    PROVE  CacheInv'
<1>1. CacheDataOK /\ LayersKeep /\ CallsFollow /\ \A x \in Scopes, y \in Responses : Known(x, y)
  BY DEF CacheInv
<1>2. /\ caller[t].at = "keeping" /\ caller[t].at # "free" /\ caller' = [caller EXCEPT ![t] = Free]
      /\ UNCHANGED <<config, redis, writes, updates, shown>>
  BY DEF Keep
<1>3. PICK s \in Scopes, k \in Responses : s = caller[t].scope /\ k = caller[t].key
  BY <1>1, <1>2, CallIs
<1>4. PICK v \in Nat : v = caller[t].version
  BY <1>1, <1>2, CallIs
<1>5. Busy(t, s, k)
  BY <1>2, <1>3 DEF Busy
<1>6. /\ redis' \in [Responses -> Nat] /\ writes' \in Nat /\ shown' \in [Scopes -> [Responses -> Nat]]
      /\ config' = config /\ updates' = updates /\ shown' = shown
  BY <1>1, <1>2 DEF CacheDataOK
<1>7. shown[s][k] # 0 =>
        v = shown[s][k] /\ (Consulted(s) /\ caller[t].made # updates => Versions(s, k) = {})
  BY <1>1, <1>2, <1>4, <1>5, BusyIsKnown
<1>8. PICK l \in LayerConfig : l = caller[t].layer
  BY <1>1, <1>2, CallIs
<1>9. PICK m : m = LayerFor(s, l)
  OBVIOUS
<1>10. /\ LayersGoOn(s, k)
       /\ shown[s][k] # 0 /\ Consulted(s) => Versions(s, k)' \subseteq {v}
  <2>1. CASE m = NoLayer
    <3>1. memory' = memory /\ recent' = recent
      BY <1>3, <1>8, <1>9, <2>1 DEF Keep
    <3>2. LayersGoOn(s, k) /\ Versions(s, k)' = Versions(s, k)
      BY <1>1, <3>1, LayersRest
    <3>3. ASSUME shown[s][k] # 0, Consulted(s) PROVE Versions(s, k) = {}
      <4>1. CASE memory[s] = NoLayer
        BY <4>1 DEF Versions
      <4>2. CASE memory[s] # NoLayer
        <5>1. l.size = 0
          BY <1>9, <2>1, <4>2 DEF LayerFor
        <5>2. l # Effective(config, s)
          BY <3>3, <5>1 DEF Consulted
        <5>3. caller[t].made # updates
          BY <1>1, <1>2, <1>3, <1>8, <5>2 DEF CallsFollow
        <5>. QED  BY <1>7, <3>3, <5>3
      <4>. QED  BY <4>1, <4>2
    <3>. QED  BY <3>2, <3>3
  <2>2. CASE m # NoLayer
    <3>1. memory' = [memory EXCEPT ![s] = WithItem(m, k, v)] /\ recent' = Use(s, k)
      BY <1>3, <1>4, <1>8, <1>9, <2>2 DEF Keep
    <3>2. /\ m \in Layer /\ LayerKeeps(m, recent[s])
          /\ memory[s] # NoLayer => m = memory[s]
          /\ memory[s] = NoLayer => m.items = <<>>
      BY <1>1, <1>9, <2>2, LayerForIs
    <3>. QED  BY <1>1, <3>1, <3>2, LayerTakes
  <2>. QED  BY <2>1, <2>2
<1>11. StepGoesOn(t, s, k, Free)
  BY <1>2, <1>6, <1>10 DEF StepGoesOn
<1>12. KnowsNow(t, s, k, Free)
  BY <1>6, <1>7, <1>10 DEF KnowsNow
<1>13. NextOf(t, Free)
  BY DEF NextOf
<1>. QED  BY <1>5, <1>11, <1>12, <1>13, CallGoesOn

-----------------------------------------------------------------------------
(* Every step, and what follows                                            *)

LEMMA UpdateStep ==
    ASSUME CacheInv, NEW c \in Configs, UpdateConfig(c)
    PROVE  CacheInv'
<1>1. CacheDataOK /\ CallsFollow /\ \A x \in Scopes, y \in Responses : Known(x, y)
  BY DEF CacheInv
<1>2. /\ config' = c /\ memory' = [s \in Scopes |-> NoLayer] /\ recent' = [s \in Scopes |-> <<>>]
      /\ updates' = updates + 1 /\ UNCHANGED <<redis, caller, writes, shown>>
  BY DEF UpdateConfig
<1>3. updates \in Nat /\ updates' \in Nat
  BY <1>1, <1>2 DEF CacheDataOK
<1>4. memory' \in [Scopes -> Layer \cup {NoLayer}]
  BY <1>2
<1>5. recent' \in [Scopes -> Seq(Responses)]
  BY <1>2
<1>6. CacheDataOK'
  BY <1>1, <1>2, <1>3, <1>4, <1>5 DEF CacheDataOK
<1>7. LayersKeep'
  BY <1>2 DEF LayersKeep
<1>8. CallsFollow'
  <2>1. ASSUME NEW t \in Threads, caller[t].at # "free"
        PROVE  caller[t].made <= updates' /\ caller[t].made # updates'
    <3>1. caller[t].made <= updates /\ caller[t] \in Call
      BY <1>1, <2>1, CallIs DEF CallsFollow
    <3>2. PICK n \in Nat : n = caller[t].made
      BY <3>1 DEF Call
    <3>. QED  BY <1>2, <1>3, <3>1, <3>2
  <2>. QED  BY <1>2, <2>1 DEF CallsFollow
<1>9. (\A x \in Scopes, y \in Responses : Known(x, y))'
  <2>1. ASSUME NEW x \in Scopes, NEW y \in Responses PROVE Known(x, y)'
    <3>1. Versions(x, y)' = {}
      BY <1>2 DEF Versions
    <3>2. Known(x, y)
      BY <1>1
    <3>3. \A t \in Threads : Busy(t, x, y)' <=> Busy(t, x, y)
      BY <1>2 DEF Busy
    <3>. QED  BY <1>2, <3>1, <3>2, <3>3 DEF Known
  <2>. QED  BY <2>1
<1>. QED  BY <1>6, <1>7, <1>8, <1>9 DEF CacheInv

LEMMA CacheInvInit == CacheInit => CacheInv
<1> SUFFICES ASSUME CacheInit PROVE CacheInv
  OBVIOUS
<1>1. /\ config \in Configs
      /\ memory = [s \in Scopes |-> NoLayer]
      /\ redis = [k \in Responses |-> 1]
      /\ caller = [t \in Threads |-> Free]
      /\ writes = 1 /\ updates = 0
      /\ shown = [s \in Scopes |-> [k \in Responses |-> 1]]
      /\ recent = [s \in Scopes |-> <<>>]
  BY DEF CacheInit
<1>2. memory \in [Scopes -> Layer \cup {NoLayer}] /\ recent \in [Scopes -> Seq(Responses)]
  BY <1>1
<1>3. CacheDataOK
  BY <1>1, <1>2 DEF CacheDataOK
<1>4. \A t \in Threads : caller[t].at = "free"
  BY <1>1 DEF Free
<1>5. LayersKeep
  BY <1>1 DEF LayersKeep
<1>6. CallsFollow
  BY <1>4 DEF CallsFollow
<1>7. ASSUME NEW s \in Scopes, NEW k \in Responses PROVE Known(s, k)
  <2>1. Versions(s, k) = {}
    BY <1>1 DEF Versions
  <2>2. \A t \in Threads : ~Busy(t, s, k)
    BY <1>4 DEF Busy
  <2>. QED  BY <2>1, <2>2 DEF Known
<1>. QED  BY <1>3, <1>5, <1>6, <1>7 DEF CacheInv

LEMMA CacheInvRests == CacheInv /\ UNCHANGED <<config, memory, caller, updates, shown, recent>>
                         /\ redis' \in [Responses -> Nat] /\ writes' \in Nat => CacheInv'
<1> SUFFICES ASSUME CacheInv, UNCHANGED <<config, memory, caller, updates, shown, recent>>,
                    redis' \in [Responses -> Nat], writes' \in Nat
             PROVE  CacheInv'
  OBVIOUS
<1>1. CacheDataOK'
  BY DEF CacheInv, CacheDataOK
<1>2. LayersKeep' /\ CallsFollow'
  BY DEF CacheInv, LayersKeep, CallsFollow
<1>3. ASSUME NEW s \in Scopes, NEW k \in Responses PROVE Known(s, k)'
  <2>1. Known(s, k)
    BY DEF CacheInv
  <2>. QED  BY <2>1 DEF Known, Busy, Versions, Consulted
<1>. QED  BY <1>1, <1>2, <1>3 DEF CacheInv

LEMMA CacheInvNext == CacheInv /\ [CacheNext]_cacheVars => CacheInv'
<1> SUFFICES ASSUME CacheInv, [CacheNext]_cacheVars PROVE CacheInv'
  OBVIOUS
<1>1. redis \in [Responses -> Nat] /\ writes \in Nat
  BY DEF CacheInv, CacheDataOK
<1>2. CASE UNCHANGED cacheVars
  BY <1>1, <1>2, CacheInvRests DEF cacheVars
<1>3. ASSUME NEW t \in Threads, NEW s \in Scopes, NEW k \in Wants[t], Read(t, s, k) \/ Write(t, s, k)
      PROVE  CacheInv'
  <2>1. k \in Responses
    BY CacheAssumption
  <2>. QED  BY <1>3, <2>1, ReadStep, WriteStep
<1>4. ASSUME NEW t \in Threads, Ask(t) \/ Fill(t) \/ Set(t) \/ Keep(t)
      PROVE  CacheInv'
  BY <1>4, AskStep, FillStep, SetStep, KeepStep
<1>5. ASSUME NEW k \in Responses, Elsewhere(k) PROVE CacheInv'
  <2>1. writes' = writes + 1 /\ redis' = [redis EXCEPT ![k] = writes']
        /\ UNCHANGED <<config, memory, caller, updates, shown, recent>>
    BY <1>5 DEF Elsewhere
  <2>2. writes' \in Nat /\ redis' \in [Responses -> Nat]
    BY <1>1, <2>1
  <2>. QED  BY <2>1, <2>2, CacheInvRests
<1>6. ASSUME NEW c \in Configs, UpdateConfig(c) PROVE CacheInv'
  BY <1>6, UpdateStep
<1>. QED  BY <1>2, <1>3, <1>4, <1>5, <1>6 DEF CacheNext

\* The least and the greatest of two numbers.
LEMMA OfTwo ==
    ASSUME NEW a \in Int, NEW b \in Int
    PROVE  Max({a, b}) = (IF a >= b THEN a ELSE b) /\ Min({a, b}) = (IF a <= b THEN a ELSE b)
<1>1. CASE a <= b
  BY <1>1 DEF Max, Min
<1>2. CASE b <= a
  BY <1>2 DEF Max, Min
<1>. QED  BY <1>1, <1>2

LEMMA UsedAreKept ==
    ASSUME CacheDataOK, LayersKeep
    PROVE  RecentlyUsedAreKept /\ FrequentlyUsedAreKept
<1>1. ASSUME NEW s \in Scopes, memory[s] # NoLayer
      PROVE  LET m == memory[s]
                 last == Len(recent[s])
             IN /\ m.policy = "LRU" =>
                     [i \in 1..Len(m.items) |-> m.items[i].key]
                         = SubSeq(recent[s], Max({1, last - m.size + 1}), last)
                /\ \A i, j \in 1..Len(m.items) : i # j => m.items[i].key # m.items[j].key
                /\ Len(m.items) = Min({m.size, Len(recent[s])})
                /\ recent[s] # <<>> => At(m, recent[s][Len(recent[s])]) # {}
  <2>1. PICK m, used : m = memory[s] /\ used = recent[s]
    OBVIOUS
  <2>2. m \in Layer /\ used \in Seq(Responses) /\ LayerKeeps(m, used)
    BY <1>1, <2>1 DEF CacheDataOK, LayersKeep
  <2>3. PICK n, last, size : /\ n = Len(m.items) /\ last = Len(used) /\ size = m.size
                             /\ n \in Nat /\ last \in Nat /\ size \in Nat
    BY <2>2, LayerIs, LenProperties
  <2>4. n <= size /\ n <= last /\ (n < size => n = last)
    BY <2>2, <2>3 DEF LayerKeeps, Fills
  <2>5. \A i, j \in 1..n : i # j => m.items[i].key # m.items[j].key
    BY <2>2, <2>3 DEF LayerKeeps
  <2>6. n = Min({size, last})
    <3>1. Min({size, last}) = IF size <= last THEN size ELSE last
      <4>1. size \in Int /\ last \in Int
        BY <2>3
      <4>. QED  BY <4>1, OfTwo
    <3>. QED  BY <2>3, <2>4, <3>1
  <2>7. used # <<>> => At(m, used[last]) # {}
    BY <2>2, <2>3 DEF LayerKeeps, Has, At
  <2>8. ASSUME m.policy = "LRU"
        PROVE  [i \in 1..n |-> m.items[i].key] = SubSeq(used, Max({1, last - size + 1}), last)
    <3>1. PICK from : from = last - n + 1
      OBVIOUS
    <3>2. Max({1, last - size + 1}) = from
      <4>1. PICK x : x = last - size + 1
        OBVIOUS
      <4>2. x \in Int /\ 1 \in Int
        BY <2>3, <4>1
      <4>3. Max({1, x}) = IF 1 >= x THEN 1 ELSE x
        BY <4>2, OfTwo
      <4>4. CASE 1 >= x
        <5>1. n = last
          BY <2>3, <2>4, <4>1, <4>4
        <5>2. from = 1
          BY <2>3, <3>1, <5>1
        <5>. QED  BY <4>1, <4>3, <4>4, <5>2
      <4>5. CASE ~(1 >= x)
        <5>1. n = size
          BY <2>3, <2>4, <4>1, <4>5
        <5>2. from = x
          BY <3>1, <4>1, <5>1
        <5>. QED  BY <4>1, <4>3, <4>5, <5>2
      <4>. QED  BY <4>4, <4>5
    <3>3. from \in Int /\ 1 <= from /\ last - from + 1 = n /\ (from <= last <=> n # 0)
      BY <2>3, <2>4, <3>1
    <3>4. \A i \in from..last : used[i] \in Responses
      <4>1. \A i \in from..last : i \in 1..last
        BY <2>3, <3>3
      <4>. QED  BY <2>2, <2>3, <4>1, ElementOfSeq
    <3>5. PICK q : q = SubSeq(used, from, last)
      OBVIOUS
    <3>6. /\ q \in Seq(Responses) /\ Len(q) = IF from <= last THEN last - from + 1 ELSE 0
          /\ \A i \in 1..(last - from + 1) : q[i] = used[from + i - 1]
      <4>1. /\ SubSeq(used, from, last) \in Seq(Responses)
            /\ Len(SubSeq(used, from, last)) = IF from <= last THEN last - from + 1 ELSE 0
            /\ \A i \in 1..(last - from + 1) : SubSeq(used, from, last)[i] = used[from + i - 1]
        BY <2>3, <3>3, <3>4, SubSeqProperties
      <4>. QED  BY <3>5, <4>1
    <3>7. Len(q) = n /\ \A i \in 1..n : q[i] = used[from + i - 1]
      BY <3>3, <3>6
    <3>8. PICK p : p = [i \in 1..n |-> m.items[i].key]
      OBVIOUS
    <3>9. p \in Seq(Responses) /\ Len(p) = n
      <4>1. \A i \in 1..n : m.items[i] \in CachedItem
        BY <2>2, <2>3, LayerIs
      <4>2. p \in [1..n -> Responses]
        BY <3>8, <4>1 DEF CachedItem
      <4>. QED  BY <2>3, <4>2, IsSequence
    <3>10. \A i \in 1..n : p[i] = q[i]
      <4>1. \A i \in 1..n : m.items[i].key = used[last - n + i]
        BY <2>2, <2>3, <2>8 DEF LayerKeeps
      <4>2. \A i \in 1..n : last - n + i = from + i - 1
        BY <2>3, <3>1
      <4>. QED  BY <3>7, <3>8, <4>1, <4>2
    <3>11. p = q
      BY <3>7, <3>9, <3>6, <3>10, SeqEqual
    <3>. QED  BY <3>2, <3>5, <3>8, <3>11
  <2>. QED  BY <2>1, <2>3, <2>5, <2>6, <2>7, <2>8
<1>. QED  BY <1>1 DEF RecentlyUsedAreKept, FrequentlyUsedAreKept, Layers

LEMMA NothingIsBehind ==
    ASSUME CacheInv
    PROVE  MemoryIsNotBehind
<1>1. ASSUME NEW s \in Scopes, memory[s] # NoLayer, Consulted(s), NEW i \in 1..Len(memory[s].items),
             shown[s][memory[s].items[i].key] # 0, ~Meets(s, memory[s].items[i].key)
      PROVE  memory[s].items[i].version = shown[s][memory[s].items[i].key]
  <2>1. PICK m, k : m = memory[s] /\ k = m.items[i].key
    OBVIOUS
  <2>2. m \in Layer
    BY <1>1, <2>1 DEF CacheInv, CacheDataOK
  <2>3. k \in Responses
    <3>1. m.items[i] \in CachedItem
      BY <2>1, <2>2, LayerIs
    <3>. QED  BY <2>1, <3>1 DEF CachedItem
  <2>4. Known(s, k)
    BY <2>3 DEF CacheInv
  <2>5. \A t \in Threads : ~Busy(t, s, k)
    BY <1>1, <2>1 DEF Meets, Busy
  <2>6. Versions(s, k) \subseteq {shown[s][k]}
    BY <1>1, <2>1, <2>4, <2>5 DEF Known
  <2>7. m.items[i].version \in Versions(s, k)
    <3>1. i \in At(m, k)
      BY <2>1 DEF At
    <3>. QED  BY <1>1, <2>1, <3>1 DEF Versions, VersionsIn
  <2>. QED  BY <2>1, <2>6, <2>7
<1>. QED  BY <1>1 DEF MemoryIsNotBehind, Layers

\* The first of a sequence of layers that names a size, or none of them.
LEMMA FirstNamed ==
    ASSUME NEW says, NEW j \in Int, j \in 1..Len(says), says[j].size > 0,
           \A i \in 1..Len(says) : says[i].size > 0 => i >= j
    PROVE  LET named == {i \in 1..Len(says) : says[i].size > 0}
           IN named # {} /\ Min(named) = j
<1>1. PICK named : named = {i \in 1..Len(says) : says[i].size > 0}
  OBVIOUS
<1>2. j \in named /\ \A i \in named : i \in Int /\ j <= i
  BY <1>1
<1>3. Min(named) = j
  <2>1. PICK x : x = CHOOSE i \in named : \A y \in named : i <= y
    OBVIOUS
  <2>2. x \in named /\ \A y \in named : x <= y
    BY <1>2, <2>1
  <2>3. x = j
    <3>1. x \in Int /\ j <= x /\ x <= j
      BY <1>2, <2>2
    <3>. QED  BY <3>1
  <2>. QED  BY <2>1, <2>3 DEF Min
<1>. QED  BY <1>1, <1>2, <1>3

\* The size that the first of a sequence of layers names, 0 where none does.
SizeNamed(says) ==
    LET named == {i \in 1..Len(says) : says[i].size > 0}
    IN IF named = {} THEN 0 ELSE says[Min(named)].size

LEMMA SizeNamedIs ==
    ASSUME NEW says
    PROVE  /\ \A j \in 1..Len(says) :
                 says[j].size > 0 /\ (\A i \in 1..Len(says) : says[i].size > 0 => i >= j)
                     => SizeNamed(says) = says[j].size
           /\ (\A i \in 1..Len(says) : ~(says[i].size > 0)) => SizeNamed(says) = 0
<1>1. ASSUME NEW j \in 1..Len(says), says[j].size > 0, \A i \in 1..Len(says) : says[i].size > 0 => i >= j
      PROVE  SizeNamed(says) = says[j].size
  BY <1>1, FirstNamed DEF SizeNamed
<1>2. ASSUME \A i \in 1..Len(says) : ~(says[i].size > 0) PROVE SizeNamed(says) = 0
  BY <1>2 DEF SizeNamed
<1>. QED  BY <1>1, <1>2

\* A layer as the first of a sequence of layers has it, but for its size, which
\* is the first that one of them names.
Decided(l, says) ==
    /\ says # <<>> /\ Head(says) = says[1]
    /\ l.enabled = says[1].enabled /\ l.ttl = says[1].ttl /\ l.policy = says[1].policy
    /\ l.size = SizeNamed(says)

LEMMA OneDecides ==
    ASSUME NEW g \in LayerConfig
    PROVE  Decided(g, <<g>>)
<1>1. PICK says : says = <<g>>
  OBVIOUS
<1>2. Len(says) = 1 /\ says[1] = g /\ says # <<>> /\ Head(says) = says[1] /\ g.size \in Nat
  BY <1>1 DEF LayerConfig
<1>3. g.size = SizeNamed(says)
  BY <1>2, SizeNamedIs
<1>. QED  BY <1>1, <1>2, <1>3 DEF Decided

\* A layer laid over one that is decided is decided as well.
LEMMA TwoDecide ==
    ASSUME NEW o \in LayerConfig, NEW l \in LayerConfig, NEW q \in Seq(LayerConfig), Decided(l, q)
    PROVE  Decided([o EXCEPT !.size = IF @ = 0 THEN l.size ELSE @], <<o>> \o q)
<1>1. PICK says : says = <<o>> \o q
  OBVIOUS
<1>2. PICK n : n = Len(q) /\ n \in Nat
  BY LenProperties
<1>3. says \in Seq(LayerConfig) /\ Len(says) = n + 1 /\ says[1] = o
      /\ \A i \in 2..(n + 1) : says[i] = q[i - 1]
  BY <1>1, <1>2
<1>4. says # <<>> /\ Head(says) = says[1]
  BY <1>2, <1>3
<1>5. PICK r : r = [o EXCEPT !.size = IF @ = 0 THEN l.size ELSE @]
  OBVIOUS
<1>6. /\ r.enabled = o.enabled /\ r.ttl = o.ttl /\ r.policy = o.policy
      /\ r.size = IF o.size = 0 THEN l.size ELSE o.size
  BY <1>5 DEF LayerConfig
<1>7. o.size \in Nat /\ \A i \in 1..n : q[i].size \in Nat
  <2>1. \A i \in 1..n : q[i] \in LayerConfig
    BY <1>2, ElementOfSeq
  <2>. QED  BY <2>1 DEF LayerConfig
<1>8. CASE o.size # 0
  <2>1. SizeNamed(says) = says[1].size
    BY <1>2, <1>3, <1>7, <1>8, SizeNamedIs
  <2>. QED  BY <1>1, <1>3, <1>4, <1>5, <1>6, <1>8, <2>1 DEF Decided
<1>9. CASE o.size = 0
  <2>1. SizeNamed(says) = SizeNamed(q)
    <3>1. CASE \A i \in 1..n : q[i].size = 0
      <4>1. \A i \in 1..(n + 1) : ~(says[i].size > 0)
        BY <1>2, <1>3, <1>9, <3>1
      <4>2. SizeNamed(says) = 0
        BY <1>3, <4>1, SizeNamedIs
      <4>3. SizeNamed(q) = 0
        BY <1>2, <3>1, SizeNamedIs
      <4>. QED  BY <4>2, <4>3
    <3>2. CASE \E i \in 1..n : q[i].size # 0
      <4>1. PICK j \in 1..n : q[j].size > 0 /\ \A i \in 1..n : q[i].size > 0 => i >= j
        <5>1. PICK places : places = {i \in 1..n : q[i].size > 0}
          OBVIOUS
        <5>2. places \subseteq Nat /\ places # {}
          BY <1>2, <1>7, <3>2, <5>1
        <5>3. PICK j \in places : \A i \in places : j <= i
          BY <5>2, LeastElement
        <5>. QED  BY <1>2, <5>1, <5>3
      <4>2. SizeNamed(q) = q[j].size
        BY <1>2, <4>1, SizeNamedIs
      <4>3. /\ j + 1 \in 1..(n + 1) /\ says[j + 1].size > 0
            /\ \A i \in 1..(n + 1) : says[i].size > 0 => i >= j + 1
        <5>1. j + 1 \in 2..(n + 1) /\ (j + 1) - 1 = j
          BY <1>2
        <5>2. says[j + 1] = q[j]
          BY <1>3, <5>1
        <5>3. ASSUME NEW i \in 1..(n + 1), says[i].size > 0 PROVE i >= j + 1
          <6>1. i # 1
            BY <1>3, <1>9, <5>3
          <6>2. i \in 2..(n + 1) /\ i - 1 \in 1..n
            BY <1>2, <6>1
          <6>3. says[i] = q[i - 1]
            BY <1>3, <6>2
          <6>4. i - 1 >= j
            BY <4>1, <5>3, <6>2, <6>3
          <6>. QED  BY <6>2, <6>4
        <5>. QED  BY <4>1, <5>1, <5>2, <5>3
      <4>4. SizeNamed(says) = says[j + 1].size
        BY <1>3, <4>3, SizeNamedIs
      <4>5. says[j + 1] = q[j]
        <5>1. j + 1 \in 2..(n + 1) /\ (j + 1) - 1 = j
          BY <1>2
        <5>. QED  BY <1>3, <5>1
      <4>. QED  BY <4>2, <4>4, <4>5
    <3>. QED  BY <1>7, <3>1, <3>2
  <2>2. l.size = SizeNamed(q)
    BY DEF Decided
  <2>. QED  BY <1>1, <1>3, <1>4, <1>5, <1>6, <1>9, <2>1, <2>2 DEF Decided
<1>. QED  BY <1>8, <1>9

\* The layer of a scope is decided by what the configuration says of it.
LEMMA MostSpecificDecides ==
    ASSUME config \in Configs
    PROVE  TheMostSpecificDecides
<1>1. ASSUME NEW s \in Scopes, Effective(config, s) # NoLayer
      PROVE  /\ Effective(config, s).enabled
             /\ Decided(Effective(config, s), Append(Overrides(config, s), config.layer))
  <2>1. PICK a, w, g, l, says :
           /\ a = config.agents[s] /\ w = config.workflows[s] /\ g = config.layer
           /\ l = Effective(config, s) /\ says = Append(Overrides(config, s), config.layer)
    OBVIOUS
  <2>2. a \in LayerConfig \cup {NoLayer} /\ w \in LayerConfig \cup {NoLayer}
        /\ g \in LayerConfig /\ g # NoLayer
    BY <1>1, <2>1, CacheAssumption DEF Effective
  <2> DEFINE Over(o, x) == IF o = NoLayer THEN x ELSE [o EXCEPT !.size = IF @ = 0 THEN x.size ELSE @]
             There(x) == IF x = NoLayer THEN <<>> ELSE <<x>>
  <2>3. ASSUME NEW o \in LayerConfig \cup {NoLayer}, NEW x \in LayerConfig, NEW q \in Seq(LayerConfig),
               Decided(x, q)
        PROVE  /\ Over(o, x) \in LayerConfig /\ There(o) \o q \in Seq(LayerConfig)
               /\ Decided(Over(o, x), There(o) \o q)
    <3>1. CASE o = NoLayer
      BY <2>3, <3>1
    <3>2. CASE o # NoLayer
      <4>1. o \in LayerConfig /\ There(o) = <<o>>
        BY <3>2
      <4>2. Over(o, x) = [o EXCEPT !.size = IF @ = 0 THEN x.size ELSE @]
        BY <3>2
      <4>3. Over(o, x) \in LayerConfig
        BY <4>1, <4>2 DEF LayerConfig
      <4>. QED  BY <2>3, <4>1, <4>2, <4>3, TwoDecide
    <3>. QED  BY <3>1, <3>2
  <2>4. There(a) \in Seq(LayerConfig) /\ There(w) \in Seq(LayerConfig)
    BY <2>2
  <2>5. says = There(a) \o (There(w) \o <<g>>)
    <3>1. says = Append(There(a) \o There(w), g)
      BY <2>1 DEF Overrides
    <3>. QED  BY <2>2, <2>4, <3>1
  <2>6. l = Over(a, Over(w, g)) /\ Enabled(config, s)
    BY <1>1, <2>1 DEF Effective, Merge
  <2>7. Head(says).enabled
    <3>1. config.enabled /\ IF Overrides(config, s) # <<>> THEN Head(Overrides(config, s)).enabled ELSE g.enabled
      BY <2>1, <2>6 DEF Enabled
    <3>2. Overrides(config, s) = There(a) \o There(w)
      BY <2>1 DEF Overrides
    <3>. QED  BY <2>1, <2>2, <2>4, <3>1, <3>2
  <2> HIDE DEF Over, There
  <2>8. Decided(Over(w, g), There(w) \o <<g>>) /\ Over(w, g) \in LayerConfig
        /\ There(w) \o <<g>> \in Seq(LayerConfig)
    BY <2>2, <2>3, OneDecides
  <2>9. Decided(l, says)
    BY <2>2, <2>3, <2>5, <2>6, <2>8
  <2>. QED  BY <2>1, <2>7, <2>9 DEF Decided
<1>. QED  BY <1>1 DEF TheMostSpecificDecides, Decided, SizeNamed

\* The cache keeps its promise in every state: the layers keep what was used
\* last, or most; memory is not behind what a scope has seen; and the most
\* specific configuration decides.
THEOREM ResponsesAreAlwaysCached == CacheSpec => []ResponsesAreCached
<1>1. CacheInit => CacheInv
  BY CacheInvInit
<1>2. CacheInv /\ [CacheNext]_cacheVars => CacheInv'
  BY CacheInvNext
<1>3. CacheInv => ResponsesAreCached
  <2>. SUFFICES ASSUME CacheInv PROVE ResponsesAreCached
    OBVIOUS
  <2>1. CacheDataOK /\ LayersKeep /\ config \in Configs
    BY DEF CacheInv, CacheDataOK
  <2>. QED  BY <2>1, UsedAreKept, NothingIsBehind, MostSpecificDecides DEF ResponsesAreCached
<1>. QED  BY <1>1, <1>2, <1>3, PTL DEF CacheSpec
=============================================================================

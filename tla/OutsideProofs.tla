--------------------------- MODULE OutsideProofs ---------------------------
(***************************************************************************)
(* Proofs about what meets the system from outside, for all values of the  *)
(* constants of its parts: the connections and the mailbox                 *)
(* (what is saved, and what is left of it, whatever calls meet), the tools *)
(* of a run (what its agents have, and what is closed after), and the two  *)
(* scripts of a chatbot page (what a visitor asked for, and what is heard).*)
(***************************************************************************)
EXTENDS MCOutside, SequenceLemmas

-----------------------------------------------------------------------------
(***************************************************************************)
(* Connections and the mailbox (Connections)                               *)
(***************************************************************************)

\* The keys that may have encrypted something.
KnownKeys == IF configured THEN {Configured} ELSE 2..keys

\* What is known of the row of an id, and which ids were given.
RowIsSound(i) ==
    accounts[i] # NoRow =>
        /\ i \in 1..spent /\ i \notin deleted
        /\ accounts[i] \in Rows
        /\ accounts[i].key \in KnownKeys
        /\ accounts[i].kind = "token" => accounts[i].secret \in worked
        /\ accounts[i].kind = "oauth" => accounts[i].secret \in 1..grants

\* The way of a call to its next step.
IdIsSound(k) ==
    /\ k.does \in {"test", "build"} => k.id \in 1..spent
    /\ k.at \in {"read", "record"} => k.does \in {"test", "build"}
    /\ k.at = "verify" => k.does \in {"create", "test"}
    /\ k.at = "write" => /\ k.id = NoRow \/ k.id \in 1..spent
                         /\ k.id # NoRow /\ accounts[k.id] # NoRow => accounts[k.id].kind = "oauth"
    /\ k.out = "gone" => k.does = "build" /\ k.at = "read" /\ accounts[k.id] = NoRow

SecretIsSound(k) ==
    /\ k.at \in {"key", "make"} => k.then \in {"insert", "open"}
    /\ (k.at \in {"key", "make"} /\ k.then = "insert") \/ k.at = "insert" =>
           k.does = "create" /\ k.secret \in worked /\ k.secret \in ServiceTokens
    /\ k.does = "create" /\ k.at # "done" => k.secret \in ServiceTokens
    /\ k.does = "use" /\ k.at # "done" => k.secret \in 1..grants
    /\ k.at \in {"refresh", "seek"} => k.does = "use"
    /\ k.at = "write" => k.secret \in 1..grants

KeyIsSound(k) ==
    /\ k.key \in KnownKeys \cup {NoKey}
    /\ k.at \in {"insert", "write", "open"} => k.key \in KnownKeys
    /\ (k.at \in {"key", "make"} /\ k.then = "open") \/ k.at = "open" =>
           k.does \in {"test", "build", "use"} /\ k.sealed \in KnownKeys
    /\ k.at \in {"open", "refresh", "seek"} => keptKey # NoKey
    /\ k.at = "make" => ~configured
    /\ k.at = "record" => k.out \in {"ok", "failed"}
    /\ k.out = "unopened" => ~configured

CallIsSound(k) == IdIsSound(k) /\ SecretIsSound(k) /\ KeyIsSound(k)

Deeds == {"nothing", "create", "test", "build", "connect", "use", "disconnect"}
Steps == {"done", "verify", "key", "make", "insert", "read", "record", "open", "refresh", "seek",
          "write", "revoke", "forget"}

Outcomes == {"none", "ok", "failed", "gone", "unopened", "toolless"}

CallType == [does : Deeds, at : Steps, then : {"none", "insert", "open"}, id : RowIds \cup {NoRow},
          secret : ServiceTokens \cup Nat, key : Nat, sealed : Nat,
          out : Outcomes]

ConnectionsTypeOK ==
    /\ spent \in 0..MaxRows /\ deleted \subseteq 1..spent
    /\ accounts \in [RowIds -> Rows \cup {NoRow}]
    /\ configured \in BOOLEAN /\ keys \in Nat \ {0}
    /\ keptKey \in KnownKeys \cup {NoKey}
    /\ environment \in KnownKeys \cup {NoKey} /\ (configured => environment = Configured)
    /\ grants \in Nat
    /\ call \in [Callers -> CallType]

RowsAreSound == \A i \in RowIds : RowIsSound(i)

CallsAreSound == \A c \in Callers : CallIsSound(call[c])

ConnectionsInv == ConnectionsTypeOK /\ RowsAreSound /\ CallsAreSound /\ GmailIsAsAsked

\* What every step but a restart leaves to the calls beside it.
LaterSteps ==
    /\ configured' = configured /\ keys <= keys' /\ keys' \in Nat
    /\ worked \subseteq worked' /\ grants <= grants' /\ grants' \in Nat
    /\ spent <= spent' /\ spent' \in Nat
    /\ keptKey # NoKey => keptKey' # NoKey
    /\ \A i \in 1..spent : accounts'[i] # NoRow => accounts[i] # NoRow /\ accounts'[i].kind = accounts[i].kind

\* A step that leaves the table alone.
TableStays ==
    /\ UNCHANGED <<tableVars, intended>>
    /\ configured' = configured /\ keys <= keys' /\ keys' \in Nat
    /\ worked \subseteq worked' /\ grants <= grants' /\ grants' \in Nat

LEMMA KeysStayKnown ==
    ASSUME configured' = configured, keys <= keys', keys \in Nat, keys' \in Nat
    PROVE  KnownKeys \subseteq KnownKeys'
  BY DEF KnownKeys

LEMMA KnownKeysAreKeys == ConnectionsTypeOK => KnownKeys \subseteq Nat /\ NoKey \notin KnownKeys
  BY DEF ConnectionsTypeOK, KnownKeys, Configured, NoKey

\* A call that goes on is what it was to the others.
LEMMA SoundCallsStaySound ==
    ASSUME NEW k, ConnectionsTypeOK, LaterSteps, CallIsSound(k)
    PROVE  CallIsSound(k)'
<1>0. IdIsSound(k) /\ spent \in Nat /\ 1..spent \subseteq 1..spent'
  BY DEF CallIsSound, LaterSteps, ConnectionsTypeOK
<1>1. IdIsSound(k)'
  <2>1. ASSUME k.at = "write", accounts'[k.id] # NoRow, k.id # NoRow
        PROVE  accounts'[k.id].kind = "oauth"
    <3>1. k.id \in 1..spent
      BY <2>1, <1>0 DEF IdIsSound
    <3>. QED  BY <2>1, <3>1, <1>0 DEF IdIsSound, LaterSteps
  <2>2. ASSUME k.out = "gone"
        PROVE  accounts'[k.id] = NoRow
    BY <2>2, <1>0 DEF IdIsSound, LaterSteps
  <2>. QED  BY <1>0, <2>1, <2>2 DEF IdIsSound
<1>2. SecretIsSound(k)'
  BY DEF CallIsSound, SecretIsSound, LaterSteps, ConnectionsTypeOK
<1>3. KnownKeys \subseteq KnownKeys'
  BY KeysStayKnown DEF LaterSteps, ConnectionsTypeOK
<1>4. KeyIsSound(k)'
  BY <1>3 DEF CallIsSound, KeyIsSound, LaterSteps
<1>. QED  BY <1>1, <1>2, <1>4 DEF CallIsSound

LEMMA SoundByName ==
    ASSUME NEW d, NEW k, call'[d] = k, CallIsSound(k)'
    PROVE  CallIsSound(call[d])'
  BY DEF CallIsSound, IdIsSound, SecretIsSound, KeyIsSound

\* A step of one call.
LEMMA CallsStaySound ==
    ASSUME ConnectionsTypeOK, CallsAreSound, LaterSteps, NEW c \in Callers, NEW k \in CallType,
           CallIsSound(k)', call' = [call EXCEPT ![c] = k]
    PROVE  CallsAreSound' /\ (call \in [Callers -> CallType])'
<1>1. ASSUME NEW d \in Callers
      PROVE  CallIsSound(call[d])'
  <2>1. CASE d = c
    <3>1. call'[d] = k
      BY <2>1 DEF ConnectionsTypeOK
    <3>. QED  BY <3>1, SoundByName
  <2>2. CASE d # c
    <3>1. PICK l : l = call[d]
      OBVIOUS
    <3>2. CallIsSound(l)
      BY <3>1 DEF CallsAreSound
    <3>3. CallIsSound(l)'
      BY <3>2, SoundCallsStaySound
    <3>4. call'[d] = l
      BY <2>2, <3>1 DEF ConnectionsTypeOK
    <3>. QED  BY <3>3, <3>4, SoundByName
  <2>. QED  BY <2>1, <2>2
<1>2. (call \in [Callers -> CallType])'
  BY DEF ConnectionsTypeOK
<1>. QED  BY <1>1, <1>2 DEF CallsAreSound

\* A call that ends leaves nothing to keep.
LEMMA NoCallIsCall == NoCall \in CallType
  BY DEF NoCall, CallType, Deeds, Steps, Outcomes, NoGrant, NoKey

LEMMA NoCallIsSound == CallIsSound(NoCall)
  BY DEF NoCall, CallIsSound, IdIsSound, SecretIsSound, KeyIsSound, NoGrant, NoKey

LEMMA EndedCallIsSound == CallIsSound(NoCall)'
  BY DEF NoCall, CallIsSound, IdIsSound, SecretIsSound, KeyIsSound, NoGrant, NoKey

\* Rows stay what they were while nothing is written.
LEMMA TableStaysSound ==
    ASSUME ConnectionsInv, TableStays
    PROVE  /\ RowsAreSound' /\ GmailIsAsAsked'
           /\ (spent \in 0..MaxRows /\ deleted \subseteq 1..spent)'
           /\ (accounts \in [RowIds -> Rows \cup {NoRow}])'
<1>1. accounts' = accounts /\ spent' = spent /\ deleted' = deleted /\ intended' = intended
  BY DEF TableStays, tableVars
<1>2. KnownKeys \subseteq KnownKeys'
  BY KeysStayKnown DEF TableStays, ConnectionsInv, ConnectionsTypeOK
<1>3. RowsAreSound'
  BY <1>1, <1>2 DEF RowsAreSound, RowIsSound, ConnectionsInv, ConnectionsTypeOK, TableStays
<1>4. GmailIsAsAsked'
  BY <1>1 DEF GmailIsAsAsked, Gmail, ConnectionsInv
<1>. QED  BY <1>1, <1>3, <1>4 DEF ConnectionsInv, ConnectionsTypeOK

LEMMA ConnectionsInitSound == ConnectionsInit => ConnectionsInv
<1> SUFFICES ASSUME ConnectionsInit PROVE ConnectionsInv
  OBVIOUS
<1>1. ConnectionsTypeOK
  BY ConnectionsAssumption, NoCallIsCall DEF ConnectionsInit, ConnectionsTypeOK, KnownKeys, Configured, NoKey,
     NoGrant, ConnectionsAssumption
<1>2. RowsAreSound
  BY DEF ConnectionsInit, RowsAreSound, RowIsSound
<1>3. CallsAreSound
  BY <1>1, NoCallIsSound DEF ConnectionsInit, CallsAreSound
<1>4. GmailIsAsAsked
  BY DEF ConnectionsInit, GmailIsAsAsked, Gmail, NoGrant
<1>. QED  BY <1>1, <1>2, <1>3, <1>4 DEF ConnectionsInv

\* A step that leaves the table alone preserves the invariant, if the call that takes
\* it stays sound.
LEMMA QuietStep ==
    ASSUME ConnectionsInv, TableStays, NEW c \in Callers, NEW k \in CallType, CallIsSound(k)',
           call' = [call EXCEPT ![c] = k], keptKey # NoKey => keptKey' # NoKey,
           keptKey' \in KnownKeys' \cup {NoKey}, environment' \in KnownKeys' \cup {NoKey},
           configured => environment' = Configured
    PROVE  ConnectionsInv'
<1>1. LaterSteps
  BY DEF LaterSteps, TableStays, tableVars, ConnectionsInv, ConnectionsTypeOK
<1>2. CallsAreSound' /\ (call \in [Callers -> CallType])'
  BY <1>1, CallsStaySound DEF ConnectionsInv
<1>3. /\ RowsAreSound' /\ GmailIsAsAsked'
      /\ (spent \in 0..MaxRows /\ deleted \subseteq 1..spent)'
      /\ (accounts \in [RowIds -> Rows \cup {NoRow}])'
  BY TableStaysSound
<1>4. ConnectionsTypeOK'
  BY <1>2, <1>3 DEF TableStays, ConnectionsInv, ConnectionsTypeOK
<1>. QED  BY <1>2, <1>3, <1>4 DEF ConnectionsInv

\* A step of a call alone.
Alone == UNCHANGED <<tableVars, keyVars, farVars, intended>>

LEMMA AloneStep ==
    ASSUME ConnectionsInv, Alone, NEW c \in Callers, NEW k \in CallType, CallIsSound(k),
           call' = [call EXCEPT ![c] = k]
    PROVE  ConnectionsInv'
<1>1. TableStays /\ keptKey' = keptKey /\ environment' = environment /\ KnownKeys' = KnownKeys
  BY DEF Alone, TableStays, keyVars, farVars, ConnectionsInv, ConnectionsTypeOK, KnownKeys
<1>2. LaterSteps
  BY <1>1 DEF LaterSteps, TableStays, tableVars, ConnectionsInv, ConnectionsTypeOK
<1>3. CallIsSound(k)'
  BY <1>2, SoundCallsStaySound DEF ConnectionsInv
<1>. QED  BY <1>1, <1>3, QuietStep DEF ConnectionsInv, ConnectionsTypeOK

LEMMA TakesKeyKeeps == ASSUME ConnectionsInv, NEW c \in Callers, TakesKey(c) PROVE ConnectionsInv'
<1> DEFINE found == IF KeyAtHand # NoKey THEN KeyAtHand ELSE environment
<1>1. PICK l \in CallType : l = call[c] /\ CallIsSound(l)
  BY DEF ConnectionsInv, ConnectionsTypeOK, CallsAreSound
<1>2. l.at = "key"
  BY <1>1 DEF TakesKey
<1>3. KnownKeys \subseteq Nat /\ NoKey \notin KnownKeys /\ found \in KnownKeys \cup {NoKey}
  BY KnownKeysAreKeys DEF ConnectionsInv, ConnectionsTypeOK, KeyAtHand, KnownKeys
<1>4. CASE found = NoKey
  <2>1. ~configured
    BY <1>4 DEF ConnectionsInv, ConnectionsTypeOK, KeyAtHand, Configured, NoKey
  <2>2. PICK k : k = [l EXCEPT !.at = "make"]
    OBVIOUS
  <2>3. k \in CallType
    BY <1>1, <2>2 DEF CallType, Steps
  <2>4. CallIsSound(k)
    BY <1>1, <1>2, <2>1, <2>2 DEF CallIsSound, IdIsSound, SecretIsSound, KeyIsSound, CallType
  <2>5. call' = [call EXCEPT ![c] = k] /\ Alone
    BY <1>1, <1>4, <2>2 DEF TakesKey, Goes, Alone, keyVars, ConnectionsInv, ConnectionsTypeOK
  <2>. QED  BY <2>3, <2>4, <2>5, AloneStep
<1>5. CASE found # NoKey
  <2>1. PICK f \in KnownKeys : f = found
    BY <1>3, <1>5
  <2>2. PICK k : k = [l EXCEPT !.at = l.then, !.key = f]
    OBVIOUS
  <2>3. k \in CallType
    <3>1. l.then \in Steps
      BY <1>1, <1>2 DEF CallIsSound, SecretIsSound, Steps
    <3>2. f \in Nat
      BY <1>3, <2>1
    <3>. QED  BY <2>2, <3>1, <3>2 DEF CallType
  <2>4. /\ call' = [call EXCEPT ![c] = k] /\ keptKey' = f /\ configured' = configured /\ keys' = keys
        /\ environment' = environment /\ worked' = worked /\ grants' = grants /\ UNCHANGED <<tableVars, intended>>
    BY <1>1, <1>5, <2>1, <2>2 DEF TakesKey, keyVars, farVars, ConnectionsInv, ConnectionsTypeOK
  <2>5. TableStays /\ KnownKeys' = KnownKeys
    BY <2>4 DEF TableStays, KnownKeys, ConnectionsInv, ConnectionsTypeOK
  <2>6. f # NoKey
    BY <1>3
  <2>7. IdIsSound(k)'
    BY <1>1, <1>2, <2>2, <2>4 DEF CallIsSound, IdIsSound, SecretIsSound, CallType, tableVars
  <2>8. SecretIsSound(k)'
    BY <1>1, <1>2, <2>2, <2>4 DEF CallIsSound, SecretIsSound, CallType
  <2>9. KeyIsSound(k)'
    BY <1>1, <1>2, <2>2, <2>4, <2>5, <2>6 DEF CallIsSound, KeyIsSound, SecretIsSound, CallType
  <2>. QED  BY <2>3, <2>4, <2>5, <2>6, <2>7, <2>8, <2>9, QuietStep DEF CallIsSound, ConnectionsInv, ConnectionsTypeOK
<1>. QED  BY <1>4, <1>5

LEMMA MakesKeyKeeps == ASSUME ConnectionsInv, NEW c \in Callers, MakesKey(c) PROVE ConnectionsInv'
<1>1. PICK l \in CallType : l = call[c] /\ CallIsSound(l)
  BY DEF ConnectionsInv, ConnectionsTypeOK, CallsAreSound
<1>2. l.at = "make" /\ ~configured
  BY <1>1 DEF MakesKey, CallIsSound, KeyIsSound
<1>3. PICK f \in Nat : f = keys + 1 /\ f # NoKey
  BY DEF ConnectionsInv, ConnectionsTypeOK, NoKey
<1>4. PICK k : k = [l EXCEPT !.at = l.then, !.key = f]
  OBVIOUS
<1>5. k \in CallType
  BY <1>1, <1>2, <1>3, <1>4 DEF CallType, Steps, CallIsSound, SecretIsSound
<1>6. /\ call' = [call EXCEPT ![c] = k] /\ keptKey' = f /\ configured' = configured /\ keys' = f
      /\ environment' = f /\ worked' = worked /\ grants' = grants /\ UNCHANGED <<tableVars, intended>>
  BY <1>1, <1>3, <1>4 DEF MakesKey, farVars, ConnectionsInv, ConnectionsTypeOK
<1>7. TableStays /\ f \in KnownKeys' /\ KnownKeys \subseteq KnownKeys'
  BY <1>2, <1>3, <1>6 DEF TableStays, KnownKeys, ConnectionsInv, ConnectionsTypeOK
<1>8. IdIsSound(k)'
  BY <1>1, <1>2, <1>4, <1>6 DEF CallIsSound, IdIsSound, SecretIsSound, CallType, tableVars
<1>9. SecretIsSound(k)'
  BY <1>1, <1>2, <1>4, <1>6 DEF CallIsSound, SecretIsSound, CallType
<1>10. KeyIsSound(k)'
  BY <1>1, <1>2, <1>3, <1>4, <1>6, <1>7 DEF CallIsSound, KeyIsSound, SecretIsSound, CallType
<1>11. CallIsSound(k)'
  BY <1>8, <1>9, <1>10 DEF CallIsSound
<1>. QED  BY <1>2, <1>3, <1>5, <1>6, <1>7, <1>11, QuietStep

LEMMA CreateBeginsKeeps == ASSUME ConnectionsInv, NEW c \in Callers, CreateBegins(c) PROVE ConnectionsInv'
<1>1. PICK t \in ServiceTokens : Starts(c, [NoCall EXCEPT !.does = "create", !.at = "verify", !.secret = t])
  BY DEF CreateBegins
<1>2. PICK k : k = [NoCall EXCEPT !.does = "create", !.at = "verify", !.secret = t]
  OBVIOUS
<1>3. k \in CallType
  BY <1>2, NoCallIsCall DEF CallType, Deeds, Steps, Outcomes
<1>4. CallIsSound(k)
  BY <1>2 DEF NoCall, CallIsSound, IdIsSound, SecretIsSound, KeyIsSound, NoKey
<1>. QED  BY <1>1, <1>2, <1>3, <1>4, AloneStep DEF CreateBegins, Starts, Alone

LEMMA TestBeginsKeeps == ASSUME ConnectionsInv, NEW c \in Callers, TestBegins(c) PROVE ConnectionsInv'
<1>1. PICK i \in RowIds : accounts[i] # NoRow /\ Starts(c, [NoCall EXCEPT !.does = "test", !.at = "read", !.id = i])
  BY DEF TestBegins
<1>2. PICK k : k = [NoCall EXCEPT !.does = "test", !.at = "read", !.id = i]
  OBVIOUS
<1>3. k \in CallType /\ i \in 1..spent
  BY <1>1, <1>2, NoCallIsCall DEF CallType, Deeds, Steps, Outcomes, ConnectionsInv, RowsAreSound, RowIsSound
<1>4. CallIsSound(k)
  BY <1>2, <1>3 DEF NoCall, CallIsSound, IdIsSound, SecretIsSound, KeyIsSound, NoKey
<1>. QED  BY <1>1, <1>2, <1>3, <1>4, AloneStep DEF TestBegins, Starts, Alone

LEMMA BuildBeginsKeeps == ASSUME ConnectionsInv, NEW c \in Callers, BuildBegins(c) PROVE ConnectionsInv'
<1>1. PICK i \in 1..spent : Starts(c, [NoCall EXCEPT !.does = "build", !.at = "read", !.id = i,
                                                    !.out = IF accounts[i] = NoRow THEN "gone" ELSE "none"])
  BY DEF BuildBegins
<1>2. PICK out \in {"gone", "none"} : out = IF accounts[i] = NoRow THEN "gone" ELSE "none"
  OBVIOUS
<1>3. PICK k : k = [NoCall EXCEPT !.does = "build", !.at = "read", !.id = i, !.out = out]
  OBVIOUS
<1>4. i \in RowIds
  BY ConnectionsAssumption DEF ConnectionsInv, ConnectionsTypeOK, RowIds, ConnectionsAssumption
<1>5. k \in CallType
  <2>1. out \in Outcomes /\ "read" \in Steps /\ "build" \in Deeds /\ i \in RowIds \cup {NoRow}
    BY <1>4 DEF Deeds, Steps, Outcomes
  <2>. QED  BY <1>3, <2>1, NoCallIsCall DEF CallType
<1>6. CallIsSound(k)
  BY <1>2, <1>3 DEF NoCall, CallIsSound, IdIsSound, SecretIsSound, KeyIsSound, NoKey
<1>7. call' = [call EXCEPT ![c] = k] /\ Alone
  BY <1>1, <1>2, <1>3 DEF BuildBegins, Starts, Alone
<1>. QED  BY <1>5, <1>6, <1>7, AloneStep

LEMMA UseBeginsKeeps == ASSUME ConnectionsInv, NEW c \in Callers, UseBegins(c) PROVE ConnectionsInv'
<1>1. PICK i \in Gmail : Starts(c, [NoCall EXCEPT !.does = "use", !.at = "key", !.then = "open",
                                       !.secret = accounts[i].secret, !.sealed = accounts[i].key])
  BY DEF UseBegins
<1>2. PICK row \in Rows : row = accounts[i] /\ row.key \in KnownKeys /\ row.secret \in 1..grants
  BY DEF Gmail, ConnectionsInv, RowsAreSound, RowIsSound
<1>3. PICK k : k = [NoCall EXCEPT !.does = "use", !.at = "key", !.then = "open",
                                  !.secret = row.secret, !.sealed = row.key]
  OBVIOUS
<1>4. k \in CallType
  <2>1. row.secret \in ServiceTokens \cup Nat /\ row.key \in Nat
    BY <1>2 DEF Rows
  <2>. QED  BY <1>3, <2>1, NoCallIsCall DEF CallType, Deeds, Steps, Outcomes
<1>5. CallIsSound(k)
  BY <1>2, <1>3 DEF NoCall, CallIsSound, IdIsSound, SecretIsSound, KeyIsSound, NoKey
<1>6. call' = [call EXCEPT ![c] = k] /\ Alone
  BY <1>1, <1>2, <1>3 DEF UseBegins, Starts, Alone
<1>. QED  BY <1>4, <1>5, <1>6, AloneStep

\* A call that goes or ends, with nothing else.
LEMMA EndsKeeps == ASSUME ConnectionsInv, NEW c \in Callers, Ends(c), Alone PROVE ConnectionsInv'
<1>1. PICK k : k = NoCall
  OBVIOUS
<1>2. k \in CallType /\ CallIsSound(k) /\ call' = [call EXCEPT ![c] = k]
  BY <1>1, NoCallIsCall, NoCallIsSound DEF Ends
<1>. QED  BY <1>2, AloneStep

LEMMA EndsAsKeeps ==
    ASSUME ConnectionsInv, NEW c \in Callers, Alone, NEW out \in {"unopened", "toolless"},
           EndsAs(c, out), out = "unopened" => ~configured
    PROVE  ConnectionsInv'
<1>1. PICK k : k = [NoCall EXCEPT !.out = out]
  OBVIOUS
<1>2. k \in CallType
  BY <1>1, NoCallIsCall DEF CallType, Outcomes
<1>3. CallIsSound(k)
  BY <1>1 DEF NoCall, CallIsSound, IdIsSound, SecretIsSound, KeyIsSound, NoGrant, NoKey
<1>4. call' = [call EXCEPT ![c] = k]
  BY <1>1 DEF EndsAs
<1>. QED  BY <1>2, <1>3, <1>4, AloneStep

LEMMA MakesToolsKeeps == ASSUME ConnectionsInv, NEW c \in Callers, MakesTools(c), Alone PROVE ConnectionsInv'
<1>1. CASE Ends(c)
  BY <1>1, EndsKeeps
<1>2. CASE EndsAs(c, "toolless")
  BY <1>2, EndsAsKeeps
<1>. QED  BY <1>1, <1>2 DEF MakesTools

LEMMA DatabaseFailsKeeps == ASSUME ConnectionsInv, NEW c \in Callers, DatabaseFails(c) PROVE ConnectionsInv'
<1>1. Alone
  BY DEF DatabaseFails, Alone
<1>2. CASE Ends(c)
  BY <1>1, <1>2, EndsKeeps
<1>3. CASE EndsAs(c, "toolless")
  BY <1>1, <1>3, EndsAsKeeps
<1>. QED  BY <1>2, <1>3 DEF DatabaseFails

LEMMA ReadsSecretsKeeps == ASSUME ConnectionsInv, NEW c \in Callers, ReadsSecrets(c) PROVE ConnectionsInv'
<1>1. PICK l \in CallType : l = call[c] /\ CallIsSound(l)
  BY DEF ConnectionsInv, ConnectionsTypeOK, CallsAreSound
<1>2. l.at = "read" /\ Alone /\ l.does \in {"test", "build"} /\ l.id \in RowIds
  BY <1>1, ConnectionsAssumption DEF ReadsSecrets, Alone, CallIsSound, IdIsSound, ConnectionsInv, ConnectionsTypeOK,
     RowIds, ConnectionsAssumption
<1>3. PICK row \in Rows \cup {NoRow} : row = accounts[l.id]
  BY <1>2 DEF ConnectionsInv, ConnectionsTypeOK
<1>4. CASE row = NoRow \/ row.kind = "oauth"
  <2>1. Ends(c) \/ MakesTools(c)
    BY <1>1, <1>3, <1>4 DEF ReadsSecrets
  <2>. QED  BY <1>2, <2>1, EndsKeeps, MakesToolsKeeps
<1>5. CASE ~(row = NoRow \/ row.kind = "oauth")
  <2>1. PICK k : k = [l EXCEPT !.at = "key", !.then = "open", !.secret = row.secret, !.sealed = row.key]
    OBVIOUS
  <2>2. row \in Rows /\ row.key \in KnownKeys
    BY <1>2, <1>3, <1>5 DEF ConnectionsInv, RowsAreSound, RowIsSound
  <2>3. k \in CallType
    <3>1. row.secret \in ServiceTokens \cup Nat /\ row.key \in Nat
      BY <2>2 DEF Rows
    <3>2. "key" \in Steps
      BY DEF Steps
    <3>. QED  BY <2>1, <3>1, <3>2 DEF CallType
  <2>4. CallIsSound(k)
    BY <1>1, <1>2, <1>3, <1>5, <2>1, <2>2 DEF CallIsSound, IdIsSound, SecretIsSound, KeyIsSound, CallType
  <2>5. call' = [call EXCEPT ![c] = k]
    BY <1>1, <1>3, <1>5, <2>1 DEF ReadsSecrets, ConnectionsInv, ConnectionsTypeOK
  <2>. QED  BY <1>2, <2>3, <2>4, <2>5, AloneStep
<1>. QED  BY <1>4, <1>5

LEMMA OpensKeeps == ASSUME ConnectionsInv, NEW c \in Callers, Opens(c) PROVE ConnectionsInv'
<1>1. PICK l \in CallType : l = call[c] /\ CallIsSound(l)
  BY DEF ConnectionsInv, ConnectionsTypeOK, CallsAreSound
<1>2. /\ l.at = "open" /\ Alone /\ l.key \in KnownKeys /\ l.sealed \in KnownKeys
      /\ l.does \in {"test", "build", "use"} /\ keptKey # NoKey
  BY <1>1 DEF Opens, Alone, CallIsSound, KeyIsSound
<1>3. CASE l.key # l.sealed
  <2>1. ~configured
    BY <1>2, <1>3 DEF KnownKeys
  <2>2. Ends(c) \/ EndsAs(c, "unopened")
    BY <1>1, <1>3 DEF Opens
  <2>. QED  BY <1>2, <2>1, <2>2, EndsKeeps, EndsAsKeeps
<1>4. CASE l.key = l.sealed /\ l.does = "build"
  <2>1. MakesTools(c)
    BY <1>1, <1>4 DEF Opens
  <2>. QED  BY <1>2, <2>1, MakesToolsKeeps
<1>5. CASE l.key = l.sealed /\ l.does # "build"
  <2>1. PICK k : k = [l EXCEPT !.at = IF l.does = "test" THEN "verify" ELSE "refresh"]
    OBVIOUS
  <2>2. k \in CallType
    BY <1>1, <2>1 DEF CallType, Steps
  <2>3. CallIsSound(k)
    BY <1>1, <1>2, <1>5, <2>1 DEF CallIsSound, IdIsSound, SecretIsSound, KeyIsSound, CallType
  <2>4. call' = [call EXCEPT ![c] = k]
    BY <1>1, <1>5, <2>1 DEF Opens, Goes, ConnectionsInv, ConnectionsTypeOK
  <2>. QED  BY <1>2, <2>2, <2>3, <2>4, AloneStep
<1>. QED  BY <1>3, <1>4, <1>5

LEMMA RefreshesKeeps == ASSUME ConnectionsInv, NEW c \in Callers, Refreshes(c) PROVE ConnectionsInv'
<1>1. PICK l \in CallType : l = call[c] /\ CallIsSound(l)
  BY DEF ConnectionsInv, ConnectionsTypeOK, CallsAreSound
<1>2. l.at = "refresh" /\ Alone
  BY <1>1 DEF Refreshes, Alone
<1>3. CASE Ends(c)
  BY <1>2, <1>3, EndsKeeps
<1>4. CASE Goes(c, "seek")
  <2>1. PICK k : k = [l EXCEPT !.at = "seek"]
    OBVIOUS
  <2>2. k \in CallType
    BY <1>1, <2>1 DEF CallType, Steps
  <2>3. CallIsSound(k)
    BY <1>1, <1>2, <2>1 DEF CallIsSound, IdIsSound, SecretIsSound, KeyIsSound, CallType
  <2>4. call' = [call EXCEPT ![c] = k]
    BY <1>1, <1>4, <2>1 DEF Goes, ConnectionsInv, ConnectionsTypeOK
  <2>. QED  BY <1>2, <2>2, <2>3, <2>4, AloneStep
<1>. QED  BY <1>3, <1>4 DEF Refreshes

\* What a call may find of the Gmail account.
LEMMA FoundGmail ==
    ASSUME ConnectionsInv, NEW i \in IF Gmail = {} THEN {NoRow} ELSE Gmail
    PROVE  /\ i \in RowIds \cup {NoRow} /\ (i = NoRow \/ i \in 1..spent)
           /\ (i # NoRow => i \in Gmail)
  BY DEF Gmail, ConnectionsInv, RowsAreSound, RowIsSound

LEMMA SeeksKeeps == ASSUME ConnectionsInv, NEW c \in Callers, Seeks(c) PROVE ConnectionsInv'
<1>1. PICK l \in CallType : l = call[c] /\ CallIsSound(l)
  BY DEF ConnectionsInv, ConnectionsTypeOK, CallsAreSound
<1>2. l.at = "seek" /\ Alone /\ l.does = "use" /\ keptKey # NoKey /\ l.secret \in 1..grants
  BY <1>1 DEF Seeks, Alone, CallIsSound, SecretIsSound, KeyIsSound
<1>3. PICK i \in IF Gmail = {} THEN {NoRow} ELSE Gmail :
          call' = [call EXCEPT ![c].at = "write", ![c].id = i, ![c].key = KeyAtHand]
  BY DEF Seeks
<1>4. /\ i \in RowIds \cup {NoRow} /\ (i = NoRow \/ i \in 1..spent)
      /\ (i # NoRow => i \in Gmail)
  BY FoundGmail
<1>5. PICK f \in KnownKeys : f = KeyAtHand
  BY <1>2 DEF KeyAtHand, ConnectionsInv, ConnectionsTypeOK
<1>6. PICK k : k = [l EXCEPT !.at = "write", !.id = i, !.key = f]
  OBVIOUS
<1>7. k \in CallType
  <2>1. f \in Nat /\ "write" \in Steps
    BY <1>5, KnownKeysAreKeys DEF Steps, ConnectionsInv
  <2>. QED  BY <1>4, <1>6, <2>1 DEF CallType
<1>8. CallIsSound(k)
  BY <1>1, <1>2, <1>4, <1>5, <1>6 DEF CallIsSound, IdIsSound, SecretIsSound, KeyIsSound, CallType, Gmail
<1>9. call' = [call EXCEPT ![c] = k]
  BY <1>1, <1>3, <1>5, <1>6 DEF ConnectionsInv, ConnectionsTypeOK
<1>. QED  BY <1>2, <1>7, <1>8, <1>9, AloneStep

LEMMA RevokesKeeps == ASSUME ConnectionsInv, NEW c \in Callers, Revokes(c) PROVE ConnectionsInv'
<1>1. PICK l \in CallType : l = call[c] /\ CallIsSound(l)
  BY DEF ConnectionsInv, ConnectionsTypeOK, CallsAreSound
<1>2. l.at = "revoke" /\ Alone
  BY <1>1 DEF Revokes, Alone
<1>3. PICK k : k = [l EXCEPT !.at = "forget"]
  OBVIOUS
<1>4. k \in CallType
  BY <1>1, <1>3 DEF CallType, Steps
<1>5. CallIsSound(k)
  BY <1>1, <1>2, <1>3 DEF CallIsSound, IdIsSound, SecretIsSound, KeyIsSound, CallType
<1>6. call' = [call EXCEPT ![c] = k]
  BY <1>1, <1>3 DEF Revokes, Goes, ConnectionsInv, ConnectionsTypeOK
<1>. QED  BY <1>2, <1>4, <1>5, <1>6, AloneStep

LEMMA VerifiesKeeps == ASSUME ConnectionsInv, NEW c \in Callers, Verifies(c) PROVE ConnectionsInv'
<1>1. PICK l \in CallType : l = call[c] /\ CallIsSound(l)
  BY DEF ConnectionsInv, ConnectionsTypeOK, CallsAreSound
<1>2. l.at = "verify" /\ l.does \in {"create", "test"} /\ UNCHANGED <<grants, tableVars, keyVars, intended>>
  BY <1>1 DEF Verifies, CallIsSound, IdIsSound
<1>3. ASSUME NEW step \in {"key", "record"}, NEW out \in {"ok", "failed"},
             step = (IF l.does = "create" THEN "key" ELSE "record"), NEW then \in {"none", "insert", "open"},
             step = "key" => then = "insert" /\ l.secret \in worked', worked \subseteq worked',
             call' = [call EXCEPT ![c] = [l EXCEPT !.at = step, !.then = then, !.out = out]]
      PROVE  ConnectionsInv'
  <2>1. PICK k : k = [l EXCEPT !.at = step, !.then = then, !.out = out]
    OBVIOUS
  <2>2. k \in CallType
    <3>1. step \in Steps /\ then \in {"none", "insert", "open"} /\ out \in Outcomes
      BY <1>3 DEF Steps, Outcomes
    <3>. QED  BY <1>1, <2>1, <3>1 DEF CallType
  <2>3. TableStays /\ keptKey' = keptKey /\ environment' = environment /\ KnownKeys' = KnownKeys
    BY <1>2, <1>3 DEF TableStays, keyVars, ConnectionsInv, ConnectionsTypeOK, KnownKeys
  <2>4. IdIsSound(k)'
    BY <1>1, <1>2, <1>3, <2>1 DEF CallIsSound, IdIsSound, CallType, tableVars
  <2>5. SecretIsSound(k)'
    BY <1>1, <1>2, <1>3, <2>1 DEF CallIsSound, SecretIsSound, CallType
  <2>6. KeyIsSound(k)'
    BY <1>1, <1>2, <1>3, <2>1, <2>3 DEF CallIsSound, KeyIsSound, CallType
  <2>7. CallIsSound(k)'
    BY <2>4, <2>5, <2>6 DEF CallIsSound
  <2>. QED  BY <1>3, <2>1, <2>2, <2>3, <2>7, QuietStep DEF ConnectionsInv, ConnectionsTypeOK
<1>4. CASE /\ worked' = worked \cup {call[c].secret}
           /\ call' = [call EXCEPT ![c].at = IF call[c].does = "create" THEN "key" ELSE "record",
                                   ![c].then = "insert", ![c].out = "ok"]
  <2>1. PICK step \in {"key", "record"} : step = IF l.does = "create" THEN "key" ELSE "record"
    OBVIOUS
  <2>2. call' = [call EXCEPT ![c] = [l EXCEPT !.at = step, !.then = "insert", !.out = "ok"]]
    BY <1>1, <1>4, <2>1 DEF ConnectionsInv, ConnectionsTypeOK
  <2>3. worked \subseteq worked' /\ l.secret \in worked'
    BY <1>1, <1>4
  <2>. QED  BY <1>3, <2>1, <2>2, <2>3
<1>5. CASE worked' = worked /\ l.does = "create" /\ Ends(c)
  <2>1. Alone
    BY <1>2, <1>5 DEF Alone, farVars
  <2>. QED  BY <1>5, <2>1, EndsKeeps
<1>6. CASE worked' = worked /\ l.does # "create" /\ call' = [call EXCEPT ![c].at = "record", ![c].out = "failed"]
  <2>1. PICK then \in {"none", "insert", "open"} : then = l.then
    BY <1>1 DEF CallType
  <2>2. call' = [call EXCEPT ![c] = [l EXCEPT !.at = "record", !.then = then, !.out = "failed"]]
    BY <1>1, <1>6, <2>1 DEF ConnectionsInv, ConnectionsTypeOK, CallType
  <2>. QED  BY <1>3, <1>6, <2>1, <2>2
<1>. QED  BY <1>1, <1>4, <1>5, <1>6 DEF Verifies

LEMMA MaxOfTwo == ASSUME NEW m \in Nat, NEW n \in Nat PROVE Max({m, n}) = IF m >= n THEN m ELSE n
  BY DEF Max

\* The key that the event loop takes is known from then on.
LEMMA LoopTakesKnownKey ==
    ASSUME ConnectionsInv, LoopTakesKey
    PROVE  /\ configured' = configured /\ keys' \in Nat /\ keys <= keys' /\ environment' = environment
           /\ keptKey' \in KnownKeys' /\ keptKey' # NoKey
           /\ environment' \in KnownKeys' \cup {NoKey} /\ (configured => environment' = Configured)
<1>1. LoopKey \in Nat /\ LoopKey # NoKey /\ (configured => LoopKey = Configured) /\ (~configured => LoopKey \in 2..keys+1)
  BY DEF LoopKey, KeyAtHand, ConnectionsInv, ConnectionsTypeOK, KnownKeys, Configured, NoKey
<1>2. keys' = (IF keys >= LoopKey THEN keys ELSE LoopKey) /\ keys \in Nat
  BY <1>1, MaxOfTwo DEF LoopTakesKey, ConnectionsInv, ConnectionsTypeOK
<1>3. configured' = configured /\ environment' = environment /\ keptKey' = LoopKey
  BY DEF LoopTakesKey
<1>4. keys' \in Nat /\ keys <= keys' /\ LoopKey <= keys'
  BY <1>1, <1>2
<1>5. keptKey' \in KnownKeys'
  BY <1>1, <1>3, <1>4 DEF KnownKeys, ConnectionsInv, ConnectionsTypeOK
<1>6. KnownKeys \subseteq KnownKeys'
  BY <1>2, <1>3, <1>4, KeysStayKnown
<1>. QED  BY <1>1, <1>3, <1>4, <1>5, <1>6 DEF ConnectionsInv, ConnectionsTypeOK

LEMMA ConnectsKeeps == ASSUME ConnectionsInv, NEW c \in Callers, Connects(c) PROVE ConnectionsInv'
<1>1. /\ configured' = configured /\ keys' \in Nat /\ keys <= keys'
      /\ keptKey' \in KnownKeys' /\ keptKey' # NoKey
      /\ environment' \in KnownKeys' \cup {NoKey} /\ (configured => environment' = Configured)
  BY LoopTakesKnownKey DEF Connects
<1>2. PICK g \in Nat, f \in KnownKeys' : g = grants + 1 /\ f = keptKey'
  BY <1>1 DEF ConnectionsInv, ConnectionsTypeOK
<1>3. grants' = g /\ worked' = worked /\ UNCHANGED <<tableVars, intended>>
  BY <1>2 DEF Connects
<1>4. PICK i \in IF Gmail = {} THEN {NoRow} ELSE Gmail :
          Starts(c, [NoCall EXCEPT !.does = "connect", !.at = "write", !.id = i, !.secret = grants', !.key = keptKey'])
  BY DEF Connects
<1>5. /\ i \in RowIds \cup {NoRow} /\ (i = NoRow \/ i \in 1..spent)
      /\ (i # NoRow => i \in Gmail)
  BY FoundGmail
<1>6. PICK k : k = [NoCall EXCEPT !.does = "connect", !.at = "write", !.id = i, !.secret = g, !.key = f]
  OBVIOUS
<1>7. f \in Nat
  BY <1>1 DEF KnownKeys, Configured
<1>8. k \in CallType
  BY <1>5, <1>6, <1>7, NoCallIsCall DEF CallType, Deeds, Steps, Outcomes
<1>9. IdIsSound(k)'
  BY <1>3, <1>5, <1>6 DEF NoCall, IdIsSound, tableVars, Gmail
<1>10. SecretIsSound(k)'
  <2>1. g \in 1..grants'
    BY <1>2, <1>3 DEF ConnectionsInv, ConnectionsTypeOK
  <2>. QED  BY <1>6, <2>1 DEF NoCall, SecretIsSound
<1>11. KeyIsSound(k)'
  BY <1>6 DEF NoCall, KeyIsSound
<1>12. TableStays
  BY <1>1, <1>2, <1>3 DEF TableStays, ConnectionsInv, ConnectionsTypeOK
<1>13. call' = [call EXCEPT ![c] = k]
  BY <1>2, <1>3, <1>4, <1>6 DEF Starts
<1>. QED  BY <1>1, <1>8, <1>9, <1>10, <1>11, <1>12, <1>13, QuietStep DEF CallIsSound

LEMMA DisconnectBeginsKeeps == ASSUME ConnectionsInv, NEW c \in Callers, DisconnectBegins(c) PROVE ConnectionsInv'
<1>1. /\ configured' = configured /\ keys' \in Nat /\ keys <= keys'
      /\ keptKey' \in KnownKeys' /\ keptKey' # NoKey
      /\ environment' \in KnownKeys' \cup {NoKey} /\ (configured => environment' = Configured)
  BY LoopTakesKnownKey DEF DisconnectBegins
<1>2. grants' = grants /\ worked' = worked /\ UNCHANGED <<tableVars, intended>>
  BY DEF DisconnectBegins, farVars
<1>3. PICK i \in Gmail : Starts(c, [NoCall EXCEPT !.does = "disconnect", !.secret = accounts[i].secret,
                                     !.at = IF keptKey' = accounts[i].key THEN "revoke" ELSE "forget"])
  BY DEF DisconnectBegins
<1>4. PICK secret \in 1..grants, step \in {"revoke", "forget"} :
          /\ secret = accounts[i].secret
          /\ step = IF keptKey' = accounts[i].key THEN "revoke" ELSE "forget"
  BY DEF Gmail, ConnectionsInv, RowsAreSound, RowIsSound
<1>5. PICK k : k = [NoCall EXCEPT !.does = "disconnect", !.secret = secret, !.at = step]
  OBVIOUS
<1>6. secret \in Nat
  BY DEF ConnectionsInv, ConnectionsTypeOK
<1>7. k \in CallType
  BY <1>5, <1>6, NoCallIsCall DEF CallType, Deeds, Steps, Outcomes
<1>8. CallIsSound(k)'
  BY <1>5 DEF NoCall, CallIsSound, IdIsSound, SecretIsSound, KeyIsSound, NoKey
<1>9. TableStays
  BY <1>1, <1>2 DEF TableStays, ConnectionsInv, ConnectionsTypeOK
<1>10. call' = [call EXCEPT ![c] = k]
  BY <1>3, <1>4, <1>5 DEF Starts
<1>. QED  BY <1>1, <1>7, <1>8, <1>9, <1>10, QuietStep

LEMMA ProcessRestartsKeeps == ASSUME ConnectionsInv, ProcessRestarts PROVE ConnectionsInv'
<1>1. TableStays /\ KnownKeys' = KnownKeys
  BY DEF ProcessRestarts, TableStays, farVars, KnownKeys, ConnectionsInv, ConnectionsTypeOK
<1>2. /\ RowsAreSound' /\ GmailIsAsAsked'
      /\ (spent \in 0..MaxRows /\ deleted \subseteq 1..spent)'
      /\ (accounts \in [RowIds -> Rows \cup {NoRow}])'
  BY <1>1, TableStaysSound
<1>3. PICK k : k = NoCall
  OBVIOUS
<1>4. CallIsSound(k)' /\ call' = [c \in Callers |-> k] /\ k \in CallType
  BY <1>3, NoCallIsCall DEF ProcessRestarts, NoCall, CallIsSound, IdIsSound, SecretIsSound, KeyIsSound, NoKey
<1>5. ASSUME NEW c \in Callers PROVE CallIsSound(call[c])'
  <2>1. call'[c] = k
    BY <1>4
  <2>. QED  BY <1>4, <2>1, SoundByName
<1>6. ConnectionsTypeOK'
  BY <1>1, <1>2, <1>4 DEF ProcessRestarts, farVars, ConnectionsInv, ConnectionsTypeOK, KnownKeys, Configured, NoKey
<1>. QED  BY <1>2, <1>5, <1>6 DEF ConnectionsInv, CallsAreSound

-----------------------------------------------------------------------------
\* A step that writes the table, and ends its call if it is one of a call.
LEMMA WritingStep ==
    ASSUME ConnectionsInv, NEW c \in Callers, Ends(c) \/ call' = call, UNCHANGED <<keyVars, farVars>>,
           spent' \in spent..MaxRows, deleted' \subseteq 1..spent',
           accounts' \in [RowIds -> Rows \cup {NoRow}],
           \A i \in 1..spent : accounts'[i] # NoRow => accounts[i] # NoRow /\ accounts'[i].kind = accounts[i].kind,
           RowsAreSound', GmailIsAsAsked'
    PROVE  ConnectionsInv'
<1>1. /\ configured' = configured /\ keys' = keys /\ keptKey' = keptKey /\ environment' = environment
      /\ worked' = worked /\ grants' = grants /\ KnownKeys' = KnownKeys
  BY DEF keyVars, farVars, KnownKeys
<1>2. LaterSteps
  BY <1>1, ConnectionsAssumption DEF LaterSteps, ConnectionsInv, ConnectionsTypeOK, ConnectionsAssumption
<1>3. PICK k \in CallType : CallIsSound(k) /\ call' = [call EXCEPT ![c] = k]
  <2>1. CASE Ends(c)
    BY <2>1, NoCallIsCall, NoCallIsSound DEF Ends
  <2>2. CASE call' = call
    BY <2>2 DEF ConnectionsInv, ConnectionsTypeOK, CallsAreSound
  <2>. QED  BY <2>1, <2>2
<1>4. CallIsSound(k)'
  BY <1>2, <1>3, SoundCallsStaySound DEF ConnectionsInv
<1>5. CallsAreSound' /\ (call \in [Callers -> CallType])'
  BY <1>2, <1>3, <1>4, CallsStaySound DEF ConnectionsInv
<1>6. (spent \in 0..MaxRows)'
  BY ConnectionsAssumption DEF ConnectionsInv, ConnectionsTypeOK, ConnectionsAssumption
<1>7. ConnectionsTypeOK'
  BY <1>1, <1>5, <1>6 DEF ConnectionsInv, ConnectionsTypeOK
<1>. QED  BY <1>5, <1>7 DEF ConnectionsInv

\* A new row has an id that nothing has had.
LEMMA NextIdIsNew ==
    ASSUME ConnectionsInv, NEW j \in NextId
    PROVE  /\ j = spent + 1 /\ j \in RowIds /\ j \in spent..MaxRows /\ accounts[j] = NoRow /\ j \notin deleted
           /\ \A i \in 1..spent : i # j /\ i \in 1..j
  BY ConnectionsAssumption DEF NextId, RowIds, ConnectionsInv, ConnectionsTypeOK, RowsAreSound, RowIsSound,
     ConnectionsAssumption

\* A row that a step leaves.
LEMMA RowStays ==
    ASSUME NEW i, RowIsSound(i), accounts'[i] = accounts[i], spent' = spent, deleted' = deleted,
           worked' = worked, grants' = grants, KnownKeys' = KnownKeys
    PROVE  RowIsSound(i)'
  BY DEF RowIsSound

\* One row was put in.
LEMMA PutIn ==
    ASSUME ConnectionsInv, NEW j \in NextId, NEW row \in Rows, row.key \in KnownKeys, KnownKeys' = KnownKeys,
           row.kind = "token" => row.secret \in worked, row.kind = "oauth" => row.secret \in 1..grants,
           worked' = worked, grants' = grants, deleted' = deleted,
           accounts' = [accounts EXCEPT ![j] = row], spent' = j
    PROVE  /\ spent' \in spent..MaxRows /\ deleted' \subseteq 1..spent'
           /\ accounts' \in [RowIds -> Rows \cup {NoRow}]
           /\ \A i \in 1..spent : accounts'[i] = accounts[i]
           /\ RowsAreSound'
<1>1. /\ j = spent + 1 /\ j \in RowIds /\ j \in spent..MaxRows /\ accounts[j] = NoRow /\ j \notin deleted
      /\ \A i \in 1..spent : i # j /\ i \in 1..j
  BY NextIdIsNew
<1>2. accounts' \in [RowIds -> Rows \cup {NoRow}]
  BY <1>1 DEF ConnectionsInv, ConnectionsTypeOK
<1>3. \A i \in RowIds : accounts'[i] = IF i = j THEN row ELSE accounts[i]
  BY <1>1 DEF ConnectionsInv, ConnectionsTypeOK
<1>4. \A i \in 1..spent : accounts'[i] = accounts[i]
  BY <1>1, <1>3, ConnectionsAssumption DEF RowIds, ConnectionsInv, ConnectionsTypeOK, ConnectionsAssumption
<1>5. ASSUME NEW i \in RowIds PROVE RowIsSound(i)'
  <2>1. CASE i = j
    <3>1. j \in 1..spent' /\ j \notin deleted'
      BY <1>1 DEF ConnectionsInv, ConnectionsTypeOK
    <3>2. accounts'[i] = row
      BY <1>3, <2>1
    <3>. QED  BY <2>1, <3>1, <3>2 DEF RowIsSound
  <2>2. CASE i # j
    <3>1. accounts'[i] = accounts[i]
      BY <1>3, <2>2
    <3>2. RowIsSound(i)
      BY DEF ConnectionsInv, RowsAreSound
    <3>. QED  BY <1>1, <3>1, <3>2 DEF RowIsSound
  <2>. QED  BY <2>1, <2>2
<1>6. deleted' \subseteq 1..spent'
  BY <1>1 DEF ConnectionsInv, ConnectionsTypeOK
<1>. QED  BY <1>1, <1>2, <1>4, <1>5, <1>6 DEF RowsAreSound

LEMMA InsertsKeeps == ASSUME ConnectionsInv, NEW c \in Callers, Inserts(c) PROVE ConnectionsInv'
<1>1. PICK l \in CallType : l = call[c] /\ CallIsSound(l)
  BY DEF ConnectionsInv, ConnectionsTypeOK, CallsAreSound
<1>2. l.at = "insert" /\ l.key \in KnownKeys /\ l.secret \in worked
  BY <1>1 DEF Inserts, CallIsSound, SecretIsSound, KeyIsSound
<1>3. PICK j \in NextId : /\ accounts' = [accounts EXCEPT ![j] = Row("token", l.secret, l.key)]
                          /\ spent' = j
  BY <1>1 DEF Inserts
<1>4. PICK row : row = Row("token", l.secret, l.key)
  OBVIOUS
<1>5. row \in Rows /\ row.kind = "token" /\ row.key = l.key /\ row.secret = l.secret
  BY <1>1, <1>4 DEF Row, Rows, CallType
<1>6. /\ deleted' = deleted /\ worked' = worked /\ grants' = grants /\ KnownKeys' = KnownKeys /\ intended' = intended
      /\ UNCHANGED <<keyVars, farVars>> /\ Ends(c)
  BY DEF Inserts, keyVars, farVars, KnownKeys
<1>7. /\ spent' \in spent..MaxRows /\ deleted' \subseteq 1..spent'
      /\ accounts' \in [RowIds -> Rows \cup {NoRow}]
      /\ \A i \in 1..spent : accounts'[i] = accounts[i]
      /\ RowsAreSound'
  BY <1>2, <1>3, <1>4, <1>5, <1>6, PutIn
<1>8. accounts[j] = NoRow /\ j \in RowIds
  BY NextIdIsNew
<1>9. \A i \in RowIds : accounts'[i] = IF i = j THEN row ELSE accounts[i]
  BY <1>3, <1>4, <1>8 DEF ConnectionsInv, ConnectionsTypeOK
<1>10. Gmail' = Gmail /\ \A i \in Gmail : accounts'[i] = accounts[i]
  BY <1>5, <1>8, <1>9 DEF Gmail
<1>11. GmailIsAsAsked'
  <2>1. {accounts'[i].secret : i \in Gmail} = {accounts[i].secret : i \in Gmail}
    BY <1>10
  <2>. QED  BY <1>6, <1>10, <2>1 DEF GmailIsAsAsked, ConnectionsInv
<1>. QED  BY <1>6, <1>7, <1>11, WritingStep

LEMMA RecordsKeeps == ASSUME ConnectionsInv, NEW c \in Callers, Records(c) PROVE ConnectionsInv'
<1>1. PICK l \in CallType : l = call[c] /\ CallIsSound(l)
  BY DEF ConnectionsInv, ConnectionsTypeOK, CallsAreSound
<1>2. l.at = "record" /\ l.id \in 1..spent /\ l.out \in {"ok", "failed"}
  BY <1>1 DEF Records, CallIsSound, IdIsSound, KeyIsSound
<1>3. l.id \in RowIds
  BY <1>2, ConnectionsAssumption DEF RowIds, ConnectionsInv, ConnectionsTypeOK, ConnectionsAssumption
<1>4. /\ deleted' = deleted /\ worked' = worked /\ grants' = grants /\ KnownKeys' = KnownKeys /\ intended' = intended
      /\ spent' = spent /\ UNCHANGED <<keyVars, farVars>> /\ Ends(c)
  BY DEF Records, keyVars, farVars, KnownKeys
<1>5. ASSUME NEW i \in RowIds
      PROVE  /\ accounts'[i] = NoRow <=> accounts[i] = NoRow
             /\ accounts'[i] \in Rows \cup {NoRow}
             /\ accounts[i] # NoRow => /\ accounts'[i].kind = accounts[i].kind
                                       /\ accounts'[i].secret = accounts[i].secret
                                       /\ accounts'[i].key = accounts[i].key
  <2>1. PICK row \in Rows \cup {NoRow} : row = accounts[i]
    BY DEF ConnectionsInv, ConnectionsTypeOK
  <2>2. CASE i = l.id /\ row # NoRow
    <3>1. PICK new : new = [row EXCEPT !.status = l.out]
      OBVIOUS
    <3>2. accounts'[i] = new
      BY <1>1, <1>3, <2>1, <2>2, <3>1 DEF Records, ConnectionsInv, ConnectionsTypeOK
    <3>3. new \in Rows /\ new.kind = row.kind /\ new.secret = row.secret /\ new.key = row.key
      BY <1>2, <2>2, <3>1 DEF Rows
    <3>. QED  BY <2>1, <2>2, <3>2, <3>3, ConnectionsAssumption DEF ConnectionsAssumption
  <2>3. CASE i # l.id \/ row = NoRow
    <3>1. accounts'[i] = accounts[i]
      BY <1>1, <1>3, <2>1, <2>3 DEF Records, ConnectionsInv, ConnectionsTypeOK
    <3>. QED  BY <2>1, <3>1
  <2>. QED  BY <2>2, <2>3
<1>6. \A i \in 1..spent : i \in RowIds
  BY ConnectionsAssumption DEF RowIds, ConnectionsInv, ConnectionsTypeOK, ConnectionsAssumption
<1>7. accounts' \in [RowIds -> Rows \cup {NoRow}]
  <2>1. accounts' = [i \in RowIds |-> accounts'[i]]
    BY DEF Records, ConnectionsInv, ConnectionsTypeOK
  <2>. QED  BY <1>5, <2>1
<1>8. RowsAreSound'
  <2>1. ASSUME NEW i \in RowIds PROVE RowIsSound(i)'
    <3>1. RowIsSound(i)
      BY DEF ConnectionsInv, RowsAreSound
    <3>. QED  BY <1>4, <1>5, <3>1 DEF RowIsSound
  <2>. QED  BY <2>1 DEF RowsAreSound
<1>9. Gmail' = Gmail /\ \A i \in Gmail : accounts'[i].secret = accounts[i].secret
  BY <1>5 DEF Gmail
<1>10. GmailIsAsAsked'
  <2>1. {accounts'[i].secret : i \in Gmail} = {accounts[i].secret : i \in Gmail}
    BY <1>9
  <2>. QED  BY <1>4, <1>9, <2>1 DEF GmailIsAsAsked, ConnectionsInv
<1>11. spent' \in spent..MaxRows /\ deleted' \subseteq 1..spent'
  BY <1>4, ConnectionsAssumption DEF ConnectionsInv, ConnectionsTypeOK, ConnectionsAssumption
<1>. QED  BY <1>4, <1>5, <1>6, <1>7, <1>8, <1>10, <1>11, WritingStep

\* Rows were taken out.
LEMMA TakenOut ==
    ASSUME ConnectionsInv, NEW them, them \subseteq RowIds, \A i \in them : accounts[i] # NoRow,
           \A i \in RowIds : accounts'[i] = IF i \in them THEN NoRow ELSE accounts[i],
           accounts' = [i \in RowIds |-> accounts'[i]],
           deleted' = deleted \cup them, spent' = spent, worked' = worked, grants' = grants, KnownKeys' = KnownKeys
    PROVE  /\ spent' \in spent..MaxRows /\ deleted' \subseteq 1..spent'
           /\ accounts' \in [RowIds -> Rows \cup {NoRow}]
           /\ \A i \in 1..spent : accounts'[i] # NoRow => accounts[i] # NoRow /\ accounts'[i].kind = accounts[i].kind
           /\ RowsAreSound' /\ Gmail' = Gmail \ them
<1>1. them \subseteq 1..spent
  BY DEF ConnectionsInv, RowsAreSound, RowIsSound
<1>2. spent' \in spent..MaxRows /\ deleted' \subseteq 1..spent'
  BY <1>1, ConnectionsAssumption DEF ConnectionsInv, ConnectionsTypeOK, ConnectionsAssumption
<1>3. accounts' \in [RowIds -> Rows \cup {NoRow}]
  BY DEF ConnectionsInv, ConnectionsTypeOK
<1>4. \A i \in 1..spent : i \in RowIds
  BY ConnectionsAssumption DEF RowIds, ConnectionsInv, ConnectionsTypeOK, ConnectionsAssumption
<1>5. \A i \in 1..spent : accounts'[i] # NoRow => accounts[i] # NoRow /\ accounts'[i].kind = accounts[i].kind
  BY <1>4
<1>6. ASSUME NEW i \in RowIds PROVE RowIsSound(i)'
  <2>1. CASE i \in them
    BY <2>1 DEF RowIsSound
  <2>2. CASE i \notin them
    <3>1. accounts'[i] = accounts[i] /\ RowIsSound(i)
      BY <2>2 DEF ConnectionsInv, RowsAreSound
    <3>. QED  BY <2>2, <3>1 DEF RowIsSound
  <2>. QED  BY <2>1, <2>2
<1>7. Gmail' = Gmail \ them
  BY DEF Gmail
<1>. QED  BY <1>2, <1>3, <1>5, <1>6, <1>7 DEF RowsAreSound

LEMMA DeletesKeeps == ASSUME ConnectionsInv, NEW c \in Callers, Deletes(c) PROVE ConnectionsInv'
<1>1. PICK i \in RowIds : /\ accounts[i] # NoRow
                          /\ accounts' = [accounts EXCEPT ![i] = NoRow] /\ deleted' = deleted \cup {i}
                          /\ intended' = IF accounts[i].kind = "token" THEN intended ELSE IF Met(c) THEN -1 ELSE NoGrant
  BY DEF Deletes
<1>2. /\ spent' = spent /\ worked' = worked /\ grants' = grants /\ KnownKeys' = KnownKeys
      /\ call' = call /\ UNCHANGED <<keyVars, farVars>>
  BY DEF Deletes, keyVars, farVars, KnownKeys
<1>3. /\ \A j \in RowIds : accounts'[j] = IF j \in {i} THEN NoRow ELSE accounts[j]
      /\ accounts' = [j \in RowIds |-> accounts'[j]]
  BY <1>1 DEF ConnectionsInv, ConnectionsTypeOK
<1>4. /\ spent' \in spent..MaxRows /\ deleted' \subseteq 1..spent'
      /\ accounts' \in [RowIds -> Rows \cup {NoRow}]
      /\ \A j \in 1..spent : accounts'[j] # NoRow => accounts[j] # NoRow /\ accounts'[j].kind = accounts[j].kind
      /\ RowsAreSound' /\ Gmail' = Gmail \ {i}
  <2>1. PICK them : them = {i}
    OBVIOUS
  <2>2. them \subseteq RowIds /\ (\A j \in them : accounts[j] # NoRow) /\ deleted' = deleted \cup them
    BY <1>1, <2>1
  <2>3. \A j \in RowIds : accounts'[j] = IF j \in them THEN NoRow ELSE accounts[j]
    BY <1>3, <2>1
  <2>. QED  BY <1>2, <1>3, <2>1, <2>2, <2>3, TakenOut
<1>5. GmailIsAsAsked'
  <2>1. CASE accounts[i].kind = "token"
    <3>1. i \notin Gmail
      BY <2>1 DEF Gmail
    <3>2. Gmail' = Gmail /\ \A j \in Gmail : accounts'[j] = accounts[j]
      BY <1>3, <1>4, <3>1 DEF Gmail
    <3>3. {accounts'[j].secret : j \in Gmail} = {accounts[j].secret : j \in Gmail}
      BY <3>2
    <3>. QED  BY <1>1, <2>1, <3>2, <3>3 DEF GmailIsAsAsked, ConnectionsInv
  <2>2. CASE accounts[i].kind # "token"
    <3>1. accounts[i] \in Rows
      BY <1>1 DEF ConnectionsInv, RowsAreSound, RowIsSound
    <3>2. i \in Gmail
      BY <1>1, <2>2, <3>1 DEF Gmail, Rows
    <3>3. Gmail' = {}
      BY <1>4, <3>2 DEF ConnectionsInv, GmailIsAsAsked
    <3>4. intended' \in {-1, NoGrant}
      BY <1>1, <2>2
    <3>. QED  BY <3>3, <3>4 DEF GmailIsAsAsked
  <2>. QED  BY <2>1, <2>2
<1>. QED  BY <1>2, <1>4, <1>5, WritingStep

LEMMA ForgetsKeeps == ASSUME ConnectionsInv, NEW c \in Callers, Forgets(c) PROVE ConnectionsInv'
<1>1. /\ spent' = spent /\ worked' = worked /\ grants' = grants /\ KnownKeys' = KnownKeys
      /\ Ends(c) /\ UNCHANGED <<keyVars, farVars>> /\ intended' \in {-1, NoGrant}
  BY DEF Forgets, keyVars, farVars, KnownKeys
<1>2. PICK them : them = Gmail
  OBVIOUS
<1>3. /\ \A j \in RowIds : accounts'[j] = IF j \in them THEN NoRow ELSE accounts[j]
      /\ accounts' = [j \in RowIds |-> accounts'[j]]
      /\ them \subseteq RowIds /\ (\A j \in them : accounts[j] # NoRow) /\ deleted' = deleted \cup them
  BY <1>2 DEF Forgets, Gmail
<1>4. /\ spent' \in spent..MaxRows /\ deleted' \subseteq 1..spent'
      /\ accounts' \in [RowIds -> Rows \cup {NoRow}]
      /\ \A j \in 1..spent : accounts'[j] # NoRow => accounts[j] # NoRow /\ accounts'[j].kind = accounts[j].kind
      /\ RowsAreSound' /\ Gmail' = Gmail \ them
  BY <1>1, <1>3, TakenOut
<1>5. GmailIsAsAsked'
  BY <1>1, <1>2, <1>4 DEF GmailIsAsAsked
<1>. QED  BY <1>1, <1>4, <1>5, WritingStep

LEMMA WritesKeeps == ASSUME ConnectionsInv, NEW c \in Callers, Writes(c) PROVE ConnectionsInv'
<1>1. PICK l \in CallType : l = call[c] /\ CallIsSound(l)
  BY DEF ConnectionsInv, ConnectionsTypeOK, CallsAreSound
<1>2. /\ l.at = "write" /\ l.key \in KnownKeys /\ l.secret \in 1..grants
      /\ l.id = NoRow \/ l.id \in 1..spent
      /\ l.id # NoRow /\ accounts[l.id] # NoRow => accounts[l.id].kind = "oauth"
  BY <1>1 DEF Writes, CallIsSound, IdIsSound, SecretIsSound, KeyIsSound
<1>3. /\ deleted' = deleted /\ worked' = worked /\ grants' = grants /\ KnownKeys' = KnownKeys
      /\ Ends(c) /\ UNCHANGED <<keyVars, farVars>>
  BY DEF Writes, keyVars, farVars, KnownKeys
<1>4. spent \in spent..MaxRows /\ deleted \subseteq 1..spent
  BY ConnectionsAssumption DEF ConnectionsInv, ConnectionsTypeOK, ConnectionsAssumption
<1>5. intended' = -1 \/ intended' = l.secret
  BY <1>1 DEF Writes
<1>6. CASE /\ l.id # NoRow /\ accounts[l.id] # NoRow /\ spent' = spent
           /\ accounts' = [accounts EXCEPT ![l.id].secret = l.secret, ![l.id].key = l.key]
  <2>1. l.id \in RowIds
    BY <1>2, <1>6, ConnectionsAssumption DEF RowIds, ConnectionsInv, ConnectionsTypeOK, ConnectionsAssumption
  <2>2. PICK row \in Rows : row = accounts[l.id] /\ row.kind = "oauth" /\ RowIsSound(l.id)
    BY <1>2, <1>6, <2>1 DEF ConnectionsInv, ConnectionsTypeOK, RowsAreSound
  <2>3. PICK new : new = [row EXCEPT !.secret = l.secret, !.key = l.key]
    OBVIOUS
  <2>4. new \in Rows /\ new.kind = "oauth" /\ new.secret = l.secret /\ new.key = l.key
    BY <1>1, <2>2, <2>3 DEF Rows, CallType
  <2>5. \A i \in RowIds : accounts'[i] = IF i = l.id THEN new ELSE accounts[i]
    BY <1>6, <2>1, <2>2, <2>3 DEF ConnectionsInv, ConnectionsTypeOK
  <2>6. accounts' \in [RowIds -> Rows \cup {NoRow}]
    <3>1. accounts' = [i \in RowIds |-> accounts'[i]]
      BY <1>6 DEF ConnectionsInv, ConnectionsTypeOK
    <3>. QED  BY <2>4, <2>5, <3>1 DEF ConnectionsInv, ConnectionsTypeOK
  <2>7. ASSUME NEW i \in RowIds PROVE RowIsSound(i)'
    <3>1. CASE i = l.id
      <4>1. accounts'[i] = new /\ RowIsSound(i)
        BY <2>2, <2>5, <3>1
      <4>2. i \in 1..spent' /\ i \notin deleted'
        BY <1>3, <1>6, <3>1, <4>1 DEF RowIsSound
      <4>. QED  BY <1>2, <1>3, <2>4, <4>1, <4>2 DEF RowIsSound
    <3>2. CASE i # l.id
      <4>1. accounts'[i] = accounts[i] /\ RowIsSound(i)
        BY <2>5, <3>2 DEF ConnectionsInv, RowsAreSound
      <4>2. spent' = spent /\ deleted' = deleted /\ worked' = worked /\ grants' = grants /\ KnownKeys' = KnownKeys
        BY <1>3, <1>6
      <4>. QED  BY <4>1, <4>2, RowStays
    <3>. QED  BY <3>1, <3>2
  <2>8. new # NoRow
    BY <2>4, ConnectionsAssumption DEF ConnectionsAssumption
  <2>9. Gmail' = Gmail /\ Gmail = {l.id}
    <3>1. l.id \in Gmail
      BY <1>6, <2>1, <2>2 DEF Gmail
    <3>2. Gmail = {l.id}
      BY <3>1 DEF ConnectionsInv, GmailIsAsAsked
    <3>3. ASSUME NEW i \in RowIds PROVE i \in Gmail' <=> i \in Gmail
      <4>1. CASE i = l.id
        BY <2>4, <2>5, <2>8, <3>1, <4>1 DEF Gmail
      <4>2. CASE i # l.id
        BY <2>5, <4>2 DEF Gmail
      <4>. QED  BY <4>1, <4>2
    <3>4. Gmail' \subseteq RowIds /\ Gmail \subseteq RowIds
      BY DEF Gmail
    <3>. QED  BY <3>2, <3>3, <3>4
  <2>10. GmailIsAsAsked'
    <3>1. {accounts'[i].secret : i \in Gmail'} = {l.secret}
      BY <2>1, <2>4, <2>5, <2>9
    <3>2. l.secret # NoGrant
      BY <1>2 DEF ConnectionsInv, ConnectionsTypeOK, NoGrant
    <3>. QED  BY <1>5, <2>9, <3>1, <3>2 DEF GmailIsAsAsked
  <2>11. \A i \in 1..spent : accounts'[i] # NoRow => accounts[i] # NoRow /\ accounts'[i].kind = accounts[i].kind
    <3>1. \A i \in 1..spent : i \in RowIds
      BY ConnectionsAssumption DEF RowIds, ConnectionsInv, ConnectionsTypeOK, ConnectionsAssumption
    <3>. QED  BY <1>6, <2>2, <2>4, <2>5, <3>1
  <2>. QED  BY <1>3, <1>4, <1>6, <2>6, <2>7, <2>10, <2>11, WritingStep DEF RowsAreSound
<1>7. CASE Gmail = {} /\ \E j \in NextId : /\ accounts' = [accounts EXCEPT ![j] = Row("oauth", l.secret, l.key)]
                                           /\ spent' = j
  <2>1. PICK j \in NextId : /\ accounts' = [accounts EXCEPT ![j] = Row("oauth", l.secret, l.key)]
                            /\ spent' = j
    BY <1>7
  <2>2. PICK row : row = Row("oauth", l.secret, l.key)
    OBVIOUS
  <2>3. row \in Rows /\ row.kind = "oauth" /\ row.key = l.key /\ row.secret = l.secret
    BY <1>1, <2>2 DEF Row, Rows, CallType
  <2>4. /\ spent' \in spent..MaxRows /\ deleted' \subseteq 1..spent'
        /\ accounts' \in [RowIds -> Rows \cup {NoRow}]
        /\ \A i \in 1..spent : accounts'[i] = accounts[i]
        /\ RowsAreSound'
    BY <1>2, <1>3, <2>1, <2>2, <2>3, PutIn
  <2>5. accounts[j] = NoRow /\ j \in RowIds /\ row # NoRow
    BY <2>3, NextIdIsNew, ConnectionsAssumption DEF ConnectionsAssumption
  <2>6. \A i \in RowIds : accounts'[i] = IF i = j THEN row ELSE accounts[i]
    BY <2>1, <2>2, <2>5 DEF ConnectionsInv, ConnectionsTypeOK
  <2>7. Gmail' = {j}
    BY <1>7, <2>3, <2>5, <2>6 DEF Gmail
  <2>8. GmailIsAsAsked'
    <3>1. {accounts'[i].secret : i \in Gmail'} = {l.secret}
      BY <2>3, <2>5, <2>6, <2>7
    <3>2. l.secret # NoGrant
      BY <1>2 DEF ConnectionsInv, ConnectionsTypeOK, NoGrant
    <3>. QED  BY <1>5, <2>7, <3>1, <3>2 DEF GmailIsAsAsked
  <2>. QED  BY <1>3, <2>4, <2>8, WritingStep
<1>8. CASE accounts' = accounts /\ spent' = spent /\ ~(l.id # NoRow /\ accounts[l.id] # NoRow)
  <2>1. intended' = -1
    BY <1>1, <1>8 DEF Writes
  <2>2. Gmail' = Gmail
    BY <1>8 DEF Gmail
  <2>3. GmailIsAsAsked'
    BY <2>1, <2>2 DEF GmailIsAsAsked, ConnectionsInv
  <2>4. RowsAreSound'
    BY <1>3, <1>8 DEF RowsAreSound, RowIsSound, ConnectionsInv
  <2>5. accounts' \in [RowIds -> Rows \cup {NoRow}]
    BY <1>8 DEF ConnectionsInv, ConnectionsTypeOK
  <2>6. \A i \in 1..spent : accounts'[i] # NoRow => accounts[i] # NoRow /\ accounts'[i].kind = accounts[i].kind
    BY <1>8
  <2>. QED  BY <1>3, <1>4, <1>8, <2>3, <2>4, <2>5, <2>6, WritingStep
<1>. QED  BY <1>1, <1>6, <1>7, <1>8 DEF Writes

LEMMA ConnectionsNextSound ==
    ASSUME ConnectionsInv, [TokensNext \/ GmailNext]_connectionVars
    PROVE  ConnectionsInv'
<1>1. CASE UNCHANGED connectionVars
  <2>1. KnownKeys' = KnownKeys
    BY <1>1 DEF connectionVars, KnownKeys
  <2>2. ConnectionsTypeOK'
    BY <1>1, <2>1 DEF connectionVars, ConnectionsInv, ConnectionsTypeOK
  <2>3. RowsAreSound'
    BY <1>1, <2>1 DEF connectionVars, ConnectionsInv, RowsAreSound, RowIsSound
  <2>4. CallsAreSound'
    BY <1>1, <2>1 DEF connectionVars, ConnectionsInv, CallsAreSound, CallIsSound, IdIsSound, SecretIsSound, KeyIsSound
  <2>5. GmailIsAsAsked'
    BY <1>1 DEF connectionVars, ConnectionsInv, GmailIsAsAsked, Gmail
  <2>. QED  BY <2>2, <2>3, <2>4, <2>5 DEF ConnectionsInv
<1>2. ASSUME NEW c \in Callers, KeyNext(c) PROVE ConnectionsInv'
  BY <1>2, TakesKeyKeeps, MakesKeyKeeps, CreateBeginsKeeps, VerifiesKeeps, InsertsKeeps, DeletesKeeps,
     DatabaseFailsKeeps DEF KeyNext
<1>3. CASE TokensNext
  BY <1>2, <1>3, TestBeginsKeeps, BuildBeginsKeeps, ReadsSecretsKeeps, OpensKeeps, RecordsKeeps,
     ProcessRestartsKeeps DEF TokensNext
<1>4. CASE GmailNext
  BY <1>2, <1>4, ConnectsKeeps, UseBeginsKeeps, OpensKeeps, RefreshesKeeps, SeeksKeeps, WritesKeeps,
     DisconnectBeginsKeeps, RevokesKeeps, ForgetsKeeps, ProcessRestartsKeeps DEF GmailNext
<1>. QED  BY <1>1, <1>3, <1>4

LEMMA InvIsEnough == ConnectionsInv => ConnectionsAreSound
<1> SUFFICES ASSUME ConnectionsInv PROVE ConnectionsAreSound
  OBVIOUS
<1>1. SavedHaveWorked
  BY DEF SavedHaveWorked, ConnectionsInv, RowsAreSound, RowIsSound
<1>2. DeletedAreGone
  <2>1. deleted \subseteq RowIds
    BY ConnectionsAssumption DEF RowIds, ConnectionsInv, ConnectionsTypeOK, ConnectionsAssumption
  <2>. QED  BY <2>1 DEF DeletedAreGone, ConnectionsInv, RowsAreSound, RowIsSound
<1>3. AccountsAreReadable
  BY DEF AccountsAreReadable, ConnectionsInv, ConnectionsTypeOK, RowsAreSound, RowIsSound, KnownKeys, Configured
<1>4. NoAgentLosesItsTools
  BY DEF NoAgentLosesItsTools, ConnectionsInv, CallsAreSound, CallIsSound, IdIsSound, KeyIsSound
<1>. QED  BY <1>1, <1>2, <1>3, <1>4 DEF ConnectionsInv, ConnectionsAreSound

\* Whatever calls meet at the connections and the mailbox, and wherever the process
\* restarts: what is saved has worked at its service, what was deleted stays away,
\* rows can be read as long as there is one key, no agent goes without its tools because
\* its connection is gone or, with a configured key, cannot be decrypted (only because
\* the database cannot be read or an action is offered no more), and the mailbox is as
\* its user asked (connections.py, store.py, tool_factory.py, gmail_tool.py): for any
\* number of callers, rows, keys and grants.
THEOREM ConnectionsAreAlwaysSound == ConnectionsSpec => []ConnectionsAreSound
<1>1. ConnectionsSpec => []ConnectionsInv
  BY ConnectionsInitSound, ConnectionsNextSound, PTL DEF ConnectionsSpec
<1>. QED  BY <1>1, InvIsEnough, PTL

-----------------------------------------------------------------------------
(***************************************************************************)
(* The tools of a run (CrewTools)                                          *)
(***************************************************************************)

Places == DOMAIN Specialists(crew)
AnErrand(i, t) == [place |-> i, tool |-> t]
ErrandType == [place : Places, tool : ToolIds]
BuiltType == [agent : DOMAIN crew.own, tools : SUBSET ToolIds, model : {ModelOf(crew, a) : a \in DOMAIN crew.own}]

\* The tools an agent has of its own and of all of its nodes.
Mine(c, a) == ToSet(c.own[a]) \cup UNION {ToSet(c.attached[n]) : n \in {m \in DOMAIN c.agents : c.agents[m] = a}}

ToolsTypeOK ==
    /\ crew \in Crews
    /\ stage \in {"waiting", "building", "working", "closing", "over"}
    /\ stage = "waiting" => built = <<>> /\ todo = <<>> /\ DOMAIN cache = {} /\ stack = <<>> /\ running = {}
    /\ stage # "waiting" => built \in [Places -> BuiltType]
    /\ stage # "waiting" => todo \in Seq(ErrandType)
    /\ stage = "working" => todo = <<>>
    /\ stack \in Seq(ToolIds)
    /\ opened \in Seq(ToolIds)

\* What is on its way to an agent is in its hands, on the list, or excused.
IsSettled(i, t) ==
    \/ t \in built[i].tools
    \/ <<t, "missing">> \in excused \/ <<t, "failed">> \in excused
    \/ AnErrand(i, t) \in ToSet(todo)

ToolsAreSettled ==
    stage \in {"building", "working"} =>
        \A i \in Places : \A t \in Mine(crew, built[i].agent) : IsSettled(i, t)

\* What the cache says of a tool, and what is opened and running.
ServersAreTracked ==
    /\ \A t \in DOMAIN cache : cache[t] = "built" \/ <<t, "failed">> \in excused
    /\ ServersAreShared
    /\ ToSet(opened) \subseteq DOMAIN cache
    /\ running \subseteq ToSet(stack)
    /\ stage \in {"building", "working"} =>
          /\ \A t \in DOMAIN cache : cache[t] = "built" /\ KindOf[t] = "mcp" => t \in running
          /\ \A i \in Places : \A t \in built[i].tools : KindOf[t] = "mcp" => t \in running
    /\ stage = "over" => stack = <<>>

\* A tool shows the arguments of the call of it that is under way, if it is the only one.
CallsAreTracked ==
    /\ calls \in Seq(ToolIds) /\ underway \subseteq DOMAIN calls
    /\ toolIo \in [ToolIds -> [args : Nat, result : Nat]]
    /\ CallsAreReported
    /\ \A k \in underway : calls[k] \notin mixed => toolIo[calls[k]].args = k

ToolsInv == ToolsTypeOK /\ ToolsAreSettled /\ ServersAreTracked /\ CallsAreTracked

LEMMA SeqIs ==
    ASSUME NEW T, NEW s \in Seq(T)
    PROVE  Len(s) \in Nat /\ DOMAIN s = 1..Len(s) /\ \A i \in 1..Len(s) : s[i] \in T
  BY LenProperties, ElementOfSeq

LEMMA SeqFromTo ==
    ASSUME NEW T, NEW n \in Nat, NEW f \in [1..n -> T]
    PROVE  f \in Seq(T) /\ Len(f) = n /\ DOMAIN f = 1..n
  OBVIOUS

LEMMA SingleHas == ASSUME NEW T, NEW x \in T PROVE <<x>> \in Seq(T) /\ ToSet(<<x>>) = {x}
<1>1. <<x>> \in Seq(T) /\ DOMAIN <<x>> = {1} /\ <<x>>[1] = x
  OBVIOUS
<1>. QED  BY <1>1 DEF ToSet

LEMMA EmptyHas == ASSUME NEW T PROVE <<>> \in Seq(T) /\ ToSet(<<>>) = {}
  BY DEF ToSet

\* The elements of a second sequence are there after they were added to a first.
LEMMA AddedHas ==
    ASSUME NEW T, NEW ids \in Seq(T), NEW more \in Seq(T)
    PROVE  /\ Added(ids, more) \in Seq(T)
           /\ ToSet(ids) \cup ToSet(more) \subseteq ToSet(Added(ids, more))
<1>1. /\ Len(more) \in Nat /\ DOMAIN more = 1..Len(more) /\ \A i \in 1..Len(more) : more[i] \in T
  BY SeqIs
<1> DEFINE Earlier(k) == more[k] \in ToSet(ids) \/ \E j \in 1..(k - 1) : more[j] = more[k]
<1>2. PICK ss : ss = [k \in DOMAIN more |-> IF Earlier(k) THEN <<>> ELSE <<more[k]>>]
  OBVIOUS
<1> HIDE DEF Earlier
<1>3. \A k \in 1..Len(more) : ss[k] = IF Earlier(k) THEN <<>> ELSE <<more[k]>>
  BY <1>1, <1>2
<1>4. \A k \in 1..Len(more) : ss[k] \in Seq(T)
  <2>1. ASSUME NEW k \in 1..Len(more) PROVE ss[k] \in Seq(T)
    <3>1. more[k] \in T
      BY <1>1
    <3>2. <<>> \in Seq(T) /\ <<more[k]>> \in Seq(T)
      BY <3>1
    <3>. QED  BY <1>3, <3>2
  <2>. QED  BY <2>1
<1>5. ss \in [1..Len(more) -> Seq(T)]
  BY <1>1, <1>2, <1>4
<1>6. ss \in Seq(Seq(T)) /\ DOMAIN ss = 1..Len(more)
  BY <1>1, <1>5, SeqFromTo
<1>7. FlattenSeq(ss) \in Seq(T) /\ ToSet(FlattenSeq(ss)) = UNION {ToSet(ss[i]) : i \in DOMAIN ss}
  BY <1>6, FlattenedHas
<1>8. Added(ids, more) = ids \o FlattenSeq(ss)
  BY <1>2 DEF Added, Earlier
<1>9. Added(ids, more) \in Seq(T) /\ ToSet(Added(ids, more)) = ToSet(ids) \cup ToSet(FlattenSeq(ss))
  BY <1>7, <1>8, ConcatHas
<1>10. ASSUME NEW x \in ToSet(more), x \notin ToSet(ids) PROVE x \in ToSet(FlattenSeq(ss))
  <2>1. PICK S : S = {k \in 1..Len(more) : more[k] = x} /\ S \in SUBSET Nat
    <3>1. {k \in 1..Len(more) : more[k] = x} \subseteq Nat
      BY <1>1
    <3>. QED  BY <3>1
  <2>2. S # {}
    BY <1>1, <2>1 DEF ToSet
  <2>3. PICK k \in S : \A j \in S : k <= j
    BY <2>1, <2>2, LeastElement
  <2>4. k \in 1..Len(more) /\ more[k] = x
    BY <2>1
  <2>5. ~Earlier(k)
    <3>1. ASSUME NEW j \in 1..(k - 1), more[j] = more[k] PROVE FALSE
      <4>1. j \in 1..Len(more) /\ ~(k <= j)
        BY <1>1, <2>4
      <4>. QED  BY <2>1, <2>3, <2>4, <3>1, <4>1
    <3>. QED  BY <1>10, <2>4, <3>1 DEF Earlier
  <2>6. ss[k] = <<x>>
    BY <1>3, <2>4, <2>5
  <2>7. x \in ToSet(ss[k])
    BY <2>6, SingleHas
  <2>. QED  BY <1>6, <1>7, <2>4, <2>7
<1>. QED  BY <1>9, <1>10

\* An agent that is built is told of all of its tools, in sequence.
LEMMA ToolsOfHas ==
    ASSUME NEW c \in Crews, NEW a \in DOMAIN c.own
    PROVE  ToolsOf(c, a) \in Seq(ToolIds) /\ Mine(c, a) \subseteq ToSet(ToolsOf(c, a))
<1>1. /\ c.agents \in Seq(DOMAIN c.own)
      /\ c.attached \in Seq(Seq(ToolIds)) /\ Len(c.attached) = Len(c.agents)
      /\ c.own[a] \in Seq(ToolIds)
  BY CrewToolsAssumption DEF CrewToolsAssumption
<1>2. PICK n \in Nat : n = Len(c.agents) /\ DOMAIN c.agents = 1..n /\ \A i \in 1..n : c.attached[i] \in Seq(ToolIds)
  BY <1>1, SeqIs
<1>3. PICK ss : ss = [i \in DOMAIN c.agents |-> IF c.agents[i] = a THEN c.attached[i] ELSE <<>>]
  OBVIOUS
<1>4. \A i \in 1..n : ss[i] = IF c.agents[i] = a THEN c.attached[i] ELSE <<>>
  BY <1>2, <1>3
<1>5. \A i \in 1..n : ss[i] \in Seq(ToolIds)
  BY <1>2, <1>4, EmptyHas
<1>6. ss \in [1..n -> Seq(ToolIds)]
  BY <1>2, <1>3, <1>5
<1>7. ss \in Seq(Seq(ToolIds)) /\ DOMAIN ss = 1..n
  BY <1>6, SeqFromTo
<1>8. Attached(c, a) \in Seq(ToolIds) /\ ToSet(Attached(c, a)) = UNION {ToSet(ss[i]) : i \in DOMAIN ss}
  <2>1. FlattenSeq(ss) \in Seq(ToolIds) /\ ToSet(FlattenSeq(ss)) = UNION {ToSet(ss[i]) : i \in DOMAIN ss}
    BY <1>7, FlattenedHas
  <2>. QED  BY <1>3, <2>1 DEF Attached
<1>9. UNION {ToSet(c.attached[m]) : m \in {i \in DOMAIN c.agents : c.agents[i] = a}} \subseteq ToSet(Attached(c, a))
  <2>1. ASSUME NEW m \in DOMAIN c.agents, c.agents[m] = a, NEW x \in ToSet(c.attached[m])
        PROVE  x \in UNION {ToSet(ss[i]) : i \in DOMAIN ss}
    <3>1. m \in DOMAIN ss /\ ss[m] = c.attached[m]
      BY <1>2, <1>4, <1>7, <2>1
    <3>. QED  BY <2>1, <3>1
  <2>. QED  BY <1>8, <2>1
<1>10. PICK u \in Seq(ToolIds) : u = Attached(c, a)
  BY <1>8
<1>11. Added(c.own[a], u) \in Seq(ToolIds) /\ ToSet(c.own[a]) \cup ToSet(u) \subseteq ToSet(Added(c.own[a], u))
  BY <1>1, AddedHas
<1>. QED  BY <1>9, <1>10, <1>11 DEF ToolsOf, Mine

LEMMA SpecialistsAre ==
    ASSUME NEW c \in Crews
    PROVE  Specialists(c) \in Seq(DOMAIN c.own)
<1>1. c.agents \in Seq(DOMAIN c.own)
  BY CrewToolsAssumption DEF CrewToolsAssumption
<1>2. PICK n \in Nat : DOMAIN c.agents = 1..n /\ \A i \in 1..n : c.agents[i] \in DOMAIN c.own
  BY <1>1, SeqIs
<1>3. PICK ss : ss = [i \in DOMAIN c.agents |->
                         IF c.agents[i] # c.manager /\ c.agents[i] \in c.configured THEN <<c.agents[i]>> ELSE <<>>]
  OBVIOUS
<1>4. \A i \in 1..n : ss[i] \in Seq(DOMAIN c.own)
  <2>1. ASSUME NEW i \in 1..n PROVE ss[i] \in Seq(DOMAIN c.own)
    <3>1. <<>> \in Seq(DOMAIN c.own) /\ <<c.agents[i]>> \in Seq(DOMAIN c.own)
      BY <1>2, EmptyHas, SingleHas
    <3>2. ss[i] = <<>> \/ ss[i] = <<c.agents[i]>>
      BY <1>2, <1>3
    <3>. QED  BY <3>1, <3>2
  <2>. QED  BY <2>1
<1>5. ss \in [1..n -> Seq(DOMAIN c.own)]
  BY <1>2, <1>3, <1>4
<1>6. ss \in Seq(Seq(DOMAIN c.own))
  BY <1>5, SeqFromTo
<1>7. FlattenSeq(ss) \in Seq(DOMAIN c.own)
  BY <1>6, FlattenedHas
<1>. QED  BY <1>3, <1>7 DEF Specialists

\* The list of a crew has every tool of every agent that is built.
LEMMA ErrandsHave ==
    ASSUME NEW c \in Crews, NEW P, P = DOMAIN Specialists(c)
    PROVE  /\ Errands(c) \in Seq([place : P, tool : ToolIds])
           /\ \A i \in P : \A t \in Mine(c, Specialists(c)[i]) : AnErrand(i, t) \in ToSet(Errands(c))
<1>1. PICK them \in Seq(DOMAIN c.own) : them = Specialists(c)
  BY SpecialistsAre
<1>2. PICK n \in Nat : P = 1..n /\ \A i \in 1..n : them[i] \in DOMAIN c.own
  BY <1>1, SeqIs
<1> DEFINE Of(i) == LET mine == ToolsOf(c, them[i])
                    IN  [j \in DOMAIN mine |-> [place |-> i, tool |-> mine[j]]]
           E == [place : P, tool : ToolIds]
<1>3. PICK ss : ss = [i \in P |-> Of(i)]
  OBVIOUS
<1>4. ASSUME NEW i \in P
      PROVE  /\ ss[i] \in Seq(E)
             /\ \A t \in Mine(c, them[i]) : AnErrand(i, t) \in ToSet(ss[i])
  <2>1. PICK mine \in Seq(ToolIds) : mine = ToolsOf(c, them[i]) /\ Mine(c, them[i]) \subseteq ToSet(mine)
    BY <1>2, ToolsOfHas
  <2>2. Len(mine) \in Nat /\ DOMAIN mine = 1..Len(mine) /\ \A j \in 1..Len(mine) : mine[j] \in ToolIds
    BY SeqIs
  <2>3. ss[i] = [j \in 1..Len(mine) |-> AnErrand(i, mine[j])]
    BY <1>3, <2>1, <2>2 DEF AnErrand
  <2>4. \A j \in 1..Len(mine) : AnErrand(i, mine[j]) \in E
    BY <2>2 DEF AnErrand
  <2> HIDE DEF E
  <2>5. ss[i] \in [1..Len(mine) -> E]
    BY <2>3, <2>4
  <2>6. ss[i] \in Seq(E) /\ DOMAIN ss[i] = 1..Len(mine)
    <3>1. PICK m \in Nat : m = Len(mine)
      BY <2>2
    <3>2. PICK f : f = ss[i]
      OBVIOUS
    <3>3. f \in [1..m -> E]
      BY <2>5, <3>1, <3>2
    <3>4. f \in Seq(E) /\ DOMAIN f = 1..m
      BY <3>3, SeqFromTo
    <3>. QED  BY <3>1, <3>2, <3>4
  <2>7. ASSUME NEW t \in Mine(c, them[i]) PROVE AnErrand(i, t) \in ToSet(ss[i])
    <3>1. PICK j \in 1..Len(mine) : mine[j] = t
      BY <2>1, <2>2 DEF ToSet
    <3>2. ss[i][j] = AnErrand(i, t)
      BY <2>3, <3>1
    <3>. QED  BY <2>6, <3>1, <3>2 DEF ToSet
  <2>. QED  BY <2>6, <2>7
<1> HIDE DEF E
<1>5. ss \in [1..n -> Seq(E)]
  BY <1>2, <1>3, <1>4
<1>6. ss \in Seq(Seq(E)) /\ DOMAIN ss = 1..n
  BY <1>5, SeqFromTo
<1>7. FlattenSeq(ss) \in Seq(E) /\ ToSet(FlattenSeq(ss)) = UNION {ToSet(ss[i]) : i \in DOMAIN ss}
  BY <1>6, FlattenedHas
<1>8. Errands(c) = FlattenSeq(ss)
  BY <1>1, <1>3 DEF Errands
<1>9. \A i \in P : \A t \in Mine(c, them[i]) : AnErrand(i, t) \in ToSet(FlattenSeq(ss))
  BY <1>2, <1>4, <1>6, <1>7
<1>. QED  BY <1>1, <1>7, <1>8, <1>9 DEF E

LEMMA ToolsInitSound == ToolsInit => ToolsInv
<1> SUFFICES ASSUME ToolsInit PROVE ToolsInv
  OBVIOUS
<1>1. <<>> \in Seq(ToolIds) /\ ToSet(<<>>) = {} /\ DOMAIN <<>> = {} /\ Len(<<>>) = 0
  BY EmptyHas
<1>2. ToolsTypeOK
  BY <1>1 DEF ToolsInit, ToolsTypeOK
<1>3. ToolsAreSettled
  BY DEF ToolsInit, ToolsAreSettled
<1>4. ServersAreTracked
  BY <1>1 DEF ToolsInit, ServersAreTracked, ServersAreShared, IsInjective
<1>5. CallsAreTracked
  BY <1>1 DEF ToolsInit, CallsAreTracked, CallsAreReported, Blank
<1>. QED  BY <1>2, <1>3, <1>4, <1>5 DEF ToolsInv

LEMMA TailHas ==
    ASSUME NEW T, NEW s \in Seq(T), s # <<>>
    PROVE  /\ Head(s) \in T /\ Tail(s) \in Seq(T)
           /\ \A x \in ToSet(s) : x = Head(s) \/ x \in ToSet(Tail(s))
           /\ ToSet(Tail(s)) \subseteq ToSet(s)
<1>1. PICK t : t = Tail(s)
  OBVIOUS
<1>2. /\ Head(s) \in T /\ t \in Seq(T) /\ Len(t) = Len(s) - 1 /\ Head(s) = s[1]
      /\ \A i \in 1..Len(t) : t[i] = s[i + 1]
  BY <1>1, HeadTailProperties
<1>3. Len(s) \in Nat /\ DOMAIN s = 1..Len(s) /\ DOMAIN t = 1..Len(t)
  BY <1>2, SeqIs
<1>4. ASSUME NEW x \in ToSet(s), x # Head(s) PROVE x \in ToSet(t)
  <2>1. PICK i \in 1..Len(s) : s[i] = x
    BY <1>3 DEF ToSet
  <2>2. i # 1
    BY <1>2, <1>4, <2>1
  <2>3. PICK j : j = i - 1
    OBVIOUS
  <2>4. j \in 1..Len(t) /\ j + 1 = i
    BY <1>2, <1>3, <2>2, <2>3
  <2>5. t[j] = x
    BY <1>2, <2>1, <2>4
  <2>. QED  BY <1>3, <2>4, <2>5 DEF ToSet
<1>5. ASSUME NEW x \in ToSet(t) PROVE x \in ToSet(s)
  <2>1. PICK i \in 1..Len(t) : t[i] = x
    BY <1>3 DEF ToSet
  <2>2. i + 1 \in 1..Len(s) /\ s[i + 1] = x
    BY <1>2, <1>3, <2>1
  <2>. QED  BY <1>3, <2>2 DEF ToSet
<1>. QED  BY <1>1, <1>2, <1>4, <1>5

LEMMA RunBeginsKeeps == ASSUME ToolsInv, RunBegins PROVE ToolsInv'
<1>1. PICK c \in Crews : c = crew
  BY DEF ToolsInv, ToolsTypeOK
<1>2. PICK them \in Seq(DOMAIN c.own) : them = Specialists(c)
  BY SpecialistsAre
<1>3. PICK P : P = DOMAIN them /\ \A i \in P : them[i] \in DOMAIN c.own
  BY <1>2, SeqIs
<1>4. /\ Errands(c) \in Seq([place : P, tool : ToolIds])
      /\ \A i \in P : \A t \in Mine(c, them[i]) : AnErrand(i, t) \in ToSet(Errands(c))
  BY <1>2, <1>3, ErrandsHave
<1>5. /\ crew' = crew /\ stage' = "building" /\ todo' = Errands(c) /\ Places = P /\ Places' = P
      /\ built' = [i \in P |-> [agent |-> them[i], tools |-> {}, model |-> ModelOf(c, them[i])]]
      /\ cache' = cache /\ stack' = stack /\ running' = running /\ opened' = opened /\ excused' = excused
      /\ UNCHANGED ioVars
  BY <1>1, <1>2, <1>3 DEF RunBegins, Places
<1>6. built' \in [P -> BuiltType'] /\ \A i \in P : built'[i].agent = them[i] /\ built'[i].tools = {}
  BY <1>1, <1>3, <1>5 DEF BuiltType
<1>7. ToolsTypeOK'
  BY <1>1, <1>4, <1>5, <1>6 DEF ToolsInv, ToolsTypeOK, ErrandType
<1>8. ToolsAreSettled'
  BY <1>1, <1>4, <1>5, <1>6 DEF ToolsAreSettled, IsSettled
<1>9. ServersAreTracked'
  <2>1. DOMAIN cache = {}
    BY DEF RunBegins, ToolsInv, ToolsTypeOK
  <2>. QED  BY <1>5, <1>6, <2>1 DEF ToolsInv, ServersAreTracked, ServersAreShared
<1>10. CallsAreTracked'
  BY <1>5 DEF ioVars, ToolsInv, CallsAreTracked, CallsAreReported
<1>. QED  BY <1>7, <1>8, <1>9, <1>10 DEF ToolsInv

\* The account of the calls is not touched by what does not call.
LEMMA CallsStayTracked == ASSUME CallsAreTracked, UNCHANGED ioVars PROVE CallsAreTracked'
  BY DEF ioVars, CallsAreTracked, CallsAreReported

LEMMA RestsKeep == ASSUME ToolsInv, UNCHANGED <<ioVars, buildVars, stage>> PROVE ToolsInv'
<1>1. Places' = Places /\ BuiltType' = BuiltType /\ ErrandType' = ErrandType
  BY DEF buildVars, Places, BuiltType, ErrandType
<1>2. ToolsTypeOK'
  BY <1>1 DEF buildVars, ToolsInv, ToolsTypeOK
<1>3. ToolsAreSettled'
  BY <1>1 DEF buildVars, ToolsInv, ToolsAreSettled, IsSettled
<1>4. ServersAreTracked'
  BY <1>1 DEF buildVars, ToolsInv, ServersAreTracked, ServersAreShared
<1>. QED  BY <1>2, <1>3, <1>4, CallsStayTracked DEF ToolsInv

\* What was given and excused is all of the step's errand e.
Gave(e) == built' = [built EXCEPT ![e.place].tools = @ \cup {e.tool}]

\* The first errand is done: its tool was given, or there is an excuse, and only
\* servers that run were given.
LEMMA ErrandsKeep ==
    ASSUME ToolsInv, stage = "building", todo # <<>>, NEW e, e = Head(todo), Done,
           excused \subseteq excused', stack' \in Seq(ToolIds), opened' \in Seq(ToolIds), running \subseteq running',
           \/ Gave(e) /\ (KindOf[e.tool] = "mcp" => e.tool \in running')
           \/ built' = built /\ (<<e.tool, "missing">> \in excused' \/ <<e.tool, "failed">> \in excused'),
           \A t \in DOMAIN cache' : cache'[t] = "built" \/ <<t, "failed">> \in excused',
           \A t \in DOMAIN cache' : cache'[t] = "built" /\ KindOf[t] = "mcp" => t \in running',
           ServersAreShared', ToSet(opened') \subseteq DOMAIN cache', running' \subseteq ToSet(stack')
    PROVE  ToolsInv'
<1>1. /\ todo \in Seq(ErrandType) /\ built \in [Places -> BuiltType] /\ crew \in Crews
  BY DEF ToolsInv, ToolsTypeOK
<1>2. /\ e \in ErrandType /\ todo' \in Seq(ErrandType)
      /\ \A x \in ToSet(todo) : x = e \/ x \in ToSet(todo')
  BY <1>1, TailHas DEF Done
<1>3. e.place \in Places /\ e.tool \in ToolIds
  BY <1>2 DEF ErrandType
<1>4. crew' = crew /\ stage' = stage /\ Places' = Places /\ BuiltType' = BuiltType /\ ErrandType' = ErrandType
  BY DEF Done, Places, BuiltType, ErrandType
<1>5. /\ built' \in [Places -> BuiltType]
      /\ \A i \in Places : built'[i].agent = built[i].agent /\ built[i].tools \subseteq built'[i].tools
      /\ \A i \in Places : \A t \in built'[i].tools :
            t \in built[i].tools \/ (t = e.tool /\ (KindOf[t] = "mcp" => t \in running'))
      /\ \/ e.tool \in built'[e.place].tools
         \/ <<e.tool, "missing">> \in excused' \/ <<e.tool, "failed">> \in excused'
  <2>1. CASE Gave(e) /\ (KindOf[e.tool] = "mcp" => e.tool \in running')
    <3>1. PICK b \in BuiltType : b = built[e.place]
      BY <1>1, <1>3
    <3>2. PICK d : d = [b EXCEPT !.tools = @ \cup {e.tool}]
      OBVIOUS
    <3>3. d \in BuiltType /\ d.agent = b.agent /\ d.tools = b.tools \cup {e.tool}
      <4>1. b.tools \cup {e.tool} \in SUBSET ToolIds
        BY <1>3 DEF BuiltType
      <4>. QED  BY <3>2, <4>1 DEF BuiltType
    <3>4. built' = [built EXCEPT ![e.place] = d]
      BY <2>1, <3>1, <3>2 DEF Gave
    <3>5. \A i \in Places : built'[i] = IF i = e.place THEN d ELSE built[i]
      BY <1>1, <3>4
    <3>6. built' \in [Places -> BuiltType]
      BY <1>1, <1>3, <3>3, <3>4
    <3>7. \A i \in Places : built'[i].agent = built[i].agent /\ built[i].tools \subseteq built'[i].tools
      BY <3>1, <3>3, <3>5
    <3>8. \A i \in Places : \A t \in built'[i].tools : t \in built[i].tools \/ t = e.tool
      BY <3>1, <3>3, <3>5
    <3>9. e.tool \in built'[e.place].tools
      BY <1>3, <3>3, <3>5
    <3>. QED  BY <2>1, <3>6, <3>7, <3>8, <3>9
  <2>2. CASE built' = built /\ (<<e.tool, "missing">> \in excused' \/ <<e.tool, "failed">> \in excused')
    BY <1>1, <2>2
  <2>. QED  BY <2>1, <2>2
<1>6. ToolsTypeOK'
  BY <1>1, <1>2, <1>4, <1>5 DEF ToolsTypeOK
<1>7. ToolsAreSettled'
  <2>1. ASSUME NEW i \in Places, NEW t \in Mine(crew, built[i].agent) PROVE IsSettled(i, t)'
    <3>1. IsSettled(i, t)
      BY DEF ToolsInv, ToolsAreSettled
    <3>2. CASE t \in built[i].tools
      BY <1>5, <3>2 DEF IsSettled
    <3>3. CASE <<t, "missing">> \in excused \/ <<t, "failed">> \in excused
      BY <3>3 DEF IsSettled
    <3>4. CASE AnErrand(i, t) \in ToSet(todo)
      <4>1. CASE AnErrand(i, t) = e
        <5>1. i = e.place /\ t = e.tool
          BY <4>1 DEF AnErrand
        <5>. QED  BY <1>5, <5>1 DEF IsSettled
      <4>2. CASE AnErrand(i, t) # e
        <5>1. AnErrand(i, t) \in ToSet(todo')
          BY <1>2, <3>4, <4>2
        <5>. QED  BY <5>1 DEF IsSettled, AnErrand, ToSet
      <4>. QED  BY <4>1, <4>2
    <3>. QED  BY <3>1, <3>2, <3>3, <3>4 DEF IsSettled
  <2>2. \A i \in Places : \A t \in Mine(crew, built'[i].agent) : IsSettled(i, t)'
    BY <1>5, <2>1
  <2>. QED  BY <1>4, <2>2 DEF ToolsAreSettled
<1>8. ServersAreTracked'
  <2>1. \A i \in Places : \A t \in built'[i].tools : KindOf[t] = "mcp" => t \in running'
    BY <1>5 DEF ToolsInv, ServersAreTracked
  <2>. QED  BY <1>4, <2>1 DEF ServersAreTracked
<1>9. CallsAreTracked'
  BY CallsStayTracked DEF Done, ToolsInv
<1>. QED  BY <1>6, <1>7, <1>8, <1>9 DEF ToolsInv

LEMMA RemembersAdds ==
    ASSUME NEW how, Remembers(how)
    PROVE  /\ DOMAIN cache' = DOMAIN cache \cup {Errand.tool}
           /\ cache'[Errand.tool] = how
           /\ \A t \in DOMAIN cache : t # Errand.tool => cache'[t] = cache[t]
  BY DEF Remembers

\* Everything but the errand is as it was.
Steady == UNCHANGED <<stack, opened, running>>

LEMMA SteadyIs ==
    ASSUME ToolsInv, stage = "building", Steady, excused \subseteq excused', DOMAIN cache \subseteq DOMAIN cache',
           \A t \in DOMAIN cache' :
               \/ t \in DOMAIN cache /\ cache'[t] = cache[t]
               \/ cache'[t] = "built" /\ KindOf[t] # "mcp"
               \/ cache'[t] # "built" /\ <<t, "failed">> \in excused'
    PROVE  /\ stack' \in Seq(ToolIds) /\ opened' \in Seq(ToolIds) /\ running \subseteq running'
           /\ \A t \in DOMAIN cache' : cache'[t] = "built" \/ <<t, "failed">> \in excused'
           /\ \A t \in DOMAIN cache' : cache'[t] = "built" /\ KindOf[t] = "mcp" => t \in running'
           /\ ServersAreShared' /\ ToSet(opened') \subseteq DOMAIN cache' /\ running' \subseteq ToSet(stack')
<1>1. stack' = stack /\ opened' = opened /\ running' = running
  BY DEF Steady
<1>2. /\ stack \in Seq(ToolIds) /\ opened \in Seq(ToolIds) /\ running \subseteq ToSet(stack)
      /\ ServersAreShared /\ ToSet(opened) \subseteq DOMAIN cache
      /\ \A t \in DOMAIN cache : cache[t] = "built" \/ <<t, "failed">> \in excused
      /\ \A t \in DOMAIN cache : cache[t] = "built" /\ KindOf[t] = "mcp" => t \in running
  BY DEF ToolsInv, ToolsTypeOK, ServersAreTracked
<1>3. ServersAreShared'
  BY <1>1, <1>2 DEF ServersAreShared
<1>. QED  BY <1>1, <1>2, <1>3

LEMMA MissesKeeps == ASSUME ToolsInv, Misses PROVE ToolsInv'
<1>1. PICK e : e = Head(todo)
  OBVIOUS
<1>2. /\ stage = "building" /\ todo # <<>> /\ Done /\ cache' = cache /\ Steady /\ built' = built
      /\ excused \subseteq excused' /\ <<e.tool, "missing">> \in excused'
  BY <1>1 DEF Misses, Excused, Errand, Steady
<1>3. /\ stack' \in Seq(ToolIds) /\ opened' \in Seq(ToolIds) /\ running \subseteq running'
      /\ \A t \in DOMAIN cache' : cache'[t] = "built" \/ <<t, "failed">> \in excused'
      /\ \A t \in DOMAIN cache' : cache'[t] = "built" /\ KindOf[t] = "mcp" => t \in running'
      /\ ServersAreShared' /\ ToSet(opened') \subseteq DOMAIN cache' /\ running' \subseteq ToSet(stack')
  BY <1>2, SteadyIs
<1>. QED  BY <1>1, <1>2, <1>3, ErrandsKeep

LEMMA WrapsKeeps == ASSUME ToolsInv, Wraps PROVE ToolsInv'
<1>1. PICK e : e = Head(todo)
  OBVIOUS
<1>2. /\ stage = "building" /\ todo # <<>> /\ Done /\ cache' = cache /\ Steady /\ Gave(e)
      /\ excused' = excused /\ KindOf[e.tool] # "mcp"
  BY <1>1 DEF Wraps, Looks, Given, Gave, Errand, Steady
<1>3. /\ stack' \in Seq(ToolIds) /\ opened' \in Seq(ToolIds) /\ running \subseteq running'
      /\ \A t \in DOMAIN cache' : cache'[t] = "built" \/ <<t, "failed">> \in excused'
      /\ \A t \in DOMAIN cache' : cache'[t] = "built" /\ KindOf[t] = "mcp" => t \in running'
      /\ ServersAreShared' /\ ToSet(opened') \subseteq DOMAIN cache' /\ running' \subseteq ToSet(stack')
  BY <1>2, SteadyIs
<1>4. excused \subseteq excused'
  BY <1>2
<1>. QED  BY <1>1, <1>2, <1>3, <1>4, ErrandsKeep

LEMMA FindsBuiltKeeps == ASSUME ToolsInv, FindsBuilt PROVE ToolsInv'
<1>1. PICK e : e = Head(todo)
  OBVIOUS
<1>2. /\ stage = "building" /\ todo # <<>> /\ Done /\ cache' = cache /\ Steady
      /\ excused' = excused /\ excused \subseteq excused' /\ e.tool \in DOMAIN cache
      /\ cache[e.tool] = "built" => Gave(e)
      /\ cache[e.tool] # "built" => built' = built
  BY <1>1 DEF FindsBuilt, Shares, Looks, Given, Gave, Errand, Steady
<1>3. /\ stack' \in Seq(ToolIds) /\ opened' \in Seq(ToolIds) /\ running \subseteq running'
      /\ \A t \in DOMAIN cache' : cache'[t] = "built" \/ <<t, "failed">> \in excused'
      /\ \A t \in DOMAIN cache' : cache'[t] = "built" /\ KindOf[t] = "mcp" => t \in running'
      /\ ServersAreShared' /\ ToSet(opened') \subseteq DOMAIN cache' /\ running' \subseteq ToSet(stack')
  BY <1>2, SteadyIs
<1>4. \/ Gave(e) /\ (KindOf[e.tool] = "mcp" => e.tool \in running')
      \/ built' = built /\ <<e.tool, "failed">> \in excused'
  BY <1>2, <1>3
<1>. QED  BY <1>1, <1>2, <1>3, <1>4, ErrandsKeep

LEMMA FailsKeeps == ASSUME ToolsInv, Fails PROVE ToolsInv'
<1>1. PICK e : e = Head(todo)
  OBVIOUS
<1>2. /\ stage = "building" /\ todo # <<>> /\ Done /\ Steady /\ built' = built
      /\ excused \subseteq excused' /\ <<e.tool, "failed">> \in excused' /\ Remembers("failed")
  BY <1>1 DEF Fails, First, Looks, Excused, Errand, Steady
<1>3. /\ DOMAIN cache' = DOMAIN cache \cup {e.tool} /\ cache'[e.tool] = "failed"
      /\ \A t \in DOMAIN cache : t # e.tool => cache'[t] = cache[t]
  BY <1>1, <1>2, RemembersAdds DEF Errand
<1>4. /\ stack' \in Seq(ToolIds) /\ opened' \in Seq(ToolIds) /\ running \subseteq running'
      /\ \A t \in DOMAIN cache' : cache'[t] = "built" \/ <<t, "failed">> \in excused'
      /\ \A t \in DOMAIN cache' : cache'[t] = "built" /\ KindOf[t] = "mcp" => t \in running'
      /\ ServersAreShared' /\ ToSet(opened') \subseteq DOMAIN cache' /\ running' \subseteq ToSet(stack')
  BY <1>2, <1>3, SteadyIs
<1>. QED  BY <1>1, <1>2, <1>4, ErrandsKeep

LEMMA BuildsKeeps == ASSUME ToolsInv, Builds PROVE ToolsInv'
<1>1. PICK e : e = Head(todo)
  OBVIOUS
<1>2. /\ stage = "building" /\ todo # <<>> /\ Done /\ Steady /\ Gave(e) /\ KindOf[e.tool] # "mcp"
      /\ excused' = excused /\ excused \subseteq excused' /\ Remembers("built")
  BY <1>1 DEF Builds, First, Looks, Given, Gave, Errand, Steady
<1>3. /\ DOMAIN cache' = DOMAIN cache \cup {e.tool} /\ cache'[e.tool] = "built"
      /\ \A t \in DOMAIN cache : t # e.tool => cache'[t] = cache[t]
  BY <1>1, <1>2, RemembersAdds DEF Errand
<1>4. /\ stack' \in Seq(ToolIds) /\ opened' \in Seq(ToolIds) /\ running \subseteq running'
      /\ \A t \in DOMAIN cache' : cache'[t] = "built" \/ <<t, "failed">> \in excused'
      /\ \A t \in DOMAIN cache' : cache'[t] = "built" /\ KindOf[t] = "mcp" => t \in running'
      /\ ServersAreShared' /\ ToSet(opened') \subseteq DOMAIN cache' /\ running' \subseteq ToSet(stack')
  BY <1>2, <1>3, SteadyIs
<1>. QED  BY <1>1, <1>2, <1>4, ErrandsKeep

LEMMA OpensServerKeeps == ASSUME ToolsInv, OpensServer PROVE ToolsInv'
<1>1. PICK e : e = Head(todo)
  OBVIOUS
<1>2. /\ stage = "building" /\ todo # <<>> /\ Done /\ e.tool \notin DOMAIN cache
      /\ running' = running \cup {e.tool} /\ opened' = Append(opened, e.tool) /\ stack' = <<e.tool>> \o stack
      /\ excused \subseteq excused'
      /\ \/ Remembers("built") /\ Gave(e)
         \/ Remembers("failed") /\ <<e.tool, "failed">> \in excused' /\ built' = built
  BY <1>1 DEF OpensServer, First, Looks, Given, Gave, Errand, Excused
<1>3. PICK how : /\ Remembers(how)
                 /\ \/ how = "built" /\ Gave(e)
                    \/ how = "failed" /\ <<e.tool, "failed">> \in excused' /\ built' = built
  BY <1>2
<1>4. /\ DOMAIN cache' = DOMAIN cache \cup {e.tool} /\ cache'[e.tool] = how
      /\ \A t \in DOMAIN cache : t # e.tool => cache'[t] = cache[t]
  BY <1>1, <1>3, RemembersAdds DEF Errand
<1>5. /\ stack \in Seq(ToolIds) /\ opened \in Seq(ToolIds) /\ running \subseteq ToSet(stack)
      /\ ServersAreShared /\ ToSet(opened) \subseteq DOMAIN cache
      /\ \A t \in DOMAIN cache : cache[t] = "built" \/ <<t, "failed">> \in excused
      /\ \A t \in DOMAIN cache : cache[t] = "built" /\ KindOf[t] = "mcp" => t \in running
  BY <1>2 DEF ToolsInv, ToolsTypeOK, ServersAreTracked
<1>6. e.tool \in ToolIds
  <2>1. e \in ErrandType
    BY <1>1, <1>2, TailHas DEF ToolsInv, ToolsTypeOK
  <2>. QED  BY <2>1 DEF ErrandType
<1>7. stack' \in Seq(ToolIds) /\ ToSet(stack') = {e.tool} \cup ToSet(stack)
  <2>1. <<e.tool>> \in Seq(ToolIds) /\ ToSet(<<e.tool>>) = {e.tool}
    BY <1>6, SingleHas
  <2>2. PICK one \in Seq(ToolIds) : one = <<e.tool>> /\ ToSet(one) = {e.tool}
    BY <2>1
  <2>3. one \o stack \in Seq(ToolIds) /\ ToSet(one \o stack) = ToSet(one) \cup ToSet(stack)
    BY <1>5, ConcatHas
  <2>. QED  BY <1>2, <2>2, <2>3
<1>8. PICK o : o = opened'
  OBVIOUS
<1>9. /\ o \in Seq(ToolIds) /\ Len(o) = Len(opened) + 1 /\ Len(opened) \in Nat
      /\ \A i \in 1..Len(opened) : o[i] = opened[i]
      /\ o[Len(opened) + 1] = e.tool
  BY <1>2, <1>5, <1>6, <1>8, AppendProperties, LenProperties
<1>10. DOMAIN o = 1..Len(opened) + 1 /\ DOMAIN opened = 1..Len(opened)
  BY <1>5, <1>9, SeqIs
<1>11. ToSet(o) = ToSet(opened) \cup {e.tool}
  <2>1. ASSUME NEW x \in ToSet(o) PROVE x \in ToSet(opened) \cup {e.tool}
    <3>1. PICK i \in 1..Len(opened) + 1 : o[i] = x
      BY <1>10 DEF ToSet
    <3>2. CASE i = Len(opened) + 1
      BY <1>9, <3>1, <3>2
    <3>3. CASE i # Len(opened) + 1
      <4>1. i \in 1..Len(opened) /\ opened[i] = x
        BY <1>9, <3>1, <3>3
      <4>. QED  BY <1>10, <4>1 DEF ToSet
    <3>. QED  BY <3>2, <3>3
  <2>2. ASSUME NEW x \in ToSet(opened) PROVE x \in ToSet(o)
    <3>1. PICK i \in 1..Len(opened) : opened[i] = x
      BY <1>10 DEF ToSet
    <3>2. i \in 1..Len(opened) + 1 /\ o[i] = x
      BY <1>9, <3>1
    <3>. QED  BY <1>10, <3>2 DEF ToSet
  <2>3. e.tool \in ToSet(o)
    <3>1. Len(opened) + 1 \in DOMAIN o
      BY <1>9, <1>10
    <3>. QED  BY <1>9, <3>1 DEF ToSet
  <2>. QED  BY <2>1, <2>2, <2>3
<1>12. IsInjective(o)
  <2>1. \A i \in 1..Len(opened) : opened[i] # e.tool
    BY <1>2, <1>5, <1>10 DEF ToSet
  <2>2. \A i, j \in 1..Len(opened) : opened[i] = opened[j] => i = j
    BY <1>5, <1>10 DEF ServersAreShared, IsInjective
  <2>3. ASSUME NEW i \in 1..Len(opened) + 1, NEW j \in 1..Len(opened) + 1, o[i] = o[j] PROVE i = j
    <3>1. CASE i \in 1..Len(opened) /\ j \in 1..Len(opened)
      BY <1>9, <2>2, <2>3, <3>1
    <3>2. CASE i \in 1..Len(opened) /\ j = Len(opened) + 1
      BY <1>9, <2>1, <2>3, <3>2
    <3>3. CASE j \in 1..Len(opened) /\ i = Len(opened) + 1
      BY <1>9, <2>1, <2>3, <3>3
    <3>. QED  BY <1>9, <3>1, <3>2, <3>3
  <2>. QED  BY <1>10, <2>3 DEF IsInjective
<1>13. /\ ServersAreShared' /\ opened' \in Seq(ToolIds) /\ ToSet(opened') \subseteq DOMAIN cache'
  BY <1>4, <1>5, <1>8, <1>9, <1>11, <1>12 DEF ServersAreShared
<1>14. running \subseteq running' /\ running' \subseteq ToSet(stack') /\ e.tool \in running'
  BY <1>2, <1>5, <1>7
<1>15. /\ \A t \in DOMAIN cache' : cache'[t] = "built" \/ <<t, "failed">> \in excused'
       /\ \A t \in DOMAIN cache' : cache'[t] = "built" /\ KindOf[t] = "mcp" => t \in running'
  <2>1. ASSUME NEW t \in DOMAIN cache'
        PROVE  /\ cache'[t] = "built" \/ <<t, "failed">> \in excused'
               /\ cache'[t] = "built" /\ KindOf[t] = "mcp" => t \in running'
    <3>1. CASE t = e.tool
      <4>1. cache'[t] = how /\ t \in running' /\ (how = "built" \/ <<t, "failed">> \in excused')
        BY <1>3, <1>4, <1>14, <3>1
      <4>. QED  BY <4>1
    <3>2. CASE t # e.tool
      <4>1. t \in DOMAIN cache /\ cache'[t] = cache[t]
        BY <1>4, <2>1, <3>2
      <4>2. (cache[t] = "built" \/ <<t, "failed">> \in excused) /\ excused \subseteq excused'
        BY <1>2, <1>5, <4>1
      <4>3. cache[t] = "built" /\ KindOf[t] = "mcp" => t \in running'
        BY <1>5, <1>14, <4>1
      <4>. QED  BY <4>1, <4>2, <4>3
    <3>. QED  BY <3>1, <3>2
  <2>. QED  BY <2>1
<1>16. \/ Gave(e) /\ (KindOf[e.tool] = "mcp" => e.tool \in running')
       \/ built' = built /\ <<e.tool, "failed">> \in excused'
  BY <1>3, <1>14
<1>. QED  BY <1>1, <1>2, <1>7, <1>13, <1>14, <1>15, <1>16, ErrandsKeep

LEMMA FailsRunKeeps == ASSUME ToolsInv, FailsRun PROVE ToolsInv'
<1>1. /\ stage = "building" /\ stage' = "closing" /\ crew' = crew /\ todo' = todo /\ built' = built /\ cache' = cache
      /\ stack' = stack /\ running' = running /\ opened' = opened /\ excused \subseteq excused'
      /\ UNCHANGED ioVars /\ Places' = Places /\ BuiltType' = BuiltType /\ ErrandType' = ErrandType
  BY DEF FailsRun, First, Looks, Excused, Places, BuiltType, ErrandType
<1>2. ToolsTypeOK'
  BY <1>1 DEF ToolsInv, ToolsTypeOK
<1>3. ToolsAreSettled'
  BY <1>1 DEF ToolsAreSettled
<1>4. ServersAreTracked'
  <2>1. \A t \in DOMAIN cache : cache[t] = "built" \/ <<t, "failed">> \in excused'
    BY <1>1 DEF ToolsInv, ServersAreTracked
  <2>2. ServersAreShared'
    BY <1>1 DEF ToolsInv, ServersAreTracked, ServersAreShared
  <2>. QED  BY <1>1, <2>1, <2>2 DEF ToolsInv, ServersAreTracked
<1>. QED  BY <1>1, <1>2, <1>3, <1>4, CallsStayTracked DEF ToolsInv

\* The run goes on to another stage with everything it has.
LEMMA StagesKeep ==
    ASSUME ToolsInv, UNCHANGED <<buildVars, ioVars>>,
           \/ stage = "building" /\ stage' = "working" /\ todo = <<>>
           \/ stage \in {"building", "working"} /\ stage' = "closing"
           \/ stage = "closing" /\ stage' = "over" /\ stack = <<>>
    PROVE  ToolsInv'
<1>1. /\ crew' = crew /\ todo' = todo /\ built' = built /\ cache' = cache /\ stack' = stack
      /\ running' = running /\ opened' = opened /\ excused' = excused
      /\ Places' = Places /\ BuiltType' = BuiltType /\ ErrandType' = ErrandType
  BY DEF buildVars, Places, BuiltType, ErrandType
<1>2. ToolsTypeOK'
  BY <1>1 DEF ToolsInv, ToolsTypeOK
<1>3. ToolsAreSettled'
  BY <1>1 DEF ToolsInv, ToolsAreSettled, IsSettled
<1>4. ServersAreTracked'
  <2>1. ServersAreShared'
    BY <1>1 DEF ToolsInv, ServersAreTracked, ServersAreShared
  <2>. QED  BY <1>1, <2>1 DEF ToolsInv, ServersAreTracked
<1>. QED  BY <1>2, <1>3, <1>4, CallsStayTracked DEF ToolsInv

\* The crew is as it was while its tools are called.
LEMMA OnlyCallsKeep == ASSUME ToolsInv, UNCHANGED <<buildVars, stage>>, CallsAreTracked' PROVE ToolsInv'
<1>1. Places' = Places /\ BuiltType' = BuiltType /\ ErrandType' = ErrandType
  BY DEF buildVars, Places, BuiltType, ErrandType
<1>2. ToolsTypeOK'
  BY <1>1 DEF buildVars, ToolsInv, ToolsTypeOK
<1>3. ToolsAreSettled'
  BY <1>1 DEF buildVars, ToolsInv, ToolsAreSettled, IsSettled
<1>4. ServersAreTracked'
  BY <1>1 DEF buildVars, ToolsInv, ServersAreTracked, ServersAreShared
<1>. QED  BY <1>2, <1>3, <1>4 DEF ToolsInv

LEMMA CallsKeeps == ASSUME ToolsInv, Calls PROVE ToolsInv'
<1>1. PICK i \in DOMAIN built : \E t \in built[i].tools :
          /\ calls' = Append(calls, t)
          /\ mixed' = IF t \in {calls[k] : k \in underway} THEN mixed \cup {t} ELSE mixed
          /\ toolIo' = [toolIo EXCEPT ![t] = Begun(toolIo[t], Len(calls'))]
  BY DEF Calls
<1>2. PICK t \in built[i].tools :
          /\ calls' = Append(calls, t)
          /\ mixed' = IF t \in {calls[k] : k \in underway} THEN mixed \cup {t} ELSE mixed
          /\ toolIo' = [toolIo EXCEPT ![t] = Begun(toolIo[t], Len(calls'))]
  BY <1>1
<1>3. /\ underway' = underway \cup {Len(calls')} /\ finished' = finished
      /\ UNCHANGED <<buildVars, stage>> /\ stage = "working"
  BY DEF Calls
<1>4. /\ calls \in Seq(ToolIds) /\ underway \subseteq DOMAIN calls
      /\ toolIo \in [ToolIds -> [args : Nat, result : Nat]] /\ CallsAreReported
      /\ \A k \in underway : calls[k] \notin mixed => toolIo[calls[k]].args = k
  BY DEF ToolsInv, CallsAreTracked
<1>5. t \in ToolIds
  BY <1>2, <1>3 DEF ToolsInv, ToolsTypeOK, BuiltType
<1>6. PICK n \in Nat : n = Len(calls) + 1 /\ DOMAIN calls = 1..(n - 1)
  BY <1>4, SeqIs
<1>7. PICK s : s = calls'
  OBVIOUS
<1>8. s \in Seq(ToolIds) /\ Len(s) = n /\ s[n] = t /\ \A k \in 1..(n - 1) : s[k] = calls[k]
  BY <1>2, <1>4, <1>5, <1>6, <1>7, AppendProperties
<1>9. DOMAIN s = 1..n
  BY <1>8, SeqIs
<1>10. PICK io : io = toolIo'
  OBVIOUS
<1>11. PICK rec : rec = [args |-> n, result |-> 0] /\ rec \in [args : Nat, result : Nat] /\ rec.args = n /\ rec.result = 0
  <2>1. PICK r : r = [args |-> n, result |-> 0]
    OBVIOUS
  <2>2. r \in [args : Nat, result : Nat] /\ r.args = n /\ r.result = 0
    BY <1>6, <2>1
  <2>. QED  BY <2>1, <2>2
<1>12. io = [toolIo EXCEPT ![t] = rec]
  BY <1>2, <1>7, <1>8, <1>10, <1>11 DEF Begun
<1>13. /\ io \in [ToolIds -> [args : Nat, result : Nat]] /\ io[t] = rec
       /\ \A u \in ToolIds : u # t => io[u] = toolIo[u]
  BY <1>4, <1>5, <1>11, <1>12
<1>14. underway' = underway \cup {n} /\ underway \subseteq 1..(n - 1) /\ n \in 1..n
  BY <1>3, <1>4, <1>6, <1>7, <1>8
<1>15. mixed \subseteq mixed' /\ \A k \in underway : calls[k] = t => t \in mixed'
  BY <1>2
<1>16. \A k \in 1..n : KindOf[s[k]] = "function" /\ k \notin underway' => k \in finished'
  <2>1. ASSUME NEW k \in 1..n, KindOf[s[k]] = "function", k \notin underway' PROVE k \in finished
    <3>1. k # n /\ k \in 1..(n - 1)
      BY <1>6, <1>14, <2>1
    <3>. QED  BY <1>4, <1>6, <1>8, <1>14, <2>1, <3>1 DEF CallsAreReported
  <2>. QED  BY <1>3, <2>1
<1>17. \A u \in ToolIds \ mixed' : io[u].result \in {0, io[u].args}
  <2>1. ASSUME NEW u \in ToolIds \ mixed' PROVE io[u].result \in {0, io[u].args}
    <3>1. CASE u = t
      BY <1>11, <1>13, <3>1
    <3>2. CASE u # t
      <4>1. u \in ToolIds \ mixed /\ io[u] = toolIo[u]
        BY <1>13, <1>15, <3>2
      <4>. QED  BY <1>4, <4>1 DEF CallsAreReported
    <3>. QED  BY <3>1, <3>2
  <2>. QED  BY <2>1
<1>18. \A k \in underway' : s[k] \notin mixed' => io[s[k]].args = k
  <2>1. ASSUME NEW k \in underway', s[k] \notin mixed' PROVE io[s[k]].args = k
    <3>1. CASE k = n
      BY <1>8, <1>11, <1>13, <3>1
    <3>2. CASE k \in underway
      <4>1. k \in 1..(n - 1) /\ s[k] = calls[k]
        BY <1>8, <1>14, <3>2
      <4>2. calls[k] \notin mixed /\ calls[k] # t /\ calls[k] \in ToolIds
        BY <1>4, <1>6, <1>15, <2>1, <3>2, <4>1, SeqIs
      <4>. QED  BY <1>4, <1>13, <3>2, <4>1, <4>2
    <3>. QED  BY <1>14, <3>1, <3>2
  <2>. QED  BY <2>1
<1>19. CallsAreReported'
  BY <1>7, <1>9, <1>10, <1>16, <1>17 DEF CallsAreReported
<1>20. underway' \subseteq DOMAIN s
  <2>1. 1..(n - 1) \subseteq 1..n
    BY <1>6
  <2>. QED  BY <1>9, <1>14, <2>1
<1>21. CallsAreTracked'
  BY <1>7, <1>8, <1>10, <1>13, <1>18, <1>19, <1>20 DEF CallsAreTracked
<1>. QED  BY <1>3, <1>21, OnlyCallsKeep

LEMMA CallEndsKeeps == ASSUME ToolsInv, NEW k \in underway, NEW good \in BOOLEAN, CallEnds(k, good) PROVE ToolsInv'
<1>1. /\ underway' = underway \ {k} /\ calls' = calls /\ mixed' = mixed /\ UNCHANGED <<buildVars, stage>>
      /\ \/ finished' = finished \cup {k} /\ toolIo' = [toolIo EXCEPT ![calls[k]].result = k]
         \/ KindOf[calls[k]] # "function" /\ finished' = finished /\ toolIo' = toolIo
  BY DEF CallEnds, Reported
<1>2. /\ calls \in Seq(ToolIds) /\ underway \subseteq DOMAIN calls
      /\ toolIo \in [ToolIds -> [args : Nat, result : Nat]] /\ CallsAreReported
      /\ \A j \in underway : calls[j] \notin mixed => toolIo[calls[j]].args = j
  BY DEF ToolsInv, CallsAreTracked
<1>3. k \in DOMAIN calls /\ k \in Nat /\ calls[k] \in ToolIds
  <2>1. Len(calls) \in Nat /\ DOMAIN calls = 1..Len(calls) /\ \A j \in 1..Len(calls) : calls[j] \in ToolIds
    BY <1>2, SeqIs
  <2>. QED  BY <1>2, <2>1
<1>4. PICK t \in ToolIds : t = calls[k]
  BY <1>3
<1>5. PICK io : io = toolIo'
  OBVIOUS
<1>6. /\ io \in [ToolIds -> [args : Nat, result : Nat]]
      /\ \A u \in ToolIds : io[u].args = toolIo[u].args
      /\ \A u \in ToolIds : u # t => io[u] = toolIo[u]
      /\ io[t].result = toolIo[t].result \/ io[t].result = k
  <2>1. CASE toolIo' = toolIo
    BY <1>2, <1>5, <2>1
  <2>2. CASE toolIo' = [toolIo EXCEPT ![calls[k]].result = k]
    <3>1. PICK b \in [args : Nat, result : Nat] : b = toolIo[t]
      BY <1>2
    <3>2. PICK d : d = [b EXCEPT !.result = k]
      OBVIOUS
    <3>3. d \in [args : Nat, result : Nat] /\ d.args = b.args /\ d.result = k
      BY <1>3, <3>2
    <3>4. io = [toolIo EXCEPT ![t] = d]
      BY <1>4, <1>5, <2>2, <3>1, <3>2
    <3>5. \A u \in ToolIds : io[u] = IF u = t THEN d ELSE toolIo[u]
      BY <1>2, <3>4
    <3>6. io \in [ToolIds -> [args : Nat, result : Nat]]
      BY <1>2, <3>3, <3>4
    <3>. QED  BY <3>1, <3>3, <3>5, <3>6
  <2>. QED  BY <1>1, <2>1, <2>2
<1>7. CallsAreReported'
  <2>1. ASSUME NEW j \in DOMAIN calls, KindOf[calls[j]] = "function", j \notin underway' PROVE j \in finished'
    <3>1. CASE j = k
      BY <1>1, <2>1, <3>1
    <3>2. CASE j # k
      <4>1. j \in finished
        BY <1>1, <1>2, <2>1, <3>2 DEF CallsAreReported
      <4>. QED  BY <1>1, <4>1
    <3>. QED  BY <3>1, <3>2
  <2>2. ASSUME NEW u \in ToolIds \ mixed PROVE io[u].result \in {0, io[u].args}
    <3>1. toolIo[u].result \in {0, toolIo[u].args}
      BY <1>2 DEF CallsAreReported
    <3>2. CASE u # t
      BY <1>6, <3>1, <3>2
    <3>3. CASE u = t
      <4>1. toolIo[t].args = k
        BY <1>2, <1>4, <3>3
      <4>. QED  BY <1>6, <3>1, <3>3, <4>1
    <3>. QED  BY <3>2, <3>3
  <2>. QED  BY <1>1, <1>5, <2>1, <2>2 DEF CallsAreReported
<1>8. \A j \in underway' : calls[j] \notin mixed => io[calls[j]].args = j
  <2>1. ASSUME NEW j \in underway', calls[j] \notin mixed PROVE io[calls[j]].args = j
    <3>1. j \in underway /\ toolIo[calls[j]].args = j
      BY <1>1, <1>2, <2>1
    <3>2. calls[j] \in ToolIds
      <4>1. DOMAIN calls = 1..Len(calls) /\ \A i \in 1..Len(calls) : calls[i] \in ToolIds
        BY <1>2, SeqIs
      <4>. QED  BY <1>2, <3>1, <4>1
    <3>. QED  BY <1>6, <3>1, <3>2
  <2>. QED  BY <2>1
<1>9. underway' \subseteq DOMAIN calls
  BY <1>1, <1>2
<1>10. CallsAreTracked'
  BY <1>1, <1>2, <1>5, <1>6, <1>7, <1>8, <1>9 DEF CallsAreTracked
<1>. QED  BY <1>1, <1>10, OnlyCallsKeep

LEMMA ClosesKeeps == ASSUME ToolsInv, Closes PROVE ToolsInv'
<1>1. /\ stage = "closing" /\ stage' = stage /\ stack # <<>> /\ stack' = Tail(stack) /\ running' = running \ {Head(stack)}
      /\ crew' = crew /\ todo' = todo /\ built' = built /\ cache' = cache /\ opened' = opened /\ excused' = excused
      /\ UNCHANGED ioVars /\ Places' = Places /\ BuiltType' = BuiltType /\ ErrandType' = ErrandType
  BY DEF Closes, Places, BuiltType, ErrandType
<1>2. stack \in Seq(ToolIds) /\ running \subseteq ToSet(stack)
  BY DEF ToolsInv, ToolsTypeOK, ServersAreTracked
<1>3. /\ stack' \in Seq(ToolIds)
      /\ \A x \in ToSet(stack) : x = Head(stack) \/ x \in ToSet(stack')
  BY <1>1, <1>2, TailHas
<1>4. running' \subseteq ToSet(stack')
  BY <1>1, <1>2, <1>3
<1>5. ToolsTypeOK'
  BY <1>1, <1>3 DEF ToolsInv, ToolsTypeOK
<1>6. ToolsAreSettled'
  BY <1>1 DEF ToolsAreSettled
<1>7. ServersAreTracked'
  <2>1. ServersAreShared'
    BY <1>1 DEF ToolsInv, ServersAreTracked, ServersAreShared
  <2>. QED  BY <1>1, <1>4, <2>1 DEF ToolsInv, ServersAreTracked
<1>. QED  BY <1>1, <1>5, <1>6, <1>7, CallsStayTracked DEF ToolsInv

LEMMA ToolsStepKeeps == ASSUME ToolsInv, [ToolsNext]_crewToolVars PROVE ToolsInv'
<1>1. CASE LoadBegins \/ Registers \/ MakesRegistry \/ UNCHANGED crewToolVars
  <2>1. UNCHANGED <<ioVars, buildVars, stage>>
    BY <1>1 DEF LoadBegins, Registers, MakesRegistry, crewToolVars, registryVars
  <2>. QED  BY <2>1, RestsKeep
<1>2. CASE StartsWork
  <2>1. /\ UNCHANGED <<buildVars, ioVars>> /\ stage = "building" /\ todo = <<>>
        /\ stage' = "working" \/ stage' = "closing"
    BY <1>2 DEF StartsWork
  <2>. QED  BY <2>1, StagesKeep
<1>3. CASE WorkEnds \/ RunEnds
  <2>1. /\ UNCHANGED <<buildVars, ioVars>>
        /\ \/ stage = "working" /\ stage' = "closing"
           \/ stage = "closing" /\ stage' = "over" /\ stack = <<>>
    BY <1>3 DEF WorkEnds, RunEnds
  <2>. QED  BY <2>1, StagesKeep
<1>4. CASE \E k \in underway, good \in BOOLEAN : CallEnds(k, good)
  BY <1>4, CallEndsKeeps
<1>. QED
  BY <1>1, <1>2, <1>3, <1>4, RunBeginsKeeps, MissesKeeps, WrapsKeeps, FindsBuiltKeeps, FailsKeeps, BuildsKeeps,
     OpensServerKeeps, FailsRunKeeps, CallsKeeps, ClosesKeeps DEF ToolsNext

LEMMA StoppedAndShared == ASSUME ToolsInv PROVE ServersAreStopped /\ ServersAreShared /\ CallsAreReported
<1>1. stage = "over" => running = {}
  BY EmptyHas DEF ToolsInv, ServersAreTracked
<1>2. stage = "working" => \A i \in DOMAIN built : \A t \in built[i].tools : KindOf[t] = "mcp" => t \in running
  BY DEF ToolsInv, ToolsTypeOK, ServersAreTracked
<1>. QED  BY <1>1, <1>2 DEF ToolsInv, ServersAreTracked, CallsAreTracked, ServersAreStopped

LEMMA ToolsAreThere == ASSUME ToolsInv PROVE AgentsHaveTheirTools
<1>1. SUFFICES ASSUME stage = "working", NEW i \in DOMAIN built, NEW t \in Mine(crew, built[i].agent)
               PROVE  t \in built[i].tools \/ <<t, "missing">> \in excused \/ <<t, "failed">> \in excused
  BY DEF AgentsHaveTheirTools, Mine
<1>2. i \in Places /\ todo = <<>>
  BY <1>1 DEF ToolsInv, ToolsTypeOK
<1>3. ToSet(todo) = {}
  BY <1>2, EmptyHas
<1>. QED  BY <1>1, <1>2, <1>3 DEF ToolsInv, ToolsAreSettled, IsSettled

LEMMA PinsHold == ASSUME ToolsInv PROVE AgentsArePinned
<1>1. SUFFICES ASSUME NEW i \in DOMAIN built, NEW f \in DOMAIN crew.pin
               PROVE  built[i].model[f] = crew.pin[f]
  BY DEF AgentsArePinned
<1>2. stage # "waiting"
  <2>1. built = <<>> => DOMAIN built = {}
    BY EmptyHas
  <2>. QED  BY <1>1, <2>1 DEF ToolsInv, ToolsTypeOK
<1>3. PICK a : built[i].model = ModelOf(crew, a)
  BY <1>1, <1>2 DEF ToolsInv, ToolsTypeOK, BuiltType
<1>4. PICK p : p = crew.pin
  OBVIOUS
<1>5. PICK m : m = ModelOf(crew, a)
  OBVIOUS
<1>6. m[f] = p[f]
  BY <1>1, <1>4, <1>5 DEF ModelOf, Over
<1>. QED  BY <1>3, <1>4, <1>5, <1>6

\* However a run goes, and whatever reloads of the registry it meets: the servers
\* it opened are opened once and stopped when it is over, its agents have their
\* tools, or an excuse, and what is pinned; its calls are reported.
THEOREM RunsAlwaysHaveTheirTools == ToolsSpec => []RunHasItsTools
<1>1. ToolsInit => ToolsInv
  BY ToolsInitSound
<1>2. ToolsInv /\ [ToolsNext]_crewToolVars => ToolsInv'
  BY ToolsStepKeeps
<1>3. ToolsInv => RunHasItsTools
  BY StoppedAndShared, ToolsAreThere, PinsHold DEF RunHasItsTools
<1>. QED  BY <1>1, <1>2, <1>3, PTL DEF ToolsSpec

-----------------------------------------------------------------------------
(* The conversations of a page (ChatPage): each message in its own thread, *)
(* and what was removed or switched off stays away                         *)

\* A message under way.
Letter == [n : Nat, session : Sessions \cup {Nothing},
           at : {"creating", "uploading", "reading", "asking", "running", "answered"},
           files : SUBSET Files]

\* What every transcript holds was typed, and typed there.
TranscriptsInv ==
    /\ transcripts = [s \in DOMAIN transcripts |-> transcripts[s]]
    /\ DOMAIN transcripts \subseteq made
    /\ \A s \in DOMAIN transcripts : \A e \in transcripts[s] : e[2] \in DOMAIN typedIn
    /\ \A s \in DOMAIN transcripts : \A n \in DOMAIN typedIn : <<"user", n>> \in transcripts[s] =>
        IF typedIn[n] # Nothing THEN typedIn[n] = s
        ELSE \A m \in DOMAIN typedIn : <<"user", m>> \in transcripts[s] => m >= n

UploadsInv ==
    /\ staged \subseteq Files
    /\ \A u \in uploaded : u.n \in DOMAIN typedIn /\ typedIn[u.n] \in {u.session, Nothing}

\* The message under way is the last one typed; it goes where it was typed, or
\* to a session that holds nothing else.
SendingInv ==
    busy =>
        /\ sending \in Letter
        /\ sending.n = Len(typedIn) /\ sending.n \in DOMAIN typedIn
        /\ sending.at = "creating" => typedIn[sending.n] = Nothing
        /\ sending.at # "creating" =>
              /\ typedIn[sending.n] \in {sending.session, Nothing}
              /\ typedIn[sending.n] = Nothing /\ sending.session \in DOMAIN transcripts =>
                    \A e \in transcripts[sending.session] : e[2] = sending.n

ListInv ==
    /\ made \subseteq Sessions /\ chats \subseteq made /\ removed \subseteq made
    /\ removed \cap chats = {}
    /\ activeId \in chats \cup {Nothing}
    /\ keepHistory \in BOOLEAN
    /\ kept = IF keepHistory THEN [chats |-> chats, active |-> activeId] ELSE NoChats

PageInv ==
    /\ typedIn \in Seq(Sessions \cup {Nothing}) /\ busy \in BOOLEAN
    /\ TranscriptsInv /\ UploadsInv /\ SendingInv /\ ListInv

LEMMA PageInvInit == PageInit => PageInv
<1> SUFFICES ASSUME PageInit PROVE PageInv
  OBVIOUS
<1>1. TranscriptsInv
  BY DEF PageInit, TranscriptsInv
<1>2. UploadsInv /\ SendingInv
  BY DEF PageInit, UploadsInv, SendingInv
<1>3. ListInv
  BY DEF PageInit, ListInv, NoChats
<1>4. typedIn = <<>> /\ busy = FALSE
  BY DEF PageInit
<1>5. typedIn \in Seq(Sessions \cup {Nothing})
  BY <1>4
<1> QED
  BY <1>1, <1>2, <1>3, <1>4, <1>5 DEF PageInv

\* What the server takes of the message under way.
LEMMA ToldKeeps ==
    ASSUME PageInv, busy, sending.at # "creating", NEW entries,
           entries \subseteq {<<"user", sending.n>>, <<"assistant", sending.n>>},
           transcripts' = Told(sending.session, entries), made' = made, typedIn' = typedIn
    PROVE  /\ TranscriptsInv'
           /\ typedIn[sending.n] = Nothing /\ sending.session \in DOMAIN transcripts' =>
                 \A e \in transcripts'[sending.session] : e[2] = sending.n
<1> DEFINE to == sending.session
           k  == sending.n
<1>1. /\ k = Len(typedIn) /\ k \in DOMAIN typedIn /\ k \in Nat
      /\ typedIn[k] \in {to, Nothing}
      /\ typedIn[k] = Nothing /\ to \in DOMAIN transcripts => \A e \in transcripts[to] : e[2] = k
  BY DEF PageInv, SendingInv, Letter
<1>2. /\ transcripts = [s \in DOMAIN transcripts |-> transcripts[s]]
      /\ DOMAIN transcripts \subseteq made
      /\ \A s \in DOMAIN transcripts : \A e \in transcripts[s] : e[2] \in DOMAIN typedIn
      /\ \A s \in DOMAIN transcripts : \A n \in DOMAIN typedIn : <<"user", n>> \in transcripts[s] =>
            IF typedIn[n] # Nothing THEN typedIn[n] = s
            ELSE \A m \in DOMAIN typedIn : <<"user", m>> \in transcripts[s] => m >= n
  BY DEF PageInv, TranscriptsInv
<1>3. \A e \in entries : e[2] = k
  OBVIOUS
<1>4. DOMAIN typedIn \subseteq Nat /\ \A n \in DOMAIN typedIn : n <= k
  BY <1>1 DEF PageInv
<1> DEFINE after(s) == IF s = to THEN transcripts[s] \cup entries ELSE transcripts[s]
<1>5. /\ transcripts' = [s \in DOMAIN transcripts |-> transcripts'[s]]
      /\ DOMAIN transcripts' = DOMAIN transcripts
      /\ \A s \in DOMAIN transcripts : transcripts'[s] = after(s)
  <2>1. CASE to \in DOMAIN transcripts
    <3>1. transcripts' = [transcripts EXCEPT ![to] = @ \cup entries]
      BY <2>1 DEF Told
    <3> QED
      BY <1>2, <3>1
  <2>2. CASE to \notin DOMAIN transcripts
    <3>1. transcripts' = transcripts
      BY <2>2 DEF Told
    <3> QED
      BY <1>2, <2>2, <3>1
  <2> QED
    BY <2>1, <2>2
<1> HIDE DEF k
<1>6. ASSUME NEW s \in DOMAIN transcripts, NEW n \in DOMAIN typedIn, <<"user", n>> \in transcripts'[s]
      PROVE  IF typedIn[n] # Nothing THEN typedIn[n] = s
             ELSE \A m \in DOMAIN typedIn : <<"user", m>> \in transcripts'[s] => m >= n
  <2>1. CASE <<"user", n>> \in transcripts[s]
    <3>1. CASE typedIn[n] # Nothing
      BY <1>2, <2>1, <3>1
    <3>2. CASE typedIn[n] = Nothing
      <4> SUFFICES ASSUME NEW m \in DOMAIN typedIn, <<"user", m>> \in transcripts'[s]
                   PROVE  m >= n
        BY <3>2
      <4>1. CASE <<"user", m>> \in transcripts[s]
        BY <1>2, <2>1, <3>2, <4>1
      <4>2. CASE <<"user", m>> \in entries
        <5>1. m = k
          BY <1>3, <4>2
        <5> QED
          BY <1>1, <1>4, <5>1
      <4> QED
        BY <1>5, <4>1, <4>2
    <3> QED
      BY <3>1, <3>2
  <2>2. CASE s = to /\ <<"user", n>> \in entries
    <3>1. n = k
      BY <1>3, <2>2
    <3>2. CASE typedIn[n] # Nothing
      BY <1>1, <2>2, <3>1, <3>2
    <3>3. CASE typedIn[n] = Nothing
      <4> SUFFICES ASSUME NEW m \in DOMAIN typedIn, <<"user", m>> \in transcripts'[s]
                   PROVE  m >= n
        BY <3>3
      <4>1. \A e \in transcripts'[s] : e[2] = k
        BY <1>1, <1>3, <1>5, <2>2, <3>1, <3>3
      <4>2. m = k
        BY <4>1
      <4> QED
        BY <1>1, <3>1, <4>2
    <3> QED
      BY <3>2, <3>3
  <2> QED
    BY <1>5, <1>6, <2>1, <2>2
<1>7. \A s \in DOMAIN transcripts : \A e \in transcripts'[s] : e[2] \in DOMAIN typedIn
  BY <1>1, <1>2, <1>3, <1>5
<1>8. TranscriptsInv'
  <2>1. typedIn' = typedIn /\ made' = made
    OBVIOUS
  <2>2. DOMAIN transcripts' \subseteq made'
    BY <1>2, <1>5, <2>1
  <2>3. \A s \in DOMAIN transcripts' : \A e \in transcripts'[s] : e[2] \in DOMAIN typedIn'
    BY <1>5, <1>7, <2>1
  <2>4. transcripts' = [s \in DOMAIN transcripts' |-> transcripts'[s]]
    BY <1>5
  <2>5. \A s \in DOMAIN transcripts' : \A n \in DOMAIN typedIn' : <<"user", n>> \in transcripts'[s] =>
           IF typedIn'[n] # Nothing THEN typedIn'[n] = s
           ELSE \A m \in DOMAIN typedIn' : <<"user", m>> \in transcripts'[s] => m >= n
    <3>1. DOMAIN transcripts' = DOMAIN transcripts
      BY <1>5
    <3> QED
      BY <1>6, <2>1, <3>1
  <2> HIDE DEF after
  <2> QED
    BY <2>2, <2>3, <2>4, <2>5 DEF TranscriptsInv
<1>9. typedIn[k] = Nothing /\ to \in DOMAIN transcripts' => \A e \in transcripts'[to] : e[2] = k
  BY <1>1, <1>3, <1>5
<1> QED
  BY <1>8, <1>9 DEF k

\* What the server may still make of a message nobody waits for.
LEMMA LeftoversKeep ==
    ASSUME PageInv, transcripts' \in Leftovers, made' = made, typedIn' = typedIn
    PROVE  TranscriptsInv'
<1>1. CASE At("asking") \/ At("running")
  <2>1. busy /\ sending.at # "creating"
    BY <1>1 DEF At
  <2>2. PICK entries \in {{}, {<<"user", sending.n>>}, {<<"user", sending.n>>, <<"assistant", sending.n>>}} :
           transcripts' = Told(sending.session, entries)
    BY <1>1 DEF Leftovers
  <2>3. entries \subseteq {<<"user", sending.n>>, <<"assistant", sending.n>>}
    OBVIOUS
  <2> QED
    BY <2>1, <2>2, <2>3, ToldKeeps
<1>2. CASE ~(At("asking") \/ At("running"))
  <2>1. transcripts' = transcripts
    BY <1>2 DEF Leftovers
  <2> QED
    BY <2>1 DEF PageInv, TranscriptsInv
<1> QED
  BY <1>1, <1>2

LEMMA RestKeeps ==
    ASSUME PageInv, NEW entry, Rest(entry)
    PROVE  SendingInv' /\ busy' \in BOOLEAN
  BY DEF Rest, SendingInv

\* Steps within the message under way that leave the transcripts as they are.
LEMMA SendingGoesOn ==
    ASSUME PageInv, busy, sending.at # "creating", busy' = busy, UNCHANGED <<transcripts, typedIn>>,
           NEW place \in {"reading", "asking", "answered"}, sending' = [sending EXCEPT !.at = place]
    PROVE  SendingInv'
<1>1. sending \in Letter
  BY DEF PageInv, SendingInv
<1>2. /\ sending' \in Letter
      /\ sending'.n = sending.n /\ sending'.session = sending.session /\ sending'.at = place
  BY <1>1 DEF Letter
<1> QED
  BY <1>2 DEF PageInv, SendingInv

LEMMA ListKeeps ==
    ASSUME PageInv, UNCHANGED <<made, list, removed>>
    PROVE  ListInv'
  BY DEF PageInv, ListInv, list, NoChats

\* persist, after a change of the list
LEMMA PersistKeeps ==
    ASSUME PageInv, keepHistory' \in BOOLEAN, persist, keepHistory' = keepHistory \/ keepHistory',
           made' \subseteq Sessions, chats' \subseteq made', removed' \subseteq made',
           removed' \cap chats' = {}, activeId' \in chats' \cup {Nothing}
    PROVE  ListInv'
<1>1. CASE keepHistory' = TRUE
  BY <1>1 DEF persist, ListInv
<1>2. CASE keepHistory' = FALSE
  <2>1. keepHistory = FALSE /\ kept' = kept
    BY <1>2 DEF persist
  <2> QED
    BY <1>2, <2>1 DEF PageInv, ListInv, NoChats
<1> QED
  BY <1>1, <1>2

LEMMA SendKeeps == PageInv /\ Send => PageInv'
<1> SUFFICES ASSUME PageInv, Send PROVE PageInv'
  OBVIOUS
<1> DEFINE k == Len(typedIn) + 1
<1>1. /\ ~busy /\ busy' = TRUE /\ typedIn' = Append(typedIn, activeId)
      /\ sending' = IF activeId # Nothing THEN Onward(k, activeId)
                    ELSE [n |-> k, session |-> Nothing, at |-> "creating", files |-> {}]
      /\ UNCHANGED <<server, list, files, removed>>
  BY DEF Send
<1>2. /\ activeId \in Sessions \cup {Nothing}
      /\ typedIn \in Seq(Sessions \cup {Nothing})
  BY DEF PageInv, ListInv
<1>3. /\ typedIn' \in Seq(Sessions \cup {Nothing})
      /\ DOMAIN typedIn' = DOMAIN typedIn \cup {k} /\ k \in Nat /\ k \notin DOMAIN typedIn
      /\ typedIn'[k] = activeId
      /\ \A n \in DOMAIN typedIn : typedIn'[n] = typedIn[n]
      /\ k = Len(typedIn')
  BY <1>1, <1>2
<1>4. TranscriptsInv'
  <2>1. transcripts' = transcripts /\ made' = made
    BY <1>1 DEF server
  <2>2. \A s \in DOMAIN transcripts : \A e \in transcripts[s] : e[2] \in DOMAIN typedIn
    BY DEF PageInv, TranscriptsInv
  <2>3. \A s \in DOMAIN transcripts : \A n \in DOMAIN typedIn' : <<"user", n>> \in transcripts[s] => n \in DOMAIN typedIn
    <3> SUFFICES ASSUME NEW s \in DOMAIN transcripts, NEW n \in DOMAIN typedIn', <<"user", n>> \in transcripts[s]
                 PROVE  n \in DOMAIN typedIn
      OBVIOUS
    <3>1. <<"user", n>>[2] \in DOMAIN typedIn
      BY <2>2
    <3> QED
      BY <3>1
  <2>4. \A s \in DOMAIN transcripts : \A e \in transcripts[s] : e[2] \in DOMAIN typedIn'
    BY <1>3, <2>2
  <2>5. \A s \in DOMAIN transcripts : \A n \in DOMAIN typedIn' : <<"user", n>> \in transcripts[s] =>
            IF typedIn'[n] # Nothing THEN typedIn'[n] = s
            ELSE \A m \in DOMAIN typedIn' : <<"user", m>> \in transcripts[s] => m >= n
    <3> SUFFICES ASSUME NEW s \in DOMAIN transcripts, NEW n \in DOMAIN typedIn', <<"user", n>> \in transcripts[s]
                 PROVE  IF typedIn'[n] # Nothing THEN typedIn'[n] = s
                        ELSE \A m \in DOMAIN typedIn' : <<"user", m>> \in transcripts[s] => m >= n
      OBVIOUS
    <3>1. n \in DOMAIN typedIn /\ typedIn'[n] = typedIn[n]
      BY <1>3, <2>3
    <3>2. IF typedIn[n] # Nothing THEN typedIn[n] = s
          ELSE \A m \in DOMAIN typedIn : <<"user", m>> \in transcripts[s] => m >= n
      BY <3>1 DEF PageInv, TranscriptsInv
    <3> QED
      BY <2>3, <3>1, <3>2
  <2>6. transcripts = [s \in DOMAIN transcripts |-> transcripts[s]] /\ DOMAIN transcripts \subseteq made
    BY DEF PageInv, TranscriptsInv
  <2> QED
    BY <2>1, <2>4, <2>5, <2>6 DEF TranscriptsInv
<1>5. UploadsInv'
  <2>1. UNCHANGED <<staged, uploaded>>
    BY <1>1 DEF files
  <2> QED
    BY <1>3, <2>1 DEF PageInv, UploadsInv
<1>6. SendingInv'
  <2>1. CASE activeId # Nothing
    <3>1. sending' = [n |-> k, session |-> activeId, at |-> IF staged = {} THEN "asking" ELSE "uploading",
                      files |-> staged]
      BY <1>1, <2>1 DEF Onward
    <3>2. staged \subseteq Files
      BY DEF PageInv, UploadsInv
    <3>3. sending'.n = k /\ sending'.session = activeId /\ sending'.at # "creating"
      BY <3>1
    <3>4. sending' \in Letter
      BY <1>2, <1>3, <3>1, <3>2 DEF Letter
    <3> QED
      BY <1>1, <1>3, <2>1, <3>3, <3>4 DEF SendingInv
  <2>2. CASE activeId = Nothing
    <3>1. sending' = [n |-> k, session |-> Nothing, at |-> "creating", files |-> {}]
      BY <1>1, <2>2
    <3>2. sending' \in Letter /\ sending'.n = k /\ sending'.at = "creating"
      BY <1>3, <3>1 DEF Letter
    <3> QED
      BY <1>1, <1>3, <2>2, <3>2 DEF SendingInv
  <2> QED
    BY <2>1, <2>2
<1>7. ListInv'
  BY <1>1, ListKeeps DEF server
<1> QED
  BY <1>1, <1>3, <1>4, <1>5, <1>6, <1>7 DEF PageInv

LEMMA CreateKeeps == PageInv /\ Create => PageInv'
<1> SUFFICES ASSUME PageInv, Create PROVE PageInv'
  OBVIOUS
<1>1. PICK s \in Sessions \ made :
        /\ made' = made \cup {s}
        /\ transcripts' = [r \in DOMAIN transcripts \cup {s} |-> IF r = s THEN {} ELSE transcripts[r]]
        /\ activeId' = s /\ chats' = chats \cup {s}
        /\ sending' = Onward(sending.n, s)
  BY DEF Create
<1>2. /\ busy /\ sending.at = "creating" /\ keepHistory' = keepHistory /\ persist
      /\ UNCHANGED <<busy, files, typedIn, removed>>
  BY DEF Create, At
<1>3. TranscriptsInv'
  <2>1. DOMAIN transcripts \subseteq made /\ s \notin DOMAIN transcripts
    BY <1>1 DEF PageInv, TranscriptsInv
  <2>2. DOMAIN transcripts' = DOMAIN transcripts \cup {s} /\ DOMAIN transcripts' \subseteq made'
    BY <1>1, <2>1
  <2>3. /\ transcripts' = [r \in DOMAIN transcripts' |-> transcripts'[r]]
        /\ transcripts'[s] = {} /\ \A r \in DOMAIN transcripts : transcripts'[r] = transcripts[r]
    BY <1>1, <2>1, <2>2
  <2> QED
    BY <1>2, <2>2, <2>3 DEF PageInv, TranscriptsInv
<1>4. UploadsInv'
  BY <1>2 DEF PageInv, UploadsInv, files
<1>5. SendingInv'
  <2>1. sending \in Letter /\ typedIn[sending.n] = Nothing /\ staged \subseteq Files
    BY <1>2 DEF PageInv, SendingInv, UploadsInv
  <2>2. sending' = [n |-> sending.n, session |-> s, at |-> IF staged = {} THEN "asking" ELSE "uploading",
                    files |-> staged]
    BY <1>1 DEF Onward
  <2>3. /\ sending' \in Letter /\ sending'.n = sending.n /\ sending'.session = s
        /\ sending'.at # "creating"
    BY <2>1, <2>2 DEF Letter
  <2>4. transcripts'[s] = {}
    BY <1>1
  <2> QED
    BY <1>2, <2>1, <2>3, <2>4 DEF PageInv, SendingInv
<1>6. ListInv'
  BY <1>1, <1>2, PersistKeeps DEF PageInv, ListInv
<1> QED
  BY <1>2, <1>3, <1>4, <1>5, <1>6 DEF PageInv

\* Uploads of the message under way.
LEMMA IndexKeeps ==
    ASSUME PageInv, busy, sending.at # "creating", NEW fs, Index(fs), staged' \subseteq Files, typedIn' = typedIn
    PROVE  UploadsInv'
<1>1. uploaded' = uploaded \cup {[session |-> sending.session, n |-> sending.n, file |-> f] : f \in fs}
  BY DEF Index
<1>2. sending.n \in DOMAIN typedIn /\ typedIn[sending.n] \in {sending.session, Nothing}
  BY DEF PageInv, SendingInv
<1>3. ASSUME NEW u \in uploaded' PROVE u.n \in DOMAIN typedIn /\ typedIn[u.n] \in {u.session, Nothing}
  <2>1. CASE u \in uploaded
    BY <2>1 DEF PageInv, UploadsInv
  <2>2. CASE u \in {[session |-> sending.session, n |-> sending.n, file |-> f] : f \in fs}
    BY <1>2, <2>2
  <2> QED
    BY <1>1, <2>1, <2>2
<1> QED
  BY <1>3 DEF UploadsInv

LEMMA TranscriptsKeep ==
    ASSUME PageInv, UNCHANGED <<transcripts, made, typedIn>>
    PROVE  TranscriptsInv'
  BY DEF PageInv, TranscriptsInv

LEMMA UploadsKeep ==
    ASSUME PageInv, UNCHANGED <<uploaded, typedIn>>, staged' \subseteq Files
    PROVE  UploadsInv'
  BY DEF PageInv, UploadsInv

LEMMA SendingKeeps ==
    ASSUME PageInv, UNCHANGED <<busy, sending, transcripts, typedIn>>
    PROVE  SendingInv'
  BY DEF PageInv, SendingInv

LEMMA RequestKeeps == PageInv /\ (Upload \/ UploadPartly \/ Read \/ Arrive \/ Answer \/ Reply \/ Fail) => PageInv'
<1> SUFFICES ASSUME PageInv, Upload \/ UploadPartly \/ Read \/ Arrive \/ Answer \/ Reply \/ Fail
             PROVE  PageInv'
  OBVIOUS
<1>0. typedIn' = typedIn /\ typedIn \in Seq(Sessions \cup {Nothing}) /\ busy \in BOOLEAN /\ staged \subseteq Files
  BY DEF Upload, UploadPartly, Read, Arrive, Answer, Reply, Fail, PageInv, UploadsInv
<1>1. CASE Upload
  <2>1. /\ busy /\ sending.at # "creating" /\ Index(sending.files) /\ staged' = {} /\ busy' = busy
        /\ sending' = [sending EXCEPT !.at = "reading"]
        /\ UNCHANGED <<transcripts, made, list, removed>>
    BY <1>1 DEF Upload, At, server
  <2>2. SendingInv'
    BY <1>0, <2>1, SendingGoesOn
  <2>3. UploadsInv'
    BY <1>0, <2>1, IndexKeeps
  <2> QED
    BY <1>0, <2>1, <2>2, <2>3, TranscriptsKeep, ListKeeps DEF PageInv
<1>2. CASE UploadPartly
  <2>1. PICK failed \in SUBSET sending.files \ {{}} : \E renamed \in SUBSET failed :
           /\ Index(sending.files \ failed)
           /\ staged' = staged \cap (failed \ renamed)
    BY <1>2 DEF UploadPartly
  <2>2. /\ busy /\ sending.at # "creating" /\ Rest(<<"error", sending.n>>)
        /\ UNCHANGED <<transcripts, made, list, removed>>
    BY <1>2 DEF UploadPartly, At, server
  <2>3. Index(sending.files \ failed) /\ staged' \subseteq Files
    BY <1>0, <2>1
  <2>4. UploadsInv'
    BY <1>0, <2>2, <2>3, IndexKeeps
  <2> QED
    BY <1>0, <2>2, <2>4, RestKeeps, TranscriptsKeep, ListKeeps DEF PageInv
<1>3. CASE Read
  <2>1. /\ busy /\ sending.at # "creating" /\ busy' = busy
        /\ sending' = [sending EXCEPT !.at = "asking"]
        /\ UNCHANGED <<transcripts, made, list, removed, uploaded, staged>>
    BY <1>3 DEF Read, At, server, files
  <2>2. SendingInv'
    BY <1>0, <2>1, SendingGoesOn
  <2> QED
    BY <1>0, <2>1, <2>2, UploadsKeep, TranscriptsKeep, ListKeeps DEF PageInv
<1>4. CASE Arrive \/ Answer
  <2>1. PICK place \in {"running", "answered"}, role \in {"user", "assistant"} :
          /\ transcripts' = Told(sending.session, {<<role, sending.n>>})
          /\ sending' = [sending EXCEPT !.at = place]
    BY <1>4 DEF Arrive, Answer
  <2>2. /\ busy /\ sending.at # "creating" /\ busy' = busy
        /\ UNCHANGED <<made, list, removed, uploaded, staged>>
    BY <1>4 DEF Arrive, Answer, At, files
  <2>3. {<<role, sending.n>>} \subseteq {<<"user", sending.n>>, <<"assistant", sending.n>>}
    OBVIOUS
  <2>4. /\ TranscriptsInv'
        /\ typedIn[sending.n] = Nothing /\ sending.session \in DOMAIN transcripts' =>
             \A e \in transcripts'[sending.session] : e[2] = sending.n
    BY <1>0, <2>1, <2>2, <2>3, ToldKeeps
  <2>5. SendingInv'
    <3>1. sending \in Letter
      BY <2>2 DEF PageInv, SendingInv
    <3>2. /\ sending' \in Letter
          /\ sending'.n = sending.n /\ sending'.session = sending.session /\ sending'.at # "creating"
      BY <2>1, <3>1 DEF Letter
    <3> QED
      BY <1>0, <2>2, <2>4, <3>2 DEF PageInv, SendingInv
  <2> QED
    BY <1>0, <2>2, <2>4, <2>5, UploadsKeep, ListKeeps DEF PageInv
<1>5. CASE Reply
  <2>1. /\ Rest(<<"assistant", sending.n>>) /\ UNCHANGED <<chats, activeId, keepHistory>>
        /\ persist \/ kept' = kept
        /\ UNCHANGED <<transcripts, made, removed, uploaded, staged>>
    BY <1>5 DEF Reply, server, files
  <2>2. ListInv'
    <3>1. CASE persist
      BY <2>1, <3>1, PersistKeeps DEF PageInv, ListInv
    <3>2. CASE kept' = kept
      BY <2>1, <3>2, ListKeeps DEF list
    <3> QED
      BY <2>1, <3>1, <3>2
  <2> QED
    BY <1>0, <2>1, <2>2, RestKeeps, UploadsKeep, TranscriptsKeep DEF PageInv
<1>6. CASE Fail
  <2>1. /\ Rest(<<"error", sending.n>>) /\ transcripts' \in Leftovers
        /\ UNCHANGED <<made, list, removed, uploaded, staged>>
    BY <1>6 DEF Fail, files
  <2> QED
    BY <1>0, <2>1, RestKeeps, UploadsKeep, LeftoversKeep, ListKeeps DEF PageInv
<1> QED
  BY <1>1, <1>2, <1>3, <1>4, <1>5, <1>6

\* The buttons that change the list, and what a history that is not found changes.
LEMMA ListChanges ==
    ASSUME PageInv, UNCHANGED <<made, keepHistory>>, persist,
           chats' \subseteq chats, removed' \subseteq removed \cup (chats \ chats'),
           activeId' \in chats' \cup {Nothing}
    PROVE  ListInv'
  BY PersistKeeps DEF PageInv, ListInv

LEMMA ElsewhereKeeps ==
    ASSUME PageInv, UNCHANGED <<transcripts, made, busy, sending, uploaded, typedIn>>, staged' \subseteq Files, ListInv'
    PROVE  PageInv'
  BY TranscriptsKeep, UploadsKeep, SendingKeeps DEF PageInv

LEMMA DeleteKeeps ==
    ASSUME PageInv, NEW s \in Sessions, DeleteSession(s)
    PROVE  PageInv'
<1>1. /\ UNCHANGED <<made, list, busy, sending, typedIn, removed, uploaded, staged>>
      /\ \/ transcripts' = transcripts
         \/ transcripts' = [r \in DOMAIN transcripts \ {s} |-> transcripts[r]]
  BY DEF DeleteSession, files, Restrict
<1>2. /\ transcripts' = [r \in DOMAIN transcripts' |-> transcripts'[r]]
      /\ DOMAIN transcripts' \subseteq DOMAIN transcripts
      /\ \A r \in DOMAIN transcripts' : transcripts'[r] = transcripts[r]
  <2>1. transcripts = [r \in DOMAIN transcripts |-> transcripts[r]]
    BY DEF PageInv, TranscriptsInv
  <2> QED
    BY <1>1, <2>1
<1>3. TranscriptsInv'
  BY <1>1, <1>2 DEF PageInv, TranscriptsInv
<1>4. SendingInv'
  BY <1>1, <1>2 DEF PageInv, SendingInv
<1>5. staged' \subseteq Files
  BY <1>1 DEF PageInv, UploadsInv
<1> QED
  BY <1>1, <1>3, <1>4, <1>5, ListKeeps, UploadsKeep DEF PageInv

LEMMA ReloadKeeps == PageInv /\ Reload => PageInv'
<1> SUFFICES ASSUME PageInv, Reload PROVE PageInv'
  OBVIOUS
<1>1. /\ busy' = FALSE /\ staged' = {} /\ transcripts' \in Leftovers
      /\ chats' = (IF keepHistory THEN kept.chats ELSE {})
      /\ activeId' = (IF keepHistory THEN kept.active ELSE Nothing)
      /\ UNCHANGED <<made, keepHistory, kept, uploaded, typedIn, removed>>
  BY DEF Reload
<1>2. ListInv'
  <2>1. CASE keepHistory = TRUE
    <3>1. chats' = chats /\ activeId' = activeId
      BY <1>1, <2>1 DEF PageInv, ListInv
    <3> QED
      BY <1>1, <3>1, ListKeeps DEF list
  <2>2. CASE keepHistory = FALSE
    BY <1>1, <2>2 DEF PageInv, ListInv, NoChats
  <2> QED
    BY <2>1, <2>2 DEF PageInv, ListInv
<1>3. SendingInv' /\ busy' \in BOOLEAN
  BY <1>1 DEF SendingInv
<1> QED
  BY <1>1, <1>2, <1>3, LeftoversKeep, UploadsKeep DEF PageInv

LEMMA PageInvNext == PageInv /\ [PageNext]_pageVars => PageInv'
<1> SUFFICES ASSUME PageInv, [PageNext]_pageVars PROVE PageInv'
  OBVIOUS
<1>0. staged \subseteq Files /\ keepHistory \in BOOLEAN /\ activeId \in chats \cup {Nothing}
  BY DEF PageInv, UploadsInv, ListInv
<1>1. CASE Send
  BY <1>1, SendKeeps
<1>2. CASE Request
  BY <1>2, CreateKeeps, RequestKeeps DEF Request
<1>3. CASE NewChat
  <2>1. /\ UNCHANGED <<transcripts, made, busy, sending, uploaded, typedIn, staged, removed, chats, keepHistory>>
        /\ activeId' = Nothing /\ persist
    BY <1>3 DEF NewChat, server, files
  <2>2. ListInv'
    BY <2>1, ListChanges
  <2> QED
    BY <1>0, <2>1, <2>2, ElsewhereKeeps
<1>4. CASE ClearAll
  <2>1. /\ UNCHANGED <<transcripts, made, busy, sending, uploaded, typedIn, staged, keepHistory>>
        /\ chats' = {} /\ activeId' = Nothing /\ removed' = removed \cup chats /\ persist
    BY <1>4 DEF ClearAll, server, files
  <2>2. ListInv'
    BY <2>1, ListChanges
  <2> QED
    BY <1>0, <2>1, <2>2, ElsewhereKeeps
<1>5. CASE SetKeepHistory
  <2>1. /\ UNCHANGED <<transcripts, made, busy, sending, uploaded, typedIn, staged, removed, chats, activeId>>
        /\ keepHistory' = ~keepHistory
        /\ IF keepHistory' THEN persist ELSE kept' = NoChats
    BY <1>5 DEF SetKeepHistory, server, files
  <2>2. ListInv'
    <3>1. CASE keepHistory' = TRUE
      <4>1. persist
        BY <2>1, <3>1
      <4> QED
        BY <2>1, <3>1, <4>1, PersistKeeps DEF PageInv, ListInv
    <3>2. CASE keepHistory' = FALSE
      <4>1. kept' = NoChats
        BY <2>1, <3>2
      <4> QED
        BY <2>1, <3>2, <4>1 DEF PageInv, ListInv, NoChats
    <3> QED
      BY <1>0, <2>1, <3>1, <3>2
  <2> QED
    BY <1>0, <2>1, <2>2, ElsewhereKeeps
<1>6. CASE Reload
  BY <1>6, ReloadKeeps
<1>7. ASSUME NEW s \in Sessions, OpenChat(s) PROVE PageInv'
  <2>1. /\ UNCHANGED <<transcripts, made, busy, sending, uploaded, typedIn, staged, removed, chats, keepHistory>>
        /\ s \in chats /\ activeId' = s /\ persist
    BY <1>7 DEF OpenChat, server, files
  <2>2. ListInv'
    BY <2>1, ListChanges
  <2> QED
    BY <1>0, <2>1, <2>2, ElsewhereKeeps
<1>8. ASSUME NEW s \in Sessions, RemoveChat(s) PROVE PageInv'
  <2>1. /\ UNCHANGED <<transcripts, made, busy, sending, uploaded, typedIn, staged, keepHistory>>
        /\ s \in chats /\ chats' = chats \ {s} /\ removed' = removed \cup {s} /\ persist
        /\ IF activeId = s THEN activeId' = Nothing ELSE activeId' = activeId
    BY <1>8 DEF RemoveChat, server, files
  <2>2. ListInv'
    BY <1>0, <2>1, ListChanges
  <2> QED
    BY <1>0, <2>1, <2>2, ElsewhereKeeps
<1>9. ASSUME NEW s \in Sessions, DeleteSession(s) PROVE PageInv'
  BY <1>9, DeleteKeeps
<1>10. ASSUME NEW load \in loads, LoadAnswers(load) \/ LoadFails(load) PROVE PageInv'
  <2>1. UNCHANGED <<transcripts, made, busy, sending, uploaded, typedIn, staged, removed, list>>
    BY <1>10 DEF LoadAnswers, LoadFails, server, files
  <2> QED
    BY <1>0, <2>1, ListKeeps, ElsewhereKeeps
<1>11. ASSUME NEW load \in loads, Loaded(load) PROVE PageInv'
  <2>1. /\ UNCHANGED <<transcripts, made, busy, sending, uploaded, typedIn, staged, removed>>
        /\ \/ UNCHANGED list
           \/ /\ chats' = chats \ {load.of}
              /\ activeId' = (IF activeId = load.of THEN Nothing ELSE activeId)
              /\ keepHistory' = keepHistory /\ persist
    BY <1>11 DEF Loaded, server, files
  <2>2. ListInv'
    <3>1. CASE UNCHANGED list
      BY <2>1, <3>1, ListKeeps
    <3>2. CASE /\ chats' = chats \ {load.of}
               /\ activeId' = (IF activeId = load.of THEN Nothing ELSE activeId)
               /\ keepHistory' = keepHistory /\ persist
      BY <1>0, <2>1, <3>2, ListChanges
    <3> QED
      BY <2>1, <3>1, <3>2
  <2> QED
    BY <1>0, <2>1, <2>2, ElsewhereKeeps
<1>12. ASSUME NEW f \in Files, ChooseFile(f) \/ TakeBack(f) PROVE PageInv'
  <2>1. /\ UNCHANGED <<transcripts, made, busy, sending, uploaded, typedIn, removed, list>>
        /\ staged' = staged \cup {f} \/ staged' = staged \ {f}
    BY <1>12 DEF ChooseFile, TakeBack, server
  <2> QED
    BY <1>0, <2>1, ListKeeps, ElsewhereKeeps
<1>13. CASE UNCHANGED pageVars
  BY <1>0, <1>13, ListKeeps, ElsewhereKeeps DEF pageVars, server, files
<1> QED
  BY <1>1, <1>2, <1>3, <1>4, <1>5, <1>6, <1>7, <1>8, <1>9, <1>10, <1>11, <1>12, <1>13 DEF PageNext

LEMMA ObeyedByInv == PageInv => VisitorIsObeyed
<1> SUFFICES ASSUME PageInv PROVE VisitorIsObeyed
  OBVIOUS
<1>1. GoesWhereItWasTyped
  BY DEF PageInv, TranscriptsInv, UploadsInv, GoesWhereItWasTyped
<1>2. RemovedStaysRemoved
  <2>1. Nothing \notin removed
    BY PageAssumption DEF PageInv, ListInv
  <2>2. kept.chats \subseteq chats /\ kept.active \in {activeId, Nothing}
    BY DEF PageInv, ListInv, NoChats
  <2> QED
    BY <2>1, <2>2 DEF PageInv, ListInv, RemovedStaysRemoved
<1>3. OffMeansOff
  BY DEF PageInv, ListInv, OffMeansOff
<1> QED
  BY <1>1, <1>2, <1>3 DEF VisitorIsObeyed, ForgottenStaysForgotten

\* Whatever is under way, the page does what the visitor asked for: a message
\* and its files go to the conversation they were typed in (send,
\* ensureSession, uploadStaged), a removed conversation stays removed
\* (removeChat), and nothing is kept while history is off (persist).
THEOREM VisitorIsAlwaysObeyed == PageSpec => []VisitorIsObeyed
  BY ObeyedByInv, PageInvInit, PageInvNext, PTL DEF PageSpec

-----------------------------------------------------------------------------
(* The voice client of a page (VoicePage): nothing runs behind the idle    *)
(* button, and the agent's own voice is not recorded                       *)

\* What an attempt awaits, and what a socket may be.
Waits == {"new", "mic", "mic again", "ticket", "speaker", "context", "module", "over"}
Statuses == Connected \cup {"none", "closing", "closed"}

VoiceTypeOK ==
    /\ at \in [Attempts -> Waits]
    /\ socket \in [Attempts -> Statuses]
    /\ queued \in Nat /\ ducked \in BOOLEAN /\ overtaken \in BOOLEAN

\* One attempt at most is under way, and while it is there is no conversation.
OneStartAtATime ==
    /\ \A j, k \in UnderWay : j = k
    /\ UnderWay # {} => state # "idle" /\ ws = Null /\ queued = 0

\* Only the microphone and the socket the page knows are in use, and a microphone
\* is asked for only when there is none.
PageKnowsWhatRuns ==
    /\ live \subseteq {mic} /\ (mic = Null => live = {})
    /\ \A k \in Attempts : socket[k] \in Connected => ws = k
    /\ \A k \in Attempts : at[k] \in {"mic", "mic again"} => mic = Null

IdleIsEmpty == state = "idle" => ws = Null /\ mic = Null /\ queued = 0

VoiceInv ==
    /\ VoiceTypeOK
    /\ ~overtaken => /\ OneStartAtATime /\ PageKnowsWhatRuns /\ IdleIsEmpty
                     /\ ducked <=> queued > 0

LEMMA VoiceInvInit == VoiceInit => VoiceInv
<1> SUFFICES ASSUME VoiceInit PROVE VoiceInv
  OBVIOUS
<1>1. VoiceTypeOK
  BY DEF VoiceInit, VoiceTypeOK, Waits, Statuses
<1>2. UnderWay = {}
  BY DEF VoiceInit, UnderWay
<1> QED
  BY <1>1, <1>2 DEF VoiceInit, VoiceInv, OneStartAtATime, PageKnowsWhatRuns, IdleIsEmpty, Connected

LEMMA FadedIsATruth ==
    ASSUME NEW n \in Nat, NEW faded, faded = (n > 0)
    PROVE  faded \in BOOLEAN /\ (faded <=> n > 0)
<1>1. faded \in BOOLEAN
  OBVIOUS
<1>2. faded <=> n > 0
  OBVIOUS
<1> QED
  BY <1>1, <1>2

LEMMA NothingIsQueued ==
    ASSUME NEW n \in Nat, n = 0
    PROVE  (n > 0) = FALSE
  OBVIOUS

LEMMA NullIsNoAttempt == \A k \in Attempts : k # Null
<1> SUFFICES ASSUME NEW k \in Attempts PROVE k # Null
  OBVIOUS
<1>1. MaxStarts \in Nat /\ Null \notin Nat
  BY VoiceAssumption
<1>2. k \in Nat
  BY <1>1 DEF Attempts
<1> QED
  BY <1>1, <1>2

\* What is left of a conversation, and of the attempts next to it, after stop.
LEMMA StoppedKeeps ==
    ASSUME VoiceInv, NEW others, NEW sockets \in [Attempts -> Statuses],
           Stopped(others, sockets), others = UnderWay', at' \in [Attempts -> Waits],
           ~overtaken => \A k \in Attempts : sockets[k] \in Connected => ws = k
    PROVE  VoiceInv'
<1>1. /\ state' = "idle" /\ ws' = Null /\ mic' = Null /\ queued' = 0 /\ ducked' = FALSE
      /\ live' = live \ {mic}
      /\ overtaken' = (overtaken \/ others # {})
      /\ socket' = [k \in Attempts |-> IF k = ws /\ sockets[k] \in Connected THEN "closing" ELSE sockets[k]]
  BY DEF Stopped
<1>2. VoiceTypeOK'
  BY <1>1 DEF VoiceTypeOK, VoiceInv, Statuses
<1>3. ASSUME ~overtaken' PROVE /\ OneStartAtATime' /\ PageKnowsWhatRuns' /\ IdleIsEmpty'
                               /\ ducked' <=> queued' > 0
  <2>1. ~overtaken /\ UnderWay' = {}
    BY <1>1, <1>3
  <2>2. live' = {}
    BY <1>1, <2>1 DEF VoiceInv, PageKnowsWhatRuns
  <2>3. \A k \in Attempts : socket'[k] \notin Connected
    BY <1>1, <2>1 DEF Connected
  <2> QED
    BY <1>1, <2>1, <2>2, <2>3 DEF OneStartAtATime, PageKnowsWhatRuns, IdleIsEmpty
<1> QED
  BY <1>2, <1>3 DEF VoiceInv

\* An attempt that goes on is the one that was under way.
LEMMA OneGoesOn ==
    ASSUME VoiceInv, ~overtaken, NEW k \in UnderWay, NEW place \in Waits, place # "new", To(k, place)
    PROVE  /\ at' \in [Attempts -> Waits] /\ at'[k] = place
           /\ UnderWay' = IF place = "over" THEN {} ELSE {k}
           /\ state # "idle" /\ ws = Null /\ queued = 0 /\ ~ducked
           /\ \A j \in Attempts : socket[j] \notin Connected
           /\ \A j \in Attempts : j # k => at'[j] \in {"new", "over"}
<1>1. at \in [Attempts -> Waits] /\ k \in Attempts /\ at[k] \notin {"new", "over"}
  BY DEF VoiceInv, VoiceTypeOK, UnderWay
<1>2. at' = [at EXCEPT ![k] = place]
  BY DEF To
<1>3. \A j \in Attempts : j # k => at[j] \in {"new", "over"}
  BY <1>1 DEF VoiceInv, OneStartAtATime, UnderWay
<1>4. state # "idle" /\ ws = Null /\ queued = 0
  BY DEF VoiceInv, OneStartAtATime
<1>5. \A j \in Attempts : socket[j] \notin Connected
  BY <1>4, NullIsNoAttempt DEF VoiceInv, PageKnowsWhatRuns
<1>6. ~ducked
  BY <1>4 DEF VoiceInv
<1>7. at' \in [Attempts -> Waits] /\ at'[k] = place /\ \A j \in Attempts : j # k => at'[j] \in {"new", "over"}
  BY <1>1, <1>2, <1>3
<1>8. UnderWay' = IF place = "over" THEN {} ELSE {k}
  BY <1>1, <1>7 DEF UnderWay
<1> QED
  BY <1>4, <1>5, <1>6, <1>7, <1>8

LEMMA ToKeepsType ==
    ASSUME VoiceInv, NEW k \in Attempts, NEW place \in Waits, To(k, place)
    PROVE  at' \in [Attempts -> Waits]
  BY DEF VoiceInv, VoiceTypeOK, To

\* The steps of an attempt that leave the conversation as it is.
LEMMA ProceedsKeeps ==
    ASSUME VoiceInv, NEW k \in Attempts, MicGranted(k) \/ TicketMinted(k) \/ SpeakerResumed(k) \/ ContextResumed(k)
    PROVE  VoiceInv'
<1>1. /\ UNCHANGED <<state, ws, socket, queued, overtaken>>
      /\ ducked' \in {ducked, FALSE}
      /\ k \in UnderWay
  BY DEF MicGranted, TicketMinted, SpeakerResumed, ContextResumed, UnderWay
<1>2. PICK place \in {"ticket", "speaker", "context", "mic again", "module"} :
        /\ To(k, place)
        /\ place = "mic again" => mic' = Null
  BY DEF MicGranted, TicketMinted, SpeakerResumed, ContextResumed
<1>3. \/ mic' = mic /\ live' = live
      \/ /\ at[k] \in {"mic", "mic again"}
         /\ mic' = <<k, at[k]>> /\ live' = live \cup {mic'}
  BY DEF MicGranted, TicketMinted, SpeakerResumed, ContextResumed
<1>4. place \in Waits /\ place # "new" /\ place # "over"
  BY DEF Waits
<1>5. VoiceTypeOK'
  BY <1>1, <1>2, <1>4, ToKeepsType DEF VoiceInv, VoiceTypeOK
<1>6. ASSUME ~overtaken' PROVE /\ OneStartAtATime' /\ PageKnowsWhatRuns' /\ IdleIsEmpty'
                               /\ ducked' <=> queued' > 0
  <2>1. /\ at' \in [Attempts -> Waits] /\ at'[k] = place
        /\ UnderWay' = {k}
        /\ state # "idle" /\ ws = Null /\ queued = 0 /\ ~ducked
        /\ \A j \in Attempts : socket[j] \notin Connected
        /\ \A j \in Attempts : j # k => at'[j] \in {"new", "over"}
    <3>1. ~overtaken
      BY <1>1, <1>6
    <3> QED
      BY <1>1, <1>2, <1>4, <3>1, OneGoesOn
  <2>2. live' \subseteq {mic'} /\ (mic' = Null => live' = {})
    <3>1. CASE mic' = mic /\ live' = live
      BY <1>1, <1>6, <3>1 DEF VoiceInv, PageKnowsWhatRuns
    <3>2. CASE /\ at[k] \in {"mic", "mic again"}
               /\ mic' = <<k, at[k]>> /\ live' = live \cup {mic'}
      <4>1. live = {}
        BY <1>1, <1>6, <3>2 DEF VoiceInv, PageKnowsWhatRuns
      <4>2. mic' # Null
        BY <3>2, VoiceAssumption DEF Attempts
      <4> QED
        BY <3>2, <4>1, <4>2
    <3> QED
      BY <1>3, <3>1, <3>2
  <2>3. \A j \in Attempts : at'[j] \in {"mic", "mic again"} => mic' = Null
    BY <1>2, <2>1
  <2>4. ducked' = FALSE /\ queued' = 0 /\ queued' \in Nat
    BY <1>1, <2>1 DEF VoiceInv, VoiceTypeOK
  <2>5. ducked' <=> queued' > 0
    <3>1. queued' \in Nat /\ queued' = 0
      BY <2>4
    <3>2. ducked' = FALSE /\ (queued' > 0) = FALSE
      BY <2>4, <3>1, NothingIsQueued
    <3> QED
      BY <3>2, Zenon
  <2> QED
    BY <1>1, <2>1, <2>2, <2>3, <2>5 DEF OneStartAtATime, PageKnowsWhatRuns, IdleIsEmpty
<1> QED
  BY <1>5, <1>6 DEF VoiceInv

LEMMA TapToStartKeeps ==
    ASSUME VoiceInv, NEW k \in Attempts, TapToStart(k)
    PROVE  VoiceInv'
<1>1. /\ state = "idle" /\ state' = "starting" /\ at[k] = "new"
      /\ UNCHANGED <<ws, socket, mic, live, queued, ducked, overtaken>>
  BY DEF TapToStart
<1>2. PICK place \in {"mic", "ticket"} : To(k, place) /\ (place = "mic" => mic = Null)
  BY DEF TapToStart
<1>3. at' \in [Attempts -> Waits]
  BY <1>2, ToKeepsType DEF Waits
<1>4. VoiceTypeOK'
  BY <1>1, <1>3 DEF VoiceInv, VoiceTypeOK
<1>5. ASSUME ~overtaken' PROVE /\ OneStartAtATime' /\ PageKnowsWhatRuns' /\ IdleIsEmpty'
                               /\ ducked' <=> queued' > 0
  <2>1. UnderWay = {} /\ ws = Null /\ mic = Null /\ queued = 0
    BY <1>1, <1>5 DEF VoiceInv, OneStartAtATime, IdleIsEmpty
  <2>2. \A j \in Attempts : j # k => at'[j] = at[j]
    BY <1>2 DEF VoiceInv, VoiceTypeOK, To
  <2>3. UnderWay' \subseteq {k}
    BY <2>1, <2>2 DEF UnderWay
  <2> QED
    BY <1>1, <1>5, <2>1, <2>3 DEF VoiceInv, OneStartAtATime, PageKnowsWhatRuns, IdleIsEmpty
<1> QED
  BY <1>4, <1>5 DEF VoiceInv

LEMMA ConnectKeeps ==
    ASSUME VoiceInv, NEW k \in Attempts, Connect(k)
    PROVE  VoiceInv'
<1>1. /\ k \in UnderWay /\ To(k, "over") /\ ws' = k
      /\ socket' = [socket EXCEPT ![k] = "connecting"]
      /\ UNCHANGED <<state, mic, live, queued, ducked, overtaken>>
  BY DEF Connect, UnderWay
<1>2. VoiceTypeOK'
  BY <1>1, ToKeepsType DEF VoiceInv, VoiceTypeOK, Waits, Statuses, Connected
<1>3. ASSUME ~overtaken' PROVE /\ OneStartAtATime' /\ PageKnowsWhatRuns' /\ IdleIsEmpty'
                               /\ ducked' <=> queued' > 0
  <2>1. ~overtaken
    BY <1>1, <1>3
  <2>2. /\ at'[k] = "over" /\ UnderWay' = {}
        /\ state # "idle" /\ queued = 0 /\ ~ducked
        /\ \A j \in Attempts : socket[j] \notin Connected
        /\ \A j \in Attempts : j # k => at'[j] \in {"new", "over"}
    BY <1>1, <2>1, OneGoesOn DEF Waits
  <2>3. \A j \in Attempts : socket'[j] \in Connected => ws' = j
    BY <1>1, <2>2 DEF VoiceInv, VoiceTypeOK
  <2>4. \A j \in Attempts : at'[j] \notin {"mic", "mic again"}
    BY <2>2
  <2> QED
    BY <1>1, <2>1, <2>2, <2>3, <2>4 DEF VoiceInv, OneStartAtATime, PageKnowsWhatRuns, IdleIsEmpty
<1> QED
  BY <1>2, <1>3 DEF VoiceInv

\* The steps of a socket, and of the buffers, within a conversation.
LEMMA ConversationKeeps ==
    ASSUME VoiceInv, UNCHANGED <<at, ws, mic, live, overtaken>>,
           socket' \in [Attempts -> Statuses],
           \A j \in Attempts : socket'[j] \in Connected => socket[j] \in Connected,
           \/ state' = state
           \/ state' # "idle" /\ state # "idle"
           \/ state' # "idle" /\ \E j \in Attempts : socket[j] \in Connected,
           queued' \in Nat, ducked' \in BOOLEAN,
           \/ queued' = queued /\ ducked' = ducked
           \/ /\ ducked' <=> queued' > 0
              /\ queued > 0 \/ queued' = 0 \/ \E j \in Attempts : socket[j] \in Connected
    PROVE  VoiceInv'
<1>1. VoiceTypeOK'
  BY DEF VoiceInv, VoiceTypeOK
<1>2. ASSUME ~overtaken' PROVE /\ OneStartAtATime' /\ PageKnowsWhatRuns' /\ IdleIsEmpty'
                               /\ ducked' <=> queued' > 0
  <2>1. ~overtaken /\ UnderWay' = UnderWay
    BY <1>2 DEF UnderWay
  <2>2. PageKnowsWhatRuns'
    BY <2>1 DEF VoiceInv, PageKnowsWhatRuns
  <2>3. ducked' <=> queued' > 0
    BY <2>1 DEF VoiceInv
  <2>4. (\E j \in Attempts : socket[j] \in Connected) => ws # Null
    BY <2>1, NullIsNoAttempt DEF VoiceInv, PageKnowsWhatRuns
  <2>5. UnderWay # {} => state # "idle" /\ ws = Null /\ queued = 0
    BY <2>1 DEF VoiceInv, OneStartAtATime
  <2>6. state = "idle" => ws = Null /\ mic = Null /\ queued = 0
    BY <2>1 DEF VoiceInv, IdleIsEmpty
  <2>7. queued' = 0 \/ queued > 0 \/ queued' = queued \/ ws # Null
    BY <2>4
  <2>8. UnderWay' # {} => state' # "idle" /\ ws' = Null /\ queued' = 0
    BY <2>1, <2>4, <2>5, <2>7
  <2>9. IdleIsEmpty'
    <3> SUFFICES ASSUME state' = "idle" PROVE ws' = Null /\ mic' = Null /\ queued' = 0
      BY DEF IdleIsEmpty
    <3>1. state = "idle"
      OBVIOUS
    <3> QED
      BY <3>1, <2>6, <2>7
  <2> QED
    BY <2>1, <2>2, <2>3, <2>8, <2>9 DEF VoiceInv, OneStartAtATime
<1> QED
  BY <1>1, <1>2 DEF VoiceInv

LEMMA ClosedKeeps ==
    ASSUME VoiceInv, NEW k \in Attempts, Closed(k)
    PROVE  VoiceInv'
<1> DEFINE sockets == Becomes(k, "closed")
<1>1. /\ sockets \in [Attempts -> Statuses]
      /\ \A j \in Attempts : sockets[j] \in Connected => socket[j] \in Connected
  BY DEF VoiceInv, VoiceTypeOK, Becomes, Statuses, Connected
<1>2. at' = at
  BY DEF Closed
<1>3. CASE Stopped(UnderWay, sockets)
  <2>1. UnderWay' = UnderWay
    BY <1>2 DEF UnderWay
  <2>2. ~overtaken => \A j \in Attempts : sockets[j] \in Connected => ws = j
    BY <1>1 DEF VoiceInv, PageKnowsWhatRuns
  <2>3. at' \in [Attempts -> Waits]
    BY <1>2 DEF VoiceInv, VoiceTypeOK
  <2> HIDE DEF sockets
  <2> QED
    BY <1>1, <1>3, <2>1, <2>2, <2>3, StoppedKeeps
<1>4. CASE /\ socket' = sockets
           /\ UNCHANGED <<state, ws, mic, live, speaker, capture, queued, ducked, overtaken>>
  <2>1. queued \in Nat /\ ducked \in BOOLEAN
    BY DEF VoiceInv, VoiceTypeOK
  <2> HIDE DEF sockets
  <2> QED
    BY <1>1, <1>2, <1>4, <2>1, ConversationKeeps
<1> QED
  BY <1>3, <1>4 DEF Closed

LEMMA VoiceInvNext == VoiceInv /\ [VoiceNext]_clientVars => VoiceInv'
<1> SUFFICES ASSUME VoiceInv, [VoiceNext]_clientVars PROVE VoiceInv'
  OBVIOUS
<1>0. /\ at \in [Attempts -> Waits] /\ socket \in [Attempts -> Statuses]
      /\ queued \in Nat /\ ducked \in BOOLEAN
  BY DEF VoiceInv, VoiceTypeOK
<1>a. ~overtaken => \A k \in Attempts : socket[k] \in Connected => ws = k
  BY DEF VoiceInv, PageKnowsWhatRuns
<1>1. CASE TapToStop
  <2>1. at' = at /\ Stopped(UnderWay, socket)
    BY <1>1 DEF TapToStop
  <2>2. UnderWay' = UnderWay
    BY <2>1 DEF UnderWay
  <2> QED
    BY <1>0, <1>a, <2>1, <2>2, StoppedKeeps
<1>2. CASE Played
  <2>1. /\ UNCHANGED <<at, ws, mic, live, overtaken, socket>>
        /\ queued > 0 /\ queued' = queued - 1 /\ (ducked' = (queued' > 0))
        /\ state' = state \/ (state' # "idle" /\ state # "idle")
    BY <1>2 DEF Played
  <2>2. queued' \in Nat
    BY <1>0, <2>1
  <2>3. ducked' \in BOOLEAN /\ (ducked' <=> queued' > 0)
    BY <2>1, <2>2, FadedIsATruth
  <2> QED
    BY <1>0, <2>1, <2>2, <2>3, ConversationKeeps
<1>3. ASSUME NEW k \in Attempts, TapToStart(k) PROVE VoiceInv'
  BY <1>3, TapToStartKeeps
<1>4. ASSUME NEW k \in Attempts, MicGranted(k) \/ TicketMinted(k) \/ SpeakerResumed(k) \/ ContextResumed(k)
      PROVE  VoiceInv'
  BY <1>4, ProceedsKeeps
<1>5. ASSUME NEW k \in Attempts, Connect(k) PROVE VoiceInv'
  BY <1>5, ConnectKeeps
<1>6. ASSUME NEW k \in Attempts, StartFails(k) PROVE VoiceInv'
  <2>1. k \in UnderWay /\ To(k, "over") /\ Stopped(UnderWay \ {k}, socket)
    BY <1>6 DEF StartFails
  <2>2. UnderWay' = UnderWay \ {k}
    BY <1>0, <2>1 DEF UnderWay, To
  <2>3. at' \in [Attempts -> Waits]
    BY <2>1, ToKeepsType DEF Waits
  <2> QED
    BY <1>0, <1>a, <2>1, <2>2, <2>3, StoppedKeeps
<1>7. ASSUME NEW k \in Attempts, Accepted(k) \/ Ready(k) PROVE VoiceInv'
  <2>1. /\ UNCHANGED <<at, ws, mic, live, overtaken, queued, ducked>>
        /\ socket[k] \in Connected
        /\ state' = state \/ state' # "idle"
        /\ socket' = Becomes(k, "open") \/ socket' = Becomes(k, "ready")
    BY <1>7 DEF Accepted, Ready, Connected
  <2>2. /\ socket' \in [Attempts -> Statuses]
        /\ \A j \in Attempts : socket'[j] \in Connected => socket[j] \in Connected
    BY <1>0, <2>1 DEF Becomes, Statuses, Connected
  <2> QED
    BY <1>0, <1>7, <2>1, <2>2, ConversationKeeps
<1>8. ASSUME NEW k \in Attempts, Closed(k) PROVE VoiceInv'
  BY <1>8, ClosedKeeps
<1>9. ASSUME NEW k \in Attempts, Audio(k) \/ Interrupted(k) PROVE VoiceInv'
  <2>1. /\ UNCHANGED <<at, ws, mic, live, overtaken, socket>>
        /\ socket[k] \in Connected
        /\ state' = state \/ state' # "idle"
        /\ \/ queued' = queued + 1 /\ ducked' = TRUE
           \/ queued' = 0 /\ ducked' = FALSE
    BY <1>9 DEF Audio, Interrupted, Connected
  <2>2. queued' \in Nat
    BY <1>0, <2>1
  <2>3. ducked' \in BOOLEAN /\ (ducked' <=> queued' > 0)
    <3>1. CASE queued' = queued + 1 /\ ducked' = TRUE
      <4>1. queued' > 0
        BY <1>0, <3>1
      <4> QED
        BY <3>1, <4>1
    <3>2. CASE queued' = 0 /\ ducked' = FALSE
      <4>1. ~(queued' > 0)
        BY <3>2
      <4> QED
        BY <3>2, <4>1
    <3> QED
      BY <2>1, <3>1, <3>2
  <2> QED
    BY <1>0, <1>9, <2>1, <2>2, <2>3, ConversationKeeps
<1>10. ASSUME NEW k \in Attempts, Ended(k) PROVE VoiceInv'
  <2>1. at' = at /\ Stopped(UnderWay, socket)
    BY <1>10 DEF Ended
  <2>2. UnderWay' = UnderWay
    BY <2>1 DEF UnderWay
  <2> QED
    BY <1>0, <1>a, <2>1, <2>2, StoppedKeeps
<1>11. CASE UNCHANGED clientVars
  BY <1>11 DEF clientVars, VoiceInv, VoiceTypeOK, OneStartAtATime, PageKnowsWhatRuns, IdleIsEmpty, UnderWay
<1> QED
  BY <1>1, <1>2, <1>3, <1>4, <1>5, <1>6, <1>7, <1>8, <1>9, <1>10, <1>11
     DEF VoiceNext, Proceeds, Settles

LEMMA OverheardByInv == VoiceInv => NobodyIsOverheard
<1> SUFFICES ASSUME VoiceInv, ~overtaken
             PROVE  (state = "idle" => Silent) /\ (ducked <=> queued > 0)
  BY DEF NobodyIsOverheard, EndsInSilence, FadedWhileSpeaking
<1>1. state = "idle" => Silent
  BY NullIsNoAttempt DEF VoiceInv, IdleIsEmpty, PageKnowsWhatRuns, Silent
<1> QED
  BY <1>1 DEF VoiceInv

\* However a conversation ends, nothing records and no socket is open behind
\* the idle button, and the microphone is faded while the agent is heard, as
\* long as no stop came in the middle of a start (stop, enqueue, duck,
\* flushPlayback).
THEOREM NobodyIsEverOverheard == VoiceSpec => []NobodyIsOverheard
  BY OverheardByInv, VoiceInvInit, VoiceInvNext, PTL DEF VoiceSpec

-----------------------------------------------------------------------------
(* Both scripts beside each other (MCOutside)                              *)

\* Neither script does what its visitor did not ask, whichever of them runs
\* (VisitorIsRespected), for any number of sessions, messages, histories,
\* starts and buffers.
THEOREM VisitorIsAlwaysRespected == Spec => []VisitorIsRespected
<1>1. Init => PageInv /\ VoiceInv
  BY PageInvInit, VoiceInvInit DEF Init
<1>2. PageInv /\ VoiceInv /\ [Next]_vars => (PageInv /\ VoiceInv)'
  <2> SUFFICES ASSUME PageInv, VoiceInv, [Next]_vars PROVE PageInv' /\ VoiceInv'
    OBVIOUS
  <2>1. [PageNext]_pageVars
    BY DEF Next, vars
  <2>2. [VoiceNext]_clientVars
    BY DEF Next, vars
  <2> QED
    BY <2>1, <2>2, PageInvNext, VoiceInvNext
<1>3. PageInv /\ VoiceInv => VisitorIsRespected
  BY ObeyedByInv, OverheardByInv DEF VisitorIsRespected
<1> QED
  BY <1>1, <1>2, <1>3, PTL DEF Spec
=============================================================================

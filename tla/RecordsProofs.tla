-------------------------- MODULE RecordsProofs -----------------------------
(***************************************************************************)
(* Proofs about the components that keep records on disk or in memory and  *)
(* share nothing, for all values of their constants: the versions of the   *)
(* configuration, the deployed pages, the audit trail (what a row with its *)
(* own hash vouches for), the rate limits (they hold in every window, and  *)
(* nobody waits longer than told), the catalogue of tools, agents and      *)
(* workflows, and the documents of the retrieval with their vectors.       *)
(***************************************************************************)
EXTENDS ConfigVersions, Deployments, AuditTrail, RateLimiter, Catalogue,
        RagService, SequenceLemmas

-----------------------------------------------------------------------------
(***************************************************************************)
(* Versions of the configuration (ConfigVersions)                          *)
(***************************************************************************)

\* The versions in the rows are the last ones (HistoryIsTheLastVersions), of which
\* every token that was given out names one; what a row and an answer hold is what
\* was committed.
Kept(n) == {v \in 1..n : v >= n - MaxSnapshots}

TokensNameVersions ==
    /\ held = [e \in Editors |-> held[e]]
    /\ \A e \in Editors : held[e] # Absent =>
         /\ ~held[e].apart => held[e].etag = held[e].shown
         /\ held[e].version # Absent =>
              /\ held[e].version \in 1..Len(committed)
              /\ held[e].etag = committed[held[e].version]

VersionsInv ==
    /\ prompt \in Contents \cup {Absent}
    /\ committed \in Seq(Contents)
    /\ TokensNameVersions
    /\ VersionsAreCoherent

LEMMA RowsAreKept ==
    ASSUME VersionsInv
    PROVE  /\ Len(committed) \in Nat /\ DOMAIN committed = 1..Len(committed)
           /\ DOMAIN snapshots = Kept(Len(committed))
           /\ \A v \in DOMAIN snapshots : snapshots[v] = committed[v]
  BY DEF VersionsInv, VersionsAreCoherent, HistoryIsTheLastVersions, Kept

LEMMA NewestOfKept ==
    ASSUME NEW n \in Nat
    PROVE  /\ Kept(n) = {} <=> n = 0
           /\ n # 0 => n \in Kept(n) /\ Max(Kept(n)) = n
<1>1. n # 0 => n \in Kept(n)
  BY VersionsAssumption DEF VersionsAssumption, Kept
<1>2. \A v \in Kept(n) : v \in 1..n /\ n >= v
  BY DEF Kept
<1>3. ASSUME n # 0 PROVE Max(Kept(n)) = n
  <2> DEFINE S == Kept(n)
  <2>1. n \in S /\ \A v \in S : v \in Int /\ n >= v
    BY <1>1, <1>2, <1>3
  <2> HIDE DEF S
  <2>2. \A x \in S : (\A v \in S : x >= v) => x = n
    BY <2>1
  <2>3. Max(S) = n
    BY <2>1, <2>2 DEF Max
  <2> QED
    BY <2>3 DEF S
<1> QED
  BY <1>1, <1>2, <1>3

\* Retention drops the oldest row when there is one more than the limit, and none
\* before.
LEMMA RetainedAreKept ==
    ASSUME NEW n \in Nat
    PROVE  Retained(Kept(n)) \cup {n + 1} = Kept(n + 1)
<1> USE VersionsAssumption DEF VersionsAssumption
<1> DEFINE S     == Kept(n)
           below(v) == {w \in S : w < v}
           spare == Max({Cardinality(S) - MaxSnapshots, 0})
<1>0. \A a \in Int : Max({a, 0}) = IF a >= 0 THEN a ELSE 0
  BY DEF Max
<1>1. Retained(S) = {v \in S : Cardinality(below(v)) >= spare}
  BY DEF Retained
<1>2. CASE n <= MaxSnapshots
  <2>1. S = 1..n
    BY <1>2 DEF Kept
  <2>2. Cardinality(S) = n /\ IsFiniteSet(S)
    BY <2>1, FS_Interval
  <2>3. spare = 0
    BY <1>0, <1>2, <2>2
  <2>4. \A v \in S : Cardinality(below(v)) >= 0
    <3>1. \A v : below(v) \in SUBSET S
      OBVIOUS
    <3> QED
      BY <2>2, <3>1, FS_Subset, FS_CardinalityType
  <2>5. Retained(S) = S
    BY <1>1, <2>3, <2>4
  <2> QED
    BY <1>2, <2>1, <2>5 DEF Kept
<1>3. CASE n > MaxSnapshots
  <2> DEFINE first == n - MaxSnapshots
  <2>1. S = first..n /\ first \in 1..n
    BY <1>3 DEF Kept
  <2>2. Cardinality(S) = MaxSnapshots + 1
    BY <2>1, FS_Interval
  <2>3. spare = 1
    BY <1>0, <2>2
  <2>4. ASSUME NEW v \in S PROVE Cardinality(below(v)) = v - first
    <3>1. below(v) = first..(v - 1)
      BY <2>1
    <3>2. v \in Int /\ first \in Int /\ first <= v
      BY <2>1
    <3>3. Cardinality(first..(v - 1)) = v - first
      <4> HIDE DEF first
      <4>1. PICK b \in Int : b = v - 1
        BY <3>2
      <4>2. Cardinality(first..b) = IF first > b THEN 0 ELSE b - first + 1
        BY <3>2, FS_Interval
      <4> QED
        BY <3>2, <4>1, <4>2
    <3> QED
      BY <3>1, <3>3
  <2>5. Retained(S) = {v \in S : v - first >= 1}
    BY <1>1, <2>3, <2>4
  <2> QED
    BY <1>3, <2>1, <2>5 DEF Kept
<1> QED
  BY <1>2, <1>3

LEMMA LatestIsLast ==
    ASSUME VersionsInv
    PROVE  /\ Has <=> Len(committed) # 0
           /\ Has => /\ Latest = Len(committed) /\ Latest \in DOMAIN snapshots
                     /\ snapshots[Latest] = committed[Latest]
  BY RowsAreKept, NewestOfKept DEF Has, Latest

\* What a commit does to the rows.
LEMMA CommitKeepsTheLast ==
    ASSUME VersionsInv, NEW content \in Contents, Commit(content)
    PROVE  /\ committed' \in Seq(Contents) /\ Len(committed') = Len(committed) + 1
           /\ \A v \in 1..Len(committed) : committed'[v] = committed[v]
           /\ committed'[Len(committed')] = content
           /\ HistoryIsTheLastVersions'
           /\ Has' /\ Latest' = Len(committed') /\ snapshots'[Latest'] = content
<1> DEFINE n == Len(committed)
<1>1. n \in Nat /\ committed \in Seq(Contents) /\ DOMAIN snapshots = Kept(n)
  BY RowsAreKept DEF VersionsInv
<1>2. /\ committed' \in Seq(Contents) /\ Len(committed') = n + 1
      /\ \A v \in 1..n : committed'[v] = committed[v]
      /\ committed'[n + 1] = content
  BY <1>1 DEF Commit
<1>3. (IF Has THEN Latest + 1 ELSE 1) = n + 1
  BY <1>1, LatestIsLast
<1>4. /\ DOMAIN snapshots' = Retained(Kept(n)) \cup {n + 1}
      /\ \A v \in DOMAIN snapshots' : snapshots'[v] = IF v = n + 1 THEN content ELSE snapshots[v]
  BY <1>1, <1>3 DEF Commit
<1>5. DOMAIN snapshots' = Kept(n + 1)
  BY <1>1, <1>4, RetainedAreKept
<1>6. \A v \in DOMAIN snapshots' : snapshots'[v] = committed'[v]
  <2> SUFFICES ASSUME NEW v \in DOMAIN snapshots', v # n + 1 PROVE snapshots'[v] = committed'[v]
    BY <1>2, <1>4
  <2>1. v \in Retained(Kept(n))
    BY <1>4
  <2>2. v \in Kept(n)
    BY <2>1 DEF Retained
  <2>3. v \in 1..n
    BY <2>2 DEF Kept
  <2>4. snapshots[v] = committed[v]
    BY <2>2, RowsAreKept
  <2> QED
    BY <2>3, <2>4, <1>2, <1>4
<1>7. HistoryIsTheLastVersions'
  <2>1. DOMAIN committed' = 1..(n + 1)
    BY <1>2
  <2> QED
    BY <2>1, <1>2, <1>5, <1>6 DEF HistoryIsTheLastVersions, Kept
<1>8. Kept(n + 1) # {} /\ Max(Kept(n + 1)) = n + 1 /\ n + 1 \in Kept(n + 1)
  BY <1>1, NewestOfKept
<1>9. Has' /\ Latest' = n + 1 /\ snapshots'[Latest'] = content
  BY <1>4, <1>5, <1>8 DEF Has, Latest
<1> QED
  BY <1>2, <1>7, <1>9

\* An answer names the version it shows, and older answers still name theirs.
LEMMA AnswersName ==
    ASSUME VersionsInv, NEW e \in Editors, NEW content, NEW version, NEW etag,
           held' = [held EXCEPT ![e] = Shown(content, version, etag)],
           committed' \in Seq(Contents), Len(committed') >= Len(committed),
           \A v \in 1..Len(committed) : committed'[v] = committed[v],
           version # Absent => version \in 1..Len(committed') /\ etag = committed'[version]
    PROVE  TokensNameVersions'
<1>1. Len(committed) \in Nat /\ Len(committed') \in Nat
  BY RowsAreKept
<1>2. held = [d \in Editors |-> held[d]]
  BY DEF VersionsInv, TokensNameVersions
<1>3. held' = [d \in Editors |-> held'[d]]
  BY <1>2
<1>4. held'[e] = Shown(content, version, etag)
  BY <1>2
<1>5. /\ held'[e].shown = content /\ held'[e].version = version /\ held'[e].etag = etag
      /\ held'[e].apart = (etag # content)
  BY <1>4 DEF Shown
<1>6. ~held'[e].apart => held'[e].etag = held'[e].shown
  BY <1>5
<1>7. \A d \in Editors \ {e} : held'[d] = held[d]
  BY <1>2
<1>8. ASSUME NEW d \in Editors, held'[d] # Absent
      PROVE  /\ ~held'[d].apart => held'[d].etag = held'[d].shown
             /\ held'[d].version # Absent =>
                  /\ held'[d].version \in 1..Len(committed')
                  /\ held'[d].etag = committed'[held'[d].version]
  <2>1. CASE d = e
    BY <2>1, <1>6, <1>5
  <2>2. CASE d # e
    <3>1. held'[d] = held[d] /\ held[d] # Absent
      BY <1>7, <1>8, <2>2
    <3>2. /\ ~held[d].apart => held[d].etag = held[d].shown
          /\ held[d].version # Absent =>
               /\ held[d].version \in 1..Len(committed)
               /\ held[d].etag = committed[held[d].version]
      BY <3>1 DEF VersionsInv, TokensNameVersions
    <3> QED
      BY <1>1, <3>1, <3>2
  <2> QED
    BY <2>1, <2>2
<1> QED
  BY <1>3, <1>8 DEF TokensNameVersions

LEMMA HeldKeepsNaming ==
    ASSUME VersionsInv, held' = held,
           committed' \in Seq(Contents), Len(committed') >= Len(committed),
           \A v \in 1..Len(committed) : committed'[v] = committed[v]
    PROVE  TokensNameVersions'
<1>1. Len(committed) \in Nat /\ Len(committed') \in Nat
  BY RowsAreKept
<1> QED
  BY <1>1 DEF VersionsInv, TokensNameVersions

\* An edit replaces what its editor was shown.
LEMMA UpdateProtects ==
    ASSUME VersionsInv, NEW e \in Editors, NEW content \in Contents, NEW token \in Tokens,
           Sends(e, token), Update(e, content, token)
    PROVE  TokensProtectTheRead'
<1>1. CASE token = "none" \/ ~Has
  BY <1>1 DEF Update, VersionsInv, VersionsAreCoherent, TokensProtectTheRead
<1>2. CASE ~(token = "none" \/ ~Has)
  <2>1. admitted' = [shown |-> held[e].shown, replaced |-> snapshots[Latest], apart |-> held[e].apart]
    BY <1>2 DEF Update
  <2>2. held[e] # Absent /\ held[e].version # Absent
    BY <1>2 DEF Sends
  <2>3. ~held[e].apart => held[e].etag = held[e].shown
    BY <2>2 DEF VersionsInv, TokensNameVersions
  <2>4. held[e].etag = snapshots[Latest]
    <3>1. held[e].etag = committed[held[e].version]
      BY <2>2 DEF VersionsInv, TokensNameVersions
    <3>2. held[e].version = Latest \/ held[e].etag = snapshots[Latest]
      BY <1>2 DEF Update, Matches
    <3>3. snapshots[Latest] = committed[Latest]
      BY <1>2, LatestIsLast
    <3> QED
      BY <3>1, <3>2, <3>3
  <2> QED
    BY <2>1, <2>3, <2>4 DEF TokensProtectTheRead
<1> QED
  BY <1>1, <1>2

LEMMA SamePromptSameVersions ==
    ASSUME VersionsInv, UNCHANGED <<snapshots, committed, admitted>>
    PROVE  HistoryIsTheLastVersions' /\ TokensProtectTheRead' /\ committed' \in Seq(Contents)
           /\ Has' = Has /\ Latest' = Latest
  BY DEF VersionsInv, VersionsAreCoherent, HistoryIsTheLastVersions, TokensProtectTheRead, Has, Latest

\* A step that writes no version.
LEMMA NoCommitKeepsInv ==
    ASSUME VersionsInv, UNCHANGED <<snapshots, committed, admitted>>,
           prompt' \in Contents \cup {Absent},
           \/ prompt' = prompt /\ split' = split
           \/ prompt' = Absent
           \/ split' = Has,
           TokensNameVersions'
    PROVE  VersionsInv'
<1>1. /\ HistoryIsTheLastVersions' /\ TokensProtectTheRead' /\ committed' \in Seq(Contents)
      /\ Has' = Has /\ Latest' = Latest
  BY SamePromptSameVersions
<1>2. PromptIsItsLatestVersion'
  BY <1>1 DEF VersionsInv, VersionsAreCoherent, PromptIsItsLatestVersion
<1> QED
  BY <1>1, <1>2 DEF VersionsInv, VersionsAreCoherent

\* A step that writes one.
LEMMA CommitKeepsInv ==
    ASSUME VersionsInv, NEW content \in Contents, Commit(content),
           prompt' \in Contents \cup {Absent},
           prompt' = content \/ split' = TRUE,
           TokensNameVersions', TokensProtectTheRead'
    PROVE  VersionsInv'
<1>1. /\ committed' \in Seq(Contents) /\ HistoryIsTheLastVersions'
      /\ Has' /\ snapshots'[Latest'] = content
  BY CommitKeepsTheLast
<1>2. PromptIsItsLatestVersion'
  BY <1>1 DEF PromptIsItsLatestVersion
<1> QED
  BY <1>1, <1>2 DEF VersionsInv, VersionsAreCoherent

LEMMA VersionsInitInv == VersionsInit => VersionsInv
<1> SUFFICES ASSUME VersionsInit PROVE VersionsInv
  OBVIOUS
<1>1. committed = <<>> /\ DOMAIN snapshots = {} /\ DOMAIN committed = {}
  BY DEF VersionsInit
<1>2. HistoryIsTheLastVersions /\ ~Has
  BY <1>1 DEF HistoryIsTheLastVersions, Has
<1>3. TokensNameVersions
  BY DEF VersionsInit, TokensNameVersions
<1> QED
  BY <1>1, <1>2, <1>3
     DEF VersionsInit, VersionsInv, VersionsAreCoherent, PromptIsItsLatestVersion, TokensProtectTheRead

\* The two ways a handler answers, and the one in which it does not.
LEMMA CommittedAnswer ==
    ASSUME VersionsInv, NEW e \in Editors, NEW content \in Contents, Commit(content)
    PROVE  Answer(e, content) \/ held' = held => TokensNameVersions'
<1>1. /\ committed' \in Seq(Contents) /\ Len(committed') = Len(committed) + 1
      /\ \A v \in 1..Len(committed) : committed'[v] = committed[v]
      /\ committed'[Len(committed')] = content
      /\ Len(committed) \in Nat
  BY CommitKeepsTheLast, RowsAreKept
<1>2. ASSUME Answer(e, content) PROVE TokensNameVersions'
  <2>1. Len(committed') \in 1..Len(committed') /\ Len(committed') >= Len(committed)
    BY <1>1
  <2>2. held' = [held EXCEPT ![e] = Shown(content, Len(committed'), content)]
    BY <1>2 DEF Answer
  <2> QED
    BY <1>1, <2>1, <2>2, AnswersName
<1>3. ASSUME held' = held PROVE TokensNameVersions'
  BY <1>1, <1>3, HeldKeepsNaming
<1> QED
  BY <1>2, <1>3

LEMMA BareAnswer ==
    ASSUME VersionsInv, NEW e \in Editors, NEW content, committed' = committed
    PROVE  Bare(e, content) \/ held' = held => TokensNameVersions'
<1>1. committed' \in Seq(Contents) /\ Len(committed') >= Len(committed)
  BY RowsAreKept DEF VersionsInv
<1>2. ASSUME Bare(e, content) PROVE TokensNameVersions'
  <2>1. held' = [held EXCEPT ![e] = Shown(content, Absent, Absent)]
    BY <1>2 DEF Bare
  <2> QED
    BY <1>1, <2>1, AnswersName
<1>3. ASSUME held' = held PROVE TokensNameVersions'
  BY <1>1, <1>3, HeldKeepsNaming
<1> QED
  BY <1>2, <1>3

LEMMA LatestAnswer ==
    ASSUME VersionsInv, NEW e \in Editors, NEW content, Has, committed' = committed,
           held' = [held EXCEPT ![e] = Shown(content, Latest, snapshots[Latest])]
    PROVE  TokensNameVersions'
<1>1. committed' \in Seq(Contents) /\ Len(committed') >= Len(committed)
  BY RowsAreKept DEF VersionsInv
<1>2. Latest \in 1..Len(committed') /\ snapshots[Latest] = committed'[Latest]
  BY LatestIsLast, RowsAreKept
<1> QED
  BY <1>1, <1>2, AnswersName

LEMMA VersionsStepKeepsInv == VersionsInv /\ [VersionsNext]_versionVars => VersionsInv'
<1> SUFFICES ASSUME VersionsInv, [VersionsNext]_versionVars PROVE VersionsInv'
  OBVIOUS
<1>0. prompt \in Contents \cup {Absent}
  BY DEF VersionsInv
<1>1. CASE DeletePrompt
  <2>1. committed' \in Seq(Contents) /\ Len(committed') >= Len(committed)
    BY <1>1, RowsAreKept DEF DeletePrompt, VersionsInv
  <2>2. TokensNameVersions'
    BY <1>1, <2>1, HeldKeepsNaming DEF DeletePrompt
  <2> QED
    BY <1>1, <2>2, NoCommitKeepsInv DEF DeletePrompt
<1>2. ASSUME NEW e \in Editors, GetConfig(e) PROVE VersionsInv'
  <2>1. TokensNameVersions'
    BY <1>2, LatestAnswer DEF GetConfig
  <2> QED
    BY <1>0, <1>2, <2>1, NoCommitKeepsInv DEF GetConfig
<1>3. ASSUME NEW e \in Editors, NEW v \in DOMAIN snapshots, RollbackConfig(e, v) PROVE VersionsInv'
  <2>1. snapshots[v] \in Contents
    BY RowsAreKept DEF VersionsInv, Kept
  <2>2. TokensNameVersions'
    BY <1>3, <2>1, CommittedAnswer DEF RollbackConfig
  <2>3. TokensProtectTheRead'
    BY <1>3 DEF RollbackConfig, VersionsInv, VersionsAreCoherent, TokensProtectTheRead
  <2> QED
    BY <1>0, <1>3, <2>1, <2>2, <2>3, CommitKeepsInv DEF RollbackConfig
<1>4. ASSUME NEW e \in Editors, NEW available \in BOOLEAN, GetPrompt(e, available) PROVE VersionsInv'
  <2>1. TokensNameVersions'
    BY <1>4, LatestAnswer, BareAnswer DEF GetPrompt
  <2> QED
    BY <1>0, <1>4, <2>1, NoCommitKeepsInv DEF GetPrompt
<1>5. ASSUME NEW e \in Editors, NEW available \in BOOLEAN, NEW content \in Contents,
             CreatePrompt(e, content, available)
      PROVE  VersionsInv'
  <2>1. CASE Update(e, content, "none") /\ Answer(e, content)
    <3>1. Commit(content)
      BY <2>1 DEF Update
    <3>2. TokensNameVersions'
      BY <2>1, <3>1, CommittedAnswer
    <3>3. TokensProtectTheRead'
      BY <2>1, UpdateProtects DEF Sends, Tokens
    <3> QED
      BY <1>5, <3>1, <3>2, <3>3, CommitKeepsInv DEF CreatePrompt
  <2>2. CASE split' = Has /\ UNCHANGED <<snapshots, committed, admitted>> /\ (Bare(e, content) \/ held' = held)
    <3>1. TokensNameVersions'
      BY <2>2, BareAnswer
    <3> QED
      BY <1>5, <2>2, <3>1, NoCommitKeepsInv DEF CreatePrompt
  <2> QED
    BY <1>5, <2>1, <2>2 DEF CreatePrompt
<1>6. ASSUME NEW e \in Editors, NEW available \in BOOLEAN, NEW content \in Contents, NEW token \in Tokens,
             UpdatePrompt(e, content, token, available)
      PROVE  VersionsInv'
  <2>1. CASE /\ Update(e, content, token) /\ (Answer(e, content) \/ held' = held)
             /\ prompt' = content \/ split' = TRUE
             /\ prompt' \in {prompt, content}
    <3>1. Commit(content)
      BY <2>1 DEF Update
    <3>2. TokensNameVersions'
      BY <2>1, <3>1, CommittedAnswer
    <3>3. TokensProtectTheRead'
      BY <1>6, <2>1, UpdateProtects DEF UpdatePrompt
    <3> QED
      BY <1>0, <2>1, <3>1, <3>2, <3>3, CommitKeepsInv
  <2>2. CASE split' = Has /\ prompt' = content /\ UNCHANGED <<snapshots, committed, admitted>> /\ Bare(e, content)
    <3>1. TokensNameVersions'
      BY <2>2, BareAnswer
    <3> QED
      BY <2>2, <3>1, NoCommitKeepsInv
  <2> QED
    BY <1>6, <2>1, <2>2 DEF UpdatePrompt
<1>7. ASSUME NEW e \in Editors, NEW content \in Contents, NEW token \in Tokens, UpdateConfig(e, content, token)
      PROVE  VersionsInv'
  <2>1. Commit(content)
    BY <1>7 DEF UpdateConfig, Update
  <2>2. TokensNameVersions'
    BY <1>7, <2>1, CommittedAnswer DEF UpdateConfig
  <2>3. TokensProtectTheRead'
    BY <1>7, UpdateProtects DEF UpdateConfig
  <2> QED
    BY <1>0, <1>7, <2>1, <2>2, <2>3, CommitKeepsInv DEF UpdateConfig
<1>8. CASE UNCHANGED versionVars
  BY <1>8 DEF versionVars, VersionsInv, VersionsAreCoherent, TokensNameVersions, HistoryIsTheLastVersions,
              PromptIsItsLatestVersion, TokensProtectTheRead, Has, Latest
<1> QED
  BY <1>1, <1>2, <1>3, <1>4, <1>5, <1>6, <1>7, <1>8 DEF VersionsNext

\* The rows, the history, the file and the tokens fit together, for any number of
\* editors and contents and every limit of the rows (VersionedConfigService).
THEOREM VersionsAreAlwaysCoherent == VersionsSpec => []VersionsAreCoherent
<1>1. VersionsInv => VersionsAreCoherent
  BY DEF VersionsInv
<1> QED
  BY <1>1, VersionsInitInv, VersionsStepKeepsInv, PTL DEF VersionsSpec

-----------------------------------------------------------------------------
(***************************************************************************)
(* Deployed pages (Deployments)                                            *)
(***************************************************************************)

\* What was asked for is a page, one without a stamp if a model wrote it; and a
\* page is there only if it was asked for.
AskedForPages ==
    \A d \in Deployments :
        /\ asked[d] # Missing => /\ asked[d] \in Pages
                                 /\ asked[d].look = "custom" => asked[d].stamp = Missing
        /\ page[d] # Missing => asked[d] # Missing

DeploymentsInv ==
    /\ release \in Nat
    /\ records = [d \in Deployments |-> records[d]] /\ page = [d \in Deployments |-> page[d]]
    /\ asked = [d \in Deployments |-> asked[d]] /\ cut = [d \in Deployments |-> cut[d]]
    /\ kept \in [Deployments -> Settings \cup {Missing}]
    /\ AskedForPages
    /\ PagesAreAsDeployed

\* Nothing changes for the other deployments, except that their records may be lost.
OthersAsTheyWere(d) ==
    /\ readable' => readable
    /\ \A c \in Deployments \ {d} :
        /\ records'[c] = records[c] /\ page'[c] = page[c] /\ kept'[c] = kept[c]
        /\ asked'[c] = asked[c] /\ cut'[c] = cut[c]

\* What has to hold of one deployment.
Agrees(d) ==
    IF records[d] = Missing THEN page[d] = Missing /\ cut[d] = "no"
    ELSE /\ records[d].status = "error" <=> cut[d] = "told"
         /\ records[d].status = "active" =>
              /\ page[d] # Missing /\ page[d].look # "torn"
              /\ page[d].settings = records[d].settings /\ kept[d] = records[d].settings

Sound(d) ==
    /\ asked[d] # Missing => /\ asked[d] \in Pages
                             /\ asked[d].look = "custom" => asked[d].stamp = Missing
    /\ page[d] # Missing => asked[d] # Missing
    /\ readable /\ cut[d] # "untold" => Agrees(d)
    /\ cut[d] = "no" /\ page[d] # Missing /\ asked[d].look = "custom" => page[d] = asked[d]

LEMMA SoundEach == (AskedForPages /\ PagesAreAsDeployed) <=> \A d \in Deployments : Sound(d)
  BY DEF Sound, Agrees, AskedForPages, PagesAreAsDeployed, PageAgreesWithRecord, ForeignPagesAreLeftAlone

\* A step on one deployment has to be sound for that one.
LEMMA OneDeploymentKeepsInv ==
    ASSUME DeploymentsInv, NEW d \in Deployments, OthersAsTheyWere(d), Sound(d)', release' = release,
           records' = [c \in Deployments |-> records'[c]], page' = [c \in Deployments |-> page'[c]],
           asked' = [c \in Deployments |-> asked'[c]], cut' = [c \in Deployments |-> cut'[c]],
           kept' \in [Deployments -> Settings \cup {Missing}]
    PROVE  DeploymentsInv'
<1>1. ASSUME NEW c \in Deployments PROVE Sound(c)'
  <2>1. CASE c = d
    BY <2>1
  <2>2. CASE c # d
    <3>1. Sound(c)
      BY SoundEach DEF DeploymentsInv
    <3> QED
      BY <3>1, <2>2 DEF OthersAsTheyWere, Sound, Agrees
  <2> QED
    BY <2>1, <2>2
<1>2. AskedForPages' /\ PagesAreAsDeployed'
  BY <1>1 DEF Sound, Agrees, AskedForPages, PagesAreAsDeployed, PageAgreesWithRecord,
              ForeignPagesAreLeftAlone
<1> QED
  BY <1>2 DEF DeploymentsInv

LEMMA FlashKeepsInv ==
    ASSUME DeploymentsInv, NEW d \in Deployments, NEW settings \in Settings,
           NEW frontend \in Frontends \cup {Missing}, Flash(d, settings, frontend)
    PROVE  DeploymentsInv'
<1> USE DEF Put
<1>1. PICK made : made = Made(settings, frontend)
  OBVIOUS
<1>2. made \in Pages /\ made.settings = settings /\ made.look # "torn" /\ (made.look = "custom" => made.stamp = Missing)
  <2>1. CASE frontend = Missing
    BY <1>1, <2>1 DEF Made, Rendered, Pages, DeploymentsInv
  <2>2. CASE frontend # Missing
    <3>1. frontend \in Frontends
      BY <2>2
    <3>2. /\ frontend.look \in {"themed", "custom"} /\ frontend.stamp \in Nat \cup {Missing}
          /\ frontend.look = "custom" => frontend.stamp = Missing
      BY <3>1 DEF Frontends, DeploymentsInv
    <3>3. made = [settings |-> settings, look |-> frontend.look, stamp |-> frontend.stamp]
      BY <1>1, <2>2 DEF Made
    <3> QED
      BY <3>2, <3>3 DEF Pages
  <2> QED
    BY <2>1, <2>2
<1>3. made # Missing /\ settings # Missing
  BY <1>2, DeploymentsAssumption DEF DeploymentsAssumption
<1>5. asked' = [asked EXCEPT ![d] = made] /\ release' = release /\ readable
  BY <1>1 DEF Flash
<1>6. /\ asked' = [c \in Deployments |-> asked'[c]] /\ asked'[d] = made
      /\ \A c \in Deployments \ {d} : asked'[c] = asked[c]
  BY <1>5 DEF DeploymentsInv
<1>4. PICK index \in Written, json \in Written, saved \in Written :
        /\ index # "whole" => json = "kept"
        /\ CASE index = "whole" -> page' = Put(page, d, asked'[d])
             [] index = "torn"  -> \E p \in Torn(asked'[d]) : page' = Put(page, d, p)
             [] index = "kept"  -> page' = page
        /\ kept' = CASE json = "whole" -> Put(kept, d, settings)
                     [] json = "torn"  -> Put(kept, d, Missing)
                     [] json = "kept"  -> kept
        /\ Save(saved, Put(records, d, [settings |-> settings,
                                        status |-> IF json = "whole" THEN "active" ELSE "error"]))
        /\ cut' = Put(cut, d, IF saved # "whole" THEN "untold" ELSE IF json = "whole" THEN "no" ELSE "told")
  BY DEF Flash
<1>7. /\ page' = [c \in Deployments |-> page'[c]] /\ (json = "whole" => page'[d] = made)
      /\ \A c \in Deployments \ {d} : page'[c] = page[c]
  <2>1. index = "whole" \/ index = "torn" \/ index = "kept"
    BY DEF Written
  <2>2. PICK p : page' = [page EXCEPT ![d] = p] /\ (index = "whole" => p = made)
    <3>1. CASE index = "whole"
      BY <3>1, <1>4, <1>6
    <3>2. CASE index = "torn"
      <4>1. \E p \in Torn(asked'[d]) : page' = [page EXCEPT ![d] = p]
        BY <3>2, <1>4
      <4> QED
        BY <3>2, <4>1
    <3>3. CASE index = "kept"
      <4>1. page' = [page EXCEPT ![d] = page[d]]
        BY <3>3, <1>4 DEF DeploymentsInv
      <4> QED
        BY <3>3, <4>1
    <3> QED
      BY <2>1, <3>1, <3>2, <3>3
  <2>3. json = "whole" => index = "whole"
    BY <1>4, <2>1
  <2> QED
    BY <2>2, <2>3 DEF DeploymentsInv
<1>8. /\ kept' \in [Deployments -> Settings \cup {Missing}] /\ (json = "whole" => kept'[d] = settings)
      /\ \A c \in Deployments \ {d} : kept'[c] = kept[c]
  BY <1>4 DEF DeploymentsInv, Written
<1>9. /\ records' = [c \in Deployments |-> records'[c]]
      /\ saved = "whole" =>
           records'[d] = [settings |-> settings, status |-> IF json = "whole" THEN "active" ELSE "error"]
      /\ \A c \in Deployments \ {d} : records'[c] = records[c]
  BY <1>4 DEF DeploymentsInv, Save
<1>10. /\ cut' = [c \in Deployments |-> cut'[c]]
       /\ cut'[d] = IF saved # "whole" THEN "untold" ELSE IF json = "whole" THEN "no" ELSE "told"
       /\ \A c \in Deployments \ {d} : cut'[c] = cut[c]
  BY <1>4 DEF DeploymentsInv
<1>11. OthersAsTheyWere(d)
  BY <1>5, <1>6, <1>7, <1>8, <1>9, <1>10 DEF OthersAsTheyWere
<1>12. Sound(d)'
  <2>1. \A status : [settings |-> settings, status |-> status].settings = settings
    OBVIOUS
  <2>2. ASSUME NEW status \in {"active", "error"} PROVE [settings |-> settings, status |-> status] # Missing
    <3>1. [settings |-> settings, status |-> status] \in Records
      BY DEF Records
    <3> QED
      BY <3>1, DeploymentsAssumption DEF DeploymentsAssumption
  <2>3. cut'[d] # "untold" => Agrees(d)'
    <3>1. CASE saved # "whole"
      BY <3>1, <1>10
    <3>2. CASE saved = "whole" /\ json = "whole"
      BY <3>2, <2>2, <1>2, <1>3, <1>7, <1>8, <1>9, <1>10 DEF Agrees
    <3>3. CASE saved = "whole" /\ json # "whole"
      BY <3>3, <2>2, <1>9, <1>10 DEF Agrees
    <3> QED
      BY <3>1, <3>2, <3>3
  <2>4. cut'[d] = "no" => page'[d] = asked'[d]
    BY <1>6, <1>7, <1>10
  <2> QED
    BY <2>3, <2>4, <1>2, <1>3, <1>6 DEF Sound
<1> QED
  BY <1>5, <1>6, <1>7, <1>8, <1>9, <1>10, <1>11, <1>12, OneDeploymentKeepsInv

LEMMA DeleteKeepsInv ==
    ASSUME DeploymentsInv, NEW d \in Deployments, DeleteDeployment(d)
    PROVE  DeploymentsInv'
<1> USE DEF Put
<1>1. Sound(d)
  BY SoundEach DEF DeploymentsInv
<1>2. CASE /\ Save("whole", Put(records, d, Missing))
           /\ page' \in {page, Put(page, d, Missing)} /\ kept' \in {kept, Put(kept, d, Missing)}
           /\ cut' = Put(cut, d, IF page'[d] = Missing /\ kept'[d] = Missing THEN "no" ELSE "untold")
  <2>1. /\ records' = [records EXCEPT ![d] = Missing] /\ release' = release /\ asked' = asked /\ readable
    BY <1>2 DEF DeleteDeployment, Save
  <2>2. /\ records' = [c \in Deployments |-> records'[c]] /\ records'[d] = Missing
        /\ \A c \in Deployments \ {d} : records'[c] = records[c]
    BY <2>1 DEF DeploymentsInv
  <2>3. /\ page' = [c \in Deployments |-> page'[c]] /\ page'[d] \in {page[d], Missing}
        /\ \A c \in Deployments \ {d} : page'[c] = page[c]
    BY <1>2 DEF DeploymentsInv
  <2>4. /\ kept' \in [Deployments -> Settings \cup {Missing}]
        /\ \A c \in Deployments \ {d} : kept'[c] = kept[c]
    BY <1>2 DEF DeploymentsInv
  <2>5. /\ cut' = [c \in Deployments |-> cut'[c]]
        /\ cut'[d] # "untold" => page'[d] = Missing /\ cut'[d] = "no"
        /\ \A c \in Deployments \ {d} : cut'[c] = cut[c]
    BY <1>2 DEF DeploymentsInv
  <2>6. OthersAsTheyWere(d)
    BY <2>1, <2>2, <2>3, <2>4, <2>5 DEF OthersAsTheyWere
  <2>7. Sound(d)'
    BY <1>1, <2>1, <2>2, <2>3, <2>5 DEF Sound, Agrees
  <2>8. asked' = [c \in Deployments |-> asked'[c]]
    BY <2>1 DEF DeploymentsInv
  <2> QED
    BY <2>1, <2>2, <2>3, <2>4, <2>5, <2>6, <2>7, <2>8, OneDeploymentKeepsInv
<1>3. CASE Save("torn", records) /\ UNCHANGED <<page, kept, cut>>
  <2>1. UNCHANGED <<release, records, page, kept, asked, cut>> /\ ~readable'
    BY <1>3 DEF DeleteDeployment, Save
  <2>2. AskedForPages' /\ ForeignPagesAreLeftAlone' /\ PageAgreesWithRecord'
    BY <2>1 DEF DeploymentsInv, AskedForPages, PagesAreAsDeployed, PageAgreesWithRecord,
                ForeignPagesAreLeftAlone
  <2> QED
    BY <2>1, <2>2 DEF DeploymentsInv, PagesAreAsDeployed
<1> QED
  BY <1>2, <1>3 DEF DeleteDeployment

\* A document is never old, so it is never rendered anew.
LEMMA ServeKeepsInv ==
    ASSUME DeploymentsInv, NEW d \in Deployments, Serve(d)
    PROVE  DeploymentsInv'
<1> USE DEF Put
<1>1. Sound(d)
  BY SoundEach DEF DeploymentsInv
<1>2. UNCHANGED <<release, records, readable, kept, asked>> /\ page[d] # Missing
  BY DEF Serve
<1>3. CASE UNCHANGED <<page, cut>>
  BY <1>2, <1>3 DEF DeploymentsInv, AskedForPages, PagesAreAsDeployed, PageAgreesWithRecord,
                    ForeignPagesAreLeftAlone
<1>4. ASSUME NEW p, page' = [page EXCEPT ![d] = p], cut' = [c \in Deployments |-> cut'[c]],
             \A c \in Deployments \ {d} : cut'[c] = cut[c], Sound(d)'
      PROVE  DeploymentsInv'
  <2>1. page' = [c \in Deployments |-> page'[c]] /\ \A c \in Deployments \ {d} : page'[c] = page[c]
    BY <1>4 DEF DeploymentsInv
  <2>2. OthersAsTheyWere(d)
    BY <1>2, <1>4, <2>1 DEF OthersAsTheyWere
  <2>3. /\ records' = [c \in Deployments |-> records'[c]] /\ asked' = [c \in Deployments |-> asked'[c]]
        /\ kept' \in [Deployments -> Settings \cup {Missing}]
    BY <1>2 DEF DeploymentsInv
  <2> QED
    BY <1>2, <1>4, <2>1, <2>2, <2>3, OneDeploymentKeepsInv
<1>5. Old(page[d]) => ~(cut[d] = "no" /\ asked[d].look = "custom")
  BY <1>1, <1>2 DEF Sound, Old
<1>6. CASE Old(page[d]) /\ kept[d] # Missing /\ page' = [page EXCEPT ![d] = Rendered(kept[d])] /\ cut' = cut
  <2>1. /\ page'[d].settings = kept[d] /\ page'[d].look # "torn" /\ page'[d] # Missing
    <3>1. Rendered(kept[d]) \in Pages
      BY <1>6 DEF DeploymentsInv, Rendered, Pages
    <3>2. page'[d] = Rendered(kept[d])
      BY <1>6 DEF DeploymentsInv
    <3> QED
      BY <3>1, <3>2, DeploymentsAssumption DEF DeploymentsAssumption, Rendered
  <2>2. Sound(d)'
    BY <1>1, <1>2, <1>5, <1>6, <2>1 DEF Sound, Agrees
  <2> QED
    BY <1>4, <1>6, <2>2 DEF DeploymentsInv
<1>7. CASE /\ Old(page[d]) /\ kept[d] # Missing
           /\ \E p \in Torn(Rendered(kept[d])) : page' = [page EXCEPT ![d] = p]
           /\ cut' = [cut EXCEPT ![d] = IF cut[d] = "told" THEN "told" ELSE "untold"]
  <2>1. /\ cut' = [c \in Deployments |-> cut'[c]] /\ \A c \in Deployments \ {d} : cut'[c] = cut[c]
        /\ cut'[d] = IF cut[d] = "told" THEN "told" ELSE "untold"
    BY <1>7 DEF DeploymentsInv
  <2>2. readable' /\ cut'[d] # "untold" => Agrees(d)'
    <3> SUFFICES ASSUME readable', cut'[d] # "untold" PROVE Agrees(d)'
      OBVIOUS
    <3>1. readable /\ cut[d] = "told" /\ cut'[d] = "told"
      BY <1>2, <2>1
    <3>2. records[d] # Missing /\ records[d].status = "error"
      BY <1>1, <3>1 DEF Sound, Agrees
    <3> QED
      BY <1>2, <3>1, <3>2 DEF Agrees
  <2>3. cut'[d] # "no"
    BY <2>1
  <2>4. Sound(d)'
    BY <1>1, <1>2, <2>2, <2>3 DEF Sound
  <2> QED
    BY <1>4, <1>7, <2>1, <2>4
<1> QED
  BY <1>3, <1>6, <1>7 DEF Serve

LEMMA DeploymentsInitInv == DeploymentsInit => DeploymentsInv
  BY DEF DeploymentsInit, DeploymentsInv, AskedForPages, PagesAreAsDeployed, PageAgreesWithRecord,
         ForeignPagesAreLeftAlone

LEMMA DeploymentsStepKeepsInv == DeploymentsInv /\ [DeploymentsNext]_deploymentVars => DeploymentsInv'
<1> SUFFICES ASSUME DeploymentsInv, [DeploymentsNext]_deploymentVars PROVE DeploymentsInv'
  OBVIOUS
<1>1. CASE release' \in Nat /\ UNCHANGED <<records, readable, page, kept, asked, cut>>
  BY <1>1 DEF DeploymentsInv, AskedForPages, PagesAreAsDeployed, PageAgreesWithRecord,
              ForeignPagesAreLeftAlone
<1>2. CASE Upgrade
  BY <1>1, <1>2 DEF Upgrade, DeploymentsInv
<1>3. CASE UNCHANGED deploymentVars
  BY <1>1, <1>3 DEF deploymentVars, DeploymentsInv
<1> QED
  BY <1>2, <1>3, FlashKeepsInv, DeleteKeepsInv, ServeKeepsInv DEF DeploymentsNext

\* Pages have the settings of their record and documents are left as they were
\* deployed, except where a failed write told nobody: for any number of deployments,
\* settings and releases.
THEOREM PagesAreAlwaysAsDeployed == DeploymentsSpec => []PagesAreAsDeployed
<1>1. DeploymentsInv => PagesAreAsDeployed
  BY DEF DeploymentsInv
<1> QED
  BY <1>1, DeploymentsInitInv, DeploymentsStepKeepsInv, PTL DEF DeploymentsSpec

-----------------------------------------------------------------------------
(***************************************************************************)
(* The audit trail (AuditTrail): a hash is a nest of pairs as deep as the  *)
(* trail is long, so the rows are a sequence over whatever they are.       *)
(***************************************************************************)

Elements(s) == {s[i] : i \in DOMAIN s}
IsSequence(s) == s \in Seq(Elements(s))

-----------------------------------------------------------------------------
(* The inductive invariant                                                 *)

\* The last row of a table, which was appended to the others, fits.
LastFits(chain) == Len(chain) # 0 /\ ~BreaksAt(chain, Len(chain))

TrailTypeOK ==
    /\ IsSequence(entries) /\ IsSequence(written)
    /\ \A i \in 1..Len(entries) : entries[i].id \in 1..Len(written)
    /\ \A k \in 1..Len(written) : IsSequence(written[k])
    /\ DOMAIN writing = Writers
    /\ \A w \in Writers : writing[w] # None =>
          writing[w] = [record |-> writing[w].record, tail |-> writing[w].tail]

\* Whoever has read the tail holds the lock, and the tail has not changed since.
TailIsHeld == \A w \in Writers : HasRead(w) => lock = w /\ writing[w].tail = TailHash

TrailInv ==
    /\ TrailTypeOK
    /\ TailIsHeld
    /\ \A k \in 1..Len(written) : LastFits(written[k])

-----------------------------------------------------------------------------
(* Sequences of anything                                                   *)

LEMMA SequenceLength ==
    ASSUME NEW s, IsSequence(s)
    PROVE  Len(s) \in Nat /\ DOMAIN s = 1..Len(s)
BY LenProperties DEF IsSequence

LEMMA SequencesByElements ==
    ASSUME NEW S, NEW s \in Seq(S)
    PROVE  IsSequence(s)
<1>1. s = [i \in 1..Len(s) |-> s[i]] /\ Len(s) \in Nat /\ DOMAIN s = 1..Len(s)
  BY LenProperties
<1>2. s \in [1..Len(s) -> Elements(s)]
  BY <1>1 DEF Elements
<1> QED
  BY <1>1, <1>2, SeqDef DEF IsSequence

LEMMA AppendedTo ==
    ASSUME NEW s, IsSequence(s), NEW e
    PROVE  /\ IsSequence(Append(s, e))
           /\ Len(Append(s, e)) = Len(s) + 1
           /\ \A i \in 1..Len(s) : Append(s, e)[i] = s[i]
           /\ Append(s, e)[Len(s) + 1] = e
<1> DEFINE S == Elements(s) \cup {e}
<1>1. s \in Seq(S) /\ e \in S
  BY SeqMonotonic DEF IsSequence
<1> HIDE DEF S
<1>2. Append(s, e) \in Seq(S)
  BY <1>1, AppendProperties
<1>3. IsSequence(Append(s, e))
  BY <1>2, SequencesByElements
<1> QED
  BY <1>1, <1>3, AppendProperties

LEMMA ReplacedIn ==
    ASSUME NEW s, IsSequence(s), NEW i \in 1..Len(s), NEW e
    PROVE  /\ IsSequence([s EXCEPT ![i] = e])
           /\ Len([s EXCEPT ![i] = e]) = Len(s)
           /\ \A j \in 1..Len(s) : [s EXCEPT ![i] = e][j] = IF j = i THEN e ELSE s[j]
<1> DEFINE S == Elements(s) \cup {e}
<1>1. s \in Seq(S) /\ e \in S
  BY SeqMonotonic DEF IsSequence
<1> HIDE DEF S
<1>2. [s EXCEPT ![i] = e] \in Seq(S)
  BY <1>1, ExceptSeq
<1>3. IsSequence([s EXCEPT ![i] = e])
  BY <1>2, SequencesByElements
<1> QED
  BY <1>1, <1>3, ExceptSeq

LEMMA RemovedFrom ==
    ASSUME NEW s, IsSequence(s), NEW i \in 1..Len(s)
    PROVE  /\ IsSequence(RemoveAt(s, i))
           /\ Len(RemoveAt(s, i)) = Len(s) - 1
           /\ \A j \in 1..(Len(s) - 1) : RemoveAt(s, i)[j] = IF j < i THEN s[j] ELSE s[j + 1]
<1> DEFINE S == Elements(s)
           before == SubSeq(s, 1, i - 1)
           after  == SubSeq(s, i + 1, Len(s))
<1>1. s \in Seq(S) /\ Len(s) \in Nat /\ \A j \in 1..Len(s) : s[j] \in S
  BY SequenceLength DEF IsSequence, Elements
<1> HIDE DEF S
<1>2. /\ before \in Seq(S) /\ Len(before) = i - 1
      /\ \A j \in 1..(i - 1) : before[j] = s[j]
  BY <1>1, SubSeqProperties
<1>3. /\ after \in Seq(S) /\ Len(after) = Len(s) - i
      /\ \A j \in 1..(Len(s) - i) : after[j] = s[i + j]
  BY <1>1, SubSeqProperties
<1>4. RemoveAt(s, i) = before \o after
  BY DEF RemoveAt
<1> HIDE DEF before, after
<1>5. /\ RemoveAt(s, i) \in Seq(S)
      /\ Len(RemoveAt(s, i)) = Len(s) - 1
      /\ \A j \in 1..(Len(s) - 1) :
            RemoveAt(s, i)[j] = IF j <= i - 1 THEN before[j] ELSE after[j - (i - 1)]
  BY <1>1, <1>2, <1>3, <1>4, ConcatProperties
<1>6. ASSUME NEW j \in 1..(Len(s) - 1)
      PROVE  RemoveAt(s, i)[j] = IF j < i THEN s[j] ELSE s[j + 1]
  <2>1. CASE j < i
    BY <1>1, <1>2, <1>5, <2>1
  <2>2. CASE j >= i
    <3>1. j - (i - 1) \in 1..(Len(s) - i) /\ i + (j - (i - 1)) = j + 1 /\ ~(j <= i - 1)
      BY <1>1, <2>2
    <3>2. after[j - (i - 1)] = s[j + 1]
      BY <1>3, <3>1
    <3> QED
      BY <1>5, <2>2, <3>1, <3>2
  <2> QED
    BY <1>1, <2>1, <2>2
<1>7. IsSequence(RemoveAt(s, i))
  BY <1>5, SequencesByElements
<1> QED
  BY <1>5, <1>6, <1>7

-----------------------------------------------------------------------------
(* What verification says of a sequence of rows                            *)

Chained(chain) == \A i \in 1..Len(chain) : ~BreaksAt(chain, i)

LEMMA NothingReported ==
    ASSUME NEW chain, Len(chain) \in Nat, verify_audit_chain(chain) = None
    PROVE  Chained(chain)
<1> DEFINE broken == {i \in 1..Len(chain) : BreaksAt(chain, i)}
<1>1. broken \in SUBSET Nat
  OBVIOUS
<1>2. verify_audit_chain(chain) = IF broken = {} THEN None ELSE Min(broken)
  BY DEF verify_audit_chain
<1>3. broken # {} => Min(broken) \in Nat
  BY <1>1, MinOfNats
<1>4. broken = {}
  BY <1>2, <1>3, TrailAssumption
<1> QED
  BY <1>4 DEF Chained

LEMMA ReportedRowBreaks ==
    ASSUME NEW chain, Len(chain) \in Nat, verify_audit_chain(chain) \in Nat
    PROVE  BreaksAt(chain, verify_audit_chain(chain))
<1> DEFINE broken == {i \in 1..Len(chain) : BreaksAt(chain, i)}
<1>1. broken \in SUBSET Nat
  OBVIOUS
<1>2. verify_audit_chain(chain) = IF broken = {} THEN None ELSE Min(broken)
  BY DEF verify_audit_chain
<1>3. broken # {}
  BY <1>2, TrailAssumption
<1>4. Min(broken) \in broken
  BY <1>1, <1>3, MinOfNats
<1> QED
  BY <1>2, <1>3, <1>4

LEMMA HashInChain ==
    ASSUME NEW chain, Chained(chain), NEW i \in 1..Len(chain)
    PROVE  chain[i].hash = <<chain[i].record, IF i = 1 THEN <<>> ELSE chain[i - 1].hash>>
  BY DEF Chained, BreaksAt, ExpectedPrev, _hash_entry, GENESIS_HASH

\* Going back from one hash, two chains have the same hashes, and so the same
\* records.
LEMMA SameHashSameRecords ==
    ASSUME NEW s, NEW t, Len(s) \in Nat \ {0}, Len(t) \in Nat \ {0}, Chained(s), Chained(t),
           s[Len(s)].hash = t[Len(t)].hash
    PROVE  Len(s) = Len(t) /\ \A i \in 1..Len(s) : s[i].record = t[i].record
<1>1. PICK m \in Nat \ {0}, n \in Nat \ {0} : m = Len(s) /\ n = Len(t)
  OBVIOUS
<1> DEFINE Differ == {d \in Nat : d < m /\ d < n /\ s[m - d].hash # t[n - d].hash}
<1>2. /\ \A i \in 1..m : s[i].hash = <<s[i].record, IF i = 1 THEN <<>> ELSE s[i - 1].hash>>
      /\ \A i \in 1..n : t[i].hash = <<t[i].record, IF i = 1 THEN <<>> ELSE t[i - 1].hash>>
  BY <1>1, HashInChain
<1>3. ASSUME NEW i \in 1..m, NEW j \in 1..n, s[i].hash = t[j].hash
      PROVE  /\ s[i].record = t[j].record /\ (i = 1 <=> j = 1)
             /\ i # 1 => s[i - 1].hash = t[j - 1].hash
  <2>1. /\ s[i].record = t[j].record
        /\ (IF i = 1 THEN <<>> ELSE s[i - 1].hash) = (IF j = 1 THEN <<>> ELSE t[j - 1].hash)
    BY <1>2, <1>3
  <2>2. i # 1 => i - 1 \in 1..m /\ s[i - 1].hash # <<>>
    <3> SUFFICES ASSUME i # 1 PROVE i - 1 \in 1..m /\ s[i - 1].hash # <<>>
      OBVIOUS
    <3>1. i - 1 \in 1..m
      OBVIOUS
    <3>2. PICK h : s[i - 1].hash = <<s[i - 1].record, h>>
      BY <1>2, <3>1
    <3> QED
      BY <3>1, <3>2
  <2>3. j # 1 => j - 1 \in 1..n /\ t[j - 1].hash # <<>>
    <3> SUFFICES ASSUME j # 1 PROVE j - 1 \in 1..n /\ t[j - 1].hash # <<>>
      OBVIOUS
    <3>1. j - 1 \in 1..n
      OBVIOUS
    <3>2. PICK h : t[j - 1].hash = <<t[j - 1].record, h>>
      BY <1>2, <3>1
    <3> QED
      BY <3>1, <3>2
  <2>4. i = 1 <=> j = 1
    BY <2>1, <2>2, <2>3
  <2> QED
    BY <2>1, <2>4
<1>4. Differ = {}
  <2> SUFFICES ASSUME Differ # {} PROVE FALSE
    OBVIOUS
  <2>1. PICK x \in Differ : \A y \in Differ : x <= y
    <3>1. Differ \in SUBSET Nat
      OBVIOUS
    <3> HIDE DEF Differ
    <3> QED
      BY <3>1, LeastElement
  <2>2. x \in Nat /\ x < m /\ x < n /\ s[m - x].hash # t[n - x].hash
    BY <2>1
  <2>3. x # 0
    BY <1>1, <2>2
  <2>4. x - 1 \in Nat /\ x - 1 < m /\ x - 1 < n /\ ~(x <= x - 1)
    BY <2>2, <2>3
  <2>5. x - 1 \notin Differ
    BY <2>1, <2>4
  <2>6. s[m - (x - 1)].hash = t[n - (x - 1)].hash
    BY <2>4, <2>5
  <2>7. /\ m - (x - 1) \in 1..m /\ n - (x - 1) \in 1..n /\ m - (x - 1) # 1
        /\ (m - (x - 1)) - 1 = m - x /\ (n - (x - 1)) - 1 = n - x
    BY <2>2, <2>4
  <2>8. s[m - x].hash = t[n - x].hash
    BY <1>3, <2>6, <2>7
  <2> QED
    BY <2>2, <2>8
<1>5. \A d \in Nat : d < m /\ d < n => s[m - d].hash = t[n - d].hash
  BY <1>4
<1> HIDE DEF Differ
<1>6. m = n
  <2>1. CASE m < n
    <3>1. s[m - (m - 1)].hash = t[n - (m - 1)].hash
      <4>1. m - 1 \in Nat /\ m - 1 < m /\ m - 1 < n
        BY <2>1
      <4> QED
        BY <1>5, <4>1
    <3>2. m - (m - 1) = 1 /\ 1 \in 1..m /\ n - (m - 1) \in 1..n /\ n - (m - 1) # 1
      BY <2>1
    <3> QED
      BY <1>3, <3>1, <3>2
  <2>2. CASE n < m
    <3>1. s[m - (n - 1)].hash = t[n - (n - 1)].hash
      <4>1. n - 1 \in Nat /\ n - 1 < m /\ n - 1 < n
        BY <2>2
      <4> QED
        BY <1>5, <4>1
    <3>2. n - (n - 1) = 1 /\ 1 \in 1..n /\ m - (n - 1) \in 1..m /\ m - (n - 1) # 1
      BY <2>2
    <3> QED
      BY <1>3, <3>1, <3>2
  <2> QED
    BY <2>1, <2>2
<1>7. ASSUME NEW i \in 1..m PROVE s[i].record = t[i].record
  <2>1. m - i \in Nat /\ m - i < m /\ m - (m - i) = i
    OBVIOUS
  <2>2. s[m - (m - i)].hash = t[n - (m - i)].hash
    BY <1>5, <1>6, <2>1
  <2>3. s[i].hash = t[i].hash
    BY <1>6, <2>1, <2>2
  <2> QED
    BY <1>3, <1>6, <2>3
<1> QED
  BY <1>1, <1>6, <1>7

\* The first rows of the table are a sequence of rows.
LEMMA FirstRows ==
    ASSUME NEW chain, IsSequence(chain), NEW j \in 1..Len(chain)
    PROVE  /\ Len(SubSeq(chain, 1, j)) = j
           /\ \A i \in 1..j : SubSeq(chain, 1, j)[i] = chain[i]
<1>1. Len(chain) \in Nat /\ DOMAIN chain = 1..Len(chain)
  BY SequenceLength
<1>2. j \in Nat /\ 1 <= j /\ j <= Len(chain)
  BY <1>1
<1>3. \A i \in 1..j : chain[i] \in Elements(chain)
  BY <1>1, <1>2 DEF Elements
<1>4. /\ Len(SubSeq(chain, 1, j)) = IF 1 <= j THEN j - 1 + 1 ELSE 0
      /\ \A i \in 1..(j - 1 + 1) : SubSeq(chain, 1, j)[i] = chain[1 + i - 1]
  BY <1>2, <1>3, SubSeqProperties
<1>5. j - 1 + 1 = j /\ \A i \in 1..j : 1 + i - 1 = i
  BY <1>2
<1> QED
  BY <1>2, <1>4, <1>5

LEMMA TrailInvReports == TrailInv => ReportsTheFirstChange
<1> SUFFICES ASSUME TrailInv PROVE ReportsTheFirstChange
  OBVIOUS
<1>1. Len(entries) \in Nat /\ DOMAIN entries = 1..Len(entries)
  BY SequenceLength DEF TrailInv, TrailTypeOK
<1> SUFFICES ASSUME NEW j \in 1..Len(entries)
             PROVE  LET chain    == SubSeq(entries, 1, j)
                        appended == written[entries[j].id]
                    IN  /\ verify_audit_chain(chain) = j => chain # appended
                        /\ /\ verify_audit_chain(chain) = None
                           /\ verify_audit_chain(appended) = None
                           /\ entries[j].hash = Last(appended).hash
                           => /\ j = Len(appended)
                              /\ \A i \in 1..j : entries[i].record = appended[i].record
  BY <1>1 DEF ReportsTheFirstChange
<1>2. ASSUME NEW chain, NEW appended, chain = SubSeq(entries, 1, j), appended = written[entries[j].id]
      PROVE  /\ verify_audit_chain(chain) = j => chain # appended
             /\ /\ verify_audit_chain(chain) = None
                /\ verify_audit_chain(appended) = None
                /\ entries[j].hash = Last(appended).hash
                => /\ j = Len(appended)
                   /\ \A i \in 1..j : entries[i].record = appended[i].record
  <2>1. j \in Nat \ {0} /\ Len(chain) = j /\ \A i \in 1..j : chain[i] = entries[i]
    BY <1>1, <1>2, FirstRows DEF TrailInv, TrailTypeOK
  <2>2. IsSequence(appended) /\ LastFits(appended)
    BY <1>2 DEF TrailInv, TrailTypeOK
  <2>3. Len(appended) \in Nat \ {0} /\ Last(appended) = appended[Len(appended)]
    BY <2>2, SequenceLength DEF LastFits, Last
  <2>4. ASSUME verify_audit_chain(chain) = j PROVE chain # appended
    <3>1. BreaksAt(chain, j)
      BY <2>1, <2>4, ReportedRowBreaks
    <3> QED
      BY <2>1, <2>2, <3>1 DEF LastFits
  <2>5. ASSUME verify_audit_chain(chain) = None, verify_audit_chain(appended) = None,
               entries[j].hash = Last(appended).hash
        PROVE  j = Len(appended) /\ \A i \in 1..j : entries[i].record = appended[i].record
    <3>1. Chained(chain) /\ Chained(appended)
      BY <2>1, <2>3, <2>5, NothingReported
    <3>2. chain[Len(chain)].hash = appended[Len(appended)].hash
      BY <2>1, <2>3, <2>5
    <3>3. Len(chain) = Len(appended) /\ \A i \in 1..Len(chain) : chain[i].record = appended[i].record
      BY <2>1, <2>3, <3>1, <3>2, SameHashSameRecords
    <3> QED
      BY <2>1, <3>3
  <2> QED
    BY <2>4, <2>5
<1> QED
  BY <1>2

-----------------------------------------------------------------------------
(* The steps                                                               *)

LEMMA TrailInitInv == TrailInit => TrailInv
<1> SUFFICES ASSUME TrailInit PROVE TrailInv
  OBVIOUS
<1>1. Len(entries) = 0 /\ Len(written) = 0 /\ entries \in Seq({}) /\ written \in Seq({})
  BY EmptySeq DEF TrailInit
<1>2. IsSequence(entries) /\ IsSequence(written)
  BY <1>1, SequencesByElements
<1> QED
  BY <1>1, <1>2 DEF TrailInit, TrailInv, TrailTypeOK, TailIsHeld, HasRead

LEMMA BeginKeepsInv ==
    ASSUME TrailInv, NEW w \in Writers, Begin(w)
    PROVE  TrailInv'
<1>1. /\ DOMAIN writing' = Writers
      /\ writing'[w] = [record |-> begun', tail |-> None]
      /\ \A v \in Writers \ {w} : writing'[v] = writing[v]
      /\ UNCHANGED <<entries, lock, written>>
  BY DEF Begin, TrailInv, TrailTypeOK
<1>2. TrailTypeOK'
  BY <1>1 DEF TrailInv, TrailTypeOK, IsSequence
<1>3. TailIsHeld'
  BY <1>1 DEF TrailInv, TailIsHeld, HasRead, TailHash
<1> QED
  BY <1>1, <1>2, <1>3 DEF TrailInv

LEMMA ReadTailKeepsInv ==
    ASSUME TrailInv, NEW w \in Writers, ReadTail(w)
    PROVE  TrailInv'
<1>1. /\ DOMAIN writing' = Writers
      /\ writing'[w] = [record |-> writing[w].record, tail |-> TailHash]
      /\ \A v \in Writers \ {w} : writing'[v] = writing[v]
      /\ lock = None /\ lock' = w /\ UNCHANGED <<entries, written>>
  BY DEF ReadTail, TrailInv, TrailTypeOK
<1>2. TrailTypeOK'
  BY <1>1 DEF TrailInv, TrailTypeOK, IsSequence
<1>3. TailIsHeld'
  <2>1. \A v \in Writers : ~HasRead(v)
    BY <1>1, TrailAssumption DEF TrailInv, TailIsHeld
  <2> QED
    BY <1>1, <2>1 DEF TailIsHeld, HasRead, TailHash
<1> QED
  BY <1>1, <1>2, <1>3 DEF TrailInv

\* Letting the lock go: only its holder has read the tail.
LEMMA DoneHoldsNothing ==
    ASSUME TrailInv, NEW w \in Writers, HasRead(w), Done(w)
    PROVE  /\ DOMAIN writing' = Writers
           /\ writing'[w] = None
           /\ \A v \in Writers \ {w} : writing'[v] = writing[v]
           /\ \A v \in Writers : ~HasRead(v)'
<1>1. /\ DOMAIN writing' = Writers
      /\ writing'[w] = None
      /\ \A v \in Writers \ {w} : writing'[v] = writing[v]
  BY DEF Done, TrailInv, TrailTypeOK
<1>2. \A v \in Writers \ {w} : ~HasRead(v)
  BY DEF TrailInv, TailIsHeld
<1> QED
  BY <1>1, <1>2 DEF HasRead

LEMMA InsertFailsKeepsInv ==
    ASSUME TrailInv, NEW w \in Writers, InsertFails(w)
    PROVE  TrailInv'
<1>1. /\ DOMAIN writing' = Writers
      /\ writing'[w] = None
      /\ \A v \in Writers \ {w} : writing'[v] = writing[v]
      /\ \A v \in Writers : ~HasRead(v)'
      /\ UNCHANGED <<entries, written>>
  BY DoneHoldsNothing DEF InsertFails
<1>2. TrailTypeOK'
  BY <1>1 DEF TrailInv, TrailTypeOK, IsSequence
<1>3. TailIsHeld'
  BY <1>1 DEF TailIsHeld
<1> QED
  BY <1>1, <1>2, <1>3 DEF TrailInv

\* A row is appended after the last one, whose hash the writer has read.
LEMMA InsertKeepsInv ==
    ASSUME TrailInv, NEW w \in Writers, Insert(w)
    PROVE  TrailInv'
<1>1. PICK n, k, row :
        /\ n = Len(entries) /\ k = Len(written)
        /\ row = [id |-> k + 1, record |-> writing[w].record, prev |-> writing[w].tail,
                  hash |-> <<writing[w].record, writing[w].tail>>]
  OBVIOUS
<1>2. HasRead(w) /\ entries' = Append(entries, row) /\ written' = Append(written, entries')
  BY <1>1 DEF Insert, _hash_entry
<1>3. row.id = k + 1 /\ row.prev = TailHash /\ row.hash = <<row.record, TailHash>>
  <2>1. writing[w].tail = TailHash
    BY <1>2 DEF TrailInv, TailIsHeld
  <2> QED
    BY <1>1, <2>1
<1>4. /\ DOMAIN writing' = Writers
      /\ writing'[w] = None
      /\ \A v \in Writers \ {w} : writing'[v] = writing[v]
      /\ \A v \in Writers : ~HasRead(v)'
  BY DoneHoldsNothing DEF Insert
<1>5. /\ IsSequence(entries') /\ n \in Nat /\ Len(entries') = n + 1
      /\ \A i \in 1..n : entries'[i] = entries[i]
      /\ entries'[n + 1] = row
  BY <1>1, <1>2, AppendedTo, SequenceLength DEF TrailInv, TrailTypeOK
<1>6. /\ IsSequence(written') /\ k \in Nat /\ Len(written') = k + 1
      /\ \A i \in 1..k : written'[i] = written[i]
      /\ written'[k + 1] = entries'
  BY <1>1, <1>2, AppendedTo, SequenceLength DEF TrailInv, TrailTypeOK
<1>7. TailHash = ExpectedPrev(entries', n + 1)
  <2>1. n = 0 <=> entries = <<>>
    BY <1>1, <1>5, EmptySeq DEF TrailInv, TrailTypeOK, IsSequence
  <2>2. CASE n = 0
    BY <2>1, <2>2 DEF TailHash, ExpectedPrev
  <2>3. CASE n # 0
    <3>1. (n + 1) - 1 = n /\ n \in 1..n /\ n + 1 # 1
      BY <1>5, <2>3
    <3>2. TailHash = entries[n].hash
      BY <1>1, <2>1, <2>3 DEF TailHash, Last
    <3> QED
      BY <1>5, <3>1, <3>2 DEF ExpectedPrev
  <2> QED
    BY <2>2, <2>3
<1>8. LastFits(entries')
  <2>1. ~BreaksAt(entries', n + 1)
    BY <1>3, <1>5, <1>7 DEF BreaksAt, _hash_entry
  <2> QED
    BY <1>5, <2>1 DEF LastFits
<1>9. TrailTypeOK'
  <2>1. ASSUME NEW i \in 1..(n + 1) PROVE entries'[i].id \in 1..(k + 1)
    <3>1. CASE i \in 1..n
      <4>1. entries[i].id \in 1..k
        BY <1>1, <3>1 DEF TrailInv, TrailTypeOK
      <4>2. entries'[i] = entries[i]
        BY <1>5, <3>1
      <4> QED
        BY <1>6, <4>1, <4>2
    <3>2. CASE i = n + 1
      BY <1>3, <1>5, <1>6, <3>2
    <3> QED
      BY <1>5, <3>1, <3>2
  <2>2. ASSUME NEW i \in 1..(k + 1) PROVE IsSequence(written'[i])
    <3>1. CASE i \in 1..k
      BY <1>1, <1>6, <3>1 DEF TrailInv, TrailTypeOK
    <3>2. CASE i = k + 1
      BY <1>5, <1>6, <3>2
    <3> QED
      BY <1>6, <3>1, <3>2
  <2>3. \A v \in Writers : writing'[v] # None =>
            writing'[v] = [record |-> writing'[v].record, tail |-> writing'[v].tail]
    BY <1>4 DEF TrailInv, TrailTypeOK
  <2> QED
    BY <1>4, <1>5, <1>6, <2>1, <2>2, <2>3 DEF TrailTypeOK
<1>10. TailIsHeld'
  BY <1>4 DEF TailIsHeld
<1>11. \A i \in 1..(k + 1) : LastFits(written'[i])
  <2> TAKE i \in 1..(k + 1)
  <2>1. CASE i \in 1..k
    BY <1>1, <1>6, <2>1 DEF TrailInv
  <2>2. CASE i = k + 1
    BY <1>6, <1>8, <2>2
  <2> QED
    BY <1>6, <2>1, <2>2
<1> QED
  BY <1>6, <1>9, <1>10, <1>11 DEF TrailInv

\* Whatever is done to the rows outside, nobody has read the tail, and the tables
\* rows were appended to are remembered.
LEMMA EditKeepsInv ==
    ASSUME TrailInv, Edit, IsSequence(entries'), \A i \in 1..Len(entries') : entries'[i].id \in 1..Len(written)
    PROVE  TrailInv'
<1>1. lock = None /\ UNCHANGED <<lock, writing, begun, written>>
  BY DEF Edit
<1>2. TailIsHeld'
  BY <1>1, TrailAssumption DEF TrailInv, TailIsHeld, HasRead
<1> QED
  BY <1>1, <1>2 DEF TrailInv, TrailTypeOK, IsSequence

LEMMA AlterRowKeepsInv ==
    ASSUME TrailInv, NEW i \in DOMAIN entries, AlterRow(i)
    PROVE  TrailInv'
<1>1. i \in 1..Len(entries) /\ Len(entries) \in Nat
  BY SequenceLength DEF TrailInv, TrailTypeOK
<1>2. PICK row : entries' = [entries EXCEPT ![i] = row] /\ row.id = entries[i].id
  <2>1. PICK record, prev, hash :
            entries' = [entries EXCEPT ![i] = [id |-> entries[i].id, record |-> record, prev |-> prev, hash |-> hash]]
    BY DEF AlterRow
  <2>2. PICK row : row = [id |-> entries[i].id, record |-> record, prev |-> prev, hash |-> hash]
    OBVIOUS
  <2>3. row.id = entries[i].id
    BY <2>2
  <2> QED
    BY <2>1, <2>2, <2>3
<1>3. /\ IsSequence(entries') /\ Len(entries') = Len(entries)
      /\ \A j \in 1..Len(entries) : entries'[j] = IF j = i THEN row ELSE entries[j]
  <2>1. IsSequence(entries)
    BY DEF TrailInv, TrailTypeOK
  <2>2. /\ IsSequence([entries EXCEPT ![i] = row]) /\ Len([entries EXCEPT ![i] = row]) = Len(entries)
        /\ \A j \in 1..Len(entries) : [entries EXCEPT ![i] = row][j] = IF j = i THEN row ELSE entries[j]
    <3>1. i \in 1..Len(entries)
      BY <1>1
    <3> QED
      BY <2>1, <3>1, ReplacedIn, ZenonT(40)
  <2> QED
    BY <1>2, <2>2
<1>4. \A j \in 1..Len(entries') : entries'[j].id \in 1..Len(written)
  BY <1>2, <1>3 DEF TrailInv, TrailTypeOK
<1> QED
  BY <1>3, <1>4, EditKeepsInv DEF AlterRow

LEMMA RemoveRowKeepsInv ==
    ASSUME TrailInv, NEW i \in DOMAIN entries, RemoveRow(i)
    PROVE  TrailInv'
<1>1. i \in 1..Len(entries) /\ Len(entries) \in Nat
  BY SequenceLength DEF TrailInv, TrailTypeOK
<1>2. /\ IsSequence(entries') /\ Len(entries') = Len(entries) - 1
      /\ \A j \in 1..(Len(entries) - 1) : entries'[j] = IF j < i THEN entries[j] ELSE entries[j + 1]
  BY <1>1, RemovedFrom DEF RemoveRow, TrailInv, TrailTypeOK
<1>3. \A j \in 1..Len(entries') : j \in 1..Len(entries) /\ j + 1 \in 1..Len(entries)
  BY <1>1, <1>2
<1>4. \A j \in 1..Len(entries') : entries'[j].id \in 1..Len(written)
  BY <1>2, <1>3 DEF TrailInv, TrailTypeOK
<1> QED
  BY <1>2, <1>4, EditKeepsInv DEF RemoveRow

\* Verification reports rows whose table has changed since they were appended and no
\* others, and a row that has its hash vouches for the records before it
\* (verify_audit_chain), however many threads append and whatever is done to the
\* rows outside.
THEOREM FirstChangeIsReported == TrailSpec => []ReportsTheFirstChange
<1>1. TrailInv /\ [TrailNext]_trailVars => TrailInv'
  <2> SUFFICES ASSUME TrailInv, [TrailNext]_trailVars
               PROVE  TrailInv'
    OBVIOUS
  <2>1. CASE TrailNext
    BY <2>1, BeginKeepsInv, ReadTailKeepsInv, InsertKeepsInv, InsertFailsKeepsInv, AlterRowKeepsInv,
       RemoveRowKeepsInv DEF TrailNext
  <2>2. CASE UNCHANGED trailVars
    <3>1. TrailTypeOK' /\ TailIsHeld'
      BY <2>2 DEF trailVars, TrailInv, TrailTypeOK, IsSequence, TailIsHeld, HasRead, TailHash
    <3> QED
      BY <2>2, <3>1 DEF trailVars, TrailInv
  <2> QED
    BY <2>1, <2>2
<1> QED
  BY TrailInitInv, <1>1, TrailInvReports, PTL DEF TrailSpec

-----------------------------------------------------------------------------
(***************************************************************************)
(* Rate limits (RateLimiter): both windows obey the same argument, so the  *)
(* lemmas are about one record of times with its length and limit.         *)
(***************************************************************************)

\* A record of times still has all that was let through within its length.
Remembers(record, length) == {t \in accepted : t > now - length} \subseteq record

LimiterTypeOK ==
    /\ now \in Nat
    /\ minute \in SUBSET (1..now) /\ hour \in SUBSET (1..now) /\ accepted \in SUBSET (1..now)
    /\ refused \in [at : Nat, window : {0, Minute, Hour}, again : BOOLEAN]

\* A refusal that is remembered is that of the last request: nothing was charged
\* since.
RefusedJustNow == refused.window # 0 => refused.at = now

LimiterInv ==
    /\ LimiterTypeOK
    /\ Remembers(minute, Minute)
    /\ Remembers(hour, Hour)
    /\ RefusedJustNow
    /\ LimitsAreExact

-----------------------------------------------------------------------------
(* One window                                                              *)

LEMMA TimesAreFinite ==
    ASSUME NEW n \in Nat, NEW S \in SUBSET (1..n)
    PROVE  IsFiniteSet(S) /\ Cardinality(S) \in Nat
<1>1. IsFiniteSet(1..n)
  BY FS_Interval
<1>2. IsFiniteSet(S)
  BY <1>1, FS_Subset
<1> QED
  BY <1>2, FS_CardinalityType

\* One more request in a window that is not full keeps every window of that
\* length, wherever it begins, within the limit.
LEMMA OneMoreFits ==
    ASSUME NEW length \in Nat \ {0}, NEW limit \in Nat \ {0},
           NEW n \in Nat, NEW time \in Nat, time > n,
           NEW record \in SUBSET (1..n), NEW requests \in SUBSET (1..n),
           {t \in requests : t > n - length} \subseteq record,
           \A t \in requests : In(requests, t, length) <= limit,
           ~Full(record, length, limit, time)
    PROVE  \A t \in requests \cup {time} : In(requests \cup {time}, t, length) <= limit
<1> SUFFICES ASSUME NEW t \in requests \cup {time}
             PROVE  In(requests \cup {time}, t, length) <= limit
  OBVIOUS
<1> DEFINE before == {u \in requests : t <= u /\ u < t + length}
           after  == {u \in requests \cup {time} : t <= u /\ u < t + length}
           recent   == Pruned(record, length, time)
<1>1. t \in Nat /\ t <= time
  OBVIOUS
<1>2. /\ before \in SUBSET (1..n) /\ recent \in SUBSET (1..n)
      /\ time \notin before
  <2>1. recent \subseteq record
    BY DEF Pruned
  <2>2. time \notin 1..n
    OBVIOUS
  <2> QED
    BY <2>1, <2>2
<1>3. /\ IsFiniteSet(before) /\ Cardinality(before) \in Nat
      /\ IsFiniteSet(recent) /\ Cardinality(recent) \in Nat
  BY <1>2, TimesAreFinite
<1>4. CASE time < t + length
  <2>1. after = before \cup {time}
    BY <1>1, <1>4
  <2>2. before \subseteq recent
    <3> SUFFICES ASSUME NEW u \in before PROVE u \in recent
      OBVIOUS
    <3>1. u \in 1..n /\ u \in requests /\ t <= u
      OBVIOUS
    <3>2. u > n - length /\ u > time - length
      BY <1>1, <1>4, <3>1
    <3> QED
      BY <3>1, <3>2 DEF Pruned
  <2>3. Cardinality(before) <= Cardinality(recent)
    BY <1>3, <2>2, FS_Subset
  <2>4. Cardinality(recent) < limit
    BY <1>3 DEF Full
  <2>5. Cardinality(after) = Cardinality(before) + 1
    BY <1>2, <1>3, <2>1, FS_AddElement
  <2> HIDE DEF before, after, recent
  <2>6. Cardinality(after) <= limit
    BY <1>3, <2>3, <2>4, <2>5
  <2> QED
    BY <2>6 DEF In, after
<1>5. CASE time >= t + length
  <2>1. after = before
    BY <1>1, <1>5
  <2>2. t \in requests
    BY <1>5
  <2> QED
    BY <2>1, <2>2 DEF In
<1> QED
  BY <1>1, <1>4, <1>5

\* A record that is charged stays a record of times, and forgets nothing that
\* is still within its length.
LEMMA ChargedRemembers ==
    ASSUME NEW length \in Nat \ {0}, NEW limit \in Nat \ {0},
           NEW n \in Nat, NEW time \in Nat, time > n,
           NEW record \in SUBSET (1..n), NEW requests \in SUBSET (1..n),
           {t \in requests : t > n - length} \subseteq record
    PROVE  /\ Charged(record, length, limit, time) \in SUBSET (1..time)
           /\ {t \in requests : t > time - length} \subseteq Charged(record, length, limit, time)
           /\ ~Full(record, length, limit, time) => time \in Charged(record, length, limit, time)
<1> DEFINE recent == Pruned(record, length, time)
<1>1. recent \subseteq record /\ 1..n \subseteq 1..time /\ time \in 1..time
  BY DEF Pruned
<1>2. {t \in requests : t > time - length} \subseteq recent
  <2> SUFFICES ASSUME NEW t \in requests, t > time - length PROVE t \in recent
    OBVIOUS
  <2>1. t \in 1..n
    OBVIOUS
  <2>2. t > n - length
    BY <2>1
  <2> QED
    BY <2>2 DEF Pruned
<1> QED
  BY <1>1, <1>2 DEF Charged

\* A record with nothing in it since the refusal is not full when the caller has
\* waited for its length.
LEMMA WaitedIsNotFull ==
    ASSUME NEW length \in Nat \ {0}, NEW limit \in Nat \ {0},
           NEW n \in Nat, NEW time \in Nat, time - n >= length,
           NEW record \in SUBSET (1..n)
    PROVE  ~Full(record, length, limit, time)
<1>1. Pruned(record, length, time) = {}
  <2> SUFFICES ASSUME NEW t \in Pruned(record, length, time) PROVE FALSE
    OBVIOUS
  <2>1. t \in record /\ t > time - length
    BY DEF Pruned
  <2>2. t \in 1..n
    BY <2>1
  <2> QED
    BY <2>1, <2>2
<1>2. Cardinality(Pruned(record, length, time)) = 0
  BY <1>1, FS_EmptySet
<1> QED
  BY <1>2 DEF Full

-----------------------------------------------------------------------------
LEMMA LimiterInitInv == LimiterInit => LimiterInv
BY LimitsAssumption DEF LimiterInit, LimiterInv, LimiterTypeOK, Remembers, RefusedJustNow,
   LimitsAreExact, LimitsHoldInEveryWindow, WaitingIsEnough, NotRefused

\* A refusal by a window is never one after the wait it has named.
LEMMA RefusalsAreFirst ==
    ASSUME LimiterInv, NEW time \in Nat, time > now,
           NEW length \in {Minute, Hour}, NEW limit \in Nat \ {0}, NEW record \in SUBSET (1..now),
           Full(record, length, limit, time), Refuse(length, time), now' = time
    PROVE  /\ refused' \in [at : Nat, window : {0, Minute, Hour}, again : BOOLEAN]
           /\ RefusedJustNow' /\ WaitingIsEnough'
<1> USE LimitsAssumption DEF LimiterInv, LimiterTypeOK
<1>1. length \in Nat \ {0}
  OBVIOUS
<1>2. ~(refused.window = length /\ time - refused.at >= length)
  <2> SUFFICES ASSUME refused.window = length, time - refused.at >= length
               PROVE  FALSE
    OBVIOUS
  <2>1. refused.at = now
    BY <1>1 DEF RefusedJustNow
  <2> QED
    BY <1>1, <2>1, WaitedIsNotFull
<1> QED
  BY <1>1, <1>2 DEF Refuse, RefusedJustNow, WaitingIsEnough

LEMMA RequestKeepsInv ==
    ASSUME LimiterInv, NEW time \in (now + 1)..Horizon, Request(time)
    PROVE  LimiterInv'
<1> USE LimitsAssumption DEF LimiterInv, LimiterTypeOK
<1>0. /\ time \in Nat /\ time > now /\ now' = time
      /\ 1..now \subseteq 1..time
  BY DEF Request
<1>1. /\ minute' = Charged(minute, Minute, PerMinute, time)
      /\ minute' \in SUBSET (1..now')
      /\ {t \in accepted : t > time - Minute} \subseteq minute'
      /\ ~Full(minute, Minute, PerMinute, time) => time \in minute'
  BY <1>0, ChargedRemembers DEF Request, Remembers
<1>2. CASE Full(minute, Minute, PerMinute, time)
  <2>1. Refuse(Minute, time) /\ hour' = hour /\ accepted' = accepted
    BY <1>2 DEF Request
  <2>2. /\ refused' \in [at : Nat, window : {0, Minute, Hour}, again : BOOLEAN]
        /\ RefusedJustNow' /\ WaitingIsEnough'
    BY <1>0, <1>2, <2>1, RefusalsAreFirst
  <2>3. LimiterTypeOK'
    BY <1>0, <1>1, <2>1, <2>2
  <2>4. Remembers(minute, Minute)'
    BY <1>0, <1>1, <2>1 DEF Remembers
  <2>5. Remembers(hour, Hour)'
    <3> SUFFICES ASSUME NEW t \in accepted, t > time - Hour PROVE t \in hour
      BY <1>0, <2>1 DEF Remembers
    <3>1. t \in Int /\ Hour \in Int /\ t > now - Hour
      BY <1>0
    <3> QED
      BY <3>1 DEF Remembers
  <2>6. LimitsHoldInEveryWindow'
    BY <2>1 DEF LimitsAreExact, LimitsHoldInEveryWindow, In
  <2> QED
    BY <2>2, <2>3, <2>4, <2>5, <2>6 DEF LimitsAreExact
<1>3. CASE ~Full(minute, Minute, PerMinute, time)
  <2>1. /\ hour' = Charged(hour, Hour, PerHour, time)
        /\ hour' \in SUBSET (1..now')
        /\ {t \in accepted : t > time - Hour} \subseteq hour'
        /\ ~Full(hour, Hour, PerHour, time) => time \in hour'
    BY <1>0, <1>3, ChargedRemembers DEF Request, Remembers
  <2>2. CASE Full(hour, Hour, PerHour, time)
    <3>1. Refuse(Hour, time) /\ accepted' = accepted
      BY <1>3, <2>2 DEF Request
    <3>2. /\ refused' \in [at : Nat, window : {0, Minute, Hour}, again : BOOLEAN]
          /\ RefusedJustNow' /\ WaitingIsEnough'
      BY <1>0, <2>2, <3>1, RefusalsAreFirst
    <3>3. LimiterTypeOK'
      BY <1>0, <1>1, <2>1, <3>1, <3>2
    <3>4. Remembers(minute, Minute)' /\ Remembers(hour, Hour)'
      BY <1>0, <1>1, <2>1, <3>1 DEF Remembers
    <3>5. LimitsHoldInEveryWindow'
      BY <3>1 DEF LimitsAreExact, LimitsHoldInEveryWindow, In
    <3> QED
      BY <3>2, <3>3, <3>4, <3>5 DEF LimitsAreExact
  <2>3. CASE ~Full(hour, Hour, PerHour, time)
    <3>1. accepted' = accepted \cup {time} /\ refused' = NotRefused
      BY <1>3, <2>3 DEF Request
    <3>2. RefusedJustNow' /\ WaitingIsEnough'
      BY <3>1 DEF NotRefused, RefusedJustNow, WaitingIsEnough
    <3>3. LimiterTypeOK'
      BY <1>0, <1>1, <2>1, <3>1 DEF NotRefused
    <3>4. Remembers(minute, Minute)' /\ Remembers(hour, Hour)'
      BY <1>0, <1>1, <1>3, <2>1, <2>3, <3>1 DEF Remembers
    <3>5. \A t \in accepted' : In(accepted', t, Minute) <= PerMinute
      <4>1. \A t \in accepted : In(accepted, t, Minute) <= PerMinute
        BY DEF LimitsAreExact, LimitsHoldInEveryWindow
      <4> QED
        BY <1>0, <1>3, <3>1, <4>1, OneMoreFits DEF Remembers
    <3>6. \A t \in accepted' : In(accepted', t, Hour) <= PerHour
      <4>1. \A t \in accepted : In(accepted, t, Hour) <= PerHour
        BY DEF LimitsAreExact, LimitsHoldInEveryWindow
      <4> QED
        BY <1>0, <2>3, <3>1, <4>1, OneMoreFits DEF Remembers
    <3> QED
      BY <3>2, <3>3, <3>4, <3>5, <3>6 DEF LimitsAreExact, LimitsHoldInEveryWindow
  <2> QED
    BY <2>2, <2>3
<1> QED
  BY <1>2, <1>3

\* However requests are spread, no window sees more than its limit, and a caller
\* who waits as long as told is not refused by the same window again
\* (_is_rate_limited, Retry-After).
THEOREM LimitsAreAlwaysExact == LimiterSpec => []LimitsAreExact
<1>1. LimiterInv /\ [LimiterNext]_limiterVars => LimiterInv'
  <2> SUFFICES ASSUME LimiterInv, [LimiterNext]_limiterVars
               PROVE  LimiterInv'
    OBVIOUS
  <2>1. CASE LimiterNext
    BY <2>1, RequestKeepsInv DEF LimiterNext
  <2>2. CASE UNCHANGED limiterVars
    BY <2>2 DEF limiterVars, LimiterInv, LimiterTypeOK, Remembers, RefusedJustNow, LimitsAreExact,
       LimitsHoldInEveryWindow, WaitingIsEnough, In
  <2> QED
    BY <2>1, <2>2
<1>2. LimiterInv => LimitsAreExact
  BY DEF LimiterInv
<1> QED
  BY LimiterInitInv, <1>1, <1>2, PTL DEF LimiterSpec

-----------------------------------------------------------------------------
(***************************************************************************)
(* Tools, agents and workflows (Catalogue)                                 *)
(***************************************************************************)

\* CatalogueInv says of every copy of the tools, the cached one and those of running
\* imports, that it holds the last word on a tool which is neither doubtful nor missed.
CatalogueTypeOK ==
    /\ tools \in Document /\ listed \in Document /\ wanted \in Document
    /\ agents \in [Agents -> (SUBSET Tools) \cup {Void}]
    /\ workflows \in [Workflows -> (SUBSET Agents) \cup {Void}]
    /\ imports \in [Imports -> Import \cup {Void}]

\* The cache of the loader and the copies of running imports say of a tool what the
\* last request made of it, unless the tool is doubtful or the import has missed it.
CopiesAreKnown ==
    /\ \A t \in Tools \ doubtful : tools[t] = wanted[t] /\ listed[t] = wanted[t]
    /\ \A i \in Imports : imports[i] # Void =>
         \A t \in Tools \ (doubtful \cup imports[i].missed) : imports[i].copy[t] = wanted[t]

IsPlain(document) == \A t \in Tools \ Functions : document[t] # Void => ~document[t].function

\* Only generated functions are marked as such, and only they are ever changed in the
\* cache and not in the file.
OthersArePlain ==
    /\ IsPlain(tools)
    /\ \A t \in Tools \ Functions : listed[t] = tools[t]
    /\ \A i \in Imports : imports[i] # Void => IsPlain(imports[i].copy)

ToolsInv == CopiesAreKnown /\ OthersArePlain /\ OnlyFunctionsDiffer /\ FunctionsHaveSources

CatalogueInv == CatalogueTypeOK /\ ToolsInv /\ WorkflowsResolve

LEMMA CatalogueInvSays == CatalogueInv => CatalogueIsTrue
  BY DEF CatalogueInv, ToolsInv, CopiesAreKnown, CatalogueIsTrue, LastWordCounts

LEMMA CatalogueInvInit == CatalogueInit => CatalogueInv
<1> SUFFICES ASSUME CatalogueInit PROVE CatalogueInv
  OBVIOUS
<1>1. CatalogueTypeOK
  <2>1. \A ids, values : Nowhere(ids) \in [ids -> values \cup {Void}]
    BY DEF Nowhere
  <2>2. tools \in Document /\ listed \in Document /\ wanted \in Document
    BY <2>1 DEF CatalogueInit, Document
  <2>3. /\ agents \in [Agents -> (SUBSET Tools) \cup {Void}]
        /\ workflows \in [Workflows -> (SUBSET Agents) \cup {Void}]
        /\ imports \in [Imports -> Import \cup {Void}]
    <3>1. /\ Nowhere(Agents) \in [Agents -> (SUBSET Tools) \cup {Void}]
          /\ Nowhere(Workflows) \in [Workflows -> (SUBSET Agents) \cup {Void}]
          /\ Nowhere(Imports) \in [Imports -> Import \cup {Void}]
      <4> DEFINE A == SUBSET Tools
                 W == SUBSET Agents
      <4> HIDE DEF A, W
      <4>1. /\ Nowhere(Agents) \in [Agents -> A \cup {Void}]
            /\ Nowhere(Workflows) \in [Workflows -> W \cup {Void}]
            /\ Nowhere(Imports) \in [Imports -> Import \cup {Void}]
        BY DEF Nowhere
      <4> QED
        BY <4>1 DEF A, W
    <3> QED
      BY <3>1 DEF CatalogueInit
  <2> QED
    BY <2>2, <2>3 DEF CatalogueTypeOK
<1>2. ToolsInv
  BY DEF CatalogueInit, ToolsInv, CopiesAreKnown, OthersArePlain, IsPlain, OnlyFunctionsDiffer,
         FunctionsHaveSources, Nowhere, Present
<1>3. WorkflowsResolve
  BY DEF CatalogueInit, WorkflowsResolve, Nowhere, Present
<1> QED
  BY <1>1, <1>2, <1>3 DEF CatalogueInv

\* What is live after a reload differs from the file by functions at most.
LEMMA LoadedDiffersByFunctions ==
    ASSUME NEW document \in Document, IsPlain(document), NEW files
    PROVE  /\ Loaded(document, files) \ Present(document) \subseteq Functions
           /\ Present(document) \ Loaded(document, files) \subseteq Functions
  BY DEF Document, IsPlain, Loaded, Present

\* What Unseen makes of a running import.
LEMMA UnseenIsMissed ==
    ASSUME CatalogueTypeOK, NEW changed \in SUBSET Tools
    PROVE  /\ Unseen(changed) \in [Imports -> Import \cup {Void}]
           /\ \A i \in Imports : Unseen(changed)[i] # Void =>
                 /\ imports[i] # Void /\ Unseen(changed)[i].copy = imports[i].copy
                 /\ Unseen(changed)[i].missed = imports[i].missed \cup changed
<1> SUFFICES ASSUME NEW i \in Imports
             PROVE  /\ Unseen(changed)[i] \in Import \cup {Void}
                    /\ Unseen(changed)[i] # Void =>
                          /\ imports[i] # Void /\ Unseen(changed)[i].copy = imports[i].copy
                          /\ Unseen(changed)[i].missed = imports[i].missed \cup changed
  BY DEF Unseen
<1>1. CASE imports[i] = Void
  BY <1>1 DEF Unseen
<1>2. CASE imports[i] # Void
  <2>1. imports[i] \in Import
    BY <1>2 DEF CatalogueTypeOK
  <2>2. Unseen(changed)[i] = [copy |-> imports[i].copy, missed |-> imports[i].missed \cup changed]
    BY <1>2, <2>1 DEF Unseen, Import
  <2> QED
    BY <1>2, <2>1, <2>2 DEF Import
<1> QED
  BY <1>1, <1>2

\* One request writes one entry of the document, whole, from the cache.
LEMMA OneEntryKeepsTools ==
    ASSUME CatalogueTypeOK, ToolsInv, NEW t \in Tools, NEW entry \in Tool \cup {Void},
           tools' = [listed EXCEPT ![t] = entry], listed' = tools', LastWord(t),
           doubtful' \in {doubtful, doubtful \ {t}},
           t \notin Functions => (entry # Void => ~entry.function),
           sources' \in {sources, sources \cup {t}, sources \ {t}},
           entry # Void /\ entry.function /\ t \notin doubtful' => t \in sources',
           \/ live' = Loaded(tools', sources')
           \/ t \in Functions /\ live' = live
           \/ live # Void /\ live' = live /\ (t \in live <=> entry # Void)
           \/ live # Void /\ live' = live \cup {t} /\ entry # Void
           \/ live = Void /\ live' = Void
    PROVE  ToolsInv' /\ tools' \in Document /\ listed' \in Document /\ wanted' \in Document
           /\ imports' \in [Imports -> Import \cup {Void}]
<1>1. tools \in Document /\ listed \in Document /\ wanted \in Document
  BY DEF CatalogueTypeOK
<1>2. tools'[t] = entry /\ \A u \in Tools \ {t} : tools'[u] = listed[u]
  BY <1>1 DEF Document
<1>3. tools' \in Document
  BY <1>1 DEF Document
<1>4. wanted' \in Document /\ wanted'[t] = entry /\ \A u \in Tools \ {t} : wanted'[u] = wanted[u]
  BY <1>1, <1>2 DEF LastWord, Document
<1>5. /\ imports' \in [Imports -> Import \cup {Void}]
      /\ \A i \in Imports : imports'[i] # Void =>
            /\ imports[i] # Void /\ imports'[i].copy = imports[i].copy
            /\ imports'[i].missed = imports[i].missed \cup {t}
  BY UnseenIsMissed DEF LastWord
<1>6. CopiesAreKnown'
  <2>1. \A u \in Tools \ doubtful' : tools'[u] = wanted'[u] /\ listed'[u] = wanted'[u]
    BY <1>2, <1>4 DEF ToolsInv, CopiesAreKnown
  <2>2. ASSUME NEW i \in Imports, imports'[i] # Void, NEW u \in Tools \ (doubtful' \cup imports'[i].missed)
        PROVE  imports'[i].copy[u] = wanted'[u]
    <3>1. u # t /\ u \notin doubtful \cup imports[i].missed /\ imports[i] # Void
      BY <1>5, <2>2
    <3> QED
      BY <1>4, <1>5, <2>2, <3>1 DEF ToolsInv, CopiesAreKnown
  <2> QED
    BY <2>1, <2>2 DEF CopiesAreKnown
<1>7. OthersArePlain'
  <2>1. IsPlain(tools')
    BY <1>2 DEF ToolsInv, OthersArePlain, IsPlain
  <2>2. \A i \in Imports : imports'[i] # Void => IsPlain(imports'[i].copy)
    BY <1>5 DEF ToolsInv, OthersArePlain
  <2> QED
    BY <2>1, <2>2 DEF OthersArePlain, IsPlain
<1>8. OnlyFunctionsDiffer'
  <2>1. CASE live' = Loaded(tools', sources')
    <3>1. IsPlain(tools')
      BY <1>7 DEF OthersArePlain, IsPlain
    <3> QED
      BY <1>3, <2>1, <3>1, LoadedDiffersByFunctions DEF OnlyFunctionsDiffer
  <2>2. CASE live' # Loaded(tools', sources') /\ live' # Void
    <3>1. \A u \in Tools \ Functions : u # t => (u \in Present(tools') <=> u \in Present(tools))
      BY <1>1, <1>2, <1>3 DEF ToolsInv, OthersArePlain, Present, Document
    <3>2. t \notin Functions => (t \in live' <=> t \in Present(tools'))
      BY <1>2, <1>3, <2>2 DEF Present, Document
    <3>3. live # Void /\ \A u : u # t => (u \in live' <=> u \in live)
      BY <2>2
    <3>4. Present(tools') \subseteq Tools /\ Present(tools) \subseteq Tools
      BY <1>1, <1>3 DEF Present, Document
    <3>5. /\ live \ Present(tools) \subseteq Functions /\ Present(tools) \ live \subseteq Functions
      BY <3>3 DEF ToolsInv, OnlyFunctionsDiffer
    <3>6. ASSUME NEW u, u \notin Functions PROVE u \in live' <=> u \in Present(tools')
      BY <3>1, <3>2, <3>3, <3>4, <3>5, <3>6
    <3> QED
      BY <3>6 DEF OnlyFunctionsDiffer
  <2> QED
    BY <2>1, <2>2 DEF OnlyFunctionsDiffer
<1>9. FunctionsHaveSources'
  <2> SUFFICES ASSUME NEW u \in Present(tools') \ doubtful', tools'[u].function PROVE u \in sources'
    BY DEF FunctionsHaveSources
  <2>1. u \in Tools /\ tools'[u] # Void
    BY <1>3 DEF Present, Document
  <2>2. CASE u = t
    BY <1>2, <2>1, <2>2
  <2>3. CASE u # t
    <3>1. u \notin doubtful /\ tools'[u] = tools[u]
      BY <1>2, <2>1, <2>3 DEF ToolsInv, CopiesAreKnown
    <3>2. u \in sources
      BY <1>1, <2>1, <3>1 DEF ToolsInv, FunctionsHaveSources, Present, Document
    <3> QED
      BY <2>3, <3>2
  <2> QED
    BY <2>2, <2>3
<1> QED
  BY <1>3, <1>4, <1>5, <1>6, <1>7, <1>8, <1>9 DEF ToolsInv

\* Requests about tools leave agents and workflows alone, and others the tools.
LEMMA ToolsAside ==
    ASSUME CatalogueInv, ToolsInv', UNCHANGED <<agents, workflows>>,
           tools' \in Document, listed' \in Document, wanted' \in Document,
           imports' \in [Imports -> Import \cup {Void}]
    PROVE  CatalogueInv'
  BY DEF CatalogueInv, CatalogueTypeOK, WorkflowsResolve, Present

LEMMA RequestsAside ==
    ASSUME CatalogueInv, UNCHANGED <<tools, listed, live, sources, imports, wanted, doubtful>>
    PROVE  ToolsInv'
  BY DEF CatalogueInv, ToolsInv, CopiesAreKnown, OthersArePlain, IsPlain, OnlyFunctionsDiffer,
         FunctionsHaveSources, Present

LEMMA ToolRequestsKeepInv ==
    ASSUME CatalogueInv, NEW t \in Tools, RegisterTool(t) \/ UpdateTool(t) \/ DeleteTool(t)
    PROVE  CatalogueInv'
<1> USE CatalogueAssumption DEF CatalogueAssumption
<1>1. CatalogueTypeOK /\ ToolsInv /\ listed \in Document
  BY DEF CatalogueInv, CatalogueTypeOK
<1>2. CASE RegisterTool(t)
  <2>1. Plain \in Tool /\ ~Plain.function
    BY DEF Plain, Tool
  <2>2. /\ tools' = [listed EXCEPT ![t] = Plain] /\ listed' = tools' /\ LastWord(t)
        /\ doubtful' = doubtful \ {t} /\ sources' = sources
        /\ live' = IF live = Void THEN Loaded(tools', sources') ELSE live \cup {t}
        /\ UNCHANGED <<agents, workflows>>
    BY <1>2 DEF RegisterTool, SaveTools, Settled
  <2> QED
    BY <1>1, <2>1, <2>2, OneEntryKeepsTools, ToolsAside
<1>3. CASE UpdateTool(t)
  <2> DEFINE entry == [listed[t] EXCEPT !.revised = ~@]
  <2>1. listed[t] \in Tool /\ listed[t] # Void
    BY <1>1, <1>3 DEF UpdateTool, Document
  <2>2. entry \in Tool /\ entry.function = listed[t].function /\ entry # Void
    BY <2>1 DEF Tool
  <2>3. /\ tools' = [listed EXCEPT ![t] = entry] /\ listed' = tools' /\ LastWord(t)
        /\ doubtful' = doubtful /\ sources' = sources
        /\ live' \in {live, Loaded(tools', sources')}
        /\ UNCHANGED <<agents, workflows>>
    BY <1>3 DEF UpdateTool, SaveTools
  <2>4. t \notin Functions => ~listed[t].function /\ tools[t] # Void /\ tools[t] = listed[t]
    BY <1>1, <2>1 DEF ToolsInv, OthersArePlain, IsPlain
  <2>5. listed[t].function /\ t \notin doubtful => t \in sources
    <3>1. t \notin doubtful => tools[t] = listed[t]
      BY <1>1 DEF ToolsInv, CopiesAreKnown
    <3> QED
      BY <1>1, <2>1, <3>1 DEF ToolsInv, FunctionsHaveSources, Present, CatalogueTypeOK, Document
  <2>6. \/ live' = Loaded(tools', sources')
        \/ t \in Functions /\ live' = live
        \/ live # Void /\ live' = live /\ (t \in live <=> entry # Void)
        \/ live = Void /\ live' = Void
    <3>1. t \notin Functions /\ live # Void => t \in live
      BY <1>1, <2>4 DEF ToolsInv, OnlyFunctionsDiffer, Present, CatalogueTypeOK, Document
    <3> HIDE DEF entry
    <3> QED
      BY <2>2, <2>3, <3>1
  <2> HIDE DEF entry
  <2> QED
    BY <1>1, <2>2, <2>3, <2>4, <2>5, <2>6, OneEntryKeepsTools, ToolsAside
<1>4. CASE DeleteTool(t)
  <2>1. /\ tools' = [listed EXCEPT ![t] = Void] /\ listed' = tools' /\ LastWord(t)
        /\ doubtful' = doubtful \ {t} /\ sources' = sources
        /\ live' = Loaded(tools', sources')
        /\ UNCHANGED <<agents, workflows>>
    BY <1>4 DEF DeleteTool, SaveTools, Settled
  <2> QED
    BY <1>1, <2>1, OneEntryKeepsTools, ToolsAside
<1> QED
  BY <1>2, <1>3, <1>4

\* A save that fails leaves the edit in the cache, and the tool is doubtful.
LEMMA FailedEditKeepsTools ==
    ASSUME CatalogueTypeOK, ToolsInv, NEW t \in Functions, NEW entry \in Tool \cup {Void},
           listed' = [listed EXCEPT ![t] = entry], doubtful' = doubtful \cup {t},
           UNCHANGED <<tools, imports, wanted, live>>,
           sources' \in {sources, sources \cup {t}, sources \ {t}}
    PROVE  ToolsInv' /\ listed' \in Document
<1>1. t \in Tools /\ listed \in Document
  BY CatalogueAssumption DEF CatalogueAssumption, CatalogueTypeOK
<1>2. listed' \in Document /\ \A u \in Tools \ {t} : listed'[u] = listed[u]
  BY <1>1 DEF Document
<1>3. CopiesAreKnown' /\ OthersArePlain'
  BY <1>2 DEF ToolsInv, CopiesAreKnown, OthersArePlain, IsPlain
<1>4. OnlyFunctionsDiffer' /\ FunctionsHaveSources'
  BY DEF ToolsInv, OnlyFunctionsDiffer, FunctionsHaveSources, Present
<1> QED
  BY <1>2, <1>3, <1>4 DEF ToolsInv

LEMMA FunctionRequestsKeepInv ==
    ASSUME CatalogueInv, NEW t \in Functions, CreateFunction(t) \/ DeleteFunction(t)
    PROVE  CatalogueInv'
<1>1. CatalogueTypeOK /\ ToolsInv /\ t \in Tools
  BY CatalogueAssumption DEF CatalogueInv, CatalogueAssumption
<1>2. Function \in Tool
  BY DEF Function, Tool
<1>3. PICK entry \in Tool \cup {Void} :
         /\ EditInPlace(t, entry)
         /\ \/ entry = Function /\ sources' = sources \cup {t}
            \/ entry = Void /\ sources' = IF tools' = listed' THEN sources \ {t} ELSE sources
  BY <1>2 DEF CreateFunction, DeleteFunction
<1>4. listed' = [listed EXCEPT ![t] = entry] /\ UNCHANGED <<agents, workflows, live>>
  BY <1>3 DEF EditInPlace
<1>5. CASE tools' = listed' /\ Settled(t)
  <2>1. entry # Void /\ entry.function => t \in sources'
    BY <1>3
  <2> QED
    BY <1>1, <1>3, <1>4, <1>5, <2>1, OneEntryKeepsTools, ToolsAside DEF Settled
<1>6. CASE doubtful' = doubtful \cup {t} /\ UNCHANGED <<tools, imports, wanted>>
  <2>1. ToolsInv' /\ listed' \in Document
    BY <1>1, <1>3, <1>4, <1>6, FailedEditKeepsTools
  <2>2. tools' \in Document /\ wanted' \in Document /\ imports' \in [Imports -> Import \cup {Void}]
    BY <1>1, <1>6 DEF CatalogueTypeOK
  <2> QED
    BY <1>4, <2>1, <2>2, ToolsAside
<1> QED
  BY <1>3, <1>5, <1>6 DEF EditInPlace

\* A save from the copy of an import is right about every tool that did not change
\* since, and those that did are doubtful from then on.
LEMMA ImportsKeepInv ==
    ASSUME CatalogueInv, NEW i \in Imports,
           StartImport(i) \/ \E found \in SUBSET Endpoints : FinishImport(i, found)
    PROVE  CatalogueInv'
<1> USE CatalogueAssumption DEF CatalogueAssumption
<1>1. CatalogueTypeOK /\ ToolsInv /\ UNCHANGED <<agents, workflows, sources>>
  BY DEF CatalogueInv, StartImport, FinishImport
<1>2. /\ tools \in Document /\ listed \in Document /\ wanted \in Document
      /\ imports \in [Imports -> Import \cup {Void}]
  BY <1>1 DEF CatalogueTypeOK
<1>3. CASE StartImport(i)
  <2> DEFINE new == [copy |-> listed, missed |-> {}]
  <2>1. new \in Import /\ imports' = [imports EXCEPT ![i] = new]
    BY <1>2, <1>3 DEF StartImport, Import
  <2>2. imports' \in [Imports -> Import \cup {Void}] /\ imports'[i] = new
        /\ \A j \in Imports \ {i} : imports'[j] = imports[j]
    BY <1>2, <2>1
  <2>3. UNCHANGED <<tools, listed, live, wanted, doubtful>>
    BY <1>3 DEF StartImport, caches
  <2>4. CopiesAreKnown'
    <3>1. \A t \in Tools \ doubtful : new.copy[t] = wanted[t]
      BY <1>1 DEF ToolsInv, CopiesAreKnown
    <3> HIDE DEF new
    <3> QED
      BY <1>1, <2>2, <2>3, <3>1 DEF ToolsInv, CopiesAreKnown
  <2>5. OthersArePlain'
    <3>1. IsPlain(new.copy)
      BY <1>1 DEF ToolsInv, OthersArePlain, IsPlain
    <3> HIDE DEF new
    <3> QED
      BY <1>1, <2>2, <2>3, <3>1 DEF ToolsInv, OthersArePlain, IsPlain
  <2>6. OnlyFunctionsDiffer' /\ FunctionsHaveSources'
    BY <1>1, <2>3 DEF ToolsInv, OnlyFunctionsDiffer, FunctionsHaveSources, Present
  <2> QED
    BY <1>1, <1>2, <2>2, <2>3, <2>4, <2>5, <2>6, ToolsAside DEF ToolsInv
<1>4. ASSUME NEW found \in SUBSET Endpoints, FinishImport(i, found) PROVE CatalogueInv'
  <2> DEFINE read == imports[i]
             new  == {t \in found : read.copy[t] = Void}
  <2>1. read # Void /\ read \in Import /\ read.copy \in Document /\ new \in SUBSET Tools
        /\ new \cap {} = {} /\ Plain \in Tool /\ ~Plain.function
    BY <1>2, <1>4 DEF FinishImport, Import, Plain, Tool
  <2>2. CASE new = {}
    <3>1. imports' = [imports EXCEPT ![i] = Void] /\ UNCHANGED <<tools, listed, live, wanted, doubtful>>
      BY <1>4, <2>2 DEF FinishImport
    <3>2. /\ imports' \in [Imports -> Import \cup {Void}] /\ imports'[i] = Void
          /\ \A j \in Imports \ {i} : imports'[j] = imports[j]
      BY <1>2, <3>1
    <3>3. ToolsInv'
      BY <1>1, <3>1, <3>2 DEF ToolsInv, CopiesAreKnown, OthersArePlain, IsPlain, OnlyFunctionsDiffer,
                              FunctionsHaveSources, Present
    <3> QED
      BY <1>1, <1>2, <3>1, <3>2, <3>3, ToolsAside
  <2>3. CASE new # {}
    <3>1. /\ tools' = [t \in Tools |-> IF t \in new THEN Plain ELSE read.copy[t]] /\ listed' = tools'
          /\ wanted' = [t \in Tools |-> IF t \in new THEN Plain ELSE wanted[t]]
          /\ doubtful' = (doubtful \cup read.missed) \ new
          /\ imports' = [Unseen(new) EXCEPT ![i] = Void]
          /\ live' = Loaded(tools', sources')
      BY <1>4, <2>3 DEF FinishImport, SaveTools
    <3> HIDE DEF new, read
    <3>2. tools' \in Document /\ wanted' \in Document
      BY <1>2, <2>1, <3>1 DEF Document
    <3>3. \A t \in Tools :
             /\ t \in new => tools'[t] = Plain /\ wanted'[t] = Plain
             /\ t \notin new => tools'[t] = read.copy[t] /\ wanted'[t] = wanted[t]
      BY <3>1
    <3>4. /\ imports' \in [Imports -> Import \cup {Void}]
          /\ \A j \in Imports : imports'[j] # Void =>
                /\ imports[j] # Void /\ imports'[j].copy = imports[j].copy
                /\ imports'[j].missed = imports[j].missed \cup new
      BY <1>1, <2>1, <3>1, UnseenIsMissed
    <3>5. \A t \in Tools \ (doubtful \cup read.missed) : read.copy[t] = wanted[t] /\ tools[t] = wanted[t]
      BY <1>1, <2>1 DEF ToolsInv, CopiesAreKnown, read
    <3>6. CopiesAreKnown'
      <4>1. \A t \in Tools \ doubtful' : tools'[t] = wanted'[t] /\ listed'[t] = wanted'[t]
        BY <3>1, <3>3, <3>5
      <4>2. ASSUME NEW j \in Imports, imports'[j] # Void, NEW t \in Tools \ (doubtful' \cup imports'[j].missed)
            PROVE  imports'[j].copy[t] = wanted'[t]
        <5>1. t \notin new /\ t \notin doubtful \cup imports[j].missed /\ imports[j] # Void
          BY <3>1, <3>4, <4>2
        <5> QED
          BY <1>1, <3>3, <3>4, <4>2, <5>1 DEF ToolsInv, CopiesAreKnown
      <4> QED
        BY <4>1, <4>2 DEF CopiesAreKnown
    <3>7. IsPlain(tools')
      BY <1>1, <2>1, <3>3 DEF ToolsInv, OthersArePlain, IsPlain, read
    <3>8. OthersArePlain'
      BY <1>1, <3>1, <3>4, <3>7 DEF ToolsInv, OthersArePlain, IsPlain
    <3>9. OnlyFunctionsDiffer'
      BY <3>1, <3>2, <3>7, LoadedDiffersByFunctions DEF OnlyFunctionsDiffer
    <3>10. FunctionsHaveSources'
      <4> SUFFICES ASSUME NEW t \in Present(tools') \ doubtful', tools'[t].function PROVE t \in sources'
        BY DEF FunctionsHaveSources
      <4>1. t \in Tools /\ tools'[t] # Void
        BY <3>2 DEF Present, Document
      <4>2. t \notin new
        BY <2>1, <3>3, <4>1
      <4>3. t \notin doubtful /\ tools'[t] = tools[t]
        BY <3>1, <3>3, <3>5, <4>1, <4>2
      <4> QED
        BY <1>1, <1>2, <4>1, <4>3 DEF ToolsInv, FunctionsHaveSources, Present, Document
    <3> QED
      BY <1>1, <3>1, <3>2, <3>4, <3>6, <3>8, <3>9, <3>10, ToolsAside DEF ToolsInv
  <2> QED
    BY <2>2, <2>3
<1> QED
  BY <1>3, <1>4

\* Agents and workflows are saved and deleted against the other document.
LEMMA AgentRequestsKeepInv ==
    ASSUME CatalogueInv, NEW a \in Agents,
           DeleteAgent(a) \/ \E used \in SUBSET Tools : CreateAgent(a, used) \/ UpdateAgent(a, used)
    PROVE  CatalogueInv'
<1> USE CatalogueAssumption DEF CatalogueAssumption
<1>1. UNCHANGED <<tools, workflows, listed, live, sources, imports, wanted, doubtful>>
  BY DEF DeleteAgent, CreateAgent, UpdateAgent, SaveAgent, caches
<1>2. agents \in [Agents -> (SUBSET Tools) \cup {Void}]
  BY DEF CatalogueInv, CatalogueTypeOK
<1>3. ToolsInv'
  BY <1>1, RequestsAside
<1>4. /\ agents' \in [Agents -> (SUBSET Tools) \cup {Void}]
      /\ \/ Present(agents') = Present(agents) \ {a} /\ Unassigned(a)
         \/ Present(agents) \subseteq Present(agents')
  <2>1. CASE DeleteAgent(a)
    <3>1. agents' = [agents EXCEPT ![a] = Void] /\ Unassigned(a)
      BY <2>1 DEF DeleteAgent
    <3>2. agents' \in [Agents -> (SUBSET Tools) \cup {Void}]
      <4> DEFINE A == (SUBSET Tools) \cup {Void}
      <4>1. agents \in [Agents -> A] /\ Void \in A
        BY <1>2
      <4> HIDE DEF A
      <4>2. agents' \in [Agents -> A]
        BY <3>1, <4>1
      <4> QED
        BY <4>2 DEF A
    <3>3. Present(agents') = Present(agents) \ {a}
      BY <1>2, <3>1, <3>2 DEF Present
    <3> QED
      BY <3>1, <3>2, <3>3
  <2>2. ASSUME NEW used \in SUBSET Tools, CreateAgent(a, used) \/ UpdateAgent(a, used)
        PROVE  agents' = agents \/ agents' = [agents EXCEPT ![a] = used]
    BY <2>2 DEF CreateAgent, UpdateAgent, SaveAgent
  <2>3. ASSUME NEW used \in SUBSET Tools, agents' = [agents EXCEPT ![a] = used]
        PROVE  agents' \in [Agents -> (SUBSET Tools) \cup {Void}] /\ Present(agents) \subseteq Present(agents')
    BY <1>2, <2>3 DEF Present
  <2> QED
    BY <1>2, <2>1, <2>2, <2>3
<1>5. WorkflowsResolve'
  <2> SUFFICES ASSUME NEW w \in Present(workflows), NEW x \in workflows[w] PROVE x \in Present(agents')
    BY <1>1 DEF WorkflowsResolve, Present
  <2>1. x \in Present(agents)
    BY DEF CatalogueInv, WorkflowsResolve
  <2>2. Unassigned(a) => x # a
    BY DEF Unassigned
  <2> QED
    BY <1>4, <2>1, <2>2
<1> QED
  BY <1>1, <1>3, <1>4, <1>5 DEF CatalogueInv, CatalogueTypeOK

LEMMA WorkflowRequestsKeepInv ==
    ASSUME CatalogueInv, NEW w \in Workflows,
           \/ DeleteWorkflow(w)
           \/ \E team \in SUBSET Agents :
                 CreateWorkflow(w, team) \/ UpdateWorkflow(w, team) \/ StoreTopology(w, team) \/ ApplyPlan(w, team)
    PROVE  CatalogueInv'
<1> USE CatalogueAssumption DEF CatalogueAssumption
<1>1. UNCHANGED <<tools, agents, listed, live, sources, imports, wanted, doubtful>>
  BY DEF DeleteWorkflow, CreateWorkflow, UpdateWorkflow, StoreTopology, ApplyPlan, SaveWorkflow, caches
<1>2. PICK team \in (SUBSET Agents) \cup {Void} :
         workflows' = [workflows EXCEPT ![w] = team] /\ (team # Void => team \subseteq Present(agents))
  <2>1. CASE DeleteWorkflow(w)
    <3>1. workflows' = [workflows EXCEPT ![w] = Void]
      BY <2>1 DEF DeleteWorkflow
    <3>2. Void \in (SUBSET Agents) \cup {Void}
      OBVIOUS
    <3> QED
      BY <3>1, <3>2, Zenon
  <2>2. ASSUME NEW team \in SUBSET Agents,
               CreateWorkflow(w, team) \/ UpdateWorkflow(w, team) \/ StoreTopology(w, team) \/ ApplyPlan(w, team)
        PROVE  workflows' = [workflows EXCEPT ![w] = team] /\ team \subseteq Present(agents)
    BY <2>2 DEF CreateWorkflow, UpdateWorkflow, StoreTopology, ApplyPlan, SaveWorkflow
  <2> QED
    BY <2>1, <2>2
<1>3. workflows \in [Workflows -> (SUBSET Agents) \cup {Void}]
  BY DEF CatalogueInv, CatalogueTypeOK
<1>4. /\ workflows' \in [Workflows -> (SUBSET Agents) \cup {Void}] /\ workflows'[w] = team
      /\ \A v \in Workflows \ {w} : workflows'[v] = workflows[v]
  BY <1>2, <1>3
<1>5. WorkflowsResolve'
  BY <1>1, <1>2, <1>3, <1>4 DEF CatalogueInv, WorkflowsResolve, Present
<1>6. ToolsInv'
  BY <1>1, RequestsAside
<1> QED
  BY <1>1, <1>4, <1>5, <1>6 DEF CatalogueInv, CatalogueTypeOK

\* Those who read make copies from the files.
LEMMA ReadersKeepInv ==
    ASSUME CatalogueInv, ReloadAll \/ Restart \/ \E w \in Workflows : Run(w)
    PROVE  CatalogueInv'
<1>1. CatalogueTypeOK /\ ToolsInv /\ UNCHANGED <<tools, agents, workflows, sources, wanted, doubtful>>
  BY DEF CatalogueInv, ReloadAll, Restart, Run
<1>2. tools \in Document /\ IsPlain(tools)
  BY <1>1 DEF CatalogueTypeOK, ToolsInv, OthersArePlain
<1>3. /\ listed' \in {listed, tools}
      /\ imports' = imports \/ \A i \in Imports : imports'[i] = Void
      /\ live' \in {live, Void, Loaded(tools, sources)}
      /\ imports' \in [Imports -> Import \cup {Void}]
  BY <1>1 DEF ReloadAll, Restart, Run, Nowhere, CatalogueTypeOK
<1>4. CopiesAreKnown'
  BY <1>1, <1>3 DEF ToolsInv, CopiesAreKnown
<1>5. OthersArePlain'
  BY <1>1, <1>3 DEF ToolsInv, OthersArePlain, IsPlain
<1>6. OnlyFunctionsDiffer'
  BY <1>1, <1>2, <1>3, LoadedDiffersByFunctions DEF ToolsInv, OnlyFunctionsDiffer, Present
<1>7. FunctionsHaveSources'
  BY <1>1 DEF ToolsInv, FunctionsHaveSources, Present
<1> QED
  BY <1>1, <1>3, <1>4, <1>5, <1>6, <1>7, ToolsAside DEF ToolsInv, CatalogueTypeOK

\* Whatever mixture of requests, imports, failed saves, reloads and restarts: the
\* documents keep what they were told and refer to what is there, and the live tools
\* are those listed, but for generated functions.
THEOREM CatalogueIsAlwaysTrue == CatalogueSpec => []CatalogueIsTrue
<1>1. CatalogueInv /\ [CatalogueNext]_catalogueVars => CatalogueInv'
  <2> SUFFICES ASSUME CatalogueInv, [CatalogueNext]_catalogueVars PROVE CatalogueInv'
    OBVIOUS
  <2>1. CASE UNCHANGED catalogueVars
    <3>1. ToolsInv'
      BY <2>1, RequestsAside DEF catalogueVars, caches
    <3> QED
      BY <2>1, <3>1, ToolsAside DEF catalogueVars, caches, CatalogueInv, CatalogueTypeOK
  <2> QED
    BY <2>1, ToolRequestsKeepInv, FunctionRequestsKeepInv, ImportsKeepInv, AgentRequestsKeepInv,
       WorkflowRequestsKeepInv, ReadersKeepInv DEF CatalogueNext
<1> QED
  BY <1>1, CatalogueInvInit, CatalogueInvSays, PTL DEF CatalogueSpec
-----------------------------------------------------------------------------
(***************************************************************************)
(* Ingestion and stores (RagService)                                       *)
(***************************************************************************)

\* The rows of FAISS play no part in the first, so the lemmas on the store's operations
\* say what they do to `stored` alone.  The second follows the row numbers and vectors of
\* a single chunk (RowsInv).

\* An ingestion's record.
Job == [at : {"none", "cleared", "done", "failed"}, source : Sources \cup {Nothing},
        size : 0..MaxChunks, alone : BOOLEAN]

\* Types of what the proof needs: the chunk ids, the ingestions, the bookkeeping.
RagDataOK ==
    /\ DOMAIN stored \subseteq Ids
    /\ job \in [Ingestions -> Job]
    /\ \A i \in Ingestions : job[i].at = "cleared" => job[i].source \in Sources
    /\ left \in [Sources -> [by : Ingestions \cup {Nothing}, whole : BOOLEAN]]

\* An ingestion that is alone finds its document cleared when it stores.
AloneMeansCleared ==
    \A i \in Ingestions :
        job[i].at = "cleared" /\ job[i].alone =>
            StoredOf(job[i].source) = {} /\ left[job[i].source] = Clean

\* What stored last has ended, and had this document.
LastOneIsDone ==
    \A s \in Sources : left[s].by # Nothing =>
        job[left[s].by].at \in {"done", "failed"} /\ job[left[s].by].source = s

RagInv == RagDataOK /\ AloneMeansCleared /\ LastOneIsDone /\ DocumentIsReplacedWhole

LEMMA DeleteRemovesTheDocument ==
    ASSUME NEW s \in Sources, Delete(s)
    PROVE  /\ DOMAIN stored' = DOMAIN stored \ StoredOf(s)
           /\ \A id \in DOMAIN stored' : stored'[id] = stored[id]
BY DEF Delete, Without, Restrict

LEMMA UpsertStoresTheChunks ==
    ASSUME NEW i, NEW ids, UpsertRecords(i, ids)
    PROVE  /\ DOMAIN stored' = DOMAIN stored \cup ids
           /\ \A id \in ids : stored'[id] = i
           /\ \A id \in DOMAIN stored \ ids : stored'[id] = stored[id]
BY DEF UpsertRecords

LEMMA RagInitInv == RagInit => RagInv
<1> SUFFICES ASSUME RagInit PROVE RagInv
  OBVIOUS
<1> USE RagAssumption
<1>1. DOMAIN stored = {}
  BY DEF RagInit
<1>2. RagDataOK
  BY <1>1 DEF RagInit, RagDataOK, Job, Idle, Clean
<1>3. AloneMeansCleared /\ LastOneIsDone
  BY DEF RagInit, AloneMeansCleared, LastOneIsDone, Idle, Clean
<1>4. DocumentIsReplacedWhole
  BY <1>1 DEF RagInit, DocumentIsReplacedWhole, StoredOf, Clean
<1> QED
  BY <1>2, <1>3, <1>4 DEF RagInv

\* What a step may do to the chunks of one source and must not do to others.
Cleared(s) == StoredOf(s)' = {}
Untouched(s) ==
    StoredOf(s)' = StoredOf(s) /\ \A id \in StoredOf(s) : stored'[id] = stored[id]

LEMMA DeleteClears ==
    ASSUME NEW s \in Sources, Delete(s)
    PROVE  Cleared(s) /\ \A x \in Sources \ {s} : Untouched(x)
BY DeleteRemovesTheDocument DEF Cleared, Untouched, StoredOf

\* The bookkeeping of an unfinished ingestion of another document, and of all
\* finished ones, survives.
LEMMA DisturbedKeeps ==
    ASSUME RagDataOK, NEW S
    PROVE  /\ Disturbed(S) \in [Ingestions -> Job]
           /\ \A j \in Ingestions :
                /\ Disturbed(S)[j].at = job[j].at /\ Disturbed(S)[j].source = job[j].source
                /\ Disturbed(S)[j].size = job[j].size
                /\ Disturbed(S)[j].alone => job[j].alone
                /\ job[j].at = "cleared" /\ Disturbed(S)[j].alone => job[j].source \notin S
BY DEF RagDataOK, Job, Disturbed

LEMMA ClearKeeps ==
    ASSUME RagInv, NEW i \in Ingestions, NEW s \in Sources, NEW n \in 1..MaxChunks, Clear(i, s, n)
    PROVE  RagInv'
<1> USE RagAssumption DEF RagInv
<1>1. Cleared(s) /\ \A x \in Sources \ {s} : Untouched(x)
  BY DeleteClears DEF Clear
<1>2. DOMAIN stored' \subseteq Ids
  BY DeleteRemovesTheDocument DEF Clear, RagDataOK, Job
<1>3. /\ job[i].at = "none"
      /\ job'[i] = [at |-> "cleared", source |-> s, size |-> n, alone |-> TRUE]
      /\ \A j \in Ingestions \ {i} : job'[j] = Disturbed({s})[j]
      /\ left' = [left EXCEPT ![s] = Clean]
      /\ left'[s] = Clean /\ \A x \in Sources \ {s} : left'[x] = left[x]
  BY DisturbedKeeps DEF Clear, RagDataOK, Job, Idle
<1>4. RagDataOK'
  BY <1>2, <1>3, DisturbedKeeps DEF Clear, RagDataOK, Job, Clean
<1>5. AloneMeansCleared'
  <2> SUFFICES ASSUME NEW j \in Ingestions, job'[j].at = "cleared", job'[j].alone
               PROVE  {id \in DOMAIN stored' : id[1] = job'[j].source} = {} /\ left'[job'[j].source] = Clean
    BY DEF AloneMeansCleared, StoredOf, Clean
  <2>1. CASE j = i
    BY <2>1, <1>1, <1>3 DEF Cleared, StoredOf
  <2>2. CASE j # i
    <3>1. /\ job[j].at = "cleared" /\ job[j].alone
          /\ job'[j].source = job[j].source /\ job[j].source \in Sources \ {s}
      BY <2>2, <1>3, DisturbedKeeps DEF RagDataOK, Job
    <3>2. StoredOf(job[j].source) = {} /\ left[job[j].source] = Clean
      BY <3>1 DEF AloneMeansCleared
    <3> QED
      BY <3>1, <3>2, <1>1, <1>3 DEF Untouched, StoredOf
  <2> QED
    BY <2>1, <2>2
<1>6. LastOneIsDone'
  BY <1>3, DisturbedKeeps DEF LastOneIsDone, RagDataOK, Job, Clean
<1>7. ASSUME NEW x \in Sources, left'[x].by # Nothing
      PROVE  x # s /\ left'[x] = left[x] /\ left[x].by \in Ingestions /\ job'[left[x].by].size = job[left[x].by].size
  BY <1>3, <1>7, DisturbedKeeps DEF LastOneIsDone, RagDataOK, Job, Clean
<1>8. DocumentIsReplacedWhole'
  <2> SUFFICES ASSUME NEW x \in Sources
               PROVE  LET i_1 == left'[x].by
                          whole == IF i_1 = Nothing THEN {} ELSE ChunkIds(x, job'[i_1].size)
                      IN  /\ \A id \in whole : id \in DOMAIN stored' /\ stored'[id] = i_1
                          /\ left'[x].whole => StoredOf(x)' = whole
    BY DEF DocumentIsReplacedWhole, ChunkIds
  <2>1. CASE x = s
    BY <2>1, <1>1, <1>3 DEF Cleared, Clean
  <2>2. CASE x # s
    BY <2>2, <1>1, <1>3, <1>7 DEF DocumentIsReplacedWhole, Untouched, StoredOf, ChunkIds
  <2> QED
    BY <2>1, <2>2
<1> QED
  BY <1>4, <1>5, <1>6, <1>8

LEMMA IsFunctionInto ==
    ASSUME NEW S, NEW T, NEW f, f = [x \in S |-> f[x]], \A x \in S : f[x] \in T
    PROVE  f \in [S -> T]
OBVIOUS

LEMMA StoreKeeps ==
    ASSUME RagInv, NEW i \in Ingestions, NEW end \in {"done", "failed"}, Stores(i, end)
    PROVE  RagInv'
<1> USE RagAssumption DEF RagInv
<1>1. job[i].source \in Sources /\ job[i].at = "cleared" /\ job[i].size \in 0..MaxChunks
  BY DEF Stores, RagDataOK, Job
<1> PICK s \in Sources, n \in 0..MaxChunks : s = job[i].source /\ n = job[i].size
  BY <1>1
<1> DEFINE ids == ChunkIds(s, n)
<1>15. UpsertRecords(i, ids)
  BY DEF Stores
<1>2. /\ DOMAIN stored' = DOMAIN stored \cup ids
      /\ \A id \in ids : stored'[id] = i
      /\ \A id \in DOMAIN stored \ ids : stored'[id] = stored[id]
  BY <1>15, UpsertStoresTheChunks
<1>3. ids \subseteq Ids /\ \A id \in ids : id[1] = s
  BY <1>1 DEF ChunkIds, Ids
<1>4. /\ StoredOf(s)' = StoredOf(s) \cup ids
      /\ \A x \in Sources \ {s} : Untouched(x)
  BY <1>2, <1>3 DEF StoredOf, Untouched
<1>5. /\ left'[s] = [by |-> i, whole |-> job[i].alone]
      /\ \A x \in Sources \ {s} : left'[x] = left[x]
  BY <1>1 DEF Stores, RagDataOK, Job
<1> PICK d : d = Disturbed({s})
  OBVIOUS
<1>11. d \in [Ingestions -> Job]
  BY DisturbedKeeps
<1>12. job' = [d EXCEPT ![i].at = end]
  BY DEF Stores
<1>13. \A j \in Ingestions :
        /\ d[j].at = job[j].at /\ d[j].source = job[j].source /\ d[j].size = job[j].size
        /\ d[j].alone => job[j].alone
        /\ job[j].at = "cleared" /\ d[j].alone => job[j].source # s
  BY DisturbedKeeps
<1>14. /\ job'[i] = [at |-> end, source |-> s, size |-> n, alone |-> d[i].alone]
      /\ \A j \in Ingestions \ {i} : job'[j] = d[j]
  <2>1. d[i] = [at |-> d[i].at, source |-> s, size |-> n, alone |-> d[i].alone]
    BY <1>11, <1>13 DEF Job
  <2>2. job'[i] = [d[i] EXCEPT !.at = end]
    BY <1>11, <1>12 DEF Job
  <2>3. job'[i] = [at |-> end, source |-> s, size |-> n, alone |-> d[i].alone]
    BY <2>1, <2>2
  <2> QED
    BY <2>3, <1>11, <1>12
<1>6. /\ job'[i].at = end /\ job'[i].source = s /\ job'[i].size = n
      /\ \A j \in Ingestions \ {i} :
            /\ job'[j].at = job[j].at /\ job'[j].source = job[j].source /\ job'[j].size = job[j].size
            /\ job'[j].alone => job[j].alone
            /\ job[j].at = "cleared" /\ job'[j].alone => job[j].source # s
  <2>1. job'[i].at = end /\ job'[i].source = s /\ job'[i].size = n
    BY <1>14
  <2>2. ASSUME NEW j \in Ingestions \ {i}
        PROVE  /\ job'[j].at = job[j].at /\ job'[j].source = job[j].source /\ job'[j].size = job[j].size
               /\ job'[j].alone => job[j].alone
               /\ job[j].at = "cleared" /\ job'[j].alone => job[j].source # s
    <3>1. job'[j] = d[j]
      BY <1>14
    <3>2. /\ d[j].at = job[j].at /\ d[j].source = job[j].source /\ d[j].size = job[j].size
          /\ d[j].alone => job[j].alone
          /\ job[j].at = "cleared" /\ d[j].alone => job[j].source # s
      BY <1>13
    <3> QED
      BY <3>1, <3>2, Zenon
  <2> QED
    BY <2>1, <2>2
<1>7. RagDataOK'
  <2>1. DOMAIN stored' \subseteq Ids
    BY <1>2, <1>3 DEF RagDataOK, Job
  <2>2. job' \in [Ingestions -> Job]
    <3>1. d[i].alone \in BOOLEAN
      BY <1>11 DEF Job
    <3>2. job'[i] \in Job
      BY <3>1, <1>14 DEF Job
    <3>3. \A j \in Ingestions \ {i} : job'[j] \in Job
      BY <1>11, <1>14
    <3>4. \A j \in Ingestions : job'[j] \in Job
      BY <3>2, <3>3
    <3>5. job' = [j \in Ingestions |-> job'[j]]
      BY <1>11, <1>12, Zenon
    <3> QED
      BY <3>4, <3>5, IsFunctionInto
  <2>3. left' \in [Sources -> [by : Ingestions \cup {Nothing}, whole : BOOLEAN]]
    BY <1>1 DEF Stores, RagDataOK, Job
  <2> QED
    BY <2>1, <2>2, <2>3, <1>6 DEF RagDataOK, Job
<1>8. AloneMeansCleared'
  <2> SUFFICES ASSUME NEW j \in Ingestions, job'[j].at = "cleared", job'[j].alone
               PROVE  {id \in DOMAIN stored' : id[1] = job'[j].source} = {} /\ left'[job'[j].source] = Clean
    BY DEF AloneMeansCleared, StoredOf, Clean
  <2>1. /\ job[j].at = "cleared" /\ job[j].alone
        /\ job'[j].source = job[j].source /\ job[j].source \in Sources \ {s}
    BY <1>6 DEF RagDataOK, Job
  <2>2. StoredOf(job[j].source) = {} /\ left[job[j].source] = Clean
    BY <2>1 DEF AloneMeansCleared
  <2> QED
    BY <2>1, <2>2, <1>4, <1>5 DEF Untouched, StoredOf
<1>9. LastOneIsDone'
  <2> SUFFICES ASSUME NEW x \in Sources, left'[x].by # Nothing
               PROVE  job'[left'[x].by].at \in {"done", "failed"} /\ job'[left'[x].by].source = x
    BY DEF LastOneIsDone
  <2>1. CASE x = s
    BY <2>1, <1>5, <1>6
  <2>2. CASE x # s
    BY <2>2, <1>1, <1>5, <1>6 DEF LastOneIsDone, RagDataOK, Job
  <2> QED
    BY <2>1, <2>2
<1>10. DocumentIsReplacedWhole'
  <2> SUFFICES ASSUME NEW x \in Sources
               PROVE  LET i_1 == left'[x].by
                          whole == IF i_1 = Nothing THEN {} ELSE ChunkIds(x, job'[i_1].size)
                      IN  /\ \A id \in whole : id \in DOMAIN stored' /\ stored'[id] = i_1
                          /\ left'[x].whole => StoredOf(x)' = whole
    BY DEF DocumentIsReplacedWhole, ChunkIds
  <2>1. CASE x = s
    <3>1. left'[x].by = i /\ i # Nothing /\ job'[i].size = n /\ left'[x].whole = job[i].alone
      BY <2>1, <1>5, <1>6
    <3>2. job[i].alone => StoredOf(s) = {}
      BY <1>1 DEF AloneMeansCleared
    <3> QED
      BY <2>1, <3>1, <3>2, <1>2, <1>4 DEF StoredOf, ChunkIds
  <2>2. CASE x # s
    <3>1. left'[x] = left[x] /\ Untouched(x)
      BY <2>2, <1>4, <1>5
    <3>2. left[x].by # Nothing => job'[left[x].by].size = job[left[x].by].size
      BY <1>1, <1>6 DEF LastOneIsDone, RagDataOK, Job
    <3> QED
      BY <3>1, <3>2 DEF DocumentIsReplacedWhole, Untouched, StoredOf, ChunkIds
  <2> QED
    BY <2>1, <2>2
<1> QED
  BY <1>7, <1>8, <1>9, <1>10

\* A deletion and a dropped collection leave no chunk and disturb whoever is
\* between its two steps.
LEMMA DeletionKeeps ==
    ASSUME RagInv, NEW S \in SUBSET Sources,
           DOMAIN stored' \subseteq DOMAIN stored,
           \A s \in S : Cleared(s),
           \A x \in Sources \ S : Untouched(x),
           job' = Disturbed(S),
           left' = [s \in Sources |-> IF s \in S THEN Clean ELSE left[s]]
    PROVE  RagInv'
<1> USE RagAssumption DEF RagInv
<1>1. RagDataOK'
  BY DisturbedKeeps DEF RagDataOK, Job, Clean
<1>2. AloneMeansCleared'
  <2> SUFFICES ASSUME NEW j \in Ingestions, job'[j].at = "cleared", job'[j].alone
               PROVE  {id \in DOMAIN stored' : id[1] = job'[j].source} = {} /\ left'[job'[j].source] = Clean
    BY DEF AloneMeansCleared, StoredOf, Clean
  <2>1. /\ job[j].at = "cleared" /\ job[j].alone
        /\ job'[j].source = job[j].source /\ job[j].source \in Sources \ S
    BY DisturbedKeeps DEF RagDataOK, Job
  <2>2. StoredOf(job[j].source) = {} /\ left[job[j].source] = Clean
    BY <2>1 DEF AloneMeansCleared
  <2> QED
    BY <2>1, <2>2 DEF Untouched, StoredOf
<1>3. LastOneIsDone'
  BY DisturbedKeeps DEF LastOneIsDone, RagDataOK, Job, Clean
<1>4. DocumentIsReplacedWhole'
  <2> SUFFICES ASSUME NEW x \in Sources
               PROVE  LET i_1 == left'[x].by
                          whole == IF i_1 = Nothing THEN {} ELSE ChunkIds(x, job'[i_1].size)
                      IN  /\ \A id \in whole : id \in DOMAIN stored' /\ stored'[id] = i_1
                          /\ left'[x].whole => StoredOf(x)' = whole
    BY DEF DocumentIsReplacedWhole, ChunkIds
  <2>1. CASE x \in S
    BY <2>1 DEF Cleared, Clean
  <2>2. CASE x \notin S
    <3>1. left'[x] = left[x] /\ Untouched(x)
      BY <2>2
    <3>2. left[x].by # Nothing => job'[left[x].by].size = job[left[x].by].size
      BY DisturbedKeeps DEF RagDataOK, Job
    <3> QED
      BY <3>1, <3>2 DEF DocumentIsReplacedWhole, Untouched, StoredOf, ChunkIds
  <2> QED
    BY <2>1, <2>2
<1> QED
  BY <1>1, <1>2, <1>3, <1>4

\* An ingestion that ends without touching the store.
LEMMA EndingKeeps ==
    ASSUME RagInv, NEW i \in Ingestions, NEW end \in {"done", "failed"},
           job[i].at \in {"none", "cleared"},
           job' = [job EXCEPT ![i].at = end], UNCHANGED <<stored, left>>
    PROVE  RagInv'
<1> USE RagAssumption DEF RagInv
<1>1. RagDataOK'
  BY DEF RagDataOK, Job
<1>2. AloneMeansCleared'
  BY DEF AloneMeansCleared, RagDataOK, Job, StoredOf, Clean
<1>3. LastOneIsDone'
  BY DEF LastOneIsDone, RagDataOK, Job
<1>4. DocumentIsReplacedWhole'
  BY DEF DocumentIsReplacedWhole, LastOneIsDone, RagDataOK, Job, StoredOf, ChunkIds
<1> QED
  BY <1>1, <1>2, <1>3, <1>4

LEMMA RagStepKeepsInv == RagInv /\ [RagNext]_vars => RagInv'
<1> SUFFICES ASSUME RagInv, [RagNext]_vars PROVE RagInv'
  OBVIOUS
<1>1. CASE Drop
  <2>1. DOMAIN stored' = {}
    BY <1>1 DEF Drop
  <2>2. \A s \in Sources : Cleared(s)
    BY <2>1 DEF Cleared, StoredOf
  <2> QED
    BY <1>1, <2>1, <2>2, DeletionKeeps DEF Drop
<1>2. ASSUME NEW s \in Sources, DeleteDocument(s) PROVE RagInv'
  <2>1. Cleared(s) /\ \A x \in Sources \ {s} : Untouched(x)
    BY <1>2, DeleteClears DEF DeleteDocument
  <2>2. DOMAIN stored' \subseteq DOMAIN stored
    BY <1>2, DeleteRemovesTheDocument DEF DeleteDocument
  <2>3. left' = [x \in Sources |-> IF x \in {s} THEN Clean ELSE left[x]]
    BY <1>2 DEF DeleteDocument, RagInv, RagDataOK, Job
  <2> QED
    BY <1>2, <2>1, <2>2, <2>3, DeletionKeeps DEF DeleteDocument
<1>3. ASSUME NEW s \in Sources, NEW i \in Ingestions, NEW n \in 1..MaxChunks, Clear(i, s, n) PROVE RagInv'
  BY <1>3, ClearKeeps
<1>4. ASSUME NEW i \in Ingestions, FindNothing(i) PROVE RagInv'
  <2>1. job[i].at = "none" /\ job' = [job EXCEPT ![i].at = "done"] /\ UNCHANGED <<stored, left>>
    BY <1>4 DEF FindNothing, Idle
  <2> QED
    BY <2>1, EndingKeeps
<1>5. ASSUME NEW i \in Ingestions, Store(i) \/ StoreWithoutRows(i) PROVE RagInv'
  <2>1. PICK end \in {"done", "failed"} : Stores(i, end)
    BY <1>5 DEF Store, StoreWithoutRows
  <2> QED
    BY <2>1, StoreKeeps
<1>6. ASSUME NEW i \in Ingestions, Fail(i) PROVE RagInv'
  BY <1>6, EndingKeeps DEF Fail
<1>7. CASE UNCHANGED vars
  BY <1>7 DEF vars, RagInv, RagDataOK, Job, AloneMeansCleared, LastOneIsDone, DocumentIsReplacedWhole, StoredOf
<1> QED
  BY <1>1, <1>2, <1>3, <1>4, <1>5, <1>6, <1>7 DEF RagNext

\* Documents are replaced whole, for any number of documents, chunks and
\* ingestions that overlap, fail or meet deletions (ingest_text).
THEOREM DocumentsAreReplacedWhole == RagSpec => []DocumentIsReplacedWhole
<1>1. RagInv => DocumentIsReplacedWhole
  BY DEF RagInv
<1> QED
  BY <1>1, RagInitInv, RagStepKeepsInv, PTL DEF RagSpec

-----------------------------------------------------------------------------
(* The rows of FAISS                                                       *)

\* A chunk that has a row is found in one (order.index).
LEMMA RowIsOfTheChunk ==
    ASSUME NEW ids, Len(ids) \in Nat, NEW id, NEW q \in 1..Len(ids), ids[q] = id
    PROVE  RowOf(id, ids) \in 1..Len(ids) /\ ids[RowOf(id, ids)] = id
<1> DEFINE I == {p \in 1..Len(ids) : ids[p] = id}
<1>1. Min(I) \in I
  <2>1. I \in SUBSET Nat /\ I # {}
    OBVIOUS
  <2> HIDE DEF I
  <2> QED
    BY <2>1, MinOfNats
<1>2. RowOf(id, ids) = Min(I)
  BY DEF RowOf, SelectInSeq
<1> QED
  BY <1>1, <1>2

\* SetToSeq lists every element of a finite set, each once.
LEMMA ListsTheSet ==
    ASSUME NEW S, IsFiniteSet(S)
    PROVE  /\ SetToSeq(S) \in Seq(S) /\ Len(SetToSeq(S)) \in Nat
           /\ \A x \in S : \E k \in 1..Len(SetToSeq(S)) : SetToSeq(S)[k] = x
           /\ \A k, m \in 1..Len(SetToSeq(S)) : SetToSeq(S)[k] = SetToSeq(S)[m] => k = m
<1> DEFINE f == SetToSeq(S)
<1>1. Cardinality(S) \in Nat /\ ExistsBijection(1..Cardinality(S), S)
  BY FS_CardinalityType
<1>2. PICK g : g \in Bijection(1..Cardinality(S), S)
  BY <1>1 DEF ExistsBijection
<1>3. g \in [1..Cardinality(S) -> S] /\ IsInjective(g)
  BY <1>2 DEF Bijection, Injection, IsInjective
<1>4. f \in [1..Cardinality(S) -> S] /\ IsInjective(f)
  BY <1>3 DEF SetToSeq
<1>5. f \in Seq(S) /\ Len(f) = Cardinality(S) /\ DOMAIN f = 1..Len(f)
  BY <1>1, <1>4
<1>6. \A k, m \in 1..Len(f) : f[k] = f[m] => k = m
  BY <1>4, <1>5 DEF IsInjective
<1>7. {f[k] : k \in 1..Cardinality(S)} = S
  <2> DEFINE T == {f[k] : k \in 1..Cardinality(S)}
  <2>1. f \in Bijection(1..Cardinality(S), T)
    BY <1>4 DEF Bijection, Injection, Surjection, IsInjective
  <2>2. Cardinality(T) = Cardinality(S)
    BY <2>1, <1>1, FS_CountingElements DEF ExistsBijection
  <2>3. T \subseteq S
    BY <1>4
  <2> QED
    BY <2>2, <2>3, FS_Subset
<1> QED
  BY <1>1, <1>5, <1>6, <1>7

\* The row numbers that were ever given to a chunk.
Numbers(id) == {p \in 1..Len(order) : order[p] = id}

RowsOK ==
    /\ order \in Seq(Ids)
    /\ DOMAIN rows \subseteq 1..Len(order)
    /\ changes \in [Ids -> Nat]

\* A chunk has one row number until it is removed for the first time, and one
\* vector, or none if it was refused, until it is changed a second time.
Found(id) == id \in DOMAIN stored /\ id \notin bare

ChunkHasItsRows(id) ==
    /\ id \in DOMAIN stored => Numbers(id) # {}
    /\ Found(id) => \E p \in Vectors(id) : rows[p] = stored[id]
    /\ changes[id] = 0 =>
         IF id \in DOMAIN stored THEN \E p \in Numbers(id) : Numbers(id) = {p} ELSE Numbers(id) = {}
    /\ changes[id] <= 1 =>
         IF Found(id) THEN \E p \in Numbers(id) : Vectors(id) = {p} ELSE Vectors(id) = {}

RowsInv == RowsOK /\ \A id \in Ids : ChunkHasItsRows(id)

LEMMA RowsInvInit == RagInit => RowsInv
<1> SUFFICES ASSUME RagInit PROVE RowsInv
  OBVIOUS
<1>1. order = <<>> /\ DOMAIN rows = {} /\ DOMAIN stored = {} /\ changes = [id \in Ids |-> 0]
  BY DEF RagInit
<1> QED
  BY <1>1 DEF RowsInv, RowsOK, ChunkHasItsRows, Found, Numbers, Vectors

\* A stored chunk is found in one of its rows.
LEMMA StoredIsFound ==
    ASSUME RowsInv, NEW id \in Ids, id \in DOMAIN stored
    PROVE  RowOf(id, order) \in Numbers(id)
<1>1. PICK p \in Numbers(id) : TRUE
  BY DEF RowsInv, ChunkHasItsRows
<1>2. p \in 1..Len(order) /\ order[p] = id /\ Len(order) \in Nat
  BY <1>1 DEF Numbers, RowsInv, RowsOK
<1> QED
  BY <1>2, RowIsOfTheChunk DEF Numbers

LEMMA DeleteKeepsRows ==
    ASSUME RagDataOK, RowsInv, NEW s \in Sources, Delete(s)
    PROVE  RowsInv'
<1> DEFINE doomed == StoredOf(s)
           gone   == {RowOf(id, order) : id \in doomed}
<1>1. doomed \subseteq Ids /\ doomed \subseteq DOMAIN stored
  BY DEF StoredOf, RagDataOK
<1>2. \A id \in doomed : RowOf(id, order) \in Numbers(id)
  BY <1>1, StoredIsFound
<1>3. /\ order' = order /\ bare' = bare \ doomed
      /\ DOMAIN rows' = DOMAIN rows \ gone
      /\ \A p \in DOMAIN rows' : rows'[p] = rows[p]
  BY DEF Delete, DeleteRows, Without, Restrict
<1>4. /\ DOMAIN stored' = DOMAIN stored \ doomed
      /\ \A id \in DOMAIN stored' : stored'[id] = stored[id]
  BY DeleteRemovesTheDocument
<1>5. /\ changes' \in [Ids -> Nat]
      /\ \A id \in Ids : changes'[id] = IF id \in doomed THEN changes[id] + 1 ELSE changes[id]
  BY DEF Delete, RowsInv, RowsOK
<1>6. RowsOK'
  BY <1>3, <1>5 DEF RowsInv, RowsOK
<1>7. ASSUME NEW id \in Ids PROVE ChunkHasItsRows(id)'
  <2>1. Numbers(id)' = Numbers(id) /\ Vectors(id)' = Vectors(id) \ gone
    BY <1>3 DEF Numbers, Vectors
  <2>2. ChunkHasItsRows(id) /\ changes[id] \in Nat
    BY DEF RowsInv, RowsOK
  <2>3. CASE id \in doomed
    <3>1. id \notin DOMAIN stored' /\ ~Found(id)' /\ changes'[id] = changes[id] + 1 /\ id \in DOMAIN stored
      BY <2>3, <1>1, <1>4, <1>5 DEF Found
    <3>2. ASSUME changes[id] = 0 PROVE Vectors(id)' = {}
      <4>1. PICK p \in Numbers(id) : Numbers(id) = {p}
        BY <3>2, <3>1, <2>2 DEF ChunkHasItsRows
      <4>2. Vectors(id) \subseteq Numbers(id)
        BY DEF Vectors, Numbers, RowsInv, RowsOK
      <4>3. p \in gone
        BY <4>1, <1>2, <2>3
      <4> QED
        BY <4>1, <4>2, <4>3, <2>1
    <3>3. changes'[id] # 0 /\ (changes'[id] <= 1 => changes[id] = 0)
      BY <3>1, <2>2
    <3> QED
      BY <3>1, <3>2, <3>3 DEF ChunkHasItsRows
  <2>4. CASE id \notin doomed
    <3>1. Numbers(id) \cap gone = {}
      BY <2>4, <1>2 DEF Numbers
    <3>2. Vectors(id) \subseteq Numbers(id)
      BY DEF Vectors, Numbers, RowsInv, RowsOK
    <3>3. Vectors(id)' = Vectors(id) /\ \A p \in Vectors(id) : rows'[p] = rows[p]
      BY <3>1, <3>2, <2>1, <1>3 DEF Vectors
    <3>4. /\ changes'[id] = changes[id] /\ (id \in DOMAIN stored' <=> id \in DOMAIN stored)
          /\ id \in DOMAIN stored => stored'[id] = stored[id]
          /\ Found(id)' <=> Found(id)
      BY <2>4, <1>3, <1>4, <1>5 DEF Found
    <3>5. Found(id) => id \in DOMAIN stored
      BY DEF Found
    <3> QED
      BY <3>3, <3>4, <3>5, <2>1, <2>2 DEF ChunkHasItsRows
  <2> QED
    BY <2>3, <2>4
<1> QED
  BY <1>6, <1>7 DEF RowsInv

\* A chunk that is new gets one row number more, the others keep theirs.
LEMMA UpsertNumbers ==
    ASSUME RowsInv, NEW ids \in SUBSET Ids, IsFiniteSet(ids), NumberRows(ids)
    PROVE  /\ order' \in Seq(Ids)
           /\ Len(order) \in Nat /\ Len(order') \in Nat /\ Len(order) <= Len(order')
           /\ \A p \in 1..Len(order) : order'[p] = order[p]
           /\ \A id \in Ids : IF id \in ids \ DOMAIN stored
                              THEN \E q \in (Len(order) + 1)..Len(order') : Numbers(id)' = Numbers(id) \cup {q}
                              ELSE Numbers(id)' = Numbers(id)
<1> DEFINE new   == ids \ DOMAIN stored
           fresh == SetToSeq(new)
           n     == Len(order)
<1>1. IsFiniteSet(new)
  BY FS_Subset
<1>2. /\ fresh \in Seq(new) /\ Len(fresh) \in Nat
      /\ \A x \in new : \E k \in 1..Len(fresh) : fresh[k] = x
      /\ \A k, m \in 1..Len(fresh) : fresh[k] = fresh[m] => k = m
  BY <1>1, ListsTheSet
<1>3. order \in Seq(Ids) /\ n \in Nat /\ new \subseteq Ids /\ fresh \in Seq(Ids)
  BY <1>2 DEF RowsInv, RowsOK
<1>4. order' = order \o fresh
  BY DEF NumberRows
<1>5. /\ order' \in Seq(Ids) /\ Len(order') = n + Len(fresh)
      /\ \A p \in 1..n : order'[p] = order[p]
      /\ \A k \in 1..Len(fresh) : order'[n + k] = fresh[k]
  BY <1>2, <1>3, <1>4
<1>6. ASSUME NEW id \in Ids
      PROVE  IF id \in new THEN \E q \in (n + 1)..Len(order') : Numbers(id)' = Numbers(id) \cup {q}
             ELSE Numbers(id)' = Numbers(id)
  <2> DEFINE added == {p \in (n + 1)..(n + Len(fresh)) : order'[p] = id}
  <2>1. Numbers(id)' = Numbers(id) \cup added
    BY <1>2, <1>3, <1>5 DEF Numbers
  <2>2. ASSUME NEW p \in added
        PROVE  p - n \in 1..Len(fresh) /\ p = n + (p - n) /\ fresh[p - n] = id /\ id \in new
    <3>1. p - n \in 1..Len(fresh) /\ p = n + (p - n)
      BY <1>2, <1>3
    <3>2. fresh[p - n] = id
      BY <3>1, <1>5
    <3>3. fresh[p - n] \in new
      BY <3>1, <1>2, ElementOfSeq
    <3> QED
      BY <3>1, <3>2, <3>3
  <2>3. CASE id \in new
    <3>1. PICK k \in 1..Len(fresh) : fresh[k] = id
      BY <2>3, <1>2
    <3>2. n + k \in (n + 1)..(n + Len(fresh)) /\ order'[n + k] = id
      <4>1. n + k \in (n + 1)..(n + Len(fresh))
        BY <1>2, <1>3
      <4>2. order'[n + k] = id
        BY <3>1, <1>5
      <4> QED
        BY <4>1, <4>2
    <3>3. ASSUME NEW p \in added PROVE p = n + k
      BY <3>1, <3>3, <2>2, <1>2
    <3>4. added = {n + k}
      BY <3>2, <3>3
    <3> QED
      BY <2>1, <2>3, <3>2, <3>4, <1>5
  <2>4. CASE id \notin new
    <3>1. added = {}
      BY <2>2, <2>4
    <3> QED
      BY <2>1, <2>4, <3>1
  <2> QED
    BY <2>3, <2>4
<1>7. Len(order') \in Nat /\ n <= Len(order')
  BY <1>2, <1>3, <1>5
<1> HIDE DEF new, fresh
<1> QED
  BY <1>3, <1>5, <1>6, <1>7 DEF new

\* The rows that are replaced are rows of the chunks, one of each.
LEMMA ReplacedRows ==
    ASSUME RowsInv, NEW ids \in SUBSET Ids
    PROVE  /\ Replaced(ids) \subseteq 1..Len(order)
           /\ \A id \in Ids : Replaced(ids) \cap Numbers(id) =
                                 IF id \in ids \cap DOMAIN stored THEN {RowOf(id, order)} ELSE {}
<1>1. \A id \in ids \cap DOMAIN stored : RowOf(id, order) \in Numbers(id)
  BY StoredIsFound
<1>2. Replaced(ids) \subseteq 1..Len(order)
  BY <1>1 DEF Replaced, Numbers
<1>3. ASSUME NEW id \in Ids, NEW p \in Replaced(ids) \cap Numbers(id)
      PROVE  id \in ids \cap DOMAIN stored /\ p = RowOf(id, order)
  <2>1. PICK other \in ids \cap DOMAIN stored : p = RowOf(other, order)
    BY DEF Replaced
  <2>2. order[p] = other /\ order[p] = id
    BY <2>1, <1>1 DEF Numbers
  <2> QED
    BY <2>1, <2>2
<1>4. \A id \in Ids : id \in ids \cap DOMAIN stored => RowOf(id, order) \in Replaced(ids) \cap Numbers(id)
  BY <1>1 DEF Replaced
<1> QED
  BY <1>2, <1>3, <1>4

\* The records as the upsert leaves them, whatever becomes of the vectors.
LEMMA UpsertKeepsRows ==
    ASSUME RagDataOK, RowsInv, NEW i, NEW ids \in SUBSET Ids, IsFiniteSet(ids), UpsertRecords(i, ids),
           AddRows(i, ids) \/ RefuseRows(ids)
    PROVE  RowsInv'
<1> DEFINE n == Len(order)
<1>1. /\ order' \in Seq(Ids)
      /\ n \in Nat /\ Len(order') \in Nat /\ n <= Len(order')
      /\ \A p \in 1..n : order'[p] = order[p]
      /\ \A id \in Ids : IF id \in ids \ DOMAIN stored
                         THEN \E q \in (n + 1)..Len(order') : Numbers(id)' = Numbers(id) \cup {q}
                         ELSE Numbers(id)' = Numbers(id)
  BY UpsertNumbers DEF UpsertRecords
<1>2. PICK old : /\ old = Replaced(ids) /\ old \subseteq 1..n
                 /\ \A id \in Ids : old \cap Numbers(id) =
                                       IF id \in ids \cap DOMAIN stored THEN {RowOf(id, order)} ELSE {}
  BY ReplacedRows
<1>3. DOMAIN rows \subseteq 1..n
  BY DEF RowsInv, RowsOK
<1>4. /\ DOMAIN stored' = DOMAIN stored \cup ids
      /\ \A id \in ids : stored'[id] = i
      /\ \A id \in DOMAIN stored \ ids : stored'[id] = stored[id]
  BY UpsertStoresTheChunks
<1>5. /\ changes' \in [Ids -> Nat]
      /\ \A id \in Ids :
             changes'[id] = IF id \in ids \cap DOMAIN stored THEN changes[id] + 1 ELSE changes[id]
  BY DEF UpsertRecords, RowsInv, RowsOK
<1>6. ASSUME NEW id \in Ids
      PROVE  /\ ChunkHasItsRows(id) /\ changes[id] \in Nat
             /\ Vectors(id) \subseteq Numbers(id) /\ Numbers(id) \subseteq 1..n
             /\ id \in DOMAIN stored => RowOf(id, order) \in Numbers(id)
             /\ id \in DOMAIN stored /\ changes[id] = 0 => Numbers(id) = {RowOf(id, order)}
  <2>1. ChunkHasItsRows(id) /\ changes[id] \in Nat
    BY DEF RowsInv, RowsOK
  <2>2. Vectors(id) \subseteq Numbers(id) /\ Numbers(id) \subseteq 1..n
    BY <1>3 DEF Vectors, Numbers
  <2>3. id \in DOMAIN stored => RowOf(id, order) \in Numbers(id)
    BY StoredIsFound
  <2> QED
    BY <2>1, <2>2, <2>3 DEF ChunkHasItsRows
<1>7. CASE AddRows(i, ids)
  <2>1. /\ DOMAIN rows' = DOMAIN rows \cup old \cup (n + 1)..Len(order')
        /\ \A p \in DOMAIN rows' : rows'[p] = IF p \in old \/ p > n THEN i ELSE rows[p]
        /\ bare' = bare \ ids
    BY <1>2, <1>7 DEF AddRows
  <2>2. RowsOK'
    BY <1>1, <1>2, <1>3, <1>5, <2>1 DEF RowsOK
  <2>3. ASSUME NEW id \in Ids PROVE ChunkHasItsRows(id)'
    <3>1. Vectors(id)' = Vectors(id) \cup (old \cap Numbers(id)) \cup (Numbers(id)' \ Numbers(id))
      BY <1>1, <1>2, <1>3, <2>1 DEF Numbers, Vectors
    <3>2. CASE id \in ids \ DOMAIN stored
      <4>1. PICK q \in (n + 1)..Len(order') : Numbers(id)' = Numbers(id) \cup {q}
        BY <3>2, <1>1
      <4>2. q \notin Numbers(id) /\ rows'[q] = i
        BY <1>1, <1>6, <2>1
      <4>3. Vectors(id)' = Vectors(id) \cup {q}
        BY <3>1, <3>2, <4>1, <4>2, <1>2
      <4>4. Found(id)' /\ ~Found(id) /\ id \notin DOMAIN stored /\ stored'[id] = i /\ changes'[id] = changes[id]
        BY <3>2, <1>4, <1>5, <2>1 DEF Found
      <4>5. (changes[id] = 0 => Numbers(id) = {}) /\ (changes[id] <= 1 => Vectors(id) = {})
        BY <4>4, <1>6 DEF ChunkHasItsRows
      <4>6. Numbers(id)' # {} /\ q \in Numbers(id)' /\ q \in Vectors(id)'
        BY <4>1, <4>3
      <4>7. changes'[id] = 0 => Numbers(id)' = {q}
        BY <4>1, <4>4, <4>5
      <4>8. changes'[id] <= 1 => Vectors(id)' = {q}
        BY <4>3, <4>4, <4>5
      <4>9. id \in DOMAIN stored'
        BY <4>4 DEF Found
      <4> QED
        BY <4>2, <4>4, <4>6, <4>7, <4>8, <4>9 DEF ChunkHasItsRows
    <3>3. CASE id \in ids \cap DOMAIN stored
      <4>1. PICK r : r = RowOf(id, order)
        OBVIOUS
      <4>2. r \in Numbers(id) /\ old \cap Numbers(id) = {r} /\ Numbers(id)' = Numbers(id)
        BY <3>3, <4>1, <1>1, <1>2, <1>6
      <4>3. Vectors(id)' = Vectors(id) \cup {r}
        BY <3>1, <4>2
      <4>4. rows'[r] = i
        BY <4>2, <2>1
      <4>5. Found(id)' /\ stored'[id] = i /\ changes'[id] = changes[id] + 1
        BY <3>3, <1>4, <1>5, <2>1 DEF Found
      <4>6. changes[id] = 0 => Vectors(id)' = {r}
        BY <3>3, <4>1, <4>3, <1>6
      <4>7. changes'[id] # 0 /\ (changes'[id] <= 1 => changes[id] = 0)
        BY <4>5, <1>6
      <4> QED
        BY <4>2, <4>3, <4>4, <4>5, <4>6, <4>7 DEF ChunkHasItsRows
    <3>4. CASE id \notin ids
      <4>1. Numbers(id)' = Numbers(id) /\ Vectors(id)' = Vectors(id)
        BY <3>1, <3>4, <1>1, <1>2
      <4>2. \A p \in Vectors(id) : rows'[p] = rows[p]
        <5> SUFFICES ASSUME NEW p \in Vectors(id) PROVE rows'[p] = rows[p]
          OBVIOUS
        <5>1. p \notin old /\ p \in DOMAIN rows' /\ ~(p > n)
          BY <3>4, <1>1, <1>2, <1>6, <2>1 DEF Vectors
        <5> QED
          BY <5>1, <2>1
      <4>3. /\ changes'[id] = changes[id] /\ (id \in DOMAIN stored' <=> id \in DOMAIN stored)
            /\ id \in DOMAIN stored => stored'[id] = stored[id]
            /\ Found(id)' <=> Found(id)
        BY <3>4, <1>4, <1>5, <2>1 DEF Found
      <4>4. Found(id) => id \in DOMAIN stored
        BY DEF Found
      <4> QED
        BY <4>1, <4>2, <4>3, <4>4, <1>6 DEF ChunkHasItsRows
    <3> QED
      BY <3>2, <3>3, <3>4
  <2> QED
    BY <2>2, <2>3 DEF RowsInv
<1>8. CASE RefuseRows(ids)
  <2>1. /\ DOMAIN rows' = DOMAIN rows \ old
        /\ \A p \in DOMAIN rows' : rows'[p] = rows[p]
        /\ bare' = bare \cup ids
    BY <1>2, <1>8 DEF RefuseRows, Without, Restrict
  <2>2. RowsOK'
    BY <1>1, <1>3, <1>5, <2>1 DEF RowsOK
  <2>3. ASSUME NEW id \in Ids PROVE ChunkHasItsRows(id)'
    <3>1. Vectors(id)' = Vectors(id) \ old
      BY <1>1, <1>3, <2>1 DEF Vectors
    <3>2. CASE id \in ids \ DOMAIN stored
      <4>1. PICK q : Numbers(id)' = Numbers(id) \cup {q}
        BY <3>2, <1>1
      <4>2. ~Found(id)' /\ ~Found(id) /\ id \notin DOMAIN stored /\ id \in DOMAIN stored' /\ changes'[id] = changes[id]
        BY <3>2, <1>4, <1>5, <2>1 DEF Found
      <4>3. (changes[id] = 0 => Numbers(id) = {}) /\ (changes[id] <= 1 => Vectors(id) = {})
        BY <4>2, <1>6 DEF ChunkHasItsRows
      <4> QED
        BY <3>1, <4>1, <4>2, <4>3 DEF ChunkHasItsRows
    <3>3. CASE id \in ids \cap DOMAIN stored
      <4>1. ~Found(id)' /\ changes'[id] = changes[id] + 1 /\ Numbers(id)' = Numbers(id) /\ Numbers(id) # {}
        BY <3>3, <1>1, <1>4, <1>5, <1>6, <2>1 DEF Found
      <4>2. changes[id] = 0 => Vectors(id)' = {}
        BY <3>1, <3>3, <1>2, <1>6
      <4>3. changes'[id] # 0 /\ (changes'[id] <= 1 => changes[id] = 0)
        BY <4>1, <1>6
      <4> QED
        BY <4>1, <4>2, <4>3 DEF ChunkHasItsRows
    <3>4. CASE id \notin ids
      <4>1. Numbers(id)' = Numbers(id) /\ Vectors(id)' = Vectors(id)
        BY <3>1, <3>4, <1>1, <1>2, <1>6
      <4>2. \A p \in Vectors(id) : rows'[p] = rows[p]
        BY <4>1, <2>1 DEF Vectors
      <4>3. /\ changes'[id] = changes[id] /\ (id \in DOMAIN stored' <=> id \in DOMAIN stored)
            /\ id \in DOMAIN stored => stored'[id] = stored[id]
            /\ Found(id)' <=> Found(id)
        BY <3>4, <1>4, <1>5, <2>1 DEF Found
      <4>4. Found(id) => id \in DOMAIN stored
        BY DEF Found
      <4> QED
        BY <4>1, <4>2, <4>3, <4>4, <1>6 DEF ChunkHasItsRows
    <3> QED
      BY <3>2, <3>3, <3>4
  <2> QED
    BY <2>2, <2>3 DEF RowsInv
<1> QED
  BY <1>7, <1>8

LEMMA ChunkIdsAreFinite ==
    ASSUME NEW s \in Sources, NEW n \in 0..MaxChunks
    PROVE  ChunkIds(s, n) \subseteq Ids /\ IsFiniteSet(ChunkIds(s, n))
<1>1. ChunkIds(s, n) \subseteq Ids
  BY RagAssumption DEF ChunkIds, Ids, RagAssumption
<1>2. IsFiniteSet(1..n)
  BY FS_Interval, RagAssumption DEF RagAssumption
<1>3. [k \in 1..n |-> <<s, k>>] \in Surjection(1..n, ChunkIds(s, n))
  BY DEF Surjection, ChunkIds
<1>4. IsFiniteSet(ChunkIds(s, n))
  BY <1>2, <1>3, FS_Surjection
<1> QED
  BY <1>1, <1>4

LEMMA RowsStepKeepsInv == RagInv /\ RowsInv /\ [RagNext]_vars => RowsInv'
<1> SUFFICES ASSUME RagInv, RowsInv, [RagNext]_vars PROVE RowsInv'
  OBVIOUS
<1>0. RagDataOK
  BY DEF RagInv
<1>1. CASE Drop
  <2>1. order' = <<>> /\ DOMAIN rows' = {} /\ DOMAIN stored' = {} /\ changes' = [id \in Ids |-> 0]
    BY <1>1 DEF Drop
  <2> QED
    BY <2>1 DEF RowsInv, RowsOK, ChunkHasItsRows, Found, Numbers, Vectors
<1>2. ASSUME NEW s \in Sources, DeleteDocument(s) PROVE RowsInv'
  BY <1>0, <1>2, DeleteKeepsRows DEF DeleteDocument
<1>3. ASSUME NEW s \in Sources, NEW i \in Ingestions, NEW n \in 1..MaxChunks, Clear(i, s, n) PROVE RowsInv'
  BY <1>0, <1>3, DeleteKeepsRows DEF Clear
<1>4. ASSUME NEW i \in Ingestions, Store(i) \/ StoreWithoutRows(i) PROVE RowsInv'
  <2> DEFINE ids == ChunkIds(job[i].source, job[i].size)
  <2>1. job[i].source \in Sources /\ job[i].size \in 0..MaxChunks
    BY <1>0, <1>4 DEF Store, StoreWithoutRows, Stores, RagDataOK, Job
  <2>2. ids \in SUBSET Ids /\ IsFiniteSet(ids)
    BY <2>1, ChunkIdsAreFinite
  <2>3. UpsertRecords(i, ids) /\ (AddRows(i, ids) \/ RefuseRows(ids))
    BY <1>4 DEF Store, StoreWithoutRows, Stores
  <2> QED
    BY <1>0, <2>2, <2>3, UpsertKeepsRows
<1>5. CASE UNCHANGED <<stored, order, rows, bare, changes>>
  <2>1. stored' = stored /\ order' = order /\ rows' = rows /\ bare' = bare /\ changes' = changes
    BY <1>5
  <2>2. \A id : Numbers(id)' = Numbers(id) /\ Vectors(id)' = Vectors(id)
    BY <2>1 DEF Numbers, Vectors
  <2>3. RowsOK'
    BY <2>1 DEF RowsInv, RowsOK
  <2>4. ASSUME NEW id \in Ids PROVE ChunkHasItsRows(id)'
    <3>1. ChunkHasItsRows(id)
      BY DEF RowsInv
    <3> QED
      BY <2>1, <2>2, <3>1 DEF ChunkHasItsRows, Found
  <2> QED
    BY <2>3, <2>4 DEF RowsInv
<1> QED
  BY <1>1, <1>2, <1>3, <1>4, <1>5 DEF RagNext, FindNothing, Fail, vars

\* FAISS finds every chunk by its own vector unless the index refused it, and by no
\* other while the chunk was changed once at most, for any number of documents,
\* chunks and ingestions.
THEOREM ChunksKeepTheirVectors == RagSpec => []ChunksHaveTheirVectors
<1>1. ASSUME RowsInv PROVE ChunksHaveTheirVectors
  <2>1. Cardinality({}) = 0 /\ \A p : Cardinality({p}) = 1
    BY FS_EmptySet, FS_Singleton
  <2>2. ASSUME NEW id \in Ids
        PROVE  /\ Found(id) => \E p \in Vectors(id) : rows[p] = stored[id]
               /\ changes[id] <= 1 => Cardinality(Vectors(id)) = (IF Found(id) THEN 1 ELSE 0)
    <3>1. ChunkHasItsRows(id)
      BY <1>1 DEF RowsInv
    <3> QED
      BY <2>1, <3>1 DEF ChunkHasItsRows
  <2> QED
    BY <2>2 DEF ChunksHaveTheirVectors, Found
<1> QED
  BY <1>1, RagInitInv, RagStepKeepsInv, RowsInvInit, RowsStepKeepsInv, PTL DEF RagSpec
=============================================================================

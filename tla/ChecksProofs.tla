---------------------------- MODULE ChecksProofs ----------------------------
(***************************************************************************)
(* Proofs about what stands before and around a run, for all values of the *)
(* constants: the chunks of a text hold it (Chunking), test suites are     *)
(* reported as they ran (TestSuites), what the checks accept of a graph    *)
(* runs as it was drawn (GraphChecks), and the last two together, as       *)
(* MCChecks composes them.                                                 *)
(***************************************************************************)
EXTENDS CrewProofs, MCChecks, SequenceLemmas

-----------------------------------------------------------------------------
(***************************************************************************)
(* Cutting a text (Chunking)                                               *)
(***************************************************************************)

\* ChunkingInv says what is held so far: every character and every fact that begins
\* before the cursor.  TurnsAreBounded is what a turn may do, whatever the boundaries.

\* What is covered: every character before the cursor, and every fact that begins there.
CharactersAreHeld ==
    \A p \in 1..Len(body) : body[p] \notin White /\ (finished \/ p <= cursor) => InOneChunk(p - 1, p)

FactsAreHeld ==
    \A from, to \in 0..Len(body) :
        /\ from < to /\ to - from <= SureOverlap + 1
        /\ body[from + 1] \notin White
        /\ finished \/ from < cursor
        => InOneChunk(from, to)

ChunksInOrder ==
    /\ \A i \in 1..Len(chunks) : /\ chunks[i].end - chunks[i].start <= size
                                 /\ ~finished => chunks[i].start < cursor
    /\ \A i, j \in 1..Len(chunks) : i < j => chunks[i].start < chunks[j].start

ChunkingDataOK ==
    /\ body \in Seq(Characters)
    /\ size \in Nat /\ size > 1 /\ overlap \in Nat
    /\ cursor \in Nat /\ finished \in BOOLEAN
    /\ ~finished => cursor < Len(body)
    /\ chunks \in Seq([start : Nat, end : Nat])

ChunkingInv == ChunkingDataOK /\ ChunksInOrder /\ CharactersAreHeld /\ FactsAreHeld

LEMMA ChunkingInvSays == ChunkingInv => ChunksHoldTheText
  BY DEF ChunkingInv, ChunksInOrder, CharactersAreHeld, FactsAreHeld, ChunksHoldTheText,
         NothingIsLeftOut, FactsAreWholeSomewhere

LEMMA ChunkingInvInit == ChunkingInit => ChunkingInv
<1> SUFFICES ASSUME ChunkingInit PROVE ChunkingInv
  OBVIOUS
<1>1. /\ body \in Seq(Characters) /\ size \in Nat /\ size > 1 /\ overlap \in Nat
      /\ cursor = 0 /\ chunks = <<>> /\ finished = (body = <<>>)
  BY ChunkingAssumption DEF ChunkingAssumption, ChunkingInit
<1>2. /\ Len(body) \in Nat /\ finished \in BOOLEAN
      /\ ~finished => Len(body) > 0
      /\ finished => Len(body) = 0
  <2>1. finished \in BOOLEAN /\ (finished <=> body = <<>>)
    BY <1>1, Zenon
  <2>2. Len(body) \in Nat /\ (body # <<>> => Len(body) > 0) /\ (body = <<>> => Len(body) = 0)
    BY <1>1, EmptySeq
  <2> QED
    BY <2>1, <2>2
<1>3. chunks \in Seq([start : Nat, end : Nat]) /\ Len(chunks) = 0
  BY <1>1, EmptySeq
<1>4. ChunkingDataOK /\ ChunksInOrder
  BY <1>1, <1>2, <1>3 DEF ChunkingDataOK, ChunksInOrder
<1>5. CharactersAreHeld /\ FactsAreHeld
  BY <1>1, <1>2 DEF CharactersAreHeld, FactsAreHeld
<1> QED
  BY <1>4, <1>5 DEF ChunkingInv

-----------------------------------------------------------------------------
LEMMA MaxOfNats ==
    ASSUME NEW n \in Nat, NEW T \in SUBSET (0..n), T # {}
    PROVE  Max(T) \in T /\ \A y \in T : Max(T) >= y
<1> DEFINE U == {n - y : y \in T}
<1>1. \A y \in T : y \in 0..n /\ n - y \in Nat
  OBVIOUS
<1>2. U \in SUBSET Nat /\ U # {}
  BY <1>1
<1>3. PICK x \in U : \A y \in U : x <= y
  BY <1>2, LeastElement
<1>4. PICK z \in T : x = n - z
  OBVIOUS
<1>5. \A y \in T : n - y \in U
  OBVIOUS
<1>6. \A y \in T : n - z <= n - y
  BY <1>3, <1>4, <1>5
<1>7. \A y \in T : z >= y
  BY <1>1, <1>6
<1> QED
  BY <1>7 DEF Max

LEMMA MinOfTwo ==
    ASSUME NEW a \in Int, NEW b \in Int
    PROVE  Min({a, b}) = (IF a <= b THEN a ELSE b)
<1> DEFINE m == IF a <= b THEN a ELSE b
<1>1. m \in {a, b} /\ \A y \in {a, b} : m <= y
  OBVIOUS
<1>2. \A x \in {a, b} : (\A y \in {a, b} : x <= y) => x = m
  OBVIOUS
<1> HIDE DEF m
<1>3. Min({a, b}) = m
  BY <1>1, <1>2 DEF Min
<1> QED
  BY <1>3 DEF m

LEMMA MaxOfTwo ==
    ASSUME NEW a \in Int, NEW b \in Int
    PROVE  Max({a, b}) = (IF a >= b THEN a ELSE b)
<1> DEFINE m == IF a >= b THEN a ELSE b
<1>1. m \in {a, b} /\ \A y \in {a, b} : m >= y
  OBVIOUS
<1>2. \A x \in {a, b} : (\A y \in {a, b} : x >= y) => x = m
  OBVIOUS
<1> HIDE DEF m
<1>3. Max({a, b}) = m
  BY <1>1, <1>2 DEF Max
<1> QED
  BY <1>3 DEF m

\* A match ends within its window.
LEMMA EndsAreInside ==
    ASSUME NEW w, Len(w) \in Nat
    PROVE  /\ ParagraphEnds(w) \subseteq 1..Len(w) /\ SentenceEnds(w) \subseteq 1..Len(w)
           /\ LineEnds(w) \subseteq 1..Len(w) /\ WordEnds(w) \subseteq 1..Len(w)
<1>1. \A r \in Runs(w) : r[1] \in 1..Len(w) /\ r[2] \in 1..Len(w)
  BY DEF Runs
<1>2. SentenceEnds(w) \subseteq 1..Len(w) /\ WordEnds(w) \subseteq 1..Len(w)
  BY <1>1 DEF SentenceEnds, WordEnds
<1>3. LineEnds(w) \subseteq 1..Len(w)
  BY DEF LineEnds
<1>4. ASSUME NEW r \in Runs(w), Cardinality(Lines(w, r)) > 1
      PROVE  Max(Lines(w, r)) \in 1..Len(w)
  <2>1. Lines(w, r) # {}
    BY <1>4, FS_EmptySet
  <2>2. Lines(w, r) \subseteq 1..Len(w)
    BY <1>1 DEF Lines
  <2>3. Lines(w, r) \in SUBSET (0..Len(w))
    BY <2>2
  <2> QED
    BY <2>1, <2>2, <2>3, MaxOfNats
<1>5. ParagraphEnds(w) \subseteq 1..Len(w)
  BY <1>4 DEF ParagraphEnds
<1> QED
  BY <1>2, <1>3, <1>5

LEMMA SplitPointIsInWindow ==
    ASSUME NEW text \in Seq(Characters), NEW target \in Nat, NEW floor \in Nat,
           target <= Len(text), floor <= target
    PROVE  SplitPoint(text, target, floor) \in floor..target
<1> DEFINE w == SubSeq(text, 1, target)
<1>1. Len(w) = target
  BY LenProperties, SubSeqProperties
<1> HIDE DEF w
<1> DEFINE kinds == <<ParagraphEnds(w), SentenceEnds(w), LineEnds(w), WordEnds(w)>>
           near  == {i \in 1..4 : kinds[i] # {} /\ Max(kinds[i]) >= floor}
<1>2. \A i \in 1..4 : kinds[i] \subseteq 1..target
  BY <1>1, EndsAreInside
<1>3. SplitPoint(text, target, floor) = IF near = {} THEN target ELSE Max(kinds[Min(near)])
  BY DEF SplitPoint, w
<1> HIDE DEF kinds
<1>4. ASSUME near # {} PROVE Max(kinds[Min(near)]) \in floor..target
  <2>1. Min(near) \in near
    <3> near \in SUBSET Nat
      OBVIOUS
    <3> HIDE DEF near
    <3> QED
      BY <1>4, MinOfNats
  <2> DEFINE i == Min(near)
  <2>2. i \in 1..4 /\ kinds[i] # {} /\ Max(kinds[i]) >= floor
    BY <2>1
  <2> HIDE DEF i
  <2>3. kinds[i] \in SUBSET (0..target)
    BY <1>2, <2>2
  <2>4. Max(kinds[i]) \in kinds[i]
    BY <2>2, <2>3, MaxOfNats
  <2>5. Max(kinds[i]) \in floor..target
    BY <1>2, <2>2, <2>4
  <2> QED
    BY <2>5 DEF i
<1> QED
  BY <1>3, <1>4

LEMMA ResumePointIsWithinReach ==
    ASSUME body \in Seq(Characters), NEW ideal \in Nat \ {0}
    PROVE  ResumePoint(ideal) \in ideal..(ideal + LookAhead)
<1> DEFINE last == Min({ideal + LookAhead, Len(body)})
           w == SubSeq(body, ideal + 1, last)
<1>1. Len(body) \in Nat /\ LookAhead \in Nat /\ \A i \in 1..Len(body) : body[i] \in Characters
  BY LenProperties, ChunkingAssumption DEF ChunkingAssumption
<1>2. last \in Nat /\ last <= ideal + LookAhead /\ last <= Len(body)
  BY <1>1, MinOfTwo
<1> HIDE DEF last
<1>3. Len(w) \in Nat /\ Len(w) <= LookAhead
  <2>1. \A i \in (ideal + 1)..last : body[i] \in Characters
    BY <1>1, <1>2
  <2>2. Len(w) = IF ideal + 1 <= last THEN last - (ideal + 1) + 1 ELSE 0
    BY <1>2, <2>1, SubSeqProperties
  <2> HIDE DEF w
  <2> QED
    BY <1>1, <1>2, <2>2
<1> HIDE DEF w
<1> DEFINE kinds == <<SentenceEnds(w), LineEnds(w), WordEnds(w)>>
           there == {i \in 1..3 : kinds[i] # {}}
<1>4. \A i \in 1..3 : kinds[i] \subseteq 1..Len(w)
  BY <1>3, EndsAreInside
<1>5. ResumePoint(ideal) = IF there = {} THEN ideal ELSE ideal + Min(kinds[Min(there)])
  BY DEF ResumePoint, w, last
<1> HIDE DEF kinds
<1>6. ASSUME there # {} PROVE Min(kinds[Min(there)]) \in 1..LookAhead
  <2>1. Min(there) \in there
    <3> there \in SUBSET Nat
      OBVIOUS
    <3> HIDE DEF there
    <3> QED
      BY <1>6, MinOfNats
  <2> DEFINE i == Min(there)
  <2>2. i \in 1..3 /\ kinds[i] # {}
    BY <2>1
  <2> HIDE DEF i
  <2>3. kinds[i] \in SUBSET Nat
    BY <1>3, <1>4, <2>2
  <2>4. Min(kinds[i]) \in kinds[i]
    BY <2>2, <2>3, MinOfNats
  <2>5. Min(kinds[i]) \in 1..LookAhead
    BY <1>1, <1>3, <1>4, <2>2, <2>4
  <2> QED
    BY <2>5 DEF i
<1> QED
  BY <1>1, <1>5, <1>6

\* A turn takes at least one character and, unless it takes the rest, half a chunk; the
\* next one begins behind this one's beginning, before its end, and no further from it than
\* overlap and search allow.
LEMMA TurnsAreBounded ==
    ASSUME ChunkingDataOK, ~finished
    PROVE  /\ Rest \in Seq(Characters) /\ Len(Rest) = Len(body) - cursor
           /\ \A i \in 1..(Len(body) - cursor) : Rest[i] = body[cursor + i]
           /\ Taken \in 1..size /\ cursor + Taken <= Len(body)
           /\ cursor + Taken < Len(body) => Taken >= size \div 2
           /\ NextCursor(Taken) \in (cursor + 1)..(cursor + Taken)
           /\ Taken > overlap => NextCursor(Taken) <= cursor + (Taken - overlap) + LookAhead
           /\ Taken <= overlap => NextCursor(Taken) <= cursor + 1 + LookAhead
<1>1. /\ body \in Seq(Characters) /\ Len(body) \in Nat /\ cursor \in Nat /\ cursor < Len(body)
      /\ size \in Nat /\ size > 1 /\ overlap \in Nat /\ LookAhead \in Nat
      /\ \A i \in 1..Len(body) : body[i] \in Characters
  BY LenProperties, ChunkingAssumption DEF ChunkingDataOK, ChunkingAssumption
<1>2. /\ Rest \in Seq(Characters) /\ Len(Rest) = Len(body) - cursor
      /\ \A i \in 1..(Len(body) - cursor) : Rest[i] = body[cursor + i]
  <2>1. \A i \in (cursor + 1)..Len(body) : body[i] \in Characters
    BY <1>1
  <2>2. /\ Rest \in Seq(Characters)
        /\ Len(Rest) = IF cursor + 1 <= Len(body) THEN Len(body) - (cursor + 1) + 1 ELSE 0
        /\ \A i \in 1..(Len(body) - (cursor + 1) + 1) : Rest[i] = body[(cursor + 1) + i - 1]
    BY <1>1, <2>1, SubSeqProperties DEF Rest
  <2> QED
    BY <1>1, <2>2
<1>3. /\ Taken \in 1..size /\ cursor + Taken <= Len(body)
      /\ cursor + Taken < Len(body) => Taken >= size \div 2
  <2>1. CASE Len(Rest) <= size
    BY <1>1, <1>2, <2>1 DEF Taken
  <2>2. CASE ~(Len(Rest) <= size)
    <3>1. size \div 2 \in Nat /\ size \div 2 >= 1 /\ size \div 2 <= size
      BY <1>1
    <3>2. Taken \in (size \div 2)..size
      <4>1. PICK floor : floor = size \div 2
        OBVIOUS
      <4>2. size \in Nat /\ floor \in Nat /\ floor <= size /\ size <= Len(Rest) /\ Rest \in Seq(Characters)
        BY <1>1, <1>2, <2>2, <3>1, <4>1
      <4>3. SplitPoint(Rest, size, floor) \in floor..size
        BY <4>2, SplitPointIsInWindow
      <4> QED
        BY <2>2, <4>1, <4>3 DEF Taken
    <3> QED
      BY <1>1, <1>2, <2>2, <3>1, <3>2
  <2> QED
    BY <2>1, <2>2
<1> DEFINE taken == Taken
           step  == Max({1, taken - overlap})
           point == ResumePoint(cursor + step)
<1>4. taken \in Nat /\ taken >= 1
  BY <1>1, <1>3
<1> HIDE DEF taken
<1>5. step = IF taken > overlap THEN taken - overlap ELSE 1
  BY <1>1, <1>4, MaxOfTwo
<1> HIDE DEF step
<1>6. cursor + step \in Nat \ {0}
  BY <1>1, <1>4, <1>5
<1>7. point \in (cursor + step)..(cursor + step + LookAhead)
  BY <1>1, <1>6, ResumePointIsWithinReach
<1> HIDE DEF point
<1> DEFINE before == Min({point, cursor + taken})
<1>8. before = IF point <= cursor + taken THEN point ELSE cursor + taken
  BY <1>1, <1>4, <1>6, <1>7, MinOfTwo
<1> HIDE DEF before
<1>9. Max({cursor + 1, before}) = IF cursor + 1 >= before THEN cursor + 1 ELSE before
  BY <1>1, <1>4, <1>6, <1>7, <1>8, MaxOfTwo
<1>10. NextCursor(taken) = Max({cursor + 1, before})
  BY DEF NextCursor, before, point, step
<1>11. /\ NextCursor(taken) \in (cursor + 1)..(cursor + taken)
       /\ taken > overlap => NextCursor(taken) <= cursor + (taken - overlap) + LookAhead
       /\ taken <= overlap => NextCursor(taken) <= cursor + 1 + LookAhead
  BY <1>1, <1>4, <1>5, <1>6, <1>7, <1>8, <1>9, <1>10
<1> QED
  BY <1>2, <1>3, <1>11 DEF taken

\* What a chunk holds stays held.
LEMMA HeldStaysHeld ==
    ASSUME ChunkingDataOK, NEW c \in [start : Nat, end : Nat], chunks' \in {chunks, Append(chunks, c)}
    PROVE  /\ chunks' \in Seq([start : Nat, end : Nat])
           /\ Len(chunks) \in Nat
           /\ Len(chunks') = (IF chunks' = chunks THEN Len(chunks) ELSE Len(chunks) + 1)
           /\ \A i \in 1..Len(chunks) : i \in 1..Len(chunks') /\ chunks'[i] = chunks[i]
           /\ \A i \in 1..Len(chunks') : i \in 1..Len(chunks) \/ chunks'[i] = c
           /\ \A from, to : InOneChunk(from, to) => InOneChunk(from, to)'
<1> DEFINE Chunk == [start : Nat, end : Nat]
<1>1. chunks \in Seq(Chunk) /\ Len(chunks) \in Nat
  BY LenProperties DEF ChunkingDataOK
<1>2. c \in Chunk
  OBVIOUS
<1> HIDE DEF Chunk
<1>3. /\ Append(chunks, c) \in Seq(Chunk) /\ Len(Append(chunks, c)) = Len(chunks) + 1
      /\ \A i \in 1..Len(chunks) : Append(chunks, c)[i] = chunks[i]
      /\ Append(chunks, c)[Len(chunks) + 1] = c
  BY <1>1, <1>2, AppendProperties
<1>4. CASE chunks' = chunks
  BY <1>1, <1>4 DEF Chunk, InOneChunk
<1>5. CASE chunks' # chunks
  <2>1. chunks' = Append(chunks, c)
    BY <1>5
  <2>2. /\ chunks' \in Seq(Chunk) /\ Len(chunks') = Len(chunks) + 1
        /\ \A i \in 1..Len(chunks) : i \in 1..Len(chunks') /\ chunks'[i] = chunks[i]
        /\ \A i \in 1..Len(chunks') : i \in 1..Len(chunks) \/ chunks'[i] = c
    BY <1>1, <1>3, <2>1
  <2>3. \A from, to : InOneChunk(from, to) => InOneChunk(from, to)'
    BY <2>2 DEF InOneChunk
  <2> QED
    BY <1>1, <1>5, <2>2, <2>3 DEF Chunk
<1> QED
  BY <1>4, <1>5

LEMMA StartsAreNumbers ==
    ASSUME NEW seq \in Seq([start : Nat, end : Nat])
    PROVE  \A i \in 1..Len(seq) : seq[i].start \in Nat
<1> DEFINE Chunk == [start : Nat, end : Nat]
<1>1. \A c \in Chunk : c.start \in Nat
  OBVIOUS
<1>2. seq \in Seq(Chunk)
  OBVIOUS
<1> HIDE DEF Chunk
<1> QED
  BY <1>1, <1>2, ElementOfSeq

LEMMA CutKeepsInv == ChunkingInv /\ Cut => ChunkingInv'
<1> SUFFICES ASSUME ChunkingInv, Cut PROVE ChunkingInv'
  OBVIOUS
<1> DEFINE taken == Taken
           next  == NextCursor(taken)
<1>1. /\ ChunkingDataOK /\ ChunksInOrder /\ CharactersAreHeld /\ FactsAreHeld
      /\ ~finished
  BY DEF ChunkingInv, Cut
<1>2. /\ body \in Seq(Characters) /\ Len(body) \in Nat /\ cursor \in Nat /\ cursor < Len(body)
      /\ size \in Nat /\ size > 1 /\ overlap \in Nat /\ LookAhead \in Nat
  BY <1>1, LenProperties, ChunkingAssumption DEF ChunkingDataOK, ChunkingAssumption
<1>3. /\ \A i \in 1..(Len(body) - cursor) : Rest[i] = body[cursor + i]
      /\ taken \in 1..size /\ cursor + taken <= Len(body)
      /\ cursor + taken < Len(body) => taken >= size \div 2
      /\ next \in (cursor + 1)..(cursor + taken)
      /\ taken > overlap => next <= cursor + (taken - overlap) + LookAhead
      /\ taken <= overlap => next <= cursor + 1 + LookAhead
  BY <1>1, TurnsAreBounded
<1>4. /\ chunks' = (IF \E i \in 1..taken : Rest[i] \notin White
                    THEN Append(chunks, [start |-> cursor, end |-> cursor + taken]) ELSE chunks)
      /\ finished' = (cursor + taken >= Len(body))
      /\ cursor' = (IF finished' THEN cursor ELSE next)
      /\ body' = body /\ size' = size /\ overlap' = overlap
  BY DEF Cut
<1> HIDE DEF taken, next
<1>5. PICK c : c = [start |-> cursor, end |-> cursor + taken]
  OBVIOUS
<1>6. c \in [start : Nat, end : Nat] /\ c.start = cursor /\ c.end = cursor + taken
  BY <1>2, <1>3, <1>5
<1>7. chunks' \in {chunks, Append(chunks, c)}
  BY <1>4, <1>5
<1>8. /\ chunks' \in Seq([start : Nat, end : Nat])
      /\ Len(chunks) \in Nat
      /\ Len(chunks') = (IF chunks' = chunks THEN Len(chunks) ELSE Len(chunks) + 1)
      /\ \A i \in 1..Len(chunks) : i \in 1..Len(chunks') /\ chunks'[i] = chunks[i]
      /\ \A i \in 1..Len(chunks') : i \in 1..Len(chunks) \/ chunks'[i] = c
      /\ \A from, to : InOneChunk(from, to) => InOneChunk(from, to)'
  BY <1>1, <1>6, <1>7, HeldStaysHeld
<1>9. finished' \in BOOLEAN /\ (finished' <=> cursor + taken >= Len(body))
  <2> DEFINE over == cursor + taken >= Len(body)
  <2>1. over \in BOOLEAN
    OBVIOUS
  <2>2. finished' = over
    BY <1>4
  <2> HIDE DEF over
  <2>3. finished' \in BOOLEAN /\ (finished' <=> over)
    BY <2>1, <2>2
  <2> QED
    BY <2>3 DEF over
<1>10. cursor' \in Nat /\ (~finished' => cursor' = next /\ cursor' < Len(body))
  BY <1>2, <1>3, <1>4, <1>9
<1>11. ChunkingDataOK'
  BY <1>1, <1>4, <1>8, <1>9, <1>10 DEF ChunkingDataOK
<1>12. \A i \in 1..Len(chunks) : chunks[i].start \in Nat
  <2> chunks \in Seq([start : Nat, end : Nat])
    BY <1>1 DEF ChunkingDataOK
  <2> QED
    BY StartsAreNumbers
<1>13. \A i \in 1..Len(chunks') : chunks'[i].start \in Nat
  BY <1>8, StartsAreNumbers
<1>14. ChunksInOrder'
  <2>1. ASSUME NEW i \in 1..Len(chunks')
        PROVE  /\ chunks'[i].end - chunks'[i].start <= size
               /\ chunks'[i].start <= cursor
               /\ i \in 1..Len(chunks) => chunks'[i].start < cursor
    <3>1. CASE i \in 1..Len(chunks)
      <4>1. chunks'[i] = chunks[i] /\ chunks[i].start < cursor /\ chunks[i].end - chunks[i].start <= size
        BY <1>1, <1>8, <3>1 DEF ChunksInOrder
      <4>2. chunks[i].start \in Nat
        BY <1>12, <3>1
      <4> QED
        BY <1>2, <4>1, <4>2
    <3>2. CASE i \notin 1..Len(chunks)
      BY <1>2, <1>3, <1>6, <1>8, <3>2
    <3> QED
      BY <3>1, <3>2
  <2>2. ASSUME NEW i \in 1..Len(chunks'), NEW j \in 1..Len(chunks'), i < j
        PROVE  chunks'[i].start < chunks'[j].start
    <3>1. CASE j \in 1..Len(chunks)
      <4>1. i \in 1..Len(chunks)
        BY <2>2, <3>1
      <4> QED
        BY <1>1, <1>8, <2>2, <3>1, <4>1 DEF ChunksInOrder
    <3>2. CASE j \notin 1..Len(chunks)
      <4>1. chunks'[j] = c /\ i \in 1..Len(chunks)
        BY <1>8, <2>2, <3>2
      <4> QED
        BY <1>6, <2>1, <4>1
    <3> QED
      BY <3>1, <3>2
  <2>3. ASSUME NEW i \in 1..Len(chunks'), ~finished' PROVE chunks'[i].start < cursor'
    <3>1. chunks'[i].start \in Nat
      BY <1>13
    <3>2. cursor < cursor'
      BY <1>2, <1>3, <1>10, <2>3
    <3> QED
      BY <1>2, <1>10, <2>1, <3>1, <3>2
  <2> QED
    BY <1>4, <2>1, <2>2, <2>3 DEF ChunksInOrder
<1>15. ASSUME NEW from \in 0..Len(body), NEW to \in 0..Len(body), from < to,
              from >= cursor, to <= cursor + taken, body[from + 1] \notin White
       PROVE  InOneChunk(from, to)'
  <2>1. /\ from + 1 - cursor \in 1..taken /\ from + 1 - cursor \in 1..(Len(body) - cursor)
        /\ cursor + (from + 1 - cursor) = from + 1
    BY <1>2, <1>3, <1>15
  <2>2. Rest[from + 1 - cursor] = body[from + 1]
    BY <1>3, <2>1
  <2>3. chunks' = Append(chunks, c)
    BY <1>4, <1>5, <1>15, <2>1, <2>2
  <2>4. /\ Len(chunks) + 1 \in 1..Len(chunks') /\ chunks'[Len(chunks) + 1] = c
    <3>1. Len(chunks') = Len(chunks) + 1 /\ chunks'[Len(chunks) + 1] = c
      BY <1>1, <1>6, <2>3, AppendProperties DEF ChunkingDataOK
    <3> QED
      BY <1>8, <3>1
  <2> QED
    BY <1>6, <1>15, <2>4 DEF InOneChunk
<1>16. CharactersAreHeld'
  <2> SUFFICES ASSUME NEW p \in 1..Len(body), body[p] \notin White, finished' \/ p <= cursor'
               PROVE  InOneChunk(p - 1, p)'
    BY <1>4 DEF CharactersAreHeld
  <2>1. CASE p <= cursor
    BY <1>1, <1>8, <2>1 DEF CharactersAreHeld
  <2>2. CASE p > cursor
    <3>1. p - 1 \in 0..Len(body) /\ p \in 0..Len(body) /\ p - 1 < p /\ p - 1 >= cursor /\ (p - 1) + 1 = p
      BY <1>2, <2>2
    <3>2. p <= cursor + taken
      BY <1>2, <1>3, <1>9, <1>10
    <3> QED
      BY <1>15, <3>1, <3>2
  <2> QED
    BY <1>2, <2>1, <2>2
<1>17. FactsAreHeld'
  <2> DEFINE half == size \div 2
             sure == Min({overlap, half - 1})
  <2>1. half \in Nat /\ half >= 1
    BY <1>2
  <2>2. SureOverlap = sure - LookAhead /\ SureOverlap' = sure - LookAhead
    BY <1>4 DEF SureOverlap
  <2>3. cursor + taken < Len(body) => taken >= half
    BY <1>3
  <2> HIDE DEF half
  <2>4. sure \in Int /\ sure <= overlap /\ sure <= half - 1
    BY <1>2, <2>1, MinOfTwo
  <2> HIDE DEF sure
  <2> SUFFICES ASSUME NEW from \in 0..Len(body), NEW to \in 0..Len(body), from < to,
                      to - from <= SureOverlap + 1, body[from + 1] \notin White,
                      finished' \/ from < cursor'
               PROVE  InOneChunk(from, to)'
    BY <1>4, <2>2 DEF FactsAreHeld
  <2>5. CASE from < cursor
    BY <1>1, <1>8, <2>5 DEF FactsAreHeld
  <2>6. CASE from >= cursor
    <3>1. CASE finished'
      BY <1>2, <1>3, <1>9, <1>15, <2>6, <3>1
    <3>2. CASE ~finished'
      <4>1. from < next /\ taken >= half
        BY <1>2, <1>3, <1>9, <1>10, <2>1, <2>3, <3>2
      <4>2. to - from <= sure - LookAhead + 1
        BY <2>2
      <4>3. to <= cursor + taken
        <5>1. /\ from \in Int /\ to \in Int /\ cursor \in Int /\ taken \in Int /\ next \in Int
              /\ half \in Int /\ overlap \in Int /\ LookAhead \in Int
          BY <1>2, <1>3, <2>1
        <5>2. CASE taken > overlap
          <6>1. next <= cursor + (taken - overlap) + LookAhead
            BY <1>3, <5>2
          <6>2. from + 1 <= cursor + (taken - overlap) + LookAhead
            BY <4>1, <5>1, <6>1
          <6>3. to - from <= overlap - LookAhead + 1
            BY <2>4, <4>2, <5>1
          <6> QED
            BY <5>1, <6>2, <6>3
        <5>3. CASE taken <= overlap
          <6>1. next <= cursor + 1 + LookAhead
            BY <1>3, <5>3
          <6>2. from + 1 <= cursor + 1 + LookAhead
            BY <4>1, <5>1, <6>1
          <6>3. to - from <= half - 1 - LookAhead + 1 /\ taken >= half
            BY <2>4, <4>1, <4>2, <5>1
          <6> QED
            BY <5>1, <6>2, <6>3
        <5> QED
          BY <5>1, <5>2, <5>3
      <4> QED
        BY <1>15, <2>6, <4>3
    <3> QED
      BY <3>1, <3>2
  <2> QED
    BY <1>2, <2>5, <2>6
<1> QED
  BY <1>11, <1>14, <1>16, <1>17 DEF ChunkingInv

\* Every character that is not white is in a chunk, chunks are no longer than asked for and
\* in order, and a fact that is no longer than what is sure of the overlap is whole in one
\* (chunk_text), for every text, size, overlap and reach of the search.
THEOREM ChunksAlwaysHoldTheText == ChunkingSpec => []ChunksHoldTheText
<1>1. ChunkingInv /\ [Cut]_chunkVars => ChunkingInv'
  <2>1. ASSUME ChunkingInv, UNCHANGED chunkVars PROVE ChunkingInv'
    <3>1. /\ body' = body /\ size' = size /\ overlap' = overlap /\ cursor' = cursor
          /\ chunks' = chunks /\ finished' = finished
      BY <2>1 DEF chunkVars
    <3>2. ChunkingDataOK' /\ ChunksInOrder'
      BY <2>1, <3>1 DEF ChunkingInv, ChunkingDataOK, ChunksInOrder
    <3>3. CharactersAreHeld' /\ FactsAreHeld'
      BY <2>1, <3>1 DEF ChunkingInv, CharactersAreHeld, FactsAreHeld, InOneChunk, SureOverlap
    <3> QED
      BY <3>2, <3>3 DEF ChunkingInv
  <2> QED
    BY <2>1, CutKeepsInv
<1> QED
  BY <1>1, ChunkingInvInit, ChunkingInvSays, PTL DEF ChunkingSpec

-----------------------------------------------------------------------------
(***************************************************************************)
(* Test suites (TestSuites)                                                *)
(***************************************************************************)

\* RunsAreTheirResults is the end of Due, what a request under way owes: the results it
\* has are those of the cases it took first, in their order, and its counts are theirs.
\* The results are a parameter, since a step records several before it comes to an await.

\* Places of the results rs.
PlacesOf(rs, r) == {i \in 1..Len(rs) : rs[i].run = r}
Ones(rs, places, status) == {i \in places : rs[i].status = status}
Counted == {"passed", "failed", "error"}
Tally(rs, places) == <<Cardinality(Ones(rs, places, "passed")), Cardinality(Ones(rs, places, "failed")),
                       Cardinality(Ones(rs, places, "error"))>>

\* The results at these places are of the cases taken first.
Told(rs, places, taken) ==
    \A i \in places : /\ rs[i].asked = taken[Rank(i, places)]
                      /\ rs[i].asked.enabled /\ rs[i].status # "skipped"

Due(rs, r, todo, counts, taken) ==
    /\ todo \in Seq(Case) /\ taken \in Seq(Case)
    /\ Len(taken) = Cardinality(PlacesOf(rs, r)) + Len(todo)
    /\ \A j \in 1..Len(todo) : todo[j] = taken[Cardinality(PlacesOf(rs, r)) + j] /\ todo[j].enabled
    /\ Told(rs, PlacesOf(rs, r), taken)
    /\ counts = Tally(rs, PlacesOf(rs, r))

\* Of a request q with the id r, and of a stored run.
RequestTells(rs, runs, r, q) ==
    /\ q.at = "idle" => PlacesOf(rs, r) = {}
    /\ q.at \in {"idle", "running"} => \A s \in runs : s.id # r
    /\ q.at = "running" => q.suite \in BOOLEAN /\ q.todo # <<>> /\ Due(rs, r, q.todo, q.counts, q.taken)

RunTells(rs, s) ==
    /\ s.total = Cardinality(PlacesOf(rs, s.id))
    /\ Told(rs, PlacesOf(rs, s.id), s.taken)
    /\ s.counts = Tally(rs, PlacesOf(rs, s.id))
    /\ s.status = "error" <=> Ones(rs, PlacesOf(rs, s.id), "error") # {}
    /\ s.status = "passed" <=> Ones(rs, PlacesOf(rs, s.id), "passed") = PlacesOf(rs, s.id)

VerdictFits(x) ==
    /\ x.status = "passed" => x.asked.expects \subseteq x.bears
    /\ x.status = "failed" => ~(x.asked.expects \subseteq x.bears)
    /\ x.status = "skipped" <=> ~x.asked.enabled

\* Results, stored runs and requests are as they should be, but for the requests in some.
AllTell(rs, runs, requests, some) ==
    /\ rs \in Seq(Result)
    /\ \A i \in 1..Len(rs) : VerdictFits(rs[i])
    /\ \A r \in Requests \ some : RequestTells(rs, runs, r, requests[r])
    /\ \A s \in runs : RunTells(rs, s)

SuitesInv ==
    /\ cases \in Seq(Case) /\ given \in Nat
    /\ request = [r \in Requests |-> request[r]]
    /\ AllTell(results, testRuns, request, {})

\* Those(s, places) has elements that s has at the places.
LEMMA ThoseAre ==
    ASSUME NEW T, NEW s \in Seq(T), NEW places
    PROVE  /\ Those(s, places) \in Seq(T)
           /\ \A j \in 1..Len(Those(s, places)) :
                 \E i \in 1..Len(s) : i \in places /\ Those(s, places)[j] = s[i]
<1>1. PICK ss : ss = [i \in 1..Len(s) |-> IF i \in places THEN <<s[i]>> ELSE <<>>]
  OBVIOUS
<1>2. Len(s) \in Nat /\ \A i \in 1..Len(s) : s[i] \in T
  BY LenProperties, ElementOfSeq
<1>3. /\ ss \in Seq(Seq(T)) /\ DOMAIN ss = 1..Len(s)
      /\ \A i \in 1..Len(s) : ss[i] = IF i \in places THEN <<s[i]>> ELSE <<>>
  BY <1>1, <1>2
<1>4. PICK t : t = FlattenSeq(ss)
  OBVIOUS
<1>5. t \in Seq(T) /\ ToSet(t) = UNION {ToSet(ss[i]) : i \in 1..Len(s)}
  BY <1>3, <1>4, FlattenedHas
<1>6. ASSUME NEW j \in 1..Len(t) PROVE \E i \in 1..Len(s) : i \in places /\ t[j] = s[i]
  <2>1. t[j] \in ToSet(t)
    BY <1>5 DEF ToSet
  <2>2. PICK i \in 1..Len(s) : t[j] \in ToSet(ss[i])
    BY <1>5, <2>1
  <2>3. i \in places /\ ss[i] = <<s[i]>>
    <3>1. CASE i \in places
      BY <1>3, <3>1
    <3>2. CASE i \notin places
      <4>1. ss[i] = <<>>
        BY <1>3, <3>2
      <4> QED
        BY <2>2, <4>1 DEF ToSet
    <3> QED
      BY <3>1, <3>2
  <2>4. t[j] = s[i]
    BY <2>2, <2>3 DEF ToSet
  <2> QED
    BY <2>3, <2>4
<1>7. Those(s, places) = t
  BY <1>1, <1>4 DEF Those
<1> QED
  BY <1>5, <1>6, <1>7

-----------------------------------------------------------------------------
(* Places                                                                  *)

LEMMA PlacesAreFinite ==
    ASSUME NEW rs \in Seq(Result), NEW r
    PROVE  /\ Len(rs) \in Nat /\ PlacesOf(rs, r) \subseteq 1..Len(rs)
           /\ IsFiniteSet(PlacesOf(rs, r)) /\ Cardinality(PlacesOf(rs, r)) \in Nat
<1>1. Len(rs) \in Nat /\ 1 \in Int /\ Len(rs) \in Int
  BY LenProperties
<1>2. IsFiniteSet(1..Len(rs))
  BY <1>1, FS_Interval
<1>3. PlacesOf(rs, r) \in SUBSET (1..Len(rs))
  BY DEF PlacesOf
<1>4. IsFiniteSet(PlacesOf(rs, r))
  BY <1>2, <1>3, FS_Subset
<1> QED
  BY <1>1, <1>3, <1>4, FS_CardinalityType

\* k more places than those up to n.
LEMMA MorePlaces ==
    ASSUME NEW n \in Nat, NEW M \in SUBSET (1..n), NEW k \in Nat
    PROVE  /\ IsFiniteSet(M \cup (n + 1)..(n + k)) /\ Cardinality(M) \in Nat
           /\ Cardinality(M \cup (n + 1)..(n + k)) = Cardinality(M) + k
<1>1. n + 1 \in Int /\ n + k \in Int /\ 1 \in Int /\ n \in Int
  OBVIOUS
<1>2. IsFiniteSet(1..n)
  BY <1>1, FS_Interval
<1>3. IsFiniteSet(M) /\ Cardinality(M) \in Nat
  BY <1>2, FS_Subset, FS_CardinalityType
<1>4. PICK e : e = (n + 1)..(n + k)
  OBVIOUS
<1>5. IsFiniteSet(e)
  BY <1>1, <1>4, FS_Interval
<1>6. Cardinality(e) = IF n + 1 > n + k THEN 0 ELSE (n + k) - (n + 1) + 1
  BY <1>1, <1>4, FS_Interval
<1>7. Cardinality(e) = k
  BY <1>6
<1>8. M \cap e = {}
  BY <1>4
<1>9. Cardinality(M \cap e) = 0
  BY <1>8, FS_EmptySet
<1>10. /\ IsFiniteSet(M \cup e)
       /\ Cardinality(M \cup e) = Cardinality(M) + Cardinality(e) - Cardinality(M \cap e)
  BY <1>3, <1>5, FS_Union
<1> QED
  BY <1>3, <1>4, <1>7, <1>9, <1>10

\* N is M and k places after those.
Follow(M, N, n, k) ==
    n \in Nat /\ k \in Nat /\ M \in SUBSET (1..n) /\ N = M \cup (n + 1)..(n + k)

LEMMA RankKept ==
    ASSUME NEW M, NEW N, NEW n, NEW k, NEW i \in M, Follow(M, N, n, k)
    PROVE  Rank(i, N) = Rank(i, M)
<1>1. {l \in N : l <= i} = {l \in M : l <= i}
  BY DEF Follow
<1> QED
  BY <1>1 DEF Rank

LEMMA RankOfMore ==
    ASSUME NEW M, NEW N, NEW n, NEW k, NEW i, NEW j \in 1..k, i = n + j, Follow(M, N, n, k)
    PROVE  Rank(i, N) = Cardinality(M) + j
<1>0. n \in Nat /\ k \in Nat /\ M \in SUBSET (1..n) /\ N = M \cup (n + 1)..(n + k)
  BY DEF Follow
<1>1. {l \in N : l <= i} = M \cup (n + 1)..(n + j)
  <2>1. \A l \in M : l <= n + j
    BY <1>0
  <2>2. \A l : l \in (n + 1)..(n + k) /\ l <= n + j <=> l \in (n + 1)..(n + j)
    BY <1>0
  <2> QED
    BY <1>0, <2>1, <2>2
<1>2. Cardinality(M \cup (n + 1)..(n + j)) = Cardinality(M) + j
  <2>1. j \in Nat
    BY <1>0
  <2> QED
    BY <1>0, <2>1, MorePlaces
<1> QED
  BY <1>1, <1>2 DEF Rank

\* The results t of r are recorded after rs.
Recorded(rs, t, r, us) ==
    /\ us \in Seq(Result) /\ Len(us) = Len(rs) + Len(t) /\ Len(rs) \in Nat /\ Len(t) \in Nat
    /\ \A i \in 1..Len(rs) : us[i] = rs[i]
    /\ \A i \in (Len(rs) + 1)..(Len(rs) + Len(t)) :
          i - Len(rs) \in 1..Len(t) /\ us[i] = t[i - Len(rs)]
    /\ PlacesOf(us, r) = PlacesOf(rs, r) \cup (Len(rs) + 1)..(Len(rs) + Len(t))
    /\ \A q : q # r => PlacesOf(us, q) = PlacesOf(rs, q)

LEMMA RecordedAfter ==
    ASSUME NEW rs \in Seq(Result), NEW t \in Seq(Result), NEW r, \A j \in 1..Len(t) : t[j].run = r
    PROVE  Recorded(rs, t, r, rs \o t)
<1>1. PICK u : u = rs \o t
  OBVIOUS
<1>2. /\ u \in Seq(Result) /\ Len(u) = Len(rs) + Len(t) /\ Len(rs) \in Nat /\ Len(t) \in Nat
      /\ \A i \in 1..Len(rs) : u[i] = rs[i]
      /\ \A j \in 1..Len(t) : u[Len(rs) + j] = t[j]
  BY <1>1, ConcatProperties, LenProperties
<1>3. PICK n, k : n = Len(rs) /\ k = Len(t)
  OBVIOUS
<1>4. ASSUME NEW i \in (n + 1)..(n + k) PROVE i - n \in 1..k /\ u[i] = t[i - n]
  <2>1. i - n \in 1..k /\ n + (i - n) = i
    BY <1>2, <1>3
  <2> QED
    BY <1>2, <1>3, <2>1
<1>5. PlacesOf(u, r) = PlacesOf(rs, r) \cup (n + 1)..(n + k)
  BY <1>2, <1>3, <1>4 DEF PlacesOf
<1>6. ASSUME NEW q, q # r PROVE PlacesOf(u, q) = PlacesOf(rs, q)
  <2>1. \A i \in 1..(n + k) : i \in 1..n \/ i \in (n + 1)..(n + k)
    BY <1>2, <1>3
  <2>2. \A i \in (n + 1)..(n + k) : u[i].run = r
    BY <1>3, <1>4
  <2>3. \A i \in 1..n : i \in 1..(n + k) /\ u[i] = rs[i]
    BY <1>2, <1>3
  <2> QED
    BY <1>2, <1>3, <1>6, <2>1, <2>2, <2>3 DEF PlacesOf
<1> QED
  BY <1>1, <1>2, <1>3, <1>4, <1>5, <1>6 DEF Recorded

\* What is told of some places stays so while the results there stay.
LEMMA TheSameIsTold ==
    ASSUME NEW rs, NEW us, NEW places, \A i \in places : us[i] = rs[i]
    PROVE  /\ \A taken : Told(us, places, taken) <=> Told(rs, places, taken)
           /\ \A status : Ones(us, places, status) = Ones(rs, places, status)
           /\ Tally(us, places) = Tally(rs, places)
<1>1. \A status : Ones(us, places, status) = Ones(rs, places, status)
  BY DEF Ones
<1>2. \A taken : Told(us, places, taken) <=> Told(rs, places, taken)
  BY DEF Told
<1> QED
  BY <1>1, <1>2 DEF Tally

-----------------------------------------------------------------------------
(* Recording results                                                       *)

\* k results of one status more.
MoreOf(counts, status, k) == [counts EXCEPT ![Which(status)] = counts[Which(status)] + k]

\* N has k places more than M, where the results are of this status.
Gains(rs, M, N, n, k, status) ==
    /\ n \in Nat /\ k \in Nat /\ M \in SUBSET (1..n) /\ N = M \cup (n + 1)..(n + k)
    /\ status \in Counted /\ \A i \in (n + 1)..(n + k) : rs[i].status = status

LEMMA TallyMore ==
    ASSUME NEW rs, NEW M, NEW N, NEW n, NEW k, NEW status, Gains(rs, M, N, n, k, status)
    PROVE  Tally(rs, N) = MoreOf(Tally(rs, M), status, k)
<1>0. /\ n \in Nat /\ k \in Nat /\ M \in SUBSET (1..n) /\ N = M \cup (n + 1)..(n + k)
      /\ status \in Counted /\ \A i \in (n + 1)..(n + k) : rs[i].status = status
  BY DEF Gains
<1>1. ASSUME NEW s
      PROVE  /\ Cardinality(Ones(rs, M, s)) \in Nat
             /\ Cardinality(Ones(rs, N, s)) =
                  IF s = status THEN Cardinality(Ones(rs, M, s)) + k ELSE Cardinality(Ones(rs, M, s))
  <2>1. Ones(rs, M, s) \in SUBSET (1..n)
    BY <1>0 DEF Ones
  <2>2. CASE s = status
    <3>1. Ones(rs, N, s) = Ones(rs, M, s) \cup (n + 1)..(n + k)
      BY <1>0, <2>2 DEF Ones
    <3>2. PICK O : O = Ones(rs, M, s)
      OBVIOUS
    <3>3. Cardinality(O) \in Nat /\ Cardinality(O \cup (n + 1)..(n + k)) = Cardinality(O) + k
      BY <1>0, <2>1, <3>2, MorePlaces
    <3> QED
      BY <2>2, <3>1, <3>2, <3>3
  <2>3. CASE s # status
    <3>1. Ones(rs, N, s) = Ones(rs, M, s)
      BY <1>0, <2>3 DEF Ones
    <3>2. PICK O : O = Ones(rs, M, s)
      OBVIOUS
    <3>3. Cardinality(O) \in Nat
      BY <1>0, <2>1, <3>2, MorePlaces
    <3> QED
      BY <2>3, <3>1, <3>2, <3>3
  <2> QED
    BY <2>2, <2>3
<1>2. PICK a, b, c : /\ a = Cardinality(Ones(rs, M, "passed")) /\ b = Cardinality(Ones(rs, M, "failed"))
                     /\ c = Cardinality(Ones(rs, M, "error"))
  OBVIOUS
<1>3. a \in Nat /\ b \in Nat /\ c \in Nat /\ Tally(rs, M) = <<a, b, c>>
  BY <1>1, <1>2 DEF Tally
<1>4. Tally(rs, N) = <<IF status = "passed" THEN a + k ELSE a, IF status = "failed" THEN b + k ELSE b,
                       IF status = "error" THEN c + k ELSE c>>
  BY <1>1, <1>2 DEF Tally
<1>5. Tally(rs, N) = [<<a, b, c>> EXCEPT ![Which(status)] = <<a, b, c>>[Which(status)] + k]
  <2>1. CASE status = "passed"
    <3>1. Which(status) = 1
      BY <2>1 DEF Which
    <3> QED
      BY <1>3, <1>4, <2>1, <3>1
  <2>2. CASE status = "failed"
    <3>1. Which(status) = 2
      BY <2>2 DEF Which
    <3> QED
      BY <1>3, <1>4, <2>2, <3>1
  <2>3. CASE status = "error"
    <3>1. Which(status) = 3
      BY <2>3 DEF Which
    <3> QED
      BY <1>3, <1>4, <2>3, <3>1
  <2> QED
    BY <1>0, <2>1, <2>2, <2>3 DEF Counted
<1> QED
  BY <1>3, <1>5 DEF MoreOf

\* The results t are of r and of the first cases left, all with one status.
Answers(t, r, status, todo, rest) ==
    /\ t \in Seq(Result) /\ rest \in Seq(Case) /\ status \in Counted
    /\ \A j \in 1..Len(t) : t[j].run = r /\ t[j].asked = todo[j] /\ t[j].status = status
    /\ Len(t) <= Len(todo) /\ Len(rest) = Len(todo) - Len(t)
    /\ \A j \in 1..Len(rest) : rest[j] = todo[Len(t) + j]

LEMMA DueGrows ==
    ASSUME NEW rs \in Seq(Result), NEW r, NEW todo, NEW counts, NEW taken, NEW t, NEW status, NEW rest,
           Due(rs, r, todo, counts, taken), Answers(t, r, status, todo, rest)
    PROVE  Due(rs \o t, r, rest, MoreOf(counts, status, Len(t)), taken)
<1>1. PICK us, n, k, M, N : /\ us = rs \o t /\ n = Len(rs) /\ k = Len(t)
                            /\ M = PlacesOf(rs, r) /\ N = PlacesOf(us, r)
  OBVIOUS
<1>2. /\ us \in Seq(Result) /\ n \in Nat /\ k \in Nat
      /\ \A i \in 1..n : us[i] = rs[i]
      /\ \A i \in (n + 1)..(n + k) : i - n \in 1..k /\ us[i] = t[i - n]
      /\ N = M \cup (n + 1)..(n + k)
  <2>1. Recorded(rs, t, r, rs \o t)
    <3>1. t \in Seq(Result) /\ \A j \in 1..Len(t) : t[j].run = r
      BY DEF Answers
    <3> QED
      BY <3>1, RecordedAfter
  <2> QED
    BY <1>1, <2>1 DEF Recorded
<1>3. M \in SUBSET (1..n) /\ Cardinality(M) \in Nat
  BY <1>1, PlacesAreFinite
<1>4. /\ todo \in Seq(Case) /\ taken \in Seq(Case) /\ Len(todo) \in Nat
      /\ Len(taken) = Cardinality(M) + Len(todo)
  BY <1>1, LenProperties DEF Due
<1>5. \A j \in 1..Len(todo) : todo[j] = taken[Cardinality(M) + j] /\ todo[j].enabled
  BY <1>1 DEF Due
<1>6. Told(rs, M, taken) /\ counts = Tally(rs, M)
  BY <1>1 DEF Due
<1>7. rest \in Seq(Case) /\ Len(rest) \in Nat /\ k <= Len(todo) /\ Len(rest) = Len(todo) - k /\ status \in Counted
  BY <1>1, LenProperties DEF Answers
<1>8. Cardinality(N) = Cardinality(M) + k
  <2>1. Cardinality(M \cup (n + 1)..(n + k)) = Cardinality(M) + k
    BY <1>2, <1>3, MorePlaces
  <2> QED
    BY <1>2, <2>1
<1>9. Len(taken) = Cardinality(N) + Len(rest)
  <2>1. k \in Nat
    BY <1>2
  <2> QED
    BY <1>3, <1>4, <1>7, <1>8, <2>1
<1>10. ASSUME NEW j \in 1..Len(rest)
       PROVE  rest[j] = taken[Cardinality(N) + j] /\ rest[j].enabled
  <2>1. k \in Nat
    BY <1>2
  <2>2. k + j \in 1..Len(todo) /\ Cardinality(M) + (k + j) = Cardinality(N) + j
    BY <1>3, <1>4, <1>7, <1>8, <2>1
  <2>3. rest[j] = todo[k + j]
    BY <1>1 DEF Answers
  <2> QED
    BY <1>5, <2>2, <2>3
<1>11. Told(us, N, taken)
  <2>0. Follow(M, N, n, k)
    BY <1>2, <1>3 DEF Follow
  <2>1. ASSUME NEW i \in M
        PROVE  us[i].asked = taken[Rank(i, N)] /\ us[i].asked.enabled /\ us[i].status # "skipped"
    <3>1. Rank(i, N) = Rank(i, M)
      BY <2>0, RankKept
    <3>2. us[i] = rs[i]
      BY <1>2, <1>3
    <3> QED
      BY <1>6, <3>1, <3>2 DEF Told
  <2>2. ASSUME NEW i \in (n + 1)..(n + k)
        PROVE  us[i].asked = taken[Rank(i, N)] /\ us[i].asked.enabled /\ us[i].status # "skipped"
    <3>1. PICK j : j = i - n
      OBVIOUS
    <3>2. j \in 1..k /\ us[i] = t[j]
      BY <1>2, <3>1
    <3>3. i = n + j /\ j \in 1..Len(todo)
      <4>1. n \in Nat /\ k \in Nat
        BY <1>2
      <4> QED
        BY <1>4, <1>7, <3>1, <3>2, <4>1
    <3>4. Rank(i, N) = Cardinality(M) + j
      BY <2>0, <3>2, <3>3, RankOfMore
    <3>5. us[i].asked = todo[j] /\ us[i].status = status
      BY <1>1, <3>2 DEF Answers
    <3> QED
      BY <1>5, <1>7, <3>3, <3>4, <3>5 DEF Counted
  <2> QED
    BY <1>2, <2>1, <2>2 DEF Told
<1>12. Tally(us, N) = MoreOf(counts, status, k)
  <2>1. \A i \in (n + 1)..(n + k) : us[i].status = status
    BY <1>1, <1>2 DEF Answers
  <2>2. Tally(us, M) = counts
    <3>1. \A i \in M : us[i] = rs[i]
      BY <1>2, <1>3
    <3> QED
      BY <1>6, <3>1, TheSameIsTold
  <2>3. Gains(us, M, N, n, k, status)
    BY <1>2, <1>3, <1>7, <2>1 DEF Gains
  <2> QED
    BY <2>2, <2>3, TallyMore
<1> QED
  BY <1>1, <1>4, <1>7, <1>9, <1>10, <1>11, <1>12 DEF Due

\* What other requests are owed and runs tell stays.
LEMMA OthersTell ==
    ASSUME NEW rs \in Seq(Result), NEW t \in Seq(Result), NEW r, \A j \in 1..Len(t) : t[j].run = r
    PROVE  /\ \A runs, q, one : q # r /\ RequestTells(rs, runs, q, one) => RequestTells(rs \o t, runs, q, one)
           /\ \A s : s.id # r /\ RunTells(rs, s) => RunTells(rs \o t, s)
<1>1. PICK us : us = rs \o t
  OBVIOUS
<1>2. /\ \A i \in 1..Len(rs) : us[i] = rs[i]
      /\ \A q : q # r => PlacesOf(us, q) = PlacesOf(rs, q)
  <2>1. Recorded(rs, t, r, us)
    BY <1>1, RecordedAfter
  <2> QED
    BY <2>1 DEF Recorded
<1>3. ASSUME NEW q, q # r
      PROVE  /\ PlacesOf(us, q) = PlacesOf(rs, q)
             /\ \A taken : Told(us, PlacesOf(us, q), taken) <=> Told(rs, PlacesOf(rs, q), taken)
             /\ \A status : Ones(us, PlacesOf(us, q), status) = Ones(rs, PlacesOf(rs, q), status)
             /\ Tally(us, PlacesOf(us, q)) = Tally(rs, PlacesOf(rs, q))
  <2>1. PICK places : places = PlacesOf(rs, q)
    OBVIOUS
  <2>2. PlacesOf(us, q) = places
    BY <1>2, <1>3, <2>1
  <2>3. \A i \in places : us[i] = rs[i]
    BY <1>2, <2>1 DEF PlacesOf
  <2> QED
    BY <2>1, <2>2, <2>3, TheSameIsTold
<1>4. ASSUME NEW runs, NEW q, NEW one, q # r, RequestTells(rs, runs, q, one)
      PROVE  RequestTells(us, runs, q, one)
  <2>1. \A todo, counts, taken : Due(rs, q, todo, counts, taken) => Due(us, q, todo, counts, taken)
    BY <1>3, <1>4 DEF Due
  <2> QED
    BY <1>3, <1>4, <2>1 DEF RequestTells
<1>5. ASSUME NEW s, s.id # r, RunTells(rs, s) PROVE RunTells(us, s)
  BY <1>3, <1>5 DEF RunTells
<1> QED
  BY <1>1, <1>4, <1>5

\* A request that owes nothing more has its run told.
LEMMA DoneTells ==
    ASSUME NEW rs \in Seq(Result), NEW r, NEW counts, NEW taken, Due(rs, r, <<>>, counts, taken)
    PROVE  RunTells(rs, Summary(r, taken, counts))
<1>1. PICK M, a, b, c : /\ M = PlacesOf(rs, r)
                        /\ a = Cardinality(Ones(rs, M, "passed")) /\ b = Cardinality(Ones(rs, M, "failed"))
                        /\ c = Cardinality(Ones(rs, M, "error"))
  OBVIOUS
<1>2. IsFiniteSet(M) /\ M \subseteq 1..Len(rs) /\ Cardinality(M) \in Nat
  BY <1>1, PlacesAreFinite
<1>3. /\ Len(taken) = Cardinality(M) /\ Told(rs, M, taken) /\ counts = <<a, b, c>>
  <2>1. Len(<<>>) = 0
    BY EmptySeq
  <2>2. Len(taken) = Cardinality(M) + 0 /\ Told(rs, M, taken) /\ counts = <<a, b, c>>
    BY <1>1, <2>1 DEF Due, Tally
  <2> QED
    BY <1>2, <2>2
<1>4. \A status : /\ IsFiniteSet(Ones(rs, M, status)) /\ Cardinality(Ones(rs, M, status)) \in Nat
                  /\ (Cardinality(Ones(rs, M, status)) = 0 <=> Ones(rs, M, status) = {})
  <2> TAKE status
  <2>1. Ones(rs, M, status) \in SUBSET M
    BY DEF Ones
  <2>2. IsFiniteSet(Ones(rs, M, status))
    BY <1>2, <2>1, FS_Subset
  <2> QED
    BY <2>2, FS_CardinalityType, FS_EmptySet
<1>5. c > 0 <=> Ones(rs, M, "error") # {}
  BY <1>1, <1>4
<1>6. b > 0 <=> Ones(rs, M, "failed") # {}
  BY <1>1, <1>4
<1>7. Ones(rs, M, "passed") = M <=> Ones(rs, M, "error") = {} /\ Ones(rs, M, "failed") = {}
  <2>1. \A i \in M : rs[i].status \in Counted
    <3> SUFFICES ASSUME NEW i \in M PROVE rs[i].status \in Counted
      OBVIOUS
    <3>1. rs[i] \in Result
      BY <1>2, ElementOfSeq
    <3>2. rs[i].status # "skipped"
      BY <1>3 DEF Told
    <3> QED
      BY <3>1, <3>2 DEF Result, Counted
  <2> QED
    BY <2>1 DEF Ones, Counted
<1>8. PICK s : s = Summary(r, taken, counts)
  OBVIOUS
<1>9. /\ s.id = r /\ s.taken = taken /\ s.total = Len(taken) /\ s.counts = counts
      /\ s.status = IF c > 0 THEN "error" ELSE IF b > 0 THEN "failed" ELSE "passed"
  BY <1>3, <1>8 DEF Summary, Overall
<1> QED
  BY <1>1, <1>3, <1>5, <1>6, <1>7, <1>8, <1>9 DEF RunTells, Tally

-----------------------------------------------------------------------------
(* The steps                                                               *)

\* What a result that was judged or is an error looks like.
LEMMA ResultIsOne ==
    ASSUME NEW r \in Requests, NEW suite \in BOOLEAN, NEW case \in Case, NEW bears \in SUBSET Marks,
           NEW answered \in BOOLEAN, NEW status \in {"passed", "failed", "error", "skipped"}
    PROVE  /\ ResultOf(r, suite, case, status, bears, answered) \in Result
           /\ ResultOf(r, suite, case, status, bears, answered).run = r
           /\ ResultOf(r, suite, case, status, bears, answered).asked = case
           /\ ResultOf(r, suite, case, status, bears, answered).status = status
           /\ ResultOf(r, suite, case, status, bears, answered).bears = bears
BY DEF ResultOf, Result

\* The step from one await to the next, after the results rs.
LEMMA GoKeeps ==
    ASSUME SuitesInv, NEW r \in Requests, NEW suite \in BOOLEAN, NEW todo, NEW counts, NEW taken, NEW rs,
           \A s \in testRuns : s.id # r, AllTell(rs, testRuns, request, {r}),
           Due(rs, r, todo, counts, taken), Go(r, suite, todo, counts, taken, rs),
           UNCHANGED <<cases, given>>
    PROVE  SuitesInv'
<1>1. /\ cases' \in Seq(Case) /\ given' \in Nat /\ request = [q \in Requests |-> request[q]]
  BY DEF SuitesInv
<1>2. /\ rs \in Seq(Result) /\ \A i \in 1..Len(rs) : VerdictFits(rs[i])
      /\ \A q \in Requests : q # r => RequestTells(rs, testRuns, q, request[q])
      /\ \A s \in testRuns : RunTells(rs, s)
  BY DEF AllTell
<1>3. CASE todo # <<>> /\ workflow
  <2>1. PICK one : one = [at |-> "running", suite |-> suite, todo |-> todo, counts |-> counts, taken |-> taken]
    OBVIOUS
  <2>2. request' = [request EXCEPT ![r] = one] /\ results' = rs /\ testRuns' = testRuns
    BY <1>3, <2>1 DEF Go
  <2>3. /\ request' = [q \in Requests |-> request'[q]]
        /\ \A q \in Requests : q # r => request'[q] = request[q]
        /\ request'[r] = one
    BY <1>1, <2>2
  <2>4. RequestTells(rs, testRuns, r, one)
    BY <1>3, <2>1 DEF RequestTells
  <2>5. \A q \in Requests : RequestTells(results', testRuns', q, request'[q])
    BY <1>2, <2>2, <2>3, <2>4
  <2>6. AllTell(results', testRuns', request', {})
    BY <1>2, <2>2, <2>5 DEF AllTell
  <2> QED
    BY <1>1, <2>3, <2>6 DEF SuitesInv
<1>4. CASE ~(todo # <<>> /\ workflow)
  <2>1. PICK last, errors, one, run :
           /\ last = [counts EXCEPT ![3] = counts[3] + Len(todo)]
           /\ errors = [i \in 1..Len(todo) |-> ResultOf(r, suite, todo[i], "error", {}, FALSE)]
           /\ one = [Idle EXCEPT !.at = "done"]
           /\ run = Summary(r, taken, last)
    OBVIOUS
  <2>2. /\ request' = [request EXCEPT ![r] = one]
        /\ results' = rs \o errors
        /\ testRuns' = IF suite THEN testRuns \cup {run} ELSE testRuns
    BY <1>4, <2>1 DEF Go
  <2>3. todo \in Seq(Case) /\ Len(todo) \in Nat /\ \A j \in 1..Len(todo) : todo[j] \in Case /\ todo[j].enabled
    <3>1. todo \in Seq(Case) /\ \A j \in 1..Len(todo) : todo[j].enabled
      BY DEF Due
    <3> QED
      BY <3>1, LenProperties, ElementOfSeq
  <2>4. \A j \in 1..Len(todo) : /\ errors[j] \in Result /\ errors[j].run = r /\ errors[j].asked = todo[j]
                                /\ errors[j].status = "error"
    <3> SUFFICES ASSUME NEW j \in 1..Len(todo)
                 PROVE  /\ errors[j] \in Result /\ errors[j].run = r /\ errors[j].asked = todo[j]
                        /\ errors[j].status = "error"
      OBVIOUS
    <3>1. errors[j] = ResultOf(r, suite, todo[j], "error", {}, FALSE)
      BY <2>1
    <3>2. PICK case : case = todo[j] /\ case \in Case
      BY <2>3
    <3>3. {} \in SUBSET Marks /\ FALSE \in BOOLEAN /\ "error" \in {"passed", "failed", "error", "skipped"}
      OBVIOUS
    <3>4. /\ ResultOf(r, suite, case, "error", {}, FALSE) \in Result
          /\ ResultOf(r, suite, case, "error", {}, FALSE).run = r
          /\ ResultOf(r, suite, case, "error", {}, FALSE).asked = case
          /\ ResultOf(r, suite, case, "error", {}, FALSE).status = "error"
      BY <3>2, <3>3 DEF ResultOf, Result
    <3> QED
      BY <3>1, <3>2, <3>4
  <2>5. errors \in Seq(Result) /\ Len(errors) = Len(todo)
    <3>1. errors = [i \in 1..Len(todo) |-> errors[i]]
      BY <2>1
    <3> QED
      BY <2>3, <2>4, <3>1
  <2>6. Answers(errors, r, "error", todo, <<>>)
    <3>1. <<>> \in Seq(Case) /\ Len(<<>>) = 0 /\ "error" \in Counted
      BY EmptySeq DEF Counted
    <3> QED
      BY <2>3, <2>4, <2>5, <3>1 DEF Answers
  <2>7. Due(results', r, <<>>, last, taken)
    <3>1. Due(rs \o errors, r, <<>>, MoreOf(counts, "error", Len(errors)), taken)
      BY <1>2, <2>6, DueGrows
    <3>2. MoreOf(counts, "error", Len(errors)) = last
      <4>1. Which("error") = 3
        BY DEF Which
      <4> QED
        BY <2>1, <2>5, <4>1 DEF MoreOf
    <3> QED
      BY <2>2, <3>1, <3>2
  <2>8. \A j \in 1..Len(errors) : errors[j].run = r
    BY <2>4, <2>5
  <2>9. Recorded(rs, errors, r, results')
    BY <1>2, <2>2, <2>5, <2>8, RecordedAfter
  <2>10. results' \in Seq(Result)
    BY <2>9 DEF Recorded
  <2>11. ASSUME NEW i \in 1..Len(results') PROVE VerdictFits(results'[i])
    <3>1. CASE i \in 1..Len(rs)
      <4>1. results'[i] = rs[i]
        BY <2>9, <3>1 DEF Recorded
      <4> QED
        BY <1>2, <3>1, <4>1
    <3>2. CASE i \in (Len(rs) + 1)..(Len(rs) + Len(errors))
      <4>1. i - Len(rs) \in 1..Len(todo) /\ results'[i] = errors[i - Len(rs)]
        BY <2>5, <2>9, <3>2 DEF Recorded
      <4>2. PICK j \in 1..Len(todo) : results'[i] = errors[j]
        BY <4>1
      <4> QED
        BY <2>3, <2>4, <4>2 DEF VerdictFits
    <3> QED
      BY <2>9, <3>1, <3>2 DEF Recorded
  <2>12. /\ request' = [q \in Requests |-> request'[q]]
         /\ \A q \in Requests : q # r => request'[q] = request[q]
         /\ request'[r].at = "done"
    BY <1>1, <2>1, <2>2 DEF Idle
  <2>13. RunTells(results', run) /\ run.id = r
    BY <2>1, <2>7, <2>10, DoneTells DEF Summary
  <2>14. \A s \in testRuns' : s \in testRuns \/ s = run
    BY <2>2
  <2>15. ASSUME NEW q \in Requests PROVE RequestTells(results', testRuns', q, request'[q])
    <3>1. CASE q = r
      BY <2>12, <3>1 DEF RequestTells
    <3>2. CASE q # r
      <4>1. RequestTells(rs, testRuns, q, request[q])
        BY <1>2, <3>2
      <4>2. RequestTells(results', testRuns, q, request[q])
        BY <1>2, <2>2, <2>5, <2>8, <3>2, <4>1, OthersTell
      <4>3. RequestTells(results', testRuns', q, request[q])
        BY <2>13, <2>14, <3>2, <4>2 DEF RequestTells
      <4> QED
        BY <2>12, <3>2, <4>3
    <3> QED
      BY <3>1, <3>2
  <2>16. ASSUME NEW s \in testRuns' PROVE RunTells(results', s)
    <3>1. CASE s \in testRuns
      BY <1>2, <2>2, <2>5, <2>8, <3>1, OthersTell
    <3> QED
      BY <2>13, <2>14, <3>1
  <2>17. AllTell(results', testRuns', request', {})
    BY <2>10, <2>11, <2>15, <2>16 DEF AllTell
  <2> QED
    BY <1>1, <2>12, <2>17 DEF SuitesInv
<1> QED
  BY <1>3, <1>4

LEMMA SuitesInvInit == SuitesInit => SuitesInv
<1> SUFFICES ASSUME SuitesInit PROVE SuitesInv
  OBVIOUS
<1>1. Len(<<>>) = 0 /\ <<>> \in Seq(Case) /\ <<>> \in Seq(Result)
  BY EmptySeq
<1>2. \A r : PlacesOf(<<>>, r) = {}
  BY <1>1 DEF PlacesOf
<1> QED
  BY <1>1, <1>2 DEF SuitesInit, SuitesInv, AllTell, RequestTells, Idle

\* Where nothing is recorded and no request steps.
LEMMA NothingRecorded ==
    ASSUME SuitesInv, cases' \in Seq(Case), given' \in Nat, UNCHANGED <<request, results, testRuns>>
    PROVE  SuitesInv'
BY DEF SuitesInv

\* A request that is over owes nothing.
LEMMA OverKeeps ==
    ASSUME SuitesInv, NEW r \in Requests, NEW last, request' = [request EXCEPT ![r] = last],
           last.at \in {"done", "cancelled"}, UNCHANGED <<cases, given, testRuns>>,
           AllTell(results', testRuns, request, {r})
    PROVE  SuitesInv'
<1>1. cases' \in Seq(Case) /\ given' \in Nat /\ request = [q \in Requests |-> request[q]]
  BY DEF SuitesInv
<1>2. /\ request' = [q \in Requests |-> request'[q]]
      /\ \A q \in Requests : q # r => request'[q] = request[q]
      /\ request'[r] = last
  BY <1>1
<1>3. RequestTells(results', testRuns, r, last)
  BY DEF RequestTells
<1>4. \A q \in Requests : RequestTells(results', testRuns, q, request'[q])
  BY <1>2, <1>3 DEF AllTell
<1>5. AllTell(results', testRuns', request', {})
  BY <1>4 DEF AllTell
<1> QED
  BY <1>1, <1>2, <1>5 DEF SuitesInv

\* A request that steps from an await, or begins, with no run of its own yet.
LEMMA StepsAlone ==
    ASSUME SuitesInv, NEW r \in Requests, request[r].at \in {"idle", "running"}
    PROVE  /\ results \in Seq(Result) /\ \A s \in testRuns : s.id # r
           /\ AllTell(results, testRuns, request, {r})
<1>1. AllTell(results, testRuns, request, {})
  BY DEF SuitesInv
<1>2. AllTell(results, testRuns, request, {r})
  BY <1>1 DEF AllTell
<1>3. RequestTells(results, testRuns, r, request[r])
  BY <1>1 DEF AllTell
<1> QED
  BY <1>2, <1>3 DEF AllTell, RequestTells

\* A request begins owing the results of the cases it has taken.
LEMMA BeginsDue ==
    ASSUME SuitesInv, NEW r \in Requests, request[r].at = "idle",
           NEW todo \in Seq(Case), \A j \in 1..Len(todo) : todo[j].enabled
    PROVE  Due(results, r, todo, <<0, 0, 0>>, todo)
<1>1. PlacesOf(results, r) = {}
  <2>1. RequestTells(results, testRuns, r, request[r])
    BY DEF SuitesInv, AllTell
  <2> QED
    BY <2>1 DEF RequestTells
<1>2. Cardinality({}) = 0 /\ Len(todo) \in Nat
  BY FS_EmptySet, LenProperties
<1>3. Tally(results, {}) = <<0, 0, 0>>
  <2>1. \A status : Ones(results, {}, status) = {}
    BY DEF Ones
  <2> QED
    BY <1>2, <2>1 DEF Tally
<1>4. Told(results, {}, todo)
  BY DEF Told
<1>5. \A j \in 1..Len(todo) : 0 + j = j
  BY <1>2
<1>6. Len(todo) = 0 + Len(todo)
  BY <1>2
<1> QED
  BY <1>1, <1>2, <1>3, <1>4, <1>5, <1>6 DEF Due

LEMMA CreateCaseKeeps ==
    ASSUME SuitesInv, NEW expects \in SUBSET Marks, CreateCase(expects)
    PROVE  SuitesInv'
<1>1. PICK one : one = [id |-> given + 1, expects |-> expects, enabled |-> TRUE, sound |-> TRUE]
  OBVIOUS
<1>2. given + 1 \in Cases /\ given' = given + 1
  BY SuitesAssumption DEF SuitesInv, CreateCase, Cases
<1>3. one \in Case
  BY <1>1, <1>2 DEF Case
<1>4. cases' = Append(cases, one) /\ cases \in Seq(Case) /\ given' \in Nat
  BY <1>1, <1>2 DEF CreateCase, SuitesInv
<1>5. cases' \in Seq(Case)
  BY <1>3, <1>4, AppendProperties
<1>6. UNCHANGED <<request, results, testRuns>>
  BY DEF CreateCase
<1> QED
  BY <1>4, <1>5, <1>6, NothingRecorded

LEMMA UpdateCaseKeeps ==
    ASSUME SuitesInv, NEW c \in Cases, NEW expects \in SUBSET Marks, NEW enabled \in BOOLEAN,
           NEW sound \in BOOLEAN, UpdateCase(c, expects, enabled, sound)
    PROVE  SuitesInv'
<1>1. PICK one : one = [id |-> c, expects |-> expects, enabled |-> enabled, sound |-> sound]
  OBVIOUS
<1>2. one \in Case
  BY <1>1 DEF Case
<1>3. PICK i \in 1..Len(cases) : cases' = [cases EXCEPT ![i] = one]
  BY <1>1 DEF UpdateCase, Held
<1>4. cases \in Seq(Case)
  BY DEF SuitesInv
<1>5. cases' \in Seq(Case)
  BY <1>2, <1>3, <1>4, ExceptSeq
<1>6. given' \in Nat /\ UNCHANGED <<request, results, testRuns>>
  BY DEF UpdateCase, SuitesInv
<1> QED
  BY <1>5, <1>6, NothingRecorded

LEMMA DeleteCaseKeeps ==
    ASSUME SuitesInv, NEW c, DeleteCase(c)
    PROVE  SuitesInv'
<1>1. PICK left : left = DOMAIN cases \ Held(c)
  OBVIOUS
<1>2. cases \in Seq(Case) /\ cases' = Those(cases, left)
  BY <1>1 DEF SuitesInv, DeleteCase
<1>3. cases' \in Seq(Case)
  BY <1>2, ThoseAre
<1>4. given' \in Nat /\ UNCHANGED <<request, results, testRuns>>
  BY DEF DeleteCase, SuitesInv
<1> QED
  BY <1>3, <1>4, NothingRecorded

LEMMA RunSuiteKeeps ==
    ASSUME SuitesInv, NEW r \in Requests, RunSuite(r)
    PROVE  SuitesInv'
<1>1. PICK places, chosen : /\ places = {i \in 1..Len(cases) : cases[i].enabled}
                            /\ chosen = Those(cases, places)
  OBVIOUS
<1>2. /\ request[r].at = "idle" /\ UNCHANGED <<cases, given>>
      /\ Go(r, TRUE, chosen, <<0, 0, 0>>, chosen, results)
  BY <1>1 DEF RunSuite
<1>3. cases \in Seq(Case)
  BY DEF SuitesInv
<1>4. /\ chosen \in Seq(Case)
      /\ \A j \in 1..Len(chosen) : \E i \in 1..Len(cases) : i \in places /\ chosen[j] = cases[i]
  <2>1. /\ Those(cases, places) \in Seq(Case)
        /\ \A j \in 1..Len(Those(cases, places)) :
              \E i \in 1..Len(cases) : i \in places /\ Those(cases, places)[j] = cases[i]
    BY <1>3, ThoseAre
  <2> QED
    BY <1>1, <2>1
<1>5. \A j \in 1..Len(chosen) : chosen[j].enabled
  BY <1>1, <1>4
<1>6. Due(results, r, chosen, <<0, 0, 0>>, chosen)
  BY <1>2, <1>4, <1>5, BeginsDue
<1>7. (\A s \in testRuns : s.id # r) /\ AllTell(results, testRuns, request, {r})
  BY <1>2, StepsAlone
<1>8. TRUE \in BOOLEAN
  OBVIOUS
<1> QED
  BY <1>2, <1>6, <1>7, <1>8, GoKeeps

\* One result more, of the request r.
LEMMA OneMore ==
    ASSUME NEW rs \in Seq(Result), NEW x \in Result, NEW runs, NEW requests, NEW r,
           x.run = r, VerdictFits(x), \A s \in runs : s.id # r, AllTell(rs, runs, requests, {r})
    PROVE  /\ <<x>> \in Seq(Result) /\ Len(<<x>>) = 1 /\ <<x>>[1] = x
           /\ Append(rs, x) = rs \o <<x>>
           /\ AllTell(rs \o <<x>>, runs, requests, {r})
<1>1. PICK t : t = <<x>>
  OBVIOUS
<1>2. t \in Seq(Result) /\ Len(t) = 1 /\ t[1] = x
  BY <1>1
<1>3. PICK us : us = rs \o t
  OBVIOUS
<1>4. Append(rs, x) = us
  BY <1>1, <1>3, AppendIsConcat
<1>5. \A j \in 1..Len(t) : t[j].run = r
  BY <1>2
<1>6. Recorded(rs, t, r, us)
  BY <1>2, <1>3, <1>5, RecordedAfter
<1>7. \A i \in 1..Len(us) : VerdictFits(us[i])
  <2> SUFFICES ASSUME NEW i \in 1..Len(us) PROVE VerdictFits(us[i])
    OBVIOUS
  <2>1. CASE i \in 1..Len(rs)
    <3>1. us[i] = rs[i]
      BY <1>6, <2>1 DEF Recorded
    <3> QED
      BY <2>1, <3>1 DEF AllTell
  <2>2. CASE i \in (Len(rs) + 1)..(Len(rs) + Len(t))
    <3>1. i - Len(rs) \in 1..Len(t) /\ us[i] = t[i - Len(rs)]
      BY <1>6, <2>2 DEF Recorded
    <3>2. us[i] = x
      BY <1>2, <3>1
    <3> QED
      BY <3>2
  <2> QED
    BY <1>6, <2>1, <2>2 DEF Recorded
<1>8. /\ \A q \in Requests \ {r} : RequestTells(us, runs, q, requests[q])
      /\ \A s \in runs : RunTells(us, s)
  <2>1. /\ \A q \in Requests \ {r} : RequestTells(rs, runs, q, requests[q])
        /\ \A s \in runs : RunTells(rs, s)
    BY DEF AllTell
  <2> QED
    BY <1>2, <1>3, <1>5, <2>1, OthersTell
<1>9. us \in Seq(Result)
  BY <1>6 DEF Recorded
<1>10. AllTell(us, runs, requests, {r})
  BY <1>7, <1>8, <1>9 DEF AllTell
<1> QED
  BY <1>1, <1>2, <1>3, <1>4, <1>10

LEMMA RunCaseKeeps ==
    ASSUME SuitesInv, NEW r \in Requests, NEW c, RunCase(r, c)
    PROVE  SuitesInv'
<1>1. request[r].at = "idle" /\ UNCHANGED <<cases, given>>
  BY DEF RunCase
<1>2. PICK i \in 1..Len(cases) :
         IF cases[i].enabled
         THEN Go(r, FALSE, <<cases[i]>>, <<0, 0, 0>>, <<cases[i]>>, results)
         ELSE /\ request' = [request EXCEPT ![r] = [Idle EXCEPT !.at = "done"]]
              /\ results' = Append(results, ResultOf(r, FALSE, cases[i], "skipped", {}, FALSE))
              /\ UNCHANGED <<testRuns, leftovers>>
  BY DEF RunCase, Held
<1>3. PICK case : case = cases[i]
  OBVIOUS
<1>4. case \in Case
  BY <1>3, ElementOfSeq DEF SuitesInv
<1>5. /\ results \in Seq(Result) /\ \A s \in testRuns : s.id # r
      /\ AllTell(results, testRuns, request, {r})
  BY <1>1, StepsAlone
<1>6. CASE case.enabled
  <2>1. PICK todo : todo = <<case>>
    OBVIOUS
  <2>2. todo \in Seq(Case) /\ \A j \in 1..Len(todo) : todo[j].enabled
    BY <1>4, <1>6, <2>1
  <2>3. Due(results, r, todo, <<0, 0, 0>>, todo)
    BY <1>1, <2>2, BeginsDue
  <2>4. Go(r, FALSE, todo, <<0, 0, 0>>, todo, results) /\ FALSE \in BOOLEAN
    BY <1>2, <1>3, <1>6, <2>1
  <2> QED
    BY <1>1, <1>5, <2>3, <2>4, GoKeeps
<1>7. CASE ~case.enabled
  <2>1. PICK x, last : /\ x = ResultOf(r, FALSE, case, "skipped", {}, FALSE)
                       /\ last = [Idle EXCEPT !.at = "done"]
    OBVIOUS
  <2>2. /\ request' = [request EXCEPT ![r] = last]
        /\ results' = Append(results, x) /\ testRuns' = testRuns
    BY <1>2, <1>3, <1>7, <2>1
  <2>3. x \in Result /\ x.run = r /\ VerdictFits(x)
    BY <1>4, <1>7, <2>1 DEF ResultOf, Result, VerdictFits
  <2>4. AllTell(results', testRuns, request, {r})
    <3>1. /\ Append(results, x) = results \o <<x>>
          /\ AllTell(results \o <<x>>, testRuns, request, {r})
      BY <1>5, <2>3, OneMore
    <3> QED
      BY <2>2, <3>1
  <2>5. last.at \in {"done", "cancelled"}
    BY <2>1 DEF Idle
  <2> QED
    BY <1>1, <2>2, <2>4, <2>5, OverKeeps
<1> QED
  BY <1>6, <1>7

\* A result is recorded, and the request goes on to its next await.
LEMMA RecordKeeps ==
    ASSUME SuitesInv, NEW r \in Requests, NEW status \in Counted, NEW bears \in SUBSET Marks,
           NEW answered \in BOOLEAN, Record(r, status, bears, answered),
           status = "passed" => Head(request[r].todo).expects \subseteq bears,
           status = "failed" => ~(Head(request[r].todo).expects \subseteq bears)
    PROVE  SuitesInv'
<1>1. PICK suite, todo, counts, taken :
         /\ suite = request[r].suite /\ todo = request[r].todo
         /\ counts = request[r].counts /\ taken = request[r].taken
  OBVIOUS
<1>2. PICK case, rest, x : /\ case = Head(todo) /\ rest = Tail(todo)
                           /\ x = ResultOf(r, suite, case, status, bears, answered)
  OBVIOUS
<1>3. request[r].at = "running" /\ UNCHANGED <<cases, given>>
  BY DEF Record
<1>4. Go(r, suite, rest, MoreOf(counts, status, 1), taken, Append(results, x))
  BY <1>1, <1>2 DEF Record, MoreOf
<1>5. suite \in BOOLEAN /\ todo # <<>> /\ Due(results, r, todo, counts, taken)
  <2>1. RequestTells(results, testRuns, r, request[r])
    BY DEF SuitesInv, AllTell
  <2> QED
    BY <1>1, <1>3, <2>1 DEF RequestTells
<1>6. todo \in Seq(Case) /\ \A j \in 1..Len(todo) : todo[j].enabled
  BY <1>5 DEF Due
<1>7. /\ Len(todo) \in Nat /\ Len(todo) >= 1 /\ case = todo[1] /\ case \in Case /\ case.enabled
      /\ rest \in Seq(Case) /\ Len(rest) = Len(todo) - 1
      /\ \A j \in 1..Len(rest) : rest[j] = todo[1 + j]
  <2>1. Len(todo) \in Nat /\ Len(todo) >= 1
    BY <1>5, <1>6, LenProperties, EmptySeq
  <2>2. case = todo[1] /\ case \in Case /\ case.enabled
    BY <1>2, <1>6, <2>1, ElementOfSeq
  <2>3. rest \in Seq(Case) /\ Len(rest) = Len(todo) - 1
        /\ \A j \in 1..Len(rest) : rest[j] = todo[j + 1]
    BY <1>2, <1>5, <1>6, HeadTailProperties
  <2>4. \A j \in 1..Len(rest) : rest[j] = todo[1 + j]
    BY <2>1, <2>3
  <2> QED
    BY <2>1, <2>2, <2>3, <2>4
<1>8. /\ x \in Result /\ x.run = r /\ x.asked = case /\ x.status = status /\ x.bears = bears
  BY <1>2, <1>5, <1>7 DEF ResultOf, Result, Counted
<1>9. VerdictFits(x)
  BY <1>1, <1>2, <1>7, <1>8 DEF VerdictFits, Counted
<1>10. /\ results \in Seq(Result) /\ \A s \in testRuns : s.id # r
       /\ AllTell(results, testRuns, request, {r})
  BY <1>3, StepsAlone
<1>11. PICK t, rs : t = <<x>> /\ rs = results \o t
  OBVIOUS
<1>12. /\ t \in Seq(Result) /\ Len(t) = 1 /\ t[1] = x /\ Append(results, x) = rs
       /\ AllTell(rs, testRuns, request, {r})
  BY <1>8, <1>9, <1>10, <1>11, OneMore
<1>13. Answers(t, r, status, todo, rest)
  BY <1>7, <1>8, <1>12 DEF Answers
<1>14. Due(rs, r, rest, MoreOf(counts, status, 1), taken)
  BY <1>5, <1>10, <1>11, <1>12, <1>13, DueGrows
<1>15. PICK more : more = MoreOf(counts, status, 1)
  OBVIOUS
<1>16. Go(r, suite, rest, more, taken, rs) /\ Due(rs, r, rest, more, taken)
  BY <1>4, <1>12, <1>14, <1>15
<1> QED
  BY <1>3, <1>5, <1>10, <1>12, <1>16, GoKeeps

LEMMA AnsweredKeeps ==
    ASSUME SuitesInv, NEW r \in Requests, NEW bears \in SUBSET Marks, Answered(r, bears)
    PROVE  SuitesInv'
<1>1. PICK case, status : case = Head(request[r].todo) /\ status = Judge(case, bears)
  OBVIOUS
<1>2. status = IF case.expects \subseteq bears THEN "passed" ELSE "failed"
  BY <1>1 DEF Judge
<1>3. status \in Counted /\ TRUE \in BOOLEAN
  BY <1>2 DEF Counted
<1>4. Record(r, status, bears, TRUE)
  BY <1>1 DEF Answered
<1> QED
  BY <1>1, <1>2, <1>3, <1>4, RecordKeeps

LEMMA KickoffRaisedKeeps ==
    ASSUME SuitesInv, NEW r \in Requests, KickoffRaised(r)
    PROVE  SuitesInv'
<1>1. PICK case, status : case = Head(request[r].todo) /\ status = Judge(case, {})
  OBVIOUS
<1>2. status = IF case.expects \subseteq {} THEN "passed" ELSE "failed"
  BY <1>1 DEF Judge
<1>3. status \in Counted /\ FALSE \in BOOLEAN /\ {} \in SUBSET Marks
  BY <1>2 DEF Counted
<1>4. Record(r, status, {}, FALSE)
  BY <1>1 DEF KickoffRaised
<1> QED
  BY <1>1, <1>2, <1>3, <1>4, RecordKeeps

LEMMA ExecutionFailedKeeps ==
    ASSUME SuitesInv, NEW r \in Requests, ExecutionFailed(r)
    PROVE  SuitesInv'
<1>1. "error" \in Counted /\ FALSE \in BOOLEAN /\ {} \in SUBSET Marks
  BY DEF Counted
<1> QED
  BY <1>1, RecordKeeps DEF ExecutionFailed

LEMMA CancelRequestKeeps ==
    ASSUME SuitesInv, NEW r \in Requests, CancelRequest(r)
    PROVE  SuitesInv'
<1>1. PICK last : last = [Idle EXCEPT !.at = "cancelled"]
  OBVIOUS
<1>2. /\ request[r].at = "running" /\ request' = [request EXCEPT ![r] = last]
      /\ UNCHANGED <<cases, given, testRuns>> /\ results' = results
  BY <1>1 DEF CancelRequest
<1>3. AllTell(results', testRuns, request, {r})
  BY <1>2, StepsAlone
<1>4. last.at \in {"done", "cancelled"}
  BY <1>1 DEF Idle
<1> QED
  BY <1>2, <1>3, <1>4, OverKeeps

LEMMA RestartSuitesKeeps ==
    ASSUME SuitesInv, RestartSuites
    PROVE  SuitesInv'
<1>1. /\ cases' = <<>> /\ results' = <<>> /\ testRuns' = {} /\ given' = given
      /\ request' = [r \in Requests |-> IF request[r].at = "idle" THEN Idle
                                        ELSE [Idle EXCEPT !.at = "cancelled"]]
  BY DEF RestartSuites
<1>2. Len(<<>>) = 0 /\ <<>> \in Seq(Case) /\ <<>> \in Seq(Result)
  BY EmptySeq
<1>3. \A r : PlacesOf(<<>>, r) = {}
  BY <1>2 DEF PlacesOf
<1>4. request' = [r \in Requests |-> request'[r]]
  BY <1>1
<1>5. \A r \in Requests : RequestTells(<<>>, {}, r, request'[r])
  <2> SUFFICES ASSUME NEW r \in Requests PROVE RequestTells(<<>>, {}, r, request'[r])
    OBVIOUS
  <2>1. request'[r].at \in {"idle", "cancelled"}
    BY <1>1 DEF Idle
  <2> QED
    BY <1>3, <2>1 DEF RequestTells
<1>6. \A i \in 1..Len(<<>>) : VerdictFits(<<>>[i])
  BY <1>2
<1>7. AllTell(results', testRuns', request', {})
  BY <1>1, <1>2, <1>5, <1>6 DEF AllTell
<1>8. given' \in Nat
  BY <1>1 DEF SuitesInv
<1> QED
  BY <1>1, <1>2, <1>4, <1>7, <1>8 DEF SuitesInv

\* Every step of the suites keeps the invariant.
LEMMA SuitesInvNext == SuitesInv /\ [SuitesNext]_suiteVars => SuitesInv'
<1> SUFFICES ASSUME SuitesInv, [SuitesNext]_suiteVars PROVE SuitesInv'
  OBVIOUS
<1>1. CASE \E expects \in SUBSET Marks : CreateCase(expects)
  BY <1>1, CreateCaseKeeps
<1>2. ASSUME NEW c \in Cases, NEW expects \in SUBSET Marks, NEW enabled \in BOOLEAN, NEW sound \in BOOLEAN,
             UpdateCase(c, expects, enabled, sound)
      PROVE  SuitesInv'
  BY <1>2, UpdateCaseKeeps
<1>3. CASE \E c \in Cases : DeleteCase(c)
  BY <1>3, DeleteCaseKeeps
<1>4. CASE \E c \in Cases, r \in Requests : RunCase(r, c)
  BY <1>4, RunCaseKeeps
<1>5. CASE \E r \in Requests : RunSuite(r)
  BY <1>5, RunSuiteKeeps
<1>6. CASE \E r \in Requests : KickoffRaised(r)
  BY <1>6, KickoffRaisedKeeps
<1>7. CASE \E r \in Requests : ExecutionFailed(r)
  BY <1>7, ExecutionFailedKeeps
<1>8. CASE \E r \in Requests : CancelRequest(r)
  BY <1>8, CancelRequestKeeps
<1>9. CASE \E r \in Requests, bears \in SUBSET Marks : Answered(r, bears)
  BY <1>9, AnsweredKeeps
<1>10. CASE SwitchWorkflow
  <2>1. cases' \in Seq(Case) /\ given' \in Nat /\ UNCHANGED <<request, results, testRuns>>
    BY <1>10 DEF SwitchWorkflow, SuitesInv
  <2> QED
    BY <2>1, NothingRecorded
<1>11. CASE RestartSuites
  BY <1>11, RestartSuitesKeeps
<1>12. CASE UNCHANGED suiteVars
  <2>1. cases' \in Seq(Case) /\ given' \in Nat /\ UNCHANGED <<request, results, testRuns>>
    BY <1>12 DEF suiteVars, SuitesInv
  <2> QED
    BY <2>1, NothingRecorded
<1> QED
  BY <1>1, <1>2, <1>3, <1>4, <1>5, <1>6, <1>7, <1>8, <1>9, <1>10, <1>11, <1>12 DEF SuitesNext

LEMMA SuitesInvSays == SuitesInv => TestsTellTheTruth
<1> SUFFICES ASSUME SuitesInv PROVE TestsTellTheTruth
  OBVIOUS
<1>1. /\ \A i \in 1..Len(results) : VerdictFits(results[i])
      /\ \A s \in testRuns : RunTells(results, s)
  BY DEF SuitesInv, AllTell
<1>2. VerdictsFitTheirAnswers
  BY <1>1 DEF VerdictsFitTheirAnswers, VerdictFits
<1>3. /\ \A r : Of(r) = PlacesOf(results, r)
      /\ \A places, status : Having(places, status) = Ones(results, places, status)
  BY DEF Of, PlacesOf, Having, Ones
<1>4. RunsAreTheirResults
  <2> SUFFICES ASSUME NEW s \in testRuns
               PROVE  /\ s.total = Cardinality(Of(s.id))
                      /\ \A i \in Of(s.id) : /\ results[i].asked = s.taken[Rank(i, Of(s.id))]
                                             /\ results[i].asked.enabled /\ results[i].status # "skipped"
                      /\ s.counts = <<Cardinality(Having(Of(s.id), "passed")),
                                      Cardinality(Having(Of(s.id), "failed")),
                                      Cardinality(Having(Of(s.id), "error"))>>
                      /\ s.status = "error" <=> Having(Of(s.id), "error") # {}
                      /\ s.status = "passed" <=> Having(Of(s.id), "passed") = Of(s.id)
    BY DEF RunsAreTheirResults
  <2>1. RunTells(results, s)
    BY <1>1
  <2> QED
    BY <1>3, <2>1 DEF RunTells, Told, Tally
<1> QED
  BY <1>2, <1>4 DEF TestsTellTheTruth

\* What the platform says of its tests is so, for any cases, requests and marks: a stored
\* run is the account of its results, and a verdict of the answer beside it
\* (run_workflow_tests, _run_and_record, judge).
THEOREM TestsAlwaysTellTheTruth == SuitesSpec => []TestsTellTheTruth
  BY SuitesInvInit, SuitesInvNext, SuitesInvSays, PTL DEF SuitesSpec

-----------------------------------------------------------------------------
(***************************************************************************)
(* What the checks accept (GraphChecks)                                    *)
(***************************************************************************)

\* Where every node has an agent the tasks are made in the order of the nodes.
AllStaffed == \A p \in 1..Len(ordered) : Staffed(ordered[p])

InOrder ==
    OwnCrew /\ explicit = FALSE /\ AllStaffed =>
        /\ Len(tasks) = item - 1 /\ Len(tasks) <= Len(ordered)
        /\ \A i \in 1..Len(tasks) : tasks[i].node = ordered[i]

LEMMA CreateTaskInOrder == ASSUME PlanInv, InOrder, CreateTask PROVE InOrder'
<1>1. /\ plan = "tasking" /\ plan' = "tasking" /\ item <= Items /\ item' = item + 1
      /\ def' = def /\ ordered' = ordered /\ manager' = manager
      /\ crew' = crew /\ explicit' = explicit
  BY DEF CreateTask
<1>2. SUFFICES ASSUME OwnCrew', explicit' = FALSE, AllStaffed'
               PROVE  /\ Len(tasks') = item' - 1 /\ Len(tasks') <= Len(ordered')
                      /\ \A i \in 1..Len(tasks') : tasks'[i].node = ordered'[i]
  BY DEF InOrder
<1>3. OwnCrew /\ explicit = FALSE /\ AllStaffed
  BY <1>1, <1>2 DEF OwnCrew, AllStaffed, Staffed
<1>4. /\ PlanDataOK /\ item \in Nat \ {0} /\ tasks \in Seq(Task) /\ crew \subseteq Agents
      /\ crew = Specialists(NoNode)
  BY <1>1 DEF PlanInv, PlanDataOK, StaffOK
<1>5. /\ item \in 1..Len(ordered) /\ NodeOf(item) = ordered[item] /\ ordered[item] \in Nodes
      /\ Len(tasks) \in Nat /\ Len(ordered) \in Nat
  BY <1>1, <1>3, <1>4, ItemIsThere, OrderedNodes
<1>6. AgentOf(item) \in crew
  <2>1. Staffed(ordered[item])
    BY <1>3, <1>5 DEF AllStaffed
  <2> QED
    BY <1>3, <1>4, <1>5, <2>1, StaffedIsInTheCrew DEF AgentOf
<1>7. PICK t : /\ t = [node |-> NodeOf(item), agent |-> AgentOf(item),
                       context |-> ContextOf(NodeOf(item)), final |-> IsFinal(item)]
               /\ tasks' = Append(tasks, t)
  BY <1>6 DEF CreateTask
<1>8. t \in Task /\ t.node = ordered[item]
  <2>1. ContextOf(NodeOf(item)) \in SUBSET Nodes
    BY <1>4, ContextIsOfTasks
  <2>2. IsFinal(item) \in BOOLEAN
    BY DEF IsFinal
  <2> QED
    BY <1>4, <1>5, <1>6, <1>7, <2>1, <2>2 DEF Task
<1>9. /\ Len(tasks') = Len(tasks) + 1 /\ tasks'[Len(tasks) + 1] = t
      /\ \A i \in 1..Len(tasks) : tasks'[i] = tasks[i]
  BY <1>4, <1>7, <1>8, AppendProperties
<1>10. Len(tasks) = item - 1 /\ \A i \in 1..Len(tasks) : tasks[i].node = ordered[i]
  BY <1>3 DEF InOrder
<1>11. ASSUME NEW i \in 1..Len(tasks') PROVE tasks'[i].node = ordered'[i]
  <2>1. CASE i \in 1..Len(tasks)
    BY <1>1, <1>9, <1>10, <2>1
  <2>2. CASE i = Len(tasks) + 1
    <3>1. i = item
      BY <1>4, <1>10, <2>2
    <3> QED
      BY <1>1, <1>8, <1>9, <2>2, <3>1
  <2> QED
    BY <1>5, <1>9, <2>1, <2>2
<1>12. Len(tasks') = item' - 1 /\ Len(tasks') <= Len(ordered')
  BY <1>1, <1>5, <1>9, <1>10
<1> QED
  BY <1>11, <1>12

LEMMA InOrderNext == ASSUME PlanInv, InOrder, [PlanNext]_planVars PROVE InOrder'
<1>1. CASE Visit \/ FinishOrder
  <2>1. plan' \in {"ordering", "staffing"}
    BY <1>1 DEF Visit, FinishOrder
  <2> QED
    BY <2>1 DEF InOrder, OwnCrew
<1>2. CASE Staff
  <2>1. tasks = <<>> /\ item = 1
    BY <1>2 DEF PlanInv, StaffOK, Staff
  <2>2. OwnCrew' => tasks' = <<>> /\ item' = 1
    BY <1>2, <2>1 DEF OwnCrew, Staff
  <2>3. OwnCrew' => Len(tasks') = 0 /\ ordered' \in Seq(Nodes)
    BY <1>2, <2>2, EmptySeq DEF PlanInv, PlanDataOK, Staff
  <2> QED
    BY <2>2, <2>3, LenProperties DEF InOrder
<1>3. CASE CreateTask
  BY <1>3, CreateTaskInOrder
<1>4. CASE FinishTasks
  <2>1. /\ plan = "tasking" /\ manager' = manager /\ def' = def /\ ordered' = ordered /\ tasks' = tasks
        /\ \/ item' = 1 /\ tasks = <<>>
           \/ item' = item /\ explicit' = explicit
    BY <1>4 DEF FinishTasks
  <2>2. CASE item' = 1 /\ tasks = <<>>
    <3>1. Len(tasks') = 0 /\ Len(ordered) \in Nat
      BY <2>1, <2>2, EmptySeq, OrderedNodes DEF PlanInv
    <3> QED
      BY <2>1, <2>2, <3>1 DEF InOrder
  <2>3. CASE item' = item /\ explicit' = explicit
    <3>1. OwnCrew' => OwnCrew
      BY <2>1 DEF OwnCrew
    <3>2. AllStaffed' => AllStaffed
      BY <2>1 DEF AllStaffed, Staffed
    <3> QED
      BY <2>1, <2>3, <3>1, <3>2 DEF InOrder
  <2> QED
    BY <2>1, <2>2, <2>3
<1>5. CASE UNCHANGED planVars
  <2>1. /\ plan' = plan /\ manager' = manager /\ def' = def /\ ordered' = ordered /\ tasks' = tasks
        /\ item' = item /\ explicit' = explicit
    BY <1>5 DEF planVars
  <2>2. (OwnCrew' => OwnCrew) /\ (AllStaffed' => AllStaffed)
    BY <2>1 DEF OwnCrew, AllStaffed, Staffed
  <2> QED
    BY <2>1, <2>2 DEF InOrder
<1> QED
  BY <1>1, <1>2, <1>3, <1>4, <1>5 DEF PlanNext

-----------------------------------------------------------------------------
(* Graphs                                                                  *)

Leads(d, m, n) == \E k \in 1..Len(d.edges) : d.edges[k][1] = m /\ d.edges[k][2] = n

\* Everything F leads to is in F.
LeadsNowhereElse(d, F) == \A m \in F, n \in Nodes : Leads(d, m, n) => n \in F

\* Any nodes of F have one that none of them leads to.
Loopless(d, F) == \A S \in SUBSET F : S # {} => \E n \in S : \A m \in S : ~Leads(d, m, n)

LEMMA OneMoreLeft ==
    ASSUME NEW d, NEW F, NEW n \in Nodes, n \notin F, LeadsNowhereElse(d, F), Loopless(d, F),
           \A m \in Nodes : Leads(d, n, m) => m \in F
    PROVE  LeadsNowhereElse(d, F \cup {n}) /\ Loopless(d, F \cup {n})
<1>1. LeadsNowhereElse(d, F \cup {n})
  BY DEF LeadsNowhereElse
<1>2. ASSUME NEW S \in SUBSET (F \cup {n}), S # {}
      PROVE  \E x \in S : \A m \in S : ~Leads(d, m, x)
  <2>1. CASE n \in S
    <3>1. \A m \in S : ~Leads(d, m, n)
      <4> SUFFICES ASSUME NEW m \in S, Leads(d, m, n) PROVE FALSE
        OBVIOUS
      <4> QED
        BY DEF LeadsNowhereElse
    <3> QED
      BY <2>1, <3>1
  <2>2. CASE n \notin S
    <3>1. S \in SUBSET F
      BY <2>2
    <3> QED
      BY <1>2, <3>1 DEF Loopless
  <2> QED
    BY <2>1, <2>2
<1> QED
  BY <1>1, <1>2 DEF Loopless

\* Edges lead from nodes to nodes.
LEMMA EndsAreNodes ==
    ASSUME NEW d \in Definitions, NEW k \in 1..Len(d.edges)
    PROVE  d.edges[k][1] \in NodeSet(d) /\ d.edges[k][2] \in NodeSet(d)
<1>1. In(d.edges[k][1], d.nodes) /\ In(d.edges[k][2], d.nodes)
  BY DefinitionSays
<1> QED
  BY <1>1 DEF In, NodeSet

\* A graph that spans its nodes has none, but for the entry, that nothing leads to.
LEMMA SpannedIsLedTo ==
    ASSUME NEW d \in Definitions, Spans(d), NEW n \in NodeSet(d), n # d.entry
    PROVE  \E m \in NodeSet(d) : Leads(d, m, n)
<1> SUFFICES ASSUME \A m \in NodeSet(d) : ~Leads(d, m, n) PROVE FALSE
  OBVIOUS
<1>1. PICK S : S = NodeSet(d) \ {n}
  OBVIOUS
<1>2. \A k \in 1..Len(d.edges) : d.edges[k][1] \in NodeSet(d) /\ d.edges[k][2] \in NodeSet(d)
  BY EndsAreNodes
<1>3. d.entry \in S
  BY <1>1, DefinitionSays DEF In, NodeSet
<1>4. Closed(d, S)
  <2> SUFFICES ASSUME NEW k \in 1..Len(d.edges), d.edges[k][1] \in S, d.edges[k][2] \notin S PROVE FALSE
    BY DEF Closed
  <2>1. d.edges[k][2] = n
    BY <1>1, <1>2
  <2> QED
    BY <1>2, <2>1 DEF Leads
<1>5. S \in SUBSET NodeSet(d)
  BY <1>1
<1>6. S = NodeSet(d)
  BY <1>3, <1>4, <1>5 DEF Spans
<1> QED
  BY <1>1, <1>6

LEMMA CyclesAre == 
    ASSUME NEW d \in Definitions
    PROVE  HasCycle(d) <=> \E S \in SUBSET NodeSet(d) : S # {} /\ \A n \in S : \E m \in S : Leads(d, m, n)
<1>1. ASSUME HasCycle(d)
      PROVE  \E S \in SUBSET NodeSet(d) : S # {} /\ \A n \in S : \E m \in S : Leads(d, m, n)
  <2>1. PICK S \in (SUBSET NodeSet(d)) \ {{}} :
           \A n \in S : \E k \in 1..Len(d.edges) : d.edges[k][2] = n /\ d.edges[k][1] \in S
    BY <1>1 DEF HasCycle
  <2>2. \A n \in S : \E m \in S : Leads(d, m, n)
    BY <2>1 DEF Leads
  <2>3. S \in SUBSET NodeSet(d) /\ S # {}
    OBVIOUS
  <2> QED
    BY <2>2, <2>3
<1>2. ASSUME NEW S \in SUBSET NodeSet(d), S # {}, \A n \in S : \E m \in S : Leads(d, m, n)
      PROVE  HasCycle(d)
  <2>1. S \in (SUBSET NodeSet(d)) \ {{}}
    BY <1>2
  <2>2. \A n \in S : \E k \in 1..Len(d.edges) : d.edges[k][2] = n /\ d.edges[k][1] \in S
    BY <1>2 DEF Leads
  <2> QED
    BY <2>1, <2>2 DEF HasCycle
<1> QED
  BY <1>1, <1>2

\* Without a cycle nothing leads to the entry.
LEMMA NothingLeadsToTheEntry ==
    ASSUME NEW d \in Definitions, Spans(d), ~HasCycle(d), NEW m \in NodeSet(d)
    PROVE  ~Leads(d, m, d.entry)
<1> SUFFICES ASSUME Leads(d, m, d.entry) PROVE FALSE
  OBVIOUS
<1>1. \A n \in NodeSet(d) : \E x \in NodeSet(d) : Leads(d, x, n)
  BY SpannedIsLedTo
<1>2. PICK S : S = NodeSet(d)
  OBVIOUS
<1>3. S \in SUBSET NodeSet(d) /\ S # {} /\ \A n \in S : \E x \in S : Leads(d, x, n)
  BY <1>1, <1>2
<1> QED
  BY <1>3, CyclesAre

\* _get_reachable_nodes takes one step after the other.
Onward(d, S) == S \cup {d.edges[k][2] : k \in {j \in 1..Len(d.edges) : d.edges[j][1] \in S}}

Collects(f, d, n) ==
    f = [i \in 0..n |-> IF i = 0 THEN {d.entry} ELSE Onward(d, f[i - 1])]

LEMMA CollectionGrows ==
    ASSUME NEW d, NEW n \in Nat, NEW f, Collects(f, d, n)
    PROVE  \E g : Collects(g, d, n + 1)
<1>1. PICK x : x = Onward(d, f[n])
  OBVIOUS
<1>2. PICK g : g = [i \in 0..(n + 1) |-> IF i = n + 1 THEN x ELSE f[i]]
  OBVIOUS
<1>3. \A i \in 0..n : f[i] = IF i = 0 THEN {d.entry} ELSE Onward(d, f[i - 1])
  BY DEF Collects
<1>4. ASSUME NEW i \in 0..(n + 1)
      PROVE  g[i] = IF i = 0 THEN {d.entry} ELSE Onward(d, g[i - 1])
  <2>1. CASE i = n + 1
    <3>1. n \in 0..(n + 1) /\ n # n + 1 /\ i # 0 /\ i - 1 = n
      BY <2>1
    <3>2. g[n] = f[n] /\ g[i] = x
      BY <1>2, <2>1, <3>1
    <3> QED
      BY <1>1, <3>1, <3>2
  <2>2. CASE i # n + 1
    <3>1. i \in 0..n /\ g[i] = f[i]
      BY <1>2, <2>2
    <3>2. CASE i = 0
      BY <1>3, <3>1, <3>2
    <3>3. CASE i # 0
      <4>1. i - 1 \in 0..(n + 1) /\ i - 1 # n + 1
        BY <2>2, <3>3
      <4>2. g[i - 1] = f[i - 1]
        BY <1>2, <4>1
      <4> QED
        BY <1>3, <3>1, <3>3, <4>2
    <3> QED
      BY <3>2, <3>3
  <2> QED
    BY <2>1, <2>2
<1>5. g = [i \in 0..(n + 1) |-> g[i]]
  BY <1>2
<1>6. Collects(g, d, n + 1)
  BY <1>4, <1>5 DEF Collects
<1> QED
  BY <1>6

LEMMA CollectionExists ==
    ASSUME NEW d, NEW n \in Nat
    PROVE  \E f : Collects(f, d, n)
<1> DEFINE Without == {m \in Nat : ~ \E f : Collects(f, d, m)}
<1> SUFFICES ASSUME Without # {} PROVE FALSE
  OBVIOUS
<1>1. PICK m \in Without : \A k \in Without : m <= k
  BY LeastElement
<1>2. CASE m = 0
  <2>1. PICK f : f = [i \in 0..0 |-> {d.entry}]
    OBVIOUS
  <2>2. Collects(f, d, 0)
    BY <2>1 DEF Collects
  <2> QED
    BY <1>2, <2>2
<1>3. CASE m # 0
  <2>1. m - 1 \in Nat /\ m - 1 \notin Without /\ (m - 1) + 1 = m
    BY <1>1, <1>3
  <2>2. PICK f : Collects(f, d, m - 1)
    BY <2>1
  <2>3. \E g : Collects(g, d, (m - 1) + 1)
    BY <2>1, <2>2, CollectionGrows
  <2> QED
    BY <2>1, <2>3
<1> QED
  BY <1>2, <1>3

\* What it collects is within every set that holds the entry and all that it leads to.
LEMMA ReachedIsWhole ==
    ASSUME def \in Definitions, Reached = NodeSet(def)
    PROVE  Spans(def)
<1> SUFFICES ASSUME NEW S \in SUBSET NodeSet(def), def.entry \in S, Closed(def, S)
             PROVE  S = NodeSet(def)
  BY DEF Spans
<1>1. PICK n : n = Len(def.nodes) /\ n \in Nat
  BY DefinitionSays
<1> DEFINE f == CHOOSE g : Collects(g, def, Len(def.nodes))
<1>2. Collects(f, def, Len(def.nodes))
  BY <1>1, CollectionExists
<1>3. Reached = f[Len(def.nodes)]
  BY DEF Reached, Collects, Onward
<1> HIDE DEF f
<1>4. \A i \in 0..n : f[i] = IF i = 0 THEN {def.entry} ELSE Onward(def, f[i - 1])
  BY <1>1, <1>2 DEF Collects
<1> DEFINE Beyond == {i \in 0..n : ~(f[i] \subseteq S)}
<1>5. Beyond = {}
  <2> SUFFICES ASSUME Beyond # {} PROVE FALSE
    OBVIOUS
  <2>1. PICK i \in Beyond : \A j \in Beyond : i <= j
    <3>1. Beyond \in SUBSET Nat
      OBVIOUS
    <3> HIDE DEF Beyond
    <3> QED
      BY <3>1, LeastElement
  <2>2. i \in 0..n /\ ~(f[i] \subseteq S)
    BY <2>1
  <2>3. i # 0
    BY <1>4, <2>2
  <2>4. i - 1 \in 0..n /\ i - 1 \notin Beyond
    BY <1>1, <2>1, <2>2, <2>3
  <2>5. f[i - 1] \subseteq S
    BY <2>4
  <2>6. f[i] = Onward(def, f[i - 1])
    BY <1>4, <2>2, <2>3
  <2>7. Onward(def, f[i - 1]) \subseteq S
    BY <2>5 DEF Onward, Closed
  <2> QED
    BY <2>2, <2>6, <2>7
<1>6. f[n] \subseteq S
  BY <1>1, <1>5
<1> QED
  BY <1>1, <1>3, <1>6

-----------------------------------------------------------------------------
(* The walk for cycles                                                     *)

\* The nested calls are the end of the path, on which no node stands twice.
PathOK ==
    /\ calls \in Seq(Nodes) /\ trail \in Seq(Nodes) /\ visited \in SUBSET Nodes
    /\ cycles \in Seq(Seq(Nodes))
    /\ \A i, j \in 1..Len(trail) : trail[i] = trail[j] => i = j
    /\ onPath = {trail[i] : i \in 1..Len(trail)}
    /\ onPath \subseteq visited
    /\ Len(calls) <= Len(trail)
    /\ \A i \in 1..Len(calls) : calls[i] = trail[Len(trail) + 1 - i]

\* The nodes whose calls have returned.
Finished == visited \ onPath

\* Until a cycle is found the path is a path, and what was left has none and leads
\* nowhere else.
NoCycleYet ==
    cycles = <<>> =>
        /\ Len(calls) = Len(trail)
        /\ \A i \in 1..(Len(trail) - 1) : Leads(def, trail[i], trail[i + 1])
        /\ LeadsNowhereElse(def, Finished) /\ Loopless(def, Finished)
        /\ verdict # "walking" => calls = <<>> /\ UnseenRoots = {}

FirstCycleOK == cycles # <<>> => IsCycle(cycles[1])

VerdictOK ==
    /\ asker \in {"canvas", "validate", "create"}
    /\ verdict \in {"walking", "walked", "rejected"} \cup Types
    /\ asker = "create" /\ verdict \in Types =>
          Sound(verdict, TRUE) /\ \A n \in NodeSet(def) : Staffed(n)

WalkInv == PathOK /\ NoCycleYet /\ FirstCycleOK /\ VerdictOK

ChecksInv == PlanInv /\ InOrder /\ WalkInv

LEMMA SoundStays ==
    ASSUME def' = def, cycles' = cycles, NEW type, NEW limited
    PROVE  Sound(type, limited)' <=> Sound(type, limited)
<1>1. Reached' = Reached
  BY DEF Reached
<1>2. \A n : Parents(n)' = Parents(n)
  BY DEF Parents
<1> QED
  BY <1>1, <1>2 DEF Sound

\* Where the walk rests.
LEMMA WalkRests ==
    ASSUME WalkInv, def' = def, UNCHANGED checkVars
    PROVE  WalkInv'
<1>1. /\ asker' = asker /\ verdict' = verdict /\ calls' = calls /\ visited' = visited
      /\ onPath' = onPath /\ trail' = trail /\ cycles' = cycles
  BY DEF checkVars
<1>2. PathOK'
  BY <1>1 DEF WalkInv, PathOK
<1>3. NoCycleYet'
  <2>1. Finished' = Finished /\ UnseenRoots' = UnseenRoots
    BY <1>1 DEF Finished, UnseenRoots, Roots
  <2> QED
    BY <1>1, <2>1 DEF WalkInv, NoCycleYet
<1>4. FirstCycleOK'
  BY <1>1 DEF WalkInv, FirstCycleOK, IsCycle
<1>5. VerdictOK'
  <2>1. \A type : Sound(type, TRUE)' <=> Sound(type, TRUE)
    BY <1>1, SoundStays
  <2>2. \A n : Staffed(n)' = Staffed(n)
    BY DEF Staffed
  <2> QED
    BY <1>1, <2>1, <2>2 DEF WalkInv, VerdictOK
<1> QED
  BY <1>2, <1>3, <1>4, <1>5 DEF WalkInv

LEMMA WalkInvInit == WalkInit /\ def \in Definitions => WalkInv
<1> SUFFICES ASSUME WalkInit, def \in Definitions PROVE WalkInv
  OBVIOUS
<1>1. /\ verdict = "walking" /\ calls = <<>> /\ visited = {} /\ onPath = {} /\ trail = <<>>
      /\ cycles = <<>> /\ asker \in {"canvas", "validate", "create"}
  BY DEF WalkInit
<1>2. Len(<<>>) = 0 /\ <<>> \in Seq(Nodes) /\ <<>> \in Seq(Seq(Nodes))
  BY EmptySeq
<1>3. PathOK
  BY <1>1, <1>2 DEF PathOK
<1>4. Finished = {}
  BY <1>1 DEF Finished
<1>5. NoCycleYet
  BY <1>1, <1>2, <1>4 DEF NoCycleYet, LeadsNowhereElse, Loopless
<1>6. FirstCycleOK
  BY <1>1 DEF FirstCycleOK
<1>7. VerdictOK
  BY <1>1 DEF VerdictOK, Types
<1> QED
  BY <1>3, <1>5, <1>6, <1>7 DEF WalkInv

LEMMA HeadIsTheEnd ==
    ASSUME PathOK, calls # <<>>
    PROVE  /\ Len(trail) \in Nat /\ Len(calls) \in Nat /\ Len(calls) >= 1 /\ Len(trail) >= 1
           /\ Head(calls) = trail[Len(trail)] /\ Head(calls) \in Nodes /\ Head(calls) \in onPath
<1>1. calls \in Seq(Nodes) /\ trail \in Seq(Nodes) /\ Len(calls) <= Len(trail)
  BY DEF PathOK
<1>2. Len(calls) \in Nat /\ Len(trail) \in Nat /\ Len(calls) >= 1 /\ Len(trail) >= 1
  BY <1>1, LenProperties, EmptySeq
<1>3. Head(calls) = calls[1] /\ Head(calls) \in Nodes
  BY <1>1, <1>2, HeadTailProperties
<1>4. calls[1] = trail[Len(trail) + 1 - 1]
  BY <1>2 DEF PathOK
<1>5. Len(trail) + 1 - 1 = Len(trail) /\ Len(trail) \in 1..Len(trail)
  BY <1>2
<1> QED
  BY <1>2, <1>3, <1>4, <1>5 DEF PathOK

\* A call for a node that was not visited.
LEMMA EnterKeeps ==
    ASSUME PathOK, NoCycleYet, NEW n \in Nodes, n \notin visited, Enter(n),
           calls # <<>> => Leads(def, Head(calls), n),
           def' = def, cycles' = cycles, verdict' = "walking"
    PROVE  PathOK' /\ NoCycleYet'
<1>1. PICK c, t : c = <<n>> \o calls /\ t = Append(trail, n)
  OBVIOUS
<1>2. calls' = c /\ trail' = t /\ visited' = visited \cup {n} /\ onPath' = onPath \cup {n}
  BY <1>1 DEF Enter
<1>3. /\ calls \in Seq(Nodes) /\ trail \in Seq(Nodes) /\ visited \in SUBSET Nodes
      /\ cycles \in Seq(Seq(Nodes)) /\ onPath \subseteq visited
      /\ onPath = {trail[i] : i \in 1..Len(trail)} /\ Len(calls) <= Len(trail)
      /\ Len(calls) \in Nat /\ Len(trail) \in Nat
  BY LenProperties DEF PathOK
<1>4. /\ t \in Seq(Nodes) /\ Len(t) = Len(trail) + 1 /\ t[Len(trail) + 1] = n
      /\ \A i \in 1..Len(trail) : t[i] = trail[i]
  BY <1>1, <1>3, AppendProperties
<1>5. c \in Seq(Nodes) /\ Len(c) = Len(calls) + 1 /\ c[1] = n /\ \A i \in 1..Len(calls) : c[i + 1] = calls[i]
  <2>1. <<n>> \in Seq(Nodes) /\ Len(<<n>>) = 1 /\ <<n>>[1] = n
    OBVIOUS
  <2>2. /\ c \in Seq(Nodes) /\ Len(c) = 1 + Len(calls)
        /\ \A i \in 1..(1 + Len(calls)) : c[i] = IF i <= 1 THEN <<n>>[i] ELSE calls[i - 1]
    BY <1>1, <1>3, <2>1, ConcatProperties
  <2> QED
    BY <1>3, <2>1, <2>2
<1>6. \A i \in 1..Len(t) : i \in 1..Len(trail) \/ i = Len(trail) + 1
  BY <1>3, <1>4
<1>7. \A i \in 1..Len(trail) : trail[i] # n
  BY <1>3
<1>8. \A i, j \in 1..Len(t) : t[i] = t[j] => i = j
  BY <1>4, <1>6, <1>7 DEF PathOK
<1>9. onPath' = {t[i] : i \in 1..Len(t)}
  <2>1. \A i \in 1..Len(trail) : i \in 1..Len(t)
    BY <1>3, <1>4
  <2>2. Len(trail) + 1 \in 1..Len(t)
    BY <1>3, <1>4
  <2> QED
    BY <1>2, <1>3, <1>4, <1>6, <2>1, <2>2
<1>10. ASSUME NEW i \in 1..Len(c) PROVE c[i] = t[Len(t) + 1 - i]
  <2>1. CASE i = 1
    BY <1>3, <1>4, <1>5, <2>1
  <2>2. CASE i # 1
    <3>1. PICK j : j = i - 1 /\ j \in 1..Len(calls) /\ i = j + 1
      BY <1>3, <1>5, <2>2
    <3>2. c[i] = calls[j]
      BY <1>5, <3>1
    <3>3. calls[j] = trail[Len(trail) + 1 - j]
      BY <3>1 DEF PathOK
    <3>4. Len(trail) + 1 - j \in 1..Len(trail) /\ Len(t) + 1 - i = Len(trail) + 1 - j
      BY <1>3, <1>4, <3>1
    <3> QED
      BY <1>4, <3>2, <3>3, <3>4
  <2> QED
    BY <2>1, <2>2
<1>11. PathOK'
  <2>1. visited' \in SUBSET Nodes /\ onPath' \subseteq visited' /\ cycles' \in Seq(Seq(Nodes))
    BY <1>2, <1>3
  <2>2. Len(c) <= Len(t)
    BY <1>3, <1>4, <1>5
  <2> QED
    BY <1>2, <1>4, <1>5, <1>8, <1>9, <1>10, <2>1, <2>2 DEF PathOK
<1>12. NoCycleYet'
  <2> SUFFICES ASSUME cycles = <<>>
               PROVE  /\ Len(calls') = Len(trail')
                      /\ \A i \in 1..(Len(trail') - 1) : Leads(def', trail'[i], trail'[i + 1])
                      /\ LeadsNowhereElse(def', Finished') /\ Loopless(def', Finished')
    BY DEF NoCycleYet
  <2>1. Len(calls) = Len(trail) /\ \A i \in 1..(Len(trail) - 1) : Leads(def, trail[i], trail[i + 1])
    BY DEF NoCycleYet
  <2>2. Finished' = Finished
    BY <1>2, <1>3 DEF Finished
  <2>3. ASSUME NEW i \in 1..(Len(t) - 1) PROVE Leads(def, t[i], t[i + 1])
    <3>1. CASE i = Len(trail)
      <4>1. calls # <<>> /\ Len(trail) >= 1
        BY <1>3, <1>4, <2>1, <3>1, EmptySeq
      <4>2. t[i] = Head(calls) /\ t[i + 1] = n
        BY <1>4, <3>1, <4>1, HeadIsTheEnd
      <4> QED
        BY <4>1, <4>2
    <3>2. CASE i # Len(trail)
      <4>1. i \in 1..(Len(trail) - 1) /\ i \in 1..Len(trail) /\ i + 1 \in 1..Len(trail)
        BY <1>3, <1>4, <3>2
      <4> QED
        BY <1>4, <2>1, <4>1
    <3> QED
      BY <3>1, <3>2
  <2> QED
    BY <1>2, <1>3, <1>4, <1>5, <2>1, <2>2, <2>3 DEF NoCycleYet
<1> QED
  BY <1>11, <1>12

LEMMA RootsAreNodes ==
    ASSUME def \in Definitions
    PROVE  /\ Len(Roots) \in Nat /\ \A i \in 1..Len(Roots) : Roots[i] \in Nodes
           /\ asker = "canvas" => Len(Roots) = Len(def.edges)
                                  /\ \A i \in 1..Len(Roots) : Roots[i] = def.edges[i][1]
           /\ asker # "canvas" => Roots = def.nodes
<1>1. CASE asker = "canvas"
  <2>1. Roots = [k \in 1..Len(def.edges) |-> def.edges[k][1]]
    BY <1>1 DEF Roots
  <2>2. Len(def.edges) \in Nat /\ \A k \in 1..Len(def.edges) : def.edges[k][1] \in Nodes
    BY DefinitionSays
  <2>3. Len(Roots) = Len(def.edges)
    BY <2>1, <2>2
  <2> QED
    BY <1>1, <2>1, <2>2, <2>3
<1>2. CASE asker # "canvas"
  BY <1>2, DefinitionSays DEF Roots
<1> QED
  BY <1>1, <1>2

\* A verdict that is none of a type.
LEMMA NoVerdictYet ==
    ASSUME VerdictOK, verdict' \in {"walking", "walked", "rejected"}, asker' = asker
    PROVE  VerdictOK'
BY DEF VerdictOK, Types

LEMMA StartWalkKeeps ==
    ASSUME PlanDataOK, WalkInv, StartWalk
    PROVE  WalkInv'
<1>1. /\ verdict = "walking" /\ calls = <<>> /\ asker' = asker /\ cycles' = cycles /\ def' = def
      /\ def \in Definitions
  BY DEF StartWalk, planVars, PlanDataOK
<1>2. PathOK /\ NoCycleYet /\ FirstCycleOK /\ VerdictOK
  BY DEF WalkInv
<1>3. FirstCycleOK'
  BY <1>1, <1>2 DEF FirstCycleOK, IsCycle
<1>4. CASE UnseenRoots = {}
  <2>1. /\ verdict' = "walked" /\ calls' = calls /\ visited' = visited /\ onPath' = onPath
        /\ trail' = trail
    BY <1>4 DEF StartWalk
  <2>2. PathOK'
    BY <1>1, <1>2, <2>1 DEF PathOK
  <2>3. UnseenRoots' = UnseenRoots /\ Finished' = Finished
    BY <1>1, <2>1 DEF UnseenRoots, Roots, Finished
  <2>4. NoCycleYet'
    BY <1>1, <1>2, <1>4, <2>1, <2>3 DEF NoCycleYet
  <2>5. VerdictOK'
    BY <1>1, <1>2, <2>1, NoVerdictYet
  <2> QED
    BY <1>3, <2>2, <2>4, <2>5 DEF WalkInv
<1>5. CASE UnseenRoots # {}
  <2>1. PICK i \in UnseenRoots : Enter(Roots[i])
    BY <1>5 DEF StartWalk
  <2>2. verdict' = verdict
    BY <1>5 DEF StartWalk
  <2>3. PICK n : n = Roots[i] /\ n \in Nodes /\ n \notin visited
    BY <1>1, RootsAreNodes DEF UnseenRoots
  <2>4. PathOK' /\ NoCycleYet'
    BY <1>1, <1>2, <2>1, <2>2, <2>3, EnterKeeps
  <2>5. VerdictOK'
    BY <1>1, <1>2, <2>2, NoVerdictYet
  <2> QED
    BY <1>3, <2>4, <2>5 DEF WalkInv
<1> QED
  BY <1>4, <1>5

LEMMA DescendKeeps ==
    ASSUME PlanDataOK, WalkInv, Descend
    PROVE  WalkInv'
<1>1. /\ verdict = "walking" /\ calls # <<>> /\ asker' = asker /\ cycles' = cycles /\ def' = def
      /\ verdict' = verdict /\ def \in Definitions
  BY DEF Descend, planVars, PlanDataOK
<1>2. PathOK /\ NoCycleYet /\ FirstCycleOK /\ VerdictOK
  BY DEF WalkInv
<1>3. FirstCycleOK'
  BY <1>1, <1>2 DEF FirstCycleOK, IsCycle
<1>4. PICK k \in Ways(Head(calls)) : def.edges[k][2] \notin visited /\ Enter(def.edges[k][2])
  BY DEF Descend
<1>5. PICK n : n = def.edges[k][2]
  OBVIOUS
<1>6. k \in 1..Len(def.edges) /\ def.edges[k][1] = Head(calls)
  BY <1>4 DEF Ways
<1>7. n \in Nodes /\ n \notin visited /\ Enter(n) /\ Leads(def, Head(calls), n)
  BY <1>1, <1>4, <1>5, <1>6, DefinitionSays DEF Leads
<1>8. PathOK' /\ NoCycleYet'
  BY <1>1, <1>2, <1>7, EnterKeeps
<1>9. VerdictOK'
  BY <1>1, <1>2, NoVerdictYet
<1> QED
  BY <1>3, <1>8, <1>9 DEF WalkInv

\* The cycle to a node on the path begins where it stands.
LEMMA CycleIs ==
    ASSUME PathOK, NEW n \in onPath
    PROVE  \E j \in 1..Len(trail) : trail[j] = n /\ CycleAt(n) = Append(SubSeq(trail, j, Len(trail)), n)
<1>1. PICK Places : Places = {j \in 1..Len(trail) : trail[j] = n}
  OBVIOUS
<1>2. Places \in SUBSET Nat /\ Places # {}
  BY <1>1 DEF PathOK
<1>3. PICK start : start = CHOOSE j \in Places : First(j, Places)
  OBVIOUS
<1>4. start \in Places
  <2>1. \E j \in Places : First(j, Places)
    BY <1>2, LeastElement DEF First
  <2> QED
    BY <1>3, <2>1
<1>5. CycleAt(n) = Append(SubSeq(trail, start, Len(trail)), n)
  BY <1>1, <1>3 DEF CycleAt
<1> QED
  BY <1>1, <1>4, <1>5

LEMMA CycleIsReal ==
    ASSUME def \in Definitions, PathOK, calls # <<>>, NEW n \in onPath, Leads(def, Head(calls), n)
    PROVE  /\ CycleAt(n) \in Seq(Nodes)
           /\ NoCycleYet /\ cycles = <<>> => IsCycle(CycleAt(n))
<1>1. PICK j \in 1..Len(trail) : trail[j] = n /\ CycleAt(n) = Append(SubSeq(trail, j, Len(trail)), n)
  BY CycleIs
<1>2. PICK L, u, c : L = Len(trail) /\ u = SubSeq(trail, j, L) /\ c = Append(u, n)
  OBVIOUS
<1>3. /\ L \in Nat /\ L >= 1 /\ Head(calls) = trail[L] /\ j \in 1..L /\ n \in Nodes
      /\ \A i \in 1..L : trail[i] \in Nodes
  <2>1. L \in Nat /\ L >= 1 /\ Head(calls) = trail[L] /\ j \in 1..L
    BY <1>2, HeadIsTheEnd
  <2>2. \A i \in 1..L : trail[i] \in Nodes
    BY <1>2, ElementOfSeq DEF PathOK
  <2> QED
    BY <1>1, <2>1, <2>2
<1>4. u \in Seq(Nodes) /\ Len(u) = L - j + 1 /\ \A i \in 1..(L - j + 1) : u[i] = trail[j + i - 1]
  <2>1. j \in Int /\ L \in Int /\ \A i \in j..L : trail[i] \in Nodes
    BY <1>3
  <2>2. /\ SubSeq(trail, j, L) \in Seq(Nodes)
        /\ Len(SubSeq(trail, j, L)) = IF j <= L THEN L - j + 1 ELSE 0
        /\ \A i \in 1..(L - j + 1) : SubSeq(trail, j, L)[i] = trail[j + i - 1]
    BY <2>1, SubSeqProperties
  <2> QED
    BY <1>2, <1>3, <2>2
<1>5. /\ c \in Seq(Nodes) /\ Len(c) = L - j + 2 /\ c[L - j + 2] = n
      /\ \A i \in 1..(L - j + 1) : c[i] = trail[j + i - 1]
  <2>1. /\ c \in Seq(Nodes) /\ Len(c) = Len(u) + 1 /\ c[Len(u) + 1] = n
        /\ \A i \in 1..Len(u) : c[i] = u[i]
    BY <1>2, <1>3, <1>4, AppendProperties
  <2>2. Len(u) + 1 = L - j + 2
    BY <1>3, <1>4
  <2> QED
    BY <1>4, <2>1, <2>2
<1>6. CycleAt(n) = c
  BY <1>1, <1>2
<1>7. ASSUME NoCycleYet, cycles = <<>> PROVE IsCycle(c)
  <2>1. \A i \in 1..(L - 1) : Leads(def, trail[i], trail[i + 1])
    BY <1>2, <1>7 DEF NoCycleYet
  <2>2. Len(c) > 1 /\ c[1] = c[Len(c)]
    <3>1. 1 \in 1..(L - j + 1) /\ j + 1 - 1 = j
      BY <1>3
    <3>2. c[1] = trail[j]
      BY <1>5, <3>1
    <3> QED
      BY <1>1, <1>3, <1>5, <3>2
  <2>3. ASSUME NEW i \in 1..(Len(c) - 1)
        PROVE  \E k \in 1..Len(def.edges) : def.edges[k] = <<c[i], c[i + 1]>>
    <3>1. i \in 1..(L - j + 1) /\ c[i] = trail[j + i - 1]
      BY <1>3, <1>5
    <3>2. Leads(def, c[i], c[i + 1])
      <4>1. CASE i = L - j + 1
        <5>1. j + i - 1 = L /\ i + 1 = L - j + 2
          BY <1>3, <4>1
        <5> QED
          BY <1>3, <1>5, <3>1, <5>1
      <4>2. CASE i # L - j + 1
        <5>1. L \in Int /\ j \in Int /\ i \in Int /\ 1 <= i /\ i <= L - j /\ 1 <= j /\ j <= L
          <6>1. L \in Nat /\ j \in 1..L
            BY <1>3
          <6>2. i \in 1..(L - j + 1) /\ i # L - j + 1
            BY <3>1, <4>2
          <6> QED
            BY <6>1, <6>2
        <5>2. i + 1 \in 1..(L - j + 1) /\ j + i - 1 \in 1..(L - 1)
          BY <5>1
        <5>3. j + (i + 1) - 1 = (j + i - 1) + 1
          BY <5>1
        <5>4. c[i + 1] = trail[(j + i - 1) + 1]
          BY <1>5, <5>2, <5>3
        <5> QED
          BY <2>1, <3>1, <5>2, <5>4
      <4> QED
        BY <4>1, <4>2
    <3>3. PICK k \in 1..Len(def.edges) : def.edges[k][1] = c[i] /\ def.edges[k][2] = c[i + 1]
      BY <3>2 DEF Leads
    <3>4. def.edges[k] = <<def.edges[k][1], def.edges[k][2]>>
      BY DefinitionSays
    <3> QED
      BY <3>3, <3>4
  <2> QED
    BY <2>2, <2>3 DEF IsCycle
<1> QED
  BY <1>5, <1>6, <1>7

LEMMA CloseCycleKeeps ==
    ASSUME PlanDataOK, WalkInv, CloseCycle
    PROVE  WalkInv'
<1>1. /\ calls # <<>> /\ asker' = asker /\ def' = def /\ calls' = <<>> /\ visited' = visited
      /\ onPath' = onPath /\ trail' = trail /\ verdict' \in {"walking", "walked"} /\ def \in Definitions
  BY DEF CloseCycle, planVars, PlanDataOK
<1>2. PathOK /\ NoCycleYet /\ FirstCycleOK /\ VerdictOK
  BY DEF WalkInv
<1>3. PICK k \in Ways(Head(calls)) :
         def.edges[k][2] \in visited /\ cycles' = Append(cycles, CycleAt(def.edges[k][2]))
  BY DEF CloseCycle
<1>4. PICK n, c : n = def.edges[k][2] /\ c = CycleAt(n)
  OBVIOUS
<1>5. n \in onPath /\ Leads(def, Head(calls), n)
  BY <1>3, <1>4 DEF Ways, Leads
<1>6. c \in Seq(Nodes) /\ (cycles = <<>> => IsCycle(c))
  BY <1>1, <1>2, <1>4, <1>5, CycleIsReal
<1>7. cycles \in Seq(Seq(Nodes)) /\ Len(cycles) \in Nat
  BY <1>2, LenProperties DEF PathOK
<1>8. /\ cycles' \in Seq(Seq(Nodes)) /\ cycles' # <<>> /\ cycles'[Len(cycles) + 1] = c
      /\ \A i \in 1..Len(cycles) : cycles'[i] = cycles[i]
  <2>1. /\ Append(cycles, c) \in Seq(Seq(Nodes)) /\ Append(cycles, c) # <<>>
        /\ Append(cycles, c)[Len(cycles) + 1] = c
        /\ \A i \in 1..Len(cycles) : Append(cycles, c)[i] = cycles[i]
    BY <1>6, <1>7, AppendProperties
  <2>2. cycles' = Append(cycles, c)
    BY <1>3, <1>4
  <2> QED
    BY <2>1, <2>2
<1>9. PathOK'
  <2>1. <<>> \in Seq(Nodes) /\ Len(<<>>) = 0 /\ Len(trail) \in Nat
    BY <1>2, EmptySeq, LenProperties DEF PathOK
  <2> QED
    BY <1>1, <1>2, <1>8, <2>1 DEF PathOK
<1>10. NoCycleYet'
  BY <1>8 DEF NoCycleYet
<1>11. FirstCycleOK'
  <2>1. CASE cycles = <<>>
    <3>1. cycles'[1] = c /\ IsCycle(c)
      BY <1>6, <1>8, <2>1, EmptySeq
    <3>2. IsCycle(c)' <=> IsCycle(c)
      BY <1>1 DEF IsCycle
    <3> QED
      BY <1>1, <3>1 DEF FirstCycleOK, IsCycle
  <2>2. CASE cycles # <<>>
    <3>1. 1 \in 1..Len(cycles)
      BY <1>7, <2>2, EmptySeq
    <3>2. cycles'[1] = cycles[1] /\ IsCycle(cycles[1])
      BY <1>2, <1>8, <2>2, <3>1 DEF FirstCycleOK
    <3> QED
      BY <1>1, <3>2 DEF FirstCycleOK, IsCycle
  <2> QED
    BY <2>1, <2>2
<1>12. VerdictOK'
  BY <1>1, <1>2, NoVerdictYet
<1> QED
  BY <1>9, <1>10, <1>11, <1>12 DEF WalkInv

LEMMA LeaveKeeps ==
    ASSUME PlanDataOK, WalkInv, Leave
    PROVE  WalkInv'
<1>1. PICK n, c, t : n = Head(calls) /\ c = Tail(calls) /\ t = SubSeq(trail, 1, Len(trail) - 1)
  OBVIOUS
<1>2. /\ verdict = "walking" /\ calls # <<>> /\ asker' = asker /\ cycles' = cycles /\ def' = def
      /\ verdict' = verdict /\ def \in Definitions /\ Ways(n) = {}
      /\ calls' = c /\ onPath' = onPath \ {n} /\ trail' = t /\ visited' = visited
  BY <1>1 DEF Leave, planVars, PlanDataOK
<1>3. PathOK /\ NoCycleYet /\ FirstCycleOK /\ VerdictOK
  BY DEF WalkInv
<1>4. FirstCycleOK'
  BY <1>2, <1>3 DEF FirstCycleOK, IsCycle
<1>5. /\ Len(trail) \in Nat /\ Len(calls) \in Nat /\ Len(calls) >= 1 /\ Len(trail) >= 1
      /\ n = trail[Len(trail)] /\ n \in Nodes /\ n \in onPath
  BY <1>1, <1>2, <1>3, HeadIsTheEnd
<1>6. /\ calls \in Seq(Nodes) /\ visited \in SUBSET Nodes /\ cycles \in Seq(Seq(Nodes))
      /\ onPath \subseteq visited /\ onPath = {trail[i] : i \in 1..Len(trail)}
      /\ Len(calls) <= Len(trail) /\ \A i \in 1..Len(trail) : trail[i] \in Nodes
  BY <1>3, ElementOfSeq DEF PathOK
<1>7. /\ t \in Seq(Nodes) /\ Len(t) = Len(trail) - 1
      /\ \A i \in 1..(Len(trail) - 1) : t[i] = trail[i]
  <2>1. PICK e : e = Len(trail) - 1
    OBVIOUS
  <2>2. 1 \in Int /\ e \in Int /\ \A i \in 1..e : trail[i] \in Nodes
    BY <1>5, <1>6, <2>1
  <2>3. /\ SubSeq(trail, 1, e) \in Seq(Nodes)
        /\ Len(SubSeq(trail, 1, e)) = IF 1 <= e THEN e - 1 + 1 ELSE 0
        /\ \A i \in 1..(e - 1 + 1) : SubSeq(trail, 1, e)[i] = trail[1 + i - 1]
    BY <2>2, SubSeqProperties
  <2>4. e - 1 + 1 = e /\ (1 <= e \/ e = 0) /\ \A i \in 1..e : 1 + i - 1 = i
    BY <1>5, <2>1
  <2> QED
    BY <1>1, <2>1, <2>3, <2>4
<1>8. /\ c \in Seq(Nodes) /\ Len(c) = Len(calls) - 1
      /\ \A i \in 1..(Len(calls) - 1) : c[i] = calls[i + 1]
  BY <1>1, <1>2, <1>6, HeadTailProperties
<1>9. ASSUME NEW i \in 1..Len(c) PROVE c[i] = t[Len(t) + 1 - i]
  <2>1. i + 1 \in 1..Len(calls) /\ c[i] = calls[i + 1]
    BY <1>5, <1>8
  <2>2. calls[i + 1] = trail[Len(trail) + 1 - (i + 1)]
    BY <1>3, <2>1 DEF PathOK
  <2>3. /\ Len(trail) + 1 - (i + 1) \in 1..(Len(trail) - 1)
        /\ Len(t) + 1 - i = Len(trail) + 1 - (i + 1)
    <3>1. /\ i \in Int /\ Len(trail) \in Int /\ 1 <= i /\ i <= Len(trail) - 1
          /\ Len(t) = Len(trail) - 1
      BY <1>5, <1>6, <1>7, <1>8
    <3> QED
      BY <3>1
  <2> QED
    BY <1>7, <2>1, <2>2, <2>3
<1>10. \A i \in 1..Len(t) : i \in 1..Len(trail) /\ i # Len(trail) /\ t[i] = trail[i]
  BY <1>5, <1>7
<1>11. \A i \in 1..Len(trail) : i \in 1..Len(t) \/ i = Len(trail)
  BY <1>5, <1>7
<1>12. \A i, j \in 1..Len(trail) : trail[i] = trail[j] => i = j
  BY <1>3 DEF PathOK
<1>13. onPath \ {n} = {t[i] : i \in 1..Len(t)}
  <2>1. \A i \in 1..Len(t) : t[i] \in onPath /\ t[i] # n
    <3>1. Len(trail) \in 1..Len(trail)
      BY <1>5
    <3> QED
      BY <1>5, <1>6, <1>10, <1>12, <3>1
  <2>2. \A x \in onPath \ {n} : \E i \in 1..Len(t) : t[i] = x
    BY <1>5, <1>6, <1>10, <1>11
  <2> QED
    BY <2>1, <2>2
<1>14. \A i, j \in 1..Len(t) : t[i] = t[j] => i = j
  BY <1>10, <1>12
<1>15. PathOK'
  <2>1. Len(c) <= Len(t)
    BY <1>5, <1>6, <1>7, <1>8
  <2> QED
    BY <1>2, <1>6, <1>7, <1>8, <1>9, <1>13, <1>14, <2>1 DEF PathOK
<1>16. NoCycleYet'
  <2> SUFFICES ASSUME cycles = <<>>
               PROVE  /\ Len(calls') = Len(trail')
                      /\ \A i \in 1..(Len(trail') - 1) : Leads(def', trail'[i], trail'[i + 1])
                      /\ LeadsNowhereElse(def', Finished') /\ Loopless(def', Finished')
    BY <1>2 DEF NoCycleYet
  <2>1. /\ Len(calls) = Len(trail)
        /\ \A i \in 1..(Len(trail) - 1) : Leads(def, trail[i], trail[i + 1])
        /\ LeadsNowhereElse(def, Finished) /\ Loopless(def, Finished)
    BY <1>3 DEF NoCycleYet
  <2>2. Finished' = Finished \cup {n} /\ n \notin Finished
    BY <1>2, <1>5, <1>6 DEF Finished
  <2>3. \A m \in Nodes : Leads(def, n, m) => m \in Finished
    BY <1>2 DEF Leads, Ways, Finished
  <2>4. PICK F : F = Finished
    OBVIOUS
  <2>5. LeadsNowhereElse(def, F \cup {n}) /\ Loopless(def, F \cup {n})
    BY <1>5, <2>1, <2>2, <2>3, <2>4, OneMoreLeft
  <2>6. \A i \in 1..(Len(t) - 1) : Leads(def, t[i], t[i + 1])
    <3> SUFFICES ASSUME NEW i \in 1..(Len(t) - 1) PROVE Leads(def, t[i], t[i + 1])
      OBVIOUS
    <3>1. i \in 1..(Len(trail) - 1) /\ i + 1 \in 1..(Len(trail) - 1)
      BY <1>5, <1>7
    <3> QED
      BY <1>7, <2>1, <3>1
  <2>7. Len(c) = Len(t)
    BY <1>5, <1>7, <1>8, <2>1
  <2> QED
    BY <1>2, <2>2, <2>4, <2>5, <2>6, <2>7
<1>17. VerdictOK'
  BY <1>2, <1>3, NoVerdictYet
<1> QED
  BY <1>4, <1>15, <1>16, <1>17 DEF WalkInv

\* A limit is all that "graph" asks for more.
LEMMA SoundSays ==
    ASSUME NEW type \in Types, NEW limited \in BOOLEAN, Sound(type, limited)
    PROVE  /\ Sound(type, TRUE)
           /\ type # "single" => Reached = NodeSet(def)
           /\ type = "single" => Len(def.nodes) = 1 /\ def.edges = <<>>
           /\ type = "sequential" => Len(def.edges) = Len(def.nodes) - 1 /\ cycles = <<>>
           /\ type = "tree" => /\ cycles = <<>>
                               /\ \A n \in NodeSet(def) \ {def.entry} :
                                     \E k \in Parents(n) : Parents(n) = {k}
<1>1. CASE type = "single"
  BY <1>1 DEF Sound
<1>2. CASE type = "sequential"
  BY <1>2 DEF Sound
<1>3. CASE type = "tree"
  BY <1>3 DEF Sound
<1>4. CASE type = "graph"
  BY <1>4 DEF Sound
<1> QED
  BY <1>1, <1>2, <1>3, <1>4 DEF Types

LEMMA VerdictsKeep ==
    ASSUME WalkInv, NEW type \in Types, NEW limited \in BOOLEAN,
           Validate(type, limited) \/ Create(type, limited)
    PROVE  WalkInv'
<1>1. /\ asker' = asker /\ verdict = "walked" /\ calls' = calls /\ visited' = visited /\ def' = def
      /\ onPath' = onPath /\ trail' = trail /\ cycles' = cycles
  BY DEF Validate, Create, planVars
<1>2. PathOK'
  BY <1>1 DEF WalkInv, PathOK
<1>3. NoCycleYet'
  <2>1. Finished' = Finished /\ UnseenRoots' = UnseenRoots
    BY <1>1 DEF Finished, UnseenRoots, Roots
  <2> QED
    BY <1>1, <2>1 DEF WalkInv, NoCycleYet
<1>4. FirstCycleOK'
  BY <1>1 DEF WalkInv, FirstCycleOK, IsCycle
<1>5. VerdictOK'
  <2>1. CASE Validate(type, limited)
    <3>1. asker = "validate" /\ verdict' \in {"walking", "walked", "rejected"} \cup Types
      BY <2>1 DEF Validate
    <3> QED
      BY <1>1, <3>1 DEF VerdictOK
  <2>2. CASE Create(type, limited)
    <3>1. CASE Sound(type, limited) /\ \A n \in NodeSet(def) : Staffed(n)
      <4>1. verdict' = type /\ asker = "create"
        BY <2>2, <3>1 DEF Create
      <4>2. Sound(type, TRUE)
        BY <3>1, SoundSays
      <4>3. \A t : Sound(t, TRUE)' <=> Sound(t, TRUE)
        BY <1>1, SoundStays
      <4>4. \A n : Staffed(n)' = Staffed(n)
        BY <1>1 DEF Staffed
      <4> QED
        BY <1>1, <3>1, <4>1, <4>2, <4>3, <4>4 DEF VerdictOK
    <3>2. CASE ~(Sound(type, limited) /\ \A n \in NodeSet(def) : Staffed(n))
      <4>1. verdict' = "rejected"
        BY <2>2, <3>2 DEF Create
      <4> QED
        BY <1>1, <4>1, NoVerdictYet DEF WalkInv
    <3> QED
      BY <3>1, <3>2
  <2> QED
    BY <2>1, <2>2
<1> QED
  BY <1>2, <1>3, <1>4, <1>5 DEF WalkInv

\* Planning leaves the definition as it is.
LEMMA PlanKeepsDef == ASSUME [PlanNext]_planVars PROVE def' = def
BY DEF PlanNext, planVars, Visit, FinishOrder, Staff, CreateTask, FinishTasks

\* Every step of the checks keeps the invariant, and planning beside them.
LEMMA ChecksInvNext ==
    ASSUME ChecksInv, ChecksNext \/ ([PlanNext]_planVars /\ UNCHANGED checkVars)
    PROVE  ChecksInv'
<1>1. PlanInv /\ InOrder /\ WalkInv /\ PlanDataOK
  BY DEF ChecksInv, PlanInv
<1>2. CASE [PlanNext]_planVars /\ UNCHANGED checkVars
  <2>1. def' = def
    BY <1>2, PlanKeepsDef
  <2> QED
    BY <1>1, <1>2, <2>1, PlanStepKeepsInv, InOrderNext, WalkRests DEF ChecksInv
<1>3. CASE PlanStored
  BY <1>2, <1>3 DEF PlanStored
<1>4. ASSUME UNCHANGED planVars, WalkInv' PROVE ChecksInv'
  BY <1>1, <1>4, PlanStepKeepsInv, InOrderNext DEF ChecksInv
<1>5. CASE StartWalk
  BY <1>1, <1>4, <1>5, StartWalkKeeps DEF StartWalk
<1>6. CASE Descend
  BY <1>1, <1>4, <1>6, DescendKeeps DEF Descend
<1>7. CASE CloseCycle
  BY <1>1, <1>4, <1>7, CloseCycleKeeps DEF CloseCycle
<1>8. CASE Leave
  BY <1>1, <1>4, <1>8, LeaveKeeps DEF Leave
<1>9. CASE \E type \in Types, limited \in BOOLEAN : Validate(type, limited) \/ Create(type, limited)
  BY <1>1, <1>4, <1>9, VerdictsKeep DEF Validate, Create
<1> QED
  BY <1>2, <1>3, <1>5, <1>6, <1>7, <1>8, <1>9 DEF ChecksNext

LEMMA ChecksInvInit == PlanInit /\ WalkInit => ChecksInv
<1> SUFFICES ASSUME PlanInit, WalkInit PROVE ChecksInv
  OBVIOUS
<1>1. PlanInv
  BY PlanInitInv
<1>2. InOrder
  BY DEF InOrder, OwnCrew, PlanInit
<1>3. WalkInv
  BY <1>1, WalkInvInit DEF PlanInv, PlanDataOK
<1> QED
  BY <1>1, <1>2, <1>3 DEF ChecksInv

-----------------------------------------------------------------------------
(* What the checks say                                                     *)

\* A walk that ended without a cycle has been wherever one could be.
LEMMA NoCycleThen ==
    ASSUME def \in Definitions, PathOK, NoCycleYet, verdict # "walking", cycles = <<>>
    PROVE  ~HasCycle(def)
<1> SUFFICES ASSUME NEW S \in SUBSET NodeSet(def), S # {},
                    \A n \in S : \E m \in S : Leads(def, m, n)
             PROVE  FALSE
  BY CyclesAre
<1>1. /\ calls = <<>> /\ UnseenRoots = {} /\ Len(calls) = Len(trail)
      /\ LeadsNowhereElse(def, Finished) /\ Loopless(def, Finished)
  BY DEF NoCycleYet
<1>2. Finished = visited
  <2>1. Len(trail) = 0
    BY <1>1, EmptySeq
  <2> QED
    BY <2>1 DEF Finished, PathOK
<1>3. \A n \in S : n \in Nodes
  BY DefinitionSays DEF NodeSet
<1>4. ASSUME NEW m \in S, NEW n \in S, Leads(def, m, n) PROVE m \in visited
  <2>1. \A i \in 1..Len(Roots) : Roots[i] \in visited
    BY <1>1 DEF UnseenRoots
  <2>2. CASE asker = "canvas"
    <3>1. PICK k \in 1..Len(def.edges) : def.edges[k][1] = m
      BY <1>4 DEF Leads
    <3>2. k \in 1..Len(Roots) /\ Roots[k] = m
      BY <2>2, <3>1, RootsAreNodes
    <3> QED
      BY <2>1, <3>2
  <2>3. CASE asker # "canvas"
    <3>1. PICK i \in 1..Len(def.nodes) : def.nodes[i] = m
      BY DEF NodeSet
    <3>2. Roots = def.nodes
      BY <2>3, RootsAreNodes
    <3> QED
      BY <2>1, <3>1, <3>2
  <2> QED
    BY <2>2, <2>3
<1>5. \A n \in S : n \in Finished
  <2> SUFFICES ASSUME NEW n \in S PROVE n \in Finished
    OBVIOUS
  <2>1. PICK m \in S : Leads(def, m, n)
    OBVIOUS
  <2>2. m \in Finished /\ n \in Nodes
    BY <1>2, <1>3, <1>4, <2>1
  <2> QED
    BY <1>1, <2>1, <2>2 DEF LeadsNowhereElse
<1>6. S \in SUBSET Finished
  BY <1>5
<1> QED
  BY <1>1, <1>6 DEF Loopless

\* A cycle that is one is in the graph.
LEMMA CycleIsThere ==
    ASSUME def \in Definitions, NEW c, IsCycle(c), Len(c) \in Nat
    PROVE  HasCycle(def)
<1>1. PICK n : n = Len(c)
  OBVIOUS
<1>2. n \in Nat /\ n > 1 /\ c[1] = c[n] /\ \A i \in 1..(n - 1) : Leads(def, c[i], c[i + 1])
  <2>1. n \in Nat /\ n > 1 /\ c[1] = c[n]
    BY <1>1 DEF IsCycle
  <2>2. ASSUME NEW i \in 1..(n - 1) PROVE Leads(def, c[i], c[i + 1])
    <3>1. PICK k \in 1..Len(def.edges) : def.edges[k] = <<c[i], c[i + 1]>>
      BY <1>1 DEF IsCycle
    <3>2. def.edges[k][1] = c[i] /\ def.edges[k][2] = c[i + 1]
      BY <3>1
    <3> QED
      BY <3>2 DEF Leads
  <2> QED
    BY <2>1, <2>2
<1>3. PICK S : S = {c[i] : i \in 1..n}
  OBVIOUS
<1>4. ASSUME NEW x \in S PROVE \E m \in S : Leads(def, m, x)
  <2>1. PICK i \in 2..n : c[i] = x
    <3>1. PICK j \in 1..n : c[j] = x
      BY <1>3
    <3>2. CASE j = 1
      BY <1>2, <3>1, <3>2
    <3>3. CASE j # 1
      BY <1>2, <3>1, <3>3
    <3> QED
      BY <3>2, <3>3
  <2>2. i - 1 \in 1..(n - 1) /\ (i - 1) + 1 = i /\ i - 1 \in 1..n
    BY <1>2
  <2>3. Leads(def, c[i - 1], c[(i - 1) + 1])
    BY <1>2, <2>2
  <2>4. c[i - 1] \in S
    BY <1>3, <2>2
  <2> QED
    BY <2>1, <2>2, <2>3, <2>4
<1>5. S \in SUBSET NodeSet(def)
  <2> SUFFICES ASSUME NEW x \in S PROVE x \in NodeSet(def)
    OBVIOUS
  <2>1. PICK k \in 1..Len(def.edges) : def.edges[k][2] = x
    BY <1>4 DEF Leads
  <2> QED
    BY <2>1, EndsAreNodes
<1>6. S # {}
  BY <1>2, <1>3
<1> QED
  BY <1>4, <1>5, <1>6, CyclesAre

LEMMA CyclesAreNoticedThen == ASSUME ChecksInv PROVE CyclesAreNoticed
<1>1. PathOK /\ NoCycleYet /\ FirstCycleOK /\ def \in Definitions
  BY DEF ChecksInv, WalkInv, PlanInv, PlanDataOK
<1>2. ASSUME cycles # <<>> PROVE IsCycle(cycles[1]) /\ HasCycle(def)
  <2>1. cycles \in Seq(Seq(Nodes)) /\ Len(cycles) \in Nat /\ 1 \in 1..Len(cycles)
    BY <1>1, <1>2, LenProperties, EmptySeq DEF PathOK
  <2>2. cycles[1] \in Seq(Nodes)
    BY <2>1, ElementOfSeq
  <2>3. Len(cycles[1]) \in Nat
    BY <2>2, LenProperties
  <2>4. IsCycle(cycles[1])
    BY <1>1, <1>2 DEF FirstCycleOK
  <2> QED
    BY <1>1, <2>3, <2>4, CycleIsThere
<1>3. ASSUME verdict = "walked", cycles = <<>> PROVE ~HasCycle(def)
  BY <1>1, <1>3, NoCycleThen
<1> QED
  BY <1>2, <1>3 DEF CyclesAreNoticed

-----------------------------------------------------------------------------
(* What they accept                                                        *)

\* What was accepted is reached from its entry.
LEMMA StoredSpans ==
    ASSUME def \in Definitions, NEW type \in Types, Sound(type, TRUE)
    PROVE  Spans(def)
<1>1. /\ type # "single" => Reached = NodeSet(def)
      /\ type = "single" => Len(def.nodes) = 1 /\ def.edges = <<>>
  BY SoundSays
<1>2. CASE type # "single"
  BY <1>1, <1>2, ReachedIsWhole
<1>3. CASE type = "single"
  <2>1. NodeSet(def) = {def.entry}
    BY <1>1, <1>3, DefinitionSays DEF NodeSet, In
  <2> QED
    BY <2>1 DEF Spans
<1> QED
  BY <1>2, <1>3

\* A definition has as many nodes as it names.
LEMMA NodesAreCounted ==
    ASSUME NEW d \in Definitions
    PROVE  /\ IsFiniteSet(NodeSet(d)) /\ Cardinality(NodeSet(d)) = Len(d.nodes)
           /\ d.entry \in NodeSet(d)
<1>1. PICK n, s : n = Len(d.nodes) /\ n \in Nat /\ s = NodeSet(d)
  BY DefinitionSays
<1>2. PICK g : g = [i \in 1..n |-> d.nodes[i]]
  OBVIOUS
<1>3. g \in [1..n -> s]
  BY <1>1, <1>2 DEF NodeSet
<1>4. \A i, j \in 1..n : g[i] = g[j] => i = j
  BY <1>1, <1>2, DefinitionSays DEF WellFormed
<1>5. \A x \in s : \E i \in 1..n : g[i] = x
  BY <1>1, <1>2 DEF NodeSet
<1>6. g \in Bijection(1..n, s)
  BY <1>3, <1>4, <1>5 DEF Bijection, Injection, Surjection, IsInjective
<1>7. ExistsBijection(1..n, s)
  BY <1>6 DEF ExistsBijection
<1>8. 1 \in Int /\ n \in Int
  BY <1>1
<1>9. IsFiniteSet(1..n)
  BY <1>8, FS_Interval
<1>10. Cardinality(1..n) = IF 1 > n THEN 0 ELSE n - 1 + 1
  BY <1>8, FS_Interval
<1>11. Cardinality(1..n) = n
  BY <1>1, <1>10
<1>12. IsFiniteSet(s) /\ Cardinality(s) = Cardinality(1..n)
  BY <1>7, <1>9, FS_Bijection
<1>13. d.entry \in NodeSet(d)
  BY DefinitionSays DEF In, NodeSet
<1> QED
  BY <1>1, <1>11, <1>12, <1>13

\* With one edge less than nodes, and every node but the entry led to, no two edges lead
\* to one node.
LEMMA EdgesAreCounted ==
    ASSUME NEW d \in Definitions, Spans(d), ~HasCycle(d), Len(d.edges) = Len(d.nodes) - 1
    PROVE  \A j, k \in 1..Len(d.edges) : d.edges[j][2] = d.edges[k][2] => j = k
<1>1. PICK l, s, f : /\ l = Len(d.edges) /\ l \in Nat /\ s = NodeSet(d) \ {d.entry}
                     /\ f = [k \in 1..l |-> d.edges[k][2]]
  BY DefinitionSays
<1>2. ASSUME NEW k \in 1..l PROVE d.edges[k][2] \in s
  <2>1. d.edges[k][1] \in NodeSet(d) /\ d.edges[k][2] \in NodeSet(d)
    BY <1>1, EndsAreNodes
  <2>2. Leads(d, d.edges[k][1], d.edges[k][2])
    BY <1>1 DEF Leads
  <2>3. d.edges[k][2] # d.entry
    BY <2>1, <2>2, NothingLeadsToTheEntry
  <2> QED
    BY <1>1, <2>1, <2>3
<1>3. ASSUME NEW x \in s PROVE \E k \in 1..l : f[k] = x
  <2>1. PICK m \in NodeSet(d) : Leads(d, m, x)
    BY <1>1, SpannedIsLedTo
  <2> QED
    BY <1>1, <2>1 DEF Leads
<1>4. f \in [1..l -> s]
  BY <1>1, <1>2
<1>5. f \in Surjection(1..l, s)
  BY <1>3, <1>4 DEF Surjection
<1>6. IsFiniteSet(s) /\ Cardinality(s) = Len(d.nodes) - 1
  BY <1>1, NodesAreCounted, FS_RemoveElement
<1>7. 1 \in Int /\ l \in Int
  BY <1>1
<1>8. IsFiniteSet(1..l)
  BY <1>7, FS_Interval
<1>9. Cardinality(1..l) = IF 1 > l THEN 0 ELSE l - 1 + 1
  BY <1>7, FS_Interval
<1>10. Cardinality(1..l) = Cardinality(s)
  BY <1>1, <1>6, <1>9
<1>11. f \in Injection(1..l, s)
  BY <1>5, <1>8, <1>10, FS_SurjSameCardinalityImpliesInj
<1>12. \A j, k \in 1..l : f[j] = f[k] => j = k
  BY <1>4, <1>11 DEF Injection, IsInjective
<1> QED
  BY <1>1, <1>12

\* Accepted as sequential or as a tree, it is a tree.
LEMMA StoredAreTrees ==
    ASSUME def \in Definitions, NEW type \in {"sequential", "tree"}, Sound(type, TRUE),
           ~HasCycle(def), def.edges # <<>>
    PROVE  IsTree(def)
<1>1. type \in Types /\ TRUE \in BOOLEAN
  BY DEF Types
<1>2. Spans(def)
  BY <1>1, StoredSpans
<1>3. \A k \in 1..Len(def.edges) : def.edges[k][1] \in NodeSet(def) /\ def.edges[k][2] \in NodeSet(def)
  BY EndsAreNodes
<1>4. \A k \in 1..Len(def.edges) : def.edges[k][2] # def.entry
  <2> SUFFICES ASSUME NEW k \in 1..Len(def.edges), def.edges[k][2] = def.entry PROVE FALSE
    OBVIOUS
  <2>1. Leads(def, def.edges[k][1], def.entry)
    BY DEF Leads
  <2> QED
    BY <1>2, <1>3, <2>1, NothingLeadsToTheEntry
<1>5. \A j, k \in 1..Len(def.edges) : def.edges[j][2] = def.edges[k][2] => j = k
  <2>1. CASE type = "sequential"
    <3>1. Len(def.edges) = Len(def.nodes) - 1
      BY <1>1, <2>1, SoundSays
    <3> QED
      BY <1>2, <3>1, EdgesAreCounted
  <2>2. CASE type = "tree"
    <3>1. \A n \in NodeSet(def) \ {def.entry} : \E k \in Parents(n) : Parents(n) = {k}
      BY <1>1, <2>2, SoundSays
    <3> SUFFICES ASSUME NEW j \in 1..Len(def.edges), NEW k \in 1..Len(def.edges),
                        def.edges[j][2] = def.edges[k][2]
                 PROVE  j = k
      OBVIOUS
    <3>2. PICK n : n = def.edges[k][2]
      OBVIOUS
    <3>3. n \in NodeSet(def) \ {def.entry}
      BY <1>3, <1>4, <3>2
    <3>4. j \in Parents(n) /\ k \in Parents(n)
      BY <3>2 DEF Parents
    <3> QED
      BY <3>1, <3>3, <3>4
  <2> QED
    BY <2>1, <2>2
<1> QED
  BY <1>2, <1>4, <1>5 DEF IsTree, Spans

\* Where nothing leads anywhere the entry is all there is.
LEMMA AloneItStands ==
    ASSUME NEW d \in Definitions, Spans(d), d.edges = <<>>
    PROVE  NodeSet(d) = {d.entry}
<1>1. d.entry \in NodeSet(d)
  BY NodesAreCounted
<1>2. Len(d.edges) = 0
  BY EmptySeq
<1>3. Closed(d, {d.entry})
  BY <1>2 DEF Closed
<1> QED
  BY <1>1, <1>3 DEF Spans

LEMMA AcceptedRunAsDrawn == ASSUME ChecksInv PROVE AcceptedGraphsRunAsDrawn
<1> SUFFICES ASSUME asker = "create", verdict \in Types, FromNodes
             PROVE  /\ TaskNodesOf = NodeSet(def)
                    /\ \A i \in 2..Len(tasks) :
                          \E j \in 1..(i - 1) : tasks[j].node \in Predecessors(tasks[i].node)
                    /\ verdict \in {"sequential", "tree"} =>
                          \A i \in 1..Len(tasks) : tasks[i].context = Predecessors(tasks[i].node)
  BY DEF AcceptedGraphsRunAsDrawn
<1>1. /\ PlanInv /\ InOrder /\ PathOK /\ NoCycleYet /\ VerdictOK
      /\ PlanDataOK /\ OrderOK /\ WalkOK /\ NodeTasksOK /\ def \in Definitions
  BY DEF ChecksInv, PlanInv, WalkInv, PlanDataOK
<1>2. Sound(verdict, TRUE) /\ \A n \in NodeSet(def) : Staffed(n)
  BY <1>1 DEF VerdictOK
<1>3. Spans(def)
  BY <1>1, <1>2, StoredSpans
<1>4. EveryStaffedNodeHasOneTask /\ ContextComesFirst /\ TreesKeepTheirContext
  BY <1>1, PlanInvSays DEF PlanIsFaithful
<1>5. Len(tasks) \in Nat /\ Len(ordered) \in Nat
  BY <1>1, OrderedNodes
<1>6. \A i \in 1..Len(tasks) : tasks[i].node \in NodeSet(def)
  BY <1>4 DEF EveryStaffedNodeHasOneTask
<1>7. TaskNodesOf = NodeSet(def)
  <2>1. ASSUME NEW n \in NodeSet(def) PROVE \E i \in 1..Len(tasks) : tasks[i].node = n
    <3>1. PICK nodes : nodes = [i \in 1..Len(tasks) |-> tasks[i].node]
      OBVIOUS
    <3>2. In(n, nodes)
      BY <1>2, <1>4, <3>1 DEF EveryStaffedNodeHasOneTask
    <3>3. Len(nodes) = Len(tasks) /\ \A i \in 1..Len(tasks) : nodes[i] = tasks[i].node
      BY <1>5, <3>1
    <3> QED
      BY <3>2, <3>3 DEF In
  <2> QED
    BY <1>6, <2>1 DEF TaskNodesOf
<1>8. OwnCrew /\ explicit = FALSE
  BY <1>1 DEF FromNodes, OwnCrew, PlanDataOK
<1>9. AllStaffed
  <2> SUFFICES ASSUME NEW p \in 1..Len(ordered) PROVE Staffed(ordered[p])
    BY DEF AllStaffed
  <2>1. In(ordered[p], def.nodes)
    BY <1>1 DEF OrderOK, IsOrder
  <2> QED
    BY <1>2, <2>1 DEF In, NodeSet
<1>10. Len(tasks) <= Len(ordered) /\ \A i \in 1..Len(tasks) : tasks[i].node = ordered[i]
  BY <1>1, <1>8, <1>9 DEF InOrder
<1>11. ASSUME NEW i \in 2..Len(tasks)
       PROVE  \E j \in 1..(i - 1) : tasks[j].node \in Predecessors(tasks[i].node)
  <2>1. i \in 2..Len(ordered) /\ i \in 1..Len(tasks) /\ \A j \in 1..(i - 1) : j \in 1..Len(tasks)
    BY <1>5, <1>10
  <2>2. PICK k \in 1..Len(def.edges), j \in 1..(i - 1) :
           def.edges[k][1] = ordered[j] /\ def.edges[k][2] = ordered[i]
    BY <1>1, <1>3, <2>1 DEF WalkOK
  <2>3. tasks[j].node = ordered[j] /\ tasks[i].node = ordered[i]
    BY <1>10, <2>1
  <2>4. def.edges[k] = <<def.edges[k][1], def.edges[k][2]>> /\ def.edges[k][1] \in Nodes
    BY <1>1, DefinitionSays
  <2>5. tasks[j].node \in Predecessors(tasks[i].node)
    BY <2>2, <2>3, <2>4 DEF Predecessors
  <2> QED
    BY <2>5
<1>12. ASSUME verdict \in {"sequential", "tree"}, NEW i \in 1..Len(tasks)
       PROVE  tasks[i].context = Predecessors(tasks[i].node)
  <2>1. CASE def.edges = <<>>
    <3>1. NodeSet(def) = {def.entry}
      BY <1>1, <1>3, <2>1, AloneItStands
    <3>2. i = 1
      <4>1. 1 \in 1..Len(tasks) /\ tasks[1].node = tasks[i].node
        BY <1>5, <1>6, <3>1
      <4> QED
        BY <1>4, <4>1 DEF EveryStaffedNodeHasOneTask
    <3>3. tasks[i].context = {}
      BY <1>4, <3>2 DEF ContextComesFirst
    <3>4. Predecessors(tasks[i].node) = {}
      <4>1. Len(def.edges) = 0
        BY <2>1, EmptySeq
      <4> QED
        BY <4>1 DEF Predecessors
    <3> QED
      BY <3>3, <3>4
  <2>2. CASE def.edges # <<>>
    <3>1. cycles = <<>>
      BY <1>2, <1>12, SoundSays DEF Types
    <3>2. ~HasCycle(def)
      BY <1>1, <3>1, NoCycleThen DEF Types
    <3>3. IsTree(def)
      BY <1>1, <1>2, <1>12, <2>2, <3>2, StoredAreTrees
    <3>4. tasks[i].context = {m \in Predecessors(tasks[i].node) : Staffed(m)}
      BY <1>4, <3>3 DEF TreesKeepTheirContext
    <3>5. ASSUME NEW m \in Predecessors(tasks[i].node) PROVE Staffed(m)
      <4>1. PICK k \in 1..Len(def.edges) : def.edges[k] = <<m, tasks[i].node>>
        BY DEF Predecessors
      <4>2. In(m, def.nodes)
        BY <1>1, <4>1, DefinitionSays
      <4> QED
        BY <1>2, <4>2 DEF In, NodeSet
    <3> QED
      BY <3>4, <3>5
  <2> QED
    BY <2>1, <2>2
<1> QED
  BY <1>7, <1>11, <1>12

\* What the checks say of a graph, the canvas and the run find in it, for all definitions
\* and whatever is asked: a cycle is reported just when there is one, and what
\* POST /topologies stores runs as drawn (detect_cycles, validate_topology, _create_tasks).
THEOREM ChecksAlwaysHoldInTheRun == ChecksSpec => []ChecksHoldInTheRun
<1>1. ChecksInit => ChecksInv
  BY ChecksInvInit DEF ChecksInit
<1>2. ChecksInv /\ [ChecksNext]_<<planVars, checkVars>> => ChecksInv'
  BY ChecksInvNext
<1>3. ChecksInv => ChecksHoldInTheRun
  BY CyclesAreNoticedThen, AcceptedRunAsDrawn DEF ChecksHoldInTheRun
<1> QED
  BY <1>1, <1>2, <1>3, PTL DEF ChecksSpec

-----------------------------------------------------------------------------
(***************************************************************************)
(* What the checks accept and the tests report, together (MCChecks)        *)
(***************************************************************************)

\* A run plans, or leaves the plan as it is.
LEMMA RunsPlanOrRest == RunNext => [PlanNext]_planVars
  BY DEF RunNext, Plan, Kickoff, TaskDone, Returns, Raises, OwnStep, Delegated, Delegate, Step,
     Announce, Answer, Report

\* Whichever part moves, checks and suites keep what they have.
LEMMA ChecksKeepTogether ==
    ASSUME ChecksInv, SuitesInv, [Next]_all
    PROVE  ChecksInv' /\ SuitesInv'
<1>1. ASSUME UNCHANGED suiteVars PROVE SuitesInv'
  BY <1>1, SuitesInvNext
<1>2. ASSUME UNCHANGED <<planVars, checkVars>> PROVE ChecksInv'
  BY <1>2, ChecksInvNext
<1>3. CASE RunNext /\ UNCHANGED <<checkVars, suiteVars>>
  <2>1. [PlanNext]_planVars /\ UNCHANGED checkVars
    BY <1>3, RunsPlanOrRest
  <2> QED
    BY <1>1, <1>3, <2>1, ChecksInvNext
<1>4. CASE ChecksNext /\ UNCHANGED suiteVars
  BY <1>1, <1>4, ChecksInvNext
<1>5. CASE SuitesNext /\ UNCHANGED <<planVars, checkVars>>
  BY <1>2, <1>5, SuitesInvNext
<1>6. CASE UNCHANGED <<planVars, checkVars, suiteVars>>
  BY <1>1, <1>2, <1>6
<1> QED
  BY <1>3, <1>4, <1>5, <1>6 DEF Next, all, vars

\* The checks tell the truth about what a run will find, and the tests about what theirs
\* found, for all values of the constants.
THEOREM ChecksAlwaysTellTheTruth == Spec => []ChecksTellTheTruth
<1>1. Init => ChecksInv /\ SuitesInv
  BY ChecksInvInit, SuitesInvInit DEF Init, RunInit
<1>2. ChecksInv /\ SuitesInv /\ [Next]_all => (ChecksInv /\ SuitesInv)'
  BY ChecksKeepTogether
<1>3. ChecksInv /\ SuitesInv => ChecksTellTheTruth
  BY CyclesAreNoticedThen, AcceptedRunAsDrawn, SuitesInvSays DEF ChecksTellTheTruth, ChecksHoldInTheRun
<1> QED
  BY <1>1, <1>2, <1>3, PTL DEF Spec
=============================================================================

------------------------------ MODULE Chunking ------------------------------
(***************************************************************************)
(* chunk_text (src/rag/chunking.py): a text is cut into chunks that end at *)
(* a boundary where one is near and begin again before the end of the      *)
(* chunk before, at a boundary where one is near.  One step is one turn of *)
(* the loop.  Places are counted from the front, so that a place p of a    *)
(* text stands before its character p + 1, as in a slice.                  *)
(***************************************************************************)
EXTENDS Integers, Sequences, FiniteSetsExt

CONSTANTS
    Texts,          \* what _normalise may return
    Sizes,          \* chunk_chars, with a MIN_CHUNK_CHARS the texts can exceed
    Overlaps,       \* overlap_chars
    LookAhead       \* look_ahead

Letter  == "a"
Capital == "A"      \* what a sentence may begin with
Stop    == "."      \* what a sentence may end with
Blank   == " "
Line    == "\n"

White == {Blank, Line}
Characters == {Letter, Capital, Stop} \cup White

\* No two blanks or three line ends in a row, nothing white at either end.
Normalised(t) ==
    /\ \A i \in 1..(Len(t) - 1) : ~(t[i] = Blank /\ t[i+1] = Blank)
    /\ \A i \in 1..(Len(t) - 2) : ~(t[i] = Line /\ t[i+1] = Line /\ t[i+2] = Line)
    /\ t # <<>> => t[1] \notin White /\ t[Len(t)] \notin White

ASSUME ChunkingAssumption ==
    /\ \A t \in Texts : t \in Seq(Characters) /\ Normalised(t)
    /\ Sizes \subseteq Nat \ {0, 1} /\ Overlaps \subseteq Nat /\ LookAhead \in Nat

VARIABLES
    body,           \* body
    size,           \* chunk_chars
    overlap,        \* overlap_chars
    cursor,         \* cursor
    chunks,         \* the chunks, without their texts
    finished        \* the loop is left

chunkVars == <<body, size, overlap, cursor, chunks, finished>>

ChunkingInit ==
    /\ body \in Texts
    /\ size \in Sizes
    /\ overlap \in {o \in Overlaps : o < size}
    /\ cursor = 0 /\ chunks = <<>>
    /\ finished = (body = <<>>)

-----------------------------------------------------------------------------
(* Boundaries: the places where the matches of the patterns end            *)

\* A run of white characters of w that cannot be made longer in w.
IsRun(w, i, j) ==
    /\ \A k \in i..j : w[k] \in White
    /\ i > 1 => w[i-1] \notin White
    /\ j < Len(w) => w[j+1] \notin White

Runs(w) == {r \in (1..Len(w)) \X (1..Len(w)) : r[1] <= r[2] /\ IsRun(w, r[1], r[2])}

Lines(w, r) == {k \in r[1]..r[2] : w[k] = Line}

\* \n\s*\n
ParagraphEnds(w) == {Max(Lines(w, r)) : r \in {s \in Runs(w) : Cardinality(Lines(w, s)) > 1}}

\* (?<=[.!?])\s+(?=[A-Z...])
SentenceEnds(w) ==
    {r[2] : r \in {s \in Runs(w) : /\ s[1] > 1 /\ w[s[1]-1] = Stop
                                   /\ s[2] < Len(w) /\ w[s[2]+1] = Capital}}

LineEnds(w) == {k \in 1..Len(w) : w[k] = Line}

WordEnds(w) == {r[2] : r \in Runs(w)}

\* The last match of the strongest kind whose last match is not too early.
SplitPoint(text, target, floor) ==
    LET w == SubSeq(text, 1, target)
        kinds == <<ParagraphEnds(w), SentenceEnds(w), LineEnds(w), WordEnds(w)>>
        near  == {i \in 1..4 : kinds[i] # {} /\ Max(kinds[i]) >= floor}
    IN IF near = {} THEN target ELSE Max(kinds[Min(near)])

\* The first match of the strongest kind within reach.
ResumePoint(ideal) ==
    LET w == SubSeq(body, ideal + 1, Min({ideal + LookAhead, Len(body)}))
        kinds == <<SentenceEnds(w), LineEnds(w), WordEnds(w)>>
        there == {i \in 1..3 : kinds[i] # {}}
    IN IF ideal <= 0 THEN 0
       ELSE IF there = {} THEN ideal ELSE ideal + Min(kinds[Min(there)])

-----------------------------------------------------------------------------
(* The loop                                                                *)

Rest == SubSeq(body, cursor + 1, Len(body))

Taken == IF Len(Rest) <= size THEN Len(Rest) ELSE SplitPoint(Rest, size, size \div 2)

\* Fault: the next chunk begins at the boundary found, wherever that is.
NextAtBoundary(taken) == ResumePoint(cursor + Max({1, taken - overlap}))

\* Fault: the overlap is counted from the size of a chunk.
NextBySize(taken) ==
    Max({cursor + 1, Min({ResumePoint(cursor + Max({1, size - overlap})), cursor + taken})})

NextCursor(taken) ==
    Max({cursor + 1, Min({ResumePoint(cursor + Max({1, taken - overlap})), cursor + taken})})

Cut ==
    /\ ~finished
    /\ chunks' = IF \E i \in 1..Taken : Rest[i] \notin White
                 THEN Append(chunks, [start |-> cursor, end |-> cursor + Taken])
                 ELSE chunks
    /\ finished' = (cursor + Taken >= Len(body))
    /\ cursor' = IF finished' THEN cursor ELSE NextCursor(Taken)
    /\ UNCHANGED <<body, size, overlap>>

ChunkingSpec == ChunkingInit /\ [][Cut]_chunkVars /\ WF_chunkVars(Cut)

-----------------------------------------------------------------------------
(* Properties                                                              *)

\* Types of the loop.
ChunkingTypeOK ==
    /\ cursor \in 0..Len(body) /\ finished \in BOOLEAN
    /\ chunks \in Seq([start : 0..Len(body), end : 1..Len(body)])

\* Whether the text between two places is in one chunk.
InOneChunk(from, to) == \E i \in 1..Len(chunks) : chunks[i].start <= from /\ to <= chunks[i].end

\* Nothing but white space is left out, however boundaries and overlap fall,
\* no chunk is longer than asked for, and each begins after the one before.
NothingIsLeftOut ==
    /\ finished => \A p \in 1..Len(body) : body[p] \notin White => InOneChunk(p - 1, p)
    /\ \A i \in 1..Len(chunks) : chunks[i].end - chunks[i].start <= size
    /\ \A i, j \in 1..Len(chunks) : i < j => chunks[i].start < chunks[j].start

\* How far back a chunk is sure to begin: a chunk may be half of its size,
\* and the search for a boundary gives LookAhead of it away.
SureOverlap == Min({overlap, (size \div 2) - 1}) - LookAhead

\* "The overlap is what makes boundary-straddling facts findable": a stretch
\* of text that begins and ends with a character that is not white is whole
\* in some chunk if it is at most one longer than what is sure of the overlap.
FactsAreWholeSomewhere ==
    finished =>
        \A from, to \in 0..Len(body) :
            /\ from < to /\ to - from <= SureOverlap + 1
            /\ body[from + 1] \notin White /\ body[to] \notin White
            => InOneChunk(from, to)

\* The chunks hold the text.
ChunksHoldTheText == NothingIsLeftOut /\ FactsAreWholeSomewhere

(* Three statements that do not hold of the code (see README, Divergences).*)

\* A fact no longer than the overlap is whole in some chunk.
OverlapHoldsFacts ==
    finished =>
        \A from, to \in 0..Len(body) :
            /\ from < to /\ to - from <= overlap
            /\ body[from + 1] \notin White /\ body[to] \notin White
            => InOneChunk(from, to)

\* "chunks[i].end > chunks[i + 1].start" (test_rag.py), with an overlap.
ChunksOverlap ==
    overlap > 0 => \A i \in 1..(Len(chunks) - 1) : chunks[i].end > chunks[i+1].start

\* No chunk is a part of another.
ChunksAddText == \A i, j \in 1..Len(chunks) : i < j => chunks[i].end < chunks[j].end
=============================================================================

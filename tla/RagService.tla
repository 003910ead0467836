----------------------------- MODULE RagService -----------------------------
(***************************************************************************)
(* Ingestion of documents into one collection (src/rag/service.py) over    *)
(* the stores SQLite and FAISS (src/rag/stores).                           *)
(*                                                                         *)
(* An ingestion clears what the collection holds of its source and, in a   *)
(* second step, stores its own chunks; embedding lies between.  Each store *)
(* operation holds the lock of the store, ingestions hold none: the        *)
(* endpoints run theirs one at a time, the agents' tools in other threads. *)
(* Texts are left out: a chunk's text, and its vector, is the ingestion    *)
(* they come from.  Left out too: searches, restarts (so what a failed     *)
(* save left in the files), and metadata of a caller that has a "source"   *)
(* of its own.                                                             *)
(***************************************************************************)
EXTENDS Integers, SequencesExt, FiniteSetsExt, Functions

CONSTANTS
    Ingestions,     \* calls of ingest_text
    Sources,        \* names of documents
    MaxChunks,      \* bound: chunks of a document
    Nothing

ASSUME RagAssumption ==
    /\ MaxChunks \in Nat
    /\ Nothing \notin Ingestions

VARIABLES
    stored,         \* the chunks: from chunk id to the ingestion that wrote it
    order,          \* FAISS sidecar: the chunk id of each row number
    rows,           \* FAISS index: from row number to the vector
    job,            \* the ingestions
    bare,           \* chunks whose last vector the index refused (bookkeeping)
    left,           \* what the last operation on each source left (bookkeeping)
    changes         \* removals and replacements of each chunk id (bookkeeping)

vars == <<stored, order, rows, job, bare, left, changes>>

\* _chunk_id: the same for every version of a document.
Ids == Sources \X (1..MaxChunks)
ChunkIds(s, n) == {<<s, k>> : k \in 1..n}
StoredOf(s) == {id \in DOMAIN stored : id[1] = s}

Idle  == [at |-> "none", source |-> Nothing, size |-> 0, alone |-> FALSE]
Clean == [by |-> Nothing, whole |-> TRUE]

RagInit ==
    /\ stored = <<>> /\ order = <<>> /\ rows = <<>>
    /\ job = [i \in Ingestions |-> Idle]
    /\ bare = {}
    /\ left = [s \in Sources |-> Clean]
    /\ changes = [id \in Ids |-> 0]

-----------------------------------------------------------------------------
(* The stores                                                              *)

\* order.index(id): the first of its rows, although a chunk that was deleted
\* and stored again has its vector in a later one.
RowOf(id, ids) == SelectInSeq(ids, LAMBDA other : other = id)

Without(f, gone) == Restrict(f, DOMAIN f \ gone)

\* Fault: the vectors of deleted chunks stay in the index.
DeleteRecordsOnly(doomed) == UNCHANGED <<order, rows>>

\* FaissVectorStore.delete
DeleteRows(doomed) ==
    /\ rows' = Without(rows, {RowOf(id, order) : id \in doomed})
    /\ UNCHANGED order

\* FaissVectorStore.upsert: new chunks get the next row numbers (which of them
\* gets which plays no part), and the vectors that are replaced are removed.
Replaced(ids) == {RowOf(id, order) : id \in ids \cap DOMAIN stored}

NumberRows(ids) == order' = order \o SetToSeq(ids \ DOMAIN stored)

\* add_with_ids
AddRows(i, ids) ==
    /\ rows' = [p \in DOMAIN rows \cup Replaced(ids) \cup (Len(order) + 1)..Len(order') |->
                    IF p \in Replaced(ids) \/ p > Len(order) THEN i ELSE rows[p]]
    /\ bare' = bare \ ids

\* It raises, for vectors of another size, say: the records are in memory already.
RefuseRows(ids) ==
    /\ rows' = Without(rows, Replaced(ids))
    /\ bare' = bare \cup ids

\* SqliteVectorStore.delete, and the sidecar of FAISS
Delete(s) ==
    /\ stored' = Without(stored, StoredOf(s))
    /\ DeleteRows(StoredOf(s))
    /\ bare' = bare \ StoredOf(s)
    /\ changes' = [id \in Ids |-> IF id \in StoredOf(s) THEN changes[id] + 1 ELSE changes[id]]

\* SqliteVectorStore.upsert, and the sidecar: what is stored under one of the ids is
\* replaced.
UpsertRecords(i, ids) ==
    /\ stored' = [id \in DOMAIN stored \cup ids |-> IF id \in ids THEN i ELSE stored[id]]
    /\ NumberRows(ids)
    /\ changes' = [id \in Ids |-> IF id \in ids \cap DOMAIN stored THEN changes[id] + 1 ELSE changes[id]]

-----------------------------------------------------------------------------
(* RagService                                                              *)

\* Another operation on the source came between the two steps of the others.
Disturbed(touched) ==
    [j \in Ingestions |-> IF job[j].at = "cleared" /\ job[j].source \in touched
                          THEN [job[j] EXCEPT !.alone = FALSE] ELSE job[j]]

\* Fault: chunks are replaced by their id alone.
ClearNothing(i, s, n) ==
    /\ job[i] = Idle /\ n > 0
    /\ job' = [Disturbed({s}) EXCEPT ![i] = [at |-> "cleared", source |-> s, size |-> n, alone |-> TRUE]]
    /\ left' = [left EXCEPT ![s] = Clean]
    /\ UNCHANGED <<stored, order, rows, bare, changes>>

\* ingest_text, up to the deletion of the previous version.
Clear(i, s, n) ==
    /\ job[i] = Idle /\ n > 0
    /\ Delete(s)
    /\ job' = [Disturbed({s}) EXCEPT ![i] = [at |-> "cleared", source |-> s, size |-> n, alone |-> TRUE]]
    /\ left' = [left EXCEPT ![s] = Clean]

\* A document without text: the early return comes before the deletion.
FindNothing(i) ==
    /\ job[i] = Idle
    /\ job' = [job EXCEPT ![i].at = "done"]
    /\ UNCHANGED <<stored, order, rows, bare, left, changes>>

\* The chunks are embedded and stored, and the ingestion ends.
Stores(i, end) ==
    LET s == job[i].source
    IN  /\ job[i].at = "cleared"
        /\ UpsertRecords(i, ChunkIds(s, job[i].size))
        /\ job' = [Disturbed({s}) EXCEPT ![i].at = end]
        /\ left' = [left EXCEPT ![s] = [by |-> i, whole |-> job[i].alone]]

\* If the files cannot be written afterwards, it is reported as failed.
Store(i) ==
    /\ \E end \in {"done", "failed"} : Stores(i, end)
    /\ AddRows(i, ChunkIds(job[i].source, job[i].size))

StoreWithoutRows(i) ==
    /\ Stores(i, "failed")
    /\ RefuseRows(ChunkIds(job[i].source, job[i].size))

\* The embedder or the store raises before anything is changed; if the files cannot
\* be written after the deletion, that is Clear and this.
Fail(i) ==
    /\ job[i].at \in {"none", "cleared"}
    /\ job' = [job EXCEPT ![i].at = "failed"]
    /\ UNCHANGED <<stored, order, rows, bare, left, changes>>

DeleteDocument(s) ==
    /\ StoredOf(s) # {}
    /\ Delete(s)
    /\ job' = Disturbed({s})
    /\ left' = [left EXCEPT ![s] = Clean]

\* drop: FAISS forgets its rows too.
Drop ==
    /\ order # <<>>
    /\ stored' = <<>> /\ order' = <<>> /\ rows' = <<>> /\ bare' = {}
    /\ changes' = [id \in Ids |-> 0]
    /\ job' = Disturbed(Sources)
    /\ left' = [s \in Sources |-> Clean]

RagNext ==
    \/ Drop
    \/ \E s \in Sources :
        \/ DeleteDocument(s)
        \/ \E i \in Ingestions, n \in 1..MaxChunks : Clear(i, s, n)
    \/ \E i \in Ingestions : FindNothing(i) \/ Store(i) \/ StoreWithoutRows(i) \/ Fail(i)

RagSpec == RagInit /\ [][RagNext]_vars

-----------------------------------------------------------------------------
(* Properties                                                              *)

\* "Re-ingesting a file replaces its chunks rather than duplicating them, and
\* a document that got shorter does not leave orphans behind" (service.py):
\* all chunks of the ingestion that last reached the store are there, whether it was
\* reported as failed or not, no chunk of another beside them unless the two
\* overlapped, and none at all after a deletion or an ingestion that failed
\* between its two steps, whatever was there before.
DocumentIsReplacedWhole ==
    \A s \in Sources :
        LET i     == left[s].by
            whole == IF i = Nothing THEN {} ELSE ChunkIds(s, job[i].size)
        IN  /\ \A id \in whole : id \in DOMAIN stored /\ stored[id] = i
            /\ left[s].whole => StoredOf(s) = whole

Vectors(id) == {p \in DOMAIN rows : order[p] = id}

\* FAISS finds every chunk by its own vector, except where the index refused it, and
\* by no "stale one as a separate hit" (faiss_store.py) while the chunk was removed
\* or replaced once at most: row numbers and records, kept in three places, agree
\* through deletions, overlapping ingestions and failures between the places.
\* From the second removal on, the row that is removed is the first one, not the
\* one in use.
ChunksHaveTheirVectors ==
    \A id \in Ids :
        LET found == id \in DOMAIN stored /\ id \notin bare
        IN  /\ found => \E p \in Vectors(id) : rows[p] = stored[id]
            /\ changes[id] <= 1 => Cardinality(Vectors(id)) = (IF found THEN 1 ELSE 0)
=============================================================================

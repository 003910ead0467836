----------------------------- MODULE AuditTrail -----------------------------
(***************************************************************************)
(* The audit trail (src/tools/audit_trail.py): rows of SQLite, each with a *)
(* hash over its record and the hash of the row before it, appended by     *)
(* threads under a lock, and a verification that finds the first row which *)
(* does not fit.                                                           *)
(*                                                                         *)
(* Outside the program somebody may change any column of a row but its id, *)
(* the hashes too, which anybody can compute, or remove rows; that is what *)
(* the verification is for.  A hash is the pair it is computed from:       *)
(* different pairs have different hashes.  A record is the number of its   *)
(* append, as it holds the time of it.                                     *)
(***************************************************************************)
EXTENDS Integers, SequencesExt

CONSTANTS
    Writers,
    None,
    MaxRecords,     \* bound: records ever given to be appended
    MaxEdits        \* bound: changes from outside

ASSUME TrailAssumption == MaxRecords \in Nat /\ MaxEdits \in Nat /\ None \notin Writers \cup Nat

VARIABLES
    entries,        \* audit_entries in order of their ids
    lock,           \* _LOCK
    writing,        \* what each writer appends, and the hash of the tail it read
    begun,          \* records so far
    edits,          \* changes from outside so far
    written         \* by id, the table as each row was appended to it (bookkeeping)

trailVars == <<entries, lock, writing, begun, edits, written>>

GENESIS_HASH == <<>>

\* A record, and a hash of nothing, that no append makes.
Altered == 0
Junk == <<Altered>>

TrailInit ==
    /\ entries = <<>>
    /\ lock = None
    /\ writing = [w \in Writers |-> None]
    /\ begun = 0 /\ edits = 0
    /\ written = <<>>

-----------------------------------------------------------------------------
(* Appending                                                               *)

_hash_entry(record, prev) == <<record, prev>>

\* The record is made before the lock is asked for.
Begin(w) ==
    /\ writing[w] = None /\ begun < MaxRecords
    /\ begun' = begun + 1
    /\ writing' = [writing EXCEPT ![w] = [record |-> begun', tail |-> None]]
    /\ UNCHANGED <<entries, lock, edits, written>>

TailHash == IF entries = <<>> THEN GENESIS_HASH ELSE Last(entries).hash

\* Fault: the tail is read before the lock is held.
ReadTailUnlocked(w) ==
    /\ writing[w] # None /\ writing[w].tail = None
    /\ writing' = [writing EXCEPT ![w].tail = TailHash]
    /\ UNCHANGED <<entries, lock, begun, edits, written>>

ReadTail(w) ==
    /\ writing[w] # None /\ writing[w].tail = None
    /\ lock = None
    /\ lock' = w
    /\ writing' = [writing EXCEPT ![w].tail = TailHash]
    /\ UNCHANGED <<entries, begun, edits, written>>

HasRead(w) == writing[w] # None /\ writing[w].tail # None

Done(w) ==
    /\ lock' = None
    /\ writing' = [writing EXCEPT ![w] = None]

Insert(w) ==
    /\ HasRead(w)
    /\ LET record == writing[w].record
           prev   == writing[w].tail
       IN  entries' = Append(entries, [id |-> Len(written) + 1, record |-> record, prev |-> prev,
                                       hash |-> _hash_entry(record, prev)])
    /\ written' = Append(written, entries')
    /\ Done(w)
    /\ UNCHANGED <<begun, edits>>

\* The database refuses the row; the caller goes on without it.
InsertFails(w) ==
    /\ HasRead(w)
    /\ Done(w)
    /\ UNCHANGED <<entries, begun, edits, written>>

-----------------------------------------------------------------------------
(* Verifying                                                               *)

ExpectedPrev(chain, i) == IF i = 1 THEN GENESIS_HASH ELSE chain[i - 1].hash

BreaksAt(chain, i) ==
    \/ chain[i].prev # ExpectedPrev(chain, i)
    \/ chain[i].hash # _hash_entry(chain[i].record, ExpectedPrev(chain, i))

\* verify_audit_chain of the rows it reads: "broken_at_id", as a position.
verify_audit_chain(chain) ==
    LET broken == {i \in 1..Len(chain) : BreaksAt(chain, i)}
    IN  IF broken = {} THEN None ELSE Min(broken)

-----------------------------------------------------------------------------
(* Outside the program, while nothing is being inserted                    *)

Edit ==
    /\ lock = None
    /\ edits < MaxEdits /\ edits' = edits + 1
    /\ UNCHANGED <<lock, writing, begun, written>>

\* Columns are changed: the record is another, and the hashes are as they were, or
\* made to fit, or neither.
AlterRow(i) ==
    /\ Edit
    /\ \E record \in {entries[i].record, Altered}, prev \in {entries[i].prev, ExpectedPrev(entries, i)} :
       \E hash \in {entries[i].hash, _hash_entry(record, prev), Junk} :
          entries' = [entries EXCEPT ![i] = [id |-> @.id, record |-> record, prev |-> prev, hash |-> hash]]

RemoveRow(i) ==
    /\ Edit
    /\ entries' = RemoveAt(entries, i)

TrailNext ==
    \/ \E w \in Writers : Begin(w) \/ ReadTail(w) \/ Insert(w) \/ InsertFails(w)
    \/ \E i \in DOMAIN entries : AlterRow(i) \/ RemoveRow(i)

TrailSpec == TrailInit /\ [][TrailNext]_trailVars

-----------------------------------------------------------------------------
\* However many threads append at once, whichever of their insertions fail, and
\* whatever rows are changed, made to fit again or removed outside: verification up
\* to some row reports this row only if it or rows before it have changed since
\* it was appended; and if it reports nothing, and the row still has the hash it
\* was given, then the records up to it are those of the table it was appended to,
\* unless that table did not verify (verify_audit_chain with a limit).  Rows
\* removed at the end, and a tail whose hashes were all made to fit, are not found.
ReportsTheFirstChange ==
    \A j \in DOMAIN entries :
        LET chain    == SubSeq(entries, 1, j)
            appended == written[entries[j].id]
        IN  /\ verify_audit_chain(chain) = j => chain # appended
            /\ /\ verify_audit_chain(chain) = None
               /\ verify_audit_chain(appended) = None
               /\ entries[j].hash = Last(appended).hash
               => /\ j = Len(appended)
                  /\ \A i \in 1..j : entries[i].record = appended[i].record
=============================================================================

---------------------------- MODULE SessionStore ----------------------------
(***************************************************************************)
(* The chat sessions of SessionManager (src/api/session_manager.py): the   *)
(* ConversationState objects in memory, the index that lists them, and the *)
(* file sessions.json, which every change worth keeping rewrites whole.    *)
(*                                                                         *)
(* A session is its `active` flag, its turn count and its message log.  A  *)
(* log entry is the role and the call it belongs to; a spoken exchange is  *)
(* one entry.  Texts and metadata are left out.                            *)
(***************************************************************************)
EXTENDS Integers, SequencesExt

CONSTANTS
    Sessions,       \* session ids that may be created
    SaveMayFail     \* whether writing sessions.json may raise

ASSUME StoreAssumption == SaveMayFail \in BOOLEAN

VARIABLES
    sess,           \* the ConversationState of each session
    listed,         \* SessionManager._sessions, the ids in the index
    made, gone,     \* the ids given out, and those deleted (bookkeeping of the model)
    disk            \* sessions.json: a function from the ids in it

storeVars == <<sess, listed, made, gone, disk>>

NewSession == [active |-> TRUE, turns |-> 0, log |-> <<>>]
EmptyFile  == [s \in {} |-> NewSession]

StoreInit ==
    /\ sess = [s \in Sessions |-> NewSession]
    /\ listed = {}
    /\ made = {}
    /\ gone = {}
    /\ disk = EmptyFile

\* Faults: the messages are appended to those in the file, or sessions that
\* left the index stay in it.
SaveAppending ==
    disk' = [s \in listed' |->
                IF s \in DOMAIN disk THEN [sess'[s] EXCEPT !.log = disk[s].log \o @] ELSE sess'[s]]

SaveOverOld ==
    disk' = [s \in listed' \cup DOMAIN disk |-> IF s \in listed' THEN sess'[s] ELSE disk[s]]

\* _save_sessions: the whole index is written over the file.  An exception is
\* logged, and leaves the file as it was or, once it was opened, empty.
SaveSessions ==
    \/ disk' = [s \in listed' |-> sess'[s]]
    \/ SaveMayFail /\ disk' \in {disk, EmptyFile}

\* ConversationState.add_message
Said(session, role, who) == [session EXCEPT !.log = Append(@, <<role, who>>)]

\* ConversationState.increment_turn
NextTurn(session) == [session EXCEPT !.turns = @ + 1]

\* create_session: the id is new.
CreateSession(s) ==
    /\ s \notin made
    /\ made' = made \cup {s}
    /\ sess' = [sess EXCEPT ![s] = NewSession]
    /\ listed' = listed \cup {s}
    /\ SaveSessions
    /\ UNCHANGED gone

\* delete_session: a call under way keeps its reference to the object.
DeleteSession(s) ==
    /\ s \in listed
    /\ listed' = listed \ {s}
    /\ gone' = gone \cup {s}
    /\ UNCHANGED <<sess, made>>
    /\ SaveSessions

\* process_message, the user's message: not saved until the answer is.
TakeMessage(s, r) ==
    /\ sess' = [sess EXCEPT ![s] = NextTurn(Said(@, "user", r))]
    /\ UNCHANGED <<listed, made, gone, disk>>

\* process_message, beyond the turn limit: the session is closed with a notice.
RefuseMessage(s, r) ==
    /\ sess' = [sess EXCEPT ![s] =
                  [Said(NextTurn(Said(@, "user", r)), "notice", r) EXCEPT !.active = FALSE]]
    /\ UNCHANGED <<listed, made, gone>>
    /\ SaveSessions

\* process_message, the answer, on the object the call holds.
AnswerMessage(s, r) ==
    /\ sess' = [sess EXCEPT ![s] = Said(@, "assistant", r)]
    /\ UNCHANGED <<listed, made, gone>>
    /\ SaveSessions

\* Fault: the exchange is kept and the turn is not counted.
SpeakUncounted(s) ==
    /\ s \in listed
    /\ sess' = [sess EXCEPT ![s] = Said(@, "voice", s)]
    /\ UNCHANGED <<listed, made, gone>>
    /\ SaveSessions

\* record_voice_turn: any listed session, active or not.
SpeakTurn(s) ==
    /\ s \in listed
    /\ sess' = [sess EXCEPT ![s] = NextTurn(Said(@, "voice", s))]
    /\ UNCHANGED <<listed, made, gone>>
    /\ SaveSessions

\* Fault: the sessions come back without their messages.
LoadIdsOnly(file) ==
    /\ disk' = file
    /\ listed' = DOMAIN file
    /\ UNCHANGED <<made, gone>>
    /\ sess' = [s \in Sessions |-> IF s \in DOMAIN file THEN NewSession ELSE sess[s]]

\* A new process reads what the file holds: _load_sessions.
LoadSessions(file) ==
    /\ disk' = file
    /\ listed' = DOMAIN file
    /\ UNCHANGED <<made, gone>>
    /\ sess' = [s \in Sessions |-> IF s \in DOMAIN file THEN file[s] ELSE sess[s]]
=============================================================================

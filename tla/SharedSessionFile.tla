------------------------- MODULE SharedSessionFile -------------------------
(***************************************************************************)
(* Two session managers over one sessions.json: the one of the API         *)
(* (get_session_manager) and the one the workflow test runner makes for    *)
(* itself when a test or a trigger first needs it                          *)
(* (src/core/workflow_test_runner.py).  Each loads the file when it is     *)
(* made and writes its own index over the file ever after.                 *)
(*                                                                         *)
(* The stores are two instances of SessionStore which share the file and   *)
(* the ids; a call is its message and its answer, without the slots and    *)
(* the history, which SessionManager models.                               *)
(***************************************************************************)
EXTENDS Integers, SequencesExt

CONSTANTS
    Sessions,       \* session ids that may be created
    Calls,          \* calls of process_message
    Tests           \* the calls among them made by the test runner

VARIABLES
    sess, listed,           \* the API's manager
    testSess, testListed,   \* the test runner's manager
    testRunner,             \* whether get_test_runner() was called
    made, gone, disk,       \* the ids given out and deleted; the shared file
    of,                     \* the session of each call, or "none"
    told                    \* the calls whose answer was delivered

vars == <<sess, listed, testSess, testListed, testRunner, made, gone, disk, of, told>>

Api    == INSTANCE SessionStore WITH SaveMayFail <- FALSE
Runner == INSTANCE SessionStore WITH SaveMayFail <- FALSE, sess <- testSess, listed <- testListed

SharedInit ==
    /\ Api!StoreInit
    /\ testSess = sess /\ testListed = {} /\ testRunner = FALSE
    /\ of = [c \in Calls |-> "none"]
    /\ told = {}

ApiOnly    == UNCHANGED <<testSess, testListed, testRunner>>
RunnerOnly == UNCHANGED <<sess, listed, testRunner>>

\* A user's session, its calls and its end.
Create(s) == Api!CreateSession(s) /\ ApiOnly /\ UNCHANGED <<of, told>>
Delete(s) == Api!DeleteSession(s) /\ ApiOnly /\ UNCHANGED <<of, told>>

Ask(c, s) ==
    /\ c \notin Tests /\ of[c] = "none" /\ s \in listed
    /\ Api!TakeMessage(s, c)
    /\ of' = [of EXCEPT ![c] = s]
    /\ ApiOnly /\ UNCHANGED told

Answer(c) ==
    /\ c \notin Tests \cup told /\ of[c] # "none"
    /\ Api!AnswerMessage(of[c], c)
    /\ told' = told \cup {c}
    /\ ApiOnly /\ UNCHANGED of

\* get_test_runner: a manager of its own, with what the file holds now.
MakeRunner ==
    /\ ~testRunner /\ testRunner' = TRUE
    /\ Runner!LoadSessions(disk)
    /\ UNCHANGED <<sess, listed, of, told>>

\* run_workflow_test up to its first suspension point: the new session is
\* saved, then the call takes its message.
StartTest(c, s) ==
    /\ testRunner /\ c \in Tests /\ of[c] = "none"
    /\ s \notin made /\ made' = made \cup {s}
    /\ testListed' = testListed \cup {s}
    /\ testSess' = [testSess EXCEPT ![s] =
                       Runner!NextTurn(Runner!Said(Runner!NewSession, "user", c))]
    /\ disk' = [x \in testListed' |-> IF x = s THEN Runner!NewSession ELSE testSess[x]]
    /\ of' = [of EXCEPT ![c] = s]
    /\ RunnerOnly /\ UNCHANGED <<gone, told>>

AnswerTest(c) ==
    /\ c \in Tests \ told /\ of[c] # "none"
    /\ Runner!AnswerMessage(of[c], c)
    /\ told' = told \cup {c}
    /\ RunnerOnly /\ UNCHANGED of

SharedNext ==
    \/ MakeRunner
    \/ \E s \in Sessions : Create(s) \/ Delete(s)
    \/ \E c \in Calls :
        \/ Answer(c) \/ AnswerTest(c)
        \/ \E s \in Sessions : Ask(c, s) \/ StartTest(c, s)

SharedSpec == SharedInit /\ [][SharedNext]_vars

\* "Persist sessions so run history survives API restarts" (_save_sessions),
\* "the same CrewAI session manager used by the API" (WorkflowTestRunner): an
\* answer that was delivered is in sessions.json until its session is deleted.
DeliveredIsDurable ==
    \A c \in told :
        \/ of[c] \in gone
        \/ /\ of[c] \in DOMAIN disk
           /\ \E i \in DOMAIN disk[of[c]].log : disk[of[c]].log[i] = <<"assistant", c>>
=============================================================================

---------------------------- MODULE Connections ----------------------------
(***************************************************************************)
(* Accounts at other services (src/connectors/store.py and the routers     *)
(* connections.py and integrations.py): token connections, made after      *)
(* their service accepted the token, and one Gmail account, whose grant    *)
(* comes from Google's consent page.  Both are rows of one table and are   *)
(* encrypted with a key the process may have to make up                    *)
(* (src/infrastructure/secrets.py).                                        *)
(*                                                                         *)
(* A call is a request or an agent's use of an account.  It takes several  *)
(* steps, with the steps of others in between: everything but the Gmail    *)
(* routes runs in threads, and those wait only while Google revokes.       *)
(***************************************************************************)
EXTENDS Integers, FiniteSetsExt

CONSTANTS
    Callers,        \* whoever may have a call under way
    ServiceTokens,         \* tokens of the token connections' service
    NoRow,          \* no row of an id
    MaxRows,        \* bound: rows there may come to be
    MaxKeys,        \* bound: encryption keys there may come to be
    MaxGrants,      \* bound: consents given at Google
    MaxRestarts     \* bound: restarts of the process

Configured == 1     \* the key of ENCRYPTION_KEY
NoKey      == 0
NoGrant    == 0
RowIds     == 1..MaxRows    \* given once each (uuid4)

VARIABLES
    accounts,       \* integration_credentials
    spent,          \* ids given so far
    configured,     \* whether ENCRYPTION_KEY is set
    keptKey,        \* CredentialManager._encryption_key
    environment,    \* ENCRYPTION_KEY among the process's variables
    keys,           \* keys made so far
    call,           \* the calls, each at its next step
    grants,         \* consents given so far
    restarts,       \* restarts so far
    worked,         \* tokens the service has accepted once (bookkeeping)
    deleted,        \* ids of deleted rows (bookkeeping)
    intended        \* the grant the visitor's last connecting or disconnecting
                    \* leaves, -1 once other calls met it (bookkeeping)

connectionVars == <<accounts, spent, configured, keptKey, environment, keys, call, grants,
                    restarts, worked, deleted, intended>>
tableVars == <<accounts, spent, deleted>>
keyVars   == <<configured, keptKey, environment, keys, restarts>>
farVars   == <<grants, worked>>

NoCall == [does |-> "nothing", at |-> "done", then |-> "none", id |-> NoRow, secret |-> NoGrant,
           key |-> NoKey, sealed |-> NoKey, out |-> "none"]

\* Both kinds of row; `secret` is the token, or the grant of a Gmail row.
Row(kind, secret, key) == [kind |-> kind, secret |-> secret, key |-> key, status |-> "ok"]

Rows == [kind : {"token", "oauth"}, secret : ServiceTokens \cup Nat, key : Nat, status : {"ok", "failed"}]

ASSUME ConnectionsAssumption ==
    /\ MaxRows \in Nat
    /\ NoRow \notin RowIds /\ NoRow \notin Rows

ConnectionsInit ==
    /\ accounts = [i \in RowIds |-> NoRow] /\ spent = 0 /\ deleted = {}
    /\ configured \in BOOLEAN
    /\ keptKey = NoKey
    /\ environment = IF configured THEN Configured ELSE NoKey
    /\ keys = Configured
    /\ call = [c \in Callers |-> NoCall]
    /\ grants = NoGrant
    /\ restarts = 0 /\ worked = {} /\ intended = NoGrant

Gmail == {i \in RowIds : accounts[i] # NoRow /\ accounts[i].kind = "oauth"}

Starts(c, as) == call[c].at = "done" /\ call' = [call EXCEPT ![c] = as]
Goes(c, at)   == call' = [call EXCEPT ![c].at = at]
Ends(c)       == call' = [call EXCEPT ![c] = NoCall]
EndsAs(c, out) == call' = [call EXCEPT ![c] = [NoCall EXCEPT !.out = out]]

\* The next row, if there may be one.
NextId == {spent + 1} \cap RowIds

\* Whether a call that deals with the Gmail account is under way beside c.
Met(c) == \E d \in Callers \ {c} :
              call[d].does \in {"connect", "disconnect", "use"} /\ call[d].at # "done"

\* The callback holds the event loop from the consent to the row.
LoopIsFree == \A c \in Callers : ~(call[c].does = "connect" /\ call[c].at = "write")

-----------------------------------------------------------------------------
(* The key                                                                 *)

\* Fault: the configured key is not looked at, only the one kept.
KeyKept == keptKey

\* _get_encryption_key up to the manager: the one kept, else the configured.
KeyAtHand == IF keptKey # NoKey THEN keptKey ELSE IF configured THEN Configured ELSE NoKey

\* _get_encryption_key in a thread: one that finds no key here and none in the
\* environment goes on to make one.
TakesKey(c) ==
    /\ call[c].at = "key"
    /\ LET found == IF KeyAtHand # NoKey THEN KeyAtHand ELSE environment
       IN IF found # NoKey
          THEN keptKey' = found /\ call' = [call EXCEPT ![c].at = call[c].then, ![c].key = found]
          ELSE Goes(c, "make") /\ UNCHANGED keptKey
    /\ UNCHANGED <<configured, environment, keys, restarts, tableVars, farVars, intended>>

\* It uses its own, and replaces the one another has made meanwhile.
MakesKey(c) ==
    /\ call[c].at = "make" /\ keys < MaxKeys
    /\ keys' = keys + 1 /\ keptKey' = keys' /\ environment' = keys'
    /\ call' = [call EXCEPT ![c].at = call[c].then, ![c].key = keys']
    /\ UNCHANGED <<configured, restarts, tableVars, farVars, intended>>

\* The same on the event loop, where asyncio.run raises: the environment is
\* neither asked nor told.
LoopKey == IF KeyAtHand # NoKey THEN KeyAtHand ELSE keys + 1

LoopTakesKey ==
    /\ LoopKey <= MaxKeys
    /\ keptKey' = LoopKey /\ keys' = Max({keys, LoopKey})
    /\ UNCHANGED <<configured, environment, restarts>>

\* The process starts again: its calls and the key it has made are gone.
ProcessRestarts ==
    /\ restarts < MaxRestarts
    /\ restarts' = restarts + 1
    /\ keptKey' = NoKey
    /\ environment' = IF configured THEN Configured ELSE NoKey
    /\ call' = [c \in Callers |-> NoCall]
    /\ UNCHANGED <<configured, keys, tableVars, farVars, intended>>

-----------------------------------------------------------------------------
(* Token connections                                                       *)

CreateBegins(c) ==
    /\ \E t \in ServiceTokens : Starts(c, [NoCall EXCEPT !.does = "create", !.at = "verify", !.secret = t])
    /\ UNCHANGED <<tableVars, keyVars, farVars, intended>>

\* The connector's verifier, for a create and for a test: the service accepts the
\* token, or refuses it or is not reached.
Verifies(c) ==
    /\ call[c].at = "verify"
    /\ \/ /\ worked' = worked \cup {call[c].secret}
          /\ call' = [call EXCEPT ![c].at = IF call[c].does = "create" THEN "key" ELSE "record",
                                  ![c].then = "insert", ![c].out = "ok"]
       \/ /\ IF call[c].does = "create" THEN Ends(c)
             ELSE call' = [call EXCEPT ![c].at = "record", ![c].out = "failed"]
          /\ UNCHANGED worked
    /\ UNCHANGED <<grants, tableVars, keyVars, intended>>

\* ConnectionStore.create
Inserts(c) ==
    /\ call[c].at = "insert"
    /\ \E i \in NextId :
          /\ accounts' = [accounts EXCEPT ![i] = Row("token", call[c].secret, call[c].key)]
          /\ spent' = i
    /\ Ends(c)
    /\ UNCHANGED <<deleted, keyVars, farVars, intended>>

\* A test, or the build of a connector node's tools, of a connection chosen when
\* it was there (the test has looked: anything else is a 404).
TestBegins(c) ==
    /\ \E i \in RowIds : /\ accounts[i] # NoRow
                      /\ Starts(c, [NoCall EXCEPT !.does = "test", !.at = "read", !.id = i])
    /\ UNCHANGED <<tableVars, keyVars, farVars, intended>>

\* A build remembers (bookkeeping) that its connection was gone when it began.
BuildBegins(c) ==
    /\ \E i \in 1..spent :
          Starts(c, [NoCall EXCEPT !.does = "build", !.at = "read", !.id = i,
                                   !.out = IF accounts[i] = NoRow THEN "gone" ELSE "none"])
    /\ UNCHANGED <<tableVars, keyVars, farVars, intended>>

\* The tools of a build, one per ticked action.  An action that is offered no more
\* is a KeyError, no ConnectorError: the run goes on with an agent without tools.
MakesTools(c) == Ends(c) \/ EndsAs(c, "toolless")

\* ConnectionStore.secrets: a Gmail row has none to decrypt.  Without its row a
\* build fails its run; a test then answers that all is well.
ReadsSecrets(c) ==
    /\ call[c].at = "read"
    /\ LET row == accounts[call[c].id] IN
          IF row = NoRow THEN Ends(c)
          ELSE IF row.kind = "oauth" THEN IF call[c].does = "build" THEN MakesTools(c) ELSE Ends(c)
          ELSE call' = [call EXCEPT ![c].at = "key", ![c].then = "open",
                                    ![c].secret = row.secret, ![c].sealed = row.key]
    /\ UNCHANGED <<tableVars, keyVars, farVars, intended>>

\* decrypt_credential, for any of the calls that read a row.  What cannot be
\* decrypted is no ConnectorError either.
Opens(c) ==
    /\ call[c].at = "open"
    /\ IF call[c].key # call[c].sealed
       THEN IF call[c].does = "build" THEN EndsAs(c, "unopened") ELSE Ends(c)
       ELSE IF call[c].does = "build" THEN MakesTools(c)
       ELSE Goes(c, IF call[c].does = "test" THEN "verify" ELSE "refresh")
    /\ UNCHANGED <<tableVars, keyVars, farVars, intended>>

\* The database refuses a call's reading or writing: a request is answered with
\* the error and an agent's use of the account fails, but the run of a build goes on
\* without the tools.
DatabaseFails(c) ==
    /\ \/ call[c].at \in {"read", "insert", "record", "seek", "write", "forget"}
       \/ call[c].at = "open" /\ call[c].does \in {"test", "build"}
    /\ call[c].at = "forget" => LoopIsFree
    /\ IF call[c].does = "build" THEN EndsAs(c, "toolless") ELSE Ends(c)
    /\ UNCHANGED <<tableVars, keyVars, farVars, intended>>

\* Fault: the outcome of a test is merged into the table, row or no row.
RecordsAnyway(c) ==
    /\ call[c].at = "record"
    /\ accounts' = [accounts EXCEPT ![call[c].id] =
                   [Row("token", call[c].secret, call[c].key) EXCEPT !.status = call[c].out]]
    /\ Ends(c)
    /\ UNCHANGED <<spent, deleted, keyVars, farVars, intended>>

\* record_test: of a row that is still there.
Records(c) ==
    /\ call[c].at = "record"
    /\ accounts' = IF accounts[call[c].id] = NoRow THEN accounts
               ELSE [accounts EXCEPT ![call[c].id].status = call[c].out]
    /\ Ends(c)
    /\ UNCHANGED <<spent, deleted, keyVars, farVars, intended>>

\* ConnectionStore.delete, of either kind
Deletes(c) ==
    /\ call[c].at = "done"
    /\ \E i \in RowIds :
          /\ accounts[i] # NoRow
          /\ accounts' = [accounts EXCEPT ![i] = NoRow] /\ deleted' = deleted \cup {i}
          /\ intended' = IF accounts[i].kind = "token" THEN intended ELSE IF Met(c) THEN -1 ELSE NoGrant
    /\ UNCHANGED <<spent, call, keyVars, farVars>>

-----------------------------------------------------------------------------
(* The Gmail account                                                       *)

\* gmail_callback: a new grant, the key and the row there is to be replaced.
Connects(c) ==
    /\ LoopIsFree /\ environment # NoKey /\ grants < MaxGrants
    /\ grants' = grants + 1
    /\ LoopTakesKey
    /\ \E i \in IF Gmail = {} THEN {NoRow} ELSE Gmail :
          Starts(c, [NoCall EXCEPT !.does = "connect", !.at = "write", !.id = i,
                                 !.secret = grants', !.key = keptKey'])
    /\ UNCHANGED <<tableVars, worked, intended>>

\* get_gmail_credentials, in the thread of an agent's tool call
UseBegins(c) ==
    /\ \E i \in Gmail : Starts(c, [NoCall EXCEPT !.does = "use", !.at = "key", !.then = "open",
                                               !.secret = accounts[i].secret, !.sealed = accounts[i].key])
    /\ UNCHANGED <<tableVars, keyVars, farVars, intended>>

\* A token that has not expired is used as it is; one that has is refreshed, which
\* Google may refuse.
Refreshes(c) ==
    /\ call[c].at = "refresh"
    /\ Ends(c) \/ Goes(c, "seek")
    /\ UNCHANGED <<tableVars, keyVars, farVars, intended>>

\* persist_credentials and the query of upsert_credential
Seeks(c) ==
    /\ call[c].at = "seek"
    /\ \E i \in IF Gmail = {} THEN {NoRow} ELSE Gmail :
          call' = [call EXCEPT ![c].at = "write", ![c].id = i, ![c].key = KeyAtHand]
    /\ UNCHANGED <<tableVars, keyVars, farVars, intended>>

\* Fault: the row that is there keeps the grant it has.
WritesFirstGrant(c) ==
    LET i == call[c].id IN
    /\ call[c].at = "write"
    /\ \/ /\ i # NoRow /\ accounts[i] # NoRow
          /\ UNCHANGED <<accounts, spent>>
       \/ /\ i = NoRow /\ Gmail = {}
          /\ \E j \in NextId :
                /\ accounts' = [accounts EXCEPT ![j] = Row("oauth", call[c].secret, call[c].key)]
                /\ spent' = j
    /\ intended' = IF Met(c) THEN -1 ELSE call[c].secret
    /\ Ends(c)
    /\ UNCHANGED <<deleted, keyVars, farVars>>

\* The flush of upsert_credential: the row found is updated, or one inserted.
\* A row that has gone by then, or come, fails it (StaleDataError; the unique
\* index on provider and account).
Writes(c) ==
    LET i == call[c].id
        found == i # NoRow /\ accounts[i] # NoRow
    IN
    /\ call[c].at = "write"
    /\ \/ /\ found
          /\ accounts' = [accounts EXCEPT ![i].secret = call[c].secret, ![i].key = call[c].key]
          /\ UNCHANGED spent
       \/ /\ i = NoRow /\ Gmail = {}
          /\ \E j \in NextId :
                /\ accounts' = [accounts EXCEPT ![j] = Row("oauth", call[c].secret, call[c].key)]
                /\ spent' = j
       \/ /\ ~found /\ (i = NoRow => Gmail # {})
          /\ UNCHANGED <<accounts, spent>>
    /\ intended' = IF Met(c) \/ (accounts' = accounts /\ ~found) THEN -1 ELSE call[c].secret
    /\ Ends(c)
    /\ UNCHANGED <<deleted, keyVars, farVars>>

\* gmail_disconnect, to the request that revokes; what cannot be decrypted is
\* not revoked.
DisconnectBegins(c) ==
    /\ LoopIsFree /\ LoopTakesKey
    /\ \E i \in Gmail : Starts(c, [NoCall EXCEPT !.does = "disconnect", !.secret = accounts[i].secret,
                                     !.at = IF keptKey' = accounts[i].key THEN "revoke" ELSE "forget"])
    /\ UNCHANGED <<tableVars, farVars, intended>>

\* Revoked or not, and whatever Google answers.
Revokes(c) ==
    /\ call[c].at = "revoke"
    /\ Goes(c, "forget")
    /\ UNCHANGED <<tableVars, keyVars, farVars, intended>>

\* Fault: an account that cannot be decrypted is kept.
ForgetsReadable(c) ==
    LET them == {i \in Gmail : accounts[i].key = keptKey} IN
    /\ call[c].at = "forget" /\ LoopIsFree
    /\ accounts' = [i \in RowIds |-> IF i \in them THEN NoRow ELSE accounts[i]]
    /\ deleted' = deleted \cup them
    /\ intended' = IF Met(c) THEN -1 ELSE NoGrant
    /\ Ends(c)
    /\ UNCHANGED <<spent, keyVars, farVars>>

\* delete_credential: the account's row, whichever it is by now.
Forgets(c) ==
    /\ call[c].at = "forget" /\ LoopIsFree
    /\ accounts' = [i \in RowIds |-> IF i \in Gmail THEN NoRow ELSE accounts[i]]
    /\ deleted' = deleted \cup Gmail
    /\ intended' = IF Met(c) THEN -1 ELSE NoGrant
    /\ Ends(c)
    /\ UNCHANGED <<spent, keyVars, farVars>>

-----------------------------------------------------------------------------
KeyNext(c) == \/ TakesKey(c) \/ MakesKey(c) \/ CreateBegins(c) \/ Verifies(c) \/ Inserts(c)
              \/ Deletes(c) \/ DatabaseFails(c)

\* The life of the token connections, and that of the Gmail account beside them.
TokensNext ==
    \/ \E c \in Callers : \/ KeyNext(c) \/ TestBegins(c) \/ BuildBegins(c)
                          \/ ReadsSecrets(c) \/ Opens(c) \/ Records(c)
    \/ ProcessRestarts

GmailNext ==
    \/ \E c \in Callers : \/ KeyNext(c) \/ Connects(c) \/ UseBegins(c) \/ Opens(c) \/ Refreshes(c)
                          \/ Seeks(c) \/ Writes(c) \/ DisconnectBegins(c) \/ Revokes(c) \/ Forgets(c)
    \/ ProcessRestarts

\* The two beside each other.
ConnectionsSpec == ConnectionsInit /\ [][TokensNext \/ GmailNext]_connectionVars

-----------------------------------------------------------------------------
(* Properties                                                              *)

\* A connection was accepted by its service once, before it was saved.
SavedHaveWorked ==
    \A i \in RowIds : accounts[i] # NoRow /\ accounts[i].kind = "token" => accounts[i].secret \in worked

\* A connection that was deleted stays deleted, whatever tests of it, refreshes
\* and reconnects were under way.
DeletedAreGone == \A i \in deleted : accounts[i] = NoRow

\* With a configured key every account can be read, across restarts; without
\* one, as long as the process has made a single key.
AccountsAreReadable ==
    \A i \in RowIds : accounts[i] # NoRow =>
        /\ configured => accounts[i].key = Configured
        /\ ~configured /\ keys = Configured + 1 => accounts[i].key = keys

\* The run of a build whose connection was gone fails, unless the database could
\* not be asked; and with a configured key no connection is beyond decrypting.  What
\* is left to send an agent on without its tools is that the database cannot be read
\* or that an action is offered no more.
NoAgentLosesItsTools ==
    \A c \in Callers : /\ call[c].out = "gone" => call[c].at = "read"
                       /\ configured => call[c].out # "unopened"

\* There is one Gmail row at most, and it is the one that the last connecting or
\* disconnecting left, if no other call to do with the account met that one.
GmailIsAsAsked ==
    /\ \A i, j \in Gmail : i = j
    /\ intended # -1 => {accounts[i].secret : i \in Gmail} = {intended} \ {NoGrant}

ConnectionsAreSound ==
    /\ SavedHaveWorked
    /\ DeletedAreGone
    /\ AccountsAreReadable
    /\ NoAgentLosesItsTools
    /\ GmailIsAsAsked

\* What does not hold.  A visitor who disconnects stays disconnected until the next
\* consent: a refresh that has read the row before writes it again after.
OnlyConsentConnects ==
    [][Gmail = {} /\ Gmail' # {} =>
           \E c \in Callers : call[c].does = "connect" /\ call[c].at = "write"]_connectionVars

\* A process can read what it has stored itself: two first uses make two keys.
OwnAccountsAreReadable ==
    restarts = 0 /\ keptKey # NoKey => \A i \in RowIds : accounts[i] # NoRow => accounts[i].key = keptKey
=============================================================================

----------------------------- MODULE VoiceCall -----------------------------
(***************************************************************************)
(* Spoken conversations (src/api/routers/voice.py, src/api/voice): the     *)
(* single-use tickets, the slots, the two pumps of the bridge and the      *)
(* transcript, which goes into the session of the chat (SessionStore).     *)
(*                                                                         *)
(* A conversation is a connection with its ticket.  The clock only counts  *)
(* for the tickets: the time limit of a conversation may strike whenever   *)
(* it speaks.  Conversations of the Studio, which have no session, audio   *)
(* and personas are left out.                                              *)
(***************************************************************************)
EXTENDS SessionStore, FiniteSets

CONSTANTS
    Tickets,        \* tickets that may be minted
    Conns,          \* WebSocket connections
    SessionOfTicket,\* the session each ticket is minted for
    NoTicket,
    Life,           \* ticket_ttl_seconds
    Remember,       \* ttl of _spent
    MaxSpent,       \* maxsize of _spent
    MaxConcurrent,  \* voice.max_concurrent
    MaxNow,         \* bound: the clock
    MaxRestarts     \* bound: restarts of the process

ASSUME VoiceAssumption ==
    /\ SessionOfTicket \in [Tickets -> Sessions]
    /\ NoTicket \notin Tickets /\ IsFiniteSet(Tickets)
    /\ Life \in Nat /\ Remember \in Nat
    /\ MaxSpent \in Nat \ {0} /\ MaxConcurrent \in Nat \ {0}
    /\ MaxNow \in Nat /\ MaxRestarts \in Nat

VARIABLES
    now,
    minted,         \* when each ticket was minted, or Unminted
    spent,          \* tickets._spent, the oldest first
    permits,        \* _capacity
    conn,           \* the connections
    process         \* the number of the process

voiceVars == <<now, minted, spent, permits, conn, process>>
vars == <<storeVars, voiceVars>>

Unminted == -1

\* Inside: from the acquired slot to its release.
Inside == {"accepting", "bridging", "reported", "broken"}
Stages == Inside \cup {"none", "refused", "ended", "lost"}

Silent == [at |-> "none", ticket |-> NoTicket, process |-> 0, heard |-> FALSE, reported |-> FALSE,
           up |-> "running", down |-> "running"]

VoiceInit ==
    /\ StoreInit
    /\ now = 0
    /\ minted = [t \in Tickets |-> Unminted]
    /\ spent = <<>>
    /\ permits = MaxConcurrent
    /\ conn = [c \in Conns |-> Silent]
    /\ process = 1

Put(c, stage) == conn' = [conn EXCEPT ![c].at = stage]

-----------------------------------------------------------------------------
(* Tickets                                                                 *)

Alive(t) == minted[t] # Unminted /\ now <= minted[t] + Life

\* Fault: a ticket is remembered for as long as it lives, to the second.
RememberedForItsLife == {i \in DOMAIN spent : now < spent[i].since + Life}

\* The entries of the TTLCache that have not expired.
Remembered == {i \in DOMAIN spent : now < spent[i].since + Remember}

\* _spent[jti] = True: a full cache drops its oldest entry.  Expired ones, which
\* it drops before, are the oldest; the model keeps them if there is room.
Spend(t) ==
    spent' = Append(IF Len(spent) = MaxSpent THEN Tail(spent) ELSE spent, [ticket |-> t, since |-> now])

Redeemable(t) == Alive(t) /\ \A i \in Remembered : spent[i].ticket # t

Tick ==
    /\ now < MaxNow
    /\ now' = now + 1
    /\ UNCHANGED <<storeVars, minted, spent, permits, conn, process>>

\* Tickets that may have been spent since one was minted that is still alive.
Recent == {t \in Tickets : minted[t] # Unminted /\ now <= minted[t] + 2 * Life}

\* create_voice_ticket.  Assumed: no more than MaxSpent tickets are minted within
\* two lifetimes, as the limit of six a minute on the endpoint sees to for any
\* one caller.
Mint(t) ==
    /\ minted[t] = Unminted
    /\ SessionOfTicket[t] \in listed
    /\ Cardinality(Recent) < MaxSpent
    /\ minted' = [minted EXCEPT ![t] = now]
    /\ UNCHANGED <<storeVars, now, spent, permits, conn, process>>

-----------------------------------------------------------------------------
(* voice_websocket                                                         *)

\* Up to the acquired slot: nothing suspends between locked() and acquire().
\* A ticket is spent although the capacity or the session then refuse it.
Connect(c, t) ==
    /\ conn[c].at = "none" /\ Redeemable(t)
    /\ Spend(t)
    /\ LET granted == permits > 0 /\ SessionOfTicket[t] \in listed
       IN  /\ permits' = IF granted THEN permits - 1 ELSE permits
           /\ conn' = [conn EXCEPT ![c].at = IF granted THEN "accepting" ELSE "refused",
                                   ![c].ticket = t, ![c].process = process]
    /\ UNCHANGED <<storeVars, now, minted, process>>

Refuse(c, t) ==
    /\ conn[c].at = "none" /\ ~Redeemable(t)
    /\ Put(c, "refused")
    /\ UNCHANGED <<storeVars, now, minted, spent, permits, process>>

\* Fault: accept() stands before the try statement.
AcceptOutside(c) ==
    /\ conn[c].at = "accepting"
    /\ \E next \in {"bridging", "ended"} : Put(c, next)
    /\ UNCHANGED <<storeVars, now, minted, spent, permits, process>>

\* accept(), the connection to the model, its setup frame: each may fail.
Accept(c) ==
    /\ conn[c].at = "accepting"
    /\ \E next \in {"bridging", "broken"} : Put(c, next)
    /\ UNCHANGED <<storeVars, now, minted, spent, permits, process>>

-----------------------------------------------------------------------------
(* run_bridge                                                              *)

Speaking(c) == conn[c].at = "bridging"

\* pump_down takes a transcription into the statistics.
Hear(c) ==
    /\ Speaking(c) /\ conn[c].down = "running"
    /\ conn' = [conn EXCEPT ![c].heard = TRUE]
    /\ UNCHANGED <<storeVars, now, minted, spent, permits, process>>

\* pump_up returns at a goodbye, the end of the connection or the byte limit;
\* pump_down at the end of the upstream; both raise when a send fails.
PumpUpEnds(c) ==
    /\ Speaking(c) /\ conn[c].up = "running"
    /\ \E end \in {"returned", "raised"} : conn' = [conn EXCEPT ![c].up = end]
    /\ UNCHANGED <<storeVars, now, minted, spent, permits, process>>

PumpDownEnds(c) ==
    /\ Speaking(c) /\ conn[c].down = "running"
    /\ \E end \in {"returned", "raised"} : conn' = [conn EXCEPT ![c].down = end]
    /\ UNCHANGED <<storeVars, now, minted, spent, permits, process>>

\* asyncio.wait wakes: the other pump is cancelled if it still runs, and an
\* exception of a pump that was done takes the place of the statistics.
BridgeEnds(c) ==
    /\ Speaking(c)
    /\ {conn[c].up, conn[c].down} # {"running"}
    /\ IF "raised" \in {conn[c].up, conn[c].down}
       THEN Put(c, "broken")
       ELSE conn' = [conn EXCEPT ![c].at = "reported", ![c].reported = TRUE]
    /\ UNCHANGED <<storeVars, now, minted, spent, permits, process>>

\* wait_for runs out, or the handler is cancelled.
BridgeStopped(c) ==
    /\ Speaking(c)
    /\ Put(c, "broken")
    /\ UNCHANGED <<storeVars, now, minted, spent, permits, process>>

\* Fault: the transcript is written for every conversation that said something.
FinallyAlways(c) ==
    /\ conn[c].at \in {"reported", "broken"}
    /\ permits' = permits + 1
    /\ Put(c, "ended")
    /\ IF conn[c].heard /\ SessionOfTicket[conn[c].ticket] \in listed
       THEN SpeakTurn(SessionOfTicket[conn[c].ticket])
       ELSE UNCHANGED storeVars
    /\ UNCHANGED <<now, minted, spent, process>>

\* The finally clause: the slot, then the transcript of a bridge that reported
\* (record_voice_turn keeps nothing of a silence or for a deleted session).
Finally(c) ==
    /\ conn[c].at \in {"reported", "broken"}
    /\ permits' = permits + 1
    /\ Put(c, "ended")
    /\ IF conn[c].reported /\ conn[c].heard /\ SessionOfTicket[conn[c].ticket] \in listed
       THEN SpeakTurn(SessionOfTicket[conn[c].ticket])
       ELSE UNCHANGED storeVars
    /\ UNCHANGED <<now, minted, spent, process>>

-----------------------------------------------------------------------------
(* The sessions, and a restart                                             *)

Create(s) == CreateSession(s) /\ UNCHANGED voiceVars
Delete(s) == DeleteSession(s) /\ UNCHANGED voiceVars

\* Spent tickets and slots are the process's own.
Restart ==
    /\ process <= MaxRestarts
    /\ process' = process + 1
    /\ spent' = <<>>
    /\ permits' = MaxConcurrent
    /\ conn' = [c \in Conns |-> IF conn[c].at \in Inside THEN [conn[c] EXCEPT !.at = "lost"] ELSE conn[c]]
    /\ LoadSessions(disk)
    /\ UNCHANGED <<now, minted>>

VoiceNext ==
    \/ Tick \/ Restart
    \/ \E s \in Sessions : Create(s) \/ Delete(s)
    \/ \E t \in Tickets : Mint(t)
    \/ \E c \in Conns :
        \/ \E t \in Tickets : Connect(c, t) \/ Refuse(c, t)
        \/ Accept(c) \/ Hear(c) \/ PumpUpEnds(c) \/ PumpDownEnds(c)
        \/ BridgeEnds(c) \/ BridgeStopped(c) \/ Finally(c)

VoiceSpec == VoiceInit /\ [][VoiceNext]_vars

-----------------------------------------------------------------------------
(* Properties                                                              *)

\* Types of the voice endpoint.
VoiceTypeOK ==
    /\ now \in 0..MaxNow
    /\ minted \in [Tickets -> {Unminted} \cup 0..MaxNow]
    /\ spent \in Seq([ticket : Tickets, since : 0..MaxNow])
    /\ permits \in 0..MaxConcurrent
    /\ conn \in [Conns -> [at : Stages, ticket : Tickets \cup {NoTicket}, process : Nat,
                           heard : BOOLEAN, reported : BOOLEAN,
                           up : {"running", "returned", "raised"}, down : {"running", "returned", "raised"}]]
    /\ process \in Nat

\* A ticket opens one conversation at most while the process lives, whatever
\* expires or is pushed out of the memory of spent tickets, if tickets live
\* shorter than they are remembered, which no check of the settings demands.
OneConversationPerTicket ==
    Life < Remember =>
        \A c, d \in Conns :
            /\ conn[c].ticket = conn[d].ticket /\ conn[c].ticket # NoTicket
            /\ conn[c].process = conn[d].process
            => c = d

\* Every way out of a conversation gives its slot back, once: a failed
\* handshake, a goodbye, a broken pump, the time limit.
CapacityIsReturned ==
    permits + Cardinality({c \in Conns : conn[c].at \in Inside}) = MaxConcurrent

Voices(session) == Cardinality({i \in DOMAIN session.log : session.log[i][1] = "voice"})
Ended(s) == {c \in Conns : conn[c].at = "ended" /\ conn[c].ticket # NoTicket
                            /\ SessionOfTicket[conn[c].ticket] = s /\ conn[c].heard}

\* A conversation whose bridge reported is in its session and in the file,
\* once, and one whose bridge broke is not, also when the session was deleted
\* or the process restarted meanwhile.
TranscriptFollowsTheBridge ==
    \A s \in listed :
        LET Reported == {c \in Ended(s) : conn[c].reported}
        IN  Voices(sess[s]) = Cardinality(Reported) /\ Voices(disk[s]) = Cardinality(Reported)

\* What a conversation leaves when it ends: its slot and its transcript.
ConversationsAreSettled == CapacityIsReturned /\ TranscriptFollowsTheBridge

\* "Spoken turns are still written into the normal message history, so they
\* appear in the transcript on reload" (README): what was heard in a
\* conversation that has ended is in the history of its session.
SpokenIsWritten ==
    \A s \in listed : Cardinality(Ended(s)) <= Voices(sess[s])
=============================================================================

----------------------------- MODULE VoicePage -----------------------------
(***************************************************************************)
(* The voice client of a chatbot page (VOICE_SCRIPT in                     *)
(* src/api/chatbot_page.py).  start asks for the microphone, for a ticket, *)
(* for a loudspeaker and a recorder, and opens a socket; it awaits each of *)
(* them, and everything it obtains it keeps in variables of the page, which *)
(* stop, at any moment, empties.                                           *)
(*                                                                         *)
(* Every attempt to start is followed to its end, whatever became of the   *)
(* conversation meanwhile.  Audio is a number of buffers to be played.     *)
(***************************************************************************)
EXTENDS Integers

CONSTANTS
    Null,
    MaxStarts,      \* bound: attempts to start
    MaxQueued       \* bound: buffers to be played

ASSUME VoiceAssumption ==
    /\ MaxStarts \in Nat /\ MaxQueued \in Nat \ {0}
    /\ Null \notin Nat /\ \A k \in 1..MaxStarts, place \in {"mic", "mic again"} : Null # <<k, place>>

VARIABLES
    state,          \* what the button shows
    at,             \* what each attempt awaits
    ws,             \* the socket of the page, named for its attempt
    socket,         \* each socket, as the browser knows it
    mic,            \* micStream
    live,           \* microphones that record
    speaker, capture,       \* outCtx and inCtx are there
    queued, ducked, \* buffers to be played; the microphone is faded out
    overtaken       \* a stop came while an attempt was under way (bookkeeping)

clientVars == <<state, at, ws, socket, mic, live, speaker, capture, queued, ducked, overtaken>>

Attempts == 1..MaxStarts
Connected == {"connecting", "open", "ready"}

VoiceInit ==
    /\ state = "idle"
    /\ at = [k \in Attempts |-> "new"]
    /\ ws = Null /\ socket = [k \in Attempts |-> "none"]
    /\ mic = Null /\ live = {}
    /\ speaker = FALSE /\ capture = FALSE
    /\ queued = 0 /\ ducked = FALSE
    /\ overtaken = FALSE

UnderWay == {k \in Attempts : at[k] \notin {"new", "over"}}

-----------------------------------------------------------------------------
(* Stopping                                                                *)

\* Fault: the tracks of the microphone are not stopped.
StoppedRecording(others, sockets) ==
    /\ state' = "idle"
    /\ socket' = [k \in Attempts |-> IF k = ws /\ sockets[k] \in Connected THEN "closing" ELSE sockets[k]]
    /\ ws' = Null
    /\ live' = live /\ mic' = Null
    /\ speaker' = FALSE /\ capture' = FALSE
    /\ queued' = 0 /\ ducked' = FALSE
    /\ overtaken' = (overtaken \/ others # {})

\* stop, next to the attempts still under way
Stopped(others, sockets) ==
    /\ state' = "idle"
    /\ socket' = [k \in Attempts |-> IF k = ws /\ sockets[k] \in Connected THEN "closing" ELSE sockets[k]]
    /\ ws' = Null
    /\ live' = live \ {mic} /\ mic' = Null
    /\ speaker' = FALSE /\ capture' = FALSE
    /\ queued' = 0 /\ ducked' = FALSE
    /\ overtaken' = (overtaken \/ others # {})

TapToStop ==
    /\ state # "idle"
    /\ Stopped(UnderWay, socket)
    /\ UNCHANGED at

-----------------------------------------------------------------------------
(* Starting                                                                *)

To(k, place) == at' = [at EXCEPT ![k] = place]

TapToStart(k) ==
    /\ state = "idle"
    /\ at[k] = "new" /\ \A j \in Attempts : at[j] = "new" => k <= j
    /\ state' = "starting"
    /\ To(k, IF mic = Null THEN "mic" ELSE "ticket")
    /\ UNCHANGED <<ws, socket, mic, live, speaker, capture, queued, ducked, overtaken>>

\* requestMic, before the ticket, or in attachCapture when it is gone again
MicGranted(k) ==
    /\ \/ at[k] = "mic" /\ To(k, "ticket") /\ UNCHANGED capture
       \/ at[k] = "mic again" /\ To(k, "context") /\ capture' = TRUE
    /\ mic' = <<k, at[k]>>
    /\ live' = live \cup {mic'}
    /\ UNCHANGED <<state, ws, socket, speaker, queued, ducked, overtaken>>

TicketMinted(k) ==
    /\ at[k] = "ticket" /\ To(k, "speaker")
    /\ speaker' = TRUE
    /\ UNCHANGED <<state, ws, socket, mic, live, capture, queued, ducked, overtaken>>

\* outCtx has resumed; attachCapture begins.
SpeakerResumed(k) ==
    /\ at[k] = "speaker"
    /\ IF mic = Null THEN To(k, "mic again") /\ UNCHANGED capture
       ELSE To(k, "context") /\ capture' = TRUE
    /\ UNCHANGED <<state, ws, socket, mic, live, speaker, queued, ducked, overtaken>>

\* inCtx has resumed: the recorder is wired to the microphone.
ContextResumed(k) ==
    /\ at[k] = "context" /\ capture /\ mic # Null
    /\ To(k, "module")
    /\ ducked' = FALSE
    /\ UNCHANGED <<state, ws, socket, mic, live, speaker, capture, queued, overtaken>>

\* The recorder runs, or its fallback does, and the socket is opened.
Connect(k) ==
    /\ at[k] = "module" /\ capture
    /\ To(k, "over")
    /\ ws' = k /\ socket' = [socket EXCEPT ![k] = "connecting"]
    /\ UNCHANGED <<state, mic, live, speaker, capture, queued, ducked, overtaken>>

\* Something awaited is refused, or something needed is gone.
StartFails(k) ==
    /\ k \in UnderWay
    /\ To(k, "over")
    /\ Stopped(UnderWay \ {k}, socket)

-----------------------------------------------------------------------------
(* The socket                                                              *)

Becomes(k, status) == [socket EXCEPT ![k] = status]

Accepted(k) ==
    /\ socket[k] = "connecting" /\ socket' = Becomes(k, "open")
    /\ UNCHANGED <<state, at, ws, mic, live, speaker, capture, queued, ducked, overtaken>>

Ready(k) ==
    /\ socket[k] = "open" /\ socket' = Becomes(k, "ready")
    /\ state' = "listening"
    /\ UNCHANGED <<at, ws, mic, live, speaker, capture, queued, ducked, overtaken>>

\* Fault: the microphone is not faded.
AudioUnducked(k) ==
    /\ socket[k] = "ready" /\ speaker /\ queued < MaxQueued
    /\ queued' = queued + 1
    /\ state' = IF state = "listening" THEN "speaking" ELSE state
    /\ UNCHANGED <<at, ws, socket, mic, live, speaker, capture, ducked, overtaken>>

\* enqueue, which does nothing without a loudspeaker
Audio(k) ==
    /\ socket[k] = "ready" /\ speaker /\ queued < MaxQueued
    /\ queued' = queued + 1 /\ ducked' = TRUE
    /\ state' = IF state = "listening" THEN "speaking" ELSE state
    /\ UNCHANGED <<at, ws, socket, mic, live, speaker, capture, overtaken>>

Interrupted(k) ==
    /\ socket[k] = "ready"
    /\ queued' = 0 /\ ducked' = FALSE
    /\ state' = "listening"
    /\ UNCHANGED <<at, ws, socket, mic, live, speaker, capture, overtaken>>

\* A frame tells of an error, or of the end.
Ended(k) ==
    /\ socket[k] \in {"open", "ready"}
    /\ Stopped(UnderWay, socket)
    /\ UNCHANGED at

\* Fault: a socket that closes ends a conversation only, not a start.
ClosedWhenHeard(k) ==
    /\ socket[k] \in Connected \cup {"closing"}
    /\ IF state \in {"listening", "speaking"} THEN Stopped(UnderWay, Becomes(k, "closed"))
       ELSE /\ socket' = Becomes(k, "closed")
            /\ UNCHANGED <<state, ws, mic, live, speaker, capture, queued, ducked, overtaken>>
    /\ UNCHANGED at

\* onclose, and onerror before it if the connection broke; the handlers of
\* every socket stop whatever conversation there is.
Closed(k) ==
    /\ socket[k] \in Connected \cup {"closing"}
    /\ \E broken \in BOOLEAN :
        IF broken \/ state # "idle" THEN Stopped(UnderWay, Becomes(k, "closed"))
        ELSE /\ socket' = Becomes(k, "closed")
             /\ UNCHANGED <<state, ws, mic, live, speaker, capture, queued, ducked, overtaken>>
    /\ UNCHANGED at

\* onended of a buffer
Played ==
    /\ queued > 0
    /\ queued' = queued - 1
    /\ ducked' = (queued' > 0)
    /\ state' = IF queued' = 0 /\ state = "speaking" THEN "listening" ELSE state
    /\ UNCHANGED <<at, ws, socket, mic, live, speaker, capture, overtaken>>

-----------------------------------------------------------------------------
Proceeds(k) ==
    \/ MicGranted(k) \/ TicketMinted(k) \/ SpeakerResumed(k) \/ ContextResumed(k) \/ Connect(k)
    \/ StartFails(k)
Settles(k) == Accepted(k) \/ Ready(k) \/ Closed(k)

VoiceNext ==
    \/ TapToStop \/ Played
    \/ \E k \in Attempts :
        \/ TapToStart(k) \/ Proceeds(k) \/ Settles(k)
        \/ Audio(k) \/ Interrupted(k) \/ Ended(k)

\* What is awaited comes or is refused, and a server that took a connection
\* says that it is ready or closes it.
VoiceFairness ==
    \A k \in Attempts :
        WF_clientVars(Proceeds(k)) /\ WF_clientVars(socket[k] \in {"connecting", "open"} /\ Settles(k))
VoiceSpec == VoiceInit /\ [][VoiceNext]_clientVars /\ VoiceFairness

-----------------------------------------------------------------------------
Silent == live = {} /\ \A k \in Attempts : socket[k] \notin Connected

\* However a conversation ends, refused, broken or stopped, nothing records
\* and no socket is open behind the idle button (stop, and the catch of
\* start), as long as no stop came in the middle of a start.
EndsInSilence == state = "idle" /\ ~overtaken => Silent

\* While the agent is heard the microphone is faded out, and when it has
\* finished or was interrupted the microphone is back (enqueue, duck,
\* flushPlayback).
FadedWhileSpeaking == capture /\ ~overtaken => (ducked <=> queued > 0)

\* Neither the visitor in an idle page nor the agent's own voice is recorded.
NobodyIsOverheard == EndsInSilence /\ FadedWhileSpeaking

\* A start comes to a conversation or to an end (start, onclose).
StartComesToAnEnd == state = "starting" ~> state # "starting"

\* "Voice mode - tap the mic again to stop": once stopped, the conversation
\* does not come back unless the visitor starts one.  This does not hold
\* (README, Divergences).
StoppedStaysStopped == [][state = "idle" => state' \in {"idle", "starting"}]_clientVars
=============================================================================

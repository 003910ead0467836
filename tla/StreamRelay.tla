----------------------------- MODULE StreamRelay -----------------------------
(***************************************************************************)
(* One run and the stream that shows it: SessionManager.stream_message     *)
(* (src/api/session_manager.py), the sink through which the crew's threads *)
(* push events while the run executes, and the RunRecorder                 *)
(* (src/infrastructure/database/run_store.py) that keeps the same frames   *)
(* for the run history.                                                    *)
(*                                                                         *)
(* A crew thread first records an event under the recorder's lock, then    *)
(* hands it to the event loop with call_soon_threadsafe; the loop's        *)
(* callback puts it on the stream's queue; the relay takes it from there   *)
(* and yields it to the client, who may leave at any time.                 *)
(*                                                                         *)
(* process_message is reduced to what the stream and the record see of it; *)
(* SessionManager models it in full.  It may also run without a stream     *)
(* (POST /chat, the test runner): only then is it ever cancelled.          *)
(***************************************************************************)
EXTENDS Integers, SequencesExt

CONSTANTS
    Emitters,       \* the threads of the crew that emit events
    MaxEmit,        \* bound: the events each of them emits
    MaxEvents       \* MAX_EVENTS, the frames a RunRecorder keeps

ASSUME RelayAssumption ==
    /\ IsFiniteSet(Emitters)
    /\ MaxEmit \in Nat
    /\ MaxEvents \in Nat \ {0}

VARIABLES
    relay,          \* where stream_message stands
    frames,         \* the frames it has yielded
    queue,          \* its asyncio.Queue
    ready,          \* callbacks the threads have scheduled on the loop, oldest first
    run,            \* where run_task, the task of process_message, stands
    crew,           \* the kickoff
    emitted,        \* events each thread has emitted
    holding,        \* whether a thread has recorded its event, not yet handed it over
    events,         \* RunRecorder._events
    stored          \* the events of the finished row; <<>>: not finished

relayVars == <<relay, frames, queue>>
crewVars  == <<crew, emitted, holding>>
runVars   == <<run, events, stored>>
streamVars == <<relayVars, ready, crewVars, runVars>>

Event(e, n) == <<"event", e, n>>
RunEvents   == {Event(e, n) : e \in Emitters, n \in 1..MaxEmit}
KickoffOver == <<"kickoff over">>   \* the callback that wakes the awaiting run

Contract == INSTANCE FrameContract WITH Events <- RunEvents, sent <- frames
Start == Contract!Start
Token == Contract!Token
Done  == Contract!Done
Error == Contract!Error

\* The run was started by stream_message, and its sink feeds a queue.
Streamed == relay # "none"

\* `record` of the run is not None: its recorder holds START.
Recording == events # <<>>

\* Between recording the error and writing the row the run does not suspend.
LoopIsFree == run \notin {"failing", "cancelling"}

\* Fault: the recorder keeps the newest frames.
NotedNewest(log, frame) ==
    IF log = <<>> THEN log
    ELSE LET all == Append(log, frame) IN SubSeq(all, IF Len(all) > MaxEvents THEN 2 ELSE 1, Len(all))

\* RunRecorder.record, of a run that has one: beyond MAX_EVENTS a frame is counted
\* and dropped.
Noted(log, frame) ==
    IF log # <<>> /\ Len(log) < MaxEvents THEN Append(log, frame) ELSE log

-----------------------------------------------------------------------------
StreamInit ==
    /\ \/ relay = "new" /\ run = "none"
       \/ relay = "none" /\ run = "created"
    /\ frames = <<>> /\ queue = <<>> /\ ready = <<>>
    /\ crew = "idle"
    /\ emitted = [e \in Emitters |-> 0]
    /\ holding = [e \in Emitters |-> FALSE]
    /\ events = <<>> /\ stored = <<>>

-----------------------------------------------------------------------------
(* The crew's threads *)

\* The recording half of the sink.
Record(e) ==
    /\ crew = "working" /\ ~holding[e] /\ emitted[e] < MaxEmit
    /\ emitted' = [emitted EXCEPT ![e] = @ + 1]
    /\ holding' = [holding EXCEPT ![e] = Streamed]
    /\ events' = Noted(events, Event(e, emitted'[e]))
    /\ UNCHANGED <<relayVars, ready, crew, run, stored>>

\* The live half: loop.call_soon_threadsafe(queue.put_nowait, ...)
HandOver(e) ==
    /\ holding[e]
    /\ ready' = Append(ready, Event(e, emitted[e]))
    /\ holding' = [holding EXCEPT ![e] = FALSE]
    /\ UNCHANGED <<relayVars, crew, emitted, runVars>>

\* The kickoff has waited for its threads; to_thread's future is resolved
\* through the loop, behind the events.
CrewEnds ==
    /\ crew = "working" /\ \A e \in Emitters : ~holding[e]
    /\ crew' \in {"done", "raised"}
    /\ ready' = Append(ready, KickoffOver)
    /\ UNCHANGED <<relayVars, emitted, holding, runVars>>

-----------------------------------------------------------------------------
(* The event loop: the run *)

\* process_message up to the kickoff, or as far as it gets: an unknown or closed
\* session raises, the turn limit answers at once; neither is recorded, nor is a
\* run whose row could not be opened.
StartRun ==
    /\ run = "created"
    /\ \/ /\ run' \in {"raised", "returned"}
          /\ UNCHANGED <<crew, events>>
       \/ /\ run' = "executing"
          /\ crew' = "working"
          /\ events' \in {<<Start>>, <<>>}
    /\ UNCHANGED <<relayVars, ready, emitted, holding, stored>>

\* The loop runs the oldest callback.
Dispatch ==
    /\ LoopIsFree
    /\ ready # <<>>
    /\ ready' = Tail(ready)
    /\ IF Head(ready) = KickoffOver
       THEN run' = (IF run = "executing" THEN "resuming" ELSE run) /\ UNCHANGED queue
       ELSE queue' = Append(queue, Head(ready)) /\ UNCHANGED run
    /\ UNCHANGED <<relay, frames, crewVars, events, stored>>

Reply ==
    /\ run = "resuming" /\ crew = "done"
    /\ events' = Noted(Noted(events, Token), Done)
    /\ run' = IF Recording THEN "closing" ELSE "returned"
    /\ UNCHANGED <<relayVars, ready, crewVars, stored>>

\* Fault: the task counts as cancelled, which `except Exception` does not see.
FailAsCancelled ==
    /\ run = "resuming" /\ crew = "raised"
    /\ events' = Noted(events, Error)
    /\ run' = IF Recording THEN "cancelling" ELSE "cancelled"
    /\ UNCHANGED <<relayVars, ready, crewVars, stored>>

Fail ==
    /\ run = "resuming" /\ crew = "raised"
    /\ events' = Noted(events, Error)
    /\ run' = IF Recording THEN "failing" ELSE "raised"
    /\ UNCHANGED <<relayVars, ready, crewVars, stored>>

\* Fault: only an Exception is recorded, and a cancellation is none.
CancelQuietly ==
    /\ ~Streamed /\ run \in {"executing", "resuming"}
    /\ run' = IF Recording THEN "cancelling" ELSE "cancelled"
    /\ UNCHANGED <<relayVars, ready, crewVars, events, stored>>

\* Nothing cancels the task of a stream, not even the client that leaves.
Cancel ==
    /\ ~Streamed /\ run \in {"executing", "resuming"}
    /\ events' = Noted(events, Error)
    /\ run' = IF Recording THEN "cancelling" ELSE "cancelled"
    /\ UNCHANGED <<relayVars, ready, crewVars, stored>>

\* While the row is closed after an answer nobody records a cancellation: the worker
\* thread goes on, or, if it had not begun, it never does.
CancelClosing ==
    /\ ~Streamed /\ run = "closing"
    /\ run' \in {"leaving", "left"}
    /\ UNCHANGED <<relayVars, ready, crewVars, events, stored>>

\* _finish_run_record reads recorder.events: a worker thread does after an
\* answer, the loop's own after a failure.
CloseRow ==
    /\ \/ run = "closing"    /\ run' = "returned"
       \/ run = "leaving"    /\ run' = "left"
       \/ run = "failing"    /\ run' = "raised"
       \/ run = "cancelling" /\ run' = "cancelled"
    /\ stored' = events
    /\ UNCHANGED <<relayVars, ready, crewVars, events>>

-----------------------------------------------------------------------------
(* The event loop: the relay, resumed whenever the client takes a frame *)

RelayStep(from, to) ==
    /\ LoopIsFree
    /\ relay = from
    /\ relay' = to
    /\ UNCHANGED <<ready, crewVars, events, stored>>

Yields(frame) == frames' = Append(frames, frame)

Open ==
    /\ RelayStep("new", "opened")
    /\ Yields(Start)
    /\ UNCHANGED <<queue, run>>

Begin ==
    /\ RelayStep("opened", "relaying")
    /\ run' = "created"
    /\ UNCHANGED <<frames, queue>>

\* pending_get is done, or the queue is drained after the run.
Forward ==
    /\ queue # <<>>
    /\ \E at \in {"relaying", "draining"} : RelayStep(at, at)
    /\ Yields(Head(queue))
    /\ queue' = Tail(queue)
    /\ UNCHANGED run

\* Fault: the event pending_get had already taken goes with it.
NoticeDroppingOne ==
    /\ run \in {"returned", "raised"}
    /\ RelayStep("relaying", "draining")
    /\ queue' = IF queue = <<>> THEN queue ELSE Tail(queue)
    /\ UNCHANGED <<frames, run>>

\* The run is over and pending_get is not: it is cancelled, what it would have
\* got is still in the queue.
Notice ==
    /\ run \in {"returned", "raised"}
    /\ RelayStep("relaying", "draining")
    /\ UNCHANGED <<frames, queue, run>>

\* Fault: the queue is not drained.
ConcludeAtOnce ==
    /\ \/ run = "returned" /\ RelayStep("draining", "told") /\ Yields(Token)
       \/ run = "raised" /\ RelayStep("draining", "ended") /\ Yields(Error)
    /\ UNCHANGED <<queue, run>>

Conclude ==
    /\ queue = <<>>
    /\ \/ run = "returned" /\ RelayStep("draining", "told") /\ Yields(Token)
       \/ run = "raised" /\ RelayStep("draining", "ended") /\ Yields(Error)
    /\ UNCHANGED <<queue, run>>

\* Fault: the last frame fails, and is reported after the answer.
FinishFailing ==
    /\ RelayStep("told", "ended")
    /\ Yields(Error)
    /\ UNCHANGED <<queue, run>>

Finish ==
    /\ RelayStep("told", "ended")
    /\ Yields(Done)
    /\ UNCHANGED <<queue, run>>

\* Fault: the run goes with its client.
LeaveCancelling ==
    /\ \E at \in {"opened", "relaying", "draining", "told"} : RelayStep(at, "gone")
    /\ run' = IF run \in {"created", "executing"} THEN "cancelled" ELSE run
    /\ UNCHANGED <<frames, queue>>

\* The client disconnects, and the generator is closed where it stands.
Leave ==
    /\ \E at \in {"opened", "relaying", "draining", "told"} : RelayStep(at, "gone")
    /\ UNCHANGED <<frames, queue, run>>

-----------------------------------------------------------------------------
RunSteps    == StartRun \/ Dispatch \/ Reply \/ Fail \/ CloseRow
ThreadSteps == CrewEnds \/ \E e \in Emitters : Record(e) \/ HandOver(e)
RelaySteps  == Open \/ Begin \/ Forward \/ Notice \/ Conclude \/ Finish

StreamNext == RunSteps \/ ThreadSteps \/ RelaySteps \/ Cancel \/ CancelClosing \/ Leave

StreamSpec == StreamInit /\ [][StreamNext]_streamVars

(* The loop runs what is ready and the crew's threads make progress.  The  *)
(* relay is not among what is fair: it moves when the client reads, and no *)
(* client has to.                                                          *)
StreamFairness == WF_streamVars(RunSteps) /\ WF_streamVars(ThreadSteps)
FairStreamSpec == StreamSpec /\ StreamFairness

-----------------------------------------------------------------------------
(* Properties *)

RelayStates == {"none", "new", "opened", "relaying", "draining", "told", "ended", "gone"}
RunStates == {"none", "created", "executing", "resuming", "closing", "failing", "cancelling",
              "leaving", "left", "returned", "raised", "cancelled"}

\* Every variable has its type, and the recorder stays within its limit.
RelayTypeOK ==
    /\ relay \in RelayStates /\ run \in RunStates
    /\ crew \in {"idle", "working", "done", "raised"}
    /\ frames \in Seq(Contract!Frames) /\ queue \in Seq(RunEvents)
    /\ ready \in Seq(RunEvents \cup {KickoffOver})
    /\ emitted \in [Emitters -> 0..MaxEmit]
    /\ holding \in [Emitters -> BOOLEAN]
    /\ events \in Seq(Contract!Frames) /\ stored \in Seq(Contract!Frames)
    /\ Len(events) <= MaxEvents

\* The events of thread e that seq holds are its first n, each once and in order.
Brings(seq, e, n) ==
    /\ \A k \in 1..n : \E i \in DOMAIN seq : seq[i] = Event(e, k)
    /\ \A i \in DOMAIN seq, j \in DOMAIN seq, k \in 1..MaxEmit, l \in 1..MaxEmit :
          seq[i] = Event(e, k) /\ seq[j] = Event(e, l) => k <= n /\ (i < j => k < l)

InFlight == frames \o queue \o ready
HandedOver(e) == IF holding[e] THEN emitted[e] - 1 ELSE emitted[e]

\* On their way through the loop's callbacks, the queue and the relay no event
\* is lost, doubled or overtaken by a later one of its thread.
NothingIsLostOnTheWay ==
    Streamed => \A e \in Emitters : Brings(InFlight, e, HandedOver(e))

\* A stream that ended carried everything: all events of the run stand before its
\* last frames, and these tell how the run ended.
StreamIsComplete ==
    relay = "ended" =>
        /\ \A e \in Emitters : Brings(frames, e, emitted[e])
        /\ Last(frames) = IF run = "returned" THEN Done ELSE Error

\* The record is as long as the stream until it was full, and frame by frame the
\* same where a single thread emitted: between recording an event and handing it
\* over another thread may come first.
RecordIsTheStream ==
    relay = "ended" /\ stored # <<>> =>
        /\ Len(stored) = IF Len(frames) < MaxEvents THEN Len(frames) ELSE MaxEvents
        /\ Cardinality({e \in Emitters : emitted[e] > 0}) <= 1 => IsPrefix(stored, frames)

\* No thread's events are missing from between those a record holds, and one that
\* was not cut tells how its run ended, by DONE or by ERROR and never by both.  A run
\* that was cancelled while its row was closed had its answer, and the row says so.
Recorded(frame) == \E i \in DOMAIN stored : stored[i] = frame
RecordTellsTheOutcome ==
    stored # <<>> =>
        /\ \A e \in Emitters : \E n \in 0..emitted[e] : Brings(stored, e, n)
        /\ Len(stored) < MaxEvents =>
             /\ Recorded(Done) <=> run \in {"returned", "left"}
             /\ Recorded(Error) <=> run \in {"raised", "cancelled"}

\* The stream brings the events of the run to its client, and all of them.
StreamIsWhole == NothingIsLostOnTheWay /\ StreamIsComplete

\* What is recorded is what was streamed and what happened.
RecordIsTrue == RecordIsTheStream /\ RecordTellsTheOutcome

\* A stream whose client keeps reading comes to its end.
EveryStreamEnds ==
    WF_streamVars(RelaySteps) => (relay = "new" ~> relay \in {"ended", "gone"})

\* A run that began is recorded to its end, whether the client reads, stalls or
\* leaves.  Only a call that is cancelled while its row is closed may leave it open,
\* and no call of a stream is ever cancelled.
RunOutlivesItsClient ==
    (run = "executing" /\ Recording) ~> (stored # <<>> \/ (~Streamed /\ run = "left"))

\* The frames are sent as stream_message documents them.
ImplementsContract == Contract!ContractSpec
=============================================================================

----------------------------- MODULE TaskBroker -----------------------------
(***************************************************************************)
(* Tasks for agents over RabbitMQ (src/infrastructure/message_broker.py):  *)
(* the publisher, the consumer of an agent's queue, and the handler of the *)
(* dead letter queue, which waits and publishes a failed task again.       *)
(*                                                                         *)
(* What the broker and aio_pika promise is modelled from how the code uses *)
(* them: queues and messages are durable; a message that was delivered and *)
(* not acknowledged goes back to its queue when its channel closes, and    *)
(* the callback working on it ends; leaving message.process() with an      *)
(* exception rejects the message, which goes to the dead letter exchange;  *)
(* an exchange drops what no queue is bound for; a publication that raises *)
(* may or may not have reached the broker.  Order, priority and the length *)
(* of the delays are left out.                                             *)
(***************************************************************************)
EXTENDS Integers, FiniteSets

CONSTANTS
    Tasks,          \* task ids
    NoTask,         \* the task of a copy that does not exist
    MaxRetries,     \* AgentTask.max_retries
    Prefetch,       \* prefetch_count of the channels
    MaxCopies,      \* bound: messages in the broker at once
    MaxBreaks,      \* bound: channels that close with deliveries open
    MaxStops        \* bound: calls of stop_consuming and stop_processing

ASSUME BrokerAssumption ==
    /\ NoTask \notin Tasks
    /\ MaxRetries \in Nat /\ Prefetch \in Nat \ {0} /\ MaxCopies \in Nat
    /\ MaxBreaks \in Nat /\ MaxStops \in Nat

VARIABLES
    copy,           \* the messages: their task, retry_count and place
    declared,       \* the queues that were declared and bound
    consuming,      \* the queues with a consumer
    processing,     \* DeadLetterQueueHandler._is_consuming
    published,      \* the tasks published
    breaks, stops,
    \* bookkeeping of the model
    times,          \* how often the handler returned for a task
    failures,       \* how often it raised
    returned,       \* the copies of a task that a closing channel gave back
    discarded,      \* the tasks given up after their retries
    mislaid         \* the tasks a copy of which no queue took or no publication sent

setup  == <<declared, consuming, processing, published, breaks, stops>>
ledger == <<times, failures, returned, discarded, mislaid>>
brokerVars == <<copy, setup, ledger>>

Copies == 1..MaxCopies
Queues == {"queue", "dlq"}

\* The agent's queue: ready, with the task handler, handled and not acknowledged.
\* The dead letter queue: ready, waiting for its retry, and, not acknowledged
\* yet, published again, not published because that raised, or given up.
Ready     == [queue |-> "queued", dlq |-> "dead"]
Unsettled == [queue |-> {"working", "handled"}, dlq |-> {"waiting", "resent", "failed", "spent"}]
Places == {"none", "queued", "working", "handled", "dead", "waiting", "resent", "failed", "spent"}

\* The task and its retry_count travel in the body of the message.
Copy   == [task : Tasks \cup {NoTask}, retries : 0..MaxRetries, at : Places]
NoCopy == [task |-> NoTask, retries |-> 0, at |-> "none"]

Put(c, place) == copy' = [copy EXCEPT ![c].at = place]
TakeAway(c)    == copy' = [copy EXCEPT ![c] = NoCopy]
Bump(f, t)    == [f EXCEPT ![t] = @ + 1]

\* The message a publication adds is the first that is not in use.
NewCopy(c) == copy[c].at = "none" /\ \A d \in Copies : copy[d].at = "none" => c <= d

BrokerInit ==
    /\ copy = [c \in Copies |-> NoCopy]
    /\ declared = {} /\ consuming = {} /\ processing = FALSE
    /\ published = {}
    /\ breaks = 0 /\ stops = 0
    /\ times = [t \in Tasks |-> 0]
    /\ failures = [t \in Tasks |-> 0]
    /\ returned = [t \in Tasks |-> 0]
    /\ discarded = {} /\ mislaid = {}

-----------------------------------------------------------------------------
(* Setting up                                                              *)

\* initialize of the consumer and of the dead letter handler
Declare(q) ==
    /\ q \notin declared
    /\ declared' = declared \cup {q}
    /\ UNCHANGED <<copy, consuming, processing, published, breaks, stops, ledger>>

\* consume_tasks
ConsumeTasks ==
    /\ "queue" \in declared \ consuming
    /\ consuming' = consuming \cup {"queue"}
    /\ UNCHANGED <<copy, declared, processing, published, breaks, stops, ledger>>

\* stop_consuming: what the handler works on it finishes.
StopConsuming ==
    /\ "queue" \in consuming /\ stops < MaxStops
    /\ consuming' = consuming \ {"queue"}
    /\ stops' = stops + 1
    /\ UNCHANGED <<copy, declared, processing, published, breaks, ledger>>

\* start_processing
StartProcessing ==
    /\ "dlq" \in declared /\ ~processing
    /\ processing' = TRUE
    /\ consuming' = consuming \cup {"dlq"}
    /\ UNCHANGED <<copy, declared, published, breaks, stops, ledger>>

\* stop_processing clears the flag; the consumer stays.
StopProcessing ==
    /\ processing /\ stops < MaxStops
    /\ processing' = FALSE
    /\ stops' = stops + 1
    /\ UNCHANGED <<copy, declared, consuming, published, breaks, ledger>>

\* publish_task: without a queue bound for the agent the exchange drops it.
PublishTask(t) ==
    /\ t \notin published
    /\ published' = published \cup {t}
    /\ IF "queue" \in declared
       THEN /\ \E c \in Copies : /\ NewCopy(c)
                                 /\ copy' = [copy EXCEPT ![c] = [task |-> t, retries |-> 0, at |-> "queued"]]
            /\ UNCHANGED mislaid
       ELSE mislaid' = mislaid \cup {t} /\ UNCHANGED copy
    /\ UNCHANGED <<declared, consuming, processing, breaks, stops, times, failures, returned, discarded>>

-----------------------------------------------------------------------------
(* _process_message                                                        *)

UnsettledOn(q) == {c \in Copies : copy[c].at \in Unsettled[q]}

\* The broker hands a message to the consumer, up to the prefetch count.
Deliver(q, c) ==
    /\ q \in consuming
    /\ copy[c].at = Ready[q]
    /\ Cardinality(UnsettledOn(q)) < Prefetch
    /\ Put(c, IF q = "queue" THEN "working" ELSE "waiting")
    /\ UNCHANGED <<setup, ledger>>

Handled(c) ==
    /\ copy[c].at = "working"
    /\ Put(c, "handled")
    /\ times' = Bump(times, copy[c].task)
    /\ UNCHANGED <<setup, failures, returned, discarded, mislaid>>

\* Fault: the message of a failed task is acknowledged.
FailAcknowledged(c) ==
    /\ copy[c].at = "working"
    /\ failures' = Bump(failures, copy[c].task)
    /\ TakeAway(c)
    /\ UNCHANGED <<setup, times, returned, discarded, mislaid>>

\* The handler raises and the message is rejected.
HandlerFails(c) ==
    /\ copy[c].at = "working"
    /\ failures' = Bump(failures, copy[c].task)
    /\ IF "dlq" \in declared
       THEN Put(c, "dead") /\ UNCHANGED mislaid
       ELSE TakeAway(c) /\ mislaid' = mislaid \cup {copy[c].task}
    /\ UNCHANGED <<setup, times, returned, discarded>>

-----------------------------------------------------------------------------
(* _process_dead_letter                                                    *)

\* Fault: a publication that raised is tried again.
RetryTwice(c) ==
    /\ copy[c].at = "waiting" /\ copy[c].retries < MaxRetries
    /\ \E d \in Copies, again \in BOOLEAN :
        /\ NewCopy(d)
        /\ copy' = [copy EXCEPT ![c].at = IF again THEN "dead" ELSE "resent",
                                ![d] = [task |-> copy[c].task, retries |-> copy[c].retries + 1, at |-> "queued"]]
    /\ UNCHANGED <<setup, ledger>>

\* The delay is over and the task is published again with one more retry.
Retry(c) ==
    /\ copy[c].at = "waiting" /\ copy[c].retries < MaxRetries
    /\ \E d \in Copies :
        /\ NewCopy(d)
        /\ copy' = [copy EXCEPT ![c].at = "resent",
                                ![d] = [task |-> copy[c].task, retries |-> copy[c].retries + 1, at |-> "queued"]]
    /\ UNCHANGED <<setup, ledger>>

\* The publication raises without having reached the broker: logged.
RetryFails(c) ==
    /\ copy[c].at = "waiting" /\ copy[c].retries < MaxRetries
    /\ Put(c, "failed")
    /\ UNCHANGED <<setup, ledger>>

\* Fault: the last retry is not made.
GiveUpEarly(c) ==
    /\ copy[c].at = "waiting" /\ copy[c].retries + 1 >= MaxRetries
    /\ Put(c, "spent")
    /\ UNCHANGED <<setup, ledger>>

GiveUp(c) ==
    /\ copy[c].at = "waiting" /\ copy[c].retries = MaxRetries
    /\ Put(c, "spent")
    /\ UNCHANGED <<setup, ledger>>


\* Leaving message.process(): the acknowledgement.
Acknowledge(c) ==
    /\ copy[c].at \in {"handled", "resent", "failed", "spent"}
    /\ TakeAway(c)
    /\ mislaid'   = IF copy[c].at = "failed" THEN mislaid \cup {copy[c].task} ELSE mislaid
    /\ discarded' = IF copy[c].at = "spent" THEN discarded \cup {copy[c].task} ELSE discarded
    /\ UNCHANGED <<setup, times, failures, returned>>

-----------------------------------------------------------------------------
(* Failures                                                                *)

GiveBack(Channels) ==
    LET Back == UNION {UnsettledOn(q) : q \in Channels}
    IN  /\ copy' = [c \in Copies |->
                      IF c \notin Back THEN copy[c]
                      ELSE [copy[c] EXCEPT !.at = IF c \in UnsettledOn("queue") THEN "queued" ELSE "dead"]]
        /\ returned' = [t \in Tasks |-> returned[t] + Cardinality({c \in Back : copy[c].task = t})]

\* A channel closes: by close(), or by the network, and then the robust
\* connection opens it again with its consumers.
Break(q) ==
    /\ breaks < MaxBreaks /\ UnsettledOn(q) # {}
    /\ breaks' = breaks + 1
    /\ GiveBack({q})
    /\ UNCHANGED <<declared, consuming, processing, published, stops, times, failures, discarded, mislaid>>

\* The process stops; a new one consumes nothing until it is told to.
Die ==
    /\ breaks < MaxBreaks /\ consuming # {}
    /\ breaks' = breaks + 1
    /\ GiveBack(Queues)
    /\ consuming' = {} /\ processing' = FALSE
    /\ UNCHANGED <<declared, published, stops, times, failures, discarded, mislaid>>

CopyStep(c) ==
    \/ Deliver("queue", c) \/ Deliver("dlq", c)
    \/ Handled(c) \/ HandlerFails(c)
    \/ Retry(c) \/ RetryFails(c) \/ GiveUp(c)
    \/ Acknowledge(c)

BrokerNext ==
    \/ ConsumeTasks \/ StopConsuming \/ StartProcessing \/ StopProcessing
    \/ \E q \in Queues : Declare(q) \/ Break(q)
    \/ Die
    \/ \E t \in Tasks : PublishTask(t)
    \/ \E c \in Copies : CopyStep(c)

BrokerSpec == BrokerInit /\ [][BrokerNext]_brokerVars

(* The broker delivers, a handler ends one way or the other, a delay passes, *)
(* an acknowledgement is sent.  Nothing is assumed of starts and stops.    *)
BrokerFairness == \A c \in Copies : WF_brokerVars(CopyStep(c))
FairBrokerSpec == BrokerSpec /\ BrokerFairness

-----------------------------------------------------------------------------
(* Properties                                                              *)

CopiesOf(t) == {c \in Copies : copy[c].task = t}

\* Types of the broker.
BrokerTypeOK ==
    /\ copy \in [Copies -> Copy]
    /\ \A c \in Copies : copy[c].task = NoTask <=> copy[c].at = "none"
    /\ declared \subseteq Queues /\ consuming \subseteq declared
    /\ processing \in BOOLEAN
    /\ published \subseteq Tasks /\ discarded \subseteq Tasks /\ mislaid \subseteq Tasks
    /\ times \in [Tasks -> Nat] /\ failures \in [Tasks -> Nat] /\ returned \in [Tasks -> Nat]
    /\ breaks \in Nat /\ stops \in Nat

\* A task that was published is with the broker until it was handled or given
\* up, through failures, retries, closing channels and restarts; the only ways
\* out are a queue nobody declared and a publication of the dead letter
\* handler that raised, which it logs and acknowledges.
NoTaskVanishes ==
    \A t \in published : CopiesOf(t) # {} \/ times[t] > 0 \/ t \in discarded \cup mislaid

\* A task is given up only after it failed once more than MaxRetries, however
\* its messages were returned and doubled (_process_dead_letter).
DiscardedAfterAllRetries ==
    \A t \in discarded : failures[t] > MaxRetries

\* A task is handled more than once only as often as a closing channel gave a
\* message of it back: publishing again before the acknowledgement is no
\* other way to double it.
HandledOnceUnlessReturned ==
    \A t \in Tasks : times[t] <= 1 + returned[t]

\* Whatever becomes of a task is accounted for: it is not lost, not given up
\* early and not doubled.
TasksAreAccountedFor == NoTaskVanishes /\ DiscardedAfterAllRetries /\ HandledOnceUnlessReturned

\* While both consumers stay, every message ends: a task fails, waits and
\* comes back no more than its retries allow.
EveryTaskIsSettled ==
    <>[](consuming = Queues) => <>[](\A t \in published : CopiesOf(t) = {})
=============================================================================

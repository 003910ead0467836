---------------------------- MODULE RateLimiter ----------------------------
(***************************************************************************)
(* The limit on the requests of one caller (src/api/rate_limiting.py): two *)
(* sliding windows, each a record of the times of the requests it let      *)
(* through, which is pruned whenever it is asked.  The middleware asks the *)
(* short window first, and what it let through stays in it even if the     *)
(* long window refuses.                                                    *)
(*                                                                         *)
(* Callers, and the reads and writes of a caller, have records of their    *)
(* own, and the middleware does not suspend while it asks them: one record *)
(* of each window, and one step for each request, stand for all.  No two   *)
(* requests come at the same time, and the clock is not set back.          *)
(***************************************************************************)
EXTENDS Integers, FiniteSets

CONSTANTS
    Minute, Hour,                   \* lengths of the windows
    PerMinute, PerHour,             \* requests allowed in each
    Horizon                         \* bound: time of the last request

ASSUME LimitsAssumption ==
    /\ {Minute, Hour, PerMinute, PerHour} \subseteq Nat \ {0} /\ Horizon \in Nat
    /\ Minute <= Hour

VARIABLES
    now,
    minute, hour,   \* the two records of _rate_limit_store
    accepted,       \* every request let through (bookkeeping)
    refused         \* the last request, if refused: when, and how long to wait (bookkeeping)

limiterVars == <<now, minute, hour, accepted, refused>>

NotRefused == [at |-> 0, window |-> 0, again |-> FALSE]

LimiterInit ==
    /\ now = 0
    /\ minute = {} /\ hour = {}
    /\ accepted = {}
    /\ refused = NotRefused

-----------------------------------------------------------------------------
(* _is_rate_limited, at a time                                             *)

Pruned(record, length, time) == {t \in record : t > time - length}

\* Fault: the record is only pruned when it is full.
FullUnpruned(record, length, limit, time) == Cardinality(record) >= limit

Full(record, length, limit, time) == Cardinality(Pruned(record, length, time)) >= limit

\* The record after a request that the window let through, or refused.
Charged(record, length, limit, time) ==
    Pruned(record, length, time) \cup IF Full(record, length, limit, time) THEN {} ELSE {time}

\* A refusal by a window of that length, and whether the caller had waited as
\* long as that window told it to.
Refuse(length, time) ==
    refused' = [at |-> time, window |-> length,
                again |-> refused.window = length /\ time - refused.at >= length]

-----------------------------------------------------------------------------
\* Fault: a request that is refused for the hour is let through.
RequestShortOnly(time) ==
    /\ now' = time
    /\ minute' = Charged(minute, Minute, PerMinute, time)
    /\ hour' = Charged(hour, Hour, PerHour, time)
    /\ IF Full(minute, Minute, PerMinute, time)
       THEN Refuse(Minute, time) /\ UNCHANGED accepted
       ELSE /\ accepted' = accepted \cup {time}
            /\ refused' = NotRefused

\* __call__
Request(time) ==
    /\ now' = time
    /\ minute' = Charged(minute, Minute, PerMinute, time)
    /\ IF Full(minute, Minute, PerMinute, time)
       THEN Refuse(Minute, time) /\ UNCHANGED <<hour, accepted>>
       ELSE /\ hour' = Charged(hour, Hour, PerHour, time)
            /\ IF Full(hour, Hour, PerHour, time)
               THEN Refuse(Hour, time) /\ UNCHANGED accepted
               ELSE accepted' = accepted \cup {time} /\ refused' = NotRefused

LimiterNext == \E time \in (now + 1)..Horizon : Request(time)

LimiterSpec == LimiterInit /\ [][LimiterNext]_limiterVars

-----------------------------------------------------------------------------
In(requests, from, length) == Cardinality({t \in requests : from <= t /\ t < from + length})

\* However requests are spread, no minute and no hour, wherever it begins,
\* sees more of them let through than is allowed (_is_rate_limited).
LimitsHoldInEveryWindow ==
    \A t \in accepted : In(accepted, t, Minute) <= PerMinute /\ In(accepted, t, Hour) <= PerHour

\* A caller who sends nothing for the time the refusal named is not refused
\* by that window again (Retry-After).
WaitingIsEnough == ~refused.again

\* No more is let through than is allowed, and nobody waits longer than told.
LimitsAreExact == LimitsHoldInEveryWindow /\ WaitingIsEnough
=============================================================================

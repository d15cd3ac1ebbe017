---------------------------- MODULE RequestStats ----------------------------
(***************************************************************************)
(* The request counters behind /stats: withRequestStats counts a request   *)
(* in with beginRequest and out with endRequest, and HandleStats reads     *)
(* them with snapshot while requests come and go.  Each counter is an      *)
(* atomic and nothing is locked, so every load, store and add is a step of *)
(* its own.  The clock is the minute time.Now().Truncate gives.            *)
(***************************************************************************)
EXTENDS Integers, FiniteSets

CONSTANTS Requests,  \* the tracked requests
          MaxMinute  \* bound: the last minute of the clock

ASSUME RequestsAssumption == IsFiniteSet(Requests)
ASSUME MinuteAssumption == MaxMinute \in Nat \ {0}

VARIABLES
    clock,
    place, minute, prev,           \* of each request's endRequest
    inFlight, totalRequests,       \* counters of requestStats
    lastMinuteStart, lastMinuteCount,
    reader,                        \* step of the snapshot under way
    snap                           \* what it has read

statsVars == <<clock, place, minute, prev, inFlight, totalRequests,
               lastMinuteStart, lastMinuteCount, reader, snap>>

counters == <<inFlight, totalRequests, lastMinuteStart, lastMinuteCount>>
locals == <<place, minute, prev>>

At(labels) == {r \in Requests : place[r] \in labels}

StatsInit ==
    /\ clock = 1
    /\ place = [r \in Requests |-> "idle"]
    /\ minute = [r \in Requests |-> 0] /\ prev = [r \in Requests |-> 0]
    /\ inFlight = 0 /\ totalRequests = 0
    /\ lastMinuteStart = 0 /\ lastMinuteCount = 0
    /\ reader = "idle" /\ snap = [total |-> 0, inFlight |-> 0, minute |-> 0, rpm |-> 0]

Tick ==
    /\ clock < MaxMinute
    /\ clock' = clock + 1
    /\ UNCHANGED <<locals, counters, reader, snap>>

Goto(r, from, to) == place[r] = from /\ place' = [place EXCEPT ![r] = to]

BeginRequest(r) ==
    /\ Goto(r, "idle", "serving")
    /\ inFlight' = inFlight + 1
    /\ UNCHANGED <<clock, minute, prev, totalRequests, lastMinuteStart, lastMinuteCount,
                   reader, snap>>

LeaveFlight(r) ==
    /\ Goto(r, "serving", "left")
    /\ inFlight' = inFlight - 1
    /\ UNCHANGED <<clock, minute, prev, totalRequests, lastMinuteStart, lastMinuteCount,
                   reader, snap>>

CountTotal(r) ==
    /\ Goto(r, "left", "counted")
    /\ totalRequests' = totalRequests + 1
    /\ UNCHANGED <<clock, minute, prev, inFlight, lastMinuteStart, lastMinuteCount,
                   reader, snap>>

ReadClock(r) ==
    /\ Goto(r, "counted", "timed")
    /\ minute' = [minute EXCEPT ![r] = clock]
    /\ UNCHANGED <<clock, prev, counters, reader, snap>>

LoadStart(r) ==
    /\ Goto(r, "timed", IF lastMinuteStart = minute[r] THEN "add" ELSE "swap")
    /\ prev' = [prev EXCEPT ![r] = lastMinuteStart]
    /\ UNCHANGED <<clock, minute, counters, reader, snap>>

\* CompareAndSwap: only who changes the minute goes on to reset the count.
SwapStart(r) ==
    /\ Goto(r, "swap", IF lastMinuteStart = prev[r] THEN "reset" ELSE "add")
    /\ lastMinuteStart' = IF lastMinuteStart = prev[r] THEN minute[r] ELSE lastMinuteStart
    /\ UNCHANGED <<clock, minute, prev, inFlight, totalRequests, lastMinuteCount,
                   reader, snap>>

\* Mutants of ResetCount: the request that opens a minute counts itself in the
\* reset; it leaves uncounted.
ResetCountToOne(r) ==
    /\ Goto(r, "reset", "add")
    /\ lastMinuteCount' = 1
    /\ UNCHANGED <<clock, minute, prev, inFlight, totalRequests, lastMinuteStart,
                   reader, snap>>

ResetCountAndLeave(r) ==
    /\ Goto(r, "reset", "done")
    /\ lastMinuteCount' = 0
    /\ UNCHANGED <<clock, minute, prev, inFlight, totalRequests, lastMinuteStart,
                   reader, snap>>

ResetCount(r) ==
    /\ Goto(r, "reset", "add")
    /\ lastMinuteCount' = 0
    /\ UNCHANGED <<clock, minute, prev, inFlight, totalRequests, lastMinuteStart,
                   reader, snap>>

AddCount(r) ==
    /\ Goto(r, "add", "done")
    /\ lastMinuteCount' = lastMinuteCount + 1
    /\ UNCHANGED <<clock, minute, prev, inFlight, totalRequests, lastMinuteStart,
                   reader, snap>>

EndRequest(r) ==
    \/ LeaveFlight(r) \/ CountTotal(r) \/ ReadClock(r) \/ LoadStart(r)
    \/ SwapStart(r) \/ ResetCount(r) \/ AddCount(r)

Reads(from, to) == reader = from /\ reader' = to /\ UNCHANGED <<clock, locals, counters>>

ReadTotal == Reads("idle", "total") /\ snap' = [snap EXCEPT !.total = totalRequests]
ReadInFlight == Reads("total", "flight") /\ snap' = [snap EXCEPT !.inFlight = inFlight]

\* currentRPM: the clock, the start of the minute, and its count if they agree.
ReadMinute == Reads("flight", "minute") /\ snap' = [snap EXCEPT !.minute = clock]
ReadStart ==
    /\ Reads("minute", IF lastMinuteStart = snap.minute THEN "count" ELSE "taken")
    /\ snap' = IF lastMinuteStart = snap.minute THEN snap ELSE [snap EXCEPT !.rpm = 0]
ReadCount == Reads("count", "taken") /\ snap' = [snap EXCEPT !.rpm = lastMinuteCount]

NewSnapshot ==
    /\ Reads("taken", "idle")
    /\ snap' = [total |-> 0, inFlight |-> 0, minute |-> 0, rpm |-> 0]

\* Mutant of Snapshot: the fields are read in the other order.
SnapshotFlightFirst ==
    \/ Reads("idle", "total") /\ snap' = [snap EXCEPT !.inFlight = inFlight]
    \/ Reads("total", "flight") /\ snap' = [snap EXCEPT !.total = totalRequests]
    \/ ReadMinute \/ ReadStart \/ ReadCount \/ NewSnapshot

Snapshot == ReadTotal \/ ReadInFlight \/ ReadMinute \/ ReadStart \/ ReadCount \/ NewSnapshot

StatsNext == Tick \/ Snapshot \/ \E r \in Requests : BeginRequest(r) \/ EndRequest(r)

StatsSpec == StatsInit /\ [][StatsNext]_statsVars

-----------------------------------------------------------------------------
Labels == {"idle", "serving", "left", "counted", "timed", "swap", "reset", "add", "done"}

StatsTypeOK ==
    /\ clock \in 1 .. MaxMinute
    /\ place \in [Requests -> Labels]
    /\ minute \in [Requests -> 0 .. MaxMinute] /\ prev \in [Requests -> 0 .. MaxMinute]
    /\ inFlight \in Nat /\ totalRequests \in Nat
    /\ lastMinuteStart \in 0 .. MaxMinute /\ lastMinuteCount \in Nat
    /\ reader \in {"idle", "total", "flight", "minute", "count", "taken"}
    /\ snap \in [total : Nat, inFlight : Nat, minute : 0 .. MaxMinute, rpm : Nat]

\* A snapshot never counts a request twice, whatever happens between its loads:
\* the total it shows and the requests in flight it shows are different requests.
\* endRequest leaves the flight before it counts, and snapshot reads the total
\* before the flight.
CountedOnce ==
    reader \in {"flight", "minute", "count", "taken"} =>
        snap.total + snap.inFlight <= Cardinality(At(Labels \ {"idle"}))

\* The count of the minute never exceeds the requests that have ended, so neither
\* does the requests_per_minute of any snapshot (endRequest, currentRPM).
MinuteWithinTotal == lastMinuteCount <= totalRequests /\ snap.rpm <= totalRequests

\* Resets race with adds and may lose some, but never the last: when all requests
\* that began have ended, at least one is in the count of the minute.
LastOneCounts ==
    At(Labels \ {"idle", "done"}) = {} /\ At({"done"}) # {} => lastMinuteCount > 0
=============================================================================

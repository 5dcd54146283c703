----------------------------- MODULE LiveWindow -----------------------------
(***************************************************************************)
(* The recent hour of one tailnet, kept twice: in the store, and in the    *)
(* RollingWindowCache that live views read.  The poller moves flows from   *)
(* their source into both, the store first and durably, the cache second   *)
(* and in memory; handlers ask the cache whether it covers a window and    *)
(* then read it, in two critical sections.                                 *)
(*                                                                         *)
(* With the API source a poll fetches [cursor, now - PollDelay) in chunks  *)
(* and commits rows and cursor together.  With the object-store source it  *)
(* commits whatever is not ingested yet (ObjectPoll models that cursor).   *)
(* A flow is counted in the minute it started in, and becomes visible at   *)
(* the source up to Lateness after it was logged.                          *)
(*                                                                         *)
(* Times are ticks, "minute" of them to a minute.  Aggregation of equal    *)
(* pairs is left out: a row is the number of times each flow was added.    *)
(***************************************************************************)
EXTENDS Integers, FiniteSets

CONSTANTS
    Flows, StartAt, LoggedAt,   \* when a flow started and was logged
    minute,                     \* ticks in a minute bucket
    Lateness,                   \* how long the source may hide a logged flow
    PollDelay, maxPollChunk, Retention, InitialBackfill,
    maxAge,                     \* of the cache
    MaxTime, MaxFaults          \* bounds: the clock; failures and restarts

ASSUME LiveAssumption ==
    /\ IsFiniteSet(Flows)
    /\ LoggedAt \in [Flows -> Nat \ {0}] /\ StartAt \in [Flows -> Nat]
    /\ \A f \in Flows : StartAt[f] <= LoggedAt[f]
    /\ {minute, maxPollChunk, Retention, InitialBackfill, maxAge} \subseteq Nat \ {0}
    /\ {Lateness, PollDelay, MaxTime, MaxFaults} \subseteq Nat
    /\ Lateness <= PollDelay

VARIABLES
    now,
    source,         \* "api" or "objects", fixed when the poller is built
    visible,        \* flows the source returns
    cursor,         \* last_poll_end, Unset before the first poll
    stored,         \* stored[f]: how often the store counted flow f
    cached,         \* the same for the cache
    completeFrom,   \* the cache's floor, Unset until CoverFrom
    poll,           \* the poll in progress
    reader,         \* one handler's request
    faults,
    since           \* history: where the first poll to move the cursor starts

vars == <<now, source, visible, cursor, stored, cached, completeFrom, poll, reader, faults, since>>
cache == <<cached, completeFrom>>
tables == <<cursor, stored, since>>

Unset == -1
Idle == [at |-> "idle"]
Nothing == [f \in Flows |-> 0]

Later(a, b) == IF a < b THEN b ELSE a
Earlier(a, b) == IF b < a THEN b ELSE a

MinuteOf(t) == (t \div minute) * minute
NextMinute(t) == IF t % minute = 0 THEN t ELSE MinuteOf(t) + minute
BucketOf(f) == MinuteOf(StartAt[f])

Init ==
    /\ now = 1 /\ source \in {"api", "objects"} /\ visible = {}
    /\ cursor = Unset /\ stored = Nothing /\ since = Unset
    /\ cached = Nothing /\ completeFrom = Unset
    /\ poll = Idle /\ reader = Idle /\ faults = 0

Fault == faults < MaxFaults /\ faults' = faults + 1

-----------------------------------------------------------------------------
(* The world                                                                *)

Appear(f) ==
    /\ f \notin visible /\ LoggedAt[f] <= now
    /\ visible' = visible \union {f}
    /\ UNCHANGED <<now, source, tables, cache, poll, reader, faults>>

Tick ==
    /\ now < MaxTime
    /\ \A f \in Flows \ visible : now < LoggedAt[f] + Lateness
    /\ now' = now + 1
    /\ UNCHANGED <<source, visible, tables, cache, poll, reader, faults>>

-----------------------------------------------------------------------------
(* The cache                                                                *)

\* CoverFrom: the next whole minute; zero means unset, so never zero.
CoveredFrom(t) == Later(NextMinute(t), 1)

CoverFrom(t) ==
    completeFrom' = IF completeFrom = Unset THEN CoveredFrom(t) ELSE completeFrom

\* Update: add a batch, then drop the buckets older than maxAge.
Updated(batch) ==
    [f \in Flows |-> IF BucketOf(f) < now - maxAge THEN 0
                     ELSE cached[f] + IF f \in batch THEN 1 ELSE 0]

Minutes(start, end) == {m \in 0 .. MaxTime + minute : m % minute = 0 /\ start <= m /\ m < end}

HasRows(m) == \E f \in Flows : BucketOf(f) = m /\ cached[f] > 0

\* Mutant: the floor is not looked at.
cacheWindowCovers_NoFloor(start, end) ==
    /\ start >= now - maxAge /\ end <= now + minute
    /\ Minutes(start, end) # {}
    /\ \A m \in Minutes(start, end) : HasRows(m)

\* cacheWindowCovers: a recent window whose every minute has rows, none of
\* them before the floor.
cacheWindowCovers(start, end) ==
    /\ start >= now - maxAge /\ end <= now + minute
    /\ Minutes(start, end) # {}
    /\ \A m \in Minutes(start, end) : m >= completeFrom /\ HasRows(m)

-----------------------------------------------------------------------------
(* poll                                                                     *)

\* Mutant: poll up to now, before late flows have settled.
EndOfPoll_NoDelay == now

EndOfPoll == IF source = "api" THEN now - PollDelay ELSE now

\* From the cursor, but never from before retention, on a clock that starts
\* at zero.
StartOfPoll ==
    Later(IF cursor = Unset THEN Later(EndOfPoll - InitialBackfill, 0) ELSE cursor,
          EndOfPoll - Retention)

\* Mutant: a floor only the object source may use, set from the range's start.
CoverPoint_Start == StartOfPoll

CoverPoint == IF source = "api" THEN StartOfPoll ELSE EndOfPoll

\* The next range pollChunked asks for, or the end of the poll.
Continue(from, end) ==
    poll' = IF from >= end THEN Idle
            ELSE [at |-> "fetch", from |-> from, end |-> end,
                  to |-> Earlier(from + maxPollChunk, end)]

BeginPoll ==
    /\ poll = Idle
    /\ CoverFrom(CoverPoint)
    /\ IF source = "api" THEN Continue(StartOfPoll, EndOfPoll)
       ELSE poll' = [at |-> "objects", end |-> now]
    /\ since' = IF source = "api" /\ cursor = Unset THEN StartOfPoll ELSE since
    /\ UNCHANGED <<now, source, visible, cursor, stored, cached, reader, faults>>

\* pollRange: the API answers for [from, to).
Fetch ==
    /\ poll.at = "fetch"
    /\ poll' = [at |-> "commit", to |-> poll.to, end |-> poll.end,
                batch |-> {f \in visible : poll.from <= LoggedAt[f] /\ LoggedAt[f] < poll.to}]
    /\ UNCHANGED <<now, source, visible, tables, cache, reader, faults>>

\* Mutant: rows first, the cursor only once the poll is over.
CommittedCursor_LastChunk(to, end) == IF to = end THEN Later(cursor, to) ELSE cursor

\* The cursor CommitPollResults and UpdatePollState write for a range.
CommittedCursor(to, end) == Later(cursor, to)

Added(batch) == [f \in Flows |-> stored[f] + IF f \in batch THEN 1 ELSE 0]

\* CommitPollResults: the rows and the cursor; an empty range, only the cursor.
CommitRange ==
    /\ poll.at = "commit"
    /\ stored' = Added(poll.batch)
    /\ cursor' = CommittedCursor(poll.to, poll.end)
    /\ IF poll.batch = {} THEN Continue(poll.to, poll.end)
       ELSE poll' = [poll EXCEPT !.at = "cache"]
    /\ UNCHANGED <<now, source, visible, cache, reader, faults, since>>

UpdateCache ==
    /\ poll.at = "cache"
    /\ cached' = Updated(poll.batch)
    /\ Continue(poll.to, poll.end)
    /\ UNCHANGED <<now, source, visible, tables, completeFrom, reader, faults>>

\* CommitObjectIngest of one listed object that is not ingested yet.
Listed == {f \in visible : LoggedAt[f] < poll.end /\ stored[f] = 0}

CommitObject(f) ==
    /\ poll.at = "objects" /\ f \in Listed
    /\ stored' = Added({f})
    /\ poll' = [at |-> "object", batch |-> {f}, end |-> poll.end]
    /\ UNCHANGED <<now, source, visible, cursor, cache, reader, faults, since>>

UpdateCacheObject ==
    /\ poll.at = "object"
    /\ cached' = Updated(poll.batch)
    /\ poll' = [at |-> "objects", end |-> poll.end]
    /\ UNCHANGED <<now, source, visible, tables, completeFrom, reader, faults>>

EndObjects ==
    /\ poll.at = "objects" /\ Listed = {}
    /\ poll' = Idle
    /\ UNCHANGED <<now, source, visible, tables, cache, reader, faults>>

\* A fetch or a commit fails, or the context is cancelled between chunks:
\* what was committed stays, the rest is left to the next poll.
PollFails ==
    /\ poll.at \in {"fetch", "commit", "objects"} /\ Fault
    /\ poll' = Idle
    /\ UNCHANGED <<now, source, visible, tables, cache, reader>>

\* The process stops anywhere, also between a commit and its cache update.
Restart ==
    /\ Fault
    /\ poll' = Idle /\ reader' = Idle
    /\ cached' = Nothing /\ completeFrom' = Unset
    /\ UNCHANGED <<now, source, visible, tables>>

-----------------------------------------------------------------------------
(* A handler                                                                *)

\* The rows that have reached the cache as well as the store.
Settled == [f \in Flows |->
              stored[f] - IF poll.at \in {"cache", "object"} /\ f \in poll.batch THEN 1 ELSE 0]

InWindow(f, start, end) == start <= BucketOf(f) /\ BucketOf(f) < end

\* HasNodePairDataFor says yes; a no goes to the store and is not followed.
AskCache(start, end) ==
    /\ reader.at \in {"idle", "done"}
    /\ cacheWindowCovers(start, end)
    /\ reader' = [at |-> "covered", start |-> start, end |-> end, promised |-> Settled]
    /\ UNCHANGED <<now, source, visible, tables, cache, poll, faults>>

\* GetNodePairs, in a critical section of its own.
ReadCache ==
    /\ reader.at = "covered"
    /\ reader' = [at |-> "done", start |-> reader.start, end |-> reader.end,
                  promised |-> reader.promised, time |-> now,
                  rows |-> [f \in Flows |-> IF InWindow(f, reader.start, reader.end)
                                              THEN cached[f] ELSE 0]]
    /\ UNCHANGED <<now, source, visible, tables, cache, poll, faults>>

-----------------------------------------------------------------------------
PollStep ==
    \/ BeginPoll \/ Fetch \/ CommitRange \/ UpdateCache
    \/ UpdateCacheObject \/ EndObjects
    \/ \E f \in Flows : CommitObject(f)

Next ==
    \/ \E f \in Flows : Appear(f)
    \/ Tick
    \/ PollStep
    \/ PollFails
    \/ Restart
    \/ \E start \in 0 .. MaxTime, end \in 0 .. MaxTime + minute : AskCache(start, end)
    \/ ReadCache

\* The poll ticker keeps firing, a poll runs on, and the clock moves.
Spec == Init /\ [][Next]_vars /\ WF_vars(PollStep) /\ WF_vars(Tick)

-----------------------------------------------------------------------------
\* The variables keep their shape, a poll that commits works on flows the
\* source has shown, and the cache's floor is a minute it can compare to.
TypeOK ==
    /\ now \in 0 .. MaxTime /\ source \in {"api", "objects"} /\ visible \subseteq Flows
    /\ {cursor, since} \subseteq Nat \union {Unset}
    /\ completeFrom \in {Unset, 1} \union {m \in 0 .. MaxTime + minute : m % minute = 0}
    /\ faults \in 0 .. MaxFaults
    /\ stored \in [Flows -> Nat] /\ cached \in [Flows -> Nat]
    /\ poll.at \in {"idle", "fetch", "commit", "cache", "objects", "object"}
    /\ poll.at \in {"commit", "cache", "object"} => poll.batch \subseteq visible
    /\ reader.at \in {"idle", "covered", "done"}

\* From its floor on and within its age, the cache has the store's rows, but
\* for the batch that is on its way from one to the other.
CacheMatchesStore ==
    \A f \in Flows :
        /\ completeFrom # Unset /\ BucketOf(f) >= completeFrom
        /\ BucketOf(f) >= now - maxAge
        => cached[f] = Settled[f]

\* A handler that was told its window is covered gets every row the store
\* showed then, unless the row's minute left the window of the cache between
\* the two calls; and it gets no row the store does not have.
CoveredAnswerIsWhole ==
    reader.at = "done" =>
        \A f \in Flows : InWindow(f, reader.start, reader.end) =>
            /\ reader.rows[f] <= stored[f]
            /\ reader.rows[f] >= reader.promised[f] \/ BucketOf(f) < reader.time - maxAge

\* A flow that the initial backfill does not reach back to, or that retention
\* has passed before any poll reached it.
OutOfReach(f) == LoggedAt[f] < since \/ LoggedAt[f] < now - PollDelay - Retention

\* No flow is counted twice, and every flow behind the cursor was counted
\* unless no poll could reach it: over chunk boundaries, retries after a
\* partial failure, restarts between commit and cache, a cursor behind
\* retention, and however late the source shows the flow.
EachFlowOnce ==
    \A f \in Flows :
        /\ stored[f] <= 1
        /\ LoggedAt[f] < cursor => stored[f] > 0 \/ OutOfReach(f)

\* Every flow the source shows is counted in the end: chunks that failed are
\* taken up again, for as long as retention keeps the flow.
EveryFlowCounted ==
    \A f \in Flows : f \in visible ~> (stored[f] > 0 \/ OutOfReach(f))
=============================================================================

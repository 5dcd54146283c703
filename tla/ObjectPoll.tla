----------------------------- MODULE ObjectPoll -----------------------------
(***************************************************************************)
(* One tailnet's object-store poll: ObjectStoreSource.Poll under           *)
(* Poller.pollObjectStore.  A poll lists the objects whose log time lies   *)
(* in [cursor - Lookback, now), drops the ones already ingested, reads up  *)
(* to MaxObjects of the rest oldest first, commits each in a transaction   *)
(* of its own and moves the poll cursor.  Objects arrive late, reads and   *)
(* store calls fail, and the process can stop between any two steps; only  *)
(* the cursor and the ingested keys survive.                               *)
(*                                                                         *)
(* An object is a number: equal log times are ordered by key.  Aggregation *)
(* and metadata hydration do not touch the cursor and are left out.  One   *)
(* goroutine polls, so the ingestion checks of one poll are one step.      *)
(***************************************************************************)
EXTENDS Integers, FiniteSets

CONSTANTS
    Keys,             \* object keys, as numbers
    LogTime,          \* LogTime[k]: the time in the name of object k
    Malformed,        \* objects whose body can never be read
    Lookback, InitialBackfill, MaxObjects, maxObjectReadAttempts,
    MaxTime,          \* bound on the clock
    MaxFaults         \* bound on steps that fail, cancellations and crashes

ASSUME PollAssumption ==
    /\ Keys \subseteq Nat /\ IsFiniteSet(Keys)
    /\ LogTime \in [Keys -> Nat]
    /\ Malformed \subseteq Keys
    /\ {Lookback, InitialBackfill, MaxTime, MaxFaults} \subseteq Nat
    /\ {MaxObjects, maxObjectReadAttempts} \subseteq Nat \ {0}

VARIABLES
    now,        \* the clock
    arrived,    \* objects the bucket holds
    cursor,     \* poll_state.last_poll_end, None before the first poll
    ingested,   \* ingested_objects
    flows,      \* objects whose flows the tables hold
    attempts,   \* readFailures, in memory
    poll,       \* the poll in progress
    faults,     \* how much has gone wrong so far
    cutShort,   \* history: whether a store call has ever ended a poll early
    since,      \* history: how far back the first poll to move the cursor lists
    brokenOff,  \* history: how many reads of an object its stream cut off
    pageGivenUp \* history: whether a poll has ever given up a whole full page

vars == <<now, arrived, cursor, ingested, flows, attempts, poll, faults, cutShort, since,
          brokenOff, pageGivenUp>>
durable == <<cursor, ingested, flows, since>>
history == <<brokenOff, pageGivenUp>>

\* Go's zero time.
None == -1

Later(a, b) == IF a < b THEN b ELSE a
Earlier(a, b) == IF b < a THEN b ELSE a
\* Go's start.Add(-d), on a clock that starts at zero.
Back(t, d) == IF t < d THEN 0 ELSE t - d

Before(a, b) == LogTime[a] < LogTime[b] \/ (LogTime[a] = LogTime[b] /\ a < b)

Idle == [at |-> "idle"]

Init ==
    /\ now = 0 /\ arrived = {} /\ cursor = None
    /\ ingested = {} /\ flows = {} /\ attempts = [k \in Keys |-> 0]
    /\ poll = Idle /\ faults = 0 /\ cutShort = FALSE /\ since = None
    /\ brokenOff = [k \in Keys |-> 0] /\ pageGivenUp = FALSE

-----------------------------------------------------------------------------
Fault == faults < MaxFaults /\ faults' = faults + 1 /\ UNCHANGED cutShort

\* A store call fails where Poll returns without looking at blockedAt.
CutShort == faults < MaxFaults /\ faults' = faults + 1 /\ cutShort' = TRUE

NoFault == UNCHANGED <<faults, cutShort>>

\* The stream of object k's body ends in an error.
BreaksOff(k) ==
    brokenOff' = [brokenOff EXCEPT ![k] = @ + 1] /\ UNCHANGED pageGivenUp

(* The bucket and the clock.  A writer uploads an object within Lookback of *)
(* the time in its name.                                                    *)

Arrive(k) ==
    /\ k \notin arrived
    /\ LogTime[k] <= now /\ now <= LogTime[k] + Lookback
    /\ arrived' = arrived \union {k}
    /\ UNCHANGED <<now, durable, history, attempts, poll>> /\ NoFault

Tick ==
    /\ now < MaxTime
    /\ \A k \in Keys \ arrived : now < LogTime[k] + Lookback
    /\ now' = now + 1
    /\ UNCHANGED <<arrived, durable, history, attempts, poll>> /\ NoFault

-----------------------------------------------------------------------------
(* Poll                                                                     *)

\* poll: read the cursor and fix the range.
BeginPoll ==
    /\ poll = Idle
    /\ LET start == IF cursor = None THEN Back(now, InitialBackfill) ELSE cursor
       IN  /\ poll' = [at |-> "list", start |-> start, end |-> now]
           /\ since' = IF cursor = None THEN Back(start, Lookback) ELSE since
    /\ UNCHANGED <<now, arrived, cursor, ingested, flows, history, attempts>> /\ NoFault

\* listObjects: half open, by the time in the name.
listObjects(start, end) == {k \in arrived : start <= LogTime[k] /\ LogTime[k] < end}

\* How many objects of S sort before k.
Rank(S, k) == Cardinality({j \in S : Before(j, k)})

\* Mutant: cap the page first and drop the ingested objects from it after.
Selected_PageFirst(listed) == {k \in listed : Rank(listed, k) < MaxObjects} \ ingested

\* The page: the oldest objects not ingested yet.
Selected(listed) == {k \in listed \ ingested : Rank(listed \ ingested, k) < MaxObjects}

\* The objects the selection loop looks at: up to and with the first one that
\* no longer fits the page, where it breaks.
Examined(listed) == {k \in listed : Rank(listed \ ingested, k) <= MaxObjects}

\* The newest ingested object among those looked at moves lastProcessed.
SeenUpTo(start, looked) ==
    LET seen == {start} \union {LogTime[k] : k \in looked \cap ingested}
    IN  CHOOSE t \in seen : \A u \in seen : u <= t

\* pollObjectStore after Poll returned: the cursor to store.
CursorAfter(p) == IF p.count = 0 /\ p.err = FALSE THEN p.end ELSE p.last

Return(last, count, err) ==
    poll' = [at |-> "save", last |-> CursorAfter([last |-> last, count |-> count,
                                                 err |-> err, end |-> poll.end])]

ListObjects ==
    /\ poll.at = "list"
    /\ LET listed == listObjects(Back(poll.start, Lookback), poll.end)
       IN  IF listed = {} THEN Return(poll.end, 0, FALSE)
           ELSE poll' = [at |-> "select", listed |-> listed,
                         start |-> poll.start, end |-> poll.end]
    /\ UNCHANGED <<now, arrived, durable, history, attempts>> /\ NoFault

\* A listing error returns the zero time: no cursor is stored.
ListFails ==
    /\ poll.at = "list" /\ Fault
    /\ poll' = Idle
    /\ UNCHANGED <<now, arrived, durable, history, attempts>>

Select ==
    /\ poll.at = "select"
    /\ poll' = [at |-> "read", todo |-> Selected(poll.listed),
                last |-> SeenUpTo(poll.start, Examined(poll.listed)),
                blocked |-> None, count |-> 0, end |-> poll.end,
                full |-> Cardinality(Selected(poll.listed)) >= MaxObjects]
    /\ UNCHANGED <<now, arrived, durable, history, attempts>> /\ NoFault

\* IsObjectIngested fails at object k: return what has been seen before it.
SelectFails(k) ==
    /\ poll.at = "select" /\ CutShort
    /\ k \in Examined(poll.listed)
    /\ Return(SeenUpTo(poll.start, {j \in Examined(poll.listed) : Before(j, k)}), 0, TRUE)
    /\ UNCHANGED <<now, arrived, durable, history, attempts>>

\* The next object of the page.
Current(k) == poll.at = "read" /\ k \in poll.todo /\ \A j \in poll.todo \ {k} : Before(k, j)

\* CommitObjectIngest for object k, and the rest of the iteration.
ReadAndCommit(k) ==
    /\ Current(k) /\ k \notin Malformed
    /\ ingested' = ingested \union {k}
    /\ flows' = flows \union {k}
    /\ attempts' = [attempts EXCEPT ![k] = 0]
    /\ poll' = [poll EXCEPT !.todo = @ \ {k}, !.last = Later(@, LogTime[k]),
                            !.count = @ + 1]
    /\ UNCHANGED <<now, arrived, cursor, since, history>> /\ NoFault

\* The transaction fails after a good read: the poll returns at once.
CommitFails(k) ==
    /\ Current(k) /\ k \notin Malformed
    /\ CutShort
    /\ attempts' = [attempts EXCEPT ![k] = 0]
    /\ Return(poll.last, poll.count, TRUE)
    /\ UNCHANGED <<now, arrived, durable, history>>

\* Skip object k for now: remember the earliest one skipped.
Skip(k) ==
    poll' = [poll EXCEPT !.todo = @ \ {k},
                         !.blocked = IF @ = None THEN LogTime[k]
                                     ELSE Earlier(@, LogTime[k])]

\* Mutant: a refused read uses up the read budget too.
permanentReadError_Any(err) == TRUE

\* What counts as failing again on every retry: a missing object, and any
\* error on the way through the body, the network's as well as the content's.
permanentReadError(err) == err = "content"

\* Record an object that used up its budget with no flows.
GiveUp(k) ==
    /\ ingested' = ingested \union {k}
    /\ attempts' = [attempts EXCEPT ![k] = 0]
    /\ poll' = [poll EXCEPT !.todo = @ \ {k}, !.last = Later(@, LogTime[k])]
    /\ UNCHANGED <<cursor, flows, since>>

\* What a failed read of object k does.
ReadFailed(k, err) ==
    IF ~permanentReadError(err)
      THEN Skip(k) /\ UNCHANGED <<durable, attempts>>
    ELSE IF attempts[k] + 1 < maxObjectReadAttempts
      THEN /\ attempts' = [attempts EXCEPT ![k] = @ + 1]
           /\ Skip(k) /\ UNCHANGED durable
    ELSE GiveUp(k)

\* The body is malformed, or the object is gone.
ReadMalformed(k) ==
    /\ Current(k) /\ k \in Malformed
    /\ ReadFailed(k, "content")
    /\ UNCHANGED <<now, arrived, history>> /\ NoFault

\* The connection or the server gives out while a good body streams: scanner
\* and decompressor report it like a malformed body.
BodyBreaksOff(k) ==
    /\ Current(k) /\ k \notin Malformed /\ Fault
    /\ ReadFailed(k, "content")
    /\ BreaksOff(k)
    /\ UNCHANGED <<now, arrived>>

\* The read is refused before there is a body: authorization, throttling,
\* server and network errors of the request.
OpenFails(k) ==
    /\ Current(k) /\ Fault
    /\ ReadFailed(k, "refused")
    /\ UNCHANGED <<now, arrived, history>>

\* Giving up fails to commit.
GiveUpFails(k) ==
    /\ Current(k) /\ attempts[k] + 1 >= maxObjectReadAttempts
    /\ CutShort
    /\ IF k \in Malformed THEN UNCHANGED history ELSE BreaksOff(k)
    /\ attempts' = [attempts EXCEPT ![k] = @ + 1]
    /\ Return(poll.last, poll.count, TRUE)
    /\ UNCHANGED <<now, arrived, durable>>

\* Mutant: the cursor passes the object that could not be read.
Clamped_Never(p) == p.last

\* Keep the cursor at the earliest unreadable object.
Clamped(p) == IF p.blocked = None THEN p.last ELSE Earlier(p.last, p.blocked)

EndOfPage ==
    /\ poll.at = "read" /\ poll.todo = {}
    /\ Return(Clamped(poll), poll.count, poll.blocked # None)
    /\ pageGivenUp' = (pageGivenUp \/ (poll.full /\ poll.count = 0 /\ poll.blocked = None))
    /\ UNCHANGED <<now, arrived, durable, brokenOff, attempts>> /\ NoFault

\* UpdatePollState moves the cursor forward only.
SaveCursor ==
    /\ poll.at = "save"
    /\ cursor' = Later(cursor, poll.last)
    /\ poll' = Idle
    /\ UNCHANGED <<now, arrived, ingested, flows, since, history, attempts>> /\ NoFault

SaveFails ==
    /\ poll.at = "save" /\ Fault
    /\ poll' = Idle
    /\ UNCHANGED <<now, arrived, durable, history, attempts>>

\* The context is cancelled: the poll returns and no later store call works.
Cancelled ==
    /\ poll # Idle /\ Fault
    /\ poll' = Idle
    /\ UNCHANGED <<now, arrived, durable, history, attempts>>

Restart ==
    /\ Fault
    /\ poll' = Idle
    /\ attempts' = [k \in Keys |-> 0]
    /\ UNCHANGED <<now, arrived, durable, history>>

-----------------------------------------------------------------------------
PollStep ==
    \/ BeginPoll \/ ListObjects \/ Select \/ EndOfPage \/ SaveCursor
    \/ \E k \in Keys : ReadAndCommit(k) \/ ReadMalformed(k)

PollFails ==
    \/ ListFails \/ SaveFails \/ Cancelled
    \/ \E k \in Keys : SelectFails(k) \/ CommitFails(k) \/ GiveUpFails(k)
    \/ \E k \in Keys : OpenFails(k) \/ BodyBreaksOff(k)

Next ==
    \/ \E k \in Keys : Arrive(k)
    \/ Tick
    \/ PollStep
    \/ PollFails
    \/ Restart

\* The poll ticker fires for ever, a poll runs to its end, and the clock moves.
Spec == Init /\ [][Next]_vars /\ WF_vars(PollStep) /\ WF_vars(Tick)

-----------------------------------------------------------------------------
Times == 0 .. MaxTime

Idling == {Idle}
Listing == [at : {"list"}, start : Times, end : Times]
Selecting == [at : {"select"}, start : Times, end : Times, listed : SUBSET Keys]
Reading == [at : {"read"}, todo : SUBSET Keys, last : Times, blocked : Times \union {None},
            count : 0 .. MaxObjects, end : Times, full : BOOLEAN]
Saving == [at : {"save"}, last : Times]

\* A poll is always in one of the forms its steps expect, never counts more
\* objects than a page holds, and flows come from ingested objects only.
TypeOK ==
    /\ now \in Times /\ arrived \subseteq Keys /\ cursor \in Times \union {None}
    /\ ingested \subseteq arrived /\ flows \subseteq ingested
    /\ attempts \in [Keys -> 0 .. maxObjectReadAttempts + MaxFaults]
    /\ poll \in Idling \union Listing \union Selecting \union Reading \union Saving
    /\ faults \in 0 .. MaxFaults /\ cutShort \in BOOLEAN /\ since \in Times \union {None}
    /\ brokenOff \in [Keys -> 0 .. MaxFaults] /\ pageGivenUp \in BOOLEAN

\* Object k is inside the range the next poll lists, or older than the initial
\* backfill reached.
StillListed(k) == cursor # None => LogTime[k] >= Back(cursor, Lookback) \/ LogTime[k] < since

\* A failure must not advance the cursor past the gap it leaves: an object
\* that is not ingested stays inside the range the next poll lists.
NoObjectLost == \A k \in arrived \ ingested : StillListed(k)

\* The same for read failures, listing failures, failed cursor writes,
\* cancellations and restarts, with two exceptions that lose the gap: a store
\* call that fails inside Poll, which returns a cursor the unread objects have
\* not held back; and a poll that gives up a whole full page, which counts
\* nothing, so that its cursor goes to the end past what is behind the page.
\* The second takes as many objects without their flows as a page holds.
GapIsKept ==
    ~cutShort =>
        \/ NoObjectLost
        \/ pageGivenUp /\ Cardinality(ingested \ flows) >= MaxObjects

\* A refused read never drops data, however often it is tried: an object is
\* recorded without its flows only when its body is malformed, or its stream
\* has broken off as often as the budget allows, whatever restarts, refusals
\* and failed attempts to record it came between.
RefusalsDropNothing ==
    \A k \in ingested \ flows : k \in Malformed \/ brokenOff[k] >= maxObjectReadAttempts

\* An outage never drops data: with only objects that can be read, and store
\* calls that work, what is not ingested is still listed by the next poll.
OutageDropsNothing == Malformed = {} /\ ~cutShort => NoObjectLost

\* Every object is ingested in the end, or given up if its budget is used up:
\* the ones behind a full page, a run of equal times or an unreadable object
\* too, unless the initial backfill did not reach it, a store call cut a poll
\* short or a whole full page was given up.
EveryObjectSettles ==
    \A k \in Keys :
        k \in arrived ~> (k \in ingested \/ LogTime[k] < since \/ cutShort \/ pageGivenUp)
=============================================================================

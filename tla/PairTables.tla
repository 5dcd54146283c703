----------------------------- MODULE PairTables -----------------------------
(***************************************************************************)
(* The rows one tailnet keeps in node_pairs, node_pair_hours, poll_state,  *)
(* backfill_state and ingested_objects, and what each statement of a write *)
(* transaction does to them.  Pure operators on a record "d", so that the  *)
(* store (PairStore) and its concurrent readers (GraphRead) share them.    *)
(*                                                                         *)
(* A node pair row is abstracted to one number per minute bucket (0: no    *)
(* row).  An hourly row is kept with its provenance: hours[h][m] is what   *)
(* minute m has contributed to the row of hour h, so a minute merged twice *)
(* or merged into another hour is visible, which a plain sum would hide.   *)
(***************************************************************************)
EXTENDS HourPlan, FiniteSets

CONSTANTS
    Buckets,    \* the minute buckets traffic may fall in
    Keys        \* names of log objects

ASSUME BucketsAssumption ==
    /\ Buckets \subseteq Nat
    /\ \A m \in Buckets : m % minuteSeconds = 0

HourStarts == {HourOf(m) : m \in Buckets}

Never == -1

NoBytes == [m \in Buckets |-> 0]
NoHours == [h \in HourStarts |-> NoBytes]

Tables == [pair     : [Buckets -> Nat],
           hours    : [HourStarts -> [Buckets -> Nat]],
           mark     : Int,
           cursor   : Int,
           ingested : [Keys -> Int]]

Later(a, b) == IF a < b THEN b ELSE a

\* What the hour row of minute m must hold for it.
Rolled(d, h, m) == IF HourOf(m) = h /\ m <= d.mark THEN d.pair[m] ELSE 0

\* Every hourly row holds that.
HoursMatch(d) == \A h \in HourStarts, m \in Buckets :
    d.hours[h][m] = Rolled(d, h, m)

\* Mutant: the cursor takes whatever end is written.
upsertPollCursor_Overwrite(d, end) == [d EXCEPT !.cursor = end]

\* upsertPollCursor: forward only.
upsertPollCursor(d, end) == [d EXCEPT !.cursor = Later(@, end)]

\* Mutant: a late write to the newest rolled minute misses the hour row.
upsertNodePairs_StrictMark(d, delta) ==
    [d EXCEPT
       !.pair  = [m \in Buckets |-> @[m] + delta[m]],
       !.hours = [h \in HourStarts |-> [m \in Buckets |->
                    @[h][m] + IF HourOf(m) = h /\ m < d.mark THEN delta[m] ELSE 0]]]

\* upsertNodePairsTx: add each minute's delta, and add it to the hour row
\* too when the minute is already rolled up (mergeHourDelta).
upsertNodePairs(d, delta) ==
    [d EXCEPT
       !.pair  = [m \in Buckets |-> @[m] + delta[m]],
       !.hours = [h \in HourStarts |-> [m \in Buckets |->
                    @[h][m] + IF HourOf(m) = h /\ m <= d.mark THEN delta[m] ELSE 0]]]

\* Mutant: the touched minutes instead of their hours.
Touches_Minutes(d, delta) == {b \in Buckets : delta[b] > 0 /\ b <= d.mark}

\* The hours such an upsert changes (hourTouches).
Touches(d, delta) == {HourOf(m) : m \in {b \in Buckets : delta[b] > 0 /\ b <= d.mark}}

\* mergeMinutesIntoHour: seed with the row that is there, add every minute
\* strictly between the two bounds.
mergeMinutesIntoHour(d, hour, fromExclusive, toExclusive) ==
    [d EXCEPT !.hours = [h \in HourStarts |-> [m \in Buckets |->
        @[h][m] + IF h = hour /\ fromExclusive < m /\ m < toExclusive
                    THEN d.pair[m] ELSE 0]]]

\* Mutant: the newest rolled minute is picked again.
Pending_FromMark(d, closedThrough) ==
    {m \in Buckets : d.pair[m] > 0 /\ d.mark <= m /\ m < closedThrough}

\* The minutes with rows that a pass through closedThrough has still to roll.
Pending(d, closedThrough) ==
    {m \in Buckets : d.pair[m] > 0 /\ d.mark < m /\ m < closedThrough}

\* setHourMark: forward only.
setHourMark(d, bucket) == [d EXCEPT !.mark = Later(@, bucket)]

\* Nothing is left to close: the early returns of rollNextHourChunk.
NothingToClose(d, closedThrough) ==
    \/ floorMinute(closedThrough) <= 0
    \/ floorMinute(closedThrough) <= d.mark + minuteSeconds

\* The chunk rollNextHourChunk picks: the hour of the oldest pending minute,
\* up to the end of that hour or of what is closed.
NextMinute(d, closedThrough) ==
    CHOOSE m \in Pending(d, floorMinute(closedThrough)) :
        \A n \in Pending(d, floorMinute(closedThrough)) : m <= n

ChunkEnd(d, closedThrough) ==
    Smaller(HourOf(NextMinute(d, closedThrough)) + hourSeconds,
            floorMinute(closedThrough))

NewMark(d, closedThrough) ==
    Later(ChunkEnd(d, closedThrough) - minuteSeconds, NextMinute(d, closedThrough))

\* Mutant: an empty tail is left alone but not reported as done.
rollNextHourChunk_NeverDone(d, closedThrough) ==
    LET ct == floorMinute(closedThrough)
    IN  IF NothingToClose(d, closedThrough) \/ Pending(d, ct) = {}
          THEN [d |-> d, done |-> NothingToClose(d, closedThrough)]
        ELSE [d |-> setHourMark(
                      mergeMinutesIntoHour(d, HourOf(NextMinute(d, closedThrough)),
                                           d.mark, ChunkEnd(d, closedThrough)),
                      NewMark(d, closedThrough)),
              done |-> FALSE]

\* One call of rollNextHourChunk that does not fail.
rollNextHourChunk(d, closedThrough) ==
    LET ct == floorMinute(closedThrough)
    IN  IF NothingToClose(d, closedThrough)
          THEN [d |-> d, done |-> TRUE]
        ELSE IF Pending(d, ct) = {}
          THEN [d |-> IF d.mark < 0 THEN d ELSE setHourMark(d, ct - minuteSeconds),
                done |-> TRUE]
        ELSE [d |-> setHourMark(
                      mergeMinutesIntoHour(d, HourOf(NextMinute(d, closedThrough)),
                                           d.mark, ChunkEnd(d, closedThrough)),
                      NewMark(d, closedThrough)),
              done |-> NewMark(d, closedThrough) + minuteSeconds >= ct]

\* The two errors rollNextHourChunk can return by itself.
rollFails(d, closedThrough) ==
    /\ ~NothingToClose(d, closedThrough)
    /\ Pending(d, floorMinute(closedThrough)) # {}
    /\ \/ ChunkEnd(d, closedThrough) <= NextMinute(d, closedThrough)
       \/ NewMark(d, closedThrough) <= d.mark

DropHours(d, gone) ==
    [d EXCEPT !.hours = [h \in HourStarts |-> IF h \in gone THEN NoBytes ELSE @[h]]]

\* Mutant: the hour the cutoff splits keeps its old row.
pruneHourRollups_KeepSplit(d, cutoff) ==
    DropHours(d, {h \in HourStarts : h + hourSeconds <= cutoff})

\* pruneHourRollups: drop the hours retention has passed, and rebuild the
\* hour the cutoff splits from the minutes that survive in it.
pruneHourRollups(d, cutoff) ==
    LET boundary == HourOf(cutoff)
        passed == {h \in HourStarts : h + hourSeconds <= cutoff}
    IN  IF cutoff <= boundary THEN DropHours(d, passed)
        ELSE IF d.mark < cutoff THEN DropHours(d, passed \union {boundary})
        ELSE mergeMinutesIntoHour(
               DropHours(d, passed \union {boundary}), boundary, cutoff - 1,
               Smaller(boundary + hourSeconds, d.mark + minuteSeconds))

DropMinutes(d, cutoff) ==
    [d EXCEPT !.pair     = [m \in Buckets |-> IF m < cutoff THEN 0 ELSE @[m]],
              !.ingested = [k \in Keys |-> IF @[k] < cutoff THEN Never ELSE @[k]]]

\* Cleanup: everything older than the cutoff goes, in one transaction.
Expire(d, cutoff) == pruneHourRollups(DropMinutes(d, cutoff), cutoff)

\* The rows a plan selects, per minute: the minute row and the share of
\* every selected hour row.
RowsOf(plan, d) ==
    LET minutes == {m \in Buckets : Holds(plan.minutes, m)}
        hours   == {h \in HourStarts : Holds(plan.hours, h)}
    IN  [m \in Buckets |->
           (IF m \in minutes THEN d.pair[m] ELSE 0)
           + Cardinality(UNION {{h} \X (1 .. d.hours[h][m]) : h \in hours})]

\* A plain scan of node_pairs over the same window.
MinuteScan(start, end, d) ==
    [m \in Buckets |-> IF start <= m /\ m < end THEN d.pair[m] ELSE 0]
=============================================================================

------------------------------ MODULE PairStore ------------------------------
(***************************************************************************)
(* The write side of the SQLite store for one tailnet: the startup pass    *)
(* that rolls up old minutes, the poll commits, the object commits, the    *)
(* cursor updates and the retention pass.                                  *)
(*                                                                         *)
(* lockTailnet admits one write transaction at a time.  "work" is the copy *)
(* of the tables the open transaction is changing and "db" is what is      *)
(* committed, so a failed commit, a cancelled context or a crash simply    *)
(* drops "work".  A transaction that closes minutes does so one chunk at a *)
(* time (rollClosedMinutes), which is why it is several steps here.        *)
(***************************************************************************)
EXTENDS PairTables

CONSTANTS
    Times,          \* Unix seconds the wall clock may show
    Deltas,         \* what one fetched window may add, per minute
    ObjectDelta,    \* what each (immutable) log object holds, per minute
    Legacy,         \* rows an older build may have left, with no rollup
    Edges,          \* where the windows readers ask for may start and end
    Retention,      \* retention in seconds
    MaxBytes,       \* bound on the bytes of one minute
    MaxCrashes      \* bound on the number of crashes

ASSUME RetentionAssumption == Retention \in Nat \ {0}
ASSUME TimesAssumption ==
    /\ Times \subseteq Nat
    /\ Edges \subseteq Nat
    /\ \A t \in Times : t >= Retention
ASSUME DeltasAssumption ==
    /\ Deltas \subseteq [Buckets -> Nat]
    /\ ObjectDelta \in [Keys -> [Buckets -> Nat]]
    /\ Legacy \subseteq [Buckets -> Nat]

VARIABLES
    phase,    \* "down", "backfill" (Store.Init) or "serving"
    now,      \* the wall clock
    db,       \* committed tables
    lock,     \* "free", "rolling" or "ready": the open write transaction
    work,     \* the tables as that transaction sees them; db when free
    through,  \* exclusive end of the minutes being closed
    touches,  \* hours the transaction changes behind the mark
    crashes

vars == <<phase, now, db, lock, work, through, touches, crashes>>
txVars == <<db, lock, work, through, touches>>

Init ==
    /\ phase = "down"
    /\ now \in Times
    /\ \E rows \in Legacy :
         /\ \A m \in Buckets : m > now => rows[m] = 0
         /\ db = [pair |-> rows, hours |-> NoHours, mark |-> NoMark,
                  cursor |-> Never, ingested |-> [k \in Keys |-> Never]]
    /\ lock = "free"
    /\ work = db
    /\ through = 0
    /\ touches = {}
    /\ crashes = 0

Tick == \E t \in Times :
    /\ t > now
    /\ now' = t
    /\ UNCHANGED <<phase, db, lock, work, through, touches, crashes>>

------------------------------------------------------------------------------
(* Store.Init: backfillHourRollups                                          *)

OpenStore ==
    /\ phase = "down"
    /\ phase' = "backfill"
    /\ through' = floorMinute(now)
    /\ UNCHANGED <<now, db, lock, work, touches, crashes>>

\* One iteration of backfillHourRollupTailnet: a chunk and its commit.
BackfillChunk ==
    LET r == rollNextHourChunk(db, through) IN
    /\ phase = "backfill"
    /\ ~rollFails(db, through)
    /\ db' = r.d
    /\ work' = r.d
    /\ phase' = IF r.done THEN "serving" ELSE "backfill"
    /\ UNCHANGED <<now, lock, through, touches, crashes>>

------------------------------------------------------------------------------
(* Write transactions                                                       *)

\* Take the tailnet lock, run the statements up to the closing of minutes.
Begin(d, closedThrough, hours) ==
    /\ phase = "serving"
    /\ lock = "free"
    /\ lock' = IF closedThrough = 0 THEN "ready" ELSE "rolling"
    /\ work' = d
    /\ through' = closedThrough
    /\ touches' = hours
    /\ UNCHANGED <<phase, now, db, crashes>>

Fits(d, delta) == \A m \in Buckets : d.pair[m] + delta[m] <= MaxBytes
UpToNow(delta) == \A m \in Buckets : delta[m] > 0 => m <= now

CommitPollResults == \E delta \in Deltas, end \in {t \in Times : t <= now} :
    /\ Fits(db, delta) /\ UpToNow(delta)
    /\ Begin(upsertPollCursor(upsertNodePairs(db, delta), end),
             end, Touches(db, delta))

UpdatePollState == \E end \in {t \in Times : t <= now} :
    Begin(upsertPollCursor(db, end), end, {})

\* The poller leaves PollEnd zero: no cursor, nothing closed.
CommitObjectIngest == \E k \in Keys :
    /\ UpToNow(ObjectDelta[k])
    /\ db.ingested[k] = Never
    /\ Fits(db, ObjectDelta[k])
    /\ Begin([upsertNodePairs(db, ObjectDelta[k]) EXCEPT !.ingested[k] = now],
             0, Touches(db, ObjectDelta[k]))

\* The key is already there (a retry, or two polls): INSERT OR IGNORE adds
\* no row and the traffic is not applied again.
CommitObjectIngestAgain == \E k \in Keys :
    /\ db.ingested[k] # Never
    /\ Begin(db, 0, {})

Cleanup == Begin(Expire(db, now - Retention), 0, {})

RollChunk ==
    LET r == rollNextHourChunk(work, through) IN
    /\ lock = "rolling"
    /\ ~rollFails(work, through)
    /\ work' = r.d
    /\ lock' = IF r.done THEN "ready" ELSE "rolling"
    /\ UNCHANGED <<phase, now, db, through, touches, crashes>>

Release ==
    /\ lock' = "free"
    /\ through' = 0
    /\ touches' = {}

commitWrite ==
    /\ lock = "ready"
    /\ db' = work
    /\ work' = work
    /\ Release
    /\ UNCHANGED <<phase, now, crashes>>

\* Any statement, or the commit, may fail; the deferred Rollback runs.
Rollback ==
    /\ lock # "free"
    /\ work' = db
    /\ Release
    /\ UNCHANGED <<phase, now, db, crashes>>

Crash ==
    /\ phase # "down"
    /\ crashes < MaxCrashes
    /\ crashes' = crashes + 1
    /\ phase' = "down"
    /\ work' = db
    /\ Release
    /\ UNCHANGED <<now, db>>

Next ==
    \/ Tick \/ OpenStore \/ BackfillChunk
    \/ CommitPollResults \/ UpdatePollState
    \/ CommitObjectIngest \/ CommitObjectIngestAgain \/ Cleanup
    \/ RollChunk \/ commitWrite \/ Rollback \/ Crash

\* A goroutine that holds the lock keeps running, and so does the startup
\* pass; nothing is assumed about when a poll, a cleanup or the clock moves.
Fairness ==
    /\ WF_vars(OpenStore) /\ WF_vars(BackfillChunk)
    /\ WF_vars(RollChunk) /\ WF_vars(commitWrite)

Spec == Init /\ [][Next]_vars /\ Fairness

------------------------------------------------------------------------------
(* Properties                                                               *)

TypeOK ==
    /\ phase \in {"down", "backfill", "serving"}
    /\ now \in Times
    /\ db \in Tables
    /\ lock \in {"free", "rolling", "ready"}
    /\ work \in Tables
    /\ through \in Nat
    /\ touches \subseteq HourStarts
    /\ crashes \in Nat

\* An hourly row holds each minute of its hour up to the mark exactly once,
\* no minute after the mark and no minute of another hour: in the committed
\* tables and at every step of a transaction, across late writes behind the
\* mark, chunked rollups, retention that splits an hour, crashes and
\* upgrades from a database that has no rollup.
HourRowsMatchMinutes == HoursMatch(db) /\ HoursMatch(work)

\* A window answered from hourly rows holds, minute by minute, what a scan
\* of node_pairs holds: for both planners and for windows that are not
\* aligned to minutes or hours.
PlannedReadMatchesScan == \A start, end \in Edges :
    /\ RowsOf(planHours(start, end, db.mark), db) = MinuteScan(start, end, db)
    /\ RowsOf(planHoursThroughMark(start, end, db.mark), db)
         = MinuteScan(start, end, db)

\* The two internal errors of the rollup ("chunk did not advance", "mark did
\* not advance") can never be returned, so a poll commit cannot be refused
\* for ever by them.
RollupAlwaysAdvances ==
    /\ lock = "rolling" => ~rollFails(work, through)
    /\ phase = "backfill" => ~rollFails(db, through)

\* A minute the clock has not closed yet is never inside the rollup: the
\* minutes that polls are still filling stay on minute rows.
OpenMinuteNotRolled ==
    /\ db.mark + minuteSeconds <= now \/ db.mark = NoMark
    /\ work.mark + minuteSeconds <= now \/ work.mark = NoMark

\* Neither the poll cursor nor the mark ever moves backward, not even when
\* polls commit an older window end, and not across a crash.
CursorAndMarkForward ==
    [][db'.cursor >= db.cursor /\ db'.mark >= db.mark]_vars

\* Startup ends: the backfill reaches a serving store unless the process
\* dies first.
BackfillEnds == phase = "backfill" ~> phase \in {"serving", "down"}
=============================================================================

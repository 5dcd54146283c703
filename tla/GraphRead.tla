------------------------------ MODULE GraphRead ------------------------------
(***************************************************************************)
(* Graph reads (GetNodePairAggregates) against one tailnet's writers, with *)
(* the closed-hour cache between them.                                     *)
(*                                                                         *)
(* Readers take no lock.  A read plans its window on one snapshot; what    *)
(* lies at or behind the mark is then read on later snapshots, whole hours *)
(* through the cache; the filling hour and the minutes after the mark come *)
(* either from the planning snapshot or, when no commit is in flight, from *)
(* separate snapshots that are thrown away if a commit started meanwhile.  *)
(* A write is split where readers can tell: its commit is announced        *)
(* (seq.started), becomes visible, is over (seq.finished), and only then   *)
(* are the hours it touched dropped from the cache and the lock released.  *)
(* What the write's statements do is PairTables' business; the chunks they *)
(* are made of are invisible before the commit (see PairStore).            *)
(***************************************************************************)
EXTENDS PairTables

CONSTANTS
    Readers,
    Windows,        \* the windows <<start, end>> readers ask for
    InitialMarks,   \* marks the store may have when the readers come
    InitialRows,    \* minute rows it may have then
    Deltas,         \* what a poll or an object may add
    Ends,           \* poll ends
    Cutoffs,        \* retention cutoffs
    Budget,         \* cached hours that fit (sizes are taken as equal)
    MaxBytes,       \* bound on the bytes of one minute
    MaxWrites       \* bound on the number of commits

ASSUME GraphReadAssumption ==
    /\ Budget \in Nat \ {0}
    /\ Ends \subseteq Nat /\ Cutoffs \subseteq Nat
    /\ IsFiniteSet(Buckets) /\ Windows \subseteq Nat \X Nat
    /\ \A mark \in InitialMarks : MarkOK(mark)
    /\ InitialRows \subseteq [Buckets -> Nat]
    /\ Deltas \subseteq [Buckets -> Nat]

VARIABLES
    db,         \* committed tables
    prev,       \* what was committed before a commit still being acknowledged
    work,       \* the tables of the commit in progress
    commit,     \* "idle", "started", "landed" or "finished"
    started,    \* commitSeq.started
    finished,   \* commitSeq.finished
    drop,       \* hours that commit has to drop from the cache
    below,      \* or, for retention, the hour below which it drops them
    epoch, entries, touched, floor,    \* the closed-hour cache
    rd          \* one record per reader

tableVars == <<db, prev, work>>
commitVars == <<commit, started, finished, drop, below>>
cacheVars == <<epoch, entries, touched, floor>>
vars == <<tableVars, commitVars, cacheVars, rd>>

NoEntry == <<>>
NoFill == [at |-> "none", epoch |-> 0, rows |-> NoBytes]

IdleReader ==
    [at |-> "idle", win |-> <<0, 0>>, fin |-> 0, since |-> 0,
     par |-> FALSE, again |-> FALSE, mark |-> NoMark, plan |-> [minutes |-> {}, hours |-> {}],
     gets |-> {}, todo |-> {}, fill |-> [h \in HourStarts |-> NoFill],
     sum |-> NoBytes, seen |-> {}]

\* Tables with the given minute rows, rolled up to the mark.
RolledUp(rows, mark) ==
    LET d == [pair |-> rows, hours |-> NoHours, mark |-> mark, cursor |-> Never,
              ingested |-> [k \in Keys |-> Never]]
    IN  [d EXCEPT !.hours = [h \in HourStarts |-> [m \in Buckets |-> Rolled(d, h, m)]]]

Init ==
    /\ \E rows \in InitialRows, mark \in InitialMarks : db = RolledUp(rows, mark)
    /\ prev = db /\ work = db
    /\ commit = "idle" /\ started = 0 /\ finished = 0
    /\ drop = {} /\ below = 0
    /\ epoch = 0
    /\ entries = [h \in HourStarts |-> NoEntry]
    /\ touched = [h \in HourStarts |-> 0]
    /\ floor = [below |-> 0, epoch |-> 0]
    /\ rd = [r \in Readers |-> IdleReader]

------------------------------------------------------------------------------
(* Writers                                                                  *)

\* rollClosedMinutes: rollNextHourChunk until it reports that it is done.
rollClosedMinutes(d, closedThrough) ==
    LET rolled[n \in 0 .. Cardinality(HourStarts) + 1] ==
          IF n = 0 THEN d ELSE rollNextHourChunk(rolled[n - 1], closedThrough).d
    IN  rolled[Cardinality(HourStarts) + 1]

Write(d, hours, floorHour) ==
    /\ commit = "idle"
    /\ started < MaxWrites
    /\ work' = d
    /\ drop' = hours
    /\ below' = floorHour
    /\ commit' = "started"
    /\ started' = started + 1
    /\ UNCHANGED <<db, prev, finished, cacheVars, rd>>

Fits(delta) == \A m \in Buckets : db.pair[m] + delta[m] <= MaxBytes

CommitPollResults == \E delta \in Deltas, end \in Ends :
    /\ Fits(delta)
    /\ Write(rollClosedMinutes(upsertNodePairs(db, delta), end), Touches(db, delta), 0)

CommitObjectIngest == \E delta \in Deltas :
    /\ Fits(delta)
    /\ Write(upsertNodePairs(db, delta), Touches(db, delta), 0)

UpdatePollState == \E end \in Ends : Write(rollClosedMinutes(db, end), {}, 0)

Cleanup == \E cutoff \in Cutoffs :
    Write(Expire(db, cutoff), {}, HourOf(cutoff) + hourSeconds)

\* The commit becomes visible; a reader that is under way may now see it.
CommitLands ==
    /\ commit = "started"
    /\ commit' = "landed"
    /\ prev' = db
    /\ db' = work
    /\ rd' = [r \in Readers |->
                IF rd[r].at = "idle" THEN rd[r] ELSE [rd[r] EXCEPT !.seen = @ \union {work}]]
    /\ UNCHANGED <<work, started, finished, drop, below, cacheVars>>

\* The commit fails: finished still moves, nothing is dropped.
CommitFails ==
    /\ commit = "started"
    /\ commit' = "idle"
    /\ work' = db
    /\ finished' = finished + 1
    /\ drop' = {} /\ below' = 0
    /\ UNCHANGED <<db, prev, started, cacheVars, rd>>

CommitFinishes ==
    /\ commit = "landed"
    /\ commit' = "finished"
    /\ finished' = finished + 1
    /\ UNCHANGED <<tableVars, started, drop, below, cacheVars, rd>>

------------------------------------------------------------------------------
(* The closed-hour cache                                                    *)

\* Mutant: retention's floor is forgotten.
touchedAt_NoFloor(h) == touched[h]

touchedAt(h) ==
    IF h < floor.below /\ floor.epoch > touched[h] THEN floor.epoch ELSE touched[h]

\* Mutant: the rows are stored whatever was touched since they were read.
put_Unchecked(h, rows, readEpoch) ==
    entries' = [entries EXCEPT ![h] = rows]

\* put: refused when the hour was touched after the rows began to be read;
\* otherwise stored, and others are evicted until the rest fits.
put(h, rows, readEpoch) ==
    IF touchedAt(h) > readEpoch THEN UNCHANGED entries
    ELSE \E others \in SUBSET {x \in HourStarts \ {h} : entries[x] # NoEntry} :
           /\ Cardinality(others) < Budget
           /\ Cardinality(others) + 1 < Budget =>
                others = {x \in HourStarts \ {h} : entries[x] # NoEntry}
           /\ entries' = [x \in HourStarts |->
                IF x = h THEN rows ELSE IF x \in others THEN entries[x] ELSE NoEntry]

\* invalidate: nothing at all when no hour was touched.
Invalidate ==
    /\ commit = "finished" /\ below = 0
    /\ IF drop = {} THEN UNCHANGED cacheVars
       ELSE /\ epoch' = epoch + 1
            /\ touched' = [h \in HourStarts |-> IF h \in drop THEN epoch + 1 ELSE touched[h]]
            /\ entries' = [h \in HourStarts |-> IF h \in drop THEN NoEntry ELSE entries[h]]
            /\ UNCHANGED floor
    /\ commit' = "idle" /\ drop' = {} /\ prev' = db
    /\ UNCHANGED <<db, work, started, finished, below, rd>>

\* invalidateBelow: the floor only rises, its epoch is always the newest,
\* and touches under it are forgotten.
InvalidateBelow ==
    LET new == Later(floor.below, below) IN
    /\ commit = "finished" /\ below > 0
    /\ epoch' = epoch + 1
    /\ floor' = [below |-> new, epoch |-> epoch + 1]
    /\ entries' = [h \in HourStarts |-> IF h < new THEN NoEntry ELSE entries[h]]
    /\ touched' = [h \in HourStarts |-> IF h < new THEN 0 ELSE touched[h]]
    /\ commit' = "idle" /\ below' = 0 /\ prev' = db
    /\ UNCHANGED <<db, work, started, finished, drop, rd>>

------------------------------------------------------------------------------
(* Readers                                                                  *)

Goto(r, rec) ==
    /\ rd' = [rd EXCEPT ![r] = rec]
    /\ UNCHANGED <<tableVars, commitVars>>

Step(r, rec) == Goto(r, rec) /\ UNCHANGED cacheVars

\* A commit that is visible but not yet acknowledged to its writer may
\* still be answered from the cache as it was before.
Unacknowledged == {prev}

\* quiet(): finished is loaded first, started after it.
ReadBegins(r) == \E win \in Windows :
    /\ rd[r].at = "idle"
    /\ Step(r, [IdleReader EXCEPT !.at = "quiet", !.win = win, !.fin = finished,
                                  !.seen = {db} \union Unacknowledged])

ReadStarted(r) ==
    /\ rd[r].at = "quiet"
    /\ LET par == started = rd[r].fin /\ ~rd[r].again IN
       Step(r, [rd[r] EXCEPT !.at = "plan", !.par = par, !.fin = 0,
                             !.since = IF par THEN started ELSE 0])

Between(rows, spans, m) ==
    \E s \in spans : \E lo, hi \in {b \in Buckets : rows[b] > 0} :
        /\ s[1] <= lo /\ lo <= m /\ m <= hi /\ hi < s[2]

\* The planning snapshot: readHourMark, listRolledHours and, when the open
\* part is not read in parallel, the open part itself, all in one read
\* transaction.
ReadPlan(r) ==
    LET me    == rd[r]
        plan  == planHoursThroughMark(me.win[1], me.win[2], db.mark)
        hours == splitClosedHours(plan.hours, db.mark)
        mins  == splitClosedMinutes(plan.minutes, db.mark)
        closedHours == {h \in HourStarts : Holds(hours.closed, h) /\ db.hours[h] # NoBytes}
        Closed == {<<"hour", h>> : h \in closedHours}
            \union {<<"minute", m>> : m \in {b \in Buckets : Holds(mins.closed, b)}}
        Open == {<<"filling", h>> : h \in {x \in HourStarts : Holds(hours.open, x)}}
            \union {<<"minute", m>> : m \in {b \in Buckets : Between(db.pair, mins.open, b)}}
    IN
    /\ me.at = "plan"
    /\ Step(r, [me EXCEPT
         !.at = "cache", !.mark = db.mark, !.plan = plan,
         !.gets = closedHours,
         !.todo = IF me.par THEN Closed \union Open ELSE Closed,
         !.sum = IF me.par THEN NoBytes
                 ELSE RowsOf([minutes |-> mins.open, hours |-> hours.open], db)])

Plus(sum, rows) == [m \in Buckets |-> sum[m] + rows[m]]

\* hourCache.get, one closed hour after another, before any worker starts.
CacheGet(r) == \E h \in rd[r].gets :
    /\ rd[r].at = "cache"
    /\ Step(r, IF entries[h] = NoEntry
               THEN [rd[r] EXCEPT !.gets = @ \ {h}]
               ELSE [rd[r] EXCEPT !.gets = @ \ {h}, !.todo = @ \ {<<"hour", h>>},
                                  !.sum = Plus(@, entries[h])])

\* readClosedSpan for what is never cached: closed minutes, and the open
\* spans of a parallel read.
ScanSpan(r) == \E s \in rd[r].todo :
    /\ rd[r].at = "cache" /\ rd[r].gets = {}
    /\ s[1] # "hour"
    /\ Step(r, [rd[r] EXCEPT
         !.todo = @ \ {s},
         !.sum = Plus(@, IF s[1] = "filling" THEN db.hours[s[2]]
                         ELSE [m \in Buckets |-> IF m = s[2] THEN db.pair[m] ELSE 0])])

\* readClosedSpan for a closed hour that was not cached: the epoch, then
\* the query on a snapshot of its own, then put.
FillStart(r) == \E h \in HourStarts :
    /\ rd[r].at = "cache" /\ rd[r].gets = {}
    /\ <<"hour", h>> \in rd[r].todo
    /\ rd[r].fill[h].at = "none"
    /\ Step(r, [rd[r] EXCEPT !.fill[h] = [at |-> "epoch", epoch |-> epoch, rows |-> NoBytes]])

FillQuery(r) == \E h \in HourStarts :
    /\ rd[r].fill[h].at = "epoch"
    /\ Step(r, [rd[r] EXCEPT !.fill[h].at = "rows", !.fill[h].rows = db.hours[h]])

FillPut(r) == \E h \in HourStarts :
    /\ rd[r].fill[h].at = "rows"
    /\ Goto(r, [rd[r] EXCEPT !.todo = @ \ {<<"hour", h>>},
                             !.fill[h] = NoFill,
                             !.sum = Plus(@, rd[r].fill[h].rows)])
    /\ put(h, rd[r].fill[h].rows, rd[r].fill[h].epoch)
    /\ UNCHANGED <<epoch, touched, floor>>

AllRead(r) == rd[r].at = "cache" /\ rd[r].gets = {} /\ rd[r].todo = {}

\* Mutant: a parallel read is kept whatever committed meanwhile.
Stable_Always(r) == TRUE

Stable(r) == rd[r].par => started = rd[r].since

ReadDone(r) ==
    /\ AllRead(r)
    /\ Stable(r)
    /\ Step(r, [rd[r] EXCEPT !.at = "done"])

\* errSnapshotMoved: once more, with the open part on the planning snapshot.
ReadAgain(r) ==
    /\ AllRead(r)
    /\ ~Stable(r)
    /\ Step(r, [IdleReader EXCEPT !.at = "quiet", !.win = rd[r].win, !.again = TRUE,
                                  !.fin = finished, !.seen = rd[r].seen])

\* The answer is returned, or the request is cancelled before it is.
ReadReturns(r) == rd[r].at = "done" /\ Step(r, IdleReader)
ReadCancelled(r) == rd[r].at \notin {"idle", "done"} /\ Step(r, IdleReader)

Next ==
    \/ CommitPollResults \/ CommitObjectIngest \/ UpdatePollState \/ Cleanup
    \/ CommitLands \/ CommitFails \/ CommitFinishes
    \/ Invalidate \/ InvalidateBelow
    \/ \E r \in Readers :
         \/ ReadBegins(r) \/ ReadStarted(r) \/ ReadPlan(r)
         \/ CacheGet(r) \/ ScanSpan(r)
         \/ FillStart(r) \/ FillQuery(r) \/ FillPut(r)
         \/ ReadDone(r) \/ ReadAgain(r) \/ ReadReturns(r) \/ ReadCancelled(r)

Spec == Init /\ [][Next]_vars

------------------------------------------------------------------------------
(* Properties                                                               *)

TypeOK ==
    /\ db \in Tables /\ prev \in Tables /\ work \in Tables
    /\ commit \in {"idle", "started", "landed", "finished"}
    /\ started \in Nat /\ finished \in Nat
    /\ drop \subseteq HourStarts /\ below \in Nat
    /\ epoch \in Nat /\ touched \in [HourStarts -> Nat]
    /\ floor \in [below : Nat, epoch : Nat]
    /\ \A h \in HourStarts : entries[h] = NoEntry \/ entries[h] \in [Buckets -> Nat]
    /\ Cardinality({h \in HourStarts : entries[h] # NoEntry}) <= Budget
    /\ \A r \in Readers : rd[r].at \in {"idle", "quiet", "plan", "cache", "done"}

\* The hours whose cached rows a visible commit has still to drop.
PendingDrop(h) ==
    /\ commit \in {"landed", "finished"}
    /\ h \in drop \/ h < below

\* A cached hour always equals the hour's committed row, except between a
\* commit becoming visible and its writer dropping the hour.
CacheIsFresh == \A h \in HourStarts :
    entries[h] # NoEntry => entries[h] = db.hours[h] \/ PendingDrop(h)

InWindow(r, m) == rd[r].win[1] <= m /\ m < rd[r].win[2]

\* Every minute of an answer is what some commit made it, between the last
\* acknowledged one when the read began and the answer: no minute is counted
\* in both tables, missed by both, or older than a write that had returned.
AnswerIsRecent == \A r \in Readers : rd[r].at = "done" =>
    \A m \in Buckets :
      IF InWindow(r, m) THEN \E v \in rd[r].seen : rd[r].sum[m] = v.pair[m]
                        ELSE rd[r].sum[m] = 0

\* What lies after the last whole hour the planning mark covers is answered
\* from a single commit: a mark that moves during the read cannot shift a
\* minute between the tables unnoticed.
OpenPartIsOneCommit == \A r \in Readers : rd[r].at = "done" =>
    \E v \in rd[r].seen : \A m \in Buckets :
      (InWindow(r, m) /\ (m > rd[r].mark
                          \/ HoldsHour(splitClosedHours(rd[r].plan.hours, rd[r].mark).open, m)))
        => rd[r].sum[m] = v.pair[m]
=============================================================================

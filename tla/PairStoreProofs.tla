--------------------------- MODULE PairStoreProofs ---------------------------
(***************************************************************************)
(* Proofs about PairStore for every set of buckets, objects and times, any *)
(* retention and any number of crashes.  The inductive invariant says that *)
(* the committed tables and the tables of the open transaction both have   *)
(* hourly rows equal to their minutes up to a minute-aligned mark that the *)
(* clock has closed, and that a transaction only moves marks and cursors   *)
(* forward.                                                                *)
(***************************************************************************)
EXTENDS PairStoreRefinement, PairTablesProofs

\* The mark is behind a time.
Closed(d, t) == d.mark = NoMark \/ d.mark + minuteSeconds <= t

IInv ==
    /\ TypeOK
    /\ Sound(db) /\ Sound(work)
    /\ Closed(db, now) /\ Closed(work, now)
    /\ through <= now
    /\ db.mark <= work.mark /\ db.cursor <= work.cursor

------------------------------------------------------------------------------
(* The specification                                                        *)

LEMMA InitIInv == Init => IInv
<1> SUFFICES ASSUME Init PROVE IInv
  OBVIOUS
<1>1. PICK rows \in Legacy :
        db = [pair |-> rows, hours |-> NoHours, mark |-> NoMark,
              cursor |-> Never, ingested |-> [k \in Keys |-> Never]]
  BY DEF Init
<1>2. db \in Tables
  <2>1. rows \in [Buckets -> Nat]
    BY DeltasAssumption
  <2> QED BY <1>1, <2>1 DEF Tables, NoHours, NoBytes, NoMark, Never
<1>3. HoursMatch(db)
  BY <1>1, BucketFacts DEF HoursMatch, Rolled, NoHours, NoBytes, NoMark
<1>4. db.mark = NoMark /\ db.mark \in Int /\ db.cursor \in Int
  BY <1>1, <1>2 DEF Tables
<1>5. TypeOK
  BY <1>2 DEF Init, TypeOK
<1>6. now \in Nat
  BY TimesAssumption DEF Init
<1> QED BY <1>2, <1>3, <1>4, <1>5, <1>6
        DEF Init, IInv, Sound, Aligned, MarkOK, Closed, TypeOK

\* What every step may assume.
LEMMA Context ==
    ASSUME IInv
    PROVE  /\ now \in Nat /\ now >= Retention /\ now - Retention \in Nat
           /\ db \in Tables /\ db.mark \in Int /\ db.cursor \in Int
           /\ work \in Tables /\ work.mark \in Int /\ work.cursor \in Int
           /\ through \in Nat /\ crashes \in Nat
BY TimesAssumption, RetentionAssumption DEF IInv, TypeOK, Tables

\* Taking the lock with sound tables that are ahead of the committed ones.
LEMMA BeginInv ==
    ASSUME IInv, NEW d, NEW t \in Nat, NEW hours \in SUBSET HourStarts,
           Begin(d, t, hours), Sound(d), t <= now,
           d.mark = db.mark, d.cursor >= db.cursor
    PROVE  IInv'
<1>1. TypeOK'
  BY DEF IInv, TypeOK, Begin, Sound
<1>2. /\ db' = db /\ now' = now /\ work' = d /\ through' = t
  BY DEF Begin
<1>3. d.mark <= work'.mark /\ db.cursor <= work'.cursor /\ db.mark \in Int /\ d.cursor \in Int
  BY <1>2, Context DEF Sound, Tables
<1> QED BY <1>1, <1>2, <1>3, Context DEF IInv, Closed

\* Dropping the transaction: after it, work is the committed tables.
LEMMA SettledInv ==
    ASSUME IInv, TypeOK', db' \in {db, work}, work' = db', through' = 0, now' = now
    PROVE  IInv'
<1>1. db'.mark \in Int /\ db'.cursor \in Int /\ now' \in Nat
  BY Context
<1> QED BY <1>1 DEF IInv, Closed

LEMMA StepIInv == IInv /\ [Next]_vars => IInv'
<1> SUFFICES ASSUME IInv, [Next]_vars PROVE IInv'
  OBVIOUS
<1> USE Context
<1>1. CASE Tick
  <2>1. now' \in Times /\ now' \in Nat /\ now' > now
    BY <1>1, TimesAssumption DEF Tick
  <2>2. TypeOK'
    BY <1>1, <2>1 DEF IInv, TypeOK, Tick
  <2>3. Closed(db, now') /\ Closed(work, now')
    BY <2>1 DEF IInv, Closed, minuteSeconds
  <2>4. through <= now'
    BY <2>1 DEF IInv
  <2> QED BY <1>1, <2>2, <2>3, <2>4 DEF IInv, Tick, Sound, Closed
<1>2. CASE OpenStore
  <2>1. floorMinute(now) \in Nat /\ floorMinute(now) <= now
    BY MinuteFacts
  <2> QED BY <1>2, <2>1 DEF IInv, TypeOK, OpenStore, Closed
<1>3. CASE BackfillChunk
  <2> DEFINE r == rollNextHourChunk(db, through)
  <2>1. db' = r.d /\ work' = r.d /\ now' = now /\ through' = through
    BY <1>3 DEF BackfillChunk
  <2>2. /\ Sound(r.d) /\ r.d.mark >= db.mark
        /\ r.d.mark = db.mark \/ r.d.mark + minuteSeconds <= through
    BY <1>3, RollSound DEF IInv, BackfillChunk
  <2>3. TypeOK'
    BY <1>3, <2>1, <2>2 DEF IInv, TypeOK, BackfillChunk, Sound
  <2> HIDE DEF r
  <2>4. r.d.mark \in Int /\ r.d.cursor \in Int
    BY <2>2 DEF Sound, Tables
  <2>5. Closed(r.d, now)
    BY <2>2, <2>4 DEF IInv, Closed, minuteSeconds
  <2> QED BY <2>1, <2>2, <2>3, <2>4, <2>5 DEF IInv, Closed
<1>4. CASE CommitPollResults
  <2>1. PICK delta \in Deltas, end \in {t \in Times : t <= now} :
          Begin(upsertPollCursor(upsertNodePairs(db, delta), end), end, Touches(db, delta))
    BY <1>4 DEF CommitPollResults
  <2> DEFINE u == upsertNodePairs(db, delta)
             c == upsertPollCursor(u, end)
  <2>2. delta \in [Buckets -> Nat] /\ end \in Nat /\ end <= now
    BY DeltasAssumption, TimesAssumption
  <2>3. Sound(u) /\ u.mark = db.mark /\ u.cursor = db.cursor
    BY <2>2, UpsertSound DEF IInv
  <2>4. Sound(c) /\ c.mark = u.mark /\ c.cursor >= u.cursor
    <3> HIDE DEF u
    <3> QED BY <2>2, <2>3, CursorSound
  <2>5. Touches(db, delta) \in SUBSET HourStarts
    BY BucketFacts DEF Touches
  <2>6. Begin(c, end, Touches(db, delta))
    BY <2>1
  <2> HIDE DEF u, c
  <2> QED BY <2>2, <2>3, <2>4, <2>5, <2>6, BeginInv
<1>5. CASE UpdatePollState
  <2>1. PICK end \in {t \in Times : t <= now} : Begin(upsertPollCursor(db, end), end, {})
    BY <1>5 DEF UpdatePollState
  <2>2. end \in Nat /\ end <= now
    BY TimesAssumption
  <2>3. LET c == upsertPollCursor(db, end)
        IN  Sound(c) /\ c.mark = db.mark /\ c.cursor >= db.cursor
    BY <2>2, CursorSound DEF IInv
  <2> QED BY <2>1, <2>2, <2>3, BeginInv
<1>6. CASE CommitObjectIngest
  <2>1. PICK k \in Keys :
          Begin([upsertNodePairs(db, ObjectDelta[k]) EXCEPT !.ingested[k] = now],
                0, Touches(db, ObjectDelta[k]))
    BY <1>6 DEF CommitObjectIngest
  <2> DEFINE u == upsertNodePairs(db, ObjectDelta[k])
             g == [u EXCEPT !.ingested[k] = now]
  <2>2. ObjectDelta[k] \in [Buckets -> Nat]
    BY DeltasAssumption
  <2>3. Sound(u) /\ u.mark = db.mark /\ u.cursor = db.cursor
    BY <2>2, UpsertSound DEF IInv
  <2>4. Sound(g) /\ g.mark = u.mark /\ g.cursor = u.cursor
    <3> HIDE DEF u
    <3> QED BY <2>3, IngestedSound
  <2>5. Touches(db, ObjectDelta[k]) \in SUBSET HourStarts
    BY BucketFacts DEF Touches
  <2>6. Begin(g, 0, Touches(db, ObjectDelta[k]))
    BY <2>1
  <2> HIDE DEF u, g
  <2> QED BY <2>3, <2>4, <2>5, <2>6, BeginInv
<1>7. CASE CommitObjectIngestAgain
  <2>1. Begin(db, 0, {})
    BY <1>7 DEF CommitObjectIngestAgain
  <2> QED BY <2>1, BeginInv DEF IInv
<1>8. CASE Cleanup
  <2> DEFINE e == Expire(db, now - Retention)
  <2>1. Begin(e, 0, {})
    BY <1>8 DEF Cleanup
  <2>2. Sound(e) /\ e.mark = db.mark /\ e.cursor = db.cursor
    BY ExpireSound DEF IInv
  <2> HIDE DEF e
  <2> QED BY <2>1, <2>2, BeginInv
<1>9. CASE RollChunk
  <2> DEFINE r == rollNextHourChunk(work, through)
  <2>1. work' = r.d /\ db' = db /\ now' = now /\ through' = through
    BY <1>9 DEF RollChunk
  <2>2. /\ Sound(r.d) /\ r.d.mark >= work.mark /\ r.d.cursor = work.cursor
        /\ r.d.mark = work.mark \/ r.d.mark + minuteSeconds <= through
    BY <1>9, RollSound DEF IInv, RollChunk
  <2>3. TypeOK'
    BY <1>9, <2>1, <2>2 DEF IInv, TypeOK, RollChunk, Sound
  <2> HIDE DEF r
  <2>4. r.d.mark \in Int /\ r.d.cursor \in Int
    BY <2>2 DEF Sound, Tables
  <2>5. Closed(r.d, now) /\ db.mark <= r.d.mark /\ db.cursor <= r.d.cursor
    BY <2>2, <2>4 DEF IInv, Closed, minuteSeconds
  <2> QED BY <2>1, <2>2, <2>3, <2>5 DEF IInv, Closed
<1>10. CASE commitWrite
  <2>1. TypeOK' /\ db' = work /\ work' = db' /\ through' = 0 /\ now' = now
    BY <1>10 DEF IInv, TypeOK, commitWrite, Release
  <2> QED BY <2>1, SettledInv
<1>11. CASE Rollback
  <2>1. TypeOK' /\ db' = db /\ work' = db' /\ through' = 0 /\ now' = now
    BY <1>11 DEF IInv, TypeOK, Rollback, Release
  <2> QED BY <2>1, SettledInv
<1>12. CASE Crash
  <2>1. TypeOK' /\ db' = db /\ work' = db' /\ through' = 0 /\ now' = now
    BY <1>12 DEF IInv, TypeOK, Crash, Release
  <2> QED BY <2>1, SettledInv
<1>13. CASE UNCHANGED vars
  BY <1>13 DEF IInv, TypeOK, vars, Closed
<1> QED BY <1>1, <1>2, <1>3, <1>4, <1>5, <1>6, <1>7, <1>8, <1>9, <1>10, <1>11,
           <1>12, <1>13 DEF Next

LEMMA Inductive == Spec => []IInv
<1> QED BY InitIInv, StepIInv, PTL DEF Spec

\* Every variable of the store keeps its type, whatever the instance.
THEOREM TypeCorrect == Spec => []TypeOK
<1>1. IInv => TypeOK
  BY DEF IInv
<1> QED BY <1>1, Inductive, PTL

\* Hourly rows always hold exactly the rolled minutes of their hour, for any
\* traffic, any retention and any number of failed or crashed writes.
THEOREM HourRowsAreExact == Spec => []HourRowsMatchMinutes
<1>1. IInv => HourRowsMatchMinutes
  BY DEF IInv, Sound, HourRowsMatchMinutes
<1> QED BY <1>1, Inductive, PTL

\* Both planners answer every window, aligned or not, minute by minute with
\* what a scan of node_pairs would return, in every state of the store.
THEOREM PlannedReadsAreExact == Spec => []PlannedReadMatchesScan
<1>1. ASSUME IInv PROVE PlannedReadMatchesScan
  <2> SUFFICES ASSUME NEW start \in Edges, NEW end \in Edges
               PROVE  /\ RowsOf(planHours(start, end, db.mark), db)
                           = MinuteScan(start, end, db)
                      /\ RowsOf(planHoursThroughMark(start, end, db.mark), db)
                           = MinuteScan(start, end, db)
    BY DEF PlannedReadMatchesScan
  <2>1. Sound(db) /\ MarkOK(db.mark) /\ start \in Nat /\ end \in Nat
    BY <1>1, TimesAssumption DEF IInv, Sound, Aligned
  <2>2. Exact(planHours(start, end, db.mark), start, end, db.mark)
    BY <2>1, PlanHoursExact
  <2>3. Exact(planHoursThroughMark(start, end, db.mark), start, end, db.mark)
    BY <2>1, PlanThroughMarkExact
  <2> QED BY <2>1, <2>2, <2>3, ExactPlanReads
<1> QED BY <1>1, Inductive, PTL

\* No minute the clock has not closed is ever rolled up.
THEOREM OpenMinuteStaysOnMinuteRows == Spec => []OpenMinuteNotRolled
<1>1. IInv => OpenMinuteNotRolled
  BY DEF IInv, Closed, OpenMinuteNotRolled
<1> QED BY <1>1, Inductive, PTL

\* The rollup can never refuse to advance, so the two errors that
\* rollNextHourChunk raises on its own account are unreachable.
THEOREM RollupNeverStuck == Spec => []RollupAlwaysAdvances
<1>1. IInv => RollupAlwaysAdvances
  BY RollNeverFails, Context DEF IInv, RollupAlwaysAdvances
<1> QED BY <1>1, Inductive, PTL

\* The poll cursor and the rollup mark are monotone, across retries with
\* older ends, retention, rollbacks and crashes.
THEOREM CursorAndMarkMonotone == Spec => CursorAndMarkForward
<1>1. IInv /\ [Next]_vars => [db'.cursor >= db.cursor /\ db'.mark >= db.mark]_vars
  <2> SUFFICES ASSUME IInv, [Next]_vars
               PROVE  db'.cursor >= db.cursor /\ db'.mark >= db.mark
    OBVIOUS
  <2> USE Context
  <2>1. CASE BackfillChunk
    BY <2>1, RollSound DEF IInv, BackfillChunk
  <2>2. CASE commitWrite
    BY <2>2 DEF IInv, commitWrite
  <2>3. CASE ~BackfillChunk /\ ~commitWrite
    <3>1. db' = db
      BY <2>3 DEF Next, vars, Tick, OpenStore, CommitPollResults, UpdatePollState,
                  CommitObjectIngest, CommitObjectIngestAgain, Cleanup, Begin,
                  RollChunk, Rollback, Crash
    <3> QED BY <3>1
  <2> QED BY <2>1, <2>2, <2>3
<1> QED BY <1>1, Inductive, PTL DEF Spec, CursorAndMarkForward

------------------------------------------------------------------------------
(* The ledger                                                               *)

\* A reader of the whole history reads node_pairs.
LEMMA WholeHistory ==
    ASSUME NEW d, Sound(d)
    PROVE  RowsOf(planHoursThroughMark(0, Horizon, d.mark), d) = d.pair
<1>1. RowsOf(planHoursThroughMark(0, Horizon, d.mark), d) = MinuteScan(0, Horizon, d)
  <2>1. Horizon \in Nat /\ 0 \in Nat /\ MarkOK(d.mark)
    BY HorizonAssumption DEF Sound, Aligned
  <2>2. Exact(planHoursThroughMark(0, Horizon, d.mark), 0, Horizon, d.mark)
    BY <2>1, PlanThroughMarkExact
  <2> QED BY <2>1, <2>2, ExactPlanReads
<1>2. d.pair \in [Buckets -> Nat]
  BY DEF Sound, Tables
<1>3. \A m \in Buckets : 0 <= m /\ m < Horizon
  BY HorizonAssumption, BucketFacts
<1> QED BY <1>1, <1>2, <1>3 DEF MinuteScan

\* What an open transaction does, once committed, is one entry of the ledger.
Changed(d, e, pair, cursor, ingested) ==
    e.pair = pair /\ e.cursor = cursor /\ e.ingested = ingested

Plus(d, delta) == [m \in Buckets |-> d.pair[m] + delta[m]]

Nothing(d, e) == Changed(d, e, d.pair, d.cursor, d.ingested)

Poll(d, e) == \E delta \in Deltas, end \in {t \in Times : t <= now} :
    Changed(d, e, Plus(d, delta), Later(d.cursor, end), d.ingested)

EmptyPoll(d, e) == \E end \in {t \in Times : t <= now} :
    Changed(d, e, d.pair, Later(d.cursor, end), d.ingested)

Object(d, e) == \E k \in Keys, t \in {x \in Times : x <= now} :
    /\ d.ingested[k] = Never
    /\ Changed(d, e, Plus(d, ObjectDelta[k]), d.cursor, [d.ingested EXCEPT ![k] = t])

Retired(d, e) == \E t \in {x \in Times : x <= now} :
    Changed(d, e, DropMinutes(d, t - Retention).pair, d.cursor,
                  DropMinutes(d, t - Retention).ingested)

Entry(d, e) == Nothing(d, e) \/ Poll(d, e) \/ EmptyPoll(d, e) \/ Object(d, e) \/ Retired(d, e)

LedgerInv ==
    /\ IInv
    /\ Entry(db, work)
    /\ phase # "serving" => lock = "free"
    /\ lock = "free" => work = db

LEMMA LedgerInit == Init => Ledger!Init /\ LedgerInv
<1> SUFFICES ASSUME Init PROVE Ledger!Init /\ LedgerInv
  OBVIOUS
<1>1. IInv
  BY InitIInv
<1>2. LedgerInv
  BY <1>1 DEF Init, LedgerInv, Entry, Nothing, Changed
<1>3. TrafficRead = db.pair
  BY <1>1, WholeHistory DEF IInv, TrafficRead
<1>4. PICK rows \in Legacy :
        db = [pair |-> rows, hours |-> NoHours, mark |-> NoMark,
              cursor |-> Never, ingested |-> [k \in Keys |-> Never]]
  BY DEF Init
<1> QED BY <1>2, <1>3, <1>4 DEF Init, Ledger!Init, Never, Ledger!Never

\* Taking the lock: the statements of each operation are its entry.
LEMMA BeginLedger ==
    ASSUME LedgerInv, IInv', NEW d, NEW t, NEW hours, Begin(d, t, hours), Entry(db, d)
    PROVE  LedgerInv'
<1>1. db' = db /\ work' = d /\ now' = now /\ phase' = "serving" /\ lock' # "free"
  BY DEF Begin
<1> QED BY <1>1 DEF LedgerInv, Entry, Nothing, Poll, EmptyPoll, Object, Retired

LEMMA LedgerStep == LedgerInv /\ [Next]_vars => LedgerInv'
<1> SUFFICES ASSUME LedgerInv, [Next]_vars PROVE LedgerInv'
  OBVIOUS
<1>1. IInv /\ IInv'
  BY StepIInv DEF LedgerInv
<1> USE Context
<1>2. CASE Tick
  <2>1. now' \in Nat /\ now' > now /\ db' = db /\ work' = work /\ phase' = phase /\ lock' = lock
    BY <1>2, TimesAssumption DEF Tick
  <2>2. \A t \in Times : t <= now => t <= now'
    BY <1>1, <2>1, TimesAssumption
  <2>3. Nothing(db, work) => Nothing(db, work)'
    BY <2>1 DEF Nothing, Changed
  <2>4. Poll(db, work) => Poll(db, work)'
    BY <2>1, <2>2 DEF Poll, Changed
  <2>5. EmptyPoll(db, work) => EmptyPoll(db, work)'
    BY <2>1, <2>2 DEF EmptyPoll, Changed
  <2>6. Object(db, work) => Object(db, work)'
    <3> SUFFICES ASSUME Object(db, work) PROVE Object(db, work)'
      OBVIOUS
    <3>1. PICK k \in Keys, t \in {x \in Times : x <= now} :
            /\ db.ingested[k] = Never
            /\ Changed(db, work, Plus(db, ObjectDelta[k]), db.cursor,
                       [db.ingested EXCEPT ![k] = t])
      BY DEF Object
    <3>2. t \in {x \in Times : x <= now'}
      BY <2>2
    <3>3. /\ db'.ingested[k] = Never
          /\ Changed(db', work', Plus(db', ObjectDelta[k]), db'.cursor,
                     [db'.ingested EXCEPT ![k] = t])
      BY <2>1, <3>1
    <3> QED BY <3>2, <3>3 DEF Object
  <2>7. Retired(db, work) => Retired(db, work)'
    BY <2>1, <2>2 DEF Retired, Changed
  <2> QED BY <1>1, <2>1, <2>3, <2>4, <2>5, <2>6, <2>7 DEF LedgerInv, Entry
<1>3. CASE OpenStore
  BY <1>1, <1>3 DEF OpenStore, LedgerInv, Entry, Nothing, Poll, EmptyPoll, Object, Retired
<1>4. ASSUME db' = work', lock' = "free"
      PROVE  LedgerInv'
  BY <1>1, <1>4 DEF LedgerInv, Entry, Nothing, Changed
<1>5. CASE BackfillChunk
  BY <1>4, <1>5 DEF BackfillChunk, LedgerInv
<1>6. CASE commitWrite \/ Rollback \/ Crash
  BY <1>4, <1>6 DEF commitWrite, Rollback, Crash, Release
<1>7. CASE RollChunk
  <2> DEFINE r == rollNextHourChunk(work, through)
  <2>1. /\ work' = r.d /\ db' = db /\ now' = now /\ phase' = phase
        /\ lock # "free" /\ lock' # "free"
    BY <1>7 DEF RollChunk
  <2>2. r.d.pair = work.pair /\ r.d.cursor = work.cursor /\ r.d.ingested = work.ingested
    BY <1>1, <1>7, RollSound DEF IInv, RollChunk
  <2> HIDE DEF r
  <2>3. ASSUME NEW p, NEW c, NEW i, Changed(db, work, p, c, i)
        PROVE  Changed(db', work', p, c, i)
    BY <2>1, <2>2, <2>3 DEF Changed
  <2>4. Nothing(db, work) => Nothing(db, work)'
    BY <2>1, <2>3 DEF Nothing
  <2>5. Poll(db, work) => Poll(db, work)'
    BY <2>1, <2>3 DEF Poll
  <2>6. EmptyPoll(db, work) => EmptyPoll(db, work)'
    BY <2>1, <2>3 DEF EmptyPoll
  <2>7. Object(db, work) => Object(db, work)'
    BY <2>1, <2>3 DEF Object
  <2>8. Retired(db, work) => Retired(db, work)'
    BY <2>1, <2>3 DEF Retired
  <2> QED BY <1>1, <2>1, <2>4, <2>5, <2>6, <2>7, <2>8 DEF LedgerInv, Entry
<1>8. CASE CommitPollResults
  <2>1. PICK delta \in Deltas, end \in {t \in Times : t <= now} :
          Begin(upsertPollCursor(upsertNodePairs(db, delta), end), end, Touches(db, delta))
    BY <1>8 DEF CommitPollResults
  <2> DEFINE u == upsertNodePairs(db, delta)
             c == upsertPollCursor(u, end)
  <2>2. delta \in [Buckets -> Nat] /\ end \in Nat
    BY DeltasAssumption, TimesAssumption
  <2>3. Sound(u) /\ u.pair = Plus(db, delta) /\ u.cursor = db.cursor /\ u.ingested = db.ingested
    BY <1>1, <2>2, UpsertSound DEF IInv, Plus
  <2>4. c.pair = u.pair /\ c.cursor = Later(u.cursor, end) /\ c.ingested = u.ingested
    <3> HIDE DEF u
    <3> QED BY <2>2, <2>3, CursorSound
  <2>5. Begin(c, end, Touches(db, delta))
    BY <2>1
  <2> HIDE DEF u, c
  <2>6. Entry(db, c)
    BY <2>3, <2>4 DEF Entry, Poll, Changed
  <2> QED BY <1>1, <2>5, <2>6, BeginLedger
<1>9. CASE UpdatePollState
  <2>1. PICK end \in {t \in Times : t <= now} : Begin(upsertPollCursor(db, end), end, {})
    BY <1>9 DEF UpdatePollState
  <2> DEFINE c == upsertPollCursor(db, end)
  <2>2. c.pair = db.pair /\ c.cursor = Later(db.cursor, end) /\ c.ingested = db.ingested
    BY <1>1, TimesAssumption, CursorSound DEF IInv
  <2>3. Begin(c, end, {})
    BY <2>1
  <2> HIDE DEF c
  <2>4. Entry(db, c)
    BY <2>2 DEF Entry, EmptyPoll, Changed
  <2> QED BY <1>1, <2>3, <2>4, BeginLedger
<1>10. CASE CommitObjectIngest
  <2>1. PICK k \in Keys :
          /\ db.ingested[k] = Never
          /\ Begin([upsertNodePairs(db, ObjectDelta[k]) EXCEPT !.ingested[k] = now],
                   0, Touches(db, ObjectDelta[k]))
    BY <1>10 DEF CommitObjectIngest
  <2> DEFINE u == upsertNodePairs(db, ObjectDelta[k])
             g == [u EXCEPT !.ingested[k] = now]
  <2>2. ObjectDelta[k] \in [Buckets -> Nat]
    BY DeltasAssumption
  <2>3. /\ Sound(u) /\ u.pair = Plus(db, ObjectDelta[k])
        /\ u.cursor = db.cursor /\ u.ingested = db.ingested
    BY <1>1, <2>2, UpsertSound DEF IInv, Plus
  <2>4. /\ g.pair = u.pair /\ g.cursor = u.cursor
        /\ g.ingested = [u.ingested EXCEPT ![k] = now]
    <3> HIDE DEF u
    <3> QED BY <1>1, <2>3, IngestedSound
  <2>5. Begin(g, 0, Touches(db, ObjectDelta[k])) /\ now \in Times /\ now <= now
    BY <1>1, <2>1 DEF IInv, TypeOK
  <2> HIDE DEF u, g
  <2>6. Entry(db, g)
    BY <2>1, <2>3, <2>4, <2>5 DEF Entry, Object, Changed
  <2> QED BY <1>1, <2>5, <2>6, BeginLedger
<1>11. CASE CommitObjectIngestAgain
  <2>1. Begin(db, 0, {})
    BY <1>11 DEF CommitObjectIngestAgain
  <2>2. Entry(db, db)
    BY DEF Entry, Nothing, Changed
  <2> QED BY <1>1, <2>1, <2>2, BeginLedger
<1>12. CASE Cleanup
  <2> DEFINE e == Expire(db, now - Retention)
             c == DropMinutes(db, now - Retention)
  <2>1. Begin(e, 0, {}) /\ now \in Times /\ now <= now
    BY <1>1, <1>12 DEF Cleanup, IInv, TypeOK
  <2>2. e.pair = c.pair /\ e.ingested = c.ingested /\ e.cursor = db.cursor
    BY <1>1, ExpireSound DEF IInv
  <2> HIDE DEF e
  <2>3. Entry(db, e)
    BY <2>1, <2>2 DEF Entry, Retired, Changed
  <2> QED BY <1>1, <2>1, <2>3, BeginLedger
<1>13. CASE UNCHANGED vars
  BY <1>1, <1>13 DEF vars, LedgerInv, Entry, Nothing, Poll, EmptyPoll, Object, Retired
<1> QED BY <1>2, <1>3, <1>5, <1>6, <1>7, <1>8, <1>9, <1>10, <1>11, <1>12, <1>13 DEF Next

\* A committed entry is a step of the ledger.
LEMMA EntryIsLedgerStep ==
    ASSUME IInv, IInv', Entry(db, work), db' = work, now' = now
    PROVE  [Ledger!Next]_Ledger!vars
<1>1. TrafficRead = db.pair /\ TrafficRead' = db'.pair
  BY WholeHistory DEF IInv, TrafficRead
<1>2. CASE Nothing(db, work)
  BY <1>1, <1>2 DEF Nothing, Changed, Ledger!vars
<1>3. CASE Poll(db, work)
  <2>1. PICK delta \in Deltas, end \in {t \in Times : t <= now} :
          Changed(db, work, Plus(db, delta), Later(db.cursor, end), db.ingested)
    BY <1>3 DEF Poll
  <2>2. /\ TrafficRead' = Ledger!Add(delta) /\ db'.cursor = Ledger!Forward(end)
        /\ db'.ingested = db.ingested
    BY <1>1, <2>1 DEF Changed, Plus, Later, Ledger!Add, Ledger!Forward
  <2>3. Ledger!RecordPoll
    BY <2>2 DEF Ledger!RecordPoll
  <2> QED BY <2>3 DEF Ledger!Next
<1>4. CASE EmptyPoll(db, work)
  <2>1. PICK end \in {t \in Times : t <= now} :
          Changed(db, work, db.pair, Later(db.cursor, end), db.ingested)
    BY <1>4 DEF EmptyPoll
  <2>2. Ledger!RecordEmptyPoll
    BY <1>1, <2>1 DEF Changed, Later, Ledger!RecordEmptyPoll, Ledger!Forward
  <2> QED BY <2>2 DEF Ledger!Next
<1>5. CASE Object(db, work)
  <2>1. PICK k \in Keys, t \in {x \in Times : x <= now} :
          /\ db.ingested[k] = Never
          /\ Changed(db, work, Plus(db, ObjectDelta[k]), db.cursor,
                     [db.ingested EXCEPT ![k] = t])
    BY <1>5 DEF Object
  <2>2. TrafficRead' = Ledger!Add(ObjectDelta[k])
    BY <1>1, <2>1 DEF Changed, Plus, Ledger!Add
  <2>3. Ledger!RecordObject
    BY <2>1, <2>2 DEF Changed, Ledger!RecordObject, Never, Ledger!Never
  <2> QED BY <2>3 DEF Ledger!Next
<1>6. CASE Retired(db, work)
  <2>1. PICK t \in {x \in Times : x <= now} :
          Changed(db, work, DropMinutes(db, t - Retention).pair, db.cursor,
                            DropMinutes(db, t - Retention).ingested)
    BY <1>6 DEF Retired
  <2>2. db \in Tables /\ t - Retention \in Int
    BY TimesAssumption, RetentionAssumption DEF IInv, TypeOK
  <2>3. /\ db'.pair = [m \in Buckets |-> IF m < t - Retention THEN 0 ELSE db.pair[m]]
        /\ db'.ingested =
             [k \in Keys |-> IF db.ingested[k] < t - Retention THEN Never ELSE db.ingested[k]]
        /\ db'.cursor = db.cursor
    BY <2>1, <2>2, DropMinutesRows DEF Changed
  <2>4. Ledger!Retire
    BY <1>1, <2>3 DEF Ledger!Retire, Ledger!Without, Never, Ledger!Never
  <2> QED BY <2>4 DEF Ledger!Next
<1> QED BY <1>2, <1>3, <1>4, <1>5, <1>6 DEF Entry

LEMMA LedgerSimulation ==
    LedgerInv /\ LedgerInv' /\ [Next]_vars => [Ledger!Next]_Ledger!vars
<1> SUFFICES ASSUME LedgerInv, LedgerInv', [Next]_vars
             PROVE  [Ledger!Next]_Ledger!vars
  OBVIOUS
<1>1. /\ IInv /\ IInv' /\ Sound(db) /\ Sound(db')
      /\ TrafficRead = db.pair /\ TrafficRead' = db'.pair
  BY WholeHistory DEF LedgerInv, IInv, TrafficRead
<1>2. CASE commitWrite
  BY <1>1, <1>2, EntryIsLedgerStep DEF commitWrite, LedgerInv
<1>3. CASE Tick
  <2>1. /\ TrafficRead' = TrafficRead /\ db' = db
        /\ now' \in {t \in Times : t > now}
    BY <1>1, <1>3 DEF Tick
  <2>2. Ledger!Tick
    BY <2>1 DEF Ledger!Tick
  <2> QED BY <2>2 DEF Ledger!Next
<1>4. CASE BackfillChunk
  <2>1. /\ db'.pair = db.pair /\ db'.cursor = db.cursor /\ db'.ingested = db.ingested
        /\ now' = now
    BY <1>1, <1>4, Context, RollSound DEF BackfillChunk
  <2> QED BY <1>1, <2>1 DEF Ledger!vars
<1>5. CASE ~commitWrite /\ ~Tick /\ ~BackfillChunk
  <2>1. db' = db /\ now' = now
    BY <1>5 DEF Next, vars, OpenStore, CommitPollResults, UpdatePollState,
                CommitObjectIngest, CommitObjectIngestAgain, Cleanup, Begin,
                RollChunk, Rollback, Crash
  <2> QED BY <1>1, <2>1 DEF Ledger!vars
<1> QED BY <1>2, <1>3, <1>4, <1>5

\* Chunked rollups, late writes behind the mark, split hours, rollbacks,
\* crashes and the startup pass are invisible: a reader of the whole history,
\* going through the rollup, sees whole polls, whole objects each at most
\* once, and retention at one cutoff.
THEOREM StoreImplementsLedger == Spec => ImplementsLedger
<1>1. Spec => []LedgerInv
  BY LedgerInit, LedgerStep, PTL DEF Spec
<1> QED BY <1>1, LedgerInit, LedgerSimulation, PTL DEF Spec, ImplementsLedger, Ledger!Spec
=============================================================================

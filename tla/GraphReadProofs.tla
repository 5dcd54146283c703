---------------------------- MODULE GraphReadProofs ----------------------------
(***************************************************************************)
(* Proofs about graph reads (GraphRead), for any number of readers and     *)
(* commits, any windows, batches, poll ends and cutoffs, and any cache     *)
(* budget: the cache is never stale beyond the writer that still has to    *)
(* drop the hour, and an answer is whole and recent.                       *)
(*                                                                         *)
(* The invariant says, for a read under way, where every minute of its     *)
(* window comes from (ItemOf) and that the sum holds it once the item that *)
(* brings it is no longer to do (Gathered).                                *)
(***************************************************************************)
EXTENDS GraphRead, PairTablesProofs

Spans == SUBSET (Nat \X Nat)
Plans == [minutes : Spans, hours : Spans]
Rows == [Buckets -> Nat]
Fills == [at : {"none", "epoch", "rows"}, epoch : Nat, rows : Rows]
Items == {"hour", "filling", "minute"} \X Nat

ReaderRecords ==
    [at : {"idle", "quiet", "plan", "cache", "done"}, win : Nat \X Nat,
     fin : Nat, since : Nat, par : BOOLEAN, again : BOOLEAN, mark : Int,
     plan : Plans, gets : SUBSET HourStarts, todo : SUBSET Items,
     fill : [HourStarts -> Fills], sum : Rows, seen : SUBSET Tables]

\* A whole hour of a table is in its rollup.
ClosedIn(d, h) == h + hourSeconds <= d.mark + minuteSeconds

------------------------------------------------------------------------------
(* The invariant                                                            *)

\* How a read plans a minute: from its own row, or through its hour, which is
\* whole or still filling.
Direct(me, m) == Holds(me.plan.minutes, m)
ByHour(me, m) == HoldsHour(me.plan.hours, m) /\ m <= me.mark
Whole(me, h) == h + hourSeconds <= me.mark + minuteSeconds

Inside(me, m) == me.win[1] <= m /\ m < me.win[2]

ClosedPart(me, m) ==
    \/ Direct(me, m) /\ m <= me.mark
    \/ ByHour(me, m) /\ Whole(me, HourOf(m))

OpenPart(me, m) ==
    \/ Direct(me, m) /\ m > me.mark
    \/ ByHour(me, m) /\ ~Whole(me, HourOf(m))

\* The span that brings a minute into the sum.
ItemOf(me, m) ==
    IF Direct(me, m) THEN <<"minute", m>>
    ELSE IF Whole(me, HourOf(m)) THEN <<"hour", HourOf(m)>>
    ELSE <<"filling", HourOf(m)>>

HourItem(me, s) ==
    \E h \in HourStarts : s = <<"hour", h>> /\ Holds(me.plan.hours, h) /\ Whole(me, h)
FillingItem(me, s) ==
    \E h \in HourStarts : /\ s = <<"filling", h>> /\ me.par
                          /\ Holds(me.plan.hours, h) /\ ~Whole(me, h)
MinuteItem(me, s) ==
    \E m \in Buckets : s = <<"minute", m>> /\ Direct(me, m) /\ (m > me.mark => me.par)

Item(me, s) == HourItem(me, s) \/ FillingItem(me, s) \/ MinuteItem(me, s)

\* What a read that is still good has gathered.
GatheredAt(me, m) ==
    /\ ~Inside(me, m) \/ ItemOf(me, m) \in me.todo => me.sum[m] = 0
    /\ ClosedPart(me, m) /\ ItemOf(me, m) \notin me.todo =>
         \E v \in me.seen : me.sum[m] = v.pair[m]
    /\ me.par /\ OpenPart(me, m) /\ ItemOf(me, m) \notin me.todo => me.sum[m] = db.pair[m]

Gathered(me) == \A m \in Buckets : GatheredAt(me, m)

\* No commit has started since a parallel read did.
Good(me) == me.par => started = me.since

Planned(me) ==
    /\ me.plan = planHoursThroughMark(me.win[1], me.win[2], me.mark)
    /\ MarkOK(me.mark)

OpenIsOne(me) ==
    \E v \in me.seen : \A m \in Buckets : OpenPart(me, m) => me.sum[m] = v.pair[m]

ReadingInv(me) ==
    /\ Planned(me) /\ me.mark <= db.mark
    /\ \A s \in me.todo : Item(me, s)
    /\ \A h \in me.gets : <<"hour", h>> \in me.todo
    /\ Good(me) => Gathered(me)
    /\ Good(me) /\ me.par => me.mark = db.mark
    /\ ~me.par => OpenIsOne(me)

AnswerInv(me) ==
    /\ Planned(me)
    /\ \A m \in Buckets :
         IF Inside(me, m) THEN \E v \in me.seen : me.sum[m] = v.pair[m] ELSE me.sum[m] = 0
    /\ OpenIsOne(me)

\* Rows of an hour as they are, or as they were before a commit whose writer
\* has still to drop them.
Fresh(rows, h) ==
    \/ rows = db.hours[h]
    \/ PendingDrop(h) /\ ClosedIn(prev, h) /\ rows = prev.hours[h]

\* A fill under way is of an hour to do; what it has read is fresh, or the
\* hour was touched after its epoch and put will refuse it.
FillInv(me) == \A h \in HourStarts : me.fill[h].at # "none" =>
    /\ me.at = "cache" /\ me.gets = {} /\ <<"hour", h>> \in me.todo
    /\ me.fill[h].epoch <= epoch
    /\ me.fill[h].at = "rows" =>
         /\ Fresh(me.fill[h].rows, h) \/ touchedAt(h) > me.fill[h].epoch
         /\ \E v \in me.seen : ClosedIn(v, h) /\ me.fill[h].rows = v.hours[h]

\* What a read may have seen, and when it began.
SeenInv(me) ==
    /\ me.at # "idle" => {db, prev} \subseteq me.seen
    /\ \A v \in me.seen : Sound(v)

SequenceInv(me) ==
    /\ me.at = "quiet" => me.fin <= finished
    /\ me.at \in {"plan", "cache"} /\ me.par =>
         me.since <= started /\ (me.since = started => started = finished)

ReaderInv(me) ==
    /\ SeenInv(me) /\ SequenceInv(me) /\ FillInv(me)
    /\ me.at = "cache" => ReadingInv(me)
    /\ me.at = "done" => AnswerInv(me)

CommitInv ==
    /\ Sound(db) /\ Sound(prev) /\ Sound(work)
    /\ started = finished + IF commit \in {"started", "landed"} THEN 1 ELSE 0
    /\ commit = "idle" => drop = {} /\ below = 0
    /\ below > 0 => drop = {}
    /\ commit = "started" =>
         /\ db.mark <= work.mark
         /\ \A h \in HourStarts : ClosedIn(db, h) =>
              work.hours[h] = db.hours[h] \/ h \in drop \/ h < below

CacheInv ==
    /\ \A h \in HourStarts : touched[h] <= epoch
    /\ floor.epoch <= epoch
    /\ \A h \in HourStarts : entries[h] # NoEntry => ClosedIn(db, h) /\ Fresh(entries[h], h)

Typing == TypeOK /\ rd \in [Readers -> ReaderRecords]

IInv == Typing /\ CommitInv /\ CacheInv /\ \A r \in Readers : ReaderInv(rd[r])

------------------------------------------------------------------------------
(* The tables a write commits                                               *)

HourCount == Cardinality(HourStarts)

LEMMA HoursFinite == IsFiniteSet(HourStarts) /\ HourCount \in Nat
<1>1. IsFiniteSet(Buckets)
  BY GraphReadAssumption
<1> DEFINE f == [m \in Buckets |-> HourOf(m)]
<1>2. f \in Surjection(Buckets, HourStarts)
  BY DEF Surjection, HourStarts
<1>3. IsFiniteSet(HourStarts)
  <2> HIDE DEF f
  <2> QED BY <1>1, <1>2, FS_Surjection
<1> QED BY <1>3, FS_CardinalityType DEF HourCount

\* f[n] is the tables after n chunks.
Chunks(f, d, t, N) ==
    f = [n \in 0 .. N |-> IF n = 0 THEN d ELSE rollNextHourChunk(f[n - 1], t).d]

LEMMA ChunksExist == ASSUME NEW d, NEW t, NEW N \in Nat PROVE \E f : Chunks(f, d, t, N)
<1> DEFINE S == {n \in Nat : ~ \E f : Chunks(f, d, t, n)}
<1> SUFFICES ASSUME S # {} PROVE FALSE
  OBVIOUS
<1>1. PICK n \in S : \A k \in S : n <= k
  <2>1. S \in SUBSET Nat
    OBVIOUS
  <2> HIDE DEF S
  <2> QED BY <2>1, LeastNat
<1>2. n # 0
  <2>1. Chunks([k \in 0 .. 0 |-> d], d, t, 0)
    BY DEF Chunks
  <2> QED BY <1>1, <2>1
<1>3. n - 1 \in Nat /\ n - 1 \notin S
  BY <1>1, <1>2
<1>4. PICK f : Chunks(f, d, t, n - 1)
  BY <1>3
<1> DEFINE g == [k \in 0 .. n |-> IF k = 0 THEN d ELSE rollNextHourChunk(f[k - 1], t).d]
<1>5. \A k \in 0 .. n - 1 : g[k] = f[k]
  <2> TAKE k \in 0 .. n - 1
  <2>1. k \in 0 .. n
    BY <1>1, <1>3
  <2> QED BY <1>4, <2>1 DEF Chunks
<1>6. Chunks(g, d, t, n)
  <2>1. \A k \in 0 .. n : k # 0 => k - 1 \in 0 .. n - 1
    BY <1>1
  <2>2. \A k \in 0 .. n : k # 0 => g[k - 1] = f[k - 1]
    BY <1>5, <2>1
  <2>3. g = [k \in 0 .. n |-> IF k = 0 THEN d ELSE rollNextHourChunk(g[k - 1], t).d]
    <3> DEFINE G == [k \in 0 .. n |-> IF k = 0 THEN d ELSE rollNextHourChunk(g[k - 1], t).d]
    <3>1. \A k \in 0 .. n : g[k] = G[k]
      BY <2>2
    <3> QED BY <3>1
  <2> QED BY <2>3 DEF Chunks
<1> QED BY <1>1, <1>6

\* Closing minutes keeps the tables sound and the minutes as they are.
LEMMA RollAllSound ==
    ASSUME NEW d, Sound(d), NEW t \in Nat
    PROVE  /\ Sound(rollClosedMinutes(d, t))
           /\ rollClosedMinutes(d, t).pair = d.pair
           /\ d.mark <= rollClosedMinutes(d, t).mark
<1> DEFINE N == HourCount + 1
           f == CHOOSE g : Chunks(g, d, t, N)
           Kept(e) == Sound(e) /\ e.pair = d.pair /\ d.mark <= e.mark
           S == {n \in Nat : n <= N /\ ~Kept(f[n])}
<1>1. N \in Nat
  BY HoursFinite
<1>2. Chunks(f, d, t, N)
  BY <1>1, ChunksExist
<1>3. rollClosedMinutes(d, t) = f[N]
  BY DEF rollClosedMinutes, Chunks, HourCount
<1> HIDE DEF f, N
<1>4. \A n \in 0 .. N : f[n] = IF n = 0 THEN d ELSE rollNextHourChunk(f[n - 1], t).d
  BY <1>1, <1>2 DEF Chunks
<1>5. Kept(d)
  BY DEF Sound, Tables
<1>6. S = {}
  <2> SUFFICES ASSUME S # {} PROVE FALSE
    OBVIOUS
  <2>1. PICK n \in S : \A k \in S : n <= k
    <3>1. S \in SUBSET Nat
      OBVIOUS
    <3> HIDE DEF S
    <3> QED BY <3>1, LeastNat
  <2>2. n \in Nat /\ n <= N /\ ~Kept(f[n])
    BY <2>1
  <2>3. n # 0
    BY <1>1, <1>4, <1>5, <2>2
  <2>4. n - 1 \in Nat /\ n - 1 \notin S /\ n - 1 <= N
    BY <1>1, <2>1, <2>2, <2>3
  <2>5. Kept(f[n - 1])
    BY <2>4
  <2> DEFINE e == f[n - 1]
  <2>6. f[n] = rollNextHourChunk(e, t).d
    BY <1>1, <1>4, <2>2, <2>3
  <2> HIDE DEF e
  <2>7. Sound(e) /\ e.pair = d.pair /\ d.mark <= e.mark /\ e.mark \in Int /\ d.mark \in Int
    BY <2>5 DEF e, Sound, Tables
  <2>8. /\ Sound(rollNextHourChunk(e, t).d) /\ rollNextHourChunk(e, t).d.pair = e.pair
        /\ rollNextHourChunk(e, t).d.mark >= e.mark
    BY <2>7, RollNeverFails, RollSound
  <2>9. rollNextHourChunk(e, t).d.mark \in Int
    BY <2>8 DEF Sound, Tables
  <2> QED BY <2>2, <2>6, <2>7, <2>8, <2>9
<1>7. N \in Nat /\ N <= N
  BY <1>1
<1> QED BY <1>3, <1>6, <1>7

\* The row of a closed hour is its minutes.
LEMMA ClosedHourRow ==
    ASSUME NEW v, Sound(v), NEW h \in HourStarts, ClosedIn(v, h)
    PROVE  /\ v.hours[h] \in Rows /\ v.pair \in Rows
           /\ \A m \in Buckets : v.hours[h][m] = IF HourOf(m) = h THEN v.pair[m] ELSE 0
<1>1. v.hours[h] \in Rows /\ v.pair \in Rows /\ v.mark \in Int
  BY DEF Sound, Tables, Rows
<1>2. ASSUME NEW m \in Buckets
      PROVE  v.hours[h][m] = IF HourOf(m) = h THEN v.pair[m] ELSE 0
  <2>1. v.hours[h][m] = IF HourOf(m) = h /\ m <= v.mark THEN v.pair[m] ELSE 0
    BY DEF Sound, HoursMatch, Rolled
  <2>2. m \in Nat /\ m % minuteSeconds = 0 /\ h \in Nat
    BY BucketFacts
  <2>3. HourOf(m) = h => m < h + hourSeconds
    BY <2>2, HourFacts
  <2>4. HourOf(m) = h => m < v.mark + minuteSeconds
    BY <1>1, <2>2, <2>3 DEF ClosedIn, hourSeconds, minuteSeconds
  <2>5. HourOf(m) = h => h <= m
    BY <2>2, HourFacts
  <2>6. HourOf(m) = h => v.mark \in Nat
    BY <1>1, <2>2, <2>5 DEF Sound, Aligned, MarkOK, NoMark, ClosedIn, hourSeconds, minuteSeconds
  <2>7. HourOf(m) = h => m <= v.mark
    BY <1>1, <2>2, <2>4, <2>6 DEF Sound, Aligned, MarkOK, NoMark, minuteSeconds
  <2> QED BY <2>1, <2>7
<1> QED BY <1>1, <1>2

\* A closed hour whose minutes stay keeps its row, and stays closed.
LEMMA ClosedHourStays ==
    ASSUME NEW d, Sound(d), NEW e, Sound(e), d.mark <= e.mark,
           NEW h \in HourStarts, ClosedIn(d, h),
           \A m \in Buckets : HourOf(m) = h => e.pair[m] = d.pair[m]
    PROVE  ClosedIn(e, h) /\ e.hours[h] = d.hours[h]
<1>1. d.mark \in Int /\ e.mark \in Int /\ h \in Nat
  BY BucketFacts DEF Sound, Tables
<1>2. ClosedIn(e, h)
  BY <1>1 DEF ClosedIn, hourSeconds, minuteSeconds
<1>3. d.hours[h] \in Rows /\ e.hours[h] \in Rows
  BY <1>2, ClosedHourRow
<1>4. \A m \in Buckets : d.hours[h][m] = e.hours[h][m]
  BY <1>2, ClosedHourRow
<1> QED BY <1>2, <1>3, <1>4 DEF Rows

\* What a write may commit: a closed hour that changes is dropped.
Committable(d, e, hours, floorHour) ==
    /\ Sound(e) /\ d.mark <= e.mark
    /\ \A h \in HourStarts : ClosedIn(d, h) =>
         e.hours[h] = d.hours[h] \/ h \in hours \/ h < floorHour

LEMMA UpsertCommittable ==
    ASSUME NEW d, Sound(d), NEW delta \in Rows, NEW e, Sound(e),
           e.pair = upsertNodePairs(d, delta).pair, d.mark <= e.mark
    PROVE  Committable(d, e, Touches(d, delta), 0)
<1>1. e.pair = [m \in Buckets |-> d.pair[m] + delta[m]]
  BY UpsertSound DEF Rows
<1>2. ASSUME NEW h \in HourStarts, ClosedIn(d, h), h \notin Touches(d, delta)
      PROVE  e.hours[h] = d.hours[h]
  <2>1. ASSUME NEW m \in Buckets, HourOf(m) = h
        PROVE  e.pair[m] = d.pair[m]
    <3>1. /\ d.pair[m] \in Nat /\ delta[m] \in Nat /\ d.mark \in Int /\ h \in Nat
          /\ m \in Nat /\ m % minuteSeconds = 0 /\ h <= m /\ m < h + hourSeconds
      BY <2>1, BucketFacts, HourFacts DEF Sound, Tables, Rows
    <3>2. m <= d.mark
      <4>1. d.mark \in Nat /\ d.mark % minuteSeconds = 0
        BY <1>2, <3>1 DEF Sound, Aligned, MarkOK, NoMark, ClosedIn, hourSeconds, minuteSeconds
      <4> QED BY <1>2, <3>1, <4>1 DEF ClosedIn, hourSeconds, minuteSeconds
    <3>3. ~(delta[m] > 0)
      BY <1>2, <2>1, <3>2 DEF Touches
    <3> QED BY <1>1, <3>1, <3>3
  <2> QED BY <1>2, <2>1, ClosedHourStays
<1> QED BY <1>2 DEF Committable

LEMMA SameRowsCommittable ==
    ASSUME NEW d, Sound(d), NEW e, Sound(e), e.pair = d.pair, d.mark <= e.mark
    PROVE  Committable(d, e, {}, 0)
BY ClosedHourStays DEF Committable

LEMMA ExpireCommittable ==
    ASSUME NEW d, Sound(d), NEW cutoff \in Nat
    PROVE  Committable(d, Expire(d, cutoff), {}, HourOf(cutoff) + hourSeconds)
<1> DEFINE e == Expire(d, cutoff)
<1>1. Sound(e) /\ e.mark = d.mark /\ e.pair = DropMinutes(d, cutoff).pair
  BY ExpireSound
<1>2. d \in Tables /\ d.mark \in Int /\ cutoff \in Int
  BY DEF Sound, Tables
<1>3. \A m \in Buckets : e.pair[m] = IF m < cutoff THEN 0 ELSE d.pair[m]
  BY <1>1, <1>2, DropMinutesFacts
<1> HIDE DEF e
<1>4. ASSUME NEW h \in HourStarts, ClosedIn(d, h), ~(h < HourOf(cutoff) + hourSeconds)
      PROVE  e.hours[h] = d.hours[h]
  <2>1. ASSUME NEW m \in Buckets, HourOf(m) = h PROVE e.pair[m] = d.pair[m]
    <3>1. m \in Nat /\ h \in Nat /\ h <= m
      BY <2>1, BucketFacts, HourFacts
    <3>2. HourOf(cutoff) \in Nat /\ cutoff < HourOf(cutoff) + hourSeconds
      BY HourFacts
    <3>3. ~(m < cutoff)
      BY <1>4, <3>1, <3>2 DEF hourSeconds
    <3> QED BY <1>3, <3>3
  <2>2. d.mark <= e.mark
    BY <1>1, <1>2
  <2> QED BY <1>1, <1>4, <2>1, <2>2, ClosedHourStays
<1>5. d.mark <= e.mark
  BY <1>1, <1>2
<1> QED BY <1>1, <1>4, <1>5 DEF Committable, e

------------------------------------------------------------------------------
(* Initial states                                                           *)

LEMMA RolledUpSound ==
    ASSUME NEW rows \in InitialRows, NEW mark \in InitialMarks
    PROVE  Sound(RolledUp(rows, mark))
<1> DEFINE d == [pair |-> rows, hours |-> NoHours, mark |-> mark, cursor |-> Never,
                 ingested |-> [k \in Keys |-> Never]]
           hr == [h \in HourStarts |-> [m \in Buckets |-> Rolled(d, h, m)]]
           e == WithHours(d, hr)
<1>1. RolledUp(rows, mark) = e
  BY DEF RolledUp, WithHours
<1>2. rows \in [Buckets -> Nat] /\ MarkOK(mark) /\ mark \in Int
  BY GraphReadAssumption DEF MarkOK, NoMark
<1>3. NoHours \in [HourStarts -> [Buckets -> Nat]]
  BY DEF NoHours, NoBytes
<1>4. d \in Tables /\ d.pair = rows /\ d.mark = mark
  <2> HIDE DEF hr
  <2> QED BY <1>2, <1>3 DEF Tables, Never
<1> HIDE DEF d
<1>5. hr \in [HourStarts -> [Buckets -> Nat]]
  BY <1>2, <1>4 DEF Rolled
<1>6. /\ e \in Tables /\ e.pair = rows /\ e.hours = hr /\ e.mark = mark
  <2> HIDE DEF hr
  <2> QED BY <1>4, <1>5, HoursUpdate
<1> HIDE DEF e
<1>7. HoursMatch(e)
  BY <1>4, <1>6 DEF HoursMatch, Rolled
<1> QED BY <1>1, <1>2, <1>6, <1>7 DEF Sound, Aligned

LEMMA IdleFacts ==
    /\ IdleReader \in ReaderRecords
    /\ ReaderInv(IdleReader)
<1>1. NoBytes \in Rows
  BY DEF NoBytes, Rows
<1>2. NoFill \in Fills /\ NoFill.at = "none"
  BY <1>1 DEF NoFill, Fills
<1>3. IdleReader \in ReaderRecords
  BY <1>1, <1>2 DEF IdleReader, ReaderRecords, Plans, Spans, NoMark
<1>4. IdleReader.at = "idle" /\ IdleReader.seen = {} /\ \A h \in HourStarts : IdleReader.fill[h].at = "none"
  BY <1>2 DEF IdleReader
<1>5. FillInv(IdleReader)
  BY <1>4 DEF FillInv
<1> QED BY <1>3, <1>4, <1>5 DEF ReaderInv, SeenInv, SequenceInv

LEMMA InitIInv == Init => IInv
<1> SUFFICES ASSUME Init PROVE IInv
  OBVIOUS
<1>1. Sound(db) /\ prev = db /\ work = db
  BY RolledUpSound DEF Init
<1>2. \A r \in Readers : rd[r] = IdleReader
  BY DEF Init
<1>3. \A r \in Readers : ReaderInv(rd[r])
  BY <1>2, IdleFacts
<1>4. rd \in [Readers -> ReaderRecords]
  BY IdleFacts DEF Init
<1>5. {h \in HourStarts : entries[h] # NoEntry} = {}
  BY DEF Init
<1>6. Cardinality({h \in HourStarts : entries[h] # NoEntry}) <= Budget
  BY <1>5, FS_EmptySet, GraphReadAssumption
<1>7. TypeOK
  <2>1. db \in Tables /\ prev \in Tables /\ work \in Tables
    BY <1>1 DEF Sound
  <2>2. \A r \in Readers : rd[r].at \in {"idle", "quiet", "plan", "cache", "done"}
    BY <1>2 DEF IdleReader
  <2>3. floor \in [below : Nat, epoch : Nat]
    BY DEF Init
  <2>4. /\ epoch \in Nat /\ touched \in [HourStarts -> Nat]
        /\ \A h \in HourStarts : entries[h] = NoEntry \/ entries[h] \in [Buckets -> Nat]
    BY DEF Init
  <2> QED BY <1>6, <2>1, <2>2, <2>3, <2>4 DEF TypeOK, Init
<1>8. CommitInv
  BY <1>1 DEF CommitInv, Init
<1>9. CacheInv
  BY DEF CacheInv, Init
<1> QED BY <1>3, <1>4, <1>7, <1>8, <1>9 DEF IInv, Typing

------------------------------------------------------------------------------
(* Commits                                                                  *)

\* The cache and the fills as they were, when no hour's pending drop changes.
LEMMA FreshKept ==
    ASSUME db' = db, prev' = prev, NEW h, PendingDrop(h)' <=> PendingDrop(h), NEW rows
    PROVE  Fresh(rows, h)' <=> Fresh(rows, h)
BY DEF Fresh, ClosedIn

LEMMA FillsKept ==
    ASSUME db' = db, prev' = prev, epoch' = epoch, touched' = touched, floor' = floor,
           \A h \in HourStarts : PendingDrop(h)' <=> PendingDrop(h),
           NEW me, FillInv(me)
    PROVE  FillInv(me)'
<1> SUFFICES ASSUME NEW h \in HourStarts, me.fill[h].at # "none"
             PROVE  /\ me.at = "cache" /\ me.gets = {} /\ <<"hour", h>> \in me.todo
                    /\ me.fill[h].epoch <= epoch'
                    /\ me.fill[h].at = "rows" =>
                         /\ Fresh(me.fill[h].rows, h)' \/ touchedAt(h)' > me.fill[h].epoch
                         /\ \E v \in me.seen : ClosedIn(v, h) /\ me.fill[h].rows = v.hours[h]
  BY DEF FillInv, ClosedIn
<1>1. /\ me.at = "cache" /\ me.gets = {} /\ <<"hour", h>> \in me.todo
      /\ me.fill[h].epoch <= epoch
      /\ me.fill[h].at = "rows" =>
           /\ Fresh(me.fill[h].rows, h) \/ touchedAt(h) > me.fill[h].epoch
           /\ \E v \in me.seen : ClosedIn(v, h) /\ me.fill[h].rows = v.hours[h]
  BY DEF FillInv
<1>2. touchedAt(h)' = touchedAt(h)
  BY DEF touchedAt
<1>3. Fresh(me.fill[h].rows, h)' <=> Fresh(me.fill[h].rows, h)
  BY FreshKept
<1> QED BY <1>1, <1>2, <1>3

\* A read is as good after a step that changes neither the tables nor the
\* cache and after which no read that was good counts as stable by mistake.
LEMMA CommitMoves ==
    ASSUME db' = db, prev' = prev, epoch' = epoch, touched' = touched, floor' = floor,
           \A h \in HourStarts : PendingDrop(h)' <=> PendingDrop(h),
           finished \in Nat, finished' \in Nat, finished <= finished',
           \A s \in Nat : s <= started /\ (s = started => started = finished)
                            => s <= started' /\ s # started',
           NEW me \in ReaderRecords, ReaderInv(me)
    PROVE  ReaderInv(me)'
<1>0. /\ me.since \in Nat /\ me.fin \in Nat /\ me.par \in BOOLEAN
  BY DEF ReaderRecords
<1>1. SeenInv(me)'
  BY DEF ReaderInv, SeenInv
<1>2. SequenceInv(me)'
  BY <1>0 DEF ReaderInv, SequenceInv
<1>3. FillInv(me)'
  BY FillsKept DEF ReaderInv
<1>4. ASSUME me.at = "cache" PROVE ReadingInv(me)'
  <2>1. ReadingInv(me)
    BY <1>4 DEF ReaderInv
  <2>2. me.par => ~Good(me)'
    BY <1>0, <1>4 DEF ReaderInv, SequenceInv, Good
  <2>3. ~me.par => Good(me)
    BY DEF Good
  <2>4. ~me.par => Gathered(me)'
    BY <2>1, <2>3 DEF ReadingInv, Gathered, GatheredAt, Inside, ItemOf, ClosedPart, OpenPart,
                      Direct, ByHour, Whole
  <2>5. Planned(me)' /\ me.mark <= db'.mark
    BY <2>1 DEF ReadingInv, Planned
  <2>6. \A s \in me.todo : Item(me, s)'
    BY <2>1 DEF ReadingInv, Item, HourItem, FillingItem, MinuteItem, Direct, Whole
  <2>7. \A h \in me.gets : <<"hour", h>> \in me.todo
    BY <2>1 DEF ReadingInv
  <2>8. ~me.par => OpenIsOne(me)'
    BY <2>1 DEF ReadingInv, OpenIsOne, OpenPart, Direct, ByHour, Whole
  <2> QED BY <2>2, <2>4, <2>5, <2>6, <2>7, <2>8 DEF ReadingInv
<1>5. ASSUME me.at = "done" PROVE AnswerInv(me)'
  <2>1. AnswerInv(me)
    BY <1>5 DEF ReaderInv
  <2> QED BY <2>1 DEF AnswerInv, Planned, Inside, OpenIsOne, OpenPart, Direct, ByHour, Whole
<1> QED BY <1>1, <1>2, <1>3, <1>4, <1>5 DEF ReaderInv

\* The types a commit step has to restore.
LEMMA Typed ==
    ASSUME IInv
    PROVE  /\ db \in Tables /\ prev \in Tables /\ work \in Tables
           /\ commit \in {"idle", "started", "landed", "finished"}
           /\ started \in Nat /\ finished \in Nat
           /\ drop \in SUBSET HourStarts /\ below \in Nat
           /\ epoch \in Nat /\ touched \in [HourStarts -> Nat]
           /\ floor \in [below : Nat, epoch : Nat]
           /\ rd \in [Readers -> ReaderRecords]
           /\ db.mark \in Int /\ work.mark \in Int
BY DEF IInv, Typing, TypeOK, Tables

\* A step of a commit that leaves tables and cache alone.
LEMMA CommitStep ==
    ASSUME IInv, CommitInv', UNCHANGED <<db, prev, cacheVars, rd>>,
           work' \in Tables, commit' \in {"idle", "started", "landed", "finished"},
           started' \in Nat, finished' \in Nat, drop' \in SUBSET HourStarts, below' \in Nat,
           \A h \in HourStarts : PendingDrop(h)' <=> PendingDrop(h),
           finished <= finished',
           \A s \in Nat : s <= started /\ (s = started => started = finished)
                            => s <= started' /\ s # started'
    PROVE  IInv'
<1>1. Typing'
  BY DEF IInv, Typing, TypeOK, cacheVars
<1>2. CacheInv'
  <2>1. CacheInv
    BY DEF IInv
  <2>2. \A h \in HourStarts : \A rows : Fresh(rows, h)' <=> Fresh(rows, h)
    BY FreshKept
  <2> QED BY <2>1, <2>2 DEF CacheInv, ClosedIn, cacheVars
<1>3. ASSUME NEW r \in Readers PROVE ReaderInv(rd[r])'
  <2> DEFINE me == rd[r]
  <2>1. me \in ReaderRecords /\ ReaderInv(me) /\ finished \in Nat
    BY Typed DEF IInv
  <2>2. epoch' = epoch /\ touched' = touched /\ floor' = floor /\ db' = db /\ prev' = prev
    BY DEF cacheVars
  <2>3. rd'[r] = me
    OBVIOUS
  <2> HIDE DEF me
  <2>4. PICK you : you = me
    OBVIOUS
  <2>5. ReaderInv(you)'
    BY <2>1, <2>2, <2>4, CommitMoves
  <2> QED BY <2>3, <2>4, <2>5
<1> QED BY <1>1, <1>2, <1>3 DEF IInv

LEMMA WriteStep ==
    ASSUME IInv, NEW e, NEW hours \in SUBSET HourStarts, NEW floorHour \in Nat,
           Committable(db, e, hours, floorHour), floorHour > 0 => hours = {},
           Write(e, hours, floorHour)
    PROVE  IInv'
<1>1. CommitInv'
  <2>1. CommitInv
    BY DEF IInv
  <2>2. /\ work' = e /\ drop' = hours /\ below' = floorHour /\ commit = "idle"
        /\ commit' = "started" /\ started' = started + 1
        /\ db' = db /\ prev' = prev /\ finished' = finished
    BY DEF Write
  <2>3. started' = finished' + 1
    BY <2>1, <2>2, Typed DEF CommitInv
  <2>4. Sound(db') /\ Sound(prev') /\ Sound(work')
    BY <2>1, <2>2 DEF CommitInv, Committable
  <2>5. /\ db'.mark <= work'.mark
        /\ \A h \in HourStarts : ClosedIn(db', h) =>
             work'.hours[h] = db'.hours[h] \/ h \in drop' \/ h < below'
    BY <2>2 DEF Committable
  <2> QED BY <2>2, <2>3, <2>4, <2>5 DEF CommitInv, ClosedIn
<1>2. UNCHANGED <<db, prev, cacheVars, rd>>
  BY DEF Write
<1>3. /\ work' \in Tables /\ commit' \in {"idle", "started", "landed", "finished"}
      /\ started' \in Nat /\ finished' \in Nat /\ finished <= finished'
      /\ drop' \in SUBSET HourStarts /\ below' \in Nat
  BY Typed DEF Write, Committable, Sound
<1>4. \A h \in HourStarts : PendingDrop(h)' <=> PendingDrop(h)
  BY DEF PendingDrop, Write
<1>5. \A s \in Nat : s <= started /\ (s = started => started = finished)
                       => s <= started' /\ s # started'
  BY Typed DEF Write
<1> QED BY <1>1, <1>2, <1>3, <1>4, <1>5, CommitStep

LEMMA TouchesHours ==
    ASSUME NEW d, NEW delta PROVE Touches(d, delta) \in SUBSET HourStarts
BY BucketFacts DEF Touches

LEMMA CommitPollResultsStep == ASSUME IInv, CommitPollResults PROVE IInv'
<1>1. PICK delta \in Deltas, end \in Ends :
        Write(rollClosedMinutes(upsertNodePairs(db, delta), end), Touches(db, delta), 0)
  BY DEF CommitPollResults
<1>2. delta \in [Buckets -> Nat] /\ delta \in Rows /\ end \in Nat /\ Sound(db)
  BY GraphReadAssumption DEF IInv, CommitInv, Rows
<1> DEFINE c == upsertNodePairs(db, delta)
           e == rollClosedMinutes(c, end)
<1>3. Sound(c) /\ c.mark = db.mark
  BY <1>2, UpsertSound
<1>4. Sound(e) /\ e.pair = c.pair /\ c.mark <= e.mark
  <2> HIDE DEF c
  <2> QED BY <1>2, <1>3, RollAllSound
<1> HIDE DEF e
<1>5. Committable(db, e, Touches(db, delta), 0)
  BY <1>2, <1>3, <1>4, UpsertCommittable
<1> QED BY <1>1, <1>5, TouchesHours, WriteStep DEF e

LEMMA CommitObjectIngestStep == ASSUME IInv, CommitObjectIngest PROVE IInv'
<1>1. PICK delta \in Deltas : Write(upsertNodePairs(db, delta), Touches(db, delta), 0)
  BY DEF CommitObjectIngest
<1>2. delta \in [Buckets -> Nat] /\ delta \in Rows /\ Sound(db) /\ db.mark \in Int
  BY GraphReadAssumption, Typed DEF IInv, CommitInv, Rows
<1> DEFINE e == upsertNodePairs(db, delta)
<1>3. Sound(e) /\ e.mark = db.mark
  BY <1>2, UpsertSound
<1>4. db.mark <= e.mark
  BY <1>2, <1>3
<1>5. Committable(db, e, Touches(db, delta), 0)
  BY <1>2, <1>3, <1>4, UpsertCommittable
<1> HIDE DEF e
<1> QED BY <1>1, <1>5, TouchesHours, WriteStep DEF e

LEMMA UpdatePollStateStep == ASSUME IInv, UpdatePollState PROVE IInv'
<1>1. PICK end \in Ends : Write(rollClosedMinutes(db, end), {}, 0)
  BY DEF UpdatePollState
<1>2. end \in Nat /\ Sound(db)
  BY GraphReadAssumption DEF IInv, CommitInv
<1>3. Committable(db, rollClosedMinutes(db, end), {}, 0)
  BY <1>2, RollAllSound, SameRowsCommittable
<1> QED BY <1>1, <1>3, WriteStep

LEMMA CleanupStep == ASSUME IInv, Cleanup PROVE IInv'
<1>1. PICK cutoff \in Cutoffs : Write(Expire(db, cutoff), {}, HourOf(cutoff) + hourSeconds)
  BY DEF Cleanup
<1>2. cutoff \in Nat /\ Sound(db)
  BY GraphReadAssumption DEF IInv, CommitInv
<1>3. HourOf(cutoff) + hourSeconds \in Nat
  BY <1>2, HourFacts DEF hourSeconds
<1>4. Committable(db, Expire(db, cutoff), {}, HourOf(cutoff) + hourSeconds)
  BY <1>2, ExpireCommittable
<1> QED BY <1>1, <1>3, <1>4, WriteStep

LEMMA CommitFailsStep == ASSUME IInv, CommitFails PROVE IInv'
<1>0. CommitInv /\ db \in Tables /\ started \in Nat /\ finished \in Nat
  BY Typed DEF IInv
<1>1. CommitInv'
  BY <1>0 DEF CommitInv, CommitFails, cacheVars
<1>2. UNCHANGED <<db, prev, cacheVars, rd>>
  BY DEF CommitFails
<1>3. /\ work' \in Tables /\ commit' \in {"idle", "started", "landed", "finished"}
      /\ started' \in Nat /\ finished' \in Nat /\ finished <= finished'
      /\ drop' \in SUBSET HourStarts /\ below' \in Nat
  BY <1>0 DEF CommitFails
<1>4. \A h \in HourStarts : PendingDrop(h)' <=> PendingDrop(h)
  BY DEF PendingDrop, CommitFails
<1>5. \A s \in Nat : s <= started /\ (s = started => started = finished)
                       => s <= started' /\ s # started'
  BY <1>0 DEF CommitFails, CommitInv
<1> QED BY <1>1, <1>2, <1>3, <1>4, <1>5, CommitStep

LEMMA CommitFinishesStep == ASSUME IInv, CommitFinishes PROVE IInv'
<1>0. CommitInv /\ started \in Nat /\ finished \in Nat
  BY Typed DEF IInv
<1>1. CommitInv'
  BY <1>0 DEF CommitInv, CommitFinishes, tableVars
<1>2. UNCHANGED <<db, prev, cacheVars, rd>>
  BY DEF CommitFinishes, tableVars
<1>3. /\ work' \in Tables /\ commit' \in {"idle", "started", "landed", "finished"}
      /\ started' \in Nat /\ finished' \in Nat /\ finished <= finished'
      /\ drop' \in SUBSET HourStarts /\ below' \in Nat
  BY Typed DEF CommitFinishes, tableVars
<1>4. \A h \in HourStarts : PendingDrop(h)' <=> PendingDrop(h)
  BY DEF PendingDrop, CommitFinishes
<1>5. \A s \in Nat : s <= started /\ (s = started => started = finished)
                       => s <= started' /\ s # started'
  BY <1>0 DEF CommitFinishes, CommitInv
<1> QED BY <1>1, <1>2, <1>3, <1>4, <1>5, CommitStep

------------------------------------------------------------------------------
(* A commit becomes visible                                                 *)

Seeing(me) == [me EXCEPT !.seen = @ \union {work}]

LEMMA SeeingFacts ==
    ASSUME NEW me \in ReaderRecords, work \in Tables
    PROVE  /\ Seeing(me) \in ReaderRecords
           /\ Seeing(me).seen = me.seen \union {work}
           /\ Seeing(me).at = me.at /\ Seeing(me).win = me.win /\ Seeing(me).fin = me.fin
           /\ Seeing(me).since = me.since /\ Seeing(me).par = me.par
           /\ Seeing(me).mark = me.mark /\ Seeing(me).plan = me.plan
           /\ Seeing(me).gets = me.gets /\ Seeing(me).todo = me.todo
           /\ Seeing(me).fill = me.fill /\ Seeing(me).sum = me.sum
BY DEF Seeing, ReaderRecords

\* Rows of a closed hour that were as committed are still fresh: either the
\* commit leaves the hour alone, or its writer has still to drop it.
LEMMA LandedFresh ==
    ASSUME IInv, CommitLands, NEW h \in HourStarts, ClosedIn(db, h), NEW rows, Fresh(rows, h)
    PROVE  ClosedIn(db', h) /\ Fresh(rows, h)'
<1>1. /\ commit = "started" /\ commit' = "landed" /\ prev' = db /\ db' = work
      /\ drop' = drop /\ below' = below
  BY DEF CommitLands
<1>2. /\ db.mark <= work.mark
      /\ work.hours[h] = db.hours[h] \/ h \in drop \/ h < below
  BY <1>1 DEF IInv, CommitInv
<1>3. rows = db.hours[h]
  BY <1>1 DEF Fresh, PendingDrop
<1>4. work.hours[h] = db.hours[h] \/ PendingDrop(h)'
  BY <1>1, <1>2 DEF PendingDrop
<1>5. ClosedIn(db', h)
  BY <1>1, <1>2, Typed, BucketFacts DEF ClosedIn, hourSeconds, minuteSeconds
<1>6. Fresh(rows, h)'
  BY <1>1, <1>3, <1>4 DEF Fresh, ClosedIn
<1> QED BY <1>5, <1>6

LEMMA LandsForReader ==
    ASSUME IInv, CommitLands, NEW me \in ReaderRecords, ReaderInv(me), me.at # "idle",
           NEW him, him = Seeing(me)
    PROVE  ReaderInv(him)'
<1> DEFINE you == Seeing(me)
<1>1. /\ commit = "started" /\ commit' = "landed" /\ prev' = db /\ db' = work
      /\ drop' = drop /\ below' = below /\ started' = started /\ finished' = finished
      /\ epoch' = epoch /\ touched' = touched /\ floor' = floor
  BY DEF CommitLands, cacheVars
<1>2. /\ work \in Tables /\ started \in Nat /\ finished \in Nat /\ started # finished
      /\ db.mark <= work.mark /\ db.mark \in Int /\ work.mark \in Int /\ Sound(work)
  BY <1>1, Typed DEF IInv, CommitInv
<1>3. /\ you.seen = me.seen \union {work}
      /\ you.at = me.at /\ you.win = me.win /\ you.fin = me.fin
      /\ you.since = me.since /\ you.par = me.par
      /\ you.mark = me.mark /\ you.plan = me.plan
      /\ you.gets = me.gets /\ you.todo = me.todo
      /\ you.fill = me.fill /\ you.sum = me.sum
      /\ me.mark \in Int
  BY <1>2, SeeingFacts DEF ReaderRecords
<1>5. him = you
  OBVIOUS
<1> HIDE DEF you
<1>6. SeenInv(him)'
  BY <1>1, <1>2, <1>3, <1>5 DEF ReaderInv, SeenInv
<1>7. SequenceInv(him)'
  BY <1>1, <1>2, <1>3, <1>5 DEF ReaderInv, SequenceInv
<1>8. me.at = "cache" => me.mark <= db.mark
  BY DEF ReaderInv, ReadingInv
<1>9. FillInv(him)'
  <2> SUFFICES ASSUME NEW h \in HourStarts, me.fill[h].at # "none"
               PROVE  /\ me.at = "cache" /\ me.gets = {} /\ <<"hour", h>> \in me.todo
                      /\ me.fill[h].epoch <= epoch
                      /\ me.fill[h].at = "rows" =>
                         /\ Fresh(me.fill[h].rows, h)' \/ touchedAt(h)' > me.fill[h].epoch
                         /\ \E v \in you.seen : ClosedIn(v, h) /\ me.fill[h].rows = v.hours[h]
    BY <1>1, <1>3, <1>5 DEF FillInv, ClosedIn
  <2>1. /\ me.at = "cache" /\ me.gets = {} /\ <<"hour", h>> \in me.todo
        /\ me.fill[h].epoch <= epoch
        /\ me.fill[h].at = "rows" =>
             /\ Fresh(me.fill[h].rows, h) \/ touchedAt(h) > me.fill[h].epoch
             /\ \E v \in me.seen : ClosedIn(v, h) /\ me.fill[h].rows = v.hours[h]
    BY DEF ReaderInv, FillInv
  <2>2. touchedAt(h)' = touchedAt(h)
    BY <1>1 DEF touchedAt
  <2>3. Whole(me, h)
    <3>1. Item(me, <<"hour", h>>)
      BY <2>1 DEF ReaderInv, ReadingInv
    <3> QED BY <3>1 DEF Item, HourItem, FillingItem, MinuteItem
  <2>4. ClosedIn(db, h)
    BY <1>2, <1>3, <1>8, <2>1, <2>3, BucketFacts DEF ClosedIn, Whole, hourSeconds, minuteSeconds
  <2>5. Fresh(me.fill[h].rows, h) => Fresh(me.fill[h].rows, h)'
    BY <2>4, LandedFresh
  <2> QED BY <1>3, <2>1, <2>2, <2>5
<1>10. ASSUME me.at = "cache" PROVE ReadingInv(him)'
  <2>1. ReadingInv(me)
    BY <1>10 DEF ReaderInv
  <2>2. me.par => ~Good(me) /\ ~Good(him)'
    BY <1>1, <1>2, <1>3, <1>5, <1>10 DEF ReaderInv, SequenceInv, Good
  <2>3. ~me.par => Good(me)
    BY DEF Good
  <2>4. ~me.par => Gathered(him)'
    BY <2>1, <2>3, <1>3, <1>5 DEF ReadingInv, Gathered, GatheredAt, Inside, ItemOf, ClosedPart,
                                  OpenPart, Direct, ByHour, Whole
  <2>5. Planned(him)' /\ him.mark <= db'.mark
    BY <2>1, <1>1, <1>2, <1>3, <1>5 DEF ReadingInv, Planned
  <2>6. \A s \in him.todo : Item(him, s)'
    BY <2>1, <1>3, <1>5 DEF ReadingInv, Item, HourItem, FillingItem, MinuteItem, Direct, Whole
  <2>7. \A h \in him.gets : <<"hour", h>> \in him.todo
    BY <2>1, <1>3, <1>5 DEF ReadingInv
  <2>8. ~me.par => OpenIsOne(him)'
    BY <2>1, <1>3, <1>5 DEF ReadingInv, OpenIsOne, OpenPart, Direct, ByHour, Whole
  <2> QED BY <2>2, <2>4, <2>5, <2>6, <2>7, <2>8, <1>3, <1>5 DEF ReadingInv
<1>11. ASSUME me.at = "done" PROVE AnswerInv(him)'
  <2>1. AnswerInv(me)
    BY <1>11 DEF ReaderInv
  <2> QED BY <2>1, <1>3, <1>5
          DEF AnswerInv, Planned, Inside, OpenIsOne, OpenPart, Direct, ByHour, Whole
<1> QED BY <1>3, <1>5, <1>6, <1>7, <1>9, <1>10, <1>11 DEF ReaderInv

LEMMA CommitLandsStep == ASSUME IInv, CommitLands PROVE IInv'
<1>1. /\ commit = "started" /\ commit' = "landed" /\ prev' = db /\ db' = work
      /\ work' = work /\ drop' = drop /\ below' = below
      /\ started' = started /\ finished' = finished
      /\ epoch' = epoch /\ entries' = entries /\ touched' = touched /\ floor' = floor
  BY DEF CommitLands, cacheVars
<1>2. ASSUME NEW r \in Readers PROVE rd[r] \in ReaderRecords /\ ReaderInv(rd[r])
  BY Typed DEF IInv
<1>3. rd' = [r \in Readers |-> IF rd[r].at = "idle" THEN rd[r] ELSE Seeing(rd[r])]
  BY DEF CommitLands, Seeing
<1>4. rd' \in [Readers -> ReaderRecords]
  <2>1. ASSUME NEW r \in Readers PROVE Seeing(rd[r]) \in ReaderRecords
    BY <1>2, SeeingFacts, Typed
  <2> QED BY <1>2, <1>3, <2>1
<1>5. Typing'
  <2>1. \A r \in Readers : rd'[r].at \in {"idle", "quiet", "plan", "cache", "done"}
    BY <1>4 DEF ReaderRecords
  <2>2. TypeOK
    BY DEF IInv, Typing
  <2> QED BY <1>1, <1>4, <2>1, <2>2 DEF Typing, TypeOK
<1>6. CommitInv'
  <2>1. CommitInv
    BY DEF IInv
  <2> QED BY <1>1, <2>1 DEF CommitInv
<1>7. CacheInv'
  <2>1. CacheInv
    BY DEF IInv
  <2>2. ASSUME NEW h \in HourStarts, entries[h] # NoEntry
        PROVE  ClosedIn(db', h) /\ Fresh(entries[h], h)'
    <3> DEFINE rows == entries[h]
    <3>1. ClosedIn(db, h) /\ Fresh(rows, h) /\ entries'[h] = rows
      BY <1>1, <2>1, <2>2 DEF CacheInv
    <3>2. \A x : x = rows => Fresh(x, h)
      BY <3>1
    <3>3. \A x : x = rows => ClosedIn(db', h) /\ Fresh(x, h)'
      <4> SUFFICES ASSUME NEW x, x = rows PROVE ClosedIn(db', h) /\ Fresh(x, h)'
        OBVIOUS
      <4> HIDE DEF rows
      <4> QED BY <3>1, <3>2, LandedFresh
    <3> QED BY <3>1, <3>3
  <2> QED BY <1>1, <2>1, <2>2 DEF CacheInv, ClosedIn
<1>8. ASSUME NEW r \in Readers PROVE ReaderInv(rd[r])'
  <2> DEFINE me == rd[r]
             him == IF me.at = "idle" THEN me ELSE Seeing(me)
  <2>1. rd'[r] = him
    BY <1>3
  <2>2. CASE me.at # "idle"
    <3> SUFFICES ASSUME NEW x, x = him PROVE ReaderInv(x)'
      BY <2>1
    <3>1. me \in ReaderRecords /\ ReaderInv(me) /\ x = Seeing(me)
      BY <1>2, <2>2
    <3> HIDE DEF me, him
    <3>2. PICK you : you = me
      OBVIOUS
    <3> QED BY <2>2, <3>1, <3>2, LandsForReader
  <2>3. CASE me.at = "idle"
    <3> SUFFICES ASSUME NEW x, x = me PROVE ReaderInv(x)'
      BY <2>1, <2>3
    <3>1. ReaderInv(x) /\ x.at = "idle"
      BY <1>2, <2>3
    <3> QED BY <3>1 DEF ReaderInv, SeenInv, SequenceInv, FillInv
  <2> QED BY <2>2, <2>3
<1> QED BY <1>5, <1>6, <1>7, <1>8 DEF IInv

------------------------------------------------------------------------------
(* The writer drops what its commit touched                                 *)

LEMMA TouchedAtNat ==
    ASSUME IInv, NEW h \in HourStarts PROVE touchedAt(h) \in Nat /\ touched[h] <= touchedAt(h)
BY Typed DEF touchedAt

\* A step after which every hour that was to drop counts as touched since
\* any fill under way, and no hour counts as touched earlier than it did.
LEMMA DropForReader ==
    ASSUME IInv, db' = db, prev' = db, commit' = "idle", started' = started,
           finished' = finished, epoch' \in Nat, epoch <= epoch',
           \A h \in HourStarts : touchedAt(h)' \in Nat /\ touchedAt(h) <= touchedAt(h)',
           \A h \in HourStarts : h \in drop \/ h < below => touchedAt(h)' > epoch,
           NEW me \in ReaderRecords, ReaderInv(me)
    PROVE  ReaderInv(me)'
<1>1. SeenInv(me)' /\ SequenceInv(me)'
  BY DEF ReaderInv, SeenInv, SequenceInv
<1>2. FillInv(me)'
  <2> SUFFICES ASSUME NEW h \in HourStarts, me.fill[h].at # "none"
               PROVE  /\ me.at = "cache" /\ me.gets = {} /\ <<"hour", h>> \in me.todo
                      /\ me.fill[h].epoch <= epoch'
                      /\ me.fill[h].at = "rows" =>
                           /\ Fresh(me.fill[h].rows, h)' \/ touchedAt(h)' > me.fill[h].epoch
                           /\ \E v \in me.seen : ClosedIn(v, h) /\ me.fill[h].rows = v.hours[h]
    BY DEF FillInv, ClosedIn
  <2>1. /\ me.at = "cache" /\ me.gets = {} /\ <<"hour", h>> \in me.todo
        /\ me.fill[h].epoch <= epoch
        /\ me.fill[h].at = "rows" =>
             /\ Fresh(me.fill[h].rows, h) \/ touchedAt(h) > me.fill[h].epoch
             /\ \E v \in me.seen : ClosedIn(v, h) /\ me.fill[h].rows = v.hours[h]
    BY DEF ReaderInv, FillInv
  <2>2. me.fill[h].epoch \in Nat /\ epoch \in Nat /\ touchedAt(h) \in Nat
    BY Typed, TouchedAtNat DEF ReaderRecords, Fills
  <2>3. Fresh(me.fill[h].rows, h) =>
          Fresh(me.fill[h].rows, h)' \/ touchedAt(h)' > me.fill[h].epoch
    BY <2>1, <2>2 DEF Fresh, PendingDrop
  <2>4. touchedAt(h) > me.fill[h].epoch => touchedAt(h)' > me.fill[h].epoch
    BY <2>2
  <2> QED BY <2>1, <2>2, <2>3, <2>4
<1>3. ASSUME me.at = "cache" PROVE ReadingInv(me)'
  BY <1>3 DEF ReaderInv, ReadingInv, Planned, Good, Gathered, GatheredAt, Inside, ItemOf,
              ClosedPart, OpenPart, OpenIsOne, Direct, ByHour, Whole, Item, HourItem,
              FillingItem, MinuteItem
<1>4. ASSUME me.at = "done" PROVE AnswerInv(me)'
  <2>1. AnswerInv(me)
    BY <1>4 DEF ReaderInv
  <2> QED BY <2>1 DEF AnswerInv, Planned, Inside, OpenIsOne, OpenPart, Direct, ByHour, Whole
<1> QED BY <1>1, <1>2, <1>3, <1>4 DEF ReaderInv

\* The cache after such a step: what is left was there, and was not to drop.
LEMMA DropStep ==
    ASSUME IInv, db' = db, prev' = db, work' = work, commit' = "idle", started' = started,
           finished' = finished, commit = "finished", drop' = {}, below' = 0, rd' = rd,
           epoch' \in Nat, epoch <= epoch', touched' \in [HourStarts -> Nat],
           floor' \in [below : Nat, epoch : Nat], floor'.epoch <= epoch',
           \A h \in HourStarts : touched'[h] <= epoch',
           \A h \in HourStarts : touchedAt(h)' \in Nat /\ touchedAt(h) <= touchedAt(h)',
           \A h \in HourStarts : h \in drop \/ h < below => touchedAt(h)' > epoch,
           \A h \in HourStarts : entries'[h] # NoEntry =>
              entries'[h] = entries[h] /\ h \notin drop /\ ~(h < below)
    PROVE  IInv'
<1>1. Typing'
  <2>1. TypeOK
    BY DEF IInv, Typing
  <2>2. \A h \in HourStarts : entries'[h] = NoEntry \/ entries'[h] \in [Buckets -> Nat]
    BY <2>1 DEF TypeOK
  <2>3. Cardinality({h \in HourStarts : entries'[h] # NoEntry}) <= Budget
    <3> DEFINE A == {h \in HourStarts : entries'[h] # NoEntry}
               B == {h \in HourStarts : entries[h] # NoEntry}
    <3>1. A \subseteq B
      OBVIOUS
    <3>2. IsFiniteSet(B) /\ IsFiniteSet(A)
      BY HoursFinite, FS_Subset
    <3>3. Cardinality(B) <= Budget
      BY <2>1 DEF TypeOK
    <3> HIDE DEF A, B
    <3>4. Cardinality(A) <= Cardinality(B)
      BY <3>1, <3>2, FS_Subset
    <3>5. Cardinality(A) \in Nat /\ Cardinality(B) \in Nat
      BY <3>2, FS_CardinalityType
    <3>6. Cardinality(A) <= Budget
      BY <3>3, <3>4, <3>5, GraphReadAssumption
    <3> QED BY <3>6 DEF A
  <2>4. \A r \in Readers : rd'[r].at \in {"idle", "quiet", "plan", "cache", "done"}
    BY <2>1 DEF TypeOK
  <2> QED BY <2>1, <2>2, <2>3, <2>4, Typed DEF Typing, TypeOK
<1>2. CommitInv'
  BY DEF IInv, CommitInv
<1>3. CacheInv'
  <2>1. CacheInv
    BY DEF IInv
  <2>2. ASSUME NEW h \in HourStarts, entries'[h] # NoEntry
        PROVE  ClosedIn(db', h) /\ entries'[h] = db'.hours[h]
    BY <2>1, <2>2 DEF CacheInv, Fresh, PendingDrop
  <2> QED BY <2>1, <2>2 DEF CacheInv, Fresh, ClosedIn
<1>4. ASSUME NEW r \in Readers PROVE ReaderInv(rd[r])'
  <2> SUFFICES ASSUME NEW x, x = rd[r] PROVE ReaderInv(x)'
    OBVIOUS
  <2>1. x \in ReaderRecords /\ ReaderInv(x)
    BY Typed DEF IInv
  <2> QED BY <2>1, DropForReader
<1> QED BY <1>1, <1>2, <1>3, <1>4 DEF IInv

LEMMA InvalidateStep == ASSUME IInv, Invalidate PROVE IInv'
<1>1. /\ commit = "finished" /\ below = 0 /\ commit' = "idle" /\ drop' = {} /\ prev' = db
      /\ db' = db /\ work' = work /\ started' = started /\ finished' = finished
      /\ below' = 0 /\ rd' = rd
  BY DEF Invalidate
<1>2. /\ epoch \in Nat /\ touched \in [HourStarts -> Nat] /\ floor \in [below : Nat, epoch : Nat]
      /\ floor.epoch <= epoch /\ \A h \in HourStarts : touched[h] <= epoch
      /\ \A h \in HourStarts : touchedAt(h) \in Nat
  BY Typed, TouchedAtNat DEF IInv, CacheInv
<1>3. \A h \in HourStarts : ~(h < below)
  BY <1>1, BucketFacts
<1>4. CASE drop = {}
  <2>1. UNCHANGED cacheVars
    BY <1>4 DEF Invalidate
  <2>2. \A h \in HourStarts : touchedAt(h)' = touchedAt(h)
    BY <2>1 DEF touchedAt, cacheVars
  <2> QED BY <1>1, <1>2, <1>3, <1>4, <2>1, <2>2, DropStep DEF cacheVars
<1>5. CASE drop # {}
  <2>1. /\ epoch' = epoch + 1 /\ floor' = floor
        /\ touched' = [h \in HourStarts |-> IF h \in drop THEN epoch + 1 ELSE touched[h]]
        /\ entries' = [h \in HourStarts |-> IF h \in drop THEN NoEntry ELSE entries[h]]
    BY <1>5 DEF Invalidate
  <2>2. ASSUME NEW h \in HourStarts
        PROVE  /\ touchedAt(h)' \in Nat /\ touchedAt(h) <= touchedAt(h)'
               /\ h \in drop => touchedAt(h)' > epoch
               /\ touched'[h] <= epoch'
               /\ entries'[h] # NoEntry => entries'[h] = entries[h] /\ h \notin drop
    BY <1>2, <2>1 DEF touchedAt
  <2>3. /\ epoch' \in Nat /\ epoch <= epoch' /\ touched' \in [HourStarts -> Nat]
        /\ floor' \in [below : Nat, epoch : Nat] /\ floor'.epoch <= epoch'
    BY <1>2, <2>1
  <2> QED BY <1>1, <1>3, <2>2, <2>3, DropStep
<1> QED BY <1>4, <1>5

LEMMA InvalidateBelowStep == ASSUME IInv, InvalidateBelow PROVE IInv'
<1> DEFINE new == Later(floor.below, below)
<1>1. /\ commit = "finished" /\ below > 0 /\ commit' = "idle" /\ below' = 0 /\ prev' = db
      /\ db' = db /\ work' = work /\ started' = started /\ finished' = finished
      /\ drop' = drop /\ rd' = rd
      /\ epoch' = epoch + 1
      /\ floor' = [below |-> new, epoch |-> epoch + 1]
      /\ entries' = [h \in HourStarts |-> IF h < new THEN NoEntry ELSE entries[h]]
      /\ touched' = [h \in HourStarts |-> IF h < new THEN 0 ELSE touched[h]]
  BY DEF InvalidateBelow
<1>2. /\ epoch \in Nat /\ touched \in [HourStarts -> Nat] /\ floor \in [below : Nat, epoch : Nat]
      /\ floor.epoch <= epoch /\ \A h \in HourStarts : touched[h] <= epoch
      /\ \A h \in HourStarts : touchedAt(h) \in Nat
      /\ below \in Nat /\ drop = {}
  BY <1>1, Typed, TouchedAtNat DEF IInv, CacheInv, CommitInv
<1>3. new \in Nat /\ floor.below <= new /\ below <= new
  BY <1>2 DEF Later
<1> HIDE DEF new
<1>4. ASSUME NEW h \in HourStarts
      PROVE  /\ touchedAt(h)' \in Nat /\ touchedAt(h) <= touchedAt(h)'
             /\ h < below => touchedAt(h)' > epoch
             /\ touched'[h] <= epoch'
             /\ entries'[h] # NoEntry => entries'[h] = entries[h] /\ ~(h < below)
  <2>1. h \in Nat
    BY BucketFacts
  <2>2. touched'[h] = (IF h < new THEN 0 ELSE touched[h]) /\ floor'.below = new
        /\ floor'.epoch = epoch + 1
    BY <1>1
  <2>3. touchedAt(h)' = IF h < new THEN epoch + 1 ELSE touched[h]
    BY <1>2, <1>3, <2>1, <2>2 DEF touchedAt
  <2>4. touchedAt(h) <= touchedAt(h)'
    BY <1>2, <1>3, <2>1, <2>3 DEF touchedAt
  <2> QED BY <1>1, <1>2, <1>3, <2>1, <2>2, <2>3, <2>4
<1>5. /\ epoch' \in Nat /\ epoch <= epoch' /\ touched' \in [HourStarts -> Nat]
      /\ floor' \in [below : Nat, epoch : Nat] /\ floor'.epoch <= epoch'
  BY <1>1, <1>2, <1>3
<1> QED BY <1>1, <1>2, <1>4, <1>5, DropStep

------------------------------------------------------------------------------
(* A reader takes a step                                                    *)

\* Readers do not disturb each other.
LEMMA ReaderKept ==
    ASSUME UNCHANGED <<tableVars, commitVars>>, epoch' = epoch, touched' = touched,
           floor' = floor, NEW me
    PROVE  ReaderInv(me)' <=> ReaderInv(me)
<1>1. /\ db' = db /\ prev' = prev /\ commit' = commit /\ started' = started
      /\ finished' = finished /\ drop' = drop /\ below' = below
  BY DEF tableVars, commitVars
<1>2. \A h \in HourStarts : \A rows : Fresh(rows, h)' <=> Fresh(rows, h)
  BY <1>1, FreshKept DEF PendingDrop
<1>3. \A h \in HourStarts : touchedAt(h)' = touchedAt(h)
  BY DEF touchedAt
<1>4. FillInv(me)' <=> FillInv(me)
  BY <1>2, <1>3 DEF FillInv, ClosedIn
<1>5. (SeenInv(me)' <=> SeenInv(me)) /\ (SequenceInv(me)' <=> SequenceInv(me))
  BY <1>1 DEF SeenInv, SequenceInv
<1>6. ReadingInv(me)' <=> ReadingInv(me)
  BY <1>1 DEF ReadingInv, Planned, Good, Gathered, GatheredAt, Inside, ItemOf,
              ClosedPart, OpenPart, OpenIsOne, Direct, ByHour, Whole, Item, HourItem,
              FillingItem, MinuteItem
<1>7. AnswerInv(me)' <=> AnswerInv(me)
  BY DEF AnswerInv, Planned, Inside, OpenIsOne, OpenPart, Direct, ByHour, Whole
<1> QED BY <1>4, <1>5, <1>6, <1>7 DEF ReaderInv

LEMMA GotoStep ==
    ASSUME IInv, NEW r \in Readers, NEW rec \in ReaderRecords, ReaderInv(rec), Goto(r, rec),
           epoch' = epoch, touched' = touched, floor' = floor,
           \A h \in HourStarts : entries'[h] # NoEntry =>
              entries'[h] \in Rows /\ ClosedIn(db, h) /\ Fresh(entries'[h], h),
           Cardinality({h \in HourStarts : entries'[h] # NoEntry}) <= Budget
    PROVE  IInv'
<1>1. /\ UNCHANGED <<tableVars, commitVars>>
      /\ db' = db /\ prev' = prev /\ work' = work /\ commit' = commit /\ started' = started
      /\ finished' = finished /\ drop' = drop /\ below' = below
  BY DEF Goto, tableVars, commitVars
<1>2. rd \in [Readers -> ReaderRecords] /\ rd' = [rd EXCEPT ![r] = rec]
  BY Typed DEF Goto
<1>3. rd' \in [Readers -> ReaderRecords]
  BY <1>2
<1>4. Typing'
  <2>1. TypeOK
    BY DEF IInv, Typing
  <2>2. \A q \in Readers : rd'[q].at \in {"idle", "quiet", "plan", "cache", "done"}
    BY <1>3 DEF ReaderRecords
  <2> QED BY <1>1, <1>3, <2>1, <2>2 DEF Typing, TypeOK, Rows
<1>5. CommitInv'
  BY <1>1 DEF IInv, CommitInv
<1>6. CacheInv'
  <2>1. CacheInv
    BY DEF IInv
  <2>2. \A h \in HourStarts : \A rows : Fresh(rows, h)' <=> Fresh(rows, h)
    BY <1>1, FreshKept DEF PendingDrop
  <2> QED BY <1>1, <2>1, <2>2 DEF CacheInv, ClosedIn
<1>7. ASSUME NEW q \in Readers PROVE ReaderInv(rd[q])'
  <2> SUFFICES ASSUME NEW x, x = rd'[q] PROVE ReaderInv(x)'
    OBVIOUS
  <2>1. x = rec \/ x = rd[q]
    BY <1>2
  <2>2. ReaderInv(x)
    BY <2>1 DEF IInv
  <2> QED BY <1>1, <2>2, ReaderKept
<1> QED BY <1>4, <1>5, <1>6, <1>7 DEF IInv

\* A step of a reader that leaves the cache alone.
LEMMA StepStep ==
    ASSUME IInv, NEW r \in Readers, NEW rec \in ReaderRecords, ReaderInv(rec), Step(r, rec)
    PROVE  IInv'
<1>1. /\ Goto(r, rec) /\ epoch' = epoch /\ touched' = touched /\ floor' = floor
      /\ entries' = entries
  BY DEF Step, cacheVars
<1>2. Cardinality({h \in HourStarts : entries'[h] # NoEntry}) <= Budget
  BY <1>1 DEF IInv, Typing, TypeOK
<1>3. \A h \in HourStarts : entries'[h] # NoEntry =>
        entries'[h] \in Rows /\ ClosedIn(db, h) /\ Fresh(entries'[h], h)
  BY <1>1 DEF IInv, Typing, TypeOK, CacheInv, Rows
<1> QED BY <1>1, <1>2, <1>3, GotoStep

LEMMA ReaderFacts ==
    ASSUME IInv, NEW r \in Readers
    PROVE  /\ rd[r] \in ReaderRecords /\ ReaderInv(rd[r])
           /\ Sound(db) /\ Sound(prev) /\ db \in Tables /\ prev \in Tables
BY Typed DEF IInv, CommitInv

\* A reader with no fill under way has nothing to show of one.
LEMMA NoFills ==
    ASSUME NEW me, \A h \in HourStarts : me.fill[h].at = "none" PROVE FillInv(me)
BY DEF FillInv

LEMMA ReadBeginsStep == ASSUME IInv, NEW r \in Readers, ReadBegins(r) PROVE IInv'
<1>1. PICK win \in Windows :
        Step(r, [IdleReader EXCEPT !.at = "quiet", !.win = win, !.fin = finished,
                                   !.seen = {db} \union Unacknowledged])
  BY DEF ReadBegins
<1> DEFINE rec == [IdleReader EXCEPT !.at = "quiet", !.win = win, !.fin = finished,
                                     !.seen = {db} \union Unacknowledged]
<1>2. /\ win \in Nat \X Nat /\ finished \in Nat /\ Sound(db) /\ Sound(prev)
      /\ {db} \union Unacknowledged = {db, prev} /\ {db, prev} \in SUBSET Tables
  BY GraphReadAssumption, Typed, ReaderFacts DEF Unacknowledged
<1>3. /\ rec \in ReaderRecords /\ rec.at = "quiet" /\ rec.fin = finished
      /\ rec.seen = {db, prev} /\ \A h \in HourStarts : rec.fill[h].at = "none"
  <2>1. \A h \in HourStarts : IdleReader.fill[h].at = "none"
    BY DEF IdleReader, NoFill
  <2> QED BY <1>2, <2>1, IdleFacts DEF ReaderRecords
<1> HIDE DEF rec
<1>4. ReaderInv(rec)
  BY <1>2, <1>3, NoFills DEF ReaderInv, SeenInv, SequenceInv
<1> QED BY <1>1, <1>3, <1>4, StepStep DEF rec

LEMMA ReadStartedStep == ASSUME IInv, NEW r \in Readers, ReadStarted(r) PROVE IInv'
<1> DEFINE me == rd[r]
           par == started = me.fin /\ ~me.again
           rec == [me EXCEPT !.at = "plan", !.par = par, !.fin = 0,
                             !.since = IF par THEN started ELSE 0]
<1>1. Step(r, rec) /\ me.at = "quiet"
  BY DEF ReadStarted
<1>2. /\ me \in ReaderRecords /\ ReaderInv(me) /\ started \in Nat /\ finished \in Nat
      /\ finished <= started
  BY Typed, ReaderFacts DEF IInv, CommitInv
<1>3. par \in BOOLEAN
  OBVIOUS
<1>4. par => started = finished
  BY <1>1, <1>2 DEF ReaderInv, SequenceInv, ReaderRecords
<1> HIDE DEF par
<1>5. /\ rec \in ReaderRecords /\ rec.at = "plan" /\ rec.par = par /\ rec.seen = me.seen
      /\ rec.fill = me.fill /\ rec.since = IF par THEN started ELSE 0
  <2> HIDE DEF me
  <2> QED BY <1>2, <1>3 DEF ReaderRecords
<1>6. \A h \in HourStarts : rec.fill[h].at = "none"
  BY <1>1, <1>2, <1>5 DEF ReaderInv, FillInv
<1> HIDE DEF rec
<1>7. ReaderInv(rec)
  BY <1>1, <1>2, <1>4, <1>5, <1>6, NoFills DEF ReaderInv, SeenInv, SequenceInv
<1> QED BY <1>1, <1>5, <1>7, StepStep

LEMMA IdleStep == ASSUME IInv, NEW r \in Readers, Step(r, IdleReader) PROVE IInv'
BY IdleFacts, StepStep

LEMMA ReadAgainStep == ASSUME IInv, NEW r \in Readers, ReadAgain(r) PROVE IInv'
<1> DEFINE rec == [IdleReader EXCEPT !.at = "quiet", !.win = rd[r].win, !.again = TRUE,
                                     !.fin = finished, !.seen = rd[r].seen]
<1>1. Step(r, rec) /\ rd[r].at = "cache"
  BY DEF ReadAgain, AllRead
<1>2. rd[r] \in ReaderRecords /\ ReaderInv(rd[r]) /\ finished \in Nat
  BY Typed, ReaderFacts
<1>3. /\ rec \in ReaderRecords /\ rec.at = "quiet" /\ rec.fin = finished
      /\ rec.seen = rd[r].seen /\ \A h \in HourStarts : rec.fill[h].at = "none"
  <2>1. \A h \in HourStarts : IdleReader.fill[h].at = "none"
    BY DEF IdleReader, NoFill
  <2> QED BY <1>2, <2>1, IdleFacts DEF ReaderRecords
<1> HIDE DEF rec
<1>4. ReaderInv(rec)
  BY <1>1, <1>2, <1>3, NoFills DEF ReaderInv, SeenInv, SequenceInv
<1> QED BY <1>1, <1>3, <1>4, StepStep

------------------------------------------------------------------------------
(* A reader plans                                                           *)

LEMMA SpanOfType ==
    \A x, y \in Nat : SpanOf(x, y) \in Spans
BY DEF SpanOf, Spans

LEMMA PlannedType ==
    ASSUME NEW mark, MarkOK(mark), NEW start \in Nat, NEW end \in Nat
    PROVE  planHoursThroughMark(start, end, mark) \in Plans
<1> DEFINE p == planHoursThroughMark(start, end, mark)
           plan == planHours(start, end, mark)
           until == mark + minuteSeconds
           filling == HourOf(until)
           hs == IF plan.hours = {} THEN filling ELSE (CHOOSE s \in plan.hours : TRUE)[1]
           he == HourOf(Smaller(end, RolledUntil(mark)))
           Stays == mark < 0 \/ until % hourSeconds = 0 \/ end < until \/ filling < start
<1>1. he \in Nat /\ HourFrom(start) \in Nat
  BY HourFromFacts DEF HourOf, Smaller, RolledUntil, MarkOK, NoMark, hourSeconds, minuteSeconds
<1>2. plan \in Plans
  <2> HIDE DEF he
  <2>1. plan = IF start >= end THEN [minutes |-> {}, hours |-> {}]
               ELSE IF HourFrom(start) >= he \/ he <= start \/ HourFrom(start) >= end
                 THEN [minutes |-> {<<start, end>>}, hours |-> {}]
               ELSE [minutes |-> SpanOf(start, HourFrom(start)) \union SpanOf(he, end),
                     hours |-> {<<HourFrom(start), he>>}]
    BY DEF planHours, he
  <2>2. /\ SpanOf(start, HourFrom(start)) \in Spans /\ SpanOf(he, end) \in Spans
        /\ {<<start, end>>} \in Spans /\ {<<HourFrom(start), he>>} \in Spans /\ {} \in Spans
    BY <1>1, SpanOfType DEF Spans
  <2>3. SpanOf(start, HourFrom(start)) \union SpanOf(he, end) \in Spans
    BY <2>2 DEF Spans
  <2> HIDE DEF plan
  <2> QED BY <2>1, <2>2, <2>3 DEF Plans
<1>3. CASE Stays
  <2>1. p = plan
    BY <1>3 DEF planHoursThroughMark
  <2> QED BY <1>2, <2>1
<1>4. CASE ~Stays
  <2>1. p = [minutes |-> SpanOf(start, hs) \union SpanOf(until, end), hours |-> {<<hs, until>>}]
    BY <1>4 DEF planHoursThroughMark
  <2>2. until \in Nat /\ filling \in Nat
    BY <1>4 DEF MarkOK, NoMark, HourOf, hourSeconds, minuteSeconds
  <2> HIDE DEF plan, filling, until
  <2>3. hs \in Nat
    <3>1. CASE plan.hours = {}
      BY <2>2, <3>1
    <3>2. CASE plan.hours # {}
      <4>1. (CHOOSE s \in plan.hours : TRUE) \in plan.hours
        BY <3>2
      <4>2. plan.hours \in Spans
        BY <1>2 DEF Plans
      <4> QED BY <3>2, <4>1, <4>2 DEF Spans
    <3> QED BY <3>1, <3>2
  <2> HIDE DEF hs, p
  <2>4. SpanOf(start, hs) \in Spans /\ SpanOf(until, end) \in Spans /\ {<<hs, until>>} \in Spans
    BY <2>2, <2>3, SpanOfType DEF Spans
  <2>5. SpanOf(start, hs) \union SpanOf(until, end) \in Spans
    BY <2>4 DEF Spans
  <2> QED BY <2>1, <2>4, <2>5 DEF Plans, p
<1> QED BY <1>3, <1>4

\* Every minute of the window is planned once, and no other minute is.
LEMMA PlanFacts ==
    ASSUME NEW me \in ReaderRecords, Planned(me), NEW m \in Buckets
    PROVE  /\ ~(Direct(me, m) /\ ByHour(me, m))
           /\ Direct(me, m) \/ ByHour(me, m) <=> Inside(me, m)
           /\ Direct(me, m) \in BOOLEAN /\ ByHour(me, m) \in BOOLEAN
<1>1. me.win[1] \in Nat /\ me.win[2] \in Nat
  BY DEF ReaderRecords
<1>2. Exact(me.plan, me.win[1], me.win[2], me.mark)
  BY <1>1, PlanThroughMarkExact DEF Planned
<1> QED BY <1>2 DEF Exact, Direct, ByHour, Inside, Holds, HoldsHour

\* A minute of a planned whole hour is planned through it.
LEMMA WholeHourMinutes ==
    ASSUME NEW me \in ReaderRecords, Planned(me), NEW h \in HourStarts,
           Holds(me.plan.hours, h), Whole(me, h), NEW m \in Buckets, HourOf(m) = h
    PROVE  ByHour(me, m) /\ ~Direct(me, m) /\ Whole(me, HourOf(m)) /\ Inside(me, m)
<1>1. /\ m \in Nat /\ m % minuteSeconds = 0 /\ h \in Nat /\ h <= m /\ m < h + hourSeconds
  BY BucketFacts, HourFacts
<1>2. m <= me.mark
  <2>1. me.mark \in Nat /\ me.mark % minuteSeconds = 0
    BY <1>1 DEF Planned, MarkOK, NoMark, Whole, hourSeconds, minuteSeconds
  <2> QED BY <1>1, <2>1 DEF Whole, hourSeconds, minuteSeconds
<1>3. ByHour(me, m)
  BY <1>2 DEF ByHour, HoldsHour
<1> QED BY <1>3, PlanFacts

\* The state a read is in once it has planned, on the tables as committed.
PlanRead(me) ==
    LET plan  == planHoursThroughMark(me.win[1], me.win[2], db.mark)
        hours == splitClosedHours(plan.hours, db.mark)
        mins  == splitClosedMinutes(plan.minutes, db.mark)
        closedHours == {h \in HourStarts : Holds(hours.closed, h) /\ db.hours[h] # NoBytes}
        Closed == {<<"hour", h>> : h \in closedHours}
            \union {<<"minute", m>> : m \in {b \in Buckets : Holds(mins.closed, b)}}
        Open == {<<"filling", h>> : h \in {x \in HourStarts : Holds(hours.open, x)}}
            \union {<<"minute", m>> : m \in {b \in Buckets : Between(db.pair, mins.open, b)}}
    IN  [me EXCEPT
           !.at = "cache", !.mark = db.mark, !.plan = plan,
           !.gets = closedHours,
           !.todo = IF me.par THEN Closed \union Open ELSE Closed,
           !.sum = IF me.par THEN NoBytes
                   ELSE RowsOf([minutes |-> mins.open, hours |-> hours.open], db)]

LEMMA RowsOfType ==
    ASSUME NEW d, Sound(d), NEW plan PROVE RowsOf(plan, d) \in Rows
<1>1. ASSUME NEW m \in Buckets PROVE RowsOf(plan, d)[m] \in Nat
  <2>1. d.pair[m] \in Nat
    BY DEF Sound, Tables
  <2> QED BY <2>1, RowsOfSound
<1> QED BY <1>1 DEF RowsOf, Rows

LEMMA SplitMinutesType ==
    ASSUME NEW mark \in Int, NEW spans \in SUBSET (Nat \X Nat)
    PROVE  splitClosedMinutes(spans, mark).open \in SUBSET (Int \X Int)
<1> DEFINE Cut(s) == Smaller(s[2], mark + minuteSeconds)
           From(s) == IF Cut(s) > s[1] THEN Cut(s) ELSE s[1]
<1>1. ASSUME NEW s \in spans PROVE SpanOf(From(s), s[2]) \in SUBSET (Int \X Int)
  <2>1. s[1] \in Int /\ s[2] \in Int
    OBVIOUS
  <2>2. From(s) \in Int
    BY <2>1 DEF Smaller, minuteSeconds
  <2> HIDE DEF From
  <2> QED BY <2>1, <2>2 DEF SpanOf
<1>2. splitClosedMinutes(spans, mark).open =
        IF mark < 0 THEN spans ELSE UNION {SpanOf(From(s), s[2]) : s \in spans}
  BY DEF splitClosedMinutes
<1> HIDE DEF From
<1>3. UNION {SpanOf(From(s), s[2]) : s \in spans} \in SUBSET (Int \X Int)
  BY <1>1
<1> QED BY <1>2, <1>3

LEMMA PlanReadFacts ==
    ASSUME Sound(db), NEW me \in ReaderRecords, NEW rec, rec = PlanRead(me)
    PROVE  /\ rec \in ReaderRecords /\ Planned(rec)
           /\ rec.at = "cache" /\ rec.mark = db.mark
           /\ rec.win = me.win /\ rec.par = me.par /\ rec.since = me.since
           /\ rec.fill = me.fill /\ rec.seen = me.seen
           /\ rec.gets = {h \in HourStarts : /\ Holds(rec.plan.hours, h) /\ Whole(rec, h)
                                             /\ db.hours[h] # NoBytes}
           /\ \A h \in HourStarts :
                /\ <<"hour", h>> \in rec.todo <=> h \in rec.gets
                /\ <<"filling", h>> \in rec.todo <=>
                     rec.par /\ Holds(rec.plan.hours, h) /\ ~Whole(rec, h)
           /\ \A m \in Buckets :
                /\ <<"minute", m>> \in rec.todo /\ m > rec.mark => Direct(rec, m) /\ rec.par
                /\ Direct(rec, m) /\ m > rec.mark /\ rec.par /\ db.pair[m] > 0
                     => <<"minute", m>> \in rec.todo
                /\ m <= rec.mark => (<<"minute", m>> \in rec.todo <=> Direct(rec, m))
                /\ rec.sum[m] = IF ~rec.par /\ OpenPart(rec, m) THEN db.pair[m] ELSE 0
           /\ \A s \in rec.todo : \/ \E h \in HourStarts : s = <<"hour", h>> \/ s = <<"filling", h>>
                                  \/ \E m \in Buckets : s = <<"minute", m>>
<1> DEFINE plan  == planHoursThroughMark(me.win[1], me.win[2], db.mark)
           hours == splitClosedHours(plan.hours, db.mark)
           mins  == splitClosedMinutes(plan.minutes, db.mark)
           closedHours == {h \in HourStarts : Holds(hours.closed, h) /\ db.hours[h] # NoBytes}
           Closed == {<<"hour", h>> : h \in closedHours}
               \union {<<"minute", m>> : m \in {b \in Buckets : Holds(mins.closed, b)}}
           Open == {<<"filling", h>> : h \in {x \in HourStarts : Holds(hours.open, x)}}
               \union {<<"minute", m>> : m \in {b \in Buckets : Between(db.pair, mins.open, b)}}
           todo == IF me.par THEN Closed \union Open ELSE Closed
           openPlan == [minutes |-> mins.open, hours |-> hours.open]
           sum == IF me.par THEN NoBytes ELSE RowsOf(openPlan, db)
<1>1. /\ MarkOK(db.mark) /\ me.win[1] \in Nat /\ me.win[2] \in Nat /\ db.mark \in Int
      /\ me.par \in BOOLEAN
  BY DEF Sound, Aligned, Tables, ReaderRecords
<1>2. plan \in Plans
  BY <1>1, PlannedType
<1>3. closedHours \in SUBSET HourStarts
  OBVIOUS
<1>4. sum \in Rows
  <2>1. NoBytes \in Rows
    BY DEF NoBytes, Rows
  <2>2. RowsOf(openPlan, db) \in Rows
    BY RowsOfType
  <2> HIDE DEF openPlan
  <2> QED BY <2>1, <2>2
<1>5. todo \in SUBSET Items
  <2>1. \A h \in HourStarts : <<"hour", h>> \in Items /\ <<"filling", h>> \in Items
    BY BucketFacts DEF Items
  <2>2. \A m \in Buckets : <<"minute", m>> \in Items
    BY BucketFacts DEF Items
  <2> HIDE DEF hours, mins
  <2> QED BY <2>1, <2>2
<1>6. ASSUME NEW h \in HourStarts
      PROVE  /\ Holds(hours.closed, h) <=>
                  Holds(plan.hours, h) /\ h + hourSeconds <= db.mark + minuteSeconds
             /\ Holds(hours.open, h) <=>
                  Holds(plan.hours, h) /\ ~(h + hourSeconds <= db.mark + minuteSeconds)
  BY <1>1, SplitHoursExact
<1>7. ASSUME NEW m \in Buckets
      PROVE  /\ Holds(mins.closed, m) <=> Holds(plan.minutes, m) /\ m <= db.mark
             /\ Holds(mins.open, m) <=> Holds(plan.minutes, m) /\ m > db.mark
  <2>1. plan.minutes \in SUBSET (Nat \X Nat)
    BY <1>2 DEF Plans, Spans
  <2> HIDE DEF plan
  <2> QED BY <1>1, <2>1, SplitMinutesExact
<1>8. ASSUME NEW m \in Buckets
      PROVE  /\ Between(db.pair, mins.open, m) => Holds(mins.open, m)
             /\ db.pair[m] > 0 /\ Holds(mins.open, m) => Between(db.pair, mins.open, m)
  <2>1. plan.minutes \in SUBSET (Nat \X Nat)
    BY <1>2 DEF Plans, Spans
  <2> HIDE DEF plan
  <2>2. mins.open \in SUBSET (Int \X Int)
    BY <1>1, <2>1, SplitMinutesType
  <2>3. m \in Int /\ Buckets \subseteq Int
    BY BucketFacts
  <2> HIDE DEF mins
  <2> DEFINE open == mins.open
  <2>4. open \in SUBSET (Int \X Int)
    BY <2>2
  <2> HIDE DEF open
  <2>5. Between(db.pair, open, m) => Holds(open, m)
    BY <2>3, <2>4 DEF Between, Holds
  <2>6. db.pair[m] > 0 /\ Holds(open, m) => Between(db.pair, open, m)
    BY <2>3, <2>4 DEF Between, Holds
  <2> QED BY <2>5, <2>6 DEF open
<1>9. rec = [me EXCEPT !.at = "cache", !.mark = db.mark, !.plan = plan, !.gets = closedHours,
                       !.todo = todo, !.sum = sum]
  BY DEF PlanRead
<1>10. /\ \A h \in HourStarts :
            /\ <<"hour", h>> \in todo <=> h \in closedHours
            /\ <<"filling", h>> \in todo <=> me.par /\ Holds(hours.open, h)
       /\ \A m \in Buckets : <<"minute", m>> \in todo <=>
            Holds(mins.closed, m) \/ (me.par /\ Between(db.pair, mins.open, m))
       /\ \A s \in todo : \/ \E h \in HourStarts : s = <<"hour", h>> \/ s = <<"filling", h>>
                         \/ \E m \in Buckets : s = <<"minute", m>>
  <2> HIDE DEF hours, mins
  <2>1. \A h \in HourStarts : <<"hour", h>> \in todo <=> h \in closedHours
    OBVIOUS
  <2>2. \A h \in HourStarts : <<"filling", h>> \in todo <=> me.par /\ Holds(hours.open, h)
    OBVIOUS
  <2>3. \A m \in Buckets : <<"minute", m>> \in todo <=>
            Holds(mins.closed, m) \/ (me.par /\ Between(db.pair, mins.open, m))
    OBVIOUS
  <2>4. \A s \in todo : \/ \E h \in HourStarts : s = <<"hour", h>> \/ s = <<"filling", h>>
                      \/ \E m \in Buckets : s = <<"minute", m>>
    OBVIOUS
  <2> QED BY <2>1, <2>2, <2>3, <2>4
<1>11. ASSUME NEW m \in Buckets, ~me.par
       PROVE  sum[m] = (IF Holds(mins.open, m) THEN db.pair[m] ELSE 0)
                       + (IF HoldsHour(hours.open, m) /\ m <= db.mark THEN db.pair[m] ELSE 0)
  <2>1. sum = RowsOf(openPlan, db) /\ openPlan.minutes = mins.open /\ openPlan.hours = hours.open
    BY <1>11
  <2> HIDE DEF sum, openPlan, mins, hours
  <2> QED BY <2>1, RowsOfSound
<1>12. ASSUME NEW m \in Buckets, me.par PROVE sum[m] = 0
  BY <1>12 DEF NoBytes
<1> HIDE DEF plan, hours, mins, closedHours, Closed, Open, todo, openPlan, sum
<1>13. /\ rec \in ReaderRecords
       /\ rec.at = "cache" /\ rec.mark = db.mark /\ rec.plan = plan
       /\ rec.gets = closedHours /\ rec.todo = todo /\ rec.sum = sum
       /\ rec.win = me.win /\ rec.par = me.par /\ rec.since = me.since
       /\ rec.fill = me.fill /\ rec.seen = me.seen
  BY <1>1, <1>2, <1>3, <1>4, <1>5, <1>9 DEF ReaderRecords
<1>14. Planned(rec)
  BY <1>1, <1>13 DEF Planned, plan
<1>15. rec.gets = {h \in HourStarts : /\ Holds(rec.plan.hours, h) /\ Whole(rec, h)
                                      /\ db.hours[h] # NoBytes}
  BY <1>6, <1>13 DEF closedHours, Whole
<1>16. \A h \in HourStarts :
         /\ <<"hour", h>> \in rec.todo <=> h \in rec.gets
         /\ <<"filling", h>> \in rec.todo <=>
              rec.par /\ Holds(rec.plan.hours, h) /\ ~Whole(rec, h)
  BY <1>6, <1>10, <1>13 DEF Whole
<1>17. ASSUME NEW m \in Buckets
       PROVE  /\ <<"minute", m>> \in rec.todo /\ m > rec.mark => Direct(rec, m) /\ rec.par
              /\ Direct(rec, m) /\ m > rec.mark /\ rec.par /\ db.pair[m] > 0
                   => <<"minute", m>> \in rec.todo
              /\ m <= rec.mark => (<<"minute", m>> \in rec.todo <=> Direct(rec, m))
  <2>1. m \in Nat
    BY BucketFacts
  <2>2. m <= rec.mark <=> ~(m > rec.mark)
    BY <2>1, <1>1, <1>13
  <2> QED BY <2>2, <1>7, <1>8, <1>10, <1>13 DEF Direct
<1>18. ASSUME NEW m \in Buckets
       PROVE  rec.sum[m] = IF ~rec.par /\ OpenPart(rec, m) THEN db.pair[m] ELSE 0
  <2>1. CASE me.par
    BY <2>1, <1>12, <1>13
  <2>2. CASE ~me.par
    <3>1. Holds(mins.open, m) <=> Direct(rec, m) /\ m > rec.mark
      BY <1>7, <1>13 DEF Direct
    <3>2. HoldsHour(hours.open, m) /\ m <= db.mark <=> ByHour(rec, m) /\ ~Whole(rec, HourOf(m))
      BY <1>6, <1>13, BucketFacts DEF HoldsHour, ByHour, Whole
    <3>3. ~(Direct(rec, m) /\ ByHour(rec, m))
      BY <1>13, <1>14, PlanFacts
    <3>4. db.pair[m] \in Nat
      BY DEF Sound, Tables
    <3> QED BY <2>2, <1>11, <1>13, <3>1, <3>2, <3>3, <3>4 DEF OpenPart
  <2> QED BY <2>1, <2>2
<1>19. \A s \in rec.todo : \/ \E h \in HourStarts : s = <<"hour", h>> \/ s = <<"filling", h>>
                          \/ \E m \in Buckets : s = <<"minute", m>>
  BY <1>10, <1>13
<1> QED BY <1>13, <1>14, <1>15, <1>16, <1>17, <1>18, <1>19

\* Three kinds of items, told apart by their names.
LEMMA ItemFacts ==
    ASSUME NEW me, NEW m
    PROVE  /\ \A h : <<"hour", h>> # <<"minute", m>> /\ <<"hour", m>> # <<"filling", h>>
                     /\ <<"minute", m>> # <<"filling", h>>
           /\ Direct(me, m) => ItemOf(me, m) = <<"minute", m>>
           /\ ~Direct(me, m) /\ Whole(me, HourOf(m)) => ItemOf(me, m) = <<"hour", HourOf(m)>>
           /\ ~Direct(me, m) /\ ~Whole(me, HourOf(m)) =>
                ItemOf(me, m) = <<"filling", HourOf(m)>>
BY DEF ItemOf

LEMMA ReadPlanStep == ASSUME IInv, NEW r \in Readers, ReadPlan(r) PROVE IInv'
<1> DEFINE me == rd[r]
<1>1. me.at = "plan" /\ Step(r, PlanRead(me))
  BY DEF ReadPlan, PlanRead
<1>2. me \in ReaderRecords /\ ReaderInv(me) /\ Sound(db) /\ db \in Tables
  BY ReaderFacts
<1> HIDE DEF me
<1>3. \E x : x = PlanRead(me)
  OBVIOUS
<1>4. PICK rec : rec = PlanRead(me)
  BY <1>3
<1>5. /\ rec \in ReaderRecords /\ Planned(rec)
      /\ rec.at = "cache" /\ rec.mark = db.mark
      /\ rec.win = me.win /\ rec.par = me.par /\ rec.since = me.since
      /\ rec.fill = me.fill /\ rec.seen = me.seen
      /\ rec.gets = {h \in HourStarts : /\ Holds(rec.plan.hours, h) /\ Whole(rec, h)
                                        /\ db.hours[h] # NoBytes}
      /\ \A h \in HourStarts :
           /\ <<"hour", h>> \in rec.todo <=> h \in rec.gets
           /\ <<"filling", h>> \in rec.todo <=>
                rec.par /\ Holds(rec.plan.hours, h) /\ ~Whole(rec, h)
      /\ \A m \in Buckets :
           /\ <<"minute", m>> \in rec.todo /\ m > rec.mark => Direct(rec, m) /\ rec.par
           /\ Direct(rec, m) /\ m > rec.mark /\ rec.par /\ db.pair[m] > 0
                => <<"minute", m>> \in rec.todo
           /\ m <= rec.mark => (<<"minute", m>> \in rec.todo <=> Direct(rec, m))
           /\ rec.sum[m] = IF ~rec.par /\ OpenPart(rec, m) THEN db.pair[m] ELSE 0
      /\ \A s \in rec.todo : \/ \E h \in HourStarts : s = <<"hour", h>> \/ s = <<"filling", h>>
                             \/ \E m \in Buckets : s = <<"minute", m>>
  BY <1>2, <1>4, PlanReadFacts
<1>6. \A h \in HourStarts : rec.fill[h].at = "none"
  BY <1>1, <1>2, <1>5 DEF ReaderInv, FillInv
<1>7. SeenInv(rec) /\ SequenceInv(rec) /\ FillInv(rec) /\ db \in rec.seen
  BY <1>1, <1>2, <1>5, <1>6, NoFills DEF ReaderInv, SeenInv, SequenceInv
<1>8. \A s \in rec.todo : Item(rec, s)
  <2>1. ASSUME NEW h \in HourStarts, <<"hour", h>> \in rec.todo PROVE Item(rec, <<"hour", h>>)
    BY <1>5, <2>1 DEF Item, HourItem
  <2>2. ASSUME NEW h \in HourStarts, <<"filling", h>> \in rec.todo PROVE Item(rec, <<"filling", h>>)
    BY <1>5, <2>2 DEF Item, FillingItem
  <2>3. ASSUME NEW m \in Buckets, <<"minute", m>> \in rec.todo PROVE Item(rec, <<"minute", m>>)
    <3>1. m \in Nat /\ rec.mark \in Int
      BY <1>5, BucketFacts DEF ReaderRecords
    <3>2. Direct(rec, m) /\ (m > rec.mark => rec.par)
      BY <1>5, <2>3, <3>1
    <3> QED BY <3>2 DEF Item, MinuteItem
  <2> QED BY <1>5, <2>1, <2>2, <2>3
<1>9. ASSUME NEW m \in Buckets PROVE GatheredAt(rec, m)
  <2>1. /\ m \in Nat /\ rec.mark \in Int /\ HourOf(m) \in HourStarts /\ db.pair[m] \in Nat
        /\ (m <= rec.mark <=> ~(m > rec.mark))
    BY <1>2, <1>5, BucketFacts DEF ReaderRecords, Tables
  <2>2. /\ ~(Direct(rec, m) /\ ByHour(rec, m))
        /\ Direct(rec, m) \/ ByHour(rec, m) <=> Inside(rec, m)
    BY <1>5, PlanFacts
  <2>3. rec.sum[m] = IF ~rec.par /\ OpenPart(rec, m) THEN db.pair[m] ELSE 0
    BY <1>5
  <2>4. ~Inside(rec, m) => ~OpenPart(rec, m)
    BY <2>2 DEF OpenPart
  <2>5. OpenPart(rec, m) /\ ~rec.par => ItemOf(rec, m) \notin rec.todo
    <3>1. CASE Direct(rec, m) /\ m > rec.mark
      BY <1>5, <3>1, ItemFacts
    <3>2. CASE ByHour(rec, m) /\ ~Whole(rec, HourOf(m))
      <4>1. ItemOf(rec, m) = <<"filling", HourOf(m)>>
        BY <2>2, <3>2, ItemFacts
      <4>2. ~rec.par => <<"filling", HourOf(m)>> \notin rec.todo
        BY <1>5, <2>1
      <4> QED BY <4>1, <4>2
    <3> QED BY <3>1, <3>2 DEF OpenPart
  <2>6. ASSUME ClosedPart(rec, m), ItemOf(rec, m) \notin rec.todo
        PROVE  rec.sum[m] = db.pair[m]
    <3>1. ~(Direct(rec, m) /\ m <= rec.mark)
      BY <1>5, <2>6, ItemFacts
    <3>2. ByHour(rec, m) /\ Whole(rec, HourOf(m)) /\ ~Direct(rec, m) /\ ~OpenPart(rec, m)
      BY <2>2, <2>6, <3>1 DEF ClosedPart, OpenPart
    <3>3. HourOf(m) \notin rec.gets
      BY <1>5, <2>1, <2>6, <3>2, ItemFacts
    <3>4. db.hours[HourOf(m)] = NoBytes
      BY <1>5, <2>1, <3>2, <3>3 DEF ByHour, HoldsHour
    <3>5. ClosedIn(db, HourOf(m))
      BY <1>5, <3>2 DEF ClosedIn, Whole
    <3>6. db.hours[HourOf(m)][m] = db.pair[m]
      BY <1>2, <2>1, <3>5, ClosedHourRow
    <3> QED BY <2>3, <3>2, <3>4, <3>6 DEF NoBytes
  <2>7. ASSUME rec.par, OpenPart(rec, m), ItemOf(rec, m) \notin rec.todo
        PROVE  rec.sum[m] = db.pair[m]
    <3>1. CASE Direct(rec, m) /\ m > rec.mark
      BY <1>5, <2>1, <2>3, <2>7, <3>1, ItemFacts
    <3>2. CASE ByHour(rec, m) /\ ~Whole(rec, HourOf(m))
      <4>1. ItemOf(rec, m) = <<"filling", HourOf(m)>>
        BY <2>2, <3>2, ItemFacts
      <4> QED BY <1>5, <2>1, <2>7, <3>2, <4>1 DEF ByHour, HoldsHour
    <3> QED BY <2>7, <3>1, <3>2 DEF OpenPart
  <2> QED BY <1>7, <2>3, <2>4, <2>5, <2>6, <2>7 DEF GatheredAt
<1>10. ~rec.par => OpenIsOne(rec)
  BY <1>5, <1>7 DEF OpenIsOne
<1>11. ReadingInv(rec)
  <2>1. rec.mark <= db.mark
    BY <1>2, <1>5 DEF Tables
  <2>2. \A h \in rec.gets : <<"hour", h>> \in rec.todo
    BY <1>5
  <2> QED BY <1>5, <1>8, <1>9, <1>10, <2>1, <2>2 DEF ReadingInv, Gathered
<1>12. ReaderInv(rec)
  BY <1>5, <1>7, <1>11 DEF ReaderInv
<1> QED BY <1>1, <1>4, <1>5, <1>12, StepStep

------------------------------------------------------------------------------
(* A reader gathers                                                         *)

\* What the rows of an item must hold: the minutes the item brings, and
\* nothing else.
Brings(me, s, rows) == \A m \in Buckets :
    /\ rows[m] = 0 \/ (ItemOf(me, m) = s /\ Inside(me, m))
    /\ ItemOf(me, m) = s /\ ClosedPart(me, m) => \E v \in me.seen : rows[m] = v.pair[m]
    /\ me.par /\ ItemOf(me, m) = s /\ OpenPart(me, m) => rows[m] = db.pair[m]

LEMMA PlusFacts ==
    ASSUME NEW a \in Rows, NEW b \in Rows
    PROVE  Plus(a, b) \in Rows /\ \A m \in Buckets : Plus(a, b)[m] = a[m] + b[m]
BY DEF Plus, Rows

\* A minute of the open part of a read that is not parallel is no item to do.
LEMMA OpenIsGathered ==
    ASSUME NEW me \in ReaderRecords, Planned(me), \A s \in me.todo : Item(me, s), ~me.par,
           NEW m \in Buckets, OpenPart(me, m)
    PROVE  ItemOf(me, m) \notin me.todo
<1> SUFFICES ASSUME ItemOf(me, m) \in me.todo PROVE FALSE
  OBVIOUS
<1>1. Item(me, ItemOf(me, m)) /\ m \in Nat /\ me.mark \in Int
  BY BucketFacts DEF ReaderRecords
<1>2. ~(Direct(me, m) /\ ByHour(me, m))
  BY PlanFacts
<1>3. CASE Direct(me, m) /\ m > me.mark
  <2>1. ItemOf(me, m) = <<"minute", m>>
    BY <1>3, ItemFacts
  <2>2. MinuteItem(me, <<"minute", m>>)
    BY <1>1, <2>1, ItemFacts DEF Item, HourItem, FillingItem
  <2> QED BY <1>3, <2>2 DEF MinuteItem
<1>4. CASE ByHour(me, m) /\ ~Whole(me, HourOf(m))
  <2>1. ItemOf(me, m) = <<"filling", HourOf(m)>>
    BY <1>2, <1>4, ItemFacts
  <2>2. FillingItem(me, <<"filling", HourOf(m)>>)
    BY <1>1, <2>1 DEF Item, HourItem, MinuteItem
  <2> QED BY <2>2 DEF FillingItem
<1> QED BY <1>3, <1>4 DEF OpenPart

LEMMA AddItem ==
    ASSUME IInv, NEW me \in ReaderRecords, NEW rec \in ReaderRecords, ReadingInv(me),
           NEW s \in me.todo, NEW rows \in Rows, Good(me) => Brings(me, s, rows),
           rec.win = me.win, rec.par = me.par, rec.since = me.since, rec.mark = me.mark,
           rec.plan = me.plan, rec.seen = me.seen, rec.todo = me.todo \ {s},
           rec.sum = Plus(me.sum, rows), rec.gets \in SUBSET me.gets,
           \A h \in rec.gets : <<"hour", h>> # s
    PROVE  ReadingInv(rec)
<1>1. /\ me.sum \in Rows
      /\ \A m \in Buckets : rec.sum[m] = me.sum[m] + rows[m] /\ me.sum[m] \in Nat /\ rows[m] \in Nat
  BY PlusFacts DEF ReaderRecords, Rows
<1>2. \A m \in Buckets :
        /\ Direct(rec, m) <=> Direct(me, m)
        /\ ByHour(rec, m) <=> ByHour(me, m)
        /\ Inside(rec, m) <=> Inside(me, m)
        /\ ClosedPart(rec, m) <=> ClosedPart(me, m)
        /\ OpenPart(rec, m) <=> OpenPart(me, m)
        /\ ItemOf(rec, m) = ItemOf(me, m)
  BY DEF Direct, ByHour, Whole, Inside, ClosedPart, OpenPart, ItemOf
<1>3. (Good(rec) <=> Good(me)) /\ Planned(rec) /\ rec.mark <= db.mark
  BY DEF Good, Planned, ReadingInv
<1>4. \A x \in rec.todo : Item(rec, x)
  BY DEF ReadingInv, Item, HourItem, FillingItem, MinuteItem, Direct, Whole
<1>5. \A h \in rec.gets : <<"hour", h>> \in rec.todo
  BY DEF ReadingInv
<1>6. ASSUME Good(me), NEW m \in Buckets PROVE GatheredAt(rec, m)
  <2>1. GatheredAt(me, m)
    BY <1>6 DEF ReadingInv, Gathered
  <2>2. /\ rows[m] = 0 \/ (ItemOf(me, m) = s /\ Inside(me, m))
        /\ ItemOf(me, m) = s /\ ClosedPart(me, m) => \E v \in me.seen : rows[m] = v.pair[m]
        /\ me.par /\ ItemOf(me, m) = s /\ OpenPart(me, m) => rows[m] = db.pair[m]
    BY <1>6 DEF Brings
  <2>3. rec.sum[m] = me.sum[m] + rows[m] /\ me.sum[m] \in Nat /\ rows[m] \in Nat
    BY <1>1
  <2>4. ItemOf(me, m) = s => rec.sum[m] = rows[m]
    BY <2>1, <2>3 DEF GatheredAt
  <2>5. ItemOf(me, m) # s => rec.sum[m] = me.sum[m]
    BY <2>2, <2>3
  <2>6. ~Inside(me, m) => rec.sum[m] = 0
    BY <2>1, <2>2, <2>3 DEF GatheredAt
  <2>7. /\ Inside(rec, m) <=> Inside(me, m)
        /\ ClosedPart(rec, m) <=> ClosedPart(me, m)
        /\ OpenPart(rec, m) <=> OpenPart(me, m)
        /\ ItemOf(rec, m) = ItemOf(me, m)
    BY <1>2
  <2>8. CASE ItemOf(me, m) = s
    <3>1. ItemOf(rec, m) \notin rec.todo
      BY <2>7, <2>8
    <3> QED BY <2>2, <2>4, <2>6, <2>7, <2>8, <3>1 DEF GatheredAt
  <2>9. CASE ItemOf(me, m) # s
    <3>1. ItemOf(rec, m) \in rec.todo <=> ItemOf(me, m) \in me.todo
      BY <2>7, <2>9
    <3> QED BY <2>1, <2>5, <2>7, <2>9, <3>1 DEF GatheredAt
  <2> QED BY <2>8, <2>9
<1>7. ~rec.par => OpenIsOne(rec)
  <2> SUFFICES ASSUME ~me.par PROVE OpenIsOne(rec)
    OBVIOUS
  <2>1. PICK v \in me.seen : \A m \in Buckets : OpenPart(me, m) => me.sum[m] = v.pair[m]
    BY DEF ReadingInv, OpenIsOne
  <2>2. Good(me)
    BY DEF Good
  <2>3. ASSUME NEW m \in Buckets, OpenPart(me, m) PROVE rec.sum[m] = v.pair[m]
    <3>1. ItemOf(me, m) # s
      BY <2>3, OpenIsGathered DEF ReadingInv
    <3>2. rows[m] = 0
      BY <2>2, <3>1 DEF Brings
    <3> QED BY <1>1, <2>1, <2>3, <3>2
  <2> QED BY <1>2, <2>1, <2>3 DEF OpenIsOne
<1>8. Good(rec) /\ rec.par => rec.mark = db.mark
  BY <1>3 DEF ReadingInv
<1> QED BY <1>3, <1>4, <1>5, <1>6, <1>7, <1>8 DEF ReadingInv, Gathered

\* The row of an hour, from tables in which the hour is closed.
LEMMA HourBrings ==
    ASSUME NEW me \in ReaderRecords, Planned(me), NEW h \in HourStarts, HourItem(me, <<"hour", h>>),
           NEW v \in me.seen, Sound(v), ClosedIn(v, h)
    PROVE  Brings(me, <<"hour", h>>, v.hours[h]) /\ v.hours[h] \in Rows
<1>1. Holds(me.plan.hours, h) /\ Whole(me, h)
  BY DEF HourItem
<1>2. /\ v.hours[h] \in Rows
      /\ \A m \in Buckets : v.hours[h][m] = IF HourOf(m) = h THEN v.pair[m] ELSE 0
  BY ClosedHourRow
<1>3. ASSUME NEW m \in Buckets
      PROVE  /\ v.hours[h][m] = 0 \/ (ItemOf(me, m) = <<"hour", h>> /\ Inside(me, m))
             /\ ItemOf(me, m) = <<"hour", h>> => HourOf(m) = h /\ ~OpenPart(me, m)
  <2>1. HourOf(m) = h => ItemOf(me, m) = <<"hour", h>> /\ Inside(me, m)
    BY <1>1, WholeHourMinutes, ItemFacts
  <2>2. ItemOf(me, m) = <<"hour", h>> => HourOf(m) = h /\ ~Direct(me, m) /\ Whole(me, HourOf(m))
    BY DEF ItemOf
  <2> QED BY <1>2, <2>1, <2>2 DEF OpenPart
<1>4. \A m \in Buckets : ItemOf(me, m) = <<"hour", h>> => v.hours[h][m] = v.pair[m]
  BY <1>2, <1>3
<1> QED BY <1>2, <1>3, <1>4 DEF Brings

\* A whole hour to do is closed in the tables as they are.
LEMMA ToDoClosed ==
    ASSUME IInv, NEW me \in ReaderRecords, ReadingInv(me), NEW h \in HourStarts,
           <<"hour", h>> \in me.todo
    PROVE  HourItem(me, <<"hour", h>>) /\ Whole(me, h) /\ ClosedIn(db, h)
<1>1. HourItem(me, <<"hour", h>>)
  <2>1. Item(me, <<"hour", h>>)
    BY DEF ReadingInv
  <2> QED BY <2>1 DEF Item, FillingItem, MinuteItem
<1>2. Whole(me, h)
  BY <1>1 DEF HourItem
<1>3. me.mark <= db.mark /\ me.mark \in Int /\ db.mark \in Int /\ h \in Nat
  BY Typed, BucketFacts DEF ReadingInv, ReaderRecords
<1> QED BY <1>1, <1>2, <1>3 DEF ClosedIn, Whole, hourSeconds, minuteSeconds

LEMMA CacheGetStep == ASSUME IInv, NEW r \in Readers, CacheGet(r) PROVE IInv'
<1> DEFINE me == rd[r]
<1>1. PICK h \in me.gets :
        /\ me.at = "cache"
        /\ Step(r, IF entries[h] = NoEntry
                   THEN [me EXCEPT !.gets = @ \ {h}]
                   ELSE [me EXCEPT !.gets = @ \ {h}, !.todo = @ \ {<<"hour", h>>},
                                   !.sum = Plus(@, entries[h])])
  BY DEF CacheGet
<1>2. /\ me \in ReaderRecords /\ ReaderInv(me) /\ Sound(db) /\ Sound(prev)
      /\ ReadingInv(me) /\ SeenInv(me) /\ SequenceInv(me)
  BY <1>1, ReaderFacts DEF ReaderInv
<1> HIDE DEF me
<1>3. h \in HourStarts /\ <<"hour", h>> \in me.todo
  BY <1>1, <1>2 DEF ReaderRecords, ReadingInv
<1>4. \A x \in HourStarts : me.fill[x].at = "none"
  BY <1>1, <1>2 DEF ReaderInv, FillInv
<1>5. CASE entries[h] = NoEntry
  <2> DEFINE rec == [me EXCEPT !.gets = @ \ {h}]
  <2>1. /\ rec \in ReaderRecords /\ rec.gets = me.gets \ {h}
        /\ rec.at = me.at /\ rec.win = me.win /\ rec.fin = me.fin
        /\ rec.since = me.since /\ rec.par = me.par
        /\ rec.mark = me.mark /\ rec.plan = me.plan /\ rec.todo = me.todo
        /\ rec.fill = me.fill /\ rec.sum = me.sum /\ rec.seen = me.seen
    BY <1>2 DEF ReaderRecords
  <2>2. Step(r, rec)
    BY <1>1, <1>5
  <2> HIDE DEF rec
  <2>3. ReadingInv(rec)
    BY <1>2, <2>1 DEF ReadingInv, Planned, Good, Gathered, GatheredAt, Inside, ItemOf,
                      ClosedPart, OpenPart, OpenIsOne, Direct, ByHour, Whole, Item, HourItem,
                      FillingItem, MinuteItem
  <2>4. ReaderInv(rec)
    BY <1>1, <1>2, <1>4, <2>1, <2>3, NoFills DEF ReaderInv, SeenInv, SequenceInv
  <2> QED BY <2>1, <2>2, <2>4, StepStep
<1>6. CASE entries[h] # NoEntry
  <2> DEFINE rows == entries[h]
             rec == [me EXCEPT !.gets = @ \ {h}, !.todo = @ \ {<<"hour", h>>},
                               !.sum = Plus(@, rows)]
  <2>1. ClosedIn(db, h) /\ Fresh(rows, h)
    BY <1>3, <1>6 DEF IInv, CacheInv
  <2>2. Brings(me, <<"hour", h>>, rows) /\ rows \in Rows
    <3>1. HourItem(me, <<"hour", h>>) /\ Planned(me) /\ db \in me.seen /\ prev \in me.seen
      BY <1>1, <1>2, <1>3, ToDoClosed DEF ReadingInv, SeenInv
    <3>2. CASE rows = db.hours[h]
      <4>1. Brings(me, <<"hour", h>>, db.hours[h]) /\ db.hours[h] \in Rows
        BY <1>2, <1>3, <2>1, <3>1, HourBrings
      <4> QED BY <3>2, <4>1
    <3>3. CASE rows = prev.hours[h] /\ ClosedIn(prev, h)
      <4>1. Brings(me, <<"hour", h>>, prev.hours[h]) /\ prev.hours[h] \in Rows
        BY <1>2, <1>3, <3>1, <3>3, HourBrings
      <4> QED BY <3>3, <4>1
    <3> QED BY <2>1, <3>2, <3>3 DEF Fresh
  <2> HIDE DEF rows
  <2>3. Plus(me.sum, rows) \in Rows
    BY <1>2, <2>2, PlusFacts DEF ReaderRecords
  <2>4. /\ rec \in ReaderRecords /\ rec.gets = me.gets \ {h}
        /\ rec.todo = me.todo \ {<<"hour", h>>} /\ rec.sum = Plus(me.sum, rows)
        /\ rec.at = me.at /\ rec.win = me.win /\ rec.fin = me.fin
        /\ rec.since = me.since /\ rec.par = me.par
        /\ rec.mark = me.mark /\ rec.plan = me.plan
        /\ rec.fill = me.fill /\ rec.seen = me.seen
    BY <1>2, <2>3 DEF ReaderRecords
  <2>5. Step(r, rec)
    BY <1>1, <1>6 DEF rows
  <2> HIDE DEF rec
  <2>6. \A x \in rec.gets : <<"hour", x>> # <<"hour", h>>
    BY <2>4
  <2>7. ReadingInv(rec)
    BY <1>2, <1>3, <2>2, <2>4, <2>6, AddItem
  <2>8. ReaderInv(rec)
    BY <1>1, <1>2, <1>4, <2>4, <2>7, NoFills DEF ReaderInv, SeenInv, SequenceInv
  <2> QED BY <2>4, <2>5, <2>8, StepStep
<1> QED BY <1>5, <1>6

\* The row of the filling hour and the row of a minute, as they are.
LEMMA FillingBrings ==
    ASSUME IInv, NEW me \in ReaderRecords, ReadingInv(me), Good(me), NEW h \in HourStarts,
           <<"filling", h>> \in me.todo
    PROVE  Brings(me, <<"filling", h>>, db.hours[h])
<1>1. Item(me, <<"filling", h>>)
  BY DEF ReadingInv
<1>2. Holds(me.plan.hours, h) /\ ~Whole(me, h) /\ me.par
  BY <1>1 DEF Item, HourItem, FillingItem, MinuteItem
<1>3. me.mark = db.mark /\ Planned(me) /\ Sound(db)
  BY <1>2 DEF ReadingInv, IInv, CommitInv
<1>4. ASSUME NEW m \in Buckets
      PROVE  /\ db.hours[h][m] = 0 \/ (ItemOf(me, m) = <<"filling", h>> /\ Inside(me, m))
             /\ ItemOf(me, m) = <<"filling", h>> => ~ClosedPart(me, m)
             /\ ItemOf(me, m) = <<"filling", h>> /\ OpenPart(me, m) =>
                  db.hours[h][m] = db.pair[m]
  <2>1. db.hours[h][m] = IF HourOf(m) = h /\ m <= db.mark THEN db.pair[m] ELSE 0
    BY <1>3 DEF Sound, HoursMatch, Rolled
  <2>2. HourOf(m) = h /\ m <= db.mark =>
          ByHour(me, m) /\ ItemOf(me, m) = <<"filling", h>> /\ Inside(me, m)
    <3> SUFFICES ASSUME HourOf(m) = h, m <= db.mark
                 PROVE  ByHour(me, m) /\ ItemOf(me, m) = <<"filling", h>> /\ Inside(me, m)
      OBVIOUS
    <3>1. ByHour(me, m)
      BY <1>2, <1>3 DEF ByHour, HoldsHour
    <3>2. ~Direct(me, m) /\ Inside(me, m)
      BY <1>3, <3>1, PlanFacts
    <3>3. ItemOf(me, m) = <<"filling", HourOf(m)>>
      BY <1>2, <3>2, ItemFacts
    <3> QED BY <3>1, <3>2, <3>3
  <2>3. ItemOf(me, m) = <<"filling", h>> =>
          HourOf(m) = h /\ ~Direct(me, m) /\ ~Whole(me, HourOf(m))
    BY DEF ItemOf
  <2>4. ItemOf(me, m) = <<"filling", h>> /\ OpenPart(me, m) => m <= db.mark
    BY <1>3, <2>3 DEF OpenPart, ByHour
  <2> QED BY <2>1, <2>2, <2>3, <2>4 DEF ClosedPart
<1> QED BY <1>4 DEF Brings

MinuteRow(d, b) == [m \in Buckets |-> IF m = b THEN d.pair[m] ELSE 0]

LEMMA MinuteBrings ==
    ASSUME IInv, NEW me \in ReaderRecords, ReadingInv(me), db \in me.seen, NEW b \in Buckets,
           <<"minute", b>> \in me.todo
    PROVE  Brings(me, <<"minute", b>>, MinuteRow(db, b)) /\ MinuteRow(db, b) \in Rows
<1>1. Item(me, <<"minute", b>>) /\ Planned(me) /\ db.pair \in [Buckets -> Nat]
  BY Typed DEF ReadingInv, Tables
<1>2. Direct(me, b)
  BY <1>1 DEF Item, HourItem, FillingItem, MinuteItem
<1>3. ItemOf(me, b) = <<"minute", b>> /\ Inside(me, b)
  BY <1>1, <1>2, PlanFacts, ItemFacts
<1>4. \A m \in Buckets : ItemOf(me, m) = <<"minute", b>> => m = b
  BY DEF ItemOf
<1>5. \A m \in Buckets : MinuteRow(db, b)[m] = IF m = b THEN db.pair[m] ELSE 0
  BY DEF MinuteRow
<1>6. MinuteRow(db, b) \in Rows
  BY <1>1 DEF MinuteRow, Rows
<1> HIDE DEF MinuteRow
<1> QED BY <1>3, <1>4, <1>5, <1>6 DEF Brings

LEMMA ScanSpanStep == ASSUME IInv, NEW r \in Readers, ScanSpan(r) PROVE IInv'
<1> DEFINE me == rd[r]
<1>1. PICK s \in me.todo :
        /\ me.at = "cache" /\ me.gets = {} /\ s[1] # "hour"
        /\ Step(r, [me EXCEPT
             !.todo = @ \ {s},
             !.sum = Plus(@, IF s[1] = "filling" THEN db.hours[s[2]]
                             ELSE [m \in Buckets |-> IF m = s[2] THEN db.pair[m] ELSE 0])])
  BY DEF ScanSpan
<1>2. /\ me \in ReaderRecords /\ ReaderInv(me) /\ db \in Tables
      /\ ReadingInv(me) /\ SeenInv(me) /\ SequenceInv(me) /\ FillInv(me) /\ db \in me.seen
  BY <1>1, ReaderFacts DEF ReaderInv, SeenInv
<1> HIDE DEF me
<1> DEFINE rows == IF s[1] = "filling" THEN db.hours[s[2]] ELSE MinuteRow(db, s[2])
           rec == [me EXCEPT !.todo = @ \ {s}, !.sum = Plus(@, rows)]
<1>3. rows \in Rows /\ (Good(me) => Brings(me, s, rows))
  <2>1. Item(me, s)
    BY <1>2 DEF ReadingInv
  <2>2. CASE s[1] = "filling"
    <3>1. PICK h \in HourStarts : s = <<"filling", h>>
      BY <2>1, <2>2 DEF Item, HourItem, FillingItem, MinuteItem
    <3>2. rows = db.hours[h] /\ db.hours[h] \in Rows
      BY <1>2, <3>1 DEF Tables, Rows
    <3> HIDE DEF rows
    <3> QED BY <1>2, <3>1, <3>2, FillingBrings
  <2>3. CASE s[1] # "filling"
    <3>1. PICK b \in Buckets : s = <<"minute", b>>
      BY <1>1, <2>1, <2>3 DEF Item, HourItem, FillingItem, MinuteItem
    <3>2. rows = MinuteRow(db, b)
      BY <3>1
    <3> HIDE DEF rows
    <3> QED BY <1>2, <3>1, <3>2, MinuteBrings
  <2> QED BY <2>2, <2>3
<1>4. Step(r, rec)
  BY <1>1 DEF MinuteRow
<1> HIDE DEF rows
<1>5. Plus(me.sum, rows) \in Rows
  BY <1>2, <1>3, PlusFacts DEF ReaderRecords
<1>6. /\ rec \in ReaderRecords /\ rec.gets = me.gets
      /\ rec.todo = me.todo \ {s} /\ rec.sum = Plus(me.sum, rows)
      /\ rec.at = me.at /\ rec.win = me.win /\ rec.fin = me.fin
      /\ rec.since = me.since /\ rec.par = me.par
      /\ rec.mark = me.mark /\ rec.plan = me.plan
      /\ rec.fill = me.fill /\ rec.seen = me.seen
  BY <1>2, <1>5 DEF ReaderRecords
<1> HIDE DEF rec
<1>7. ReadingInv(rec)
  BY <1>1, <1>2, <1>3, <1>6, AddItem
<1>8. FillInv(rec)
  BY <1>1, <1>2, <1>6 DEF FillInv
<1>9. ReaderInv(rec)
  BY <1>1, <1>2, <1>6, <1>7, <1>8 DEF ReaderInv, SeenInv, SequenceInv
<1> QED BY <1>4, <1>6, <1>9, StepStep

------------------------------------------------------------------------------
(* A reader fills the cache                                                 *)

LEMMA FillUpdate ==
    ASSUME NEW me \in ReaderRecords, NEW h \in HourStarts, NEW f \in Fills
    PROVE  LET rec == [me EXCEPT !.fill[h] = f]
           IN  /\ rec \in ReaderRecords /\ rec.fill = [me.fill EXCEPT ![h] = f]
               /\ rec.at = me.at /\ rec.win = me.win /\ rec.fin = me.fin
               /\ rec.since = me.since /\ rec.par = me.par /\ rec.gets = me.gets
               /\ rec.todo = me.todo /\ rec.sum = me.sum
               /\ rec.mark = me.mark /\ rec.plan = me.plan /\ rec.seen = me.seen
BY DEF ReaderRecords

\* What a read has gathered does not depend on its fills.
LEMMA FillKeepsReading ==
    ASSUME NEW me, NEW rec, ReadingInv(me),
           rec.win = me.win, rec.since = me.since, rec.par = me.par, rec.gets = me.gets,
           rec.todo = me.todo, rec.sum = me.sum,
           rec.mark = me.mark, rec.plan = me.plan, rec.seen = me.seen
    PROVE  ReadingInv(rec)
BY DEF ReadingInv, Planned, Good, Gathered, GatheredAt, Inside, ItemOf,
       ClosedPart, OpenPart, OpenIsOne, Direct, ByHour, Whole, Item, HourItem,
       FillingItem, MinuteItem

FillOK(me, h) ==
    /\ me.at = "cache" /\ me.gets = {} /\ <<"hour", h>> \in me.todo
    /\ me.fill[h].epoch <= epoch
    /\ me.fill[h].at = "rows" =>
         /\ Fresh(me.fill[h].rows, h) \/ touchedAt(h) > me.fill[h].epoch
         /\ \E v \in me.seen : ClosedIn(v, h) /\ me.fill[h].rows = v.hours[h]

LEMMA FillStepped ==
    ASSUME IInv, NEW r \in Readers, NEW h \in HourStarts, NEW f \in Fills,
           rd[r].at = "cache", rd[r].gets = {}, <<"hour", h>> \in rd[r].todo,
           f.epoch <= epoch,
           f.at = "rows" =>
             /\ Fresh(f.rows, h) \/ touchedAt(h) > f.epoch
             /\ \E v \in rd[r].seen : ClosedIn(v, h) /\ f.rows = v.hours[h],
           Step(r, [rd[r] EXCEPT !.fill[h] = f])
    PROVE  IInv'
<1> DEFINE me == rd[r]
           rec == [me EXCEPT !.fill[h] = f]
<1>1. me \in ReaderRecords /\ ReaderInv(me) /\ ReadingInv(me) /\ FillInv(me)
  BY ReaderFacts DEF ReaderInv
<1>2. /\ rec \in ReaderRecords /\ rec.fill = [me.fill EXCEPT ![h] = f]
      /\ rec.at = me.at /\ rec.win = me.win /\ rec.fin = me.fin
      /\ rec.since = me.since /\ rec.par = me.par /\ rec.gets = me.gets
      /\ rec.todo = me.todo /\ rec.sum = me.sum
      /\ rec.mark = me.mark /\ rec.plan = me.plan /\ rec.seen = me.seen
  <2> HIDE DEF me
  <2> QED BY <1>1, FillUpdate
<1>3. Step(r, rec)
  OBVIOUS
<1> HIDE DEF rec
<1>4. me.fill \in [HourStarts -> Fills]
  BY <1>1 DEF ReaderRecords
<1>5. FillInv(rec)
  <2> SUFFICES ASSUME NEW x \in HourStarts, rec.fill[x].at # "none" PROVE FillOK(rec, x)
    BY DEF FillInv, FillOK
  <2>1. CASE x = h
    <3>1. rec.fill[x] = f
      BY <1>2, <1>4, <2>1
    <3> QED BY <1>2, <2>1, <3>1 DEF FillOK
  <2>2. CASE x # h
    <3>1. rec.fill[x] = me.fill[x]
      BY <1>2, <1>4, <2>2
    <3> QED BY <1>1, <1>2, <3>1 DEF FillOK, FillInv
  <2> QED BY <2>1, <2>2
<1>6. ReadingInv(rec)
  BY <1>1, <1>2, FillKeepsReading
<1>7. ReaderInv(rec)
  BY <1>1, <1>2, <1>5, <1>6 DEF ReaderInv, SeenInv, SequenceInv
<1> QED BY <1>2, <1>3, <1>7, StepStep

LEMMA FillStartStep == ASSUME IInv, NEW r \in Readers, FillStart(r) PROVE IInv'
<1> DEFINE f == [at |-> "epoch", epoch |-> epoch, rows |-> NoBytes]
<1>1. PICK h \in HourStarts :
        /\ rd[r].at = "cache" /\ rd[r].gets = {} /\ <<"hour", h>> \in rd[r].todo
        /\ Step(r, [rd[r] EXCEPT !.fill[h] = f])
  BY DEF FillStart
<1>2. f \in Fills /\ f.at = "epoch" /\ f.epoch <= epoch
  BY Typed DEF Fills, NoBytes, Rows
<1> HIDE DEF f
<1> QED BY <1>1, <1>2, FillStepped

LEMMA FillQueryStep == ASSUME IInv, NEW r \in Readers, FillQuery(r) PROVE IInv'
<1>1. PICK h \in HourStarts :
        /\ rd[r].fill[h].at = "epoch"
        /\ Step(r, [rd[r] EXCEPT !.fill[h].at = "rows", !.fill[h].rows = db.hours[h]])
  BY DEF FillQuery
<1> DEFINE me == rd[r]
           f == [me.fill[h] EXCEPT !.at = "rows", !.rows = db.hours[h]]
<1>2. /\ me \in ReaderRecords /\ ReaderInv(me) /\ FillInv(me) /\ db \in Tables
  BY ReaderFacts DEF ReaderInv
<1>3. me.fill \in [HourStarts -> Fills] /\ me.fill[h] \in Fills /\ db.hours[h] \in Rows
  BY <1>2 DEF ReaderRecords, Tables, Rows
<1>4. FillOK(me, h)
  BY <1>1, <1>2 DEF FillInv, FillOK
<1>5. me.at = "cache" /\ me.gets = {} /\ <<"hour", h>> \in me.todo
  BY <1>4 DEF FillOK
<1>6. ReadingInv(me) /\ db \in me.seen
  BY <1>2, <1>5 DEF ReaderInv, SeenInv
<1>7. ClosedIn(db, h)
  BY <1>2, <1>5, <1>6, ToDoClosed
<1>8. [me EXCEPT !.fill[h].at = "rows", !.fill[h].rows = db.hours[h]]
        = [me EXCEPT !.fill[h] = f]
  BY <1>2, <1>3 DEF ReaderRecords
<1>9. f \in Fills /\ f.at = "rows" /\ f.epoch = me.fill[h].epoch /\ f.rows = db.hours[h]
  <2> HIDE DEF me
  <2> QED BY <1>3 DEF Fills
<1>10. Step(r, [me EXCEPT !.fill[h] = f])
  BY <1>1, <1>8
<1> HIDE DEF f
<1>11. f.epoch <= epoch
  BY <1>4, <1>9 DEF FillOK
<1>12. Fresh(f.rows, h)
  BY <1>9 DEF Fresh
<1>13. \E v \in me.seen : ClosedIn(v, h) /\ f.rows = v.hours[h]
  BY <1>6, <1>7, <1>9
<1> QED BY <1>5, <1>9, <1>10, <1>11, <1>12, <1>13, FillStepped

\* Put stores rows that are fresh, within the budget, or nothing.
LEMMA PutFacts ==
    ASSUME IInv, NEW h \in HourStarts, NEW rows \in Rows, NEW e \in Nat,
           Fresh(rows, h) \/ touchedAt(h) > e, ClosedIn(db, h), put(h, rows, e)
    PROVE  /\ \A x \in HourStarts : entries'[x] # NoEntry =>
                entries'[x] \in Rows /\ ClosedIn(db, x) /\ Fresh(entries'[x], x)
           /\ Cardinality({x \in HourStarts : entries'[x] # NoEntry}) <= Budget
<1>1. /\ \A x \in HourStarts : entries[x] # NoEntry =>
           entries[x] \in Rows /\ ClosedIn(db, x) /\ Fresh(entries[x], x)
      /\ Cardinality({x \in HourStarts : entries[x] # NoEntry}) <= Budget
  BY DEF IInv, Typing, TypeOK, CacheInv, Rows
<1>2. CASE touchedAt(h) > e
  BY <1>1, <1>2 DEF put
<1>3. CASE ~(touchedAt(h) > e)
  <2>1. PICK others \in SUBSET {x \in HourStarts \ {h} : entries[x] # NoEntry} :
           /\ Cardinality(others) < Budget
           /\ entries' = [x \in HourStarts |->
                IF x = h THEN rows ELSE IF x \in others THEN entries[x] ELSE NoEntry]
    BY <1>3 DEF put
  <2>2. ASSUME NEW x \in HourStarts, entries'[x] # NoEntry
        PROVE  entries'[x] \in Rows /\ ClosedIn(db, x) /\ Fresh(entries'[x], x)
    <3>1. CASE x = h
      <4>1. entries'[x] = rows
        BY <2>1, <3>1
      <4> QED BY <1>3, <3>1, <4>1
    <3>2. CASE x # h
      <4>1. entries'[x] = entries[x]
        BY <2>1, <2>2, <3>2
      <4> QED BY <1>1, <2>2, <4>1
    <3> QED BY <3>1, <3>2
  <2>3. Cardinality({x \in HourStarts : entries'[x] # NoEntry}) <= Budget
    <3> DEFINE A == {x \in HourStarts : entries'[x] # NoEntry}
               B == others \union {h}
    <3>1. A \subseteq B
      BY <2>1
    <3>2. IsFiniteSet(others)
      BY HoursFinite, FS_Subset
    <3>3. h \notin others
      OBVIOUS
    <3>4. IsFiniteSet(B) /\ Cardinality(B) = Cardinality(others) + 1
      BY <3>2, <3>3, FS_AddElement
    <3> HIDE DEF A, B
    <3>5. IsFiniteSet(A) /\ Cardinality(A) <= Cardinality(B)
      BY <3>1, <3>4, FS_Subset
    <3>6. Cardinality(A) \in Nat /\ Cardinality(others) \in Nat
      BY <3>2, <3>5, FS_CardinalityType
    <3>7. Cardinality(A) <= Budget
      BY <2>1, <3>4, <3>5, <3>6, GraphReadAssumption
    <3> QED BY <3>7 DEF A
  <2> QED BY <2>2, <2>3
<1> QED BY <1>2, <1>3

LEMMA FillPutStep == ASSUME IInv, NEW r \in Readers, FillPut(r) PROVE IInv'
<1> DEFINE me == rd[r]
<1>1. PICK h \in HourStarts :
        /\ me.fill[h].at = "rows"
        /\ Goto(r, [me EXCEPT !.todo = @ \ {<<"hour", h>>}, !.fill[h] = NoFill,
                              !.sum = Plus(@, me.fill[h].rows)])
        /\ put(h, me.fill[h].rows, me.fill[h].epoch)
        /\ UNCHANGED <<epoch, touched, floor>>
  BY DEF FillPut
<1>2. /\ me \in ReaderRecords /\ ReaderInv(me) /\ FillInv(me)
  BY ReaderFacts DEF ReaderInv
<1> HIDE DEF me
<1> DEFINE rows == me.fill[h].rows
           rec == [me EXCEPT !.todo = @ \ {<<"hour", h>>}, !.fill[h] = NoFill,
                             !.sum = Plus(@, rows)]
<1>3. /\ me.fill \in [HourStarts -> Fills] /\ rows \in Rows /\ me.fill[h].epoch \in Nat
  BY <1>2 DEF ReaderRecords, Fills
<1>4. /\ FillOK(me, h) /\ me.at = "cache" /\ me.gets = {} /\ <<"hour", h>> \in me.todo
  BY <1>1, <1>2 DEF FillInv, FillOK
<1>5. ReadingInv(me) /\ SeenInv(me) /\ SequenceInv(me)
  BY <1>2, <1>4 DEF ReaderInv
<1>6. ClosedIn(db, h) /\ HourItem(me, <<"hour", h>>)
  BY <1>2, <1>4, <1>5, ToDoClosed
<1>7. /\ Fresh(rows, h) \/ touchedAt(h) > me.fill[h].epoch
      /\ \E v \in me.seen : ClosedIn(v, h) /\ rows = v.hours[h]
  BY <1>1, <1>4 DEF FillOK
<1>8. Brings(me, <<"hour", h>>, rows)
  <2>1. PICK v \in me.seen : ClosedIn(v, h) /\ rows = v.hours[h]
    BY <1>7
  <2>2. Sound(v) /\ Planned(me)
    BY <1>5 DEF SeenInv, ReadingInv
  <2>3. Brings(me, <<"hour", h>>, v.hours[h])
    BY <1>2, <1>6, <2>1, <2>2, HourBrings
  <2> QED BY <2>1, <2>3
<1>9. Goto(r, rec) /\ put(h, rows, me.fill[h].epoch)
  BY <1>1
<1> HIDE DEF rows
<1>10. /\ \A x \in HourStarts : entries'[x] # NoEntry =>
            entries'[x] \in Rows /\ ClosedIn(db, x) /\ Fresh(entries'[x], x)
       /\ Cardinality({x \in HourStarts : entries'[x] # NoEntry}) <= Budget
  BY <1>3, <1>6, <1>7, <1>9, PutFacts
<1>11. Plus(me.sum, rows) \in Rows /\ NoFill \in Fills /\ NoFill.at = "none"
  BY <1>2, <1>3, PlusFacts DEF ReaderRecords, NoFill, Fills, NoBytes, Rows
<1>12. /\ rec \in ReaderRecords /\ rec.gets = me.gets
       /\ rec.todo = me.todo \ {<<"hour", h>>} /\ rec.sum = Plus(me.sum, rows)
       /\ rec.at = me.at /\ rec.win = me.win /\ rec.fin = me.fin
       /\ rec.since = me.since /\ rec.par = me.par
       /\ rec.mark = me.mark /\ rec.plan = me.plan
       /\ rec.fill = [me.fill EXCEPT ![h] = NoFill] /\ rec.seen = me.seen
  BY <1>2, <1>11 DEF ReaderRecords
<1> HIDE DEF rec
<1>13. \A x \in rec.gets : <<"hour", x>> # <<"hour", h>>
  BY <1>4, <1>12
<1>14. ReadingInv(rec)
  BY <1>2, <1>3, <1>4, <1>5, <1>8, <1>12, <1>13, AddItem
<1>15. FillInv(rec)
  <2> SUFFICES ASSUME NEW x \in HourStarts, rec.fill[x].at # "none" PROVE FillOK(rec, x)
    BY DEF FillInv, FillOK
  <2>1. x # h /\ rec.fill[x] = me.fill[x]
    BY <1>3, <1>11, <1>12
  <2>2. FillOK(me, x)
    BY <1>2, <2>1 DEF FillInv, FillOK
  <2>3. <<"hour", x>> # <<"hour", h>>
    BY <2>1
  <2> QED BY <1>12, <2>1, <2>2, <2>3 DEF FillOK
<1>16. ReaderInv(rec)
  BY <1>4, <1>5, <1>12, <1>14, <1>15 DEF ReaderInv, SeenInv, SequenceInv
<1> QED BY <1>1, <1>9, <1>10, <1>12, <1>16, GotoStep

------------------------------------------------------------------------------
(* A reader answers                                                         *)

LEMMA ReadDoneStep == ASSUME IInv, NEW r \in Readers, ReadDone(r) PROVE IInv'
<1> DEFINE me == rd[r]
           rec == [me EXCEPT !.at = "done"]
<1>1. /\ me.at = "cache" /\ me.gets = {} /\ me.todo = {} /\ (me.par => started = me.since)
      /\ Step(r, rec)
  BY DEF ReadDone, AllRead, Stable
<1>2. /\ me \in ReaderRecords /\ ReaderInv(me) /\ FillInv(me) /\ ReadingInv(me)
      /\ SeenInv(me) /\ db \in me.seen
  BY <1>1, ReaderFacts DEF ReaderInv, SeenInv
<1>3. Gathered(me) /\ Planned(me)
  BY <1>1, <1>2 DEF ReadingInv, Good
<1> HIDE DEF me
<1>4. /\ rec \in ReaderRecords /\ rec.at = "done" /\ rec.fill = me.fill /\ rec.seen = me.seen
      /\ rec.win = me.win /\ rec.mark = me.mark /\ rec.plan = me.plan /\ rec.sum = me.sum
  BY <1>2 DEF ReaderRecords
<1> HIDE DEF rec
<1>5. ASSUME NEW m \in Buckets
      PROVE  /\ Inside(me, m) => \E v \in me.seen : me.sum[m] = v.pair[m]
             /\ ~Inside(me, m) => me.sum[m] = 0
             /\ me.par /\ OpenPart(me, m) => me.sum[m] = db.pair[m]
  <2>1. GatheredAt(me, m) /\ ItemOf(me, m) \notin me.todo
    BY <1>1, <1>3 DEF Gathered
  <2>2. Inside(me, m) => ClosedPart(me, m) \/ OpenPart(me, m)
    <3>1. m \in Nat /\ me.mark \in Int
      BY <1>2, BucketFacts DEF ReaderRecords
    <3>2. Inside(me, m) => Direct(me, m) \/ ByHour(me, m)
      BY <1>2, <1>3, PlanFacts
    <3> QED BY <3>1, <3>2 DEF ClosedPart, OpenPart
  <2>3. OpenPart(me, m) => \E v \in me.seen : me.sum[m] = v.pair[m]
    <3>1. CASE me.par
      BY <1>2, <2>1, <3>1 DEF GatheredAt
    <3>2. CASE ~me.par
      BY <1>2, <3>2 DEF ReadingInv, OpenIsOne
    <3> QED BY <3>1, <3>2
  <2> QED BY <2>1, <2>2, <2>3 DEF GatheredAt
<1>6. OpenIsOne(me)
  <2>1. CASE me.par
    BY <1>2, <1>5, <2>1 DEF OpenIsOne
  <2>2. CASE ~me.par
    BY <1>2, <2>2 DEF ReadingInv
  <2> QED BY <2>1, <2>2
<1>7. AnswerInv(me)
  BY <1>3, <1>5, <1>6 DEF AnswerInv
<1>8. AnswerInv(rec)
  BY <1>4, <1>7 DEF AnswerInv, Planned, Inside, OpenIsOne, OpenPart, Direct, ByHour, Whole
<1>9. \A h \in HourStarts : rec.fill[h].at = "none"
  BY <1>1, <1>2, <1>4 DEF FillInv
<1>10. SeenInv(rec)
  BY <1>1, <1>2, <1>4 DEF SeenInv
<1>11. ReaderInv(rec)
  BY <1>4, <1>8, <1>9, <1>10, NoFills DEF ReaderInv, SequenceInv
<1> QED BY <1>1, <1>4, <1>11, StepStep

LEMMA NextIInv == IInv /\ [Next]_vars => IInv'
<1> SUFFICES ASSUME IInv, [Next]_vars PROVE IInv'
  OBVIOUS
<1>1. ASSUME CommitPollResults PROVE IInv'
  BY <1>1, CommitPollResultsStep
<1>2. ASSUME CommitObjectIngest PROVE IInv'
  BY <1>2, CommitObjectIngestStep
<1>3. ASSUME UpdatePollState PROVE IInv'
  BY <1>3, UpdatePollStateStep
<1>4. ASSUME Cleanup PROVE IInv'
  BY <1>4, CleanupStep
<1>5. ASSUME CommitLands PROVE IInv'
  BY <1>5, CommitLandsStep
<1>6. ASSUME CommitFails PROVE IInv'
  BY <1>6, CommitFailsStep
<1>7. ASSUME CommitFinishes PROVE IInv'
  BY <1>7, CommitFinishesStep
<1>8. ASSUME Invalidate PROVE IInv'
  BY <1>8, InvalidateStep
<1>9. ASSUME InvalidateBelow PROVE IInv'
  BY <1>9, InvalidateBelowStep
<1>10. ASSUME NEW r \in Readers, ReadBegins(r) PROVE IInv'
  BY <1>10, ReadBeginsStep
<1>11. ASSUME NEW r \in Readers, ReadStarted(r) PROVE IInv'
  BY <1>11, ReadStartedStep
<1>12. ASSUME NEW r \in Readers, ReadPlan(r) PROVE IInv'
  BY <1>12, ReadPlanStep
<1>13. ASSUME NEW r \in Readers, CacheGet(r) PROVE IInv'
  BY <1>13, CacheGetStep
<1>14. ASSUME NEW r \in Readers, ScanSpan(r) PROVE IInv'
  BY <1>14, ScanSpanStep
<1>15. ASSUME NEW r \in Readers, FillStart(r) PROVE IInv'
  BY <1>15, FillStartStep
<1>16. ASSUME NEW r \in Readers, FillQuery(r) PROVE IInv'
  BY <1>16, FillQueryStep
<1>17. ASSUME NEW r \in Readers, FillPut(r) PROVE IInv'
  BY <1>17, FillPutStep
<1>18. ASSUME NEW r \in Readers, ReadDone(r) PROVE IInv'
  BY <1>18, ReadDoneStep
<1>19. ASSUME NEW r \in Readers, ReadAgain(r) PROVE IInv'
  BY <1>19, ReadAgainStep
<1>20. ASSUME NEW r \in Readers, ReadReturns(r) \/ ReadCancelled(r) PROVE IInv'
  BY <1>20, IdleStep DEF ReadReturns, ReadCancelled
<1>21. ASSUME UNCHANGED vars PROVE IInv'
  <2>1. UNCHANGED <<tableVars, commitVars, cacheVars, rd>>
    BY <1>21 DEF vars
  <2>2. /\ db' = db /\ prev' = prev /\ work' = work /\ commit' = commit /\ started' = started
        /\ finished' = finished /\ drop' = drop /\ below' = below
        /\ epoch' = epoch /\ entries' = entries /\ touched' = touched /\ floor' = floor
        /\ rd' = rd
    BY <2>1 DEF tableVars, commitVars, cacheVars
  <2>3. Typing' /\ CommitInv'
    BY <2>2 DEF IInv, Typing, TypeOK, CommitInv
  <2>4. CacheInv'
    <3>1. CacheInv
      BY DEF IInv
    <3>2. \A h \in HourStarts : \A rows : Fresh(rows, h)' <=> Fresh(rows, h)
      BY <2>2, FreshKept DEF PendingDrop
    <3> QED BY <2>2, <3>1, <3>2 DEF CacheInv, ClosedIn
  <2>5. ASSUME NEW q \in Readers PROVE ReaderInv(rd[q])'
    <3> SUFFICES ASSUME NEW x, x = rd[q] PROVE ReaderInv(x)'
      BY <2>2
    <3>1. ReaderInv(x)
      BY DEF IInv
    <3> QED BY <2>1, <2>2, <3>1, ReaderKept
  <2> QED BY <2>3, <2>4, <2>5 DEF IInv
<1> QED BY <1>1, <1>2, <1>3, <1>4, <1>5, <1>6, <1>7, <1>8, <1>9, <1>10, <1>11, <1>12, <1>13,
           <1>14, <1>15, <1>16, <1>17, <1>18, <1>19, <1>20, <1>21 DEF Next

------------------------------------------------------------------------------
(* Theorems                                                                 *)

\* The variables stay in their types, and the cache within its budget:
\* eviction makes room before a row is stored.
THEOREM CacheStaysInBudget == Spec => []TypeOK
<1>1. IInv => TypeOK
  BY DEF IInv, Typing
<1> QED BY <1>1, InitIInv, NextIInv, PTL DEF Spec

\* However fills, commits, failures and invalidations interleave, a cached
\* hour is the committed one, or its writer has still to drop it.
THEOREM CachedHoursAreFresh == Spec => []CacheIsFresh
<1>1. IInv => CacheIsFresh
  BY DEF IInv, CacheInv, Fresh, CacheIsFresh
<1> QED BY <1>1, InitIInv, NextIInv, PTL DEF Spec

\* Every minute of an answer is what a commit made it that was current at
\* some time of the read, and nothing outside the window is answered: the
\* minute table, the rollup and the cache neither count a minute twice nor
\* lose one between the snapshots of a read.
THEOREM AnswersAreRecent == Spec => []AnswerIsRecent
<1>1. IInv => AnswerIsRecent
  <2> SUFFICES ASSUME IInv, NEW r \in Readers, rd[r].at = "done", NEW m \in Buckets
               PROVE  IF InWindow(r, m) THEN \E v \in rd[r].seen : rd[r].sum[m] = v.pair[m]
                                        ELSE rd[r].sum[m] = 0
    BY DEF AnswerIsRecent
  <2>1. AnswerInv(rd[r])
    BY DEF IInv, ReaderInv
  <2> QED BY <2>1 DEF AnswerInv, Inside, InWindow
<1> QED BY <1>1, InitIInv, NextIInv, PTL DEF Spec

\* What an answer says of the filling hour and of the minutes after the mark
\* comes from one commit, also when it was read in parallel from several
\* snapshots.
THEOREM OpenPartsAreOneCommit == Spec => []OpenPartIsOneCommit
<1>1. IInv => OpenPartIsOneCommit
  <2> SUFFICES ASSUME IInv, NEW r \in Readers, rd[r].at = "done"
               PROVE  \E v \in rd[r].seen : \A m \in Buckets :
                        (InWindow(r, m) /\ (m > rd[r].mark
                           \/ HoldsHour(splitClosedHours(rd[r].plan.hours, rd[r].mark).open, m)))
                          => rd[r].sum[m] = v.pair[m]
    BY DEF OpenPartIsOneCommit
  <2> DEFINE me == rd[r]
             open == splitClosedHours(me.plan.hours, me.mark).open
  <2>1. AnswerInv(me) /\ me \in ReaderRecords /\ Planned(me)
    BY ReaderFacts DEF ReaderInv, AnswerInv
  <2>2. PICK v \in me.seen : \A m \in Buckets : OpenPart(me, m) => me.sum[m] = v.pair[m]
    BY <2>1 DEF AnswerInv, OpenIsOne
  <2> HIDE DEF me
  <2>3. ASSUME NEW m \in Buckets, Inside(me, m), m > me.mark \/ HoldsHour(open, m)
        PROVE  OpenPart(me, m)
    <3>1. m \in Nat /\ me.mark \in Int /\ HourOf(m) \in HourStarts /\ MarkOK(me.mark)
          /\ me.win[1] \in Nat /\ me.win[2] \in Nat
          /\ me.plan = planHoursThroughMark(me.win[1], me.win[2], me.mark)
      BY <2>1, BucketFacts DEF ReaderRecords, Planned
    <3>2. Direct(me, m) \/ ByHour(me, m)
      BY <2>1, <2>3, PlanFacts
    <3>3. CASE m > me.mark
      BY <3>1, <3>2, <3>3 DEF OpenPart, ByHour
    <3>4. CASE ~(m > me.mark) /\ HoldsHour(open, m)
      <4>1. Holds(open, HourOf(m)) <=> Holds(me.plan.hours, HourOf(m)) /\ ~Whole(me, HourOf(m))
        <5> DEFINE hours == planHoursThroughMark(me.win[1], me.win[2], me.mark).hours
                   h == HourOf(m)
        <5>1. h \in HourStarts /\ me.plan.hours = hours
          BY <3>1
        <5> HIDE DEF h
        <5>2. Holds(splitClosedHours(hours, me.mark).open, h) <=>
                Holds(hours, h) /\ ~(h + hourSeconds <= me.mark + minuteSeconds)
          BY <3>1, <5>1, SplitHoursExact
        <5> HIDE DEF hours
        <5> QED BY <5>1, <5>2 DEF Whole, h
      <4> QED BY <3>1, <3>4, <4>1 DEF OpenPart, ByHour, HoldsHour
    <3> QED BY <2>3, <3>3, <3>4
  <2> QED BY <2>2, <2>3 DEF me, Inside, InWindow
<1> QED BY <1>1, InitIInv, NextIInv, PTL DEF Spec

===============================================================================

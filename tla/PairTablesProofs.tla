--------------------------- MODULE PairTablesProofs ---------------------------
(***************************************************************************)
(* Lemmas about the statements of a write (PairTables), for every set of   *)
(* buckets: each of them keeps the hourly rows equal to the minutes they   *)
(* stand for.  They are stated once here for the proofs about the store    *)
(* (PairStoreProofs), its refinement and its readers.                      *)
(***************************************************************************)
EXTENDS PairTables, FiniteSetTheorems, WellFoundedInduction, TLAPS

Aligned(d) == MarkOK(d.mark)

\* Tables in which the rollup is right.
Sound(d) == d \in Tables /\ HoursMatch(d) /\ Aligned(d)

------------------------------------------------------------------------------
(* Arithmetic                                                               *)

\* A nonempty set of naturals has a least element.
LEMMA LeastNat ==
    ASSUME NEW S \in SUBSET Nat, S # {}
    PROVE  \E x \in S : \A y \in S : x <= y
<1> DEFINE Less == {p \in Nat \X Nat : p[1] < p[2]}
<1>1. IsWellFoundedOn(Less, Nat)
  BY NatLessThanWellFounded DEF OpToRel
<1>2. PICK x \in S : \A y \in S : <<y, x>> \notin Less
  <2> HIDE DEF Less
  <2> QED BY <1>1, WFMin
<1>3. \A y \in S : ~(y < x)
  BY <1>2
<1> QED BY <1>3

\* Hours partition time.
LEMMA HourFacts ==
    \A t \in Nat :
      /\ HourOf(t) \in Nat
      /\ HourOf(t) <= t /\ t < HourOf(t) + hourSeconds
      /\ HourOf(t) % minuteSeconds = 0
      /\ \A n \in Nat : HourOf(t) <= n /\ n < HourOf(t) + hourSeconds
                          => HourOf(n) = HourOf(t)
BY DEF HourOf, hourSeconds, minuteSeconds

LEMMA HoursDisjoint ==
    \A s, t \in Nat : HourOf(s) < HourOf(t) => HourOf(s) + hourSeconds <= HourOf(t)
BY DEF HourOf, hourSeconds

LEMMA MinuteFacts ==
    \A t \in Nat :
      /\ floorMinute(t) \in Nat
      /\ floorMinute(t) <= t
      /\ floorMinute(t) % minuteSeconds = 0
BY DEF floorMinute, minuteSeconds

LEMMA BucketFacts ==
    /\ \A m \in Buckets : m \in Nat /\ m % minuteSeconds = 0
    /\ \A m \in Buckets : HourOf(m) \in HourStarts
    /\ \A h \in HourStarts : h \in Nat /\ HourOf(h) = h
<1>1. \A m \in Buckets : m \in Nat /\ m % minuteSeconds = 0
  BY BucketsAssumption
<1>2. \A h \in HourStarts : h \in Nat /\ HourOf(h) = h
  BY <1>1 DEF HourStarts, HourOf, hourSeconds
<1> QED BY <1>1, <1>2 DEF HourStarts

------------------------------------------------------------------------------
(* The statements of a write keep the tables sound                          *)

WithRows(d, p, h) == [d EXCEPT !.pair = p, !.hours = h]

\* Replacing both kinds of rows.
LEMMA RowsUpdate ==
    ASSUME NEW d \in Tables, NEW p \in [Buckets -> Nat],
           NEW h \in [HourStarts -> [Buckets -> Nat]]
    PROVE  /\ WithRows(d, p, h) \in Tables
           /\ WithRows(d, p, h).pair = p /\ WithRows(d, p, h).hours = h
           /\ WithRows(d, p, h).mark = d.mark /\ WithRows(d, p, h).cursor = d.cursor
           /\ WithRows(d, p, h).ingested = d.ingested
BY DEF Tables, WithRows

WithHours(d, h) == [d EXCEPT !.hours = h]

LEMMA HoursUpdate ==
    ASSUME NEW d \in Tables, NEW h \in [HourStarts -> [Buckets -> Nat]]
    PROVE  /\ WithHours(d, h) \in Tables
           /\ WithHours(d, h).pair = d.pair /\ WithHours(d, h).hours = h
           /\ WithHours(d, h).mark = d.mark /\ WithHours(d, h).cursor = d.cursor
           /\ WithHours(d, h).ingested = d.ingested
BY DEF Tables, WithHours

LEMMA MarkUpdate ==
    ASSUME NEW d \in Tables, NEW b \in Int
    PROVE  /\ setHourMark(d, b) \in Tables
           /\ setHourMark(d, b).pair = d.pair /\ setHourMark(d, b).hours = d.hours
           /\ setHourMark(d, b).mark = Later(d.mark, b)
           /\ setHourMark(d, b).cursor = d.cursor
           /\ setHourMark(d, b).ingested = d.ingested
BY DEF Tables, setHourMark, Later

\* mergeMinutesIntoHour touches one hour row, and there only adds.
LEMMA MergeFacts ==
    ASSUME NEW d \in Tables, NEW hour \in Nat, NEW lo \in Int, NEW hi \in Int
    PROVE  LET e == mergeMinutesIntoHour(d, hour, lo, hi)
           IN  /\ e \in Tables
               /\ e.pair = d.pair /\ e.mark = d.mark /\ e.cursor = d.cursor
               /\ e.ingested = d.ingested
               /\ \A h \in HourStarts, m \in Buckets : e.hours[h][m] =
                    d.hours[h][m] + IF h = hour /\ lo < m /\ m < hi THEN d.pair[m] ELSE 0
<1> DEFINE hr == [h \in HourStarts |-> [m \in Buckets |->
                   d.hours[h][m] + IF h = hour /\ lo < m /\ m < hi THEN d.pair[m] ELSE 0]]
<1>1. mergeMinutesIntoHour(d, hour, lo, hi) = WithHours(d, hr)
  BY DEF mergeMinutesIntoHour, WithHours
<1>2. hr \in [HourStarts -> [Buckets -> Nat]]
  BY DEF Tables
<1>3. /\ WithHours(d, hr) \in Tables
      /\ WithHours(d, hr).pair = d.pair /\ WithHours(d, hr).hours = hr
      /\ WithHours(d, hr).mark = d.mark /\ WithHours(d, hr).cursor = d.cursor
      /\ WithHours(d, hr).ingested = d.ingested
  <2> HIDE DEF hr
  <2> QED BY <1>2, HoursUpdate
<1> QED BY <1>1, <1>3

\* Adding a batch: late minutes reach the hour row with the minute row.
LEMMA UpsertSound ==
    ASSUME NEW d, Sound(d), NEW delta \in [Buckets -> Nat]
    PROVE  /\ Sound(upsertNodePairs(d, delta))
           /\ upsertNodePairs(d, delta).pair = [m \in Buckets |-> d.pair[m] + delta[m]]
           /\ upsertNodePairs(d, delta).mark = d.mark
           /\ upsertNodePairs(d, delta).cursor = d.cursor
           /\ upsertNodePairs(d, delta).ingested = d.ingested
<1> DEFINE e == upsertNodePairs(d, delta)
           p == [m \in Buckets |-> d.pair[m] + delta[m]]
           hr == [h \in HourStarts |-> [m \in Buckets |->
                   d.hours[h][m] + IF HourOf(m) = h /\ m <= d.mark THEN delta[m] ELSE 0]]
<1>1. d \in Tables /\ HoursMatch(d) /\ Aligned(d)
  BY DEF Sound
<1>a. e = WithRows(d, p, hr)
  BY DEF upsertNodePairs, WithRows
<1>b. p \in [Buckets -> Nat] /\ hr \in [HourStarts -> [Buckets -> Nat]]
  BY <1>1 DEF Tables
<1>2. /\ e \in Tables
      /\ e.mark = d.mark /\ e.cursor = d.cursor /\ e.ingested = d.ingested
      /\ e.pair = p /\ e.hours = hr
  <2> HIDE DEF e, p, hr
  <2> QED BY <1>1, <1>a, <1>b, RowsUpdate
<1>3. e \in Tables
  BY <1>2
<1>4. HoursMatch(e)
  <2> SUFFICES ASSUME NEW h \in HourStarts, NEW m \in Buckets
               PROVE  e.hours[h][m] = Rolled(e, h, m)
    BY DEF HoursMatch
  <2>1. d.hours[h][m] = Rolled(d, h, m) /\ d.pair[m] \in Nat /\ delta[m] \in Nat
    BY <1>1 DEF HoursMatch, Tables
  <2>2. e.hours[h][m] =
          d.hours[h][m] + IF HourOf(m) = h /\ m <= d.mark THEN delta[m] ELSE 0
    BY <1>2
  <2>3. e.pair[m] = d.pair[m] + delta[m]
    BY <1>2
  <2> QED BY <1>2, <2>1, <2>2, <2>3 DEF Rolled
<1>5. Aligned(e)
  BY <1>1, <1>2 DEF Aligned, MarkOK
<1> HIDE DEF e
<1> QED BY <1>2, <1>3, <1>4, <1>5 DEF Sound, e

LEMMA CursorSound ==
    ASSUME NEW d, Sound(d), NEW end \in Nat
    PROVE  /\ Sound(upsertPollCursor(d, end))
           /\ upsertPollCursor(d, end).mark = d.mark
           /\ upsertPollCursor(d, end).pair = d.pair
           /\ upsertPollCursor(d, end).ingested = d.ingested
           /\ upsertPollCursor(d, end).cursor = Later(d.cursor, end)
           /\ upsertPollCursor(d, end).cursor >= d.cursor
<1> DEFINE e == upsertPollCursor(d, end)
<1>1. d \in Tables /\ HoursMatch(d) /\ Aligned(d)
  BY DEF Sound
<1>2. /\ e \in Tables /\ e.mark = d.mark /\ e.pair = d.pair /\ e.hours = d.hours
      /\ e.ingested = d.ingested /\ e.cursor = Later(d.cursor, end)
  BY <1>1 DEF upsertPollCursor, Tables, Later
<1>3. e.cursor >= d.cursor
  BY <1>1 DEF upsertPollCursor, Tables, Later
<1> HIDE DEF e
<1>4. HoursMatch(e) /\ Aligned(e)
  BY <1>1, <1>2 DEF HoursMatch, Aligned, MarkOK, Rolled
<1> QED BY <1>2, <1>3, <1>4 DEF Sound, e

LEMMA IngestedSound ==
    ASSUME NEW d, Sound(d), NEW k \in Keys, NEW t \in Nat
    PROVE  /\ Sound([d EXCEPT !.ingested[k] = t])
           /\ [d EXCEPT !.ingested[k] = t].pair = d.pair
           /\ [d EXCEPT !.ingested[k] = t].ingested = [d.ingested EXCEPT ![k] = t]
           /\ [d EXCEPT !.ingested[k] = t].mark = d.mark
           /\ [d EXCEPT !.ingested[k] = t].cursor = d.cursor
<1> DEFINE e == [d EXCEPT !.ingested[k] = t]
<1>1. d \in Tables /\ HoursMatch(d) /\ Aligned(d)
  BY DEF Sound
<1>2. /\ e \in Tables /\ e.mark = d.mark /\ e.cursor = d.cursor
      /\ e.pair = d.pair /\ e.hours = d.hours
      /\ e.ingested = [d.ingested EXCEPT ![k] = t]
  BY <1>1 DEF Tables
<1> HIDE DEF e
<1>3. HoursMatch(e) /\ Aligned(e)
  BY <1>1, <1>2 DEF HoursMatch, Aligned, MarkOK, Rolled
<1> QED BY <1>2, <1>3 DEF Sound, e

------------------------------------------------------------------------------
(* Closing minutes                                                          *)

\* The oldest pending minute exists.
LEMMA NextMinuteFacts ==
    ASSUME NEW d, NEW t \in Nat, Pending(d, floorMinute(t)) # {}
    PROVE  /\ NextMinute(d, t) \in Pending(d, floorMinute(t))
           /\ \A n \in Pending(d, floorMinute(t)) : NextMinute(d, t) <= n
<1> DEFINE P == Pending(d, floorMinute(t))
<1>1. P \in SUBSET Nat
  BY BucketFacts DEF Pending
<1>2. \E m \in P : \A n \in P : m <= n
  <2> HIDE DEF P
  <2> QED BY <1>1, LeastNat DEF P
<1> QED BY <1>2 DEF NextMinute

\* The chunk that is merged: the minutes between the mark and its end are
\* minutes of one hour, and the new mark is the last of them.
LEMMA ChunkFacts ==
    ASSUME NEW d, Sound(d), NEW t \in Nat,
           ~NothingToClose(d, t), Pending(d, floorMinute(t)) # {}, ~rollFails(d, t)
    PROVE  LET next == NextMinute(d, t)  end == ChunkEnd(d, t)
           IN  /\ next \in Buckets /\ next > d.mark /\ next < end
               /\ end \in Nat /\ end <= floorMinute(t)
               /\ NewMark(d, t) = end - minuteSeconds
               /\ NewMark(d, t) \in Nat /\ NewMark(d, t) > d.mark
               /\ NewMark(d, t) % minuteSeconds = 0
               /\ \A m \in Buckets : d.mark < m /\ m < end /\ d.pair[m] > 0
                                      => HourOf(m) = HourOf(next)
<1> DEFINE next == NextMinute(d, t)
           end == ChunkEnd(d, t)
           ct == floorMinute(t)
<1>1. /\ next \in Buckets /\ next \in Nat /\ next % minuteSeconds = 0
      /\ next > d.mark /\ next < ct /\ d.mark \in Int
      /\ \A n \in Pending(d, ct) : next <= n
  BY NextMinuteFacts, BucketFacts DEF Pending, Sound, Tables
<1>2. ct \in Nat /\ ct % minuteSeconds = 0
  BY MinuteFacts
<1>3. /\ end = Smaller(HourOf(next) + hourSeconds, ct)
      /\ end \in Nat /\ end <= ct /\ end <= HourOf(next) + hourSeconds
      /\ end % minuteSeconds = 0
      /\ next < end
  <2> HIDE DEF next, ct
  <2>1. end = Smaller(HourOf(next) + hourSeconds, ct)
    BY DEF ChunkEnd, next, ct
  <2>2. /\ HourOf(next) \in Nat /\ HourOf(next) % 60 = 0
        /\ next < HourOf(next) + hourSeconds
    BY <1>1, HourFacts DEF minuteSeconds
  <2> HIDE DEF end
  <2> QED BY <1>1, <1>2, <2>1, <2>2 DEF Smaller, hourSeconds, minuteSeconds
<1>4. NewMark(d, t) = Later(end - minuteSeconds, next)
  BY DEF NewMark
<1> HIDE DEF next, end, ct
<1>5. NewMark(d, t) = end - minuteSeconds /\ NewMark(d, t) >= next
  BY <1>1, <1>3, <1>4 DEF Later, minuteSeconds
<1>6. NewMark(d, t) \in Nat /\ NewMark(d, t) > d.mark /\ NewMark(d, t) % minuteSeconds = 0
  BY <1>1, <1>3, <1>5 DEF minuteSeconds
<1>7. ASSUME NEW m \in Buckets, d.mark < m, m < end, d.pair[m] > 0
      PROVE  HourOf(m) = HourOf(next)
  <2>1. m \in Pending(d, ct) /\ m \in Nat
    BY <1>1, <1>2, <1>3, <1>7, BucketFacts DEF Pending
  <2>2. next <= m /\ HourOf(next) <= m /\ m < HourOf(next) + hourSeconds
    BY <1>1, <1>3, <1>7, <2>1, HourFacts DEF hourSeconds
  <2> QED BY <1>1, <2>1, <2>2, HourFacts
<1> QED BY <1>1, <1>3, <1>5, <1>6, <1>7 DEF next, end, ct

\* One chunk of the rollup keeps the tables sound, moves the mark forward
\* only, and never past what is closed.
LEMMA RollSound ==
    ASSUME NEW d, Sound(d), NEW t \in Nat, ~rollFails(d, t)
    PROVE  LET r == rollNextHourChunk(d, t)
           IN  /\ Sound(r.d) /\ r.done \in BOOLEAN /\ r.d.pair = d.pair
               /\ r.d.mark >= d.mark /\ r.d.cursor = d.cursor
               /\ r.d.ingested = d.ingested
               /\ r.d.mark = d.mark \/ r.d.mark + minuteSeconds <= t
<1> DEFINE ct == floorMinute(t)
           r == rollNextHourChunk(d, t)
<1>0. /\ d \in Tables /\ HoursMatch(d) /\ Aligned(d)
      /\ d.mark \in Int /\ d.mark >= NoMark
      /\ ct \in Nat /\ ct <= t /\ ct % minuteSeconds = 0
  BY MinuteFacts DEF Sound, Tables, Aligned, MarkOK, NoMark
<1>1. CASE NothingToClose(d, t)
  BY <1>0, <1>1 DEF rollNextHourChunk
<1>2. CASE ~NothingToClose(d, t) /\ Pending(d, ct) = {}
  <2>1. ct > 0 /\ ct > d.mark + minuteSeconds
    BY <1>0, <1>2 DEF NothingToClose, minuteSeconds
  <2>2. CASE d.mark < 0
    BY <1>0, <1>2, <2>2 DEF rollNextHourChunk
  <2>3. CASE d.mark >= 0
    <3> DEFINE e == setHourMark(d, ct - minuteSeconds)
    <3>0. ~(d.mark < 0)
      BY <1>0, <2>3
    <3>1. r = [d |-> e, done |-> TRUE]
      BY <1>2, <3>0 DEF rollNextHourChunk
    <3>a. ct - minuteSeconds \in Int
      BY <1>0 DEF minuteSeconds
    <3>b. /\ e \in Tables /\ e.pair = d.pair /\ e.hours = d.hours /\ e.cursor = d.cursor
          /\ e.ingested = d.ingested
          /\ e.mark = Later(d.mark, ct - minuteSeconds)
      <4> HIDE DEF ct
      <4> QED BY <1>0, <3>a, MarkUpdate
    <3> HIDE DEF e
    <3>2. e.mark = ct - minuteSeconds
      BY <1>0, <2>1, <3>b DEF Later, minuteSeconds
    <3>3. Aligned(e)
      BY <1>0, <2>1, <2>3, <3>2, <3>b DEF Aligned, MarkOK, minuteSeconds
    <3>4. HoursMatch(e)
      <4> SUFFICES ASSUME NEW h \in HourStarts, NEW m \in Buckets
                   PROVE  e.hours[h][m] = Rolled(e, h, m)
        BY DEF HoursMatch
      <4>1. /\ d.hours[h][m] = Rolled(d, h, m) /\ d.pair[m] \in Nat
            /\ m \in Nat /\ m \notin Pending(d, ct)
        BY <1>0, <1>2, BucketFacts DEF HoursMatch, Tables
      <4>2. d.mark < m /\ m < ct => d.pair[m] = 0
        BY <4>1 DEF Pending
      <4> QED BY <1>0, <2>1, <3>2, <3>b, <4>1, <4>2 DEF Rolled, minuteSeconds
    <3> QED BY <1>0, <2>1, <3>1, <3>2, <3>b, <3>3, <3>4 DEF Sound, minuteSeconds
  <2> QED BY <1>0, <2>2, <2>3
<1>3. CASE ~NothingToClose(d, t) /\ Pending(d, ct) # {}
  <2> DEFINE next == NextMinute(d, t)
             end == ChunkEnd(d, t)
             f == mergeMinutesIntoHour(d, HourOf(next), d.mark, end)
             e == setHourMark(f, NewMark(d, t))
  <2>0. r = [d |-> e, done |-> NewMark(d, t) + minuteSeconds >= ct]
    BY <1>3 DEF rollNextHourChunk
  <2>1. r.d = e /\ r.done \in BOOLEAN
    <3> HIDE DEF e, r
    <3> QED BY <2>0
  <2>2. /\ next \in Buckets /\ next > d.mark /\ next < end
        /\ end \in Nat /\ end <= ct
        /\ NewMark(d, t) = end - minuteSeconds
        /\ NewMark(d, t) \in Nat /\ NewMark(d, t) > d.mark
        /\ NewMark(d, t) % minuteSeconds = 0
        /\ \A m \in Buckets : d.mark < m /\ m < end /\ d.pair[m] > 0
                               => HourOf(m) = HourOf(next)
    BY <1>3, ChunkFacts
  <2> HIDE DEF next, end, ct
  <2>3. HourOf(next) \in Nat
    BY <2>2, BucketFacts, HourFacts
  <2>4. /\ f \in Tables /\ f.pair = d.pair /\ f.mark = d.mark /\ f.cursor = d.cursor
        /\ f.ingested = d.ingested
        /\ \A h \in HourStarts, m \in Buckets : f.hours[h][m] = d.hours[h][m]
              + IF h = HourOf(next) /\ d.mark < m /\ m < end THEN d.pair[m] ELSE 0
    BY <1>0, <2>2, <2>3, MergeFacts
  <2> HIDE DEF f
  <2>a. /\ e \in Tables /\ e.pair = d.pair /\ e.hours = f.hours /\ e.cursor = d.cursor
        /\ e.ingested = d.ingested
        /\ e.mark = Later(d.mark, NewMark(d, t))
    <3>1. f \in Tables /\ NewMark(d, t) \in Int
      BY <2>2, <2>4
    <3>2. /\ e \in Tables /\ e.pair = f.pair /\ e.hours = f.hours
          /\ e.mark = Later(f.mark, NewMark(d, t)) /\ e.cursor = f.cursor
          /\ e.ingested = f.ingested
      BY <3>1, MarkUpdate
    <3> HIDE DEF e
    <3> QED BY <2>4, <3>2
  <2> HIDE DEF e, r
  <2>5. /\ e \in Tables /\ e.pair = d.pair /\ e.hours = f.hours /\ e.cursor = d.cursor
        /\ e.ingested = d.ingested
        /\ e.mark = end - minuteSeconds
    BY <1>0, <2>2, <2>a DEF Later
  <2>6. Aligned(e)
    BY <2>2, <2>5 DEF Aligned, MarkOK
  <2>7. HoursMatch(e)
    <3> SUFFICES ASSUME NEW h \in HourStarts, NEW m \in Buckets
                 PROVE  e.hours[h][m] = Rolled(e, h, m)
      BY DEF HoursMatch
    <3>1. /\ d.hours[h][m] = Rolled(d, h, m) /\ d.pair[m] \in Nat
          /\ m \in Nat /\ m % minuteSeconds = 0
      BY <1>0, BucketFacts DEF HoursMatch, Tables
    <3>2. e.hours[h][m] = d.hours[h][m]
            + IF h = HourOf(next) /\ d.mark < m /\ m < end THEN d.pair[m] ELSE 0
      BY <2>4, <2>5
    <3>3. m < end <=> m <= end - minuteSeconds
      BY <2>2, <3>1 DEF minuteSeconds
    <3>4. CASE m <= d.mark
      BY <1>0, <2>2, <2>5, <3>1, <3>2, <3>3, <3>4 DEF Rolled, minuteSeconds
    <3>5. CASE d.mark < m /\ m < end
      <4>1. d.pair[m] > 0 => HourOf(m) = HourOf(next)
        BY <2>2, <3>5
      <4> QED BY <1>0, <2>5, <3>1, <3>2, <3>3, <3>5, <4>1 DEF Rolled
    <3>6. CASE d.mark < m /\ end <= m
      BY <1>0, <2>2, <2>5, <3>1, <3>2, <3>3, <3>6 DEF Rolled
    <3> QED BY <1>0, <2>2, <3>1, <3>4, <3>5, <3>6
  <2> QED BY <1>0, <2>1, <2>2, <2>5, <2>6, <2>7 DEF Sound, minuteSeconds, r
<1> QED BY <1>1, <1>2, <1>3

\* The two errors of a chunk need a mark that the pending minutes are not
\* after, or an hour that ends before its minute.
LEMMA RollNeverFails == ASSUME NEW d, Sound(d), NEW t \in Nat PROVE ~rollFails(d, t)
<1> SUFFICES ASSUME rollFails(d, t) PROVE FALSE
  OBVIOUS
<1> DEFINE next == NextMinute(d, t)
           end == ChunkEnd(d, t)
           ct == floorMinute(t)
<1>1. /\ next \in Buckets /\ next \in Nat /\ next % minuteSeconds = 0
      /\ next > d.mark /\ next < ct /\ d.mark \in Int
  <2>1. Pending(d, ct) # {}
    BY DEF rollFails
  <2>2. next \in Pending(d, ct)
    BY <2>1, NextMinuteFacts
  <2> HIDE DEF next
  <2> QED BY <2>2, BucketFacts DEF Pending, Sound, Tables
<1>2. ct \in Nat /\ ct % minuteSeconds = 0
  BY MinuteFacts
<1>3. HourOf(next) \in Nat /\ next < HourOf(next) + hourSeconds
  BY <1>1, HourFacts
<1>4. end = Smaller(HourOf(next) + hourSeconds, ct)
  BY DEF ChunkEnd
<1>5. NewMark(d, t) = Later(end - minuteSeconds, next)
  BY DEF NewMark
<1>6. end <= next \/ NewMark(d, t) <= d.mark
  BY DEF rollFails
<1> HIDE DEF next, end, ct
<1> QED BY <1>1, <1>2, <1>3, <1>4, <1>5, <1>6
        DEF Smaller, Later, hourSeconds, minuteSeconds

------------------------------------------------------------------------------
(* Retention                                                                *)

LEMMA DropMinutesRows ==
    ASSUME NEW d \in Tables, NEW cutoff \in Int
    PROVE  LET e == DropMinutes(d, cutoff)
           IN  /\ e \in Tables
               /\ e.hours = d.hours /\ e.mark = d.mark /\ e.cursor = d.cursor
               /\ e.pair = [m \in Buckets |-> IF m < cutoff THEN 0 ELSE d.pair[m]]
               /\ e.ingested =
                    [k \in Keys |-> IF d.ingested[k] < cutoff THEN Never ELSE d.ingested[k]]
<1> DEFINE p == [m \in Buckets |-> IF m < cutoff THEN 0 ELSE d.pair[m]]
           g == [k \in Keys |-> IF d.ingested[k] < cutoff THEN Never ELSE d.ingested[k]]
           e == [d EXCEPT !.pair = p, !.ingested = g]
<1>1. DropMinutes(d, cutoff) = e
  BY DEF DropMinutes
<1>2. p \in [Buckets -> Nat] /\ g \in [Keys -> Int]
  BY DEF Tables, Never
<1>3. /\ e \in Tables /\ e.pair = p /\ e.ingested = g
      /\ e.hours = d.hours /\ e.mark = d.mark /\ e.cursor = d.cursor
  <2> HIDE DEF p, g
  <2> QED BY <1>2 DEF Tables
<1> HIDE DEF e
<1> QED BY <1>1, <1>3

LEMMA DropMinutesFacts ==
    ASSUME NEW d \in Tables, NEW cutoff \in Int
    PROVE  LET e == DropMinutes(d, cutoff)
           IN  /\ e \in Tables
               /\ e.hours = d.hours /\ e.mark = d.mark /\ e.cursor = d.cursor
               /\ \A m \in Buckets : e.pair[m] = IF m < cutoff THEN 0 ELSE d.pair[m]
<1> DEFINE e == DropMinutes(d, cutoff)
<1>1. /\ e \in Tables
      /\ e.hours = d.hours /\ e.mark = d.mark /\ e.cursor = d.cursor
      /\ e.pair = [m \in Buckets |-> IF m < cutoff THEN 0 ELSE d.pair[m]]
  BY DropMinutesRows
<1> HIDE DEF e
<1>2. \A m \in Buckets : e.pair[m] = IF m < cutoff THEN 0 ELSE d.pair[m]
  BY <1>1
<1> QED BY <1>1, <1>2 DEF e

LEMMA DropHoursFacts ==
    ASSUME NEW d \in Tables, NEW gone
    PROVE  LET e == DropHours(d, gone)
           IN  /\ e \in Tables
               /\ e.pair = d.pair /\ e.mark = d.mark /\ e.cursor = d.cursor
               /\ e.ingested = d.ingested
               /\ \A h \in HourStarts, m \in Buckets :
                    e.hours[h][m] = IF h \in gone THEN 0 ELSE d.hours[h][m]
<1> DEFINE hr == [h \in HourStarts |-> IF h \in gone THEN NoBytes ELSE d.hours[h]]
<1>1. DropHours(d, gone) = WithHours(d, hr)
  BY DEF DropHours, WithHours
<1>2. hr \in [HourStarts -> [Buckets -> Nat]]
  BY DEF Tables, NoBytes
<1>3. /\ WithHours(d, hr) \in Tables
      /\ WithHours(d, hr).pair = d.pair /\ WithHours(d, hr).hours = hr
      /\ WithHours(d, hr).mark = d.mark /\ WithHours(d, hr).cursor = d.cursor
      /\ WithHours(d, hr).ingested = d.ingested
  <2> HIDE DEF hr
  <2> QED BY <1>2, HoursUpdate
<1>4. \A h \in HourStarts, m \in Buckets :
        hr[h][m] = IF h \in gone THEN 0 ELSE d.hours[h][m]
  BY DEF NoBytes
<1> HIDE DEF hr
<1> QED BY <1>1, <1>3, <1>4

\* Retention keeps the tables sound: an hour it has passed goes with its
\* minutes, and the hour it splits is rebuilt from the minutes that stay.
LEMMA ExpireSound ==
    ASSUME NEW d, Sound(d), NEW cutoff \in Nat
    PROVE  /\ Sound(Expire(d, cutoff))
           /\ Expire(d, cutoff).pair = DropMinutes(d, cutoff).pair
           /\ Expire(d, cutoff).ingested = DropMinutes(d, cutoff).ingested
           /\ Expire(d, cutoff).mark = d.mark
           /\ Expire(d, cutoff).cursor = d.cursor
<1> DEFINE b == HourOf(cutoff)
           passed == {h \in HourStarts : h + hourSeconds <= cutoff}
           c == DropMinutes(d, cutoff)
           e == Expire(d, cutoff)
<1>1. /\ d \in Tables /\ HoursMatch(d) /\ Aligned(d) /\ d.mark \in Int
      /\ \A h \in HourStarts, m \in Buckets :
            d.hours[h][m] = Rolled(d, h, m) /\ d.pair[m] \in Nat
  BY DEF Sound, Tables, HoursMatch
<1>2. /\ c \in Tables
      /\ c.hours = d.hours /\ c.mark = d.mark /\ c.cursor = d.cursor
      /\ \A m \in Buckets : c.pair[m] = IF m < cutoff THEN 0 ELSE d.pair[m]
  BY <1>1, DropMinutesFacts
<1>3. b \in Nat /\ b <= cutoff /\ cutoff < b + hourSeconds
  BY HourFacts
<1>4. \A m \in Buckets, h \in HourStarts :
        /\ m \in Nat /\ m % minuteSeconds = 0 /\ h \in Nat
        /\ HourOf(m) = h => h <= m /\ m < h + hourSeconds
        /\ HourOf(m) = b <=> b <= m /\ m < b + hourSeconds
        /\ h = b \/ h + hourSeconds <= b \/ b + hourSeconds <= h
  <2> TAKE m \in Buckets, h \in HourStarts
  <2>1. m \in Nat /\ m % minuteSeconds = 0 /\ h \in Nat /\ HourOf(h) = h
    BY BucketFacts
  <2>2. HourOf(m) = h => h <= m /\ m < h + hourSeconds
    BY <2>1, HourFacts
  <2>3. HourOf(m) = b <=> b <= m /\ m < b + hourSeconds
    BY <2>1, HourFacts
  <2>4. h = b \/ h + hourSeconds <= b \/ b + hourSeconds <= h
    BY <1>3, <2>1, HoursDisjoint
  <2> QED BY <2>1, <2>2, <2>3, <2>4
<1>8. DropMinutes(d, cutoff) = c
  OBVIOUS
<1> HIDE DEF b, c
<1>5. CASE cutoff <= b
  <2>1. e = DropHours(c, passed)
    BY <1>5 DEF Expire, pruneHourRollups, b, c
  <2> HIDE DEF e, passed
  <2>2. /\ e \in Tables /\ e.pair = c.pair /\ e.mark = d.mark /\ e.cursor = d.cursor
        /\ e.ingested = c.ingested
        /\ \A h \in HourStarts, m \in Buckets :
              e.hours[h][m] = IF h \in passed THEN 0 ELSE d.hours[h][m]
    BY <1>2, <2>1, DropHoursFacts
  <2>3. ASSUME NEW h \in HourStarts, NEW m \in Buckets
        PROVE  e.hours[h][m] = Rolled(e, h, m)
    BY <1>1, <1>2, <1>3, <1>4, <1>5, <2>2 DEF Rolled, passed, hourSeconds
  <2> QED BY <1>1, <1>8, <2>2, <2>3 DEF Sound, HoursMatch, Aligned, MarkOK, e
<1>6. CASE cutoff > b /\ d.mark < cutoff
  <2>1. e = DropHours(c, passed \union {b})
    BY <1>2, <1>3, <1>6 DEF Expire, pruneHourRollups, b, c
  <2> HIDE DEF e, passed
  <2>2. /\ e \in Tables /\ e.pair = c.pair /\ e.mark = d.mark /\ e.cursor = d.cursor
        /\ e.ingested = c.ingested
        /\ \A h \in HourStarts, m \in Buckets :
              e.hours[h][m] = IF h \in passed \union {b} THEN 0 ELSE d.hours[h][m]
    BY <1>2, <2>1, DropHoursFacts
  <2>3. ASSUME NEW h \in HourStarts, NEW m \in Buckets
        PROVE  e.hours[h][m] = Rolled(e, h, m)
    BY <1>1, <1>2, <1>3, <1>4, <1>6, <2>2 DEF Rolled, passed, hourSeconds
  <2> QED BY <1>1, <1>8, <2>2, <2>3 DEF Sound, HoursMatch, Aligned, MarkOK, e
<1>7. CASE cutoff > b /\ d.mark >= cutoff
  <2> DEFINE f == DropHours(c, passed \union {b})
             hi == Smaller(b + hourSeconds, d.mark + minuteSeconds)
  <2>1. e = mergeMinutesIntoHour(f, b, cutoff - 1, hi)
    <3>1. ~(cutoff <= b) /\ ~(c.mark < cutoff) /\ c.mark = d.mark
      BY <1>1, <1>2, <1>3, <1>7
    <3> QED BY <3>1 DEF Expire, pruneHourRollups, b, c
  <2> HIDE DEF e, passed, f
  <2>2. /\ f \in Tables /\ f.pair = c.pair /\ f.mark = d.mark /\ f.cursor = d.cursor
        /\ f.ingested = c.ingested
        /\ \A h \in HourStarts, m \in Buckets :
              f.hours[h][m] = IF h \in passed \union {b} THEN 0 ELSE d.hours[h][m]
    BY <1>2, DropHoursFacts DEF f
  <2>3. hi \in Int /\ cutoff - 1 \in Int
    BY <1>1, <1>3 DEF Smaller, hourSeconds, minuteSeconds
  <2>4. \A m \in Nat : m < hi <=> m < b + hourSeconds /\ m < d.mark + minuteSeconds
    BY <1>1, <1>3 DEF Smaller, hourSeconds, minuteSeconds
  <2> HIDE DEF hi
  <2>5. /\ e \in Tables /\ e.pair = c.pair /\ e.mark = d.mark /\ e.cursor = d.cursor
        /\ e.ingested = c.ingested
        /\ \A h \in HourStarts, m \in Buckets : e.hours[h][m] = f.hours[h][m]
              + IF h = b /\ cutoff - 1 < m /\ m < hi THEN c.pair[m] ELSE 0
    <3>1. /\ e \in Tables /\ e.pair = f.pair /\ e.mark = f.mark /\ e.cursor = f.cursor
          /\ e.ingested = f.ingested
          /\ \A h \in HourStarts, m \in Buckets : e.hours[h][m] = f.hours[h][m]
                + IF h = b /\ cutoff - 1 < m /\ m < hi THEN f.pair[m] ELSE 0
      <4> DEFINE lo == cutoff - 1
                 g == mergeMinutesIntoHour(f, b, lo, hi)
      <4>1. f \in Tables /\ lo \in Int /\ e = g
        BY <2>1, <2>2, <2>3
      <4> HIDE DEF lo
      <4>2. /\ g \in Tables /\ g.pair = f.pair /\ g.mark = f.mark /\ g.cursor = f.cursor
            /\ g.ingested = f.ingested
            /\ \A h \in HourStarts, m \in Buckets : g.hours[h][m] = f.hours[h][m]
                  + IF h = b /\ lo < m /\ m < hi THEN f.pair[m] ELSE 0
        BY <1>3, <2>3, <4>1, MergeFacts
      <4> HIDE DEF g
      <4>3. /\ e \in Tables /\ e.pair = f.pair /\ e.mark = f.mark /\ e.cursor = f.cursor
            /\ e.ingested = f.ingested
            /\ \A h \in HourStarts, m \in Buckets : e.hours[h][m] = f.hours[h][m]
                  + IF h = b /\ lo < m /\ m < hi THEN f.pair[m] ELSE 0
        BY <4>1, <4>2
      <4> QED BY <4>3 DEF lo
    <3> QED BY <2>2, <3>1
  <2>6. ASSUME NEW h \in HourStarts, NEW m \in Buckets
        PROVE  e.hours[h][m] = Rolled(e, h, m)
    <3>1. m < d.mark + minuteSeconds <=> m <= d.mark
      BY <1>1, <1>4, <1>7 DEF Aligned, MarkOK, NoMark, minuteSeconds
    <3>2. e.hours[h][m] = (IF h \in passed \union {b} THEN 0 ELSE d.hours[h][m])
            + IF h = b /\ cutoff <= m /\ m < b + hourSeconds /\ m <= d.mark
                THEN d.pair[m] ELSE 0
      BY <1>2, <1>4, <2>2, <2>4, <2>5, <3>1
    <3>3. CASE h = b
      BY <1>1, <1>2, <1>3, <1>4, <2>5, <3>2, <3>3 DEF Rolled
    <3>4. CASE h # b
      BY <1>1, <1>2, <1>3, <1>4, <2>5, <3>2, <3>4 DEF Rolled, passed, hourSeconds
    <3> QED BY <3>3, <3>4
  <2> QED BY <1>1, <1>8, <2>5, <2>6 DEF Sound, HoursMatch, Aligned, MarkOK, e
<1> QED BY <1>1, <1>3, <1>5, <1>6, <1>7

------------------------------------------------------------------------------
(* Planned reads                                                            *)

\* An hour boundary splits time where it splits the hours.
LEMMA HourBoundary ==
    \A m, b \in Nat : HourOf(b) = b => (HourOf(m) < b <=> m < b)
BY DEF HourOf, hourSeconds

LEMMA HourFromFacts ==
    \A t \in Nat : /\ HourFrom(t) \in Nat /\ HourOf(HourFrom(t)) = HourFrom(t)
                   /\ t <= HourFrom(t)
BY DEF HourFrom, HourOf, hourSeconds

\* What a planner must get right, minute by minute: the plan holds the minute
\* once, through its own row or through the hour row that it is rolled into,
\* if it lies in the window, and not at all otherwise.
Exact(plan, start, end, mark) ==
    \A m \in Buckets :
      LET direct == Holds(plan.minutes, m)
          rolled == HoldsHour(plan.hours, m) /\ m <= mark
      IN  /\ ~(direct /\ rolled)
          /\ direct \/ rolled <=> start <= m /\ m < end

\* A bucket in one span, and in one of two spans that may be empty.
LEMMA HoldsOne ==
    \A lo, hi, b \in Int : Holds({<<lo, hi>>}, b) <=> lo <= b /\ b < hi
BY DEF Holds

LEMMA HoldsSpan ==
    \A x, y, m \in Int : Holds(SpanOf(x, y), m) <=> x <= m /\ m < y
<1> TAKE x, y, m \in Int
<1>1. CASE x < y
  BY <1>1, HoldsOne DEF SpanOf
<1>2. CASE ~(x < y)
  <2>1. SpanOf(x, y) = {}
    BY <1>2 DEF SpanOf
  <2> QED BY <1>2, <2>1 DEF Holds
<1> QED BY <1>1, <1>2

LEMMA HoldsTwo ==
    ASSUME NEW a \in Int, NEW b \in Int, NEW lo \in Int, NEW hi \in Int, NEW m \in Int
    PROVE  Holds(SpanOf(a, b) \union SpanOf(lo, hi), m)
             <=> (a <= m /\ m < b) \/ (lo <= m /\ m < hi)
<1>1. \A S, T : Holds(S \union T, m) <=> Holds(S, m) \/ Holds(T, m)
  BY DEF Holds
<1> QED BY <1>1, HoldsSpan

LEMMA PlanHoursExact ==
    ASSUME NEW mark, MarkOK(mark), NEW start \in Nat, NEW end \in Nat
    PROVE  Exact(planHours(start, end, mark), start, end, mark)
<1> DEFINE hs == HourFrom(start)
           until == RolledUntil(mark)
           he == HourOf(Smaller(end, until))
           plan == planHours(start, end, mark)
<1> SUFFICES ASSUME NEW m \in Buckets
             PROVE  LET direct == Holds(plan.minutes, m)
                        rolled == HoldsHour(plan.hours, m) /\ m <= mark
                    IN  /\ ~(direct /\ rolled)
                        /\ direct \/ rolled <=> start <= m /\ m < end
  BY DEF Exact
<1>1. /\ m \in Nat /\ hs \in Nat /\ until \in Nat
      /\ he \in Nat /\ HourOf(he) = he /\ HourOf(hs) = hs
      /\ start <= hs /\ he <= end /\ he <= until
  <2>1. until \in Nat
    BY DEF until, RolledUntil, MarkOK, NoMark, minuteSeconds
  <2>2. Smaller(end, until) \in Nat /\ Smaller(end, until) <= end /\ Smaller(end, until) <= until
    BY <2>1 DEF Smaller
  <2>3. he \in Nat /\ he <= Smaller(end, until) /\ HourOf(he) = he
    BY <2>2 DEF HourOf, hourSeconds
  <2> HIDE DEF he, until, hs
  <2> QED BY <2>1, <2>2, <2>3, BucketFacts, HourFromFacts DEF hs
<1>2. m < until => m <= mark
  BY BucketFacts DEF until, RolledUntil, MarkOK, NoMark, minuteSeconds
<1>3. HourOf(m) \in Nat /\ (HourOf(m) < he <=> m < he) /\ (HourOf(m) < hs <=> m < hs)
  BY <1>1, HourBoundary, HourFacts
<1>4. plan = IF start >= end THEN [minutes |-> {}, hours |-> {}]
             ELSE IF hs >= he \/ he <= start \/ hs >= end
               THEN [minutes |-> {<<start, end>>}, hours |-> {}]
             ELSE [minutes |-> SpanOf(start, hs) \union SpanOf(he, end), hours |-> {<<hs, he>>}]
  BY DEF planHours
<1> HIDE DEF plan, hs, he, until
<1>5. CASE start >= end
  BY <1>1, <1>4, <1>5 DEF Holds, HoldsHour
<1>6. CASE start < end /\ (hs >= he \/ he <= start \/ hs >= end)
  <2>1. plan.minutes = {<<start, end>>} /\ plan.hours = {}
    BY <1>1, <1>4, <1>6
  <2> QED BY <1>1, <2>1, <1>6 DEF Holds, HoldsHour
<1>7. CASE start < end /\ ~(hs >= he \/ he <= start \/ hs >= end)
  <2>1. plan.minutes = SpanOf(start, hs) \union SpanOf(he, end) /\ plan.hours = {<<hs, he>>}
    BY <1>1, <1>4, <1>7
  <2>2. Holds(plan.minutes, m) <=> (start <= m /\ m < hs) \/ (he <= m /\ m < end)
    <3>1. start \in Int /\ hs \in Int /\ he \in Int /\ end \in Int /\ m \in Int
      BY <1>1
    <3>2. Holds(SpanOf(start, hs) \union SpanOf(he, end), m)
            <=> (start <= m /\ m < hs) \/ (he <= m /\ m < end)
      BY <3>1, HoldsTwo
    <3> QED BY <2>1, <3>2
  <2>3. HoldsHour(plan.hours, m) <=> hs <= HourOf(m) /\ HourOf(m) < he
    BY <2>1 DEF Holds, HoldsHour
  <2> QED BY <1>1, <1>2, <1>3, <1>7, <2>2, <2>3
<1> QED BY <1>1, <1>5, <1>6, <1>7

LEMMA PlanThroughMarkExact ==
    ASSUME NEW mark, MarkOK(mark), NEW start \in Nat, NEW end \in Nat
    PROVE  Exact(planHoursThroughMark(start, end, mark), start, end, mark)
<1> DEFINE plan == planHours(start, end, mark)
           through == planHoursThroughMark(start, end, mark)
           until == mark + minuteSeconds
           filling == HourOf(until)
           hs == IF plan.hours = {} THEN filling ELSE (CHOOSE s \in plan.hours : TRUE)[1]
           Stays == mark < 0 \/ until % hourSeconds = 0 \/ end < until \/ filling < start
<1>1. through = IF Stays THEN plan
                ELSE [minutes |-> SpanOf(start, hs) \union SpanOf(until, end),
                      hours |-> {<<hs, until>>}]
  BY DEF planHoursThroughMark
<1>2. Exact(plan, start, end, mark)
  BY PlanHoursExact
<1>3. CASE Stays
  BY <1>1, <1>2, <1>3
<1>4. CASE ~Stays
  <2> HIDE DEF plan, through
  <2>1. /\ mark \in Nat /\ until \in Nat /\ mark % minuteSeconds = 0
        /\ filling \in Nat /\ filling <= until /\ until < filling + hourSeconds
        /\ HourOf(filling) = filling /\ until <= end /\ start <= filling
        /\ filling # until
    <3>1. mark \in Nat /\ until \in Nat /\ mark % minuteSeconds = 0
      BY <1>4 DEF MarkOK, NoMark, minuteSeconds
    <3>2. HourOf(filling) = filling /\ filling # until
      BY <1>4, <3>1 DEF HourOf, hourSeconds
    <3> QED BY <1>4, <3>1, <3>2, HourFacts
  <2>2. hs \in Nat /\ HourOf(hs) = hs /\ start <= hs /\ hs <= filling
    <3>1. CASE plan.hours = {}
      BY <2>1, <3>1
    <3>2. CASE plan.hours # {}
      <4> DEFINE he == HourOf(Smaller(end, RolledUntil(mark)))
      <4>1. plan.hours = {<<HourFrom(start), he>>} /\ HourFrom(start) < he
        <5>1. HourFrom(start) \in Nat /\ he \in Int
          BY HourFromFacts, <2>1 DEF HourOf, Smaller, RolledUntil, hourSeconds, minuteSeconds
        <5> QED BY <3>2, <5>1 DEF plan, planHours
      <4>2. hs = HourFrom(start)
        <5>1. (CHOOSE s \in plan.hours : TRUE) \in plan.hours
          BY <3>2
        <5>2. (CHOOSE s \in plan.hours : TRUE) = <<HourFrom(start), he>>
          <6> HIDE DEF he
          <6> QED BY <4>1, <5>1
        <5>3. hs = (CHOOSE s \in plan.hours : TRUE)[1]
          BY <3>2
        <5> HIDE DEF hs, he
        <5>4. (CHOOSE s \in plan.hours : TRUE)[1] = HourFrom(start)
          <6> DEFINE c == CHOOSE s \in plan.hours : TRUE
          <6>1. c = <<HourFrom(start), he>>
            BY <5>2
          <6> HIDE DEF c
          <6>2. c[1] = HourFrom(start)
            BY <6>1
          <6> QED BY <6>2 DEF c
        <5> QED BY <5>3, <5>4
      <4>3. he = filling
        BY <2>1 DEF Smaller, RolledUntil
      <4> HIDE DEF he, hs
      <4> QED BY <2>1, <4>1, <4>2, <4>3, HourFromFacts
    <3> QED BY <3>1, <3>2
  <2> HIDE DEF hs, filling, until
  <2>3. /\ through.minutes = SpanOf(start, hs) \union SpanOf(until, end)
        /\ through.hours = {<<hs, until>>}
    BY <1>1, <1>4
  <2> SUFFICES ASSUME NEW m \in Buckets
               PROVE  LET direct == Holds(through.minutes, m)
                          rolled == HoldsHour(through.hours, m) /\ m <= mark
                      IN  /\ ~(direct /\ rolled)
                          /\ direct \/ rolled <=> start <= m /\ m < end
    BY DEF Exact, through
  <2>4. m \in Nat /\ HourOf(m) \in Nat /\ (HourOf(m) < hs <=> m < hs) /\ HourOf(m) <= m
    BY <2>2, BucketFacts, HourBoundary, HourFacts
  <2>5. m <= mark <=> m < until
    BY <2>1, BucketFacts DEF until, minuteSeconds
  <2>6. Holds(through.minutes, m) <=> (start <= m /\ m < hs) \/ (until <= m /\ m < end)
    <3>1. Holds(SpanOf(start, hs) \union SpanOf(until, end), m)
            <=> (start <= m /\ m < hs) \/ (until <= m /\ m < end)
      <4>1. start \in Int /\ hs \in Int /\ until \in Int /\ end \in Int /\ m \in Int
        BY <2>1, <2>2, <2>4
      <4> QED BY <4>1, HoldsTwo
    <3> QED BY <2>3, <3>1
  <2>7. HoldsHour(through.hours, m) <=> hs <= HourOf(m) /\ HourOf(m) < until
    BY <2>1, <2>2, <2>3, <2>4, HoldsOne DEF HoldsHour
  <2> QED BY <2>1, <2>2, <2>4, <2>5, <2>6, <2>7
<1> QED BY <1>3, <1>4

\* The hours of a plan are one span from an hour boundary, which ends at an
\* hour boundary or at the end of the newest rolled minute.
LEMMA PlannedHours ==
    ASSUME NEW mark, MarkOK(mark), NEW start \in Nat, NEW end \in Nat,
           NEW s \in planHoursThroughMark(start, end, mark).hours
    PROVE  /\ s = <<s[1], s[2]>> /\ s[1] \in Nat /\ s[2] \in Nat /\ mark \in Nat
           /\ HourOf(s[1]) = s[1] /\ s[1] < s[2]
           /\ s[2] = mark + minuteSeconds \/ (HourOf(s[2]) = s[2] /\ s[2] <= mark + minuteSeconds)
<1> DEFINE plan == planHours(start, end, mark)
           until == mark + minuteSeconds
           filling == HourOf(until)
           he == HourOf(Smaller(end, RolledUntil(mark)))
           hs == IF plan.hours = {} THEN filling ELSE (CHOOSE x \in plan.hours : TRUE)[1]
           Stays == mark < 0 \/ until % hourSeconds = 0 \/ end < until \/ filling < start
           Shaped(x) == /\ x = <<x[1], x[2]>> /\ x[1] \in Nat /\ x[2] \in Nat /\ mark \in Nat
                        /\ HourOf(x[1]) = x[1] /\ x[1] < x[2]
                        /\ x[2] = until \/ (HourOf(x[2]) = x[2] /\ x[2] <= until)
<1>1. /\ he \in Nat /\ HourOf(he) = he
      /\ he > 0 => mark \in Nat /\ he <= until
  BY DEF he, HourOf, Smaller, RolledUntil, MarkOK, NoMark, hourSeconds, minuteSeconds
<1>2. HourFrom(start) \in Nat /\ HourOf(HourFrom(start)) = HourFrom(start)
  BY HourFromFacts
<1>3. plan.hours = {} \/ (plan.hours = {<<HourFrom(start), he>>} /\ HourFrom(start) < he)
  BY <1>1, <1>2 DEF planHours
<1> HIDE DEF he, plan
<1>4. ASSUME NEW x \in plan.hours PROVE Shaped(x)
  BY <1>1, <1>2, <1>3
<1>5. CASE Stays
  <2>1. planHoursThroughMark(start, end, mark) = plan
    BY <1>5 DEF planHoursThroughMark, plan
  <2> QED BY <1>4, <2>1
<1>6. CASE ~Stays
  <2>1. planHoursThroughMark(start, end, mark).hours = {<<hs, until>>}
    BY <1>6 DEF planHoursThroughMark, plan
  <2>2. /\ mark \in Nat /\ until \in Nat /\ filling \in Nat /\ filling <= until
        /\ HourOf(filling) = filling /\ filling # until
    <3>1. mark \in Nat /\ until \in Nat
      BY <1>6 DEF MarkOK, NoMark, minuteSeconds
    <3>2. HourOf(filling) = filling /\ filling # until
      BY <1>6, <3>1 DEF HourOf, hourSeconds
    <3> QED BY <3>1, <3>2, HourFacts
  <2>3. hs \in Nat /\ HourOf(hs) = hs /\ hs < until
    <3>1. CASE plan.hours = {}
      BY <2>2, <3>1
    <3>2. CASE plan.hours # {}
      <4> DEFINE c == CHOOSE x \in plan.hours : TRUE
      <4>1. c \in plan.hours /\ hs = c[1]
        BY <3>2
      <4> HIDE DEF c, hs
      <4>2. Shaped(c) /\ c[1] < c[2] /\ c[2] <= until
        BY <1>4, <4>1, <2>2
      <4> QED BY <2>2, <4>1, <4>2
    <3> QED BY <3>1, <3>2
  <2> HIDE DEF hs
  <2>4. s = <<hs, until>>
    BY <2>1
  <2> QED BY <2>2, <2>3, <2>4
<1> QED BY <1>5, <1>6

\* A closed part of an hour span is the hours that end with or before it.
LEMMA CutFacts ==
    ASSUME NEW a \in Nat, NEW c \in Nat, HourOf(a) = a, a <= c
    PROVE  LET k == a + ((c - a) \div hourSeconds) * hourSeconds
           IN  /\ k \in Nat /\ HourOf(k) = k /\ a <= k /\ k <= c /\ c < k + hourSeconds
BY DEF HourOf, hourSeconds

LEMMA SplitHoursExact ==
    ASSUME NEW mark, MarkOK(mark), NEW start \in Nat, NEW end \in Nat, NEW h \in HourStarts
    PROVE  LET hours == planHoursThroughMark(start, end, mark).hours
               parts == splitClosedHours(hours, mark)
               whole == h + hourSeconds <= mark + minuteSeconds
           IN  /\ Holds(parts.closed, h) <=> Holds(hours, h) /\ whole
               /\ Holds(parts.open, h) <=> Holds(hours, h) /\ ~whole
<1> DEFINE hours == planHoursThroughMark(start, end, mark).hours
           parts == splitClosedHours(hours, mark)
           whole == h + hourSeconds <= mark + minuteSeconds
           until == mark + minuteSeconds
           Cut(s) == IF ClosedCut(s, mark) > s[1] THEN ClosedCut(s, mark) ELSE s[1]
<1>0. h \in Nat /\ HourOf(h) = h
  BY BucketFacts
<1>1. ASSUME NEW s \in hours
      PROVE  /\ s[1] \in Nat /\ s[2] \in Nat /\ Cut(s) \in Nat
             /\ s[1] <= h /\ h < Cut(s) <=> s[1] <= h /\ h < s[2] /\ whole
             /\ Cut(s) <= h /\ h < s[2] <=> s[1] <= h /\ h < s[2] /\ ~whole
  <2>1. /\ s[1] \in Nat /\ s[2] \in Nat /\ mark \in Nat
        /\ HourOf(s[1]) = s[1] /\ s[1] < s[2]
        /\ s[2] = until \/ (HourOf(s[2]) = s[2] /\ s[2] <= until)
    BY <1>1, PlannedHours
  <2>2. Smaller(s[2], until) = s[2]
    BY <2>1 DEF Smaller, minuteSeconds
  <2> DEFINE k == ClosedCut(s, mark)
  <2>3. /\ k \in Nat /\ HourOf(k) = k /\ s[1] <= k /\ k <= s[2] /\ s[2] < k + hourSeconds
    BY <2>1, <2>2, CutFacts DEF ClosedCut
  <2> HIDE DEF k
  <2>4. Cut(s) = k
    BY <2>1, <2>3 DEF k
  <2>5. /\ HourOf(h) < HourOf(k) => h + hourSeconds <= k
        /\ HourOf(k) < HourOf(h) => k + hourSeconds <= h
    BY <1>0, <2>3, HoursDisjoint
  <2>6. HourOf(s[2]) = s[2] => s[2] = k
    <3> DEFINE c == s[2]
    <3>1. c \in Nat /\ k <= c /\ c < k + hourSeconds
      BY <2>1, <2>3
    <3> HIDE DEF c
    <3>2. HourOf(k) < HourOf(c) => HourOf(k) + hourSeconds <= HourOf(c)
      BY <2>3, <3>1, HoursDisjoint
    <3>3. HourOf(c) = c => c = k
      BY <2>3, <3>1, <3>2 DEF hourSeconds
    <3> QED BY <3>3 DEF c
  <2>7. h < k <=> h < s[2] /\ whole
    BY <1>0, <2>1, <2>3, <2>5, <2>6 DEF hourSeconds, minuteSeconds
  <2> HIDE DEF whole
  <2> QED BY <1>0, <2>1, <2>3, <2>4, <2>7
<1>2. CASE mark < 0
  <2>1. hours = {}
    BY <1>2, PlannedHours
  <2>2. parts = [closed |-> {}, open |-> {}]
    BY <1>2, <2>1 DEF splitClosedHours
  <2> QED BY <2>1, <2>2 DEF Holds
<1>3. CASE ~(mark < 0)
  <2> HIDE DEF hours, whole
  <2>1. /\ parts.closed = UNION {SpanOf(s[1], Cut(s)) : s \in hours}
        /\ parts.open = UNION {SpanOf(Cut(s), s[2]) : s \in hours}
    BY <1>3 DEF splitClosedHours
  <2> HIDE DEF parts, Cut
  <2>2. Holds(parts.closed, h) <=> \E s \in hours : Holds(SpanOf(s[1], Cut(s)), h)
    BY <2>1 DEF Holds
  <2>3. Holds(parts.open, h) <=> \E s \in hours : Holds(SpanOf(Cut(s), s[2]), h)
    BY <2>1 DEF Holds
  <2>4. ASSUME NEW s \in hours
        PROVE  /\ Holds(SpanOf(s[1], Cut(s)), h) <=> s[1] <= h /\ h < s[2] /\ whole
               /\ Holds(SpanOf(Cut(s), s[2]), h) <=> s[1] <= h /\ h < s[2] /\ ~whole
    BY <1>0, <1>1, HoldsSpan
  <2>5. Holds(hours, h) <=> \E s \in hours : s[1] <= h /\ h < s[2]
    BY DEF Holds
  <2>6. Holds(parts.closed, h) <=> Holds(hours, h) /\ whole
    BY <2>2, <2>4, <2>5
  <2>7. Holds(parts.open, h) <=> Holds(hours, h) /\ ~whole
    BY <2>3, <2>4, <2>5
  <2> QED BY <2>6, <2>7 DEF parts, hours, whole
<1> QED BY <1>2, <1>3 DEF MarkOK, NoMark

LEMMA SplitMinutesExact ==
    ASSUME NEW mark, MarkOK(mark), NEW spans \in SUBSET (Nat \X Nat), NEW m \in Buckets
    PROVE  LET parts == splitClosedMinutes(spans, mark)
           IN  /\ Holds(parts.closed, m) <=> Holds(spans, m) /\ m <= mark
               /\ Holds(parts.open, m) <=> Holds(spans, m) /\ m > mark
<1> DEFINE parts == splitClosedMinutes(spans, mark)
           until == mark + minuteSeconds
           Cut(s) == Smaller(s[2], until)
           From(s) == IF Cut(s) > s[1] THEN Cut(s) ELSE s[1]
<1>0. m \in Nat /\ m % minuteSeconds = 0 /\ mark \in Int
  BY BucketFacts DEF MarkOK, NoMark
<1>1. CASE mark < 0
  <2>1. parts = [closed |-> {}, open |-> spans] /\ m > mark
    BY <1>0, <1>1 DEF splitClosedMinutes
  <2> QED BY <1>0, <2>1 DEF Holds
<1>2. CASE ~(mark < 0)
  <2>0. until \in Int /\ (m <= mark <=> m < until)
    BY <1>0, <1>2 DEF MarkOK, NoMark, minuteSeconds
  <2>1. /\ parts.closed = UNION {SpanOf(s[1], Cut(s)) : s \in spans}
        /\ parts.open = UNION {SpanOf(From(s), s[2]) : s \in spans}
    BY <1>2 DEF splitClosedMinutes
  <2>2. ASSUME NEW s \in spans
        PROVE  /\ s[1] \in Int /\ s[2] \in Int /\ Cut(s) \in Int /\ From(s) \in Int
               /\ s[1] <= m /\ m < Cut(s) <=> s[1] <= m /\ m < s[2] /\ m <= mark
               /\ From(s) <= m /\ m < s[2] <=> s[1] <= m /\ m < s[2] /\ m > mark
    <3>1. s[1] \in Int /\ s[2] \in Int
      OBVIOUS
    <3> HIDE DEF until
    <3> QED BY <1>0, <2>0, <3>1 DEF Smaller
  <2> HIDE DEF parts, Cut, From
  <2>3. Holds(parts.closed, m) <=> \E s \in spans : Holds(SpanOf(s[1], Cut(s)), m)
    BY <2>1 DEF Holds
  <2>4. Holds(parts.open, m) <=> \E s \in spans : Holds(SpanOf(From(s), s[2]), m)
    BY <2>1 DEF Holds
  <2>5. ASSUME NEW s \in spans
        PROVE  /\ Holds(SpanOf(s[1], Cut(s)), m) <=> s[1] <= m /\ m < s[2] /\ m <= mark
               /\ Holds(SpanOf(From(s), s[2]), m) <=> s[1] <= m /\ m < s[2] /\ m > mark
    BY <1>0, <2>0, <2>2, HoldsSpan
  <2>6. Holds(spans, m) <=> \E s \in spans : s[1] <= m /\ m < s[2]
    BY DEF Holds
  <2>7. Holds(parts.closed, m) <=> Holds(spans, m) /\ m <= mark
    BY <2>3, <2>5, <2>6
  <2>8. Holds(parts.open, m) <=> Holds(spans, m) /\ m > mark
    BY <2>4, <2>5, <2>6
  <2> QED BY <2>7, <2>8 DEF parts
<1> QED BY <1>1, <1>2

\* What the rows of a plan hold when the rollup is right.
LEMMA RowsOfSound ==
    ASSUME NEW d, Sound(d), NEW plan, NEW m \in Buckets
    PROVE  RowsOf(plan, d)[m] =
             (IF Holds(plan.minutes, m) THEN d.pair[m] ELSE 0)
             + (IF HoldsHour(plan.hours, m) /\ m <= d.mark THEN d.pair[m] ELSE 0)
<1> DEFINE minutes == {x \in Buckets : Holds(plan.minutes, x)}
           hours == {h \in HourStarts : Holds(plan.hours, h)}
           shares == UNION {{h} \X (1 .. d.hours[h][m]) : h \in hours}
<1>1. RowsOf(plan, d)[m] = (IF m \in minutes THEN d.pair[m] ELSE 0) + Cardinality(shares)
  BY DEF RowsOf
<1>2. d.pair[m] \in Nat /\ HourOf(m) \in HourStarts
  BY BucketFacts DEF Sound, Tables
<1>3. \A h \in HourStarts : d.hours[h][m] = IF HourOf(m) = h /\ m <= d.mark THEN d.pair[m] ELSE 0
  BY DEF Sound, HoursMatch, Rolled
<1>4. CASE HoldsHour(plan.hours, m) /\ m <= d.mark
  <2>1. HourOf(m) \in hours
    BY <1>2, <1>4 DEF HoldsHour
  <2>2. \A h \in hours : h # HourOf(m) => 1 .. d.hours[h][m] = {}
    BY <1>3
  <2>3. d.hours[HourOf(m)][m] = d.pair[m]
    BY <1>2, <1>3, <1>4
  <2> HIDE DEF hours
  <2>4. shares = {HourOf(m)} \X (1 .. d.pair[m])
    BY <2>1, <2>2, <2>3
  <2>5. Cardinality({HourOf(m)}) = 1 /\ IsFiniteSet({HourOf(m)})
    BY FS_Singleton
  <2>6. Cardinality(1 .. d.pair[m]) = d.pair[m] /\ IsFiniteSet(1 .. d.pair[m])
    <3> DEFINE n == d.pair[m]
    <3>1. n \in Nat
      BY <1>2
    <3> HIDE DEF n
    <3>2. Cardinality(1 .. n) = (IF 1 > n THEN 0 ELSE n - 1 + 1) /\ IsFiniteSet(1 .. n)
      BY <3>1, FS_Interval
    <3>3. Cardinality(1 .. n) = n /\ IsFiniteSet(1 .. n)
      BY <3>1, <3>2
    <3> QED BY <3>3 DEF n
  <2>7. Cardinality({HourOf(m)} \X (1 .. d.pair[m])) = 1 * d.pair[m]
    <3> DEFINE A == {HourOf(m)}
               B == 1 .. d.pair[m]
    <3>1. Cardinality(A \X B) = Cardinality(A) * Cardinality(B)
      <4> HIDE DEF A, B
      <4> QED BY <2>5, <2>6, FS_Product DEF A, B
    <3> QED BY <2>5, <2>6, <3>1
  <2> HIDE DEF shares
  <2> QED BY <1>1, <1>2, <1>4, <2>4, <2>7
<1>5. CASE ~(HoldsHour(plan.hours, m) /\ m <= d.mark)
  <2>1. \A h \in hours : 1 .. d.hours[h][m] = {}
    BY <1>3, <1>5 DEF HoldsHour
  <2>2. shares = {}
    <3> HIDE DEF hours
    <3> QED BY <2>1
  <2> QED BY <1>1, <1>2, <1>5, <2>2, FS_EmptySet
<1> QED BY <1>4, <1>5

\* An exact plan reads what a scan of the minutes reads.
LEMMA ExactPlanReads ==
    ASSUME NEW d, Sound(d), NEW plan, NEW start \in Nat, NEW end \in Nat,
           Exact(plan, start, end, d.mark)
    PROVE  RowsOf(plan, d) = MinuteScan(start, end, d)
<1>1. ASSUME NEW m \in Buckets
      PROVE  RowsOf(plan, d)[m] = MinuteScan(start, end, d)[m]
  <2>1. d.pair[m] \in Nat
    BY DEF Sound, Tables
  <2> QED BY <2>1, RowsOfSound DEF Exact, MinuteScan
<1> QED BY <1>1 DEF RowsOf, MinuteScan

=============================================================================

--------------------------- MODULE ObjectPollProofs ---------------------------
(***************************************************************************)
(* Proofs about ObjectPoll, for any objects and log times, any page, read  *)
(* budget, look-back and backfill, and however many calls fail.            *)
(*                                                                         *)
(* The gap: at each step of a poll the objects that are in the bucket and  *)
(* not ingested are either to be read by it or where the cursor it will    *)
(* store leaves them to the next one: late enough, skipped with the cursor *)
(* held back, or behind a full page.  Objects that are given up move the   *)
(* cursor without counting: a full page of them ends the argument, and     *)
(* leaves as many objects without flows as it holds.                       *)
(***************************************************************************)
EXTENDS ObjectPoll, FiniteSetTheorems, WellFoundedInduction, TLAPS

\* The next poll from t on lists object k, or the first one did not reach it.
Reached(k, t) == LogTime[k] >= Back(t, Lookback) \/ LogTime[k] < since

\* A cursor at t leaves no gap.
NoGap(t) == \A k \in arrived \ ingested : Reached(k, t)

\* The types the proof needs, and the order of a poll's times.
Typing ==
    /\ now \in Nat /\ arrived \subseteq Keys /\ ingested \subseteq Keys /\ flows \subseteq ingested
    /\ cursor = None \/ (cursor \in Nat /\ cursor <= now)
    /\ poll.at \in {"idle", "list", "select", "read", "save"}
    /\ poll.at \in {"list", "select"} => poll.start \in Nat /\ poll.start <= poll.end
    /\ poll.at \in {"list", "select", "read"} => poll.end \in Nat /\ poll.end <= now
    /\ poll.at = "select" =>
           poll.listed \subseteq arrived /\ \A k \in poll.listed : LogTime[k] < poll.end
    /\ poll.at = "read" =>
           /\ poll = [at |-> "read", todo |-> poll.todo, last |-> poll.last,
                      blocked |-> poll.blocked, count |-> poll.count, end |-> poll.end,
                      full |-> poll.full]
           /\ poll.todo \subseteq arrived \ ingested
           /\ \A k \in poll.todo : LogTime[k] < poll.end
           /\ poll.last \in Nat /\ poll.last <= poll.end
           /\ poll.blocked \in Nat \cup {None} /\ poll.count \in Nat
    /\ poll.at = "save" => poll.last \in Nat /\ poll.last <= now

\* Object k was skipped, and the cursor will be held back to it.
HeldBack(k) == poll.blocked # None /\ poll.blocked <= LogTime[k]

\* The page was full, and what is done with of it was given up.
OnlyGivenUp ==
    \E page \in SUBSET Keys :
        Cardinality(page) >= MaxObjects /\ page \ poll.todo \subseteq ingested \ flows

\* Object k came after a full page.
BehindPage(k) ==
    /\ Reached(k, poll.last)
    /\ \A j \in poll.todo : LogTime[j] <= LogTime[k]
    /\ poll.full

\* What the poll will not read is safe with the cursor it will store.
PollInv ==
    /\ poll.at \in {"list", "select"} => NoGap(poll.start)
    /\ poll.at = "select" => \A k \in (arrived \ ingested) \ poll.listed : Reached(k, poll.end)
    /\ poll.at = "read" =>
           /\ \A k \in (arrived \ ingested) \ poll.todo :
                  Reached(k, poll.end) \/ HeldBack(k) \/ BehindPage(k)
           /\ poll.full /\ poll.count = 0 /\ poll.blocked = None => OnlyGivenUp
    /\ poll.at = "save" => NoGap(poll.last)

\* A whole full page was given up, and still is.
PageLost == pageGivenUp /\ Cardinality(ingested \ flows) >= MaxObjects

\* Nothing has lost a gap yet.
Whole == ~cutShort /\ ~PageLost

GapInv == Whole => PollInv /\ (cursor # None => NoGap(cursor))

IInv == Typing /\ GapInv

-----------------------------------------------------------------------------
(* Times, and the order of a listing *)

LEMMA BackFacts ==
    \A t \in Nat : \A u \in Nat :
        /\ Back(t, Lookback) \in Nat /\ Back(t, Lookback) <= t
        /\ u <= t => Back(u, Lookback) <= Back(t, Lookback)
BY PollAssumption DEF Back

LEMMA ReachedEarlier ==
    ASSUME NEW k \in Keys, NEW t \in Nat, NEW u \in Nat, u <= t, Reached(k, t)
    PROVE  Reached(k, u)
<1>1. LogTime[k] \in Nat
  BY PollAssumption
<1>2. /\ Back(t, Lookback) \in Nat /\ Back(u, Lookback) \in Nat
      /\ Back(u, Lookback) <= Back(t, Lookback)
  BY BackFacts
<1> QED BY <1>1, <1>2 DEF Reached

\* The newest time of a bounded set of times.
LEMMA NewestTime ==
    ASSUME NEW T \in SUBSET Nat, T # {}, NEW b \in Nat, \A t \in T : t <= b
    PROVE  \E t \in T : \A u \in T : u <= t
<1> DEFINE Less == {p \in Nat \X Nat : p[1] < p[2]}
           Gaps == {b - t : t \in T}
<1>1. IsWellFoundedOn(Less, Nat)
  BY NatLessThanWellFounded DEF OpToRel
<1>2. PICK t0 \in T : TRUE
  OBVIOUS
<1>3. \A t \in T : b - t \in Nat
  OBVIOUS
<1>4. Gaps \in SUBSET Nat /\ b - t0 \in Gaps
  BY <1>3
<1>5. PICK g \in Gaps : \A h \in Gaps : <<h, g>> \notin Less
  <2> HIDE DEF Less, Gaps
  <2> QED BY <1>1, <1>4, WFMin
<1>6. \A h \in Gaps : ~(h < g)
  BY <1>4, <1>5
<1>7. PICK t \in T : g = b - t
  BY <1>5
<1>8. \A u \in T : u <= t
  <2> TAKE u \in T
  <2>1. ~(b - u < b - t)
    BY <1>6, <1>7
  <2>2. u \in Nat /\ t \in Nat
    OBVIOUS
  <2> HIDE DEF Gaps, Less
  <2> QED BY <2>1, <2>2
<1> QED BY <1>8

LEMMA SeenUpToFacts ==
    ASSUME NEW start \in Nat, NEW looked \in SUBSET Keys, NEW b \in Nat, start <= b,
           \A k \in looked : LogTime[k] <= b
    PROVE  /\ SeenUpTo(start, looked) \in Nat
           /\ start <= SeenUpTo(start, looked) /\ SeenUpTo(start, looked) <= b
           /\ \/ SeenUpTo(start, looked) = start
              \/ \E k \in looked \cap ingested : SeenUpTo(start, looked) = LogTime[k]
<1> DEFINE seen == {start} \union {LogTime[k] : k \in looked \cap ingested}
<1>1. seen \in SUBSET Nat /\ seen # {} /\ \A t \in seen : t <= b
  BY PollAssumption
<1>2. start \in seen
  OBVIOUS
<1>3. \A t \in seen : t = start \/ \E k \in looked \cap ingested : t = LogTime[k]
  OBVIOUS
<1>4. SeenUpTo(start, looked) = CHOOSE t \in seen : \A u \in seen : u <= t
  BY DEF SeenUpTo
<1> HIDE DEF seen
<1>5. \E t \in seen : \A u \in seen : u <= t
  BY <1>1, NewestTime
<1>6. SeenUpTo(start, looked) \in seen /\ \A u \in seen : u <= SeenUpTo(start, looked)
  BY <1>4, <1>5
<1> QED BY <1>1, <1>2, <1>3, <1>6

\* Before orders the objects.
LEMMA BeforeOrder ==
    \A i \in Keys : \A j \in Keys :
        /\ ~Before(i, i)
        /\ i # j => Before(i, j) \/ Before(j, i)
        /\ Before(i, j) => LogTime[i] <= LogTime[j]
        /\ \A k \in Keys : Before(i, j) /\ Before(j, k) => Before(i, k)
BY PollAssumption DEF Before

LEMMA RankFacts ==
    ASSUME NEW S \in SUBSET Keys, NEW k \in Keys
    PROVE  /\ Rank(S, k) \in Nat
           /\ \A o \in S : Before(o, k) => Rank(S, o) + 1 <= Rank(S, k)
<1> DEFINE below(i) == {j \in S : Before(j, i)}
<1>1. IsFiniteSet(S)
  BY PollAssumption, FS_Subset
<1>2. \A i \in Keys : IsFiniteSet(below(i)) /\ Cardinality(below(i)) \in Nat
  <2> TAKE i \in Keys
  <2>1. below(i) \subseteq S
    OBVIOUS
  <2> HIDE DEF below
  <2> QED BY <1>1, <2>1, FS_Subset, FS_CardinalityType
<1>3. ASSUME NEW o \in S, Before(o, k)
      PROVE  Cardinality(below(o)) + 1 <= Cardinality(below(k))
  <2>1. o \in Keys /\ o \notin below(o) /\ below(o) \union {o} \subseteq below(k)
    BY <1>3, BeforeOrder
  <2> HIDE DEF below
  <2>2. /\ IsFiniteSet(below(o) \union {o})
        /\ Cardinality(below(o) \union {o}) = Cardinality(below(o)) + 1
    BY <1>2, <2>1, FS_AddElement
  <2>3. Cardinality(below(o) \union {o}) <= Cardinality(below(k))
    BY <1>2, <2>1, FS_Subset
  <2> QED BY <2>2, <2>3
<1> QED BY <1>2, <1>3 DEF Rank

\* An object that does not fit the page: all that do come before it, so does
\* every ingested object the selection looks at, and the page is full.
LEMMA FullPage ==
    ASSUME NEW listed \in SUBSET Keys, NEW o \in listed \ ingested, o \notin Selected(listed)
    PROVE  /\ \A j \in Selected(listed) : LogTime[j] <= LogTime[o]
           /\ \A j \in Examined(listed) \cap ingested : LogTime[j] <= LogTime[o]
           /\ Cardinality(Selected(listed)) >= MaxObjects
<1> DEFINE U == listed \ ingested
           rank(k) == Rank(U, k)
<1>0. U \in SUBSET Keys /\ o \in U /\ MaxObjects \in Nat
  BY PollAssumption
<1>1. \A k \in Keys : rank(k) \in Nat /\ \A i \in U : Before(i, k) => rank(i) + 1 <= rank(k)
  BY <1>0, RankFacts
<1>2. /\ Selected(listed) = {k \in U : rank(k) < MaxObjects}
      /\ Examined(listed) = {k \in listed : rank(k) <= MaxObjects}
  BY DEF Selected, Examined
<1> HIDE DEF rank
<1>3. ~(rank(o) < MaxObjects)
  BY <1>0, <1>2
<1>4. ASSUME NEW j \in Keys, j # o, rank(j) <= MaxObjects PROVE LogTime[j] <= LogTime[o]
  <2>1. ~Before(o, j)
    BY <1>0, <1>1, <1>3, <1>4
  <2> QED BY <1>0, <1>4, <2>1, BeforeOrder
<1>5. \A j \in Selected(listed) : LogTime[j] <= LogTime[o]
  BY <1>0, <1>1, <1>2, <1>3, <1>4
<1>6. \A j \in Examined(listed) \cap ingested : LogTime[j] <= LogTime[o]
  BY <1>0, <1>2, <1>4
<1>7. Cardinality(Selected(listed)) >= MaxObjects
  <2> DEFINE over == {k \in U : ~(rank(k) < MaxObjects)}
             ranks == {rank(k) : k \in over}
             Less == {p \in Nat \X Nat : p[1] < p[2]}
  <2>1. ranks \in SUBSET Nat /\ rank(o) \in ranks
    BY <1>0, <1>1, <1>3
  <2>2. IsWellFoundedOn(Less, Nat)
    BY NatLessThanWellFounded DEF OpToRel
  <2>3. PICK r \in ranks : \A q \in ranks : <<q, r>> \notin Less
    <3> HIDE DEF Less, ranks
    <3> QED BY <2>1, <2>2, WFMin
  <2>4. \A q \in ranks : ~(q < r)
    BY <2>1, <2>3
  <2>5. PICK f \in over : r = rank(f)
    BY <2>3
  <2> HIDE DEF Less
  <2>6. f \in U /\ f \in Keys /\ ~(rank(f) < MaxObjects) /\ \A k \in over : ~(rank(k) < rank(f))
    BY <1>0, <2>4, <2>5
  <2>7. {j \in U : Before(j, f)} \subseteq Selected(listed)
    <3> SUFFICES ASSUME NEW j \in U, Before(j, f) PROVE j \in Selected(listed)
      OBVIOUS
    <3>1. rank(j) + 1 <= rank(f) /\ rank(j) \in Nat /\ rank(f) \in Nat
      BY <1>0, <1>1, <2>6
    <3>2. j \notin over
      BY <2>6, <3>1
    <3> QED BY <1>2, <3>2
  <2>8. IsFiniteSet(Selected(listed))
    BY <1>0, <1>2, PollAssumption, FS_Subset
  <2>9. Cardinality({j \in U : Before(j, f)}) <= Cardinality(Selected(listed))
    BY <2>7, <2>8, FS_Subset
  <2>10. rank(f) = Cardinality({j \in U : Before(j, f)})
    BY DEF rank, Rank
  <2>11. rank(f) \in Nat /\ Cardinality(Selected(listed)) \in Nat
    BY <1>1, <2>6, <2>8, FS_CardinalityType
  <2> QED BY <1>0, <2>6, <2>9, <2>10, <2>11
<1> QED BY <1>5, <1>6, <1>7

-----------------------------------------------------------------------------
LEMMA InitIInv == Init => IInv
<1> SUFFICES ASSUME Init PROVE IInv
  OBVIOUS
<1>1. Typing
  BY DEF Init, Idle, Typing
<1>2. GapInv
  BY DEF Init, Idle, GapInv, PollInv
<1> QED BY <1>1, <1>2 DEF IInv

\* A new object is late enough for any poll that could have listed it.
LEMMA ArriveInv == ASSUME IInv, NEW k \in Keys, Arrive(k) PROVE IInv'
<1> USE DEF Arrive, durable, history, NoFault
<1>1. Typing'
  BY DEF IInv, Typing
<1>3. \A t \in Nat : t <= now => Reached(k, t)
  BY PollAssumption, BackFacts DEF IInv, Typing, Reached, Back
<1>4. \A i \in Keys : \A t : Reached(i, t)' <=> Reached(i, t)
  BY DEF Reached
<1>5. \A t \in Nat : t <= now /\ NoGap(t) => NoGap(t)'
  BY <1>3, <1>4 DEF IInv, Typing, NoGap, Reached
<1>6. ASSUME PollInv PROVE PollInv'
  <2>1. poll.at \in {"list", "select"} => NoGap(poll.start)'
    BY <1>5, <1>6 DEF IInv, Typing, PollInv
  <2>2. poll.at = "select" =>
            \A i \in (arrived' \ ingested) \ poll.listed : Reached(i, poll.end)
    BY <1>3, <1>6 DEF IInv, Typing, PollInv
  <2>3. poll.at = "read" =>
            /\ \A i \in (arrived' \ ingested) \ poll.todo :
                   Reached(i, poll.end) \/ HeldBack(i) \/ BehindPage(i)
            /\ poll.full /\ poll.count = 0 /\ poll.blocked = None => OnlyGivenUp
    BY <1>3, <1>6 DEF IInv, Typing, PollInv
  <2>4. poll.at = "save" => NoGap(poll.last)'
    BY <1>5, <1>6 DEF IInv, Typing, PollInv
  <2> QED BY <2>1, <2>2, <2>3, <2>4 DEF PollInv, NoGap, Reached, HeldBack, BehindPage, OnlyGivenUp
<1>7. cursor # None /\ NoGap(cursor) => NoGap(cursor)'
  BY <1>5 DEF IInv, Typing
<1>8. GapInv'
  BY <1>6, <1>7 DEF IInv, GapInv, Whole, PageLost
<1> QED BY <1>1, <1>8 DEF IInv

LEMMA TickInv == ASSUME IInv, Tick PROVE IInv'
<1> USE DEF Tick, durable, history, NoFault
<1>1. Typing'
  BY DEF IInv, Typing
<1>3. GapInv'
  BY DEF IInv, GapInv, Whole, PageLost, PollInv, NoGap, Reached, HeldBack, BehindPage,
         OnlyGivenUp
<1> QED BY <1>1, <1>3 DEF IInv

-----------------------------------------------------------------------------
(* A poll                                                                   *)

\* Its range starts at the cursor, or where the first poll starts.
LEMMA BeginPollInv == ASSUME IInv, BeginPoll PROVE IInv'
<1> USE DEF BeginPoll, NoFault, history
<1> DEFINE start == IF cursor = None THEN Back(now, InitialBackfill) ELSE cursor
<1>0. start \in Nat /\ start <= now
  BY PollAssumption DEF IInv, Typing, Back
<1>1. /\ poll' = [at |-> "list", start |-> start, end |-> now]
      /\ since' = IF cursor = None THEN Back(start, Lookback) ELSE since
      /\ UNCHANGED <<now, arrived, cursor, ingested, flows, cutShort, pageGivenUp>>
  OBVIOUS
<1>2. Typing'
  BY <1>0, <1>1 DEF IInv, Typing
<1>4. ASSUME Whole
      PROVE  \A k \in arrived \ ingested : LogTime[k] >= Back(start, Lookback) \/ LogTime[k] < since'
  <2>1. CASE cursor = None
    <3>1. Back(start, Lookback) \in Nat /\ \A k \in Keys : LogTime[k] \in Nat
      BY <1>0, BackFacts, PollAssumption
    <3> HIDE DEF start
    <3> QED BY <1>1, <2>1, <3>1 DEF NoGap, Reached, IInv, Typing
  <2>2. CASE cursor # None
    BY <1>1, <1>4, <2>2 DEF IInv, GapInv, NoGap, Reached
  <2> QED BY <2>1, <2>2
<1>5. ASSUME Whole PROVE PollInv' /\ (cursor' # None => NoGap(cursor)')
  <2>1. poll'.at = "list" /\ poll'.start = start
    BY <1>1
  <2>2. PollInv'
    <3> HIDE DEF start, BeginPoll, NoFault
    <3> QED BY <1>1, <1>4, <1>5, <2>1 DEF PollInv, NoGap, Reached
  <2>3. cursor # None => NoGap(cursor)'
    BY <1>1, <1>4, <1>5 DEF NoGap, Reached
  <2> QED BY <1>1, <2>2, <2>3
<1> QED BY <1>1, <1>2, <1>5 DEF IInv, GapInv, Whole, PageLost

\* A poll that ends without storing a cursor leaves all as it was.
LEMMA AbandonInv ==
    ASSUME IInv, poll' = Idle, UNCHANGED <<now, arrived, durable, history, cutShort>>
    PROVE  IInv'
<1> USE DEF Idle, durable, history
<1>1. Typing'
  BY DEF IInv, Typing
<1>3. GapInv'
  BY DEF IInv, GapInv, Whole, PageLost, PollInv, NoGap, Reached
<1> QED BY <1>1, <1>3 DEF IInv

\* A poll that returns has a cursor without a gap, unless it loses one.
LEMMA ReturnInv ==
    ASSUME IInv, NEW last, NEW count, NEW err \in BOOLEAN, Return(last, count, err),
           UNCHANGED <<now, arrived, durable>>,
           last \in Nat, last <= now, poll.end \in Nat, poll.end <= now,
           Whole' => Whole /\ NoGap(IF count = 0 /\ ~err THEN poll.end ELSE last)
    PROVE  IInv'
<1> USE DEF durable
<1> DEFINE l == IF count = 0 /\ err = FALSE THEN poll.end ELSE last
<1>1. poll' = [at |-> "save", last |-> l]
  BY DEF Return, CursorAfter
<1>2. l \in Nat /\ l <= now
  OBVIOUS
<1>3. Whole' => Whole /\ NoGap(l)
  OBVIOUS
<1> HIDE DEF l
<1>4. poll'.at = "save" /\ poll'.last = l
  BY <1>1
<1>5. Typing'
  BY <1>2, <1>4 DEF IInv, Typing
<1>7. GapInv'
  BY <1>3, <1>4 DEF IInv, GapInv, PollInv, NoGap, Reached
<1> QED BY <1>5, <1>7 DEF IInv

\* The listing: what it leaves out is too old for any poll, or not due yet.
LEMMA ListObjectsInv == ASSUME IInv, ListObjects PROVE IInv'
<1> USE DEF ListObjects, NoFault, history
<1> DEFINE listed == listObjects(Back(poll.start, Lookback), poll.end)
<1>0. /\ UNCHANGED <<now, arrived, cursor, ingested, flows, since, cutShort, pageGivenUp>>
      /\ UNCHANGED durable /\ Whole' = Whole
      /\ poll.start \in Nat /\ poll.end \in Nat /\ poll.start <= poll.end /\ poll.end <= now
  BY DEF durable, IInv, Typing, Whole, PageLost
<1>1. listed \subseteq arrived /\ \A k \in listed : LogTime[k] < poll.end
  BY DEF listObjects
<1>2. ASSUME Whole, NEW k \in arrived \ ingested, k \notin listed PROVE Reached(k, poll.end)
  <2>1. Reached(k, poll.start)
    BY <1>2 DEF IInv, GapInv, PollInv, NoGap
  <2>2. k \in Keys /\ LogTime[k] \in Nat /\ Back(poll.start, Lookback) \in Nat
        /\ Back(poll.end, Lookback) \in Nat /\ Back(poll.end, Lookback) <= poll.end
    BY <1>0, BackFacts, PollAssumption DEF IInv, Typing
  <2>3. ~(Back(poll.start, Lookback) <= LogTime[k] /\ LogTime[k] < poll.end)
    BY <1>2 DEF listObjects
  <2> QED BY <1>0, <2>1, <2>2, <2>3 DEF Reached
<1>3. CASE listed = {}
  <2>1. Return(poll.end, 0, FALSE)
    BY <1>3
  <2>2. Whole => NoGap(poll.end)
    BY <1>2, <1>3 DEF NoGap
  <2> HIDE DEF listed, ListObjects
  <2> QED BY <1>0, <2>1, <2>2, ReturnInv
<1>4. CASE listed # {}
  <2>1. poll' = [at |-> "select", listed |-> listed, start |-> poll.start, end |-> poll.end]
    BY <1>4
  <2> HIDE DEF listed, ListObjects, NoFault
  <2>2. poll'.at = "select" /\ poll'.listed = listed /\ poll'.start = poll.start
        /\ poll'.end = poll.end
    BY <2>1
  <2>3. poll.at = "list"
    BY DEF ListObjects
  <2>4. Typing'
    BY <1>0, <1>1, <2>2 DEF IInv, Typing
  <2>6. GapInv'
    BY <1>0, <1>2, <2>2, <2>3 DEF IInv, GapInv, PollInv, NoGap, Reached
  <2> QED BY <2>4, <2>6 DEF IInv
<1> QED BY <1>3, <1>4

\* What the selection loop looks at was listed.
LEMMA LookedFacts ==
    ASSUME IInv, poll.at = "select", NEW looked \in SUBSET Examined(poll.listed)
    PROVE  /\ poll.start \in Nat /\ poll.end \in Nat
           /\ poll.start <= poll.end /\ poll.end <= now /\ now \in Nat
           /\ SeenUpTo(poll.start, looked) \in Nat
           /\ SeenUpTo(poll.start, looked) <= poll.end
           /\ \/ SeenUpTo(poll.start, looked) = poll.start
              \/ \E k \in looked \cap ingested : SeenUpTo(poll.start, looked) = LogTime[k]
<1>1. /\ poll.start \in Nat /\ poll.end \in Nat
      /\ poll.start <= poll.end /\ poll.end <= now /\ now \in Nat
  BY DEF IInv, Typing
<1>2. looked \in SUBSET Keys /\ \A k \in looked : LogTime[k] <= poll.end
  <2>1. looked \subseteq poll.listed
    BY DEF Examined
  <2>2. \A k \in poll.listed : k \in Keys /\ LogTime[k] < poll.end
    BY DEF IInv, Typing
  <2>3. \A k \in Keys : LogTime[k] \in Nat
    BY PollAssumption
  <2> QED BY <1>1, <2>1, <2>2, <2>3
<1> QED BY <1>1, <1>2, SeenUpToFacts

\* The page: what is outside is not listed, or comes behind a full one.
LEMMA SelectInv == ASSUME IInv, Select PROVE IInv'
<1> USE DEF Select, NoFault, history
<1> DEFINE page == Selected(poll.listed)
           full == Cardinality(page) >= MaxObjects
           last == SeenUpTo(poll.start, Examined(poll.listed))
<1>0. /\ UNCHANGED <<now, arrived, cursor, ingested, flows, since, cutShort, pageGivenUp>>
      /\ poll.at = "select" /\ Whole' = Whole
      /\ poll' = [at |-> "read", todo |-> page, last |-> last, blocked |-> None,
                  count |-> 0, end |-> poll.end, full |-> full]
  BY DEF durable, Whole, PageLost
<1>1. /\ poll.start \in Nat /\ poll.end \in Nat
      /\ poll.start <= poll.end /\ poll.end <= now /\ now \in Nat
      /\ last \in Nat /\ last <= poll.end
      /\ \/ last = poll.start
         \/ \E k \in Examined(poll.listed) \cap ingested : last = LogTime[k]
  BY <1>0, LookedFacts
<1>2. poll.listed \in SUBSET Keys /\ poll.listed \subseteq arrived
      /\ \A k \in poll.listed : LogTime[k] < poll.end
  BY <1>0 DEF IInv, Typing
<1>3. page \subseteq poll.listed \ ingested
  BY DEF Selected
<1> HIDE DEF page, last, full, Select, NoFault
<1>4. /\ poll'.at = "read" /\ poll'.todo = page /\ poll'.last = last /\ poll'.blocked = None
      /\ poll'.count = 0 /\ poll'.end = poll.end /\ poll'.full = full
  BY <1>0
<1>5. Typing'
  <2>1. poll' = [at |-> "read", todo |-> poll'.todo, last |-> poll'.last,
                 blocked |-> poll'.blocked, count |-> poll'.count, end |-> poll'.end,
                 full |-> poll'.full]
    BY <1>0, <1>4
  <2> QED BY <1>0, <1>1, <1>2, <1>3, <1>4, <2>1 DEF IInv, Typing
<1>7. ASSUME Whole, NEW k \in arrived \ ingested, k \notin page, ~Reached(k, poll.end)
      PROVE  /\ Reached(k, last)
             /\ \A j \in page : LogTime[j] <= LogTime[k]
             /\ full
  <2>1. k \in poll.listed
    BY <1>0, <1>7 DEF IInv, GapInv, PollInv
  <2>2. /\ \A j \in page : LogTime[j] <= LogTime[k]
        /\ \A j \in Examined(poll.listed) \cap ingested : LogTime[j] <= LogTime[k]
        /\ full
    BY <1>2, <1>7, <2>1, FullPage DEF page, full
  <2>3. Reached(k, poll.start)
    BY <1>0, <1>7 DEF IInv, GapInv, PollInv, NoGap
  <2>4. Reached(k, last)
    <3>1. CASE last = poll.start
      BY <2>3, <3>1
    <3>2. CASE \E j \in Examined(poll.listed) \cap ingested : last = LogTime[j]
      <4>1. last <= LogTime[k]
        BY <2>2, <3>2
      <4>2. Back(last, Lookback) \in Nat /\ Back(last, Lookback) <= last /\ LogTime[k] \in Nat
        BY <1>1, <1>2, <2>1, BackFacts, PollAssumption
      <4> QED BY <1>1, <4>1, <4>2 DEF Reached
    <3> QED BY <1>1, <3>1, <3>2
  <2> QED BY <2>2, <2>4
<1>8. ASSUME Whole PROVE PollInv'
  <2>1. ASSUME NEW k \in arrived \ ingested, k \notin page, ~Reached(k, poll.end)
        PROVE  BehindPage(k)'
    BY <1>0, <1>4, <1>7, <1>8, <2>1 DEF BehindPage, Reached
  <2>2. full => OnlyGivenUp'
    <3>1. page \in SUBSET Keys /\ page \ poll'.todo \subseteq ingested' \ flows'
      BY <1>2, <1>3, <1>4
    <3> QED BY <3>1 DEF OnlyGivenUp, full
  <2> QED BY <1>0, <1>4, <2>1, <2>2 DEF PollInv, Reached
<1>9. GapInv'
  BY <1>0, <1>8 DEF IInv, GapInv, NoGap, Reached
<1> QED BY <1>5, <1>9 DEF IInv

-----------------------------------------------------------------------------
(* The objects of the page *)

\* The poll in hand while it reads.
LEMMA ReadingFacts ==
    ASSUME IInv, poll.at = "read"
    PROVE  /\ poll = [at |-> "read", todo |-> poll.todo, last |-> poll.last,
                      blocked |-> poll.blocked, count |-> poll.count, end |-> poll.end,
                      full |-> poll.full]
           /\ poll.todo \in SUBSET Keys /\ poll.todo \subseteq arrived \ ingested
           /\ \A k \in poll.todo : LogTime[k] < poll.end /\ LogTime[k] \in Nat
           /\ poll.last \in Nat /\ poll.last <= poll.end
           /\ poll.blocked \in Nat \cup {None} /\ poll.count \in Nat
           /\ poll.end \in Nat /\ poll.end <= now /\ now \in Nat
BY PollAssumption DEF IInv, Typing

\* What is given up stays so.
LEMMA MoreGivenUp ==
    ASSUME NEW S, NEW T \in SUBSET Keys, S \subseteq T, Cardinality(S) >= MaxObjects
    PROVE  Cardinality(T) >= MaxObjects
<1>1. IsFiniteSet(T)
  BY PollAssumption, FS_Subset
<1>2. IsFiniteSet(S) /\ Cardinality(S) <= Cardinality(T)
  BY <1>1, FS_Subset
<1>3. Cardinality(S) \in Nat /\ Cardinality(T) \in Nat /\ MaxObjects \in Nat
  BY <1>1, <1>2, FS_CardinalityType, PollAssumption
<1> QED BY <1>2, <1>3

\* An object of the page is ingested: with its flows it counts, or it is
\* given up.
LEMMA IngestInv ==
    ASSUME IInv, NEW k \in Keys, Current(k), NEW count \in Nat,
           \/ count > 0 /\ flows' = flows \union {k}
           \/ count = poll.count /\ flows' = flows,
           poll' = [at |-> "read", todo |-> poll.todo \ {k}, last |-> Later(poll.last, LogTime[k]),
                    blocked |-> poll.blocked, count |-> count, end |-> poll.end,
                    full |-> poll.full],
           ingested' = ingested \union {k},
           UNCHANGED <<now, arrived, cursor, since, cutShort, pageGivenUp>>
    PROVE  IInv'
<1> DEFINE last == Later(poll.last, LogTime[k])
<1>0. poll.at = "read" /\ k \in poll.todo
  BY DEF Current
<1>1. /\ poll.todo \in SUBSET Keys /\ poll.todo \subseteq arrived \ ingested
      /\ \A j \in poll.todo : LogTime[j] < poll.end /\ LogTime[j] \in Nat
      /\ poll.last \in Nat /\ poll.last <= poll.end
      /\ poll.blocked \in Nat \cup {None} /\ poll.count \in Nat
      /\ poll.end \in Nat /\ poll.end <= now /\ now \in Nat
  BY <1>0, ReadingFacts
<1>2. /\ last \in Nat /\ last <= poll.end
      /\ last = poll.last \/ last = LogTime[k]
  BY <1>0, <1>1 DEF Later
<1> HIDE DEF last
<1>3. poll' = [at |-> "read", todo |-> poll.todo \ {k}, last |-> last,
               blocked |-> poll.blocked, count |-> count, end |-> poll.end,
               full |-> poll.full]
  BY DEF last
<1>4. /\ poll'.at = "read" /\ poll'.todo = poll.todo \ {k} /\ poll'.last = last
      /\ poll'.blocked = poll.blocked /\ poll'.count = count /\ poll'.end = poll.end
      /\ poll'.full = poll.full
      /\ poll' = [at |-> "read", todo |-> poll'.todo, last |-> poll'.last,
                  blocked |-> poll'.blocked, count |-> poll'.count, end |-> poll'.end,
                  full |-> poll'.full]
  BY <1>3
<1>5. k \notin ingested /\ k \notin flows /\ ingested \subseteq Keys /\ flows \subseteq ingested
  BY <1>0, <1>1 DEF IInv, Typing
<1>6. Typing'
  BY <1>0, <1>1, <1>2, <1>4, <1>5 DEF IInv, Typing
<1>7. PageLost => PageLost'
  <2>1. ingested \ flows \subseteq ingested' \ flows' /\ ingested' \ flows' \subseteq Keys
    BY <1>5
  <2> QED BY <2>1, MoreGivenUp DEF PageLost
<1>8. ASSUME NEW o \in arrived \ ingested, o \notin poll.todo, BehindPage(o)
      PROVE  BehindPage(o)'
  <2>0. o \in Keys /\ LogTime[o] \in Nat
    BY <1>8, PollAssumption DEF IInv, Typing
  <2>1. LogTime[k] <= LogTime[o] /\ Reached(o, poll.last)
    BY <1>0, <1>8 DEF BehindPage
  <2>2. Reached(o, last)
    <3>1. CASE last = poll.last
      BY <2>1, <3>1
    <3>2. CASE last = LogTime[k]
      <4>1. Back(last, Lookback) \in Nat /\ Back(last, Lookback) <= last
        BY <1>2, BackFacts
      <4> QED BY <1>2, <2>0, <2>1, <3>2, <4>1 DEF Reached
    <3> QED BY <1>2, <3>1, <3>2
  <2>3. \A j \in poll'.todo : LogTime[j] <= LogTime[o]
    BY <1>4, <1>8 DEF BehindPage
  <2> QED BY <1>4, <1>8, <2>2, <2>3 DEF BehindPage, Reached
<1>9. ASSUME OnlyGivenUp, flows' = flows PROVE OnlyGivenUp'
  <2>1. PICK page \in SUBSET Keys :
            Cardinality(page) >= MaxObjects /\ page \ poll.todo \subseteq ingested \ flows
    BY <1>9 DEF OnlyGivenUp
  <2>2. page \ poll'.todo \subseteq ingested' \ flows'
    BY <1>4, <1>5, <1>9, <2>1
  <2> QED BY <2>1, <2>2 DEF OnlyGivenUp
<1>10. ASSUME Whole PROVE PollInv'
  <2>1. ASSUME NEW o \in arrived \ ingested, o \notin poll.todo
        PROVE  Reached(o, poll.end)' \/ HeldBack(o)' \/ BehindPage(o)'
    <3>1. Reached(o, poll.end) \/ HeldBack(o) \/ BehindPage(o)
      BY <1>0, <1>10, <2>1 DEF IInv, GapInv, PollInv
    <3> QED BY <1>4, <1>8, <2>1, <3>1 DEF Reached, HeldBack
  <2>2. poll'.full /\ poll'.count = 0 /\ poll'.blocked = None => OnlyGivenUp'
    BY <1>0, <1>4, <1>9, <1>10 DEF IInv, GapInv, PollInv
  <2> QED BY <1>0, <1>4, <2>1, <2>2 DEF PollInv
<1>11. GapInv'
  BY <1>7, <1>10 DEF IInv, GapInv, Whole, NoGap, Reached
<1> QED BY <1>6, <1>11 DEF IInv

LEMMA ReadAndCommitInv == ASSUME IInv, NEW k \in Keys, ReadAndCommit(k) PROVE IInv'
<1>1. Current(k) /\ poll.at = "read"
  BY DEF ReadAndCommit, Current
<1>2. poll.count + 1 \in Nat /\ poll.count + 1 > 0
  BY <1>1, ReadingFacts
<1>3. poll' = [at |-> "read", todo |-> poll.todo \ {k}, last |-> Later(poll.last, LogTime[k]),
               blocked |-> poll.blocked, count |-> poll.count + 1, end |-> poll.end,
               full |-> poll.full]
  BY <1>1, ReadingFacts DEF ReadAndCommit
<1> QED BY <1>1, <1>2, <1>3, IngestInv DEF ReadAndCommit, NoFault, history

\* An object is skipped: the cursor will be held back to it.
LEMMA SkipInv ==
    ASSUME IInv, NEW k \in Keys, Current(k), Skip(k),
           UNCHANGED <<now, arrived, durable, cutShort, pageGivenUp>>
    PROVE  IInv'
<1> USE DEF durable
<1> DEFINE blocked == IF poll.blocked = None THEN LogTime[k]
                      ELSE Earlier(poll.blocked, LogTime[k])
<1>0. poll.at = "read" /\ k \in poll.todo
  BY DEF Current
<1>1. /\ poll = [at |-> "read", todo |-> poll.todo, last |-> poll.last,
                 blocked |-> poll.blocked, count |-> poll.count, end |-> poll.end,
                 full |-> poll.full]
      /\ poll.todo \in SUBSET Keys /\ poll.todo \subseteq arrived \ ingested
      /\ \A j \in poll.todo : LogTime[j] < poll.end /\ LogTime[j] \in Nat
      /\ poll.last \in Nat /\ poll.last <= poll.end
      /\ poll.blocked \in Nat \cup {None} /\ poll.count \in Nat
      /\ poll.end \in Nat /\ poll.end <= now /\ now \in Nat
  BY <1>0, ReadingFacts
<1>2. /\ blocked \in Nat /\ blocked # None /\ blocked <= LogTime[k]
      /\ poll.blocked # None => blocked <= poll.blocked
  BY <1>0, <1>1 DEF Earlier, None
<1>9. poll' = [poll EXCEPT !.todo = poll.todo \ {k}, !.blocked = blocked]
  BY DEF Skip
<1> HIDE DEF blocked
<1>3. poll' = [at |-> "read", todo |-> poll.todo \ {k}, last |-> poll.last,
               blocked |-> blocked, count |-> poll.count, end |-> poll.end,
               full |-> poll.full]
  <2> DEFINE todo == poll.todo
             rest == poll.todo \ {k}
             last == poll.last
             old == poll.blocked
             count == poll.count
             end == poll.end
             full == poll.full
  <2>1. poll = [at |-> "read", todo |-> todo, last |-> last, blocked |-> old,
                count |-> count, end |-> end, full |-> full]
    BY <1>1
  <2>2. poll' = [poll EXCEPT !.todo = rest, !.blocked = blocked]
    BY <1>9
  <2> HIDE DEF todo, rest, last, old, count, end, full
  <2>3. poll' = [at |-> "read", todo |-> rest, last |-> last, blocked |-> blocked,
                 count |-> count, end |-> end, full |-> full]
    BY ONLY <2>1, <2>2
  <2> QED BY <2>3 DEF rest, last, count, end, full
<1>4. /\ poll'.at = "read" /\ poll'.todo = poll.todo \ {k} /\ poll'.last = poll.last
      /\ poll'.blocked = blocked /\ poll'.count = poll.count /\ poll'.end = poll.end
      /\ poll'.full = poll.full
      /\ poll' = [at |-> "read", todo |-> poll'.todo, last |-> poll'.last,
                  blocked |-> poll'.blocked, count |-> poll'.count, end |-> poll'.end,
                  full |-> poll'.full]
  BY <1>3
<1>5. Typing'
  BY <1>0, <1>1, <1>2, <1>4 DEF IInv, Typing
<1>7. ASSUME Whole PROVE PollInv'
  <2> SUFFICES ASSUME NEW o \in arrived \ ingested, o \notin poll.todo \ {k}
               PROVE  Reached(o, poll.end)' \/ HeldBack(o)' \/ BehindPage(o)'
    BY <1>0, <1>2, <1>4 DEF PollInv
  <2>0. LogTime[o] \in Nat
    BY PollAssumption DEF IInv, Typing
  <2>1. CASE o = k
    BY <1>2, <1>4, <2>1 DEF HeldBack
  <2>2. CASE o # k
    <3>1. Reached(o, poll.end) \/ HeldBack(o) \/ BehindPage(o)
      BY <1>0, <1>7, <2>2 DEF IInv, GapInv, PollInv
    <3>2. HeldBack(o) => HeldBack(o)'
      BY <1>1, <1>2, <1>4, <2>0 DEF HeldBack
    <3>3. BehindPage(o) => BehindPage(o)'
      BY <1>2, <1>4 DEF BehindPage, Reached
    <3> QED BY <1>4, <3>1, <3>2, <3>3 DEF Reached
  <2> QED BY <2>1, <2>2
<1>8. GapInv'
  BY <1>7 DEF IInv, GapInv, Whole, PageLost, NoGap, Reached
<1> QED BY <1>5, <1>8 DEF IInv

\* A read that fails: skipped, or given up.
LEMMA ReadFailedInv ==
    ASSUME IInv, NEW k \in Keys, NEW err, Current(k), ReadFailed(k, err),
           UNCHANGED <<now, arrived, cutShort, pageGivenUp>>
    PROVE  IInv'
<1>1. CASE Skip(k) /\ UNCHANGED durable
  BY <1>1, SkipInv
<1>2. CASE GiveUp(k)
  <2>1. poll.at = "read"
    BY DEF Current
  <2>2. poll' = [at |-> "read", todo |-> poll.todo \ {k}, last |-> Later(poll.last, LogTime[k]),
                 blocked |-> poll.blocked, count |-> poll.count, end |-> poll.end,
                 full |-> poll.full]
    BY <1>2, <2>1, ReadingFacts DEF GiveUp
  <2>3. poll.count \in Nat
    BY <2>1, ReadingFacts
  <2> QED BY <1>2, <2>2, <2>3, IngestInv DEF GiveUp
<1> QED BY <1>1, <1>2 DEF ReadFailed, durable

-----------------------------------------------------------------------------
(* The end of a poll                                                        *)

\* The poll returns: behind a full page it has counted or skipped something,
\* so the cursor stays with the page, or the whole page was given up.
LEMMA EndOfPageInv == ASSUME IInv, EndOfPage PROVE IInv'
<1> DEFINE c == Clamped(poll)
           err == poll.blocked # None
<1>0. /\ poll.at = "read" /\ poll.todo = {} /\ Return(c, poll.count, err)
      /\ UNCHANGED <<now, arrived, durable, cutShort>>
      /\ pageGivenUp' = (pageGivenUp \/ (poll.full /\ poll.count = 0 /\ ~err))
  BY DEF EndOfPage, NoFault
<1>1. /\ poll.last \in Nat /\ poll.last <= poll.end
      /\ poll.blocked \in Nat \cup {None} /\ poll.count \in Nat
      /\ poll.end \in Nat /\ poll.end <= now /\ now \in Nat
  BY <1>0, ReadingFacts
<1>2. c \in Nat /\ c <= poll.last /\ (err => c <= poll.blocked)
  BY <1>1 DEF Clamped, Earlier, None
<1> HIDE DEF c
<1>3. ASSUME Whole' PROVE Whole /\ ~(poll.full /\ poll.count = 0 /\ ~err)
  <2>1. Whole
    BY <1>0, <1>3 DEF Whole, PageLost, durable
  <2>2. ASSUME poll.full, poll.count = 0, ~err PROVE FALSE
    <3>1. PICK page \in SUBSET Keys :
              Cardinality(page) >= MaxObjects /\ page \subseteq ingested \ flows
      BY <1>0, <2>1, <2>2 DEF IInv, GapInv, PollInv, OnlyGivenUp
    <3>2. Cardinality(ingested \ flows) >= MaxObjects
      <4>1. ingested \ flows \in SUBSET Keys
        BY DEF IInv, Typing
      <4> QED BY <3>1, <4>1, MoreGivenUp
    <3>3. PageLost'
      BY <1>0, <2>2, <3>2 DEF PageLost, durable
    <3> QED BY <1>3, <3>3 DEF Whole
  <2> QED BY <2>1, <2>2
<1>4. ASSUME Whole', NEW k \in arrived \ ingested
      PROVE  IF poll.count = 0 /\ ~err THEN Reached(k, poll.end) ELSE Reached(k, c)
  <2>0. k \in Keys /\ LogTime[k] \in Nat
    BY <1>4, PollAssumption DEF IInv, Typing
  <2>1. Reached(k, poll.end) \/ HeldBack(k) \/ BehindPage(k)
    BY <1>0, <1>3, <1>4 DEF IInv, GapInv, PollInv
  <2>2. CASE Reached(k, poll.end)
    <3>1. Reached(k, c)
      BY <1>1, <1>2, <2>0, <2>2, ReachedEarlier
    <3> QED BY <2>2, <3>1
  <2>3. CASE HeldBack(k)
    <3>1. Back(c, Lookback) \in Nat /\ Back(c, Lookback) <= c
      BY <1>2, BackFacts
    <3>2. err /\ poll.blocked \in Nat /\ poll.blocked <= LogTime[k]
      BY <1>1, <2>3 DEF HeldBack
    <3>3. LogTime[k] >= Back(c, Lookback)
      BY <1>2, <2>0, <3>1, <3>2
    <3> QED BY <3>2, <3>3 DEF Reached
  <2>4. CASE BehindPage(k)
    <3>1. ~(poll.count = 0 /\ ~err)
      BY <1>3, <1>4, <2>4 DEF BehindPage
    <3>2. Reached(k, c)
      BY <1>1, <1>2, <2>0, <2>4, ReachedEarlier DEF BehindPage
    <3> QED BY <3>1, <3>2
  <2> QED BY <2>1, <2>2, <2>3, <2>4
<1>5. Whole' => Whole /\ NoGap(IF poll.count = 0 /\ ~err THEN poll.end ELSE c)
  BY <1>3, <1>4 DEF NoGap
<1>6. err \in BOOLEAN /\ c <= now
  BY <1>1, <1>2
<1> HIDE DEF err
<1> QED BY <1>0, <1>1, <1>2, <1>5, <1>6, ReturnInv

\* A store call fails inside the poll.
LEMMA CutShortInv ==
    ASSUME IInv, NEW k \in Keys, SelectFails(k) \/ CommitFails(k) \/ GiveUpFails(k)
    PROVE  IInv'
<1>1. ~Whole' /\ UNCHANGED <<now, arrived, durable>>
  BY DEF SelectFails, CommitFails, GiveUpFails, CutShort, Whole
<1>2. CASE SelectFails(k)
  <2> DEFINE looked == {j \in Examined(poll.listed) : Before(j, k)}
             last == SeenUpTo(poll.start, looked)
  <2>1. poll.at = "select" /\ Return(last, 0, TRUE)
    BY <1>2 DEF SelectFails
  <2>2. looked \in SUBSET Examined(poll.listed)
    OBVIOUS
  <2> HIDE DEF looked
  <2>3. /\ last \in Nat /\ last <= poll.end /\ poll.end \in Nat /\ poll.end <= now
        /\ now \in Nat
    BY <2>1, <2>2, LookedFacts
  <2> HIDE DEF last
  <2>4. last <= now
    BY <2>3
  <2> QED BY <1>1, <2>1, <2>3, <2>4, ReturnInv
<1>3. CASE CommitFails(k) \/ GiveUpFails(k)
  <2>1. poll.at = "read" /\ Return(poll.last, poll.count, TRUE)
    BY <1>3 DEF CommitFails, GiveUpFails, Current
  <2>2. /\ poll.last \in Nat /\ poll.last <= poll.end /\ poll.end \in Nat
        /\ poll.end <= now /\ now \in Nat
    BY <2>1, ReadingFacts
  <2>3. poll.last <= now
    BY <2>2
  <2> QED BY <1>1, <2>1, <2>2, <2>3, ReturnInv
<1> QED BY <1>2, <1>3

LEMMA SaveCursorInv == ASSUME IInv, SaveCursor PROVE IInv'
<1> USE DEF SaveCursor, NoFault, history
<1>0. poll.last \in Nat /\ poll.last <= now /\ poll'.at = "idle"
  BY DEF IInv, Typing, Idle
<1>1. cursor' \in {cursor, poll.last} /\ cursor' # None /\ cursor' \in Nat /\ cursor' <= now
  BY <1>0 DEF Later, IInv, Typing, None
<1>2. Typing'
  BY <1>0, <1>1 DEF IInv, Typing
<1>4. GapInv'
  BY <1>0, <1>1 DEF IInv, GapInv, Whole, PageLost, PollInv, NoGap, Reached
<1> QED BY <1>2, <1>4 DEF IInv

-----------------------------------------------------------------------------
LEMMA StepIInv == ASSUME IInv, [Next]_vars PROVE IInv'
<1>1. CASE (\E k \in Keys : Arrive(k)) \/ Tick
  BY <1>1, ArriveInv, TickInv
<1>2. CASE BeginPoll \/ ListObjects \/ Select \/ EndOfPage \/ SaveCursor
  BY <1>2, BeginPollInv, ListObjectsInv, SelectInv, EndOfPageInv, SaveCursorInv
<1>3. CASE \E k \in Keys : ReadAndCommit(k)
  BY <1>3, ReadAndCommitInv
<1>4. CASE \E k \in Keys : ReadMalformed(k) \/ BodyBreaksOff(k) \/ OpenFails(k)
  BY <1>4, ReadFailedInv
     DEF ReadMalformed, BodyBreaksOff, OpenFails, NoFault, Fault, BreaksOff, history
<1>5. CASE ListFails \/ SaveFails \/ Cancelled \/ Restart
  BY <1>5, AbandonInv DEF ListFails, SaveFails, Cancelled, Restart, Fault
<1>6. CASE \E k \in Keys : SelectFails(k) \/ CommitFails(k) \/ GiveUpFails(k)
  BY <1>6, CutShortInv
<1>7. CASE UNCHANGED vars
  <2> USE <1>7 DEF vars
  <2>1. Typing'
    BY DEF IInv, Typing
  <2>2. GapInv'
    BY DEF IInv, GapInv, Whole, PageLost, PollInv, NoGap, Reached, HeldBack, BehindPage,
           OnlyGivenUp
  <2> QED BY <2>1, <2>2 DEF IInv
<1> QED BY <1>1, <1>2, <1>3, <1>4, <1>5, <1>6, <1>7 DEF Next, PollStep, PollFails

-----------------------------------------------------------------------------
(* What is given up                                                         *)

\* The reads that count against the budget of an object that can be read are
\* the ones its stream broke off.
BudgetInv ==
    /\ attempts \in [Keys -> Nat] /\ brokenOff \in [Keys -> Nat]
    /\ \A k \in Keys \ Malformed : attempts[k] <= brokenOff[k]
    /\ ingested \subseteq arrived /\ arrived \subseteq Keys
    /\ RefusalsDropNothing

\* A failed read: only one of the body takes an attempt or the last one.
LEMMA ReadFailedBudget ==
    ASSUME BudgetInv, NEW k \in Keys, k \in arrived, NEW err, ReadFailed(k, err),
           \/ err # "content" /\ brokenOff' = brokenOff
           \/ k \in Malformed /\ brokenOff' = brokenOff
           \/ BreaksOff(k),
           arrived' = arrived
    PROVE  BudgetInv'
<1>1. /\ brokenOff' \in [Keys -> Nat]
      /\ \A j \in Keys : brokenOff[j] <= brokenOff'[j]
      /\ permanentReadError(err) => k \in Malformed \/ brokenOff'[k] = brokenOff[k] + 1
  BY DEF BudgetInv, BreaksOff, permanentReadError
<1>2. maxObjectReadAttempts \in Nat
  BY PollAssumption
<1>3. CASE UNCHANGED <<ingested, flows, attempts>>
  BY <1>1, <1>2, <1>3 DEF BudgetInv, RefusalsDropNothing
<1>4. CASE /\ permanentReadError(err) /\ attempts' = [attempts EXCEPT ![k] = @ + 1]
           /\ UNCHANGED <<ingested, flows>>
  BY <1>1, <1>2, <1>4 DEF BudgetInv, RefusalsDropNothing
<1>5. CASE permanentReadError(err) /\ attempts[k] + 1 >= maxObjectReadAttempts /\ GiveUp(k)
  <2>1. attempts' = [attempts EXCEPT ![k] = 0] /\ ingested' = ingested \union {k} /\ flows' = flows
    BY <1>5 DEF GiveUp
  <2>2. k \in Malformed \/ brokenOff'[k] >= maxObjectReadAttempts
    BY <1>1, <1>2, <1>5 DEF BudgetInv
  <2> QED BY <1>1, <1>2, <2>1, <2>2 DEF BudgetInv, RefusalsDropNothing
<1>6. attempts[k] + 1 \in Nat
  BY DEF BudgetInv
<1> QED BY <1>2, <1>3, <1>4, <1>5, <1>6 DEF ReadFailed, durable

LEMMA StepBudget == ASSUME Typing, BudgetInv, [Next]_vars PROVE BudgetInv'
<1>0. maxObjectReadAttempts \in Nat
  BY PollAssumption
<1>1. CASE UNCHANGED <<ingested, flows, attempts, brokenOff>> /\ arrived \subseteq arrived'
           /\ arrived' \subseteq Keys
  BY <1>1 DEF BudgetInv, RefusalsDropNothing
<1>2. CASE \E k \in Keys : ReadAndCommit(k)
  <2> PICK k \in Keys : ReadAndCommit(k)
    BY <1>2
  <2>1. k \in arrived
    BY DEF ReadAndCommit, Current, Typing
  <2>2. /\ ingested' = ingested \union {k} /\ flows' = flows \union {k}
        /\ attempts' = [attempts EXCEPT ![k] = 0] /\ UNCHANGED <<arrived, brokenOff>>
    BY DEF ReadAndCommit, history
  <2> QED BY <1>0, <2>1, <2>2 DEF BudgetInv, RefusalsDropNothing
<1>3. CASE \E k \in Keys : ReadMalformed(k) \/ BodyBreaksOff(k) \/ OpenFails(k)
  <2> PICK k \in Keys : ReadMalformed(k) \/ BodyBreaksOff(k) \/ OpenFails(k)
    BY <1>3
  <2>1. k \in arrived /\ arrived' = arrived
    BY DEF ReadMalformed, BodyBreaksOff, OpenFails, Current, Typing
  <2>2. CASE ReadMalformed(k)
    BY <2>1, <2>2, ReadFailedBudget DEF ReadMalformed, history
  <2>3. CASE BodyBreaksOff(k)
    BY <2>1, <2>3, ReadFailedBudget DEF BodyBreaksOff
  <2>4. CASE OpenFails(k)
    <3>1. ReadFailed(k, "refused") /\ brokenOff' = brokenOff
      BY <2>4 DEF OpenFails, history
    <3> QED BY <2>1, <3>1, ReadFailedBudget
  <2> QED BY <2>2, <2>3, <2>4
<1>4. CASE \E k \in Keys : CommitFails(k)
  BY <1>0, <1>4 DEF CommitFails, durable, history, BudgetInv, RefusalsDropNothing
<1>5. CASE \E k \in Keys : GiveUpFails(k)
  <2> PICK k \in Keys : GiveUpFails(k)
    BY <1>5
  <2>1. /\ attempts' = [attempts EXCEPT ![k] = @ + 1]
        /\ IF k \in Malformed THEN brokenOff' = brokenOff
           ELSE brokenOff' = [brokenOff EXCEPT ![k] = @ + 1]
        /\ UNCHANGED <<arrived, ingested, flows>>
    BY DEF GiveUpFails, durable, history, BreaksOff
  <2> QED BY <1>0, <2>1 DEF BudgetInv, RefusalsDropNothing
<1>6. CASE Restart
  BY <1>0, <1>6 DEF Restart, durable, history, BudgetInv, RefusalsDropNothing
<1>7. ASSUME \/ (\E k \in Keys : Arrive(k) \/ SelectFails(k))
             \/ Tick \/ BeginPoll \/ ListObjects \/ Select \/ EndOfPage \/ SaveCursor
             \/ ListFails \/ SaveFails \/ Cancelled \/ UNCHANGED vars
      PROVE  /\ UNCHANGED <<ingested, flows, attempts, brokenOff>> /\ arrived \subseteq arrived'
             /\ arrived' \subseteq Keys
  BY <1>7 DEF Arrive, SelectFails, Tick, BeginPoll, ListObjects, Select, EndOfPage, SaveCursor,
              ListFails, SaveFails, Cancelled, vars, durable, history, BudgetInv
<1> QED BY <1>1, <1>2, <1>3, <1>4, <1>5, <1>6, <1>7 DEF Next, PollStep, PollFails

-----------------------------------------------------------------------------
(* The theorems *)

\* Refused reads never drop data: whatever fails and however often the process
\* restarts, an object is recorded without its flows only when its body is
\* malformed or its stream has broken off as often as the read budget allows
\* (permanentReadError, recordReadFailure and the give-up branch of
\* ObjectStoreSource.Poll).
THEOREM RefusedReadsDropNothing == Spec => []RefusalsDropNothing
<1>1. Init => IInv /\ BudgetInv
  <2>1. Init => BudgetInv
    BY DEF Init, BudgetInv, RefusalsDropNothing
  <2> QED BY <2>1, InitIInv
<1>2. IInv /\ BudgetInv /\ [Next]_vars => (IInv /\ BudgetInv)'
  BY StepIInv, StepBudget DEF IInv
<1>3. BudgetInv => RefusalsDropNothing
  BY DEF BudgetInv
<1> QED BY <1>1, <1>2, <1>3, PTL DEF Spec

\* While no store call has failed inside a poll and no full page was given up
\* whole, the cursor leaves no gap: every object that is not ingested stays
\* inside the range the next poll lists, over refused reads, streams that
\* break off, failed listings and cursor writes, cancellations and restarts;
\* and a page that was given up has left as many objects without their flows
\* as it holds (ObjectStoreSource.Poll, Poller.pollObjectStore,
\* UpdatePollState).
THEOREM GapsAreKept == Spec => []GapIsKept
<1>1. Init => IInv
  BY InitIInv
<1>2. IInv /\ [Next]_vars => IInv'
  BY StepIInv
<1>3. IInv => GapIsKept
  BY DEF IInv, GapInv, Whole, PageLost, GapIsKept, NoObjectLost, StillListed, NoGap, Reached
<1> QED BY <1>1, <1>2, <1>3, PTL DEF Spec

===============================================================================

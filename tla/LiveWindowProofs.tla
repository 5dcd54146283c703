--------------------------- MODULE LiveWindowProofs ---------------------------
(***************************************************************************)
(* Proofs about LiveWindow, for any flows, any lateness up to PollDelay,   *)
(* any chunk, retention, backfill and cache age, and however often polls   *)
(* fail or the process restarts.                                           *)
(*                                                                         *)
(* Of the store: a flow is counted only in the range that moves the cursor *)
(* past it, and when that range is fetched the source shows all of it.  Of *)
(* the cache: when it is empty its floor is set no lower than the cursor,  *)
(* so all it lacks lies before the floor; from then on it misses what the  *)
(* poll has in hand, and nothing else.                                     *)
(***************************************************************************)
EXTENDS LiveWindow, TLAPS

\* The types the proof needs.
Typing ==
    /\ now \in Nat /\ source \in {"api", "objects"} /\ visible \subseteq Flows
    /\ {cursor, since, completeFrom} \subseteq Nat \union {Unset}
    /\ stored \in [Flows -> Nat] /\ cached \in [Flows -> Nat]
    /\ reader.at \in {"idle", "covered", "done"}
    /\ poll.at \in IF source = "api" THEN {"idle", "fetch", "commit", "cache"}
                   ELSE {"idle", "objects", "object"}

\* The source keeps no flow back for longer than Lateness.
SourceInv == \A f \in Flows \ visible : now <= LoggedAt[f] + Lateness

\* Nothing more is due of flow f.
Done(f) == stored[f] > 0 \/ OutOfReach(f)

\* With the API source a flow is counted once the cursor is past it, with
\* objects once, at some time after it was logged.
StoreInv ==
    /\ \A f \in Flows : stored[f] <= 1
    /\ source = "api" => \A f \in Flows :
           /\ stored[f] > 0 => LoggedAt[f] < cursor
           /\ LoggedAt[f] < cursor => Done(f)
    /\ source = "objects" =>
           cursor = Unset /\ \A f \in Flows : stored[f] > 0 => LoggedAt[f] < now

\* A range starts at or after the cursor, with all before it done, and ends
\* where the source has settled.
FetchInv ==
    /\ poll = [at |-> "fetch", from |-> poll.from, end |-> poll.end, to |-> poll.to]
    /\ {poll.from, poll.to, poll.end} \subseteq Nat
    /\ poll.from < poll.to /\ poll.to <= poll.end /\ poll.end + PollDelay <= now
    /\ cursor <= poll.from
    /\ \A f \in Flows : LoggedAt[f] < poll.from => Done(f)

\* What was fetched of it is all that is left to count before its end.
CommitInv ==
    /\ poll = [at |-> "commit", to |-> poll.to, end |-> poll.end, batch |-> poll.batch]
    /\ {poll.to, poll.end} \subseteq Nat
    /\ poll.to <= poll.end /\ poll.end + PollDelay <= now
    /\ cursor < poll.to
    /\ poll.batch \subseteq Flows
    /\ \A f \in poll.batch : LoggedAt[f] < poll.to /\ stored[f] = 0
    /\ \A f \in Flows \ poll.batch : LoggedAt[f] < poll.to => Done(f)

\* A batch that is on its way to the cache has been stored.
InHandInv ==
    /\ poll.end \in Nat
    /\ poll.batch \subseteq Flows /\ \A f \in poll.batch : stored[f] > 0
    /\ poll.at = "cache" => poll.to \in Nat /\ poll.to = cursor /\ poll.end + PollDelay <= now
    /\ poll.at = "object" => poll.end <= now

PollInv ==
    /\ poll.at = "fetch" => FetchInv
    /\ poll.at = "commit" => CommitInv
    /\ poll.at \in {"cache", "object"} => InHandInv
    /\ poll.at = "objects" => poll.end \in Nat /\ poll.end <= now

\* The cache is empty until it has a floor, has it while a poll runs, and
\* never holds more than the store.
CacheInv ==
    /\ completeFrom = Unset => cached = Nothing /\ poll.at = "idle"
    /\ CacheMatchesStore
    /\ \A f \in Flows : cached[f] <= Settled[f]

\* A window that was covered keeps its rows until their minute is too old.
ReaderInv ==
    /\ reader.at = "covered" =>
           /\ reader.promised \in [Flows -> Int]
           /\ \A f \in Flows : InWindow(f, reader.start, reader.end) =>
                  cached[f] >= reader.promised[f] \/ BucketOf(f) < now - maxAge
    /\ reader.at = "done" => reader.rows \in [Flows -> Nat]
    /\ CoveredAnswerIsWhole

IInv == Typing /\ SourceInv /\ StoreInv /\ PollInv /\ CacheInv /\ ReaderInv

-----------------------------------------------------------------------------
(* Minutes, flows, and what the poll has in hand                            *)

LEMMA MinuteFacts ==
    \A t \in Nat :
        /\ MinuteOf(t) \in Nat /\ MinuteOf(t) <= t /\ MinuteOf(t) % minute = 0
        /\ NextMinute(t) \in Nat /\ t <= NextMinute(t)
<1> SUFFICES ASSUME NEW t \in Nat
             PROVE  /\ MinuteOf(t) \in Nat /\ MinuteOf(t) <= t /\ MinuteOf(t) % minute = 0
                    /\ NextMinute(t) \in Nat /\ t <= NextMinute(t)
  OBVIOUS
<1> DEFINE q == t \div minute
<1>1. minute \in Nat \ {0}
  BY LiveAssumption
<1>2. q \in Nat /\ t = q * minute + (t % minute) /\ t % minute \in 0 .. minute - 1
  BY <1>1
<1>3. q * minute \in Nat
  BY <1>1, <1>2
<1>4. (q * minute) % minute = 0
  BY <1>1, <1>2
<1> HIDE DEF q
<1>5. MinuteOf(t) = q * minute
  BY DEF MinuteOf, q
<1> QED BY <1>1, <1>2, <1>3, <1>4, <1>5 DEF NextMinute

LEMMA FlowFacts ==
    \A f \in Flows :
        /\ LoggedAt[f] \in Nat /\ LoggedAt[f] >= 1
        /\ BucketOf(f) \in Nat /\ BucketOf(f) <= LoggedAt[f] /\ BucketOf(f) % minute = 0
<1> TAKE f \in Flows
<1>1. StartAt[f] \in Nat /\ LoggedAt[f] \in Nat \ {0} /\ StartAt[f] <= LoggedAt[f]
  BY LiveAssumption
<1> QED BY <1>1, MinuteFacts DEF BucketOf

\* Constants as numbers.
LEMMA ConstantFacts ==
    /\ minute \in Nat \ {0} /\ maxPollChunk \in Nat \ {0} /\ Retention \in Nat \ {0}
    /\ InitialBackfill \in Nat \ {0} /\ maxAge \in Nat \ {0}
    /\ Lateness \in Nat /\ PollDelay \in Nat /\ MaxTime \in Nat /\ Lateness <= PollDelay
BY LiveAssumption

InHand(f) == poll.at \in {"cache", "object"} /\ f \in poll.batch

LEMMA SettledFacts ==
    ASSUME Typing
    PROVE  \A f \in Flows :
               /\ Settled[f] \in Int
               /\ InHand(f) => Settled[f] = stored[f] - 1
               /\ ~InHand(f) => Settled[f] = stored[f]
BY DEF Typing, Settled, InHand

\* A flow nothing more is due of stays so.
LEMMA DoneStays ==
    ASSUME Typing, NEW f \in Flows, Done(f), now' \in Nat, now <= now', since' = since,
           stored'[f] \in Nat, stored[f] <= stored'[f]
    PROVE  Done(f)'
<1>1. LoggedAt[f] \in Nat /\ PollDelay \in Nat /\ Retention \in Nat
  BY FlowFacts, ConstantFacts
<1> QED BY <1>1 DEF Done, OutOfReach, Typing

-----------------------------------------------------------------------------
LEMMA InitIInv == Init => IInv
<1> SUFFICES ASSUME Init PROVE IInv
  OBVIOUS
<1> USE DEF Init, Idle, Nothing
<1>1. Typing
  BY DEF Typing, Unset
<1>2. SourceInv
  BY FlowFacts, ConstantFacts DEF SourceInv
<1>3. StoreInv
  BY FlowFacts DEF StoreInv, Unset
<1>4. PollInv /\ ReaderInv
  BY DEF PollInv, ReaderInv, CoveredAnswerIsWhole
<1>5. \A f \in Flows : Settled[f] = 0
  BY <1>1, SettledFacts DEF InHand
<1>6. CacheInv
  BY <1>5 DEF CacheInv, CacheMatchesStore
<1> QED BY <1>1, <1>2, <1>3, <1>4, <1>6 DEF IInv

-----------------------------------------------------------------------------
(* The world                                                                *)

\* What the handler's part of the invariant speaks of.
LEMMA ReaderFrame ==
    ASSUME IInv, UNCHANGED <<reader, now>>, cached' \in [Flows -> Nat], stored' \in [Flows -> Nat],
           \A f \in Flows : cached[f] <= cached'[f] \/ BucketOf(f) < now - maxAge,
           \A f \in Flows : stored[f] <= stored'[f]
    PROVE  ReaderInv'
<1> USE DEF IInv, Typing, ReaderInv
<1>1. ASSUME reader.at = "covered"
      PROVE  \A f \in Flows : InWindow(f, reader.start, reader.end) =>
                 cached'[f] >= reader.promised[f] \/ BucketOf(f) < now - maxAge
  BY <1>1
<1>2. CoveredAnswerIsWhole'
  BY DEF CoveredAnswerIsWhole, InWindow
<1> QED BY <1>1, <1>2 DEF InWindow

LEMMA AppearInv == ASSUME IInv, NEW f \in Flows, Appear(f) PROVE IInv'
<1> USE DEF Appear, tables, cache
<1>1. Typing' /\ SourceInv'
  BY DEF IInv, Typing, SourceInv
<1>2. StoreInv' /\ PollInv'
  BY DEF IInv, StoreInv, PollInv, FetchInv, CommitInv, InHandInv, Done, OutOfReach
<1>3. Settled' = Settled
  BY DEF Settled
<1>4. CacheInv'
  BY <1>3 DEF IInv, CacheInv, CacheMatchesStore
<1>5. ReaderInv'
  BY DEF IInv, ReaderInv, CoveredAnswerIsWhole
<1> QED BY <1>1, <1>2, <1>4, <1>5 DEF IInv

\* The clock: minutes leave the cache's age, flows fall out of reach.
LEMMA TickInv == ASSUME IInv, Tick PROVE IInv'
<1> USE DEF Tick, tables, cache
<1>0. now \in Nat /\ now' = now + 1 /\ UNCHANGED <<stored, since, cached, completeFrom, cursor, poll>>
  BY DEF IInv, Typing
<1>1. Typing'
  BY DEF IInv, Typing
<1>2. SourceInv'
  BY <1>0, FlowFacts, ConstantFacts DEF IInv, SourceInv
<1>3. \A f \in Flows : Done(f) => Done(f)'
  <2> TAKE f \in Flows
  <2>1. Typing /\ stored[f] \in Nat
    BY DEF IInv, Typing
  <2> QED BY <1>0, <2>1, DoneStays
<1>4. StoreInv'
  BY <1>0, <1>3, FlowFacts DEF IInv, StoreInv
<1>5. PollInv'
  <2>1. FetchInv => FetchInv'
    BY <1>0, <1>3, ConstantFacts DEF FetchInv
  <2>2. CommitInv => CommitInv'
    BY <1>0, <1>3, ConstantFacts DEF CommitInv
  <2>3. InHandInv => InHandInv'
    BY <1>0, ConstantFacts DEF InHandInv
  <2> QED BY <1>0, <2>1, <2>2, <2>3 DEF IInv, PollInv
<1>6. Settled' = Settled
  BY DEF Settled
<1>7. CacheInv'
  BY <1>0, <1>6, FlowFacts, ConstantFacts DEF IInv, CacheInv, CacheMatchesStore
<1>8. ReaderInv'
  <2>1. CoveredAnswerIsWhole'
    BY DEF IInv, ReaderInv, CoveredAnswerIsWhole
  <2>2. \A f \in Flows : BucketOf(f) < now - maxAge => BucketOf(f) < now' - maxAge
    BY <1>0, FlowFacts, ConstantFacts
  <2> QED BY <2>1, <2>2 DEF IInv, ReaderInv
<1> QED BY <1>1, <1>2, <1>4, <1>5, <1>7, <1>8 DEF IInv

-----------------------------------------------------------------------------
(* The range of a poll                                                      *)

\* It starts at the cursor or later, not before the clock's zero.
LEMMA StartFacts ==
    ASSUME Typing
    PROVE  /\ EndOfPoll \in Int /\ StartOfPoll \in Nat /\ cursor <= StartOfPoll
           /\ EndOfPoll <= now
           /\ source = "api" => EndOfPoll + PollDelay = now
           /\ source = "objects" => EndOfPoll = now
           /\ cursor # Unset => \/ StartOfPoll = cursor
                                \/ StartOfPoll = EndOfPoll - Retention
<1> USE ConstantFacts DEF Typing, EndOfPoll, StartOfPoll, Later, Unset
<1>1. EndOfPoll \in Int /\ EndOfPoll <= now
      /\ (source = "api" => EndOfPoll + PollDelay = now)
      /\ (source = "objects" => EndOfPoll = now)
  OBVIOUS
<1> HIDE DEF EndOfPoll
<1>2. StartOfPoll \in Nat /\ cursor <= StartOfPoll
  <2>1. CASE cursor = Unset
    BY <1>1, <2>1
  <2>2. CASE cursor # Unset
    BY <1>1, <2>2
  <2> QED BY <2>1, <2>2
<1>3. cursor # Unset => \/ StartOfPoll = cursor
                        \/ StartOfPoll = EndOfPoll - Retention
  BY <1>1
<1> QED BY <1>1, <1>2, <1>3

LEMMA CoverFacts ==
    ASSUME NEW t \in Nat
    PROVE  CoveredFrom(t) \in Nat /\ t <= CoveredFrom(t) /\ CoveredFrom(t) # Unset
BY MinuteFacts DEF CoveredFrom, Later, Unset

\* What Continue leaves of a poll whose ranges are done up to the cursor.
LEMMA ContinueInv ==
    ASSUME Typing', NEW from \in Nat, NEW end \in Int, Continue(from, end),
           source = "api", UNCHANGED <<source, now>>,
           end + PollDelay <= now, cursor' <= from,
           \A f \in Flows : LoggedAt[f] < from => Done(f)'
    PROVE  PollInv' /\ poll'.at \in {"idle", "fetch"}
<1> USE ConstantFacts
<1>1. CASE from >= end
  BY <1>1 DEF Continue, Idle, PollInv
<1>2. CASE ~(from >= end)
  <2> DEFINE to == Earlier(from + maxPollChunk, end)
  <2>1. poll' = [at |-> "fetch", from |-> from, end |-> end, to |-> to]
    BY <1>2 DEF Continue
  <2>2. to \in Nat /\ end \in Nat /\ from < to /\ to <= end
    BY <1>2 DEF Earlier
  <2> HIDE DEF to
  <2>3. /\ poll'.at = "fetch" /\ poll'.from = from /\ poll'.end = end /\ poll'.to = to
        /\ poll' = [at |-> "fetch", from |-> poll'.from, end |-> poll'.end, to |-> poll'.to]
    BY <2>1
  <2>4. FetchInv'
    BY <2>2, <2>3 DEF FetchInv
  <2> QED BY <2>3, <2>4 DEF PollInv
<1> QED BY <1>1, <1>2

\* A poll begins: all that an empty cache lacks lies before its floor.
LEMMA BeginPollInv == ASSUME IInv, BeginPoll PROVE IInv'
<1> USE DEF BeginPoll
<1>0. /\ UNCHANGED <<now, source, visible, cursor, stored, cached, reader>>
      /\ poll.at = "idle"
      /\ since' = IF source = "api" /\ cursor = Unset THEN StartOfPoll ELSE since
  BY DEF Idle
<1>1. /\ EndOfPoll \in Int /\ StartOfPoll \in Nat /\ cursor <= StartOfPoll /\ EndOfPoll <= now
      /\ (source = "api" => EndOfPoll + PollDelay = now)
      /\ (source = "objects" => EndOfPoll = now)
      /\ (cursor # Unset => \/ StartOfPoll = cursor
                            \/ StartOfPoll = EndOfPoll - Retention)
  BY StartFacts DEF IInv
<1>2. CoverPoint \in Nat /\ CoveredFrom(CoverPoint) \in Nat
      /\ CoverPoint <= CoveredFrom(CoverPoint) /\ CoveredFrom(CoverPoint) # Unset
  <2>1. CoverPoint \in Nat
    BY <1>1 DEF CoverPoint, IInv, Typing
  <2> QED BY <2>1, CoverFacts
<1>3. completeFrom' = IF completeFrom = Unset THEN CoveredFrom(CoverPoint) ELSE completeFrom
  BY DEF CoverFrom
<1>4. poll'.at \in IF source = "api" THEN {"idle", "fetch"} ELSE {"objects"}
  BY DEF Continue, Idle
<1>5. Typing'
  BY <1>0, <1>1, <1>2, <1>3, <1>4 DEF IInv, Typing
<1>6. SourceInv'
  BY <1>0 DEF IInv, SourceInv
<1>7. \A f \in Flows : source = "api" /\ LoggedAt[f] < StartOfPoll => Done(f)'
  <2> TAKE f \in Flows
  <2> HAVE source = "api" /\ LoggedAt[f] < StartOfPoll
  <2>0. LoggedAt[f] \in Nat
    BY FlowFacts
  <2>1. CASE cursor = Unset
    BY <1>0, <2>1 DEF Done, OutOfReach
  <2>2. CASE cursor # Unset /\ StartOfPoll = cursor
    BY <1>0, <2>2 DEF IInv, StoreInv, Done, OutOfReach
  <2>3. CASE StartOfPoll = EndOfPoll - Retention
    BY <1>0, <1>1, <2>0, <2>3, ConstantFacts DEF Done, OutOfReach, IInv, Typing
  <2> QED BY <1>1, <2>1, <2>2, <2>3
<1>8. StoreInv'
  <2>1. \A f \in Flows : source = "api" /\ LoggedAt[f] < cursor => Done(f)'
    BY <1>1, <1>7, FlowFacts DEF IInv, Typing, Unset
  <2> QED BY <1>0, <2>1 DEF IInv, StoreInv
<1>9. PollInv'
  <2>1. CASE source = "api"
    <3>1. Continue(StartOfPoll, EndOfPoll)
      BY <2>1
    <3> QED BY <1>0, <1>1, <1>5, <1>7, <2>1, <3>1, ContinueInv DEF IInv, Typing
  <2>2. CASE source = "objects"
    <3>1. poll' = [at |-> "objects", end |-> now]
      BY <2>2
    <3> QED BY <1>0, <3>1 DEF PollInv, IInv, Typing
  <2> QED BY <2>1, <2>2 DEF IInv, Typing
<1>10. \A f \in Flows : Settled[f] = stored[f] /\ Settled'[f] = stored[f]
  <2>1. Typing /\ \A f \in Flows : ~InHand(f) /\ ~InHand(f)'
    BY <1>0, <1>4 DEF IInv, Typing, InHand
  <2>2. \A f \in Flows : Settled[f] = stored[f]
    BY <2>1, SettledFacts
  <2>3. \A f \in Flows : Settled'[f] = stored'[f]
    BY <1>0, <1>4 DEF Settled, IInv, Typing
  <2> QED BY <1>0, <2>2, <2>3
<1>11. CacheInv'
  <2>1. \A f \in Flows : cached'[f] <= Settled'[f]
    BY <1>0, <1>10 DEF IInv, CacheInv
  <2>2. CASE completeFrom = Unset
    <3>1. cached' = Nothing /\ completeFrom' # Unset
      BY <1>0, <1>2, <1>3, <2>2 DEF IInv, CacheInv
    <3>2. ASSUME NEW f \in Flows, BucketOf(f) >= completeFrom' PROVE stored[f] = 0
      <4>1. LoggedAt[f] >= CoverPoint /\ LoggedAt[f] \in Nat
        BY <1>2, <1>3, <2>2, <3>2, FlowFacts
      <4>2. CASE source = "api"
        <5>1. LoggedAt[f] >= cursor
          BY <1>1, <4>1, <4>2 DEF CoverPoint, IInv, Typing, Unset
        <5> QED BY <4>1, <4>2, <5>1 DEF IInv, StoreInv, Typing, Unset
      <4>3. CASE source = "objects"
        BY <1>1, <4>1, <4>3 DEF CoverPoint, IInv, StoreInv, Typing
      <4> QED BY <4>2, <4>3 DEF IInv, Typing
    <3> QED BY <1>10, <2>1, <3>1, <3>2 DEF CacheInv, CacheMatchesStore, Nothing
  <2>3. CASE completeFrom # Unset
    <3>1. CacheMatchesStore'
      BY <1>0, <1>3, <1>10, <2>3 DEF IInv, CacheInv, CacheMatchesStore
    <3> QED BY <1>3, <2>1, <2>3, <3>1 DEF CacheInv
  <2> QED BY <2>2, <2>3
<1>12. ReaderInv'
  BY <1>0, ReaderFrame DEF IInv, Typing
<1> QED BY <1>5, <1>6, <1>8, <1>9, <1>11, <1>12 DEF IInv

-----------------------------------------------------------------------------
(* Ranges of the API source                                                 *)

\* The source has settled before the range's end: the answer is complete.
LEMMA FetchStepInv == ASSUME IInv, Fetch PROVE IInv'
<1> USE DEF Fetch, tables, cache
<1> DEFINE batch == {f \in visible : poll.from <= LoggedAt[f] /\ LoggedAt[f] < poll.to}
<1>0. /\ UNCHANGED <<now, source, visible, cursor, stored, since, cached, completeFrom, reader>>
      /\ poll.at = "fetch" /\ source = "api" /\ FetchInv
      /\ poll' = [at |-> "commit", to |-> poll.to, end |-> poll.end, batch |-> batch]
  BY DEF IInv, Typing, PollInv
<1>1. \A f \in Flows : f \in batch <=> poll.from <= LoggedAt[f] /\ LoggedAt[f] < poll.to
  <2>1. \A f \in Flows \ visible : ~(LoggedAt[f] < poll.to)
    BY <1>0, FlowFacts, ConstantFacts DEF FetchInv, IInv, SourceInv, Typing
  <2> QED BY <2>1 DEF IInv, Typing
<1>2. batch \subseteq Flows
  BY DEF IInv, Typing
<1> HIDE DEF batch, Fetch
<1>3. /\ poll'.at = "commit" /\ poll'.to = poll.to /\ poll'.end = poll.end /\ poll'.batch = batch
      /\ poll' = [at |-> "commit", to |-> poll'.to, end |-> poll'.end, batch |-> poll'.batch]
  BY <1>0
<1>4. Typing'
  BY <1>0, <1>3 DEF IInv, Typing
<1>5. SourceInv' /\ StoreInv'
  BY <1>0 DEF IInv, SourceInv, StoreInv, Done, OutOfReach
<1>6. CommitInv'
  <2>1. \A f \in batch : stored[f] = 0 /\ LoggedAt[f] < poll.to
    <3> TAKE f \in batch
    <3>1. f \in Flows /\ poll.from <= LoggedAt[f] /\ LoggedAt[f] < poll.to
      BY <1>1, <1>2
    <3>2. ~(LoggedAt[f] < cursor) /\ stored[f] \in Nat
      BY <1>0, <3>1, FlowFacts DEF FetchInv, IInv, Typing, Unset
    <3> QED BY <1>0, <3>1, <3>2 DEF IInv, StoreInv
  <2>2. \A f \in Flows \ batch : LoggedAt[f] < poll.to => Done(f)
    BY <1>0, <1>1, FlowFacts DEF FetchInv
  <2>3. cursor < poll.to /\ {poll.to, poll.end} \subseteq Nat
        /\ poll.to <= poll.end /\ poll.end + PollDelay <= now
    BY <1>0 DEF FetchInv, IInv, Typing, Unset
  <2> QED BY <1>0, <1>2, <1>3, <2>1, <2>2, <2>3 DEF CommitInv, Done, OutOfReach
<1>7. PollInv'
  BY <1>3, <1>6 DEF PollInv
<1>8. Settled' = Settled
  BY <1>0, <1>3 DEF Settled
<1>9. CacheInv'
  BY <1>0, <1>3, <1>8 DEF IInv, CacheInv, CacheMatchesStore
<1>10. ReaderInv'
  BY <1>0, ReaderFrame DEF IInv, Typing
<1> QED BY <1>4, <1>5, <1>7, <1>9, <1>10 DEF IInv

\* Rows and cursor in one transaction.
LEMMA CommitRangeInv == ASSUME IInv, CommitRange PROVE IInv'
<1> USE DEF CommitRange, cache
<1>0. /\ UNCHANGED <<now, source, visible, since, cached, completeFrom, reader>>
      /\ poll.at = "commit" /\ source = "api" /\ CommitInv
      /\ poll.to \in Nat /\ poll.end \in Nat /\ poll.end + PollDelay <= now /\ cursor < poll.to
      /\ poll.batch \subseteq Flows
  BY DEF IInv, Typing, PollInv, CommitInv
<1>1. cursor' = poll.to
  BY <1>0 DEF CommittedCursor, Later, IInv, Typing, Unset
<1>2. /\ stored' \in [Flows -> Nat]
      /\ \A f \in Flows : stored'[f] = IF f \in poll.batch THEN stored[f] + 1 ELSE stored[f]
  BY DEF Added, IInv, Typing
<1>3. poll'.at \in {"idle", "fetch", "cache"}
  <2>1. poll = [at |-> "commit", to |-> poll.to, end |-> poll.end, batch |-> poll.batch]
    BY <1>0 DEF CommitInv
  <2>2. CASE poll.batch = {}
    BY <2>2 DEF Continue, Idle
  <2>3. CASE poll.batch # {}
    BY <2>1, <2>3
  <2> QED BY <2>2, <2>3
<1>4. Typing'
  BY <1>0, <1>1, <1>2, <1>3 DEF IInv, Typing
<1>5. SourceInv'
  BY <1>0 DEF IInv, SourceInv
<1>6. \A f \in Flows : Done(f) => Done(f)'
  <2> TAKE f \in Flows
  <2>1. Typing /\ stored'[f] \in Nat /\ stored[f] <= stored'[f] /\ now' \in Nat /\ now <= now'
    BY <1>0, <1>2 DEF IInv, Typing
  <2> QED BY <1>0, <2>1, DoneStays
<1>7. \A f \in Flows : LoggedAt[f] < poll.to => Done(f)'
  <2> TAKE f \in Flows
  <2> HAVE LoggedAt[f] < poll.to
  <2>1. CASE f \in poll.batch
    BY <1>2, <2>1 DEF Done, IInv, Typing
  <2>2. CASE f \notin poll.batch
    BY <1>0, <1>6, <2>2 DEF CommitInv
  <2> QED BY <2>1, <2>2
<1>8. StoreInv'
  <2>1. \A f \in Flows : stored'[f] <= 1 /\ (stored'[f] > 0 => LoggedAt[f] < poll.to)
    <3> TAKE f \in Flows
    <3>1. CASE f \in poll.batch
      BY <1>0, <1>2, <3>1 DEF CommitInv
    <3>2. CASE f \notin poll.batch
      BY <1>0, <1>2, <3>2, FlowFacts DEF IInv, Typing, StoreInv, Unset
    <3> QED BY <3>1, <3>2
  <2> QED BY <1>0, <1>1, <1>7, <2>1 DEF StoreInv
<1>9. CASE poll.batch = {}
  <2>1. Continue(poll.to, poll.end)
    BY <1>9
  <2>2. PollInv' /\ poll'.at \in {"idle", "fetch"}
    BY <1>0, <1>1, <1>4, <1>7, <2>1, ContinueInv
  <2>3. stored' = stored
    BY <1>2, <1>9 DEF IInv, Typing
  <2>4. Settled' = Settled
    BY <1>0, <2>2, <2>3 DEF Settled
  <2>5. CacheInv'
    BY <1>0, <2>2, <2>4 DEF IInv, CacheInv, CacheMatchesStore
  <2>6. ReaderInv'
    BY <1>0, <2>3, ReaderFrame DEF IInv, Typing
  <2> QED BY <1>4, <1>5, <1>8, <2>2, <2>5, <2>6 DEF IInv
<1>10. CASE poll.batch # {}
  <2>1. poll'.at = "cache" /\ poll'.to = poll.to /\ poll'.end = poll.end
        /\ poll'.batch = poll.batch
    <3>1. poll = [at |-> "commit", to |-> poll.to, end |-> poll.end, batch |-> poll.batch]
      BY <1>0 DEF CommitInv
    <3>2. poll' = [poll EXCEPT !.at = "cache"]
      BY <1>10
    <3> QED BY <3>1, <3>2
  <2>2. \A f \in poll.batch : stored'[f] > 0
    BY <1>0, <1>2 DEF IInv, Typing
  <2>3. PollInv'
    BY <1>0, <1>1, <2>1, <2>2 DEF PollInv, InHandInv
  <2>4. \A f \in Flows : Settled'[f] = Settled[f]
    <3> TAKE f \in Flows
    <3>1. Settled[f] = stored[f] /\ stored[f] \in Nat
      BY <1>0, SettledFacts DEF IInv, Typing, InHand
    <3>2. Settled'[f] = stored'[f] - IF f \in poll.batch THEN 1 ELSE 0
      BY <2>1 DEF Settled
    <3> QED BY <1>2, <3>1, <3>2
  <2>5. CacheInv'
    BY <1>0, <2>1, <2>4 DEF IInv, CacheInv, CacheMatchesStore
  <2>6. \A f \in Flows : stored[f] <= stored'[f]
    BY <1>2 DEF IInv, Typing
  <2>7. ReaderInv'
    BY <1>0, <1>2, <2>6, ReaderFrame DEF IInv, Typing
  <2> QED BY <1>4, <1>5, <1>8, <2>3, <2>5, <2>7 DEF IInv
<1> QED BY <1>9, <1>10

-----------------------------------------------------------------------------
(* From the store to the cache                                              *)

\* A batch reaches the cache: its rows settle, and old minutes are dropped.
LEMMA UpdatedFacts ==
    ASSUME IInv, poll.at \in {"cache", "object"}, cached' = Updated(poll.batch),
           poll'.at \notin {"cache", "object"},
           UNCHANGED <<now, stored, completeFrom, reader>>
    PROVE  cached' \in [Flows -> Nat] /\ CacheInv' /\ ReaderInv'
<1>1. /\ cached' \in [Flows -> Nat]
      /\ \A f \in Flows :
             cached'[f] = IF BucketOf(f) < now - maxAge THEN 0
                          ELSE cached[f] + IF f \in poll.batch THEN 1 ELSE 0
  BY DEF Updated, IInv, Typing
<1>2. completeFrom # Unset /\ poll.batch \subseteq Flows /\ \A f \in poll.batch : stored[f] > 0
  BY DEF IInv, CacheInv, PollInv, InHandInv
<1>3. \A f \in Flows : Settled'[f] = stored[f]
  BY DEF Settled, IInv, Typing
<1>4. \A f \in Flows : /\ cached[f] \in Nat /\ stored[f] \in Nat
                       /\ Settled[f] = stored[f] - (IF f \in poll.batch THEN 1 ELSE 0)
  BY DEF Settled, IInv, Typing
<1>5. \A f \in Flows : cached'[f] <= Settled'[f]
  BY <1>1, <1>3, <1>4 DEF IInv, CacheInv
<1>6. CacheMatchesStore'
  <2> SUFFICES ASSUME NEW f \in Flows, BucketOf(f) >= completeFrom, BucketOf(f) >= now - maxAge
               PROVE  cached'[f] = stored[f]
    BY <1>3 DEF CacheMatchesStore
  <2>1. cached[f] = Settled[f]
    BY <1>2 DEF IInv, CacheInv, CacheMatchesStore
  <2>2. ~(BucketOf(f) < now - maxAge)
    BY FlowFacts, ConstantFacts DEF IInv, Typing
  <2> QED BY <1>1, <1>4, <2>1, <2>2
<1>7. \A f \in Flows : cached[f] <= cached'[f] \/ BucketOf(f) < now - maxAge
  BY <1>1, <1>4
<1>8. ReaderInv'
  BY <1>1, <1>7, ReaderFrame DEF IInv, Typing
<1> QED BY <1>1, <1>2, <1>5, <1>6, <1>8 DEF CacheInv

LEMMA UpdateCacheInv == ASSUME IInv, UpdateCache PROVE IInv'
<1> USE DEF UpdateCache, tables
<1>0. /\ UNCHANGED <<now, source, visible, cursor, stored, since, completeFrom, reader>>
      /\ poll.at = "cache" /\ source = "api" /\ Continue(poll.to, poll.end)
      /\ poll.to \in Nat /\ poll.to = cursor /\ poll.end \in Nat /\ poll.end + PollDelay <= now
  BY DEF IInv, Typing, PollInv, InHandInv
<1>1. poll'.at \in {"idle", "fetch"}
  BY <1>0 DEF Continue, Idle
<1>2. cached' \in [Flows -> Nat] /\ CacheInv' /\ ReaderInv'
  BY <1>0, <1>1, UpdatedFacts
<1>3. Typing'
  BY <1>0, <1>1, <1>2 DEF IInv, Typing
<1>4. SourceInv' /\ StoreInv'
  BY <1>0 DEF IInv, SourceInv, StoreInv, Done, OutOfReach
<1>5. \A f \in Flows : LoggedAt[f] < poll.to => Done(f)'
  BY <1>0 DEF IInv, StoreInv, Done, OutOfReach
<1>6. PollInv'
  <2>1. cursor' <= poll.to /\ poll.end \in Int
    BY <1>0
  <2> QED BY <1>0, <1>3, <1>5, <2>1, ContinueInv
<1> QED BY <1>2, <1>3, <1>4, <1>6 DEF IInv

LEMMA UpdateCacheObjectInv == ASSUME IInv, UpdateCacheObject PROVE IInv'
<1> USE DEF UpdateCacheObject, tables
<1>0. /\ UNCHANGED <<now, source, visible, cursor, stored, since, completeFrom, reader>>
      /\ poll.at = "object" /\ source = "objects" /\ poll.end \in Nat /\ poll.end <= now
      /\ poll'.at = "objects" /\ poll'.end = poll.end
  BY DEF IInv, Typing, PollInv, InHandInv
<1>1. cached' \in [Flows -> Nat] /\ CacheInv' /\ ReaderInv'
  BY <1>0, UpdatedFacts
<1>2. Typing'
  BY <1>0, <1>1 DEF IInv, Typing
<1>3. SourceInv' /\ StoreInv'
  BY <1>0 DEF IInv, SourceInv, StoreInv, Done, OutOfReach
<1>4. PollInv'
  BY <1>0 DEF PollInv
<1> QED BY <1>1, <1>2, <1>3, <1>4 DEF IInv

\* An object is committed with its key, so it is not listed again.
LEMMA CommitObjectInv == ASSUME IInv, NEW g \in Flows, CommitObject(g) PROVE IInv'
<1> USE DEF CommitObject, cache
<1>0. /\ UNCHANGED <<now, source, visible, cursor, since, cached, completeFrom, reader>>
      /\ poll.at = "objects" /\ source = "objects" /\ cursor = Unset
      /\ poll.end \in Nat /\ poll.end <= now /\ LoggedAt[g] < poll.end /\ stored[g] = 0
      /\ poll'.at = "object" /\ poll'.end = poll.end /\ poll'.batch = {g}
  BY DEF IInv, Typing, PollInv, StoreInv, Listed
<1>1. /\ stored' \in [Flows -> Nat]
      /\ \A f \in Flows : stored'[f] = IF f = g THEN 1 ELSE stored[f]
  BY <1>0 DEF Added, IInv, Typing
<1>2. Typing'
  BY <1>0, <1>1 DEF IInv, Typing
<1>3. SourceInv'
  BY <1>0 DEF IInv, SourceInv
<1>4. LoggedAt[g] < now
  BY <1>0, FlowFacts DEF IInv, Typing
<1>5. StoreInv'
  BY <1>0, <1>1, <1>4 DEF IInv, StoreInv
<1>6. PollInv'
  BY <1>0, <1>1 DEF PollInv, InHandInv
<1> HIDE DEF CommitObject
<1>7. \A f \in Flows : Settled'[f] = Settled[f]
  <2>1. \A f \in Flows : Settled[f] = stored[f] /\ stored[f] \in Nat
    BY <1>0, SettledFacts DEF IInv, Typing, InHand
  <2>2. \A f \in Flows : (poll'.at \in {"cache", "object"} /\ f \in poll'.batch) <=> f = g
    BY <1>0
  <2> TAKE f \in Flows
  <2>3. Settled'[f] = stored'[f] -
                     IF poll'.at \in {"cache", "object"} /\ f \in poll'.batch THEN 1 ELSE 0
    BY DEF Settled
  <2>4. CASE f = g
    <3>1. stored'[f] = 1 /\ stored[f] = 0
      BY <1>0, <1>1, <2>4
    <3>2. Settled'[f] = stored'[f] - 1
      BY <2>2, <2>3, <2>4
    <3> QED BY <2>1, <3>1, <3>2
  <2>5. CASE f # g
    <3>1. stored'[f] = stored[f]
      BY <1>1, <2>5
    <3>2. Settled'[f] = stored'[f] - 0
      BY <2>2, <2>3, <2>5
    <3> QED BY <2>1, <3>1, <3>2
  <2> QED BY <2>4, <2>5
<1>8. CacheInv'
  BY <1>0, <1>7 DEF IInv, CacheInv, CacheMatchesStore
<1>9. ReaderInv'
  <2>1. \A f \in Flows : stored[f] \in Nat
    BY DEF IInv, Typing
  <2>2. \A f \in Flows : stored[f] <= stored'[f]
    BY <1>0, <1>1, <2>1
  <2> QED BY <1>0, <1>1, <2>2, ReaderFrame DEF IInv, Typing
<1> QED BY <1>2, <1>3, <1>5, <1>6, <1>8, <1>9 DEF IInv

\* A poll ends, with or without what was left of it; nothing was in hand.
LEMMA EndPollInv == ASSUME IInv, EndObjects \/ PollFails PROVE IInv'
<1> USE DEF EndObjects, PollFails, tables, cache, Idle
<1>0. /\ UNCHANGED <<now, source, visible, cursor, stored, since, cached, completeFrom, reader>>
      /\ poll.at \notin {"cache", "object"} /\ poll'.at = "idle"
  OBVIOUS
<1>1. Typing' /\ SourceInv' /\ StoreInv'
  BY <1>0 DEF IInv, Typing, SourceInv, StoreInv, Done, OutOfReach
<1>2. PollInv'
  BY <1>0 DEF PollInv
<1>3. Settled' = Settled
  BY <1>0 DEF Settled
<1>4. CacheInv'
  BY <1>0, <1>3 DEF IInv, CacheInv, CacheMatchesStore
<1>5. ReaderInv'
  BY <1>0, ReaderFrame DEF IInv, Typing
<1> QED BY <1>1, <1>2, <1>4, <1>5 DEF IInv

\* The process stops: the cache is empty and has no floor again.
LEMMA RestartInv == ASSUME IInv, Restart PROVE IInv'
<1> USE DEF Restart, tables, Idle, Nothing
<1>0. /\ UNCHANGED <<now, source, visible, cursor, stored, since>>
      /\ cached' = Nothing /\ completeFrom' = Unset /\ poll'.at = "idle" /\ reader'.at = "idle"
  OBVIOUS
<1>1. Typing' /\ SourceInv' /\ StoreInv'
  BY <1>0 DEF IInv, Typing, SourceInv, StoreInv, Done, OutOfReach
<1>2. PollInv' /\ ReaderInv'
  BY <1>0 DEF PollInv, ReaderInv, CoveredAnswerIsWhole
<1>3. \A f \in Flows : Settled'[f] = stored[f] /\ stored[f] \in Nat
  BY <1>0 DEF Settled, IInv, Typing
<1>4. CacheInv'
  BY <1>0, <1>3 DEF CacheInv, CacheMatchesStore
<1> QED BY <1>1, <1>2, <1>4 DEF IInv

-----------------------------------------------------------------------------
(* A handler                                                                *)

\* A covered window has a floor under it, so the cache has its rows.
LEMMA AskCacheInv ==
    ASSUME IInv, NEW start \in 0 .. MaxTime, NEW end \in 0 .. MaxTime + minute,
           AskCache(start, end)
    PROVE  IInv'
<1> USE DEF AskCache, tables, cache
<1>0. /\ UNCHANGED <<now, source, visible, cursor, stored, since, cached, completeFrom, poll>>
      /\ reader'.at = "covered" /\ reader'.start = start /\ reader'.end = end
      /\ reader'.promised = Settled
      /\ cacheWindowCovers(start, end)
  OBVIOUS
<1>1. Typing' /\ SourceInv' /\ StoreInv'
  BY <1>0 DEF IInv, Typing, SourceInv, StoreInv, Done, OutOfReach
<1>2. PollInv'
  BY <1>0 DEF IInv, PollInv, FetchInv, CommitInv, InHandInv, Done, OutOfReach
<1>3. Settled' = Settled
  BY <1>0 DEF Settled
<1>4. CacheInv'
  BY <1>0, <1>3 DEF IInv, CacheInv, CacheMatchesStore
<1>5. completeFrom # Unset
  <2>1. PICK m \in Minutes(start, end) : HasRows(m)
    BY <1>0 DEF cacheWindowCovers
  <2>2. PICK f \in Flows : cached[f] > 0
    BY <2>1 DEF HasRows
  <2> QED BY <2>2 DEF IInv, CacheInv, Nothing
<1>6. ASSUME NEW f \in Flows, InWindow(f, start, end)
      PROVE  cached[f] >= Settled[f]
  <2>1. start \in Nat /\ end \in Nat /\ end <= MaxTime + minute
        /\ BucketOf(f) \in Nat /\ BucketOf(f) % minute = 0
        /\ start <= BucketOf(f) /\ BucketOf(f) < end
    BY <1>6, FlowFacts, ConstantFacts DEF InWindow
  <2>2. BucketOf(f) \in Minutes(start, end)
    BY <2>1, ConstantFacts DEF Minutes
  <2>3. BucketOf(f) >= completeFrom /\ start >= now - maxAge
    BY <1>0, <2>2 DEF cacheWindowCovers
  <2>4. BucketOf(f) >= now - maxAge
    BY <2>1, <2>3, ConstantFacts DEF IInv, Typing
  <2>5. cached[f] = Settled[f] /\ cached[f] \in Nat
    BY <1>5, <2>3, <2>4 DEF IInv, Typing, CacheInv, CacheMatchesStore
  <2> QED BY <2>5
<1>7. Settled \in [Flows -> Int]
  <2>1. Settled = [f \in Flows |-> Settled[f]]
    BY DEF Settled
  <2> QED BY <2>1, SettledFacts DEF IInv
<1>8. ReaderInv'
  BY <1>0, <1>6, <1>7 DEF ReaderInv, CoveredAnswerIsWhole, InWindow
<1> QED BY <1>1, <1>2, <1>4, <1>8 DEF IInv

\* The answer is read later: what is missing has left the cache's age.
LEMMA ReadCacheInv == ASSUME IInv, ReadCache PROVE IInv'
<1> USE DEF ReadCache, tables, cache
<1> DEFINE read == [f \in Flows |-> IF InWindow(f, reader.start, reader.end) THEN cached[f] ELSE 0]
<1>0. /\ UNCHANGED <<now, source, visible, cursor, stored, since, cached, completeFrom, poll>>
      /\ reader.at = "covered"
      /\ reader'.at = "done" /\ reader'.start = reader.start /\ reader'.end = reader.end
      /\ reader'.promised = reader.promised /\ reader'.time = now /\ reader'.rows = read
  OBVIOUS
<1>1. Typing' /\ SourceInv' /\ StoreInv'
  BY <1>0 DEF IInv, Typing, SourceInv, StoreInv, Done, OutOfReach
<1>2. PollInv'
  BY <1>0 DEF IInv, PollInv, FetchInv, CommitInv, InHandInv, Done, OutOfReach
<1>3. Settled' = Settled
  BY <1>0 DEF Settled
<1>4. CacheInv'
  BY <1>0, <1>3 DEF IInv, CacheInv, CacheMatchesStore
<1>5. \A f \in Flows : cached[f] <= stored[f]
  <2> TAKE f \in Flows
  <2>1. cached[f] <= Settled[f] /\ cached[f] \in Nat /\ stored[f] \in Nat
    BY DEF IInv, CacheInv, Typing
  <2>2. Settled[f] \in Int /\ Settled[f] <= stored[f]
    BY <2>1, SettledFacts DEF IInv
  <2> QED BY <2>1, <2>2
<1>6. read \in [Flows -> Nat]
  BY DEF IInv, Typing
<1>7. CoveredAnswerIsWhole'
  BY <1>0, <1>5 DEF CoveredAnswerIsWhole, IInv, ReaderInv, InWindow
<1>8. ReaderInv'
  BY <1>0, <1>6, <1>7 DEF ReaderInv
<1> QED BY <1>1, <1>2, <1>4, <1>8 DEF IInv

-----------------------------------------------------------------------------
LEMMA StepIInv == ASSUME IInv, [Next]_vars PROVE IInv'
<1>1. CASE \E f \in Flows : Appear(f)
  BY <1>1, AppearInv
<1>2. CASE Tick
  BY <1>2, TickInv
<1>3. CASE BeginPoll \/ Fetch \/ CommitRange \/ UpdateCache
  BY <1>3, BeginPollInv, FetchStepInv, CommitRangeInv, UpdateCacheInv
<1>4. CASE UpdateCacheObject \/ EndObjects \/ \E f \in Flows : CommitObject(f)
  BY <1>4, UpdateCacheObjectInv, EndPollInv, CommitObjectInv
<1>5. CASE PollFails \/ Restart
  BY <1>5, EndPollInv, RestartInv
<1>6. CASE \E start \in 0 .. MaxTime, end \in 0 .. MaxTime + minute : AskCache(start, end)
  BY <1>6, AskCacheInv
<1>7. CASE ReadCache
  BY <1>7, ReadCacheInv
<1>8. CASE UNCHANGED vars
  <2> USE <1>8 DEF vars
  <2>1. Typing' /\ SourceInv' /\ StoreInv'
    BY DEF IInv, Typing, SourceInv, StoreInv, Done, OutOfReach
  <2>2. PollInv'
    BY DEF IInv, PollInv, FetchInv, CommitInv, InHandInv, Done, OutOfReach
  <2>3. Settled' = Settled
    BY DEF Settled
  <2>4. CacheInv' /\ ReaderInv'
    BY <2>3 DEF IInv, CacheInv, CacheMatchesStore, ReaderInv, CoveredAnswerIsWhole
  <2> QED BY <2>1, <2>2, <2>4 DEF IInv
<1> QED BY <1>1, <1>2, <1>3, <1>4, <1>5, <1>6, <1>7, <1>8 DEF Next, PollStep

-----------------------------------------------------------------------------
(* The theorems                                                             *)

\* No flow is counted twice, and every flow behind the cursor was counted
\* unless no poll could reach it, over chunk boundaries, retries, restarts, a
\* cursor behind retention and late flows (pollChunked, pollRange,
\* CommitPollResults).
THEOREM FlowsAreCountedOnce == Spec => []EachFlowOnce
<1>1. IInv => EachFlowOnce
  <2> SUFFICES ASSUME IInv, NEW f \in Flows
               PROVE  stored[f] <= 1 /\ (LoggedAt[f] < cursor => Done(f))
    BY DEF EachFlowOnce, Done
  <2>1. source = "objects" => ~(LoggedAt[f] < cursor)
    BY FlowFacts DEF IInv, StoreInv, Unset
  <2> QED BY <2>1 DEF IInv, StoreInv, Typing
<1> QED BY <1>1, InitIInv, StepIInv, PTL DEF Spec

\* From its floor on and within its age the cache has the store's rows, but
\* for the batch in hand, also after a restart that emptied it
\* (RollingWindowCache.CoverFrom and Update, Poller.pollRange).
THEOREM CacheFollowsStore == Spec => []CacheMatchesStore
<1>1. IInv => CacheMatchesStore
  BY DEF IInv, CacheInv
<1> QED BY <1>1, InitIInv, StepIInv, PTL DEF Spec

\* A handler that was told its window is covered gets every row the store
\* showed then, and no other, although the cache is asked and read in two
\* critical sections (HasNodePairDataFor, GetNodePairs).
THEOREM CoveredAnswersAreWhole == Spec => []CoveredAnswerIsWhole
<1>1. IInv => CoveredAnswerIsWhole
  BY DEF IInv, ReaderInv
<1> QED BY <1>1, InitIInv, StepIInv, PTL DEF Spec

===============================================================================

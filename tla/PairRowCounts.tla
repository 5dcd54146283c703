---------------------------- MODULE PairRowCounts ----------------------------
(***************************************************************************)
(* node_pair_bucket_rows: the number of node_pairs rows of each minute,    *)
(* kept by an insert trigger, pruned by Cleanup, and counted once in the   *)
(* background for the rows that are older than the trigger.  Until that    *)
(* count is over (ready) readers count node_pairs itself.                  *)
(*                                                                         *)
(* The database file outlives the process.  Between two runs of this       *)
(* build an older one may run: the inserts of one with tailnets fire the   *)
(* trigger, but its retention leaves the counters of the minutes it drops, *)
(* and a rebuild of node_pairs loses the trigger.  StoreUpgrade opens the  *)
(* file.  One tailnet; minutes are numbered, and Chunk of them make one    *)
(* backfill transaction.                                                   *)
(***************************************************************************)
EXTENDS Naturals, FiniteSets

CONSTANTS
    LastMinute,     \* minutes are 0 .. LastMinute
    Chunk,          \* minutes per backfill transaction
    MaxRows,        \* bound: rows a minute may hold
    MaxOpens        \* bound: how often a process opens the file

ASSUME CountsAssumption == {LastMinute, MaxRows, MaxOpens} \subseteq Nat /\ Chunk \in Nat \ {0}

Minutes == 0 .. LastMinute

VARIABLES
    rows,           \* rows[m]: rows of node_pairs in minute m
    counters,       \* rows of node_pair_bucket_rows, 0 for none
    trigger,        \* the insert trigger exists
    ready,          \* "none" (no state row), "no" or "yes"
    cutoff,         \* what retention has passed; moves forward
    binary,         \* the program that has the file, one of Binaries
    build,          \* the background count of this binary
    opens

file == <<rows, counters, trigger, ready>>
countVars == <<file, cutoff, binary, build, opens>>

\* This build runs Init or serves; an older one has tailnets but no counters;
\* a flat one is the release before tailnets.
Binaries == {"none", "starting", "this", "older", "flat"}
Serving == binary \in {"this", "older", "flat"}

Stored(r) == {m \in Minutes : r[m] > 0}
Least(S) == CHOOSE m \in S : \A n \in S : m <= n
Greatest(S) == CHOOSE m \in S : \A n \in S : n <= m
Zero == [m \in Minutes |-> 0]
NoBuild == [at |-> "none"]

\* Counters below the oldest stored minute; all of them when none is stored.
Pruned == [m \in Minutes |->
             IF \E s \in Stored(rows) : s <= m THEN counters[m] ELSE 0]

\* ensureBucketRowCounts, which starts over unless trigger and state exist.
ensureBucketRowCounts ==
    IF trigger /\ ready # "none"
      THEN counters' = Pruned /\ UNCHANGED <<trigger, ready>>
    ELSE /\ counters' = Zero
         /\ trigger' = TRUE
         /\ ready' = IF Stored(rows) = {} THEN "yes" ELSE "no"

\* Another build rebuilds node_pairs while nothing serves the file.
Rebuild ==
    /\ binary = "none" /\ trigger
    /\ trigger' = FALSE
    /\ UNCHANGED <<rows, counters, ready, cutoff, binary, build, opens>>

-----------------------------------------------------------------------------
(* Writers, each a transaction under the tailnet's lock                     *)

\* Mutant: a count in progress keeps the trigger out.
TriggerFires_NotWhileBuilding == trigger /\ ready = "yes"

TriggerFires == trigger

\* A pair row is added; merging into one that is there fires nothing.
\* A catch-up poll reaches a PollDelay behind retention, so minutes Cleanup
\* has passed may come back; an older build is taken not to do that.
Insert(m) ==
    /\ Serving /\ rows[m] < MaxRows
    /\ binary # "this" => m >= cutoff
    /\ rows' = [rows EXCEPT ![m] = @ + 1]
    /\ counters' = [counters EXCEPT ![m] = @ + IF TriggerFires THEN 1 ELSE 0]
    /\ UNCHANGED <<trigger, ready, cutoff, binary, build, opens>>

\* Cleanup with pruneBucketRows, which an older build does not have.
Cleanup(c) ==
    /\ Serving /\ c >= cutoff
    /\ cutoff' = c
    /\ rows' = [m \in Minutes |-> IF m < c THEN 0 ELSE rows[m]]
    /\ counters' = IF binary = "this"
                   THEN [m \in Minutes |-> IF m < c THEN 0 ELSE counters[m]]
                   ELSE counters
    /\ UNCHANGED <<trigger, ready, binary, build, opens>>

-----------------------------------------------------------------------------
(* BuildPairRowCounts                                                       *)

\* Ready already, or nothing stored, or the range to count, read outside the
\* lock and once.
BuildStart ==
    /\ build.at = "start"
    /\ build' =
         IF trigger /\ ready = "yes" THEN NoBuild
         ELSE IF Stored(rows) = {} THEN [at |-> "done"]
         ELSE [at |-> "count", from |-> (Least(Stored(rows)) \div Chunk) * Chunk,
               last |-> Greatest(Stored(rows))]
    /\ UNCHANGED <<file, cutoff, binary, opens>>

\* Mutant: the recount adds to what the trigger has counted.
Recounted_Added(from) ==
    [m \in Minutes |-> IF from <= m /\ m < from + Chunk THEN counters[m] + rows[m]
                       ELSE counters[m]]

\* recountPairRows replaces the counters of one chunk.
Recounted(from) ==
    [m \in Minutes |-> IF from <= m /\ m < from + Chunk THEN rows[m] ELSE counters[m]]

\* Mutant: the loop does not move on to the next chunk.
Advanced_Stays(b) == b

\* The next chunk up to the newest minute seen at the start.
Advanced(b) == IF b.from + Chunk <= b.last THEN [b EXCEPT !.from = @ + Chunk]
               ELSE [at |-> "done"]

BuildChunk ==
    /\ build.at = "count"
    /\ counters' = Recounted(build.from)
    /\ build' = Advanced(build)
    /\ UNCHANGED <<rows, trigger, ready, cutoff, binary, opens>>

\* Mutant: the flag is set once the first tailnet or chunk has been counted.
Counted_Early == build.at \in {"count", "done"}

Counted == build.at = "done"

BuildEnds ==
    /\ Counted
    /\ ready' = "yes"
    /\ build' = IF build.at = "done" THEN NoBuild ELSE build
    /\ UNCHANGED <<rows, counters, trigger, cutoff, binary, opens>>

\* A statement fails: the count is given up until the next start.
BuildFails ==
    /\ build # NoBuild
    /\ build' = NoBuild
    /\ UNCHANGED <<file, cutoff, binary, opens>>

BuildStep == BuildStart \/ BuildChunk \/ BuildEnds

-----------------------------------------------------------------------------
(* What readers see                                                         *)

\* bucketRowsReady.
bucketRowsReady == trigger /\ ready = "yes"

\* While the counters answer for node_pairs, every minute from the oldest
\* stored one on is counted exactly: a total over them is the number of rows,
\* after any mix of inserts, retention, restarts and the background count.
CountersAreExact ==
    binary = "this" /\ bucketRowsReady =>
        \A m \in Minutes : (\E s \in Stored(rows) : s <= m) => counters[m] = rows[m]
=============================================================================

-------------------------- MODULE StoreUpgradeProofs --------------------------
(***************************************************************************)
(* Proofs about StoreUpgrade and PairRowCounts, for any number of minutes, *)
(* any chunk, and however often the file is opened, killed, rolled back,   *)
(* upgraded again or handed to an older build in between.                  *)
(*                                                                         *)
(* The backup: a file is wholly before the migration, wholly after it, or  *)
(* new, and each step of Init that has the copy or the transaction in hand *)
(* still finds the rows it took them from in the live file.                *)
(*                                                                         *)
(* The counters: below the oldest stored minute an older build may leave   *)
(* counters of rows that are gone, and only there; a minute whose counter  *)
(* differs from its rows otherwise is one the running count has ahead.     *)
(***************************************************************************)
EXTENDS StoreUpgrade, WellFoundedInduction, TLAPS

AllIn(l, kinds) == \A t \in Tables : l[t] \in kinds

OldLayouts == {"minutely", "flat", "full"}
Layouts == OldLayouts \cup {"absent", "tailnet"}
InitSteps == {"rename", "columns", "tidy", "vacuum", "publish", "begin", "migrate",
              "schema", "counts"}

\* The types the proof needs, and who may have the file at which step.
Typing ==
    /\ layout \in [Tables -> Layouts]
    /\ rows \in [Minutes -> Nat] /\ counters \in [Minutes -> Nat]
    /\ stats = rows
    /\ cutoff \in Nat
    /\ binary \in Binaries
    /\ at \in InitSteps \cup {"off"} /\ (at = "off" <=> binary # "starting")

\* A file is old, new or migrated as a whole; only a migrated one has the
\* trigger, and it is the one this build and the older ones serve.
LayoutInv ==
    /\ \/ AllIn(layout, OldLayouts)
       \/ AllIn(layout, {"absent"})
       \/ AllIn(layout, {"tailnet"})
    /\ trigger \/ binary \in {"this", "older"} \/ at = "counts" => AllIn(layout, {"tailnet"})
    /\ binary = "flat" => AllIn(layout, {"flat", "full"})
    /\ at = "columns" => \A t \in Tables : layout[t] # "minutely"
    /\ at \in {"tidy", "vacuum", "publish", "begin", "migrate"} => AllIn(layout, {"full"})
    /\ at = "schema" => \A t \in Tables : layout[t] \in {"absent", "tailnet"}

\* A copy of the file as it is before its migration.
CopyOf(f, r) ==
    /\ AllIn(f.layout, {"full"})
    /\ f.layout \in [Tables -> Layouts]
    /\ f.rows = r /\ f.stats = r
    /\ r \in [Minutes -> Nat] /\ f.counters \in [Minutes -> Nat]
    /\ ~f.trigger

\* The file as the open migration has it: some tables rebuilt.
MigrationOf(f, r) ==
    /\ AllIn(f.layout, {"full", "tailnet"})
    /\ f.layout \in [Tables -> Layouts]
    /\ f.rows = r /\ f.stats = r
    /\ f = [layout |-> f.layout, rows |-> f.rows, stats |-> f.stats,
            counters |-> f.counters, trigger |-> f.trigger, ready |-> f.ready]
    /\ ~f.trigger

CopiesInv ==
    /\ at = "publish" => CopyOf(tmp, rows)
    /\ at \in {"begin", "migrate"} /\ ~skip => CopyOf(backup, rows)
    /\ at = "migrate" => MigrationOf(txn, rows)
    /\ promised # NoRows => AllIn(layout, {"tailnet"}) /\ CopyOf(backup, promised)

\* Rows of minutes the trigger did not see, or saw and lost.
Exact(m) == counters[m] = rows[m]

\* A stale counter, of a minute without rows, lies behind what retention has
\* passed and below every stored minute; this build leaves none.
StaleInv ==
    trigger => \A m \in Minutes : rows[m] = 0 /\ counters[m] # 0 =>
                 /\ binary # "this"
                 /\ m < cutoff
                 /\ \A s \in Minutes : rows[s] > 0 => m < s

\* Once ready, and once the count is done, the minutes with rows are exact;
\* while it runs all others than those of the chunks ahead are.
CountInv ==
    /\ binary = "this" => trigger
    /\ binary # "this" => build = NoBuild
    /\ trigger /\ ready = "yes" => \A m \in Minutes : rows[m] > 0 => Exact(m)
    /\ build.at = "done" => \A m \in Minutes : rows[m] > 0 => Exact(m)
    /\ build.at = "count" =>
           /\ build.from \in Nat /\ build.last \in Nat
           /\ build = [at |-> "count", from |-> build.from, last |-> build.last]
           /\ \A m \in Minutes : rows[m] > 0 /\ ~Exact(m) =>
                                     build.from <= m /\ m <= build.last
    /\ build.at \in {"none", "start", "count", "done"}

IInv == Typing /\ LayoutInv /\ CopiesInv /\ StaleInv /\ CountInv

-----------------------------------------------------------------------------
(* Minutes and tables *)

LEMMA LeastNat ==
    ASSUME NEW S \in SUBSET Nat, S # {}
    PROVE  \E x \in S : \A y \in S : x <= y
<1> DEFINE Less == {p \in Nat \X Nat : p[1] < p[2]}
<1>1. IsWellFoundedOn(Less, Nat)
  BY NatLessThanWellFounded DEF OpToRel
<1>2. PICK x \in S : \A y \in S : <<y, x>> \notin Less
  <2> HIDE DEF Less
  <2> QED BY <1>1, WFMin
<1>3. \A y \in S : ~(y < x)
  BY <1>2
<1> QED BY <1>3

\* The oldest and the newest stored minute, when there is one.
LEMMA Extremes ==
    ASSUME NEW S \in SUBSET Minutes, S # {}
    PROVE  /\ Least(S) \in S /\ \A n \in S : Least(S) <= n
           /\ Greatest(S) \in S /\ \A n \in S : n <= Greatest(S)
<1> USE CountsAssumption DEF Minutes
<1>1. \E x \in S : \A y \in S : x <= y
  BY LeastNat
<1>2. \E x \in S : \A y \in S : y <= x
  <2> DEFINE T == {LastMinute - y : y \in S}
  <2>0. PICK s \in S : TRUE
    OBVIOUS
  <2>1. T \in SUBSET Nat /\ LastMinute - s \in T
    <3>1. \A y \in S : LastMinute - y \in Nat
      OBVIOUS
    <3> QED BY <3>1
  <2>2. PICK z \in T : \A y \in T : z <= y
    <3> HIDE DEF T
    <3> QED BY <2>1, LeastNat
  <2>3. PICK x \in S : z = LastMinute - x
    OBVIOUS
  <2>4. \A y \in S : LastMinute - y \in T
    OBVIOUS
  <2>5. \A y \in S : y <= x
    <3> HIDE DEF T
    <3> TAKE y \in S
    <3>1. z <= LastMinute - y
      BY <2>2, <2>4
    <3> QED BY <3>1, <2>3
  <2> QED BY <2>5
<1> QED BY <1>1, <1>2 DEF Least, Greatest

LEMMA LeastTable ==
    ASSUME NEW S \in SUBSET Tables, S # {}
    PROVE  Least(S) \in S
<1> USE DEF Tables, NodePairs, TrafficStats
<1>1. \E m \in S : \A n \in S : m <= n
  <2>1. CASE 1 \in S
    BY <2>1
  <2>2. CASE 1 \notin S
    <3>1. S = {2}
      BY <2>2
    <3> QED BY <3>1
  <2> QED BY <2>1, <2>2
<1> QED BY <1>1 DEF Least

\* The two tables are in some layout each.
LEMMA TwoTables ==
    \A l : \A kinds : AllIn(l, kinds) <=> l[NodePairs] \in kinds /\ l[TrafficStats] \in kinds
BY DEF AllIn, Tables

-----------------------------------------------------------------------------
LEMMA InitIInv == Init => IInv
<1> SUFFICES ASSUME Init PROVE IInv
  OBVIOUS
<1> USE CountsAssumption DEF Init
<1>1. layout \in [Tables -> {"minutely", "flat"}] \/ layout = [t \in Tables |-> "absent"]
  OBVIOUS
<1>2. Typing
  <2>1. layout \in [Tables -> Layouts]
    BY <1>1 DEF Layouts, OldLayouts
  <2>2. rows \in [Minutes -> Nat] /\ counters \in [Minutes -> Nat] /\ cutoff \in Nat
    BY DEF Zero
  <2>3. stats = rows /\ binary \in Binaries /\ at = "off" /\ binary = "none"
    BY DEF Binaries
  <2> QED BY <2>1, <2>2, <2>3 DEF Typing
<1>3. LayoutInv
  BY <1>1 DEF LayoutInv, AllIn, OldLayouts
<1>4. CopiesInv
  BY DEF CopiesInv
<1>5. StaleInv /\ CountInv
  BY DEF StaleInv, CountInv, NoBuild
<1> QED BY <1>2, <1>3, <1>4, <1>5 DEF IInv

-----------------------------------------------------------------------------
(* Steps that leave the rows and their counters alone *)

\* What StaleInv and CountInv speak of does not change.
LEMMA CountsFrame ==
    ASSUME IInv, UNCHANGED <<rows, counters, trigger, ready, cutoff, build>>,
           binary' = binary \/ (binary # "this" /\ binary' # "this")
    PROVE  StaleInv' /\ CountInv'
BY DEF IInv, StaleInv, CountInv, Exact

\* A process takes the file.
LEMMA BeginInv ==
    ASSUME IInv, Start \/ StartFlat \/ StartOlder
    PROVE  IInv'
<1> USE DEF Begins, file, upgradeVars
<1>1. StaleInv' /\ CountInv'
  BY CountsFrame DEF Start, StartFlat, StartOlder
<1>2. Typing'
  BY DEF IInv, Typing, Start, StartFlat, StartOlder, InitSteps, Binaries
<1>3. LayoutInv'
  BY DEF IInv, Typing, LayoutInv, Start, StartFlat, StartOlder, AllIn
<1>4. CopiesInv'
  BY DEF IInv, Typing, CopiesInv, Start, StartFlat, StartOlder
<1> QED BY <1>1, <1>2, <1>3, <1>4 DEF IInv

\* It ends, at whatever step.
LEMMA EndsInv ==
    ASSUME IInv, binary # "none", Ends
    PROVE  IInv'
<1> USE DEF Ends, file
<1>1. Typing'
  BY DEF IInv, Typing, Binaries
<1>2. LayoutInv'
  BY DEF IInv, LayoutInv, AllIn
<1>3. CopiesInv'
  BY DEF IInv, CopiesInv
<1>4. StaleInv' /\ CountInv'
  <2>1. binary' = "none" /\ build' = NoBuild
    OBVIOUS
  <2> QED BY <2>1 DEF IInv, StaleInv, CountInv, NoBuild, Exact
<1> QED BY <1>1, <1>2, <1>3, <1>4 DEF IInv

\* The backup becomes the live file again: an old one, without a trigger.
LEMMA RollBackInv == ASSUME IInv, RollBack PROVE IInv'
<1> USE DEF RollBack
<1>1. CopyOf(backup, promised)
  BY DEF IInv, CopiesInv
<1>2. Typing'
  BY <1>1 DEF IInv, Typing, CopyOf
<1>3. LayoutInv'
  <2>1. AllIn(layout', {"full"}) /\ ~trigger'
    BY <1>1 DEF CopyOf
  <2>2. binary' = "none" /\ at' = "off"
    BY DEF IInv, Typing
  <2> QED BY <2>1, <2>2 DEF LayoutInv, AllIn, OldLayouts
<1>4. CopiesInv'
  BY DEF IInv, Typing, CopiesInv
<1>5. StaleInv' /\ CountInv'
  <2>1. ~trigger' /\ binary' = "none" /\ build' = NoBuild
    BY <1>1 DEF IInv, CountInv, CopyOf
  <2> QED BY <2>1 DEF StaleInv, CountInv, NoBuild
<1> QED BY <1>2, <1>3, <1>4, <1>5 DEF IInv

\* Another build loses the trigger.
LEMMA RebuildInv == ASSUME IInv, Rebuild, UNCHANGED upgradeVars PROVE IInv'
<1> USE DEF Rebuild, upgradeVars
<1>1. Typing' /\ LayoutInv' /\ CopiesInv'
  BY DEF IInv, Typing, LayoutInv, CopiesInv, AllIn
<1>2. StaleInv' /\ CountInv'
  BY DEF IInv, StaleInv, CountInv, Exact, NoBuild
<1> QED BY <1>1, <1>2 DEF IInv

-----------------------------------------------------------------------------
(* The steps of Init up to the counters *)

InitFrame == UNCHANGED <<rows, counters, trigger, ready, cutoff, binary, build>>

\* They leave rows and counters alone, the migration's commit but for what
\* it took over unchanged.
LEMMA UpToCountsFrame ==
    ASSUME IInv,
           \/ RenameTable \/ ensureLegacyColumns \/ Tidy \/ Vacuum \/ Publish
           \/ BeginMigration \/ migrateTailnetTable \/ ensureTailnetSchema
    PROVE  InitFrame /\ stats' = stats
BY DEF InitFrame, countVars, file, RenameTable, ensureLegacyColumns, Tidy, Vacuum, Publish,
       BeginMigration, migrateTailnetTable, ensureTailnetSchema

\* Renamings and columns: the tables stay old, or absent, or migrated.
LEMMA RenameInv == ASSUME IInv, RenameTable PROVE IInv'
<1> USE DEF RenameTable, Step
<1>0. InitFrame /\ stats' = stats
  BY UpToCountsFrame
<1>1. StaleInv' /\ CountInv'
  BY <1>0, CountsFrame DEF InitFrame
<1>2. CASE In("minutely") = {}
  <2>1. Typing'
    BY <1>0, <1>2 DEF InitFrame, IInv, Typing, InitSteps
  <2>2. LayoutInv'
    BY <1>0, <1>2 DEF InitFrame, IInv, Typing, LayoutInv, AllIn, In
  <2>3. CopiesInv'
    BY <1>0, <1>2 DEF IInv, CopiesInv, InitFrame
  <2> QED BY <1>1, <2>1, <2>2, <2>3 DEF IInv
<1>3. CASE In("minutely") # {}
  <2> DEFINE t == Least(In("minutely"))
  <2>1. t \in Tables /\ layout[t] = "minutely"
    BY <1>3, LeastTable DEF In
  <2>2. layout' = [layout EXCEPT ![t] = "flat"] /\ at' = at
    BY <1>3
  <2> HIDE DEF t
  <2>3. Typing'
    BY <1>0, <2>1, <2>2 DEF InitFrame, IInv, Typing, Layouts, OldLayouts
  <2>4. AllIn(layout, OldLayouts) /\ AllIn(layout', OldLayouts) /\ ~trigger
    BY <2>1, <2>2 DEF IInv, Typing, LayoutInv, AllIn, OldLayouts
  <2>5. LayoutInv'
    BY <1>0, <2>2, <2>4 DEF InitFrame, IInv, Typing, LayoutInv
  <2>6. promised = NoRows
    BY <2>1 DEF IInv, CopiesInv, AllIn
  <2>7. CopiesInv'
    BY <1>0, <2>6 DEF IInv, CopiesInv, InitFrame
  <2> QED BY <1>1, <2>3, <2>5, <2>7 DEF IInv
<1> QED BY <1>2, <1>3

LEMMA ColumnsInv == ASSUME IInv, ensureLegacyColumns PROVE IInv'
<1> USE DEF ensureLegacyColumns, Step
<1>0. InitFrame /\ stats' = stats
  BY UpToCountsFrame
<1>1. StaleInv' /\ CountInv'
  BY <1>0, CountsFrame DEF InitFrame
<1>2. CASE In("flat") = {}
  <2>0. layout' = layout /\ at' \in {"schema", "begin", "tidy"}
        /\ (at' = "schema" <=> ~tailnetMigrationNeeded) /\ (at' = "begin" => skip)
    BY <1>2
  <2>1. Typing'
    BY <1>0, <2>0 DEF InitFrame, IInv, Typing, InitSteps
  <2>2. ASSUME tailnetMigrationNeeded PROVE LayoutInv'
    <3>1. AllIn(layout, {"full"})
      BY <1>2, <2>2 DEF tailnetMigrationNeeded, IInv, LayoutInv, AllIn, In, OldLayouts
    <3>2. LayoutInv'
      BY <1>0, <2>0, <2>2, <3>1 DEF InitFrame, IInv, Typing, LayoutInv, AllIn, OldLayouts
    <3> QED BY <3>2
  <2>3. ASSUME ~tailnetMigrationNeeded PROVE LayoutInv'
    <3>1. at' = "schema" /\ \A t \in Tables : layout'[t] \in {"absent", "tailnet"}
      BY <2>0, <2>3 DEF tailnetMigrationNeeded
    <3> QED BY <1>0, <2>0, <3>1 DEF InitFrame, IInv, Typing, LayoutInv
  <2>4. LayoutInv'
    BY <2>2, <2>3
  <2>5. CopiesInv'
    BY <1>0, <1>2, <2>0 DEF IInv, CopiesInv, InitFrame
  <2> QED BY <1>1, <2>1, <2>4, <2>5 DEF IInv
<1>3. CASE In("flat") # {}
  <2> DEFINE t == Least(In("flat"))
  <2>1. t \in Tables /\ layout[t] = "flat"
    BY <1>3, LeastTable DEF In
  <2>2. layout' = [layout EXCEPT ![t] = "full"] /\ at' = at
    BY <1>3
  <2> HIDE DEF t
  <2>3. Typing'
    BY <1>0, <2>1, <2>2 DEF InitFrame, IInv, Typing, Layouts, OldLayouts
  <2>4. AllIn(layout, OldLayouts) /\ AllIn(layout', OldLayouts) /\ ~trigger
        /\ \A u \in Tables : layout'[u] # "minutely"
    BY <2>1, <2>2 DEF IInv, Typing, LayoutInv, AllIn, OldLayouts
  <2>5. LayoutInv'
    BY <1>0, <2>2, <2>4 DEF InitFrame, IInv, Typing, LayoutInv
  <2>6. promised = NoRows
    BY <2>1 DEF IInv, CopiesInv, AllIn
  <2>7. CopiesInv'
    BY <1>0, <2>2, <2>6 DEF IInv, CopiesInv, InitFrame
  <2> QED BY <1>1, <2>3, <2>5, <2>7 DEF IInv
<1> QED BY <1>2, <1>3

\* The copy: what was left is removed, the file is copied and published.
LEMMA BackupInv == ASSUME IInv, Tidy \/ Vacuum \/ Publish PROVE IInv'
<1> USE DEF Tidy, Vacuum, Publish, Step
<1>0. InitFrame /\ stats' = stats
  BY UpToCountsFrame
<1>1. StaleInv' /\ CountInv'
  BY <1>0, CountsFrame DEF InitFrame
<1>2. Typing'
  BY <1>0 DEF InitFrame, IInv, Typing, InitSteps
<1>3. AllIn(layout, {"full"}) /\ ~trigger /\ promised = NoRows
  BY DEF IInv, LayoutInv, CopiesInv, AllIn, Tables
<1>4. LayoutInv'
  BY <1>0, <1>3 DEF InitFrame, IInv, Typing, LayoutInv, AllIn
<1>5. CopyOf(Image, rows)
  BY <1>3 DEF IInv, Typing, CopyOf, Image
<1>6. CopiesInv'
  BY <1>0, <1>3, <1>5 DEF IInv, CopiesInv, InitFrame, published
<1> QED BY <1>1, <1>2, <1>4, <1>6 DEF IInv

-----------------------------------------------------------------------------
(* The migration *)

\* The transaction starts from the file as it is.
LEMMA BeginMigrationInv == ASSUME IInv, BeginMigration PROVE IInv'
<1> USE DEF BeginMigration, Step
<1>0. InitFrame /\ stats' = stats
  BY UpToCountsFrame
<1>1. StaleInv' /\ CountInv'
  BY <1>0, CountsFrame DEF InitFrame
<1>2. Typing'
  BY <1>0 DEF InitFrame, IInv, Typing, InitSteps
<1>3. AllIn(layout, {"full"}) /\ ~trigger /\ promised = NoRows
  BY DEF IInv, LayoutInv, CopiesInv, AllIn, Tables
<1>4. LayoutInv'
  BY <1>0, <1>3 DEF InitFrame, IInv, Typing, LayoutInv, AllIn
<1>5. MigrationOf(Image, rows)
  BY <1>3 DEF IInv, Typing, MigrationOf, Image, AllIn
<1>6. CopiesInv'
  BY <1>0, <1>3, <1>5 DEF IInv, CopiesInv, InitFrame
<1> QED BY <1>1, <1>2, <1>4, <1>6 DEF IInv

\* A table is rebuilt in the transaction: the live file and the backup stay.
LEMMA MigrateTableInv == ASSUME IInv, migrateTailnetTable PROVE IInv'
<1> USE DEF migrateTailnetTable, Step
<1> DEFINE t == Least(ToRebuild)
<1>0. InitFrame /\ stats' = stats
  BY UpToCountsFrame
<1>1. StaleInv' /\ CountInv'
  BY <1>0, CountsFrame DEF InitFrame
<1>2. Typing'
  BY <1>0 DEF InitFrame, IInv, Typing
<1>3. LayoutInv'
  BY <1>0 DEF InitFrame, IInv, Typing, LayoutInv, AllIn
<1>4. t \in Tables
  BY LeastTable DEF ToRebuild
<1>5. MigrationOf(txn, rows)
  BY DEF IInv, CopiesInv
<1>6. txn' = Rebuilt(txn, t)
  OBVIOUS
<1>7. MigrationOf(txn', rows)
  <2> HIDE DEF t
  <2> DEFINE l == [txn.layout EXCEPT ![t] = "tailnet"]
             g == txn.trigger /\ t # NodePairs
  <2>0. ~g
    BY <1>5 DEF MigrationOf
  <2>1. txn' = [layout |-> l, rows |-> txn.rows, stats |-> txn.stats,
                counters |-> txn.counters, trigger |-> g, ready |-> txn.ready]
    BY <1>5, <1>6 DEF MigrationOf, Rebuilt
  <2>2. AllIn(l, {"full", "tailnet"}) /\ l \in [Tables -> Layouts]
    BY <1>4, <1>5 DEF MigrationOf, AllIn, Layouts
  <2> HIDE DEF l, g
  <2>3. ~(txn'.trigger)
    <3>1. txn'.trigger = g
      BY <2>1
    <3> QED BY <2>0, <3>1, Zenon
  <2>4. /\ txn'.layout = l /\ txn'.rows = rows /\ txn'.stats = rows
        /\ txn' = [layout |-> txn'.layout, rows |-> txn'.rows, stats |-> txn'.stats,
                   counters |-> txn'.counters, trigger |-> txn'.trigger,
                   ready |-> txn'.ready]
    BY <1>5, <2>1 DEF MigrationOf
  <2> QED BY <2>2, <2>3, <2>4 DEF MigrationOf
<1>8. CopiesInv'
  BY <1>0, <1>7 DEF IInv, CopiesInv, InitFrame
<1> QED BY <1>1, <1>2, <1>3, <1>8 DEF IInv

\* The commit: every table migrated at once, the rows as the backup has them.
LEMMA CommitInv == ASSUME IInv, CommitMigration PROVE IInv'
<1> USE DEF CommitMigration, Step
<1>1. MigrationOf(txn, rows) /\ AllIn(layout, {"full"}) /\ ~trigger /\ stats = rows
      /\ (~skip => CopyOf(backup, rows))
  BY DEF IInv, Typing, CopiesInv, LayoutInv, AllIn, Tables
<1>2. AllIn(txn.layout, {"tailnet"})
  BY <1>1 DEF MigrationOf, AllIn, ToRebuild
<1>3. /\ rows' = rows /\ stats' = rows /\ ~trigger' /\ AllIn(layout', {"tailnet"})
      /\ layout' \in [Tables -> Layouts]
      /\ at' = "schema" /\ binary' = "starting"
  BY <1>1, <1>2 DEF MigrationOf
<1>4. Typing'
  BY <1>3 DEF IInv, Typing, InitSteps, Binaries
<1>5. LayoutInv'
  BY <1>3 DEF LayoutInv, AllIn
<1>6. CopiesInv'
  <2>1. promised' # NoRows => CopyOf(backup', promised')
    BY <1>1
  <2> QED BY <1>3, <2>1 DEF CopiesInv
<1>7. StaleInv' /\ CountInv'
  <2>1. ~trigger' /\ binary' # "this" /\ build' = NoBuild
    BY <1>3 DEF IInv, CountInv
  <2> QED BY <2>1 DEF StaleInv, CountInv, NoBuild
<1> QED BY <1>4, <1>5, <1>6, <1>7 DEF IInv

\* A new file gets its tables.
LEMMA SchemaInv == ASSUME IInv, ensureTailnetSchema PROVE IInv'
<1> USE DEF ensureTailnetSchema, Step
<1>0. InitFrame /\ stats' = stats
  BY UpToCountsFrame
<1>1. StaleInv' /\ CountInv'
  BY <1>0, CountsFrame DEF InitFrame
<1>2. \A t \in Tables : layout'[t] = "tailnet"
  BY DEF IInv, LayoutInv
<1>3. Typing'
  BY <1>0, <1>2 DEF InitFrame, IInv, Typing, InitSteps, Layouts
<1>4. LayoutInv'
  BY <1>0, <1>2 DEF InitFrame, IInv, Typing, LayoutInv, AllIn
<1>5. CopiesInv'
  BY <1>0, <1>2 DEF IInv, CopiesInv, InitFrame, AllIn
<1> QED BY <1>1, <1>3, <1>4, <1>5 DEF IInv

-----------------------------------------------------------------------------
(* The counters *)

\* The counters of this build are exact where they have no row, so a stale
\* one is dropped with those below the oldest stored minute.
LEMMA PrunedFacts ==
    ASSUME IInv, trigger
    PROVE  /\ Pruned \in [Minutes -> Nat]
           /\ \A m \in Minutes : rows[m] = 0 => Pruned[m] = 0
           /\ \A m \in Minutes : rows[m] > 0 => Pruned[m] = counters[m]
<1> USE CountsAssumption DEF Minutes
<1>1. Pruned \in [Minutes -> Nat]
  BY DEF Pruned, IInv, Typing
<1>2. ASSUME NEW m \in Minutes, rows[m] = 0 PROVE Pruned[m] = 0
  BY <1>2 DEF Pruned, Stored, IInv, Typing, StaleInv
<1>3. ASSUME NEW m \in Minutes, rows[m] > 0 PROVE Pruned[m] = counters[m]
  BY <1>3 DEF Pruned, Stored
<1> QED BY <1>1, <1>2, <1>3

\* The last step of Init: what older builds left is dropped or counted anew.
LEMMA FinishInitInv == ASSUME IInv, FinishInit PROVE IInv'
<1> USE DEF FinishInit, Step, ensureBucketRowCounts
<1> DEFINE kept == trigger /\ ready # "none"
<1>1. /\ counters' \in [Minutes -> Nat]
      /\ \A m \in Minutes : rows[m] = 0 => counters'[m] = 0
  BY PrunedFacts DEF Zero
<1>2. /\ rows' = rows /\ stats' = stats /\ cutoff' = cutoff /\ trigger'
      /\ binary' = "this" /\ at' = "off" /\ build' = [at |-> "start"] /\ layout' = layout
  OBVIOUS
<1>3. ready' = "yes" => \A m \in Minutes : rows[m] > 0 => counters'[m] = rows[m]
  <2>1. CASE kept
    BY <2>1, PrunedFacts DEF IInv, CountInv, Exact
  <2>2. CASE ~kept
    BY <2>2 DEF Stored
  <2> QED BY <2>1, <2>2
<1>4. Typing'
  BY <1>1, <1>2 DEF IInv, Typing, Binaries
<1>5. LayoutInv'
  BY <1>2 DEF IInv, LayoutInv, AllIn
<1>6. CopiesInv'
  BY <1>2 DEF IInv, CopiesInv
<1>7. StaleInv'
  BY <1>1, <1>2 DEF StaleInv
<1>8. CountInv'
  BY <1>2, <1>3 DEF CountInv, Exact
<1> QED BY <1>4, <1>5, <1>6, <1>7, <1>8 DEF IInv

\* A row is added: the trigger keeps an exact counter exact.
LEMMA WriteInv == ASSUME IInv, NEW m \in Minutes, Write(m) PROVE IInv'
<1> USE CountsAssumption DEF Write, Insert, Serving, TriggerFires
<1>1. /\ rows' = [rows EXCEPT ![m] = @ + 1] /\ stats' = rows'
      /\ UNCHANGED <<trigger, ready, cutoff, binary, build, layout, at, skip, txn, tmp,
                     backup, promised>>
  BY DEF IInv, Typing
<1>2. counters' = [counters EXCEPT ![m] = @ + IF trigger THEN 1 ELSE 0]
  OBVIOUS
<1>3. Typing'
  BY <1>1, <1>2 DEF IInv, Typing
<1>4. LayoutInv'
  BY <1>1 DEF IInv, LayoutInv, AllIn
<1>5. CopiesInv'
  BY <1>1 DEF IInv, Typing, CopiesInv
<1>6. ASSUME trigger, NEW n \in Minutes
      PROVE  /\ counters'[n] = IF n = m THEN counters[m] + 1 ELSE counters[n]
             /\ rows'[n] = IF n = m THEN rows[m] + 1 ELSE rows[n]
             /\ rows[n] \in Nat /\ counters[n] \in Nat
  BY <1>1, <1>2, <1>6 DEF IInv, Typing
<1>7. ASSUME trigger, binary # "this" PROVE rows[m] > 0 \/ counters[m] = 0
  <2>1. cutoff <= m
    BY <1>7
  <2> QED BY <1>7, <2>1 DEF IInv, Typing, StaleInv, Minutes
<1>8. StaleInv'
  <2> SUFFICES ASSUME trigger, NEW n \in Minutes, rows'[n] = 0, counters'[n] # 0
               PROVE  /\ binary # "this" /\ n < cutoff
                      /\ \A s \in Minutes : rows'[s] > 0 => n < s
    BY <1>1 DEF StaleInv
  <2>1. n # m /\ rows[n] = 0 /\ counters[n] # 0
    BY <1>6
  <2>2. binary # "this" /\ n < cutoff /\ \A s \in Minutes : rows[s] > 0 => n < s
    BY <2>1 DEF IInv, StaleInv
  <2>3. cutoff <= m /\ n < m
    BY <2>2 DEF IInv, Typing, Minutes
  <2> QED BY <1>6, <2>2, <2>3
<1>9. CountInv'
  <2>1. ASSUME trigger, NEW n \in Minutes, rows'[n] > 0, counters'[n] # rows'[n]
        PROVE  rows[n] > 0 /\ counters[n] # rows[n]
    <3>1. n = m => rows[m] > 0
      BY <1>6, <1>7, <2>1 DEF IInv, Typing, StaleInv
    <3> QED BY <1>6, <2>1, <3>1
  <2>2. /\ (ready = "yes" /\ trigger) \/ build.at = "done"
                => trigger /\ \A n \in Minutes : rows[n] > 0 => counters[n] = rows[n]
        /\ build.at = "count" => trigger
    BY DEF IInv, CountInv, Exact, NoBuild
  <2>3. /\ trigger /\ ready = "yes" => \A n \in Minutes : rows'[n] > 0 => counters'[n] = rows'[n]
        /\ build.at = "done" => \A n \in Minutes : rows'[n] > 0 => counters'[n] = rows'[n]
    BY <2>1, <2>2
  <2>4. build.at = "count" =>
            \A n \in Minutes : rows'[n] > 0 /\ counters'[n] # rows'[n] =>
                                  build.from <= n /\ n <= build.last
    BY <2>1, <2>2 DEF IInv, CountInv, Exact
  <2> QED BY <1>1, <2>3, <2>4 DEF IInv, CountInv, Exact
<1> QED BY <1>3, <1>4, <1>5, <1>8, <1>9 DEF IInv

\* Retention: an older build leaves counters behind what it passes.
LEMMA RetentionInv == ASSUME IInv, NEW c \in 1 .. LastMinute + 1, Retention(c) PROVE IInv'
<1> USE CountsAssumption DEF Retention, Cleanup, Serving
<1>1. /\ rows' = [m \in Minutes |-> IF m < c THEN 0 ELSE rows[m]] /\ stats' = rows'
      /\ UNCHANGED <<trigger, ready, binary, build, layout, at, skip, txn, tmp,
                     backup, promised>>
      /\ cutoff' = c /\ cutoff <= c /\ c \in Nat
  BY DEF IInv, Typing
<1>2. /\ counters' \in [Minutes -> Nat]
      /\ \A n \in Minutes : counters'[n] = IF n < c /\ binary = "this" THEN 0 ELSE counters[n]
  <2>1. CASE binary = "this"
    BY <2>1 DEF IInv, Typing
  <2>2. CASE binary # "this"
    BY <2>2 DEF IInv, Typing
  <2> QED BY <2>1, <2>2
<1>3. Typing'
  BY <1>1, <1>2 DEF IInv, Typing
<1>4. LayoutInv'
  BY <1>1 DEF IInv, LayoutInv, AllIn
<1>5. CopiesInv'
  BY <1>1 DEF IInv, Typing, CopiesInv
<1>6. ASSUME NEW n \in Minutes
      PROVE  /\ counters'[n] = IF n < c /\ binary = "this" THEN 0 ELSE counters[n]
             /\ rows'[n] = IF n < c THEN 0 ELSE rows[n]
             /\ rows[n] \in Nat /\ counters[n] \in Nat /\ n \in Nat
  BY <1>1, <1>2 DEF IInv, Typing, Minutes
<1>7. StaleInv'
  <2> SUFFICES ASSUME trigger, NEW n \in Minutes, rows'[n] = 0, counters'[n] # 0
               PROVE  /\ binary # "this" /\ n < c
                      /\ \A s \in Minutes : rows'[s] > 0 => n < s
    BY <1>1 DEF StaleInv
  <2>1. CASE n < c
    BY <1>6, <2>1 DEF IInv, Typing, StaleInv
  <2>2. CASE ~(n < c)
    <3>1. rows[n] = 0 /\ counters[n] # 0
      BY <1>6, <2>2
    <3>2. n < cutoff
      BY <3>1 DEF IInv, StaleInv
    <3> QED BY <1>1, <1>6, <2>2, <3>2 DEF IInv, Typing
  <2> QED BY <2>1, <2>2
<1>8. CountInv'
  <2>1. ASSUME NEW n \in Minutes, rows'[n] > 0
        PROVE  rows[n] > 0 /\ rows'[n] = rows[n] /\ counters'[n] = counters[n]
    BY <1>6, <2>1
  <2> QED BY <1>1, <2>1 DEF IInv, CountInv, Exact
<1> QED BY <1>3, <1>4, <1>5, <1>7, <1>8 DEF IInv

-----------------------------------------------------------------------------
(* The background count *)

\* From the oldest stored minute's chunk to the newest stored minute: every
\* minute that is not exact lies in between.
LEMMA BuildStartInv == ASSUME IInv, BuildStart, UNCHANGED upgradeVars PROVE IInv'
<1> USE CountsAssumption DEF BuildStart, file, upgradeVars
<1>1. Typing' /\ LayoutInv' /\ CopiesInv'
  BY DEF IInv, Typing, LayoutInv, CopiesInv, AllIn
<1>2. StaleInv'
  BY DEF IInv, StaleInv
<1>0. UNCHANGED <<rows, counters, trigger, ready, binary>> /\ binary = "this"
  BY DEF IInv, CountInv, NoBuild
<1>3. CountInv'
  <2>1. CASE trigger /\ ready = "yes"
    <3>1. build' = NoBuild
      BY <2>1
    <3> QED BY <1>0, <3>1 DEF IInv, CountInv, NoBuild, Exact
  <2>2. CASE ~(trigger /\ ready = "yes") /\ Stored(rows) = {}
    <3>1. build' = [at |-> "done"]
      BY <2>2
    <3> QED BY <1>0, <2>2, <3>1 DEF IInv, CountInv, Exact, Stored
  <2>3. CASE ~(trigger /\ ready = "yes") /\ Stored(rows) # {}
    <3> DEFINE first == Least(Stored(rows))
               last == Greatest(Stored(rows))
               from == (first \div Chunk) * Chunk
    <3>1. build' = [at |-> "count", from |-> from, last |-> last]
      BY <2>3
    <3>2. Stored(rows) \in SUBSET Minutes
      BY DEF Stored
    <3>3. /\ first \in Stored(rows) /\ last \in Stored(rows)
          /\ \A m \in Stored(rows) : first <= m /\ m <= last
      BY <2>3, <3>2, Extremes
    <3>4. first \in Nat /\ last \in Nat /\ \A m \in Minutes : m \in Nat
      BY <3>2, <3>3 DEF Minutes
    <3> HIDE DEF first, last
    <3>5. from \in Nat /\ from <= first
      BY <3>4
    <3>6. \A m \in Minutes : rows[m] > 0 => from <= m /\ m <= last
      <4> HIDE DEF from
      <4> TAKE m \in Minutes
      <4> HAVE rows[m] > 0
      <4>1. m \in Stored(rows)
        BY DEF Stored
      <4> QED BY <3>3, <3>4, <3>5, <4>1
    <3> HIDE DEF from
    <3>7. /\ build'.at = "count" /\ build'.from = from /\ build'.last = last
      BY <3>1
    <3> QED BY <1>0, <2>3, <3>1, <3>4, <3>5, <3>6, <3>7 DEF IInv, CountInv, Exact
  <2> QED BY <2>1, <2>2, <2>3
<1> QED BY <1>1, <1>2, <1>3 DEF IInv

\* A chunk: its minutes become exact and leave those still to count.
LEMMA BuildChunkInv == ASSUME IInv, BuildChunk, UNCHANGED upgradeVars PROVE IInv'
<1> USE CountsAssumption DEF BuildChunk, upgradeVars
<1> DEFINE from == build.from
           last == build.last
<1>0. /\ from \in Nat /\ last \in Nat /\ binary = "this" /\ trigger
      /\ build = [at |-> "count", from |-> from, last |-> last]
      /\ \A m \in Minutes : rows[m] > 0 /\ counters[m] # rows[m] => from <= m /\ m <= last
  BY DEF IInv, CountInv, NoBuild, Exact
<1>1. /\ counters' \in [Minutes -> Nat]
      /\ \A m \in Minutes : counters'[m] = IF from <= m /\ m < from + Chunk THEN rows[m]
                                           ELSE counters[m]
  BY DEF Recounted, IInv, Typing
<1>2. Typing' /\ LayoutInv' /\ CopiesInv'
  BY <1>1 DEF IInv, Typing, LayoutInv, CopiesInv, AllIn
<1>3. StaleInv'
  BY <1>0, <1>1 DEF IInv, StaleInv
<1>4. ASSUME NEW m \in Minutes, rows[m] > 0, counters'[m] # rows[m]
      PROVE  counters[m] # rows[m] /\ from + Chunk <= m /\ m <= last
  <2>1. counters[m] # rows[m] /\ ~(from <= m /\ m < from + Chunk)
    BY <1>1, <1>4
  <2>2. from <= m /\ m <= last /\ m \in Nat
    BY <1>0, <1>4, <2>1 DEF Minutes
  <2> QED BY <1>0, <2>1, <2>2
<1>5. CountInv'
  <2>0. UNCHANGED <<rows, trigger, ready, binary>>
    OBVIOUS
  <2>1. ready = "yes" => \A m \in Minutes : rows[m] > 0 => counters'[m] = rows[m]
    BY <1>0, <1>4 DEF IInv, CountInv, Exact
  <2>2. CASE from + Chunk <= last
    <3>1. /\ build' = [at |-> "count", from |-> from + Chunk, last |-> last]
          /\ build'.at = "count" /\ build'.from = from + Chunk /\ build'.last = last
      <4>1. Advanced(build) = [build EXCEPT !.from = @ + Chunk]
        BY <2>2 DEF Advanced
      <4> HIDE DEF from, last
      <4>2. Advanced(build) = [at |-> "count", from |-> from + Chunk, last |-> last]
        BY <1>0, <4>1
      <4> QED BY <4>2
    <3>2. from + Chunk \in Nat
      BY <1>0
    <3> HIDE DEF from, last
    <3> QED BY <1>0, <1>4, <2>0, <2>1, <3>1, <3>2 DEF CountInv, Exact
  <2>3. CASE ~(from + Chunk <= last)
    <3>1. build' = [at |-> "done"] /\ build'.at = "done"
      BY <2>3 DEF Advanced
    <3>2. \A m \in Minutes : rows[m] > 0 => counters'[m] = rows[m]
      <4> SUFFICES ASSUME NEW m \in Minutes, rows[m] > 0, counters'[m] # rows[m] PROVE FALSE
        OBVIOUS
      <4>1. from + Chunk <= m /\ m <= last /\ m \in Nat
        BY <1>4 DEF Minutes
      <4> QED BY <1>0, <2>3, <4>1
    <3> QED BY <1>0, <2>0, <3>1, <3>2 DEF CountInv, Exact
  <2> QED BY <2>2, <2>3
<1> QED BY <1>2, <1>3, <1>5 DEF IInv

\* The flag is set when nothing is left to count, or the count is given up.
LEMMA BuildEndsInv == ASSUME IInv, BuildEnds \/ BuildFails, UNCHANGED upgradeVars PROVE IInv'
<1> USE DEF BuildEnds, BuildFails, Counted, file, upgradeVars
<1>1. Typing' /\ LayoutInv' /\ CopiesInv'
  BY DEF IInv, Typing, LayoutInv, CopiesInv, AllIn
<1>2. StaleInv'
  BY DEF IInv, StaleInv
<1>3. build' = NoBuild /\ UNCHANGED <<rows, counters, trigger, binary>>
      /\ (ready' = ready \/ build.at = "done")
  OBVIOUS
<1>4. CountInv'
  BY <1>3 DEF IInv, CountInv, NoBuild, Exact
<1> QED BY <1>1, <1>2, <1>4 DEF IInv

-----------------------------------------------------------------------------
LEMMA StepIInv == ASSUME IInv, [Next]_vars PROVE IInv'
<1>1. CASE Start \/ StartFlat \/ StartOlder
  BY <1>1, BeginInv
<1>2. CASE Exit \/ InitFails
  BY <1>2, EndsInv DEF Exit, InitFails
<1>3. CASE RollBack
  BY <1>3, RollBackInv
<1>4. CASE InitStep
  BY <1>4, RenameInv, ColumnsInv, BackupInv, BeginMigrationInv, MigrateTableInv, CommitInv,
     SchemaInv, FinishInitInv DEF InitStep
<1>5. CASE \E m \in Minutes : Write(m)
  BY <1>5, WriteInv
<1>6. CASE \E c \in 1 .. LastMinute + 1 : Retention(c)
  BY <1>6, RetentionInv
<1>7. CASE Rebuild /\ UNCHANGED upgradeVars
  BY <1>7, RebuildInv
<1>8. CASE (BuildStep \/ BuildFails) /\ UNCHANGED upgradeVars
  BY <1>8, BuildStartInv, BuildChunkInv, BuildEndsInv DEF BuildStep
<1>9. CASE UNCHANGED vars
  <2> USE <1>9 DEF vars, countVars, file, upgradeVars
  <2>1. Typing' /\ LayoutInv' /\ CopiesInv'
    BY DEF IInv, Typing, LayoutInv, CopiesInv, AllIn
  <2>2. StaleInv' /\ CountInv'
    BY CountsFrame
  <2> QED BY <2>1, <2>2 DEF IInv
<1> QED BY <1>1, <1>2, <1>3, <1>4, <1>5, <1>6, <1>7, <1>8, <1>9 DEF Next

-----------------------------------------------------------------------------
(* The theorems *)

\* Whatever was interrupted, rolled back or upgraded again before: after a
\* migration that made its copy, the backup holds the rows the file had when
\* it was migrated, in tables the release before can write
\* (backupBeforeTailnetMigration, migrateTailnetSchema).
THEOREM BackupSurvives == Spec => []BackupIsWhole
<1>1. IInv => BackupIsWhole
  BY DEF IInv, CopiesInv, CopyOf, AllIn, BackupIsWhole
<1> QED BY <1>1, InitIInv, StepIInv, PTL DEF Spec

\* While this build answers from node_pair_bucket_rows, the counter of every
\* minute from the oldest stored one on is the number of its rows, after any
\* mix of inserts, retention, restarts, older builds and rebuilt tables
\* (ensureBucketRowCounts, BuildPairRowCounts, pruneBucketRows).
THEOREM ReadyCountersAreExact == Spec => []CountersAreExact
<1>1. IInv => CountersAreExact
  <2> SUFFICES ASSUME IInv, binary = "this", bucketRowsReady, NEW m \in Minutes
               PROVE  counters[m] = rows[m]
    BY DEF CountersAreExact
  <2>1. CASE rows[m] = 0
    BY <2>1 DEF IInv, StaleInv, bucketRowsReady
  <2>2. CASE rows[m] # 0
    BY <2>2 DEF IInv, Typing, CountInv, Exact, bucketRowsReady
  <2> QED BY <2>1, <2>2
<1> QED BY <1>1, InitIInv, StepIInv, PTL DEF Spec

===============================================================================

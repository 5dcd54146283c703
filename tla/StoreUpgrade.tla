---------------------------- MODULE StoreUpgrade ----------------------------
(***************************************************************************)
(* How SQLiteStore.Init brings a file of an earlier release to the current *)
(* schema: tables renamed and columns added one statement at a time, a     *)
(* copy of the file for a rollback, all tables rebuilt with tailnet ids in *)
(* one transaction, then the counters of PairRowCounts.  The process may   *)
(* be killed between any two steps or stop at one that fails, and starts   *)
(* over from what the file holds.  Operators may go back to the previous   *)
(* release by moving the copy over the live file, and upgrade again.       *)
(*                                                                         *)
(* Two tables stand for all: node_pairs, and one more that every commit    *)
(* writes together with it.  The backfills of Init are in PairStore and    *)
(* StoredReads; one process at a time has the file.                        *)
(***************************************************************************)
EXTENDS PairRowCounts

NodePairs == 1
TrafficStats == 2
Tables == {NodePairs, TrafficStats}

VARIABLES
    layout,         \* layout[t]: "absent", "minutely" (before its renaming),
                    \* "flat", "full" (flat with every column) or "tailnet"
    stats,          \* stats[m]: what traffic_stats holds of minute m
    at,             \* the next step of Init, or "off"
    skip,           \* TSFLOW_SKIP_DB_BACKUP of this start
    txn,            \* the file as the open migration has it
    tmp,            \* the copy being written
    backup,         \* the copy beside the live file
    promised        \* history: the rows a rollback has to bring back

upgradeVars == <<layout, stats, at, skip, txn, tmp, backup, promised>>
vars == <<countVars, upgradeVars>>

NoImage == [layout |-> [t \in Tables |-> "none"]]
Partial == [layout |-> [t \in Tables |-> "torn"]]
Image == [layout |-> layout, rows |-> rows, stats |-> stats,
          counters |-> counters, trigger |-> trigger, ready |-> ready]

NoRows == [m \in Minutes |-> MaxRows + 1]

Init ==
    /\ layout \in [Tables -> {"minutely", "flat"}] \cup {[t \in Tables |-> "absent"]}
    /\ rows \in [Minutes -> 0 .. 1]
    /\ layout[NodePairs] = "absent" => rows = Zero
    /\ stats = rows
    /\ counters = Zero /\ trigger = FALSE /\ ready = "none"
    /\ cutoff = 0 /\ binary = "none" /\ build = NoBuild /\ opens = 0
    /\ at = "off" /\ skip = FALSE
    /\ txn = NoImage /\ tmp = NoImage /\ backup = NoImage /\ promised = NoRows

-----------------------------------------------------------------------------
(* Processes come and go                                                    *)

Begins(program) ==
    /\ binary = "none" /\ opens < MaxOpens
    /\ opens' = opens + 1
    /\ binary' = program

Start ==
    /\ Begins("starting")
    /\ at' = "rename"
    /\ skip' \in BOOLEAN
    /\ UNCHANGED <<file, cutoff, build, layout, stats, txn, tmp, backup, promised>>

\* The release before tailnets runs on any flat file; what it would do to the
\* names of an older one is not modelled. It cannot write a migrated file.
StartFlat ==
    /\ \A t \in Tables : layout[t] \in {"flat", "full"}
    /\ Begins("flat")
    /\ UNCHANGED <<file, cutoff, build, upgradeVars>>

StartOlder ==
    /\ \A t \in Tables : layout[t] = "tailnet"
    /\ Begins("older")
    /\ UNCHANGED <<file, cutoff, build, upgradeVars>>

Ends ==
    /\ binary' = "none" /\ build' = NoBuild
    /\ at' = "off" /\ txn' = NoImage
    /\ UNCHANGED <<file, cutoff, opens, layout, stats, skip, backup, promised>>

\* The process exits or is killed. A copy that was being written stays torn.
Exit ==
    /\ binary # "none"
    /\ tmp' \in {tmp} \cup (IF at = "vacuum" THEN {Partial} ELSE {})
    /\ Ends

\* A statement of Init fails, and with it the start. A copy is removed.
InitFails ==
    /\ binary = "starting"
    /\ tmp' = IF at \in {"vacuum", "publish"} THEN NoImage ELSE tmp
    /\ Ends

\* The documented way back: the backup replaces the stopped live file.
RollBack ==
    /\ binary = "none" /\ promised # NoRows
    /\ layout' = backup.layout /\ rows' = backup.rows /\ stats' = backup.stats
    /\ counters' = backup.counters /\ trigger' = backup.trigger /\ ready' = backup.ready
    /\ backup' = NoImage /\ promised' = NoRows
    /\ UNCHANGED <<cutoff, binary, build, opens, at, skip, txn, tmp>>

-----------------------------------------------------------------------------
(* The steps of Init                                                        *)

Step(now) == binary = "starting" /\ at = now

In(l) == {t \in Tables : layout[t] = l}

\* One renaming, or on to the columns when none is left.
RenameTable ==
    /\ Step("rename")
    /\ IF In("minutely") = {} THEN at' = "columns" /\ UNCHANGED layout
       ELSE layout' = [layout EXCEPT ![Least(In("minutely"))] = "flat"] /\ UNCHANGED at
    /\ UNCHANGED <<countVars, stats, skip, txn, tmp, backup, promised>>

tailnetMigrationNeeded == \E t \in Tables : layout[t] \notin {"absent", "tailnet"}

\* One table's missing columns; then the migration, with its copy unless the
\* environment skips it, or nothing to migrate.
ensureLegacyColumns ==
    /\ Step("columns")
    /\ IF In("flat") # {}
       THEN layout' = [layout EXCEPT ![Least(In("flat"))] = "full"] /\ UNCHANGED at
       ELSE /\ at' = IF ~tailnetMigrationNeeded THEN "schema"
                     ELSE IF skip THEN "begin" ELSE "tidy"
            /\ UNCHANGED layout
    /\ UNCHANGED <<countVars, stats, skip, txn, tmp, backup, promised>>

\* Mutant: what an interrupted copy left is not removed.
removeTmp_Kept == tmp

removeTmp == NoImage

Tidy ==
    /\ Step("tidy")
    /\ tmp' = removeTmp
    /\ at' = "vacuum"
    /\ UNCHANGED <<countVars, layout, stats, skip, txn, backup, promised>>

\* VACUUM INTO, which refuses a target that is there.
Vacuum ==
    /\ Step("vacuum") /\ tmp = NoImage
    /\ tmp' = Image
    /\ at' = "publish"
    /\ UNCHANGED <<countVars, layout, stats, skip, txn, backup, promised>>

\* Mutant: a copy that is there already is kept.
published_Once == IF backup = NoImage THEN tmp ELSE backup

published == tmp

Publish ==
    /\ Step("publish")
    /\ backup' = published /\ tmp' = NoImage
    /\ at' = "begin"
    /\ UNCHANGED <<countVars, layout, stats, skip, txn, promised>>

BeginMigration ==
    /\ Step("begin")
    /\ txn' = Image
    /\ at' = "migrate"
    /\ UNCHANGED <<countVars, layout, stats, skip, tmp, backup, promised>>

Rebuilt(f, t) ==
    [f EXCEPT !.layout[t] = "tailnet", !.trigger = @ /\ t # NodePairs]

ToRebuild == {t \in Tables : txn.layout[t] \notin {"absent", "tailnet"}}

\* Mutant: each table is migrated in a transaction of its own.
migrateTailnetTable_OwnCommit ==
    /\ Step("migrate") /\ ToRebuild # {}
    /\ txn' = Rebuilt(txn, Least(ToRebuild))
    /\ layout' = txn'.layout /\ trigger' = txn'.trigger
    /\ UNCHANGED <<rows, counters, ready, cutoff, binary, build, opens,
                   stats, at, skip, tmp, backup, promised>>

\* The rows are copied under the tailnet and counted, the table is replaced.
migrateTailnetTable ==
    /\ Step("migrate") /\ ToRebuild # {}
    /\ txn' = Rebuilt(txn, Least(ToRebuild))
    /\ UNCHANGED <<countVars, layout, stats, at, skip, tmp, backup, promised>>

CommitMigration ==
    /\ Step("migrate") /\ ToRebuild = {}
    /\ layout' = txn.layout /\ rows' = txn.rows /\ stats' = txn.stats
    /\ trigger' = txn.trigger
    /\ txn' = NoImage
    /\ promised' = IF skip THEN NoRows ELSE rows
    /\ at' = "schema"
    /\ UNCHANGED <<counters, ready, cutoff, binary, build, opens, skip, tmp, backup>>

ensureTailnetSchema ==
    /\ Step("schema")
    /\ layout' = [t \in Tables |-> IF layout[t] = "absent" THEN "tailnet" ELSE layout[t]]
    /\ at' = "counts"
    /\ UNCHANGED <<countVars, stats, skip, txn, tmp, backup, promised>>

\* The last step; then the process serves and counts in the background.
FinishInit ==
    /\ Step("counts")
    /\ ensureBucketRowCounts
    /\ binary' = "this" /\ build' = [at |-> "start"]
    /\ at' = "off"
    /\ UNCHANGED <<rows, cutoff, opens, layout, stats, skip, txn, tmp, backup, promised>>

InitStep ==
    \/ RenameTable \/ ensureLegacyColumns \/ Tidy \/ Vacuum \/ Publish
    \/ BeginMigration \/ migrateTailnetTable \/ CommitMigration
    \/ ensureTailnetSchema \/ FinishInit

-----------------------------------------------------------------------------
(* Writes of whichever program serves                                       *)

Write(m) ==
    /\ Insert(m)
    /\ stats' = [stats EXCEPT ![m] = @ + 1]
    /\ UNCHANGED <<layout, at, skip, txn, tmp, backup, promised>>

Retention(c) ==
    /\ Cleanup(c)
    /\ stats' = [m \in Minutes |-> IF m < c THEN 0 ELSE stats[m]]
    /\ UNCHANGED <<layout, at, skip, txn, tmp, backup, promised>>

Next ==
    \/ Start \/ StartFlat \/ StartOlder \/ Exit \/ InitFails \/ RollBack
    \/ InitStep
    \/ \E m \in Minutes : Write(m)
    \/ \E c \in 1 .. LastMinute + 1 : Retention(c)
    \/ Rebuild /\ UNCHANGED upgradeVars
    \/ (BuildStep \/ BuildFails) /\ UNCHANGED upgradeVars

\* Init and the background count run on while the process lives.
Spec ==
    /\ Init /\ [][Next]_vars
    /\ WF_vars(InitStep)
    /\ WF_vars(BuildStep /\ UNCHANGED upgradeVars)

-----------------------------------------------------------------------------
(* Properties                                                               *)

\* After a migration that was not told to skip it, the backup holds the rows
\* the file had when it was migrated, in tables the release before can write:
\* whatever was interrupted, rolled back or upgraded again before, a rollback
\* loses only what was saved after the upgrade.
BackupIsWhole ==
    promised # NoRows =>
        /\ \A t \in Tables : layout[t] = "tailnet" /\ backup.layout[t] \in {"flat", "full"}
        /\ backup.rows = promised /\ backup.stats = promised

\* Once a build starts on the file it comes to serve with counters that are
\* ready, unless a statement fails, the count is given up or the process ends:
\* nothing that an interrupted start left behind stops the next one.
StartsBecomeReady ==
    binary = "starting" ~>
        (binary # "starting" /\ (bucketRowsReady \/ build = NoBuild))
=============================================================================

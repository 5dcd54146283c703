# Verification of tsflow

tsflow collects the flow logs of Tailscale networks, keeps them per minute in
SQLite, and answers graphs, rankings and statistics over any window. This
directory holds TLA+ models of the parts whose correctness depends on
interleavings, failures, boundaries and names, TLC configurations that check
them on small instances, and TLAPS proofs of the safety properties of the
store, its readers, its feeds, the poller and the upgrade for every instance.

```
tlc -workers 2 -config PairStore.cfg MCPairStore   # any run of PROJECT.json
tlapm GraphReadProofs.tla                          # any *Proofs module
```

`PROJECT.json` lists the components, the runs with their properties, the
lines of code each definition stands for, one mutant per checked property, the
hazards of the code and the findings.

## 1. The system

One process serves one or more tailnets. Per tailnet there is a poller (one
goroutine), a device cache and a rolling window cache; all tailnets share one
SQLite file.

```
 Tailscale API / object store
        |  poll (poller.go, object_store_source.go)
        v
   aggregate (aggregator.go)
        |  1. commit                        2. after the commit
        v                                        v
   SQLite store ----------------------->  rolling window cache,
   minute rows, hourly rollup, cursor     metrics counters
        ^   ^
        |   | plan + snapshots + closed-hour cache
        |   +---------------------------- HTTP handlers, MCP tools, metrics
        +-- retention (Cleanup), background row count
```

### Components, their state and what makes them correct

| component (code) | state | operations | correct when |
|---|---|---|---|
| **Pair store** (`database/aggregate_queries.go`, `maintenance.go`, `hour_rollup.go`) | `node_pairs` per minute, `node_pair_hours`, mark in `backfill_state`, cursor in `poll_state`, `ingested_objects` | poll commit, object commit, cursor update, retention, startup backfill | an hourly row equals the minutes it stands for, at every step and after every failure; an object counts once; cursor and mark only move forward |
| **Window planner** (`hour_rollup.go`, `node_pair_parallel.go`) | none | split a window into minute and hour spans, closed and open | each bucket of the window is read once |
| **Write lock, commit sequence** (`store_lock.go`) | a mutex and two counters per tailnet | lock, begin, commit, quiet, unchangedSince | readers can tell that no commit moved the store under them |
| **Graph read, closed-hour cache** (`node_pair_read.go`, `closed_hour_cache.go`) | cached hours, epoch, touches, floor | get, put, invalidate, invalidateBelow, read a window on several snapshots | no stale hour is stored or served; no minute doubled or missed |
| **Pair row counters** (`bucket_rows.go`) | a counter per minute, a trigger, a ready flag | trigger, prune, background recount | exact whenever readers trust them |
| **Object-store source** (`object_store_source.go`) | cursor, ingested keys, failed reads in memory | list, select, read, commit, give up, clamp, save | no object is passed over by the cursor; only objects that cannot be read are given up |
| **API poll, rolling cache** (`poller.go`, `rolling_cache.go`) | cursor, cache with floor and age | chunked fetch, commit, cache update, coverage test, read | each flow counted once; the cache equals the store where it claims to |
| **Poller lifecycle** (`poller.go`) | flag, three channels, context, goroutine | Start, Stop, TriggerPoll, run | one loop; Stop ends it; no channel closed twice |
| **Device cache, identity merge** (`device_cache.go`, `identity.go`) | entries by id and address, aliases | merge, alias, rekey, prune, look up | every id and address resolves to one live device, in whatever order sources name it; a reused address does not join two devices |
| **Node metadata** (`poller.go`, `maintenance.go`) | `node_metadata`, `object_metadata_nodes` | rewrite, hydrate, expire | a listed device does not expire while the list is written; every readable object is hydrated |
| **Migrations** (`schema.go`, `tailnet_schema.go`, `tailnet_backup.go`) | schema, backup file, protocol mark | rename, add columns, back up, migrate, backfill | a backup is whole; any interrupted start can be resumed; a rollback and a second upgrade lose nothing else |
| **Registry** (`registry.go`) | pollers by tailnet | start all, stop all, get | one failure does not stop the others |
| **API client** (`tailscale.go`, `wif_source.go`) | tokens | request with retries | bounded retries |
| **Access control, middleware** (`access/`, `middleware/`) | token buckets, deny-log keys, identity client | allow, clean up, resolve | limits hold; closed before ready |
| **Metrics** (`metrics/`) | counters, a scrape cache | observe, collect | count each commit once |
| **Aggregation** (`aggregator.go`) | none | logs to rows of pairs, nodes, totals and statistics | each byte is counted once, on its sender |
| **Reads** (`stats_*.go`, `rank_queries.go`, `new_pairs.go`, `device_timeline.go`, `viewer.go`, ...) | none | queries over a plan of minutes and hours | agree with each other and with the logs |
| **MCP tools** (`mcpserver/query.go`, `access/scope.go`) | none | the same reads within a viewer's scope | show the part of the whole that is in scope, with the same sums |
| **Handlers, configuration, process** | none worth modelling | parsing, serving | |
| **Web front end** (`frontend/src/lib`) | stores with request ids and aborts | load, reset, retry | a late answer never lands in a newer view |

### What is hard

* *Interleaving*: readers take no lock and read several snapshots; commits move
  the mark between them. A cache fill races the write that makes it stale.
  Start, Stop and TriggerPoll race each other and the loop.
* *Failure*: a transaction may fail at any statement, a poll at any call, the
  process anywhere, also between a commit and the cache update that follows.
* *Ordering*: traffic arrives late, behind the rollup mark; objects arrive
  within a lookback; a poll may commit an older end after a newer one.
* *Names*: one device appears under a stable id, a numeric id and addresses, in
  three sources that arrive in any order, and addresses are given to new nodes.
  Two implementations merge these names, and every read depends on one of them.
* *Versions*: an older build may have written the file, may run on it again after
  a rollback, and knows neither the rollup nor the counters.
* *Boundaries*: minutes, hours, retention inside an hour, pages of equal
  timestamps, a read budget, a cache that is full.

PROJECT.json lists each hazard at its line, with the properties that would
catch it going wrong, or a note for the three that no property covers.

## 2. The modules

```
HourPlan <- PairTables <- PairStore <- PairStoreRefinement <- MCPairStore
    |            ^                          | INSTANCE
    |            |                          v
    |            +-- GraphRead           PairLedger
    |                    ^
    v                    +-- MCGraphRead
TrafficRows <- TrafficReads --+
                              +--> DeviceReads <- ScopedTools <- StoredReads <- MCStoredReads
DeviceCache <- IdentityMerge -+
                     ^
                     +-- NodeIdentities <- ViewerScopes <- MCNodeIdentities
                                                | INSTANCE
                                                v
                                           ScopedTools

ObjectPoll <- MCObjectPoll      LiveWindow <- MCLiveWindow
PollerLifecycle                 PairRowCounts <- StoreUpgrade

PairTables <- PairTablesProofs <- PairStoreProofs (with PairStoreRefinement)
                       ^--------- GraphReadProofs (with GraphRead)
ViewerScopes <- NodeIdentitiesProofs
ObjectPollProofs, LiveWindowProofs, PollerLifecycleProofs, StoreUpgradeProofs:
each extends the module it is named for
```

### HourPlan: planning a window (pure operators)

Spans are half open, as in the code. A plan is a record of two sets of spans
where the code has two slices, whose order no caller depends on.
`splitClosedMinutes` leaves out the cutting of closed spans into three chunks.
Hour rows are selected by their own bucket (`HoldsHour`). The widths of the
resolution buckets (`subdiv`) only switch the plan off; `hourPlan` of
TrafficReads has them.

### PairTables and PairStore: the write side

`PairTables` gives each SQL statement of a write transaction as an operator on
a record of tables. A minute holds one number, 0 for "no row" (a row with no
bytes at all is not distinguished from none). An hour keeps its provenance:
`hours[h][m]` is what minute `m` contributed to the row of hour `h`. A plain
sum would hide a minute merged twice when another is missed.

| PairStore | code |
|---|---|
| `OpenStore`, `BackfillChunk` | `Store.Init`, `backfillHourRollupTailnet`: a chunk and its commit |
| `CommitPollResults`, `UpdatePollState` | the functions of that name, up to `rollClosedMinutes` |
| `CommitObjectIngest`, `CommitObjectIngestAgain` | the `INSERT OR IGNORE` that adds a row, or none |
| `Cleanup` | retention with `pruneHourRollups` |
| `RollChunk` | one iteration of `rollClosedMinutes` in the open transaction |
| `commitWrite`, `Rollback` | the commit, or the deferred rollback after any failure |
| `Crash` | the process stops; only `db` survives |

`lock`, `work`, `through` and `touches` are the open transaction; the tailnet
lock admits one. The other tables of a commit move in the same transaction and
carry nothing of their own here; they, protocols, ports and the legacy-protocol
flag are in `TrafficRows`. One tailnet is modelled: every statement is keyed by
tailnet and the lock is per tailnet.

`RollChunk` and `BackfillChunk` have no case for the two internal errors of the
rollup; `RollupAlwaysAdvances` says these errors do not occur.

### PairLedger and PairStoreRefinement: what the store promises

`PairLedger` knows traffic per minute, a cursor and the objects counted, with
one atomic action per operation and no rollup, transaction or crash.
`PairStoreRefinement` maps its `traffic` to what a reader computes through
`planHoursThroughMark` over the whole history, not to `node_pairs` itself. A
wrong hour row, a wrong plan or a transaction visible in parts breaks it. The
window of that reader is `[0, Horizon)`; `Horizon` is a constant past every
bucket.

### GraphRead: readers against writers

A write is split where readers can tell: `commitSeq.started` moves, the commit
becomes visible, `finished` moves, the touched hours are dropped from the cache.
The statements come from `PairTables`. A reader goes through `quiet()` (two
loads), the planning snapshot, the gets from the cache, then the remaining
spans in any order. A missing closed hour takes three steps: epoch, query, put.
At the end `Stable` is the check that no commit began; if one did, the reader
starts again and reads the open part on the planning snapshot (`again`).

Between a commit becoming visible and its writer dropping the hours, the cache
may still answer with the rows from before it. The writer has not returned yet,
so no caller can have been told of the write. `prev` and `PendingDrop` name
that gap, and the properties allow for it and nothing else.

### ObjectPoll: the cursor of the object-store source

One goroutine polls. `Select` stands for the selection loop and the ingestion
checks it makes; each read with its commit is a step. The calls that make
`Poll` return early without the final clamp are `SelectFails`, `CommitFails`
and `GiveUpFails`; they set `cutShort`.

A read fails in one of three ways. `OpenFails` is a request that is refused or
never answered: it is not counted. `ReadMalformed` is an object that is gone or
whose body never decodes. `BodyBreaksOff` is a good object whose stream ends
early: scanner and decompressor report a reset connection like a corrupt body,
so `readFlowLogs` makes it an `objectContentError` and it uses up the budget of
that object like a malformed one. The history variable `brokenOff` counts these
reads, and `pageGivenUp` is set by a poll that gave up every object of a full
page and so takes the end of the poll for its cursor (finding 2).

Uploads come within `Lookback` of the
time in the object's name, the assumption behind that setting. The history
variable `since` is how far back the first poll that moved the cursor listed:
what is older was never asked for, by the setting `InitialBackfill`, and
`NoObjectLost` leaves it out. In the run the clock outlasts the backfill.

### LiveWindow: the recent hour in two places

Ticks, two to a minute. The poller commits to the store and then updates the
cache; a handler asks `HasNodePairDataFor` and then reads, in two critical
sections. A flow is counted in the minute it started, and becomes visible at
the source up to `Lateness` after it was logged. `Lateness <= PollDelay` is
what `PollDelay` is for, and is assumed by name. The API's range is taken as
half open. With the object source this module commits whatever is listed and
not ingested; `ObjectPoll` models that cursor. The history variable `since` is
where the first poll that moved the cursor started; `OutOfReach(f)` says that a
flow was logged before it or that retention has passed it, the two reasons for
which the code never asks for a flow. Time zero stands for a time before every
flow, so a backfill that reaches further back is cut off there.

### PollerLifecycle: Start, Stop, TriggerPoll, run

A generation names the channels and context of one `Start`; generation 0 names
the channels of `NewPoller`, which no run reads. The critical sections of
`Start`, `Stop` and the deferred function are single steps; sends, waits and
closes outside the lock are steps of their own. `select` takes any ready case.

### PairRowCounts and StoreUpgrade: a file over several releases

`PairRowCounts` has the counters of node_pairs: the insert trigger, the prune,
and the background count in chunks with its ready flag. A build that rebuilds
the table (and so drops the trigger) and older builds, whose inserts fire the
trigger and whose retention leaves counters behind, are part of it. An older
build is taken not to insert behind its own retention.

`StoreUpgrade` puts them into the life of the file. `Start` begins
`SQLiteStore.Init` on whatever the last process left: tables still to be renamed,
columns still to be added, the copy (written to a temporary name with `VACUUM
INTO`, then renamed over an older one), the migration of each table in one
transaction (`txn`, the working image of the file), the schema of a new file,
and `ensureBucketRowCounts`. Two tables stand for all: `node_pairs`, and one
that every commit writes beside it, so that a half-migrated file is visible.
`Exit` may come at any step and leaves a torn copy; `InitFails` is a statement
that fails. `RollBack` is the documented way back, the backup moved over the
live file; after it the previous release (`StartFlat`) writes the file and it is
upgraded again. `skip` is `TSFLOW_SKIP_DB_BACKUP`. One process has the file at a
time. The obsolete tier tables, whose removal no read sees, are left out, and
so is the write-ahead log that an operator has to delete at a rollback.

### DeviceCache, IdentityMerge and NodeIdentities: who is who

`DeviceCache` gives the operations of `device_cache.go` as operators on a record
of its maps. The code's maps hold pointers; here an entry has a handle, and the
maps by id and by address hold handles, so that an address that still points to
a dropped entry is visible. Owner stands for all descriptive attributes, which
merge alike. Addresses are numbered in the order in which a row lists them.

`IdentityMerge` is the second implementation of the same idea, over stored rows
(`database/identity.go`); the reads find devices by it.

`NodeIdentities` runs the cache in time: refreshes from the device list,
`persistDeviceIdentities` with its rewrite interval, loading of stored rows,
retention, the hydration of objects that were ingested without their nodes, and
the reads of new ones. A read that fails leaves in the cache what it had read
(`readFailsAfterSome`): the network may give out at any line, an object with a
line that does not decode fails after the good ones before it, on each poll that
tries it again. An object that is given up is recorded without its nodes.
One goroutine does all of it; a step is an API call, a transaction, or the read
of one object. Time is counted in poll intervals. Stored rows are read in any
order, as the query has none. The rows that one transaction writes are of
different nodes, so they are a set and the transaction is a function of it.

The module says as assumptions what the inputs guarantee. A device list names a
node once, and a device that has a legacy id has its stable id as its id
(`preferStableDeviceID`); a log line that names a node twice names it by its
stable and its numeric id; and the two ids belong together wherever both are
named (`TwoIdsAssumption`), as Tailscale gives a node one of each. A list may
name a node by its numeric id alone, rows and logs may name deleted nodes, and
addresses are shared and reused freely.

### TrafficRows, TrafficReads, DeviceReads, ScopedTools, StoredReads: the answers

`TrafficRows` has the tables that reads sum: a row of a pair with its type,
bytes per direction, flows, bytes per protocol and per port, its hourly rollup,
the two bandwidth tables and the statistics; `aggregate` makes a batch of logs
into rows. `TrafficReads` has the reads without identities (rankings, node
details, statistics with their three ways of being computed, the overview, new
pairs); `DeviceReads` those that join the ids of a device (owner filters, viewer
devices, timeline, peers, flows between two devices) and the handlers' joins by
the device cache; `ScopedTools` the MCP tools within a viewer's scope.

`StoredReads` is the state machine under them: the file is opened and closed,
batches are committed, some late, retention cuts, and an older build writes
while the current one is stopped. A commit, a cleanup and an opening are one
step each, since PairStore and GraphRead have what happens inside. An older
build writes minutes past the rollup mark only: what it writes behind the mark
no pass rolls up later, since the file does not say who wrote a row.

`ViewerScopes` puts `ScopedTools` on the cache of `NodeIdentities`: in
`StoredReads` the cache stays as it is, here the poller changes it while viewers
ask. A tool changes nothing, so it is no step, and every state is one in which
any viewer may ask. A tool looks devices up one by one and not under one lock;
a call that overlaps a change of the cache, and so sees both states of it, is
outside.

Left out: packets and the directional copies of protocol and port columns, which
follow bytes; orders, limits and pages; names as endpoints and prefixes of
addresses; tags, which select as owners do. The instance stays below the
20 ports of a row: beyond them, port totals of minutes and hours may differ by
design.

## 3. What TLC checks

A cfg binds constants and replaces no definition. `CHECK_DEADLOCK FALSE` is
set because every model has bounds (clock, faults, writes, runs) and stops
when they are used up; what must go on is stated as a liveness property.

| run | instance | shows |
|---|---|---|
| `pair_store` | 2 hours with their first and last minute, 3 clock values, 2 window contents, 1 object, retention of an hour, 1 crash, 8 window edges | `TypeOK`, `HourRowsMatchMinutes`, `RollupAlwaysAdvances`, `OpenMinuteNotRolled`, `CursorAndMarkForward`, `PlannedReadMatchesScan`, `BackfillEnds`, `ImplementsLedger` |
| `graph_read` | a closed hour, a filling one, a minute after the mark; 1 reader, 2 windows, 3 commits | `CacheIsFresh`, `AnswerIsRecent`, `OpenPartIsOneCommit` |
| `object_poll` | 4 objects (3 of one time, 1 malformed), pages of 2, budget 2, look-back and backfill of 1 in 5 ticks, 2 faults | `GapIsKept`, `RefusalsDropNothing`, `EveryObjectSettles` |
| `live_window` | 3 flows, 2 faults, 8 ticks, chunks of 2, backfill of 3, retention of 5, both sources | `EachFlowOnce`, `EveryFlowCounted`, `CacheMatchesStore`, `CoveredAnswerIsWhole` |
| `poller_lifecycle` | 2 callers, 2 runs | `OneLoop`, `StopMeansStopped`, `NoDoubleClose`, `StopEnds`, `TriggerIsServed` |
| `store_upgrade` | 2 tables, 2 minutes in chunks of 1, 2 rows a minute, 4 starts | `CountersAreExact`, `BackupIsWhole`, `StartsBecomeReady` |
| `node_identities` | 2 nodes with 2 ids each and 2 addresses, 3 objects (1 unreadable), 2 hydrated per poll, 5 intervals, retention of 3, 1 failure, 1 crash, 1 change of the device list; 3 rows of traffic and 1 scope | `CacheNamesResolve`, `AddressReuseIsSafe`, `StoredNamesResolve`, `ScopeShowsItsPart`, `WrittenRowsAreKept`, `EveryObjectIsHydrated` |
| `stored_reads` | 3 devices (one under two ids, one also under its address, one unnamed) and a pseudo endpoint, 6 batches, 3 openings, 2 cutoffs, 5 windows, 3 type lists, 3 scopes | `RollupReadsAgree`, `StatisticsAgree`, `OverviewIsWhole`, `TotalsMatchTheLogs`, `DeviceTotalsAgree`, `NewPairsAreNew`, `ShownTotalsAgree`, `ToolsAgree` |
| `object_poll_gap`, `object_poll_outage`, `node_identities_busy`, `stored_reads_pairs` | see the findings | violations |

**Why the bounds are enough.** In PairStore the first and the last minute of
two hours are the places where the arithmetic of the rollup differs; the clock
values put the cutoff before the first rows, on an hour, and inside one. Two
hours make a rollup take several chunks, and one crash reaches every
intermediate commit. In GraphRead three commits are a fill, a write that makes
it stale and one that moves the mark; one reader's fills are what its later
reads find, and two readers that fill at once are not part of the run. In
ObjectPoll a page of two ends between objects of one time; two faults are the
budget, so that a good object may be given up, or share a page with the
malformed one, and let a failed read meet a second failure or a restart. In LiveWindow the chunk and the
minute have one length and the flows straddle both. In PollerLifecycle two runs
let an old goroutine meet the fields of a new one. In StoreUpgrade two chunks
leave counted and uncounted minutes next to each other, and four starts let an
upgrade be interrupted, finished, rolled back and written by the old release
before it is done again. In NodeIdentities one node is deleted and its address
given to the other while rows and logs still name both, by either id; five
intervals are past retention and past the rewrite interval. Its viewer has the
owner of the node that is deleted, and asks for traffic stored under ids of
both and under their addresses, which change hands or lose their device. In StoredReads the
windows are an exact hour, three hours, one with edges inside hours, one with
buckets of hours and one with buckets of days; the batches put logs on both
sides of an hour and of a rollup, under both ids, in both orders of a pair, of
every type, and from an older build before and between.

**Mutants.** Each property of a passing run has a mutant: a definition replaced
by the form a plausible bug gives it (an unchecked put, a mark compared with
`<`, an address that keeps a dropped entry, a device's second id left out of a
sum, a Stop that does not wait ...), with which TLC finds the property violated
under the same configuration.

**Fairness.** PairStore: a goroutine that holds the lock runs on, and so does
the startup pass (weak fairness of `OpenStore`, `BackfillChunk`, `RollChunk`,
`commitWrite`); nothing is assumed of polls, cleanups or the clock. ObjectPoll
and LiveWindow: the poll ticker fires, a poll runs on, the clock moves.
PollerLifecycle: goroutines run on, and `select`, which chooses uniformly among
ready cases, does not pass over a ready stop or trigger for ever (strong
fairness of `SeeStop` and `TakeTrigger`). StoreUpgrade: the steps of `Init` and
the background count run on while the process lives. NodeIdentities: the poll
ticker fires and the goroutine never stays at one place for good; nothing is
assumed of the cleanup ticker, the device list or failures. GraphRead and
StoredReads have no liveness property and no fairness.

## 4. Findings

1. **A store call that fails inside a poll can move the cursor past a gap**
   (run `object_poll_gap`). `Poll` returns from the middle of its loops with a
   cursor that the unreadable and unread objects have not held back, and
   `pollObjectStore` stores it although there was an error. The comment at
   `object_store_source.go:444-446` promises that a failure does not advance
   past the gap. Objects within `Lookback` of the cursor are still listed.
2. **A page of objects that are all given up moves the cursor to the end of
   the poll** (run `object_poll_outage`, and any page of malformed objects).
   Given-up objects are not counted as processed, and `pollObjectStore` takes
   "none processed, no error" for "no object exists yet"
   (`poller.go:581-585`). Objects behind the full page can be left out for good.
3. **An outage can drop data** (run `object_poll_outage`). The comments at
   `object_store_source.go:183-185` and `384-386` say that network and server
   errors do not count against the budget, "so an outage never drops data". That
   is so for errors of the request. An error of the body's stream comes out of
   `scanner.Err()` or `gzip.NewReader` and becomes an `objectContentError`
   (`571-577`, `604-608`): `maxObjectReadAttempts` of them without a good read
   between, and a readable object is recorded as ingested without its flows. In
   the run, where the budget is two, all objects can be read and no store call
   fails; one stream breaks off twice, and
   by finding 2 the two objects behind it are lost as well.
   `RefusalsDropNothing` states what is left of the promise.
4. **Nodes found in flow logs postpone the refresh of the device list** (run
   `node_identities_busy`). `UpsertFromFlowLogMetadata` and `UpsertNodeMetadata`
   set `lastRefresh`, which `NeedsRefresh` compares. With an object store whose
   objects keep coming, the list is never read again after the start, listed
   identities are not rewritten, and retention drops the row of a device that is
   listed and silent, which the comment at `poller.go:458-460` says cannot
   happen. New objects are not needed: hydration reads an object with a line
   that does not decode on every poll, and each good line before it has the same
   effect. `WrittenRowsAreKept` in `node_identities` states what does hold: the
   row stays while refreshes keep writing the list.
5. **The overview may count a pair twice** (run `stored_reads_pairs`).
   `countDistinctPairs` uses resolved ids in the order of the stored row; two
   stored ids of one device may sort on different sides of the other end, and
   the comment at `stats_handlers.go:671-672` promises one count. It needs
   traffic of one device stored under an address or a numeric id, and later
   under its stable id.

`GapIsKept` in the run `object_poll` covers everything else about cursors: read
failures of every kind, listing failures, failed cursor writes, cancellations
and restarts. Its two exceptions are findings 1 and 2.

Also met while modelling, without a run of their own:

* README.md:578 and 587 say that the copy is written before the schema changes
  and that startup stops before changing it when the copy fails. Renaming,
  adding columns and dropping the tier tables come before the copy. The copy is
  one the previous release can write, which is what `BackupIsWhole` asks.
* The order of a pair also shows in the tool `top_pairs`, which may list one
  connection in both orders, and in `new_connections`, which may name a known
  pair in the other order as new. `ToolsAgree` adds both orders.
* README.md:419 says `new_connections` reads the route of new pairs; the tool
  compares two calls of `DistinctPairs`. `ScopedTools` models the tool.
* Rankings include rows stored under a device's address, node details do not
  (`ShownTotalsAgree` says exactly when the two agree). A row between two ids of
  one device counts at both ends in the tool's timeline, once in the handler's.
* `deviceAliases` follows shared addresses one step, the merge of all rows
  follows them further.

## 5. What is proved

TLAPS proves the safety properties of seven of the eight passing runs, and the
refinement of the ledger, for every value of the constants: any buckets, keys,
windows, callers and readers, any budget, page or chunk, and any number of
faults, crashes, commits and runs.

| module | theorem | property |
|---|---|---|
| `PairStoreProofs` | `HourRowsAreExact` | `HourRowsMatchMinutes` |
| | `PlannedReadsAreExact` | `PlannedReadMatchesScan` |
| | `StoreImplementsLedger` | `ImplementsLedger` |
| | `CursorAndMarkMonotone` | `CursorAndMarkForward` |
| | `RollupNeverStuck` | `RollupAlwaysAdvances` |
| | `OpenMinuteStaysOnMinuteRows` | `OpenMinuteNotRolled` |
| | `TypeCorrect` | `TypeOK` |
| `GraphReadProofs` | `CachedHoursAreFresh` | `CacheIsFresh` |
| | `AnswersAreRecent` | `AnswerIsRecent` |
| | `OpenPartsAreOneCommit` | `OpenPartIsOneCommit` |
| | `CacheStaysInBudget` | `TypeOK` of GraphRead |
| `ObjectPollProofs` | `GapsAreKept` | `GapIsKept` |
| | `RefusedReadsDropNothing` | `RefusalsDropNothing` |
| `LiveWindowProofs` | `FlowsAreCountedOnce` | `EachFlowOnce` |
| | `CacheFollowsStore` | `CacheMatchesStore` |
| | `CoveredAnswersAreWhole` | `CoveredAnswerIsWhole` |
| `PollerLifecycleProofs` | `OneLoopAtATime` | `OneLoop` |
| | `StopIsFinal` | `StopMeansStopped` |
| | `ChannelsCloseOnce` | `NoDoubleClose` |
| `StoreUpgradeProofs` | `BackupSurvives` | `BackupIsWhole` |
| | `ReadyCountersAreExact` | `CountersAreExact` |
| `NodeIdentitiesProofs` | `EveryCacheNameResolves` | `CacheNamesResolve` |
| | `ReusedAddressesAreSafe` | `AddressReuseIsSafe` |
| | `EveryStoredNameResolves` | `StoredNamesResolve` |
| | `ListedRowsOutliveRetention` | `WrittenRowsAreKept` |
| | `EveryScopeShowsItsPart` | `ScopeShowsItsPart` of ViewerScopes |
| | `IdentitiesInvariant` | the invariant behind these |

In each module `IInv` is the inductive invariant; TLC found it to hold on
the instance of the run before it was proved. One lemma per action says that the action
keeps it.

### PairTablesProofs and PairStoreProofs

*Assumptions* (`BucketsAssumption`, `RetentionAssumption`, `TimesAssumption`,
`DeltasAssumption`, `HorizonAssumption`): buckets are natural multiples of 60
below the horizon; the clock, retention and window contents are natural
numbers; the clock is never less than the retention, so the cutoff is not
negative.

*The inductive invariant* strengthens the properties by four facts. (1) The hour
rows match the minutes in `work` as well as in `db`, since a commit turns one
into the other. (2) The mark is `NoMark` or a whole minute; the merge of a chunk
takes the minutes *strictly* between the old mark and the chunk's end, and only
with an aligned mark are these the minutes not yet inside. (3) The mark is
behind the clock, and so is `through`, the bound up to which an open
transaction closes minutes. (4) The mark and the cursor of `work` are at or
ahead of those of `db`, which makes a commit a forward step.

*The argument*: one lemma per statement (`UpsertSound`, `CursorSound`,
`IngestedSound`, `RollSound`, `ExpireSound`) says that it takes sound tables to
sound tables and where the mark goes. `LeastNat` (from well-foundedness of the
naturals) gives the oldest pending minute its meaning, so that a chunk skips no
row: everything between the mark and that minute is empty, and the chunk ends in
that minute's hour. `RollupNeverStuck` needs only that minutes are aligned and
that `through` is rounded down to a minute.

*Reads*: a plan is `Exact` for a window, a table and a mark when each minute of
the window is held by one span, a minute span or an hour span with the mark past
it, and no span holds anything else. `PlanHoursExact`, `PlanThroughMarkExact`,
`SplitHoursExact` and `SplitMinutesExact` prove it of the planners and of both
splits; `ExactPlanReads` turns it and the invariant into the equality with a
scan.

*The refinement*: `LedgerInv` adds that `work` is `db` but for at most one entry
of the ledger (`Entry`). A commit is the step that writes that entry; statements,
chunks, rollbacks, crashes and the startup pass stutter, because the mapped
`traffic` is a planned read, which by the invariant depends on the minutes
alone.

### GraphReadProofs

*Assumption* (`GraphReadAssumption`): buckets are finite, a budget of at least
one hour, natural times, and marks the rollup can set.

The invariant has three parts. *Commits*: the two counters and the four stages
of a commit fit together, and the three images of the tables are sound. *The
cache*: every entry is fresh, that is, the committed rows of a closed hour, or
those from before a commit whose writer has still to drop them; and a fill under
way either holds fresh rows or is of an hour touched after its epoch, so that
`put` refuses it. *A read*: `ItemOf` names the one span that brings a minute
into the sum, and `Gathered` says that the sum has a minute of the window
exactly when its span is done, with the value of a commit seen by the read; for
the open part of a read in parallel the value is that of the present table, as
long as `started` has not moved.

`ClosedHourStays` is the reason why a closed hour may be read in any later
snapshot: the rollup adds nothing to it, and what else changes it is a write
that drops it from the cache. `PlanReadFacts` and `WholeHourMinutes` tie the
spans of a plan to the minutes.

### ObjectPollProofs

*Assumption* (`PollAssumption`): natural log times, settings and bounds; nothing
is assumed of how many objects are malformed or how often a stream breaks off.
The invariant for `GapsAreKept` says where each object is that has come and is
not ingested: late enough for the next poll's list, held back by `blocked`,
behind a full page, to be read by this poll, or older than the first poll looked
back (`since`). An object behind a full page is safe as long as something of the
page counts or is skipped. `OnlyGivenUp` follows the one page that neither
counts nor skips anything: what is done with of it was recorded without flows,
so that when it ends at least `MaxObjects` objects have no flows, the second
exception of `GapIsKept`.

`RefusedReadsDropNothing` rests on `BudgetInv`: the reads counted against an
object that is not malformed are no more than those its stream broke off, so a
full budget takes as many of these, with any number of refused reads, restarts
and failed attempts to record the object in between.

### LiveWindowProofs

*Assumption* (`LiveAssumption`): `Lateness <= PollDelay`, a flow starts no later
than it is logged, and minutes, chunks, retention, backfill and cache age are
positive. Of the store the invariant says that all flows before the cursor are counted or
out of reach and none after it is counted, and that a range that was fetched has
all that is left to count before its end, which needs that the source has
settled there. Of the cache: it is empty until it has a floor, the floor is set
no lower than the cursor, and it has what the store has but for the batch in
hand. Of a handler that was told yes: its minutes are at or past the floor, so
that until their age drops them the read returns what the store had.

### PollerLifecycleProofs

*Assumption* (`LifecycleAssumption`): callers are a finite set. The invariant
names the owner of each run: only the run whose generation `doneChan` holds may
be alive, `running` is true exactly then, a done channel is closed exactly when
its run is gone, and a caller past `Stop`'s critical section holds the channel
of a run that was begun.

### StoreUpgradeProofs

*Assumption* (`CountsAssumption`): natural bounds, chunks of at least one
minute. For the backup: a file is wholly old, wholly new or wholly migrated, and
at each step of `Init` the copy that step relies on still equals the live file.
For the counters: the minutes whose counter is wrong are those of the chunks
the running count has ahead, or lie below every stored minute and below what
retention has passed, where an older build left them.

### NodeIdentitiesProofs

*Assumptions* (`IdAssumption`, `TimesAssumption`, `ListsAssumption`,
`LogsAssumption`, `TwoIdsAssumption`): finitely many ids and objects, stable and
numeric ids apart, natural times and bounds, and what is said above of lists and
logs. Nothing is assumed of addresses, of the order of rows, or of how many
failures, crashes and list changes there are.

*The inductive invariant.* The properties speak of ids; what every operation
keeps is a fact about the three maps and the entries together (`WellFormed`).
`IdsAgree`: ids and entries name each other. `AliasesAgree`: an alias is no id,
and the entry that it leads to lists it. `AddressesAgree`: a flow-only entry has
only addresses of its own; without it pruning, which frees the addresses an
entry lists, would leave one that leads to nothing. `ListedAddresses` and
`ListedNames`: the addresses of a listed device lead to listed devices, and a
device listed under both its ids is named by no third. The last needs
`TwoIdsAssumption`: `identitiesConflict` compares an incoming id with the ones
the entry has, so a line with a foreign id is kept out only if no line and no
list gives one of these ids to another node.

`StoredAreKnown` is the clause for loaded rows. The property asks only between
refreshes; the invariant says it of every step after the rows are loaded, and
that the entry is listed or was seen *no earlier than the row was written*,
without which a cleanup could prune what the table keeps.

*The argument.* A rekey, an alias, an address map or a new entry is a lemma of
its own (`AliasKeeps`, `MapKeeps`, `RekeyKeeps`, `FillKeeps`, `NewEntryKeeps`);
`MergeKeeps` and `InsertKeeps` compose them and `AdoptKeeps` joins the two. Each
says what becomes of the names too: all stay known, but for the legacy id of the
line, which may pass to the entry the line is merged into. An operation over a
list is a fold. `FoldingTrace` unfolds the definition of the fold into the
sequence of its intermediate caches, so that `UpTo`, an induction over the
naturals, carries a lemma about one row over all rows.

The merge of stored rows (`Merged`) is apart from the cache. `Ranks` shows that
the rows can be put in order, `MergeRowKeeps` that a row goes to the device that
has its id or to one that does not contradict it; as each row has an id of its
own, each id is in the one device that `byID` says.

*Scopes.* `EveryScopeShowsItsPart` needs of the cache only the proved
`WellFormed` and one more assumption: the names of pseudo endpoints are no ids
and no addresses of devices (`PseudoAssumption`). A tool gives each row a
name for its ends, then groups and sums, and a scope drops rows *before* the
grouping. By `ShownUnder` a stored id is shown under an id of the one entry it
resolves to, and that id resolves to the same entry again. So whether a row is
in scope depends on the name it is grouped under alone (`SeenUnder`): a group is
kept whole or dropped whole. The sums are then equal because they are sums of
the same set; no induction over the rows is needed, and nothing is assumed of
rows or scopes.

*Rows of listed devices.* `ListedRowsOutliveRetention` has an invariant of its
own, `Freshness`: the row of a listed device is as fresh as the last *full*
write of the list, and the last write of any kind is no more than `Rewrite`
after it. The writes between two full ones leave out devices that did not
change, and logs may refresh a row at any time, but no step makes a row older;
only a cleanup forgets one, and only past its retention. Together they give the
bound on the last write that the property states.

### Only model-checked

* The liveness properties `BackfillEnds`, `EveryObjectSettles`,
  `EveryFlowCounted`, `StopEnds`, `TriggerIsServed`, `StartsBecomeReady` and
  `EveryObjectIsHydrated`: fairness and ENABLED are beyond TLAPS.
* StoredReads: its properties compare sums of rows grouped in two ways. That
  two groupings have one sum takes an induction over the set of rows for each
  grouping, which has not been done. What is proved of these reads is the law
  beneath them, that a planned read equals a scan (`ExactPlanReads`,
  `PlannedReadsAreExact`), and that a scope shows its part of the answers of
  the tools, for any stored rows (`EveryScopeShowsItsPart`).

## 6. Plan

The order followed so far: the store first, since every number the program
shows comes from it; its readers; what feeds it; the names of devices; the file
over several releases; the answers, which need all of these; then the proofs.
What is left:

1. **Proofs**: a lemma that a sum over rows is the sum over the parts of a
   partition, and with it the properties of StoredReads; monotonicity of what a
   row of StoreUpgrade promises over several upgrades.
2. **Limits**: the token bucket with its cleanup, the deny-log limiter at its
   capacity, the scrape cache of the metrics.
3. **Registry**: several PollerLifecycle instances under one start and stop.
4. **View requests**: request numbers, aborts and retry timers of the front end.

## 7. Not modelled

Configuration (read once), the HTTP and MCP parameter parsing and response
shapes, the S3, GCS and Tailscale clients with their retries (a request with
its retries is one step that succeeds or fails), workload identity, CORS, CSP
and cache headers, the embedding of the front end and its presentation (charts,
graph layout, themes): input and output without state that steps of several
actors share. The rate limiter, the deny-log limiter, the scrape cache and the
registry have state and stand apart from the rest; the plan has them. The
obsolete tier tables are dropped by a start and read by nothing. PROJECT.json
lists each part with its reason.

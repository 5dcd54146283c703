----------------------------- MODULE StoredReads -----------------------------
(***************************************************************************)
(* A store that is written and read over its life: a file that an older    *)
(* build wrote is opened, polls and late objects are committed, retention  *)
(* removes rows, an older build runs on the file for a while and the       *)
(* current one opens it again.  In every state in which the store is open  *)
(* the reads of TrafficReads, DeviceReads and ScopedTools have to agree    *)
(* with each other and with the flow logs that were committed.             *)
(*                                                                         *)
(* PairStore has the steps inside a commit, crashes and the lock; here a   *)
(* commit, a cleanup and the opening of the store are one step each, and   *)
(* the rows are those a read sums.                                         *)
(***************************************************************************)
EXTENDS ScopedTools

CONSTANTS
    Batches,        \* ids of the batches of logs
    Logs0,          \* [Batches -> set of logs]
    PollEnd,        \* [Batches -> end of the poll, or 0 for an object]
    OldBatches,     \* batches that the older build commits
    Needs,          \* [Batches -> the batches committed before it]
    Openings,       \* times at which the store may be opened
    Cutoffs,        \* cutoffs of retention
    Windows,        \* windows of the reads, <<start, end>>
    TypeLists,      \* lists of traffic types that requests carry
    Metadata,       \* the stored rows of node metadata
    Logins,         \* owners of devices
    Scopes          \* scopes of viewers

VARIABLES
    d,              \* the tables
    up,             \* the current build has the file open
    live,           \* the logs whose minutes are stored
    old,            \* keys of the rows of pairs that the older build wrote
    done,           \* batches committed so far
    clock           \* the time of the last opening or poll

vars == <<d, up, live, old, done, clock>>

Init ==
    /\ d = EmptyTables
    /\ up = FALSE
    /\ live = {}
    /\ old = {}
    /\ done = {}
    /\ clock = 0

\* The older build knows neither protocol bytes nor statistics nor the rollup.
\* It writes minutes that the current build has not rolled up.
OldCommit(b) ==
    /\ ~up
    /\ b \in OldBatches \ done
    /\ Needs[b] \subseteq done
    /\ \A l \in Logs0[b] : minuteOf(l.at) > d.mark
    /\ LET a == aggregate(Logs0[b])
           bare == [k \in DOMAIN a.pairs |-> [a.pairs[k] EXCEPT !.bytes = <<>>]]
       IN  /\ d' = upsertNodeBandwidthTx(upsertBandwidthTx(
                       [d EXCEPT !.pairs = Upserted(@, bare, mergePairRow)], a.bandwidth), a.nodes)
           /\ old' = old \cup DOMAIN bare
    /\ live' = live \cup Logs0[b]
    /\ done' = done \cup {b}
    /\ UNCHANGED <<up, clock>>

\* Opening the store fills protocol bytes, then rolls the closed minutes.
Open(now) ==
    /\ ~up
    /\ now >= clock
    /\ up' = TRUE
    /\ clock' = now
    /\ d' = LET filled == backfillProtocolBytes(d)
            IN  IF DOMAIN filled.pairs = {} THEN filled ELSE rollClosedMinutes(filled, now)
    /\ UNCHANGED <<live, old, done>>

Close ==
    /\ up
    /\ up' = FALSE
    /\ UNCHANGED <<d, live, old, done, clock>>

Commit(b) ==
    /\ up
    /\ b \in Batches \ (OldBatches \cup done)
    /\ Needs[b] \subseteq done
    /\ d' = commitBatch(d, Logs0[b], PollEnd[b])
    /\ live' = live \cup Logs0[b]
    /\ done' = done \cup {b}
    /\ clock' = Max({clock, PollEnd[b]})
    /\ UNCHANGED <<up, old>>

Retain(cutoff) ==
    /\ up
    /\ cutoff <= clock
    /\ d' = Cleanup(d, cutoff)
    /\ d' # d
    /\ live' = {l \in live : minuteOf(l.at) >= cutoff}
    /\ old' = {k \in old : k[1] >= cutoff}
    /\ UNCHANGED <<up, done, clock>>

Next ==
    \/ \E b \in OldBatches : OldCommit(b)
    \/ \E now \in Openings : Open(now)
    \/ Close
    \/ \E b \in Batches : Commit(b)
    \/ \E cutoff \in Cutoffs : Retain(cutoff)

Spec == Init /\ [][Next]_vars

(***************************************************************************)
(* Properties                                                              *)
(***************************************************************************)
\* A plan may be made with a mark that polls have since moved.
Marks == {NoMark, d.mark} \cup {m \in {PollEnd[b] - minuteSeconds : b \in Batches} : m >= 0 /\ m <= d.mark}

Nodes == UNION {{r[2], r[3]} : r \in DOMAIN d.pairs}

rowsOf(w, subdiv, types, mark) ==
    countedTrafficClause(unionPairRows(d, hourPlan(w[1], w[2], subdiv, mark)), types)

scanOf(w, types) == countedTrafficClause(unionPairRows(d, minuteScan(w[1], w[2])), types)

\* Every read that works on hourly rows answers what the minute rows of its
\* window answer, whatever the order of late minutes, rollups, retention and
\* restarts, and also when the mark it planned with is older than its rows.
RollupReadsAgree ==
    up => \A w \in Windows, types \in TypeLists, mark \in Marks :
        LET size == resolveBucketSize(w[2] - w[1])
            rows == rowsOf(w, 0, types, mark)
            fine == rowsOf(w, size, types, mark)
            scan == scanOf(w, types)
        IN  rows # scan \/ fine # scan =>
              /\ GetTopTalkers(rows) = GetTopTalkers(scan)
              /\ GetTopPairs(rows) = GetTopPairs(scan)
              /\ DistinctPairs(rows) = DistinctPairs(scan)
              /\ ActiveNodeIDs(rows) = ActiveNodeIDs(scan)
              /\ GetBandwidthByTrafficTypes(fine, size) = GetBandwidthByTrafficTypes(scan, size)
              /\ \A n \in Nodes :
                    /\ GetNodeBandwidthByTrafficTypes(fine, n, size)
                         = GetNodeBandwidthByTrafficTypes(scan, n, size)
                    /\ GetNodeStats(rows, n) = GetNodeStats(scan, n)

\* Statistics derived from pairs do not depend on the rollup nor on which of
\* the two ways of computing them ran, rows of an older build included.
StatisticsAgree ==
    up => \A w \in Windows, types \in TypeLists :
        LET size == resolveBucketSize(w[2] - w[1])
            plan == hourPlan(w[1], w[2], size, d.mark)
            derived == queryTrafficStatsFromNodePairs(d, w[1], w[2], {<<w[1], w[2]>>}, types)
        IN  /\ derived = singlePassStats(d, minuteScan(w[1], w[2]), types, size)
            /\ derived = queryTrafficStatsFromRollup(d, plan, types, size)

\* The buckets of the overview that mix no rows of an older build with stored
\* statistics hold every byte and flow of the stored pairs; buckets without
\* stored statistics are derived, so that none is missing.
OverviewIsWhole ==
    up => \A w \in Windows :
        LET size == resolveBucketSize(w[2] - w[1])
            whole == singlePassStats(d, minuteScan(w[1], w[2]), {}, size)
            shown == loadOverviewBuckets(d, w[1], w[2], {}, d.mark)
            mixed == {(k[1] \div size) * size : k \in old}
        IN  /\ DOMAIN shown = DOMAIN whole
            /\ \A b \in DOMAIN shown \ mixed :
                  /\ shown[b].types = whole[b].types
                  /\ shown[b].proto = whole[b].proto
                  /\ shown[b].flows = whole[b].flows
                  /\ shown[b].pairs = whole[b].pairs
                  /\ shown[b].ports = whole[b].ports

\* What a node is shown to have sent and received, and the bandwidth of the
\* tailnet, are the bytes of the committed logs, each counted once.
TotalsMatchTheLogs ==
    up => \A w \in Windows :
        LET size == resolveBucketSize(w[2] - w[1])
            logs == counted({l \in live : w[1] <= minuteOf(l.at) /\ minuteOf(l.at) < w[2]})
            talkers == GetTopTalkers(rowsOf(w, 0, {}, d.mark))
            bandwidth == GetBandwidth(d, w[1], w[2], size)
            table(n) == {k \in DOMAIN d.nodes : k[2] = n /\ w[1] <= k[1] /\ k[1] < w[2]}
        IN  /\ DOMAIN talkers = {sender(l) : l \in logs} \cup {l.dst : l \in logs}
            /\ \A n \in DOMAIN talkers :
                  /\ talkers[n].tx = txOf({l \in logs : sender(l) = n})
                  /\ talkers[n].rx = txOf({l \in logs : l.dst = n /\ sender(l) # n})
                  /\ talkers[n].tx = MapThenSumSet(LAMBDA k : d.nodes[k].tx, table(n))
                  /\ talkers[n].rx = MapThenSumSet(LAMBDA k : d.nodes[k].rx, table(n))
            /\ bandwidth = GroupSum(logs, LAMBDA l : (l.at \div size) * size, LAMBDA l : l.tx)
            /\ bandwidth = GetBandwidthByTrafficTypes(rowsOf(w, size, {}, d.mark), size)

\* One device is the same in the ranked tables, in the list of its owner and in
\* its timeline, under whatever ids its traffic was stored; only the traffic
\* between two of its own ids counts at both ends in the first and once in the
\* last. Its peers are those of the timeline and account for the rest.
DeviceTotalsAgree ==
    up => \A w \in Windows, login \in Logins, types \in TypeLists :
        LET rows == rowsOf(w, 0, types, d.mark)
            shown == ListViewerDevices(Metadata, login, rows)
            devices == matchingDevices(Metadata, login)
            sum(f, D) == MapThenSumSet(LAMBDA k : f[k].tx + f[k].rx, D)
        IN  \A dev \in devices : \A id \in dev.ids :
              LET line == GetDeviceTimeline(d, Metadata, id, w[1], w[2], types, d.mark)
                  own == {r \in rows : r.src \in dev.ids /\ r.dst \in dev.ids}
                  inner == MapThenSumSet(LAMBDA r : r.tx + r.rx, {r \in own : r.src # r.dst})
                  self == MapThenSumSet(LAMBDA r : r.tx + r.rx, own)
                  main == canonicalNodeID(dev.ids)
              IN  /\ line.ids = dev.ids
                  /\ ViewerOwns(Metadata, login, id)
                  /\ shown[main].tx + shown[main].rx
                       = sum(line.buckets, DOMAIN line.buckets) + inner
                  /\ line.peers = ListDevicePeers(rows, dev.ids)
                  /\ sum(line.buckets, DOMAIN line.buckets)
                       = sum(line.peers, DOMAIN line.peers) + self
                  /\ \A p \in DOMAIN line.peers :
                       sum(FlowsBetween(rows, dev.ids, {p}), DOMAIN FlowsBetween(rows, dev.ids, {p}))
                         = line.peers[p].tx + line.peers[p].rx

\* A pair is listed as new exactly when logs of the window hold it and no log
\* of the lookback does, with the minute of its first log.
NewPairsAreNew ==
    up => \A w \in Windows :
        LET lookback == w[2] - w[1]
            start == w[1] + lookback \div 2
            inside(l, lo, hi) == lo <= minuteOf(l.at) /\ minuteOf(l.at) < hi
            ends(l) == <<pairKey(l)[2], pairKey(l)[3]>>
            seen == {ends(l) : l \in {x \in counted(live) : inside(x, w[1], start)}}
            fresh == {l \in counted(live) : inside(l, start, w[2]) /\ ends(l) \notin seen
                                            /\ sender(l) # l.dst}
        IN  ListNewPairs(rowsOf(<<start, w[2]>>, 0, {}, d.mark), rowsOf(<<w[1], start>>, 0, {}, d.mark))
              = [p \in {ends(l) : l \in fresh} |->
                    Min({minuteOf(l.at) : l \in {x \in fresh : ends(x) = p}})]

\* The cache that the rows of node metadata fill.
knownDevices == UpsertNodeMetadata(EmptyCache, metadataOrder(Metadata))

\* The ranked talkers, the ranked pairs and the details of a node give one
\* account of each device after the handlers joined its ids, also when part of
\* its traffic is stored under an old id.  Rows stored under the address of a
\* device are in the rankings, and its details do not have them.
ShownTotalsAgree ==
    up => \A w \in Windows :
        LET resolve(id) == resolveNodeID(knownDevices, id)
            rows == rowsOf(w, 0, {}, d.mark)
            talkers == shownTalkers(rows, knownDevices)
            pairs == shownPairs(rows, knownDevices)
            total(f, D) == MapThenSumSet(LAMBDA k : f[k].tx + f[k].rx, D)
            stored(n) == {x \in {r.src : r \in rows} \cup {r.dst : r \in rows} : resolve(x) = n}
            inner(n) == MapThenSumSet(LAMBDA r : r.tx + r.rx,
                            {r \in rows : r.src # r.dst /\ {r.src, r.dst} \subseteq stored(n)})
        IN  \A n \in DOMAIN talkers :
              LET details == GetNodeDetailStats(rows, knownDevices, n)
                  of(p) == {k \in DOMAIN pairs : k = <<n, p>> \/ k = <<p, n>>}
              IN  /\ talkers[n].tx + talkers[n].rx
                       = total(pairs, {k \in DOMAIN pairs : n \in {k[1], k[2]}}) + inner(n)
                  /\ stored(n) \cap Addresses = {} =>
                       /\ details.tx = talkers[n].tx
                       /\ details.rx = talkers[n].rx
                       /\ \A p \in DOMAIN talkers \ {n} :
                            LET known == {q \in DOMAIN details.peers : resolve(q) = p}
                            IN  total(details.peers, known) = total(pairs, of(p))

\* The tools give one account of a device: its peers, the flows between it and
\* each peer, the ranked pairs, and its timeline and its ranked row add up to
\* the same bytes, the timeline when none are stored under an address.
ToolsAgree ==
    up => \A w \in Windows, scope \in Scopes :
        LET c == knownDevices
            size == resolveBucketSize(w[2] - w[1])
            rows == rowsOf(w, 0, {}, d.mark)
            talkers == topTalkers(c, scope, rows)
            pairs == topPairs(c, scope, rows)
            total(f, D) == MapThenSumSet(LAMBDA k : f[k].tx + f[k].rx, D)
            underAddress(n) == \E r \in rows : \E x \in {r.src, r.dst} \cap Addresses : resolveNodeID(c, x) = n
        IN  \A device \in {e \in Devices(c) : Matches(scope, e)} :
              LET peers == devicePeers(c, scope, rows, device)
                  line == deviceTimeline(c, rowsOf(w, size, {}, d.mark), {}, device, size)
                  n == device.id
              IN  /\ n \in DOMAIN talkers /\ ~underAddress(n) =>
                       total(line, DOMAIN line) = talkers[n].tx + talkers[n].rx
                  /\ \A p \in (UNION {{k[1], k[2]} : k \in DOMAIN pairs}) \ {n} :
                       LET between == total(pairs, {<<n, p>>, <<p, n>>} \cap DOMAIN pairs)
                           flows == flowsBetween(c, scope, rows, n, p)
                       IN  /\ between = total(peers, {q \in DOMAIN peers : shownID(c, scope, q) = p})
                           /\ deviceEntry(c, p) # {} => between = total(flows, DOMAIN flows)

\* stats_handlers.go: "a pair stored under two ids for the same device is
\* counted once" in the number of pairs of the overview.
PairsAreCountedOnce ==
    up => \A w \in Windows :
        LET resolve(id) == resolveNodeID(knownDevices, id)
            rows == rowsOf(w, 0, {}, d.mark)
        IN  overviewCounts(rows, knownDevices, loadOverviewBuckets(d, w[1], w[2], {}, d.mark)).pairs
              = Cardinality({{resolve(p[1]), resolve(p[2])} : p \in DistinctPairs(rows)})
=============================================================================

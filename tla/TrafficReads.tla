---------------------------- MODULE TrafficReads ----------------------------
(***************************************************************************)
(* The reads of stored traffic: bandwidth, rankings, node details, traffic *)
(* statistics, the overview and new pairs (database/aggregate_queries.go,  *)
(* rank_queries.go, stats_*.go, new_pairs.go, handlers/stats_handlers.go), *)
(* as operators on the tables of TrafficRows.                              *)
(*                                                                         *)
(* A read plans its window into minutes and hours and works on the union   *)
(* of the rows both give. Answers are functions from the group to its      *)
(* sums; ordering, limits and pages are left out, the top ports of a row   *)
(* or of a bucket excepted.                                                *)
(***************************************************************************)
EXTENDS TrafficRows

daySeconds == 86400

\* Bucket width of an answer: minutes up to two hours, hours up to two days.
resolveBucketSize(range) ==
    CASE range <= 2 * hourSeconds -> minuteSeconds
      [] range > 2 * hourSeconds /\ range <= 48 * hourSeconds -> hourSeconds
      [] OTHER -> daySeconds

(***************************************************************************)
(* Plans and rows                                                          *)
(***************************************************************************)
minuteScan(start, end) == [minutes |-> {<<start, end>>}, hours |-> {}]

hourPlan_AnySubdivision(start, end, subdiv, mark) == planHours(start, end, mark)

\* Answers finer than an hour cannot be built from hourly rows.
hourPlan(start, end, subdiv, mark) ==
    IF subdiv > 0 /\ subdiv < hourSeconds THEN minuteScan(start, end)
    ELSE planHours(start, end, mark)

combineHourPlans(ranges, mark) ==
    [minutes |-> UNION {planHours(r[1], r[2], mark).minutes : r \in ranges},
     hours   |-> UNION {planHours(r[1], r[2], mark).hours : r \in ranges}]

minuteRows(d, spans) ==
    {[kind |-> "minute", at |-> k[1], bucket |-> k[1], src |-> k[2], dst |-> k[3],
      type |-> k[4], tx |-> d.pairs[k].tx, rx |-> d.pairs[k].rx, flows |-> d.pairs[k].flows,
      bytes |-> d.pairs[k].bytes, list |-> d.pairs[k].list, ports |-> d.pairs[k].ports] :
        k \in {x \in DOMAIN d.pairs : Holds(spans, x[1])}}

hourRows(d, spans) ==
    {[kind |-> "hour", at |-> k[1], bucket |-> d.hours[k].min, src |-> k[2], dst |-> k[3],
      type |-> k[4], tx |-> d.hours[k].tx, rx |-> d.hours[k].rx, flows |-> d.hours[k].flows,
      bytes |-> d.hours[k].bytes, list |-> DOMAIN d.hours[k].bytes, ports |-> d.hours[k].ports] :
        k \in {x \in DOMAIN d.hours : Holds(spans, x[1])}}

\* Minute edges and hourly middles. An hourly row carries its first minute as
\* `bucket` and its own hour as `at`.
unionPairRows(d, plan) == minuteRows(d, plan.minutes) \cup hourRows(d, plan.hours)

trafficTypeWhereClause(rows, types) ==
    IF types = {} THEN rows ELSE {r \in rows : r.type \in types}

\* Without a list physical rows stay out; a list is used as given.
countedTrafficClause(rows, types) ==
    IF types = {} THEN counted(rows) ELSE trafficTypeWhereClause(rows, types)

portAccountingClause(rows, types) == counted(trafficTypeWhereClause(rows, types))

(***************************************************************************)
(* Sums of rows                                                            *)
(***************************************************************************)
bucketIn(row, size) == (row.bucket \div size) * size

\* Rows seen from each of their ends: node sends tx to peer. A row of a node
\* with itself has one end.
sided(rows) ==
    LET end(r, node, peer, tx, rx) ==
            [node |-> node, peer |-> peer, tx |-> tx, rx |-> rx, flows |-> r.flows, row |-> r]
    IN  {end(r, r.src, r.dst, r.tx, r.rx) : r \in rows}
        \cup {end(r, r.dst, r.src, r.rx, r.tx) : r \in {x \in rows : x.src # x.dst}}

totals(group) ==
    [tx    |-> MapThenSumSet(LAMBDA r : r.tx, group),
     rx    |-> MapThenSumSet(LAMBDA r : r.rx, group),
     flows |-> MapThenSumSet(LAMBDA r : r.flows, group)]

Sums(rows, key(_)) ==
    [k \in {key(r) : r \in rows} |-> totals({r \in rows : key(r) = k})]

GetTopTalkers(rows) == Sums(sided(rows), LAMBDA e : e.node)

GetTopPairs(rows) == Sums(rows, LAMBDA r : <<r.src, r.dst>>)

GetNodeBandwidthByTrafficTypes(rows, node, size) ==
    Sums({e \in sided(rows) : e.node = node}, LAMBDA e : bucketIn(e.row, size))

GetBandwidthByTrafficTypes(rows, size) ==
    GroupSum(rows, LAMBDA r : bucketIn(r, size), LAMBDA r : r.tx + r.rx)

\* From the table of its own, which is written next to the rows of pairs.
GetBandwidth(d, start, end, size) ==
    GroupSum({<<b, d.bandwidth[b]>> : b \in {x \in DOMAIN d.bandwidth : start <= x /\ x < end}},
             LAMBDA e : (e[1] \div size) * size, LAMBDA e : e[2])

ActiveNodeIDs(rows) == {r.src : r \in rows} \cup {r.dst : r \in rows}

DistinctPairs(rows) == {<<r.src, r.dst>> : r \in rows}

\* Port bytes of several rows, and their sum per protocol class.
portTotals(rows) == FoldSet(LAMBDA r, acc : Plus(acc, r.ports), <<>>, rows)

byClass(f, proto(_)) ==
    [c \in {"tcp", "udp", "other"} |->
        MapThenSumSet(LAMBDA k : f[k], {k \in DOMAIN f : protocolClass(proto(k)) = c})]

GetNodeStats(rows, node) ==
    LET ends == {e \in sided(rows) : e.node = node}
        ports == portTotals({r \in rows : node \in {r.src, r.dst}})
    IN  [tx    |-> MapThenSumSet(LAMBDA e : e.tx, ends),
         rx    |-> MapThenSumSet(LAMBDA e : e.rx, ends),
         peers |-> Sums(ends, LAMBDA e : e.peer),
         proto |-> byClass(ports, LAMBDA k : k[1]),
         ports |-> ports]

(***************************************************************************)
(* Traffic statistics                                                      *)
(***************************************************************************)
\* A row's protocol bytes as a minute row may supply them: from its list of
\* protocols when it has no bytes of its own.
withFallback(row) ==
    [row EXCEPT !.bytes = normalizeProtocolBytes(row.bytes, row.list, row.tx + row.rx)]

\* One bucket per group of rows; protocol sums come from protoRows.
statsOf(rows, protoRows, types, size) ==
    LET bucket(r) == bucketIn(r, size)
        in(group, b) == {r \in group : bucket(r) = b}
        protos(group) == FoldSet(LAMBDA r, acc : Plus(acc, r.bytes), <<>>, group)
    IN  [b \in {bucket(r) : r \in rows} |->
           [types |-> [t \in TrafficTypes |->
                         MapThenSumSet(LAMBDA r : r.tx + r.rx, {r \in in(rows, b) : r.type = t})],
            flows |-> MapThenSumSet(LAMBDA r : r.flows, in(rows, b)),
            pairs |-> Cardinality(DistinctPairs(in(rows, b))),
            proto |-> byClass(protos(in(countedTrafficClause(protoRows, types), b)), LAMBDA p : p),
            ports |-> top(portTotals(in(portAccountingClause(rows, types), b)))]]

\* The single pass over exact rows: an hourly row has no list to fall back on.
singlePassStats(d, plan, types, size) ==
    LET rows == trafficTypeWhereClause(unionPairRows(d, plan), types)
    IN  statsOf(rows, {IF r.kind = "hour" THEN r ELSE withFallback(r) : r \in rows}, types, size)

fallbackRanges_EdgesOnly(plan, legacy) == plan.minutes

fallbackRanges(plan, legacy) == plan.minutes \cup (IF legacy THEN plan.hours ELSE {})

\* The statements: minute rows without bytes are read again for their lists,
\* also those under hourly rows once such a row has been rolled up.
queryTrafficStatsFromRollup(d, plan, types, size) ==
    LET rows == trafficTypeWhereClause(unionPairRows(d, plan), types)
        listed == {r \in trafficTypeWhereClause(minuteRows(d, fallbackRanges(plan, d.legacy)), types) :
                      rowNeedsProtocolFallback(r)}
    IN  statsOf(rows, {r \in rows : r.bytes # <<>>} \cup {withFallback(r) : r \in listed},
                types, size)

queryTrafficStatsFromNodePairs(d, start, end, ranges, types) ==
    LET size == resolveBucketSize(end - start)
        plan == combineHourPlans(ranges, d.mark)
        scan == [minutes |-> ranges, hours |-> {}]
    IN  IF size < hourSeconds \/ plan.hours = {} THEN singlePassStats(d, scan, types, size)
        ELSE IF d.legacy THEN queryTrafficStatsFromRollup(d, plan, types, size)
        ELSE singlePassStats(d, plan, types, size)

\* Stored statistics, with the pairs of a bucket recounted from the rows.
GetTrafficStats(d, rows, start, end) ==
    LET size == resolveBucketSize(end - start)
        stored == {k \in DOMAIN d.stats : start <= k /\ k < end}
        in(b) == {k \in stored : (k \div size) * size = b}
        sum(f(_), b) == MapThenSumSet(f, in(b))
    IN  [b \in {(k \div size) * size : k \in stored} |->
           [types |-> [t \in TrafficTypes |-> sum(LAMBDA k : At(d.stats[k].types, t), b)],
            flows |-> sum(LAMBDA k : d.stats[k].flows, b),
            pairs |-> Max({Cardinality(DistinctPairs({r \in rows : bucketIn(r, size) = b}))}
                          \cup {d.stats[k].pairs : k \in in(b)}),
            proto |-> [c \in {"tcp", "udp", "other"} |-> sum(LAMBDA k : At(d.stats[k].proto, c), b)],
            ports |-> top(FoldSet(LAMBDA k, acc : Plus(acc, d.stats[k].ports), <<>>, in(b)))]]

missingAggregatedRanges_WholeBuckets(coveredBuckets, start, end) ==
    LET size == resolveBucketSize(end - start)
        first == (start \div size) * size
        all == {first + i * size : i \in 0 .. (end - 1 - first) \div size}
    IN  {<<b, b + size>> : b \in all \ coveredBuckets}

\* The spans of the window that no stored bucket covers, adjacent ones joined.
missingAggregatedRanges(coveredBuckets, start, end) ==
    LET size == resolveBucketSize(end - start)
        first == (start \div size) * size
        missing == {first + i * size : i \in 0 .. (end - 1 - first) \div size} \ coveredBuckets
        last(b) == Min({e \in missing : e >= b /\ e + size \notin missing})
    IN  {<<Max({b, start}), Smaller(last(b) + size, end)>> :
            b \in {x \in missing : x - size \notin missing}}

FillMissingTrafficStats(d, start, end, primary) ==
    LET ranges == missingAggregatedRanges(DOMAIN primary, start, end)
    IN  IF ranges = {} THEN <<>> ELSE queryTrafficStatsFromNodePairs(d, start, end, ranges, {})

mergeTrafficStatsBuckets(primary, derived) == primary @@ derived

\* The overview from the store. `mark` is the mark the plan was made with,
\* which is read outside the snapshot of the rows.
loadOverviewBuckets(d, start, end, types, mark) ==
    LET size == resolveBucketSize(end - start)
        stored == GetTrafficStats(d, unionPairRows(d, hourPlan(start, end, size, mark)), start, end)
    IN  IF types # {} THEN queryTrafficStatsFromNodePairs(d, start, end, {<<start, end>>}, types)
        ELSE mergeTrafficStatsBuckets(stored, FillMissingTrafficStats(d, start, end, stored))

(***************************************************************************)
(* New pairs                                                               *)
(***************************************************************************)
ListNewPairs_SelfIsNew(window, prior) ==
    LET fresh == {r \in window : <<r.src, r.dst>> \notin DistinctPairs(prior)}
    IN  [p \in DistinctPairs(fresh) |-> Min({r.bucket : r \in {x \in fresh : <<x.src, x.dst>> = p}})]

\* Pairs of the window that its lookback does not have, with their first
\* minute. A device talking to itself is not a connection.
ListNewPairs(window, prior) ==
    LET fresh == {r \in window : r.src # r.dst /\ <<r.src, r.dst>> \notin DistinctPairs(prior)}
    IN  [p \in DistinctPairs(fresh) |-> Min({r.bucket : r \in {x \in fresh : <<x.src, x.dst>> = p}})]
=============================================================================

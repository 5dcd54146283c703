----------------------------- MODULE TrafficRows -----------------------------
(***************************************************************************)
(* What a batch of flow logs leaves in the tables of one tailnet: minute   *)
(* rows of node pairs, their hourly rollup, bandwidth, bandwidth by node   *)
(* and the network-wide statistics (services/aggregator.go, the upserts of *)
(* database/aggregate_queries.go, hour_rollup.go, Cleanup and the protocol *)
(* backfill of schema.go), as operators on a record of tables.             *)
(*                                                                         *)
(* Unlike PairTables, which counts deliveries, this module keeps what the  *)
(* reads of TrafficReads sum: bytes per direction, flows, bytes per        *)
(* protocol and per port.  Packets follow bytes and are left out, and so   *)
(* are the directional copies of the protocol and port columns.            *)
(***************************************************************************)
EXTENDS HourPlan, FiniteSets, FiniteSetsExt, Functions, TLC

CONSTANT PortLimit      \* ports kept per row and per answer: 20 in the code

ASSUME PortLimitAssumption == PortLimit \in Nat \ {0}

Physical == "physical"
TrafficTypes == {"virtual", "subnet", "exit", Physical}
TCP == 6
UDP == 17
ephemeralPortMin == 32768

minuteOf(t) == (t \div minuteSeconds) * minuteSeconds

(***************************************************************************)
(* Sums                                                                    *)
(***************************************************************************)
\* SELECT key(row), SUM(val(row)) FROM rows GROUP BY key(row)
GroupSum(rows, key(_), val(_)) ==
    [k \in {key(r) : r \in rows} |-> MapThenSumSet(val, {r \in rows : key(r) = k})]

At(f, k) == IF k \in DOMAIN f THEN f[k] ELSE 0

Plus(f, g) == [k \in DOMAIN f \cup DOMAIN g |-> At(f, k) + At(g, k)]

\* Ports <<protocol, port>> by bytes; ties by protocol, then port.
top(ports) ==
    LET before(a, b) == \/ ports[a] > ports[b]
                        \/ ports[a] = ports[b] /\ a[1] < b[1]
                        \/ ports[a] = ports[b] /\ a[1] = b[1] /\ a[2] < b[2]
    IN  Restrict(ports, {k \in DOMAIN ports :
            Cardinality({j \in DOMAIN ports : before(j, k)}) < PortLimit})

(***************************************************************************)
(* Aggregation of a poll's flow logs.  A log names its ends by the ids the *)
(* device cache resolved; `logger` is the node that wrote it.              *)
(***************************************************************************)
servicePort(log) ==
    IF log.dport >= ephemeralPortMin /\ log.sport > 0 /\ log.sport < ephemeralPortMin
    THEN log.sport ELSE log.dport

\* The bytes of a physical log were sent by its writer, not by its source.
sender(log) == IF log.type = Physical THEN log.logger ELSE log.src

isReverse(log) == log.dst < sender(log)

pairKey(log) ==
    IF isReverse(log) THEN <<minuteOf(log.at), log.dst, sender(log), log.type>>
                      ELSE <<minuteOf(log.at), sender(log), log.dst, log.type>>

counted(rows) == {r \in rows : r.type # Physical}

portBytes(logs) ==
    GroupSum({l \in counted(logs) : servicePort(l) > 0},
             LAMBDA l : <<l.proto, servicePort(l)>>, LAMBDA l : l.tx)

txOf(logs) == MapThenSumSet(LAMBDA l : l.tx, logs)

\* Both directions of a pair share a row: tx is what the smaller id sent.
pairRow(logs) ==
    [tx    |-> txOf({l \in logs : ~isReverse(l)}),
     rx    |-> txOf({l \in logs : isReverse(l)}),
     flows |-> Cardinality(logs),
     list  |-> {l.proto : l \in logs},
     bytes |-> GroupSum(logs, LAMBDA l : l.proto, LAMBDA l : l.tx),
     ports |-> top(portBytes(logs))]

\* Bytes by the three classes that the statistics keep of a protocol.
protocolClass(proto) == IF proto = TCP THEN "tcp" ELSE IF proto = UDP THEN "udp" ELSE "other"

statsRow(logs) ==
    [proto |-> GroupSum(counted(logs), LAMBDA l : protocolClass(l.proto), LAMBDA l : l.tx),
     types |-> GroupSum(logs, LAMBDA l : l.type, LAMBDA l : l.tx),
     flows |-> Cardinality(logs),
     pairs |-> Cardinality({<<pairKey(l)[2], pairKey(l)[3]>> : l \in logs}),
     ports |-> top(portBytes(logs))]

\* One more byte series: what a node sent and what it received, without a
\* second count of what it sent to itself.
nodeRow(logs, node) ==
    [tx |-> txOf({l \in logs : sender(l) = node}),
     rx |-> txOf({l \in logs : l.dst = node /\ sender(l) # node})]

Logs(logs, key(_), k) == {l \in logs : key(l) = k}

aggregate_CountsPhysical(logs) ==
    LET bucket(l) == minuteOf(l.at)
        ends(l) == {<<bucket(l), sender(l)>>, <<bucket(l), l.dst>>}
    IN [pairs     |-> [k \in {pairKey(l) : l \in logs} |-> pairRow(Logs(logs, pairKey, k))],
        bandwidth |-> GroupSum(logs, bucket, LAMBDA l : l.tx),
        nodes     |-> [k \in UNION {ends(l) : l \in counted(logs)} |->
                          nodeRow(Logs(counted(logs), bucket, k[1]), k[2])],
        stats     |-> [b \in {bucket(l) : l \in logs} |-> statsRow(Logs(logs, bucket, b))]]

\* The rows of one batch. Physical logs carry bytes the other types count.
aggregate(logs) ==
    LET bucket(l) == minuteOf(l.at)
        ends(l) == {<<bucket(l), sender(l)>>, <<bucket(l), l.dst>>}
    IN [pairs     |-> [k \in {pairKey(l) : l \in logs} |-> pairRow(Logs(logs, pairKey, k))],
        bandwidth |-> GroupSum(counted(logs), bucket, LAMBDA l : l.tx),
        nodes     |-> [k \in UNION {ends(l) : l \in counted(logs)} |->
                          nodeRow(Logs(counted(logs), bucket, k[1]), k[2])],
        stats     |-> [b \in {bucket(l) : l \in logs} |-> statsRow(Logs(logs, bucket, b))]]

(***************************************************************************)
(* The tables                                                              *)
(***************************************************************************)
EmptyTables ==
    [pairs |-> <<>>, hours |-> <<>>, bandwidth |-> <<>>, nodes |-> <<>>, stats |-> <<>>,
     mark |-> NoMark, legacy |-> FALSE, checked |-> NoMark]

\* INSERT of new rows, ON CONFLICT DO UPDATE with merge(stored, new).
Upserted(table, new, merge(_, _)) ==
    [k \in DOMAIN table \cup DOMAIN new |->
        IF k \notin DOMAIN new THEN table[k]
        ELSE IF k \notin DOMAIN table THEN new[k] ELSE merge(table[k], new[k])]

\* The bytes of a row that has only the list of its protocols are divided
\* over that list, with the remainder on its first member.
normalizeProtocolBytes(bytes, list, total) ==
    IF bytes # <<>> \/ list = {} THEN bytes
    ELSE LET share == total \div Cardinality(list)
         IN  [p \in list |-> share + IF p = Min(list) THEN total - share * Cardinality(list) ELSE 0]

normalized(row) ==
    [row EXCEPT !.bytes = normalizeProtocolBytes(row.bytes, row.list, row.tx + row.rx)]

rowNeedsProtocolFallback(row) == row.list # {} /\ row.bytes = <<>>

mergePairRow(a, b) ==
    [tx |-> a.tx + b.tx, rx |-> a.rx + b.rx, flows |-> a.flows + b.flows,
     list |-> a.list \cup b.list, bytes |-> Plus(a.bytes, b.bytes),
     ports |-> top(Plus(a.ports, b.ports))]

mergeNodeRow(a, b) == [tx |-> a.tx + b.tx, rx |-> a.rx + b.rx]

mergeStatsRow(a, b) ==
    [proto |-> Plus(a.proto, b.proto), types |-> Plus(a.types, b.types),
     flows |-> a.flows + b.flows,
     pairs |-> Max({a.pairs, b.pairs}), ports |-> top(Plus(a.ports, b.ports))]

\* A row of node_pair_hours keeps every port, no list of its own, and the
\* first minute that is inside it.
mergeHourRow(a, b) ==
    [tx |-> a.tx + b.tx, rx |-> a.rx + b.rx, flows |-> a.flows + b.flows,
     bytes |-> Plus(a.bytes, b.bytes), ports |-> Plus(a.ports, b.ports),
     min |-> Smaller(a.min, b.min)]

hourKey(key) == <<HourOf(key[1]), key[2], key[3], key[4]>>

hourRow(bucket, row) ==
    [tx |-> row.tx, rx |-> row.rx, flows |-> row.flows, bytes |-> row.bytes,
     ports |-> row.ports, min |-> bucket]

\* mergeMinutesIntoHour and mergeHourDelta: rows of minutes onto their hours.
addMinutes(hours, rows) ==
    LET one(key) == hourKey(key) :> hourRow(key[1], rows[key])
    IN  FoldSet(LAMBDA key, acc : Upserted(acc, one(key), mergeHourRow), hours, DOMAIN rows)

anyLegacy(rows) == \E k \in DOMAIN rows : rowNeedsProtocolFallback(rows[k])

upsertNodePairsTx_LateMinuteStaysOut(d, new) ==
    [d EXCEPT !.pairs = Upserted(@, [k \in DOMAIN new |-> normalized(new[k])], mergePairRow)]

\* A minute that is already rolled up takes its delta in both tables.
upsertNodePairsTx(d, new) ==
    LET rows == [k \in DOMAIN new |-> normalized(new[k])]
        late == Restrict(rows, {k \in DOMAIN rows : k[1] <= d.mark})
    IN  [d EXCEPT !.pairs = Upserted(@, rows, mergePairRow),
                  !.hours = addMinutes(@, late),
                  !.legacy = @ \/ anyLegacy(late)]

upsertBandwidthTx(d, new) == [d EXCEPT !.bandwidth = Plus(@, new)]
upsertNodeBandwidthTx(d, new) == [d EXCEPT !.nodes = Upserted(@, new, mergeNodeRow)]
upsertTrafficStatsTx(d, new) == [d EXCEPT !.stats = Upserted(@, new, mergeStatsRow)]

rollClosedMinutes_ForgetsLegacy(d, closedThrough) ==
    LET pending == {k \in DOMAIN d.pairs : d.mark < k[1] /\ k[1] < floorMinute(closedThrough)}
    IN  IF floorMinute(closedThrough) <= d.mark + minuteSeconds \/ (pending = {} /\ d.mark < 0)
        THEN d
        ELSE [d EXCEPT !.hours = addMinutes(@, Restrict(d.pairs, pending)),
                       !.mark = floorMinute(closedThrough) - minuteSeconds]

\* All chunks of rollNextHourChunk: they end with every closed minute rolled.
rollClosedMinutes(d, closedThrough) ==
    LET through == floorMinute(closedThrough)
        pending == {k \in DOMAIN d.pairs : d.mark < k[1] /\ k[1] < through}
        rows == Restrict(d.pairs, pending)
    IN  IF \/ through <= 0
           \/ through <= d.mark + minuteSeconds
           \/ pending = {} /\ d.mark < 0
        THEN d
        ELSE [d EXCEPT !.hours = addMinutes(@, rows),
                       !.mark = through - minuteSeconds,
                       !.legacy = @ \/ anyLegacy(rows)]

\* The aggregates of a poll or of an object; an object has no poll end (0).
commitBatch(d, logs, pollEnd) ==
    LET a == aggregate(logs)
        pairs == upsertNodePairsTx(d, a.pairs)
        bandwidth == upsertBandwidthTx(pairs, a.bandwidth)
        nodes == upsertNodeBandwidthTx(bandwidth, a.nodes)
        stats == upsertTrafficStatsTx(nodes, a.stats)
    IN  rollClosedMinutes(stats, pollEnd)

(***************************************************************************)
(* Retention and startup                                                   *)
(***************************************************************************)
From(table, bucket(_), cutoff) == Restrict(table, {k \in DOMAIN table : bucket(k) >= cutoff})

pruneHourRollups_KeepsBoundary(d, cutoff) ==
    [d EXCEPT !.hours = Restrict(@, {k \in DOMAIN @ : k[1] + hourSeconds > cutoff})]

\* Hours before the cutoff go; the hour it splits is rebuilt from the minutes
\* that stay.
pruneHourRollups(d, cutoff) ==
    LET boundary == HourOf(cutoff)
        split == cutoff > boundary
        kept == {k \in DOMAIN d.hours : k[1] + hourSeconds > cutoff
                                        /\ ~(split /\ k[1] = boundary)}
        again == {k \in DOMAIN d.pairs : split /\ cutoff <= k[1]
                                         /\ k[1] < Smaller(boundary + hourSeconds,
                                                           d.mark + minuteSeconds)}
    IN  [d EXCEPT !.hours = addMinutes(Restrict(@, kept), Restrict(d.pairs, again))]

Cleanup(d, cutoff) ==
    pruneHourRollups(
        [d EXCEPT !.pairs = From(@, LAMBDA k : k[1], cutoff),
                  !.bandwidth = From(@, LAMBDA b : b, cutoff),
                  !.nodes = From(@, LAMBDA k : k[1], cutoff),
                  !.stats = From(@, LAMBDA b : b, cutoff)], cutoff)

\* Rows of an older build get their protocol bytes when the store opens, once:
\* the pass remembers the newest bucket it has seen.
backfillProtocolBytes(d) ==
    LET newer == {k \in DOMAIN d.pairs : k[1] > d.checked}
    IN  IF newer = {} THEN d
        ELSE [d EXCEPT !.pairs = [k \in DOMAIN @ |-> IF k \in newer THEN normalized(@[k]) ELSE @[k]],
                       !.checked = Max({k[1] : k \in newer})]
=============================================================================

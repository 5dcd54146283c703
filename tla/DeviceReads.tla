----------------------------- MODULE DeviceReads -----------------------------
(***************************************************************************)
(* The reads of stored traffic about a device, which may be stored under   *)
(* several ids: rankings filtered by login, the timeline of a device, its  *)
(* peers, the flows between two devices and the devices of a viewer        *)
(* (database/rank_queries.go, device_timeline.go, mcp_reads.go, viewer.go, *)
(* identity.go).  The stored metadata rows are merged by IdentityMerge,    *)
(* the rows of pairs come from TrafficReads.                               *)
(***************************************************************************)
EXTENDS IdentityMerge, TrafficReads

\* The devices of a login; without a login none match.
matchingDevices(rows, login) ==
    IF login = Blank THEN {} ELSE {d \in mergedDevices(rows) : d.owner = login}

\* The devices that also match the ids a search selected.
narrowByRankFilter(devices, ids) == {d \in devices : d.ids \cap ids # {}}

\* The temporary table search_ids: stored id to the id it is shown under.
searchIDs(devices) ==
    [id \in UNION {d.ids : d \in devices} |->
        canonicalNodeID((CHOOSE d \in devices : id \in d.ids).ids)]

listRankedTalkersFiltered(rows, devices) ==
    LET ids == searchIDs(devices)
    IN  Sums({e \in sided(rows) : e.node \in DOMAIN ids}, LAMBDA e : ids[e.node])

listRankedPairsFiltered(rows, devices) ==
    LET ids == searchIDs(devices)
        shown(id) == IF id \in DOMAIN ids THEN ids[id] ELSE id
    IN  Sums({r \in rows : {r.src, r.dst} \cap DOMAIN ids # {}},
             LAMBDA r : <<shown(r.src), shown(r.dst)>>)

\* The pairs of a login: either end is one of its ids.
viewerNodeClause(pairRows, rows, login) ==
    IF login = Blank THEN pairRows
    ELSE LET ids == viewerNodeIDs(rows, login)
         IN  {r \in pairRows : {r.src, r.dst} \cap ids # {}}

ViewerOwns(rows, login, id) == \E d \in matchingDevices(rows, login) : id \in d.ids

\* Every device of the login, with its totals if it was active.
ListViewerDevices(rows, login, pairRows) ==
    LET talkers == listRankedTalkersFiltered(pairRows, matchingDevices(rows, login))
        idle == [tx |-> 0, rx |-> 0, flows |-> 0]
    IN  [id \in {canonicalNodeID(d.ids) : d \in matchingDevices(rows, login)} |->
            IF id \in DOMAIN talkers THEN talkers[id] ELSE idle]

(***************************************************************************)
(* One device                                                              *)
(***************************************************************************)
\* The stored ids of the device that `id` names, from the rows that share a
\* Tailscale address with it.
deviceAliases(rows, id) ==
    LET self == {r \in rows : r.id = id}
        addresses == UNION {r.ips \cap TailscaleIPs : r \in self}
        near == self \cup {r \in rows : r.ips \cap addresses # {}}
        named == {d \in mergedDevices(near) : id \in d.ids}
    IN  IF self = {} \/ named = {} THEN {id} ELSE (CHOOSE d \in named : TRUE).ids

timelineRows(rows, ids) == {r \in rows : {r.src, r.dst} \cap ids # {}}

queryTimelineBuckets_BothEnds(rows, ids, size) ==
    Sums({e \in sided(rows) : e.node \in ids}, LAMBDA e : <<(e.row.at \div size) * size, e.row.type>>)

\* Bytes per bucket and type. A row between two ids of the device counts once,
\* from its source. The bucket is the row's own.
queryTimelineBuckets(rows, ids, size) ==
    Sums({e \in sided(rows) : e.node \in ids /\ (e.node = e.row.src \/ e.row.src \notin ids)},
         LAMBDA e : <<(e.row.at \div size) * size, e.row.type>>)

queryTimelinePeers(rows, ids) ==
    Sums({e \in sided(rows) : e.node \in ids /\ e.peer \notin ids}, LAMBDA e : e.peer)

GetDeviceTimeline(d, rows, id, start, end, types, mark) ==
    LET size == resolveBucketSize(end - start)
        ids == deviceAliases(rows, id)
        pairRows == timelineRows(countedTrafficClause(
                        unionPairRows(d, hourPlan(start, end, size, mark)), types), ids)
    IN  [ids |-> ids, buckets |-> queryTimelineBuckets(pairRows, ids, size),
         peers |-> queryTimelinePeers(pairRows, ids)]

\* Peers of several ids: a row of one id with itself has no peer.
ListDevicePeers(rows, ids) ==
    Sums({e \in sided(rows) : e.node \in ids /\ e.peer \notin ids}, LAMBDA e : e.peer)

FlowsBetween(rows, srcIDs, dstIDs) ==
    Sums({r \in rows : \/ r.src \in srcIDs /\ r.dst \in dstIDs
                       \/ r.src \in dstIDs /\ r.dst \in srcIDs},
         LAMBDA r : <<r.src, r.dst, r.type>>)

(***************************************************************************)
(* Ids as the handlers show them: by the device cache of the poller.       *)
(***************************************************************************)
resolveNodeID(cache, id) ==
    IF deviceLocked(cache, id) # {} THEN cache.dev[CHOOSE h \in deviceLocked(cache, id) : TRUE].id
    ELSE ResolveIP(cache, id)

\* Rankings of the handlers: rows of one device under several ids are joined.
shownTalkers(rows, cache) == Sums(sided(rows), LAMBDA e : resolveNodeID(cache, e.node))

shownPairs(rows, cache) ==
    Sums(rows, LAMBDA r : <<resolveNodeID(cache, r.src), resolveNodeID(cache, r.dst)>>)

\* Pairs of stored ids, counted after each id is replaced by its device's.
countDistinctPairs(pairs, cache) ==
    Cardinality({<<resolveNodeID(cache, p[1]), resolveNodeID(cache, p[2])>> : p \in pairs})

countDistinctNodes(pairs, cache) ==
    Cardinality({resolveNodeID(cache, id) : id \in UNION {{p[1], p[2]} : p \in pairs}})

\* The counts of the summary that are not sums of buckets.
overviewCounts(rows, cache, buckets) ==
    LET pairs == DistinctPairs(rows)
        busiest == Max({0} \cup {buckets[b].pairs : b \in DOMAIN buckets})
    IN  [pairs |-> IF pairs = {} THEN busiest ELSE countDistinctPairs(pairs, cache),
         nodes |-> countDistinctNodes(pairs, cache)]

mergeNodeDetails_FirstPart(node, parts, cache) ==
    LET part == CHOOSE p \in parts : TRUE
    IN  [tx |-> part.stats.tx, rx |-> part.stats.rx, proto |-> part.stats.proto,
         peers |-> part.stats.peers]

\* The parts of a device's ids: totals add up, peers are joined under the id of
\* their device, and the device is no peer of itself.
mergeNodeDetails(node, parts, cache) ==
    LET peers == UNION {{<<p.id, q, p.stats.peers[q]>> : q \in DOMAIN p.stats.peers} : p \in parts}
        named == {[peer |-> resolveNodeID(cache, e[2]), from |-> e[1], via |-> e[2],
                   tx |-> e[3].tx, rx |-> e[3].rx, flows |-> e[3].flows] : e \in peers}
        sum(f(_)) == MapThenSumSet(f, parts)
    IN  [tx    |-> sum(LAMBDA p : p.stats.tx),
         rx    |-> sum(LAMBDA p : p.stats.rx),
         proto |-> [c \in {"tcp", "udp", "other"} |-> sum(LAMBDA p : p.stats.proto[c])],
         peers |-> Sums({e \in named : e.peer # node}, LAMBDA e : e.peer)]

\* The details of a node: one read for each of the ids the cache has for it.
GetNodeDetailStats(rows, cache, node) ==
    LET ids == EquivalentIDs(cache, node)
    IN  IF Cardinality(ids) > 1
        THEN mergeNodeDetails(node, {[id |-> i, stats |-> GetNodeStats(rows, i)] : i \in ids}, cache)
        ELSE GetNodeStats(rows, node)
=============================================================================

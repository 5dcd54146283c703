----------------------------- MODULE ScopedTools -----------------------------
(***************************************************************************)
(* The MCP tools over stored traffic (mcpserver/query.go): each reads the  *)
(* store, names the stored ids by the device cache, and keeps what is in   *)
(* the viewer's scope (access/scope.go).  Pages and row limits, names and  *)
(* endpoints given as a prefix of addresses are left out; tags are in a    *)
(* scope as owners are.                                                    *)
(***************************************************************************)
EXTENDS DeviceReads

CONSTANT Pseudo     \* stored endpoints that are not devices

\* A scope is a list of owners; without one every device belongs to the view.
Everything == [any |-> TRUE, owners |-> {}]
ScopeOf(owners) == [any |-> FALSE, owners |-> owners]

Matches(scope, device) == scope.any \/ device.owner \in scope.owners

\* The scope of a call: `mine` of a viewer without a scope is everything.
deviceFilter(scope, raw) == IF raw = "all" THEN Everything ELSE scope

\* The cached device behind an id, an alias or an address, if there is one.
deviceEntry(c, id) ==
    IF deviceLocked(c, id) # {} THEN {c.dev[h] : h \in deviceLocked(c, id)}
    ELSE IF id \in DOMAIN c.addrs THEN {c.dev[c.addrs[id]]} ELSE {}

\* The id a stored id is shown under, or nothing when it is out of scope. What
\* the cache does not know is in no scope.
present(c, scope, stored) ==
    LET canonical == resolveNodeID(c, stored)
        entry == IF deviceEntry(c, canonical) # {} THEN deviceEntry(c, canonical)
                 ELSE deviceEntry(c, stored)
    IN  IF stored \in Pseudo THEN {stored}
        ELSE IF entry = {} THEN (IF scope.any THEN {canonical} ELSE {})
        ELSE {e.id : e \in {x \in entry : Matches(scope, x)}}

shownID(c, scope, stored) == CHOOSE id \in present(c, scope, stored) : TRUE

topTalkers_SharedRows(c, scope, rows) ==
    Sums({e \in sided(rows) : present(c, scope, e.node) # {}},
         LAMBDA e : shownID(c, scope, e.node))

\* A pseudo endpoint sums the traffic of everyone, so a scope hides its row.
topTalkers(c, scope, rows) ==
    Sums({e \in sided(rows) : /\ e.node \in Pseudo => scope.any
                              /\ present(c, scope, e.node) # {}},
         LAMBDA e : shownID(c, scope, e.node))

\* Rows with both ends in scope.
bothPresent(c, scope, rows) ==
    {r \in rows : present(c, scope, r.src) # {} /\ present(c, scope, r.dst) # {}}

topPairs(c, scope, rows) ==
    Sums(bothPresent(c, scope, rows),
         LAMBDA r : <<shownID(c, scope, r.src), shownID(c, scope, r.dst)>>)

(***************************************************************************)
(* Tools about given devices                                               *)
(***************************************************************************)
Devices(c) == {c.dev[c.ids[id]] : id \in DOMAIN c.ids}

\* The device that an id or an address names; out of scope it is not found.
findDevice(c, scope, raw) ==
    {e \in Devices(c) : (e.id = raw \/ e.node = raw \/ raw \in e.ips) /\ Matches(scope, e)}

knownDevice(c, raw) == findDevice(c, Everything, raw) # {}

equivalentIDs(c, id, addrs) == EquivalentIDs(c, id) \cup addrs

\* The stored ids of an endpoint. Without a scope it need not be a device.
endpointIDs(c, scope, raw) ==
    IF findDevice(c, scope, raw) # {}
    THEN LET e == CHOOSE x \in findDevice(c, scope, raw) : TRUE
         IN  equivalentIDs(c, e.id, e.ips)
    ELSE IF knownDevice(c, raw) \/ ~scope.any THEN {}
    ELSE IF ResolveIP(c, raw) # raw THEN equivalentIDs(c, ResolveIP(c, raw), {raw})
    ELSE {raw}

flowsBetween(c, scope, rows, a, b) ==
    FlowsBetween(bothPresent(c, scope, rows), endpointIDs(c, scope, a), endpointIDs(c, scope, b))

devicePeers_WithoutAddresses(c, scope, rows, device) ==
    LET peers == ListDevicePeers(rows, equivalentIDs(c, device.id, {}))
    IN  Restrict(peers, {p \in DOMAIN peers : present(c, scope, p) # {}})

\* Peers by their stored ids, of which one device may have several.
devicePeers(c, scope, rows, device) ==
    LET peers == ListDevicePeers(rows, equivalentIDs(c, device.id, device.ips))
    IN  Restrict(peers, {p \in DOMAIN peers : present(c, scope, p) # {}})

\* Rows of the types that count, read once for each id of the device. Physical
\* bytes count only when nothing else is asked for.
deviceTimeline(c, rows, types, device, size) ==
    LET asked == IF types = {} THEN TrafficTypes \ {Physical} ELSE types
        sums == IF asked = {Physical} THEN asked ELSE asked \ {Physical}
        ids == equivalentIDs(c, device.id, {})
    IN  Sums({e \in sided(trafficTypeWhereClause(rows, sums)) : e.node \in ids},
             LAMBDA e : bucketIn(e.row, size))

\* Pairs of the window whose devices the lookback does not pair. The tool lists
\* one entry for each stored pair, here they are a set.
newConnections(c, scope, window, prior) ==
    LET seen == {<<resolveNodeID(c, p[1]), resolveNodeID(c, p[2])>> : p \in DistinctPairs(prior)}
        pairs == {<<shownID(c, scope, r.src), shownID(c, scope, r.dst)>> :
                     r \in bothPresent(c, scope, window)}
    IN  {p \in pairs \ seen : p[1] # p[2]}

(***************************************************************************)
(* What a scope may show                                                   *)
(***************************************************************************)
\* The part of an answer that belongs to a scope: devices that match it. A pair is
\* in it with both ends, of which one may be an endpoint that is no device.
inScope(c, scope, n) == scope.any \/ \E e \in deviceEntry(c, n) : Matches(scope, e)
pairInScope(c, scope, k) == \A n \in {k[1], k[2]} : inScope(c, scope, n) \/ n \in Pseudo

\* A scope shows that part of the answers without a scope, with the same sums, and no
\* new connection is one that the rows before had.
ShowsItsPart(c, scope, rows, window, prior) ==
    LET all == topTalkers(c, Everything, rows)
        pairs == topPairs(c, Everything, rows)
        new == newConnections(c, Everything, window, prior)
        had == DOMAIN topPairs(c, Everything, prior)
    IN  /\ topTalkers(c, scope, rows) = Restrict(all, {n \in DOMAIN all : inScope(c, scope, n)})
        /\ topPairs(c, scope, rows)
             = Restrict(pairs, {k \in DOMAIN pairs : pairInScope(c, scope, k)})
        /\ newConnections(c, scope, window, prior) = {k \in new : pairInScope(c, scope, k)}
        /\ new \cap had = {}
=============================================================================

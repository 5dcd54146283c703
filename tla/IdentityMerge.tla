--------------------------- MODULE IdentityMerge ---------------------------
(***************************************************************************)
(* The merge of node_metadata rows into devices (database/identity.go), by *)
(* which the reads of the store find the devices of a login or of a search *)
(* and name the ends of a pair. It follows the same idea as the device     *)
(* cache, over stored rows and with its own rules.                         *)
(*                                                                         *)
(* A device is a record; devices are numbered in the order in which rows   *)
(* make them, and byID and byIP hold these numbers. Hostname, name and tags *)
(* are merged as the owner and the addresses are.                          *)
(***************************************************************************)
EXTENDS DeviceCache

\* A set in an order: each element has a place after those that come before it.
InOrder(S, before(_, _)) ==
    [i \in 1 .. Cardinality(S) |->
        CHOOSE x \in S : Cardinality({y \in S : before(y, x)}) = i - 1]

\* Stable ids first, then by id.
metadataOrder(rows) ==
    InOrder(rows, LAMBDA a, b :
        \/ isStableNodeID(a.id) /\ ~isStableNodeID(b.id)
        \/ (isStableNodeID(a.id) <=> isStableNodeID(b.id)) /\ a.id < b.id)

canonicalNodeID(ids) ==
    LET pool == IF ids \cap StableIds # {} THEN ids \cap StableIds ELSE ids
    IN  CHOOSE id \in pool : \A other \in pool : id <= other

deviceFromRow(row) ==
    [ids |-> {row.id}, owner |-> row.owner, ips |-> row.ips,
     stable    |-> IF isStableNodeID(row.id) THEN row.id ELSE Blank,
     apiLegacy |-> IF isStableNodeID(row.id) THEN Blank ELSE row.id]

identityConflict_StableOnly(existing, id) ==
    isStableNodeID(id) /\ existing.stable # Blank /\ existing.stable # id

identityConflict(existing, id) ==
    IF isStableNodeID(id) THEN existing.stable # Blank /\ existing.stable # id
    ELSE existing.apiLegacy # Blank /\ existing.apiLegacy # id

\* The device a row belongs to: the one that has its id, or the one behind
\* the first of its addresses that does not contradict it. Addresses are
\* numbered in the order in which a row lists them.
matchDevice(m, row) ==
    LET hits == {x \in row.ips \cap TailscaleIPs :
                    x \in DOMAIN m.byIP /\ ~identityConflict(m.devices[m.byIP[x]], row.id)}
    IN  IF row.id \in DOMAIN m.byID THEN {m.byID[row.id]}
        ELSE {m.byIP[a] : a \in {x \in hits : \A y \in hits : x <= y}}

indexDevice(m, n) ==
    LET d == m.devices[n]
        taken(a) == /\ a \in DOMAIN m.byIP /\ m.byIP[a] # n
                    /\ m.devices[m.byIP[a]].stable # Blank /\ d.stable = Blank
    IN  [m EXCEPT !.byID = Over([id \in d.ids |-> n], @),
                  !.byIP = Over([a \in {x \in d.ips \cap TailscaleIPs : ~taken(x)} |-> n], @)]

mergeDevice(m, n, row) ==
    LET fill(d) == [d EXCEPT
            !.owner = IF @ = Blank THEN row.owner ELSE @,
            !.ips = @ \cup row.ips,
            !.ids = @ \cup {row.id},
            !.stable = IF row.id \notin d.ids /\ isStableNodeID(row.id) /\ @ = Blank
                       THEN row.id ELSE @,
            !.apiLegacy = IF row.id \notin d.ids /\ ~isStableNodeID(row.id) /\ @ = Blank
                          THEN row.id ELSE @]
    IN  indexDevice([m EXCEPT !.devices[n] = fill(@)], n)

mergeRow(m, row) ==
    LET found == matchDevice(m, row)
        n == Len(m.devices) + 1
    IN  IF found # {}
        THEN mergeDevice(m, CHOOSE k \in found : TRUE, row)
        ELSE indexDevice([m EXCEPT !.devices = Append(@, deviceFromRow(row))], n)

mergeMetadata(rows) ==
    FoldLeft(mergeRow, [devices |-> <<>>, byID |-> <<>>, byIP |-> <<>>], metadataOrder(rows))

\* The devices of mergeMetadata, once each.
mergedDevices(rows) == ToSet(mergeMetadata(rows).devices)

\* The ids whose pairs belong to a login: the "me" scope and the user filter.
viewerNodeIDs(rows, user) ==
    UNION {d.ids : d \in {x \in mergedDevices(rows) : x.owner = user}}
=============================================================================

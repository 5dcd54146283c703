---------------------------- MODULE DeviceCache ----------------------------
(***************************************************************************)
(* The device cache of a poller (services/device_cache.go) as operators on *)
(* a record of its maps. One node may be named by its stable id, by its    *)
(* numeric id and by its addresses, and three sources name it: the device  *)
(* list of the API, node_metadata rows and the nodes inside flow logs.     *)
(*                                                                         *)
(* The maps of the code hold pointers. Here an entry has a handle, and     *)
(* `ids` and `addrs` hold handles, so that a map that still points to an   *)
(* entry other maps have dropped can be told apart. The slices of aliases  *)
(* and addresses are sets: no caller depends on their order. The           *)
(* descriptive attributes are represented by the owner.                    *)
(***************************************************************************)
EXTENDS Naturals, FiniteSets, Sequences, SequencesExt

CONSTANTS
    StableIds,      \* ids with the suffix CNTRL
    NumericIds,     \* every other id
    Addresses,      \* addresses of devices
    TailscaleIPs,   \* those inside the ranges isTailscaleIP accepts
    Blank           \* the empty string: no id, no owner

NodeIds == StableIds \cup NumericIds

ASSUME IdAssumption ==
    /\ NodeIds \subseteq Nat \ {0}
    /\ StableIds \cap NumericIds = {}
    /\ Blank = 0
    /\ TailscaleIPs \subseteq Addresses

Never == 0      \* the zero time

EmptyCache == [dev |-> <<>>, ids |-> <<>>, addrs |-> <<>>, aliases |-> <<>>]

isStableNodeID(id) == id \in StableIds

\* Any handle no entry has.
FreshHandle(c) ==
    CHOOSE h \in 1 .. Cardinality(DOMAIN c.dev) + 1 : h \notin DOMAIN c.dev

\* An entry no map points to is garbage.
Collected(c) ==
    LET live == {c.ids[i] : i \in DOMAIN c.ids} \cup {c.addrs[a] : a \in DOMAIN c.addrs}
    IN  [c EXCEPT !.dev = [h \in DOMAIN c.dev \cap live |-> c.dev[h]]]

Put(f, key, value) == [k \in DOMAIN f \cup {key} |-> IF k = key THEN value ELSE f[k]]
Over(f, g) == [k \in DOMAIN f \cup DOMAIN g |-> IF k \in DOMAIN f THEN f[k] ELSE g[k]]
Drop(f, keys) == [k \in DOMAIN f \ keys |-> f[k]]

(***************************************************************************)
(* Lookups                                                                 *)
(***************************************************************************)
deviceLocked(c, id) ==
    CASE id \in DOMAIN c.ids -> {c.ids[id]}
      [] id \notin DOMAIN c.ids /\ id \in DOMAIN c.aliases /\ c.aliases[id] \in DOMAIN c.ids
           -> {c.ids[c.aliases[id]]}
      [] OTHER -> {}

\* The ids under which callers query stored rows of the device named `id`.
EquivalentIDs(c, id) ==
    IF deviceLocked(c, id) = {} THEN {id}
    ELSE LET e == c.dev[CHOOSE h \in deviceLocked(c, id) : TRUE]
         IN  {e.id} \cup {a \in e.aliases : a \in DOMAIN c.aliases /\ c.aliases[a] = e.id}

ResolveIP(c, addr) == IF addr \in DOMAIN c.addrs THEN c.dev[c.addrs[addr]].id ELSE addr

(***************************************************************************)
(* The maps                                                                *)
(***************************************************************************)
aliasLocked(c, alias, canonical) ==
    IF \/ alias = Blank \/ canonical = Blank \/ alias = canonical
       \/ alias \in DOMAIN c.ids
       \/ alias \in DOMAIN c.aliases /\ c.aliases[alias] = canonical
    THEN c
    ELSE LET n == [c EXCEPT !.aliases = Put(@, alias, canonical)]
         IN  IF canonical \in DOMAIN c.ids
             THEN [n EXCEPT !.dev[c.ids[canonical]].aliases = @ \cup {alias}] ELSE n

keepsAddress_LastWins(c, addr, h) == FALSE

\* Whether mapIPLocked leaves an address where it is: a listed device keeps it
\* against a flow-only one, and of two flow-only ones the one seen later has it.
keepsAddress(c, addr, h) ==
    /\ addr \in DOMAIN c.addrs
    /\ c.addrs[addr] # h
    /\ ~c.dev[h].listed
    /\ LET current == c.dev[c.addrs[addr]]
       IN  current.listed \/ current.seen > c.dev[h].seen

\* mapIPLocked for each of several addresses: they do not affect each other.
mapIPs(c, addrs, h) ==
    [c EXCEPT !.addrs = [a \in DOMAIN @ \cup addrs |->
                            IF a \in addrs /\ ~keepsAddress(c, a, h) THEN h ELSE @[a]]]

rekeyLocked_ForgetsAliases(c, h, newID) ==
    aliasLocked([c EXCEPT !.ids = Put(Drop(@, {c.dev[h].id}), newID, h),
                          !.dev[h].id = newID],
                c.dev[h].id, newID)

rekeyLocked(c, h, newID) ==
    LET old  == c.dev[h].id
        kept == {a \in c.dev[h].aliases :
                    a # newID /\ a \in DOMAIN c.aliases /\ c.aliases[a] = old}
        moved == [c EXCEPT
                    !.ids = Put(Drop(@, {old}), newID, h),
                    !.dev[h] = [@ EXCEPT !.id = newID, !.aliases = kept],
                    !.aliases = [a \in DOMAIN @ \ {newID} |->
                                    IF a \in kept THEN newID ELSE @[a]]]
    IN  aliasLocked(moved, old, newID)

preferredID(current, incoming) ==
    IF isStableNodeID(incoming) /\ ~isStableNodeID(current) THEN incoming ELSE current

(***************************************************************************)
(* Matching and merging                                                    *)
(***************************************************************************)
identitiesConflict_StableOnly(existing, incoming, legacy) ==
    \E id \in {incoming.id, legacy} \cap StableIds : existing.node \notin {Blank, id}

\* An address alone never merges two stable ids, nor a numeric id other than
\* the one the device list reported for that device.
identitiesConflict(existing, incoming, legacy) ==
    LET stable == IF existing.node = Blank /\ isStableNodeID(existing.id)
                  THEN existing.id ELSE existing.node
    IN  \E id \in {incoming.id, legacy} \ {Blank} :
           IF isStableNodeID(id)
           THEN stable # Blank /\ stable # id
           ELSE existing.apiLegacy # Blank /\ existing.apiLegacy # id

\* Matches by address, in the order of the addresses: any of them may be first.
addressMatches(c, incoming, legacy) ==
    {c.addrs[a] : a \in {x \in incoming.ips \cap TailscaleIPs :
        /\ x \in DOMAIN c.addrs
        /\ ~identitiesConflict(c.dev[c.addrs[x]], incoming, legacy)}}

matchLocked(c, incoming, legacy) ==
    CASE deviceLocked(c, incoming.id) # {} -> deviceLocked(c, incoming.id)
      [] deviceLocked(c, incoming.id) = {} /\ deviceLocked(c, legacy) # {} -> deviceLocked(c, legacy)
      [] OTHER -> addressMatches(c, incoming, legacy)

mergeLocked(c, h, incoming, legacy) ==
    LET old == c.dev[h]
        filled == [old EXCEPT
            !.owner = IF @ = Blank THEN incoming.owner ELSE @,
            !.node  = IF @ = Blank THEN incoming.node ELSE @,
            !.seen  = IF incoming.seen > @ THEN incoming.seen ELSE @,
            !.ips   = IF old.listed THEN @ ELSE @ \cup incoming.ips]
        c1 == [c EXCEPT !.dev[h] = filled]
        c2 == IF old.listed THEN mapIPs(c1, incoming.ips, h) ELSE c1
        next == preferredID(old.id, incoming.id)
        c3 == IF next # old.id THEN rekeyLocked(c2, h, next) ELSE c2
        c4 == [c3 EXCEPT !.dev[h].node = IF @ = Blank /\ isStableNodeID(next) THEN next ELSE @]
        c5 == aliasLocked(aliasLocked(c4, incoming.id, next), legacy, next)
    IN  mapIPs(c5, filled.ips, h)

insertLocked(c, incoming, legacy) ==
    LET h == FreshHandle(c)
        e == [incoming EXCEPT !.node =
                 IF @ = Blank /\ isStableNodeID(incoming.id) THEN incoming.id ELSE @]
        c1 == [c EXCEPT !.dev = Put(@, h, e), !.ids = Put(@, incoming.id, h)]
    IN  mapIPs(aliasLocked(c1, legacy, incoming.id), e.ips, h)

\* The first address that matches decides, and flow logs order addresses as they
\* like; the lowest handle stands for it.
adoptLocked(c, incoming, legacy) ==
    IF incoming.id = Blank THEN c
    ELSE LET found == matchLocked(c, incoming, legacy)
         IN  Collected(IF found = {} THEN insertLocked(c, incoming, legacy)
                       ELSE mergeLocked(c, CHOOSE h \in found : \A g \in found : h <= g,
                                        incoming, legacy))

(***************************************************************************)
(* The operations                                                          *)
(***************************************************************************)
listedEntry(d) ==
    [id |-> d.id, node |-> IF isStableNodeID(d.id) THEN d.id ELSE Blank,
     owner |-> d.owner, ips |-> d.ips, listed |-> TRUE, seen |-> Never,
     apiLegacy |-> d.legacy, aliases |-> {}]

addDevice(c, d) ==
    LET h == FreshHandle(c)
        c1 == aliasLocked([c EXCEPT !.dev = Put(@, h, listedEntry(d)), !.ids = Put(@, d.id, h)],
                          d.legacy, d.id)
    IN  [c1 EXCEPT !.addrs = Over([a \in d.ips |-> h], @)]

\* The API's device list replaces the cache.
Update(devices) == Collected(FoldLeft(addDevice, EmptyCache, devices))

flowEntry(id, owner, ips, seen) ==
    [id |-> id, node |-> Blank, owner |-> owner, ips |-> ips, listed |-> FALSE,
     seen |-> seen, apiLegacy |-> Blank, aliases |-> {}]

\* A node inside a flow log: `nodeId` is its id if it has one, else `id` is.
flowNodeIDs(node) ==
    IF node.nodeId = Blank THEN [id |-> node.id, legacy |-> Blank]
    ELSE [id |-> node.nodeId, legacy |-> IF node.id = node.nodeId THEN Blank ELSE node.id]

UpsertFromFlowLogMetadata(c, node, now) ==
    LET n == flowNodeIDs(node)
    IN  adoptLocked(c, flowEntry(n.id, node.owner, node.ips, now), n.legacy)

\* Rows of node_metadata, in the order in which they are read.
UpsertNodeMetadata(c, rows) ==
    FoldLeft(LAMBDA acc, r : adoptLocked(acc, flowEntry(r.id, r.owner, r.ips, r.updated), Blank),
             c, rows)

PruneFlowOnly_KeepsAddresses(c, retention, now) ==
    LET gone == {id \in DOMAIN c.ids :
                    LET e == c.dev[c.ids[id]]
                    IN  ~e.listed /\ e.seen # Never /\ e.seen + retention < now}
    IN  Collected([c EXCEPT !.ids = Drop(@, gone)])

PruneFlowOnly_AtCutoff(c, retention, now) ==
    LET gone == {id \in DOMAIN c.ids :
                    LET e == c.dev[c.ids[id]]
                    IN  ~e.listed /\ e.seen # Never /\ e.seen + retention <= now}
    IN  Collected([c EXCEPT !.ids = Drop(@, gone),
                            !.aliases = [a \in {x \in DOMAIN @ : @[x] \notin gone} |-> @[a]],
                            !.addrs = [a \in {x \in DOMAIN @ : c.dev[@[x]].id \notin gone} |-> @[a]]])

\* Flow-only devices not seen since the cutoff go, with their aliases and with
\* the addresses that still point to them.
PruneFlowOnly(c, retention, now) ==
    IF retention = 0 THEN c
    ELSE LET gone == {id \in DOMAIN c.ids :
                        LET e == c.dev[c.ids[id]]
                        IN  ~e.listed /\ e.seen # Never /\ e.seen + retention < now}
             lost == gone \cup {a \in DOMAIN c.aliases :
                        \E id \in gone : a \in c.dev[c.ids[id]].aliases /\ c.aliases[a] = id}
             free == {a \in DOMAIN c.addrs :
                        \E id \in gone : a \in c.dev[c.ids[id]].ips /\ c.addrs[a] = c.ids[id]}
         IN  Collected([c EXCEPT !.ids = Drop(@, gone),
                                 !.aliases = Drop(@, lost),
                                 !.addrs = Drop(@, free)])
=============================================================================

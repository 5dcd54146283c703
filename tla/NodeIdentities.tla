--------------------------- MODULE NodeIdentities ---------------------------
(***************************************************************************)
(* Who is who over time: the poller's refresh of its device cache, the     *)
(* rows of node_metadata and their retention, and the hydration of objects *)
(* that were ingested without their node identities. One goroutine runs    *)
(* the refreshes, polls and cleanups; a step is a call to the API, one     *)
(* transaction, or the read of one object.                                 *)
(*                                                                         *)
(* Time is counted in poll intervals. At MaxTime the clock stops and the   *)
(* ticker goes on.                                                         *)
(***************************************************************************)
EXTENDS IdentityMerge

CONSTANTS
    DeviceLists,            \* what the devices API may answer, as sequences
    Objects,                \* keys of flow-log objects, naturals in the order of their times
    Content,                \* per object, the nodes of its lines, in order; of an unreadable
                            \* one, those of the lines before the one that cannot be decoded
    Arrives,                \* per object, the tick from which it is listed
    Unreadable,             \* objects whose body cannot be read
    MaxObjects,             \* how many objects one poll hydrates
    DeviceCacheRefresh, Rewrite, Retention,
    MaxTime, MaxFaults, MaxCrashes, MaxListChanges

ASSUME TimesAssumption ==
    /\ {DeviceCacheRefresh, Rewrite, Retention, MaxTime, MaxObjects} \subseteq Nat
    /\ Objects \subseteq Nat
    /\ IsFiniteSet(Objects) /\ IsFiniteSet(NodeIds)

\* What the API answers: preferStableDeviceID gives a device its stable id and keeps
\* the numeric one as the legacy id, and a list names a node once.
Devices == UNION {ToSet(list) : list \in DeviceLists}

ASSUME ListsAssumption ==
    /\ \A list \in DeviceLists : list \in Seq(ToSet(list))
    /\ Devices \subseteq [id : NodeIds, legacy : NumericIds \cup {Blank}, owner : Nat,
                          ips : SUBSET Addresses]
    /\ \A d \in Devices : d.legacy # Blank => isStableNodeID(d.id)
    /\ \A list \in DeviceLists : \A i, j \in DOMAIN list :
          /\ list[i].id = list[j].id => i = j
          /\ list[i].id # list[j].legacy

\* What logs say: a node is named by one id, or by its stable id and its numeric one.
LogNodes == UNION {ToSet(Content[k]) : k \in Objects}

ASSUME LogsAssumption ==
    /\ \A k \in Objects : Content[k] \in Seq(ToSet(Content[k]))
    /\ LogNodes \subseteq [nodeId : NodeIds \cup {Blank}, id : NodeIds \cup {Blank},
                           owner : Nat, ips : SUBSET Addresses]
    /\ \A n \in LogNodes : n.nodeId # Blank /\ n.id # Blank /\ n.id # n.nodeId
                             => isStableNodeID(n.nodeId) /\ ~isStableNodeID(n.id)

\* The two ids of a node, wherever both are named: Tailscale gives a node one of each.
TwoIds == {<<d.id, d.legacy>> : d \in {x \in Devices : x.legacy # Blank}}
          \cup {<<n.nodeId, n.id>> : n \in {x \in LogNodes :
                    x.nodeId # Blank /\ x.id # Blank /\ x.id # x.nodeId}}

ASSUME TwoIdsAssumption == \A p, q \in TwoIds : p[1] = q[1] <=> p[2] = q[2]

VARIABLES
    now,
    api,            \* the device list the API would answer
    cache,          \* the device cache
    lastRefresh,    \* its lastRefresh
    stored,         \* storedIdentities and storedIdentitiesAt
    db,             \* node_metadata, ingested_objects, object_metadata_nodes, pairs
    pc, booting,    \* where the poller's goroutine is
    todo,           \* objects this poll still has to hydrate
    loaded,         \* since the cache was last replaced, the rows were loaded into it
    spent,          \* faults, crashes and list changes so far
    persisted       \* history: when the identities of the list were last written

memory == <<cache, lastRefresh, stored>>
vars == <<now, api, cache, lastRefresh, stored, db, pc, booting, todo, loaded, spent,
          persisted>>

(***************************************************************************)
(* The tables                                                              *)
(***************************************************************************)
\* The upsert of one row. A blank owner leaves the stored one. So does an empty
\* list of addresses, unless it comes from the device list, where it is null.
upsertNode(meta, row, fromList) ==
    LET had == row.id \in DOMAIN meta
    IN  [owner |-> IF row.owner = Blank /\ had THEN meta[row.id].owner ELSE row.owner,
         ips   |-> IF row.ips = {} /\ ~fromList /\ had THEN meta[row.id].ips ELSE row.ips,
         updated |-> now]

\* The rows of a transaction are of different nodes: their order does not matter.
upsertNodeMetadataTx(meta, rows, fromList) ==
    [id \in DOMAIN meta \cup {r.id : r \in rows} |->
        IF \E r \in rows : r.id = id
        THEN upsertNode(meta, CHOOSE r \in rows : r.id = id, fromList)
        ELSE meta[id]]

\* Rows that one object gives: nodes with a nodeId, a later line over an earlier.
parseNodeMetadata(key) ==
    LET lines == Content[key]
        last == {i \in DOMAIN lines :
                    /\ lines[i].nodeId # Blank
                    /\ \A j \in DOMAIN lines : lines[j].nodeId = lines[i].nodeId => j <= i}
    IN  {[id |-> lines[i].nodeId, owner |-> lines[i].owner, ips |-> lines[i].ips,
          updated |-> Never] : i \in last}

objectMetadataIDs(key) == {r.id : r \in parseNodeMetadata(key)}

recordObjectMetadataTx_NoMark(d, key) ==
    [d EXCEPT !.index = @ \cup {<<key, id>> : id \in objectMetadataIDs(key)}]

recordObjectMetadataTx(d, key) ==
    [d EXCEPT !.index = @ \cup {<<key, id>> : id \in objectMetadataIDs(key)},
              !.objects[key].hydrated = TRUE]

needsMetadata(d) ==
    {k \in DOMAIN d.objects :
        \/ ~d.objects[k].hydrated
        \/ \E id \in NodeIds : <<k, id>> \in d.index /\ id \notin DOMAIN d.meta}

\* Oldest first, at most MaxObjects.
GetObjectsNeedingMetadata(d) ==
    LET ordered == InOrder(needsMetadata(d), LAMBDA a, b :
            \/ d.objects[a].at < d.objects[b].at
            \/ d.objects[a].at = d.objects[b].at /\ a < b)
    IN  SubSeq(ordered, 1, IF Len(ordered) < MaxObjects THEN Len(ordered) ELSE MaxObjects)

\* The ids the pairs of an object name: its addresses as the cache resolves them.
pairNames(c, key) ==
    {ResolveIP(c, a) : a \in UNION {n.ips : n \in ToSet(Content[key])}} \cap NodeIds

\* Retention: old pairs, the index of old objects, the objects, and identities
\* not refreshed since that no remaining pair names.
Cleanup(d) ==
    LET expired(t) == t + Retention < now
        pairs == [id \in {i \in DOMAIN d.pairs : ~expired(d.pairs[i])} |-> d.pairs[id]]
        old == {k \in DOMAIN d.objects : expired(d.objects[k].at)}
    IN  IF Retention = 0 THEN d
        ELSE [d EXCEPT !.pairs = pairs,
                       !.index = {e \in @ : e[1] \notin old},
                       !.objects = Drop(@, old),
                       !.meta = Drop(@, {id \in DOMAIN @ :
                                   expired(@[id].updated) /\ id \notin DOMAIN pairs})]

(***************************************************************************)
(* The poller                                                              *)
(***************************************************************************)
NoIdentities == [known |-> <<>>, at |-> Never]

\* Databases an upgrade may find: an object ingested before hydration existed, or
\* one whose identities were lost.
Init ==
    /\ now = 1
    /\ api \in DeviceLists
    /\ cache = EmptyCache /\ lastRefresh = Never /\ stored = NoIdentities
    /\ \E old \in SUBSET {k \in Objects : Arrives[k] = Never}, hydrated \in BOOLEAN :
          db = [meta |-> <<>>, pairs |-> <<>>,
                objects |-> [k \in old |-> [hydrated |-> hydrated, at |-> 1]],
                index |-> IF hydrated THEN {e \in old \X NodeIds : e[2] \in objectMetadataIDs(e[1])}
                          ELSE {}]
    /\ pc = "refresh" /\ booting = TRUE /\ todo = <<>> /\ loaded = FALSE
    /\ spent = [faults |-> 0, crashes |-> 0, lists |-> 0] /\ persisted = Never

Fault ==
    /\ spent.faults < MaxFaults
    /\ spent' = [spent EXCEPT !.faults = @ + 1]

NeedsRefresh == now - lastRefresh > DeviceCacheRefresh

\* At startup a cleanup comes between the refresh and the first poll.
afterRefresh == IF booting THEN "cleanup" ELSE "poll"

\* The poll ticker, or a manual trigger.
Tick ==
    /\ pc = "idle"
    /\ now' = IF now < MaxTime THEN now + 1 ELSE now
    /\ pc' = IF now' - lastRefresh > DeviceCacheRefresh THEN "refresh" ELSE "poll"
    /\ UNCHANGED <<api, memory, db, booting, todo, loaded, spent, persisted>>

FetchDevices ==
    /\ pc = "refresh"
    /\ cache' = Update(api) /\ lastRefresh' = now
    /\ loaded' = FALSE
    /\ pc' = "persist"
    /\ UNCHANGED <<now, api, stored, db, booting, todo, spent, persisted>>

FetchFails ==
    /\ pc = "refresh" /\ Fault
    /\ pc' = afterRefresh
    /\ UNCHANGED <<now, api, memory, db, booting, todo, loaded, persisted>>

full_Once == stored.at = Never

\* The identities of the list that GetDevices answered; api stays put during a
\* refresh (see ListChanges). The whole list once per Rewrite, else what changed.
full == stored.at = Never \/ now - stored.at >= Rewrite
fingerprint(d) == <<d.owner, d.ips>>
listedRows(ids) ==
    {[id |-> d.id, owner |-> d.owner, ips |-> d.ips] : d \in {e \in ToSet(api) : e.id \in ids}}

persistDeviceIdentities ==
    LET changed == {r.id : r \in {e \in ToSet(api) :
                        \/ full \/ e.id \notin DOMAIN stored.known
                        \/ stored.known[e.id] # fingerprint(e)}}
    IN  /\ pc = "persist"
        /\ db' = [db EXCEPT !.meta = upsertNodeMetadataTx(@, listedRows(changed), TRUE)]
        /\ stored' = [known |-> [id \in {d.id : d \in ToSet(api)} |->
                                    fingerprint(CHOOSE d \in ToSet(api) : d.id = id)],
                      at |-> IF full THEN now ELSE stored.at]
        /\ persisted' = now
        /\ pc' = "load"
        /\ UNCHANGED <<now, api, cache, lastRefresh, booting, todo, loaded, spent>>

PersistFails ==
    /\ pc = "persist" /\ Fault
    /\ pc' = "load"
    /\ UNCHANGED <<now, api, memory, db, booting, todo, loaded, persisted>>

\* The rows in any order, then the pruning.
LoadMetadata ==
    /\ pc = "load"
    /\ \E rows \in SetToSeqs({[id |-> id, owner |-> db.meta[id].owner, ips |-> db.meta[id].ips,
                               updated |-> db.meta[id].updated] : id \in DOMAIN db.meta}) :
          cache' = PruneFlowOnly(UpsertNodeMetadata(cache, rows), Retention, now)
    /\ lastRefresh' = now
    /\ loaded' = TRUE
    /\ pc' = afterRefresh
    /\ UNCHANGED <<now, api, stored, db, booting, todo, spent, persisted>>

LoadFails ==
    /\ pc = "load" /\ Fault
    /\ pc' = afterRefresh
    /\ UNCHANGED <<now, api, memory, db, booting, todo, loaded, persisted>>

\* The cleanup ticker, or the cleanup before the first poll.
CleanUp ==
    /\ pc = "cleanup" \/ pc = "idle"
    /\ db' = Cleanup(db)
    /\ cache' = PruneFlowOnly(cache, Retention, now)
    /\ pc' = IF pc = "cleanup" THEN "poll" ELSE "idle"
    /\ UNCHANGED <<now, api, lastRefresh, stored, booting, todo, loaded, spent, persisted>>

CleanupFails ==
    /\ pc = "cleanup" /\ Fault
    /\ pc' = "poll"
    /\ UNCHANGED <<now, api, memory, db, booting, todo, loaded, persisted>>

StartPoll ==
    /\ pc = "poll"
    /\ todo' = GetObjectsNeedingMetadata(db)
    /\ pc' = "hydrate" /\ booting' = FALSE
    /\ UNCHANGED <<now, api, memory, db, loaded, spent, persisted>>

\* Reading the first n lines of an object tells the cache about their nodes.
readLines(c, key, n) ==
    FoldLeft(LAMBDA acc, node : UpsertFromFlowLogMetadata(acc, node, now), c,
             SubSeq(Content[key], 1, n))
touchedBy(n) == IF n > 0 THEN now ELSE lastRefresh

\* An object read in full: its nodes line by line, then as rows, in any order.
readObject(key) ==
    /\ key \notin Unreadable
    /\ \E rows \in SetToSeqs(parseNodeMetadata(key)) :
          cache' = UpsertNodeMetadata(readLines(cache, key, Len(Content[key])), rows)
    /\ lastRefresh' = touchedBy(Len(Content[key]))

\* A read that ends in an error after some lines, which the cache keeps: the network
\* gives out at any of them, an unreadable object fails by itself after its last one.
readFailsAfterSome(key) ==
    \E n \in 0 .. Len(Content[key]) :
        /\ IF key \in Unreadable /\ n = Len(Content[key]) THEN UNCHANGED spent ELSE Fault
        /\ cache' = readLines(cache, key, n)
        /\ lastRefresh' = touchedBy(n)

HydrateUpsert ==
    /\ pc = "hydrate" /\ todo # <<>>
    /\ readObject(Head(todo))
    /\ db' = [db EXCEPT !.meta = upsertNodeMetadataTx(@, parseNodeMetadata(Head(todo)), FALSE)]
    /\ pc' = "mark"
    /\ UNCHANGED <<now, api, stored, booting, todo, loaded, spent, persisted>>

HydrateFails_Stops ==
    /\ pc = "hydrate" /\ todo # <<>>
    /\ \/ readFailsAfterSome(Head(todo))
       \/ readObject(Head(todo)) /\ Fault
    /\ todo' = <<>>
    /\ UNCHANGED <<now, api, stored, db, pc, booting, loaded, persisted>>

\* The object cannot be read, or its identities cannot be written: the next one.
HydrateFails ==
    /\ pc = "hydrate" /\ todo # <<>>
    /\ \/ readFailsAfterSome(Head(todo))
       \/ readObject(Head(todo)) /\ Fault
    /\ todo' = Tail(todo)
    /\ UNCHANGED <<now, api, stored, db, pc, booting, loaded, persisted>>

MarkObjectMetadataHydrated ==
    /\ pc = "mark"
    /\ db' = recordObjectMetadataTx(db, Head(todo))
    /\ todo' = Tail(todo) /\ pc' = "hydrate"
    /\ UNCHANGED <<now, api, memory, booting, loaded, spent, persisted>>

MarkFails ==
    /\ pc = "mark" /\ Fault
    /\ todo' = Tail(todo) /\ pc' = "hydrate"
    /\ UNCHANGED <<now, api, memory, db, booting, loaded, persisted>>

\* Objects that are listed and not ingested; ObjectPoll has the choice among them.
Listed == {k \in Objects : Arrives[k] \in 1 .. now /\ k \notin DOMAIN db.objects}

\* One transaction: the object, its identities, its index and its pairs.
CommitObjectIngest ==
    /\ pc = "hydrate" /\ todo = <<>>
    /\ \E k \in Listed :
          /\ readObject(k)
          /\ db' = recordObjectMetadataTx(
                     [db EXCEPT !.objects = Put(@, k, [hydrated |-> FALSE, at |-> now]),
                                !.meta = upsertNodeMetadataTx(@, parseNodeMetadata(k), FALSE),
                                !.pairs = Over([id \in pairNames(cache', k) |-> now], @)], k)
    /\ UNCHANGED <<now, api, stored, pc, booting, todo, loaded, spent, persisted>>

\* A listed object cannot be read, or not committed: the cache keeps what was read.
IngestFails ==
    /\ pc = "hydrate" /\ todo = <<>>
    /\ \E k \in Listed :
          \/ readFailsAfterSome(k)
          \/ readObject(k) /\ Fault
    /\ UNCHANGED <<now, api, stored, db, pc, booting, todo, loaded, persisted>>

\* A failed read that was the last of the object's budget, which ObjectPoll counts:
\* the object is recorded, with no identities and no pairs.
GiveUpObject ==
    /\ pc = "hydrate" /\ todo = <<>>
    /\ \E k \in Listed :
          /\ readFailsAfterSome(k)
          /\ db' = [db EXCEPT !.objects = Put(@, k, [hydrated |-> TRUE, at |-> now])]
    /\ UNCHANGED <<now, api, stored, pc, booting, todo, loaded, persisted>>

\* The poll returns, at the end of its page or where a call failed.
EndPoll ==
    /\ pc = "hydrate" /\ todo = <<>>
    /\ pc' = "idle"
    /\ UNCHANGED <<now, api, memory, db, booting, todo, loaded, spent, persisted>>

\* Devices come, go and change their addresses.
ListChanges ==
    /\ pc = "idle" /\ spent.lists < MaxListChanges
    /\ api' \in DeviceLists \ {api}
    /\ spent' = [spent EXCEPT !.lists = @ + 1]
    /\ UNCHANGED <<now, memory, db, pc, booting, todo, loaded, persisted>>

Crash ==
    /\ spent.crashes < MaxCrashes
    /\ spent' = [spent EXCEPT !.crashes = @ + 1]
    /\ cache' = EmptyCache /\ lastRefresh' = Never /\ stored' = NoIdentities /\ persisted' = Never
    /\ pc' = "refresh" /\ booting' = TRUE /\ todo' = <<>> /\ loaded' = FALSE
    /\ UNCHANGED <<now, api, db>>

Refresh == FetchDevices \/ FetchFails \/ persistDeviceIdentities \/ PersistFails
           \/ LoadMetadata \/ LoadFails
Hydration == StartPoll \/ HydrateUpsert \/ HydrateFails \/ MarkObjectMetadataHydrated \/ MarkFails
Ingest == CommitObjectIngest \/ IngestFails \/ GiveUpObject \/ EndPoll

Next == Tick \/ Refresh \/ CleanUp \/ CleanupFails \/ Hydration \/ Ingest \/ ListChanges \/ Crash

Spec == Init /\ [][Next]_vars

\* The ticker fires and the goroutine runs on: it never stays at one step for good.
\* Nothing is assumed of the cleanup ticker, the list or failures.
Places == {"idle", "refresh", "persist", "load", "cleanup", "poll", "hydrate", "mark"}
MovesOn == \E p \in Places \ {pc} : pc' = p
Fairness == WF_pc(MovesOn)

FairSpec == Spec /\ Fairness

(***************************************************************************)
(* Properties                                                              *)
(***************************************************************************)
Entries == {cache.dev[cache.ids[id]] : id \in DOMAIN cache.ids}

\* Every id the cache has heard of names one live device, callers that query stored
\* rows by that device's equivalent ids find the rows stored under it, no id belongs
\* to two devices, and an address never resolves to a device that was dropped or
\* renamed. Merging, rekeying and pruning edit three maps and the alias lists of the
\* entries to keep this.
CacheNamesResolve ==
    /\ \A id \in DOMAIN cache.ids : cache.dev[cache.ids[id]].id = id
    /\ \A a \in DOMAIN cache.aliases :
          /\ deviceLocked(cache, a) # {}
          /\ a \in EquivalentIDs(cache, a)
    /\ \A id \in DOMAIN cache.ids, other \in DOMAIN cache.ids :
          id # other => EquivalentIDs(cache, id) \cap EquivalentIDs(cache, other) = {}
    /\ \A a \in DOMAIN cache.addrs :
          /\ cache.addrs[a] \in DOMAIN cache.dev
          /\ LET id == cache.dev[cache.addrs[a]].id
             IN  id \in DOMAIN cache.ids /\ cache.ids[id] = cache.addrs[a]

\* The address of a deleted node is given to a new one while rows and flow logs
\* still name the old: a device listed under both its ids answers to no other id,
\* and its address resolves to a listed device, whatever those rows and logs say.
AddressReuseIsSafe ==
    \A e \in Entries : e.listed =>
        /\ e.apiLegacy # Blank => EquivalentIDs(cache, e.id) \subseteq {e.id, e.apiLegacy}
        /\ \A a \in e.ips : a \in DOMAIN cache.addrs /\ cache.dev[cache.addrs[a]].listed

\* The rows as the reads of the store load them.
storedRows == {[id |-> id, owner |-> db.meta[id].owner, ips |-> db.meta[id].ips] :
                 id \in DOMAIN db.meta}

\* Between refreshes the cache knows every node whose stored identity is inside
\* retention: a refresh that starts from the API's list alone brings back the others.
\* The reads of the store put every stored id into one device, and never two stable
\* ids or two numeric ids into the same one, whatever addresses the rows share.
StoredNamesResolve ==
    LET devices == mergedDevices(storedRows)
    IN  /\ pc = "idle" /\ loaded =>
             \A id \in DOMAIN db.meta :
                 Retention = 0 \/ db.meta[id].updated + Retention >= now
                     => deviceLocked(cache, id) # {}
        /\ UNION {d.ids : d \in devices} = DOMAIN db.meta
        /\ \A d \in devices : /\ Cardinality(d.ids \cap StableIds) <= 1
                               /\ Cardinality(d.ids \cap NumericIds) <= 1
        /\ \A d \in devices, e \in devices : d.ids \cap e.ids # {} => d = e

\* Retention never drops the stored identity of a device of the last device list.
ListedRowsAreKept ==
    [][\A id \in DOMAIN stored.known : id \in DOMAIN db.meta => id \in DOMAIN db'.meta]_vars

\* The same while the list keeps being written: retention drops the stored identity of
\* a listed device only when no refresh has written the list for longer than retention
\* is longer than the rewrite interval. Most of these writes leave out the devices that
\* did not change, so what has to keep their rows fresh is the full one among them,
\* over lists that change, failed writes, rows that logs refresh and restarts.
WrittenRowsAreKept ==
    [][\A id \in DOMAIN stored.known :
          id \in DOMAIN db.meta /\ id \notin DOMAIN db'.meta
              => persisted + Retention < now + Rewrite]_vars

\* An object ingested without its identities gets them, though others before it
\* cannot be read, as long as these are fewer than a poll hydrates.
EveryObjectIsHydrated ==
    \A k \in Objects \ Unreadable : k \in needsMetadata(db) ~> k \notin needsMetadata(db)
=============================================================================

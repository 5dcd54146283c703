------------------------ MODULE NodeIdentitiesProofs ------------------------
(***************************************************************************)
(* Proofs about NodeIdentities: the maps of the device cache agree with    *)
(* each other, listed devices keep their names and addresses whatever rows *)
(* and logs say, and every stored identity inside retention is known.      *)
(*                                                                         *)
(* The first part is about the operators of DeviceCache, on any cache that *)
(* is well formed; the second about the merge of stored rows; the third    *)
(* about the steps of the poller; the last about the tools of ScopedTools  *)
(* on any well-formed cache.                                               *)
(***************************************************************************)
EXTENDS ViewerScopes, FiniteSetTheorems, SequenceTheorems, WellFoundedInduction, TLAPS

(***************************************************************************)
(* Well-formed caches                                                      *)
(***************************************************************************)
Entry == [id : NodeIds, node : StableIds \cup {Blank}, owner : Nat, ips : SUBSET Addresses,
          listed : BOOLEAN, seen : Nat, apiLegacy : NumericIds \cup {Blank},
          aliases : SUBSET NodeIds]

Typed(c) ==
    /\ DOMAIN c = {"dev", "ids", "addrs", "aliases"}
    /\ IsFiniteSet(DOMAIN c.dev) /\ DOMAIN c.dev \subseteq Nat
    /\ c.dev \in [DOMAIN c.dev -> Entry]
    /\ DOMAIN c.ids \subseteq NodeIds /\ c.ids \in [DOMAIN c.ids -> DOMAIN c.dev]
    /\ DOMAIN c.addrs \subseteq Addresses /\ c.addrs \in [DOMAIN c.addrs -> DOMAIN c.dev]
    /\ DOMAIN c.aliases \subseteq NodeIds /\ c.aliases \in [DOMAIN c.aliases -> NodeIds]

\* Entries and ids name each other: no entry is garbage.
IdsAgree(c) ==
    /\ \A id \in DOMAIN c.ids : c.dev[c.ids[id]].id = id
    /\ \A h \in DOMAIN c.dev : c.dev[h].id \in DOMAIN c.ids /\ c.ids[c.dev[h].id] = h

\* An alias is no id, and the entry it leads to lists it.
AliasesAgree(c) ==
    /\ DOMAIN c.ids \cap DOMAIN c.aliases = {}
    /\ \A a \in DOMAIN c.aliases :
          c.aliases[a] \in DOMAIN c.ids /\ a \in c.dev[c.ids[c.aliases[a]]].aliases

\* A flow-only entry holds only addresses of its own.
AddressesAgree(c) ==
    \A a \in DOMAIN c.addrs : c.dev[c.addrs[a]].listed \/ a \in c.dev[c.addrs[a]].ips

\* The addresses of a listed device lead to listed devices.
ListedAddresses(c) ==
    \A h \in DOMAIN c.dev : c.dev[h].listed =>
        \A a \in c.dev[h].ips : a \in DOMAIN c.addrs /\ c.dev[c.addrs[a]].listed

\* A device listed under both its ids has no other name.
ListedNames(c) ==
    \A h \in DOMAIN c.dev : c.dev[h].listed /\ c.dev[h].apiLegacy # Blank =>
        /\ c.dev[h].node = c.dev[h].id
        /\ <<c.dev[h].id, c.dev[h].apiLegacy>> \in TwoIds
        /\ \A a \in DOMAIN c.aliases :
              c.aliases[a] = c.dev[h].id => a = c.dev[h].apiLegacy

WellFormed(c) ==
    Typed(c) /\ IdsAgree(c) /\ AliasesAgree(c) /\ AddressesAgree(c)
    /\ ListedAddresses(c) /\ ListedNames(c)

\* The device of an id is listed, or was seen at t or later.
KnownSince(c, id, t) ==
    /\ deviceLocked(c, id) # {}
    /\ \A h \in deviceLocked(c, id) : c.dev[h].listed \/ c.dev[h].seen >= t

(***************************************************************************)
(* The inductive invariant                                                 *)
(***************************************************************************)
Row == [owner : Nat, ips : SUBSET Addresses, updated : Nat]

TablesTyped ==
    /\ DOMAIN db = {"meta", "pairs", "objects", "index"}
    /\ DOMAIN db.meta \subseteq NodeIds /\ db.meta \in [DOMAIN db.meta -> Row]
    /\ \A id \in DOMAIN db.meta : db.meta[id].updated <= now
    /\ DOMAIN db.objects \subseteq Objects
    /\ db.objects \in [DOMAIN db.objects -> [hydrated : BOOLEAN, at : Nat]]

PollerTyped ==
    /\ now \in Nat
    /\ api \in DeviceLists
    /\ todo \in Seq(Objects)
    /\ pc = "mark" => todo # <<>>
    /\ pc \in {"persist", "load"} => ~loaded

\* The cache knows every node whose stored identity is inside retention.
StoredAreKnown ==
    loaded => \A id \in DOMAIN db.meta :
        Retention = 0 \/ db.meta[id].updated + Retention >= now
            => KnownSince(cache, id, db.meta[id].updated)

IInv == PollerTyped /\ TablesTyped /\ WellFormed(cache) /\ StoredAreKnown

(***************************************************************************)
(* Folds                                                                   *)
(***************************************************************************)
\* A set of naturals that is not empty has a least element.
LEMMA LeastNat ==
    ASSUME NEW S \in SUBSET Nat, S # {}
    PROVE  \E x \in S : \A y \in S : x <= y
<1> DEFINE Less == {p \in Nat \X Nat : p[1] < p[2]}
<1>1. IsWellFoundedOn(Less, Nat)
  BY NatLessThanWellFounded DEF OpToRel
<1>2. PICK x \in S : \A y \in S : <<y, x>> \notin Less
  <2> HIDE DEF Less
  <2> QED BY <1>1, WFMin
<1>3. \A y \in S : ~(y < x)
  BY <1>2
<1> QED BY <1>3

\* Induction up to n.
LEMMA UpTo ==
    ASSUME NEW n \in Nat, NEW P, 0 \in P, \A k \in 1 .. n : k - 1 \in P => k \in P
    PROVE  \A k \in 0 .. n : k \in P
<1> DEFINE S == {k \in Nat : k <= n /\ k \notin P}
<1>1. S = {}
  <2> SUFFICES ASSUME S # {} PROVE FALSE
    OBVIOUS
  <2>1. PICK k \in S : \A j \in S : k <= j
    <3>1. S \in SUBSET Nat
      OBVIOUS
    <3> HIDE DEF S
    <3> QED BY <3>1, LeastNat
  <2>2. k # 0 /\ k \in 1 .. n /\ k - 1 \in Nat /\ k - 1 \notin S
    BY <2>1
  <2> QED BY <2>1, <2>2
<1> QED BY <1>1

\* The operations that are folded over sequences, by name.
folded(kind, t, acc, x) ==
    CASE kind = "device" -> addDevice(acc, x)
      [] kind = "row" -> adoptLocked(acc, flowEntry(x.id, x.owner, x.ips, x.updated), Blank)
      [] kind = "line" -> UpsertFromFlowLogMetadata(acc, x, t)
      [] OTHER -> mergeRow(acc, x)

\* The function that FoldLeft defines: the result for every set of places.
Folding(g, kind, t, base, seq, n) ==
    g = [s \in SUBSET (1 .. n) |->
            IF s = {} THEN base ELSE folded(kind, t, g[s \ {Max(s)}], seq[Max(s)])]

\* The last place of a set of places that has n.
LEMMA MaxOfPlaces ==
    ASSUME NEW n \in Nat, n # 0, NEW s \in SUBSET (1 .. n), n \in s
    PROVE  Max(s) = n
<1>1. \A y \in s : n >= y
  OBVIOUS
<1>2. Max(s) \in s /\ \A y \in s : Max(s) >= y
  BY <1>1 DEF Max
<1>3. Max(s) \in 1 .. n /\ Max(s) >= n
  BY <1>2
<1> QED BY <1>3

\* The function exists: from the places below n to n.
LEMMA FoldingExists ==
    ASSUME NEW kind, NEW t, NEW base, NEW seq, NEW n \in Nat
    PROVE  \E g : Folding(g, kind, t, base, seq, n)
<1> DEFINE P == {k \in Nat : \E g : Folding(g, kind, t, base, seq, k)}
<1>1. 0 \in P
  <2>1. SUBSET (1 .. 0) = {{}}
    OBVIOUS
  <2>2. Folding([s \in SUBSET (1 .. 0) |-> base], kind, t, base, seq, 0)
    BY <2>1 DEF Folding
  <2> QED BY <2>2
<1>2. ASSUME NEW k \in 1 .. n, k - 1 \in P PROVE k \in P
  <2>1. PICK f : Folding(f, kind, t, base, seq, k - 1)
    BY <1>2
  <2> DEFINE g == [s \in SUBSET (1 .. k) |->
                      IF k \in s THEN folded(kind, t, f[s \ {k}], seq[k]) ELSE f[s]]
             G == [s \in SUBSET (1 .. k) |->
                      IF s = {} THEN base ELSE folded(kind, t, g[s \ {Max(s)}], seq[Max(s)])]
  <2>2. \A s \in SUBSET (1 .. k - 1) : g[s] = f[s]
    OBVIOUS
  <2>3. ASSUME NEW s \in SUBSET (1 .. k), k \in s PROVE g[s] = G[s]
    <3>1. Max(s) = k
      BY <2>3, MaxOfPlaces
    <3>2. s \ {k} \in SUBSET (1 .. k - 1)
      OBVIOUS
    <3>3. g[s \ {k}] = f[s \ {k}]
      BY <2>2, <3>2
    <3>4. g[s] = folded(kind, t, f[s \ {k}], seq[k])
      BY <2>3
    <3>5. G[s] = folded(kind, t, g[s \ {Max(s)}], seq[Max(s)])
      BY <2>3
    <3> QED BY <3>1, <3>3, <3>4, <3>5
  <2>4. ASSUME NEW s \in SUBSET (1 .. k), k \notin s PROVE g[s] = G[s]
    <3>1. s \in SUBSET (1 .. k - 1) /\ s \ {Max(s)} \in SUBSET (1 .. k - 1)
      <4>1. \A x \in s : x \in 1 .. k - 1
        BY <2>4
      <4> QED BY <4>1
    <3>2. g[s] = f[s] /\ g[s \ {Max(s)}] = f[s \ {Max(s)}]
      BY <2>2, <3>1
    <3>3. f[s] = IF s = {} THEN base ELSE folded(kind, t, f[s \ {Max(s)}], seq[Max(s)])
      BY <2>1, <3>1 DEF Folding
    <3>4. G[s] = IF s = {} THEN base ELSE folded(kind, t, g[s \ {Max(s)}], seq[Max(s)])
      OBVIOUS
    <3> HIDE DEF g, G
    <3> QED BY <3>2, <3>3, <3>4
  <2>5. \A s \in SUBSET (1 .. k) : g[s] = G[s]
    BY <2>3, <2>4
  <2>6. g = G
    <3>1. DOMAIN g = SUBSET (1 .. k) /\ DOMAIN G = SUBSET (1 .. k)
      OBVIOUS
    <3>2. g = [s \in SUBSET (1 .. k) |-> g[s]] /\ G = [s \in SUBSET (1 .. k) |-> G[s]]
      OBVIOUS
    <3> HIDE DEF g, G
    <3> QED BY <2>5, <3>2
  <2>7. Folding(g, kind, t, base, seq, k)
    <3> HIDE DEF g
    <3> QED BY <2>6 DEF Folding
  <2> HIDE DEF g
  <2> QED BY <2>7
<1> HIDE DEF P
<1>3. n \in P
  BY <1>1, <1>2, UpTo
<1> QED BY <1>3 DEF P

\* Its values for the first places, one after the other.
LEMMA FoldingTrace ==
    ASSUME NEW kind, NEW t, NEW base, NEW seq, NEW n \in Nat,
           NEW g, Folding(g, kind, t, base, seq, n)
    PROVE  \E h : /\ h[0] = base /\ h[n] = g[1 .. n]
                  /\ \A k \in 1 .. n : h[k] = folded(kind, t, h[k - 1], seq[k])
<1> DEFINE h == [k \in 0 .. n |-> g[1 .. k]]
<1>1. \A s \in SUBSET (1 .. n) :
        g[s] = IF s = {} THEN base ELSE folded(kind, t, g[s \ {Max(s)}], seq[Max(s)])
  BY DEF Folding
<1>2. h[0] = base
  <2>1. 1 .. 0 = {} /\ {} \in SUBSET (1 .. n) /\ 0 \in 0 .. n
    OBVIOUS
  <2>2. g[{}] = base
    BY <1>1, <2>1
  <2>3. h[0] = g[1 .. 0]
    BY <2>1
  <2> QED BY <2>1, <2>2, <2>3
<1>3. ASSUME NEW k \in 1 .. n PROVE h[k] = folded(kind, t, h[k - 1], seq[k])
  <2>1. Max(1 .. k) = k
    BY MaxOfPlaces
  <2>2. (1 .. k) \ {k} = 1 .. k - 1
    OBVIOUS
  <2>3. 1 .. k \in SUBSET (1 .. n) /\ 1 .. k # {}
    OBVIOUS
  <2>4. g[1 .. k] = folded(kind, t, g[1 .. k - 1], seq[k])
    BY <1>1, <2>1, <2>2, <2>3
  <2>5. h[k] = g[1 .. k] /\ h[k - 1] = g[1 .. k - 1]
    OBVIOUS
  <2> QED BY <2>4, <2>5
<1>4. h[n] = g[1 .. n]
  OBVIOUS
<1> HIDE DEF h
<1> QED BY <1>2, <1>3, <1>4

\* The folds of the model, by name.
AddDevices(c, seq) == FoldLeft(addDevice, c, seq)
ReadNodes(c, seq, t) == FoldLeft(LAMBDA acc, x : UpsertFromFlowLogMetadata(acc, x, t), c, seq)
MergeRows(c, seq) == FoldLeft(mergeRow, c, seq)

\* h is the cache after each of the n devices.
DeviceTrace(h, c, seq, n) ==
    /\ h[0] = c /\ h[n] = AddDevices(c, seq)
    /\ \A k \in 1 .. n : h[k] = addDevice(h[k - 1], seq[k])

\* The cache after each device of a list.
LEMMA DeviceFold ==
    ASSUME NEW c, NEW seq, NEW n \in Nat, DOMAIN seq = 1 .. n
    PROVE  \E h : DeviceTrace(h, c, seq, n)
<1> DEFINE P(g) == g = [s \in SUBSET DOMAIN seq |->
                          IF s = {} THEN c ELSE addDevice(g[s \ {Max(s)}], seq[Max(s)])]
<1>1. AddDevices(c, seq) = (CHOOSE g : P(g))[DOMAIN seq]
  BY DEF AddDevices, FoldLeft, MapThenFoldSet
<1>2. \A acc, x : folded("device", 0, acc, x) = addDevice(acc, x)
  BY DEF folded
<1>3. \A g : P(g) <=> Folding(g, "device", 0, c, seq, n)
  BY <1>2 DEF Folding
<1>4. \E g : Folding(g, "device", 0, c, seq, n)
  BY FoldingExists
<1> HIDE DEF P
<1> DEFINE G == CHOOSE g : P(g)
<1>5. P(G)
  BY <1>3, <1>4
<1> HIDE DEF G
<1>6. Folding(G, "device", 0, c, seq, n)
  BY <1>3, <1>5
<1>7. PICK h : /\ h[0] = c /\ h[n] = G[1 .. n]
               /\ \A k \in 1 .. n : h[k] = folded("device", 0, h[k - 1], seq[k])
  BY <1>6, FoldingTrace
<1>8. h[n] = AddDevices(c, seq)
  BY <1>1, <1>7 DEF G
<1>9. DeviceTrace(h, c, seq, n)
  BY <1>2, <1>7, <1>8 DEF DeviceTrace
<1> QED BY <1>9

\* A row of node_metadata is told to the cache.
TellRow(c, r) == adoptLocked(c, flowEntry(r.id, r.owner, r.ips, r.updated), Blank)

\* h is the cache after each of the n rows.
RowTrace(h, c, seq, n) ==
    /\ h[0] = c /\ h[n] = UpsertNodeMetadata(c, seq)
    /\ \A k \in 1 .. n : h[k] = TellRow(h[k - 1], seq[k])

\* The cache after each row of node_metadata.
LEMMA RowFold ==
    ASSUME NEW c, NEW seq, NEW n \in Nat, DOMAIN seq = 1 .. n
    PROVE  \E h : RowTrace(h, c, seq, n)
<1> DEFINE P(g) == g = [s \in SUBSET DOMAIN seq |->
                          IF s = {} THEN c ELSE TellRow(g[s \ {Max(s)}], seq[Max(s)])]
<1>1. UpsertNodeMetadata(c, seq) = (CHOOSE g : P(g))[DOMAIN seq]
  BY DEF UpsertNodeMetadata, FoldLeft, MapThenFoldSet, TellRow
<1>2. \A acc, x : folded("row", 0, acc, x) = TellRow(acc, x)
  BY DEF folded, TellRow
<1>3. \A g : P(g) <=> Folding(g, "row", 0, c, seq, n)
  BY <1>2 DEF Folding
<1>4. \E g : Folding(g, "row", 0, c, seq, n)
  BY FoldingExists
<1> HIDE DEF P
<1> DEFINE G == CHOOSE g : P(g)
<1>5. P(G)
  BY <1>3, <1>4
<1> HIDE DEF G
<1>6. Folding(G, "row", 0, c, seq, n)
  BY <1>3, <1>5
<1>7. PICK h : /\ h[0] = c /\ h[n] = G[1 .. n]
               /\ \A k \in 1 .. n : h[k] = folded("row", 0, h[k - 1], seq[k])
  BY <1>6, FoldingTrace
<1>8. h[n] = UpsertNodeMetadata(c, seq)
  BY <1>1, <1>7 DEF G
<1>9. RowTrace(h, c, seq, n)
  BY <1>2, <1>7, <1>8 DEF RowTrace
<1> QED BY <1>9

\* The cache after each line of an object.
LEMMA LineFold ==
    ASSUME NEW c, NEW seq, NEW t, NEW n \in Nat, DOMAIN seq = 1 .. n
    PROVE  \E h : /\ h[0] = c /\ h[n] = ReadNodes(c, seq, t)
                  /\ \A k \in 1 .. n : h[k] = UpsertFromFlowLogMetadata(h[k - 1], seq[k], t)
<1> DEFINE P(g) == g = [s \in SUBSET DOMAIN seq |->
                          IF s = {} THEN c ELSE UpsertFromFlowLogMetadata(g[s \ {Max(s)}], seq[Max(s)], t)]
<1>1. ReadNodes(c, seq, t) = (CHOOSE g : P(g))[DOMAIN seq]
  BY DEF ReadNodes, FoldLeft, MapThenFoldSet
<1>2. \A acc, x : folded("line", t, acc, x) = UpsertFromFlowLogMetadata(acc, x, t)
  BY DEF folded
<1>3. \A g : P(g) <=> Folding(g, "line", t, c, seq, n)
  BY <1>2 DEF Folding
<1>4. \E g : Folding(g, "line", t, c, seq, n)
  BY FoldingExists
<1> HIDE DEF P
<1> DEFINE G == CHOOSE g : P(g)
<1>5. P(G)
  BY <1>3, <1>4
<1> HIDE DEF G
<1>6. Folding(G, "line", t, c, seq, n)
  BY <1>3, <1>5
<1>7. PICK h : /\ h[0] = c /\ h[n] = G[1 .. n]
               /\ \A k \in 1 .. n : h[k] = folded("line", t, h[k - 1], seq[k])
  BY <1>6, FoldingTrace
<1>8. h[n] = ReadNodes(c, seq, t)
  BY <1>1, <1>7 DEF G
<1> QED BY <1>2, <1>7, <1>8

\* The devices after each stored row.
LEMMA MergeFold ==
    ASSUME NEW c, NEW seq, NEW n \in Nat, DOMAIN seq = 1 .. n
    PROVE  \E h : /\ h[0] = c /\ h[n] = MergeRows(c, seq)
                  /\ \A k \in 1 .. n : h[k] = mergeRow(h[k - 1], seq[k])
<1> DEFINE P(g) == g = [s \in SUBSET DOMAIN seq |->
                          IF s = {} THEN c ELSE mergeRow(g[s \ {Max(s)}], seq[Max(s)])]
<1>1. MergeRows(c, seq) = (CHOOSE g : P(g))[DOMAIN seq]
  BY DEF MergeRows, FoldLeft, MapThenFoldSet
<1>2. \A acc, x : folded("merge", 0, acc, x) = mergeRow(acc, x)
  BY DEF folded
<1>3. \A g : P(g) <=> Folding(g, "merge", 0, c, seq, n)
  BY <1>2 DEF Folding
<1>4. \E g : Folding(g, "merge", 0, c, seq, n)
  BY FoldingExists
<1> HIDE DEF P
<1> DEFINE G == CHOOSE g : P(g)
<1>5. P(G)
  BY <1>3, <1>4
<1> HIDE DEF G
<1>6. Folding(G, "merge", 0, c, seq, n)
  BY <1>3, <1>5
<1>7. PICK h : /\ h[0] = c /\ h[n] = G[1 .. n]
               /\ \A k \in 1 .. n : h[k] = folded("merge", 0, h[k - 1], seq[k])
  BY <1>6, FoldingTrace
<1>8. h[n] = MergeRows(c, seq)
  BY <1>1, <1>7 DEF G
<1> QED BY <1>2, <1>7, <1>8

(***************************************************************************)
(* The operators of the device cache                                       *)
(***************************************************************************)
\* What every step but the last of addDevice keeps.
Linked(c) == Typed(c) /\ IdsAgree(c) /\ AliasesAgree(c) /\ AddressesAgree(c) /\ ListedNames(c)

\* An entry but for its aliases.
SameEntry(e, f) ==
    /\ e.id = f.id /\ e.node = f.node /\ e.ips = f.ips /\ e.listed = f.listed
    /\ e.seen = f.seen /\ e.apiLegacy = f.apiLegacy

\* The entry a name leads to.
Leads(c, id, h) ==
    \/ id \in DOMAIN c.ids /\ h = c.ids[id]
    \/ id \in DOMAIN c.aliases /\ h = c.ids[c.aliases[id]]

\* The blank id that stands for a missing one is no id; stable and numeric ids are ids.
LEMMA BlankIsNoId == Blank \notin NodeIds /\ Blank = 0 /\ StableIds \subseteq NodeIds
                     /\ NumericIds \subseteq NodeIds /\ Blank \notin StableIds
                     /\ Blank \notin NumericIds /\ NodeIds \subseteq Nat
BY IdAssumption DEF NodeIds

\* In a well-formed cache deviceLocked follows an id or an alias.
LEMMA DeviceFound ==
    ASSUME NEW c, AliasesAgree(c), NEW id
    PROVE  /\ \A h : h \in deviceLocked(c, id) <=> Leads(c, id, h)
           /\ deviceLocked(c, id) # {} <=> id \in DOMAIN c.ids \cup DOMAIN c.aliases
           /\ \A g, h : Leads(c, id, g) /\ Leads(c, id, h) => g = h
<1>1. CASE id \in DOMAIN c.ids
  <2>1. id \notin DOMAIN c.aliases
    BY <1>1 DEF AliasesAgree
  <2>2. deviceLocked(c, id) = {c.ids[id]}
    BY <1>1 DEF deviceLocked
  <2> QED BY <1>1, <2>1, <2>2 DEF Leads
<1>2. CASE id \notin DOMAIN c.ids /\ id \in DOMAIN c.aliases
  <2>1. c.aliases[id] \in DOMAIN c.ids
    BY <1>2 DEF AliasesAgree
  <2>2. deviceLocked(c, id) = {c.ids[c.aliases[id]]}
    BY <1>2, <2>1 DEF deviceLocked
  <2> QED BY <1>2, <2>2 DEF Leads
<1>3. CASE id \notin DOMAIN c.ids /\ id \notin DOMAIN c.aliases
  <2>1. deviceLocked(c, id) = {}
    BY <1>3 DEF deviceLocked
  <2> QED BY <1>3, <2>1 DEF Leads
<1> QED BY <1>1, <1>2, <1>3

\* The maps of a typed cache, element by element: every id and address leads to an entry.
LEMMA TypedFacts ==
    ASSUME NEW c, Typed(c)
    PROVE  /\ \A id \in DOMAIN c.ids : id \in NodeIds /\ c.ids[id] \in DOMAIN c.dev
           /\ \A a \in DOMAIN c.addrs : a \in Addresses /\ c.addrs[a] \in DOMAIN c.dev
           /\ \A a \in DOMAIN c.aliases : a \in NodeIds /\ c.aliases[a] \in NodeIds
           /\ \A h \in DOMAIN c.dev : h \in Nat /\ c.dev[h] \in Entry
BY DEF Typed

\* An id is known since a time when the entry it leads to, by itself or by an alias, is
\* listed or was seen at that time or later.
LEMMA KnownLeads ==
    ASSUME NEW c, AliasesAgree(c), NEW id, NEW t
    PROVE  KnownSince(c, id, t) <=>
              \E h : Leads(c, id, h) /\ (c.dev[h].listed \/ c.dev[h].seen >= t)
<1>1. /\ \A h : h \in deviceLocked(c, id) <=> Leads(c, id, h)
      /\ \A g, h : Leads(c, id, g) /\ Leads(c, id, h) => g = h
  BY DeviceFound
<1>2. ASSUME deviceLocked(c, id) # {} PROVE \E h : h \in deviceLocked(c, id)
  BY <1>2
<1> QED BY <1>1, <1>2 DEF KnownSince

\* A new alias leads to its device and changes nothing else; a device listed under
\* both its ids is given none but its legacy id.
LEMMA AliasKeeps ==
    ASSUME NEW c, Linked(c), NEW alias \in NodeIds \cup {Blank}, NEW canonical \in DOMAIN c.ids,
           \A h \in DOMAIN c.dev :
              c.dev[h].listed /\ c.dev[h].apiLegacy # Blank /\ c.dev[h].id = canonical
                 => alias \in {Blank, canonical, c.dev[h].apiLegacy} \cup DOMAIN c.ids,
           NEW n, n = aliasLocked(c, alias, canonical)
    PROVE  /\ Linked(n)
           /\ n.ids = c.ids /\ n.addrs = c.addrs /\ DOMAIN n.dev = DOMAIN c.dev
           /\ \A h \in DOMAIN c.dev : SameEntry(n.dev[h], c.dev[h])
           /\ \A id, h : Leads(c, id, h) =>
                 Leads(n, id, h) \/ (id = alias /\ Leads(n, id, c.ids[canonical]))
           /\ alias # Blank => Leads(n, alias, c.ids[canonical]) \/ alias \in DOMAIN c.ids
<1> DEFINE skip == \/ alias = Blank \/ canonical = Blank \/ alias = canonical
                   \/ alias \in DOMAIN c.ids
                   \/ alias \in DOMAIN c.aliases /\ c.aliases[alias] = canonical
           g == c.ids[canonical]
           D == [c.dev EXCEPT ![g].aliases = @ \cup {alias}]
           A == [k \in DOMAIN c.aliases \cup {alias} |-> IF k = alias THEN canonical ELSE c.aliases[k]]
<1>1. CASE skip
  <2>1. n = c
    BY <1>1 DEF aliasLocked
  <2>2. \A h \in DOMAIN c.dev : SameEntry(n.dev[h], c.dev[h])
    BY <2>1 DEF SameEntry
  <2>3. canonical # Blank
    BY BlankIsNoId DEF Linked, Typed
  <2>4. alias # Blank => Leads(c, alias, c.ids[canonical]) \/ alias \in DOMAIN c.ids
    BY <1>1, <2>3 DEF Leads
  <2> HIDE DEF skip
  <2> QED BY <2>1, <2>2, <2>4
<1>2. CASE ~skip
  <2>1. n = [[c EXCEPT !.aliases = A] EXCEPT !.dev = D]
    <3>1. n = [[c EXCEPT !.aliases = A] EXCEPT !.dev[g].aliases = @ \cup {alias}]
      <4>1. n = [[c EXCEPT !.aliases = Put(c.aliases, alias, canonical)]
                    EXCEPT !.dev[g].aliases = @ \cup {alias}]
        BY <1>2 DEF aliasLocked
      <4>2. Put(c.aliases, alias, canonical) = A
        BY DEF Put
      <4> HIDE DEF skip, A, g
      <4> QED BY <4>1, <4>2
    <3>2. [c EXCEPT !.aliases = A].dev = c.dev
      BY DEF Linked, Typed
    <3> HIDE DEF skip, A
    <3> QED BY <3>1, <3>2
  <2>2. n.dev = D /\ n.ids = c.ids /\ n.addrs = c.addrs /\ n.aliases = A
        /\ DOMAIN n = {"dev", "ids", "addrs", "aliases"}
    <3>1. DOMAIN c = {"dev", "ids", "addrs", "aliases"}
      BY DEF Linked, Typed
    <3> HIDE DEF D, A
    <3> QED BY <2>1, <3>1
  <2>3. g \in DOMAIN c.dev /\ c.dev[g] \in Entry /\ c.dev[g].id = canonical /\ alias \in NodeIds
    BY <1>2 DEF Linked, Typed, IdsAgree
  <2>4. /\ DOMAIN D = DOMAIN c.dev
        /\ \A h \in DOMAIN c.dev :
              D[h] = IF h = g THEN [c.dev[g] EXCEPT !.aliases = @ \cup {alias}] ELSE c.dev[h]
    OBVIOUS
  <2>5. /\ D[g] \in Entry /\ SameEntry(D[g], c.dev[g])
        /\ D[g].aliases = c.dev[g].aliases \cup {alias}
    <3> DEFINE e == [c.dev[g] EXCEPT !.aliases = @ \cup {alias}]
    <3>1. D[g] = e
      BY <2>3, <2>4
    <3>2. e \in Entry /\ SameEntry(e, c.dev[g]) /\ e.aliases = c.dev[g].aliases \cup {alias}
      <4> HIDE DEF D
      <4> QED BY <2>3 DEF Entry, SameEntry
    <3> HIDE DEF D, e
    <3> QED BY <3>1, <3>2
  <2>6. \A h \in DOMAIN c.dev : /\ D[h] \in Entry /\ SameEntry(D[h], c.dev[h])
                                /\ c.dev[h].aliases \subseteq D[h].aliases
    <3> TAKE h \in DOMAIN c.dev
    <3>1. CASE h = g
      BY <2>5, <3>1
    <3>2. CASE h # g
      <4>1. D[h] = c.dev[h]
        BY <2>4, <3>2
      <4>2. c.dev[h] \in Entry
        BY DEF Linked, Typed
      <4> HIDE DEF D
      <4> QED BY <4>1, <4>2 DEF SameEntry
    <3> QED BY <3>1, <3>2
  <2>7. /\ DOMAIN A = DOMAIN c.aliases \cup {alias} /\ A[alias] = canonical
        /\ \A k \in DOMAIN c.aliases : k # alias => A[k] = c.aliases[k]
        /\ A = [k \in DOMAIN A |-> A[k]]
    OBVIOUS
  <2>8. alias \notin DOMAIN c.ids
    BY <1>2
  <2> HIDE DEF D, A, skip, g
  <2>9. Typed(n)
    <3>1. D \in [DOMAIN D -> Entry]
      <4>1. D = [h \in DOMAIN D |-> D[h]]
        BY DEF D
      <4> QED BY <2>4, <2>6, <4>1
    <3>2. A \in [DOMAIN A -> NodeIds]
      BY <2>7 DEF Linked, Typed
    <3> QED BY <2>2, <2>3, <2>4, <2>7, <3>1, <3>2 DEF Linked, Typed
  <2>10. IdsAgree(n)
    <3>1. \A h \in DOMAIN c.dev : D[h].id = c.dev[h].id
      BY <2>6 DEF SameEntry
    <3>2. \A id \in DOMAIN c.ids : c.ids[id] \in DOMAIN c.dev
      BY TypedFacts DEF Linked
    <3> QED BY <2>2, <2>4, <3>1, <3>2 DEF Linked, IdsAgree
  <2>11. AliasesAgree(n)
    <3>1. \A a \in DOMAIN c.aliases : a # alias => a \in D[c.ids[A[a]]].aliases /\ A[a] \in DOMAIN c.ids
      BY <2>6, <2>7 DEF Linked, Typed, AliasesAgree
    <3>2. alias \in D[c.ids[A[alias]]].aliases /\ A[alias] \in DOMAIN c.ids
      BY <2>5, <2>7 DEF g
    <3> QED BY <2>2, <2>7, <2>8, <3>1, <3>2 DEF Linked, AliasesAgree
  <2>12. AddressesAgree(n)
    BY <2>2, <2>6 DEF Linked, Typed, AddressesAgree, SameEntry
  <2>13. ListedNames(n)
    <3> SUFFICES ASSUME NEW h \in DOMAIN c.dev, D[h].listed, D[h].apiLegacy # Blank
                 PROVE  /\ D[h].node = D[h].id
                        /\ <<D[h].id, D[h].apiLegacy>> \in TwoIds
                        /\ \A a \in DOMAIN A : A[a] = D[h].id => a = D[h].apiLegacy
      BY <2>2, <2>4 DEF ListedNames
    <3>1. c.dev[h].listed /\ c.dev[h].apiLegacy # Blank /\ SameEntry(D[h], c.dev[h])
      BY <2>6 DEF SameEntry
    <3>2. /\ c.dev[h].node = c.dev[h].id
          /\ <<c.dev[h].id, c.dev[h].apiLegacy>> \in TwoIds
          /\ \A a \in DOMAIN c.aliases : c.aliases[a] = c.dev[h].id => a = c.dev[h].apiLegacy
      BY <3>1 DEF Linked, ListedNames
    <3>3. c.dev[h].id = canonical => alias = c.dev[h].apiLegacy
      BY <1>2, <2>8, <3>1 DEF skip
    <3> QED BY <2>7, <3>1, <3>2, <3>3 DEF SameEntry
  <2>14. \A id, h : Leads(c, id, h) => Leads(n, id, h) \/ id = alias
    BY <2>2, <2>7 DEF Leads
  <2>15. Leads(n, alias, c.ids[canonical])
    BY <2>2, <2>7 DEF Leads
  <2>16. \A id, h : Leads(c, id, h) =>
                 Leads(n, id, h) \/ (id = alias /\ Leads(n, id, c.ids[canonical]))
    BY <2>14, <2>15
  <2> QED BY <2>2, <2>4, <2>6, <2>9, <2>10, <2>11, <2>12, <2>13, <2>15, <2>16 DEF Linked
<1> HIDE DEF skip
<1> QED BY <1>1, <1>2

\* A handle no entry has.
LEMMA FreshHandleIsNew ==
    ASSUME NEW c, Typed(c)
    PROVE  FreshHandle(c) \in Nat /\ FreshHandle(c) \notin DOMAIN c.dev
<1> DEFINE n == Cardinality(DOMAIN c.dev)
<1>1. n \in Nat
  BY FS_CardinalityType DEF Typed
<1>2. \E h \in 1 .. n + 1 : h \notin DOMAIN c.dev
  <2> SUFFICES ASSUME 1 .. n + 1 \subseteq DOMAIN c.dev PROVE FALSE
    OBVIOUS
  <2>1. Cardinality(1 .. n + 1) = n + 1
    <3> HIDE DEF n
    <3>1. 1 \in Int /\ n + 1 \in Int /\ ~(1 > n + 1)
      BY <1>1
    <3>2. Cardinality(1 .. n + 1) = (n + 1) - 1 + 1
      BY <3>1, FS_Interval
    <3> QED BY <1>1, <3>2
  <2>2. Cardinality(1 .. n + 1) <= n
    BY FS_Subset DEF Typed
  <2> HIDE DEF n
  <2> QED BY <1>1, <2>1, <2>2
<1> QED BY <1>1, <1>2 DEF FreshHandle

\* An update that leaves the address map, the addresses of the entries and their mark as
\* listed alone keeps the addresses of the listed devices theirs.
LEMMA ListedAddressesKeep ==
    ASSUME NEW c, NEW n, ListedAddresses(c), Typed(c), n.addrs = c.addrs,
           DOMAIN n.dev = DOMAIN c.dev,
           \A h \in DOMAIN c.dev : n.dev[h].ips = c.dev[h].ips /\ n.dev[h].listed = c.dev[h].listed
    PROVE  ListedAddresses(n)
BY TypedFacts DEF ListedAddresses

\* Mapping addresses to an entry that may hold them changes the address map only, and
\* takes no listed device's address for a flow-only entry.
LEMMA MapKeeps ==
    ASSUME NEW c, Linked(c), NEW h \in DOMAIN c.dev, NEW S \in SUBSET Addresses,
           c.dev[h].listed \/ S \subseteq c.dev[h].ips,
           NEW n, n = mapIPs(c, S, h)
    PROVE  /\ Linked(n)
           /\ n.dev = c.dev /\ n.ids = c.ids /\ n.aliases = c.aliases
           /\ ListedAddresses(c) => ListedAddresses(n)
<1> DEFINE A == [a \in DOMAIN c.addrs \cup S |->
                    IF a \in S /\ ~keepsAddress(c, a, h) THEN h ELSE c.addrs[a]]
<1>1. n = [c EXCEPT !.addrs = A]
  BY DEF mapIPs
<1>2. /\ n.dev = c.dev /\ n.ids = c.ids /\ n.addrs = A /\ n.aliases = c.aliases
      /\ DOMAIN n = {"dev", "ids", "addrs", "aliases"}
  <2>1. DOMAIN c = {"dev", "ids", "addrs", "aliases"}
    BY DEF Linked, Typed
  <2> HIDE DEF A
  <2> QED BY <1>1, <2>1
<1>3. ASSUME NEW a \in DOMAIN A
      PROVE  \/ A[a] = h /\ a \in S /\ ~keepsAddress(c, a, h)
             \/ A[a] = c.addrs[a] /\ a \in DOMAIN c.addrs
  BY DEF keepsAddress
<1>4. DOMAIN A = DOMAIN c.addrs \cup S /\ A = [a \in DOMAIN A |-> A[a]]
  OBVIOUS
<1> HIDE DEF A
<1>5. A \in [DOMAIN A -> DOMAIN c.dev]
  <2>1. \A a \in DOMAIN c.addrs : c.addrs[a] \in DOMAIN c.dev
    BY TypedFacts DEF Linked
  <2> QED BY <1>3, <1>4, <2>1
<1>6. Typed(n)
  BY <1>2, <1>4, <1>5 DEF Linked, Typed
<1>7. AddressesAgree(n)
  BY <1>2, <1>3 DEF Linked, AddressesAgree
<1>8. ASSUME ListedAddresses(c) PROVE ListedAddresses(n)
  <2> SUFFICES ASSUME NEW g \in DOMAIN c.dev, c.dev[g].listed, NEW a \in c.dev[g].ips
               PROVE  a \in DOMAIN A /\ c.dev[A[a]].listed
    BY <1>2 DEF ListedAddresses
  <2>1. a \in DOMAIN c.addrs /\ c.dev[c.addrs[a]].listed
    BY <1>8 DEF ListedAddresses
  <2>2. a \in DOMAIN A
    BY <1>4, <2>1
  <2>3. ~keepsAddress(c, a, h) => c.addrs[a] = h \/ c.dev[h].listed
    BY <2>1 DEF keepsAddress
  <2> QED BY <1>3, <2>1, <2>2, <2>3
<1>9. IdsAgree(n) /\ AliasesAgree(n) /\ ListedNames(n)
  BY <1>2 DEF Linked, IdsAgree, AliasesAgree, ListedNames
<1> QED BY <1>2, <1>6, <1>7, <1>8, <1>9 DEF Linked

\* An entry that takes another id keeps its names, its old id among them. No entry
\* may have the new id, and a device listed under both its ids keeps its id.
LEMMA RekeyKeeps ==
    ASSUME NEW c, Linked(c), NEW h \in DOMAIN c.dev, NEW newID \in NodeIds,
           newID \notin DOMAIN c.ids, c.dev[h].listed => c.dev[h].apiLegacy = Blank,
           NEW n, n = rekeyLocked(c, h, newID)
    PROVE  /\ Linked(n)
           /\ n.addrs = c.addrs /\ DOMAIN n.dev = DOMAIN c.dev
           /\ \A g \in DOMAIN c.dev : g # h => SameEntry(n.dev[g], c.dev[g])
           /\ n.dev[h].id = newID
           /\ \A g \in DOMAIN c.dev :
                 /\ n.dev[g].node = c.dev[g].node /\ n.dev[g].ips = c.dev[g].ips
                 /\ n.dev[g].listed = c.dev[g].listed /\ n.dev[g].seen = c.dev[g].seen
                 /\ n.dev[g].apiLegacy = c.dev[g].apiLegacy
           /\ newID \in DOMAIN n.ids /\ n.ids[newID] = h
           /\ \A id, g : Leads(c, id, g) => Leads(n, id, g) \/ id = newID
<1> DEFINE old  == c.dev[h].id
           kept == {a \in c.dev[h].aliases :
                      a # newID /\ a \in DOMAIN c.aliases /\ c.aliases[a] = old}
           e == [c.dev[h] EXCEPT !.id = newID, !.aliases = kept]
           I == [k \in (DOMAIN c.ids \ {old}) \cup {newID} |-> IF k = newID THEN h ELSE c.ids[k]]
           D == [c.dev EXCEPT ![h] = e]
           A == [a \in DOMAIN c.aliases \ {newID} |-> IF a \in kept THEN newID ELSE c.aliases[a]]
           m == [c EXCEPT !.ids = I, !.dev[h] = e, !.aliases = A]
<1>1. n = aliasLocked(m, old, newID)
  <2>1. Put(Drop(c.ids, {old}), newID, h) = I
    BY DEF Put, Drop
  <2>2. n = aliasLocked([c EXCEPT !.ids = Put(Drop(c.ids, {old}), newID, h), !.dev[h] = e,
                                  !.aliases = A], old, newID)
    BY DEF rekeyLocked
  <2> HIDE DEF I, e, A, old
  <2> QED BY <2>1, <2>2
<1>2. /\ m.dev = D /\ m.ids = I /\ m.addrs = c.addrs /\ m.aliases = A
      /\ DOMAIN m = {"dev", "ids", "addrs", "aliases"}
  <2>1. DOMAIN c = {"dev", "ids", "addrs", "aliases"}
    BY DEF Linked, Typed
  <2> HIDE DEF I, e, A
  <2> QED BY <2>1
<1>3. /\ c.dev[h] \in Entry /\ old \in DOMAIN c.ids /\ old # newID /\ c.ids[old] = h
      /\ old \in NodeIds
  BY TypedFacts DEF Linked, IdsAgree, Entry
<1>4. kept \in SUBSET NodeIds /\ kept \subseteq DOMAIN c.aliases /\ newID \notin kept
      /\ \A a \in kept : c.aliases[a] = old
  BY TypedFacts DEF Linked
<1>5. \A a \in DOMAIN c.aliases : c.aliases[a] = old /\ a # newID => a \in kept
  BY <1>3 DEF Linked, AliasesAgree
<1> HIDE DEF kept
<1>6. e \in Entry /\ e.id = newID /\ e.aliases = kept
      /\ e.node = c.dev[h].node /\ e.ips = c.dev[h].ips /\ e.listed = c.dev[h].listed
      /\ e.seen = c.dev[h].seen /\ e.apiLegacy = c.dev[h].apiLegacy
  BY <1>3, <1>4 DEF Entry
<1> HIDE DEF e
<1>7. /\ DOMAIN D = DOMAIN c.dev /\ D[h] = e /\ \A g \in DOMAIN c.dev : g # h => D[g] = c.dev[g]
      /\ D = [g \in DOMAIN D |-> D[g]]
  OBVIOUS
<1>8. /\ DOMAIN I = (DOMAIN c.ids \ {old}) \cup {newID} /\ I[newID] = h
      /\ \A k \in DOMAIN c.ids : k # old => I[k] = c.ids[k]
      /\ I = [k \in DOMAIN I |-> I[k]]
  OBVIOUS
<1>9. /\ DOMAIN A = DOMAIN c.aliases \ {newID} /\ A = [a \in DOMAIN A |-> A[a]]
      /\ \A a \in kept : A[a] = newID
      /\ \A a \in DOMAIN A : a \notin kept => A[a] = c.aliases[a]
  BY <1>4
<1> HIDE DEF I, D, A, m, old
<1>10. Typed(m)
  <2>1. D \in [DOMAIN D -> Entry]
    <3>1. \A g \in DOMAIN c.dev : D[g] \in Entry
      BY <1>6, <1>7, TypedFacts DEF Linked
    <3> QED BY <1>7, <3>1
  <2>2. I \in [DOMAIN I -> DOMAIN c.dev] /\ DOMAIN I \subseteq NodeIds
    <3>1. \A k \in DOMAIN I : I[k] \in DOMAIN c.dev /\ k \in NodeIds
      BY <1>8, TypedFacts DEF Linked
    <3> QED BY <1>8, <3>1
  <2>3. A \in [DOMAIN A -> NodeIds] /\ DOMAIN A \subseteq NodeIds
    <3>1. \A a \in DOMAIN A : A[a] \in NodeIds /\ a \in NodeIds
      BY <1>9, TypedFacts DEF Linked
    <3> QED BY <1>9, <3>1
  <2> QED BY <1>2, <1>7, <2>1, <2>2, <2>3 DEF Linked, Typed
<1>11. IdsAgree(m)
  <2>1. \A k \in DOMAIN I : D[I[k]].id = k
    <3> TAKE k \in DOMAIN I
    <3>1. CASE k = newID
      BY <1>6, <1>7, <1>8, <3>1
    <3>2. CASE k # newID
      <4>1. k \in DOMAIN c.ids /\ k # old /\ I[k] = c.ids[k]
        BY <1>8, <3>2
      <4>2. c.dev[c.ids[k]].id = k /\ c.ids[k] \in DOMAIN c.dev
        BY <4>1, TypedFacts DEF Linked, IdsAgree
      <4>3. c.ids[k] # h
        BY <4>1, <4>2 DEF old
      <4> QED BY <1>7, <4>1, <4>2, <4>3
    <3> QED BY <3>1, <3>2
  <2>2. \A g \in DOMAIN c.dev : D[g].id \in DOMAIN I /\ I[D[g].id] = g
    <3> TAKE g \in DOMAIN c.dev
    <3>1. CASE g = h
      BY <1>6, <1>7, <1>8, <3>1
    <3>2. CASE g # h
      <4>1. D[g] = c.dev[g] /\ c.dev[g].id \in DOMAIN c.ids /\ c.ids[c.dev[g].id] = g
        BY <1>7, <3>2 DEF Linked, IdsAgree
      <4>2. c.dev[g].id # old
        BY <1>3, <3>2, <4>1
      <4> QED BY <1>8, <4>1, <4>2
    <3> QED BY <3>1, <3>2
  <2> QED BY <1>2, <1>7, <2>1, <2>2 DEF IdsAgree
<1>12. \A a \in DOMAIN A : a \notin kept =>
           /\ A[a] = c.aliases[a] /\ A[a] # old /\ A[a] # newID /\ A[a] \in DOMAIN c.ids
           /\ a \in DOMAIN c.aliases /\ a \notin DOMAIN c.ids
  BY <1>5, <1>9 DEF Linked, AliasesAgree
<1>13. AliasesAgree(m)
  <2>1. DOMAIN I \cap DOMAIN A = {}
    BY <1>8, <1>9 DEF Linked, AliasesAgree
  <2>2. ASSUME NEW a \in DOMAIN A PROVE A[a] \in DOMAIN I /\ a \in D[I[A[a]]].aliases
    <3>1. CASE a \in kept
      BY <1>6, <1>7, <1>8, <1>9, <3>1
    <3>2. CASE a \notin kept
      <4>1. A[a] \in DOMAIN I /\ I[A[a]] = c.ids[c.aliases[a]]
        BY <1>8, <1>12, <3>2
      <4>2. a \in c.dev[c.ids[c.aliases[a]]].aliases /\ c.ids[c.aliases[a]] \in DOMAIN c.dev
            /\ c.dev[c.ids[c.aliases[a]]].id = c.aliases[a]
        BY <1>12, <3>2, TypedFacts DEF Linked, AliasesAgree, IdsAgree
      <4>3. c.ids[c.aliases[a]] # h
        BY <1>12, <3>2, <4>2 DEF old
      <4> QED BY <1>7, <4>1, <4>2, <4>3
    <3> QED BY <3>1, <3>2
  <2> QED BY <1>2, <2>1, <2>2 DEF AliasesAgree
<1>14. \A g \in DOMAIN c.dev : /\ D[g].node = c.dev[g].node /\ D[g].ips = c.dev[g].ips
                               /\ D[g].listed = c.dev[g].listed /\ D[g].seen = c.dev[g].seen
                               /\ D[g].apiLegacy = c.dev[g].apiLegacy
  BY <1>6, <1>7
<1>15. AddressesAgree(m)
  BY <1>2, <1>14, TypedFacts DEF Linked, AddressesAgree
<1>16. ListedNames(m)
  <2> SUFFICES ASSUME NEW g \in DOMAIN c.dev, D[g].listed, D[g].apiLegacy # Blank
               PROVE  /\ D[g].node = D[g].id
                      /\ <<D[g].id, D[g].apiLegacy>> \in TwoIds
                      /\ \A a \in DOMAIN A : A[a] = D[g].id => a = D[g].apiLegacy
    BY <1>2, <1>7 DEF ListedNames
  <2>1. g # h /\ D[g] = c.dev[g] /\ c.dev[g].listed /\ c.dev[g].apiLegacy # Blank
    BY <1>7, <1>14
  <2>2. /\ c.dev[g].node = c.dev[g].id
        /\ <<c.dev[g].id, c.dev[g].apiLegacy>> \in TwoIds
        /\ \A a \in DOMAIN c.aliases : c.aliases[a] = c.dev[g].id => a = c.dev[g].apiLegacy
    BY <2>1 DEF Linked, ListedNames
  <2>3. c.dev[g].id # newID
    BY DEF Linked, IdsAgree
  <2> QED BY <1>9, <1>12, <2>1, <2>2, <2>3
<1>17. Linked(m)
  BY <1>10, <1>11, <1>13, <1>15, <1>16 DEF Linked
<1>18. \A g \in DOMAIN m.dev :
          m.dev[g].listed /\ m.dev[g].apiLegacy # Blank /\ m.dev[g].id = newID
             => old \in {Blank, newID, m.dev[g].apiLegacy} \cup DOMAIN m.ids
  <2>1. \A g \in DOMAIN c.dev : g # h => D[g].id # newID
    BY <1>7 DEF Linked, IdsAgree
  <2> QED BY <1>2, <1>7, <1>14, <2>1
<1>19. newID \in DOMAIN m.ids /\ old \in NodeIds \cup {Blank} /\ m.ids[newID] = h
  BY <1>2, <1>3, <1>8
<1>20. /\ Linked(n)
       /\ n.ids = m.ids /\ n.addrs = m.addrs /\ DOMAIN n.dev = DOMAIN m.dev
       /\ \A g \in DOMAIN m.dev : SameEntry(n.dev[g], m.dev[g])
       /\ \A id, g : Leads(m, id, g) =>
             Leads(n, id, g) \/ (id = old /\ Leads(n, id, m.ids[newID]))
       /\ old # Blank => Leads(n, old, m.ids[newID]) \/ old \in DOMAIN m.ids
  BY <1>1, <1>17, <1>18, <1>19, AliasKeeps, Z3
<1>21. Leads(n, old, h)
  BY <1>2, <1>3, <1>8, <1>19, <1>20, BlankIsNoId
<1>22. \A id, g : Leads(c, id, g) => Leads(n, id, g) \/ id = newID
  <2> SUFFICES ASSUME NEW id, NEW g, Leads(c, id, g), id # newID PROVE Leads(n, id, g)
    OBVIOUS
  <2>1. CASE id = old
    <3>1. g = h
      BY <1>3, <2>1 DEF Leads, Linked, AliasesAgree
    <3> QED BY <1>21, <2>1, <3>1
  <2>2. CASE id # old
    <3>1. Leads(m, id, g)
      <4>1. CASE id \in DOMAIN c.ids
        <5>1. g = c.ids[id]
          BY <4>1 DEF Leads, Linked, AliasesAgree
        <5> QED BY <1>2, <1>8, <2>2, <4>1, <5>1 DEF Leads
      <4>2. CASE id \notin DOMAIN c.ids
        <5>1. id \in DOMAIN c.aliases /\ g = c.ids[c.aliases[id]] /\ id \in DOMAIN A
          BY <1>9, <4>2 DEF Leads
        <5>2. CASE id \in kept
          <6>1. g = h /\ A[id] = newID
            BY <1>3, <1>4, <1>9, <5>1, <5>2
          <6> QED BY <1>2, <1>8, <5>1, <6>1 DEF Leads
        <5>3. CASE id \notin kept
          <6>1. I[A[id]] = g
            BY <1>8, <1>12, <5>1, <5>3
          <6> QED BY <1>2, <5>1, <6>1 DEF Leads
        <5> QED BY <5>2, <5>3
      <4> QED BY <4>1, <4>2
    <3> QED BY <1>20, <2>2, <3>1
  <2> QED BY <2>1, <2>2
<1>23. \A g \in DOMAIN c.dev : g # h => SameEntry(n.dev[g], c.dev[g])
  BY <1>2, <1>7, <1>20 DEF SameEntry
<1>24. n.dev[h].id = newID
  BY <1>2, <1>6, <1>7, <1>20 DEF SameEntry
<1>25. \A g \in DOMAIN c.dev : /\ n.dev[g].node = c.dev[g].node /\ n.dev[g].ips = c.dev[g].ips
                               /\ n.dev[g].listed = c.dev[g].listed
                               /\ n.dev[g].seen = c.dev[g].seen
                               /\ n.dev[g].apiLegacy = c.dev[g].apiLegacy
  BY <1>2, <1>7, <1>14, <1>20 DEF SameEntry
<1> QED BY <1>2, <1>7, <1>8, <1>19, <1>20, <1>22, <1>23, <1>24, <1>25

\* Filling in an entry: its names stay, and a listed one keeps its addresses.
LEMMA FillKeeps ==
    ASSUME NEW c, WellFormed(c), NEW h \in DOMAIN c.dev, NEW e \in Entry,
           e.id = c.dev[h].id, e.listed = c.dev[h].listed, e.apiLegacy = c.dev[h].apiLegacy,
           e.aliases = c.dev[h].aliases,
           c.dev[h].node # Blank => e.node = c.dev[h].node,
           IF e.listed THEN e.ips = c.dev[h].ips ELSE c.dev[h].ips \subseteq e.ips,
           NEW n, n = [c EXCEPT !.dev[h] = e]
    PROVE  /\ WellFormed(n)
           /\ n.ids = c.ids /\ n.addrs = c.addrs /\ n.aliases = c.aliases
           /\ DOMAIN n.dev = DOMAIN c.dev /\ n.dev[h] = e
           /\ \A g \in DOMAIN c.dev : g # h => n.dev[g] = c.dev[g]
<1> DEFINE D == [c.dev EXCEPT ![h] = e]
<1>1. /\ n.dev = D /\ n.ids = c.ids /\ n.addrs = c.addrs /\ n.aliases = c.aliases
      /\ DOMAIN n = {"dev", "ids", "addrs", "aliases"}
  BY DEF WellFormed, Typed
<1>2. /\ DOMAIN D = DOMAIN c.dev /\ D[h] = e /\ \A g \in DOMAIN c.dev : g # h => D[g] = c.dev[g]
      /\ D = [g \in DOMAIN D |-> D[g]]
  OBVIOUS
<1> HIDE DEF D
<1>3. \A g \in DOMAIN c.dev :
         /\ D[g] \in Entry /\ D[g].id = c.dev[g].id /\ D[g].listed = c.dev[g].listed
         /\ D[g].apiLegacy = c.dev[g].apiLegacy /\ D[g].aliases = c.dev[g].aliases
         /\ c.dev[g].node # Blank => D[g].node = c.dev[g].node
         /\ c.dev[g].ips \subseteq D[g].ips
         /\ D[g].listed => D[g].ips = c.dev[g].ips
  BY <1>2, TypedFacts DEF WellFormed
<1>4. Typed(n)
  <2>1. D \in [DOMAIN D -> Entry]
    BY <1>2, <1>3
  <2> QED BY <1>1, <1>2, <2>1 DEF WellFormed, Typed
<1>5. IdsAgree(n)
  BY <1>1, <1>2, <1>3, TypedFacts DEF WellFormed, IdsAgree
<1>6. AliasesAgree(n)
  BY <1>1, <1>3, TypedFacts DEF WellFormed, AliasesAgree
<1>7. AddressesAgree(n)
  BY <1>1, <1>3, TypedFacts DEF WellFormed, AddressesAgree
<1>8. ListedAddresses(n)
  BY <1>1, <1>2, <1>3, TypedFacts DEF WellFormed, ListedAddresses
<1>9. ListedNames(n)
  <2>1. \A g \in DOMAIN c.dev : c.dev[g].id # Blank
    BY TypedFacts, BlankIsNoId DEF WellFormed, Entry
  <2> QED BY <1>1, <1>2, <1>3, <2>1 DEF WellFormed, ListedNames
<1> QED BY <1>1, <1>2, <1>4, <1>5, <1>6, <1>7, <1>8, <1>9 DEF WellFormed

\* A new entry in the maps.
WithEntry(c, h, e) == [c EXCEPT !.dev = Put(@, h, e), !.ids = Put(@, e.id, h)]

\* A new entry for an id that names none yet.
LEMMA NewEntryKeeps ==
    ASSUME NEW c, Linked(c), NEW h \in Nat, h \notin DOMAIN c.dev, NEW e \in Entry,
           e.id \notin DOMAIN c.ids \cup DOMAIN c.aliases,
           e.listed /\ e.apiLegacy # Blank => e.node = e.id /\ <<e.id, e.apiLegacy>> \in TwoIds,
           NEW m, m = WithEntry(c, h, e)
    PROVE  /\ Linked(m)
           /\ m.addrs = c.addrs /\ m.aliases = c.aliases
           /\ DOMAIN m.dev = DOMAIN c.dev \cup {h} /\ m.dev[h] = e
           /\ \A g \in DOMAIN c.dev : m.dev[g] = c.dev[g] /\ g # h
           /\ DOMAIN m.ids = DOMAIN c.ids \cup {e.id} /\ m.ids[e.id] = h
           /\ \A k \in DOMAIN c.ids : m.ids[k] = c.ids[k] /\ k # e.id
<1> DEFINE D == [g \in DOMAIN c.dev \cup {h} |-> IF g = h THEN e ELSE c.dev[g]]
           I == [k \in DOMAIN c.ids \cup {e.id} |-> IF k = e.id THEN h ELSE c.ids[k]]
<1>1. m = [c EXCEPT !.dev = D, !.ids = I]
  BY DEF Put, WithEntry
<1>2. /\ m.dev = D /\ m.ids = I /\ m.addrs = c.addrs /\ m.aliases = c.aliases
      /\ DOMAIN m = {"dev", "ids", "addrs", "aliases"}
  <2> HIDE DEF D, I
  <2> QED BY <1>1 DEF Linked, Typed
<1>3. /\ DOMAIN D = DOMAIN c.dev \cup {h} /\ D[h] = e
      /\ \A g \in DOMAIN c.dev : D[g] = c.dev[g] /\ g # h
      /\ D = [g \in DOMAIN D |-> D[g]]
  OBVIOUS
<1>4. /\ DOMAIN I = DOMAIN c.ids \cup {e.id} /\ I[e.id] = h
      /\ \A k \in DOMAIN c.ids : I[k] = c.ids[k] /\ k # e.id
      /\ I = [k \in DOMAIN I |-> I[k]]
  OBVIOUS
<1>5. e.id \in NodeIds
  BY DEF Entry
<1> HIDE DEF D, I
<1>6. Typed(m)
  <2>1. D \in [DOMAIN D -> Entry] /\ DOMAIN D \subseteq Nat /\ IsFiniteSet(DOMAIN D)
    <3>1. \A g \in DOMAIN D : D[g] \in Entry /\ g \in Nat
      BY <1>3, TypedFacts DEF Linked
    <3>2. IsFiniteSet(DOMAIN D)
      BY <1>3, FS_AddElement DEF Linked, Typed
    <3> QED BY <1>3, <3>1, <3>2
  <2>2. I \in [DOMAIN I -> DOMAIN D] /\ DOMAIN I \subseteq NodeIds
    <3>1. \A k \in DOMAIN I : I[k] \in DOMAIN D /\ k \in NodeIds
      BY <1>3, <1>4, <1>5, TypedFacts DEF Linked
    <3> QED BY <1>4, <3>1
  <2>3. c.addrs \in [DOMAIN c.addrs -> DOMAIN D] /\ DOMAIN c.addrs \subseteq Addresses
    BY <1>3 DEF Linked, Typed
  <2> QED BY <1>2, <2>1, <2>2, <2>3 DEF Linked, Typed
<1>7. IdsAgree(m)
  <2>1. \A k \in DOMAIN I : D[I[k]].id = k
    BY <1>3, <1>4, TypedFacts DEF Linked, IdsAgree
  <2>2. \A g \in DOMAIN D : D[g].id \in DOMAIN I /\ I[D[g].id] = g
    BY <1>3, <1>4, TypedFacts DEF Linked, IdsAgree
  <2> QED BY <1>2, <2>1, <2>2 DEF IdsAgree
<1>8. \A x \in DOMAIN c.aliases :
         /\ c.aliases[x] \in DOMAIN c.ids /\ c.ids[c.aliases[x]] \in DOMAIN c.dev
         /\ x \in c.dev[c.ids[c.aliases[x]]].aliases
  BY TypedFacts DEF Linked, AliasesAgree
<1>9. AliasesAgree(m)
  BY <1>2, <1>3, <1>4, <1>8 DEF Linked, AliasesAgree
<1>10. AddressesAgree(m)
  BY <1>2, <1>3, TypedFacts DEF Linked, AddressesAgree
<1>11. ListedNames(m)
  <2>1. \A x \in DOMAIN c.aliases : c.aliases[x] # e.id
    BY <1>8
  <2>2. ListedNames(c)
    BY DEF Linked
  <2> QED BY <1>2, <1>3, <2>1, <2>2 DEF ListedNames
<1>12. Linked(m)
  BY <1>6, <1>7, <1>9, <1>10, <1>11 DEF Linked
<1> QED BY <1>2, <1>3, <1>4, <1>12

\* A new flow-only entry for an id and a legacy id that are no names yet.
LEMMA InsertKeeps ==
    ASSUME NEW c, WellFormed(c), NEW incoming \in Entry, ~incoming.listed,
           incoming.apiLegacy = Blank, incoming.aliases = {},
           incoming.id \notin DOMAIN c.ids \cup DOMAIN c.aliases,
           NEW legacy \in NodeIds \cup {Blank}, legacy \notin DOMAIN c.ids \cup DOMAIN c.aliases,
           NEW n, n = insertLocked(c, incoming, legacy)
    PROVE  /\ WellFormed(n)
           /\ \A id, g : Leads(c, id, g) =>
                 Leads(n, id, g) /\ SameEntry(n.dev[g], c.dev[g])
           /\ \E h : Leads(n, incoming.id, h) /\ n.dev[h].seen = incoming.seen
<1> DEFINE h == FreshHandle(c)
           e == [incoming EXCEPT !.node =
                   IF @ = Blank /\ isStableNodeID(incoming.id) THEN incoming.id ELSE @]
           m == [c EXCEPT !.dev = Put(@, h, e), !.ids = Put(@, incoming.id, h)]
           a == aliasLocked(m, legacy, incoming.id)
<1>1. n = mapIPs(a, e.ips, h)
  BY DEF insertLocked
<1>2. /\ e \in Entry /\ e.id = incoming.id /\ ~e.listed /\ e.apiLegacy = Blank
      /\ e.seen = incoming.seen /\ e.ips \in SUBSET Addresses
  BY DEF Entry, isStableNodeID
<1>3. h \in Nat /\ h \notin DOMAIN c.dev
  BY FreshHandleIsNew DEF WellFormed
<1> HIDE DEF h, e
<1>4. m = WithEntry(c, h, e) /\ Linked(c)
  BY <1>2 DEF WellFormed, Linked, WithEntry
<1> HIDE DEF m
<1>5. /\ Linked(m)
      /\ m.addrs = c.addrs /\ m.aliases = c.aliases
      /\ DOMAIN m.dev = DOMAIN c.dev \cup {h} /\ m.dev[h] = e
      /\ \A g \in DOMAIN c.dev : m.dev[g] = c.dev[g] /\ g # h
      /\ DOMAIN m.ids = DOMAIN c.ids \cup {e.id} /\ m.ids[e.id] = h
      /\ \A k \in DOMAIN c.ids : m.ids[k] = c.ids[k] /\ k # e.id
  <2>1. /\ e.id \notin DOMAIN c.ids \cup DOMAIN c.aliases
        /\ e.listed /\ e.apiLegacy # Blank => e.node = e.id /\ <<e.id, e.apiLegacy>> \in TwoIds
        /\ e \in Entry
    BY <1>2
  <2> QED BY <1>3, <1>4, <2>1, NewEntryKeeps, Z3
<1>6. ListedAddresses(m)
  BY <1>2, <1>5, TypedFacts DEF WellFormed, ListedAddresses
<1>7. \A g \in DOMAIN m.dev :
          m.dev[g].listed /\ m.dev[g].apiLegacy # Blank /\ m.dev[g].id = incoming.id
             => legacy \in {Blank, incoming.id, m.dev[g].apiLegacy} \cup DOMAIN m.ids
  BY <1>2, <1>5, TypedFacts DEF WellFormed, IdsAgree
<1>8. /\ Linked(a)
      /\ a.ids = m.ids /\ a.addrs = m.addrs /\ DOMAIN a.dev = DOMAIN m.dev
      /\ \A g \in DOMAIN m.dev : SameEntry(a.dev[g], m.dev[g])
      /\ \A id, g : Leads(m, id, g) =>
            Leads(a, id, g) \/ (id = legacy /\ Leads(a, id, m.ids[incoming.id]))
      /\ legacy # Blank => Leads(a, legacy, m.ids[incoming.id]) \/ legacy \in DOMAIN m.ids
  <2>1. incoming.id \in DOMAIN m.ids /\ Linked(m)
    BY <1>2, <1>5
  <2>2. a = aliasLocked(m, legacy, incoming.id)
    OBVIOUS
  <2> HIDE DEF a
  <2> QED BY <1>7, <2>1, <2>2, AliasKeeps, Z3
<1> HIDE DEF a
<1>9. ListedAddresses(a)
  BY <1>5, <1>6, <1>8, ListedAddressesKeep DEF SameEntry, Linked
<1>10. h \in DOMAIN a.dev /\ a.dev[h].ips = e.ips /\ a.dev[h].seen = incoming.seen
  BY <1>2, <1>5, <1>8 DEF SameEntry
<1>11. /\ Linked(n) /\ ListedAddresses(n)
       /\ n.dev = a.dev /\ n.ids = a.ids /\ n.aliases = a.aliases
  BY <1>1, <1>2, <1>8, <1>9, <1>10, MapKeeps
<1>12. ASSUME NEW id, NEW g, Leads(c, id, g)
       PROVE  Leads(n, id, g) /\ SameEntry(n.dev[g], c.dev[g])
  <2>1. id \in DOMAIN c.ids \cup DOMAIN c.aliases /\ id # legacy /\ g \in DOMAIN c.dev
    BY <1>12, TypedFacts DEF Leads, WellFormed, AliasesAgree
  <2>2. Leads(m, id, g)
    BY <1>5, <1>12 DEF Leads, WellFormed, AliasesAgree
  <2>3. Leads(n, id, g)
    BY <1>8, <1>11, <2>1, <2>2 DEF Leads
  <2> QED BY <1>5, <1>8, <1>11, <2>1, <2>3 DEF SameEntry
<1>13. Leads(n, incoming.id, h)
  BY <1>2, <1>5, <1>8, <1>11 DEF Leads
<1>14. WellFormed(n)
  BY <1>11 DEF Linked, WellFormed
<1> QED BY <1>10, <1>11, <1>12, <1>13, <1>14

\* The entry matchLocked may find for incoming ids.
Matches(c, h, incoming, legacy) ==
    \/ Leads(c, incoming.id, h)
    \/ /\ incoming.id \notin DOMAIN c.ids \cup DOMAIN c.aliases
       /\ \/ Leads(c, legacy, h)
          \/ ~identitiesConflict(c.dev[h], incoming, legacy)

\* Ids that a log line or a row may name together.
NamedTogether(id, legacy) == legacy # Blank => <<id, legacy>> \in TwoIds

\* Two ids named together are a stable and a numeric one, and each determines the other.
LEMMA TwoIdsFacts ==
    /\ \A id, legacy : <<id, legacy>> \in TwoIds => id \in StableIds /\ legacy \in NumericIds
    /\ \A a, b, x, y : <<a, x>> \in TwoIds /\ <<b, y>> \in TwoIds => (a = b <=> x = y)
<1>1. ASSUME NEW p \in TwoIds PROVE p[1] \in StableIds /\ p[2] \in NumericIds
  <2>1. CASE p \in {<<d.id, d.legacy>> : d \in {x \in Devices : x.legacy # Blank}}
    <3>1. PICK d \in Devices : d.legacy # Blank /\ p = <<d.id, d.legacy>>
      BY <2>1
    <3>2. d.id \in StableIds /\ d.legacy \in NumericIds
      BY <3>1, ListsAssumption DEF isStableNodeID
    <3> QED BY <3>1, <3>2
  <2>2. CASE p \in {<<n.nodeId, n.id>> : n \in {x \in LogNodes :
                       x.nodeId # Blank /\ x.id # Blank /\ x.id # x.nodeId}}
    <3>1. PICK n \in LogNodes : /\ n.nodeId # Blank /\ n.id # Blank /\ n.id # n.nodeId
                                /\ p = <<n.nodeId, n.id>>
      BY <2>2
    <3>2. isStableNodeID(n.nodeId) /\ ~isStableNodeID(n.id) /\ n.id \in NodeIds \cup {Blank}
      BY <3>1, LogsAssumption
    <3> QED BY <3>1, <3>2 DEF isStableNodeID, NodeIds
  <2> QED BY <2>1, <2>2 DEF TwoIds
<1>2. \A a, b, x, y : <<a, x>> \in TwoIds /\ <<b, y>> \in TwoIds => (a = b <=> x = y)
  BY TwoIdsAssumption
<1> QED BY <1>1, <1>2

\* A device listed under both its ids is matched under no other id.
LEMMA MatchNames ==
    ASSUME NEW c, WellFormed(c), NEW h \in DOMAIN c.dev, NEW incoming \in Entry,
           NEW legacy \in NumericIds \cup {Blank}, NamedTogether(incoming.id, legacy),
           Matches(c, h, incoming, legacy), c.dev[h].listed, c.dev[h].apiLegacy # Blank
    PROVE  /\ incoming.id \in {c.dev[h].id, c.dev[h].apiLegacy}
           /\ legacy \in {Blank, c.dev[h].apiLegacy}
<1> DEFINE e == c.dev[h]
<1>1. /\ e.node = e.id /\ <<e.id, e.apiLegacy>> \in TwoIds
      /\ \A a \in DOMAIN c.aliases : c.aliases[a] = e.id => a = e.apiLegacy
  BY DEF WellFormed, ListedNames
<1>2. e.id \in StableIds /\ e.apiLegacy \in NumericIds
  BY <1>1, TwoIdsFacts
<1>3. ASSUME NEW id, Leads(c, id, h) PROVE id \in {e.id, e.apiLegacy}
  <2>1. CASE id \in DOMAIN c.ids /\ h = c.ids[id]
    BY <2>1 DEF WellFormed, IdsAgree
  <2>2. CASE id \in DOMAIN c.aliases /\ h = c.ids[c.aliases[id]]
    <3>1. e.id = c.aliases[id]
      BY <2>2 DEF WellFormed, AliasesAgree, IdsAgree
    <3> QED BY <1>1, <2>2, <3>1
  <2> QED BY <1>3, <2>1, <2>2 DEF Leads
<1>4. legacy # Blank => incoming.id \in StableIds /\ legacy \in NumericIds
                        /\ <<incoming.id, legacy>> \in TwoIds
  BY TwoIdsFacts DEF NamedTogether
<1>5. StableIds \cap NumericIds = {}
  BY IdAssumption
<1>6. CASE Leads(c, incoming.id, h)
  <2>1. incoming.id \in {e.id, e.apiLegacy}
    BY <1>3, <1>6
  <2>2. legacy # Blank => legacy = e.apiLegacy
    BY <1>1, <1>2, <1>4, <1>5, <2>1, TwoIdsFacts
  <2> QED BY <2>1, <2>2
<1>7. CASE Leads(c, legacy, h)
  <2>1. legacy \in {e.id, e.apiLegacy} /\ legacy # Blank
    BY <1>2, <1>3, <1>7, BlankIsNoId
  <2>2. legacy = e.apiLegacy
    BY <1>2, <1>4, <1>5, <2>1
  <2> QED BY <1>1, <1>4, <2>1, <2>2, TwoIdsFacts
<1>8. CASE ~identitiesConflict(e, incoming, legacy)
  <2>1. e.node # Blank /\ e.node = e.id
    BY <1>1, <1>2, BlankIsNoId
  <2>2. \A id \in {incoming.id, legacy} \ {Blank} :
           IF id \in StableIds THEN id = e.id ELSE id = e.apiLegacy
    BY <1>8, <2>1 DEF identitiesConflict, isStableNodeID
  <2>3. incoming.id # Blank
    BY BlankIsNoId DEF Entry
  <2>4. legacy # Blank => legacy \notin StableIds
    BY <1>4, <1>5
  <2> QED BY <2>2, <2>3, <2>4
<1> QED BY <1>6, <1>7, <1>8 DEF Matches

\* Merging into the entry that matches keeps every name but the legacy id of the line,
\* which may go to that entry; the id of the line leads to it, seen as late.
LEMMA MergeKeeps ==
    ASSUME NEW c, WellFormed(c), NEW h \in DOMAIN c.dev, NEW incoming \in Entry,
           incoming.node = Blank, NEW legacy \in NumericIds \cup {Blank},
           NamedTogether(incoming.id, legacy), Matches(c, h, incoming, legacy),
           NEW n, n = mergeLocked(c, h, incoming, legacy)
    PROVE  /\ WellFormed(n)
           /\ Leads(n, incoming.id, h) /\ n.dev[h].seen >= incoming.seen
           /\ DOMAIN n.dev = DOMAIN c.dev
           /\ \A g \in DOMAIN c.dev : /\ n.dev[g].listed = c.dev[g].listed
                                      /\ n.dev[g].seen >= c.dev[g].seen
           /\ \A id, g : Leads(c, id, g) =>
                 Leads(n, id, g) \/ (id = legacy /\ Leads(n, id, h))
<1> DEFINE old == c.dev[h]
           owner == IF old.owner = Blank THEN incoming.owner ELSE old.owner
           node == IF old.node = Blank THEN incoming.node ELSE old.node
           seen == IF incoming.seen > old.seen THEN incoming.seen ELSE old.seen
           ips == IF old.listed THEN old.ips ELSE old.ips \cup incoming.ips
           filled == [old EXCEPT !.owner = owner, !.node = node, !.seen = seen, !.ips = ips]
           c1 == [c EXCEPT !.dev[h] = filled]
           c2 == IF old.listed THEN mapIPs(c1, incoming.ips, h) ELSE c1
           next == preferredID(old.id, incoming.id)
           c3 == IF next # old.id THEN rekeyLocked(c2, h, next) ELSE c2
           named == [c3.dev[h] EXCEPT !.node = IF @ = Blank /\ isStableNodeID(next) THEN next ELSE @]
           c4 == [c3 EXCEPT !.dev[h] = named]
           a1 == aliasLocked(c4, incoming.id, next)
           c5 == aliasLocked(a1, legacy, next)
<1>1. n = mapIPs(c5, filled.ips, h)
  BY DEF mergeLocked
<1>2. /\ old \in Entry /\ h \in Nat /\ old.id \in NodeIds /\ incoming.id \in NodeIds
      /\ incoming.ips \in SUBSET Addresses /\ incoming.seen \in Nat /\ old.seen \in Nat
      /\ old.id \in DOMAIN c.ids /\ c.ids[old.id] = h
  BY TypedFacts DEF WellFormed, Entry, IdsAgree
<1>3. /\ filled \in Entry /\ filled.id = old.id /\ filled.listed = old.listed
      /\ filled.apiLegacy = old.apiLegacy /\ filled.aliases = old.aliases
      /\ filled.node = old.node
      /\ IF old.listed THEN filled.ips = old.ips ELSE old.ips \subseteq filled.ips
      /\ filled.seen >= old.seen /\ filled.seen >= incoming.seen
      /\ filled.ips \in SUBSET Addresses
  <2> HIDE DEF old
  <2>1. owner \in Nat /\ node = old.node /\ node \in StableIds \cup {Blank}
    BY <1>2 DEF Entry
  <2>2. seen \in Nat /\ seen >= old.seen /\ seen >= incoming.seen
    BY <1>2
  <2>3. /\ ips \in SUBSET Addresses
        /\ IF old.listed THEN ips = old.ips ELSE old.ips \subseteq ips
    BY <1>2 DEF Entry
  <2> HIDE DEF owner, node, seen, ips
  <2>4. filled \in Entry
    BY <1>2, <2>1, <2>2, <2>3 DEF Entry
  <2>5. /\ filled.id = old.id /\ filled.listed = old.listed /\ filled.apiLegacy = old.apiLegacy
        /\ filled.aliases = old.aliases /\ filled.node = node /\ filled.seen = seen
        /\ filled.ips = ips
    BY <1>2 DEF Entry
  <2> HIDE DEF filled
  <2> QED BY <2>1, <2>2, <2>3, <2>4, <2>5
<1>4. next \in {old.id, incoming.id} /\ (next # old.id => next = incoming.id /\ next \in StableIds
                                                         /\ old.id \notin StableIds)
  BY DEF preferredID, isStableNodeID
<1> HIDE DEF filled, next
<1>5. /\ WellFormed(c1) /\ c1.ids = c.ids /\ c1.addrs = c.addrs /\ c1.aliases = c.aliases
      /\ DOMAIN c1.dev = DOMAIN c.dev /\ c1.dev[h] = filled
      /\ \A g \in DOMAIN c.dev : g # h => c1.dev[g] = c.dev[g]
  <2> HIDE DEF c1
  <2>1. c1 = [c EXCEPT !.dev[h] = filled]
    BY DEF c1
  <2> QED BY <1>3, <2>1, FillKeeps, Z3
<1> HIDE DEF c1
<1>6. /\ WellFormed(c2) /\ c2.dev = c1.dev /\ c2.ids = c.ids /\ c2.aliases = c.aliases
  <2>1. CASE old.listed
    <3>1. c2 = mapIPs(c1, incoming.ips, h)
      BY <2>1
    <3>2. Linked(c1) /\ ListedAddresses(c1) /\ h \in DOMAIN c1.dev /\ c1.dev[h].listed
      BY <1>3, <1>5, <2>1 DEF WellFormed, Linked
    <3> HIDE DEF c2
    <3>3. /\ Linked(c2) /\ ListedAddresses(c2)
          /\ c2.dev = c1.dev /\ c2.ids = c1.ids /\ c2.aliases = c1.aliases
      BY <1>2, <3>1, <3>2, MapKeeps
    <3> QED BY <1>5, <3>3 DEF WellFormed, Linked
  <2>2. CASE ~old.listed
    BY <1>5, <2>2
  <2> QED BY <2>1, <2>2
<1> HIDE DEF c2
<1>7. \A id, g : Leads(c2, id, g) <=> Leads(c, id, g)
  BY <1>6 DEF Leads
<1>8. ASSUME NEW g, Leads(c, incoming.id, g) PROVE g = h
  <2>1. incoming.id \in DOMAIN c.ids \cup DOMAIN c.aliases
    BY <1>8 DEF Leads
  <2>2. Leads(c, incoming.id, h)
    BY <2>1 DEF Matches
  <2> QED BY <1>8, <2>2, DeviceFound DEF WellFormed
<1>9. ASSUME next # old.id
      PROVE  /\ next \notin DOMAIN c.ids
             /\ old.listed => old.apiLegacy = Blank
  <2>1. next = incoming.id
    BY <1>4, <1>9
  <2>2. next \notin DOMAIN c.ids
    <3> SUFFICES ASSUME next \in DOMAIN c.ids PROVE FALSE
      OBVIOUS
    <3>1. Leads(c, incoming.id, c.ids[next])
      BY <2>1 DEF Leads
    <3>2. c.ids[next] = h
      BY <1>8, <3>1
    <3> QED BY <1>9, <3>2 DEF WellFormed, IdsAgree
  <2>3. old.listed => old.apiLegacy = Blank
    <3> SUFFICES ASSUME old.listed, old.apiLegacy # Blank PROVE FALSE
      OBVIOUS
    <3>1. <<old.id, old.apiLegacy>> \in TwoIds
      BY DEF WellFormed, ListedNames
    <3> QED BY <1>4, <1>9, <3>1, TwoIdsFacts
  <2> QED BY <2>2, <2>3
<1>10. /\ WellFormed(c3) /\ DOMAIN c3.dev = DOMAIN c.dev
       /\ c3.dev[h].id = next /\ next \in DOMAIN c3.ids /\ c3.ids[next] = h
       /\ \A g \in DOMAIN c.dev :
             /\ c3.dev[g].node = c2.dev[g].node /\ c3.dev[g].ips = c2.dev[g].ips
             /\ c3.dev[g].listed = c2.dev[g].listed /\ c3.dev[g].seen = c2.dev[g].seen
             /\ c3.dev[g].apiLegacy = c2.dev[g].apiLegacy
       /\ \A id, g : Leads(c, id, g) => Leads(c3, id, g)
       /\ incoming.id \in DOMAIN c3.ids => c3.ids[incoming.id] = h
  <2>1. CASE next # old.id
    <3>1. c3 = rekeyLocked(c2, h, next)
      BY <2>1
    <3>2. /\ next \in NodeIds /\ next \notin DOMAIN c2.ids /\ Linked(c2) /\ ListedAddresses(c2)
          /\ h \in DOMAIN c2.dev
          /\ c2.dev[h].listed => c2.dev[h].apiLegacy = Blank
      BY <1>2, <1>3, <1>4, <1>5, <1>6, <1>9, <2>1 DEF WellFormed, Linked
    <3> HIDE DEF c3
    <3>3. /\ Linked(c3)
          /\ c3.addrs = c2.addrs /\ DOMAIN c3.dev = DOMAIN c2.dev
          /\ \A g \in DOMAIN c2.dev : g # h => SameEntry(c3.dev[g], c2.dev[g])
          /\ c3.dev[h].id = next
          /\ \A g \in DOMAIN c2.dev :
                 /\ c3.dev[g].node = c2.dev[g].node /\ c3.dev[g].ips = c2.dev[g].ips
                 /\ c3.dev[g].listed = c2.dev[g].listed /\ c3.dev[g].seen = c2.dev[g].seen
                 /\ c3.dev[g].apiLegacy = c2.dev[g].apiLegacy
          /\ next \in DOMAIN c3.ids /\ c3.ids[next] = h
          /\ \A id, g : Leads(c2, id, g) => Leads(c3, id, g) \/ id = next
      BY <3>1, <3>2, RekeyKeeps, Z3
    <3>4. ListedAddresses(c3)
      BY <3>2, <3>3, ListedAddressesKeep DEF Linked
    <3>5. next = incoming.id /\ Leads(c3, next, h)
      BY <1>4, <2>1, <3>3 DEF Leads
    <3>6. \A id, g : Leads(c, id, g) => Leads(c3, id, g)
      BY <1>7, <1>8, <3>3, <3>5
    <3>7. WellFormed(c3)
      BY <3>3, <3>4 DEF WellFormed, Linked
    <3> QED BY <1>5, <1>6, <3>3, <3>5, <3>6, <3>7
  <2>2. CASE next = old.id
    <3>1. c3 = c2
      BY <2>2
    <3>2. incoming.id \in DOMAIN c.ids => Leads(c, incoming.id, c.ids[incoming.id])
      BY DEF Leads
    <3> HIDE DEF c3
    <3> QED BY <1>2, <1>3, <1>5, <1>6, <1>7, <1>8, <2>2, <3>1, <3>2
  <2> QED BY <2>1, <2>2
<1> HIDE DEF c3
<1>11. \A g \in DOMAIN c.dev :
          /\ c3.dev[g].listed = c.dev[g].listed /\ c3.dev[g].seen >= c.dev[g].seen
          /\ c3.dev[g].apiLegacy = c.dev[g].apiLegacy
  <2>1. c3.dev[h].listed = c.dev[h].listed /\ c3.dev[h].seen >= c.dev[h].seen
        /\ c3.dev[h].apiLegacy = c.dev[h].apiLegacy
    BY <1>3, <1>5, <1>6, <1>10
  <2>2. \A g \in DOMAIN c.dev : c.dev[g].seen >= c.dev[g].seen
    BY TypedFacts DEF WellFormed, Entry
  <2> QED BY <1>5, <1>6, <1>10, <2>1, <2>2
<1>12. c3.dev[h].ips = filled.ips /\ c3.dev[h].seen >= incoming.seen
  BY <1>3, <1>5, <1>6, <1>10
<1>13. /\ named \in Entry /\ named.id = next /\ named.listed = c3.dev[h].listed
       /\ named.apiLegacy = c3.dev[h].apiLegacy /\ named.aliases = c3.dev[h].aliases
       /\ named.ips = c3.dev[h].ips /\ named.seen = c3.dev[h].seen
       /\ c3.dev[h].node # Blank => named.node = c3.dev[h].node
  <2>1. c3.dev[h] \in Entry
    BY <1>10, TypedFacts DEF WellFormed
  <2> QED BY <1>10, <2>1 DEF Entry, isStableNodeID
<1> HIDE DEF named
<1>14. /\ WellFormed(c4)
       /\ c4.ids = c3.ids /\ c4.addrs = c3.addrs /\ c4.aliases = c3.aliases
       /\ DOMAIN c4.dev = DOMAIN c3.dev /\ c4.dev[h] = named
       /\ \A g \in DOMAIN c3.dev : g # h => c4.dev[g] = c3.dev[g]
  <2>1. h \in DOMAIN c3.dev /\ c3.dev[h].ips \subseteq named.ips
    BY <1>10, <1>13
  <2>2. c4 = [c3 EXCEPT !.dev[h] = named]
    OBVIOUS
  <2> HIDE DEF c4
  <2> QED BY <1>10, <1>13, <2>1, <2>2, FillKeeps, Z3
<1> HIDE DEF c4
<1>15. \A g \in DOMAIN c.dev :
          /\ c4.dev[g].listed = c.dev[g].listed /\ c4.dev[g].seen >= c.dev[g].seen
          /\ c4.dev[g].apiLegacy = c.dev[g].apiLegacy
  BY <1>10, <1>11, <1>13, <1>14
<1>16. ASSUME NEW g \in DOMAIN c4.dev, c4.dev[g].listed, c4.dev[g].apiLegacy # Blank,
              c4.dev[g].id = next
       PROVE  /\ incoming.id \in {Blank, next, c4.dev[g].apiLegacy}
              /\ legacy \in {Blank, next, c4.dev[g].apiLegacy}
  <2>1. g = h
    BY <1>10, <1>14, <1>16 DEF WellFormed, IdsAgree
  <2>2. /\ c.dev[h].listed /\ c.dev[h].apiLegacy # Blank
        /\ c4.dev[g].apiLegacy = c.dev[h].apiLegacy
    BY <1>15, <1>16, <2>1
  <2>3. /\ incoming.id \in {c.dev[h].id, c.dev[h].apiLegacy}
        /\ legacy \in {Blank, c.dev[h].apiLegacy}
    BY <2>2, MatchNames
  <2>4. incoming.id = c.dev[h].id => next = incoming.id
    BY <1>4
  <2> QED BY <2>2, <2>3, <2>4
<1>17. /\ Linked(a1)
       /\ a1.ids = c4.ids /\ a1.addrs = c4.addrs /\ DOMAIN a1.dev = DOMAIN c4.dev
       /\ \A g \in DOMAIN c4.dev : SameEntry(a1.dev[g], c4.dev[g])
       /\ \A id, g : Leads(c4, id, g) =>
             Leads(a1, id, g) \/ (id = incoming.id /\ Leads(a1, id, c4.ids[next]))
       /\ incoming.id # Blank => Leads(a1, incoming.id, c4.ids[next]) \/ incoming.id \in DOMAIN c4.ids
  <2>1. \A g \in DOMAIN c4.dev :
           c4.dev[g].listed /\ c4.dev[g].apiLegacy # Blank /\ c4.dev[g].id = next
              => incoming.id \in {Blank, next, c4.dev[g].apiLegacy} \cup DOMAIN c4.ids
    BY <1>16
  <2>2. /\ Linked(c4) /\ next \in DOMAIN c4.ids /\ incoming.id \in NodeIds \cup {Blank}
    BY <1>2, <1>10, <1>14 DEF WellFormed, Linked
  <2> QED BY <2>1, <2>2, AliasKeeps, Z3
<1> HIDE DEF a1
<1>18. /\ Linked(c5)
       /\ c5.ids = a1.ids /\ c5.addrs = a1.addrs /\ DOMAIN c5.dev = DOMAIN a1.dev
       /\ \A g \in DOMAIN a1.dev : SameEntry(c5.dev[g], a1.dev[g])
       /\ \A id, g : Leads(a1, id, g) =>
             Leads(c5, id, g) \/ (id = legacy /\ Leads(c5, id, a1.ids[next]))
       /\ legacy # Blank => Leads(c5, legacy, a1.ids[next]) \/ legacy \in DOMAIN a1.ids
  <2>1. \A g \in DOMAIN a1.dev :
           a1.dev[g].listed /\ a1.dev[g].apiLegacy # Blank /\ a1.dev[g].id = next
              => legacy \in {Blank, next, a1.dev[g].apiLegacy} \cup DOMAIN a1.ids
    BY <1>16, <1>17 DEF SameEntry
  <2>2. next \in DOMAIN a1.ids /\ legacy \in NodeIds \cup {Blank} /\ Linked(a1)
    BY <1>10, <1>14, <1>17, BlankIsNoId
  <2>3. c5 = aliasLocked(a1, legacy, next)
    OBVIOUS
  <2> HIDE DEF c5
  <2> QED BY <2>1, <2>2, <2>3, AliasKeeps, Z3
<1> HIDE DEF c5
<1>19. ListedAddresses(c5)
  <2>1. ListedAddresses(c4) /\ Typed(c4)
    BY <1>14 DEF WellFormed
  <2>2. \A g \in DOMAIN c4.dev : c5.dev[g].ips = c4.dev[g].ips /\ c5.dev[g].listed = c4.dev[g].listed
    BY <1>17, <1>18 DEF SameEntry
  <2> QED BY <1>17, <1>18, <2>1, <2>2, ListedAddressesKeep
<1>20. h \in DOMAIN c5.dev /\ c5.dev[h].ips = filled.ips
  BY <1>10, <1>12, <1>13, <1>14, <1>17, <1>18 DEF SameEntry
<1>21. /\ Linked(n) /\ ListedAddresses(n)
       /\ n.dev = c5.dev /\ n.ids = c5.ids /\ n.aliases = c5.aliases
  BY <1>1, <1>3, <1>18, <1>19, <1>20, MapKeeps
<1>22. \A id, g : Leads(n, id, g) <=> Leads(c5, id, g)
  BY <1>21 DEF Leads
<1>23. a1.ids[next] = h /\ c4.ids[next] = h
  BY <1>10, <1>14, <1>17
<1>24. Leads(n, incoming.id, h)
  <2>1. Leads(a1, incoming.id, h)
    <3>1. incoming.id \in DOMAIN c4.ids => Leads(a1, incoming.id, h)
      BY <1>10, <1>14, <1>17 DEF Leads
    <3>2. incoming.id # Blank
      BY <1>2, BlankIsNoId
    <3> QED BY <1>17, <1>23, <3>1, <3>2
  <2> QED BY <1>18, <1>22, <1>23, <2>1
<1>25. ASSUME NEW id, NEW g, Leads(c, id, g)
       PROVE  Leads(n, id, g) \/ (id = legacy /\ Leads(n, id, h))
  <2>1. Leads(c4, id, g)
    <3>1. Leads(c3, id, g)
      BY <1>10, <1>25
    <3> QED BY <1>14, <3>1 DEF Leads
  <2>2. Leads(a1, id, g)
    BY <1>8, <1>17, <1>23, <1>25, <2>1
  <2> QED BY <1>18, <1>22, <1>23, <2>2
<1>26. /\ DOMAIN n.dev = DOMAIN c.dev
       /\ \A g \in DOMAIN c.dev : /\ n.dev[g].listed = c.dev[g].listed
                                  /\ n.dev[g].seen >= c.dev[g].seen
       /\ n.dev[h].seen >= incoming.seen
  <2>1. DOMAIN n.dev = DOMAIN c.dev
    BY <1>10, <1>14, <1>17, <1>18, <1>21
  <2>2. \A g \in DOMAIN c.dev : n.dev[g].listed = c4.dev[g].listed /\ n.dev[g].seen = c4.dev[g].seen
    BY <1>10, <1>14, <1>17, <1>18, <1>21 DEF SameEntry
  <2> QED BY <1>12, <1>13, <1>14, <1>15, <2>1, <2>2
<1>27. WellFormed(n)
  BY <1>21 DEF Linked, WellFormed
<1> QED BY <1>24, <1>25, <1>26, <1>27

\* Two caches with the same maps are equally well formed and know the same names.
LEMMA SameMaps ==
    ASSUME NEW c, WellFormed(c), NEW n, DOMAIN n = {"dev", "ids", "addrs", "aliases"},
           n.dev = c.dev, n.ids = c.ids, n.addrs = c.addrs, n.aliases = c.aliases
    PROVE  /\ WellFormed(n)
           /\ \A id, h : Leads(c, id, h) <=> Leads(n, id, h)
           /\ \A id, t : KnownSince(c, id, t) <=> KnownSince(n, id, t)
<1>1. WellFormed(n)
  BY DEF WellFormed, Typed, IdsAgree, AliasesAgree, AddressesAgree, ListedAddresses, ListedNames
<1>2. \A id, h : Leads(c, id, h) <=> Leads(n, id, h)
  BY DEF Leads
<1>3. \A id : deviceLocked(c, id) = deviceLocked(n, id)
  BY DEF deviceLocked
<1>4. \A id, t : KnownSince(c, id, t) <=> KnownSince(n, id, t)
  BY <1>3 DEF KnownSince
<1> QED BY <1>1, <1>2, <1>4

\* A well-formed cache has no garbage.
LEMMA NothingCollected ==
    ASSUME NEW c, Typed(c), IdsAgree(c), NEW n, n = Collected(c)
    PROVE  /\ n.dev = c.dev /\ n.ids = c.ids /\ n.addrs = c.addrs /\ n.aliases = c.aliases
           /\ DOMAIN n = {"dev", "ids", "addrs", "aliases"}
<1> DEFINE live == {c.ids[i] : i \in DOMAIN c.ids} \cup {c.addrs[a] : a \in DOMAIN c.addrs}
           D == [h \in DOMAIN c.dev \cap live |-> c.dev[h]]
<1>1. n = [c EXCEPT !.dev = D]
  BY DEF Collected
<1>2. D = c.dev
  <2>1. DOMAIN c.dev \cap live = DOMAIN c.dev
    <3>1. \A h \in DOMAIN c.dev : h \in live
      BY DEF IdsAgree
    <3> QED BY <3>1
  <2>2. c.dev = [h \in DOMAIN c.dev |-> c.dev[h]]
    BY DEF Typed
  <2> HIDE DEF live
  <2> QED BY <2>1, <2>2
<1>3. DOMAIN c = {"dev", "ids", "addrs", "aliases"}
  BY DEF Typed
<1> HIDE DEF D
<1> QED BY <1>1, <1>2, <1>3

\* A line or a row is told to the cache: every name stays known, but for the legacy id
\* of the line, which is known as late as the line; so is the id of the line.
LEMMA AdoptKeeps ==
    ASSUME NEW c, WellFormed(c), NEW incoming \in Entry, ~incoming.listed,
           incoming.node = Blank, incoming.apiLegacy = Blank, incoming.aliases = {},
           NEW legacy \in NumericIds \cup {Blank}, NamedTogether(incoming.id, legacy),
           NEW n, n = adoptLocked(c, incoming, legacy)
    PROVE  /\ WellFormed(n)
           /\ KnownSince(n, incoming.id, incoming.seen)
           /\ \A id, t \in Nat : KnownSince(c, id, t) /\ (legacy = Blank \/ incoming.seen >= t)
                 => KnownSince(n, id, t)
<1> DEFINE found == matchLocked(c, incoming, legacy)
           h == CHOOSE x \in found : \A g \in found : x <= g
           m == IF found = {} THEN insertLocked(c, incoming, legacy)
                ELSE mergeLocked(c, h, incoming, legacy)
<1>1. incoming.id \in NodeIds /\ incoming.id # Blank /\ incoming.seen \in Nat
  BY BlankIsNoId DEF Entry
<1>2. n = Collected(m)
  BY <1>1 DEF adoptLocked
<1>3. AliasesAgree(c) /\ Typed(c)
  BY DEF WellFormed
<1>4. \A id : /\ \A g : g \in deviceLocked(c, id) <=> Leads(c, id, g)
              /\ deviceLocked(c, id) # {} <=> id \in DOMAIN c.ids \cup DOMAIN c.aliases
              /\ \A g, k : Leads(c, id, g) /\ Leads(c, id, k) => g = k
  BY <1>3, DeviceFound
<1>5. \A id, g : Leads(c, id, g) => g \in DOMAIN c.dev
  BY TypedFacts DEF WellFormed, AliasesAgree, Leads
<1>6. ASSUME NEW g \in found PROVE g \in DOMAIN c.dev /\ Matches(c, g, incoming, legacy)
  <2>1. CASE deviceLocked(c, incoming.id) # {}
    <3>1. g \in deviceLocked(c, incoming.id)
      BY <1>6, <2>1 DEF matchLocked
    <3> QED BY <1>4, <1>5, <3>1 DEF Matches
  <2>2. CASE deviceLocked(c, incoming.id) = {} /\ deviceLocked(c, legacy) # {}
    <3>1. g \in deviceLocked(c, legacy)
      BY <1>6, <2>2 DEF matchLocked
    <3> QED BY <1>4, <1>5, <2>2, <3>1 DEF Matches
  <2>3. CASE deviceLocked(c, incoming.id) = {} /\ deviceLocked(c, legacy) = {}
    <3>1. g \in addressMatches(c, incoming, legacy)
      BY <1>6, <2>3 DEF matchLocked
    <3>2. g \in DOMAIN c.dev /\ ~identitiesConflict(c.dev[g], incoming, legacy)
      BY <1>3, <3>1, TypedFacts DEF addressMatches
    <3> QED BY <1>4, <2>3, <3>2 DEF Matches
  <2> QED BY <2>1, <2>2, <2>3
<1>7. CASE found # {}
  <2>1. h \in found
    <3>1. found \in SUBSET Nat
      BY <1>3, <1>6, TypedFacts
    <3>2. \E x \in found : \A g \in found : x <= g
      <4> HIDE DEF found
      <4> QED BY <1>7, <3>1, LeastNat
    <3> HIDE DEF found
    <3> QED BY <3>2
  <2>2. h \in DOMAIN c.dev /\ Matches(c, h, incoming, legacy)
    BY <1>6, <2>1
  <2>3. m = mergeLocked(c, h, incoming, legacy)
    BY <1>7
  <2> HIDE DEF m, h, found
  <2>4. /\ WellFormed(m)
        /\ Leads(m, incoming.id, h) /\ m.dev[h].seen >= incoming.seen
        /\ DOMAIN m.dev = DOMAIN c.dev
        /\ \A g \in DOMAIN c.dev : /\ m.dev[g].listed = c.dev[g].listed
                                   /\ m.dev[g].seen >= c.dev[g].seen
        /\ \A id, g : Leads(c, id, g) =>
              Leads(m, id, g) \/ (id = legacy /\ Leads(m, id, h))
    BY <2>2, <2>3, MergeKeeps
  <2>5. /\ WellFormed(n) /\ \A id, t : KnownSince(m, id, t) <=> KnownSince(n, id, t)
    <3>1. /\ n.dev = m.dev /\ n.ids = m.ids /\ n.addrs = m.addrs /\ n.aliases = m.aliases
          /\ DOMAIN n = {"dev", "ids", "addrs", "aliases"}
      BY <1>2, <2>4, NothingCollected DEF WellFormed
    <3> QED BY <2>4, <3>1, SameMaps
  <2>6. AliasesAgree(m)
    BY <2>4 DEF WellFormed
  <2>7. KnownSince(m, incoming.id, incoming.seen)
    BY <2>4, <2>6, KnownLeads
  <2>8. ASSUME NEW id, NEW t \in Nat, KnownSince(c, id, t), legacy = Blank \/ incoming.seen >= t
        PROVE  KnownSince(m, id, t)
    <3>1. PICK g : Leads(c, id, g) /\ (c.dev[g].listed \/ c.dev[g].seen >= t)
      BY <1>3, <2>8, KnownLeads
    <3>2. g \in DOMAIN c.dev /\ g \in DOMAIN m.dev
      BY <1>5, <2>4, <3>1
    <3>3. c.dev[g].seen \in Nat /\ m.dev[g].seen \in Nat /\ m.dev[h].seen \in Nat
      BY <1>3, <2>2, <2>4, <3>2, TypedFacts DEF Entry, WellFormed
    <3>4. m.dev[g].listed \/ m.dev[g].seen >= t
      BY <2>4, <3>1, <3>2, <3>3
    <3>5. CASE Leads(m, id, g)
      BY <2>6, <3>4, <3>5, KnownLeads
    <3>6. CASE id = legacy /\ Leads(m, id, h)
      <4>1. id # Blank
        <5>1. id \in NodeIds
          BY <1>3, <3>1, TypedFacts DEF Leads
        <5> QED BY <5>1, BlankIsNoId
      <4>2. m.dev[h].seen >= t
        BY <1>1, <2>4, <2>8, <3>3, <3>6, <4>1
      <4> QED BY <2>6, <3>6, <4>2, KnownLeads
    <3> QED BY <2>4, <3>1, <3>5, <3>6
  <2> QED BY <2>5, <2>7, <2>8
<1>8. CASE found = {}
  <2>1. m = insertLocked(c, incoming, legacy)
    BY <1>8
  <2>2. deviceLocked(c, incoming.id) = {} /\ deviceLocked(c, legacy) = {}
    BY <1>8 DEF matchLocked
  <2>3. /\ incoming.id \notin DOMAIN c.ids \cup DOMAIN c.aliases
        /\ legacy \notin DOMAIN c.ids \cup DOMAIN c.aliases /\ legacy \in NodeIds \cup {Blank}
    BY <1>4, <2>2, BlankIsNoId
  <2> HIDE DEF m, h, found
  <2>4. /\ WellFormed(m)
        /\ \A id, g : Leads(c, id, g) =>
              Leads(m, id, g) /\ SameEntry(m.dev[g], c.dev[g])
        /\ \E k : Leads(m, incoming.id, k) /\ m.dev[k].seen = incoming.seen
    BY <2>1, <2>3, InsertKeeps
  <2>5. /\ WellFormed(n) /\ \A id, t : KnownSince(m, id, t) <=> KnownSince(n, id, t)
    <3>1. /\ n.dev = m.dev /\ n.ids = m.ids /\ n.addrs = m.addrs /\ n.aliases = m.aliases
          /\ DOMAIN n = {"dev", "ids", "addrs", "aliases"}
      BY <1>2, <2>4, NothingCollected DEF WellFormed
    <3> QED BY <2>4, <3>1, SameMaps
  <2>6. AliasesAgree(m)
    BY <2>4 DEF WellFormed
  <2>7. KnownSince(m, incoming.id, incoming.seen)
    <3>1. PICK k : Leads(m, incoming.id, k) /\ m.dev[k].seen = incoming.seen
      BY <2>4
    <3>2. m.dev[k].seen >= incoming.seen
      BY <1>1, <3>1
    <3> QED BY <2>6, <3>1, <3>2, KnownLeads
  <2>8. ASSUME NEW id, NEW t \in Nat, KnownSince(c, id, t)
        PROVE  KnownSince(m, id, t)
    <3>1. PICK g : Leads(c, id, g) /\ (c.dev[g].listed \/ c.dev[g].seen >= t)
      BY <1>3, <2>8, KnownLeads
    <3>2. Leads(m, id, g) /\ (m.dev[g].listed \/ m.dev[g].seen >= t)
      BY <2>4, <3>1 DEF SameEntry
    <3> QED BY <2>6, <3>2, KnownLeads
  <2> QED BY <2>5, <2>7, <2>8
<1> QED BY <1>7, <1>8

\* The entry that a line or a row makes.
LEMMA FlowEntryFacts ==
    ASSUME NEW id \in NodeIds, NEW owner \in Nat, NEW ips \in SUBSET Addresses, NEW seen \in Nat,
           NEW e, e = flowEntry(id, owner, ips, seen)
    PROVE  /\ e \in Entry /\ e.id = id /\ e.seen = seen /\ ~e.listed
           /\ e.node = Blank /\ e.apiLegacy = Blank /\ e.aliases = {}
BY DEF flowEntry, Entry

\* Rows of node_metadata are told to the cache: every name stays known, and each row's
\* node is known as late as the row.
LEMMA RowsKeep ==
    ASSUME NEW c, WellFormed(c), NEW seq, NEW n \in Nat, DOMAIN seq = 1 .. n,
           \A k \in 1 .. n : /\ seq[k].id \in NodeIds /\ seq[k].owner \in Nat
                             /\ seq[k].ips \in SUBSET Addresses /\ seq[k].updated \in Nat,
           NEW m, m = UpsertNodeMetadata(c, seq)
    PROVE  /\ WellFormed(m)
           /\ \A id, t \in Nat : KnownSince(c, id, t) => KnownSince(m, id, t)
           /\ \A k \in 1 .. n : KnownSince(m, seq[k].id, seq[k].updated)
<1>0. PICK h : RowTrace(h, c, seq, n)
  BY RowFold
<1>1. /\ h[0] = c /\ h[n] = UpsertNodeMetadata(c, seq)
      /\ \A k \in 1 .. n : h[k] = TellRow(h[k - 1], seq[k])
  BY <1>0 DEF RowTrace
<1> DEFINE P == {k \in 0 .. n :
                   /\ WellFormed(h[k])
                   /\ \A id, t \in Nat : KnownSince(c, id, t) => KnownSince(h[k], id, t)
                   /\ \A j \in 1 .. k : KnownSince(h[k], seq[j].id, seq[j].updated)}
<1>2. 0 \in P
  BY <1>1
<1>3. ASSUME NEW k \in 1 .. n, k - 1 \in P PROVE k \in P
  <2> DEFINE r == seq[k]
             e == flowEntry(r.id, r.owner, r.ips, r.updated)
  <2>1. /\ e \in Entry /\ e.id = seq[k].id /\ e.seen = seq[k].updated /\ ~e.listed
        /\ e.node = Blank /\ e.apiLegacy = Blank /\ e.aliases = {}
    <3> HIDE DEF P
    <3>1. /\ r.id \in NodeIds /\ r.owner \in Nat /\ r.ips \in SUBSET Addresses
          /\ r.updated \in Nat
      OBVIOUS
    <3>2. e = flowEntry(r.id, r.owner, r.ips, r.updated)
      OBVIOUS
    <3>3. e.id = r.id /\ e.seen = r.updated
      BY DEF flowEntry
    <3>4. ~e.listed /\ e.node = Blank /\ e.apiLegacy = Blank /\ e.aliases = {}
      BY DEF flowEntry
    <3> HIDE DEF r
    <3>5. e \in Entry
      BY <3>1 DEF Entry, flowEntry
    <3> QED BY <3>3, <3>4, <3>5 DEF r
  <2>2. h[k] = adoptLocked(h[k - 1], e, Blank) /\ WellFormed(h[k - 1])
    BY <1>1, <1>3 DEF TellRow
  <2>3. Blank \in NumericIds \cup {Blank} /\ NamedTogether(e.id, Blank)
    BY DEF NamedTogether
  <2> HIDE DEF e
  <2>4. /\ WellFormed(h[k])
        /\ KnownSince(h[k], e.id, e.seen)
        /\ \A id, t \in Nat : KnownSince(h[k - 1], id, t) /\ (Blank = Blank \/ e.seen >= t)
              => KnownSince(h[k], id, t)
    BY <2>1, <2>2, <2>3, AdoptKeeps
  <2>5. \A id, t \in Nat : KnownSince(h[k - 1], id, t) => KnownSince(h[k], id, t)
    BY <2>4
  <2>6. \A id, t \in Nat : KnownSince(c, id, t) => KnownSince(h[k], id, t)
    BY <1>3, <2>5
  <2>7. ASSUME NEW j \in 1 .. k PROVE KnownSince(h[k], seq[j].id, seq[j].updated)
    <3>1. CASE j = k
      BY <2>1, <2>4, <3>1
    <3>2. CASE j # k
      <4>1. j \in 1 .. k - 1 /\ seq[j].updated \in Nat
        BY <3>2
      <4>2. KnownSince(h[k - 1], seq[j].id, seq[j].updated)
        BY <1>3, <4>1
      <4>3. seq[j].id \in Nat
        <5>1. seq[j].id \in NodeIds
          BY <4>1
        <5> QED BY <5>1, BlankIsNoId
      <4> QED BY <2>5, <4>1, <4>2, <4>3
    <3> QED BY <3>1, <3>2
  <2> QED BY <2>4, <2>6, <2>7
<1>4. n \in P
  <2> HIDE DEF P
  <2>1. \A k \in 0 .. n : k \in P
    BY <1>2, <1>3, UpTo
  <2> QED BY <2>1
<1> QED BY <1>1, <1>4

\* One line of a log is told to the cache.
LEMMA LineKeeps ==
    ASSUME NEW c, WellFormed(c), NEW node \in LogNodes, NEW t \in Nat,
           NEW n, n = UpsertFromFlowLogMetadata(c, node, t)
    PROVE  /\ WellFormed(n)
           /\ node.nodeId # Blank => KnownSince(n, node.nodeId, t)
           /\ \A id, u \in Nat : KnownSince(c, id, u) /\ u <= t => KnownSince(n, id, u)
<1> DEFINE id0 == IF node.nodeId = Blank THEN node.id ELSE node.nodeId
           legacy == IF node.nodeId = Blank \/ node.id = node.nodeId THEN Blank ELSE node.id
           e == flowEntry(id0, node.owner, node.ips, t)
<1>1. n = adoptLocked(c, e, legacy)
  BY DEF UpsertFromFlowLogMetadata, flowNodeIDs
<1>2. /\ node.nodeId \in NodeIds \cup {Blank} /\ node.id \in NodeIds \cup {Blank}
      /\ node.owner \in Nat /\ node.ips \in SUBSET Addresses
  BY LogsAssumption
<1>3. CASE id0 = Blank
  <2>1. n = c
    BY <1>1, <1>3 DEF adoptLocked, flowEntry
  <2> QED BY <1>3, <2>1
<1>4. CASE id0 # Blank
  <2>1. id0 \in NodeIds
    BY <1>2, <1>4
  <2>2. legacy \in NumericIds \cup {Blank} /\ NamedTogether(id0, legacy)
    <3>1. CASE legacy = Blank
      BY <3>1 DEF NamedTogether
    <3>2. CASE legacy # Blank
      <4>1. /\ legacy = node.id /\ id0 = node.nodeId /\ node.nodeId # Blank /\ node.id # Blank
            /\ node.id # node.nodeId
        BY <3>2
      <4>2. legacy \in NumericIds
        BY <1>2, <4>1, LogsAssumption DEF isStableNodeID, NodeIds
      <4>3. <<node.nodeId, node.id>> \in TwoIds
        BY <4>1 DEF TwoIds
      <4> QED BY <4>1, <4>2, <4>3 DEF NamedTogether
    <3> QED BY <3>1, <3>2
  <2>3. /\ e \in Entry /\ e.id = id0 /\ e.seen = t /\ ~e.listed
        /\ e.node = Blank /\ e.apiLegacy = Blank /\ e.aliases = {}
    <3>1. e = flowEntry(id0, node.owner, node.ips, t)
      OBVIOUS
    <3> HIDE DEF e
    <3> QED BY <1>2, <2>1, <3>1, FlowEntryFacts
  <2>4. node.nodeId # Blank => id0 = node.nodeId
    OBVIOUS
  <2> HIDE DEF e, legacy, id0
  <2>5. /\ WellFormed(n)
        /\ KnownSince(n, e.id, e.seen)
        /\ \A id, u \in Nat : KnownSince(c, id, u) /\ (legacy = Blank \/ e.seen >= u)
              => KnownSince(n, id, u)
    BY <1>1, <2>2, <2>3, AdoptKeeps
  <2>6. \A id, u \in Nat : KnownSince(c, id, u) /\ u <= t => KnownSince(n, id, u)
    BY <2>3, <2>5
  <2> QED BY <2>3, <2>4, <2>5, <2>6
<1> QED BY <1>3, <1>4

\* The lines of a log, one after the other.
LEMMA LinesKeep ==
    ASSUME NEW c, WellFormed(c), NEW seq, NEW n \in Nat, DOMAIN seq = 1 .. n,
           \A k \in 1 .. n : seq[k] \in LogNodes, NEW t \in Nat,
           NEW m, m = ReadNodes(c, seq, t)
    PROVE  /\ WellFormed(m)
           /\ \A k \in 1 .. n : seq[k].nodeId # Blank => KnownSince(m, seq[k].nodeId, t)
           /\ \A id, u \in Nat : KnownSince(c, id, u) /\ u <= t => KnownSince(m, id, u)
<1>1. PICK h : /\ h[0] = c /\ h[n] = ReadNodes(c, seq, t)
               /\ \A k \in 1 .. n : h[k] = UpsertFromFlowLogMetadata(h[k - 1], seq[k], t)
  BY LineFold
<1> DEFINE P == {k \in 0 .. n :
                   /\ WellFormed(h[k])
                   /\ \A j \in 1 .. k : seq[j].nodeId # Blank => KnownSince(h[k], seq[j].nodeId, t)
                   /\ \A id, u \in Nat : KnownSince(c, id, u) /\ u <= t => KnownSince(h[k], id, u)}
<1>2. 0 \in P
  BY <1>1
<1>3. ASSUME NEW k \in 1 .. n, k - 1 \in P PROVE k \in P
  <2>1. /\ WellFormed(h[k])
        /\ seq[k].nodeId # Blank => KnownSince(h[k], seq[k].nodeId, t)
        /\ \A id, u \in Nat : KnownSince(h[k - 1], id, u) /\ u <= t => KnownSince(h[k], id, u)
    <3>1. WellFormed(h[k - 1]) /\ h[k] = UpsertFromFlowLogMetadata(h[k - 1], seq[k], t)
          /\ seq[k] \in LogNodes
      BY <1>1, <1>3
    <3> HIDE DEF P
    <3> QED BY <3>1, LineKeeps
  <2>2. \A id, u \in Nat : KnownSince(c, id, u) /\ u <= t => KnownSince(h[k], id, u)
    BY <1>3, <2>1
  <2>3. ASSUME NEW j \in 1 .. k, seq[j].nodeId # Blank PROVE KnownSince(h[k], seq[j].nodeId, t)
    <3>1. CASE j = k
      BY <2>1, <2>3, <3>1
    <3>2. CASE j # k
      <4>1. j \in 1 .. k - 1 /\ t <= t
        BY <3>2
      <4>2. KnownSince(h[k - 1], seq[j].nodeId, t)
        BY <1>3, <2>3, <4>1
      <4>3. seq[j].nodeId \in Nat
        <5>1. seq[j] \in LogNodes
          BY <4>1
        <5>2. seq[j].nodeId \in NodeIds
          BY <2>3, <5>1, LogsAssumption
        <5> QED BY <5>2, BlankIsNoId
      <4> QED BY <2>1, <4>1, <4>2, <4>3
    <3> QED BY <3>1, <3>2
  <2> QED BY <2>1, <2>2, <2>3
<1>4. n \in P
  <2> HIDE DEF P
  <2>1. \A k \in 0 .. n : k \in P
    BY <1>2, <1>3, UpTo
  <2> QED BY <2>1
<1> QED BY <1>1, <1>4

\* The empty cache is well formed.
LEMMA EmptyIsWellFormed ==
    ASSUME NEW n, n = EmptyCache
    PROVE  WellFormed(n)
<1>1. /\ n.dev = <<>> /\ n.ids = <<>> /\ n.addrs = <<>> /\ n.aliases = <<>>
      /\ DOMAIN n = {"dev", "ids", "addrs", "aliases"}
  BY DEF EmptyCache
<1>2. /\ DOMAIN <<>> = {} /\ IsFiniteSet({}) /\ \A S : <<>> \in [{} -> S]
  BY FS_EmptySet
<1> QED BY <1>1, <1>2 DEF WellFormed, Typed, IdsAgree, AliasesAgree, AddressesAgree,
                         ListedAddresses, ListedNames

\* What a list makes of the cache, device by device.
AllListed(c) == \A h \in DOMAIN c.dev : c.dev[h].listed

\* A device of the list is added: it is listed under both its ids, with its addresses.
LEMMA AddDeviceKeeps ==
    ASSUME NEW c, WellFormed(c), AllListed(c), NEW d \in Devices,
           d.id \notin DOMAIN c.ids \cup DOMAIN c.aliases,
           NEW n, n = addDevice(c, d)
    PROVE  /\ WellFormed(n) /\ AllListed(n)
           /\ DOMAIN n.ids = DOMAIN c.ids \cup {d.id}
           /\ DOMAIN n.aliases \subseteq DOMAIN c.aliases \cup {d.legacy}
<1> DEFINE h == FreshHandle(c)
           e == listedEntry(d)
           m == [c EXCEPT !.dev = Put(@, h, e), !.ids = Put(@, d.id, h)]
           a == aliasLocked(m, d.legacy, d.id)
           A == Over([x \in d.ips |-> h], a.addrs)
<1>1. n = [a EXCEPT !.addrs = A]
  BY DEF addDevice
<1>2. /\ d.id \in NodeIds /\ d.legacy \in NodeIds \cup {Blank} /\ d.ips \in SUBSET Addresses
      /\ d.legacy # Blank => d.id \in StableIds
      /\ d.legacy # Blank => <<d.id, d.legacy>> \in TwoIds
  <2>1. /\ d.id \in NodeIds /\ d.legacy \in NumericIds \cup {Blank} /\ d.owner \in Nat
        /\ d.ips \in SUBSET Addresses
    BY ListsAssumption
  <2>2. d.legacy # Blank => d.id \in StableIds
    BY ListsAssumption DEF isStableNodeID
  <2>3. d.legacy # Blank => <<d.id, d.legacy>> \in TwoIds
    BY DEF TwoIds
  <2> QED BY <2>1, <2>2, <2>3, BlankIsNoId
<1>3. /\ e \in Entry /\ e.id = d.id /\ e.listed /\ e.apiLegacy = d.legacy /\ e.ips = d.ips
      /\ e.apiLegacy # Blank => e.node = e.id
  <2>1. d.legacy \in NumericIds \cup {Blank} /\ d.owner \in Nat
    BY ListsAssumption
  <2>2. e.node \in StableIds \cup {Blank} /\ (e.apiLegacy # Blank => e.node = e.id)
    BY <1>2 DEF listedEntry, isStableNodeID
  <2>3. e.id = d.id /\ e.ips = d.ips /\ e.listed /\ e.apiLegacy = d.legacy
    BY DEF listedEntry
  <2>4. e \in Entry
    BY <1>2, <2>1 DEF Entry, listedEntry, isStableNodeID, Never
  <2> HIDE DEF e
  <2> QED BY <2>2, <2>3, <2>4
<1>4. h \in Nat /\ h \notin DOMAIN c.dev
  BY FreshHandleIsNew DEF WellFormed
<1> HIDE DEF h, e
<1>5. m = WithEntry(c, h, e) /\ Linked(c)
  BY <1>3 DEF WellFormed, Linked, WithEntry
<1> HIDE DEF m
<1>6. /\ Linked(m)
      /\ m.addrs = c.addrs /\ m.aliases = c.aliases
      /\ DOMAIN m.dev = DOMAIN c.dev \cup {h} /\ m.dev[h] = e
      /\ \A g \in DOMAIN c.dev : m.dev[g] = c.dev[g] /\ g # h
      /\ DOMAIN m.ids = DOMAIN c.ids \cup {e.id} /\ m.ids[e.id] = h
      /\ \A k \in DOMAIN c.ids : m.ids[k] = c.ids[k] /\ k # e.id
  <2>1. /\ e.id \notin DOMAIN c.ids \cup DOMAIN c.aliases
        /\ e.listed /\ e.apiLegacy # Blank => e.node = e.id /\ <<e.id, e.apiLegacy>> \in TwoIds
    BY <1>2, <1>3
  <2> QED BY <1>3, <1>4, <1>5, <2>1, NewEntryKeeps, Z3
<1>7. \A g \in DOMAIN m.dev :
         m.dev[g].listed /\ m.dev[g].apiLegacy # Blank /\ m.dev[g].id = d.id
            => d.legacy \in {Blank, d.id, m.dev[g].apiLegacy} \cup DOMAIN m.ids
  BY <1>3, <1>6, TypedFacts DEF WellFormed, IdsAgree
<1>8. /\ Linked(a)
      /\ a.ids = m.ids /\ a.addrs = m.addrs /\ DOMAIN a.dev = DOMAIN m.dev
      /\ \A g \in DOMAIN m.dev : SameEntry(a.dev[g], m.dev[g])
      /\ \A id, g : Leads(m, id, g) =>
            Leads(a, id, g) \/ (id = d.legacy /\ Leads(a, id, m.ids[d.id]))
      /\ d.legacy # Blank => Leads(a, d.legacy, m.ids[d.id]) \/ d.legacy \in DOMAIN m.ids
  <2>1. d.id \in DOMAIN m.ids /\ Linked(m)
    BY <1>3, <1>6
  <2>2. a = aliasLocked(m, d.legacy, d.id)
    OBVIOUS
  <2> HIDE DEF a
  <2> QED BY <1>2, <1>7, <2>1, <2>2, AliasKeeps, Z3
<1>9. DOMAIN a.aliases \subseteq DOMAIN m.aliases \cup {d.legacy}
  <2>1. DOMAIN m = {"dev", "ids", "addrs", "aliases"}
    BY <1>6 DEF Linked, Typed
  <2>2. DOMAIN Put(m.aliases, d.legacy, d.id) = DOMAIN m.aliases \cup {d.legacy}
    BY DEF Put
  <2>3. a.aliases = m.aliases \/ a.aliases = Put(m.aliases, d.legacy, d.id)
    BY <2>1 DEF aliasLocked
  <2> HIDE DEF a
  <2> QED BY <2>2, <2>3
<1> HIDE DEF a
<1>10. /\ n.dev = a.dev /\ n.ids = a.ids /\ n.aliases = a.aliases /\ n.addrs = A
       /\ DOMAIN n = {"dev", "ids", "addrs", "aliases"}
  <2> HIDE DEF A
  <2> QED BY <1>1, <1>8 DEF Linked, Typed
<1>11. /\ DOMAIN A = DOMAIN c.addrs \cup d.ips /\ A = [x \in DOMAIN A |-> A[x]]
       /\ \A x \in DOMAIN A : A[x] = h \/ (x \in DOMAIN c.addrs /\ A[x] = c.addrs[x])
  BY <1>6, <1>8 DEF Over
<1> HIDE DEF A
<1>12. /\ DOMAIN a.dev = DOMAIN c.dev \cup {h}
       /\ AllListed(a)
       /\ \A g \in DOMAIN a.dev : a.dev[g].ips \subseteq DOMAIN A
  <2>1. DOMAIN a.dev = DOMAIN c.dev \cup {h}
    BY <1>6, <1>8
  <2>2. \A g \in DOMAIN c.dev : a.dev[g].listed /\ a.dev[g].ips = c.dev[g].ips
                                /\ c.dev[g].ips \subseteq DOMAIN c.addrs
    BY <1>6, <1>8 DEF SameEntry, AllListed, WellFormed, ListedAddresses
  <2>3. a.dev[h].listed /\ a.dev[h].ips = d.ips
    BY <1>3, <1>6, <1>8 DEF SameEntry
  <2> QED BY <1>11, <2>1, <2>2, <2>3 DEF AllListed
<1>13. \A x \in DOMAIN A : x \in Addresses /\ A[x] \in DOMAIN a.dev
  BY <1>2, <1>11, <1>12, TypedFacts DEF WellFormed
<1>14. Typed(n)
  <2>1. A \in [DOMAIN A -> DOMAIN a.dev] /\ DOMAIN A \subseteq Addresses
    BY <1>11, <1>13
  <2> QED BY <1>8, <1>10, <2>1 DEF Linked, Typed
<1>15. IdsAgree(n) /\ AliasesAgree(n) /\ ListedNames(n)
  <2>1. IdsAgree(a) /\ AliasesAgree(a) /\ ListedNames(a)
    BY <1>8 DEF Linked
  <2>2. IdsAgree(n)
    BY <1>10, <2>1 DEF IdsAgree
  <2>3. AliasesAgree(n)
    BY <1>10, <2>1 DEF AliasesAgree
  <2>4. ListedNames(n)
    BY <1>10, <2>1 DEF ListedNames
  <2> QED BY <2>2, <2>3, <2>4
<1>16. AddressesAgree(n) /\ ListedAddresses(n) /\ AllListed(n)
  BY <1>10, <1>12, <1>13 DEF AddressesAgree, ListedAddresses, AllListed
<1> QED BY <1>3, <1>6, <1>8, <1>9, <1>10, <1>14, <1>15, <1>16 DEF WellFormed

\* The list replaces the cache.
LEMMA UpdateKeeps ==
    ASSUME NEW list \in DeviceLists, NEW n, n = Update(list)
    PROVE  WellFormed(n)
<1> DEFINE N == Len(list)
<1>1. /\ N \in Nat /\ DOMAIN list = 1 .. N
      /\ \A i \in 1 .. N : list[i] \in Devices
      /\ \A i, j \in 1 .. N : /\ list[i].id = list[j].id => i = j
                              /\ list[i].id # list[j].legacy
  <2>1. list \in Seq(ToSet(list))
    BY ListsAssumption
  <2>2. N \in Nat /\ DOMAIN list = 1 .. N
    BY <2>1
  <2>3. \A i \in 1 .. N : list[i] \in Devices
    BY <2>2 DEF Devices, ToSet
  <2>4. \A i, j \in DOMAIN list : /\ list[i].id = list[j].id => i = j
                                  /\ list[i].id # list[j].legacy
    BY ListsAssumption
  <2> QED BY <2>2, <2>3, <2>4
<1> HIDE DEF N
<1>0. PICK h : DeviceTrace(h, EmptyCache, list, N)
  BY <1>1, DeviceFold
<1>2. /\ h[0] = EmptyCache /\ h[N] = AddDevices(EmptyCache, list)
      /\ \A k \in 1 .. N : h[k] = addDevice(h[k - 1], list[k])
  BY <1>0 DEF DeviceTrace
<1>3. n = Collected(h[N])
  BY <1>2 DEF Update, AddDevices
<1> DEFINE P == {k \in 0 .. N :
                   /\ WellFormed(h[k]) /\ AllListed(h[k])
                   /\ \A id \in DOMAIN h[k].ids : \E j \in 1 .. k : id = list[j].id
                   /\ \A id \in DOMAIN h[k].aliases : \E j \in 1 .. k : id = list[j].legacy}
<1>4. 0 \in P
  <2>1. WellFormed(h[0])
    BY <1>2, EmptyIsWellFormed
  <2>2. DOMAIN h[0].dev = {} /\ DOMAIN h[0].ids = {} /\ DOMAIN h[0].aliases = {}
    BY <1>2 DEF EmptyCache
  <2> QED BY <1>1, <2>1, <2>2 DEF AllListed
<1>5. ASSUME NEW k \in 1 .. N, k - 1 \in P PROVE k \in P
  <2>1. /\ WellFormed(h[k - 1]) /\ AllListed(h[k - 1])
        /\ \A id \in DOMAIN h[k - 1].ids : \E j \in 1 .. k - 1 : id = list[j].id
        /\ \A id \in DOMAIN h[k - 1].aliases : \E j \in 1 .. k - 1 : id = list[j].legacy
    BY <1>5
  <2>2. h[k] = addDevice(h[k - 1], list[k]) /\ list[k] \in Devices
    BY <1>1, <1>2
  <2> HIDE DEF P
  <2>3. \A j \in 1 .. k - 1 : j \in 1 .. N /\ j # k /\ j \in 1 .. k
    BY <1>1
  <2>4. list[k].id \notin DOMAIN h[k - 1].ids \cup DOMAIN h[k - 1].aliases
    BY <1>1, <2>1, <2>3
  <2>5. /\ WellFormed(h[k]) /\ AllListed(h[k])
        /\ DOMAIN h[k].ids = DOMAIN h[k - 1].ids \cup {list[k].id}
        /\ DOMAIN h[k].aliases \subseteq DOMAIN h[k - 1].aliases \cup {list[k].legacy}
    BY <2>1, <2>2, <2>4, AddDeviceKeeps
  <2>6. k \in 1 .. k /\ k \in 0 .. N
    BY <1>1
  <2>7. \A id \in DOMAIN h[k].ids : \E j \in 1 .. k : id = list[j].id
    BY <2>1, <2>3, <2>5, <2>6
  <2>8. \A id \in DOMAIN h[k].aliases : \E j \in 1 .. k : id = list[j].legacy
    BY <2>1, <2>3, <2>5, <2>6
  <2> QED BY <2>5, <2>6, <2>7, <2>8 DEF P
<1>6. WellFormed(h[N])
  <2>1. N \in P
    <3> HIDE DEF P
    <3>1. \A k \in 0 .. N : k \in P
      BY <1>1, <1>4, <1>5, UpTo
    <3> QED BY <1>1, <3>1
  <2> QED BY <2>1
<1>7. /\ n.dev = h[N].dev /\ n.ids = h[N].ids /\ n.addrs = h[N].addrs
      /\ n.aliases = h[N].aliases /\ DOMAIN n = {"dev", "ids", "addrs", "aliases"}
  BY <1>3, <1>6, NothingCollected DEF WellFormed
<1> QED BY <1>6, <1>7, SameMaps

\* Pruning drops flow-only devices with all their names and addresses, and only those
\* last seen before the cutoff.
LEMMA PruneKeeps ==
    ASSUME NEW c, WellFormed(c), NEW ret \in Nat, NEW at \in Nat,
           NEW n, n = PruneFlowOnly(c, ret, at)
    PROVE  /\ WellFormed(n)
           /\ \A id, t \in Nat : KnownSince(c, id, t) /\ (ret = 0 \/ t + ret >= at)
                 => KnownSince(n, id, t)
<1>1. CASE ret = 0
  BY <1>1 DEF PruneFlowOnly
<1>2. CASE ret # 0
  <2> DEFINE gone == {id \in DOMAIN c.ids :
                        LET e == c.dev[c.ids[id]]
                        IN  ~e.listed /\ e.seen # Never /\ e.seen + ret < at}
             lost == gone \cup {a \in DOMAIN c.aliases :
                        \E id \in gone : a \in c.dev[c.ids[id]].aliases /\ c.aliases[a] = id}
             free == {a \in DOMAIN c.addrs :
                        \E id \in gone : a \in c.dev[c.ids[id]].ips /\ c.addrs[a] = c.ids[id]}
             I == [k \in DOMAIN c.ids \ gone |-> c.ids[k]]
             A == [k \in DOMAIN c.aliases \ lost |-> c.aliases[k]]
             R == [k \in DOMAIN c.addrs \ free |-> c.addrs[k]]
             live == {I[i] : i \in DOMAIN I} \cup {R[a] : a \in DOMAIN R}
             D == [h \in DOMAIN c.dev \cap live |-> c.dev[h]]
             m == [c EXCEPT !.ids = I, !.aliases = A, !.addrs = R]
  <2>1. n = Collected(m)
    BY <1>2 DEF PruneFlowOnly, Drop
  <2>2. /\ m.dev = c.dev /\ m.ids = I /\ m.aliases = A /\ m.addrs = R
        /\ DOMAIN m = {"dev", "ids", "addrs", "aliases"}
    <3> HIDE DEF I, A, R
    <3> QED BY DEF WellFormed, Typed
  <2>3. /\ n.dev = D /\ n.ids = I /\ n.aliases = A /\ n.addrs = R
        /\ DOMAIN n = {"dev", "ids", "addrs", "aliases"}
    <3> DEFINE E == [h \in DOMAIN m.dev \cap ({m.ids[i] : i \in DOMAIN m.ids}
                                                 \cup {m.addrs[a] : a \in DOMAIN m.addrs})
                        |-> m.dev[h]]
    <3> HIDE DEF m, I, A, R
    <3>1. n = [m EXCEPT !.dev = E]
      BY <2>1 DEF Collected
    <3>2. E = D
      BY <2>2
    <3> HIDE DEF D, E
    <3> QED BY <2>2, <3>1, <3>2
  <2>4. /\ DOMAIN I = DOMAIN c.ids \ gone /\ \A k \in DOMAIN I : I[k] = c.ids[k]
        /\ DOMAIN A = DOMAIN c.aliases \ lost /\ \A k \in DOMAIN A : A[k] = c.aliases[k]
        /\ DOMAIN R = DOMAIN c.addrs \ free /\ \A k \in DOMAIN R : R[k] = c.addrs[k]
        /\ DOMAIN D = DOMAIN c.dev \cap live /\ \A h \in DOMAIN D : D[h] = c.dev[h]
        /\ I = [k \in DOMAIN I |-> I[k]] /\ A = [k \in DOMAIN A |-> A[k]]
        /\ R = [k \in DOMAIN R |-> R[k]] /\ D = [h \in DOMAIN D |-> D[h]]
    OBVIOUS
  <2>5. \A h : h \in live <=> (\E i \in DOMAIN I : h = I[i]) \/ (\E a \in DOMAIN R : h = R[a])
    OBVIOUS
  <2> HIDE DEF I, A, R, D, live, m
  <2>6. \A id \in gone : /\ id \in DOMAIN c.ids /\ ~c.dev[c.ids[id]].listed
                         /\ c.dev[c.ids[id]].seen + ret < at
    OBVIOUS
  <2>7. gone \subseteq DOMAIN c.ids /\ gone \subseteq lost
    OBVIOUS
  <2>8. \A a \in DOMAIN c.aliases :
           a \in lost <=> c.aliases[a] \in gone
    <3>1. \A a \in DOMAIN c.aliases : a \notin gone /\ a \in c.dev[c.ids[c.aliases[a]]].aliases
      BY <2>7 DEF WellFormed, AliasesAgree
    <3> QED BY <3>1
  <2>9. \A a \in DOMAIN c.addrs :
           a \in free <=> c.dev[c.addrs[a]].id \in gone
    <3> SUFFICES ASSUME NEW a \in DOMAIN c.addrs
                 PROVE  a \in free <=> c.dev[c.addrs[a]].id \in gone
      OBVIOUS
    <3> DEFINE h == c.addrs[a]
    <3>1. h \in DOMAIN c.dev /\ c.dev[h].id \in DOMAIN c.ids /\ c.ids[c.dev[h].id] = h
      BY TypedFacts DEF WellFormed, IdsAgree
    <3>2. \A id \in DOMAIN c.ids : c.ids[id] = h => id = c.dev[h].id
      BY DEF WellFormed, IdsAgree
    <3>3. c.dev[h].id \in gone => a \in c.dev[h].ips
      BY <2>6, <3>1 DEF WellFormed, AddressesAgree
    <3> QED BY <2>7, <3>1, <3>2, <3>3
  <2> HIDE DEF gone, lost, free
  <2>10. \A h \in DOMAIN c.dev : h \in DOMAIN D <=> c.dev[h].id \notin gone
    <3> SUFFICES ASSUME NEW h \in DOMAIN c.dev
                 PROVE  h \in live <=> c.dev[h].id \notin gone
      BY <2>4
    <3>1. c.dev[h].id \in DOMAIN c.ids /\ c.ids[c.dev[h].id] = h
      BY DEF WellFormed, IdsAgree
    <3>2. \A id \in DOMAIN c.ids : c.ids[id] = h => id = c.dev[h].id
      BY DEF WellFormed, IdsAgree
    <3>3. CASE c.dev[h].id \notin gone
      BY <2>4, <2>5, <3>1, <3>3
    <3>4. CASE c.dev[h].id \in gone
      <4>1. ~\E i \in DOMAIN I : h = I[i]
        BY <2>4, <3>2, <3>4
      <4>2. ~\E a \in DOMAIN R : h = R[a]
        BY <2>4, <2>9, <3>4
      <4> QED BY <2>5, <3>4, <4>1, <4>2
    <3> QED BY <3>3, <3>4
  <2>11. /\ \A k \in DOMAIN I : k \in NodeIds /\ I[k] \in DOMAIN D /\ c.dev[I[k]].id = k
         /\ \A a \in DOMAIN R : a \in Addresses /\ R[a] \in DOMAIN D
         /\ \A a \in DOMAIN A : a \in NodeIds /\ A[a] \in NodeIds /\ A[a] \in DOMAIN I
    <3>1. \A k \in DOMAIN I : k \in NodeIds /\ I[k] \in DOMAIN D /\ c.dev[I[k]].id = k
      <4>1. \A k \in DOMAIN I : k \in DOMAIN c.ids /\ k \notin gone /\ I[k] = c.ids[k]
        BY <2>4
      <4> QED BY <2>10, <4>1, TypedFacts DEF WellFormed, IdsAgree
    <3>2. \A a \in DOMAIN R : a \in Addresses /\ R[a] \in DOMAIN D
      <4>1. \A a \in DOMAIN R : a \in DOMAIN c.addrs /\ a \notin free /\ R[a] = c.addrs[a]
        BY <2>4
      <4> QED BY <2>9, <2>10, <4>1, TypedFacts DEF WellFormed
    <3>3. \A a \in DOMAIN A : a \in NodeIds /\ A[a] \in NodeIds /\ A[a] \in DOMAIN I
      <4>1. \A a \in DOMAIN A : a \in DOMAIN c.aliases /\ a \notin lost /\ A[a] = c.aliases[a]
        BY <2>4
      <4> QED BY <2>4, <2>8, <4>1, TypedFacts DEF WellFormed, AliasesAgree
    <3> QED BY <3>1, <3>2, <3>3
  <2>12. \A h \in DOMAIN D : h \in DOMAIN c.dev /\ D[h] = c.dev[h] /\ c.dev[h].id \in DOMAIN I
                             /\ I[c.dev[h].id] = h
    <3>1. \A h \in DOMAIN D : h \in DOMAIN c.dev /\ D[h] = c.dev[h] /\ c.dev[h].id \notin gone
      BY <2>4, <2>10
    <3>2. \A h \in DOMAIN D : c.dev[h].id \in DOMAIN c.ids /\ c.ids[c.dev[h].id] = h
      BY <3>1 DEF WellFormed, IdsAgree
    <3> QED BY <2>4, <3>1, <3>2
  <2>13. Typed(n)
    <3>1. /\ IsFiniteSet(DOMAIN D) /\ DOMAIN D \subseteq Nat /\ D \in [DOMAIN D -> Entry]
      <4>1. \A h \in DOMAIN D : h \in Nat /\ D[h] \in Entry
        BY <2>12, TypedFacts DEF WellFormed
      <4>2. IsFiniteSet(DOMAIN c.dev) /\ DOMAIN D \subseteq DOMAIN c.dev
        BY <2>12 DEF WellFormed, Typed
      <4>3. IsFiniteSet(DOMAIN D)
        BY <4>2, FS_Subset
      <4> QED BY <2>4, <4>1, <4>3
    <3>2. DOMAIN I \subseteq NodeIds /\ I \in [DOMAIN I -> DOMAIN D]
      BY <2>4, <2>11
    <3>3. DOMAIN R \subseteq Addresses /\ R \in [DOMAIN R -> DOMAIN D]
      BY <2>4, <2>11
    <3>4. DOMAIN A \subseteq NodeIds /\ A \in [DOMAIN A -> NodeIds]
      BY <2>4, <2>11
    <3> QED BY <2>3, <3>1, <3>2, <3>3, <3>4 DEF Typed
  <2>14. IdsAgree(n)
    BY <2>3, <2>11, <2>12 DEF IdsAgree
  <2>15. AliasesAgree(n)
    <3>1. DOMAIN I \cap DOMAIN A = {}
      BY <2>4 DEF WellFormed, AliasesAgree
    <3>2. ASSUME NEW a \in DOMAIN A PROVE a \in D[I[A[a]]].aliases
      <4>1. a \in DOMAIN c.aliases /\ A[a] = c.aliases[a] /\ A[a] \in DOMAIN I
        BY <2>4, <2>11
      <4>2. I[A[a]] = c.ids[c.aliases[a]] /\ I[A[a]] \in DOMAIN D
        BY <2>4, <2>11, <4>1
      <4> QED BY <2>12, <4>1, <4>2 DEF WellFormed, AliasesAgree
    <3> QED BY <2>3, <2>11, <3>1, <3>2 DEF AliasesAgree
  <2>16. AddressesAgree(n)
    <3>1. \A a \in DOMAIN R : a \in DOMAIN c.addrs /\ R[a] = c.addrs[a] /\ D[R[a]] = c.dev[R[a]]
      BY <2>4, <2>11
    <3> QED BY <2>3, <3>1 DEF WellFormed, AddressesAgree
  <2>17. ListedAddresses(n)
    <3> SUFFICES ASSUME NEW h \in DOMAIN D, D[h].listed, NEW a \in D[h].ips
                 PROVE  a \in DOMAIN R /\ D[R[a]].listed
      BY <2>3 DEF ListedAddresses
    <3>1. a \in DOMAIN c.addrs /\ c.dev[c.addrs[a]].listed
      BY <2>12 DEF WellFormed, ListedAddresses
    <3>2. c.addrs[a] \in DOMAIN c.dev /\ c.ids[c.dev[c.addrs[a]].id] = c.addrs[a]
      BY <3>1, TypedFacts DEF WellFormed, IdsAgree
    <3>3. c.dev[c.addrs[a]].id \notin gone
      BY <2>6, <3>1, <3>2
    <3> QED BY <2>4, <2>9, <2>10, <3>1, <3>2, <3>3
  <2>18. ListedNames(n)
    <3> SUFFICES ASSUME NEW h \in DOMAIN D, D[h].listed, D[h].apiLegacy # Blank
                 PROVE  /\ D[h].node = D[h].id
                        /\ <<D[h].id, D[h].apiLegacy>> \in TwoIds
                        /\ \A a \in DOMAIN A : A[a] = D[h].id => a = D[h].apiLegacy
      BY <2>3 DEF ListedNames
    <3>1. h \in DOMAIN c.dev /\ D[h] = c.dev[h]
      BY <2>12
    <3>2. \A a \in DOMAIN A : a \in DOMAIN c.aliases /\ A[a] = c.aliases[a]
      BY <2>4
    <3> QED BY <3>1, <3>2 DEF WellFormed, ListedNames
  <2>19. WellFormed(n)
    BY <2>13, <2>14, <2>15, <2>16, <2>17, <2>18 DEF WellFormed
  <2>20. ASSUME NEW id \in Nat, NEW t \in Nat, KnownSince(c, id, t), t + ret >= at
         PROVE  KnownSince(n, id, t)
    <3>1. PICK h : Leads(c, id, h) /\ (c.dev[h].listed \/ c.dev[h].seen >= t)
      BY <2>20, KnownLeads DEF WellFormed
    <3>2. h \in DOMAIN c.dev /\ c.dev[h].id \in DOMAIN c.ids /\ c.ids[c.dev[h].id] = h
          /\ c.dev[h].seen \in Nat
      BY <3>1, TypedFacts DEF Leads, WellFormed, AliasesAgree, IdsAgree, Entry
    <3>3. c.dev[h].id \notin gone
      BY <1>2, <2>6, <2>20, <3>1, <3>2
    <3>4. h \in DOMAIN D /\ D[h] = c.dev[h]
      BY <2>10, <2>12, <3>2, <3>3
    <3>5. Leads(n, id, h)
      <4>1. CASE id \in DOMAIN c.ids /\ h = c.ids[id]
        <5>1. id = c.dev[h].id
          BY <4>1 DEF WellFormed, IdsAgree
        <5> QED BY <2>3, <2>12, <3>4, <5>1 DEF Leads
      <4>2. CASE id \in DOMAIN c.aliases /\ h = c.ids[c.aliases[id]]
        <5>1. c.aliases[id] = c.dev[h].id
          BY <4>2 DEF WellFormed, AliasesAgree, IdsAgree
        <5>2. id \in DOMAIN A /\ A[id] = c.dev[h].id
          BY <2>4, <2>8, <3>3, <4>2, <5>1
        <5> QED BY <2>3, <2>12, <3>4, <5>2 DEF Leads
      <4> QED BY <3>1, <4>1, <4>2 DEF Leads
    <3> QED BY <2>3, <2>19, <3>1, <3>4, <3>5, KnownLeads DEF WellFormed
  <2> QED BY <1>2, <2>19, <2>20
<1> QED BY <1>1, <1>2

(***************************************************************************)
(* Sets read in some order                                                 *)
(***************************************************************************)
\* SetToSeqs lists a set: every element has a place.
LEMMA AllPlaces ==
    ASSUME NEW S, IsFiniteSet(S), NEW seq \in SetToSeqs(S)
    PROVE  \E n \in Nat : /\ DOMAIN seq = 1 .. n
                          /\ \A k \in 1 .. n : seq[k] \in S
                          /\ \A x \in S : \E k \in 1 .. n : x = seq[k]
<1> DEFINE n == Cardinality(S)
<1>1. n \in Nat
  BY FS_CardinalityType
<1>2. seq \in [1 .. n -> S] /\ \A i, j \in 1 .. n : i # j => seq[i] # seq[j]
  BY DEF SetToSeqs
<1>3. Cardinality(1 .. n) = n
  <2> HIDE DEF n
  <2> QED BY <1>1, FS_Interval
<1>4. seq \in Surjection(1 .. n, S)
  <2>1. seq \in Injection(1 .. n, S)
    BY <1>2 DEF Injection, IsInjective
  <2> QED BY <1>3, <2>1, FS_Injection
<1> HIDE DEF n
<1> QED BY <1>1, <1>2, <1>4 DEF Surjection

\* How many elements of S come before each.
Rank(S, B) == [x \in S |-> Cardinality({y \in S : <<y, x>> \in B})]

\* Under a strict order of a finite set the ranks of its elements are 0, 1 and so on.
LEMMA Ranks ==
    ASSUME NEW S, IsFiniteSet(S), NEW B,
           \A x \in S : <<x, x>> \notin B,
           \A x, y \in S : x # y => <<x, y>> \in B \/ <<y, x>> \in B,
           \A x, y, z \in S : <<x, y>> \in B /\ <<y, z>> \in B => <<x, z>> \in B,
           NEW rank, rank = Rank(S, B)
    PROVE  /\ Cardinality(S) \in Nat
           /\ \A x \in S : rank[x] + 1 \in 1 .. Cardinality(S)
           /\ \A i \in 1 .. Cardinality(S) : \E x \in S : rank[x] = i - 1
           /\ \A x, y \in S : x # y => rank[x] # rank[y]
<1> DEFINE n == Cardinality(S)
           below(x) == {y \in S : <<y, x>> \in B}
<1>1. n \in Nat
  BY FS_CardinalityType
<1>2. \A x \in S : IsFiniteSet(below(x)) /\ Cardinality(below(x)) \in Nat
  <2> TAKE x \in S
  <2>1. below(x) \in SUBSET S
    OBVIOUS
  <2> HIDE DEF below
  <2>2. IsFiniteSet(below(x))
    BY <2>1, FS_Subset
  <2> QED BY <2>2, FS_CardinalityType
<1>3. ASSUME NEW x \in S, NEW T \in SUBSET S, below(x) \cup {x} \subseteq T
      PROVE  Cardinality(below(x)) + 1 <= Cardinality(T)
  <2>1. x \notin below(x)
    OBVIOUS
  <2> HIDE DEF below
  <2>2. /\ IsFiniteSet(below(x) \cup {x})
        /\ Cardinality(below(x) \cup {x}) = Cardinality(below(x)) + 1
    BY <1>2, <2>1, FS_AddElement
  <2>3. IsFiniteSet(T) /\ below(x) \cup {x} \in SUBSET T
    BY <1>3, FS_Subset
  <2>4. Cardinality(below(x) \cup {x}) <= Cardinality(T)
    BY <2>3, FS_Subset
  <2> QED BY <2>2, <2>4
<1>4. \A x \in S : Cardinality(below(x)) \in 0 .. n - 1
  <2> TAKE x \in S
  <2>1. below(x) \cup {x} \subseteq S
    OBVIOUS
  <2>2. Cardinality(below(x)) + 1 <= n
    BY <1>3, <2>1
  <2> HIDE DEF below, n
  <2> QED BY <1>1, <1>2, <2>2
<1>5. ASSUME NEW x \in S, NEW y \in S, <<x, y>> \in B
      PROVE  Cardinality(below(x)) < Cardinality(below(y))
  <2>1. below(x) \cup {x} \subseteq below(y) /\ below(y) \in SUBSET S
    BY <1>5
  <2>2. Cardinality(below(x)) + 1 <= Cardinality(below(y))
    BY <1>3, <2>1
  <2> HIDE DEF below
  <2> QED BY <1>2, <2>2
<1>6. \A x \in S : rank[x] = Cardinality(below(x))
  BY DEF Rank
<1> HIDE DEF below
<1>7. \A x, y \in S : x # y => rank[x] # rank[y]
  <2> SUFFICES ASSUME NEW x \in S, NEW y \in S, x # y PROVE rank[x] # rank[y]
    OBVIOUS
  <2>1. rank[x] = Cardinality(below(x)) /\ rank[y] = Cardinality(below(y))
    BY <1>6
  <2>2. rank[x] \in Nat /\ rank[y] \in Nat
    BY <1>2, <2>1
  <2>3. CASE <<x, y>> \in B
    BY <1>5, <2>1, <2>2, <2>3
  <2>4. CASE <<y, x>> \in B
    BY <1>5, <2>1, <2>2, <2>4
  <2> QED BY <2>3, <2>4
<1>8. rank \in [S -> 0 .. n - 1]
  <2>1. rank = [x \in S |-> rank[x]]
    BY DEF Rank
  <2> HIDE DEF n
  <2> QED BY <1>4, <1>6, <2>1
<1>9. rank \in Surjection(S, 0 .. n - 1)
  <2>1. rank \in Injection(S, 0 .. n - 1)
    <3>1. DOMAIN rank = S
      BY DEF Rank
    <3>2. IsInjective(rank)
      BY <1>7, <3>1, Zenon DEF IsInjective
    <3> HIDE DEF n
    <3> QED BY <1>8, <3>2 DEF Injection
  <2>2. IsFiniteSet(0 .. n - 1) /\ Cardinality(0 .. n - 1) = n
    <3> HIDE DEF n
    <3>1. 0 \in Int /\ n - 1 \in Int
      BY <1>1
    <3>2. /\ IsFiniteSet(0 .. n - 1)
          /\ Cardinality(0 .. n - 1) = IF 0 > n - 1 THEN 0 ELSE n - 1 - 0 + 1
      BY <3>1, FS_Interval
    <3> QED BY <1>1, <3>2
  <2> QED BY <2>1, <2>2, FS_Injection
<1> HIDE DEF n
<1>10. \A i \in 1 .. n : \E x \in S : rank[x] = i - 1
  <2> TAKE i \in 1 .. n
  <2>1. i - 1 \in 0 .. n - 1
    BY <1>1
  <2> QED BY <1>9, <2>1 DEF Surjection
<1>11. \A x \in S : rank[x] + 1 \in 1 .. n
  BY <1>1, <1>4, <1>6
<1> QED BY <1>1, <1>7, <1>10, <1>11 DEF n

\* The rows of one object: of nodes that its lines name, not updated yet.
LEMMA ObjectRows ==
    ASSUME NEW key \in Objects
    PROVE  /\ Len(Content[key]) \in Nat /\ DOMAIN Content[key] = 1 .. Len(Content[key])
           /\ \A i \in 1 .. Len(Content[key]) : Content[key][i] \in LogNodes
           /\ IsFiniteSet(parseNodeMetadata(key))
           /\ \A r \in parseNodeMetadata(key) :
                 /\ r.id \in NodeIds /\ r.owner \in Nat /\ r.ips \in SUBSET Addresses
                 /\ r.updated \in Nat
                 /\ \E i \in 1 .. Len(Content[key]) : /\ Content[key][i].nodeId = r.id
                                                      /\ Content[key][i].nodeId # Blank
<1> DEFINE lines == Content[key]
           last == {i \in DOMAIN lines :
                      /\ lines[i].nodeId # Blank
                      /\ \A j \in DOMAIN lines : lines[j].nodeId = lines[i].nodeId => j <= i}
           row(i) == [id |-> lines[i].nodeId, owner |-> lines[i].owner, ips |-> lines[i].ips,
                      updated |-> Never]
<1>1. Len(lines) \in Nat /\ DOMAIN lines = 1 .. Len(lines)
  <2>1. lines \in Seq(ToSet(lines))
    BY LogsAssumption
  <2> HIDE DEF lines
  <2> QED BY <2>1
<1>2. \A i \in 1 .. Len(lines) : lines[i] \in LogNodes
  <2>1. \A i \in 1 .. Len(lines) : lines[i] \in ToSet(lines)
    <3> HIDE DEF lines
    <3> QED BY <1>1 DEF ToSet
  <2> QED BY <2>1 DEF LogNodes
<1>3. parseNodeMetadata(key) = {row(i) : i \in last}
  BY DEF parseNodeMetadata
<1>4. IsFiniteSet(last)
  <2>1. last \in SUBSET (1 .. Len(lines))
    <3> HIDE DEF lines
    <3> QED BY <1>1
  <2>2. IsFiniteSet(1 .. Len(lines))
    <3> HIDE DEF lines
    <3> QED BY <1>1, FS_Interval
  <2> HIDE DEF last, lines
  <2> QED BY <2>1, <2>2, FS_Subset
<1>5. \A i \in last : i \in 1 .. Len(lines) /\ lines[i].nodeId # Blank
  <2> HIDE DEF lines
  <2> QED BY <1>1
<1>6. \A i \in last : /\ lines[i].nodeId \in NodeIds /\ lines[i].owner \in Nat
                      /\ lines[i].ips \in SUBSET Addresses
  <2> HIDE DEF lines, last
  <2> QED BY <1>2, <1>5, LogsAssumption
<1>7. IsFiniteSet({row(i) : i \in last})
  <2> DEFINE f == [i \in last |-> row(i)]
  <2> HIDE DEF row, last
  <2>1. f \in Surjection(last, {row(i) : i \in last})
    BY DEF Surjection
  <2> HIDE DEF f
  <2> QED BY <1>4, <2>1, FS_Surjection
<1>8. ASSUME NEW r \in parseNodeMetadata(key)
      PROVE  /\ r.id \in NodeIds /\ r.owner \in Nat /\ r.ips \in SUBSET Addresses
             /\ r.updated \in Nat
             /\ \E i \in 1 .. Len(lines) : lines[i].nodeId = r.id /\ lines[i].nodeId # Blank
  <2>1. PICK i \in last : r = row(i)
    BY <1>3
  <2>2. r.id = lines[i].nodeId /\ r.owner = lines[i].owner /\ r.ips = lines[i].ips
        /\ r.updated = Never
    BY <2>1
  <2> HIDE DEF row, last, lines
  <2> QED BY <1>5, <1>6, <2>2 DEF Never
<1> QED BY <1>1, <1>2, <1>3, <1>7, <1>8

\* The rows m after rows were upserted into meta at t: those of today, the others alone.
Upserted(m, meta, rows, t) ==
    /\ DOMAIN m \subseteq NodeIds /\ m \in [DOMAIN m -> Row]
    /\ \A id \in DOMAIN m : m[id].updated <= t
    /\ \A id \in DOMAIN m :
          \/ m[id].updated = t /\ \E r \in rows : r.id = id
          \/ id \in DOMAIN meta /\ m[id] = meta[id]

\* A transaction that upserts rows makes them the latest and leaves the others alone.
LEMMA UpsertKeeps ==
    ASSUME NEW meta, DOMAIN meta \subseteq NodeIds, meta \in [DOMAIN meta -> Row],
           now \in Nat, \A id \in DOMAIN meta : meta[id].updated <= now,
           NEW rows, \A r \in rows : /\ r.id \in NodeIds /\ r.owner \in Nat
                                     /\ r.ips \in SUBSET Addresses,
           NEW fromList, NEW m, m = upsertNodeMetadataTx(meta, rows, fromList)
    PROVE  Upserted(m, meta, rows, now)
<1> DEFINE latest(id) == CHOOSE r \in rows : r.id = id
<1>1. /\ DOMAIN m = DOMAIN meta \cup {r.id : r \in rows}
      /\ m = [id \in DOMAIN m |-> m[id]]
      /\ \A id \in DOMAIN m : m[id] = IF \E r \in rows : r.id = id
                                      THEN upsertNode(meta, latest(id), fromList)
                                      ELSE meta[id]
  BY DEF upsertNodeMetadataTx
<1>2. ASSUME NEW id, NEW x \in rows, x.id = id
      PROVE  latest(id) \in rows /\ latest(id).id = id
  BY <1>2
<1> HIDE DEF latest
<1>3. ASSUME NEW r \in rows
      PROVE  /\ upsertNode(meta, r, fromList) \in Row
             /\ upsertNode(meta, r, fromList).updated = now
  <2>1. /\ r.owner \in Nat /\ r.ips \in SUBSET Addresses
        /\ r.id \in DOMAIN meta => meta[r.id].owner \in Nat /\ meta[r.id].ips \in SUBSET Addresses
    <3>1. r.id \in DOMAIN meta => meta[r.id] \in Row
      OBVIOUS
    <3> QED BY <3>1 DEF Row
  <2> DEFINE o == IF r.owner = Blank /\ r.id \in DOMAIN meta THEN meta[r.id].owner ELSE r.owner
             a == IF r.ips = {} /\ ~fromList /\ r.id \in DOMAIN meta THEN meta[r.id].ips ELSE r.ips
  <2>2. o \in Nat /\ a \in SUBSET Addresses
    BY <2>1
  <2>3. upsertNode(meta, r, fromList) = [owner |-> o, ips |-> a, updated |-> now]
    BY DEF upsertNode
  <2> HIDE DEF o, a
  <2> QED BY <2>2, <2>3 DEF Row
<1>4. ASSUME NEW id \in DOMAIN m, \E r \in rows : r.id = id
      PROVE  m[id] \in Row /\ m[id].updated = now /\ id \in NodeIds
  <2>1. m[id] = upsertNode(meta, latest(id), fromList)
    BY <1>1, <1>4
  <2>2. latest(id) \in rows /\ latest(id).id = id
    BY <1>2, <1>4
  <2> QED BY <1>3, <2>1, <2>2
<1>5. ASSUME NEW id \in DOMAIN m, ~\E r \in rows : r.id = id
      PROVE  id \in DOMAIN meta /\ m[id] = meta[id] /\ m[id] \in Row /\ id \in NodeIds
             /\ m[id].updated <= now
  <2>1. id \in DOMAIN meta /\ m[id] = meta[id]
    BY <1>1, <1>5
  <2> QED BY <2>1
<1>6. now <= now
  OBVIOUS
<1>7. \A id \in DOMAIN m : m[id] \in Row /\ m[id].updated <= now /\ id \in NodeIds
  BY <1>4, <1>5, <1>6
<1> QED BY <1>1, <1>4, <1>5, <1>7 DEF Upserted

\* The first n lines of an object are read.
LEMMA ReadLinesKeep ==
    ASSUME NEW c, WellFormed(c), now \in Nat, NEW key \in Objects,
           NEW n \in 0 .. Len(Content[key]), NEW m, m = readLines(c, key, n)
    PROVE  /\ WellFormed(m)
           /\ \A k \in 1 .. n : Content[key][k].nodeId # Blank
                                  => KnownSince(m, Content[key][k].nodeId, now)
           /\ \A id, u \in Nat : KnownSince(c, id, u) /\ u <= now => KnownSince(m, id, u)
<1> DEFINE lines == Content[key]
           seq == SubSeq(lines, 1, n)
<1>1. /\ Len(lines) \in Nat /\ DOMAIN lines = 1 .. Len(lines)
      /\ \A i \in 1 .. Len(lines) : lines[i] \in LogNodes
  BY ObjectRows
<1>2. m = ReadNodes(c, seq, now)
  BY DEF readLines, ReadNodes
<1> HIDE DEF lines
<1>3. n \in Nat /\ n \in Int /\ 1 \in Int /\ n - 1 + 1 = n /\ \A i \in 1 .. n : lines[i] \in LogNodes
  BY <1>1 DEF lines
<1>4. /\ seq \in Seq(LogNodes) /\ Len(seq) = IF 1 <= n THEN n - 1 + 1 ELSE 0
      /\ \A i \in 1 .. n - 1 + 1 : seq[i] = lines[1 + i - 1]
  <2> HIDE DEF seq
  <2>1. seq = SubSeq(lines, 1, n)
    BY DEF seq
  <2> QED BY <1>3, <2>1, SubSeqProperties
<1> HIDE DEF seq
<1>5. Len(seq) = n
  BY <1>3, <1>4
<1>6. DOMAIN seq = 1 .. n /\ \A i \in 1 .. n : seq[i] = lines[i] /\ seq[i] \in LogNodes
  <2>1. \A i \in 1 .. n : 1 + i - 1 = i
    OBVIOUS
  <2> QED BY <1>3, <1>4, <1>5, <2>1
<1>7. /\ WellFormed(m)
      /\ \A k \in 1 .. n : seq[k].nodeId # Blank => KnownSince(m, seq[k].nodeId, now)
      /\ \A id, u \in Nat : KnownSince(c, id, u) /\ u <= now => KnownSince(m, id, u)
  BY <1>2, <1>3, <1>6, LinesKeep
<1> QED BY <1>6, <1>7 DEF lines

\* An object is read in full: what was known stays known, and the nodes of its rows
\* are known as of now.
LEMMA ReadObjectKeeps ==
    ASSUME NEW c, WellFormed(c), now \in Nat, NEW key \in Objects,
           NEW rows \in SetToSeqs(parseNodeMetadata(key)),
           NEW m, m = UpsertNodeMetadata(readLines(c, key, Len(Content[key])), rows)
    PROVE  /\ WellFormed(m)
           /\ \A r \in parseNodeMetadata(key) : KnownSince(m, r.id, now)
           /\ \A id, u \in Nat : KnownSince(c, id, u) /\ u <= now => KnownSince(m, id, u)
<1> DEFINE a == readLines(c, key, Len(Content[key]))
<1>1. /\ Len(Content[key]) \in 0 .. Len(Content[key])
      /\ IsFiniteSet(parseNodeMetadata(key))
      /\ \A r \in parseNodeMetadata(key) :
            /\ r.id \in NodeIds /\ r.owner \in Nat /\ r.ips \in SUBSET Addresses
            /\ r.updated \in Nat
            /\ \E i \in 1 .. Len(Content[key]) : /\ Content[key][i].nodeId = r.id
                                                 /\ Content[key][i].nodeId # Blank
  BY ObjectRows
<1>2. /\ WellFormed(a)
      /\ \A k \in 1 .. Len(Content[key]) : Content[key][k].nodeId # Blank
                                  => KnownSince(a, Content[key][k].nodeId, now)
      /\ \A id, u \in Nat : KnownSince(c, id, u) /\ u <= now => KnownSince(a, id, u)
  <2>1. a = readLines(c, key, Len(Content[key]))
    OBVIOUS
  <2> HIDE DEF a
  <2> QED BY <1>1, <2>1, ReadLinesKeep
<1>3. m = UpsertNodeMetadata(a, rows)
  OBVIOUS
<1> HIDE DEF a
<1>4. PICK n \in Nat : /\ DOMAIN rows = 1 .. n
                       /\ \A k \in 1 .. n : rows[k] \in parseNodeMetadata(key)
  BY <1>1, AllPlaces
<1>5. \A k \in 1 .. n : /\ rows[k].id \in NodeIds /\ rows[k].owner \in Nat
                        /\ rows[k].ips \in SUBSET Addresses /\ rows[k].updated \in Nat
  BY <1>1, <1>4
<1>6. /\ WellFormed(m)
      /\ \A id, t \in Nat : KnownSince(a, id, t) => KnownSince(m, id, t)
  BY <1>2, <1>3, <1>4, <1>5, RowsKeep
<1>7. ASSUME NEW r \in parseNodeMetadata(key) PROVE KnownSince(m, r.id, now)
  <2>1. KnownSince(a, r.id, now) /\ r.id \in Nat
    BY <1>1, <1>2, BlankIsNoId
  <2> QED BY <1>6, <2>1
<1> QED BY <1>2, <1>6, <1>7

\* The objects that need their identities, in the order in which a poll takes them.
LEMMA NeedsAreObjects ==
    ASSUME NEW d, DOMAIN d.objects \subseteq Objects,
           d.objects \in [DOMAIN d.objects -> [hydrated : BOOLEAN, at : Nat]]
    PROVE  GetObjectsNeedingMetadata(d) \in Seq(Objects)
<1> DEFINE S == needsMetadata(d)
           B == {p \in S \X S : \/ d.objects[p[1]].at < d.objects[p[2]].at
                                \/ d.objects[p[1]].at = d.objects[p[2]].at /\ p[1] < p[2]}
           rank == Rank(S, B)
           n == Cardinality(S)
           s == InOrder(S, LAMBDA a, b :
                    \/ d.objects[a].at < d.objects[b].at
                    \/ d.objects[a].at = d.objects[b].at /\ a < b)
           last == IF Len(s) < MaxObjects THEN Len(s) ELSE MaxObjects
<1>1. S \subseteq DOMAIN d.objects /\ IsFiniteSet(S)
  <2>1. S \subseteq DOMAIN d.objects
    BY DEF needsMetadata
  <2>2. S \in SUBSET Objects
    BY <2>1
  <2> QED BY <2>1, <2>2, TimesAssumption, FS_Subset
<1>2. \A x \in S : x \in Nat /\ d.objects[x].at \in Nat
  BY <1>1, TimesAssumption
<1> HIDE DEF S
<1>3. \A x, y \in S : <<x, y>> \in B <=> \/ d.objects[x].at < d.objects[y].at
                                         \/ d.objects[x].at = d.objects[y].at /\ x < y
  OBVIOUS
<1>4. /\ n \in Nat
      /\ \A i \in 1 .. n : \E x \in S : rank[x] = i - 1
  <2>1. rank = Rank(S, B)
    OBVIOUS
  <2> HIDE DEF B, rank, s, last
  <2>2. \A x \in S : <<x, x>> \notin B
    BY <1>2, <1>3
  <2>3. ASSUME NEW x \in S, NEW y \in S, x # y
        PROVE  <<x, y>> \in B \/ <<y, x>> \in B
    <3>1. /\ x \in Nat /\ y \in Nat
          /\ d.objects[x].at \in Nat /\ d.objects[y].at \in Nat
      BY <1>2
    <3>2. \/ d.objects[x].at < d.objects[y].at \/ d.objects[y].at < d.objects[x].at
          \/ d.objects[x].at = d.objects[y].at /\ (x < y \/ y < x)
      BY <2>3, <3>1
    <3> QED BY <1>3, <3>2
  <2>4. \A x, y, z \in S : <<x, y>> \in B /\ <<y, z>> \in B => <<x, z>> \in B
    BY <1>2, <1>3
  <2> QED BY <1>1, <2>1, <2>2, <2>3, <2>4, Ranks
<1> DEFINE place(i) == CHOOSE x \in S : Cardinality({y \in S :
                \/ d.objects[y].at < d.objects[x].at
                \/ d.objects[y].at = d.objects[x].at /\ y < x}) = i - 1
<1>5. \A x \in S : rank[x] = Cardinality({y \in S :
                \/ d.objects[y].at < d.objects[x].at
                \/ d.objects[y].at = d.objects[x].at /\ y < x})
  <2> SUFFICES ASSUME NEW x \in S
               PROVE  {y \in S : <<y, x>> \in B} = {y \in S :
                          \/ d.objects[y].at < d.objects[x].at
                          \/ d.objects[y].at = d.objects[x].at /\ y < x}
    BY DEF Rank
  <2> HIDE DEF B
  <2> QED BY <1>3
<1>6. \A i \in 1 .. n : place(i) \in S
  <2> HIDE DEF rank
  <2> QED BY <1>4, <1>5
<1>7. s = [i \in 1 .. n |-> place(i)]
  BY DEF InOrder
<1> HIDE DEF s, place, n, rank, B
<1>8. s \in Seq(S)
  BY <1>4, <1>6, <1>7
<1>9. Len(s) \in Nat /\ last \in Int /\ 1 \in Int /\ \A i \in 1 .. last : s[i] \in S
  <2>1. MaxObjects \in Nat
    BY TimesAssumption
  <2> QED BY <1>8, <2>1
<1>10. GetObjectsNeedingMetadata(d) = SubSeq(s, 1, last)
  BY DEF GetObjectsNeedingMetadata, s, S
<1> HIDE DEF last
<1>11. SubSeq(s, 1, last) \in Seq(S)
  BY <1>9, SubSeqProperties
<1>12. S \subseteq Objects
  BY <1>1
<1> QED BY <1>10, <1>11, <1>12

(***************************************************************************)
(* The steps of the poller                                                 *)
(***************************************************************************)
\* A database may be found with objects of an older release, and with no identities.
LEMMA InitHolds == Init => IInv
<1> SUFFICES ASSUME Init PROVE IInv
  OBVIOUS
<1>1. PICK old \in SUBSET {k \in Objects : Arrives[k] = Never}, hydrated \in BOOLEAN :
          db = [meta |-> <<>>, pairs |-> <<>>,
                objects |-> [k \in old |-> [hydrated |-> hydrated, at |-> 1]],
                index |-> IF hydrated THEN {e \in old \X NodeIds : e[2] \in objectMetadataIDs(e[1])}
                          ELSE {}]
  BY DEF Init
<1>2. PollerTyped
  BY DEF Init, PollerTyped
<1>3. WellFormed(cache)
  BY EmptyIsWellFormed DEF Init
<1>4. StoredAreKnown
  BY DEF Init, StoredAreKnown
<1>5. TablesTyped
  <2>1. DOMAIN db = {"meta", "pairs", "objects", "index"} /\ db.meta = <<>>
        /\ db.objects = [k \in old |-> [hydrated |-> hydrated, at |-> 1]]
    BY <1>1
  <2>2. DOMAIN db.meta = {} /\ db.meta \in [{} -> Row]
    BY <2>1
  <2>3. DOMAIN db.objects = old /\ db.objects \in [old -> [hydrated : BOOLEAN, at : Nat]]
    BY <2>1
  <2> QED BY <2>1, <2>2, <2>3 DEF TablesTyped
<1> QED BY <1>2, <1>3, <1>4, <1>5 DEF IInv

\* The clock goes on: identities leave retention, none comes back.
LEMMA TickKeeps ==
    ASSUME IInv, Tick
    PROVE  IInv'
<1>1. now' \in Nat /\ now <= now'
  BY DEF IInv, PollerTyped, Tick
<1>2. PollerTyped'
  BY <1>1 DEF IInv, PollerTyped, Tick
<1>3. \A id \in DOMAIN db.meta : db.meta[id].updated \in Nat
  BY DEF IInv, TablesTyped, Row
<1>4. TablesTyped'
  BY <1>1, <1>3 DEF IInv, PollerTyped, TablesTyped, Tick
<1>5. StoredAreKnown'
  BY <1>1, <1>3, TimesAssumption DEF IInv, PollerTyped, StoredAreKnown, Tick, memory
<1>6. WellFormed(cache)'
  BY DEF IInv, Tick, memory
<1> QED BY <1>2, <1>4, <1>5, <1>6 DEF IInv

\* Steps that leave the clock, the cache and the tables alone.
LEMMA SameMemoryKeeps ==
    ASSUME IInv, PollerTyped', UNCHANGED <<now, cache, db>>, loaded' => loaded
    PROVE  IInv'
<1>1. TablesTyped' /\ StoredAreKnown' /\ WellFormed(cache)'
  BY DEF IInv, TablesTyped, StoredAreKnown
<1> QED BY <1>1 DEF IInv

\* The API's list replaces the cache, which then knows the listed devices only.
LEMMA FetchKeeps ==
    ASSUME IInv, FetchDevices
    PROVE  IInv'
<1>1. WellFormed(cache')
  BY UpdateKeeps DEF IInv, PollerTyped, FetchDevices
<1>2. PollerTyped' /\ TablesTyped' /\ StoredAreKnown'
  BY DEF IInv, PollerTyped, TablesTyped, StoredAreKnown, FetchDevices
<1> QED BY <1>1, <1>2 DEF IInv

\* The identities of the list are written while the rows are not loaded.
LEMMA PersistKeeps ==
    ASSUME IInv, persistDeviceIdentities
    PROVE  IInv'
<1> DEFINE changed == {r.id : r \in {e \in ToSet(api) :
                        \/ full \/ e.id \notin DOMAIN stored.known
                        \/ stored.known[e.id] # fingerprint(e)}}
<1>1. db' = [db EXCEPT !.meta = upsertNodeMetadataTx(db.meta, listedRows(changed), TRUE)]
  BY DEF persistDeviceIdentities
<1> HIDE DEF changed
<1>2. \A r \in listedRows(changed) : /\ r.id \in NodeIds /\ r.owner \in Nat
                                     /\ r.ips \in SUBSET Addresses
  <2>1. ToSet(api) \subseteq Devices
    BY DEF IInv, PollerTyped, Devices
  <2> QED BY <2>1, ListsAssumption DEF listedRows
<1> DEFINE m == upsertNodeMetadataTx(db.meta, listedRows(changed), TRUE)
<1>3. /\ DOMAIN m \subseteq NodeIds /\ m \in [DOMAIN m -> Row]
      /\ \A id \in DOMAIN m : m[id].updated <= now
  <2>1. /\ DOMAIN db.meta \subseteq NodeIds /\ db.meta \in [DOMAIN db.meta -> Row]
        /\ now \in Nat /\ \A id \in DOMAIN db.meta : db.meta[id].updated <= now
    BY DEF IInv, TablesTyped, PollerTyped
  <2>2. Upserted(m, db.meta, listedRows(changed), now)
    BY <1>2, <2>1, UpsertKeeps
  <2> QED BY <2>2 DEF Upserted
<1> HIDE DEF m
<1>4. db'.meta = m /\ db'.objects = db.objects /\ DOMAIN db' = {"meta", "pairs", "objects", "index"}
  BY <1>1 DEF m, IInv, TablesTyped
<1>5. TablesTyped'
  BY <1>3, <1>4 DEF IInv, TablesTyped, persistDeviceIdentities
<1>6. PollerTyped' /\ StoredAreKnown'
  BY DEF IInv, PollerTyped, StoredAreKnown, persistDeviceIdentities
<1>7. WellFormed(cache)'
  BY DEF IInv, persistDeviceIdentities
<1> QED BY <1>5, <1>6, <1>7 DEF IInv

\* The rows are loaded and told to the cache: from now on it knows their nodes.
LEMMA LoadKeeps ==
    ASSUME IInv, LoadMetadata
    PROVE  IInv'
<1> DEFINE row(id) == [id |-> id, owner |-> db.meta[id].owner, ips |-> db.meta[id].ips,
                       updated |-> db.meta[id].updated]
           S == {row(id) : id \in DOMAIN db.meta}
<1>1. PICK rows \in SetToSeqs(S) :
         cache' = PruneFlowOnly(UpsertNodeMetadata(cache, rows), Retention, now)
  BY DEF LoadMetadata
<1>2. \A id \in DOMAIN db.meta : /\ id \in NodeIds /\ row(id).id = id
                                 /\ row(id).owner \in Nat /\ row(id).ips \in SUBSET Addresses
                                 /\ row(id).updated = db.meta[id].updated
                                 /\ row(id).updated \in Nat
  BY DEF IInv, TablesTyped, Row
<1>3. IsFiniteSet(S)
  <2> DEFINE f == [id \in DOMAIN db.meta |-> row(id)]
  <2>1. IsFiniteSet(DOMAIN db.meta)
    <3>1. DOMAIN db.meta \in SUBSET NodeIds
      BY DEF IInv, TablesTyped
    <3> QED BY <3>1, TimesAssumption, FS_Subset
  <2> HIDE DEF row
  <2>2. f \in Surjection(DOMAIN db.meta, S)
    BY DEF Surjection
  <2> HIDE DEF f, S
  <2> QED BY <2>1, <2>2, FS_Surjection
<1>4. \A r \in S : \E id \in DOMAIN db.meta : r = row(id)
  OBVIOUS
<1>5. \A id \in DOMAIN db.meta : row(id) \in S
  OBVIOUS
<1> HIDE DEF row, S
<1>6. PICK n \in Nat : /\ DOMAIN rows = 1 .. n
                       /\ \A k \in 1 .. n : rows[k] \in S
                       /\ \A x \in S : \E k \in 1 .. n : x = rows[k]
  BY <1>3, AllPlaces
<1>7. \A k \in 1 .. n : /\ rows[k].id \in NodeIds /\ rows[k].owner \in Nat
                        /\ rows[k].ips \in SUBSET Addresses /\ rows[k].updated \in Nat
  BY <1>2, <1>4, <1>6
<1> DEFINE m == UpsertNodeMetadata(cache, rows)
<1>8. /\ WellFormed(m)
      /\ \A k \in 1 .. n : KnownSince(m, rows[k].id, rows[k].updated)
  BY <1>6, <1>7, RowsKeep DEF IInv
<1>9. \A id \in DOMAIN db.meta : KnownSince(m, id, db.meta[id].updated)
  BY <1>2, <1>5, <1>6, <1>8
<1>10. cache' = PruneFlowOnly(m, Retention, now)
  BY <1>1
<1> HIDE DEF m
<1>11. Retention \in Nat /\ now \in Nat
  BY TimesAssumption DEF IInv, PollerTyped
<1>12. /\ WellFormed(cache')
       /\ \A id, t \in Nat : KnownSince(m, id, t) /\ (Retention = 0 \/ t + Retention >= now)
             => KnownSince(cache', id, t)
  BY <1>8, <1>10, <1>11, PruneKeeps
<1>13. \A id \in DOMAIN db.meta : id \in Nat /\ db.meta[id].updated \in Nat
  BY <1>2, BlankIsNoId
<1>14. StoredAreKnown'
  BY <1>9, <1>12, <1>13 DEF StoredAreKnown, LoadMetadata
<1>15. PollerTyped' /\ TablesTyped'
  BY DEF IInv, PollerTyped, TablesTyped, LoadMetadata, afterRefresh
<1> QED BY <1>12, <1>14, <1>15 DEF IInv

\* A cleanup keeps rows as they are, and forgets only those past retention.
LEMMA CleanUpForgets ==
    ASSUME IInv, CleanUp
    PROVE  /\ DOMAIN db' = {"meta", "pairs", "objects", "index"}
           /\ DOMAIN db'.meta \subseteq DOMAIN db.meta
           /\ db'.meta = [id \in DOMAIN db'.meta |-> db.meta[id]]
           /\ \A id \in DOMAIN db'.meta : db'.meta[id] = db.meta[id]
           /\ \A id \in DOMAIN db.meta \ DOMAIN db'.meta : db.meta[id].updated + Retention < now
           /\ DOMAIN db'.objects \subseteq DOMAIN db.objects
           /\ db'.objects = [k \in DOMAIN db'.objects |-> db.objects[k]]
<1>1. CASE Retention = 0
  BY <1>1 DEF CleanUp, Cleanup, IInv, TablesTyped
<1>2. CASE Retention # 0
  <2> DEFINE pairs == [id \in {i \in DOMAIN db.pairs : ~(db.pairs[i] + Retention < now)} |-> db.pairs[id]]
             old == {k \in DOMAIN db.objects : db.objects[k].at + Retention < now}
             forgotten == {id \in DOMAIN db.meta :
                             db.meta[id].updated + Retention < now /\ id \notin DOMAIN pairs}
             index == {e \in db.index : e[1] \notin old}
  <2>1. db' = [db EXCEPT !.pairs = pairs, !.index = index,
                         !.objects = Drop(db.objects, old),
                         !.meta = Drop(db.meta, forgotten)]
    BY <1>2 DEF CleanUp, Cleanup
  <2> HIDE DEF pairs, old, forgotten, index
  <2>2. /\ DOMAIN db' = {"meta", "pairs", "objects", "index"}
        /\ db'.meta = Drop(db.meta, forgotten) /\ db'.objects = Drop(db.objects, old)
    BY <2>1 DEF IInv, TablesTyped
  <2>3. DOMAIN db.meta \ DOMAIN db'.meta \subseteq forgotten
    BY <2>2 DEF Drop
  <2>4. \A id \in forgotten : db.meta[id].updated + Retention < now
    BY DEF forgotten
  <2> QED BY <2>2, <2>3, <2>4 DEF Drop
<1> QED BY <1>1, <1>2

\* A cleanup forgets, in the tables and in the cache, what is past retention.
LEMMA CleanUpKeeps ==
    ASSUME IInv, CleanUp
    PROVE  IInv'
<1>1. Retention \in Nat /\ now \in Nat
  BY TimesAssumption DEF IInv, PollerTyped
<1>2. /\ WellFormed(cache')
      /\ \A id, t \in Nat : KnownSince(cache, id, t) /\ (Retention = 0 \/ t + Retention >= now)
            => KnownSince(cache', id, t)
  BY <1>1, PruneKeeps DEF IInv, CleanUp
<1>3. /\ DOMAIN db' = {"meta", "pairs", "objects", "index"}
      /\ DOMAIN db'.meta \subseteq DOMAIN db.meta
      /\ db'.meta = [id \in DOMAIN db'.meta |-> db.meta[id]]
      /\ DOMAIN db'.objects \subseteq DOMAIN db.objects
      /\ db'.objects = [k \in DOMAIN db'.objects |-> db.objects[k]]
  BY CleanUpForgets
<1>4. TablesTyped'
  <2>1. \A id \in DOMAIN db'.meta : /\ id \in NodeIds /\ db'.meta[id] \in Row
                                    /\ db'.meta[id].updated <= now
    BY <1>3 DEF IInv, TablesTyped
  <2>2. \A k \in DOMAIN db'.objects :
           k \in Objects /\ db'.objects[k] \in [hydrated : BOOLEAN, at : Nat]
    BY <1>3 DEF IInv, TablesTyped
  <2>3. db'.meta \in [DOMAIN db'.meta -> Row]
    BY <1>3, <2>1
  <2>4. db'.objects \in [DOMAIN db'.objects -> [hydrated : BOOLEAN, at : Nat]]
    BY <1>3, <2>2
  <2>5. now' = now
    BY DEF CleanUp
  <2> QED BY <1>3, <2>1, <2>2, <2>3, <2>4, <2>5 DEF TablesTyped
<1>5. \A id \in DOMAIN db.meta : id \in Nat /\ db.meta[id].updated \in Nat
  BY BlankIsNoId DEF IInv, TablesTyped, Row
<1>6. StoredAreKnown'
  <2>1. now' = now /\ loaded' = loaded
    BY DEF CleanUp
  <2>2. \A id \in DOMAIN db'.meta : id \in DOMAIN db.meta /\ db'.meta[id] = db.meta[id]
    BY <1>3
  <2> QED BY <1>2, <1>5, <2>1, <2>2 DEF IInv, StoredAreKnown
<1>7. PollerTyped'
  BY DEF IInv, PollerTyped, CleanUp
<1> QED BY <1>2, <1>4, <1>6, <1>7 DEF IInv

\* Only the clock's owner and the tables matter to what is known: a cache that knows no
\* less leaves the rows known.
LEMMA KnownStay ==
    ASSUME IInv, now' = now, loaded' = loaded, db' = db, PollerTyped', WellFormed(cache'),
           \A id, u \in Nat : KnownSince(cache, id, u) /\ u <= now => KnownSince(cache', id, u)
    PROVE  IInv'
<1>1. \A id \in DOMAIN db.meta : id \in Nat /\ db.meta[id].updated \in Nat
                                 /\ db.meta[id].updated <= now
  BY BlankIsNoId DEF IInv, TablesTyped, Row
<1>2. StoredAreKnown'
  BY <1>1 DEF IInv, StoredAreKnown
<1>3. TablesTyped'
  BY DEF IInv, TablesTyped
<1> QED BY <1>2, <1>3 DEF IInv

\* What reading an object does to the cache.
LEMMA ReadKeeps ==
    ASSUME IInv, NEW key \in Objects, readObject(key)
    PROVE  /\ WellFormed(cache')
           /\ \A r \in parseNodeMetadata(key) : KnownSince(cache', r.id, now)
           /\ \A id, u \in Nat : KnownSince(cache, id, u) /\ u <= now => KnownSince(cache', id, u)
<1>1. PICK rows \in SetToSeqs(parseNodeMetadata(key)) :
         cache' = UpsertNodeMetadata(readLines(cache, key, Len(Content[key])), rows)
  BY DEF readObject
<1>2. WellFormed(cache) /\ now \in Nat
  BY DEF IInv, PollerTyped
<1> QED BY <1>1, <1>2, ReadObjectKeeps

\* What a read that fails part of the way does to the cache.
LEMMA FailedReadKeeps ==
    ASSUME IInv, NEW key \in Objects, readFailsAfterSome(key)
    PROVE  /\ WellFormed(cache')
           /\ \A id, u \in Nat : KnownSince(cache, id, u) /\ u <= now => KnownSince(cache', id, u)
<1>1. PICK n \in 0 .. Len(Content[key]) : cache' = readLines(cache, key, n)
  BY DEF readFailsAfterSome
<1>2. WellFormed(cache) /\ now \in Nat
  BY DEF IInv, PollerTyped
<1> QED BY <1>1, <1>2, ReadLinesKeep

\* The identities of an object are written after the object was read: the rows that
\* change are of nodes the cache knows as of now.
LEMMA WrittenAreKnown ==
    ASSUME IInv, NEW key \in Objects, readObject(key), now' = now, loaded' = loaded,
           db'.meta = upsertNodeMetadataTx(db.meta, parseNodeMetadata(key), FALSE)
    PROVE  /\ DOMAIN db'.meta \subseteq NodeIds /\ db'.meta \in [DOMAIN db'.meta -> Row]
           /\ \A id \in DOMAIN db'.meta : db'.meta[id].updated <= now
           /\ StoredAreKnown'
<1>1. \A r \in parseNodeMetadata(key) : /\ r.id \in NodeIds /\ r.owner \in Nat
                                        /\ r.ips \in SUBSET Addresses
  BY ObjectRows
<1>2. /\ DOMAIN db.meta \subseteq NodeIds /\ db.meta \in [DOMAIN db.meta -> Row]
      /\ now \in Nat /\ \A id \in DOMAIN db.meta : db.meta[id].updated <= now
  BY DEF IInv, TablesTyped, PollerTyped
<1> DEFINE m == upsertNodeMetadataTx(db.meta, parseNodeMetadata(key), FALSE)
           R == parseNodeMetadata(key)
<1>7. Upserted(m, db.meta, R, now)
  BY <1>1, <1>2, UpsertKeeps
<1>8. db'.meta = m
  OBVIOUS
<1> HIDE DEF m
<1>3. /\ DOMAIN db'.meta \subseteq NodeIds /\ db'.meta \in [DOMAIN db'.meta -> Row]
      /\ \A id \in DOMAIN db'.meta : db'.meta[id].updated <= now
      /\ \A id \in DOMAIN db'.meta :
            \/ db'.meta[id].updated = now /\ \E r \in parseNodeMetadata(key) : r.id = id
            \/ id \in DOMAIN db.meta /\ db'.meta[id] = db.meta[id]
  BY <1>7, <1>8 DEF Upserted
<1>4. /\ \A r \in parseNodeMetadata(key) : KnownSince(cache', r.id, now)
      /\ \A id, u \in Nat : KnownSince(cache, id, u) /\ u <= now => KnownSince(cache', id, u)
  BY ReadKeeps
<1>5. ASSUME loaded', NEW id \in DOMAIN db'.meta,
             Retention = 0 \/ db'.meta[id].updated + Retention >= now
      PROVE  KnownSince(cache', id, db'.meta[id].updated)
  <2>1. CASE db'.meta[id].updated = now /\ \E r \in parseNodeMetadata(key) : r.id = id
    BY <1>4, <2>1
  <2>2. CASE id \in DOMAIN db.meta /\ db'.meta[id] = db.meta[id]
    <3>1. KnownSince(cache, id, db.meta[id].updated)
      BY <1>5, <2>2 DEF IInv, StoredAreKnown
    <3>2. id \in Nat /\ db.meta[id].updated \in Nat /\ db.meta[id].updated <= now
      BY <1>2, <2>2, BlankIsNoId DEF Row
    <3> QED BY <1>4, <2>2, <3>1, <3>2
  <2> QED BY <1>3, <2>1, <2>2
<1>6. StoredAreKnown'
  BY <1>5 DEF StoredAreKnown
<1> QED BY <1>3, <1>6

\* A poll starts with the objects that need their identities.
LEMMA StartPollKeeps ==
    ASSUME IInv, StartPoll
    PROVE  IInv'
<1>1. GetObjectsNeedingMetadata(db) \in Seq(Objects)
  BY NeedsAreObjects DEF IInv, TablesTyped
<1>2. PollerTyped'
  BY <1>1 DEF IInv, PollerTyped, StartPoll
<1> QED BY <1>2, SameMemoryKeeps DEF StartPoll, memory

\* The next object to hydrate.
LEMMA NextObject ==
    ASSUME IInv, todo # <<>>
    PROVE  Head(todo) \in Objects /\ Tail(todo) \in Seq(Objects)
BY HeadTailProperties DEF IInv, PollerTyped

\* An object's identities are written.
LEMMA HydrateKeeps ==
    ASSUME IInv, HydrateUpsert
    PROVE  IInv'
<1>1. Head(todo) \in Objects /\ readObject(Head(todo)) /\ now' = now /\ loaded' = loaded
  BY NextObject DEF HydrateUpsert
<1> DEFINE m == upsertNodeMetadataTx(db.meta, parseNodeMetadata(Head(todo)), FALSE)
<1>2. db' = [db EXCEPT !.meta = m]
  BY DEF HydrateUpsert
<1> HIDE DEF m
<1>3. db'.meta = m /\ db'.objects = db.objects /\ DOMAIN db' = {"meta", "pairs", "objects", "index"}
  BY <1>2 DEF IInv, TablesTyped
<1>4. /\ DOMAIN db'.meta \subseteq NodeIds /\ db'.meta \in [DOMAIN db'.meta -> Row]
      /\ \A id \in DOMAIN db'.meta : db'.meta[id].updated <= now
      /\ StoredAreKnown'
  BY <1>1, <1>3, WrittenAreKnown DEF m
<1>5. TablesTyped'
  BY <1>1, <1>3, <1>4 DEF IInv, TablesTyped
<1>6. PollerTyped'
  BY DEF IInv, PollerTyped, HydrateUpsert
<1>7. WellFormed(cache')
  BY <1>1, ReadKeeps
<1> QED BY <1>4, <1>5, <1>6, <1>7 DEF IInv

\* An object that cannot be hydrated is passed over.
LEMMA HydrateFailsKeeps ==
    ASSUME IInv, HydrateFails
    PROVE  IInv'
<1>1. Head(todo) \in Objects /\ Tail(todo) \in Seq(Objects)
  BY NextObject DEF HydrateFails
<1>2. /\ WellFormed(cache')
      /\ \A id, u \in Nat : KnownSince(cache, id, u) /\ u <= now => KnownSince(cache', id, u)
  BY <1>1, ReadKeeps, FailedReadKeeps DEF HydrateFails
<1>3. PollerTyped'
  BY <1>1 DEF IInv, PollerTyped, HydrateFails
<1> QED BY <1>2, <1>3, KnownStay DEF HydrateFails

\* An object that is not ingested leaves in the cache what was read of it.
LEMMA IngestFailsKeeps ==
    ASSUME IInv, IngestFails
    PROVE  IInv'
<1>1. PICK k \in Listed : readFailsAfterSome(k) \/ readObject(k)
  BY DEF IngestFails
<1>2. k \in Objects
  BY DEF Listed
<1>3. /\ WellFormed(cache')
      /\ \A id, u \in Nat : KnownSince(cache, id, u) /\ u <= now => KnownSince(cache', id, u)
  BY <1>1, <1>2, ReadKeeps, FailedReadKeeps
<1>4. PollerTyped'
  BY DEF IInv, PollerTyped, IngestFails
<1> QED BY <1>3, <1>4, KnownStay DEF IngestFails

\* An object that a transaction records.
LEMMA RecordedObject ==
    ASSUME IInv, NEW k \in Objects, NEW b \in BOOLEAN, NEW O,
           O = Put(db.objects, k, [hydrated |-> b, at |-> now])
    PROVE  O \in [DOMAIN O -> [hydrated : BOOLEAN, at : Nat]] /\ DOMAIN O \subseteq Objects
<1>1. /\ DOMAIN O = DOMAIN db.objects \cup {k} /\ O = [x \in DOMAIN O |-> O[x]]
      /\ \A x \in DOMAIN O : O[x] = IF x = k THEN [hydrated |-> b, at |-> now] ELSE db.objects[x]
  BY DEF Put
<1>2. now \in Nat
  BY DEF IInv, PollerTyped
<1>3. \A x \in DOMAIN O : x \in Objects /\ O[x] \in [hydrated : BOOLEAN, at : Nat]
  BY <1>1, <1>2 DEF IInv, TablesTyped
<1> QED BY <1>1, <1>3

\* An object that is given up is recorded, and its rows stay as they are.
LEMMA GiveUpObjectKeeps ==
    ASSUME IInv, GiveUpObject
    PROVE  IInv'
<1>1. PICK k \in Listed :
         /\ readFailsAfterSome(k)
         /\ db' = [db EXCEPT !.objects = Put(@, k, [hydrated |-> TRUE, at |-> now])]
  BY DEF GiveUpObject
<1>2. k \in Objects
  BY DEF Listed
<1> DEFINE O == Put(db.objects, k, [hydrated |-> TRUE, at |-> now])
<1>3. O \in [DOMAIN O -> [hydrated : BOOLEAN, at : Nat]] /\ DOMAIN O \subseteq Objects
  <2> HIDE DEF O
  <2>1. O = Put(db.objects, k, [hydrated |-> TRUE, at |-> now])
    BY DEF O
  <2> QED BY <1>2, <2>1, RecordedObject
<1>4. db' = [db EXCEPT !.objects = O]
  BY <1>1
<1> HIDE DEF O
<1>5. /\ DOMAIN db' = {"meta", "pairs", "objects", "index"}
      /\ db'.meta = db.meta /\ db'.objects = O
  BY <1>4 DEF IInv, TablesTyped
<1>6. now' = now /\ loaded' = loaded
  BY DEF GiveUpObject
<1>7. TablesTyped'
  BY <1>3, <1>5, <1>6 DEF IInv, TablesTyped
<1>8. /\ WellFormed(cache')
      /\ \A id, u \in Nat : KnownSince(cache, id, u) /\ u <= now => KnownSince(cache', id, u)
  BY <1>1, <1>2, FailedReadKeeps
<1>9. \A id \in DOMAIN db.meta : id \in Nat /\ db.meta[id].updated \in Nat
                                 /\ db.meta[id].updated <= now
  BY BlankIsNoId DEF IInv, TablesTyped, Row
<1>10. StoredAreKnown'
  BY <1>5, <1>6, <1>8, <1>9 DEF IInv, StoredAreKnown
<1>11. PollerTyped'
  BY DEF IInv, PollerTyped, GiveUpObject
<1> QED BY <1>7, <1>8, <1>10, <1>11 DEF IInv

\* What marking an object does to the tables.
LEMMA MarkedTables ==
    ASSUME NEW d, DOMAIN d = {"meta", "pairs", "objects", "index"},
           DOMAIN d.objects \subseteq Objects,
           d.objects \in [DOMAIN d.objects -> [hydrated : BOOLEAN, at : Nat]],
           NEW key, NEW n, n = recordObjectMetadataTx(d, key)
    PROVE  /\ DOMAIN n = {"meta", "pairs", "objects", "index"} /\ n.meta = d.meta
           /\ DOMAIN n.objects \subseteq Objects
           /\ n.objects \in [DOMAIN n.objects -> [hydrated : BOOLEAN, at : Nat]]
<1> DEFINE O == [d.objects EXCEPT ![key].hydrated = TRUE]
           X == d.index \cup {<<key, id>> : id \in objectMetadataIDs(key)}
<1>1. n = [d EXCEPT !.index = X, !.objects = O]
  BY DEF recordObjectMetadataTx
<1>2. /\ DOMAIN O = DOMAIN d.objects
      /\ O = [x \in DOMAIN O |-> O[x]]
  OBVIOUS
<1>6. ASSUME NEW y \in DOMAIN O PROVE O[y] \in [hydrated : BOOLEAN, at : Nat]
  <2>1. d.objects[y] \in [hydrated : BOOLEAN, at : Nat]
    OBVIOUS
  <2>2. CASE y = key
    <3>1. O[y] = [d.objects[y] EXCEPT !.hydrated = TRUE]
      BY <2>2
    <3> HIDE DEF O
    <3> QED BY <2>1, <3>1
  <2>3. CASE y # key
    <3>1. O[y] = d.objects[y]
      BY <2>3
    <3> QED BY <2>1, <3>1
  <2> QED BY <2>2, <2>3
<1> HIDE DEF O, X
<1>4. O \in [DOMAIN O -> [hydrated : BOOLEAN, at : Nat]]
  BY <1>2, <1>6
<1>5. n.meta = d.meta /\ n.objects = O /\ DOMAIN n = {"meta", "pairs", "objects", "index"}
  BY <1>1
<1> QED BY <1>2, <1>4, <1>5

\* An object is marked as hydrated.
LEMMA MarkKeeps ==
    ASSUME IInv, MarkObjectMetadataHydrated
    PROVE  IInv'
<1>1. Tail(todo) \in Seq(Objects)
  BY NextObject DEF MarkObjectMetadataHydrated, IInv, PollerTyped
<1>2. /\ DOMAIN db' = {"meta", "pairs", "objects", "index"} /\ db'.meta = db.meta
      /\ DOMAIN db'.objects \subseteq Objects
      /\ db'.objects \in [DOMAIN db'.objects -> [hydrated : BOOLEAN, at : Nat]]
  BY MarkedTables DEF IInv, TablesTyped, MarkObjectMetadataHydrated
<1>3. TablesTyped' /\ StoredAreKnown'
  BY <1>2 DEF IInv, TablesTyped, StoredAreKnown, MarkObjectMetadataHydrated, memory
<1>4. PollerTyped'
  BY <1>1 DEF IInv, PollerTyped, MarkObjectMetadataHydrated
<1>5. WellFormed(cache)'
  BY DEF IInv, MarkObjectMetadataHydrated, memory
<1> QED BY <1>3, <1>4, <1>5 DEF IInv

\* An object is ingested with its identities, its index and its pairs.
LEMMA CommitKeeps ==
    ASSUME IInv, CommitObjectIngest
    PROVE  IInv'
<1>1. PICK k \in Listed :
         /\ readObject(k)
         /\ db' = recordObjectMetadataTx(
                     [db EXCEPT !.objects = Put(@, k, [hydrated |-> FALSE, at |-> now]),
                                !.meta = upsertNodeMetadataTx(@, parseNodeMetadata(k), FALSE),
                                !.pairs = Over([id \in pairNames(cache', k) |-> now], @)], k)
  BY DEF CommitObjectIngest
<1>2. k \in Objects /\ now' = now /\ loaded' = loaded /\ now \in Nat
  BY DEF Listed, CommitObjectIngest, IInv, PollerTyped
<1> DEFINE m == upsertNodeMetadataTx(db.meta, parseNodeMetadata(k), FALSE)
           O == Put(db.objects, k, [hydrated |-> FALSE, at |-> now])
           P == Over([id \in pairNames(cache', k) |-> now], db.pairs)
           d == [db EXCEPT !.objects = O, !.meta = m, !.pairs = P]
<1>3. db' = recordObjectMetadataTx(d, k)
  BY <1>1
<1>4. O \in [DOMAIN O -> [hydrated : BOOLEAN, at : Nat]] /\ DOMAIN O \subseteq Objects
  <2> HIDE DEF O
  <2>1. O = Put(db.objects, k, [hydrated |-> FALSE, at |-> now])
    BY DEF O
  <2> QED BY <1>2, <2>1, RecordedObject
<1> HIDE DEF m, O, P
<1>5. d.objects = O /\ d.meta = m /\ DOMAIN d = {"meta", "pairs", "objects", "index"}
  BY DEF IInv, TablesTyped
<1> HIDE DEF d
<1>6. /\ DOMAIN db' = {"meta", "pairs", "objects", "index"} /\ db'.meta = d.meta
      /\ DOMAIN db'.objects \subseteq Objects
      /\ db'.objects \in [DOMAIN db'.objects -> [hydrated : BOOLEAN, at : Nat]]
  BY <1>3, <1>4, <1>5, MarkedTables
<1>7. /\ DOMAIN db'.meta \subseteq NodeIds /\ db'.meta \in [DOMAIN db'.meta -> Row]
      /\ \A id \in DOMAIN db'.meta : db'.meta[id].updated <= now
      /\ StoredAreKnown'
  BY <1>1, <1>2, <1>5, <1>6, WrittenAreKnown DEF m
<1>8. TablesTyped'
  BY <1>2, <1>6, <1>7 DEF TablesTyped
<1>9. PollerTyped'
  BY DEF IInv, PollerTyped, CommitObjectIngest
<1>10. WellFormed(cache')
  BY <1>1, <1>2, ReadKeeps
<1> QED BY <1>7, <1>8, <1>9, <1>10 DEF IInv

\* A restart forgets the cache and loads the rows again.
LEMMA CrashKeeps ==
    ASSUME IInv, Crash
    PROVE  IInv'
<1>1. WellFormed(cache')
  BY EmptyIsWellFormed DEF Crash
<1>2. PollerTyped' /\ TablesTyped' /\ StoredAreKnown'
  BY DEF IInv, PollerTyped, TablesTyped, StoredAreKnown, Crash
<1> QED BY <1>1, <1>2 DEF IInv

\* Every step preserves the invariant.
LEMMA StepKeeps == IInv /\ [Next]_vars => IInv'
<1> SUFFICES ASSUME IInv, [Next]_vars PROVE IInv'
  OBVIOUS
<1>1. CASE Tick
  BY <1>1, TickKeeps
<1>2. CASE FetchDevices
  BY <1>2, FetchKeeps
<1>3. CASE FetchFails
  <2>1. PollerTyped' /\ UNCHANGED <<now, cache, db>> /\ (loaded' => loaded)
    BY <1>3 DEF IInv, PollerTyped, FetchFails, memory, afterRefresh
  <2> QED BY <2>1, SameMemoryKeeps
<1>4. CASE persistDeviceIdentities
  BY <1>4, PersistKeeps
<1>5. CASE PersistFails
  <2>1. PollerTyped' /\ UNCHANGED <<now, cache, db>> /\ (loaded' => loaded)
    BY <1>5 DEF IInv, PollerTyped, PersistFails, memory
  <2> QED BY <2>1, SameMemoryKeeps
<1>6. CASE LoadMetadata
  BY <1>6, LoadKeeps
<1>7. CASE LoadFails
  <2>1. PollerTyped' /\ UNCHANGED <<now, cache, db>> /\ (loaded' => loaded)
    BY <1>7 DEF IInv, PollerTyped, LoadFails, memory, afterRefresh
  <2> QED BY <2>1, SameMemoryKeeps
<1>8. CASE CleanUp
  BY <1>8, CleanUpKeeps
<1>9. CASE CleanupFails
  <2>1. PollerTyped' /\ UNCHANGED <<now, cache, db>> /\ (loaded' => loaded)
    BY <1>9 DEF IInv, PollerTyped, CleanupFails, memory
  <2> QED BY <2>1, SameMemoryKeeps
<1>10. CASE StartPoll
  BY <1>10, StartPollKeeps
<1>11. CASE HydrateUpsert
  BY <1>11, HydrateKeeps
<1>12. CASE HydrateFails
  BY <1>12, HydrateFailsKeeps
<1>13. CASE MarkObjectMetadataHydrated
  BY <1>13, MarkKeeps
<1>14. CASE MarkFails
  <2>1. Tail(todo) \in Seq(Objects)
    BY <1>14, NextObject DEF MarkFails, IInv, PollerTyped
  <2>2. PollerTyped' /\ UNCHANGED <<now, cache, db>> /\ (loaded' => loaded)
    BY <1>14, <2>1 DEF IInv, PollerTyped, MarkFails, memory
  <2> QED BY <2>2, SameMemoryKeeps
<1>15. CASE CommitObjectIngest
  BY <1>15, CommitKeeps
<1>16. CASE IngestFails
  BY <1>16, IngestFailsKeeps
<1>17. CASE GiveUpObject
  BY <1>17, GiveUpObjectKeeps
<1>18. CASE EndPoll
  <2>1. PollerTyped' /\ UNCHANGED <<now, cache, db>> /\ (loaded' => loaded)
    BY <1>18 DEF IInv, PollerTyped, EndPoll, memory
  <2> QED BY <2>1, SameMemoryKeeps
<1>19. CASE ListChanges
  <2>1. PollerTyped' /\ UNCHANGED <<now, cache, db>> /\ (loaded' => loaded)
    BY <1>19 DEF IInv, PollerTyped, ListChanges, memory
  <2> QED BY <2>1, SameMemoryKeeps
<1>20. CASE Crash
  BY <1>20, CrashKeeps
<1>21. CASE UNCHANGED vars
  <2>1. PollerTyped' /\ UNCHANGED <<now, cache, db>> /\ (loaded' => loaded)
    BY <1>21 DEF IInv, PollerTyped, vars, memory
  <2> QED BY <2>1, SameMemoryKeeps
<1> QED
  BY <1>1, <1>2, <1>3, <1>4, <1>5, <1>6, <1>7, <1>8, <1>9, <1>10, <1>11, <1>12, <1>13,
     <1>14, <1>15, <1>16, <1>17, <1>18, <1>19, <1>20, <1>21 DEF Next, Refresh, Hydration, Ingest

\* The inductive invariant of the poller's identities: the maps of the cache agree, the
\* tables are typed, and what the tables keep inside retention the cache knows.
THEOREM IdentitiesInvariant == Spec => []IInv
<1> QED BY InitHolds, StepKeeps, PTL DEF Spec


(***************************************************************************)
(* The cache's properties                                                  *)
(***************************************************************************)
\* The ids that stand for a device: its own and the aliases that lead to it.
LEMMA EquivalentOf ==
    ASSUME NEW c, WellFormed(c), NEW id \in DOMAIN c.ids
    PROVE  EquivalentIDs(c, id) =
              {id} \cup {a \in c.dev[c.ids[id]].aliases :
                            a \in DOMAIN c.aliases /\ c.aliases[a] = id}
<1>1. deviceLocked(c, id) = {c.ids[id]}
  BY DEF deviceLocked
<1>2. (CHOOSE h \in deviceLocked(c, id) : TRUE) = c.ids[id]
  BY <1>1
<1>3. c.dev[c.ids[id]].id = id
  BY DEF WellFormed, IdsAgree
<1> QED BY <1>1, <1>2, <1>3 DEF EquivalentIDs

\* Every id of a well-formed cache names one device and no two devices share an id.
LEMMA NamesResolve ==
    ASSUME WellFormed(cache)
    PROVE  CacheNamesResolve
<1>1. \A id \in DOMAIN cache.ids : cache.dev[cache.ids[id]].id = id
  BY DEF WellFormed, IdsAgree
<1>2. ASSUME NEW a \in DOMAIN cache.aliases
      PROVE  deviceLocked(cache, a) # {} /\ a \in EquivalentIDs(cache, a)
  <2> DEFINE id == cache.aliases[a]
  <2>1. /\ a \notin DOMAIN cache.ids /\ id \in DOMAIN cache.ids
        /\ a \in cache.dev[cache.ids[id]].aliases
    BY DEF WellFormed, AliasesAgree
  <2>2. deviceLocked(cache, a) = {cache.ids[id]}
    BY <2>1 DEF deviceLocked
  <2>3. (CHOOSE h \in deviceLocked(cache, a) : TRUE) = cache.ids[id]
    BY <2>2
  <2>4. cache.dev[cache.ids[id]].id = id
    BY <1>1, <2>1
  <2> QED BY <2>1, <2>2, <2>3, <2>4 DEF EquivalentIDs
<1>3. ASSUME NEW id \in DOMAIN cache.ids, NEW other \in DOMAIN cache.ids, id # other
      PROVE  EquivalentIDs(cache, id) \cap EquivalentIDs(cache, other) = {}
  <2>1. \A a \in DOMAIN cache.aliases : a \notin DOMAIN cache.ids
    BY DEF WellFormed, AliasesAgree
  <2> QED BY <1>3, <2>1, EquivalentOf
<1>4. ASSUME NEW a \in DOMAIN cache.addrs
      PROVE  LET h == cache.addrs[a]
             IN  /\ h \in DOMAIN cache.dev
                 /\ cache.dev[h].id \in DOMAIN cache.ids /\ cache.ids[cache.dev[h].id] = h
  BY DEF WellFormed, IdsAgree, Typed
<1> QED BY <1>1, <1>2, <1>3, <1>4 DEF CacheNamesResolve

\* In every reachable state each id and alias of the device cache names one live device,
\* no id belongs to two devices, and no address leads to a device that was dropped.
THEOREM EveryCacheNameResolves == Spec => []CacheNamesResolve
<1>1. IInv => CacheNamesResolve
  BY NamesResolve DEF IInv
<1> QED BY <1>1, IdentitiesInvariant, PTL

\* Listed devices of a well-formed cache keep their names and their addresses.
LEMMA ReuseIsSafe ==
    ASSUME WellFormed(cache)
    PROVE  AddressReuseIsSafe
<1> SUFFICES ASSUME NEW id \in DOMAIN cache.ids, cache.dev[cache.ids[id]].listed
             PROVE  LET e == cache.dev[cache.ids[id]]
                    IN  /\ e.apiLegacy # Blank => EquivalentIDs(cache, e.id) \subseteq {e.id, e.apiLegacy}
                        /\ \A a \in e.ips : a \in DOMAIN cache.addrs
                                            /\ cache.dev[cache.addrs[a]].listed
  BY DEF AddressReuseIsSafe, Entries
<1> DEFINE h == cache.ids[id]
<1>1. h \in DOMAIN cache.dev /\ cache.dev[h].id = id
  BY DEF WellFormed, IdsAgree, Typed
<1>2. \A a \in cache.dev[h].ips : a \in DOMAIN cache.addrs /\ cache.dev[cache.addrs[a]].listed
  BY <1>1 DEF WellFormed, ListedAddresses
<1>3. ASSUME cache.dev[h].apiLegacy # Blank
      PROVE  EquivalentIDs(cache, id) \subseteq {id, cache.dev[h].apiLegacy}
  <2>1. \A a \in DOMAIN cache.aliases : cache.aliases[a] = id => a = cache.dev[h].apiLegacy
    BY <1>1, <1>3 DEF WellFormed, ListedNames
  <2> QED BY <2>1, EquivalentOf
<1> QED BY <1>1, <1>2, <1>3

\* In every reachable state a device listed under both its ids answers to no other, and
\* its addresses lead to listed devices, whatever old rows and old flow logs said.
THEOREM ReusedAddressesAreSafe == Spec => []AddressReuseIsSafe
<1>1. IInv => AddressReuseIsSafe
  BY ReuseIsSafe DEF IInv
<1> QED BY <1>1, IdentitiesInvariant, PTL


(***************************************************************************)
(* The merge of stored rows                                                *)
(***************************************************************************)
Device == [ids : SUBSET NodeIds, owner : Nat, ips : SUBSET Addresses,
           stable : StableIds \cup {Blank}, apiLegacy : NumericIds \cup {Blank}]

\* A device has at most the stable id and the numeric one that it is known by.
OneIdOfEach(d) ==
    \A id \in d.ids : IF isStableNodeID(id) THEN d.stable = id ELSE d.apiLegacy = id

\* Every device is typed and has one id of each kind, byID leads each id to the one
\* device that has it, and byIP leads to devices.
Merged(m) ==
    /\ DOMAIN m = {"devices", "byID", "byIP"}
    /\ m.devices \in Seq(Device)
    /\ \A n \in 1 .. Len(m.devices) : OneIdOfEach(m.devices[n])
    /\ \A id \in DOMAIN m.byID :
          m.byID[id] \in 1 .. Len(m.devices) /\ id \in m.devices[m.byID[id]].ids
    /\ \A n \in 1 .. Len(m.devices) : \A id \in m.devices[n].ids :
          id \in DOMAIN m.byID /\ m.byID[id] = n
    /\ \A a \in DOMAIN m.byIP : m.byIP[a] \in 1 .. Len(m.devices)

\* Indexing a device points its ids at it, and addresses at it or nowhere new.
LEMMA IndexFacts ==
    ASSUME NEW m, DOMAIN m = {"devices", "byID", "byIP"}, NEW n,
           NEW k, k = indexDevice(m, n)
    PROVE  /\ DOMAIN k = {"devices", "byID", "byIP"} /\ k.devices = m.devices
           /\ DOMAIN k.byID = m.devices[n].ids \cup DOMAIN m.byID
           /\ \A id \in DOMAIN k.byID :
                 k.byID[id] = IF id \in m.devices[n].ids THEN n ELSE m.byID[id]
           /\ \A a \in DOMAIN k.byIP :
                 k.byIP[a] = n \/ (a \in DOMAIN m.byIP /\ k.byIP[a] = m.byIP[a])
<1> DEFINE d == m.devices[n]
           taken(a) == /\ a \in DOMAIN m.byIP /\ m.byIP[a] # n
                       /\ m.devices[m.byIP[a]].stable # Blank /\ d.stable = Blank
           A == {x \in d.ips \cap TailscaleIPs : ~taken(x)}
           I == Over([id \in d.ids |-> n], m.byID)
           J == Over([a \in A |-> n], m.byIP)
<1>1. k = [m EXCEPT !.byID = I, !.byIP = J]
  BY DEF indexDevice
<1>2. /\ DOMAIN I = d.ids \cup DOMAIN m.byID
      /\ \A id \in DOMAIN I : I[id] = IF id \in d.ids THEN n ELSE m.byID[id]
  BY DEF Over
<1> HIDE DEF A
<1>3. \A a \in DOMAIN J : J[a] = n \/ (a \in DOMAIN m.byIP /\ J[a] = m.byIP[a])
  BY DEF Over
<1> HIDE DEF I, J
<1>4. /\ DOMAIN k = {"devices", "byID", "byIP"} /\ k.devices = m.devices
      /\ k.byID = I /\ k.byIP = J
  BY <1>1
<1> QED BY <1>2, <1>3, <1>4

\* p is m with the device d in the place n, new or not; its ids are those it had there
\* and an id that leads nowhere else.
Placed(m, n, id, d, p) ==
    /\ n \in 1 .. Len(m.devices) + 1
    /\ d \in Device /\ OneIdOfEach(d)
    /\ d.ids = (IF n <= Len(m.devices) THEN m.devices[n].ids ELSE {}) \cup {id}
    /\ id \in DOMAIN m.byID => m.byID[id] = n
    /\ DOMAIN p = {"devices", "byID", "byIP"} /\ p.byID = m.byID /\ p.byIP = m.byIP
    /\ p.devices \in Seq(Device) /\ p.devices[n] = d
    /\ Len(p.devices) = IF n <= Len(m.devices) THEN Len(m.devices) ELSE n
    /\ \A i \in 1 .. Len(m.devices) : i # n => p.devices[i] = m.devices[i]

\* Such a device is indexed.
LEMMA PlacedKeeps ==
    ASSUME NEW m, Merged(m), NEW n, NEW id, NEW d, NEW p, Placed(m, n, id, d, p),
           NEW k, k = indexDevice(p, n)
    PROVE  Merged(k) /\ DOMAIN k.byID = DOMAIN m.byID \cup {id}
<1> USE DEF Placed
<1> DEFINE L == Len(m.devices)
           Q == Len(p.devices)
<1>0. /\ DOMAIN k = {"devices", "byID", "byIP"} /\ k.devices = p.devices
      /\ DOMAIN k.byID = p.devices[n].ids \cup DOMAIN p.byID
      /\ \A x \in DOMAIN k.byID :
            k.byID[x] = IF x \in p.devices[n].ids THEN n ELSE p.byID[x]
      /\ \A a \in DOMAIN k.byIP :
            k.byIP[a] = n \/ (a \in DOMAIN p.byIP /\ k.byIP[a] = p.byIP[a])
  <2>1. DOMAIN p = {"devices", "byID", "byIP"} /\ k = indexDevice(p, n)
    OBVIOUS
  <2> QED BY ONLY <2>1, IndexFacts
<1>1. /\ DOMAIN k = {"devices", "byID", "byIP"} /\ k.devices = p.devices
      /\ DOMAIN k.byID = d.ids \cup DOMAIN m.byID
      /\ \A x \in DOMAIN k.byID : k.byID[x] = IF x \in d.ids THEN n ELSE m.byID[x]
      /\ \A a \in DOMAIN k.byIP :
            k.byIP[a] = n \/ (a \in DOMAIN m.byIP /\ k.byIP[a] = m.byIP[a])
  BY <1>0
<1>2. /\ \A x \in DOMAIN m.byID : m.byID[x] \in 1 .. L /\ x \in m.devices[m.byID[x]].ids
      /\ \A i \in 1 .. L : \A x \in m.devices[i].ids : x \in DOMAIN m.byID /\ m.byID[x] = i
      /\ \A a \in DOMAIN m.byIP : m.byIP[a] \in 1 .. L
      /\ \A i \in 1 .. L : OneIdOfEach(m.devices[i])
      /\ L \in Nat
  BY DEF Merged
<1>3. n \in 1 .. Q /\ 1 .. L \subseteq 1 .. Q /\ \A i \in 1 .. Q : i = n \/ i \in 1 .. L
  BY <1>2
<1>4. \A x \in d.ids : x = id \/ (n \in 1 .. L /\ x \in m.devices[n].ids)
  BY <1>2
<1>5. \A x \in d.ids : x \in DOMAIN m.byID => m.byID[x] = n
  BY <1>2, <1>4
<1> HIDE DEF L, Q
<1>6. DOMAIN k.byID = DOMAIN m.byID \cup {id}
  BY <1>1, <1>2, <1>4
<1>7. \A i \in 1 .. Q : OneIdOfEach(p.devices[i])
  BY <1>2, <1>3 DEF L
<1>8. \A x \in DOMAIN k.byID : k.byID[x] \in 1 .. Q /\ x \in p.devices[k.byID[x]].ids
  <2> TAKE x \in DOMAIN k.byID
  <2>1. CASE x \in d.ids
    BY <1>1, <1>3, <2>1
  <2>2. CASE x \notin d.ids
    <3>1. x \in DOMAIN m.byID /\ k.byID[x] = m.byID[x]
      BY <1>1, <2>2
    <3>2. m.byID[x] \in 1 .. L /\ x \in m.devices[m.byID[x]].ids
      BY <1>2, <3>1
    <3>3. m.byID[x] # n
      BY <2>2, <3>2 DEF L
    <3> QED BY <1>3, <3>1, <3>2, <3>3 DEF L
  <2> QED BY <2>1, <2>2
<1>9. \A i \in 1 .. Q : \A x \in p.devices[i].ids : x \in DOMAIN k.byID /\ k.byID[x] = i
  <2> SUFFICES ASSUME NEW i \in 1 .. Q, NEW x \in p.devices[i].ids
               PROVE  x \in DOMAIN k.byID /\ k.byID[x] = i
    OBVIOUS
  <2>1. CASE i = n
    BY <1>1, <2>1
  <2>2. CASE i # n
    <3>1. i \in 1 .. L /\ x \in m.devices[i].ids
      BY <1>3, <2>2 DEF L
    <3>2. x \in DOMAIN m.byID /\ m.byID[x] = i
      BY <1>2, <3>1
    <3> QED BY <1>1, <1>5, <2>2, <3>2
  <2> QED BY <2>1, <2>2
<1>10. \A a \in DOMAIN k.byIP : k.byIP[a] \in 1 .. Q
  BY <1>1, <1>2, <1>3
<1> QED BY <1>1, <1>6, <1>7, <1>8, <1>9, <1>10 DEF Merged, Q


\* The device a row belongs to has its id, or does not contradict it.
LEMMA RowMatches ==
    ASSUME NEW m, Merged(m), NEW row
    PROVE  /\ \A n \in matchDevice(m, row) :
                 /\ n \in 1 .. Len(m.devices)
                 /\ row.id \in DOMAIN m.byID => m.byID[row.id] = n
                 /\ row.id \notin DOMAIN m.byID => ~identityConflict(m.devices[n], row.id)
           /\ matchDevice(m, row) = {} => row.id \notin DOMAIN m.byID
<1> DEFINE hits == {x \in row.ips \cap TailscaleIPs :
                      x \in DOMAIN m.byIP /\ ~identityConflict(m.devices[m.byIP[x]], row.id)}
           first == {x \in hits : \A y \in hits : x <= y}
<1>1. /\ \A id \in DOMAIN m.byID : m.byID[id] \in 1 .. Len(m.devices)
      /\ \A a \in DOMAIN m.byIP : m.byIP[a] \in 1 .. Len(m.devices)
  BY DEF Merged
<1>2. CASE row.id \in DOMAIN m.byID
  <2>1. matchDevice(m, row) = {m.byID[row.id]}
    BY <1>2 DEF matchDevice
  <2> QED BY <1>1, <1>2, <2>1
<1>3. CASE row.id \notin DOMAIN m.byID
  <2>1. matchDevice(m, row) = {m.byIP[a] : a \in first}
    BY <1>3 DEF matchDevice
  <2>2. \A a \in first : a \in DOMAIN m.byIP /\ ~identityConflict(m.devices[m.byIP[a]], row.id)
    OBVIOUS
  <2> HIDE DEF first
  <2> QED BY <1>1, <1>3, <2>1, <2>2
<1> QED BY <1>2, <1>3

\* A row is merged into a device that has its id or does not contradict it.
LEMMA RowMergeKeeps ==
    ASSUME NEW m, Merged(m), NEW row, row.id \in NodeIds, row.owner \in Nat,
           row.ips \in SUBSET Addresses, NEW n \in 1 .. Len(m.devices),
           row.id \in DOMAIN m.byID => m.byID[row.id] = n,
           row.id \notin DOMAIN m.byID => ~identityConflict(m.devices[n], row.id),
           NEW k, k = mergeDevice(m, n, row)
    PROVE  Merged(k) /\ DOMAIN k.byID = DOMAIN m.byID \cup {row.id}
<1> DEFINE d == m.devices[n]
           o == IF d.owner = Blank THEN row.owner ELSE d.owner
           s == IF row.id \notin d.ids /\ isStableNodeID(row.id) /\ d.stable = Blank
                THEN row.id ELSE d.stable
           l == IF row.id \notin d.ids /\ ~isStableNodeID(row.id) /\ d.apiLegacy = Blank
                THEN row.id ELSE d.apiLegacy
           e == [d EXCEPT !.owner = o, !.ips = d.ips \cup row.ips, !.ids = d.ids \cup {row.id},
                          !.stable = s, !.apiLegacy = l]
           p == [m EXCEPT !.devices[n] = e]
<1>1. k = indexDevice(p, n)
  BY DEF mergeDevice
<1>2. d \in Device /\ OneIdOfEach(d)
  BY DEF Merged
<1>3. o \in Nat /\ s \in StableIds \cup {Blank} /\ l \in NumericIds \cup {Blank}
  BY <1>2 DEF Device, isStableNodeID, NodeIds
<1>4. OneIdOfEach(d) => \A id \in d.ids \cup {row.id} : IF isStableNodeID(id) THEN s = id ELSE l = id
  <2>1. CASE row.id \in d.ids
    BY <2>1 DEF OneIdOfEach
  <2>2. CASE row.id \notin d.ids
    <3>1. row.id \notin DOMAIN m.byID
      BY <2>2 DEF Merged
    <3>2. ~identityConflict(d, row.id)
      BY <3>1
    <3>3. IF isStableNodeID(row.id) THEN d.stable = Blank \/ d.stable = row.id
                                    ELSE d.apiLegacy = Blank \/ d.apiLegacy = row.id
      BY <3>2 DEF identityConflict
    <3>4. \A id \in d.ids : id # Blank
      BY <1>2, BlankIsNoId DEF Device
    <3> QED BY <2>2, <3>3, <3>4 DEF OneIdOfEach
  <2> QED BY <2>1, <2>2
<1> HIDE DEF o, s, l
<1>5. /\ e \in Device /\ e.ids = d.ids \cup {row.id} /\ e.stable = s /\ e.apiLegacy = l
  BY <1>2, <1>3 DEF Device
<1>6. OneIdOfEach(e)
  BY <1>2, <1>4, <1>5 DEF OneIdOfEach
<1> HIDE DEF e
<1> DEFINE D == [m.devices EXCEPT ![n] = e]
<1>7. p = [m EXCEPT !.devices = D]
  OBVIOUS
<1>8. m.devices \in Seq(Device) /\ DOMAIN m = {"devices", "byID", "byIP"}
  BY DEF Merged
<1>9. /\ D \in Seq(Device) /\ Len(D) = Len(m.devices) /\ D[n] = e
      /\ \A i \in 1 .. Len(m.devices) : i # n => D[i] = m.devices[i]
  BY <1>5, <1>8
<1> HIDE DEF D, p
<1>10. /\ DOMAIN p = {"devices", "byID", "byIP"} /\ p.byID = m.byID /\ p.byIP = m.byIP
       /\ p.devices = D
  BY <1>7, <1>8
<1>11. n \in 1 .. Len(m.devices) + 1 /\ n <= Len(m.devices)
  BY <1>8
<1> HIDE DEF d
<1>12. e.ids = (IF n <= Len(m.devices) THEN m.devices[n].ids ELSE {}) \cup {row.id}
  BY <1>5, <1>11 DEF d
<1>13. Len(p.devices) = IF n <= Len(m.devices) THEN Len(m.devices) ELSE n
  BY <1>9, <1>10, <1>11
<1>14. Placed(m, n, row.id, e, p)
  BY <1>5, <1>6, <1>9, <1>10, <1>11, <1>12, <1>13 DEF Placed
<1> QED BY <1>1, <1>14, PlacedKeeps

\* A row that no device matches makes one of its own.
LEMMA RowInsertKeeps ==
    ASSUME NEW m, Merged(m), NEW row, row.id \in NodeIds, row.owner \in Nat,
           row.ips \in SUBSET Addresses, row.id \notin DOMAIN m.byID,
           NEW k, k = indexDevice([m EXCEPT !.devices = Append(@, deviceFromRow(row))],
                                  Len(m.devices) + 1)
    PROVE  Merged(k) /\ DOMAIN k.byID = DOMAIN m.byID \cup {row.id}
<1> DEFINE n == Len(m.devices) + 1
           e == deviceFromRow(row)
           D == Append(m.devices, e)
           p == [m EXCEPT !.devices = D]
<1>1. k = indexDevice(p, n)
  OBVIOUS
<1>2. e \in Device /\ e.ids = {row.id} /\ OneIdOfEach(e)
  BY BlankIsNoId DEF deviceFromRow, Device, OneIdOfEach, isStableNodeID, NodeIds
<1> HIDE DEF e
<1>3. m.devices \in Seq(Device) /\ DOMAIN m = {"devices", "byID", "byIP"}
  BY DEF Merged
<1>4. /\ D \in Seq(Device) /\ Len(D) = n /\ D[n] = e
      /\ \A i \in 1 .. Len(m.devices) : i # n => D[i] = m.devices[i]
  BY <1>2, <1>3
<1> HIDE DEF D
<1>5. /\ DOMAIN p = {"devices", "byID", "byIP"} /\ p.byID = m.byID /\ p.byIP = m.byIP
      /\ p.devices = D
  BY <1>3
<1> HIDE DEF p
<1>6. n \in 1 .. Len(m.devices) + 1 /\ ~(n <= Len(m.devices))
  BY <1>3
<1> HIDE DEF n
<1>7. e.ids = (IF n <= Len(m.devices) THEN m.devices[n].ids ELSE {}) \cup {row.id}
  BY <1>2, <1>6
<1>8. Len(p.devices) = IF n <= Len(m.devices) THEN Len(m.devices) ELSE n
  BY <1>4, <1>5, <1>6
<1>9. Placed(m, n, row.id, e, p)
  <2>1. /\ p.devices \in Seq(Device) /\ p.devices[n] = e
        /\ \A i \in 1 .. Len(m.devices) : i # n => p.devices[i] = m.devices[i]
    BY <1>4, <1>5
  <2>2. e \in Device /\ OneIdOfEach(e) /\ n \in 1 .. Len(m.devices) + 1
    BY <1>2, <1>6
  <2>3. row.id \in DOMAIN m.byID => m.byID[row.id] = n
    OBVIOUS
  <2>4. DOMAIN p = {"devices", "byID", "byIP"} /\ p.byID = m.byID /\ p.byIP = m.byIP
    BY <1>5
  <2> QED BY <1>7, <1>8, <2>1, <2>2, <2>3, <2>4, Zenon DEF Placed
<1> QED BY <1>1, <1>9, PlacedKeeps

\* One row of node_metadata is merged.
LEMMA MergeRowKeeps ==
    ASSUME NEW m, Merged(m), NEW row, row.id \in NodeIds, row.owner \in Nat,
           row.ips \in SUBSET Addresses, NEW k, k = mergeRow(m, row)
    PROVE  Merged(k) /\ DOMAIN k.byID = DOMAIN m.byID \cup {row.id}
<1> DEFINE found == matchDevice(m, row)
           g == CHOOSE x \in found : TRUE
<1>1. /\ \A n \in found :
            /\ n \in 1 .. Len(m.devices)
            /\ row.id \in DOMAIN m.byID => m.byID[row.id] = n
            /\ row.id \notin DOMAIN m.byID => ~identityConflict(m.devices[n], row.id)
      /\ found = {} => row.id \notin DOMAIN m.byID
  BY RowMatches
<1>2. CASE found # {}
  <2>1. k = mergeDevice(m, g, row)
    BY <1>2 DEF mergeRow
  <2>2. g \in found
    <3> HIDE DEF found
    <3> QED BY <1>2
  <2> HIDE DEF found, g
  <2> QED BY <1>1, <2>1, <2>2, RowMergeKeeps
<1>3. CASE found = {}
  <2>1. k = indexDevice([m EXCEPT !.devices = Append(@, deviceFromRow(row))],
                        Len(m.devices) + 1)
    BY <1>3 DEF mergeRow
  <2> QED BY <1>1, <1>3, <2>1, RowInsertKeeps
<1> QED BY <1>2, <1>3


\* The merge before its first row.
NothingMerged == [devices |-> <<>>, byID |-> <<>>, byIP |-> <<>>]

\* The merge of a sequence of rows: every id of a row, and no other, is in a device.
LEMMA RowsMerge ==
    ASSUME NEW seq, NEW n \in Nat, DOMAIN seq = 1 .. n,
           \A k \in 1 .. n : /\ seq[k].id \in NodeIds /\ seq[k].owner \in Nat
                             /\ seq[k].ips \in SUBSET Addresses,
           NEW m, m = MergeRows(NothingMerged, seq)
    PROVE  /\ Merged(m)
           /\ \A id : id \in DOMAIN m.byID <=> \E k \in 1 .. n : seq[k].id = id
<1> DEFINE c == NothingMerged
<1>0. m = MergeRows(c, seq)
  OBVIOUS
<1>2. /\ Merged(c) /\ DOMAIN c.byID = {}
  <2>1. /\ DOMAIN c = {"devices", "byID", "byIP"} /\ c.devices = <<>> /\ c.byID = <<>>
        /\ c.byIP = <<>>
    BY DEF NothingMerged
  <2> HIDE DEF c
  <2> QED BY <2>1 DEF Merged
<1> HIDE DEF c
<1>1. PICK h : /\ h[0] = c /\ h[n] = m
               /\ \A k \in 1 .. n : h[k] = mergeRow(h[k - 1], seq[k])
  BY <1>0, MergeFold
<1> DEFINE ids(k) == {seq[j].id : j \in 1 .. k}
           P == {k \in 0 .. n : Merged(h[k]) /\ DOMAIN h[k].byID = ids(k)}
<1>3. 0 \in P
  <2>1. ids(0) = {} /\ 0 \in 0 .. n
    OBVIOUS
  <2> QED BY <1>1, <1>2, <2>1
<1>4. ASSUME NEW k \in 1 .. n, k - 1 \in P PROVE k \in P
  <2> DEFINE row == seq[k]
             a == h[k - 1]
             b == h[k]
  <2>1. Merged(a) /\ DOMAIN a.byID = ids(k - 1)
    BY <1>4
  <2>2. b = mergeRow(a, row)
    BY <1>1
  <2>3. row.id \in NodeIds /\ row.owner \in Nat /\ row.ips \in SUBSET Addresses
    OBVIOUS
  <2>4. ids(k) = ids(k - 1) \cup {row.id}
    <3>1. \A j \in 1 .. k : j = k \/ j \in 1 .. k - 1
      OBVIOUS
    <3>2. \A j \in 1 .. k - 1 : j \in 1 .. k
      OBVIOUS
    <3>3. k \in 1 .. k
      OBVIOUS
    <3> QED BY <3>1, <3>2, <3>3
  <2>5. k \in 0 .. n
    OBVIOUS
  <2> HIDE DEF row, a, b, ids
  <2>6. Merged(b) /\ DOMAIN b.byID = DOMAIN a.byID \cup {row.id}
    BY <2>1, <2>2, <2>3, MergeRowKeeps
  <2> QED BY <2>1, <2>4, <2>5, <2>6 DEF b
<1> HIDE DEF P
<1>5. \A k \in 0 .. n : k \in P
  BY <1>3, <1>4, UpTo
<1>6. n \in 0 .. n
  OBVIOUS
<1>7. Merged(m) /\ DOMAIN m.byID = ids(n)
  BY <1>1, <1>5, <1>6 DEF P
<1> QED BY <1>7

\* Stored rows of different nodes are put in an order that has each of them.
LEMMA MetadataOrder ==
    ASSUME NEW rows, IsFiniteSet(rows), \A r \in rows : r.id \in NodeIds,
           \A r, q \in rows : r.id = q.id => r = q,
           NEW s, s = metadataOrder(rows)
    PROVE  \E n \in Nat : /\ DOMAIN s = 1 .. n
                          /\ \A k \in 1 .. n : s[k] \in rows
                          /\ \A r \in rows : \E k \in 1 .. n : s[k] = r
<1> DEFINE B == {p \in rows \X rows :
                   \/ isStableNodeID(p[1].id) /\ ~isStableNodeID(p[2].id)
                   \/ (isStableNodeID(p[1].id) <=> isStableNodeID(p[2].id)) /\ p[1].id < p[2].id}
           rank == Rank(rows, B)
           n == Cardinality(rows)
           place(i) == CHOOSE x \in rows : Cardinality({y \in rows :
                \/ isStableNodeID(y.id) /\ ~isStableNodeID(x.id)
                \/ (isStableNodeID(y.id) <=> isStableNodeID(x.id)) /\ y.id < x.id}) = i - 1
<1>1. s = [i \in 1 .. n |-> place(i)]
  BY DEF metadataOrder, InOrder
<1>2. \A r \in rows : r.id \in Nat
  BY BlankIsNoId
<1>3. \A x, y \in rows : <<x, y>> \in B <=>
         \/ isStableNodeID(x.id) /\ ~isStableNodeID(y.id)
         \/ (isStableNodeID(x.id) <=> isStableNodeID(y.id)) /\ x.id < y.id
  OBVIOUS
<1>4. \A x \in rows : rank[x] = Cardinality({y \in rows :
                \/ isStableNodeID(y.id) /\ ~isStableNodeID(x.id)
                \/ (isStableNodeID(y.id) <=> isStableNodeID(x.id)) /\ y.id < x.id})
  <2> SUFFICES ASSUME NEW x \in rows
               PROVE  {y \in rows : <<y, x>> \in B} = {y \in rows :
                \/ isStableNodeID(y.id) /\ ~isStableNodeID(x.id)
                \/ (isStableNodeID(y.id) <=> isStableNodeID(x.id)) /\ y.id < x.id}
    BY DEF Rank
  <2> HIDE DEF B
  <2> QED BY <1>3
<1> HIDE DEF place
<1>9. \A x \in rows : rank[x] \in Nat
  <2> TAKE x \in rows
  <2> DEFINE T == {y \in rows : <<y, x>> \in B}
  <2>1. rank[x] = Cardinality(T) /\ T \in SUBSET rows
    BY DEF Rank
  <2> HIDE DEF T, rank
  <2>2. IsFiniteSet(T)
    BY <2>1, FS_Subset
  <2> QED BY <2>1, <2>2, FS_CardinalityType
<1>5. /\ n \in Nat
      /\ \A x \in rows : rank[x] + 1 \in 1 .. n
      /\ \A i \in 1 .. n : \E x \in rows : rank[x] = i - 1
      /\ \A x, y \in rows : x # y => rank[x] # rank[y]
  <2>1. rank = Rank(rows, B)
    OBVIOUS
  <2> HIDE DEF B, rank
  <2>2. \A x \in rows : <<x, x>> \notin B
    BY <1>2, <1>3
  <2>3. \A x, y \in rows : x # y => <<x, y>> \in B \/ <<y, x>> \in B
    BY <1>2, <1>3
  <2>4. \A x, y, z \in rows : <<x, y>> \in B /\ <<y, z>> \in B => <<x, z>> \in B
    BY <1>2, <1>3
  <2> QED BY <2>1, <2>2, <2>3, <2>4, Ranks
<1>8. \A x \in rows : \E i \in 1 .. n : i - 1 = rank[x]
  <2> TAKE x \in rows
  <2> HIDE DEF rank, n, B
  <2>1. rank[x] \in Nat /\ rank[x] + 1 \in 1 .. n
    BY <1>5, <1>9
  <2> QED BY <2>1
<1>6. \A i \in 1 .. n : place(i) \in rows /\ rank[place(i)] = i - 1
  <2> HIDE DEF rank
  <2> QED BY <1>4, <1>5 DEF place
<1> HIDE DEF n, rank, B
<1>7. \A x \in rows : \E i \in 1 .. n : place(i) = x
  <2> TAKE x \in rows
  <2>1. PICK i \in 1 .. n : i - 1 = rank[x]
    BY <1>8
  <2> QED BY <1>5, <1>6, <2>1
<1>10. DOMAIN s = 1 .. n /\ \A k \in 1 .. n : s[k] = place(k)
  BY <1>1
<1>11. \A k \in 1 .. n : s[k] \in rows
  BY <1>6, <1>10
<1>12. \A r \in rows : \E k \in 1 .. n : s[k] = r
  BY <1>7, <1>10
<1> QED BY <1>5, <1>10, <1>11, <1>12


\* The stored rows: of different nodes, finitely many.
LEMMA StoredRowsTyped ==
    ASSUME TablesTyped
    PROVE  /\ IsFiniteSet(storedRows)
           /\ \A r \in storedRows : /\ r.id \in NodeIds /\ r.owner \in Nat
                                    /\ r.ips \in SUBSET Addresses
           /\ \A r, q \in storedRows : r.id = q.id => r = q
           /\ \A id : id \in DOMAIN db.meta <=> \E r \in storedRows : r.id = id
<1> DEFINE row(id) == [id |-> id, owner |-> db.meta[id].owner, ips |-> db.meta[id].ips]
           S == {row(id) : id \in DOMAIN db.meta}
<1>1. \A id \in DOMAIN db.meta : /\ id \in NodeIds /\ row(id).id = id
                                 /\ row(id).owner \in Nat /\ row(id).ips \in SUBSET Addresses
  BY DEF TablesTyped, Row
<1>2. IsFiniteSet(S)
  <2> DEFINE f == [id \in DOMAIN db.meta |-> row(id)]
  <2>1. IsFiniteSet(DOMAIN db.meta)
    <3>1. DOMAIN db.meta \in SUBSET NodeIds
      BY DEF TablesTyped
    <3> QED BY <3>1, TimesAssumption, FS_Subset
  <2> HIDE DEF row
  <2>2. f \in Surjection(DOMAIN db.meta, S)
    BY DEF Surjection
  <2> HIDE DEF f, S
  <2> QED BY <2>1, <2>2, FS_Surjection
<1>3. S = storedRows
  BY DEF storedRows
<1> HIDE DEF row
<1>4. \A r \in S : \E id \in DOMAIN db.meta : r = row(id)
  OBVIOUS
<1>5. \A id \in DOMAIN db.meta : row(id) \in S
  OBVIOUS
<1> HIDE DEF S
<1> QED BY <1>1, <1>2, <1>3, <1>4, <1>5

\* The merge of the stored rows.
LEMMA StoredRowsMerge ==
    ASSUME TablesTyped, NEW m, m = mergeMetadata(storedRows)
    PROVE  Merged(m) /\ DOMAIN m.byID = DOMAIN db.meta
<1> DEFINE s == metadataOrder(storedRows)
<1>1. m = MergeRows(NothingMerged, s)
  BY DEF mergeMetadata, MergeRows, NothingMerged
<1> HIDE DEF s
<1>2. /\ IsFiniteSet(storedRows)
      /\ \A r \in storedRows : /\ r.id \in NodeIds /\ r.owner \in Nat
                               /\ r.ips \in SUBSET Addresses
      /\ \A r, q \in storedRows : r.id = q.id => r = q
      /\ \A id : id \in DOMAIN db.meta <=> \E r \in storedRows : r.id = id
  BY StoredRowsTyped
<1>3. PICK n \in Nat : /\ DOMAIN s = 1 .. n
                       /\ \A k \in 1 .. n : s[k] \in storedRows
                       /\ \A r \in storedRows : \E k \in 1 .. n : s[k] = r
  BY <1>2, MetadataOrder DEF s
<1>4. \A k \in 1 .. n : /\ s[k].id \in NodeIds /\ s[k].owner \in Nat
                        /\ s[k].ips \in SUBSET Addresses
  BY <1>2, <1>3
<1>5. /\ Merged(m)
      /\ \A id : id \in DOMAIN m.byID <=> \E k \in 1 .. n : s[k].id = id
  BY <1>1, <1>3, <1>4, RowsMerge
<1>6. \A id : id \in DOMAIN m.byID <=> id \in DOMAIN db.meta
  BY <1>2, <1>3, <1>5
<1> QED BY <1>5, <1>6

\* A set with no element but x has at most one element.
LEMMA AtMostOne ==
    ASSUME NEW x, NEW S \in SUBSET {x}
    PROVE  Cardinality(S) <= 1
<1>1. IsFiniteSet({x}) /\ Cardinality({x}) = 1
  BY FS_Singleton
<1> QED BY <1>1, FS_Subset

\* Under the invariant the reads find each stored id in one device, and the cache knows
\* the ids inside retention.
LEMMA StoredResolve ==
    ASSUME IInv
    PROVE  StoredNamesResolve
<1> DEFINE m == mergeMetadata(storedRows)
           devices == mergedDevices(storedRows)
<1>1. Merged(m) /\ DOMAIN m.byID = DOMAIN db.meta
  BY StoredRowsMerge DEF IInv
<1>2. devices = ToSet(m.devices)
  BY DEF mergedDevices
<1> HIDE DEF m, devices
<1>3. \A d : d \in devices <=> \E n \in 1 .. Len(m.devices) : d = m.devices[n]
  BY <1>1, <1>2 DEF Merged, ToSet
<1>4. UNION {d.ids : d \in devices} = DOMAIN db.meta
  <2>1. \A d \in devices : \A id \in d.ids : id \in DOMAIN db.meta
    BY <1>1, <1>3 DEF Merged
  <2>2. \A id \in DOMAIN db.meta : \E d \in devices : id \in d.ids
    <3> TAKE id \in DOMAIN db.meta
    <3>1. m.byID[id] \in 1 .. Len(m.devices) /\ id \in m.devices[m.byID[id]].ids
      BY <1>1 DEF Merged
    <3> QED BY <1>3, <3>1
  <2> QED BY <2>1, <2>2
<1>5. ASSUME NEW d \in devices
      PROVE  /\ Cardinality(d.ids \cap StableIds) <= 1
             /\ Cardinality(d.ids \cap NumericIds) <= 1
  <2>1. OneIdOfEach(d)
    BY <1>1, <1>3 DEF Merged
  <2>2. d.ids \cap StableIds \subseteq {d.stable}
    BY <2>1 DEF OneIdOfEach, isStableNodeID
  <2>3. d.ids \cap NumericIds \subseteq {d.apiLegacy}
    BY <2>1, IdAssumption DEF OneIdOfEach, isStableNodeID
  <2> QED BY <2>2, <2>3, AtMostOne
<1>6. ASSUME NEW d \in devices, NEW e \in devices, d.ids \cap e.ids # {}
      PROVE  d = e
  <2>1. PICK i \in 1 .. Len(m.devices), j \in 1 .. Len(m.devices) :
            d = m.devices[i] /\ e = m.devices[j]
    BY <1>3
  <2>2. PICK id : id \in d.ids /\ id \in e.ids
    BY <1>6
  <2>3. m.byID[id] = i /\ m.byID[id] = j
    BY <1>1, <2>1, <2>2 DEF Merged
  <2> QED BY <2>1, <2>3
<1>7. ASSUME loaded, NEW id \in DOMAIN db.meta,
             Retention = 0 \/ db.meta[id].updated + Retention >= now
      PROVE  deviceLocked(cache, id) # {}
  BY <1>7 DEF IInv, StoredAreKnown, KnownSince
<1> QED BY <1>4, <1>5, <1>6, <1>7 DEF StoredNamesResolve, devices

\* In every reachable state the cache knows every stored identity inside retention once
\* the rows were loaded, and the reads of the store put each stored id into exactly one
\* device with at most one stable id and one numeric id.
THEOREM EveryStoredNameResolves == Spec => []StoredNamesResolve
<1>1. IInv => StoredNamesResolve
  BY StoredResolve
<1> QED BY <1>1, IdentitiesInvariant, PTL

(***************************************************************************)
(* The rows of listed devices                                              *)
(***************************************************************************)
\* The rows of the listed devices are as fresh as the last full write of the list, and
\* no write of the list comes later than Rewrite after a full one.
Freshness ==
    /\ stored.at \in Nat /\ persisted \in Nat
    /\ stored.at <= now /\ persisted <= stored.at + Rewrite
    /\ \A id \in DOMAIN stored.known \cap DOMAIN db.meta : db.meta[id].updated >= stored.at

\* A step that forgets no row: the rows are the ones from before, or written by it.
RowsStay ==
    /\ DOMAIN db.meta \subseteq DOMAIN db'.meta
    /\ \A id \in DOMAIN db'.meta : \/ db'.meta[id].updated = now
                                   \/ id \in DOMAIN db.meta /\ db'.meta[id] = db.meta[id]

\* An upsert forgets no row.
LEMMA UpsertStays ==
    ASSUME IInv, NEW rows, NEW fromList, NEW m, db'.meta = m,
           m = upsertNodeMetadataTx(db.meta, rows, fromList)
    PROVE  /\ RowsStay
           /\ \A r \in rows : r.id \in DOMAIN m /\ m[r.id].updated = now
<1>1. /\ DOMAIN m = DOMAIN db.meta \cup {r.id : r \in rows}
      /\ \A id \in DOMAIN m : m[id] = IF \E r \in rows : r.id = id
                                      THEN upsertNode(db.meta, CHOOSE r \in rows : r.id = id, fromList)
                                      ELSE db.meta[id]
  BY DEF upsertNodeMetadataTx
<1>2. \A r \in rows : upsertNode(db.meta, r, fromList).updated = now
  BY DEF upsertNode
<1>3. \A id \in {r.id : r \in rows} : m[id].updated = now
  <2> TAKE id \in {r.id : r \in rows}
  <2> DEFINE r == CHOOSE x \in rows : x.id = id
  <2>1. r \in rows /\ m[id] = upsertNode(db.meta, r, fromList)
    BY <1>1
  <2> HIDE DEF r
  <2> QED BY <1>2, <2>1
<1>4. \A id \in DOMAIN m : \/ id \in {r.id : r \in rows}
                           \/ id \in DOMAIN db.meta /\ m[id] = db.meta[id]
  BY <1>1
<1> QED BY <1>1, <1>3, <1>4 DEF RowsStay

\* A transaction of one object forgets no row.
LEMMA ObjectsForgetNoRow ==
    ASSUME IInv, HydrateUpsert \/ MarkObjectMetadataHydrated \/ CommitObjectIngest \/ GiveUpObject
    PROVE  RowsStay
<1>1. CASE HydrateUpsert
  <2> DEFINE m == upsertNodeMetadataTx(db.meta, parseNodeMetadata(Head(todo)), FALSE)
  <2>1. db' = [db EXCEPT !.meta = m]
    BY <1>1 DEF HydrateUpsert
  <2> HIDE DEF m
  <2>2. db'.meta = m
    BY <2>1 DEF IInv, TablesTyped
  <2> QED BY <2>2, UpsertStays DEF m
<1>2. CASE MarkObjectMetadataHydrated
  <2>1. db'.meta = db.meta
    BY <1>2, MarkedTables DEF IInv, TablesTyped, MarkObjectMetadataHydrated
  <2> QED BY <2>1 DEF RowsStay
<1>3. CASE CommitObjectIngest
  <2>1. PICK k \in Listed :
           db' = recordObjectMetadataTx(
                   [db EXCEPT !.objects = Put(@, k, [hydrated |-> FALSE, at |-> now]),
                              !.meta = upsertNodeMetadataTx(@, parseNodeMetadata(k), FALSE),
                              !.pairs = Over([id \in pairNames(cache', k) |-> now], @)], k)
    BY <1>3 DEF CommitObjectIngest
  <2> DEFINE m == upsertNodeMetadataTx(db.meta, parseNodeMetadata(k), FALSE)
             O == Put(db.objects, k, [hydrated |-> FALSE, at |-> now])
             P == Over([id \in pairNames(cache', k) |-> now], db.pairs)
             d == [db EXCEPT !.objects = O, !.meta = m, !.pairs = P]
  <2>2. k \in Objects
    BY DEF Listed
  <2>3. db' = recordObjectMetadataTx(d, k)
    BY <2>1
  <2>4. O \in [DOMAIN O -> [hydrated : BOOLEAN, at : Nat]] /\ DOMAIN O \subseteq Objects
    <3> HIDE DEF O
    <3>1. O = Put(db.objects, k, [hydrated |-> FALSE, at |-> now])
      BY DEF O
    <3> QED BY <2>2, <3>1, RecordedObject
  <2> HIDE DEF m, O, P
  <2>5. d.objects = O /\ d.meta = m /\ DOMAIN d = {"meta", "pairs", "objects", "index"}
    BY DEF IInv, TablesTyped
  <2> HIDE DEF d
  <2>6. db'.meta = m
    BY <2>3, <2>4, <2>5, MarkedTables
  <2> QED BY <2>6, UpsertStays DEF m
<1>4. CASE GiveUpObject
  <2>1. PICK k \in Listed :
           db' = [db EXCEPT !.objects = Put(@, k, [hydrated |-> TRUE, at |-> now])]
    BY <1>4 DEF GiveUpObject
  <2>2. db'.meta = db.meta
    BY <2>1 DEF IInv, TablesTyped
  <2> QED BY <2>2 DEF RowsStay
<1> QED BY <1>1, <1>2, <1>3, <1>4

\* A write of the list: a full one refreshes every listed row, the others what changed.
LEMMA WriteIsFresh ==
    ASSUME IInv, Freshness, persistDeviceIdentities
    PROVE  Freshness' /\ RowsStay
<1> DEFINE changed == {r.id : r \in {e \in ToSet(api) :
                        \/ full \/ e.id \notin DOMAIN stored.known
                        \/ stored.known[e.id] # fingerprint(e)}}
           m == upsertNodeMetadataTx(db.meta, listedRows(changed), TRUE)
           listed == {d.id : d \in ToSet(api)}
<1>1. db' = [db EXCEPT !.meta = m]
  BY DEF persistDeviceIdentities
<1>2. /\ DOMAIN stored'.known = listed
      /\ stored'.at = IF full THEN now ELSE stored.at
      /\ persisted' = now /\ now' = now
  BY DEF persistDeviceIdentities
<1>3. /\ full => \A id \in listed : id \in changed
      /\ \A id \in listed : id \in changed \/ id \in DOMAIN stored.known
  OBVIOUS
<1>4. \A id \in changed : \E r \in listedRows(changed) : r.id = id
  <2> TAKE id \in changed
  <2>1. PICK e \in ToSet(api) : e.id = id
    OBVIOUS
  <2> HIDE DEF changed
  <2>2. [id |-> e.id, owner |-> e.owner, ips |-> e.ips] \in listedRows(changed)
    BY <2>1 DEF listedRows
  <2> QED BY <2>1, <2>2
<1> HIDE DEF changed, m, listed
<1>5. db'.meta = m
  BY <1>1 DEF IInv, TablesTyped
<1>6. RowsStay /\ \A r \in listedRows(changed) : r.id \in DOMAIN m /\ m[r.id].updated = now
  BY <1>5, UpsertStays DEF m
<1>7. \A id \in changed : m[id].updated = now
  BY <1>4, <1>6
<1>8. now \in Nat /\ Rewrite \in Nat /\ stored.at \in Nat /\ stored.at <= now
  BY TimesAssumption DEF IInv, PollerTyped, Freshness
<1>9. /\ stored'.at \in Nat /\ stored'.at <= now'
      /\ persisted' \in Nat /\ persisted' <= stored'.at + Rewrite
  BY <1>2, <1>8 DEF full
<1>10. ASSUME NEW id \in DOMAIN stored'.known \cap DOMAIN db'.meta
       PROVE  db'.meta[id].updated >= stored'.at
  <2>1. CASE id \in changed
    <3>1. db'.meta[id].updated = now
      BY <1>5, <1>7, <2>1
    <3> QED BY <1>2, <1>9, <3>1
  <2>2. CASE id \notin changed
    <3>1. id \in DOMAIN stored.known /\ stored'.at = stored.at
      BY <1>2, <1>3, <2>2
    <3>2. CASE db'.meta[id].updated = now
      BY <1>8, <3>1, <3>2
    <3>3. CASE id \in DOMAIN db.meta /\ db'.meta[id] = db.meta[id]
      BY <3>1, <3>3 DEF Freshness
    <3> QED BY <1>6, <3>2, <3>3 DEF RowsStay
  <2> QED BY <2>1, <2>2
<1> QED BY <1>6, <1>9, <1>10 DEF Freshness

\* Rows written by other steps are of now, which is later still.
LEMMA RowsStayFresh ==
    ASSUME IInv, Freshness, RowsStay, stored' = stored, persisted' = persisted,
           now' \in Nat, now <= now'
    PROVE  Freshness'
<1>1. now \in Nat /\ \A id \in DOMAIN db.meta : db.meta[id].updated \in Nat
  BY DEF IInv, PollerTyped, TablesTyped, Row
<1>2. \A id \in DOMAIN stored.known \cap DOMAIN db'.meta : db'.meta[id].updated >= stored.at
  BY <1>1 DEF Freshness, RowsStay
<1> QED BY <1>1, <1>2 DEF Freshness

\* Every step keeps the rows that fresh, and only a cleanup forgets one.
LEMMA StaysFresh ==
    ASSUME IInv, Freshness, [Next]_vars
    PROVE  Freshness' /\ (RowsStay \/ CleanUp \/ Crash)
<1>1. CASE Tick
  <2>1. now' \in Nat /\ now <= now' /\ UNCHANGED <<stored, db, persisted>>
    BY <1>1, TimesAssumption DEF Tick, memory, IInv, PollerTyped
  <2>2. RowsStay
    BY <2>1 DEF RowsStay
  <2> QED BY <2>1, <2>2, RowsStayFresh
<1>2. CASE persistDeviceIdentities
  BY <1>2, WriteIsFresh
<1>3. CASE HydrateUpsert \/ MarkObjectMetadataHydrated \/ CommitObjectIngest \/ GiveUpObject
  <2>1. UNCHANGED <<now, stored, persisted>> /\ now \in Nat
    BY <1>3 DEF HydrateUpsert, MarkObjectMetadataHydrated, CommitObjectIngest, GiveUpObject, memory,
                IInv, PollerTyped
  <2> QED BY <1>3, <2>1, ObjectsForgetNoRow, RowsStayFresh
<1>4. CASE CleanUp
  <2>1. UNCHANGED <<now, stored, persisted>>
    BY <1>4 DEF CleanUp
  <2>2. /\ DOMAIN db'.meta \subseteq DOMAIN db.meta
        /\ \A id \in DOMAIN db'.meta : db'.meta[id] = db.meta[id]
    BY <1>4, CleanUpForgets
  <2> QED BY <1>4, <2>1, <2>2 DEF Freshness
<1>5. CASE Crash
  BY <1>5, TimesAssumption DEF Crash, Freshness, NoIdentities, Never, IInv, PollerTyped
<1>6. CASE \/ FetchDevices \/ FetchFails \/ PersistFails \/ LoadMetadata \/ LoadFails
           \/ CleanupFails \/ StartPoll \/ HydrateFails \/ MarkFails
           \/ IngestFails \/ EndPoll \/ ListChanges \/ UNCHANGED vars
  <2>1. UNCHANGED <<now, stored, db, persisted>> /\ now \in Nat
    BY <1>6 DEF FetchDevices, FetchFails, PersistFails, LoadMetadata, LoadFails, CleanupFails,
                StartPoll, HydrateFails, MarkFails, IngestFails, EndPoll, ListChanges, vars, memory,
                IInv, PollerTyped
  <2>2. RowsStay
    BY <2>1 DEF RowsStay
  <2> QED BY <2>1, <2>2, RowsStayFresh
<1> QED BY <1>1, <1>2, <1>3, <1>4, <1>5, <1>6 DEF Next, Refresh, Hydration, Ingest

\* A row that a step forgets is of a cleanup past its retention: the last full write of
\* the list, and with it the last write, is too old.
LEMMA ForgottenIsOld ==
    ASSUME IInv, Freshness, [Next]_vars, NEW id \in DOMAIN stored.known,
           id \in DOMAIN db.meta, id \notin DOMAIN db'.meta
    PROVE  persisted + Retention < now + Rewrite
<1>1. CleanUp
  <2>1. ~RowsStay
    BY DEF RowsStay
  <2>2. ~Crash
    BY DEF Crash
  <2> QED BY <2>1, <2>2, StaysFresh
<1>2. db.meta[id].updated + Retention < now
  BY <1>1, CleanUpForgets
<1>3. db.meta[id].updated \in Nat /\ now \in Nat /\ Retention \in Nat /\ Rewrite \in Nat
  BY TimesAssumption DEF IInv, PollerTyped, TablesTyped, Row
<1>4. /\ stored.at \in Nat /\ persisted \in Nat /\ persisted <= stored.at + Rewrite
      /\ db.meta[id].updated >= stored.at
  BY DEF Freshness
<1> QED BY <1>2, <1>3, <1>4

\* While refreshes keep writing the device list, at least once in every stretch that is
\* as long as retention is longer than the rewrite interval, retention never drops the
\* stored identity of a listed device, although most writes leave unchanged devices out.
THEOREM ListedRowsOutliveRetention == Spec => WrittenRowsAreKept
<1>1. Init => Freshness
  BY TimesAssumption DEF Init, Freshness, NoIdentities, Never
<1>2. IInv /\ Freshness /\ [Next]_vars => Freshness'
  BY StaysFresh
<1>3. IInv /\ Freshness /\ [Next]_vars
        => [\A id \in DOMAIN stored.known :
              id \in DOMAIN db.meta /\ id \notin DOMAIN db'.meta
                  => persisted + Retention < now + Rewrite]_vars
  BY ForgottenIsOld
<1> QED BY <1>1, <1>2, <1>3, IdentitiesInvariant, PTL DEF Spec, WrittenRowsAreKept

(***************************************************************************)
(* What a scope shows                                                      *)
(***************************************************************************)
\* The lookups that the tools use are the cache's.
LEMMA ToolsLookUp ==
    ASSUME NEW c, NEW id
    PROVE  Tools!deviceLocked(c, id) = deviceLocked(c, id)
BY DEF deviceLocked, Tools!deviceLocked

\* In a well-formed cache a stored id is shown under the id of the one device behind
\* it, which is also behind the id it is shown under, and an id without one as it is.
LEMMA ShownUnder ==
    ASSUME NEW c, WellFormed(c), NEW s
    PROVE  LET n == Tools!resolveNodeID(c, s)
           IN  \/ /\ Tools!deviceEntry(c, s) = {} /\ n = s
                  /\ s \notin DOMAIN c.ids /\ s \notin DOMAIN c.addrs
               \/ \E h \in DOMAIN c.dev : /\ Tools!deviceEntry(c, s) = {c.dev[h]}
                                          /\ n = c.dev[h].id
                                          /\ n \in DOMAIN c.ids /\ c.ids[n] = h
                                          /\ Tools!deviceEntry(c, n) = {c.dev[h]}
<1> DEFINE n == Tools!resolveNodeID(c, s)
<1>0. /\ AliasesAgree(c) /\ Typed(c)
      /\ \A h \in DOMAIN c.dev : c.dev[h].id \in DOMAIN c.ids /\ c.ids[c.dev[h].id] = h
  BY DEF WellFormed, IdsAgree
<1>1. ASSUME NEW id PROVE Tools!deviceLocked(c, id) = deviceLocked(c, id)
  BY ToolsLookUp
<1>2. ASSUME NEW h \in DOMAIN c.dev
      PROVE  Tools!deviceEntry(c, c.dev[h].id) = {c.dev[h]}
  <2>1. deviceLocked(c, c.dev[h].id) = {h}
    BY <1>0, <1>2 DEF deviceLocked
  <2> QED BY <1>1, <2>1 DEF Tools!deviceEntry
<1>3. CASE deviceLocked(c, s) # {}
  <2>1. PICK h : Leads(c, s, h)
    BY <1>0, <1>3, DeviceFound
  <2>2. deviceLocked(c, s) = {h}
    BY <1>0, <2>1, DeviceFound
  <2>3. h \in DOMAIN c.dev
    BY <1>0, <2>1, TypedFacts DEF Leads, AliasesAgree
  <2>4. Tools!deviceEntry(c, s) = {c.dev[h]}
    BY <1>1, <2>2 DEF Tools!deviceEntry
  <2>5. n = c.dev[h].id
    <3>1. (CHOOSE g \in {h} : TRUE) = h
      OBVIOUS
    <3> QED BY <1>1, <2>2, <3>1 DEF Tools!resolveNodeID
  <2> QED BY <1>0, <1>2, <2>3, <2>4, <2>5
<1>4. CASE deviceLocked(c, s) = {} /\ s \in DOMAIN c.addrs
  <2>1. c.addrs[s] \in DOMAIN c.dev
    BY <1>0, <1>4, TypedFacts
  <2>2. Tools!deviceEntry(c, s) = {c.dev[c.addrs[s]]}
    BY <1>1, <1>4 DEF Tools!deviceEntry
  <2>3. n = c.dev[c.addrs[s]].id
    BY <1>1, <1>4 DEF Tools!resolveNodeID, Tools!ResolveIP
  <2> QED BY <1>0, <1>2, <2>1, <2>2, <2>3
<1>5. CASE deviceLocked(c, s) = {} /\ s \notin DOMAIN c.addrs
  <2>1. Tools!deviceEntry(c, s) = {}
    BY <1>1, <1>5 DEF Tools!deviceEntry
  <2>2. n = s
    BY <1>1, <1>5 DEF Tools!resolveNodeID, Tools!ResolveIP
  <2>3. s \notin DOMAIN c.ids
    BY <1>0, <1>5, DeviceFound
  <2> QED BY <1>5, <2>1, <2>2, <2>3
<1> QED BY <1>3, <1>4, <1>5


\* A scope sees a stored id when it sees what the id is shown under, or when it is a
\* pseudo endpoint; every scope sees it under the same id.
LEMMA SeenUnder ==
    ASSUME NEW c, WellFormed(c), NEW scope, NEW s
    PROVE  LET n == Tools!resolveNodeID(c, s)
           IN  /\ s \in Pseudo => n = s /\ (Tools!inScope(c, scope, n) <=> scope.any)
               /\ n \in Pseudo => s \in Pseudo
               /\ Tools!present(c, scope, s) # {}
                     <=> s \in Pseudo \/ Tools!inScope(c, scope, n)
               /\ Tools!present(c, scope, s) # {} => Tools!shownID(c, scope, s) = n
<1> DEFINE n == Tools!resolveNodeID(c, s)
           D == Tools!deviceEntry(c, n)
<1>1. \/ /\ D = {} /\ n = s /\ Tools!deviceEntry(c, s) = {}
         /\ s \notin DOMAIN c.ids /\ s \notin DOMAIN c.addrs
      \/ \E h \in DOMAIN c.dev : D = {c.dev[h]} /\ n = c.dev[h].id /\ n \in DOMAIN c.ids
  BY ShownUnder
<1>2. /\ DOMAIN c.ids \subseteq NodeIds /\ DOMAIN c.aliases \subseteq NodeIds
      /\ DOMAIN c.addrs \subseteq Addresses
  BY DEF WellFormed, Typed
<1>3. n \in Pseudo => s \in Pseudo
  BY <1>1, <1>2, PseudoAssumption
<1>4. ASSUME s \in Pseudo
      PROVE  n = s /\ D = {}
  <2>1. s \notin DOMAIN c.ids /\ s \notin DOMAIN c.aliases /\ s \notin DOMAIN c.addrs
    BY <1>2, <1>4, PseudoAssumption
  <2>2. deviceLocked(c, s) = {}
    BY <2>1 DEF deviceLocked
  <2>3. Tools!deviceLocked(c, s) = {}
    BY <2>2, ToolsLookUp
  <2>4. n = s
    BY <2>1, <2>3 DEF Tools!resolveNodeID, Tools!ResolveIP
  <2>5. Tools!deviceEntry(c, s) = {}
    BY <2>1, <2>3 DEF Tools!deviceEntry
  <2> QED BY <2>4, <2>5
<1>5. Tools!present(c, scope, s) =
         IF s \in Pseudo THEN {s}
         ELSE IF D = {} THEN (IF scope.any THEN {n} ELSE {})
         ELSE {e.id : e \in {x \in D : Tools!Matches(scope, x)}}
  <2>1. D = {} => Tools!deviceEntry(c, s) = {}
    BY <1>1
  <2> QED BY <2>1 DEF Tools!present
<1>6. Tools!inScope(c, scope, n) <=> scope.any \/ \E e \in D : Tools!Matches(scope, e)
  BY DEF Tools!inScope
<1>7. \A e : scope.any => Tools!Matches(scope, e)
  BY DEF Tools!Matches
<1> HIDE DEF n, D
<1>8. CASE s \in Pseudo
  <2>1. Tools!present(c, scope, s) = {s} /\ n = s
    BY <1>4, <1>5, <1>8
  <2>2. Tools!shownID(c, scope, s) = s
    BY <2>1 DEF Tools!shownID
  <2> QED BY <1>4, <1>6, <1>8, <2>1, <2>2 DEF n, D
<1>9. CASE s \notin Pseudo /\ D = {}
  <2>1. Tools!present(c, scope, s) = IF scope.any THEN {n} ELSE {}
    BY <1>5, <1>9
  <2>2. Tools!present(c, scope, s) # {} <=> Tools!inScope(c, scope, n)
    BY <1>6, <1>9, <2>1
  <2>3. Tools!present(c, scope, s) # {} => Tools!shownID(c, scope, s) = n
    BY <2>1 DEF Tools!shownID
  <2> QED BY <1>3, <1>9, <2>2, <2>3 DEF n
<1>10. CASE s \notin Pseudo /\ D # {}
  <2>1. PICK e : D = {e} /\ e.id = n
    BY <1>1, <1>10
  <2>2. Tools!present(c, scope, s) = IF Tools!Matches(scope, e) THEN {n} ELSE {}
    BY <1>5, <1>10, <2>1
  <2>3. Tools!inScope(c, scope, n) <=> Tools!Matches(scope, e)
    BY <1>6, <1>7, <2>1
  <2>4. Tools!present(c, scope, s) # {} => Tools!shownID(c, scope, s) = n
    BY <2>2 DEF Tools!shownID
  <2> QED BY <1>3, <1>10, <2>2, <2>3, <2>4 DEF n
<1> QED BY <1>8, <1>9, <1>10 DEF n


\* The ids that rows are shown under, for each end and for both, and the rows of each.
NamesIn(c, rows) == {Tools!resolveNodeID(c, e.node) : e \in Tools!sided(rows)}
RowsOfName(c, rows, n) == {e \in Tools!sided(rows) : Tools!resolveNodeID(c, e.node) = n}
PairName(c, r) == <<Tools!resolveNodeID(c, r.src), Tools!resolveNodeID(c, r.dst)>>
PairsIn(c, rows) == {PairName(c, r) : r \in rows}
RowsOfPair(c, rows, k) == {r \in rows : PairName(c, r) = k}

\* Those of them that a scope sees.
NamesSeen(c, scope, rows) == {n \in NamesIn(c, rows) : Tools!inScope(c, scope, n)}
PairsSeen(c, scope, rows) == {k \in PairsIn(c, rows) : Tools!pairInScope(c, scope, k)}

\* The ranked talkers of a scope: the rows of each device in it, whatever the scope.
LEMMA TalkersOf ==
    ASSUME NEW c, WellFormed(c), NEW scope, NEW rows
    PROVE  Tools!topTalkers(c, scope, rows) =
              [k \in NamesSeen(c, scope, rows) |-> Tools!totals(RowsOfName(c, rows, k))]
<1> DEFINE S == Tools!sided(rows)
           E == {e \in S : /\ e.node \in Pseudo => scope.any
                           /\ Tools!present(c, scope, e.node) # {}}
           shown(e) == Tools!shownID(c, scope, e.node)
           as(e) == Tools!resolveNodeID(c, e.node)
           mine(n) == Tools!inScope(c, scope, n)
<1>1. ASSUME NEW e
      PROVE  /\ (e.node \in Pseudo => scope.any) /\ Tools!present(c, scope, e.node) # {}
                   <=> mine(as(e))
             /\ Tools!present(c, scope, e.node) # {} => shown(e) = as(e)
  BY SeenUnder
<1>2. Tools!topTalkers(c, scope, rows) =
         [k \in {shown(e) : e \in E} |-> Tools!totals({e \in E : shown(e) = k})]
  BY DEF Tools!topTalkers, Tools!Sums
<1>3. /\ NamesSeen(c, scope, rows) = {n \in {as(e) : e \in S} : mine(n)}
      /\ \A k : RowsOfName(c, rows, k) = {e \in S : as(e) = k}
  BY DEF NamesSeen, NamesIn, RowsOfName
<1> HIDE DEF S, shown, as, mine
<1>4. E = {e \in S : mine(as(e))} /\ \A e \in E : shown(e) = as(e)
  BY <1>1
<1> HIDE DEF E
<1>5. {shown(e) : e \in E} = NamesSeen(c, scope, rows)
  <2>1. {shown(e) : e \in E} = {as(e) : e \in E}
    BY <1>4
  <2>2. {as(e) : e \in E} = {n \in {as(e) : e \in S} : mine(n)}
    BY <1>4
  <2> QED BY <1>3, <2>1, <2>2
<1>6. ASSUME NEW k \in NamesSeen(c, scope, rows)
      PROVE  {e \in E : shown(e) = k} = RowsOfName(c, rows, k)
  <2>1. mine(k)
    BY <1>3
  <2>2. \A e : e \in E /\ shown(e) = k <=> e \in S /\ as(e) = k
    BY <1>4, <2>1
  <2>3. {e \in E : shown(e) = k} = {e \in S : as(e) = k}
    BY <2>2
  <2> QED BY <1>3, <2>3
<1> QED BY <1>2, <1>5, <1>6

\* The ends of a pair that a scope sees.
LEMMA BothSeen ==
    ASSUME NEW c, WellFormed(c), NEW scope, NEW rows
    PROVE  /\ Tools!bothPresent(c, scope, rows) =
                 {r \in rows : Tools!pairInScope(c, scope, PairName(c, r))}
           /\ \A r \in Tools!bothPresent(c, scope, rows) :
                 <<Tools!shownID(c, scope, r.src), Tools!shownID(c, scope, r.dst)>> = PairName(c, r)
<1>1. ASSUME NEW s
      PROVE  LET n == Tools!resolveNodeID(c, s)
             IN  /\ Tools!present(c, scope, s) # {} <=> Tools!inScope(c, scope, n) \/ n \in Pseudo
                 /\ Tools!present(c, scope, s) # {} => Tools!shownID(c, scope, s) = n
  BY SeenUnder
<1> QED BY <1>1 DEF Tools!bothPresent, Tools!pairInScope, PairName

\* The ranked pairs of a scope: the rows between each two ends it sees.
LEMMA PairsOf ==
    ASSUME NEW c, WellFormed(c), NEW scope, NEW rows
    PROVE  Tools!topPairs(c, scope, rows) =
              [k \in PairsSeen(c, scope, rows) |-> Tools!totals(RowsOfPair(c, rows, k))]
<1> DEFINE E == Tools!bothPresent(c, scope, rows)
           shown(r) == <<Tools!shownID(c, scope, r.src), Tools!shownID(c, scope, r.dst)>>
           as(r) == PairName(c, r)
           mine(k) == Tools!pairInScope(c, scope, k)
<1>1. E = {r \in rows : mine(as(r))} /\ \A r \in E : shown(r) = as(r)
  BY BothSeen
<1>2. Tools!topPairs(c, scope, rows) =
         [k \in {shown(r) : r \in E} |-> Tools!totals({r \in E : shown(r) = k})]
  BY DEF Tools!topPairs, Tools!Sums
<1>3. /\ PairsSeen(c, scope, rows) = {k \in {as(r) : r \in rows} : mine(k)}
      /\ \A k : RowsOfPair(c, rows, k) = {r \in rows : as(r) = k}
  BY DEF PairsSeen, PairsIn, RowsOfPair
<1> HIDE DEF E, shown, as, mine
<1>4. {shown(r) : r \in E} = PairsSeen(c, scope, rows)
  <2>1. {shown(r) : r \in E} = {as(r) : r \in E}
    BY <1>1
  <2>2. {as(r) : r \in E} = {k \in {as(r) : r \in rows} : mine(k)}
    BY <1>1
  <2> QED BY <1>3, <2>1, <2>2
<1>5. ASSUME NEW k \in PairsSeen(c, scope, rows)
      PROVE  {r \in E : shown(r) = k} = RowsOfPair(c, rows, k)
  <2>1. mine(k)
    BY <1>3
  <2>2. \A r : r \in E /\ shown(r) = k <=> r \in rows /\ as(r) = k
    BY <1>1, <2>1
  <2>3. {r \in E : shown(r) = k} = {r \in rows : as(r) = k}
    BY <2>2
  <2> QED BY <1>3, <2>3
<1> QED BY <1>2, <1>4, <1>5

\* The new connections of a scope: pairs of ends it sees that the rows before lack.
LEMMA NewOf ==
    ASSUME NEW c, WellFormed(c), NEW scope, NEW window, NEW prior
    PROVE  \A p : p \in Tools!newConnections(c, scope, window, prior) <=>
              p \in PairsSeen(c, scope, window) /\ p \notin PairsIn(c, prior) /\ p[1] # p[2]
<1> DEFINE E == Tools!bothPresent(c, scope, window)
           shown(r) == <<Tools!shownID(c, scope, r.src), Tools!shownID(c, scope, r.dst)>>
           seen == {<<Tools!resolveNodeID(c, p[1]), Tools!resolveNodeID(c, p[2])>> :
                       p \in Tools!DistinctPairs(prior)}
<1>1. E = {r \in window : Tools!pairInScope(c, scope, PairName(c, r))}
      /\ \A r \in E : shown(r) = PairName(c, r)
  BY BothSeen
<1>2. seen = PairsIn(c, prior)
  <2> DEFINE pair(r) == <<r.src, r.dst>>
             named(p) == <<Tools!resolveNodeID(c, p[1]), Tools!resolveNodeID(c, p[2])>>
  <2>1. seen = {named(p) : p \in {pair(r) : r \in prior}}
    BY DEF Tools!DistinctPairs
  <2>2. \A r : named(pair(r)) = PairName(c, r)
    BY DEF PairName
  <2> HIDE DEF seen, named, pair
  <2>3. {named(p) : p \in {pair(r) : r \in prior}} = {named(pair(r)) : r \in prior}
    OBVIOUS
  <2> QED BY <2>1, <2>2, <2>3 DEF PairsIn
<1>3. Tools!newConnections(c, scope, window, prior) =
         {p \in {shown(r) : r \in E} \ seen : p[1] # p[2]}
  BY DEF Tools!newConnections
<1> HIDE DEF E, shown, seen
<1>4. {shown(r) : r \in E} = PairsSeen(c, scope, window)
  BY <1>1 DEF PairsSeen, PairsIn
<1> QED BY <1>2, <1>3, <1>4

\* Without a scope everything is seen.
LEMMA EverythingIsSeen ==
    ASSUME NEW c, NEW rows
    PROVE  /\ NamesSeen(c, Tools!Everything, rows) = NamesIn(c, rows)
           /\ PairsSeen(c, Tools!Everything, rows) = PairsIn(c, rows)
BY DEF NamesSeen, PairsSeen, Tools!inScope, Tools!pairInScope, Tools!Everything

\* On a well-formed cache a scope shows its part of the answers, for any rows.
LEMMA PartIsShown ==
    ASSUME NEW c, WellFormed(c), NEW scope, NEW rows, NEW window, NEW prior
    PROVE  Tools!ShowsItsPart(c, scope, rows, window, prior)
<1> DEFINE all == Tools!topTalkers(c, Tools!Everything, rows)
           pairs == Tools!topPairs(c, Tools!Everything, rows)
           new(view) == Tools!newConnections(c, view, window, prior)
           had == DOMAIN Tools!topPairs(c, Tools!Everything, prior)
<1>1. Tools!topTalkers(c, scope, rows)
         = Tools!Restrict(all, {n \in DOMAIN all : Tools!inScope(c, scope, n)})
  <2>1. all = [k \in NamesIn(c, rows) |-> Tools!totals(RowsOfName(c, rows, k))]
    BY TalkersOf, EverythingIsSeen
  <2>2. Tools!topTalkers(c, scope, rows)
           = [k \in NamesSeen(c, scope, rows) |-> Tools!totals(RowsOfName(c, rows, k))]
    BY TalkersOf
  <2> HIDE DEF all
  <2>3. {n \in DOMAIN all : Tools!inScope(c, scope, n)} = NamesSeen(c, scope, rows)
    BY <2>1 DEF NamesSeen
  <2>4. NamesSeen(c, scope, rows) \subseteq NamesIn(c, rows)
    BY DEF NamesSeen
  <2> QED BY <2>1, <2>2, <2>3, <2>4 DEF Tools!Restrict
<1>2. Tools!topPairs(c, scope, rows)
         = Tools!Restrict(pairs, {k \in DOMAIN pairs : Tools!pairInScope(c, scope, k)})
  <2>1. pairs = [k \in PairsIn(c, rows) |-> Tools!totals(RowsOfPair(c, rows, k))]
    BY PairsOf, EverythingIsSeen
  <2>2. Tools!topPairs(c, scope, rows)
           = [k \in PairsSeen(c, scope, rows) |-> Tools!totals(RowsOfPair(c, rows, k))]
    BY PairsOf
  <2> HIDE DEF pairs
  <2>3. {k \in DOMAIN pairs : Tools!pairInScope(c, scope, k)} = PairsSeen(c, scope, rows)
    BY <2>1 DEF PairsSeen
  <2>4. PairsSeen(c, scope, rows) \subseteq PairsIn(c, rows)
    BY DEF PairsSeen
  <2> QED BY <2>1, <2>2, <2>3, <2>4 DEF Tools!Restrict
<1>3. new(scope) = {k \in new(Tools!Everything) : Tools!pairInScope(c, scope, k)}
  <2>1. \A p : /\ p \in new(scope) <=>
                     p \in PairsSeen(c, scope, window) /\ p \notin PairsIn(c, prior) /\ p[1] # p[2]
               /\ p \in new(Tools!Everything) <=>
                     p \in PairsIn(c, window) /\ p \notin PairsIn(c, prior) /\ p[1] # p[2]
    BY NewOf, EverythingIsSeen
  <2> HIDE DEF new
  <2> QED BY <2>1 DEF PairsSeen
<1>4. new(Tools!Everything) \cap had = {}
  <2>1. \A k \in new(Tools!Everything) : k \notin PairsIn(c, prior)
    BY NewOf
  <2>2. Tools!topPairs(c, Tools!Everything, prior)
           = [p \in PairsIn(c, prior) |-> Tools!totals(RowsOfPair(c, prior, p))]
    BY PairsOf, EverythingIsSeen
  <2>3. had = PairsIn(c, prior)
    BY <2>2
  <2> HIDE DEF new, had
  <2> QED BY <2>1, <2>3
<1> QED BY <1>1, <1>2, <1>3, <1>4 DEF Tools!ShowsItsPart

\* In every reachable state of the poller's cache each scope shows of the ranked talkers,
\* the ranked pairs and the new connections what belongs to its devices, with the sums
\* of the whole answer, for any stored rows.
THEOREM EveryScopeShowsItsPart == Spec => []ScopeShowsItsPart
<1>1. IInv => ScopeShowsItsPart
  BY PartIsShown DEF IInv, ScopeShowsItsPart
<1> QED BY <1>1, IdentitiesInvariant, PTL
=============================================================================

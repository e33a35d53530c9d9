--------------------------- MODULE RecoveryProofs ---------------------------
(***************************************************************************)
(* Theorems about Recovery, for any keys, values, ttls and bounds: the     *)
(* types, the deadlines that a start queues, the snapshot that Stop leaves *)
(* and what a start after a crash gives back.                              *)
(***************************************************************************)
EXTENDS Recovery, CacheProofs, FiniteSetTheorems

Loads == INSTANCE SequenceLemmas WITH Op <- Replay

\* Every command that was logged and not dropped.
Log == acl \o chan

----------------------------------------------------------------------------
(* The inductive invariants. *)

\* A command that stores something has a client's value and ttl.
Command == {c \in [type : {"SET", "SETNX", "DEL"}, key : Keys,
                   value : Values \cup {NoItem}, ttl : Int] :
               c.type # "DEL" => c.value \in ClientValues /\ c.ttl \in TTLs}
CommandsTyped == acl \in Seq(Command) /\ chan \in Seq(Command)

Entry == [value : Values, exp : -Half .. Half - 1]
SnapshotTyped == \A k \in Keys : atd[k] \in Entry \cup {NoItem}

DownIsClean == ~up => phase = "run" /\ chan = <<>>

FlagsTyped == /\ up \in BOOLEAN /\ proc \in BOOLEAN /\ cut \in BOOLEAN
              /\ phase \in {"run", "wait", "closed", "saved"}
              /\ lost \subseteq Keys /\ odd \subseteq Keys

StoreInv == TypeOK /\ IsFiniteSet(heap) /\ LoadedDeadlinesQueued

BaseInv == /\ StoreInv /\ FlagsTyped /\ CommandsTyped /\ SnapshotTyped /\ DownIsClean
           /\ Len(acl) + Len(chan) <= MaxLog

SaveInv == BaseInv /\ LastSaveComplete

\* Place n has the last command of s about k.
LastOf(s, k, n) == s[n].key = k /\ \A m \in n + 1 .. Len(s) : s[m].key # k
Unmentioned(s, k) == \A n \in 1 .. Len(s) : s[n].key # k

\* The commands of a key that is not odd, and the absence of deadlines for it.
PlainCommands ==
    \A k \in Keys \ odd, n \in 1 .. Len(Log) : Log[n].key = k =>
        \/ Log[n].type = "SET" /\ Log[n].value.type = "string" /\ Log[n].ttl <= 0
        \/ Log[n].type = "DEL"

NoDeadline ==
    \A k \in Keys \ odd : /\ Stored(k) => items[k].exp = 0
                          /\ atd[k] # NoItem => atd[k].exp = 0
                          /\ \A i \in heap : i.key # k

\* When no command is missing, a DEL follows the SET of what it deletes: replayed, it
\* meets a value whose type is known.
DelFollowsSet ==
    \A k \in Keys \ (odd \cup lost), n \in 1 .. Len(Log) :
        Log[n].key = k /\ Log[n].type = "DEL" =>
            \E m \in 1 .. n - 1 : /\ Log[m].key = k /\ Log[m].type = "SET"
                                  /\ \A j \in m + 1 .. n - 1 : Log[j].key # k

\* What the last command of a key leaves in the map.
Leaves(cmd, i) == IF cmd.type = "DEL" THEN i = NoItem
                  ELSE i # NoItem /\ i.value = cmd.value

StoreFollowsLog ==
    \A k \in Keys \ (odd \cup lost) :
        /\ up => \A n \in 1 .. Len(Log) : LastOf(Log, k, n) => Leaves(Log[n], items[k])
        /\ Unmentioned(Log, k) => ~Stored(k) /\ atd[k] = NoItem

PlainInv == BaseInv /\ PlainCommands /\ NoDeadline /\ DelFollowsSet /\ StoreFollowsLog

\* The types of the keys, as a replay changes them: what it does to the presence of
\* a key depends on nothing else.
Absent == "absent"
TypeMaps == [Keys -> DataTypes \cup {"", Absent}]
Retype(t, cmd) ==
    IF cmd.type = "SET" \/ (cmd.type = "SETNX" /\ t[cmd.key] = Absent)
    THEN [t EXCEPT ![cmd.key] = cmd.value.type]
    ELSE IF cmd.type = "DEL" /\ t[cmd.key] = "string" THEN [t EXCEPT ![cmd.key] = Absent] ELSE t

Types == INSTANCE SequenceLemmas WITH Op <- Retype

\* The types after a replay of the whole log, of keys that all have type t before it.
All(t) == [k \in Keys |-> t]
After(t) == FoldLeft(Retype, All(t), Log)

\* A stored key survives a replay over a snapshot that has it, a visible one over
\* the present snapshot.
StoredSurvives == up => \A k \in Keys \ lost : Stored(k) => After("")[k] # Absent
VisibleSurvives ==
    up /\ ~cut => \A k \in Keys \ lost : Visible(k) =>
        After(Absent)[k] # Absent \/ (atd[k] # NoItem /\ atd[k].exp = items[k].exp)

SurviveInv == BaseInv /\ StoredSurvives /\ VisibleSurvives

----------------------------------------------------------------------------
(* Addresses. *)

\* The addresses of a cache under construction.
Addresses(c) == {i.id : i \in c.heap}
                \cup {c.items[k].id : k \in {l \in Keys : c.items[l] # NoItem}}

\* As many addresses as things that have one, at most.
LEMMA ImageBound ==
    ASSUME NEW S, IsFiniteSet(S), NEW f, DOMAIN f = S
    PROVE  /\ IsFiniteSet({f[x] : x \in S})
           /\ Cardinality({f[x] : x \in S}) \in Nat
           /\ Cardinality({f[x] : x \in S}) <= Cardinality(S)
<1>. DEFINE T == {f[x] : x \in S}
            g == [x \in S |-> f[x]]
<1>1. g \in Surjection(S, T)
  BY DEF Surjection
<1>2. IsFiniteSet(T) /\ Cardinality(T) <= Cardinality(S)
  BY <1>1, FS_Surjection
<1>. QED BY <1>2, FS_CardinalityType

LEMMA SpareAddress ==
    ASSUME NEW T, IsFiniteSet(T), Cardinality(T) < Cardinality(Ids)
    PROVE  \E id \in Ids : id \notin T
<1>. SUFFICES ASSUME Ids \in SUBSET T PROVE FALSE
  OBVIOUS
<1>1. Cardinality(Ids) <= Cardinality(T)
  BY FS_Subset
<1>2. Cardinality(Ids) \in Nat /\ Cardinality(T) \in Nat
  BY FS_CardinalityType, AddressesAssumption
<1>. QED BY <1>1, <1>2

LEMMA Sizes ==
    /\ IsFiniteSet(Keys) /\ IsFiniteSet(Ids)
    /\ Cardinality(Keys) \in Nat /\ Cardinality(Ids) \in Nat
    /\ ChanCap \in Nat /\ MaxLog \in Nat /\ MaxHeap \in Nat
    /\ Cardinality(Keys) + MaxHeap <= Cardinality(Ids)
    /\ Cardinality(Keys) + MaxLog <= Cardinality(Ids)
BY FS_CardinalityType, AddressesAssumption, BoundsAssumption

\* The running process finds an address while its heap is below the bound.
LEMMA FreshIdFound ==
    ASSUME IsFiniteSet(heap), Cardinality(heap) < MaxHeap
    PROVE  FreshId \in Ids /\ FreshId \notin InUse
<1>. DEFINE H == {i.id : i \in heap}
            L == {k \in Keys : Stored(k)}
            K == {items[k].id : k \in L}
            h == [i \in heap |-> i.id]
            g == [k \in L |-> items[k].id]
<1>1. IsFiniteSet(H) /\ Cardinality(H) \in Nat /\ Cardinality(H) <= Cardinality(heap)
  <2>1. H = {h[i] : i \in heap} /\ DOMAIN h = heap
    OBVIOUS
  <2>. HIDE DEF h
  <2>. QED BY <2>1, ImageBound
<1>2. IsFiniteSet(L) /\ Cardinality(L) <= Cardinality(Keys)
  BY Sizes, FS_Subset
<1>3. IsFiniteSet(K) /\ Cardinality(K) \in Nat /\ Cardinality(K) <= Cardinality(L)
  <2>1. K = {g[k] : k \in L} /\ DOMAIN g = L
    OBVIOUS
  <2>. HIDE DEF g, L
  <2>. QED BY <1>2, <2>1, ImageBound
<1>. HIDE DEF H, K, L
<1>4. /\ IsFiniteSet(H \cup K)
      /\ Cardinality(H \cup K) = Cardinality(H) + Cardinality(K) - Cardinality(H \cap K)
  BY <1>1, <1>3, FS_Union
<1>5. Cardinality(H \cap K) \in Nat
  <2>1. H \cap K \in SUBSET H
    OBVIOUS
  <2>2. IsFiniteSet(H \cap K)
    BY <1>1, <2>1, FS_Subset
  <2>. QED BY <2>2, FS_CardinalityType
<1>6. Cardinality(heap) \in Nat /\ Cardinality(L) \in Nat
  BY <1>2, FS_CardinalityType
<1>7. Cardinality(H \cup K) < Cardinality(Ids)
  BY <1>1, <1>2, <1>3, <1>4, <1>5, <1>6, Sizes
<1>8. \E id \in Ids : id \notin H \cup K
  BY <1>4, <1>7, SpareAddress
<1>9. InUse = H \cup K
  BY DEF InUse, H, K, L
<1>. QED BY <1>8, <1>9 DEF FreshId

----------------------------------------------------------------------------
(* Loading: what LoadAtd and each line of LoadAcl make. *)

\* A cache under construction, after at most n lines of the log.
LoadedWith(n) ==
    {c \in [items : [Keys -> Item \cup {NoItem}], heap : SUBSET Item] :
        /\ \A k \in Keys : c.items[k] # NoItem =>
               c.items[k].key = k /\ (c.items[k].exp > 0 => c.items[k] \in c.heap)
        /\ IsFiniteSet(c.heap)
        /\ IsFiniteSet(Addresses(c))
        /\ Cardinality(Addresses(c)) <= Cardinality(Keys) + n}

LEMMA NextIdFound ==
    ASSUME NEW n \in Nat, n < MaxLog, NEW c \in LoadedWith(n)
    PROVE  NextId(c) \in Ids
<1>1. IsFiniteSet(Addresses(c)) /\ Cardinality(Addresses(c)) <= Cardinality(Keys) + n
  BY DEF LoadedWith
<1>2. Cardinality(Addresses(c)) \in Nat
  BY <1>1, FS_CardinalityType
<1>3. Cardinality(Addresses(c)) < Cardinality(Ids)
  BY <1>1, <1>2, Sizes
<1>4. PICK id \in Ids : id \notin Addresses(c)
  BY <1>1, <1>3, SpareAddress
<1>5. /\ \A i \in c.heap : i.id # id
      /\ \A k \in Keys : c.items[k] # NoItem => c.items[k].id # id
  BY <1>4 DEF Addresses
<1>. QED BY <1>5 DEF NextId

\* An item is stored at a new address.
LEMMA LoadTyped ==
    ASSUME NEW n \in Nat, NEW c \in LoadedWith(n), NEW k \in Keys, NEW i \in Item, i.key = k,
           NEW h, h = c.heap \/ h = c.heap \cup {i}, i.exp > 0 => i \in h
    PROVE  [items |-> [c.items EXCEPT ![k] = i], heap |-> h] \in LoadedWith(n + 1)
<1>. DEFINE r == [items |-> [c.items EXCEPT ![k] = i], heap |-> h]
<1>2. r.items = [c.items EXCEPT ![k] = i] /\ r.heap = h
  OBVIOUS
<1>4. c.items \in [Keys -> Item \cup {NoItem}] /\ c.heap \subseteq Item
  BY DEF LoadedWith
<1>5. r.items[k] = i /\ \A l \in Keys \ {k} : r.items[l] = c.items[l]
  BY <1>2, <1>4
<1>6. r \in [items : [Keys -> Item \cup {NoItem}], heap : SUBSET Item]
  BY <1>4
<1>. HIDE DEF r
<1>7. ASSUME NEW l \in Keys, r.items[l] # NoItem
      PROVE  r.items[l].key = l /\ (r.items[l].exp > 0 => r.items[l] \in r.heap)
  <2>1. CASE l = k
    BY <1>2, <1>5, <2>1
  <2>2. CASE l # k
    <3>1. r.items[l] = c.items[l]
      BY <1>5, <2>2
    <3>2. r.items[l].key = l /\ (r.items[l].exp > 0 => r.items[l] \in c.heap)
      BY <1>7, <3>1 DEF LoadedWith
    <3>. QED BY <1>2, <3>2
  <2>. QED BY <2>1, <2>2
<1>8. IsFiniteSet(r.heap)
  <2>1. IsFiniteSet(c.heap)
    BY DEF LoadedWith
  <2>2. IsFiniteSet(c.heap \cup {i})
    BY <2>1, FS_AddElement
  <2>. QED BY <1>2, <2>1, <2>2
<1>9. IsFiniteSet(Addresses(r)) /\ Cardinality(Addresses(r)) <= Cardinality(Keys) + (n + 1)
  <2>1. Addresses(r) \subseteq Addresses(c) \cup {i.id}
    <3>1. \A j \in r.heap : j = i \/ j \in c.heap
      BY <1>2
    <3>2. \A l \in Keys : r.items[l] = i \/ r.items[l] = c.items[l]
      BY <1>5
    <3>. QED BY <3>1, <3>2 DEF Addresses
  <2>2. IsFiniteSet(Addresses(c)) /\ Cardinality(Addresses(c)) <= Cardinality(Keys) + n
    BY DEF LoadedWith
  <2>3. Cardinality(Addresses(c)) \in Nat
    BY <2>2, FS_CardinalityType
  <2>4. /\ IsFiniteSet(Addresses(c) \cup {i.id})
        /\ Cardinality(Addresses(c) \cup {i.id}) <= Cardinality(Addresses(c)) + 1
        /\ Cardinality(Addresses(c) \cup {i.id}) \in Nat
    <3>1. /\ IsFiniteSet(Addresses(c) \cup {i.id})
          /\ Cardinality(Addresses(c) \cup {i.id})
               = IF i.id \in Addresses(c) THEN Cardinality(Addresses(c)) ELSE Cardinality(Addresses(c)) + 1
      BY <2>2, FS_AddElement
    <3>. QED BY <2>3, <3>1
  <2>5. IsFiniteSet(Addresses(r)) /\ Cardinality(Addresses(r)) <= Cardinality(Addresses(c) \cup {i.id})
    BY <2>1, <2>4, FS_Subset
  <2>6. Cardinality(Addresses(r)) \in Nat
    BY <2>5, FS_CardinalityType
  <2>. QED BY <2>2, <2>3, <2>4, <2>5, <2>6, Sizes
<1>10. r \in LoadedWith(n + 1)
  BY <1>6, <1>7, <1>8, <1>9 DEF LoadedWith
<1>. QED BY <1>10 DEF r

LEMMA ValueTypes ==
    /\ ClientValues \subseteq Values
    /\ \A v \in Values : /\ v = [data |-> v.data, type |-> v.type]
                         /\ v.type \in DataTypes \cup {""}
                         /\ Untyped(v) \in Values
                         /\ Untyped(v).type = ""
    /\ \A v \in ClientValues : v.type \in DataTypes
<1>1. \A v \in ClientValues : v = [data |-> v.data, type |-> v.type] /\ v.type \in DataTypes
  BY ClientValuesAssumption
<1>2. Values = ClientValues \cup {Untyped(v) : v \in ClientValues}
  BY ClientValuesAssumption
<1>3. \A v \in ClientValues : Untyped(Untyped(v)) = Untyped(v) /\ Untyped(v).type = ""
                            /\ Untyped(v) = [data |-> Untyped(v).data, type |-> Untyped(v).type]
  BY DEF Untyped
<1>. QED BY <1>1, <1>2, <1>3, ZenonT(60)

\* When a line stores its value, and when it removes the key.
StoresIn(c, cmd) == cmd.type = "SET" \/ (cmd.type = "SETNX" /\ c.items[cmd.key] = NoItem)
DeletesIn(c, cmd) == /\ cmd.type = "DEL" /\ c.items[cmd.key] # NoItem
                     /\ c.items[cmd.key].value.type = "string"

LEMMA ReplayCases ==
    ASSUME NEW c, NEW cmd
    PROVE  /\ StoresIn(c, cmd) =>
                Replay(c, cmd) = Load(c, cmd.key, cmd.value, Expiration(cmd.ttl), cmd.ttl > 0)
           /\ DeletesIn(c, cmd) =>
                Replay(c, cmd) = [items |-> [c.items EXCEPT ![cmd.key] = NoItem],
                                  heap |-> IF c.items[cmd.key].exp > 0
                                           THEN c.heap \ {c.items[cmd.key]} ELSE c.heap]
           /\ ~StoresIn(c, cmd) /\ ~DeletesIn(c, cmd) => Replay(c, cmd) = c
BY DEF Replay, StoresIn, DeletesIn

LEMMA UnloadTyped ==
    ASSUME NEW n \in Nat, NEW c \in LoadedWith(n), NEW k \in Keys, c.items[k] # NoItem,
           NEW r, r = [items |-> [c.items EXCEPT ![k] = NoItem],
                       heap |-> IF c.items[k].exp > 0 THEN c.heap \ {c.items[k]} ELSE c.heap]
    PROVE  r \in LoadedWith(n)
<1>1. c.items \in [Keys -> Item \cup {NoItem}] /\ c.heap \subseteq Item
  BY DEF LoadedWith
<1>2. r.items[k] = NoItem /\ \A l \in Keys \ {k} : r.items[l] = c.items[l]
  BY <1>1
<1>3. r.heap \subseteq c.heap
  OBVIOUS
<1>4. r \in [items : [Keys -> Item \cup {NoItem}], heap : SUBSET Item]
  BY <1>1
<1>5. ASSUME NEW l \in Keys, r.items[l] # NoItem
      PROVE  r.items[l].key = l /\ (r.items[l].exp > 0 => r.items[l] \in r.heap)
  <2>1. l # k /\ r.items[l] = c.items[l]
    BY <1>2, <1>5
  <2>2. /\ c.items[l].key = l /\ (c.items[l].exp > 0 => c.items[l] \in c.heap)
        /\ c.items[k].key = k
    BY <1>5, <2>1 DEF LoadedWith
  <2>3. c.items[l] # c.items[k]
    BY <2>1, <2>2
  <2>. QED BY <2>1, <2>2, <2>3
<1>6. Addresses(r) \subseteq Addresses(c)
  BY <1>2, <1>3 DEF Addresses
<1>7. IsFiniteSet(c.heap) /\ IsFiniteSet(Addresses(c)) /\ Cardinality(Addresses(c)) <= Cardinality(Keys) + n
  BY DEF LoadedWith
<1>8. IsFiniteSet(r.heap)
  BY <1>3, <1>7, FS_Subset
<1>9. IsFiniteSet(Addresses(r)) /\ Cardinality(Addresses(r)) <= Cardinality(Addresses(c))
  BY <1>6, <1>7, FS_Subset
<1>10. Cardinality(Addresses(r)) \in Nat /\ Cardinality(Addresses(c)) \in Nat
  BY <1>7, <1>9, FS_CardinalityType
<1>11. Cardinality(Addresses(r)) <= Cardinality(Keys) + n
  BY <1>7, <1>9, <1>10, Sizes
<1>. QED BY <1>4, <1>5, <1>8, <1>9, <1>11 DEF LoadedWith

LEMMA LoadedMore ==
    ASSUME NEW n \in Nat, NEW c \in LoadedWith(n)
    PROVE  c \in LoadedWith(n + 1)
<1>1. IsFiniteSet(Addresses(c)) /\ Cardinality(Addresses(c)) <= Cardinality(Keys) + n
  BY DEF LoadedWith
<1>2. Cardinality(Addresses(c)) \in Nat
  BY <1>1, FS_CardinalityType
<1>3. Cardinality(Addresses(c)) <= Cardinality(Keys) + (n + 1)
  BY <1>1, <1>2, Sizes
<1>. QED BY <1>3 DEF LoadedWith

\* What a line does to a cache.
ReplayEffect(c, cmd, r) ==
    /\ \A l \in Keys \ {cmd.key} : r.items[l] = c.items[l]
    /\ StoresIn(c, cmd) =>
          /\ r.items[cmd.key] \in Item
          /\ r.items[cmd.key].value = cmd.value
          /\ r.items[cmd.key].exp = Expiration(cmd.ttl)
          /\ r.heap = IF cmd.ttl > 0 THEN c.heap \cup {r.items[cmd.key]} ELSE c.heap
    /\ DeletesIn(c, cmd) => r.items[cmd.key] = NoItem /\ r.heap \subseteq c.heap
    /\ ~StoresIn(c, cmd) /\ ~DeletesIn(c, cmd) => r = c

LEMMA ReplayTyped ==
    ASSUME TypeOK, NEW n \in Nat, n < MaxLog, NEW c \in LoadedWith(n), NEW cmd \in Command
    PROVE  Replay(c, cmd) \in LoadedWith(n + 1) /\ ReplayEffect(c, cmd, Replay(c, cmd))
<1>. DEFINE r == Replay(c, cmd)
<1>0. cmd.key \in Keys /\ c.items \in [Keys -> Item \cup {NoItem}]
  BY DEF Command, LoadedWith
<1>1. CASE StoresIn(c, cmd)
  <2>1. cmd.value \in Values /\ cmd.ttl \in -Half .. Half - 1
    BY <1>1, ValueTypes, TTLAssumption DEF Command, StoresIn
  <2>2. Expiration(cmd.ttl) \in -Half .. Half - 1 /\ (Expiration(cmd.ttl) > 0 => cmd.ttl > 0)
    BY <2>1, ExpirationRange
  <2>3. r = Load(c, cmd.key, cmd.value, Expiration(cmd.ttl), cmd.ttl > 0)
    BY <1>1, ReplayCases
  <2>. HIDE DEF r
  <2>4. PICK e \in -Half .. Half - 1 : e = Expiration(cmd.ttl) /\ (e > 0 => cmd.ttl > 0)
    BY <2>2
  <2>5. PICK i, h : /\ i = [id |-> NextId(c), key |-> cmd.key, value |-> cmd.value, exp |-> e]
                    /\ h = IF cmd.ttl > 0 THEN c.heap \cup {i} ELSE c.heap
                    /\ r = [items |-> [c.items EXCEPT ![cmd.key] = i], heap |-> h]
    BY <2>3, <2>4 DEF Load
  <2>6. r \in LoadedWith(n + 1) /\ i \in Item
    <3>1. i \in Item /\ i.key = cmd.key /\ i.exp = e
      BY <1>0, <2>1, <2>5, NextIdFound DEF Item
    <3>2. (h = c.heap \/ h = c.heap \cup {i}) /\ (i.exp > 0 => i \in h)
      BY <2>4, <2>5, <3>1
    <3>3. [items |-> [c.items EXCEPT ![cmd.key] = i], heap |-> h] \in LoadedWith(n + 1)
      BY <1>0, <3>1, <3>2, LoadTyped
    <3>. QED BY <2>5, <3>1, <3>3
  <2>7. /\ r.items[cmd.key] = i /\ \A l \in Keys \ {cmd.key} : r.items[l] = c.items[l]
        /\ r.heap = h /\ i.value = cmd.value /\ i.exp = e
    BY <1>0, <2>5
  <2>8. ~DeletesIn(c, cmd)
    BY <1>1 DEF StoresIn, DeletesIn
  <2>9. ReplayEffect(c, cmd, r)
    BY <1>1, <2>4, <2>5, <2>6, <2>7, <2>8 DEF ReplayEffect
  <2>. QED BY <2>6, <2>9 DEF r
<1>2. CASE DeletesIn(c, cmd)
  <2>1. r = [items |-> [c.items EXCEPT ![cmd.key] = NoItem],
             heap |-> IF c.items[cmd.key].exp > 0
                      THEN c.heap \ {c.items[cmd.key]} ELSE c.heap]
    BY <1>2, ReplayCases
  <2>. HIDE DEF r
  <2>2. c.items[cmd.key] # NoItem
    BY <1>2 DEF DeletesIn
  <2>3. r \in LoadedWith(n)
    BY <1>0, <2>1, <2>2, UnloadTyped
  <2>4. /\ r.items[cmd.key] = NoItem /\ r.heap \subseteq c.heap
        /\ \A l \in Keys \ {cmd.key} : r.items[l] = c.items[l]
    BY <1>0, <2>1
  <2>5. ~StoresIn(c, cmd)
    BY <1>2 DEF StoresIn, DeletesIn
  <2>6. ReplayEffect(c, cmd, r)
    BY <1>2, <2>4, <2>5 DEF ReplayEffect
  <2>. QED BY <2>3, <2>6, LoadedMore DEF r
<1>3. CASE ~StoresIn(c, cmd) /\ ~DeletesIn(c, cmd)
  <2>1. r = c
    BY <1>3, ReplayCases
  <2>. HIDE DEF r
  <2>2. ReplayEffect(c, cmd, r)
    BY <1>3, <2>1 DEF ReplayEffect
  <2>. QED BY <2>1, <2>2, LoadedMore DEF r
<1>. QED BY <1>1, <1>2, <1>3

LEMMA InjectionExists ==
    ASSUME NEW S, IsFiniteSet(S), NEW T, IsFiniteSet(T), Cardinality(S) <= Cardinality(T)
    PROVE  \E f \in [S -> T] : IsInjective(f)
<1>. DEFINE m == Cardinality(S)
            n == Cardinality(T)
<1>1. m \in Nat /\ n \in Nat /\ m <= n
  BY FS_CardinalityType
<1>2. PICK h : h \in Bijection(1 .. m, S)
  BY FS_CardinalityType DEF ExistsBijection
<1>3. PICK g : g \in Bijection(1 .. n, T)
  BY FS_CardinalityType DEF ExistsBijection
<1>. HIDE DEF m, n
<1>4. h \in [1 .. m -> S] /\ \A x \in S : \E i \in 1 .. m : h[i] = x
  BY <1>2 DEF Bijection, Surjection
<1>5. g \in [1 .. n -> T] /\ \A i, j \in 1 .. n : g[i] = g[j] => i = j
  BY <1>3 DEF Bijection, Injection, IsInjective
<1>. DEFINE place(x) == CHOOSE i \in 1 .. m : h[i] = x
            f == [x \in S |-> g[place(x)]]
<1>6. \A x \in S : place(x) \in 1 .. m /\ h[place(x)] = x
  BY <1>4
<1>. HIDE DEF place
<1>7. \A x \in S : place(x) \in 1 .. n
  BY <1>1, <1>6
<1>8. f \in [S -> T]
  BY <1>5, <1>7
<1>9. ASSUME NEW x \in S, NEW y \in S, f[x] = f[y] PROVE x = y
  <2>1. place(x) = place(y)
    BY <1>5, <1>7, <1>9
  <2>. QED BY <1>6, <2>1
<1>10. IsInjective(f)
  BY <1>9 DEF IsInjective
<1>. QED BY <1>8, <1>10

\* The keys that LoadAtd keeps.
Live == {k \in Keys : atd[k] # NoItem /\ ~(atd[k].exp > 0 /\ now > atd[k].exp)}

LEMMA LoadAtdTyped ==
    ASSUME SnapshotTyped
    PROVE  /\ LoadAtd \in LoadedWith(0)
           /\ \A k \in Live : /\ LoadedMap[k] \in Item /\ LoadedMap[k].value.type = ""
                              /\ LoadedMap[k].exp = atd[k].exp
           /\ \A k \in Keys \ Live : LoadedMap[k] = NoItem
<1>1. Live \in SUBSET Keys
  BY DEF Live
<1>2. IsFiniteSet(Live) /\ Cardinality(Live) <= Cardinality(Keys) /\ Cardinality(Live) \in Nat
  BY <1>1, Sizes, FS_Subset, FS_CardinalityType
<1>3. Cardinality(Live) <= Cardinality(Ids)
  BY <1>2, Sizes
<1>4. \E f \in [Live -> Ids] : IsInjective(f)
  BY <1>2, <1>3, Sizes, InjectionExists
<1>. DEFINE address == CHOOSE f \in [Live -> Ids] : IsInjective(f)
            loaded(k) == [id |-> address[k], key |-> k,
                          value |-> Untyped(atd[k].value), exp |-> atd[k].exp]
            L == LoadedMap
            H == {i \in Range(LoadedMap) : i # NoItem /\ i.exp > 0}
<1>5. address \in [Live -> Ids]
  BY <1>4
<1>6. L = [k \in Keys |-> IF k \in Live THEN loaded(k) ELSE NoItem]
  BY DEF LoadedMap, Live
<1>. HIDE DEF address
<1>7. ASSUME NEW k \in Live
      PROVE  /\ loaded(k) \in Item /\ loaded(k).key = k /\ loaded(k).id = address[k]
             /\ loaded(k).value.type = "" /\ loaded(k).exp = atd[k].exp
  <2>1. atd[k] \in Entry
    BY <1>1 DEF Live, SnapshotTyped
  <2>2. atd[k].value \in Values /\ atd[k].exp \in -Half .. Half - 1
    BY <2>1 DEF Entry
  <2>3. Untyped(atd[k].value) \in Values /\ Untyped(atd[k].value).type = ""
    BY <2>2, ValueTypes
  <2>4. address[k] \in Ids /\ k \in Keys
    BY <1>1, <1>5
  <2>. QED BY <2>2, <2>3, <2>4 DEF Item
<1>. HIDE DEF loaded, L
<1>8. L \in [Keys -> Item \cup {NoItem}]
  BY <1>6, <1>7
<1>9. /\ \A k \in Live : L[k] = loaded(k)
      /\ \A k \in Keys \ Live : L[k] = NoItem
  BY <1>1, <1>6
<1>10. LoadAtd = [items |-> L, heap |-> H]
  BY DEF LoadAtd, L
<1>11. H \subseteq Item /\ H \subseteq {loaded(k) : k \in Live}
  <2>1. H = {i \in {L[k] : k \in Keys} : i # NoItem /\ i.exp > 0}
    BY <1>8 DEF Range, L
  <2>. QED BY <1>8, <1>9, <2>1
<1>12. \A k \in Keys : L[k] # NoItem => L[k].key = k /\ (L[k].exp > 0 => L[k] \in H)
  <2>1. \A k \in Keys : L[k] \in Range(LoadedMap)
    BY <1>8 DEF Range, L
  <2>. QED BY <1>7, <1>9, <2>1
<1>. HIDE DEF H
<1>13. IsFiniteSet(H)
  <2>. DEFINE g == [k \in Live |-> loaded(k)]
  <2>1. {g[k] : k \in Live} = {loaded(k) : k \in Live} /\ DOMAIN g = Live
    OBVIOUS
  <2>. HIDE DEF g
  <2>2. IsFiniteSet({loaded(k) : k \in Live})
    BY <1>2, <2>1, ImageBound
  <2>. QED BY <1>11, <2>2, FS_Subset
<1>14. /\ IsFiniteSet(Addresses(LoadAtd))
       /\ Cardinality(Addresses(LoadAtd)) <= Cardinality(Keys)
  <2>. DEFINE A == {address[k] : k \in Live}
  <2>1. LoadAtd.items = L /\ LoadAtd.heap = H
    BY <1>10
  <2>0. ASSUME NEW k \in Live PROVE loaded(k).id \in A
    <3>1. loaded(k).id = address[k]
      BY <1>7
    <3>2. address[k] \in A
      OBVIOUS
    <3>. QED BY <3>1, <3>2
  <2>. HIDE DEF A
  <2>2. \A i \in H : i.id \in A
    BY <1>11, <2>0
  <2>3. \A k \in Keys : L[k] # NoItem => L[k].id \in A
    BY <1>9, <2>0
  <2>4. Addresses(LoadAtd) \in SUBSET A
    BY <2>1, <2>2, <2>3 DEF Addresses
  <2>5. IsFiniteSet(A) /\ Cardinality(A) \in Nat /\ Cardinality(A) <= Cardinality(Live)
    BY <1>2, <1>5, ImageBound DEF A
  <2>6. /\ IsFiniteSet(Addresses(LoadAtd))
        /\ Cardinality(Addresses(LoadAtd)) <= Cardinality(A)
    BY <2>4, <2>5, FS_Subset
  <2>7. Cardinality(Addresses(LoadAtd)) \in Nat
    BY <2>6, FS_CardinalityType
  <2>. QED BY <1>2, <2>5, <2>6, <2>7, Sizes
<1>15. LoadAtd \in LoadedWith(0)
  <2>1. LoadAtd \in [items : [Keys -> Item \cup {NoItem}], heap : SUBSET Item]
    BY <1>8, <1>10, <1>11
  <2>2. LoadAtd.items = L /\ LoadAtd.heap = H
    BY <1>10
  <2>3. Cardinality(Addresses(LoadAtd)) <= Cardinality(Keys) + 0
    BY <1>14, Sizes
  <2>. QED BY <1>12, <1>13, <1>14, <2>1, <2>2, <2>3 DEF LoadedWith
<1>16. ASSUME NEW k \in Live
       PROVE  L[k] \in Item /\ L[k].value.type = "" /\ L[k].exp = atd[k].exp
  BY <1>7, <1>9, ZenonT(60)
<1>. QED BY <1>9, <1>15, <1>16 DEF L

\* What holds of the loaded cache after each line.
LEMMA ReplayMaintains ==
    ASSUME NEW S, NEW s \in Seq(S), NEW base, NEW G,
           base \in G[0],
           \A n \in 1 .. Len(s) : \A x \in G[n - 1] : Replay(x, s[n]) \in G[n]
    PROVE  FoldLeft(Replay, base, s) \in G[Len(s)]
<1>1. Loads!FoldLeft(Replay, base, s) \in G[Len(s)]
  BY Loads!FoldLeftInvariant
<1>2. FoldLeft(Replay, base, s) = Loads!FoldLeft(Replay, base, s)
  BY DEF FoldLeft, Loads!FoldLeft, MapThenFoldSet, Loads!MapThenFoldSet, Max, Loads!Max
<1>. QED BY <1>1, <1>2

LEMMA RecoveredTyped ==
    ASSUME BaseInv
    PROVE  Recovered \in LoadedWith(Len(acl))
<1>. DEFINE G == [n \in Nat |-> LoadedWith(n)]
<1>0. /\ TypeOK /\ acl \in Seq(Command) /\ Len(acl) \in Nat /\ Len(acl) <= MaxLog
      /\ SnapshotTyped /\ MaxLog \in Nat
  <2>1. acl \in Seq(Command) /\ chan \in Seq(Command) /\ Len(acl) + Len(chan) <= MaxLog
    BY DEF BaseInv, CommandsTyped
  <2>2. Len(acl) \in Nat /\ Len(chan) \in Nat
    BY <2>1
  <2>. QED BY <2>1, <2>2, Sizes DEF BaseInv, StoreInv
<1>1. LoadAtd \in G[0]
  BY <1>0, LoadAtdTyped
<1>2. ASSUME NEW n \in 1 .. Len(acl), NEW c \in G[n - 1]
      PROVE  Replay(c, acl[n]) \in G[n]
  <2>1. n - 1 \in Nat /\ n - 1 < MaxLog /\ (n - 1) + 1 = n /\ n \in Nat
    BY <1>0
  <2>2. c \in LoadedWith(n - 1) /\ acl[n] \in Command
    BY <1>0, <1>2, <2>1
  <2>3. Replay(c, acl[n]) \in LoadedWith((n - 1) + 1)
    BY <1>0, <2>1, <2>2, ReplayTyped
  <2>. QED BY <2>1, <2>3
<1>. HIDE DEF G
<1>3. FoldLeft(Replay, LoadAtd, acl) \in G[Len(acl)]
  BY <1>0, <1>1, <1>2, ReplayMaintains
<1>. QED BY <1>0, <1>3 DEF G, Recovered

----------------------------------------------------------------------------
(* The operations of the store. *)

LEMMA StorePut ==
    ASSUME StoreInv, NEW k \in Keys, NEW v \in Values, NEW ttl \in TTLs, NEW id \in Ids,
           Put(k, v, ttl, id)
    PROVE  StoreInv'
<1>. DEFINE i == [id |-> id, key |-> k, value |-> v, exp |-> Expiration(ttl)]
<1>1. ttl \in -Half .. Half - 1
  BY TTLAssumption
<1>2. Expiration(ttl) \in -Half .. Half - 1 /\ (Expiration(ttl) > 0 => ttl > 0)
  BY <1>1, ExpirationRange DEF StoreInv
<1>3. i \in Item /\ i.key = k /\ i.exp = Expiration(ttl)
  BY <1>2 DEF Item
<1>4. /\ items' = [items EXCEPT ![k] = i]
      /\ heap' = IF ttl > 0 THEN heap \cup {i} ELSE heap
      /\ stale' = stale \/ (stale' = [stale EXCEPT ![k] = @ \cup {items[k].exp}] /\ Stored(k))
      /\ now' = now
  BY DEF Put
<1>. HIDE DEF i
<1>5. items'[k] = i /\ \A l \in Keys \ {k} : items'[l] = items[l]
  BY <1>4 DEF StoreInv, TypeOK
<1>6. IsFiniteSet(heap')
  <2>1. IsFiniteSet(heap \cup {i})
    BY FS_AddElement DEF StoreInv
  <2>. QED BY <1>4, <2>1 DEF StoreInv
<1>7. stale' \in [Keys -> SUBSET Int]
  <2>1. Stored(k) => items[k].exp \in Int
    BY DEF StoreInv, TypeOK, Stored, Item
  <2>. QED BY <1>4, <2>1 DEF StoreInv, TypeOK
<1>8. TypeOK'
  <2>1. now' \in 0 .. MaxNow /\ heap' \subseteq Item
    BY <1>3, <1>4 DEF StoreInv, TypeOK
  <2>2. items' \in [Keys -> Item \cup {NoItem}]
    BY <1>3, <1>4 DEF StoreInv, TypeOK
  <2>3. \A l \in Keys : items'[l] # NoItem => items'[l].key = l
    BY <1>3, <1>5 DEF StoreInv, TypeOK, Stored
  <2>. QED BY <1>7, <2>1, <2>2, <2>3 DEF TypeOK, Stored
<1>9. LoadedDeadlinesQueued'
  <2>. SUFFICES ASSUME NEW l \in Keys, items'[l] # NoItem, items'[l].exp > 0
                PROVE  items'[l] \in heap'
    BY DEF LoadedDeadlinesQueued, Stored
  <2>1. CASE l = k
    BY <1>2, <1>3, <1>4, <1>5, <2>1
  <2>2. CASE l # k
    BY <1>4, <1>5, <2>2 DEF StoreInv, LoadedDeadlinesQueued, Stored
  <2>. QED BY <2>1, <2>2
<1>. QED BY <1>6, <1>8, <1>9 DEF StoreInv

LEMMA StoreDelete ==
    ASSUME StoreInv, NEW k \in Keys, Delete(k)
    PROVE  StoreInv'
<1>1. /\ items' = [items EXCEPT ![k] = NoItem] /\ Stored(k)
      /\ heap' = heap \/ heap' = heap \ {items[k]}
      /\ stale' = stale \/ stale' = [stale EXCEPT ![k] = @ \cup {items[k].exp}]
      /\ now' = now
  BY DEF Delete
<1>2. items'[k] = NoItem /\ \A l \in Keys \ {k} : items'[l] = items[l]
  BY <1>1 DEF StoreInv, TypeOK
<1>3. IsFiniteSet(heap')
  <2>1. heap' \in SUBSET heap
    BY <1>1
  <2>. QED BY <2>1, FS_Subset DEF StoreInv
<1>4. TypeOK'
  <2>1. items[k].exp \in Int
    BY <1>1 DEF StoreInv, TypeOK, Stored, Item
  <2>2. stale' \in [Keys -> SUBSET Int]
    BY <1>1, <2>1 DEF StoreInv, TypeOK
  <2>3. now' \in 0 .. MaxNow /\ heap' \subseteq Item /\ items' \in [Keys -> Item \cup {NoItem}]
    BY <1>1 DEF StoreInv, TypeOK
  <2>4. \A l \in Keys : items'[l] # NoItem => items'[l].key = l
    BY <1>2 DEF StoreInv, TypeOK, Stored
  <2>. QED BY <2>2, <2>3, <2>4 DEF TypeOK, Stored
<1>5. LoadedDeadlinesQueued'
  <2>. SUFFICES ASSUME NEW l \in Keys, items'[l] # NoItem, items'[l].exp > 0
                PROVE  items'[l] \in heap'
    BY DEF LoadedDeadlinesQueued, Stored
  <2>1. l # k /\ items'[l] = items[l]
    BY <1>2
  <2>2. items[l] # items[k]
    BY <1>1, <2>1 DEF StoreInv, TypeOK, Stored
  <2>. QED BY <1>1, <2>1, <2>2 DEF StoreInv, LoadedDeadlinesQueued, Stored
<1>. QED BY <1>3, <1>4, <1>5 DEF StoreInv

LEMMA StoreCleanup ==
    ASSUME StoreInv, Cleanup
    PROVE  StoreInv'
<1>. DEFINE gone == {k \in Keys : \E i \in Due : i.key = k}
<1>1. /\ heap' = heap \ Due /\ now' = now
      /\ items' = [k \in Keys |-> IF k \in gone THEN NoItem ELSE items[k]]
      /\ stale' = [k \in Keys |->
                       {d \in stale[k] : d > now}
                       \cup {items[l].exp : l \in
                               {m \in {k} \cap gone : Stored(m) /\ items[m].exp > now}}]
  BY DEF Cleanup
<1>2. IsFiniteSet(heap')
  <2>1. heap' \in SUBSET heap
    BY <1>1
  <2>. QED BY <2>1, FS_Subset DEF StoreInv
<1>3. TypeOK'
  <2>1. \A l \in Keys : Stored(l) => items[l].exp \in Int /\ items[l].key = l
    BY DEF StoreInv, TypeOK, Stored, Item
  <2>2. stale' \in [Keys -> SUBSET Int]
    BY <1>1, <2>1 DEF StoreInv, TypeOK
  <2>. HIDE DEF gone
  <2>3. now' \in 0 .. MaxNow /\ heap' \subseteq Item /\ items' \in [Keys -> Item \cup {NoItem}]
    BY <1>1 DEF StoreInv, TypeOK
  <2>4. \A l \in Keys : items'[l] # NoItem => items'[l].key = l
    BY <1>1, <2>1 DEF Stored
  <2>. QED BY <2>2, <2>3, <2>4 DEF TypeOK, Stored
<1>4. LoadedDeadlinesQueued'
  <2>. SUFFICES ASSUME NEW l \in Keys, items'[l] # NoItem, items'[l].exp > 0
                PROVE  items'[l] \in heap'
    BY DEF LoadedDeadlinesQueued, Stored
  <2>1. l \notin gone /\ items'[l] = items[l]
    BY <1>1
  <2>2. items[l].key = l /\ items[l] \in heap
    BY <2>1 DEF StoreInv, TypeOK, LoadedDeadlinesQueued, Stored
  <2>3. items[l] \notin Due
    BY <2>1, <2>2
  <2>. QED BY <1>1, <2>1, <2>2, <2>3
<1>. QED BY <1>2, <1>3, <1>4 DEF StoreInv

LEMMA StoreEmptied ==
    ASSUME StoreInv, items' = [k \in Keys |-> NoItem], heap' = {},
           stale' = [k \in Keys |-> {}], now' = now
    PROVE  StoreInv'
<1>1. TypeOK'
  BY DEF StoreInv, TypeOK, Stored
<1>2. IsFiniteSet(heap')
  BY FS_EmptySet
<1>3. LoadedDeadlinesQueued'
  BY DEF LoadedDeadlinesQueued, Stored
<1>. QED BY <1>1, <1>2, <1>3 DEF StoreInv

LEMMA StoreTick ==
    ASSUME StoreInv, Tick
    PROVE  StoreInv'
BY ClockAssumption DEF StoreInv, TypeOK, Tick, Stored, LoadedDeadlinesQueued

\* What a start loads.
LEMMA StoreLoaded ==
    ASSUME StoreInv, NEW n, NEW c \in LoadedWith(n), items' = c.items, heap' = c.heap,
           stale' = [k \in Keys |-> {i.exp : i \in {j \in c.heap : j.key = k /\ c.items[k] # j}}],
           now' = now
    PROVE  StoreInv'
<1>1. /\ c.items \in [Keys -> Item \cup {NoItem}] /\ c.heap \subseteq Item
      /\ IsFiniteSet(c.heap)
      /\ \A k \in Keys : c.items[k] # NoItem =>
             c.items[k].key = k /\ (c.items[k].exp > 0 => c.items[k] \in c.heap)
  BY DEF LoadedWith
<1>2. \A i \in c.heap : i.exp \in Int
  BY <1>1 DEF Item
<1>3. stale' \in [Keys -> SUBSET Int]
  BY <1>2
<1>4. TypeOK'
  BY <1>1, <1>3 DEF StoreInv, TypeOK, Stored
<1>5. LoadedDeadlinesQueued'
  BY <1>1 DEF LoadedDeadlinesQueued, Stored
<1>. QED BY <1>1, <1>4, <1>5 DEF StoreInv

----------------------------------------------------------------------------
(* The types and the deadlines. *)

LEMMA CommandFacts ==
    ASSUME NEW k \in Keys, NEW v \in ClientValues, NEW ttl \in TTLs
    PROVE  Cmd("SET", k, v, ttl) \in Command /\ Cmd("SETNX", k, v, ttl) \in Command
<1>1. v \in Values
  BY ValueTypes
<1>2. ttl \in Int
  BY TTLAssumption
<1>. QED BY <1>1, <1>2 DEF Cmd, Command

LEMMA DelCommand ==
    ASSUME NEW k \in Keys
    PROVE  Cmd("DEL", k, NoItem, 0) \in Command
BY DEF Cmd, Command

LEMMA LogTyped ==
    ASSUME BaseInv, Len(acl) + Len(chan) < MaxLog, NEW cmd \in Command, LogCommand(cmd),
           UNCHANGED acl
    PROVE  /\ CommandsTyped' /\ lost' \subseteq Keys
           /\ Len(acl') + Len(chan') <= MaxLog
<1>1. acl \in Seq(Command) /\ chan \in Seq(Command) /\ lost \subseteq Keys /\ MaxLog \in Nat
  BY Sizes DEF BaseInv, CommandsTyped, FlagsTyped
<1>2. Len(acl) \in Nat /\ Len(chan) \in Nat /\ cmd.key \in Keys
  BY <1>1 DEF Command
<1>3. CASE chan' = Append(chan, cmd) /\ UNCHANGED lost
  BY <1>1, <1>2, <1>3 DEF CommandsTyped
<1>4. CASE lost' = lost \cup {cmd.key} /\ UNCHANGED chan
  BY <1>1, <1>2, <1>4 DEF CommandsTyped, BaseInv
<1>. QED BY <1>3, <1>4 DEF LogCommand

\* A client's command.
LEMMA BaseClient ==
    ASSUME BaseInv,
           \/ \E k \in Keys, v \in ClientValues, ttl \in TTLs : LoggedSet(k, v, ttl)
           \/ \E k \in Keys, v \in ClientValues, ttl \in TTLs : LoggedSetNX(k, v, ttl)
           \/ \E k \in Keys : LoggedDelete(k)
    PROVE  BaseInv'
<1>1. Room /\ UNCHANGED <<stopping, acl, atd, cut>>
  BY DEF LoggedSet, LoggedSetNX, LoggedDelete
<1>2. PICK cmd \in Command : LogCommand(cmd)
  BY CommandFacts, DelCommand DEF LoggedSet, LoggedSetNX, LoggedDelete
<1>3. CommandsTyped' /\ lost' \subseteq Keys /\ Len(acl') + Len(chan') <= MaxLog
  BY <1>1, <1>2, LogTyped DEF Room
<1>4. odd' \subseteq Keys
  BY DEF BaseInv, FlagsTyped, LoggedSet, LoggedSetNX, LoggedDelete, MarkOdd
<1>5. StoreInv'
  <2>1. FreshId \in Ids
    BY <1>1, FreshIdFound DEF BaseInv, StoreInv, Room
  <2>2. ASSUME NEW k \in Keys, NEW v \in ClientValues, NEW ttl \in TTLs,
               LoggedSet(k, v, ttl) \/ LoggedSetNX(k, v, ttl)
        PROVE  StoreInv'
    <3>1. v \in Values /\ Put(k, v, ttl, FreshId)
      BY <2>2, ValueTypes DEF LoggedSet, LoggedSetNX, Set, SetNX
    <3>. QED BY <2>1, <3>1, StorePut DEF BaseInv
  <2>3. ASSUME NEW k \in Keys, LoggedDelete(k)
        PROVE  StoreInv'
    BY <2>3, StoreDelete DEF LoggedDelete, BaseInv
  <2>. QED BY <2>2, <2>3
<1>6. up' /\ UNCHANGED <<up, phase, proc, atd, cut>>
  BY <1>1 DEF Room, stopping
<1>7. FlagsTyped' /\ SnapshotTyped' /\ DownIsClean'
  BY <1>3, <1>4, <1>6 DEF BaseInv, FlagsTyped, SnapshotTyped, DownIsClean
<1>. QED BY <1>3, <1>5, <1>7 DEF BaseInv

LEMMA SnapshotIsTyped ==
    ASSUME TypeOK, NEW k \in Keys
    PROVE  /\ Snapshot[k] \in Entry \cup {NoItem}
           /\ Visible(k) => /\ Snapshot[k] # NoItem
                            /\ Snapshot[k].value = items[k].value
                            /\ Snapshot[k].exp = items[k].exp
           /\ ~Visible(k) => Snapshot[k] = NoItem
<1>1. CASE Visible(k)
  <2>1. items[k] \in Item
    BY <1>1 DEF Visible, Stored, TypeOK
  <2>2. Snapshot[k] = [value |-> items[k].value, exp |-> items[k].exp]
    BY <1>1 DEF Snapshot
  <2>3. Snapshot[k] \in Entry
    BY <2>1, <2>2 DEF Entry, Item
  <2>4. NoItem \notin Entry
    BY NoEntryAssumption DEF Entry
  <2>. QED BY <1>1, <2>2, <2>3, <2>4
<1>2. CASE ~Visible(k)
  BY <1>2 DEF Snapshot
<1>. QED BY <1>1, <1>2

LEMMA BaseSave ==
    ASSUME BaseInv, SaveAtd \/ SaveAtdCutOff \/ LastSave
    PROVE  BaseInv'
<1>1. UNCHANGED <<items, heap, now, stale, chan, acl, lost, odd, up, proc>> /\ up
  BY DEF SaveAtd, SaveAtdCutOff, LastSave, vars, stopping
<1>2. phase' \in {"run", "wait", "closed", "saved"} /\ cut' \in BOOLEAN
  BY DEF SaveAtd, SaveAtdCutOff, LastSave, stopping, BaseInv, FlagsTyped
<1>3. \A k \in Keys : atd'[k] \in {Snapshot[k], NoItem}
  BY DEF SaveAtd, SaveAtdCutOff, LastSave, Snapshot
<1>4. SnapshotTyped'
  BY <1>3, SnapshotIsTyped DEF BaseInv, StoreInv, SnapshotTyped
<1>5. StoreInv'
  BY <1>1 DEF BaseInv, StoreInv, TypeOK, Stored, LoadedDeadlinesQueued
<1>6. FlagsTyped' /\ DownIsClean' /\ CommandsTyped' /\ Len(acl') + Len(chan') <= MaxLog
  BY <1>1, <1>2 DEF BaseInv, FlagsTyped, DownIsClean, CommandsTyped
<1>. QED BY <1>4, <1>5, <1>6 DEF BaseInv

LEMMA BaseStoreOnly ==
    ASSUME BaseInv, StoreInv', odd' \subseteq Keys,
           UNCHANGED <<stopping, chan, acl, atd, lost, cut>>
    PROVE  BaseInv'
BY DEF BaseInv, FlagsTyped, CommandsTyped, SnapshotTyped, DownIsClean, stopping

LEMMA BaseWrite ==
    ASSUME BaseInv, WriteCommand
    PROVE  BaseInv'
<1>1. /\ acl' = Append(acl, Head(chan)) /\ chan' = Tail(chan) /\ chan # <<>>
      /\ UNCHANGED <<items, heap, now, stale, up, phase, proc, atd, lost, odd, cut>> /\ up
  BY DEF WriteCommand, vars, stopping
<1>2. acl \in Seq(Command) /\ chan \in Seq(Command) /\ MaxLog \in Nat
  BY Sizes DEF BaseInv, CommandsTyped
<1>3. CommandsTyped' /\ Len(acl') = Len(acl) + 1 /\ Len(chan') = Len(chan) - 1
  BY <1>1, <1>2 DEF CommandsTyped
<1>4. Len(acl') + Len(chan') <= MaxLog
  BY <1>2, <1>3 DEF BaseInv
<1>5. StoreInv'
  BY <1>1 DEF BaseInv, StoreInv, TypeOK, Stored, LoadedDeadlinesQueued
<1>6. FlagsTyped' /\ SnapshotTyped' /\ DownIsClean'
  BY <1>1 DEF BaseInv, FlagsTyped, SnapshotTyped, DownIsClean
<1>. QED BY <1>3, <1>4, <1>5, <1>6 DEF BaseInv

LEMMA BaseDown ==
    ASSUME BaseInv, Down
    PROVE  BaseInv'
<1>1. /\ up' = FALSE /\ phase' = "run" /\ proc' = TRUE /\ chan' = <<>>
      /\ lost' = lost \cup {chan[i].key : i \in 1 .. Len(chan)}
      /\ items' = [k \in Keys |-> NoItem] /\ heap' = {} /\ stale' = [k \in Keys |-> {}]
      /\ UNCHANGED <<now, acl, atd, odd, cut>>
  BY DEF Down, EmptyCache
<1>2. acl \in Seq(Command) /\ chan \in Seq(Command) /\ Len(acl) + Len(chan) <= MaxLog
  BY DEF BaseInv, CommandsTyped
<1>3. \A i \in 1 .. Len(chan) : chan[i].key \in Keys
  BY <1>2 DEF Command
<1>4. StoreInv'
  BY <1>1, StoreEmptied DEF BaseInv
<1>5. FlagsTyped'
  BY <1>1, <1>3 DEF BaseInv, FlagsTyped
<1>6. Len(chan') = 0 /\ Len(chan) \in Nat /\ Len(acl) \in Nat /\ MaxLog \in Nat
  BY <1>1, <1>2, Sizes
<1>7. CommandsTyped' /\ Len(acl') + Len(chan') <= MaxLog
  BY <1>1, <1>2, <1>6 DEF CommandsTyped
<1>8. SnapshotTyped' /\ DownIsClean'
  BY <1>1 DEF BaseInv, SnapshotTyped, DownIsClean
<1>. QED BY <1>4, <1>5, <1>7, <1>8 DEF BaseInv

LEMMA BaseStopping ==
    ASSUME BaseInv, Stop \/ LeaveCommands \/ CloseCommands
    PROVE  BaseInv'
<1>1. up /\ UNCHANGED <<items, heap, now, stale, up, chan, acl, atd, lost, odd, cut>>
  BY DEF Stop, LeaveCommands, CloseCommands, vars
<1>2. phase' \in {"run", "wait", "closed", "saved"} /\ proc' \in BOOLEAN
  BY DEF Stop, LeaveCommands, CloseCommands, BaseInv, FlagsTyped
<1>3. StoreInv'
  BY <1>1 DEF BaseInv, StoreInv, TypeOK, Stored, LoadedDeadlinesQueued
<1>. QED BY <1>1, <1>2, <1>3 DEF BaseInv, FlagsTyped, CommandsTyped, SnapshotTyped, DownIsClean

LEMMA BaseRestart ==
    ASSUME BaseInv, Restart
    PROVE  BaseInv'
<1>1. /\ up' = TRUE
      /\ items' = Recovered.items /\ heap' = Recovered.heap
      /\ stale' = [k \in Keys |-> {i.exp : i \in {j \in Recovered.heap :
                                      j.key = k /\ Recovered.items[k] # j}}]
      /\ UNCHANGED <<now, phase, proc, chan, acl, atd, lost, odd, cut>>
  BY DEF Restart
<1>2. PICK c \in LoadedWith(Len(acl)) : c = Recovered
  BY RecoveredTyped
<1>3. StoreInv'
  BY <1>1, <1>2, StoreLoaded DEF BaseInv
<1>. QED BY <1>1, <1>3 DEF BaseInv, FlagsTyped, CommandsTyped, SnapshotTyped, DownIsClean

LEMMA BaseInit == RInit => BaseInv
<1>. SUFFICES ASSUME RInit PROVE BaseInv
  OBVIOUS
<1>1. StoreInv
  BY ClockAssumption, FS_EmptySet
     DEF RInit, Init, StoreInv, TypeOK, Stored, LoadedDeadlinesQueued
<1>2. CommandsTyped /\ Len(acl) + Len(chan) <= MaxLog
  BY Sizes DEF RInit, CommandsTyped
<1>3. FlagsTyped /\ SnapshotTyped /\ DownIsClean
  BY DEF RInit, FlagsTyped, SnapshotTyped, DownIsClean
<1>. QED BY <1>1, <1>2, <1>3 DEF BaseInv

LEMMA BaseNext == BaseInv /\ [RNext]_allvars => BaseInv'
<1>. SUFFICES ASSUME BaseInv, [RNext]_allvars PROVE BaseInv'
  OBVIOUS
<1>0. StoreInv /\ odd \subseteq Keys
  BY DEF BaseInv, FlagsTyped
<1>1. ASSUME \/ \E k \in Keys, v \in ClientValues, ttl \in TTLs : LoggedSet(k, v, ttl)
             \/ \E k \in Keys, v \in ClientValues, ttl \in TTLs : LoggedSetNX(k, v, ttl)
             \/ \E k \in Keys : LoggedDelete(k)
      PROVE  BaseInv'
  BY <1>1, BaseClient
<1>2. CASE UnloggedCleanup
  BY <1>0, <1>2, StoreCleanup, BaseStoreOnly DEF UnloggedCleanup, pvars
<1>3. CASE UnloggedFlushAll
  BY <1>0, <1>3, StoreEmptied, BaseStoreOnly DEF UnloggedFlushAll, FlushAll
<1>4. CASE PassTime
  BY <1>0, <1>4, StoreTick, BaseStoreOnly DEF PassTime, pvars
<1>5. CASE WriteCommand
  BY <1>5, BaseWrite
<1>6. CASE SaveAtd \/ SaveAtdCutOff \/ LastSave
  BY <1>6, BaseSave
<1>7. CASE Crash \/ Exit \/ Panic
  BY <1>7, BaseDown DEF Crash, Exit, Panic
<1>8. CASE Stop \/ LeaveCommands \/ CloseCommands
  BY <1>8, BaseStopping
<1>9. CASE Restart
  BY <1>9, BaseRestart
<1>10. CASE UNCHANGED allvars
  <2>1. StoreInv'
    BY <1>0, <1>10 DEF allvars, vars, StoreInv, TypeOK, Stored, LoadedDeadlinesQueued
  <2>. QED BY <1>0, <1>10, <2>1, BaseStoreOnly DEF allvars, pvars
<1>. QED BY <1>1, <1>2, <1>3, <1>4, <1>5, <1>6, <1>7, <1>8, <1>9, <1>10 DEF RNext

\* In every state the properties may use the types and the bounds.
THEOREM BaseAlways == RSpec => []BaseInv
<1>1. RInit => BaseInv
  BY BaseInit
<1>2. BaseInv /\ [RNext]_allvars => BaseInv'
  BY BaseNext
<1>. QED BY <1>1, <1>2, PTL DEF RSpec

\* The type invariant of the run.  What is not in BaseInv itself follows from the
\* sequences' and the snapshot's more exact types.
THEOREM RecoveryTypeCorrect == RSpec => []RTypeOK
<1>1. BaseInv => RTypeOK
  <2>. SUFFICES ASSUME BaseInv PROVE RTypeOK
    OBVIOUS
  <2>. DEFINE C == [type : {"SET", "SETNX", "DEL"}, key : Keys, value : Values \cup {NoItem}, ttl : Int]
  <2>1. Command \subseteq C
    BY DEF Command
  <2>2. chan \in Seq(C) /\ acl \in Seq(C)
    <3>1. chan \in Seq(Command) /\ acl \in Seq(Command)
      BY DEF BaseInv, CommandsTyped
    <3>. HIDE DEF C
    <3>. QED BY <2>1, <3>1
  <2>3. \A k \in Keys : atd[k] # NoItem => atd[k].value \in Values /\ atd[k].exp \in Int
    BY ClockAssumption DEF BaseInv, SnapshotTyped, Entry
  <2>. QED BY <2>2, <2>3 DEF BaseInv, StoreInv, FlagsTyped, RTypeOK
<1>. QED BY <1>1, BaseAlways, PTL

\* Across crashes and starts every deadline is in the heap: what LoadAtd and LoadAcl
\* restored can expire.
THEOREM LoadedDeadlinesAlwaysQueued == RSpec => []LoadedDeadlinesQueued
<1>1. BaseInv => LoadedDeadlinesQueued
  BY DEF BaseInv, StoreInv
<1>. QED BY <1>1, BaseAlways, PTL

----------------------------------------------------------------------------
(* The last snapshot. *)

\* What readers see in the next state they saw before, unless something was put.
LEMMA VisibleBefore ==
    ASSUME StoreInv, NEW k \in Keys, Visible(k)', items'[k] \in {items[k], NoItem},
           now' = now \/ now' = now + 1
    PROVE  Visible(k) /\ items'[k] = items[k]
<1>1. items'[k] = items[k] /\ items[k] # NoItem
  BY DEF Visible, Stored
<1>2. now \in Int /\ items[k].exp \in Int
  BY <1>1 DEF StoreInv, TypeOK, Item
<1>3. ~(items[k].exp > 0 /\ now' > items[k].exp)
  BY <1>1 DEF Visible, Expired
<1>4. ~(items[k].exp > 0 /\ now > items[k].exp)
  BY <1>2, <1>3
<1>. QED BY <1>1, <1>4 DEF Visible, Stored, Expired

\* Steps that put nothing and leave the snapshot as it is.
Removing == /\ \A k \in Keys : items'[k] \in {items[k], NoItem}
            /\ now' = now \/ now' = now + 1

LEMMA RemovingSteps ==
    ASSUME BaseInv,
           \/ UnloggedCleanup \/ UnloggedFlushAll \/ PassTime \/ WriteCommand
           \/ LeaveCommands \/ SaveAtd \/ SaveAtdCutOff \/ LastSave \/ Stop \/ CloseCommands
           \/ UNCHANGED allvars
    PROVE  Removing
<1>1. ASSUME UNCHANGED <<items, now>> PROVE Removing
  BY <1>1 DEF Removing
<1>2. CASE UnloggedCleanup
  BY <1>2 DEF UnloggedCleanup, Cleanup, Removing
<1>3. CASE UnloggedFlushAll
  BY <1>3 DEF UnloggedFlushAll, FlushAll, Removing
<1>4. CASE PassTime
  BY <1>4 DEF PassTime, Tick, Removing
<1>5. CASE \/ WriteCommand \/ LeaveCommands \/ SaveAtd \/ SaveAtdCutOff \/ LastSave
           \/ Stop \/ CloseCommands \/ UNCHANGED allvars
  BY <1>1, <1>5 DEF WriteCommand, LeaveCommands, SaveAtd, SaveAtdCutOff, LastSave, Stop,
     CloseCommands, allvars, vars
<1>. QED BY <1>2, <1>3, <1>4, <1>5

LEMMA SaveNext ==
    ASSUME SaveInv, [RNext]_allvars
    PROVE  LastSaveComplete'
<1>. SUFFICES ASSUME up', phase' = "saved", ~cut', NEW k \in Keys, Visible(k)'
              PROVE  /\ atd'[k] # NoItem
                     /\ atd'[k].value = items'[k].value /\ atd'[k].exp = items'[k].exp
  BY DEF LastSaveComplete
<1>0. BaseInv /\ StoreInv /\ LastSaveComplete
  BY DEF SaveInv, BaseInv
<1>1. CASE SaveAtd \/ LastSave
  <2>1. Removing /\ atd' = Snapshot
    BY <1>0, <1>1, RemovingSteps DEF SaveAtd, LastSave
  <2>2. Visible(k) /\ items'[k] = items[k]
    BY <1>0, <2>1, VisibleBefore DEF Removing
  <2>. QED BY <1>0, <2>1, <2>2, SnapshotIsTyped DEF StoreInv
<1>2. ASSUME \/ UnloggedCleanup \/ UnloggedFlushAll \/ PassTime \/ WriteCommand
             \/ LeaveCommands \/ UNCHANGED allvars
      PROVE  /\ atd'[k] # NoItem
             /\ atd'[k].value = items'[k].value /\ atd'[k].exp = items'[k].exp
  <2>1. Removing /\ UNCHANGED <<up, phase, atd, cut>>
    <3>1. Removing
      BY <1>0, <1>2, RemovingSteps
    <3>. QED BY <1>2, <3>1 DEF UnloggedCleanup, UnloggedFlushAll, PassTime, WriteCommand,
         LeaveCommands, stopping, pvars, allvars
  <2>2. Visible(k) /\ items'[k] = items[k]
    BY <1>0, <2>1, VisibleBefore DEF Removing
  <2>. QED BY <1>0, <2>1, <2>2 DEF LastSaveComplete
<1>3. ASSUME \/ \E l \in Keys, v \in ClientValues, ttl \in TTLs : LoggedSet(l, v, ttl)
             \/ \E l \in Keys, v \in ClientValues, ttl \in TTLs : LoggedSetNX(l, v, ttl)
             \/ \E l \in Keys : LoggedDelete(l)
      PROVE  FALSE
  <2>1. Room /\ UNCHANGED stopping
    BY <1>3 DEF LoggedSet, LoggedSetNX, LoggedDelete
  <2>. QED BY <2>1 DEF Room, stopping
<1>4. ~SaveAtdCutOff /\ ~Crash /\ ~Exit /\ ~Panic /\ ~Stop /\ ~CloseCommands
  BY DEF SaveAtdCutOff, Crash, Exit, Panic, Down, Stop, CloseCommands
<1>5. ~Restart
  BY <1>0 DEF Restart, BaseInv, DownIsClean
<1>. QED BY <1>1, <1>2, <1>3, <1>4, <1>5 DEF RNext

\* When Stop returns, the snapshot that it saved, or one saved after it, has every value
\* that clients can read.
THEOREM LastSaveAlwaysComplete == RSpec => []LastSaveComplete
<1>1. RInit => SaveInv
  BY BaseInit DEF RInit, SaveInv, LastSaveComplete
<1>2. SaveInv /\ [RNext]_allvars => SaveInv'
  BY BaseNext, SaveNext DEF SaveInv
<1>3. SaveInv => LastSaveComplete
  BY DEF SaveInv
<1>. QED BY <1>1, <1>2, <1>3, PTL DEF RSpec

----------------------------------------------------------------------------
(* The log, and what the steps do to it. *)

LEMMA LogTypes ==
    ASSUME BaseInv
    PROVE  acl \in Seq(Command) /\ chan \in Seq(Command) /\ Log \in Seq(Command)
BY DEF BaseInv, CommandsTyped, Log

LEMMA LogGrows ==
    ASSUME BaseInv, NEW cmd \in Command, LogCommand(cmd), UNCHANGED acl
    PROVE  \/ Log' = Append(Log, cmd) /\ lost' = lost
           \/ Log' = Log /\ lost' = lost \cup {cmd.key}
<1>1. CASE chan' = Append(chan, cmd) /\ UNCHANGED lost
  BY <1>1, LogTypes DEF Log
<1>2. CASE lost' = lost \cup {cmd.key} /\ UNCHANGED chan
  BY <1>2 DEF Log
<1>. QED BY <1>1, <1>2 DEF LogCommand

LEMMA LogMoves ==
    ASSUME BaseInv, WriteCommand
    PROVE  Log' = Log
<1>1. chan # <<>> /\ acl' = Append(acl, Head(chan)) /\ chan' = Tail(chan)
  BY DEF WriteCommand
<1>. QED BY <1>1, LogTypes DEF Log

\* A process that ends leaves the log, of keys that lost nothing the whole log.
LEMMA LogLeft ==
    ASSUME BaseInv, Down
    PROVE  /\ Log' = acl /\ lost \subseteq lost'
           /\ \A k \in Keys \ lost' : Unmentioned(chan, k)
<1>1. /\ chan' = <<>> /\ acl' = acl
      /\ lost' = lost \cup {chan[i].key : i \in 1 .. Len(chan)}
  BY DEF Down
<1>2. Log' = acl
  BY <1>1, LogTypes DEF Log
<1>. QED BY <1>1, <1>2 DEF Unmentioned

LEMMA LogSame ==
    ASSUME UNCHANGED <<acl, chan>>
    PROVE  Log' = Log
BY DEF Log

\* A key whose commands are all written.
LEMMA LogParts ==
    ASSUME BaseInv
    PROVE  /\ Len(Log) = Len(acl) + Len(chan) /\ Len(acl) \in Nat /\ Len(chan) \in Nat
           /\ \A n \in 1 .. Len(acl) : Log[n] = acl[n]
           /\ \A n \in 1 .. Len(Log) : n > Len(acl) => /\ n - Len(acl) \in 1 .. Len(chan)
                                                       /\ Log[n] = chan[n - Len(acl)]
BY LogTypes DEF Log

----------------------------------------------------------------------------
(* Presence after a replay. *)

LEMMA RetypeFold ==
    ASSUME NEW base, NEW s
    PROVE  FoldLeft(Retype, base, s) = Types!FoldLeft(Retype, base, s)
BY DEF FoldLeft, Types!FoldLeft, MapThenFoldSet, Types!MapThenFoldSet, Max, Types!Max

LEMMA RetypeTyped ==
    ASSUME NEW t \in TypeMaps, NEW cmd \in Command
    PROVE  /\ Retype(t, cmd) \in TypeMaps
           /\ \A k \in Keys \ {cmd.key} : Retype(t, cmd)[k] = t[k]
           /\ Retype(t, cmd)[cmd.key] =
                 IF cmd.type = "SET" \/ (cmd.type = "SETNX" /\ t[cmd.key] = Absent)
                 THEN cmd.value.type
                 ELSE IF cmd.type = "DEL" /\ t[cmd.key] = "string" THEN Absent ELSE t[cmd.key]
<1>1. cmd.key \in Keys /\ (cmd.type # "DEL" => cmd.value.type \in DataTypes)
  BY ValueTypes DEF Command
<1>2. t \in [Keys -> DataTypes \cup {"", Absent}]
  BY DEF TypeMaps
<1>3. CASE cmd.type = "SET" \/ (cmd.type = "SETNX" /\ t[cmd.key] = Absent)
  <2>1. Retype(t, cmd) = [t EXCEPT ![cmd.key] = cmd.value.type] /\ cmd.type # "DEL"
    BY <1>3 DEF Retype
  <2>. QED BY <1>1, <1>2, <1>3, <2>1 DEF TypeMaps
<1>4. CASE ~(cmd.type = "SET" \/ (cmd.type = "SETNX" /\ t[cmd.key] = Absent))
  <2>1. Retype(t, cmd) = IF cmd.type = "DEL" /\ t[cmd.key] = "string"
                         THEN [t EXCEPT ![cmd.key] = Absent] ELSE t
    BY <1>4 DEF Retype
  <2>. QED BY <1>1, <1>2, <1>4, <2>1 DEF TypeMaps
<1>. QED BY <1>3, <1>4

LEMMA AllTyped ==
    ASSUME NEW x \in {"", Absent}
    PROVE  All(x) \in TypeMaps
BY DEF All, TypeMaps

\* The types on the way through a sequence of commands.
TypeSteps(v, base, s) ==
    /\ v[0] = base /\ v[Len(s)] = FoldLeft(Retype, base, s)
    /\ \A n \in 1 .. Len(s) : v[n] = Retype(v[n - 1], s[n])

LEMMA TypesStep ==
    ASSUME NEW s \in Seq(Command), NEW base
    PROVE  \E v : TypeSteps(v, base, s)
<1>1. PICK v : Types!FoldSteps(v, base, s) /\ Types!FoldLeft(Retype, base, s) = v[Len(s)]
  BY Types!FoldLeftSteps
<1>. QED BY <1>1, RetypeFold DEF Types!FoldSteps, TypeSteps

LEMMA TypesMaintain ==
    ASSUME NEW s \in Seq(Command), NEW base, NEW G,
           base \in G[0],
           \A n \in 1 .. Len(s) : \A x \in G[n - 1] : Retype(x, s[n]) \in G[n]
    PROVE  FoldLeft(Retype, base, s) \in G[Len(s)]
<1>1. Types!FoldLeft(Retype, base, s) \in G[Len(s)]
  BY Types!FoldLeftInvariant
<1>. QED BY <1>1, RetypeFold

LEMMA TypesAppend ==
    ASSUME NEW s \in Seq(Command), NEW cmd \in Command, NEW base
    PROVE  FoldLeft(Retype, base, Append(s, cmd)) = Retype(FoldLeft(Retype, base, s), cmd)
<1>1. Types!FoldLeft(Retype, base, Append(s, cmd)) = Retype(Types!FoldLeft(Retype, base, s), cmd)
  BY Types!FoldLeftAppend
<1>. QED BY <1>1, RetypeFold

LEMMA TypesTyped ==
    ASSUME NEW s \in Seq(Command), NEW base \in TypeMaps
    PROVE  FoldLeft(Retype, base, s) \in TypeMaps
<1>. DEFINE G == [n \in Nat |-> TypeMaps]
<1>1. base \in G[0] /\ Len(s) \in Nat
  OBVIOUS
<1>2. ASSUME NEW n \in 1 .. Len(s), NEW x \in G[n - 1] PROVE Retype(x, s[n]) \in G[n]
  <2>1. n \in Nat /\ n - 1 \in Nat /\ s[n] \in Command
    BY <1>1
  <2>. QED BY <1>2, <2>1, RetypeTyped
<1>. HIDE DEF G
<1>3. FoldLeft(Retype, base, s) \in G[Len(s)]
  BY <1>1, <1>2, TypesMaintain
<1>. QED BY <1>1, <1>3 DEF G

\* Commands about other keys do not matter.
LEMMA TypesIgnore ==
    ASSUME BaseInv, NEW k \in Keys, Unmentioned(chan, k), NEW base \in TypeMaps
    PROVE  FoldLeft(Retype, base, Log)[k] = FoldLeft(Retype, base, acl)[k]
<1>1. PICK v : TypeSteps(v, base, acl)
  BY LogTypes, TypesStep
<1>. DEFINE G == [n \in Nat |-> {t \in TypeMaps : IF n <= Len(acl) THEN t = v[n]
                                                  ELSE t[k] = v[Len(acl)][k]}]
<1>2. Log \in Seq(Command) /\ acl \in Seq(Command) /\ Len(Log) \in Nat /\ Len(acl) \in Nat
      /\ Len(acl) <= Len(Log)
  BY LogTypes, LogParts
<1>3. base \in G[0]
  BY <1>1, <1>2 DEF TypeSteps
<1>4. ASSUME NEW n \in 1 .. Len(Log), NEW t \in G[n - 1] PROVE Retype(t, Log[n]) \in G[n]
  <2>1. n \in Nat /\ n - 1 \in Nat /\ Log[n] \in Command /\ t \in TypeMaps
    BY <1>2, <1>4
  <2>2. Retype(t, Log[n]) \in TypeMaps
    BY <2>1, RetypeTyped
  <2>3. CASE n <= Len(acl)
    <3>1. n \in 1 .. Len(acl) /\ n - 1 <= Len(acl) /\ Log[n] = acl[n]
      BY <1>2, <2>1, <2>3, LogParts
    <3>2. t = v[n - 1] /\ v[n] = Retype(v[n - 1], acl[n])
      BY <1>1, <1>4, <2>1, <3>1 DEF TypeSteps
    <3>. QED BY <2>1, <2>2, <2>3, <3>1, <3>2
  <2>4. CASE ~(n <= Len(acl))
    <3>1. n - Len(acl) \in 1 .. Len(chan) /\ Log[n] = chan[n - Len(acl)]
      BY <1>2, <2>1, <2>4, LogParts
    <3>2. Log[n].key # k
      BY <3>1 DEF Unmentioned
    <3>3. Retype(t, Log[n])[k] = t[k]
      BY <2>1, <3>2, RetypeTyped
    <3>4. t[k] = v[Len(acl)][k]
      <4>1. CASE n - 1 <= Len(acl)
        <5>1. n - 1 = Len(acl)
          BY <1>2, <2>1, <2>4, <4>1
        <5>. QED BY <1>4, <2>1, <4>1, <5>1
      <4>2. CASE ~(n - 1 <= Len(acl))
        BY <1>4, <2>1, <4>2
      <4>. QED BY <4>1, <4>2
    <3>. QED BY <2>1, <2>2, <2>4, <3>3, <3>4
  <2>. QED BY <2>3, <2>4
<1>5. FoldLeft(Retype, base, Log) \in G[Len(Log)]
  <2>. HIDE DEF G
  <2>. QED BY <1>2, <1>3, <1>4, TypesMaintain
<1>6. FoldLeft(Retype, base, Log)[k] = v[Len(acl)][k]
  <2>1. CASE Len(Log) <= Len(acl)
    <3>1. Len(Log) = Len(acl)
      BY <1>2, <2>1
    <3>. QED BY <1>2, <1>5, <2>1, <3>1
  <2>2. CASE ~(Len(Log) <= Len(acl))
    BY <1>2, <1>5, <2>2
  <2>. QED BY <2>1, <2>2
<1>. QED BY <1>1, <1>6 DEF TypeSteps

TypeIn(i) == IF i = NoItem THEN Absent ELSE i.value.type

\* How the item that a replay leaves relates to the types of two replays that start
\* without the key (ta) and with an untyped value of it (tu).
Related(k, i, ta, tu) ==
    /\ IF k \in Live THEN TypeIn(i) = tu ELSE TypeIn(i) = ta
    /\ tu = "" \/ ta = tu
    /\ ta # ""
    /\ TypeIn(i) = "" => k \in Live /\ i.exp = atd[k].exp

LEMMA RelatedStep ==
    ASSUME StoreInv, NEW n \in Nat, n < MaxLog, NEW c \in LoadedWith(n), NEW cmd \in Command,
           NEW ta \in TypeMaps, NEW tu \in TypeMaps, NEW k \in Keys,
           Related(k, c.items[k], ta[k], tu[k])
    PROVE  Related(k, Replay(c, cmd).items[k], Retype(ta, cmd)[k], Retype(tu, cmd)[k])
<1>. DEFINE r == Replay(c, cmd)
<1>0. /\ cmd.key \in Keys /\ ReplayEffect(c, cmd, r)
      /\ cmd.type \in {"SET", "SETNX", "DEL"}
      /\ cmd.type # "DEL" => cmd.value.type \in DataTypes
  BY ReplayTyped, ValueTypes DEF StoreInv, Command
<1>. HIDE DEF r
<1>1. CASE cmd.key # k
  <2>1. r.items[k] = c.items[k] /\ Retype(ta, cmd)[k] = ta[k] /\ Retype(tu, cmd)[k] = tu[k]
    BY <1>0, <1>1, RetypeTyped DEF ReplayEffect
  <2>. QED BY <2>1 DEF r
<1>2. CASE cmd.key = k
  <2>. DEFINE i == c.items[k]
              j == r.items[k]
              step(t) == IF cmd.type = "SET" \/ (cmd.type = "SETNX" /\ t = Absent)
                         THEN cmd.value.type
                         ELSE IF cmd.type = "DEL" /\ t = "string" THEN Absent ELSE t
  <2>1. Retype(ta, cmd)[k] = step(ta[k]) /\ Retype(tu, cmd)[k] = step(tu[k])
    BY <1>2, RetypeTyped
  <2>2. i # NoItem => i.value.type \in DataTypes \cup {""}
    <3>1. i \in Item \cup {NoItem}
      BY DEF LoadedWith
    <3>. QED BY <3>1, ValueTypes DEF Item
  <2>3. /\ StoresIn(c, cmd) <=> cmd.type = "SET" \/ (cmd.type = "SETNX" /\ TypeIn(i) = Absent)
        /\ DeletesIn(c, cmd) <=> cmd.type = "DEL" /\ TypeIn(i) = "string"
    BY <1>2, <2>2 DEF StoresIn, DeletesIn, TypeIn, DataTypes, Absent
  <2>4. TypeIn(j) = step(TypeIn(i)) /\ (TypeIn(j) = "" => j = i)
    <3>1. CASE StoresIn(c, cmd)
      <4>1. j \in Item /\ j.value = cmd.value
        BY <1>0, <1>2, <3>1 DEF ReplayEffect
      <4>2. TypeIn(j) = cmd.value.type /\ cmd.value.type # ""
        BY <1>0, <3>1, <4>1, NoItemAssumption DEF TypeIn, StoresIn, DataTypes
      <4>. QED BY <2>3, <3>1, <4>2
    <3>2. CASE DeletesIn(c, cmd)
      <4>1. j = NoItem
        BY <1>0, <1>2, <3>2 DEF ReplayEffect
      <4>2. TypeIn(j) = Absent
        BY <4>1 DEF TypeIn
      <4>. QED BY <2>3, <3>2, <4>2 DEF Absent
    <3>3. CASE ~StoresIn(c, cmd) /\ ~DeletesIn(c, cmd)
      <4>1. j = i
        BY <1>0, <3>3 DEF ReplayEffect
      <4>. QED BY <2>3, <3>3, <4>1
    <3>. QED BY <3>1, <3>2, <3>3
  <2>. HIDE DEF i, j
  <2>5. cmd.type # "DEL" => cmd.value.type # "" /\ cmd.value.type # Absent
    BY <1>0 DEF DataTypes, Absent
  <2>6. Related(k, i, ta[k], tu[k])
    BY DEF i
  <2>7. Related(k, j, step(ta[k]), step(tu[k]))
    <3>1. IF k \in Live THEN TypeIn(j) = step(tu[k]) ELSE TypeIn(j) = step(ta[k])
      BY <2>4, <2>6 DEF Related
    <3>2. step(tu[k]) = "" \/ step(ta[k]) = step(tu[k])
      BY <1>0, <2>5, <2>6 DEF Related, Absent
    <3>3. step(ta[k]) # ""
      BY <1>0, <2>5, <2>6 DEF Related, Absent
    <3>4. TypeIn(j) = "" => k \in Live /\ j.exp = atd[k].exp
      <4>1. TypeIn(j) = "" => j = i
        BY <2>4
      <4>. QED BY <2>6, <4>1 DEF Related
    <3>. HIDE DEF step
    <3>. QED BY <3>1, <3>2, <3>3, <3>4 DEF Related
  <2>. HIDE DEF step
  <2>. QED BY <2>1, <2>7 DEF j, r
<1>. QED BY <1>1, <1>2

LEMMA RecoveredRelated ==
    ASSUME BaseInv, NEW k \in Keys
    PROVE  Related(k, Recovered.items[k], FoldLeft(Retype, All(Absent), acl)[k],
                   FoldLeft(Retype, All(""), acl)[k])
<1>0. /\ StoreInv /\ acl \in Seq(Command) /\ Len(acl) \in Nat /\ Len(acl) <= MaxLog
      /\ MaxLog \in Nat /\ SnapshotTyped
  <2>1. Len(acl) + Len(chan) <= MaxLog
    BY DEF BaseInv
  <2>. QED BY <2>1, LogTypes, LogParts, Sizes DEF BaseInv
<1>1. PICK va : TypeSteps(va, All(Absent), acl)
  BY <1>0, TypesStep
<1>2. PICK vu : TypeSteps(vu, All(""), acl)
  BY <1>0, TypesStep
<1>. DEFINE G == [n \in Nat |-> {c \in LoadedWith(n) :
                    va[n] \in TypeMaps /\ vu[n] \in TypeMaps
                    /\ Related(k, c.items[k], va[n][k], vu[n][k])}]
<1>3. LoadAtd \in G[0]
  <2>1. va[0] = All(Absent) /\ vu[0] = All("")
    BY <1>1, <1>2 DEF TypeSteps
  <2>2. All(Absent)[k] = Absent /\ All("")[k] = ""
    BY DEF All
  <2>3. All(Absent) \in TypeMaps /\ All("") \in TypeMaps
    BY AllTyped
  <2>4. LoadAtd.items[k] = LoadedMap[k]
    BY DEF LoadAtd
  <2>5. Related(k, LoadedMap[k], Absent, "")
    <3>1. CASE k \in Live
      <4>1. LoadedMap[k] \in Item /\ LoadedMap[k].value.type = "" /\ LoadedMap[k].exp = atd[k].exp
        BY <1>0, <3>1, LoadAtdTyped
      <4>2. TypeIn(LoadedMap[k]) = ""
        BY <4>1, NoItemAssumption DEF TypeIn
      <4>. QED BY <3>1, <4>1, <4>2 DEF Related, Absent
    <3>2. CASE k \notin Live
      <4>1. LoadedMap[k] = NoItem
        BY <1>0, <3>2, LoadAtdTyped
      <4>2. TypeIn(LoadedMap[k]) = Absent
        BY <4>1 DEF TypeIn
      <4>. QED BY <3>2, <4>2 DEF Related, Absent
    <3>. QED BY <3>1, <3>2
  <2>6. Related(k, LoadAtd.items[k], va[0][k], vu[0][k])
    BY <2>1, <2>2, <2>4, <2>5
  <2>. QED BY <1>0, <2>1, <2>3, <2>6, LoadAtdTyped
<1>4. ASSUME NEW n \in 1 .. Len(acl), NEW c \in G[n - 1]
      PROVE  Replay(c, acl[n]) \in G[n]
  <2>1. n - 1 \in Nat /\ n - 1 < MaxLog /\ (n - 1) + 1 = n /\ n \in Nat /\ acl[n] \in Command
    BY <1>0
  <2>2. /\ c \in LoadedWith(n - 1) /\ va[n - 1] \in TypeMaps /\ vu[n - 1] \in TypeMaps
        /\ Related(k, c.items[k], va[n - 1][k], vu[n - 1][k])
    BY <1>4, <2>1
  <2>3. va[n] = Retype(va[n - 1], acl[n]) /\ vu[n] = Retype(vu[n - 1], acl[n])
    BY <1>1, <1>2 DEF TypeSteps
  <2>4. va[n] \in TypeMaps /\ vu[n] \in TypeMaps
    BY <2>1, <2>2, <2>3, RetypeTyped
  <2>5. Related(k, Replay(c, acl[n]).items[k], va[n][k], vu[n][k])
    BY <1>0, <2>1, <2>2, <2>3, RelatedStep
  <2>6. Replay(c, acl[n]) \in LoadedWith((n - 1) + 1)
    BY <1>0, <2>1, <2>2, ReplayTyped DEF StoreInv
  <2>7. Replay(c, acl[n]) \in LoadedWith(n)
    BY <2>1, <2>6
  <2>. QED BY <2>1, <2>4, <2>5, <2>7
<1>5. FoldLeft(Replay, LoadAtd, acl) \in G[Len(acl)]
  <2>. HIDE DEF G
  <2>. QED BY <1>0, <1>3, <1>4, ReplayMaintains
<1>6. Related(k, Recovered.items[k], va[Len(acl)][k], vu[Len(acl)][k])
  BY <1>0, <1>5 DEF Recovered
<1>. QED BY <1>1, <1>2, <1>6 DEF TypeSteps

\* What a client's command does to the key it is about.
LEMMA ClientStep ==
    ASSUME BaseInv,
           \/ \E k \in Keys, v \in ClientValues, ttl \in TTLs : LoggedSet(k, v, ttl)
           \/ \E k \in Keys, v \in ClientValues, ttl \in TTLs : LoggedSetNX(k, v, ttl)
           \/ \E k \in Keys : LoggedDelete(k)
    PROVE  \E cmd \in Command :
              /\ \A l \in Keys \ {cmd.key} : items'[l] = items[l]
              /\ cmd.type = "DEL" => items'[cmd.key] = NoItem
              /\ \/ Log' = Append(Log, cmd) /\ lost' = lost
                 \/ Log' = Log /\ lost' = lost \cup {cmd.key}
              /\ UNCHANGED <<up, now, acl, atd, cut>>
<1>0. /\ StoreInv /\ items \in [Keys -> Item \cup {NoItem}]
      /\ UNCHANGED <<up, acl, atd, cut>>
  BY DEF BaseInv, StoreInv, TypeOK, LoggedSet, LoggedSetNX, LoggedDelete, stopping
<1>1. ASSUME NEW k \in Keys, NEW v \in ClientValues, NEW ttl \in TTLs, NEW cmd \in Command,
             cmd.key = k, cmd.type # "DEL", LogCommand(cmd), Put(k, v, ttl, FreshId)
      PROVE  /\ \A l \in Keys \ {cmd.key} : items'[l] = items[l]
             /\ cmd.type = "DEL" => items'[cmd.key] = NoItem
             /\ \/ Log' = Append(Log, cmd) /\ lost' = lost
                \/ Log' = Log /\ lost' = lost \cup {cmd.key}
             /\ UNCHANGED <<up, now, acl, atd, cut>>
  <2>1. (\A l \in Keys \ {k} : items'[l] = items[l]) /\ now' = now
    BY <1>0, <1>1 DEF Put
  <2>. QED BY <1>0, <1>1, <2>1, LogGrows
<1>2. ASSUME NEW k \in Keys, NEW v \in ClientValues, NEW ttl \in TTLs, LoggedSet(k, v, ttl)
      PROVE  /\ Cmd("SET", k, v, ttl) \in Command /\ Cmd("SET", k, v, ttl).key = k
             /\ Cmd("SET", k, v, ttl).type = "SET" /\ LogCommand(Cmd("SET", k, v, ttl))
             /\ Put(k, v, ttl, FreshId)
  BY <1>2, CommandFacts DEF LoggedSet, Set, Cmd
<1>3. ASSUME NEW k \in Keys, NEW v \in ClientValues, NEW ttl \in TTLs, LoggedSetNX(k, v, ttl)
      PROVE  /\ Cmd("SETNX", k, v, ttl) \in Command /\ Cmd("SETNX", k, v, ttl).key = k
             /\ Cmd("SETNX", k, v, ttl).type = "SETNX" /\ LogCommand(Cmd("SETNX", k, v, ttl))
             /\ Put(k, v, ttl, FreshId)
  BY <1>3, CommandFacts DEF LoggedSetNX, SetNX, Cmd
<1>4. ASSUME NEW k \in Keys, LoggedDelete(k)
      PROVE  \E cmd \in Command :
                /\ \A l \in Keys \ {cmd.key} : items'[l] = items[l]
                /\ cmd.type = "DEL" => items'[cmd.key] = NoItem
                /\ \/ Log' = Append(Log, cmd) /\ lost' = lost
                   \/ Log' = Log /\ lost' = lost \cup {cmd.key}
                /\ UNCHANGED <<up, now, acl, atd, cut>>
  <2>. DEFINE cmd == Cmd("DEL", k, NoItem, 0)
  <2>1. cmd \in Command /\ cmd.key = k
    BY DelCommand DEF Cmd
  <2>2. LogCommand(cmd) /\ Delete(k)
    BY <1>4 DEF LoggedDelete
  <2>. HIDE DEF cmd
  <2>3. items'[k] = NoItem /\ (\A l \in Keys \ {k} : items'[l] = items[l]) /\ now' = now
    BY <1>0, <2>2 DEF Delete
  <2>4. \/ Log' = Append(Log, cmd) /\ lost' = lost
        \/ Log' = Log /\ lost' = lost \cup {cmd.key}
    BY <1>0, <2>1, <2>2, LogGrows
  <2>. QED BY <1>0, <2>1, <2>3, <2>4
<1>5. CASE \E k \in Keys, v \in ClientValues, ttl \in TTLs : LoggedSet(k, v, ttl)
  <2>1. PICK k \in Keys, v \in ClientValues, ttl \in TTLs : LoggedSet(k, v, ttl)
    BY <1>5
  <2>2. PICK cmd \in Command : /\ cmd.key = k /\ cmd.type = "SET"
                               /\ LogCommand(cmd) /\ Put(k, v, ttl, FreshId)
    BY <1>2, <2>1
  <2>. QED BY <1>1, <2>2
<1>6. CASE \E k \in Keys, v \in ClientValues, ttl \in TTLs : LoggedSetNX(k, v, ttl)
  <2>1. PICK k \in Keys, v \in ClientValues, ttl \in TTLs : LoggedSetNX(k, v, ttl)
    BY <1>6
  <2>2. PICK cmd \in Command : /\ cmd.key = k /\ cmd.type = "SETNX"
                               /\ LogCommand(cmd) /\ Put(k, v, ttl, FreshId)
    BY <1>3, <2>1
  <2>. QED BY <1>1, <2>2
<1>. QED BY <1>4, <1>5, <1>6

\* A command that does not remove its key leaves it present, whatever it was.
LEMMA PresentAfter ==
    ASSUME NEW t \in TypeMaps, NEW cmd \in Command, cmd.type # "DEL"
    PROVE  Retype(t, cmd)[cmd.key] # Absent
<1>1. cmd.type \in {"SET", "SETNX"} /\ cmd.value.type \in DataTypes
  BY ValueTypes DEF Command
<1>. QED BY <1>1, RetypeTyped DEF DataTypes, Absent

LEMMA AfterTyped ==
    ASSUME BaseInv, NEW x \in {"", Absent}
    PROVE  After(x) \in TypeMaps
BY AllTyped, TypesTyped, LogTypes DEF After

\* Presence after a client's command.
LEMMA AfterClient ==
    ASSUME BaseInv, NEW cmd \in Command, NEW x \in {"", Absent}, NEW k \in Keys \ lost',
           \/ Log' = Append(Log, cmd) /\ lost' = lost
           \/ Log' = Log /\ lost' = lost \cup {cmd.key}
    PROVE  IF cmd.key = k THEN cmd.type # "DEL" => After(x)'[k] # Absent
           ELSE After(x)'[k] = After(x)[k]
<1>1. CASE Log' = Append(Log, cmd)
  <2>1. After(x)' = Retype(After(x), cmd)
    BY <1>1, TypesAppend, LogTypes DEF After, All
  <2>2. PICK t \in TypeMaps : t = After(x)
    BY AfterTyped
  <2>3. After(x)' = Retype(t, cmd)
    BY <2>1, <2>2
  <2>4. CASE cmd.key = k
    BY <2>3, <2>4, PresentAfter
  <2>5. CASE cmd.key # k
    <3>1. k \in Keys \ {cmd.key}
      BY <2>5
    <3>2. Retype(t, cmd)[k] = t[k]
      BY <3>1, RetypeTyped
    <3>. QED BY <2>2, <2>3, <2>5, <3>2
  <2>. QED BY <2>4, <2>5
<1>2. CASE Log' = Log /\ lost' = lost \cup {cmd.key}
  <2>1. k # cmd.key
    BY <1>2
  <2>2. After(x)' = After(x)
    BY <1>2 DEF After, All
  <2>. QED BY <2>1, <2>2
<1>. QED BY <1>1, <1>2

LEMMA SurviveNext ==
    ASSUME SurviveInv, [RNext]_allvars
    PROVE  StoredSurvives' /\ VisibleSurvives'
<1>0. BaseInv /\ StoreInv /\ StoredSurvives /\ VisibleSurvives
  BY DEF SurviveInv, BaseInv
<1>1. ASSUME \/ \E l \in Keys, v \in ClientValues, ttl \in TTLs : LoggedSet(l, v, ttl)
             \/ \E l \in Keys, v \in ClientValues, ttl \in TTLs : LoggedSetNX(l, v, ttl)
             \/ \E l \in Keys : LoggedDelete(l)
      PROVE  StoredSurvives' /\ VisibleSurvives'
  <2>1. PICK cmd \in Command :
              /\ \A l \in Keys \ {cmd.key} : items'[l] = items[l]
              /\ cmd.type = "DEL" => items'[cmd.key] = NoItem
              /\ \/ Log' = Append(Log, cmd) /\ lost' = lost
                 \/ Log' = Log /\ lost' = lost \cup {cmd.key}
              /\ UNCHANGED <<up, now, acl, atd, cut>>
    BY <1>0, <1>1, ClientStep
  <2>2. ASSUME up', NEW k \in Keys \ lost', Stored(k)'
        PROVE  After("")'[k] # Absent
    <3>1. IF cmd.key = k THEN cmd.type # "DEL" => After("")'[k] # Absent
          ELSE After("")'[k] = After("")[k]
      BY <1>0, <2>1, AfterClient
    <3>2. k \notin lost /\ up
      BY <2>1, <2>2
    <3>. QED BY <1>0, <2>1, <2>2, <3>1, <3>2 DEF StoredSurvives, Stored
  <2>3. ASSUME up', ~cut', NEW k \in Keys \ lost', Visible(k)'
        PROVE  After(Absent)'[k] # Absent \/ (atd'[k] # NoItem /\ atd'[k].exp = items'[k].exp)
    <3>1. IF cmd.key = k THEN cmd.type # "DEL" => After(Absent)'[k] # Absent
          ELSE After(Absent)'[k] = After(Absent)[k]
      BY <1>0, <2>1, AfterClient
    <3>2. k \notin lost /\ up /\ ~cut
      BY <2>1, <2>3
    <3>3. CASE cmd.key = k
      BY <2>1, <2>3, <3>1, <3>3 DEF Visible, Stored
    <3>4. CASE cmd.key # k
      <4>1. Visible(k) /\ items'[k] = items[k]
        BY <2>1, <2>3, <3>4 DEF Visible, Stored, Expired
      <4>. QED BY <1>0, <2>1, <3>1, <3>2, <3>4, <4>1 DEF VisibleSurvives
    <3>. QED BY <3>3, <3>4
  <2>. QED BY <2>2, <2>3 DEF StoredSurvives, VisibleSurvives
<1>2. ASSUME Removing, UNCHANGED <<up, lost>>, Log' = Log,
             \/ UNCHANGED <<atd, cut>>
             \/ cut'
             \/ \A k \in Keys : Visible(k) => atd'[k] # NoItem /\ atd'[k].exp = items[k].exp
      PROVE  StoredSurvives' /\ VisibleSurvives'
  <2>1. After("")' = After("") /\ After(Absent)' = After(Absent)
    BY <1>2 DEF After, All
  <2>2. StoredSurvives'
    BY <1>0, <1>2, <2>1 DEF StoredSurvives, Removing, Stored
  <2>3. ASSUME up', ~cut', NEW k \in Keys \ lost', Visible(k)'
        PROVE  After(Absent)'[k] # Absent \/ (atd'[k] # NoItem /\ atd'[k].exp = items'[k].exp)
    <3>1. Visible(k) /\ items'[k] = items[k]
      BY <1>0, <1>2, <2>3, VisibleBefore DEF Removing
    <3>2. After(Absent)'[k] = After(Absent)[k] /\ up /\ k \in Keys \ lost
      BY <1>2, <2>1, <2>3
    <3>3. CASE UNCHANGED <<atd, cut>>
      <4>1. After(Absent)[k] # Absent \/ (atd[k] # NoItem /\ atd[k].exp = items[k].exp)
        BY <1>0, <2>3, <3>1, <3>2, <3>3 DEF VisibleSurvives
      <4>. QED BY <3>1, <3>2, <3>3, <4>1
    <3>4. CASE \A l \in Keys : Visible(l) => atd'[l] # NoItem /\ atd'[l].exp = items[l].exp
      BY <3>1, <3>4
    <3>. QED BY <1>2, <2>3, <3>3, <3>4
  <2>. QED BY <2>2, <2>3 DEF VisibleSurvives
<1>3. CASE UnloggedCleanup \/ UnloggedFlushAll \/ PassTime \/ WriteCommand
           \/ LeaveCommands \/ Stop \/ CloseCommands \/ UNCHANGED allvars
  <2>1. Removing
    BY <1>0, <1>3, RemovingSteps
  <2>2. UNCHANGED <<up, lost, atd, cut>> /\ (WriteCommand \/ UNCHANGED <<acl, chan>>)
    BY <1>3 DEF UnloggedCleanup, UnloggedFlushAll, PassTime, WriteCommand, LeaveCommands, Stop,
       CloseCommands, allvars, pvars, stopping
  <2>3. Log' = Log
    BY <1>0, <2>2, LogMoves, LogSame
  <2>. QED BY <1>2, <2>1, <2>2, <2>3
<1>4. CASE SaveAtd \/ SaveAtdCutOff \/ LastSave
  <2>1. Removing
    BY <1>0, <1>4, RemovingSteps
  <2>2. UNCHANGED <<up, lost, acl, chan>> /\ (cut' \/ atd' = Snapshot)
    BY <1>4 DEF SaveAtd, SaveAtdCutOff, LastSave, stopping
  <2>3. Log' = Log
    BY <2>2, LogSame
  <2>4. \A k \in Keys : Visible(k) => Snapshot[k] # NoItem /\ Snapshot[k].exp = items[k].exp
    BY <1>0, SnapshotIsTyped DEF StoreInv
  <2>. QED BY <1>2, <2>1, <2>2, <2>3, <2>4
<1>5. CASE Crash \/ Exit \/ Panic
  BY <1>5 DEF Crash, Exit, Panic, Down, StoredSurvives, VisibleSurvives
<1>6. CASE Restart
  <2>1. /\ Log' = acl /\ Log = acl /\ UNCHANGED <<now, atd, cut, lost, acl>>
        /\ items' = Recovered.items
    BY <1>0, <1>6, LogTypes DEF Restart, BaseInv, DownIsClean, Log
  <2>2. /\ After("")' = FoldLeft(Retype, All(""), acl)
        /\ After(Absent)' = FoldLeft(Retype, All(Absent), acl)
    BY <2>1 DEF After, All
  <2>3. ASSUME NEW k \in Keys, items'[k] # NoItem
        PROVE  /\ After("")'[k] # Absent
               /\ After(Absent)'[k] # Absent \/ (atd'[k] # NoItem /\ atd'[k].exp = items'[k].exp)
    <3>1. Related(k, items'[k], After(Absent)'[k], After("")'[k])
      BY <1>0, <2>1, <2>2, RecoveredRelated
    <3>2. TypeIn(items'[k]) # Absent
      <4>1. PICK c \in LoadedWith(Len(acl)) : c = Recovered
        BY <1>0, RecoveredTyped
      <4>2. items'[k] \in Item
        BY <2>1, <2>3, <4>1 DEF LoadedWith
      <4>. QED BY <2>3, <4>2, ValueTypes DEF TypeIn, Item, DataTypes, Absent
    <3>. QED BY <2>1, <3>1, <3>2 DEF Related, Live, Absent
  <2>. QED BY <2>3 DEF StoredSurvives, VisibleSurvives, Visible, Stored
<1>. QED BY <1>1, <1>3, <1>4, <1>5, <1>6 DEF RNext

LEMMA SurviveInit == RInit => SurviveInv
<1>. SUFFICES ASSUME RInit PROVE SurviveInv
  OBVIOUS
<1>1. \A k \in Keys : ~Stored(k)
  BY DEF RInit, Init, Stored
<1>. QED BY <1>1, BaseInit DEF SurviveInv, StoredSurvives, VisibleSurvives, Visible

\* The replay that a start does meets the types that After counts.
LEMMA SurvivorsRecovered ==
    ASSUME SurviveInv
    PROVE  VisibleKeysSurvive
<1>. SUFFICES ASSUME up, ~cut, NEW k \in Keys, Visible(k), Written(k)
              PROVE  Recovered.items[k] # NoItem
  BY DEF VisibleKeysSurvive
<1>. DEFINE i == Recovered.items[k]
<1>0. BaseInv /\ StoredSurvives /\ VisibleSurvives
  BY DEF SurviveInv
<1>1. k \in Keys \ lost /\ Unmentioned(chan, k) /\ Stored(k)
  BY DEF Written, Unmentioned, Visible
<1>2. /\ After("")[k] = FoldLeft(Retype, All(""), acl)[k]
      /\ After(Absent)[k] = FoldLeft(Retype, All(Absent), acl)[k]
  BY <1>0, <1>1, TypesIgnore, AllTyped DEF After
<1>3. Related(k, i, After(Absent)[k], After("")[k])
  BY <1>0, <1>2, RecoveredRelated
<1>4. After("")[k] # Absent
  BY <1>0, <1>1 DEF StoredSurvives
<1>5. After(Absent)[k] # Absent \/ (atd[k] # NoItem /\ atd[k].exp = items[k].exp)
  BY <1>0, <1>1 DEF VisibleSurvives
<1>. HIDE DEF i
<1>6. TypeIn(i) # Absent
  <2>1. CASE k \in Live
    BY <1>3, <1>4, <2>1 DEF Related
  <2>2. CASE k \notin Live
    <3>1. After(Absent)[k] # Absent
      BY <1>5, <2>2 DEF Live, Visible, Expired
    <3>. QED BY <1>3, <2>2, <3>1 DEF Related
  <2>. QED BY <2>1, <2>2
<1>. QED BY <1>6 DEF TypeIn, i

\* What clients can read and the log has all commands of is there after a crash.
THEOREM VisibleKeysAlwaysSurvive == RSpec => []VisibleKeysSurvive
<1>1. RInit => SurviveInv
  BY SurviveInit
<1>2. SurviveInv /\ [RNext]_allvars => SurviveInv'
  BY BaseNext, SurviveNext DEF SurviveInv
<1>3. SurviveInv => VisibleKeysSurvive
  BY SurvivorsRecovered
<1>. QED BY <1>1, <1>2, <1>3, PTL DEF RSpec

----------------------------------------------------------------------------
(* Plain keys. *)

LEMMA LastExists ==
    ASSUME NEW s \in Seq(Command), NEW k, ~Unmentioned(s, k)
    PROVE  \E n \in 1 .. Len(s) : LastOf(s, k, n)
<1>. DEFINE back == {d \in Nat : Len(s) - d \in 1 .. Len(s) /\ s[Len(s) - d].key = k}
<1>1. Len(s) \in Nat
  OBVIOUS
<1>2. PICK n \in 1 .. Len(s) : s[n].key = k
  BY DEF Unmentioned
<1>3. Len(s) - n \in back
  <2>1. Len(s) - n \in Nat /\ Len(s) - (Len(s) - n) = n
    BY <1>1
  <2>. QED BY <1>2, <2>1
<1>4. back \subseteq Nat
  OBVIOUS
<1>5. PICK d \in back : \A e \in back : d <= e
  <2>. HIDE DEF back
  <2>. QED BY <1>3, <1>4, Loads!LeastNat
<1>6. Len(s) - d \in 1 .. Len(s) /\ s[Len(s) - d].key = k /\ d \in Nat
  BY <1>5
<1>7. ASSUME NEW m \in (Len(s) - d) + 1 .. Len(s) PROVE s[m].key # k
  <2>1. Len(s) - m \in Nat /\ Len(s) - (Len(s) - m) = m /\ m \in 1 .. Len(s) /\ Len(s) - m < d
    BY <1>1, <1>6
  <2>2. Len(s) - m \notin back
    <3>. HIDE DEF back
    <3>1. Len(s) - m \in back => d <= Len(s) - m
      BY <1>5
    <3>. QED BY <1>6, <2>1, <3>1
  <2>. QED BY <2>1, <2>2
<1>. QED BY <1>6, <1>7 DEF LastOf

\* Place m has the last command about k among the first n.
LastIn(s, k, m, n) == s[m].key = k /\ \A j \in m + 1 .. n : s[j].key # k

\* A line of a plain key takes effect: its SET stores, and its DEL meets the string
\* that the SET before it stored.
LEMMA PlainStep ==
    ASSUME StoreInv, NEW n \in Nat, n < MaxLog, NEW c \in LoadedWith(n), NEW cmd \in Command,
           \/ cmd.type = "SET"
           \/ /\ cmd.type = "DEL" /\ c.items[cmd.key] # NoItem
              /\ c.items[cmd.key].value.type = "string"
    PROVE  Leaves(cmd, Replay(c, cmd).items[cmd.key])
<1>1. ReplayEffect(c, cmd, Replay(c, cmd))
  BY ReplayTyped DEF StoreInv
<1>2. CASE cmd.type = "SET"
  <2>1. StoresIn(c, cmd)
    BY <1>2 DEF StoresIn
  <2>2. /\ Replay(c, cmd).items[cmd.key] \in Item
        /\ Replay(c, cmd).items[cmd.key].value = cmd.value
    BY <1>1, <2>1 DEF ReplayEffect
  <2>. QED BY <1>2, <2>2, NoItemAssumption DEF Leaves
<1>3. CASE cmd.type = "DEL"
  <2>1. DeletesIn(c, cmd)
    BY <1>3 DEF DeletesIn
  <2>. QED BY <1>1, <1>3, <2>1 DEF ReplayEffect, Leaves
<1>. QED BY <1>2, <1>3

\* A start gives a plain key back as its last command in the ACL left it.
LEMMA PlainReplay ==
    ASSUME BaseInv, PlainCommands, DelFollowsSet, NEW k \in Keys \ (odd \cup lost)
    PROVE  /\ \A n \in 1 .. Len(acl) : LastOf(acl, k, n) => Leaves(acl[n], Recovered.items[k])
           /\ Unmentioned(acl, k) => Recovered.items[k] = LoadedMap[k]
<1>. DEFINE G == [n \in Nat |-> {c \in LoadedWith(n) :
                    /\ \A m \in 1 .. n : LastIn(acl, k, m, n) => Leaves(acl[m], c.items[k])
                    /\ (\A m \in 1 .. n : acl[m].key # k) => c.items[k] = LoadedMap[k]}]
<1>0. /\ StoreInv /\ acl \in Seq(Command) /\ Len(acl) \in Nat /\ Len(acl) <= MaxLog
      /\ MaxLog \in Nat /\ SnapshotTyped /\ k \in Keys
  <2>1. Len(acl) + Len(chan) <= MaxLog
    BY DEF BaseInv
  <2>. QED BY <2>1, LogTypes, LogParts, Sizes DEF BaseInv
<1>1. \A n \in 1 .. Len(acl) : n \in 1 .. Len(Log) /\ Log[n] = acl[n]
  BY <1>0, LogParts
<1>2. ASSUME NEW n \in 1 .. Len(acl), acl[n].key = k
      PROVE  \/ acl[n].type = "SET" /\ acl[n].value.type = "string"
             \/ acl[n].type = "DEL"
  BY <1>1, <1>2 DEF PlainCommands
<1>3. ASSUME NEW n \in 1 .. Len(acl), acl[n].key = k, acl[n].type = "DEL"
      PROVE  \E m \in 1 .. n - 1 : LastIn(acl, k, m, n - 1) /\ acl[m].type = "SET"
  <2>1. PICK m \in 1 .. n - 1 : /\ Log[m].key = k /\ Log[m].type = "SET"
                                /\ \A j \in m + 1 .. n - 1 : Log[j].key # k
    BY <1>1, <1>3 DEF DelFollowsSet
  <2>2. \A j \in 1 .. n - 1 : Log[j] = acl[j]
    BY <1>0, <1>1
  <2>3. \A j \in m + 1 .. n - 1 : j \in 1 .. n - 1
    OBVIOUS
  <2>. QED BY <2>1, <2>2, <2>3 DEF LastIn
<1>4. LoadAtd \in G[0]
  <2>1. LoadAtd.items[k] = LoadedMap[k]
    BY DEF LoadAtd
  <2>2. LoadAtd \in LoadedWith(0)
    BY <1>0, LoadAtdTyped
  <2>3. \A m \in 1 .. 0 : FALSE
    OBVIOUS
  <2>. QED BY <2>1, <2>2, <2>3
<1>5. ASSUME NEW n \in 1 .. Len(acl), NEW c \in G[n - 1]
      PROVE  Replay(c, acl[n]) \in G[n]
  <2>. DEFINE r == Replay(c, acl[n])
  <2>1. n - 1 \in Nat /\ n - 1 < MaxLog /\ (n - 1) + 1 = n /\ n \in Nat /\ acl[n] \in Command
    BY <1>0
  <2>2. /\ c \in LoadedWith(n - 1)
        /\ \A m \in 1 .. n - 1 : LastIn(acl, k, m, n - 1) => Leaves(acl[m], c.items[k])
        /\ (\A m \in 1 .. n - 1 : acl[m].key # k) => c.items[k] = LoadedMap[k]
    BY <1>5, <2>1
  <2>. HIDE DEF G
  <2>3. r \in LoadedWith((n - 1) + 1) /\ ReplayEffect(c, acl[n], r)
    BY <1>0, <2>1, <2>2, ReplayTyped DEF StoreInv
  <2>4. r \in LoadedWith(n)
    BY <2>1, <2>3
  <2>5. CASE acl[n].key = k
    <3>1. Leaves(acl[n], r.items[k])
      <4>1. CASE acl[n].type = "SET"
        BY <1>0, <2>1, <2>2, <2>5, <4>1, PlainStep
      <4>2. CASE acl[n].type = "DEL"
        <5>1. PICK m \in 1 .. n - 1 : LastIn(acl, k, m, n - 1) /\ acl[m].type = "SET"
          BY <1>3, <2>5, <4>2
        <5>2. c.items[k] # NoItem /\ c.items[k].value = acl[m].value
          BY <2>2, <5>1 DEF Leaves
        <5>3. m \in 1 .. Len(acl) /\ acl[m].key = k
          BY <2>1, <5>1 DEF LastIn
        <5>4. acl[m].value.type = "string"
          BY <1>2, <5>1, <5>3
        <5>. QED BY <1>0, <2>1, <2>2, <2>5, <4>2, <5>2, <5>4, PlainStep
      <4>. QED BY <1>2, <2>5, <4>1, <4>2
    <3>2. \A m \in 1 .. n : LastIn(acl, k, m, n) => m = n
      <4>1. ASSUME NEW m \in 1 .. n, LastIn(acl, k, m, n), m # n PROVE FALSE
        <5>1. n \in m + 1 .. n
          BY <2>1, <4>1
        <5>. QED BY <2>5, <4>1, <5>1 DEF LastIn
      <4>. QED BY <4>1
    <3>3. n \in 1 .. n
      BY <2>1
    <3>. HIDE DEF r
    <3>4. \A m \in 1 .. n : LastIn(acl, k, m, n) => Leaves(acl[m], r.items[k])
      BY <3>1, <3>2
    <3>5. ~(\A m \in 1 .. n : acl[m].key # k)
      BY <2>5, <3>3
    <3>. QED BY <2>1, <2>4, <3>4, <3>5 DEF G, r
  <2>6. CASE acl[n].key # k
    <3>1. r.items[k] = c.items[k]
      BY <1>0, <2>3, <2>6 DEF ReplayEffect
    <3>. HIDE DEF r
    <3>2. ASSUME NEW m \in 1 .. n, LastIn(acl, k, m, n)
          PROVE  m \in 1 .. n - 1 /\ LastIn(acl, k, m, n - 1)
      <4>1. m # n
        BY <2>6, <3>2 DEF LastIn
      <4>2. \A j \in m + 1 .. n - 1 : j \in m + 1 .. n
        BY <2>1
      <4>. QED BY <2>1, <3>2, <4>1, <4>2 DEF LastIn
    <3>3. \A m \in 1 .. n : LastIn(acl, k, m, n) => Leaves(acl[m], r.items[k])
      BY <2>2, <3>1, <3>2
    <3>4. (\A m \in 1 .. n : acl[m].key # k) => r.items[k] = LoadedMap[k]
      <4>1. \A m \in 1 .. n - 1 : m \in 1 .. n
        BY <2>1
      <4>. QED BY <2>2, <3>1, <4>1
    <3>. QED BY <2>1, <2>4, <3>3, <3>4 DEF G, r
  <2>. QED BY <2>5, <2>6
<1>6. FoldLeft(Replay, LoadAtd, acl) \in G[Len(acl)]
  <2>. HIDE DEF G
  <2>. QED BY <1>0, <1>4, <1>5, ReplayMaintains
<1>7. /\ \A m \in 1 .. Len(acl) : LastIn(acl, k, m, Len(acl)) => Leaves(acl[m], Recovered.items[k])
      /\ (\A m \in 1 .. Len(acl) : acl[m].key # k) => Recovered.items[k] = LoadedMap[k]
  BY <1>0, <1>6 DEF Recovered
<1>. HIDE DEF G
<1>. QED BY <1>7 DEF LastOf, LastIn, Unmentioned

\* A start gives a plain key no deadline.
LEMMA ReplayNoDeadline ==
    ASSUME BaseInv, PlainCommands, NoDeadline, NEW k \in Keys \ odd
    PROVE  /\ Recovered.items[k] # NoItem => Recovered.items[k].exp = 0
           /\ \A i \in Recovered.heap : i.key # k
<1>. DEFINE G == [n \in Nat |-> {c \in LoadedWith(n) :
                    /\ c.items[k] # NoItem => c.items[k].exp = 0
                    /\ \A i \in c.heap : i.key # k}]
<1>0. /\ StoreInv /\ acl \in Seq(Command) /\ Len(acl) \in Nat /\ Len(acl) <= MaxLog
      /\ MaxLog \in Nat /\ SnapshotTyped /\ k \in Keys
  <2>1. Len(acl) + Len(chan) <= MaxLog
    BY DEF BaseInv
  <2>. QED BY <2>1, LogTypes, LogParts, Sizes DEF BaseInv
<1>1. \A n \in 1 .. Len(acl) : n \in 1 .. Len(Log) /\ Log[n] = acl[n]
  BY <1>0, LogParts
<1>2. ASSUME NEW n \in 1 .. Len(acl), acl[n].key = k
      PROVE  (acl[n].type = "SET" /\ acl[n].ttl <= 0) \/ acl[n].type = "DEL"
  BY <1>1, <1>2 DEF PlainCommands
<1>3. LoadAtd \in G[0]
  <2>1. LoadAtd \in LoadedWith(0)
    BY <1>0, LoadAtdTyped
  <2>2. LoadAtd.items = LoadedMap
        /\ LoadAtd.heap = {i \in Range(LoadedMap) : i # NoItem /\ i.exp > 0}
    BY DEF LoadAtd
  <2>3. LoadedMap[k] # NoItem => LoadedMap[k].exp = 0
    <3>1. CASE k \in Live
      <4>1. LoadedMap[k].exp = atd[k].exp /\ atd[k] # NoItem
        BY <1>0, <3>1, LoadAtdTyped DEF Live
      <4>. QED BY <4>1 DEF NoDeadline
    <3>2. CASE k \notin Live
      BY <1>0, <3>2, LoadAtdTyped
    <3>. QED BY <3>1, <3>2
  <2>4. ASSUME NEW i \in LoadAtd.heap PROVE i.key # k
    <3>1. PICK l \in Keys : i = LoadedMap[l] /\ i # NoItem /\ i.exp > 0
      BY <2>1, <2>2, <2>4 DEF Range, LoadedWith
    <3>2. i.key = l
      BY <2>1, <2>2, <3>1 DEF LoadedWith
    <3>. QED BY <2>3, <3>1, <3>2
  <2>5. LoadAtd.items[k] # NoItem => LoadAtd.items[k].exp = 0
    BY <2>2, <2>3
  <2>. QED BY <2>1, <2>4, <2>5
<1>4. ASSUME NEW n \in 1 .. Len(acl), NEW c \in G[n - 1]
      PROVE  Replay(c, acl[n]) \in G[n]
  <2>. DEFINE r == Replay(c, acl[n])
  <2>1. n - 1 \in Nat /\ n - 1 < MaxLog /\ (n - 1) + 1 = n /\ n \in Nat /\ acl[n] \in Command
    BY <1>0
  <2>2. /\ c \in LoadedWith(n - 1)
        /\ c.items[k] # NoItem => c.items[k].exp = 0
        /\ \A i \in c.heap : i.key # k
    BY <1>4, <2>1
  <2>. HIDE DEF G
  <2>3. r \in LoadedWith((n - 1) + 1) /\ ReplayEffect(c, acl[n], r)
    BY <1>0, <2>1, <2>2, ReplayTyped DEF StoreInv
  <2>4. r \in LoadedWith(n)
    BY <2>1, <2>3
  <2>. HIDE DEF r
  <2>5. CASE acl[n].key = k
    <3>1. CASE acl[n].type = "SET"
      <4>1. acl[n].ttl <= 0 /\ acl[n].ttl \in Int
        BY <1>2, <2>1, <2>5, <3>1 DEF Command
      <4>2. StoresIn(c, acl[n])
        BY <3>1 DEF StoresIn
      <4>3. ~(acl[n].ttl > 0)
        BY <4>1
      <4>4. r.items[k].exp = 0 /\ r.heap = c.heap
        BY <2>3, <2>5, <4>2, <4>3 DEF ReplayEffect, Expiration
      <4>. QED BY <2>1, <2>2, <2>4, <4>4 DEF G, r
    <3>2. CASE acl[n].type = "DEL"
      <4>1. ~StoresIn(c, acl[n])
        BY <3>2 DEF StoresIn
      <4>2. (r.items[k] = NoItem /\ r.heap \subseteq c.heap) \/ r = c
        BY <2>3, <2>5, <4>1 DEF ReplayEffect
      <4>. QED BY <2>1, <2>2, <2>4, <4>2 DEF G, r
    <3>. QED BY <1>2, <2>5, <3>1, <3>2
  <2>6. CASE acl[n].key # k
    <3>1. r.items[k] = c.items[k]
      BY <1>0, <2>3, <2>6 DEF ReplayEffect
    <3>2. acl[n].key \in Keys
      BY <2>1 DEF Command
    <3>3. r.heap \subseteq c.heap
          \/ (r.heap \subseteq c.heap \cup {r.items[acl[n].key]} /\ r.items[acl[n].key] \in Item)
      BY <2>3 DEF ReplayEffect
    <3>4. r.items[acl[n].key] \in Item => r.items[acl[n].key].key = acl[n].key
      BY <2>4, <3>2, NoItemAssumption DEF LoadedWith
    <3>5. \A i \in r.heap : i.key # k
      BY <2>2, <2>6, <3>3, <3>4
    <3>. QED BY <2>1, <2>2, <2>4, <3>1, <3>5 DEF G, r
  <2>. QED BY <2>5, <2>6
<1>5. FoldLeft(Replay, LoadAtd, acl) \in G[Len(acl)]
  <2>. HIDE DEF G
  <2>. QED BY <1>0, <1>3, <1>4, ReplayMaintains
<1>. QED BY <1>0, <1>5 DEF Recovered

\* What a client's command does, to plain keys in particular.
ClientEffect(cmd) ==
    /\ up /\ UNCHANGED <<up, atd>> /\ odd \subseteq odd'
    /\ \A l \in Keys \ {cmd.key} : items'[l] = items[l]
    /\ \A i \in heap' : i \in heap \/ (i.key = cmd.key /\ cmd.key \in odd')
    /\ cmd.key \notin odd' =>
          \/ /\ cmd.type = "SET" /\ cmd.value.type = "string" /\ cmd.ttl <= 0
             /\ items'[cmd.key] # NoItem
             /\ items'[cmd.key].value = cmd.value /\ items'[cmd.key].exp = 0
          \/ cmd.type = "DEL" /\ Stored(cmd.key) /\ items'[cmd.key] = NoItem
    /\ \/ Log' = Append(Log, cmd) /\ lost' = lost
       \/ Log' = Log /\ lost' = lost \cup {cmd.key}

LEMMA ClientEffects ==
    ASSUME BaseInv,
           \/ \E k \in Keys, v \in ClientValues, ttl \in TTLs : LoggedSet(k, v, ttl)
           \/ \E k \in Keys, v \in ClientValues, ttl \in TTLs : LoggedSetNX(k, v, ttl)
           \/ \E k \in Keys : LoggedDelete(k)
    PROVE  \E cmd \in Command : ClientEffect(cmd)
<1>0. /\ StoreInv /\ items \in [Keys -> Item \cup {NoItem}] /\ odd \subseteq odd'
      /\ up /\ UNCHANGED <<up, acl, atd>>
  BY DEF BaseInv, StoreInv, TypeOK, LoggedSet, LoggedSetNX, LoggedDelete, stopping, MarkOdd, Room
<1>1. ASSUME NEW k \in Keys, NEW v \in ClientValues, NEW ttl \in TTLs, Put(k, v, ttl, FreshId)
      PROVE  /\ items'[k] # NoItem
             /\ items'[k].value = v /\ items'[k].exp = Expiration(ttl)
             /\ \A l \in Keys \ {k} : items'[l] = items[l]
             /\ \A i \in heap' : i \in heap \/ (i.key = k /\ ttl > 0)
  <2>. DEFINE i == [id |-> FreshId, key |-> k, value |-> v, exp |-> Expiration(ttl)]
  <2>1. items' = [items EXCEPT ![k] = i] /\ heap' = IF ttl > 0 THEN heap \cup {i} ELSE heap
    BY <1>1 DEF Put
  <2>2. i.key = k /\ i.value = v /\ i.exp = Expiration(ttl)
    OBVIOUS
  <2>3. i \in Item
    <3>1. Room
      BY DEF LoggedSet, LoggedSetNX, LoggedDelete
    <3>2. FreshId \in Ids
      BY <1>0, <3>1, FreshIdFound DEF StoreInv, Room
    <3>3. ttl \in -Half .. Half - 1 /\ v \in Values
      BY TTLAssumption, ValueTypes
    <3>4. Expiration(ttl) \in -Half .. Half - 1
      BY <1>0, <3>3, ExpirationRange DEF StoreInv
    <3>. QED BY <3>2, <3>3, <3>4 DEF Item
  <2>. HIDE DEF i
  <2>4. items'[k] = i /\ \A l \in Keys \ {k} : items'[l] = items[l]
    BY <1>0, <2>1
  <2>5. i # NoItem
    BY <2>3, NoItemAssumption
  <2>. QED BY <2>1, <2>2, <2>4, <2>5
<1>2. ASSUME NEW k \in Keys, NEW v \in ClientValues, NEW ttl \in TTLs, LoggedSet(k, v, ttl)
      PROVE  \E cmd \in Command : ClientEffect(cmd)
  <2>. DEFINE c == Cmd("SET", k, v, ttl)
  <2>1. c \in Command /\ c.key = k /\ c.type = "SET" /\ c.value = v /\ c.ttl = ttl
    BY CommandFacts DEF Cmd
  <2>2. Put(k, v, ttl, FreshId) /\ LogCommand(c) /\ MarkOdd(k, v, ttl)
    BY <1>2 DEF LoggedSet, Set
  <2>. HIDE DEF c
  <2>3. ttl \in Int
    BY TTLAssumption
  <2>4. k \notin odd' => v.type = "string" /\ ttl <= 0 /\ Expiration(ttl) = 0
    BY <2>2, <2>3 DEF MarkOdd, Expiration
  <2>5. ttl > 0 => k \in odd'
    BY <2>2, <2>3 DEF MarkOdd
  <2>6. (Log' = Append(Log, c) /\ lost' = lost) \/ (Log' = Log /\ lost' = lost \cup {c.key})
    BY <1>0, <2>1, <2>2, LogGrows
  <2>7. /\ items'[k] # NoItem
        /\ items'[k].value = v /\ items'[k].exp = Expiration(ttl)
        /\ \A l \in Keys \ {k} : items'[l] = items[l]
        /\ \A i \in heap' : i \in heap \/ (i.key = k /\ ttl > 0)
    BY <1>1, <2>2
  <2>8. ClientEffect(c)
    BY <1>0, <2>1, <2>4, <2>5, <2>6, <2>7 DEF ClientEffect
  <2>. QED BY <2>1, <2>8
<1>3. ASSUME NEW k \in Keys, NEW v \in ClientValues, NEW ttl \in TTLs, LoggedSetNX(k, v, ttl)
      PROVE  \E cmd \in Command : ClientEffect(cmd)
  <2>. DEFINE c == Cmd("SETNX", k, v, ttl)
  <2>1. c \in Command /\ c.key = k
    BY CommandFacts DEF Cmd
  <2>2. Put(k, v, ttl, FreshId) /\ LogCommand(c) /\ k \in odd'
    BY <1>3 DEF LoggedSetNX, SetNX
  <2>. HIDE DEF c
  <2>3. (Log' = Append(Log, c) /\ lost' = lost) \/ (Log' = Log /\ lost' = lost \cup {c.key})
    BY <1>0, <2>1, <2>2, LogGrows
  <2>4. /\ \A l \in Keys \ {k} : items'[l] = items[l]
        /\ \A i \in heap' : i \in heap \/ (i.key = k /\ ttl > 0)
    BY <1>1, <2>2
  <2>5. ClientEffect(c)
    BY <1>0, <2>1, <2>2, <2>3, <2>4 DEF ClientEffect
  <2>. QED BY <2>1, <2>5
<1>4. ASSUME NEW k \in Keys, LoggedDelete(k)
      PROVE  \E cmd \in Command : ClientEffect(cmd)
  <2>. DEFINE c == Cmd("DEL", k, NoItem, 0)
  <2>1. c \in Command /\ c.key = k /\ c.type = "DEL"
    BY DelCommand DEF Cmd
  <2>2. Delete(k) /\ LogCommand(c)
    BY <1>4 DEF LoggedDelete
  <2>. HIDE DEF c
  <2>3. (Log' = Append(Log, c) /\ lost' = lost) \/ (Log' = Log /\ lost' = lost \cup {c.key})
    BY <1>0, <2>1, <2>2, LogGrows
  <2>4. /\ Stored(k) /\ items'[k] = NoItem /\ heap' \subseteq heap
        /\ \A l \in Keys \ {k} : items'[l] = items[l]
    BY <1>0, <2>2 DEF Delete
  <2>5. ClientEffect(c)
    BY <1>0, <2>1, <2>3, <2>4 DEF ClientEffect
  <2>. QED BY <2>1, <2>5
<1>. QED BY <1>2, <1>3, <1>4

LEMMA PlainByClient ==
    ASSUME PlainInv, NEW cmd \in Command, ClientEffect(cmd)
    PROVE  PlainCommands' /\ NoDeadline' /\ DelFollowsSet' /\ StoreFollowsLog'
<1>0. /\ BaseInv /\ PlainCommands /\ NoDeadline /\ DelFollowsSet /\ StoreFollowsLog
      /\ Log \in Seq(Command) /\ Len(Log) \in Nat /\ cmd.key \in Keys
  BY LogTypes DEF PlainInv, Command
<1>1. /\ up /\ up' /\ atd' = atd /\ odd \subseteq odd' /\ lost \subseteq lost'
      /\ \A l \in Keys \ {cmd.key} : items'[l] = items[l]
      /\ \A i \in heap' : i \in heap \/ (i.key = cmd.key /\ cmd.key \in odd')
  BY DEF ClientEffect
<1>2. cmd.key \notin odd' =>
        \/ /\ cmd.type = "SET" /\ cmd.value.type = "string" /\ cmd.ttl <= 0
           /\ items'[cmd.key] # NoItem
           /\ items'[cmd.key].value = cmd.value /\ items'[cmd.key].exp = 0
        \/ cmd.type = "DEL" /\ Stored(cmd.key) /\ items'[cmd.key] = NoItem
  BY DEF ClientEffect
<1>3. NoDeadline'
  BY <1>0, <1>1, <1>2 DEF NoDeadline, Stored
<1>4. CASE Log' = Append(Log, cmd)
  <2>. DEFINE N == Len(Log) + 1
  <2>1. /\ Len(Log') = N /\ Log'[N] = cmd /\ N \in 1 .. N /\ 1 .. N = (1 .. Len(Log)) \cup {N}
        /\ \A n \in 1 .. Len(Log) : Log'[n] = Log[n]
        /\ N - 1 = Len(Log) /\ N \in Nat
    BY <1>0, <1>4
  <2>. HIDE DEF N
  <2>2. PlainCommands'
    <3>. SUFFICES ASSUME NEW k \in Keys \ odd', NEW n \in 1 .. N, Log'[n].key = k
                  PROVE  \/ Log'[n].type = "SET" /\ Log'[n].value.type = "string" /\ Log'[n].ttl <= 0
                         \/ Log'[n].type = "DEL"
      BY <2>1 DEF PlainCommands
    <3>1. CASE n = N
      BY <1>2, <2>1, <3>1
    <3>2. CASE n \in 1 .. Len(Log)
      BY <1>0, <1>1, <2>1, <3>2 DEF PlainCommands
    <3>. QED BY <2>1, <3>1, <3>2
  <2>3. DelFollowsSet'
    <3>. SUFFICES ASSUME NEW k \in Keys \ (odd' \cup lost'), NEW n \in 1 .. N,
                         Log'[n].key = k, Log'[n].type = "DEL"
                  PROVE  \E m \in 1 .. n - 1 :
                            /\ Log'[m].key = k /\ Log'[m].type = "SET"
                            /\ \A j \in m + 1 .. n - 1 : Log'[j].key # k
      BY <2>1 DEF DelFollowsSet
    <3>0. k \in Keys \ (odd \cup lost)
      BY <1>1
    <3>1. CASE n = N
      <4>1. cmd.key = k /\ cmd.type = "DEL" /\ Stored(k)
        BY <1>2, <2>1, <3>1
      <4>2. ~Unmentioned(Log, k)
        BY <1>0, <3>0, <4>1 DEF StoreFollowsLog
      <4>3. PICK m \in 1 .. Len(Log) : LastOf(Log, k, m)
        BY <1>0, <4>2, LastExists
      <4>4. Leaves(Log[m], items[k])
        BY <1>0, <1>1, <3>0, <4>3 DEF StoreFollowsLog
      <4>5. Log[m].type # "DEL"
        BY <4>1, <4>4 DEF Leaves, Stored
      <4>6. Log[m].key = k /\ Log[m].type = "SET"
        BY <1>0, <3>0, <4>3, <4>5 DEF LastOf, PlainCommands
      <4>7. m \in 1 .. n - 1 /\ n - 1 = Len(Log) /\ Log'[m] = Log[m]
        BY <2>1, <3>1
      <4>8. \A j \in m + 1 .. n - 1 : Log'[j].key # k
        <5>1. \A j \in m + 1 .. n - 1 : j \in 1 .. Len(Log) /\ j \in m + 1 .. Len(Log)
          BY <4>7
        <5>. QED BY <2>1, <4>3, <5>1 DEF LastOf
      <4>. QED BY <4>6, <4>7, <4>8
    <3>2. CASE n \in 1 .. Len(Log)
      <4>1. Log[n].key = k /\ Log[n].type = "DEL"
        BY <2>1, <3>2
      <4>2. PICK m \in 1 .. n - 1 : /\ Log[m].key = k /\ Log[m].type = "SET"
                                    /\ \A j \in m + 1 .. n - 1 : Log[j].key # k
        BY <1>0, <3>0, <3>2, <4>1 DEF DelFollowsSet
      <4>3. \A j \in 1 .. n - 1 : Log'[j] = Log[j]
        BY <1>0, <2>1, <3>2
      <4>4. \A j \in m + 1 .. n - 1 : j \in 1 .. n - 1
        OBVIOUS
      <4>. QED BY <4>2, <4>3, <4>4
    <3>. QED BY <2>1, <3>1, <3>2
  <2>4. StoreFollowsLog'
    <3>. SUFFICES ASSUME NEW k \in Keys \ (odd' \cup lost')
                  PROVE  /\ \A n \in 1 .. N : LastOf(Log', k, n) => Leaves(Log'[n], items'[k])
                         /\ Unmentioned(Log', k) => items'[k] = NoItem /\ atd'[k] = NoItem
      BY <2>1 DEF StoreFollowsLog, LastOf, Leaves, Unmentioned, Stored
    <3>0. k \in Keys \ (odd \cup lost)
      BY <1>1
    <3>1. CASE cmd.key = k
      <4>1. Leaves(cmd, items'[k])
        BY <1>2, <3>1 DEF Leaves
      <4>2. ASSUME NEW n \in 1 .. N, LastOf(Log', k, n) PROVE n = N
        <5>1. n \in Nat /\ (n # N => N \in n + 1 .. N)
          BY <2>1
        <5>. QED BY <2>1, <3>1, <4>2, <5>1 DEF LastOf
      <4>3. ~Unmentioned(Log', k)
        BY <2>1, <3>1 DEF Unmentioned
      <4>. QED BY <2>1, <4>1, <4>2, <4>3
    <3>2. CASE cmd.key # k
      <4>1. items'[k] = items[k] /\ atd'[k] = atd[k]
        BY <1>1, <3>0, <3>2
      <4>2. ASSUME NEW n \in 1 .. N, LastOf(Log', k, n)
            PROVE  n \in 1 .. Len(Log) /\ LastOf(Log, k, n)
        <5>1. n \in 1 .. Len(Log)
          BY <2>1, <3>2, <4>2 DEF LastOf
        <5>2. \A j \in n + 1 .. Len(Log) : j \in 1 .. Len(Log) /\ j \in n + 1 .. N
          BY <1>0, <2>1, <5>1
        <5>. QED BY <2>1, <4>2, <5>1, <5>2 DEF LastOf
      <4>3. Unmentioned(Log', k) => Unmentioned(Log, k)
        BY <2>1 DEF Unmentioned
      <4>4. \A n \in 1 .. Len(Log) : LastOf(Log, k, n) => Leaves(Log[n], items[k])
        BY <1>0, <1>1, <3>0 DEF StoreFollowsLog
      <4>5. Unmentioned(Log, k) => items[k] = NoItem /\ atd[k] = NoItem
        BY <1>0, <3>0 DEF StoreFollowsLog, Stored
      <4>. QED BY <2>1, <4>1, <4>2, <4>3, <4>4, <4>5
    <3>. QED BY <3>1, <3>2
  <2>. QED BY <1>3, <2>2, <2>3, <2>4
<1>5. CASE Log' = Log /\ lost' = lost \cup {cmd.key}
  <2>1. \A k \in Keys \ lost' : items'[k] = items[k]
    BY <1>1, <1>5
  <2>2. PlainCommands'
    BY <1>0, <1>1, <1>5 DEF PlainCommands
  <2>3. DelFollowsSet'
    BY <1>0, <1>1, <1>5 DEF DelFollowsSet
  <2>4. StoreFollowsLog'
    BY <1>0, <1>1, <1>5, <2>1 DEF StoreFollowsLog, LastOf, Leaves, Unmentioned, Stored
  <2>. QED BY <1>3, <2>2, <2>3, <2>4
<1>. QED BY <1>4, <1>5 DEF ClientEffect

\* Steps that log nothing leave the plain keys alone, but for the snapshot of them.
LEMMA PlainKept ==
    ASSUME PlainInv, Log' = Log, up' = up, lost' = lost, odd \subseteq odd',
           heap' \subseteq heap, \A k \in Keys \ odd' : items'[k] = items[k],
           \A k \in Keys \ odd' :
               \/ atd'[k] \in {atd[k], NoItem}
               \/ Stored(k) /\ atd'[k] # NoItem /\ atd'[k].exp = items[k].exp
    PROVE  PlainCommands' /\ NoDeadline' /\ DelFollowsSet' /\ StoreFollowsLog'
<1>0. PlainCommands /\ NoDeadline /\ DelFollowsSet /\ StoreFollowsLog
  BY DEF PlainInv
<1>1. PlainCommands'
  BY <1>0 DEF PlainCommands
<1>2. NoDeadline'
  BY <1>0 DEF NoDeadline, Stored
<1>3. DelFollowsSet'
  BY <1>0 DEF DelFollowsSet
<1>4. StoreFollowsLog'
  <2>. SUFFICES ASSUME NEW k \in Keys \ (odd' \cup lost')
                PROVE  /\ up => \A n \in 1 .. Len(Log) :
                                   LastOf(Log, k, n) => Leaves(Log[n], items[k])
                       /\ Unmentioned(Log, k) => items[k] = NoItem /\ atd'[k] = NoItem
    BY DEF StoreFollowsLog, LastOf, Leaves, Unmentioned, Stored
  <2>. QED BY <1>0 DEF StoreFollowsLog, Stored
<1>. QED BY <1>1, <1>2, <1>3, <1>4

\* A process that ends leaves of each plain key that lost nothing its whole log.
LEMMA PlainDown ==
    ASSUME PlainInv, Down
    PROVE  PlainCommands' /\ NoDeadline' /\ DelFollowsSet' /\ StoreFollowsLog'
<1>0. /\ BaseInv /\ PlainCommands /\ NoDeadline /\ DelFollowsSet /\ StoreFollowsLog
      /\ acl \in Seq(Command)
  BY LogTypes DEF PlainInv
<1>1. /\ ~up' /\ atd' = atd /\ odd' = odd /\ heap' = {}
      /\ items' = [k \in Keys |-> NoItem]
  BY DEF Down, EmptyCache
<1>2. /\ Log' = acl /\ lost \subseteq lost'
      /\ \A k \in Keys \ lost' : Unmentioned(chan, k)
  BY <1>0, LogLeft
<1>3. /\ Len(acl) \in Nat /\ Len(acl) <= Len(Log) /\ Len(Log) \in Nat
      /\ \A n \in 1 .. Len(acl) : n \in 1 .. Len(Log) /\ Log[n] = acl[n]
  BY <1>0, LogParts
<1>4. PlainCommands'
  <2>. SUFFICES ASSUME NEW k \in Keys \ odd, NEW n \in 1 .. Len(acl), acl[n].key = k
                PROVE  \/ acl[n].type = "SET" /\ acl[n].value.type = "string" /\ acl[n].ttl <= 0
                       \/ acl[n].type = "DEL"
    BY <1>1, <1>2 DEF PlainCommands
  <2>. QED BY <1>0, <1>3 DEF PlainCommands
<1>5. NoDeadline'
  BY <1>0, <1>1 DEF NoDeadline, Stored
<1>6. DelFollowsSet'
  <2>. SUFFICES ASSUME NEW k \in Keys \ (odd \cup lost'), NEW n \in 1 .. Len(acl),
                       acl[n].key = k, acl[n].type = "DEL"
                PROVE  \E m \in 1 .. n - 1 :
                          /\ acl[m].key = k /\ acl[m].type = "SET"
                          /\ \A j \in m + 1 .. n - 1 : acl[j].key # k
    BY <1>1, <1>2 DEF DelFollowsSet
  <2>1. PICK m \in 1 .. n - 1 : /\ Log[m].key = k /\ Log[m].type = "SET"
                                /\ \A j \in m + 1 .. n - 1 : Log[j].key # k
    BY <1>0, <1>2, <1>3 DEF DelFollowsSet
  <2>2. \A j \in 1 .. n - 1 : Log[j] = acl[j]
    BY <1>3
  <2>3. \A j \in m + 1 .. n - 1 : j \in 1 .. n - 1
    OBVIOUS
  <2>. QED BY <2>1, <2>2, <2>3
<1>7. StoreFollowsLog'
  <2>. SUFFICES ASSUME NEW k \in Keys \ (odd \cup lost'), Unmentioned(acl, k)
                PROVE  atd[k] = NoItem
    BY <1>1, <1>2 DEF StoreFollowsLog, Unmentioned, Stored
  <2>1. Unmentioned(chan, k)
    BY <1>2
  <2>2. ASSUME NEW n \in 1 .. Len(Log) PROVE Log[n].key # k
    <3>1. CASE n <= Len(acl)
      <4>1. n \in 1 .. Len(acl)
        BY <1>3, <3>1
      <4>. QED BY <1>3, <4>1 DEF Unmentioned
    <3>2. CASE ~(n <= Len(acl))
      <4>1. n > Len(acl)
        BY <1>3, <3>2
      <4>. QED BY <1>0, <2>1, <4>1, LogParts DEF Unmentioned
    <3>. QED BY <3>1, <3>2
  <2>3. Unmentioned(Log, k)
    BY <2>2 DEF Unmentioned
  <2>. QED BY <1>0, <1>2, <2>3 DEF StoreFollowsLog
<1>. QED BY <1>4, <1>5, <1>6, <1>7

LEMMA PlainRestart ==
    ASSUME PlainInv, Restart
    PROVE  PlainCommands' /\ NoDeadline' /\ DelFollowsSet' /\ StoreFollowsLog'
<1>0. /\ BaseInv /\ PlainCommands /\ NoDeadline /\ DelFollowsSet /\ StoreFollowsLog
      /\ acl \in Seq(Command) /\ SnapshotTyped
  BY LogTypes DEF PlainInv, BaseInv
<1>1. /\ ~up /\ chan = <<>> /\ UNCHANGED <<acl, chan, atd, odd, lost>>
      /\ items' = Recovered.items /\ heap' = Recovered.heap
  BY <1>0 DEF Restart, BaseInv, DownIsClean
<1>2. Log' = acl /\ Log = acl
  BY <1>0, <1>1 DEF Log
<1>3. PlainCommands' /\ DelFollowsSet'
  BY <1>0, <1>1, <1>2 DEF PlainCommands, DelFollowsSet
<1>4. NoDeadline'
  <2>. SUFFICES ASSUME NEW k \in Keys \ odd
                PROVE  /\ items'[k] # NoItem => items'[k].exp = 0
                       /\ atd[k] # NoItem => atd[k].exp = 0
                       /\ \A i \in heap' : i.key # k
    BY <1>1 DEF NoDeadline, Stored
  <2>1. atd[k] # NoItem => atd[k].exp = 0
    BY <1>0 DEF NoDeadline
  <2>. QED BY <1>0, <1>1, <2>1, ReplayNoDeadline
<1>5. StoreFollowsLog'
  <2>. SUFFICES ASSUME NEW k \in Keys \ (odd \cup lost)
                PROVE  /\ \A n \in 1 .. Len(acl) :
                              LastOf(acl, k, n) => Leaves(acl[n], items'[k])
                       /\ Unmentioned(acl, k) => items'[k] = NoItem /\ atd[k] = NoItem
    BY <1>1, <1>2 DEF StoreFollowsLog, LastOf, Leaves, Unmentioned, Stored
  <2>1. /\ \A n \in 1 .. Len(acl) : LastOf(acl, k, n) => Leaves(acl[n], items'[k])
        /\ Unmentioned(acl, k) => items'[k] = LoadedMap[k]
    BY <1>0, <1>1, PlainReplay
  <2>2. Unmentioned(acl, k) => atd[k] = NoItem
    BY <1>0, <1>2 DEF StoreFollowsLog
  <2>3. atd[k] = NoItem => LoadedMap[k] = NoItem
    BY <1>0, LoadAtdTyped DEF Live
  <2>. QED BY <2>1, <2>2, <2>3
<1>. QED BY <1>3, <1>4, <1>5

LEMMA PlainNext == PlainInv /\ [RNext]_allvars => PlainInv'
<1>. SUFFICES ASSUME PlainInv, [RNext]_allvars
              PROVE  PlainCommands' /\ NoDeadline' /\ DelFollowsSet' /\ StoreFollowsLog'
  BY BaseNext DEF PlainInv
<1>0. BaseInv /\ StoreInv /\ NoDeadline /\ odd \subseteq Keys
  BY DEF PlainInv, BaseInv, FlagsTyped
<1>1. ASSUME \/ \E k \in Keys, v \in ClientValues, ttl \in TTLs : LoggedSet(k, v, ttl)
             \/ \E k \in Keys, v \in ClientValues, ttl \in TTLs : LoggedSetNX(k, v, ttl)
             \/ \E k \in Keys : LoggedDelete(k)
      PROVE  PlainCommands' /\ NoDeadline' /\ DelFollowsSet' /\ StoreFollowsLog'
  <2>1. PICK cmd \in Command : ClientEffect(cmd)
    BY <1>0, <1>1, ClientEffects
  <2>. QED BY <2>1, PlainByClient
<1>2. CASE UnloggedCleanup
  <2>1. UNCHANGED <<acl, chan, atd, lost, odd, up>> /\ Cleanup
    BY <1>2 DEF UnloggedCleanup, pvars, stopping
  <2>2. Log' = Log
    BY <2>1, LogSame
  <2>3. ASSUME NEW k \in Keys \ odd PROVE items'[k] = items[k]
    <3>1. ~ \E i \in Due : i.key = k
      BY <1>0 DEF NoDeadline, Due
    <3>. QED BY <2>1, <3>1 DEF Cleanup
  <2>4. heap' \subseteq heap
    BY <2>1 DEF Cleanup
  <2>. QED BY <2>1, <2>2, <2>3, <2>4, PlainKept
<1>3. CASE UnloggedFlushAll
  <2>1. /\ UNCHANGED <<acl, chan, atd, lost, up>> /\ odd' = Keys /\ heap' = {}
    BY <1>3 DEF UnloggedFlushAll, FlushAll, stopping
  <2>2. Log' = Log
    BY <2>1, LogSame
  <2>. QED BY <1>0, <2>1, <2>2, PlainKept
<1>4. CASE WriteCommand \/ PassTime \/ LeaveCommands \/ Stop \/ CloseCommands \/ UNCHANGED allvars
  <2>1. /\ UNCHANGED <<items, heap, atd, lost, odd, up>>
        /\ WriteCommand \/ UNCHANGED <<acl, chan>>
    BY <1>4 DEF WriteCommand, PassTime, Tick, LeaveCommands, Stop, CloseCommands,
       allvars, vars, pvars, stopping
  <2>2. Log' = Log
    BY <1>0, <2>1, LogMoves, LogSame
  <2>. QED BY <2>1, <2>2, PlainKept
<1>5. CASE SaveAtd \/ SaveAtdCutOff \/ LastSave
  <2>1. UNCHANGED <<items, heap, acl, chan, lost, odd, up>>
    BY <1>5 DEF SaveAtd, SaveAtdCutOff, LastSave, vars, stopping
  <2>2. \A k \in Keys : atd'[k] \in {Snapshot[k], NoItem}
    BY <1>5 DEF SaveAtd, SaveAtdCutOff, LastSave, Snapshot
  <2>3. Log' = Log
    BY <2>1, LogSame
  <2>4. ASSUME NEW k \in Keys, atd'[k] # NoItem
        PROVE  Stored(k) /\ atd'[k].exp = items[k].exp
    <3>1. atd'[k] = Snapshot[k]
      BY <2>2, <2>4
    <3>2. Visible(k)
      BY <1>0, <2>4, <3>1, SnapshotIsTyped DEF StoreInv
    <3>. QED BY <1>0, <3>1, <3>2, SnapshotIsTyped DEF StoreInv, Visible
  <2>. QED BY <2>1, <2>3, <2>4, PlainKept
<1>6. CASE Crash \/ Exit \/ Panic
  BY <1>6, PlainDown DEF Crash, Exit, Panic
<1>7. CASE Restart
  BY <1>7, PlainRestart
<1>. QED BY <1>1, <1>2, <1>3, <1>4, <1>5, <1>6, <1>7 DEF RNext

LEMMA PlainInit == RInit => PlainInv
<1>. SUFFICES ASSUME RInit PROVE PlainInv
  OBVIOUS
<1>1. Log = <<>> /\ \A n \in 1 .. 0 : FALSE
  BY DEF RInit, Log
<1>2. Len(Log) = 0
  BY <1>1
<1>3. PlainCommands /\ DelFollowsSet
  BY <1>1, <1>2 DEF PlainCommands, DelFollowsSet
<1>4. /\ \A k \in Keys : ~Stored(k) /\ atd[k] = NoItem
      /\ heap = {}
  BY DEF RInit, Init, Stored
<1>5. NoDeadline /\ StoreFollowsLog
  BY <1>1, <1>2, <1>4 DEF NoDeadline, StoreFollowsLog
<1>. QED BY <1>3, <1>5, BaseInit DEF PlainInv

\* A start gives back what the store has: both follow the last command of the key.
LEMMA PlainRecovered ==
    ASSUME PlainInv
    PROVE  PlainKeysRecoverExactly
<1>. SUFFICES ASSUME up, NEW k \in Keys \ odd, Written(k)
              PROVE  Data(Recovered.items[k]) = Data(items[k])
  BY DEF PlainKeysRecoverExactly
<1>0. /\ BaseInv /\ PlainCommands /\ DelFollowsSet /\ StoreFollowsLog /\ SnapshotTyped
      /\ acl \in Seq(Command) /\ k \in Keys \ (odd \cup lost) /\ Unmentioned(chan, k)
  BY LogTypes DEF PlainInv, BaseInv, Written, Unmentioned
<1>1. /\ \A n \in 1 .. Len(acl) : LastOf(acl, k, n) => Leaves(acl[n], Recovered.items[k])
      /\ Unmentioned(acl, k) => Recovered.items[k] = LoadedMap[k]
  BY <1>0, PlainReplay
<1>2. /\ Len(acl) \in Nat /\ Len(Log) \in Nat /\ Len(acl) <= Len(Log)
      /\ \A n \in 1 .. Len(acl) : n \in 1 .. Len(Log) /\ Log[n] = acl[n]
  BY <1>0, LogParts
<1>3. ASSUME NEW n \in 1 .. Len(Log), n > Len(acl) PROVE Log[n].key # k
  BY <1>0, <1>3, LogParts DEF Unmentioned
<1>4. CASE Unmentioned(acl, k)
  <2>1. ASSUME NEW n \in 1 .. Len(Log) PROVE Log[n].key # k
    <3>1. n > Len(acl) \/ n \in 1 .. Len(acl)
      BY <1>2
    <3>. QED BY <1>2, <1>3, <1>4, <3>1 DEF Unmentioned
  <2>2. items[k] = NoItem /\ atd[k] = NoItem
    BY <1>0, <2>1 DEF StoreFollowsLog, Unmentioned, Stored
  <2>3. LoadedMap[k] = NoItem
    BY <1>0, <2>2, LoadAtdTyped DEF Live
  <2>. QED BY <1>1, <1>4, <2>2, <2>3
<1>5. CASE ~Unmentioned(acl, k)
  <2>1. PICK n \in 1 .. Len(acl) : LastOf(acl, k, n)
    BY <1>0, <1>5, LastExists
  <2>2. n \in 1 .. Len(Log) /\ Log[n] = acl[n]
    BY <1>2
  <2>3. ASSUME NEW m \in n + 1 .. Len(Log) PROVE Log[m].key # k
    <3>1. m \in 1 .. Len(Log) /\ (m > Len(acl) \/ (m \in n + 1 .. Len(acl) /\ m \in 1 .. Len(acl)))
      BY <1>2
    <3>. QED BY <1>2, <1>3, <2>1, <3>1 DEF LastOf
  <2>4. LastOf(Log, k, n)
    BY <2>1, <2>2, <2>3 DEF LastOf
  <2>5. Leaves(acl[n], items[k]) /\ Leaves(acl[n], Recovered.items[k])
    BY <1>0, <1>1, <2>1, <2>2, <2>4 DEF StoreFollowsLog
  <2>. QED BY <2>5 DEF Leaves, Data
<1>. QED BY <1>4, <1>5

\* A plain key whose commands are all in the ACL comes back from a crash as it is.
THEOREM PlainKeysAlwaysRecover == RSpec => []PlainKeysRecoverExactly
<1>1. RInit => PlainInv
  BY PlainInit
<1>2. PlainInv /\ [RNext]_allvars => PlainInv'
  BY PlainNext
<1>3. PlainInv => PlainKeysRecoverExactly
  BY PlainRecovered
<1>. QED BY <1>1, <1>2, <1>3, PTL DEF RSpec
=============================================================================

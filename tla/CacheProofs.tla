----------------------------- MODULE CacheProofs -----------------------------
(***************************************************************************)
(* Theorems about Cache for every set of keys, values, addresses and ttls. *)
(* The inductive invariant is the conjunction of the three invariants that *)
(* MCCache checks and of ItemsDistinct: StaleAccounted is not inductive    *)
(* without DeadlinesQueued (what Set overwrites must be a queued item for  *)
(* its deadline to be accounted for), and neither is without ItemsDistinct *)
(* (Delete takes the item of one key out of the heap, and nothing else).   *)
(***************************************************************************)
EXTENDS Cache, TLAPS

\* A strengthening only: no two items that the map or the heap points at share an
\* address, which is what Put and Replace ask of the allocator, and the heap holds
\* only deadlines.
ItemsDistinct ==
    /\ \A i, j \in heap : i.id = j.id => i = j
    /\ \A k \in Keys : \A i \in heap : Stored(k) /\ items[k].id = i.id => items[k] = i
    /\ \A k, l \in Keys : Stored(k) /\ Stored(l) /\ items[k].id = items[l].id => k = l
    /\ \A i \in heap : i.exp # 0

Inv == TypeOK /\ DeadlinesQueued /\ StaleAccounted /\ ItemsDistinct

\* The wrapped sum of a clock value and a ttl is an int64 and never 0, which is
\* the mark of an item without a deadline: overflow never silently removes the
\* deadline from an item that was given one.
LEMMA WrapRange ==
    ASSUME NEW n \in 0 .. MaxNow, NEW t \in -Half .. Half - 1, t > 0
    PROVE  /\ Wrap(n + t) \in -Half .. Half - 1
           /\ Wrap(n + t) # 0
BY ClockAssumption DEF Wrap

LEMMA ExpirationRange ==
    ASSUME TypeOK, NEW t \in -Half .. Half - 1
    PROVE  /\ Expiration(t) \in -Half .. Half - 1
           /\ t > 0 <=> Expiration(t) # 0
<1>1. CASE t > 0
  BY <1>1, WrapRange DEF TypeOK, Expiration
<1>2. CASE ~(t > 0)
  BY <1>2, ClockAssumption DEF TypeOK, Expiration
<1> QED BY <1>1, <1>2

LEMMA InitInv == Init => Inv
BY ClockAssumption DEF Init, Inv, TypeOK, DeadlinesQueued, StaleAccounted,
   ItemsDistinct, Stored

\* What a Put leaves behind, for Set and SetNX alike.
LEMMA PutInv ==
    ASSUME Inv, NEW k \in Keys, NEW v \in Values, NEW ttl \in -Half .. Half - 1, NEW id \in Ids,
           Put(k, v, ttl, id)
    PROVE  Inv'
<1> DEFINE i == [id |-> id, key |-> k, value |-> v, exp |-> Expiration(ttl)]
<1>1. /\ i \in Item /\ i # NoItem
      /\ ttl > 0 <=> i.exp # 0
      /\ i.id = id /\ i.key = k
  BY ExpirationRange, NoItemAssumption DEF Inv, Item
<1>2. /\ id \notin InUse
      /\ items' = [items EXCEPT ![k] = i]
      /\ heap' = IF ttl > 0 THEN heap \cup {i} ELSE heap
      /\ stale' = IF Stored(k) /\ items[k].exp # 0
                  THEN [stale EXCEPT ![k] = @ \cup {items[k].exp}]
                  ELSE stale
      /\ now' = now
  BY DEF Put
<1> HIDE DEF i
<1>3. /\ items'[k] = i
      /\ \A l \in Keys : l # k => items'[l] = items[l]
  BY <1>2 DEF Inv, TypeOK
<1>4. /\ \A j \in heap : j.id # id
      /\ \A l \in Keys : Stored(l) => items[l].id # id
      /\ i \notin heap
  BY <1>1, <1>2 DEF InUse
<1>5. TypeOK'
  <2>1. items' \in [Keys -> Item \cup {NoItem}] /\ heap' \subseteq Item
    BY <1>1, <1>2 DEF Inv, TypeOK
  <2>2. stale' \in [Keys -> SUBSET Int]
    <3>1. Stored(k) => items[k].exp \in Int
      BY DEF Inv, TypeOK, Item, Stored
    <3> QED BY <1>2, <3>1 DEF Inv, TypeOK
  <2>3. \A l \in Keys : items'[l] # NoItem => items'[l].key = l
    BY <1>1, <1>3 DEF Inv, TypeOK, Stored
  <2> QED BY <1>2, <2>1, <2>2, <2>3 DEF Inv, TypeOK, Stored
<1>6. DeadlinesQueued'
  <2> SUFFICES ASSUME NEW l \in Keys, items'[l] # NoItem, items'[l].exp # 0
               PROVE  items'[l] \in heap'
    BY DEF DeadlinesQueued, Stored
  <2>1. CASE l = k
    BY <2>1, <1>1, <1>2, <1>3
  <2>2. CASE l # k
    BY <2>2, <1>2, <1>3 DEF Inv, DeadlinesQueued, Stored
  <2> QED BY <2>1, <2>2
<1>7. StaleAccounted'
  <2> SUFFICES ASSUME NEW l \in Keys
               PROVE  {j.exp : j \in {h \in heap' : h.key = l /\ items'[l] # h}} = stale'[l]
    BY DEF StaleAccounted
  <2>1. {j.exp : j \in {h \in heap : h.key = l /\ items[l] # h}} = stale[l]
    BY DEF Inv, StaleAccounted
  <2>2. CASE l # k
    <3>1. {h \in heap' : h.key = l /\ items'[l] # h}
            = {h \in heap : h.key = l /\ items[l] # h}
      BY <2>2, <1>1, <1>2, <1>3
    <3>2. stale'[l] = stale[l]
      BY <2>2, <1>2 DEF Inv, TypeOK
    <3> QED BY <2>1, <3>1, <3>2
  <2>3. CASE l = k
    <3>1. {h \in heap' : h.key = l /\ items'[l] # h} = {h \in heap : h.key = k}
      BY <2>3, <1>1, <1>2, <1>3, <1>4
    <3>2. CASE Stored(k) /\ items[k].exp # 0
      <4>1. items[k] \in heap /\ items[k].key = k
        BY <3>2 DEF Inv, DeadlinesQueued, TypeOK
      <4>2. {h \in heap : h.key = k}
              = {h \in heap : h.key = k /\ items[k] # h} \cup {items[k]}
        BY <4>1
      <4>3. stale'[k] = stale[k] \cup {items[k].exp}
        BY <3>2, <1>2 DEF Inv, TypeOK
      <4> QED BY <2>1, <2>3, <3>1, <4>2, <4>3
    <3>3. CASE ~(Stored(k) /\ items[k].exp # 0)
      <4>1. \A h \in heap : items[k] # h
        BY <3>3, NoItemAssumption DEF Inv, TypeOK, ItemsDistinct, Stored
      <4>2. stale'[k] = stale[k]
        BY <3>3, <1>2
      <4> QED BY <2>1, <2>3, <3>1, <4>1, <4>2
    <3> QED BY <3>2, <3>3
  <2> QED BY <2>2, <2>3
<1>8. ItemsDistinct'
  <2>1. heap' \subseteq heap \cup {i} /\ (i \in heap' => i.exp # 0)
    BY <1>1, <1>2, <1>4
  <2>2. \A a, b \in heap' : a.id = b.id => a = b
    BY <2>1, <1>1, <1>4 DEF Inv, ItemsDistinct
  <2>3. \A l \in Keys : \A a \in heap' :
            items'[l] # NoItem /\ items'[l].id = a.id => items'[l] = a
    BY <2>1, <1>1, <1>3, <1>4 DEF Inv, ItemsDistinct, Stored
  <2>4. \A l, m \in Keys : items'[l] # NoItem /\ items'[m] # NoItem
                           /\ items'[l].id = items'[m].id => l = m
    BY <1>1, <1>3, <1>4 DEF Inv, ItemsDistinct, Stored
  <2>5. \A a \in heap' : a.exp # 0
    BY <2>1 DEF Inv, ItemsDistinct
  <2> QED BY <2>2, <2>3, <2>4, <2>5 DEF ItemsDistinct, Stored
<1> QED BY <1>5, <1>6, <1>7, <1>8 DEF Inv

LEMMA DeleteInv ==
    ASSUME Inv, NEW k \in Keys, Delete(k)
    PROVE  Inv'
<1>1. /\ items[k] # NoItem
      /\ items' = [items EXCEPT ![k] = NoItem]
      /\ now' = now
      /\ items'[k] = NoItem
      /\ \A l \in Keys : l # k => items'[l] = items[l]
  BY DEF Delete, Stored, Inv, TypeOK
<1>2. /\ items[k] \in Item
      /\ items[k].exp \in Int
      /\ items[k].key = k
  BY <1>1 DEF Inv, TypeOK, Item, Stored
<1>3. /\ heap' \subseteq heap
      /\ heap \ {items[k]} \subseteq heap'
      /\ items[k].exp > 0 => items[k] \notin heap' /\ stale' = stale
      /\ items[k].exp = 0 => stale' = stale
      /\ items[k].exp < 0 => /\ items[k] \in heap'
                             /\ stale' = [stale EXCEPT ![k] = @ \cup {items[k].exp}]
  BY <1>1, <1>2 DEF Delete, Inv, DeadlinesQueued, Stored
<1>4. TypeOK'
  <2>1. items' \in [Keys -> Item \cup {NoItem}] /\ heap' \subseteq Item
    BY <1>1, <1>3 DEF Inv, TypeOK
  <2>2. stale' \in [Keys -> SUBSET Int]
    BY <1>2, <1>3 DEF Inv, TypeOK
  <2>3. \A l \in Keys : items'[l] # NoItem => items'[l].key = l
    BY <1>1 DEF Inv, TypeOK, Stored
  <2> QED BY <1>1, <2>1, <2>2, <2>3 DEF Inv, TypeOK, Stored
<1>5. DeadlinesQueued'
  <2> SUFFICES ASSUME NEW l \in Keys, items'[l] # NoItem, items'[l].exp # 0
               PROVE  items'[l] \in heap'
    BY DEF DeadlinesQueued, Stored
  <2>1. l # k /\ items'[l] = items[l]
    BY <1>1
  <2>2. items[l] \in heap /\ items[l].key = l
    BY <2>1 DEF Inv, DeadlinesQueued, TypeOK, Stored
  <2> QED BY <2>1, <2>2, <1>2, <1>3
<1>6. StaleAccounted'
  <2> SUFFICES ASSUME NEW l \in Keys
               PROVE  {j.exp : j \in {h \in heap' : h.key = l /\ items'[l] # h}} = stale'[l]
    BY DEF StaleAccounted
  <2>1. {j.exp : j \in {h \in heap : h.key = l /\ items[l] # h}} = stale[l]
    BY DEF Inv, StaleAccounted
  <2>2. CASE l # k
    <3>1. {h \in heap' : h.key = l /\ items'[l] # h}
            = {h \in heap : h.key = l /\ items[l] # h}
      BY <2>2, <1>1, <1>2, <1>3
    <3>2. stale'[l] = stale[l]
      BY <2>2, <1>2, <1>3 DEF Inv, TypeOK
    <3> QED BY <2>1, <3>1, <3>2
  <2>3. CASE l = k
    <3>1. \A h \in heap' : items'[k] # h
      BY <1>1, <1>3, NoItemAssumption DEF Inv, TypeOK
    <3>2. CASE items[k].exp < 0
      <4>1. {h \in heap' : h.key = k /\ items'[k] # h}
              = {h \in heap : h.key = k /\ items[k] # h} \cup {items[k]}
        BY <3>1, <3>2, <1>2, <1>3
      <4>2. stale'[k] = stale[k] \cup {items[k].exp}
        BY <3>2, <1>3 DEF Inv, TypeOK
      <4> QED BY <2>1, <2>3, <4>1, <4>2
    <3>3. CASE ~(items[k].exp < 0)
      <4>1. items[k] \notin heap'
        BY <3>3, <1>2, <1>3 DEF Inv, ItemsDistinct
      <4>2. {h \in heap' : h.key = k /\ items'[k] # h}
              = {h \in heap : h.key = k /\ items[k] # h}
        BY <3>1, <4>1, <1>3
      <4>3. stale' = stale
        BY <3>3, <1>2, <1>3
      <4> QED BY <2>1, <2>3, <4>2, <4>3
    <3> QED BY <3>2, <3>3
  <2> QED BY <2>2, <2>3
<1>7. ItemsDistinct'
  BY <1>1, <1>3 DEF Inv, ItemsDistinct, Stored
<1> QED BY <1>4, <1>5, <1>6, <1>7 DEF Inv

LEMMA CleanupInv ==
    ASSUME Inv, Cleanup
    PROVE  Inv'
<1> DEFINE gone == {k \in Keys : \E i \in Due : i.key = k}
<1>1. /\ heap' = heap \ Due
      /\ items' = [k \in Keys |-> IF k \in gone THEN NoItem ELSE items[k]]
      /\ stale' = [k \in Keys |->
                     {d \in stale[k] : d > now}
                     \cup {items[l].exp : l \in
                             {m \in {k} \cap gone : Stored(m) /\ items[m].exp > now}}]
      /\ now' = now
  BY DEF Cleanup
<1>2. /\ now \in Int /\ now >= 0
      /\ \A i \in heap : i.exp \in Int /\ i.key \in Keys
      /\ \A k \in Keys : Stored(k) => items[k].exp \in Int /\ items[k].key = k
  BY ClockAssumption DEF Inv, TypeOK, Item, Stored
<1>3. /\ heap' = {i \in heap : i.exp > now}
      /\ \A k \in gone : items'[k] = NoItem
      /\ \A k \in Keys \ gone : items'[k] = items[k]
  BY <1>1, <1>2 DEF Due
<1>4. \A i \in heap : i.exp <= now => i.key \in gone
  BY <1>2 DEF Due
<1> HIDE DEF gone
<1>5. TypeOK'
  <2>1. items' \in [Keys -> Item \cup {NoItem}] /\ heap' \subseteq Item
    BY <1>1 DEF Inv, TypeOK
  <2>2. stale' \in [Keys -> SUBSET Int]
    <3> SUFFICES ASSUME NEW k \in Keys
                 PROVE  {d \in stale[k] : d > now}
                        \cup {items[l].exp : l \in
                                {m \in {k} \cap gone : Stored(m) /\ items[m].exp > now}}
                        \in SUBSET Int
      BY <1>1
    <3> QED BY <1>2 DEF Inv, TypeOK
  <2>3. \A k \in Keys : items'[k] # NoItem => items'[k].key = k
    BY <1>3 DEF Inv, TypeOK, Stored
  <2> QED BY <1>1, <2>1, <2>2, <2>3 DEF Inv, TypeOK, Stored
<1>6. DeadlinesQueued'
  <2> SUFFICES ASSUME NEW k \in Keys, items'[k] # NoItem, items'[k].exp # 0
               PROVE  items'[k] \in heap'
    BY DEF DeadlinesQueued, Stored
  <2>1. k \notin gone /\ items'[k] = items[k]
    BY <1>3
  <2>2. items[k] \in heap /\ items[k].key = k
    BY <2>1, <1>2 DEF Inv, DeadlinesQueued, Stored
  <2> QED BY <2>1, <2>2, <1>2, <1>3, <1>4
<1>7. StaleAccounted'
  <2> SUFFICES ASSUME NEW k \in Keys
               PROVE  {j.exp : j \in {h \in heap' : h.key = k /\ items'[k] # h}} = stale'[k]
    BY DEF StaleAccounted
  <2> DEFINE old == {h \in heap : h.key = k /\ items[k] # h}
             new == {h \in heap' : h.key = k /\ items'[k] # h}
  <2>1. {j.exp : j \in old} = stale[k]
    BY DEF Inv, StaleAccounted
  <2>2. {j.exp : j \in {h \in old : h.exp > now}} = {d \in stale[k] : d > now}
    BY <2>1
  <2>3. CASE k \in gone /\ Stored(k) /\ items[k].exp > now
    <3>1. items[k] \in heap
      BY <2>3, <1>2 DEF Inv, DeadlinesQueued
    <3>2. new = {h \in old : h.exp > now} \cup {items[k]}
      <4>1. \A h \in heap : items'[k] # h
        BY <2>3, <1>3, NoItemAssumption DEF Inv, TypeOK
      <4> QED BY <2>3, <3>1, <4>1, <1>2, <1>3
    <3>3. stale'[k] = {d \in stale[k] : d > now} \cup {items[k].exp}
      BY <2>3, <1>1
    <3>4. {j.exp : j \in new} = {j.exp : j \in {h \in old : h.exp > now}} \cup {items[k].exp}
      BY <3>2
    <3> QED BY <2>2, <3>3, <3>4
  <2>4. CASE ~(k \in gone /\ Stored(k) /\ items[k].exp > now)
    <3>1. new = {h \in old : h.exp > now}
      <4>1. CASE k \notin gone
        BY <4>1, <1>3
      <4>2. CASE k \in gone
        <5>1. \A h \in heap : items'[k] # h
          BY <4>2, <1>3, NoItemAssumption DEF Inv, TypeOK
        <5>2. \A h \in heap : h.exp > now => items[k] # h
          BY <4>2, <2>4, NoItemAssumption DEF Inv, TypeOK, Stored
        <5> QED BY <5>1, <5>2, <1>3
      <4> QED BY <4>1, <4>2
    <3>2. stale'[k] = {d \in stale[k] : d > now}
      BY <2>4, <1>1
    <3> QED BY <2>2, <3>1, <3>2
  <2> QED BY <2>3, <2>4
<1>8. ItemsDistinct'
  BY <1>3 DEF Inv, ItemsDistinct, Stored
<1> QED BY <1>5, <1>6, <1>7, <1>8 DEF Inv

\* The batch SET and OptimizedSet: like Put, but the replaced item leaves the
\* heap with its map entry, unless its deadline wrapped.
LEMMA ReplaceInv ==
    ASSUME Inv, NEW k \in Keys, NEW v \in Values, NEW ttl \in -Half .. Half - 1, NEW id \in Ids,
           Replace(k, v, ttl, id)
    PROVE  Inv'
<1> DEFINE i == [id |-> id, key |-> k, value |-> v, exp |-> Expiration(ttl)]
           old == IF Stored(k) /\ items[k].exp > 0 THEN {items[k]} ELSE {}
<1>1. /\ i \in Item /\ i # NoItem
      /\ ttl > 0 <=> i.exp # 0
      /\ i.id = id /\ i.key = k
  BY ExpirationRange, NoItemAssumption DEF Inv, Item
<1>2. /\ id \notin InUse
      /\ items' = [items EXCEPT ![k] = i]
      /\ heap' = (IF ttl > 0 THEN heap \cup {i} ELSE heap) \ old
      /\ stale' = IF Stored(k) /\ items[k].exp < 0
                  THEN [stale EXCEPT ![k] = @ \cup {items[k].exp}]
                  ELSE stale
      /\ now' = now
      /\ Stored(k) => items[k].exp \in Int /\ items[k].key = k
  BY ClockAssumption DEF Replace, Inv, TypeOK, Stored, Item
<1> HIDE DEF i
<1>3. /\ items'[k] = i
      /\ \A l \in Keys : l # k => items'[l] = items[l]
  BY <1>2 DEF Inv, TypeOK
<1>4. /\ \A j \in heap : j.id # id
      /\ \A l \in Keys : Stored(l) => items[l].id # id
      /\ i \notin heap
  BY <1>1, <1>2 DEF InUse
<1>5. /\ heap \cap old = old
      /\ \A h \in heap : items[k] = h /\ items[k].exp > 0 => h \in old
      /\ \A h \in heap : items[k] = h => Stored(k) /\ items[k].exp # 0
      /\ \A h \in old : h.key = k
      /\ i \notin old
  <2>1. Stored(k) /\ items[k].exp > 0 => items[k] \in heap /\ items[k].key = k
    BY <1>2 DEF Inv, DeadlinesQueued, TypeOK
  <2>2. \A h \in heap : items[k] = h => Stored(k) /\ items[k].exp # 0
    BY NoItemAssumption DEF Inv, TypeOK, ItemsDistinct, Stored
  <2> QED BY <2>1, <2>2, <1>4
<1>6. TypeOK'
  <2>1. items' \in [Keys -> Item \cup {NoItem}] /\ heap' \subseteq Item
    BY <1>1, <1>2 DEF Inv, TypeOK
  <2>2. \A l \in Keys : items'[l] # NoItem => items'[l].key = l
    BY <1>1, <1>3 DEF Inv, TypeOK, Stored
  <2>3. stale' \in [Keys -> SUBSET Int]
    BY <1>2 DEF Inv, TypeOK
  <2> QED BY <1>2, <2>1, <2>2, <2>3 DEF Inv, TypeOK, Stored
<1>7. DeadlinesQueued'
  <2> SUFFICES ASSUME NEW l \in Keys, items'[l] # NoItem, items'[l].exp # 0
               PROVE  items'[l] \in heap'
    BY DEF DeadlinesQueued, Stored
  <2>1. CASE l = k
    BY <2>1, <1>1, <1>2, <1>3, <1>5
  <2>2. CASE l # k
    <3>1. items[l] \in heap /\ items[l].key = l
      BY <2>2, <1>3 DEF Inv, DeadlinesQueued, TypeOK, Stored
    <3> QED BY <2>2, <3>1, <1>2, <1>3, <1>5
  <2> QED BY <2>1, <2>2
<1>8. StaleAccounted'
  <2> SUFFICES ASSUME NEW l \in Keys
               PROVE  {j.exp : j \in {h \in heap' : h.key = l /\ items'[l] # h}} = stale'[l]
    BY DEF StaleAccounted
  <2>1. {j.exp : j \in {h \in heap : h.key = l /\ items[l] # h}} = stale[l]
    BY DEF Inv, StaleAccounted
  <2>2. CASE l # k
    <3>1. {h \in heap' : h.key = l /\ items'[l] # h}
            = {h \in heap : h.key = l /\ items[l] # h}
      <4> HIDE DEF old
      <4> QED BY <2>2, <1>1, <1>2, <1>3, <1>5
    <3>2. stale'[l] = stale[l]
      BY <2>2, <1>2 DEF Inv, TypeOK
    <3> QED BY <2>1, <3>1, <3>2
  <2>3. CASE l = k /\ Stored(k) /\ items[k].exp < 0
    <3>1. old = {} /\ items[k] \in heap /\ items[k].key = k
      BY <2>3, <1>2 DEF Inv, DeadlinesQueued
    <3>2. {h \in heap' : h.key = k /\ items'[k] # h}
            = {h \in heap : h.key = k /\ items[k] # h} \cup {items[k]}
      BY <3>1, <1>2, <1>3, <1>4
    <3>3. stale'[k] = stale[k] \cup {items[k].exp}
      BY <2>3, <1>2 DEF Inv, TypeOK
    <3> QED BY <2>1, <2>3, <3>2, <3>3
  <2>4. CASE l = k /\ ~(Stored(k) /\ items[k].exp < 0)
    <3>1. \A h \in heap : h \in old <=> items[k] = h
      BY <2>4, <1>2, <1>5
    <3>2. {h \in heap' : h.key = l /\ items'[l] # h}
            = {h \in heap : h.key = l /\ items[l] # h}
      <4> HIDE DEF old
      <4> QED BY <2>4, <3>1, <1>1, <1>2, <1>3, <1>4, <1>5
    <3>3. stale' = stale
      BY <2>4, <1>2
    <3> QED BY <2>1, <3>2, <3>3
  <2> QED BY <2>2, <2>3, <2>4
<1>9. ItemsDistinct'
  <2>1. heap' \subseteq heap \cup {i} /\ (i \in heap' => i.exp # 0)
    BY <1>1, <1>2, <1>4
  <2>2. \A a, b \in heap' : a.id = b.id => a = b
    BY <2>1, <1>1, <1>4 DEF Inv, ItemsDistinct
  <2>3. \A l \in Keys : \A a \in heap' :
            items'[l] # NoItem /\ items'[l].id = a.id => items'[l] = a
    BY <2>1, <1>1, <1>3, <1>4 DEF Inv, ItemsDistinct, Stored
  <2>4. \A l, m \in Keys : items'[l] # NoItem /\ items'[m] # NoItem
                           /\ items'[l].id = items'[m].id => l = m
    BY <1>1, <1>3, <1>4 DEF Inv, ItemsDistinct, Stored
  <2>5. \A a \in heap' : a.exp # 0
    BY <2>1 DEF Inv, ItemsDistinct
  <2> QED BY <2>2, <2>3, <2>4, <2>5 DEF ItemsDistinct, Stored
<1> QED BY <1>6, <1>7, <1>8, <1>9 DEF Inv

\* The batch GET of an expired key takes the item out of map and heap together.
LEMMA EvictInv ==
    ASSUME Inv, NEW k \in Keys, Evict(k)
    PROVE  Inv'
<1>1. /\ items[k] # NoItem
      /\ items' = [items EXCEPT ![k] = NoItem]
      /\ heap' = heap \ {items[k]}
      /\ stale' = stale /\ now' = now
      /\ items'[k] = NoItem
      /\ \A l \in Keys : l # k => items'[l] = items[l]
  BY DEF Evict, DueAt, Stored, Inv, TypeOK
<1>2. items[k].key = k
  BY <1>1 DEF Inv, TypeOK, Stored
<1>3. \A h \in heap : h # NoItem
  BY NoItemAssumption DEF Inv, TypeOK
<1>4. TypeOK'
  <2>1. items' \in [Keys -> Item \cup {NoItem}] /\ heap' \subseteq Item
    BY <1>1 DEF Inv, TypeOK
  <2>2. \A l \in Keys : items'[l] # NoItem => items'[l].key = l
    BY <1>1 DEF Inv, TypeOK, Stored
  <2> QED BY <1>1, <2>1, <2>2 DEF Inv, TypeOK, Stored
<1>5. DeadlinesQueued'
  <2> SUFFICES ASSUME NEW l \in Keys, items'[l] # NoItem, items'[l].exp # 0
               PROVE  items'[l] \in heap'
    BY DEF DeadlinesQueued, Stored
  <2>1. l # k /\ items'[l] = items[l]
    BY <1>1
  <2>2. items[l] \in heap /\ items[l].key = l
    BY <2>1 DEF Inv, DeadlinesQueued, TypeOK, Stored
  <2> QED BY <2>1, <2>2, <1>1, <1>2
<1>6. StaleAccounted'
  <2> SUFFICES ASSUME NEW l \in Keys
               PROVE  {h \in heap' : h.key = l /\ items'[l] # h}
                        = {h \in heap : h.key = l /\ items[l] # h}
    BY <1>1 DEF Inv, StaleAccounted
  <2>1. CASE l # k
    BY <2>1, <1>1, <1>2
  <2>2. CASE l = k
    BY <2>2, <1>1, <1>3
  <2> QED BY <2>1, <2>2
<1>7. ItemsDistinct'
  BY <1>1 DEF Inv, ItemsDistinct, Stored
<1> QED BY <1>4, <1>5, <1>6, <1>7 DEF Inv

LEMMA FlushAllInv ==
    ASSUME Inv, FlushAll
    PROVE  Inv'
BY DEF FlushAll, Inv, TypeOK, DeadlinesQueued, StaleAccounted, ItemsDistinct, Stored

LEMMA TickInv ==
    ASSUME Inv, Tick
    PROVE  Inv'
<1>1. now' \in 0 .. MaxNow
  BY ClockAssumption DEF Tick, Inv, TypeOK
<1> QED BY <1>1 DEF Tick, Inv, TypeOK, DeadlinesQueued, StaleAccounted, ItemsDistinct, Stored

LEMMA NextInv ==
    ASSUME Inv, [Next]_vars
    PROVE  Inv'
<1>1. CASE SomeSet
  BY <1>1, PutInv, TTLAssumption DEF SomeSet, Set
<1>2. CASE SomeSetNX
  BY <1>2, PutInv, TTLAssumption DEF SomeSetNX, SetNX
<1>3. CASE \E k \in Keys : Delete(k)
  BY <1>3, DeleteInv
<1>4. CASE Cleanup
  BY <1>4, CleanupInv
<1>5. CASE FlushAll
  BY <1>5, FlushAllInv
<1>6. CASE Tick
  BY <1>6, TickInv
<1>7. CASE SomeReplace
  BY <1>7, ReplaceInv, TTLAssumption DEF SomeReplace
<1>8. CASE \E k \in Keys : Evict(k)
  BY <1>8, EvictInv
<1>9. CASE UNCHANGED vars
  BY <1>9 DEF vars, Inv, TypeOK, DeadlinesQueued, StaleAccounted, ItemsDistinct, Stored
<1> QED BY <1>1, <1>2, <1>3, <1>4, <1>5, <1>6, <1>7, <1>8, <1>9 DEF Next

\* The invariants hold in every reachable state, for every choice of the
\* constants: Set, SetNX, Delete, Cleanup and FlushAll keep the map and the heap
\* of cache.go consistent.
THEOREM Safety == Spec => []Inv
<1>1. Init => Inv
  BY InitInv
<1>2. Inv /\ [Next]_vars => Inv'
  BY NextInv
<1> QED BY <1>1, <1>2, PTL DEF Spec

\* Every variable keeps its type, an item stays under its own key, and an
\* overflowing deadline is still an int64.
THEOREM TypeCorrect == Spec => []TypeOK
<1>1. Inv => TypeOK
  BY DEF Inv
<1> QED BY <1>1, Safety, PTL

\* Every stored item that has a deadline is in the heap Cleanup works from.
THEOREM EveryDeadlineQueued == Spec => []DeadlinesQueued
<1>1. Inv => DeadlinesQueued
  BY DEF Inv
<1> QED BY <1>1, Safety, PTL

\* The heap holds no deadline beyond those of stored items and those the history
\* accounts for.
THEOREM HeapAccounted == Spec => []StaleAccounted
<1>1. Inv => StaleAccounted
  BY DEF Inv
<1> QED BY <1>1, Safety, PTL

\* The one place where a value can go without being asked for is Cleanup, and
\* what it takes has a due item in the heap.
LEMMA LossOfOneStep ==
    ASSUME Inv, [Next]_vars
    PROVE  LossStep
<1> SUFFICES ASSUME NEW k \in Keys, Removes(k), ~Delete(k), ~FlushAll
             PROVE  \/ items[k].exp # 0 /\ items[k].exp <= now
                    \/ \E d \in stale[k] : d <= now
  BY DEF LossStep
<1>1. Stored(k) /\ items'[k] = NoItem /\ items[k] # NoItem
  BY DEF Removes, Stored
<1>2. CASE Cleanup
  <2>1. PICK i \in Due : i.key = k
    BY <1>1, <1>2 DEF Cleanup, Inv, TypeOK
  <2>2. i \in heap /\ i.exp <= now /\ i.exp # 0
    BY <2>1 DEF Due, Inv, ItemsDistinct
  <2>3. CASE items[k] = i
    BY <2>2, <2>3
  <2>4. CASE items[k] # i
    BY <2>1, <2>2, <2>4 DEF Inv, StaleAccounted
  <2> QED BY <2>3, <2>4
<1>3. ASSUME NEW l \in Keys, NEW v \in Values, NEW ttl \in -Half .. Half - 1, NEW id \in Ids,
             Put(l, v, ttl, id)
      PROVE  FALSE
  <2>1. [id |-> id, key |-> l, value |-> v, exp |-> Expiration(ttl)] # NoItem
    BY ExpirationRange, NoItemAssumption DEF Inv, Item
  <2>2. items'[k] # NoItem
    BY <1>1, <1>3, <2>1 DEF Put, Inv, TypeOK
  <2> QED BY <1>1, <2>2
<1>4. ASSUME NEW l \in Keys, Delete(l)
      PROVE  FALSE
  BY <1>1, <1>4 DEF Delete, Inv, TypeOK
<1>5. CASE SomeSet
  BY <1>3, <1>5, TTLAssumption DEF SomeSet, Set
<1>6. CASE SomeSetNX
  BY <1>3, <1>6, TTLAssumption DEF SomeSetNX, SetNX
<1>7. CASE Tick
  BY <1>1, <1>7 DEF Tick
<1>8. CASE SomeReplace
  <2> SUFFICES ASSUME NEW l \in Keys, NEW v \in Values, NEW ttl \in TTLs, NEW id \in Ids,
                      Replace(l, v, ttl, id)
               PROVE  FALSE
    BY <1>8 DEF SomeReplace
  <2>1. [id |-> id, key |-> l, value |-> v, exp |-> Expiration(ttl)] # NoItem
    BY ExpirationRange, NoItemAssumption, TTLAssumption DEF Inv, Item
  <2>2. items'[k] # NoItem
    BY <1>1, <2>1 DEF Replace, Inv, TypeOK
  <2> QED BY <1>1, <2>2
<1>9. ASSUME NEW l \in Keys, Evict(l)
      PROVE  items[k].exp # 0 /\ items[k].exp <= now
  <2>1. l = k
    BY <1>1, <1>9 DEF Evict, Inv, TypeOK
  <2> QED BY <1>9, <2>1 DEF Evict, DueAt
<1>10. CASE UNCHANGED vars
  BY <1>1, <1>10 DEF vars
<1> QED BY <1>2, <1>4, <1>5, <1>6, <1>7, <1>8, <1>9, <1>10 DEF Next

\* Nothing is lost without a deadline: a value that neither Delete nor FlushAll
\* removes goes only when its own deadline has come, or that of an older TTL
\* value of the key which Set and SetNX left in the heap.
THEOREM NoLossWithoutADeadline == Spec => LossHasADeadline
<1>1. Inv /\ [Next]_vars => [LossStep]_vars
  BY LossOfOneStep
<1> QED BY <1>1, Safety, PTL DEF Spec, LossHasADeadline

----------------------------------------------------------------------------
(* Clients that do not set a key over a value with a deadline.              *)

NoOverflow == \A ttl \in TTLs : MaxNow + ttl < Half

\* While no deadline wraps and no value with a deadline is overwritten, nothing is
\* left in the heap.
NothingLeft == /\ \A k \in Keys : stale[k] = {}
               /\ \A k \in Keys : Stored(k) => items[k].exp >= 0

LEMMA CarefulIsNext == CarefulNext => Next
BY DEF CarefulNext, CarefulSet, Next, SomeSet, SomeSetNX

LEMMA NothingLeftNext ==
    ASSUME NoOverflow, Inv, NothingLeft, [CarefulNext]_vars
    PROVE  NothingLeft'
<1>1. /\ now \in 0 .. MaxNow
      /\ items \in [Keys -> Item \cup {NoItem}] /\ stale \in [Keys -> SUBSET Int]
      /\ \A k \in Keys : Stored(k) => items[k].exp \in Int /\ items[k].exp >= 0
  BY ClockAssumption DEF Inv, TypeOK, NothingLeft, Item, Stored
<1>2. ASSUME NEW ttl \in TTLs
      PROVE  Expiration(ttl) >= 0
  <2>1. ttl \in Int /\ now \in Int /\ now >= 0 /\ now + ttl < Half /\ Half \in Nat
    BY <1>1, TTLAssumption, ClockAssumption DEF NoOverflow
  <2> QED BY <2>1 DEF Expiration, Wrap
<1>3. ASSUME NEW k \in Keys, NEW v \in Values, NEW ttl \in TTLs, NEW id \in Ids,
             (Undated(k) /\ Put(k, v, ttl, id)) \/ Replace(k, v, ttl, id)
      PROVE  NothingLeft'
  <2>1. stale' = stale
    BY <1>1, <1>3 DEF Put, Replace, Undated
  <2>2. \A l \in Keys : l # k => items'[l] = items[l]
    BY <1>1, <1>3 DEF Put, Replace
  <2>3. items'[k] = [id |-> id, key |-> k, value |-> v, exp |-> Expiration(ttl)]
    BY <1>1, <1>3 DEF Put, Replace
  <2>4. items'[k].exp >= 0
    BY <1>2, <2>3
  <2> QED BY <1>1, <2>1, <2>2, <2>4 DEF NothingLeft, Stored
<1>4. ASSUME NEW k \in Keys, Delete(k) \/ Evict(k)
      PROVE  NothingLeft'
  <2>1. stale' = stale
    <3>1. Delete(k) => ~(items[k].exp < 0)
      BY <1>1 DEF Delete
    <3> QED BY <1>1, <1>4, <3>1 DEF Delete, Evict
  <2>2. items' = [items EXCEPT ![k] = NoItem]
    BY <1>4 DEF Delete, Evict
  <2> QED BY <1>1, <2>1, <2>2 DEF NothingLeft, Stored
<1>5. CASE Cleanup
  <2>1. \A k \in Keys : items'[k] \in {items[k], NoItem}
    BY <1>5 DEF Cleanup
  <2>2. ASSUME NEW k \in Keys
        PROVE  stale'[k] = {}
    <3>1. stale[k] = {}
      BY DEF NothingLeft
    <3>2. ASSUME Stored(k), items[k].exp > now, NEW i \in Due, i.key = k
          PROVE  FALSE
      <4>1. i \in heap /\ i.exp <= now /\ i.exp \in Int
        BY <3>2, ClockAssumption DEF Due, Inv, TypeOK, Item
      <4>2. items[k] # i
        BY <1>1, <3>2, <4>1
      <4>3. i.exp \in {j.exp : j \in {h \in heap : h.key = k /\ items[k] # h}}
        BY <3>2, <4>1, <4>2
      <4> QED BY <3>1, <4>3 DEF Inv, StaleAccounted
    <3> QED BY <1>5, <3>1, <3>2 DEF Cleanup
  <2> QED BY <1>1, <2>1, <2>2 DEF NothingLeft, Stored
<1>6. CASE FlushAll \/ Tick \/ UNCHANGED vars
  BY <1>6 DEF FlushAll, Tick, vars, NothingLeft, Stored
<1> QED BY <1>3, <1>4, <1>5, <1>6
        DEF CarefulNext, CarefulSet, SomeReplace, Set, SetNX

\* What docs/COMMANDS.md promises of every key holds for clients that do not set a
\* key over a value with a deadline but DEL it first (or use the batch operations),
\* as long as no deadline exceeds an int64: a value then stays until its own
\* deadline, however Set, SetNX, Delete, the batches and Cleanup are interleaved
\* over all keys.
THEOREM KeptIfDeletedFirst == ASSUME NoOverflow PROVE CarefulSpec => KeptUntilDue
<1>1. Init => Inv /\ NothingLeft
  BY InitInv DEF Init, NothingLeft, Stored
<1>2. Inv /\ NothingLeft /\ [CarefulNext]_vars => (Inv /\ NothingLeft)'
  BY NextInv, NothingLeftNext, CarefulIsNext
<1>3. Inv /\ NothingLeft /\ [CarefulNext]_vars => [KeptStep]_vars
  BY LossOfOneStep, CarefulIsNext DEF LossStep, KeptStep, NothingLeft
<1> QED BY <1>1, <1>2, <1>3, PTL DEF CarefulSpec, KeptUntilDue
=============================================================================

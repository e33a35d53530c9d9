----------------------------- MODULE HeapCache -----------------------------
(***************************************************************************)
(* src/cache/cache.go with its real heap and its pool of items: the map    *)
(* and the heap hold addresses of items, Delete goes by the index the item *)
(* remembers, Cleanup by the first element of the array, and the batch     *)
(* operations give the items they take out of the map to itemPool, from    *)
(* which they draw new ones.  It implements Cache, whose heap is the set   *)
(* of the items the array leads to.                                        *)
(*                                                                         *)
(* A batch holds the lock over all its operations; the clock, which it     *)
(* reads once, does not move meanwhile.                                    *)
(***************************************************************************)
EXTENDS ExpirationHeap, FiniteSets, SequencesExt

CONSTANTS Keys, Values, Ids, NoItem, TTLs, Half, MaxNow,
          MaxBatch  \* bound: operations in a batch

ASSUME StoreAssumption == /\ Half \in Nat /\ MaxNow \in Nat /\ MaxNow < Half
                          /\ TTLs \subseteq -Half .. Half - 1
                          /\ MaxBatch \in Nat
                          /\ NoItem \notin Ids \cup [id : Ids, key : Keys, value : Values,
                                                     exp : -Half .. Half - 1]

VARIABLES items,    \* c.items: an address for each key, or NoItem
          expHeap,  \* c.expirationHeap: the array, and the items at all addresses
          pool,     \* the addresses in itemPool
          batch,    \* operations a BatchExecute still has to do
          now       \* time.Now().UnixNano()

vars == <<items, expHeap, pool, batch, now>>

Members == ToSet(expHeap.arr)
Stored(k) == items[k] # NoItem
Reached == {items[k] : k \in {l \in Keys : Stored(l)}}

ItemAt(id) == [id |-> id, key |-> expHeap.mem[id].key, value |-> expHeap.mem[id].value,
               exp |-> expHeap.mem[id].exp]
ItemOf(k) == IF Stored(k) THEN ItemAt(items[k]) ELSE NoItem

\* Deadlines of queued items that the map no longer holds, for each key.
Leftover == [k \in Keys |-> {expHeap.mem[id].exp : id \in
                {m \in Members : expHeap.mem[m].key = k /\ items[k] # m}}]

Abstract == INSTANCE Cache WITH items <- [k \in Keys |-> ItemOf(k)],
                                heap <- {ItemAt(id) : id \in Members},
                                stale <- Leftover

Exp(k) == expHeap.mem[items[k]].exp
Visible(k) == Stored(k) /\ ~(Exp(k) > 0 /\ now > Exp(k))

\* A CacheItem as the allocator and GetCacheItem return it.
Blank == [key |-> NoItem, value |-> NoItem, exp |-> 0, index |-> 0]

Init == /\ items = [k \in Keys |-> NoItem]
        /\ expHeap = [arr |-> <<>>, mem |-> [id \in Ids |-> Blank]]
        /\ pool = {}
        /\ batch = 0
        /\ now = 0

\* The new map, heap and pool; what none of them leads to is collected, and the
\* fields of a pooled item, which GetCacheItem resets, are reset now.
Become(map, h, p) ==
    LET live == {map[k] : k \in Keys} \cup ToSet(h.arr)
    IN /\ items' = map
       /\ expHeap' = [h EXCEPT !.mem = [id \in Ids |-> IF id \in live THEN @[id] ELSE Blank]]
       /\ pool' = p

----------------------------------------------------------------------------
(* The plain operations                                                     *)

Unlocked == batch = 0

Free == Ids \ (Members \cup Reached \cup pool)

\* Fill the fields of item id and push it when it has a ttl.
Fill(h, id, k, v, ttl) ==
    LET filled == [h EXCEPT !.mem[id] = [key |-> k, value |-> v,
                                         exp |-> Abstract!Expiration(ttl), index |-> 0]]
    IN IF ttl > 0 THEN HeapPush(filled, id) ELSE filled

Put(k, v, ttl) ==
    /\ Unlocked
    /\ Free # {}
    /\ LET id == CHOOSE x \in Free : TRUE
       IN Become([items EXCEPT ![k] = id], Fill(expHeap, id, k, v, ttl), pool)
    /\ UNCHANGED <<batch, now>>

Set(k, v, ttl) == Put(k, v, ttl)

SetNX(k, v, ttl) == ~Visible(k) /\ Put(k, v, ttl)

\* A plausible slip of Delete: the test of Expiration is missing, and an item
\* without a deadline has index 0, the place of the earliest deadline.
DeleteByIndex(k) ==
    /\ Unlocked
    /\ Stored(k)
    /\ Become([items EXCEPT ![k] = NoItem], RemoveItem(expHeap, items[k]), pool)
    /\ UNCHANGED <<batch, now>>

Delete(k) ==
    /\ Unlocked
    /\ Stored(k)
    /\ Become([items EXCEPT ![k] = NoItem],
              IF Exp(k) > 0 /\ expHeap.mem[items[k]].index >= 0
              THEN HeapRemove(expHeap, expHeap.mem[items[k]].index)
              ELSE expHeap,
              pool)
    /\ UNCHANGED <<batch, now>>

\* One turn of the loop of Cleanup, while the top of s.heap is due at s.time.
SweepTurn(s, turn) ==
    IF Len0(s.heap) = 0 \/ s.heap.mem[At(s.heap, 0)].exp > s.time
    THEN s
    ELSE [heap |-> HeapPop(s.heap),
          items |-> [k \in Keys |-> IF k = s.heap.mem[At(s.heap, 0)].key THEN NoItem
                                                                        ELSE s.items[k]],
          time |-> s.time]

\* The loop pops at most what there is: a fold of its body over the array.
Sweep(h, map) == FoldLeft(SweepTurn, [heap |-> h, items |-> map, time |-> now], h.arr)

Cleanup == /\ Unlocked
           /\ LET swept == Sweep(expHeap, items)
              IN Become(swept.items, swept.heap, pool)
           /\ UNCHANGED <<batch, now>>

FlushAll == /\ Unlocked
            /\ Become([k \in Keys |-> NoItem], [expHeap EXCEPT !.arr = <<>>], pool)
            /\ UNCHANGED <<batch, now>>

Tick == /\ Unlocked
        /\ now < MaxNow
        /\ now' = now + 1
        /\ UNCHANGED <<items, expHeap, pool, batch>>

----------------------------------------------------------------------------
(* The batch operations                                                     *)

\* The tail of the batch SET and of OptimizedSet, with an item from the pool, or
\* a new one: the item it replaces leaves the heap and goes to the pool.
PutPooled(k, v, ttl) ==
    \E source \in {pool, Free} :
        /\ source # {}
        /\ LET id == CHOOSE x \in source : TRUE
               filled == Fill(expHeap, id, k, v, ttl)
           IN Become([items EXCEPT ![k] = id],
                     IF Stored(k) /\ Exp(k) > 0 THEN RemoveItem(filled, items[k]) ELSE filled,
                     IF Stored(k) THEN (pool \ {id}) \cup {items[k]} ELSE pool \ {id})

OptimizedSet(k, v, ttl) == /\ Unlocked
                           /\ PutPooled(k, v, ttl)
                           /\ UNCHANGED <<batch, now>>

\* A plausible slip of the batch GET: the expired item stays in the heap.
BatchGetLeavesHeap(k) ==
    /\ IF Stored(k) /\ Exp(k) # 0 /\ Exp(k) <= now
       THEN Become([items EXCEPT ![k] = NoItem], expHeap, pool \cup {items[k]})
       ELSE UNCHANGED <<items, expHeap, pool>>

\* The batch GET: an expired item is removed, at its very deadline already.
BatchGet(k) ==
    IF Stored(k) /\ Exp(k) # 0 /\ Exp(k) <= now
    THEN Become([items EXCEPT ![k] = NoItem], RemoveItem(expHeap, items[k]),
                pool \cup {items[k]})
    ELSE UNCHANGED <<items, expHeap, pool>>

BatchDel(k) ==
    IF Stored(k)
    THEN Become([items EXCEPT ![k] = NoItem],
                IF Exp(k) > 0 THEN RemoveItem(expHeap, items[k]) ELSE expHeap,
                pool \cup {items[k]})
    ELSE UNCHANGED <<items, expHeap, pool>>

\* BatchExecute takes the lock, with n operations before it.
BatchBegin == \E n \in 1 .. MaxBatch : /\ Unlocked
                                       /\ batch' = n
                                       /\ UNCHANGED <<items, expHeap, pool, now>>

\* One turn of its loop; the lock is released after the last.
BatchStep ==
    /\ batch > 0
    /\ batch' = batch - 1
    /\ \E k \in Keys : \/ \E v \in Values, ttl \in TTLs : PutPooled(k, v, ttl)
                       \/ BatchGet(k)
                       \/ BatchDel(k)
    /\ UNCHANGED now

\* What the servers call.
PlainNext == \/ \E k \in Keys, v \in Values, ttl \in TTLs : Set(k, v, ttl) \/ SetNX(k, v, ttl)
             \/ \E k \in Keys : Delete(k)
             \/ Cleanup
             \/ FlushAll
             \/ Tick

\* The exported methods that reuse items of the pool.
PooledNext == \/ \E k \in Keys, v \in Values, ttl \in TTLs : OptimizedSet(k, v, ttl)
              \/ BatchBegin
              \/ BatchStep

Next == PlainNext \/ PooledNext

PlainSpec == Init /\ [][PlainNext]_vars

Spec == Init /\ [][Next]_vars

----------------------------------------------------------------------------
\* The index of an item the map can reach is its position in the array when the
\* item has a deadline: whatever mix of Set, Delete, Cleanup and batches came
\* before, Delete takes the item's own deadline out of the heap and no other key's.
IndexReachesItem ==
    \A k \in Keys : Stored(k) /\ Exp(k) # 0 =>
        /\ expHeap.mem[items[k]].index \in 0 .. Len0(expHeap) - 1
        /\ At(expHeap, expHeap.mem[items[k]].index) = items[k]

\* What is in the item pool is reachable from neither the map nor the heap, so
\* that a batch which reuses the item changes no other key's value or deadline.
PooledIsUnreachable == pool \cap (Members \cup Reached) = {}

\* The array implementation is the abstract store: popping while the top is due
\* pops exactly the due items, removing by index removes exactly that item, and
\* reused items are as good as new ones.
ImplementsCache == Abstract!Spec
=============================================================================

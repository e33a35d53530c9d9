------------------------------- MODULE Cache -------------------------------
(***************************************************************************)
(* The in-memory store of src/cache/cache.go: the map `items`, the         *)
(* expiration heap, and the operations that change them.  Every operation  *)
(* holds c.mu from its first line to its return, so each is one action.    *)
(*                                                                         *)
(* The heap is kept here as the set of items it contains (HeapCache has    *)
(* the array); an item is a record with the identity of its pointer, so    *)
(* that two items of the same key and deadline stay two items.             *)
(* Persistence is absent (c.persistence = nil).                            *)
(***************************************************************************)
EXTENDS Integers, FiniteSets

CONSTANTS Keys,    \* the strings used as keys
          Values,  \* what is stored under them
          Ids,     \* the addresses of CacheItem objects
          NoItem,  \* the answer of a map lookup that finds nothing
          TTLs,    \* the ttl arguments of the callers, in clock units
          Half,    \* an int64 ranges over -Half .. Half - 1
          MaxNow   \* bound: the clock stops here

ASSUME ClockAssumption == /\ Half \in Nat
                          /\ MaxNow \in Nat
                          /\ MaxNow < Half

ASSUME TTLAssumption == TTLs \subseteq -Half .. Half - 1

Item == [id : Ids, key : Keys, value : Values, exp : -Half .. Half - 1]

ASSUME NoItemAssumption == NoItem \notin Item

VARIABLES items,   \* c.items: a function from Keys to Item or NoItem
          heap,    \* the members of c.expirationHeap
          now,     \* time.Now().UnixNano()
          stale    \* history: for each key, the deadlines of TTL values that
                   \* left the map while their item stayed in the heap

vars == <<items, heap, now, stale>>

----------------------------------------------------------------------------
\* A plausible slip of Wrap: the sum is kept as an unbounded integer.
Unwrapped(x) == x

\* The two's complement value of an int64 sum that is below 2 * Half.
Wrap(x) == IF x >= Half THEN x - 2 * Half ELSE x

\* CacheItem.Expiration for a ttl: 0 means the item has no deadline.
Expiration(ttl) == IF ttl > 0 THEN Wrap(now + ttl) ELSE 0

Stored(k) == items[k] # NoItem

\* The test of Get, GetMultiple, SetNX, Keys and GetAllKeys.
Expired(i) == i.exp > 0 /\ now > i.exp

\* Get(k) returns found.
Visible(k) == Stored(k) /\ ~Expired(items[k])

\* Addresses the allocator cannot hand out: something still points at them.
InUse == {i.id : i \in heap} \cup {items[k].id : k \in {l \in Keys : Stored(l)}}

Init == /\ items = [k \in Keys |-> NoItem]
        /\ heap = {}
        /\ now = 0
        /\ stale = [k \in Keys |-> {}]

----------------------------------------------------------------------------
(* Plausible slips of the operations below; no action uses them. *)

\* SetNX and Set would forget heap.Push.
PutUnqueued(k, v, ttl, id) ==
    /\ id \notin InUse
    /\ items' = [items EXCEPT ![k] =
                   [id |-> id, key |-> k, value |-> v, exp |-> Expiration(ttl)]]
    /\ UNCHANGED <<heap, now, stale>>

\* Delete would leave the item of a deleted key in the heap.
DeleteLeavesHeap(k) == /\ Stored(k)
                       /\ items' = [items EXCEPT ![k] = NoItem]
                       /\ UNCHANGED <<heap, now, stale>>

\* Cleanup would pop items that are due in the next unit of time.
DueTooSoon == {i \in heap : i.exp <= now + 1}

----------------------------------------------------------------------------
\* The common tail of Set and SetNX: a new item, pushed on the heap when it
\* has a ttl, replaces whatever the map holds.  The item it replaces is not
\* taken out of the heap.
Put(k, v, ttl, id) ==
    LET i == [id |-> id, key |-> k, value |-> v, exp |-> Expiration(ttl)]
    IN /\ id \notin InUse
       /\ items' = [items EXCEPT ![k] = i]
       /\ heap' = IF ttl > 0 THEN heap \cup {i} ELSE heap
       /\ stale' = IF Stored(k) /\ items[k].exp # 0
                   THEN [stale EXCEPT ![k] = @ \cup {items[k].exp}]
                   ELSE stale
       /\ UNCHANGED now

Set(k, v, ttl, id) == Put(k, v, ttl, id)

SetNX(k, v, ttl, id) == /\ ~Visible(k)
                        /\ Put(k, v, ttl, id)

\* Delete of a stored key.  The heap is told only when Expiration > 0: an
\* item whose deadline wrapped to a negative number stays in the heap.
Delete(k) ==
    /\ Stored(k)
    /\ items' = [items EXCEPT ![k] = NoItem]
    /\ IF items[k].exp > 0
       THEN /\ heap' = heap \ {items[k]}
            /\ UNCHANGED stale
       ELSE /\ UNCHANGED heap
            /\ stale' = IF items[k].exp = 0
                        THEN stale
                        ELSE [stale EXCEPT ![k] = @ \cup {items[k].exp}]
    /\ UNCHANGED now

Due == {i \in heap : i.exp <= now}

\* The loop of Cleanup: pop while the top is due, and for every item popped
\* delete its key from the map, whichever item the map holds by now.
Cleanup ==
    LET gone == {k \in Keys : \E i \in Due : i.key = k}
    IN /\ Due # {}
       /\ heap' = heap \ Due
       /\ items' = [k \in Keys |-> IF k \in gone THEN NoItem ELSE items[k]]
       /\ stale' = [k \in Keys |->
                       {d \in stale[k] : d > now}
                       \cup {items[l].exp : l \in
                               {m \in {k} \cap gone : Stored(m) /\ items[m].exp > now}}]
       /\ UNCHANGED now

\* The batch SET and OptimizedSet, which take the item they replace out of the
\* heap when its Expiration is above 0; one whose deadline wrapped stays there.
\* They draw the new item from a pool to which they give the replaced one: that
\* an item is reused while its wrapped deadline is still queued is left to
\* HeapCache, which has the pool; here no new item shares an address.
Replace(k, v, ttl, id) ==
    LET i == [id |-> id, key |-> k, value |-> v, exp |-> Expiration(ttl)]
        old == IF Stored(k) /\ items[k].exp > 0 THEN {items[k]} ELSE {}
    IN /\ id \notin InUse
       /\ items' = [items EXCEPT ![k] = i]
       /\ heap' = (IF ttl > 0 THEN heap \cup {i} ELSE heap) \ old
       /\ stale' = IF Stored(k) /\ items[k].exp < 0
                   THEN [stale EXCEPT ![k] = @ \cup {items[k].exp}]
                   ELSE stale
       /\ UNCHANGED now

\* The value of k is past its deadline and not yet removed.
DueAt(k) == Stored(k) /\ items[k].exp # 0 /\ items[k].exp <= now

\* The batch GET of a key whose deadline has come.
Evict(k) == /\ DueAt(k)
            /\ items' = [items EXCEPT ![k] = NoItem]
            /\ heap' = heap \ {items[k]}
            /\ UNCHANGED <<now, stale>>

FlushAll ==
    /\ items' = [k \in Keys |-> NoItem]
    /\ heap' = {}
    /\ stale' = [k \in Keys |-> {}]
    /\ UNCHANGED now

Tick == /\ now < MaxNow
        /\ now' = now + 1
        /\ UNCHANGED <<items, heap, stale>>

SomeSet   == \E k \in Keys, v \in Values, ttl \in TTLs, id \in Ids : Set(k, v, ttl, id)
SomeSetNX == \E k \in Keys, v \in Values, ttl \in TTLs, id \in Ids : SetNX(k, v, ttl, id)
SomeReplace == \E k \in Keys, v \in Values, ttl \in TTLs, id \in Ids : Replace(k, v, ttl, id)

Next == \/ SomeSet
        \/ SomeSetNX
        \/ SomeReplace
        \/ \E k \in Keys : Delete(k)
        \/ \E k \in Keys : Evict(k)
        \/ Cleanup
        \/ FlushAll
        \/ Tick

Spec == Init /\ [][Next]_vars

\* Clients that never set a key over a value with a deadline: they DEL it first,
\* or wait until it is gone.
Undated(k) == Stored(k) => items[k].exp = 0

CarefulSet == \E k \in Keys, v \in Values, ttl \in TTLs, id \in Ids :
                 Undated(k) /\ (Set(k, v, ttl, id) \/ SetNX(k, v, ttl, id))

CarefulNext == \/ CarefulSet
               \/ SomeReplace
               \/ \E k \in Keys : Delete(k)
               \/ \E k \in Keys : Evict(k)
               \/ Cleanup
               \/ FlushAll
               \/ Tick

CarefulSpec == Init /\ [][CarefulNext]_vars

\* The cleaner's ticker calls Cleanup for ever, and time passes.
FairSpec == Spec /\ WF_vars(Cleanup) /\ WF_vars(Tick)

----------------------------------------------------------------------------
(* Properties *)

\* Types of the variables; an item is stored under its own key.
TypeOK == /\ now \in 0 .. MaxNow
          /\ heap \subseteq Item
          /\ items \in [Keys -> Item \cup {NoItem}]
          /\ \A k \in Keys : Stored(k) => items[k].key = k
          /\ stale \in [Keys -> SUBSET Int]

\* No deadline is forgotten: every stored item that has one is in the heap,
\* whichever of Set, SetNX, Delete and Cleanup touched the key before, so
\* Cleanup, which looks only at the heap, reaches it.
DeadlinesQueued ==
    \A k \in Keys : Stored(k) /\ items[k].exp # 0 => items[k] \in heap

\* The heap holds nothing else than the deadlines of the stored items and, for
\* each key, the deadlines of TTL values that Set or SetNX overwrote, that another
\* deadline of the key swept away, or that had wrapped when they were deleted or
\* replaced.
StaleAccounted ==
    \A k \in Keys :
        {i.exp : i \in {j \in heap : j.key = k /\ items[k] # j}} = stale[k]

Removes(k) == Stored(k) /\ items'[k] = NoItem

\* What Cleanup may take away: a stored value disappears without Delete or
\* FlushAll only when its own deadline, or the deadline of an older TTL value of
\* the same key that is still queued, has come.
LossStep == \A k \in Keys :
    Removes(k) => \/ Delete(k)
                  \/ FlushAll
                  \/ items[k].exp # 0 /\ items[k].exp <= now
                  \/ \E d \in stale[k] : d <= now

LossHasADeadline == [][LossStep]_vars

\* What a client is told (docs/COMMANDS.md: a SETNX with -t 1m is answered
\* NOT_SET for one minute): a value stays until its own deadline unless it is
\* deleted or flushed.
KeptStep == \A k \in Keys :
    Removes(k) => \/ Delete(k)
                  \/ FlushAll
                  \/ items[k].exp # 0 /\ items[k].exp <= now

KeptUntilDue == [][KeptStep]_vars

\* A key whose deadline has passed does not keep its memory for ever, though no
\* client asks for it again: the cleaner reaches it through the heap and removes
\* it, or a Set replaces it.
ExpiredReclaimed == \A k \in Keys : DueAt(k) ~> ~DueAt(k)
=============================================================================

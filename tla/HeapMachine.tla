----------------------------- MODULE HeapMachine -----------------------------
(***************************************************************************)
(* Any sequence of Push, Pop and Remove that src/cache/cache.go may make   *)
(* on one ExpirationHeap, to check the heap algorithms by themselves on    *)
(* longer heaps than the composition HeapCache can explore.                *)
(***************************************************************************)
EXTENDS ExpirationHeap, FiniteSets, SequencesExt

CONSTANTS HeapIds,   \* addresses of items; also the bound on the heap's length
          Deadlines  \* the values of Expiration

ASSUME DeadlinesAssumption == Deadlines # {} /\ Deadlines \subseteq Int

VARIABLE h  \* the heap

HeapMembers == ToSet(h.arr)

HInit == h = [arr |-> <<>>,
              mem |-> [id \in HeapIds |-> [exp |-> CHOOSE d \in Deadlines : TRUE,
                                           index |-> 0]]]

\* The allocator's answer for a new item: an address the heap does not hold.
FreshId == CHOOSE id \in HeapIds : id \notin HeapMembers

\* heap.Push(c.expirationHeap, &CacheItem{...}).
Push == /\ HeapMembers # HeapIds
        /\ \E d \in Deadlines :
              h' = HeapPush([h EXCEPT !.mem[FreshId] = [exp |-> d, index |-> 0]], FreshId)

\* One turn of Cleanup's loop.
Pop == /\ Len0(h) > 0
       /\ h' = HeapPop(h)

\* Delete of a key with a deadline, or a batch operation's Remove.
RemoveMember == \E id \in HeapMembers : h' = RemoveItem(h, id)

HNext == Push \/ Pop \/ RemoveMember

HSpec == HInit /\ [][HNext]_h

----------------------------------------------------------------------------
\* No parent has a later deadline than its child, so that the first element,
\* the only one Cleanup looks at, is the earliest.
HeapOrdered == \A p \in 1 .. Len0(h) - 1 : ~Less(h, p, (p - 1) \div 2)

\* Every member knows its position: Delete passes index to heap.Remove, and a
\* wrong one would take the deadline of another key away.
IndexCorrect == \A p \in 0 .. Len0(h) - 1 : h.mem[At(h, p)].index = p

\* Sifting neither loses nor duplicates: a step adds one item, takes out one
\* item marked with index -1, and Pop takes out an earliest one.
MembersStep ==
    /\ IsInjective(h.arr) /\ IsInjective(h'.arr)
    /\ \/ \E id \in HeapIds \ HeapMembers : ToSet(h'.arr) = HeapMembers \cup {id}
       \/ \E id \in HeapMembers :
             /\ ToSet(h'.arr) = HeapMembers \ {id}
             /\ h'.mem[id].index = -1
             /\ Pop => \A j \in HeapMembers : h.mem[id].exp <= h.mem[j].exp

OneMemberPerStep == [][MembersStep]_h
=============================================================================

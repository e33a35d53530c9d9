--------------------------- MODULE ExpirationHeap ---------------------------
(***************************************************************************)
(* The type ExpirationHeap of src/cache/cache.go and the functions of      *)
(* container/heap that drive it, as operators on a record                  *)
(*    [arr |-> the slice, a sequence of addresses (position p of the slice *)
(*             is arr[p + 1]),                                             *)
(*     mem |-> the CacheItem at every address, with at least the fields    *)
(*             exp and index].                                             *)
(* The operators are named for the functions, with the heap they return.   *)
(***************************************************************************)
EXTENDS Integers, Sequences, SequencesExt

At(h, p) == h.arr[p + 1]

Len0(h) == Len(h.arr)

Less(h, i, j) == h.mem[At(h, i)].exp < h.mem[At(h, j)].exp

\* A plausible slip of Swap: the second index is not updated.
SwapHalf(h, i, j) ==
    [arr |-> [h.arr EXCEPT ![i + 1] = At(h, j), ![j + 1] = At(h, i)],
     mem |-> [h.mem EXCEPT ![At(h, j)].index = i]]

\* Exchange two positions and record in both items where they are now.
Swap(h, i, j) ==
    [arr |-> [h.arr EXCEPT ![i + 1] = At(h, j), ![j + 1] = At(h, i)],
     mem |-> [h.mem EXCEPT ![At(h, j)].index = i, ![At(h, i)].index = j]]

\* The method Push: append, and tell the item its position.
AppendItem(h, id) == [arr |-> Append(h.arr, id),
                      mem |-> [h.mem EXCEPT ![id].index = Len0(h)]]

\* The method Pop: cut the last position off and mark its item as outside.
CutLast(h) == LET n == Len0(h)
              IN [arr |-> SubSeq(h.arr, 1, n - 1),
                  mem |-> [h.mem EXCEPT ![At(h, n - 1)].index = -1]]

(* The loops of heap.up and heap.down take at most as many turns as there   *)
(* are elements, and a turn past their end does nothing: each is a fold of  *)
(* its body over the array.                                                 *)

\* One turn of heap.up, at position s.at: raise it if it is less than its parent.
UpTurn(s, turn) ==
    LET parent == (s.at - 1) \div 2
    IN IF s.at = 0 \/ ~Less(s.heap, s.at, parent)
       THEN s
       ELSE [heap |-> Swap(s.heap, parent, s.at), at |-> parent]

Up(h, j) == FoldLeft(UpTurn, [heap |-> h, at |-> j], h.arr).heap

\* One turn of heap.down, at position s.at among the first s.n: sink it towards the
\* smaller child.
DownTurn(s, turn) ==
    LET left == 2 * s.at + 1
        right == left + 1
        child == IF right < s.n /\ Less(s.heap, right, left) THEN right ELSE left
    IN IF left >= s.n \/ ~Less(s.heap, child, s.at)
       THEN s
       ELSE [heap |-> Swap(s.heap, s.at, child), at |-> child, n |-> s.n]

Down(h, i, n) == FoldLeft(DownTurn, [heap |-> h, at |-> i, n |-> n], h.arr).heap

HeapPush(h, id) == Up(AppendItem(h, id), Len0(h))

\* A plausible slip of heap.Pop: the last item is handed out, not the first.
PopLast(h) == CutLast(h)

HeapPop(h) == LET n == Len0(h) - 1
              IN CutLast(Down(Swap(h, 0, n), 0, n))

\* A plausible slip of heap.Remove: the moved item is only ever sunk.
RemoveDownOnly(h, i) ==
    LET n == Len0(h) - 1
    IN CutLast(IF n = i THEN h ELSE Down(Swap(h, i, n), i, n))

\* heap.Remove: the last item takes the place of the removed one; it sinks,
\* and rises if it did not sink.
HeapRemove(h, i) ==
    LET n == Len0(h) - 1
        s == Swap(h, i, n)
        d == Down(s, i, n)
    IN CutLast(IF n = i THEN h ELSE IF d # s THEN d ELSE Up(s, i))

\* The method Remove of ExpirationHeap, used by the batch operations.
RemoveItem(h, id) ==
    IF h.mem[id].index \in 0 .. Len0(h) - 1
    THEN HeapRemove(h, h.mem[id].index)
    ELSE h
=============================================================================

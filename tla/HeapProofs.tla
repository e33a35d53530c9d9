------------------------------ MODULE HeapProofs ------------------------------
(***************************************************************************)
(* Theorems about the expiration heap and the store that is built on it.   *)
(*                                                                         *)
(* For any addresses and deadlines and heaps of any length: what Push, Pop *)
(* and Remove do to a heap, with the sifting of container/heap they run.   *)
(* From that, the invariants of HeapCache (map, heap and item pool) and of *)
(* HeapMachine (the heap by itself), and that HeapCache implements Cache.  *)
(***************************************************************************)
EXTENDS HeapCache, HeapMachine, TLAPS

Ups == INSTANCE SequenceLemmas WITH Op <- UpTurn
Downs == INSTANCE SequenceLemmas WITH Op <- DownTurn

----------------------------------------------------------------------------
(* Heaps and what holds of them. *)

\* The deadline at position p, and the parent of p.
Due(g, p) == g.mem[At(g, p)].exp
Parent(p) == (p - 1) \div 2

Reindex(r, i) == [r EXCEPT !.index = i]

\* Records of which index is one field and exp, a number, another.
Cells(R) ==
    \A r \in R :
        /\ r.exp \in Int
        /\ \A i \in Int : /\ Reindex(r, i) \in R
                          /\ Reindex(r, i).index = i
                          /\ Reindex(r, i).exp = r.exp
                          /\ \A j \in Int : Reindex(Reindex(r, i), j) = Reindex(r, j)

Heaps(I, R) == [arr : Seq(I), mem : [I -> R]]

Indexed(g) == \A p \in 0 .. Len0(g) - 1 : g.mem[At(g, p)].index = p

\* The first n positions are in heap order; or all are but position j, which may be
\* earlier than its parent; or all are but i, which may be later than its children.
OrderedTo(g, n) == \A p \in 1 .. n - 1 : Due(g, Parent(p)) <= Due(g, p)

UpOrdered(g, j, n) ==
    \A p \in 1 .. n - 1 :
        /\ p # j => Due(g, Parent(p)) <= Due(g, p)
        /\ j > 0 /\ Parent(p) = j => Due(g, Parent(j)) <= Due(g, p)

DownOrdered(g, i, n) ==
    \A p \in 1 .. n - 1 :
        /\ Parent(p) # i => Due(g, Parent(p)) <= Due(g, p)
        /\ i > 0 /\ Parent(p) = i => Due(g, Parent(i)) <= Due(g, p)

\* Heap f became g by exchanges among the first n positions.
Sifted(f, g, n) ==
    /\ Len0(g) = Len0(f)
    /\ Indexed(g)
    /\ \A p \in n .. Len0(f) - 1 : At(g, p) = At(f, p)
    /\ \A p \in 0 .. n - 1 : \E q \in 0 .. n - 1 : At(g, p) = At(f, q)
    /\ \A p \in 0 .. n - 1 : \E q \in 0 .. n - 1 : At(g, q) = At(f, p)

\* No item's fields change but index, and that only for items of the first n positions.
SameItems(f, g, n, I) ==
    \A id \in I :
        /\ g.mem[id] = f.mem[id] \/ \E i \in Int : g.mem[id] = Reindex(f.mem[id], i)
        /\ (\A p \in 0 .. n - 1 : At(f, p) # id) => g.mem[id] = f.mem[id]

LEMMA ParentFacts ==
    ASSUME NEW p \in Nat \ {0}
    PROVE  /\ Parent(p) \in Nat
           /\ Parent(p) < p
           /\ p = 2 * Parent(p) + 1 \/ p = 2 * Parent(p) + 2
BY DEF Parent

LEMMA ChildFacts ==
    ASSUME NEW i \in Nat
    PROVE  Parent(2 * i + 1) = i /\ Parent(2 * i + 2) = i
BY DEF Parent

LEMMA PlaceFacts ==
    ASSUME NEW I, NEW R, NEW g \in Heaps(I, R)
    PROVE  /\ Len0(g) \in Nat
           /\ \A p \in 0 .. Len0(g) - 1 : At(g, p) \in I
           /\ Cells(R) => \A p \in 0 .. Len0(g) - 1 : Due(g, p) \in Int
           /\ Indexed(g) => \A p, q \in 0 .. Len0(g) - 1 : At(g, p) = At(g, q) => p = q
<1>1. /\ Len0(g) \in Nat
      /\ \A p \in 0 .. Len0(g) - 1 : At(g, p) \in I
  BY DEF Heaps, Len0, At
<1>2. \A p \in 0 .. Len0(g) - 1 : g.mem[At(g, p)] \in R
  BY <1>1 DEF Heaps
<1>. QED BY <1>1, <1>2 DEF Cells, Due, Indexed

\* Swap exchanges two positions and nothing else.
LEMMA SwapFacts ==
    ASSUME NEW I, NEW R, Cells(R), NEW g \in Heaps(I, R), Indexed(g),
           NEW a \in 0 .. Len0(g) - 1, NEW b \in 0 .. Len0(g) - 1,
           NEW s, s = Swap(g, a, b)
    PROVE  /\ s \in Heaps(I, R)
           /\ Len0(s) = Len0(g)
           /\ At(s, a) = At(g, b) /\ At(s, b) = At(g, a)
           /\ \A p \in 0 .. Len0(g) - 1 : p # a /\ p # b => At(s, p) = At(g, p)
           /\ s.mem[At(g, b)] = Reindex(g.mem[At(g, b)], a)
           /\ s.mem[At(g, a)] = Reindex(g.mem[At(g, a)], b)
           /\ \A id \in I : id # At(g, a) /\ id # At(g, b) => s.mem[id] = g.mem[id]
<1>. DEFINE x == At(g, b)
            y == At(g, a)
<1>1. /\ x \in I /\ y \in I /\ a \in Int /\ b \in Int
      /\ x = y => a = b
  BY PlaceFacts
<1>2. /\ g.arr \in Seq(I) /\ g.mem \in [I -> R] /\ Len0(g) = Len(g.arr)
      /\ a + 1 \in 1 .. Len(g.arr) /\ b + 1 \in 1 .. Len(g.arr)
      /\ g.arr[a + 1] = y /\ g.arr[b + 1] = x
  BY DEF Heaps, Len0, At
<1>3. /\ s.arr = [g.arr EXCEPT ![a + 1] = x, ![b + 1] = y]
      /\ s.mem = [g.mem EXCEPT ![x].index = a, ![y].index = b]
      /\ s = [arr |-> s.arr, mem |-> s.mem]
  BY DEF Swap
<1>. HIDE DEF x, y
<1>4. /\ s.arr \in Seq(I) /\ Len(s.arr) = Len(g.arr)
      /\ s.arr[b + 1] = y
      /\ s.arr[a + 1] = x
      /\ \A p \in 1 .. Len(g.arr) : p # a + 1 /\ p # b + 1 => s.arr[p] = g.arr[p]
  BY <1>1, <1>2, <1>3
<1>5. /\ g.mem[x] \in R /\ g.mem[y] \in R
      /\ Reindex(g.mem[x], a) \in R /\ Reindex(g.mem[y], b) \in R
      /\ Reindex(Reindex(g.mem[x], a), b) = Reindex(g.mem[x], b)
  <2>1. g.mem[x] \in R /\ g.mem[y] \in R
    BY <1>1, <1>2
  <2>. QED BY <1>1, <2>1 DEF Cells
<1>6. \A id \in I : id # x /\ id # y => s.mem[id] = g.mem[id]
  BY <1>1, <1>2, <1>3
<1>7. s.mem[y] = Reindex(g.mem[y], b)
  <2>1. CASE x # y
    BY <1>1, <1>2, <1>3, <2>1 DEF Reindex
  <2>2. CASE x = y
    <3>1. s.mem[y] = Reindex(Reindex(g.mem[x], a), b)
      BY <1>1, <1>2, <1>3, <2>2 DEF Reindex
    <3>. QED BY <1>5, <2>2, <3>1
  <2>. QED BY <2>1, <2>2
<1>8. s.mem[x] = Reindex(g.mem[x], a)
  <2>1. CASE x # y
    BY <1>1, <1>2, <1>3, <2>1 DEF Reindex
  <2>2. CASE x = y
    BY <1>1, <1>7, <2>2
  <2>. QED BY <2>1, <2>2
<1>9. s.mem \in [I -> R]
  <2>1. s.mem = [id \in I |-> s.mem[id]]
    BY <1>2, <1>3
  <2>2. \A id \in I : s.mem[id] \in R
    BY <1>2, <1>5, <1>6, <1>7, <1>8
  <2>. QED BY <2>1, <2>2
<1>10. s \in Heaps(I, R)
  BY <1>3, <1>4, <1>9 DEF Heaps
<1>. QED BY <1>2, <1>4, <1>6, <1>7, <1>8, <1>10, SMTT(40) DEF At, Len0, x, y

\* Every item knows its new place, and the deadlines move with the items.
LEMMA SwapDue ==
    ASSUME NEW I, NEW R, Cells(R), NEW g \in Heaps(I, R), Indexed(g),
           NEW a \in 0 .. Len0(g) - 1, NEW b \in 0 .. Len0(g) - 1,
           NEW s, s = Swap(g, a, b)
    PROVE  /\ Indexed(s)
           /\ Due(s, a) = Due(g, b) /\ Due(s, b) = Due(g, a)
           /\ \A p \in 0 .. Len0(g) - 1 : p # a /\ p # b => Due(s, p) = Due(g, p)
<1>. DEFINE x == At(g, b)
            y == At(g, a)
<1>1. /\ Len0(s) = Len0(g)
      /\ At(s, a) = x /\ At(s, b) = y
      /\ \A p \in 0 .. Len0(g) - 1 : p # a /\ p # b => At(s, p) = At(g, p)
      /\ s.mem[x] = Reindex(g.mem[x], a)
      /\ s.mem[y] = Reindex(g.mem[y], b)
      /\ \A id \in I : id # y /\ id # x => s.mem[id] = g.mem[id]
  BY SwapFacts
<1>2. /\ Len0(g) \in Nat
      /\ \A p \in 0 .. Len0(g) - 1 : At(g, p) \in I
      /\ \A p, q \in 0 .. Len0(g) - 1 : At(g, p) = At(g, q) => p = q
  BY PlaceFacts
<1>3. x \in I /\ y \in I /\ g.mem[x] \in R /\ g.mem[y] \in R /\ a \in Int /\ b \in Int
  BY <1>2 DEF Heaps
<1>4. /\ s.mem[x].index = a /\ s.mem[x].exp = g.mem[x].exp
      /\ s.mem[y].index = b /\ s.mem[y].exp = g.mem[y].exp
  BY <1>1, <1>3 DEF Cells
<1>5. \A p \in 0 .. Len0(g) - 1 : p # a /\ p # b =>
         /\ At(s, p) = At(g, p)
         /\ s.mem[At(g, p)] = g.mem[At(g, p)]
  BY <1>1, <1>2
<1>6. \A p \in 0 .. Len0(g) - 1 : p # a /\ p # b => Due(s, p) = Due(g, p)
  BY <1>5 DEF Due
<1>7. Due(s, a) = Due(g, b) /\ Due(s, b) = Due(g, a)
  BY <1>1, <1>4 DEF Due
<1>8. Indexed(s)
  <2>. SUFFICES ASSUME NEW p \in 0 .. Len0(g) - 1
                PROVE  s.mem[At(s, p)].index = p
    BY <1>1 DEF Indexed
  <2>1. CASE p = a
    BY <1>1, <1>4, <2>1
  <2>2. CASE p = b
    BY <1>1, <1>4, <2>2
  <2>3. CASE p # a /\ p # b
    BY <1>5, <2>3 DEF Indexed
  <2>. QED BY <2>1, <2>2, <2>3
<1>. QED BY <1>6, <1>7, <1>8

LEMMA SiftedSelf ==
    ASSUME NEW I, NEW R, Cells(R), NEW g \in Heaps(I, R), Indexed(g),
           NEW n \in 0 .. Len0(g)
    PROVE  Sifted(g, g, n) /\ SameItems(g, g, n, I)
BY DEF Sifted, SameItems

\* One more exchange among the first n positions.
LEMMA SwapSifted ==
    ASSUME NEW I, NEW R, Cells(R), NEW f \in Heaps(I, R), NEW g \in Heaps(I, R),
           NEW n \in 0 .. Len0(f), Sifted(f, g, n), SameItems(f, g, n, I),
           NEW a \in 0 .. n - 1, NEW b \in 0 .. n - 1,
           NEW s, s = Swap(g, a, b)
    PROVE  s \in Heaps(I, R) /\ Sifted(f, s, n) /\ SameItems(f, s, n, I)
<1>1. /\ Len0(f) \in Nat /\ Len0(g) = Len0(f) /\ Indexed(g)
      /\ a \in 0 .. Len0(g) - 1 /\ b \in 0 .. Len0(g) - 1
      /\ a \in Int /\ b \in Int
  BY PlaceFacts DEF Sifted
<1>2. /\ s \in Heaps(I, R) /\ Len0(s) = Len0(g) /\ Indexed(s)
      /\ At(s, a) = At(g, b) /\ At(s, b) = At(g, a)
      /\ \A p \in 0 .. Len0(g) - 1 : p # a /\ p # b => At(s, p) = At(g, p)
      /\ s.mem[At(g, b)] = Reindex(g.mem[At(g, b)], a)
      /\ s.mem[At(g, a)] = Reindex(g.mem[At(g, a)], b)
      /\ \A id \in I : id # At(g, a) /\ id # At(g, b) => s.mem[id] = g.mem[id]
  <2>1. Indexed(s)
    BY <1>1, SwapDue
  <2>. QED BY <1>1, <2>1, SwapFacts
<1>3. Sifted(f, s, n)
  <2>1. \A p \in n .. Len0(f) - 1 : At(s, p) = At(f, p)
    BY <1>1, <1>2 DEF Sifted
  <2>2. \A p \in 0 .. n - 1 : \E q \in 0 .. n - 1 : At(s, p) = At(g, q)
    BY <1>1, <1>2
  <2>3. \A p \in 0 .. n - 1 : \E q \in 0 .. n - 1 : At(s, q) = At(g, p)
    BY <1>1, <1>2
  <2>4. \A p \in 0 .. n - 1 : \E q \in 0 .. n - 1 : At(s, p) = At(f, q)
    BY <2>2 DEF Sifted
  <2>5. \A p \in 0 .. n - 1 : \E q \in 0 .. n - 1 : At(s, q) = At(f, p)
    BY <2>3 DEF Sifted
  <2>. QED BY <1>1, <1>2, <2>1, <2>4, <2>5 DEF Sifted
<1>4. ASSUME NEW id \in I, NEW c \in Int, s.mem[id] = Reindex(g.mem[id], c)
      PROVE  \E i \in Int : s.mem[id] = Reindex(f.mem[id], i)
  <2>1. CASE g.mem[id] = f.mem[id]
    BY <1>4, <2>1
  <2>2. CASE g.mem[id] # f.mem[id]
    <3>1. PICK i \in Int : g.mem[id] = Reindex(f.mem[id], i)
      BY <2>2 DEF SameItems
    <3>2. f.mem[id] \in R
      BY DEF Heaps
    <3>3. Reindex(Reindex(f.mem[id], i), c) = Reindex(f.mem[id], c)
      BY <3>2 DEF Cells
    <3>. QED BY <1>4, <3>1, <3>3
  <2>. QED BY <2>1, <2>2
<1>5. ASSUME NEW id \in I
      PROVE  s.mem[id] = f.mem[id] \/ \E i \in Int : s.mem[id] = Reindex(f.mem[id], i)
  <2>1. CASE id = At(g, a)
    BY <1>1, <1>2, <1>4, <2>1
  <2>2. CASE id = At(g, b)
    BY <1>1, <1>2, <1>4, <2>2
  <2>3. CASE id # At(g, a) /\ id # At(g, b)
    BY <1>2, <2>3 DEF SameItems
  <2>. QED BY <2>1, <2>2, <2>3
<1>6. ASSUME NEW id \in I, \A p \in 0 .. n - 1 : At(f, p) # id
      PROVE  s.mem[id] = f.mem[id]
  <2>1. id # At(g, a) /\ id # At(g, b)
    BY <1>6 DEF Sifted
  <2>. QED BY <1>2, <1>6, <2>1 DEF SameItems
<1>7. SameItems(f, s, n, I)
  BY <1>5, <1>6 DEF SameItems
<1>. QED BY <1>2, <1>3, <1>7

----------------------------------------------------------------------------
(* Sifting. *)

\* An item that is earlier than its parent is exchanged with it: what may be out of
\* order is then one level higher.
LEMMA RaiseOrdered ==
    ASSUME NEW I, NEW R, Cells(R), NEW g \in Heaps(I, R), Indexed(g),
           NEW n \in 0 .. Len0(g), NEW j \in 1 .. n - 1,
           UpOrdered(g, j, n), Due(g, j) < Due(g, Parent(j)),
           NEW s, s = Swap(g, Parent(j), j)
    PROVE  UpOrdered(s, Parent(j), n)
<1>. DEFINE u == Parent(j)
<1>1. /\ Len0(g) \in Nat /\ n \in Nat /\ j \in Nat /\ u \in Nat /\ u < j
      /\ u \in 0 .. Len0(g) - 1 /\ j \in 0 .. Len0(g) - 1
      /\ \A p \in 0 .. n - 1 : Due(g, p) \in Int
  BY PlaceFacts, ParentFacts
<1>2. /\ Due(s, u) = Due(g, j) /\ Due(s, j) = Due(g, u)
      /\ \A p \in 0 .. n - 1 : p # u /\ p # j => Due(s, p) = Due(g, p)
  BY <1>1, SwapDue
<1>3. ASSUME NEW p \in 1 .. n - 1
      PROVE  /\ Parent(p) \in 0 .. n - 1 /\ Parent(p) < p /\ p \in 0 .. n - 1
             /\ Due(g, p) \in Int /\ Due(g, Parent(p)) \in Int
             /\ p # j => Due(g, Parent(p)) <= Due(g, p)
             /\ Parent(p) = j => Due(g, u) <= Due(g, p)
  <2>1. p \in Nat \ {0} /\ p \in 0 .. n - 1 /\ j > 0
    BY <1>1
  <2>2. Parent(p) \in 0 .. n - 1 /\ Parent(p) < p
    BY <1>1, <2>1, ParentFacts
  <2>. QED BY <1>1, <2>1, <2>2 DEF UpOrdered
<1>4. Due(g, j) < Due(g, u) /\ u \in 0 .. n - 1 /\ j \in 0 .. n - 1
  BY <1>1
<1>. HIDE DEF u
<1>5. ASSUME NEW p \in 1 .. n - 1, p # u
      PROVE  Due(s, Parent(p)) <= Due(s, p)
  <2>1. CASE p = j
    BY <1>1, <1>2, <1>4, <2>1 DEF u
  <2>2. CASE p # j /\ Parent(p) = j
    BY <1>2, <1>3, <1>5, <2>2
  <2>3. CASE p # j /\ Parent(p) = u
    BY <1>1, <1>2, <1>3, <1>4, <1>5, <2>3
  <2>4. CASE p # j /\ Parent(p) # j /\ Parent(p) # u
    BY <1>2, <1>3, <1>5, <2>4
  <2>. QED BY <2>1, <2>2, <2>3, <2>4
<1>6. ASSUME NEW p \in 1 .. n - 1, u > 0, Parent(p) = u
      PROVE  Due(s, Parent(u)) <= Due(s, p)
  <2>1. u \in 1 .. n - 1 /\ u # j
    BY <1>1, <1>4, <1>6
  <2>2. Parent(u) # u /\ Parent(u) # j /\ Parent(u) \in 0 .. n - 1
    BY <1>1, <1>3, <2>1
  <2>3. Due(s, Parent(u)) = Due(g, Parent(u)) /\ Due(g, Parent(u)) <= Due(g, u)
    BY <1>2, <1>3, <2>1, <2>2
  <2>4. CASE p = j
    BY <1>2, <2>3, <2>4
  <2>5. CASE p # j
    <3>1. Due(s, p) = Due(g, p) /\ Due(g, u) <= Due(g, p)
      BY <1>2, <1>3, <1>6, <2>5
    <3>. QED BY <1>1, <1>3, <1>4, <2>1, <2>2, <2>3, <3>1
  <2>. QED BY <2>4, <2>5
<1>. QED BY <1>5, <1>6 DEF UpOrdered, u

\* An item that is later than its smaller child c is exchanged with it: what may be
\* out of order is then one level lower.
LEMMA SinkOrdered ==
    ASSUME NEW I, NEW R, Cells(R), NEW g \in Heaps(I, R), Indexed(g),
           NEW n \in 0 .. Len0(g), NEW i \in 0 .. n - 1, NEW c \in 1 .. n - 1,
           Parent(c) = i, \A p \in 1 .. n - 1 : Parent(p) = i => Due(g, c) <= Due(g, p),
           DownOrdered(g, i, n), Due(g, c) < Due(g, i),
           NEW s, s = Swap(g, i, c)
    PROVE  DownOrdered(s, c, n)
<1>1. /\ Len0(g) \in Nat /\ n \in Nat /\ i \in Nat /\ c \in Nat /\ i < c
      /\ i \in 0 .. Len0(g) - 1 /\ c \in 0 .. Len0(g) - 1
      /\ \A p \in 0 .. n - 1 : Due(g, p) \in Int
  BY PlaceFacts, ParentFacts
<1>2. /\ Due(s, i) = Due(g, c) /\ Due(s, c) = Due(g, i)
      /\ \A p \in 0 .. n - 1 : p # i /\ p # c => Due(s, p) = Due(g, p)
  BY <1>1, SwapDue
<1>3. ASSUME NEW p \in 1 .. n - 1
      PROVE  /\ Parent(p) \in 0 .. n - 1 /\ Parent(p) < p /\ p \in 0 .. n - 1
             /\ Due(g, p) \in Int /\ Due(g, Parent(p)) \in Int
             /\ Parent(p) # i => Due(g, Parent(p)) <= Due(g, p)
             /\ Parent(p) = i /\ i > 0 => Due(g, Parent(i)) <= Due(g, p)
  <2>1. p \in Nat \ {0} /\ p \in 0 .. n - 1
    BY <1>1
  <2>2. Parent(p) \in 0 .. n - 1 /\ Parent(p) < p
    BY <1>1, <2>1, ParentFacts
  <2>. QED BY <1>1, <2>1, <2>2 DEF DownOrdered
<1>5. ASSUME NEW p \in 1 .. n - 1, Parent(p) # c
      PROVE  Due(s, Parent(p)) <= Due(s, p)
  <2>1. CASE p = c
    BY <1>1, <1>2, <2>1
  <2>2. CASE p # c /\ Parent(p) = i
    BY <1>1, <1>2, <1>3, <2>2
  <2>3. CASE p = i
    <3>1. Due(g, Parent(i)) <= Due(g, c)
      BY <1>1, <1>3, <2>3
    <3>2. Parent(i) # i /\ Due(s, Parent(i)) = Due(g, Parent(i))
      BY <1>2, <1>3, <1>5, <2>3
    <3>. QED BY <1>2, <2>3, <3>1, <3>2
  <2>4. CASE p # c /\ p # i /\ Parent(p) # i
    BY <1>2, <1>3, <1>5, <2>4
  <2>. QED BY <1>1, <2>1, <2>2, <2>3, <2>4
<1>6. ASSUME NEW p \in 1 .. n - 1, Parent(p) = c
      PROVE  Due(s, Parent(c)) <= Due(s, p)
  <2>1. p # c /\ p # i /\ c # i
    BY <1>1, <1>3, <1>6
  <2>. QED BY <1>1, <1>2, <1>3, <1>6, <2>1
<1>. QED BY <1>5, <1>6 DEF DownOrdered

\* Where up and down stop, the heap is ordered.
LEMMA StopOrdered ==
    ASSUME NEW I, NEW R, Cells(R), NEW g \in Heaps(I, R), NEW n \in 0 .. Len0(g)
    PROVE  /\ \A j \in 0 .. n - 1 :
                 UpOrdered(g, j, n) /\ (j > 0 => Due(g, Parent(j)) <= Due(g, j))
                    => OrderedTo(g, n)
           /\ \A i \in Nat :
                 DownOrdered(g, i, n)
                 /\ (\A p \in 1 .. n - 1 : Parent(p) = i => Due(g, i) <= Due(g, p))
                    => OrderedTo(g, n)
<1>1. n \in Nat
  BY PlaceFacts
<1>2. ASSUME NEW j \in 0 .. n - 1, UpOrdered(g, j, n), j > 0 => Due(g, Parent(j)) <= Due(g, j)
      PROVE  OrderedTo(g, n)
  <2>1. \A p \in 1 .. n - 1 : Due(g, Parent(p)) <= Due(g, p)
    BY <1>1, <1>2 DEF UpOrdered
  <2>. QED BY <2>1 DEF OrderedTo
<1>3. ASSUME NEW i \in Nat, DownOrdered(g, i, n),
             \A p \in 1 .. n - 1 : Parent(p) = i => Due(g, i) <= Due(g, p)
      PROVE  OrderedTo(g, n)
  <2>1. \A p \in 1 .. n - 1 : Due(g, Parent(p)) <= Due(g, p)
    BY <1>1, <1>3 DEF DownOrdered
  <2>. QED BY <2>1 DEF OrderedTo
<1>. QED BY <1>2, <1>3

LEMMA UpIsFold ==
    ASSUME NEW g, NEW j
    PROVE  Up(g, j) = Ups!FoldLeft(UpTurn, [heap |-> g, at |-> j], g.arr).heap
BY DEF Up, FoldLeft, Ups!FoldLeft, MapThenFoldSet, Ups!MapThenFoldSet, Max, Ups!Max

LEMMA DownIsFold ==
    ASSUME NEW g, NEW i, NEW n
    PROVE  Down(g, i, n)
             = Downs!FoldLeft(DownTurn, [heap |-> g, at |-> i, n |-> n], g.arr).heap
BY DEF Down, FoldLeft, Downs!FoldLeft, MapThenFoldSet, Downs!MapThenFoldSet, Max, Downs!Max

\* heap.up brings the item at j, which may be earlier than its parent, to its place
\* among the first n.
LEMMA UpOrders ==
    ASSUME NEW I, NEW R, Cells(R), NEW f \in Heaps(I, R), Indexed(f),
           NEW n \in 0 .. Len0(f), NEW j \in 0 .. n - 1, UpOrdered(f, j, n),
           NEW g, g = Up(f, j)
    PROVE  /\ g \in Heaps(I, R) /\ Sifted(f, g, n) /\ SameItems(f, g, n, I)
           /\ OrderedTo(g, n)
<1>. DEFINE Stopped(x) == x.at = 0 \/ ~Less(x.heap, x.at, Parent(x.at))
            Sifting(x) == /\ Sifted(f, x.heap, n)
                          /\ SameItems(f, x.heap, n, I)
                          /\ UpOrdered(x.heap, x.at, n)
            States == [heap : Heaps(I, R), at : 0 .. n - 1]
            G == [k \in Nat |-> {x \in States : Sifting(x) /\ (Stopped(x) \/ x.at <= j - k)}]
            base == [heap |-> f, at |-> j]
<1>1. Len0(f) \in Nat /\ Len0(f) = Len(f.arr) /\ n \in Nat /\ j \in Nat /\ f.arr \in Seq(I)
  BY PlaceFacts DEF Len0, Heaps
<1>2. base \in G[0]
  BY <1>1, SiftedSelf
<1>3. ASSUME NEW k \in 1 .. Len(f.arr), NEW x \in G[k - 1]
      PROVE  UpTurn(x, f.arr[k]) \in G[k]
  <2>1. /\ k \in Nat /\ k - 1 \in Nat /\ x \in States /\ Sifting(x)
        /\ Stopped(x) \/ x.at <= j - (k - 1)
    BY <1>1
  <2>2. CASE Stopped(x)
    <3>1. UpTurn(x, f.arr[k]) = x
      BY <2>2 DEF UpTurn, Parent
    <3>. QED BY <2>1, <2>2, <3>1
  <2>3. CASE ~Stopped(x)
    <3>. DEFINE u == Parent(x.at)
                y == [heap |-> Swap(x.heap, u, x.at), at |-> u]
    <3>1. UpTurn(x, f.arr[k]) = y
      BY <2>3 DEF UpTurn, Parent
    <3>2. /\ x.heap \in Heaps(I, R) /\ x.at \in 1 .. n - 1 /\ Indexed(x.heap)
          /\ Len0(x.heap) = Len0(f)
      BY <1>1, <2>1, <2>3, SMTT(40) DEF Sifted
    <3>3. u \in 0 .. n - 1 /\ u < x.at /\ u <= j - k
      BY <1>1, <2>1, <2>3, <3>2, ParentFacts, SMTT(40)
    <3>4. Due(x.heap, x.at) < Due(x.heap, u)
      BY <2>3 DEF Less, Due
    <3>5. UpOrdered(y.heap, u, n)
      BY <1>1, <2>1, <3>2, <3>4, RaiseOrdered
    <3>6. /\ y.heap \in Heaps(I, R)
          /\ Sifted(f, y.heap, n) /\ SameItems(f, y.heap, n, I)
      BY <1>1, <2>1, <3>2, <3>3, SwapSifted
    <3>. HIDE DEF u
    <3>. QED BY <2>1, <3>1, <3>3, <3>5, <3>6
  <2>. QED BY <2>2, <2>3
<1>4. Ups!FoldLeft(UpTurn, base, f.arr) \in G[Len(f.arr)]
  <2>. HIDE DEF G, base
  <2>. QED BY <1>1, <1>2, <1>3, Ups!FoldLeftInvariant
<1>5. PICK x \in States : g = x.heap /\ Sifting(x) /\ (Stopped(x) \/ x.at <= j - Len(f.arr))
  BY <1>1, <1>4, UpIsFold
<1>6. x.heap \in Heaps(I, R) /\ x.at \in 0 .. n - 1 /\ Len0(x.heap) = Len0(f)
  BY <1>5 DEF Sifted
<1>7. x.at > 0 => Due(g, Parent(x.at)) <= Due(g, x.at)
  <2>1. Stopped(x)
    BY <1>1, <1>5, <1>6
  <2>. SUFFICES ASSUME x.at > 0 PROVE Due(g, Parent(x.at)) <= Due(g, x.at)
    OBVIOUS
  <2>2. ~(Due(g, x.at) < Due(g, Parent(x.at)))
    BY <1>5, <2>1 DEF Less, Due
  <2>3. Parent(x.at) \in 0 .. n - 1
    BY <1>1, <1>6, ParentFacts
  <2>4. Due(g, x.at) \in Int /\ Due(g, Parent(x.at)) \in Int
    BY <1>1, <1>5, <1>6, <2>3, PlaceFacts
  <2>. QED BY <2>2, <2>4
<1>8. OrderedTo(g, n)
  BY <1>5, <1>6, <1>7, StopOrdered
<1>. QED BY <1>5, <1>8

\* heap.down brings the item at i, which may be later than its children, to its place
\* among the first n.
LEMMA DownOrders ==
    ASSUME NEW I, NEW R, Cells(R), NEW f \in Heaps(I, R), Indexed(f),
           NEW n \in 0 .. Len0(f), NEW i \in 0 .. Len0(f) - 1, DownOrdered(f, i, n),
           NEW g, g = Down(f, i, n)
    PROVE  /\ g \in Heaps(I, R) /\ Sifted(f, g, n) /\ SameItems(f, g, n, I)
           /\ OrderedTo(g, n)
<1>. DEFINE Left(x) == 2 * x.at + 1
            Child(x) == IF Left(x) + 1 < n /\ Less(x.heap, Left(x) + 1, Left(x))
                        THEN Left(x) + 1 ELSE Left(x)
            Stopped(x) == Left(x) >= n \/ ~Less(x.heap, Child(x), x.at)
            Sifting(x) == /\ Sifted(f, x.heap, n)
                          /\ SameItems(f, x.heap, n, I)
                          /\ DownOrdered(x.heap, x.at, n)
            States == [heap : Heaps(I, R), at : 0 .. Len0(f) - 1, n : {n}]
            G == [k \in Nat |-> {x \in States : Sifting(x) /\ (Stopped(x) \/ x.at >= i + k)}]
            base == [heap |-> f, at |-> i, n |-> n]
<1>1. Len0(f) \in Nat /\ Len0(f) = Len(f.arr) /\ n \in Nat /\ i \in Nat /\ f.arr \in Seq(I)
  BY PlaceFacts DEF Len0, Heaps
<1>2. base \in G[0]
  BY <1>1, SiftedSelf
<1>3. ASSUME NEW x \in States, Sifting(x)
      PROVE  /\ x.heap \in Heaps(I, R) /\ x.at \in Nat /\ x.n = n /\ Indexed(x.heap)
             /\ Len0(x.heap) = Len0(f)
             /\ Child(x) \in Nat /\ x.at < Child(x) /\ Parent(Child(x)) = x.at
             /\ Left(x) < n => /\ Child(x) \in 1 .. n - 1
                               /\ \A p \in 1 .. n - 1 : Parent(p) = x.at =>
                                     Due(x.heap, Child(x)) <= Due(x.heap, p)
  <2>1. /\ x.heap \in Heaps(I, R) /\ x.at \in Nat /\ x.n = n /\ Indexed(x.heap)
        /\ Len0(x.heap) = Len0(f)
    BY <1>1, <1>3 DEF Sifted
  <2>2. Left(x) \in Nat /\ x.at < Left(x)
    BY <2>1
  <2>3. Child(x) = Left(x) \/ (Child(x) = Left(x) + 1 /\ Left(x) + 1 < n)
    OBVIOUS
  <2>4. Parent(Child(x)) = x.at
    <3>1. Parent(2 * x.at + 1) = x.at /\ Parent(2 * x.at + 2) = x.at
      BY <2>1, ChildFacts
    <3>2. Left(x) + 1 = 2 * x.at + 2
      BY <2>1
    <3>. QED BY <2>3, <3>1, <3>2
  <2>5. ASSUME Left(x) < n, NEW p \in 1 .. n - 1, Parent(p) = x.at
        PROVE  Due(x.heap, Child(x)) <= Due(x.heap, p)
    <3>1. p \in Nat \ {0}
      BY <1>1
    <3>2. p = Left(x) \/ p = Left(x) + 1
      BY <2>1, <2>5, <3>1, ParentFacts
    <3>3. Due(x.heap, Left(x)) \in Int /\ Due(x.heap, p) \in Int
      BY <1>1, <2>1, <2>2, <2>5, PlaceFacts, SMTT(40)
    <3>4. CASE Left(x) + 1 < n /\ Less(x.heap, Left(x) + 1, Left(x))
      <4>1. Child(x) = Left(x) + 1 /\ Due(x.heap, Left(x) + 1) < Due(x.heap, Left(x))
        BY <3>4 DEF Less, Due
      <4>. HIDE DEF Child
      <4>2. Due(x.heap, Left(x) + 1) \in Int
        BY <1>1, <2>1, <2>2, <3>4, PlaceFacts
      <4>. HIDE DEF Left
      <4>. QED BY <3>2, <3>3, <4>1, <4>2
    <3>5. CASE ~(Left(x) + 1 < n /\ Less(x.heap, Left(x) + 1, Left(x)))
      <4>1. Child(x) = Left(x)
        BY <3>5
      <4>. HIDE DEF Child
      <4>2. CASE p = Left(x)
        BY <3>3, <4>1, <4>2
      <4>3. CASE p = Left(x) + 1
        <5>1. ~Less(x.heap, p, Left(x))
          BY <1>1, <3>5, <4>3
        <5>2. ~(Due(x.heap, p) < Due(x.heap, Left(x)))
          BY <5>1 DEF Less, Due
        <5>. HIDE DEF Left
        <5>. QED BY <3>3, <4>1, <5>2
      <4>. QED BY <3>2, <4>2, <4>3
    <3>. QED BY <3>4, <3>5
  <2>6. Child(x) \in Nat /\ x.at < Child(x) /\ (Left(x) < n => Child(x) \in 1 .. n - 1)
    BY <1>1, <2>1, <2>2, <2>3, SMTT(40)
  <2>. QED BY <2>1, <2>4, <2>5, <2>6
<1>4. ASSUME NEW k \in 1 .. Len(f.arr), NEW x \in G[k - 1]
      PROVE  DownTurn(x, f.arr[k]) \in G[k]
  <2>1. /\ k \in Nat /\ k - 1 \in Nat /\ x \in States /\ Sifting(x)
        /\ Stopped(x) \/ x.at >= i + (k - 1)
    BY <1>1
  <2>0. x.n = n /\ x.at \in Nat
    BY <1>3, <2>1
  <2>2. CASE Stopped(x)
    <3>1. DownTurn(x, f.arr[k]) = x
      BY <2>0, <2>2 DEF DownTurn
    <3>. QED BY <2>1, <2>2, <3>1
  <2>3. CASE ~Stopped(x)
    <3>. DEFINE c == Child(x)
                y == [heap |-> Swap(x.heap, x.at, c), at |-> c, n |-> n]
    <3>1. DownTurn(x, f.arr[k]) = y
      BY <2>0, <2>3 DEF DownTurn
    <3>2. /\ x.heap \in Heaps(I, R) /\ x.at \in Nat /\ Indexed(x.heap)
          /\ Len0(x.heap) = Len0(f)
          /\ c \in 1 .. n - 1 /\ x.at < c /\ Parent(c) = x.at
          /\ \A p \in 1 .. n - 1 : Parent(p) = x.at => Due(x.heap, c) <= Due(x.heap, p)
      <4>1. ~(Left(x) >= n)
        BY <2>3
      <4>2. Left(x) < n
        <5>. HIDE DEF Stopped, Sifting, Child
        <5>. QED BY <1>1, <2>0, <4>1, SMTT(40)
      <4>. QED BY <1>3, <2>1, <4>2
    <3>3. Due(x.heap, c) < Due(x.heap, x.at)
      BY <2>3 DEF Less, Due
    <3>. HIDE DEF c
    <3>4. c \in 0 .. n - 1 /\ x.at \in 0 .. n - 1 /\ c \in 0 .. Len0(f) - 1
      BY <1>1, <3>2, SMTT(40)
    <3>5. c >= i + k
      BY <1>1, <2>1, <2>3, <3>2
    <3>6. DownOrdered(y.heap, c, n)
      BY <1>1, <2>1, <3>2, <3>3, <3>4, SinkOrdered
    <3>7. /\ y.heap \in Heaps(I, R)
          /\ Sifted(f, y.heap, n) /\ SameItems(f, y.heap, n, I)
      BY <1>1, <2>1, <3>2, <3>4, SwapSifted
    <3>. QED BY <2>1, <3>1, <3>4, <3>5, <3>6, <3>7
  <2>. QED BY <2>2, <2>3
<1>5. Downs!FoldLeft(DownTurn, base, f.arr) \in G[Len(f.arr)]
  <2>. HIDE DEF G, base
  <2>. QED BY <1>1, <1>2, <1>4, Downs!FoldLeftInvariant
<1>6. PICK x \in States : g = x.heap /\ Sifting(x) /\ (Stopped(x) \/ x.at >= i + Len(f.arr))
  BY <1>1, <1>5, DownIsFold
<1>7. x.heap \in Heaps(I, R) /\ x.at \in 0 .. Len0(f) - 1 /\ Len0(x.heap) = Len0(f)
  BY <1>6 DEF Sifted
<1>8. Stopped(x)
  BY <1>1, <1>6, <1>7
<1>9. ASSUME NEW p \in 1 .. n - 1, Parent(p) = x.at
      PROVE  Due(g, x.at) <= Due(g, p)
  <2>1. p \in Nat \ {0}
    BY <1>1
  <2>2. Left(x) < n
    <3>1. p = 2 * Parent(p) + 1 \/ p = 2 * Parent(p) + 2
      BY <2>1, ParentFacts
    <3>2. x.at \in Nat /\ p < n
      BY <1>1, <1>7
    <3>3. 2 * x.at + 1 <= p
      <4>1. p = 2 * x.at + 1 \/ p = 2 * x.at + 2
        BY <1>9, <3>1
      <4>. QED BY <3>2, <4>1
    <3>. QED BY <1>1, <2>1, <3>2, <3>3
  <2>3. Child(x) \in 1 .. n - 1 /\ Due(g, Child(x)) <= Due(g, p)
    BY <1>3, <1>6, <1>9, <2>2, SMTT(40)
  <2>4. ~(Due(g, Child(x)) < Due(g, x.at))
    BY <1>1, <1>6, <1>7, <1>8, <2>2, SMTT(40) DEF Less, Due
  <2>. HIDE DEF Child
  <2>5. Due(g, Child(x)) \in Int /\ Due(g, p) \in Int /\ Due(g, x.at) \in Int
    BY <1>1, <1>6, <1>7, <2>3, PlaceFacts, SMTT(40)
  <2>. QED BY <2>3, <2>4, <2>5
<1>10. OrderedTo(g, n)
  BY <1>1, <1>6, <1>7, <1>9, StopOrdered
<1>. QED BY <1>6, <1>10

----------------------------------------------------------------------------
(* Push, Pop and Remove. *)

GoodHeap(I, R, g) == g \in Heaps(I, R) /\ Indexed(g) /\ OrderedTo(g, Len0(g))

\* No field of an item but index changes, and nothing of the items of no place in f.
Kept(I, f, g) ==
    \A id \in I : g.mem[id] = f.mem[id] \/ \E i \in Int : g.mem[id] = Reindex(f.mem[id], i)

OthersKept(I, f, g, S) == \A id \in I \ S : g.mem[id] = f.mem[id]

\* Heap g has the items of f, in other places.
Rearranged(I, f, g) ==
    /\ Len0(g) = Len0(f)
    /\ ToSet(g.arr) = ToSet(f.arr)
    /\ Indexed(g)
    /\ Kept(I, f, g)
    /\ OthersKept(I, f, g, ToSet(f.arr))

\* Heap g is f with item id added, or taken out.
Added(I, R, f, g, id) ==
    /\ GoodHeap(I, R, g)
    /\ Len0(g) = Len0(f) + 1
    /\ ToSet(g.arr) = ToSet(f.arr) \cup {id}
    /\ Kept(I, f, g)
    /\ OthersKept(I, f, g, ToSet(f.arr) \cup {id})

Removed(I, R, f, g, id) ==
    /\ GoodHeap(I, R, g)
    /\ Len0(g) = Len0(f) - 1
    /\ ToSet(g.arr) = ToSet(f.arr) \ {id}
    /\ g.mem[id].index = -1
    /\ Kept(I, f, g)
    /\ OthersKept(I, f, g, ToSet(f.arr))

LEMMA MembersFacts ==
    ASSUME NEW I, NEW R, NEW g \in Heaps(I, R)
    PROVE  /\ \A p \in 0 .. Len0(g) - 1 : At(g, p) \in ToSet(g.arr)
           /\ \A id \in ToSet(g.arr) : \E p \in 0 .. Len0(g) - 1 : At(g, p) = id
           /\ ToSet(g.arr) \subseteq I
<1>1. g.arr \in Seq(I) /\ Len0(g) = Len(g.arr) /\ Len(g.arr) \in Nat
  BY DEF Heaps, Len0
<1>2. \A p \in 0 .. Len0(g) - 1 : At(g, p) \in ToSet(g.arr)
  BY <1>1 DEF ToSet, At
<1>3. ASSUME NEW id \in ToSet(g.arr)
      PROVE  \E p \in 0 .. Len0(g) - 1 : At(g, p) = id
  <2>1. PICK i \in 1 .. Len(g.arr) : g.arr[i] = id
    BY <1>1, <1>3 DEF ToSet
  <2>2. i - 1 \in 0 .. Len0(g) - 1 /\ (i - 1) + 1 = i
    BY <1>1
  <2>3. At(g, i - 1) = id
    BY <2>1, <2>2 DEF At
  <2>. QED BY <2>2, <2>3
<1>4. ToSet(g.arr) \subseteq I
  BY <1>1 DEF ToSet
<1>. QED BY <1>2, <1>3, <1>4

LEMMA KeptTrans ==
    ASSUME NEW I, NEW R, Cells(R), NEW f \in Heaps(I, R), NEW g, NEW s,
           Kept(I, f, g), Kept(I, g, s)
    PROVE  Kept(I, f, s)
<1>. SUFFICES ASSUME NEW id \in I
              PROVE  s.mem[id] = f.mem[id] \/ \E i \in Int : s.mem[id] = Reindex(f.mem[id], i)
  BY DEF Kept
<1>0. f.mem[id] \in R
  BY DEF Heaps
<1>1. CASE s.mem[id] = g.mem[id]
  BY <1>1 DEF Kept
<1>2. CASE g.mem[id] = f.mem[id]
  BY <1>2 DEF Kept
<1>3. CASE s.mem[id] # g.mem[id] /\ g.mem[id] # f.mem[id]
  <2>1. PICK i \in Int : g.mem[id] = Reindex(f.mem[id], i)
    BY <1>3 DEF Kept
  <2>2. PICK j \in Int : s.mem[id] = Reindex(g.mem[id], j)
    BY <1>3 DEF Kept
  <2>3. Reindex(Reindex(f.mem[id], i), j) = Reindex(f.mem[id], j)
    BY <1>0 DEF Cells
  <2>. QED BY <2>1, <2>2, <2>3
<1>. QED BY <1>1, <1>2, <1>3

LEMMA SiftedRearranged ==
    ASSUME NEW I, NEW R, Cells(R), NEW f \in Heaps(I, R), NEW g \in Heaps(I, R),
           NEW n \in 0 .. Len0(f), Sifted(f, g, n), SameItems(f, g, n, I)
    PROVE  Rearranged(I, f, g)
<1>0. Len0(f) \in Nat /\ n \in Nat /\ Len0(g) = Len0(f) /\ Indexed(g)
  BY PlaceFacts DEF Sifted
<1>1. ASSUME NEW id \in ToSet(g.arr)
      PROVE  id \in ToSet(f.arr)
  <2>1. PICK p \in 0 .. Len0(g) - 1 : At(g, p) = id
    BY MembersFacts
  <2>2. CASE p \in n .. Len0(f) - 1
    BY <1>0, <2>1, <2>2, MembersFacts DEF Sifted
  <2>3. CASE p \in 0 .. n - 1
    <3>1. PICK q \in 0 .. n - 1 : At(g, p) = At(f, q)
      BY <2>3 DEF Sifted
    <3>2. q \in 0 .. Len0(f) - 1
      BY <1>0
    <3>. QED BY <2>1, <3>1, <3>2, MembersFacts
  <2>. QED BY <1>0, <2>2, <2>3
<1>2. ASSUME NEW id \in ToSet(f.arr)
      PROVE  id \in ToSet(g.arr)
  <2>1. PICK p \in 0 .. Len0(f) - 1 : At(f, p) = id
    BY MembersFacts
  <2>2. CASE p \in n .. Len0(f) - 1
    <3>1. At(g, p) = id /\ p \in 0 .. Len0(g) - 1
      BY <1>0, <2>1, <2>2 DEF Sifted
    <3>. QED BY <3>1, MembersFacts
  <2>3. CASE p \in 0 .. n - 1
    <3>1. PICK q \in 0 .. n - 1 : At(g, q) = At(f, p)
      BY <2>3 DEF Sifted
    <3>2. q \in 0 .. Len0(g) - 1
      BY <1>0
    <3>. QED BY <2>1, <3>1, <3>2, MembersFacts
  <2>. QED BY <1>0, <2>2, <2>3
<1>3. ASSUME NEW id \in I \ ToSet(f.arr)
      PROVE  g.mem[id] = f.mem[id]
  <2>1. \A p \in 0 .. n - 1 : p \in 0 .. Len0(f) - 1
    BY <1>0
  <2>2. \A p \in 0 .. n - 1 : At(f, p) # id
    BY <2>1, MembersFacts
  <2>. QED BY <2>2 DEF SameItems
<1>4. Kept(I, f, g)
  BY DEF SameItems, Kept
<1>. QED BY <1>0, <1>1, <1>2, <1>3, <1>4 DEF Rearranged, OthersKept

LEMMA RearrangedTrans ==
    ASSUME NEW I, NEW R, Cells(R), NEW f \in Heaps(I, R), NEW g, NEW s,
           Rearranged(I, f, g), Rearranged(I, g, s)
    PROVE  Rearranged(I, f, s)
<1>1. Kept(I, f, s)
  BY KeptTrans DEF Rearranged
<1>2. OthersKept(I, f, s, ToSet(f.arr))
  BY DEF Rearranged, OthersKept
<1>. QED BY <1>1, <1>2 DEF Rearranged

\* Exchanging any two positions only rearranges.
LEMMA SwapRearranged ==
    ASSUME NEW I, NEW R, Cells(R), NEW f \in Heaps(I, R), Indexed(f),
           NEW a \in 0 .. Len0(f) - 1, NEW b \in 0 .. Len0(f) - 1
    PROVE  Swap(f, a, b) \in Heaps(I, R) /\ Rearranged(I, f, Swap(f, a, b))
<1>1. Len0(f) \in 0 .. Len0(f)
  BY PlaceFacts
<1>2. Sifted(f, f, Len0(f)) /\ SameItems(f, f, Len0(f), I)
  BY <1>1, SiftedSelf
<1>. DEFINE s == Swap(f, a, b)
<1>3. s \in Heaps(I, R) /\ Sifted(f, s, Len0(f)) /\ SameItems(f, s, Len0(f), I)
  BY <1>1, <1>2, SwapSifted
<1>. QED BY <1>1, <1>3, SiftedRearranged

\* Cutting the last item off a rearranged heap takes that item out.
LEMMA CutRemoves ==
    ASSUME NEW I, NEW R, Cells(R), NEW f \in Heaps(I, R), NEW g \in Heaps(I, R),
           Rearranged(I, f, g), Len0(f) > 0, OrderedTo(g, Len0(f) - 1),
           NEW c, c = CutLast(g)
    PROVE  Removed(I, R, f, c, At(g, Len0(f) - 1))
<1>. DEFINE n == Len0(f) - 1
            z == At(g, n)
<1>1. /\ n \in Nat /\ Len0(g) = n + 1 /\ Indexed(g) /\ z \in I
      /\ g.arr \in Seq(I) /\ g.mem \in [I -> R] /\ Len(g.arr) = n + 1
      /\ \A p \in 0 .. n : At(g, p) \in I
      /\ \A p \in 0 .. n : At(g, p) = z => p = n
      /\ \A p \in 0 .. n : Due(g, p) \in Int
  BY PlaceFacts, SMTT(40) DEF Rearranged, Heaps, Len0
<1>2. /\ c.arr = SubSeq(g.arr, 1, n)
      /\ c.mem = [g.mem EXCEPT ![z].index = -1]
      /\ c = [arr |-> c.arr, mem |-> c.mem]
  <2>1. Len0(g) - 1 = n
    BY <1>1
  <2>. QED BY <2>1 DEF CutLast
<1>. HIDE DEF n, z
<1>3. c.arr \in Seq(I) /\ Len(c.arr) = n /\ \A p \in 1 .. n : c.arr[p] = g.arr[p]
  BY <1>1, <1>2
<1>4. /\ g.mem[z] \in R /\ -1 \in Int
      /\ c.mem[z] = Reindex(g.mem[z], -1)
      /\ \A id \in I \ {z} : c.mem[id] = g.mem[id]
  BY <1>1, <1>2 DEF Reindex
<1>5. c.mem[z] \in R /\ c.mem[z].index = -1
  BY <1>4 DEF Cells
<1>6. c.mem \in [I -> R]
  <2>1. c.mem = [id \in I |-> c.mem[id]]
    BY <1>1, <1>2
  <2>2. \A id \in I : c.mem[id] \in R
    BY <1>1, <1>4, <1>5
  <2>. QED BY <2>1, <2>2
<1>7. c \in Heaps(I, R) /\ Len0(c) = n
  BY <1>2, <1>3, <1>6 DEF Heaps, Len0
<1>8. ASSUME NEW p \in 0 .. n - 1
      PROVE  /\ At(c, p) = At(g, p) /\ c.mem[At(c, p)] = g.mem[At(g, p)]
             /\ Due(c, p) = Due(g, p)
  <2>1. p + 1 \in 1 .. n /\ p \in 0 .. n /\ p # n
    BY <1>1
  <2>2. At(c, p) = At(g, p)
    BY <1>3, <2>1 DEF At
  <2>3. c.mem[At(g, p)] = g.mem[At(g, p)]
    BY <1>1, <1>4, <2>1
  <2>. QED BY <2>2, <2>3 DEF Due
<1>9. Indexed(c)
  <2>1. \A p \in 0 .. n - 1 : p \in 0 .. Len0(g) - 1
    BY <1>1
  <2>. QED BY <1>1, <1>7, <1>8, <2>1 DEF Indexed
<1>10. OrderedTo(c, Len0(c))
  <2>. SUFFICES ASSUME NEW p \in 1 .. n - 1
                PROVE  Due(c, Parent(p)) <= Due(c, p)
    BY <1>7 DEF OrderedTo
  <2>1. p \in Nat \ {0} /\ p \in 0 .. n - 1
    BY <1>1
  <2>2. Parent(p) \in 0 .. n - 1
    BY <1>1, <2>1, ParentFacts
  <2>3. Due(g, Parent(p)) <= Due(g, p)
    BY DEF OrderedTo, n
  <2>. QED BY <1>8, <2>1, <2>2, <2>3
<1>11. ToSet(c.arr) = ToSet(f.arr) \ {z}
  <2>1. ASSUME NEW id \in ToSet(c.arr)
        PROVE  id \in ToSet(g.arr) /\ id # z
    <3>1. PICK p \in 0 .. n - 1 : At(c, p) = id
      BY <1>7, MembersFacts
    <3>2. p \in 0 .. Len0(g) - 1 /\ p \in 0 .. n /\ p # n /\ At(g, p) = id
      BY <1>1, <1>8, <3>1
    <3>. QED BY <1>1, <3>2, MembersFacts
  <2>2. ASSUME NEW id \in ToSet(g.arr), id # z
        PROVE  id \in ToSet(c.arr)
    <3>1. PICK p \in 0 .. Len0(g) - 1 : At(g, p) = id
      BY MembersFacts
    <3>2. p # n
      BY <2>2, <3>1 DEF z
    <3>3. p \in 0 .. n - 1
      BY <1>1, <3>2
    <3>4. At(c, p) = id /\ p \in 0 .. Len0(c) - 1
      BY <1>7, <1>8, <3>1, <3>3
    <3>. QED BY <1>7, <3>4, MembersFacts
  <2>3. ToSet(g.arr) = ToSet(f.arr)
    BY DEF Rearranged
  <2>. QED BY <2>1, <2>2, <2>3
<1>12. Kept(I, f, c)
  <2>1. Kept(I, g, c)
    BY <1>1, <1>4 DEF Kept
  <2>. QED BY <2>1, KeptTrans DEF Rearranged
<1>13. OthersKept(I, f, c, ToSet(f.arr))
  <2>1. z \in ToSet(f.arr)
    <3>1. n \in 0 .. Len0(g) - 1
      BY <1>1
    <3>. QED BY <3>1, MembersFacts DEF Rearranged, z
  <2>. QED BY <1>4, <2>1 DEF OthersKept, Rearranged
<1>. QED BY <1>5, <1>7, <1>9, <1>10, <1>11, <1>12, <1>13 DEF Removed, GoodHeap, n, z

\* heap.Push adds its item and keeps the heap a heap.
THEOREM PushAdds ==
    ASSUME NEW I, NEW R, Cells(R), NEW f, GoodHeap(I, R, f),
           NEW id \in I, id \notin ToSet(f.arr)
    PROVE  Added(I, R, f, HeapPush(f, id), id)
<1>. DEFINE n == Len0(f)
            a == AppendItem(f, id)
            g == Up(a, n)
<1>1. /\ f \in Heaps(I, R) /\ Indexed(f) /\ n \in Nat
      /\ f.arr \in Seq(I) /\ f.mem \in [I -> R] /\ Len(f.arr) = n
      /\ f.mem[id] \in R
      /\ \A p \in 0 .. n - 1 : At(f, p) \in I /\ At(f, p) # id
  <2>1. f \in Heaps(I, R) /\ Indexed(f)
    BY DEF GoodHeap
  <2>2. n \in Nat /\ \A p \in 0 .. n - 1 : At(f, p) \in I
    BY <2>1, PlaceFacts
  <2>3. \A p \in 0 .. n - 1 : At(f, p) # id
    BY <2>1, MembersFacts
  <2>. QED BY <2>1, <2>2, <2>3 DEF Heaps, Len0
<1>2. /\ a.arr = Append(f.arr, id)
      /\ a.mem = [f.mem EXCEPT ![id].index = n]
      /\ a = [arr |-> a.arr, mem |-> a.mem]
  BY DEF AppendItem
<1>. HIDE DEF a, n
<1>3. /\ a.arr \in Seq(I) /\ Len(a.arr) = n + 1
      /\ \A p \in 1 .. n : a.arr[p] = f.arr[p]
      /\ a.arr[n + 1] = id
  BY <1>1, <1>2
<1>4. /\ a.mem[id] = Reindex(f.mem[id], n)
      /\ \A x \in I \ {id} : a.mem[x] = f.mem[x]
  BY <1>1, <1>2 DEF Reindex
<1>5. a.mem[id] \in R /\ a.mem[id].index = n
  BY <1>1, <1>4 DEF Cells
<1>6. a.mem \in [I -> R]
  <2>1. a.mem = [x \in I |-> a.mem[x]]
    BY <1>1, <1>2
  <2>2. \A x \in I : a.mem[x] \in R
    BY <1>1, <1>4, <1>5
  <2>. QED BY <2>1, <2>2
<1>7. a \in Heaps(I, R) /\ Len0(a) = n + 1
  BY <1>2, <1>3, <1>6 DEF Heaps, Len0
<1>8. ASSUME NEW p \in 0 .. n - 1
      PROVE  At(a, p) = At(f, p) /\ a.mem[At(a, p)] = f.mem[At(f, p)] /\ Due(a, p) = Due(f, p)
  <2>1. p + 1 \in 1 .. n
    BY <1>1
  <2>2. At(a, p) = At(f, p)
    BY <1>3, <2>1 DEF At
  <2>3. a.mem[At(f, p)] = f.mem[At(f, p)]
    BY <1>1, <1>4
  <2>. QED BY <2>2, <2>3 DEF Due
<1>9. At(a, n) = id
  BY <1>3 DEF At
<1>10. Indexed(a)
  <2>1. ASSUME NEW p \in 0 .. n
        PROVE  a.mem[At(a, p)].index = p
    <3>1. CASE p = n
      BY <1>5, <1>9, <3>1
    <3>2. CASE p # n
      <4>1. p \in 0 .. n - 1
        BY <1>1, <3>2
      <4>2. f.mem[At(f, p)].index = p
        BY <1>1, <4>1 DEF Indexed, n
      <4>. QED BY <1>8, <4>1, <4>2
    <3>. QED BY <3>1, <3>2
  <2>2. 0 .. Len0(a) - 1 = 0 .. n
    BY <1>1, <1>7
  <2>. QED BY <2>1, <2>2 DEF Indexed
<1>11. UpOrdered(a, n, n + 1)
  <2>. SUFFICES ASSUME NEW p \in 1 .. n
                PROVE  /\ p # n => Due(a, Parent(p)) <= Due(a, p)
                       /\ Parent(p) # n
    BY <1>1 DEF UpOrdered
  <2>1. p \in Nat \ {0}
    BY <1>1
  <2>2. Parent(p) \in 0 .. n - 1
    BY <1>1, <2>1, ParentFacts
  <2>3. ASSUME p # n
        PROVE  Due(a, Parent(p)) <= Due(a, p)
    <3>1. p \in 1 .. n - 1 /\ p \in 0 .. n - 1
      BY <1>1, <2>3
    <3>2. Due(f, Parent(p)) <= Due(f, p)
      BY <3>1 DEF GoodHeap, OrderedTo, n
    <3>. QED BY <1>8, <2>2, <3>1, <3>2
  <2>4. Parent(p) # n
    BY <1>1, <2>2
  <2>. QED BY <2>3, <2>4
<1>12. /\ g \in Heaps(I, R) /\ Sifted(a, g, n + 1) /\ SameItems(a, g, n + 1, I)
       /\ OrderedTo(g, n + 1)
  <2>1. n + 1 \in 0 .. Len0(a) /\ n \in 0 .. (n + 1) - 1
    BY <1>1, <1>7
  <2>. HIDE DEF g
  <2>2. g = Up(a, n)
    BY DEF g
  <2>. QED BY <1>7, <1>10, <1>11, <2>1, <2>2, UpOrders
<1>. HIDE DEF g
<1>13. Rearranged(I, a, g)
  <2>1. n + 1 \in 0 .. Len0(a)
    BY <1>1, <1>7
  <2>. QED BY <1>7, <1>12, <2>1, SiftedRearranged
<1>14. ToSet(a.arr) = ToSet(f.arr) \cup {id}
  <2>1. ASSUME NEW x \in ToSet(a.arr)
        PROVE  x \in ToSet(f.arr) \cup {id}
    <3>1. PICK p \in 0 .. Len0(a) - 1 : At(a, p) = x
      BY <1>7, MembersFacts
    <3>2. CASE p = n
      BY <1>9, <3>1, <3>2
    <3>3. CASE p # n
      <4>1. p \in 0 .. n - 1 /\ p \in 0 .. Len0(f) - 1
        BY <1>1, <1>7, <3>3 DEF n
      <4>. QED BY <1>1, <1>8, <3>1, <4>1, MembersFacts
    <3>. QED BY <3>2, <3>3
  <2>2. ASSUME NEW x \in ToSet(f.arr)
        PROVE  x \in ToSet(a.arr)
    <3>0. \E p \in 0 .. Len0(f) - 1 : At(f, p) = x
      <4>1. f \in Heaps(I, R)
        BY <1>1
      <4>. QED BY <2>2, <4>1, MembersFacts
    <3>1. PICK p \in 0 .. n - 1 : At(f, p) = x
      BY <3>0 DEF n
    <3>2. p \in 0 .. Len0(a) - 1 /\ At(a, p) = x
      BY <1>1, <1>7, <1>8, <3>1
    <3>. QED BY <1>7, <3>2, MembersFacts
  <2>3. id \in ToSet(a.arr)
    <3>1. n \in 0 .. Len0(a) - 1
      BY <1>1, <1>7
    <3>. QED BY <1>7, <1>9, <3>1, MembersFacts
  <2>. QED BY <2>1, <2>2, <2>3
<1>15. Kept(I, f, g)
  <2>1. Kept(I, f, a)
    BY <1>1, <1>4 DEF Kept
  <2>2. Kept(I, a, g)
    BY <1>13 DEF Rearranged
  <2>. QED BY <1>1, <2>1, <2>2, KeptTrans
<1>16. OthersKept(I, f, g, ToSet(f.arr) \cup {id})
  BY <1>4, <1>13, <1>14 DEF OthersKept, Rearranged
<1>17. GoodHeap(I, R, g) /\ Len0(g) = n + 1
  BY <1>7, <1>12, <1>13 DEF GoodHeap, Rearranged
<1>18. HeapPush(f, id) = g
  BY DEF HeapPush, g, a, n
<1>. QED BY <1>13, <1>14, <1>15, <1>16, <1>17, <1>18 DEF Added, Rearranged, n

\* The first item of a heap has an earliest deadline.
LEMMA FirstIsEarliest ==
    ASSUME NEW I, NEW R, Cells(R), NEW f, GoodHeap(I, R, f)
    PROVE  \A p \in 0 .. Len0(f) - 1 : Due(f, 0) <= Due(f, p)
<1>1. /\ Len0(f) \in Nat
      /\ \A p \in 0 .. Len0(f) - 1 : Due(f, p) \in Int
  BY PlaceFacts DEF GoodHeap
<1>. DEFINE Bad == {p \in 0 .. Len0(f) - 1 : ~(Due(f, 0) <= Due(f, p))}
<1>. SUFFICES ASSUME Bad # {} PROVE FALSE
  OBVIOUS
<1>2. Bad \subseteq Nat
  BY <1>1
<1>3. PICK m \in Bad : \A k \in Bad : m <= k
  BY <1>2, Ups!LeastNat
<1>4. m \in 1 .. Len0(f) - 1 /\ m \in Nat \ {0} /\ ~(Due(f, 0) <= Due(f, m))
  BY <1>1
<1>5. Parent(m) \in 0 .. Len0(f) - 1 /\ Parent(m) < m
  BY <1>1, <1>4, ParentFacts
<1>6. Due(f, Parent(m)) <= Due(f, m)
  BY <1>4 DEF GoodHeap, OrderedTo
<1>7. Parent(m) \notin Bad
  BY <1>1, <1>3, <1>4, <1>5
<1>8. Due(f, 0) <= Due(f, Parent(m))
  BY <1>5, <1>7
<1>9. Due(f, 0) \in Int /\ Due(f, m) \in Int /\ Due(f, Parent(m)) \in Int
  BY <1>1, <1>4, <1>5
<1>. QED BY <1>4, <1>6, <1>8, <1>9

\* heap.Pop takes out the first item.
THEOREM PopRemovesFirst ==
    ASSUME NEW I, NEW R, Cells(R), NEW f, GoodHeap(I, R, f), Len0(f) > 0
    PROVE  Removed(I, R, f, HeapPop(f), At(f, 0))
<1>. DEFINE n == Len0(f) - 1
            s == Swap(f, 0, n)
            g == Down(s, 0, n)
<1>1. /\ f \in Heaps(I, R) /\ Indexed(f) /\ n \in Nat /\ Len0(f) = n + 1
      /\ 0 \in 0 .. Len0(f) - 1 /\ n \in 0 .. Len0(f) - 1
  <2>1. f \in Heaps(I, R) /\ Indexed(f)
    BY DEF GoodHeap
  <2>. QED BY <2>1, PlaceFacts
<1>2. /\ s \in Heaps(I, R) /\ Rearranged(I, f, s)
      /\ Len0(s) = n + 1 /\ Indexed(s)
  <2>. HIDE DEF n
  <2>1. s \in Heaps(I, R) /\ Rearranged(I, f, s)
    BY <1>1, SwapRearranged
  <2>. QED BY <1>1, <2>1 DEF Rearranged
<1>3. /\ At(s, n) = At(f, 0)
      /\ \A p \in 0 .. n : p # 0 /\ p # n => Due(s, p) = Due(f, p)
  <2>. HIDE DEF n
  <2>1. At(s, n) = At(f, 0)
    BY <1>1, SwapFacts
  <2>2. \A p \in 0 .. Len0(f) - 1 : p # 0 /\ p # n => Due(s, p) = Due(f, p)
    BY <1>1, SwapDue
  <2>. QED BY <1>1, <2>1, <2>2
<1>. HIDE DEF n, s
<1>4. DownOrdered(s, 0, n)
  <2>. SUFFICES ASSUME NEW p \in 1 .. n - 1, Parent(p) # 0
                PROVE  Due(s, Parent(p)) <= Due(s, p)
    BY <1>1 DEF DownOrdered
  <2>1. p \in Nat \ {0} /\ p \in 1 .. Len0(f) - 1 /\ p \in 0 .. n /\ p # n /\ p # 0
    BY <1>1
  <2>2. Parent(p) \in 0 .. n /\ Parent(p) # n
    BY <1>1, <2>1, ParentFacts
  <2>3. Due(f, Parent(p)) <= Due(f, p)
    BY <2>1 DEF GoodHeap, OrderedTo
  <2>. QED BY <1>3, <2>1, <2>2, <2>3
<1>5. g \in Heaps(I, R) /\ Sifted(s, g, n) /\ SameItems(s, g, n, I) /\ OrderedTo(g, n)
  <2>1. n \in 0 .. Len0(s) /\ 0 \in 0 .. Len0(s) - 1
    BY <1>1, <1>2
  <2>. HIDE DEF g
  <2>2. g = Down(s, 0, n)
    BY DEF g
  <2>. QED BY <1>2, <1>4, <2>1, <2>2, DownOrders
<1>. HIDE DEF g
<1>6. Rearranged(I, f, g)
  <2>1. n \in 0 .. Len0(s)
    BY <1>1, <1>2
  <2>2. Rearranged(I, s, g)
    BY <1>2, <1>5, <2>1, SiftedRearranged
  <2>. QED BY <1>1, <1>2, <2>2, RearrangedTrans
<1>7. At(g, n) = At(f, 0)
  <2>1. n \in n .. Len0(s) - 1
    BY <1>1, <1>2
  <2>. QED BY <1>3, <1>5, <2>1 DEF Sifted
<1>8. Removed(I, R, f, CutLast(g), At(g, n))
  BY <1>1, <1>5, <1>6, CutRemoves DEF n
<1>9. HeapPop(f) = CutLast(g)
  BY DEF HeapPop, g, s, n
<1>. QED BY <1>7, <1>8, <1>9

\* A down that starts where nothing is out of order changes nothing.
LEMMA DownStays ==
    ASSUME NEW I, NEW R, Cells(R), NEW f \in Heaps(I, R),
           NEW n \in 0 .. Len0(f), NEW i \in 0 .. Len0(f) - 1,
           \A p \in 1 .. n - 1 : Parent(p) = i => Due(f, i) <= Due(f, p)
    PROVE  Down(f, i, n) = f
<1>. DEFINE base == [heap |-> f, at |-> i, n |-> n]
            G == [k \in Nat |-> {base}]
            left == 2 * i + 1
            child == IF left + 1 < n /\ Less(f, left + 1, left) THEN left + 1 ELSE left
<1>1. Len0(f) \in Nat /\ Len0(f) = Len(f.arr) /\ n \in Nat /\ i \in Nat /\ f.arr \in Seq(I)
  BY PlaceFacts DEF Len0, Heaps
<1>2. left >= n \/ ~Less(f, child, i)
  <2>. SUFFICES ASSUME left < n PROVE ~Less(f, child, i)
    BY <1>1
  <2>1. child = left \/ (child = left + 1 /\ left + 1 < n)
    OBVIOUS
  <2>2. child \in 1 .. n - 1
    BY <1>1, <2>1
  <2>3. Parent(child) = i
    <3>1. Parent(2 * i + 1) = i /\ Parent(2 * i + 2) = i
      BY <1>1, ChildFacts
    <3>2. left + 1 = 2 * i + 2
      BY <1>1
    <3>. QED BY <2>1, <3>1, <3>2
  <2>. HIDE DEF child
  <2>4. Due(f, i) <= Due(f, child)
    BY <2>2, <2>3
  <2>5. Due(f, i) \in Int /\ Due(f, child) \in Int
    BY <1>1, <2>2, PlaceFacts
  <2>. QED BY <2>4, <2>5 DEF Less, Due
<1>3. \A turn : DownTurn(base, turn) = base
  BY <1>2 DEF DownTurn
<1>4. base \in G[0]
  OBVIOUS
<1>5. \A k \in 1 .. Len(f.arr) : \A x \in G[k - 1] : DownTurn(x, f.arr[k]) \in G[k]
  <2>. HIDE DEF base
  <2>1. \A k \in 1 .. Len(f.arr) : k \in Nat /\ k - 1 \in Nat
    BY <1>1
  <2>. QED BY <1>3, <2>1
<1>6. Downs!FoldLeft(DownTurn, base, f.arr) \in G[Len(f.arr)]
  <2>. HIDE DEF G, base
  <2>. QED BY <1>1, <1>4, <1>5, Downs!FoldLeftInvariant
<1>7. Downs!FoldLeft(DownTurn, base, f.arr) = base
  <2>. HIDE DEF base
  <2>. QED BY <1>1, <1>6
<1>. QED BY <1>7, DownIsFold

\* heap.Remove takes out the item at its position: the last item, put there, sinks when
\* it is later than a child, and rises when it is earlier than the parent.
THEOREM RemoveTakesOut ==
    ASSUME NEW I, NEW R, Cells(R), NEW f, GoodHeap(I, R, f), NEW i \in 0 .. Len0(f) - 1
    PROVE  Removed(I, R, f, HeapRemove(f, i), At(f, i))
<1>. DEFINE n == Len0(f) - 1
            s == Swap(f, i, n)
            d == Down(s, i, n)
            g == IF n = i THEN f ELSE IF d # s THEN d ELSE Up(s, i)
<1>1. /\ f \in Heaps(I, R) /\ Indexed(f) /\ n \in Nat /\ Len0(f) = n + 1
      /\ i \in 0 .. n /\ n \in 0 .. Len0(f) - 1 /\ n \in 0 .. Len0(f) /\ Len0(f) > 0
  <2>1. f \in Heaps(I, R) /\ Indexed(f)
    BY DEF GoodHeap
  <2>. QED BY <2>1, PlaceFacts
<1>2. g \in Heaps(I, R) /\ Rearranged(I, f, g) /\ OrderedTo(g, n) /\ At(g, n) = At(f, i)
  <2>1. CASE n = i
    <3>1. OrderedTo(f, n)
      BY <1>1 DEF GoodHeap, OrderedTo
    <3>2. Rearranged(I, f, f)
      <4>. HIDE DEF n
      <4>. QED BY <1>1, SiftedSelf, SiftedRearranged
    <3>. QED BY <1>1, <2>1, <3>1, <3>2
  <2>2. CASE n # i
    <3>1. i \in 0 .. n - 1 /\ i \in Nat
      BY <1>1, <2>2
    <3>. HIDE DEF n
    <3>2. s \in Heaps(I, R) /\ Rearranged(I, f, s)
      BY <1>1, SwapRearranged
    <3>3. /\ Len0(s) = n + 1 /\ Indexed(s)
          /\ n \in 0 .. Len0(s) /\ n \in n .. Len0(s) - 1 /\ i \in 0 .. Len0(s) - 1
      BY <1>1, <3>1, <3>2 DEF Rearranged
    <3>4. At(s, n) = At(f, i)
      BY <1>1, SwapFacts
    <3>5. /\ Due(s, i) = Due(f, n)
          /\ \A p \in 0 .. n - 1 : p # i => Due(s, p) = Due(f, p)
          /\ \A p \in 0 .. n - 1 : Due(s, p) \in Int
          /\ \A p \in 0 .. n : Due(f, p) \in Int
      <4>1. /\ Due(s, i) = Due(f, n)
            /\ \A p \in 0 .. Len0(f) - 1 : p # i /\ p # n => Due(s, p) = Due(f, p)
        BY <1>1, SwapDue
      <4>2. \A p \in 0 .. n - 1 : p \in 0 .. Len0(f) - 1 /\ p # n
        BY <1>1
      <4>3. /\ \A p \in 0 .. Len0(s) - 1 : Due(s, p) \in Int
            /\ \A p \in 0 .. Len0(f) - 1 : Due(f, p) \in Int
        BY <1>1, <3>2, PlaceFacts
      <4>. QED BY <1>1, <3>3, <4>1, <4>2, <4>3
    <3>. HIDE DEF s
    <3>6. ASSUME NEW p \in 1 .. n - 1
          PROVE  /\ p \in 0 .. n - 1 /\ Parent(p) \in 0 .. n - 1 /\ Parent(p) < p
                 /\ Due(f, Parent(p)) <= Due(f, p)
      <4>1. p \in Nat \ {0} /\ p \in 1 .. Len0(f) - 1 /\ p \in 0 .. n - 1
        BY <1>1
      <4>2. Parent(p) \in 0 .. n - 1 /\ Parent(p) < p
        BY <1>1, <4>1, ParentFacts
      <4>. QED BY <4>1, <4>2 DEF GoodHeap, OrderedTo
    <3>7. i > 0 => /\ Parent(i) \in 0 .. n - 1 /\ Parent(i) # i
                   /\ Due(s, Parent(i)) = Due(f, Parent(i))
                   /\ \A p \in 1 .. n - 1 : Parent(p) = i => Due(s, Parent(i)) <= Due(s, p)
      <4>. SUFFICES ASSUME i > 0
                    PROVE  /\ Parent(i) \in 0 .. n - 1 /\ Parent(i) # i
                           /\ Due(s, Parent(i)) = Due(f, Parent(i))
                           /\ \A p \in 1 .. n - 1 :
                                 Parent(p) = i => Due(s, Parent(i)) <= Due(s, p)
        OBVIOUS
      <4>1. i \in 1 .. n - 1
        BY <1>1, <3>1
      <4>2. Parent(i) \in 0 .. n - 1 /\ Parent(i) # i /\ Due(f, Parent(i)) <= Due(f, i)
        BY <3>1, <3>6, <4>1
      <4>3. Due(s, Parent(i)) = Due(f, Parent(i))
        BY <3>5, <4>2
      <4>4. ASSUME NEW p \in 1 .. n - 1, Parent(p) = i
            PROVE  Due(s, Parent(i)) <= Due(s, p)
        <5>1. p \in 0 .. n - 1 /\ p # i /\ Due(f, i) <= Due(f, p)
          BY <3>1, <3>6, <4>4
        <5>2. Due(f, i) \in Int /\ Due(f, p) \in Int /\ Due(f, Parent(i)) \in Int
          BY <1>1, <3>1, <3>5, <4>2, <5>1
        <5>. QED BY <3>5, <4>2, <4>3, <5>1, <5>2
      <4>. QED BY <4>2, <4>3, <4>4
    <3>8. ASSUME NEW e, e \in Heaps(I, R), Sifted(s, e, n), SameItems(s, e, n, I)
          PROVE  Rearranged(I, f, e) /\ At(e, n) = At(f, i)
      <4>1. Rearranged(I, s, e)
        BY <3>2, <3>3, <3>8, SiftedRearranged
      <4>2. Rearranged(I, f, e)
        BY <1>1, <3>2, <4>1, RearrangedTrans
      <4>3. At(e, n) = At(s, n)
        BY <3>3, <3>8 DEF Sifted
      <4>. QED BY <3>4, <4>2, <4>3
    <3>9. UpOrdered(s, i, n) => LET u == Up(s, i)
                                IN /\ u \in Heaps(I, R) /\ Sifted(s, u, n)
                                   /\ SameItems(s, u, n, I) /\ OrderedTo(u, n)
      BY <3>1, <3>2, <3>3, UpOrders
    <3>10. CASE i > 0 => Due(s, Parent(i)) <= Due(s, i)
      <4>1. DownOrdered(s, i, n)
        <5>1. ASSUME NEW p \in 1 .. n - 1, Parent(p) # i
              PROVE  Due(s, Parent(p)) <= Due(s, p)
          <6>1. CASE p = i
            BY <1>1, <3>1, <3>10, <6>1
          <6>2. CASE p # i
            BY <3>5, <3>6, <5>1, <6>2
          <6>. QED BY <6>1, <6>2
        <5>. QED BY <3>7, <5>1 DEF DownOrdered
      <4>2. /\ d \in Heaps(I, R) /\ Sifted(s, d, n) /\ SameItems(s, d, n, I)
            /\ OrderedTo(d, n)
        BY <3>2, <3>3, <4>1, DownOrders
      <4>. HIDE DEF d
      <4>3. CASE d # s
        <5>1. g = d
          BY <2>2, <4>3
        <5>. QED BY <3>8, <4>2, <5>1
      <4>4. CASE d = s
        <5>1. UpOrdered(s, i, n)
          BY <3>7, <4>2, <4>4 DEF UpOrdered, OrderedTo
        <5>2. g = Up(s, i)
          BY <2>2, <4>4
        <5>. QED BY <3>8, <3>9, <5>1, <5>2
      <4>. QED BY <4>3, <4>4
    <3>11. CASE i > 0 /\ ~(Due(s, Parent(i)) <= Due(s, i))
      <4>1. Due(s, Parent(i)) \in Int /\ Due(s, i) \in Int
        BY <3>1, <3>5, <3>7, <3>11
      <4>2. \A p \in 1 .. n - 1 : Parent(p) = i => Due(s, i) <= Due(s, p)
        <5>. SUFFICES ASSUME NEW p \in 1 .. n - 1, Parent(p) = i
                      PROVE  Due(s, i) <= Due(s, p)
          OBVIOUS
        <5>1. Due(s, Parent(i)) <= Due(s, p) /\ Due(s, p) \in Int
          BY <3>5, <3>6, <3>7, <3>11
        <5>. QED BY <3>11, <4>1, <5>1
      <4>3. d = s
        BY <3>2, <3>3, <4>2, DownStays
      <4>. HIDE DEF d
      <4>4. g = Up(s, i)
        BY <2>2, <4>3
      <4>5. UpOrdered(s, i, n)
        <5>1. ASSUME NEW p \in 1 .. n - 1, p # i
              PROVE  Due(s, Parent(p)) <= Due(s, p)
          <6>1. CASE Parent(p) = i
            BY <4>2, <6>1
          <6>2. CASE Parent(p) # i
            BY <3>5, <3>6, <5>1, <6>2
          <6>. QED BY <6>1, <6>2
        <5>. QED BY <3>7, <5>1 DEF UpOrdered
      <4>. QED BY <3>8, <3>9, <4>4, <4>5
    <3>. QED BY <3>10, <3>11
  <2>. QED BY <2>1, <2>2
<1>. HIDE DEF g
<1>3. Removed(I, R, f, CutLast(g), At(g, n))
  BY <1>1, <1>2, CutRemoves
<1>4. HeapRemove(f, i) = CutLast(g)
  BY DEF HeapRemove, g, d, s, n
<1>. QED BY <1>2, <1>3, <1>4

----------------------------------------------------------------------------
(* The store: map, heap and pool together. *)

\* No sum of the clock and a ttl is beyond an int64.
NoOverflow == \A ttl \in TTLs : MaxNow + ttl < Half

Cell == [key : Keys \cup {NoItem}, value : Values \cup {NoItem},
         exp : -Half .. Half - 1, index : Int]

Unreached(map, id) == \A k \in Keys : map[k] # id

\* An item is stored under its own key, and queued if and only if it has a deadline,
\* which is negative only when a sum wrapped; no pooled item is stored or queued.
GoodState(map, g, p) ==
    /\ map \in [Keys -> Ids \cup {NoItem}]
    /\ p \subseteq Ids
    /\ GoodHeap(Ids, Cell, g)
    /\ \A k \in Keys : map[k] # NoItem =>
          /\ g.mem[map[k]].key = k /\ g.mem[map[k]].value \in Values
          /\ g.mem[map[k]].exp # 0 => map[k] \in ToSet(g.arr)
    /\ \A id \in ToSet(g.arr) : g.mem[id].exp # 0
    /\ \A id \in p : id \notin ToSet(g.arr) /\ Unreached(map, id)
    /\ NoOverflow => \A id \in Ids : g.mem[id].exp >= 0

HeapInv == /\ GoodState(items, expHeap, pool)
           /\ batch \in Nat
           /\ now \in 0 .. MaxNow

LEMMA CellFacts ==
    /\ Cells(Cell)
    /\ \A r \in Cell : \A i \in Int : Reindex(r, i).key = r.key /\ Reindex(r, i).value = r.value
<1>. SUFFICES ASSUME NEW r \in Cell, NEW i \in Int, NEW j \in Int
              PROVE  /\ r.exp \in Int
                     /\ Reindex(r, i) \in Cell
                     /\ Reindex(r, i).index = i /\ Reindex(r, i).exp = r.exp
                     /\ Reindex(r, i).key = r.key /\ Reindex(r, i).value = r.value
                     /\ Reindex(Reindex(r, i), j) = Reindex(r, j)
  BY DEF Cells
<1>1. ASSUME NEW q \in Cell, NEW m \in Int
      PROVE  Reindex(q, m) = [key |-> q.key, value |-> q.value, exp |-> q.exp, index |-> m]
  BY DEF Cell, Reindex
<1>2. Reindex(r, i) = [key |-> r.key, value |-> r.value, exp |-> r.exp, index |-> i]
  BY <1>1
<1>3. Reindex(r, i) \in Cell
  BY <1>2 DEF Cell
<1>4. Reindex(Reindex(r, i), j) = Reindex(r, j)
  <2>1. /\ Reindex(r, i).key = r.key /\ Reindex(r, i).value = r.value
        /\ Reindex(r, i).exp = r.exp
    BY <1>2
  <2>2. Reindex(r, j) = [key |-> r.key, value |-> r.value, exp |-> r.exp, index |-> j]
    BY <1>1
  <2>3. Reindex(Reindex(r, i), j)
          = [key |-> Reindex(r, i).key, value |-> Reindex(r, i).value,
             exp |-> Reindex(r, i).exp, index |-> j]
    BY <1>1, <1>3
  <2>. QED BY <2>1, <2>2, <2>3
<1>. QED BY <1>2, <1>3, <1>4 DEF Cell

LEMMA KeptFields ==
    ASSUME NEW f \in Heaps(Ids, Cell), NEW g, Kept(Ids, f, g), NEW id \in Ids
    PROVE  /\ g.mem[id].exp = f.mem[id].exp
           /\ g.mem[id].key = f.mem[id].key
           /\ g.mem[id].value = f.mem[id].value
<1>1. f.mem[id] \in Cell
  BY DEF Heaps
<1>2. g.mem[id] = f.mem[id] \/ \E i \in Int : g.mem[id] = Reindex(f.mem[id], i)
  BY DEF Kept
<1>. QED BY <1>1, <1>2, CellFacts DEF Cells

LEMMA EmptyHeap ==
    ASSUME NEW m \in [Ids -> Cell], NEW g, g = [arr |-> <<>>, mem |-> m]
    PROVE  GoodHeap(Ids, Cell, g) /\ ToSet(g.arr) = {}
<1>1. g.arr = <<>> /\ g.mem = m /\ Len0(g) = 0 /\ g.arr \in Seq(Ids)
  BY DEF Len0
<1>2. 0 .. Len0(g) - 1 = {} /\ 1 .. Len0(g) - 1 = {}
  BY <1>1
<1>3. ToSet(g.arr) = {}
  BY <1>1 DEF ToSet
<1>. QED BY <1>1, <1>2, <1>3 DEF GoodHeap, Heaps, Indexed, OrderedTo

\* Taking a key out of the map.
LEMMA UnmapKeeps ==
    ASSUME NEW map, NEW g, NEW p, GoodState(map, g, p), NEW S,
           NEW rest, rest = [k \in Keys |-> IF k \in S THEN NoItem ELSE map[k]]
    PROVE  GoodState(rest, g, p)
<1>1. \A k \in Keys : rest[k] = NoItem \/ rest[k] = map[k]
  OBVIOUS
<1>2. rest \in [Keys -> Ids \cup {NoItem}]
  BY DEF GoodState
<1>3. \A id \in p : Unreached(rest, id)
  BY <1>1, StoreAssumption DEF GoodState, Unreached
<1>. QED BY <1>1, <1>2, <1>3 DEF GoodState

\* Taking an item that no key leads to out of the heap.
LEMMA TakeOutKeeps ==
    ASSUME NEW map, NEW f, NEW p, GoodState(map, f, p), NEW id \in Ids,
           Unreached(map, id), NEW g, Removed(Ids, Cell, f, g, id)
    PROVE  GoodState(map, g, p)
<1>1. f \in Heaps(Ids, Cell) /\ Kept(Ids, f, g) /\ ToSet(g.arr) = ToSet(f.arr) \ {id}
  BY DEF GoodState, GoodHeap, Removed
<1>2. ToSet(f.arr) \subseteq Ids
  BY <1>1, MembersFacts
<1>3. \A k \in Keys : map[k] # NoItem => map[k] \in Ids /\ map[k] # id
  BY DEF GoodState, Unreached
<1>4. \A x \in Ids : g.mem[x].exp = f.mem[x].exp /\ g.mem[x].key = f.mem[x].key
                  /\ g.mem[x].value = f.mem[x].value
  BY <1>1, KeptFields
<1>5. ASSUME NEW k \in Keys, map[k] # NoItem
      PROVE  /\ g.mem[map[k]].key = k
             /\ g.mem[map[k]].value \in Values
             /\ g.mem[map[k]].exp # 0 => map[k] \in ToSet(g.arr)
  BY <1>1, <1>3, <1>4, <1>5 DEF GoodState
<1>6. \A x \in ToSet(g.arr) : g.mem[x].exp # 0
  BY <1>1, <1>2, <1>4 DEF GoodState
<1>7. NoOverflow => \A x \in Ids : g.mem[x].exp >= 0
  BY <1>4 DEF GoodState
<1>. QED BY <1>1, <1>5, <1>6, <1>7 DEF GoodState, Removed

\* Giving an item to the pool that neither the map nor the heap leads to.
LEMMA PoolKeeps ==
    ASSUME NEW map, NEW g, NEW p, GoodState(map, g, p), NEW id \in Ids,
           Unreached(map, id), id \notin ToSet(g.arr)
    PROVE  GoodState(map, g, p \cup {id})
BY DEF GoodState

\* The item of one key is not the item of another.
LEMMA OneKeyEach ==
    ASSUME NEW map, NEW g, NEW p, GoodState(map, g, p),
           NEW k \in Keys, NEW l \in Keys, map[k] # NoItem, map[k] = map[l]
    PROVE  k = l
BY DEF GoodState

\* The method Remove takes a queued item out, by the index it remembers.
LEMMA RemoveItemRemoves ==
    ASSUME NEW f, GoodHeap(Ids, Cell, f), NEW id \in ToSet(f.arr)
    PROVE  /\ Removed(Ids, Cell, f, RemoveItem(f, id), id)
           /\ f.mem[id].index \in 0 .. Len0(f) - 1
           /\ RemoveItem(f, id) = HeapRemove(f, f.mem[id].index)
<1>1. f \in Heaps(Ids, Cell)
  BY DEF GoodHeap
<1>2. PICK p \in 0 .. Len0(f) - 1 : At(f, p) = id
  BY <1>1, MembersFacts
<1>3. f.mem[id].index = p
  BY <1>2 DEF GoodHeap, Indexed
<1>4. Removed(Ids, Cell, f, HeapRemove(f, p), id)
  BY <1>2, CellFacts, RemoveTakesOut
<1>. QED BY <1>2, <1>3, <1>4 DEF RemoveItem

\* Item id got the key, the value and the deadline, and nothing else changed.
Filled(f, g, id, k, v, ttl) ==
    /\ ToSet(g.arr) = ToSet(f.arr) \cup (IF ttl > 0 THEN {id} ELSE {})
    /\ \A x \in Ids \ {id} : /\ g.mem[x].exp = f.mem[x].exp
                             /\ g.mem[x].key = f.mem[x].key
                             /\ g.mem[x].value = f.mem[x].value
    /\ g.mem[id].key = k /\ g.mem[id].value = v
    /\ g.mem[id].exp = Abstract!Expiration(ttl)

\* Filling an item that nothing but the pool leads to, and storing it.
LEMMA FillKeeps ==
    ASSUME now \in 0 .. MaxNow,
           NEW map, NEW f, NEW p, GoodState(map, f, p),
           NEW id \in Ids, Unreached(map, id), id \notin ToSet(f.arr),
           NEW k \in Keys, NEW v \in Values, NEW ttl \in TTLs
    PROVE  /\ GoodState([map EXCEPT ![k] = id], Fill(f, id, k, v, ttl), p \ {id})
           /\ Filled(f, Fill(f, id, k, v, ttl), id, k, v, ttl)
<1>. DEFINE g == Fill(f, id, k, v, ttl)
            stored == [map EXCEPT ![k] = id]
            r == [key |-> k, value |-> v, exp |-> Abstract!Expiration(ttl), index |-> 0]
            e == [f EXCEPT !.mem[id] = r]
<1>1. /\ r \in Cell /\ (ttl > 0 <=> Abstract!Expiration(ttl) # 0)
      /\ NoOverflow => Abstract!Expiration(ttl) >= 0
  <2>1. /\ ttl \in -Half .. Half - 1 /\ Half \in Nat /\ MaxNow \in Nat /\ MaxNow < Half
        /\ NoOverflow => MaxNow + ttl < Half
    BY StoreAssumption DEF NoOverflow
  <2>2. /\ Abstract!Expiration(ttl) \in -Half .. Half - 1
        /\ ttl > 0 <=> Abstract!Expiration(ttl) # 0
        /\ NoOverflow => Abstract!Expiration(ttl) >= 0
    BY <2>1 DEF Abstract!Expiration, Abstract!Wrap
  <2>. QED BY <2>2 DEF Cell
<1>2. f \in Heaps(Ids, Cell) /\ Indexed(f) /\ OrderedTo(f, Len0(f)) /\ Len0(f) \in Nat
  BY PlaceFacts DEF GoodState, GoodHeap
<1>3. /\ e.arr = f.arr /\ e \in Heaps(Ids, Cell) /\ Len0(e) = Len0(f)
      /\ e.mem[id] = r /\ \A x \in Ids \ {id} : e.mem[x] = f.mem[x]
      /\ \A q \in 0 .. Len0(f) - 1 : At(e, q) = At(f, q)
  BY <1>1, <1>2 DEF Heaps, Len0, At
<1>4. /\ r.key = k /\ r.value = v /\ r.exp = Abstract!Expiration(ttl)
  OBVIOUS
<1>5. g = IF ttl > 0 THEN HeapPush(e, id) ELSE e
  BY DEF Fill
<1>. HIDE DEF r, e, g, stored
<1>6. \A q \in 0 .. Len0(f) - 1 : /\ At(f, q) \in Ids \ {id}
                                  /\ e.mem[At(e, q)] = f.mem[At(f, q)]
                                  /\ Due(e, q) = Due(f, q)
  <2>1. \A q \in 0 .. Len0(f) - 1 : At(f, q) \in Ids \ {id}
    BY <1>2, MembersFacts
  <2>2. \A q \in 0 .. Len0(f) - 1 : e.mem[At(e, q)] = f.mem[At(f, q)]
    BY <1>3, <2>1
  <2>. QED BY <2>1, <2>2 DEF Due
<1>7. GoodHeap(Ids, Cell, e)
  <2>1. Indexed(e)
    BY <1>2, <1>3, <1>6 DEF Indexed
  <2>2. \A q \in 1 .. Len0(f) - 1 : Due(e, Parent(q)) <= Due(e, q)
    <3>. TAKE q \in 1 .. Len0(f) - 1
    <3>1. q \in Nat \ {0} /\ q \in 0 .. Len0(f) - 1
      BY <1>2
    <3>2. Parent(q) \in 0 .. Len0(f) - 1
      BY <1>2, <3>1, ParentFacts
    <3>. QED BY <1>2, <1>6, <3>1, <3>2 DEF OrderedTo
  <2>. QED BY <1>3, <2>1, <2>2 DEF GoodHeap, OrderedTo
<1>8. /\ GoodHeap(Ids, Cell, g)
      /\ ToSet(g.arr) = ToSet(f.arr) \cup (IF ttl > 0 THEN {id} ELSE {})
      /\ Kept(Ids, e, g)
  <2>1. CASE ttl > 0
    <3>1. Added(Ids, Cell, e, HeapPush(e, id), id)
      BY <1>3, <1>7, CellFacts, PushAdds
    <3>. QED BY <1>3, <1>5, <2>1, <3>1 DEF Added
  <2>2. CASE ~(ttl > 0)
    BY <1>3, <1>5, <1>7, <2>2 DEF Kept
  <2>. QED BY <2>1, <2>2
<1>9. /\ \A x \in Ids \ {id} : /\ g.mem[x].exp = f.mem[x].exp
                               /\ g.mem[x].key = f.mem[x].key
                               /\ g.mem[x].value = f.mem[x].value
      /\ g.mem[id].key = k /\ g.mem[id].value = v
      /\ g.mem[id].exp = Abstract!Expiration(ttl)
  <2>1. \A x \in Ids : /\ g.mem[x].exp = e.mem[x].exp
                       /\ g.mem[x].key = e.mem[x].key
                       /\ g.mem[x].value = e.mem[x].value
    BY <1>3, <1>8, KeptFields
  <2>. QED BY <1>3, <1>4, <2>1
<1>10. /\ stored \in [Keys -> Ids \cup {NoItem}]
       /\ stored[k] = id
       /\ \A l \in Keys \ {k} : stored[l] = map[l]
  BY DEF GoodState, stored
<1>11. ASSUME NEW l \in Keys, stored[l] # NoItem
       PROVE  /\ g.mem[stored[l]].key = l /\ g.mem[stored[l]].value \in Values
              /\ g.mem[stored[l]].exp # 0 => stored[l] \in ToSet(g.arr)
  <2>1. CASE l = k
    BY <1>1, <1>8, <1>9, <1>10, <2>1
  <2>2. CASE l # k
    <3>1. stored[l] = map[l] /\ map[l] \in Ids \ {id}
      BY <1>10, <1>11, <2>2 DEF GoodState, Unreached
    <3>. QED BY <1>8, <1>9, <1>11, <3>1 DEF GoodState
  <2>. QED BY <2>1, <2>2
<1>12. ASSUME NEW x \in ToSet(g.arr)
       PROVE  g.mem[x].exp # 0
  <2>1. CASE x = id
    BY <1>1, <1>8, <1>9, <2>1
  <2>2. CASE x # id
    <3>1. x \in ToSet(f.arr) /\ x \in Ids \ {id}
      BY <1>2, <1>8, <2>2, MembersFacts
    <3>. QED BY <1>9, <3>1 DEF GoodState
  <2>. QED BY <2>1, <2>2
<1>13. ASSUME NEW x \in p \ {id}
       PROVE  x \notin ToSet(g.arr) /\ Unreached(stored, x)
  BY <1>8, <1>10 DEF GoodState, Unreached
<1>14. NoOverflow => \A x \in Ids : g.mem[x].exp >= 0
  BY <1>1, <1>9 DEF GoodState
<1>15. GoodState(stored, g, p \ {id})
  BY <1>8, <1>10, <1>11, <1>12, <1>13, <1>14 DEF GoodState
<1>. QED BY <1>8, <1>9, <1>15 DEF Filled, g, stored

----------------------------------------------------------------------------
(* The operations of the store keep its invariant. *)

\* What is collected was neither stored nor queued.
LEMMA BecomeKeeps ==
    ASSUME NEW map, NEW g, NEW p, GoodState(map, g, p), Become(map, g, p),
           batch' \in Nat, now' \in 0 .. MaxNow
    PROVE  HeapInv'
<1>. DEFINE live == {map[k] : k \in Keys} \cup ToSet(g.arr)
            e == [g EXCEPT !.mem = [id \in Ids |-> IF id \in live THEN @[id] ELSE Blank]]
<1>1. items' = map /\ expHeap' = e /\ pool' = p
  BY DEF Become
<1>2. Blank \in Cell
  BY StoreAssumption DEF Blank, Cell
<1>3. g \in Heaps(Ids, Cell) /\ Indexed(g) /\ OrderedTo(g, Len0(g)) /\ Len0(g) \in Nat
  BY PlaceFacts DEF GoodState, GoodHeap
<1>4. /\ e \in Heaps(Ids, Cell) /\ e.arr = g.arr /\ Len0(e) = Len0(g)
      /\ \A id \in Ids : id \in live => e.mem[id] = g.mem[id]
      /\ \A q \in 0 .. Len0(g) - 1 : At(e, q) = At(g, q)
  BY <1>2, <1>3 DEF Heaps, Len0, At
<1>5. \A q \in 0 .. Len0(g) - 1 : e.mem[At(e, q)] = g.mem[At(g, q)]
  <2>1. \A q \in 0 .. Len0(g) - 1 : At(g, q) \in Ids /\ At(g, q) \in ToSet(g.arr)
    BY <1>3, PlaceFacts, MembersFacts
  <2>. QED BY <1>4, <2>1
<1>6. /\ \A k \in Keys : map[k] # NoItem => e.mem[map[k]] = g.mem[map[k]]
      /\ \A id \in ToSet(g.arr) : e.mem[id] = g.mem[id]
  <2>1. ToSet(g.arr) \subseteq Ids
    BY <1>3, MembersFacts
  <2>. QED BY <1>4, <2>1 DEF GoodState
<1>. HIDE DEF e, live
<1>7. GoodHeap(Ids, Cell, e)
  <2>1. Indexed(e)
    BY <1>3, <1>4, <1>5 DEF Indexed
  <2>2. \A q \in 1 .. Len0(g) - 1 : Due(e, Parent(q)) <= Due(e, q)
    <3>. TAKE q \in 1 .. Len0(g) - 1
    <3>1. q \in Nat \ {0} /\ q \in 0 .. Len0(g) - 1
      BY <1>3
    <3>2. Parent(q) \in 0 .. Len0(g) - 1
      BY <1>3, <3>1, ParentFacts
    <3>3. Due(e, q) = Due(g, q) /\ Due(e, Parent(q)) = Due(g, Parent(q))
      BY <1>5, <3>1, <3>2 DEF Due
    <3>. QED BY <1>3, <3>3 DEF OrderedTo
  <2>. QED BY <1>4, <2>1, <2>2 DEF GoodHeap, OrderedTo
<1>8. NoOverflow => \A id \in Ids : e.mem[id].exp >= 0
  <2>1. \A id \in Ids : e.mem[id] = g.mem[id] \/ e.mem[id] = Blank
    BY <1>3 DEF e, Heaps
  <2>. QED BY <2>1 DEF GoodState, Blank
<1>9. GoodState(map, e, p)
  BY <1>4, <1>6, <1>7, <1>8 DEF GoodState
<1>. QED BY <1>1, <1>9 DEF HeapInv

LEMMA InitHeapInv == Init => HeapInv
<1>. SUFFICES ASSUME Init PROVE HeapInv
  OBVIOUS
<1>1. [id \in Ids |-> Blank] \in [Ids -> Cell]
  BY StoreAssumption DEF Blank, Cell
<1>2. GoodHeap(Ids, Cell, expHeap) /\ ToSet(expHeap.arr) = {}
  BY <1>1, EmptyHeap DEF Init
<1>3. items = [k \in Keys |-> NoItem] /\ pool = {} /\ batch = 0 /\ now = 0
  BY DEF Init
<1>4. \A id \in Ids : expHeap.mem[id].exp >= 0
  BY DEF Init, Blank
<1>5. GoodState(items, expHeap, pool)
  BY <1>2, <1>3, <1>4 DEF GoodState
<1>. QED BY <1>3, <1>5, StoreAssumption DEF HeapInv

LEMMA FreeFacts ==
    ASSUME HeapInv, NEW id \in Free \cup pool
    PROVE  id \in Ids /\ Unreached(items, id) /\ id \notin ToSet(expHeap.arr)
<1>1. CASE id \in pool
  BY <1>1 DEF HeapInv, GoodState
<1>2. CASE id \in Free
  <2>1. \A k \in Keys : items[k] # NoItem => items[k] # id
    BY <1>2 DEF Free, Reached, Stored
  <2>. QED BY <1>2, <2>1, StoreAssumption DEF Free, Members, Unreached
<1>. QED BY <1>1, <1>2

LEMMA PutKeeps ==
    ASSUME HeapInv, NEW k \in Keys, NEW v \in Values, NEW ttl \in TTLs,
           Put(k, v, ttl)
    PROVE  HeapInv'
<1>1. PICK id \in Free :
         /\ Become([items EXCEPT ![k] = id], Fill(expHeap, id, k, v, ttl), pool)
         /\ UNCHANGED <<batch, now>>
  BY DEF Put
<1>2. id \in Ids /\ Unreached(items, id) /\ id \notin ToSet(expHeap.arr) /\ id \notin pool
  BY FreeFacts DEF Free
<1>. DEFINE map == [items EXCEPT ![k] = id]
            g == Fill(expHeap, id, k, v, ttl)
<1>. HIDE DEF map, g
<1>3. GoodState(map, g, pool \ {id})
  <2>1. GoodState(items, expHeap, pool) /\ now \in 0 .. MaxNow
    BY DEF HeapInv
  <2>. QED BY <1>2, <2>1, FillKeeps DEF map, g
<1>4. pool \ {id} = pool
  BY <1>2
<1>5. batch' \in Nat /\ now' \in 0 .. MaxNow
  BY <1>1 DEF HeapInv
<1>. QED BY <1>1, <1>3, <1>4, <1>5, BecomeKeeps DEF map, g

\* A key leaves the map and its item, when it is queued, the heap, unless its deadline
\* wrapped.
LEMMA UnstoreKeeps ==
    ASSUME HeapInv, NEW k \in Keys, items[k] # NoItem,
           NEW rest, rest = [items EXCEPT ![k] = NoItem],
           NEW g, g = IF Exp(k) > 0 THEN RemoveItem(expHeap, items[k]) ELSE expHeap
    PROVE  /\ GoodState(rest, g, pool)
           /\ items[k] \in Ids /\ Unreached(rest, items[k])
           /\ NoOverflow => items[k] \notin ToSet(g.arr)
<1>. DEFINE id == items[k]
<1>1. /\ GoodState(items, expHeap, pool) /\ id \in Ids
      /\ rest = [l \in Keys |-> IF l \in {k} THEN NoItem ELSE items[l]]
      /\ expHeap.mem[id].exp \in Int /\ Exp(k) = expHeap.mem[id].exp
      /\ GoodHeap(Ids, Cell, expHeap)
  <2>1. GoodState(items, expHeap, pool) /\ id \in Ids
    BY DEF HeapInv, GoodState
  <2>2. expHeap.mem[id] \in Cell
    BY <2>1 DEF GoodState, GoodHeap, Heaps
  <2>3. expHeap.mem[id].exp \in Int
    BY <2>2, StoreAssumption DEF Cell
  <2>4. rest = [l \in Keys |-> IF l \in {k} THEN NoItem ELSE items[l]]
    BY <2>1 DEF GoodState
  <2>. QED BY <2>1, <2>3, <2>4 DEF Exp, GoodState
<1>2. GoodState(rest, expHeap, pool)
  BY <1>1, UnmapKeeps
<1>3. Unreached(rest, id)
  <2>1. \A l \in Keys : l # k => items[l] # id
    BY <1>1, OneKeyEach
  <2>. QED BY <1>1, <2>1, StoreAssumption DEF Unreached
<1>4. CASE Exp(k) > 0
  <2>1. id \in ToSet(expHeap.arr)
    BY <1>1, <1>4 DEF GoodState
  <2>2. Removed(Ids, Cell, expHeap, g, id)
    BY <1>1, <1>4, <2>1, RemoveItemRemoves
  <2>3. id \notin ToSet(g.arr)
    BY <2>2 DEF Removed
  <2>. HIDE DEF id
  <2>4. GoodState(rest, g, pool)
    BY <1>1, <1>2, <1>3, <2>2, TakeOutKeeps
  <2>. QED BY <1>1, <1>3, <2>3, <2>4 DEF id
<1>5. CASE ~(Exp(k) > 0)
  <2>1. g = expHeap
    BY <1>5
  <2>2. NoOverflow => expHeap.mem[id].exp = 0
    BY <1>1, <1>5 DEF GoodState
  <2>3. NoOverflow => id \notin ToSet(expHeap.arr)
    BY <1>1, <2>2 DEF GoodState
  <2>. QED BY <1>1, <1>2, <1>3, <2>1, <2>3
<1>. QED BY <1>4, <1>5

\* Delete goes by the index of the item, which is where the item is.
LEMMA DeleteBecomes ==
    ASSUME HeapInv, NEW k \in Keys, Delete(k)
    PROVE  Become([items EXCEPT ![k] = NoItem],
                  IF Exp(k) > 0 THEN RemoveItem(expHeap, items[k]) ELSE expHeap, pool)
<1>1. items[k] # NoItem /\ GoodState(items, expHeap, pool)
  BY DEF Delete, Stored, HeapInv
<1>2. (IF Exp(k) > 0 THEN RemoveItem(expHeap, items[k]) ELSE expHeap)
         = IF Exp(k) > 0 /\ expHeap.mem[items[k]].index >= 0
           THEN HeapRemove(expHeap, expHeap.mem[items[k]].index)
           ELSE expHeap
  <2>1. CASE Exp(k) > 0
    <3>1. items[k] \in ToSet(expHeap.arr)
      BY <1>1, <2>1 DEF GoodState, Exp
    <3>2. GoodHeap(Ids, Cell, expHeap)
      BY <1>1 DEF GoodState
    <3>3. /\ expHeap.mem[items[k]].index \in 0 .. Len0(expHeap) - 1
          /\ RemoveItem(expHeap, items[k])
               = HeapRemove(expHeap, expHeap.mem[items[k]].index)
      BY <3>1, <3>2, RemoveItemRemoves
    <3>4. expHeap.mem[items[k]].index >= 0
      BY <3>3
    <3>. QED BY <2>1, <3>3, <3>4
  <2>2. CASE ~(Exp(k) > 0)
    BY <2>2
  <2>. QED BY <2>1, <2>2
<1>. QED BY <1>2 DEF Delete

LEMMA DeleteKeeps ==
    ASSUME HeapInv, NEW k \in Keys, Delete(k)
    PROVE  HeapInv'
<1>. DEFINE g == IF Exp(k) > 0 THEN RemoveItem(expHeap, items[k]) ELSE expHeap
            rest == [items EXCEPT ![k] = NoItem]
<1>1. items[k] # NoItem
  BY DEF Delete, Stored
<1>2. Become(rest, g, pool) /\ batch' \in Nat /\ now' \in 0 .. MaxNow
  BY DeleteBecomes DEF Delete, HeapInv
<1>. HIDE DEF g, rest
<1>3. GoodState(rest, g, pool)
  BY <1>1, UnstoreKeeps DEF rest, g
<1>. QED BY <1>2, <1>3, BecomeKeeps

\* The batch operations that take a key out give its item to the pool.
LEMMA UnstoreToPoolKeeps ==
    ASSUME NoOverflow, HeapInv, NEW k \in Keys, Stored(k),
           NEW g, g = IF Exp(k) > 0 THEN RemoveItem(expHeap, items[k]) ELSE expHeap,
           Become([items EXCEPT ![k] = NoItem], g, pool \cup {items[k]}),
           batch' \in Nat, now' = now
    PROVE  HeapInv'
<1>. DEFINE rest == [items EXCEPT ![k] = NoItem]
<1>. HIDE DEF rest
<1>1. /\ GoodState(rest, g, pool)
      /\ items[k] \in Ids /\ Unreached(rest, items[k]) /\ items[k] \notin ToSet(g.arr)
  BY UnstoreKeeps DEF rest, Stored
<1>2. GoodState(rest, g, pool \cup {items[k]})
  BY <1>1, PoolKeeps
<1>. QED BY <1>2, BecomeKeeps DEF rest, HeapInv

LEMMA BatchDelKeeps ==
    ASSUME NoOverflow, HeapInv, NEW k \in Keys, BatchDel(k), batch' \in Nat, now' = now
    PROVE  HeapInv'
<1>1. CASE Stored(k)
  BY <1>1, UnstoreToPoolKeeps DEF BatchDel
<1>2. CASE ~Stored(k)
  <2>1. UNCHANGED <<items, expHeap, pool>>
    BY <1>2 DEF BatchDel
  <2>. QED BY <2>1 DEF HeapInv
<1>. QED BY <1>1, <1>2

LEMMA BatchGetKeeps ==
    ASSUME NoOverflow, HeapInv, NEW k \in Keys, BatchGet(k), batch' \in Nat, now' = now
    PROVE  HeapInv'
<1>1. CASE Stored(k) /\ Exp(k) # 0 /\ Exp(k) <= now
  <2>1. Exp(k) > 0
    <3>1. items[k] \in Ids
      BY <1>1 DEF HeapInv, GoodState, Stored
    <3>2. expHeap.mem[items[k]] \in Cell /\ expHeap.mem[items[k]].exp >= 0
      BY <3>1 DEF HeapInv, GoodState, GoodHeap, Heaps
    <3>. QED BY <1>1, <3>2 DEF Cell, Exp
  <2>2. Become([items EXCEPT ![k] = NoItem], RemoveItem(expHeap, items[k]),
               pool \cup {items[k]})
    BY <1>1 DEF BatchGet
  <2>. QED BY <1>1, <2>1, <2>2, UnstoreToPoolKeeps
<1>2. CASE ~(Stored(k) /\ Exp(k) # 0 /\ Exp(k) <= now)
  <2>1. UNCHANGED <<items, expHeap, pool>>
    BY <1>2 DEF BatchGet
  <2>. QED BY <2>1 DEF HeapInv
<1>. QED BY <1>1, <1>2

\* The heap and the pool without and with the item that a batch SET replaces.
Taken(g, k) == IF Stored(k) /\ Exp(k) > 0 THEN RemoveItem(g, items[k]) ELSE g
Given(id, k) == IF Stored(k) THEN (pool \ {id}) \cup {items[k]} ELSE pool \ {id}

\* Item id of the pool or a free one is filled, stored and queued; then the item it
\* replaces is taken out of the heap.
Replacement(id, k, v, ttl, map, g) ==
    /\ id \in Ids /\ Unreached(items, id) /\ id \notin ToSet(expHeap.arr)
    /\ Become(map, Taken(g, k), Given(id, k))
    /\ Filled(expHeap, g, id, k, v, ttl)
    /\ GoodState(map, g, pool \ {id})
    /\ GoodState(map, Taken(g, k), Given(id, k))
    /\ Stored(k) /\ Exp(k) > 0 => Removed(Ids, Cell, g, Taken(g, k), items[k])

LEMMA PutPooledReplaces ==
    ASSUME NoOverflow, HeapInv, NEW k \in Keys, NEW v \in Values, NEW ttl \in TTLs,
           PutPooled(k, v, ttl)
    PROVE  \E id \in Free \cup pool :
              Replacement(id, k, v, ttl, [items EXCEPT ![k] = id], Fill(expHeap, id, k, v, ttl))
<1>. DEFINE New(id) == Fill(expHeap, id, k, v, ttl)
            old == items[k]
<1>1. PICK id \in Free \cup pool :
         Become([items EXCEPT ![k] = id],
                IF Stored(k) /\ Exp(k) > 0 THEN RemoveItem(New(id), old) ELSE New(id),
                IF Stored(k) THEN (pool \ {id}) \cup {old} ELSE pool \ {id})
  <2>1. PICK source \in {pool, Free} :
           /\ source # {}
           /\ LET id == CHOOSE x \in source : TRUE
              IN Become([items EXCEPT ![k] = id],
                        IF Stored(k) /\ Exp(k) > 0 THEN RemoveItem(New(id), old)
                                                   ELSE New(id),
                        IF Stored(k) THEN (pool \ {id}) \cup {old} ELSE pool \ {id})
    BY DEF PutPooled
  <2>2. (CHOOSE x \in source : TRUE) \in Free \cup pool
    BY <2>1
  <2>. QED BY <2>1, <2>2
<1>2. id \in Ids /\ Unreached(items, id) /\ id \notin ToSet(expHeap.arr)
  BY FreeFacts
<1>. DEFINE map == [items EXCEPT ![k] = id]
            g == New(id)
            taken == IF Stored(k) /\ Exp(k) > 0 THEN RemoveItem(g, old) ELSE g
            given == IF Stored(k) THEN (pool \ {id}) \cup {old} ELSE pool \ {id}
<1>3. Become(map, taken, given)
  BY <1>1
<1>4. GoodState(items, expHeap, pool) /\ now \in 0 .. MaxNow
  BY DEF HeapInv
<1>5. /\ GoodState(map, g, pool \ {id}) /\ Filled(expHeap, g, id, k, v, ttl)
      /\ ToSet(expHeap.arr) \subseteq ToSet(g.arr)
      /\ ToSet(g.arr) \subseteq ToSet(expHeap.arr) \cup {id}
  <2>1. GoodState(map, g, pool \ {id}) /\ Filled(expHeap, g, id, k, v, ttl)
    BY <1>2, <1>4, FillKeeps
  <2>. HIDE DEF map, g
  <2>. QED BY <2>1 DEF Filled
<1>. HIDE DEF g, New
<1>6. /\ GoodState(map, taken, given)
      /\ Stored(k) /\ Exp(k) > 0 => Removed(Ids, Cell, g, taken, old)
  <2>1. CASE ~Stored(k)
    BY <1>5, <2>1
  <2>2. CASE Stored(k)
    <3>1. old \in Ids /\ old # id /\ old # NoItem
      BY <1>2, <1>4, <2>2 DEF Stored, GoodState, Unreached
    <3>2. Unreached(map, old)
      <4>1. \A l \in Keys : l # k => items[l] # old
        BY <1>4, <3>1, OneKeyEach
      <4>2. \A l \in Keys : map[l] = IF l = k THEN id ELSE items[l]
        BY <1>4 DEF GoodState
      <4>. QED BY <3>1, <4>1, <4>2 DEF Unreached
    <3>. HIDE DEF map
    <3>3. /\ GoodState(map, taken, pool \ {id}) /\ old \notin ToSet(taken.arr)
          /\ Exp(k) > 0 => Removed(Ids, Cell, g, taken, old)
      <4>1. CASE Exp(k) > 0
        <5>1. old \in ToSet(expHeap.arr)
          BY <1>4, <2>2, <4>1 DEF GoodState, Exp, Stored
        <5>2. old \in ToSet(g.arr) /\ GoodHeap(Ids, Cell, g) /\ taken = RemoveItem(g, old)
          BY <1>5, <2>2, <4>1, <5>1 DEF GoodState
        <5>3. Removed(Ids, Cell, g, taken, old)
          BY <5>2, RemoveItemRemoves
        <5>. HIDE DEF taken, old
        <5>4. GoodState(map, taken, pool \ {id})
          BY <1>5, <3>1, <3>2, <5>3, TakeOutKeeps
        <5>5. old \notin ToSet(taken.arr)
          BY <5>3 DEF Removed
        <5>. QED BY <5>3, <5>4, <5>5
      <4>2. CASE ~(Exp(k) > 0)
        <5>1. taken = g
          BY <4>2
        <5>2. expHeap.mem[old] \in Cell /\ expHeap.mem[old].exp >= 0
          BY <1>4, <3>1 DEF GoodState, GoodHeap, Heaps
        <5>3. expHeap.mem[old].exp = 0
          BY <4>2, <5>2 DEF Cell, Exp
        <5>4. old \notin ToSet(g.arr)
          BY <1>4, <1>5, <3>1, <5>3 DEF GoodState
        <5>. HIDE DEF taken, old
        <5>. QED BY <1>5, <4>2, <5>1, <5>4
      <4>. HIDE DEF taken, old
      <4>. QED BY <4>1, <4>2
    <3>4. given = (pool \ {id}) \cup {old}
      BY <2>2
    <3>. HIDE DEF taken, given, old
    <3>. QED BY <3>1, <3>2, <3>3, <3>4, PoolKeeps
  <2>. QED BY <2>1, <2>2
<1>7. taken = Taken(g, k) /\ given = Given(id, k) /\ old = items[k]
  BY DEF Taken, Given
<1>. HIDE DEF map, taken, given, old
<1>8. Replacement(id, k, v, ttl, map, g)
  BY <1>2, <1>3, <1>5, <1>6, <1>7 DEF Replacement
<1>. QED BY <1>8 DEF map, g, New

LEMMA PutPooledKeeps ==
    ASSUME NoOverflow, HeapInv, NEW k \in Keys, NEW v \in Values, NEW ttl \in TTLs,
           PutPooled(k, v, ttl), batch' \in Nat, now' = now
    PROVE  HeapInv'
<1>1. PICK id \in Free \cup pool :
         Replacement(id, k, v, ttl, [items EXCEPT ![k] = id], Fill(expHeap, id, k, v, ttl))
  BY PutPooledReplaces
<1>. DEFINE map == [items EXCEPT ![k] = id]
            g == Fill(expHeap, id, k, v, ttl)
<1>. HIDE DEF map, g
<1>2. Become(map, Taken(g, k), Given(id, k)) /\ GoodState(map, Taken(g, k), Given(id, k))
  BY <1>1 DEF Replacement, map, g
<1>. QED BY <1>2, BecomeKeeps DEF HeapInv

Sweeps == INSTANCE SequenceLemmas WITH Op <- SweepTurn

\* The state of the loop of Cleanup: what it took out of the heap was due, and the keys
\* of that, and no others, are gone from the map.
TakenOut(x) == Members \ ToSet(x.heap.arr)
Swept(x) ==
    /\ GoodState(x.items, x.heap, pool)
    /\ ToSet(x.heap.arr) \subseteq Members
    /\ \A id \in Ids : /\ x.heap.mem[id].key = expHeap.mem[id].key
                       /\ x.heap.mem[id].value = expHeap.mem[id].value
                       /\ x.heap.mem[id].exp = expHeap.mem[id].exp
    /\ \A id \in TakenOut(x) : expHeap.mem[id].exp <= now
    /\ \A k \in Keys : x.items[k] = IF \E id \in TakenOut(x) : expHeap.mem[id].key = k
                                    THEN NoItem ELSE items[k]
SweepStopped(x) == Len0(x.heap) = 0 \/ x.heap.mem[At(x.heap, 0)].exp > now

\* Cleanup pops while the top is due, and unmaps what it pops, until nothing due is left.
LEMMA SweepTakesDue ==
    ASSUME HeapInv
    PROVE  Swept(Sweep(expHeap, items)) /\ SweepStopped(Sweep(expHeap, items))
<1>. DEFINE base == [heap |-> expHeap, items |-> items, time |-> now]
            len == Len(expHeap.arr)
            States == [heap : Heaps(Ids, Cell), items : [Keys -> Ids \cup {NoItem}], time : {now}]
            G == [n \in Nat |-> {x \in States : /\ Swept(x)
                                                /\ SweepStopped(x) \/ Len0(x.heap) <= len - n}]
<1>1. /\ expHeap.arr \in Seq(Ids) /\ len \in Nat /\ Len0(expHeap) = len
      /\ Members \subseteq Ids /\ now \in Int
  <2>1. expHeap \in Heaps(Ids, Cell) /\ now \in Int
    BY DEF HeapInv, GoodState, GoodHeap
  <2>2. Members \subseteq Ids
    BY <2>1, MembersFacts DEF Members
  <2>. QED BY <2>1, <2>2 DEF Heaps, Len0
<1>2. base \in G[0]
  <2>1. base \in States /\ GoodState(items, expHeap, pool)
    BY DEF HeapInv, GoodState, GoodHeap
  <2>2. TakenOut(base) = {}
    BY DEF TakenOut, Members
  <2>3. Swept(base)
    BY <2>1, <2>2 DEF Swept, Members
  <2>4. Len0(base.heap) <= len - 0
    BY <1>1
  <2>. HIDE DEF base
  <2>. QED BY <2>1, <2>3, <2>4
<1>3. ASSUME NEW n \in 1 .. len, NEW x \in G[n - 1]
      PROVE  SweepTurn(x, expHeap.arr[n]) \in G[n]
  <2>1. /\ n \in Nat /\ n - 1 \in Nat /\ x \in States /\ Swept(x) /\ x.time = now
        /\ SweepStopped(x) \/ Len0(x.heap) <= len - (n - 1)
    BY <1>1
  <2>2. CASE SweepStopped(x)
    <3>1. SweepTurn(x, expHeap.arr[n]) = x
      BY <2>1, <2>2 DEF SweepTurn, SweepStopped
    <3>. QED BY <2>1, <2>2, <3>1
  <2>3. CASE ~SweepStopped(x)
    <3>. DEFINE z == At(x.heap, 0)
                key == x.heap.mem[z].key
                rest == [k \in Keys |-> IF k = key THEN NoItem ELSE x.items[k]]
                g == HeapPop(x.heap)
                y == [heap |-> g, items |-> rest, time |-> x.time]
    <3>1. SweepTurn(x, expHeap.arr[n]) = y
      BY <2>1, <2>3 DEF SweepTurn, SweepStopped
    <3>2. /\ GoodHeap(Ids, Cell, x.heap) /\ x.heap \in Heaps(Ids, Cell)
          /\ Len0(x.heap) > 0 /\ Len0(x.heap) \in Nat /\ z \in Ids /\ z \in ToSet(x.heap.arr)
          /\ GoodState(x.items, x.heap, pool) /\ x.heap.mem[z].exp <= now
      <4>1. GoodState(x.items, x.heap, pool) /\ GoodHeap(Ids, Cell, x.heap)
            /\ x.heap \in Heaps(Ids, Cell)
        BY <2>1 DEF Swept, GoodState, GoodHeap
      <4>2. Len0(x.heap) > 0 /\ Len0(x.heap) \in Nat /\ 0 \in 0 .. Len0(x.heap) - 1
        BY <2>3, <4>1, PlaceFacts DEF SweepStopped
      <4>3. z \in Ids /\ z \in ToSet(x.heap.arr)
        BY <4>1, <4>2, PlaceFacts, MembersFacts
      <4>4. x.heap.mem[z] \in Cell
        BY <4>1, <4>3 DEF Heaps
      <4>5. x.heap.mem[z].exp \in Int
        BY <4>4 DEF Cell
      <4>6. ~(x.heap.mem[z].exp > now)
        BY <2>3 DEF SweepStopped
      <4>. QED BY <1>1, <4>1, <4>2, <4>3, <4>5, <4>6, SMTT(40)
    <3>3. Removed(Ids, Cell, x.heap, g, z)
      BY <3>2, CellFacts, PopRemovesFirst
    <3>. HIDE DEF z
    <3>4. Unreached(rest, z)
      <4>1. ASSUME NEW k \in Keys, x.items[k] = z
            PROVE  k = key
        BY <3>2, <4>1, StoreAssumption DEF GoodState
      <4>. QED BY <3>2, <4>1, StoreAssumption, ZenonT(60) DEF Unreached
    <3>5. /\ rest = [k \in Keys |-> IF k \in {key} THEN NoItem ELSE x.items[k]]
          /\ \A k \in Keys : rest[k] = IF k = key THEN NoItem ELSE x.items[k]
      OBVIOUS
    <3>6. key = expHeap.mem[z].key /\ expHeap.mem[z].exp <= now
      BY <2>1, <3>2 DEF Swept
    <3>. HIDE DEF key, rest, g
    <3>7. GoodState(rest, x.heap, pool)
      <4>1. GoodState(x.items, x.heap, pool)
        BY <3>2
      <4>2. rest = [k \in Keys |-> IF k \in {key} THEN NoItem ELSE x.items[k]]
        BY <3>5
      <4>. QED BY <4>1, <4>2, UnmapKeeps, ZenonT(60)
    <3>8. GoodState(rest, g, pool)
      BY <3>2, <3>3, <3>4, <3>7, TakeOutKeeps
    <3>9. y \in States
      BY <2>1, <3>8 DEF GoodState, GoodHeap
    <3>10. TakenOut(y) = TakenOut(x) \cup {z} /\ ToSet(g.arr) \subseteq Members
      BY <2>1, <3>2, <3>3 DEF TakenOut, Removed, Swept
    <3>11. \A id \in Ids : /\ g.mem[id].key = expHeap.mem[id].key
                           /\ g.mem[id].value = expHeap.mem[id].value
                           /\ g.mem[id].exp = expHeap.mem[id].exp
      <4>1. Kept(Ids, x.heap, g)
        BY <3>3 DEF Removed
      <4>2. \A id \in Ids : /\ g.mem[id].key = x.heap.mem[id].key
                            /\ g.mem[id].value = x.heap.mem[id].value
                            /\ g.mem[id].exp = x.heap.mem[id].exp
        BY <3>2, <4>1, KeptFields
      <4>. QED BY <2>1, <4>2 DEF Swept
    <3>12. \A id \in TakenOut(y) : expHeap.mem[id].exp <= now
      <4>1. \A id \in TakenOut(x) : expHeap.mem[id].exp <= now
        BY <2>1 DEF Swept
      <4>. QED BY <3>6, <3>10, <4>1
    <3>13. \A k \in Keys : rest[k] = IF \E id \in TakenOut(y) : expHeap.mem[id].key = k
                                     THEN NoItem ELSE items[k]
      <4>1. \A k \in Keys : x.items[k] = IF \E id \in TakenOut(x) : expHeap.mem[id].key = k
                                         THEN NoItem ELSE items[k]
        BY <2>1 DEF Swept
      <4>. QED BY <3>5, <3>6, <3>10, <4>1
    <3>14. Len0(y.heap) <= len - n
      <4>1. Len0(g) = Len0(x.heap) - 1
        BY <3>3 DEF Removed
      <4>. QED BY <1>1, <2>1, <2>3, <3>2, <4>1
    <3>15. Swept(y)
      BY <3>8, <3>10, <3>11, <3>12, <3>13 DEF Swept
    <3>. HIDE DEF y
    <3>. QED BY <2>1, <3>1, <3>9, <3>14, <3>15
  <2>. QED BY <2>2, <2>3
<1>4. Sweeps!FoldLeft(SweepTurn, base, expHeap.arr) \in G[len]
  <2>. HIDE DEF G, base
  <2>. QED BY <1>1, <1>2, <1>3, Sweeps!FoldLeftInvariant
<1>5. Sweep(expHeap, items) = Sweeps!FoldLeft(SweepTurn, base, expHeap.arr)
  BY DEF Sweep, FoldLeft, Sweeps!FoldLeft, MapThenFoldSet, Sweeps!MapThenFoldSet,
         Max, Sweeps!Max
<1>. DEFINE last == Sweep(expHeap, items)
<1>. HIDE DEF last
<1>6. last \in States /\ Swept(last) /\ (SweepStopped(last) \/ Len0(last.heap) <= len - len)
  BY <1>1, <1>4, <1>5 DEF last
<1>7. Len0(last.heap) \in Nat
  BY <1>6, PlaceFacts
<1>8. SweepStopped(last)
  BY <1>1, <1>6, <1>7 DEF SweepStopped
<1>. QED BY <1>6, <1>8 DEF last

LEMMA CleanupKeeps ==
    ASSUME HeapInv, Cleanup
    PROVE  HeapInv'
<1>. DEFINE swept == Sweep(expHeap, items)
<1>1. GoodState(swept.items, swept.heap, pool)
  BY SweepTakesDue DEF Swept
<1>2. Become(swept.items, swept.heap, pool) /\ batch' \in Nat /\ now' \in 0 .. MaxNow
  BY DEF Cleanup, HeapInv
<1>. HIDE DEF swept
<1>. QED BY <1>1, <1>2, BecomeKeeps

LEMMA FlushAllKeeps ==
    ASSUME HeapInv, FlushAll
    PROVE  HeapInv'
<1>. DEFINE none == [k \in Keys |-> NoItem]
            e == [expHeap EXCEPT !.arr = <<>>]
<1>1. GoodState(items, expHeap, pool) /\ expHeap \in Heaps(Ids, Cell)
  BY DEF HeapInv, GoodState, GoodHeap
<1>2. expHeap.mem \in [Ids -> Cell] /\ e = [arr |-> <<>>, mem |-> expHeap.mem]
  BY <1>1 DEF Heaps
<1>3. GoodHeap(Ids, Cell, e) /\ ToSet(e.arr) = {}
  <2>. HIDE DEF e
  <2>. QED BY <1>2, EmptyHeap
<1>. HIDE DEF e
<1>4. none = [k \in Keys |-> IF k \in Keys THEN NoItem ELSE items[k]]
  OBVIOUS
<1>5. GoodState(none, e, pool)
  <2>1. e.mem = expHeap.mem
    BY <1>2
  <2>. QED BY <1>1, <1>3, <2>1, StoreAssumption DEF GoodState, Unreached
<1>6. Become(none, e, pool) /\ batch' \in Nat /\ now' \in 0 .. MaxNow
  BY DEF FlushAll, HeapInv, e
<1>. HIDE DEF none
<1>. QED BY <1>5, <1>6, BecomeKeeps

LEMMA PlainNextKeeps ==
    ASSUME HeapInv, PlainNext
    PROVE  HeapInv'
<1>1. ASSUME NEW k \in Keys, NEW v \in Values, NEW ttl \in TTLs,
             Set(k, v, ttl) \/ SetNX(k, v, ttl)
      PROVE  HeapInv'
  BY <1>1, PutKeeps DEF Set, SetNX
<1>2. ASSUME NEW k \in Keys, Delete(k)
      PROVE  HeapInv'
  BY <1>2, DeleteKeeps
<1>3. CASE Cleanup
  BY <1>3, CleanupKeeps
<1>4. CASE FlushAll
  BY <1>4, FlushAllKeeps
<1>5. CASE Tick
  BY <1>5, StoreAssumption DEF Tick, HeapInv
<1>. QED BY <1>1, <1>2, <1>3, <1>4, <1>5 DEF PlainNext

LEMMA PooledNextKeeps ==
    ASSUME NoOverflow, HeapInv, PooledNext
    PROVE  HeapInv'
<1>1. ASSUME NEW k \in Keys, NEW v \in Values, NEW ttl \in TTLs, OptimizedSet(k, v, ttl)
      PROVE  HeapInv'
  <2>1. PutPooled(k, v, ttl) /\ batch' \in Nat /\ now' = now
    BY <1>1 DEF OptimizedSet, HeapInv
  <2>. QED BY <2>1, PutPooledKeeps
<1>2. CASE BatchBegin
  BY <1>2, StoreAssumption DEF BatchBegin, HeapInv
<1>3. CASE BatchStep
  <2>1. batch' \in Nat /\ now' = now
    BY <1>3 DEF BatchStep, HeapInv
  <2>2. PICK k \in Keys : \/ \E v \in Values, ttl \in TTLs : PutPooled(k, v, ttl)
                          \/ BatchGet(k)
                          \/ BatchDel(k)
    BY <1>3 DEF BatchStep
  <2>3. CASE \E v \in Values, ttl \in TTLs : PutPooled(k, v, ttl)
    BY <2>1, <2>3, PutPooledKeeps
  <2>4. CASE BatchGet(k)
    BY <2>1, <2>4, BatchGetKeeps
  <2>5. CASE BatchDel(k)
    BY <2>1, <2>5, BatchDelKeeps
  <2>. QED BY <2>2, <2>3, <2>4, <2>5
<1>. QED BY <1>1, <1>2, <1>3 DEF PooledNext

LEMMA StutterKeeps == HeapInv /\ UNCHANGED vars => HeapInv'
BY DEF vars, HeapInv

THEOREM HeapInvariant == ASSUME NoOverflow PROVE Spec => []HeapInv
<1>1. HeapInv /\ [Next]_vars => HeapInv'
  BY PlainNextKeeps, PooledNextKeeps, StutterKeeps DEF Next
<1>. QED BY <1>1, InitHeapInv, PTL DEF Spec

\* Without the pooled operations no sum needs to fit.
THEOREM PlainHeapInvariant == PlainSpec => []HeapInv
<1>1. HeapInv /\ [PlainNext]_vars => HeapInv'
  BY PlainNextKeeps, StutterKeeps
<1>. QED BY <1>1, InitHeapInv, PTL DEF PlainSpec

\* Delete finds the place of its own item in the array, whatever came before.
THEOREM IndexAlwaysReachesItem ==
    ASSUME NoOverflow PROVE Spec => []IndexReachesItem
<1>1. HeapInv => IndexReachesItem
  <2>. SUFFICES ASSUME HeapInv, NEW k \in Keys, Stored(k), Exp(k) # 0
                PROVE  /\ expHeap.mem[items[k]].index \in 0 .. Len0(expHeap) - 1
                       /\ At(expHeap, expHeap.mem[items[k]].index) = items[k]
    BY DEF IndexReachesItem
  <2>1. items[k] \in ToSet(expHeap.arr) /\ GoodHeap(Ids, Cell, expHeap)
    BY DEF HeapInv, GoodState, Stored, Exp
  <2>2. PICK p \in 0 .. Len0(expHeap) - 1 : At(expHeap, p) = items[k]
    BY <2>1, MembersFacts DEF GoodHeap
  <2>. QED BY <2>1, <2>2 DEF GoodHeap, Indexed
<1>. QED BY <1>1, HeapInvariant, PTL

\* No pooled item is one that the map or the heap leads to.
THEOREM PooledAlwaysUnreachable ==
    ASSUME NoOverflow PROVE Spec => []PooledIsUnreachable
<1>1. HeapInv => PooledIsUnreachable
  BY DEF HeapInv, GoodState, PooledIsUnreachable, Members, Reached, Unreached
<1>. QED BY <1>1, HeapInvariant, PTL

----------------------------------------------------------------------------
(* The heap by itself: HeapMachine, for any deadlines. *)

MachineCell == [exp : Int, index : Int]

MachineInv == GoodHeap(HeapIds, MachineCell, h)

LEMMA MachineCells == Cells(MachineCell)
<1>1. ASSUME NEW q \in MachineCell, NEW m \in Int
      PROVE  /\ Reindex(q, m) = [exp |-> q.exp, index |-> m]
             /\ Reindex(q, m) \in MachineCell
  BY DEF MachineCell, Reindex
<1>. SUFFICES ASSUME NEW r \in MachineCell, NEW i \in Int, NEW j \in Int
              PROVE  /\ r.exp \in Int
                     /\ Reindex(r, i) \in MachineCell
                     /\ Reindex(r, i).index = i /\ Reindex(r, i).exp = r.exp
                     /\ Reindex(Reindex(r, i), j) = Reindex(r, j)
  BY DEF Cells
<1>2. Reindex(r, i).index = i /\ Reindex(r, i).exp = r.exp /\ r.exp \in Int
  BY <1>1 DEF MachineCell
<1>3. Reindex(Reindex(r, i), j) = [exp |-> Reindex(r, i).exp, index |-> j]
  BY <1>1
<1>4. Reindex(r, j) = [exp |-> r.exp, index |-> j]
  BY <1>1
<1>. QED BY <1>1, <1>2, <1>3, <1>4

LEMMA MachineExp ==
    ASSUME NEW f \in Heaps(HeapIds, MachineCell), NEW g, Kept(HeapIds, f, g), NEW id \in HeapIds
    PROVE  g.mem[id].exp = f.mem[id].exp
<1>1. f.mem[id] \in MachineCell
  BY DEF Heaps
<1>2. g.mem[id] = f.mem[id] \/ \E i \in Int : g.mem[id] = Reindex(f.mem[id], i)
  BY DEF Kept
<1>. QED BY <1>1, <1>2, MachineCells DEF Cells

LEMMA MachineInit == HInit => MachineInv
<1>. SUFFICES ASSUME HInit PROVE MachineInv
  OBVIOUS
<1>. DEFINE first == CHOOSE d \in Deadlines : TRUE
            m == [id \in HeapIds |-> [exp |-> first, index |-> 0]]
<1>1. first \in Int
  <2>1. first \in Deadlines
    BY DeadlinesAssumption
  <2>. QED BY <2>1, DeadlinesAssumption
<1>2. h = [arr |-> <<>>, mem |-> m]
  BY DEF HInit
<1>. HIDE DEF first
<1>3. m \in [HeapIds -> MachineCell]
  BY <1>1 DEF MachineCell
<1>. HIDE DEF m
<1>4. h.arr = <<>> /\ h.mem = m /\ Len0(h) = 0 /\ h.arr \in Seq(HeapIds)
  BY <1>2 DEF Len0
<1>5. 0 .. Len0(h) - 1 = {} /\ 1 .. Len0(h) - 1 = {}
  BY <1>4
<1>6. h \in Heaps(HeapIds, MachineCell)
  BY <1>2, <1>3 DEF Heaps
<1>. QED BY <1>5, <1>6 DEF MachineInv, GoodHeap, Indexed, OrderedTo

\* Writing a new item at an address outside the heap leaves the heap as it is.
LEMMA FreshItem ==
    ASSUME NEW f, GoodHeap(HeapIds, MachineCell, f), NEW id \in HeapIds, id \notin ToSet(f.arr),
           NEW d \in Int,
           NEW e, e = [f EXCEPT !.mem[id] = [exp |-> d, index |-> 0]]
    PROVE  GoodHeap(HeapIds, MachineCell, e) /\ e.arr = f.arr
<1>. DEFINE r == [exp |-> d, index |-> 0]
<1>1. f \in Heaps(HeapIds, MachineCell) /\ Indexed(f) /\ OrderedTo(f, Len0(f)) /\ Len0(f) \in Nat
  BY PlaceFacts DEF GoodHeap
<1>2. r \in MachineCell
  BY DEF MachineCell
<1>. HIDE DEF r
<1>3. /\ e.arr = f.arr /\ e \in Heaps(HeapIds, MachineCell) /\ Len0(e) = Len0(f)
      /\ \A x \in HeapIds \ {id} : e.mem[x] = f.mem[x]
      /\ \A q \in 0 .. Len0(f) - 1 : At(e, q) = At(f, q)
  BY <1>1, <1>2 DEF Heaps, Len0, At, r
<1>4. \A q \in 0 .. Len0(f) - 1 : /\ e.mem[At(e, q)] = f.mem[At(f, q)]
                                  /\ Due(e, q) = Due(f, q)
  <2>1. \A q \in 0 .. Len0(f) - 1 : At(f, q) \in HeapIds \ {id}
    BY <1>1, MembersFacts
  <2>2. \A q \in 0 .. Len0(f) - 1 : e.mem[At(e, q)] = f.mem[At(f, q)]
    BY <1>3, <2>1
  <2>. QED BY <2>2 DEF Due
<1>5. Indexed(e)
  BY <1>1, <1>3, <1>4 DEF Indexed
<1>6. \A q \in 1 .. Len0(f) - 1 : Due(e, Parent(q)) <= Due(e, q)
  <2>. TAKE q \in 1 .. Len0(f) - 1
  <2>1. q \in Nat \ {0} /\ q \in 0 .. Len0(f) - 1
    BY <1>1
  <2>2. Parent(q) \in 0 .. Len0(f) - 1
    BY <1>1, <2>1, ParentFacts
  <2>. QED BY <1>1, <1>4, <2>1, <2>2 DEF OrderedTo
<1>. QED BY <1>3, <1>5, <1>6 DEF GoodHeap, OrderedTo

\* What a Push, a Pop and a Remove of the machine do.
LEMMA MachinePush ==
    ASSUME MachineInv, Push
    PROVE  \E id \in HeapIds \ ToSet(h.arr) :
              /\ GoodHeap(HeapIds, MachineCell, h')
              /\ ToSet(h.arr)' = ToSet(h.arr) \cup {id}
<1>. DEFINE id == FreshId
<1>1. PICK d \in Deadlines :
         h' = HeapPush([h EXCEPT !.mem[id] = [exp |-> d, index |-> 0]], id)
  BY DEF Push
<1>2. id \in HeapIds /\ id \notin ToSet(h.arr) /\ d \in Int
  <2>1. ToSet(h.arr) \subseteq HeapIds /\ ToSet(h.arr) # HeapIds
    BY MembersFacts DEF MachineInv, GoodHeap, Push, HeapMembers
  <2>2. \E x \in HeapIds : x \notin HeapMembers
    BY <2>1 DEF HeapMembers
  <2>3. id \in HeapIds /\ id \notin HeapMembers
    BY <2>2 DEF FreshId
  <2>. QED BY <2>3, DeadlinesAssumption DEF HeapMembers
<1>. HIDE DEF id
<1>. DEFINE e == [h EXCEPT !.mem[id] = [exp |-> d, index |-> 0]]
<1>3. GoodHeap(HeapIds, MachineCell, e) /\ e.arr = h.arr
  BY <1>2, FreshItem DEF MachineInv
<1>4. h' = HeapPush(e, id)
  BY <1>1
<1>. HIDE DEF e
<1>5. Added(HeapIds, MachineCell, e, h', id)
  BY <1>2, <1>3, <1>4, MachineCells, PushAdds
<1>6. ToSet(h'.arr) = ToSet(h.arr) \cup {id}
  BY <1>3, <1>5 DEF Added
<1>7. GoodHeap(HeapIds, MachineCell, h')
  BY <1>5 DEF Added
<1>. QED BY <1>2, <1>6, <1>7

LEMMA MachinePop ==
    ASSUME MachineInv, Pop
    PROVE  \E id \in ToSet(h.arr) :
              /\ Removed(HeapIds, MachineCell, h, h', id)
              /\ \A j \in ToSet(h.arr) : h.mem[id].exp <= h.mem[j].exp
<1>1. Len0(h) > 0 /\ h' = HeapPop(h)
  BY DEF Pop
<1>2. GoodHeap(HeapIds, MachineCell, h) /\ h \in Heaps(HeapIds, MachineCell)
  BY DEF MachineInv, GoodHeap
<1>3. Removed(HeapIds, MachineCell, h, h', At(h, 0))
  BY <1>1, <1>2, MachineCells, PopRemovesFirst
<1>4. At(h, 0) \in ToSet(h.arr)
  <2>1. 0 \in 0 .. Len0(h) - 1
    BY <1>1, <1>2, PlaceFacts
  <2>. QED BY <1>2, <2>1, MembersFacts
<1>5. ASSUME NEW j \in ToSet(h.arr)
      PROVE  h.mem[At(h, 0)].exp <= h.mem[j].exp
  <2>1. PICK p \in 0 .. Len0(h) - 1 : At(h, p) = j
    BY <1>2, MembersFacts
  <2>2. Due(h, 0) <= Due(h, p)
    BY <1>2, MachineCells, FirstIsEarliest
  <2>. QED BY <2>1, <2>2 DEF Due
<1>. QED BY <1>3, <1>4, <1>5

LEMMA MachineRemove ==
    ASSUME MachineInv, RemoveMember
    PROVE  \E id \in ToSet(h.arr) : Removed(HeapIds, MachineCell, h, h', id)
<1>1. PICK id \in ToSet(h.arr) : h' = RemoveItem(h, id)
  BY DEF RemoveMember, HeapMembers
<1>2. GoodHeap(HeapIds, MachineCell, h) /\ h \in Heaps(HeapIds, MachineCell)
  BY DEF MachineInv, GoodHeap
<1>3. PICK p \in 0 .. Len0(h) - 1 : At(h, p) = id
  BY <1>2, MembersFacts
<1>4. h.mem[id].index = p
  BY <1>2, <1>3 DEF GoodHeap, Indexed
<1>5. h' = HeapRemove(h, p)
  BY <1>1, <1>3, <1>4 DEF RemoveItem
<1>6. Removed(HeapIds, MachineCell, h, h', id)
  BY <1>2, <1>3, <1>5, MachineCells, RemoveTakesOut
<1>. QED BY <1>6

LEMMA MachineStep ==
    ASSUME MachineInv, HNext
    PROVE  MachineInv'
<1>1. CASE Push
  BY <1>1, MachinePush DEF MachineInv
<1>2. CASE Pop
  BY <1>2, MachinePop DEF MachineInv, Removed
<1>3. CASE RemoveMember
  BY <1>3, MachineRemove DEF MachineInv, Removed
<1>. QED BY <1>1, <1>2, <1>3 DEF HNext

THEOREM MachineInvariant == HSpec => []MachineInv
<1>1. MachineInv /\ UNCHANGED h => MachineInv'
  BY DEF MachineInv
<1>2. MachineInv /\ [HNext]_h => MachineInv'
  BY <1>1, MachineStep
<1>. QED BY <1>2, MachineInit, PTL DEF HSpec

\* The array is always in heap order, so its first element is the earliest deadline.
THEOREM AlwaysHeapOrdered == HSpec => []HeapOrdered
<1>1. MachineInv => HeapOrdered
  <2>. SUFFICES ASSUME MachineInv, NEW p \in 1 .. Len0(h) - 1
                PROVE  ~(h.mem[At(h, p)].exp
                           < h.mem[At(h, (p - 1) \div 2)].exp)
    BY DEF HeapOrdered, Less
  <2>1. /\ h \in Heaps(HeapIds, MachineCell) /\ Len0(h) \in Nat
        /\ \A q \in 0 .. Len0(h) - 1 : Due(h, q) \in Int
    BY PlaceFacts, MachineCells DEF MachineInv, GoodHeap
  <2>2. p \in Nat \ {0} /\ p \in 0 .. Len0(h) - 1
    BY <2>1
  <2>3. Parent(p) \in 0 .. Len0(h) - 1
    BY <2>1, <2>2, ParentFacts
  <2>4. Due(h, Parent(p)) <= Due(h, p)
    BY DEF MachineInv, GoodHeap, OrderedTo
  <2>5. ~(Due(h, p) < Due(h, Parent(p)))
    BY <2>1, <2>2, <2>3, <2>4
  <2>. QED BY <2>5 DEF Due, Parent
<1>. QED BY <1>1, MachineInvariant, PTL

\* Every item in the array remembers the position it is at.
THEOREM IndexAlwaysCorrect == HSpec => []IndexCorrect
<1>1. MachineInv => IndexCorrect
  BY DEF MachineInv, GoodHeap, Indexed, IndexCorrect
<1>. QED BY <1>1, MachineInvariant, PTL

LEMMA MachineInjective ==
    ASSUME NEW g, GoodHeap(HeapIds, MachineCell, g)
    PROVE  IsInjective(g.arr)
<1>1. /\ g \in Heaps(HeapIds, MachineCell) /\ Indexed(g)
      /\ g.arr \in Seq(HeapIds) /\ Len0(g) = Len(g.arr)
  BY DEF GoodHeap, Heaps, Len0
<1>2. ASSUME NEW a \in DOMAIN g.arr, NEW b \in DOMAIN g.arr, g.arr[a] = g.arr[b]
      PROVE  a = b
  <2>1. /\ a - 1 \in 0 .. Len0(g) - 1 /\ b - 1 \in 0 .. Len0(g) - 1
        /\ (a - 1) + 1 = a /\ (b - 1) + 1 = b
    BY <1>1
  <2>2. At(g, a - 1) = At(g, b - 1)
    BY <1>2, <2>1 DEF At
  <2>3. a - 1 = b - 1
    BY <1>1, <2>1, <2>2, PlaceFacts
  <2>. QED BY <2>1, <2>3
<1>. QED BY <1>2 DEF IsInjective

\* A step adds one item, or takes out one item that is told so, an earliest one when
\* it is a Pop; no item is lost or duplicated.
THEOREM AlwaysOneMemberPerStep == HSpec => OneMemberPerStep
<1>1. ASSUME MachineInv, HNext
      PROVE  MembersStep
  <2>. DEFINE same == IsInjective(h.arr) /\ IsInjective(h'.arr)
  <2>1. same
    BY <1>1, MachineStep, MachineInjective DEF MachineInv
  <2>2. CASE Push
    BY <2>1, <2>2, <1>1, MachinePush DEF MembersStep, HeapMembers
  <2>3. CASE Pop
    BY <2>1, <2>3, <1>1, MachinePop
       DEF MembersStep, HeapMembers, Removed
  <2>4. CASE RemoveMember /\ ~Pop
    BY <2>1, <2>4, <1>1, MachineRemove
       DEF MembersStep, HeapMembers, Removed
  <2>. QED BY <1>1, <2>2, <2>3, <2>4 DEF HNext
<1>2. MachineInv /\ [HNext]_h => [MembersStep]_h
  BY <1>1
<1>. QED BY <1>2, MachineInvariant, PTL DEF HSpec, OneMemberPerStep

----------------------------------------------------------------------------
(* The store with its array implements Cache, whose heap is a set. *)

\* The abstract values of a map and a heap.
View(g, id) == [id |-> id, key |-> g.mem[id].key, value |-> g.mem[id].value,
                exp |-> g.mem[id].exp]
ViewItems(map, g) == [k \in Keys |-> IF map[k] # NoItem THEN View(g, map[k]) ELSE NoItem]
ViewHeap(g) == {View(g, id) : id \in ToSet(g.arr)}
Left(map, g, k) == {id \in ToSet(g.arr) : g.mem[id].key = k /\ map[k] # id}
ViewStale(map, g) == [k \in Keys |-> {g.mem[id].exp : id \in Left(map, g, k)}]

\* What is stored looks like an item of the abstract store, and queued items are
\* known by their addresses.
LEMMA ViewFacts ==
    ASSUME NEW map, NEW g, NEW p, GoodState(map, g, p)
    PROVE  /\ ToSet(g.arr) \subseteq Ids
           /\ \A id \in Ids : g.mem[id].exp \in -Half .. Half - 1
           /\ \A k \in Keys : map[k] # NoItem =>
                 /\ map[k] \in Ids
                 /\ View(g, map[k]) # NoItem
                 /\ View(g, map[k]) \in ViewHeap(g) <=> g.mem[map[k]].exp # 0
<1>1. g \in Heaps(Ids, Cell) /\ ToSet(g.arr) \subseteq Ids
  BY MembersFacts DEF GoodState, GoodHeap
<1>2. \A id \in Ids : g.mem[id].exp \in -Half .. Half - 1
  BY <1>1 DEF Heaps, Cell
<1>3. ASSUME NEW k \in Keys, map[k] # NoItem
      PROVE  /\ map[k] \in Ids
             /\ View(g, map[k]) # NoItem
             /\ View(g, map[k]) \in ViewHeap(g) <=> g.mem[map[k]].exp # 0
  <2>1. map[k] \in Ids
    BY <1>3 DEF GoodState
  <2>2. View(g, map[k]) \in [id : Ids, key : Keys, value : Values, exp : -Half .. Half - 1]
    <3>1. g.mem[map[k]].exp \in -Half .. Half - 1
      BY <1>2, <2>1, StoreAssumption
    <3>2. g.mem[map[k]].key \in Keys /\ g.mem[map[k]].value \in Values
      BY <1>3 DEF GoodState
    <3>. QED BY <2>1, <3>1, <3>2 DEF View
  <2>3. View(g, map[k]) \in ViewHeap(g) => map[k] \in ToSet(g.arr)
    <3>1. \A x : View(g, map[k]) = View(g, x) => map[k] = x
      BY DEF View
    <3>. QED BY <3>1 DEF ViewHeap
  <2>4. View(g, map[k]) \in ViewHeap(g) <=> g.mem[map[k]].exp # 0
    BY <1>3, <2>1, <2>3 DEF GoodState, ViewHeap
  <2>. QED BY <2>1, <2>2, <2>4, StoreAssumption
<1>. QED BY <1>1, <1>2, <1>3

\* Two heaps with the same queue and the same fields look the same.
LEMMA SameView ==
    ASSUME NEW map, NEW f, NEW g, ToSet(g.arr) = ToSet(f.arr),
           \A id \in ToSet(f.arr) : View(g, id) = View(f, id),
           \A k \in Keys : map[k] # NoItem => View(g, map[k]) = View(f, map[k])
    PROVE  /\ ViewItems(map, g) = ViewItems(map, f)
           /\ ViewHeap(g) = ViewHeap(f)
           /\ ViewStale(map, g) = ViewStale(map, f)
<1>1. ViewItems(map, g) = ViewItems(map, f)
  BY DEF ViewItems
<1>2. ViewHeap(g) = ViewHeap(f)
  BY DEF ViewHeap
<1>3. \A id \in ToSet(f.arr) : g.mem[id].key = f.mem[id].key /\ g.mem[id].exp = f.mem[id].exp
  BY DEF View
<1>4. \A k \in Keys : Left(map, g, k) = Left(map, f, k) /\ Left(map, f, k) \subseteq ToSet(f.arr)
  BY <1>3 DEF Left
<1>5. \A k \in Keys : {g.mem[id].exp : id \in Left(map, g, k)}
                        = {f.mem[id].exp : id \in Left(map, f, k)}
  BY <1>3, <1>4
<1>6. ViewStale(map, g) = ViewStale(map, f)
  BY <1>5 DEF ViewStale
<1>. QED BY <1>1, <1>2, <1>6

LEMMA BecomeView ==
    ASSUME NEW map, NEW g, NEW p, GoodState(map, g, p), Become(map, g, p)
    PROVE  /\ ViewItems(items', expHeap') = ViewItems(map, g)
           /\ ViewHeap(expHeap') = ViewHeap(g)
           /\ ViewStale(items', expHeap') = ViewStale(map, g)
<1>. DEFINE live == {map[k] : k \in Keys} \cup ToSet(g.arr)
            e == [g EXCEPT !.mem = [id \in Ids |-> IF id \in live THEN @[id] ELSE Blank]]
<1>1. items' = map /\ expHeap' = e
  BY DEF Become
<1>2. g \in Heaps(Ids, Cell) /\ ToSet(g.arr) \subseteq Ids
  BY MembersFacts DEF GoodState, GoodHeap
<1>3. e.arr = g.arr /\ \A id \in Ids : id \in live => e.mem[id] = g.mem[id]
  BY <1>2 DEF Heaps
<1>. HIDE DEF e
<1>4. \A id \in ToSet(g.arr) : View(e, id) = View(g, id)
  BY <1>2, <1>3 DEF View
<1>5. \A k \in Keys : map[k] # NoItem => View(e, map[k]) = View(g, map[k])
  BY <1>3 DEF View, GoodState
<1>6. ToSet(e.arr) = ToSet(g.arr)
  BY <1>3
<1>. QED BY <1>1, <1>4, <1>5, <1>6, SameView

\* The refinement mapping, before and after a step.
LEMMA Mapping ==
    /\ [k \in Keys |-> ItemOf(k)] = ViewItems(items, expHeap)
    /\ {ItemAt(id) : id \in Members} = ViewHeap(expHeap)
    /\ Leftover = ViewStale(items, expHeap)
BY DEF ItemOf, ItemAt, Members, Leftover, Stored, ViewItems, ViewHeap, ViewStale, View, Left

LEMMA MappingNext ==
    /\ [k \in Keys |-> ItemOf(k)]' = ViewItems(items', expHeap')
    /\ {ItemAt(id) : id \in Members}' = ViewHeap(expHeap')
    /\ Leftover' = ViewStale(items', expHeap')
BY DEF ItemOf, ItemAt, Members, Leftover, Stored, ViewItems, ViewHeap, ViewStale, View, Left

NewItem(id, k, v, ttl) == [id |-> id, key |-> k, value |-> v, exp |-> Abstract!Expiration(ttl)]

FilledView(map, f, g, id, k, v, ttl) ==
    LET stored == [map EXCEPT ![k] = id]
        i == NewItem(id, k, v, ttl)
    IN /\ ViewItems(stored, g) = [ViewItems(map, f) EXCEPT ![k] = i]
       /\ ViewHeap(g) = IF ttl > 0 THEN ViewHeap(f) \cup {i} ELSE ViewHeap(f)
       /\ \A l \in Keys : Left(stored, g, l) =
             Left(map, f, l) \cup (IF l = k /\ map[k] # NoItem /\ f.mem[map[k]].exp # 0
                                   THEN {map[k]} ELSE {})
       /\ \A x \in Ids \ {id} : View(g, x) = View(f, x)

LEMMA FillView ==
    ASSUME NEW map, NEW f, NEW p, GoodState(map, f, p),
           NEW id \in Ids, Unreached(map, id), id \notin ToSet(f.arr),
           NEW k \in Keys, NEW v, NEW ttl, NEW g, Filled(f, g, id, k, v, ttl)
    PROVE  FilledView(map, f, g, id, k, v, ttl)
<1>. DEFINE stored == [map EXCEPT ![k] = id]
            i == NewItem(id, k, v, ttl)
<1>1. /\ View(g, id) = i
      /\ \A x \in Ids \ {id} : View(g, x) = View(f, x)
      /\ ToSet(g.arr) = ToSet(f.arr) \cup (IF ttl > 0 THEN {id} ELSE {})
      /\ \A x \in Ids \ {id} : g.mem[x].key = f.mem[x].key
      /\ g.mem[id].key = k
  BY DEF Filled, View, NewItem
<1>2. /\ ToSet(f.arr) \subseteq Ids \ {id}
      /\ \A l \in Keys : map[l] # NoItem => map[l] \in Ids \ {id}
      /\ \A l \in Keys : stored[l] = IF l = k THEN id ELSE map[l]
      /\ id # NoItem
  <2>1. ToSet(f.arr) \subseteq Ids
    BY ViewFacts
  <2>2. map \in [Keys -> Ids \cup {NoItem}]
    BY DEF GoodState
  <2>. QED BY <2>1, <2>2, StoreAssumption DEF Unreached
<1>. HIDE DEF stored, i
<1>3. ViewItems(stored, g) = [ViewItems(map, f) EXCEPT ![k] = i]
  <2>1. \A l \in Keys : (IF stored[l] # NoItem THEN View(g, stored[l]) ELSE NoItem)
                          = IF l = k THEN i ELSE IF map[l] # NoItem THEN View(f, map[l]) ELSE NoItem
    BY <1>1, <1>2
  <2>. QED BY <2>1 DEF ViewItems
<1>4. ViewHeap(g) = IF ttl > 0 THEN ViewHeap(f) \cup {i} ELSE ViewHeap(f)
  <2>1. CASE ttl > 0
    BY <1>1, <1>2, <2>1 DEF ViewHeap
  <2>2. CASE ~(ttl > 0)
    BY <1>1, <1>2, <2>2 DEF ViewHeap
  <2>. QED BY <2>1, <2>2
<1>5. ASSUME NEW l \in Keys
      PROVE  Left(stored, g, l) =
                 Left(map, f, l) \cup (IF l = k /\ map[k] # NoItem /\ f.mem[map[k]].exp # 0
                                       THEN {map[k]} ELSE {})
  <2>1. ToSet(g.arr) \subseteq ToSet(f.arr) \cup {id} /\ ToSet(f.arr) \subseteq ToSet(g.arr)
    BY <1>1
  <2>2. CASE l = k
    <3>1. Left(stored, g, k) = {x \in ToSet(f.arr) : f.mem[x].key = k}
      BY <1>1, <1>2, <2>1 DEF Left
    <3>2. map[k] # NoItem => (map[k] \in ToSet(f.arr) <=> f.mem[map[k]].exp # 0)
      BY DEF GoodState
    <3>3. map[k] # NoItem => f.mem[map[k]].key = k
      BY DEF GoodState
    <3>4. map[k] = NoItem => map[k] \notin ToSet(f.arr)
      BY <1>2, StoreAssumption
    <3>. QED BY <2>2, <3>1, <3>2, <3>3, <3>4 DEF Left
  <2>3. CASE l # k
    BY <1>1, <1>2, <2>1, <2>3 DEF Left
  <2>. QED BY <2>2, <2>3
<1>. QED BY <1>1, <1>3, <1>4, <1>5 DEF FilledView, stored, i

LEMMA TakeOutView ==
    ASSUME NEW map, NEW f, NEW p, GoodState(map, f, p), NEW id \in Ids,
           NEW g, Removed(Ids, Cell, f, g, id)
    PROVE  /\ \A x \in Ids : View(g, x) = View(f, x)
           /\ ViewItems(map, g) = ViewItems(map, f)
           /\ ViewHeap(g) = ViewHeap(f) \ {View(f, id)}
           /\ \A l \in Keys : Left(map, g, l) = Left(map, f, l) \ {id}
<1>1. /\ f \in Heaps(Ids, Cell) /\ Kept(Ids, f, g)
      /\ ToSet(g.arr) = ToSet(f.arr) \ {id} /\ ToSet(f.arr) \subseteq Ids
  BY ViewFacts DEF GoodState, GoodHeap, Removed
<1>2. \A x \in Ids : /\ View(g, x) = View(f, x)
                     /\ g.mem[x].key = f.mem[x].key
  BY <1>1, KeptFields DEF View
<1>3. ViewItems(map, g) = ViewItems(map, f)
  BY <1>2, ViewFacts DEF ViewItems
<1>4. ViewHeap(g) = ViewHeap(f) \ {View(f, id)}
  <2>1. \A x, y : View(f, x) = View(f, y) => x = y
    BY DEF View
  <2>. QED BY <1>1, <1>2, <2>1 DEF ViewHeap
<1>5. \A l \in Keys : Left(map, g, l) = Left(map, f, l) \ {id}
  BY <1>1, <1>2 DEF Left
<1>. QED BY <1>2, <1>3, <1>4, <1>5

\* Deadlines left behind are equal when the items left behind and their fields are.
LEMMA SameLeft ==
    ASSUME NEW map, NEW f, NEW stored, NEW g,
           \A l \in Keys : Left(stored, g, l) = Left(map, f, l),
           \A l \in Keys : \A x \in Left(map, f, l) : View(g, x) = View(f, x)
    PROVE  ViewStale(stored, g) = ViewStale(map, f)
<1>1. \A l \in Keys : \A x \in Left(map, f, l) : g.mem[x].exp = f.mem[x].exp
  BY DEF View
<1>2. \A l \in Keys : {g.mem[x].exp : x \in Left(stored, g, l)}
                        = {f.mem[x].exp : x \in Left(map, f, l)}
  BY <1>1
<1>. QED BY <1>2 DEF ViewStale

\* Who is stored, and which addresses are in use, is the same for both.
LEMMA AbstractStored ==
    ASSUME HeapInv
    PROVE  /\ \A k \in Keys : (ViewItems(items, expHeap)[k] # NoItem) = Stored(k)
           /\ \A k \in Keys : Abstract!Stored(k) = Stored(k)
           /\ \A k \in Keys : Stored(k) => /\ [l \in Keys |-> ItemOf(l)][k] = View(expHeap, items[k])
                                           /\ items[k] \in Ids
           /\ Abstract!InUse = Members \cup Reached
<1>1. GoodState(items, expHeap, pool)
  BY DEF HeapInv
<1>2. \A k \in Keys : ItemOf(k) = IF Stored(k) THEN View(expHeap, items[k]) ELSE NoItem
  BY DEF ItemOf, ItemAt, View
<1>3. \A k \in Keys : Stored(k) => View(expHeap, items[k]) # NoItem /\ items[k] \in Ids
  BY <1>1, ViewFacts DEF Stored
<1>4. \A k \in Keys : (ViewItems(items, expHeap)[k] # NoItem) = Stored(k)
  BY <1>3 DEF ViewItems, Stored
<1>5. \A k \in Keys : Abstract!Stored(k) = Stored(k)
  <2>1. \A k \in Keys : [l \in Keys |-> ItemOf(l)][k] = ItemOf(k)
    OBVIOUS
  <2>2. \A k \in Keys : (ItemOf(k) # NoItem) = (items[k] # NoItem)
    BY <1>2, <1>3 DEF Stored
  <2>. QED BY <2>1, <2>2 DEF Abstract!Stored, Stored
<1>6. \A id : View(expHeap, id).id = id /\ ItemAt(id).id = id
  BY DEF View, ItemAt
<1>7. Abstract!InUse = Members \cup Reached
  <2>1. {i.id : i \in {ItemAt(id) : id \in Members}} = Members
    BY <1>6
  <2>2. {[k \in Keys |-> ItemOf(k)][m].id : m \in {l \in Keys : Abstract!Stored(l)}} = Reached
    <3>1. \A k \in Keys : Stored(k) => [l \in Keys |-> ItemOf(l)][k].id = items[k]
      BY <1>2, <1>6
    <3>. QED BY <1>5, <3>1 DEF Reached
  <2>. QED BY <2>1, <2>2 DEF Abstract!InUse
<1>. QED BY <1>2, <1>3, <1>4, <1>5, <1>7

\* Set and SetNX store a new item, as those of Cache.
LEMMA PutRefines ==
    ASSUME HeapInv, NEW k \in Keys, NEW v \in Values, NEW ttl \in TTLs,
           Put(k, v, ttl)
    PROVE  \E id \in Ids : Abstract!Put(k, v, ttl, id)
<1>1. PICK id \in Free :
         /\ Become([items EXCEPT ![k] = id], Fill(expHeap, id, k, v, ttl), pool)
         /\ UNCHANGED <<batch, now>>
  BY DEF Put
<1>2. id \in Ids /\ Unreached(items, id) /\ id \notin ToSet(expHeap.arr) /\ id \notin pool
  BY FreeFacts DEF Free
<1>3. GoodState(items, expHeap, pool) /\ now \in 0 .. MaxNow
  BY DEF HeapInv
<1>. DEFINE map == [items EXCEPT ![k] = id]
            g == Fill(expHeap, id, k, v, ttl)
            i == NewItem(id, k, v, ttl)
<1>. HIDE DEF map, g, i
<1>4. GoodState(map, g, pool \ {id}) /\ Filled(expHeap, g, id, k, v, ttl)
  BY <1>2, <1>3, FillKeeps DEF map, g
<1>5. pool \ {id} = pool
  BY <1>2
<1>6. /\ ViewItems(items', expHeap') = ViewItems(map, g)
      /\ ViewHeap(expHeap') = ViewHeap(g)
      /\ ViewStale(items', expHeap') = ViewStale(map, g)
  BY <1>1, <1>4, <1>5, BecomeView DEF map, g
<1>7. /\ ViewItems(map, g) = [ViewItems(items, expHeap) EXCEPT ![k] = i]
      /\ ViewHeap(g) = IF ttl > 0 THEN ViewHeap(expHeap) \cup {i} ELSE ViewHeap(expHeap)
      /\ \A l \in Keys : Left(map, g, l) =
            Left(items, expHeap, l)
              \cup (IF l = k /\ items[k] # NoItem /\ expHeap.mem[items[k]].exp # 0
                    THEN {items[k]} ELSE {})
      /\ \A x \in Ids \ {id} : View(g, x) = View(expHeap, x)
  <2>1. FilledView(items, expHeap, g, id, k, v, ttl)
    BY <1>2, <1>3, <1>4, FillView
  <2>. QED BY <2>1 DEF FilledView, map, i
<1>8. ViewStale(map, g) =
        IF Stored(k) /\ Exp(k) # 0
        THEN [ViewStale(items, expHeap) EXCEPT ![k] = @ \cup {Exp(k)}]
        ELSE ViewStale(items, expHeap)
  <2>1. \A l \in Keys : Left(items, expHeap, l) \subseteq Ids \ {id}
    BY <1>2, <1>3, ViewFacts DEF Left
  <2>2. \A x \in Ids \ {id} : g.mem[x].exp = expHeap.mem[x].exp
    BY <1>7 DEF View
  <2>3. CASE Stored(k) /\ Exp(k) # 0
    <3>1. items[k] \in Ids \ {id}
      BY <1>2, <1>3, <2>3 DEF Stored, GoodState, Unreached
    <3>2. \A l \in Keys : {g.mem[x].exp : x \in Left(map, g, l)} =
             IF l = k THEN {expHeap.mem[x].exp : x \in Left(items, expHeap, l)} \cup {Exp(k)}
                      ELSE {expHeap.mem[x].exp : x \in Left(items, expHeap, l)}
      <4>1. \A l \in Keys : Left(map, g, l) =
               Left(items, expHeap, l) \cup (IF l = k THEN {items[k]} ELSE {})
        BY <1>7, <2>3 DEF Stored, Exp
      <4>. QED BY <2>1, <2>2, <3>1, <4>1 DEF Exp
    <3>. QED BY <2>3, <3>2 DEF ViewStale
  <2>4. CASE ~(Stored(k) /\ Exp(k) # 0)
    <3>1. \A l \in Keys : Left(map, g, l) = Left(items, expHeap, l)
      BY <1>7, <2>4 DEF Stored, Exp
    <3>2. \A l \in Keys : \A x \in Left(items, expHeap, l) : View(g, x) = View(expHeap, x)
      BY <1>7, <2>1
    <3>. QED BY <2>4, <3>1, <3>2, SameLeft
  <2>. QED BY <2>3, <2>4
<1>9. id \notin Abstract!InUse
  BY <1>1, AbstractStored DEF Free
<1>10. /\ Abstract!Stored(k) = Stored(k)
       /\ Stored(k) => [l \in Keys |-> ItemOf(l)][k].exp = Exp(k)
  BY AbstractStored DEF View, Exp
<1>11. Abstract!Put(k, v, ttl, id)
  <2>1. [l \in Keys |-> ItemOf(l)]' = [[l \in Keys |-> ItemOf(l)] EXCEPT ![k] = i]
    BY <1>6, <1>7, Mapping, MappingNext
  <2>2. {ItemAt(x) : x \in Members}' =
           IF ttl > 0 THEN {ItemAt(x) : x \in Members} \cup {i} ELSE {ItemAt(x) : x \in Members}
    BY <1>6, <1>7, Mapping, MappingNext
  <2>3. Leftover' = IF Stored(k) /\ Exp(k) # 0
                    THEN [Leftover EXCEPT ![k] = @ \cup {Exp(k)}] ELSE Leftover
    BY <1>6, <1>8, Mapping, MappingNext
  <2>4. Leftover' = IF Abstract!Stored(k) /\ [l \in Keys |-> ItemOf(l)][k].exp # 0
                    THEN [Leftover EXCEPT ![k] = @ \cup {[l \in Keys |-> ItemOf(l)][k].exp}]
                    ELSE Leftover
    BY <1>10, <2>3
  <2>5. now' = now
    BY <1>1
  <2>. QED BY <1>9, <2>1, <2>2, <2>4, <2>5 DEF Abstract!Put, i, NewItem
<1>. QED BY <1>2, <1>11

\* A key and its deadline, if it has one, are gone, and nothing else; a deadline that
\* wrapped is left behind.
LEMMA UnstoreView ==
    ASSUME HeapInv, NEW k \in Keys, Stored(k), NEW p,
           Become([items EXCEPT ![k] = NoItem],
                  IF Exp(k) > 0 THEN RemoveItem(expHeap, items[k]) ELSE expHeap, p),
           GoodState([items EXCEPT ![k] = NoItem],
                     IF Exp(k) > 0 THEN RemoveItem(expHeap, items[k]) ELSE expHeap, p)
    PROVE  /\ [l \in Keys |-> ItemOf(l)]' = [[l \in Keys |-> ItemOf(l)] EXCEPT ![k] = NoItem]
           /\ {ItemAt(x) : x \in Members}' =
                 IF Exp(k) > 0
                 THEN {ItemAt(x) : x \in Members} \ {[l \in Keys |-> ItemOf(l)][k]}
                 ELSE {ItemAt(x) : x \in Members}
           /\ Leftover' = IF Exp(k) < 0 THEN [Leftover EXCEPT ![k] = @ \cup {Exp(k)}]
                                        ELSE Leftover
<1>. DEFINE id == items[k]
            rest == [items EXCEPT ![k] = NoItem]
            g == IF Exp(k) > 0 THEN RemoveItem(expHeap, items[k]) ELSE expHeap
<1>1. /\ GoodState(items, expHeap, pool) /\ id \in Ids /\ id # NoItem
      /\ expHeap.mem[id].exp \in Int /\ Exp(k) = expHeap.mem[id].exp
      /\ expHeap.mem[id].key = k
      /\ \A l \in Keys : rest[l] = IF l = k THEN NoItem ELSE items[l]
  <2>1. GoodState(items, expHeap, pool) /\ id \in Ids /\ id # NoItem
    BY DEF HeapInv, GoodState, Stored
  <2>2. expHeap.mem[id].exp \in Int
    BY <2>1, ViewFacts, StoreAssumption
  <2>. QED BY <2>1, <2>2 DEF Exp, GoodState
<1>2. /\ ViewItems(items', expHeap') = ViewItems(rest, g)
      /\ ViewHeap(expHeap') = ViewHeap(g)
      /\ ViewStale(items', expHeap') = ViewStale(rest, g)
  BY BecomeView
<1>. HIDE DEF rest
<1>3. \A l \in Keys : Left(rest, expHeap, l) =
         Left(items, expHeap, l) \cup (IF l = k /\ Exp(k) # 0 THEN {id} ELSE {})
  <2>1. id \in ToSet(expHeap.arr) <=> Exp(k) # 0
    BY <1>1 DEF GoodState
  <2>2. NoItem \notin ToSet(expHeap.arr)
    BY <1>1, ViewFacts, StoreAssumption
  <2>. QED BY <1>1, <2>1, <2>2, SMTT(40) DEF Left
<1>4. \A l \in Keys : id \notin Left(items, expHeap, l)
  BY <1>1 DEF Left
<1>5. ViewItems(rest, expHeap) = [ViewItems(items, expHeap) EXCEPT ![k] = NoItem]
  BY <1>1 DEF ViewItems
<1>6. /\ ViewItems(rest, g) = [ViewItems(items, expHeap) EXCEPT ![k] = NoItem]
      /\ ViewHeap(g) = IF Exp(k) > 0 THEN ViewHeap(expHeap) \ {View(expHeap, id)}
                                     ELSE ViewHeap(expHeap)
      /\ ViewStale(rest, g) =
           IF Exp(k) < 0 THEN [ViewStale(items, expHeap) EXCEPT ![k] = @ \cup {Exp(k)}]
                         ELSE ViewStale(items, expHeap)
  <2>1. CASE Exp(k) > 0
    <3>1. id \in ToSet(expHeap.arr) /\ GoodHeap(Ids, Cell, expHeap) /\ Exp(k) # 0
      BY <1>1, <2>1 DEF GoodState
    <3>2. g = RemoveItem(expHeap, id)
      BY <2>1
    <3>. HIDE DEF id, g
    <3>3. Removed(Ids, Cell, expHeap, g, id)
      BY <3>1, <3>2, RemoveItemRemoves
    <3>4. GoodState(rest, expHeap, pool)
      <4>1. rest = [l \in Keys |-> IF l \in {k} THEN NoItem ELSE items[l]]
        BY <1>1 DEF rest, GoodState
      <4>. QED BY <1>1, <4>1, UnmapKeeps
    <3>5. /\ \A x \in Ids : View(g, x) = View(expHeap, x)
          /\ ViewItems(rest, g) = ViewItems(rest, expHeap)
          /\ ViewHeap(g) = ViewHeap(expHeap) \ {View(expHeap, id)}
          /\ \A l \in Keys : Left(rest, g, l) = Left(rest, expHeap, l) \ {id}
      BY <1>1, <3>3, <3>4, TakeOutView
    <3>6. \A l \in Keys : Left(rest, g, l) = Left(items, expHeap, l)
      BY <1>3, <1>4, <3>5
    <3>7. \A l \in Keys : Left(items, expHeap, l) \subseteq Ids
      BY <1>1, ViewFacts DEF Left
    <3>8. ViewStale(rest, g) = ViewStale(items, expHeap)
      BY <3>5, <3>6, <3>7, SameLeft
    <3>9. ~(Exp(k) < 0)
      BY <1>1, <2>1
    <3>. QED BY <1>5, <2>1, <3>5, <3>8, <3>9, SMTT(40)
  <2>2. CASE ~(Exp(k) > 0)
    <3>1. g = expHeap /\ (Exp(k) # 0 <=> Exp(k) < 0)
      BY <1>1, <2>2
    <3>2. CASE Exp(k) < 0
      <4>1. \A l \in Keys : {expHeap.mem[x].exp : x \in Left(rest, expHeap, l)} =
               IF l = k THEN {expHeap.mem[x].exp : x \in Left(items, expHeap, l)} \cup {Exp(k)}
                        ELSE {expHeap.mem[x].exp : x \in Left(items, expHeap, l)}
        <5>1. \A l \in Keys : Left(rest, expHeap, l) =
                 Left(items, expHeap, l) \cup (IF l = k THEN {id} ELSE {})
          BY <1>3, <3>1, <3>2
        <5>. HIDE DEF id
        <5>. QED BY <1>1, <5>1
      <4>2. ViewStale(rest, expHeap) = [ViewStale(items, expHeap) EXCEPT ![k] = @ \cup {Exp(k)}]
        BY <4>1 DEF ViewStale
      <4>. QED BY <1>5, <2>2, <3>1, <3>2, <4>2
    <3>3. CASE ~(Exp(k) < 0)
      <4>1. \A l \in Keys : Left(rest, expHeap, l) = Left(items, expHeap, l)
        BY <1>3, <3>1, <3>3
      <4>2. ViewStale(rest, expHeap) = ViewStale(items, expHeap)
        BY <4>1, SameLeft
      <4>. QED BY <1>5, <2>2, <3>1, <3>3, <4>2
    <3>. QED BY <3>2, <3>3
  <2>. QED BY <2>1, <2>2
<1>7. [l \in Keys |-> ItemOf(l)][k] = View(expHeap, id)
  BY AbstractStored
<1>. QED BY <1>2, <1>6, <1>7, Mapping, MappingNext, SMTT(40)

\* Delete and the batch DEL take a key away as Delete of Cache does.
LEMMA UnstoreRefines ==
    ASSUME HeapInv, NEW k \in Keys, Stored(k), NEW p,
           Become([items EXCEPT ![k] = NoItem],
                  IF Exp(k) > 0 THEN RemoveItem(expHeap, items[k]) ELSE expHeap, p),
           GoodState([items EXCEPT ![k] = NoItem],
                     IF Exp(k) > 0 THEN RemoveItem(expHeap, items[k]) ELSE expHeap, p),
           now' = now
    PROVE  /\ Abstract!Delete(k)
           /\ Exp(k) > 0 /\ Exp(k) <= now => Abstract!Evict(k)
<1>. DEFINE a == [l \in Keys |-> ItemOf(l)][k]
            queue == {ItemAt(x) : x \in Members}
<1>1. /\ [l \in Keys |-> ItemOf(l)]' = [[l \in Keys |-> ItemOf(l)] EXCEPT ![k] = NoItem]
      /\ {ItemAt(x) : x \in Members}' = IF Exp(k) > 0 THEN queue \ {a} ELSE queue
      /\ Leftover' = IF Exp(k) < 0 THEN [Leftover EXCEPT ![k] = @ \cup {Exp(k)}]
                                   ELSE Leftover
  BY UnstoreView
<1>2. Abstract!Stored(k) /\ a.exp = Exp(k)
  BY AbstractStored DEF View, Exp
<1>3. Exp(k) \in Int
  <2>1. GoodState(items, expHeap, pool) /\ items[k] # NoItem
    BY DEF HeapInv, Stored
  <2>. QED BY <2>1, ViewFacts, StoreAssumption DEF Exp
<1>. HIDE DEF a, queue
<1>4. CASE Exp(k) > 0
  <2>1. ~(Exp(k) < 0) /\ Exp(k) # 0
    BY <1>3, <1>4
  <2>2. Abstract!Delete(k)
    BY <1>1, <1>2, <1>4, <2>1 DEF Abstract!Delete, a, queue
  <2>3. Exp(k) <= now => Abstract!Evict(k)
    BY <1>1, <1>2, <1>4, <2>1 DEF Abstract!Evict, Abstract!DueAt, a, queue
  <2>. QED BY <2>2, <2>3
<1>5. CASE ~(Exp(k) > 0)
  <2>1. Exp(k) < 0 <=> Exp(k) # 0
    BY <1>3, <1>5
  <2>2. Abstract!Delete(k)
    BY <1>1, <1>2, <1>5, <2>1 DEF Abstract!Delete, a, queue
  <2>. QED BY <1>5, <2>2
<1>. QED BY <1>4, <1>5

\* A batch SET and OptimizedSet replace an item, as Replace of Cache does.
LEMMA PutPooledRefines ==
    ASSUME NoOverflow, HeapInv, NEW k \in Keys, NEW v \in Values, NEW ttl \in TTLs,
           PutPooled(k, v, ttl), now' = now
    PROVE  \E id \in Ids : Abstract!Replace(k, v, ttl, id)
<1>1. PICK id \in Free \cup pool :
         Replacement(id, k, v, ttl, [items EXCEPT ![k] = id], Fill(expHeap, id, k, v, ttl))
  BY PutPooledReplaces
<1>. DEFINE map == [items EXCEPT ![k] = id]
            g == Fill(expHeap, id, k, v, ttl)
            t == Taken(g, k)
            i == NewItem(id, k, v, ttl)
            a == [l \in Keys |-> ItemOf(l)][k]
            queue == {ItemAt(x) : x \in Members}
            old == items[k]
<1>. HIDE DEF map, g
<1>2. /\ id \in Ids /\ Unreached(items, id) /\ id \notin ToSet(expHeap.arr)
      /\ Become(map, t, Given(id, k))
      /\ Filled(expHeap, g, id, k, v, ttl)
      /\ GoodState(map, g, pool \ {id})
      /\ GoodState(map, t, Given(id, k))
      /\ Stored(k) /\ Exp(k) > 0 => Removed(Ids, Cell, g, t, old)
  BY <1>1 DEF Replacement, map, g
<1>. HIDE DEF i, a, queue
<1>3. GoodState(items, expHeap, pool)
  BY DEF HeapInv
<1>4. /\ ViewItems(map, g) = [ViewItems(items, expHeap) EXCEPT ![k] = i]
      /\ ViewHeap(g) = IF ttl > 0 THEN ViewHeap(expHeap) \cup {i} ELSE ViewHeap(expHeap)
      /\ \A l \in Keys : Left(map, g, l) =
            Left(items, expHeap, l)
              \cup (IF l = k /\ items[k] # NoItem /\ expHeap.mem[items[k]].exp # 0
                    THEN {items[k]} ELSE {})
      /\ \A x \in Ids \ {id} : View(g, x) = View(expHeap, x)
  <2>1. FilledView(items, expHeap, g, id, k, v, ttl)
    BY <1>2, <1>3, FillView
  <2>. QED BY <2>1 DEF FilledView, map, i
<1>5. /\ ViewItems(items', expHeap') = ViewItems(map, t)
      /\ ViewHeap(expHeap') = ViewHeap(t)
      /\ ViewStale(items', expHeap') = ViewStale(map, t)
  <2>. HIDE DEF t
  <2>. QED BY <1>2, BecomeView
<1>6. Stored(k) => /\ old \in Ids \ {id} /\ old # NoItem
                   /\ expHeap.mem[old].exp \in Nat /\ Exp(k) = expHeap.mem[old].exp
                   /\ expHeap.mem[old].key = k
                   /\ a = View(expHeap, old) /\ a.exp = Exp(k)
  <2>. SUFFICES ASSUME Stored(k)
                PROVE  /\ old \in Ids \ {id} /\ old # NoItem
                       /\ expHeap.mem[old].exp \in Nat /\ Exp(k) = expHeap.mem[old].exp
                       /\ expHeap.mem[old].key = k
                       /\ a = View(expHeap, old) /\ a.exp = Exp(k)
    OBVIOUS
  <2>1. old \in Ids /\ old # NoItem /\ old # id /\ expHeap.mem[old].key = k
    BY <1>2, <1>3 DEF Stored, GoodState, Unreached
  <2>2. expHeap.mem[old].exp \in Nat
    <3>1. expHeap.mem[old].exp \in Int
      BY <1>3, <2>1, ViewFacts, StoreAssumption
    <3>2. expHeap.mem[old].exp >= 0
      BY <1>3, <2>1 DEF GoodState
    <3>. QED BY <3>1, <3>2
  <2>3. a = View(expHeap, old)
    BY AbstractStored DEF a
  <2>. QED BY <2>1, <2>2, <2>3 DEF View, Exp
<1>7. \A l \in Keys : old \notin Left(items, expHeap, l) \/ ~Stored(k)
  BY <1>6 DEF Left
<1>8. \A l \in Keys : Left(items, expHeap, l) \subseteq Ids \ {id}
  BY <1>2, <1>3, ViewFacts DEF Left
<1>9. /\ ViewItems(map, t) = ViewItems(map, g)
      /\ ViewHeap(t) = ViewHeap(g) \ (IF Stored(k) /\ Exp(k) # 0 THEN {a} ELSE {})
      /\ ViewStale(map, t) = ViewStale(items, expHeap)
  <2>1. CASE Stored(k) /\ Exp(k) > 0
    <3>0. Removed(Ids, Cell, g, t, old) /\ old \in Ids
      BY <1>2, <1>6, <2>1
    <3>. HIDE DEF t, old
    <3>1. /\ \A x \in Ids : View(t, x) = View(g, x)
          /\ ViewItems(map, t) = ViewItems(map, g)
          /\ ViewHeap(t) = ViewHeap(g) \ {View(g, old)}
          /\ \A l \in Keys : Left(map, t, l) = Left(map, g, l) \ {old}
      BY <1>2, <3>0, TakeOutView
    <3>2. View(g, old) = a /\ Exp(k) # 0
      BY <1>4, <1>6, <2>1
    <3>3. \A l \in Keys : Left(map, t, l) = Left(items, expHeap, l)
      BY <1>4, <1>7, <2>1, <3>1 DEF old
    <3>4. ViewStale(map, t) = ViewStale(items, expHeap)
      BY <1>4, <1>8, <3>1, <3>3, SameLeft
    <3>. QED BY <2>1, <3>1, <3>2, <3>4
  <2>2. CASE ~(Stored(k) /\ Exp(k) > 0)
    <3>1. t = g
      BY <2>2 DEF Taken
    <3>2. ~(Stored(k) /\ Exp(k) # 0)
      BY <1>6, <2>2
    <3>. HIDE DEF t, old
    <3>3. \A l \in Keys : Left(map, g, l) = Left(items, expHeap, l)
      BY <1>4, <3>2 DEF Stored, Exp
    <3>4. ViewStale(map, g) = ViewStale(items, expHeap)
      BY <1>4, <1>8, <3>3, SameLeft
    <3>. QED BY <3>1, <3>2, <3>4
  <2>. QED BY <2>1, <2>2
<1>. HIDE DEF t, old
<1>10. id \notin Abstract!InUse
  <2>1. id \notin Members /\ id \notin Reached
    BY <1>2 DEF Members, Reached, Unreached
  <2>. QED BY <2>1, AbstractStored
<1>11. Abstract!Stored(k) = Stored(k)
  BY AbstractStored
<1>12. Stored(k) => ~(a.exp < 0) /\ (a.exp > 0 <=> Exp(k) # 0)
  BY <1>6
<1>13. [l \in Keys |-> ItemOf(l)]' = [[l \in Keys |-> ItemOf(l)] EXCEPT ![k] = i]
  BY <1>4, <1>5, <1>9, Mapping, MappingNext
<1>14. {ItemAt(x) : x \in Members}' =
          (IF ttl > 0 THEN queue \cup {i} ELSE queue)
             \ (IF Abstract!Stored(k) /\ a.exp > 0 THEN {a} ELSE {})
  <2>1. {ItemAt(x) : x \in Members}' =
          (IF ttl > 0 THEN queue \cup {i} ELSE queue)
             \ (IF Stored(k) /\ Exp(k) # 0 THEN {a} ELSE {})
    BY <1>4, <1>5, <1>9, Mapping, MappingNext DEF queue
  <2>. QED BY <1>11, <1>12, <2>1
<1>15. Leftover' = Leftover
  BY <1>5, <1>9, Mapping, MappingNext
<1>16. Abstract!Replace(k, v, ttl, id)
  BY <1>10, <1>11, <1>12, <1>13, <1>14, <1>15 DEF Abstract!Replace, i, NewItem, a, queue
<1>. QED BY <1>2, <1>16

\* Cleanup takes out what is due and the keys of that, as Cleanup of Cache does; when
\* nothing is due it changes nothing.
LEMMA CleanupRefines ==
    ASSUME HeapInv, Cleanup
    PROVE  Abstract!Cleanup \/ UNCHANGED Abstract!vars
<1>. DEFINE last == Sweep(expHeap, items)
            map == last.items
            g == last.heap
            out == TakenOut(last)
            gone == {k \in Keys : \E id \in out : expHeap.mem[id].key = k}
            queue == {ItemAt(id) : id \in Members}
            a == [k \in Keys |-> ItemOf(k)]
<1>1. Swept(last) /\ SweepStopped(last) /\ GoodState(map, g, pool)
  BY SweepTakesDue DEF Swept
<1>2. Become(map, g, pool) /\ now' = now
  BY DEF Cleanup
<1>3. /\ GoodState(items, expHeap, pool) /\ now \in Int
      /\ Members \subseteq Ids /\ Members = ToSet(expHeap.arr)
      /\ \A id \in Ids : expHeap.mem[id].exp \in Int
  BY ViewFacts, StoreAssumption DEF HeapInv, Members
<1>. HIDE DEF last, queue, a
<1>4. \A id \in Ids : /\ g.mem[id].key = expHeap.mem[id].key
                      /\ g.mem[id].exp = expHeap.mem[id].exp
                      /\ View(g, id) = View(expHeap, id)
  BY <1>1 DEF Swept, View
<1>5. ToSet(g.arr) = {id \in Members : expHeap.mem[id].exp > now}
  <2>1. \A id \in ToSet(g.arr) : g.mem[id].exp > now
    <3>1. GoodHeap(Ids, Cell, g) /\ g \in Heaps(Ids, Cell)
      BY <1>1 DEF GoodState, GoodHeap
    <3>2. ASSUME NEW id \in ToSet(g.arr)
          PROVE  g.mem[id].exp > now
      <4>1. PICK p \in 0 .. Len0(g) - 1 : At(g, p) = id
        BY <3>1, MembersFacts
      <4>2. Due(g, 0) <= Due(g, p)
        BY <3>1, CellFacts, FirstIsEarliest
      <4>3. Len0(g) \in Nat /\ 0 \in 0 .. Len0(g) - 1 /\ Len0(g) # 0
        BY <3>1, <4>1, PlaceFacts
      <4>4. Due(g, 0) \in Int /\ Due(g, p) \in Int
        BY <3>1, <4>1, <4>3, CellFacts, PlaceFacts
      <4>5. Due(g, 0) > now
        BY <1>1, <4>3 DEF SweepStopped, Due
      <4>6. Due(g, p) > now
        BY <1>3, <4>2, <4>4, <4>5
      <4>. QED BY <4>1, <4>6 DEF Due
    <3>. QED BY <3>2
  <2>2. ToSet(g.arr) \subseteq Members
    BY <1>1 DEF Swept
  <2>3. \A id \in Members : id \in ToSet(g.arr) \/ expHeap.mem[id].exp <= now
    BY <1>1 DEF Swept, TakenOut
  <2>4. \A id \in ToSet(g.arr) : expHeap.mem[id].exp > now
    BY <1>3, <1>4, <2>1, <2>2
  <2>. HIDE DEF g
  <2>5. \A id \in Members : ~(expHeap.mem[id].exp <= now /\ expHeap.mem[id].exp > now)
    BY <1>3
  <2>. QED BY <2>2, <2>3, <2>4, <2>5
<1>6. /\ out = {id \in Members : expHeap.mem[id].exp <= now}
      /\ out = Members \ ToSet(g.arr)
      /\ \A k \in Keys : map[k] = IF k \in gone THEN NoItem ELSE items[k]
  <2>1. out = Members \ ToSet(g.arr)
    BY DEF TakenOut
  <2>2. \A k \in Keys : map[k] = IF k \in gone THEN NoItem ELSE items[k]
    BY <1>1 DEF Swept
  <2>3. \A id \in Members : expHeap.mem[id].exp <= now <=> ~(expHeap.mem[id].exp > now)
    BY <1>3
  <2>. HIDE DEF out, g
  <2>. QED BY <1>5, <2>1, <2>2, <2>3
<1>. HIDE DEF map, g, out
<1>7. Abstract!Due = {ItemAt(id) : id \in out}
  <2>1. \A id : ItemAt(id).exp = expHeap.mem[id].exp
    BY DEF ItemAt
  <2>. QED BY <1>6, <2>1 DEF Abstract!Due
<1>8. \A k \in Keys : k \in gone <=> \E i \in Abstract!Due : i.key = k
  <2>1. \A id : ItemAt(id).key = expHeap.mem[id].key
    BY DEF ItemAt
  <2>2. ASSUME NEW k \in Keys
        PROVE  (\E i \in Abstract!Due : i.key = k) <=> \E id \in out : expHeap.mem[id].key = k
    BY <1>7, <2>1
  <2>3. \A k \in Keys : k \in gone <=> \E id \in out : expHeap.mem[id].key = k
    OBVIOUS
  <2>. HIDE DEF gone
  <2>. QED BY <2>2, <2>3
<1>9. /\ ViewItems(items', expHeap') = ViewItems(map, g)
      /\ ViewHeap(expHeap') = ViewHeap(g)
      /\ ViewStale(items', expHeap') = ViewStale(map, g)
  BY <1>1, <1>2, BecomeView
<1>10. queue' = queue \ Abstract!Due
  <2>1. \A id : ItemAt(id) = View(expHeap, id)
    BY DEF ItemAt, View
  <2>2. \A x, y : View(expHeap, x) = View(expHeap, y) => x = y
    BY DEF View
  <2>3. ViewHeap(g) = {View(expHeap, id) : id \in Members \ out}
    <3>1. ToSet(g.arr) = Members \ out /\ Members \ out \subseteq Ids
      BY <1>3, <1>5, <1>6
    <3>. QED BY <1>4, <3>1 DEF ViewHeap
  <2>4. ViewHeap(g) = {View(expHeap, id) : id \in Members} \ {View(expHeap, id) : id \in out}
    BY <1>6, <2>2, <2>3
  <2>5. queue = {View(expHeap, id) : id \in Members}
        /\ Abstract!Due = {View(expHeap, id) : id \in out}
    BY <1>7, <2>1 DEF queue
  <2>6. queue' = ViewHeap(g)
    BY <1>9, MappingNext DEF queue
  <2>. QED BY <2>4, <2>5, <2>6
<1>11. a' = [k \in Keys |-> IF k \in gone THEN NoItem ELSE a[k]]
  <2>1. \A k \in Keys : (IF map[k] # NoItem THEN View(g, map[k]) ELSE NoItem)
            = IF k \in gone THEN NoItem
              ELSE IF items[k] # NoItem THEN View(expHeap, items[k]) ELSE NoItem
    <3>1. \A k \in Keys : items[k] # NoItem => items[k] \in Ids
      BY <1>3, ViewFacts
    <3>. HIDE DEF gone
    <3>. QED BY <1>4, <1>6, <3>1
  <2>2. \A k \in Keys : a[k] = IF items[k] # NoItem THEN View(expHeap, items[k]) ELSE NoItem
    BY Mapping DEF a, ViewItems
  <2>3. a' = [k \in Keys |-> IF map[k] # NoItem THEN View(g, map[k]) ELSE NoItem]
    BY <1>9, MappingNext DEF a, ViewItems
  <2>. HIDE DEF gone
  <2>. QED BY <2>1, <2>2, <2>3
<1>12. ASSUME NEW k \in Keys
       PROVE  Left(map, g, k) =
                {id \in Left(items, expHeap, k) : expHeap.mem[id].exp > now}
                \cup (IF k \in gone /\ Stored(k) /\ Exp(k) > now THEN {items[k]} ELSE {})
  <2>1. \A id \in ToSet(g.arr) : /\ id \in Members /\ id \in Ids /\ expHeap.mem[id].exp > now
                                 /\ g.mem[id].key = expHeap.mem[id].key
    BY <1>3, <1>4, <1>5
  <2>2. \A id \in Members : expHeap.mem[id].exp > now => id \in ToSet(g.arr)
    BY <1>5
  <2>3. Stored(k) => /\ items[k] \in Ids /\ expHeap.mem[items[k]].key = k
                     /\ Exp(k) = expHeap.mem[items[k]].exp
                     /\ Exp(k) # 0 => items[k] \in Members
    BY <1>3 DEF Stored, GoodState, Exp
  <2>4. NoItem \notin ToSet(g.arr)
    BY <2>1, StoreAssumption
  <2>5. now \in Nat
    BY DEF HeapInv
  <2>6. Exp(k) > now /\ Stored(k) => Exp(k) # 0
    BY <2>5
  <2>7. CASE k \in gone
    <3>1. map[k] = NoItem
      BY <1>6, <2>7
    <3>2. Left(map, g, k) = {id \in ToSet(g.arr) : expHeap.mem[id].key = k}
      BY <2>1, <2>4, <3>1 DEF Left
    <3>. HIDE DEF gone
    <3>. DEFINE queued == {id \in ToSet(g.arr) : expHeap.mem[id].key = k}
                left == {id \in Left(items, expHeap, k) : expHeap.mem[id].exp > now}
                own == IF Stored(k) /\ Exp(k) > now THEN {items[k]} ELSE {}
    <3>3. \A id \in queued : id \in left \/ id \in own
      BY <1>3, <2>1, <2>4 DEF Left, Stored, Exp
    <3>4. \A id \in left : id \in queued
      BY <1>3, <2>2 DEF Left
    <3>5. \A id \in own : id \in queued
      BY <2>2, <2>3, <2>6
    <3>6. queued = left \cup own
      <4>. HIDE DEF queued, left, own
      <4>. QED BY <3>3, <3>4, <3>5
    <3>. QED BY <2>7, <3>2, <3>6
  <2>8. CASE k \notin gone
    <3>1. map[k] = items[k]
      BY <1>6, <2>8
    <3>. HIDE DEF gone
    <3>. QED BY <1>3, <2>1, <2>2, <2>8, <3>1 DEF Left
  <2>. QED BY <2>7, <2>8
<1>13. \A k \in Keys : Left(items, expHeap, k) \subseteq Ids /\ Left(map, g, k) \subseteq Ids
  BY <1>1, <1>3, ViewFacts DEF Left
<1>14. Leftover' = [k \in Keys |->
                      {d \in Leftover[k] : d > now}
                      \cup {a[l].exp : l \in {m \in {k} \cap gone :
                                                /\ Abstract!Stored(m) /\ a[m].exp > now}}]
  <2>1. \A k \in Keys : Abstract!Stored(k) = Stored(k) /\ (Stored(k) => a[k].exp = Exp(k))
    BY AbstractStored DEF View, Exp, a
  <2>2. ASSUME NEW k \in Keys
        PROVE  {g.mem[id].exp : id \in Left(map, g, k)} =
                 {d \in {expHeap.mem[id].exp : id \in Left(items, expHeap, k)} : d > now}
                 \cup {a[l].exp : l \in {m \in {k} \cap gone :
                                           /\ Abstract!Stored(m) /\ a[m].exp > now}}
    <3>1. {g.mem[id].exp : id \in Left(map, g, k)}
            = {expHeap.mem[id].exp : id \in Left(map, g, k)}
      BY <1>4, <1>13
    <3>2. {a[l].exp : l \in {m \in {k} \cap gone : /\ Abstract!Stored(m) /\ a[m].exp > now}}
            = IF k \in gone /\ Stored(k) /\ Exp(k) > now THEN {Exp(k)} ELSE {}
      <4>. HIDE DEF gone
      <4>. QED BY <2>1
    <3>3. {expHeap.mem[id].exp : id \in Left(map, g, k)} =
             {d \in {expHeap.mem[id].exp : id \in Left(items, expHeap, k)} : d > now}
             \cup (IF k \in gone /\ Stored(k) /\ Exp(k) > now THEN {Exp(k)} ELSE {})
      <4>. HIDE DEF gone
      <4>. QED BY <1>12 DEF Exp
    <3>. QED BY <3>1, <3>2, <3>3
  <2>3. \A k \in Keys : Leftover[k] = {expHeap.mem[id].exp : id \in Left(items, expHeap, k)}
    BY Mapping DEF ViewStale
  <2>4. Leftover' = [k \in Keys |-> {g.mem[id].exp : id \in Left(map, g, k)}]
    BY <1>9, MappingNext DEF ViewStale
  <2>. HIDE DEF gone
  <2>. QED BY <2>2, <2>3, <2>4
<1>15. CASE out # {}
  <2>1. Abstract!Due # {}
    BY <1>7, <1>15
  <2>2. \A k \in Keys : k \in gone <=> k \in {l \in Keys : \E i \in Abstract!Due : i.key = l}
    BY <1>8
  <2>3. gone = {l \in Keys : \E i \in Abstract!Due : i.key = l}
    BY <2>2
  <2>. HIDE DEF gone
  <2>4. Abstract!Cleanup
    BY <1>2, <1>10, <1>11, <1>14, <2>1, <2>3 DEF Abstract!Cleanup, queue, a
  <2>. QED BY <2>4
<1>16. CASE out = {}
  <2>1. gone = {} /\ Abstract!Due = {}
    BY <1>7, <1>16
  <2>2. queue' = queue
    BY <1>10, <2>1
  <2>3. a' = a
    BY <1>11, <2>1 DEF a
  <2>4. Leftover' = Leftover
    <3>1. \A k \in Keys : \A id \in Left(items, expHeap, k) : expHeap.mem[id].exp > now
      BY <1>3, <1>5, <1>6, <1>16 DEF Left
    <3>2. \A k \in Keys : Left(map, g, k) = Left(items, expHeap, k)
      BY <1>12, <2>1, <3>1
    <3>3. \A k \in Keys : \A id \in Left(items, expHeap, k) : View(g, id) = View(expHeap, id)
      BY <1>4, <1>13
    <3>4. ViewStale(map, g) = ViewStale(items, expHeap)
      BY <3>2, <3>3, SameLeft
    <3>. QED BY <1>9, <3>4, Mapping, MappingNext
  <2>. QED BY <1>2, <2>2, <2>3, <2>4 DEF Abstract!vars, queue, a
<1>. QED BY <1>15, <1>16

\* FlushAll leaves nothing in the map and nothing in the heap.
LEMMA FlushAllRefines ==
    ASSUME HeapInv, FlushAll
    PROVE  Abstract!FlushAll
<1>. DEFINE none == [k \in Keys |-> NoItem]
            e == [expHeap EXCEPT !.arr = <<>>]
<1>1. expHeap.mem \in [Ids -> Cell] /\ e = [arr |-> <<>>, mem |-> expHeap.mem]
  BY DEF HeapInv, GoodState, GoodHeap, Heaps
<1>2. Become(none, e, pool) /\ now' = now
  BY DEF FlushAll
<1>. HIDE DEF e
<1>3. GoodHeap(Ids, Cell, e) /\ ToSet(e.arr) = {}
  BY <1>1, EmptyHeap
<1>4. GoodState(none, e, pool)
  <2>1. e.mem = expHeap.mem
    BY <1>1
  <2>. QED BY <1>3, <2>1, StoreAssumption DEF HeapInv, GoodState, Unreached
<1>. HIDE DEF none
<1>5. /\ ViewItems(items', expHeap') = ViewItems(none, e)
      /\ ViewHeap(expHeap') = ViewHeap(e)
      /\ ViewStale(items', expHeap') = ViewStale(none, e)
  BY <1>2, <1>4, BecomeView
<1>6. ViewItems(none, e) = [k \in Keys |-> NoItem]
  BY DEF ViewItems, none
<1>7. ViewHeap(e) = {}
  BY <1>3 DEF ViewHeap
<1>8. ViewStale(none, e) = [k \in Keys |-> {}]
  <2>1. \A k \in Keys : Left(none, e, k) = {}
    BY <1>3 DEF Left
  <2>. QED BY <2>1 DEF ViewStale
<1>. QED BY <1>2, <1>5, <1>6, <1>7, <1>8, MappingNext DEF Abstract!FlushAll

\* What changes neither the map nor the heap changes nothing that Cache sees.
LEMMA SameMapping ==
    ASSUME items' = items, expHeap' = expHeap
    PROVE  /\ [k \in Keys |-> ItemOf(k)]' = [k \in Keys |-> ItemOf(k)]
           /\ {ItemAt(id) : id \in Members}' = {ItemAt(id) : id \in Members}
           /\ Leftover' = Leftover
BY Mapping, MappingNext

LEMMA DeleteRefines ==
    ASSUME HeapInv, NEW k \in Keys, Delete(k)
    PROVE  Abstract!Delete(k)
<1>. DEFINE g == IF Exp(k) > 0 THEN RemoveItem(expHeap, items[k]) ELSE expHeap
            rest == [items EXCEPT ![k] = NoItem]
<1>1. items[k] # NoItem /\ Stored(k)
  BY DEF Delete, Stored
<1>2. Become(rest, g, pool) /\ now' = now
  BY DeleteBecomes DEF Delete
<1>3. GoodState(rest, g, pool)
  <2>. HIDE DEF rest, g
  <2>. QED BY <1>1, UnstoreKeeps DEF rest, g
<1>. QED BY <1>1, <1>2, <1>3, UnstoreRefines

\* The batch operations that take a key out.
LEMMA UnstoreToPoolRefines ==
    ASSUME NoOverflow, HeapInv, NEW k \in Keys, Stored(k),
           Become([items EXCEPT ![k] = NoItem],
                  IF Exp(k) > 0 THEN RemoveItem(expHeap, items[k]) ELSE expHeap,
                  pool \cup {items[k]}),
           now' = now
    PROVE  /\ Abstract!Delete(k)
           /\ Exp(k) > 0 /\ Exp(k) <= now => Abstract!Evict(k)
<1>. DEFINE g == IF Exp(k) > 0 THEN RemoveItem(expHeap, items[k]) ELSE expHeap
            rest == [items EXCEPT ![k] = NoItem]
<1>. HIDE DEF rest, g
<1>1. /\ GoodState(rest, g, pool)
      /\ items[k] \in Ids /\ Unreached(rest, items[k]) /\ items[k] \notin ToSet(g.arr)
  BY UnstoreKeeps DEF rest, g, Stored
<1>2. GoodState(rest, g, pool \cup {items[k]})
  BY <1>1, PoolKeeps
<1>. QED BY <1>2, UnstoreRefines DEF rest, g

LEMMA BatchDelRefines ==
    ASSUME NoOverflow, HeapInv, NEW k \in Keys, BatchDel(k), now' = now
    PROVE  Abstract!Delete(k) \/ UNCHANGED Abstract!vars
<1>1. CASE Stored(k)
  BY <1>1, UnstoreToPoolRefines DEF BatchDel
<1>2. CASE ~Stored(k)
  <2>1. UNCHANGED <<items, expHeap>>
    BY <1>2 DEF BatchDel
  <2>. QED BY <2>1, SameMapping DEF Abstract!vars
<1>. QED BY <1>1, <1>2

LEMMA BatchGetRefines ==
    ASSUME NoOverflow, HeapInv, NEW k \in Keys, BatchGet(k), now' = now
    PROVE  Abstract!Evict(k) \/ UNCHANGED Abstract!vars
<1>1. CASE Stored(k) /\ Exp(k) # 0 /\ Exp(k) <= now
  <2>1. Exp(k) > 0
    <3>1. items[k] \in Ids
      BY <1>1 DEF HeapInv, GoodState, Stored
    <3>2. expHeap.mem[items[k]] \in Cell /\ expHeap.mem[items[k]].exp >= 0
      BY <3>1 DEF HeapInv, GoodState, GoodHeap, Heaps
    <3>. QED BY <1>1, <3>2 DEF Cell, Exp
  <2>2. Become([items EXCEPT ![k] = NoItem],
               IF Exp(k) > 0 THEN RemoveItem(expHeap, items[k]) ELSE expHeap,
               pool \cup {items[k]})
    BY <1>1, <2>1 DEF BatchGet
  <2>. QED BY <1>1, <2>1, <2>2, UnstoreToPoolRefines
<1>2. CASE ~(Stored(k) /\ Exp(k) # 0 /\ Exp(k) <= now)
  <2>1. UNCHANGED <<items, expHeap>>
    BY <1>2 DEF BatchGet
  <2>. QED BY <2>1, SameMapping DEF Abstract!vars
<1>. QED BY <1>1, <1>2

\* A key is visible for SetNX when it is for that of Cache.
LEMMA SameVisible ==
    ASSUME HeapInv, NEW k \in Keys
    PROVE  Abstract!Visible(k) <=> Visible(k)
<1>1. Abstract!Stored(k) = Stored(k)
  BY AbstractStored
<1>2. Stored(k) => [l \in Keys |-> ItemOf(l)][k].exp = Exp(k)
  BY AbstractStored DEF View, Exp
<1>. QED BY <1>1, <1>2 DEF Abstract!Visible, Abstract!Expired, Visible

LEMMA InitRefines == Init => Abstract!Init
<1>. SUFFICES ASSUME Init PROVE Abstract!Init
  OBVIOUS
<1>1. items = [k \in Keys |-> NoItem] /\ expHeap.arr = <<>> /\ now = 0
  BY DEF Init
<1>2. ToSet(expHeap.arr) = {}
  BY <1>1 DEF ToSet
<1>3. ViewItems(items, expHeap) = [k \in Keys |-> NoItem]
  BY <1>1 DEF ViewItems
<1>4. ViewHeap(expHeap) = {}
  BY <1>2 DEF ViewHeap
<1>5. ViewStale(items, expHeap) = [k \in Keys |-> {}]
  <2>1. \A k \in Keys : Left(items, expHeap, k) = {}
    BY <1>2 DEF Left
  <2>. QED BY <2>1 DEF ViewStale
<1>. QED BY <1>1, <1>3, <1>4, <1>5, Mapping DEF Abstract!Init

LEMMA PlainNextRefines ==
    ASSUME HeapInv, PlainNext
    PROVE  Abstract!Next \/ UNCHANGED Abstract!vars
<1>1. ASSUME NEW k \in Keys, NEW v \in Values, NEW ttl \in TTLs, Set(k, v, ttl)
      PROVE  Abstract!Next
  <2>1. \E id \in Ids : Abstract!Put(k, v, ttl, id)
    BY <1>1, PutRefines DEF Set
  <2>2. Abstract!SomeSet
    BY <2>1 DEF Abstract!SomeSet, Abstract!Set
  <2>. QED BY <2>2 DEF Abstract!Next
<1>2. ASSUME NEW k \in Keys, NEW v \in Values, NEW ttl \in TTLs, SetNX(k, v, ttl)
      PROVE  Abstract!Next
  <2>1. (\E id \in Ids : Abstract!Put(k, v, ttl, id)) /\ ~Abstract!Visible(k)
    BY <1>2, PutRefines, SameVisible DEF SetNX
  <2>2. Abstract!SomeSetNX
    BY <2>1 DEF Abstract!SomeSetNX, Abstract!SetNX
  <2>. QED BY <2>2 DEF Abstract!Next
<1>3. ASSUME NEW k \in Keys, Delete(k)
      PROVE  Abstract!Next
  BY <1>3, DeleteRefines DEF Abstract!Next
<1>4. CASE Cleanup
  BY <1>4, CleanupRefines DEF Abstract!Next
<1>5. CASE FlushAll
  BY <1>5, FlushAllRefines DEF Abstract!Next
<1>6. CASE Tick
  <2>1. now < MaxNow /\ now' = now + 1 /\ items' = items /\ expHeap' = expHeap
    BY <1>6 DEF Tick
  <2>2. Abstract!Tick
    BY <2>1, SameMapping DEF Abstract!Tick
  <2>. QED BY <2>2 DEF Abstract!Next
<1>. QED BY <1>1, <1>2, <1>3, <1>4, <1>5, <1>6 DEF PlainNext

LEMMA PooledNextRefines ==
    ASSUME NoOverflow, HeapInv, PooledNext
    PROVE  Abstract!Next \/ UNCHANGED Abstract!vars
<1>1. ASSUME NEW k \in Keys, NEW v \in Values, NEW ttl \in TTLs,
             PutPooled(k, v, ttl), now' = now
      PROVE  Abstract!Next
  <2>1. \E id \in Ids : Abstract!Replace(k, v, ttl, id)
    BY <1>1, PutPooledRefines
  <2>2. Abstract!SomeReplace
    BY <2>1 DEF Abstract!SomeReplace
  <2>. QED BY <2>2 DEF Abstract!Next
<1>2. ASSUME NEW k \in Keys, NEW v \in Values, NEW ttl \in TTLs, OptimizedSet(k, v, ttl)
      PROVE  Abstract!Next
  <2>1. PutPooled(k, v, ttl) /\ now' = now
    BY <1>2 DEF OptimizedSet
  <2>. QED BY <1>1, <2>1
<1>3. CASE BatchBegin
  <2>1. items' = items /\ expHeap' = expHeap /\ now' = now
    BY <1>3 DEF BatchBegin
  <2>. QED BY <2>1, SameMapping DEF Abstract!vars
<1>4. CASE BatchStep
  <2>1. now' = now
    BY <1>4 DEF BatchStep
  <2>2. PICK k \in Keys : \/ \E v \in Values, ttl \in TTLs : PutPooled(k, v, ttl)
                          \/ BatchGet(k)
                          \/ BatchDel(k)
    BY <1>4 DEF BatchStep
  <2>3. CASE \E v \in Values, ttl \in TTLs : PutPooled(k, v, ttl)
    BY <1>1, <2>1, <2>3
  <2>4. CASE BatchGet(k)
    BY <2>1, <2>4, BatchGetRefines DEF Abstract!Next
  <2>5. CASE BatchDel(k)
    BY <2>1, <2>5, BatchDelRefines DEF Abstract!Next
  <2>. QED BY <2>2, <2>3, <2>4, <2>5
<1>. QED BY <1>1, <1>2, <1>3, <1>4 DEF PooledNext

LEMMA StutterRefines == UNCHANGED vars => UNCHANGED Abstract!vars
<1>. SUFFICES ASSUME UNCHANGED vars PROVE UNCHANGED Abstract!vars
  OBVIOUS
<1>1. items' = items /\ expHeap' = expHeap /\ now' = now
  BY DEF vars
<1>. QED BY <1>1, SameMapping DEF Abstract!vars

\* The store with its array and its indices behaves as the store of Cache, whose heap is
\* a set, also when a sum wraps: popping while the top is due pops exactly what is due,
\* and removing by index removes exactly that item.
THEOREM PlainImplementsCache == PlainSpec => ImplementsCache
<1>1. HeapInv /\ [PlainNext]_vars => [Abstract!Next]_(Abstract!vars)
  BY PlainNextRefines, StutterRefines
<1>. QED BY <1>1, InitRefines, PlainHeapInvariant, PTL
         DEF PlainSpec, ImplementsCache, Abstract!Spec

\* With the batches and OptimizedSet too, while no sum wraps: a reused item is as good as
\* a new one.
THEOREM AlwaysImplementsCache == ASSUME NoOverflow PROVE Spec => ImplementsCache
<1>1. HeapInv /\ [Next]_vars => [Abstract!Next]_(Abstract!vars)
  BY PlainNextRefines, PooledNextRefines, StutterRefines DEF Next
<1>. QED BY <1>1, InitRefines, HeapInvariant, PTL
         DEF Spec, ImplementsCache, Abstract!Spec

----------------------------------------------------------------------------
(* What is proved of Cache holds of the store with its array. *)

Kernel == INSTANCE CacheProofs WITH items <- [k \in Keys |-> ItemOf(k)],
                                    heap <- {ItemAt(id) : id \in Members},
                                    stale <- Leftover

\* The two instances say the same.
LEMMA KernelIsAbstract ==
    /\ Abstract!Init => Kernel!Init
    /\ [Abstract!Next]_(Abstract!vars) => [Kernel!Next]_(Kernel!vars)
    /\ [Kernel!LossStep]_(Kernel!vars) => [Abstract!LossStep]_(Abstract!vars)
<1>1. Abstract!Init => Kernel!Init
  BY SMTT(40) DEF Abstract!Init, Kernel!Init
<1>2. [Abstract!Next]_(Abstract!vars) => [Kernel!Next]_(Kernel!vars)
  BY DEF Abstract!Next, Kernel!Next, Abstract!vars, Kernel!vars,
         Abstract!SomeSet, Kernel!SomeSet, Abstract!Set, Kernel!Set, Abstract!Put, Kernel!Put,
         Abstract!SomeSetNX, Kernel!SomeSetNX, Abstract!SetNX, Kernel!SetNX,
         Abstract!SomeReplace, Kernel!SomeReplace, Abstract!Replace, Kernel!Replace,
         Abstract!Delete, Kernel!Delete, Abstract!Evict, Kernel!Evict,
         Abstract!Cleanup, Kernel!Cleanup, Abstract!FlushAll, Kernel!FlushAll,
         Abstract!Tick, Kernel!Tick, Abstract!Expiration, Kernel!Expiration,
         Abstract!Wrap, Kernel!Wrap, Abstract!Stored, Kernel!Stored,
         Abstract!Visible, Kernel!Visible, Abstract!Expired, Kernel!Expired,
         Abstract!InUse, Kernel!InUse, Abstract!DueAt, Kernel!DueAt, Abstract!Due, Kernel!Due
<1>3. [Kernel!LossStep]_(Kernel!vars) => [Abstract!LossStep]_(Abstract!vars)
  BY DEF Abstract!LossStep, Kernel!LossStep, Abstract!vars, Kernel!vars,
         Abstract!Removes, Kernel!Removes, Abstract!Delete, Kernel!Delete,
         Abstract!FlushAll, Kernel!FlushAll, Abstract!Stored, Kernel!Stored
<1>. QED BY <1>1, <1>2, <1>3

LEMMA KernelAssumptions ==
    /\ NoItem \notin Kernel!Item
    /\ TTLs \subseteq -Half .. Half - 1
    /\ Half \in Nat /\ MaxNow \in Nat /\ MaxNow < Half
BY StoreAssumption DEF Kernel!Item

LEMMA KernelInit == Init => Kernel!Inv
BY KernelAssumptions, InitRefines, KernelIsAbstract, Kernel!InitInv

\* A step of the store keeps the invariant of Cache, and loses what Cache may lose.
LEMMA KernelStep ==
    ASSUME Kernel!Inv, [Abstract!Next]_(Abstract!vars)
    PROVE  Kernel!Inv' /\ [Abstract!LossStep]_(Abstract!vars)
<1>1. [Kernel!Next]_(Kernel!vars)
  BY KernelIsAbstract
<1>2. Kernel!Inv'
  BY <1>1, KernelAssumptions, Kernel!NextInv
<1>3. Kernel!LossStep
  BY <1>1, KernelAssumptions, Kernel!LossOfOneStep
<1>. QED BY <1>2, <1>3, KernelIsAbstract

\* What the servers use of the store, with its array, loses a value only to Delete,
\* FlushAll, its own deadline or that of an older value of the same key whose item is
\* still in the array, also when sums of the clock and a ttl wrap.
THEOREM StoreLosesOnlyToDeadlines == PlainSpec => Abstract!LossHasADeadline
<1>1. HeapInv /\ Kernel!Inv /\ [PlainNext]_vars
        => Kernel!Inv' /\ [Abstract!LossStep]_(Abstract!vars)
  BY PlainNextRefines, StutterRefines, KernelStep
<1>. QED BY <1>1, KernelInit, PlainHeapInvariant, PTL DEF PlainSpec, Abstract!LossHasADeadline

\* So does the store with its batches and OptimizedSet, while no sum wraps.
THEOREM PooledStoreLosesOnlyToDeadlines ==
    ASSUME NoOverflow PROVE Spec => Abstract!LossHasADeadline
<1>1. HeapInv /\ Kernel!Inv /\ [Next]_vars
        => Kernel!Inv' /\ [Abstract!LossStep]_(Abstract!vars)
  BY PlainNextRefines, PooledNextRefines, StutterRefines, KernelStep DEF Next
<1>. QED BY <1>1, KernelInit, HeapInvariant, PTL DEF Spec, Abstract!LossHasADeadline
=============================================================================

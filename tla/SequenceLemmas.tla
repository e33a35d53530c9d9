---------------------------- MODULE SequenceLemmas ----------------------------
(***************************************************************************)
(* Lemmas about sequences: what FoldLeft computes, for a module that folds *)
(* an operator of its own (INSTANCE SequenceLemmas WITH Op <- the operator *)
(* it folds), and how often a value occurs in a sequence.                  *)
(*                                                                         *)
(* The induction theorems of the library take an operator as a parameter;  *)
(* here induction is over a set of naturals, and the operator a constant.  *)
(***************************************************************************)
EXTENDS Integers, SequencesExt, FiniteSets, FunctionTheorems, FiniteSetTheorems,
        WellFoundedInduction, TLAPS

CONSTANT Op(_, _)

\* A set of natural numbers that is not empty has a least element.
LEMMA LeastNat ==
    ASSUME NEW T, T \subseteq Nat, T # {}
    PROVE  \E m \in T : \A k \in T : m <= k
<1>. DEFINE R == {ss \in Nat \X Nat : ss[1] < ss[2]}
<1>1. IsWellFoundedOn(R, Nat)
  BY NatLessThanWellFounded DEF OpToRel
<1>2. PICK m \in T : \A k \in T : <<k, m>> \notin R
  BY <1>1, WFMin
<1>3. \A k \in T : ~(k < m)
  BY <1>2
<1>. QED BY <1>3

\* Induction on the natural numbers, for a set.
THEOREM NatSetInduction ==
    ASSUME NEW T, 0 \in T, \A n \in Nat : n \in T => n + 1 \in T
    PROVE  Nat \subseteq T
<1>. SUFFICES ASSUME Nat \ T # {} PROVE FALSE
  OBVIOUS
<1>1. PICK m \in Nat \ T : \A k \in Nat \ T : m <= k
  BY LeastNat
<1>2. m # 0 /\ m - 1 \in Nat
  BY <1>1
<1>3. m - 1 \in T
  BY <1>1, <1>2
<1>. QED BY <1>1, <1>2, <1>3

\* The recursive function of the definition of FoldLeft, on the subsets of 1 .. n.
Iterates(it, n, base, s) ==
    it = [t \in SUBSET (1 .. n) |->
            IF t = {} THEN base ELSE Op(it[t \ {Max(t)}], s[Max(t)])]

\* The values a fold goes through, one for every prefix of s.
FoldSteps(v, base, s) ==
    /\ v[0] = base
    /\ \A n \in 1 .. Len(s) : v[n] = Op(v[n - 1], s[n])

LEMMA MaxOfInterval ==
    ASSUME NEW n \in Nat, NEW t, t \subseteq 1 .. n + 1, n + 1 \in t
    PROVE  Max(t) = n + 1
<1>1. \A x \in t : (\A y \in t : x >= y) => x = n + 1
  OBVIOUS
<1>2. \A y \in t : n + 1 >= y
  OBVIOUS
<1>. QED BY <1>1, <1>2 DEF Max

LEMMA IteratesExist ==
    ASSUME NEW base, NEW s, NEW n \in Nat
    PROVE  \E it : Iterates(it, n, base, s)
<1>. DEFINE T == {m \in Nat : \E it : Iterates(it, m, base, s)}
<1>1. 0 \in T
  <2>. DEFINE it == [t \in SUBSET (1 .. 0) |-> base]
  <2>1. \A t \in SUBSET (1 .. 0) : t = {}
    OBVIOUS
  <2>2. Iterates(it, 0, base, s)
    BY <2>1 DEF Iterates
  <2>. QED BY <2>2
<1>2. ASSUME NEW m \in Nat, m \in T
      PROVE  m + 1 \in T
  <2>1. PICK f : Iterates(f, m, base, s)
    BY <1>2
  <2>. DEFINE g == [t \in SUBSET (1 .. m + 1) |->
                      IF m + 1 \in t THEN Op(f[t \ {m + 1}], s[m + 1]) ELSE f[t]]
  <2>2. ASSUME NEW t \in SUBSET (1 .. m + 1)
        PROVE  g[t] = IF t = {} THEN base ELSE Op(g[t \ {Max(t)}], s[Max(t)])
    <3>1. CASE m + 1 \in t
      <4>1. Max(t) = m + 1
        BY <3>1, MaxOfInterval
      <4>2. t \ {m + 1} \in SUBSET (1 .. m + 1) /\ m + 1 \notin t \ {m + 1}
        OBVIOUS
      <4>3. g[t \ {m + 1}] = f[t \ {m + 1}]
        BY <4>2
      <4>. QED BY <3>1, <4>1, <4>3
    <3>2. CASE m + 1 \notin t
      <4>1. t \in SUBSET (1 .. m)
        BY <3>2
      <4>2. f[t] = IF t = {} THEN base ELSE Op(f[t \ {Max(t)}], s[Max(t)])
        BY <2>1, <4>1 DEF Iterates
      <4>3. t \ {Max(t)} \in SUBSET (1 .. m + 1) /\ m + 1 \notin t \ {Max(t)}
        BY <3>2
      <4>4. g[t \ {Max(t)}] = f[t \ {Max(t)}]
        BY <4>3
      <4>. QED BY <3>2, <4>2, <4>4
    <3>. QED BY <3>1, <3>2
  <2>3. Iterates(g, m + 1, base, s)
    BY <2>2 DEF Iterates
  <2>. QED BY <2>3
<1>. HIDE DEF T
<1>3. Nat \subseteq T
  BY <1>1, <1>2, NatSetInduction
<1>. QED BY <1>3 DEF T

\* FoldLeft applies Op from the first element to the last.
THEOREM FoldLeftSteps ==
    ASSUME NEW S, NEW s \in Seq(S), NEW base
    PROVE  \E v : FoldSteps(v, base, s) /\ FoldLeft(Op, base, s) = v[Len(s)]
<1>. DEFINE iter == CHOOSE it : Iterates(it, Len(s), base, s)
            v == [n \in 0 .. Len(s) |-> iter[1 .. n]]
<1>1. Iterates(iter, Len(s), base, s)
  BY IteratesExist
<1>2. FoldLeft(Op, base, s) = iter[1 .. Len(s)]
  <2>1. DOMAIN s = 1 .. Len(s)
    OBVIOUS
  <2>. QED BY <2>1 DEF FoldLeft, MapThenFoldSet, Iterates
<1>. HIDE DEF iter
<1>3. iter[1 .. 0] = base
  BY <1>1 DEF Iterates
<1>4. ASSUME NEW n \in 1 .. Len(s)
      PROVE  iter[1 .. n] = Op(iter[1 .. n - 1], s[n])
  <2>0. n \in Nat /\ n - 1 \in Nat /\ (n - 1) + 1 = n /\ n <= Len(s) /\ n >= 1
    OBVIOUS
  <2>1. 1 .. n \subseteq 1 .. Len(s) /\ n \in 1 .. n
    BY <2>0
  <2>2. Max(1 .. n) = n
    BY <2>0, <2>1, MaxOfInterval
  <2>3. (1 .. n) \ {n} = 1 .. n - 1
    OBVIOUS
  <2>. QED BY <1>1, <2>1, <2>2, <2>3 DEF Iterates
<1>5. FoldSteps(v, base, s)
  BY <1>3, <1>4 DEF FoldSteps
<1>. QED BY <1>2, <1>5

\* What a fold maintains: when G[n] is closed under Op from one prefix to the next,
\* the result is in the last of them.
THEOREM FoldLeftInvariant ==
    ASSUME NEW S, NEW s \in Seq(S), NEW base, NEW G,
           base \in G[0],
           \A n \in 1 .. Len(s) : \A x \in G[n - 1] : Op(x, s[n]) \in G[n]
    PROVE  FoldLeft(Op, base, s) \in G[Len(s)]
<1>1. PICK v : FoldSteps(v, base, s) /\ FoldLeft(Op, base, s) = v[Len(s)]
  BY FoldLeftSteps
<1>. DEFINE T == {n \in Nat : n <= Len(s) => v[n] \in G[n]}
<1>2. 0 \in T
  BY <1>1 DEF FoldSteps
<1>3. ASSUME NEW n \in Nat, n \in T
      PROVE  n + 1 \in T
  <2>. SUFFICES ASSUME n + 1 <= Len(s) PROVE v[n + 1] \in G[n + 1]
    OBVIOUS
  <2>1. n + 1 \in 1 .. Len(s) /\ (n + 1) - 1 = n
    OBVIOUS
  <2>2. v[n + 1] = Op(v[n], s[n + 1])
    BY <1>1, <2>1 DEF FoldSteps
  <2>3. v[n] \in G[n]
    BY <1>3
  <2>. QED BY <2>1, <2>2, <2>3
<1>. HIDE DEF T
<1>4. Nat \subseteq T
  BY <1>2, <1>3, NatSetInduction
<1>5. Len(s) \in T
  BY <1>4
<1>. QED BY <1>1, <1>5 DEF T

\* One more element is one more step.
THEOREM FoldLeftAppend ==
    ASSUME NEW S, NEW s \in Seq(S), NEW e \in S, NEW base
    PROVE  FoldLeft(Op, base, Append(s, e)) = Op(FoldLeft(Op, base, s), e)
<1>1. PICK v : FoldSteps(v, base, s) /\ FoldLeft(Op, base, s) = v[Len(s)]
  BY FoldLeftSteps
<1>. DEFINE t == Append(s, e)
            G == [n \in Nat |-> {IF n <= Len(s) THEN v[n] ELSE Op(v[Len(s)], e)}]
<1>2. /\ t \in Seq(S) /\ Len(t) = Len(s) + 1 /\ t[Len(s) + 1] = e /\ Len(s) \in Nat
      /\ \A n \in 1 .. Len(s) : t[n] = s[n]
  OBVIOUS
<1>. HIDE DEF t
<1>3. base \in G[0]
  BY <1>1, <1>2 DEF FoldSteps
<1>4. ASSUME NEW n \in 1 .. Len(t), NEW x \in G[n - 1]
      PROVE  Op(x, t[n]) \in G[n]
  <2>0. n - 1 \in Nat /\ n \in Nat
    BY <1>2
  <2>1. CASE n <= Len(s)
    <3>1. n \in 1 .. Len(s) /\ x = v[n - 1] /\ t[n] = s[n]
      BY <1>2, <2>0, <2>1
    <3>2. v[n] = Op(v[n - 1], s[n])
      BY <1>1, <3>1 DEF FoldSteps
    <3>. QED BY <2>0, <2>1, <3>1, <3>2
  <2>2. CASE ~(n <= Len(s))
    <3>1. n = Len(s) + 1
      BY <1>2, <2>2
    <3>2. x = v[Len(s)] /\ t[n] = e
      BY <1>2, <2>0, <3>1
    <3>. QED BY <2>0, <2>2, <3>2
  <2>. QED BY <2>1, <2>2
<1>5. FoldLeft(Op, base, t) \in G[Len(t)]
  <2>. HIDE DEF G
  <2>. QED BY <1>2, <1>3, <1>4, FoldLeftInvariant
<1>6. FoldLeft(Op, base, t) = Op(v[Len(s)], e)
  <2>1. Len(t) \in Nat /\ ~(Len(t) <= Len(s))
    BY <1>2
  <2>2. G[Len(t)] = {Op(v[Len(s)], e)}
    BY <2>1
  <2>. HIDE DEF G
  <2>. QED BY <1>5, <2>2
<1>. QED BY <1>1, <1>6 DEF t

----------------------------------------------------------------------------
(* How often a value occurs in a sequence. *)

PlacesOf(s, x) == {i \in 1 .. Len(s) : s[i] = x}

LEMMA PlacesInDomain ==
    ASSUME NEW S, NEW s \in Seq(S), NEW x
    PROVE  {i \in DOMAIN s : s[i] = x} = PlacesOf(s, x)
BY DEF PlacesOf

LEMMA PlacesFinite ==
    ASSUME NEW S, NEW s \in Seq(S), NEW x
    PROVE  /\ IsFiniteSet(PlacesOf(s, x))
           /\ Cardinality(PlacesOf(s, x)) \in Nat
           /\ Cardinality(PlacesOf(s, x)) <= Len(s)
<1>1. Len(s) \in Nat
  OBVIOUS
<1>2. /\ IsFiniteSet(1 .. Len(s)) /\ Cardinality(1 .. Len(s)) = Len(s)
  BY <1>1, FS_Interval, SMTT(40)
<1>3. PlacesOf(s, x) \in SUBSET (1 .. Len(s))
  BY DEF PlacesOf
<1>. QED  BY <1>2, <1>3, FS_Subset, FS_CardinalityType

\* An element is in a sequence when its places are more than none.
LEMMA PlacesExist ==
    ASSUME NEW S, NEW s \in Seq(S), NEW x
    PROVE  Cardinality(PlacesOf(s, x)) # 0 <=> \E i \in 1 .. Len(s) : s[i] = x
<1>1. Cardinality(PlacesOf(s, x)) = 0 <=> PlacesOf(s, x) = {}
  BY PlacesFinite, FS_EmptySet
<1>. QED  BY <1>1 DEF PlacesOf

\* An element with at most one place is not found at two.
LEMMA PlacesUnique ==
    ASSUME NEW S, NEW s \in Seq(S), NEW x, Cardinality(PlacesOf(s, x)) <= 1,
           NEW i \in 1 .. Len(s), NEW j \in 1 .. Len(s), s[i] = x, s[j] = x
    PROVE  i = j
<1>1. i \in PlacesOf(s, x) /\ j \in PlacesOf(s, x)
  BY DEF PlacesOf
<1>2. Cardinality(PlacesOf(s, x)) = 1
  BY <1>1, PlacesFinite, FS_EmptySet
<1>. QED  BY <1>1, <1>2, PlacesFinite, FS_Singleton

\* A send adds a place for the element that is sent and for no other.
LEMMA CountAppend ==
    ASSUME NEW S, NEW s \in Seq(S), NEW e \in S, NEW x
    PROVE  Cardinality(PlacesOf(Append(s, e), x))
             = Cardinality(PlacesOf(s, x)) + (IF e = x THEN 1 ELSE 0)
<1>1. /\ Len(s) \in Nat
      /\ Len(Append(s, e)) = Len(s) + 1
      /\ \A i \in 1 .. Len(s) : Append(s, e)[i] = s[i]
      /\ Append(s, e)[Len(s) + 1] = e
  OBVIOUS
<1>2. CASE e = x
  <2>1. PlacesOf(Append(s, e), x) = PlacesOf(s, x) \cup {Len(s) + 1}
    BY <1>1, <1>2 DEF PlacesOf
  <2>2. Len(s) + 1 \notin PlacesOf(s, x)
    BY <1>1 DEF PlacesOf
  <2>. QED  BY <1>2, <2>1, <2>2, PlacesFinite, FS_AddElement
<1>3. CASE e # x
  <2>1. PlacesOf(Append(s, e), x) = PlacesOf(s, x)
    BY <1>1, <1>3 DEF PlacesOf
  <2>. QED  BY <1>3, <2>1, PlacesFinite
<1>. QED  BY <1>2, <1>3

\* A receive takes away the place of the element that is received.
LEMMA CountTail ==
    ASSUME NEW S, NEW s \in Seq(S), s # <<>>, NEW x
    PROVE  Cardinality(PlacesOf(Tail(s), x))
             = Cardinality(PlacesOf(s, x)) - (IF Head(s) = x THEN 1 ELSE 0)
<1>. DEFINE P == PlacesOf(s, x) \ {1}
            Q == PlacesOf(Tail(s), x)
            f == [i \in P |-> i - 1]
<1>1. /\ Len(s) \in Nat \ {0}
      /\ Len(Tail(s)) = Len(s) - 1
      /\ \A i \in 1 .. Len(s) - 1 : Tail(s)[i] = s[i + 1]
      /\ Head(s) = s[1]
  OBVIOUS
<1>2. f \in Bijection(P, Q)
  <2>1. f \in [P -> Q]
    BY <1>1 DEF PlacesOf
  <2>2. \A i, j \in P : f[i] = f[j] => i = j
    BY <1>1 DEF PlacesOf
  <2>3. \A j \in Q : \E i \in P : f[i] = j
    <3>. TAKE j \in Q
    <3>1. j + 1 \in P
      BY <1>1 DEF PlacesOf
    <3>2. f[j + 1] = j
      BY <1>1, <3>1 DEF PlacesOf
    <3>. QED  BY <3>1, <3>2
  <2>. QED  BY <2>1, <2>2, <2>3, Fun_IsBij
<1>. HIDE DEF f
<1>3. /\ IsFiniteSet(PlacesOf(s, x))
      /\ Cardinality(PlacesOf(s, x)) \in Nat
  BY PlacesFinite
<1>4. /\ IsFiniteSet(P)
      /\ Cardinality(P) = Cardinality(PlacesOf(s, x)) - (IF Head(s) = x THEN 1 ELSE 0)
  <2>1. 1 \in PlacesOf(s, x) <=> Head(s) = x
    BY <1>1 DEF PlacesOf
  <2>. QED  BY <1>3, <2>1, FS_RemoveElement
<1>. HIDE DEF P, Q
<1>5. Cardinality(Q) = Cardinality(P)
  BY <1>2, <1>4, FS_Bijection DEF ExistsBijection
<1>. QED  BY <1>4, <1>5 DEF Q

\* Several equal elements that are sent at once add as many places.
LEMMA CountConcatEqual ==
    ASSUME NEW S, NEW s \in Seq(S), NEW e \in S, NEW n \in Nat, NEW x
    PROVE  Cardinality(PlacesOf(s \o [i \in 1 .. n |-> e], x))
             = Cardinality(PlacesOf(s, x)) + (IF e = x THEN n ELSE 0)
<1>. DEFINE t == s \o [i \in 1 .. n |-> e]
            new == Len(s) + 1 .. Len(s) + n
<1>1. /\ Len(s) \in Nat
      /\ [i \in 1 .. n |-> e] \in Seq(S)
      /\ Len([i \in 1 .. n |-> e]) = n
  OBVIOUS
<1>2. /\ Len(t) = Len(s) + n
      /\ \A i \in 1 .. Len(s) + n : t[i] = IF i <= Len(s) THEN s[i] ELSE e
  BY <1>1
<1>. HIDE DEF t
<1>3. CASE e = x
  <2>1. PlacesOf(t, x) = PlacesOf(s, x) \cup new
    BY <1>1, <1>2, <1>3 DEF PlacesOf
  <2>2. PlacesOf(s, x) \cap new = {}
    BY <1>1 DEF PlacesOf
  <2>3. IsFiniteSet(new) /\ Cardinality(new) = n
    <3>1. Len(s) + 1 \in Int /\ Len(s) + n \in Int
      BY <1>1
    <3>2. /\ IsFiniteSet(new)
          /\ Cardinality(new) = IF Len(s) + 1 > Len(s) + n THEN 0
                                ELSE (Len(s) + n) - (Len(s) + 1) + 1
      BY <3>1, FS_Interval
    <3>. QED  BY <1>1, <3>2
  <2>. HIDE DEF new
  <2>4. Cardinality(PlacesOf(t, x))
          = Cardinality(PlacesOf(s, x)) + Cardinality(new) - Cardinality({})
    BY <2>1, <2>2, <2>3, PlacesFinite, FS_Union
  <2>. QED  BY <1>3, <2>3, <2>4, PlacesFinite, FS_EmptySet DEF t
<1>4. CASE e # x
  <2>1. PlacesOf(t, x) = PlacesOf(s, x)
    BY <1>1, <1>2, <1>4 DEF PlacesOf
  <2>. QED  BY <1>4, <2>1, PlacesFinite DEF t
<1>. QED  BY <1>3, <1>4
=====

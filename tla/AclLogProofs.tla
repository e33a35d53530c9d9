---------------------------- MODULE AclLogProofs ----------------------------
(***************************************************************************)
(* Theorems about AclLog, for any keys, sizes and bounds: the types, the   *)
(* order in which LoadAcl replays the log, and that no value which reached *)
(* a file is lost but through the windows named by `exposed`.              *)
(***************************************************************************)
EXTENDS AclLog, FiniteSetTheorems, TLAPS

Folds == INSTANCE SequenceLemmas WITH Op <- Merge

----------------------------------------------------------------------------
(* The inductive invariant. *)

Written == OnDisk \cup commands

\* The merge's map holds one command of a key.
OnePerKey(cmds) == \A c, d \in cmds : c.key = d.key => c = d
MergeMap == IsFiniteSet(commands) /\ OnePerKey(commands)

\* Commands grow older from the clock over the channel to the files.
ChannelAges ==
    /\ \A i, j \in 1 .. Len(chan) : i < j => chan[i].ts < chan[j].ts
    /\ \A i \in 1 .. Len(chan) : chan[i].ts < nextTs
    /\ \A c \in Written : c.ts < nextTs /\ \A i \in 1 .. Len(chan) : c.ts < chan[i].ts

\* The command of the writer is younger than what is written and older than the channel.
WriterAge ==
    wpc # "idle" => /\ wcmd.ts < nextTs
                    /\ \A i \in 1 .. Len(chan) : wcmd.ts < chan[i].ts
                    /\ \A c \in Written : c.ts < wcmd.ts

Ordered(s) == \A i, j \in 1 .. Len(s) : i < j /\ s[i].key = s[j].key => s[i].ts < s[j].ts
FilesOrdered == \A n \in Names : Ordered(files[n].lines)

OrderInv == TypeOK /\ MergeMap /\ ChannelAges /\ WriterAge /\ FilesOrdered

\* The last command of a key is the youngest of those written.
LatestYoungest ==
    /\ \A k \in Keys : latest[k] # NoCmd => latest[k].key = k
    /\ \A c \in Written : c = latest[c.key] \/ c.ts < latest[c.key].ts

\* A DEL is about a key that is recorded as deleted, wherever it is.
DeletesKnown ==
    \A c \in Written \cup ToSet(chan) \cup {wcmd} : c.type = "DEL" => c.key \in deleted

\* No two names lead to one file, and what the writer has opened is the current file
\* or, after a merge has replaced it, has no name.
InodesDistinct ==
    /\ \A m, n \in Names : m # n /\ Exists(m) => files[m].ino # files[n].ino
    /\ \A n \in Names : ~Exists(n) => files[n].lines = <<>>
    /\ wpc # "write" => handle = 0
    /\ wpc = "write" => handle # 0 /\ \A n \in Names \ {AclName} : files[n].ino # handle

\* Where the merge stands: the current file is read first, the merged file of an
\* earlier merge is removed last.
MergeShape ==
    /\ cpc # "read" => toRead = <<>>
    /\ cpc = "read" /\ AclName \in ToSet(toRead) => toRead = <<AclName>> \o matches
    /\ \A i \in 1 .. Len(matches) : matches[i] = MergedName => i = Len(matches)
    /\ cpc = "fill" => Exists(MergedName)
    /\ cpc = "remove" /\ ~Exists(MergedName) => matches = <<>>

Rest == Names \ {AclName, MergedName}

\* In a rotated file that the merge has not found, or has not removed.
Untouched(c) == \E n \in Rest : n \notin ToSet(matches) /\ c \in Lines(n)

\* Where a command is to be found during a merge: in two places, so that it survives
\* whether the merge goes on, fails or crashes.
Kept(c) ==
    /\ cpc \in {"idle", "stat"} => c \in OnDisk
    /\ cpc \in {"read", "fill"} => \E n \in Names \ {MergedName} : c \in Lines(n)
    /\ cpc = "read" => \/ c \in commands \/ Untouched(c)
                       \/ \E n \in ToSet(toRead) : c \in Lines(n)
    /\ cpc = "fill" => c \in commands \/ Untouched(c)
    /\ cpc = "remove" /\ Exists(MergedName) => c \in Lines(MergedName) \/ Untouched(c)
    /\ \/ cpc \in {"read", "fill", "remove"} /\ MergedName \in ToSet(matches)
       \/ cpc = "remove" /\ ~Exists(MergedName)
       => c \in Lines(AclName) \/ Untouched(c)

\* The last command of k is c, a SET that none of the windows concerns.
Concerned(k, c) ==
    k \notin deleted /\ c = latest[k] /\ c.type = "SET" /\ c \notin exposed

LatestKept == \A k \in Keys, c \in Command : Concerned(k, c) => Kept(c)

KeepInv == /\ OrderInv /\ LatestYoungest /\ DeletesKnown
           /\ InodesDistinct /\ MergeShape /\ LatestKept

----------------------------------------------------------------------------
(* Names, inodes and sequences of a set. *)

LEMMA NameFacts ==
    ASSUME sec \in 0 .. MaxSec
    PROVE  /\ AclName \in Names /\ MergedName \in Names /\ AclName # MergedName
           /\ Rotated(sec) \in Rest
<1>1. AclName # MergedName
  BY DEF AclName, MergedName, Acl, Merged
<1>2. Rotated(sec) \in Names
  BY DEF Names
<1>3. Rotated(sec) # AclName /\ Rotated(sec) # MergedName
  BY DEF Rotated, AclName, MergedName
<1>. QED BY <1>1, <1>2, <1>3 DEF Names, AclName, MergedName, Rest

LEMMA NamesFinite == IsFiniteSet(Names)
<1>. DEFINE R == {Rotated(s) : s \in 0 .. MaxSec}
            f == [s \in 0 .. MaxSec |-> Rotated(s)]
            A == {<<n>> : n \in {Acl, Merged}}
<1>1. IsFiniteSet(0 .. MaxSec)
  BY FS_Interval, BoundsAssumption
<1>2. f \in Surjection(0 .. MaxSec, R)
  BY DEF Surjection
<1>3. IsFiniteSet(R)
  BY <1>1, <1>2, FS_Surjection
<1>4. A = {<<Acl>>, <<Merged>>}
  OBVIOUS
<1>5. IsFiniteSet(A)
  <2>1. IsFiniteSet({<<Acl>>})
    BY FS_Singleton
  <2>2. IsFiniteSet({<<Acl>>} \cup {<<Merged>>})
    BY <2>1, FS_AddElement
  <2>3. A = {<<Acl>>} \cup {<<Merged>>}
    BY <1>4
  <2>. QED BY <2>2, <2>3
<1>. QED BY <1>3, <1>5, FS_Union DEF Names

\* There are more numbers to choose from than names and handles.
LEMMA FreshInoIsFresh ==
    ASSUME TypeOK
    PROVE  /\ FreshIno \in Nat \ {0} /\ FreshIno # handle
           /\ \A n \in Names : files[n].ino # FreshIno
<1>. DEFINE f == [n \in Names |-> files[n].ino]
            T == {files[n].ino : n \in Names}
            U == T \cup {handle}
            N == Cardinality(Names)
<1>1. f \in Surjection(Names, T)
  BY DEF Surjection
<1>2. IsFiniteSet(T) /\ Cardinality(T) <= N
  BY <1>1, NamesFinite, FS_Surjection
<1>3. IsFiniteSet(U) /\ Cardinality(U) <= Cardinality(T) + 1
  BY <1>2, FS_AddElement, FS_CardinalityType, SMTT(40)
<1>4. N \in Nat /\ Cardinality(T) \in Nat /\ Cardinality(U) \in Nat
  BY <1>2, <1>3, NamesFinite, FS_CardinalityType
<1>5. Cardinality(1 .. N + 2) = N + 2
  BY <1>4, FS_Interval
<1>6. ~(1 .. N + 2 \subseteq U)
  <2>1. SUFFICES ASSUME 1 .. N + 2 \subseteq U PROVE FALSE
    OBVIOUS
  <2>2. Cardinality(1 .. N + 2) <= Cardinality(U)
    BY <1>3, <2>1, FS_Subset
  <2>. QED BY <1>2, <1>3, <1>4, <1>5, <2>2
<1>7. \E i \in 1 .. N + 2 : i # handle /\ \A n \in Names : files[n].ino # i
  BY <1>6
<1>. HIDE DEF T, U, f
<1>8. FreshIno \in 1 .. N + 2 /\ FreshIno # handle /\ \A n \in Names : files[n].ino # FreshIno
  BY <1>7 DEF FreshIno
<1>. QED BY <1>4, <1>8

\* SetToSeqs gives every element one place.
LEMMA SetToSeqsFacts ==
    ASSUME NEW S, IsFiniteSet(S), NEW s \in SetToSeqs(S)
    PROVE  /\ s \in Seq(S) /\ ToSet(s) = S
           /\ \A i, j \in 1 .. Len(s) : i # j => s[i] # s[j]
<1>. DEFINE D == 1 .. Cardinality(S)
<1>1. s \in [D -> S] /\ \A i, j \in D : i # j => s[i] # s[j]
  BY DEF SetToSeqs
<1>2. Cardinality(S) \in Nat
  BY FS_CardinalityType
<1>3. s \in Seq(S) /\ Len(s) = Cardinality(S) /\ DOMAIN s = D
  BY <1>1, <1>2
<1>4. s \in Injection(D, S)
  BY <1>1 DEF Injection, IsInjective
<1>5. Cardinality(D) = Cardinality(S)
  BY <1>2, FS_Interval
<1>6. s \in Surjection(D, S)
  BY <1>4, <1>5, FS_Injection
<1>7. ToSet(s) = S
  BY <1>3, <1>6 DEF Surjection, ToSet
<1>. QED BY <1>1, <1>3, <1>7

LEMMA ToSetAppend ==
    ASSUME NEW S, NEW s \in Seq(S), NEW e
    PROVE  ToSet(Append(s, e)) = ToSet(s) \cup {e}
<1>. DEFINE a == Append(s, e)
<1>1. DOMAIN a = 1 .. Len(s) + 1 /\ DOMAIN s = 1 .. Len(s) /\ Len(s) \in Nat
  OBVIOUS
<1>2. \A i \in 1 .. Len(s) : a[i] = s[i]
  OBVIOUS
<1>3. a[Len(s) + 1] = e
  OBVIOUS
<1>. HIDE DEF a
<1>4. \A i \in 1 .. Len(s) + 1 : i \in 1 .. Len(s) \/ i = Len(s) + 1
  BY <1>1
<1>5. ToSet(a) = ToSet(s) \cup {e}
  BY <1>1, <1>2, <1>3, <1>4 DEF ToSet
<1>. QED BY <1>5 DEF a

----------------------------------------------------------------------------
(* The merge strategy, and what the loop over the lines of a file makes of it. *)

LEMMA SameFold ==
    ASSUME NEW cmds, NEW lines
    PROVE  FoldLeft(Merge, cmds, lines) = Folds!FoldLeft(Merge, cmds, lines)
BY DEF FoldLeft, Folds!FoldLeft, MapThenFoldSet, Folds!MapThenFoldSet, Max, Folds!Max

\* The map stays finite, with one command of a key, and has nothing but its commands
\* and those of the file.
LEMMA FoldOfMerge ==
    ASSUME NEW cmds, IsFiniteSet(cmds), OnePerKey(cmds), NEW S, NEW lines \in Seq(S)
    PROVE  LET r == FoldLeft(Merge, cmds, lines)
           IN  /\ r \subseteq cmds \cup ToSet(lines)
               /\ IsFiniteSet(r) /\ OnePerKey(r)
<1>. DEFINE Good == {x \in SUBSET (cmds \cup ToSet(lines)) : IsFiniteSet(x) /\ OnePerKey(x)}
            G == [n \in 0 .. Len(lines) |-> Good]
<1>1. cmds \in G[0]
  OBVIOUS
<1>2. ASSUME NEW n \in 1 .. Len(lines), NEW x \in G[n - 1]
      PROVE  Merge(x, lines[n]) \in G[n]
  <2>1. x \in Good /\ G[n] = Good
    <3>. HIDE DEF Good
    <3>1. n - 1 \in 0 .. Len(lines) /\ n \in 0 .. Len(lines)
      OBVIOUS
    <3>. QED BY <1>2, <3>1
  <2>. DEFINE c == lines[n]
              others == {d \in x : d.key # c.key}
  <2>2. c \in ToSet(lines)
    BY DEF ToSet
  <2>. HIDE DEF c
  <2>3. others \cup {c} \in Good
    <3>1. IsFiniteSet(others \cup {c})
      BY <2>1, FS_Subset, FS_AddElement
    <3>2. OnePerKey(others \cup {c})
      BY <2>1 DEF OnePerKey
    <3>. QED BY <2>1, <2>2, <3>1, <3>2
  <2>4. Merge(x, c) \in {others \cup {c}, x}
    BY DEF Merge
  <2>. HIDE DEF Good
  <2>. QED BY <2>1, <2>3, <2>4, SMTT(40) DEF c
<1>. HIDE DEF G
<1>3. Folds!FoldLeft(Merge, cmds, lines) \in G[Len(lines)]
  BY <1>1, <1>2, Folds!FoldLeftInvariant
<1>4. FoldLeft(Merge, cmds, lines) \in Good
  BY <1>3, SameFold DEF G
<1>. QED BY <1>4

\* The youngest command of a key that no DEL concerns is never replaced.
LEMMA FoldKeepsYoungest ==
    ASSUME NEW cmds, NEW S, NEW lines \in Seq(S), NEW c \in cmds \cup ToSet(lines),
           c.type # "DEL", c.ts \in Nat,
           \A d \in cmds \cup ToSet(lines) :
               d.key = c.key => d.ts \in Nat /\ d.type # "DEL" /\ (d = c \/ d.ts < c.ts)
    PROVE  c \in FoldLeft(Merge, cmds, lines)
<1>. DEFINE All == cmds \cup ToSet(lines)
            Seen(n) == c \in cmds \/ \E i \in 1 .. n : lines[i] = c
            G == [n \in 0 .. Len(lines) |-> {x \in SUBSET All : Seen(n) => c \in x}]
<1>1. cmds \in G[0]
  OBVIOUS
<1>2. ASSUME NEW n \in 1 .. Len(lines), NEW x \in G[n - 1]
      PROVE  Merge(x, lines[n]) \in G[n]
  <2>1. x \in SUBSET All /\ (Seen(n - 1) => c \in x)
    OBVIOUS
  <2>. DEFINE l == lines[n]
              same == {d \in x : d.key = l.key}
              others == {d \in x : d.key # l.key}
  <2>2. l \in All
    BY DEF ToSet
  <2>3. Seen(n) => Seen(n - 1) \/ l = c
    OBVIOUS
  <2>. HIDE DEF l, All, Seen
  <2>4. Merge(x, l) \in SUBSET All
    BY <2>1, <2>2 DEF Merge
  <2>5. ASSUME l = c PROVE c \in Merge(x, l)
    <3>1. CASE c \in x
      BY <2>5, <3>1 DEF Merge
    <3>2. CASE c \notin x
      <4>1. \A d \in same : d.type # "DEL" /\ l.ts > d.ts
        BY <2>1, <2>5, <3>2 DEF All
      <4>. QED BY <2>5, <4>1 DEF Merge
    <3>. QED BY <3>1, <3>2
  <2>6. ASSUME l # c, c \in x PROVE c \in Merge(x, l)
    <3>1. CASE l.key = c.key
      <4>1. l.type # "DEL" /\ ~(l.ts > c.ts) /\ c \in same
        BY <2>2, <2>6, <3>1 DEF All
      <4>. QED BY <2>6, <4>1 DEF Merge
    <3>2. CASE l.key # c.key
      BY <2>6, <3>2 DEF Merge
    <3>. QED BY <3>1, <3>2
  <2>7. Seen(n) => c \in Merge(x, l)
    BY <2>1, <2>3, <2>5, <2>6
  <2>8. G[n] = {y \in SUBSET All : Seen(n) => c \in y}
    OBVIOUS
  <2>. HIDE DEF G
  <2>. QED BY <2>4, <2>7, <2>8 DEF l
<1>3. Seen(Len(lines))
  BY DEF ToSet
<1>. HIDE DEF G, Seen
<1>4. Folds!FoldLeft(Merge, cmds, lines) \in G[Len(lines)]
  BY <1>1, <1>2, Folds!FoldLeftInvariant
<1>. QED BY <1>3, <1>4, SameFold DEF G
----------------------------------------------------------------------------
(* Types, and the merge's map. *)

LEMMA LinesTyped == ASSUME TypeOK, NEW n \in Names PROVE Lines(n) \subseteq Command
BY DEF TypeOK, Lines, ToSet

LEMMA TypeInit == Init => TypeOK /\ MergeMap
<1>. SUFFICES ASSUME Init PROVE TypeOK /\ MergeMap
  OBVIOUS
<1>. USE DEF Init
<1>1. files \in [Names -> [ino : Nat, lines : Seq(Command)]]
  BY DEF NoFile
<1>2. TypeOK
  BY <1>1, BoundsAssumption, SizesAssumption DEF TypeOK
<1>3. MergeMap
  BY FS_EmptySet DEF MergeMap, OnePerKey
<1>. QED BY <1>2, <1>3

LEMMA TypeNext ==
    ASSUME TypeOK, MergeMap, [Next]_vars
    PROVE  TypeOK' /\ MergeMap'
<1>. USE DEF writer, compactor, env
<1>n. AclName \in Names /\ MergedName \in Names /\ Rotated(sec) \in Names
  BY NameFacts DEF TypeOK, Rest
<1>f. NoFile \in [ino : Nat, lines : Seq(Command)]
  BY DEF NoFile
<1>1. ASSUME NEW k \in Keys, NEW type \in {"SET", "DEL"}, Log(k, type)
      PROVE  TypeOK' /\ MergeMap'
  <2>1. [ts |-> nextTs, type |-> type, key |-> k] \in Command
    BY DEF TypeOK, Command
  <2>2. chan' \in Seq(Command) /\ Len(chan') <= ChanCap
    BY <1>1, <2>1, SizesAssumption DEF Log, TypeOK
  <2>3. nextTs' \in 1 .. MaxCmds + 1 /\ deleted' \subseteq Keys
    BY <1>1, BoundsAssumption DEF Log, TypeOK
  <2>. QED BY <1>1, <2>2, <2>3 DEF Log, TypeOK, MergeMap
<1>2. ASSUME Take PROVE TypeOK' /\ MergeMap'
  <2>1. chan' \in Seq(Command) /\ Len(chan') <= ChanCap /\ wcmd' \in Command
    BY <1>2, SizesAssumption DEF Take, TypeOK
  <2>. QED BY <1>2, <2>1 DEF Take, TypeOK, MergeMap
<1>3. ASSUME Rotate PROVE TypeOK' /\ MergeMap'
  <2>1. Lines(Rotated(sec)) \subseteq Command /\ Lines(AclName) \subseteq Command
    BY <1>n, LinesTyped
  <2>2. exposed' \subseteq Command
    BY <1>3, <2>1 DEF Rotate, TypeOK
  <2>3. files' \in [Names -> [ino : Nat, lines : Seq(Command)]]
    BY <1>3, <1>n, <1>f DEF Rotate, TypeOK
  <2>. QED BY <1>3, <2>2, <2>3 DEF Rotate, TypeOK, MergeMap
<1>4. ASSUME Open PROVE TypeOK' /\ MergeMap'
  <2>1. FreshIno \in Nat
    BY FreshInoIsFresh
  <2>2. files' \in [Names -> [ino : Nat, lines : Seq(Command)]] /\ handle' \in Nat
    <3>1. CASE Exists(AclName)
      BY <1>4, <1>n, <3>1 DEF Open, TypeOK
    <3>2. CASE ~Exists(AclName)
      <4>1. [ino |-> FreshIno, lines |-> <<>>] \in [ino : Nat, lines : Seq(Command)]
        BY <2>1
      <4>. QED BY <1>4, <1>n, <2>1, <3>2, <4>1 DEF Open, TypeOK
    <3>. QED BY <3>1, <3>2
  <2>. QED BY <1>4, <2>2 DEF Open, TypeOK, MergeMap
<1>5. ASSUME Write PROVE TypeOK' /\ MergeMap'
  <2>0. wcmd \in Command
    BY <1>5 DEF Write, TypeOK
  <2>1. \A n \in Names : [files[n] EXCEPT !.lines = Append(@, wcmd)] \in [ino : Nat, lines : Seq(Command)]
    <3>. TAKE n \in Names
    <3>1. files[n] \in [ino : Nat, lines : Seq(Command)] /\ Append(files[n].lines, wcmd) \in Seq(Command)
      BY <2>0 DEF TypeOK
    <3>. QED BY <3>1
  <2>2. files' \in [Names -> [ino : Nat, lines : Seq(Command)]]
    BY <1>5, <2>1 DEF Write, TypeOK
  <2>3. latest' \in [Keys -> Command \cup {NoCmd}] /\ exposed' \subseteq Command
    BY <1>5, <2>0 DEF Write, TypeOK
  <2>4. size' \in Nat /\ wcmd' = NoCmd /\ handle' = 0 /\ wpc' = "idle"
    BY <1>5 DEF Write, TypeOK
  <2>8. commands' = commands
    BY <1>5 DEF Write
  <2>9. MergeMap'
    BY <2>8 DEF MergeMap
  <2>10. UNCHANGED <<chan, nextTs, cpc, matches, toRead, sec, crashes, fails, deleted>>
    BY <1>5 DEF Write
  <2>. QED BY <2>2, <2>3, <2>4, <2>8, <2>9, <2>10 DEF TypeOK
<1>6. ASSUME Glob PROVE TypeOK' /\ MergeMap'
  <2>1. PICK s \in SetToSeqs(Found) : matches' = s /\ toRead' = <<AclName>> \o s
    BY <1>6 DEF Glob
  <2>2. IsFiniteSet(Found)
    BY NamesFinite, FS_Subset DEF Found
  <2>3. s \in Seq(Names \ {AclName})
    BY <2>2, SetToSeqsFacts DEF Found
  <2>4. toRead' \in Seq(Names)
    BY <1>n, <2>1, <2>3
  <2>5. exposed' \subseteq Command
    <3>1. \A n \in Found : Lines(n) \subseteq Command
      BY LinesTyped DEF Found
    <3>. QED BY <1>6, <3>1 DEF Glob, TypeOK
  <2>6. MergeMap'
    BY <1>6, FS_EmptySet DEF Glob, MergeMap, OnePerKey
  <2>. QED BY <1>6, <2>1, <2>3, <2>4, <2>5, <2>6 DEF Glob, TypeOK
<1>7. ASSUME Read PROVE TypeOK' /\ MergeMap'
  <2>1. Head(toRead) \in Names /\ toRead' \in Seq(Names)
    BY <1>7 DEF Read, TypeOK
  <2>2. files[Head(toRead)].lines \in Seq(Command)
    BY <2>1 DEF TypeOK
  <2>3. commands' \subseteq commands \cup Lines(Head(toRead)) /\ MergeMap'
    BY <1>7, <2>2, FoldOfMerge DEF Read, MergeMap, Lines
  <2>4. commands' \subseteq Command
    BY <2>1, <2>3, LinesTyped DEF TypeOK
  <2>. QED BY <1>7, <2>1, <2>3, <2>4 DEF Read, TypeOK
<1>8. ASSUME CreateMerged PROVE TypeOK' /\ MergeMap'
  <2>1. FreshIno \in Nat
    BY FreshInoIsFresh
  <2>2. files' \in [Names -> [ino : Nat, lines : Seq(Command)]]
    BY <1>8, <1>n, <2>1 DEF CreateMerged, TypeOK
  <2>. QED BY <1>8, <2>2 DEF CreateMerged, TypeOK, MergeMap
<1>9. ASSUME FillMerged PROVE TypeOK' /\ MergeMap'
  <2>1. PICK s \in SetToSeqs(commands) : files' = [files EXCEPT ![MergedName].lines = s]
    BY <1>9 DEF FillMerged
  <2>2. s \in Seq(Command)
    BY SetToSeqsFacts DEF MergeMap, TypeOK
  <2>3. files' \in [Names -> [ino : Nat, lines : Seq(Command)]]
    BY <1>n, <2>1, <2>2 DEF TypeOK
  <2>. QED BY <1>9, <2>3, FS_EmptySet DEF FillMerged, TypeOK, MergeMap, OnePerKey
<1>10. ASSUME FillFails PROVE TypeOK' /\ MergeMap'
  <2>1. PICK part \in SUBSET commands : \E s \in SetToSeqs(part) :
            files' = [files EXCEPT ![MergedName].lines = s]
    BY <1>10 DEF FillFails
  <2>. PICK s \in SetToSeqs(part) : files' = [files EXCEPT ![MergedName].lines = s]
    BY <2>1
  <2>2. s \in Seq(Command)
    <3>1. IsFiniteSet(part)
      BY FS_Subset DEF MergeMap
    <3>2. s \in Seq(part)
      BY <3>1, SetToSeqsFacts
    <3>. QED BY <3>2 DEF TypeOK
  <2>3. files' \in [Names -> [ino : Nat, lines : Seq(Command)]]
    BY <1>n, <2>1, <2>2 DEF TypeOK
  <2>4. MergeMap'
    BY <1>10, FS_EmptySet DEF FillFails, MergeMap, OnePerKey
  <2>5. fails' \in 0 .. MaxFails /\ matches' \in Seq(Names \ {AclName}) /\ commands' = {}
    BY <1>10, BoundsAssumption, SMTT(40) DEF FillFails, CanFail, TypeOK
  <2>. QED BY <1>10, <2>3, <2>4, <2>5 DEF FillFails, TypeOK
<1>11. ASSUME RemoveOne PROVE TypeOK' /\ MergeMap'
  <2>1. files' \in [Names -> [ino : Nat, lines : Seq(Command)]]
    BY <1>11, <1>f DEF RemoveOne, TypeOK
  <2>2. matches' \in Seq(Names \ {AclName})
    BY <1>11 DEF RemoveOne, TypeOK
  <2>8. commands' = commands
    BY <1>11 DEF RemoveOne
  <2>9. MergeMap'
    BY <2>8 DEF MergeMap
  <2>. QED BY <1>11, <2>1, <2>2, <2>9, SMTT(40) DEF RemoveOne, TypeOK
<1>12. ASSUME RemoveFails PROVE TypeOK' /\ MergeMap'
  BY <1>12, BoundsAssumption, SMTT(40) DEF RemoveFails, CanFail, TypeOK, MergeMap
<1>13. ASSUME RenameMerged PROVE TypeOK' /\ MergeMap'
  <2>1. files' \in [Names -> [ino : Nat, lines : Seq(Command)]]
    BY <1>13, <1>n, <1>f DEF RenameMerged, TypeOK
  <2>. QED BY <1>13, <2>1, SMTT(40) DEF RenameMerged, TypeOK, MergeMap
<1>14. ASSUME Stat PROVE TypeOK' /\ MergeMap'
  BY <1>14, <1>n, SMTT(40) DEF Stat, TypeOK, MergeMap
<1>15. ASSUME ReadFails PROVE TypeOK' /\ MergeMap'
  <2>1. Head(toRead) \in Names /\ toRead' \in Seq(Names)
    BY <1>15 DEF ReadFails, TypeOK
  <2>2. Lines(Head(toRead)) \subseteq Command
    BY <2>1, LinesTyped
  <2>. QED BY <1>15, <2>1, <2>2, BoundsAssumption, SMTT(40) DEF ReadFails, CanFail, TypeOK, MergeMap
<1>16. ASSUME Crash PROVE TypeOK' /\ MergeMap'
  BY <1>16, BoundsAssumption, SizesAssumption, FS_EmptySet DEF Crash, TypeOK, MergeMap, OnePerKey
<1>17. ASSUME SecondPasses PROVE TypeOK' /\ MergeMap'
  BY <1>17, BoundsAssumption DEF SecondPasses, TypeOK, MergeMap
<1>18. ASSUME UNCHANGED vars PROVE TypeOK' /\ MergeMap'
  BY <1>18 DEF vars, TypeOK, MergeMap
<1>. QED
  BY <1>1, <1>2, <1>3, <1>4, <1>5, <1>6, <1>7, <1>8, <1>9, <1>10, <1>11, <1>12, <1>13,
     <1>14, <1>15, <1>16, <1>17, <1>18 DEF Next
THEOREM LogTypeCorrect == Spec => []TypeOK
<1>1. Init => TypeOK /\ MergeMap
  BY TypeInit
<1>2. TypeOK /\ MergeMap /\ [Next]_vars => TypeOK' /\ MergeMap'
  BY TypeNext
<1>. QED BY <1>1, <1>2, PTL DEF Spec

----------------------------------------------------------------------------
(* Where lines come from, and their order. *)

\* A step gives a name the lines of some name, none, one line more, or commands of
\* the merge's map, each once.
LEMMA LinesOfStep ==
    ASSUME TypeOK, MergeMap, [Next]_vars, NEW n \in Names
    PROVE  \/ \E m \in Names : files'[n].lines = files[m].lines
           \/ files'[n].lines = <<>>
           \/ Write /\ files'[n].lines = Append(files[n].lines, wcmd)
           \/ \E s \in Seq(commands) : /\ files'[n].lines = s
                                       /\ \A i, j \in 1 .. Len(s) : i # j => s[i] # s[j]
<1>. USE DEF writer, compactor, env
<1>. DEFINE P == \/ \E m \in Names : files'[n].lines = files[m].lines
                 \/ files'[n].lines = <<>>
                 \/ Write /\ files'[n].lines = Append(files[n].lines, wcmd)
                 \/ \E s \in Seq(commands) :
                       /\ files'[n].lines = s
                       /\ \A i, j \in 1 .. Len(s) : i # j => s[i] # s[j]
<1>n. AclName \in Names /\ MergedName \in Names /\ Rotated(sec) \in Names
  BY NameFacts DEF TypeOK, Rest
<1>t. files \in [Names -> [ino : Nat, lines : Seq(Command)]]
  BY DEF TypeOK
<1>1. CASE UNCHANGED files
  BY <1>1
<1>2. CASE Rotate
  <2>1. files'[n] \in {files[n], files[AclName], NoFile}
    <3>1. CASE Exists(AclName)
      BY <1>2, <1>n, <1>t, <3>1 DEF Rotate
    <3>2. CASE ~Exists(AclName)
      BY <1>2, <3>2 DEF Rotate
    <3>. QED BY <3>1, <3>2
  <2>. QED BY <2>1, <1>n DEF NoFile
<1>3. CASE Open
  <2>1. files'[n] = files[n] \/ files'[n].lines = <<>>
    <3>1. CASE Exists(AclName)
      BY <1>3, <3>1 DEF Open
    <3>2. CASE ~Exists(AclName)
      BY <1>3, <1>n, <1>t, <3>2 DEF Open
    <3>. QED BY <3>1, <3>2
  <2>. QED BY <2>1
<1>4. CASE Write
  BY <1>4, <1>t DEF Write
<1>5. CASE CreateMerged
  BY <1>5, <1>t DEF CreateMerged
<1>6. CASE RemoveOne
  BY <1>6, <1>t DEF RemoveOne, NoFile
<1>7. CASE RenameMerged
  <2>1. files'[n] \in {files[n], files[MergedName], NoFile}
    <3>1. CASE Exists(MergedName)
      BY <1>7, <1>n, <1>t, <3>1 DEF RenameMerged
    <3>2. CASE ~Exists(MergedName)
      BY <1>7, <3>2 DEF RenameMerged
    <3>. QED BY <3>1, <3>2
  <2>. QED BY <2>1, <1>n DEF NoFile
<1>8. ASSUME NEW part \in SUBSET commands, NEW s \in SetToSeqs(part),
             files' = [files EXCEPT ![MergedName].lines = s]
      PROVE  P
  <2>1. IsFiniteSet(part)
    BY FS_Subset DEF MergeMap
  <2>2. s \in Seq(commands) /\ \A i, j \in 1 .. Len(s) : i # j => s[i] # s[j]
    BY <2>1, SetToSeqsFacts
  <2>. QED BY <1>8, <1>t, <2>2
<1>9. CASE FillMerged
  <2>1. commands \in SUBSET commands
    OBVIOUS
  <2>2. PICK s \in SetToSeqs(commands) : files' = [files EXCEPT ![MergedName].lines = s]
    BY <1>9 DEF FillMerged
  <2>. QED BY <1>8, <2>1, <2>2
<1>10. CASE FillFails
  BY <1>8, <1>10 DEF FillFails
<1>. HIDE DEF P
<1>11. P
  <2>1. \/ UNCHANGED files
        \/ Rotate \/ Open \/ Write \/ CreateMerged \/ RemoveOne \/ RenameMerged
        \/ FillMerged \/ FillFails
    BY DEF Next, vars, Log, Take, Glob, Read, Stat, ReadFails, RemoveFails, Crash, SecondPasses
  <2>. QED BY <2>1, <1>1, <1>2, <1>3, <1>4, <1>5, <1>6, <1>7, <1>9, <1>10 DEF P
<1>. QED BY <1>11 DEF P

\* Nothing but the writer's command is new on the disk or in the merge's map.
LEMMA WrittenStep ==
    ASSUME TypeOK, MergeMap, [Next]_vars, NEW c \in Written'
    PROVE  c \in Written \/ (Write /\ c = wcmd)
<1>1. CASE c \in OnDisk'
  <2>1. PICK n \in Names : c \in ToSet(files'[n].lines)
    BY <1>1 DEF OnDisk, Lines
  <2>2. CASE \E m \in Names : files'[n].lines = files[m].lines
    BY <2>1, <2>2 DEF Written, OnDisk, Lines
  <2>3. CASE files'[n].lines = <<>>
    BY <2>1, <2>3 DEF ToSet
  <2>4. CASE Write /\ files'[n].lines = Append(files[n].lines, wcmd)
    <3>1. files[n].lines \in Seq(Command)
      BY DEF TypeOK
    <3>2. ToSet(Append(files[n].lines, wcmd)) = ToSet(files[n].lines) \cup {wcmd}
      BY <3>1, ToSetAppend
    <3>. QED BY <2>1, <2>4, <3>2 DEF Written, OnDisk, Lines
  <2>5. ASSUME NEW s \in Seq(commands), files'[n].lines = s PROVE c \in Written
    BY <2>1, <2>5 DEF Written, ToSet
  <2>. QED BY <2>2, <2>3, <2>4, <2>5, LinesOfStep
<1>2. CASE c \in commands'
  <2>. USE DEF writer, compactor, env
  <2>1. CASE Read
    <3>1. Head(toRead) \in Names
      BY <2>1 DEF Read, TypeOK
    <3>2. files[Head(toRead)].lines \in Seq(Command)
      BY <3>1 DEF TypeOK
    <3>3. commands' \subseteq commands \cup Lines(Head(toRead))
      BY <2>1, <3>2, FoldOfMerge DEF Read, MergeMap, Lines
    <3>. QED BY <1>2, <3>1, <3>3 DEF Written, OnDisk
  <2>2. CASE ~Read
    <3>1. commands' \subseteq commands
      BY <2>2 DEF Next, vars, Log, Take, Rotate, Open, Write, Glob, CreateMerged, FillMerged,
                  RemoveOne, RenameMerged, Stat, ReadFails, FillFails, RemoveFails, Crash,
                  SecondPasses
    <3>. QED BY <1>2, <3>1 DEF Written
  <2>. QED BY <2>1, <2>2
<1>. QED BY <1>1, <1>2 DEF Written
LEMMA WrittenTyped == ASSUME TypeOK PROVE Written \subseteq Command
BY LinesTyped DEF Written, OnDisk, TypeOK

LEMMA ChannelTyped ==
    ASSUME TypeOK
    PROVE  /\ nextTs \in Nat /\ chan \in Seq(Command)
           /\ \A i \in 1 .. Len(chan) : chan[i] \in Command /\ chan[i].ts \in Nat
<1>1. nextTs \in Nat /\ chan \in Seq(Command)
  BY BoundsAssumption DEF TypeOK
<1>2. \A i \in 1 .. Len(chan) : chan[i] \in Command
  BY <1>1
<1>. QED BY <1>1, <1>2 DEF Command

\* What is written after a step is older than what was in the channel before it.
LEMMA WrittenIsOld ==
    ASSUME OrderInv, [Next]_vars, NEW c \in Written'
    PROVE  /\ c.ts \in Nat /\ c.ts < nextTs
           /\ \A i \in 1 .. Len(chan) : c.ts < chan[i].ts
<1>1. c \in Written \/ (Write /\ c = wcmd)
  BY WrittenStep DEF OrderInv
<1>2. CASE c \in Written
  <2>1. c \in Command
    BY <1>2, WrittenTyped DEF OrderInv
  <2>. QED BY <1>2, <2>1 DEF OrderInv, ChannelAges, Command
<1>3. CASE Write /\ c = wcmd
  <2>1. wpc # "idle" /\ c \in Command
    BY <1>3 DEF Write, OrderInv, TypeOK
  <2>. QED BY <1>3, <2>1 DEF OrderInv, WriterAge, Command
<1>. QED BY <1>1, <1>2, <1>3

LEMMA ChannelAgesNext ==
    ASSUME OrderInv, [Next]_vars
    PROVE  ChannelAges'
<1>. USE DEF writer, compactor, env
<1>1. nextTs \in Nat /\ chan \in Seq(Command) /\ \A i \in 1 .. Len(chan) : chan[i].ts \in Nat
  BY ChannelTyped DEF OrderInv
<1>2. /\ \A i, j \in 1 .. Len(chan) : i < j => chan[i].ts < chan[j].ts
      /\ \A i \in 1 .. Len(chan) : chan[i].ts < nextTs
  BY DEF OrderInv, ChannelAges
<1>3. \A c \in Written' : /\ c.ts \in Nat /\ c.ts < nextTs
                          /\ \A i \in 1 .. Len(chan) : c.ts < chan[i].ts
  BY WrittenIsOld
<1>4. ASSUME NEW k \in Keys, NEW type \in {"SET", "DEL"}, Log(k, type)
      PROVE  ChannelAges'
  <2>. DEFINE r == [ts |-> nextTs, type |-> type, key |-> k]
  <2>1. chan' = Append(chan, r) /\ r.ts = nextTs /\ nextTs' = nextTs + 1
    BY <1>4 DEF Log
  <2>. HIDE DEF r
  <2>2. Len(chan') = Len(chan) + 1 /\ Len(chan) \in Nat
    BY <1>1, <2>1
  <2>3. \A i \in 1 .. Len(chan) : chan'[i] = chan[i]
    BY <1>1, <2>1
  <2>4. chan'[Len(chan) + 1].ts = nextTs
    BY <1>1, <2>1
  <2>5. \A i \in 1 .. Len(chan') : i \in 1 .. Len(chan) \/ i = Len(chan) + 1
    BY <2>2
  <2>6. \A i, j \in 1 .. Len(chan') : i < j => chan'[i].ts < chan'[j].ts
    BY <1>2, <2>2, <2>3, <2>4, <2>5
  <2>7. \A i \in 1 .. Len(chan') : chan'[i].ts < nextTs'
    BY <1>1, <1>2, <2>1, <2>3, <2>4, <2>5
  <2>8. \A c \in Written' : c.ts < nextTs' /\ \A i \in 1 .. Len(chan') : c.ts < chan'[i].ts
    BY <1>1, <1>3, <2>1, <2>3, <2>4, <2>5
  <2>. QED BY <2>6, <2>7, <2>8 DEF ChannelAges
<1>5. CASE Take
  <2>1. chan # <<>> /\ chan' = Tail(chan) /\ nextTs' = nextTs
    BY <1>5 DEF Take
  <2>2. Len(chan') = Len(chan) - 1 /\ \A i \in 1 .. Len(chan') : chan'[i] = chan[i + 1] /\ i + 1 \in 1 .. Len(chan)
    BY <1>1, <2>1
  <2>3. Len(chan) \in Nat
    BY <1>1
  <2>. QED BY <1>2, <1>3, <2>1, <2>2, <2>3 DEF ChannelAges
<1>6. CASE Crash
  BY <1>3, <1>6 DEF Crash, ChannelAges
<1>7. CASE UNCHANGED <<chan, nextTs>>
  BY <1>2, <1>3, <1>7 DEF ChannelAges
<1>8. \/ \E k \in Keys, type \in {"SET", "DEL"} : Log(k, type)
      \/ Take \/ Crash \/ UNCHANGED <<chan, nextTs>>
  BY DEF Next, vars, Rotate, Open, Write, Glob, Read, CreateMerged, FillMerged, RemoveOne,
         RenameMerged, Stat, ReadFails, FillFails, RemoveFails, SecondPasses
<1>. QED BY <1>4, <1>5, <1>6, <1>7, <1>8

LEMMA WriterAgeNext ==
    ASSUME OrderInv, [Next]_vars
    PROVE  WriterAge'
<1>. USE DEF writer, compactor, env
<1>1. nextTs \in Nat /\ chan \in Seq(Command) /\ \A i \in 1 .. Len(chan) : chan[i].ts \in Nat
  BY ChannelTyped DEF OrderInv
<1>2. /\ \A i, j \in 1 .. Len(chan) : i < j => chan[i].ts < chan[j].ts
      /\ \A i \in 1 .. Len(chan) : chan[i].ts < nextTs
  BY DEF OrderInv, ChannelAges
<1>3. CASE Take
  <2>1. chan # <<>> /\ chan' = Tail(chan) /\ nextTs' = nextTs /\ wcmd' = Head(chan)
    BY <1>3 DEF Take
  <2>2. /\ 1 \in 1 .. Len(chan) /\ wcmd' = chan[1]
        /\ \A i \in 1 .. Len(chan') : chan'[i] = chan[i + 1] /\ i + 1 \in 1 .. Len(chan) /\ 1 < i + 1
    BY <1>1, <2>1
  <2>3. \A c \in Written' : c.ts < wcmd'.ts
    BY <2>2, WrittenIsOld
  <2>. QED BY <1>2, <2>1, <2>2, <2>3 DEF WriterAge
<1>4. CASE Write \/ Crash
  BY <1>4 DEF Write, Crash, WriterAge
<1>5. CASE ~Write /\ wcmd' = wcmd /\ (wpc' # "idle" => wpc # "idle")
  <2>. SUFFICES ASSUME wpc' # "idle" PROVE WriterAge'
    BY DEF WriterAge
  <2>1. \A c \in Written' : c.ts < wcmd.ts
    BY <1>5, WrittenStep DEF OrderInv, WriterAge
  <2>2. wcmd.ts < nextTs /\ (\A i \in 1 .. Len(chan) : wcmd.ts < chan[i].ts) /\ wcmd.ts \in Nat
    BY <1>5 DEF OrderInv, WriterAge, TypeOK, Command
  <2>3. ASSUME NEW k \in Keys, NEW type \in {"SET", "DEL"}, Log(k, type)
        PROVE  WriterAge'
    <3>. DEFINE r == [ts |-> nextTs, type |-> type, key |-> k]
    <3>1. chan' = Append(chan, r) /\ r.ts = nextTs /\ nextTs' = nextTs + 1
      BY <2>3 DEF Log
    <3>. HIDE DEF r
    <3>2. \A i \in 1 .. Len(chan') : \/ i \in 1 .. Len(chan) /\ chan'[i] = chan[i]
                                     \/ chan'[i].ts = nextTs
      BY <1>1, <3>1
    <3>3. wcmd.ts < nextTs' /\ \A i \in 1 .. Len(chan') : wcmd.ts < chan'[i].ts
      BY <1>1, <2>2, <3>1, <3>2
    <3>. QED BY <1>5, <2>1, <3>3 DEF WriterAge
  <2>4. CASE UNCHANGED <<chan, nextTs>>
    BY <1>5, <2>1, <2>2, <2>4 DEF WriterAge
  <2>5. \/ \E k \in Keys, type \in {"SET", "DEL"} : Log(k, type)
        \/ Take \/ Crash \/ UNCHANGED <<chan, nextTs>>
    BY DEF Next, vars, Rotate, Open, Write, Glob, Read, CreateMerged, FillMerged, RemoveOne,
           RenameMerged, Stat, ReadFails, FillFails, RemoveFails, SecondPasses
  <2>. QED BY <1>3, <1>4, <2>3, <2>4, <2>5
<1>6. \/ Take \/ Write \/ Crash
      \/ ~Write /\ wcmd' = wcmd /\ (wpc' # "idle" => wpc # "idle")
  BY DEF Next, vars, Log, Rotate, Open, Glob, Read, CreateMerged, FillMerged, RemoveOne,
         RenameMerged, Stat, ReadFails, FillFails, RemoveFails, SecondPasses
<1>. QED BY <1>3, <1>4, <1>5, <1>6

LEMMA FilesOrderedNext ==
    ASSUME OrderInv, [Next]_vars
    PROVE  FilesOrdered'
<1>. SUFFICES ASSUME NEW n \in Names PROVE Ordered(files'[n].lines)
  BY DEF FilesOrdered
<1>1. TypeOK /\ MergeMap /\ FilesOrdered
  BY DEF OrderInv
<1>2. CASE \E m \in Names : files'[n].lines = files[m].lines
  BY <1>1, <1>2 DEF FilesOrdered
<1>3. CASE files'[n].lines = <<>>
  BY <1>3 DEF Ordered
<1>4. CASE Write /\ files'[n].lines = Append(files[n].lines, wcmd)
  <2>. DEFINE s == files[n].lines
              a == Append(s, wcmd)
  <2>1. s \in Seq(Command) /\ Ordered(s)
    BY <1>1 DEF TypeOK, FilesOrdered
  <2>2. \A i \in 1 .. Len(s) : s[i].ts < wcmd.ts
    <3>1. \A i \in 1 .. Len(s) : s[i] \in Written
      BY <2>1 DEF Written, OnDisk, Lines, ToSet
    <3>2. wpc # "idle"
      BY <1>4 DEF Write
    <3>. QED BY <3>1, <3>2 DEF OrderInv, WriterAge
  <2>. HIDE DEF s
  <2>3. /\ Len(a) = Len(s) + 1 /\ Len(s) \in Nat /\ a[Len(s) + 1] = wcmd
        /\ \A i \in 1 .. Len(s) : a[i] = s[i]
    BY <2>1
  <2>4. \A i \in 1 .. Len(a) : i \in 1 .. Len(s) \/ i = Len(s) + 1
    BY <2>3
  <2>. HIDE DEF a
  <2>5. Ordered(a)
    BY <2>1, <2>2, <2>3, <2>4 DEF Ordered
  <2>. QED BY <1>4, <2>5 DEF a, s
<1>5. ASSUME NEW s \in Seq(commands), files'[n].lines = s,
             \A i, j \in 1 .. Len(s) : i # j => s[i] # s[j]
      PROVE  Ordered(files'[n].lines)
  <2>1. \A i \in 1 .. Len(s) : s[i] \in commands
    OBVIOUS
  <2>2. \A i, j \in 1 .. Len(s) : i < j => s[i].key # s[j].key
    BY <1>1, <1>5, <2>1 DEF MergeMap, OnePerKey
  <2>. QED BY <1>5, <2>2 DEF Ordered
<1>. QED BY <1>1, <1>2, <1>3, <1>4, <1>5, LinesOfStep

LEMMA OrderInit == Init => OrderInv
<1>. SUFFICES ASSUME Init PROVE OrderInv
  OBVIOUS
<1>1. Written = {}
  BY DEF Init, Written, OnDisk, Lines, ToSet, NoFile
<1>2. ChannelAges /\ WriterAge
  BY <1>1 DEF Init, ChannelAges, WriterAge
<1>3. FilesOrdered
  BY DEF Init, FilesOrdered, Ordered, NoFile
<1>. QED BY <1>2, <1>3, TypeInit DEF OrderInv

LEMMA OrderNext == OrderInv /\ [Next]_vars => OrderInv'
<1>. SUFFICES ASSUME OrderInv, [Next]_vars PROVE OrderInv'
  OBVIOUS
<1>1. TypeOK' /\ MergeMap'
  BY TypeNext DEF OrderInv
<1>. QED BY <1>1, ChannelAgesNext, WriterAgeNext, FilesOrderedNext DEF OrderInv

\* Whatever the interleaving of writer and merge, and whichever of their steps fail or
\* are cut off by a crash, LoadAcl replays the commands of a key in their order.
THEOREM LogReplaysInOrder == Spec => []ReplayOrder
<1>1. OrderInv => ReplayOrder
  <2>. SUFFICES ASSUME OrderInv PROVE ReplayOrder
    OBVIOUS
  <2>1. AclName \in Names
    BY DEF Names, AclName
  <2>. QED BY <2>1 DEF OrderInv, FilesOrdered, Ordered, ReplayOrder
<1>. QED BY <1>1, OrderInit, OrderNext, PTL DEF Spec
----------------------------------------------------------------------------
(* Where the last SET of a key is. *)

LEMMA LatestYoungestNext ==
    ASSUME KeepInv, [Next]_vars
    PROVE  LatestYoungest'
<1>. USE DEF writer, compactor, env
<1>1. TypeOK /\ MergeMap /\ LatestYoungest /\ Written \subseteq Command
  BY WrittenTyped DEF KeepInv, OrderInv
<1>2. CASE Write
  <2>1. wcmd \in Command /\ wpc # "idle"
    BY <1>1, <1>2 DEF Write, TypeOK
  <2>2. /\ latest'[wcmd.key] = wcmd
        /\ \A k \in Keys : k # wcmd.key => latest'[k] = latest[k]
    BY <1>1, <1>2, <2>1 DEF Write, TypeOK, Command
  <2>3. \A c \in Written : c.ts < wcmd.ts /\ c.key \in Keys
    BY <1>1, <2>1 DEF KeepInv, OrderInv, WriterAge, Command
  <2>4. \A c \in Written' : c \in Written \/ c = wcmd
    BY <1>1, WrittenStep
  <2>5. \A k \in Keys : latest'[k] # NoCmd => latest'[k].key = k
    BY <1>1, <2>2 DEF LatestYoungest
  <2>6. \A c \in Written' : c = latest'[c.key] \/ c.ts < latest'[c.key].ts
    BY <1>1, <2>2, <2>3, <2>4 DEF LatestYoungest
  <2>. QED BY <2>5, <2>6 DEF LatestYoungest
<1>3. CASE ~Write
  <2>1. latest' = latest
    BY <1>3 DEF Next, vars, Log, Take, Rotate, Open, Glob, Read, CreateMerged, FillMerged,
                RemoveOne, RenameMerged, Stat, ReadFails, FillFails, RemoveFails, Crash,
                SecondPasses
  <2>2. \A c \in Written' : c \in Written
    BY <1>1, <1>3, WrittenStep
  <2>. QED BY <1>1, <2>1, <2>2 DEF LatestYoungest
<1>. QED BY <1>2, <1>3

LEMMA DeletesKnownNext ==
    ASSUME KeepInv, [Next]_vars
    PROVE  DeletesKnown'
<1>. USE DEF writer, compactor, env
<1>1. TypeOK /\ MergeMap /\ DeletesKnown
  BY DEF KeepInv, OrderInv
<1>2. chan \in Seq(Command)
  BY <1>1 DEF TypeOK
<1>3. deleted \subseteq deleted'
  BY DEF Next, vars, Log, Take, Rotate, Open, Write, Glob, Read, CreateMerged, FillMerged,
         RemoveOne, RenameMerged, Stat, ReadFails, FillFails, RemoveFails, Crash, SecondPasses
<1>4. \A c \in Written' : c.type = "DEL" => c.key \in deleted'
  BY <1>1, <1>3, WrittenStep DEF DeletesKnown
<1>5. \A c \in ToSet(chan') : c.type = "DEL" => c.key \in deleted'
  <2>1. ASSUME NEW k \in Keys, NEW type \in {"SET", "DEL"}, Log(k, type)
        PROVE  \A c \in ToSet(chan') : c.type = "DEL" => c.key \in deleted'
    <3>. DEFINE r == [ts |-> nextTs, type |-> type, key |-> k]
    <3>1. ToSet(chan') = ToSet(chan) \cup {r}
      BY <1>2, <2>1, ToSetAppend DEF Log
    <3>2. r.type = "DEL" => r.key \in deleted'
      BY <2>1 DEF Log
    <3>. QED BY <1>1, <1>3, <3>1, <3>2 DEF DeletesKnown
  <2>2. CASE Take
    <3>1. \A i \in DOMAIN chan' : chan'[i] = chan[i + 1] /\ i + 1 \in DOMAIN chan
      BY <1>2, <2>2 DEF Take
    <3>2. ToSet(chan') \subseteq ToSet(chan)
      BY <3>1 DEF ToSet
    <3>. QED BY <1>1, <1>3, <3>2 DEF DeletesKnown
  <2>3. CASE Crash
    BY <2>3 DEF Crash, ToSet
  <2>4. CASE UNCHANGED chan
    BY <1>1, <1>3, <2>4 DEF DeletesKnown
  <2>5. \/ \E k \in Keys, type \in {"SET", "DEL"} : Log(k, type)
        \/ Take \/ Crash \/ UNCHANGED chan
    BY DEF Next, vars, Rotate, Open, Write, Glob, Read, CreateMerged, FillMerged, RemoveOne,
           RenameMerged, Stat, ReadFails, FillFails, RemoveFails, SecondPasses
  <2>. QED BY <2>1, <2>2, <2>3, <2>4, <2>5
<1>6. wcmd'.type = "DEL" => wcmd'.key \in deleted'
  <2>1. CASE Take
    <3>1. wcmd' \in ToSet(chan)
      BY <1>2, <2>1 DEF Take, ToSet
    <3>. QED BY <1>1, <1>3, <3>1 DEF DeletesKnown
  <2>2. CASE wcmd' = NoCmd
    BY <2>2 DEF NoCmd
  <2>3. CASE wcmd' = wcmd
    BY <1>1, <1>3, <2>3 DEF DeletesKnown
  <2>4. Take \/ wcmd' = NoCmd \/ wcmd' = wcmd
    BY DEF Next, vars, Log, Rotate, Open, Write, Glob, Read, CreateMerged, FillMerged,
           RemoveOne, RenameMerged, Stat, ReadFails, FillFails, RemoveFails, Crash,
           SecondPasses
  <2>. QED BY <2>1, <2>2, <2>3, <2>4
<1>. QED BY <1>4, <1>5, <1>6 DEF DeletesKnown

\* A sequence is what follows an element put before it.
LEMMA TailOfFirst ==
    ASSUME NEW S, NEW s \in Seq(S), NEW x \in S
    PROVE  Tail(<<x>> \o s) = s
<1>. DEFINE t == Tail(<<x>> \o s)
<1>1. t \in Seq(S) /\ Len(t) = Len(s) /\ \A i \in 1 .. Len(s) : t[i] = s[i]
  OBVIOUS
<1>. HIDE DEF t
<1>. QED BY <1>1

LEMMA InodesDistinctNext ==
    ASSUME KeepInv, [Next]_vars
    PROVE  InodesDistinct'
<1>. USE DEF writer, compactor, env
<1>1. TypeOK /\ InodesDistinct /\ MergeShape
  BY DEF KeepInv, OrderInv
<1>n. /\ AclName \in Names /\ MergedName \in Names /\ AclName # MergedName
      /\ Rotated(sec) \in Names /\ Rotated(sec) # AclName
  BY <1>1, NameFacts DEF TypeOK, Rest
<1>t. files \in [Names -> [ino : Nat, lines : Seq(Command)]] /\ handle \in Nat
  BY <1>1 DEF TypeOK
<1>f. FreshIno \in Nat \ {0} /\ FreshIno # handle /\ \A n \in Names : files[n].ino # FreshIno
  BY <1>1, FreshInoIsFresh
<1>2. CASE Rotate
  <2>1. CASE Exists(AclName)
    <3>1. /\ files'[Rotated(sec)] = files[AclName] /\ files'[AclName] = NoFile
          /\ \A n \in Names \ {AclName, Rotated(sec)} : files'[n] = files[n]
          /\ wpc' # "write" /\ handle' = handle /\ wpc # "write"
      BY <1>2, <1>n, <1>t, <2>1 DEF Rotate
    <3>. HIDE DEF Names, Rotated
    <3>. QED BY <1>1, <1>n, <3>1 DEF InodesDistinct, Exists, NoFile
  <2>2. CASE ~Exists(AclName)
    BY <1>1, <1>2, <2>2 DEF Rotate, InodesDistinct, Exists
  <2>. QED BY <2>1, <2>2
<1>3. CASE Open
  <2>1. CASE Exists(AclName)
    BY <1>1, <1>3, <1>n, <2>1 DEF Open, InodesDistinct, Exists
  <2>2. CASE ~Exists(AclName)
    <3>1. /\ files'[AclName].ino = FreshIno /\ handle' = FreshIno /\ wpc' = "write"
          /\ \A n \in Names \ {AclName} : files'[n] = files[n]
      BY <1>3, <1>n, <1>t, <2>2 DEF Open
    <3>. QED BY <1>1, <1>f, <1>n, <3>1 DEF InodesDistinct, Exists
  <2>. QED BY <2>1, <2>2
<1>4. CASE Write
  <2>1. wpc = "write" /\ handle # 0 /\ wpc' = "idle" /\ handle' = 0
    BY <1>1, <1>4 DEF Write, InodesDistinct
  <2>2. \A n \in Names : /\ files'[n].ino = files[n].ino
                         /\ files[n].ino # handle => files'[n] = files[n]
    BY <1>4, <1>t DEF Write
  <2>. QED BY <1>1, <2>1, <2>2 DEF InodesDistinct, Exists
<1>5. CASE CreateMerged
  <2>1. /\ files'[MergedName].ino = IF Exists(MergedName) THEN files[MergedName].ino ELSE FreshIno
        /\ \A n \in Names \ {MergedName} : files'[n] = files[n]
        /\ UNCHANGED <<wpc, handle>>
    BY <1>5, <1>n, <1>t DEF CreateMerged
  <2>. QED BY <1>1, <1>f, <1>n, <2>1 DEF InodesDistinct, Exists
<1>6. ASSUME NEW s, files' = [files EXCEPT ![MergedName].lines = s], Exists(MergedName),
             UNCHANGED <<wpc, handle>>
      PROVE  InodesDistinct'
  <2>1. /\ files'[MergedName].ino = files[MergedName].ino
        /\ \A n \in Names \ {MergedName} : files'[n] = files[n]
    BY <1>6, <1>n, <1>t
  <2>. QED BY <1>1, <1>6, <1>n, <2>1 DEF InodesDistinct, Exists
<1>7. CASE FillMerged \/ FillFails
  BY <1>1, <1>6, <1>7 DEF FillMerged, FillFails, MergeShape
<1>8. CASE RemoveOne
  <2>1. Head(matches) \in Names \ {AclName} /\ UNCHANGED <<wpc, handle>>
    BY <1>1, <1>8 DEF RemoveOne, TypeOK
  <2>2. /\ files'[Head(matches)] = NoFile
        /\ \A n \in Names \ {Head(matches)} : files'[n] = files[n]
    BY <1>8, <1>t, <2>1 DEF RemoveOne
  <2>. QED BY <1>1, <2>1, <2>2 DEF InodesDistinct, Exists, NoFile
<1>9. CASE RenameMerged
  <2>1. CASE Exists(MergedName)
    <3>1. /\ files'[AclName] = files[MergedName] /\ files'[MergedName] = NoFile
          /\ \A n \in Names \ {AclName, MergedName} : files'[n] = files[n]
          /\ UNCHANGED <<wpc, handle>>
      BY <1>9, <1>n, <1>t, <2>1 DEF RenameMerged
    <3>. QED BY <1>1, <1>n, <3>1 DEF InodesDistinct, Exists, NoFile
  <2>2. CASE ~Exists(MergedName)
    BY <1>1, <1>9, <2>2 DEF RenameMerged, InodesDistinct, Exists
  <2>. QED BY <2>1, <2>2
<1>10. CASE Take \/ Crash
  BY <1>1, <1>10 DEF Take, Crash, InodesDistinct, Exists
<1>11. CASE UNCHANGED <<files, wpc, handle>>
  BY <1>1, <1>11 DEF InodesDistinct, Exists
<1>12. \/ Rotate \/ Open \/ Write \/ CreateMerged \/ FillMerged \/ FillFails \/ RemoveOne
       \/ RenameMerged \/ Take \/ Crash \/ UNCHANGED <<files, wpc, handle>>
  BY DEF Next, vars, Log, Glob, Read, Stat, ReadFails, RemoveFails, SecondPasses
<1>. QED BY <1>2, <1>3, <1>4, <1>5, <1>7, <1>8, <1>9, <1>10, <1>11, <1>12
\* What Glob finds: every existing name but the current one, the merged file last.
LEMMA GlobFinds ==
    ASSUME TypeOK, Glob
    PROVE  /\ ToSet(matches') = Found /\ ToSet(toRead') = Found \cup {AclName}
           /\ toRead' = <<AclName>> \o matches'
           /\ \A i \in 1 .. Len(matches') : matches'[i] = MergedName => i = Len(matches')
<1>1. PICK s \in SetToSeqs(Found) :
          Sorted(s) /\ matches' = s /\ toRead' = <<AclName>> \o s
  BY DEF Glob
<1>2. IsFiniteSet(Found)
  BY NamesFinite, FS_Subset DEF Found
<1>3. /\ s \in Seq(Found) /\ ToSet(s) = Found
      /\ \A i, j \in 1 .. Len(s) : i # j => s[i] # s[j]
  BY <1>2, SetToSeqsFacts
<1>4. ToSet(<<AclName>> \o s) = {AclName} \cup ToSet(s)
  <2>. DEFINE t == <<AclName>> \o s
  <2>1. Len(s) \in Nat /\ DOMAIN s = 1 .. Len(s) /\ DOMAIN t = 1 .. Len(s) + 1 /\ t[1] = AclName
    BY <1>3
  <2>2. \A i \in 1 .. Len(s) : t[i + 1] = s[i]
    BY <1>3
  <2>3. \A i \in 1 .. Len(s) + 1 : i = 1 \/ (i - 1 \in 1 .. Len(s) /\ t[i] = s[i - 1])
    BY <2>1, <2>2
  <2>. HIDE DEF t
  <2>4. ToSet(t) = {AclName} \cup ToSet(s)
    <3>1. ToSet(t) \subseteq {AclName} \cup ToSet(s)
      BY <2>1, <2>3 DEF ToSet
    <3>2. AclName \in ToSet(t)
      BY <2>1 DEF ToSet
    <3>3. \A i \in 1 .. Len(s) : i + 1 \in 1 .. Len(s) + 1
      BY <2>1
    <3>4. ToSet(s) \subseteq ToSet(t)
      BY <2>1, <2>2, <3>3 DEF ToSet
    <3>. QED BY <3>1, <3>2, <3>4
  <2>. QED BY <2>4 DEF t
<1>5. ASSUME NEW i \in 1 .. Len(s), s[i] = MergedName, i # Len(s) PROVE FALSE
  <2>1. Len(s) \in 1 .. Len(s) /\ i < Len(s) /\ DOMAIN s = 1 .. Len(s)
    BY <1>3, <1>5
  <2>2. s[Len(s)] \in Names \ {AclName} /\ s[Len(s)] # MergedName
    <3>1. s[Len(s)] \in Found
      BY <1>3, <2>1, SMTT(40)
    <3>2. s[i] # s[Len(s)]
      <4>1. \A j \in 1 .. Len(s) : i # j => s[i] # s[j]
        BY <1>3
      <4>. QED BY <1>5, <2>1, <4>1, ZenonT(60)
    <3>. QED BY <1>5, <3>1, <3>2 DEF Found
  <2>3. PICK x \in 0 .. MaxSec : s[Len(s)] = Rotated(x)
    BY <2>2 DEF Names, AclName, MergedName
  <2>4. Rank(s[Len(s)]) = x
    BY <2>2, <2>3 DEF Rank, Rotated
  <2>5. Rank(s[i]) = MaxSec + 1
    BY <1>5 DEF Rank
  <2>6. MaxSec + 1 < x
    BY <1>1, <2>1, <2>4, <2>5 DEF Sorted
  <2>. QED BY <2>6, BoundsAssumption
<1>. QED BY <1>1, <1>3, <1>4, <1>5

LEMMA MergeShapeNext ==
    ASSUME KeepInv, [Next]_vars
    PROVE  MergeShape'
<1>. USE DEF writer, compactor, env
<1>1. TypeOK /\ InodesDistinct /\ MergeShape
  BY DEF KeepInv, OrderInv
<1>n. /\ AclName \in Names /\ MergedName \in Names /\ AclName # MergedName
      /\ Rotated(sec) \in Rest
  BY <1>1, NameFacts DEF TypeOK
<1>t. /\ files \in [Names -> [ino : Nat, lines : Seq(Command)]]
      /\ matches \in Seq(Names \ {AclName}) /\ toRead \in Seq(Names)
  BY <1>1 DEF TypeOK
<1>r. ASSUME matches # <<>>, matches' = Tail(matches)
      PROVE  \A i \in 1 .. Len(matches') : matches'[i] = MergedName => i = Len(matches')
  <2>1. Len(matches') = Len(matches) - 1
        /\ \A i \in 1 .. Len(matches') : matches'[i] = matches[i + 1] /\ i + 1 \in 1 .. Len(matches)
    BY <1>t, <1>r
  <2>. QED BY <1>1, <1>t, <2>1 DEF MergeShape
<1>2. CASE Glob
  BY <1>2, <1>1, GlobFinds DEF Glob, MergeShape
<1>3. CASE Read \/ ReadFails
  <2>1. /\ cpc = "read" /\ toRead # <<>> /\ toRead' = Tail(toRead)
        /\ UNCHANGED <<cpc, matches, files>>
    BY <1>3 DEF Read, ReadFails
  <2>2. ASSUME AclName \in ToSet(toRead') PROVE FALSE
    <3>1. \A i \in 1 .. Len(toRead') : toRead'[i] = toRead[i + 1] /\ i + 1 \in 1 .. Len(toRead)
      BY <1>t, <2>1
    <3>2. AclName \in ToSet(toRead)
      BY <1>t, <2>1, <2>2, <3>1, SMTT(40) DEF ToSet
    <3>3. toRead = <<AclName>> \o matches
      BY <1>1, <2>1, <3>2 DEF MergeShape
    <3>4. toRead' = matches
      <4>1. matches \in Seq(Names) /\ toRead' = Tail(<<AclName>> \o matches)
        BY <1>t, <2>1, <3>3
      <4>. QED BY <1>n, <4>1, TailOfFirst
    <3>5. ToSet(matches) \subseteq Names \ {AclName}
      BY <1>t DEF ToSet
    <3>. QED BY <2>2, <3>4, <3>5
  <2>. QED BY <1>1, <2>1, <2>2 DEF MergeShape
<1>4. CASE CreateMerged
  <2>1. files'[MergedName].ino # 0
    BY <1>1, <1>4, <1>n, <1>t, FreshInoIsFresh DEF CreateMerged, Exists
  <2>. QED BY <1>1, <1>4, <2>1 DEF CreateMerged, MergeShape, Exists
<1>5. CASE FillMerged
  <2>1. files'[MergedName].ino = files[MergedName].ino
    BY <1>5, <1>n, <1>t DEF FillMerged
  <2>. QED BY <1>1, <1>5, <2>1 DEF FillMerged, MergeShape, Exists
<1>6. CASE FillFails
  BY <1>1, <1>6 DEF FillFails, MergeShape
<1>7. CASE RemoveFails
  <2>1. \A i \in 1 .. Len(matches') : matches'[i] = MergedName => i = Len(matches')
    BY <1>7, <1>r DEF RemoveFails
  <2>. QED BY <1>1, <1>7, <2>1 DEF RemoveFails, MergeShape, Exists
<1>8. CASE RemoveOne
  <2>1. \A i \in 1 .. Len(matches') : matches'[i] = MergedName => i = Len(matches')
    BY <1>8, <1>r DEF RemoveOne
  <2>2. /\ cpc = "remove" /\ cpc' = "remove" /\ matches # <<>> /\ matches' = Tail(matches)
        /\ toRead' = toRead
    BY <1>8 DEF RemoveOne
  <2>3. ASSUME ~Exists(MergedName)' PROVE matches' = <<>>
    <3>1. Exists(MergedName)
      BY <1>1, <2>2 DEF MergeShape
    <3>2. Head(matches) = MergedName
      BY <1>8, <1>n, <1>t, <2>3, <3>1 DEF RemoveOne, Exists
    <3>3. 1 \in 1 .. Len(matches) /\ matches[1] = MergedName
      BY <1>t, <2>2, <3>2
    <3>4. 1 = Len(matches)
      BY <1>1, <3>3 DEF MergeShape
    <3>5. Len(Tail(matches)) = 0 /\ Tail(matches) \in Seq(Names \ {AclName})
      BY <1>t, <2>2, <3>4
    <3>. QED BY <2>2, <3>5
  <2>. QED BY <1>1, <2>1, <2>2, <2>3 DEF MergeShape
<1>9. CASE RenameMerged
  BY <1>1, <1>9 DEF RenameMerged, MergeShape
<1>10. CASE Stat \/ Crash
  BY <1>1, <1>10 DEF Stat, Crash, MergeShape
<1>11. ASSUME UNCHANGED <<cpc, matches, toRead>>, Exists(MergedName)' = Exists(MergedName)
       PROVE  MergeShape'
  BY <1>1, <1>11 DEF MergeShape
<1>12. CASE Rotate
  <2>1. UNCHANGED <<cpc, matches, toRead>> /\ Exists(MergedName)' = Exists(MergedName)
    BY <1>12, <1>n, <1>t DEF Rotate, Exists, Rest
  <2>. QED BY <2>1, <1>11
<1>13. CASE Open
  <2>1. UNCHANGED <<cpc, matches, toRead>> /\ Exists(MergedName)' = Exists(MergedName)
    BY <1>13, <1>n, <1>t DEF Open, Exists
  <2>. QED BY <2>1, <1>11
<1>14. CASE Write
  <2>1. UNCHANGED <<cpc, matches, toRead>> /\ Exists(MergedName)' = Exists(MergedName)
    BY <1>14, <1>n, <1>t DEF Write, Exists
  <2>. QED BY <2>1, <1>11
<1>15. CASE UNCHANGED <<cpc, matches, toRead, files>>
  <2>1. Exists(MergedName)' = Exists(MergedName)
    BY <1>15 DEF Exists
  <2>. QED BY <1>15, <2>1, <1>11
<1>16. \/ Glob \/ Read \/ ReadFails \/ CreateMerged \/ FillMerged \/ FillFails \/ RemoveFails
       \/ RemoveOne \/ RenameMerged \/ Stat \/ Crash \/ Rotate \/ Open \/ Write
       \/ UNCHANGED <<cpc, matches, toRead, files>>
  BY DEF Next, vars, Log, Take, SecondPasses
<1>. QED
  BY <1>2, <1>3, <1>4, <1>5, <1>6, <1>7, <1>8, <1>9, <1>10, <1>12, <1>13, <1>14, <1>15, <1>16
LEMMA KeptIsOnDisk == ASSUME TypeOK, NEW c, Kept(c) PROVE c \in OnDisk
<1>1. AclName \in Names /\ MergedName \in Names
  BY NameFacts DEF TypeOK
<1>2. Untouched(c) => c \in OnDisk
  BY DEF Untouched, OnDisk, Rest
<1>3. CASE cpc = "remove"
  BY <1>1, <1>2, <1>3 DEF Kept, OnDisk
<1>. QED BY <1>3 DEF Kept, OnDisk, TypeOK

\* A step that leaves the merge where it is and takes no line from a file.
LEMMA KeptFrame ==
    ASSUME TypeOK, NEW c, Kept(c), UNCHANGED <<cpc, matches, toRead, commands>>,
           \A n \in Names : c \in Lines(n) => c \in Lines(n)',
           Exists(MergedName)' = Exists(MergedName)
    PROVE  Kept(c)'
<1>1. AclName \in Names /\ MergedName \in Names /\ ToSet(toRead) \subseteq Names
  BY NameFacts DEF TypeOK, ToSet
<1>2. Untouched(c) => Untouched(c)'
  BY DEF Untouched, Rest
<1>3. c \in OnDisk => c \in OnDisk'
  BY DEF OnDisk
<1>. QED BY <1>1, <1>2, <1>3 DEF Kept

LEMMA KeptByWrite ==
    ASSUME KeepInv, Write, NEW c, c \notin exposed', Kept(c) \/ c = wcmd
    PROVE  Kept(c)'
<1>. USE DEF compactor
<1>1. TypeOK /\ InodesDistinct /\ MergeShape
  BY DEF KeepInv, OrderInv
<1>n. AclName \in Names /\ MergedName \in Names /\ AclName # MergedName
  BY <1>1, NameFacts DEF TypeOK
<1>t. files \in [Names -> [ino : Nat, lines : Seq(Command)]]
  BY <1>1 DEF TypeOK
<1>2. \A n \in Names : files'[n].ino = files[n].ino
  BY <1>t DEF Write
<1>3. \A n \in Names : files'[n].lines = IF files[n].ino = handle THEN Append(files[n].lines, wcmd)
                                                                ELSE files[n].lines
  BY <1>t DEF Write
<1>4. \A n \in Names : Lines(n)' = IF files[n].ino = handle THEN Lines(n) \cup {wcmd} ELSE Lines(n)
  BY <1>t, <1>3, ToSetAppend, ZenonT(60) DEF Lines
<1>5. UNCHANGED <<cpc, matches, toRead, commands>> /\ Exists(MergedName)' = Exists(MergedName)
  BY <1>2, <1>n DEF Write, Exists
<1>6. CASE Kept(c)
  BY <1>1, <1>4, <1>5, <1>6, KeptFrame
<1>7. CASE c = wcmd
  <2>1. ~(cpc # "idle" /\ AclName \notin ToSet(toRead)) /\ \E n \in Names : files[n].ino = handle
    BY <1>7 DEF Write
  <2>2. files[AclName].ino = handle
    BY <1>1, <2>1 DEF InodesDistinct, Write
  <2>3. c \in Lines(AclName)'
    BY <1>4, <1>7, <1>n, <2>2
  <2>4. cpc = "idle" \/ (cpc = "read" /\ AclName \in ToSet(toRead))
    BY <1>1, <2>1 DEF MergeShape, ToSet
  <2>5. c \in OnDisk'
    BY <1>n, <2>3 DEF OnDisk
  <2>. QED BY <1>5, <1>n, <2>3, <2>4, <2>5 DEF Kept
<1>. QED BY <1>6, <1>7

LEMMA KeptByRotate ==
    ASSUME KeepInv, Rotate, NEW c, c \notin exposed', Kept(c)
    PROVE  Kept(c)'
<1>. USE DEF compactor
<1>1. TypeOK /\ MergeShape
  BY DEF KeepInv, OrderInv
<1>n. /\ AclName \in Names /\ MergedName \in Names /\ AclName # MergedName
      /\ Rotated(sec) \in Rest
  BY <1>1, NameFacts DEF TypeOK
<1>. PICK r \in Rest : r = Rotated(sec)
  BY <1>n
<1>r. r \in Names /\ r # AclName /\ r # MergedName
  BY DEF Rest
<1>t. files \in [Names -> [ino : Nat, lines : Seq(Command)]]
  BY <1>1 DEF TypeOK
<1>u. UNCHANGED <<cpc, matches, toRead, commands>>
  BY DEF Rotate
<1>2. CASE ~Exists(AclName)
  <2>1. UNCHANGED files
    BY <1>2 DEF Rotate
  <2>. QED BY <1>1, <1>u, <2>1, KeptFrame DEF Lines, Exists
<1>3. CASE Exists(AclName)
  <2>1. /\ files'[r] = files[AclName]
        /\ \A n \in Names \ {AclName, r} : files'[n] = files[n]
    BY <1>3, <1>n, <1>r, <1>t DEF Rotate
  <2>2. /\ c \notin Lines(r)
        /\ LosesRotated(r) => c \notin Lines(AclName)
    BY <1>3 DEF Rotate
  <2>3. \A n \in Names \ {AclName} : c \in Lines(n) => n # r /\ c \in Lines(n)'
    BY <2>1, <2>2 DEF Lines
  <2>4. c \in Lines(AclName) => c \in Lines(r)'
    BY <2>1 DEF Lines
  <2>5. Untouched(c) => Untouched(c)'
    BY <1>u, <2>3 DEF Untouched, Rest
  <2>6. c \in Lines(AclName) /\ r \notin ToSet(matches) => Untouched(c)'
    BY <1>n, <1>r, <1>u, <2>4 DEF Untouched
  <2>7. Exists(MergedName)' = Exists(MergedName)
    BY <1>n, <1>r, <2>1 DEF Exists
  <2>8. ToSet(toRead) \subseteq Names
    BY <1>1 DEF TypeOK, ToSet
  <2>9. c \in OnDisk => c \in OnDisk'
    BY <1>n, <1>r, <2>3, <2>4 DEF OnDisk
  <2>10. (\E n \in Names \ {MergedName} : c \in Lines(n))
            => \E n \in Names \ {MergedName} : c \in Lines(n)'
    BY <1>n, <1>r, <2>3, <2>4
  <2>11. ASSUME cpc = "read", NEW n \in ToSet(toRead), c \in Lines(n)
         PROVE  Untouched(c)' \/ \E m \in ToSet(toRead) : c \in Lines(m)'
    <3>1. CASE n # AclName
      BY <2>3, <2>8, <2>11, <3>1
    <3>2. CASE n = AclName
      <4>1. toRead = <<AclName>> \o matches
        BY <1>1, <2>11, <3>2 DEF MergeShape
      <4>2. ToSet(matches) \subseteq ToSet(toRead)
        <5>1. matches \in Seq(Names)
          BY <1>1 DEF TypeOK
        <5>2. \A i \in DOMAIN matches : i + 1 \in DOMAIN toRead /\ toRead[i + 1] = matches[i]
          BY <4>1, <5>1
        <5>. QED BY <5>2 DEF ToSet
      <4>. QED BY <2>4, <2>6, <2>11, <3>2, <4>2
    <3>. QED BY <3>1, <3>2
  <2>12. MergedName \in ToSet(matches) /\ c \in Lines(AclName) => Untouched(c)'
    BY <2>2, <2>6 DEF LosesRotated
  <2>13. cpc = "remove" /\ ~Exists(MergedName) /\ c \in Lines(AclName) => Untouched(c)'
    BY <1>1, <2>6 DEF MergeShape, ToSet
  <2>14. c \in Lines(MergedName) => c \in Lines(MergedName)'
    BY <1>n, <1>r, <2>3
  <2>. HIDE DEF compactor
  <2>. QED BY <1>u, <2>5, <2>7, <2>9, <2>10, <2>11, <2>12, <2>13, <2>14 DEF Kept
<1>. QED BY <1>2, <1>3

LEMMA KeptByGlob ==
    ASSUME KeepInv, Glob, NEW c, c \notin exposed', Kept(c)
    PROVE  Kept(c)'
<1>1. TypeOK /\ InodesDistinct
  BY DEF KeepInv, OrderInv
<1>2. cpc = "idle" /\ cpc' = "read" /\ UNCHANGED files
  BY DEF Glob
<1>3. PICK n \in Names : c \in Lines(n)
  BY <1>2 DEF Kept, OnDisk
<1>4. Exists(n)
  BY <1>1, <1>3 DEF InodesDistinct, Lines, ToSet
<1>5. n \in Found \cup {AclName}
  BY <1>4 DEF Found
<1>6. Exists(MergedName) => n = AclName
  BY <1>3, <1>5 DEF Glob
<1>7. n \in ToSet(toRead') /\ (MergedName \in ToSet(matches') => Exists(MergedName))
  BY <1>1, <1>5, GlobFinds DEF Found
<1>8. n # MergedName
  BY <1>4, <1>6 DEF AclName, MergedName, Acl, Merged
<1>9. c \in Lines(n)'
  BY <1>2, <1>3 DEF Lines
<1>. QED BY <1>2, <1>6, <1>7, <1>8, <1>9 DEF Kept

LEMMA KeptByRead ==
    ASSUME KeepInv, Read, NEW k \in Keys, NEW c \in Command, Concerned(k, c), Kept(c)
    PROVE  Kept(c)'
<1>1. TypeOK /\ LatestYoungest /\ DeletesKnown /\ Written \subseteq Command
  BY WrittenTyped DEF KeepInv, OrderInv
<1>. DEFINE f == Head(toRead)
            lines == files[f].lines
<1>2. /\ cpc = "read" /\ cpc' = "read" /\ toRead # <<>> /\ toRead' = Tail(toRead)
      /\ UNCHANGED <<files, matches>> /\ commands' = FoldLeft(Merge, commands, lines)
  BY DEF Read
<1>3. toRead \in Seq(Names) /\ f \in Names
  BY <1>1, <1>2 DEF TypeOK
<1>4. lines \in Seq(Command) /\ ToSet(lines) = Lines(f)
  BY <1>1, <1>3 DEF TypeOK, Lines
<1>5. commands \cup ToSet(lines) \subseteq Written
  BY <1>3, <1>4 DEF Written, OnDisk
<1>. HIDE DEF f, lines
<1>6. c.key = k /\ c.type = "SET" /\ c = latest[k] /\ k \notin deleted /\ c.ts \in Nat
  BY <1>1 DEF Concerned, LatestYoungest, NoCmd, Command
<1>7. ASSUME NEW d \in commands \cup ToSet(lines), d.key = c.key
      PROVE  d.ts \in Nat /\ d.type # "DEL" /\ (d = c \/ d.ts < c.ts)
  <2>1. d \in Written /\ d \in Command
    BY <1>1, <1>5
  <2>. QED BY <1>1, <1>6, <1>7, <2>1 DEF LatestYoungest, DeletesKnown, Command
<1>8. c \in commands \cup Lines(f) => c \in commands'
  BY <1>2, <1>4, <1>6, <1>7, FoldKeepsYoungest
<1>9. ToSet(toRead) \subseteq {f} \cup ToSet(toRead')
  <2>1. \A i \in DOMAIN toRead : i = 1 \/ (i - 1 \in DOMAIN toRead' /\ toRead'[i - 1] = toRead[i])
    BY <1>2, <1>3
  <2>2. toRead[1] = f
    BY <1>2, <1>3 DEF f
  <2>. QED BY <2>1, <2>2 DEF ToSet
<1>10. \A n \in Names : Lines(n)' = Lines(n)
  BY <1>2 DEF Lines
<1>11. ToSet(toRead) \subseteq Names /\ AclName \in Names
  BY <1>1, NameFacts DEF TypeOK, ToSet
<1>12. Untouched(c) => Untouched(c)'
  BY <1>2, <1>10 DEF Untouched, Rest
<1>. QED BY <1>2, <1>8, <1>9, <1>10, <1>11, <1>12 DEF Kept

LEMMA KeptByReadFails ==
    ASSUME KeepInv, ReadFails, NEW c, c \notin exposed', Kept(c)
    PROVE  Kept(c)'
<1>1. TypeOK
  BY DEF KeepInv, OrderInv
<1>2. /\ cpc = "read" /\ cpc' = "read" /\ toRead # <<>> /\ toRead' = Tail(toRead)
      /\ UNCHANGED <<files, matches, commands>> /\ c \notin Lines(Head(toRead))
  BY DEF ReadFails
<1>3. \A n \in ToSet(toRead) : n = Head(toRead) \/ n \in ToSet(toRead')
  <2>1. toRead \in Seq(Names)
    BY <1>1 DEF TypeOK
  <2>2. \A i \in DOMAIN toRead : i = 1 \/ (i - 1 \in DOMAIN toRead' /\ toRead'[i - 1] = toRead[i])
    BY <1>2, <2>1
  <2>3. toRead[1] = Head(toRead)
    BY <1>2, <2>1
  <2>. QED BY <2>2, <2>3 DEF ToSet
<1>4. \A n \in Names : Lines(n)' = Lines(n)
  BY <1>2 DEF Lines
<1>5. ToSet(toRead) \subseteq Names /\ AclName \in Names
  BY <1>1, NameFacts DEF TypeOK, ToSet
<1>6. Untouched(c) => Untouched(c)'
  BY <1>2, <1>4 DEF Untouched, Rest
<1>. QED BY <1>2, <1>3, <1>4, <1>5, <1>6 DEF Kept

LEMMA KeptByCreateMerged ==
    ASSUME KeepInv, CreateMerged, NEW c, Kept(c)
    PROVE  Kept(c)'
<1>1. TypeOK
  BY DEF KeepInv, OrderInv
<1>n. AclName \in Names /\ MergedName \in Names /\ AclName # MergedName
  BY <1>1, NameFacts DEF TypeOK
<1>2. /\ cpc = "read" /\ cpc' = "fill" /\ toRead = <<>> /\ UNCHANGED <<matches, commands>>
      /\ \A n \in Names \ {MergedName} : files'[n] = files[n]
  BY <1>1 DEF CreateMerged, TypeOK
<1>3. \A n \in Names \ {MergedName} : Lines(n)' = Lines(n)
  BY <1>2 DEF Lines
<1>4. Untouched(c) => Untouched(c)'
  BY <1>2, <1>3 DEF Untouched, Rest
<1>5. ToSet(toRead) = {}
  BY <1>2 DEF ToSet
<1>. QED BY <1>2, <1>3, <1>4, <1>5, <1>n DEF Kept

LEMMA KeptByFillMerged ==
    ASSUME KeepInv, FillMerged, NEW c, Kept(c)
    PROVE  Kept(c)'
<1>1. TypeOK /\ MergeMap /\ MergeShape
  BY DEF KeepInv, OrderInv
<1>n. AclName \in Names /\ MergedName \in Names /\ AclName # MergedName
  BY <1>1, NameFacts DEF TypeOK
<1>2. PICK s \in SetToSeqs(commands) : files' = [files EXCEPT ![MergedName].lines = s]
  BY DEF FillMerged
<1>3. ToSet(s) = commands
  BY <1>1, SetToSeqsFacts DEF MergeMap
<1>4. /\ files'[MergedName].lines = s /\ files'[MergedName].ino = files[MergedName].ino
      /\ \A n \in Names \ {MergedName} : files'[n] = files[n]
  BY <1>1, <1>2, <1>n DEF TypeOK
<1>5. Lines(MergedName)' = commands /\ \A n \in Names \ {MergedName} : Lines(n)' = Lines(n)
  BY <1>3, <1>4 DEF Lines
<1>6. cpc = "fill" /\ cpc' = "remove" /\ UNCHANGED matches
  BY DEF FillMerged
<1>7. Exists(MergedName)'
  BY <1>1, <1>4, <1>6 DEF MergeShape, Exists
<1>8. Untouched(c) => Untouched(c)'
  BY <1>5, <1>6 DEF Untouched, Rest
<1>. QED BY <1>5, <1>6, <1>7, <1>8, <1>n DEF Kept

LEMMA KeptByFillFails ==
    ASSUME KeepInv, FillFails, NEW c, Kept(c)
    PROVE  Kept(c)'
<1>1. TypeOK
  BY DEF KeepInv, OrderInv
<1>2. /\ cpc = "fill" /\ cpc' = "idle"
      /\ \A n \in Names \ {MergedName} : files'[n] = files[n]
  BY <1>1 DEF FillFails, TypeOK
<1>3. c \in OnDisk'
  BY <1>2 DEF Kept, OnDisk, Lines
<1>. QED BY <1>2, <1>3 DEF Kept

LEMMA KeptByRemove ==
    ASSUME KeepInv, RemoveOne \/ RemoveFails, NEW c, Kept(c)
    PROVE  Kept(c)'
<1>1. TypeOK /\ MergeShape
  BY DEF KeepInv, OrderInv
<1>n. AclName \in Names /\ MergedName \in Names /\ AclName # MergedName
  BY <1>1, NameFacts DEF TypeOK
<1>2. /\ cpc = "remove" /\ cpc' = "remove" /\ matches # <<>> /\ matches' = Tail(matches)
      /\ matches \in Seq(Names \ {AclName})
  BY <1>1 DEF RemoveOne, RemoveFails, TypeOK
<1>3. Head(matches) \in ToSet(matches) /\ Head(matches) # AclName /\ ToSet(matches') \subseteq ToSet(matches)
  <2>1. 1 \in DOMAIN matches /\ matches[1] = Head(matches)
    BY <1>2
  <2>2. \A i \in DOMAIN matches' : i + 1 \in DOMAIN matches /\ matches'[i] = matches[i + 1]
    BY <1>2
  <2>. QED BY <1>2, <2>1, <2>2 DEF ToSet
<1>4. \A n \in Names \ {Head(matches)} : files'[n] = files[n]
  BY <1>1 DEF RemoveOne, RemoveFails, TypeOK
<1>5. \A n \in Names \ {Head(matches)} : Lines(n)' = Lines(n)
  BY <1>4 DEF Lines
<1>6. Untouched(c) => Untouched(c)'
  BY <1>3, <1>5 DEF Untouched, Rest
<1>7. Exists(MergedName)
  BY <1>1, <1>2 DEF MergeShape
<1>8. c \in Lines(AclName) => c \in Lines(AclName)'
  BY <1>3, <1>5, <1>n
<1>9. Exists(MergedName)' => Lines(MergedName)' = Lines(MergedName)
  <2>1. CASE Head(matches) # MergedName
    BY <1>5, <1>n, <2>1
  <2>2. CASE Head(matches) = MergedName /\ RemoveOne
    BY <1>1, <1>n, <2>2 DEF RemoveOne, TypeOK, Exists, NoFile
  <2>3. CASE RemoveFails
    BY <2>3 DEF RemoveFails, Lines
  <2>. QED BY <2>1, <2>2, <2>3
<1>10. MergedName \in ToSet(matches') \/ ~Exists(MergedName)' => MergedName \in ToSet(matches)
  BY <1>3, <1>4, <1>7, <1>n DEF Exists
<1>. QED BY <1>2, <1>6, <1>7, <1>8, <1>9, <1>10 DEF Kept

LEMMA KeptByRenameMerged ==
    ASSUME KeepInv, RenameMerged, NEW c, Kept(c)
    PROVE  Kept(c)'
<1>1. TypeOK
  BY DEF KeepInv, OrderInv
<1>n. AclName \in Names /\ MergedName \in Names /\ AclName # MergedName
  BY <1>1, NameFacts DEF TypeOK
<1>2. c \in OnDisk'
  <2>1. CASE Exists(MergedName)
    <3>1. /\ files'[AclName] = files[MergedName] /\ cpc = "remove"
          /\ \A n \in Rest : files'[n] = files[n]
      BY <1>1, <1>n, <2>1 DEF RenameMerged, TypeOK, Rest
    <3>. QED BY <1>n, <2>1, <3>1 DEF Kept, OnDisk, Untouched, Rest, Lines
  <2>2. CASE ~Exists(MergedName)
    <3>1. files' = files
      BY <2>2 DEF RenameMerged
    <3>. QED BY <1>1, <3>1, KeptIsOnDisk DEF OnDisk, Lines
  <2>. QED BY <2>1, <2>2
<1>3. cpc' \in {"idle", "stat"}
  BY DEF RenameMerged
<1>. QED BY <1>2, <1>3 DEF Kept

LEMMA LatestKeptNext ==
    ASSUME KeepInv, [Next]_vars
    PROVE  LatestKept'
<1>. USE DEF writer, compactor, env
<1>. SUFFICES ASSUME NEW k \in Keys, NEW c \in Command, Concerned(k, c)'
              PROVE  Kept(c)'
  BY DEF LatestKept
<1>1. TypeOK /\ LatestKept
  BY DEF KeepInv, OrderInv
<1>2. deleted \subseteq deleted' /\ exposed \subseteq exposed'
  BY DEF Next, vars, Log, Take, Rotate, Open, Write, Glob, Read, CreateMerged, FillMerged,
         RemoveOne, RenameMerged, Stat, ReadFails, FillFails, RemoveFails, Crash, SecondPasses
<1>3. k \notin deleted /\ c.type = "SET" /\ c \notin exposed /\ c \notin exposed' /\ c = latest'[k]
  BY <1>2 DEF Concerned
<1>4. CASE Write
  <2>1. c = latest[k] \/ c = wcmd
    BY <1>1, <1>3, <1>4 DEF Write, TypeOK
  <2>2. Kept(c) \/ c = wcmd
    BY <1>1, <1>3, <2>1 DEF LatestKept, Concerned
  <2>. QED BY <1>3, <1>4, <2>2, KeptByWrite
<1>5. CASE ~Write
  <2>1. latest' = latest
    BY <1>5 DEF Next, vars, Log, Take, Rotate, Open, Glob, Read, CreateMerged, FillMerged,
                RemoveOne, RenameMerged, Stat, ReadFails, FillFails, RemoveFails, Crash,
                SecondPasses
  <2>2. Concerned(k, c) /\ Kept(c)
    BY <1>1, <1>3, <2>1 DEF LatestKept, Concerned
  <2>3. CASE Stat \/ Crash
    <3>1. cpc' = "idle" /\ files' = files
      BY <2>3 DEF Stat, Crash
    <3>2. c \in OnDisk'
      BY <1>1, <2>2, <3>1, KeptIsOnDisk DEF OnDisk, Lines
    <3>. QED BY <3>1, <3>2 DEF Kept
  <2>4. CASE Open
    <3>1. CASE Exists(AclName)
      BY <1>1, <2>2, <2>4, <3>1, KeptFrame DEF Open, Lines, Exists
    <3>2. CASE ~Exists(AclName)
      <4>1. \A n \in Names \ {AclName} : files'[n] = files[n]
        BY <1>1, <2>4, <3>2 DEF Open, TypeOK
      <4>2. c \notin Lines(AclName)
        BY <3>2, NameFacts, <1>1 DEF KeepInv, InodesDistinct, Lines, ToSet, TypeOK
      <4>3. AclName # MergedName /\ MergedName \in Names
        BY <1>1, NameFacts DEF TypeOK
      <4>4. Exists(MergedName)' = Exists(MergedName)
        BY <4>1, <4>3 DEF Exists
      <4>5. \A n \in Names : c \in Lines(n) => c \in Lines(n)'
        BY <4>1, <4>2 DEF Lines
      <4>6. UNCHANGED <<cpc, matches, toRead, commands>>
        BY <2>4 DEF Open
      <4>. QED BY <1>1, <2>2, <4>4, <4>5, <4>6, KeptFrame
    <3>. QED BY <3>1, <3>2
  <2>5. CASE UNCHANGED <<files, cpc, matches, toRead, commands>>
    BY <1>1, <2>2, <2>5, KeptFrame DEF Lines, Exists
  <2>6. \/ Rotate \/ Glob \/ Read \/ ReadFails \/ CreateMerged \/ FillMerged \/ FillFails
        \/ RemoveOne \/ RemoveFails \/ RenameMerged \/ Stat \/ Crash \/ Open
        \/ UNCHANGED <<files, cpc, matches, toRead, commands>>
    BY <1>5 DEF Next, vars, Log, Take, SecondPasses
  <2>. QED BY <1>3, <2>2, <2>3, <2>4, <2>5, <2>6, KeptByRotate, KeptByGlob, KeptByRead,
              KeptByReadFails, KeptByCreateMerged, KeptByFillMerged, KeptByFillFails,
              KeptByRemove, KeptByRenameMerged
<1>. QED BY <1>4, <1>5

LEMMA KeepInit == Init => KeepInv
<1>. SUFFICES ASSUME Init PROVE KeepInv
  OBVIOUS
<1>1. Written = {}
  BY DEF Init, Written, OnDisk, Lines, ToSet, NoFile
<1>2. LatestYoungest /\ DeletesKnown
  BY <1>1 DEF Init, LatestYoungest, DeletesKnown, ToSet, NoCmd
<1>3. InodesDistinct /\ MergeShape
  BY DEF Init, InodesDistinct, MergeShape, Exists, NoFile
<1>4. LatestKept
  BY DEF Init, LatestKept, Concerned, NoCmd
<1>. QED BY <1>2, <1>3, <1>4, OrderInit DEF KeepInv

LEMMA KeepNext == KeepInv /\ [Next]_vars => KeepInv'
BY OrderNext, LatestYoungestNext, DeletesKnownNext, InodesDistinctNext, MergeShapeNext,
   LatestKeptNext DEF KeepInv

\* No rotation, merge, failure or crash loses the last SET of a key that was never
\* deleted, but for the commands that the four windows expose.
THEOREM LatestSetStaysOnDisk == Spec => []LatestSetOnDisk
<1>1. KeepInv => LatestSetOnDisk
  <2>. SUFFICES ASSUME KeepInv, NEW k \in Keys \ deleted, latest[k].type = "SET",
                       latest[k] \notin exposed
                PROVE  latest[k] \in OnDisk
    BY DEF LatestSetOnDisk
  <2>1. TypeOK /\ LatestKept
    BY DEF KeepInv, OrderInv
  <2>2. latest[k] \in Command
    BY <2>1 DEF TypeOK, NoCmd
  <2>3. Kept(latest[k])
    BY <2>1, <2>2 DEF LatestKept, Concerned
  <2>. QED BY <2>1, <2>3, KeptIsOnDisk
<1>. QED BY <1>1, KeepInit, KeepNext, PTL DEF Spec
=============================================================================

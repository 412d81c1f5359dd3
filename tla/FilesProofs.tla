----------------------------- MODULE FilesProofs -----------------------------
(***************************************************************************)
(* The theorem that the reference counts of Files are exact, for every     *)
(* number of processes, inodes and files, and every set of path calls.     *)
(***************************************************************************)
EXTENDS FilesInv, FiniteSetTheorems, FunctionTheorems, SequenceTheorems,
        WellFoundedInduction, TLAPS

(* Numbers and directories. *)

\* A set of natural numbers has a least element.
LEMMA MinIsLeast ==
  ASSUME NEW S \in SUBSET Nat, S # {}
  PROVE  Min(S) \in S /\ \A y \in S : Min(S) <= y
<1>1. IsWellFoundedOn(OpToRel(<, Nat), Nat)
  BY NatLessThanWellFounded
<1>2. PICK x \in S : \A y \in S : <<y, x>> \notin OpToRel(<, Nat)
  BY <1>1, WFMin
<1>3. \A y \in S : ~(y < x)
  <2>1. SUFFICES ASSUME NEW y \in S, y < x PROVE <<y, x>> \in OpToRel(<, Nat)
    BY <1>2
  <2>2. <<y, x>> \in {ss \in Nat \X Nat : ss[1] < ss[2]}
    BY <2>1
  <2> QED
    BY <2>2 DEF OpToRel
<1>4. \E z \in S : \A y \in S : z <= y
  BY <1>3
<1> QED
  BY <1>4 DEF Min

\* The constants of the file system.
LEMMA Sizes ==
  /\ NInode \in Nat /\ ROOTINO \in Inum /\ Inum \subseteq Nat /\ 0 \notin Inum
  /\ Len(Shipped) \in Nat /\ 1 + Len(Shipped) <= NInode /\ DirBlock \in Nat
<1>1. Len(Shipped) \in Nat
  BY DiskFsAssumption, LenProperties
<1> QED
  BY <1>1, DiskFsAssumption DEF Inum, ROOTINO

\* An interval from 1 determines its bound.
LEMMA Upto ==
  ASSUME NEW a \in Nat, NEW b \in Nat, 1 .. a = 1 .. b
  PROVE  a = b
<1>1. a > 0 => a \in 1 .. b
  OBVIOUS
<1>2. b > 0 => b \in 1 .. a
  OBVIOUS
<1> QED
  BY <1>1, <1>2

\* An entry at a position of a directory, or behind the last, leaves a directory.
LEMMA DirPut ==
  ASSUME NEW s, DirOk(s), NEW j \in 1 .. Len(s) + 1, NEW e, e.inum \in 0 .. NInode
  PROVE  DirOk([x \in DOMAIN s \union {j} |-> IF x = j THEN e ELSE s[x]])
<1> DEFINE t == [x \in DOMAIN s \union {j} |-> IF x = j THEN e ELSE s[x]]
           n == IF j = Len(s) + 1 THEN j ELSE Len(s)
<1>1. Len(s) \in Nat /\ DOMAIN s = 1 .. Len(s) /\ \A x \in 1 .. Len(s) : s[x].inum \in 0 .. NInode
  BY DEF DirOk
<1>2. n \in Nat /\ DOMAIN s \union {j} = 1 .. n
  BY <1>1
<1>3. \A x \in 1 .. n : t[x].inum \in 0 .. NInode
  BY <1>1, <1>2
<1>4. t \in [1 .. n -> {t[x] : x \in 1 .. n}]
  BY <1>2
<1>5. t \in Seq({t[x] : x \in 1 .. n})
  <2> HIDE DEF t, n
  <2> QED
    BY <1>2, <1>4, SeqDef
<1>6. Len(t) = n
  <2>1. DOMAIN t = 1 .. n
    BY <1>2
  <2>2. Len(t) \in Nat /\ DOMAIN t = 1 .. Len(t)
    <3> HIDE DEF t, n
    <3> QED
      BY <1>5, LenProperties
  <2> HIDE DEF t, n
  <2>3. 1 .. Len(t) = 1 .. n
    BY <2>1, <2>2
  <2> QED
    BY <1>2, <2>2, <2>3, Upto
<1>7. t = [x \in 1 .. n |-> t[x]]
  BY <1>2
<1> HIDE DEF t, n
<1>8. DirOk(t)
  BY <1>2, <1>3, <1>6, <1>7 DEF DirOk
<1> QED
  BY <1>8 DEF t


\* Adding an entry to a directory's list of entries leaves a list of entries.
LEMMA DirAppend ==
  ASSUME NEW s, DirOk(s), NEW e, e.inum \in 0 .. NInode
  PROVE  DirOk(Append(s, e))
<1> DEFINE S == {s[x] : x \in 1 .. Len(s)} \union {e}
<1>1. Len(s) \in Nat /\ s = [x \in 1 .. Len(s) |-> s[x]]
      /\ \A x \in 1 .. Len(s) : s[x].inum \in 0 .. NInode
  BY DEF DirOk
<1>2. s \in Seq(S) /\ e \in S
  <2>1. \A x \in 1 .. Len(s) : s[x] \in S
    OBVIOUS
  <2>2. e \in S
    OBVIOUS
  <2> HIDE DEF S
  <2> QED
    BY <1>1, <2>1, <2>2, SeqDef
<1>3. \A v \in S : v.inum \in 0 .. NInode
  BY <1>1
<1> HIDE DEF S
<1>4. /\ Append(s, e) \in Seq(S)
  BY <1>2
<1>5. Len(Append(s, e)) \in Nat /\ Append(s, e) \in [1 .. Len(Append(s, e)) -> S]
  BY <1>4, LenProperties
<1> QED
  BY <1>3, <1>5 DEF DirOk

\* The empty list is a list of entries.
LEMMA DirEmpty == DirOk(<<>>)
BY DEF DirOk

\* dirlookup: an entry, which names an inode, or 0.
LEMMA Lookup ==
  ASSUME NEW F, FsOk(F), NEW i \in Inum, NEW nm
  PROVE  LET j == DirLookup(F, i, nm) IN
         j = 0 \/ (j \in 1 .. Len(F.ents[i]) /\ F.ents[i][j].inum \in Inum)
<1> DEFINE s == F.ents[i]
           J == {j \in DOMAIN s : s[j].inum # 0 /\ s[j].name = nm}
<1>1. Len(s) \in Nat /\ DOMAIN s = 1 .. Len(s) /\ \A x \in 1 .. Len(s) : s[x].inum \in 0 .. NInode
  BY DEF DirOk, FsOk
<1>2. CASE J = {}
  BY <1>2 DEF DirLookup
<1>3. CASE J # {}
  <2>1. J \in SUBSET Nat
    BY <1>1
  <2>2. Min(J) \in J
    <3> HIDE DEF J
    <3> QED
      BY <2>1, <1>3, MinIsLeast
  <2>3. DirLookup(F, i, nm) = Min(J)
    BY <1>3 DEF DirLookup
  <2>4. \A j \in J : j \in 1 .. Len(s) /\ s[j].inum \in 1 .. NInode
    BY <1>1, Sizes
  <2>5. Min(J) \in 1 .. Len(s) /\ s[Min(J)].inum \in 1 .. NInode
    <3> HIDE DEF J
    <3> QED
      BY <2>2, <2>4
  <2> QED
    BY <2>3, <2>5 DEF Inum
<1> QED
  BY <1>2, <1>3

\* What leaves the entries of all directories as they are.
Same(F, G) == FsOk(G) /\ G.ents = F.ents

\* iupdate changes no directory's entries.
LEMMA UpdateSame ==
  ASSUME NEW F, FsOk(F), NEW i, NEW d
  PROVE  Same(F, Iupdate(F, i, d))
BY DEF Same, FsOk, Iupdate

\* balloc changes no directory's entries.
LEMMA BallocSame ==
  ASSUME NEW F, FsOk(F)
  PROVE  Same(F, Balloc(F).fs)
<1> DEFINE b == Balloc(F).b
<1>1. Balloc(F).fs = IF b = 0 THEN F ELSE [F EXCEPT !.used = @ \union {b}, !.ind[b] = Zeroes]
  BY DEF Balloc
<1> HIDE DEF b
<1> QED
  BY <1>1 DEF Same, FsOk

\* Filling a block changes no directory's entries.
LEMMA FillSame ==
  ASSUME NEW F, FsOk(F), NEW b
  PROVE  Same(F, Fill(F, b).fs)
BY BallocSame DEF Fill, Same

\* bmap changes no directory's entries.
LEMMA BmapSame ==
  ASSUME NEW F, FsOk(F), NEW d, NEW n
  PROVE  Same(F, Bmap(F, d, n).fs)
<1>1. ASSUME NEW t, NEW x, Same(F, t.fs) PROVE Same(F, Direct(t, d, x).fs)
  BY <1>1 DEF Direct
<1>2. ASSUME NEW t, NEW x, Same(F, t.fs) PROVE Same(F, BmapIndirect(t, d, x).fs)
  <2> DEFINE u == Fill(t.fs, t.fs.ind[t.b][x])
  <2>1. Same(F, u.fs)
    BY <1>2, FillSame DEF Same
  <2>2. Indirect(t, u, d, x).fs = [u.fs EXCEPT !.ind[t.b][x] = u.b]
    BY DEF Indirect
  <2> HIDE DEF u
  <2>3. Same(F, Indirect(t, u, d, x).fs)
    BY <2>1, <2>2 DEF Same, FsOk
  <2> QED
    BY <1>1, <1>2, <2>3 DEF BmapIndirect, u
<1>3. Same(F, Fill(F, d.addrs[n]).fs) /\ Same(F, Fill(F, d.addrs[NDirect]).fs)
  BY FillSame
<1> QED
  BY <1>1, <1>2, <1>3 DEF Bmap

\* What changes, if anything, directory i only.
Only(F, G, i) == FsOk(G) /\ \A x \in Inum \ {i} : G.ents[x] = F.ents[x]

\* What changes no directory changes at most one.
LEMMA SameOnly == ASSUME NEW F, NEW G, NEW i, Same(F, G) PROVE Only(F, G, i)
BY DEF Same, Only

\* itrunc changes the entries of its own inode only.
LEMMA ItruncOnly ==
  ASSUME NEW F, FsOk(F), NEW i, NEW d
  PROVE  Only(F, Itrunc(F, i, d).fs, i)
<1> DEFINE e == [d EXCEPT !.size = 0, !.addrs = Unused.addrs]
           C == F.used \ Content(F, d)
<1>1. Itrunc(F, i, d).fs = [[F EXCEPT !.used = C] EXCEPT !.ents[i] = <<>>, !.ino[i] = e]
  BY DEF Itrunc, Bfree
<1> HIDE DEF e, C
<1> QED
  BY <1>1, DirEmpty DEF Only, FsOk

\* Writing one entry changes the directory it is written in only.
LEMMA WriteEntryOnly ==
  ASSUME NEW F, FsOk(F), NEW i \in Inum, NEW d, NEW j \in 1 .. Len(F.ents[i]) + 1,
         NEW e, e.inum \in 0 .. NInode
  PROVE  Only(F, WriteEntry(F, i, d, j, e).fs, i)
<1>1. ASSUME NEW m, Same(F, m.fs) PROVE Only(F, EntryIn(m, i, j, e).fs, i)
  <2> DEFINE n == [m.d EXCEPT !.size = IF j > @ THEN j ELSE @]
             G == Iupdate(m.fs, i, n)
             t == [x \in DOMAIN F.ents[i] \union {j} |-> IF x = j THEN e ELSE F.ents[i][x]]
  <2>1. Same(F, Iupdate(m.fs, i, m.d)) /\ Same(F, G)
    BY <1>1, UpdateSame DEF Same
  <2>2. DirOk(t)
    BY DirPut DEF FsOk
  <2>3. EntryIn(m, i, j, e).fs =
          IF m.addr = 0 THEN Iupdate(m.fs, i, m.d)
          ELSE [G EXCEPT !.ents[i] = [x \in DOMAIN @ \union {j} |-> IF x = j THEN e ELSE @[x]]]
    BY DEF EntryIn
  <2>4. [x \in DOMAIN G.ents[i] \union {j} |-> IF x = j THEN e ELSE G.ents[i][x]] = t
    BY <2>1 DEF Same
  <2> HIDE DEF n, G, t
  <2>5. Only(F, [G EXCEPT !.ents[i] = t], i)
    BY <2>1, <2>2 DEF Same, Only, FsOk
  <2>6. [G EXCEPT !.ents[i] = [x \in DOMAIN @ \union {j} |-> IF x = j THEN e ELSE @[x]]]
          = [G EXCEPT !.ents[i] = t]
    BY <2>1, <2>4 DEF Same, FsOk
  <2> QED
    BY <2>1, <2>3, <2>5, <2>6, SameOnly
<1>2. Only(F, F, i)
  BY DEF Only
<1> QED
  BY <1>1, <1>2, BmapSame DEF WriteEntry

\* dirlink changes the directory it links into only.
LEMMA DirLinkOnly ==
  ASSUME NEW F, FsOk(F), NEW i \in Inum, NEW d, NEW nm, NEW inum \in Inum
  PROVE  Only(F, DirLink(F, i, d, nm, inum).fs, i)
<1> DEFINE s == F.ents[i]
           J == {j \in DOMAIN s : s[j].inum = 0}
           T == J \union {Len(s) + 1}
<1>1. Len(s) \in Nat /\ DOMAIN s = 1 .. Len(s)
  BY DEF FsOk, DirOk
<1>2. T \in SUBSET (1 .. Len(s) + 1) /\ T \in SUBSET Nat /\ T # {}
  BY <1>1
<1>3. Min(T) \in 1 .. Len(s) + 1
  <2> HIDE DEF T
  <2> QED
    BY <1>2, MinIsLeast
<1>4. Dirent(nm, inum).inum \in 0 .. NInode
  BY Sizes DEF Dirent, Inum
<1>5. DirLink(F, i, d, nm, inum) =
        IF DirLookup(F, i, nm) # 0 THEN [ok |-> FALSE, fs |-> F, d |-> d]
        ELSE WriteEntry(F, i, d, Min(T), Dirent(nm, inum))
  BY DEF DirLink
<1> HIDE DEF T
<1>6. Only(F, WriteEntry(F, i, d, Min(T), Dirent(nm, inum)).fs, i)
  BY <1>3, <1>4, WriteEntryOnly
<1>7. Only(F, F, i)
  BY DEF Only
<1> QED
  BY <1>5, <1>6, <1>7

-----------------------------------------------------------------------------
(* Counting references. *)

Count(f, S, a) == Cardinality({x \in S : f[x] = a})
Is(x, a)       == IF x = a THEN 1 ELSE 0

\* f and g have the same values on the finite set S but at x, y and z.
But1(f, g, S, x) == IsFiniteSet(S) /\ x \in S /\ \A u \in S : u # x => g[u] = f[u]
But2(f, g, S, x, y) ==
  IsFiniteSet(S) /\ {x, y} \subseteq S /\ x # y /\ \A u \in S : u # x /\ u # y => g[u] = f[u]
But3(f, g, S, x, y, z) ==
  /\ IsFiniteSet(S) /\ {x, y, z} \subseteq S /\ x # y /\ x # z /\ y # z
  /\ \A u \in S : u # x /\ u # y /\ u # z => g[u] = f[u]

\* Replacing the value of a function at one point changes a count by at most one.
LEMMA OnePoint ==
  ASSUME NEW S, NEW f, NEW g, NEW x, NEW a, But1(f, g, S, x)
  PROVE  /\ Count(f, S, a) \in Nat /\ Count(g, S, a) \in Nat
         /\ Count(g, S, a) = Count(f, S, a) - Is(f[x], a) + Is(g[x], a)
<1> DEFINE R == {y \in S : y # x /\ f[y] = a}
           A(h) == {y \in S : h[y] = a}
<1>0. IsFiniteSet(S) /\ x \in S /\ \A u \in S : u # x => g[u] = f[u]
  BY DEF But1
<1>1. R \in SUBSET S /\ x \notin R
  OBVIOUS
<1>2. IsFiniteSet(R)
  BY <1>0, <1>1, FS_Subset
<1>3. Cardinality(R) \in Nat /\ Cardinality(R \union {x}) = Cardinality(R) + 1
  BY <1>1, <1>2, FS_AddElement, FS_CardinalityType
<1>4. A(f) = (IF f[x] = a THEN R \union {x} ELSE R) /\ A(g) = (IF g[x] = a THEN R \union {x} ELSE R)
  BY <1>0
<1> HIDE DEF R
<1>5. ASSUME NEW h, A(h) = IF h[x] = a THEN R \union {x} ELSE R
      PROVE  Cardinality(A(h)) = Cardinality(R) + Is(h[x], a)
  <2> HIDE DEF A
  <2>1. CASE h[x] = a
    BY <1>3, <1>5, <2>1 DEF Is
  <2>2. CASE h[x] # a
    BY <1>3, <1>5, <2>2 DEF Is
  <2> QED
    BY <2>1, <2>2
<1>6. Cardinality(A(f)) = Cardinality(R) + Is(f[x], a)
        /\ Cardinality(A(g)) = Cardinality(R) + Is(g[x], a)
  BY <1>4, <1>5
<1>7. Is(f[x], a) \in {0, 1} /\ Is(g[x], a) \in {0, 1}
  BY DEF Is
<1>8. Count(f, S, a) = Cardinality(A(f)) /\ Count(g, S, a) = Cardinality(A(g))
  BY DEF Count
<1> HIDE DEF A
<1> QED
  BY <1>3, <1>6, <1>7, <1>8

\* The same for every value counted.
LEMMA EveryPoint ==
  ASSUME NEW S, NEW f, NEW g, NEW x, But1(f, g, S, x)
  PROVE  \A a : Count(g, S, a) = Count(f, S, a) - Is(f[x], a) + Is(g[x], a)
BY OnePoint

\* A function changed at two points: the counts move by what the two points lose and gain.
LEMMA TwoPoints ==
  ASSUME NEW S, NEW f, NEW g, NEW x, NEW y, NEW a, But2(f, g, S, x, y)
  PROVE  /\ Count(f, S, a) \in Nat /\ Count(g, S, a) \in Nat
         /\ Count(g, S, a) = Count(f, S, a) - Is(f[x], a) - Is(f[y], a) + Is(g[x], a) + Is(g[y], a)
<1> DEFINE h == [z \in S |-> IF z = x THEN g[z] ELSE f[z]]
<1>1. But1(f, h, S, x) /\ But1(h, g, S, y) /\ h[x] = g[x] /\ h[y] = f[y]
  BY DEF But1, But2
<1> HIDE DEF h
<1>2. /\ Count(f, S, a) \in Nat /\ Count(h, S, a) \in Nat
      /\ Count(h, S, a) = Count(f, S, a) - Is(f[x], a) + Is(g[x], a)
  BY <1>1, OnePoint
<1>3. /\ Count(g, S, a) \in Nat
      /\ Count(g, S, a) = Count(h, S, a) - Is(f[y], a) + Is(g[y], a)
  BY <1>1, OnePoint
<1>4. {Is(f[x], a), Is(f[y], a), Is(g[x], a), Is(g[y], a)} \subseteq {0, 1}
  BY DEF Is
<1> QED
  BY <1>2, <1>3, <1>4

\* A function changed at three points: the same, for three.
LEMMA ThreePoints ==
  ASSUME NEW S, NEW f, NEW g, NEW x, NEW y, NEW z, NEW a, But3(f, g, S, x, y, z)
  PROVE  /\ Count(f, S, a) \in Nat /\ Count(g, S, a) \in Nat
         /\ Count(g, S, a) = Count(f, S, a) - Is(f[x], a) - Is(f[y], a) - Is(f[z], a)
                             + Is(g[x], a) + Is(g[y], a) + Is(g[z], a)
<1> DEFINE h == [u \in S |-> IF u \in {x, y} THEN g[u] ELSE f[u]]
<1>1. /\ But2(f, h, S, x, y) /\ But1(h, g, S, z)
      /\ h[x] = g[x] /\ h[y] = g[y] /\ h[z] = f[z]
  BY DEF But1, But2, But3
<1> HIDE DEF h
<1>2. /\ Count(f, S, a) \in Nat /\ Count(h, S, a) \in Nat
      /\ Count(h, S, a) = Count(f, S, a) - Is(f[x], a) - Is(f[y], a) + Is(g[x], a) + Is(g[y], a)
  BY <1>1, TwoPoints
<1>3. /\ Count(g, S, a) \in Nat
      /\ Count(g, S, a) = Count(h, S, a) - Is(f[z], a) + Is(g[z], a)
  BY <1>1, OnePoint
<1>4. {Is(f[x], a), Is(f[y], a), Is(g[x], a), Is(g[y], a), Is(f[z], a), Is(g[z], a)}
        \subseteq {0, 1}
  BY DEF Is
<1> QED
  BY <1>2, <1>3, <1>4

\* A point where a function has a value is counted.
LEMMA OneCounts ==
  ASSUME NEW S, IsFiniteSet(S), NEW f, NEW x \in S, NEW a, f[x] = a
  PROVE  Count(f, S, a) \in Nat /\ Count(f, S, a) >= 1
<1>1. {y \in S : f[y] = a} \in SUBSET S /\ {y \in S : f[y] = a} # {}
  OBVIOUS
<1>2. IsFiniteSet({y \in S : f[y] = a})
  BY <1>1, FS_Subset
<1>3. Cardinality({y \in S : f[y] = a}) \in Nat /\ Cardinality({y \in S : f[y] = a}) # 0
  BY <1>1, <1>2, FS_CardinalityType, FS_EmptySet
<1> QED
  BY <1>3 DEF Count

\* Over a finite set a count is a natural number.
LEMMA CountNat ==
  ASSUME NEW S, IsFiniteSet(S), NEW f, NEW a
  PROVE  Count(f, S, a) \in Nat
<1>1. {y \in S : f[y] = a} \in SUBSET S
  OBVIOUS
<1> QED
  BY <1>1, FS_Subset, FS_CardinalityType DEF Count

\* What can refer to an inode.
Registers == Proc \X {"ip", "dp", "old"}
Places    == Proc \X {1, 2}

\* The sets references are counted over are finite.
LEMMA Finite ==
  /\ IsFiniteSet(Proc) /\ IsFiniteSet(File) /\ IsFiniteSet(Proc \X Fd)
  /\ IsFiniteSet(Registers) /\ IsFiniteSet(Places)
<1>1. NFile \in Nat /\ NOFILE \in Nat /\ IsFiniteSet(Proc)
  BY FilesAssumption
<1>2. IsFiniteSet(File) /\ IsFiniteSet(Fd)
  BY <1>1, FS_Interval DEF File, Fd
<1>3. IsFiniteSet({"ip", "dp", "old"}) /\ IsFiniteSet({1, 2})
  <2>1. IsFiniteSet({1} \union {2}) /\ {1, 2} = {1} \union {2}
    BY FS_Singleton, FS_AddElement
  <2>2. IsFiniteSet({"ip"} \union {"dp"}) /\ IsFiniteSet({"ip"} \union {"dp"} \union {"old"})
    BY FS_Singleton, FS_AddElement
  <2>3. {"ip", "dp", "old"} = {"ip"} \union {"dp"} \union {"old"}
    OBVIOUS
  <2> QED
    BY <2>1, <2>2, <2>3
<1> QED
  BY <1>1, <1>2, <1>3, FS_Product DEF Registers, Places

\* The list of iput calls has at most two inodes.
PutAt(fr, x) == IF x <= Len(fr.puts) THEN fr.puts[x] ELSE 0
PutsIn(fr, i) == Is(PutAt(fr, 1), i) + Is(PutAt(fr, 2), i)
RegsIn(fr, i) == Is(fr.ip, i) + Is(fr.dp, i) + Is(fr.old, i)

\* The references that a thread has.
Own(fr, i) == RegsIn(fr, i) + PutsIn(fr, i)

\* What one call holds of an inode is a natural number.
LEMMA OwnInt ==
  ASSUME NEW fr, NEW i
  PROVE  Own(fr, i) \in Nat /\ RegsIn(fr, i) \in Nat /\ PutsIn(fr, i) \in Nat
<1>1. \A x : Is(x, i) \in {0, 1}
  BY DEF Is
<1> QED
  BY <1>1 DEF Own, RegsIn, PutsIn

regs == [x \in Registers |-> k[x[1]][x[2]]]
puts == [x \in Places |-> PutAt(k[x[1]], x[2])]
ips  == [f \in File |-> ftable[f].ip]

\* The sets RefsExact counts have the cardinalities Count gives.
LEMMA CountsAre ==
  ASSUME ThreadInv, NEW i \in Inum
  PROVE  /\ Cardinality(FilesOf(i)) = Count(ips, File, i)
         /\ Cardinality(CwdsOf(i)) = Count(cwd, Proc, i)
         /\ Cardinality(RegsOf(i)) = Count(regs, Registers, i)
         /\ Cardinality(PutsOf(i)) = Count(puts, Places, i)
<1>1. FilesOf(i) = {f \in File : ips[f] = i} /\ CwdsOf(i) = {p \in Proc : cwd[p] = i}
  BY DEF FilesOf, CwdsOf, ips
<1>2. RegsOf(i) = {x \in Registers : regs[x] = i}
  BY DEF RegsOf, Registers, regs
<1>3. PutsOf(i) = {x \in Places : puts[x] = i}
  <2>1. ASSUME NEW p \in Proc
        PROVE  {x \in DOMAIN k[p].puts : k[p].puts[x] = i} = {x \in {1, 2} : PutAt(k[p], x) = i}
    <3> DEFINE s == k[p].puts
    <3>1. s \in Seq(Inum) /\ Len(s) <= 2
      BY DEF ThreadInv, FrameOk
    <3>2. Len(s) \in Nat /\ DOMAIN s = 1 .. Len(s)
      BY <3>1, LenProperties
    <3>3. i # 0
      BY Sizes
    <3> QED
      BY <3>1, <3>2, <3>3 DEF PutAt
  <2>2. PutsOf(i) = UNION {{p} \X {x \in {1, 2} : PutAt(k[p], x) = i} : p \in Proc}
    BY <2>1 DEF PutsOf
  <2> QED
    BY <2>2 DEF Places, puts
<1> QED
  BY <1>1, <1>2, <1>3 DEF Count

\* A step of one thread.
Steps(p) == k' = [k EXCEPT ![p] = k'[p]]

\* One process steps: the counts over all calls move by what that process's call does.
LEMMA ThreadCounts ==
  ASSUME ThreadInv, NEW p \in Proc, Steps(p), NEW i
  PROVE  /\ Count(regs, Registers, i) \in Nat /\ Count(puts, Places, i) \in Nat
         /\ Count(regs', Registers, i) = Count(regs, Registers, i) - RegsIn(k[p], i)
              + RegsIn(k'[p], i)
         /\ Count(puts', Places, i) = Count(puts, Places, i) - PutsIn(k[p], i) + PutsIn(k'[p], i)
<1>1. \A q \in Proc : q # p => k'[q] = k[q]
  BY DEF ThreadInv, Steps
<1>2. /\ Count(regs, Registers, i) \in Nat
      /\ Count(regs', Registers, i) = Count(regs, Registers, i) - RegsIn(k[p], i) + RegsIn(k'[p], i)
  <2> DEFINE a == <<p, "ip">>
             b == <<p, "dp">>
             c == <<p, "old">>
  <2>1. /\ a \in Registers /\ b \in Registers /\ c \in Registers /\ a # b /\ a # c /\ b # c
        /\ \A u \in Registers : u \notin {a, b, c} => u[1] \in Proc \ {p}
    BY DEF Registers
  <2>2. But3(regs, regs', Registers, a, b, c)
    BY <1>1, <2>1, Finite DEF regs, But3
  <2>3. /\ regs[a] = k[p].ip /\ regs[b] = k[p].dp /\ regs[c] = k[p].old
        /\ regs'[a] = k'[p].ip /\ regs'[b] = k'[p].dp /\ regs'[c] = k'[p].old
    BY <2>1 DEF regs
  <2> HIDE DEF a, b, c
  <2>4. /\ Count(regs, Registers, i) \in Nat
        /\ Count(regs', Registers, i) =
             Count(regs, Registers, i) - Is(regs[a], i) - Is(regs[b], i) - Is(regs[c], i)
             + Is(regs'[a], i) + Is(regs'[b], i) + Is(regs'[c], i)
    BY <2>2, ThreePoints
  <2>5. \A x : Is(x, i) \in {0, 1}
    BY DEF Is
  <2> QED
    BY <2>3, <2>4, <2>5 DEF RegsIn
<1>3. /\ Count(puts, Places, i) \in Nat
      /\ Count(puts', Places, i) = Count(puts, Places, i) - PutsIn(k[p], i) + PutsIn(k'[p], i)
  <2> DEFINE a == <<p, 1>>
             b == <<p, 2>>
  <2>1. /\ a \in Places /\ b \in Places /\ a # b
        /\ \A u \in Places : u \notin {a, b} => u[1] \in Proc \ {p}
    BY DEF Places
  <2>2. But2(puts, puts', Places, a, b)
    BY <1>1, <2>1, Finite DEF puts, PutAt, But2
  <2>3. /\ puts[a] = PutAt(k[p], 1) /\ puts[b] = PutAt(k[p], 2)
        /\ puts'[a] = PutAt(k'[p], 1) /\ puts'[b] = PutAt(k'[p], 2)
    BY <2>1 DEF puts, PutAt
  <2> HIDE DEF a, b
  <2>4. /\ Count(puts, Places, i) \in Nat
        /\ Count(puts', Places, i) = Count(puts, Places, i) - Is(puts[a], i) - Is(puts[b], i)
                                     + Is(puts'[a], i) + Is(puts'[b], i)
    BY <2>2, TwoPoints
  <2>5. \A x : Is(x, i) \in {0, 1}
    BY DEF Is
  <2> QED
    BY <2>3, <2>4, <2>5 DEF PutsIn
<1> QED
  BY <1>2, <1>3

-----------------------------------------------------------------------------
(* What a step has to show. *)

TableOk(T) == T = [i \in Inum |-> [ref |-> T[i].ref, valid |-> T[i].valid, d |-> T[i].d]]

\* The counts follow what the thread refers to.
Refs(p) ==
  /\ TableOk(itable')
  /\ \A i \in Inum : itable'[i].ref = itable[i].ref - Own(k[p], i) + Own(k'[p], i)

\* A thread locks only what is free, and unlocks only what it has locked.
Locks(p) ==
  /\ lock' \in [Inum -> Proc \union {NoProc}]
  /\ \A i \in Inum : lock'[i] # lock[i] => lock[i] \in {p, NoProc} /\ lock'[i] \in {p, NoProc}
  /\ \A i \in Inum : /\ lock'[i] = p <=> PutLock(p, i)' \/ AimLock(p, i)'
                     /\ ~(PutLock(p, i)' /\ AimLock(p, i)')

\* It changes the entries only of a directory that nobody else has locked.
Writes(p) ==
  /\ FsOk(fs') /\ FsOk(disk')
  /\ \A i \in Inum : fs'.ents[i] = fs.ents[i] \/ lock[i] \in {p, NoProc}
  /\ k'[p].pc = "remove" => Entry(p)' # 0

Leaves(p) ==
  /\ \A q \in Proc : q # p => (q \in out' <=> q \in out)
  /\ k'[p].pc \in {"user", "dead", "exit", "write", "reclaim"} => p \notin out'

\* It stays with its files and its directory.
Stays(p) ==
  /\ UNCHANGED <<ftable, ofile, cwd>>
  /\ Gone(k'[p]) <=> Gone(k[p])
  /\ Writing(k'[p]) => Writing(k[p]) /\ k'[p].f = k[p].f

\* A step of one process leaves the calls of the others; its own frame decides ThreadInv.
LEMMA OthersStay ==
  ASSUME ThreadInv, NEW p \in Proc, Steps(p)
  PROVE  /\ \A q \in Proc : q # p => k'[q] = k[q]
         /\ FrameOk(k'[p]) => ThreadInv'
BY DEF ThreadInv, Steps

\* A step that takes and releases locks as its call's aim says keeps LockInv.
LEMMA LocksKept ==
  ASSUME ThreadInv, LockInv, NEW p \in Proc, Steps(p), Locks(p),
         \A q \in Proc : q # p /\ k[q].pc \in {"writei", "written"} =>
           ftable'[k[q].f].ip = ftable[k[q].f].ip
  PROVE  LockInv'
<1>1. ASSUME NEW q \in Proc, q # p, NEW i \in Inum
      PROVE  /\ PutLock(q, i)' <=> PutLock(q, i)
             /\ AimLock(q, i)' <=> AimLock(q, i)
  BY <1>1, OthersStay DEF PutLock, AimLock
<1>2. ASSUME NEW q \in Proc, q # p, NEW i \in Inum
      PROVE  lock'[i] = q <=> lock[i] = q
  BY <1>2, FilesAssumption DEF Locks
<1> QED
  BY <1>1, <1>2 DEF LockInv, Locks

\* A step that writes only directories its process locked keeps EntryInv.
LEMMA EntriesKept ==
  ASSUME ThreadInv, LockInv, EntryInv, NEW p \in Proc, Steps(p), Writes(p)
  PROVE  EntryInv'
<1>1. ASSUME NEW q \in Proc, k'[q].pc = "remove", q # p
      PROVE  Entry(q)' # 0
  <2>1. k'[q] = k[q] /\ FrameOk(k[q]) /\ k[q].pc = "remove"
    BY <1>1, OthersStay DEF ThreadInv
  <2>0. k[q].dp \in Inum /\ k[q].dp # 0
    BY <2>1, Sizes DEF FrameOk, Reg, HasDp, Aim, Putting
  <2>2. lock[k[q].dp] = q
    BY <2>0, <2>1 DEF LockInv, AimLock, Aim, Putting
  <2>3. fs'.ents[k[q].dp] = fs.ents[k[q].dp]
    BY <1>1, <2>0, <2>2, FilesAssumption DEF Writes
  <2>4. Entry(q)' = Entry(q)
    BY <2>0, <2>1, <2>3 DEF Entry, DirLookup
  <2> QED
    BY <2>1, <2>4 DEF EntryInv, At
<1> QED
  BY <1>1 DEF EntryInv, Writes, At

Total(i) == Cardinality(FilesOf(i)) + Cardinality(CwdsOf(i)) + Cardinality(RegsOf(i))
            + Cardinality(PutsOf(i))

\* All the references to an inode, as a sum of four counts.
LEMMA TotalIs ==
  ThreadInv => \A i \in Inum :
    Total(i) = Count(ips, File, i) + Count(cwd, Proc, i) + Count(regs, Registers, i)
               + Count(puts, Places, i)
BY CountsAre DEF Total

\* The same sum after the step.
LEMMA TotalNext ==
  ThreadInv' => \A i \in Inum :
    Total(i)' = Count(ips', File, i) + Count(cwd', Proc, i) + Count(regs', Registers, i)
                + Count(puts', Places, i)
<1>1. (ThreadInv => \A i \in Inum :
         Total(i) = Count(ips, File, i) + Count(cwd, Proc, i) + Count(regs, Registers, i)
                    + Count(puts, Places, i))'
  BY TotalIs, PTL
<1> QED
  BY <1>1

\* What a descriptor refers to.
fds == [x \in Proc \X Fd |-> ofile[x[1]][x[2]]]

\* The counts follow the files, the directories and the threads.
LEMMA RefsMove ==
  ASSUME ThreadInv, ThreadInv', RefInv, NEW p \in Proc, Steps(p),
         \A i \in Inum : itable'[i].ref =
           itable[i].ref - Own(k[p], i) + Own(k'[p], i) - Count(ips, File, i) + Count(ips', File, i)
           - Count(cwd, Proc, i) + Count(cwd', Proc, i),
         \A f \in File : ftable'[f].ref = Count(fds', Proc \X Fd, f)
  PROVE  RefInv'
<1>1. ASSUME NEW i \in Inum
      PROVE  itable'[i].ref = Total(i)'
  <2>1. itable[i].ref = Count(ips, File, i) + Count(cwd, Proc, i)
                        + Count(regs, Registers, i) + Count(puts, Places, i)
    BY TotalIs DEF RefInv, Total
  <2>2. Total(i)' = Count(ips', File, i) + Count(cwd', Proc, i)
                    + Count(regs', Registers, i) + Count(puts', Places, i)
    BY TotalNext
  <2>3. /\ Count(ips, File, i) \in Nat /\ Count(cwd, Proc, i) \in Nat
        /\ Count(ips', File, i) \in Nat /\ Count(cwd', Proc, i) \in Nat
    BY Finite, CountNat
  <2>4. /\ Count(regs, Registers, i) \in Nat /\ Count(puts, Places, i) \in Nat
        /\ Count(regs', Registers, i) = Count(regs, Registers, i) - RegsIn(k[p], i)
             + RegsIn(k'[p], i)
        /\ Count(puts', Places, i) = Count(puts, Places, i) - PutsIn(k[p], i) + PutsIn(k'[p], i)
    BY ThreadCounts
  <2>5. itable'[i].ref =
           itable[i].ref - Own(k[p], i) + Own(k'[p], i) - Count(ips, File, i) + Count(ips', File, i)
           - Count(cwd, Proc, i) + Count(cwd', Proc, i)
    OBVIOUS
  <2>6. /\ Own(k[p], i) = RegsIn(k[p], i) + PutsIn(k[p], i)
        /\ Own(k'[p], i) = RegsIn(k'[p], i) + PutsIn(k'[p], i)
        /\ {RegsIn(k[p], i), PutsIn(k[p], i), RegsIn(k'[p], i), PutsIn(k'[p], i)} \subseteq Nat
    BY OwnInt DEF Own
  <2> QED
    BY <2>1, <2>2, <2>3, <2>4, <2>5, <2>6
<1>2. ASSUME NEW f \in File
      PROVE  ftable'[f].ref = Cardinality({x \in Proc \X Fd : ofile'[x[1]][x[2]] = f})
  <2>1. {x \in Proc \X Fd : ofile'[x[1]][x[2]] = f} = {x \in Proc \X Fd : fds'[x] = f}
    BY DEF fds
  <2> QED
    BY <2>1 DEF Count
<1> QED
  BY <1>1, <1>2 DEF RefInv, Total

\* Files keep their references, and descriptors their files.
LEMMA RefsKept ==
  ASSUME ThreadInv, ThreadInv', RefInv, NEW p \in Proc, Steps(p), UNCHANGED <<ofile, cwd>>,
         \A f \in File : ftable'[f].ip = ftable[f].ip /\ ftable'[f].ref = ftable[f].ref,
         Refs(p)
  PROVE  RefInv'
<1>1. ips' = ips /\ cwd' = cwd /\ fds' = fds
  BY DEF ips, fds
<1>2. ASSUME NEW i \in Inum
      PROVE  itable'[i].ref =
               itable[i].ref - Own(k[p], i) + Own(k'[p], i) - Count(ips, File, i)
                 + Count(ips', File, i)
               - Count(cwd, Proc, i) + Count(cwd', Proc, i)
  <2>1. Count(ips, File, i) \in Nat /\ Count(cwd, Proc, i) \in Nat
    BY Finite, CountNat
  <2>2. itable'[i].ref = itable[i].ref - Own(k[p], i) + Own(k'[p], i)
    BY DEF Refs
  <2>3. /\ Own(k[p], i) \in Nat /\ Own(k'[p], i) \in Nat
    BY OwnInt
  <2>4. itable[i].ref \in Nat
    <3>1. itable[i].ref = Count(ips, File, i) + Count(cwd, Proc, i)
                        + Count(regs, Registers, i) + Count(puts, Places, i)
      BY TotalIs DEF RefInv, Total
    <3>2. Count(regs, Registers, i) \in Nat /\ Count(puts, Places, i) \in Nat
      BY Finite, CountNat
    <3> QED
      BY <2>1, <3>1, <3>2
  <2> QED
    BY <1>1, <2>1, <2>2, <2>3, <2>4
<1>3. ASSUME NEW f \in File
      PROVE  ftable'[f].ref = Count(fds', Proc \X Fd, f)
  <2>1. {x \in Proc \X Fd : ofile[x[1]][x[2]] = f} = {x \in Proc \X Fd : fds[x] = f}
    BY DEF fds
  <2>2. ftable[f].ref = Cardinality({x \in Proc \X Fd : ofile[x[1]][x[2]] = f})
    BY DEF RefInv
  <2> QED
    BY <1>1, <2>1, <2>2 DEF Count
<1> QED
  BY <1>2, <1>3, RefsMove

\* A step of a thread that keeps its files.
LEMMA Finish ==
  ASSUME Inv, NEW p \in Proc, Steps(p), FrameOk(k'[p]), Stays(p), Refs(p), Locks(p), Writes(p),
         Leaves(p)
  PROVE  Inv'
<1>1. ThreadInv'
  BY OthersStay DEF Inv
<1>2. LockInv' /\ EntryInv'
  BY LocksKept, EntriesKept DEF Inv, Stays
<1>3. RefInv' /\ ItableInv'
  BY <1>1, RefsKept DEF Inv, Stays, Refs, TableOk, ItableInv
<1>4. DiskInv'
  BY DEF Writes, DiskInv
<1>5. OutInv'
  BY OthersStay DEF Inv, Leaves, OutInv
<1>6. FileInv'
  BY OthersStay DEF Inv, Stays, FileInv
<1> QED
  BY <1>1, <1>2, <1>3, <1>4, <1>5, <1>6 DEF Inv

-----------------------------------------------------------------------------
(* Lists of iput calls, and the inode table. *)

\* Nothing left to put: no reference waits there.
LEMMA PutsNone ==
  ASSUME NEW fr, fr.puts = <<>>, NEW i \in Inum
  PROVE  PutsIn(fr, i) = 0
BY Sizes DEF PutsIn, PutAt, Is

\* One inode left to put: one reference waits there.
LEMMA PutsOne ==
  ASSUME NEW fr, NEW a, fr.puts = <<a>>, NEW i \in Inum
  PROVE  PutsIn(fr, i) = Is(a, i)
<1>1. Len(<<a>>) = 1 /\ <<a>>[1] = a
  OBVIOUS
<1> QED
  BY <1>1, Sizes DEF PutsIn, PutAt, Is

\* Two inodes left to put: two references wait there.
LEMMA PutsTwo ==
  ASSUME NEW fr, NEW a, NEW b, fr.puts = <<a, b>>, NEW i \in Inum
  PROVE  PutsIn(fr, i) = Is(a, i) + Is(b, i)
<1>1. Len(<<a, b>>) = 2 /\ <<a, b>>[1] = a /\ <<a, b>>[2] = b
  OBVIOUS
<1> QED
  BY <1>1, Sizes DEF PutsIn, PutAt, Is

\* Putting the first of the waiting inodes takes its one reference off the list.
LEMMA PutsTail ==
  ASSUME NEW fr, fr.puts \in Seq(Inum), Len(fr.puts) <= 2, fr.puts # <<>>, NEW g,
         g.puts = Tail(fr.puts), NEW i \in Inum
  PROVE  /\ Head(fr.puts) \in Inum /\ g.puts \in Seq(Inum) /\ Len(g.puts) <= 1
         /\ PutsIn(fr, i) = Is(Head(fr.puts), i) + PutsIn(g, i)
<1> DEFINE s == fr.puts
<1>1. /\ Head(s) \in Inum /\ Tail(s) \in Seq(Inum) /\ Len(Tail(s)) = Len(s) - 1
      /\ Len(s) \in {1, 2} /\ Head(s) = s[1]
  <2>1. Len(s) \in Nat \ {0} /\ Len(s) <= 2
    BY EmptySeq
  <2>2. Head(s) = s[1]
    OBVIOUS
  <2>3. Head(s) \in Inum /\ Tail(s) \in Seq(Inum) /\ Len(Tail(s)) = Len(s) - 1
    BY HeadTailProperties
  <2>4. \A n \in Nat \ {0} : n <= 2 => n \in {1, 2}
    OBVIOUS
  <2> HIDE DEF s
  <2> QED
    BY <2>1, <2>2, <2>3, <2>4
<1>2. Len(s) = 2 => Tail(s)[1] = s[2]
  BY <1>1
<1>3. PutAt(fr, 1) = Head(s) /\ PutAt(fr, 2) = PutAt(g, 1) /\ PutAt(g, 2) = 0
  BY <1>1, <1>2 DEF PutAt
<1> QED
  BY <1>1, <1>3, Sizes DEF PutsIn, Is

\* The table U has the counts of T, or one more for i.
SameRef(T, U)    == TableOk(U) /\ \A x \in Inum : U[x].ref = T[x].ref
GainRef(T, U, i) == TableOk(U) /\ \A x \in Inum : U[x].ref = T[x].ref + Is(i, x)

\* ilock changes no reference count.
LEMMA IlockRef ==
  ASSUME NEW T, TableOk(T), NEW i \in Inum
  PROVE  SameRef(T, Ilock(T, i))
<1>1. \A x \in Inum : T[x] = [ref |-> T[x].ref, valid |-> T[x].valid, d |-> T[x].d]
  BY DEF TableOk
<1>2. SameRef(T, T)
  BY DEF SameRef
<1>3. ASSUME NEW d PROVE SameRef(T, [T EXCEPT ![i] = [@ EXCEPT !.valid = TRUE, !.d = d]])
  <2> DEFINE U == [T EXCEPT ![i] = [@ EXCEPT !.valid = TRUE, !.d = d]]
  <2>1. DOMAIN T = Inum
    BY DEF TableOk
  <2>2. U[i] = [ref |-> T[i].ref, valid |-> TRUE, d |-> d]
    <3>1. U[i] = [T[i] EXCEPT !.valid = TRUE, !.d = d]
      BY <2>1
    <3>2. T[i] = [ref |-> T[i].ref, valid |-> T[i].valid, d |-> T[i].d]
      BY <1>1
    <3> HIDE DEF U
    <3> QED
      BY <3>1, <3>2
  <2>3. \A x \in Inum : x # i => U[x] = T[x]
    BY <2>1
  <2>4. U = [x \in Inum |-> U[x]]
    BY <2>1
  <2> HIDE DEF U
  <2>5. \A x \in Inum : U[x] = [ref |-> U[x].ref, valid |-> U[x].valid, d |-> U[x].d]
                         /\ U[x].ref = T[x].ref
    BY <1>1, <2>2, <2>3
  <2>6. SameRef(T, U)
    BY <2>4, <2>5 DEF SameRef, TableOk
  <2> QED
    BY <2>6 DEF U
<1> QED
  BY <1>2, <1>3 DEF Ilock

\* Changing a cached dinode changes no reference count.
LEMMA SetRef ==
  ASSUME NEW T, TableOk(T), NEW i \in Inum, NEW d
  PROVE  SameRef(T, [T EXCEPT ![i].d = d])
<1>1. \A x \in Inum : T[x] = [ref |-> T[x].ref, valid |-> T[x].valid, d |-> T[x].d]
  BY DEF TableOk
<1> QED
  BY <1>1 DEF TableOk, SameRef

\* iupdate's change of the cached dinode changes no reference count.
LEMMA UpdateRef ==
  ASSUME NEW T, TableOk(T), NEW i \in Inum, NEW d
  PROVE  SameRef(T, Update(T, i, d))
<1>1. SameRef(T, Ilock(T, i))
  BY IlockRef
<1> DEFINE U == Ilock(T, i)
<1> HIDE DEF U
<1>2. SameRef(U, [U EXCEPT ![i].d = d])
  BY <1>1, SetRef DEF SameRef, U
<1> QED
  BY <1>1, <1>2 DEF SameRef, Update, U

\* iget adds one reference, to the inode it returns.
LEMMA IgetRef ==
  ASSUME NEW T, TableOk(T), NEW i \in Inum, \A x \in Inum : T[x].ref \in Nat
  PROVE  GainRef(T, Iget(T, i), i)
<1> DEFINE U == Iget(T, i)
<1>1. /\ DOMAIN T = Inum
      /\ \A x \in Inum : T[x] = [ref |-> T[x].ref, valid |-> T[x].valid, d |-> T[x].d]
  BY DEF TableOk
<1>2. U[i] = [ref |-> T[i].ref + 1, valid |-> U[i].valid, d |-> U[i].d]
  <2>1. CASE T[i].ref > 0
    <3>1. U[i] = [T[i] EXCEPT !.ref = T[i].ref + 1]
      BY <1>1, <2>1 DEF Iget
    <3> HIDE DEF U
    <3> QED
      BY <1>1, <3>1
  <2>2. CASE ~(T[i].ref > 0)
    <3>1. U[i] = [NoInode EXCEPT !.ref = 1] /\ T[i].ref = 0
      BY <1>1, <2>2 DEF Iget
    <3> HIDE DEF U
    <3>2. U[i] = [ref |-> 1, valid |-> FALSE, d |-> Unused]
      BY <3>1 DEF NoInode
    <3> QED
      BY <3>1, <3>2
  <2> QED
    BY <2>1, <2>2
<1>3. U = [x \in Inum |-> U[x]] /\ \A x \in Inum : x # i => U[x] = T[x]
  BY <1>1 DEF Iget
<1> HIDE DEF U
<1>4. U[i].ref = T[i].ref + 1
  BY <1>2
<1>5. \A x \in Inum : U[x] = [ref |-> U[x].ref, valid |-> U[x].valid, d |-> U[x].d]
                       /\ U[x].ref = T[x].ref + Is(i, x)
  BY <1>1, <1>2, <1>3, <1>4 DEF Is
<1>6. GainRef(T, U, i)
  BY <1>3, <1>5 DEF GainRef, TableOk
<1> QED
  BY <1>6 DEF U

\* Counts are numbers, and no smaller than what one thread refers to.
LEMMA RefNat ==
  ASSUME Inv
  PROVE  TableOk(itable) /\ \A i \in Inum : /\ itable[i].ref \in Nat
                                            /\ \A p \in Proc : PutsIn(k[p], i) <= itable[i].ref
<1>1. TableOk(itable) /\ ThreadInv
  BY DEF Inv, ItableInv, TableOk
<1>2. ASSUME NEW i \in Inum
      PROVE  itable[i].ref \in Nat /\ \A p \in Proc : PutsIn(k[p], i) <= itable[i].ref
  <2>1. itable[i].ref = Count(ips, File, i) + Count(cwd, Proc, i)
                        + Count(regs, Registers, i) + Count(puts, Places, i)
    BY <1>1, TotalIs DEF Inv, RefInv, Total
  <2>2. /\ Count(ips, File, i) \in Nat /\ Count(cwd, Proc, i) \in Nat
        /\ Count(regs, Registers, i) \in Nat /\ Count(puts, Places, i) \in Nat
    BY Finite, CountNat
  <2>3. ASSUME NEW p \in Proc
        PROVE  PutsIn(k[p], i) <= Count(puts, Places, i)
    <3> DEFINE g == [x \in Places |-> IF x \in {<<p, 1>>, <<p, 2>>} THEN 0 ELSE puts[x]]
               a == <<p, 1>>
               b == <<p, 2>>
    <3>1. But2(puts, g, Places, a, b) /\ g[a] = 0 /\ g[b] = 0
      BY Finite DEF But2, Places
    <3>2. puts[a] = PutAt(k[p], 1) /\ puts[b] = PutAt(k[p], 2)
      BY DEF puts, Places
    <3> HIDE DEF g, a, b
    <3>3. /\ Count(g, Places, i) \in Nat
          /\ Count(g, Places, i) = Count(puts, Places, i) - Is(puts[a], i) - Is(puts[b], i)
                                   + Is(g[a], i) + Is(g[b], i)
      BY <3>1, TwoPoints
    <3>4. Is(g[a], i) = 0 /\ Is(g[b], i) = 0
      BY <3>1, Sizes DEF Is
    <3>5. \A x : Is(x, i) \in {0, 1}
      BY DEF Is
    <3> QED
      BY <2>2, <3>2, <3>3, <3>4, <3>5 DEF PutsIn
  <2> QED
    BY <2>1, <2>2, <2>3, OwnInt
<1> QED
  BY <1>1, <1>2

-----------------------------------------------------------------------------
(* Frames of threads. *)

\* A record with another value in a field has the same fields.
LEMMA Sets ==
  ASSUME NEW fr, Shape(fr), NEW v
  PROVE  /\ Shape([fr EXCEPT !.pc = v]) /\ Shape([fr EXCEPT !.ret = v])
         /\ Shape([fr EXCEPT !.after = v]) /\ Shape([fr EXCEPT !.ip = v])
         /\ Shape([fr EXCEPT !.dp = v]) /\ Shape([fr EXCEPT !.old = v])
         /\ Shape([fr EXCEPT !.puts = v]) /\ Shape([fr EXCEPT !.path = v])
         /\ Shape([fr EXCEPT !.arg = v]) /\ Shape([fr EXCEPT !.f = v])
         /\ Shape([fr EXCEPT !.n = v]) /\ Shape([fr EXCEPT !.m = v])
BY DEF Shape

\* A fresh frame has the fields and ranges of a frame.
LEMMA FrameShape == ASSUME NEW l PROVE Shape(Frame(l))
BY DEF Frame, Shape

\* The fields that most steps leave alone.
Keeps(fr, g) == g.after = fr.after /\ g.f = fr.f /\ Shape(g)

\* A thread goes to its new frame.
LEMMA Thread ==
  ASSUME Inv, NEW p \in Proc, NEW g, Goto(p, g)
  PROVE  Steps(p) /\ k'[p] = g /\ FrameOk(k[p]) /\ Shape(k[p])
BY DEF Inv, ThreadInv, Goto, Steps, FrameOk, Shape

\* A call of Iput.
LEMMA IputFrame ==
  ASSUME NEW fr, Shape(fr), NEW s, NEW l
  PROVE  LET g == Iput(fr, s, l) IN
         /\ Keeps(fr, g) /\ g.pc = "put" /\ g.ret = l /\ Aim(g) = l
         /\ g.ip = fr.ip /\ g.dp = fr.dp /\ g.old = fr.old /\ g.puts = s /\ g.arg = fr.arg
<1>1. Shape(Iput(fr, s, l))
  BY Zenon, Sets DEF Iput
<1> QED
  BY <1>1 DEF Keeps, Iput, Shape, Aim, Putting

\* Moving a frame to another label leaves all it holds.
LEMMA LabelFrame ==
  ASSUME NEW fr, Shape(fr), NEW l
  PROVE  LET g == [fr EXCEPT !.pc = l] IN
         /\ Keeps(fr, g) /\ g.pc = l /\ g.ret = fr.ret
         /\ g.ip = fr.ip /\ g.dp = fr.dp /\ g.old = fr.old /\ g.puts = fr.puts /\ g.arg = fr.arg
<1>1. Shape([fr EXCEPT !.pc = l])
  BY Sets
<1> QED
  BY <1>1 DEF Keeps, Shape

\* What Frame makes.
LEMMA FrameFields ==
  ASSUME NEW l
  PROVE  LET g == Frame(l) IN
         /\ g.pc = l /\ g.ret = l /\ g.after = "user" /\ g.f = 0
         /\ g.ip = 0 /\ g.dp = 0 /\ g.old = 0 /\ g.puts = <<>> /\ g.arg.call = ""
BY DEF Frame, Arg

\* A step that leaves the file system alone.
LEMMA WritesNone ==
  ASSUME Inv, NEW p \in Proc, UNCHANGED <<fs, disk>>, k'[p].pc # "remove"
  PROVE  Writes(p)
BY DEF Inv, DiskInv, Writes

\* A step that changes no more than directory i, which p has locked, or nobody.
LEMMA WritesOnly ==
  ASSUME Inv, NEW p \in Proc, NEW i, Only(fs, fs', i), i \in Inum => lock[i] \in {p, NoProc},
         UNCHANGED disk, k'[p].pc # "remove"
  PROVE  Writes(p)
BY DEF Inv, DiskInv, Writes, Only

\* A step inside of a transaction.
LEMMA LeavesNone ==
  ASSUME NEW p \in Proc, UNCHANGED out, k'[p].pc \notin {"user", "dead", "exit", "write", "reclaim"}
  PROVE  Leaves(p)
BY DEF Leaves

\* A step of a thread whose files stay.
LEMMA StaysKeeps ==
  ASSUME NEW p \in Proc, UNCHANGED open, Keeps(k[p], k'[p]), k[p].pc # "dead", k'[p].pc # "dead",
         Writing(k'[p]) => Writing(k[p])
  PROVE  Stays(p)
BY DEF open, Stays, Keeps, Gone

\* What a thread without iput calls owns.
LEMMA OwnRegs ==
  ASSUME NEW fr, fr.puts = <<>>, NEW i \in Inum
  PROVE  Own(fr, i) = Is(fr.ip, i) + Is(fr.dp, i) + Is(fr.old, i)
<1>1. \A x : Is(x, i) \in {0, 1}
  BY DEF Is
<1> QED
  BY <1>1, PutsNone DEF Own, RegsIn

\* A frame that names no inode holds no reference.
LEMMA OwnNothing ==
  ASSUME NEW fr, fr.puts = <<>>, fr.ip = 0, fr.dp = 0, fr.old = 0, NEW i \in Inum
  PROVE  Own(fr, i) = 0
<1>1. Is(0, i) = 0
  BY Sizes DEF Is
<1> QED
  BY <1>1, OwnRegs

\* The effect of an iput call to come.
LEMMA OwnPuts ==
  ASSUME NEW fr, NEW a, fr.puts = <<a>>, NEW i \in Inum
  PROVE  Own(fr, i) = Is(fr.ip, i) + Is(fr.dp, i) + Is(fr.old, i) + Is(a, i)
<1>1. \A x : Is(x, i) \in {0, 1}
  BY DEF Is
<1> QED
  BY <1>1, PutsOne DEF Own, RegsIn

\* Taking a lock that is free, and giving one up.
LEMMA LocksTake ==
  ASSUME Inv, NEW p \in Proc, NEW i \in Inum, Free(i), lock' = [lock EXCEPT ![i] = p],
         \A x \in Inum :
           /\ PutLock(p, x)' \/ AimLock(p, x)' <=> PutLock(p, x) \/ AimLock(p, x) \/ x = i
           /\ ~(PutLock(p, x)' /\ AimLock(p, x)')
  PROVE  Locks(p)
BY FilesAssumption DEF Inv, LockInv, Locks, Free

\* A step that releases one lock its call holds, and no other, follows the lock discipline.
LEMMA LocksGive ==
  ASSUME Inv, NEW p \in Proc, NEW i \in Inum, PutLock(p, i) \/ AimLock(p, i),
         lock' = [lock EXCEPT ![i] = NoProc],
         \A x \in Inum :
           /\ PutLock(p, x)' \/ AimLock(p, x)' <=> (PutLock(p, x) \/ AimLock(p, x)) /\ x # i
           /\ ~(PutLock(p, x)' /\ AimLock(p, x)')
  PROVE  Locks(p)
BY FilesAssumption DEF Inv, LockInv, Locks

\* What a thread has locked nobody else has.
LEMMA Mine ==
  ASSUME Inv, NEW p \in Proc, NEW i \in Inum
  PROVE  /\ PutLock(p, i) \/ AimLock(p, i) => lock[i] = p
         /\ Free(i) => lock[i] = NoProc /\ ~PutLock(p, i) /\ ~AimLock(p, i)
BY FilesAssumption DEF Inv, LockInv, Free

\* Where a thread is outside of a call on paths.
Outside == {"user", "dead", "exit", "write", "reclaim", "writelock", "writei", "written"}

\* A step inside of a transaction, other than its end and filewrite's.
LEMMA Inside ==
  ASSUME Inv, NEW p \in Proc, NEW g, Goto(p, g), FrameOk(g), Keeps(k[p], g),
         k[p].pc \notin Outside \union {"end"}, g.pc \notin Outside, UNCHANGED <<open, out>>,
         Refs(p), Locks(p), Writes(p)
  PROVE  Inv'
<1>1. Steps(p) /\ k'[p] = g /\ FrameOk(k[p])
  BY Thread
<1>2. ~Writing(g)
  BY <1>1 DEF Writing, Outside, FrameOk, Keeps
<1>3. Stays(p)
  BY <1>1, <1>2, StaysKeeps DEF Outside
<1>4. Leaves(p)
  BY <1>1, LeavesNone DEF Outside
<1> QED
  BY <1>1, <1>3, <1>4, Finish

-----------------------------------------------------------------------------
(* The end of a transaction, and iput. *)

\* EndOp keeps the invariant.
LEMMA EndOpInv ==
  ASSUME Inv, NEW p \in Proc, EndOp(p)
  PROVE  Inv'
<1> DEFINE fr == k[p]
           g == IF fr.after = "user" THEN Frame("user")
             ELSE [Frame(fr.after) EXCEPT !.f = fr.f, !.n = fr.n]
<1>1. Steps(p) /\ k'[p] = g /\ FrameOk(fr) /\ fr.pc = "end"
  BY Thread DEF EndOp, At
<1>2. /\ fr.ip = 0 /\ fr.dp = 0 /\ fr.old = 0 /\ fr.puts = <<>>
      /\ fr.after \in {"user", "exit", "write", "dead", "reclaim"}
  BY <1>1 DEF FrameOk, Reg, HasIp, HasDp, HasOld, Aim, Putting
<1>3. /\ Shape(g) /\ g.pc = fr.after /\ g.after = "user" /\ (fr.after # "user" => g.f = fr.f)
      /\ g.ip = 0 /\ g.dp = 0 /\ g.old = 0 /\ g.puts = <<>>
  <2>1. CASE fr.after = "user"
    BY <2>1, FrameShape, FrameFields
  <2>2. CASE fr.after # "user"
    <3> DEFINE h == [Frame(fr.after) EXCEPT !.f = fr.f, !.n = fr.n]
    <3>1. /\ Shape(h) /\ h.pc = fr.after /\ h.after = "user" /\ h.f = fr.f
          /\ h.ip = 0 /\ h.dp = 0 /\ h.old = 0 /\ h.puts = <<>>
      <4>1. Shape(h)
        BY Zenon, FrameShape, Sets
      <4> QED
        BY <4>1, FrameShape, FrameFields DEF Shape
    <3>2. g = h
      BY <2>2
    <3> HIDE DEF g, h
    <3> QED
      BY <3>1, <3>2
  <2> QED
    BY <2>1, <2>2
<1> HIDE DEF g
<1>4. FrameOk(g)
  <2>1. <<>> \in Seq(Inum) /\ Len(<<>>) = 0
    OBVIOUS
  <2> QED
    BY <1>2, <1>3, <2>1 DEF FrameOk, Shape, Reg, HasIp, HasDp, HasOld, Aim, Putting, Label
<1>5. Stays(p)
  BY <1>1, <1>2, <1>3 DEF Stays, Gone, Writing, EndOp, open
<1>6. Refs(p)
  <2>1. \A x \in Inum : Own(fr, x) = 0 /\ Own(g, x) = 0
    BY <1>2, <1>3, OwnNothing
  <2>2. itable' = itable
    BY DEF EndOp, mem
  <2> QED
    BY <1>1, <2>1, <2>2, RefNat DEF Refs
<1>7. Locks(p)
  BY <1>1, <1>2, <1>3 DEF Inv, LockInv, Locks, PutLock, AimLock, Aim, Putting, EndOp, mem
<1>8. Writes(p)
  <2>1. disk' \in {fs, disk} /\ fs' = fs
    BY DEF EndOp
  <2> QED
    BY <1>1, <1>2, <1>3, <2>1 DEF Inv, DiskInv, Writes
<1>9. Leaves(p)
  BY DEF Leaves, EndOp
<1> QED
  BY <1>1, <1>4, <1>5, <1>6, <1>7, <1>8, <1>9, Finish

\* One count less, or another copy of the inode.
LEMMA DropRef ==
  ASSUME NEW T, TableOk(T), NEW i \in Inum, \A x \in Inum : T[x].ref \in Nat
  PROVE  LET U == [T EXCEPT ![i] = IF @.ref = 1 THEN NoInode
         ELSE [@ EXCEPT !.ref = T[i].ref - 1]] IN
         TableOk(U) /\ \A x \in Inum : U[x].ref = T[x].ref - Is(i, x)
<1> DEFINE U == [T EXCEPT ![i] = IF @.ref = 1 THEN NoInode ELSE [@ EXCEPT !.ref = T[i].ref - 1]]
<1>1. /\ DOMAIN T = Inum
      /\ \A x \in Inum : T[x] = [ref |-> T[x].ref, valid |-> T[x].valid, d |-> T[x].d]
  BY DEF TableOk
<1>2. U[i] = [ref |-> T[i].ref - 1, valid |-> U[i].valid, d |-> U[i].d]
  <2>1. CASE T[i].ref = 1
    <3>1. U[i] = NoInode
      BY <1>1, <2>1
    <3> HIDE DEF U
    <3>2. U[i] = [ref |-> 0, valid |-> FALSE, d |-> Unused]
      BY <3>1 DEF NoInode
    <3> QED
      BY <2>1, <3>2
  <2>2. CASE T[i].ref # 1
    <3>1. U[i] = [T[i] EXCEPT !.ref = T[i].ref - 1]
      BY <1>1, <2>2
    <3> HIDE DEF U
    <3> QED
      BY <1>1, <3>1
  <2> QED
    BY <2>1, <2>2
<1>3. U = [x \in Inum |-> U[x]] /\ \A x \in Inum : x # i => U[x] = T[x]
  BY <1>1
<1> HIDE DEF U
<1>4. U[i].ref = T[i].ref - 1
  BY <1>2
<1>5. \A x \in Inum : U[x] = [ref |-> U[x].ref, valid |-> U[x].valid, d |-> U[x].d]
                       /\ U[x].ref = T[x].ref - Is(i, x)
  BY <1>1, <1>2, <1>3, <1>4 DEF Is
<1>6. TableOk(U) /\ \A x \in Inum : U[x].ref = T[x].ref - Is(i, x)
  BY <1>3, <1>5 DEF TableOk
<1> QED
  BY <1>6 DEF U

\* Setting the valid flag changes no reference count.
LEMMA ValidRef ==
  ASSUME NEW T, TableOk(T), NEW i \in Inum, NEW v
  PROVE  SameRef(T, [T EXCEPT ![i].valid = v])
<1>1. \A x \in Inum : T[x] = [ref |-> T[x].ref, valid |-> T[x].valid, d |-> T[x].d]
  BY DEF TableOk
<1> QED
  BY <1>1 DEF TableOk, SameRef

\* The counts stay if the thread has what it had.
LEMMA RefsSame ==
  ASSUME Inv, NEW p \in Proc, SameRef(itable, itable'),
         \A i \in Inum : Own(k'[p], i) = Own(k[p], i)
  PROVE  Refs(p)
BY RefNat, OwnInt DEF Refs, SameRef

\* Others see what is locked as before.
LEMMA LocksSame ==
  ASSUME Inv, NEW p \in Proc, UNCHANGED lock,
         \A i \in Inum : (PutLock(p, i)' <=> PutLock(p, i)) /\ (AimLock(p, i)' <=> AimLock(p, i))
  PROVE  Locks(p)
BY DEF Inv, LockInv, Locks

\* The next in the list is an inode that the table counts.
LEMMA PutsHead ==
  ASSUME Inv, NEW p \in Proc, k[p].pc \in Putting
  PROVE  /\ Head(k[p].puts) \in Inum /\ itable[Head(k[p].puts)].ref >= 1
         /\ k[p].puts \in Seq(Inum) /\ Len(k[p].puts) <= 2 /\ k[p].puts # <<>>
<1> DEFINE fr == k[p]
           i  == Head(fr.puts)
           g  == [fr EXCEPT !.puts = Tail(fr.puts)]
<1>1. FrameOk(fr) /\ Shape(fr)
  BY DEF Inv, ThreadInv, FrameOk
<1>2. fr.puts \in Seq(Inum) /\ Len(fr.puts) <= 2 /\ fr.puts # <<>>
  BY <1>1 DEF FrameOk
<1>3. g.puts = Tail(fr.puts)
  BY <1>1 DEF Shape
<1>4. i \in Inum
  BY <1>2, HeadTailProperties
<1> HIDE DEF g
<1>5. PutsIn(fr, i) = Is(i, i) + PutsIn(g, i)
  BY <1>2, <1>3, <1>4, PutsTail
<1>6. PutsIn(g, i) \in Nat /\ Is(i, i) = 1 /\ PutsIn(fr, i) <= itable[i].ref
        /\ itable[i].ref \in Nat
  BY <1>4, OwnInt, RefNat DEF Is
<1> QED
  BY <1>2, <1>4, <1>5, <1>6

\* Unref keeps the invariant.
LEMMA UnrefInv ==
  ASSUME Inv, NEW p \in Proc, k[p].pc \in {"put", "drop"}, Unref(p)
  PROVE  Inv'
<1> DEFINE fr == k[p]
           i == Head(fr.puts)
           s == Tail(fr.puts)
           l == IF s = <<>> THEN fr.ret ELSE "put"
           g == [fr EXCEPT !.puts = s, !.pc = l]
<1>1. Steps(p) /\ k'[p] = g /\ FrameOk(fr) /\ Shape(fr)
  BY Thread DEF Unref
<1>2. /\ i \in Inum /\ fr.puts \in Seq(Inum) /\ Len(fr.puts) <= 2 /\ fr.puts # <<>>
      /\ itable[i].ref >= 1
  BY PutsHead DEF Putting
<1>3. /\ Keeps(fr, g) /\ g.pc = l /\ g.ret = fr.ret /\ g.ip = fr.ip /\ g.dp = fr.dp
      /\ g.old = fr.old
      /\ g.puts = s /\ g.arg = fr.arg
  <2>1. Shape(g)
    BY <1>1, Zenon, Sets
  <2> QED
    BY <1>1, <2>1 DEF Keeps, Shape
<1>4. s \in Seq(Inum) /\ Len(s) <= 1
  <2>1. \A x \in Inum : g.puts \in Seq(Inum) /\ Len(g.puts) <= 1
    BY <1>2, <1>3, PutsTail
  <2> QED
    BY <1>2, <1>3, <2>1
<1> HIDE DEF g
<1>5. \A x \in Inum : Own(g, x) = Own(fr, x) - Is(i, x)
  <2>1. \A x \in Inum : PutsIn(fr, x) = Is(i, x) + PutsIn(g, x)
    BY <1>2, <1>3, PutsTail
  <2>2. \A x \in Inum : RegsIn(g, x) = RegsIn(fr, x)
    BY <1>3 DEF RegsIn
  <2>3. \A x : Is(i, x) \in {0, 1}
    BY DEF Is
  <2> HIDE DEF i
  <2> QED
    BY <2>1, <2>2, <2>3, OwnInt DEF Own
<1>6. fr.ret \in Returns /\ l \in Returns \union {"put"} /\ (l = "put" <=> s # <<>>)
  BY <1>1 DEF FrameOk, Returns, Putting
<1> HIDE DEF s, l
<1>7. Aim(g) = Aim(fr) /\ Aim(g) = fr.ret /\ (g.pc \in Putting <=> s # <<>>)
  BY <1>3, <1>6 DEF Aim, Putting, Returns, l
<1>8. FrameOk(g)
  <2>1. Label = Label \union Returns \union {"put"}
    BY DEF Label, Returns
  <2>2. Reg(HasIp(g), g.ip) /\ Reg(HasDp(g), g.dp) /\ Reg(HasOld(g), g.old)
    BY <1>1, <1>3, <1>7 DEF FrameOk, HasIp, HasDp, HasOld
  <2>3. g.after # "write"
    BY <1>1, <1>3 DEF FrameOk, Keeps
  <2> QED
    BY <1>1, <1>3, <1>4, <1>6, <1>7, <2>1, <2>2, <2>3 DEF FrameOk, Keeps
<1>9. Stays(p)
  BY <1>1, <1>3, <1>6, StaysKeeps DEF Unref, Writing, Keeps, Returns
<1>10. Refs(p)
  <2> DEFINE U == [itable EXCEPT ![i] = IF @.ref = 1 THEN NoInode
                                      ELSE [@ EXCEPT !.ref = itable[i].ref - 1]]
  <2>1. itable' = U
    BY DEF Unref
  <2>2. TableOk(U) /\ \A x \in Inum : U[x].ref = itable[x].ref - Is(i, x)
    BY <1>2, RefNat, DropRef
  <2> HIDE DEF U, i
  <2>3. \A x \in Inum : itable[x].ref \in Nat /\ Own(fr, x) \in Nat /\ Is(i, x) \in {0, 1}
    BY RefNat, OwnInt DEF Is
  <2> QED
    BY <1>1, <1>5, <2>1, <2>2, <2>3 DEF Refs
<1>11. Locks(p)
  BY <1>1, <1>3, <1>6, <1>7, LocksSame DEF Unref, PutLock, AimLock, Returns
<1>12. Writes(p)
  BY <1>1, <1>3, <1>6, WritesNone DEF Unref, Returns
<1>13. Leaves(p)
  BY <1>1, <1>3, <1>6, LeavesNone DEF Unref, Returns
<1> QED
  BY <1>1, <1>8, <1>9, <1>10, <1>11, <1>12, <1>13, Finish

\* IputLast keeps the invariant.
LEMMA IputLastInv ==
  ASSUME Inv, NEW p \in Proc, IputLast(p)
  PROVE  Inv'
<1> DEFINE fr == k[p]
           i == Head(fr.puts)
           g == [fr EXCEPT !.pc = "free"]
<1>1. Goto(p, g) /\ k'[p] = g /\ FrameOk(fr) /\ Shape(fr) /\ fr.pc = "put"
  BY Thread DEF IputLast, To, At
<1>2. i \in Inum
  BY <1>1, PutsHead DEF Putting
<1>3. /\ Keeps(fr, g) /\ g.pc = "free" /\ g.ret = fr.ret /\ g.ip = fr.ip /\ g.dp = fr.dp
      /\ g.old = fr.old /\ g.puts = fr.puts /\ g.arg = fr.arg
  BY <1>1, LabelFrame
<1> HIDE DEF g
<1>4. FrameOk(g) /\ Aim(g) = Aim(fr)
  BY <1>1, <1>3 DEF FrameOk, Keeps, Aim, Putting, HasIp, HasDp, HasOld, Label
<1>5. Refs(p)
  <2>1. \A x \in Inum : Own(g, x) = Own(fr, x)
    BY <1>3 DEF Own, RegsIn, PutsIn, PutAt
  <2>2. SameRef(itable, itable')
    BY RefNat DEF IputLast, SameRef
  <2> QED
    BY <1>1, <2>1, <2>2, RefsSame
<1>6. Locks(p)
  <2>1. Free(i) /\ lock' = [lock EXCEPT ![i] = p]
    BY DEF IputLast
  <2>2. ~AimLock(p, i)
    BY <1>2, <2>1, Mine
  <2>3. \A x \in Inum : /\ PutLock(p, x)' <=> x = i
                        /\ ~PutLock(p, x)
                        /\ AimLock(p, x)' <=> AimLock(p, x)
    BY <1>1, <1>3, <1>4 DEF PutLock, AimLock
  <2> QED
    BY <1>2, <2>1, <2>2, <2>3, LocksTake
<1>7. Writes(p)
  BY <1>1, <1>3, WritesNone DEF IputLast
<1> QED
  BY <1>1, <1>3, <1>4, <1>5, <1>6, <1>7, Inside DEF Outside, IputLast

\* IputFree keeps the invariant.
LEMMA IputFreeInv ==
  ASSUME Inv, NEW p \in Proc, IputFree(p)
  PROVE  Inv'
<1> DEFINE fr == k[p]
           i == Head(fr.puts)
           g == [fr EXCEPT !.pc = "freed"]
<1>1. Goto(p, g) /\ k'[p] = g /\ FrameOk(fr) /\ Shape(fr) /\ fr.pc = "free"
  BY Thread DEF IputFree, To, At
<1>2. i \in Inum
  BY <1>1, PutsHead DEF Putting
<1>3. /\ Keeps(fr, g) /\ g.pc = "freed" /\ g.ret = fr.ret /\ g.ip = fr.ip /\ g.dp = fr.dp
      /\ g.old = fr.old /\ g.puts = fr.puts /\ g.arg = fr.arg
  BY <1>1, LabelFrame
<1> HIDE DEF g
<1>4. FrameOk(g) /\ Aim(g) = Aim(fr)
  BY <1>1, <1>3 DEF FrameOk, Keeps, Aim, Putting, HasIp, HasDp, HasOld, Label
<1> DEFINE t == Itrunc(fs, i, itable[i].d)
           d == [t.d EXCEPT !.type = "free"]
           lost == {fs.ents[i][j].inum : j \in 3 .. Len(fs.ents[i])} \ {0}
           F == Iupdate(t.fs, i, d)
<1>5. Refs(p)
  <2>1. \A x \in Inum : Own(g, x) = Own(fr, x)
    BY <1>3 DEF Own, RegsIn, PutsIn, PutAt
  <2>2. itable' = [itable EXCEPT ![i].d = d]
    BY DEF IputFree
  <2> HIDE DEF d
  <2>3. SameRef(itable, itable')
    BY <1>2, <2>2, SetRef, RefNat
  <2> QED
    BY <1>1, <2>1, <2>3, RefsSame
<1>6. Locks(p)
  BY <1>1, <1>3, <1>4, LocksSame DEF IputFree, PutLock, AimLock
<1>7. Writes(p)
  <2>1. fs' = [F EXCEPT !.stray = (@ \ {i}) \union lost]
    BY DEF IputFree
  <2>2. Only(fs, t.fs, i)
    BY ItruncOnly DEF Inv, DiskInv
  <2>3. Same(t.fs, F)
    BY <2>2, UpdateSame DEF Only
  <2> HIDE DEF t, F, lost
  <2>4. Only(fs, F, i)
    BY <2>2, <2>3 DEF Only, Same
  <2>5. Only(fs, fs', i)
    BY <2>1, <2>4 DEF Only, FsOk
  <2>6. lock[i] = p
    BY <1>1, <1>2, Mine DEF PutLock
  <2> QED
    BY <1>1, <1>2, <1>3, <2>5, <2>6, WritesOnly DEF IputFree
<1> QED
  BY <1>1, <1>3, <1>4, <1>5, <1>6, <1>7, Inside DEF Outside, IputFree

\* IputInvalid keeps the invariant.
LEMMA IputInvalidInv ==
  ASSUME Inv, NEW p \in Proc, IputInvalid(p)
  PROVE  Inv'
<1> DEFINE fr == k[p]
           i == Head(fr.puts)
           g == [fr EXCEPT !.pc = "drop"]
<1>1. Goto(p, g) /\ k'[p] = g /\ FrameOk(fr) /\ Shape(fr) /\ fr.pc = "freed"
  BY Thread DEF IputInvalid, To, At
<1>2. i \in Inum
  BY <1>1, PutsHead DEF Putting
<1>3. /\ Keeps(fr, g) /\ g.pc = "drop" /\ g.ret = fr.ret /\ g.ip = fr.ip /\ g.dp = fr.dp
      /\ g.old = fr.old /\ g.puts = fr.puts /\ g.arg = fr.arg
  BY <1>1, LabelFrame
<1> HIDE DEF g
<1>4. FrameOk(g) /\ Aim(g) = Aim(fr)
  BY <1>1, <1>3 DEF FrameOk, Keeps, Aim, Putting, HasIp, HasDp, HasOld, Label
<1>5. Refs(p)
  <2>1. \A x \in Inum : Own(g, x) = Own(fr, x)
    BY <1>3 DEF Own, RegsIn, PutsIn, PutAt
  <2>2. SameRef(itable, itable')
    BY <1>2, ValidRef, RefNat DEF IputInvalid
  <2> QED
    BY <1>1, <2>1, <2>2, RefsSame
<1>6. Locks(p)
  <2>1. lock' = [lock EXCEPT ![i] = NoProc]
    BY DEF IputInvalid, Iunlock
  <2>2. \A x \in Inum : /\ PutLock(p, x) <=> x = i
                        /\ ~PutLock(p, x)'
                        /\ AimLock(p, x)' <=> AimLock(p, x)
                        /\ ~(PutLock(p, x) /\ AimLock(p, x))
    BY <1>1, <1>3, <1>4 DEF PutLock, AimLock, Inv, LockInv
  <2> QED
    BY <1>2, <2>1, <2>2, LocksGive
<1>7. Writes(p)
  BY <1>1, <1>3, WritesNone DEF IputInvalid
<1> QED
  BY <1>1, <1>3, <1>4, <1>5, <1>6, <1>7, Inside DEF Outside, IputInvalid

-----------------------------------------------------------------------------
(* What a thread has in a register goes to its list. *)

\* The frame that clears ip and goes on to iput.
LEMMA IputIp ==
  ASSUME NEW fr, Shape(fr), NEW v, NEW s, NEW l
  PROVE  LET g == Iput([fr EXCEPT !.ip = v], s, l) IN
         /\ Keeps(fr, g) /\ g.pc = "put" /\ g.ret = l /\ Aim(g) = l
         /\ g.ip = v /\ g.dp = fr.dp /\ g.old = fr.old /\ g.puts = s /\ g.arg = fr.arg
<1> DEFINE h == [fr EXCEPT !.ip = v]
<1>1. /\ Shape(h) /\ Keeps(fr, h) /\ h.ip = v /\ h.dp = fr.dp /\ h.old = fr.old /\ h.arg = fr.arg
  <2>1. Shape(h)
    BY Sets
  <2> QED
    BY <2>1 DEF Keeps, Shape
<1> HIDE DEF h
<1>2. LET g == Iput(h, s, l) IN
      /\ Keeps(h, g) /\ g.pc = "put" /\ g.ret = l /\ Aim(g) = l
      /\ g.ip = h.ip /\ g.dp = h.dp /\ g.old = h.old /\ g.puts = s /\ g.arg = h.arg
  BY <1>1, IputFrame
<1>3. LET g == Iput(h, s, l) IN
      /\ Keeps(fr, g) /\ g.pc = "put" /\ g.ret = l /\ Aim(g) = l
      /\ g.ip = v /\ g.dp = fr.dp /\ g.old = fr.old /\ g.puts = s /\ g.arg = fr.arg
  BY <1>1, <1>2 DEF Keeps
<1> QED
  BY <1>3 DEF h

\* The frame that clears dp and goes on to iput.
LEMMA IputDp ==
  ASSUME NEW fr, Shape(fr), NEW v, NEW s, NEW l
  PROVE  LET g == Iput([fr EXCEPT !.dp = v], s, l) IN
         /\ Keeps(fr, g) /\ g.pc = "put" /\ g.ret = l /\ Aim(g) = l
         /\ g.ip = fr.ip /\ g.dp = v /\ g.old = fr.old /\ g.puts = s /\ g.arg = fr.arg
<1> DEFINE h == [fr EXCEPT !.dp = v]
<1>1. /\ Shape(h) /\ Keeps(fr, h) /\ h.ip = fr.ip /\ h.dp = v /\ h.old = fr.old /\ h.arg = fr.arg
  <2>1. Shape(h)
    BY Sets
  <2> QED
    BY <2>1 DEF Keeps, Shape
<1> HIDE DEF h
<1>2. LET g == Iput(h, s, l) IN
      /\ Keeps(h, g) /\ g.pc = "put" /\ g.ret = l /\ Aim(g) = l
      /\ g.ip = h.ip /\ g.dp = h.dp /\ g.old = h.old /\ g.puts = s /\ g.arg = h.arg
  BY <1>1, IputFrame
<1>3. LET g == Iput(h, s, l) IN
      /\ Keeps(fr, g) /\ g.pc = "put" /\ g.ret = l /\ Aim(g) = l
      /\ g.ip = fr.ip /\ g.dp = v /\ g.old = fr.old /\ g.puts = s /\ g.arg = fr.arg
  BY <1>1, <1>2 DEF Keeps
<1> QED
  BY <1>3 DEF h

\* The frame that clears old and goes on to iput.
LEMMA IputOld ==
  ASSUME NEW fr, Shape(fr), NEW v, NEW s, NEW l
  PROVE  LET g == Iput([fr EXCEPT !.old = v], s, l) IN
         /\ Keeps(fr, g) /\ g.pc = "put" /\ g.ret = l /\ Aim(g) = l
         /\ g.ip = fr.ip /\ g.dp = fr.dp /\ g.old = v /\ g.puts = s /\ g.arg = fr.arg
<1> DEFINE h == [fr EXCEPT !.old = v]
<1>1. /\ Shape(h) /\ Keeps(fr, h) /\ h.ip = fr.ip /\ h.dp = fr.dp /\ h.old = v /\ h.arg = fr.arg
  <2>1. Shape(h)
    BY Sets
  <2> QED
    BY <2>1 DEF Keeps, Shape
<1> HIDE DEF h
<1>2. LET g == Iput(h, s, l) IN
      /\ Keeps(h, g) /\ g.pc = "put" /\ g.ret = l /\ Aim(g) = l
      /\ g.ip = h.ip /\ g.dp = h.dp /\ g.old = h.old /\ g.puts = s /\ g.arg = h.arg
  BY <1>1, IputFrame
<1>3. LET g == Iput(h, s, l) IN
      /\ Keeps(fr, g) /\ g.pc = "put" /\ g.ret = l /\ Aim(g) = l
      /\ g.ip = fr.ip /\ g.dp = fr.dp /\ g.old = v /\ g.puts = s /\ g.arg = fr.arg
  BY <1>1, <1>2 DEF Keeps
<1> QED
  BY <1>3 DEF h

\* The frame of a thread in a call, which has nothing in its list.
Busy(fr) == FrameOk(fr) /\ fr.pc \notin Putting \union {"end"}

\* What a frame in the middle of a call looks like.
LEMMA BusyIs ==
  ASSUME NEW fr, Busy(fr)
  PROVE  /\ Shape(fr) /\ fr.puts = <<>> /\ Aim(fr) = fr.pc /\ fr.after \notin {"write", "dead"}
         /\ fr.after \in {"user", "exit", "reclaim"}
BY DEF Busy, FrameOk, Aim

\* One inode to put, and registers that fit the label that comes then.
LEMMA OnePut ==
  ASSUME NEW fr, Busy(fr), NEW g, Keeps(fr, g), g.pc = "put", NEW l \in Returns, g.ret = l,
         Aim(g) = l,
         NEW i \in Inum, g.puts = <<i>>, g.arg = fr.arg, l = "walk" => fr.pc = "walk",
         Reg(HasIp(g), g.ip), Reg(HasDp(g), g.dp), Reg(HasOld(g), g.old)
  PROVE  FrameOk(g)
<1>1. <<i>> \in Seq(Inum) /\ Len(<<i>>) = 1 /\ <<i>> # <<>>
  OBVIOUS
<1>2. l \in Label /\ "put" \in Label /\ "put" \in Putting
  BY DEF Label, Returns, Putting
<1>3. l = "walk" => g.arg.call \in Calls \union {"dirlink"}
  BY BusyIs DEF Busy, FrameOk
<1>4. g.after \notin {"write", "dead"} /\ g.after \in {"user", "exit", "write", "dead", "reclaim"}
  BY BusyIs DEF Keeps
<1> QED
  BY <1>1, <1>2, <1>3, <1>4 DEF FrameOk, Keeps

\* iunlockput(ip)
LEMMA IpToPuts ==
  ASSUME NEW fr, Busy(fr), fr.ip \in Inum, NEW l \in {"end", "bad", "badlink"},
         Reg(l = "bad", fr.dp), Reg(l = "badlink", fr.old)
  PROVE  LET g == Iput([fr EXCEPT !.ip = 0], <<fr.ip>>, l) IN
         /\ FrameOk(g) /\ Keeps(fr, g) /\ g.pc = "put" /\ Aim(g) = l /\ g.dp = fr.dp
         /\ \A x \in Inum : Own(g, x) = Own(fr, x)
<1> DEFINE g == Iput([fr EXCEPT !.ip = 0], <<fr.ip>>, l)
<1>0. Shape(fr)
  BY BusyIs
<1>1. /\ Keeps(fr, g) /\ g.pc = "put" /\ g.ret = l /\ Aim(g) = l
      /\ g.ip = 0 /\ g.dp = fr.dp /\ g.old = fr.old /\ g.puts = <<fr.ip>> /\ g.arg = fr.arg
  BY <1>0, IputIp
<1> HIDE DEF g
<1>2. FrameOk(g)
  BY <1>1, OnePut DEF Reg, HasIp, HasDp, HasOld, Returns
<1>3. \A x \in Inum : Own(g, x) = Own(fr, x)
  <2>1. \A x \in Inum : Is(0, x) = 0 /\ \A y : Is(y, x) \in {0, 1}
    BY Sizes DEF Is
  <2> QED
    BY <1>1, <2>1, BusyIs, OwnRegs, OwnPuts
<1> QED
  BY <1>1, <1>2, <1>3 DEF g

\* iunlockput(dp)
LEMMA DpToPuts ==
  ASSUME NEW fr, Busy(fr), fr.dp \in Inum, NEW l \in {"end", "opened", "made", "unlinked"},
         Reg(l # "end", fr.ip), fr.old = 0
  PROVE  LET g == Iput([fr EXCEPT !.dp = 0], <<fr.dp>>, l) IN
         /\ FrameOk(g) /\ Keeps(fr, g) /\ g.pc = "put" /\ Aim(g) = l /\ g.ip = fr.ip
         /\ \A x \in Inum : Own(g, x) = Own(fr, x)
<1> DEFINE g == Iput([fr EXCEPT !.dp = 0], <<fr.dp>>, l)
<1>0. Shape(fr)
  BY BusyIs
<1>1. /\ Keeps(fr, g) /\ g.pc = "put" /\ g.ret = l /\ Aim(g) = l
      /\ g.ip = fr.ip /\ g.dp = 0 /\ g.old = fr.old /\ g.puts = <<fr.dp>> /\ g.arg = fr.arg
  BY <1>0, IputDp
<1> HIDE DEF g
<1>2. FrameOk(g)
  BY <1>1, OnePut DEF Reg, HasIp, HasDp, HasOld, Returns
<1>3. \A x \in Inum : Own(g, x) = Own(fr, x)
  <2>1. \A x \in Inum : Is(0, x) = 0 /\ \A y : Is(y, x) \in {0, 1}
    BY Sizes DEF Is
  <2> QED
    BY <1>1, <2>1, BusyIs, OwnRegs, OwnPuts
<1> QED
  BY <1>1, <1>2, <1>3 DEF g

\* A failing call gives up the inode that it has found.
LEMMA FailInv ==
  ASSUME Inv, NEW p \in Proc, Fail(p, k[p].ip),
         k[p].pc \in {"open", "create", "exists", "link", "unlink", "chdir", "exec"}
  PROVE  Inv'
<1> DEFINE fr == k[p]
           g  == Iput([fr EXCEPT !.ip = 0], <<fr.ip>>, "end")
<1>1. Goto(p, g) /\ k'[p] = g /\ FrameOk(fr)
  BY Thread DEF Fail
<1>2. Busy(fr) /\ fr.ip \in Inum /\ fr.dp = 0 /\ fr.old = 0
  BY <1>1 DEF Busy, FrameOk, Reg, HasIp, HasDp, HasOld, Aim, Putting
<1>3. /\ FrameOk(g) /\ Keeps(fr, g) /\ g.pc = "put" /\ Aim(g) = "end"
      /\ \A x \in Inum : Own(g, x) = Own(fr, x)
  BY <1>2, IpToPuts DEF Reg
<1> HIDE DEF g
<1>4. Refs(p)
  BY <1>1, <1>2, <1>3, RefNat, IlockRef, RefsSame DEF Fail
<1>5. Locks(p)
  BY <1>1, <1>2, <1>3, LocksSame DEF Fail, PutLock, AimLock, Aim, Putting
<1>6. Writes(p)
  BY <1>1, <1>3, WritesNone DEF Fail
<1> QED
  BY <1>1, <1>3, <1>4, <1>5, <1>6, Inside DEF Outside, Fail

\* The steps that end a call early, giving back what it holds, keep the invariant.
LEMMA FailingInv ==
  ASSUME Inv, NEW p \in Proc,
         OpenDir(p) \/ CreateRefused(p) \/ CreateNoInode(p) \/ LinkDir(p) \/ UnlinkFail(p)
         \/ ChdirFail(p) \/ Exec(p)
  PROVE  Inv'
BY FailInv DEF OpenDir, CreateRefused, CreateNoInode, LinkDir, UnlinkFail, ChdirFail, Exec, At

-----------------------------------------------------------------------------
(* namex. *)

\* The inode where a walk starts.
LEMMA StartIs ==
  ASSUME Inv, NEW p \in Proc, ~Gone(k[p]), NEW path
  PROVE  Start(p, path) \in Inum
BY Sizes DEF Start, Inv, FileInv

\* A step that takes one more reference, and records it in its own frame, keeps the counts.
LEMMA RefsGain ==
  ASSUME Inv, NEW p \in Proc, NEW i \in Inum, GainRef(itable, itable', i),
         \A x \in Inum : Own(k'[p], x) = Own(k[p], x) + Is(i, x)
  PROVE  Refs(p)
<1>1. \A x : Is(i, x) \in {0, 1}
  BY DEF Is
<1> QED
  BY <1>1, RefNat, OwnInt DEF Refs, GainRef

\* Syscall keeps the invariant.
LEMMA SyscallInv ==
  ASSUME Inv, NEW p \in Proc, NEW r \in Request, Syscall(p, r)
  PROVE  Inv'
<1> DEFINE fr == k[p]
           i  == Start(p, r.path)
           g  == [Frame("walk") EXCEPT !.ip = i, !.path = Names(r.path), !.arg = r.arg]
<1>1. Steps(p) /\ k'[p] = g /\ FrameOk(fr) /\ fr.pc = "user"
  BY Thread DEF Syscall, At
<1>2. /\ fr.ip = 0 /\ fr.dp = 0 /\ fr.old = 0 /\ fr.puts = <<>> /\ Aim(fr) = "user"
      /\ fr.after \notin {"write", "dead"}
  BY <1>1 DEF FrameOk, Reg, HasIp, HasDp, HasOld, Aim, Putting
<1>3. i \in Inum
  BY <1>1, <1>2, StartIs DEF Gone
<1>4. /\ Shape(g) /\ g.pc = "walk" /\ g.ret = "walk" /\ g.after = "user" /\ g.ip = i /\ g.dp = 0
      /\ g.old = 0 /\ g.puts = <<>> /\ g.arg = r.arg
  <2>1. Shape(g)
    BY Zenon, FrameShape, Sets
  <2> QED
    BY <2>1, FrameShape, FrameFields DEF Shape
<1>5. r.arg.call \in Calls
  BY FilesAssumption DEF Calls
<1> HIDE DEF g, i
<1>6. FrameOk(g)
  <2>1. <<>> \in Seq(Inum) /\ Len(<<>>) = 0
    OBVIOUS
  <2> QED
    BY <1>3, <1>4, <1>5, <2>1 DEF FrameOk, Reg, HasIp, HasDp, HasOld, Aim, Putting, Label, Calls
<1>7. Stays(p)
  BY <1>1, <1>2, <1>4 DEF Stays, Gone, Writing, Syscall, open
<1>8. Refs(p)
  <2>1. \A x \in Inum : Own(g, x) = Own(fr, x) + Is(i, x)
    <3>1. \A x \in Inum : Is(0, x) = 0 /\ Is(i, x) \in {0, 1}
      BY Sizes DEF Is
    <3> QED
      BY <1>2, <1>4, <3>1, OwnRegs, OwnNothing
  <2>2. GainRef(itable, itable', i)
    BY <1>3, RefNat, IgetRef DEF Syscall, i
  <2> QED
    BY <1>1, <1>3, <2>1, <2>2, RefsGain
<1>9. Locks(p)
  BY <1>1, <1>2, <1>4, LocksSame DEF Syscall, PutLock, AimLock, Aim, Putting
<1>10. Writes(p)
  BY <1>1, <1>4, WritesNone DEF Syscall
<1>11. Leaves(p)
  BY <1>1, <1>4 DEF Leaves, Syscall
<1> QED
  BY <1>1, <1>6, <1>7, <1>8, <1>9, <1>10, <1>11, Finish

\* The frame of a walk.
LEMMA Walking ==
  ASSUME Inv, NEW p \in Proc, k[p].pc = "walk"
  PROVE  /\ Busy(k[p]) /\ k[p].ip \in Inum /\ k[p].dp = 0
         /\ k[p].arg.call \in Calls \union {"dirlink"}
         /\ Reg(k[p].arg.call = "dirlink", k[p].old)
BY DEF Inv, ThreadInv, Busy, FrameOk, Reg, HasIp, HasDp, HasOld, Aim, Putting

\* namex fails.
LEMMA WalkFails ==
  ASSUME NEW p \in Proc, NEW fr, fr = k[p], Busy(fr), fr.pc = "walk", fr.ip \in Inum, fr.dp = 0,
         Reg(fr.arg.call = "dirlink", fr.old)
  PROVE  LET g == Iput([fr EXCEPT !.ip = 0], <<fr.ip>>, NameError(p)) IN
         /\ FrameOk(g) /\ Keeps(fr, g) /\ g.pc = "put" /\ Aim(g) \in {"end", "badlink"}
         /\ \A x \in Inum : Own(g, x) = Own(fr, x)
<1>1. NameError(p) \in {"end", "badlink"} /\ (NameError(p) = "badlink" <=> fr.arg.call = "dirlink")
  BY DEF NameError
<1>2. Reg(NameError(p) = "bad", fr.dp) /\ Reg(NameError(p) = "badlink", fr.old)
  BY <1>1 DEF Reg
<1> QED
  BY <1>1, <1>2, IpToPuts

\* A frame of a call with nothing in its list.
LEMMA NoPut ==
  ASSUME NEW fr, Busy(fr), NEW g, Keeps(fr, g), g.pc \in Label \ (Putting \union {"end"}),
         g.puts = <<>>,
         Aim(g) = "walk" => g.arg.call \in Calls \union {"dirlink"},
         Reg(HasIp(g), g.ip), Reg(HasDp(g), g.dp), Reg(HasOld(g), g.old)
  PROVE  FrameOk(g)
<1>1. <<>> \in Seq(Inum) /\ Len(<<>>) = 0
  OBVIOUS
<1>2. g.after \notin {"write", "dead"} /\ g.after \in {"user", "exit", "write", "dead", "reclaim"}
  BY BusyIs DEF Keeps
<1> QED
  BY <1>1, <1>2 DEF FrameOk, Keeps

\* WalkEnd keeps the invariant.
LEMMA WalkEndInv ==
  ASSUME Inv, NEW p \in Proc, WalkEnd(p)
  PROVE  Inv'
<1> DEFINE fr == k[p]
           g1 == Iput([fr EXCEPT !.ip = 0], <<fr.ip>>, NameError(p))
           g2 == [fr EXCEPT !.pc = fr.arg.call]
           g  == IF WantsParent(fr) THEN g1 ELSE g2
<1>1. Goto(p, g) /\ k'[p] = g /\ fr.pc = "walk"
  BY Thread DEF WalkEnd, At
<1>2. /\ Busy(fr) /\ Shape(fr) /\ fr.puts = <<>> /\ fr.ip \in Inum /\ fr.dp = 0
      /\ fr.arg.call \in Calls \union {"dirlink"} /\ Reg(fr.arg.call = "dirlink", fr.old)
  BY <1>1, Walking, BusyIs
<1>3. /\ FrameOk(g) /\ Keeps(fr, g) /\ g.pc \in {"put", "open", "link", "chdir", "exec"}
      /\ Aim(g) \notin {"opened", "made", "unlinked", "new", "remove", "bad"}
      /\ \A x \in Inum : Own(g, x) = Own(fr, x)
  <2>1. CASE WantsParent(fr)
    BY <1>1, <1>2, <2>1, WalkFails
  <2>2. CASE ~WantsParent(fr)
    <3>1. fr.arg.call \in {"open", "link", "chdir", "exec"}
      BY <1>2, <2>2 DEF WantsParent, Calls
    <3>2. g = g2
      BY <2>2
    <3>3. /\ Keeps(fr, g2) /\ g2.pc = fr.arg.call /\ g2.ip = fr.ip /\ g2.dp = fr.dp
          /\ g2.old = fr.old
          /\ g2.puts = fr.puts /\ g2.arg = fr.arg
      BY <1>2, LabelFrame
    <3> HIDE DEF g2, g
    <3>4. Aim(g2) = fr.arg.call
      BY <3>1, <3>3 DEF Aim, Putting
    <3>5. FrameOk(g2)
      BY <1>2, <3>1, <3>3, <3>4, NoPut DEF Reg, HasIp, HasDp, HasOld, Putting, Label
    <3>6. \A x \in Inum : Own(g2, x) = Own(fr, x)
      BY <3>3 DEF Own, RegsIn, PutsIn, PutAt
    <3> QED
      BY <3>1, <3>2, <3>3, <3>4, <3>5, <3>6
  <2> QED
    BY <2>1, <2>2
<1> HIDE DEF g
<1>4. Refs(p)
  <2>1. SameRef(itable, itable')
    BY RefNat DEF WalkEnd, mem, SameRef
  <2> QED
    BY <1>1, <1>3, <2>1, RefsSame
<1>5. Locks(p)
  BY <1>1, <1>2, <1>3, LocksSame, BusyIs DEF WalkEnd, mem, PutLock, AimLock
<1>6. Writes(p)
  BY <1>1, <1>3, WritesNone DEF WalkEnd
<1> QED
  BY <1>1, <1>3, <1>4, <1>5, <1>6, Inside DEF Outside, WalkEnd

\* WalkParent keeps the invariant.
LEMMA WalkParentInv ==
  ASSUME Inv, NEW p \in Proc, WalkParent(p)
  PROVE  Inv'
<1> DEFINE fr == k[p]
           g  == [fr EXCEPT !.pc = fr.arg.call]
<1>1. Goto(p, g) /\ k'[p] = g /\ fr.pc = "walk" /\ WantsParent(fr)
  BY Thread DEF WalkParent, To, At
<1>2. /\ Busy(fr) /\ Shape(fr) /\ fr.puts = <<>> /\ fr.ip \in Inum /\ fr.dp = 0
      /\ fr.arg.call \in {"create", "unlink", "dirlink"} /\ Reg(fr.arg.call = "dirlink", fr.old)
  BY <1>1, Walking, BusyIs DEF WantsParent
<1>3. /\ Keeps(fr, g) /\ g.pc = fr.arg.call /\ g.ip = fr.ip /\ g.dp = fr.dp /\ g.old = fr.old
      /\ g.puts = fr.puts /\ g.arg = fr.arg
  BY <1>2, LabelFrame
<1> HIDE DEF g
<1>4. Aim(g) = fr.arg.call
  BY <1>2, <1>3 DEF Aim, Putting
<1>5. FrameOk(g)
  BY <1>2, <1>3, <1>4, NoPut DEF Reg, HasIp, HasDp, HasOld, Putting, Label
<1>6. Refs(p)
  <2>1. \A x \in Inum : Own(g, x) = Own(fr, x)
    BY <1>3 DEF Own, RegsIn, PutsIn, PutAt
  <2>2. SameRef(itable, itable')
    BY <1>2, RefNat, IlockRef DEF WalkParent
  <2> QED
    BY <1>1, <2>1, <2>2, RefsSame
<1>7. Locks(p)
  BY <1>1, <1>2, <1>3, <1>4, LocksSame, BusyIs DEF WalkParent, PutLock, AimLock
<1>8. Writes(p)
  BY <1>1, <1>2, <1>3, WritesNone DEF WalkParent
<1> QED
  BY <1>1, <1>2, <1>3, <1>5, <1>6, <1>7, <1>8, Inside DEF Outside, WalkParent

\* ilock of one inode and iget of another.
LEMMA LockGet ==
  ASSUME Inv, NEW i \in Inum, NEW j \in Inum
  PROVE  GainRef(itable, Iget(Ilock(itable, j), i), i)
<1> DEFINE T == Ilock(itable, j)
<1>1. SameRef(itable, T) /\ \A x \in Inum : itable[x].ref \in Nat
  BY RefNat, IlockRef
<1> HIDE DEF T
<1>2. TableOk(T) /\ \A x \in Inum : T[x].ref \in Nat
  BY <1>1 DEF SameRef
<1>3. GainRef(T, Iget(T, i), i)
  BY <1>2, IgetRef
<1> QED
  BY <1>1, <1>3 DEF GainRef, SameRef, T

\* WalkNext keeps the invariant.
LEMMA WalkNextInv ==
  ASSUME Inv, NEW p \in Proc, WalkNext(p)
  PROVE  Inv'
<1> DEFINE fr == k[p]
           T  == Ilock(itable, fr.ip)
           j  == DirLookup(fs, fr.ip, Head(fr.path))
           i  == fs.ents[fr.ip][j].inum
           none == T[fr.ip].d.type # "dir" \/ j = 0
           g1 == Iput([fr EXCEPT !.ip = 0], <<fr.ip>>, NameError(p))
           h  == [fr EXCEPT !.ip = i, !.path = Tail(fr.path)]
           g2 == Iput(h, <<fr.ip>>, "walk")
<1>1. fr.pc = "walk" /\ UNCHANGED <<fs, disk, lock, open, out>>
  BY DEF WalkNext, At
<1>2. /\ Busy(fr) /\ Shape(fr) /\ fr.puts = <<>> /\ fr.ip \in Inum /\ fr.dp = 0
      /\ fr.arg.call \in Calls \union {"dirlink"} /\ Reg(fr.arg.call = "dirlink", fr.old)
  BY <1>1, Walking, BusyIs
<1>3. CASE none
  <2>1. Goto(p, g1) /\ itable' = T
    BY <1>3 DEF WalkNext
  <2>2. /\ FrameOk(g1) /\ Keeps(fr, g1) /\ g1.pc = "put" /\ Aim(g1) \in {"end", "badlink"}
        /\ \A x \in Inum : Own(g1, x) = Own(fr, x)
    BY <1>1, <1>2, WalkFails
  <2> HIDE DEF g1, none
  <2>3. k'[p] = g1
    BY <2>1, Thread
  <2>4. Refs(p)
    BY <1>2, <2>1, <2>2, <2>3, RefNat, IlockRef, RefsSame
  <2>5. Locks(p)
    BY <1>1, <1>2, <2>2, <2>3, LocksSame, BusyIs DEF PutLock, AimLock
  <2>6. Writes(p)
    BY <1>1, <2>2, <2>3, WritesNone
  <2> QED
    BY <1>1, <2>1, <2>2, <2>4, <2>5, <2>6, Inside DEF Outside
<1>4. CASE ~none
  <2>1. Goto(p, g2) /\ itable' = Iget(T, i) /\ j # 0
    BY <1>4 DEF WalkNext
  <2>2. i \in Inum
    BY <1>2, <2>1, Lookup DEF Inv, DiskInv
  <2>3. Shape(h) /\ Keeps(fr, h) /\ h.ip = i /\ h.dp = fr.dp /\ h.old = fr.old /\ h.arg = fr.arg
    <3>1. Shape(h)
      BY <1>2, Zenon, Sets
    <3> QED
      BY <1>2, <3>1 DEF Keeps, Shape
  <2> HIDE DEF h, i, none
  <2>4. /\ Keeps(h, g2) /\ g2.pc = "put" /\ g2.ret = "walk" /\ Aim(g2) = "walk"
        /\ g2.ip = h.ip /\ g2.dp = h.dp /\ g2.old = h.old /\ g2.puts = <<fr.ip>> /\ g2.arg = h.arg
    BY <2>3, IputFrame
  <2> HIDE DEF g2
  <2>5. /\ Keeps(fr, g2) /\ g2.ip = i /\ g2.dp = 0 /\ g2.old = fr.old /\ g2.arg = fr.arg
    BY <1>2, <2>3, <2>4 DEF Keeps
  <2>6. FrameOk(g2)
    BY <1>1, <1>2, <2>2, <2>4, <2>5, OnePut DEF Reg, HasIp, HasDp, HasOld, Returns
  <2>7. k'[p] = g2
    BY <2>1, Thread
  <2>8. Refs(p)
    <3>1. \A x \in Inum : \A y : Is(y, x) \in {0, 1}
      BY DEF Is
    <3>2. \A x \in Inum : Own(g2, x) = Own(fr, x) + Is(i, x)
      BY <1>2, <2>4, <2>5, <3>1, OwnRegs, OwnPuts
    <3>3. GainRef(itable, itable', i)
      BY <1>2, <2>1, <2>2, LockGet
    <3> QED
      BY <2>2, <2>7, <3>2, <3>3, RefsGain
  <2>9. Locks(p)
    BY <1>1, <1>2, <2>4, <2>7, LocksSame, BusyIs DEF PutLock, AimLock
  <2>10. Writes(p)
    BY <1>1, <2>4, <2>7, WritesNone
  <2> QED
    BY <1>1, <2>1, <2>4, <2>5, <2>6, <2>8, <2>9, <2>10, Inside DEF Outside
<1> QED
  BY <1>3, <1>4

-----------------------------------------------------------------------------
(* sys_open and create. *)

\* The inode is locked and stays so.
LEMMA OpenedInv ==
  ASSUME Inv, NEW p \in Proc, k[p].pc \in {"open", "exists"}, Free(k[p].ip),
         itable' = Ilock(itable, k[p].ip), lock' = [lock EXCEPT ![k[p].ip] = p],
         To(p, "opened"), UNCHANGED <<fs, disk, open, out>>
  PROVE  Inv'
<1> DEFINE fr == k[p]
           g  == [fr EXCEPT !.pc = "opened"]
<1>1. Goto(p, g) /\ k'[p] = g /\ FrameOk(fr) /\ Shape(fr)
  BY Thread DEF To
<1>2. /\ Busy(fr) /\ fr.puts = <<>> /\ Aim(fr) = fr.pc /\ fr.ip \in Inum /\ fr.dp = 0 /\ fr.old = 0
  BY <1>1 DEF Busy, FrameOk, Reg, HasIp, HasDp, HasOld, Aim, Putting
<1>3. /\ Keeps(fr, g) /\ g.pc = "opened" /\ g.ip = fr.ip /\ g.dp = fr.dp /\ g.old = fr.old
      /\ g.puts = fr.puts /\ g.arg = fr.arg
  BY <1>1, LabelFrame
<1> HIDE DEF g
<1>4. Aim(g) = "opened"
  BY <1>3 DEF Aim, Putting
<1>5. FrameOk(g)
  BY <1>2, <1>3, <1>4, NoPut DEF Reg, HasIp, HasDp, HasOld, Putting, Label
<1>6. Refs(p)
  <2>1. \A x \in Inum : Own(g, x) = Own(fr, x)
    BY <1>3 DEF Own, RegsIn, PutsIn, PutAt
  <2>2. SameRef(itable, itable')
    BY <1>2, RefNat, IlockRef
  <2> QED
    BY <1>1, <2>1, <2>2, RefsSame
<1>7. Locks(p)
  <2>1. \A x \in Inum : /\ AimLock(p, x)' <=> x = fr.ip
                        /\ ~PutLock(p, x) /\ ~AimLock(p, x) /\ ~PutLock(p, x)'
    BY <1>1, <1>2, <1>3, <1>4 DEF PutLock, AimLock
  <2> QED
    BY <1>2, <2>1, LocksTake
<1>8. Writes(p)
  BY <1>1, <1>3, WritesNone
<1> QED
  BY <1>1, <1>3, <1>5, <1>6, <1>7, <1>8, Inside DEF Outside

\* The steps that lock the inode a path led to keep the invariant.
LEMMA OpeningInv ==
  ASSUME Inv, NEW p \in Proc, OpenLock(p) \/ CreateExists(p)
  PROVE  Inv'
BY OpenedInv DEF OpenLock, CreateExists, At

\* The lock of the inode is given up, and then the inode.
LEMMA UnlockPutInv ==
  ASSUME Inv, NEW p \in Proc, k[p].pc \in {"opened", "made", "unlinked"}, Iunlock(k[p].ip),
         Goto(p, Iput([k[p] EXCEPT !.ip = 0], <<k[p].ip>>, "end")),
         Same(fs, fs'), SameRef(itable, itable'), UNCHANGED <<disk, open, out>>
  PROVE  Inv'
<1> DEFINE fr == k[p]
           g  == Iput([fr EXCEPT !.ip = 0], <<fr.ip>>, "end")
<1>1. Goto(p, g) /\ k'[p] = g /\ FrameOk(fr)
  BY Thread
<1>2. /\ Busy(fr) /\ fr.puts = <<>> /\ Aim(fr) = fr.pc /\ fr.ip \in Inum /\ fr.dp = 0 /\ fr.old = 0
  BY <1>1 DEF Busy, FrameOk, Reg, HasIp, HasDp, HasOld, Aim, Putting
<1>3. /\ FrameOk(g) /\ Keeps(fr, g) /\ g.pc = "put" /\ Aim(g) = "end"
      /\ \A x \in Inum : Own(g, x) = Own(fr, x)
  BY <1>2, IpToPuts DEF Reg
<1> HIDE DEF g
<1>4. Refs(p)
  BY <1>1, <1>3, RefsSame
<1>5. Locks(p)
  <2>1. \A x \in Inum : /\ AimLock(p, x) <=> x = fr.ip
                        /\ ~PutLock(p, x) /\ ~AimLock(p, x)' /\ ~PutLock(p, x)'
    BY <1>1, <1>2, <1>3 DEF PutLock, AimLock
  <2> QED
    BY <1>2, <2>1, LocksGive DEF Iunlock
<1>6. Writes(p)
  BY <1>1, <1>3 DEF Writes, Same, Inv, DiskInv
<1> QED
  BY <1>1, <1>2, <1>3, <1>4, <1>5, <1>6, Inside DEF Outside

\* The steps that unlock an inode they go on holding keep the invariant.
LEMMA UnlockingInv ==
  ASSUME Inv, NEW p \in Proc, OpenFail(p) \/ Made(p) \/ UnlinkCount(p)
  PROVE  Inv'
<1>1. Same(fs, fs) /\ SameRef(itable, itable) /\ FsOk(fs)
  BY RefNat DEF Inv, DiskInv, Same, SameRef
<1>2. CASE OpenFail(p) \/ Made(p)
  BY <1>1, <1>2, UnlockPutInv DEF OpenFail, Made, At
<1>3. CASE UnlinkCount(p)
  <2>1. k[p].ip \in Inum
    BY <1>3 DEF UnlinkCount, At, Inv, ThreadInv, FrameOk, Reg, HasIp, Aim, Putting
  <2>2. Same(fs, fs') /\ SameRef(itable, itable')
    BY <1>1, <1>3, <2>1, RefNat, UpdateSame, UpdateRef DEF UnlinkCount
  <2> QED
    BY <1>3, <2>2, UnlockPutInv DEF UnlinkCount, At
<1> QED
  BY <1>2, <1>3

\* CreateFound keeps the invariant.
LEMMA CreateFoundInv ==
  ASSUME Inv, NEW p \in Proc, CreateFound(p)
  PROVE  Inv'
<1> DEFINE fr == k[p]
           j  == DirLookup(fs, fr.ip, Head(fr.path))
           i  == fs.ents[fr.ip][j].inum
           g  == Iput([fr EXCEPT !.ip = i], <<fr.ip>>, "exists")
<1>1. /\ Goto(p, g) /\ k'[p] = g /\ FrameOk(fr) /\ fr.pc = "create" /\ j # 0
      /\ itable' = Iget(Ilock(itable, fr.ip), i) /\ UNCHANGED <<fs, disk, lock, open, out>>
  BY Thread DEF CreateFound, At
<1>2. /\ Busy(fr) /\ fr.puts = <<>> /\ Aim(fr) = fr.pc /\ fr.ip \in Inum /\ fr.dp = 0 /\ fr.old = 0
  BY <1>1 DEF Busy, FrameOk, Reg, HasIp, HasDp, HasOld, Aim, Putting
<1>3. i \in Inum
  BY <1>1, <1>2, Lookup DEF Inv, DiskInv
<1> HIDE DEF i
<1>4. /\ Keeps(fr, g) /\ g.pc = "put" /\ g.ret = "exists" /\ Aim(g) = "exists"
      /\ g.ip = i /\ g.dp = fr.dp /\ g.old = fr.old /\ g.puts = <<fr.ip>> /\ g.arg = fr.arg
  <2>1. Shape(fr)
    BY <1>2, BusyIs
  <2> QED
    BY <2>1, IputIp
<1> HIDE DEF g
<1>5. FrameOk(g)
  BY <1>2, <1>3, <1>4, OnePut DEF Reg, HasIp, HasDp, HasOld, Returns
<1>6. Refs(p)
  <2>1. \A x \in Inum : \A y : Is(y, x) \in {0, 1}
    BY DEF Is
  <2>2. \A x \in Inum : Own(g, x) = Own(fr, x) + Is(i, x)
    BY <1>2, <1>4, <2>1, OwnRegs, OwnPuts
  <2>3. GainRef(itable, itable', i)
    BY <1>1, <1>2, <1>3, LockGet
  <2> QED
    BY <1>1, <1>3, <2>2, <2>3, RefsGain
<1>7. Locks(p)
  BY <1>1, <1>2, <1>4, LocksSame DEF PutLock, AimLock
<1>8. Writes(p)
  BY <1>1, <1>4, WritesNone
<1> QED
  BY <1>1, <1>4, <1>5, <1>6, <1>7, <1>8, Inside DEF Outside

\* CreateAlloc keeps the invariant.
LEMMA CreateAllocInv ==
  ASSUME Inv, NEW p \in Proc, CreateAlloc(p)
  PROVE  Inv'
<1> DEFINE fr == k[p]
           dp == fr.ip
<1>1. PICK i \in FreeInodes :
        /\ fs'     = Iupdate(fs, i, [Unused EXCEPT !.type = k[p].arg.type])
        /\ itable' = Iget(Ilock(itable, dp), i)
        /\ Goto(p, [fr EXCEPT !.pc = "new", !.dp = dp, !.ip = i])
  BY DEF CreateAlloc
<1> DEFINE g == [fr EXCEPT !.pc = "new", !.dp = dp, !.ip = i]
<1>2. /\ Goto(p, g) /\ k'[p] = g /\ FrameOk(fr) /\ Shape(fr) /\ fr.pc = "create" /\ i \in Inum
      /\ Free(dp)
      /\ lock' = [lock EXCEPT ![dp] = p] /\ UNCHANGED <<disk, open, out>>
  BY <1>1, Thread DEF CreateAlloc, At, FreeInodes
<1>3. /\ Busy(fr) /\ fr.puts = <<>> /\ Aim(fr) = fr.pc /\ dp \in Inum /\ fr.dp = 0 /\ fr.old = 0
  BY <1>2 DEF Busy, FrameOk, Reg, HasIp, HasDp, HasOld, Aim, Putting
<1>4. /\ Keeps(fr, g) /\ g.pc = "new" /\ g.ip = i /\ g.dp = dp /\ g.old = 0 /\ g.puts = <<>>
      /\ g.arg = fr.arg
  <2>1. Shape(g)
    BY <1>2, Zenon, Sets
  <2> QED
    BY <1>2, <1>3, <2>1 DEF Keeps, Shape
<1> HIDE DEF g
<1>5. Aim(g) = "new"
  BY <1>4 DEF Aim, Putting
<1>6. FrameOk(g)
  BY <1>2, <1>3, <1>4, <1>5, NoPut DEF Reg, HasIp, HasDp, HasOld, Putting, Label
<1>7. Refs(p)
  <2>1. \A x \in Inum : Is(0, x) = 0 /\ \A y : Is(y, x) \in {0, 1}
    BY Sizes DEF Is
  <2>2. \A x \in Inum : Own(g, x) = Own(fr, x) + Is(i, x)
    BY <1>3, <1>4, <2>1, OwnRegs
  <2>3. GainRef(itable, itable', i)
    BY <1>1, <1>2, <1>3, LockGet
  <2> QED
    BY <1>2, <2>2, <2>3, RefsGain
<1>8. Locks(p)
  <2>1. \A x \in Inum : /\ AimLock(p, x)' <=> x = dp
                        /\ ~PutLock(p, x) /\ ~AimLock(p, x) /\ ~PutLock(p, x)'
    BY <1>2, <1>3, <1>4, <1>5 DEF PutLock, AimLock
  <2> QED
    BY <1>2, <1>3, <2>1, LocksTake
<1>9. Writes(p)
  <2>1. Same(fs, fs')
    BY <1>1, UpdateSame DEF Inv, DiskInv
  <2> QED
    BY <1>2, <1>4, <2>1 DEF Writes, Same, Inv, DiskInv
<1> QED
  BY <1>2, <1>3, <1>4, <1>6, <1>7, <1>8, <1>9, Inside DEF Outside

\* Directories change only if p has locked them, or nobody has.
Allowed(p, G) ==
  FsOk(G) /\ \A x \in Inum : G.ents[x] = fs.ents[x] \/ lock[x] \in {p, NoProc}

\* A write to a directory the process has locked, or that nobody has, is allowed.
LEMMA AllowedOnly ==
  ASSUME NEW p, NEW G, Allowed(p, G), NEW H, NEW i, Only(G, H, i),
         i \in Inum => lock[i] \in {p, NoProc}
  PROVE  Allowed(p, H)
BY DEF Allowed, Only

\* A write to no directory is allowed.
LEMMA AllowedSame ==
  ASSUME NEW p, NEW G, Allowed(p, G), NEW H, Same(G, H)
  PROVE  Allowed(p, H)
BY DEF Allowed, Same

\* A step that made only allowed writes meets what EntriesKept asks.
LEMMA WritesAllowed ==
  ASSUME Inv, NEW p \in Proc, Allowed(p, fs'), UNCHANGED disk, k'[p].pc # "remove"
  PROVE  Writes(p)
BY DEF Inv, DiskInv, Writes, Allowed

\* What create writes, it writes to the new inode and to the directory.
LEMMA LinkedAllowed ==
  ASSUME Inv, NEW p \in Proc, k[p].ip \in Inum, k[p].dp \in Inum,
         Free(k[p].ip), lock[k[p].dp] = p
  PROVE  Allowed(p, Linked(p).fs)
<1> DEFINE i  == k[p].ip
           dp == k[p].dp
           d  == [Locked(i) EXCEPT !.nlink = 1, !.major = k[p].arg.major]
           r  == [ok |-> TRUE, fs |-> Iupdate(fs, i, d), d |-> d]
           a  == Then(r, i, ".", i)
           b  == Then(a, i, "..", dp)
           own == IF k[p].arg.type = "dir" THEN b ELSE r
           nm == Entered(p, own)
           e == IF k[p].arg.type = "dir" /\ nm.ok THEN [nm.d EXCEPT !.nlink = @ + 1] ELSE nm.d
<1>1. Linked(p) = [ok |-> nm.ok, ip |-> own.d, dp |-> e, fs |-> Iupdate(nm.fs, dp, e)]
  BY DEF Linked, NameIt, CountUp
<1>2. ASSUME NEW s, Allowed(p, s.fs), NEW c, NEW x \in Inum
      PROVE  Allowed(p, Then(s, i, c, x).fs)
  <2>1. Only(s.fs, DirLink(s.fs, i, s.d, c, x).fs, i)
    BY <1>2, DirLinkOnly DEF Allowed
  <2>2. Allowed(p, DirLink(s.fs, i, s.d, c, x).fs)
    BY <1>2, <2>1, AllowedOnly DEF Free
  <2> QED
    BY <1>2, <2>2 DEF Then
<1>3. Allowed(p, r.fs)
  <2>1. Allowed(p, fs)
    BY DEF Allowed, Inv, DiskInv
  <2>2. Same(fs, Iupdate(fs, i, d)) /\ r.fs = Iupdate(fs, i, d)
    BY UpdateSame DEF Inv, DiskInv
  <2> QED
    BY <2>1, <2>2, AllowedSame
<1>4. Allowed(p, a.fs)
  <2> HIDE DEF r
  <2> QED
    BY <1>2, <1>3
<1>5. Allowed(p, b.fs)
  <2> HIDE DEF a
  <2> QED
    BY <1>2, <1>4
<1>6. Allowed(p, own.fs)
  <2> HIDE DEF r, b
  <2> QED
    BY <1>3, <1>5
<1> HIDE DEF own
<1>7. Allowed(p, nm.fs)
  <2> DEFINE n == DirLink(own.fs, dp, itable[dp].d, Head(k[p].path), i)
  <2>1. Only(own.fs, n.fs, dp)
    BY <1>6, DirLinkOnly DEF Allowed
  <2> HIDE DEF n
  <2>2. Allowed(p, n.fs)
    BY <1>6, <2>1, AllowedOnly
  <2>3. nm.fs = IF own.ok THEN n.fs ELSE own.fs
    BY DEF Entered, n
  <2> HIDE DEF nm
  <2> QED
    BY <1>6, <2>2, <2>3
<1> HIDE DEF nm, e
<1>8. Linked(p).fs = Iupdate(nm.fs, dp, e)
  BY <1>1
<1>9. Same(nm.fs, Iupdate(nm.fs, dp, e))
  BY <1>7, UpdateSame DEF Allowed
<1> QED
  BY <1>7, <1>8, <1>9, AllowedSame

\* The frame of create when it has an inode.
LEMMA Creating ==
  ASSUME Inv, NEW p \in Proc, k[p].pc = "new"
  PROVE  /\ Busy(k[p]) /\ k[p].puts = <<>> /\ Aim(k[p]) = "new" /\ k[p].ip \in Inum
         /\ k[p].dp \in Inum
         /\ k[p].old = 0 /\ lock[k[p].dp] = p
<1>1. /\ Busy(k[p]) /\ k[p].puts = <<>> /\ Aim(k[p]) = "new" /\ k[p].ip \in Inum /\ k[p].dp \in Inum
      /\ k[p].old = 0
  BY DEF Inv, ThreadInv, Busy, FrameOk, Reg, HasIp, HasDp, HasOld, Aim, Putting
<1> QED
  BY <1>1, Mine DEF AimLock

\* Two updates of cached dinodes change no reference count.
LEMMA TwoUpdates ==
  ASSUME Inv, NEW i \in Inum, NEW j \in Inum, NEW d, NEW e
  PROVE  SameRef(itable, Update(Update(itable, i, d), j, e))
<1> DEFINE T == Update(itable, i, d)
<1>1. SameRef(itable, T)
  BY RefNat, UpdateRef
<1> HIDE DEF T
<1>2. SameRef(T, Update(T, j, e))
  BY <1>1, UpdateRef DEF SameRef
<1>3. SameRef(itable, Update(T, j, e))
  BY <1>1, <1>2 DEF SameRef
<1> QED
  BY <1>3 DEF T

\* CreateNew keeps the invariant.
LEMMA CreateNewInv ==
  ASSUME Inv, NEW p \in Proc, CreateNew(p)
  PROVE  Inv'
<1> DEFINE fr == k[p]
           i  == fr.ip
           dp == fr.dp
           c  == Linked(p)
           l  == IF fr.arg.type = "file" THEN "opened" ELSE "made"
           g  == Iput([fr EXCEPT !.dp = 0], <<dp>>, l)
<1>1. /\ Goto(p, g) /\ k'[p] = g /\ fr.pc = "new" /\ Free(i) /\ fs' = c.fs
      /\ itable' = Update(Update(itable, i, c.ip), dp, c.dp)
      /\ lock' = [lock EXCEPT ![i] = p, ![dp] = NoProc] /\ UNCHANGED <<disk, open, out>>
  BY Thread DEF CreateNew, At
<1>2. /\ Busy(fr) /\ fr.puts = <<>> /\ Aim(fr) = "new" /\ i \in Inum /\ dp \in Inum /\ fr.old = 0
      /\ lock[dp] = p
  BY <1>1, Creating
<1>3. /\ FrameOk(g) /\ Keeps(fr, g) /\ g.pc = "put" /\ Aim(g) = l /\ g.ip = i
      /\ \A x \in Inum : Own(g, x) = Own(fr, x)
  <2>1. l \in {"end", "opened", "made", "unlinked"} /\ Reg(l # "end", fr.ip)
    BY <1>2 DEF Reg
  <2> HIDE DEF l
  <2> QED
    BY <1>2, <2>1, DpToPuts
<1> HIDE DEF g, c
<1>4. Refs(p)
  BY <1>1, <1>2, <1>3, TwoUpdates, RefsSame
<1>5. Locks(p)
  <2>1. i # dp
    BY <1>1, <1>2, FilesAssumption DEF Free
  <2>2. \A x \in Inum : /\ AimLock(p, x)' <=> x = i
                        /\ AimLock(p, x) <=> x = dp
                        /\ ~PutLock(p, x) /\ ~PutLock(p, x)'
    BY <1>1, <1>2, <1>3 DEF PutLock, AimLock
  <2> QED
    BY <1>1, <1>2, <2>1, <2>2, FilesAssumption DEF Inv, LockInv, Locks, Free
<1>6. Writes(p)
  BY <1>1, <1>2, <1>3, LinkedAllowed, WritesAllowed DEF c
<1> QED
  BY <1>1, <1>3, <1>4, <1>5, <1>6, Inside DEF Outside

\* CreateFail keeps the invariant.
LEMMA CreateFailInv ==
  ASSUME Inv, NEW p \in Proc, CreateFail(p)
  PROVE  Inv'
<1> DEFINE fr == k[p]
           i  == fr.ip
           dp == fr.dp
           c  == Linked(p)
           d  == [c.ip EXCEPT !.nlink = 0]
           g  == Iput([fr EXCEPT !.ip = 0], <<i>>, "bad")
<1>1. /\ Goto(p, g) /\ k'[p] = g /\ fr.pc = "new" /\ Free(i) /\ fs' = Iupdate(c.fs, i, d)
      /\ itable' = Update(Update(itable, i, d), dp, c.dp)
      /\ UNCHANGED <<disk, lock, open, out>>
  BY Thread DEF CreateFail, At
<1>2. /\ Busy(fr) /\ fr.puts = <<>> /\ Aim(fr) = "new" /\ i \in Inum /\ dp \in Inum /\ fr.old = 0
      /\ lock[dp] = p
  BY <1>1, Creating
<1>3. /\ FrameOk(g) /\ Keeps(fr, g) /\ g.pc = "put" /\ Aim(g) = "bad" /\ g.dp = dp
      /\ \A x \in Inum : Own(g, x) = Own(fr, x)
  BY <1>2, IpToPuts DEF Reg
<1> HIDE DEF g, c, d
<1>4. Refs(p)
  BY <1>1, <1>2, <1>3, TwoUpdates, RefsSame
<1>5. Locks(p)
  BY <1>1, <1>2, <1>3, LocksSame DEF PutLock, AimLock
<1>6. Writes(p)
  <2>1. Allowed(p, c.fs)
    BY <1>1, <1>2, LinkedAllowed DEF c
  <2>2. Allowed(p, fs')
    BY <1>1, <2>1, AllowedSame, UpdateSame DEF Allowed
  <2> QED
    BY <1>1, <1>3, <2>2, WritesAllowed
<1> QED
  BY <1>1, <1>3, <1>4, <1>5, <1>6, Inside DEF Outside

\* DirFail keeps the invariant.
LEMMA DirFailInv ==
  ASSUME Inv, NEW p \in Proc, DirFail(p)
  PROVE  Inv'
<1> DEFINE fr == k[p]
           dp == fr.dp
           g  == Iput([fr EXCEPT !.dp = 0], <<dp>>, "end")
<1>1. /\ Goto(p, g) /\ k'[p] = g /\ FrameOk(fr) /\ fr.pc = "bad"
      /\ lock' = [lock EXCEPT ![dp] = NoProc]
      /\ UNCHANGED <<fs, disk, itable, open, out>>
  BY Thread DEF DirFail, At, Iunlock
<1>2. /\ Busy(fr) /\ fr.puts = <<>> /\ Aim(fr) = "bad" /\ fr.ip = 0 /\ dp \in Inum /\ fr.old = 0
  BY <1>1 DEF Busy, FrameOk, Reg, HasIp, HasDp, HasOld, Aim, Putting
<1>3. /\ FrameOk(g) /\ Keeps(fr, g) /\ g.pc = "put" /\ Aim(g) = "end"
      /\ \A x \in Inum : Own(g, x) = Own(fr, x)
  BY <1>2, DpToPuts DEF Reg
<1> HIDE DEF g
<1>4. Refs(p)
  BY <1>1, <1>3, RefNat, RefsSame DEF SameRef
<1>5. Locks(p)
  <2>1. \A x \in Inum : /\ AimLock(p, x) <=> x = dp
                        /\ ~PutLock(p, x) /\ ~AimLock(p, x)' /\ ~PutLock(p, x)'
    BY <1>1, <1>2, <1>3 DEF PutLock, AimLock
  <2> QED
    BY <1>1, <1>2, <2>1, LocksGive
<1>6. Writes(p)
  BY <1>1, <1>3, WritesNone
<1> QED
  BY <1>1, <1>3, <1>4, <1>5, <1>6, Inside DEF Outside

-----------------------------------------------------------------------------
(* sys_link and sys_unlink. *)

\* LinkCount keeps the invariant.
LEMMA LinkCountInv ==
  ASSUME Inv, NEW p \in Proc, LinkCount(p)
  PROVE  Inv'
<1> DEFINE fr == k[p]
           i  == fr.ip
           d  == Locked(i)
           e  == [d EXCEPT !.nlink = @ + 1]
           T  == Update(itable, i, e)
           j  == Start(p, fr.arg.new)
           g  == [fr EXCEPT !.pc = "walk", !.old = i, !.ip = j, !.path = Names(fr.arg.new),
                            !.arg = Arg("dirlink")]
<1>1. /\ Goto(p, g) /\ k'[p] = g /\ FrameOk(fr) /\ Shape(fr) /\ fr.pc = "link"
      /\ fs' = Iupdate(fs, i, e)
      /\ itable' = Iget(T, j) /\ UNCHANGED <<disk, lock, open, out>>
  BY Thread DEF LinkCount, At
<1>2. /\ Busy(fr) /\ fr.puts = <<>> /\ Aim(fr) = "link" /\ i \in Inum /\ fr.dp = 0 /\ fr.old = 0
  BY <1>1 DEF Busy, FrameOk, Reg, HasIp, HasDp, HasOld, Aim, Putting
<1>3. j \in Inum
  <2>1. ~Gone(fr)
    BY <1>1, <1>2, BusyIs DEF Gone
  <2> QED
    BY <2>1, StartIs
<1>4. /\ Keeps(fr, g) /\ g.pc = "walk" /\ g.ip = j /\ g.dp = 0 /\ g.old = i /\ g.puts = <<>>
      /\ g.arg.call = "dirlink"
  <2>1. Shape(g)
    BY <1>1, Zenon, Sets
  <2> QED
    BY <1>1, <1>2, <2>1 DEF Keeps, Shape, Arg
<1> HIDE DEF g, j, e
<1>5. Aim(g) = "walk"
  BY <1>4 DEF Aim, Putting
<1>6. FrameOk(g)
  BY <1>2, <1>3, <1>4, <1>5, NoPut DEF Reg, HasIp, HasDp, HasOld, Putting, Label
<1>7. Refs(p)
  <2>1. \A x \in Inum : Is(0, x) = 0 /\ \A y : Is(y, x) \in {0, 1}
    BY Sizes DEF Is
  <2>2. \A x \in Inum : Own(g, x) = Own(fr, x) + Is(j, x)
    BY <1>2, <1>4, <2>1, OwnRegs
  <2>3. SameRef(itable, T) /\ \A x \in Inum : itable[x].ref \in Nat
    BY <1>2, RefNat, UpdateRef
  <2> HIDE DEF T
  <2>4. GainRef(T, Iget(T, j), j)
    BY <1>3, <2>3, IgetRef DEF SameRef
  <2>5. GainRef(itable, itable', j)
    BY <1>1, <2>3, <2>4 DEF SameRef, GainRef
  <2> QED
    BY <1>1, <1>3, <2>2, <2>5, RefsGain
<1>8. Locks(p)
  BY <1>1, <1>2, <1>4, <1>5, LocksSame DEF PutLock, AimLock
<1>9. Writes(p)
  <2>1. Same(fs, fs')
    BY <1>1, UpdateSame DEF Inv, DiskInv
  <2> QED
    BY <1>1, <1>4, <2>1 DEF Writes, Same, Inv, DiskInv
<1> QED
  BY <1>1, <1>4, <1>6, <1>7, <1>8, <1>9, Inside DEF Outside

\* Two inodes to put.
LEMMA TwoPut ==
  ASSUME NEW fr, Busy(fr), fr.ip \in Inum, fr.dp = 0, fr.old \in Inum
  PROVE  LET g == Iput([fr EXCEPT !.ip = 0, !.old = 0], <<fr.ip, fr.old>>, "end") IN
         /\ FrameOk(g) /\ Keeps(fr, g) /\ g.pc = "put" /\ Aim(g) = "end"
         /\ \A x \in Inum : Own(g, x) = Own(fr, x)
<1> DEFINE h == [fr EXCEPT !.ip = 0, !.old = 0]
           s == <<fr.ip, fr.old>>
           g == Iput(h, s, "end")
<1>1. Shape(h) /\ Keeps(fr, h) /\ h.ip = 0 /\ h.dp = fr.dp /\ h.old = 0 /\ h.arg = fr.arg
  <2>1. Shape(fr)
    BY BusyIs
  <2>2. Shape(h)
    BY <2>1, Zenon, Sets
  <2> QED
    BY <2>1, <2>2 DEF Keeps, Shape
<1> HIDE DEF h
<1>2. /\ Keeps(h, g) /\ g.pc = "put" /\ g.ret = "end" /\ Aim(g) = "end"
      /\ g.ip = h.ip /\ g.dp = h.dp /\ g.old = h.old /\ g.puts = s /\ g.arg = h.arg
  BY <1>1, IputFrame
<1> HIDE DEF g
<1>3. s \in Seq(Inum) /\ Len(s) = 2 /\ s # <<>>
  OBVIOUS
<1>4. g.after \notin {"write", "dead"} /\ g.after \in {"user", "exit", "write", "dead", "reclaim"}
  BY <1>1, <1>2, BusyIs DEF Keeps
<1>5. FrameOk(g)
  BY <1>1, <1>2, <1>3, <1>4
     DEF FrameOk, Keeps, Label, Returns, Putting, Reg, HasIp, HasDp, HasOld
<1>6. \A x \in Inum : Own(g, x) = Own(fr, x)
  <2>1. \A x \in Inum : Is(0, x) = 0 /\ \A y : Is(y, x) \in {0, 1}
    BY Sizes DEF Is
  <2>2. \A x \in Inum : PutsIn(g, x) = Is(fr.ip, x) + Is(fr.old, x) /\ RegsIn(g, x) = 0
    BY <1>1, <1>2, <2>1, PutsTwo DEF RegsIn
  <2> QED
    BY <2>1, <2>2, BusyIs, OwnRegs DEF Own
<1>7. Keeps(fr, g) /\ g.pc = "put" /\ Aim(g) = "end"
  BY <1>1, <1>2 DEF Keeps
<1> QED
  BY <1>5, <1>6, <1>7 DEF g, h

\* LinkEntry keeps the invariant.
LEMMA LinkEntryInv ==
  ASSUME Inv, NEW p \in Proc, LinkEntry(p)
  PROVE  Inv'
<1> DEFINE fr == k[p]
           dp == fr.ip
           i  == fr.old
           r  == DirLink(fs, dp, Locked(dp), Head(fr.path), i)
           g1 == Iput([fr EXCEPT !.ip = 0, !.old = 0], <<dp, i>>, "end")
           g2 == Iput([fr EXCEPT !.ip = 0], <<dp>>, "badlink")
           g  == IF r.ok THEN g1 ELSE g2
<1>1. /\ Goto(p, g) /\ k'[p] = g /\ FrameOk(fr) /\ fr.pc = "dirlink" /\ Free(dp) /\ fs' = r.fs
      /\ itable' = Update(itable, dp, r.d) /\ UNCHANGED <<disk, lock, open, out>>
  BY Thread DEF LinkEntry, At
<1>2. /\ Busy(fr) /\ fr.puts = <<>> /\ Aim(fr) = "dirlink" /\ dp \in Inum /\ fr.dp = 0 /\ i \in Inum
  BY <1>1 DEF Busy, FrameOk, Reg, HasIp, HasDp, HasOld, Aim, Putting
<1>3. /\ FrameOk(g) /\ Keeps(fr, g) /\ g.pc = "put" /\ Aim(g) \in {"end", "badlink"}
      /\ \A x \in Inum : Own(g, x) = Own(fr, x)
  <2>1. /\ FrameOk(g1) /\ Keeps(fr, g1) /\ g1.pc = "put" /\ Aim(g1) = "end"
        /\ \A x \in Inum : Own(g1, x) = Own(fr, x)
    BY <1>2, TwoPut
  <2>2. /\ FrameOk(g2) /\ Keeps(fr, g2) /\ g2.pc = "put" /\ Aim(g2) = "badlink"
        /\ \A x \in Inum : Own(g2, x) = Own(fr, x)
    BY <1>2, IpToPuts DEF Reg
  <2> HIDE DEF g1, g2, r
  <2> QED
    BY <2>1, <2>2
<1> HIDE DEF g
<1>4. Refs(p)
  BY <1>1, <1>2, <1>3, RefNat, UpdateRef, RefsSame
<1>5. Locks(p)
  BY <1>1, <1>2, <1>3, LocksSame DEF PutLock, AimLock
<1>6. Writes(p)
  <2>1. Only(fs, fs', dp)
    BY <1>1, <1>2, DirLinkOnly DEF Inv, DiskInv
  <2> QED
    BY <1>1, <1>3, <2>1, WritesOnly DEF Free
<1> QED
  BY <1>1, <1>3, <1>4, <1>5, <1>6, Inside DEF Outside

\* BadLink keeps the invariant.
LEMMA BadLinkInv ==
  ASSUME Inv, NEW p \in Proc, BadLink(p)
  PROVE  Inv'
<1> DEFINE fr == k[p]
           i  == fr.old
           d  == [Locked(i) EXCEPT !.nlink = @ - 1]
           g  == Iput([fr EXCEPT !.old = 0], <<i>>, "end")
<1>1. /\ Goto(p, g) /\ k'[p] = g /\ FrameOk(fr) /\ fr.pc = "badlink" /\ fs' = Iupdate(fs, i, d)
      /\ itable' = Update(itable, i, d) /\ UNCHANGED <<disk, lock, open, out>>
  BY Thread DEF BadLink, At
<1>2. /\ Busy(fr) /\ fr.puts = <<>> /\ Aim(fr) = "badlink" /\ fr.ip = 0 /\ fr.dp = 0 /\ i \in Inum
  BY <1>1 DEF Busy, FrameOk, Reg, HasIp, HasDp, HasOld, Aim, Putting
<1>3. /\ Keeps(fr, g) /\ g.pc = "put" /\ g.ret = "end" /\ Aim(g) = "end"
      /\ g.ip = 0 /\ g.dp = 0 /\ g.old = 0 /\ g.puts = <<i>> /\ g.arg = fr.arg
  <2>1. Shape(fr)
    BY <1>2, BusyIs
  <2>2. /\ Keeps(fr, g) /\ g.pc = "put" /\ g.ret = "end" /\ Aim(g) = "end"
        /\ g.ip = fr.ip /\ g.dp = fr.dp /\ g.old = 0 /\ g.puts = <<i>> /\ g.arg = fr.arg
    BY <2>1, IputOld
  <2> QED
    BY <1>2, <2>2
<1> HIDE DEF g, d
<1>4. FrameOk(g)
  BY <1>2, <1>3, OnePut DEF Reg, HasIp, HasDp, HasOld, Returns
<1>5. Refs(p)
  <2>1. \A x \in Inum : Is(0, x) = 0 /\ \A y : Is(y, x) \in {0, 1}
    BY Sizes DEF Is
  <2>2. \A x \in Inum : Own(g, x) = Own(fr, x)
    BY <1>2, <1>3, <2>1, OwnRegs, OwnPuts
  <2> QED
    BY <1>1, <1>2, <2>2, RefNat, UpdateRef, RefsSame
<1>6. Locks(p)
  BY <1>1, <1>2, <1>3, LocksSame DEF PutLock, AimLock
<1>7. Writes(p)
  <2>1. Same(fs, fs')
    BY <1>1, UpdateSame DEF Inv, DiskInv
  <2> QED
    BY <1>1, <1>3, <2>1 DEF Writes, Same, Inv, DiskInv
<1> QED
  BY <1>1, <1>3, <1>4, <1>5, <1>6, <1>7, Inside DEF Outside

\* UnlinkFound keeps the invariant.
LEMMA UnlinkFoundInv ==
  ASSUME Inv, NEW p \in Proc, UnlinkFound(p)
  PROVE  Inv'
<1> DEFINE fr == k[p]
           dp == fr.ip
           i  == fs.ents[dp][Entry(p)].inum
           g  == [fr EXCEPT !.pc = "remove", !.dp = dp, !.ip = i]
<1>1. /\ Goto(p, g) /\ k'[p] = g /\ FrameOk(fr) /\ Shape(fr) /\ fr.pc = "unlink" /\ Free(dp)
      /\ Entry(p) # 0
      /\ itable' = Iget(Ilock(itable, dp), i) /\ lock' = [lock EXCEPT ![dp] = p]
      /\ UNCHANGED <<fs, disk, open, out>>
  BY Thread DEF UnlinkFound, At
<1>2. /\ Busy(fr) /\ fr.puts = <<>> /\ Aim(fr) = fr.pc /\ dp \in Inum /\ fr.dp = 0 /\ fr.old = 0
  BY <1>1 DEF Busy, FrameOk, Reg, HasIp, HasDp, HasOld, Aim, Putting
<1>3. Entry(p) = DirLookup(fs, dp, Head(fr.path)) /\ i \in Inum
  <2>1. Entry(p) = DirLookup(fs, dp, Head(fr.path))
    BY <1>2 DEF Entry
  <2> DEFINE j == DirLookup(fs, dp, Head(fr.path))
  <2>2. j = 0 \/ fs.ents[dp][j].inum \in Inum
    BY <1>2, Lookup DEF Inv, DiskInv
  <2> HIDE DEF j
  <2> QED
    BY <1>1, <2>1, <2>2 DEF j
<1> HIDE DEF i
<1>4. /\ Keeps(fr, g) /\ g.pc = "remove" /\ g.ip = i /\ g.dp = dp /\ g.old = 0 /\ g.puts = <<>>
      /\ g.arg = fr.arg /\ g.path = fr.path
  <2>1. Shape(g)
    BY <1>1, Zenon, Sets
  <2> QED
    BY <1>1, <1>2, <2>1 DEF Keeps, Shape
<1> HIDE DEF g
<1>5. Aim(g) = "remove"
  BY <1>4 DEF Aim, Putting
<1>6. FrameOk(g)
  BY <1>2, <1>3, <1>4, <1>5, NoPut DEF Reg, HasIp, HasDp, HasOld, Putting, Label
<1>7. Refs(p)
  <2>1. \A x \in Inum : Is(0, x) = 0 /\ \A y : Is(y, x) \in {0, 1}
    BY Sizes DEF Is
  <2>2. \A x \in Inum : Own(g, x) = Own(fr, x) + Is(i, x)
    BY <1>2, <1>4, <2>1, OwnRegs
  <2>3. GainRef(itable, itable', i)
    BY <1>1, <1>2, <1>3, LockGet
  <2> QED
    BY <1>1, <1>3, <2>2, <2>3, RefsGain
<1>8. Locks(p)
  <2>1. \A x \in Inum : /\ AimLock(p, x)' <=> x = dp
                        /\ ~PutLock(p, x) /\ ~AimLock(p, x) /\ ~PutLock(p, x)'
    BY <1>1, <1>2, <1>4, <1>5 DEF PutLock, AimLock
  <2> QED
    BY <1>1, <1>2, <2>1, LocksTake
<1>9. Writes(p)
  <2>1. Entry(p)' = Entry(p)
    <3>1. dp # 0
      BY <1>2, Sizes
    <3> QED
      BY <1>1, <1>3, <1>4, <3>1 DEF Entry
  <2> QED
    BY <1>1, <2>1 DEF Writes, Inv, DiskInv
<1> QED
  BY <1>1, <1>4, <1>6, <1>7, <1>8, <1>9, Inside DEF Outside

\* The frame of unlink when it has found the entry.
LEMMA Removing ==
  ASSUME Inv, NEW p \in Proc, k[p].pc = "remove"
  PROVE  /\ Busy(k[p]) /\ k[p].puts = <<>> /\ Aim(k[p]) = "remove" /\ k[p].ip \in Inum
         /\ k[p].dp \in Inum /\ k[p].old = 0 /\ lock[k[p].dp] = p
         /\ Entry(p) \in 1 .. Len(fs.ents[k[p].dp])
<1>1. /\ Busy(k[p]) /\ k[p].puts = <<>> /\ Aim(k[p]) = "remove" /\ k[p].ip \in Inum
      /\ k[p].dp \in Inum
      /\ k[p].old = 0
  BY DEF Inv, ThreadInv, Busy, FrameOk, Reg, HasIp, HasDp, HasOld, Aim, Putting
<1>2. lock[k[p].dp] = p
  BY <1>1, Mine DEF AimLock
<1>3. Entry(p) # 0 /\ k[p].dp # 0
  BY <1>1, Sizes DEF Inv, EntryInv, At
<1>4. Entry(p) = DirLookup(fs, k[p].dp, Head(k[p].path))
  BY <1>3 DEF Entry
<1> QED
  BY <1>1, <1>2, <1>3, <1>4, Lookup DEF Inv, DiskInv

\* UnlinkNotEmpty keeps the invariant.
LEMMA UnlinkNotEmptyInv ==
  ASSUME Inv, NEW p \in Proc, UnlinkNotEmpty(p)
  PROVE  Inv'
<1> DEFINE fr == k[p]
           i  == fr.ip
           g  == Iput([fr EXCEPT !.ip = 0], <<i>>, "bad")
<1>1. /\ Goto(p, g) /\ k'[p] = g /\ fr.pc = "remove" /\ itable' = Ilock(itable, i)
      /\ UNCHANGED <<fs, disk, lock, open, out>>
  BY Thread DEF UnlinkNotEmpty, At
<1>2. /\ Busy(fr) /\ fr.puts = <<>> /\ Aim(fr) = "remove" /\ i \in Inum /\ fr.dp \in Inum
      /\ fr.old = 0
  BY <1>1, Removing
<1>3. /\ FrameOk(g) /\ Keeps(fr, g) /\ g.pc = "put" /\ Aim(g) = "bad" /\ g.dp = fr.dp
      /\ \A x \in Inum : Own(g, x) = Own(fr, x)
  BY <1>2, IpToPuts DEF Reg
<1> HIDE DEF g
<1>4. Refs(p)
  BY <1>1, <1>2, <1>3, RefNat, IlockRef, RefsSame
<1>5. Locks(p)
  BY <1>1, <1>2, <1>3, LocksSame DEF PutLock, AimLock
<1>6. Writes(p)
  BY <1>1, <1>3, WritesNone
<1> QED
  BY <1>1, <1>3, <1>4, <1>5, <1>6, Inside DEF Outside

\* UnlinkRemove keeps the invariant.
LEMMA UnlinkRemoveInv ==
  ASSUME Inv, NEW p \in Proc, UnlinkRemove(p)
  PROVE  Inv'
<1> DEFINE fr == k[p]
           i  == fr.ip
           dp == fr.dp
           w  == WriteEntry(fs, dp, itable[dp].d, Entry(p), NoEntry)
           d  == IF Locked(i).type = "dir" THEN [w.d EXCEPT !.nlink = @ - 1] ELSE w.d
           g  == Iput([fr EXCEPT !.dp = 0], <<dp>>, "unlinked")
<1>1. /\ Goto(p, g) /\ k'[p] = g /\ fr.pc = "remove" /\ Free(i) /\ fs' = Iupdate(w.fs, dp, d)
      /\ itable' = Update(Ilock(itable, i), dp, d)
      /\ lock' = [lock EXCEPT ![i] = p, ![dp] = NoProc] /\ UNCHANGED <<disk, open, out>>
  BY Thread DEF UnlinkRemove, At
<1>2. /\ Busy(fr) /\ fr.puts = <<>> /\ Aim(fr) = "remove" /\ i \in Inum /\ dp \in Inum /\ fr.old = 0
      /\ lock[dp] = p /\ Entry(p) \in 1 .. Len(fs.ents[dp])
  BY <1>1, Removing
<1>3. /\ FrameOk(g) /\ Keeps(fr, g) /\ g.pc = "put" /\ Aim(g) = "unlinked" /\ g.ip = i
      /\ \A x \in Inum : Own(g, x) = Own(fr, x)
  BY <1>2, DpToPuts DEF Reg
<1> HIDE DEF g, d
<1>4. Refs(p)
  <2> DEFINE T == Ilock(itable, i)
  <2>1. SameRef(itable, T)
    BY <1>2, RefNat, IlockRef
  <2> HIDE DEF T
  <2>2. SameRef(T, Update(T, dp, d))
    BY <1>2, <2>1, UpdateRef DEF SameRef
  <2>3. SameRef(itable, itable')
    BY <1>1, <2>1, <2>2 DEF SameRef, T
  <2> QED
    BY <1>1, <1>3, <2>3, RefsSame
<1>5. Locks(p)
  <2>1. i # dp
    BY <1>1, <1>2, FilesAssumption DEF Free
  <2>2. \A x \in Inum : /\ AimLock(p, x)' <=> x = i
                        /\ AimLock(p, x) <=> x = dp
                        /\ ~PutLock(p, x) /\ ~PutLock(p, x)'
    BY <1>1, <1>2, <1>3 DEF PutLock, AimLock
  <2> QED
    BY <1>1, <1>2, <2>1, <2>2, FilesAssumption DEF Inv, LockInv, Locks, Free
<1>6. Writes(p)
  <2>1. Entry(p) \in 1 .. Len(fs.ents[dp]) + 1 /\ NoEntry.inum \in 0 .. NInode
    BY <1>2, Sizes DEF NoEntry, Dirent, Inv, DiskInv, FsOk, DirOk
  <2>2. Only(fs, w.fs, dp)
    BY <1>2, <2>1, WriteEntryOnly DEF Inv, DiskInv
  <2> HIDE DEF w
  <2>3. Same(w.fs, fs')
    BY <1>1, <2>2, UpdateSame DEF Only
  <2>4. Only(fs, fs', dp)
    BY <2>2, <2>3 DEF Only, Same
  <2> QED
    BY <1>1, <1>2, <1>3, <2>4, WritesOnly
<1> QED
  BY <1>1, <1>3, <1>4, <1>5, <1>6, Inside DEF Outside

-----------------------------------------------------------------------------
(* Open files, as long as their references stay. *)

\* A file's reference count is the number of descriptors that name it.
LEMMA FdCount ==
  ASSUME Inv, NEW f \in File
  PROVE  ftable[f].ref = Count(fds, Proc \X Fd, f) /\ Count(fds, Proc \X Fd, f) \in Nat
<1>1. {x \in Proc \X Fd : ofile[x[1]][x[2]] = f} = {x \in Proc \X Fd : fds[x] = f}
  BY DEF fds
<1>2. ftable[f].ref = Cardinality({x \in Proc \X Fd : ofile[x[1]][x[2]] = f})
  BY DEF Inv, RefInv
<1>3. ftable[f].ref = Count(fds, Proc \X Fd, f)
  BY <1>1, <1>2 DEF Count
<1> QED
  BY <1>3, Finite, CountNat

\* A descriptor refers to a file that is counted, and a file to an inode.
LEMMA FdFile ==
  ASSUME Inv, NEW p \in Proc, NEW fd \in Fd, ofile[p][fd] # 0
  PROVE  LET f == ofile[p][fd] IN
         /\ f \in File /\ ftable[f].ref \in Nat \ {0} /\ ftable[f].ip \in Inum
<1> DEFINE f == ofile[p][fd]
<1>1. f \in File
  <2>1. f \in 0 .. NFile /\ NFile \in Nat
    BY FilesAssumption DEF Inv, FileInv
  <2> HIDE DEF f
  <2>2. f # 0
    BY DEF f
  <2> QED
    BY <2>1, <2>2 DEF File
<1>2. fds[<<p, fd>>] = f /\ <<p, fd>> \in Proc \X Fd
  BY DEF fds
<1> HIDE DEF f
<1>3. Count(fds, Proc \X Fd, f) >= 1
  BY <1>2, Finite, OneCounts
<1>4. ftable[f].ref \in Nat \ {0}
  BY <1>1, <1>3, FdCount
<1>5. ftable[f].ip \in Inum
  BY <1>1, <1>4 DEF Inv, FileInv, FileOk
<1> QED
  BY <1>1, <1>4, <1>5 DEF f

\* The file that a thread writes.
LEMMA WritingFile ==
  ASSUME Inv, NEW p \in Proc, Writing(k[p])
  PROVE  k[p].f \in File /\ ftable[k[p].f].ref \in Nat \ {0} /\ ftable[k[p].f].ip \in Inum
<1>1. PICK fd \in Fd : ofile[p][fd] = k[p].f
  BY DEF Inv, FileInv
<1>2. k[p].f # 0
  BY DEF Inv, FileInv, File
<1> QED
  BY <1>1, <1>2, FdFile

\* A step of a thread that changes who refers to what.
LEMMA FinishFiles ==
  ASSUME Inv, NEW p \in Proc, Steps(p), FrameOk(k'[p]), FileInv', RefInv', TableOk(itable'),
         Locks(p), Writes(p), Leaves(p),
         \A q \in Proc : q # p /\ k[q].pc \in {"writei", "written"} =>
           ftable'[k[q].f].ip = ftable[k[q].f].ip
  PROVE  Inv'
<1>1. ThreadInv'
  BY OthersStay DEF Inv
<1>2. LockInv' /\ EntryInv'
  BY LocksKept, EntriesKept DEF Inv
<1>3. DiskInv' /\ ItableInv'
  BY DEF Writes, DiskInv, TableOk, ItableInv
<1>4. OutInv'
  BY OthersStay DEF Inv, Leaves, OutInv
<1> QED
  BY <1>1, <1>2, <1>3, <1>4 DEF Inv

\* SysWrite keeps the invariant.
LEMMA SysWriteInv ==
  ASSUME Inv, NEW p \in Proc, NEW fd \in Fd, NEW n, SysWrite(p, fd, n)
  PROVE  Inv'
<1> DEFINE fr == k[p]
           f  == ofile[p][fd]
           g  == [Frame("write") EXCEPT !.f = f, !.n = n]
<1>1. /\ Goto(p, g) /\ Steps(p) /\ k'[p] = g /\ FrameOk(fr) /\ fr.pc = "user" /\ f # 0
      /\ UNCHANGED <<fs, disk, mem, open, out>>
  BY Thread DEF SysWrite, At, Argfd
<1>2. /\ fr.ip = 0 /\ fr.dp = 0 /\ fr.old = 0 /\ fr.puts = <<>> /\ Aim(fr) = "user"
      /\ fr.after \notin {"write", "dead"}
  BY <1>1 DEF FrameOk, Reg, HasIp, HasDp, HasOld, Aim, Putting
<1>3. f \in File
  BY <1>1, FdFile
<1>4. /\ Shape(g) /\ g.pc = "write" /\ g.ret = "write" /\ g.after = "user" /\ g.ip = 0 /\ g.dp = 0
      /\ g.old = 0 /\ g.puts = <<>> /\ g.f = f
  <2>1. Shape(g)
    BY Zenon, FrameShape, Sets
  <2> QED
    BY <2>1, FrameShape, FrameFields DEF Shape
<1> HIDE DEF g
<1>5. FrameOk(g)
  <2>1. <<>> \in Seq(Inum) /\ Len(<<>>) = 0
    OBVIOUS
  <2> QED
    BY <1>4, <2>1 DEF FrameOk, Reg, HasIp, HasDp, HasOld, Aim, Putting, Label
<1>6. FileInv'
  <2>1. ~Gone(fr) /\ ~Gone(g)
    BY <1>1, <1>2, <1>4 DEF Gone
  <2>2. \A q \in Proc : q # p => k'[q] = k[q]
    BY <1>1, OthersStay DEF Inv
  <2>3. UNCHANGED <<ftable, ofile, cwd>>
    BY <1>1 DEF open
  <2>4. ofile[p][fd] = g.f /\ g.f \in File
    BY <1>3, <1>4
  <2> QED
    BY <1>1, <2>1, <2>2, <2>3, <2>4 DEF Inv, FileInv
<1>7. Refs(p)
  <2>1. \A x \in Inum : Own(g, x) = Own(fr, x)
    BY <1>2, <1>4, OwnNothing
  <2> QED
    BY <1>1, <2>1, RefNat, RefsSame DEF SameRef, mem
<1>8. RefInv'
  BY <1>1, <1>5, <1>7, RefsKept, OthersStay DEF Inv, open
<1>9. Locks(p)
  BY <1>1, <1>2, <1>4, LocksSame DEF PutLock, AimLock, Aim, Putting, mem
<1>10. Writes(p)
  BY <1>1, <1>4, WritesNone
<1>11. Leaves(p)
  BY <1>1 DEF Leaves, Inv, OutInv
<1> QED
  BY <1>1, <1>5, <1>6, <1>7, <1>8, <1>9, <1>10, <1>11, FinishFiles DEF Refs, open

\* The frame of filewrite.
LEMMA WriteFrame ==
  ASSUME Inv, NEW p \in Proc, k[p].pc \in {"write", "writelock", "writei", "written"}
  PROVE  /\ Busy(k[p]) /\ Shape(k[p]) /\ k[p].puts = <<>> /\ Aim(k[p]) = k[p].pc
         /\ k[p].ip = 0 /\ k[p].dp = 0 /\ k[p].old = 0 /\ Writing(k[p])
         /\ k[p].after \notin {"write", "dead"}
         /\ ftable[k[p].f].ip \in Inum /\ k[p].f \in File
<1>1. /\ Busy(k[p]) /\ Shape(k[p]) /\ k[p].puts = <<>> /\ Aim(k[p]) = k[p].pc
      /\ k[p].ip = 0 /\ k[p].dp = 0 /\ k[p].old = 0 /\ k[p].after \notin {"write", "dead"}
  BY DEF Inv, ThreadInv, Busy, FrameOk, Reg, HasIp, HasDp, HasOld, Aim, Putting
<1>2. Writing(k[p])
  BY DEF Writing
<1> QED
  BY <1>1, <1>2, WritingFile

\* A step of filewrite from label to label.
LEMMA WriteStep ==
  ASSUME Inv, NEW p \in Proc, k[p].pc \in {"write", "writelock", "writei", "written"},
         NEW g, Goto(p, g), Keeps(k[p], g), g.pc \in {"writelock", "writei", "written", "end"},
           g.ip = 0,
         g.dp = 0, g.old = 0, g.puts = <<>>, SameRef(itable, itable'), Same(fs, fs'),
         UNCHANGED <<open, disk>>, Locks(p), \A q \in Proc : q # p => (q \in out' <=> q \in out)
  PROVE  Inv'
<1>1. Steps(p) /\ k'[p] = g
  BY Thread
<1>2. FrameOk(g)
  <2>1. <<>> \in Seq(Inum) /\ Len(<<>>) = 0
    OBVIOUS
  <2>2. Busy(k[p])
    BY WriteFrame
  <2>3. g.after \notin {"write", "dead"} /\ g.after \in {"user", "exit", "write", "dead", "reclaim"}
    BY <2>2, BusyIs DEF Keeps
  <2> QED
    BY <2>1, <2>3 DEF FrameOk, Keeps, Reg, HasIp, HasDp, HasOld, Aim, Putting, Label
<1>3. Stays(p)
  BY <1>1, WriteFrame, StaysKeeps
<1>4. Refs(p)
  BY <1>1, WriteFrame, OwnNothing, RefsSame
<1>5. Writes(p)
  BY <1>1 DEF Writes, Same, Inv, DiskInv
<1>6. Leaves(p)
  BY <1>1 DEF Leaves
<1> QED
  BY <1>1, <1>2, <1>3, <1>4, <1>5, <1>6, Finish

\* WriteBegin keeps the invariant.
LEMMA WriteBeginInv ==
  ASSUME Inv, NEW p \in Proc, WriteBegin(p)
  PROVE  Inv'
<1> DEFINE fr == k[p]
           g  == [fr EXCEPT !.pc = "writelock"]
<1>1. Goto(p, g) /\ k'[p] = g /\ fr.pc = "write" /\ UNCHANGED <<fs, disk, mem, open>>
  BY Thread DEF WriteBegin, At, To
<1>2. /\ Keeps(fr, g) /\ g.pc = "writelock" /\ g.ip = 0 /\ g.dp = 0 /\ g.old = 0 /\ g.puts = <<>>
  <2>1. Shape(fr) /\ fr.ip = 0 /\ fr.dp = 0 /\ fr.old = 0 /\ fr.puts = <<>>
    BY <1>1, WriteFrame
  <2>2. /\ Keeps(fr, g) /\ g.pc = "writelock" /\ g.ip = fr.ip /\ g.dp = fr.dp /\ g.old = fr.old
        /\ g.puts = fr.puts
    BY <2>1, LabelFrame
  <2> HIDE DEF g
  <2> QED
    BY <2>1, <2>2
<1> HIDE DEF g
<1>3. Locks(p)
  BY <1>1, <1>2, WriteFrame, LocksSame DEF PutLock, AimLock, Aim, Putting, mem
<1>4. SameRef(itable, itable') /\ Same(fs, fs')
  BY <1>1, RefNat DEF SameRef, Same, Inv, DiskInv, mem
<1> QED
  BY <1>1, <1>2, <1>3, <1>4, WriteStep DEF WriteBegin

\* WriteLock keeps the invariant.
LEMMA WriteLockInv ==
  ASSUME Inv, NEW p \in Proc, WriteLock(p)
  PROVE  Inv'
<1> DEFINE fr == k[p]
           i  == ftable[fr.f].ip
           g1 == [fr EXCEPT !.pc = "end"]
           g2 == [fr EXCEPT !.pc = "writei"]
<1>1. fr.pc = "writelock" /\ itable' = Ilock(itable, i) /\ UNCHANGED <<fs, disk, open, out>>
        /\ Free(i)
  BY DEF WriteLock, At
<1>2. /\ Shape(fr) /\ i \in Inum /\ fr.puts = <<>> /\ fr.ip = 0 /\ fr.dp = 0 /\ fr.old = 0
      /\ Aim(fr) = "writelock"
  BY <1>1, WriteFrame
<1>3. SameRef(itable, itable') /\ Same(fs, fs')
  BY <1>1, <1>2, RefNat, IlockRef DEF Same, Inv, DiskInv
<1>4. CASE Goto(p, g1) /\ UNCHANGED lock
  <2>1. /\ Keeps(fr, g1) /\ g1.pc = "end" /\ g1.ip = 0 /\ g1.dp = 0 /\ g1.old = 0 /\ g1.puts = <<>>
    BY <1>2, LabelFrame
  <2> HIDE DEF g1
  <2>2. k'[p] = g1
    BY <1>4, Thread
  <2>3. Locks(p)
    BY <1>1, <1>2, <1>4, <2>1, <2>2, LocksSame DEF PutLock, AimLock, Aim, Putting
  <2> QED
    BY <1>1, <1>3, <1>4, <2>1, <2>3, WriteStep
<1>5. CASE Goto(p, g2) /\ lock' = [lock EXCEPT ![i] = p]
  <2>1. /\ Keeps(fr, g2) /\ g2.pc = "writei" /\ g2.ip = 0 /\ g2.dp = 0 /\ g2.old = 0
        /\ g2.puts = <<>>
    BY <1>2, LabelFrame
  <2> HIDE DEF g2
  <2>2. k'[p] = g2
    BY <1>5, Thread
  <2>3. Locks(p)
    <3>1. g2.f = fr.f /\ ftable' = ftable /\ Aim(g2) = "writei"
      BY <1>1, <2>1 DEF Keeps, open, Aim, Putting
    <3>2. \A x \in Inum : /\ AimLock(p, x)' <=> x = i
                          /\ ~PutLock(p, x) /\ ~AimLock(p, x) /\ ~PutLock(p, x)'
      BY <1>1, <1>2, <2>1, <2>2, <3>1 DEF PutLock, AimLock
    <3> QED
      BY <1>1, <1>2, <1>5, <3>2, LocksTake
  <2> QED
    BY <1>1, <1>3, <1>5, <2>1, <2>3, WriteStep
<1> QED
  BY <1>4, <1>5 DEF WriteLock, To

\* WriteBlock keeps the invariant.
LEMMA WriteBlockInv ==
  ASSUME Inv, NEW p \in Proc, WriteBlock(p)
  PROVE  Inv'
<1> DEFINE fr == k[p]
           i  == ftable[fr.f].ip
           b  == Bmap(fs, itable[i].d, ftable[fr.f].off + fr.m)
           g1 == [fr EXCEPT !.m = fr.m + 1]
           g2 == [fr EXCEPT !.pc = "written"]
<1>1. /\ fr.pc = "writei" /\ fs' = b.fs /\ itable' = [itable EXCEPT ![i].d = b.d]
      /\ UNCHANGED <<disk, lock, open, out>> /\ (Goto(p, g1) \/ Goto(p, g2))
  BY DEF WriteBlock, At, To
<1>2. /\ Shape(fr) /\ i \in Inum /\ fr.puts = <<>> /\ fr.ip = 0 /\ fr.dp = 0 /\ fr.old = 0
      /\ Aim(fr) = "writei"
  BY <1>1, WriteFrame
<1>3. SameRef(itable, itable') /\ Same(fs, fs')
  <2>1. Same(fs, fs')
    BY <1>1, BmapSame DEF Inv, DiskInv
  <2> HIDE DEF b
  <2> QED
    BY <1>1, <1>2, <2>1, RefNat, SetRef
<1>4. ASSUME NEW g, Goto(p, g), Keeps(fr, g), g.pc \in {"writei", "written"}, g.ip = 0, g.dp = 0,
             g.old = 0,
             g.puts = <<>>
      PROVE  Inv'
  <2>1. k'[p] = g
    BY <1>4, Thread
  <2>2. Locks(p)
    <3>1. g.f = fr.f /\ ftable' = ftable /\ Aim(g) = g.pc
      BY <1>1, <1>4 DEF Keeps, open, Aim, Putting
    <3> QED
      BY <1>1, <1>2, <1>4, <2>1, <3>1, LocksSame DEF PutLock, AimLock
  <2> QED
    BY <1>1, <1>3, <1>4, <2>2, WriteStep
<1>5. /\ Keeps(fr, g1) /\ g1.pc = "writei" /\ g1.ip = 0 /\ g1.dp = 0 /\ g1.old = 0 /\ g1.puts = <<>>
  <2>1. Shape(g1)
    BY <1>2, Sets
  <2> QED
    BY <1>1, <1>2, <2>1 DEF Keeps, Shape
<1>6. /\ Keeps(fr, g2) /\ g2.pc = "written" /\ g2.ip = 0 /\ g2.dp = 0 /\ g2.old = 0
      /\ g2.puts = <<>>
  BY <1>2, LabelFrame
<1> HIDE DEF g1, g2
<1> QED
  BY <1>1, <1>4, <1>5, <1>6

-----------------------------------------------------------------------------
(* Open files that change. *)

\* An offset says nothing of who refers to what.
LEMMA OffsetKeeps ==
  ASSUME Inv, NEW f \in File, NEW v
  PROVE  LET T == [ftable EXCEPT ![f].off = v] IN
         /\ T = [x \in File |-> T[x]]
         /\ \A x \in File : FileOk(T[x]) /\ T[x].ip = ftable[x].ip /\ T[x].ref = ftable[x].ref
<1>1. ftable = [x \in File |-> ftable[x]] /\ \A x \in File : FileOk(ftable[x])
  BY DEF Inv, FileInv
<1>2. \A u : FileOk(u) => FileOk([u EXCEPT !.off = v])
  BY DEF FileOk
<1>3. \A u : FileOk(u) => [u EXCEPT !.off = v].ip = u.ip /\ [u EXCEPT !.off = v].ref = u.ref
  BY DEF FileOk
<1> QED
  BY <1>1, <1>2, <1>3

\* A thread that stays in user mode.
LEMMA UserFrame ==
  ASSUME Inv, NEW p \in Proc, k[p].pc \in {"user", "dead", "exit", "reclaim"}
  PROVE  /\ FrameOk(k[p]) /\ k[p].puts = <<>> /\ Aim(k[p]) = k[p].pc /\ k[p].ip = 0 /\ k[p].dp = 0
         /\ k[p].old = 0 /\ ~Writing(k[p]) /\ (k[p].pc # "dead" => ~Gone(k[p])) /\ p \notin out
         /\ \A x \in Inum : ~PutLock(p, x) /\ ~AimLock(p, x)
<1>1. /\ FrameOk(k[p]) /\ k[p].puts = <<>> /\ Aim(k[p]) = k[p].pc /\ k[p].ip = 0 /\ k[p].dp = 0
      /\ k[p].old = 0 /\ k[p].after \notin {"write", "dead"}
  BY DEF Inv, ThreadInv, FrameOk, Reg, HasIp, HasDp, HasOld, Aim, Putting
<1>2. p \notin out
  BY DEF Inv, OutInv
<1> QED
  BY <1>1, <1>2 DEF Writing, Gone, PutLock, AimLock

\* A step of a thread without a transaction that keeps its registers.
LEMMA UserStep ==
  ASSUME Inv, NEW p \in Proc, k[p].pc = "user", UNCHANGED <<fs, disk, lock, ofile, cwd, out, k>>,
         SameRef(itable, itable'), ftable' = [f \in File |-> ftable'[f]],
         \A f \in File : FileOk(ftable'[f]) /\ ftable'[f].ip = ftable[f].ip
           /\ ftable'[f].ref = ftable[f].ref
  PROVE  Inv'
<1>1. /\ FrameOk(k[p]) /\ Steps(p) /\ k'[p] = k[p] /\ p \notin out
      /\ \A x \in Inum : ~PutLock(p, x) /\ ~AimLock(p, x)
      /\ Aim(k[p]) = "user"
  BY UserFrame DEF Steps, Inv, ThreadInv
<1>2. Refs(p)
  BY <1>1, RefsSame
<1>3. RefInv' /\ TableOk(itable')
  BY <1>1, <1>2, RefsKept, OthersStay DEF Inv, Refs
<1>4. Locks(p)
  BY <1>1, LocksSame DEF PutLock, AimLock
<1>5. Writes(p)
  BY <1>1, WritesNone
<1>6. Leaves(p)
  BY <1>1 DEF Leaves
<1>7. FileInv'
  BY DEF Inv, FileInv
<1>8. \A q \in Proc : q # p /\ k[q].pc \in {"writei", "written"} =>
      ftable'[k[q].f].ip = ftable[k[q].f].ip
  BY WritingFile DEF Writing
<1> QED
  BY <1>1, <1>3, <1>4, <1>5, <1>6, <1>7, <1>8, FinishFiles

\* SysRead keeps the invariant.
LEMMA SysReadInv ==
  ASSUME Inv, NEW p \in Proc, NEW fd \in Fd, NEW n, SysRead(p, fd, n)
  PROVE  Inv'
<1> DEFINE f == ofile[p][fd]
           i == ftable[f].ip
           v == ftable[f].off + Readi(Locked(i), ftable[f].off, n)
<1>1. /\ k[p].pc = "user" /\ UNCHANGED <<fs, disk, lock, ofile, cwd, out, k>> /\ f # 0
      /\ itable' = Ilock(itable, i) /\ ftable' = [ftable EXCEPT ![f].off = v]
  BY DEF SysRead, Fileread, Argfd, At
<1>2. f \in File /\ i \in Inum
  BY <1>1, FdFile
<1> HIDE DEF f, v
<1>3. SameRef(itable, itable')
  BY <1>1, <1>2, RefNat, IlockRef
<1> QED
  BY <1>1, <1>2, <1>3, OffsetKeeps, UserStep

\* SysFstat keeps the invariant.
LEMMA SysFstatInv ==
  ASSUME Inv, NEW p \in Proc, NEW fd \in Fd, SysFstat(p, fd)
  PROVE  Inv'
<1> DEFINE f == ofile[p][fd]
           i == ftable[f].ip
<1>1. /\ k[p].pc = "user" /\ UNCHANGED <<fs, disk, lock, ofile, cwd, out, k>> /\ f # 0
      /\ itable' = Ilock(itable, i) /\ ftable' = ftable
  BY DEF SysFstat, Filestat, Argfd, At
<1>2. i \in Inum
  BY <1>1, FdFile
<1>3. SameRef(itable, itable')
  BY <1>1, <1>2, RefNat, IlockRef
<1>4. ftable = [x \in File |-> ftable[x]] /\ \A x \in File : FileOk(ftable[x])
  BY DEF Inv, FileInv
<1> QED
  BY <1>1, <1>3, <1>4, UserStep

\* What one thread has to show of files, directories and descriptors.
FilesOk(q, fr) ==
  /\ IF Gone(fr) THEN cwd[q] = 0 /\ \A fd \in Fd : ofile[q][fd] = 0 ELSE cwd[q] \in Inum
  /\ Writing(fr) => fr.f \in File /\ \E fd \in Fd : ofile[q][fd] = fr.f

\* A step after which files and descriptors agree again keeps FileInv.
LEMMA FilesMove ==
  ASSUME Inv, NEW p \in Proc, Steps(p),
         ftable' = [f \in File |-> ftable'[f]], \A f \in File : FileOk(ftable'[f]),
         ofile' \in [Proc -> [Fd -> 0 .. NFile]], cwd' \in [Proc -> 0 .. NInode],
         \A q \in Proc : q # p => ofile'[q] = ofile[q] /\ cwd'[q] = cwd[q],
         FilesOk(p, k[p])'
  PROVE  FileInv'
<1>1. \A q \in Proc : q # p => k'[q] = k[q]
  BY OthersStay DEF Inv
<1>2. \A q \in Proc : FilesOk(q, k[q])
  BY DEF Inv, FileInv, FilesOk
<1>3. ASSUME NEW q \in Proc PROVE FilesOk(q, k[q])'
  <2>1. CASE q = p
    BY <2>1
  <2>2. CASE q # p
    BY <1>1, <1>2, <2>2 DEF FilesOk
  <2> QED
    BY <2>1, <2>2
<1> QED
  BY <1>3 DEF FileInv, FilesOk

\* filewrite ends a transaction.
LEMMA WriteDoneInv ==
  ASSUME Inv, NEW p \in Proc, WriteDone(p)
  PROVE  Inv'
<1> DEFINE fr == k[p]
           f == fr.f
           i == ftable[f].ip
           v == ftable[f].off + fr.m
           d == [itable[i].d EXCEPT !.size = IF v > @ THEN v ELSE @]
           a == IF fr.m = Chunk(p) /\ fr.n > fr.m THEN "write" ELSE "user"
           g == [fr EXCEPT !.pc = "end", !.n = fr.n - fr.m, !.m = 0, !.after = a]
<1>1. /\ fr.pc \in {"writei", "written"} /\ fs' = Iupdate(fs, i, d)
      /\ itable' = [itable EXCEPT ![i].d = d]
      /\ ftable' = [ftable EXCEPT ![f].off = v] /\ lock' = [lock EXCEPT ![i] = NoProc]
      /\ Goto(p, g) /\ UNCHANGED <<disk, ofile, cwd, out>>
  BY DEF WriteDone, At, Iunlock
<1>2. /\ Shape(fr) /\ i \in Inum /\ f \in File /\ fr.puts = <<>> /\ fr.ip = 0 /\ fr.dp = 0
      /\ fr.old = 0
      /\ Aim(fr) = fr.pc /\ Writing(fr) /\ fr.after \notin {"write", "dead"}
  BY <1>1, WriteFrame
<1>3. Steps(p) /\ k'[p] = g
  BY <1>1, Thread
<1>4. /\ Shape(g) /\ g.pc = "end" /\ g.after \in {"write", "user"} /\ g.f = f /\ g.ip = 0
      /\ g.dp = 0
      /\ g.old = 0 /\ g.puts = <<>>
  <2>1. Shape(g)
    BY <1>2, Zenon, Sets
  <2>2. a \in {"write", "user"}
    OBVIOUS
  <2> HIDE DEF a
  <2> QED
    BY <1>2, <2>1, <2>2 DEF Shape
<1> HIDE DEF g, d, v
<1>5. FrameOk(g)
  <2>1. <<>> \in Seq(Inum) /\ Len(<<>>) = 0
    OBVIOUS
  <2> QED
    BY <1>4, <2>1 DEF FrameOk, Reg, HasIp, HasDp, HasOld, Aim, Putting, Label
<1>6. /\ ftable' = [x \in File |-> ftable'[x]]
      /\ \A x \in File : FileOk(ftable'[x]) /\ ftable'[x].ip = ftable[x].ip
           /\ ftable'[x].ref = ftable[x].ref
  BY <1>1, <1>2, OffsetKeeps
<1>7. FileInv'
  <2>1. ~Gone(fr) /\ ~Gone(g)
    BY <1>1, <1>2, <1>4 DEF Gone
  <2>2. FilesOk(p, fr)
    BY DEF Inv, FileInv, FilesOk
  <2>3. FilesOk(p, k[p])'
    BY <1>1, <1>2, <1>3, <1>4, <2>1, <2>2 DEF FilesOk
  <2> QED
    BY <1>1, <1>3, <1>6, <2>3, FilesMove DEF Inv, FileInv
<1>8. Refs(p)
  <2>1. \A x \in Inum : Own(g, x) = Own(fr, x)
    BY <1>2, <1>4, OwnNothing
  <2>2. SameRef(itable, itable')
    BY <1>1, <1>2, RefNat, SetRef
  <2> QED
    BY <1>3, <2>1, <2>2, RefsSame
<1>9. RefInv' /\ TableOk(itable')
  BY <1>1, <1>3, <1>5, <1>6, <1>8, RefsKept, OthersStay DEF Inv, Refs
<1>10. Locks(p)
  <2>1. Aim(g) = "end"
    BY <1>4 DEF Aim, Putting
  <2>2. \A x \in Inum : /\ AimLock(p, x) <=> x = i
                        /\ ~PutLock(p, x) /\ ~AimLock(p, x)' /\ ~PutLock(p, x)'
    BY <1>1, <1>2, <1>3, <1>4, <2>1 DEF PutLock, AimLock
  <2> QED
    BY <1>1, <1>2, <2>2, LocksGive
<1>11. Writes(p)
  <2>1. Same(fs, fs')
    BY <1>1, UpdateSame DEF Inv, DiskInv
  <2> QED
    BY <1>1, <1>3, <1>4, <2>1 DEF Writes, Same, Inv, DiskInv
<1>12. Leaves(p)
  BY <1>1, <1>3, <1>4 DEF Leaves
<1>13. \A q \in Proc : q # p /\ k[q].pc \in {"writei", "written"} =>
      ftable'[k[q].f].ip = ftable[k[q].f].ip
  BY <1>6, WritingFile DEF Writing
<1> QED
  BY <1>3, <1>5, <1>7, <1>9, <1>10, <1>11, <1>12, <1>13, FinishFiles

\* A descriptor of a process becomes another.
LEMMA FdMove ==
  ASSUME Inv, NEW p \in Proc, NEW fd \in Fd, NEW f \in 0 .. NFile,
         ofile' = [ofile EXCEPT ![p][fd] = f]
  PROVE  /\ ofile' \in [Proc -> [Fd -> 0 .. NFile]]
         /\ \A q \in Proc : q # p => ofile'[q] = ofile[q]
         /\ \A x \in Fd : ofile'[p][x] = IF x = fd THEN f ELSE ofile[p][x]
<1>1. ofile \in [Proc -> [Fd -> 0 .. NFile]]
  BY DEF Inv, FileInv
<1> QED
  BY <1>1

\* One descriptor is set: the file it named loses a reference, the file it names gains one.
LEMMA FdMoves ==
  ASSUME Inv, NEW p \in Proc, NEW fd \in Fd, NEW f \in 0 .. NFile,
         ofile' = [ofile EXCEPT ![p][fd] = f]
  PROVE  \A g \in File : Count(fds', Proc \X Fd, g) = ftable[g].ref - Is(ofile[p][fd], g) + Is(f, g)
<1>1. ASSUME NEW g \in File
      PROVE  Count(fds', Proc \X Fd, g) = ftable[g].ref - Is(ofile[p][fd], g) + Is(f, g)
  <2> DEFINE a == <<p, fd>>
  <2>1. \A u \in Proc \X Fd : u # a => fds'[u] = fds[u]
    BY FdMove DEF fds
  <2>2. a \in Proc \X Fd /\ fds[a] = ofile[p][fd] /\ fds'[a] = f
    BY FdMove DEF fds
  <2>3. But1(fds, fds', Proc \X Fd, a)
    BY <2>1, <2>2, Finite DEF But1
  <2> HIDE DEF a
  <2>4. Count(fds', Proc \X Fd, g) = Count(fds, Proc \X Fd, g) - Is(fds[a], g) + Is(fds'[a], g)
    BY <2>3, OnePoint
  <2> QED
    BY <2>2, <2>4, FdCount
<1> QED
  BY <1>1

\* A free descriptor, and a free file.
LEMMA FreeFd ==
  ASSUME Inv, NEW p \in Proc, FreeFds(p) # {}
  PROVE  Min(FreeFds(p)) \in Fd /\ ofile[p][Min(FreeFds(p))] = 0
<1>1. FreeFds(p) \in SUBSET Nat
  BY DEF FreeFds, Fd
<1>2. Min(FreeFds(p)) \in FreeFds(p)
  BY <1>1, MinIsLeast
<1> QED
  BY <1>2 DEF FreeFds

\* filealloc returns a file nobody refers to.
LEMMA FreeFile ==
  ASSUME FreeFiles # {}
  PROVE  Min(FreeFiles) \in File /\ ftable[Min(FreeFiles)].ref = 0
<1>1. FreeFiles \in SUBSET Nat
  BY DEF FreeFiles, File
<1>2. Min(FreeFiles) \in FreeFiles
  BY <1>1, MinIsLeast
<1> QED
  BY <1>2 DEF FreeFiles

\* SysDup keeps the invariant.
LEMMA SysDupInv ==
  ASSUME Inv, NEW p \in Proc, NEW fd \in Fd, SysDup(p, fd)
  PROVE  Inv'
<1> DEFINE f == ofile[p][fd]
           x == Min(FreeFds(p))
<1>1. /\ k[p].pc = "user" /\ UNCHANGED <<fs, disk, mem, cwd, out, k>> /\ f # 0 /\ FreeFds(p) # {}
      /\ ofile' = [ofile EXCEPT ![p][x] = f] /\ ftable' = [ftable EXCEPT ![f].ref = @ + 1]
  BY DEF SysDup, Argfd, At, Filedup
<1>2. f \in File /\ f \in 0 .. NFile /\ ftable[f].ref \in Nat \ {0}
  BY <1>1, FdFile DEF Inv, FileInv
<1>3. x \in Fd /\ ofile[p][x] = 0
  BY <1>1, FreeFd
<1> HIDE DEF f, x
<1>4. /\ FrameOk(k[p]) /\ Steps(p) /\ k'[p] = k[p] /\ p \notin out /\ ~Gone(k[p]) /\ ~Writing(k[p])
      /\ \A i \in Inum : ~PutLock(p, i) /\ ~AimLock(p, i)
      /\ Aim(k[p]) = "user"
  BY <1>1, UserFrame DEF Steps, Inv, ThreadInv
<1>5. /\ ftable' = [g \in File |-> ftable'[g]]
      /\ \A g \in File : FileOk(ftable'[g]) /\ ftable'[g].ip = ftable[g].ip
                         /\ ftable'[g].ref = ftable[g].ref + Is(f, g)
  <2>1. ftable = [g \in File |-> ftable[g]] /\ \A g \in File : FileOk(ftable[g])
    BY DEF Inv, FileInv
  <2>2. ftable'[f] = [ftable[f] EXCEPT !.ref = ftable[f].ref + 1]
    BY <1>1, <1>2, <2>1
  <2>3. \A g \in File : g # f => ftable'[g] = ftable[g]
    BY <1>1, <2>1
  <2>4. ftable' = [g \in File |-> ftable'[g]]
    BY <1>1, <2>1
  <2>5. FileOk(ftable'[f]) /\ ftable'[f].ip = ftable[f].ip /\ ftable'[f].ref = ftable[f].ref + 1
    BY <1>2, <2>1, <2>2 DEF FileOk
  <2>6. \A g \in File : ftable[g].ref \in Nat
    BY <2>1 DEF FileOk
  <2> QED
    BY <2>1, <2>3, <2>4, <2>5, <2>6 DEF Is
<1>6. /\ ofile' \in [Proc -> [Fd -> 0 .. NFile]] /\ \A q \in Proc : q # p => ofile'[q] = ofile[q]
      /\ \A g \in File : Count(fds', Proc \X Fd, g) = ftable[g].ref - Is(0, g) + Is(f, g)
  <2>1. ofile' = [ofile EXCEPT ![p][x] = f] /\ f \in 0 .. NFile /\ x \in Fd
    BY <1>1, <1>2, <1>3
  <2>2. ofile' \in [Proc -> [Fd -> 0 .. NFile]] /\ \A q \in Proc : q # p => ofile'[q] = ofile[q]
    BY <2>1, FdMove
  <2>3. \A g \in File : Count(fds', Proc \X Fd, g) = ftable[g].ref - Is(ofile[p][x], g) + Is(f, g)
    BY <2>1, FdMoves
  <2> QED
    BY <1>3, <2>2, <2>3
<1>7. FileInv'
  <2>1. FilesOk(p, k[p])'
    BY <1>1, <1>4 DEF FilesOk, Inv, FileInv
  <2> QED
    BY <1>1, <1>4, <1>5, <1>6, <2>1, FilesMove DEF Inv, FileInv
<1>8. TableOk(itable')
  BY <1>1, RefNat DEF mem
<1>9. RefInv'
  <2>1. \A i \in Inum : itable'[i].ref =
           itable[i].ref - Own(k[p], i) + Own(k'[p], i) - Count(ips, File, i) + Count(ips', File, i)
           - Count(cwd, Proc, i) + Count(cwd', Proc, i)
    <3>1. ips' = ips /\ cwd' = cwd /\ itable' = itable
      BY <1>1, <1>5 DEF ips, mem
    <3>2. \A i \in Inum : /\ itable[i].ref \in Nat /\ Own(k[p], i) \in Nat
                          /\ Count(ips, File, i) \in Nat /\ Count(cwd, Proc, i) \in Nat
      BY RefNat, OwnInt, Finite, CountNat
    <3> QED
      BY <1>4, <3>1, <3>2
  <2>2. ASSUME NEW g \in File PROVE ftable'[g].ref = Count(fds', Proc \X Fd, g)
    <3>1. Is(0, g) = 0 /\ Is(f, g) \in {0, 1} /\ ftable[g].ref \in Nat
      BY DEF Is, File, Inv, FileInv, FileOk
    <3>2. ftable'[g].ref = ftable[g].ref + Is(f, g)
      BY <1>5
    <3>3. Count(fds', Proc \X Fd, g) = ftable[g].ref - Is(0, g) + Is(f, g)
      BY <1>6
    <3> QED
      BY <3>1, <3>2, <3>3
  <2> QED
    BY <1>4, <2>1, <2>2, RefsMove, OthersStay DEF Inv
<1>10. Locks(p)
  BY <1>1, <1>4, LocksSame DEF PutLock, AimLock, mem
<1>11. Writes(p)
  BY <1>1, <1>4, WritesNone
<1>12. Leaves(p)
  BY <1>1, <1>4 DEF Leaves
<1>13. \A q \in Proc : q # p /\ k[q].pc \in {"writei", "written"} =>
      ftable'[k[q].f].ip = ftable[k[q].f].ip
  BY <1>5, WritingFile DEF Writing
<1> QED
  BY <1>4, <1>7, <1>8, <1>9, <1>10, <1>11, <1>12, <1>13, FinishFiles

-----------------------------------------------------------------------------
(* close, and the end of a process. *)

\* A step of a thread that has nothing locked, to a label where it has nothing locked.
LEMMA IdleStep ==
  ASSUME Inv, NEW p \in Proc, k[p].pc \in {"user", "dead", "exit", "reclaim"}, NEW g, Goto(p, g),
         FrameOk(g),
         g.pc \notin {"free", "freed"}, Aim(g) \in {"user", "exit", "end", "walk", "reclaim"},
         FileInv', RefInv', TableOk(itable'), UNCHANGED <<fs, disk, lock>>, Leaves(p),
         \A q \in Proc : q # p /\ k[q].pc \in {"writei", "written"} =>
           ftable'[k[q].f].ip = ftable[k[q].f].ip
  PROVE  Inv'
<1>1. Steps(p) /\ k'[p] = g
  BY Thread
<1>2. g.pc \notin {"writei", "written", "remove"}
  BY DEF Aim, Putting
<1>3. \A x \in Inum : ~PutLock(p, x) /\ ~AimLock(p, x) /\ ~PutLock(p, x)' /\ ~AimLock(p, x)'
  BY <1>1, <1>2, UserFrame DEF PutLock, AimLock
<1>4. Locks(p)
  BY <1>3, LocksSame
<1>5. Writes(p)
  BY <1>1, <1>2, WritesNone
<1> QED
  BY <1>1, <1>4, <1>5, FinishFiles

\* The frame of a thread that only has to put i, in a transaction of its own.
LEMMA PutFrame ==
  ASSUME NEW a \in {"user", "exit", "dead"}, NEW i \in Inum
  PROVE  LET g == Iput([Frame("put") EXCEPT !.after = a], <<i>>, "end") IN
         /\ FrameOk(g) /\ g.pc = "put" /\ Aim(g) = "end" /\ g.after = a /\ g.ip = 0 /\ g.dp = 0
         /\ g.old = 0
         /\ g.puts = <<i>> /\ ~Writing(g) /\ (Gone(g) <=> a = "dead")
<1> DEFINE h == [Frame("put") EXCEPT !.after = a]
           g == Iput(h, <<i>>, "end")
<1>1. Shape(h) /\ h.after = a /\ h.ip = 0 /\ h.dp = 0 /\ h.old = 0
  <2>1. Shape(h)
    BY FrameShape, Sets
  <2> QED
    BY <2>1, FrameShape, FrameFields DEF Shape
<1> HIDE DEF h
<1>2. /\ Keeps(h, g) /\ g.pc = "put" /\ g.ret = "end" /\ Aim(g) = "end" /\ g.ip = 0 /\ g.dp = 0
      /\ g.old = 0
      /\ g.puts = <<i>>
  BY <1>1, IputFrame
<1> HIDE DEF g
<1>3. <<i>> \in Seq(Inum) /\ Len(<<i>>) = 1 /\ <<i>> # <<>>
  OBVIOUS
<1>4. FrameOk(g)
  BY <1>1, <1>2, <1>3 DEF FrameOk, Keeps, Reg, HasIp, HasDp, HasOld, Putting, Label, Returns
<1>5. ~Writing(g) /\ (Gone(g) <=> a = "dead")
  BY <1>1, <1>2 DEF Keeps, Writing, Gone
<1>6. /\ FrameOk(g) /\ g.pc = "put" /\ Aim(g) = "end" /\ g.after = a /\ g.ip = 0 /\ g.dp = 0
      /\ g.old = 0
      /\ g.puts = <<i>> /\ ~Writing(g) /\ (Gone(g) <=> a = "dead")
  BY <1>1, <1>2, <1>4, <1>5 DEF Keeps
<1> QED
  BY <1>6 DEF g, h

\* The frames between calls hold nothing.
LEMMA IdleFrame ==
  ASSUME NEW a \in {"user", "exit"}
  PROVE  /\ FrameOk(Frame(a)) /\ Frame(a).pc = a /\ Aim(Frame(a)) = a /\ Frame(a).after = "user"
         /\ Frame(a).ip = 0 /\ Frame(a).dp = 0 /\ Frame(a).old = 0 /\ Frame(a).puts = <<>>
         /\ ~Writing(Frame(a)) /\ ~Gone(Frame(a))
<1> DEFINE g == Frame(a)
<1>1. /\ Shape(g) /\ g.pc = a /\ g.ret = a /\ g.after = "user" /\ g.ip = 0 /\ g.dp = 0 /\ g.old = 0
      /\ g.puts = <<>>
  BY FrameShape, FrameFields
<1> HIDE DEF g
<1>2. <<>> \in Seq(Inum) /\ Len(<<>>) = 0
  OBVIOUS
<1>3. Aim(g) = a
  BY <1>1 DEF Aim, Putting
<1>4. FrameOk(g)
  BY <1>1, <1>2, <1>3 DEF FrameOk, Reg, HasIp, HasDp, HasOld, Putting, Label
<1>5. ~Writing(g) /\ ~Gone(g)
  BY <1>1 DEF Writing, Gone
<1> QED
  BY <1>1, <1>3, <1>4, <1>5 DEF g

\* A file after a close.
LEMMA FileDrop ==
  ASSUME Inv, NEW f \in File, ftable[f].ref # 0
  PROVE  LET T == [ftable EXCEPT ![f] = IF @.ref = 1 THEN NoFile
                                        ELSE [@ EXCEPT !.ref = ftable[f].ref - 1]]
         IN /\ T = [g \in File |-> T[g]]
            /\ \A g \in File : /\ FileOk(T[g]) /\ T[g].ref = ftable[g].ref - Is(f, g)
                               /\ T[g].ip = IF g = f /\ ftable[f].ref = 1 THEN 0 ELSE ftable[g].ip
<1> DEFINE T == [ftable EXCEPT ![f] = IF @.ref = 1 THEN NoFile
                                      ELSE [@ EXCEPT !.ref = ftable[f].ref - 1]]
<1>1. ftable = [g \in File |-> ftable[g]] /\ \A g \in File : FileOk(ftable[g])
        /\ ftable[g].ref \in Nat
  BY DEF Inv, FileInv, FileOk
<1>2. T = [g \in File |-> T[g]] /\ \A g \in File : g # f => T[g] = ftable[g]
  BY <1>1
<1>3. /\ FileOk(T[f]) /\ T[f].ref = ftable[f].ref - 1
      /\ T[f].ip = IF ftable[f].ref = 1 THEN 0 ELSE ftable[f].ip
  <2>1. CASE ftable[f].ref = 1
    <3>1. T[f] = NoFile
      BY <1>1, <2>1
    <3> HIDE DEF T
    <3> QED
      BY <2>1, <3>1 DEF NoFile, FileOk
  <2>2. CASE ftable[f].ref # 1
    <3>1. T[f] = [ftable[f] EXCEPT !.ref = ftable[f].ref - 1]
      BY <1>1, <2>2
    <3> HIDE DEF T
    <3> QED
      BY <1>1, <2>2, <3>1 DEF FileOk
  <2> QED
    BY <2>1, <2>2
<1> HIDE DEF T
<1>4. \A g \in File : /\ FileOk(T[g]) /\ T[g].ref = ftable[g].ref - Is(f, g)
                      /\ T[g].ip = IF g = f /\ ftable[f].ref = 1 THEN 0 ELSE ftable[g].ip
  BY <1>1, <1>2, <1>3 DEF Is
<1> QED
  BY <1>2, <1>4 DEF T

\* fileclose keeps the invariant, called by close and by exit alike.
LEMMA CloseInv ==
  ASSUME Inv, NEW p \in Proc, NEW fd \in Fd, NEW a \in {"user", "exit"}, k[p].pc = a,
         Close(p, fd, a),
         UNCHANGED <<fs, disk, mem, cwd>>
  PROVE  Inv'
<1> DEFINE f == ofile[p][fd]
           i == ftable[f].ip
           g == IF ftable[f].ref = 1 THEN Iput([Frame("put") EXCEPT !.after = a], <<i>>, "end")
             ELSE Frame(a)
<1>1. /\ f # 0 /\ ofile' = [ofile EXCEPT ![p][fd] = 0] /\ Goto(p, g)
      /\ ftable' = [ftable EXCEPT ![f] = IF @.ref = 1 THEN NoFile
                                         ELSE [@ EXCEPT !.ref = ftable[f].ref - 1]]
      /\ out' = IF ftable[f].ref = 1 THEN out \union {p} ELSE out
  BY DEF Close
<1>2. f \in File /\ ftable[f].ref \in Nat \ {0} /\ i \in Inum
  BY <1>1, FdFile
<1>3. /\ FrameOk(g) /\ g.pc \notin {"free", "freed"} /\ Aim(g) \in {"user", "exit", "end"}
      /\ ~Writing(g)
      /\ ~Gone(g) /\ (ftable[f].ref # 1 => g.pc = a) /\ (ftable[f].ref = 1 => g.pc = "put")
      /\ \A x \in Inum : Own(g, x) = IF ftable[f].ref = 1 THEN Is(i, x) ELSE 0
  <2>1. CASE ftable[f].ref = 1
    <3> DEFINE h == Iput([Frame("put") EXCEPT !.after = a], <<i>>, "end")
    <3>1. g = h
      BY <2>1
    <3>2. /\ FrameOk(h) /\ h.pc = "put" /\ Aim(h) = "end" /\ h.ip = 0 /\ h.dp = 0 /\ h.old = 0
          /\ h.puts = <<i>> /\ ~Writing(h) /\ ~Gone(h)
      BY <1>2, PutFrame
    <3> HIDE DEF h, g
    <3>3. \A x \in Inum : Is(0, x) = 0 /\ Is(i, x) \in {0, 1}
      BY Sizes DEF Is
    <3>4. \A x \in Inum : Own(h, x) = Is(i, x)
      BY <3>2, <3>3, OwnPuts
    <3> QED
      BY <2>1, <3>1, <3>2, <3>4
  <2>2. CASE ftable[f].ref # 1
    <3>1. g = Frame(a)
      BY <2>2
    <3> HIDE DEF g
    <3>2. \A x \in Inum : Own(g, x) = 0
      BY <3>1, IdleFrame, OwnNothing
    <3> QED
      BY <2>2, <3>1, <3>2, IdleFrame
  <2> QED
    BY <2>1, <2>2
<1>4. Steps(p) /\ k'[p] = g
  BY <1>1, Thread
<1> HIDE DEF f, g
<1>5. /\ p \notin out /\ ~Gone(k[p]) /\ \A x \in Inum : Own(k[p], x) = 0
  BY UserFrame, OwnNothing
<1>6. /\ ftable' = [h \in File |-> ftable'[h]]
      /\ \A h \in File : /\ FileOk(ftable'[h]) /\ ftable'[h].ref = ftable[h].ref - Is(f, h)
                         /\ ftable'[h].ip = IF h = f /\ ftable[f].ref = 1 THEN 0 ELSE ftable[h].ip
  BY <1>1, <1>2, FileDrop
<1>7. /\ ofile' \in [Proc -> [Fd -> 0 .. NFile]] /\ \A q \in Proc : q # p => ofile'[q] = ofile[q]
      /\ \A h \in File : Count(fds', Proc \X Fd, h) = ftable'[h].ref
  <2>1. ofile' = [ofile EXCEPT ![p][fd] = 0] /\ 0 \in 0 .. NFile
    BY <1>1, FilesAssumption
  <2>2. ofile' \in [Proc -> [Fd -> 0 .. NFile]] /\ \A q \in Proc : q # p => ofile'[q] = ofile[q]
    BY <2>1, FdMove
  <2>3. \A h \in File : Count(fds', Proc \X Fd, h) = ftable[h].ref - Is(ofile[p][fd], h) + Is(0, h)
    BY <2>1, FdMoves
  <2>4. ASSUME NEW h \in File PROVE Count(fds', Proc \X Fd, h) = ftable'[h].ref
    <3>1. Is(0, h) = 0 /\ Is(f, h) \in {0, 1} /\ ftable[h].ref \in Nat
      BY DEF Is, File, Inv, FileInv, FileOk
    <3>2. Count(fds', Proc \X Fd, h) = ftable[h].ref - Is(f, h) + Is(0, h)
      BY <2>3 DEF f
    <3>3. ftable'[h].ref = ftable[h].ref - Is(f, h)
      BY <1>6
    <3> QED
      BY <3>1, <3>2, <3>3
  <2> QED
    BY <2>2, <2>4
<1>8. FileInv'
  <2>1. FilesOk(p, k[p])'
    BY <1>3, <1>4, <1>5 DEF FilesOk, Inv, FileInv
  <2> QED
    BY <1>4, <1>6, <1>7, <2>1, FilesMove DEF Inv, FileInv
<1>9. TableOk(itable')
  BY RefNat DEF mem
<1>10. RefInv'
  <2>1. ASSUME NEW x \in Inum
        PROVE  itable'[x].ref =
           itable[x].ref - Own(k[p], x) + Own(k'[p], x) - Count(ips, File, x) + Count(ips', File, x)
           - Count(cwd, Proc, x) + Count(cwd', Proc, x)
    <3>1. cwd' = cwd /\ itable' = itable /\ Own(k[p], x) = 0
      BY <1>5 DEF mem
    <3>2. /\ itable[x].ref \in Nat /\ Count(ips, File, x) \in Nat /\ Count(cwd, Proc, x) \in Nat
          /\ Is(i, x) \in {0, 1} /\ Is(0, x) = 0
      BY RefNat, Finite, CountNat, Sizes DEF Is
    <3>3. CASE ftable[f].ref = 1
      <4>1. But1(ips, ips', File, f) /\ ips[f] = i /\ ips'[f] = 0
        BY <1>2, <1>6, <3>3, Finite DEF But1, ips
      <4>2. Count(ips', File, x) = Count(ips, File, x) - Is(ips[f], x) + Is(ips'[f], x)
        BY <4>1, OnePoint
      <4>3. Own(k'[p], x) = Is(i, x)
        BY <1>3, <1>4, <3>3
      <4> HIDE DEF i
      <4> QED
        BY <3>1, <3>2, <4>1, <4>2, <4>3
    <3>4. CASE ftable[f].ref # 1
      <4>1. ips' = ips /\ Own(k'[p], x) = 0
        BY <1>3, <1>4, <1>6, <3>4 DEF ips
      <4> QED
        BY <3>1, <3>2, <4>1
    <3> QED
      BY <3>3, <3>4
  <2> QED
    BY <1>3, <1>4, <1>7, <2>1, RefsMove, OthersStay DEF Inv
<1>11. Leaves(p)
  BY <1>1, <1>3, <1>4, <1>5 DEF Leaves
<1>12. ASSUME NEW q \in Proc, q # p, k[q].pc \in {"writei", "written"}
       PROVE  ftable'[k[q].f].ip = ftable[k[q].f].ip
  <2>1. k[q].f \in File /\ \E x \in Fd : ofile[q][x] = k[q].f
    BY <1>12 DEF Writing, Inv, FileInv
  <2>2. PICK x \in Fd : ofile[q][x] = k[q].f
    BY <2>1
  <2>3. <<q, x>> \in Proc \X Fd /\ fds'[<<q, x>>] = k[q].f
    BY <1>7, <1>12, <2>2 DEF fds
  <2>4. Count(fds', Proc \X Fd, k[q].f) >= 1
    BY <2>3, Finite, OneCounts
  <2>5. k[q].f = f => ftable[f].ref - 1 >= 1
    BY <1>6, <1>7, <2>1, <2>4 DEF Is
  <2>6. ~(k[q].f = f /\ ftable[f].ref = 1)
    BY <2>5
  <2> QED
    BY <1>6, <2>1, <2>6
<1>13. Goto(p, g) /\ UNCHANGED lock
  BY <1>1 DEF mem
<1> QED
  BY <1>3, <1>8, <1>9, <1>10, <1>11, <1>12, <1>13, IdleStep

\* SysClose keeps the invariant.
LEMMA SysCloseInv ==
  ASSUME Inv, NEW p \in Proc, NEW fd \in Fd, SysClose(p, fd)
  PROVE  Inv'
<1> QED
  BY CloseInv DEF SysClose, At

\* ExitClose keeps the invariant.
LEMMA ExitCloseInv ==
  ASSUME Inv, NEW p \in Proc, ExitClose(p)
  PROVE  Inv'
<1>1. Fd \ FreeFds(p) \in SUBSET Nat /\ Fd \ FreeFds(p) # {}
  BY DEF ExitClose, FreeFds, Fd
<1>2. Min(Fd \ FreeFds(p)) \in Fd
  <2> DEFINE S == Fd \ FreeFds(p)
  <2>1. Min(S) \in S
    <3> HIDE DEF S
    <3> QED
      BY <1>1, MinIsLeast DEF S
  <2> QED
    BY <2>1
<1> QED
  BY <1>2, CloseInv DEF ExitClose, At

\* SysExit keeps the invariant.
LEMMA SysExitInv ==
  ASSUME Inv, NEW p \in Proc, SysExit(p)
  PROVE  Inv'
<1>1. Goto(p, Frame("exit")) /\ k[p].pc = "user" /\ UNCHANGED <<fs, disk, mem, open, out>>
  BY DEF SysExit, At
<1>2. Steps(p) /\ k'[p] = Frame("exit")
  BY <1>1, Thread
<1>3. /\ p \notin out /\ ~Gone(k[p]) /\ ~Writing(k[p]) /\ \A x \in Inum : Own(k[p], x) = 0
  BY <1>1, UserFrame, OwnNothing
<1>4. \A x \in Inum : Own(k'[p], x) = Own(k[p], x)
  BY <1>2, <1>3, IdleFrame, OwnNothing
<1>5. FrameOk(k'[p]) /\ ~Gone(k'[p]) /\ ~Writing(k'[p]) /\ k'[p].pc = "exit" /\ Aim(k'[p]) = "exit"
  BY <1>2, IdleFrame
<1>6. FileInv'
  <2>1. FilesOk(p, k[p])'
    BY <1>1, <1>3, <1>5 DEF FilesOk, Inv, FileInv, open
  <2>2. UNCHANGED <<ftable, ofile, cwd>>
    BY <1>1 DEF open
  <2> QED
    BY <1>2, <2>1, <2>2, FilesMove DEF Inv, FileInv
<1>7. Refs(p)
  BY <1>1, <1>4, RefsSame, RefNat DEF SameRef, mem
<1>8. RefInv' /\ TableOk(itable')
  BY <1>1, <1>2, <1>5, <1>7, RefsKept, OthersStay DEF Inv, Refs, open
<1>9. Leaves(p)
  BY <1>1, <1>3 DEF Leaves
<1> QED
  BY <1>1, <1>2, <1>5, <1>6, <1>8, <1>9, IdleStep DEF open, mem

-----------------------------------------------------------------------------
(* Directories of processes. *)

\* The directory of a process becomes another.
LEMMA CwdMove ==
  ASSUME Inv, NEW p \in Proc, NEW i \in 0 .. NInode, cwd' = [cwd EXCEPT ![p] = i]
  PROVE  /\ cwd' \in [Proc -> 0 .. NInode] /\ cwd'[p] = i
         /\ \A q \in Proc : q # p => cwd'[q] = cwd[q]
BY DEF Inv, FileInv

\* One current directory is set: the old inode loses a reference, the new one gains one.
LEMMA CwdMoves ==
  ASSUME Inv, NEW p \in Proc, NEW i \in 0 .. NInode, cwd' = [cwd EXCEPT ![p] = i]
  PROVE  \A x \in Inum : Count(cwd', Proc, x) = Count(cwd, Proc, x) - Is(cwd[p], x) + Is(i, x)
<1>0. But1(cwd, cwd', Proc, p)
  BY CwdMove, Finite DEF But1
<1>1. \A x : Count(cwd', Proc, x) = Count(cwd, Proc, x) - Is(cwd[p], x) + Is(cwd'[p], x)
  <2> DEFINE c == cwd
             d == cwd'
  <2>1. But1(c, d, Proc, p)
    BY <1>0
  <2> HIDE DEF c, d
  <2>2. \A x : Count(d, Proc, x) = Count(c, Proc, x) - Is(c[p], x) + Is(d[p], x)
    BY <2>1, EveryPoint
  <2> QED
    BY <2>2 DEF c, d
<1>2. cwd'[p] = i
  BY CwdMove
<1>3. ASSUME NEW x \in Inum
      PROVE  Count(cwd', Proc, x) = Count(cwd, Proc, x) - Is(cwd[p], x) + Is(i, x)
  <2>1. Count(cwd', Proc, x) = Count(cwd, Proc, x) - Is(cwd[p], x) + Is(cwd'[p], x)
    BY <1>1
  <2> QED
    BY <1>2, <2>1
<1> QED
  BY <1>3

\* Files stay, and the counts follow the directory of the thread.
LEMMA CwdRefs ==
  ASSUME Inv, NEW p \in Proc, NEW i \in 0 .. NInode, cwd' = [cwd EXCEPT ![p] = i],
         UNCHANGED <<ftable, ofile>>,
         Steps(p), FrameOk(k'[p]), TableOk(itable'),
         \A x \in Inum : itable'[x].ref = itable[x].ref - Own(k[p], x) + Own(k'[p], x)
           - Is(cwd[p], x) + Is(i, x)
  PROVE  RefInv'
<1>1. ASSUME NEW x \in Inum
      PROVE  itable'[x].ref =
         itable[x].ref - Own(k[p], x) + Own(k'[p], x) - Count(ips, File, x) + Count(ips', File, x)
         - Count(cwd, Proc, x) + Count(cwd', Proc, x)
  <2>1. ips' = ips
    BY DEF ips
  <2>2. /\ itable[x].ref \in Nat /\ Own(k[p], x) \in Nat /\ Own(k'[p], x) \in Nat
        /\ Count(ips, File, x) \in Nat /\ Count(cwd, Proc, x) \in Nat
        /\ Is(cwd[p], x) \in {0, 1} /\ Is(i, x) \in {0, 1}
    BY RefNat, OwnInt, Finite, CountNat DEF Is
  <2>3. Count(cwd', Proc, x) = Count(cwd, Proc, x) - Is(cwd[p], x) + Is(i, x)
    BY CwdMoves
  <2>4. itable'[x].ref = itable[x].ref - Own(k[p], x) + Own(k'[p], x) - Is(cwd[p], x) + Is(i, x)
    OBVIOUS
  <2> QED
    BY <2>1, <2>2, <2>3, <2>4
<1>2. \A f \in File : ftable'[f].ref = Count(fds', Proc \X Fd, f)
  <2>1. fds' = fds
    BY DEF fds
  <2> QED
    BY <2>1, FdCount
<1> QED
  BY <1>1, <1>2, RefsMove, OthersStay DEF Inv

\* A thread that puts another inode than the one in its register.
LEMMA PutOther ==
  ASSUME NEW fr, Busy(fr), NEW c \in Inum
  PROVE  LET g == Iput([fr EXCEPT !.ip = 0], <<c>>, "end") IN
         /\ Keeps(fr, g) /\ g.pc = "put" /\ Aim(g) = "end"
         /\ fr.dp = 0 /\ fr.old = 0 => FrameOk(g) /\ \A x \in Inum : Own(g, x) = Is(c, x)
<1> DEFINE g == Iput([fr EXCEPT !.ip = 0], <<c>>, "end")
<1>0. Shape(fr)
  BY BusyIs
<1>1. /\ Keeps(fr, g) /\ g.pc = "put" /\ g.ret = "end" /\ Aim(g) = "end"
      /\ g.ip = 0 /\ g.dp = fr.dp /\ g.old = fr.old /\ g.puts = <<c>> /\ g.arg = fr.arg
  <2>1. ASSUME NEW s, NEW l
        PROVE  LET h == Iput([fr EXCEPT !.ip = 0], s, l) IN
               /\ Keeps(fr, h) /\ h.pc = "put" /\ h.ret = l /\ Aim(h) = l
               /\ h.ip = 0 /\ h.dp = fr.dp /\ h.old = fr.old /\ h.puts = s /\ h.arg = fr.arg
    BY <1>0, IputIp
  <2> QED
    BY <2>1
<1> HIDE DEF g
<1>2. ASSUME fr.dp = 0, fr.old = 0 PROVE FrameOk(g) /\ \A x \in Inum : Own(g, x) = Is(c, x)
  <2>1. FrameOk(g)
    BY <1>1, <1>2, OnePut DEF Reg, HasIp, HasDp, HasOld, Returns
  <2>2. \A x \in Inum : Is(0, x) = 0 /\ Is(c, x) \in {0, 1}
    BY Sizes DEF Is
  <2> QED
    BY <1>1, <1>2, <2>1, <2>2, OwnPuts
<1> QED
  BY <1>1, <1>2 DEF g

\* Chdir keeps the invariant.
LEMMA ChdirInv ==
  ASSUME Inv, NEW p \in Proc, Chdir(p)
  PROVE  Inv'
<1> DEFINE fr == k[p]
           i  == fr.ip
           c  == cwd[p]
           g  == Iput([fr EXCEPT !.ip = 0], <<c>>, "end")
<1>1. /\ fr.pc = "chdir" /\ itable' = Ilock(itable, i) /\ cwd' = [cwd EXCEPT ![p] = i] /\ Goto(p, g)
      /\ UNCHANGED <<fs, disk, lock, ftable, ofile, out>>
  BY DEF Chdir, At
<1>2. Steps(p) /\ k'[p] = g /\ FrameOk(fr) /\ Shape(fr)
  BY <1>1, Thread
<1>3. Busy(fr) /\ i \in Inum /\ fr.dp = 0 /\ fr.old = 0
  BY <1>1, <1>2 DEF Busy, FrameOk, Reg, HasIp, HasDp, HasOld, Aim, Putting
<1>4. fr.puts = <<>> /\ Aim(fr) = "chdir" /\ fr.after \notin {"write", "dead"}
  BY <1>1, <1>3, BusyIs
<1>5. c \in Inum /\ ~Gone(fr)
  BY <1>1, <1>4 DEF Gone, Inv, FileInv
<1>6. /\ FrameOk(g) /\ Keeps(fr, g) /\ g.pc = "put" /\ Aim(g) = "end"
      /\ \A x \in Inum : Own(g, x) = Is(c, x)
  <2> HIDE DEF fr, c
  <2> QED
    BY <1>3, <1>5, PutOther
<1> HIDE DEF g, c
<1>7. FrameOk(g)
  BY <1>6
<1>8. SameRef(itable, itable')
  BY <1>1, <1>3, RefNat, IlockRef
<1>9. i \in 0 .. NInode
  BY <1>3, Sizes DEF Inum
<1>10. RefInv'
  <2>1. ASSUME NEW x \in Inum
        PROVE  itable'[x].ref = itable[x].ref - Own(k[p], x) + Own(k'[p], x) - Is(cwd[p], x)
               + Is(i, x)
    <3>1. Is(0, x) = 0 /\ Is(i, x) \in {0, 1} /\ Is(c, x) \in {0, 1} /\ itable[x].ref \in Nat
      BY Sizes, RefNat DEF Is
    <3>2. Own(fr, x) = Is(i, x) + Is(0, x) + Is(0, x)
      BY <1>3, <1>4, OwnRegs
    <3>3. Own(g, x) = Is(c, x)
      BY <1>6
    <3>4. itable'[x].ref = itable[x].ref /\ k'[p] = g /\ cwd[p] = c
      BY <1>2, <1>8 DEF SameRef, c
    <3> HIDE DEF fr, i
    <3>5. Own(k[p], x) = Own(fr, x)
      BY DEF fr
    <3> QED
      BY <3>1, <3>2, <3>3, <3>4, <3>5
  <2> QED
    BY <1>1, <1>2, <1>7, <1>8, <1>9, <2>1, CwdRefs DEF SameRef
<1>11. FileInv'
  <2>1. ~Gone(g) /\ ~Writing(g)
    BY <1>4, <1>6 DEF Keeps, Gone, Writing
  <2>2. /\ cwd' \in [Proc -> 0 .. NInode] /\ cwd'[p] = i
        /\ \A q \in Proc : q # p => cwd'[q] = cwd[q]
    BY <1>1, <1>9, CwdMove
  <2>3. FilesOk(p, k[p])'
    BY <1>2, <1>3, <2>1, <2>2 DEF FilesOk
  <2> QED
    BY <1>1, <1>2, <2>2, <2>3, FilesMove DEF Inv, FileInv
<1>12. Locks(p)
  BY <1>1, <1>2, <1>4, <1>6, LocksSame DEF PutLock, AimLock
<1>13. Writes(p)
  BY <1>1, <1>2, <1>6, WritesNone
<1>14. Leaves(p)
  BY <1>1, <1>2, <1>6, LeavesNone
<1> QED
  BY <1>1, <1>2, <1>7, <1>8, <1>10, <1>11, <1>12, <1>13, <1>14, FinishFiles DEF SameRef

\* ExitCwd keeps the invariant.
LEMMA ExitCwdInv ==
  ASSUME Inv, NEW p \in Proc, ExitCwd(p)
  PROVE  Inv'
<1> DEFINE c == cwd[p]
           g == Iput([Frame("put") EXCEPT !.after = "dead"], <<c>>, "end")
<1>1. /\ k[p].pc = "exit" /\ FreeFds(p) = Fd /\ out' = out \union {p}
      /\ cwd' = [cwd EXCEPT ![p] = 0]
      /\ Goto(p, g) /\ UNCHANGED <<fs, disk, mem, ftable, ofile>>
  BY DEF ExitCwd, At
<1>2. Steps(p) /\ k'[p] = g
  BY <1>1, Thread
<1>3. c \in Inum /\ \A x \in Inum : Own(k[p], x) = 0
  BY <1>1, UserFrame, OwnNothing DEF Inv, FileInv
<1>4. /\ FrameOk(g) /\ g.pc = "put" /\ Aim(g) = "end" /\ g.ip = 0 /\ g.dp = 0 /\ g.old = 0
      /\ g.puts = <<c>> /\ ~Writing(g) /\ Gone(g)
  BY <1>3, PutFrame
<1> HIDE DEF g, c
<1>5. 0 \in 0 .. NInode /\ TableOk(itable') /\ itable' = itable
  BY <1>1, Sizes, RefNat DEF mem
<1>6. RefInv'
  <2>1. ASSUME NEW x \in Inum
        PROVE  itable'[x].ref = itable[x].ref - Own(k[p], x) + Own(k'[p], x) - Is(cwd[p], x)
               + Is(0, x)
    <3>1. Is(0, x) = 0 /\ Is(c, x) \in {0, 1} /\ itable[x].ref \in Nat
      BY Sizes, RefNat DEF Is
    <3>2. Own(g, x) = Is(0, x) + Is(0, x) + Is(0, x) + Is(c, x)
      BY <1>4, OwnPuts
    <3>3. Is(cwd[p], x) = Is(c, x) /\ Own(k'[p], x) = Own(g, x) /\ Own(k[p], x) = 0
      BY <1>2, <1>3 DEF c
    <3> QED
      BY <1>5, <3>1, <3>2, <3>3
  <2> QED
    BY <1>1, <1>2, <1>4, <1>5, <2>1, CwdRefs
<1>7. FileInv'
  <2>1. /\ cwd' \in [Proc -> 0 .. NInode] /\ cwd'[p] = 0
        /\ \A q \in Proc : q # p => cwd'[q] = cwd[q]
    BY <1>1, <1>5, CwdMove
  <2>2. \A fd \in Fd : ofile[p][fd] = 0
    BY <1>1 DEF FreeFds
  <2>3. FilesOk(p, k[p])'
    BY <1>1, <1>2, <1>4, <2>1, <2>2 DEF FilesOk
  <2> QED
    BY <1>1, <1>2, <2>1, <2>3, FilesMove DEF Inv, FileInv
<1>8. Leaves(p)
  BY <1>1, <1>2, <1>4 DEF Leaves
<1> QED
  BY <1>1, <1>4, <1>5, <1>6, <1>7, <1>8, IdleStep DEF mem

-----------------------------------------------------------------------------
(* ireclaim. *)

\* A thread that keeps its files and its directory.
LEMMA FilesStay ==
  ASSUME Inv, NEW p \in Proc, Steps(p), UNCHANGED open, ~Gone(k[p]), ~Gone(k'[p]), ~Writing(k'[p])
  PROVE  FileInv'
<1>1. FilesOk(p, k[p])'
  BY DEF FilesOk, Inv, FileInv, open
<1>2. UNCHANGED <<ftable, ofile, cwd>>
  BY DEF open
<1> QED
  BY <1>1, <1>2, FilesMove DEF Inv, FileInv

\* Reclaim keeps the invariant.
LEMMA ReclaimInv ==
  ASSUME Inv, NEW p \in Proc, Reclaim(p)
  PROVE  Inv'
<1> DEFINE fr == k[p]
           i  == fr.n
           h  == [fr EXCEPT !.after = "reclaim", !.n = i + 1]
           g  == Iput(h, <<i>>, "end")
           T  == Iget(itable, i)
<1>1. /\ fr.pc = "reclaim" /\ i \in Inum /\ itable' = Ilock(T, i) /\ out' = out \union {p}
      /\ Goto(p, g) /\ UNCHANGED <<fs, disk, lock, open>>
  BY DEF Reclaim, At
<1>2. Steps(p) /\ k'[p] = g /\ Shape(fr)
  BY <1>1, Thread
<1>3. /\ fr.puts = <<>> /\ fr.ip = 0 /\ fr.dp = 0 /\ fr.old = 0 /\ p \notin out /\ ~Gone(fr)
      /\ \A x \in Inum : Own(fr, x) = 0
  BY <1>1, UserFrame, OwnNothing
<1>4. Shape(h) /\ h.after = "reclaim" /\ h.ip = 0 /\ h.dp = 0 /\ h.old = 0
  <2>1. Shape(h)
    BY <1>2, Zenon, Sets
  <2> QED
    BY <1>2, <1>3, <2>1 DEF Shape
<1> HIDE DEF h
<1>5. /\ Keeps(h, g) /\ g.pc = "put" /\ g.ret = "end" /\ Aim(g) = "end" /\ g.ip = 0 /\ g.dp = 0
      /\ g.old = 0
      /\ g.puts = <<i>>
  BY <1>4, IputFrame
<1> HIDE DEF g
<1>6. FrameOk(g)
  <2>1. <<i>> \in Seq(Inum) /\ Len(<<i>>) = 1 /\ <<i>> # <<>>
    BY <1>1
  <2> QED
    BY <1>4, <1>5, <2>1 DEF FrameOk, Keeps, Reg, HasIp, HasDp, HasOld, Putting, Label, Returns
<1>7. ~Writing(g) /\ ~Gone(g)
  BY <1>4, <1>5 DEF Keeps, Writing, Gone
<1>8. GainRef(itable, itable', i)
  <2>1. GainRef(itable, T, i)
    BY <1>1, RefNat, IgetRef
  <2> HIDE DEF T
  <2>2. SameRef(T, Ilock(T, i))
    BY <1>1, <2>1, IlockRef DEF GainRef
  <2> QED
    BY <1>1, <2>1, <2>2 DEF GainRef, SameRef
<1>9. Refs(p)
  <2>1. \A x \in Inum : Is(0, x) = 0 /\ Is(i, x) \in {0, 1}
    BY Sizes DEF Is
  <2>2. \A x \in Inum : Own(g, x) = Own(fr, x) + Is(i, x)
    BY <1>3, <1>5, <2>1, OwnPuts
  <2> QED
    BY <1>1, <1>2, <1>8, <2>2, RefsGain
<1>10. FileInv'
  BY <1>1, <1>2, <1>3, <1>7, FilesStay
<1>11. RefInv' /\ TableOk(itable')
  BY <1>1, <1>2, <1>6, <1>9, RefsKept, OthersStay DEF Inv, Refs, open
<1>12. Leaves(p)
  BY <1>1, <1>2, <1>5 DEF Leaves
<1> QED
  BY <1>1, <1>5, <1>6, <1>10, <1>11, <1>12, IdleStep DEF open

\* ReclaimNext keeps the invariant.
LEMMA ReclaimNextInv ==
  ASSUME Inv, NEW p \in Proc, ReclaimNext(p)
  PROVE  Inv'
<1> DEFINE fr == k[p]
           h  == [fr EXCEPT !.n = fr.n + 1]
           g  == IF fr.n \in Inum THEN h ELSE Frame("user")
<1>1. fr.pc = "reclaim" /\ Goto(p, g) /\ UNCHANGED <<fs, disk, mem, open, out>>
  BY DEF ReclaimNext, At
<1>2. Steps(p) /\ k'[p] = g /\ Shape(fr)
  BY <1>1, Thread
<1>3. /\ FrameOk(fr) /\ fr.puts = <<>> /\ fr.ip = 0 /\ fr.dp = 0 /\ fr.old = 0 /\ p \notin out
      /\ ~Gone(fr)
      /\ Aim(fr) = "reclaim" /\ ~Writing(fr) /\ \A x \in Inum : Own(fr, x) = 0
  BY <1>1, UserFrame, OwnNothing
<1>4. /\ FrameOk(g) /\ g.pc \in {"user", "reclaim"} /\ Aim(g) = g.pc /\ ~Writing(g) /\ ~Gone(g)
      /\ g.ip = 0 /\ g.dp = 0 /\ g.old = 0 /\ g.puts = <<>>
  <2>1. CASE fr.n \in Inum
    <3>1. Shape(h)
      BY <1>2, Sets
    <3>2. /\ h.pc = fr.pc /\ h.ret = fr.ret /\ h.after = fr.after /\ h.ip = fr.ip /\ h.dp = fr.dp
          /\ h.old = fr.old /\ h.puts = fr.puts
      BY <1>2, <3>1 DEF Shape
    <3>3. g = h
      BY <2>1
    <3> HIDE DEF g, h
    <3>4. Aim(h) = "reclaim"
      BY <1>1, <3>2 DEF Aim, Putting
    <3>5. FrameOk(h)
      BY <1>1, <1>3, <3>1, <3>2, <3>4 DEF FrameOk, Reg, HasIp, HasDp, HasOld
    <3> QED
      BY <1>1, <1>3, <3>2, <3>3, <3>4, <3>5 DEF Writing, Gone
  <2>2. CASE fr.n \notin Inum
    <3>1. g = Frame("user")
      BY <2>2
    <3> HIDE DEF g
    <3> QED
      BY <3>1, IdleFrame
  <2> QED
    BY <2>1, <2>2
<1> HIDE DEF g
<1>5. Refs(p)
  <2>1. \A x \in Inum : Own(g, x) = Own(fr, x)
    BY <1>3, <1>4, OwnNothing
  <2> QED
    BY <1>1, <1>2, <2>1, RefNat, RefsSame DEF SameRef, mem
<1>6. FileInv'
  BY <1>1, <1>2, <1>3, <1>4, FilesStay
<1>7. RefInv' /\ TableOk(itable')
  BY <1>1, <1>2, <1>4, <1>5, RefsKept, OthersStay DEF Inv, Refs, open
<1>8. Leaves(p)
  BY <1>1, <1>2, <1>3 DEF Leaves
<1> QED
  BY <1>1, <1>4, <1>6, <1>7, <1>8, IdleStep DEF open, mem

-----------------------------------------------------------------------------
(* fork. *)

\* The descriptors of one process that refer to file f.
FdsOf(p, f) == {fd \in Fd : ofile[p][fd] = f}

\* A process without descriptors gets those of another.
LEMMA FdCopy ==
  ASSUME Inv, NEW p \in Proc, NEW q \in Proc, \A fd \in Fd : ofile[q][fd] = 0,
         ofile' = [ofile EXCEPT ![q] = ofile[p]], NEW f \in File
  PROVE  /\ Cardinality(FdsOf(p, f)) \in Nat
         /\ Count(fds', Proc \X Fd, f) = ftable[f].ref + Cardinality(FdsOf(p, f))
         /\ ftable[f].ref = 0 => Cardinality(FdsOf(p, f)) = 0
<1> DEFINE A == {x \in Proc \X Fd : fds[x] = f}
           D == FdsOf(p, f)
           B == {q} \X D
<1>1. ofile \in [Proc -> [Fd -> 0 .. NFile]] /\ f # 0
  BY DEF Inv, FileInv, File
<1>2. /\ ofile'[q] = ofile[p] /\ \A r \in Proc : r # q => ofile'[r] = ofile[r]
  BY <1>1
<1>3. {x \in Proc \X Fd : fds'[x] = f} = A \union B
  BY <1>1, <1>2 DEF fds, FdsOf
<1>4. A \intersect B = {}
  BY <1>1 DEF fds, FdsOf
<1>5. IsFiniteSet(A) /\ IsFiniteSet(D) /\ IsFiniteSet({q}) /\ Cardinality({q}) = 1
  <2>0. NOFILE \in Nat
    BY FilesAssumption
  <2>1. IsFiniteSet(Fd)
    BY <2>0, FS_Interval DEF Fd
  <2>2. D \in SUBSET Fd /\ A \in SUBSET (Proc \X Fd)
    BY DEF FdsOf
  <2> QED
    BY <2>1, <2>2, Finite, FS_Subset, FS_Singleton
<1>6. IsFiniteSet(B) /\ Cardinality(B) = 1 * Cardinality(D) /\ Cardinality(D) \in Nat
  <2> HIDE DEF D
  <2> QED
    BY <1>5, FS_Product, FS_CardinalityType
<1>7. Cardinality(A) \in Nat /\ Cardinality(A) = ftable[f].ref
  BY <1>5, FS_CardinalityType, FdCount DEF Count
<1>8. Cardinality(A \intersect B) = 0
  BY <1>4, FS_EmptySet
<1>9. ftable[f].ref = 0 => D = {}
  BY FdFile DEF FdsOf, File
<1>10. D = {} => Cardinality(D) = 0
  BY FS_EmptySet
<1> HIDE DEF A, B, D
<1>11. Cardinality(A \union B) = Cardinality(A) + Cardinality(B) - Cardinality(A \intersect B)
  BY <1>5, <1>6, FS_Union
<1>12. Count(fds', Proc \X Fd, f) = Cardinality(A \union B)
  BY <1>3 DEF Count
<1>13. Count(fds', Proc \X Fd, f) = ftable[f].ref + Cardinality(D)
  BY <1>6, <1>7, <1>8, <1>11, <1>12
<1> QED
  BY <1>6, <1>9, <1>10, <1>13 DEF D

\* Fork keeps the invariant.
LEMMA ForkInv ==
  ASSUME Inv, NEW p \in Proc, NEW q \in Proc, Fork(p, q)
  PROVE  Inv'
<1> DEFINE c == cwd[p]
           g == Frame("user")
<1>1. /\ k[p].pc = "user" /\ k[q].pc = "dead" /\ itable' = Iget(itable, c) /\ Goto(q, g)
      /\ ofile' = [ofile EXCEPT ![q] = ofile[p]] /\ cwd' = [cwd EXCEPT ![q] = c]
      /\ UNCHANGED <<fs, disk, lock, out>>
      /\ ftable' = [f \in File |-> [ftable[f] EXCEPT !.ref = ftable[f].ref
           + Cardinality(FdsOf(p, f))]]
  BY DEF Fork, At, FdsOf
<1>2. Steps(q) /\ k'[q] = g
  BY <1>1, Thread
<1>3. /\ Gone(k[q]) /\ cwd[q] = 0 /\ \A fd \in Fd : ofile[q][fd] = 0
      /\ q \notin out /\ \A x \in Inum : Own(k[q], x) = 0
  <2>1. Gone(k[q])
    BY <1>1 DEF Gone
  <2> QED
    BY <1>1, <2>1, UserFrame, OwnNothing DEF Inv, FileInv
<1>4. c \in Inum /\ c \in 0 .. NInode
  BY <1>1, UserFrame, Sizes DEF Inv, FileInv, Inum
<1>5. FrameOk(g) /\ g.pc = "user" /\ Aim(g) = "user" /\ ~Writing(g) /\ ~Gone(g)
  BY IdleFrame
<1>6. \A x \in Inum : Own(g, x) = 0
  BY IdleFrame, OwnNothing
<1> HIDE DEF g, c
<1>7. \A f \in File : /\ Cardinality(FdsOf(p, f)) \in Nat
                      /\ Count(fds', Proc \X Fd, f) = ftable[f].ref + Cardinality(FdsOf(p, f))
                      /\ ftable[f].ref = 0 => Cardinality(FdsOf(p, f)) = 0
  BY <1>1, <1>3, FdCopy
<1>8. /\ ftable' = [f \in File |-> ftable'[f]]
      /\ \A f \in File : /\ FileOk(ftable'[f]) /\ ftable'[f].ip = ftable[f].ip
                         /\ ftable'[f].ref = Count(fds', Proc \X Fd, f)
  <2>1. ftable' = [f \in File |-> ftable'[f]]
    BY <1>1
  <2>2. ASSUME NEW f \in File
        PROVE  /\ FileOk(ftable'[f]) /\ ftable'[f].ip = ftable[f].ip
               /\ ftable'[f].ref = Count(fds', Proc \X Fd, f)
    <3> DEFINE n == Cardinality(FdsOf(p, f))
               u == ftable[f]
               v == ftable'[f]
    <3>1. v = [u EXCEPT !.ref = u.ref + n]
      BY <1>1
    <3>2. FileOk(u)
      BY DEF Inv, FileInv
    <3>3. n \in Nat /\ Count(fds', Proc \X Fd, f) = u.ref + n /\ (u.ref = 0 => n = 0)
      BY <1>7
    <3> HIDE DEF n, u, v
    <3>4. u.ref \in Nat /\ (u.ref + n = 0 <=> u.ref = 0)
      BY <3>2, <3>3 DEF FileOk
    <3>5. v.ref = u.ref + n /\ v.ip = u.ip
      BY <3>1, <3>2 DEF FileOk
    <3>6. FileOk(v)
      BY <3>1, <3>2, <3>3, <3>4, <3>5 DEF FileOk
    <3> QED
      BY <3>3, <3>5, <3>6 DEF u, v
  <2> QED
    BY <2>1, <2>2
<1>9. GainRef(itable, itable', c)
  BY <1>1, <1>4, RefNat, IgetRef
<1>10. /\ cwd' \in [Proc -> 0 .. NInode] /\ cwd'[q] = c /\ \A r \in Proc : r # q => cwd'[r] = cwd[r]
       /\ \A x \in Inum : Count(cwd', Proc, x) = Count(cwd, Proc, x) - Is(cwd[q], x) + Is(c, x)
  BY <1>1, <1>4, CwdMove, CwdMoves
<1>11. RefInv'
  <2>1. ASSUME NEW x \in Inum
        PROVE  itable'[x].ref =
           itable[x].ref - Own(k[q], x) + Own(k'[q], x) - Count(ips, File, x) + Count(ips', File, x)
           - Count(cwd, Proc, x) + Count(cwd', Proc, x)
    <3>1. ips' = ips
      BY <1>8 DEF ips
    <3>2. /\ itable[x].ref \in Nat /\ Count(ips, File, x) \in Nat /\ Count(cwd, Proc, x) \in Nat
          /\ Is(c, x) \in {0, 1} /\ Is(0, x) = 0
      BY RefNat, Finite, CountNat, Sizes DEF Is
    <3>3. Own(k[q], x) = 0 /\ Own(k'[q], x) = 0 /\ itable'[x].ref = itable[x].ref + Is(c, x)
      BY <1>2, <1>3, <1>6, <1>9 DEF GainRef
    <3>4. Count(cwd', Proc, x) = Count(cwd, Proc, x) - Is(0, x) + Is(c, x)
      BY <1>3, <1>10
    <3> QED
      BY <3>1, <3>2, <3>3, <3>4
  <2> QED
    BY <1>2, <1>5, <1>8, <2>1, RefsMove, OthersStay DEF Inv
<1>12. FileInv'
  <2>1. ofile' \in [Proc -> [Fd -> 0 .. NFile]] /\ \A r \in Proc : r # q => ofile'[r] = ofile[r]
    BY <1>1 DEF Inv, FileInv
  <2>2. FilesOk(q, k[q])'
    BY <1>2, <1>4, <1>5, <1>10 DEF FilesOk
  <2> QED
    BY <1>2, <1>8, <1>10, <2>1, <2>2, FilesMove
<1>13. Leaves(q)
  BY <1>1, <1>2, <1>3, <1>5 DEF Leaves
<1>14. \A r \in Proc : r # q /\ k[r].pc \in {"writei", "written"} =>
      ftable'[k[r].f].ip = ftable[k[r].f].ip
  BY <1>8, WritingFile DEF Writing
<1> QED
  BY <1>1, <1>5, <1>9, <1>11, <1>12, <1>13, <1>14, IdleStep DEF GainRef

-----------------------------------------------------------------------------
(* The end of sys_open. *)

\* OpenFile keeps the invariant.
LEMMA OpenFileInv ==
  ASSUME Inv, NEW p \in Proc, OpenFile(p)
  PROVE  Inv'
<1> DEFINE fr == k[p]
           i  == fr.ip
           m  == fr.arg.mode
           t  == Itrunc(fs, i, itable[i].d)
           trunc == "TRUNC" \in m /\ itable[i].d.type = "file"
           f  == Min(FreeFiles)
           fd == Min(FreeFds(p))
           r  == [ref |-> 1, type |-> IF itable[i].d.type = "dev" THEN "dev" ELSE "inode",
             ip |-> i, off |-> 0,
                  r |-> "WRONLY" \notin m, w |-> m \intersect {"WRONLY", "RDWR"} # {}]
           g  == [fr EXCEPT !.pc = "end", !.ip = 0]
<1>1. /\ fr.pc = "opened" /\ FreeFiles # {} /\ FreeFds(p) # {}
      /\ ftable' = [ftable EXCEPT ![f] = r] /\ ofile' = [ofile EXCEPT ![p][fd] = f]
      /\ lock' = [lock EXCEPT ![i] = NoProc] /\ Goto(p, g) /\ UNCHANGED <<disk, cwd, out>>
      /\ fs' = IF trunc THEN t.fs ELSE fs
      /\ itable' = IF trunc THEN [itable EXCEPT ![i].d = t.d] ELSE itable
  BY DEF OpenFile, At, Iunlock
<1>2. Steps(p) /\ k'[p] = g /\ FrameOk(fr) /\ Shape(fr)
  BY <1>1, Thread
<1>3. Busy(fr) /\ i \in Inum /\ fr.dp = 0 /\ fr.old = 0
  BY <1>1, <1>2 DEF Busy, FrameOk, Reg, HasIp, HasDp, HasOld, Aim, Putting
<1>4. fr.puts = <<>> /\ Aim(fr) = "opened" /\ fr.after \in {"user", "exit", "reclaim"}
  BY <1>1, <1>3, BusyIs
<1>5. f \in File /\ ftable[f].ref = 0 /\ fd \in Fd /\ ofile[p][fd] = 0
  BY <1>1, FreeFd, FreeFile
<1>6. FileOk(r) /\ r.ref = 1 /\ r.ip = i
  BY <1>3 DEF FileOk
<1>7. Shape(g) /\ g.pc = "end" /\ g.after = fr.after /\ g.ip = 0 /\ g.dp = 0 /\ g.old = 0
        /\ g.puts = <<>>
  <2>1. Shape(g)
    BY <1>2, Zenon, Sets
  <2>2. g.pc = "end" /\ g.after = fr.after /\ g.ip = 0 /\ g.dp = fr.dp /\ g.old = fr.old
          /\ g.puts = fr.puts
    BY <1>2, <2>1 DEF Shape
  <2> HIDE DEF g
  <2> QED
    BY <1>3, <1>4, <2>1, <2>2
<1>8. SameRef(itable, itable') /\ Only(fs, fs', i)
  <2>1. Only(fs, t.fs, i) /\ Only(fs, fs, i)
    BY ItruncOnly DEF Only, Inv, DiskInv
  <2>2. SameRef(itable, [itable EXCEPT ![i].d = t.d]) /\ SameRef(itable, itable)
    BY <1>3, RefNat, SetRef DEF SameRef
  <2> HIDE DEF trunc, t
  <2> QED
    BY <1>1, <2>1, <2>2
<1> HIDE DEF g, r, f, fd, trunc, t
<1>9. FrameOk(g) /\ ~Gone(g) /\ ~Writing(g) /\ Aim(g) = "end"
  <2>1. <<>> \in Seq(Inum) /\ Len(<<>>) = 0
    OBVIOUS
  <2> QED
    BY <1>4, <1>7, <2>1 DEF FrameOk, Reg, HasIp, HasDp, HasOld, Aim, Putting, Label, Gone, Writing
<1>10. /\ ftable' = [h \in File |-> ftable'[h]]
       /\ \A h \in File : FileOk(ftable'[h]) /\ (h # f => ftable'[h] = ftable[h])
       /\ ftable'[f] = r
  BY <1>1, <1>5, <1>6 DEF Inv, FileInv
<1>11. /\ ofile' \in [Proc -> [Fd -> 0 .. NFile]] /\ \A q \in Proc : q # p => ofile'[q] = ofile[q]
       /\ \A h \in File : Count(fds', Proc \X Fd, h) = ftable'[h].ref
  <2>1. f \in 0 .. NFile /\ f # 0
    BY <1>5 DEF File
  <2>2. ofile' \in [Proc -> [Fd -> 0 .. NFile]] /\ \A q \in Proc : q # p => ofile'[q] = ofile[q]
    BY <1>1, <1>5, <2>1, FdMove
  <2>3. \A h \in File : Count(fds', Proc \X Fd, h) = ftable[h].ref - Is(ofile[p][fd], h) + Is(f, h)
    BY <1>1, <1>5, <2>1, FdMoves
  <2>4. ASSUME NEW h \in File PROVE Count(fds', Proc \X Fd, h) = ftable'[h].ref
    <3>1. Is(0, h) = 0 /\ ftable[h].ref \in Nat /\ Is(f, h) = (IF h = f THEN 1 ELSE 0)
      BY DEF Is, File, Inv, FileInv, FileOk
    <3>2. Count(fds', Proc \X Fd, h) = ftable[h].ref - Is(0, h) + Is(f, h)
      BY <1>5, <2>3
    <3>3. ftable'[h].ref = IF h = f THEN 1 ELSE ftable[h].ref
      BY <1>6, <1>10
    <3> QED
      BY <1>5, <3>1, <3>2, <3>3
  <2> QED
    BY <2>2, <2>4
<1>12. FileInv'
  <2>1. ~Gone(fr)
    BY <1>1, <1>4 DEF Gone
  <2>2. FilesOk(p, k[p])'
    BY <1>1, <1>2, <1>9, <2>1 DEF FilesOk, Inv, FileInv
  <2> QED
    BY <1>1, <1>2, <1>10, <1>11, <2>2, FilesMove DEF Inv, FileInv
<1>13. RefInv'
  <2>1. ASSUME NEW x \in Inum
        PROVE  itable'[x].ref =
           itable[x].ref - Own(k[p], x) + Own(k'[p], x) - Count(ips, File, x) + Count(ips', File, x)
           - Count(cwd, Proc, x) + Count(cwd', Proc, x)
    <3>1. /\ itable[x].ref \in Nat /\ Count(ips, File, x) \in Nat /\ Count(cwd, Proc, x) \in Nat
          /\ Is(i, x) \in {0, 1} /\ Is(0, x) = 0
      BY RefNat, Finite, CountNat, Sizes DEF Is
    <3>2. cwd' = cwd /\ itable'[x].ref = itable[x].ref
      BY <1>1, <1>8 DEF SameRef
    <3>3. Own(k'[p], x) = 0
      BY <1>2, <1>7, OwnNothing
    <3>4. Own(fr, x) = Is(i, x) + Is(0, x) + Is(0, x)
      BY <1>3, <1>4, OwnRegs
    <3>5. But1(ips, ips', File, f) /\ ips[f] = 0 /\ ips'[f] = i
      BY <1>5, <1>6, <1>10, Finite DEF But1, ips, Inv, FileInv, FileOk
    <3>6. Count(ips', File, x) = Count(ips, File, x) - Is(ips[f], x) + Is(ips'[f], x)
      BY <3>5, EveryPoint
    <3>7. Own(k[p], x) = Own(fr, x) /\ Is(ips[f], x) = Is(0, x) /\ Is(ips'[f], x) = Is(i, x)
      BY <3>5
    <3> HIDE DEF i, fr
    <3> QED
      BY <3>1, <3>2, <3>3, <3>4, <3>6, <3>7
  <2> QED
    BY <1>2, <1>9, <1>11, <2>1, RefsMove, OthersStay DEF Inv
<1>14. Locks(p)
  <2>1. \A x \in Inum : /\ AimLock(p, x) <=> x = i
                        /\ ~PutLock(p, x) /\ ~AimLock(p, x)' /\ ~PutLock(p, x)'
    BY <1>1, <1>2, <1>4, <1>7, <1>9 DEF PutLock, AimLock
  <2> QED
    BY <1>1, <1>3, <2>1, LocksGive
<1>15. Writes(p)
  <2>1. lock[i] = p
    BY <1>1, <1>3, <1>4, Mine DEF AimLock
  <2> QED
    BY <1>1, <1>2, <1>7, <1>8, <2>1, WritesOnly
<1>16. Leaves(p)
  BY <1>1, <1>2, <1>7 DEF Leaves
<1>17. \A q \in Proc : q # p /\ k[q].pc \in {"writei", "written"} =>
      ftable'[k[q].f].ip = ftable[k[q].f].ip
  BY <1>5, <1>10, WritingFile DEF Writing
<1> QED
  BY <1>2, <1>8, <1>9, <1>12, <1>13, <1>14, <1>15, <1>16, <1>17, FinishFiles DEF SameRef

-----------------------------------------------------------------------------
(* The image that mkfs makes. *)

\* The equation of a function that mkfs's loop over its arguments computes.
Adds(f, n) == f = [m \in 0 .. n |-> IF m = 0 THEN MkRoot ELSE AddFile(f[m - 1], Shipped[m])]

\* A function that adds n files, one after the other, exists for each n.
LEMMA AddsExists == \A n \in Nat : \E f : Adds(f, n)
<1> DEFINE S == {n \in Nat : ~ \E f : Adds(f, n)}
<1> SUFFICES ASSUME S # {} PROVE FALSE
  OBVIOUS
<1>1. S \in SUBSET Nat
  OBVIOUS
<1>2. Min(S) \in S /\ \A y \in S : Min(S) <= y
  <2> HIDE DEF S
  <2> QED
    BY <1>1, MinIsLeast
<1> DEFINE n == Min(S)
<1>3. n \in Nat /\ ~(\E f : Adds(f, n)) /\ \A y \in Nat : y < n => \E f : Adds(f, y)
  BY <1>2
<1> HIDE DEF S, n
<1>4. n # 0
  <2> DEFINE f == [m \in 0 .. 0 |-> MkRoot]
  <2>1. Adds(f, 0)
    BY DEF Adds
  <2> QED
    BY <1>3, <2>1
<1>5. n - 1 \in Nat /\ n - 1 < n
  BY <1>3, <1>4
<1>6. PICK f : Adds(f, n - 1)
  BY <1>3, <1>5
<1> DEFINE g == [m \in 0 .. n |-> IF m < n THEN f[m] ELSE AddFile(f[n - 1], Shipped[n])]
<1>7. \A m \in 0 .. n - 1 : f[m] = IF m = 0 THEN MkRoot ELSE AddFile(f[m - 1], Shipped[m])
  BY <1>6 DEF Adds
<1>8. g = [m \in 0 .. n |-> IF m = 0 THEN MkRoot ELSE AddFile(g[m - 1], Shipped[m])]
  <2>1. ASSUME NEW m \in 0 .. n
        PROVE  g[m] = IF m = 0 THEN MkRoot ELSE AddFile(g[m - 1], Shipped[m])
    <3>1. CASE m = 0
      BY <1>3, <1>4, <1>5, <1>7, <3>1
    <3>2. CASE m # 0 /\ m < n
      <4>1. m \in 0 .. n - 1 /\ m - 1 \in 0 .. n /\ m - 1 < n
        BY <1>3, <3>2
      <4>2. g[m] = f[m] /\ g[m - 1] = f[m - 1]
        BY <3>2, <4>1
      <4> QED
        BY <1>7, <3>2, <4>1, <4>2
    <3>3. CASE m = n
      <4>1. n - 1 \in 0 .. n /\ n - 1 < n /\ m # 0
        BY <1>3, <1>4, <1>5, <3>3
      <4>2. g[m] = AddFile(f[n - 1], Shipped[n]) /\ g[n - 1] = f[n - 1]
        BY <3>3, <4>1
      <4> QED
        BY <3>3, <4>1, <4>2
    <3> QED
      BY <1>3, <3>1, <3>2, <3>3
  <2> QED
    BY <2>1
<1>9. Adds(g, n)
  BY <1>8 DEF Adds
<1> QED
  BY <1>3, <1>9

\* So AddFiles satisfies its recursion.
LEMMA AddFilesIs ==
  \A n \in 0 .. Len(Shipped) :
    AddFiles[n] = IF n = 0 THEN MkRoot ELSE AddFile(AddFiles[n - 1], Shipped[n])
<1>1. \E f : Adds(f, Len(Shipped))
  BY Sizes, AddsExists
<1>2. Adds(AddFiles, Len(Shipped))
  BY <1>1 DEF Adds, AddFiles
<1> QED
  BY <1>2 DEF Adds

\* What mkfs has made so far.
RootOk(d) == /\ d = [type |-> d.type, major |-> d.major, nlink |-> d.nlink, size |-> d.size,
                     addrs |-> d.addrs]
             /\ d.size \in Nat
InoOk(s) == s = [i \in Inum |-> s[i]] /\ RootOk(s[ROOTINO])
MkOk(M)  == /\ M = [fs |-> M.fs, freeinode |-> M.freeinode, freeblock |-> M.freeblock]
            /\ FsOk(M.fs) /\ InoOk(M.fs.ino)

\* An inode mkfs writes is a dinode.
LEMMA DinodeOk ==
  ASSUME NEW t, NEW n, NEW b
  PROVE  RootOk(Dinode(t, n, 0, b))
BY DEF RootOk, Dinode

\* The blank image mkfs starts from is well formed.
LEMMA BlankOk == MkOk(Blank) /\ Blank.freeinode = 1
<1>1. RootOk(Unused)
  BY DinodeOk DEF Unused
<1> QED
  BY <1>1, DirEmpty, Sizes DEF MkOk, Blank, FsOk, InoOk, ROOTINO

\* Other inodes, and other blocks that an inode names.
LEMMA InoSet ==
  ASSUME NEW s, InoOk(s), NEW i, NEW d, i = ROOTINO => RootOk(d)
  PROVE  InoOk([s EXCEPT ![i] = d])
BY Sizes DEF InoOk

\* Setting a block address leaves well-formed dinodes.
LEMMA InoAddr ==
  ASSUME NEW s, InoOk(s), NEW i, NEW n, NEW b
  PROVE  InoOk([s EXCEPT ![i].addrs[n] = b])
<1> DEFINE d == [s[i] EXCEPT !.addrs[n] = b]
<1>1. i = ROOTINO => RootOk(d)
  BY DEF InoOk, RootOk
<1>2. [s EXCEPT ![i].addrs[n] = b] = [s EXCEPT ![i] = d]
  OBVIOUS
<1> HIDE DEF d
<1> QED
  BY <1>1, <1>2, InoSet

\* Growing a file leaves well-formed dinodes.
LEMMA InoGrow ==
  ASSUME NEW s, InoOk(s), NEW i
  PROVE  InoOk([s EXCEPT ![i].size = @ + 1])
<1> DEFINE d == [s[i] EXCEPT !.size = s[i].size + 1]
<1>1. i = ROOTINO => RootOk(d)
  BY DEF InoOk, RootOk
<1>2. [s EXCEPT ![i].size = @ + 1] = [s EXCEPT ![i] = d]
  OBVIOUS
<1> HIDE DEF d
<1> QED
  BY <1>1, <1>2, InoSet

\* A well-formed table of dinodes leaves a well-formed image.
LEMMA MkIno ==
  ASSUME NEW M, MkOk(M), NEW s, InoOk(s)
  PROVE  MkOk([M EXCEPT !.fs.ino = s]) /\ [M EXCEPT !.fs.ino = s].freeinode = M.freeinode
BY DEF MkOk, FsOk

\* Filling a block leaves a well-formed image.
LEMMA MkFillOk ==
  ASSUME NEW M, MkOk(M), NEW b
  PROVE  MkOk(MkFill(M, b).m) /\ MkFill(M, b).m.freeinode = M.freeinode
BY DEF MkOk, MkFill

\* Mapping a block leaves a well-formed image.
LEMMA MkBmapOk ==
  ASSUME NEW M, MkOk(M), NEW i, NEW n
  PROVE  MkOk(MkBmap(M, i, n)) /\ MkBmap(M, i, n).freeinode = M.freeinode
<1> DEFINE One(L, x, b) == [L EXCEPT !.fs.ino[i].addrs[x] = b]
           Two(L, x, b, y, c) ==
             [L EXCEPT !.fs = [L.fs EXCEPT !.ino[i].addrs[x] = b, !.ind[b][y] = c]]
<1>1. ASSUME NEW L, MkOk(L), NEW x, NEW b
      PROVE  MkOk(One(L, x, b)) /\ One(L, x, b).freeinode = L.freeinode
  <2> DEFINE s == [L.fs.ino EXCEPT ![i].addrs[x] = b]
             N == [L EXCEPT !.fs.ino[i].addrs[x] = b]
  <2>1. InoOk(s)
    BY <1>1, InoAddr DEF MkOk
  <2>2. N = [L EXCEPT !.fs.ino = s]
    BY <1>1 DEF MkOk, FsOk
  <2> HIDE DEF s, N
  <2>3. MkOk(N) /\ N.freeinode = L.freeinode
    BY <1>1, <2>1, <2>2, MkIno
  <2> QED
    BY <2>3 DEF N
<1>2. ASSUME NEW L, MkOk(L), NEW x, NEW b, NEW y, NEW c
      PROVE  MkOk(Two(L, x, b, y, c)) /\ Two(L, x, b, y, c).freeinode = L.freeinode
  <2> DEFINE N == One(L, x, b)
             P == [N EXCEPT !.fs.ind[b][y] = c]
  <2>1. MkOk(N) /\ N.freeinode = L.freeinode
    BY <1>1, <1>2
  <2>2. Two(L, x, b, y, c) = P
    OBVIOUS
  <2> HIDE DEF N
  <2>3. MkOk(P) /\ P.freeinode = N.freeinode
    BY <2>1 DEF MkOk, FsOk
  <2> HIDE DEF P
  <2> QED
    BY <2>1, <2>2, <2>3
<1> DEFINE t == MkFill(M, M.fs.ino[i].addrs[IF n < NDirect THEN n ELSE NDirect])
           u == MkFill(t.m, t.m.fs.ind[t.b][n - NDirect])
<1>3. MkOk(t.m) /\ t.m.freeinode = M.freeinode
  BY MkFillOk
<1>4. MkOk(u.m) /\ u.m.freeinode = M.freeinode
  <2> HIDE DEF t
  <2> QED
    BY <1>3, MkFillOk
<1>5. MkBmap(M, i, n) =
        IF n < NDirect THEN [t.m EXCEPT !.fs.ino[i].addrs[n] = t.b]
        ELSE [u.m EXCEPT !.fs = [u.m.fs EXCEPT !.ino[i].addrs[NDirect] = t.b,
                                               !.ind[t.b][n - NDirect] = u.b]]
  BY DEF MkBmap
<1> HIDE DEF t, u
<1>6. MkBmap(M, i, n) = IF n < NDirect THEN One(t.m, n, t.b)
                        ELSE Two(u.m, NDirect, t.b, n - NDirect, u.b)
  BY <1>5
<1> HIDE DEF One, Two
<1>7. CASE n < NDirect
  BY <1>1, <1>3, <1>6, <1>7
<1>8. CASE ~(n < NDirect)
  BY <1>2, <1>4, <1>6, <1>8
<1> QED
  BY <1>7, <1>8

\* ialloc leaves a well-formed image and takes one inode.
LEMMA MkIallocOk ==
  ASSUME NEW M, MkOk(M), NEW t
  PROVE  MkOk(MkIalloc(M, t)) /\ MkIalloc(M, t).freeinode = M.freeinode + 1
<1> DEFINE d == Dinode(t, 1, 0, 0)
           i == M.freeinode
           s == [M.fs.ino EXCEPT ![i] = d]
           N == Winode(M, i, d)
<1>1. InoOk(s)
  BY DinodeOk, InoSet DEF MkOk
<1>2. N = [M EXCEPT !.fs.ino = s]
  BY DEF Winode, MkOk, FsOk
<1> HIDE DEF s
<1>3. MkOk(N) /\ N.freeinode = M.freeinode
  <2>1. MkOk([M EXCEPT !.fs.ino = s]) /\ [M EXCEPT !.fs.ino = s].freeinode = M.freeinode
    BY <1>1, MkIno
  <2> HIDE DEF N
  <2> QED
    BY <1>2, <2>1
<1> HIDE DEF N
<1>4. MkIalloc(M, t) = [N EXCEPT !.freeinode = N.freeinode + 1]
  BY <1>3 DEF MkIalloc, N, MkOk
<1> QED
  BY <1>3, <1>4 DEF MkOk

\* Appending a block leaves a well-formed image.
LEMMA AppendBlockOk ==
  ASSUME NEW M, MkOk(M), NEW i
  PROVE  MkOk(AppendBlock(M, i)) /\ AppendBlock(M, i).freeinode = M.freeinode
<1> DEFINE L == MkBmap(M, i, M.fs.ino[i].size)
           s == [L.fs.ino EXCEPT ![i].size = @ + 1]
<1>1. MkOk(L) /\ L.freeinode = M.freeinode
  BY MkBmapOk
<1>2. AppendBlock(M, i) = [L EXCEPT !.fs.ino[i].size = @ + 1]
  BY DEF AppendBlock
<1> HIDE DEF L
<1>3. InoOk(s)
  BY <1>1, InoGrow DEF MkOk
<1>4. AppendBlock(M, i) = [L EXCEPT !.fs.ino = s]
  BY <1>1, <1>2 DEF MkOk, FsOk
<1> HIDE DEF s
<1> QED
  BY <1>1, <1>3, <1>4, MkIno

\* Appending a directory entry leaves a well-formed image.
LEMMA AppendEntryOk ==
  ASSUME NEW M, MkOk(M), NEW e, e.inum \in 0 .. NInode
  PROVE  MkOk(AppendEntry(M, e)) /\ AppendEntry(M, e).freeinode = M.freeinode
<1> DEFINE L == MkBmap(M, ROOTINO, M.fs.ino[ROOTINO].size \div DirBlock)
           s == [L.fs.ino EXCEPT ![ROOTINO].size = @ + 1]
           N == [L EXCEPT !.fs.ino[ROOTINO].size = @ + 1]
           z == Append(L.fs.ents[ROOTINO], e)
<1>1. MkOk(L) /\ L.freeinode = M.freeinode
  BY MkBmapOk
<1>2. AppendEntry(M, e) = [L EXCEPT !.fs = [L.fs EXCEPT !.ino[ROOTINO].size = @ + 1,
                                                        !.ents[ROOTINO] = Append(@, e)]]
  BY DEF AppendEntry
<1> HIDE DEF L
<1>3. InoOk(s)
  BY <1>1, InoGrow DEF MkOk
<1>4. N = [L EXCEPT !.fs.ino = s]
  BY <1>1 DEF MkOk, FsOk
<1>5. AppendEntry(M, e) = [N EXCEPT !.fs.ents[ROOTINO] = z]
  <2>1. /\ L = [fs |-> L.fs, freeinode |-> L.freeinode, freeblock |-> L.freeblock]
        /\ L.fs = [ino |-> L.fs.ino, ents |-> L.fs.ents, used |-> L.fs.used,
                   ind |-> L.fs.ind, stray |-> L.fs.stray]
    BY <1>1 DEF MkOk, FsOk
  <2>2. AppendEntry(M, e) = [L EXCEPT !.fs = [L.fs EXCEPT !.ino[ROOTINO].size = @ + 1,
                                                          !.ents[ROOTINO] = z]]
    BY <1>2
  <2> HIDE DEF z
  <2> QED
    BY <2>1, <2>2
<1> HIDE DEF s, N
<1>6. MkOk(N) /\ N.freeinode = M.freeinode /\ N.fs.ents = L.fs.ents
  <2>1. MkOk(N) /\ N.freeinode = M.freeinode
    BY <1>1, <1>3, <1>4, MkIno
  <2> QED
    BY <1>1, <1>4, <2>1 DEF MkOk, FsOk
<1>7. DirOk(z)
  BY <1>1, DirAppend, Sizes DEF MkOk, FsOk
<1> HIDE DEF z
<1> DEFINE F == [N.fs EXCEPT !.ents[ROOTINO] = z]
           P == [N EXCEPT !.fs = F]
<1>8. FsOk(F) /\ F.ino = N.fs.ino
  BY <1>6, <1>7 DEF MkOk, FsOk
<1>9. AppendEntry(M, e) = P
  BY <1>5, <1>6 DEF MkOk, FsOk
<1> HIDE DEF F
<1>10. MkOk(P) /\ P.freeinode = N.freeinode
  BY <1>6, <1>8 DEF MkOk
<1> HIDE DEF P
<1> QED
  BY <1>1, <1>6, <1>9, <1>10

\* Adding a file leaves a well-formed image and takes one inode.
LEMMA AddFileOk ==
  ASSUME NEW M, MkOk(M), M.freeinode \in 0 .. NInode, NEW nm
  PROVE  MkOk(AddFile(M, nm)) /\ AddFile(M, nm).freeinode = M.freeinode + 1
<1> DEFINE N == MkIalloc(M, "file")
           e == Dirent(nm, M.freeinode)
           L == AppendEntry(N, e)
<1>1. MkOk(N) /\ N.freeinode = M.freeinode + 1
  BY MkIallocOk
<1>2. e.inum \in 0 .. NInode
  BY DEF Dirent
<1>3. AddFile(M, nm) = AppendBlock(L, M.freeinode)
  BY DEF AddFile
<1> HIDE DEF N, e
<1>4. MkOk(L) /\ L.freeinode = M.freeinode + 1
  BY <1>1, <1>2, AppendEntryOk
<1> HIDE DEF L
<1> QED
  BY <1>3, <1>4, AppendBlockOk

\* The root directory takes inode 1 and leaves a well-formed image.
LEMMA MkRootOk == MkOk(MkRoot) /\ MkRoot.freeinode = 2
<1> DEFINE M == MkIalloc(Blank, "dir")
           e(nm) == Dirent(nm, ROOTINO)
           N == AppendEntry(M, e("."))
<1>1. MkOk(M) /\ M.freeinode = 2
  BY BlankOk, MkIallocOk
<1>2. \A nm : e(nm).inum \in 0 .. NInode
  BY Sizes DEF Dirent, Inum
<1>3. MkRoot = AppendEntry(N, e(".."))
  BY DEF MkRoot
<1> HIDE DEF M, e
<1>4. MkOk(N) /\ N.freeinode = 2
  BY <1>1, <1>2, AppendEntryOk
<1> HIDE DEF N
<1> QED
  BY <1>2, <1>3, <1>4, AppendEntryOk

\* After n files the image is well formed and the next inode is n + 2.
LEMMA AddFilesOk ==
  \A n \in 0 .. Len(Shipped) : MkOk(AddFiles[n]) /\ AddFiles[n].freeinode = n + 2
<1> DEFINE S == {n \in 0 .. Len(Shipped) : ~(MkOk(AddFiles[n]) /\ AddFiles[n].freeinode = n + 2)}
<1> SUFFICES ASSUME S # {} PROVE FALSE
  OBVIOUS
<1>1. S \in SUBSET Nat
  BY Sizes
<1>2. Min(S) \in S /\ \A y \in S : Min(S) <= y
  <2> HIDE DEF S
  <2> QED
    BY <1>1, MinIsLeast
<1> DEFINE n == Min(S)
<1>3. /\ n \in 0 .. Len(Shipped) /\ ~(MkOk(AddFiles[n]) /\ AddFiles[n].freeinode = n + 2)
      /\ \A y \in 0 .. Len(Shipped) : y < n => MkOk(AddFiles[y]) /\ AddFiles[y].freeinode = y + 2
  <2>1. n \in 0 .. Len(Shipped) /\ ~(MkOk(AddFiles[n]) /\ AddFiles[n].freeinode = n + 2)
    BY <1>2
  <2>2. ASSUME NEW y \in 0 .. Len(Shipped), y < n
        PROVE  MkOk(AddFiles[y]) /\ AddFiles[y].freeinode = y + 2
    <3>1. y \in S \/ (MkOk(AddFiles[y]) /\ AddFiles[y].freeinode = y + 2)
      OBVIOUS
    <3>2. y \in S => n <= y
      BY <1>2
    <3> HIDE DEF S, n
    <3>3. ~(n <= y)
      BY <2>1, <2>2, Sizes
    <3> QED
      BY <3>1, <3>2, <3>3
  <2> QED
    BY <2>1, <2>2
<1> HIDE DEF S, n
<1>4. AddFiles[n] = IF n = 0 THEN MkRoot ELSE AddFile(AddFiles[n - 1], Shipped[n])
  BY <1>3, AddFilesIs
<1>5. CASE n = 0
  BY <1>3, <1>4, <1>5, MkRootOk
<1>6. CASE n # 0
  <2>1. n - 1 \in 0 .. Len(Shipped) /\ n - 1 < n /\ (n - 1) + 2 = n + 1
    BY <1>3, <1>6, Sizes
  <2>2. MkOk(AddFiles[n - 1]) /\ AddFiles[n - 1].freeinode = n + 1
    BY <1>3, <2>1
  <2>3. n + 1 \in 0 .. NInode
    BY <1>3, Sizes
  <2>4. MkOk(AddFiles[n]) /\ AddFiles[n].freeinode = (n + 1) + 1
    BY <1>4, <1>6, <2>2, <2>3, AddFileOk
  <2> QED
    BY <1>3, <2>4
<1> QED
  BY <1>5, <1>6

\* A directory of any length.
LEMMA DirOf ==
  ASSUME NEW n \in Nat, NEW t, t = [x \in 1 .. n |-> t[x]],
         \A x \in 1 .. n : t[x].inum \in 0 .. NInode
  PROVE  DirOk(t)
<1>1. t \in Seq({t[x] : x \in 1 .. n})
  <2>1. t \in [1 .. n -> {t[x] : x \in 1 .. n}]
    OBVIOUS
  <2> QED
    BY <2>1, SeqDef
<1>2. Len(t) \in Nat /\ DOMAIN t = 1 .. Len(t) /\ DOMAIN t = 1 .. n
  BY <1>1, LenProperties
<1>3. Len(t) = n
  BY <1>2, Upto
<1> QED
  BY <1>3 DEF DirOk

\* The image mkfs ships is a file system.
LEMMA MkfsOk == FsOk(Mkfs)
<1> DEFINE M  == AddFiles[Len(Shipped)]
           sz == (M.fs.ino[ROOTINO].size \div DirBlock + 1) * DirBlock
           s  == M.fs.ents[ROOTINO]
           t  == [j \in 1 .. sz |-> IF j <= Len(s) THEN s[j] ELSE NoEntry]
           R  == RoundRoot(M)
<1>1. MkOk(M)
  BY AddFilesOk, Sizes
<1>2. Mkfs = [R.fs EXCEPT !.used = 1 .. R.freeblock - 1]
  BY DEF Mkfs, MkBalloc
<1> HIDE DEF M
<1>3. sz \in Nat
  <2>1. M.fs.ino[ROOTINO].size \in Nat /\ DirBlock \in Nat \ {0}
    BY <1>1, DiskFsAssumption, Sizes DEF MkOk, InoOk, RootOk
  <2> DEFINE a == M.fs.ino[ROOTINO].size \div DirBlock
  <2>2. a \in Nat
    BY <2>1
  <2> HIDE DEF a
  <2>3. (a + 1) * DirBlock \in Nat
    BY <2>1, <2>2
  <2> QED
    BY <2>3 DEF a
<1>4. DirOk(t)
  <2>1. DirOk(s)
    BY <1>1, Sizes DEF MkOk, FsOk
  <2>2. NoEntry.inum \in 0 .. NInode
    BY Sizes DEF NoEntry, Dirent
  <2> HIDE DEF s, sz
  <2>3. \A x \in 1 .. sz : t[x].inum \in 0 .. NInode
    BY <1>3, <2>1, <2>2 DEF DirOk
  <2>4. t = [x \in 1 .. sz |-> t[x]]
    OBVIOUS
  <2> HIDE DEF t
  <2> QED
    BY <1>3, <2>3, <2>4, DirOf
<1>5. R = [M EXCEPT !.fs = [M.fs EXCEPT !.ino[ROOTINO].size = sz, !.ents[ROOTINO] = t]]
  BY <1>1, Sizes DEF RoundRoot, MkOk, FsOk
<1> HIDE DEF R, t, sz
<1>6. FsOk(R.fs)
  BY <1>1, <1>4, <1>5 DEF MkOk, FsOk
<1> QED
  BY <1>2, <1>6 DEF FsOk

-----------------------------------------------------------------------------
(* Boot, crash, and the theorems. *)

\* A value a function does not take counts 0.
LEMMA NoneCounts ==
  ASSUME NEW S, NEW f, NEW a, \A x \in S : f[x] # a
  PROVE  Count(f, S, a) = 0
<1>1. {x \in S : f[x] = a} = {}
  OBVIOUS
<1> QED
  BY <1>1, FS_EmptySet DEF Count

\* A value a function takes once counts 1.
LEMMA OnceCounts ==
  ASSUME NEW S, NEW f, NEW a, NEW x \in S, f[x] = a, \A y \in S : f[y] = a => y = x
  PROVE  Count(f, S, a) = 1
<1>1. {y \in S : f[y] = a} = {x}
  OBVIOUS
<1> QED
  BY <1>1, FS_Singleton DEF Count

\* The state after boot: Init, and what Crash leaves.
BootOk == /\ FsOk(fs) /\ FsOk(disk) /\ itable = BootTable /\ lock = NoLocks /\ ftable = NoFiles
          /\ ofile = NoFds /\ cwd = BootCwd /\ out = {} /\ k = BootProcs

\* At boot the first process reclaims orphans and the others do not exist yet.
LEMMA BootFrames ==
  ASSUME k = BootProcs
  PROVE  /\ ThreadInv
         /\ \A p \in Proc : /\ k[p].pc = (IF p = InitProc THEN "reclaim" ELSE "dead")
                            /\ Aim(k[p]) = k[p].pc /\ k[p].after = "user" /\ k[p].puts = <<>>
                            /\ k[p].ip = 0 /\ k[p].dp = 0 /\ k[p].old = 0
<1>1. ASSUME NEW p \in Proc
      PROVE  /\ Shape(k[p]) /\ k[p].pc = (IF p = InitProc THEN "reclaim" ELSE "dead")
             /\ k[p].after = "user" /\ k[p].puts = <<>>
             /\ k[p].ip = 0 /\ k[p].dp = 0 /\ k[p].old = 0
  <2> DEFINE b == Frame("reclaim")
             g == [b EXCEPT !.n = 1]
  <2>1. Shape(b) /\ b.pc = "reclaim" /\ b.after = "user" /\ b.ip = 0 /\ b.dp = 0 /\ b.old = 0
        /\ b.puts = <<>>
    BY FrameShape, FrameFields
  <2>2. /\ Shape(Frame("dead")) /\ Frame("dead").pc = "dead" /\ Frame("dead").after = "user"
        /\ Frame("dead").ip = 0 /\ Frame("dead").dp = 0 /\ Frame("dead").old = 0
        /\ Frame("dead").puts = <<>>
    BY FrameShape, FrameFields
  <2>3. k[p] = IF p = InitProc THEN g ELSE Frame("dead")
    BY DEF BootProcs
  <2> HIDE DEF b
  <2>4. Shape(g)
    BY <2>1, Sets
  <2>5. g.pc = b.pc /\ g.after = b.after /\ g.puts = b.puts /\ g.ip = b.ip /\ g.dp = b.dp
          /\ g.old = b.old
    BY <2>1 DEF Shape
  <2> HIDE DEF g
  <2> QED
    BY <2>1, <2>2, <2>3, <2>4, <2>5
<1>2. <<>> \in Seq(Inum) /\ Len(<<>>) = 0
  OBVIOUS
<1>3. ASSUME NEW p \in Proc
      PROVE  FrameOk(k[p]) /\ Aim(k[p]) = k[p].pc
  <2> DEFINE g == k[p]
  <2>1. /\ Shape(g) /\ g.pc \in {"reclaim", "dead"} /\ g.after = "user" /\ g.puts = <<>>
        /\ g.ip = 0 /\ g.dp = 0 /\ g.old = 0
    BY <1>1
  <2> HIDE DEF g
  <2>2. Aim(g) = g.pc
    BY <2>1 DEF Aim, Putting
  <2>3. FrameOk(g)
    BY <1>2, <2>1, <2>2 DEF FrameOk, Reg, HasIp, HasDp, HasOld, Putting, Label
  <2> QED
    BY <2>2, <2>3 DEF g
<1>4. k = [p \in Proc |-> k[p]]
  BY DEF BootProcs
<1> QED
  BY <1>1, <1>3, <1>4 DEF ThreadInv

\* At boot nothing holds a reference and no count is above 0.
LEMMA BootRefs ==
  ASSUME BootOk, ThreadInv,
         \A p \in Proc : k[p].puts = <<>> /\ k[p].ip = 0 /\ k[p].dp = 0 /\ k[p].old = 0
  PROVE  RefInv
<1>1. ASSUME NEW i \in Inum
      PROVE  itable[i].ref = Total(i)
  <2>1. i # 0
    BY Sizes
  <2>2. Count(ips, File, i) = 0
    <3>1. \A f \in File : ips[f] # i
      BY <2>1 DEF BootOk, NoFiles, NoFile, ips
    <3> QED
      BY <3>1, NoneCounts
  <2>3. Count(regs, Registers, i) = 0
    <3>1. \A x \in Registers : regs[x] # i
      BY <2>1 DEF Registers, regs
    <3> QED
      BY <3>1, NoneCounts
  <2>4. Count(puts, Places, i) = 0
    <3>1. \A x \in Places : puts[x] = 0
      <4>1. Len(<<>>) = 0
        OBVIOUS
      <4>2. \A x \in Places : x[1] \in Proc /\ x[2] \in {1, 2}
        BY DEF Places
      <4> QED
        BY <4>1, <4>2 DEF puts, PutAt
    <3>2. \A x \in Places : puts[x] # i
      BY <2>1, <3>1
    <3> QED
      BY <3>2, NoneCounts
  <2>5. Count(cwd, Proc, i) = IF i = ROOTINO THEN 1 ELSE 0
    <3>0. cwd = BootCwd /\ InitProc \in Proc
      BY FilesAssumption DEF BootOk
    <3>1. CASE i = ROOTINO
      <4> DEFINE c == cwd
      <4>1. c[InitProc] = i /\ \A p \in Proc : c[p] = i => p = InitProc
        BY <2>1, <3>0, <3>1 DEF BootCwd
      <4> HIDE DEF c
      <4>2. Count(c, Proc, i) = 1
        BY <3>0, <4>1, OnceCounts
      <4> QED
        BY <3>1, <4>2 DEF c
    <3>2. CASE i # ROOTINO
      <4> DEFINE c == cwd
      <4>1. \A p \in Proc : c[p] # i
        BY <2>1, <3>0, <3>2 DEF BootCwd
      <4> HIDE DEF c
      <4>2. Count(c, Proc, i) = 0
        BY <4>1, NoneCounts
      <4> QED
        BY <3>2, <4>2 DEF c
    <3> QED
      BY <3>1, <3>2
  <2>6. itable[i].ref = IF i = ROOTINO THEN 1 ELSE 0
    BY DEF BootOk, BootTable, NoInode
  <2> QED
    BY <2>2, <2>3, <2>4, <2>5, <2>6, TotalIs
<1>2. ASSUME NEW f \in File
      PROVE  ftable[f].ref = Cardinality({x \in Proc \X Fd : ofile[x[1]][x[2]] = f})
  <2>1. {x \in Proc \X Fd : ofile[x[1]][x[2]] = f} = {}
    <3>1. f # 0
      BY DEF File
    <3>2. \A x \in Proc \X Fd : ofile[x[1]][x[2]] = 0
      BY DEF BootOk, NoFds
    <3> QED
      BY <3>1, <3>2
  <2>2. ftable[f].ref = 0
    BY DEF BootOk, NoFiles, NoFile
  <2> QED
    BY <2>1, <2>2, FS_EmptySet
<1> QED
  BY <1>1, <1>2 DEF RefInv, Total

\* The invariant holds at boot, the first and those after a crash.
LEMMA BootInv == BootOk => Inv
<1> SUFFICES ASSUME BootOk PROVE Inv
  OBVIOUS
<1>1. k = BootProcs
  BY DEF BootOk
<1>2. /\ ThreadInv
      /\ \A p \in Proc : /\ k[p].pc = (IF p = InitProc THEN "reclaim" ELSE "dead")
                         /\ Aim(k[p]) = k[p].pc /\ k[p].after = "user" /\ k[p].puts = <<>>
                         /\ k[p].ip = 0 /\ k[p].dp = 0 /\ k[p].old = 0
  BY <1>1, BootFrames
<1>3. DiskInv /\ OutInv
  BY DEF DiskInv, OutInv, BootOk
<1>4. FileInv
  <2>1. ftable = [f \in File |-> ftable[f]] /\ \A f \in File : FileOk(ftable[f])
    BY DEF BootOk, NoFiles, NoFile, FileOk
  <2>2. ofile \in [Proc -> [Fd -> 0 .. NFile]] /\ cwd \in [Proc -> 0 .. NInode]
    <3>1. 0 \in 0 .. NFile /\ 0 \in 0 .. NInode /\ ROOTINO \in 0 .. NInode
      BY FilesAssumption, Sizes DEF Inum
    <3> QED
      BY <3>1 DEF BootOk, NoFds, BootCwd
  <2>3. ASSUME NEW p \in Proc
        PROVE  /\ IF Gone(k[p]) THEN cwd[p] = 0 /\ \A fd \in Fd : ofile[p][fd] = 0
                  ELSE cwd[p] \in Inum
               /\ ~Writing(k[p])
    <3>1. Gone(k[p]) <=> p # InitProc
      BY <1>2 DEF Gone
    <3>2. ~Writing(k[p])
      BY <1>2 DEF Writing
    <3>3. cwd[p] = (IF p = InitProc THEN ROOTINO ELSE 0) /\ \A fd \in Fd : ofile[p][fd] = 0
      BY DEF BootOk, BootCwd, NoFds
    <3> QED
      BY <3>1, <3>2, <3>3, Sizes
  <2> QED
    BY <2>1, <2>2, <2>3 DEF FileInv
<1>5. LockInv
  <2>1. lock \in [Inum -> Proc \union {NoProc}] /\ \A i \in Inum : lock[i] = NoProc
    BY DEF BootOk, NoLocks
  <2>2. \A p \in Proc, i \in Inum : ~PutLock(p, i) /\ ~AimLock(p, i)
    BY <1>2 DEF PutLock, AimLock
  <2> QED
    BY <2>1, <2>2, FilesAssumption DEF LockInv
<1>6. EntryInv
  BY <1>2 DEF EntryInv, At
<1>7. ItableInv
  <2>1. PICK w : w = [NoInode EXCEPT !.ref = 1]
    OBVIOUS
  <2>2. w = [ref |-> 1, valid |-> FALSE, d |-> Unused]
    BY <2>1 DEF NoInode
  <2>3. NoInode = [ref |-> 0, valid |-> FALSE, d |-> Unused]
    BY DEF NoInode
  <2>4. itable = [i \in Inum |-> IF i = ROOTINO THEN w ELSE NoInode]
    BY <2>1 DEF BootOk, BootTable
  <2>5. \A i \in Inum :
          itable[i] = [ref |-> itable[i].ref, valid |-> itable[i].valid, d |-> itable[i].d]
    BY <2>2, <2>3, <2>4
  <2> QED
    BY <2>4, <2>5 DEF ItableInv
<1>8. RefInv
  BY <1>2, BootRefs
<1> QED
  BY <1>2, <1>3, <1>4, <1>5, <1>6, <1>7, <1>8 DEF Inv

\* The invariant holds initially.
LEMMA InitInv == Init => Inv
<1>1. Init => BootOk
  BY MkfsOk DEF Init, BootOk
<1> QED
  BY <1>1, BootInv

\* A crash, and the recovery of the log after it, keep the invariant.
LEMMA CrashInv ==
  ASSUME Inv, Crash
  PROVE  Inv'
<1>1. BootOk'
  BY DEF Crash, BootOk, Inv, DiskInv, BootTable, NoLocks, NoFiles, NoFds, BootCwd, BootProcs
<1>2. (BootOk => Inv)'
  BY BootInv, PTL
<1> QED
  BY <1>1, <1>2

\* A step that changes nothing keeps the invariant.
LEMMA StutterInv ==
  ASSUME Inv, UNCHANGED work
  PROVE  Inv'
<1>1. UNCHANGED <<fs, disk, itable, lock, ftable, ofile, cwd, out, k>>
  BY DEF work, mem, open
<1>2. ThreadInv' /\ DiskInv' /\ OutInv' /\ ItableInv'
  BY <1>1 DEF Inv, ThreadInv, DiskInv, OutInv, ItableInv
<1>3. FileInv'
  BY <1>1 DEF Inv, FileInv
<1>4. LockInv'
  BY <1>1 DEF Inv, LockInv, PutLock, AimLock
<1>5. EntryInv'
  BY <1>1 DEF Inv, EntryInv, At, Entry
<1>6. RefInv'
  BY <1>1 DEF Inv, RefInv, FilesOf, CwdsOf, RegsOf, PutsOf
<1> QED
  BY <1>2, <1>3, <1>4, <1>5, <1>6 DEF Inv

\* A step of a process in user mode keeps the invariant.
LEMMA UserInv ==
  ASSUME Inv, NEW p \in Proc, User(p)
  PROVE  Inv'
<1>1. CASE \E r \in Request : Syscall(p, r)
  BY <1>1, SyscallInv
<1>2. CASE \E fd \in Fd : SysClose(p, fd) \/ SysDup(p, fd)
  BY <1>2, SysCloseInv, SysDupInv
<1>3. CASE \E fd \in Fd : SysRead(p, fd, 1) \/ SysFstat(p, fd)
  BY <1>3, SysReadInv, SysFstatInv
<1>4. CASE \E fd \in Fd, n \in WriteLen : SysWrite(p, fd, n)
  BY <1>4, SysWriteInv
<1>5. CASE SysExit(p)
  BY <1>5, SysExitInv
<1>6. CASE \E q \in Proc : Fork(p, q)
  BY <1>6, ForkInv
<1> QED
  BY <1>1, <1>2, <1>3, <1>4, <1>5, <1>6 DEF User

\* A step of a process inside a call keeps the invariant.
LEMMA KernelInv ==
  ASSUME Inv, NEW p \in Proc, Kernel(p)
  PROVE  Inv'
<1>1. CASE EndOp(p)
  BY <1>1, EndOpInv
<1>2. CASE IputRef(p) \/ IputDrop(p)
  BY <1>2, UnrefInv DEF IputRef, IputDrop, At
<1>3. CASE IputLast(p) \/ IputFree(p) \/ IputInvalid(p)
  BY <1>3, IputLastInv, IputFreeInv, IputInvalidInv
<1>4. CASE WalkEnd(p) \/ WalkParent(p) \/ WalkNext(p)
  BY <1>4, WalkEndInv, WalkParentInv, WalkNextInv
<1>5. CASE OpenLock(p) \/ CreateExists(p)
  BY <1>5, OpeningInv
<1>6. CASE \/ OpenDir(p) \/ CreateRefused(p) \/ CreateNoInode(p) \/ LinkDir(p) \/ UnlinkFail(p)
           \/ ChdirFail(p) \/ Exec(p)
  BY <1>6, FailingInv
<1>7. CASE OpenFail(p) \/ Made(p) \/ UnlinkCount(p)
  BY <1>7, UnlockingInv
<1>8. CASE OpenFile(p)
  BY <1>8, OpenFileInv
<1>9. CASE CreateFound(p) \/ CreateAlloc(p)
  BY <1>9, CreateFoundInv, CreateAllocInv
<1>10. CASE CreateNew(p) \/ CreateFail(p) \/ DirFail(p)
  BY <1>10, CreateNewInv, CreateFailInv, DirFailInv
<1>11. CASE LinkCount(p) \/ LinkEntry(p) \/ BadLink(p)
  BY <1>11, LinkCountInv, LinkEntryInv, BadLinkInv
<1>12. CASE UnlinkFound(p) \/ UnlinkNotEmpty(p) \/ UnlinkRemove(p)
  BY <1>12, UnlinkFoundInv, UnlinkNotEmptyInv, UnlinkRemoveInv
<1>13. CASE Chdir(p)
  BY <1>13, ChdirInv
<1>14. CASE WriteBegin(p) \/ WriteLock(p) \/ WriteBlock(p) \/ WriteDone(p)
  BY <1>14, WriteBeginInv, WriteLockInv, WriteBlockInv, WriteDoneInv
<1>15. CASE ExitClose(p) \/ ExitCwd(p)
  BY <1>15, ExitCloseInv, ExitCwdInv
<1>16. CASE Reclaim(p) \/ ReclaimNext(p)
  BY <1>16, ReclaimInv, ReclaimNextInv
<1> QED
  BY <1>1, <1>2, <1>3, <1>4, <1>5, <1>6, <1>7, <1>8, <1>9, <1>10, <1>11, <1>12, <1>13, <1>14,
     <1>15, <1>16 DEF Kernel

\* The invariant is inductive.
LEMMA NextInv == Inv /\ [Next]_vars => Inv'
<1> SUFFICES ASSUME Inv, [Next]_vars PROVE Inv'
  OBVIOUS
<1>1. CASE Crash
  BY <1>1, CrashInv
<1>2. CASE Rest \/ UNCHANGED vars
  BY <1>2, StutterInv DEF Rest, vars
<1>3. CASE \E p \in Proc : User(p) \/ Kernel(p)
  BY <1>3, UserInv, KernelInv
<1>4. CASE \E p \in Proc : IgetPanic(p)
  BY <1>4, StutterInv DEF IgetPanic
<1> QED
  BY <1>1, <1>2, <1>3, <1>4 DEF Next

\* Every reachable state satisfies the inductive invariant: each thread has, at each
\* label of sysfile.c and fs.c, exactly the references and the locks that its code
\* gives it, and nothing names an inode that does not exist.
THEOREM InvHolds == Spec => []Inv
<1> QED
  BY InitInv, NextInv, PTL DEF Spec

\* The invariant implies exact reference counts.
LEMMA InvExact == Inv => RefsExact
<1> SUFFICES ASSUME Inv PROVE RefsExact
  OBVIOUS
<1>1. ASSUME NEW p \in Proc, k[p].pc \in {"user", "dead", "exit", "write"}
      PROVE  /\ p \notin out /\ \A i \in Inum : lock[i] # p
             /\ k[p].ip = 0 /\ k[p].dp = 0 /\ k[p].old = 0 /\ k[p].puts = <<>>
  <2>1. FrameOk(k[p])
    BY DEF Inv, ThreadInv
  <2>2. k[p].ip = 0 /\ k[p].dp = 0 /\ k[p].old = 0 /\ k[p].puts = <<>>
    BY <1>1, <2>1 DEF FrameOk, Reg, HasIp, HasDp, HasOld, Aim, Putting
  <2>3. \A i \in Inum : ~PutLock(p, i) /\ ~AimLock(p, i)
    BY <1>1 DEF PutLock, AimLock, Aim, Putting
  <2> QED
    BY <1>1, <2>2, <2>3 DEF Inv, OutInv, LockInv
<1> QED
  BY <1>1 DEF Inv, RefInv, RefsExact

\* The reference count of every inode and of every open file is the number of
\* files, directories, registers and iput calls to come that refer to it, on every
\* path of every call; who is back in user mode holds no lock and no transaction.
THEOREM RefsExactHolds == Spec => []RefsExact
<1> QED
  BY InvHolds, InvExact, PTL

(* When iget panics. *)

\* Every step of a thread is taken before a panic, and is none.
LEMMA NoPanicYet ==
  ASSUME NEW p \in Proc, User(p) \/ Kernel(p)
  PROVE  ~panicked'
<1> USE DEF Running, Goto, To
<1>1. CASE User(p)
  BY <1>1 DEF User, Syscall, SysClose, Close, SysDup, SysRead, SysFstat, SysWrite, SysExit, Fork
<1>2. CASE EndOp(p) \/ IputRef(p) \/ IputLast(p) \/ IputFree(p) \/ IputInvalid(p) \/ IputDrop(p)
  BY <1>2 DEF EndOp, IputRef, IputLast, IputFree, IputInvalid, IputDrop, Unref
<1>3. CASE \/ WalkEnd(p) \/ WalkParent(p) \/ WalkNext(p)
           \/ OpenLock(p) \/ OpenDir(p) \/ OpenFail(p) \/ OpenFile(p)
  BY <1>3 DEF WalkEnd, WalkParent, WalkNext, OpenLock, OpenDir, Fail, OpenFail, OpenFile
<1>4. CASE \/ CreateFound(p) \/ CreateExists(p) \/ CreateRefused(p) \/ CreateNoInode(p)
           \/ CreateAlloc(p) \/ CreateNew(p) \/ CreateFail(p) \/ DirFail(p) \/ Made(p)
  BY <1>4 DEF CreateFound, CreateExists, CreateRefused, Fail, CreateNoInode, CreateAlloc,
     CreateNew, CreateFail, DirFail, Made
<1>5. CASE \/ LinkDir(p) \/ LinkCount(p) \/ LinkEntry(p) \/ BadLink(p)
           \/ UnlinkFail(p) \/ UnlinkFound(p) \/ UnlinkNotEmpty(p) \/ UnlinkRemove(p)
           \/ UnlinkCount(p)
  BY <1>5 DEF LinkDir, Fail, LinkCount, LinkEntry, BadLink, UnlinkFail, UnlinkFound,
     UnlinkNotEmpty, UnlinkRemove, UnlinkCount
<1>6. CASE \/ ChdirFail(p) \/ Chdir(p) \/ Exec(p)
           \/ WriteBegin(p) \/ WriteLock(p) \/ WriteBlock(p) \/ WriteDone(p)
  BY <1>6 DEF ChdirFail, Fail, Chdir, Exec, WriteBegin, WriteLock, WriteBlock, WriteDone
<1>7. CASE ExitClose(p) \/ ExitCwd(p) \/ Reclaim(p) \/ ReclaimNext(p)
  BY <1>7 DEF ExitClose, Close, ExitCwd, Reclaim, ReclaimNext
<1> QED
  BY <1>1, <1>2, <1>3, <1>4, <1>5, <1>6, <1>7 DEF Kernel

\* An entry of the inode table that is in use has a holder.
LEMMA InUseHeld ==
  ASSUME Inv
  PROVE  InUse \subseteq {i \in Inum : Held(i)}
<1> SUFFICES ASSUME NEW i \in Inum, ~Held(i) PROVE ~(itable[i].ref > 0)
  BY DEF InUse
<1>1. FilesOf(i) = {} /\ CwdsOf(i) = {} /\ RegsOf(i) = {} /\ PutsOf(i) = {}
  BY DEF Held
<1>2. itable[i].ref = Cardinality({}) + Cardinality({}) + Cardinality({}) + Cardinality({})
  BY <1>1 DEF Inv, RefInv
<1> QED
  BY <1>2, FS_EmptySet

\* If iget finds neither the inode nor room, NINODE inodes have a holder.
LEMMA FullHeld ==
  ASSUME Inv, NEW i \in Inum, ~CanIget(i)
  PROVE  Cardinality({j \in Inum : Held(j)}) >= NINODE
<1> DEFINE H == {j \in Inum : Held(j)}
<1>1. IsFiniteSet(Inum)
  BY DiskFsAssumption, FS_Interval DEF Inum
<1>2. IsFiniteSet(H)
  BY <1>1, FS_Subset
<1>3. InUse \subseteq H
  BY InUseHeld
<1>4. IsFiniteSet(InUse) /\ Cardinality(InUse) <= Cardinality(H)
  BY <1>2, <1>3, FS_Subset
<1>5. Cardinality(InUse) \in Nat /\ Cardinality(H) \in Nat
  BY <1>2, <1>4, FS_CardinalityType
<1>6. Cardinality(InUse) >= NINODE
  BY <1>5, FilesAssumption DEF CanIget
<1> HIDE DEF H
<1>7. Cardinality(H) >= NINODE
  BY <1>4, <1>5, <1>6, FilesAssumption
<1> QED
  BY <1>7 DEF H

\* A step keeps that, too.
LEMMA FullStep == Inv /\ IgetFull /\ [Next]_vars => IgetFull'
<1> SUFFICES ASSUME Inv, IgetFull, [Next]_vars PROVE IgetFull'
  OBVIOUS
<1>0. UNCHANGED work => \A i : Held(i)' = Held(i)
  BY DEF work, mem, open, Held, FilesOf, CwdsOf, RegsOf, PutsOf
<1>1. CASE Crash
  BY <1>1 DEF Crash, IgetFull
<1>2. CASE Rest \/ UNCHANGED vars
  BY <1>0, <1>2 DEF Rest, vars, IgetFull
<1>3. CASE \E p \in Proc : User(p) \/ Kernel(p)
  BY <1>3, NoPanicYet DEF IgetFull
<1>4. CASE \E p \in Proc : IgetPanic(p)
  BY <1>0, <1>4, FullHeld DEF IgetPanic, IgetFull
<1> QED
  BY <1>1, <1>2, <1>3, <1>4 DEF Next

\* iget panics only when NINODE different inodes have a holder: an open file, a
\* current directory or a call in progress.  No entry is lost to a reference that
\* some path of some call has forgotten.
THEOREM IgetFullHolds == Spec => []IgetFull
<1>1. Init => IgetFull
  BY DEF Init, IgetFull
<1> QED
  BY <1>1, InvHolds, FullStep, PTL DEF Spec

=============================================================================

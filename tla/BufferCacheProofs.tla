-------------------------- MODULE BufferCacheProofs --------------------------
(***************************************************************************)
(* The theorems about BufferCache and VirtioDisk, for every number of      *)
(* processes, buffers, blocks and descriptors.                             *)
(***************************************************************************)
EXTENDS BufferCacheInv, FiniteSetTheorems, FunctionTheorems, SequenceTheorems,
        WellFoundedInduction, TLAPS

(* Sets of numbers, and sequences. *)

\* A set of natural numbers has a least element.
LEMMA MinIsLeast ==
  ASSUME NEW S \in SUBSET Nat, S # {}
  PROVE  Min(S) \in S /\ \A y \in S : Min(S) <= y
<1>1. IsWellFoundedOn(OpToRel(<, Nat), Nat)
  BY NatLessThanWellFounded
<1>2. PICK x \in S : \A y \in S : <<y, x>> \notin OpToRel(<, Nat)
  BY <1>1, WFMin
<1>3. \A y \in S : ~(y < x)
  <2>1. SUFFICES ASSUME NEW y \in S, y < x PROVE <<y, x>> \in OpToRel(<, Nat)
    BY <1>2
  <2>2. <<y, x>> \in {ss \in Nat \X Nat : ss[1] < ss[2]}
    BY <2>1
  <2> QED
    BY <2>2 DEF OpToRel
<1>4. \E z \in S : \A y \in S : z <= y
  BY <1>3
<1> QED
  BY <1>4 DEF Min

\* A set of positions has a last one.
LEMMA MaxIsMember ==
  ASSUME NEW n \in Nat, NEW S \in SUBSET (1 .. n), S # {}
  PROVE  Max(S) \in S
<1> DEFINE D == {y \in 0 .. n : n - y \in S}
<1>1. PICK e \in S : TRUE
  OBVIOUS
<1>2. n - e \in D
  BY <1>1
<1>3. D \in SUBSET Nat /\ D # {}
  <2>1. D \subseteq Nat
    OBVIOUS
  <2> HIDE DEF D
  <2> QED
    BY <1>2, <2>1
<1>4. Min(D) \in D /\ \A y \in D : Min(D) <= y
  <2> HIDE DEF D
  <2> QED
    BY <1>3, MinIsLeast
<1>5. Min(D) \in 0 .. n /\ n - Min(D) \in S
  BY <1>4
<1>6. ASSUME NEW y \in S PROVE n - Min(D) >= y
  <2>1. n - y \in D
    OBVIOUS
  <2>2. Min(D) <= n - y
    BY <1>4, <2>1
  <2> HIDE DEF D
  <2> QED
    BY <1>5, <2>2
<1> HIDE DEF D
<1>7. \E x \in S : \A y \in S : x >= y
  BY <1>5, <1>6
<1> QED
  BY <1>7 DEF Max

\* What is left of a sequence when one of its elements is taken out.
LEMMA Removed ==
  ASSUME NEW S, NEW s \in Seq(S), NEW x \in 1 .. Len(s)
  PROVE  /\ RemoveAt(s, x) \in Seq(S) /\ Len(RemoveAt(s, x)) = Len(s) - 1
         /\ \A y \in 1 .. Len(s) - 1 : RemoveAt(s, x)[y] = IF y < x THEN s[y] ELSE s[y + 1]
<1> DEFINE a == SubSeq(s, 1, x - 1)
           b == SubSeq(s, x + 1, Len(s))
<1>1. Len(s) \in Nat /\ \A y \in 1 .. Len(s) : s[y] \in S
  BY ElementOfSeq, LenProperties
<1>2. a \in Seq(S) /\ Len(a) = x - 1 /\ \A y \in 1 .. x - 1 : a[y] = s[y]
  <2>1. \A y \in 1 .. x - 1 : s[y] \in S
    BY <1>1
  <2>2. /\ a \in Seq(S) /\ Len(a) = IF 1 <= x - 1 THEN x - 1 - 1 + 1 ELSE 0
        /\ \A y \in 1 .. x - 1 - 1 + 1 : a[y] = s[1 + y - 1]
    BY <1>1, <2>1, SubSeqProperties
  <2> QED
    BY <1>1, <2>2
<1>3. b \in Seq(S) /\ Len(b) = Len(s) - x /\ \A y \in 1 .. Len(s) - x : b[y] = s[x + y]
  <2>1. \A y \in x + 1 .. Len(s) : s[y] \in S
    BY <1>1
  <2>2. /\ b \in Seq(S) /\ Len(b) = IF x + 1 <= Len(s) THEN Len(s) - (x + 1) + 1 ELSE 0
        /\ \A y \in 1 .. Len(s) - (x + 1) + 1 : b[y] = s[x + 1 + y - 1]
    BY <1>1, <2>1, SubSeqProperties
  <2> QED
    BY <1>1, <2>2
<1> HIDE DEF a, b
<1>4. /\ a \o b \in Seq(S) /\ Len(a \o b) = Len(a) + Len(b)
      /\ \A y \in 1 .. Len(a) + Len(b) : (a \o b)[y] = IF y <= Len(a) THEN a[y] ELSE b[y - Len(a)]
  BY <1>2, <1>3, ConcatProperties
<1>5. Len(a) + Len(b) = Len(s) - 1
  BY <1>1, <1>2, <1>3
<1>6. ASSUME NEW y \in 1 .. Len(s) - 1
      PROVE  (a \o b)[y] = IF y < x THEN s[y] ELSE s[y + 1]
  <2>1. CASE y < x
    BY <1>1, <1>2, <1>4, <1>5, <2>1
  <2>2. CASE ~(y < x)
    <3>1. y - (x - 1) \in 1 .. Len(s) - x /\ x + (y - (x - 1)) = y + 1 /\ ~(y <= Len(a))
      BY <1>1, <1>2, <2>2
    <3>2. b[y - (x - 1)] = s[y + 1]
      BY <1>3, <3>1
    <3>3. (a \o b)[y] = b[y - Len(a)] /\ Len(a) = x - 1
      BY <1>2, <1>4, <1>5, <3>1
    <3> QED
      BY <2>2, <3>2, <3>3
  <2> QED
    BY <2>1, <2>2
<1>7. a \o b = RemoveAt(s, x)
  BY DEF a, b, RemoveAt
<1> QED
  BY <1>4, <1>5, <1>6, <1>7

\* The elements that are left, none of them twice.
LEMMA RemovedElems ==
  ASSUME NEW S, NEW s \in Seq(S), NoRepeat(s), NEW x \in 1 .. Len(s)
  PROVE  NoRepeat(RemoveAt(s, x)) /\ Elems(RemoveAt(s, x)) = Elems(s) \ {s[x]}
<1> DEFINE t == RemoveAt(s, x)
           at(y) == IF y < x THEN y ELSE y + 1
<1>1. Len(s) \in Nat
  BY LenProperties
<1>2. Len(t) = Len(s) - 1 /\ \A y \in 1 .. Len(s) - 1 : t[y] = s[at(y)]
  <2>1. \A y \in 1 .. Len(s) - 1 : t[y] = IF y < x THEN s[y] ELSE s[y + 1]
    BY Removed
  <2> QED
    BY <2>1, Removed
<1>3. \A y \in 1 .. Len(s) - 1 : at(y) \in 1 .. Len(s) /\ at(y) # x
  BY <1>1
<1>4. \A y, z \in 1 .. Len(s) - 1 : at(y) = at(z) => y = z
  BY <1>1
<1>5. \A z \in 1 .. Len(s) : z # x => \E y \in 1 .. Len(s) - 1 : at(y) = z
  <2> SUFFICES ASSUME NEW z \in 1 .. Len(s), z # x PROVE \E y \in 1 .. Len(s) - 1 : at(y) = z
    OBVIOUS
  <2>1. CASE z < x
    <3>1. z \in 1 .. Len(s) - 1 /\ at(z) = z
      BY <1>1, <2>1
    <3> QED
      BY <3>1
  <2>2. CASE z > x
    <3>1. z - 1 \in 1 .. Len(s) - 1 /\ at(z - 1) = z
      BY <1>1, <2>2
    <3> QED
      BY <3>1
  <2> QED
    BY <1>1, <2>1, <2>2
<1> HIDE DEF t, at
<1>6. NoRepeat(t)
  BY <1>2, <1>3, <1>4 DEF NoRepeat
<1>7. Elems(t) \subseteq Elems(s) \ {s[x]}
  BY <1>2, <1>3 DEF NoRepeat, Elems
<1>8. Elems(s) \ {s[x]} \subseteq Elems(t)
  BY <1>2, <1>5 DEF Elems
<1> QED
  BY <1>6, <1>7, <1>8 DEF t

\* One element more.
LEMMA AppendedElems ==
  ASSUME NEW S, NEW s \in Seq(S), NEW e \in S
  PROVE  /\ Append(s, e) \in Seq(S) /\ Elems(Append(s, e)) = Elems(s) \union {e}
         /\ NoRepeat(s) /\ e \notin Elems(s) => NoRepeat(Append(s, e))
<1> DEFINE t == Append(s, e)
<1>1. /\ Len(s) \in Nat /\ t \in Seq(S) /\ Len(t) = Len(s) + 1
      /\ \A i \in 1 .. Len(s) : t[i] = s[i]
      /\ t[Len(s) + 1] = e
  BY AppendProperties, LenProperties
<1> HIDE DEF t
<1>2. \A i \in 1 .. Len(t) : i \in 1 .. Len(s) \/ i = Len(s) + 1
  BY <1>1
<1>3. \A i \in 1 .. Len(s) : i \in 1 .. Len(t)
  BY <1>1
<1>4. Len(s) + 1 \in 1 .. Len(t)
  BY <1>1
<1>5. Elems(t) \subseteq Elems(s) \union {e}
  BY <1>1, <1>2 DEF Elems
<1>6. Elems(s) \union {e} \subseteq Elems(t)
  BY <1>1, <1>3, <1>4 DEF Elems
<1>7. NoRepeat(s) /\ e \notin Elems(s) => NoRepeat(t)
  BY <1>1, <1>2 DEF NoRepeat, Elems
<1> QED
  BY <1>1, <1>5, <1>6, <1>7 DEF t

\* The first element is the one that Tail leaves out.
LEMMA TailElems ==
  ASSUME NEW S, NEW s \in Seq(S), s # <<>>, NoRepeat(s)
  PROVE  /\ Tail(s) \in Seq(S) /\ NoRepeat(Tail(s)) /\ Head(s) \in Elems(s)
         /\ Elems(Tail(s)) = Elems(s) \ {Head(s)}
<1> DEFINE t == Tail(s)
<1>1. /\ Len(s) \in Nat /\ Len(s) # 0 /\ t \in Seq(S) /\ Len(t) = Len(s) - 1
      /\ \A i \in 1 .. Len(t) : t[i] = s[i + 1]
  BY HeadTailProperties, LenProperties, EmptySeq
<1>2. Head(s) = s[1]
  OBVIOUS
<1> HIDE DEF t
<1>3. \A i \in 1 .. Len(t) : i + 1 \in 1 .. Len(s) /\ i + 1 # 1
  BY <1>1
<1>4. \A i \in 1 .. Len(s) : i = 1 \/ (i - 1 \in 1 .. Len(t) /\ (i - 1) + 1 = i)
  BY <1>1
<1>5. 1 \in 1 .. Len(s)
  BY <1>1
<1>6. NoRepeat(t)
  <2> SUFFICES ASSUME NEW i \in 1 .. Len(t), NEW j \in 1 .. Len(t), t[i] = t[j] PROVE i = j
    BY DEF NoRepeat
  <2>1. s[i + 1] = s[j + 1]
    BY <1>1
  <2>2. i + 1 = j + 1
    BY <1>3, <2>1 DEF NoRepeat
  <2> QED
    BY <1>1, <2>2
<1>7. Elems(t) \subseteq Elems(s) \ {s[1]}
  BY <1>1, <1>3, <1>5 DEF Elems, NoRepeat
<1>8. Elems(s) \ {s[1]} \subseteq Elems(t)
  <2> SUFFICES ASSUME NEW i \in 1 .. Len(s), s[i] # s[1] PROVE s[i] \in Elems(t)
    BY DEF Elems
  <2>1. i - 1 \in 1 .. Len(t) /\ t[i - 1] = s[i]
    BY <1>1, <1>4
  <2> QED
    BY <2>1 DEF Elems
<1> QED
  BY <1>1, <1>2, <1>5, <1>6, <1>7, <1>8 DEF t, Elems
-----------------------------------------------------------------------------
(* Types. *)

Labels == {"idle", "lock", "asleep", "reading", "hold", "writing", "release", "drop"}
Frames == [pc : Labels, b : Buf \union {None}, dirty : BOOLEAN]
Calls  == [pc : {"out", "alloc", "nodesc", "wait", "check"}, b : Buf \union {None},
           w : BOOLEAN, k : Block \union {None}, idx : 0 .. NUM]

\* The parts of the types that the cache and the driver use of each other.
LEMMA Typed ==
  ASSUME Inv
  PROVE  /\ rw \in [Proc -> Calls] /\ th \in [Proc -> Frames]
         /\ image \in [Block -> Val] /\ data \in [Buf -> Val] /\ onDisk \in [Buf -> BOOLEAN]
         /\ blockno \in [Buf -> Block \union {None}] /\ valid \in [Buf -> BOOLEAN]
BY DEF Inv, DiskType, CacheType, Calls, Frames, Labels

\* No process, buffer or block is the null pointer.
LEMMA NotNone == None \notin Proc /\ None \notin Buf /\ None \notin Block
BY VirtioAssumption, CacheAssumption

\* What is asked for is a block.
LEMMA Wanted == \A p \in Proc : \A k \in Wants[p] : k \in Block
BY CacheAssumption

\* There are descriptors, and the end of a chain is not one of them.
LEMMA Descriptors ==
  NUM \in Nat /\ NUM >= 3 /\ Desc \subseteq Nat /\ End \notin Desc /\ Desc \subseteq 0 .. NUM
BY VirtioAssumption DEF Desc, End

\* A buffer that a process uses is one.
LEMMA MineIsBuf ==
  ASSUME Inv, NEW p \in Proc, th[p].pc # "idle"
  PROVE  th[p].b \in Buf /\ blockno[th[p].b] \in Block
BY DEF Inv, LockInv

\* A call of virtio_disk_rw that has begun is for a buffer that its process has locked.
LEMMA CallOnMine ==
  ASSUME Inv, NEW p \in Proc, rw[p].pc # "out"
  PROVE  /\ rw[p].b \in Buf /\ rw[p].b = th[p].b /\ rw[p].k = blockno[th[p].b]
         /\ rw[p].k \in Block /\ slock[rw[p].b] = p /\ Holds(p)
BY MineIsBuf DEF Inv, CallInv, LockInv, Holds

\* Two calls are for two buffers.
LEMMA CallsApart ==
  ASSUME Inv, NEW p \in Proc, NEW q \in Proc, rw[p].pc # "out", rw[q].pc # "out", rw[p].b = rw[q].b
  PROVE  p = q
BY CallOnMine

-----------------------------------------------------------------------------
(* Steps that touch no chain. *)

\* The calls of virtio_disk_rw are where they were, but for who sleeps.
Woken ==
  /\ rw' \in [Proc -> Calls]
  /\ \A q \in Proc :
       /\ rw'[q].b = rw[q].b /\ rw'[q].w = rw[q].w /\ rw'[q].k = rw[q].k /\ rw'[q].idx = rw[q].idx
       /\ Waiting(q)' <=> Waiting(q)
       /\ rw'[q].pc = "out" <=> rw[q].pc = "out"

\* No process gets or gives up a chain.
Stirred ==
  /\ rw' \in [Proc -> Calls]
  /\ \A q \in Proc :
       /\ Waiting(q)' <=> Waiting(q)
       /\ Waiting(q) => /\ rw'[q].b = rw[q].b /\ rw'[q].w = rw[q].w /\ rw'[q].k = rw[q].k
                        /\ rw'[q].idx = rw[q].idx
       /\ ~Waiting(q) => rw'[q].idx = End

\* Wakeup disturbs nothing else of the chains.
LEMMA WokenStirs ==
  ASSUME ChainInv, Woken
  PROVE  Stirred
BY DEF ChainInv, Woken, Stirred

\* A process that finds too few descriptors, and the ones that it wakes.
LEMMA NoDescWakes ==
  ASSUME Inv, NEW p \in Proc, RwNoDesc(p)
  PROVE  Woken
<1>1. rw \in [Proc -> Calls] /\ rw[p].pc = "alloc"
  BY Typed DEF RwNoDesc
<1>2. CASE rw' = [rw EXCEPT ![p].pc = "nodesc"]
  BY <1>1, <1>2 DEF Woken, Calls, Waiting
<1>3. CASE rw' = [WakeDesc(rw) EXCEPT ![p].pc = "nodesc"]
  <2> DEFINE R == WakeDesc(rw)
  <2>1. R \in [Proc -> Calls]
    BY <1>1 DEF WakeDesc, Calls
  <2>2. \A q \in Proc :
          /\ R[q].b = rw[q].b /\ R[q].w = rw[q].w /\ R[q].k = rw[q].k /\ R[q].idx = rw[q].idx
          /\ R[q].pc = rw[q].pc \/ (rw[q].pc = "nodesc" /\ R[q].pc = "alloc")
    BY <1>1 DEF WakeDesc, Calls
  <2>3. rw' = [R EXCEPT ![p].pc = "nodesc"]
    BY <1>3
  <2> HIDE DEF R
  <2> QED
    BY <1>1, <2>1, <2>2, <2>3 DEF Woken, Calls, Waiting
<1> QED
  BY <1>2, <1>3 DEF RwNoDesc

\* A process that was woken for nothing.
LEMMA AgainWakes ==
  ASSUME Inv, NEW p \in Proc, RwAgain(p)
  PROVE  Woken
<1>1. rw \in [Proc -> Calls] /\ rw[p].pc = "check" /\ rw' = [rw EXCEPT ![p].pc = "wait"]
  BY Typed DEF RwAgain
<1> QED
  BY <1>1 DEF Woken, Calls, Waiting

\* A process that is killed.
LEMMA KillWakes ==
  ASSUME Inv, NEW p \in Proc, Kill(p)
  PROVE  Woken
<1>1. rw \in [Proc -> Calls]
  BY Typed
<1>2. CASE UNCHANGED rw
  BY <1>1, <1>2 DEF Woken, Waiting
<1>3. CASE rw[p].pc = "nodesc" /\ rw' = [rw EXCEPT ![p].pc = "alloc"]
  BY <1>1, <1>3 DEF Woken, Calls, Waiting
<1>4. CASE rw[p].pc = "wait" /\ rw' = [rw EXCEPT ![p].pc = "check"]
  BY <1>1, <1>4 DEF Woken, Calls, Waiting
<1> QED
  BY <1>2, <1>3, <1>4 DEF Kill

\* The interrupt handler, which wakes who waits for the buffer.
LEMMA HandlerWakes ==
  ASSUME Inv, HandleUsed
  PROVE  Woken
<1>1. rw \in [Proc -> Calls] /\ \E b : rw' = WakeBuf(rw, b)
  BY Typed DEF HandleUsed
<1> QED
  BY <1>1 DEF Woken, Calls, WakeBuf, Waiting

\* A call that begins, of a process that was not in one.
LEMMA CallStirs ==
  ASSUME Inv, NEW p \in Proc, rw[p].pc = "out", NEW b \in Buf, NEW k \in Block, NEW w \in BOOLEAN,
         RwCall(p, b, k, w)
  PROVE  /\ Stirred
         /\ rw'[p] = [pc |-> "alloc", b |-> b, w |-> w, k |-> k, idx |-> End]
         /\ \A q \in Proc : q # p => rw'[q] = rw[q]
<1>1. rw \in [Proc -> Calls]
  BY Typed
<1>2. [pc |-> "alloc", b |-> b, w |-> w, k |-> k, idx |-> End] \in Calls
  BY Descriptors DEF Calls, End
<1>3. /\ rw'[p] = [pc |-> "alloc", b |-> b, w |-> w, k |-> k, idx |-> End]
      /\ \A q \in Proc : q # p => rw'[q] = rw[q]
      /\ rw' \in [Proc -> Calls]
  BY <1>1, <1>2 DEF RwCall
<1>4. \A q \in Proc : ~Waiting(q) => rw[q].idx = End
  BY DEF Inv, ChainInv
<1> QED
  BY <1>3, <1>4 DEF Stirred, Waiting

\* The chains stay as they are when nobody gets or gives up one.
LEMMA ChainKept ==
  ASSUME ChainInv, Stirred, UNCHANGED <<free, desc, ops>>,
         \A i \in Desc : info'[i].b = info[i].b
  PROVE  ChainInv'
<1>1. \A q \in Proc : Waiting(q) => Chain(rw[q].idx)' = Chain(rw[q].idx)
  BY DEF Stirred, Chain
<1>2. \A q \in Proc : Waiting(q)' => ChainOf(q)'
  <2> SUFFICES ASSUME NEW q \in Proc, Waiting(q)' PROVE ChainOf(q)'
    OBVIOUS
  <2>1. Waiting(q) /\ ChainOf(q)
    BY DEF ChainInv, Stirred
  <2>2. /\ rw'[q].b = rw[q].b /\ rw'[q].w = rw[q].w /\ rw'[q].k = rw[q].k
        /\ rw'[q].idx = rw[q].idx
    BY <2>1 DEF Stirred
  <2> QED
    BY <1>1, <2>1, <2>2 DEF ChainOf, Second, Third
<1>3. \A q \in Proc : ~Waiting(q)' => rw'[q].idx = End
  BY DEF Stirred
<1>4. \A p, q \in Proc : p # q /\ Waiting(p)' /\ Waiting(q)' =>
        (Chain(rw[p].idx) \intersect Chain(rw[q].idx) = {})'
  BY <1>1 DEF ChainInv, Stirred
<1>5. Waiters' = Waiters
  BY DEF Waiters, Stirred
<1> QED
  BY <1>2, <1>3, <1>4, <1>5 DEF ChainInv

\* So do the rings.
LEMMA RingKept ==
  ASSUME RingInv, Stirred, UNCHANGED <<avail, used, onDisk, info>>
  PROVE  RingInv'
<1>1. Queued' = Queued /\ Finished' = Finished
  BY DEF Queued, Finished
<1>2. \A i \in Queued' \union Finished' : \E q \in Proc : Waiting(q)' /\ rw'[q].idx = i
  BY <1>1 DEF RingInv, Stirred
<1>3. \A q \in Proc : Waiting(q)' =>
        (onDisk'[rw'[q].b] <=> rw'[q].idx \in Queued' \union Finished')
  BY <1>1 DEF RingInv, Stirred
<1> QED
  BY <1>1, <1>2, <1>3 DEF RingInv

-----------------------------------------------------------------------------
(* A request that begins. *)

\* The first three of enough descriptors are three.
LEMMA FirstThree ==
  ASSUME NEW F \in SUBSET Desc, Cardinality(F) >= 3
  PROVE  \E i, j, l \in F :
           /\ i = AllocDesc(F) /\ j = AllocDesc(F \ {i}) /\ l = AllocDesc(F \ {i, j})
           /\ i # j /\ i # l /\ j # l
           /\ Cardinality(F \ {i, j, l}) = Cardinality(F) - 3
<1>1. IsFiniteSet(F)
  <2>1. IsFiniteSet(0 .. NUM - 1)
    BY Descriptors, FS_Interval
  <2> QED
    BY <2>1, FS_Subset DEF Desc
<1>2. Cardinality(F) \in Nat /\ F \subseteq Nat /\ Cardinality({}) = 0
  BY <1>1, FS_CardinalityType, FS_EmptySet, Descriptors
<1> DEFINE i == AllocDesc(F)
           G == F \ {i}
           j == AllocDesc(G)
           H == G \ {j}
           l == AllocDesc(H)
           K == H \ {l}
<1>3. F # {}
  BY <1>2
<1>4. i \in F
  BY <1>2, <1>3, MinIsLeast DEF AllocDesc
<1> HIDE DEF i
<1>5. IsFiniteSet(G) /\ Cardinality(G) = Cardinality(F) - 1
  BY <1>1, <1>4, FS_RemoveElement
<1>6. G # {}
  BY <1>2, <1>5, FS_EmptySet
<1>7. j \in G
  BY <1>2, <1>6, MinIsLeast DEF AllocDesc
<1> HIDE DEF j
<1>8. IsFiniteSet(H) /\ Cardinality(H) = Cardinality(G) - 1
  <2> HIDE DEF G
  <2> QED
    BY <1>5, <1>7, FS_RemoveElement
<1>9. H # {}
  BY <1>2, <1>5, <1>8
<1>10. l \in H
  BY <1>2, <1>9, MinIsLeast DEF AllocDesc
<1> HIDE DEF l
<1>11. Cardinality(K) = Cardinality(H) - 1
  <2> HIDE DEF H
  <2> QED
    BY <1>8, <1>10, FS_RemoveElement
<1>12. H = F \ {i, j} /\ K = F \ {i, j, l}
  OBVIOUS
<1>13. i = AllocDesc(F) /\ j = AllocDesc(F \ {i}) /\ l = AllocDesc(F \ {i, j})
  <2>1. l = AllocDesc(H)
    BY DEF l
  <2> HIDE DEF H
  <2> QED
    BY <1>12, <2>1 DEF i, j
<1>14. i \in F /\ j \in F /\ l \in F /\ i # j /\ i # l /\ j # l
  BY <1>4, <1>7, <1>10
<1>15. Cardinality(F \ {i, j, l}) = Cardinality(F) - 3
  <2> HIDE DEF G, H, K
  <2> QED
    BY <1>2, <1>5, <1>8, <1>11, <1>12
<1> QED
  BY <1>13, <1>14, <1>15

\* What RwStart does, with the descriptors that it takes.
Started(p, i, j, l) ==
  /\ i \in free /\ j \in free /\ l \in free /\ i # j /\ i # l /\ j # l
  /\ Cardinality(free') = Cardinality(free) - 3
  /\ free' = free \ {i, j, l}
  /\ ops'  = [ops EXCEPT ![i] = [w |-> rw[p].w, k |-> rw[p].k]]
  /\ desc' = Format(i, j, l, rw[p].b)
  /\ info' = [info EXCEPT ![i] = [b |-> rw[p].b, done |-> FALSE]]
  /\ onDisk' = [onDisk EXCEPT ![rw[p].b] = TRUE]
  /\ avail'  = Append(avail, i)
  /\ rw' = [rw EXCEPT ![p] = [rw[p] EXCEPT !.pc = "wait", !.idx = i]]

\* A call that starts takes three different free descriptors (virtio_disk_rw).
LEMMA StartTakes ==
  ASSUME Inv, NEW p \in Proc, RwStart(p)
  PROVE  \E i, j, l \in Desc : Started(p, i, j, l)
<1>1. free \subseteq Desc /\ Cardinality(free) >= 3
  BY DEF Inv, DiskType, RwStart
<1>2. PICK i, j, l \in free :
         /\ i = AllocDesc(free) /\ j = AllocDesc(free \ {i}) /\ l = AllocDesc(free \ {i, j})
         /\ i # j /\ i # l /\ j # l
         /\ Cardinality(free \ {i, j, l}) = Cardinality(free) - 3
  BY <1>1, FirstThree
<1>3. free' = free \ {i, j, l}
  BY <1>2 DEF RwStart
<1>4. Started(p, i, j, l)
  BY <1>2, <1>3 DEF RwStart, Started
<1> QED
  BY <1>1, <1>4

\* What that makes of the process and of the descriptors.
Formatted(p, i, j, l) ==
  /\ rw' \in [Proc -> Calls] /\ rw[p].pc = "alloc" /\ rw'[p].pc = "wait" /\ rw'[p].idx = i
  /\ rw'[p].b = rw[p].b /\ rw'[p].w = rw[p].w /\ rw'[p].k = rw[p].k
  /\ \A q \in Proc : q # p => rw'[q] = rw[q]
  /\ desc'[i].next = j /\ desc'[j].next = l /\ desc'[j].b = rw[p].b
  /\ \A x \in Desc : x \notin {i, j, l} => desc'[x] = desc[x]
  /\ info' \in [Desc -> [b : Buf \union {None}, done : BOOLEAN]]
  /\ info'[i].b = rw[p].b /\ \A x \in Desc : x # i => info'[x] = info[x]
  /\ ops' \in [Desc -> [w : BOOLEAN, k : Block \union {None}]]
  /\ ops'[i] = [w |-> rw[p].w, k |-> rw[p].k] /\ \A x \in Desc : x # i => ops'[x] = ops[x]
  /\ desc' \in [Desc -> [b : Buf \union {None}, next : 0 .. NUM]]

\* The values that it writes into them and into the available ring.
LEMMA StartValues ==
  ASSUME Inv, NEW p \in Proc, RwStart(p)
  PROVE  \E i, j, l \in Desc : Started(p, i, j, l) /\ Formatted(p, i, j, l)
<1>0. PICK i, j, l \in Desc : Started(p, i, j, l)
  BY StartTakes
<1>1. rw \in [Proc -> Calls] /\ rw[p].pc = "alloc" /\ rw[p] \in Calls
  BY Typed DEF RwStart
<1>2. rw[p].b \in Buf /\ rw[p].k \in Block /\ rw[p].w \in BOOLEAN
  BY <1>1, CallOnMine DEF Calls
<1>3. [rw[p] EXCEPT !.pc = "wait", !.idx = i] \in Calls
  BY <1>1, Descriptors DEF Calls
<1>4. /\ rw' \in [Proc -> Calls] /\ rw'[p] = [rw[p] EXCEPT !.pc = "wait", !.idx = i]
      /\ \A q \in Proc : q # p => rw'[q] = rw[q]
  BY <1>0, <1>1, <1>3 DEF Started
<1>5. /\ rw'[p].pc = "wait" /\ rw'[p].idx = i
      /\ rw'[p].b = rw[p].b /\ rw'[p].w = rw[p].w /\ rw'[p].k = rw[p].k
  BY <1>1, <1>4 DEF Calls
<1>6. /\ desc'[i].next = j /\ desc'[j] = [b |-> rw[p].b, next |-> l]
      /\ \A x \in Desc : x \notin {i, j, l} => desc'[x] = desc[x]
  BY <1>0 DEF Started, Format
<1>7. desc'[i].next = j /\ desc'[j].next = l /\ desc'[j].b = rw[p].b
  BY <1>6
<1>8. desc' \in [Desc -> [b : Buf \union {None}, next : 0 .. NUM]]
  <2>1. desc \in [Desc -> [b : Buf \union {None}, next : 0 .. NUM]]
    BY DEF Inv, DiskType
  <2>2. /\ [b |-> None, next |-> j] \in [b : Buf \union {None}, next : 0 .. NUM]
        /\ [b |-> rw[p].b, next |-> l] \in [b : Buf \union {None}, next : 0 .. NUM]
        /\ Clear \in [b : Buf \union {None}, next : 0 .. NUM]
    <3>1. j \in 0 .. NUM /\ l \in 0 .. NUM /\ NUM \in 0 .. NUM
      BY Descriptors
    <3> QED
      BY <1>2, <3>1 DEF Clear, End
  <2> QED
    BY <1>0, <2>1, <2>2 DEF Started, Format
<1>9. /\ info' \in [Desc -> [b : Buf \union {None}, done : BOOLEAN]]
      /\ info'[i].b = rw[p].b /\ \A x \in Desc : x # i => info'[x] = info[x]
  <2>1. info \in [Desc -> [b : Buf \union {None}, done : BOOLEAN]]
    BY DEF Inv, DiskType
  <2> QED
    BY <1>0, <1>2, <2>1 DEF Started
<1>10. /\ ops' \in [Desc -> [w : BOOLEAN, k : Block \union {None}]]
       /\ ops'[i] = [w |-> rw[p].w, k |-> rw[p].k] /\ \A x \in Desc : x # i => ops'[x] = ops[x]
  <2>1. ops \in [Desc -> [w : BOOLEAN, k : Block \union {None}]]
    BY DEF Inv, DiskType
  <2>2. [w |-> rw[p].w, k |-> rw[p].k] \in [w : BOOLEAN, k : Block \union {None}]
    BY <1>2
  <2> QED
    BY <1>0, <2>1, <2>2 DEF Started
<1> QED
  BY <1>0, <1>1, <1>4, <1>5, <1>6, <1>7, <1>8, <1>9, <1>10 DEF Formatted

\* The chain of the request is its own, and nobody else's changes.
LEMMA StartChain ==
  ASSUME Inv, NEW p \in Proc, RwStart(p)
  PROVE  ChainInv'
<1>1. PICK i, j, l \in Desc : Started(p, i, j, l) /\ Formatted(p, i, j, l)
  BY StartValues
<1>2. /\ rw' \in [Proc -> Calls] /\ rw[p].pc = "alloc" /\ rw'[p].pc = "wait" /\ rw'[p].idx = i
      /\ rw'[p].b = rw[p].b /\ rw'[p].w = rw[p].w /\ rw'[p].k = rw[p].k
      /\ \A q \in Proc : q # p => rw'[q] = rw[q]
      /\ desc'[i].next = j /\ desc'[j].next = l /\ desc'[j].b = rw[p].b
  BY <1>1 DEF Formatted
<1>3. /\ \A x \in Desc : x \notin {i, j, l} => desc'[x] = desc[x]
      /\ info'[i].b = rw[p].b /\ \A x \in Desc : x # i => info'[x] = info[x]
      /\ ops'[i] = [w |-> rw[p].w, k |-> rw[p].k] /\ \A x \in Desc : x # i => ops'[x] = ops[x]
  BY <1>1 DEF Formatted
<1>4. /\ i \in free /\ j \in free /\ l \in free /\ i # j /\ i # l /\ j # l
      /\ free' = free \ {i, j, l} /\ Cardinality(free') = Cardinality(free) - 3
  BY <1>1 DEF Started
<1>5. Chain(i)' = {i, j, l}
  BY <1>2 DEF Chain, Second, Third
<1>6. ASSUME NEW q \in Proc, q # p, Waiting(q)
      PROVE  /\ ChainOf(q) /\ rw'[q] = rw[q] /\ Chain(rw[q].idx)' = Chain(rw[q].idx)
             /\ Second(rw[q].idx)' = Second(rw[q].idx) /\ Third(rw[q].idx)' = Third(rw[q].idx)
             /\ Chain(rw[q].idx) \intersect {i, j, l} = {}
  <2>1. ChainOf(q) /\ rw'[q] = rw[q]
    BY <1>2, <1>6 DEF Inv, ChainInv
  <2> DEFINE x == rw[q].idx
  <2>2. x \in Desc /\ Second(x) \in Desc /\ Third(x) \in Desc /\ Chain(x) \intersect free = {}
    BY <2>1 DEF ChainOf
  <2>3. Chain(x) = {x, Second(x), Third(x)}
    BY DEF Chain, Second, Third
  <2>4. x \notin {i, j, l} /\ Second(x) \notin {i, j, l} /\ Third(x) \notin {i, j, l}
    BY <1>4, <2>2, <2>3
  <2>5. desc'[x] = desc[x] /\ desc'[Second(x)] = desc[Second(x)] /\ desc'[Third(x)] = desc[Third(x)]
    BY <1>3, <2>2, <2>4
  <2>6. Second(x)' = Second(x)
    BY <2>1, <2>5 DEF Second
  <2>7. Third(x)' = Third(x)
    BY <2>1, <2>5, <2>6 DEF Third, Second
  <2>8. Chain(x)' = Chain(x)
    BY <2>1, <2>5 DEF Chain, Second
  <2> QED
    BY <2>1, <2>3, <2>4, <2>6, <2>7, <2>8
<1>7. \A q \in Proc : Waiting(q)' => q = p \/ (q # p /\ Waiting(q))
  BY <1>2 DEF Waiting
<1>8. \A q \in Proc : Waiting(q)' => ChainOf(q)'
  <2>1. ChainOf(p)'
    BY <1>2, <1>3, <1>4, <1>5 DEF ChainOf, Second, Third
  <2>2. ASSUME NEW q \in Proc, q # p, Waiting(q)
        PROVE  ChainOf(q)'
    <3> DEFINE x == rw[q].idx
    <3>1. /\ ChainOf(q) /\ rw'[q] = rw[q] /\ Chain(x)' = Chain(x)
          /\ Second(x)' = Second(x) /\ Third(x)' = Third(x)
          /\ Chain(x) \intersect {i, j, l} = {}
      BY <1>6, <2>2
    <3>2. /\ x \in Desc /\ Second(x) \in Desc /\ Third(x) \in Desc
          /\ x # Second(x) /\ x # Third(x) /\ Second(x) # Third(x)
          /\ Chain(x) \intersect free = {}
          /\ desc[Second(x)].b = rw[q].b /\ info[x].b = rw[q].b
          /\ ops[x] = [w |-> rw[q].w, k |-> rw[q].k]
      BY <3>1 DEF ChainOf
    <3>3. x \in Chain(x) /\ Second(x) \in Chain(x)
      BY DEF Chain, Second
    <3>4. desc'[Second(x)] = desc[Second(x)] /\ info'[x] = info[x] /\ ops'[x] = ops[x]
      BY <1>3, <3>1, <3>2, <3>3
    <3>5. Chain(x) \intersect free' = {}
      BY <1>4, <3>2
    <3>6. /\ rw'[q].idx = x /\ rw'[q].b = rw[q].b /\ rw'[q].w = rw[q].w /\ rw'[q].k = rw[q].k
      BY <3>1
    <3>7. /\ Second(rw[q].idx)' = Second(x) /\ Third(rw[q].idx)' = Third(x)
          /\ Chain(rw[q].idx)' = Chain(x)
      BY <3>1
    <3> HIDE DEF x
    <3> QED
      BY <3>2, <3>4, <3>5, <3>6, <3>7 DEF ChainOf
  <2> QED
    BY <1>7, <2>1, <2>2
<1>9. \A q \in Proc : ~Waiting(q)' => rw'[q].idx = End
  BY <1>2 DEF Waiting, Inv, ChainInv
<1>10. \A q, r \in Proc : q # r /\ Waiting(q)' /\ Waiting(r)' =>
         (Chain(rw[q].idx) \intersect Chain(rw[r].idx) = {})'
  <2> SUFFICES ASSUME NEW q \in Proc, NEW r \in Proc, q # r, Waiting(q)', Waiting(r)'
               PROVE  (Chain(rw[q].idx) \intersect Chain(rw[r].idx) = {})'
    OBVIOUS
  <2>1. CASE q # p /\ r # p
    <3>1. Waiting(q) /\ Waiting(r)
      BY <1>7, <2>1
    <3>2. Chain(rw[q].idx) \intersect Chain(rw[r].idx) = {}
      BY <3>1 DEF Inv, ChainInv
    <3> QED
      BY <1>6, <2>1, <3>1, <3>2
  <2>2. CASE q = p
    <3>1. Waiting(r) /\ r # p
      BY <1>7, <2>2
    <3>2. Chain(rw[q].idx)' = {i, j, l}
      BY <1>2, <1>5, <2>2
    <3> QED
      BY <1>6, <3>1, <3>2
  <2>3. CASE r = p
    <3>1. Waiting(q) /\ q # p
      BY <1>7, <2>3
    <3>2. Chain(rw[r].idx)' = {i, j, l}
      BY <1>2, <1>5, <2>3
    <3> QED
      BY <1>6, <3>1, <3>2
  <2> QED
    BY <2>1, <2>2, <2>3
<1>11. \A x \in free' : desc'[x] = Clear
  <2>1. \A x \in free : x \in Desc /\ desc[x] = Clear
    BY DEF Inv, ChainInv, DiskType
  <2> QED
    BY <1>3, <1>4, <2>1
<1>12. Cardinality(free') + 3 * Cardinality(Waiters') = NUM
  <2>1. IsFiniteSet(Waiters) /\ p \notin Waiters
    BY <1>2, CacheAssumption, FS_Subset DEF Waiters, Waiting
  <2>2. Waiters' = Waiters \union {p}
    BY <1>2, <1>7 DEF Waiters, Waiting
  <2>3. Cardinality(Waiters') = Cardinality(Waiters) + 1
    BY <2>1, <2>2, FS_AddElement
  <2>4. Cardinality(free) + 3 * Cardinality(Waiters) = NUM /\ Cardinality(Waiters) \in Nat
    BY <2>1, FS_CardinalityType DEF Inv, ChainInv
  <2>5. IsFiniteSet(free)
    <3>1. IsFiniteSet(0 .. NUM - 1)
      BY Descriptors, FS_Interval
    <3> QED
      BY <3>1, FS_Subset DEF Desc, Inv, DiskType
  <2>6. Cardinality(free) \in Nat
    BY <2>5, FS_CardinalityType
  <2> QED
    BY <1>4, <2>3, <2>4, <2>6
<1> QED
  BY <1>8, <1>9, <1>10, <1>11, <1>12 DEF ChainInv

\* The request is in the ring once.
LEMMA StartRing ==
  ASSUME Inv, NEW p \in Proc, RwStart(p)
  PROVE  RingInv'
<1>1. PICK i, j, l \in Desc : Started(p, i, j, l) /\ Formatted(p, i, j, l)
  BY StartValues
<1>2. /\ rw' \in [Proc -> Calls] /\ rw[p].pc = "alloc" /\ rw'[p].pc = "wait" /\ rw'[p].idx = i
      /\ rw'[p].b = rw[p].b /\ \A q \in Proc : q # p => rw'[q] = rw[q]
      /\ \A x \in Desc : x # i => info'[x] = info[x]
  BY <1>1 DEF Formatted
<1>3. i \in free /\ used' = used /\ onDisk' = [onDisk EXCEPT ![rw[p].b] = TRUE]
  BY <1>1 DEF Started, RwStart
<1>4. i \notin Queued \union Finished
  <2> SUFFICES ASSUME i \in Queued \union Finished PROVE FALSE
    OBVIOUS
  <2>1. PICK q \in Proc : Waiting(q) /\ rw[q].idx = i
    BY DEF Inv, RingInv
  <2>2. Chain(i) \intersect free = {}
    BY <2>1 DEF Inv, ChainInv, ChainOf
  <2> QED
    BY <1>3, <2>2 DEF Chain
<1>5. NoRepeat(avail') /\ Queued' = Queued \union {i} /\ Finished' = Finished
  <2>1. avail \in Seq(Desc) /\ NoRepeat(avail) /\ avail' = Append(avail, i)
    BY <1>1 DEF Inv, RingType, RingInv, Started
  <2>2. Elems(avail') = Elems(avail) \union {i} /\ NoRepeat(avail')
    BY <1>4, <2>1, AppendedElems DEF Queued
  <2> QED
    BY <1>3, <2>2 DEF Queued, Finished
<1>6. NoRepeat(used') /\ Queued' \intersect Finished' = {}
  BY <1>3, <1>4, <1>5 DEF Inv, RingInv
<1>7. \A q \in Proc : Waiting(q)' <=> q = p \/ Waiting(q)
  BY <1>2 DEF Waiting
<1>8. p \notin Waiters
  BY <1>2 DEF Waiters, Waiting
<1>9. \A x \in Queued' \union Finished' : \E q \in Proc : Waiting(q)' /\ rw'[q].idx = x
  <2> SUFFICES ASSUME NEW x \in Queued' \union Finished'
               PROVE  \E q \in Proc : Waiting(q)' /\ rw'[q].idx = x
    OBVIOUS
  <2>1. CASE x = i
    BY <1>2, <1>7, <2>1
  <2>2. CASE x # i
    <3>1. PICK q \in Proc : Waiting(q) /\ rw[q].idx = x
      BY <1>5, <2>2 DEF Inv, RingInv
    <3> QED
      BY <1>2, <1>7, <1>8, <3>1 DEF Waiters
  <2> QED
    BY <2>1, <2>2
<1>10. \A q \in Proc : Waiting(q)' =>
          (onDisk'[rw'[q].b] <=> rw'[q].idx \in Queued' \union Finished')
  <2> SUFFICES ASSUME NEW q \in Proc, Waiting(q)'
               PROVE  onDisk'[rw'[q].b] <=> rw'[q].idx \in Queued' \union Finished'
    OBVIOUS
  <2>1. onDisk \in [Buf -> BOOLEAN] /\ rw[p].b \in Buf
    BY <1>2, Typed, CallOnMine
  <2>2. CASE q = p
    BY <1>2, <1>3, <1>5, <2>1, <2>2
  <2>3. CASE q # p
    <3>1. Waiting(q) /\ rw'[q] = rw[q] /\ rw[q].pc # "out"
      BY <1>2, <1>7, <2>3 DEF Waiting
    <3>2. rw[q].b # rw[p].b
      BY <1>2, <2>3, <3>1, CallsApart
    <3>3. rw[q].idx # i
      <4>1. Chain(rw[q].idx) \intersect free = {}
        BY <3>1 DEF Inv, ChainInv, ChainOf
      <4> QED
        BY <1>3, <4>1 DEF Chain
    <3>4. onDisk[rw[q].b] <=> rw[q].idx \in Queued \union Finished
      BY <3>1 DEF Inv, RingInv
    <3>5. onDisk'[rw[q].b] = onDisk[rw[q].b]
      BY <1>3, <2>1, <3>1, <3>2, CallOnMine
    <3> QED
      BY <1>5, <3>1, <3>3, <3>4, <3>5
  <2> QED
    BY <2>2, <2>3
<1>11. \A x \in Finished' : info'[x].done
  <2>1. \A x \in Finished : x \in Desc /\ info[x].done /\ x # i
    <3>1. used \in Seq(Desc)
      BY DEF Inv, RingType
    <3>2. Finished \subseteq Desc
      BY <3>1, ElementOfSeq DEF Finished, Elems
    <3> QED
      BY <1>4, <3>2 DEF Inv, RingInv
  <2> QED
    BY <1>2, <1>5, <2>1
<1> QED
  BY <1>5, <1>6, <1>9, <1>10, <1>11 DEF RingInv

-----------------------------------------------------------------------------
(* A request that ends. *)

\* What RwDone does to the processes: p is out, and who waits for descriptors tries again.
LEMMA DoneValues ==
  ASSUME Inv, NEW p \in Proc, RwDone(p)
  PROVE  /\ rw' \in [Proc -> Calls] /\ rw[p].pc = "check" /\ Waiting(p)
         /\ rw'[p].pc = "out" /\ rw'[p].idx = End
         /\ \A q \in Proc : q # p =>
              /\ rw'[q].b = rw[q].b /\ rw'[q].w = rw[q].w /\ rw'[q].k = rw[q].k
              /\ rw'[q].idx = rw[q].idx
              /\ rw'[q].pc \in {"wait", "check"} <=> rw[q].pc \in {"wait", "check"}
              /\ rw'[q].pc = "out" <=> rw[q].pc = "out"
<1>1. rw \in [Proc -> Calls] /\ rw[p].pc = "check"
  BY Typed DEF RwDone
<1> DEFINE R == [rw EXCEPT ![p] = Out]
<1>2. Out \in Calls /\ Out.pc = "out" /\ Out.idx = End
  BY Descriptors DEF Out, Calls, End
<1>3. R \in [Proc -> Calls] /\ R[p] = Out /\ \A q \in Proc : q # p => R[q] = rw[q]
  BY <1>1, <1>2
<1>4. rw' = WakeDesc(R)
  BY DEF RwDone
<1> HIDE DEF R
<1>5. /\ rw' \in [Proc -> Calls]
      /\ \A q \in Proc :
           /\ rw'[q].b = R[q].b /\ rw'[q].w = R[q].w /\ rw'[q].k = R[q].k
           /\ rw'[q].idx = R[q].idx
           /\ rw'[q].pc = R[q].pc \/ (R[q].pc = "nodesc" /\ rw'[q].pc = "alloc")
  BY <1>3, <1>4 DEF WakeDesc, Calls
<1>6. rw'[p].pc = "out" /\ rw'[p].idx = End
  BY <1>2, <1>3, <1>5
<1>7. ASSUME NEW q \in Proc, q # p
      PROVE  /\ rw'[q].b = rw[q].b /\ rw'[q].w = rw[q].w /\ rw'[q].k = rw[q].k
             /\ rw'[q].idx = rw[q].idx
             /\ rw'[q].pc \in {"wait", "check"} <=> rw[q].pc \in {"wait", "check"}
             /\ rw'[q].pc = "out" <=> rw[q].pc = "out"
  BY <1>3, <1>5, <1>7
<1> QED
  BY <1>1, <1>5, <1>6, <1>7 DEF Waiting

\* The chain of p is free again, and nobody else's changes.
LEMMA DoneChain ==
  ASSUME Inv, NEW p \in Proc, RwDone(p)
  PROVE  ChainInv'
<1> DEFINE i == rw[p].idx
<1>1. /\ rw' \in [Proc -> Calls] /\ rw[p].pc = "check" /\ Waiting(p)
      /\ rw'[p].pc = "out" /\ rw'[p].idx = End
  BY DoneValues
<1>2. \A q \in Proc : q # p =>
        /\ rw'[q].b = rw[q].b /\ rw'[q].w = rw[q].w /\ rw'[q].k = rw[q].k
        /\ rw'[q].idx = rw[q].idx
        /\ rw'[q].pc \in {"wait", "check"} <=> rw[q].pc \in {"wait", "check"}
        /\ rw'[q].pc = "out" <=> rw[q].pc = "out"
  BY DoneValues
<1>3. /\ i \in Desc /\ Second(i) \in Desc /\ Third(i) \in Desc
      /\ i # Second(i) /\ i # Third(i) /\ Second(i) # Third(i) /\ Chain(i) \intersect free = {}
  BY <1>1 DEF Inv, ChainInv, ChainOf
<1>4. Chain(i) = {i, Second(i), Third(i)}
  BY DEF Chain, Second, Third
<1>5. /\ info' = [info EXCEPT ![i].b = None] /\ free' = free \union Chain(i) /\ ops' = ops
      /\ desc' = [x \in Desc |-> IF x \in Chain(i) THEN Clear ELSE desc[x]]
  BY DEF RwDone, driver
<1> HIDE DEF i
<1>6. /\ \A x \in Desc : x # i => info'[x] = info[x]
      /\ \A x \in Desc : x \notin Chain(i) => desc'[x] = desc[x]
      /\ \A x \in Desc : x \in Chain(i) => desc'[x] = Clear
  <2>1. info \in [Desc -> [b : Buf \union {None}, done : BOOLEAN]]
    BY DEF Inv, DiskType
  <2> QED
    BY <1>5, <2>1
<1>7. ASSUME NEW q \in Proc, q # p, Waiting(q)
      PROVE  /\ ChainOf(q) /\ Chain(rw[q].idx) \intersect Chain(i) = {}
             /\ Chain(rw[q].idx)' = Chain(rw[q].idx)
             /\ Second(rw[q].idx)' = Second(rw[q].idx) /\ Third(rw[q].idx)' = Third(rw[q].idx)
  <2>1. ChainOf(q) /\ rw'[q].idx = rw[q].idx /\ Chain(rw[q].idx) \intersect Chain(i) = {}
    BY <1>1, <1>2, <1>7 DEF Inv, ChainInv, i
  <2> DEFINE x == rw[q].idx
  <2>2. x \in Desc /\ Second(x) \in Desc /\ Third(x) \in Desc
    BY <2>1 DEF ChainOf
  <2>3. Chain(x) = {x, Second(x), Third(x)}
    BY DEF Chain, Second, Third
  <2>4. desc'[x] = desc[x] /\ desc'[Second(x)] = desc[Second(x)] /\ desc'[Third(x)] = desc[Third(x)]
    BY <1>6, <2>1, <2>2, <2>3
  <2>5. Second(x)' = Second(x)
    BY <2>1, <2>4 DEF Second
  <2>6. Third(x)' = Third(x)
    BY <2>1, <2>4, <2>5 DEF Third, Second
  <2>7. Chain(x)' = Chain(x)
    BY <2>1, <2>4 DEF Chain, Second
  <2> QED
    BY <2>1, <2>5, <2>6, <2>7
<1>8. \A q \in Proc : Waiting(q)' <=> (q # p /\ Waiting(q))
  BY <1>1, <1>2 DEF Waiting
<1>9. \A q \in Proc : Waiting(q)' => ChainOf(q)'
  <2> SUFFICES ASSUME NEW q \in Proc, Waiting(q)' PROVE ChainOf(q)'
    OBVIOUS
  <2> DEFINE x == rw[q].idx
  <2>1. q # p /\ Waiting(q)
    BY <1>8
  <2>2. /\ ChainOf(q) /\ Chain(x) \intersect Chain(i) = {} /\ Chain(x)' = Chain(x)
        /\ Second(x)' = Second(x) /\ Third(x)' = Third(x)
    BY <1>7, <2>1
  <2>3. /\ x \in Desc /\ Second(x) \in Desc /\ Third(x) \in Desc
        /\ x # Second(x) /\ x # Third(x) /\ Second(x) # Third(x)
        /\ Chain(x) \intersect free = {}
        /\ desc[Second(x)].b = rw[q].b /\ info[x].b = rw[q].b
        /\ ops[x] = [w |-> rw[q].w, k |-> rw[q].k]
    BY <2>2 DEF ChainOf
  <2>4. x \in Chain(x) /\ Second(x) \in Chain(x) /\ i \in Chain(i)
    BY DEF Chain, Second
  <2>5. desc'[Second(x)] = desc[Second(x)] /\ info'[x] = info[x] /\ ops'[x] = ops[x]
    BY <1>5, <1>6, <2>2, <2>3, <2>4
  <2>6. Chain(x) \intersect free' = {}
    BY <1>5, <2>2, <2>3
  <2>7. rw'[q].idx = x /\ rw'[q].b = rw[q].b /\ rw'[q].w = rw[q].w /\ rw'[q].k = rw[q].k
    BY <1>2, <2>1
  <2>8. /\ Second(rw[q].idx)' = Second(x) /\ Third(rw[q].idx)' = Third(x)
        /\ Chain(rw[q].idx)' = Chain(x)
    BY <2>2
  <2> HIDE DEF x
  <2> QED
    BY <2>3, <2>5, <2>6, <2>7, <2>8 DEF ChainOf
<1>10. \A q \in Proc : ~Waiting(q)' => rw'[q].idx = End
  BY <1>1, <1>2 DEF Waiting, Inv, ChainInv
<1>11. \A q, r \in Proc : q # r /\ Waiting(q)' /\ Waiting(r)' =>
         (Chain(rw[q].idx) \intersect Chain(rw[r].idx) = {})'
  BY <1>7, <1>8 DEF Inv, ChainInv
<1>12. \A x \in free' : desc'[x] = Clear
  <2>1. \A x \in free : x \in Desc /\ desc[x] = Clear
    BY DEF Inv, ChainInv, DiskType
  <2> QED
    BY <1>3, <1>4, <1>5, <1>6, <2>1
<1>13. Cardinality(free') + 3 * Cardinality(Waiters') = NUM
  <2>1. IsFiniteSet(Waiters) /\ p \in Waiters
    BY <1>1, CacheAssumption, FS_Subset DEF Waiters
  <2>2. Waiters' = Waiters \ {p}
    BY <1>8 DEF Waiters
  <2>3. Cardinality(Waiters') = Cardinality(Waiters) - 1
    BY <2>1, <2>2, FS_RemoveElement
  <2>4. Cardinality(free) + 3 * Cardinality(Waiters) = NUM /\ Cardinality(Waiters) \in Nat
    BY <2>1, FS_CardinalityType DEF Inv, ChainInv
  <2>5. IsFiniteSet(free)
    <3>1. IsFiniteSet(0 .. NUM - 1)
      BY Descriptors, FS_Interval
    <3> QED
      BY <3>1, FS_Subset DEF Desc, Inv, DiskType
  <2>6. i \notin free /\ Second(i) \notin free /\ Third(i) \notin free
    BY <1>3, <1>4
  <2> DEFINE A == free \union {i}
             B == A \union {Second(i)}
             C == B \union {Third(i)}
  <2>7. IsFiniteSet(A) /\ Cardinality(A) = Cardinality(free) + 1
    BY <2>5, <2>6, FS_AddElement
  <2>8. Second(i) \notin A /\ Third(i) \notin B
    BY <1>3, <2>6
  <2>9. C = free'
    BY <1>4, <1>5
  <2> HIDE DEF A
  <2>10. IsFiniteSet(B) /\ Cardinality(B) = Cardinality(A) + 1
    BY <2>7, <2>8, FS_AddElement
  <2> HIDE DEF B
  <2>11. Cardinality(C) = Cardinality(B) + 1
    BY <2>8, <2>10, FS_AddElement
  <2>12. Cardinality(free) \in Nat
    BY <2>5, FS_CardinalityType
  <2> HIDE DEF C
  <2> QED
    BY <2>3, <2>4, <2>7, <2>9, <2>10, <2>11, <2>12
<1> QED
  BY <1>9, <1>10, <1>11, <1>12, <1>13 DEF ChainInv

\* The request of p is in neither ring any more.
LEMMA DoneRing ==
  ASSUME Inv, NEW p \in Proc, RwDone(p)
  PROVE  RingInv'
<1>1. /\ Waiting(p) /\ rw'[p].pc = "out"
      /\ \A q \in Proc : q # p =>
           /\ rw'[q].b = rw[q].b /\ rw'[q].idx = rw[q].idx
           /\ rw'[q].pc \in {"wait", "check"} <=> rw[q].pc \in {"wait", "check"}
  BY DoneValues
<1>2. /\ avail' = avail /\ used' = used /\ onDisk' = onDisk /\ ~onDisk[rw[p].b]
      /\ info' = [info EXCEPT ![rw[p].idx].b = None]
  BY DEF RwDone, device
<1>3. Queued' = Queued /\ Finished' = Finished
  BY <1>2 DEF Queued, Finished
<1>4. rw[p].idx \notin Queued \union Finished /\ rw[p].idx \in Desc
  BY <1>1, <1>2 DEF Inv, RingInv, ChainInv, ChainOf
<1>5. \A q \in Proc : Waiting(q)' <=> (q # p /\ Waiting(q))
  BY <1>1 DEF Waiting
<1>6. \A x \in Queued' \union Finished' : \E q \in Proc : Waiting(q)' /\ rw'[q].idx = x
  <2> SUFFICES ASSUME NEW x \in Queued' \union Finished'
               PROVE  \E q \in Proc : Waiting(q)' /\ rw'[q].idx = x
    OBVIOUS
  <2>1. PICK q \in Proc : Waiting(q) /\ rw[q].idx = x
    BY <1>3 DEF Inv, RingInv
  <2> QED
    BY <1>1, <1>3, <1>4, <1>5, <2>1
<1>7. \A q \in Proc : Waiting(q)' =>
         (onDisk'[rw'[q].b] <=> rw'[q].idx \in Queued' \union Finished')
  BY <1>1, <1>2, <1>3, <1>5 DEF Inv, RingInv
<1>8. \A x \in Finished' : info'[x].done
  <2>1. \A x \in Finished : x \in Desc /\ info[x].done /\ x # rw[p].idx
    <3>1. used \in Seq(Desc)
      BY DEF Inv, RingType
    <3>2. Finished \subseteq Desc
      BY <3>1, ElementOfSeq DEF Finished, Elems
    <3> QED
      BY <1>4, <3>2 DEF Inv, RingInv
  <2>2. info \in [Desc -> [b : Buf \union {None}, done : BOOLEAN]]
    BY DEF Inv, DiskType
  <2> QED
    BY <1>2, <1>3, <1>4, <2>1, <2>2
<1> QED
  BY <1>2, <1>3, <1>6, <1>7, <1>8 DEF Inv, RingInv

-----------------------------------------------------------------------------
(* The device, and the interrupt handler. *)

\* Whose request an element of the rings is.
LEMMA Asker ==
  ASSUME Inv, NEW i \in Queued \union Finished
  PROVE  \E q \in Proc :
           /\ Waiting(q) /\ rw[q].pc # "out" /\ rw[q].idx = i /\ i \in Desc
           /\ desc[desc[i].next].b = rw[q].b /\ info[i].b = rw[q].b /\ rw[q].b \in Buf
           /\ ops[i] = [w |-> rw[q].w, k |-> rw[q].k] /\ rw[q].k \in Block /\ onDisk[rw[q].b]
<1>1. PICK q \in Proc : Waiting(q) /\ rw[q].idx = i
  BY DEF Inv, RingInv
<1>2. ChainOf(q) /\ onDisk[rw[q].b]
  BY <1>1 DEF Inv, RingInv, ChainInv
<1>3. rw[q].pc # "out"
  BY <1>1 DEF Waiting
<1>4. rw[q].b \in Buf /\ rw[q].k \in Block
  BY <1>3, CallOnMine
<1>5. /\ i \in Desc /\ desc[desc[i].next].b = rw[q].b /\ info[i].b = rw[q].b
      /\ ops[i] = [w |-> rw[q].w, k |-> rw[q].k]
  BY <1>1, <1>2 DEF ChainOf, Second
<1> QED
  BY <1>1, <1>2, <1>3, <1>4, <1>5

\* What a completion does to the rings.
LEMMA CompleteRings ==
  ASSUME Inv, NEW x \in 1 .. Len(avail), Complete(x)
  PROVE  /\ avail[x] \in Queued /\ avail[x] \in Desc /\ avail[x] \notin Finished
         /\ Queued' = Queued \ {avail[x]} /\ Finished' = Finished \union {avail[x]}
         /\ NoRepeat(avail') /\ NoRepeat(used') /\ RingType'
<1> DEFINE i == avail[x]
<1>1. /\ avail \in Seq(Desc) /\ used \in Seq(Desc) /\ NoRepeat(avail) /\ NoRepeat(used)
      /\ Queued \intersect Finished = {}
  BY DEF Inv, RingType, RingInv
<1>2. i \in Queued /\ i \in Desc
  <2>1. i \in Queued
    BY DEF Queued, Elems
  <2> QED
    BY <1>1, <2>1, ElementOfSeq
<1>3. avail' = RemoveAt(avail, x) /\ used' = Append(used, i)
  BY DEF Complete
<1> HIDE DEF i
<1>4. /\ NoRepeat(RemoveAt(avail, x)) /\ Elems(RemoveAt(avail, x)) = Elems(avail) \ {i}
      /\ RemoveAt(avail, x) \in Seq(Desc)
  BY <1>1, Removed, RemovedElems DEF i
<1>5. i \notin Elems(used)
  BY <1>1, <1>2 DEF Finished
<1>6. /\ Append(used, i) \in Seq(Desc) /\ Elems(Append(used, i)) = Elems(used) \union {i}
      /\ NoRepeat(Append(used, i))
  BY <1>1, <1>2, <1>5, AppendedElems
<1>7. /\ Queued' = Queued \ {i} /\ Finished' = Finished \union {i}
      /\ NoRepeat(avail') /\ NoRepeat(used') /\ RingType'
  BY <1>3, <1>4, <1>6 DEF Queued, Finished, RingType
<1> QED
  BY <1>2, <1>5, <1>7 DEF i, Finished

\* The device answers a request.
LEMMA CompleteKeeps ==
  ASSUME Inv, NEW x \in 1 .. Len(avail), Complete(x)
  PROVE  ChainInv' /\ RingInv'
<1> DEFINE i == avail[x]
<1>1. /\ i \in Queued /\ i \in Desc
      /\ Queued' = Queued \ {i} /\ Finished' = Finished \union {i}
      /\ NoRepeat(avail') /\ NoRepeat(used')
  BY CompleteRings
<1>2. /\ info' = [info EXCEPT ![i].done = TRUE] /\ onDisk' = onDisk /\ rw' = rw
      /\ UNCHANGED <<free, desc, ops>>
  BY DEF Complete
<1> HIDE DEF i
<1>3. /\ \A y \in Desc : info'[y].b = info[y].b
      /\ info'[i].done /\ \A y \in Desc : y # i => info'[y] = info[y]
  <2>1. info \in [Desc -> [b : Buf \union {None}, done : BOOLEAN]]
    BY DEF Inv, DiskType
  <2> QED
    BY <1>1, <1>2, <2>1
<1>4. ChainInv /\ RingInv /\ rw \in [Proc -> Calls]
  BY Typed DEF Inv
<1>5. Stirred
  BY <1>2, <1>4 DEF Stirred, ChainInv, Waiting
<1>6. ChainInv'
  BY <1>2, <1>3, <1>4, <1>5, ChainKept
<1>7. Queued' \intersect Finished' = {} /\ Queued' \union Finished' = Queued \union Finished
  BY <1>1, <1>4 DEF RingInv
<1>8. \A y \in Finished' : info'[y].done
  <2>1. used \in Seq(Desc)
    BY DEF Inv, RingType
  <2>2. Finished \subseteq Desc
    BY <2>1, ElementOfSeq DEF Finished, Elems
  <2> QED
    BY <1>1, <1>3, <1>4, <2>2 DEF RingInv
<1>9. \A y \in Queued' \union Finished' : \E q \in Proc : Waiting(q)' /\ rw'[q].idx = y
  BY <1>2, <1>4, <1>5, <1>7 DEF RingInv, Stirred
<1>10. \A q \in Proc : Waiting(q)' =>
         (onDisk'[rw'[q].b] <=> rw'[q].idx \in Queued' \union Finished')
  BY <1>2, <1>4, <1>5, <1>7 DEF RingInv, Stirred
<1> QED
  BY <1>1, <1>6, <1>7, <1>8, <1>9, <1>10 DEF RingInv

\* The handler takes an answer, and gives the buffer back.
LEMMA HandleKeeps ==
  ASSUME Inv, HandleUsed
  PROVE  ChainInv' /\ RingInv' /\ RingType'
<1>1. /\ avail \in Seq(Desc) /\ used \in Seq(Desc) /\ NoRepeat(avail) /\ NoRepeat(used)
      /\ Queued \intersect Finished = {}
  BY DEF Inv, RingType, RingInv
<1> DEFINE h == Head(used)
<1>2. /\ used # <<>> /\ used' = Tail(used) /\ avail' = avail /\ UNCHANGED <<free, desc, ops, info>>
      /\ onDisk' = [onDisk EXCEPT ![info[h].b] = FALSE]
  BY DEF HandleUsed, driver
<1> HIDE DEF h
<1>3. /\ Tail(used) \in Seq(Desc) /\ NoRepeat(Tail(used)) /\ h \in Elems(used)
      /\ Elems(Tail(used)) = Elems(used) \ {h}
  BY <1>1, <1>2, TailElems DEF h
<1>4. h \in Finished /\ h \notin Queued /\ h \in Queued \union Finished
  BY <1>1, <1>3 DEF Finished
<1>5. PICK q \in Proc : /\ Waiting(q) /\ rw[q].pc # "out" /\ rw[q].idx = h
                        /\ info[h].b = rw[q].b /\ rw[q].b \in Buf
  BY <1>4, Asker, Zenon
<1>6. /\ Finished' = Finished \ {h} /\ Queued' = Queued /\ NoRepeat(used') /\ NoRepeat(avail')
      /\ RingType'
  BY <1>1, <1>2, <1>3 DEF Finished, Queued, RingType
<1>7. ChainInv /\ RingInv /\ Woken /\ Stirred
  BY HandlerWakes, WokenStirs DEF Inv
<1>8. ChainInv'
  BY <1>2, <1>7, ChainKept
<1>9. onDisk \in [Buf -> BOOLEAN]
  BY Typed
<1>10. ASSUME NEW r \in Proc, Waiting(r)'
       PROVE  onDisk'[rw'[r].b] <=> rw'[r].idx \in Queued' \union Finished'
  <2>1. Waiting(r) /\ rw[r].pc # "out" /\ rw'[r].b = rw[r].b /\ rw'[r].idx = rw[r].idx
    BY <1>7, <1>10 DEF Woken, Waiting
  <2>2. rw[r].b \in Buf /\ (onDisk[rw[r].b] <=> rw[r].idx \in Queued \union Finished)
    BY <1>7, <2>1, CallOnMine DEF RingInv
  <2>3. CASE r = q
    BY <1>2, <1>4, <1>5, <1>6, <1>9, <2>1, <2>2, <2>3
  <2>4. CASE r # q
    <3>1. rw[r].b # rw[q].b
      BY <1>5, <2>1, <2>4, CallsApart
    <3>2. rw[r].idx # h
      <4>1. Chain(rw[r].idx) \intersect Chain(rw[q].idx) = {}
        BY <1>5, <1>7, <2>1, <2>4 DEF ChainInv
      <4> QED
        BY <1>5, <4>1 DEF Chain
    <3>3. onDisk'[rw[r].b] = onDisk[rw[r].b]
      BY <1>2, <1>5, <1>9, <2>2, <3>1
    <3> QED
      BY <1>6, <2>1, <2>2, <3>2, <3>3
  <2> QED
    BY <2>3, <2>4
<1>11. \A y \in Queued' \union Finished' : \E r \in Proc : Waiting(r)' /\ rw'[r].idx = y
  BY <1>6, <1>7 DEF RingInv, Woken
<1>12. (\A y \in Finished' : info'[y].done) /\ Queued' \intersect Finished' = {}
  BY <1>2, <1>6, <1>7 DEF RingInv
<1> QED
  BY <1>6, <1>8, <1>10, <1>11, <1>12 DEF RingInv

-----------------------------------------------------------------------------
(* The driver's part of the invariant. *)

\* The rings, when nothing is added to or taken from them.
LEMMA RingsStay ==
  ASSUME RingType, UNCHANGED <<avail, used>>
  PROVE  RingType' /\ Queued' = Queued /\ Finished' = Finished
BY DEF RingType, Queued, Finished

\* A step of the driver's state that nobody's chain is touched by.
LEMMA QuietDriver ==
  ASSUME Inv, Stirred, UNCHANGED <<free, desc, ops, info, avail, used, onDisk>>
  PROVE  RingType' /\ ChainInv' /\ RingInv'
<1>1. ChainInv /\ RingInv /\ RingType
  BY DEF Inv
<1> QED
  BY <1>1, RingsStay, ChainKept, RingKept

\* No process does anything.
LEMMA StillStirs ==
  ASSUME Inv, UNCHANGED rw
  PROVE  Stirred
<1>1. rw \in [Proc -> Calls] /\ ChainInv
  BY Typed DEF Inv
<1> QED
  BY <1>1 DEF Stirred, ChainInv, Waiting

\* A call of virtio_disk_rw, by LockBuf and by Bwrite.
LEMMA LockCalls ==
  ASSUME Inv, NEW p \in Proc, LockBuf(p) \/ Bwrite(p), ~UNCHANGED dvars
  PROVE  /\ rw[p].pc = "out" /\ th[p].b \in Buf /\ blockno[th[p].b] \in Block
         /\ UNCHANGED <<device, driver, intr>>
         /\ \E w \in BOOLEAN : RwCall(p, th[p].b, blockno[th[p].b], w)
<1>1. th[p].pc \in {"lock", "hold"}
  BY DEF LockBuf, Bwrite, At
<1>2. rw[p].pc = "out"
  BY <1>1 DEF Inv, CallInv
<1>3. th[p].b \in Buf /\ blockno[th[p].b] \in Block
  BY <1>1, MineIsBuf
<1>4. /\ UNCHANGED <<device, driver, intr>>
      /\ RwCall(p, th[p].b, blockno[th[p].b], FALSE) \/ RwCall(p, th[p].b, blockno[th[p].b], TRUE)
  BY DEF LockBuf, Bwrite, Mine
<1> QED
  BY <1>2, <1>3, <1>4

\* Calling virtio_disk_rw touches none of the descriptors and rings.
LEMMA CallQuiet ==
  ASSUME Inv, NEW p \in Proc, LockBuf(p) \/ Bwrite(p)
  PROVE  Stirred /\ UNCHANGED <<free, desc, ops, info, avail, used, onDisk, image, data>>
<1>1. CASE UNCHANGED dvars
  BY <1>1, StillStirs DEF dvars
<1>2. CASE ~UNCHANGED dvars
  <2>1. PICK w \in BOOLEAN : RwCall(p, th[p].b, blockno[th[p].b], w)
    BY <1>2, LockCalls
  <2>2. /\ rw[p].pc = "out" /\ th[p].b \in Buf /\ blockno[th[p].b] \in Block
        /\ UNCHANGED <<device, driver, intr>>
    BY <1>2, LockCalls
  <2>3. Stirred
    BY <2>1, <2>2, CallStirs
  <2> QED
    BY <2>2, <2>3 DEF device, driver
<1> QED
  BY <1>1, <1>2

\* The steps of the cache that are none of the driver.
CacheOnly(p) ==
  \/ Call(p) \/ LockSleep(p) \/ ReadDone(p) \/ LogWrite(p) \/ WriteDone(p) \/ Unlock(p) \/ Drop(p)

\* The steps of the cache alone leave the driver as it is.
LEMMA CacheOnlyQuiet ==
  ASSUME NEW p \in Proc, CacheOnly(p)
  PROVE  UNCHANGED dvars
BY DEF CacheOnly, Call, BgetHit, BgetMiss, LockSleep, ReadDone, LogWrite, WriteDone, Unlock, Drop

\* Every step is one of these.
LEMMA Steps ==
  ASSUME Run
  PROVE  \/ \E p \in Proc : \/ CacheOnly(p) \/ LockBuf(p) \/ Bwrite(p) \/ Modify(p) \/ Kill(p)
                            \/ ((RwStart(p) \/ RwDone(p)) /\ UNCHANGED cache)
                            \/ ((RwNoDesc(p) \/ RwAgain(p)) /\ UNCHANGED cache)
         \/ (\E x \in 1 .. Len(avail) : Complete(x)) /\ UNCHANGED cache
         \/ HandleUsed /\ UNCHANGED cache
         \/ (Claim \/ Ack \/ Handled \/ Completed) /\ UNCHANGED cache
<1>1. CASE Hardware
  BY <1>1 DEF Hardware, Device, Handler
<1>2. ASSUME NEW p \in Proc, Call(p) \/ Kernel(p) \/ Kill(p)
      PROVE  \/ CacheOnly(p) \/ LockBuf(p) \/ Bwrite(p) \/ Modify(p) \/ Kill(p)
             \/ ((RwStart(p) \/ RwDone(p)) /\ UNCHANGED cache)
             \/ ((RwNoDesc(p) \/ RwAgain(p)) /\ UNCHANGED cache)
  BY <1>2 DEF Kernel, Step, Rw, CacheOnly
<1> QED
  BY <1>1, <1>2 DEF Run

\* The driver's variables keep their types.
LEMMA DiskTypeKept ==
  ASSUME Inv, image' \in [Block -> Val], data' \in [Buf -> Val], onDisk' \in [Buf -> BOOLEAN],
         rw' \in [Proc -> Calls], UNCHANGED <<free, desc, ops, info>>
  PROVE  DiskType'
BY DEF Inv, DiskType, Calls

\* Every step keeps what the driver promises of its descriptors and rings.
LEMMA DriverInv ==
  ASSUME Inv, Run
  PROVE  DiskType' /\ RingType' /\ ChainInv' /\ RingInv'
<1>1. ASSUME NEW p \in Proc, CacheOnly(p)
      PROVE  DiskType' /\ RingType' /\ ChainInv' /\ RingInv'
  <2>1. UNCHANGED dvars
    BY <1>1, CacheOnlyQuiet
  <2>2. UNCHANGED <<free, desc, ops, info, avail, used, onDisk, rw, image, data>>
    BY <2>1 DEF dvars
  <2> QED
    BY <2>2, Typed, StillStirs, QuietDriver, DiskTypeKept
<1>2. ASSUME NEW p \in Proc, LockBuf(p) \/ Bwrite(p)
      PROVE  DiskType' /\ RingType' /\ ChainInv' /\ RingInv'
  <2>1. Stirred /\ UNCHANGED <<free, desc, ops, info, avail, used, onDisk, image, data>>
    BY <1>2, CallQuiet
  <2>2. rw' \in [Proc -> Calls]
    BY <2>1 DEF Stirred
  <2> QED
    BY <2>1, <2>2, Typed, QuietDriver, DiskTypeKept
<1>3. ASSUME NEW p \in Proc, Modify(p)
      PROVE  DiskType' /\ RingType' /\ ChainInv' /\ RingInv'
  <2>1. UNCHANGED <<image, free, desc, ops, info, avail, used, onDisk, rw>>
    BY <1>3 DEF Modify, driver
  <2>2. data' \in [Buf -> Val]
    BY <1>3, Typed DEF Modify
  <2> QED
    BY <2>1, <2>2, Typed, StillStirs, QuietDriver, DiskTypeKept
<1>4. ASSUME NEW p \in Proc, Kill(p) \/ RwNoDesc(p) \/ RwAgain(p)
      PROVE  DiskType' /\ RingType' /\ ChainInv' /\ RingInv'
  <2>1. Woken
    BY <1>4, KillWakes, NoDescWakes, AgainWakes
  <2>2. Stirred /\ rw' \in [Proc -> Calls]
    BY <2>1, WokenStirs DEF Woken, Inv
  <2>3. UNCHANGED <<free, desc, ops, info, avail, used, onDisk, image, data>>
    BY <1>4 DEF Kill, RwNoDesc, RwAgain, device, driver
  <2> QED
    BY <2>2, <2>3, Typed, QuietDriver, DiskTypeKept
<1>5. ASSUME NEW p \in Proc, RwStart(p)
      PROVE  DiskType' /\ RingType' /\ ChainInv' /\ RingInv'
  <2>1. PICK i, j, l \in Desc : Started(p, i, j, l) /\ Formatted(p, i, j, l)
    BY <1>5, StartValues
  <2>2. rw[p].b \in Buf
    BY <1>5, CallOnMine DEF RwStart
  <2>3. /\ image' \in [Block -> Val] /\ data' \in [Buf -> Val] /\ onDisk' \in [Buf -> BOOLEAN]
        /\ rw' \in [Proc -> Calls]
    BY <1>5, <2>1, <2>2, Typed DEF Started, Formatted, RwStart
  <2>4. free' \subseteq Desc
    BY <2>1 DEF Started, Inv, DiskType
  <2>5. DiskType'
    BY <2>1, <2>3, <2>4 DEF Formatted, DiskType, Calls
  <2>6. RingType'
    <3>1. avail \in Seq(Desc) /\ used \in Seq(Desc) /\ avail' = Append(avail, i) /\ used' = used
      BY <1>5, <2>1 DEF Started, RwStart, Inv, RingType
    <3>2. Append(avail, i) \in Seq(Desc)
      BY <3>1, AppendedElems
    <3> QED
      BY <3>1, <3>2 DEF RingType
  <2> QED
    BY <1>5, <2>5, <2>6, StartChain, StartRing
<1>6. ASSUME NEW p \in Proc, RwDone(p)
      PROVE  DiskType' /\ RingType' /\ ChainInv' /\ RingInv'
  <2>1. UNCHANGED <<image, data, onDisk, avail, used, ops>> /\ rw' \in [Proc -> Calls]
    BY <1>6, DoneValues DEF RwDone, device
  <2>2. rw[p].idx \in Desc /\ Chain(rw[p].idx) \subseteq Desc
    <3>1. ChainOf(p)
      BY <1>6 DEF RwDone, Waiting, Inv, ChainInv
    <3> QED
      BY <3>1 DEF ChainOf, Chain, Second, Third
  <2>3. info' \in [Desc -> [b : Buf \union {None}, done : BOOLEAN]]
    BY <1>6 DEF RwDone, Inv, DiskType
  <2>4. desc' \in [Desc -> [b : Buf \union {None}, next : 0 .. NUM]]
    <3>1. Clear \in [b : Buf \union {None}, next : 0 .. NUM]
      BY Descriptors DEF Clear, End
    <3> QED
      BY <1>6, <3>1 DEF RwDone, Inv, DiskType
  <2>5. free' \subseteq Desc
    BY <1>6, <2>2 DEF RwDone, Inv, DiskType
  <2>6. DiskType'
    BY <2>1, <2>3, <2>4, <2>5 DEF Inv, DiskType, Calls
  <2>7. RingType'
    BY <2>1, RingsStay DEF Inv
  <2> QED
    BY <1>6, <2>6, <2>7, DoneChain, DoneRing
<1>7. ASSUME NEW x \in 1 .. Len(avail), Complete(x)
      PROVE  DiskType' /\ RingType' /\ ChainInv' /\ RingInv'
  <2>1. avail[x] \in Queued \union Finished /\ avail[x] \in Desc /\ RingType'
    BY <1>7, CompleteRings
  <2>2. PICK q \in Proc :
           /\ desc[desc[avail[x]].next].b = rw[q].b /\ rw[q].b \in Buf
           /\ ops[avail[x]] = [w |-> rw[q].w, k |-> rw[q].k] /\ rw[q].k \in Block
    BY <2>1, Asker
  <2>3. image' \in [Block -> Val] /\ data' \in [Buf -> Val]
    <3>1. data[rw[q].b] \in Val /\ image[rw[q].k] \in Val /\ ops[avail[x]].k = rw[q].k
      BY <2>2, Typed
    <3> QED
      BY <1>7, <2>2, <3>1, Typed DEF Complete
  <2>4. UNCHANGED <<onDisk, free, desc, ops, rw>>
    BY <1>7 DEF Complete
  <2>5. info' \in [Desc -> [b : Buf \union {None}, done : BOOLEAN]]
    <3>1. /\ info \in [Desc -> [b : Buf \union {None}, done : BOOLEAN]]
          /\ \E i \in Desc : info' = [info EXCEPT ![i].done = TRUE]
      BY <1>7, <2>1, Zenon DEF Complete, Inv, DiskType
    <3> QED
      BY <3>1
  <2>6. DiskType'
    BY <2>3, <2>4, <2>5 DEF Inv, DiskType
  <2> QED
    BY <1>7, <2>1, <2>6, CompleteKeeps
<1>8. ASSUME HandleUsed
      PROVE  DiskType' /\ RingType' /\ ChainInv' /\ RingInv'
  <2>1. rw' \in [Proc -> Calls] /\ UNCHANGED <<image, data, free, desc, ops, info>>
    BY <1>8, HandlerWakes DEF Woken, HandleUsed, driver
  <2>2. onDisk' \in [Buf -> BOOLEAN]
    BY <1>8, Typed DEF HandleUsed
  <2> QED
    BY <1>8, <2>1, <2>2, Typed, HandleKeeps, DiskTypeKept
<1>9. ASSUME Claim \/ Ack \/ Handled \/ Completed
      PROVE  DiskType' /\ RingType' /\ ChainInv' /\ RingInv'
  <2>1. UNCHANGED <<free, desc, ops, info, avail, used, onDisk, rw, image, data>>
    BY <1>9 DEF Claim, Ack, Handled, Completed, device, driver
  <2> QED
    BY <2>1, Typed, StillStirs, QuietDriver, DiskTypeKept
<1> QED
  BY <1>1, <1>2, <1>3, <1>4, <1>5, <1>6, <1>7, <1>8, <1>9, Steps

-----------------------------------------------------------------------------
(* The cache's part of the invariant. *)

\* A process that goes on with its buffer.
LEMMA MovesTo ==
  ASSUME Inv, NEW p \in Proc, NEW l \in Labels, To(p, l)
  PROVE  /\ th' \in [Proc -> Frames] /\ th'[p].pc = l
         /\ th'[p].b = th[p].b /\ th'[p].dirty = th[p].dirty
         /\ \A q \in Proc : q # p => th'[q] = th[q]
<1>1. th \in [Proc -> Frames]
  BY Typed
<1> QED
  BY <1>1 DEF To, Frames

\* log_write moves the holder on, its changes safe in the log.
LEMMA MovesClean ==
  ASSUME Inv, NEW p \in Proc,
         th' = [th EXCEPT ![p] = [@ EXCEPT !.dirty = FALSE, !.pc = "release"]]
  PROVE  /\ th' \in [Proc -> Frames] /\ th'[p].pc = "release"
         /\ th'[p].b = th[p].b /\ th'[p].dirty = FALSE
         /\ \A q \in Proc : q # p => th'[q] = th[q]
<1>1. th \in [Proc -> Frames]
  BY Typed
<1> DEFINE f == [th[p] EXCEPT !.dirty = FALSE, !.pc = "release"]
<1>2. f \in Frames /\ f.pc = "release" /\ f.b = th[p].b /\ f.dirty = FALSE
  BY <1>1 DEF Frames, Labels
<1>3. th' = [th EXCEPT ![p] = f]
  OBVIOUS
<1> HIDE DEF f
<1> QED
  BY <1>1, <1>2, <1>3

\* A process that takes a new frame.
LEMMA MovesFrame ==
  ASSUME Inv, NEW p \in Proc, NEW l \in Labels, NEW b \in Buf \union {None},
         th' = [th EXCEPT ![p] = Frame(l, b)]
  PROVE  /\ th' \in [Proc -> Frames] /\ th'[p].pc = l /\ th'[p].b = b /\ th'[p].dirty = FALSE
         /\ \A q \in Proc : q # p => th'[q] = th[q]
<1>1. th \in [Proc -> Frames]
  BY Typed
<1>2. Frame(l, b) \in Frames /\ Frame(l, b) = [pc |-> l, b |-> b, dirty |-> FALSE]
  BY DEF Frame, Frames
<1> QED
  BY <1>1, <1>2

\* The users of each buffer are a finite set.
LEMMA UsersFinite ==
  ASSUME NEW b
  PROVE  IsFiniteSet(Users(b)) /\ Cardinality(Users(b)) \in Nat
<1>1. IsFiniteSet(Users(b))
  BY CacheAssumption, FS_Subset DEF Users
<1> QED
  BY <1>1, FS_CardinalityType

\* The processes keep their buffers.
Stays ==
  \A q \in Proc : th'[q].b = th[q].b /\ (th'[q].pc = "idle" <=> th[q].pc = "idle")

\* Then each buffer has the same users.
LEMMA UsersKept ==
  ASSUME Stays, NEW b
  PROVE  Users(b)' = Users(b)
BY DEF Stays, Users, At, Mine

\* Then the reference counts stay right.
LEMMA CountKept ==
  ASSUME CountInv, Stays, UNCHANGED <<blockno, refcnt, pinned>>
  PROVE  CountInv'
<1>1. \A b \in Buf : Users(b)' = Users(b) /\ Pin(b)' = Pin(b)
  BY UsersKept DEF Pin
<1> QED
  BY <1>1 DEF CountInv

\* What a cache step establishes.
CacheInv == CacheType /\ LockInv /\ CountInv /\ LruInv

\* A step of a lock alone keeps the types of the cache.
LEMMA CacheTypeKept ==
  ASSUME Inv, th' \in [Proc -> Frames], slock' \in [Buf -> Proc \union {None}],
         UNCHANGED <<blockno, valid, refcnt, pinned>>
  PROVE  CacheType'
BY DEF Inv, CacheType, Frames, Labels

\* Who waits for the lock, or stops waiting.
LEMMA PauseKeeps ==
  ASSUME Inv, NEW p \in Proc, th[p].pc \in {"lock", "asleep"},
         NEW l \in {"lock", "asleep"}, To(p, l),
         UNCHANGED <<lru, blockno, valid, refcnt, slock, pinned>>
  PROVE  CacheInv'
<1>1. /\ th' \in [Proc -> Frames] /\ th'[p].pc = l /\ th'[p].b = th[p].b
      /\ th'[p].dirty = th[p].dirty /\ \A q \in Proc : q # p => th'[q] = th[q]
  BY MovesTo DEF Labels
<1>2. CacheType'
  BY <1>1, CacheTypeKept DEF Inv, CacheType
<1>3. Stays /\ CountInv /\ LockInv /\ LruInv
  BY <1>1 DEF Stays, Inv
<1>4. CountInv'
  BY <1>3, CountKept
<1>5. LruInv'
  BY <1>3 DEF LruInv
<1>6. slock \in [Buf -> Proc \union {None}]
  BY DEF Inv, CacheType
<1>7. LockInv'
  BY <1>1, <1>3, <1>6 DEF LockInv, Holds
<1> QED
  BY <1>2, <1>4, <1>5, <1>7 DEF CacheInv

\* The lock is taken.
LEMMA LockBufKeeps ==
  ASSUME Inv, NEW p \in Proc, LockBuf(p)
  PROVE  CacheInv'
<1> DEFINE b == th[p].b
<1>1. /\ th[p].pc = "lock" /\ slock[b] = None /\ slock' = [slock EXCEPT ![b] = p]
      /\ UNCHANGED <<lru, blockno, valid, refcnt, pinned>>
      /\ (valid[b] /\ To(p, "hold")) \/ (~valid[b] /\ To(p, "reading"))
  BY DEF LockBuf, At, Mine
<1>2. b \in Buf /\ slock \in [Buf -> Proc \union {None}] /\ p # None
  BY <1>1, MineIsBuf, NotNone DEF Inv, CacheType
<1> HIDE DEF b
<1>3. PICK l \in {"hold", "reading"} : To(p, l) /\ (valid[b] <=> l = "hold")
  BY <1>1
<1>4. /\ th' \in [Proc -> Frames] /\ th'[p].pc = l /\ th'[p].b = b
      /\ th'[p].dirty = th[p].dirty /\ \A q \in Proc : q # p => th'[q] = th[q]
  BY <1>3, MovesTo DEF Labels, b
<1>5. CacheType'
  BY <1>1, <1>2, <1>4, CacheTypeKept
<1>6. Stays /\ CountInv /\ LockInv /\ LruInv
  BY <1>1, <1>4 DEF Stays, Inv, b
<1>7. CountInv'
  BY <1>1, <1>6, CountKept
<1>8. LruInv'
  BY <1>1, <1>6 DEF LruInv
<1>9. \A q \in Proc : th'[q].pc = "idle" => th'[q].b = None
  BY <1>4, <1>6 DEF LockInv
<1>10. \A q \in Proc : th'[q].pc # "idle" => th'[q].b \in Buf /\ blockno'[th'[q].b] \in Block
  BY <1>1, <1>2, <1>4, <1>6 DEF LockInv, b
<1>11. \A q \in Proc : Holds(q)' => slock'[th'[q].b] = q
  <2>1. \A q \in Proc : q # p /\ Holds(q) => th[q].b # b
    BY <1>1, NotNone, <1>6 DEF LockInv
  <2>2. \A q \in Proc : q # p /\ Holds(q) => th[q].b \in Buf
    BY <1>6 DEF LockInv, Holds
  <2>3. \A q \in Proc : q # p /\ Holds(q) => slock'[th[q].b] = slock[th[q].b]
    BY <1>1, <1>2, <2>1, <2>2
  <2>4. slock'[b] = p
    BY <1>1, <1>2
  <2> QED
    BY <1>4, <1>6, <2>3, <2>4 DEF LockInv, Holds
<1>12. \A c \in Buf : slock'[c] # None => Holds(slock[c])' /\ th'[slock'[c]].b = c
  <2> SUFFICES ASSUME NEW c \in Buf, slock'[c] # None
               PROVE  Holds(slock[c])' /\ th'[slock'[c]].b = c
    OBVIOUS
  <2>1. CASE c = b
    <3>1. slock'[c] = p
      BY <1>1, <1>2, <2>1
    <3> QED
      BY <1>3, <1>4, <2>1, <3>1 DEF Holds
  <2>2. CASE c # b
    <3>1. slock'[c] = slock[c] /\ slock[c] \in Proc
      BY <1>1, <1>2, <2>2
    <3>2. Holds(slock[c]) /\ th[slock[c]].b = c
      BY <1>6, <3>1, NotNone DEF LockInv
    <3>3. slock[c] # p
      BY <1>1, <3>2 DEF Holds
    <3> QED
      BY <1>4, <3>1, <3>2, <3>3 DEF Holds
  <2> QED
    BY <2>1, <2>2
<1>13. \A q \in Proc : th'[q].dirty => th'[q].pc \in {"hold", "writing"}
  BY <1>1, <1>4, <1>6 DEF LockInv
<1>14. \A q \in Proc : th'[q].pc \in {"hold", "writing", "release"} => valid'[th'[q].b]
  BY <1>1, <1>3, <1>4, <1>6 DEF LockInv
<1>15. \A q \in Proc : th'[q].pc = "reading" => ~valid'[th'[q].b]
  BY <1>1, <1>3, <1>4, <1>6 DEF LockInv
<1>16. LockInv'
  BY <1>9, <1>10, <1>11, <1>12, <1>13, <1>14, <1>15 DEF LockInv
<1> QED
  BY <1>5, <1>7, <1>8, <1>16 DEF CacheInv

\* The holder of a buffer goes on with it.
HolderMoves(p, l) ==
  /\ Holds(p) /\ l \in {"hold", "writing", "release"}
  /\ th' \in [Proc -> Frames] /\ th'[p].pc = l /\ th'[p].b = th[p].b
  /\ th'[p].dirty => l \in {"hold", "writing"}
  /\ \A q \in Proc : q # p => th'[q] = th[q]
  /\ valid' \in [Buf -> BOOLEAN] /\ valid'[th[p].b]
  /\ \A c \in Buf : c # th[p].b => valid'[c] = valid[c]
  /\ UNCHANGED <<lru, blockno, slock>>

\* A holder that moves on keeps its lock, and the counts and the list stay.
LEMMA HolderKeeps ==
  ASSUME Inv, NEW p \in Proc, NEW l, HolderMoves(p, l)
  PROVE  Stays /\ LockInv' /\ LruInv' /\ th[p].b \in Buf
<1>1. LockInv /\ LruInv /\ slock \in [Buf -> Proc \union {None}]
  BY DEF Inv, CacheType
<1>2. /\ Holds(p) /\ l \in {"hold", "writing", "release"}
      /\ th' \in [Proc -> Frames] /\ th'[p].pc = l /\ th'[p].b = th[p].b
      /\ th'[p].dirty => l \in {"hold", "writing"}
      /\ \A q \in Proc : q # p => th'[q] = th[q]
      /\ valid' \in [Buf -> BOOLEAN] /\ valid'[th[p].b]
      /\ \A c \in Buf : c # th[p].b => valid'[c] = valid[c]
      /\ UNCHANGED <<lru, blockno, slock>>
  BY DEF HolderMoves
<1>3. th[p].b \in Buf /\ blockno[th[p].b] \in Block /\ slock[th[p].b] = p
  BY <1>1, <1>2 DEF LockInv, Holds
<1>4. Stays
  BY <1>2 DEF Stays, Holds
<1>5. LruInv'
  BY <1>1, <1>2 DEF LruInv
<1>6. \A q \in Proc : Holds(q)' <=> Holds(q)
  BY <1>2 DEF Holds
<1>7. \A q \in Proc : Holds(q) /\ q # p => th[q].b # th[p].b
  BY <1>1, <1>3 DEF LockInv
<1>8. \A q \in Proc : th'[q].pc = "idle" => th'[q].b = None
  BY <1>1, <1>2 DEF LockInv
<1>9. \A q \in Proc : th'[q].pc # "idle" => th'[q].b \in Buf /\ blockno'[th'[q].b] \in Block
  BY <1>1, <1>2, <1>3 DEF LockInv
<1>10. \A q \in Proc : Holds(q)' => slock'[th'[q].b] = q
  BY <1>1, <1>2, <1>6, <1>4 DEF LockInv, Stays
<1>11. \A c \in Buf : slock'[c] # None => Holds(slock[c])' /\ th'[slock'[c]].b = c
  <2> SUFFICES ASSUME NEW c \in Buf, slock[c] # None
               PROVE  Holds(slock[c])' /\ th'[slock[c]].b = c
    BY <1>2
  <2>1. Holds(slock[c]) /\ th[slock[c]].b = c /\ slock[c] \in Proc
    BY <1>1 DEF LockInv
  <2>2. slock'[c] = slock[c] /\ th'[slock[c]].b = c
    BY <1>2, <1>4, <2>1 DEF Stays
  <2> QED
    BY <1>2, <2>1, <2>2 DEF Holds
<1>12. \A q \in Proc : th'[q].dirty => th'[q].pc \in {"hold", "writing"}
  BY <1>1, <1>2 DEF LockInv
<1>13. \A q \in Proc : th'[q].pc \in {"hold", "writing", "release"} => valid'[th'[q].b]
  <2> SUFFICES ASSUME NEW q \in Proc, th'[q].pc \in {"hold", "writing", "release"}
               PROVE  valid'[th'[q].b]
    OBVIOUS
  <2>1. CASE q = p
    BY <1>2, <2>1
  <2>2. CASE q # p
    <3>1. Holds(q) /\ th[q].pc \in {"hold", "writing", "release"} /\ th'[q] = th[q]
      BY <1>2, <2>2 DEF Holds
    <3>2. th[q].b # th[p].b /\ th[q].b \in Buf /\ valid[th[q].b]
      BY <1>1, <1>7, <2>2, <3>1 DEF LockInv
    <3> QED
      BY <1>2, <3>1, <3>2
  <2> QED
    BY <2>1, <2>2
<1>14. \A q \in Proc : th'[q].pc = "reading" => ~valid'[th'[q].b]
  <2> SUFFICES ASSUME NEW q \in Proc, th'[q].pc = "reading"
               PROVE  ~valid'[th'[q].b]
    OBVIOUS
  <2>1. q # p /\ th'[q] = th[q] /\ th[q].pc = "reading"
    BY <1>2
  <2>2. Holds(q) /\ th[q].b \in Buf /\ ~valid[th[q].b]
    BY <1>1, <2>1 DEF LockInv, Holds
  <2>3. th[q].b # th[p].b
    BY <1>7, <2>1, <2>2
  <2> QED
    BY <1>2, <2>1, <2>2, <2>3
<1> QED
  BY <1>3, <1>4, <1>5, <1>8, <1>9, <1>10, <1>11, <1>12, <1>13, <1>14 DEF LockInv

\* The counts and the pins stay as they are.
LEMMA HolderKeepsCache ==
  ASSUME Inv, NEW p \in Proc, NEW l, HolderMoves(p, l), UNCHANGED <<refcnt, pinned>>
  PROVE  CacheInv'
<1>1. Stays /\ LockInv' /\ LruInv'
  BY HolderKeeps
<1>2. CountInv'
  BY <1>1, CountKept DEF Inv, HolderMoves
<1>3. CacheType'
  BY DEF Inv, CacheType, HolderMoves, Frames, Labels
<1> QED
  BY <1>1, <1>2, <1>3 DEF CacheInv

\* The read in bread is answered: the buffer becomes valid.
LEMMA ReadDoneKeeps ==
  ASSUME Inv, NEW p \in Proc, ReadDone(p)
  PROVE  CacheInv'
<1>1. th[p].pc = "reading" /\ To(p, "hold") /\ valid' = [valid EXCEPT ![th[p].b] = TRUE]
  BY DEF ReadDone, At, Mine
<1>2. th[p].b \in Buf /\ valid \in [Buf -> BOOLEAN]
  BY <1>1, MineIsBuf, Typed
<1>3. /\ th' \in [Proc -> Frames] /\ th'[p].pc = "hold" /\ th'[p].b = th[p].b
      /\ th'[p].dirty = th[p].dirty /\ \A q \in Proc : q # p => th'[q] = th[q]
  BY <1>1, MovesTo DEF Labels
<1>4. HolderMoves(p, "hold")
  BY <1>1, <1>2, <1>3 DEF HolderMoves, Holds, ReadDone
<1> QED
  BY <1>4, HolderKeepsCache DEF ReadDone

\* A holder whose buffer is valid already.
LEMMA ValidMoves ==
  ASSUME Inv, NEW p \in Proc, th[p].pc \in {"hold", "writing", "release"},
         NEW l \in {"hold", "writing", "release"},
         th' \in [Proc -> Frames], th'[p].pc = l, th'[p].b = th[p].b,
         th'[p].dirty => l \in {"hold", "writing"},
         \A q \in Proc : q # p => th'[q] = th[q],
         UNCHANGED <<lru, blockno, slock, valid>>
  PROVE  HolderMoves(p, l)
<1>1. valid[th[p].b] /\ valid \in [Buf -> BOOLEAN]
  BY Typed DEF Inv, LockInv
<1> QED
  BY <1>1 DEF HolderMoves, Holds

\* The holder changes the data of the buffer.
LEMMA ModifyKeeps ==
  ASSUME Inv, NEW p \in Proc, Modify(p)
  PROVE  CacheInv' /\ HolderMoves(p, "hold")
<1>1. th[p].pc = "hold" /\ th' = [th EXCEPT ![p].dirty = TRUE] /\ th \in [Proc -> Frames]
  BY Typed DEF Modify, At
<1>2. /\ th' \in [Proc -> Frames] /\ th'[p].pc = "hold" /\ th'[p].b = th[p].b
      /\ \A q \in Proc : q # p => th'[q] = th[q]
  BY <1>1 DEF Frames
<1>3. HolderMoves(p, "hold")
  BY <1>1, <1>2, ValidMoves DEF Modify
<1> QED
  BY <1>3, HolderKeepsCache DEF Modify

\* The holder writes the buffer out.
LEMMA BwriteKeeps ==
  ASSUME Inv, NEW p \in Proc, Bwrite(p)
  PROVE  CacheInv' /\ HolderMoves(p, "writing")
<1>1. th[p].pc = "hold" /\ To(p, "writing")
  BY DEF Bwrite, At
<1>2. /\ th' \in [Proc -> Frames] /\ th'[p].pc = "writing" /\ th'[p].b = th[p].b
      /\ th'[p].dirty = th[p].dirty /\ \A q \in Proc : q # p => th'[q] = th[q]
  BY <1>1, MovesTo DEF Labels
<1>3. HolderMoves(p, "writing")
  BY <1>1, <1>2, ValidMoves DEF Bwrite
<1> QED
  BY <1>3, HolderKeepsCache DEF Bwrite

\* A pin is one reference more, and the pins are few.
LEMMA LogWriteKeeps ==
  ASSUME Inv, NEW p \in Proc, LogWrite(p)
  PROVE  CacheInv' /\ HolderMoves(p, "release")
<1> DEFINE b == th[p].b
           k == blockno[b]
<1>1. /\ th[p].pc = "hold" /\ (k \in pinned \/ Cardinality(pinned) < MaxPin)
      /\ refcnt' = (IF k \in pinned THEN refcnt ELSE [refcnt EXCEPT ![b] = @ + 1])
      /\ pinned' = pinned \union {k} /\ UNCHANGED <<lru, blockno, slock, valid>>
      /\ th' = [th EXCEPT ![p] = [@ EXCEPT !.dirty = FALSE, !.pc = "release"]]
  BY DEF LogWrite, At, Mine, Bpin
<1>2. b \in Buf /\ k \in Block
  BY <1>1, MineIsBuf
<1>3. /\ th' \in [Proc -> Frames] /\ th'[p].pc = "release"
      /\ th'[p].b = th[p].b /\ th'[p].dirty = FALSE /\ \A q \in Proc : q # p => th'[q] = th[q]
  BY <1>1, MovesClean
<1>4. HolderMoves(p, "release")
  BY <1>1, <1>3, ValidMoves
<1>5. Stays /\ LockInv' /\ LruInv'
  BY <1>4, HolderKeeps
<1>6. CASE k \in pinned
  <2>1. pinned' = pinned /\ refcnt' = refcnt
    BY <1>1, <1>6
  <2> QED
    BY <1>4, <2>1, HolderKeepsCache
<1>7. CASE k \notin pinned
  <2>1. refcnt' = [refcnt EXCEPT ![b] = @ + 1] /\ Cardinality(pinned) < MaxPin
    BY <1>1, <1>7
  <2>2. CountInv /\ refcnt \in [Buf -> Nat] /\ pinned \subseteq Block
    BY DEF Inv, CacheType
  <2>3. CacheType'
    <3>1. refcnt' \in [Buf -> Nat] /\ pinned' \subseteq Block
      BY <1>1, <1>2, <2>1, <2>2
    <3> QED
      BY <1>1, <1>3, <3>1 DEF Inv, CacheType, Frames, Labels
  <2>4. \A c \in Buf : c # b => blockno[c] # k
    BY <1>2, <2>2, NotNone DEF CountInv
  <2>5. \A c \in Buf : Pin(c)' = IF c = b THEN 1 ELSE Pin(c)
    BY <1>1, <2>4 DEF Pin
  <2>6. Pin(b) = 0
    BY <1>7 DEF Pin
  <2>7. \A c \in Buf : Users(c)' = Users(c) /\ Cardinality(Users(c)) \in Nat
    BY <1>5, UsersKept, UsersFinite
  <2>8. \A c \in Buf : refcnt'[c] = Cardinality(Users(c)') + Pin(c)'
    <3> SUFFICES ASSUME NEW c \in Buf
                 PROVE  refcnt'[c] = Cardinality(Users(c)') + Pin(c)'
      OBVIOUS
    <3>1. refcnt[c] = Cardinality(Users(c)) + Pin(c)
      BY <2>2 DEF CountInv
    <3>2. CASE c = b
      <4>1. refcnt'[c] = refcnt[c] + 1 /\ Pin(c)' = 1 /\ Pin(c) = 0
        BY <2>1, <2>2, <2>5, <2>6, <3>2
      <4> QED
        BY <2>7, <3>1, <4>1
    <3>3. CASE c # b
      <4>1. refcnt'[c] = refcnt[c] /\ Pin(c)' = Pin(c)
        BY <2>1, <2>2, <2>5, <3>3
      <4> QED
        BY <2>7, <3>1, <4>1
    <3> QED
      BY <3>2, <3>3
  <2>9. IsFiniteSet(pinned') /\ Cardinality(pinned') <= MaxPin
    <3>1. IsFiniteSet(pinned) /\ MaxPin \in Nat
      BY <2>2, CacheAssumption DEF CountInv
    <3>2. Cardinality(pinned) \in Nat
      BY <3>1, FS_CardinalityType
    <3>3. IsFiniteSet(pinned') /\ Cardinality(pinned') = Cardinality(pinned) + 1
      BY <1>1, <1>7, <3>1, FS_AddElement
    <3> QED
      BY <2>1, <3>1, <3>2, <3>3
  <2>10. \A c, d \in Buf : blockno'[c] = blockno'[d] /\ blockno'[c] # None => c = d
    BY <1>1, <2>2 DEF CountInv
  <2>11. \A x \in pinned' : \E c \in Buf : blockno'[c] = x
    BY <1>1, <1>2, <2>2 DEF CountInv
  <2>12. CountInv'
    BY <2>8, <2>9, <2>10, <2>11 DEF CountInv
  <2> QED
    BY <1>4, <1>5, <2>3, <2>12 DEF CacheInv
<1> QED
  BY <1>4, <1>6, <1>7

\* The block has been written home, and its pin goes.
LEMMA WriteDoneKeeps ==
  ASSUME Inv, NEW p \in Proc, WriteDone(p)
  PROVE  CacheInv' /\ HolderMoves(p, "release")
<1> DEFINE b == th[p].b
           k == blockno[b]
<1>1. /\ th[p].pc = "writing" /\ UNCHANGED <<lru, blockno, slock, valid>>
      /\ th' = [th EXCEPT ![p] = [@ EXCEPT !.dirty = FALSE, !.pc = "release"]]
      /\ IF k \in pinned THEN refcnt' = [refcnt EXCEPT ![b] = @ - 1] /\ pinned' = pinned \ {k}
         ELSE UNCHANGED <<refcnt, pinned>>
  BY DEF WriteDone, At, Mine, Bunpin
<1>2. b \in Buf /\ k \in Block
  BY <1>1, MineIsBuf
<1>3. /\ th' \in [Proc -> Frames] /\ th'[p].pc = "release"
      /\ th'[p].b = th[p].b /\ th'[p].dirty = FALSE /\ \A q \in Proc : q # p => th'[q] = th[q]
  BY <1>1, MovesClean
<1>4. HolderMoves(p, "release")
  BY <1>1, <1>3, ValidMoves
<1>5. Stays /\ LockInv' /\ LruInv'
  BY <1>4, HolderKeeps
<1>6. CASE k \notin pinned
  <2>1. pinned' = pinned /\ refcnt' = refcnt
    BY <1>1, <1>6
  <2> QED
    BY <1>4, <2>1, HolderKeepsCache
<1>7. CASE k \in pinned
  <2>1. refcnt' = [refcnt EXCEPT ![b] = @ - 1] /\ pinned' = pinned \ {k}
    BY <1>1, <1>7
  <2>2. CountInv /\ refcnt \in [Buf -> Nat] /\ pinned \subseteq Block
    BY DEF Inv, CacheType
  <2>3. \A c \in Buf : c # b => blockno[c] # k
    BY <1>2, <2>2, NotNone DEF CountInv
  <2>4. \A c \in Buf : Pin(c)' = IF c = b THEN 0 ELSE Pin(c)
    BY <1>1, <2>1, <2>3 DEF Pin
  <2>5. Pin(b) = 1
    BY <1>7 DEF Pin
  <2>6. \A c \in Buf : Users(c)' = Users(c) /\ Cardinality(Users(c)) \in Nat
    BY <1>5, UsersKept, UsersFinite
  <2>7. \A c \in Buf : refcnt'[c] = Cardinality(Users(c)') + Pin(c)' /\ refcnt'[c] \in Nat
    <3> SUFFICES ASSUME NEW c \in Buf
                 PROVE  refcnt'[c] = Cardinality(Users(c)') + Pin(c)' /\ refcnt'[c] \in Nat
      OBVIOUS
    <3>1. refcnt[c] = Cardinality(Users(c)) + Pin(c) /\ refcnt[c] \in Nat
      BY <2>2 DEF CountInv
    <3>2. CASE c = b
      <4>1. refcnt'[c] = refcnt[c] - 1 /\ Pin(c)' = 0 /\ Pin(c) = 1
        BY <2>1, <2>2, <2>4, <2>5, <3>2
      <4> QED
        BY <2>6, <3>1, <4>1
    <3>3. CASE c # b
      <4>1. refcnt'[c] = refcnt[c] /\ Pin(c)' = Pin(c)
        BY <2>1, <2>2, <2>4, <3>3
      <4> QED
        BY <2>6, <3>1, <4>1
    <3> QED
      BY <3>2, <3>3
  <2>8. CacheType'
    <3>1. refcnt' \in [Buf -> Nat] /\ pinned' \subseteq Block
      <4>1. refcnt' = [c \in Buf |-> refcnt'[c]]
        BY <2>1, <2>2
      <4> QED
        BY <2>1, <2>2, <2>7, <4>1
    <3> QED
      BY <1>1, <1>3, <3>1 DEF Inv, CacheType, Frames, Labels
  <2>9. IsFiniteSet(pinned') /\ Cardinality(pinned') <= MaxPin
    <3>1. IsFiniteSet(pinned) /\ MaxPin \in Nat /\ Cardinality(pinned) <= MaxPin
      BY <2>2, CacheAssumption DEF CountInv
    <3>2. Cardinality(pinned) \in Nat
      BY <3>1, FS_CardinalityType
    <3>3. IsFiniteSet(pinned') /\ Cardinality(pinned') = Cardinality(pinned) - 1
      BY <1>7, <2>1, <3>1, FS_RemoveElement
    <3> QED
      BY <3>1, <3>2, <3>3
  <2>10. \A c, d \in Buf : blockno'[c] = blockno'[d] /\ blockno'[c] # None => c = d
    BY <1>1, <2>2 DEF CountInv
  <2>11. \A x \in pinned' : \E c \in Buf : blockno'[c] = x
    BY <1>1, <2>1, <2>2 DEF CountInv
  <2>12. CountInv'
    BY <2>7, <2>9, <2>10, <2>11 DEF CountInv
  <2> QED
    BY <1>4, <1>5, <2>8, <2>12 DEF CacheInv
<1> QED
  BY <1>4, <1>6, <1>7

\* The lock is given up: nobody has it, and who slept for it tries again.
LEMMA UnlockMoves ==
  ASSUME Inv, NEW p \in Proc, Unlock(p)
  PROVE  /\ th[p].pc \in {"hold", "release"} /\ ~th[p].dirty /\ Holds(p)
         /\ th' \in [Proc -> Frames] /\ th'[p].pc = "drop"
         /\ \A q \in Proc : th'[q].b = th[q].b /\ th'[q].dirty = th[q].dirty
         /\ \A q \in Proc : q # p => \/ th'[q].pc = th[q].pc
                                     \/ th[q].pc = "asleep" /\ th'[q].pc = "lock"
<1>1. th[p].pc \in {"hold", "release"} /\ ~th[p].dirty /\ Holds(p)
  BY DEF Unlock, At, Holds, Inv, LockInv
<1>2. th \in [Proc -> Frames]
  BY Typed
<1>3. \A q \in Proc : th'[q] = IF q = p THEN [th[p] EXCEPT !.pc = "drop"]
                               ELSE IF th[q].pc = "asleep" /\ th[q].b = th[p].b
                                 THEN [th[q] EXCEPT !.pc = "lock"] ELSE th[q]
  BY DEF Unlock, At, Mine
<1>4. th' = [q \in Proc |-> th'[q]]
  BY DEF Unlock
<1>5. ASSUME NEW q \in Proc
      PROVE  /\ th'[q] \in Frames /\ th'[q].b = th[q].b /\ th'[q].dirty = th[q].dirty
             /\ q = p => th'[q].pc = "drop"
             /\ q # p => th'[q].pc = th[q].pc \/ (th[q].pc = "asleep" /\ th'[q].pc = "lock")
  <2>1. /\ [th[p] EXCEPT !.pc = "drop"] \in Frames /\ [th[q] EXCEPT !.pc = "lock"] \in Frames
        /\ th[q] \in Frames
    BY <1>2 DEF Frames, Labels
  <2> QED
    BY <1>2, <1>3, <2>1 DEF Frames
<1> QED
  BY <1>1, <1>4, <1>5

\* The first half of brelse: releasesleep.
LEMMA UnlockKeeps ==
  ASSUME Inv, NEW p \in Proc, Unlock(p)
  PROVE  CacheInv'
<1> DEFINE b == th[p].b
<1>1. /\ UNCHANGED <<lru, blockno, valid, refcnt, pinned>> /\ slock' = [slock EXCEPT ![b] = None]
  BY DEF Unlock, Mine
<1>2. /\ th[p].pc \in {"hold", "release"} /\ ~th[p].dirty /\ Holds(p)
      /\ th' \in [Proc -> Frames] /\ th'[p].pc = "drop"
      /\ \A q \in Proc : th'[q].b = th[q].b /\ th'[q].dirty = th[q].dirty
      /\ \A q \in Proc : q # p => \/ th'[q].pc = th[q].pc
                                  \/ th[q].pc = "asleep" /\ th'[q].pc = "lock"
  BY UnlockMoves
<1>3. b \in Buf /\ slock[b] = p /\ slock \in [Buf -> Proc \union {None}]
  BY <1>2, MineIsBuf DEF Inv, LockInv, CacheType
<1>4. LockInv /\ LruInv /\ CountInv
  BY DEF Inv
<1> HIDE DEF b
<1>5. slock' \in [Buf -> Proc \union {None}]
  BY <1>1, <1>3
<1>6. CacheType'
  BY <1>1, <1>2, <1>5, CacheTypeKept
<1>7. Stays
  BY <1>2 DEF Stays
<1>8. CountInv' /\ LruInv'
  BY <1>1, <1>4, <1>7, CountKept DEF LruInv
<1>9. \A q \in Proc : Holds(q)' <=> q # p /\ Holds(q)
  BY <1>2 DEF Holds
<1>10. \A q \in Proc : q # p /\ Holds(q) => th[q].b # b
  BY <1>3, <1>4 DEF LockInv
<1>11. \A q \in Proc : Holds(q)' => slock'[th'[q].b] = q
  <2> SUFFICES ASSUME NEW q \in Proc, Holds(q)' PROVE slock'[th'[q].b] = q
    OBVIOUS
  <2>1. Holds(q) /\ th[q].b # b /\ th'[q].b = th[q].b
    BY <1>2, <1>9, <1>10
  <2>2. slock[th[q].b] = q /\ th[q].b \in Buf
    BY <1>4, <2>1 DEF LockInv, Holds
  <2> QED
    BY <1>1, <1>3, <2>1, <2>2
<1>12. \A c \in Buf : slock'[c] # None => Holds(slock[c])' /\ th'[slock'[c]].b = c
  <2> SUFFICES ASSUME NEW c \in Buf, slock'[c] # None
               PROVE  Holds(slock[c])' /\ th'[slock'[c]].b = c
    OBVIOUS
  <2>1. slock'[c] = slock[c] /\ c # b /\ slock[c] \in Proc
    BY <1>1, <1>3
  <2>2. Holds(slock[c]) /\ th[slock[c]].b = c
    BY <1>4, <2>1, NotNone DEF LockInv
  <2>3. th'[slock[c]].b = c /\ slock[c] # p
    BY <1>2, <2>1, <2>2 DEF b
  <2>4. th'[slock[c]].pc = th[slock[c]].pc
    BY <1>2, <2>1, <2>2, <2>3 DEF Holds
  <2> QED
    BY <2>1, <2>2, <2>3, <2>4 DEF Holds
<1>13. \A q \in Proc : th'[q].pc = "idle" => th'[q].b = None
  BY <1>2, <1>4 DEF LockInv
<1>14. \A q \in Proc : th'[q].pc # "idle" => th'[q].b \in Buf /\ blockno'[th'[q].b] \in Block
  BY <1>1, <1>2, <1>4 DEF LockInv
<1>15. \A q \in Proc : th'[q].dirty => th'[q].pc \in {"hold", "writing"}
  BY <1>2, <1>4 DEF LockInv
<1>16. \A q \in Proc : th'[q].pc \in {"hold", "writing", "release"} => valid'[th'[q].b]
  BY <1>1, <1>2, <1>4 DEF LockInv
<1>17. \A q \in Proc : th'[q].pc = "reading" => ~valid'[th'[q].b]
  BY <1>1, <1>2, <1>4 DEF LockInv
<1>18. LockInv'
  BY <1>11, <1>12, <1>13, <1>14, <1>15, <1>16, <1>17 DEF LockInv
<1> QED
  BY <1>6, <1>8, <1>18 DEF CacheInv

\* A buffer is put in front: the list still has every buffer, and none is added.
LEMMA FrontKeeps ==
  ASSUME LruInv, IsFiniteSet(Buf), NEW x \in DOMAIN lru, lru' = <<lru[x]>> \o RemoveAt(lru, x)
  PROVE  LruInv'
<1> DEFINE n == Len(lru)
           t == RemoveAt(lru, x)
           h == <<lru[x]>>
<1>1. lru \in Seq(Buf) /\ n \in Nat /\ n = Cardinality(Buf) /\ DOMAIN lru = 1 .. n /\ x \in 1 .. n
  BY LenProperties DEF LruInv
<1>2. lru[x] \in Buf
  BY <1>1, ElementOfSeq
<1>3. /\ t \in Seq(Buf) /\ Len(t) = n - 1
      /\ \A y \in 1 .. n - 1 : t[y] = IF y < x THEN lru[y] ELSE lru[y + 1]
  BY <1>1, Removed
<1>4. h \in Seq(Buf) /\ Len(h) = 1 /\ h[1] = lru[x]
  BY <1>2
<1> HIDE DEF t, h
<1>5. /\ h \o t \in Seq(Buf) /\ Len(h \o t) = n
      /\ \A y \in 1 .. n : (h \o t)[y] = IF y <= 1 THEN h[y] ELSE t[y - 1]
  <2>1. /\ h \o t \in Seq(Buf) /\ Len(h \o t) = Len(h) + Len(t)
        /\ \A y \in 1 .. Len(h) + Len(t) : (h \o t)[y] = IF y <= Len(h) THEN h[y] ELSE t[y - Len(h)]
    BY <1>3, <1>4, ConcatProperties
  <2> HIDE DEF n
  <2> QED
    BY <1>1, <1>3, <1>4, <2>1
<1>6. lru' = h \o t
  BY DEF h, t
<1>7. DOMAIN lru' = 1 .. n
  BY <1>1, <1>5, <1>6, LenProperties
<1>8. \A c \in Buf : \E y \in 1 .. n : lru[y] = c
  BY <1>1 DEF LruInv
<1> HIDE DEF n
<1>9. ASSUME NEW c \in Buf PROVE \E y \in 1 .. n : (h \o t)[y] = c
  <2>1. PICK y \in 1 .. n : lru[y] = c
    BY <1>8
  <2>2. CASE y = x
    <3>1. 1 \in 1 .. n /\ (h \o t)[1] = lru[x]
      BY <1>1, <1>4, <1>5
    <3> QED
      BY <2>1, <2>2, <3>1
  <2>3. CASE y < x
    <3>1. y + 1 \in 1 .. n /\ ~(y + 1 <= 1) /\ (y + 1) - 1 = y /\ y \in 1 .. n - 1
      BY <1>1, <2>3
    <3>2. (h \o t)[y + 1] = t[y] /\ t[y] = lru[y]
      BY <1>3, <1>5, <2>3, <3>1
    <3> QED
      BY <2>1, <3>1, <3>2
  <2>4. CASE y > x
    <3>1. ~(y <= 1) /\ y - 1 \in 1 .. n - 1 /\ ~(y - 1 < x) /\ (y - 1) + 1 = y
      BY <1>1, <2>4
    <3>2. (h \o t)[y] = t[y - 1] /\ t[y - 1] = lru[y]
      BY <1>3, <1>5, <3>1
    <3> QED
      BY <2>1, <3>2
  <2>5. y = x \/ y < x \/ y > x
    BY <1>1
  <2> QED
    BY <2>2, <2>3, <2>4, <2>5
<1> QED
  BY <1>1, <1>5, <1>6, <1>7, <1>9 DEF LruInv

\* A reference goes, and the buffer with the last one to the front.
LEMMA DropKeeps ==
  ASSUME Inv, NEW p \in Proc, Drop(p)
  PROVE  CacheInv'
<1>0. PICK b \in Buf : b = th[p].b
  BY MineIsBuf DEF Drop, At
<1>1. /\ th[p].pc = "drop" /\ refcnt' = [refcnt EXCEPT ![b] = @ - 1]
      /\ th' = [th EXCEPT ![p] = Frame("idle", None)] /\ UNCHANGED <<blockno, valid, slock, pinned>>
  BY <1>0 DEF Drop, At, Mine
<1>2. b \in Buf /\ LockInv /\ CountInv /\ LruInv
  BY <1>1, MineIsBuf DEF Inv
<1>3. /\ th' \in [Proc -> Frames] /\ th'[p].pc = "idle" /\ th'[p].b = None /\ th'[p].dirty = FALSE
      /\ \A q \in Proc : q # p => th'[q] = th[q]
  BY <1>1, MovesFrame DEF Labels
<1>4. LruInv'
  <2>1. PICK x \in DOMAIN lru :
          lru[x] = b /\ lru' = IF refcnt[b] = 1 THEN <<b>> \o RemoveAt(lru, x) ELSE lru
    BY <1>0 DEF Drop, Mine
  <2>2. CASE refcnt[b] = 1
    BY <1>2, <2>1, <2>2, FrontKeeps, CacheAssumption
  <2>3. CASE refcnt[b] # 1
    BY <1>2, <2>1, <2>3 DEF LruInv
  <2> QED
    BY <2>2, <2>3
<1>5. refcnt \in [Buf -> Nat] /\ slock \in [Buf -> Proc \union {None}]
  BY DEF Inv, CacheType
<1>6. Users(b)' = Users(b) \ {p} /\ p \in Users(b)
  BY <1>0, <1>1, <1>3 DEF Users, At, Mine
<1>7. \A c \in Buf : c # b => Users(c)' = Users(c)
  BY <1>0, <1>1, <1>2, <1>3, NotNone DEF Users, At, Mine
<1>8. \A c \in Buf : Pin(c)' = Pin(c) /\ Pin(c) \in Nat
  BY <1>1 DEF Pin
<1>9. Cardinality(Users(b) \ {p}) = Cardinality(Users(b)) - 1 /\ Cardinality(Users(b)) \in Nat
  BY <1>6, UsersFinite, FS_RemoveElement
<1>10. \A c \in Buf : refcnt'[c] = Cardinality(Users(c)') + Pin(c)'
  <2> SUFFICES ASSUME NEW c \in Buf PROVE refcnt'[c] = Cardinality(Users(c)') + Pin(c)'
    OBVIOUS
  <2>1. refcnt[c] = Cardinality(Users(c)) + Pin(c) /\ Cardinality(Users(c)) \in Nat
    BY <1>2, UsersFinite DEF CountInv
  <2>2. CASE c = b
    <3>1. refcnt'[c] = refcnt[c] - 1
      BY <1>1, <1>5, <2>2
    <3> QED
      BY <1>6, <1>8, <1>9, <2>1, <2>2, <3>1
  <2>3. CASE c # b
    <3>1. refcnt'[c] = refcnt[c]
      BY <1>1, <1>5, <2>3
    <3> QED
      BY <1>7, <1>8, <2>1, <2>3, <3>1
  <2> QED
    BY <2>2, <2>3
<1>11. CountInv'
  BY <1>1, <1>2, <1>10 DEF CountInv
<1>12. refcnt' \in [Buf -> Nat]
  <2>1. Cardinality(Users(b)) - 1 \in Nat
    <3>1. IsFiniteSet(Users(b) \ {p})
      BY UsersFinite, FS_RemoveElement
    <3> QED
      BY <1>9, <3>1, FS_CardinalityType
  <2>2. refcnt[b] = Cardinality(Users(b)) + Pin(b)
    BY <1>2 DEF CountInv
  <2>3. refcnt[b] - 1 \in Nat
    BY <1>2, <1>8, <1>9, <2>1, <2>2
  <2> QED
    BY <1>1, <1>2, <1>5, <2>3
<1>13. CacheType'
  BY <1>1, <1>3, <1>12 DEF Inv, CacheType, Frames, Labels
<1>14. LockInv'
  <2>1. \A q \in Proc : Holds(q)' <=> Holds(q)
    BY <1>1, <1>3 DEF Holds
  <2>2. \A q \in Proc : Holds(q) => q # p /\ th'[q] = th[q]
    BY <1>1, <1>3 DEF Holds
  <2>3. \A q \in Proc : Holds(q)' => slock'[th'[q].b] = q
    BY <1>1, <1>2, <2>1, <2>2 DEF LockInv
  <2>4. \A c \in Buf : slock'[c] # None => Holds(slock[c])' /\ th'[slock'[c]].b = c
    <3> SUFFICES ASSUME NEW c \in Buf, slock[c] # None
                 PROVE  Holds(slock[c])' /\ th'[slock[c]].b = c
      BY <1>1
    <3>1. Holds(slock[c]) /\ th[slock[c]].b = c /\ slock[c] \in Proc
      BY <1>2, <1>5 DEF LockInv
    <3>2. th'[slock[c]] = th[slock[c]] /\ slock'[c] = slock[c]
      BY <1>1, <2>2, <3>1
    <3> QED
      BY <3>1, <3>2 DEF Holds
  <2>5. \A q \in Proc : th'[q].pc = "idle" => th'[q].b = None
    BY <1>2, <1>3 DEF LockInv
  <2>6. \A q \in Proc : th'[q].pc # "idle" => th'[q].b \in Buf /\ blockno'[th'[q].b] \in Block
    BY <1>1, <1>2, <1>3 DEF LockInv
  <2>7. \A q \in Proc : th'[q].dirty => th'[q].pc \in {"hold", "writing"}
    BY <1>2, <1>3 DEF LockInv
  <2>8. \A q \in Proc : th'[q].pc \in {"hold", "writing", "release"} => valid'[th'[q].b]
    BY <1>1, <1>2, <1>3 DEF LockInv
  <2>9. \A q \in Proc : th'[q].pc = "reading" => ~valid'[th'[q].b]
    BY <1>1, <1>2, <1>3 DEF LockInv
  <2> QED
    BY <2>3, <2>4, <2>5, <2>6, <2>7, <2>8, <2>9 DEF LockInv
<1> QED
  BY <1>4, <1>11, <1>13, <1>14 DEF CacheInv

\* A process that begins to use a buffer waits for its lock, and holds nothing yet.
LEMMA BeginKeepsLocks ==
  ASSUME Inv, NEW p \in Proc, th[p].pc = "idle", NEW b \in Buf,
         th' = [th EXCEPT ![p] = Frame("lock", b)], slock' = slock,
         blockno' \in [Buf -> Block \union {None}], blockno'[b] \in Block,
         \A q \in Proc : th[q].pc # "idle" =>
            blockno'[th[q].b] = blockno[th[q].b] /\ valid'[th[q].b] = valid[th[q].b]
  PROVE  LockInv' /\ th' \in [Proc -> Frames]
<1>1. /\ th' \in [Proc -> Frames] /\ th'[p].pc = "lock" /\ th'[p].b = b /\ th'[p].dirty = FALSE
      /\ \A q \in Proc : q # p => th'[q] = th[q]
  BY MovesFrame DEF Labels
<1>2. LockInv /\ slock \in [Buf -> Proc \union {None}]
  BY DEF Inv, CacheType
<1>3. \A q \in Proc : Holds(q)' <=> Holds(q)
  BY <1>1 DEF Holds
<1>4. \A q \in Proc : Holds(q) => q # p /\ th'[q] = th[q]
  BY <1>1 DEF Holds
<1>5. \A q \in Proc : Holds(q)' => slock'[th'[q].b] = q
  BY <1>2, <1>3, <1>4 DEF LockInv
<1>6. \A c \in Buf : slock'[c] # None => Holds(slock[c])' /\ th'[slock'[c]].b = c
  <2> SUFFICES ASSUME NEW c \in Buf, slock[c] # None
               PROVE  Holds(slock[c])' /\ th'[slock[c]].b = c
    OBVIOUS
  <2>1. Holds(slock[c]) /\ th[slock[c]].b = c /\ slock[c] \in Proc
    BY <1>2 DEF LockInv
  <2>2. th'[slock[c]] = th[slock[c]] /\ slock'[c] = slock[c]
    BY <1>4, <2>1
  <2> QED
    BY <2>1, <2>2 DEF Holds
<1>7. \A q \in Proc : th'[q].pc = "idle" => th'[q].b = None
  BY <1>1, <1>2 DEF LockInv
<1>8. \A q \in Proc : th'[q].pc # "idle" => th'[q].b \in Buf /\ blockno'[th'[q].b] \in Block
  BY <1>1, <1>2 DEF LockInv
<1>9. \A q \in Proc : th'[q].dirty => th'[q].pc \in {"hold", "writing"}
  BY <1>1, <1>2 DEF LockInv
<1>10. \A q \in Proc : th'[q].pc \in {"hold", "writing", "release"} => valid'[th'[q].b]
  BY <1>1, <1>2 DEF LockInv
<1>11. \A q \in Proc : th'[q].pc = "reading" => ~valid'[th'[q].b]
  BY <1>1, <1>2 DEF LockInv
<1> QED
  BY <1>1, <1>5, <1>6, <1>7, <1>8, <1>9, <1>10, <1>11 DEF LockInv

\* Its users are one more, and the other buffers' stay.
LEMMA BeginUsers ==
  ASSUME Inv, NEW p \in Proc, th[p].pc = "idle", NEW b \in Buf,
         th' = [th EXCEPT ![p] = Frame("lock", b)]
  PROVE  /\ Users(b)' = Users(b) \union {p} /\ Cardinality(Users(b)') = Cardinality(Users(b)) + 1
         /\ \A c \in Buf : c # b => Users(c)' = Users(c)
<1>1. /\ th'[p].pc = "lock" /\ th'[p].b = b /\ \A q \in Proc : q # p => th'[q] = th[q]
  BY MovesFrame DEF Labels
<1>2. Users(b)' = Users(b) \union {p} /\ p \notin Users(b)
  BY <1>1 DEF Users, At, Mine
<1>3. \A c \in Buf : c # b => Users(c)' = Users(c)
  BY <1>1 DEF Users, At, Mine
<1>4. Cardinality(Users(b)') = Cardinality(Users(b)) + 1
  BY <1>2, UsersFinite, FS_AddElement
<1> QED
  BY <1>2, <1>3, <1>4

\* bget finds the block in a buffer.
LEMMA BgetHitKeeps ==
  ASSUME Inv, NEW p \in Proc, NEW k \in Block, BgetHit(p, k)
  PROVE  CacheInv'
<1>1. /\ th[p].pc = "idle" /\ UNCHANGED <<lru, blockno, valid, slock, pinned>>
  BY DEF BgetHit, Asked, At
<1>2. PICK b \in Buf : /\ blockno[b] = k /\ refcnt' = [refcnt EXCEPT ![b] = @ + 1]
                       /\ th' = [th EXCEPT ![p] = Frame("lock", b)]
  BY DEF BgetHit
<1>3. CacheType /\ CountInv /\ LruInv /\ blockno \in [Buf -> Block \union {None}]
  BY DEF Inv, CacheType
<1>4. LockInv' /\ th' \in [Proc -> Frames]
  BY <1>1, <1>2, <1>3, BeginKeepsLocks
<1>5. refcnt \in [Buf -> Nat] /\ refcnt' \in [Buf -> Nat]
  BY <1>2, <1>3 DEF CacheType
<1>6. CacheType'
  BY <1>1, <1>3, <1>4, <1>5 DEF CacheType, Frames, Labels
<1>7. /\ Users(b)' = Users(b) \union {p} /\ Cardinality(Users(b)') = Cardinality(Users(b)) + 1
      /\ \A c \in Buf : c # b => Users(c)' = Users(c)
  BY <1>1, <1>2, BeginUsers
<1>8. \A c \in Buf : Pin(c)' = Pin(c) /\ Pin(c) \in Nat
  BY <1>1 DEF Pin
<1>9. \A c \in Buf : refcnt'[c] = Cardinality(Users(c)') + Pin(c)'
  <2> SUFFICES ASSUME NEW c \in Buf PROVE refcnt'[c] = Cardinality(Users(c)') + Pin(c)'
    OBVIOUS
  <2>1. refcnt[c] = Cardinality(Users(c)) + Pin(c) /\ Cardinality(Users(c)) \in Nat
    BY <1>3, UsersFinite DEF CountInv
  <2>2. CASE c = b
    <3>1. refcnt'[c] = refcnt[c] + 1
      BY <1>2, <1>5, <2>2
    <3>2. Cardinality(Users(c)') = Cardinality(Users(c)) + 1
      BY <1>7, <2>2
    <3> QED
      BY <1>8, <2>1, <3>1, <3>2
  <2>3. CASE c # b
    <3>1. refcnt'[c] = refcnt[c]
      BY <1>2, <1>5, <2>3
    <3> QED
      BY <1>7, <1>8, <2>1, <2>3, <3>1
  <2> QED
    BY <2>2, <2>3
<1>10. CountInv' /\ LruInv'
  BY <1>1, <1>3, <1>9 DEF CountInv, LruInv
<1> QED
  BY <1>4, <1>6, <1>10 DEF CacheInv

\* The buffer that is evicted: nobody uses it, and it is not pinned.
LEMMA Evicted ==
  ASSUME Inv, NEW p \in Proc, NEW k \in Block, BgetMiss(p, k)
  PROVE  \E b \in Buf :
           /\ refcnt[b] = 0 /\ Users(b) = {} /\ blockno[b] \notin pinned
           /\ valid' = [valid EXCEPT ![b] = FALSE]
           /\ blockno' = [blockno EXCEPT ![b] = k] /\ refcnt' = [refcnt EXCEPT ![b] = 1]
           /\ th' = [th EXCEPT ![p] = Frame("lock", b)]
<1>1. Unused # {} /\ lru \in Seq(Buf)
  BY DEF BgetMiss, Inv, LruInv
<1>2. Len(lru) \in Nat /\ DOMAIN lru = 1 .. Len(lru)
  BY <1>1, LenProperties
<1>3. Unused \in SUBSET (1 .. Len(lru))
  BY <1>2 DEF Unused
<1>4. Max(Unused) \in Unused
  BY <1>1, <1>2, <1>3, MaxIsMember
<1>5. PICK b \in Buf : b = lru[Max(Unused)]
  BY <1>1, <1>3, <1>4, ElementOfSeq
<1>6. refcnt[b] = 0
  BY <1>4, <1>5 DEF Unused
<1>7. refcnt[b] = Cardinality(Users(b)) + Pin(b) /\ Cardinality(Users(b)) \in Nat /\ Pin(b) \in Nat
  BY UsersFinite DEF Inv, CountInv, Pin
<1>8. Cardinality(Users(b)) = 0 /\ Pin(b) = 0
  BY <1>6, <1>7
<1>9. Users(b) = {} /\ blockno[b] \notin pinned
  BY <1>8, UsersFinite, FS_EmptySet DEF Pin
<1> QED
  BY <1>5, <1>6, <1>9 DEF BgetMiss

\* bget takes the buffer that was used longest ago.
LEMMA BgetMissKeeps ==
  ASSUME Inv, NEW p \in Proc, NEW k \in Block, BgetMiss(p, k)
  PROVE  CacheInv'
<1>1. /\ th[p].pc = "idle" /\ UNCHANGED <<lru, slock, pinned>> /\ \A c \in Buf : blockno[c] # k
  BY DEF BgetMiss, Asked, At
<1>2. PICK b \in Buf :
        /\ refcnt[b] = 0 /\ Users(b) = {} /\ blockno[b] \notin pinned
        /\ valid' = [valid EXCEPT ![b] = FALSE]
        /\ blockno' = [blockno EXCEPT ![b] = k] /\ refcnt' = [refcnt EXCEPT ![b] = 1]
        /\ th' = [th EXCEPT ![p] = Frame("lock", b)]
  BY Evicted
<1>3. /\ CacheType /\ CountInv /\ LruInv /\ blockno \in [Buf -> Block \union {None}]
      /\ valid \in [Buf -> BOOLEAN] /\ refcnt \in [Buf -> Nat]
  BY DEF Inv, CacheType
<1>4. /\ blockno' \in [Buf -> Block \union {None}] /\ blockno'[b] = k
      /\ \A c \in Buf : c # b => blockno'[c] = blockno[c]
      /\ valid' \in [Buf -> BOOLEAN] /\ \A c \in Buf : c # b => valid'[c] = valid[c]
      /\ refcnt' \in [Buf -> Nat] /\ refcnt'[b] = 1
      /\ \A c \in Buf : c # b => refcnt'[c] = refcnt[c]
  BY <1>2, <1>3
<1>5. \A q \in Proc : th[q].pc # "idle" =>
        blockno'[th[q].b] = blockno[th[q].b] /\ valid'[th[q].b] = valid[th[q].b]
  <2>1. \A q \in Proc : th[q].pc # "idle" => th[q].b # b /\ th[q].b \in Buf
    BY <1>2, MineIsBuf DEF Users, At, Mine
  <2> QED
    BY <1>4, <2>1
<1>6. LockInv' /\ th' \in [Proc -> Frames]
  BY <1>1, <1>2, <1>4, <1>5, BeginKeepsLocks
<1>7. CacheType'
  BY <1>1, <1>3, <1>4, <1>6 DEF CacheType, Frames, Labels
<1>8. /\ Cardinality(Users(b)') = Cardinality(Users(b)) + 1
      /\ \A c \in Buf : c # b => Users(c)' = Users(c)
  BY <1>1, <1>2, BeginUsers
<1>9. k \notin pinned
  BY <1>1, <1>3 DEF CountInv
<1>10. Pin(b)' = 0 /\ \A c \in Buf : c # b => Pin(c)' = Pin(c)
  BY <1>1, <1>4, <1>9 DEF Pin
<1>11. \A c \in Buf : refcnt'[c] = Cardinality(Users(c)') + Pin(c)'
  <2> SUFFICES ASSUME NEW c \in Buf PROVE refcnt'[c] = Cardinality(Users(c)') + Pin(c)'
    OBVIOUS
  <2>1. refcnt[c] = Cardinality(Users(c)) + Pin(c)
    BY <1>3 DEF CountInv
  <2>2. CASE c = b
    <3>1. Cardinality(Users(b)) = 0
      BY <1>2, FS_EmptySet
    <3> QED
      BY <1>4, <1>8, <1>10, <2>2, <3>1
  <2>3. CASE c # b
    BY <1>4, <1>8, <1>10, <2>1, <2>3
  <2> QED
    BY <2>2, <2>3
<1>12. \A c, d \in Buf : blockno'[c] = blockno'[d] /\ blockno'[c] # None => c = d
  BY <1>1, <1>3, <1>4 DEF CountInv
<1>13. \A x \in pinned' : \E c \in Buf : blockno'[c] = x
  BY <1>1, <1>2, <1>3, <1>4 DEF CountInv
<1>14. CountInv' /\ LruInv'
  BY <1>1, <1>3, <1>11, <1>12, <1>13 DEF CountInv, LruInv
<1> QED
  BY <1>6, <1>7, <1>14 DEF CacheInv

\* The steps that leave the cache alone.
LEMMA CacheStays ==
  ASSUME Inv, UNCHANGED <<lru, blockno, valid, refcnt, slock, pinned, th>>
  PROVE  CacheInv'
<1>1. UNCHANGED <<lru, blockno, valid, refcnt, slock, pinned, th>>
  OBVIOUS
<1>2. Stays /\ CacheType /\ LockInv /\ CountInv /\ LruInv
  BY <1>1 DEF Stays, Inv
<1>3. CountInv'
  BY <1>1, <1>2, CountKept
<1>4. CacheType' /\ LruInv'
  BY <1>1, <1>2 DEF CacheType, LruInv
<1>5. LockInv'
  BY <1>1, <1>2 DEF LockInv, Holds
<1> QED
  BY <1>3, <1>4, <1>5 DEF CacheInv

\* Every step keeps the part of the invariant about the cache.
LEMMA CacheStep ==
  ASSUME Inv, Run
  PROVE  CacheInv'
<1>1. ASSUME NEW p \in Proc, CacheOnly(p) PROVE CacheInv'
  <2>1. CASE Call(p)
    BY <2>1, Wanted, BgetHitKeeps, BgetMissKeeps DEF Call
  <2>2. CASE LockSleep(p)
    BY <2>2, PauseKeeps DEF LockSleep, At
  <2> QED
    BY <1>1, <2>1, <2>2, ReadDoneKeeps, LogWriteKeeps, WriteDoneKeeps, UnlockKeeps, DropKeeps
       DEF CacheOnly
<1>2. ASSUME NEW p \in Proc, Kill(p) PROVE CacheInv'
  <2>1. CASE At(p, "asleep") /\ To(p, "lock")
    BY <1>2, <2>1, PauseKeeps DEF Kill, At
  <2>2. CASE UNCHANGED th
    <3>1. UNCHANGED <<lru, blockno, valid, refcnt, slock, pinned, th>>
      BY <1>2, <2>2 DEF Kill
    <3>2. Stays /\ CacheType /\ LockInv /\ CountInv /\ LruInv
      BY <3>1 DEF Stays, Inv
    <3>3. CountInv'
      BY <3>1, <3>2, CountKept
    <3>4. CacheType' /\ LruInv'
      BY <3>1, <3>2 DEF CacheType, LruInv
    <3>5. LockInv'
      BY <3>1, <3>2 DEF LockInv, Holds
    <3> QED
      BY <3>3, <3>4, <3>5 DEF CacheInv
  <2> QED
    BY <1>2, <2>1, <2>2 DEF Kill
<1>3. CASE UNCHANGED cache
  BY <1>3, CacheStays DEF cache
<1> QED
  BY <1>1, <1>2, <1>3, Steps, LockBufKeeps, BwriteKeeps, ModifyKeeps

-----------------------------------------------------------------------------
(* The calls, and the contents. *)

\* The calls that go on are the same.
CallsStay ==
  \A q \in Proc : rw'[q].pc # "out" =>
    /\ rw[q].pc # "out" /\ rw'[q].b = rw[q].b /\ rw'[q].w = rw[q].w /\ rw'[q].k = rw[q].k
    /\ th'[q].pc = th[q].pc /\ th'[q].b = th[q].b /\ blockno'[th[q].b] = blockno[th[q].b]

\* Then each call still serves the buffer of its process.
LEMMA CallsKept ==
  ASSUME CallInv, CallsStay
  PROVE  CallInv'
BY DEF CallInv, CallsStay

\* The contents stay, and nobody's request is carried out.
StoreStays ==
  /\ UNCHANGED <<image, data, valid, blockno, pinned>>
  /\ \A q \in Proc : th[q].dirty => th'[q].dirty /\ th'[q].b = th[q].b
  /\ \A q \in Proc : Answered(q)' => Answered(q) /\ th'[q].b = th[q].b

\* Then what is known of contents stays.
LEMMA StoreKept ==
  ASSUME StoreInv, StoreStays
  PROVE  StoreInv'
<1>1. \A b \in Buf : valid'[b] => blockno'[b] \in Block
  BY DEF StoreInv, StoreStays
<1>2. \A b \in Buf : valid'[b] /\ data'[b] # image'[blockno'[b]] =>
        blockno'[b] \in pinned' \/ \E p \in Proc : th'[p].b = b /\ th'[p].dirty
  BY DEF StoreInv, StoreStays
<1>3. \A p \in Proc : Answered(p)' => data'[th'[p].b] = image'[blockno'[th'[p].b]]
  BY DEF StoreInv, StoreStays
<1> QED
  BY <1>1, <1>2, <1>3 DEF StoreInv

\* Two processes at a request are at two buffers.
LEMMA HoldersApart ==
  ASSUME Inv, NEW p \in Proc, NEW q \in Proc, p # q, Holds(p), Holds(q)
  PROVE  th[p].b # th[q].b
BY DEF Inv, LockInv

\* The steps of who only waits, is woken, or has taken an answer.
LEMMA WokenStore ==
  ASSUME Inv, Woken, UNCHANGED <<image, data, avail, th, blockno, valid, pinned>>
  PROVE  CallInv' /\ StoreInv'
<1>1. CallInv /\ StoreInv
  BY DEF Inv
<1>2. CallsStay
  BY DEF CallsStay, Woken
<1>3. Queued' = Queued
  BY DEF Queued
<1>4. \A q \in Proc : Answered(q)' => Answered(q)
  BY <1>3 DEF Answered, Woken
<1>5. StoreStays
  BY <1>4 DEF StoreStays
<1> QED
  BY <1>1, <1>2, <1>5, CallsKept, StoreKept

\* Queueing a request changes no contents.
LEMMA RwStartStore ==
  ASSUME Inv, NEW p \in Proc, RwStart(p), UNCHANGED cache
  PROVE  CallInv' /\ StoreInv'
<1>1. PICK i, j, l \in Desc : Started(p, i, j, l) /\ Formatted(p, i, j, l)
  BY StartValues
<1>2. UNCHANGED <<image, data, th, blockno, valid, pinned>>
  BY DEF RwStart, cache
<1>3. /\ rw[p].pc = "alloc" /\ rw'[p].pc = "wait" /\ rw'[p].idx = i
      /\ rw'[p].b = rw[p].b /\ rw'[p].w = rw[p].w /\ rw'[p].k = rw[p].k
      /\ \A q \in Proc : q # p => rw'[q] = rw[q]
  BY <1>1 DEF Formatted
<1>4. Queued' = Queued \union {i}
  <2>1. avail \in Seq(Desc) /\ avail' = Append(avail, i)
    BY <1>1 DEF Inv, RingType, Started
  <2> QED
    BY <2>1, AppendedElems DEF Queued
<1>5. \A q \in Proc : Answered(q)' => Answered(q)
  BY <1>2, <1>3, <1>4 DEF Answered, Waiting
<1>6. CallsStay
  BY <1>2, <1>3 DEF CallsStay
<1>7. StoreStays
  BY <1>2, <1>5 DEF StoreStays
<1> QED
  BY <1>6, <1>7, CallsKept, StoreKept DEF Inv

\* A call that returns: its request has been carried out.
LEMMA RwDoneStore ==
  ASSUME Inv, NEW p \in Proc, RwDone(p), UNCHANGED cache
  PROVE  CallInv' /\ StoreInv'
<1>1. UNCHANGED <<image, data, avail, th, blockno, valid, pinned>> /\ ~onDisk[rw[p].b]
  BY DEF RwDone, cache, device
<1>2. /\ rw[p].pc = "check" /\ Waiting(p) /\ rw'[p].pc = "out"
      /\ \A q \in Proc : q # p =>
           /\ rw'[q].b = rw[q].b /\ rw'[q].w = rw[q].w /\ rw'[q].k = rw[q].k
           /\ rw'[q].idx = rw[q].idx
           /\ rw'[q].pc \in {"wait", "check"} <=> rw[q].pc \in {"wait", "check"}
           /\ rw'[q].pc = "out" <=> rw[q].pc = "out"
  BY DoneValues
<1>3. Queued' = Queued
  BY <1>1 DEF Queued
<1>4. Answered(p)
  <2>1. rw[p].idx \notin Queued
    BY <1>1, <1>2 DEF Inv, RingInv
  <2>2. th[p].pc \in {"reading", "writing"}
    BY <1>2 DEF Inv, CallInv
  <2> QED
    BY <1>2, <2>1, <2>2 DEF Answered
<1>5. \A q \in Proc : Answered(q)' => Answered(q)
  <2> SUFFICES ASSUME NEW q \in Proc, Answered(q)', q # p PROVE Answered(q)
    BY <1>4
  <2> QED
    BY <1>1, <1>2, <1>3 DEF Answered, Waiting
<1>6. CallsStay
  BY <1>1, <1>2 DEF CallsStay
<1>7. StoreStays
  BY <1>1, <1>5 DEF StoreStays
<1> QED
  BY <1>6, <1>7, CallsKept, StoreKept DEF Inv

\* The device writes the buffer to its block, or the block into the buffer.
LEMMA Carried ==
  ASSUME Inv, NEW x \in 1 .. Len(avail), Complete(x)
  PROVE  \E q \in Proc :
           /\ Waiting(q) /\ rw[q].idx = avail[x] /\ th[q].b \in Buf /\ blockno[th[q].b] \in Block
           /\ \/ /\ th[q].pc = "writing" /\ data' = data
                 /\ image' = [image EXCEPT ![blockno[th[q].b]] = data[th[q].b]]
              \/ /\ th[q].pc = "reading" /\ image' = image
                 /\ data' = [data EXCEPT ![th[q].b] = image[blockno[th[q].b]]]
<1> DEFINE i == avail[x]
<1>1. i \in Queued \union Finished
  BY CompleteRings
<1>2. PICK q \in Proc :
         /\ Waiting(q) /\ rw[q].pc # "out" /\ rw[q].idx = i
         /\ desc[desc[i].next].b = rw[q].b /\ ops[i] = [w |-> rw[q].w, k |-> rw[q].k]
  BY <1>1, Asker
<1>3. /\ rw[q].b = th[q].b /\ rw[q].k = blockno[th[q].b] /\ th[q].b \in Buf
      /\ blockno[th[q].b] \in Block
  BY <1>2, CallOnMine
<1>4. th[q].pc \in {"reading", "writing"} /\ rw[q].w = (th[q].pc = "writing")
  BY <1>2 DEF Inv, CallInv
<1>5. ops[i].w = rw[q].w /\ ops[i].k = blockno[th[q].b] /\ desc[desc[i].next].b = th[q].b
  BY <1>2, <1>3
<1>6. IF ops[i].w
      THEN image' = [image EXCEPT ![ops[i].k] = data[desc[desc[i].next].b]] /\ UNCHANGED data
      ELSE data' = [data EXCEPT ![desc[desc[i].next].b] = image[ops[i].k]] /\ UNCHANGED image
  BY DEF Complete
<1> HIDE DEF i
<1>7. CASE th[q].pc = "writing"
  BY <1>2, <1>3, <1>4, <1>5, <1>6, <1>7 DEF i
<1>8. CASE th[q].pc = "reading"
  BY <1>2, <1>3, <1>4, <1>5, <1>6, <1>8 DEF i
<1> QED
  BY <1>4, <1>7, <1>8

\* The device carries out a request: a buffer and its block agree afterwards.
LEMMA CompleteStore ==
  ASSUME Inv, NEW x \in 1 .. Len(avail), Complete(x), UNCHANGED cache
  PROVE  CallInv' /\ StoreInv'
<1>1. UNCHANGED <<th, blockno, valid, pinned, rw>>
  BY DEF Complete, cache
<1>2. Queued' = Queued \ {avail[x]}
  BY CompleteRings
<1>3. PICK q \in Proc :
         /\ Waiting(q) /\ rw[q].idx = avail[x] /\ th[q].b \in Buf /\ blockno[th[q].b] \in Block
         /\ \/ /\ th[q].pc = "writing" /\ data' = data
               /\ image' = [image EXCEPT ![blockno[th[q].b]] = data[th[q].b]]
            \/ /\ th[q].pc = "reading" /\ image' = image
               /\ data' = [data EXCEPT ![th[q].b] = image[blockno[th[q].b]]]
  BY Carried
<1>4. CallInv'
  BY <1>1, CallsKept DEF CallsStay, Inv
<1>5. image \in [Block -> Val] /\ data \in [Buf -> Val]
  BY Typed
<1>6. \A c \in Buf : blockno[c] = blockno[th[q].b] => c = th[q].b
  BY <1>3, NotNone DEF Inv, CountInv
<1>7. data'[th[q].b] = image'[blockno[th[q].b]]
  BY <1>3, <1>5
<1>8. \A c \in Buf : c # th[q].b /\ blockno[c] \in Block =>
        data'[c] = data[c] /\ image'[blockno[c]] = image[blockno[c]]
  BY <1>3, <1>5, <1>6
<1>9. StoreInv
  BY DEF Inv
<1>10. \A b \in Buf : valid'[b] => blockno'[b] \in Block
  BY <1>1, <1>9 DEF StoreInv
<1>11. \A b \in Buf : valid'[b] /\ data'[b] # image'[blockno'[b]] =>
         blockno'[b] \in pinned' \/ \E p \in Proc : th'[p].b = b /\ th'[p].dirty
  <2> SUFFICES ASSUME NEW b \in Buf, valid[b], data'[b] # image'[blockno[b]]
               PROVE  blockno[b] \in pinned \/ \E p \in Proc : th[p].b = b /\ th[p].dirty
    BY <1>1
  <2>1. b # th[q].b /\ blockno[b] \in Block
    BY <1>7, <1>9 DEF StoreInv
  <2> QED
    BY <1>8, <1>9, <2>1 DEF StoreInv
<1>12. \A p \in Proc : Answered(p)' => data'[th'[p].b] = image'[blockno'[th'[p].b]]
  <2> SUFFICES ASSUME NEW p \in Proc, Answered(p)'
               PROVE  data'[th[p].b] = image'[blockno[th[p].b]]
    BY <1>1
  <2>1. CASE p = q
    BY <1>7, <2>1
  <2>2. CASE p # q
    <3>1. Holds(p) /\ Holds(q)
      BY <1>1, <1>3 DEF Answered, Holds
    <3>2. th[p].b # th[q].b /\ th[p].b \in Buf /\ blockno[th[p].b] \in Block
      BY <2>2, <3>1, HoldersApart, MineIsBuf DEF Holds
    <3>3. Answered(p)
      <4>1. Waiting(p) => rw[p].idx # avail[x]
        <5>1. Waiting(p) => Chain(rw[p].idx) \intersect Chain(rw[q].idx) = {}
          BY <1>3, <2>2 DEF Inv, ChainInv
        <5> QED
          BY <1>3, <5>1 DEF Chain
      <4> QED
        BY <1>1, <1>2, <4>1 DEF Answered, Waiting
    <3> QED
      BY <1>8, <1>9, <3>2, <3>3 DEF StoreInv
  <2> QED
    BY <2>1, <2>2
<1> QED
  BY <1>4, <1>10, <1>11, <1>12 DEF StoreInv

\* A cache step of p: the others are where they were, and no request is under way for p.
LEMMA CacheCalls ==
  ASSUME Inv, NEW p \in Proc, UNCHANGED dvars,
         \A q \in Proc : q # p => \/ th'[q] = th[q]
                                  \/ th[q].pc = "asleep" /\ th'[q].pc = "lock" /\ th'[q].b = th[q].b
                                     /\ th'[q].dirty = th[q].dirty,
         \A q \in Proc : q # p /\ th[q].pc # "idle" => blockno'[th[q].b] = blockno[th[q].b],
         rw[p].pc = "out", th'[p].pc \notin {"reading", "writing"}
  PROVE  CallInv' /\ Queued' = Queued /\ \A q \in Proc : Answered(q)' => q # p /\ Answered(q)
<1>1. UNCHANGED <<rw, avail>>
  BY DEF dvars
<1>2. Queued' = Queued
  BY <1>1 DEF Queued
<1>3. CallsStay
  BY <1>1 DEF CallsStay, Inv, CallInv
<1>4. \A q \in Proc : Answered(q)' => q # p /\ Answered(q)
  BY <1>1, <1>2 DEF Answered, Waiting
<1> QED
  BY <1>2, <1>3, <1>4, CallsKept DEF Inv

\* Who is not in a request is not in virtio_disk_rw.
LEMMA NotCalling ==
  ASSUME Inv, NEW p \in Proc, th[p].pc \notin {"reading", "writing"}
  PROVE  rw[p].pc = "out"
BY DEF Inv, CallInv

\* Going to sleep on the lock of a buffer changes no contents.
LEMMA PauseStore ==
  ASSUME Inv, NEW p \in Proc, LockSleep(p)
  PROVE  CallInv' /\ StoreInv'
<1>1. th[p].pc = "lock" /\ To(p, "asleep") /\ UNCHANGED dvars
                        /\ UNCHANGED <<blockno, valid, pinned>>
  BY DEF LockSleep, At
<1>2. /\ th'[p].pc = "asleep" /\ th'[p].b = th[p].b /\ th'[p].dirty = th[p].dirty
      /\ \A q \in Proc : q # p => th'[q] = th[q]
  BY <1>1, MovesTo DEF Labels
<1>3. rw[p].pc = "out"
  BY <1>1, NotCalling
<1>4. CallInv' /\ \A q \in Proc : Answered(q)' => q # p /\ Answered(q)
  BY <1>1, <1>2, <1>3, CacheCalls
<1>5. StoreStays
  BY <1>1, <1>2, <1>4 DEF StoreStays, dvars
<1> QED
  BY <1>4, <1>5, StoreKept DEF Inv

\* bget that finds the block changes no contents.
LEMMA BgetHitStore ==
  ASSUME Inv, NEW p \in Proc, NEW k \in Block, BgetHit(p, k)
  PROVE  CallInv' /\ StoreInv'
<1>1. th[p].pc = "idle" /\ UNCHANGED dvars /\ UNCHANGED <<blockno, valid, pinned>>
  BY DEF BgetHit, Asked, At
<1>2. PICK b \in Buf : th' = [th EXCEPT ![p] = Frame("lock", b)]
  BY DEF BgetHit
<1>3. th'[p].pc = "lock" /\ \A q \in Proc : q # p => th'[q] = th[q]
  BY <1>2, MovesFrame DEF Labels
<1>4. rw[p].pc = "out" /\ ~th[p].dirty
  BY <1>1, NotCalling DEF Inv, LockInv
<1>5. CallInv' /\ \A q \in Proc : Answered(q)' => q # p /\ Answered(q)
  BY <1>1, <1>3, <1>4, CacheCalls
<1>6. StoreStays
  BY <1>1, <1>3, <1>4, <1>5 DEF StoreStays, dvars
<1> QED
  BY <1>5, <1>6, StoreKept DEF Inv

\* bget that recycles a buffer loses nothing: no transaction has pinned it.
LEMMA BgetMissStore ==
  ASSUME Inv, NEW p \in Proc, NEW k \in Block, BgetMiss(p, k)
  PROVE  CallInv' /\ StoreInv'
<1>1. /\ th[p].pc = "idle" /\ UNCHANGED dvars /\ UNCHANGED pinned
      /\ \A c \in Buf : blockno[c] # k
  BY DEF BgetMiss, Asked, At
<1>2. PICK b \in Buf :
        /\ Users(b) = {} /\ blockno[b] \notin pinned /\ valid' = [valid EXCEPT ![b] = FALSE]
        /\ blockno' = [blockno EXCEPT ![b] = k] /\ th' = [th EXCEPT ![p] = Frame("lock", b)]
  BY Evicted
<1>3. /\ th'[p].pc = "lock" /\ th'[p].b = b /\ th'[p].dirty = FALSE
      /\ \A q \in Proc : q # p => th'[q] = th[q]
  BY <1>2, MovesFrame DEF Labels
<1>4. rw[p].pc = "out" /\ ~th[p].dirty
  BY <1>1, NotCalling DEF Inv, LockInv
<1>5. /\ blockno \in [Buf -> Block \union {None}] /\ valid \in [Buf -> BOOLEAN]
      /\ image' = image /\ data' = data
  BY <1>1, Typed DEF dvars
<1>6. /\ \A c \in Buf : c # b => blockno'[c] = blockno[c] /\ valid'[c] = valid[c]
      /\ ~valid'[b]
  BY <1>2, <1>5
<1>7. \A q \in Proc : th[q].pc # "idle" => th[q].b # b /\ th[q].b \in Buf
  BY <1>2, MineIsBuf DEF Users, At, Mine
<1>8. CallInv' /\ \A q \in Proc : Answered(q)' => q # p /\ Answered(q)
  BY <1>1, <1>3, <1>4, <1>6, <1>7, CacheCalls
<1>9. StoreInv
  BY DEF Inv
<1>10. \A c \in Buf : valid'[c] => blockno'[c] \in Block
  BY <1>6, <1>9 DEF StoreInv
<1>11. \A c \in Buf : valid'[c] /\ data'[c] # image'[blockno'[c]] =>
         blockno'[c] \in pinned' \/ \E q \in Proc : th'[q].b = c /\ th'[q].dirty
  <2> SUFFICES ASSUME NEW c \in Buf, valid'[c], data'[c] # image'[blockno'[c]]
               PROVE  blockno'[c] \in pinned' \/ \E q \in Proc : th'[q].b = c /\ th'[q].dirty
    OBVIOUS
  <2>1. c # b /\ blockno'[c] = blockno[c] /\ valid[c]
    BY <1>6
  <2>2. blockno[c] \in pinned \/ \E q \in Proc : th[q].b = c /\ th[q].dirty
    BY <1>5, <1>9, <2>1 DEF StoreInv
  <2> QED
    BY <1>1, <1>3, <1>4, <2>1, <2>2
<1>12. \A q \in Proc : Answered(q)' => data'[th'[q].b] = image'[blockno'[th'[q].b]]
  <2> SUFFICES ASSUME NEW q \in Proc, Answered(q)'
               PROVE  data'[th'[q].b] = image'[blockno'[th'[q].b]]
    OBVIOUS
  <2>1. q # p /\ Answered(q) /\ th'[q] = th[q] /\ th[q].pc # "idle"
    BY <1>3, <1>8 DEF Answered
  <2> QED
    BY <1>5, <1>6, <1>7, <1>9, <2>1 DEF StoreInv
<1> QED
  BY <1>8, <1>10, <1>11, <1>12 DEF StoreInv

\* A lock is taken, or a request made: nothing is answered by that.
LEMMA LockBufStore ==
  ASSUME Inv, NEW p \in Proc, LockBuf(p) \/ Bwrite(p)
  PROVE  CallInv' /\ StoreInv'
<1>1. /\ th[p].pc \in {"lock", "hold"} /\ UNCHANGED <<blockno, valid, pinned>>
      /\ \/ UNCHANGED dvars /\ To(p, "hold")
         \/ /\ RwCall(p, th[p].b, blockno[th[p].b], FALSE) /\ To(p, "reading")
            /\ UNCHANGED <<device, driver, intr>>
         \/ /\ RwCall(p, th[p].b, blockno[th[p].b], TRUE) /\ To(p, "writing")
            /\ UNCHANGED <<device, driver, intr>>
  BY DEF LockBuf, Bwrite, At, Mine
<1>2. rw[p].pc = "out" /\ th[p].b \in Buf /\ blockno[th[p].b] \in Block
  BY <1>1, NotCalling, MineIsBuf
<1>3. PICK l \in Labels : To(p, l)
  BY <1>1 DEF Labels
<1>4. /\ th' \in [Proc -> Frames] /\ th'[p].pc = l /\ th'[p].b = th[p].b
      /\ th'[p].dirty = th[p].dirty /\ \A q \in Proc : q # p => th'[q] = th[q]
  BY <1>3, MovesTo
<1>5. UNCHANGED <<image, data, avail>>
  BY <1>1 DEF dvars, device
<1>6. Queued' = Queued
  BY <1>5 DEF Queued
<1>7. /\ CallInv'
      /\ \A q \in Proc : Answered(q)' => Answered(q)
  <2>1. CASE UNCHANGED dvars /\ To(p, "hold")
    <3>1. th'[p].pc = "hold"
      BY <2>1, MovesTo DEF Labels
    <3> QED
      BY <1>1, <1>2, <1>4, <2>1, <3>1, CacheCalls
  <2>2. ASSUME NEW w \in BOOLEAN, RwCall(p, th[p].b, blockno[th[p].b], w),
               To(p, IF w THEN "writing" ELSE "reading")
        PROVE  CallInv' /\ \A q \in Proc : Answered(q)' => Answered(q)
    <3>1. th'[p].pc = IF w THEN "writing" ELSE "reading"
      BY <2>2, MovesTo DEF Labels
    <3>2. /\ rw'[p] = [pc |-> "alloc", b |-> th[p].b, w |-> w, k |-> blockno[th[p].b], idx |-> End]
          /\ \A q \in Proc : q # p => rw'[q] = rw[q]
      BY <1>2, <2>2, CallStirs
    <3>3. CallInv'
      BY <1>1, <1>4, <3>1, <3>2 DEF CallInv, Inv
    <3>4. \A q \in Proc : Answered(q)' => Answered(q)
      BY <1>4, <1>6, <3>2 DEF Answered, Waiting
    <3> QED
      BY <3>3, <3>4
  <2> QED
    BY <1>1, <2>1, <2>2
<1>8. StoreStays
  BY <1>1, <1>4, <1>5, <1>7 DEF StoreStays
<1> QED
  BY <1>7, <1>8, StoreKept DEF Inv

\* bread returns: the buffer holds what the disk does.
LEMMA ReadDoneStore ==
  ASSUME Inv, NEW p \in Proc, ReadDone(p)
  PROVE  CallInv' /\ StoreInv'
<1> DEFINE b == th[p].b
<1>1. /\ th[p].pc = "reading" /\ rw[p].pc = "out" /\ UNCHANGED dvars
      /\ UNCHANGED <<blockno, pinned>>
      /\ To(p, "hold") /\ valid' = [valid EXCEPT ![b] = TRUE]
  BY DEF ReadDone, At, Returned, Mine
<1>2. /\ th'[p].pc = "hold" /\ th'[p].b = th[p].b /\ th'[p].dirty = th[p].dirty
      /\ \A q \in Proc : q # p => th'[q] = th[q]
  BY <1>1, MovesTo DEF Labels
<1>3. CallInv' /\ \A q \in Proc : Answered(q)' => q # p /\ Answered(q)
  BY <1>1, <1>2, CacheCalls
<1>4. /\ b \in Buf /\ blockno[b] \in Block /\ valid \in [Buf -> BOOLEAN]
      /\ image' = image /\ data' = data
  BY <1>1, MineIsBuf, Typed DEF dvars
<1>5. StoreInv /\ data[b] = image[blockno[b]]
  BY <1>1 DEF Inv, StoreInv, Answered
<1> HIDE DEF b
<1>6. \A c \in Buf : valid'[c] => blockno'[c] \in Block
  BY <1>1, <1>4, <1>5 DEF StoreInv
<1>7. \A c \in Buf : valid'[c] /\ data'[c] # image'[blockno'[c]] =>
         blockno'[c] \in pinned' \/ \E q \in Proc : th'[q].b = c /\ th'[q].dirty
  <2> SUFFICES ASSUME NEW c \in Buf, valid'[c], data[c] # image[blockno[c]]
               PROVE  blockno[c] \in pinned \/ \E q \in Proc : th'[q].b = c /\ th'[q].dirty
    BY <1>1, <1>4
  <2>1. c # b /\ valid[c]
    BY <1>1, <1>4, <1>5
  <2>2. blockno[c] \in pinned \/ \E q \in Proc : th[q].b = c /\ th[q].dirty
    BY <1>5, <2>1 DEF StoreInv
  <2> QED
    BY <1>2, <2>2
<1>8. \A q \in Proc : Answered(q)' => data'[th'[q].b] = image'[blockno'[th'[q].b]]
  BY <1>1, <1>2, <1>3, <1>4, <1>5 DEF StoreInv
<1> QED
  BY <1>3, <1>6, <1>7, <1>8 DEF StoreInv

\* The holder changes the data: from here on the buffer is dirty.
LEMMA ModifyStore ==
  ASSUME Inv, NEW p \in Proc, Modify(p)
  PROVE  CallInv' /\ StoreInv'
<1> DEFINE b == th[p].b
<1>1. /\ th[p].pc = "hold" /\ UNCHANGED <<image, avail, rw, blockno, valid, pinned>>
      /\ th' = [th EXCEPT ![p].dirty = TRUE] /\ \E v \in Val : data' = [data EXCEPT ![b] = v]
  BY DEF Modify, At, Mine
<1>2. th \in [Proc -> Frames] /\ data \in [Buf -> Val] /\ b \in Buf
  BY <1>1, Typed, MineIsBuf
<1>3. /\ th'[p].pc = "hold" /\ th'[p].b = th[p].b /\ th'[p].dirty
      /\ \A q \in Proc : q # p => th'[q] = th[q]
  BY <1>1, <1>2 DEF Frames
<1>4. \A c \in Buf : c # b => data'[c] = data[c]
  BY <1>1, <1>2
<1>5. Queued' = Queued
  BY <1>1 DEF Queued
<1>6. CallInv'
  BY <1>1, <1>3, CallsKept, NotCalling DEF CallsStay, Inv
<1>7. \A q \in Proc : Answered(q)' => q # p /\ Answered(q) /\ th'[q] = th[q]
  BY <1>1, <1>3, <1>5 DEF Answered, Waiting
<1>8. \A q \in Proc : q # p /\ Answered(q) => th[q].b # b /\ th[q].b \in Buf
  <2> SUFFICES ASSUME NEW q \in Proc, q # p, Answered(q) PROVE th[q].b # b /\ th[q].b \in Buf
    OBVIOUS
  <2>1. Holds(p) /\ Holds(q) /\ th[q].pc # "idle"
    BY <1>1 DEF Holds, Answered
  <2> QED
    BY <2>1, HoldersApart, MineIsBuf
<1>9. StoreInv
  BY DEF Inv
<1>10. \A c \in Buf : valid'[c] => blockno'[c] \in Block
  BY <1>1, <1>9 DEF StoreInv
<1>11. \A c \in Buf : valid'[c] /\ data'[c] # image'[blockno'[c]] =>
         blockno'[c] \in pinned' \/ \E q \in Proc : th'[q].b = c /\ th'[q].dirty
  <2> SUFFICES ASSUME NEW c \in Buf, valid[c], data'[c] # image[blockno[c]]
               PROVE  blockno[c] \in pinned \/ \E q \in Proc : th'[q].b = c /\ th'[q].dirty
    BY <1>1
  <2>1. CASE c = b
    BY <1>3, <2>1
  <2>2. CASE c # b
    <3>1. blockno[c] \in pinned \/ \E q \in Proc : th[q].b = c /\ th[q].dirty
      BY <1>4, <1>9, <2>2 DEF StoreInv
    <3> QED
      BY <1>3, <3>1
  <2> QED
    BY <2>1, <2>2
<1>12. \A q \in Proc : Answered(q)' => data'[th'[q].b] = image'[blockno'[th'[q].b]]
  <2> SUFFICES ASSUME NEW q \in Proc, Answered(q)'
               PROVE  data'[th'[q].b] = image'[blockno'[th'[q].b]]
    OBVIOUS
  <2>1. q # p /\ Answered(q) /\ th'[q] = th[q]
    BY <1>7
  <2>2. data[th[q].b] = image[blockno[th[q].b]]
    BY <1>9, <2>1 DEF StoreInv
  <2>3. data'[th[q].b] = data[th[q].b]
    BY <1>4, <1>8, <2>1
  <2> QED
    BY <1>1, <2>1, <2>2, <2>3
<1> QED
  BY <1>6, <1>10, <1>11, <1>12 DEF StoreInv

\* log_write pins the block: a changed buffer will not be recycled.
LEMMA LogWriteStore ==
  ASSUME Inv, NEW p \in Proc, LogWrite(p)
  PROVE  CallInv' /\ StoreInv'
<1>1. /\ th[p].pc = "hold" /\ UNCHANGED dvars /\ UNCHANGED <<blockno, valid>>
      /\ pinned' = pinned \union {blockno[th[p].b]}
      /\ th' = [th EXCEPT ![p] = [@ EXCEPT !.dirty = FALSE, !.pc = "release"]]
  BY DEF LogWrite, At, Mine
<1>2. /\ th'[p].pc = "release" /\ th'[p].b = th[p].b
      /\ \A q \in Proc : q # p => th'[q] = th[q]
  BY <1>1, MovesClean
<1>3. CallInv' /\ \A q \in Proc : Answered(q)' => q # p /\ Answered(q)
  BY <1>1, <1>2, NotCalling, CacheCalls
<1>4. StoreInv /\ image' = image /\ data' = data
  BY <1>1 DEF Inv, dvars
<1>5. \A c \in Buf : valid'[c] => blockno'[c] \in Block
  BY <1>1, <1>4 DEF StoreInv
<1>6. \A c \in Buf : valid'[c] /\ data'[c] # image'[blockno'[c]] =>
         blockno'[c] \in pinned' \/ \E q \in Proc : th'[q].b = c /\ th'[q].dirty
  <2> SUFFICES ASSUME NEW c \in Buf, valid[c], data[c] # image[blockno[c]]
               PROVE  blockno[c] \in pinned' \/ \E q \in Proc : th'[q].b = c /\ th'[q].dirty
    BY <1>1, <1>4
  <2>1. blockno[c] \in pinned \/ \E q \in Proc : th[q].b = c /\ th[q].dirty
    BY <1>4 DEF StoreInv
  <2> QED
    BY <1>1, <1>2, <2>1
<1>7. \A q \in Proc : Answered(q)' => data'[th'[q].b] = image'[blockno'[th'[q].b]]
  BY <1>1, <1>2, <1>3, <1>4 DEF StoreInv
<1> QED
  BY <1>3, <1>5, <1>6, <1>7 DEF StoreInv

\* The buffer equals the disk when its pin goes.
LEMMA WriteDoneStore ==
  ASSUME Inv, NEW p \in Proc, WriteDone(p)
  PROVE  CallInv' /\ StoreInv'
<1>0. PICK b \in Buf : b = th[p].b
  BY MineIsBuf DEF WriteDone, At
<1>1. /\ th[p].pc = "writing" /\ rw[p].pc = "out" /\ UNCHANGED dvars /\ UNCHANGED <<blockno, valid>>
      /\ pinned' = pinned \/ pinned' = pinned \ {blockno[b]}
      /\ th' = [th EXCEPT ![p] = [@ EXCEPT !.dirty = FALSE, !.pc = "release"]]
  BY <1>0 DEF WriteDone, At, Mine, Returned
<1>2. /\ th'[p].pc = "release" /\ th'[p].b = th[p].b
      /\ \A q \in Proc : q # p => th'[q] = th[q]
  BY <1>1, MovesClean
<1>3. CallInv' /\ \A q \in Proc : Answered(q)' => q # p /\ Answered(q)
  BY <1>1, <1>2, CacheCalls
<1>4. StoreInv /\ image' = image /\ data' = data
  BY <1>1 DEF Inv, dvars
<1>5. data[b] = image[blockno[b]]
  BY <1>0, <1>1, <1>4 DEF StoreInv, Answered
<1>6. \A c \in Buf : blockno[c] = blockno[b] => c = b
  <2>1. blockno[b] # None
    BY <1>0, <1>1, MineIsBuf, NotNone
  <2> QED
    BY <2>1 DEF Inv, CountInv
<1>7. \A c \in Buf : valid'[c] => blockno'[c] \in Block
  BY <1>1, <1>4 DEF StoreInv
<1>8. \A c \in Buf : valid'[c] /\ data'[c] # image'[blockno'[c]] =>
         blockno'[c] \in pinned' \/ \E q \in Proc : th'[q].b = c /\ th'[q].dirty
  <2> SUFFICES ASSUME NEW c \in Buf, valid[c], data[c] # image[blockno[c]]
               PROVE  blockno[c] \in pinned' \/ \E q \in Proc : th'[q].b = c /\ th'[q].dirty
    BY <1>1, <1>4
  <2>1. blockno[c] \in pinned \/ \E q \in Proc : th[q].b = c /\ th[q].dirty
    BY <1>4 DEF StoreInv
  <2>2. c # b
    BY <1>5
  <2> QED
    BY <1>0, <1>1, <1>2, <1>6, <2>1, <2>2
<1>9. \A q \in Proc : Answered(q)' => data'[th'[q].b] = image'[blockno'[th'[q].b]]
  BY <1>1, <1>2, <1>3, <1>4 DEF StoreInv
<1> QED
  BY <1>3, <1>7, <1>8, <1>9 DEF StoreInv

\* releasesleep changes no contents.
LEMMA UnlockStore ==
  ASSUME Inv, NEW p \in Proc, Unlock(p)
  PROVE  CallInv' /\ StoreInv'
<1>1. UNCHANGED dvars /\ UNCHANGED <<blockno, valid, pinned>>
  BY DEF Unlock
<1>2. /\ th[p].pc \in {"hold", "release"} /\ ~th[p].dirty /\ th'[p].pc = "drop"
      /\ \A q \in Proc : th'[q].b = th[q].b /\ th'[q].dirty = th[q].dirty
      /\ \A q \in Proc : q # p => \/ th'[q].pc = th[q].pc
                                  \/ th[q].pc = "asleep" /\ th'[q].pc = "lock"
  BY UnlockMoves
<1>3. rw[p].pc = "out"
  BY <1>2, NotCalling
<1>4. UNCHANGED <<rw, avail, image, data>>
  BY <1>1 DEF dvars
<1>5. CallsStay
  BY <1>1, <1>2, <1>3, <1>4 DEF CallsStay, Inv, CallInv
<1>6. Queued' = Queued
  BY <1>4 DEF Queued
<1>7. \A q \in Proc : Answered(q)' => Answered(q)
  BY <1>2, <1>4, <1>6 DEF Answered, Waiting
<1>8. StoreStays
  BY <1>1, <1>2, <1>4, <1>7 DEF StoreStays
<1> QED
  BY <1>5, <1>8, CallsKept, StoreKept DEF Inv

\* The second half of brelse changes no contents.
LEMMA DropStore ==
  ASSUME Inv, NEW p \in Proc, Drop(p)
  PROVE  CallInv' /\ StoreInv'
<1>1. /\ th[p].pc = "drop" /\ UNCHANGED dvars /\ UNCHANGED <<blockno, valid, pinned>>
      /\ th' = [th EXCEPT ![p] = Frame("idle", None)]
  BY DEF Drop, At
<1>2. th'[p].pc = "idle" /\ \A q \in Proc : q # p => th'[q] = th[q]
  BY <1>1, MovesFrame DEF Labels
<1>3. rw[p].pc = "out" /\ ~th[p].dirty
  BY <1>1, NotCalling DEF Inv, LockInv
<1>4. CallInv' /\ \A q \in Proc : Answered(q)' => q # p /\ Answered(q)
  BY <1>1, <1>2, <1>3, CacheCalls
<1>5. StoreStays
  BY <1>1, <1>2, <1>3, <1>4 DEF StoreStays, dvars
<1> QED
  BY <1>4, <1>5, StoreKept DEF Inv

\* Neither does a kill, which may wake a sleeper.
LEMMA KillStore ==
  ASSUME Inv, NEW p \in Proc, Kill(p)
  PROVE  CallInv' /\ StoreInv'
<1>1. UNCHANGED <<image, data, avail, blockno, valid, pinned>>
  BY DEF Kill, device
<1>2. CASE UNCHANGED th
  BY <1>1, <1>2, KillWakes, WokenStore
<1>3. CASE th[p].pc = "asleep" /\ To(p, "lock") /\ UNCHANGED rw
  <2>1. /\ th'[p].pc = "lock" /\ th'[p].b = th[p].b /\ th'[p].dirty = th[p].dirty
        /\ \A q \in Proc : q # p => th'[q] = th[q]
    BY <1>3, MovesTo DEF Labels
  <2>2. CallsStay
    BY <1>1, <1>3, <2>1 DEF CallsStay, Inv, CallInv
  <2>3. Queued' = Queued
    BY <1>1 DEF Queued
  <2>4. \A q \in Proc : Answered(q)' => Answered(q)
    BY <1>3, <2>1, <2>3 DEF Answered, Waiting
  <2>5. StoreStays
    BY <1>1, <2>1, <2>4 DEF StoreStays
  <2> QED
    BY <2>2, <2>5, CallsKept, StoreKept DEF Inv
<1> QED
  BY <1>2, <1>3 DEF Kill, At

\* Every step keeps the part of the invariant about contents.
LEMMA StoreStep ==
  ASSUME Inv, Run
  PROVE  CallInv' /\ StoreInv'
<1>1. ASSUME NEW p \in Proc, CacheOnly(p) PROVE CallInv' /\ StoreInv'
  BY <1>1, Wanted, BgetHitStore, BgetMissStore, PauseStore, ReadDoneStore, LogWriteStore, WriteDoneStore,
     UnlockStore, DropStore DEF CacheOnly, Call
<1>2. ASSUME NEW p \in Proc, RwNoDesc(p) \/ RwAgain(p), UNCHANGED cache
      PROVE  CallInv' /\ StoreInv'
  <2>1. Woken
    BY <1>2, NoDescWakes, AgainWakes
  <2>2. UNCHANGED <<image, data, avail, th, blockno, valid, pinned>>
    BY <1>2 DEF RwNoDesc, RwAgain, device, cache
  <2> QED
    BY <2>1, <2>2, WokenStore
<1>3. ASSUME HandleUsed, UNCHANGED cache
      PROVE  CallInv' /\ StoreInv'
  <2>1. UNCHANGED <<image, data, avail, th, blockno, valid, pinned>>
    BY <1>3 DEF HandleUsed, cache
  <2> QED
    BY <1>3, <2>1, HandlerWakes, WokenStore
<1>4. ASSUME Claim \/ Ack \/ Handled \/ Completed, UNCHANGED cache
      PROVE  CallInv' /\ StoreInv'
  <2>1. UNCHANGED <<image, data, avail, rw, th, blockno, valid, pinned>>
    BY <1>4 DEF Claim, Ack, Handled, Completed, device, cache
  <2>2. Woken
    BY <2>1, Typed DEF Woken, Waiting
  <2> QED
    BY <2>1, <2>2, WokenStore
<1> QED
  BY <1>1, <1>2, <1>3, <1>4, Steps, LockBufStore, ModifyStore, KillStore, RwStartStore, RwDoneStore,
     CompleteStore

-----------------------------------------------------------------------------
(* The invariant. *)

\* SetToSeq lists a finite set, every element once.
LEMMA Listed ==
  ASSUME NEW S, IsFiniteSet(S)
  PROVE  /\ SetToSeq(S) \in Seq(S) /\ Len(SetToSeq(S)) = Cardinality(S)
         /\ \A e \in S : \E x \in DOMAIN SetToSeq(S) : SetToSeq(S)[x] = e
<1> DEFINE n == Cardinality(S)
<1>1. n \in Nat
  BY FS_CardinalityType
<1>2. ExistsBijection(1 .. n, S)
  BY FS_CardinalityType
<1>3. PICK f : f \in Bijection(1 .. n, S)
  BY <1>2 DEF ExistsBijection
<1>4. f \in [1 .. n -> S] /\ IsInjective(f)
  BY <1>3 DEF Bijection, Injection, IsInjective
<1>5. SetToSeq(S) \in [1 .. n -> S] /\ IsInjective(SetToSeq(S))
  BY <1>4, Zenon DEF SetToSeq
<1> DEFINE s == SetToSeq(S)
<1>6. s \in Injection(1 .. n, S)
  BY <1>5 DEF Injection, IsInjective
<1> HIDE DEF s
<1>7. \A e \in S : \E x \in 1 .. n : s[x] = e
  <2>1. IsFiniteSet(1 .. n) /\ Cardinality(1 .. n) = n
    BY <1>1, FS_Interval
  <2>2. s \in Surjection(1 .. n, S)
    BY <1>6, <2>1, FS_Injection
  <2> QED
    BY <2>2 DEF Surjection
<1>8. s \in Seq(S) /\ Len(s) = n /\ DOMAIN s = 1 .. n
  <2>1. s \in [1 .. n -> S]
    BY <1>5 DEF s
  <2> HIDE DEF n
  <2> QED
    BY <1>1, <2>1, LenProperties
<1> QED
  BY <1>7, <1>8 DEF s

\* The initial states satisfy the invariant.
LEMMA InitInv ==
  ASSUME Init
  PROVE  Inv
<1>1. /\ image = [k \in Block |-> InitVal] /\ data \in [Buf -> {InitVal}]
      /\ onDisk = [b \in Buf |-> FALSE] /\ free = Desc /\ desc = [i \in Desc |-> Clear]
  BY Zenon DEF Init, DInit
<1>2. /\ ops = [i \in Desc |-> [w |-> FALSE, k |-> None]]
      /\ info = [i \in Desc |-> [b |-> None, done |-> FALSE]]
      /\ avail = <<>> /\ used = <<>> /\ rw = [p \in Proc |-> Out]
  BY Zenon DEF Init, DInit
<1>3. /\ lru = SetToSeq(Buf) /\ blockno = [b \in Buf |-> None] /\ valid = [b \in Buf |-> FALSE]
      /\ refcnt = [b \in Buf |-> 0] /\ slock = [b \in Buf |-> None] /\ pinned = {}
      /\ th = [p \in Proc |-> Frame("idle", None)]
  BY Zenon DEF Init
<1>4. InitVal \in Val
  BY VirtioAssumption
<1>5. /\ \A p \in Proc : rw[p] = Out /\ Out.pc = "out" /\ Out.idx = End /\ Out \in Calls
      /\ \A p \in Proc : ~Waiting(p)
  <2>1. Out.pc = "out" /\ Out.idx = End /\ Out \in Calls
    BY Descriptors DEF Out, Calls, End
  <2> QED
    BY <1>2, <2>1 DEF Waiting
<1>6. \A p \in Proc : th[p].pc = "idle" /\ th[p].b = None /\ th[p].dirty = FALSE /\ th[p] \in Frames
  BY <1>3 DEF Frame, Frames, Labels
<1>7. DiskType
  <2>1. /\ image \in [Block -> Val] /\ data \in [Buf -> Val] /\ onDisk \in [Buf -> BOOLEAN]
        /\ free \subseteq Desc
    BY <1>1, <1>4
  <2>2. desc \in [Desc -> [b : Buf \union {None}, next : 0 .. NUM]]
    <3>1. NUM \in 0 .. NUM
      BY Descriptors
    <3> QED
      BY <1>1, <3>1 DEF Clear, End
  <2>3. /\ ops \in [Desc -> [w : BOOLEAN, k : Block \union {None}]]
        /\ info \in [Desc -> [b : Buf \union {None}, done : BOOLEAN]]
    BY <1>2
  <2>4. rw \in [Proc -> Calls]
    BY <1>2, <1>5
  <2> QED
    BY <2>1, <2>2, <2>3, <2>4 DEF DiskType, Calls
<1>8. CacheType
  BY <1>3, <1>6 DEF CacheType, Frames, Labels
<1>9. RingType
  BY <1>2 DEF RingType
<1>10. ChainInv
  <2>1. \A i \in free : desc[i] = Clear
    BY <1>1
  <2>2. Cardinality(free) + 3 * Cardinality(Waiters) = NUM
    <3>1. Waiters = {}
      BY <1>5 DEF Waiters
    <3>2. Cardinality(Waiters) = 0
      BY <3>1, FS_EmptySet
    <3>3. Cardinality(0 .. NUM - 1) = NUM
      BY Descriptors, FS_Interval
    <3> QED
      BY <1>1, <3>2, <3>3, Descriptors DEF Desc
  <2> QED
    BY <1>5, <2>1, <2>2 DEF ChainInv
<1>11. RingInv
  <2>1. Queued = {} /\ Finished = {} /\ NoRepeat(avail) /\ NoRepeat(used)
    BY <1>2 DEF Queued, Finished, Elems, NoRepeat
  <2> QED
    BY <1>5, <2>1 DEF RingInv
<1>12. CallInv
  BY <1>5 DEF CallInv
<1>13. LockInv
  BY <1>3, <1>6 DEF LockInv, Holds
<1>14. CountInv
  <2>1. \A b \in Buf : Users(b) = {} /\ Pin(b) = 0 /\ blockno[b] = None
    BY <1>3, <1>6 DEF Users, At, Pin
  <2>2. IsFiniteSet(pinned) /\ Cardinality(pinned) = 0 /\ Cardinality({}) = 0
    BY <1>3, FS_EmptySet
  <2>3. \A b \in Buf : refcnt[b] = Cardinality(Users(b)) + Pin(b)
    BY <1>3, <2>1, <2>2
  <2> QED
    BY <1>3, <2>1, <2>2, <2>3, CacheAssumption DEF CountInv
<1>15. LruInv
  BY <1>3, Listed, CacheAssumption DEF LruInv
<1>16. StoreInv
  BY <1>3, <1>6 DEF StoreInv, Answered
<1>17. PanicInv
  BY DEF Init, PanicInv
<1> QED
  BY <1>7, <1>8, <1>9, <1>10, <1>11, <1>12, <1>13, <1>14, <1>15, <1>16, <1>17 DEF Inv

\* What happens to nothing but the bounds and the panic keeps all but PanicInv.
LEMMA Settled ==
  ASSUME Inv, UNCHANGED dvars, UNCHANGED <<lru, blockno, valid, refcnt, slock, pinned, th>>
  PROVE  /\ DiskType' /\ RingType' /\ ChainInv' /\ RingInv'
         /\ CallInv' /\ StoreInv' /\ CacheInv'
<1>1. UNCHANGED <<image, data, onDisk, free, desc, ops, info, avail, used, rw>>
  BY DEF dvars
<1>2. DiskType' /\ RingType' /\ ChainInv' /\ RingInv'
  BY <1>1, Typed, StillStirs, QuietDriver, DiskTypeKept
<1>3. CacheInv'
  BY CacheStays
<1>4. Woken
  BY <1>1, Typed DEF Woken, Waiting
<1>5. CallInv' /\ StoreInv'
  BY <1>1, <1>4, WokenStore
<1> QED
  BY <1>2, <1>3, <1>5

\* bget panics when every buffer has a reference.
LEMMA PanicSettles ==
  ASSUME Inv, Panic
  PROVE  /\ UNCHANGED dvars /\ UNCHANGED <<lru, blockno, valid, refcnt, slock, pinned, th>>
         /\ PanicInv'
<1>1. /\ UNCHANGED dvars /\ UNCHANGED <<lru, blockno, valid, refcnt, slock, pinned, th>>
      /\ Unused = {}
  BY DEF Panic, BgetPanic
<1>2. \A b \in Buf : refcnt[b] # 0
  <2> SUFFICES ASSUME NEW b \in Buf PROVE refcnt[b] # 0
    OBVIOUS
  <2>1. \E x \in DOMAIN lru : lru[x] = b
    BY DEF Inv, LruInv
  <2> QED
    BY <1>1, <2>1 DEF Unused
<1> QED
  BY <1>1, <1>2 DEF PanicInv

\* Every step keeps the invariant.
LEMMA NextInv ==
  ASSUME Inv, [Next]_vars
  PROVE  Inv'
<1>1. CASE Running /\ Run
  <2>1. DiskType' /\ RingType' /\ ChainInv' /\ RingInv'
    BY <1>1, DriverInv
  <2>2. CallInv' /\ StoreInv'
    BY <1>1, StoreStep
  <2>3. CacheInv'
    BY <1>1, CacheStep
  <2>4. PanicInv'
    BY <1>1 DEF Running, PanicInv
  <2> QED
    BY <2>1, <2>2, <2>3, <2>4 DEF Inv, CacheInv
<1>2. CASE Panic
  BY <1>2, PanicSettles, Settled DEF Inv, CacheInv
<1>3. CASE UNCHANGED vars
  <2>1. UNCHANGED dvars /\ UNCHANGED <<lru, blockno, valid, refcnt, slock, pinned, th>>
    BY <1>3 DEF vars, cache
  <2>2. PanicInv'
    BY <1>3, <2>1 DEF vars, PanicInv, Inv
  <2> QED
    BY <2>1, <2>2, Settled DEF Inv, CacheInv
<1> QED
  BY <1>1, <1>2, <1>3 DEF Next

\* Whatever the processes, the device and the handler do, Inv holds.
THEOREM InvHolds == Spec => []Inv
<1>1. Init => Inv
  BY InitInv
<1>2. Inv /\ [Next]_vars => Inv'
  BY NextInv
<1> QED
  BY <1>1, <1>2, PTL DEF Spec

\* The device is only given buffers of processes that wait, through descriptors that nobody
\* else has; virtio_disk_intr finds a status and a buffer for every answer; and free_desc
\* never meets a descriptor that is free (virtio_disk.c:150-182, 283-312).
LEMMA InvDmaSafe ==
  ASSUME Inv
  PROVE  DmaSafe
<1>1. /\ \A x \in 1 .. Len(avail) : avail[x] \in Queued \union Finished
      /\ \A x \in 1 .. Len(used) : used[x] \in Finished
  BY DEF Queued, Finished, Elems
<1>2. ASSUME NEW x \in 1 .. Len(avail)
      PROVE  \E p \in Proc : /\ rw[p].pc \in {"wait", "check"} /\ rw[p].idx = avail[x]
                             /\ onDisk[rw[p].b] /\ desc[desc[avail[x]].next].b = rw[p].b
                             /\ ops[avail[x]] = [w |-> rw[p].w, k |-> rw[p].k]
  <2>1. PICK p \in Proc :
          /\ Waiting(p) /\ rw[p].idx = avail[x] /\ desc[desc[avail[x]].next].b = rw[p].b
          /\ ops[avail[x]] = [w |-> rw[p].w, k |-> rw[p].k] /\ onDisk[rw[p].b]
    BY <1>1, Asker
  <2> QED
    BY <2>1 DEF Waiting
<1>3. ASSUME NEW x \in 1 .. Len(used)
      PROVE  info[used[x]].done /\ info[used[x]].b # None
  <2>1. used[x] \in Finished /\ used[x] \in Queued \union Finished
    BY <1>1
  <2>2. PICK p \in Proc : info[used[x]].b = rw[p].b /\ rw[p].b \in Buf
    BY <2>1, Asker
  <2> QED
    BY <2>1, <2>2, NotNone DEF Inv, RingInv
<1>4. \A p \in Proc : rw[p].idx # End => Waiting(p)
  BY DEF Inv, ChainInv
<1>5. ASSUME NEW p \in Proc, NEW q \in Proc, rw[p].idx # End
      PROVE  /\ Chain(rw[p].idx) \intersect free = {}
             /\ p # q /\ rw[q].idx # End => Chain(rw[p].idx) \intersect Chain(rw[q].idx) = {}
  BY <1>4, <1>5 DEF Inv, ChainInv, ChainOf
<1> QED
  BY <1>2, <1>3, <1>5 DEF DmaSafe

\* While the device may use a buffer, the process whose request it is waits
\* for it in virtio_disk_rw: nobody else changes or recycles the buffer.
THEOREM DmaSafeHolds == Spec => []DmaSafe
BY InvHolds, InvDmaSafe, PTL

\* As many elements as places.
LEMMA LenElems ==
  ASSUME NEW S, NEW s \in Seq(S), NoRepeat(s)
  PROVE  IsFiniteSet(Elems(s)) /\ Cardinality(Elems(s)) = Len(s)
<1> DEFINE n == Len(s)
           E == Elems(s)
<1>1. n \in Nat /\ DOMAIN s = 1 .. n /\ s \in [1 .. n -> S]
  BY LenProperties
<1>2. s = [x \in 1 .. n |-> s[x]]
  BY <1>1
<1>3. (\A x \in 1 .. n : s[x] \in E) /\ \A e \in E : \E x \in 1 .. n : s[x] = e
  BY DEF Elems
<1>4. \A x, y \in 1 .. n : s[x] = s[y] => x = y
  BY DEF NoRepeat
<1> HIDE DEF n, E
<1>5. s \in Injection(1 .. n, E) /\ s \in Surjection(1 .. n, E)
  BY <1>2, <1>3, <1>4 DEF Injection, Surjection, IsInjective
<1>6. IsFiniteSet(1 .. n) /\ Cardinality(1 .. n) = n
  BY <1>1, FS_Interval
<1>7. IsFiniteSet(E) /\ Cardinality(E) = n
  BY <1>5, <1>6, FS_Surjection
<1> QED
  BY <1>7 DEF n, E

\* A process for each request in the rings.
LEMMA RingsFit ==
  ASSUME Inv
  PROVE  Len(avail) + Len(used) <= NUM \div 3
<1> DEFINE R == Queued \union Finished
<1>1. /\ avail \in Seq(Desc) /\ used \in Seq(Desc) /\ NoRepeat(avail) /\ NoRepeat(used)
      /\ Queued \intersect Finished = {}
  BY DEF Inv, RingType, RingInv
<1>2. /\ IsFiniteSet(Queued) /\ Cardinality(Queued) = Len(avail)
      /\ IsFiniteSet(Finished) /\ Cardinality(Finished) = Len(used)
  BY <1>1, LenElems DEF Queued, Finished
<1>3. IsFiniteSet(R) /\ Cardinality(R) = Len(avail) + Len(used)
  <2>1. IsFiniteSet(R) /\ Cardinality(R) =
          Cardinality(Queued) + Cardinality(Finished) - Cardinality(Queued \intersect Finished)
    BY <1>2, FS_Union
  <2>2. Cardinality(Queued \intersect Finished) = 0
    BY <1>1, FS_EmptySet
  <2>3. Len(avail) \in Nat /\ Len(used) \in Nat
    BY <1>1, LenProperties
  <2> HIDE DEF R
  <2> QED
    BY <1>2, <2>1, <2>2, <2>3
<1>4. \A i \in R : \E p \in Waiters : rw[p].idx = i
  BY DEF Inv, RingInv, Waiters
<1> DEFINE f == [i \in R |-> CHOOSE p \in Waiters : rw[p].idx = i]
<1>5. \A i \in R : f[i] \in Waiters /\ rw[f[i]].idx = i
  <2> HIDE DEF R
  <2> QED
    BY <1>4
<1>6. f \in Injection(R, Waiters)
  <2>1. f = [i \in R |-> f[i]]
    OBVIOUS
  <2> HIDE DEF R, f
  <2>2. \A i, j \in R : f[i] = f[j] => i = j
    BY <1>5
  <2>3. f \in [R -> Waiters]
    BY <1>5, <2>1
  <2> QED
    BY <2>2, <2>3 DEF Injection, IsInjective
<1>7. IsFiniteSet(Waiters)
  BY CacheAssumption, FS_Subset DEF Waiters
<1>8. Cardinality(R) <= Cardinality(Waiters)
  <2> HIDE DEF R, f
  <2> QED
    BY <1>6, <1>7, FS_Injection
<1>9. IsFiniteSet(free)
  <2>1. IsFiniteSet(0 .. NUM - 1)
    BY Descriptors, FS_Interval
  <2> QED
    BY <2>1, FS_Subset DEF Desc, Inv, DiskType
<1>10. Cardinality(free) \in Nat /\ Cardinality(Waiters) \in Nat
  BY <1>7, <1>9, FS_CardinalityType
<1>11. Cardinality(free) + 3 * Cardinality(Waiters) = NUM
  BY DEF Inv, ChainInv
<1>12. \A c, w, n \in Nat : c + 3 * w = n => w <= n \div 3
  OBVIOUS
<1>13. Cardinality(Waiters) <= NUM \div 3
  BY <1>10, <1>11, <1>12, Descriptors
<1>14. Len(avail) \in Nat /\ Len(used) \in Nat /\ NUM \div 3 \in Int
  BY <1>1, LenProperties, Descriptors
<1> HIDE DEF R
<1> QED
  BY <1>3, <1>8, <1>10, <1>13, <1>14

\* The type invariant of the driver and of the cache.
LEMMA InvTypeOK ==
  ASSUME Inv
  PROVE  TypeOK
<1>1. DTypeOK
  <2>1. /\ image \in [Block -> Val] /\ data \in [Buf -> Val] /\ onDisk \in [Buf -> BOOLEAN]
        /\ free \subseteq Desc
    BY DEF Inv, DiskType
  <2>2. \A i \in free : desc[i] = Clear
    BY DEF Inv, ChainInv
  <2>3. \A p \in Proc : rw[p].pc \in {"out", "alloc", "nodesc", "wait", "check"}
    BY Typed DEF Calls
  <2>4. Cardinality(free) + 3 * Cardinality({p \in Proc : rw[p].pc \in {"wait", "check"}}) = NUM
    BY DEF Inv, ChainInv, Waiters, Waiting
  <2> QED
    BY <2>1, <2>2, <2>3, <2>4, RingsFit DEF DTypeOK
<1>2. /\ Len(lru) = Cardinality(Buf) /\ \A b \in Buf : \E x \in DOMAIN lru : lru[x] = b
      /\ \A b, c \in Buf : blockno[b] = blockno[c] /\ blockno[b] # None => b = c
  BY DEF Inv, LruInv, CountInv
<1>3. \A b \in Buf : refcnt[b] = Cardinality(Users(b)) + (IF blockno[b] \in pinned THEN 1 ELSE 0)
  BY DEF Inv, CountInv, Pin
<1>4. ASSUME NEW b \in Buf
      PROVE  {p \in Users(b) : th[p].pc \in {"reading", "hold", "writing", "release"}} =
               (IF slock[b] = None THEN {} ELSE {slock[b]})
  <2>1. LockInv /\ slock[b] \in Proc \union {None}
    BY DEF Inv, CacheType
  <2>2. \A p \in Proc : p \in Users(b) /\ Holds(p) <=> Holds(p) /\ th[p].b = b
    BY DEF Users, At, Mine, Holds
  <2>3. CASE slock[b] = None
    <3>1. \A p \in Proc : ~(Holds(p) /\ th[p].b = b)
      BY <2>1, <2>3, NotNone DEF LockInv
    <3> QED
      BY <2>2, <2>3, <3>1 DEF Holds, Users
  <2>4. CASE slock[b] # None
    <3>1. \A p \in Proc : Holds(p) /\ th[p].b = b <=> p = slock[b]
      BY <2>1, <2>4 DEF LockInv
    <3> QED
      BY <2>1, <2>2, <2>4, <3>1 DEF Holds, Users
  <2> QED
    BY <2>3, <2>4
<1>5. ASSUME panicked, NEW b \in Buf
      PROVE  Users(b) # {} \/ blockno[b] \in pinned
  <2>1. refcnt[b] # 0
    BY <1>5 DEF Inv, PanicInv
  <2>2. CASE Users(b) = {}
    <3>1. Cardinality(Users(b)) = 0
      BY <2>2, FS_EmptySet
    <3> QED
      BY <1>3, <2>1, <3>1
  <2> QED
    BY <2>2
<1> QED
  BY <1>1, <1>2, <1>3, <1>4, <1>5 DEF TypeOK

\* Descriptors are free or in one chain; a block is in one buffer at most, whose count is
\* the number of its users and pins; and bget (bio.c:75-88) panics only when every buffer is
\* in use or pinned, however many buffers each process has.
THEOREM TypeOKHolds == Spec => []TypeOK
BY InvHolds, InvTypeOK, PTL

-----------------------------------------------------------------------------
(* The cache implements the store of blocks. *)

\* What the refinement mapping is, without its choices.
StoredRight ==
  /\ stored = [k \in Block |-> stored[k]]
  /\ \A k \in Block :
       /\ \A b \in Buf : blockno[b] = k /\ valid[b] => stored[k] = data[b]
       /\ (\A b \in Buf : ~(blockno[b] = k /\ valid[b])) => stored[k] = image[k]

HoldingRight ==
  /\ holding = [k \in Block |-> holding[k]]
  /\ \A k \in Block :
       /\ \A p \in Proc : Holding(k, p) => holding[k] = p
       /\ (\A p \in Proc : ~Holding(k, p)) => holding[k] = None

\* Only one process holds a block.
LEMMA OneHolder ==
  ASSUME Inv, NEW k \in Block, NEW p \in Proc, NEW q \in Proc, Holding(k, p), Holding(k, q)
  PROVE  p = q
<1>1. th[p].b \in Buf /\ th[q].b \in Buf /\ blockno[th[p].b] = k /\ blockno[th[q].b] = k
  BY MineIsBuf DEF Holding, Mine
<1>2. th[p].b = th[q].b
  BY <1>1, NotNone DEF Inv, CountInv
<1> QED
  BY <1>2, HoldersApart DEF Holding, Holds

\* The mapping of states is the one that the two descriptions give.
LEMMA MappingRight ==
  ASSUME Inv
  PROVE  StoredRight /\ HoldingRight
<1>1. stored = [k \in Block |-> stored[k]] /\ holding = [k \in Block |-> holding[k]]
  BY DEF stored, holding
<1>2. ASSUME NEW k \in Block, NEW b \in Buf, blockno[b] = k, valid[b]
      PROVE  stored[k] = data[b]
  <2>1. \A c \in Buf : blockno[c] = k /\ valid[c] => c = b
    BY <1>2, NotNone DEF Inv, CountInv
  <2>2. (CHOOSE c \in Buf : blockno[c] = k /\ valid[c]) = b
    BY <1>2, <2>1
  <2> QED
    BY <1>2, <2>2 DEF stored
<1>3. ASSUME NEW k \in Block, \A b \in Buf : ~(blockno[b] = k /\ valid[b])
      PROVE  stored[k] = image[k]
  BY <1>3 DEF stored
<1>4. ASSUME NEW k \in Block, NEW p \in Proc, Holding(k, p)
      PROVE  holding[k] = p
  <2>1. \A q \in Proc : Holding(k, q) => q = p
    BY <1>4, OneHolder
  <2>2. (CHOOSE q \in Proc : Holding(k, q)) = p
    BY <1>4, <2>1
  <2> QED
    BY <1>4, <2>2 DEF holding
<1>5. ASSUME NEW k \in Block, \A p \in Proc : ~Holding(k, p)
      PROVE  holding[k] = None
  BY <1>5 DEF holding
<1> QED
  BY <1>1, <1>2, <1>3, <1>4, <1>5 DEF StoredRight, HoldingRight

\* An initial state maps to an initial state of the store.
LEMMA MappingInit ==
  ASSUME Init
  PROVE  Store!Init
<1>1. Inv
  BY InitInv
<1>2. StoredRight /\ HoldingRight
  BY <1>1, MappingRight
<1>3. /\ image = [k \in Block |-> InitVal] /\ valid = [b \in Buf |-> FALSE]
      /\ th = [p \in Proc |-> Frame("idle", None)]
  BY Zenon DEF Init, DInit
<1>4. \A k \in Block : stored[k] = InitVal
  BY <1>2, <1>3 DEF StoredRight
<1>5. \A k \in Block : \A p \in Proc : ~Holding(k, p)
  BY <1>3 DEF Holding, Frame
<1>6. \A k \in Block : holding[k] = None
  BY <1>2, <1>5 DEF HoldingRight
<1> QED
  BY <1>2, <1>4, <1>6 DEF StoredRight, HoldingRight, Store!Init

\* The holders are the same when the processes hold what they held.
LEMMA SameHolders ==
  ASSUME HoldingRight, HoldingRight',
         \A k \in Block : \A p \in Proc : Holding(k, p)' <=> Holding(k, p)
  PROVE  holding' = holding
<1>1. \A k \in Block : holding'[k] = holding[k]
  BY DEF HoldingRight
<1> QED
  BY <1>1 DEF HoldingRight

\* The contents are the same when the buffers and the disk are.
LEMMA SameStore ==
  ASSUME UNCHANGED <<image, data, blockno, valid>>
  PROVE  stored' = stored
BY DEF stored

\* The steps that are the store's own.
Held(k) == \E p \in Proc : Holding(k, p)

\* A process that comes to hold a block takes the abstract step Hold.
LEMMA HoldMaps ==
  ASSUME HoldingRight, HoldingRight', stored' = stored, NEW k \in Block, NEW p \in Proc,
         ~Held(k), Holding(k, p)',
         \A x \in Block : x # k => \A q \in Proc : Holding(x, q)' <=> Holding(x, q)
  PROVE  Store!Next
<1>1. holding[k] = None /\ holding'[k] = p
  BY DEF HoldingRight, Held
<1>2. \A x \in Block : x # k => holding'[x] = holding[x]
  BY DEF HoldingRight
<1>3. holding' = [holding EXCEPT ![k] = p]
  BY <1>1, <1>2 DEF HoldingRight
<1>4. Store!Hold(p, k)
  BY <1>1, <1>3 DEF Store!Hold
<1> QED
  BY <1>4 DEF Store!Next

\* A process that gives a block up takes the abstract step Release.
LEMMA ReleaseMaps ==
  ASSUME HoldingRight, HoldingRight', stored' = stored, NEW k \in Block, NEW p \in Proc,
         Holding(k, p), \A q \in Proc : ~Holding(k, q)',
         \A x \in Block : x # k => \A q \in Proc : Holding(x, q)' <=> Holding(x, q)
  PROVE  Store!Next
<1>1. holding[k] = p /\ holding'[k] = None
  BY DEF HoldingRight
<1>2. \A x \in Block : x # k => holding'[x] = holding[x]
  BY DEF HoldingRight
<1>3. holding' = [holding EXCEPT ![k] = None]
  BY <1>1, <1>2 DEF HoldingRight
<1>4. Store!Release(p, k)
  BY <1>1, <1>3 DEF Store!Release
<1> QED
  BY <1>4 DEF Store!Next

\* p has a buffer whose content it may use.
Keeping(p) == th[p].pc \in {"hold", "writing", "release"}

\* Holding, by what the process keeps.
LEMMA HoldingIs ==
  ASSUME NEW k, NEW p
  PROVE  Holding(k, p) <=> Keeping(p) /\ blockno[th[p].b] = k
BY DEF Holding, Keeping, Mine

\* The mapping is right after a step, too.
LEMMA MappingRightNext == Inv' => (StoredRight /\ HoldingRight)'
<1>1. Inv => StoredRight /\ HoldingRight
  BY MappingRight
<1> QED
  BY <1>1, PTL

\* Nobody begins or ends to hold a buffer.
SameKeeping ==
  \A q \in Proc : (Keeping(q)' <=> Keeping(q)) /\ (Keeping(q) => th'[q].b = th[q].b)

\* A step where everyone keeps what it has is a stutter.
LEMMA QuietMaps ==
  ASSUME Inv, Inv', SameKeeping, UNCHANGED <<image, data, blockno, valid>>
  PROVE  UNCHANGED <<stored, holding>>
<1>1. \A k \in Block : \A p \in Proc : Holding(k, p)' <=> Holding(k, p)
  BY DEF SameKeeping, Holding, Keeping, Mine
<1>2. HoldingRight /\ HoldingRight'
  BY MappingRight, MappingRightNext
<1>3. holding' = holding
  BY <1>1, <1>2, SameHolders
<1> QED
  BY <1>3, SameStore

\* An evicted buffer equals the disk.
LEMMA BgetMissMaps ==
  ASSUME Inv, Inv', NEW p \in Proc, NEW k \in Block, BgetMiss(p, k)
  PROVE  UNCHANGED <<stored, holding>>
<1>1. /\ th[p].pc = "idle" /\ UNCHANGED dvars /\ \A c \in Buf : blockno[c] # k
  BY DEF BgetMiss, Asked, At
<1>2. PICK b \in Buf :
        /\ Users(b) = {} /\ blockno[b] \notin pinned /\ valid' = [valid EXCEPT ![b] = FALSE]
        /\ blockno' = [blockno EXCEPT ![b] = k] /\ th' = [th EXCEPT ![p] = Frame("lock", b)]
  BY Evicted
<1>3. th'[p].pc = "lock" /\ \A q \in Proc : q # p => th'[q] = th[q]
  BY <1>2, MovesFrame DEF Labels
<1>4. /\ blockno \in [Buf -> Block \union {None}] /\ valid \in [Buf -> BOOLEAN]
      /\ image' = image /\ data' = data
  BY <1>1, Typed DEF dvars
<1>5. /\ \A c \in Buf : c # b => blockno'[c] = blockno[c] /\ valid'[c] = valid[c]
      /\ ~valid'[b]
  BY <1>2, <1>4
<1>6. StoredRight /\ HoldingRight /\ StoredRight' /\ HoldingRight'
  BY MappingRight, MappingRightNext
<1>7. \A q \in Proc : Keeping(q) => th[q].b \in Buf /\ th[q].b # b
  BY <1>2, MineIsBuf DEF Users, At, Mine, Keeping
<1>8. \A q \in Proc : (Keeping(q)' <=> Keeping(q)) /\ (Keeping(q) => th'[q] = th[q])
  BY <1>1, <1>3 DEF Keeping
<1>9. \A x \in Block : \A q \in Proc : Holding(x, q)' <=> Holding(x, q)
  BY <1>5, <1>7, <1>8 DEF Holding, Keeping, Mine
<1>10. holding' = holding
  BY <1>6, <1>9, SameHolders
<1>11. valid[b] => data[b] = image[blockno[b]] /\ blockno[b] \in Block
  <2>1. ~\E q \in Proc : th[q].b = b /\ th[q].dirty
    BY <1>2 DEF Users, At, Mine, Inv, LockInv
  <2> QED
    BY <1>2, <2>1 DEF Inv, StoreInv
<1>12. ASSUME NEW x \in Block
       PROVE  stored'[x] = stored[x]
  <2>1. CASE \E c \in Buf : c # b /\ blockno[c] = x /\ valid[c]
    BY <1>4, <1>5, <1>6, <2>1 DEF StoredRight
  <2>2. CASE ~\E c \in Buf : c # b /\ blockno[c] = x /\ valid[c]
    <3>1. stored'[x] = image[x]
      BY <1>4, <1>5, <1>6, <2>2 DEF StoredRight
    <3>2. CASE blockno[b] = x /\ valid[b]
      BY <1>6, <1>11, <3>1, <3>2 DEF StoredRight
    <3>3. CASE ~(blockno[b] = x /\ valid[b])
      BY <1>6, <2>2, <3>1, <3>3 DEF StoredRight
    <3> QED
      BY <3>2, <3>3
  <2> QED
    BY <2>1, <2>2
<1>13. stored' = stored
  BY <1>6, <1>12 DEF StoredRight
<1> QED
  BY <1>10, <1>13

\* The device changes a block whose buffer is valid, or a buffer that is not.
LEMMA CompleteMaps ==
  ASSUME Inv, Inv', NEW x \in 1 .. Len(avail), Complete(x), UNCHANGED cache
  PROVE  UNCHANGED <<stored, holding>>
<1>1. UNCHANGED <<th, blockno, valid>>
  BY DEF cache
<1>2. PICK q \in Proc :
         /\ th[q].b \in Buf /\ blockno[th[q].b] \in Block
         /\ \/ /\ th[q].pc = "writing" /\ data' = data
               /\ image' = [image EXCEPT ![blockno[th[q].b]] = data[th[q].b]]
            \/ /\ th[q].pc = "reading" /\ image' = image
               /\ data' = [data EXCEPT ![th[q].b] = image[blockno[th[q].b]]]
  BY Carried
<1>3. /\ StoredRight /\ HoldingRight /\ StoredRight' /\ HoldingRight' /\ LockInv
      /\ image \in [Block -> Val] /\ data \in [Buf -> Val]
  BY MappingRight, MappingRightNext, Typed DEF Inv
<1>4. \A y \in Block : \A p \in Proc : Holding(y, p)' <=> Holding(y, p)
  BY <1>1 DEF Holding, Mine
<1>5. holding' = holding
  BY <1>3, <1>4, SameHolders
<1>6. CASE th[q].pc = "writing"
  <2>1. data' = data /\ image' = [image EXCEPT ![blockno[th[q].b]] = data[th[q].b]]
                     /\ valid[th[q].b]
    BY <1>2, <1>3, <1>6 DEF LockInv
  <2>2. \A y \in Block : stored'[y] = stored[y]
    <3> SUFFICES ASSUME NEW y \in Block PROVE stored'[y] = stored[y]
      OBVIOUS
    <3>1. CASE \E c \in Buf : blockno[c] = y /\ valid[c]
      BY <1>1, <1>3, <2>1, <3>1 DEF StoredRight
    <3>2. CASE ~\E c \in Buf : blockno[c] = y /\ valid[c]
      <4>1. image'[y] = image[y]
        BY <1>2, <1>3, <2>1, <3>2
      <4> QED
        BY <1>1, <1>3, <3>2, <4>1 DEF StoredRight
    <3> QED
      BY <3>1, <3>2
  <2> QED
    BY <1>3, <1>5, <2>2 DEF StoredRight
<1>7. CASE th[q].pc = "reading"
  <2>1. image' = image /\ data' = [data EXCEPT ![th[q].b] = image[blockno[th[q].b]]]
                       /\ ~valid[th[q].b]
    BY <1>2, <1>3, <1>7 DEF LockInv
  <2>2. \A y \in Block : stored'[y] = stored[y]
    <3> SUFFICES ASSUME NEW y \in Block PROVE stored'[y] = stored[y]
      OBVIOUS
    <3>1. CASE \E c \in Buf : blockno[c] = y /\ valid[c]
      <4>1. PICK c \in Buf : blockno[c] = y /\ valid[c]
        BY <3>1
      <4>2. data'[c] = data[c]
        BY <1>3, <2>1, <4>1
      <4> QED
        BY <1>1, <1>3, <4>1, <4>2 DEF StoredRight
    <3>2. CASE ~\E c \in Buf : blockno[c] = y /\ valid[c]
      BY <1>1, <1>3, <2>1, <3>2 DEF StoredRight
    <3> QED
      BY <3>1, <3>2
  <2> QED
    BY <1>3, <1>5, <2>2 DEF StoredRight
<1> QED
  BY <1>2, <1>6, <1>7

\* A read that ends gives the block to the process.
LEMMA ReadDoneMaps ==
  ASSUME Inv, Inv', NEW p \in Proc, ReadDone(p)
  PROVE  Store!Next
<1>0. PICK b \in Buf : b = th[p].b /\ blockno[b] \in Block
  BY MineIsBuf DEF ReadDone, At
<1>1. /\ th[p].pc = "reading" /\ rw[p].pc = "out" /\ UNCHANGED dvars /\ blockno' = blockno
      /\ To(p, "hold") /\ valid' = [valid EXCEPT ![b] = TRUE]
  BY <1>0 DEF ReadDone, At, Returned, Mine
<1>2. /\ th'[p].pc = "hold" /\ th'[p].b = th[p].b /\ \A q \in Proc : q # p => th'[q] = th[q]
  BY <1>1, MovesTo DEF Labels
<1>3. /\ StoredRight /\ HoldingRight /\ StoredRight' /\ HoldingRight'
      /\ valid \in [Buf -> BOOLEAN] /\ image' = image /\ data' = data
  BY <1>1, MappingRight, MappingRightNext, Typed DEF dvars
<1>4. \A c \in Buf : blockno[c] = blockno[b] => c = b
  BY <1>0, NotNone DEF Inv, CountInv
<1>5. ~valid[b] /\ data[b] = image[blockno[b]]
  BY <1>0, <1>1 DEF Inv, LockInv, StoreInv, Answered
<1>6. \A x \in Block : stored'[x] = stored[x]
  <2> SUFFICES ASSUME NEW x \in Block PROVE stored'[x] = stored[x]
    OBVIOUS
  <2>1. CASE x = blockno[b]
    <3>1. stored[x] = image[x]
      BY <1>3, <1>4, <1>5, <2>1 DEF StoredRight
    <3>2. stored'[x] = data[b]
      BY <1>1, <1>3, <2>1 DEF StoredRight
    <3> QED
      BY <1>5, <2>1, <3>1, <3>2
  <2>2. CASE x # blockno[b]
    <3>1. \A c \in Buf : blockno[c] = x => valid'[c] = valid[c]
      BY <1>1, <1>3, <2>2
    <3>2. CASE \E c \in Buf : blockno[c] = x /\ valid[c]
      BY <1>1, <1>3, <3>1, <3>2 DEF StoredRight
    <3>3. CASE ~\E c \in Buf : blockno[c] = x /\ valid[c]
      BY <1>1, <1>3, <3>1, <3>3 DEF StoredRight
    <3> QED
      BY <3>2, <3>3
  <2> QED
    BY <2>1, <2>2
<1>7. stored' = stored
  BY <1>3, <1>6 DEF StoredRight
<1>8. ~Held(blockno[b])
  <2> SUFFICES ASSUME NEW q \in Proc, Holding(blockno[b], q) PROVE FALSE
    BY DEF Held
  <2>1. th[q].b = b /\ Holds(q) /\ Holds(p) /\ q # p
    BY <1>1, <1>4, MineIsBuf DEF Holding, Mine, Holds
  <2> QED
    BY <1>0, <2>1, HoldersApart
<1>9. PICK k \in Block : k = blockno[b]
  BY <1>0
<1>10. Holding(k, p)' /\ ~Held(k)
  BY <1>0, <1>1, <1>2, <1>8, <1>9 DEF Holding, Mine
<1>11. \A x \in Block : x # k => \A q \in Proc : Holding(x, q)' <=> Holding(x, q)
  BY <1>0, <1>1, <1>2, <1>9 DEF Holding, Mine
<1> QED
  BY <1>3, <1>7, <1>10, <1>11, HoldMaps

\* A buffer that is valid gives its block to who gets its lock.
LEMMA LockBufMaps ==
  ASSUME Inv, Inv', NEW p \in Proc, LockBuf(p)
  PROVE  Store!Next \/ UNCHANGED <<stored, holding>>
<1>0. PICK b \in Buf : b = th[p].b /\ blockno[b] \in Block
  BY MineIsBuf DEF LockBuf, At
<1>1. /\ th[p].pc = "lock" /\ slock[b] = None /\ UNCHANGED <<blockno, valid>>
      /\ UNCHANGED <<image, data>>
  BY <1>0, CallQuiet DEF LockBuf, At, Mine
<1>2. CASE ~valid[b]
  <2>1. To(p, "reading")
    BY <1>0, <1>2 DEF LockBuf, Mine
  <2>2. th'[p].pc = "reading" /\ \A q \in Proc : q # p => th'[q] = th[q]
    BY <2>1, MovesTo DEF Labels
  <2>3. SameKeeping
    BY <1>1, <2>2 DEF SameKeeping, Keeping
  <2> QED
    BY <1>1, <2>3, QuietMaps
<1>3. CASE valid[b]
  <2>1. To(p, "hold")
    BY <1>0, <1>3 DEF LockBuf, Mine
  <2>2. th'[p].pc = "hold" /\ th'[p].b = th[p].b /\ \A q \in Proc : q # p => th'[q] = th[q]
    BY <2>1, MovesTo DEF Labels
  <2>3. PICK k \in Block : k = blockno[b]
    BY <1>0
  <2>4. ~Held(k)
    <3> SUFFICES ASSUME NEW q \in Proc, Holding(k, q) PROVE FALSE
      BY DEF Held
    <3>1. th[q].b \in Buf /\ blockno[th[q].b] = blockno[b] /\ Holds(q)
      BY <2>3, MineIsBuf DEF Holding, Mine, Holds
    <3>2. th[q].b = b
      BY <1>0, <3>1, NotNone DEF Inv, CountInv
    <3>3. slock[b] = q
      BY <3>1, <3>2 DEF Inv, LockInv
    <3> QED
      BY <1>1, <3>3, NotNone
  <2>5. Holding(k, p)' /\ \A x \in Block : x # k => \A q \in Proc : Holding(x, q)' <=> Holding(x, q)
    BY <1>0, <1>1, <2>2, <2>3 DEF Holding, Mine
  <2>6. HoldingRight /\ HoldingRight' /\ stored' = stored
    BY <1>1, MappingRight, MappingRightNext, SameStore
  <2> QED
    BY <2>4, <2>5, <2>6, HoldMaps
<1> QED
  BY <1>2, <1>3

\* releasesleep gives the block up.
LEMMA UnlockMaps ==
  ASSUME Inv, Inv', NEW p \in Proc, Unlock(p)
  PROVE  Store!Next
<1>1. UNCHANGED dvars /\ UNCHANGED <<blockno, valid>>
  BY DEF Unlock
<1>2. /\ th[p].pc \in {"hold", "release"} /\ th'[p].pc = "drop"
      /\ \A q \in Proc : th'[q].b = th[q].b
      /\ \A q \in Proc : q # p => \/ th'[q].pc = th[q].pc
                                  \/ th[q].pc = "asleep" /\ th'[q].pc = "lock"
  BY UnlockMoves
<1>3. PICK k \in Block : k = blockno[th[p].b]
  BY <1>2, MineIsBuf
<1>4. Holding(k, p)
  BY <1>2, <1>3 DEF Holding, Mine
<1>5. \A x \in Block : \A q \in Proc : Holding(x, q)' <=> q # p /\ Holding(x, q)
  BY <1>1, <1>2 DEF Holding, Mine
<1>6. \A q \in Proc : ~Holding(k, q)'
  BY <1>4, <1>5, OneHolder
<1>7. \A x \in Block : x # k => \A q \in Proc : Holding(x, q)' <=> Holding(x, q)
  BY <1>3, <1>5 DEF Holding, Mine
<1>8. HoldingRight /\ HoldingRight' /\ stored' = stored
  BY <1>1, MappingRight, MappingRightNext, SameStore DEF dvars
<1> QED
  BY <1>4, <1>6, <1>7, <1>8, ReleaseMaps

\* Only the holder of a block changes it.
LEMMA ModifyMaps ==
  ASSUME Inv, Inv', NEW p \in Proc, Modify(p)
  PROVE  Store!Next
<1>0. PICK b \in Buf : b = th[p].b /\ blockno[b] \in Block
  BY MineIsBuf DEF Modify, At
<1>1. /\ th[p].pc = "hold" /\ UNCHANGED <<image, blockno, valid>>
      /\ th' = [th EXCEPT ![p].dirty = TRUE] /\ \E v \in Val : data' = [data EXCEPT ![b] = v]
  BY <1>0 DEF Modify, At, Mine
<1>2. th \in [Proc -> Frames] /\ data \in [Buf -> Val] /\ valid[b]
  BY <1>0, <1>1, Typed DEF Inv, LockInv
<1>3. PICK v \in Val : data' = [data EXCEPT ![b] = v]
  BY <1>1
<1>4. PICK k \in Block : k = blockno[b]
  BY <1>0
<1>5. \A q \in Proc : th'[q].pc = th[q].pc /\ th'[q].b = th[q].b
  BY <1>1, <1>2 DEF Frames
<1>6. StoredRight /\ HoldingRight /\ StoredRight' /\ HoldingRight'
  BY MappingRight, MappingRightNext
<1>7. \A x \in Block : \A q \in Proc : Holding(x, q)' <=> Holding(x, q)
  BY <1>1, <1>5 DEF Holding, Mine
<1>8. holding' = holding
  BY <1>6, <1>7, SameHolders
<1>9. holding[k] = p
  BY <1>0, <1>1, <1>4, <1>6 DEF HoldingRight, Holding, Mine
<1>10. stored'[k] = v
  BY <1>1, <1>2, <1>3, <1>4, <1>6 DEF StoredRight
<1>11. ASSUME NEW x \in Block, x # k
       PROVE  stored'[x] = stored[x]
  <2>1. CASE \E c \in Buf : blockno[c] = x /\ valid[c]
    <3>1. PICK c \in Buf : blockno[c] = x /\ valid[c]
      BY <2>1
    <3>2. data'[c] = data[c]
      BY <1>2, <1>3, <1>4, <1>11, <3>1
    <3> QED
      BY <1>1, <1>6, <3>1, <3>2 DEF StoredRight
  <2>2. CASE ~\E c \in Buf : blockno[c] = x /\ valid[c]
    BY <1>1, <1>6, <2>2 DEF StoredRight
  <2> QED
    BY <2>1, <2>2
<1>12. stored' = [stored EXCEPT ![k] = v]
  BY <1>6, <1>10, <1>11 DEF StoredRight
<1>13. Store!Store(p, k)
  BY <1>8, <1>9, <1>12 DEF Store!Store
<1> QED
  BY <1>13 DEF Store!Next

\* The other steps of a process with the cache.
LEMMA PlainMaps ==
  ASSUME Inv, Inv', NEW p \in Proc,
         LockSleep(p) \/ LogWrite(p) \/ Bwrite(p) \/ WriteDone(p) \/ Drop(p)
  PROVE  UNCHANGED <<stored, holding>>
<1>1. UNCHANGED <<blockno, valid>>
  BY DEF LockSleep, LogWrite, Bwrite, WriteDone, Drop
<1>2. UNCHANGED <<image, data>>
  BY CallQuiet DEF LockSleep, LogWrite, WriteDone, Drop, dvars
<1>3. SameKeeping
  <2>1. CASE LockSleep(p)
    <3>1. th[p].pc = "lock" /\ th'[p].pc = "asleep" /\ \A q \in Proc : q # p => th'[q] = th[q]
      BY <2>1, MovesTo DEF LockSleep, At, Labels
    <3> QED
      BY <3>1 DEF SameKeeping, Keeping
  <2>2. CASE LogWrite(p) \/ WriteDone(p)
    <3>1. th' = [th EXCEPT ![p] = [@ EXCEPT !.dirty = FALSE, !.pc = "release"]] /\ Keeping(p)
      BY <2>2 DEF LogWrite, WriteDone, At, Keeping
    <3>2. /\ th'[p].pc = "release" /\ th'[p].b = th[p].b /\ \A q \in Proc : q # p => th'[q] = th[q]
      BY <3>1, MovesClean
    <3> QED
      BY <3>1, <3>2 DEF SameKeeping, Keeping
  <2>3. CASE Bwrite(p)
    <3>1. /\ th[p].pc = "hold" /\ th'[p].pc = "writing" /\ th'[p].b = th[p].b
          /\ \A q \in Proc : q # p => th'[q] = th[q]
      BY <2>3, MovesTo DEF Bwrite, At, Labels
    <3> QED
      BY <3>1 DEF SameKeeping, Keeping
  <2>4. CASE Drop(p)
    <3>1. th[p].pc = "drop" /\ th' = [th EXCEPT ![p] = Frame("idle", None)]
      BY <2>4 DEF Drop, At
    <3>2. th'[p].pc = "idle" /\ \A q \in Proc : q # p => th'[q] = th[q]
      BY <3>1, MovesFrame DEF Labels
    <3> QED
      BY <3>1, <3>2 DEF SameKeeping, Keeping
  <2> QED
    BY <2>1, <2>2, <2>3, <2>4
<1> QED
  BY <1>1, <1>2, <1>3, QuietMaps

\* bget that finds the block is a stutter: the lock comes later.
LEMMA BgetHitMaps ==
  ASSUME Inv, Inv', NEW p \in Proc, NEW k \in Block, BgetHit(p, k)
  PROVE  UNCHANGED <<stored, holding>>
<1>1. th[p].pc = "idle" /\ UNCHANGED <<blockno, valid, image, data>>
  BY DEF BgetHit, Asked, At, dvars
<1>2. PICK b \in Buf : th' = [th EXCEPT ![p] = Frame("lock", b)]
  BY DEF BgetHit
<1>3. th'[p].pc = "lock" /\ \A q \in Proc : q # p => th'[q] = th[q]
  BY <1>2, MovesFrame DEF Labels
<1>4. SameKeeping
  BY <1>1, <1>3 DEF SameKeeping, Keeping
<1> QED
  BY <1>1, <1>4, QuietMaps

\* A kill is a stutter.
LEMMA KillMaps ==
  ASSUME Inv, Inv', NEW p \in Proc, Kill(p)
  PROVE  UNCHANGED <<stored, holding>>
<1>1. UNCHANGED <<blockno, valid, image, data>>
  BY DEF Kill, device
<1>2. CASE UNCHANGED th
  BY <1>1, <1>2, QuietMaps DEF SameKeeping, Keeping
<1>3. CASE th[p].pc = "asleep" /\ To(p, "lock")
  <2>1. th'[p].pc = "lock" /\ \A q \in Proc : q # p => th'[q] = th[q]
    BY <1>3, MovesTo DEF Labels
  <2>2. SameKeeping
    BY <1>3, <2>1 DEF SameKeeping, Keeping
  <2> QED
    BY <1>1, <2>2, QuietMaps
<1> QED
  BY <1>2, <1>3 DEF Kill, At

\* Every step of the cache and of the driver is a step of the store, or none.
LEMMA MappingStep ==
  ASSUME Inv, Inv', Run
  PROVE  Store!Next \/ UNCHANGED <<stored, holding>>
<1>1. ASSUME NEW p \in Proc, CacheOnly(p)
      PROVE  Store!Next \/ UNCHANGED <<stored, holding>>
  BY <1>1, Wanted, BgetHitMaps, BgetMissMaps, PlainMaps, ReadDoneMaps, UnlockMaps DEF CacheOnly, Call
<1>2. ASSUME UNCHANGED cache, UNCHANGED <<image, data>>
      PROVE  UNCHANGED <<stored, holding>>
  <2>1. UNCHANGED <<th, blockno, valid>>
    BY <1>2 DEF cache
  <2>2. SameKeeping
    BY <2>1 DEF SameKeeping, Keeping
  <2> QED
    BY <1>2, <2>1, <2>2, QuietMaps
<1>3. ASSUME NEW p \in Proc, RwStart(p) \/ RwDone(p) \/ RwNoDesc(p) \/ RwAgain(p)
      PROVE  UNCHANGED <<image, data>>
  BY <1>3 DEF RwStart, RwDone, RwNoDesc, RwAgain, device
<1>4. ASSUME HandleUsed \/ Claim \/ Ack \/ Handled \/ Completed
      PROVE  UNCHANGED <<image, data>>
  BY <1>4 DEF HandleUsed, Claim, Ack, Handled, Completed, device
<1> QED
  BY <1>1, <1>2, <1>3, <1>4, Steps, LockBufMaps, PlainMaps, ModifyMaps, KillMaps, CompleteMaps

\* Every block has one content, that of who held it last, whatever is cached, evicted or on its
\* way to the disk (bio.c:58-148, virtio_disk.c:213-332).
THEOREM Refinement == Spec => ImplementsStore
<1>1. Init => Store!Init
  BY MappingInit
<1>2. Inv /\ Inv' /\ [Next]_vars => [Store!Next]_(Store!vars)
  <2> SUFFICES ASSUME Inv, Inv', [Next]_vars PROVE Store!Next \/ UNCHANGED <<stored, holding>>
    BY DEF Store!vars
  <2>1. CASE Panic \/ UNCHANGED vars
    <3>1. UNCHANGED <<image, data, th, blockno, valid>>
      BY <2>1, PanicSettles DEF vars, dvars, cache
    <3>2. SameKeeping
      BY <3>1 DEF SameKeeping, Keeping
    <3> QED
      BY <3>1, <3>2, QuietMaps
  <2> QED
    BY <2>1, MappingStep DEF Next, Running
<1> QED
  BY <1>1, <1>2, InvHolds, PTL DEF Spec, ImplementsStore, Store!Spec

=============================================================================

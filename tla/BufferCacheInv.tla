--------------------------- MODULE BufferCacheInv ---------------------------
(***************************************************************************)
(* The inductive invariant of BufferCache and of the driver below it.      *)
(*                                                                         *)
(* It says whose each descriptor and each buffer is, what the device still *)
(* has to do for whom, and when a buffer may differ from the disk.         *)
(***************************************************************************)
EXTENDS BufferCache

\* A request of p is with the device, or just answered: p has a chain.
Waiting(p) == rw[p].pc \in {"wait", "check"}
Waiters == {p \in Proc : Waiting(p)}

\* p has b->lock.
Holds(p) == th[p].pc \in {"reading", "hold", "writing", "release"}

\* The requests that the device has, and those it has answered.
Elems(s) == {s[x] : x \in 1 .. Len(s)}
Queued   == Elems(avail)
Finished == Elems(used)

NoRepeat(s) == \A x, y \in 1 .. Len(s) : s[x] = s[y] => x = y

\* The second and third descriptors of the chain at i.
Second(i) == desc[i].next
Third(i)  == desc[Second(i)].next

DiskType ==
  /\ image \in [Block -> Val] /\ data \in [Buf -> Val] /\ onDisk \in [Buf -> BOOLEAN]
  /\ free \subseteq Desc
  /\ desc \in [Desc -> [b : Buf \union {None}, next : 0 .. NUM]]
  /\ ops \in [Desc -> [w : BOOLEAN, k : Block \union {None}]]
  /\ info \in [Desc -> [b : Buf \union {None}, done : BOOLEAN]]
  /\ rw \in [Proc -> [pc : {"out", "alloc", "nodesc", "wait", "check"}, b : Buf \union {None},
                      w : BOOLEAN, k : Block \union {None}, idx : 0 .. NUM]]

CacheType ==
  /\ blockno \in [Buf -> Block \union {None}] /\ valid \in [Buf -> BOOLEAN]
  /\ refcnt \in [Buf -> Nat] /\ slock \in [Buf -> Proc \union {None}] /\ pinned \subseteq Block
  /\ th \in [Proc -> [pc : {"idle", "lock", "asleep", "reading", "hold", "writing", "release", "drop"},
                      b : Buf \union {None}, dirty : BOOLEAN]]

RingType == avail \in Seq(Desc) /\ used \in Seq(Desc)

\* Each request has a chain of three descriptors of its own, which say what it asks for.
ChainOf(p) ==
  LET i == rw[p].idx IN
  /\ i \in Desc /\ Second(i) \in Desc /\ Third(i) \in Desc
  /\ i # Second(i) /\ i # Third(i) /\ Second(i) # Third(i)
  /\ Chain(i) \intersect free = {}
  /\ desc[Second(i)].b = rw[p].b /\ info[i].b = rw[p].b /\ ops[i] = [w |-> rw[p].w, k |-> rw[p].k]

ChainInv ==
  /\ \A p \in Proc : Waiting(p) => ChainOf(p)
  /\ \A p \in Proc : ~Waiting(p) => rw[p].idx = End
  /\ \A p, q \in Proc : p # q /\ Waiting(p) /\ Waiting(q) =>
       Chain(rw[p].idx) \intersect Chain(rw[q].idx) = {}
  /\ \A i \in free : desc[i] = Clear
  /\ Cardinality(free) + 3 * Cardinality(Waiters) = NUM

\* b->disk is set while a request is in one of the rings, in which it is once.
RingInv ==
  /\ NoRepeat(avail) /\ NoRepeat(used) /\ Queued \intersect Finished = {}
  /\ \A i \in Queued \union Finished : \E p \in Proc : Waiting(p) /\ rw[p].idx = i
  /\ \A p \in Proc : Waiting(p) =>
       (onDisk[rw[p].b] <=> rw[p].idx \in Queued \union Finished)
  /\ \A i \in Finished : info[i].done

\* Who is inside virtio_disk_rw has the buffer's lock, and asks for its block.
CallInv ==
  \A p \in Proc : rw[p].pc # "out" =>
    /\ th[p].pc \in {"reading", "writing"} /\ rw[p].b = th[p].b /\ rw[p].k = blockno[th[p].b]
    /\ rw[p].w = (th[p].pc = "writing")

LockInv ==
  /\ \A p \in Proc : th[p].pc = "idle" => th[p].b = None
  /\ \A p \in Proc : th[p].pc # "idle" => th[p].b \in Buf /\ blockno[th[p].b] \in Block
  /\ \A p \in Proc : Holds(p) => slock[th[p].b] = p
  /\ \A b \in Buf : slock[b] # None => Holds(slock[b]) /\ th[slock[b]].b = b
  /\ \A p \in Proc : th[p].dirty => th[p].pc \in {"hold", "writing"}
  /\ \A p \in Proc : th[p].pc \in {"hold", "writing", "release"} => valid[th[p].b]
  /\ \A p \in Proc : th[p].pc = "reading" => ~valid[th[p].b]

\* One buffer for a block, and a reference for each process and each pin.
Pin(b) == IF blockno[b] \in pinned THEN 1 ELSE 0

CountInv ==
  /\ \A b, c \in Buf : blockno[b] = blockno[c] /\ blockno[b] # None => b = c
  /\ \A b \in Buf : refcnt[b] = Cardinality(Users(b)) + Pin(b)
  /\ \A k \in pinned : \E b \in Buf : blockno[b] = k
  /\ IsFiniteSet(pinned) /\ Cardinality(pinned) <= MaxPin

\* The list has every buffer once.
LruInv ==
  /\ lru \in Seq(Buf) /\ Len(lru) = Cardinality(Buf)
  /\ \A b \in Buf : \E x \in DOMAIN lru : lru[x] = b

\* The request of p has been carried out.
Answered(p) ==
  /\ th[p].pc \in {"reading", "writing"}
  /\ rw[p].pc = "out" \/ (Waiting(p) /\ rw[p].idx \notin Queued)

\* A valid buffer differs from the disk only while its block is pinned, or its holder has
\* changed it and not written it yet.
StoreInv ==
  /\ \A b \in Buf : valid[b] => blockno[b] \in Block
  /\ \A b \in Buf : valid[b] /\ data[b] # image[blockno[b]] =>
       blockno[b] \in pinned \/ \E p \in Proc : th[p].b = b /\ th[p].dirty
  /\ \A p \in Proc : Answered(p) => data[th[p].b] = image[blockno[th[p].b]]

\* bget panics only if every buffer is referenced.
PanicInv == panicked => \A b \in Buf : refcnt[b] # 0

Inv == DiskType /\ CacheType /\ RingType /\ ChainInv /\ RingInv /\ CallInv /\ LockInv /\ CountInv
       /\ LruInv /\ StoreInv /\ PanicInv
=============================================================================

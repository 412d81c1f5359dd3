---------------------------- MODULE BufferCache ----------------------------
(***************************************************************************)
(* The buffer cache of kernel/bio.c on the driver of VirtioDisk, with the  *)
(* sleep lock of each buffer.                                              *)
(*                                                                         *)
(* The clients do what fs.c and log.c do with a block: they read it; they  *)
(* change it and pin it (log_write); they write a pinned block home and    *)
(* unpin it (install_trans); they change it and write it at once           *)
(* (write_log, write_head).                                                *)
(*                                                                         *)
(* Some of them ask for a second buffer while they hold a first: bmap and  *)
(* itrunc the bitmap, or a new block, with the indirect block in hand;     *)
(* write_log and install_trans a block's home with its log block in hand.  *)
(* Such a process is two members of Proc, one for each buffer.             *)
(***************************************************************************)
EXTENDS VirtioDisk

CONSTANTS
  Outer,    \* the member of Proc that holds the first buffer of a process, for the one with the second
  Level,    \* the order in which blocks are taken: the log's, indirect blocks, all others
  MaxPin,   \* blocks that the log pins
  Wants,    \* bound: the blocks that each asks for
  MaxOp     \* bound: calls of bread and kill

ASSUME CacheAssumption ==
  /\ MaxPin \in Nat /\ MaxOp \in Nat /\ None \notin Block
  /\ IsFiniteSet(Buf) /\ IsFiniteSet(Proc)
  /\ Outer \in [Proc -> Proc \union {None}] /\ Level \in [Block -> Nat]
  /\ Wants \in [Proc -> SUBSET Block]

VARIABLES
  lru,      \* bcache.head, the most recently used buffer first
  blockno, valid, refcnt,
  slock,    \* the holder of b->lock
  pinned,   \* the blocks that are pinned
  th,       \* what each process is at, and its buffer
  ops_left,
  panicked  \* bget has found no buffer, and the kernel has stopped

cache == <<lru, blockno, valid, refcnt, slock, pinned, th, ops_left>>
vars  == <<dvars, cache, panicked>>

Frame(l, b) == [pc |-> l, b |-> b, dirty |-> FALSE]

Init ==
  /\ DInit
  /\ lru = SetToSeq(Buf)
  /\ blockno = [b \in Buf |-> None] /\ valid = [b \in Buf |-> FALSE] /\ refcnt = [b \in Buf |-> 0]
  /\ slock = [b \in Buf |-> None] /\ pinned = {}
  /\ th = [p \in Proc |-> Frame("idle", None)]
  /\ ops_left = MaxOp /\ panicked = FALSE

At(p, l) == th[p].pc = l
To(p, l) == th' = [th EXCEPT ![p].pc = l]
Mine(p)  == th[p].b

-----------------------------------------------------------------------------
\* A process does one thing at a time: with the other buffer it is not in a call.
Others(p)  == {q \in Proc : Outer[q] = p \/ Outer[p] = q}
Turn(p)    == \A q \in Others(p) : th[q].pc \in {"idle", "hold"}

\* Bug: the second buffer is asked for in any order of the blocks.
InOrderAny(p, k) == \A q \in Others(p) : At(q, IF Outer[p] = q THEN "hold" ELSE "idle")

\* A first buffer is asked for with none in hand, a second one only after the first.
InOrder(p, k) ==
  /\ \A q \in Others(p) : At(q, IF Outer[p] = q THEN "hold" ELSE "idle")
  /\ Outer[p] # None => Level[blockno[Mine(Outer[p])]] < Level[k]

\* bread is called; the bound allows so many calls.
Asked(p, k) == At(p, "idle") /\ InOrder(p, k) /\ ops_left > 0 /\ ops_left' = ops_left - 1

\* The block is cached.
BgetHit(p, k) ==
  /\ Asked(p, k)
  /\ \E b \in Buf : /\ blockno[b] = k
                    /\ refcnt' = [refcnt EXCEPT ![b] = @ + 1]
                    /\ th' = [th EXCEPT ![p] = Frame("lock", b)]
  /\ UNCHANGED <<dvars, lru, blockno, valid, slock, pinned>>

Unused == {x \in DOMAIN lru : refcnt[lru[x]] = 0}

\* Bug: the buffer keeps b->valid.
BgetMissValid(p, k) ==
  LET b == lru[Max(Unused)] IN
  /\ Asked(p, k)
  /\ \A x \in Buf : blockno[x] # k
  /\ Unused # {}
  /\ blockno' = [blockno EXCEPT ![b] = k]
  /\ refcnt'  = [refcnt EXCEPT ![b] = 1]
  /\ th' = [th EXCEPT ![p] = Frame("lock", b)]
  /\ UNCHANGED <<dvars, lru, valid, slock, pinned>>

\* The buffer least recently used takes the block.
BgetMiss(p, k) ==
  LET b == lru[Max(Unused)] IN
  /\ Asked(p, k)
  /\ \A x \in Buf : blockno[x] # k
  /\ Unused # {}
  /\ blockno' = [blockno EXCEPT ![b] = k]
  /\ valid'   = [valid EXCEPT ![b] = FALSE]
  /\ refcnt'  = [refcnt EXCEPT ![b] = 1]
  /\ th' = [th EXCEPT ![p] = Frame("lock", b)]
  /\ UNCHANGED <<dvars, lru, slock, pinned>>

\* panic("bget: no buffers")
BgetPanic(p, k) ==
  /\ Asked(p, k)
  /\ \A x \in Buf : blockno[x] # k
  /\ Unused = {}
  /\ panicked' = TRUE
  /\ UNCHANGED <<dvars, lru, blockno, valid, refcnt, slock, pinned, th>>

\* acquiresleep; bread then reads the block unless the buffer is valid.
LockBuf(p) ==
  LET b == Mine(p) IN
  /\ At(p, "lock") /\ slock[b] = None
  /\ slock' = [slock EXCEPT ![b] = p]
  /\ IF valid[b] THEN To(p, "hold") /\ UNCHANGED dvars
     ELSE /\ To(p, "reading")
          /\ RwCall(p, b, blockno[b], FALSE)
          /\ UNCHANGED <<device, driver, intr>>
  /\ UNCHANGED <<lru, blockno, valid, refcnt, pinned, ops_left>>

LockSleep(p) ==
  /\ At(p, "lock") /\ slock[Mine(p)] # None
  /\ To(p, "asleep")
  /\ UNCHANGED <<dvars, lru, blockno, valid, refcnt, slock, pinned, ops_left>>

ReadDone(p) ==
  /\ At(p, "reading") /\ Returned(p)
  /\ valid' = [valid EXCEPT ![Mine(p)] = TRUE]
  /\ To(p, "hold")
  /\ UNCHANGED <<dvars, lru, blockno, refcnt, slock, pinned, ops_left>>

\* The client changes b->data.
Modify(p) ==
  LET b == Mine(p) IN
  /\ At(p, "hold") /\ Turn(p) /\ ~th[p].dirty
  /\ \E v \in Val \ {data[b]} : data' = [data EXCEPT ![b] = v]
  /\ th' = [th EXCEPT ![p].dirty = TRUE]
  /\ UNCHANGED <<image, onDisk, avail, used, irq, driver, intr, rw,
                 lru, blockno, valid, refcnt, slock, pinned, ops_left>>

Bpin(b)   == [refcnt EXCEPT ![b] = @ + 1]
Bunpin(b) == [refcnt EXCEPT ![b] = @ - 1]

\* log_write of a block that is not in the log: bpin.
LogWrite(p) ==
  LET b == Mine(p) IN
  /\ At(p, "hold") /\ Turn(p) /\ th[p].dirty
  /\ blockno[b] \in pinned \/ Cardinality(pinned) < MaxPin
  /\ refcnt' = IF blockno[b] \in pinned THEN refcnt ELSE Bpin(b)
  /\ pinned' = pinned \union {blockno[b]}
  /\ th' = [th EXCEPT ![p] = [@ EXCEPT !.dirty = FALSE, !.pc = "release"]]
  /\ UNCHANGED <<dvars, lru, blockno, valid, slock, ops_left>>

\* bwrite: of a pinned block to install it, or of what was just changed.
Bwrite(p) ==
  LET b == Mine(p) IN
  /\ At(p, "hold") /\ Turn(p)
  /\ th[p].dirty # (blockno[b] \in pinned)
  /\ RwCall(p, b, blockno[b], TRUE)
  /\ To(p, "writing")
  /\ UNCHANGED <<device, driver, intr, lru, blockno, valid, refcnt, slock, pinned, ops_left>>

\* Then bunpin, if the block was installed.
WriteDone(p) ==
  LET b == Mine(p) IN
  /\ At(p, "writing") /\ Returned(p)
  /\ th' = [th EXCEPT ![p] = [@ EXCEPT !.dirty = FALSE, !.pc = "release"]]
  /\ IF blockno[b] \in pinned
     THEN refcnt' = Bunpin(b) /\ pinned' = pinned \ {blockno[b]}
     ELSE UNCHANGED <<refcnt, pinned>>
  /\ UNCHANGED <<dvars, lru, blockno, valid, slock, ops_left>>

\* brelse: releasesleep, which wakes who sleeps for the buffer.
Unlock(p) ==
  LET b == Mine(p) IN
  /\ At(p, "release") \/ (At(p, "hold") /\ Turn(p) /\ ~th[p].dirty)
  /\ slock' = [slock EXCEPT ![b] = None]
  /\ th' = [q \in Proc |-> IF q = p THEN [th[p] EXCEPT !.pc = "drop"]
                           ELSE IF At(q, "asleep") /\ Mine(q) = b THEN [th[q] EXCEPT !.pc = "lock"]
                           ELSE th[q]]
  /\ UNCHANGED <<dvars, lru, blockno, valid, refcnt, pinned, ops_left>>

\* Then the count, and the place in the list if nobody else has the buffer.
Drop(p) ==
  LET b == Mine(p) IN
  /\ At(p, "drop")
  /\ refcnt' = [refcnt EXCEPT ![b] = @ - 1]
  /\ \E x \in DOMAIN lru :
       lru[x] = b /\ lru' = IF refcnt[b] = 1 THEN <<b>> \o RemoveAt(lru, x) ELSE lru
  /\ th' = [th EXCEPT ![p] = Frame("idle", None)]
  /\ UNCHANGED <<dvars, blockno, valid, slock, pinned, ops_left>>

\* kkill wakes a process wherever it sleeps.
Kill(p) ==
  /\ ops_left > 0 /\ ops_left' = ops_left - 1
  /\ \/ At(p, "asleep") /\ To(p, "lock") /\ UNCHANGED rw
     \/ rw[p].pc = "nodesc" /\ rw' = [rw EXCEPT ![p].pc = "alloc"] /\ UNCHANGED th
     \/ rw[p].pc = "wait" /\ rw' = [rw EXCEPT ![p].pc = "check"] /\ UNCHANGED th
  /\ UNCHANGED <<device, driver, intr, lru, blockno, valid, refcnt, slock, pinned>>

-----------------------------------------------------------------------------
Call(p) == \E k \in Wants[p] : BgetHit(p, k) \/ BgetMiss(p, k)

Rw(p) == RwStart(p) \/ RwNoDesc(p) \/ RwDone(p) \/ RwAgain(p)

\* The steps of the kernel for a process.
Step(p) ==
  \/ LockBuf(p) \/ LockSleep(p) \/ ReadDone(p) \/ Modify(p) \/ LogWrite(p) \/ Bwrite(p)
  \/ WriteDone(p) \/ Unlock(p) \/ Drop(p)

Kernel(p) == Step(p) \/ (Rw(p) /\ UNCHANGED cache)
Hardware  == (Device \/ Handler) /\ UNCHANGED cache

Panic == \E p \in Proc : \E k \in Wants[p] : BgetPanic(p, k)
Run   == Hardware \/ \E p \in Proc : Call(p) \/ Kernel(p) \/ Kill(p)

\* What other CPUs still do after a panic is left out.
Running == ~panicked /\ UNCHANGED panicked
Next    == (~panicked /\ Panic) \/ (Running /\ Run)

\* The scheduler runs every process that can run; the device answers; an
\* interrupt is taken.
Spec     == Init /\ [][Next]_vars
FairSpec == Spec /\ (\A p \in Proc : WF_vars(Running /\ Kernel(p)))
                 /\ WF_vars(Running /\ Device /\ UNCHANGED cache)
                 /\ WF_vars(Running /\ Handler /\ UNCHANGED cache)

-----------------------------------------------------------------------------
(* What must hold. *)

Users(b) == {p \in Proc : ~At(p, "idle") /\ Mine(p) = b}

\* The type invariant.  The list has every buffer once; a block is in one buffer;
\* the lock's holder is the one that uses the buffer; the count is exact, so that
\* a pinned buffer is never recycled, and bget panics only if each buffer is in use.
TypeOK ==
  /\ DTypeOK
  /\ Len(lru) = Cardinality(Buf) /\ \A b \in Buf : \E x \in DOMAIN lru : lru[x] = b
  /\ \A b, c \in Buf : blockno[b] = blockno[c] /\ blockno[b] # None => b = c
  /\ \A b \in Buf :
       /\ refcnt[b] = Cardinality(Users(b)) + (IF blockno[b] \in pinned THEN 1 ELSE 0)
       /\ {p \in Users(b) : th[p].pc \in {"reading", "hold", "writing", "release"}} =
            (IF slock[b] = None THEN {} ELSE {slock[b]})
  /\ panicked => \A b \in Buf : Users(b) # {} \/ blockno[b] \in pinned

\* A block's content: in its buffer once that is valid, on the disk until then.
Holding(k, p) == /\ th[p].pc \in {"hold", "writing", "release"} /\ blockno[Mine(p)] = k
stored == [k \in Block |-> IF \E b \in Buf : blockno[b] = k /\ valid[b]
                           THEN data[CHOOSE b \in Buf : blockno[b] = k /\ valid[b]] ELSE image[k]]
holding == [k \in Block |-> IF \E p \in Proc : Holding(k, p)
                            THEN CHOOSE p \in Proc : Holding(k, p) ELSE None]
Store == INSTANCE BlockStore WITH store <- stored, holder <- holding

\* Whatever is evicted, read again, written in part or in another order: a process
\* that holds a block has its last content, and only it changes that.
ImplementsStore == Store!Spec

\* Every call ends: no completion, descriptor or lock is waited for in vain, by a
\* process that holds another buffer either (unless bget has stopped the kernel).
CallsEnd == \A p \in Proc : ~At(p, "idle") ~> At(p, "idle") \/ panicked
=============================================================================

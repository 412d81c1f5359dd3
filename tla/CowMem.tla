------------------------------- MODULE CowMem -------------------------------
(***************************************************************************)
(* The copy-on-write memory of the kernel: the page allocator and its      *)
(* reference counts (kernel/kernel/kalloc.c), the user page tables         *)
(* (kernel/kernel/vm.c) and the system calls and traps that drive them     *)
(* (fork, exit, wait, sbrk, copyout, the page-fault arm of usertrap).      *)
(*                                                                         *)
(* Every process has one kernel thread, whose frame is k[p].  Its pc says  *)
(* where the thread is: "user" is user mode, "off" a slot whose thread     *)
(* does not run (UNUSED, a child still being built, a ZOMBIE), every other *)
(* label a point of the kernel between two lock operations.  All threads   *)
(* interleave there: that is what several CPUs, kernel preemption and the  *)
(* chaos engine's delays around acquire and release make possible.         *)
(*                                                                         *)
(* refcnt.lock is explicit: the read and the write of a count are two      *)
(* steps between which only the lock keeps the others out.  The list       *)
(* operations under kmem.lock are one step each.                           *)
(*                                                                         *)
(* Abstractions.  Addresses and sizes count pages.  A frame's contents     *)
(* are one value.  Page-table pages and trapframes are not among the       *)
(* frames of Page, so that the allocation of one may fail at any time:     *)
(* MapFail lets mappages return -1.  The order of the free list is         *)
(* forgotten, how often a frame is on it is not.  wait_lock and p->lock    *)
(* are left out: what kwait and kexit do under them is interleaved here    *)
(* with everything, which only adds behaviours.                            *)
(***************************************************************************)
EXTENDS Naturals, FiniteSets

CONSTANTS
  Proc,       \* the slots of proc[NPROC]
  InitProc,   \* the slot of the first process
  Page,       \* the physical frames for user memory
  NVa,        \* the number of user pages of an address space (bounds sbrk)
  Val,        \* what user programs and the kernel store in user memory
  Zero,       \* contents of a frame after memset(mem, 0, PGSIZE)
  Junk,       \* contents after the memset of kalloc (5) and kfree (1)
  NoPage, NoProc,
  InitSz,     \* the first process's size, in pages
  TextSz,     \* its first TextSz pages are read-only
  MapFail     \* may mappages fail to allocate a page-table page?

ASSUME ProcAssumption == InitProc \in Proc /\ NoProc \notin Proc /\ IsFiniteSet(Proc)
ASSUME PageAssumption == NoPage \notin Page /\ IsFiniteSet(Page)
ASSUME SizeAssumption ==
  /\ NVa \in Nat /\ InitSz \in 0 .. NVa /\ TextSz \in 0 .. InitSz
  /\ MapFail \in BOOLEAN

VARIABLES
  refcnt,     \* refcnt.count
  rlock,      \* the holder of refcnt.lock
  freelist,   \* how often each frame is on kmem.freelist
  data,       \* the contents of each frame
  pt,         \* the page tables
  sz,         \* p->sz
  state,      \* p->state; RUNNABLE, RUNNING and SLEEPING are "live"
  parent,     \* p->parent
  k           \* the kernel threads' frames

mem  == <<refcnt, rlock, freelist, data>>
tab  == <<pt, sz, state, parent>>
vars == <<refcnt, rlock, freelist, data, pt, sz, state, parent, k>>

Va   == 0 .. (NVa - 1)
Data == Val \union {Zero, Junk}

PTE      == [pa : Page \union {NoPage}, w : BOOLEAN, cow : BOOLEAN]
Unmapped == [pa |-> NoPage, w |-> FALSE, cow |-> FALSE]
Writable(f) == [pa |-> f, w |-> TRUE, cow |-> FALSE]

Frame == [
  pc   : {"user", "off", "die", "err", "panic", "pop", "kset", "dec", "dec_w", "push",
          "cow_ref", "cow_decide", "cow_copy", "cow_remap", "copyout", "fault_map",
          "grow", "grow_map", "unmap", "clear", "fork", "inc", "inc_w"},
  ret  : {"user", "die", "err", "unmap", "clear", "cow_copy", "grow_map", "fault_map"},
              \* where kalloc or kfree returns to
  uret : {"user", "copyin", "copyout", "err", "shrink", "reap", "fork_fail"},
              \* where uvmunmap or vmfault returns to
  pg   : Page \union {NoPage},   \* the frame in hand: mem, the argument of kfree or krefinc
  va   : 0 .. NVa,   \* the page at hand: the fault's, or a loop's
  hi   : 0 .. NVa,   \* the end of a loop over pages
  nsz  : 0 .. NVa,   \* newsz of uvmdealloc
  tgt  : Proc,       \* the process whose page table is worked on
  tmp  : Nat]        \* the count read under refcnt.lock

\* The frame of page v of process t, which may be none.
Walkaddr(t, v) == pt[<<t, v>>].pa

\* Page v of process t gets the entry e.
Mappages(t, v, e) == pt' = [pt EXCEPT ![<<t, v>>] = e]

\* freewalk finds no leaf in the page table of t.
Leafless(t) == \A v \in Va : Walkaddr(t, v) = NoPage

\* Thread p is at label l with nothing in its locals that is still used.
Idle(p, l) == [pc |-> l, ret |-> "user", uret |-> "user", pg |-> NoPage, va |-> 0,
               hi |-> 0, nsz |-> 0, tgt |-> p, tmp |-> 0]

\* At the start of kfree(a), which returns to l.
Freeing(p, a, l) == [pc |-> "dec", ret |-> l, uret |-> "user", pg |-> a, va |-> 0,
                     hi |-> 0, nsz |-> 0, tgt |-> p, tmp |-> 0]

\* At the start of uvmunmap(t, first, last - first, 1), which returns to u.
Unmapping(t, first, last, u) ==
  [pc |-> "unmap", ret |-> "user", uret |-> u, pg |-> NoPage, va |-> first,
   hi |-> last, nsz |-> 0, tgt |-> t, tmp |-> 0]

\* Thread p goes on with frame f.
Become(p, f) == k' = [k EXCEPT ![p] = f]

Leave(p, l) == Become(p, Idle(p, l))

(***************************************************************************)
(* Init runs: the frames of its pages have one reference each, every       *)
(* other frame has been through kfree in freerange.                        *)
(***************************************************************************)
Init ==
  /\ \E f \in [0 .. (InitSz - 1) -> Page] :
       /\ \A v, w \in 0 .. (InitSz - 1) : f[v] = f[w] => v = w
       /\ pt = [e \in Proc \X Va |->
                  IF e[1] = InitProc /\ e[2] < InitSz
                  THEN [pa |-> f[e[2]], w |-> e[2] >= TextSz, cow |-> FALSE]
                  ELSE Unmapped]
       /\ refcnt   = [a \in Page |-> IF \E v \in 0 .. (InitSz - 1) : f[v] = a THEN 1 ELSE 0]
       /\ freelist = [a \in Page |-> IF \E v \in 0 .. (InitSz - 1) : f[v] = a THEN 0 ELSE 1]
       /\ data     = [a \in Page |-> IF \E v \in 0 .. (InitSz - 1) : f[v] = a THEN Zero ELSE Junk]
  /\ rlock  = NoProc
  /\ sz     = [p \in Proc |-> IF p = InitProc THEN InitSz ELSE 0]
  /\ state  = [p \in Proc |-> IF p = InitProc THEN "live" ELSE "unused"]
  /\ parent = [p \in Proc |-> NoProc]
  /\ k      = [p \in Proc |-> Idle(p, IF p = InitProc THEN "user" ELSE "off")]

-----------------------------------------------------------------------------
(* kalloc *)

KallocPop(p) ==
  /\ k[p].pc = "pop"
  /\ \E a \in Page :
       /\ freelist[a] > 0
       /\ freelist' = [freelist EXCEPT ![a] = @ - 1]
       /\ data'     = [data EXCEPT ![a] = Junk]
       /\ Become(p, [k[p] EXCEPT !.pc = "kset", !.pg = a])
  /\ UNCHANGED <<refcnt, rlock, tab>>

KallocEmpty(p) ==
  /\ k[p].pc = "pop"
  /\ \A a \in Page : freelist[a] = 0
  /\ Become(p, [k[p] EXCEPT !.pc = k[p].ret])
  /\ UNCHANGED <<mem, tab>>

KallocSetCount(p) ==
  /\ k[p].pc = "kset"
  /\ rlock = NoProc
  /\ refcnt' = [refcnt EXCEPT ![k[p].pg] = 1]
  /\ Become(p, [k[p] EXCEPT !.pc = k[p].ret])
  /\ UNCHANGED <<rlock, freelist, data, tab>>

(* kfree; that a count is positive here is part of the invariant NoPanic. *)

\* Bug: the count is read without refcnt.lock.
KfreeReadUnlocked(p) ==
  /\ k[p].pc = "dec"
  /\ refcnt[k[p].pg] >= 1
  /\ Become(p, [k[p] EXCEPT !.pc = "dec_w", !.tmp = refcnt[k[p].pg]])
  /\ UNCHANGED <<mem, tab>>

KfreeRead(p) ==
  /\ k[p].pc = "dec"
  /\ rlock = NoProc
  /\ refcnt[k[p].pg] >= 1
  /\ rlock' = p
  /\ Become(p, [k[p] EXCEPT !.pc = "dec_w", !.tmp = refcnt[k[p].pg]])
  /\ UNCHANGED <<refcnt, freelist, data, tab>>

\* Bug: the count goes down by two.
KfreeWriteTwo(p) ==
  /\ k[p].pc = "dec_w"
  /\ refcnt' = [refcnt EXCEPT ![k[p].pg] = k[p].tmp - 2]
  /\ rlock'  = NoProc
  /\ Become(p, [k[p] EXCEPT !.pc = "push", !.tmp = 0])
  /\ UNCHANGED <<freelist, data, tab>>

KfreeWrite(p) ==
  /\ k[p].pc = "dec_w"
  /\ refcnt' = [refcnt EXCEPT ![k[p].pg] = k[p].tmp - 1]
  /\ rlock'  = NoProc
  /\ Become(p, IF k[p].tmp > 1 THEN [k[p] EXCEPT !.pc = k[p].ret, !.tmp = 0, !.pg = NoPage]
                              ELSE [k[p] EXCEPT !.pc = "push", !.tmp = 0])
  /\ UNCHANGED <<freelist, data, tab>>

KfreePush(p) ==
  /\ k[p].pc = "push"
  /\ data'     = [data EXCEPT ![k[p].pg] = Junk]
  /\ freelist' = [freelist EXCEPT ![k[p].pg] = @ + 1]
  /\ Become(p, [k[p] EXCEPT !.pc = k[p].ret, !.pg = NoPage])
  /\ UNCHANGED <<refcnt, rlock, tab>>

-----------------------------------------------------------------------------
(* User memory accesses and the page-fault arm of usertrap. *)

UserStore(p, v, d) ==
  /\ k[p].pc = "user"
  /\ pt[<<p, v>>].w
  /\ data' = [data EXCEPT ![pt[<<p, v>>].pa] = d]
  /\ UNCHANGED <<refcnt, rlock, freelist, tab, k>>

CowFault(p, v) ==
  /\ k[p].pc = "user"
  /\ pt[<<p, v>>].cow
  /\ Become(p, [k[p] EXCEPT !.pc = "cow_ref", !.va = v])
  /\ UNCHANGED <<mem, tab>>

LazyFault(p, v) ==
  /\ k[p].pc = "user"
  /\ pt[<<p, v>>].pa = NoPage
  /\ v < sz[p]
  /\ Become(p, [k[p] EXCEPT !.pc = "pop", !.ret = "fault_map", !.va = v])
  /\ UNCHANGED <<mem, tab>>

\* A page beyond sz, or a store to a read-only page: setkilled.
BadFault(p, v) ==
  /\ k[p].pc = "user"
  /\ IF pt[<<p, v>>].pa = NoPage THEN v >= sz[p] ELSE ~pt[<<p, v>>].w /\ ~pt[<<p, v>>].cow
  /\ Leave(p, "die")
  /\ UNCHANGED <<mem, tab>>

(* cowhandler *)

CowGetRef(p) ==
  /\ k[p].pc = "cow_ref"
  /\ rlock = NoProc
  /\ Become(p, [k[p] EXCEPT !.pc = "cow_decide", !.tmp = refcnt[pt[<<p, k[p].va>>].pa]])
  /\ UNCHANGED <<mem, tab>>

CowSole(p) ==
  /\ k[p].pc = "cow_decide"
  /\ k[p].tmp = 1
  /\ pt' = [pt EXCEPT ![<<p, k[p].va>>] = Writable(pt[<<p, k[p].va>>].pa)]
  /\ Leave(p, "user")
  /\ UNCHANGED <<mem, sz, state, parent>>

CowShared(p) ==
  /\ k[p].pc = "cow_decide"
  /\ k[p].tmp # 1
  /\ Become(p, [k[p] EXCEPT !.pc = "pop", !.ret = "cow_copy", !.tmp = 0])
  /\ UNCHANGED <<mem, tab>>

\* usertrap then tries vmfault, which refuses a mapped page: setkilled.
CowNoMem(p) ==
  /\ k[p].pc = "cow_copy"
  /\ k[p].pg = NoPage
  /\ Leave(p, "die")
  /\ UNCHANGED <<mem, tab>>

CowCopy(p) ==
  /\ k[p].pc = "cow_copy"
  /\ k[p].pg # NoPage
  /\ data' = [data EXCEPT ![k[p].pg] = data[pt[<<p, k[p].va>>].pa]]
  /\ Become(p, [k[p] EXCEPT !.pc = "cow_remap"])
  /\ UNCHANGED <<refcnt, rlock, freelist, tab>>

\* Bug: the old frame is not given back.
CowRemapLeak(p) ==
  /\ k[p].pc = "cow_remap"
  /\ Mappages(p, k[p].va, Writable(k[p].pg))
  /\ Leave(p, "user")
  /\ UNCHANGED <<mem, sz, state, parent>>

\* The page-table page exists, so mappages cannot fail here.
CowRemap(p) ==
  /\ k[p].pc = "cow_remap"
  /\ Mappages(p, k[p].va, Writable(k[p].pg))
  /\ Become(p, Freeing(p, pt[<<p, k[p].va>>].pa, "user"))
  /\ UNCHANGED <<mem, sz, state, parent>>

(* vmfault; uret says whether the trap, copyin or copyout called it. *)

FaultMap(p) ==
  /\ k[p].pc = "fault_map"
  /\ k[p].pg # NoPage
  /\ data' = [data EXCEPT ![k[p].pg] = Zero]
  /\ Mappages(p, k[p].va, Writable(k[p].pg))
  /\ Become(p, [k[p] EXCEPT !.pc = IF k[p].uret = "copyout" THEN "copyout" ELSE "user",
                            !.ret = "user", !.uret = "user", !.pg = NoPage])
  /\ UNCHANGED <<refcnt, rlock, freelist, sz, state, parent>>

FaultFailed(p) == IF k[p].uret = "user" THEN "die" ELSE "err"

FaultNoMem(p) ==
  /\ k[p].pc = "fault_map"
  /\ k[p].pg = NoPage
  /\ Leave(p, FaultFailed(p))
  /\ UNCHANGED <<mem, tab>>

FaultMapFail(p) ==
  /\ MapFail
  /\ k[p].pc = "fault_map"
  /\ k[p].pg # NoPage
  /\ Become(p, Freeing(p, k[p].pg, FaultFailed(p)))
  /\ UNCHANGED <<mem, tab>>

-----------------------------------------------------------------------------
(* copyin and copyinstr of page v: a copy from a page that is mapped        *)
(* changes nothing here.                                                   *)

CopyinFault(p, v) ==
  /\ k[p].pc = "user"
  /\ Walkaddr(p, v) = NoPage
  /\ v < sz[p]
  /\ Become(p, [k[p] EXCEPT !.pc = "pop", !.ret = "fault_map", !.uret = "copyin", !.va = v])
  /\ UNCHANGED <<mem, tab>>

CopyinFail(p, v) ==
  /\ k[p].pc = "user"
  /\ Walkaddr(p, v) = NoPage
  /\ v >= sz[p]
  /\ Leave(p, "err")
  /\ UNCHANGED <<mem, tab>>

\* copyinstr does not call vmfault: a page that was granted lazily fails too.
Copyinstr(p, v) ==
  /\ k[p].pc = "user"
  /\ Walkaddr(p, v) = NoPage
  /\ Leave(p, "err")
  /\ UNCHANGED <<mem, tab>>

-----------------------------------------------------------------------------
(* copyout of a value to page v; wait's copy of the exit status as well,   *)
(* then tgt is the zombie.                                                 *)

Copyout(p, v) ==
  /\ k[p].pc = "user"
  /\ Become(p, [k[p] EXCEPT !.pc = "copyout", !.va = v])
  /\ UNCHANGED <<mem, tab>>

CopyoutFault(p) ==
  /\ k[p].pc = "copyout"
  /\ pt[<<p, k[p].va>>].pa = NoPage
  /\ k[p].va < sz[p]
  /\ Become(p, [k[p] EXCEPT !.pc = "pop", !.ret = "fault_map", !.uret = "copyout"])
  /\ UNCHANGED <<mem, tab>>

CopyoutWrite(p, d) ==
  /\ k[p].pc = "copyout"
  /\ pt[<<p, k[p].va>>].w
  /\ data' = [data EXCEPT ![pt[<<p, k[p].va>>].pa] = d]
  /\ Become(p, IF k[p].tgt = p THEN Idle(p, "user")
                           ELSE Unmapping(k[p].tgt, 0, sz[k[p].tgt], "reap"))
  /\ UNCHANGED <<refcnt, rlock, freelist, tab>>

CopyoutFail(p) ==
  /\ k[p].pc = "copyout"
  /\ IF pt[<<p, k[p].va>>].pa = NoPage THEN k[p].va >= sz[p] ELSE ~pt[<<p, k[p].va>>].w
  /\ Leave(p, "err")
  /\ UNCHANGED <<mem, tab>>

\* A system call returns -1.
SyscallError(p) ==
  /\ k[p].pc = "err"
  /\ Leave(p, "user")
  /\ UNCHANGED <<mem, tab>>

-----------------------------------------------------------------------------
(* sbrk: growproc with uvmalloc and uvmdealloc, or the lazy growth. *)

SbrkLazy(p, n) ==
  /\ k[p].pc = "user"
  /\ sz[p] + n <= NVa
  /\ sz' = [sz EXCEPT ![p] = @ + n]
  /\ UNCHANGED <<mem, pt, state, parent, k>>

SbrkGrow(p, n) ==
  /\ k[p].pc = "user"
  /\ sz[p] + n <= NVa
  /\ Become(p, [k[p] EXCEPT !.pc = "grow", !.va = sz[p], !.hi = sz[p] + n])
  /\ UNCHANGED <<mem, tab>>

GrowAlloc(p) ==
  /\ k[p].pc = "grow"
  /\ k[p].va < k[p].hi
  /\ Become(p, [k[p] EXCEPT !.pc = "pop", !.ret = "grow_map"])
  /\ UNCHANGED <<mem, tab>>

\* Bug: the new page is not cleared.
GrowMapDirty(p) ==
  /\ k[p].pc = "grow_map"
  /\ k[p].pg # NoPage
  /\ Mappages(p, k[p].va, Writable(k[p].pg))
  /\ Become(p, [k[p] EXCEPT !.pc = "grow", !.pg = NoPage, !.va = k[p].va + 1])
  /\ UNCHANGED <<mem, sz, state, parent>>

GrowMap(p) ==
  /\ k[p].pc = "grow_map"
  /\ k[p].pg # NoPage
  /\ data' = [data EXCEPT ![k[p].pg] = Zero]
  /\ Mappages(p, k[p].va, Writable(k[p].pg))
  /\ Become(p, [k[p] EXCEPT !.pc = "grow", !.pg = NoPage, !.va = k[p].va + 1])
  /\ UNCHANGED <<refcnt, rlock, freelist, sz, state, parent>>

\* kalloc failed: uvmdealloc(a, oldsz).
GrowNoMem(p) ==
  /\ k[p].pc = "grow_map"
  /\ k[p].pg = NoPage
  /\ Become(p, Unmapping(p, sz[p], k[p].va, "err"))
  /\ UNCHANGED <<mem, tab>>

\* mappages failed: kfree(mem), then uvmdealloc(a, oldsz).
GrowMapFail(p) ==
  /\ MapFail
  /\ k[p].pc = "grow_map"
  /\ k[p].pg # NoPage
  /\ Become(p, [Unmapping(p, sz[p], k[p].va, "err")
                             EXCEPT !.pc = "dec", !.ret = "unmap", !.pg = k[p].pg])
  /\ UNCHANGED <<mem, tab>>

GrowDone(p) ==
  /\ k[p].pc = "grow"
  /\ k[p].va = k[p].hi
  /\ sz' = [sz EXCEPT ![p] = k[p].hi]
  /\ Leave(p, "user")
  /\ UNCHANGED <<mem, pt, state, parent>>

SbrkShrink(p, n) ==
  /\ k[p].pc = "user"
  /\ n <= sz[p]
  /\ Become(p, [Unmapping(p, sz[p] - n, sz[p], "shrink")
                             EXCEPT !.nsz = sz[p] - n])
  /\ UNCHANGED <<mem, tab>>

-----------------------------------------------------------------------------
(* uvmunmap with do_free: first kfree, then the entry is cleared. *)

UnmapSkip(p) ==
  /\ k[p].pc = "unmap"
  /\ k[p].va < k[p].hi
  /\ pt[<<k[p].tgt, k[p].va>>].pa = NoPage
  /\ Become(p, [k[p] EXCEPT !.va = k[p].va + 1])
  /\ UNCHANGED <<mem, tab>>

UnmapFree(p) ==
  /\ k[p].pc = "unmap"
  /\ k[p].va < k[p].hi
  /\ pt[<<k[p].tgt, k[p].va>>].pa # NoPage
  /\ Become(p, [k[p] EXCEPT !.pc = "dec", !.ret = "clear", !.pg = pt[<<k[p].tgt, k[p].va>>].pa])
  /\ UNCHANGED <<mem, tab>>

\* Bug: the entry stays valid.
UnmapKeep(p) ==
  /\ k[p].pc = "clear"
  /\ Become(p, [k[p] EXCEPT !.pc = "unmap", !.ret = "user", !.va = k[p].va + 1])
  /\ UNCHANGED <<mem, tab>>

UnmapClear(p) ==
  /\ k[p].pc = "clear"
  /\ pt' = [pt EXCEPT ![<<k[p].tgt, k[p].va>>] = Unmapped]
  /\ Become(p, [k[p] EXCEPT !.pc = "unmap", !.ret = "user", !.va = k[p].va + 1])
  /\ UNCHANGED <<mem, sz, state, parent>>

UnmapEnd(p, u) == k[p].pc = "unmap" /\ k[p].va = k[p].hi /\ k[p].uret = u

ShrinkDone(p) ==
  /\ UnmapEnd(p, "shrink")
  /\ sz' = [sz EXCEPT ![p] = k[p].nsz]
  /\ Leave(p, "user")
  /\ UNCHANGED <<mem, pt, state, parent>>

GrowUndone(p) ==
  /\ UnmapEnd(p, "err")
  /\ Leave(p, "err")
  /\ UNCHANGED <<mem, tab>>

-----------------------------------------------------------------------------
(* kfork and uvmcopy *)

ForkStart(p, c) ==
  /\ k[p].pc = "user"
  /\ state[c] = "unused"
  /\ state' = [state EXCEPT ![c] = "used"]
  /\ Become(p, [k[p] EXCEPT !.pc = "fork", !.tgt = c, !.va = 0])
  /\ UNCHANGED <<mem, pt, sz, parent>>

\* Bug: W is kept.
SharedWritable(e) == e

\* Bug: read-only pages become copy-on-write too.
SharedAll(e) == [pa |-> e.pa, w |-> FALSE, cow |-> TRUE]

\* What uvmcopy makes of the parent's entry: W becomes COW.
Shared(e) == [pa |-> e.pa, w |-> FALSE, cow |-> e.w \/ e.cow]

\* mappages precedes krefinc.
ForkPage(p) ==
  /\ k[p].pc = "fork"
  /\ k[p].va < sz[p]
  /\ pt[<<p, k[p].va>>].pa # NoPage
  /\ pt' = [pt EXCEPT ![<<p, k[p].va>>] = Shared(pt[<<p, k[p].va>>]),
                      ![<<k[p].tgt, k[p].va>>] = Shared(pt[<<p, k[p].va>>])]
  /\ Become(p, [k[p] EXCEPT !.pc = "inc", !.pg = pt[<<p, k[p].va>>].pa])
  /\ UNCHANGED <<mem, sz, state, parent>>

ForkMapFail(p) ==
  /\ MapFail
  /\ k[p].pc = "fork"
  /\ k[p].va < sz[p]
  /\ pt[<<p, k[p].va>>].pa # NoPage
  /\ pt' = [pt EXCEPT ![<<p, k[p].va>>] = Shared(pt[<<p, k[p].va>>])]
  /\ Become(p, Unmapping(k[p].tgt, 0, k[p].va, "fork_fail"))
  /\ UNCHANGED <<mem, sz, state, parent>>

\* "uvmcopy: pte should exist", "uvmcopy: page not present".
ForkPanic(p) ==
  /\ k[p].pc = "fork"
  /\ k[p].va < sz[p]
  /\ pt[<<p, k[p].va>>].pa = NoPage
  /\ Become(p, [k[p] EXCEPT !.pc = "panic"])
  /\ UNCHANGED <<mem, tab>>

\* Bug: the count is read without refcnt.lock.
KrefincReadUnlocked(p) ==
  /\ k[p].pc = "inc"
  /\ Become(p, [k[p] EXCEPT !.pc = "inc_w", !.tmp = refcnt[k[p].pg]])
  /\ UNCHANGED <<mem, tab>>

KrefincRead(p) ==
  /\ k[p].pc = "inc"
  /\ rlock = NoProc
  /\ rlock' = p
  /\ Become(p, [k[p] EXCEPT !.pc = "inc_w", !.tmp = refcnt[k[p].pg]])
  /\ UNCHANGED <<refcnt, freelist, data, tab>>

KrefincWrite(p) ==
  /\ k[p].pc = "inc_w"
  /\ refcnt' = [refcnt EXCEPT ![k[p].pg] = k[p].tmp + 1]
  /\ rlock'  = NoProc
  /\ Become(p, [k[p] EXCEPT !.pc = "fork", !.tmp = 0, !.pg = NoPage, !.va = k[p].va + 1])
  /\ UNCHANGED <<freelist, data, tab>>

ForkDone(p) ==
  /\ k[p].pc = "fork"
  /\ k[p].va = sz[p]
  /\ LET c == k[p].tgt
     IN  /\ sz'     = [sz     EXCEPT ![c] = sz[p]]
         /\ parent' = [parent EXCEPT ![c] = p]
         /\ state'  = [state  EXCEPT ![c] = "live"]
         /\ k'      = [k EXCEPT ![c] = Idle(c, "user"), ![p] = Idle(p, "user")]
  /\ UNCHANGED <<mem, pt>>

\* freeproc after a failed uvmcopy: the child's sz is 0, its pages are gone.
ForkFailed(p) ==
  /\ UnmapEnd(p, "fork_fail")
  /\ state' = [state EXCEPT ![k[p].tgt] = "unused"]
  /\ Leave(p, "err")
  /\ UNCHANGED <<mem, pt, sz, parent>>

-----------------------------------------------------------------------------
(* kexit, kwait and freeproc *)

\* exit(), or a kill noticed by usertrap.
Exit(p) ==
  /\ k[p].pc = "user"
  /\ p # InitProc
  /\ Leave(p, "die")
  /\ UNCHANGED <<mem, tab>>

KExit(p) ==
  /\ k[p].pc = "die"
  /\ p # InitProc
  /\ parent' = [q \in Proc |-> IF parent[q] = p THEN InitProc ELSE parent[q]]
  /\ state'  = [state EXCEPT ![p] = "zombie"]
  /\ Leave(p, "off")
  /\ UNCHANGED <<mem, pt, sz>>

\* "init exiting"
InitExit(p) ==
  /\ k[p].pc = "die"
  /\ p = InitProc
  /\ Leave(p, "panic")
  /\ UNCHANGED <<mem, tab>>

\* wait(0) finds the zombie c.
Wait(p, c) ==
  /\ k[p].pc = "user"
  /\ state[c] = "zombie" /\ parent[c] = p
  /\ Become(p, Unmapping(c, 0, sz[c], "reap"))
  /\ UNCHANGED <<mem, tab>>

\* wait(&status) finds the zombie c: the status goes to page v first.
WaitStatus(p, c, v) ==
  /\ k[p].pc = "user"
  /\ state[c] = "zombie" /\ parent[c] = p
  /\ Become(p, [k[p] EXCEPT !.pc = "copyout", !.va = v, !.tgt = c])
  /\ UNCHANGED <<mem, tab>>

\* The end of freeproc.
ReapDone(p) ==
  /\ UnmapEnd(p, "reap")
  /\ sz'     = [sz     EXCEPT ![k[p].tgt] = 0]
  /\ parent' = [parent EXCEPT ![k[p].tgt] = NoProc]
  /\ state'  = [state  EXCEPT ![k[p].tgt] = "unused"]
  /\ Leave(p, "user")
  /\ UNCHANGED <<mem, pt>>

\* panic() ends in for(;;).
PanicLoop(p) == k[p].pc = "panic" /\ UNCHANGED vars

-----------------------------------------------------------------------------
Kalloc(p) == KallocPop(p) \/ KallocEmpty(p) \/ KallocSetCount(p)
Kfree(p)  == KfreeRead(p) \/ KfreeWrite(p) \/ KfreePush(p)
Krefinc(p) == KrefincRead(p) \/ KrefincWrite(p)

UserAccess(p) == \E v \in Va :
  (\E d \in Val : UserStore(p, v, d)) \/ CowFault(p, v) \/ LazyFault(p, v) \/ BadFault(p, v)

Cowhandler(p) == CowGetRef(p) \/ CowSole(p) \/ CowShared(p) \/ CowNoMem(p) \/ CowCopy(p) \/ CowRemap(p)

Vmfault(p) == FaultMap(p) \/ FaultNoMem(p) \/ FaultMapFail(p)

CopyFromUser(p) == \E v \in Va : CopyinFault(p, v) \/ CopyinFail(p, v) \/ Copyinstr(p, v)

CopyToUser(p) ==
  \/ \E v \in Va : Copyout(p, v)
  \/ CopyoutFault(p) \/ CopyoutFail(p) \/ SyscallError(p)
  \/ \E d \in Val : CopyoutWrite(p, d)

Sbrk(p) ==
  \/ \E n \in 1 .. NVa : SbrkLazy(p, n) \/ SbrkGrow(p, n) \/ SbrkShrink(p, n)
  \/ GrowAlloc(p) \/ GrowMap(p) \/ GrowNoMem(p) \/ GrowMapFail(p) \/ GrowDone(p)
  \/ ShrinkDone(p) \/ GrowUndone(p)

Unmap(p) == UnmapSkip(p) \/ UnmapFree(p) \/ UnmapClear(p)

Fork(p) ==
  \/ \E c \in Proc : ForkStart(p, c)
  \/ ForkPage(p) \/ ForkMapFail(p) \/ ForkPanic(p) \/ ForkDone(p) \/ ForkFailed(p)

ExitWait(p) ==
  \/ Exit(p) \/ KExit(p) \/ InitExit(p) \/ ReapDone(p) \/ PanicLoop(p)
  \/ \E c \in Proc : Wait(p, c) \/ \E v \in Va : WaitStatus(p, c, v)

Step(p) ==
  \/ Kalloc(p) \/ Kfree(p) \/ Krefinc(p) \/ UserAccess(p) \/ Cowhandler(p)
  \/ Vmfault(p) \/ CopyFromUser(p) \/ CopyToUser(p) \/ Sbrk(p) \/ Unmap(p) \/ Fork(p) \/ ExitWait(p)

Next == \E p \in Proc : Step(p)

Spec == Init /\ [][Next]_vars

-----------------------------------------------------------------------------
(* What must hold. *)

\* The type invariant: every variable of kalloc.c, vm.c and proc.c stays in
\* its range; in particular a count never goes below zero.
TypeOK ==
  /\ refcnt \in [Page -> Nat] /\ freelist \in [Page -> Nat]
  /\ rlock \in Proc \union {NoProc}
  /\ data \in [Page -> Data]
  /\ pt \in [Proc \X Va -> PTE]
  /\ sz \in [Proc -> 0 .. NVa]
  /\ state \in [Proc -> {"unused", "used", "live", "zombie"}]
  /\ parent \in [Proc -> Proc \union {NoProc}]
  /\ k \in [Proc -> Frame]

\* Thread p is working on an entry that holds a mapping but no reference:
\* kfree gave the reference back before uvmunmap clears the entry, and uvmcopy
\* maps the child's entry before krefinc.
Lag(p) == k[p].pc \in {"inc", "inc_w", "clear"} \/ (k[p].pc = "push" /\ k[p].ret = "clear")

Counted(e) == \A p \in Proc : Lag(p) => e # <<k[p].tgt, k[p].va>>

\* The page-table entries and the kernel threads that own a reference to frame a.
MapRefs(a) == {e \in Proc \X Va : pt[e].pa = a /\ Counted(e)}

HandRefs(a) == {p \in Proc : /\ k[p].pg = a
                             /\ \/ k[p].pc \in {"cow_copy", "cow_remap", "grow_map", "fault_map"}
                                \/ k[p].pc \in {"dec", "dec_w"} /\ k[p].ret # "clear"}

\* Between the free list and a reference.
Transit(a) == {p \in Proc : k[p].pg = a /\ k[p].pc \in {"kset", "push"}}

\* The count of a frame is the number of references to it, at every point
\* between two lock operations: no increment or decrement of krefinc, kfree or
\* kalloc is lost or done twice, whatever fork, exit, wait and faults run at once.
RefcountExact == \A a \in Page : refcnt[a] = Cardinality(MapRefs(a)) + Cardinality(HandRefs(a))

\* A frame is on the free list once, or in the hand of one kalloc or kfree, or
\* referenced: no frame leaks, none is freed twice, none is freed while mapped.
PageConserved == \A a \in Page :
  freelist[a] + Cardinality(Transit(a)) + (IF MapRefs(a) \union HandRefs(a) = {} THEN 0 ELSE 1) = 1

\* The allocator and the page tables never reach one of their panics: "kfree:
\* refcount underflow", "mappages: remap" (in fork, sbrk and a page fault),
\* "freewalk: leaf" (a mapping left in a slot that freeproc gave back, or
\* beyond sz, where uvmfree does not look).
NoPanic == \A p \in Proc :
  /\ k[p].pc = "dec" => refcnt[k[p].pg] >= 1
  /\ k[p].pc = "fork" /\ k[p].va < sz[p] => pt[<<k[p].tgt, k[p].va>>].pa = NoPage
  /\ k[p].pc \in {"grow_map", "fault_map"} => pt[<<p, k[p].va>>].pa = NoPage
  /\ state[p] = "unused" => Leafless(p)
  /\ k[p].pc \in {"user", "die"} => \A v \in Va : v >= sz[p] => pt[<<p, v>>].pa = NoPage

\* A page that its process may write without a fault is mapped nowhere else (an
\* entry that uvmunmap is clearing aside): the store of one process is never
\* seen by another.
WritableIsPrivate == \A e, f \in Proc \X Va :
  pt[e].w /\ pt[f].pa = pt[e].pa /\ Counted(e) /\ Counted(f) => e = f

\* A read-only page of the program text is never made writable, by fork, by a
\* store fault on it or by a copyout: it stays as it is until it is unmapped.
ReadOnlyStays == [][\A e \in Proc \X Va :
  pt[e].pa # NoPage /\ ~pt[e].w /\ ~pt[e].cow => pt'[e] \in {pt[e], Unmapped}]_vars

-----------------------------------------------------------------------------
(* The abstract memory: what each process would read at each of its pages. *)
(* A page of a lazily grown process without a frame reads as zero.  While  *)
(* sbrk is unmapping pages they are gone already.                          *)

VisibleSz(p) == IF k[p].uret = "shrink" THEN k[p].nsz ELSE sz[p]

MemBar == [p \in {q \in Proc : state[q] = "live"} |->
             [v \in 0 .. (VisibleSz(p) - 1) |->
                IF pt[<<p, v>>].pa = NoPage THEN Zero ELSE data[pt[<<p, v>>].pa]]]

Private == INSTANCE PrivateMemory WITH mem <- MemBar

\* Copy-on-write is invisible: at every step of fork, exit, wait, sbrk, faults
\* and copyout each process's memory is as if fork had copied every page.
ImplementsPrivate == Private!Spec

-----------------------------------------------------------------------------
(* What comments and tests of the repository say and the code does not do. *)

\* kernel/user/usertests.c, lazy_unmap: a process may fork while some of the
\* pages it got from sbrklazy have never been touched.
ForkCopiesLazyPages == \A p \in Proc : k[p].pc = "panic" => k[p].tgt = p

\* kernel/kernel/vm.c, copyout: the writes it forbids are those to read-only
\* text pages; a process's own copy-on-write page is not one.
CopyoutForbidsOnlyText == [][\A p \in Proc :
  k[p].pc = "copyout" /\ k'[p].pc = "err" => ~pt[<<p, k[p].va>>].cow]_vars
=============================================================================

----------------------------- MODULE CowMemInv -----------------------------
(***************************************************************************)
(* The strengthening that makes the invariants of CowMem inductive: what a *)
(* kernel thread knows at each point of kalloc, kfree, cowhandler, vmfault,*)
(* uvmalloc, uvmunmap and uvmcopy.                                         *)
(***************************************************************************)
EXTENDS CowMem

\* refcnt.lock protects the read-modify-write of a count.
LockInv == \A p \in Proc :
  /\ (rlock = p) <=> (k[p].pc \in {"dec_w", "inc_w"})
  /\ k[p].pc \in {"dec_w", "inc_w"} => k[p].tmp = refcnt[k[p].pg]
  /\ k[p].pc = "dec_w" => k[p].tmp >= 1

\* An entry is one of: unmapped, writable, copy-on-write, read-only.
PteInv == \A e \in Proc \X Va :
  /\ pt[e].w \/ pt[e].cow => pt[e].pa # NoPage
  /\ ~(pt[e].w /\ pt[e].cow)

\* The labels at which a thread may be working on another process's table.
Away == {"copyout", "pop", "kset", "fault_map", "unmap", "clear", "dec", "dec_w", "push",
         "fork", "inc", "inc_w", "panic"}

\* A page table is worked on by one thread: its own process's, the parent that
\* is building the child, or the parent that is reaping the zombie.
TableInv ==
  /\ \A p \in Proc : (state[p] = "live") <=> (k[p].pc # "off")
  /\ \A p \in Proc : k[p].tgt # p =>
       /\ state[k[p].tgt] \in {"used", "zombie"}
       /\ state[k[p].tgt] = "zombie" => parent[k[p].tgt] = p
       /\ k[p].pc \in Away
  /\ \A p, q \in Proc : k[p].tgt = k[q].tgt /\ k[p].tgt # p /\ k[q].tgt # q => p = q

InKalloc(p, l) == k[p].pc = l \/ (k[p].pc \in {"pop", "kset"} /\ k[p].ret = l)
InKfree(p, l)  == k[p].pc = l \/ (k[p].pc \in {"dec", "dec_w", "push"} /\ k[p].ret = l)

CowAt(p)   == k[p].pc \in {"cow_ref", "cow_decide", "cow_remap"} \/ InKalloc(p, "cow_copy")
FaultAt(p) == InKalloc(p, "fault_map")
GrowAt(p)  == k[p].pc = "grow" \/ InKalloc(p, "grow_map")
UnmapAt(p) == InKfree(p, "clear") \/ InKfree(p, "unmap")
ForkAt(p)  == k[p].pc \in {"fork", "inc", "inc_w"}

Empty(t, from) == \A v \in Va : v >= from => pt[<<t, v>>].pa = NoPage

\* The frame in hand, and where kalloc, kfree and uvmunmap may return to.
PageInv(p) ==
  /\ k[p].pc \in {"kset", "dec", "dec_w", "push", "inc", "inc_w", "cow_remap"} => k[p].pg \in Page
  /\ k[p].pc \in {"pop", "user", "off", "cow_ref", "cow_decide", "copyout", "unmap", "clear", "fork",
                 "grow"} => k[p].pg = NoPage
  /\ k[p].pc \in {"pop", "kset"} => k[p].ret \in {"cow_copy", "grow_map", "fault_map"}
  /\ k[p].pc \in {"dec", "dec_w", "push"} => k[p].ret \in {"user", "die", "err", "unmap", "clear"}
  /\ k[p].pc \in {"dec", "dec_w", "push"} /\ k[p].ret \in {"user", "die", "err"} =>
       k[p].uret = "user" /\ k[p].tgt = p
  /\ k[p].pc \in {"user", "off", "die", "err", "copyout", "panic"} => k[p].uret = "user"
  /\ k[p].pc \in {"user", "off", "die", "err"} => k[p].tgt = p

CowInv(p) == CowAt(p) =>
  k[p].va \in Va /\ pt[<<p, k[p].va>>].cow /\ k[p].tgt = p /\ k[p].uret = "user"

FaultInv(p) ==
  /\ FaultAt(p) =>
       /\ k[p].va \in Va /\ k[p].va < sz[p] /\ pt[<<p, k[p].va>>].pa = NoPage
       /\ k[p].uret \in {"user", "copyin", "copyout"} /\ (k[p].uret # "copyout" => k[p].tgt = p)
  /\ FaultAt(p) \/ k[p].pc = "copyout" => k[p].tgt = p \/ state[k[p].tgt] = "zombie"

GrowInv(p) == GrowAt(p) =>
  /\ k[p].tgt = p /\ k[p].uret = "user"
  /\ sz[p] <= k[p].va /\ k[p].va <= k[p].hi /\ (k[p].pc # "grow" => k[p].va < k[p].hi)
  /\ Empty(p, k[p].va)

\* What uvmunmap has left of the table it works on, by the caller's purpose.
UnmapInv(p) == UnmapAt(p) =>
  /\ k[p].uret \in {"err", "shrink", "reap", "fork_fail"}
  /\ k[p].va <= k[p].hi /\ (InKfree(p, "clear") => k[p].va < k[p].hi)
  /\ k[p].pc \in {"dec", "dec_w"} /\ k[p].ret = "clear" => pt[<<k[p].tgt, k[p].va>>].pa = k[p].pg
  /\ k[p].uret = "err" => k[p].tgt = p /\ sz[p] <= k[p].va /\ Empty(p, k[p].hi)
  /\ k[p].uret = "shrink" =>
       k[p].tgt = p /\ k[p].hi = sz[p] /\ k[p].nsz <= k[p].va /\ Empty(p, sz[p])
  /\ k[p].uret = "reap" => k[p].tgt # p /\ state[k[p].tgt] = "zombie" /\ k[p].hi = sz[k[p].tgt]
  /\ k[p].uret = "fork_fail" =>
       k[p].tgt # p /\ state[k[p].tgt] = "used" /\ Empty(k[p].tgt, k[p].hi)
  /\ \A v \in Va : v < k[p].va => \/ pt[<<k[p].tgt, v>>].pa = NoPage
                                  \/ k[p].uret = "shrink" /\ v < k[p].nsz
                                  \/ k[p].uret = "err" /\ v < sz[p]

ForkInv(p) == ForkAt(p) =>
  /\ k[p].uret = "user" /\ k[p].tgt # p /\ state[k[p].tgt] = "used" /\ k[p].va <= sz[p]
  /\ k[p].pc = "fork" => Empty(k[p].tgt, k[p].va)
  /\ k[p].pc \in {"inc", "inc_w"} =>
       /\ k[p].va < sz[p] /\ Empty(k[p].tgt, k[p].va + 1)
       /\ pt[<<p, k[p].va>>].pa = k[p].pg /\ pt[<<k[p].tgt, k[p].va>>].pa = k[p].pg

Thread(p) == PageInv(p) /\ CowInv(p) /\ FaultInv(p) /\ GrowInv(p) /\ UnmapInv(p) /\ ForkInv(p)

ThreadInv == \A p \in Proc : Thread(p)

\* Address spaces end at sz, except while sbrk is adding or removing pages.
Extent(p) ==
  /\ state[p] \in {"unused", "zombie"} => Empty(p, sz[p])
  /\ state[p] \in {"unused", "used"} => sz[p] = 0
  /\ state[p] = "live" /\ ~GrowAt(p) /\ k[p].uret # "err" => Empty(p, sz[p])

ExtentInv == \A p \in Proc : Extent(p)

\* A frame fresh from kalloc has one reference, and so has a copy-on-write page
\* that cowhandler has found to be the process's own.  A page that uvmcopy has
\* just shared is writable on neither side.
OneRef(p) ==
  /\ k[p].pc \in {"cow_copy", "cow_remap", "grow_map", "fault_map"} /\ k[p].pg # NoPage =>
       refcnt[k[p].pg] = 1
  /\ k[p].pc = "cow_decide" /\ k[p].tmp = 1 => refcnt[pt[<<p, k[p].va>>].pa] = 1
  /\ k[p].pc \in {"inc", "inc_w"} =>
       ~pt[<<p, k[p].va>>].w /\ ~pt[<<k[p].tgt, k[p].va>>].w

OneRefInv == \A p \in Proc : OneRef(p)

\* A writable page has no other reference.
WritableInv == \A e \in Proc \X Va : pt[e].w /\ Counted(e) => refcnt[pt[e].pa] = 1

\* What every thread of kalloc.c, vm.c and proc.c relies on between two lock
\* operations: the lock, the entries, the tables and its own frame.
ControlInv == LockInv /\ PteInv /\ TableInv /\ ThreadInv /\ ExtentInv

\* The inductive strengthening of the exactness of counts.
IInv == TypeOK /\ ControlInv /\ RefcountExact /\ PageConserved /\ OneRefInv /\ WritableInv

\* What process p reads at page v.
Reads(p, v) == IF pt[<<p, v>>].pa = NoPage THEN Zero ELSE data[pt[<<p, v>>].pa]

\* The work done so far: copyout's page is one, cowhandler's copy is one, sbrk's new
\* pages are cleared, and uvmcopy has given the child the frames of the pages it has
\* passed.
Work(p) ==
  /\ k[p].pc = "copyout" => k[p].va \in Va
  /\ k[p].pc = "cow_remap" => data[k[p].pg] = data[pt[<<p, k[p].va>>].pa]
  /\ GrowAt(p) => \A v \in Va : sz[p] <= v /\ v < k[p].va => Reads(p, v) = Zero
  /\ ForkAt(p) => \A v \in Va : v < k[p].va => pt[<<k[p].tgt, v>>].pa = pt[<<p, v>>].pa

WorkInv == \A p \in Proc : Work(p)

\* All that the threads of kalloc.c, vm.c and proc.c know between two lock
\* operations: of the lock, the entries, the tables, the counts and their own work.
FullInv == IInv /\ WorkInv
=============================================================================

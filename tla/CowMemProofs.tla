---------------------------- MODULE CowMemProofs ----------------------------
(***************************************************************************)
(* The theorems, for every number of processes, frames and pages: the      *)
(* types and the control of CowMem, its reference counts, and that it      *)
(* implements PrivateMemory.                                               *)
(*                                                                         *)
(* First what one step does to threads: that it keeps the types, what the  *)
(* thread that takes it knows afterwards, and that the others still know   *)
(* what they knew.  Then the invariants that relate threads to the shared  *)
(* state: the lock, the page-table entries, who works on which table, and  *)
(* where a table ends.                                                     *)
(*                                                                         *)
(* The second half is about counts.  A reference is owned by a page-table  *)
(* entry or by a kernel thread.  Each step changes what one entry and one  *)
(* thread own, so that the counts follow from what happens to these two.   *)
(*                                                                         *)
(* Copy-on-write is invisible: a step changes the contents of a frame only *)
(* where nobody else refers to it (DataChange), so that what a process     *)
(* reads changes only by its own stores (ReadsStep).  What is left is that *)
(* fork, sbrk and exit change the shape of the memories as the abstract    *)
(* steps do.                                                               *)
(***************************************************************************)
EXTENDS CowMemInv, FiniteSetTheorems, TLAPS

(* Types.  The control invariant is a hypothesis: that a loop's page stays *)
(* inside the address space, or that a kalloc returns to a label that may   *)
(* hold a frame, is not visible in one step alone.                          *)

\* Become changes the frame of one thread.
LEMMA BecomeType ==
  ASSUME TypeOK, NEW p \in Proc, NEW f \in Frame, Become(p, f)
  PROVE  /\ k' \in [Proc -> Frame] /\ k'[p] = f
         /\ \A q \in Proc : q # p => k'[q] = k[q]
BY DEF TypeOK, Become

\* Idle, Freeing and Unmapping are frames.
LEMMA IdleFrame ==
  ASSUME NEW q \in Proc, NEW l \in {"user", "off", "die", "err", "panic"}
  PROVE  Idle(q, l) \in Frame
BY SizeAssumption DEF Idle, Frame

\* The start of kfree is a frame.
LEMMA FreeingFrame ==
  ASSUME NEW q \in Proc, NEW a \in Page \union {NoPage}, NEW l \in {"user", "die", "err"}
  PROVE  Freeing(q, a, l) \in Frame
BY SizeAssumption DEF Freeing, Frame

\* The start of uvmunmap is a frame.
LEMMA UnmappingFrame ==
  ASSUME NEW t \in Proc, NEW i \in 0 .. NVa, NEW j \in 0 .. NVa,
         NEW u \in {"err", "shrink", "reap", "fork_fail"}
  PROVE  Unmapping(t, i, j, u) \in Frame
BY SizeAssumption DEF Unmapping, Frame

\* A thread that leaves for label l is idle there.
LEMMA LeaveType ==
  ASSUME TypeOK, NEW p \in Proc, NEW l \in {"user", "off", "die", "err", "panic"}, Leave(p, l)
  PROVE  /\ k' \in [Proc -> Frame] /\ k'[p] = Idle(p, l)
         /\ \A q \in Proc : q # p => k'[q] = k[q]
BY IdleFrame DEF TypeOK, Become, Leave

\* The fields of a thread's frame, typed.
LEMMA Fields ==
  ASSUME TypeOK, NEW p \in Proc
  PROVE /\ k[p] \in Frame
        /\ k[p].pg \in Page \union {NoPage}
        /\ k[p].tgt \in Proc
        /\ k[p].va \in 0 .. NVa /\ k[p].hi \in 0 .. NVa /\ k[p].nsz \in 0 .. NVa
        /\ k[p].tmp \in Nat
        /\ sz[p] \in 0 .. NVa
<1>1. k[p] \in Frame BY DEF TypeOK
<1> QED BY <1>1 DEF TypeOK, Frame

\* The fields of a page-table entry, typed.
LEMMA PteType ==
  ASSUME TypeOK, NEW q \in Proc, NEW v \in Va
  PROVE  /\ pt[<<q, v>>] \in PTE
         /\ pt[<<q, v>>].pa \in Page \union {NoPage}
<1>1. pt[<<q, v>>] \in PTE BY DEF TypeOK
<1> QED BY <1>1 DEF PTE

\* A page number is a size as well.
LEMMA VaBound == Va \subseteq 0 .. NVa
BY SizeAssumption DEF Va

\* A page below some size is in the address space, and so is its successor's size.
LEMMA SizeInVa ==
  ASSUME NEW v \in 0 .. NVa, NEW n \in 0 .. NVa, v < n
  PROVE  v \in Va /\ v + 1 \in 0 .. NVa
BY SizeAssumption DEF Va

\* A step leaves every thread with a frame.
LEMMA FrameStep ==
  ASSUME TypeOK, ControlInv, NEW p \in Proc, Step(p)
  PROVE  k' \in [Proc -> Frame]
<1>1. /\ k[p] \in Frame
      /\ k[p].va \in 0 .. NVa /\ k[p].hi \in 0 .. NVa /\ k[p].tgt \in Proc /\ sz[p] \in 0 .. NVa
      /\ k[p].pg \in Page \union {NoPage}
  BY Fields
<1>2. CASE KallocPop(p)
  BY <1>2, <1>1, VaBound, BecomeType DEF KallocPop, Frame
<1>3. CASE KallocEmpty(p)
  BY <1>3, <1>1, VaBound, BecomeType DEF KallocEmpty, Frame
<1>4. CASE KallocSetCount(p)
  BY <1>4, <1>1, VaBound, BecomeType DEF KallocSetCount, Frame
<1>5. CASE KfreeRead(p)
  <2>1. refcnt[k[p].pg] \in Nat
    BY <1>5 DEF TypeOK, ControlInv, ThreadInv, Thread, PageInv, KfreeRead
  <2> QED BY <1>5, <1>1, <2>1, BecomeType DEF KfreeRead, Frame
<1>6. CASE KfreeWrite(p)
  BY <1>6, <1>1, VaBound, BecomeType DEF KfreeWrite, Frame
<1>7. CASE KfreePush(p)
  BY <1>7, <1>1, VaBound, BecomeType DEF KfreePush, Frame
<1>8. CASE KrefincRead(p)
  <2>1. refcnt[k[p].pg] \in Nat
    BY <1>8 DEF TypeOK, ControlInv, ThreadInv, Thread, PageInv, KrefincRead
  <2> QED BY <1>8, <1>1, <2>1, BecomeType DEF KrefincRead, Frame
<1>9. CASE KrefincWrite(p)
  <2>1. k[p].va < sz[p] BY <1>9 DEF ControlInv, ThreadInv, Thread, ForkInv, ForkAt, KrefincWrite
  <2>2. k[p].va + 1 \in 0 .. NVa BY <1>9, <1>1, <2>1, SizeInVa
  <2> QED BY <1>9, <1>1, <2>1, <2>2, BecomeType DEF KrefincWrite, Frame
<1>10. ASSUME NEW v \in Va, NEW d \in Val, UserStore(p, v, d) PROVE k' \in [Proc -> Frame]
  BY <1>10 DEF TypeOK, UserStore, vars
<1>11. ASSUME NEW v \in Va, CowFault(p, v) PROVE k' \in [Proc -> Frame]
  BY <1>11, <1>1, VaBound, BecomeType DEF CowFault, Frame
<1>12. ASSUME NEW v \in Va, LazyFault(p, v) PROVE k' \in [Proc -> Frame]
  BY <1>12, <1>1, VaBound, BecomeType DEF LazyFault, Frame
<1>13. ASSUME NEW v \in Va, BadFault(p, v) PROVE k' \in [Proc -> Frame]
  BY <1>13, LeaveType DEF BadFault
<1>60. ASSUME NEW v \in Va, CopyinFault(p, v) PROVE k' \in [Proc -> Frame]
  BY <1>60, <1>1, VaBound, BecomeType DEF CopyinFault, Walkaddr, Frame
<1>61. ASSUME NEW v \in Va, CopyinFail(p, v) PROVE k' \in [Proc -> Frame]
  BY <1>61, LeaveType DEF CopyinFail, Walkaddr
<1>62. ASSUME NEW v \in Va, Copyinstr(p, v) PROVE k' \in [Proc -> Frame]
  BY <1>62, LeaveType DEF Copyinstr, Walkaddr
<1>14. CASE CowGetRef(p)
  <2>1. k[p].va \in Va /\ pt[<<p, k[p].va>>].cow
    BY <1>14 DEF ControlInv, ThreadInv, Thread, CowInv, CowAt, CowGetRef
  <2>2. refcnt[pt[<<p, k[p].va>>].pa] \in Nat
    BY <1>14, <2>1, PteType DEF TypeOK, ControlInv, PteInv
  <2> QED BY <1>14, <1>1, <2>1, <2>2, BecomeType DEF CowGetRef, Frame
<1>15. CASE CowSole(p)
  BY <1>15, LeaveType DEF CowSole
<1>16. CASE CowShared(p)
  BY <1>16, <1>1, VaBound, BecomeType DEF CowShared, Frame
<1>17. CASE CowNoMem(p)
  BY <1>17, LeaveType DEF CowNoMem
<1>18. CASE CowCopy(p)
  BY <1>18, <1>1, VaBound, BecomeType DEF CowCopy, Frame
<1>19. CASE CowRemap(p)
  <2>1. k[p].va \in Va
    BY <1>19 DEF ControlInv, ThreadInv, Thread, CowInv, CowAt, CowRemap, Mappages
  <2>2. Freeing(p, pt[<<p, k[p].va>>].pa, "user") \in Frame BY <1>19, <2>1, PteType, FreeingFrame
  <2> QED BY <1>19, <1>1, <2>1, <2>2, BecomeType DEF CowRemap, Mappages
<1>20. CASE FaultMap(p)
  <2>1. k[p].uret \in {"user", "copyin", "copyout"}
    BY <1>20 DEF ControlInv, ThreadInv, Thread, FaultInv, FaultAt, InKalloc, FaultMap, Mappages
  <2> QED BY <1>20, <1>1, <2>1, BecomeType DEF FaultMap, Mappages, Frame
<1>21. CASE FaultNoMem(p)
  BY <1>21, LeaveType DEF FaultNoMem, FaultFailed
<1>22. CASE FaultMapFail(p)
  <2>1. Freeing(p, k[p].pg, FaultFailed(p)) \in Frame BY <1>22, <1>1, FreeingFrame DEF FaultFailed
  <2> QED BY <1>22, <1>1, <2>1, BecomeType DEF FaultMapFail
<1>23. ASSUME NEW v \in Va, Copyout(p, v) PROVE k' \in [Proc -> Frame]
  BY <1>23, <1>1, VaBound, BecomeType DEF Copyout, Frame
<1>24. CASE CopyoutFault(p)
  BY <1>24, <1>1, VaBound, BecomeType DEF CopyoutFault, Frame
<1>25. ASSUME NEW d \in Val, CopyoutWrite(p, d) PROVE k' \in [Proc -> Frame]
  <2>1. Idle(p, "user") \in Frame BY <1>25, IdleFrame
  <2>2. Unmapping(k[p].tgt, 0, sz[k[p].tgt], "reap") \in Frame
    BY <1>25, <1>1, Fields, SizeAssumption, UnmappingFrame
  <2> QED BY <1>25, <1>1, <2>1, <2>2, BecomeType DEF CopyoutWrite
<1>26. CASE CopyoutFail(p)
  BY <1>26, LeaveType DEF CopyoutFail
<1>27. CASE SyscallError(p)
  BY <1>27, LeaveType DEF SyscallError
<1>28. ASSUME NEW n \in 1 .. NVa, SbrkLazy(p, n) PROVE k' \in [Proc -> Frame]
  BY <1>28 DEF TypeOK, SbrkLazy, vars
<1>29. ASSUME NEW n \in 1 .. NVa, SbrkGrow(p, n) PROVE k' \in [Proc -> Frame]
  <2>1. sz[p] + n \in 0 .. NVa BY <1>29, <1>1, SizeAssumption DEF SbrkGrow
  <2> QED BY <1>29, <1>1, <2>1, BecomeType DEF SbrkGrow, Frame
<1>30. ASSUME NEW n \in 1 .. NVa, SbrkShrink(p, n) PROVE k' \in [Proc -> Frame]
  <2>1. sz[p] - n \in 0 .. NVa BY <1>30, <1>1, SizeAssumption DEF SbrkShrink
  <2>2. Unmapping(p, sz[p] - n, sz[p], "shrink") \in Frame BY <1>30, <1>1, <2>1, UnmappingFrame
  <2> QED BY <1>30, <1>1, <2>1, <2>2, BecomeType DEF SbrkShrink, Frame
<1>31. CASE GrowAlloc(p)
  BY <1>31, <1>1, VaBound, BecomeType DEF GrowAlloc, Frame
<1>32. CASE GrowMap(p)
  <2>1. k[p].va < k[p].hi
    BY <1>32 DEF ControlInv, ThreadInv, Thread, GrowInv, GrowAt, InKalloc, GrowMap, Mappages
  <2>2. k[p].va + 1 \in 0 .. NVa BY <1>32, <1>1, <2>1, SizeInVa
  <2> QED BY <1>32, <1>1, <2>1, <2>2, BecomeType DEF GrowMap, Mappages, Frame
<1>33. CASE GrowNoMem(p)
  <2>1. Unmapping(p, sz[p], k[p].va, "err") \in Frame BY <1>33, <1>1, UnmappingFrame
  <2> QED BY <1>33, <1>1, <2>1, BecomeType DEF GrowNoMem
<1>34. CASE GrowMapFail(p)
  <2>1. Unmapping(p, sz[p], k[p].va, "err") \in Frame BY <1>34, <1>1, UnmappingFrame
  <2> QED BY <1>34, <1>1, <2>1, BecomeType DEF GrowMapFail, Frame
<1>35. CASE GrowDone(p)
  BY <1>35, LeaveType DEF GrowDone
<1>36. CASE ShrinkDone(p)
  BY <1>36, LeaveType DEF ShrinkDone
<1>37. CASE GrowUndone(p)
  BY <1>37, LeaveType DEF GrowUndone
<1>38. CASE UnmapSkip(p)
  <2>1. k[p].va + 1 \in 0 .. NVa BY <1>38, <1>1, SizeInVa DEF UnmapSkip
  <2> QED BY <1>38, <1>1, <2>1, BecomeType DEF UnmapSkip, Frame
<1>39. CASE UnmapFree(p)
  <2>1. k[p].va \in Va BY <1>39, <1>1, SizeInVa DEF UnmapFree
  <2>2. pt[<<k[p].tgt, k[p].va>>].pa \in Page \union {NoPage} BY <1>39, <1>1, <2>1, PteType
  <2> QED BY <1>39, <1>1, <2>1, <2>2, BecomeType DEF UnmapFree, Frame
<1>40. CASE UnmapClear(p)
  <2>1. k[p].va < k[p].hi
    BY <1>40 DEF ControlInv, ThreadInv, Thread, UnmapInv, UnmapAt, InKfree, UnmapClear
  <2>2. k[p].va + 1 \in 0 .. NVa BY <1>40, <1>1, <2>1, SizeInVa
  <2> QED BY <1>40, <1>1, <2>1, <2>2, BecomeType DEF UnmapClear, Frame
<1>41. ASSUME NEW c \in Proc, ForkStart(p, c) PROVE k' \in [Proc -> Frame]
  <2>1. 0 \in 0 .. NVa BY <1>41, SizeAssumption
  <2> QED BY <1>41, <1>1, <2>1, BecomeType DEF ForkStart, Frame
<1>42. CASE ForkPage(p)
  <2>1. k[p].va \in Va BY <1>42, <1>1, SizeInVa DEF ForkPage
  <2>2. pt[<<p, k[p].va>>].pa \in Page \union {NoPage} BY <1>42, <2>1, PteType
  <2> QED BY <1>42, <1>1, <2>1, <2>2, BecomeType DEF ForkPage, Frame
<1>43. CASE ForkMapFail(p)
  <2>1. Unmapping(k[p].tgt, 0, k[p].va, "fork_fail") \in Frame
    BY <1>43, <1>1, SizeAssumption, UnmappingFrame
  <2> QED BY <1>43, <1>1, <2>1, BecomeType DEF ForkMapFail
<1>44. CASE ForkPanic(p)
  BY <1>44, <1>1, VaBound, BecomeType DEF ForkPanic, Frame
<1>45. CASE ForkDone(p)
  <2>1. Idle(p, "user") \in Frame /\ Idle(k[p].tgt, "user") \in Frame BY <1>45, <1>1, IdleFrame
  <2> QED BY <1>45, <1>1, <2>1 DEF TypeOK, ForkDone
<1>46. CASE ForkFailed(p)
  BY <1>46, LeaveType DEF ForkFailed
<1>47. CASE Exit(p)
  BY <1>47, LeaveType DEF Exit
<1>48. CASE KExit(p)
  BY <1>48, LeaveType DEF KExit
<1>49. CASE InitExit(p)
  BY <1>49, LeaveType DEF InitExit
<1>50. CASE ReapDone(p)
  BY <1>50, LeaveType DEF ReapDone
<1>51. CASE PanicLoop(p)
  BY <1>51 DEF TypeOK, PanicLoop, vars
<1>52. ASSUME NEW c \in Proc, Wait(p, c) PROVE k' \in [Proc -> Frame]
  <2>1. Unmapping(c, 0, sz[c], "reap") \in Frame BY <1>52, Fields, SizeAssumption, UnmappingFrame
  <2> QED BY <1>52, <1>1, <2>1, BecomeType DEF Wait
<1>53. ASSUME NEW c \in Proc, NEW v \in Va, WaitStatus(p, c, v) PROVE k' \in [Proc -> Frame]
  BY <1>53, <1>1, VaBound, BecomeType DEF WaitStatus, Frame
<1> QED
  BY <1>2, <1>3, <1>4, <1>5, <1>6, <1>7, <1>8, <1>9, <1>10, <1>11, <1>12, <1>13, <1>14, <1>15,
    <1>16, <1>17, <1>18, <1>19, <1>20, <1>21, <1>22, <1>23, <1>24, <1>25, <1>26, <1>27, <1>28,
    <1>29, <1>30, <1>31, <1>32, <1>33, <1>34, <1>35, <1>36, <1>37, <1>38, <1>39, <1>40, <1>41,
    <1>42, <1>43, <1>44, <1>45, <1>46, <1>47, <1>48, <1>49, <1>50, <1>51, <1>52, <1>53, <1>60,
    <1>61, <1>62 DEF Step, Kalloc, Kfree, Krefinc, UserAccess, Cowhandler, Vmfault, CopyFromUser,
    CopyToUser, Sbrk, Unmap, Fork, ExitWait

\* Every action of kalloc.c, vm.c, proc.c and usertrap keeps the variables in their ranges.
LEMMA TypeStep ==
  ASSUME TypeOK, ControlInv, NEW p \in Proc, Step(p)
  PROVE  TypeOK'
<1>1. /\ k[p].va \in 0 .. NVa /\ k[p].hi \in 0 .. NVa /\ k[p].nsz \in 0 .. NVa
      /\ k[p].pg \in Page \union {NoPage} /\ k[p].tgt \in Proc /\ k[p].tmp \in Nat /\ sz[p] \in 0 .. NVa
  BY Fields
<1>2. k' \in [Proc -> Frame] BY FrameStep
<1>3. CASE KallocPop(p)
  BY <1>3, <1>1, <1>2 DEF TypeOK, KallocPop, tab, Data
<1>4. CASE KallocEmpty(p)
  BY <1>4, <1>1, <1>2 DEF TypeOK, KallocEmpty, mem, tab
<1>5. CASE KallocSetCount(p)
  BY <1>5, <1>1, <1>2 DEF TypeOK, KallocSetCount, tab
<1>6. CASE KfreeRead(p)
  BY <1>6, <1>1, <1>2, ProcAssumption DEF TypeOK, KfreeRead, tab
<1>7. CASE KfreeWrite(p)
  <2>1. k[p].tmp - 1 \in Nat BY <1>7, <1>1 DEF ControlInv, LockInv, KfreeWrite
  <2> QED BY <1>7, <1>1, <1>2, ProcAssumption, <2>1 DEF TypeOK, KfreeWrite, tab
<1>8. CASE KfreePush(p)
  <2>1. k[p].pg \in Page BY <1>8 DEF ControlInv, ThreadInv, Thread, PageInv, KfreePush
  <2>2. freelist[k[p].pg] + 1 \in Nat BY <1>8, <2>1 DEF TypeOK
  <2> QED BY <1>8, <1>1, <1>2, <2>1, <2>2 DEF TypeOK, KfreePush, tab, Data
<1>9. CASE KrefincRead(p)
  BY <1>9, <1>1, <1>2, ProcAssumption DEF TypeOK, KrefincRead, tab
<1>10. CASE KrefincWrite(p)
  <2>1. k[p].tmp + 1 \in Nat BY <1>10, <1>1
  <2> QED BY <1>10, <1>1, <1>2, ProcAssumption, <2>1 DEF TypeOK, KrefincWrite, tab
<1>11. ASSUME NEW v \in Va, NEW d \in Val, UserStore(p, v, d) PROVE TypeOK'
  BY <1>11, <1>1, <1>2 DEF TypeOK, UserStore, tab, Data
<1>12. ASSUME NEW v \in Va, CowFault(p, v) PROVE TypeOK'
  BY <1>12, <1>1, <1>2 DEF TypeOK, CowFault, mem, tab
<1>13. ASSUME NEW v \in Va, LazyFault(p, v) PROVE TypeOK'
  BY <1>13, <1>1, <1>2 DEF TypeOK, LazyFault, mem, tab
<1>14. ASSUME NEW v \in Va, BadFault(p, v) PROVE TypeOK'
  BY <1>14, <1>1, <1>2 DEF TypeOK, BadFault, mem, tab
<1>60. ASSUME NEW v \in Va, CopyinFault(p, v) PROVE TypeOK'
  BY <1>60, <1>1, <1>2 DEF TypeOK, CopyinFault, mem, tab
<1>61. ASSUME NEW v \in Va, CopyinFail(p, v) PROVE TypeOK'
  BY <1>61, <1>1, <1>2 DEF TypeOK, CopyinFail, mem, tab
<1>62. ASSUME NEW v \in Va, Copyinstr(p, v) PROVE TypeOK'
  BY <1>62, <1>1, <1>2 DEF TypeOK, Copyinstr, mem, tab
<1>15. CASE CowGetRef(p)
  BY <1>15, <1>1, <1>2 DEF TypeOK, CowGetRef, mem, tab
<1>16. CASE CowSole(p)
  <2>1. k[p].va \in Va BY <1>16 DEF ControlInv, ThreadInv, Thread, CowInv, CowAt, CowSole
  <2>2. Writable(pt[<<p, k[p].va>>].pa) \in PTE BY <1>16, <2>1, PteType DEF Writable, PTE
  <2> QED BY <1>16, <1>1, <1>2, <2>1, <2>2 DEF TypeOK, CowSole, mem
<1>17. CASE CowShared(p)
  BY <1>17, <1>1, <1>2 DEF TypeOK, CowShared, mem, tab
<1>18. CASE CowNoMem(p)
  BY <1>18, <1>1, <1>2 DEF TypeOK, CowNoMem, mem, tab
<1>19. CASE CowCopy(p)
  <2>1. k[p].va \in Va /\ pt[<<p, k[p].va>>].cow
    BY <1>19 DEF ControlInv, ThreadInv, Thread, CowInv, CowAt, InKalloc, CowCopy
  <2>2. data[pt[<<p, k[p].va>>].pa] \in Data
    BY <1>19, <2>1, PteType DEF TypeOK, ControlInv, PteInv
  <2> QED BY <1>19, <1>1, <1>2, <2>1, <2>2 DEF TypeOK, CowCopy, tab, Data
<1>20. CASE CowRemap(p)
  <2>1. Writable(k[p].pg) \in PTE BY <1>20, <1>1 DEF Writable, PTE
  <2> QED BY <1>20, <1>1, <1>2, <2>1 DEF TypeOK, CowRemap, Mappages, mem
<1>21. CASE FaultMap(p)
  <2>1. Writable(k[p].pg) \in PTE BY <1>21, <1>1 DEF Writable, PTE
  <2> QED BY <1>21, <1>1, <1>2, <2>1 DEF TypeOK, FaultMap, Mappages, Data
<1>22. CASE FaultNoMem(p)
  BY <1>22, <1>1, <1>2 DEF TypeOK, FaultNoMem, mem, tab
<1>23. CASE FaultMapFail(p)
  BY <1>23, <1>1, <1>2 DEF TypeOK, FaultMapFail, mem, tab
<1>24. ASSUME NEW v \in Va, Copyout(p, v) PROVE TypeOK'
  BY <1>24, <1>1, <1>2 DEF TypeOK, Copyout, mem, tab
<1>25. CASE CopyoutFault(p)
  BY <1>25, <1>1, <1>2 DEF TypeOK, CopyoutFault, mem, tab
<1>26. ASSUME NEW d \in Val, CopyoutWrite(p, d) PROVE TypeOK'
  BY <1>26, <1>1, <1>2 DEF TypeOK, CopyoutWrite, tab, Data
<1>27. CASE CopyoutFail(p)
  BY <1>27, <1>1, <1>2 DEF TypeOK, CopyoutFail, mem, tab
<1>28. CASE SyscallError(p)
  BY <1>28, <1>1, <1>2 DEF TypeOK, SyscallError, mem, tab
<1>29. ASSUME NEW n \in 1 .. NVa, SbrkLazy(p, n) PROVE TypeOK'
  BY <1>29, <1>1, <1>2, SizeAssumption DEF TypeOK, SbrkLazy, mem
<1>30. ASSUME NEW n \in 1 .. NVa, SbrkGrow(p, n) PROVE TypeOK'
  BY <1>30, <1>1, <1>2 DEF TypeOK, SbrkGrow, mem, tab
<1>31. ASSUME NEW n \in 1 .. NVa, SbrkShrink(p, n) PROVE TypeOK'
  BY <1>31, <1>1, <1>2 DEF TypeOK, SbrkShrink, mem, tab
<1>32. CASE GrowAlloc(p)
  BY <1>32, <1>1, <1>2 DEF TypeOK, GrowAlloc, mem, tab
<1>33. CASE GrowMap(p)
  <2>1. Writable(k[p].pg) \in PTE BY <1>33, <1>1 DEF Writable, PTE
  <2> QED BY <1>33, <1>1, <1>2, <2>1 DEF TypeOK, GrowMap, Mappages, Data
<1>34. CASE GrowNoMem(p)
  BY <1>34, <1>1, <1>2 DEF TypeOK, GrowNoMem, mem, tab
<1>35. CASE GrowMapFail(p)
  BY <1>35, <1>1, <1>2 DEF TypeOK, GrowMapFail, mem, tab
<1>36. CASE GrowDone(p)
  BY <1>36, <1>1, <1>2, SizeAssumption DEF TypeOK, GrowDone, mem
<1>37. CASE ShrinkDone(p)
  BY <1>37, <1>1, <1>2, SizeAssumption DEF TypeOK, ShrinkDone, mem, UnmapEnd
<1>38. CASE GrowUndone(p)
  BY <1>38, <1>1, <1>2 DEF TypeOK, GrowUndone, mem, tab, UnmapEnd
<1>39. CASE UnmapSkip(p)
  BY <1>39, <1>1, <1>2 DEF TypeOK, UnmapSkip, mem, tab
<1>40. CASE UnmapFree(p)
  BY <1>40, <1>1, <1>2 DEF TypeOK, UnmapFree, mem, tab
<1>41. CASE UnmapClear(p)
  <2>1. Unmapped \in PTE BY <1>41 DEF Unmapped, PTE
  <2> QED BY <1>41, <1>1, <1>2, <2>1 DEF TypeOK, UnmapClear, mem
<1>42. ASSUME NEW c \in Proc, ForkStart(p, c) PROVE TypeOK'
  BY <1>42, <1>1, <1>2 DEF TypeOK, ForkStart, mem
<1>43. CASE ForkPage(p)
  <2>1. k[p].va \in Va BY <1>43, <1>1, SizeInVa DEF ForkPage
  <2>2. Shared(pt[<<p, k[p].va>>]) \in PTE BY <1>43, <2>1, PteType DEF Shared, PTE
  <2> QED BY <1>43, <1>1, <1>2, <2>1, <2>2 DEF TypeOK, ForkPage, mem
<1>44. CASE ForkMapFail(p)
  <2>1. k[p].va \in Va BY <1>44, <1>1, SizeInVa DEF ForkMapFail
  <2>2. Shared(pt[<<p, k[p].va>>]) \in PTE BY <1>44, <2>1, PteType DEF Shared, PTE
  <2> QED BY <1>44, <1>1, <1>2, <2>1, <2>2 DEF TypeOK, ForkMapFail, mem
<1>45. CASE ForkPanic(p)
  BY <1>45, <1>1, <1>2 DEF TypeOK, ForkPanic, mem, tab
<1>46. CASE ForkDone(p)
  BY <1>46, <1>1, <1>2, ProcAssumption, SizeAssumption DEF TypeOK, ForkDone, mem
<1>47. CASE ForkFailed(p)
  BY <1>47, <1>1, <1>2 DEF TypeOK, ForkFailed, mem, UnmapEnd
<1>48. CASE Exit(p)
  BY <1>48, <1>1, <1>2 DEF TypeOK, Exit, mem, tab
<1>49. CASE KExit(p)
  BY <1>49, <1>1, <1>2, ProcAssumption DEF TypeOK, KExit, mem
<1>50. CASE InitExit(p)
  BY <1>50, <1>1, <1>2 DEF TypeOK, InitExit, mem, tab
<1>51. CASE ReapDone(p)
  <2>1. 0 \in 0 .. NVa BY <1>51, SizeAssumption
  <2> QED
    BY <1>51, <1>1, <1>2, ProcAssumption, SizeAssumption, <2>1 DEF TypeOK, ReapDone, mem, UnmapEnd
<1>52. CASE PanicLoop(p)
  BY <1>52, <1>1, <1>2 DEF TypeOK, PanicLoop, vars
<1>53. ASSUME NEW c \in Proc, Wait(p, c) PROVE TypeOK'
  BY <1>53, <1>1, <1>2 DEF TypeOK, Wait, mem, tab
<1>54. ASSUME NEW c \in Proc, NEW v \in Va, WaitStatus(p, c, v) PROVE TypeOK'
  BY <1>54, <1>1, <1>2 DEF TypeOK, WaitStatus, mem, tab
<1> QED
  BY <1>3, <1>4, <1>5, <1>6, <1>7, <1>8, <1>9, <1>10, <1>11, <1>12, <1>13, <1>14, <1>15, <1>16,
    <1>17, <1>18, <1>19, <1>20, <1>21, <1>22, <1>23, <1>24, <1>25, <1>26, <1>27, <1>28, <1>29,
    <1>30, <1>31, <1>32, <1>33, <1>34, <1>35, <1>36, <1>37, <1>38, <1>39, <1>40, <1>41, <1>42,
    <1>43, <1>44, <1>45, <1>46, <1>47, <1>48, <1>49, <1>50, <1>51, <1>52, <1>53, <1>54, <1>60,
    <1>61, <1>62 DEF Step, Kalloc, Kfree, Krefinc, UserAccess, Cowhandler, Vmfault, CopyFromUser,
    CopyToUser, Sbrk, Unmap, Fork, ExitWait

-----------------------------------------------------------------------------
(* What the threads know. *)

\* What a step of thread p may touch of the others.
Footprint(p) ==
  /\ \A q \in Proc : q # p /\ q # k[p].tgt => k'[q] = k[q]
  /\ k[p].tgt # p => k'[k[p].tgt] \in {k[k[p].tgt], Idle(k[p].tgt, "user")}
  /\ \A q \in Proc, v \in Va : q # p /\ q # k[p].tgt => pt'[<<q, v>>] = pt[<<q, v>>]
  /\ \A q \in Proc : q # p /\ q # k[p].tgt =>
       /\ sz'[q] = sz[q]
       /\ state'[q] = state[q] \/ (state[q] = "unused" /\ state'[q] = "used")
       /\ parent'[q] = parent[q] \/ parent[q] = p

\* Every action stays within the footprint.
LEMMA FootprintStep ==
  ASSUME TypeOK, ControlInv, NEW p \in Proc, Step(p)
  PROVE  Footprint(p)
<1>1. k[p].tgt \in Proc BY Fields
<1>2. CASE KallocPop(p)
  BY <1>2, <1>1, ProcAssumption DEF TypeOK, Footprint, KallocPop, tab, Become
<1>3. CASE KallocEmpty(p)
  BY <1>3, <1>1, ProcAssumption DEF TypeOK, Footprint, KallocEmpty, mem, tab, Become
<1>4. CASE KallocSetCount(p)
  BY <1>4, <1>1, ProcAssumption DEF TypeOK, Footprint, KallocSetCount, tab, Become
<1>5. CASE KfreeRead(p)
  BY <1>5, <1>1, ProcAssumption DEF TypeOK, Footprint, KfreeRead, tab, Become
<1>6. CASE KfreeWrite(p)
  BY <1>6, <1>1, ProcAssumption DEF TypeOK, Footprint, KfreeWrite, tab, Become
<1>7. CASE KfreePush(p)
  BY <1>7, <1>1, ProcAssumption DEF TypeOK, Footprint, KfreePush, tab, Become
<1>8. CASE KrefincRead(p)
  BY <1>8, <1>1, ProcAssumption DEF TypeOK, Footprint, KrefincRead, tab, Become
<1>9. CASE KrefincWrite(p)
  BY <1>9, <1>1, ProcAssumption DEF TypeOK, Footprint, KrefincWrite, tab, Become
<1>10. ASSUME NEW v \in Va, NEW d \in Val, UserStore(p, v, d) PROVE Footprint(p)
  BY <1>10, <1>1, ProcAssumption DEF TypeOK, Footprint, UserStore, tab
<1>11. ASSUME NEW v \in Va, CowFault(p, v) PROVE Footprint(p)
  BY <1>11, <1>1, ProcAssumption DEF TypeOK, Footprint, CowFault, mem, tab, Become
<1>12. ASSUME NEW v \in Va, LazyFault(p, v) PROVE Footprint(p)
  BY <1>12, <1>1, ProcAssumption DEF TypeOK, Footprint, LazyFault, mem, tab, Become
<1>13. ASSUME NEW v \in Va, BadFault(p, v) PROVE Footprint(p)
  BY <1>13, <1>1, ProcAssumption DEF TypeOK, Footprint, BadFault, mem, tab, Leave, Become
<1>60. ASSUME NEW v \in Va, CopyinFault(p, v) PROVE Footprint(p)
  BY <1>60, <1>1, ProcAssumption DEF TypeOK, Footprint, CopyinFault, mem, tab, Become
<1>61. ASSUME NEW v \in Va, CopyinFail(p, v) PROVE Footprint(p)
  BY <1>61, <1>1, ProcAssumption DEF TypeOK, Footprint, CopyinFail, mem, tab, Leave, Become
<1>62. ASSUME NEW v \in Va, Copyinstr(p, v) PROVE Footprint(p)
  BY <1>62, <1>1, ProcAssumption DEF TypeOK, Footprint, Copyinstr, mem, tab, Leave, Become
<1>14. CASE CowGetRef(p)
  BY <1>14, <1>1, ProcAssumption DEF TypeOK, Footprint, CowGetRef, mem, tab, Become
<1>15. CASE CowSole(p)
  BY <1>15, <1>1, ProcAssumption DEF TypeOK, Footprint, CowSole, mem, Leave, Become
<1>16. CASE CowShared(p)
  BY <1>16, <1>1, ProcAssumption DEF TypeOK, Footprint, CowShared, mem, tab, Become
<1>17. CASE CowNoMem(p)
  BY <1>17, <1>1, ProcAssumption DEF TypeOK, Footprint, CowNoMem, mem, tab, Leave, Become
<1>18. CASE CowCopy(p)
  BY <1>18, <1>1, ProcAssumption DEF TypeOK, Footprint, CowCopy, tab, Become
<1>19. CASE CowRemap(p)
  BY <1>19, <1>1, ProcAssumption DEF TypeOK, Footprint, CowRemap, Mappages, mem, Become
<1>20. CASE FaultMap(p)
  BY <1>20, <1>1, ProcAssumption DEF TypeOK, Footprint, FaultMap, Mappages, Become
<1>21. CASE FaultNoMem(p)
  BY <1>21, <1>1, ProcAssumption DEF TypeOK, Footprint, FaultNoMem, mem, tab, Leave, Become
<1>22. CASE FaultMapFail(p)
  BY <1>22, <1>1, ProcAssumption DEF TypeOK, Footprint, FaultMapFail, mem, tab, Become
<1>23. ASSUME NEW v \in Va, Copyout(p, v) PROVE Footprint(p)
  BY <1>23, <1>1, ProcAssumption DEF TypeOK, Footprint, Copyout, mem, tab, Become
<1>24. CASE CopyoutFault(p)
  BY <1>24, <1>1, ProcAssumption DEF TypeOK, Footprint, CopyoutFault, mem, tab, Become
<1>25. ASSUME NEW d \in Val, CopyoutWrite(p, d) PROVE Footprint(p)
  BY <1>25, <1>1, ProcAssumption DEF TypeOK, Footprint, CopyoutWrite, tab, Become
<1>26. CASE CopyoutFail(p)
  BY <1>26, <1>1, ProcAssumption DEF TypeOK, Footprint, CopyoutFail, mem, tab, Leave, Become
<1>27. CASE SyscallError(p)
  BY <1>27, <1>1, ProcAssumption DEF TypeOK, Footprint, SyscallError, mem, tab, Leave, Become
<1>28. ASSUME NEW n \in 1 .. NVa, SbrkLazy(p, n) PROVE Footprint(p)
  BY <1>28, <1>1, ProcAssumption DEF TypeOK, Footprint, SbrkLazy, mem
<1>29. ASSUME NEW n \in 1 .. NVa, SbrkGrow(p, n) PROVE Footprint(p)
  BY <1>29, <1>1, ProcAssumption DEF TypeOK, Footprint, SbrkGrow, mem, tab, Become
<1>30. ASSUME NEW n \in 1 .. NVa, SbrkShrink(p, n) PROVE Footprint(p)
  BY <1>30, <1>1, ProcAssumption DEF TypeOK, Footprint, SbrkShrink, mem, tab, Become
<1>31. CASE GrowAlloc(p)
  BY <1>31, <1>1, ProcAssumption DEF TypeOK, Footprint, GrowAlloc, mem, tab, Become
<1>32. CASE GrowMap(p)
  BY <1>32, <1>1, ProcAssumption DEF TypeOK, Footprint, GrowMap, Mappages, Become
<1>33. CASE GrowNoMem(p)
  BY <1>33, <1>1, ProcAssumption DEF TypeOK, Footprint, GrowNoMem, mem, tab, Become
<1>34. CASE GrowMapFail(p)
  BY <1>34, <1>1, ProcAssumption DEF TypeOK, Footprint, GrowMapFail, mem, tab, Become
<1>35. CASE GrowDone(p)
  BY <1>35, <1>1, ProcAssumption DEF TypeOK, Footprint, GrowDone, mem, Leave, Become
<1>36. CASE ShrinkDone(p)
  BY <1>36, <1>1, ProcAssumption DEF TypeOK, Footprint, ShrinkDone, mem, Leave, Become, UnmapEnd
<1>37. CASE GrowUndone(p)
  BY <1>37, <1>1, ProcAssumption DEF TypeOK, Footprint, GrowUndone, mem, tab, Leave, Become,
    UnmapEnd
<1>38. CASE UnmapSkip(p)
  BY <1>38, <1>1, ProcAssumption DEF TypeOK, Footprint, UnmapSkip, mem, tab, Become
<1>39. CASE UnmapFree(p)
  BY <1>39, <1>1, ProcAssumption DEF TypeOK, Footprint, UnmapFree, mem, tab, Become
<1>40. CASE UnmapClear(p)
  BY <1>40, <1>1, ProcAssumption DEF TypeOK, Footprint, UnmapClear, mem, Become
<1>41. ASSUME NEW c \in Proc, ForkStart(p, c) PROVE Footprint(p)
  BY <1>41, <1>1, ProcAssumption DEF TypeOK, Footprint, ForkStart, mem, Become
<1>42. CASE ForkPage(p)
  BY <1>42, <1>1, ProcAssumption DEF TypeOK, Footprint, ForkPage, mem, Become
<1>43. CASE ForkMapFail(p)
  BY <1>43, <1>1, ProcAssumption DEF TypeOK, Footprint, ForkMapFail, mem, Become
<1>44. CASE ForkPanic(p)
  BY <1>44, <1>1, ProcAssumption DEF TypeOK, Footprint, ForkPanic, mem, tab, Become
<1>45. CASE ForkDone(p)
  BY <1>45, <1>1, ProcAssumption DEF TypeOK, Footprint, ForkDone, mem
<1>46. CASE ForkFailed(p)
  BY <1>46, <1>1, ProcAssumption DEF TypeOK, Footprint, ForkFailed, mem, Leave, Become, UnmapEnd
<1>47. CASE Exit(p)
  BY <1>47, <1>1, ProcAssumption DEF TypeOK, Footprint, Exit, mem, tab, Leave, Become
<1>48. CASE KExit(p)
  BY <1>48, <1>1, ProcAssumption DEF TypeOK, Footprint, KExit, mem, Leave, Become
<1>49. CASE InitExit(p)
  BY <1>49, <1>1, ProcAssumption DEF TypeOK, Footprint, InitExit, mem, tab, Leave, Become
<1>50. CASE ReapDone(p)
  BY <1>50, <1>1, ProcAssumption DEF TypeOK, Footprint, ReapDone, mem, Leave, Become, UnmapEnd
<1>51. CASE PanicLoop(p)
  BY <1>51, <1>1, ProcAssumption DEF TypeOK, Footprint, PanicLoop, vars
<1>52. ASSUME NEW c \in Proc, Wait(p, c) PROVE Footprint(p)
  BY <1>52, <1>1, ProcAssumption DEF TypeOK, Footprint, Wait, mem, tab, Become
<1>53. ASSUME NEW c \in Proc, NEW v \in Va, WaitStatus(p, c, v) PROVE Footprint(p)
  BY <1>53, <1>1, ProcAssumption DEF TypeOK, Footprint, WaitStatus, mem, tab, Become
<1> QED
  BY <1>2, <1>3, <1>4, <1>5, <1>6, <1>7, <1>8, <1>9, <1>10, <1>11, <1>12, <1>13, <1>14, <1>15,
    <1>16, <1>17, <1>18, <1>19, <1>20, <1>21, <1>22, <1>23, <1>24, <1>25, <1>26, <1>27, <1>28,
    <1>29, <1>30, <1>31, <1>32, <1>33, <1>34, <1>35, <1>36, <1>37, <1>38, <1>39, <1>40, <1>41,
    <1>42, <1>43, <1>44, <1>45, <1>46, <1>47, <1>48, <1>49, <1>50, <1>51, <1>52, <1>53, <1>60,
    <1>61, <1>62 DEF Step, Kalloc, Kfree, Krefinc, UserAccess, Cowhandler, Vmfault, CopyFromUser,
    CopyToUser, Sbrk, Unmap, Fork, ExitWait

\* Only a thread that runs takes a step.
LEMMA Awake ==
  ASSUME TypeOK, ControlInv, NEW p \in Proc, Step(p)
  PROVE  k[p].pc # "off"
<1>1. CASE KallocPop(p)
  BY <1>1 DEF KallocPop
<1>2. CASE KallocEmpty(p)
  BY <1>2 DEF KallocEmpty
<1>3. CASE KallocSetCount(p)
  BY <1>3 DEF KallocSetCount
<1>4. CASE KfreeRead(p)
  BY <1>4 DEF KfreeRead
<1>5. CASE KfreeWrite(p)
  BY <1>5 DEF KfreeWrite
<1>6. CASE KfreePush(p)
  BY <1>6 DEF KfreePush
<1>7. CASE KrefincRead(p)
  BY <1>7 DEF KrefincRead
<1>8. CASE KrefincWrite(p)
  BY <1>8 DEF KrefincWrite
<1>9. ASSUME NEW v \in Va, NEW d \in Val, UserStore(p, v, d) PROVE k[p].pc # "off"
  BY <1>9 DEF UserStore
<1>10. ASSUME NEW v \in Va, CowFault(p, v) PROVE k[p].pc # "off"
  BY <1>10 DEF CowFault
<1>11. ASSUME NEW v \in Va, LazyFault(p, v) PROVE k[p].pc # "off"
  BY <1>11 DEF LazyFault
<1>12. ASSUME NEW v \in Va, BadFault(p, v) PROVE k[p].pc # "off"
  BY <1>12 DEF BadFault
<1>60. ASSUME NEW v \in Va, CopyinFault(p, v) PROVE k[p].pc # "off"
  BY <1>60 DEF CopyinFault
<1>61. ASSUME NEW v \in Va, CopyinFail(p, v) PROVE k[p].pc # "off"
  BY <1>61 DEF CopyinFail
<1>62. ASSUME NEW v \in Va, Copyinstr(p, v) PROVE k[p].pc # "off"
  BY <1>62 DEF Copyinstr
<1>13. CASE CowGetRef(p)
  BY <1>13 DEF CowGetRef
<1>14. CASE CowSole(p)
  BY <1>14 DEF CowSole
<1>15. CASE CowShared(p)
  BY <1>15 DEF CowShared
<1>16. CASE CowNoMem(p)
  BY <1>16 DEF CowNoMem
<1>17. CASE CowCopy(p)
  BY <1>17 DEF CowCopy
<1>18. CASE CowRemap(p)
  BY <1>18 DEF CowRemap
<1>19. CASE FaultMap(p)
  BY <1>19 DEF FaultMap
<1>20. CASE FaultNoMem(p)
  BY <1>20 DEF FaultNoMem
<1>21. CASE FaultMapFail(p)
  BY <1>21 DEF FaultMapFail
<1>22. ASSUME NEW v \in Va, Copyout(p, v) PROVE k[p].pc # "off"
  BY <1>22 DEF Copyout
<1>23. CASE CopyoutFault(p)
  BY <1>23 DEF CopyoutFault
<1>24. ASSUME NEW d \in Val, CopyoutWrite(p, d) PROVE k[p].pc # "off"
  BY <1>24 DEF CopyoutWrite
<1>25. CASE CopyoutFail(p)
  BY <1>25 DEF CopyoutFail
<1>26. CASE SyscallError(p)
  BY <1>26 DEF SyscallError
<1>27. ASSUME NEW n \in 1 .. NVa, SbrkLazy(p, n) PROVE k[p].pc # "off"
  BY <1>27 DEF SbrkLazy
<1>28. ASSUME NEW n \in 1 .. NVa, SbrkGrow(p, n) PROVE k[p].pc # "off"
  BY <1>28 DEF SbrkGrow
<1>29. ASSUME NEW n \in 1 .. NVa, SbrkShrink(p, n) PROVE k[p].pc # "off"
  BY <1>29 DEF SbrkShrink
<1>30. CASE GrowAlloc(p)
  BY <1>30 DEF GrowAlloc
<1>31. CASE GrowMap(p)
  BY <1>31 DEF GrowMap
<1>32. CASE GrowNoMem(p)
  BY <1>32 DEF GrowNoMem
<1>33. CASE GrowMapFail(p)
  BY <1>33 DEF GrowMapFail
<1>34. CASE GrowDone(p)
  BY <1>34 DEF GrowDone
<1>35. CASE ShrinkDone(p)
  BY <1>35 DEF ShrinkDone, UnmapEnd
<1>36. CASE GrowUndone(p)
  BY <1>36 DEF GrowUndone, UnmapEnd
<1>37. CASE UnmapSkip(p)
  BY <1>37 DEF UnmapSkip
<1>38. CASE UnmapFree(p)
  BY <1>38 DEF UnmapFree
<1>39. CASE UnmapClear(p)
  BY <1>39 DEF UnmapClear
<1>40. ASSUME NEW c \in Proc, ForkStart(p, c) PROVE k[p].pc # "off"
  BY <1>40 DEF ForkStart
<1>41. CASE ForkPage(p)
  BY <1>41 DEF ForkPage
<1>42. CASE ForkMapFail(p)
  BY <1>42 DEF ForkMapFail
<1>43. CASE ForkPanic(p)
  BY <1>43 DEF ForkPanic
<1>44. CASE ForkDone(p)
  BY <1>44 DEF ForkDone
<1>45. CASE ForkFailed(p)
  BY <1>45 DEF ForkFailed, UnmapEnd
<1>46. CASE Exit(p)
  BY <1>46 DEF Exit
<1>47. CASE KExit(p)
  BY <1>47 DEF KExit
<1>48. CASE InitExit(p)
  BY <1>48 DEF InitExit
<1>49. CASE ReapDone(p)
  BY <1>49 DEF ReapDone, UnmapEnd
<1>50. CASE PanicLoop(p)
  BY <1>50 DEF PanicLoop
<1>51. ASSUME NEW c \in Proc, Wait(p, c) PROVE k[p].pc # "off"
  BY <1>51 DEF Wait
<1>52. ASSUME NEW c \in Proc, NEW v \in Va, WaitStatus(p, c, v) PROVE k[p].pc # "off"
  BY <1>52 DEF WaitStatus
<1> QED
  BY <1>1, <1>2, <1>3, <1>4, <1>5, <1>6, <1>7, <1>8, <1>9, <1>10, <1>11, <1>12, <1>13, <1>14,
    <1>15, <1>16, <1>17, <1>18, <1>19, <1>20, <1>21, <1>22, <1>23, <1>24, <1>25, <1>26, <1>27,
    <1>28, <1>29, <1>30, <1>31, <1>32, <1>33, <1>34, <1>35, <1>36, <1>37, <1>38, <1>39, <1>40,
    <1>41, <1>42, <1>43, <1>44, <1>45, <1>46, <1>47, <1>48, <1>49, <1>50, <1>51, <1>52, <1>60,
    <1>61, <1>62 DEF Step, Kalloc, Kfree, Krefinc, UserAccess, Cowhandler, Vmfault, CopyFromUser,
    CopyToUser, Sbrk, Unmap, Fork, ExitWait

\* Two running threads work on different processes.
LEMMA Disjoint ==
  ASSUME TypeOK, ControlInv, NEW p \in Proc, NEW q \in Proc, p # q,
         k[p].pc # "off", k[q].pc # "off"
  PROVE  q # k[p].tgt /\ k[q].tgt # p /\ k[q].tgt # k[p].tgt
<1>1. k[p].tgt \in Proc /\ k[q].tgt \in Proc BY Fields
<1>2. TableInv BY DEF ControlInv
<1>3. state[p] = "live" /\ state[q] = "live" BY <1>2 DEF TableInv
<1>4. k[p].tgt # p => state[k[p].tgt] # "live" BY <1>2 DEF TableInv
<1>5. k[q].tgt # q => state[k[q].tgt] # "live" BY <1>2 DEF TableInv
<1>6. ~(k[p].tgt = k[q].tgt /\ k[p].tgt # p /\ k[q].tgt # q) BY <1>2 DEF TableInv
<1> QED BY <1>1, <1>3, <1>4, <1>5, <1>6

\* The target of a running thread, if it is another process, does not run.
LEMMA TargetOff ==
  ASSUME TypeOK, ControlInv, NEW p \in Proc, k[p].tgt # p
  PROVE  k[k[p].tgt].pc = "off" /\ k[k[p].tgt].tgt = k[p].tgt
<1>1. k[p].tgt \in Proc BY Fields
<1>2. k[k[p].tgt].pc = "off" BY <1>1 DEF ControlInv, TableInv
<1> QED BY <1>1, <1>2 DEF ControlInv, ThreadInv, Thread, PageInv

\* What a thread knows survives the steps of every other thread.
LEMMA OthersKeep ==
  ASSUME TypeOK, ControlInv, NEW p \in Proc, Step(p), NEW q \in Proc, q # p
  PROVE  Thread(q)'
<1>1. Footprint(p) BY FootprintStep
<1>2. k[p].pc # "off" /\ k[p].tgt \in Proc /\ k[q].tgt \in Proc BY Awake, Fields
<1>3. PageInv(q) /\ CowInv(q) /\ FaultInv(q) /\ GrowInv(q) /\ UnmapInv(q) /\ ForkInv(q)
  BY DEF ControlInv, ThreadInv, Thread
<1>4. CASE k'[q].pc = "off" \/ k'[q] = Idle(q, "user")
  <2>1. PageInv(q)' 
    <3>1. CASE k'[q] = Idle(q, "user") BY <3>1 DEF PageInv, Idle
    <3>2. CASE k'[q].pc = "off" /\ k'[q] # Idle(q, "user")
      <4>1. k'[q] = k[q] BY <3>2, <1>1, <1>2 DEF Footprint
      <4> QED BY <1>3, <4>1 DEF PageInv
    <3> QED BY <3>1, <3>2, <1>4
  <2>2. k'[q].pc = "off" \/ k'[q].pc = "user" BY <1>4 DEF Idle
  <2> QED
    BY <2>1, <2>2 DEF CowInv, FaultInv, GrowInv, UnmapInv, ForkInv, CowAt, FaultAt, GrowAt,
      UnmapAt, ForkAt, InKalloc, InKfree, Thread
<1>5. CASE k'[q].pc # "off" /\ k'[q] # Idle(q, "user")
  <2>1. k[q].pc # "off" /\ k'[q] = k[q] BY <1>5, <1>1, <1>2, TargetOff DEF Footprint
  <2>2. q # k[p].tgt /\ k[q].tgt # p /\ k[q].tgt # k[p].tgt BY <1>2, <2>1, Disjoint
  <2>3. \A v \in Va : pt'[<<q, v>>] = pt[<<q, v>>] /\ pt'[<<k[q].tgt, v>>] = pt[<<k[q].tgt, v>>]
    BY <1>1, <1>2, <2>2 DEF Footprint
  <2>4. sz'[q] = sz[q] /\ sz'[k[q].tgt] = sz[k[q].tgt] BY <1>1, <1>2, <2>2 DEF Footprint
  <2>5. state[k[q].tgt] \in {"used", "zombie"} => state'[k[q].tgt] = state[k[q].tgt]
    BY <1>1, <1>2, <2>2 DEF Footprint
  <2>6. PageInv(q)' BY <1>3, <2>1 DEF PageInv
  <2>7. CowInv(q)' BY <1>3, <2>1, <2>3 DEF CowInv, CowAt, InKalloc
  <2>8. FaultInv(q)' BY <1>3, <2>1, <2>3, <2>4, <2>5 DEF FaultInv, FaultAt, InKalloc
  <2>9. GrowInv(q)' BY <1>3, <2>1, <2>3, <2>4 DEF GrowInv, GrowAt, InKalloc, Empty
  <2>10. UnmapInv(q)'
    <3> SUFFICES ASSUME UnmapAt(q)' PROVE UnmapInv(q)' BY DEF UnmapInv
    <3>1. UnmapAt(q) BY <2>1 DEF UnmapAt, InKfree
    <3>2. UnmapInv(q) BY <1>3
    <3>3. k[q].uret \in {"reap", "fork_fail"} => state'[k[q].tgt] = state[k[q].tgt]
      BY <3>1, <3>2, <2>5 DEF UnmapInv
    <3>4. \A n : Empty(k[q].tgt, n)' <=> Empty(k[q].tgt, n)
      BY <2>1, <2>3 DEF Empty
    <3>5. \A n : Empty(q, n)' <=> Empty(q, n)
      BY <2>3 DEF Empty
    <3>6. \A v \in Va : v < k[q].va =>
            \/ pt[<<k[q].tgt, v>>].pa = NoPage
            \/ k[q].uret = "shrink" /\ v < k[q].nsz
            \/ k[q].uret = "err" /\ v < sz[q]
      BY <3>1, <3>2 DEF UnmapInv
    <3>7. (\A v \in Va : v < k[q].va =>
            \/ pt[<<k[q].tgt, v>>].pa = NoPage
            \/ k[q].uret = "shrink" /\ v < k[q].nsz
            \/ k[q].uret = "err" /\ v < sz[q])'
      BY <3>6, <2>1, <2>3, <2>4
    <3>8. InKfree(q, "clear") => k[q].va \in Va BY <3>1, <3>2, Fields, SizeInVa DEF UnmapInv
    <3> QED BY <3>1, <3>2, <3>3, <3>4, <3>5, <3>7, <3>8, <2>1, <2>3, <2>4 DEF UnmapInv, InKfree
  <2>11. ForkInv(q)'
    <3> SUFFICES ASSUME ForkAt(q)' PROVE ForkInv(q)' BY DEF ForkInv
    <3>1. ForkAt(q) BY <2>1 DEF ForkAt
    <3>2. state'[k[q].tgt] = "used" BY <1>3, <3>1, <2>5 DEF ForkInv
    <3>3. ForkInv(q) BY <1>3
    <3>4. k[q].pc \in {"inc", "inc_w"} => k[q].va \in Va
      BY <3>3, <3>1, Fields, SizeInVa DEF ForkInv
    <3>5. k[q].pc = "fork" => Empty(k[q].tgt, k[q].va)'
      BY <3>1, <3>3, <2>1, <2>3 DEF ForkInv, Empty
    <3>6. k[q].pc \in {"inc", "inc_w"} => Empty(k[q].tgt, k[q].va + 1)'
      BY <3>1, <3>3, <2>1, <2>3 DEF ForkInv, Empty
    <3> QED BY <3>1, <3>3, <2>1, <2>3, <2>4, <3>2, <3>4, <3>5, <3>6 DEF ForkInv
  <2> QED BY <2>6, <2>7, <2>8, <2>9, <2>10, <2>11 DEF Thread
<1> QED BY <1>4, <1>5

\* What a thread knows at its next label follows from what it knew before its own step.
LEMMA ThreadStep ==
  ASSUME TypeOK, ControlInv, NEW p \in Proc, Step(p)
  PROVE  Thread(p)'
<1>1. /\ k \in [Proc -> Frame] /\ k[p] \in Frame /\ k[p].tgt \in Proc
      /\ k[p].pg \in Page \union {NoPage}
      /\ pt \in [Proc \X Va -> PTE] /\ sz \in [Proc -> 0 .. NVa]
      /\ state \in [Proc -> {"unused", "used", "live", "zombie"}]
  BY Fields DEF TypeOK
<1>F. /\ k[p].va \in 0 .. NVa /\ k[p].hi \in 0 .. NVa /\ sz[p] \in 0 .. NVa /\ k[p].nsz \in 0 .. NVa
      /\ NVa \in Nat
  BY Fields, SizeAssumption
<1>V. Va \subseteq Nat /\ \A v \in Va : v < NVa
  BY SizeAssumption DEF Va
<1>2. PageInv(p) /\ CowInv(p) /\ FaultInv(p) /\ GrowInv(p) /\ UnmapInv(p) /\ ForkInv(p)
  BY DEF ControlInv, ThreadInv, Thread
<1>3. CASE KallocPop(p)
  <2>1. PageInv(p)' BY <1>3, <1>1, <1>2 DEF KallocPop, tab, Become, PageInv
  <2>2. CowInv(p)' BY <1>3, <1>1, <1>2 DEF KallocPop, tab, Become, CowInv, CowAt, InKalloc
  <2>3. FaultInv(p)' BY <1>3, <1>1, <1>2 DEF KallocPop, tab, Become, FaultInv, FaultAt, InKalloc
  <2>4. GrowInv(p)'
    BY <1>3, <1>1, <1>2 DEF KallocPop, tab, Become, GrowInv, GrowAt, InKalloc, Empty
  <2>5. (UnmapInv(p) /\ ForkInv(p))'
    BY <1>3, <1>1, <1>2 DEF KallocPop, tab, Become, UnmapInv, UnmapAt, InKfree, ForkInv, ForkAt,
      PageInv
  <2> QED BY <2>1, <2>2, <2>3, <2>4, <2>5 DEF Thread
<1>4. CASE KallocEmpty(p)
  <2>1. /\ k'[p].pc = k[p].ret /\ k'[p].ret = k[p].ret /\ k'[p].uret = k[p].uret /\ k'[p].pg = k[p].pg
         /\ k'[p].va = k[p].va /\ k'[p].hi = k[p].hi /\ k'[p].nsz = k[p].nsz /\ k'[p].tgt = k[p].tgt
         /\ pt' = pt /\ sz' = sz
    BY <1>4, <1>1 DEF KallocEmpty, mem, tab, Become, Frame
  <2>2. PageInv(p)' BY <1>4, <1>1, <1>2, <2>1 DEF KallocEmpty, mem, tab, PageInv
  <2>3. CowInv(p)'
    BY <1>4, <1>1, <1>2, <2>1 DEF KallocEmpty, mem, tab, CowInv, CowAt, InKalloc, PageInv
  <2>4. FaultInv(p)'
    BY <1>4, <1>1, <1>2, <2>1 DEF KallocEmpty, mem, tab, FaultInv, FaultAt, InKalloc, PageInv
  <2>5. GrowInv(p)'
    BY <1>4, <1>1, <1>2, <2>1 DEF KallocEmpty, mem, tab, GrowInv, GrowAt, InKalloc, Empty, PageInv
  <2>6. (UnmapInv(p) /\ ForkInv(p))'
    BY <1>4, <1>1, <1>2, <2>1 DEF KallocEmpty, mem, tab, UnmapInv, UnmapAt, InKfree, ForkInv,
      ForkAt, PageInv
  <2> QED BY <2>2, <2>3, <2>4, <2>5, <2>6 DEF Thread
<1>5. CASE KallocSetCount(p)
  <2>1. /\ k'[p].pc = k[p].ret /\ k'[p].ret = k[p].ret /\ k'[p].uret = k[p].uret /\ k'[p].pg = k[p].pg
         /\ k'[p].va = k[p].va /\ k'[p].hi = k[p].hi /\ k'[p].nsz = k[p].nsz /\ k'[p].tgt = k[p].tgt
         /\ pt' = pt /\ sz' = sz
    BY <1>5, <1>1 DEF KallocSetCount, tab, Become, Frame
  <2>2. PageInv(p)' BY <1>5, <1>1, <1>2, <2>1 DEF KallocSetCount, tab, PageInv
  <2>3. CowInv(p)'
    BY <1>5, <1>1, <1>2, <2>1 DEF KallocSetCount, tab, CowInv, CowAt, InKalloc, PageInv
  <2>4. FaultInv(p)'
    BY <1>5, <1>1, <1>2, <2>1 DEF KallocSetCount, tab, FaultInv, FaultAt, InKalloc, PageInv
  <2>5. GrowInv(p)'
    BY <1>5, <1>1, <1>2, <2>1 DEF KallocSetCount, tab, GrowInv, GrowAt, InKalloc, Empty, PageInv
  <2>6. (UnmapInv(p) /\ ForkInv(p))'
    BY <1>5, <1>1, <1>2, <2>1 DEF KallocSetCount, tab, UnmapInv, UnmapAt, InKfree, ForkInv,
      ForkAt, PageInv
  <2> QED BY <2>2, <2>3, <2>4, <2>5, <2>6 DEF Thread
<1>6. CASE KfreeRead(p)
  <2>1. PageInv(p)' BY <1>6, <1>1, <1>2 DEF KfreeRead, tab, Become, PageInv
  <2>2. UnmapInv(p)'
    BY <1>6, <1>1, <1>2 DEF KfreeRead, tab, Become, UnmapInv, UnmapAt, InKfree, Empty
  <2>3. (CowInv(p) /\ FaultInv(p) /\ GrowInv(p) /\ ForkInv(p))'
    BY <1>6, <1>1, <1>2 DEF KfreeRead, tab, Become, CowInv, CowAt, InKalloc, FaultInv, FaultAt,
      GrowInv, GrowAt, ForkInv, ForkAt, PageInv
  <2> QED BY <2>1, <2>2, <2>3 DEF Thread
<1>7. CASE KfreeWrite(p)
  <2>1. PageInv(p)' BY <1>7, <1>1, <1>2 DEF KfreeWrite, tab, Become, PageInv
  <2>2. UnmapInv(p)'
    BY <1>7, <1>1, <1>2 DEF KfreeWrite, tab, Become, UnmapInv, UnmapAt, InKfree, Empty, PageInv
  <2>3. (CowInv(p) /\ FaultInv(p) /\ GrowInv(p) /\ ForkInv(p))'
    BY <1>7, <1>1, <1>2 DEF KfreeWrite, tab, Become, CowInv, CowAt, InKalloc, FaultInv, FaultAt,
      GrowInv, GrowAt, ForkInv, ForkAt, PageInv
  <2> QED BY <2>1, <2>2, <2>3 DEF Thread
<1>8. CASE KfreePush(p)
  <2>1. /\ k'[p].pc = k[p].ret /\ k'[p].pg = NoPage /\ k'[p].ret = k[p].ret /\ k'[p].uret = k[p].uret
         /\ k'[p].va = k[p].va /\ k'[p].hi = k[p].hi /\ k'[p].nsz = k[p].nsz /\ k'[p].tgt = k[p].tgt
         /\ pt' = pt /\ sz' = sz /\ state' = state
    BY <1>8, <1>1 DEF KfreePush, tab, Become, Frame
  <2>2. PageInv(p)' BY <1>8, <1>1, <1>2, <2>1 DEF KfreePush, tab, PageInv
  <2>3. UnmapInv(p)'
    BY <1>8, <1>1, <1>2, <2>1 DEF KfreePush, tab, UnmapInv, UnmapAt, InKfree, Empty, PageInv
  <2>4. (CowInv(p) /\ FaultInv(p) /\ GrowInv(p) /\ ForkInv(p))'
    BY <1>8, <1>1, <1>2, <2>1 DEF KfreePush, tab, CowInv, CowAt, InKalloc, FaultInv, FaultAt,
      GrowInv, GrowAt, ForkInv, ForkAt, PageInv
  <2> QED BY <2>2, <2>3, <2>4 DEF Thread
<1>9. CASE KrefincRead(p)
  <2>1. PageInv(p)' BY <1>9, <1>1, <1>2 DEF KrefincRead, tab, Become, PageInv
  <2>2. ForkInv(p)' BY <1>9, <1>1, <1>2 DEF KrefincRead, tab, Become, ForkInv, ForkAt, Empty
  <2>3. (CowInv(p) /\ FaultInv(p) /\ GrowInv(p) /\ UnmapInv(p))'
    BY <1>9, <1>1, <1>2 DEF KrefincRead, tab, Become, CowInv, CowAt, InKalloc, FaultInv, FaultAt,
      GrowInv, GrowAt, UnmapInv, UnmapAt, InKfree, PageInv
  <2> QED BY <2>1, <2>2, <2>3 DEF Thread
<1>10. CASE KrefincWrite(p)
  <2>1. /\ k'[p].pc = "fork" /\ k'[p].pg = NoPage /\ k'[p].va = k[p].va + 1 /\ k'[p].ret = k[p].ret
         /\ k'[p].uret = k[p].uret /\ k'[p].hi = k[p].hi /\ k'[p].nsz = k[p].nsz /\ k'[p].tgt = k[p].tgt
    BY <1>10, <1>1 DEF KrefincWrite, tab, Become, Frame
  <2>2. PageInv(p)' BY <1>10, <1>1, <1>2, <2>1 DEF KrefincWrite, tab, PageInv
  <2>3. ForkInv(p)'
    <3>1. k[p].va < sz[p] /\ Empty(k[p].tgt, k[p].va + 1)
      BY <1>10, <1>2 DEF ForkInv, ForkAt, KrefincWrite
    <3>2. k[p].va + 1 <= sz[p] BY <1>10, <1>F, <3>1
    <3> QED BY <1>10, <1>1, <1>2, <2>1, <3>1, <3>2 DEF ForkInv, ForkAt, KrefincWrite, tab, Empty
  <2>4. (CowInv(p) /\ FaultInv(p) /\ GrowInv(p) /\ UnmapInv(p))'
    BY <1>10, <1>1, <1>2, <2>1 DEF KrefincWrite, tab, CowInv, CowAt, InKalloc, FaultInv, FaultAt,
      GrowInv, GrowAt, UnmapInv, UnmapAt, InKfree, PageInv
  <2> QED BY <2>2, <2>3, <2>4 DEF Thread
<1>11. ASSUME NEW v \in Va, NEW d \in Val, UserStore(p, v, d) PROVE Thread(p)'
  BY <1>11, <1>1, <1>2 DEF UserStore, tab, PageInv, CowInv, CowAt, InKalloc, FaultInv, FaultAt,
    GrowInv, GrowAt, Empty, UnmapInv, UnmapAt, InKfree, ForkInv, ForkAt, Thread
<1>12. ASSUME NEW v \in Va, CowFault(p, v) PROVE Thread(p)'
  <2>1. /\ k'[p].pc = "cow_ref" /\ k'[p].va = v /\ k'[p].ret = k[p].ret /\ k'[p].uret = k[p].uret
         /\ k'[p].pg = k[p].pg /\ k'[p].hi = k[p].hi /\ k'[p].nsz = k[p].nsz /\ k'[p].tgt = k[p].tgt
    BY <1>12, <1>1 DEF CowFault, mem, tab, Become, Frame
  <2>2. PageInv(p)' BY <1>12, <1>1, <1>2, <2>1 DEF CowFault, mem, tab, PageInv
  <2>3. CowInv(p)'
    BY <1>12, <1>1, <1>2, <2>1 DEF CowFault, mem, tab, CowInv, CowAt, InKalloc, PageInv
  <2>4. (FaultInv(p) /\ GrowInv(p) /\ UnmapInv(p) /\ ForkInv(p))'
    BY <1>12, <1>1, <1>2, <2>1 DEF CowFault, mem, tab, FaultInv, FaultAt, InKalloc, GrowInv,
      GrowAt, UnmapInv, UnmapAt, InKfree, ForkInv, ForkAt, PageInv
  <2> QED BY <2>2, <2>3, <2>4 DEF Thread
<1>13. ASSUME NEW v \in Va, LazyFault(p, v) PROVE Thread(p)'
  <2>1. /\ k'[p].pc = "pop" /\ k'[p].ret = "fault_map" /\ k'[p].va = v /\ k'[p].uret = k[p].uret
         /\ k'[p].pg = k[p].pg /\ k'[p].hi = k[p].hi /\ k'[p].nsz = k[p].nsz /\ k'[p].tgt = k[p].tgt
    BY <1>13, <1>1 DEF LazyFault, mem, tab, Become, Frame
  <2>2. PageInv(p)' BY <1>13, <1>1, <1>2, <2>1 DEF LazyFault, mem, tab, PageInv
  <2>3. FaultInv(p)'
    BY <1>13, <1>1, <1>2, <2>1 DEF LazyFault, mem, tab, FaultInv, FaultAt, InKalloc, PageInv
  <2>4. (CowInv(p) /\ GrowInv(p) /\ UnmapInv(p) /\ ForkInv(p))'
    BY <1>13, <1>1, <1>2, <2>1 DEF LazyFault, mem, tab, CowInv, CowAt, InKalloc, GrowInv, GrowAt,
      UnmapInv, UnmapAt, InKfree, ForkInv, ForkAt, PageInv
  <2> QED BY <2>2, <2>3, <2>4 DEF Thread
<1>14. ASSUME NEW v \in Va, BadFault(p, v) PROVE Thread(p)'
  <2>1. PageInv(p)' BY <1>14, <1>1, <1>2 DEF BadFault, mem, tab, Leave, Become, Idle, PageInv
  <2>2. (CowInv(p) /\ FaultInv(p) /\ GrowInv(p) /\ UnmapInv(p) /\ ForkInv(p))'
    BY <1>14, <1>1, <1>2 DEF BadFault, mem, tab, Leave, Become, Idle, CowInv, CowAt, InKalloc,
      FaultInv, FaultAt, GrowInv, GrowAt, UnmapInv, UnmapAt, InKfree, ForkInv, ForkAt, PageInv
  <2> QED BY <2>1, <2>2 DEF Thread
<1>60. ASSUME NEW v \in Va, CopyinFault(p, v) PROVE Thread(p)'
  <2>1. /\ k'[p].pc = "pop" /\ k'[p].ret = "fault_map" /\ k'[p].va = v /\ k'[p].uret = "copyin"
         /\ k'[p].pg = k[p].pg /\ k'[p].hi = k[p].hi /\ k'[p].nsz = k[p].nsz /\ k'[p].tgt = k[p].tgt
    BY <1>60, <1>1 DEF CopyinFault, Walkaddr, mem, tab, Become, Frame
  <2>2. PageInv(p)' BY <1>60, <1>1, <1>2, <2>1 DEF CopyinFault, Walkaddr, mem, tab, PageInv
  <2>3. FaultInv(p)'
    BY <1>60, <1>1, <1>2, <2>1 DEF CopyinFault, Walkaddr, mem, tab, FaultInv, FaultAt, InKalloc,
      PageInv
  <2>4. (CowInv(p) /\ GrowInv(p) /\ UnmapInv(p) /\ ForkInv(p))'
    BY <1>60, <1>1, <1>2, <2>1 DEF CopyinFault, Walkaddr, mem, tab, CowInv, CowAt, InKalloc,
      GrowInv, GrowAt, UnmapInv, UnmapAt, InKfree, ForkInv, ForkAt, PageInv
  <2> QED BY <2>2, <2>3, <2>4 DEF Thread
<1>61. ASSUME NEW v \in Va, CopyinFail(p, v) PROVE Thread(p)'
  <2>1. PageInv(p)'
    BY <1>61, <1>1, <1>2 DEF CopyinFail, Walkaddr, mem, tab, Leave, Become, Idle, PageInv
  <2>2. (CowInv(p) /\ FaultInv(p) /\ GrowInv(p) /\ UnmapInv(p) /\ ForkInv(p))'
    BY <1>61, <1>1, <1>2 DEF CopyinFail, Walkaddr, mem, tab, Leave, Become, Idle, CowInv, CowAt,
      InKalloc, FaultInv, FaultAt, GrowInv, GrowAt, UnmapInv, UnmapAt, InKfree, ForkInv, ForkAt,
      PageInv
  <2> QED BY <2>1, <2>2 DEF Thread
<1>62. ASSUME NEW v \in Va, Copyinstr(p, v) PROVE Thread(p)'
  <2>1. PageInv(p)'
    BY <1>62, <1>1, <1>2 DEF Copyinstr, Walkaddr, mem, tab, Leave, Become, Idle, PageInv
  <2>2. (CowInv(p) /\ FaultInv(p) /\ GrowInv(p) /\ UnmapInv(p) /\ ForkInv(p))'
    BY <1>62, <1>1, <1>2 DEF Copyinstr, Walkaddr, mem, tab, Leave, Become, Idle, CowInv, CowAt,
      InKalloc, FaultInv, FaultAt, GrowInv, GrowAt, UnmapInv, UnmapAt, InKfree, ForkInv, ForkAt,
      PageInv
  <2> QED BY <2>1, <2>2 DEF Thread
<1>15. CASE CowGetRef(p)
  <2>1. PageInv(p)' BY <1>15, <1>1, <1>2 DEF CowGetRef, mem, tab, Become, PageInv
  <2>2. CowInv(p)' BY <1>15, <1>1, <1>2 DEF CowGetRef, mem, tab, Become, CowInv, CowAt, InKalloc
  <2>3. (FaultInv(p) /\ GrowInv(p) /\ UnmapInv(p) /\ ForkInv(p))'
    BY <1>15, <1>1, <1>2 DEF CowGetRef, mem, tab, Become, FaultInv, FaultAt, InKalloc, GrowInv,
      GrowAt, UnmapInv, UnmapAt, InKfree, ForkInv, ForkAt, PageInv
  <2> QED BY <2>1, <2>2, <2>3 DEF Thread
<1>16. CASE CowSole(p)
  <2>1. PageInv(p)' BY <1>16, <1>1, <1>2 DEF CowSole, mem, Leave, Become, Idle, Writable, PageInv
  <2>2. (CowInv(p) /\ FaultInv(p) /\ GrowInv(p) /\ UnmapInv(p) /\ ForkInv(p))'
    BY <1>16, <1>1, <1>2 DEF CowSole, mem, Leave, Become, Idle, Writable, CowInv, CowAt, InKalloc,
      FaultInv, FaultAt, GrowInv, GrowAt, UnmapInv, UnmapAt, InKfree, ForkInv, ForkAt, PageInv
  <2> QED BY <2>1, <2>2 DEF Thread
<1>17. CASE CowShared(p)
  <2>1. /\ k'[p].pc = "pop" /\ k'[p].ret = "cow_copy" /\ k'[p].uret = k[p].uret /\ k'[p].pg = k[p].pg
         /\ k'[p].va = k[p].va /\ k'[p].hi = k[p].hi /\ k'[p].nsz = k[p].nsz /\ k'[p].tgt = k[p].tgt
    BY <1>17, <1>1 DEF CowShared, mem, tab, Become, Frame
  <2>2. PageInv(p)'
    <3> QED BY <1>17, <1>1, <1>2, <2>1 DEF CowShared, mem, tab, PageInv, CowInv, CowAt
  <2>3. CowInv(p)'
    BY <1>17, <1>1, <1>2, <2>1 DEF CowShared, mem, tab, CowInv, CowAt, InKalloc, PageInv
  <2>4. (FaultInv(p) /\ GrowInv(p) /\ UnmapInv(p) /\ ForkInv(p))'
    BY <1>17, <1>1, <1>2, <2>1 DEF CowShared, mem, tab, FaultInv, FaultAt, InKalloc, GrowInv,
      GrowAt, UnmapInv, UnmapAt, InKfree, ForkInv, ForkAt, PageInv
  <2> QED BY <2>2, <2>3, <2>4 DEF Thread
<1>18. CASE CowNoMem(p)
  <2>1. PageInv(p)' BY <1>18, <1>1, <1>2 DEF CowNoMem, mem, tab, Leave, Become, Idle, PageInv
  <2>2. (CowInv(p) /\ FaultInv(p) /\ GrowInv(p) /\ UnmapInv(p) /\ ForkInv(p))'
    BY <1>18, <1>1, <1>2 DEF CowNoMem, mem, tab, Leave, Become, Idle, CowInv, CowAt, InKalloc,
      FaultInv, FaultAt, GrowInv, GrowAt, UnmapInv, UnmapAt, InKfree, ForkInv, ForkAt, PageInv
  <2> QED BY <2>1, <2>2 DEF Thread
<1>19. CASE CowCopy(p)
  <2>1. PageInv(p)' BY <1>19, <1>1, <1>2 DEF CowCopy, tab, Become, PageInv
  <2>2. CowInv(p)' BY <1>19, <1>1, <1>2 DEF CowCopy, tab, Become, CowInv, CowAt, InKalloc
  <2>3. (FaultInv(p) /\ GrowInv(p) /\ UnmapInv(p) /\ ForkInv(p))'
    BY <1>19, <1>1, <1>2 DEF CowCopy, tab, Become, FaultInv, FaultAt, InKalloc, GrowInv, GrowAt,
      UnmapInv, UnmapAt, InKfree, ForkInv, ForkAt, PageInv
  <2> QED BY <2>1, <2>2, <2>3 DEF Thread
<1>20. CASE CowRemap(p)
  <2>1. PageInv(p)'
    <3>1. k[p].va \in Va /\ pt[<<p, k[p].va>>].cow
      BY <1>20, <1>2 DEF CowInv, CowAt, CowRemap, Mappages
    <3>2. pt[<<p, k[p].va>>].pa \in Page BY <1>20, <3>1, PteType DEF ControlInv, PteInv
    <3> QED
      BY <1>20, <1>1, <1>2, <3>1, <3>2 DEF CowRemap, Mappages, mem, Become, Freeing, Writable,
        PageInv
  <2>2. (CowInv(p) /\ FaultInv(p) /\ GrowInv(p) /\ UnmapInv(p) /\ ForkInv(p))'
    BY <1>20, <1>1, <1>2 DEF CowRemap, Mappages, mem, Become, Freeing, Writable, CowInv, CowAt,
      InKalloc, FaultInv, FaultAt, GrowInv, GrowAt, UnmapInv, UnmapAt, InKfree, ForkInv, ForkAt,
      PageInv
  <2> QED BY <2>1, <2>2 DEF Thread
<1>21. CASE FaultMap(p)
  <2>1. /\ k'[p].pc = (IF k[p].uret = "copyout" THEN "copyout" ELSE "user") /\ k'[p].ret = "user" /\ k'[p].uret = "user" /\ k'[p].pg = NoPage
         /\ k'[p].va = k[p].va /\ k'[p].hi = k[p].hi /\ k'[p].nsz = k[p].nsz /\ k'[p].tgt = k[p].tgt
    BY <1>21, <1>1 DEF FaultMap, Mappages, Become, Writable, Frame
  <2>2. PageInv(p)'
    <3>1. k[p].uret \in {"user", "copyin", "copyout"} /\ (k[p].uret # "copyout" => k[p].tgt = p)
      BY <1>21, <1>2 DEF FaultInv, FaultAt, InKalloc, FaultMap, Mappages
    <3> QED BY <1>21, <1>1, <1>2, <2>1, <3>1 DEF FaultMap, Mappages, Writable, PageInv
  <2>3. FaultInv(p)'
    BY <1>21, <1>1, <1>2, <2>1 DEF FaultMap, Mappages, Writable, FaultInv, FaultAt, InKalloc,
      PageInv
  <2>4. (CowInv(p) /\ GrowInv(p) /\ UnmapInv(p) /\ ForkInv(p))'
    BY <1>21, <1>1, <1>2, <2>1 DEF FaultMap, Mappages, FaultInv, FaultAt, CowInv, CowAt, InKalloc,
      GrowInv, GrowAt, UnmapInv, UnmapAt, InKfree, ForkInv, ForkAt, PageInv
  <2> QED BY <2>2, <2>3, <2>4 DEF Thread
<1>22. CASE FaultNoMem(p)
  <2>1. PageInv(p)'
    BY <1>22, <1>1, <1>2 DEF FaultNoMem, mem, tab, Leave, Become, Idle, FaultFailed, PageInv
  <2>2. (CowInv(p) /\ FaultInv(p) /\ GrowInv(p) /\ UnmapInv(p) /\ ForkInv(p))'
    BY <1>22, <1>1, <1>2 DEF FaultNoMem, mem, tab, Leave, Become, Idle, FaultFailed, CowInv,
      CowAt, InKalloc, FaultInv, FaultAt, GrowInv, GrowAt, UnmapInv, UnmapAt, InKfree, ForkInv,
      ForkAt, PageInv
  <2> QED BY <2>1, <2>2 DEF Thread
<1>23. CASE FaultMapFail(p)
  <2>1. PageInv(p)'
    BY <1>23, <1>1, <1>2 DEF FaultMapFail, mem, tab, Become, Freeing, FaultFailed, PageInv
  <2>2. (CowInv(p) /\ FaultInv(p) /\ GrowInv(p) /\ UnmapInv(p) /\ ForkInv(p))'
    BY <1>23, <1>1, <1>2 DEF FaultMapFail, mem, tab, Become, Freeing, FaultFailed, CowInv, CowAt,
      InKalloc, FaultInv, FaultAt, GrowInv, GrowAt, UnmapInv, UnmapAt, InKfree, ForkInv, ForkAt,
      PageInv
  <2> QED BY <2>1, <2>2 DEF Thread
<1>24. ASSUME NEW v \in Va, Copyout(p, v) PROVE Thread(p)'
  <2>1. PageInv(p)' BY <1>24, <1>1, <1>2 DEF Copyout, mem, tab, Become, PageInv
  <2>2. FaultInv(p)'
    BY <1>24, <1>1, <1>2 DEF Copyout, mem, tab, Become, FaultInv, FaultAt, InKalloc, PageInv
  <2>3. (CowInv(p) /\ GrowInv(p) /\ UnmapInv(p) /\ ForkInv(p))'
    BY <1>24, <1>1, <1>2 DEF Copyout, mem, tab, Become, CowInv, CowAt, InKalloc, GrowInv, GrowAt,
      UnmapInv, UnmapAt, InKfree, ForkInv, ForkAt, PageInv
  <2> QED BY <2>1, <2>2, <2>3 DEF Thread
<1>25. CASE CopyoutFault(p)
  <2>1. /\ k'[p].pc = "pop" /\ k'[p].ret = "fault_map" /\ k'[p].uret = "copyout" /\ k'[p].pg = k[p].pg
         /\ k'[p].va = k[p].va /\ k'[p].hi = k[p].hi /\ k'[p].nsz = k[p].nsz /\ k'[p].tgt = k[p].tgt
    BY <1>25, <1>1 DEF CopyoutFault, mem, tab, Become, Frame
  <2>2. PageInv(p)' BY <1>25, <1>1, <1>2, <2>1 DEF CopyoutFault, mem, tab, PageInv
  <2>3. FaultInv(p)'
    <3>1. k[p].va \in Va BY <1>25, <1>F, SizeInVa DEF CopyoutFault
    <3> QED
      BY <1>25, <1>1, <1>2, <2>1, <3>1 DEF CopyoutFault, mem, tab, FaultInv, FaultAt, InKalloc,
        PageInv
  <2>4. (CowInv(p) /\ GrowInv(p) /\ UnmapInv(p) /\ ForkInv(p))'
    BY <1>25, <1>1, <1>2, <2>1 DEF CopyoutFault, mem, tab, CowInv, CowAt, InKalloc, GrowInv,
      GrowAt, UnmapInv, UnmapAt, InKfree, ForkInv, ForkAt, PageInv
  <2> QED BY <2>2, <2>3, <2>4 DEF Thread
<1>26. ASSUME NEW d \in Val, CopyoutWrite(p, d) PROVE Thread(p)'
  <2>1. PageInv(p)' BY <1>26, <1>1, <1>2 DEF CopyoutWrite, tab, Become, Idle, Unmapping, PageInv
  <2>2. UnmapInv(p)'
    <3>1. k[p].tgt # p => state[k[p].tgt] = "zombie" BY <1>26, <1>2 DEF FaultInv, CopyoutWrite
    <3> QED
      BY <1>26, <1>1, <1>2, <3>1, <1>F, <1>V DEF CopyoutWrite, tab, Become, Idle, Unmapping,
        UnmapInv, UnmapAt, InKfree, Empty
  <2>3. (CowInv(p) /\ FaultInv(p) /\ GrowInv(p) /\ ForkInv(p))'
    BY <1>26, <1>1, <1>2 DEF CopyoutWrite, tab, Become, Idle, Unmapping, CowInv, CowAt, InKalloc,
      FaultInv, FaultAt, GrowInv, GrowAt, ForkInv, ForkAt, PageInv
  <2> QED BY <2>1, <2>2, <2>3 DEF Thread
<1>27. CASE CopyoutFail(p)
  <2>1. PageInv(p)' BY <1>27, <1>1, <1>2 DEF CopyoutFail, mem, tab, Leave, Become, Idle, PageInv
  <2>2. (CowInv(p) /\ FaultInv(p) /\ GrowInv(p) /\ UnmapInv(p) /\ ForkInv(p))'
    BY <1>27, <1>1, <1>2 DEF CopyoutFail, mem, tab, Leave, Become, Idle, CowInv, CowAt, InKalloc,
      FaultInv, FaultAt, GrowInv, GrowAt, UnmapInv, UnmapAt, InKfree, ForkInv, ForkAt, PageInv
  <2> QED BY <2>1, <2>2 DEF Thread
<1>28. CASE SyscallError(p)
  <2>1. PageInv(p)' BY <1>28, <1>1, <1>2 DEF SyscallError, mem, tab, Leave, Become, Idle, PageInv
  <2>2. (CowInv(p) /\ FaultInv(p) /\ GrowInv(p) /\ UnmapInv(p) /\ ForkInv(p))'
    BY <1>28, <1>1, <1>2 DEF SyscallError, mem, tab, Leave, Become, Idle, CowInv, CowAt, InKalloc,
      FaultInv, FaultAt, GrowInv, GrowAt, UnmapInv, UnmapAt, InKfree, ForkInv, ForkAt, PageInv
  <2> QED BY <2>1, <2>2 DEF Thread
<1>29. ASSUME NEW n \in 1 .. NVa, SbrkLazy(p, n) PROVE Thread(p)'
  BY <1>29, <1>1, <1>2 DEF SbrkLazy, mem, PageInv, CowInv, CowAt, InKalloc, FaultInv, FaultAt,
    GrowInv, GrowAt, Empty, UnmapInv, UnmapAt, InKfree, ForkInv, ForkAt, Thread
<1>30. ASSUME NEW n \in 1 .. NVa, SbrkGrow(p, n) PROVE Thread(p)'
  <2>1. /\ k'[p].pc = "grow" /\ k'[p].va = sz[p] /\ k'[p].hi = sz[p] + n /\ k'[p].ret = k[p].ret
         /\ k'[p].uret = k[p].uret /\ k'[p].pg = k[p].pg /\ k'[p].nsz = k[p].nsz /\ k'[p].tgt = k[p].tgt
    BY <1>30, <1>1 DEF SbrkGrow, mem, tab, Become, Frame
  <2>2. PageInv(p)' BY <1>30, <1>1, <1>2, <2>1 DEF SbrkGrow, mem, tab, PageInv
  <2>3. GrowInv(p)'
    <3>1. Empty(p, sz[p])
      BY <1>30, <1>1, <1>2 DEF ControlInv, ExtentInv, Extent, TableInv, SbrkGrow, GrowAt,
        InKalloc, PageInv
    <3> QED
      BY <1>30, <1>1, <1>2, <2>1, <3>1, <1>F DEF SbrkGrow, mem, tab, GrowInv, GrowAt, InKalloc,
        Empty, PageInv
  <2>4. (CowInv(p) /\ FaultInv(p) /\ UnmapInv(p) /\ ForkInv(p))'
    BY <1>30, <1>1, <1>2, <2>1 DEF SbrkGrow, mem, tab, CowInv, CowAt, InKalloc, FaultInv, FaultAt,
      UnmapInv, UnmapAt, InKfree, ForkInv, ForkAt, PageInv
  <2> QED BY <2>2, <2>3, <2>4 DEF Thread
<1>31. ASSUME NEW n \in 1 .. NVa, SbrkShrink(p, n) PROVE Thread(p)'
  <2>1. PageInv(p)' BY <1>31, <1>1, <1>2 DEF SbrkShrink, mem, tab, Become, Unmapping, PageInv
  <2>2. UnmapInv(p)'
    <3>1. Empty(p, sz[p])
      BY <1>31, <1>1, <1>2 DEF ControlInv, ExtentInv, Extent, TableInv, SbrkShrink, GrowAt,
        InKalloc, PageInv
    <3> QED
      BY <1>31, <1>1, <1>2, <3>1, <1>F, <1>V DEF SbrkShrink, mem, tab, Become, Unmapping,
        UnmapInv, UnmapAt, InKfree, Empty
  <2>3. (CowInv(p) /\ FaultInv(p) /\ GrowInv(p) /\ ForkInv(p))'
    BY <1>31, <1>1, <1>2 DEF SbrkShrink, mem, tab, Become, Unmapping, CowInv, CowAt, InKalloc,
      FaultInv, FaultAt, GrowInv, GrowAt, ForkInv, ForkAt, PageInv
  <2> QED BY <2>1, <2>2, <2>3 DEF Thread
<1>32. CASE GrowAlloc(p)
  <2>1. PageInv(p)' BY <1>32, <1>1, <1>2 DEF GrowAlloc, mem, tab, Become, PageInv
  <2>2. GrowInv(p)'
    BY <1>32, <1>1, <1>2 DEF GrowAlloc, mem, tab, Become, GrowInv, GrowAt, InKalloc, Empty
  <2>3. (CowInv(p) /\ FaultInv(p) /\ UnmapInv(p) /\ ForkInv(p))'
    BY <1>32, <1>1, <1>2 DEF GrowAlloc, mem, tab, Become, CowInv, CowAt, InKalloc, FaultInv,
      FaultAt, UnmapInv, UnmapAt, InKfree, ForkInv, ForkAt, PageInv
  <2> QED BY <2>1, <2>2, <2>3 DEF Thread
<1>33. CASE GrowMap(p)
  <2>1. /\ k'[p].pc = "grow" /\ k'[p].pg = NoPage /\ k'[p].va = k[p].va + 1 /\ k'[p].ret = k[p].ret
         /\ k'[p].uret = k[p].uret /\ k'[p].hi = k[p].hi /\ k'[p].nsz = k[p].nsz /\ k'[p].tgt = k[p].tgt
    BY <1>33, <1>1 DEF GrowMap, Mappages, Become, Writable, Frame
  <2>2. PageInv(p)' BY <1>33, <1>1, <1>2, <2>1 DEF GrowMap, Mappages, Writable, PageInv
  <2>3. GrowInv(p)'
    <3>1. k[p].va < k[p].hi /\ Empty(p, k[p].va) /\ k[p].tgt = p /\ sz[p] <= k[p].va
      BY <1>33, <1>2 DEF GrowInv, GrowAt, InKalloc, GrowMap, Mappages
    <3> QED
      BY <1>33, <1>1, <1>2, <2>1, <3>1, <1>F, <1>V DEF GrowMap, Mappages, Writable, GrowInv,
        GrowAt, InKalloc, Empty, PageInv
  <2>4. (CowInv(p) /\ FaultInv(p) /\ UnmapInv(p) /\ ForkInv(p))'
    BY <1>33, <1>1, <1>2, <2>1 DEF GrowMap, Mappages, Writable, CowInv, CowAt, InKalloc, FaultInv,
      FaultAt, UnmapInv, UnmapAt, InKfree, ForkInv, ForkAt, PageInv
  <2> QED BY <2>2, <2>3, <2>4 DEF Thread
<1>34. CASE GrowNoMem(p)
  <2>1. PageInv(p)' BY <1>34, <1>1, <1>2 DEF GrowNoMem, mem, tab, Become, Unmapping, PageInv
  <2>2. UnmapInv(p)'
    <3>1. Empty(p, k[p].va) /\ sz[p] <= k[p].va
      BY <1>34, <1>2 DEF GrowInv, GrowAt, InKalloc, GrowNoMem
    <3> QED
      BY <1>34, <1>1, <1>2, <3>1, <1>F, <1>V DEF GrowNoMem, mem, tab, Become, Unmapping, UnmapInv,
        UnmapAt, InKfree, Empty
  <2>3. (CowInv(p) /\ FaultInv(p) /\ GrowInv(p) /\ ForkInv(p))'
    BY <1>34, <1>1, <1>2 DEF GrowNoMem, mem, tab, Become, Unmapping, CowInv, CowAt, InKalloc,
      FaultInv, FaultAt, GrowInv, GrowAt, ForkInv, ForkAt, PageInv
  <2> QED BY <2>1, <2>2, <2>3 DEF Thread
<1>35. CASE GrowMapFail(p)
  <2>1. PageInv(p)' BY <1>35, <1>1, <1>2 DEF GrowMapFail, mem, tab, Become, Unmapping, PageInv
  <2>2. UnmapInv(p)'
    <3>1. Empty(p, k[p].va) /\ sz[p] <= k[p].va
      BY <1>35, <1>2 DEF GrowInv, GrowAt, InKalloc, GrowMapFail
    <3> QED
      BY <1>35, <1>1, <1>2, <3>1, <1>F, <1>V DEF GrowMapFail, mem, tab, Become, Unmapping,
        UnmapInv, UnmapAt, InKfree, Empty
  <2>3. (CowInv(p) /\ FaultInv(p) /\ GrowInv(p) /\ ForkInv(p))'
    BY <1>35, <1>1, <1>2 DEF GrowMapFail, mem, tab, Become, Unmapping, CowInv, CowAt, InKalloc,
      FaultInv, FaultAt, GrowInv, GrowAt, ForkInv, ForkAt, PageInv
  <2> QED BY <2>1, <2>2, <2>3 DEF Thread
<1>36. CASE GrowDone(p)
  <2>1. PageInv(p)' BY <1>36, <1>1, <1>2 DEF GrowDone, mem, Leave, Become, Idle, PageInv
  <2>2. (CowInv(p) /\ FaultInv(p) /\ GrowInv(p) /\ UnmapInv(p) /\ ForkInv(p))'
    BY <1>36, <1>1, <1>2 DEF GrowDone, mem, Leave, Become, Idle, CowInv, CowAt, InKalloc,
      FaultInv, FaultAt, GrowInv, GrowAt, UnmapInv, UnmapAt, InKfree, ForkInv, ForkAt, PageInv
  <2> QED BY <2>1, <2>2 DEF Thread
<1>37. CASE ShrinkDone(p)
  <2>1. PageInv(p)'
    BY <1>37, <1>1, <1>2 DEF ShrinkDone, mem, Leave, Become, UnmapEnd, Idle, PageInv
  <2>2. (CowInv(p) /\ FaultInv(p) /\ GrowInv(p) /\ UnmapInv(p) /\ ForkInv(p))'
    BY <1>37, <1>1, <1>2 DEF ShrinkDone, mem, Leave, Become, UnmapEnd, Idle, CowInv, CowAt,
      InKalloc, FaultInv, FaultAt, GrowInv, GrowAt, UnmapInv, UnmapAt, InKfree, ForkInv, ForkAt,
      PageInv
  <2> QED BY <2>1, <2>2 DEF Thread
<1>38. CASE GrowUndone(p)
  <2>1. PageInv(p)'
    BY <1>38, <1>1, <1>2 DEF GrowUndone, mem, tab, Leave, Become, UnmapEnd, Idle, PageInv
  <2>2. (CowInv(p) /\ FaultInv(p) /\ GrowInv(p) /\ UnmapInv(p) /\ ForkInv(p))'
    BY <1>38, <1>1, <1>2 DEF GrowUndone, mem, tab, Leave, Become, UnmapEnd, Idle, CowInv, CowAt,
      InKalloc, FaultInv, FaultAt, GrowInv, GrowAt, UnmapInv, UnmapAt, InKfree, ForkInv, ForkAt,
      PageInv
  <2> QED BY <2>1, <2>2 DEF Thread
<1>39. CASE UnmapSkip(p)
  <2>1. /\ k'[p].va = k[p].va + 1 /\ k'[p].pc = k[p].pc /\ k'[p].ret = k[p].ret /\ k'[p].uret = k[p].uret
         /\ k'[p].pg = k[p].pg /\ k'[p].hi = k[p].hi /\ k'[p].nsz = k[p].nsz /\ k'[p].tgt = k[p].tgt
    BY <1>39, <1>1 DEF UnmapSkip, mem, tab, Become, Frame
  <2>2. PageInv(p)' BY <1>39, <1>1, <1>2, <2>1 DEF UnmapSkip, mem, tab, PageInv
  <2>3. UnmapInv(p)'
    <3> QED
      BY <1>39, <1>1, <1>2, <2>1, <1>F, <1>V DEF UnmapSkip, mem, tab, UnmapInv, UnmapAt, InKfree,
        Empty, PageInv
  <2>4. (CowInv(p) /\ FaultInv(p) /\ GrowInv(p) /\ ForkInv(p))'
    BY <1>39, <1>1, <1>2, <2>1 DEF UnmapSkip, mem, tab, CowInv, CowAt, InKalloc, FaultInv,
      FaultAt, GrowInv, GrowAt, ForkInv, ForkAt, PageInv
  <2> QED BY <2>2, <2>3, <2>4 DEF Thread
<1>40. CASE UnmapFree(p)
  <2>1. /\ k'[p].pc = "dec" /\ k'[p].ret = "clear" /\ k'[p].pg = pt[<<k[p].tgt, k[p].va>>].pa
         /\ k'[p].uret = k[p].uret /\ k'[p].va = k[p].va /\ k'[p].hi = k[p].hi /\ k'[p].nsz = k[p].nsz
         /\ k'[p].tgt = k[p].tgt
    BY <1>40, <1>1 DEF UnmapFree, mem, tab, Become, Frame
  <2>2. PageInv(p)'
    <3>1. k[p].va \in Va BY <1>40, <1>F, SizeInVa DEF UnmapFree
    <3>2. pt[<<k[p].tgt, k[p].va>>].pa \in Page BY <1>40, <1>1, <3>1, PteType DEF UnmapFree
    <3> QED BY <1>40, <1>1, <1>2, <2>1, <3>1, <3>2 DEF UnmapFree, mem, tab, PageInv
  <2>3. UnmapInv(p)'
    BY <1>40, <1>1, <1>2, <2>1 DEF UnmapFree, mem, tab, UnmapInv, UnmapAt, InKfree, Empty, PageInv
  <2>4. (CowInv(p) /\ FaultInv(p) /\ GrowInv(p) /\ ForkInv(p))'
    BY <1>40, <1>1, <1>2, <2>1 DEF UnmapFree, mem, tab, CowInv, CowAt, InKalloc, FaultInv,
      FaultAt, GrowInv, GrowAt, ForkInv, ForkAt, PageInv
  <2> QED BY <2>2, <2>3, <2>4 DEF Thread
<1>41. CASE UnmapClear(p)
  <2>1. /\ k'[p].pc = "unmap" /\ k'[p].ret = "user" /\ k'[p].va = k[p].va + 1 /\ k'[p].uret = k[p].uret
         /\ k'[p].pg = k[p].pg /\ k'[p].hi = k[p].hi /\ k'[p].nsz = k[p].nsz /\ k'[p].tgt = k[p].tgt
    BY <1>41, <1>1 DEF UnmapClear, mem, Become, Frame
  <2>2. PageInv(p)' BY <1>41, <1>1, <1>2, <2>1 DEF UnmapClear, mem, PageInv
  <2>3. UnmapInv(p)'
    <3>1. k[p].va < k[p].hi /\ k[p].va \in Va
      BY <1>41, <1>2, <1>F, SizeInVa DEF UnmapInv, UnmapAt, InKfree, UnmapClear
    <3>2. pt' \in [Proc \X Va -> PTE] /\ pt'[<<k[p].tgt, k[p].va>>].pa = NoPage
      BY <1>41, <1>1, <3>1 DEF UnmapClear, Unmapped, PTE
    <3>3. \A q \in Proc, v \in Va : v # k[p].va => pt'[<<q, v>>] = pt[<<q, v>>]
      BY <1>41, <1>1, <3>1 DEF UnmapClear
    <3>4. \A q \in Proc, v \in Va : pt[<<q, v>>].pa = NoPage => pt'[<<q, v>>].pa = NoPage
      BY <1>41, <1>1, <3>1 DEF UnmapClear, Unmapped
    <3>5. \A v \in Va : v < k[p].va + 1 => v < k[p].va \/ v = k[p].va BY <1>41, <1>F, <1>V
    <3> QED
      BY <1>41, <1>1, <1>2, <2>1, <3>1, <3>2, <3>3, <3>4, <3>5, <1>F, <1>V DEF UnmapClear, mem,
        UnmapInv, UnmapAt, InKfree, Empty
  <2>4. (CowInv(p) /\ FaultInv(p) /\ GrowInv(p) /\ ForkInv(p))'
    BY <1>41, <1>1, <1>2, <2>1 DEF UnmapClear, mem, CowInv, CowAt, InKalloc, FaultInv, FaultAt,
      GrowInv, GrowAt, ForkInv, ForkAt, PageInv
  <2> QED BY <2>2, <2>3, <2>4 DEF Thread
<1>42. ASSUME NEW c \in Proc, ForkStart(p, c) PROVE Thread(p)'
  <2>1. /\ k'[p].pc = "fork" /\ k'[p].va = 0 /\ k'[p].tgt = c /\ k'[p].ret = k[p].ret
         /\ k'[p].uret = k[p].uret /\ k'[p].pg = k[p].pg /\ k'[p].hi = k[p].hi /\ k'[p].nsz = k[p].nsz
    BY <1>42, <1>1 DEF ForkStart, mem, Become, Frame
  <2>2. PageInv(p)' BY <1>42, <1>1, <1>2, <2>1 DEF ForkStart, mem, PageInv
  <2>3. ForkInv(p)'
    <3>1. sz[c] = 0 /\ Empty(c, 0) BY <1>42, <1>1 DEF ControlInv, ExtentInv, Extent, ForkStart
    <3>2. c # p BY <1>42, <1>1 DEF ControlInv, TableInv, ForkStart
    <3> QED
      BY <1>42, <1>1, <1>2, <2>1, <3>1, <3>2, <1>F DEF ForkStart, mem, ForkInv, ForkAt, Empty,
        PageInv
  <2>4. (CowInv(p) /\ FaultInv(p) /\ GrowInv(p) /\ UnmapInv(p))'
    BY <1>42, <1>1, <1>2, <2>1 DEF ForkStart, mem, CowInv, CowAt, InKalloc, FaultInv, FaultAt,
      GrowInv, GrowAt, UnmapInv, UnmapAt, InKfree, PageInv
  <2> QED BY <2>2, <2>3, <2>4 DEF Thread
<1>43. CASE ForkPage(p)
  <2>1. /\ k'[p].pc = "inc" /\ k'[p].pg = pt[<<p, k[p].va>>].pa /\ k'[p].ret = k[p].ret
         /\ k'[p].uret = k[p].uret /\ k'[p].va = k[p].va /\ k'[p].hi = k[p].hi /\ k'[p].nsz = k[p].nsz
         /\ k'[p].tgt = k[p].tgt
    BY <1>43, <1>1 DEF ForkPage, mem, Become, Shared, Frame
  <2>2. PageInv(p)'
    <3>1. k[p].va \in Va BY <1>43, <1>F, SizeInVa DEF ForkPage
    <3>2. pt[<<p, k[p].va>>].pa \in Page BY <1>43, <3>1, PteType DEF ForkPage
    <3> QED BY <1>43, <1>1, <1>2, <2>1, <3>1, <3>2 DEF ForkPage, mem, Shared, PageInv
  <2>3. ForkInv(p)'
    <3>1. k[p].va \in Va /\ k[p].tgt # p
      BY <1>43, <1>2, <1>F, SizeInVa DEF ForkPage, ForkInv, ForkAt
    <3>2. \A q \in Proc, v \in Va : v # k[p].va => pt'[<<q, v>>] = pt[<<q, v>>]
      BY <1>43, <1>1, <3>1 DEF ForkPage
    <3>3. pt'[<<p, k[p].va>>].pa = k'[p].pg /\ pt'[<<k[p].tgt, k[p].va>>].pa = k'[p].pg
      BY <1>43, <1>1, <3>1, <2>1 DEF ForkPage, Shared
    <3>4. \A v \in Va : v >= k[p].va + 1 => v >= k[p].va /\ v # k[p].va BY <1>43, <1>F, <1>V
    <3>5. Empty(k[p].tgt, k[p].va) BY <1>43, <1>2 DEF ForkPage, ForkInv, ForkAt
    <3>6. Empty(k[p].tgt, k[p].va + 1)' BY <1>43, <1>1, <2>1, <3>2, <3>4, <3>5 DEF Empty
    <3> QED
      BY <1>43, <1>1, <1>2, <2>1, <3>1, <3>2, <3>3, <3>4, <3>5, <3>6, <1>F DEF ForkPage, ForkInv,
        ForkAt, mem
  <2>4. (CowInv(p) /\ FaultInv(p) /\ GrowInv(p) /\ UnmapInv(p))'
    BY <1>43, <1>1, <1>2, <2>1 DEF ForkPage, mem, Shared, CowInv, CowAt, InKalloc, FaultInv,
      FaultAt, GrowInv, GrowAt, UnmapInv, UnmapAt, InKfree, PageInv
  <2> QED BY <2>2, <2>3, <2>4 DEF Thread
<1>44. CASE ForkMapFail(p)
  <2>1. PageInv(p)' BY <1>44, <1>1, <1>2 DEF ForkMapFail, mem, Become, Unmapping, Shared, PageInv
  <2>2. UnmapInv(p)'
    <3>1. k[p].va \in Va /\ k[p].tgt # p /\ state[k[p].tgt] = "used" /\ Empty(k[p].tgt, k[p].va)
      BY <1>44, <1>2, <1>F, SizeInVa DEF ForkMapFail, ForkInv, ForkAt
    <3>2. \A v \in Va : pt'[<<k[p].tgt, v>>] = pt[<<k[p].tgt, v>>]
      BY <1>44, <1>1, <3>1 DEF ForkMapFail
    <3> QED
      BY <1>44, <1>1, <1>2, <3>1, <3>2, <1>F, <1>V DEF ForkMapFail, mem, Become, Unmapping,
        UnmapInv, UnmapAt, InKfree, Empty
  <2>3. (CowInv(p) /\ FaultInv(p) /\ GrowInv(p) /\ ForkInv(p))'
    BY <1>44, <1>1, <1>2 DEF ForkMapFail, mem, Become, Unmapping, Shared, CowInv, CowAt, InKalloc,
      FaultInv, FaultAt, GrowInv, GrowAt, ForkInv, ForkAt, PageInv
  <2> QED BY <2>1, <2>2, <2>3 DEF Thread
<1>45. CASE ForkPanic(p)
  <2>1. /\ k'[p].pc = "panic" /\ k'[p].ret = k[p].ret /\ k'[p].uret = k[p].uret /\ k'[p].pg = k[p].pg
         /\ k'[p].va = k[p].va /\ k'[p].hi = k[p].hi /\ k'[p].nsz = k[p].nsz /\ k'[p].tgt = k[p].tgt
    BY <1>45, <1>1 DEF ForkPanic, mem, tab, Become, Frame
  <2>2. PageInv(p)'
    <3> QED BY <1>45, <1>1, <1>2, <2>1 DEF ForkPanic, mem, tab, PageInv, ForkInv, ForkAt
  <2>3. (CowInv(p) /\ FaultInv(p) /\ GrowInv(p) /\ UnmapInv(p) /\ ForkInv(p))'
    BY <1>45, <1>1, <1>2, <2>1 DEF ForkPanic, mem, tab, CowInv, CowAt, InKalloc, FaultInv,
      FaultAt, GrowInv, GrowAt, UnmapInv, UnmapAt, InKfree, ForkInv, ForkAt, PageInv
  <2> QED BY <2>2, <2>3 DEF Thread
<1>46. CASE ForkDone(p)
  <2>1. PageInv(p)' BY <1>46, <1>1, <1>2 DEF ForkDone, mem, Idle, PageInv
  <2>2. (CowInv(p) /\ FaultInv(p) /\ GrowInv(p) /\ UnmapInv(p) /\ ForkInv(p))'
    BY <1>46, <1>1, <1>2 DEF ForkDone, mem, Idle, CowInv, CowAt, InKalloc, FaultInv, FaultAt,
      GrowInv, GrowAt, UnmapInv, UnmapAt, InKfree, ForkInv, ForkAt, PageInv
  <2> QED BY <2>1, <2>2 DEF Thread
<1>47. CASE ForkFailed(p)
  <2>1. PageInv(p)'
    BY <1>47, <1>1, <1>2 DEF ForkFailed, mem, Leave, Become, UnmapEnd, Idle, PageInv
  <2>2. (CowInv(p) /\ FaultInv(p) /\ GrowInv(p) /\ UnmapInv(p) /\ ForkInv(p))'
    BY <1>47, <1>1, <1>2 DEF ForkFailed, mem, Leave, Become, UnmapEnd, Idle, CowInv, CowAt,
      InKalloc, FaultInv, FaultAt, GrowInv, GrowAt, UnmapInv, UnmapAt, InKfree, ForkInv, ForkAt,
      PageInv
  <2> QED BY <2>1, <2>2 DEF Thread
<1>48. CASE Exit(p)
  <2>1. PageInv(p)' BY <1>48, <1>1, <1>2 DEF Exit, mem, tab, Leave, Become, Idle, PageInv
  <2>2. (CowInv(p) /\ FaultInv(p) /\ GrowInv(p) /\ UnmapInv(p) /\ ForkInv(p))'
    BY <1>48, <1>1, <1>2 DEF Exit, mem, tab, Leave, Become, Idle, CowInv, CowAt, InKalloc,
      FaultInv, FaultAt, GrowInv, GrowAt, UnmapInv, UnmapAt, InKfree, ForkInv, ForkAt, PageInv
  <2> QED BY <2>1, <2>2 DEF Thread
<1>49. CASE KExit(p)
  <2>1. PageInv(p)' BY <1>49, <1>1, <1>2 DEF KExit, mem, Leave, Become, Idle, PageInv
  <2>2. (CowInv(p) /\ FaultInv(p) /\ GrowInv(p) /\ UnmapInv(p) /\ ForkInv(p))'
    BY <1>49, <1>1, <1>2 DEF KExit, mem, Leave, Become, Idle, CowInv, CowAt, InKalloc, FaultInv,
      FaultAt, GrowInv, GrowAt, UnmapInv, UnmapAt, InKfree, ForkInv, ForkAt, PageInv
  <2> QED BY <2>1, <2>2 DEF Thread
<1>50. CASE InitExit(p)
  <2>1. PageInv(p)' BY <1>50, <1>1, <1>2 DEF InitExit, mem, tab, Leave, Become, Idle, PageInv
  <2>2. (CowInv(p) /\ FaultInv(p) /\ GrowInv(p) /\ UnmapInv(p) /\ ForkInv(p))'
    BY <1>50, <1>1, <1>2 DEF InitExit, mem, tab, Leave, Become, Idle, CowInv, CowAt, InKalloc,
      FaultInv, FaultAt, GrowInv, GrowAt, UnmapInv, UnmapAt, InKfree, ForkInv, ForkAt, PageInv
  <2> QED BY <2>1, <2>2 DEF Thread
<1>51. CASE ReapDone(p)
  <2>1. PageInv(p)' BY <1>51, <1>1, <1>2 DEF ReapDone, mem, Leave, Become, UnmapEnd, Idle, PageInv
  <2>2. (CowInv(p) /\ FaultInv(p) /\ GrowInv(p) /\ UnmapInv(p) /\ ForkInv(p))'
    BY <1>51, <1>1, <1>2 DEF ReapDone, mem, Leave, Become, UnmapEnd, Idle, CowInv, CowAt,
      InKalloc, FaultInv, FaultAt, GrowInv, GrowAt, UnmapInv, UnmapAt, InKfree, ForkInv, ForkAt,
      PageInv
  <2> QED BY <2>1, <2>2 DEF Thread
<1>52. CASE PanicLoop(p)
  BY <1>52, <1>1, <1>2 DEF PanicLoop, vars, PageInv, CowInv, CowAt, InKalloc, FaultInv, FaultAt,
    GrowInv, GrowAt, Empty, UnmapInv, UnmapAt, InKfree, ForkInv, ForkAt, Thread
<1>53. ASSUME NEW c \in Proc, Wait(p, c) PROVE Thread(p)'
  <2>1. PageInv(p)' BY <1>53, <1>1, <1>2 DEF Wait, mem, tab, Become, Unmapping, PageInv
  <2>2. UnmapInv(p)'
    <3>1. c # p BY <1>53, <1>1 DEF ControlInv, TableInv, Wait
    <3>2. sz[c] \in 0 .. NVa BY <1>53, <1>1
    <3> QED
      BY <1>53, <1>1, <1>2, <3>1, <3>2, <1>F, <1>V DEF Wait, mem, tab, Become, Unmapping,
        UnmapInv, UnmapAt, InKfree, Empty
  <2>3. (CowInv(p) /\ FaultInv(p) /\ GrowInv(p) /\ ForkInv(p))'
    BY <1>53, <1>1, <1>2 DEF Wait, mem, tab, Become, Unmapping, CowInv, CowAt, InKalloc, FaultInv,
      FaultAt, GrowInv, GrowAt, ForkInv, ForkAt, PageInv
  <2> QED BY <2>1, <2>2, <2>3 DEF Thread
<1>54. ASSUME NEW c \in Proc, NEW v \in Va, WaitStatus(p, c, v) PROVE Thread(p)'
  <2>1. PageInv(p)' BY <1>54, <1>1, <1>2 DEF WaitStatus, mem, tab, Become, PageInv
  <2>2. FaultInv(p)'
    BY <1>54, <1>1, <1>2 DEF WaitStatus, mem, tab, Become, FaultInv, FaultAt, InKalloc
  <2>3. (CowInv(p) /\ GrowInv(p) /\ UnmapInv(p) /\ ForkInv(p))'
    BY <1>54, <1>1, <1>2 DEF WaitStatus, mem, tab, Become, CowInv, CowAt, InKalloc, GrowInv,
      GrowAt, UnmapInv, UnmapAt, InKfree, ForkInv, ForkAt, PageInv
  <2> QED BY <2>1, <2>2, <2>3 DEF Thread
<1> QED
  BY <1>3, <1>4, <1>5, <1>6, <1>7, <1>8, <1>9, <1>10, <1>11, <1>12, <1>13, <1>14, <1>15, <1>16,
    <1>17, <1>18, <1>19, <1>20, <1>21, <1>22, <1>23, <1>24, <1>25, <1>26, <1>27, <1>28, <1>29,
    <1>30, <1>31, <1>32, <1>33, <1>34, <1>35, <1>36, <1>37, <1>38, <1>39, <1>40, <1>41, <1>42,
    <1>43, <1>44, <1>45, <1>46, <1>47, <1>48, <1>49, <1>50, <1>51, <1>52, <1>53, <1>54, <1>60,
    <1>61, <1>62 DEF Step, Kalloc, Kfree, Krefinc, UserAccess, Cowhandler, Vmfault, CopyFromUser,
    CopyToUser, Sbrk, Unmap, Fork, ExitWait

-----------------------------------------------------------------------------
(* The invariants that relate threads to the shared state. *)

\* A step that neither takes refcnt.lock nor works under it.
LockQuiet(p) ==
  /\ rlock' = rlock /\ refcnt' = refcnt
  /\ k[p].pc \notin {"dec_w", "inc_w"} /\ k'[p].pc \notin {"dec_w", "inc_w"}

\* Such a step keeps the lock invariant.
LEMMA LockQuietStep ==
  ASSUME TypeOK, ControlInv, NEW p \in Proc, Step(p), LockQuiet(p)
  PROVE  LockInv'
<1>1. Footprint(p) /\ LockInv BY FootprintStep DEF ControlInv
<1>2. SUFFICES ASSUME NEW q \in Proc
               PROVE  /\ (rlock' = q) <=> (k'[q].pc \in {"dec_w", "inc_w"})
                      /\ k'[q].pc \in {"dec_w", "inc_w"} => k'[q].tmp = refcnt'[k'[q].pg]
                      /\ k'[q].pc = "dec_w" => k'[q].tmp >= 1
  BY DEF LockInv
<1>3. CASE q = p BY <1>1, <1>3 DEF LockInv, LockQuiet
<1>4. CASE q # p /\ q # k[p].tgt BY <1>1, <1>4 DEF LockInv, LockQuiet, Footprint
<1>5. CASE q # p /\ q = k[p].tgt
  <2>1. k[q].pc = "off" BY <1>5, TargetOff
  <2>2. k'[q].pc \in {"off", "user"} BY <1>1, <1>5, <2>1 DEF Footprint, Idle
  <2> QED BY <1>1, <2>1, <2>2 DEF LockInv, LockQuiet
<1> QED BY <1>3, <1>4, <1>5

\* refcnt.lock excludes: its holder is the one thread between the read and the write of a count.
LEMMA LockStep ==
  ASSUME TypeOK, ControlInv, NEW p \in Proc, Step(p)
  PROVE  LockInv'
<1>1. /\ k \in [Proc -> Frame] /\ k[p] \in Frame /\ k[p].tgt \in Proc
      /\ refcnt \in [Page -> Nat] /\ k[p].tmp \in Nat
  BY Fields DEF TypeOK
<1>2. PageInv(p) /\ FaultInv(p) /\ LockInv BY DEF ControlInv, ThreadInv, Thread
<1>3. CASE KallocPop(p)
  <2>1. LockQuiet(p)
    BY <1>3, <1>1, <1>2 DEF KallocPop, tab, Become, LockQuiet, PageInv, FaultInv, FaultAt,
      InKalloc
  <2> QED BY <2>1, LockQuietStep
<1>4. CASE KallocEmpty(p)
  <2>1. LockQuiet(p)
    BY <1>4, <1>1, <1>2 DEF KallocEmpty, mem, tab, Become, LockQuiet, PageInv, FaultInv, FaultAt,
      InKalloc
  <2> QED BY <2>1, LockQuietStep
<1>5. CASE KallocSetCount(p)
  <2>1. k[p].pg \in Page BY <1>5, <1>2 DEF PageInv, KallocSetCount
  <2> QED
    BY <1>5, <1>1, <1>2, <2>1, ProcAssumption DEF KallocSetCount, tab, Become, LockInv, Frame,
      PageInv
<1>6. CASE KfreeRead(p)
  <2>1. k[p].pg \in Page BY <1>6, <1>2 DEF PageInv, KfreeRead
  <2> QED
    BY <1>6, <1>1, <1>2, <2>1, ProcAssumption DEF KfreeRead, tab, Become, LockInv, Frame, PageInv
<1>7. CASE KfreeWrite(p)
  <2>1. k[p].pg \in Page BY <1>7, <1>2 DEF PageInv, KfreeWrite
  <2> QED
    BY <1>7, <1>1, <1>2, <2>1, ProcAssumption DEF KfreeWrite, tab, Become, LockInv, Frame, PageInv
<1>8. CASE KfreePush(p)
  <2>1. LockQuiet(p)
    BY <1>8, <1>1, <1>2 DEF KfreePush, tab, Become, LockQuiet, PageInv, FaultInv, FaultAt,
      InKalloc
  <2> QED BY <2>1, LockQuietStep
<1>9. CASE KrefincRead(p)
  <2>1. k[p].pg \in Page BY <1>9, <1>2 DEF PageInv, KrefincRead
  <2> QED
    BY <1>9, <1>1, <1>2, <2>1, ProcAssumption DEF KrefincRead, tab, Become, LockInv, Frame,
      PageInv
<1>10. CASE KrefincWrite(p)
  <2>1. k[p].pg \in Page BY <1>10, <1>2 DEF PageInv, KrefincWrite
  <2> QED
    BY <1>10, <1>1, <1>2, <2>1, ProcAssumption DEF KrefincWrite, tab, Become, LockInv, Frame,
      PageInv
<1>11. ASSUME NEW v \in Va, NEW d \in Val, UserStore(p, v, d) PROVE LockInv'
  <2>1. LockQuiet(p)
    BY <1>11, <1>1, <1>2 DEF UserStore, tab, LockQuiet, PageInv, FaultInv, FaultAt, InKalloc
  <2> QED BY <2>1, LockQuietStep
<1>12. ASSUME NEW v \in Va, CowFault(p, v) PROVE LockInv'
  <2>1. LockQuiet(p)
    BY <1>12, <1>1, <1>2 DEF CowFault, mem, tab, Become, LockQuiet, PageInv, FaultInv, FaultAt,
      InKalloc
  <2> QED BY <2>1, LockQuietStep
<1>13. ASSUME NEW v \in Va, LazyFault(p, v) PROVE LockInv'
  <2>1. LockQuiet(p)
    BY <1>13, <1>1, <1>2 DEF LazyFault, mem, tab, Become, LockQuiet, PageInv, FaultInv, FaultAt,
      InKalloc
  <2> QED BY <2>1, LockQuietStep
<1>14. ASSUME NEW v \in Va, BadFault(p, v) PROVE LockInv'
  <2>1. LockQuiet(p)
    BY <1>14, <1>1, <1>2 DEF BadFault, mem, tab, Leave, Become, Idle, LockQuiet, PageInv,
      FaultInv, FaultAt, InKalloc
  <2> QED BY <2>1, LockQuietStep
<1>60. ASSUME NEW v \in Va, CopyinFault(p, v) PROVE LockInv'
  <2>1. LockQuiet(p)
    BY <1>60, <1>1, <1>2 DEF CopyinFault, Walkaddr, mem, tab, Become, LockQuiet, PageInv,
      FaultInv, FaultAt, InKalloc
  <2> QED BY <2>1, LockQuietStep
<1>61. ASSUME NEW v \in Va, CopyinFail(p, v) PROVE LockInv'
  <2>1. LockQuiet(p)
    BY <1>61, <1>1, <1>2 DEF CopyinFail, Walkaddr, mem, tab, Leave, Become, Idle, LockQuiet,
      PageInv, FaultInv, FaultAt, InKalloc
  <2> QED BY <2>1, LockQuietStep
<1>62. ASSUME NEW v \in Va, Copyinstr(p, v) PROVE LockInv'
  <2>1. LockQuiet(p)
    BY <1>62, <1>1, <1>2 DEF Copyinstr, Walkaddr, mem, tab, Leave, Become, Idle, LockQuiet,
      PageInv, FaultInv, FaultAt, InKalloc
  <2> QED BY <2>1, LockQuietStep
<1>15. CASE CowGetRef(p)
  <2>1. LockQuiet(p)
    BY <1>15, <1>1, <1>2 DEF CowGetRef, mem, tab, Become, LockQuiet, PageInv, FaultInv, FaultAt,
      InKalloc
  <2> QED BY <2>1, LockQuietStep
<1>16. CASE CowSole(p)
  <2>1. LockQuiet(p)
    BY <1>16, <1>1, <1>2 DEF CowSole, mem, Leave, Become, Idle, Writable, LockQuiet, PageInv,
      FaultInv, FaultAt, InKalloc
  <2> QED BY <2>1, LockQuietStep
<1>17. CASE CowShared(p)
  <2>1. LockQuiet(p)
    BY <1>17, <1>1, <1>2 DEF CowShared, mem, tab, Become, LockQuiet, PageInv, FaultInv, FaultAt,
      InKalloc
  <2> QED BY <2>1, LockQuietStep
<1>18. CASE CowNoMem(p)
  <2>1. LockQuiet(p)
    BY <1>18, <1>1, <1>2 DEF CowNoMem, mem, tab, Leave, Become, Idle, LockQuiet, PageInv,
      FaultInv, FaultAt, InKalloc
  <2> QED BY <2>1, LockQuietStep
<1>19. CASE CowCopy(p)
  <2>1. LockQuiet(p)
    BY <1>19, <1>1, <1>2 DEF CowCopy, tab, Become, LockQuiet, PageInv, FaultInv, FaultAt, InKalloc
  <2> QED BY <2>1, LockQuietStep
<1>20. CASE CowRemap(p)
  <2>1. LockQuiet(p)
    BY <1>20, <1>1, <1>2 DEF CowRemap, Mappages, mem, Become, Freeing, Writable, LockQuiet,
      PageInv, FaultInv, FaultAt, InKalloc
  <2> QED BY <2>1, LockQuietStep
<1>21. CASE FaultMap(p)
  <2>1. LockQuiet(p)
    BY <1>21, <1>1, <1>2 DEF FaultMap, Mappages, Become, Writable, LockQuiet, PageInv, FaultInv,
      FaultAt, InKalloc
  <2> QED BY <2>1, LockQuietStep
<1>22. CASE FaultNoMem(p)
  <2>1. LockQuiet(p)
    BY <1>22, <1>1, <1>2 DEF FaultNoMem, mem, tab, Leave, Become, Idle, FaultFailed, LockQuiet,
      PageInv, FaultInv, FaultAt, InKalloc
  <2> QED BY <2>1, LockQuietStep
<1>23. CASE FaultMapFail(p)
  <2>1. LockQuiet(p)
    BY <1>23, <1>1, <1>2 DEF FaultMapFail, mem, tab, Become, Freeing, FaultFailed, LockQuiet,
      PageInv, FaultInv, FaultAt, InKalloc
  <2> QED BY <2>1, LockQuietStep
<1>24. ASSUME NEW v \in Va, Copyout(p, v) PROVE LockInv'
  <2>1. LockQuiet(p)
    BY <1>24, <1>1, <1>2 DEF Copyout, mem, tab, Become, LockQuiet, PageInv, FaultInv, FaultAt,
      InKalloc
  <2> QED BY <2>1, LockQuietStep
<1>25. CASE CopyoutFault(p)
  <2>1. LockQuiet(p)
    BY <1>25, <1>1, <1>2 DEF CopyoutFault, mem, tab, Become, LockQuiet, PageInv, FaultInv,
      FaultAt, InKalloc
  <2> QED BY <2>1, LockQuietStep
<1>26. ASSUME NEW d \in Val, CopyoutWrite(p, d) PROVE LockInv'
  <2>1. LockQuiet(p)
    BY <1>26, <1>1, <1>2 DEF CopyoutWrite, tab, Become, Idle, Unmapping, LockQuiet, PageInv,
      FaultInv, FaultAt, InKalloc
  <2> QED BY <2>1, LockQuietStep
<1>27. CASE CopyoutFail(p)
  <2>1. LockQuiet(p)
    BY <1>27, <1>1, <1>2 DEF CopyoutFail, mem, tab, Leave, Become, Idle, LockQuiet, PageInv,
      FaultInv, FaultAt, InKalloc
  <2> QED BY <2>1, LockQuietStep
<1>28. CASE SyscallError(p)
  <2>1. LockQuiet(p)
    BY <1>28, <1>1, <1>2 DEF SyscallError, mem, tab, Leave, Become, Idle, LockQuiet, PageInv,
      FaultInv, FaultAt, InKalloc
  <2> QED BY <2>1, LockQuietStep
<1>29. ASSUME NEW n \in 1 .. NVa, SbrkLazy(p, n) PROVE LockInv'
  <2>1. LockQuiet(p)
    BY <1>29, <1>1, <1>2 DEF SbrkLazy, mem, LockQuiet, PageInv, FaultInv, FaultAt, InKalloc
  <2> QED BY <2>1, LockQuietStep
<1>30. ASSUME NEW n \in 1 .. NVa, SbrkGrow(p, n) PROVE LockInv'
  <2>1. LockQuiet(p)
    BY <1>30, <1>1, <1>2 DEF SbrkGrow, mem, tab, Become, LockQuiet, PageInv, FaultInv, FaultAt,
      InKalloc
  <2> QED BY <2>1, LockQuietStep
<1>31. ASSUME NEW n \in 1 .. NVa, SbrkShrink(p, n) PROVE LockInv'
  <2>1. LockQuiet(p)
    BY <1>31, <1>1, <1>2 DEF SbrkShrink, mem, tab, Become, Unmapping, LockQuiet, PageInv,
      FaultInv, FaultAt, InKalloc
  <2> QED BY <2>1, LockQuietStep
<1>32. CASE GrowAlloc(p)
  <2>1. LockQuiet(p)
    BY <1>32, <1>1, <1>2 DEF GrowAlloc, mem, tab, Become, LockQuiet, PageInv, FaultInv, FaultAt,
      InKalloc
  <2> QED BY <2>1, LockQuietStep
<1>33. CASE GrowMap(p)
  <2>1. LockQuiet(p)
    BY <1>33, <1>1, <1>2 DEF GrowMap, Mappages, Become, Writable, LockQuiet, PageInv, FaultInv,
      FaultAt, InKalloc
  <2> QED BY <2>1, LockQuietStep
<1>34. CASE GrowNoMem(p)
  <2>1. LockQuiet(p)
    BY <1>34, <1>1, <1>2 DEF GrowNoMem, mem, tab, Become, Unmapping, LockQuiet, PageInv, FaultInv,
      FaultAt, InKalloc
  <2> QED BY <2>1, LockQuietStep
<1>35. CASE GrowMapFail(p)
  <2>1. LockQuiet(p)
    BY <1>35, <1>1, <1>2 DEF GrowMapFail, mem, tab, Become, Unmapping, LockQuiet, PageInv,
      FaultInv, FaultAt, InKalloc
  <2> QED BY <2>1, LockQuietStep
<1>36. CASE GrowDone(p)
  <2>1. LockQuiet(p)
    BY <1>36, <1>1, <1>2 DEF GrowDone, mem, Leave, Become, Idle, LockQuiet, PageInv, FaultInv,
      FaultAt, InKalloc
  <2> QED BY <2>1, LockQuietStep
<1>37. CASE ShrinkDone(p)
  <2>1. LockQuiet(p)
    BY <1>37, <1>1, <1>2 DEF ShrinkDone, mem, Leave, Become, UnmapEnd, Idle, LockQuiet, PageInv,
      FaultInv, FaultAt, InKalloc
  <2> QED BY <2>1, LockQuietStep
<1>38. CASE GrowUndone(p)
  <2>1. LockQuiet(p)
    BY <1>38, <1>1, <1>2 DEF GrowUndone, mem, tab, Leave, Become, UnmapEnd, Idle, LockQuiet,
      PageInv, FaultInv, FaultAt, InKalloc
  <2> QED BY <2>1, LockQuietStep
<1>39. CASE UnmapSkip(p)
  <2>1. LockQuiet(p)
    BY <1>39, <1>1, <1>2 DEF UnmapSkip, mem, tab, Become, LockQuiet, PageInv, FaultInv, FaultAt,
      InKalloc
  <2> QED BY <2>1, LockQuietStep
<1>40. CASE UnmapFree(p)
  <2>1. LockQuiet(p)
    BY <1>40, <1>1, <1>2 DEF UnmapFree, mem, tab, Become, LockQuiet, PageInv, FaultInv, FaultAt,
      InKalloc
  <2> QED BY <2>1, LockQuietStep
<1>41. CASE UnmapClear(p)
  <2>1. LockQuiet(p)
    BY <1>41, <1>1, <1>2 DEF UnmapClear, mem, Become, LockQuiet, PageInv, FaultInv, FaultAt,
      InKalloc
  <2> QED BY <2>1, LockQuietStep
<1>42. ASSUME NEW c \in Proc, ForkStart(p, c) PROVE LockInv'
  <2>1. LockQuiet(p)
    BY <1>42, <1>1, <1>2 DEF ForkStart, mem, Become, LockQuiet, PageInv, FaultInv, FaultAt,
      InKalloc
  <2> QED BY <2>1, LockQuietStep
<1>43. CASE ForkPage(p)
  <2>1. LockQuiet(p)
    BY <1>43, <1>1, <1>2 DEF ForkPage, mem, Become, Shared, LockQuiet, PageInv, FaultInv, FaultAt,
      InKalloc
  <2> QED BY <2>1, LockQuietStep
<1>44. CASE ForkMapFail(p)
  <2>1. LockQuiet(p)
    BY <1>44, <1>1, <1>2 DEF ForkMapFail, mem, Become, Unmapping, Shared, LockQuiet, PageInv,
      FaultInv, FaultAt, InKalloc
  <2> QED BY <2>1, LockQuietStep
<1>45. CASE ForkPanic(p)
  <2>1. LockQuiet(p)
    BY <1>45, <1>1, <1>2 DEF ForkPanic, mem, tab, Become, LockQuiet, PageInv, FaultInv, FaultAt,
      InKalloc
  <2> QED BY <2>1, LockQuietStep
<1>46. CASE ForkDone(p)
  <2>1. LockQuiet(p)
    BY <1>46, <1>1, <1>2 DEF ForkDone, mem, Idle, LockQuiet, PageInv, FaultInv, FaultAt, InKalloc
  <2> QED BY <2>1, LockQuietStep
<1>47. CASE ForkFailed(p)
  <2>1. LockQuiet(p)
    BY <1>47, <1>1, <1>2 DEF ForkFailed, mem, Leave, Become, UnmapEnd, Idle, LockQuiet, PageInv,
      FaultInv, FaultAt, InKalloc
  <2> QED BY <2>1, LockQuietStep
<1>48. CASE Exit(p)
  <2>1. LockQuiet(p)
    BY <1>48, <1>1, <1>2 DEF Exit, mem, tab, Leave, Become, Idle, LockQuiet, PageInv, FaultInv,
      FaultAt, InKalloc
  <2> QED BY <2>1, LockQuietStep
<1>49. CASE KExit(p)
  <2>1. LockQuiet(p)
    BY <1>49, <1>1, <1>2 DEF KExit, mem, Leave, Become, Idle, LockQuiet, PageInv, FaultInv,
      FaultAt, InKalloc
  <2> QED BY <2>1, LockQuietStep
<1>50. CASE InitExit(p)
  <2>1. LockQuiet(p)
    BY <1>50, <1>1, <1>2 DEF InitExit, mem, tab, Leave, Become, Idle, LockQuiet, PageInv,
      FaultInv, FaultAt, InKalloc
  <2> QED BY <2>1, LockQuietStep
<1>51. CASE ReapDone(p)
  <2>1. LockQuiet(p)
    BY <1>51, <1>1, <1>2 DEF ReapDone, mem, Leave, Become, UnmapEnd, Idle, LockQuiet, PageInv,
      FaultInv, FaultAt, InKalloc
  <2> QED BY <2>1, LockQuietStep
<1>52. CASE PanicLoop(p)
  <2>1. LockQuiet(p)
    BY <1>52, <1>1, <1>2 DEF PanicLoop, vars, LockQuiet, PageInv, FaultInv, FaultAt, InKalloc
  <2> QED BY <2>1, LockQuietStep
<1>53. ASSUME NEW c \in Proc, Wait(p, c) PROVE LockInv'
  <2>1. LockQuiet(p)
    BY <1>53, <1>1, <1>2 DEF Wait, mem, tab, Become, Unmapping, LockQuiet, PageInv, FaultInv,
      FaultAt, InKalloc
  <2> QED BY <2>1, LockQuietStep
<1>54. ASSUME NEW c \in Proc, NEW v \in Va, WaitStatus(p, c, v) PROVE LockInv'
  <2>1. LockQuiet(p)
    BY <1>54, <1>1, <1>2 DEF WaitStatus, mem, tab, Become, LockQuiet, PageInv, FaultInv, FaultAt,
      InKalloc
  <2> QED BY <2>1, LockQuietStep
<1> QED
  BY <1>3, <1>4, <1>5, <1>6, <1>7, <1>8, <1>9, <1>10, <1>11, <1>12, <1>13, <1>14, <1>15, <1>16,
    <1>17, <1>18, <1>19, <1>20, <1>21, <1>22, <1>23, <1>24, <1>25, <1>26, <1>27, <1>28, <1>29,
    <1>30, <1>31, <1>32, <1>33, <1>34, <1>35, <1>36, <1>37, <1>38, <1>39, <1>40, <1>41, <1>42,
    <1>43, <1>44, <1>45, <1>46, <1>47, <1>48, <1>49, <1>50, <1>51, <1>52, <1>53, <1>54, <1>60,
    <1>61, <1>62 DEF Step, Kalloc, Kfree, Krefinc, UserAccess, Cowhandler, Vmfault, CopyFromUser,
    CopyToUser, Sbrk, Unmap, Fork, ExitWait

\* No action makes an entry both writable and copy-on-write, or either of them without a frame.
LEMMA PteStep ==
  ASSUME TypeOK, ControlInv, NEW p \in Proc, Step(p)
  PROVE  PteInv'
<1>1. /\ k[p] \in Frame /\ k[p].tgt \in Proc /\ pt \in [Proc \X Va -> PTE]
      /\ k[p].pg \in Page \union {NoPage}
      /\ k[p].va \in 0 .. NVa /\ k[p].hi \in 0 .. NVa /\ sz[p] \in 0 .. NVa
  BY Fields DEF TypeOK
<1>2. PageInv(p) /\ CowInv(p) /\ FaultInv(p) /\ PteInv BY DEF ControlInv, ThreadInv, Thread
<1>3. CASE KallocPop(p)
  BY <1>3, <1>2 DEF KallocPop, tab, PteInv
<1>4. CASE KallocEmpty(p)
  BY <1>4, <1>2 DEF KallocEmpty, mem, tab, PteInv
<1>5. CASE KallocSetCount(p)
  BY <1>5, <1>2 DEF KallocSetCount, tab, PteInv
<1>6. CASE KfreeRead(p)
  BY <1>6, <1>2 DEF KfreeRead, tab, PteInv
<1>7. CASE KfreeWrite(p)
  BY <1>7, <1>2 DEF KfreeWrite, tab, PteInv
<1>8. CASE KfreePush(p)
  BY <1>8, <1>2 DEF KfreePush, tab, PteInv
<1>9. CASE KrefincRead(p)
  BY <1>9, <1>2 DEF KrefincRead, tab, PteInv
<1>10. CASE KrefincWrite(p)
  BY <1>10, <1>2 DEF KrefincWrite, tab, PteInv
<1>11. ASSUME NEW v \in Va, NEW d \in Val, UserStore(p, v, d) PROVE PteInv'
  BY <1>11, <1>2 DEF UserStore, tab, PteInv
<1>12. ASSUME NEW v \in Va, CowFault(p, v) PROVE PteInv'
  BY <1>12, <1>2 DEF CowFault, mem, tab, PteInv
<1>13. ASSUME NEW v \in Va, LazyFault(p, v) PROVE PteInv'
  BY <1>13, <1>2 DEF LazyFault, mem, tab, PteInv
<1>14. ASSUME NEW v \in Va, BadFault(p, v) PROVE PteInv'
  BY <1>14, <1>2 DEF BadFault, mem, tab, PteInv
<1>60. ASSUME NEW v \in Va, CopyinFault(p, v) PROVE PteInv'
  BY <1>60, <1>2 DEF CopyinFault, Walkaddr, mem, tab, PteInv
<1>61. ASSUME NEW v \in Va, CopyinFail(p, v) PROVE PteInv'
  BY <1>61, <1>2 DEF CopyinFail, Walkaddr, mem, tab, PteInv
<1>62. ASSUME NEW v \in Va, Copyinstr(p, v) PROVE PteInv'
  BY <1>62, <1>2 DEF Copyinstr, Walkaddr, mem, tab, PteInv
<1>15. CASE CowGetRef(p)
  BY <1>15, <1>2 DEF CowGetRef, mem, tab, PteInv
<1>16. CASE CowSole(p)
  <2>1. k[p].va \in Va /\ pt[<<p, k[p].va>>].pa # NoPage
    BY <1>16, <1>1, <1>2 DEF CowInv, CowAt, PteInv, CowSole
  <2> QED BY <1>16, <1>1, <1>2, <2>1 DEF CowSole, PteInv, PTE, Writable, Unmapped, Shared
<1>17. CASE CowShared(p)
  BY <1>17, <1>2 DEF CowShared, mem, tab, PteInv
<1>18. CASE CowNoMem(p)
  BY <1>18, <1>2 DEF CowNoMem, mem, tab, PteInv
<1>19. CASE CowCopy(p)
  BY <1>19, <1>2 DEF CowCopy, tab, PteInv
<1>20. CASE CowRemap(p)
  <2>1. k[p].pg # NoPage BY <1>20, <1>2, PageAssumption DEF PageInv, CowRemap, Mappages
  <2> QED
    BY <1>20, <1>1, <1>2, <2>1 DEF CowRemap, Mappages, PteInv, PTE, Writable, Unmapped, Shared
<1>21. CASE FaultMap(p)
  BY <1>21, <1>1, <1>2 DEF FaultMap, Mappages, PteInv, PTE, Writable, Unmapped, Shared
<1>22. CASE FaultNoMem(p)
  BY <1>22, <1>2 DEF FaultNoMem, mem, tab, PteInv
<1>23. CASE FaultMapFail(p)
  BY <1>23, <1>2 DEF FaultMapFail, mem, tab, PteInv
<1>24. ASSUME NEW v \in Va, Copyout(p, v) PROVE PteInv'
  BY <1>24, <1>2 DEF Copyout, mem, tab, PteInv
<1>25. CASE CopyoutFault(p)
  BY <1>25, <1>2 DEF CopyoutFault, mem, tab, PteInv
<1>26. ASSUME NEW d \in Val, CopyoutWrite(p, d) PROVE PteInv'
  BY <1>26, <1>2 DEF CopyoutWrite, tab, PteInv
<1>27. CASE CopyoutFail(p)
  BY <1>27, <1>2 DEF CopyoutFail, mem, tab, PteInv
<1>28. CASE SyscallError(p)
  BY <1>28, <1>2 DEF SyscallError, mem, tab, PteInv
<1>29. ASSUME NEW n \in 1 .. NVa, SbrkLazy(p, n) PROVE PteInv'
  BY <1>29, <1>2 DEF SbrkLazy, mem, PteInv
<1>30. ASSUME NEW n \in 1 .. NVa, SbrkGrow(p, n) PROVE PteInv'
  BY <1>30, <1>2 DEF SbrkGrow, mem, tab, PteInv
<1>31. ASSUME NEW n \in 1 .. NVa, SbrkShrink(p, n) PROVE PteInv'
  BY <1>31, <1>2 DEF SbrkShrink, mem, tab, PteInv
<1>32. CASE GrowAlloc(p)
  BY <1>32, <1>2 DEF GrowAlloc, mem, tab, PteInv
<1>33. CASE GrowMap(p)
  BY <1>33, <1>1, <1>2 DEF GrowMap, Mappages, PteInv, PTE, Writable, Unmapped, Shared
<1>34. CASE GrowNoMem(p)
  BY <1>34, <1>2 DEF GrowNoMem, mem, tab, PteInv
<1>35. CASE GrowMapFail(p)
  BY <1>35, <1>2 DEF GrowMapFail, mem, tab, PteInv
<1>36. CASE GrowDone(p)
  BY <1>36, <1>2 DEF GrowDone, mem, PteInv
<1>37. CASE ShrinkDone(p)
  BY <1>37, <1>2 DEF ShrinkDone, mem, PteInv
<1>38. CASE GrowUndone(p)
  BY <1>38, <1>2 DEF GrowUndone, mem, tab, PteInv
<1>39. CASE UnmapSkip(p)
  BY <1>39, <1>2 DEF UnmapSkip, mem, tab, PteInv
<1>40. CASE UnmapFree(p)
  BY <1>40, <1>2 DEF UnmapFree, mem, tab, PteInv
<1>41. CASE UnmapClear(p)
  BY <1>41, <1>1, <1>2 DEF UnmapClear, PteInv, PTE, Writable, Unmapped, Shared
<1>42. ASSUME NEW c \in Proc, ForkStart(p, c) PROVE PteInv'
  BY <1>42, <1>2 DEF ForkStart, mem, PteInv
<1>43. CASE ForkPage(p)
  <2>1. k[p].va \in Va BY <1>43, <1>1, SizeInVa DEF ForkPage
  <2> QED BY <1>43, <1>1, <1>2, <2>1 DEF ForkPage, PteInv, PTE, Writable, Unmapped, Shared
<1>44. CASE ForkMapFail(p)
  <2>1. k[p].va \in Va BY <1>44, <1>1, SizeInVa DEF ForkMapFail
  <2> QED BY <1>44, <1>1, <1>2, <2>1 DEF ForkMapFail, PteInv, PTE, Writable, Unmapped, Shared
<1>45. CASE ForkPanic(p)
  BY <1>45, <1>2 DEF ForkPanic, mem, tab, PteInv
<1>46. CASE ForkDone(p)
  BY <1>46, <1>2 DEF ForkDone, mem, PteInv
<1>47. CASE ForkFailed(p)
  BY <1>47, <1>2 DEF ForkFailed, mem, PteInv
<1>48. CASE Exit(p)
  BY <1>48, <1>2 DEF Exit, mem, tab, PteInv
<1>49. CASE KExit(p)
  BY <1>49, <1>2 DEF KExit, mem, PteInv
<1>50. CASE InitExit(p)
  BY <1>50, <1>2 DEF InitExit, mem, tab, PteInv
<1>51. CASE ReapDone(p)
  BY <1>51, <1>2 DEF ReapDone, mem, PteInv
<1>52. CASE PanicLoop(p)
  BY <1>52, <1>2 DEF PanicLoop, vars, PteInv
<1>53. ASSUME NEW c \in Proc, Wait(p, c) PROVE PteInv'
  BY <1>53, <1>2 DEF Wait, mem, tab, PteInv
<1>54. ASSUME NEW c \in Proc, NEW v \in Va, WaitStatus(p, c, v) PROVE PteInv'
  BY <1>54, <1>2 DEF WaitStatus, mem, tab, PteInv
<1> QED
  BY <1>3, <1>4, <1>5, <1>6, <1>7, <1>8, <1>9, <1>10, <1>11, <1>12, <1>13, <1>14, <1>15, <1>16,
    <1>17, <1>18, <1>19, <1>20, <1>21, <1>22, <1>23, <1>24, <1>25, <1>26, <1>27, <1>28, <1>29,
    <1>30, <1>31, <1>32, <1>33, <1>34, <1>35, <1>36, <1>37, <1>38, <1>39, <1>40, <1>41, <1>42,
    <1>43, <1>44, <1>45, <1>46, <1>47, <1>48, <1>49, <1>50, <1>51, <1>52, <1>53, <1>54, <1>60,
    <1>61, <1>62 DEF Step, Kalloc, Kfree, Krefinc, UserAccess, Cowhandler, Vmfault, CopyFromUser,
    CopyToUser, Sbrk, Unmap, Fork, ExitWait

\* A step that leaves the process table alone.
TableQuiet(p) ==
  /\ state' = state /\ parent' = parent
  /\ k[p].pc # "off" /\ k'[p].pc # "off"
  /\ k'[p].tgt \in {k[p].tgt, p}
  /\ k'[p].tgt # p => k'[p].pc \in Away
  /\ \A q \in Proc : q # p => k'[q] = k[q]

\* Such a step keeps the table invariant.
LEMMA TableQuietStep ==
  ASSUME TypeOK, ControlInv, NEW p \in Proc, TableQuiet(p)
  PROVE  TableInv'
<1>1. TableInv BY DEF ControlInv
<1>2. (\A q \in Proc : (state[q] = "live") <=> (k[q].pc # "off"))'
  BY <1>1 DEF TableInv, TableQuiet
<1>3. (\A q \in Proc : k[q].tgt # q =>
         /\ state[k[q].tgt] \in {"used", "zombie"}
         /\ state[k[q].tgt] = "zombie" => parent[k[q].tgt] = q
         /\ k[q].pc \in Away)'
  BY <1>1 DEF TableInv, TableQuiet
<1>4. (\A q, r \in Proc : k[q].tgt = k[r].tgt /\ k[q].tgt # q /\ k[r].tgt # r => q = r)'
  BY <1>1 DEF TableInv, TableQuiet
<1> QED BY <1>2, <1>3, <1>4 DEF TableInv

\* fork, exit and wait never let two threads work on one page table.
LEMMA TableStep ==
  ASSUME TypeOK, ControlInv, NEW p \in Proc, Step(p)
  PROVE  TableInv'
<1>1. /\ k \in [Proc -> Frame] /\ k[p] \in Frame /\ k[p].tgt \in Proc
      /\ state \in [Proc -> {"unused", "used", "live", "zombie"}]
      /\ parent \in [Proc -> Proc \union {NoProc}]
  BY Fields DEF TypeOK
<1>2. PageInv(p) /\ CowInv(p) /\ FaultInv(p) /\ GrowInv(p) /\ UnmapInv(p) /\ ForkInv(p) /\ TableInv
  BY DEF ControlInv, ThreadInv, Thread
<1>3. CASE KallocPop(p)
  <2>1. TableQuiet(p)
    BY <1>3, <1>1, <1>2 DEF KallocPop, tab, Become, TableQuiet, Away, Frame, TableInv, PageInv,
      CowInv, CowAt, FaultInv, FaultAt, GrowInv, GrowAt, UnmapInv, UnmapAt, InKalloc, InKfree
  <2> QED BY <2>1, TableQuietStep
<1>4. CASE KallocEmpty(p)
  <2>1. TableQuiet(p)
    BY <1>4, <1>1, <1>2 DEF KallocEmpty, tab, Become, TableQuiet, Away, Frame, TableInv, PageInv,
      CowInv, CowAt, FaultInv, FaultAt, GrowInv, GrowAt, UnmapInv, UnmapAt, InKalloc, InKfree
  <2> QED BY <2>1, TableQuietStep
<1>5. CASE KallocSetCount(p)
  <2>1. TableQuiet(p)
    BY <1>5, <1>1, <1>2 DEF KallocSetCount, tab, Become, TableQuiet, Away, Frame, TableInv,
      PageInv, CowInv, CowAt, FaultInv, FaultAt, GrowInv, GrowAt, UnmapInv, UnmapAt, InKalloc,
      InKfree
  <2> QED BY <2>1, TableQuietStep
<1>6. CASE KfreeRead(p)
  <2>1. TableQuiet(p)
    BY <1>6, <1>1, <1>2 DEF KfreeRead, tab, Become, TableQuiet, Away, Frame, TableInv, PageInv,
      CowInv, CowAt, FaultInv, FaultAt, GrowInv, GrowAt, UnmapInv, UnmapAt, InKalloc, InKfree
  <2> QED BY <2>1, TableQuietStep
<1>7. CASE KfreeWrite(p)
  <2>1. TableQuiet(p)
    BY <1>7, <1>1, <1>2 DEF KfreeWrite, tab, Become, TableQuiet, Away, Frame, TableInv, PageInv,
      CowInv, CowAt, FaultInv, FaultAt, GrowInv, GrowAt, UnmapInv, UnmapAt, InKalloc, InKfree
  <2> QED BY <2>1, TableQuietStep
<1>8. CASE KfreePush(p)
  <2>1. TableQuiet(p)
    BY <1>8, <1>1, <1>2 DEF KfreePush, tab, Become, TableQuiet, Away, Frame, TableInv, PageInv,
      CowInv, CowAt, FaultInv, FaultAt, GrowInv, GrowAt, UnmapInv, UnmapAt, InKalloc, InKfree
  <2> QED BY <2>1, TableQuietStep
<1>9. CASE KrefincRead(p)
  <2>1. TableQuiet(p)
    BY <1>9, <1>1, <1>2 DEF KrefincRead, tab, Become, TableQuiet, Away, Frame, TableInv, PageInv,
      CowInv, CowAt, FaultInv, FaultAt, GrowInv, GrowAt, UnmapInv, UnmapAt, InKalloc, InKfree
  <2> QED BY <2>1, TableQuietStep
<1>10. CASE KrefincWrite(p)
  <2>1. TableQuiet(p)
    BY <1>10, <1>1, <1>2 DEF KrefincWrite, tab, Become, TableQuiet, Away, Frame, TableInv,
      PageInv, CowInv, CowAt, FaultInv, FaultAt, GrowInv, GrowAt, UnmapInv, UnmapAt, InKalloc,
      InKfree
  <2> QED BY <2>1, TableQuietStep
<1>11. ASSUME NEW v \in Va, NEW d \in Val, UserStore(p, v, d) PROVE TableInv'
  <2>1. TableQuiet(p)
    BY <1>11, <1>1, <1>2 DEF UserStore, tab, TableQuiet, Away, Frame, TableInv, PageInv, CowInv,
      CowAt, FaultInv, FaultAt, GrowInv, GrowAt, UnmapInv, UnmapAt, InKalloc, InKfree
  <2> QED BY <2>1, TableQuietStep
<1>12. ASSUME NEW v \in Va, CowFault(p, v) PROVE TableInv'
  <2>1. TableQuiet(p)
    BY <1>12, <1>1, <1>2 DEF CowFault, tab, Become, TableQuiet, Away, Frame, TableInv, PageInv,
      CowInv, CowAt, FaultInv, FaultAt, GrowInv, GrowAt, UnmapInv, UnmapAt, InKalloc, InKfree
  <2> QED BY <2>1, TableQuietStep
<1>13. ASSUME NEW v \in Va, LazyFault(p, v) PROVE TableInv'
  <2>1. TableQuiet(p)
    BY <1>13, <1>1, <1>2 DEF LazyFault, tab, Become, TableQuiet, Away, Frame, TableInv, PageInv,
      CowInv, CowAt, FaultInv, FaultAt, GrowInv, GrowAt, UnmapInv, UnmapAt, InKalloc, InKfree
  <2> QED BY <2>1, TableQuietStep
<1>14. ASSUME NEW v \in Va, BadFault(p, v) PROVE TableInv'
  <2>1. TableQuiet(p)
    BY <1>14, <1>1, <1>2 DEF BadFault, tab, Leave, Become, Idle, TableQuiet, Away, Frame,
      TableInv, PageInv, CowInv, CowAt, FaultInv, FaultAt, GrowInv, GrowAt, UnmapInv, UnmapAt,
      InKalloc, InKfree
  <2> QED BY <2>1, TableQuietStep
<1>60. ASSUME NEW v \in Va, CopyinFault(p, v) PROVE TableInv'
  <2>1. TableQuiet(p)
    BY <1>60, <1>1, <1>2 DEF CopyinFault, Walkaddr, tab, Become, TableQuiet, Away, Frame,
      TableInv, PageInv, CowInv, CowAt, FaultInv, FaultAt, GrowInv, GrowAt, UnmapInv, UnmapAt,
      InKalloc, InKfree
  <2> QED BY <2>1, TableQuietStep
<1>61. ASSUME NEW v \in Va, CopyinFail(p, v) PROVE TableInv'
  <2>1. TableQuiet(p)
    BY <1>61, <1>1, <1>2 DEF CopyinFail, Walkaddr, tab, Leave, Become, Idle, TableQuiet, Away,
      Frame, TableInv, PageInv, CowInv, CowAt, FaultInv, FaultAt, GrowInv, GrowAt, UnmapInv,
      UnmapAt, InKalloc, InKfree
  <2> QED BY <2>1, TableQuietStep
<1>62. ASSUME NEW v \in Va, Copyinstr(p, v) PROVE TableInv'
  <2>1. TableQuiet(p)
    BY <1>62, <1>1, <1>2 DEF Copyinstr, Walkaddr, tab, Leave, Become, Idle, TableQuiet, Away,
      Frame, TableInv, PageInv, CowInv, CowAt, FaultInv, FaultAt, GrowInv, GrowAt, UnmapInv,
      UnmapAt, InKalloc, InKfree
  <2> QED BY <2>1, TableQuietStep
<1>15. CASE CowGetRef(p)
  <2>1. TableQuiet(p)
    BY <1>15, <1>1, <1>2 DEF CowGetRef, tab, Become, TableQuiet, Away, Frame, TableInv, PageInv,
      CowInv, CowAt, FaultInv, FaultAt, GrowInv, GrowAt, UnmapInv, UnmapAt, InKalloc, InKfree
  <2> QED BY <2>1, TableQuietStep
<1>16. CASE CowSole(p)
  <2>1. TableQuiet(p)
    BY <1>16, <1>1, <1>2 DEF CowSole, Leave, Become, Idle, Writable, TableQuiet, Away, Frame,
      TableInv, PageInv, CowInv, CowAt, FaultInv, FaultAt, GrowInv, GrowAt, UnmapInv, UnmapAt,
      InKalloc, InKfree
  <2> QED BY <2>1, TableQuietStep
<1>17. CASE CowShared(p)
  <2>1. TableQuiet(p)
    BY <1>17, <1>1, <1>2 DEF CowShared, tab, Become, TableQuiet, Away, Frame, TableInv, PageInv,
      CowInv, CowAt, FaultInv, FaultAt, GrowInv, GrowAt, UnmapInv, UnmapAt, InKalloc, InKfree
  <2> QED BY <2>1, TableQuietStep
<1>18. CASE CowNoMem(p)
  <2>1. TableQuiet(p)
    BY <1>18, <1>1, <1>2 DEF CowNoMem, tab, Leave, Become, Idle, TableQuiet, Away, Frame,
      TableInv, PageInv, CowInv, CowAt, FaultInv, FaultAt, GrowInv, GrowAt, UnmapInv, UnmapAt,
      InKalloc, InKfree
  <2> QED BY <2>1, TableQuietStep
<1>19. CASE CowCopy(p)
  <2>1. TableQuiet(p)
    BY <1>19, <1>1, <1>2 DEF CowCopy, tab, Become, TableQuiet, Away, Frame, TableInv, PageInv,
      CowInv, CowAt, FaultInv, FaultAt, GrowInv, GrowAt, UnmapInv, UnmapAt, InKalloc, InKfree
  <2> QED BY <2>1, TableQuietStep
<1>20. CASE CowRemap(p)
  <2>1. TableQuiet(p)
    BY <1>20, <1>1, <1>2 DEF CowRemap, Mappages, Become, Freeing, Writable, TableQuiet, Away,
      Frame, TableInv, PageInv, CowInv, CowAt, FaultInv, FaultAt, GrowInv, GrowAt, UnmapInv,
      UnmapAt, InKalloc, InKfree
  <2> QED BY <2>1, TableQuietStep
<1>21. CASE FaultMap(p)
  <2>1. TableQuiet(p)
    BY <1>21, <1>1, <1>2 DEF FaultMap, Mappages, Become, Writable, TableQuiet, Away, Frame,
      TableInv, PageInv, CowInv, CowAt, FaultInv, FaultAt, GrowInv, GrowAt, UnmapInv, UnmapAt,
      InKalloc, InKfree
  <2> QED BY <2>1, TableQuietStep
<1>22. CASE FaultNoMem(p)
  <2>1. TableQuiet(p)
    BY <1>22, <1>1, <1>2 DEF FaultNoMem, tab, Leave, Become, Idle, FaultFailed, TableQuiet, Away,
      Frame, TableInv, PageInv, CowInv, CowAt, FaultInv, FaultAt, GrowInv, GrowAt, UnmapInv,
      UnmapAt, InKalloc, InKfree
  <2> QED BY <2>1, TableQuietStep
<1>23. CASE FaultMapFail(p)
  <2>1. TableQuiet(p)
    BY <1>23, <1>1, <1>2 DEF FaultMapFail, tab, Become, Freeing, FaultFailed, TableQuiet, Away,
      Frame, TableInv, PageInv, CowInv, CowAt, FaultInv, FaultAt, GrowInv, GrowAt, UnmapInv,
      UnmapAt, InKalloc, InKfree
  <2> QED BY <2>1, TableQuietStep
<1>24. ASSUME NEW v \in Va, Copyout(p, v) PROVE TableInv'
  <2>1. TableQuiet(p)
    BY <1>24, <1>1, <1>2 DEF Copyout, tab, Become, TableQuiet, Away, Frame, TableInv, PageInv,
      CowInv, CowAt, FaultInv, FaultAt, GrowInv, GrowAt, UnmapInv, UnmapAt, InKalloc, InKfree
  <2> QED BY <2>1, TableQuietStep
<1>25. CASE CopyoutFault(p)
  <2>1. TableQuiet(p)
    BY <1>25, <1>1, <1>2 DEF CopyoutFault, tab, Become, TableQuiet, Away, Frame, TableInv,
      PageInv, CowInv, CowAt, FaultInv, FaultAt, GrowInv, GrowAt, UnmapInv, UnmapAt, InKalloc,
      InKfree
  <2> QED BY <2>1, TableQuietStep
<1>26. ASSUME NEW d \in Val, CopyoutWrite(p, d) PROVE TableInv'
  <2>1. TableQuiet(p)
    BY <1>26, <1>1, <1>2 DEF CopyoutWrite, tab, Become, Idle, Unmapping, TableQuiet, Away, Frame,
      TableInv, PageInv, CowInv, CowAt, FaultInv, FaultAt, GrowInv, GrowAt, UnmapInv, UnmapAt,
      InKalloc, InKfree
  <2> QED BY <2>1, TableQuietStep
<1>27. CASE CopyoutFail(p)
  <2>1. TableQuiet(p)
    BY <1>27, <1>1, <1>2 DEF CopyoutFail, tab, Leave, Become, Idle, TableQuiet, Away, Frame,
      TableInv, PageInv, CowInv, CowAt, FaultInv, FaultAt, GrowInv, GrowAt, UnmapInv, UnmapAt,
      InKalloc, InKfree
  <2> QED BY <2>1, TableQuietStep
<1>28. CASE SyscallError(p)
  <2>1. TableQuiet(p)
    BY <1>28, <1>1, <1>2 DEF SyscallError, tab, Leave, Become, Idle, TableQuiet, Away, Frame,
      TableInv, PageInv, CowInv, CowAt, FaultInv, FaultAt, GrowInv, GrowAt, UnmapInv, UnmapAt,
      InKalloc, InKfree
  <2> QED BY <2>1, TableQuietStep
<1>29. ASSUME NEW n \in 1 .. NVa, SbrkLazy(p, n) PROVE TableInv'
  <2>1. TableQuiet(p)
    BY <1>29, <1>1, <1>2 DEF SbrkLazy, TableQuiet, Away, Frame, TableInv, PageInv, CowInv, CowAt,
      FaultInv, FaultAt, GrowInv, GrowAt, UnmapInv, UnmapAt, InKalloc, InKfree
  <2> QED BY <2>1, TableQuietStep
<1>30. ASSUME NEW n \in 1 .. NVa, SbrkGrow(p, n) PROVE TableInv'
  <2>1. TableQuiet(p)
    BY <1>30, <1>1, <1>2 DEF SbrkGrow, tab, Become, TableQuiet, Away, Frame, TableInv, PageInv,
      CowInv, CowAt, FaultInv, FaultAt, GrowInv, GrowAt, UnmapInv, UnmapAt, InKalloc, InKfree
  <2> QED BY <2>1, TableQuietStep
<1>31. ASSUME NEW n \in 1 .. NVa, SbrkShrink(p, n) PROVE TableInv'
  <2>1. TableQuiet(p)
    BY <1>31, <1>1, <1>2 DEF SbrkShrink, tab, Become, Unmapping, TableQuiet, Away, Frame,
      TableInv, PageInv, CowInv, CowAt, FaultInv, FaultAt, GrowInv, GrowAt, UnmapInv, UnmapAt,
      InKalloc, InKfree
  <2> QED BY <2>1, TableQuietStep
<1>32. CASE GrowAlloc(p)
  <2>1. TableQuiet(p)
    BY <1>32, <1>1, <1>2 DEF GrowAlloc, tab, Become, TableQuiet, Away, Frame, TableInv, PageInv,
      CowInv, CowAt, FaultInv, FaultAt, GrowInv, GrowAt, UnmapInv, UnmapAt, InKalloc, InKfree
  <2> QED BY <2>1, TableQuietStep
<1>33. CASE GrowMap(p)
  <2>1. TableQuiet(p)
    BY <1>33, <1>1, <1>2 DEF GrowMap, Mappages, Become, Writable, TableQuiet, Away, Frame,
      TableInv, PageInv, CowInv, CowAt, FaultInv, FaultAt, GrowInv, GrowAt, UnmapInv, UnmapAt,
      InKalloc, InKfree
  <2> QED BY <2>1, TableQuietStep
<1>34. CASE GrowNoMem(p)
  <2>1. TableQuiet(p)
    BY <1>34, <1>1, <1>2 DEF GrowNoMem, tab, Become, Unmapping, TableQuiet, Away, Frame, TableInv,
      PageInv, CowInv, CowAt, FaultInv, FaultAt, GrowInv, GrowAt, UnmapInv, UnmapAt, InKalloc,
      InKfree
  <2> QED BY <2>1, TableQuietStep
<1>35. CASE GrowMapFail(p)
  <2>1. TableQuiet(p)
    BY <1>35, <1>1, <1>2 DEF GrowMapFail, tab, Become, Unmapping, TableQuiet, Away, Frame,
      TableInv, PageInv, CowInv, CowAt, FaultInv, FaultAt, GrowInv, GrowAt, UnmapInv, UnmapAt,
      InKalloc, InKfree
  <2> QED BY <2>1, TableQuietStep
<1>36. CASE GrowDone(p)
  <2>1. TableQuiet(p)
    BY <1>36, <1>1, <1>2 DEF GrowDone, Leave, Become, Idle, TableQuiet, Away, Frame, TableInv,
      PageInv, CowInv, CowAt, FaultInv, FaultAt, GrowInv, GrowAt, UnmapInv, UnmapAt, InKalloc,
      InKfree
  <2> QED BY <2>1, TableQuietStep
<1>37. CASE ShrinkDone(p)
  <2>1. TableQuiet(p)
    BY <1>37, <1>1, <1>2 DEF ShrinkDone, Leave, Become, UnmapEnd, Idle, TableQuiet, Away, Frame,
      TableInv, PageInv, CowInv, CowAt, FaultInv, FaultAt, GrowInv, GrowAt, UnmapInv, UnmapAt,
      InKalloc, InKfree
  <2> QED BY <2>1, TableQuietStep
<1>38. CASE GrowUndone(p)
  <2>1. TableQuiet(p)
    BY <1>38, <1>1, <1>2 DEF GrowUndone, tab, Leave, Become, UnmapEnd, Idle, TableQuiet, Away,
      Frame, TableInv, PageInv, CowInv, CowAt, FaultInv, FaultAt, GrowInv, GrowAt, UnmapInv,
      UnmapAt, InKalloc, InKfree
  <2> QED BY <2>1, TableQuietStep
<1>39. CASE UnmapSkip(p)
  <2>1. TableQuiet(p)
    BY <1>39, <1>1, <1>2 DEF UnmapSkip, tab, Become, TableQuiet, Away, Frame, TableInv, PageInv,
      CowInv, CowAt, FaultInv, FaultAt, GrowInv, GrowAt, UnmapInv, UnmapAt, InKalloc, InKfree
  <2> QED BY <2>1, TableQuietStep
<1>40. CASE UnmapFree(p)
  <2>1. TableQuiet(p)
    BY <1>40, <1>1, <1>2 DEF UnmapFree, tab, Become, TableQuiet, Away, Frame, TableInv, PageInv,
      CowInv, CowAt, FaultInv, FaultAt, GrowInv, GrowAt, UnmapInv, UnmapAt, InKalloc, InKfree
  <2> QED BY <2>1, TableQuietStep
<1>41. CASE UnmapClear(p)
  <2>1. TableQuiet(p)
    BY <1>41, <1>1, <1>2 DEF UnmapClear, Become, TableQuiet, Away, Frame, TableInv, PageInv,
      CowInv, CowAt, FaultInv, FaultAt, GrowInv, GrowAt, UnmapInv, UnmapAt, InKalloc, InKfree
  <2> QED BY <2>1, TableQuietStep
<1>42. ASSUME NEW c \in Proc, ForkStart(p, c) PROVE TableInv'
  <2>1. (\A q \in Proc : (state[q] = "live") <=> (k[q].pc # "off"))'
    BY <1>42, <1>1, <1>2 DEF ForkStart, mem, Become, TableInv, Frame, PageInv
  <2>2. (\A q \in Proc : k[q].tgt # q =>
           /\ state[k[q].tgt] \in {"used", "zombie"}
           /\ state[k[q].tgt] = "zombie" => parent[k[q].tgt] = q
           /\ k[q].pc \in Away)'
    BY <1>42, <1>1, <1>2 DEF ForkStart, mem, Become, TableInv, Frame, Away, PageInv
  <2>3. (\A q, r \in Proc : k[q].tgt = k[r].tgt /\ k[q].tgt # q /\ k[r].tgt # r => q = r)'
    BY <1>42, <1>1, <1>2 DEF ForkStart, mem, Become, TableInv, Frame, PageInv
  <2> QED BY <2>1, <2>2, <2>3 DEF TableInv
<1>43. CASE ForkPage(p)
  <2>1. TableQuiet(p)
    BY <1>43, <1>1, <1>2 DEF ForkPage, Become, Shared, TableQuiet, Away, Frame, TableInv, PageInv,
      CowInv, CowAt, FaultInv, FaultAt, GrowInv, GrowAt, UnmapInv, UnmapAt, InKalloc, InKfree
  <2> QED BY <2>1, TableQuietStep
<1>44. CASE ForkMapFail(p)
  <2>1. TableQuiet(p)
    BY <1>44, <1>1, <1>2 DEF ForkMapFail, Become, Unmapping, Shared, TableQuiet, Away, Frame,
      TableInv, PageInv, CowInv, CowAt, FaultInv, FaultAt, GrowInv, GrowAt, UnmapInv, UnmapAt,
      InKalloc, InKfree
  <2> QED BY <2>1, TableQuietStep
<1>45. CASE ForkPanic(p)
  <2>1. TableQuiet(p)
    BY <1>45, <1>1, <1>2 DEF ForkPanic, tab, Become, TableQuiet, Away, Frame, TableInv, PageInv,
      CowInv, CowAt, FaultInv, FaultAt, GrowInv, GrowAt, UnmapInv, UnmapAt, InKalloc, InKfree
  <2> QED BY <2>1, TableQuietStep
<1>46. CASE ForkDone(p)
  <2>1. (\A q \in Proc : (state[q] = "live") <=> (k[q].pc # "off"))'
    BY <1>46, <1>1, <1>2 DEF ForkDone, mem, Idle, TableInv, Frame, ForkInv, ForkAt
  <2>2. (\A q \in Proc : k[q].tgt # q =>
           /\ state[k[q].tgt] \in {"used", "zombie"}
           /\ state[k[q].tgt] = "zombie" => parent[k[q].tgt] = q
           /\ k[q].pc \in Away)'
    BY <1>46, <1>1, <1>2 DEF ForkDone, mem, Idle, TableInv, Frame, Away, ForkInv, ForkAt
  <2>3. (\A q, r \in Proc : k[q].tgt = k[r].tgt /\ k[q].tgt # q /\ k[r].tgt # r => q = r)'
    BY <1>46, <1>1, <1>2 DEF ForkDone, mem, Idle, TableInv, Frame, ForkInv, ForkAt
  <2> QED BY <2>1, <2>2, <2>3 DEF TableInv
<1>47. CASE ForkFailed(p)
  <2>1. (\A q \in Proc : (state[q] = "live") <=> (k[q].pc # "off"))'
    BY <1>47, <1>1, <1>2 DEF ForkFailed, mem, Leave, Become, UnmapEnd, Idle, TableInv, Frame,
      UnmapInv, UnmapAt, InKfree
  <2>2. (\A q \in Proc : k[q].tgt # q =>
           /\ state[k[q].tgt] \in {"used", "zombie"}
           /\ state[k[q].tgt] = "zombie" => parent[k[q].tgt] = q
           /\ k[q].pc \in Away)'
    BY <1>47, <1>1, <1>2 DEF ForkFailed, mem, Leave, Become, UnmapEnd, Idle, TableInv, Frame,
      Away, UnmapInv, UnmapAt, InKfree
  <2>3. (\A q, r \in Proc : k[q].tgt = k[r].tgt /\ k[q].tgt # q /\ k[r].tgt # r => q = r)'
    BY <1>47, <1>1, <1>2 DEF ForkFailed, mem, Leave, Become, UnmapEnd, Idle, TableInv, Frame,
      UnmapInv, UnmapAt, InKfree
  <2> QED BY <2>1, <2>2, <2>3 DEF TableInv
<1>48. CASE Exit(p)
  <2>1. TableQuiet(p)
    BY <1>48, <1>1, <1>2 DEF Exit, tab, Leave, Become, Idle, TableQuiet, Away, Frame, TableInv,
      PageInv, CowInv, CowAt, FaultInv, FaultAt, GrowInv, GrowAt, UnmapInv, UnmapAt, InKalloc,
      InKfree
  <2> QED BY <2>1, TableQuietStep
<1>49. CASE KExit(p)
  <2>1. (\A q \in Proc : (state[q] = "live") <=> (k[q].pc # "off"))'
    BY <1>49, <1>1, <1>2 DEF KExit, mem, Leave, Become, Idle, TableInv, Frame, PageInv
  <2>2. (\A q \in Proc : k[q].tgt # q =>
           /\ state[k[q].tgt] \in {"used", "zombie"}
           /\ state[k[q].tgt] = "zombie" => parent[k[q].tgt] = q
           /\ k[q].pc \in Away)'
    BY <1>49, <1>1, <1>2 DEF KExit, mem, Leave, Become, Idle, TableInv, Frame, Away, PageInv
  <2>3. (\A q, r \in Proc : k[q].tgt = k[r].tgt /\ k[q].tgt # q /\ k[r].tgt # r => q = r)'
    BY <1>49, <1>1, <1>2 DEF KExit, mem, Leave, Become, Idle, TableInv, Frame, PageInv
  <2> QED BY <2>1, <2>2, <2>3 DEF TableInv
<1>50. CASE InitExit(p)
  <2>1. TableQuiet(p)
    BY <1>50, <1>1, <1>2 DEF InitExit, tab, Leave, Become, Idle, TableQuiet, Away, Frame,
      TableInv, PageInv, CowInv, CowAt, FaultInv, FaultAt, GrowInv, GrowAt, UnmapInv, UnmapAt,
      InKalloc, InKfree
  <2> QED BY <2>1, TableQuietStep
<1>51. CASE ReapDone(p)
  <2>1. (\A q \in Proc : (state[q] = "live") <=> (k[q].pc # "off"))'
    BY <1>51, <1>1, <1>2 DEF ReapDone, mem, Leave, Become, UnmapEnd, Idle, TableInv, Frame,
      UnmapInv, UnmapAt, InKfree
  <2>2. (\A q \in Proc : k[q].tgt # q =>
           /\ state[k[q].tgt] \in {"used", "zombie"}
           /\ state[k[q].tgt] = "zombie" => parent[k[q].tgt] = q
           /\ k[q].pc \in Away)'
    BY <1>51, <1>1, <1>2 DEF ReapDone, mem, Leave, Become, UnmapEnd, Idle, TableInv, Frame, Away,
      UnmapInv, UnmapAt, InKfree
  <2>3. (\A q, r \in Proc : k[q].tgt = k[r].tgt /\ k[q].tgt # q /\ k[r].tgt # r => q = r)'
    BY <1>51, <1>1, <1>2 DEF ReapDone, mem, Leave, Become, UnmapEnd, Idle, TableInv, Frame,
      UnmapInv, UnmapAt, InKfree
  <2> QED BY <2>1, <2>2, <2>3 DEF TableInv
<1>52. CASE PanicLoop(p)
  <2>1. TableQuiet(p)
    BY <1>52, <1>1, <1>2 DEF PanicLoop, vars, TableQuiet, Away, Frame, TableInv, PageInv, CowInv,
      CowAt, FaultInv, FaultAt, GrowInv, GrowAt, UnmapInv, UnmapAt, InKalloc, InKfree
  <2> QED BY <2>1, TableQuietStep
<1>53. ASSUME NEW c \in Proc, Wait(p, c) PROVE TableInv'
  <2>1. (\A q \in Proc : (state[q] = "live") <=> (k[q].pc # "off"))'
    BY <1>53, <1>1, <1>2 DEF Wait, mem, tab, Become, Unmapping, TableInv, Frame, PageInv
  <2>2. (\A q \in Proc : k[q].tgt # q =>
           /\ state[k[q].tgt] \in {"used", "zombie"}
           /\ state[k[q].tgt] = "zombie" => parent[k[q].tgt] = q
           /\ k[q].pc \in Away)'
    BY <1>53, <1>1, <1>2 DEF Wait, mem, tab, Become, Unmapping, TableInv, Frame, Away, PageInv
  <2>3. (\A q, r \in Proc : k[q].tgt = k[r].tgt /\ k[q].tgt # q /\ k[r].tgt # r => q = r)'
    BY <1>53, <1>1, <1>2 DEF Wait, mem, tab, Become, Unmapping, TableInv, Frame, PageInv
  <2> QED BY <2>1, <2>2, <2>3 DEF TableInv
<1>54. ASSUME NEW c \in Proc, NEW v \in Va, WaitStatus(p, c, v) PROVE TableInv'
  <2>1. (\A q \in Proc : (state[q] = "live") <=> (k[q].pc # "off"))'
    BY <1>54, <1>1, <1>2 DEF WaitStatus, mem, tab, Become, TableInv, Frame, PageInv
  <2>2. (\A q \in Proc : k[q].tgt # q =>
           /\ state[k[q].tgt] \in {"used", "zombie"}
           /\ state[k[q].tgt] = "zombie" => parent[k[q].tgt] = q
           /\ k[q].pc \in Away)'
    BY <1>54, <1>1, <1>2 DEF WaitStatus, mem, tab, Become, TableInv, Frame, Away, PageInv
  <2>3. (\A q, r \in Proc : k[q].tgt = k[r].tgt /\ k[q].tgt # q /\ k[r].tgt # r => q = r)'
    BY <1>54, <1>1, <1>2 DEF WaitStatus, mem, tab, Become, TableInv, Frame, PageInv
  <2> QED BY <2>1, <2>2, <2>3 DEF TableInv
<1> QED
  BY <1>3, <1>4, <1>5, <1>6, <1>7, <1>8, <1>9, <1>10, <1>11, <1>12, <1>13, <1>14, <1>15, <1>16,
    <1>17, <1>18, <1>19, <1>20, <1>21, <1>22, <1>23, <1>24, <1>25, <1>26, <1>27, <1>28, <1>29,
    <1>30, <1>31, <1>32, <1>33, <1>34, <1>35, <1>36, <1>37, <1>38, <1>39, <1>40, <1>41, <1>42,
    <1>43, <1>44, <1>45, <1>46, <1>47, <1>48, <1>49, <1>50, <1>51, <1>52, <1>53, <1>54, <1>60,
    <1>61, <1>62 DEF Step, Kalloc, Kfree, Krefinc, UserAccess, Cowhandler, Vmfault, CopyFromUser,
    CopyToUser, Sbrk, Unmap, Fork, ExitWait

\* A step keeps the extent of the processes it does not work on.
LEMMA ExtentOthers ==
  ASSUME TypeOK, ControlInv, NEW p \in Proc, Step(p), NEW q \in Proc, q # p, q # k[p].tgt
  PROVE  Extent(q)'
<1>1. Footprint(p) /\ Extent(q) BY FootprintStep DEF ControlInv, ExtentInv
<1>2. k'[q] = k[q] /\ sz'[q] = sz[q] BY <1>1 DEF Footprint
<1>3. \A v \in Va : pt'[<<q, v>>] = pt[<<q, v>>] BY <1>1 DEF Footprint
<1>4. Empty(q, sz[q])' <=> Empty(q, sz[q]) BY <1>2, <1>3 DEF Empty
<1>5. state'[q] = state[q] \/ (state[q] = "unused" /\ state'[q] = "used") BY <1>1 DEF Footprint
<1> QED BY <1>1, <1>2, <1>4, <1>5 DEF Extent, GrowAt, InKalloc

\* A step that leaves p's address space as it is, and is no end of a sbrk.
ExtentQuiet(p) ==
  /\ pt' = pt /\ sz' = sz /\ state' = state
  /\ \A q \in Proc : q # p => k'[q] = k[q]
  /\ GrowAt(p) => GrowAt(p)' \/ k'[p].uret = "err"
  /\ k[p].uret = "err" => k'[p].uret = "err"

\* Such a step keeps every extent.
LEMMA ExtentQuietStep ==
  ASSUME ControlInv, NEW p \in Proc, ExtentQuiet(p)
  PROVE  ExtentInv'
<1>1. SUFFICES ASSUME NEW q \in Proc PROVE Extent(q)' BY DEF ExtentInv
<1>2. Extent(q) BY DEF ControlInv, ExtentInv
<1>3. Empty(q, sz[q])' <=> Empty(q, sz[q]) BY DEF Empty, ExtentQuiet
<1>4. CASE q # p BY <1>2, <1>3, <1>4 DEF Extent, ExtentQuiet, GrowAt, InKalloc
<1>5. CASE q = p BY <1>2, <1>3, <1>5 DEF Extent, ExtentQuiet
<1> QED BY <1>4, <1>5

\* An address space ends at sz whatever sbrk, fork, exit and faults do.
LEMMA ExtentStep ==
  ASSUME TypeOK, ControlInv, NEW p \in Proc, Step(p)
  PROVE  ExtentInv'
<1>1. /\ k \in [Proc -> Frame] /\ k[p] \in Frame /\ k[p].tgt \in Proc
      /\ state \in [Proc -> {"unused", "used", "live", "zombie"}]
      /\ pt \in [Proc \X Va -> PTE] /\ sz \in [Proc -> 0 .. NVa]
      /\ k[p].va \in 0 .. NVa /\ k[p].hi \in 0 .. NVa /\ k[p].nsz \in 0 .. NVa /\ sz[p] \in 0 .. NVa
      /\ Va \subseteq Nat /\ NVa \in Nat
  BY Fields, SizeAssumption DEF TypeOK, Va
<1>2. PageInv(p) /\ CowInv(p) /\ FaultInv(p) /\ GrowInv(p) /\ UnmapInv(p) /\ ForkInv(p)
  BY DEF ControlInv, ThreadInv, Thread
<1>3. Extent(p) /\ Extent(k[p].tgt) /\ state[p] = "live"
  BY <1>1, Awake DEF ControlInv, ExtentInv, TableInv
<1>4. CASE KallocPop(p)
  <2>1. ExtentQuiet(p)
    BY <1>4, <1>1, <1>2 DEF KallocPop, tab, Become, ExtentQuiet, Frame, PageInv, CowInv, CowAt,
      FaultInv, FaultAt, GrowInv, GrowAt, UnmapInv, UnmapAt, ForkInv, ForkAt, InKalloc, InKfree
  <2> QED BY <2>1, ExtentQuietStep
<1>5. CASE KallocEmpty(p)
  <2>1. ExtentQuiet(p)
    BY <1>5, <1>1, <1>2 DEF KallocEmpty, mem, tab, Become, ExtentQuiet, Frame, PageInv, CowInv,
      CowAt, FaultInv, FaultAt, GrowInv, GrowAt, UnmapInv, UnmapAt, ForkInv, ForkAt, InKalloc,
      InKfree
  <2> QED BY <2>1, ExtentQuietStep
<1>6. CASE KallocSetCount(p)
  <2>1. ExtentQuiet(p)
    BY <1>6, <1>1, <1>2 DEF KallocSetCount, tab, Become, ExtentQuiet, Frame, PageInv, CowInv,
      CowAt, FaultInv, FaultAt, GrowInv, GrowAt, UnmapInv, UnmapAt, ForkInv, ForkAt, InKalloc,
      InKfree
  <2> QED BY <2>1, ExtentQuietStep
<1>7. CASE KfreeRead(p)
  <2>1. ExtentQuiet(p)
    BY <1>7, <1>1, <1>2 DEF KfreeRead, tab, Become, ExtentQuiet, Frame, PageInv, CowInv, CowAt,
      FaultInv, FaultAt, GrowInv, GrowAt, UnmapInv, UnmapAt, ForkInv, ForkAt, InKalloc, InKfree
  <2> QED BY <2>1, ExtentQuietStep
<1>8. CASE KfreeWrite(p)
  <2>1. ExtentQuiet(p)
    BY <1>8, <1>1, <1>2 DEF KfreeWrite, tab, Become, ExtentQuiet, Frame, PageInv, CowInv, CowAt,
      FaultInv, FaultAt, GrowInv, GrowAt, UnmapInv, UnmapAt, ForkInv, ForkAt, InKalloc, InKfree
  <2> QED BY <2>1, ExtentQuietStep
<1>9. CASE KfreePush(p)
  <2>1. ExtentQuiet(p)
    BY <1>9, <1>1, <1>2 DEF KfreePush, tab, Become, ExtentQuiet, Frame, PageInv, CowInv, CowAt,
      FaultInv, FaultAt, GrowInv, GrowAt, UnmapInv, UnmapAt, ForkInv, ForkAt, InKalloc, InKfree
  <2> QED BY <2>1, ExtentQuietStep
<1>10. CASE KrefincRead(p)
  <2>1. ExtentQuiet(p)
    BY <1>10, <1>1, <1>2 DEF KrefincRead, tab, Become, ExtentQuiet, Frame, PageInv, CowInv, CowAt,
      FaultInv, FaultAt, GrowInv, GrowAt, UnmapInv, UnmapAt, ForkInv, ForkAt, InKalloc, InKfree
  <2> QED BY <2>1, ExtentQuietStep
<1>11. CASE KrefincWrite(p)
  <2>1. ExtentQuiet(p)
    BY <1>11, <1>1, <1>2 DEF KrefincWrite, tab, Become, ExtentQuiet, Frame, PageInv, CowInv,
      CowAt, FaultInv, FaultAt, GrowInv, GrowAt, UnmapInv, UnmapAt, ForkInv, ForkAt, InKalloc,
      InKfree
  <2> QED BY <2>1, ExtentQuietStep
<1>12. ASSUME NEW v \in Va, NEW d \in Val, UserStore(p, v, d) PROVE ExtentInv'
  <2>1. ExtentQuiet(p)
    BY <1>12, <1>1, <1>2 DEF UserStore, tab, ExtentQuiet, Frame, PageInv, CowInv, CowAt, FaultInv,
      FaultAt, GrowInv, GrowAt, UnmapInv, UnmapAt, ForkInv, ForkAt, InKalloc, InKfree
  <2> QED BY <2>1, ExtentQuietStep
<1>13. ASSUME NEW v \in Va, CowFault(p, v) PROVE ExtentInv'
  <2>1. ExtentQuiet(p)
    BY <1>13, <1>1, <1>2 DEF CowFault, mem, tab, Become, ExtentQuiet, Frame, PageInv, CowInv,
      CowAt, FaultInv, FaultAt, GrowInv, GrowAt, UnmapInv, UnmapAt, ForkInv, ForkAt, InKalloc,
      InKfree
  <2> QED BY <2>1, ExtentQuietStep
<1>14. ASSUME NEW v \in Va, LazyFault(p, v) PROVE ExtentInv'
  <2>1. ExtentQuiet(p)
    BY <1>14, <1>1, <1>2 DEF LazyFault, mem, tab, Become, ExtentQuiet, Frame, PageInv, CowInv,
      CowAt, FaultInv, FaultAt, GrowInv, GrowAt, UnmapInv, UnmapAt, ForkInv, ForkAt, InKalloc,
      InKfree
  <2> QED BY <2>1, ExtentQuietStep
<1>15. ASSUME NEW v \in Va, BadFault(p, v) PROVE ExtentInv'
  <2>1. ExtentQuiet(p)
    BY <1>15, <1>1, <1>2 DEF BadFault, mem, tab, Leave, Become, Idle, ExtentQuiet, Frame, PageInv,
      CowInv, CowAt, FaultInv, FaultAt, GrowInv, GrowAt, UnmapInv, UnmapAt, ForkInv, ForkAt,
      InKalloc, InKfree
  <2> QED BY <2>1, ExtentQuietStep
<1>60. ASSUME NEW v \in Va, CopyinFault(p, v) PROVE ExtentInv'
  <2>1. ExtentQuiet(p)
    BY <1>60, <1>1, <1>2 DEF CopyinFault, Walkaddr, mem, tab, Become, ExtentQuiet, Frame, PageInv,
      CowInv, CowAt, FaultInv, FaultAt, GrowInv, GrowAt, UnmapInv, UnmapAt, ForkInv, ForkAt,
      InKalloc, InKfree
  <2> QED BY <2>1, ExtentQuietStep
<1>61. ASSUME NEW v \in Va, CopyinFail(p, v) PROVE ExtentInv'
  <2>1. ExtentQuiet(p)
    BY <1>61, <1>1, <1>2 DEF CopyinFail, Walkaddr, mem, tab, Leave, Become, Idle, ExtentQuiet,
      Frame, PageInv, CowInv, CowAt, FaultInv, FaultAt, GrowInv, GrowAt, UnmapInv, UnmapAt,
      ForkInv, ForkAt, InKalloc, InKfree
  <2> QED BY <2>1, ExtentQuietStep
<1>62. ASSUME NEW v \in Va, Copyinstr(p, v) PROVE ExtentInv'
  <2>1. ExtentQuiet(p)
    BY <1>62, <1>1, <1>2 DEF Copyinstr, Walkaddr, mem, tab, Leave, Become, Idle, ExtentQuiet,
      Frame, PageInv, CowInv, CowAt, FaultInv, FaultAt, GrowInv, GrowAt, UnmapInv, UnmapAt,
      ForkInv, ForkAt, InKalloc, InKfree
  <2> QED BY <2>1, ExtentQuietStep
<1>16. CASE CowGetRef(p)
  <2>1. ExtentQuiet(p)
    BY <1>16, <1>1, <1>2 DEF CowGetRef, mem, tab, Become, ExtentQuiet, Frame, PageInv, CowInv,
      CowAt, FaultInv, FaultAt, GrowInv, GrowAt, UnmapInv, UnmapAt, ForkInv, ForkAt, InKalloc,
      InKfree
  <2> QED BY <2>1, ExtentQuietStep
<1>17. CASE CowSole(p)
  <2>1. Extent(p)'
    <3>1. k[p].va \in Va /\ k[p].va < sz[p] /\ Empty(p, sz[p])
      BY <1>17, <1>1, <1>2, <1>3, SizeInVa DEF ControlInv, PteInv, CowSole, CowInv, CowAt, Extent,
        Empty, GrowAt, InKalloc
    <3>2. \A v \in Va : v >= sz[p] => pt'[<<p, v>>] = pt[<<p, v>>]
      BY <1>17, <1>1, <3>1 DEF CowSole
    <3>3. Empty(p, sz[p])' BY <1>17, <3>1, <3>2 DEF CowSole, Empty
    <3>4. state'[p] = "live" BY <1>17, <1>3 DEF CowSole
    <3> QED BY <3>3, <3>4 DEF Extent
  <2>2. ASSUME NEW t \in Proc, t = k[p].tgt, t # p PROVE Extent(t)'
    BY <1>17, <1>1, <1>2, <1>3, <2>2 DEF CowSole, mem, Leave, Become, Idle, Writable, Extent,
      Empty, GrowAt, InKalloc, PageInv
  <2> QED BY <2>1, <2>2, ExtentOthers DEF ExtentInv
<1>18. CASE CowShared(p)
  <2>1. ExtentQuiet(p)
    BY <1>18, <1>1, <1>2 DEF CowShared, mem, tab, Become, ExtentQuiet, Frame, PageInv, CowInv,
      CowAt, FaultInv, FaultAt, GrowInv, GrowAt, UnmapInv, UnmapAt, ForkInv, ForkAt, InKalloc,
      InKfree
  <2> QED BY <2>1, ExtentQuietStep
<1>19. CASE CowNoMem(p)
  <2>1. ExtentQuiet(p)
    BY <1>19, <1>1, <1>2 DEF CowNoMem, mem, tab, Leave, Become, Idle, ExtentQuiet, Frame, PageInv,
      CowInv, CowAt, FaultInv, FaultAt, GrowInv, GrowAt, UnmapInv, UnmapAt, ForkInv, ForkAt,
      InKalloc, InKfree
  <2> QED BY <2>1, ExtentQuietStep
<1>20. CASE CowCopy(p)
  <2>1. ExtentQuiet(p)
    BY <1>20, <1>1, <1>2 DEF CowCopy, tab, Become, ExtentQuiet, Frame, PageInv, CowInv, CowAt,
      FaultInv, FaultAt, GrowInv, GrowAt, UnmapInv, UnmapAt, ForkInv, ForkAt, InKalloc, InKfree
  <2> QED BY <2>1, ExtentQuietStep
<1>21. CASE CowRemap(p)
  <2>1. Extent(p)'
    <3>1. k[p].va \in Va /\ k[p].va < sz[p] /\ Empty(p, sz[p])
      BY <1>21, <1>1, <1>2, <1>3, SizeInVa DEF ControlInv, PteInv, CowRemap, Mappages, CowInv,
        CowAt, Extent, Empty, GrowAt, InKalloc
    <3>2. \A v \in Va : v >= sz[p] => pt'[<<p, v>>] = pt[<<p, v>>]
      BY <1>21, <1>1, <3>1 DEF CowRemap, Mappages
    <3>3. Empty(p, sz[p])' BY <1>21, <3>1, <3>2 DEF CowRemap, Mappages, Empty
    <3>4. state'[p] = "live" BY <1>21, <1>3 DEF CowRemap, Mappages
    <3> QED BY <3>3, <3>4 DEF Extent
  <2>2. ASSUME NEW t \in Proc, t = k[p].tgt, t # p PROVE Extent(t)'
    BY <1>21, <1>1, <1>2, <1>3, <2>2 DEF CowRemap, Mappages, mem, Become, Freeing, Writable,
      Extent, Empty, GrowAt, InKalloc, PageInv
  <2> QED BY <2>1, <2>2, ExtentOthers DEF ExtentInv
<1>22. CASE FaultMap(p)
  <2>1. Extent(p)'
    <3>1. k[p].va \in Va /\ k[p].va < sz[p] /\ Empty(p, sz[p])
      BY <1>22, <1>1, <1>2, <1>3 DEF FaultMap, Mappages, FaultInv, FaultAt, Extent, GrowAt,
        InKalloc
    <3>2. \A v \in Va : v >= sz[p] => pt'[<<p, v>>] = pt[<<p, v>>]
      BY <1>22, <1>1, <3>1 DEF FaultMap, Mappages
    <3>3. Empty(p, sz[p])' BY <1>22, <3>1, <3>2 DEF FaultMap, Mappages, Empty
    <3>4. state'[p] = "live" BY <1>22, <1>3 DEF FaultMap, Mappages
    <3> QED BY <3>3, <3>4 DEF Extent
  <2>2. ASSUME NEW t \in Proc, t = k[p].tgt, t # p PROVE Extent(t)'
    BY <1>22, <1>1, <1>2, <1>3, <2>2 DEF FaultMap, Mappages, Become, Writable, Extent, Empty,
      GrowAt, InKalloc, PageInv
  <2> QED BY <2>1, <2>2, ExtentOthers DEF ExtentInv
<1>23. CASE FaultNoMem(p)
  <2>1. ExtentQuiet(p)
    BY <1>23, <1>1, <1>2 DEF FaultNoMem, mem, tab, Leave, Become, Idle, FaultFailed, ExtentQuiet,
      Frame, PageInv, CowInv, CowAt, FaultInv, FaultAt, GrowInv, GrowAt, UnmapInv, UnmapAt,
      ForkInv, ForkAt, InKalloc, InKfree
  <2> QED BY <2>1, ExtentQuietStep
<1>24. CASE FaultMapFail(p)
  <2>1. ExtentQuiet(p)
    BY <1>24, <1>1, <1>2 DEF FaultMapFail, mem, tab, Become, Freeing, FaultFailed, ExtentQuiet,
      Frame, PageInv, CowInv, CowAt, FaultInv, FaultAt, GrowInv, GrowAt, UnmapInv, UnmapAt,
      ForkInv, ForkAt, InKalloc, InKfree
  <2> QED BY <2>1, ExtentQuietStep
<1>25. ASSUME NEW v \in Va, Copyout(p, v) PROVE ExtentInv'
  <2>1. ExtentQuiet(p)
    BY <1>25, <1>1, <1>2 DEF Copyout, mem, tab, Become, ExtentQuiet, Frame, PageInv, CowInv,
      CowAt, FaultInv, FaultAt, GrowInv, GrowAt, UnmapInv, UnmapAt, ForkInv, ForkAt, InKalloc,
      InKfree
  <2> QED BY <2>1, ExtentQuietStep
<1>26. CASE CopyoutFault(p)
  <2>1. ExtentQuiet(p)
    BY <1>26, <1>1, <1>2 DEF CopyoutFault, mem, tab, Become, ExtentQuiet, Frame, PageInv, CowInv,
      CowAt, FaultInv, FaultAt, GrowInv, GrowAt, UnmapInv, UnmapAt, ForkInv, ForkAt, InKalloc,
      InKfree
  <2> QED BY <2>1, ExtentQuietStep
<1>27. ASSUME NEW d \in Val, CopyoutWrite(p, d) PROVE ExtentInv'
  <2>1. ExtentQuiet(p)
    BY <1>27, <1>1, <1>2 DEF CopyoutWrite, tab, Become, Idle, Unmapping, ExtentQuiet, Frame,
      PageInv, CowInv, CowAt, FaultInv, FaultAt, GrowInv, GrowAt, UnmapInv, UnmapAt, ForkInv,
      ForkAt, InKalloc, InKfree
  <2> QED BY <2>1, ExtentQuietStep
<1>28. CASE CopyoutFail(p)
  <2>1. ExtentQuiet(p)
    BY <1>28, <1>1, <1>2 DEF CopyoutFail, mem, tab, Leave, Become, Idle, ExtentQuiet, Frame,
      PageInv, CowInv, CowAt, FaultInv, FaultAt, GrowInv, GrowAt, UnmapInv, UnmapAt, ForkInv,
      ForkAt, InKalloc, InKfree
  <2> QED BY <2>1, ExtentQuietStep
<1>29. CASE SyscallError(p)
  <2>1. ExtentQuiet(p)
    BY <1>29, <1>1, <1>2 DEF SyscallError, mem, tab, Leave, Become, Idle, ExtentQuiet, Frame,
      PageInv, CowInv, CowAt, FaultInv, FaultAt, GrowInv, GrowAt, UnmapInv, UnmapAt, ForkInv,
      ForkAt, InKalloc, InKfree
  <2> QED BY <2>1, ExtentQuietStep
<1>30. ASSUME NEW n \in 1 .. NVa, SbrkLazy(p, n) PROVE ExtentInv'
  <2>1. Extent(p)'
    BY <1>30, <1>1, <1>2, <1>3 DEF SbrkLazy, mem, Extent, Empty, GrowAt, InKalloc, PageInv
  <2>2. ASSUME NEW t \in Proc, t = k[p].tgt, t # p PROVE Extent(t)'
    BY <1>30, <1>1, <1>2, <1>3, <2>2 DEF SbrkLazy, mem, Extent, Empty, GrowAt, InKalloc, PageInv
  <2> QED BY <2>1, <2>2, ExtentOthers DEF ExtentInv
<1>31. ASSUME NEW n \in 1 .. NVa, SbrkGrow(p, n) PROVE ExtentInv'
  <2>1. ExtentQuiet(p)
    BY <1>31, <1>1, <1>2 DEF SbrkGrow, mem, tab, Become, ExtentQuiet, Frame, PageInv, CowInv,
      CowAt, FaultInv, FaultAt, GrowInv, GrowAt, UnmapInv, UnmapAt, ForkInv, ForkAt, InKalloc,
      InKfree
  <2> QED BY <2>1, ExtentQuietStep
<1>32. ASSUME NEW n \in 1 .. NVa, SbrkShrink(p, n) PROVE ExtentInv'
  <2>1. ExtentQuiet(p)
    BY <1>32, <1>1, <1>2 DEF SbrkShrink, mem, tab, Become, Unmapping, ExtentQuiet, Frame, PageInv,
      CowInv, CowAt, FaultInv, FaultAt, GrowInv, GrowAt, UnmapInv, UnmapAt, ForkInv, ForkAt,
      InKalloc, InKfree
  <2> QED BY <2>1, ExtentQuietStep
<1>33. CASE GrowAlloc(p)
  <2>1. ExtentQuiet(p)
    BY <1>33, <1>1, <1>2 DEF GrowAlloc, mem, tab, Become, ExtentQuiet, Frame, PageInv, CowInv,
      CowAt, FaultInv, FaultAt, GrowInv, GrowAt, UnmapInv, UnmapAt, ForkInv, ForkAt, InKalloc,
      InKfree
  <2> QED BY <2>1, ExtentQuietStep
<1>34. CASE GrowMap(p)
  <2>1. Extent(p)'
    BY <1>34, <1>1, <1>2, <1>3 DEF GrowMap, Mappages, Become, Writable, Extent, Empty, GrowAt,
      InKalloc, PageInv
  <2>2. ASSUME NEW t \in Proc, t = k[p].tgt, t # p PROVE Extent(t)'
    BY <1>34, <1>1, <1>2, <1>3, <2>2 DEF GrowMap, Mappages, Become, Writable, Extent, Empty,
      GrowAt, InKalloc, PageInv
  <2> QED BY <2>1, <2>2, ExtentOthers DEF ExtentInv
<1>35. CASE GrowNoMem(p)
  <2>1. ExtentQuiet(p)
    BY <1>35, <1>1, <1>2 DEF GrowNoMem, mem, tab, Become, Unmapping, ExtentQuiet, Frame, PageInv,
      CowInv, CowAt, FaultInv, FaultAt, GrowInv, GrowAt, UnmapInv, UnmapAt, ForkInv, ForkAt,
      InKalloc, InKfree
  <2> QED BY <2>1, ExtentQuietStep
<1>36. CASE GrowMapFail(p)
  <2>1. ExtentQuiet(p)
    BY <1>36, <1>1, <1>2 DEF GrowMapFail, mem, tab, Become, Unmapping, ExtentQuiet, Frame,
      PageInv, CowInv, CowAt, FaultInv, FaultAt, GrowInv, GrowAt, UnmapInv, UnmapAt, ForkInv,
      ForkAt, InKalloc, InKfree
  <2> QED BY <2>1, ExtentQuietStep
<1>37. CASE GrowDone(p)
  <2>1. Extent(p)'
    <3>1. Empty(p, k[p].hi) /\ k[p].tgt = p BY <1>37, <1>2 DEF GrowDone, GrowInv, GrowAt
    <3>2. sz'[p] = k[p].hi /\ pt' = pt /\ state'[p] = "live" BY <1>37, <1>1, <1>3 DEF GrowDone
    <3>3. Empty(p, sz[p])' BY <3>1, <3>2 DEF Empty
    <3> QED BY <3>2, <3>3 DEF Extent
  <2>2. ASSUME NEW t \in Proc, t = k[p].tgt, t # p PROVE Extent(t)'
    BY <1>37, <1>1, <1>2, <1>3, <2>2 DEF GrowDone, mem, Leave, Become, Idle, Extent, Empty,
      GrowAt, InKalloc, PageInv
  <2> QED BY <2>1, <2>2, ExtentOthers DEF ExtentInv
<1>38. CASE ShrinkDone(p)
  <2>1. Extent(p)'
    <3>1. /\ Empty(p, sz[p]) /\ k[p].va = sz[p]
          /\ \A v \in Va : v < k[p].va => pt[<<p, v>>].pa = NoPage \/ v < k[p].nsz
      BY <1>38, <1>2 DEF ShrinkDone, UnmapEnd, UnmapInv, UnmapAt, InKfree
    <3>2. Empty(p, k[p].nsz) BY <1>1, <3>1 DEF Empty
    <3>3. sz'[p] = k[p].nsz /\ pt' = pt /\ state'[p] = "live" BY <1>38, <1>1, <1>3 DEF ShrinkDone
    <3>4. Empty(p, sz[p])' BY <3>2, <3>3 DEF Empty
    <3> QED BY <3>3, <3>4 DEF Extent
  <2>2. ASSUME NEW t \in Proc, t = k[p].tgt, t # p PROVE Extent(t)'
    BY <1>38, <1>1, <1>2, <1>3, <2>2 DEF ShrinkDone, mem, Leave, Become, UnmapEnd, Idle, Extent,
      Empty, GrowAt, InKalloc, PageInv
  <2> QED BY <2>1, <2>2, ExtentOthers DEF ExtentInv
<1>39. CASE GrowUndone(p)
  <2>1. Extent(p)'
    <3>1. /\ Empty(p, k[p].hi) /\ k[p].va = k[p].hi
          /\ \A v \in Va : v < k[p].va => pt[<<p, v>>].pa = NoPage \/ v < sz[p]
      BY <1>39, <1>2 DEF GrowUndone, UnmapEnd, UnmapInv, UnmapAt, InKfree
    <3>2. Empty(p, sz[p]) BY <1>1, <3>1 DEF Empty
    <3>3. sz' = sz /\ pt' = pt /\ state'[p] = "live" BY <1>39, <1>3 DEF GrowUndone, tab
    <3>4. Empty(p, sz[p])' BY <3>2, <3>3 DEF Empty
    <3> QED BY <3>3, <3>4 DEF Extent
  <2>2. ASSUME NEW t \in Proc, t = k[p].tgt, t # p PROVE Extent(t)'
    BY <1>39, <1>1, <1>2, <1>3, <2>2 DEF GrowUndone, mem, tab, Leave, Become, UnmapEnd, Idle,
      Extent, Empty, GrowAt, InKalloc, PageInv
  <2> QED BY <2>1, <2>2, ExtentOthers DEF ExtentInv
<1>40. CASE UnmapSkip(p)
  <2>1. ExtentQuiet(p)
    BY <1>40, <1>1, <1>2 DEF UnmapSkip, mem, tab, Become, ExtentQuiet, Frame, PageInv, CowInv,
      CowAt, FaultInv, FaultAt, GrowInv, GrowAt, UnmapInv, UnmapAt, ForkInv, ForkAt, InKalloc,
      InKfree
  <2> QED BY <2>1, ExtentQuietStep
<1>41. CASE UnmapFree(p)
  <2>1. ExtentQuiet(p)
    BY <1>41, <1>1, <1>2 DEF UnmapFree, mem, tab, Become, ExtentQuiet, Frame, PageInv, CowInv,
      CowAt, FaultInv, FaultAt, GrowInv, GrowAt, UnmapInv, UnmapAt, ForkInv, ForkAt, InKalloc,
      InKfree
  <2> QED BY <2>1, ExtentQuietStep
<1>42. CASE UnmapClear(p)
  <2>1. /\ \A q \in Proc, v \in Va : pt[<<q, v>>].pa = NoPage => pt'[<<q, v>>].pa = NoPage
        /\ sz' = sz /\ state' = state /\ k'[p].uret = k[p].uret
    BY <1>42, <1>1 DEF UnmapClear, Unmapped, Become, Frame
  <2>2. k[p].uret # "err" => k[p].tgt # p \/ k[p].uret = "shrink"
    BY <1>42, <1>2 DEF UnmapClear, UnmapInv, UnmapAt, InKfree
  <2>3. Extent(p)'
    BY <1>42, <1>1, <1>3, <2>1, <2>2 DEF UnmapClear, Extent, Empty, GrowAt, InKalloc
  <2>4. ASSUME NEW t \in Proc, t = k[p].tgt, t # p PROVE Extent(t)'
    <3>1. k'[t] = k[t] BY <1>42, <1>1, <2>4 DEF UnmapClear, Become
    <3>2. Empty(t, sz[t]) => Empty(t, sz[t])' BY <2>1, <2>4 DEF Empty
    <3> QED BY <1>3, <2>1, <2>4, <3>1, <3>2 DEF Extent, GrowAt, InKalloc
  <2> QED BY <2>3, <2>4, ExtentOthers DEF ExtentInv
<1>43. ASSUME NEW c \in Proc, ForkStart(p, c) PROVE ExtentInv'
  <2>1. Extent(p)'
    BY <1>43, <1>1, <1>2, <1>3 DEF ForkStart, mem, Become, Extent, Empty, GrowAt, InKalloc,
      PageInv
  <2>2. ASSUME NEW t \in Proc, t = k[p].tgt, t # p PROVE Extent(t)'
    BY <1>43, <1>1, <1>2, <1>3, <2>2 DEF ForkStart, mem, Become, Extent, Empty, GrowAt, InKalloc,
      PageInv
  <2> QED BY <2>1, <2>2, ExtentOthers DEF ExtentInv
<1>44. CASE ForkPage(p)
  <2>1. Extent(p)'
    BY <1>44, <1>1, <1>2, <1>3 DEF ForkPage, mem, Become, Shared, Extent, Empty, GrowAt, InKalloc,
      PageInv
  <2>2. ASSUME NEW t \in Proc, t = k[p].tgt, t # p PROVE Extent(t)'
    <3>1. state'[t] = "used" /\ sz'[t] = sz[t] BY <1>44, <1>2, <2>2 DEF ForkPage, ForkInv, ForkAt
    <3> QED BY <1>3, <2>2, <3>1, <1>44, <1>2 DEF Extent, ForkPage, ForkInv, ForkAt
  <2> QED BY <2>1, <2>2, ExtentOthers DEF ExtentInv
<1>45. CASE ForkMapFail(p)
  <2>1. Extent(p)'
    <3>1. k[p].va \in Va /\ k[p].va < sz[p] /\ Empty(p, sz[p])
      BY <1>45, <1>1, <1>2, <1>3, SizeInVa DEF ControlInv, PteInv, ForkMapFail, ForkInv, ForkAt,
        Extent, Empty, GrowAt, InKalloc
    <3>2. \A v \in Va : v >= sz[p] => pt'[<<p, v>>] = pt[<<p, v>>]
      BY <1>45, <1>1, <3>1 DEF ForkMapFail
    <3>3. Empty(p, sz[p])' BY <1>45, <3>1, <3>2 DEF ForkMapFail, Empty
    <3>4. state'[p] = "live" BY <1>45, <1>3 DEF ForkMapFail
    <3> QED BY <3>3, <3>4 DEF Extent
  <2>2. ASSUME NEW t \in Proc, t = k[p].tgt, t # p PROVE Extent(t)'
    BY <1>45, <1>1, <1>2, <1>3, <2>2 DEF ForkMapFail, mem, Become, Unmapping, Shared, Extent,
      Empty, GrowAt, InKalloc, PageInv
  <2> QED BY <2>1, <2>2, ExtentOthers DEF ExtentInv
<1>46. CASE ForkPanic(p)
  <2>1. ExtentQuiet(p)
    BY <1>46, <1>1, <1>2 DEF ForkPanic, mem, tab, Become, ExtentQuiet, Frame, PageInv, CowInv,
      CowAt, FaultInv, FaultAt, GrowInv, GrowAt, UnmapInv, UnmapAt, ForkInv, ForkAt, InKalloc,
      InKfree
  <2> QED BY <2>1, ExtentQuietStep
<1>47. CASE ForkDone(p)
  <2>1. /\ k[p].tgt # p /\ Empty(k[p].tgt, sz[p]) /\ Empty(p, sz[p])
    BY <1>47, <1>2, <1>3 DEF ForkDone, ForkInv, ForkAt, Extent, GrowAt, InKalloc
  <2>2. /\ sz'[k[p].tgt] = sz[p] /\ sz'[p] = sz[p] /\ pt' = pt
        /\ state'[k[p].tgt] = "live" /\ state'[p] = "live"
    BY <1>47, <1>1, <1>3, <2>1 DEF ForkDone
  <2>3. Extent(p)' BY <2>1, <2>2 DEF Extent, Empty
  <2>4. ASSUME NEW t \in Proc, t = k[p].tgt, t # p PROVE Extent(t)'
    BY <2>1, <2>2, <2>4 DEF Extent, Empty
  <2> QED BY <2>3, <2>4, ExtentOthers DEF ExtentInv
<1>48. CASE ForkFailed(p)
  <2>1. /\ k[p].tgt # p /\ state[k[p].tgt] = "used" /\ k[p].uret # "err"
        /\ \A v \in Va : v < k[p].va => pt[<<k[p].tgt, v>>].pa = NoPage
        /\ Empty(k[p].tgt, k[p].va)
    BY <1>48, <1>2, <1>3 DEF ForkFailed, UnmapEnd, UnmapInv, UnmapAt, InKfree, Extent
  <2>2. Empty(k[p].tgt, 0) BY <1>1, <2>1 DEF Empty
  <2>3. /\ sz'[k[p].tgt] = 0 /\ sz'[p] = sz[p] /\ pt' = pt
        /\ state'[k[p].tgt] = "unused" /\ state'[p] = "live"
    BY <1>48, <1>1, <1>3, <2>1 DEF ForkFailed, Extent
  <2>4. Empty(p, sz[p])
    BY <1>48, <1>3, <2>1 DEF ForkFailed, UnmapEnd, Extent, GrowAt, InKalloc
  <2>5. Extent(p)' BY <2>3, <2>4 DEF Extent, Empty
  <2>6. ASSUME NEW t \in Proc, t = k[p].tgt, t # p PROVE Extent(t)'
    BY <2>2, <2>3, <2>6 DEF Extent, Empty
  <2> QED BY <2>5, <2>6, ExtentOthers DEF ExtentInv
<1>49. CASE Exit(p)
  <2>1. ExtentQuiet(p)
    BY <1>49, <1>1, <1>2 DEF Exit, mem, tab, Leave, Become, Idle, ExtentQuiet, Frame, PageInv,
      CowInv, CowAt, FaultInv, FaultAt, GrowInv, GrowAt, UnmapInv, UnmapAt, ForkInv, ForkAt,
      InKalloc, InKfree
  <2> QED BY <2>1, ExtentQuietStep
<1>50. CASE KExit(p)
  <2>1. Extent(p)'
    BY <1>50, <1>1, <1>2, <1>3 DEF KExit, mem, Leave, Become, Idle, Extent, Empty, GrowAt,
      InKalloc, PageInv
  <2>2. ASSUME NEW t \in Proc, t = k[p].tgt, t # p PROVE Extent(t)'
    BY <1>50, <1>1, <1>2, <1>3, <2>2 DEF KExit, mem, Leave, Become, Idle, Extent, Empty, GrowAt,
      InKalloc, PageInv
  <2> QED BY <2>1, <2>2, ExtentOthers DEF ExtentInv
<1>51. CASE InitExit(p)
  <2>1. ExtentQuiet(p)
    BY <1>51, <1>1, <1>2 DEF InitExit, mem, tab, Leave, Become, Idle, ExtentQuiet, Frame, PageInv,
      CowInv, CowAt, FaultInv, FaultAt, GrowInv, GrowAt, UnmapInv, UnmapAt, ForkInv, ForkAt,
      InKalloc, InKfree
  <2> QED BY <2>1, ExtentQuietStep
<1>52. CASE ReapDone(p)
  <2>1. /\ k[p].tgt # p /\ state[k[p].tgt] = "zombie" /\ k[p].uret # "err"
        /\ \A v \in Va : v < k[p].va => pt[<<k[p].tgt, v>>].pa = NoPage
        /\ Empty(k[p].tgt, k[p].va)
    BY <1>52, <1>2, <1>3 DEF ReapDone, UnmapEnd, UnmapInv, UnmapAt, InKfree, Extent
  <2>2. Empty(k[p].tgt, 0) BY <1>1, <2>1 DEF Empty
  <2>3. /\ sz'[k[p].tgt] = 0 /\ sz'[p] = sz[p] /\ pt' = pt
        /\ state'[k[p].tgt] = "unused" /\ state'[p] = "live"
    BY <1>52, <1>1, <1>3, <2>1 DEF ReapDone, Extent
  <2>4. Empty(p, sz[p])
    BY <1>52, <1>3, <2>1 DEF ReapDone, UnmapEnd, Extent, GrowAt, InKalloc
  <2>5. Extent(p)' BY <2>3, <2>4 DEF Extent, Empty
  <2>6. ASSUME NEW t \in Proc, t = k[p].tgt, t # p PROVE Extent(t)'
    BY <2>2, <2>3, <2>6 DEF Extent, Empty
  <2> QED BY <2>5, <2>6, ExtentOthers DEF ExtentInv
<1>53. CASE PanicLoop(p)
  <2>1. ExtentQuiet(p)
    BY <1>53, <1>1, <1>2 DEF PanicLoop, vars, ExtentQuiet, Frame, PageInv, CowInv, CowAt,
      FaultInv, FaultAt, GrowInv, GrowAt, UnmapInv, UnmapAt, ForkInv, ForkAt, InKalloc, InKfree
  <2> QED BY <2>1, ExtentQuietStep
<1>54. ASSUME NEW c \in Proc, Wait(p, c) PROVE ExtentInv'
  <2>1. ExtentQuiet(p)
    BY <1>54, <1>1, <1>2 DEF Wait, mem, tab, Become, Unmapping, ExtentQuiet, Frame, PageInv,
      CowInv, CowAt, FaultInv, FaultAt, GrowInv, GrowAt, UnmapInv, UnmapAt, ForkInv, ForkAt,
      InKalloc, InKfree
  <2> QED BY <2>1, ExtentQuietStep
<1>55. ASSUME NEW c \in Proc, NEW v \in Va, WaitStatus(p, c, v) PROVE ExtentInv'
  <2>1. ExtentQuiet(p)
    BY <1>55, <1>1, <1>2 DEF WaitStatus, mem, tab, Become, ExtentQuiet, Frame, PageInv, CowInv,
      CowAt, FaultInv, FaultAt, GrowInv, GrowAt, UnmapInv, UnmapAt, ForkInv, ForkAt, InKalloc,
      InKfree
  <2> QED BY <2>1, ExtentQuietStep
<1> QED
  BY <1>4, <1>5, <1>6, <1>7, <1>8, <1>9, <1>10, <1>11, <1>12, <1>13, <1>14, <1>15, <1>16, <1>17,
    <1>18, <1>19, <1>20, <1>21, <1>22, <1>23, <1>24, <1>25, <1>26, <1>27, <1>28, <1>29, <1>30,
    <1>31, <1>32, <1>33, <1>34, <1>35, <1>36, <1>37, <1>38, <1>39, <1>40, <1>41, <1>42, <1>43,
    <1>44, <1>45, <1>46, <1>47, <1>48, <1>49, <1>50, <1>51, <1>52, <1>53, <1>54, <1>55, <1>60,
    <1>61, <1>62 DEF Step, Kalloc, Kfree, Krefinc, UserAccess, Cowhandler, Vmfault, CopyFromUser,
    CopyToUser, Sbrk, Unmap, Fork, ExitWait

-----------------------------------------------------------------------------
(* The theorems. *)

\* A step of any thread keeps the whole control invariant.
LEMMA ControlStep ==
  ASSUME TypeOK, ControlInv, NEW p \in Proc, Step(p)
  PROVE  ControlInv'
<1>1. LockInv' BY LockStep
<1>2. PteInv' BY PteStep
<1>3. TableInv' BY TableStep
<1>4. ThreadInv'
  <2>1. SUFFICES ASSUME NEW q \in Proc PROVE Thread(q)' BY DEF ThreadInv
  <2>2. CASE q = p BY <2>2, ThreadStep
  <2>3. CASE q # p BY <2>3, OthersKeep
  <2> QED BY <2>2, <2>3
<1>5. ExtentInv' BY ExtentStep
<1> QED BY <1>1, <1>2, <1>3, <1>4, <1>5 DEF ControlInv

\* The first process's address space at boot is typed.
LEMMA InitType ==
  ASSUME Init
  PROVE  TypeOK
<1>1. PICK f \in [0 .. (InitSz - 1) -> Page] :
        pt = [e \in Proc \X Va |->
                IF e[1] = InitProc /\ e[2] < InitSz
                THEN [pa |-> f[e[2]], w |-> e[2] >= TextSz, cow |-> FALSE]
                ELSE Unmapped]
  BY DEF Init
<1>2. pt \in [Proc \X Va -> PTE]
  <2>1. SUFFICES ASSUME NEW q \in Proc, NEW v \in Va
                 PROVE  (IF q = InitProc /\ v < InitSz
                         THEN [pa |-> f[v], w |-> v >= TextSz, cow |-> FALSE]
                         ELSE Unmapped) \in PTE
    BY <1>1
  <2>2. CASE q = InitProc /\ v < InitSz
    <3>1. v \in 0 .. (InitSz - 1) BY <2>2, SizeAssumption DEF Va
    <3> QED BY <2>2, <3>1 DEF PTE
  <2>3. CASE ~(q = InitProc /\ v < InitSz) BY <2>3 DEF PTE, Unmapped
  <2> QED BY <2>2, <2>3
<1>3. refcnt \in [Page -> Nat] /\ freelist \in [Page -> Nat] /\ data \in [Page -> Data]
  BY DEF Init, Data
<1>4. k \in [Proc -> Frame]
  <2>1. \A q \in Proc : Idle(q, "user") \in Frame /\ Idle(q, "off") \in Frame BY IdleFrame
  <2> QED BY <2>1 DEF Init
<1>5. sz \in [Proc -> 0 .. NVa] BY SizeAssumption DEF Init
<1> QED BY <1>2, <1>3, <1>4, <1>5 DEF Init, TypeOK

\* At boot one thread runs, in user mode, on an address space that ends at sz.
LEMMA InitControl ==
  ASSUME Init
  PROVE  ControlInv
<1>1. k = [q \in Proc |-> Idle(q, IF q = InitProc THEN "user" ELSE "off")] /\ rlock = NoProc
  BY DEF Init
<1>2. \A q \in Proc : k[q].pc = (IF q = InitProc THEN "user" ELSE "off")
  BY <1>1 DEF Idle
<1>3. \A q \in Proc : k[q].tgt = q /\ k[q].uret = "user" /\ k[q].pg = NoPage
  BY <1>1 DEF Idle
<1>4. LockInv BY <1>1, <1>2, ProcAssumption DEF LockInv
<1>5. TableInv BY <1>2, <1>3 DEF TableInv, Init
<1>6. ThreadInv
  BY <1>2, <1>3 DEF ThreadInv, Thread, PageInv, CowInv, CowAt, FaultInv, FaultAt, GrowInv, GrowAt,
    UnmapInv, UnmapAt, ForkInv, ForkAt, InKalloc, InKfree
<1>7. PICK f \in [0 .. (InitSz - 1) -> Page] :
        pt = [e \in Proc \X Va |->
                IF e[1] = InitProc /\ e[2] < InitSz
                THEN [pa |-> f[e[2]], w |-> e[2] >= TextSz, cow |-> FALSE]
                ELSE Unmapped]
  BY DEF Init
<1>8. PteInv
  <2>1. SUFFICES ASSUME NEW q \in Proc, NEW v \in Va
                 PROVE  /\ pt[<<q, v>>].w \/ pt[<<q, v>>].cow => pt[<<q, v>>].pa # NoPage
                        /\ ~(pt[<<q, v>>].w /\ pt[<<q, v>>].cow)
    BY DEF PteInv
  <2>2. CASE q = InitProc /\ v < InitSz
    <3>1. f[v] \in Page BY <2>2, SizeAssumption DEF Va
    <3>2. pt[<<q, v>>] = [pa |-> f[v], w |-> v >= TextSz, cow |-> FALSE] BY <1>7, <2>2
    <3> QED BY <3>1, <3>2, PageAssumption
  <2>3. CASE ~(q = InitProc /\ v < InitSz)
    <3>1. pt[<<q, v>>] = Unmapped BY <1>7, <2>3
    <3> QED BY <3>1 DEF Unmapped
  <2> QED BY <2>2, <2>3
<1>9. ExtentInv
  <2>1. SUFFICES ASSUME NEW q \in Proc PROVE Extent(q) BY DEF ExtentInv
  <2>2. sz[q] = (IF q = InitProc THEN InitSz ELSE 0) BY DEF Init
  <2>3. Empty(q, sz[q])
    <3>1. SUFFICES ASSUME NEW v \in Va, v >= sz[q] PROVE pt[<<q, v>>].pa = NoPage BY DEF Empty
    <3>2. ~(q = InitProc /\ v < InitSz) BY <2>2, <3>1, SizeAssumption DEF Va
    <3>3. pt[<<q, v>>] = Unmapped BY <1>7, <3>2
    <3> QED BY <3>3 DEF Unmapped
  <2>4. state[q] = (IF q = InitProc THEN "live" ELSE "unused") BY DEF Init
  <2> QED BY <2>2, <2>3, <2>4 DEF Extent
<1> QED BY <1>4, <1>5, <1>6, <1>8, <1>9 DEF ControlInv

\* A step that changes nothing keeps everything.
LEMMA Stutter ==
  ASSUME TypeOK, ControlInv, UNCHANGED vars
  PROVE  TypeOK' /\ ControlInv'
<1>1. TypeOK' BY DEF TypeOK, vars
<1>2. LockInv' /\ PteInv' /\ TableInv' BY DEF vars, ControlInv, LockInv, PteInv, TableInv
<1>3. ThreadInv'
  BY DEF vars, ControlInv, ThreadInv, Thread, PageInv, CowInv, CowAt, FaultInv, FaultAt, GrowInv,
    GrowAt, UnmapInv, UnmapAt, ForkInv, ForkAt, InKalloc, InKfree, Empty
<1>4. ExtentInv' BY DEF vars, ControlInv, ExtentInv, Extent, GrowAt, InKalloc, Empty
<1> QED BY <1>1, <1>2, <1>3, <1>4 DEF ControlInv

\* The inductive invariant: the types, and what every thread knows at its label.
THEOREM ControlCorrect == Spec => [](TypeOK /\ ControlInv)
<1>1. Init => TypeOK /\ ControlInv BY InitType, InitControl
<1>2. TypeOK /\ ControlInv /\ [Next]_vars => (TypeOK /\ ControlInv)'
  <2> SUFFICES ASSUME TypeOK, ControlInv, [Next]_vars PROVE (TypeOK /\ ControlInv)' OBVIOUS
  <2>1. CASE Next BY <2>1, TypeStep, ControlStep DEF Next
  <2>2. CASE UNCHANGED vars BY <2>2, Stutter
  <2> QED BY <2>1, <2>2
<1> QED BY <1>1, <1>2, PTL DEF Spec

\* Every variable of the allocator and the page tables stays in its range: no
\* count goes below zero and no thread leaves the labels of its functions,
\* whatever the number of processes, frames and pages.
THEOREM TypeCorrect == Spec => []TypeOK
BY ControlCorrect, PTL

\* refcnt.lock excludes: two threads are never both between the read and the
\* write of a count in krefinc or kfree.
THEOREM LockExcludes ==
  Spec => [](\A p, q \in Proc :
               {k[p].pc, k[q].pc} \subseteq {"dec_w", "inc_w"} => p = q)
<1>1. ControlInv => \A p, q \in Proc :
        {k[p].pc, k[q].pc} \subseteq {"dec_w", "inc_w"} => p = q
  BY DEF ControlInv, LockInv
<1> QED BY <1>1, ControlCorrect, PTL

-----------------------------------------------------------------------------
(* What refers to a frame. *)

\* What each entry refers to, what each thread refers to, and what each thread
\* is taking from or giving back to the free list.
Entries == [e \in Proc \X Va |-> IF Counted(e) THEN pt[e].pa ELSE NoPage]

Holds(t) == \/ t.pc \in {"cow_copy", "cow_remap", "grow_map", "fault_map"}
            \/ t.pc \in {"dec", "dec_w"} /\ t.ret # "clear"

Hands == [q \in Proc |-> IF Holds(k[q]) THEN k[q].pg ELSE NoPage]

Ways == [q \in Proc |-> IF k[q].pc \in {"kset", "push"} THEN k[q].pg ELSE NoPage]

Count(f, S, a) == Cardinality({x \in S : f[x] = a})

Is(x, a) == IF x = a THEN 1 ELSE 0

-----------------------------------------------------------------------------
(* Counting. *)

\* f and g agree on the finite set S but for x.
Differ(f, g, S, x) == IsFiniteSet(S) /\ x \in S /\ \A y \in S : y # x => g[y] = f[y]

\* Replacing the value of a function at one point changes a count by at most one.
LEMMA OnePoint ==
  ASSUME NEW S, NEW f, NEW g, NEW x, NEW a, Differ(f, g, S, x)
  PROVE  /\ Count(f, S, a) \in Nat /\ Count(g, S, a) \in Nat
         /\ Count(g, S, a) = Count(f, S, a) - Is(f[x], a) + Is(g[x], a)
<1> DEFINE R == {y \in S : y # x /\ f[y] = a}
           F == {y \in S : f[y] = a}
           G == {y \in S : g[y] = a}
<1>0. IsFiniteSet(S) /\ x \in S /\ \A y \in S : y # x => g[y] = f[y] BY DEF Differ
<1>1. R \in SUBSET S /\ x \notin R OBVIOUS
<1>2. IsFiniteSet(R) BY <1>0, <1>1, FS_Subset
<1>3. Cardinality(R) \in Nat BY <1>2, FS_CardinalityType
<1>4. Cardinality(R \union {x}) = Cardinality(R) + 1 BY <1>1, <1>2, FS_AddElement
<1>5. F = IF f[x] = a THEN R \union {x} ELSE R BY <1>0
<1>6. G = IF g[x] = a THEN R \union {x} ELSE R BY <1>0
<1>7. Cardinality(F) = Cardinality(R) + Is(f[x], a)
  <2>1. CASE f[x] = a
    <3>1. F = R \union {x} BY <1>5, <2>1
    <3> QED BY <1>4, <2>1, <3>1 DEF Is
  <2>2. CASE f[x] # a
    <3>1. F = R BY <1>5, <2>2
    <3> QED BY <1>3, <2>2, <3>1 DEF Is
  <2> QED BY <2>1, <2>2
<1>8. Cardinality(G) = Cardinality(R) + Is(g[x], a)
  <2>1. CASE g[x] = a
    <3>1. G = R \union {x} BY <1>6, <2>1
    <3> QED BY <1>4, <2>1, <3>1 DEF Is
  <2>2. CASE g[x] # a
    <3>1. G = R BY <1>6, <2>2
    <3> QED BY <1>3, <2>2, <3>1 DEF Is
  <2> QED BY <2>1, <2>2
<1>9. Is(f[x], a) \in {0, 1} /\ Is(g[x], a) \in {0, 1} BY DEF Is
<1> HIDE DEF R
<1> QED BY <1>3, <1>7, <1>8, <1>9 DEF Count

\* A point where a function has a value is counted.
LEMMA OneCounts ==
  ASSUME NEW S, IsFiniteSet(S), NEW f, NEW x \in S, NEW a, f[x] = a
  PROVE  Count(f, S, a) \in Nat /\ Count(f, S, a) >= 1
<1>1. {y \in S : f[y] = a} \in SUBSET S /\ {y \in S : f[y] = a} # {} OBVIOUS
<1>2. IsFiniteSet({y \in S : f[y] = a}) BY <1>1, FS_Subset
<1>3. Cardinality({y \in S : f[y] = a}) \in Nat BY <1>2, FS_CardinalityType
<1>4. Cardinality({y \in S : f[y] = a}) # 0 BY <1>1, <1>2, FS_EmptySet
<1> QED BY <1>3, <1>4 DEF Count

\* Two points with the same value count twice.
LEMMA TwoCount ==
  ASSUME NEW S, IsFiniteSet(S), NEW f, NEW x \in S, NEW y \in S, x # y, NEW a, f[x] = a, f[y] = a
  PROVE  Count(f, S, a) \in Nat /\ Count(f, S, a) >= 2
<1> DEFINE F == {z \in S : f[z] = a}
<1>1. F \in SUBSET S /\ F \ {x} \in SUBSET S OBVIOUS
<1>2. IsFiniteSet(F) /\ IsFiniteSet(F \ {x}) BY <1>1, FS_Subset
<1>3. Cardinality(F) \in Nat /\ Cardinality(F \ {x}) \in Nat BY <1>2, FS_CardinalityType
<1>4. x \in F OBVIOUS
<1>5. Cardinality(F \ {x}) = Cardinality(F) - 1 BY <1>2, <1>4, FS_RemoveElement
<1>6. y \in F \ {x} OBVIOUS
<1>7. Cardinality(F \ {x}) # 0 BY <1>2, <1>6, FS_EmptySet
<1> HIDE DEF F
<1>8. Cardinality(F) >= 2 BY <1>3, <1>5, <1>7
<1> QED BY <1>3, <1>8 DEF Count, F

\* There are finitely many entries and threads.
LEMMA Finite == IsFiniteSet(Proc \X Va) /\ IsFiniteSet(Proc)
<1>1. IsFiniteSet(Va) BY SizeAssumption, FS_Interval DEF Va
<1> QED BY <1>1, ProcAssumption, FS_Product

\* Where a count is zero, no point has the value.
LEMMA NoneCounts ==
  ASSUME NEW S, IsFiniteSet(S), NEW f, NEW a
  PROVE  Count(f, S, a) \in Nat /\ (Count(f, S, a) = 0 <=> {x \in S : f[x] = a} = {})
<1>1. {y \in S : f[y] = a} \in SUBSET S OBVIOUS
<1>2. IsFiniteSet({y \in S : f[y] = a}) BY <1>1, FS_Subset
<1>3. Cardinality({y \in S : f[y] = a}) \in Nat BY <1>2, FS_CardinalityType
<1> QED BY <1>2, <1>3, FS_EmptySet DEF Count

-----------------------------------------------------------------------------
(* The exactness of counts, in terms of what entries and threads own. *)

CountInv == \A a \in Page :
  /\ refcnt[a] = Count(Entries, Proc \X Va, a) + Count(Hands, Proc, a)
  /\ freelist[a] + Count(Ways, Proc, a) + (IF refcnt[a] = 0 THEN 0 ELSE 1) = 1

\* The sets of owners are those of CowMem.
LEMMA Owners ==
  ASSUME NEW a \in Page
  PROVE  /\ MapRefs(a) = {e \in Proc \X Va : Entries[e] = a}
         /\ HandRefs(a) = {q \in Proc : Hands[q] = a}
         /\ Transit(a) = {q \in Proc : Ways[q] = a}
<1>1. a # NoPage BY PageAssumption
<1>2. MapRefs(a) = {e \in Proc \X Va : Entries[e] = a}
  <2>1. \A e \in Proc \X Va : Entries[e] = IF Counted(e) THEN pt[e].pa ELSE NoPage BY DEF Entries
  <2> QED BY <1>1, <2>1 DEF MapRefs
<1>3. HandRefs(a) = {q \in Proc : Hands[q] = a} BY <1>1 DEF HandRefs, Hands, Holds
<1>4. Transit(a) = {q \in Proc : Ways[q] = a} BY <1>1 DEF Transit, Ways
<1> QED BY <1>2, <1>3, <1>4

\* RefcountExact and PageConserved say what CountInv says.
LEMMA CountsMean == CountInv <=> RefcountExact /\ PageConserved
<1>1. ASSUME NEW a \in Page, refcnt[a] = Count(Entries, Proc \X Va, a) + Count(Hands, Proc, a)
      PROVE  refcnt[a] = 0 <=> MapRefs(a) \union HandRefs(a) = {}
  <2>1. Count(Entries, Proc \X Va, a) \in Nat /\ Count(Hands, Proc, a) \in Nat
    BY Finite, NoneCounts
  <2>2. refcnt[a] = 0 <=> Count(Entries, Proc \X Va, a) = 0 /\ Count(Hands, Proc, a) = 0
    BY <1>1, <2>1
  <2>3. Count(Entries, Proc \X Va, a) = 0 <=> MapRefs(a) = {} BY Finite, NoneCounts, Owners
  <2>4. Count(Hands, Proc, a) = 0 <=> HandRefs(a) = {} BY Finite, NoneCounts, Owners
  <2> QED BY <2>2, <2>3, <2>4
<1>2. \A a \in Page : /\ Count(Entries, Proc \X Va, a) = Cardinality(MapRefs(a))
                      /\ Count(Hands, Proc, a) = Cardinality(HandRefs(a))
                      /\ Count(Ways, Proc, a) = Cardinality(Transit(a))
  BY Owners DEF Count
<1>3. ASSUME CountInv PROVE RefcountExact /\ PageConserved
  <2>1. RefcountExact BY <1>2, <1>3 DEF CountInv, RefcountExact
  <2>2. PageConserved BY <1>1, <1>2, <1>3 DEF CountInv, PageConserved
  <2> QED BY <2>1, <2>2
<1>4. ASSUME RefcountExact, PageConserved PROVE CountInv
  <2>1. \A a \in Page : refcnt[a] = Count(Entries, Proc \X Va, a) + Count(Hands, Proc, a)
    BY <1>2, <1>4 DEF RefcountExact
  <2> QED BY <1>1, <1>2, <1>4, <2>1 DEF CountInv, PageConserved
<1> QED BY <1>3, <1>4

-----------------------------------------------------------------------------
(* What a step of thread p does to what the others own. *)

\* Frame t keeps entry e from counting.
LagAt(t, e) == /\ t.pc \in {"inc", "inc_w", "clear"} \/ (t.pc = "push" /\ t.ret = "clear")
               /\ e = <<t.tgt, t.va>>

\* The other threads stay where they are, but for a child that starts.
LEMMA OthersStay ==
  ASSUME TypeOK, ControlInv, NEW p \in Proc, Step(p), NEW q \in Proc, q # p
  PROVE  \/ k'[q] = k[q]
         \/ k[q].pc = "off" /\ k[q].pg = NoPage /\ k'[q] = Idle(q, "user")
<1>1. Footprint(p) /\ k[p].tgt \in Proc BY FootprintStep, Fields
<1>2. CASE q # k[p].tgt BY <1>1, <1>2 DEF Footprint
<1>3. CASE q = k[p].tgt
  <2>1. k[q].pc = "off" BY <1>3, TargetOff
  <2>2. k[q].pg = NoPage BY <2>1 DEF ControlInv, ThreadInv, Thread, PageInv
  <2> QED BY <1>1, <1>3, <2>1, <2>2 DEF Footprint
<1> QED BY <1>2, <1>3

\* Their references do not change, and they keep the same entries from counting.
LEMMA OthersOwn ==
  ASSUME TypeOK, ControlInv, NEW p \in Proc, Step(p), NEW q \in Proc, q # p
  PROVE  /\ Hands'[q] = Hands[q] /\ Ways'[q] = Ways[q]
         /\ \A e : LagAt(k'[q], e) <=> LagAt(k[q], e)
<1>1. CASE k'[q] = k[q] BY <1>1 DEF Hands, Ways
<1>2. CASE k[q].pc = "off" /\ k[q].pg = NoPage /\ k'[q] = Idle(q, "user")
  <2>1. k'[q].pc = "user" BY <1>2 DEF Idle
  <2>2. \A e : ~LagAt(k'[q], e) /\ ~LagAt(k[q], e) BY <1>2, <2>1 DEF LagAt
  <2> QED BY <1>2, <2>1, <2>2 DEF Hands, Ways, Holds
<1> QED BY <1>1, <1>2, OthersStay

\* An entry counts unless some thread keeps it from counting.
LEMMA CountedLag ==
  ASSUME NEW e
  PROVE  /\ Counted(e) <=> \A q \in Proc : ~LagAt(k[q], e)
         /\ Counted(e)' <=> \A q \in Proc : ~LagAt(k'[q], e)
BY DEF Counted, Lag, LagAt

\* The entries of the tables that thread p works on are kept from counting by
\* p alone.
LEMMA OwnEntry ==
  ASSUME TypeOK, ControlInv, NEW p \in Proc, Step(p), NEW t \in {p, k[p].tgt}, NEW v \in Va
  PROVE  /\ Entries[<<t, v>>] = IF LagAt(k[p], <<t, v>>) THEN NoPage ELSE pt[<<t, v>>].pa
         /\ Entries'[<<t, v>>] = IF LagAt(k'[p], <<t, v>>) THEN NoPage ELSE pt'[<<t, v>>].pa
<1>1. t \in Proc BY Fields
<1>2. ASSUME NEW q \in Proc, q # p PROVE ~LagAt(k[q], <<t, v>>)
  <2>1. CASE k[q].pc = "off" BY <2>1 DEF LagAt
  <2>2. CASE k[q].pc # "off"
    <3>1. k[p].pc # "off" BY Awake
    <3>2. k[q].tgt # p /\ k[q].tgt # k[p].tgt BY <1>2, <2>2, <3>1, Disjoint
    <3> QED BY <3>2 DEF LagAt
  <2> QED BY <2>1, <2>2
<1>3. \A q \in Proc : q # p => ~LagAt(k'[q], <<t, v>>) BY <1>2, OthersOwn
<1>4. Counted(<<t, v>>) <=> ~LagAt(k[p], <<t, v>>) BY <1>2, CountedLag
<1>5. Counted(<<t, v>>)' <=> ~LagAt(k'[p], <<t, v>>) BY <1>3, CountedLag
<1> QED BY <1>1, <1>4, <1>5 DEF Entries

\* The other entries keep their frames and go on counting.
LEMMA OtherEntry ==
  ASSUME TypeOK, ControlInv, NEW p \in Proc, Step(p), NEW e \in Proc \X Va,
         pt'[e].pa = pt[e].pa, LagAt(k'[p], e) <=> LagAt(k[p], e)
  PROVE  Entries'[e] = Entries[e]
<1>1. \A q \in Proc : LagAt(k'[q], e) <=> LagAt(k[q], e) BY OthersOwn
<1>2. Counted(e)' <=> Counted(e) BY <1>1, CountedLag
<1> QED BY <1>2 DEF Entries

-----------------------------------------------------------------------------
(* Steps that change no reference. *)

Quiet(p) ==
  /\ UNCHANGED <<refcnt, freelist, pt>>
  /\ \A e : LagAt(k'[p], e) <=> LagAt(k[p], e)
  /\ Hands'[p] = Hands[p] /\ Ways'[p] = Ways[p]

\* The steps that change a count, the free list or a page table.
Moving(p) == \/ KallocPop(p) \/ KallocSetCount(p) \/ KfreeWrite(p) \/ KfreePush(p) \/ KrefincWrite(p)
             \/ CowSole(p) \/ CowRemap(p) \/ FaultMap(p) \/ GrowMap(p) \/ UnmapClear(p)
             \/ ForkPage(p) \/ ForkMapFail(p)

\* Every other action moves no reference: faults and system calls that begin or
\* fail, reads under refcnt.lock, stores, exit and the ends of fork, sbrk and wait.
LEMMA QuietStep ==
  ASSUME TypeOK, ControlInv, OneRefInv, NEW p \in Proc, Step(p), ~Moving(p)
  PROVE  Quiet(p) /\ OneRef(p)'
<1>1. /\ k \in [Proc -> Frame] /\ k[p] \in Frame /\ k[p].tgt \in Proc
      /\ (k[p].tgt # p => k[k[p].tgt].pc = "off" /\ k[k[p].tgt].tgt = k[p].tgt)
  BY Fields, TargetOff DEF TypeOK
<1>2. PageInv(p) /\ OneRef(p) BY DEF ControlInv, ThreadInv, Thread, OneRefInv
<1> USE <1>1, <1>2 DEF Quiet, OneRef, Become, mem, tab, LagAt, Hands, Ways, Holds, PageInv
<1>3. CASE KallocEmpty(p) BY <1>3 DEF KallocEmpty
<1>4. CASE KfreeRead(p) BY <1>4 DEF KfreeRead
<1>5. CASE KrefincRead(p) BY <1>5 DEF KrefincRead
<1>6. ASSUME NEW v \in Va, NEW d \in Val, UserStore(p, v, d) PROVE Quiet(p) /\ OneRef(p)'
  BY <1>6 DEF UserStore
<1>7. ASSUME NEW v \in Va, CowFault(p, v) PROVE Quiet(p) /\ OneRef(p)' BY <1>7 DEF CowFault
<1>8. ASSUME NEW v \in Va, LazyFault(p, v) PROVE Quiet(p) /\ OneRef(p)' BY <1>8 DEF LazyFault
<1>9. ASSUME NEW v \in Va, BadFault(p, v) PROVE Quiet(p) /\ OneRef(p)'
  BY <1>9 DEF BadFault, Leave, Idle
<1>10. ASSUME NEW v \in Va, CopyinFault(p, v) PROVE Quiet(p) /\ OneRef(p)'
  BY <1>10 DEF CopyinFault
<1>11. ASSUME NEW v \in Va, CopyinFail(p, v) PROVE Quiet(p) /\ OneRef(p)'
  BY <1>11 DEF CopyinFail, Leave, Idle
<1>12. ASSUME NEW v \in Va, Copyinstr(p, v) PROVE Quiet(p) /\ OneRef(p)'
  BY <1>12 DEF Copyinstr, Leave, Idle
<1>13. CASE CowGetRef(p) BY <1>13 DEF CowGetRef
<1>14. CASE CowShared(p) BY <1>14 DEF CowShared
<1>15. CASE CowNoMem(p) BY <1>15 DEF CowNoMem, Leave, Idle
<1>16. CASE CowCopy(p) BY <1>16 DEF CowCopy
<1>17. CASE FaultNoMem(p) BY <1>17 DEF FaultNoMem, Leave, Idle, FaultFailed
<1>18. CASE FaultMapFail(p) BY <1>18 DEF FaultMapFail, Freeing, FaultFailed
<1>19. ASSUME NEW v \in Va, Copyout(p, v) PROVE Quiet(p) /\ OneRef(p)' BY <1>19 DEF Copyout
<1>20. CASE CopyoutFault(p) BY <1>20 DEF CopyoutFault
<1>21. ASSUME NEW d \in Val, CopyoutWrite(p, d) PROVE Quiet(p) /\ OneRef(p)'
  BY <1>21 DEF CopyoutWrite, Idle, Unmapping
<1>22. CASE CopyoutFail(p) BY <1>22 DEF CopyoutFail, Leave, Idle
<1>23. CASE SyscallError(p) BY <1>23 DEF SyscallError, Leave, Idle
<1>24. ASSUME NEW n \in 1 .. NVa, SbrkLazy(p, n) PROVE Quiet(p) /\ OneRef(p)'
  BY <1>24 DEF SbrkLazy
<1>25. ASSUME NEW n \in 1 .. NVa, SbrkGrow(p, n) PROVE Quiet(p) /\ OneRef(p)'
  BY <1>25 DEF SbrkGrow
<1>26. ASSUME NEW n \in 1 .. NVa, SbrkShrink(p, n) PROVE Quiet(p) /\ OneRef(p)'
  BY <1>26 DEF SbrkShrink, Unmapping
<1>27. CASE GrowAlloc(p) BY <1>27 DEF GrowAlloc
<1>28. CASE GrowNoMem(p) BY <1>28 DEF GrowNoMem, Unmapping
<1>29. CASE GrowMapFail(p) BY <1>29 DEF GrowMapFail, Unmapping
<1>30. CASE GrowDone(p) BY <1>30 DEF GrowDone, Leave, Idle
<1>31. CASE ShrinkDone(p) BY <1>31 DEF ShrinkDone, UnmapEnd, Leave, Idle
<1>32. CASE GrowUndone(p) BY <1>32 DEF GrowUndone, UnmapEnd, Leave, Idle
<1>33. CASE UnmapSkip(p) BY <1>33 DEF UnmapSkip
<1>34. CASE UnmapFree(p) BY <1>34 DEF UnmapFree
<1>35. ASSUME NEW c \in Proc, ForkStart(p, c) PROVE Quiet(p) /\ OneRef(p)' BY <1>35 DEF ForkStart
<1>36. CASE ForkPanic(p) BY <1>36 DEF ForkPanic
<1>37. CASE ForkDone(p) BY <1>37 DEF ForkDone, Idle
<1>38. CASE ForkFailed(p) BY <1>38 DEF ForkFailed, UnmapEnd, Leave, Idle
<1>39. CASE Exit(p) BY <1>39 DEF Exit, Leave, Idle
<1>40. CASE KExit(p) BY <1>40 DEF KExit, Leave, Idle
<1>41. CASE InitExit(p) BY <1>41 DEF InitExit, Leave, Idle
<1>42. CASE ReapDone(p) BY <1>42 DEF ReapDone, UnmapEnd, Leave, Idle
<1>43. CASE PanicLoop(p) BY <1>43 DEF PanicLoop, vars
<1>44. ASSUME NEW c \in Proc, Wait(p, c) PROVE Quiet(p) /\ OneRef(p)'
  BY <1>44 DEF Wait, Unmapping
<1>45. ASSUME NEW c \in Proc, NEW v \in Va, WaitStatus(p, c, v) PROVE Quiet(p) /\ OneRef(p)'
  BY <1>45 DEF WaitStatus
<1> QED
  BY <1>3, <1>4, <1>5, <1>6, <1>7, <1>8, <1>9, <1>10, <1>11, <1>12, <1>13, <1>14, <1>15, <1>16,
    <1>17, <1>18, <1>19, <1>20, <1>21, <1>22, <1>23, <1>24, <1>25, <1>26, <1>27, <1>28, <1>29,
    <1>30, <1>31, <1>32, <1>33, <1>34, <1>35, <1>36, <1>37, <1>38, <1>39, <1>40, <1>41, <1>42,
    <1>43, <1>44, <1>45 DEF Moving, Step, Kalloc, Kfree, Krefinc, UserAccess, Cowhandler, Vmfault,
    CopyFromUser, CopyToUser, Sbrk, Unmap, Fork, ExitWait

-----------------------------------------------------------------------------
(* The counts. *)

\* A step that leaves every owner what it has keeps the counts.
LEMMA SameOwners ==
  ASSUME TypeOK, ControlInv, CountInv, NEW p \in Proc, Step(p), UNCHANGED <<refcnt, freelist>>,
         \A e \in Proc \X Va : Entries'[e] = Entries[e], Hands'[p] = Hands[p], Ways'[p] = Ways[p]
  PROVE  CountInv'
<1>1. \A q \in Proc : Hands'[q] = Hands[q] /\ Ways'[q] = Ways[q] BY OthersOwn
<1>2. \A a : /\ {e \in Proc \X Va : Entries'[e] = a} = {e \in Proc \X Va : Entries[e] = a}
             /\ {q \in Proc : Hands'[q] = a} = {q \in Proc : Hands[q] = a}
             /\ {q \in Proc : Ways'[q] = a} = {q \in Proc : Ways[q] = a}
  BY <1>1
<1>3. \A a : /\ Count(Entries, Proc \X Va, a)' = Count(Entries, Proc \X Va, a)
             /\ Count(Hands, Proc, a)' = Count(Hands, Proc, a)
             /\ Count(Ways, Proc, a)' = Count(Ways, Proc, a)
  BY <1>2 DEF Count
<1> QED BY <1>3 DEF CountInv

\* The counts of frame a change by what happens to an entry that referred to e0
\* and refers to e1 now, a thread that held h0 and holds h1, and one that was
\* moving w0 and is moving w1.
Ledger(a, e0, e1, h0, h1, w0, w1) ==
  /\ Count(Entries, Proc \X Va, a) \in Nat /\ Count(Hands, Proc, a) \in Nat
  /\ Count(Ways, Proc, a) \in Nat
  /\ Count(Entries, Proc \X Va, a)' = Count(Entries, Proc \X Va, a) - Is(e0, a) + Is(e1, a)
  /\ Count(Hands, Proc, a)' = Count(Hands, Proc, a) - Is(h0, a) + Is(h1, a)
  /\ Count(Ways, Proc, a)' = Count(Ways, Proc, a) - Is(w0, a) + Is(w1, a)

\* What a thread holds and moves depends on where it is.
LEMMA Possessions ==
  ASSUME NEW q \in Proc
  PROVE  /\ Hands[q] = IF Holds(k[q]) THEN k[q].pg ELSE NoPage
         /\ Hands'[q] = IF Holds(k'[q]) THEN k'[q].pg ELSE NoPage
         /\ Ways[q] = IF k[q].pc \in {"kset", "push"} THEN k[q].pg ELSE NoPage
         /\ Ways'[q] = IF k'[q].pc \in {"kset", "push"} THEN k'[q].pg ELSE NoPage
BY DEF Hands, Ways

\* A step changes each count by what happens to one entry and to its own thread.
LEMMA Moved ==
  ASSUME TypeOK, ControlInv, NEW p \in Proc, Step(p), NEW e \in Proc \X Va,
         \A f \in Proc \X Va : f # e => Entries'[f] = Entries[f], NEW a \in Page
  PROVE  Ledger(a, Entries[e], Entries'[e], Hands[p], Hands'[p], Ways[p], Ways'[p])
<1>1. \A q \in Proc : q # p => Hands'[q] = Hands[q] /\ Ways'[q] = Ways[q] BY OthersOwn
<1>2. /\ Count(Entries, Proc \X Va, a) \in Nat
      /\ Count(Entries', Proc \X Va, a) =
              Count(Entries, Proc \X Va, a) - Is(Entries[e], a) + Is(Entries'[e], a)
  <2>1. Differ(Entries, Entries', Proc \X Va, e) BY Finite DEF Differ
  <2> QED BY <2>1, OnePoint
<1>3. /\ Count(Hands, Proc, a) \in Nat
      /\ Count(Hands', Proc, a) = Count(Hands, Proc, a) - Is(Hands[p], a) + Is(Hands'[p], a)
  <2>1. Differ(Hands, Hands', Proc, p) BY <1>1, Finite DEF Differ
  <2> QED BY <2>1, OnePoint
<1>4. /\ Count(Ways, Proc, a) \in Nat
      /\ Count(Ways', Proc, a) = Count(Ways, Proc, a) - Is(Ways[p], a) + Is(Ways'[p], a)
  <2>1. Differ(Ways, Ways', Proc, p) BY <1>1, Finite DEF Differ
  <2> QED BY <2>1, OnePoint
<1>5. /\ Count(Entries, Proc \X Va, a)' = Count(Entries', Proc \X Va, a)
      /\ Count(Hands, Proc, a)' = Count(Hands', Proc, a)
      /\ Count(Ways, Proc, a)' = Count(Ways', Proc, a)
  BY DEF Count
<1> QED BY <1>2, <1>3, <1>4, <1>5 DEF Ledger

\* The same for a step that leaves the entries alone.
LEMMA HandMoved ==
  ASSUME TypeOK, ControlInv, NEW p \in Proc, Step(p),
         \A f \in Proc \X Va : Entries'[f] = Entries[f], NEW a \in Page
  PROVE  Ledger(a, NoPage, NoPage, Hands[p], Hands'[p], Ways[p], Ways'[p])
<1>1. \A q \in Proc : q # p => Hands'[q] = Hands[q] /\ Ways'[q] = Ways[q] BY OthersOwn
<1>2. {x \in Proc \X Va : Entries'[x] = a} = {x \in Proc \X Va : Entries[x] = a} OBVIOUS
<1>3. /\ Count(Hands, Proc, a) \in Nat
      /\ Count(Hands', Proc, a) = Count(Hands, Proc, a) - Is(Hands[p], a) + Is(Hands'[p], a)
  <2>1. Differ(Hands, Hands', Proc, p) BY <1>1, Finite DEF Differ
  <2> QED BY <2>1, OnePoint
<1>4. /\ Count(Ways, Proc, a) \in Nat
      /\ Count(Ways', Proc, a) = Count(Ways, Proc, a) - Is(Ways[p], a) + Is(Ways'[p], a)
  <2>1. Differ(Ways, Ways', Proc, p) BY <1>1, Finite DEF Differ
  <2> QED BY <2>1, OnePoint
<1>5. /\ Count(Entries, Proc \X Va, a)' = Count(Entries, Proc \X Va, a)
      /\ Count(Hands, Proc, a)' = Count(Hands', Proc, a)
      /\ Count(Ways, Proc, a)' = Count(Ways', Proc, a)
  BY <1>2 DEF Count
<1>6. Count(Entries, Proc \X Va, a) \in Nat /\ NoPage # a
  BY Finite, NoneCounts, PageAssumption
<1> QED BY <1>3, <1>4, <1>5, <1>6 DEF Ledger, Is

\* A frame that some thread takes or gives back is neither free nor referenced.
LEMMA OnTheWay ==
  ASSUME TypeOK, CountInv, NEW p \in Proc, NEW a \in Page, Ways[p] = a
  PROVE  /\ refcnt[a] = 0 /\ freelist[a] = 0 /\ Count(Ways, Proc, a) = 1
         /\ Count(Entries, Proc \X Va, a) = 0 /\ Count(Hands, Proc, a) = 0
<1>1. Count(Ways, Proc, a) \in Nat /\ Count(Ways, Proc, a) >= 1 BY Finite, OneCounts
<1>2. Count(Entries, Proc \X Va, a) \in Nat /\ Count(Hands, Proc, a) \in Nat
  BY Finite, NoneCounts
<1>3. refcnt[a] \in Nat /\ freelist[a] \in Nat BY DEF TypeOK
<1>4. /\ refcnt[a] = Count(Entries, Proc \X Va, a) + Count(Hands, Proc, a)
      /\ freelist[a] + Count(Ways, Proc, a) + (IF refcnt[a] = 0 THEN 0 ELSE 1) = 1
  BY DEF CountInv
<1> QED BY <1>1, <1>2, <1>3, <1>4

\* A frame that a thread or an entry owns has a positive count.
LEMMA OwnedCounts ==
  ASSUME TypeOK, CountInv, NEW a \in Page,
         (\E q \in Proc : Hands[q] = a) \/ (\E e \in Proc \X Va : Entries[e] = a)
  PROVE  refcnt[a] >= 1
<1>1. Count(Entries, Proc \X Va, a) \in Nat /\ Count(Hands, Proc, a) \in Nat
  BY Finite, NoneCounts
<1>2. refcnt[a] = Count(Entries, Proc \X Va, a) + Count(Hands, Proc, a) BY DEF CountInv
<1>3. CASE \E q \in Proc : Hands[q] = a
  <2>1. Count(Hands, Proc, a) >= 1 BY <1>3, Finite, OneCounts
  <2> QED BY <1>1, <1>2, <2>1
<1>4. CASE \E e \in Proc \X Va : Entries[e] = a
  <2>1. Count(Entries, Proc \X Va, a) >= 1 BY <1>4, Finite, OneCounts
  <2> QED BY <1>1, <1>2, <2>1
<1> QED BY <1>3, <1>4

-----------------------------------------------------------------------------
(* What each moving step does to the owners. *)

OneEntry(e, x, y) ==
  /\ e \in Proc \X Va /\ Entries[e] = x /\ Entries'[e] = y
  /\ \A f \in Proc \X Va : f # e => Entries'[f] = Entries[f]

SameEntries == \A f \in Proc \X Va : Entries'[f] = Entries[f]

HandWay(p, h0, h1, w0, w1) ==
  Hands[p] = h0 /\ Hands'[p] = h1 /\ Ways[p] = w0 /\ Ways'[p] = w1

\* kalloc takes a frame off the list.
LEMMA PopEffect ==
  ASSUME TypeOK, ControlInv, NEW p \in Proc, Step(p), KallocPop(p)
  PROVE  /\ SameEntries /\ UNCHANGED <<refcnt, pt>>
         /\ \E b \in Page : /\ freelist[b] > 0 /\ freelist' = [freelist EXCEPT ![b] = @ - 1]
                            /\ HandWay(p, NoPage, NoPage, NoPage, b)
<1>1. k \in [Proc -> Frame] /\ k[p] \in Frame BY Fields DEF TypeOK
<1>2. PICK b \in Page : /\ freelist[b] > 0 /\ freelist' = [freelist EXCEPT ![b] = @ - 1]
                        /\ k'[p] = [k[p] EXCEPT !.pc = "kset", !.pg = b]
  BY <1>1 DEF KallocPop, Become
<1>3. \A e : ~LagAt(k[p], e) /\ ~LagAt(k'[p], e) BY <1>1, <1>2 DEF KallocPop, LagAt
<1>4. SameEntries BY <1>3, OtherEntry DEF KallocPop, tab, SameEntries
<1>5. HandWay(p, NoPage, NoPage, NoPage, b)
  BY <1>1, <1>2, Possessions DEF KallocPop, Holds, Frame, HandWay
<1> QED BY <1>2, <1>4, <1>5 DEF KallocPop, tab

\* The frame comes into kalloc's hand with its count.
LEMMA SetCountEffect ==
  ASSUME TypeOK, ControlInv, NEW p \in Proc, Step(p), KallocSetCount(p)
  PROVE  /\ SameEntries /\ UNCHANGED <<freelist, pt>>
         /\ k[p].pg \in Page /\ refcnt' = [refcnt EXCEPT ![k[p].pg] = 1]
         /\ HandWay(p, NoPage, k[p].pg, k[p].pg, NoPage) /\ k'[p].pg = k[p].pg
<1>1. k \in [Proc -> Frame] /\ k[p] \in Frame /\ PageInv(p)
  BY Fields DEF TypeOK, ControlInv, ThreadInv, Thread
<1>2. /\ k[p].pg \in Page /\ k[p].pc = "kset" /\ k[p].ret \in {"cow_copy", "grow_map", "fault_map"}
      /\ k'[p] = [k[p] EXCEPT !.pc = k[p].ret]
  BY <1>1 DEF KallocSetCount, PageInv, Become
<1>3. \A e : ~LagAt(k[p], e) /\ ~LagAt(k'[p], e) BY <1>1, <1>2 DEF LagAt
<1>4. SameEntries BY <1>3, OtherEntry DEF KallocSetCount, tab, SameEntries
<1>5. HandWay(p, NoPage, k[p].pg, k[p].pg, NoPage) /\ k'[p].pg = k[p].pg
  BY <1>1, <1>2, Possessions DEF Holds, Frame, HandWay
<1> QED BY <1>2, <1>4, <1>5 DEF KallocSetCount, tab

\* kfree gives a reference back: its own, or that of the entry that uvmunmap is
\* about to clear.  The last one puts the frame on its way to the list.
LEMMA DecEffect ==
  ASSUME TypeOK, ControlInv, NEW p \in Proc, Step(p), KfreeWrite(p)
  PROVE  /\ UNCHANGED <<freelist, pt>> /\ k[p].pg \in Page /\ refcnt[k[p].pg] >= 1
         /\ refcnt' = [refcnt EXCEPT ![k[p].pg] = refcnt[k[p].pg] - 1]
         /\ \E w \in {NoPage, k[p].pg} :
              /\ w = (IF refcnt[k[p].pg] > 1 THEN NoPage ELSE k[p].pg)
              /\ \/ SameEntries /\ HandWay(p, k[p].pg, NoPage, NoPage, w)
                 \/ /\ OneEntry(<<k[p].tgt, k[p].va>>, k[p].pg, NoPage)
                    /\ HandWay(p, NoPage, NoPage, NoPage, w)
<1>1. /\ k \in [Proc -> Frame] /\ k[p] \in Frame /\ k[p].tgt \in Proc
      /\ PageInv(p) /\ UnmapInv(p) /\ LockInv
  BY Fields DEF TypeOK, ControlInv, ThreadInv, Thread
<1>2. /\ k[p].pg \in Page /\ k[p].pc = "dec_w" /\ k[p].tmp = refcnt[k[p].pg] /\ k[p].tmp >= 1
      /\ k[p].ret \in {"user", "die", "err", "unmap", "clear"}
      /\ k'[p] = IF k[p].tmp > 1 THEN [k[p] EXCEPT !.pc = k[p].ret, !.tmp = 0, !.pg = NoPage]
                                 ELSE [k[p] EXCEPT !.pc = "push", !.tmp = 0]
  BY <1>1 DEF KfreeWrite, PageInv, LockInv, Become
<1> DEFINE w == IF k[p].tmp > 1 THEN NoPage ELSE k[p].pg
<1>3. UNCHANGED <<freelist, pt>> /\ refcnt' = [refcnt EXCEPT ![k[p].pg] = refcnt[k[p].pg] - 1]
  BY <1>2 DEF KfreeWrite, tab
<1>4. w = IF refcnt[k[p].pg] > 1 THEN NoPage ELSE k[p].pg BY <1>2
<1>5. CASE k[p].ret # "clear"
  <2>1. \A e : ~LagAt(k[p], e) /\ ~LagAt(k'[p], e) BY <1>1, <1>2, <1>5 DEF LagAt
  <2>2. SameEntries BY <1>3, <2>1, OtherEntry DEF SameEntries
  <2>3. /\ k'[p].pc = (IF k[p].tmp > 1 THEN k[p].ret ELSE "push")
        /\ k'[p].pg = (IF k[p].tmp > 1 THEN NoPage ELSE k[p].pg)
    BY <1>1, <1>2 DEF Frame
  <2>4. HandWay(p, k[p].pg, NoPage, NoPage, w)
    BY <1>2, <1>5, <2>3, Possessions DEF Holds, HandWay
  <2> QED BY <1>2, <1>3, <1>4, <2>2, <2>4
<1>6. CASE k[p].ret = "clear"
  <2>1. k[p].va \in Va /\ pt[<<k[p].tgt, k[p].va>>].pa = k[p].pg
    BY <1>1, <1>2, <1>6, Fields, SizeInVa DEF UnmapInv, UnmapAt, InKfree
  <2> DEFINE e == <<k[p].tgt, k[p].va>>
  <2>2. ~LagAt(k[p], e) /\ LagAt(k'[p], e) BY <1>1, <1>2, <1>6 DEF LagAt
  <2>3. \A f : f # e => ~LagAt(k[p], f) /\ ~LagAt(k'[p], f) BY <1>1, <1>2, <1>6 DEF LagAt
  <2>4. Entries[e] = k[p].pg /\ Entries'[e] = NoPage BY <2>1, <2>2, OwnEntry
  <2>5. e \in Proc \X Va BY <1>1, <2>1
  <2>6. \A f \in Proc \X Va : f # e => Entries'[f] = Entries[f] BY <1>3, <2>3, OtherEntry
  <2>7. OneEntry(e, k[p].pg, NoPage) BY <2>4, <2>5, <2>6 DEF OneEntry
  <2>8. HandWay(p, NoPage, NoPage, NoPage, w)
    BY <1>1, <1>2, <1>6, Possessions DEF Holds, Frame, HandWay
  <2> QED BY <1>2, <1>3, <1>4, <2>7, <2>8
<1> QED BY <1>5, <1>6

\* kfree puts the frame back on the list.
LEMMA PushEffect ==
  ASSUME TypeOK, ControlInv, NEW p \in Proc, Step(p), KfreePush(p)
  PROVE  /\ SameEntries /\ UNCHANGED <<refcnt, pt>>
         /\ k[p].pg \in Page /\ freelist' = [freelist EXCEPT ![k[p].pg] = @ + 1]
         /\ HandWay(p, NoPage, NoPage, k[p].pg, NoPage)
<1>1. k \in [Proc -> Frame] /\ k[p] \in Frame /\ PageInv(p)
  BY Fields DEF TypeOK, ControlInv, ThreadInv, Thread
<1>2. /\ k[p].pg \in Page /\ k[p].pc = "push" /\ k[p].ret \in {"user", "die", "err", "unmap", "clear"}
      /\ k'[p] = [k[p] EXCEPT !.pc = k[p].ret, !.pg = NoPage]
  BY <1>1 DEF KfreePush, PageInv, Become
<1>3. \A e : LagAt(k'[p], e) <=> LagAt(k[p], e) BY <1>1, <1>2 DEF LagAt
<1>4. SameEntries BY <1>3, OtherEntry DEF KfreePush, tab, SameEntries
<1>5. HandWay(p, NoPage, NoPage, k[p].pg, NoPage)
  BY <1>1, <1>2, Possessions DEF Holds, Frame, HandWay
<1> QED BY <1>2, <1>4, <1>5 DEF KfreePush, tab

\* krefinc counts the entry that uvmcopy has mapped for the child; the parent's
\* entry has counted all the time.
LEMMA IncEffect ==
  ASSUME TypeOK, ControlInv, NEW p \in Proc, Step(p), KrefincWrite(p)
  PROVE  /\ UNCHANGED <<freelist, pt>> /\ k[p].pg \in Page
         /\ k[p].tgt # p /\ k[p].tgt \in Proc /\ k[p].va \in Va /\ k[p].pc = "inc_w"
         /\ refcnt' = [refcnt EXCEPT ![k[p].pg] = refcnt[k[p].pg] + 1]
         /\ OneEntry(<<k[p].tgt, k[p].va>>, NoPage, k[p].pg)
         /\ Entries[<<p, k[p].va>>] = k[p].pg
         /\ HandWay(p, NoPage, NoPage, NoPage, NoPage)
<1>1. /\ k \in [Proc -> Frame] /\ k[p] \in Frame /\ k[p].tgt \in Proc
      /\ PageInv(p) /\ ForkInv(p) /\ LockInv
  BY Fields DEF TypeOK, ControlInv, ThreadInv, Thread
<1>2. /\ k[p].pg \in Page /\ k[p].pc = "inc_w" /\ k[p].tmp = refcnt[k[p].pg] /\ k[p].tgt # p
      /\ k[p].va \in Va /\ pt[<<k[p].tgt, k[p].va>>].pa = k[p].pg /\ pt[<<p, k[p].va>>].pa = k[p].pg
      /\ k'[p] = [k[p] EXCEPT !.pc = "fork", !.tmp = 0, !.pg = NoPage, !.va = k[p].va + 1]
  BY <1>1, Fields, SizeInVa DEF KrefincWrite, PageInv, LockInv, ForkInv, ForkAt, Become
<1> DEFINE e == <<k[p].tgt, k[p].va>>
<1>3. LagAt(k[p], e) /\ \A f : ~LagAt(k'[p], f) /\ (f # e => ~LagAt(k[p], f))
  BY <1>1, <1>2 DEF LagAt
<1>4. UNCHANGED <<freelist, pt>> /\ refcnt' = [refcnt EXCEPT ![k[p].pg] = refcnt[k[p].pg] + 1]
  BY <1>2 DEF KrefincWrite, tab
<1>5. Entries[e] = NoPage /\ Entries'[e] = k[p].pg BY <1>2, <1>3, <1>4, OwnEntry
<1>6. Entries[<<p, k[p].va>>] = k[p].pg BY <1>2, <1>3, OwnEntry
<1>7. \A f \in Proc \X Va : f # e => Entries'[f] = Entries[f] BY <1>3, <1>4, OtherEntry
<1>8. OneEntry(e, NoPage, k[p].pg) BY <1>1, <1>2, <1>5, <1>7 DEF OneEntry
<1>9. HandWay(p, NoPage, NoPage, NoPage, NoPage)
  BY <1>1, <1>2, Possessions DEF Holds, Frame, HandWay
<1> QED BY <1>1, <1>2, <1>4, <1>6, <1>8, <1>9

\* cowhandler hands its copy to the entry and takes the reference to the old frame.
LEMMA RemapEffect ==
  ASSUME TypeOK, ControlInv, NEW p \in Proc, Step(p), CowRemap(p)
  PROVE  /\ UNCHANGED <<refcnt, freelist>> /\ k[p].pc = "cow_remap" /\ k[p].va \in Va /\ k[p].pg \in Page
         /\ pt' = [pt EXCEPT ![<<p, k[p].va>>] = Writable(k[p].pg)]
         /\ OneEntry(<<p, k[p].va>>, pt[<<p, k[p].va>>].pa, k[p].pg)
         /\ HandWay(p, k[p].pg, pt[<<p, k[p].va>>].pa, NoPage, NoPage)
<1>1. k \in [Proc -> Frame] /\ pt \in [Proc \X Va -> PTE] /\ PageInv(p) /\ CowInv(p)
  BY DEF TypeOK, ControlInv, ThreadInv, Thread
<1>2. /\ k[p].pc = "cow_remap" /\ k[p].va \in Va /\ k[p].pg \in Page
      /\ k'[p] = Freeing(p, pt[<<p, k[p].va>>].pa, "user")
      /\ pt' = [pt EXCEPT ![<<p, k[p].va>>] = Writable(k[p].pg)]
  BY <1>1 DEF CowRemap, Mappages, Become, CowInv, CowAt, PageInv
<1> DEFINE e == <<p, k[p].va>>
<1>3. \A f : ~LagAt(k[p], f) /\ ~LagAt(k'[p], f) BY <1>1, <1>2 DEF LagAt, Freeing
<1>4. e \in Proc \X Va /\ pt'[e].pa = k[p].pg /\ \A f \in Proc \X Va : f # e => pt'[f] = pt[f]
  BY <1>1, <1>2 DEF Writable
<1>5. Entries[e] = pt[e].pa /\ Entries'[e] = k[p].pg BY <1>2, <1>3, <1>4, OwnEntry
<1>6. HandWay(p, k[p].pg, pt[e].pa, NoPage, NoPage)
  BY <1>1, <1>2, Possessions DEF Holds, Freeing, HandWay
<1>7. \A f \in Proc \X Va : f # e => Entries'[f] = Entries[f] BY <1>3, <1>4, OtherEntry
<1>8. OneEntry(e, pt[e].pa, k[p].pg) BY <1>4, <1>5, <1>7 DEF OneEntry
<1> QED BY <1>2, <1>6, <1>8 DEF CowRemap, mem

\* vmfault and uvmalloc hand a new frame to an entry that had none.
LEMMA MapEffect ==
  ASSUME TypeOK, ControlInv, NEW p \in Proc, Step(p), FaultMap(p) \/ GrowMap(p)
  PROVE  /\ UNCHANGED <<refcnt, freelist>> /\ k[p].pc \in {"fault_map", "grow_map"}
         /\ k[p].va \in Va /\ k[p].pg \in Page /\ pt[<<p, k[p].va>>].pa = NoPage
         /\ pt' = [pt EXCEPT ![<<p, k[p].va>>] = Writable(k[p].pg)]
         /\ k'[p].pc \in {"user", "copyout", "grow"}
         /\ OneEntry(<<p, k[p].va>>, NoPage, k[p].pg)
         /\ HandWay(p, k[p].pg, NoPage, NoPage, NoPage)
<1>1. /\ k \in [Proc -> Frame] /\ k[p] \in Frame /\ pt \in [Proc \X Va -> PTE] /\ sz[p] \in 0 .. NVa
      /\ PageInv(p) /\ FaultInv(p) /\ GrowInv(p)
  BY Fields DEF TypeOK, ControlInv, ThreadInv, Thread
<1>2. /\ k[p].pc \in {"fault_map", "grow_map"} /\ k[p].pg \in Page
      /\ k[p].va \in Va /\ pt[<<p, k[p].va>>].pa = NoPage
  <2>1. CASE FaultMap(p)
    BY <1>1, <2>1, Fields DEF FaultMap, FaultInv, FaultAt, InKalloc
  <2>2. CASE GrowMap(p)
    <3>1. k[p].va \in Va
      BY <1>1, <2>2, Fields, SizeInVa DEF GrowMap, GrowInv, GrowAt, InKalloc
    <3>2. sz[p] <= k[p].va /\ Empty(p, k[p].va)
      BY <1>1, <2>2 DEF GrowMap, GrowInv, GrowAt, InKalloc
    <3> QED BY <1>1, <2>2, <3>1, <3>2, Fields, SizeAssumption DEF GrowMap, Empty, Va
  <2> QED BY <2>1, <2>2
<1>3. /\ k'[p].pc \in {"user", "copyout", "grow"} /\ UNCHANGED <<refcnt, freelist>>
      /\ pt' = [pt EXCEPT ![<<p, k[p].va>>] = Writable(k[p].pg)]
  <2>1. CASE FaultMap(p) BY <1>1, <2>1 DEF FaultMap, Mappages, Become
  <2>2. CASE GrowMap(p) BY <1>1, <2>2 DEF GrowMap, Mappages, Become
  <2> QED BY <2>1, <2>2
<1> DEFINE e == <<p, k[p].va>>
<1>4. \A f : ~LagAt(k[p], f) /\ ~LagAt(k'[p], f) BY <1>1, <1>2, <1>3 DEF LagAt
<1>5. e \in Proc \X Va /\ pt'[e].pa = k[p].pg /\ \A f \in Proc \X Va : f # e => pt'[f] = pt[f]
  BY <1>1, <1>2, <1>3 DEF Writable
<1>6. Entries[e] = NoPage /\ Entries'[e] = k[p].pg BY <1>2, <1>4, <1>5, OwnEntry
<1>7. HandWay(p, k[p].pg, NoPage, NoPage, NoPage)
  BY <1>1, <1>2, <1>3, Possessions DEF Holds, HandWay
<1>8. \A f \in Proc \X Va : f # e => Entries'[f] = Entries[f] BY <1>4, <1>5, OtherEntry
<1>9. OneEntry(e, NoPage, k[p].pg) BY <1>5, <1>6, <1>8 DEF OneEntry
<1> QED BY <1>2, <1>3, <1>7, <1>9

\* The other changes of page tables move no reference: a copy-on-write page made
\* writable, an entry cleared whose reference is gone, an entry shared that krefinc
\* has not counted yet.
LEMMA TableEffect ==
  ASSUME TypeOK, ControlInv, NEW p \in Proc, Step(p),
         CowSole(p) \/ UnmapClear(p) \/ ForkPage(p) \/ ForkMapFail(p)
  PROVE  /\ SameEntries /\ UNCHANGED <<refcnt, freelist>>
         /\ Hands'[p] = Hands[p] /\ Ways'[p] = Ways[p] /\ k[p].va \in Va
<1>1. /\ k \in [Proc -> Frame] /\ k[p] \in Frame /\ k[p].tgt \in Proc /\ pt \in [Proc \X Va -> PTE]
      /\ PageInv(p) /\ CowInv(p) /\ UnmapInv(p) /\ ForkInv(p)
  BY Fields DEF TypeOK, ControlInv, ThreadInv, Thread
<1>2. CASE CowSole(p)
  <2>1. k[p].pc = "cow_decide" /\ k'[p] = Idle(p, "user") BY <1>1, <1>2 DEF CowSole, Leave, Become
  <2>2. \A e : ~LagAt(k[p], e) /\ ~LagAt(k'[p], e) BY <1>1, <2>1 DEF LagAt, Idle
  <2>3. k[p].va \in Va BY <1>1, <2>1 DEF CowInv, CowAt
  <2>4. \A e \in Proc \X Va : pt'[e].pa = pt[e].pa BY <1>1, <1>2, <2>3 DEF CowSole, Writable, PTE
  <2>5. SameEntries BY <2>2, <2>4, OtherEntry DEF SameEntries
  <2>6. Hands'[p] = Hands[p] /\ Ways'[p] = Ways[p] BY <1>1, <2>1, Possessions DEF Holds, Idle
  <2> QED BY <1>2, <2>3, <2>5, <2>6 DEF CowSole, mem
<1>3. CASE UnmapClear(p)
  <2>1. /\ k[p].pc = "clear" /\ k'[p].pc = "unmap" /\ k[p].va \in Va
        /\ pt' = [pt EXCEPT ![<<k[p].tgt, k[p].va>>] = Unmapped]
    BY <1>1, <1>3, Fields, SizeInVa DEF UnmapClear, Become, UnmapInv, UnmapAt, InKfree
  <2> DEFINE e == <<k[p].tgt, k[p].va>>
  <2>2. LagAt(k[p], e) /\ \A f : ~LagAt(k'[p], f) /\ (f # e => ~LagAt(k[p], f))
    BY <1>1, <2>1 DEF LagAt
  <2>3. e \in Proc \X Va /\ pt'[e].pa = NoPage /\ \A f \in Proc \X Va : f # e => pt'[f] = pt[f]
    BY <1>1, <2>1 DEF Unmapped
  <2>4. Entries[e] = NoPage /\ Entries'[e] = NoPage BY <2>1, <2>2, <2>3, OwnEntry
  <2>5. Hands'[p] = Hands[p] /\ Ways'[p] = Ways[p] BY <1>1, <2>1, Possessions DEF Holds
  <2> HIDE DEF e
  <2>6. SameEntries BY <2>2, <2>3, <2>4, OtherEntry DEF SameEntries
  <2> QED BY <1>3, <2>1, <2>5, <2>6 DEF UnmapClear, mem
<1>4. CASE ForkPage(p)
  <2>1. /\ k[p].pc = "fork" /\ k[p].va \in Va /\ k[p].tgt # p /\ pt[<<k[p].tgt, k[p].va>>].pa = NoPage
        /\ k'[p].pc = "inc" /\ k'[p].tgt = k[p].tgt /\ k'[p].va = k[p].va
    BY <1>1, <1>4, Fields, SizeInVa, SizeAssumption DEF ForkPage, Become, ForkInv, ForkAt, Empty,
      Frame
  <2> DEFINE e == <<k[p].tgt, k[p].va>>
  <2>2. LagAt(k'[p], e) /\ \A f : ~LagAt(k[p], f) /\ (f # e => ~LagAt(k'[p], f))
    BY <1>1, <2>1 DEF LagAt
  <2>3. e \in Proc \X Va /\ \A f \in Proc \X Va : f # e => pt'[f].pa = pt[f].pa
    BY <1>1, <1>4, <2>1 DEF ForkPage, Shared, PTE
  <2>4. Entries[e] = NoPage /\ Entries'[e] = NoPage BY <2>1, <2>2, OwnEntry
  <2>5. Hands'[p] = Hands[p] /\ Ways'[p] = Ways[p] BY <2>1, Possessions DEF Holds
  <2> HIDE DEF e
  <2>6. SameEntries BY <2>2, <2>3, <2>4, OtherEntry DEF SameEntries
  <2> QED BY <1>4, <2>1, <2>5, <2>6 DEF ForkPage, mem
<1>5. CASE ForkMapFail(p)
  <2>1. k[p].pc = "fork" /\ k[p].va \in Va /\ k'[p].pc = "unmap"
    BY <1>1, <1>5, Fields, SizeInVa DEF ForkMapFail, Become, ForkInv, ForkAt, Unmapping
  <2>2. \A f : ~LagAt(k[p], f) /\ ~LagAt(k'[p], f) BY <1>1, <2>1 DEF LagAt
  <2>3. \A f \in Proc \X Va : pt'[f].pa = pt[f].pa
    BY <1>1, <1>5, <2>1 DEF ForkMapFail, Shared, PTE
  <2>4. SameEntries BY <2>2, <2>3, OtherEntry DEF SameEntries
  <2>5. Hands'[p] = Hands[p] /\ Ways'[p] = Ways[p] BY <1>1, <2>1, Possessions DEF Holds
  <2> QED BY <1>5, <2>1, <2>4, <2>5 DEF ForkMapFail, mem
<1> QED BY <1>2, <1>3, <1>4, <1>5

-----------------------------------------------------------------------------
(* The counts stay exact. *)

\* What CountInv says of one frame.
CountAt(a) ==
  /\ refcnt[a] = Count(Entries, Proc \X Va, a) + Count(Hands, Proc, a)
  /\ freelist[a] + Count(Ways, Proc, a) + (IF refcnt[a] = 0 THEN 0 ELSE 1) = 1

\* kalloc, kfree, krefinc, the copy of a shared page, the mapping of a new one,
\* uvmunmap and uvmcopy keep the counts exact and every frame accounted for.
LEMMA CountStep ==
  ASSUME TypeOK, ControlInv, CountInv, OneRefInv, NEW p \in Proc, Step(p)
  PROVE  CountInv'
<1>1. (\A a \in Page : CountAt(a)') => CountInv' BY DEF CountInv, CountAt
<1>2. CASE ~Moving(p)
  <2>1. Quiet(p) BY <1>2, QuietStep
  <2>2. \A e \in Proc \X Va : Entries'[e] = Entries[e] BY <2>1, OtherEntry DEF Quiet
  <2> QED BY <2>1, <2>2, SameOwners DEF Quiet
<1>3. CASE CowSole(p) \/ UnmapClear(p) \/ ForkPage(p) \/ ForkMapFail(p)
  BY <1>3, TableEffect, SameOwners DEF SameEntries
<1>4. \A a \in Page : /\ CountAt(a) /\ refcnt[a] \in Nat /\ freelist[a] \in Nat /\ a # NoPage
                      /\ Count(Ways, Proc, a) \in Nat /\ Count(Hands, Proc, a) \in Nat
                      /\ Count(Entries, Proc \X Va, a) \in Nat
  BY PageAssumption, Finite, NoneCounts DEF CountInv, CountAt, TypeOK
<1>5. ASSUME NEW a \in Page, KallocPop(p) PROVE CountAt(a)'
  <2>1. SameEntries /\ refcnt' = refcnt BY <1>5, PopEffect
  <2>2. PICK b \in Page : /\ freelist[b] > 0 /\ freelist' = [freelist EXCEPT ![b] = @ - 1]
                          /\ HandWay(p, NoPage, NoPage, NoPage, b)
    BY <1>5, PopEffect
  <2>3. Ledger(a, NoPage, NoPage, NoPage, NoPage, NoPage, b)
    BY <2>1, <2>2, HandMoved DEF SameEntries, HandWay
  <2>4. CASE a = b
    <3>1. freelist'[a] = freelist[a] - 1 /\ refcnt'[a] = refcnt[a] /\ freelist[a] > 0
      BY <2>1, <2>2, <2>4 DEF TypeOK
    <3>2. CountAt(a) /\ refcnt[a] \in Nat /\ freelist[a] \in Nat /\ a # NoPage BY <1>4
    <3>3. Ledger(a, NoPage, NoPage, NoPage, NoPage, NoPage, a) BY <2>3, <2>4
    <3> QED BY ONLY <3>1, <3>2, <3>3 DEF CountAt, Ledger, Is
  <2>5. CASE a # b
    <3>1. freelist'[a] = freelist[a] /\ refcnt'[a] = refcnt[a] BY <2>1, <2>2, <2>5 DEF TypeOK
    <3>2. CountAt(a) /\ refcnt[a] \in Nat /\ freelist[a] \in Nat /\ a # NoPage BY <1>4
    <3> QED BY ONLY <2>3, <2>5, <3>1, <3>2 DEF CountAt, Ledger, Is
  <2> QED BY <2>4, <2>5
<1>6. ASSUME NEW a \in Page, KallocSetCount(p) PROVE CountAt(a)'
  <2> DEFINE b == k[p].pg
  <2>1. /\ SameEntries /\ freelist' = freelist /\ b \in Page /\ refcnt' = [refcnt EXCEPT ![b] = 1]
        /\ HandWay(p, NoPage, b, b, NoPage)
    BY <1>6, SetCountEffect
  <2> HIDE DEF b
  <2>2. Ledger(a, NoPage, NoPage, NoPage, b, b, NoPage)
    BY <2>1, HandMoved DEF SameEntries, HandWay
  <2>3. CASE a = b
    <3>1. /\ refcnt[a] = 0 /\ freelist[a] = 0 /\ Count(Ways, Proc, a) = 1
          /\ Count(Entries, Proc \X Va, a) = 0 /\ Count(Hands, Proc, a) = 0
      BY <2>1, <2>3, OnTheWay DEF HandWay
    <3>2. freelist'[a] = freelist[a] /\ refcnt'[a] = 1 BY <2>1, <2>3 DEF TypeOK
    <3>3. Ledger(a, NoPage, NoPage, NoPage, a, a, NoPage) /\ a # NoPage BY <1>4, <2>2, <2>3
    <3> QED BY ONLY <3>1, <3>2, <3>3 DEF CountAt, Ledger, Is
  <2>4. CASE a # b
    <3>1. freelist'[a] = freelist[a] /\ refcnt'[a] = refcnt[a] BY <2>1, <2>4 DEF TypeOK
    <3>2. CountAt(a) /\ refcnt[a] \in Nat /\ freelist[a] \in Nat /\ a # NoPage BY <1>4
    <3> QED BY ONLY <2>2, <2>4, <3>1, <3>2 DEF CountAt, Ledger, Is
  <2> QED BY <2>3, <2>4
<1>7. ASSUME NEW a \in Page, KfreeWrite(p) PROVE CountAt(a)'
  <2> DEFINE b == k[p].pg
  <2>1. /\ freelist' = freelist /\ b \in Page /\ refcnt[b] >= 1
        /\ refcnt' = [refcnt EXCEPT ![b] = refcnt[b] - 1]
    BY <1>7, DecEffect
  <2>2. PICK w \in {NoPage, b} :
          /\ w = (IF refcnt[b] > 1 THEN NoPage ELSE b)
          /\ \/ SameEntries /\ HandWay(p, b, NoPage, NoPage, w)
             \/ /\ OneEntry(<<k[p].tgt, k[p].va>>, b, NoPage)
                /\ HandWay(p, NoPage, NoPage, NoPage, w)
    BY <1>7, DecEffect
  <2> HIDE DEF b
  <2>3. Ledger(a, NoPage, NoPage, b, NoPage, NoPage, w) \/ Ledger(a, b, NoPage, NoPage, NoPage, NoPage, w)
    <3>1. CASE SameEntries /\ HandWay(p, b, NoPage, NoPage, w)
      BY <3>1, HandMoved DEF SameEntries, HandWay
    <3>2. CASE OneEntry(<<k[p].tgt, k[p].va>>, b, NoPage) /\ HandWay(p, NoPage, NoPage, NoPage, w)
      <4> DEFINE e == <<k[p].tgt, k[p].va>>
      <4>1. OneEntry(e, b, NoPage) BY <3>2
      <4> HIDE DEF e
      <4>2. Ledger(a, Entries[e], Entries'[e], Hands[p], Hands'[p], Ways[p], Ways'[p])
        BY <4>1, Moved DEF OneEntry
      <4> QED BY <3>2, <4>1, <4>2 DEF OneEntry, HandWay
    <3> QED BY <2>2, <3>1, <3>2
  <2>4. CASE a = b
    <3>1. freelist'[a] = freelist[a] /\ refcnt'[a] = refcnt[a] - 1 /\ refcnt[a] >= 1
      BY <2>1, <2>4 DEF TypeOK
    <3>2. /\ Count(Entries, Proc \X Va, a)' + Count(Hands, Proc, a)' =
                Count(Entries, Proc \X Va, a) + Count(Hands, Proc, a) - 1
          /\ Count(Ways, Proc, a)' = Count(Ways, Proc, a) + Is(w, a)
      <4>1. a # NoPage BY <1>4
      <4>2. Ledger(a, NoPage, NoPage, a, NoPage, NoPage, w) \/ Ledger(a, a, NoPage, NoPage, NoPage, NoPage, w)
        BY <2>3, <2>4
      <4>3. Is(NoPage, a) = 0 /\ Is(a, a) = 1 /\ Is(w, a) \in {0, 1} BY <4>1 DEF Is
      <4> QED BY ONLY <4>2, <4>3 DEF Ledger
    <3>3. CASE refcnt[a] > 1
      <4>1. Is(w, a) = 0 /\ refcnt'[a] # 0 BY <1>4, <2>2, <2>4, <3>1, <3>3 DEF Is
      <4>2. CountAt(a) /\ Count(Ways, Proc, a) \in Nat /\ freelist[a] \in Nat
            /\ Count(Entries, Proc \X Va, a) \in Nat /\ Count(Hands, Proc, a) \in Nat
        BY <1>4
      <4> QED BY ONLY <3>1, <3>2, <3>3, <4>1, <4>2 DEF CountAt
    <3>4. CASE refcnt[a] = 1
      <4>1. Is(w, a) = 1 /\ refcnt'[a] = 0 BY <2>2, <2>4, <3>1, <3>4 DEF Is
      <4>2. CountAt(a) /\ Count(Ways, Proc, a) \in Nat /\ freelist[a] \in Nat
            /\ Count(Entries, Proc \X Va, a) \in Nat /\ Count(Hands, Proc, a) \in Nat
        BY <1>4
      <4> QED BY ONLY <3>1, <3>2, <3>4, <4>1, <4>2 DEF CountAt
    <3> QED BY <1>4, <3>1, <3>3, <3>4
  <2>5. CASE a # b
    <3>1. freelist'[a] = freelist[a] /\ refcnt'[a] = refcnt[a] BY <2>1, <2>5 DEF TypeOK
    <3>2. CountAt(a) /\ refcnt[a] \in Nat /\ freelist[a] \in Nat /\ a # NoPage BY <1>4
    <3>3. Is(w, a) = 0 /\ Is(b, a) = 0 /\ Is(NoPage, a) = 0 BY <1>4, <2>2, <2>5 DEF Is
    <3> QED BY ONLY <2>3, <3>1, <3>2, <3>3 DEF CountAt, Ledger
  <2> QED BY <2>4, <2>5
<1>8. ASSUME NEW a \in Page, KfreePush(p) PROVE CountAt(a)'
  <2> DEFINE b == k[p].pg
  <2>1. /\ SameEntries /\ refcnt' = refcnt /\ b \in Page /\ freelist' = [freelist EXCEPT ![b] = @ + 1]
        /\ HandWay(p, NoPage, NoPage, b, NoPage)
    BY <1>8, PushEffect
  <2> HIDE DEF b
  <2>2. Ledger(a, NoPage, NoPage, NoPage, NoPage, b, NoPage)
    BY <2>1, HandMoved DEF SameEntries, HandWay
  <2>3. CountAt(a) /\ refcnt[a] \in Nat /\ freelist[a] \in Nat /\ a # NoPage BY <1>4
  <2>4. CASE a = b
    <3>1. freelist'[a] = freelist[a] + 1 /\ refcnt'[a] = refcnt[a] BY <2>1, <2>4 DEF TypeOK
    <3>2. Ledger(a, NoPage, NoPage, NoPage, NoPage, a, NoPage) BY <2>2, <2>4
    <3> QED BY ONLY <2>3, <3>1, <3>2 DEF CountAt, Ledger, Is
  <2>5. CASE a # b
    <3>1. freelist'[a] = freelist[a] /\ refcnt'[a] = refcnt[a] BY <2>1, <2>5 DEF TypeOK
    <3> QED BY ONLY <2>2, <2>3, <2>5, <3>1 DEF CountAt, Ledger, Is
  <2> QED BY <2>4, <2>5
<1>9. ASSUME NEW a \in Page, KrefincWrite(p) PROVE CountAt(a)'
  <2> DEFINE b == k[p].pg
             e == <<k[p].tgt, k[p].va>>
  <2>1. /\ freelist' = freelist /\ b \in Page /\ refcnt' = [refcnt EXCEPT ![b] = refcnt[b] + 1]
        /\ OneEntry(e, NoPage, b) /\ HandWay(p, NoPage, NoPage, NoPage, NoPage)
    BY <1>9, IncEffect
  <2>2. refcnt[b] >= 1
    <3>1. Entries[<<p, k[p].va>>] = b /\ k[p].va \in Va /\ b \in Page BY <1>9, IncEffect
    <3> QED BY <3>1, OwnedCounts
  <2> HIDE DEF b, e
  <2>3. Ledger(a, NoPage, b, NoPage, NoPage, NoPage, NoPage)
    BY <2>1, Moved DEF OneEntry, HandWay
  <2>4. CountAt(a) /\ refcnt[a] \in Nat /\ freelist[a] \in Nat /\ a # NoPage BY <1>4
  <2>5. CASE a = b
    <3>1. freelist'[a] = freelist[a] /\ refcnt'[a] = refcnt[a] + 1 /\ refcnt[a] >= 1
      BY <2>1, <2>2, <2>5 DEF TypeOK
    <3>2. Ledger(a, NoPage, a, NoPage, NoPage, NoPage, NoPage) BY <2>3, <2>5
    <3> QED BY ONLY <2>4, <3>1, <3>2 DEF CountAt, Ledger, Is
  <2>6. CASE a # b
    <3>1. freelist'[a] = freelist[a] /\ refcnt'[a] = refcnt[a] BY <2>1, <2>6 DEF TypeOK
    <3> QED BY ONLY <2>3, <2>4, <2>6, <3>1 DEF CountAt, Ledger, Is
  <2> QED BY <2>5, <2>6
<1>10. ASSUME NEW a \in Page, CowRemap(p) PROVE CountAt(a)'
  <2> DEFINE e == <<p, k[p].va>>
             b == k[p].pg
             c == pt[e].pa
  <2>1. UNCHANGED <<refcnt, freelist>> /\ OneEntry(e, c, b) /\ HandWay(p, b, c, NoPage, NoPage)
    BY <1>10, RemapEffect
  <2> HIDE DEF e, b, c
  <2>2. Ledger(a, c, b, b, c, NoPage, NoPage) BY <2>1, Moved DEF OneEntry, HandWay
  <2>3. CountAt(a) /\ refcnt[a] \in Nat /\ freelist[a] \in Nat /\ a # NoPage BY <1>4
  <2>4. freelist'[a] = freelist[a] /\ refcnt'[a] = refcnt[a] BY <2>1
  <2> QED BY ONLY <2>2, <2>3, <2>4 DEF CountAt, Ledger, Is
<1>11. ASSUME NEW a \in Page, FaultMap(p) \/ GrowMap(p) PROVE CountAt(a)'
  <2> DEFINE e == <<p, k[p].va>>
             b == k[p].pg
  <2>1. /\ UNCHANGED <<refcnt, freelist>> /\ OneEntry(e, NoPage, b)
        /\ HandWay(p, b, NoPage, NoPage, NoPage)
    BY <1>11, MapEffect
  <2> HIDE DEF e, b
  <2>2. Ledger(a, NoPage, b, b, NoPage, NoPage, NoPage) BY <2>1, Moved DEF OneEntry, HandWay
  <2>3. CountAt(a) /\ refcnt[a] \in Nat /\ freelist[a] \in Nat /\ a # NoPage BY <1>4
  <2>4. freelist'[a] = freelist[a] /\ refcnt'[a] = refcnt[a] BY <2>1
  <2> QED BY ONLY <2>2, <2>3, <2>4 DEF CountAt, Ledger, Is
<1> QED BY <1>1, <1>2, <1>3, <1>5, <1>6, <1>7, <1>8, <1>9, <1>10, <1>11 DEF Moving

-----------------------------------------------------------------------------
(* Who has the only reference. *)

\* Two owners mean a count of two at least.
LEMMA TwoOwners ==
  ASSUME TypeOK, CountInv, NEW a \in Page,
         \/ \E q, r \in Proc : q # r /\ Hands[q] = a /\ Hands[r] = a
         \/ \E q \in Proc, e \in Proc \X Va : Hands[q] = a /\ Entries[e] = a
         \/ \E e, f \in Proc \X Va : e # f /\ Entries[e] = a /\ Entries[f] = a
  PROVE  refcnt[a] >= 2
<1>1. Count(Entries, Proc \X Va, a) \in Nat /\ Count(Hands, Proc, a) \in Nat
  BY Finite, NoneCounts
<1>2. refcnt[a] = Count(Entries, Proc \X Va, a) + Count(Hands, Proc, a) BY DEF CountInv
<1>3. CASE \E q, r \in Proc : q # r /\ Hands[q] = a /\ Hands[r] = a
  <2>1. Count(Hands, Proc, a) >= 2 BY <1>3, Finite, TwoCount
  <2> QED BY <1>1, <1>2, <2>1
<1>4. CASE \E q \in Proc, e \in Proc \X Va : Hands[q] = a /\ Entries[e] = a
  <2>1. Count(Hands, Proc, a) >= 1 BY <1>4, Finite, OneCounts
  <2>2. Count(Entries, Proc \X Va, a) >= 1
    <3>1. PICK e \in Proc \X Va : Entries[e] = a BY <1>4
    <3> QED BY <3>1, Finite, OneCounts
  <2> QED BY <1>1, <1>2, <2>1, <2>2
<1>5. CASE \E e, f \in Proc \X Va : e # f /\ Entries[e] = a /\ Entries[f] = a
  <2>1. Count(Entries, Proc \X Va, a) >= 2
    <3>1. PICK e \in Proc \X Va, f \in Proc \X Va : e # f /\ Entries[e] = a /\ Entries[f] = a
      BY <1>5
    <3> QED BY <3>1, Finite, TwoCount
  <2> QED BY <1>1, <1>2, <2>1
<1> QED BY <1>3, <1>4, <1>5

\* A running thread's entries count unless it keeps them from counting itself.
LEMMA OwnCounted ==
  ASSUME TypeOK, ControlInv, NEW q \in Proc, k[q].pc # "off", NEW t \in {q, k[q].tgt}, NEW v \in Va
  PROVE  Entries[<<t, v>>] = IF LagAt(k[q], <<t, v>>) THEN NoPage ELSE pt[<<t, v>>].pa
<1>1. t \in Proc BY Fields
<1>2. ASSUME NEW r \in Proc, r # q PROVE ~LagAt(k[r], <<t, v>>)
  <2>1. CASE k[r].pc = "off" BY <2>1 DEF LagAt
  <2>2. CASE k[r].pc # "off"
    <3>1. k[r].tgt # q /\ k[r].tgt # k[q].tgt BY <1>2, <2>2, Disjoint
    <3> QED BY <3>1 DEF LagAt
  <2> QED BY <2>1, <2>2
<1>3. Counted(<<t, v>>) <=> ~LagAt(k[q], <<t, v>>) BY <1>2, CountedLag
<1> QED BY <1>1, <1>3 DEF Entries

\* A frame whose only reference belongs to another thread keeps its count.
LEMMA SoleStays ==
  ASSUME TypeOK, ControlInv, CountInv, OneRefInv, NEW p \in Proc, Step(p),
         NEW q \in Proc, q # p, k[q].pc # "off", NEW a \in Page, refcnt[a] = 1,
         Hands[q] = a \/ \E v \in Va : Entries[<<q, v>>] = a
  PROVE  refcnt'[a] = 1
<1>1. k[p].pc # "off" /\ refcnt \in [Page -> Nat] /\ k[p].tgt \in Proc BY Awake, Fields DEF TypeOK
<1>2. k[p].tgt # q BY <1>1, Disjoint
<1>3. CASE UNCHANGED refcnt BY <1>3
<1>4. CASE KallocSetCount(p)
  <2>1. k[p].pg \in Page /\ Ways[p] = k[p].pg /\ refcnt' = [refcnt EXCEPT ![k[p].pg] = 1]
    BY <1>4, SetCountEffect DEF HandWay
  <2> QED BY <1>1, <2>1
<1>5. CASE KfreeWrite(p)
  <2>1. /\ k[p].pg \in Page /\ refcnt' = [refcnt EXCEPT ![k[p].pg] = refcnt[k[p].pg] - 1]
        /\ \/ Hands[p] = k[p].pg
           \/ Entries[<<k[p].tgt, k[p].va>>] = k[p].pg /\ <<k[p].tgt, k[p].va>> \in Proc \X Va
    BY <1>5, DecEffect DEF HandWay, OneEntry
  <2>2. k[p].pg # a
    <3> SUFFICES ASSUME k[p].pg = a PROVE FALSE OBVIOUS
    <3>1. refcnt[a] >= 2
      <4>1. CASE Hands[p] = a
        <5>1. CASE Hands[q] = a BY <4>1, <5>1, TwoOwners
        <5>2. ASSUME NEW v \in Va, Entries[<<q, v>>] = a PROVE refcnt[a] >= 2
          <6>1. <<q, v>> \in Proc \X Va OBVIOUS
          <6> QED BY <4>1, <5>2, <6>1, TwoOwners
        <5> QED BY <5>1, <5>2
      <4>2. CASE Entries[<<k[p].tgt, k[p].va>>] = a /\ <<k[p].tgt, k[p].va>> \in Proc \X Va
        <5>1. CASE Hands[q] = a BY <4>2, <5>1, TwoOwners
        <5>2. ASSUME NEW v \in Va, Entries[<<q, v>>] = a PROVE refcnt[a] >= 2
          <6>1. <<q, v>> \in Proc \X Va /\ <<q, v>> # <<k[p].tgt, k[p].va>> BY <1>2
          <6> QED BY <4>2, <5>2, <6>1, TwoOwners
        <5> QED BY <5>1, <5>2
      <4> QED BY <2>1, <4>1, <4>2
    <3> QED BY <3>1
  <2> QED BY <1>1, <2>1, <2>2
<1>6. CASE KrefincWrite(p)
  <2>1. /\ k[p].pg \in Page /\ refcnt' = [refcnt EXCEPT ![k[p].pg] = refcnt[k[p].pg] + 1]
        /\ k[p].va \in Va /\ Entries[<<p, k[p].va>>] = k[p].pg
    BY <1>6, IncEffect
  <2>2. k[p].pg # a
    <3> SUFFICES ASSUME k[p].pg = a PROVE FALSE OBVIOUS
    <3>0. <<p, k[p].va>> \in Proc \X Va BY <2>1
    <3>1. CASE Hands[q] = a
      <4>1. refcnt[a] >= 2 BY <2>1, <3>0, <3>1, TwoOwners
      <4> QED BY <4>1
    <3>2. ASSUME NEW v \in Va, Entries[<<q, v>>] = a PROVE FALSE
      <4>1. <<q, v>> \in Proc \X Va /\ <<q, v>> # <<p, k[p].va>> OBVIOUS
      <4>2. refcnt[a] >= 2 BY <2>1, <3>0, <3>2, <4>1, TwoOwners
      <4> QED BY <4>2
    <3> QED BY <3>1, <3>2
  <2> QED BY <1>1, <2>1, <2>2
<1>7. ~Moving(p) => UNCHANGED refcnt BY QuietStep DEF Quiet
<1>8. KallocPop(p) \/ KfreePush(p) => UNCHANGED refcnt BY PopEffect, PushEffect
<1>9. CowSole(p) \/ UnmapClear(p) \/ ForkPage(p) \/ ForkMapFail(p) => UNCHANGED refcnt
  BY TableEffect
<1>10. CowRemap(p) \/ FaultMap(p) \/ GrowMap(p) => UNCHANGED refcnt BY RemapEffect, MapEffect
<1> QED BY <1>3, <1>4, <1>5, <1>6, <1>7, <1>8, <1>9, <1>10 DEF Moving

\* What cowhandler, vmfault, uvmalloc and uvmcopy know of the counts survives
\* the steps of the other threads.
LEMMA OneRefOthers ==
  ASSUME TypeOK, ControlInv, CountInv, OneRefInv, NEW p \in Proc, Step(p), NEW q \in Proc, q # p
  PROVE  OneRef(q)'
<1>1. CASE k'[q].pc \in {"off", "user"} BY <1>1 DEF OneRef
<1>2. CASE k'[q].pc \notin {"off", "user"}
  <2>1. k'[q] = k[q] /\ k[q].pc # "off"
    <3>1. Idle(q, "user").pc = "user" BY DEF Idle
    <3>2. k'[q] # Idle(q, "user") BY <1>2, <3>1
    <3>3. k'[q] = k[q] BY <3>2, OthersStay
    <3> QED BY <1>2, <3>3
  <2>2. k[p].pc # "off" /\ k[p].tgt \in Proc /\ k[q].tgt \in Proc /\ k[q] \in Frame
    BY Awake, Fields
  <2>3. q # k[p].tgt /\ k[q].tgt # p /\ k[q].tgt # k[p].tgt BY <2>1, <2>2, Disjoint
  <2>4. \A v \in Va : pt'[<<q, v>>] = pt[<<q, v>>] /\ pt'[<<k[q].tgt, v>>] = pt[<<k[q].tgt, v>>]
    BY <2>2, <2>3, FootprintStep DEF Footprint
  <2>5. OneRef(q) /\ CowInv(q) /\ ForkInv(q) /\ PteInv
    BY DEF OneRefInv, ControlInv, ThreadInv, Thread
  <2>6. ASSUME k[q].pc \in {"cow_copy", "cow_remap", "grow_map", "fault_map"}, k[q].pg # NoPage
        PROVE  refcnt'[k[q].pg] = 1
    <3>1. k[q].pg \in Page /\ refcnt[k[q].pg] = 1 BY <2>5, <2>6, Fields DEF OneRef
    <3>2. Hands[q] = k[q].pg BY <2>6, Possessions DEF Holds
    <3> QED BY <2>1, <3>1, <3>2, SoleStays
  <2>7. ASSUME k[q].pc = "cow_decide", k[q].tmp = 1
        PROVE  refcnt'[pt'[<<q, k[q].va>>].pa] = 1
    <3>1. k[q].va \in Va /\ pt[<<q, k[q].va>>].cow BY <2>5, <2>7 DEF CowInv, CowAt
    <3>2. pt[<<q, k[q].va>>].pa \in Page BY <2>5, <3>1, PteType DEF PteInv
    <3>3. refcnt[pt[<<q, k[q].va>>].pa] = 1 BY <2>5, <2>7 DEF OneRef
    <3>4. Entries[<<q, k[q].va>>] = pt[<<q, k[q].va>>].pa
      <4>1. ~LagAt(k[q], <<q, k[q].va>>) BY <2>7 DEF LagAt
      <4> QED BY <2>1, <3>1, <4>1, OwnCounted
    <3>5. refcnt'[pt[<<q, k[q].va>>].pa] = 1 BY <2>1, <3>1, <3>2, <3>3, <3>4, SoleStays
    <3> QED BY <2>4, <3>1, <3>5
  <2>8. ASSUME k[q].pc \in {"inc", "inc_w"}
        PROVE  ~pt'[<<q, k[q].va>>].w /\ ~pt'[<<k[q].tgt, k[q].va>>].w
    <3>1. k[q].va \in Va BY <2>5, <2>8, Fields, SizeInVa DEF ForkInv, ForkAt
    <3> QED BY <2>4, <2>5, <2>8, <3>1 DEF OneRef
  <2> QED BY <2>1, <2>6, <2>7, <2>8 DEF OneRef
<1> QED BY <1>1, <1>2

\* A frame from kalloc comes with one reference; uvmcopy leaves neither side writable.
LEMMA OneRefOwn ==
  ASSUME TypeOK, ControlInv, OneRefInv, NEW p \in Proc, Step(p)
  PROVE  OneRef(p)'
<1>1. /\ k \in [Proc -> Frame] /\ k[p] \in Frame /\ refcnt \in [Page -> Nat]
      /\ pt \in [Proc \X Va -> PTE] /\ k[p].tgt \in Proc
      /\ PageInv(p) /\ ForkInv(p)
  BY Fields DEF TypeOK, ControlInv, ThreadInv, Thread
<1>2. CASE ~Moving(p) BY <1>2, QuietStep
<1>3. CASE KallocPop(p)
  <2>1. k'[p].pc = "kset" BY <1>1, <1>3 DEF KallocPop, Become, Frame
  <2> QED BY <2>1 DEF OneRef
<1>4. CASE KallocSetCount(p)
  <2>1. k'[p].pc \in {"cow_copy", "grow_map", "fault_map"}
    BY <1>1, <1>4 DEF KallocSetCount, Become, PageInv, Frame
  <2>2. refcnt'[k'[p].pg] = 1 BY <1>1, <1>4, SetCountEffect
  <2> QED BY <2>1, <2>2 DEF OneRef
<1>5. CASE KfreeWrite(p) \/ KfreePush(p)
  <2>1. k'[p].pc \in {"user", "die", "err", "unmap", "clear", "push"}
    <3>1. CASE KfreeWrite(p)
      <4>1. CASE k[p].tmp > 1 BY <1>1, <3>1, <4>1 DEF KfreeWrite, Become, PageInv, Frame
      <4>2. CASE ~(k[p].tmp > 1) BY <1>1, <3>1, <4>2 DEF KfreeWrite, Become, Frame
      <4> QED BY <4>1, <4>2
    <3>2. CASE KfreePush(p) BY <1>1, <3>2 DEF KfreePush, Become, PageInv, Frame
    <3> QED BY <1>5, <3>1, <3>2
  <2> QED BY <2>1 DEF OneRef
<1>6. CASE KrefincWrite(p)
  <2>1. k'[p].pc = "fork" BY <1>1, <1>6 DEF KrefincWrite, Become, Frame
  <2> QED BY <2>1 DEF OneRef
<1>7. CASE CowSole(p) \/ CowRemap(p)
  <2>1. k'[p].pc \in {"user", "dec"}
    BY <1>1, <1>7 DEF CowSole, CowRemap, Become, Leave, Idle, Freeing
  <2> QED BY <2>1 DEF OneRef
<1>8. CASE FaultMap(p) \/ GrowMap(p)
  <2>1. k'[p].pc \in {"user", "copyout", "grow"} BY <1>8, MapEffect
  <2> QED BY <2>1 DEF OneRef
<1>9. CASE UnmapClear(p) \/ ForkMapFail(p)
  <2>1. k'[p].pc = "unmap"
    <3>1. CASE UnmapClear(p) BY <1>1, <3>1 DEF UnmapClear, Become, Frame
    <3>2. CASE ForkMapFail(p) BY <1>1, <3>2 DEF ForkMapFail, Become, Unmapping
    <3> QED BY <1>9, <3>1, <3>2
  <2> QED BY <2>1 DEF OneRef
<1>10. CASE ForkPage(p)
  <2>1. k'[p].pc = "inc" /\ k'[p].tgt = k[p].tgt /\ k'[p].va = k[p].va
    BY <1>1, <1>10 DEF ForkPage, Become, Frame
  <2>2. k[p].va \in Va BY <1>10, TableEffect
  <2>3. ~pt'[<<p, k[p].va>>].w /\ ~pt'[<<k[p].tgt, k[p].va>>].w
    BY <1>1, <1>10, <2>2 DEF ForkPage, Shared
  <2> QED BY <2>1, <2>3 DEF OneRef
<1> QED BY <1>2, <1>3, <1>4, <1>5, <1>6, <1>7, <1>8, <1>9, <1>10 DEF Moving

-----------------------------------------------------------------------------
(* Writable pages. *)

WritableAt(e) == pt[e].w /\ Entries[e] # NoPage => refcnt[Entries[e]] = 1

\* WritableInv, in terms of what entries own.
LEMMA WritableMeans ==
  ASSUME TypeOK, PteInv
  PROVE  WritableInv <=> \A e \in Proc \X Va : WritableAt(e)
<1>1. SUFFICES ASSUME NEW e \in Proc \X Va
               PROVE  (pt[e].w /\ Counted(e) => refcnt[pt[e].pa] = 1) <=> WritableAt(e)
  BY DEF WritableInv
<1>2. pt[e].w => pt[e].pa # NoPage BY DEF PteInv
<1>3. Entries[e] = IF Counted(e) THEN pt[e].pa ELSE NoPage BY DEF Entries
<1> QED BY <1>2, <1>3 DEF WritableAt

\* A step that changes neither e nor the count of its frame keeps e exclusive.
LEMMA WritableSame ==
  ASSUME NEW e, WritableAt(e), pt'[e].w => pt[e].w, Entries'[e] = Entries[e],
         pt[e].w /\ Entries[e] # NoPage => refcnt'[Entries[e]] = refcnt[Entries[e]]
  PROVE  WritableAt(e)'
BY DEF WritableAt

\* cowhandler, vmfault and uvmalloc make only a frame with one reference writable,
\* and nothing adds a reference to a frame that is mapped writable.
LEMMA WritableStep ==
  ASSUME TypeOK, ControlInv, CountInv, OneRefInv, WritableInv, NEW p \in Proc, Step(p)
  PROVE  WritableInv'
<1>1. TypeOK' /\ PteInv' /\ PteInv BY TypeStep, ControlStep DEF ControlInv
<1>2. WritableInv' <=> \A e \in Proc \X Va : WritableAt(e)'
  <2>1. (TypeOK /\ PteInv => (WritableInv <=> \A e \in Proc \X Va : WritableAt(e)))'
    BY WritableMeans, PTL
  <2> QED BY <1>1, <2>1
<1>3. \A e \in Proc \X Va : WritableAt(e) BY <1>1, WritableMeans
<1>4. SUFFICES ASSUME NEW e \in Proc \X Va PROVE WritableAt(e)' BY <1>2
<1>5. /\ WritableAt(e) /\ refcnt \in [Page -> Nat] /\ pt \in [Proc \X Va -> PTE]
      /\ k[p].tgt \in Proc /\ OneRef(p) /\ k[p].pc # "off"
  BY <1>3, Fields, Awake DEF TypeOK, OneRefInv
<1>6. CASE ~Moving(p)
  <2>1. Quiet(p) BY <1>6, QuietStep
  <2> QED BY <1>5, <2>1, OtherEntry, WritableSame DEF Quiet
<1>7. CASE KallocPop(p) BY <1>5, <1>7, PopEffect, WritableSame DEF SameEntries
<1>8. CASE KfreePush(p) BY <1>5, <1>8, PushEffect, WritableSame DEF SameEntries
<1>9. CASE KallocSetCount(p)
  <2>1. /\ Entries'[e] = Entries[e] /\ pt' = pt /\ k[p].pg \in Page
        /\ refcnt' = [refcnt EXCEPT ![k[p].pg] = 1]
    BY <1>9, SetCountEffect DEF SameEntries
  <2>2. CASE Entries[e] = k[p].pg BY <1>5, <2>1, <2>2 DEF WritableAt
  <2>3. CASE Entries[e] # k[p].pg BY <1>5, <2>1, <2>3, WritableSame
  <2> QED BY <2>2, <2>3
<1>10. CASE KfreeWrite(p)
  <2>1. /\ pt' = pt /\ k[p].pg \in Page /\ refcnt' = [refcnt EXCEPT ![k[p].pg] = refcnt[k[p].pg] - 1]
    BY <1>10, DecEffect
  <2>2. CASE Entries'[e] = NoPage BY <2>2 DEF WritableAt
  <2>3. CASE Entries'[e] # NoPage
    <3>1. /\ Entries'[e] = Entries[e]
          /\ \/ Hands[p] = k[p].pg
             \/ \E f \in Proc \X Va : f # e /\ Entries[f] = k[p].pg
      <4>1. CASE SameEntries /\ Hands[p] = k[p].pg BY <4>1 DEF SameEntries
      <4>2. CASE OneEntry(<<k[p].tgt, k[p].va>>, k[p].pg, NoPage) BY <2>3, <4>2 DEF OneEntry
      <4> QED BY <1>10, <4>1, <4>2, DecEffect DEF HandWay
    <3>2. Entries[e] = k[p].pg => refcnt[k[p].pg] >= 2 BY <2>1, <3>1, TwoOwners
    <3>3. pt[e].w /\ Entries[e] # NoPage => Entries[e] # k[p].pg
      BY <1>5, <2>1, <3>2 DEF WritableAt
    <3> QED BY <1>5, <2>1, <3>1, <3>3, WritableSame
  <2> QED BY <2>2, <2>3
<1>11. CASE KrefincWrite(p)
  <2>1. /\ pt' = pt /\ k[p].pg \in Page /\ refcnt' = [refcnt EXCEPT ![k[p].pg] = refcnt[k[p].pg] + 1]
        /\ k[p].va \in Va /\ Entries[<<p, k[p].va>>] = k[p].pg
        /\ OneEntry(<<k[p].tgt, k[p].va>>, NoPage, k[p].pg) /\ k[p].pc = "inc_w"
    BY <1>11, IncEffect
  <2>2. ~pt[<<p, k[p].va>>].w /\ ~pt[<<k[p].tgt, k[p].va>>].w BY <1>5, <2>1 DEF OneRef
  <2>3. CASE ~pt[e].w BY <2>1, <2>3 DEF WritableAt
  <2>4. CASE pt[e].w
    <3>1. Entries'[e] = Entries[e] BY <2>1, <2>2, <2>4 DEF OneEntry
    <3>2. Entries[e] = k[p].pg => refcnt[k[p].pg] >= 2
      <4>1. <<p, k[p].va>> \in Proc \X Va /\ <<p, k[p].va>> # e BY <2>1, <2>2, <2>4
      <4> QED BY <2>1, <4>1, TwoOwners
    <3>3. Entries[e] # NoPage => Entries[e] # k[p].pg
      BY <1>5, <2>1, <2>4, <3>2 DEF WritableAt
    <3> QED BY <1>5, <2>1, <3>1, <3>3, WritableSame
  <2> QED BY <2>3, <2>4
<1>12. CASE CowRemap(p) \/ FaultMap(p) \/ GrowMap(p)
  <2>1. /\ refcnt' = refcnt /\ k[p].pc \in {"cow_remap", "fault_map", "grow_map"} /\ k[p].pg \in Page
        /\ k[p].va \in Va /\ pt' = [pt EXCEPT ![<<p, k[p].va>>] = Writable(k[p].pg)]
        /\ \E x : OneEntry(<<p, k[p].va>>, x, k[p].pg)
    BY <1>12, RemapEffect, MapEffect
  <2>2. CASE e = <<p, k[p].va>>
    <3>1. refcnt[k[p].pg] = 1 BY <1>5, <2>1, PageAssumption DEF OneRef
    <3>2. Entries'[e] = k[p].pg BY <2>1, <2>2 DEF OneEntry
    <3> QED BY <2>1, <3>1, <3>2 DEF WritableAt
  <2>3. CASE e # <<p, k[p].va>>
    <3>1. pt'[e] = pt[e] BY <1>5, <2>1, <2>3
    <3>2. Entries'[e] = Entries[e] BY <2>1, <2>3 DEF OneEntry
    <3> QED BY <1>5, <2>1, <3>1, <3>2, WritableSame
  <2> QED BY <2>2, <2>3
<1>13. CASE CowSole(p) \/ UnmapClear(p) \/ ForkPage(p) \/ ForkMapFail(p)
  <2>1. Entries'[e] = Entries[e] /\ refcnt' = refcnt /\ k[p].va \in Va
    BY <1>13, TableEffect DEF SameEntries
  <2>2. CASE pt'[e].w => pt[e].w BY <1>5, <2>1, <2>2, WritableSame
  <2>3. CASE pt'[e].w /\ ~pt[e].w
    <3>1. CowSole(p) /\ e = <<p, k[p].va>>
      <4>1. CASE CowSole(p) BY <1>5, <2>1, <2>3, <4>1 DEF CowSole
      <4>2. CASE UnmapClear(p)
        <5>1. pt'[e] \in {pt[e], Unmapped} BY <1>5, <2>1, <4>2 DEF UnmapClear
        <5> QED BY <2>3, <5>1 DEF Unmapped
      <4>3. CASE ForkPage(p)
        <5>1. pt'[e] \in {pt[e], Shared(pt[<<p, k[p].va>>])} BY <1>5, <2>1, <4>3 DEF ForkPage
        <5> QED BY <2>3, <5>1 DEF Shared
      <4>4. CASE ForkMapFail(p)
        <5>1. pt'[e] \in {pt[e], Shared(pt[<<p, k[p].va>>])} BY <1>5, <2>1, <4>4 DEF ForkMapFail
        <5> QED BY <2>3, <5>1 DEF Shared
      <4> QED BY <1>13, <4>1, <4>2, <4>3, <4>4
    <3>2. k[p].pc = "cow_decide" /\ k[p].tmp = 1 BY <3>1 DEF CowSole
    <3>3. refcnt[pt[e].pa] = 1 BY <1>5, <3>1, <3>2 DEF OneRef
    <3>4. Entries[e] = pt[e].pa
      <4>1. ~LagAt(k[p], e) BY <3>2 DEF LagAt
      <4> QED BY <1>5, <2>1, <3>1, <4>1, OwnCounted
    <3> QED BY <2>1, <3>3, <3>4 DEF WritableAt
  <2> QED BY <2>2, <2>3
<1> QED BY <1>6, <1>7, <1>8, <1>9, <1>10, <1>11, <1>12, <1>13 DEF Moving

-----------------------------------------------------------------------------
(* The invariant. *)

\* At boot every page of the first process has its frame for itself, and every
\* other frame is free.
LEMMA InitCounts ==
  ASSUME Init
  PROVE  CountInv /\ OneRefInv /\ WritableInv
<1>1. PICK f \in [0 .. (InitSz - 1) -> Page] :
        /\ \A v, w \in 0 .. (InitSz - 1) : f[v] = f[w] => v = w
        /\ pt = [e \in Proc \X Va |->
                   IF e[1] = InitProc /\ e[2] < InitSz
                   THEN [pa |-> f[e[2]], w |-> e[2] >= TextSz, cow |-> FALSE]
                   ELSE Unmapped]
        /\ refcnt   = [a \in Page |-> IF \E v \in 0 .. (InitSz - 1) : f[v] = a THEN 1 ELSE 0]
        /\ freelist = [a \in Page |-> IF \E v \in 0 .. (InitSz - 1) : f[v] = a THEN 0 ELSE 1]
  BY DEF Init
<1>2. TypeOK /\ PteInv BY InitType, InitControl DEF ControlInv
<1>3. \A q \in Proc : k[q].pc \in {"user", "off"} BY DEF Init, Idle
<1>4. OneRefInv BY <1>3 DEF OneRefInv, OneRef
<1>5. \A e : Counted(e) BY <1>3 DEF Counted, Lag
<1>6. \A q \in Proc : Hands[q] = NoPage /\ Ways[q] = NoPage BY <1>3 DEF Hands, Ways, Holds
<1>7. ASSUME NEW v \in Va, v < InitSz
      PROVE  v \in 0 .. (InitSz - 1) /\ Entries[<<InitProc, v>>] = f[v] /\ f[v] \in Page
  <2>1. v \in 0 .. (InitSz - 1) BY <1>7, SizeAssumption DEF Va
  <2>2. <<InitProc, v>> \in Proc \X Va BY ProcAssumption
  <2>3. pt[<<InitProc, v>>].pa = f[v] BY <1>1, <1>7, <2>2
  <2> QED BY <1>5, <2>1, <2>2, <2>3 DEF Entries
<1>8. ASSUME NEW q \in Proc, NEW v \in Va, ~(q = InitProc /\ v < InitSz)
      PROVE  Entries[<<q, v>>] = NoPage
  <2>1. pt[<<q, v>>].pa = NoPage BY <1>1, <1>8 DEF Unmapped
  <2> QED BY <2>1 DEF Entries
<1>9. ASSUME NEW a \in Page
      PROVE  /\ Count(Hands, Proc, a) = 0 /\ Count(Ways, Proc, a) = 0
             /\ refcnt[a] = Count(Entries, Proc \X Va, a)
             /\ (refcnt[a] = 0 /\ freelist[a] = 1) \/ (refcnt[a] = 1 /\ freelist[a] = 0)
  <2>1. {q \in Proc : Hands[q] = a} = {} /\ {q \in Proc : Ways[q] = a} = {}
    BY <1>6, PageAssumption
  <2>2. Count(Hands, Proc, a) = 0 /\ Count(Ways, Proc, a) = 0
    BY <2>1, Finite, NoneCounts
  <2>3. CASE \E v \in 0 .. (InitSz - 1) : f[v] = a
    <3>1. PICK v \in 0 .. (InitSz - 1) : f[v] = a BY <2>3
    <3>2. v \in Va /\ v < InitSz BY SizeAssumption DEF Va
    <3>3. <<InitProc, v>> \in Proc \X Va /\ Entries[<<InitProc, v>>] = a
      BY <1>7, <3>1, <3>2, ProcAssumption
    <3>4. ASSUME NEW q \in Proc, NEW w \in Va, Entries[<<q, w>>] = a
          PROVE  <<q, w>> = <<InitProc, v>>
      <4>1. q = InitProc /\ w < InitSz BY <1>8, <3>4, PageAssumption
      <4>2. w \in 0 .. (InitSz - 1) /\ f[w] = a BY <1>7, <3>4, <4>1
      <4>3. w = v BY <1>1, <3>1, <4>2
      <4> QED BY <4>1, <4>3
    <3>5. {e \in Proc \X Va : Entries[e] = a} = {<<InitProc, v>>} BY <3>3, <3>4
    <3>6. Count(Entries, Proc \X Va, a) = 1 BY <3>5, FS_Singleton DEF Count
    <3>7. refcnt[a] = 1 /\ freelist[a] = 0 BY <1>1, <2>3
    <3> QED BY <2>2, <3>6, <3>7
  <2>4. CASE ~\E v \in 0 .. (InitSz - 1) : f[v] = a
    <3>1. ASSUME NEW q \in Proc, NEW w \in Va PROVE Entries[<<q, w>>] # a
      <4>1. CASE q = InitProc /\ w < InitSz BY <1>7, <2>4, <4>1
      <4>2. CASE ~(q = InitProc /\ w < InitSz) BY <1>8, <4>2, PageAssumption
      <4> QED BY <4>1, <4>2
    <3>2. {e \in Proc \X Va : Entries[e] = a} = {} BY <3>1
    <3>3. Count(Entries, Proc \X Va, a) = 0 BY <3>2, Finite, NoneCounts
    <3>4. refcnt[a] = 0 /\ freelist[a] = 1 BY <1>1, <2>4
    <3> QED BY <2>2, <3>3, <3>4
  <2> QED BY <2>3, <2>4
<1>10. CountInv
  <2>1. SUFFICES ASSUME NEW a \in Page PROVE CountAt(a) BY DEF CountInv, CountAt
  <2>2. /\ Count(Hands, Proc, a) = 0 /\ Count(Ways, Proc, a) = 0
        /\ refcnt[a] = Count(Entries, Proc \X Va, a)
        /\ (refcnt[a] = 0 /\ freelist[a] = 1) \/ (refcnt[a] = 1 /\ freelist[a] = 0)
    BY <1>9
  <2> QED BY ONLY <2>2 DEF CountAt
<1>11. WritableInv
  <2>1. \A q \in Proc, v \in Va : WritableAt(<<q, v>>)
    <3>1. \A v \in 0 .. (InitSz - 1) : f[v] \in Page /\ refcnt[f[v]] = 1 BY <1>1
    <3> QED BY <1>7, <1>8, <3>1 DEF WritableAt
  <2>2. \A e \in Proc \X Va : WritableAt(e) BY <2>1
  <2> QED BY <1>2, <2>2, WritableMeans
<1> QED BY <1>4, <1>10, <1>11

\* A step of any thread keeps the whole invariant.
LEMMA InvStep ==
  ASSUME IInv, NEW p \in Proc, Step(p)
  PROVE  IInv'
<1>1. TypeOK /\ ControlInv /\ OneRefInv /\ WritableInv /\ CountInv BY CountsMean DEF IInv
<1>2. TypeOK' /\ ControlInv' BY <1>1, TypeStep, ControlStep
<1>3. CountInv' BY <1>1, CountStep
<1>4. RefcountExact' /\ PageConserved' BY <1>3, CountsMean, PTL
<1>5. OneRefInv'
  <2>1. \A q \in Proc : OneRef(q)' BY <1>1, OneRefOthers, OneRefOwn
  <2> QED BY <2>1 DEF OneRefInv
<1>6. WritableInv' BY <1>1, WritableStep
<1> QED BY <1>2, <1>4, <1>5, <1>6 DEF IInv

\* The inductive invariant: the types, what every thread knows at its label, the
\* counts, the whereabouts of every frame, and who has the only reference.
THEOREM CountsCorrect == Spec => []IInv
<1>1. Init => IInv BY InitType, InitControl, InitCounts, CountsMean DEF IInv
<1>2. IInv /\ [Next]_vars => IInv'
  <2> SUFFICES ASSUME IInv, [Next]_vars PROVE IInv' OBVIOUS
  <2>1. CASE Next BY <2>1, InvStep DEF Next
  <2>2. CASE UNCHANGED vars
    <3>1. TypeOK' /\ ControlInv' BY <2>2, Stutter DEF IInv
    <3>2. RefcountExact' /\ PageConserved'
      BY <2>2 DEF vars, IInv, RefcountExact, PageConserved, MapRefs, HandRefs, Transit, Counted,
        Lag
    <3>3. OneRefInv' /\ WritableInv'
      BY <2>2 DEF vars, IInv, OneRefInv, OneRef, WritableInv, Counted, Lag
    <3> QED BY <3>1, <3>2, <3>3 DEF IInv
  <2> QED BY <2>1, <2>2
<1> QED BY <1>1, <1>2, PTL DEF Spec

\* The count of every frame is the number of references to it, at every point
\* between two lock operations of kalloc.c and vm.c.
THEOREM RefcountsExact == Spec => []RefcountExact
<1>1. IInv => RefcountExact BY DEF IInv
<1> QED BY <1>1, CountsCorrect, PTL

\* Every frame is on the free list once, on its way there or back, or referenced:
\* no frame leaks and none is freed twice.
THEOREM PagesConserved == Spec => []PageConserved
<1>1. IInv => PageConserved BY DEF IInv
<1> QED BY <1>1, CountsCorrect, PTL

\* kfree never finds a count of zero, mappages never finds the page mapped, and a
\* slot of the process table is given back with an empty page table.
THEOREM NoPanics == Spec => []NoPanic
<1>1. ASSUME IInv PROVE NoPanic
  <2>1. TypeOK /\ ControlInv /\ CountInv BY <1>1, CountsMean DEF IInv
  <2>2. SUFFICES ASSUME NEW p \in Proc
                 PROVE  /\ k[p].pc = "dec" => refcnt[k[p].pg] >= 1
                        /\ k[p].pc = "fork" /\ k[p].va < sz[p] => pt[<<k[p].tgt, k[p].va>>].pa = NoPage
                        /\ k[p].pc \in {"grow_map", "fault_map"} => pt[<<p, k[p].va>>].pa = NoPage
                        /\ state[p] = "unused" => Leafless(p)
                        /\ k[p].pc \in {"user", "die"} =>
                             \A v \in Va : v >= sz[p] => pt[<<p, v>>].pa = NoPage
    BY DEF NoPanic
  <2>3. PageInv(p) /\ FaultInv(p) /\ GrowInv(p) /\ UnmapInv(p) /\ ForkInv(p) /\ Extent(p)
    BY <2>1 DEF ControlInv, ThreadInv, Thread, ExtentInv
  <2>4. k[p].va \in 0 .. NVa /\ k[p].hi \in 0 .. NVa /\ sz[p] \in 0 .. NVa /\ k[p].tgt \in Proc
    BY <2>1, Fields DEF TypeOK
  <2>5. ASSUME k[p].pc = "dec" PROVE refcnt[k[p].pg] >= 1
    <3>1. k[p].pg \in Page BY <2>3, <2>5 DEF PageInv
    <3>2. CASE k[p].ret # "clear"
      <4>1. Hands[p] = k[p].pg BY <2>5, <3>2, Possessions DEF Holds
      <4> QED BY <2>1, <3>1, <4>1, OwnedCounts
    <3>3. CASE k[p].ret = "clear"
      <4>1. k[p].va \in Va /\ pt[<<k[p].tgt, k[p].va>>].pa = k[p].pg
        BY <2>3, <2>4, <2>5, <3>3, SizeInVa DEF UnmapInv, UnmapAt, InKfree
      <4>2. ~LagAt(k[p], <<k[p].tgt, k[p].va>>) BY <2>5 DEF LagAt
      <4>3. Entries[<<k[p].tgt, k[p].va>>] = k[p].pg BY <2>1, <2>5, <4>1, <4>2, OwnCounted
      <4>4. <<k[p].tgt, k[p].va>> \in Proc \X Va BY <2>4, <4>1
      <4> QED BY <2>1, <3>1, <4>3, <4>4, OwnedCounts
    <3> QED BY <3>2, <3>3
  <2>6. ASSUME k[p].pc = "fork", k[p].va < sz[p] PROVE pt[<<k[p].tgt, k[p].va>>].pa = NoPage
    <3>1. k[p].va \in Va /\ k[p].va >= k[p].va BY <2>4, <2>6, SizeInVa
    <3> QED BY <2>3, <2>6, <3>1 DEF ForkInv, ForkAt, Empty
  <2>7. ASSUME k[p].pc \in {"grow_map", "fault_map"} PROVE pt[<<p, k[p].va>>].pa = NoPage
    <3>1. CASE k[p].pc = "fault_map" BY <2>3, <3>1 DEF FaultInv, FaultAt, InKalloc
    <3>2. CASE k[p].pc = "grow_map"
      <4>1. k[p].va < k[p].hi /\ Empty(p, k[p].va) BY <2>3, <3>2 DEF GrowInv, GrowAt, InKalloc
      <4>2. k[p].va \in Va /\ k[p].va >= k[p].va BY <2>4, <4>1, SizeInVa
      <4> QED BY <4>1, <4>2 DEF Empty
    <3> QED BY <2>7, <3>1, <3>2
  <2>8. ASSUME state[p] = "unused" PROVE Leafless(p)
    <3>1. sz[p] = 0 /\ Empty(p, sz[p]) BY <2>3, <2>8 DEF Extent
    <3>2. \A v \in Va : v >= 0 BY DEF Va
    <3> QED BY <3>1, <3>2 DEF Empty, Leafless, Walkaddr
  <2>9. ASSUME k[p].pc \in {"user", "die"}
        PROVE  \A v \in Va : v >= sz[p] => pt[<<p, v>>].pa = NoPage
    <3>1. state[p] = "live" BY <2>1, <2>9 DEF ControlInv, TableInv
    <3>2. ~GrowAt(p) /\ k[p].uret = "user" BY <2>3, <2>9 DEF GrowAt, InKalloc, PageInv
    <3> QED BY <2>3, <3>1, <3>2 DEF Extent, Empty
  <2> QED BY <2>5, <2>6, <2>7, <2>8, <2>9
<1> QED BY <1>1, CountsCorrect, PTL

\* A page that a process may write is mapped nowhere else: a second mapping would
\* be a second reference.
THEOREM WritablePrivate == Spec => []WritableIsPrivate
<1>1. ASSUME IInv PROVE WritableIsPrivate
  <2>1. TypeOK /\ PteInv /\ CountInv /\ WritableInv BY <1>1, CountsMean DEF IInv, ControlInv
  <2>2. SUFFICES ASSUME NEW e \in Proc \X Va, NEW f \in Proc \X Va, pt[e].w,
                        pt[f].pa = pt[e].pa, Counted(e), Counted(f), e # f
                 PROVE  FALSE
    BY DEF WritableIsPrivate
  <2>3. pt[e].pa # NoPage /\ pt[e].pa \in Page \union {NoPage}
    BY <2>1, <2>2 DEF PteInv, TypeOK, PTE
  <2>4. refcnt[pt[e].pa] = 1 BY <2>1, <2>2 DEF WritableInv
  <2>5. Entries[e] = pt[e].pa /\ Entries[f] = pt[e].pa BY <2>2 DEF Entries
  <2>6. refcnt[pt[e].pa] >= 2 BY <2>1, <2>2, <2>3, <2>5, TwoOwners
  <2> QED BY <2>4, <2>6
<1> QED BY <1>1, CountsCorrect, PTL

\* What a page-table step does to a read-only page.
LEMMA ReadOnlyStep ==
  ASSUME IInv, NEW p \in Proc, Step(p), NEW e \in Proc \X Va,
         pt[e].pa # NoPage, ~pt[e].w, ~pt[e].cow
  PROVE  pt'[e] \in {pt[e], Unmapped}
<1>1. /\ TypeOK /\ ControlInv /\ OneRefInv /\ CowInv(p) /\ ForkInv(p) /\ k[p].tgt \in Proc
      /\ pt \in [Proc \X Va -> PTE]
  BY Fields DEF IInv, ControlInv, ThreadInv, Thread, TypeOK
<1>2. CASE ~Moving(p) BY <1>1, <1>2, QuietStep DEF Quiet
<1>3. CASE KallocPop(p) \/ KallocSetCount(p) \/ KfreeWrite(p) \/ KfreePush(p) \/ KrefincWrite(p)
  BY <1>3 DEF KallocPop, KallocSetCount, KfreeWrite, KfreePush, KrefincWrite, tab
<1>4. CASE CowSole(p) \/ CowRemap(p)
  <2>1. pt[<<p, k[p].va>>].cow BY <1>1, <1>4 DEF CowSole, CowRemap, CowInv, CowAt
  <2> QED BY <1>1, <1>4, <2>1 DEF CowSole, CowRemap, Mappages
<1>5. CASE FaultMap(p) \/ GrowMap(p)
  <2>1. pt[<<p, k[p].va>>].pa = NoPage /\ pt' = [pt EXCEPT ![<<p, k[p].va>>] = Writable(k[p].pg)]
    BY <1>1, <1>5, MapEffect
  <2> QED BY <1>1, <2>1
<1>6. CASE UnmapClear(p) BY <1>1, <1>6 DEF UnmapClear
<1>7. CASE ForkPage(p) \/ ForkMapFail(p)
  <2>1. Shared(pt[e]) = pt[e]
    <3>1. pt[e] \in PTE BY <1>1
    <3> QED BY <3>1 DEF PTE, Shared
  <2>2. k[p].va \in Va BY <1>1, <1>7, TableEffect
  <2>3. CASE ForkMapFail(p) BY <1>1, <2>1, <2>2, <2>3 DEF ForkMapFail
  <2>4. CASE ForkPage(p)
    <3>1. pt[<<k[p].tgt, k[p].va>>].pa = NoPage
      BY <1>1, <2>2, <2>4 DEF ForkPage, ForkInv, ForkAt, Empty, Va
    <3> QED BY <1>1, <2>1, <2>2, <2>4, <3>1 DEF ForkPage
  <2> QED BY <1>7, <2>3, <2>4
<1> QED BY <1>2, <1>3, <1>4, <1>5, <1>6, <1>7 DEF Moving

\* No step makes a page of the program text writable or copy-on-write.
THEOREM ReadOnlyPagesStay == Spec => ReadOnlyStays
<1>1. IInv /\ [Next]_vars =>
        [\A e \in Proc \X Va :
           pt[e].pa # NoPage /\ ~pt[e].w /\ ~pt[e].cow => pt'[e] \in {pt[e], Unmapped}]_vars
  BY ReadOnlyStep DEF Next
<1> QED BY <1>1, CountsCorrect, PTL DEF Spec, ReadOnlyStays

-----------------------------------------------------------------------------
(* What happens to the contents of frames. *)

\* Thread p stores to page v, from user mode or by copyout.
Stores(p, v) == \E d \in Val :
  UserStore(p, v, d) \/ (CopyoutWrite(p, d) /\ k[p].va = v)

\* A store goes to a writable page, which counts.
LEMMA StoreEffect ==
  ASSUME TypeOK, ControlInv, NEW p \in Proc, Step(p), NEW v \in Va, NEW d \in Val,
         UserStore(p, v, d) \/ (CopyoutWrite(p, d) /\ k[p].va = v)
  PROVE  /\ pt[<<p, v>>].w /\ Entries[<<p, v>>] = pt[<<p, v>>].pa /\ pt[<<p, v>>].pa \in Page
         /\ data' = [data EXCEPT ![pt[<<p, v>>].pa] = d] /\ UNCHANGED <<refcnt, freelist, tab>>
<1>1. /\ k[p].pc \in {"user", "copyout"} /\ pt[<<p, v>>].w
      /\ data' = [data EXCEPT ![pt[<<p, v>>].pa] = d] /\ UNCHANGED <<refcnt, freelist, tab>>
  <2>1. CASE UserStore(p, v, d) BY <2>1 DEF UserStore
  <2>2. CASE CopyoutWrite(p, d) /\ k[p].va = v BY <2>2 DEF CopyoutWrite
  <2> QED BY <2>1, <2>2
<1>2. pt[<<p, v>>].pa \in Page BY <1>1, PteType DEF ControlInv, PteInv
<1>3. ~LagAt(k[p], <<p, v>>) BY <1>1 DEF LagAt
<1>4. Entries[<<p, v>>] = pt[<<p, v>>].pa BY <1>1, <1>3, OwnCounted
<1> QED BY <1>1, <1>2, <1>4

\* The steps that change the contents of a frame, the shape of a memory, or neither.
Fills(p) == \/ KallocPop(p) \/ KfreePush(p) \/ CowCopy(p) \/ FaultMap(p) \/ GrowMap(p)
            \/ \E v \in Va : Stores(p, v)

Resizes(p) == GrowDone(p) \/ \E n \in 1 .. NVa : SbrkLazy(p, n) \/ SbrkShrink(p, n)

SameShape(p) ==
  /\ \A q \in Proc : (state'[q] = "live") <=> (state[q] = "live")
  /\ VisibleSz(p)' = VisibleSz(p)

Plain(p) ==
  /\ data' = data \/ Fills(p)
  /\ SameShape(p) \/ Resizes(p) \/ KExit(p) \/ ForkDone(p)

\* Which actions do what.
LEMMA PlainStep ==
  ASSUME TypeOK, ControlInv, NEW p \in Proc, Work(p), Step(p)
  PROVE  Plain(p)
<1>1. /\ k \in [Proc -> Frame] /\ k[p] \in Frame /\ k[p].tgt \in Proc /\ sz \in [Proc -> 0 .. NVa]
      /\ state \in [Proc -> {"unused", "used", "live", "zombie"}]
      /\ state[k[p].tgt] \in {"live", "unused", "used", "zombie"}
  BY Fields DEF TypeOK
<1>2. PageInv(p) /\ CowInv(p) /\ FaultInv(p) /\ GrowInv(p) /\ UnmapInv(p) /\ ForkInv(p)
  BY DEF ControlInv, ThreadInv, Thread
<1>3. k[p].pc = "copyout" => k[p].va \in Va BY DEF Work
<1> USE <1>1, <1>2, <1>3 DEF Plain, Fills, Stores, Resizes, SameShape, VisibleSz, Become, mem, tab,
  PageInv, CowInv, CowAt, FaultInv, FaultAt, GrowInv, GrowAt, UnmapInv, UnmapAt,
  ForkInv, ForkAt, InKalloc, InKfree
<1>4. CASE KallocEmpty(p) BY <1>4 DEF KallocEmpty
<1>5. CASE KfreeRead(p) BY <1>5 DEF KfreeRead
<1>6. CASE KrefincRead(p) BY <1>6 DEF KrefincRead
<1>7. ASSUME NEW v \in Va, NEW d \in Val, UserStore(p, v, d) PROVE Plain(p) BY <1>7 DEF UserStore
<1>8. ASSUME NEW v \in Va, CowFault(p, v) PROVE Plain(p) BY <1>8 DEF CowFault
<1>9. ASSUME NEW v \in Va, LazyFault(p, v) PROVE Plain(p) BY <1>9 DEF LazyFault
<1>10. ASSUME NEW v \in Va, BadFault(p, v) PROVE Plain(p) BY <1>10 DEF BadFault, Leave, Idle
<1>11. ASSUME NEW v \in Va, CopyinFault(p, v) PROVE Plain(p) BY <1>11 DEF CopyinFault
<1>12. ASSUME NEW v \in Va, CopyinFail(p, v) PROVE Plain(p) BY <1>12 DEF CopyinFail, Leave, Idle
<1>13. ASSUME NEW v \in Va, Copyinstr(p, v) PROVE Plain(p) BY <1>13 DEF Copyinstr, Leave, Idle
<1>14. CASE CowGetRef(p) BY <1>14 DEF CowGetRef
<1>15. CASE CowShared(p) BY <1>15 DEF CowShared
<1>16. CASE CowNoMem(p) BY <1>16 DEF CowNoMem, Leave, Idle
<1>17. CASE CowCopy(p) BY <1>17 DEF CowCopy
<1>18. CASE FaultNoMem(p) BY <1>18 DEF FaultNoMem, Leave, Idle, FaultFailed
<1>19. CASE FaultMapFail(p) BY <1>19 DEF FaultMapFail, Freeing, FaultFailed
<1>20. ASSUME NEW v \in Va, Copyout(p, v) PROVE Plain(p) BY <1>20 DEF Copyout
<1>21. CASE CopyoutFault(p) BY <1>21 DEF CopyoutFault
<1>22. ASSUME NEW d \in Val, CopyoutWrite(p, d) PROVE Plain(p)
  BY <1>22 DEF CopyoutWrite, Idle, Unmapping
<1>23. CASE CopyoutFail(p) BY <1>23 DEF CopyoutFail, Leave, Idle
<1>24. CASE SyscallError(p) BY <1>24 DEF SyscallError, Leave, Idle
<1>25. ASSUME NEW n \in 1 .. NVa, SbrkLazy(p, n) PROVE Plain(p) BY <1>25 DEF SbrkLazy
<1>26. ASSUME NEW n \in 1 .. NVa, SbrkGrow(p, n) PROVE Plain(p) BY <1>26 DEF SbrkGrow
<1>27. ASSUME NEW n \in 1 .. NVa, SbrkShrink(p, n) PROVE Plain(p)
  BY <1>27 DEF SbrkShrink, Unmapping
<1>28. CASE GrowAlloc(p) BY <1>28 DEF GrowAlloc
<1>29. CASE GrowNoMem(p) BY <1>29 DEF GrowNoMem, Unmapping
<1>30. CASE GrowMapFail(p) BY <1>30 DEF GrowMapFail, Unmapping
<1>31. CASE GrowDone(p) BY <1>31 DEF GrowDone, Leave, Idle
<1>32. CASE ShrinkDone(p) BY <1>32 DEF ShrinkDone, UnmapEnd, Leave, Idle
<1>33. CASE GrowUndone(p) BY <1>33 DEF GrowUndone, UnmapEnd, Leave, Idle
<1>34. CASE UnmapSkip(p) BY <1>34 DEF UnmapSkip
<1>35. CASE UnmapFree(p) BY <1>35 DEF UnmapFree
<1>36. ASSUME NEW c \in Proc, ForkStart(p, c) PROVE Plain(p) BY <1>36 DEF ForkStart
<1>37. CASE ForkPanic(p) BY <1>37 DEF ForkPanic
<1>38. CASE ForkDone(p) BY <1>38 DEF ForkDone, Idle
<1>39. CASE ForkFailed(p) BY <1>39 DEF ForkFailed, UnmapEnd, Leave, Idle
<1>40. CASE Exit(p) BY <1>40 DEF Exit, Leave, Idle
<1>41. CASE KExit(p) BY <1>41 DEF KExit, Leave, Idle
<1>42. CASE InitExit(p) BY <1>42 DEF InitExit, Leave, Idle
<1>43. CASE ReapDone(p) BY <1>43 DEF ReapDone, UnmapEnd, Leave, Idle
<1>44. CASE PanicLoop(p) BY <1>44 DEF PanicLoop, vars
<1>45. ASSUME NEW c \in Proc, Wait(p, c) PROVE Plain(p) BY <1>45 DEF Wait, Unmapping
<1>46. ASSUME NEW c \in Proc, NEW v \in Va, WaitStatus(p, c, v) PROVE Plain(p)
  BY <1>46 DEF WaitStatus
<1>47. CASE KallocPop(p)
  <2>1. PICK a \in Page : k' = [k EXCEPT ![p] = [k[p] EXCEPT !.pc = "kset", !.pg = a]]
    BY <1>47 DEF KallocPop
  <2>2. k'[p].uret = k[p].uret /\ k'[p].nsz = k[p].nsz BY <2>1 DEF Frame
  <2>3. SameShape(p) BY <1>47, <2>2 DEF KallocPop
  <2> QED BY <1>47, <2>3
<1>48. CASE KallocSetCount(p) BY <1>48 DEF KallocSetCount
<1>49. CASE KfreePush(p) BY <1>49 DEF KfreePush
<1>50. CASE KfreeWrite(p) /\ k[p].tmp > 1 BY <1>50 DEF KfreeWrite
<1>51. CASE KfreeWrite(p) /\ ~(k[p].tmp > 1) BY <1>51 DEF KfreeWrite
<1>52. CASE KrefincWrite(p) BY <1>52 DEF KrefincWrite
<1>53. CASE CowSole(p) BY <1>53 DEF CowSole, Leave, Idle
<1>54. CASE CowRemap(p) BY <1>54 DEF CowRemap, Mappages, Freeing
<1>55. CASE FaultMap(p) BY <1>55 DEF FaultMap
<1>56. CASE GrowMap(p) BY <1>56 DEF GrowMap
<1>57. CASE UnmapClear(p) BY <1>57 DEF UnmapClear
<1>58. CASE ForkPage(p) BY <1>58 DEF ForkPage
<1>59. CASE ForkMapFail(p) BY <1>59 DEF ForkMapFail, Unmapping
<1> QED
  BY <1>4, <1>5, <1>6, <1>7, <1>8, <1>9, <1>10, <1>11, <1>12, <1>13, <1>14, <1>15, <1>16, <1>17,
    <1>18, <1>19, <1>20, <1>21, <1>22, <1>23, <1>24, <1>25, <1>26, <1>27, <1>28, <1>29, <1>30,
    <1>31, <1>32, <1>33, <1>34, <1>35, <1>36, <1>37, <1>38, <1>39, <1>40, <1>41, <1>42, <1>43,
    <1>44, <1>45, <1>46, <1>47, <1>48, <1>49, <1>50, <1>51, <1>52, <1>53, <1>54, <1>55, <1>56,
    <1>57, <1>58, <1>59 DEF Step, Kalloc, Kfree, Krefinc, UserAccess, Cowhandler, Vmfault,
    CopyFromUser, CopyToUser, Sbrk, Unmap, Fork, ExitWait

\* kalloc and kfree clear frames that nobody refers to; cowhandler, vmfault and
\* uvmalloc fill a frame that only they refer to; and a store goes to a frame that
\* is mapped nowhere else.
LEMMA DataChange ==
  ASSUME IInv, NEW p \in Proc, Work(p), Step(p), NEW a \in Page, data'[a] # data[a]
  PROVE  \/ refcnt[a] = 0
         \/ refcnt[a] = 1 /\ Hands[p] = a
         \/ refcnt[a] = 1 /\ \E v \in Va : Entries[<<p, v>>] = a /\ Stores(p, v)
<1>1. /\ TypeOK /\ ControlInv /\ CountInv /\ OneRef(p) /\ WritableInv
      /\ data \in [Page -> Data] /\ freelist \in [Page -> Nat] /\ refcnt \in [Page -> Nat]
      /\ k[p].pg \in Page \union {NoPage}
  BY CountsMean, Fields DEF IInv, OneRefInv, TypeOK
<1>2. CASE KallocPop(p)
  <2>1. PICK b \in Page : freelist[b] > 0 /\ data' = [data EXCEPT ![b] = Junk]
    BY <1>2 DEF KallocPop
  <2>2. a = b BY <1>1, <2>1
  <2>3. freelist[a] + Count(Ways, Proc, a) + (IF refcnt[a] = 0 THEN 0 ELSE 1) = 1
    BY <1>1 DEF CountInv
  <2>4. Count(Ways, Proc, a) \in Nat BY Finite, NoneCounts
  <2> QED BY <1>1, <2>1, <2>2, <2>3, <2>4
<1>3. CASE KfreePush(p)
  <2>1. data' = [data EXCEPT ![k[p].pg] = Junk] /\ k[p].pg \in Page /\ Ways[p] = k[p].pg
    BY <1>1, <1>3, PushEffect DEF KfreePush, HandWay
  <2>2. a = k[p].pg BY <1>1, <2>1
  <2> QED BY <1>1, <2>1, <2>2, OnTheWay
<1>4. CASE CowCopy(p) \/ FaultMap(p) \/ GrowMap(p)
  <2>1. /\ k[p].pc \in {"cow_copy", "fault_map", "grow_map"} /\ k[p].pg # NoPage
        /\ \E d : data' = [data EXCEPT ![k[p].pg] = d]
    BY <1>4 DEF CowCopy, FaultMap, GrowMap
  <2>2. a = k[p].pg BY <1>1, <2>1
  <2>3. refcnt[a] = 1 BY <1>1, <2>1, <2>2 DEF OneRef
  <2>4. Hands[p] = a BY <2>1, <2>2, Possessions DEF Holds
  <2> QED BY <2>3, <2>4
<1>5. ASSUME NEW v \in Va, Stores(p, v)
      PROVE  refcnt[a] = 1 /\ Entries[<<p, v>>] = a
  <2>1. PICK d \in Val : UserStore(p, v, d) \/ (CopyoutWrite(p, d) /\ k[p].va = v)
    BY <1>5 DEF Stores
  <2>2. /\ pt[<<p, v>>].w /\ Entries[<<p, v>>] = pt[<<p, v>>].pa /\ pt[<<p, v>>].pa \in Page
        /\ data' = [data EXCEPT ![pt[<<p, v>>].pa] = d]
    BY <1>1, <2>1, StoreEffect
  <2>3. a = pt[<<p, v>>].pa BY <1>1, <2>2
  <2>4. Counted(<<p, v>>) BY <2>2, PageAssumption DEF Entries
  <2> QED BY <1>1, <2>2, <2>3, <2>4 DEF WritableInv
<1>6. CASE \E v \in Va : Stores(p, v) BY <1>5, <1>6
<1>7. Fills(p) BY <1>1, PlainStep DEF Plain
<1> QED BY <1>2, <1>3, <1>4, <1>6, <1>7 DEF Fills

\* What an entry or another thread refers to keeps its contents, but for a store
\* through that entry.
LEMMA DataKept ==
  ASSUME IInv, NEW p \in Proc, Work(p), Step(p), NEW a \in Page,
         \/ \E q \in Proc : q # p /\ Hands[q] = a
         \/ \E q \in Proc, v \in Va : Entries[<<q, v>>] = a /\ ~(q = p /\ Stores(p, v))
  PROVE  data'[a] = data[a]
<1> SUFFICES ASSUME data'[a] # data[a] PROVE FALSE OBVIOUS
<1>1. TypeOK /\ CountInv BY CountsMean DEF IInv
<1>2. CASE \E q \in Proc : q # p /\ Hands[q] = a
  <2>1. PICK q \in Proc : q # p /\ Hands[q] = a BY <1>2
  <2>2. refcnt[a] # 0 BY <1>1, <2>1, OwnedCounts
  <2>3. CASE Hands[p] = a /\ refcnt[a] = 1
    <3>1. refcnt[a] >= 2 BY <1>1, <2>1, <2>3, TwoOwners
    <3> QED BY <2>3, <3>1
  <2>4. ASSUME refcnt[a] = 1, NEW v \in Va, Entries[<<p, v>>] = a PROVE FALSE
    <3>1. <<p, v>> \in Proc \X Va OBVIOUS
    <3>2. refcnt[a] >= 2 BY <1>1, <2>1, <2>4, <3>1, TwoOwners
    <3> QED BY <2>4, <3>2
  <2> QED BY <2>2, <2>3, <2>4, DataChange
<1>3. ASSUME NEW q \in Proc, NEW v \in Va, Entries[<<q, v>>] = a, ~(q = p /\ Stores(p, v))
      PROVE  FALSE
  <2>1. <<q, v>> \in Proc \X Va OBVIOUS
  <2>2. refcnt[a] # 0 BY <1>1, <1>3, <2>1, OwnedCounts
  <2>3. CASE Hands[p] = a /\ refcnt[a] = 1
    <3>1. refcnt[a] >= 2 BY <1>1, <1>3, <2>1, <2>3, TwoOwners
    <3> QED BY <2>3, <3>1
  <2>4. ASSUME refcnt[a] = 1, NEW w \in Va, Entries[<<p, w>>] = a, Stores(p, w) PROVE FALSE
    <3>1. <<p, w>> \in Proc \X Va /\ <<p, w>> # <<q, v>> BY <1>3, <2>4
    <3>2. refcnt[a] >= 2 BY <1>1, <1>3, <2>1, <2>4, <3>1, TwoOwners
    <3> QED BY <2>4, <3>2
  <2> QED BY <2>2, <2>3, <2>4, DataChange
<1> QED BY <1>2, <1>3

\* A page that counts, keeps its frame and is not stored to reads as before.
LEMMA ReadsKept ==
  ASSUME IInv, NEW p \in Proc, Work(p), Step(p), NEW q \in Proc, NEW v \in Va,
         Entries[<<q, v>>] = pt[<<q, v>>].pa, pt'[<<q, v>>].pa = pt[<<q, v>>].pa,
         ~(q = p /\ Stores(p, v))
  PROVE  Reads(q, v)' = Reads(q, v)
<1>1. CASE pt[<<q, v>>].pa = NoPage BY <1>1 DEF Reads
<1>2. CASE pt[<<q, v>>].pa # NoPage
  <2>1. pt[<<q, v>>].pa \in Page BY <1>2, PteType DEF IInv
  <2>2. data'[pt[<<q, v>>].pa] = data[pt[<<q, v>>].pa] BY <2>1, DataKept
  <2> QED BY <1>2, <2>2 DEF Reads
<1> QED BY <1>1, <1>2

-----------------------------------------------------------------------------
(* The work done so far. *)

\* The other threads' work stands.
LEMMA WorkOthers ==
  ASSUME IInv, NEW p \in Proc, Work(p), Step(p), NEW q \in Proc, q # p, Work(q)
  PROVE  Work(q)'
<1>1. CASE k'[q].pc \in {"off", "user"} BY <1>1 DEF Work, GrowAt, ForkAt, InKalloc
<1>2. CASE k'[q].pc \notin {"off", "user"}
  <2>1. k'[q] = k[q] /\ k[q].pc # "off"
    <3>1. Idle(q, "user").pc = "user" BY DEF Idle
    <3>2. k'[q] # Idle(q, "user") BY <1>2, <3>1
    <3>3. k'[q] = k[q] BY <3>2, OthersStay DEF IInv
    <3> QED BY <1>2, <3>3
  <2>2. TypeOK /\ ControlInv /\ PageInv(q) /\ CowInv(q) /\ k[q].tgt \in Proc /\ k[p].tgt \in Proc
    BY Fields DEF IInv, ControlInv, ThreadInv, Thread
  <2>3. q # k[p].tgt /\ k[q].tgt # p /\ k[q].tgt # k[p].tgt BY <2>1, <2>2, Awake, Disjoint
  <2>4. /\ \A v \in Va : pt'[<<q, v>>] = pt[<<q, v>>] /\ pt'[<<k[q].tgt, v>>] = pt[<<k[q].tgt, v>>]
        /\ sz'[q] = sz[q]
    BY <2>2, <2>3, FootprintStep DEF Footprint
  <2>5. ASSUME k[q].pc = "cow_remap"
        PROVE  data'[k[q].pg] = data'[pt'[<<q, k[q].va>>].pa]
    <3>1. k[q].pg \in Page /\ k[q].va \in Va /\ pt[<<q, k[q].va>>].cow
      BY <2>2, <2>5 DEF PageInv, CowInv, CowAt
    <3>2. pt[<<q, k[q].va>>].pa \in Page BY <2>2, <3>1, PteType DEF ControlInv, PteInv
    <3>3. Hands[q] = k[q].pg BY <2>5, Possessions DEF Holds
    <3>4. ~LagAt(k[q], <<q, k[q].va>>) BY <2>5 DEF LagAt
    <3>5. Entries[<<q, k[q].va>>] = pt[<<q, k[q].va>>].pa BY <2>1, <2>2, <3>1, <3>4, OwnCounted
    <3>6. data'[k[q].pg] = data[k[q].pg] BY <3>1, <3>3, DataKept
    <3>7. data'[pt[<<q, k[q].va>>].pa] = data[pt[<<q, k[q].va>>].pa]
      BY <3>1, <3>2, <3>5, DataKept
    <3> QED BY <2>4, <2>5, <3>1, <3>6, <3>7 DEF Work
  <2>6. ASSUME GrowAt(q), NEW v \in Va, sz[q] <= v, v < k[q].va PROVE Reads(q, v)' = Zero
    <3>1. ~LagAt(k[q], <<q, v>>) BY <2>6 DEF GrowAt, InKalloc, LagAt
    <3>2. Entries[<<q, v>>] = pt[<<q, v>>].pa BY <2>1, <2>2, <3>1, OwnCounted
    <3>3. Reads(q, v)' = Reads(q, v) BY <2>4, <3>2, ReadsKept
    <3> QED BY <2>6, <3>3 DEF Work
  <2>7. ASSUME ForkAt(q), NEW v \in Va, v < k[q].va
        PROVE  pt'[<<k[q].tgt, v>>].pa = pt'[<<q, v>>].pa
    BY <2>4, <2>7 DEF Work
  <2>8. k[q].pc = "copyout" => k[q].va \in Va BY DEF Work
  <2>9. (GrowAt(q)' <=> GrowAt(q)) /\ (ForkAt(q)' <=> ForkAt(q))
    BY <2>1 DEF GrowAt, ForkAt, InKalloc
  <2> QED BY <2>1, <2>4, <2>5, <2>6, <2>7, <2>8, <2>9 DEF Work
<1> QED BY <1>1, <1>2

\* The steps that start, continue or finish such work.
Works(p) ==
  \/ KallocPop(p) \/ KallocEmpty(p) \/ KallocSetCount(p) \/ KrefincRead(p) \/ KrefincWrite(p)
  \/ CowCopy(p) \/ FaultMap(p) \/ GrowAlloc(p) \/ GrowMap(p) \/ ForkPage(p)
  \/ \E n \in 1 .. NVa : SbrkGrow(p, n)
  \/ \E c \in Proc : ForkStart(p, c)
  \/ \E v \in Va : Copyout(p, v) \/ \E c \in Proc : WaitStatus(p, c, v)

Elsewhere(p) ==
  /\ k'[p].pc \notin {"copyout", "cow_remap", "grow", "grow_map", "fork", "inc", "inc_w"}
  /\ k'[p].pc \in {"pop", "kset"} => k'[p].ret # "grow_map"

\* The other actions do not lead to a label where something is known of it.
LEMMA ElsewhereStep ==
  ASSUME TypeOK, ControlInv, NEW p \in Proc, Step(p), ~Works(p)
  PROVE  Elsewhere(p)
<1>1. k \in [Proc -> Frame] /\ k[p] \in Frame /\ k[p].tgt \in Proc BY Fields DEF TypeOK
<1>2. PageInv(p) /\ FaultInv(p) /\ UnmapInv(p) BY DEF ControlInv, ThreadInv, Thread
<1> USE <1>1, <1>2 DEF Elsewhere, Become, vars, PageInv, FaultInv, FaultAt, UnmapInv, UnmapAt,
  InKalloc, InKfree
<1>3. CASE KfreeRead(p) BY <1>3 DEF KfreeRead
<1>4. ASSUME NEW v \in Va, NEW d \in Val, UserStore(p, v, d) PROVE Elsewhere(p)
  BY <1>4 DEF UserStore
<1>5. ASSUME NEW v \in Va, CowFault(p, v) PROVE Elsewhere(p) BY <1>5 DEF CowFault
<1>6. ASSUME NEW v \in Va, LazyFault(p, v) PROVE Elsewhere(p) BY <1>6 DEF LazyFault
<1>7. ASSUME NEW v \in Va, BadFault(p, v) PROVE Elsewhere(p) BY <1>7 DEF BadFault, Leave, Idle
<1>8. ASSUME NEW v \in Va, CopyinFault(p, v) PROVE Elsewhere(p) BY <1>8 DEF CopyinFault
<1>9. ASSUME NEW v \in Va, CopyinFail(p, v) PROVE Elsewhere(p) BY <1>9 DEF CopyinFail, Leave, Idle
<1>10. ASSUME NEW v \in Va, Copyinstr(p, v) PROVE Elsewhere(p) BY <1>10 DEF Copyinstr, Leave, Idle
<1>11. CASE CowGetRef(p) BY <1>11 DEF CowGetRef
<1>12. CASE CowShared(p) BY <1>12 DEF CowShared
<1>13. CASE CowNoMem(p) BY <1>13 DEF CowNoMem, Leave, Idle
<1>14. CASE FaultNoMem(p) BY <1>14 DEF FaultNoMem, Leave, Idle, FaultFailed
<1>15. CASE FaultMapFail(p) BY <1>15 DEF FaultMapFail, Freeing, FaultFailed
<1>16. CASE CopyoutFault(p) BY <1>16 DEF CopyoutFault
<1>17. ASSUME NEW d \in Val, CopyoutWrite(p, d) PROVE Elsewhere(p)
  BY <1>17 DEF CopyoutWrite, Idle, Unmapping
<1>18. CASE CopyoutFail(p) BY <1>18 DEF CopyoutFail, Leave, Idle
<1>19. CASE SyscallError(p) BY <1>19 DEF SyscallError, Leave, Idle
<1>20. ASSUME NEW n \in 1 .. NVa, SbrkLazy(p, n) PROVE Elsewhere(p) BY <1>20 DEF SbrkLazy
<1>21. ASSUME NEW n \in 1 .. NVa, SbrkShrink(p, n) PROVE Elsewhere(p)
  BY <1>21 DEF SbrkShrink, Unmapping
<1>22. CASE GrowNoMem(p) BY <1>22 DEF GrowNoMem, Unmapping
<1>23. CASE GrowMapFail(p) BY <1>23 DEF GrowMapFail, Unmapping
<1>24. CASE GrowDone(p) BY <1>24 DEF GrowDone, Leave, Idle
<1>25. CASE ShrinkDone(p) BY <1>25 DEF ShrinkDone, UnmapEnd, Leave, Idle
<1>26. CASE GrowUndone(p) BY <1>26 DEF GrowUndone, UnmapEnd, Leave, Idle
<1>27. CASE UnmapSkip(p) BY <1>27 DEF UnmapSkip
<1>28. CASE UnmapFree(p) BY <1>28 DEF UnmapFree
<1>29. CASE ForkPanic(p) BY <1>29 DEF ForkPanic
<1>30. CASE ForkDone(p) BY <1>30 DEF ForkDone, Idle
<1>31. CASE ForkFailed(p) BY <1>31 DEF ForkFailed, UnmapEnd, Leave, Idle
<1>32. CASE Exit(p) BY <1>32 DEF Exit, Leave, Idle
<1>33. CASE KExit(p) BY <1>33 DEF KExit, Leave, Idle
<1>34. CASE InitExit(p) BY <1>34 DEF InitExit, Leave, Idle
<1>35. CASE ReapDone(p) BY <1>35 DEF ReapDone, UnmapEnd, Leave, Idle
<1>36. CASE PanicLoop(p) BY <1>36 DEF PanicLoop, vars
<1>37. ASSUME NEW c \in Proc, Wait(p, c) PROVE Elsewhere(p) BY <1>37 DEF Wait, Unmapping
<1>38. CASE KfreePush(p) BY <1>38 DEF KfreePush
<1>39. CASE KfreeWrite(p) /\ k[p].tmp > 1 BY <1>39 DEF KfreeWrite
<1>40. CASE KfreeWrite(p) /\ ~(k[p].tmp > 1) BY <1>40 DEF KfreeWrite
<1>41. CASE CowSole(p) BY <1>41 DEF CowSole, Leave, Idle
<1>42. CASE CowRemap(p) BY <1>42 DEF CowRemap, Mappages, Freeing
<1>43. CASE UnmapClear(p) BY <1>43 DEF UnmapClear
<1>44. CASE ForkMapFail(p) BY <1>44 DEF ForkMapFail, Unmapping
<1> QED
  BY <1>3, <1>4, <1>5, <1>6, <1>7, <1>8, <1>9, <1>10, <1>11, <1>12, <1>13, <1>14, <1>15, <1>16,
    <1>17, <1>18, <1>19, <1>20, <1>21, <1>22, <1>23, <1>24, <1>25, <1>26, <1>27, <1>28, <1>29,
    <1>30, <1>31, <1>32, <1>33, <1>34, <1>35, <1>36, <1>37, <1>38, <1>39, <1>40, <1>41, <1>42,
    <1>43, <1>44 DEF Works, Step, Kalloc, Kfree, Krefinc, UserAccess, Cowhandler, Vmfault,
    CopyFromUser, CopyToUser, Sbrk, Unmap, Fork, ExitWait

\* The thread that steps knows of its own work what it has just done.
LEMMA WorkOwn ==
  ASSUME IInv, NEW p \in Proc, Work(p), Step(p)
  PROVE  Work(p)'
<1>1. /\ TypeOK /\ ControlInv /\ PageInv(p) /\ CowInv(p) /\ FaultInv(p) /\ GrowInv(p) /\ ForkInv(p)
      /\ k \in [Proc -> Frame] /\ k[p] \in Frame /\ k[p].tgt \in Proc
      /\ k[p].va \in 0 .. NVa /\ sz[p] \in 0 .. NVa /\ k[p].pc # "off"
      /\ pt \in [Proc \X Va -> PTE] /\ data \in [Page -> Data] /\ sz \in [Proc -> 0 .. NVa]
  BY Fields, Awake DEF IInv, ControlInv, ThreadInv, Thread, TypeOK
<1>2. CASE ~Works(p)
  <2>1. Elsewhere(p) BY <1>1, <1>2, ElsewhereStep
  <2> QED BY <2>1 DEF Work, GrowAt, ForkAt, InKalloc, Elsewhere
\* While sbrk calls kalloc the pages it has added read as they did.
<1>3. ASSUME GrowAt(p), NEW v \in Va, sz[p] <= v, v < k[p].va, UNCHANGED pt
      PROVE  Reads(p, v)' = Zero
  <2>1. ~LagAt(k[p], <<p, v>>) BY <1>3 DEF GrowAt, InKalloc, LagAt
  <2>2. Entries[<<p, v>>] = pt[<<p, v>>].pa BY <1>1, <2>1, OwnCounted
  <2>3. ~Stores(p, v)
    BY <1>3 DEF GrowAt, InKalloc, Stores, UserStore, CopyoutWrite
  <2>4. Reads(p, v)' = Reads(p, v) BY <1>3, <2>2, <2>3, ReadsKept
  <2> QED BY <1>3, <2>4 DEF Work
<1>4. CASE KallocPop(p) \/ KallocEmpty(p) \/ KallocSetCount(p) \/ GrowAlloc(p)
  <2>1. /\ k'[p].pc \in {"kset", "cow_copy", "fault_map", "grow_map", "pop"}
        /\ k'[p].va = k[p].va /\ (GrowAt(p)' => GrowAt(p)) /\ UNCHANGED <<pt, sz>>
    <3>1. CASE KallocPop(p)
      <4>1. PICK a \in Page : k' = [k EXCEPT ![p] = [k[p] EXCEPT !.pc = "kset", !.pg = a]]
        BY <3>1 DEF KallocPop, Become
      <4> QED BY <1>1, <3>1, <4>1 DEF KallocPop, PageInv, GrowAt, InKalloc, tab, Frame
    <3>2. CASE KallocEmpty(p)
      BY <1>1, <3>2 DEF KallocEmpty, Become, PageInv, GrowAt, InKalloc, tab, Frame
    <3>3. CASE KallocSetCount(p)
      BY <1>1, <3>3 DEF KallocSetCount, Become, PageInv, GrowAt, InKalloc, tab, Frame
    <3>4. CASE GrowAlloc(p)
      BY <1>1, <3>4 DEF GrowAlloc, Become, PageInv, GrowAt, InKalloc, tab, Frame
    <3> QED BY <1>4, <3>1, <3>2, <3>3, <3>4
  <2>2. ASSUME GrowAt(p)', NEW v \in Va, sz'[p] <= v, v < k'[p].va PROVE Reads(p, v)' = Zero
    BY <1>3, <2>1, <2>2
  <2> QED BY <2>1, <2>2 DEF Work, ForkAt
<1>5. CASE KrefincRead(p)
  <2>1. /\ k'[p].pc = "inc_w" /\ k'[p].va = k[p].va /\ k'[p].tgt = k[p].tgt /\ UNCHANGED pt
        /\ ForkAt(p)
    BY <1>1, <1>5 DEF KrefincRead, Become, tab, ForkAt, Frame
  <2> QED BY <2>1 DEF Work, GrowAt, InKalloc
<1>6. CASE KrefincWrite(p)
  <2>1. /\ k'[p].pc = "fork" /\ k'[p].va = k[p].va + 1 /\ k'[p].tgt = k[p].tgt /\ UNCHANGED pt
        /\ ForkAt(p) /\ k[p].pc = "inc_w"
    BY <1>1, <1>6 DEF KrefincWrite, Become, tab, ForkAt, Frame
  <2>2. pt[<<k[p].tgt, k[p].va>>].pa = pt[<<p, k[p].va>>].pa BY <1>1, <2>1 DEF ForkInv
  <2>3. ASSUME NEW v \in Va, v < k[p].va + 1 PROVE pt[<<k[p].tgt, v>>].pa = pt[<<p, v>>].pa
    <3>1. v < k[p].va \/ v = k[p].va BY <1>1, <2>3 DEF Va
    <3> QED BY <2>1, <2>2, <3>1 DEF Work
  <2> QED BY <2>1, <2>3 DEF Work, GrowAt, InKalloc
<1>7. CASE CowCopy(p)
  <2>1. /\ k'[p].pc = "cow_remap" /\ k'[p].va = k[p].va /\ k'[p].pg = k[p].pg /\ UNCHANGED pt
        /\ k[p].pg \in Page /\ k[p].va \in Va
        /\ data' = [data EXCEPT ![k[p].pg] = data[pt[<<p, k[p].va>>].pa]]
    BY <1>1, <1>7, Fields DEF CowCopy, Become, tab, Frame, CowInv, CowAt, InKalloc
  <2>2. pt[<<p, k[p].va>>].pa \in Page
    BY <1>1, <1>7, <2>1, PteType DEF CowCopy, CowInv, CowAt, InKalloc, ControlInv, PteInv
  <2>3. data'[k[p].pg] = data'[pt[<<p, k[p].va>>].pa] BY <1>1, <2>1, <2>2
  <2> QED BY <2>1, <2>3 DEF Work, GrowAt, ForkAt, InKalloc
<1>8. CASE FaultMap(p)
  <2>1. k'[p].pc \in {"user", "copyout"} /\ k'[p].va = k[p].va /\ k[p].va \in Va
    BY <1>1, <1>8 DEF FaultMap, Become, Frame, FaultInv, FaultAt, InKalloc
  <2> QED BY <2>1 DEF Work, GrowAt, ForkAt, InKalloc
<1>9. CASE GrowMap(p)
  <2>1. /\ k'[p].pc = "grow" /\ k'[p].va = k[p].va + 1 /\ UNCHANGED sz /\ GrowAt(p)
        /\ data' = [data EXCEPT ![k[p].pg] = Zero]
    BY <1>1, <1>9 DEF GrowMap, Become, GrowAt, InKalloc, Frame
  <2>2. /\ k[p].va \in Va /\ k[p].pg \in Page
        /\ pt' = [pt EXCEPT ![<<p, k[p].va>>] = Writable(k[p].pg)]
    BY <1>1, <1>9, MapEffect
  <2>3. ASSUME NEW v \in Va, v = k[p].va PROVE Reads(p, v)' = Zero
    <3>1. pt'[<<p, v>>].pa = k[p].pg BY <1>1, <2>2, <2>3 DEF Writable
    <3>2. data'[k[p].pg] = Zero BY <1>1, <2>1, <2>2
    <3> QED BY <3>1, <3>2 DEF Reads
  <2>4. ASSUME NEW v \in Va, sz[p] <= v, v < k[p].va PROVE Reads(p, v)' = Zero
    <3>1. ~LagAt(k[p], <<p, v>>) BY <2>1 DEF GrowAt, InKalloc, LagAt
    <3>2. Entries[<<p, v>>] = pt[<<p, v>>].pa BY <1>1, <3>1, OwnCounted
    <3>3. ~Stores(p, v) BY <1>9 DEF GrowMap, Stores, UserStore, CopyoutWrite
    <3>4. pt'[<<p, v>>] = pt[<<p, v>>] BY <1>1, <2>2, <2>4
    <3>5. Reads(p, v)' = Reads(p, v) BY <3>2, <3>3, <3>4, ReadsKept
    <3> QED BY <2>1, <2>4, <3>5 DEF Work
  <2>5. ASSUME NEW v \in Va, sz'[p] <= v, v < k'[p].va PROVE Reads(p, v)' = Zero
    <3>1. v < k[p].va \/ v = k[p].va BY <1>1, <2>1, <2>5 DEF Va
    <3>2. CASE v < k[p].va BY <2>1, <2>4, <2>5, <3>2
    <3>3. CASE v = k[p].va BY <2>3, <3>3
    <3> QED BY <3>1, <3>2, <3>3
  <2> QED BY <2>1, <2>5 DEF Work, ForkAt
<1>10. CASE ForkPage(p)
  <2>1. /\ k'[p].pc = "inc" /\ k'[p].va = k[p].va /\ k'[p].tgt = k[p].tgt /\ ForkAt(p)
        /\ pt' = [pt EXCEPT ![<<p, k[p].va>>] = Shared(pt[<<p, k[p].va>>]),
                            ![<<k[p].tgt, k[p].va>>] = Shared(pt[<<p, k[p].va>>])]
    BY <1>1, <1>10 DEF ForkPage, Become, Frame, ForkAt
  <2>2. ASSUME NEW v \in Va, v < k[p].va PROVE pt'[<<k[p].tgt, v>>].pa = pt'[<<p, v>>].pa
    <3>1. pt'[<<k[p].tgt, v>>] = pt[<<k[p].tgt, v>>] /\ pt'[<<p, v>>] = pt[<<p, v>>]
      BY <1>1, <2>1, <2>2 DEF Va
    <3> QED BY <2>1, <2>2, <3>1 DEF Work
  <2> QED BY <2>1, <2>2 DEF Work, GrowAt, InKalloc
<1>11. ASSUME NEW n \in 1 .. NVa, SbrkGrow(p, n) PROVE Work(p)'
  <2>1. k'[p].pc = "grow" /\ k'[p].va = sz[p] /\ UNCHANGED sz
    BY <1>1, <1>11 DEF SbrkGrow, Become, tab, Frame
  <2> QED BY <1>1, <2>1 DEF Work, ForkAt, Va
<1>12. ASSUME NEW c \in Proc, ForkStart(p, c) PROVE Work(p)'
  <2>1. k'[p].pc = "fork" /\ k'[p].va = 0 BY <1>1, <1>12 DEF ForkStart, Become, Frame
  <2> QED BY <2>1 DEF Work, GrowAt, InKalloc, Va
<1>13. ASSUME NEW v \in Va, Copyout(p, v) \/ \E c \in Proc : WaitStatus(p, c, v)
       PROVE  Work(p)'
  <2>1. k'[p].pc = "copyout" /\ k'[p].va = v
    <3>1. CASE Copyout(p, v) BY <1>1, <3>1 DEF Copyout, Become, Frame
    <3>2. ASSUME NEW c \in Proc, WaitStatus(p, c, v) PROVE k'[p].pc = "copyout" /\ k'[p].va = v
      BY <1>1, <3>2 DEF WaitStatus, Become, Frame
    <3> QED BY <1>13, <3>1, <3>2
  <2> QED BY <2>1 DEF Work, GrowAt, ForkAt, InKalloc
<1> QED BY <1>2, <1>4, <1>5, <1>6, <1>7, <1>8, <1>9, <1>10, <1>11, <1>12, <1>13 DEF Works

\* With the counts, what threads know of their work is inductive.
THEOREM FullCorrect == Spec => []FullInv
<1>1. Init => WorkInv
  <2> SUFFICES ASSUME Init PROVE WorkInv OBVIOUS
  <2>1. \A q \in Proc : k[q].pc \in {"user", "off"} BY DEF Init, Idle
  <2> QED BY <2>1 DEF WorkInv, Work, GrowAt, ForkAt, InKalloc
<1>2. IInv /\ WorkInv /\ [Next]_vars => WorkInv'
  <2> SUFFICES ASSUME IInv, WorkInv, [Next]_vars PROVE WorkInv' OBVIOUS
  <2>1. ASSUME NEW p \in Proc, Step(p) PROVE WorkInv'
    <3>1. \A q \in Proc : Work(q)' BY <2>1, WorkOwn, WorkOthers DEF WorkInv
    <3> QED BY <3>1 DEF WorkInv
  <2>2. CASE UNCHANGED vars
    BY <2>2 DEF vars, WorkInv, Work, GrowAt, ForkAt, InKalloc, Reads
  <2> QED BY <2>1, <2>2 DEF Next
<1> QED BY <1>1, <1>2, CountsCorrect, PTL DEF Spec, FullInv

-----------------------------------------------------------------------------
(* What a process reads. *)

\* A thread in the middle of shrinking is in uvmunmap.
LEMMA Shrinking ==
  ASSUME TypeOK, ControlInv, NEW q \in Proc, k[q].uret = "shrink"
  PROVE  UnmapAt(q)
<1>1. k[q] \in Frame BY Fields
<1>2. PageInv(q) /\ CowInv(q) /\ FaultInv(q) /\ GrowInv(q) /\ ForkInv(q)
  BY DEF ControlInv, ThreadInv, Thread
<1> QED
  BY <1>1, <1>2 DEF Frame, PageInv, CowInv, CowAt, FaultInv, FaultAt, GrowInv, GrowAt, ForkInv,
    ForkAt, UnmapAt, InKfree, InKalloc

\* The size of what a process sees, which uvmunmap does not touch any more.
LEMMA VisibleType ==
  ASSUME TypeOK, ControlInv, NEW q \in Proc
  PROVE  /\ VisibleSz(q) \in 0 .. NVa /\ VisibleSz(q) <= sz[q]
         /\ UnmapAt(q) /\ k[q].tgt = q => VisibleSz(q) <= k[q].va
<1>1. /\ UnmapInv(q) /\ k[q].nsz \in 0 .. NVa /\ sz[q] \in 0 .. NVa
      /\ k[q].va \in 0 .. NVa /\ k[q].hi \in 0 .. NVa
  BY Fields DEF ControlInv, ThreadInv, Thread
<1>2. CASE k[q].uret = "shrink"
  <2>1. UnmapAt(q) BY <1>2, Shrinking
  <2>2. k[q].nsz <= k[q].va /\ k[q].va <= k[q].hi /\ k[q].hi = sz[q]
    BY <1>1, <1>2, <2>1 DEF UnmapInv
  <2> QED BY <1>1, <1>2, <2>2, SizeAssumption DEF VisibleSz
<1>3. CASE k[q].uret # "shrink"
  <2>1. VisibleSz(q) = sz[q] BY <1>3 DEF VisibleSz
  <2>2. UnmapAt(q) /\ k[q].tgt = q => sz[q] <= k[q].va BY <1>1, <1>3 DEF UnmapInv
  <2> QED BY <1>1, <2>1, <2>2, SizeAssumption
<1> QED BY <1>2, <1>3

\* The entry of a page that a process sees counts.
LEMMA VisibleEntry ==
  ASSUME TypeOK, ControlInv, NEW q \in Proc, state[q] = "live", NEW v \in 0 .. (VisibleSz(q) - 1)
  PROVE  v \in Va /\ v < sz[q] /\ Entries[<<q, v>>] = pt[<<q, v>>].pa
<1>1. v \in Va /\ v < sz[q] /\ v < VisibleSz(q)
  BY VisibleType, Fields, SizeAssumption DEF Va
<1>2. ~LagAt(k[q], <<q, v>>)
  <2> SUFFICES ASSUME LagAt(k[q], <<q, v>>) PROVE FALSE OBVIOUS
  <2>1. k[q].tgt = q /\ k[q].va = v BY DEF LagAt
  <2>2. k[q].pc \notin {"inc", "inc_w"} BY <2>1 DEF ControlInv, ThreadInv, Thread, ForkInv, ForkAt
  <2>3. UnmapAt(q) BY <2>2 DEF LagAt, UnmapAt, InKfree
  <2>4. VisibleSz(q) <= v BY <2>1, <2>3, VisibleType
  <2> QED BY <1>1, <2>4, VisibleType, SizeAssumption DEF Va
<1>3. k[q].pc # "off" BY DEF ControlInv, TableInv
<1> QED BY <1>1, <1>2, <1>3, OwnCounted

\* What a process sees changes by its own stores only.
LEMMA ReadsStep ==
  ASSUME IInv, NEW p \in Proc, Work(p), Step(p), NEW q \in Proc, state[q] = "live",
         NEW v \in 0 .. (VisibleSz(q) - 1), ~(q = p /\ Stores(p, v))
  PROVE  Reads(q, v)' = Reads(q, v)
<1>1. /\ TypeOK /\ ControlInv /\ OneRefInv /\ k[p].tgt \in Proc
      /\ k[p].pc # "off" /\ k[q].pc # "off"
      /\ v \in Va /\ v < sz[q] /\ v < VisibleSz(q) /\ Entries[<<q, v>>] = pt[<<q, v>>].pa
      /\ pt \in [Proc \X Va -> PTE] /\ sz \in [Proc -> 0 .. NVa] /\ VisibleSz(q) \in 0 .. NVa
      /\ data \in [Page -> Data]
  <2>1. TypeOK /\ ControlInv /\ OneRefInv BY DEF IInv
  <2>2. k[q].pc # "off" BY <2>1 DEF ControlInv, TableInv
  <2>3. VisibleSz(q) \in 0 .. NVa BY <2>1, VisibleType
  <2>4. v < VisibleSz(q) BY <2>3, SizeAssumption
  <2> QED BY <2>1, <2>2, <2>3, <2>4, Fields, Awake, VisibleEntry DEF TypeOK
<1>2. CASE pt'[<<q, v>>].pa = pt[<<q, v>>].pa BY <1>1, <1>2, ReadsKept
<1>3. CASE pt'[<<q, v>>].pa # pt[<<q, v>>].pa
  <2>1. q = p
    <3> SUFFICES ASSUME q # p PROVE FALSE OBVIOUS
    <3>1. q # k[p].tgt BY <1>1, Disjoint
    <3>2. pt'[<<q, v>>] = pt[<<q, v>>] BY <1>1, <3>1, FootprintStep DEF Footprint
    <3> QED BY <1>3, <3>2
  <2>2. UNCHANGED pt => FALSE BY <1>3
  <2>3. Moving(p) BY <1>1, <2>2, QuietStep DEF Quiet
  <2>4. ~(KallocPop(p) \/ KallocSetCount(p) \/ KfreeWrite(p) \/ KfreePush(p) \/ KrefincWrite(p))
    BY <2>2 DEF KallocPop, KallocSetCount, KfreeWrite, KfreePush, KrefincWrite, tab
  <2>5. ~CowSole(p)
    <3> SUFFICES ASSUME CowSole(p) PROVE FALSE OBVIOUS
    <3>1. k[p].va \in Va BY <1>1, TableEffect
    <3> QED BY <1>1, <1>3, <2>1, <3>1 DEF CowSole, Writable
  <2>6. ~ForkMapFail(p)
    <3> SUFFICES ASSUME ForkMapFail(p) PROVE FALSE OBVIOUS
    <3>1. k[p].va \in Va BY <1>1, TableEffect
    <3> QED BY <1>1, <1>3, <2>1, <3>1 DEF ForkMapFail, Shared
  <2>7. ~ForkPage(p)
    <3> SUFFICES ASSUME ForkPage(p) PROVE FALSE OBVIOUS
    <3>1. k[p].va \in Va BY <1>1, TableEffect
    <3>2. k[p].tgt # p BY <1>1 DEF ForkPage, ControlInv, ThreadInv, Thread, ForkInv, ForkAt
    <3> QED BY <1>1, <1>3, <2>1, <3>1, <3>2 DEF ForkPage, Shared
  <2>8. ~UnmapClear(p)
    <3> SUFFICES ASSUME UnmapClear(p) PROVE FALSE OBVIOUS
    <3>1. k[p].pc = "clear" /\ k[p].tgt = p /\ k[p].va = v
      BY <1>1, <1>3, <2>1 DEF UnmapClear
    <3>2. UnmapAt(p) BY <3>1 DEF UnmapAt, InKfree
    <3>3. VisibleSz(p) <= v BY <1>1, <3>1, <3>2, VisibleType
    <3> QED BY <1>1, <2>1, <3>3, SizeAssumption DEF Va
  <2>9. ~GrowMap(p)
    <3> SUFFICES ASSUME GrowMap(p) PROVE FALSE OBVIOUS
    <3>1. pt' = [pt EXCEPT ![<<p, k[p].va>>] = Writable(k[p].pg)] BY <1>1, MapEffect
    <3>2. k[p].va = v BY <1>1, <1>3, <2>1, <3>1
    <3>3. sz[p] <= k[p].va
      BY <1>1 DEF GrowMap, ControlInv, ThreadInv, Thread, GrowInv, GrowAt, InKalloc
    <3> QED BY <1>1, <2>1, <3>2, <3>3, SizeAssumption DEF Va
  <2>10. CASE FaultMap(p)
    <3>1. /\ pt' = [pt EXCEPT ![<<p, k[p].va>>] = Writable(k[p].pg)] /\ k[p].pg \in Page
          /\ pt[<<p, k[p].va>>].pa = NoPage /\ data' = [data EXCEPT ![k[p].pg] = Zero]
      BY <1>1, <2>10, MapEffect DEF FaultMap
    <3>2. k[p].va = v BY <1>1, <1>3, <2>1, <3>1
    <3>3. pt'[<<p, v>>].pa = k[p].pg /\ data'[k[p].pg] = Zero
      BY <1>1, <2>1, <3>1, <3>2 DEF Writable
    <3> QED BY <2>1, <3>1, <3>2, <3>3 DEF Reads
  <2>11. CASE CowRemap(p)
    <3>1. /\ pt' = [pt EXCEPT ![<<p, k[p].va>>] = Writable(k[p].pg)] /\ k[p].pg \in Page
          /\ data' = data /\ k[p].pc = "cow_remap"
      BY <1>1, <2>11, RemapEffect DEF CowRemap, mem
    <3>2. k[p].va = v BY <1>1, <1>3, <2>1, <3>1
    <3>3. pt'[<<p, v>>].pa = k[p].pg /\ k[p].pg # NoPage
      BY <1>1, <2>1, <3>1, <3>2, PageAssumption DEF Writable
    <3>4. data[k[p].pg] = data[pt[<<p, v>>].pa] BY <3>1, <3>2 DEF Work
    <3>5. pt[<<p, v>>].pa # NoPage
      BY <1>1, <3>1, <3>2 DEF ControlInv, ThreadInv, Thread, CowInv, CowAt, PteInv
    <3> QED BY <2>1, <3>1, <3>3, <3>4, <3>5 DEF Reads
  <2> QED BY <2>3, <2>4, <2>5, <2>6, <2>7, <2>8, <2>9, <2>10, <2>11 DEF Moving
<1> QED BY <1>2, <1>3

-----------------------------------------------------------------------------
(* The abstract memory. *)

Live == {q \in Proc : state[q] = "live"}

View(q) == [v \in 0 .. (VisibleSz(q) - 1) |-> Reads(q, v)]

\* The abstract memory is what each living process sees.
LEMMA MemIs == MemBar = [q \in Live |-> View(q)]
BY DEF MemBar, Live, View, Reads

\* The same of the next state.
LEMMA MemIsNext == MemBar' = [q \in Live' |-> View(q)']
BY DEF MemBar, Live, View, Reads

\* The other processes keep their memories.
LEMMA OtherViews ==
  ASSUME IInv, NEW p \in Proc, Work(p), Step(p), NEW q \in Proc, q # p, state[q] = "live"
  PROVE  View(q)' = View(q)
<1>1. TypeOK /\ ControlInv /\ k[q].pc # "off" BY DEF IInv, ControlInv, TableInv
<1>2. q # k[p].tgt BY <1>1, Awake, Disjoint
<1>3. k'[q] = k[q] /\ sz'[q] = sz[q] BY <1>1, <1>2, FootprintStep DEF Footprint
<1>4. VisibleSz(q)' = VisibleSz(q) BY <1>3 DEF VisibleSz
<1>5. \A v \in 0 .. (VisibleSz(q) - 1) : Reads(q, v)' = Reads(q, v) BY ReadsStep
<1> QED BY <1>4, <1>5 DEF View

\* A store goes to one page of the memory of its process.
LEMMA StoreSim ==
  ASSUME IInv, NEW p \in Proc, Work(p), Step(p), NEW v \in Va, Stores(p, v)
  PROVE  Private!Next
<1>1. TypeOK /\ ControlInv BY DEF IInv
<1>2. PICK d \in Val : UserStore(p, v, d) \/ (CopyoutWrite(p, d) /\ k[p].va = v) BY DEF Stores
<1>3. /\ pt[<<p, v>>].w /\ pt[<<p, v>>].pa \in Page /\ data' = [data EXCEPT ![pt[<<p, v>>].pa] = d]
      /\ UNCHANGED tab
  BY <1>1, <1>2, StoreEffect
<1>4. state[p] = "live" BY <1>1, Awake DEF ControlInv, TableInv
<1>5. VisibleSz(p) = sz[p] /\ VisibleSz(p)' = sz[p] /\ v \in 0 .. (sz[p] - 1)
  <2>1. /\ k[p].pc \in {"user", "copyout"} /\ k[p].uret = "user"
    BY <1>1, <1>2 DEF UserStore, CopyoutWrite, ControlInv, ThreadInv, Thread, PageInv
  <2>2. k'[p].uret # "shrink"
    <3>1. CASE UserStore(p, v, d) BY <2>1, <3>1 DEF UserStore
    <3>2. CASE CopyoutWrite(p, d)
      BY <1>1, <3>2 DEF CopyoutWrite, Become, Idle, Unmapping, TypeOK
    <3> QED BY <1>2, <3>1, <3>2
  <2>3. Empty(p, sz[p])
    <3>1. ~GrowAt(p) BY <2>1 DEF GrowAt, InKalloc
    <3> QED BY <1>1, <1>4, <2>1, <3>1 DEF ControlInv, ExtentInv, Extent
  <2>4. ~(v >= sz[p]) BY <1>3, <2>3, PageAssumption DEF Empty
  <2> QED BY <1>1, <1>3, <2>1, <2>2, <2>4, Fields, SizeAssumption DEF VisibleSz, Va, tab
<1>6. Reads(p, v)' = d
  <2>1. data'[pt[<<p, v>>].pa] = d BY <1>1, <1>3 DEF TypeOK
  <2> QED BY <1>3, <2>1, PageAssumption DEF Reads, tab
<1>7. ASSUME NEW w \in 0 .. (sz[p] - 1), w # v PROVE Reads(p, w)' = Reads(p, w)
  <2>1. w \in Va /\ Entries[<<p, w>>] = pt[<<p, w>>].pa BY <1>1, <1>4, <1>5, VisibleEntry
  <2>2. CASE pt[<<p, w>>].pa = NoPage BY <1>3, <2>2 DEF Reads, tab
  <2>3. CASE pt[<<p, w>>].pa = pt[<<p, v>>].pa
    <3>1. CountInv /\ WritableInv BY CountsMean DEF IInv
    <3>2. Entries[<<p, v>>] = pt[<<p, v>>].pa BY <1>1, <1>2, StoreEffect
    <3>3. refcnt[pt[<<p, v>>].pa] = 1
      <4>1. Counted(<<p, v>>) BY <1>3, <3>2, PageAssumption DEF Entries
      <4> QED BY <1>3, <3>1, <4>1 DEF WritableInv
    <3>4. <<p, v>> \in Proc \X Va /\ <<p, w>> \in Proc \X Va /\ <<p, v>> # <<p, w>> BY <1>7, <2>1
    <3>5. refcnt[pt[<<p, v>>].pa] >= 2 BY <1>1, <1>3, <2>1, <2>3, <3>1, <3>2, <3>4, TwoOwners
    <3> QED BY <3>3, <3>5
  <2>4. CASE pt[<<p, w>>].pa # NoPage /\ pt[<<p, w>>].pa # pt[<<p, v>>].pa
    <3>1. pt[<<p, w>>].pa \in Page BY <1>1, <2>1, <2>4, PteType
    <3>2. data'[pt[<<p, w>>].pa] = data[pt[<<p, w>>].pa] BY <1>1, <1>3, <2>4, <3>1 DEF TypeOK
    <3> QED BY <1>3, <2>4, <3>2 DEF Reads, tab
  <2> QED BY <2>2, <2>3, <2>4
<1>8. View(p)' = [View(p) EXCEPT ![v] = d] BY <1>5, <1>6, <1>7 DEF View
<1>9. Live' = Live BY <1>3 DEF Live, tab
<1>10. p \in Live /\ MemBar[p] = View(p) /\ v \in DOMAIN MemBar[p]
  BY <1>4, <1>5, MemIs DEF Live, View
<1>11. MemBar' = [MemBar EXCEPT ![p][v] = d]
  <2>1. \A q \in Live : q # p => View(q)' = View(q) BY OtherViews DEF Live
  <2> QED BY <1>8, <1>9, <1>10, <2>1, MemIs, MemIsNext
<1> QED BY <1>10, <1>11, MemIs, SizeAssumption DEF Private!Next, Private!Store, Private!Pages, Va

\* A step that stores nothing and keeps the shape of the memories is not seen.
LEMMA QuietSim ==
  ASSUME IInv, NEW p \in Proc, Work(p), Step(p), SameShape(p), ~\E v \in Va : Stores(p, v)
  PROVE  MemBar' = MemBar
<1>1. Live' = Live BY DEF Live, SameShape
<1>2. ASSUME NEW q \in Live PROVE View(q)' = View(q)
  <2>1. q \in Proc /\ state[q] = "live" BY <1>2 DEF Live
  <2>2. CASE q # p BY <2>1, <2>2, OtherViews
  <2>3. CASE q = p
    <3>1. TypeOK /\ ControlInv BY DEF IInv
    <3>2. ASSUME NEW v \in 0 .. (VisibleSz(p) - 1) PROVE Reads(p, v)' = Reads(p, v)
      <4>1. v \in Va BY <2>1, <2>3, <3>1, VisibleEntry
      <4> QED BY <2>1, <2>3, <4>1, ReadsStep
    <3>3. VisibleSz(p)' = VisibleSz(p) BY DEF SameShape
    <3> QED BY <2>3, <3>2, <3>3 DEF View
  <2> QED BY <2>2, <2>3
<1> QED BY <1>1, <1>2, MemIs, MemIsNext

\* Process p's memory gets m pages; the new ones read as zero.
Resized(p, m) ==
  /\ UNCHANGED state /\ VisibleSz(p)' = m
  /\ \A v \in 0 .. (m - 1) : Reads(p, v)' = IF v < VisibleSz(p) THEN Reads(p, v) ELSE Zero

\* The other memories stay as they are.
LEMMA ResizedSim ==
  ASSUME IInv, NEW p \in Proc, Work(p), Step(p), NEW m \in 0 .. NVa, Resized(p, m)
  PROVE  Private!Next
<1>1. TypeOK /\ ControlInv BY DEF IInv
<1>2. state[p] = "live" BY <1>1, Awake DEF ControlInv, TableInv
<1>3. Live' = Live BY DEF Resized, Live
<1>4. p \in Live /\ MemBar[p] = View(p) /\ DOMAIN MemBar = Live BY <1>2, MemIs DEF Live
<1>5. View(p)' = [v \in 0 .. (m - 1) |-> IF v \in DOMAIN View(p) THEN View(p)[v] ELSE Zero]
  <2>1. VisibleSz(p) \in 0 .. NVa BY <1>1, VisibleType
  <2>2. \A v \in 0 .. (m - 1) : v < VisibleSz(p) <=> v \in 0 .. (VisibleSz(p) - 1)
    BY <2>1, SizeAssumption
  <2> QED BY <2>2 DEF Resized, View
<1>6. \A q \in Live : q # p => View(q)' = View(q) BY OtherViews DEF Live
<1>7. MemBar' = [MemBar EXCEPT ![p] = View(p)'] BY <1>3, <1>4, <1>6, MemIs, MemIsNext
<1>8. Private!Resize(p, m) BY <1>4, <1>5, <1>7 DEF Private!Resize, Private!Pages
<1> QED BY <1>4, <1>8 DEF Private!Next

\* sbrk grants and takes back whole pages.
LEMMA ResizeSim ==
  ASSUME IInv, NEW p \in Proc, Work(p), Step(p), Resizes(p)
  PROVE  Private!Next
<1>1. /\ TypeOK /\ ControlInv /\ k[p] \in Frame /\ k[p].va \in 0 .. NVa /\ k[p].hi \in 0 .. NVa
      /\ k \in [Proc -> Frame] /\ sz \in [Proc -> 0 .. NVa] /\ sz[p] \in 0 .. NVa
      /\ PageInv(p) /\ GrowInv(p)
  BY Fields DEF IInv, TypeOK, ControlInv, ThreadInv, Thread
<1>2. state[p] = "live" BY <1>1, Awake DEF ControlInv, TableInv
<1>3. UNCHANGED <<pt, data>> => \A v : Reads(p, v)' = Reads(p, v) BY DEF Reads
<1>4. ASSUME k[p].pc = "user" PROVE VisibleSz(p) = sz[p] /\ Empty(p, sz[p])
  <2>1. ~GrowAt(p) /\ k[p].uret = "user" BY <1>1, <1>4 DEF GrowAt, InKalloc, PageInv
  <2> QED BY <1>1, <1>2, <2>1 DEF VisibleSz, ControlInv, ExtentInv, Extent
<1>5. ASSUME NEW n \in 1 .. NVa, SbrkLazy(p, n) PROVE Private!Next
  <2>1. /\ sz[p] + n \in 0 .. NVa /\ sz'[p] = sz[p] + n /\ k' = k /\ UNCHANGED <<pt, data, state>>
        /\ k[p].pc = "user" /\ k[p].uret = "user"
    BY <1>1, <1>5, SizeAssumption DEF SbrkLazy, mem, PageInv
  <2>2. ASSUME NEW v \in 0 .. (sz[p] + n - 1), ~(v < sz[p]) PROVE Reads(p, v) = Zero
    <3>1. v \in Va /\ v >= sz[p] BY <1>1, <2>1, <2>2, SizeAssumption DEF Va
    <3> QED BY <1>4, <2>1, <3>1 DEF Empty, Reads
  <2>3. VisibleSz(p)' = sz[p] + n BY <2>1 DEF VisibleSz
  <2>4. VisibleSz(p) = sz[p] /\ \A v : Reads(p, v)' = Reads(p, v) BY <1>3, <1>4, <2>1
  <2>5. ASSUME NEW m \in 0 .. NVa, m = sz[p] + n PROVE Resized(p, m)
    <3>1. VisibleSz(p)' = m /\ UNCHANGED state BY <2>1, <2>3, <2>5
    <3>2. ASSUME NEW v \in 0 .. (m - 1)
          PROVE  Reads(p, v)' = IF v < VisibleSz(p) THEN Reads(p, v) ELSE Zero
      <4>1. CASE v < sz[p] BY <2>4, <4>1
      <4>2. CASE ~(v < sz[p])
        <5>1. v \in 0 .. (sz[p] + n - 1) BY <1>1, <2>5, SizeAssumption
        <5>2. Reads(p, v) = Zero BY <2>2, <4>2, <5>1
        <5> QED BY <2>4, <4>2, <5>2
      <4> QED BY <4>1, <4>2
    <3> QED BY <3>1, <3>2 DEF Resized
  <2> QED BY <2>1, <2>5, ResizedSim
<1>6. CASE GrowDone(p)
  <2>1. /\ sz' = [sz EXCEPT ![p] = k[p].hi] /\ k[p].va = k[p].hi /\ k[p].pc = "grow"
        /\ k' = [k EXCEPT ![p] = Idle(p, "user")] /\ UNCHANGED <<pt, data, state>>
    BY <1>6 DEF GrowDone, Leave, Become, mem
  <2>2. k[p].uret = "user" /\ GrowAt(p) BY <1>1, <2>1 DEF GrowInv, GrowAt
  <2>3. VisibleSz(p) = sz[p] BY <2>2 DEF VisibleSz
  <2>4. VisibleSz(p)' = k[p].hi BY <1>1, <2>1 DEF VisibleSz, Idle
  <2>5. ASSUME NEW v \in 0 .. (k[p].hi - 1), ~(v < sz[p]) PROVE Reads(p, v) = Zero
    <3>1. v \in Va /\ sz[p] <= v /\ v < k[p].va BY <1>1, <2>1, <2>5, SizeAssumption DEF Va
    <3> QED BY <2>2, <3>1 DEF Work
  <2>6. ASSUME NEW m \in 0 .. NVa, m = k[p].hi PROVE Resized(p, m)
    BY <1>3, <2>1, <2>3, <2>4, <2>5, <2>6 DEF Resized
  <2> QED BY <1>1, <2>6, ResizedSim
<1>7. ASSUME NEW n \in 1 .. NVa, SbrkShrink(p, n) PROVE Private!Next
  <2>1. /\ sz[p] - n \in 0 .. NVa /\ k[p].pc = "user" /\ UNCHANGED <<pt, data, state, sz>>
        /\ k' = [k EXCEPT ![p] =
                   [Unmapping(p, sz[p] - n, sz[p], "shrink") EXCEPT !.nsz = sz[p] - n]]
    BY <1>1, <1>7, SizeAssumption DEF SbrkShrink, Become, mem, tab
  <2>2. VisibleSz(p)' = sz[p] - n BY <1>1, <2>1 DEF VisibleSz, Unmapping
  <2>3. ASSUME NEW v \in 0 .. (sz[p] - n - 1) PROVE v < sz[p] BY <1>1, <2>3, SizeAssumption
  <2>4. Resized(p, sz[p] - n) BY <1>3, <1>4, <2>1, <2>2, <2>3 DEF Resized
  <2> QED BY <2>1, <2>4, ResizedSim
<1> QED BY <1>5, <1>6, <1>7 DEF Resizes

\* kexit takes a memory away.
LEMMA ExitSim ==
  ASSUME IInv, NEW p \in Proc, Work(p), Step(p), KExit(p)
  PROVE  Private!Next
<1>1. TypeOK /\ ControlInv BY DEF IInv
<1>2. state[p] = "live" /\ p # InitProc /\ state' = [state EXCEPT ![p] = "zombie"]
  BY <1>1, Awake DEF ControlInv, TableInv, KExit
<1>3. Live' = Live \ {p} BY <1>1, <1>2 DEF Live, TypeOK
<1>4. \A q \in Live : q # p => View(q)' = View(q) BY OtherViews DEF Live
<1>5. MemBar' = [q \in DOMAIN MemBar \ {p} |-> MemBar[q]] BY <1>3, <1>4, MemIs, MemIsNext
<1>6. p \in DOMAIN MemBar BY <1>2, MemIs DEF Live
<1> QED BY <1>2, <1>5, <1>6 DEF Private!Next, Private!Exit

\* When kfork makes the child runnable, the child has its parent's memory.
LEMMA ForkSim ==
  ASSUME IInv, NEW p \in Proc, Work(p), Step(p), ForkDone(p)
  PROVE  Private!Next
<1>1. TypeOK /\ ControlInv /\ ForkInv(p) /\ sz[p] \in 0 .. NVa
  BY Fields DEF IInv, ControlInv, ThreadInv, Thread
<1>2. PICK c \in Proc : c = k[p].tgt BY <1>1, Fields
<1>3. /\ k[p].pc = "fork" /\ k[p].va = sz[p] /\ sz' = [sz EXCEPT ![c] = sz[p]]
      /\ state' = [state EXCEPT ![c] = "live"] /\ UNCHANGED <<pt, data>>
      /\ k' = [k EXCEPT ![c] = Idle(c, "user"), ![p] = Idle(p, "user")]
  BY <1>2 DEF ForkDone, mem
<1>4. ForkAt(p) /\ k[p].uret = "user" /\ c # p /\ state[c] = "used"
  BY <1>1, <1>2, <1>3 DEF ForkInv, ForkAt
<1>5. state[p] = "live" BY <1>1, <1>3 DEF ControlInv, TableInv
<1>6. /\ Live' = Live \union {c} /\ c \notin Live /\ p \in Live /\ DOMAIN MemBar = Live
      /\ MemBar[p] = View(p)
  BY <1>1, <1>3, <1>4, <1>5, MemIs DEF Live, TypeOK
<1>7. VisibleSz(p) = sz[p] /\ VisibleSz(p)' = sz[p] /\ VisibleSz(c)' = sz[p]
  <2>1. k'[p].uret = "user" /\ k'[c].uret = "user" /\ sz'[p] = sz[p] /\ sz'[c] = sz[p]
    BY <1>1, <1>3, <1>4 DEF Idle, TypeOK
  <2> QED BY <1>4, <2>1 DEF VisibleSz
<1>8. ASSUME NEW v \in 0 .. (sz[p] - 1)
      PROVE  Reads(p, v)' = Reads(p, v) /\ Reads(c, v)' = Reads(p, v)
  <2>1. v \in Va /\ v < k[p].va BY <1>1, <1>3, SizeAssumption DEF Va
  <2>2. pt[<<c, v>>].pa = pt[<<p, v>>].pa BY <1>2, <1>4, <2>1 DEF Work
  <2> QED BY <1>3, <2>2 DEF Reads
<1>9. View(p)' = View(p) /\ View(c)' = View(p) BY <1>7, <1>8 DEF View
<1>10. \A q \in Live : q # p => View(q)' = View(q) BY OtherViews DEF Live
<1>11. MemBar' = [q \in DOMAIN MemBar \union {c} |-> IF q = c THEN MemBar[p] ELSE MemBar[q]]
  BY <1>6, <1>9, <1>10, MemIs, MemIsNext
<1> QED BY <1>6, <1>11 DEF Private!Next, Private!Fork

\* The first process starts with zeroed pages.
LEMMA InitSim ==
  ASSUME Init
  PROVE  Private!Init
<1>1. Live = {InitProc} BY ProcAssumption DEF Init, Live
<1>2. VisibleSz(InitProc) = InitSz BY ProcAssumption DEF Init, VisibleSz, Idle
<1>3. ASSUME NEW v \in 0 .. (InitSz - 1) PROVE Reads(InitProc, v) = Zero
  <2>1. PICK f \in [0 .. (InitSz - 1) -> Page] :
          /\ pt = [e \in Proc \X Va |-> IF e[1] = InitProc /\ e[2] < InitSz
                                        THEN [pa |-> f[e[2]], w |-> e[2] >= TextSz, cow |-> FALSE]
                                        ELSE Unmapped]
          /\ data = [a \in Page |-> IF \E w \in 0 .. (InitSz - 1) : f[w] = a THEN Zero ELSE Junk]
    BY DEF Init
  <2>2. v \in Va /\ v < InitSz /\ f[v] \in Page BY <1>3, <2>1, SizeAssumption DEF Va
  <2>3. pt[<<InitProc, v>>].pa = f[v] BY <2>1, <2>2, ProcAssumption
  <2>4. data[f[v]] = Zero BY <2>1, <2>2
  <2> QED BY <2>2, <2>3, <2>4, PageAssumption DEF Reads
<1>4. View(InitProc) = [v \in 0 .. (InitSz - 1) |-> Zero] BY <1>2, <1>3 DEF View
<1> QED BY <1>1, <1>4, MemIs DEF Private!Init, Private!Pages

\* Copy-on-write is invisible: what user programs see of fork, exit, wait, sbrk,
\* page faults and copyout, over all interleavings of the threads in kalloc.c and
\* vm.c, is what they would see if fork copied every page.
THEOREM CopyOnWriteInvisible == Spec => ImplementsPrivate
<1>1. Init => Private!Init BY InitSim
<1>2. IInv /\ WorkInv /\ [Next]_vars => [Private!Next]_MemBar
  <2> SUFFICES ASSUME IInv, WorkInv, [Next]_vars PROVE Private!Next \/ MemBar' = MemBar OBVIOUS
  <2>1. ASSUME NEW p \in Proc, Step(p) PROVE Private!Next \/ MemBar' = MemBar
    <3>1. TypeOK /\ ControlInv /\ Work(p) BY DEF IInv, WorkInv
    <3>2. SameShape(p) \/ Resizes(p) \/ KExit(p) \/ ForkDone(p) BY <2>1, <3>1, PlainStep DEF Plain
    <3>3. CASE \E v \in Va : Stores(p, v) BY <2>1, <3>1, <3>3, StoreSim
    <3>4. CASE SameShape(p) /\ ~\E v \in Va : Stores(p, v) BY <2>1, <3>1, <3>4, QuietSim
    <3> QED BY <2>1, <3>1, <3>2, <3>3, <3>4, ResizeSim, ExitSim, ForkSim
  <2>2. CASE UNCHANGED vars
    <3>1. k' = k /\ sz' = sz /\ pt' = pt /\ state' = state /\ data' = data BY <2>2 DEF vars
    <3>2. Live' = Live BY <3>1 DEF Live
    <3>3. \A q \in Live : View(q)' = View(q) BY <3>1 DEF View, VisibleSz, Reads
    <3> QED BY <3>2, <3>3, MemIs, MemIsNext
  <2> QED BY <2>1, <2>2 DEF Next
<1> QED BY <1>1, <1>2, FullCorrect, PTL DEF Spec, FullInv, ImplementsPrivate, Private!Spec

=============================================================================

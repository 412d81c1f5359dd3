----------------------------- MODULE ProcProofs -----------------------------
(***************************************************************************)
(* The theorems about Proc, for every number of slots, CPUs and pids.      *)
(***************************************************************************)
EXTENDS ProcInv, WellFoundedInduction, TLAPS

\* The smallest child of a process, which reparent and kwait look at next, is
\* one of its children.
LEMMA MinIsLeast ==
  ASSUME NEW S, S \subseteq Nat, S # {}
  PROVE  Min(S) \in S /\ \A y \in S : Min(S) <= y
<1>1. IsWellFoundedOn(OpToRel(<, Nat), Nat) BY NatLessThanWellFounded
<1>2. PICK x \in S : \A y \in S : <<y, x>> \notin OpToRel(<, Nat) BY <1>1, WFMin
<1>3. \A y \in S : ~(y < x)
  <2>1. SUFFICES ASSUME NEW y \in S, y < x PROVE <<y, x>> \in OpToRel(<, Nat) BY <1>2
  <2>2. <<y, x>> \in {ss \in Nat \X Nat : ss[1] < ss[2]} BY <2>1
  <2> QED BY <2>2 DEF OpToRel
<1>4. \E z \in S : \A y \in S : z <= y BY <1>3
<1> QED BY <1>4 DEF Min

\* The slots are natural numbers, and none is the null pointer.
LEMMA Slots ==
  /\ Proc \subseteq Nat /\ None \notin Proc /\ initproc \in Proc /\ initproc # None
  /\ \A p \in Proc : p >= 1
BY ProcAssumption DEF Proc, None, initproc

\* The variables that the parts of IInv speak about, typed.
LEMMA Types ==
  ASSUME IInv
  PROVE  /\ k \in [Proc -> Position] /\ state = [p \in Proc |-> state[p]]
         /\ plock \in [Proc -> Proc \union {None}] /\ wait_lock \in Proc \union {None}
         /\ parent \in [Proc -> Proc \union {None}] /\ chan \in [Proc -> Proc \union {None}]
         /\ cpu \in [Cpu -> Proc \union {None}]
BY DEF IInv, TypeOK

\* Thread p runs at l, and p->lock is not its own.
On(p, l) == k[p].pc = l /\ k[p].ret = l /\ state[p] = "running" /\ plock[p] # p

\* A thread that a CPU runs and that is not in sched belongs to a running process.
LEMMA AtRunning ==
  ASSUME IInv, NEW p \in Proc, NEW l, At(p, l), l # "sched"
  PROVE  On(p, l) /\ k[p] \in Position
BY Slots DEF IInv, TypeOK, At, Runs, CpuInv, PositionInv, LockInv, Position, Label, Preemptible,
    On

\* A thread that goes to l, in a loop on, or into sched; the other threads do nothing.
LEMMA Moves ==
  ASSUME k \in [Proc -> Position], NEW p \in Proc
  PROVE  /\ \A l : Go(p, l) =>
              k'[p].pc = l /\ k'[p].ret = l /\ k'[p].i = k[p].i /\ k'[p].x = k[p].x
         /\ \A l : Sched(p, l) =>
              k'[p].pc = "sched" /\ k'[p].ret = l /\ k'[p].i = k[p].i /\ k'[p].x = k[p].x
         /\ k' = [k EXCEPT ![p] = [@ EXCEPT !.i = k[p].i + 1, !.pre = FALSE]] =>
              k'[p].pc = k[p].pc /\ k'[p].ret = k[p].ret
         /\ \A l : Go(p, l) \/ Sched(p, l) => \A q \in Proc : q # p => k'[q] = k[q]
<1>1. ASSUME NEW l, Go(p, l)
      PROVE  /\ k'[p].pc = l /\ k'[p].ret = l /\ k'[p].i = k[p].i /\ k'[p].x = k[p].x
             /\ \A q \in Proc : q # p => k'[q] = k[q]
  BY <1>1 DEF Go, Position
<1>2. ASSUME NEW l, Sched(p, l)
      PROVE  /\ k'[p].pc = "sched" /\ k'[p].ret = l /\ k'[p].i = k[p].i /\ k'[p].x = k[p].x
             /\ \A q \in Proc : q # p => k'[q] = k[q]
  BY <1>2 DEF Sched, Position
<1>3. ASSUME k' = [k EXCEPT ![p] = [@ EXCEPT !.i = k[p].i + 1, !.pre = FALSE]]
      PROVE  k'[p].pc = k[p].pc /\ k'[p].ret = k[p].ret
  BY <1>3 DEF Position
<1> QED BY <1>1, <1>2, <1>3

\* A step of thread p between two positions outside fork's child, exit and
\* wait that changes nothing but p's own thread.
Outside == {"user", "fork", "kill", "exit", "wait", "ret"}

Quiet(p) ==
  /\ UNCHANGED <<state, parent, chan, plock, wait_lock, cpu>>
  /\ state[p] = "running" /\ k[p].pc \in Outside /\ k[p].ret = k[p].pc
  /\ \A r \in Proc : r # p => k'[r] = k[r]
  /\ k'[p].pc \in Outside /\ k'[p].ret = k'[p].pc

\* System calls, traps and the loops of kkill and allocproc are such steps.
LEMMA QuietStep ==
  ASSUME IInv, NEW p \in Proc,
         \/ SyscallFork(p)
         \/ SyscallExit(p)
         \/ SyscallWait(p)
         \/ InterruptKilled(p)
         \/ SyscallReturn(p)
         \/ NoSlot(p)
         \/ InitExit(p)
         \/ KillNext(p)
         \/ KillNobody(p)
         \/ \E n \in KillPids : SyscallKill(p, n)
         \/ AllocProc(p) /\ state[k[p].i] # "unused"
  PROVE  Quiet(p)
<1>1. k \in [Proc -> Position] /\ p \in Proc BY DEF IInv, TypeOK
<1>2. CASE SyscallFork(p)
  <2>1. At(p, "user") BY <1>2 DEF SyscallFork, Syscall
  <2> QED BY <1>2, <1>1, <2>1, AtRunning DEF SyscallFork, Syscall, Enter, Thread, proc, On,
      Quiet, Outside, Position
<1>3. CASE SyscallExit(p)
  <2>1. At(p, "user") BY <1>3 DEF SyscallExit, Syscall
  <2> QED BY <1>3, <1>1, <2>1, AtRunning DEF SyscallExit, Syscall, Enter, Thread, proc, On,
      Quiet, Outside, Position
<1>4. CASE SyscallWait(p)
  <2>1. At(p, "user") BY <1>4 DEF SyscallWait, Syscall
  <2> QED BY <1>4, <1>1, <2>1, AtRunning DEF SyscallWait, Syscall, Enter, Thread, proc, On,
      Quiet, Outside, Position
<1>5. CASE InterruptKilled(p)
  <2>1. At(p, "user") BY <1>5 DEF InterruptKilled
  <2> QED BY <1>5, <1>1, <2>1, AtRunning DEF InterruptKilled, Enter, Thread, proc, On, Quiet,
      Outside, Position
<1>6. CASE SyscallReturn(p)
  <2>1. At(p, "ret") BY <1>6 DEF SyscallReturn
  <2> QED BY <1>6, <1>1, <2>1, AtRunning DEF SyscallReturn, Enter, Thread, proc, On, Quiet,
      Outside, Position
<1>7. CASE NoSlot(p)
  <2>1. At(p, "fork") BY <1>7 DEF NoSlot
  <2> QED BY <1>7, <1>1, <2>1, AtRunning DEF NoSlot, Enter, Thread, proc, On, Quiet, Outside,
      Position
<1>8. CASE InitExit(p)
  <2>1. At(p, "exit") BY <1>8 DEF InitExit
  <2> QED BY <1>8, <1>1, <2>1, AtRunning DEF InitExit, vars, proc, On, Quiet, Outside, Position
<1>9. CASE KillNext(p)
  <2>1. At(p, "kill") BY <1>9 DEF KillNext
  <2> QED BY <1>9, <1>1, <2>1, AtRunning DEF KillNext, proc, On, Quiet, Outside, Position
<1>10. CASE KillNobody(p)
  <2>1. At(p, "kill") BY <1>10 DEF KillNobody
  <2> QED BY <1>10, <1>1, <2>1, AtRunning DEF KillNobody, Enter, Thread, proc, On, Quiet,
      Outside, Position
<1>11. ASSUME NEW n \in KillPids, SyscallKill(p, n) PROVE Quiet(p)
  <2>1. At(p, "user") BY <1>11 DEF SyscallKill
  <2> QED BY <1>11, <1>1, <2>1, AtRunning DEF SyscallKill, On, Thread, proc, Quiet, Outside,
      Position
<1>12. CASE AllocProc(p) /\ state[k[p].i] # "unused"
  <2>1. At(p, "fork") BY <1>12 DEF AllocProc
  <2>2. /\ UNCHANGED <<state, parent, chan, plock, wait_lock, cpu>>
        /\ k' = [k EXCEPT ![p] = [@ EXCEPT !.i = k[p].i + 1, !.pre = FALSE]]
    BY <1>12 DEF AllocProc, proc
  <2>3. k'[p].pc = k[p].pc /\ k'[p].ret = k[p].ret /\ \A r \in Proc : r # p => k'[r] = k[r]
    BY <1>1, <2>2, Moves
  <2> QED BY <2>1, <2>2, <2>3, AtRunning DEF On, Quiet, Outside
<1> QED BY <1>2, <1>3, <1>4, <1>5, <1>6, <1>7, <1>8, <1>9, <1>10, <1>11, <1>12

\* reparent gives one child to init, or finds none.
LEMMA ReparentEffect ==
  ASSUME NEW p \in Proc, Reparent(p)
  PROVE  \/ /\ Enter(p, "wake_parent") /\ parent' = parent
            /\ \A q \in Proc : parent[q] # p
         \/ /\ Enter(p, "wake_init")
            /\ \E q \in Proc : parent[q] = p /\ parent' = [parent EXCEPT ![q] = initproc]
<1>1. CASE Children(p) = {} BY <1>1 DEF Reparent, Children
<1>2. CASE Children(p) # {}
  <2>1. Children(p) \subseteq Nat BY Slots DEF Children
  <2>2. Min(Children(p)) \in Children(p) BY <1>2, <2>1, MinIsLeast
  <2> QED BY <1>2, <2>2 DEF Reparent, Children
<1> QED BY <1>1, <1>2

\* What kwait looks at next: the first child that it has not seen.
Scans(p, q) ==
  /\ parent[q] = p /\ q >= k[p].i
  /\ \A r \in Proc : parent[r] = p /\ r >= k[p].i => q <= r

\* The slot kwait looks at next is a child of p.
LEMMA ScanEffect ==
  ASSUME NEW p \in Proc, Rest(p) # {}
  PROVE  Min(Rest(p)) \in Proc /\ Scans(p, Min(Rest(p)))
<1>1. Rest(p) \subseteq Nat BY Slots DEF Rest, Children
<1>2. Min(Rest(p)) \in Rest(p) /\ \A r \in Rest(p) : Min(Rest(p)) <= r BY <1>1, MinIsLeast
<1> QED BY <1>2 DEF Rest, Children, Scans

\* Every step leaves each thread where its process state allows.
LEMMA PositionStep ==
  ASSUME IInv, Next
  PROVE  PositionInv'
<1>I. PositionInv /\ LockInv /\ ForkInv BY DEF IInv
<1>1. ASSUME NEW p \in Proc, Quiet(p) PROVE PositionInv'
  BY <1>1, <1>I, Types, Slots DEF Quiet, Outside, Preemptible, PositionInv
<1>2. ASSUME NEW p \in Proc, AllocProc(p), state[k[p].i] = "unused" PROVE PositionInv'
  <2>1. On(p, "fork") BY <1>2, AtRunning DEF AllocProc
  <2>2. PICK s \in Proc : /\ Free(s) /\ state[s] = "unused"
                        /\ state' = [state EXCEPT ![s] = "used"]
                        /\ plock' = [plock EXCEPT ![s] = p]
                        /\ k' = [k EXCEPT ![p] = [Thread("copy") EXCEPT !.x = s]]
                        /\ UNCHANGED <<parent, chan, wait_lock, cpu>>
    BY <1>2 DEF AllocProc
  <2> QED BY <1>I, Types, <2>1, <2>2, Slots DEF On, Free, Thread, Preemptible, PositionInv
<1>3. ASSUME NEW p \in Proc, ForkFail(p) PROVE PositionInv'
  <2>1. On(p, "copy") BY <1>3, AtRunning DEF ForkFail
  <2> QED BY <1>3, <1>I, Types, <2>1, Slots DEF On, ForkFail, FreeProc, Enter, Thread, proc,
      Free, Preemptible, Position, PositionInv, ForkInv, Building
<1>4. ASSUME NEW p \in Proc, ForkCopied(p) PROVE PositionInv'
  <2>1. On(p, "copy") BY <1>4, AtRunning DEF ForkCopied
  <2> QED BY <1>4, <1>I, Types, <2>1, Slots DEF On, ForkCopied, Go, proc, Free, Preemptible,
      Position, PositionInv
<1>5. ASSUME NEW p \in Proc, SetParent(p) PROVE PositionInv'
  <2>1. On(p, "set_parent") BY <1>5, AtRunning DEF SetParent
  <2> QED BY <1>5, <1>I, Types, <2>1, Slots DEF On, SetParent, Go, proc, Free, Preemptible,
      Position, PositionInv
<1>6. ASSUME NEW p \in Proc, SetRunnable(p) PROVE PositionInv'
  <2>1. On(p, "set_runnable") BY <1>6, AtRunning DEF SetRunnable
  <2>2. PICK s \in Proc : s = k[p].x /\ s # p /\ state[s] = "used" /\ parent[s] = p
    BY <1>6, <1>I, <2>1 DEF On, ForkInv, Building
  <2>3. /\ k'[p] = Thread("ret") /\ k'[s] = Thread("user")
        /\ \A q \in Proc : q # p /\ q # s => k'[q] = k[q]
    BY <1>6, Types, <2>2 DEF SetRunnable
  <2>4. /\ Free(s) /\ state' = [state EXCEPT ![s] = "runnable"] 
        /\ UNCHANGED <<parent, chan, plock, wait_lock, cpu>>
    BY <1>6, <2>2 DEF SetRunnable
  <2> QED BY <1>I, Types, <2>1, <2>2, <2>3, <2>4, Slots DEF On, Free, Thread, Preemptible,
      PositionInv
<1>7. ASSUME NEW p \in Proc, ExitStart(p) PROVE PositionInv'
  <2>1. On(p, "exit") BY <1>7, AtRunning DEF ExitStart
  <2> QED BY <1>7, <1>I, Types, <2>1, Slots DEF On, ExitStart, Enter, Thread, proc, Free,
      Preemptible, Position, PositionInv
<1>8. ASSUME NEW p \in Proc, Reparent(p) PROVE PositionInv'
  <2>1. On(p, "reparent") BY <1>8, AtRunning DEF Reparent
  <2>2. UNCHANGED <<state, chan, plock, wait_lock, cpu>> BY <1>8 DEF Reparent
  <2>3. CASE Enter(p, "wake_parent") /\ parent' = parent /\ \A q \in Proc : parent[q] # p
    BY <1>I, Types, <2>1, <2>2, <2>3, Slots DEF On, Enter, Thread, Preemptible, PositionInv
  <2>4. ASSUME Enter(p, "wake_init"), NEW s \in Proc, parent[s] = p,
               parent' = [parent EXCEPT ![s] = initproc]
        PROVE  PositionInv'
    BY <1>I, Types, <2>1, <2>2, <2>4, Slots DEF On, Enter, Thread, Preemptible, PositionInv
  <2> QED BY <1>8, <2>3, <2>4, ReparentEffect
<1>9. ASSUME NEW p \in Proc, WakeInit(p) PROVE PositionInv'
  <2>1. On(p, "wake_init") BY <1>9, AtRunning DEF WakeInit
  <2> QED BY <1>9, <1>I, Types, <2>1, Slots DEF On, WakeInit, Wakeup, Enter, Thread, proc, Free,
      Preemptible, Position, PositionInv
<1>10. ASSUME NEW p \in Proc, WakeParent(p) PROVE PositionInv'
  <2>1. On(p, "wake_parent") BY <1>10, AtRunning DEF WakeParent
  <2> QED BY <1>10, <1>I, Types, <2>1, Slots DEF On, WakeParent, Wakeup, Enter, Thread, proc,
      Free, Preemptible, Position, PositionInv
<1>11. ASSUME NEW p \in Proc, Zombie(p) PROVE PositionInv'
  <2>1. On(p, "zombie") BY <1>11, AtRunning DEF Zombie
  <2> QED BY <1>11, <1>I, Types, <2>1, Slots DEF On, Zombie, Sched, proc, Free, Preemptible,
      Position, PositionInv
<1>12. ASSUME NEW p \in Proc, WaitStart(p) PROVE PositionInv'
  <2>1. On(p, "wait") BY <1>12, AtRunning DEF WaitStart
  <2> QED BY <1>12, <1>I, Types, <2>1, Slots DEF On, WaitStart, Enter, Thread, proc, Free,
      Preemptible, Position, PositionInv
<1>13. ASSUME NEW p \in Proc, ScanChild(p) PROVE PositionInv'
  <2>1. On(p, "scan") BY <1>13, AtRunning DEF ScanChild
  <2>2. PICK s \in Proc : /\ Scans(p, s) /\ Free(s) /\ state[s] # "zombie"
                        /\ k' = [k EXCEPT ![p].i = s + 1]
                        /\ UNCHANGED <<state, parent, chan, plock, wait_lock, cpu>>
    BY <1>13, ScanEffect DEF ScanChild, proc
  <2> QED BY <1>I, Types, <2>1, <2>2, Slots DEF On, Scans, Free, Preemptible, Position, proc,
      PositionInv
<1>14. ASSUME NEW p \in Proc, Reap(p) PROVE PositionInv'
  <2>1. On(p, "scan") BY <1>14, AtRunning DEF Reap
  <2>2. PICK s \in Proc : /\ Scans(p, s) /\ Free(s) /\ state[s] = "zombie"
                        /\ FreeProc(s) /\ wait_lock' = None
                        /\ Enter(p, "ret") /\ UNCHANGED <<plock, cpu>>
    BY <1>14, ScanEffect DEF Reap, proc
  <2> QED BY <1>I, Types, <2>1, <2>2, Slots DEF On, Scans, Free, Preemptible, Position, FreeProc,
      Enter, Thread, PositionInv, LockInv, ForkInv, Building
<1>15. ASSUME NEW p \in Proc, ReapNoCopy(p) PROVE PositionInv'
  <2>1. On(p, "scan") BY <1>15, AtRunning DEF ReapNoCopy
  <2> QED BY <1>15, <1>I, Types, <2>1, Slots DEF On, ReapNoCopy, Enter, Thread, proc, Free,
      Preemptible, Position, PositionInv
<1>16. ASSUME NEW p \in Proc, WaitFail(p) PROVE PositionInv'
  <2>1. On(p, "scan") BY <1>16, AtRunning DEF WaitFail
  <2> QED BY <1>16, <1>I, Types, <2>1, Slots DEF On, WaitFail, Enter, Thread, proc, Free,
      Preemptible, Position, PositionInv
<1>17. ASSUME NEW p \in Proc, WaitOn(p) PROVE PositionInv'
  <2>1. On(p, "scan") BY <1>17, AtRunning DEF WaitOn
  <2> QED BY <1>17, <1>I, Types, <2>1, Slots DEF On, WaitOn, Enter, Thread, Rest, Children, proc,
      Free, Preemptible, Position, PositionInv
<1>18. ASSUME NEW p \in Proc, Sleep(p) PROVE PositionInv'
  <2>1. On(p, "sleep") BY <1>18, AtRunning DEF Sleep
  <2> QED BY <1>18, <1>I, Types, <2>1, Slots DEF On, Sleep, Sched, proc, Free, Preemptible,
      Position, PositionInv
<1>19. ASSUME NEW p \in Proc, Kill(p) PROVE PositionInv'
  <2>1. On(p, "kill") BY <1>19, AtRunning DEF Kill
  <2> QED BY <1>19, <1>I, Types, <2>1, Slots DEF On, Kill, Enter, Thread, proc, Free,
      Preemptible, Position, PositionInv
<1>20. ASSUME NEW p \in Proc, Yield(p) PROVE PositionInv'
  <2>1. On(p, k[p].pc)
    BY <1>20, AtRunning DEF Yield, At, Preemptible
  <2> QED BY <1>20, <1>I, Types, <2>1, Slots DEF On, Yield, Free, Preemptible, Position,
      PositionInv
<1>21. ASSUME NEW c \in Cpu, Swtch(c) PROVE PositionInv'
  BY <1>21, <1>I, Types, Slots DEF Swtch, proc, Preemptible, Position, PositionInv
<1>22. ASSUME NEW c \in Cpu, NEW p \in Proc, Dispatch(c, p) PROVE PositionInv'
  BY <1>22, <1>I, Types, Slots DEF Dispatch, Free, Preemptible, PositionInv, LockInv, ForkInv,
      Building
<1> QED
  BY <1>1, <1>2, <1>3, <1>4, <1>5, <1>6, <1>7, <1>8, <1>9, <1>10, <1>11, <1>12, <1>13, <1>14,
      <1>15, <1>16, <1>17, <1>18, <1>19, <1>20, <1>21, <1>22, QuietStep
  DEF Next, User, Kernel

\* No step lets two CPUs run one process.
LEMMA CpuStep ==
  ASSUME IInv, Next
  PROVE  CpuInv'
<1>I. PositionInv /\ LockInv /\ ForkInv /\ CpuInv BY DEF IInv
<1>1. ASSUME NEW p \in Proc, Quiet(p) PROVE CpuInv'
  BY <1>1, <1>I, Types, Slots DEF Quiet, Outside, Preemptible, CpuInv
<1>2. ASSUME NEW p \in Proc, AllocProc(p), state[k[p].i] = "unused" PROVE CpuInv'
  <2>1. On(p, "fork") BY <1>2, AtRunning DEF AllocProc
  <2>2. PICK s \in Proc : /\ Free(s) /\ state[s] = "unused"
                        /\ state' = [state EXCEPT ![s] = "used"]
                        /\ plock' = [plock EXCEPT ![s] = p]
                        /\ k' = [k EXCEPT ![p] = [Thread("copy") EXCEPT !.x = s]]
                        /\ UNCHANGED <<parent, chan, wait_lock, cpu>>
    BY <1>2 DEF AllocProc
  <2> QED BY <1>I, Types, <2>1, <2>2, Slots DEF On, Free, Thread, Preemptible, CpuInv
<1>3. ASSUME NEW p \in Proc, ForkFail(p) PROVE CpuInv'
  <2>1. On(p, "copy") BY <1>3, AtRunning DEF ForkFail
  <2> QED BY <1>3, <1>I, Types, <2>1, Slots DEF On, ForkFail, FreeProc, Enter, Thread, proc,
      Free, Preemptible, Position, PositionInv, ForkInv, Building, CpuInv
<1>4. ASSUME NEW p \in Proc, ForkCopied(p) PROVE CpuInv'
  <2>1. On(p, "copy") BY <1>4, AtRunning DEF ForkCopied
  <2> QED BY <1>4, <1>I, Types, <2>1, Slots DEF On, ForkCopied, Go, proc, Free, Preemptible,
      Position, CpuInv
<1>5. ASSUME NEW p \in Proc, SetParent(p) PROVE CpuInv'
  <2>1. On(p, "set_parent") BY <1>5, AtRunning DEF SetParent
  <2> QED BY <1>5, <1>I, Types, <2>1, Slots DEF On, SetParent, Go, proc, Free, Preemptible,
      Position, CpuInv
<1>6. ASSUME NEW p \in Proc, SetRunnable(p) PROVE CpuInv'
  <2>1. On(p, "set_runnable") BY <1>6, AtRunning DEF SetRunnable
  <2>2. PICK s \in Proc : s = k[p].x /\ s # p /\ state[s] = "used" /\ parent[s] = p
    BY <1>6, <1>I, <2>1 DEF On, ForkInv, Building
  <2>3. /\ k'[p] = Thread("ret") /\ k'[s] = Thread("user")
        /\ \A q \in Proc : q # p /\ q # s => k'[q] = k[q]
    BY <1>6, Types, <2>2 DEF SetRunnable
  <2>4. /\ Free(s) /\ state' = [state EXCEPT ![s] = "runnable"] 
        /\ UNCHANGED <<parent, chan, plock, wait_lock, cpu>>
    BY <1>6, <2>2 DEF SetRunnable
  <2> QED BY <1>I, Types, <2>1, <2>2, <2>3, <2>4, Slots DEF On, Free, Thread, Preemptible,
      PositionInv, CpuInv
<1>7. ASSUME NEW p \in Proc, ExitStart(p) PROVE CpuInv'
  <2>1. On(p, "exit") BY <1>7, AtRunning DEF ExitStart
  <2> QED BY <1>7, <1>I, Types, <2>1, Slots DEF On, ExitStart, Enter, Thread, proc, Free,
      Preemptible, Position, CpuInv
<1>8. ASSUME NEW p \in Proc, Reparent(p) PROVE CpuInv'
  <2>1. On(p, "reparent") BY <1>8, AtRunning DEF Reparent
  <2>2. UNCHANGED <<state, chan, plock, wait_lock, cpu>> BY <1>8 DEF Reparent
  <2>3. CASE Enter(p, "wake_parent") /\ parent' = parent /\ \A q \in Proc : parent[q] # p
    BY <1>I, Types, <2>1, <2>2, <2>3, Slots DEF On, Enter, Thread, Preemptible, CpuInv
  <2>4. ASSUME Enter(p, "wake_init"), NEW s \in Proc, parent[s] = p,
               parent' = [parent EXCEPT ![s] = initproc]
        PROVE  CpuInv'
    BY <1>I, Types, <2>1, <2>2, <2>4, Slots DEF On, Enter, Thread, Preemptible, CpuInv
  <2> QED BY <1>8, <2>3, <2>4, ReparentEffect
<1>9. ASSUME NEW p \in Proc, WakeInit(p) PROVE CpuInv'
  <2>1. On(p, "wake_init") BY <1>9, AtRunning DEF WakeInit
  <2> QED BY <1>9, <1>I, Types, <2>1, Slots DEF On, WakeInit, Wakeup, Enter, Thread, proc, Free,
      Preemptible, Position, CpuInv
<1>10. ASSUME NEW p \in Proc, WakeParent(p) PROVE CpuInv'
  <2>1. On(p, "wake_parent") BY <1>10, AtRunning DEF WakeParent
  <2> QED BY <1>10, <1>I, Types, <2>1, Slots DEF On, WakeParent, Wakeup, Enter, Thread, proc,
      Free, Preemptible, Position, CpuInv
<1>11. ASSUME NEW p \in Proc, Zombie(p) PROVE CpuInv'
  <2>1. On(p, "zombie") BY <1>11, AtRunning DEF Zombie
  <2> QED BY <1>11, <1>I, Types, <2>1, Slots DEF On, Zombie, Sched, proc, Free, Preemptible,
      Position, CpuInv
<1>12. ASSUME NEW p \in Proc, WaitStart(p) PROVE CpuInv'
  <2>1. On(p, "wait") BY <1>12, AtRunning DEF WaitStart
  <2> QED BY <1>12, <1>I, Types, <2>1, Slots DEF On, WaitStart, Enter, Thread, proc, Free,
      Preemptible, Position, CpuInv
<1>13. ASSUME NEW p \in Proc, ScanChild(p) PROVE CpuInv'
  <2>1. On(p, "scan") BY <1>13, AtRunning DEF ScanChild
  <2>2. PICK s \in Proc : /\ Scans(p, s) /\ Free(s) /\ state[s] # "zombie"
                        /\ k' = [k EXCEPT ![p].i = s + 1]
                        /\ UNCHANGED <<state, parent, chan, plock, wait_lock, cpu>>
    BY <1>13, ScanEffect DEF ScanChild, proc
  <2> QED BY <1>I, Types, <2>1, <2>2, Slots DEF On, Scans, Free, Preemptible, Position, proc,
      CpuInv
<1>14. ASSUME NEW p \in Proc, Reap(p) PROVE CpuInv'
  <2>1. On(p, "scan") BY <1>14, AtRunning DEF Reap
  <2>2. PICK s \in Proc : /\ Scans(p, s) /\ Free(s) /\ state[s] = "zombie"
                        /\ FreeProc(s) /\ wait_lock' = None
                        /\ Enter(p, "ret") /\ UNCHANGED <<plock, cpu>>
    BY <1>14, ScanEffect DEF Reap, proc
  <2> QED BY <1>I, Types, <2>1, <2>2, Slots DEF On, Scans, Free, Preemptible, Position, FreeProc,
      Enter, Thread, CpuInv
<1>15. ASSUME NEW p \in Proc, ReapNoCopy(p) PROVE CpuInv'
  <2>1. On(p, "scan") BY <1>15, AtRunning DEF ReapNoCopy
  <2> QED BY <1>15, <1>I, Types, <2>1, Slots DEF On, ReapNoCopy, Enter, Thread, proc, Free,
      Preemptible, Position, CpuInv
<1>16. ASSUME NEW p \in Proc, WaitFail(p) PROVE CpuInv'
  <2>1. On(p, "scan") BY <1>16, AtRunning DEF WaitFail
  <2> QED BY <1>16, <1>I, Types, <2>1, Slots DEF On, WaitFail, Enter, Thread, proc, Free,
      Preemptible, Position, CpuInv
<1>17. ASSUME NEW p \in Proc, WaitOn(p) PROVE CpuInv'
  <2>1. On(p, "scan") BY <1>17, AtRunning DEF WaitOn
  <2> QED BY <1>17, <1>I, Types, <2>1, Slots DEF On, WaitOn, Enter, Thread, Rest, Children, proc,
      Free, Preemptible, Position, CpuInv
<1>18. ASSUME NEW p \in Proc, Sleep(p) PROVE CpuInv'
  <2>1. On(p, "sleep") BY <1>18, AtRunning DEF Sleep
  <2> QED BY <1>18, <1>I, Types, <2>1, Slots DEF On, Sleep, Sched, proc, Free, Preemptible,
      Position, CpuInv
<1>19. ASSUME NEW p \in Proc, Kill(p) PROVE CpuInv'
  <2>1. On(p, "kill") BY <1>19, AtRunning DEF Kill
  <2> QED BY <1>19, <1>I, Types, <2>1, Slots DEF On, Kill, Enter, Thread, proc, Free,
      Preemptible, Position, CpuInv
<1>20. ASSUME NEW p \in Proc, Yield(p) PROVE CpuInv'
  <2>1. On(p, k[p].pc)
    BY <1>20, AtRunning DEF Yield, At, Preemptible
  <2> QED BY <1>20, <1>I, Types, <2>1, Slots DEF On, Yield, Free, Preemptible, Position, CpuInv
<1>21. ASSUME NEW c \in Cpu, Swtch(c) PROVE CpuInv'
  BY <1>21, <1>I, Types, Slots DEF Swtch, proc, Preemptible, Position, CpuInv
<1>22. ASSUME NEW c \in Cpu, NEW p \in Proc, Dispatch(c, p) PROVE CpuInv'
  BY <1>22, <1>I, Types, Slots DEF Dispatch, Free, Preemptible, PositionInv, LockInv, ForkInv,
      Building, CpuInv
<1> QED
  BY <1>1, <1>2, <1>3, <1>4, <1>5, <1>6, <1>7, <1>8, <1>9, <1>10, <1>11, <1>12, <1>13, <1>14,
      <1>15, <1>16, <1>17, <1>18, <1>19, <1>20, <1>21, <1>22, QuietStep
  DEF Next, User, Kernel

\* Every step hands p->lock over as sched, forkret and kfork do.
LEMMA LockStep ==
  ASSUME IInv, Next
  PROVE  LockInv'
<1>I. PositionInv /\ LockInv /\ ForkInv /\ CpuInv BY DEF IInv
<1>1. ASSUME NEW p \in Proc, Quiet(p) PROVE LockInv'
  BY <1>1, <1>I, Types, Slots DEF Quiet, Outside, Preemptible, LockInv
<1>2. ASSUME NEW p \in Proc, AllocProc(p), state[k[p].i] = "unused" PROVE LockInv'
  <2>1. On(p, "fork") BY <1>2, AtRunning DEF AllocProc
  <2>2. PICK s \in Proc : /\ Free(s) /\ state[s] = "unused"
                        /\ state' = [state EXCEPT ![s] = "used"]
                        /\ plock' = [plock EXCEPT ![s] = p]
                        /\ k' = [k EXCEPT ![p] = [Thread("copy") EXCEPT !.x = s]]
                        /\ UNCHANGED <<parent, chan, wait_lock, cpu>>
    BY <1>2 DEF AllocProc
  <2> QED BY <1>I, Types, <2>1, <2>2, Slots DEF On, Free, Thread, Preemptible, LockInv
<1>3. ASSUME NEW p \in Proc, ForkFail(p) PROVE LockInv'
  <2>1. On(p, "copy") BY <1>3, AtRunning DEF ForkFail
  <2> QED BY <1>3, <1>I, Types, <2>1, Slots DEF On, ForkFail, FreeProc, Enter, Thread, proc,
      Free, Preemptible, Position, LockInv
<1>4. ASSUME NEW p \in Proc, ForkCopied(p) PROVE LockInv'
  <2>1. On(p, "copy") BY <1>4, AtRunning DEF ForkCopied
  <2> QED BY <1>4, <1>I, Types, <2>1, Slots DEF On, ForkCopied, Go, proc, Free, Preemptible,
      Position, LockInv
<1>5. ASSUME NEW p \in Proc, SetParent(p) PROVE LockInv'
  <2>1. On(p, "set_parent") BY <1>5, AtRunning DEF SetParent
  <2> QED BY <1>5, <1>I, Types, <2>1, Slots DEF On, SetParent, Go, proc, Free, Preemptible,
      Position, LockInv
<1>6. ASSUME NEW p \in Proc, SetRunnable(p) PROVE LockInv'
  <2>1. On(p, "set_runnable") BY <1>6, AtRunning DEF SetRunnable
  <2>2. PICK s \in Proc : s = k[p].x /\ s # p /\ state[s] = "used"
    BY <1>6, <1>I, <2>1 DEF On, ForkInv, Building
  <2>3. /\ k'[p] = Thread("ret") /\ k'[s] = Thread("user")
        /\ \A q \in Proc : q # p /\ q # s => k'[q] = k[q]
    BY <1>6, Types, <2>2 DEF SetRunnable
  <2>4. plock[s] = None /\ plock' = plock BY <1>6, <2>2 DEF SetRunnable, Free
  <2>5. k[s].ret # "copy" /\ k[p].ret # "copy" BY <1>I, <2>1, <2>2 DEF On, PositionInv
  <2>6. k'[s].pc # "sched" /\ k'[s].ret # "copy" /\ k'[p].pc # "sched" /\ k'[p].ret # "copy"
    BY <2>3 DEF Thread
  <2>7. \A q \in Proc : plock'[q] = q <=> k'[q].pc = "sched"
    BY <1>I, <2>1, <2>2, <2>3, <2>4, <2>6, Slots DEF On, LockInv
  <2>8. \A q \in Proc : k'[q].ret = "copy" => plock'[k'[q].x] = q
    BY <1>I, <2>3, <2>4, <2>6 DEF LockInv
  <2>9. \A q, r \in Proc : plock'[q] = r /\ r # q => k'[r].ret = "copy" /\ k'[r].x = q
    BY <1>I, <2>3, <2>4, <2>5 DEF LockInv
  <2> QED BY <2>7, <2>8, <2>9 DEF LockInv
<1>7. ASSUME NEW p \in Proc, ExitStart(p) PROVE LockInv'
  <2>1. On(p, "exit") BY <1>7, AtRunning DEF ExitStart
  <2> QED BY <1>7, <1>I, Types, <2>1, Slots DEF On, ExitStart, Enter, Thread, proc, Free,
      Preemptible, Position, LockInv
<1>8. ASSUME NEW p \in Proc, Reparent(p) PROVE LockInv'
  <2>1. On(p, "reparent") BY <1>8, AtRunning DEF Reparent
  <2>2. UNCHANGED <<state, chan, plock, wait_lock, cpu>> BY <1>8 DEF Reparent
  <2>3. CASE Enter(p, "wake_parent") /\ parent' = parent /\ \A q \in Proc : parent[q] # p
    BY <1>I, Types, <2>1, <2>2, <2>3, Slots DEF On, Enter, Thread, Preemptible, LockInv
  <2>4. ASSUME Enter(p, "wake_init"), NEW s \in Proc, parent[s] = p,
               parent' = [parent EXCEPT ![s] = initproc]
        PROVE  LockInv'
    BY <1>I, Types, <2>1, <2>2, <2>4, Slots DEF On, Enter, Thread, Preemptible, LockInv
  <2> QED BY <1>8, <2>3, <2>4, ReparentEffect
<1>9. ASSUME NEW p \in Proc, WakeInit(p) PROVE LockInv'
  <2>1. On(p, "wake_init") BY <1>9, AtRunning DEF WakeInit
  <2> QED BY <1>9, <1>I, Types, <2>1, Slots DEF On, WakeInit, Wakeup, Enter, Thread, proc, Free,
      Preemptible, Position, LockInv
<1>10. ASSUME NEW p \in Proc, WakeParent(p) PROVE LockInv'
  <2>1. On(p, "wake_parent") BY <1>10, AtRunning DEF WakeParent
  <2> QED BY <1>10, <1>I, Types, <2>1, Slots DEF On, WakeParent, Wakeup, Enter, Thread, proc,
      Free, Preemptible, Position, LockInv
<1>11. ASSUME NEW p \in Proc, Zombie(p) PROVE LockInv'
  <2>1. On(p, "zombie") BY <1>11, AtRunning DEF Zombie
  <2> QED BY <1>11, <1>I, Types, <2>1, Slots DEF On, Zombie, Sched, proc, Free, Preemptible,
      Position, LockInv
<1>12. ASSUME NEW p \in Proc, WaitStart(p) PROVE LockInv'
  <2>1. On(p, "wait") BY <1>12, AtRunning DEF WaitStart
  <2> QED BY <1>12, <1>I, Types, <2>1, Slots DEF On, WaitStart, Enter, Thread, proc, Free,
      Preemptible, Position, LockInv
<1>13. ASSUME NEW p \in Proc, ScanChild(p) PROVE LockInv'
  <2>1. On(p, "scan") BY <1>13, AtRunning DEF ScanChild
  <2>2. PICK s \in Proc : /\ Scans(p, s) /\ Free(s) /\ state[s] # "zombie"
                        /\ k' = [k EXCEPT ![p].i = s + 1]
                        /\ UNCHANGED <<state, parent, chan, plock, wait_lock, cpu>>
    BY <1>13, ScanEffect DEF ScanChild, proc
  <2> QED BY <1>I, Types, <2>1, <2>2, Slots DEF On, Scans, Free, Preemptible, Position, proc,
      LockInv
<1>14. ASSUME NEW p \in Proc, Reap(p) PROVE LockInv'
  <2>1. On(p, "scan") BY <1>14, AtRunning DEF Reap
  <2>2. PICK s \in Proc : /\ Scans(p, s) /\ Free(s) /\ state[s] = "zombie"
                        /\ FreeProc(s) /\ wait_lock' = None
                        /\ Enter(p, "ret") /\ UNCHANGED <<plock, cpu>>
    BY <1>14, ScanEffect DEF Reap, proc
  <2> QED BY <1>I, Types, <2>1, <2>2, Slots DEF On, Scans, Free, Preemptible, Position, FreeProc,
      Enter, Thread, LockInv
<1>15. ASSUME NEW p \in Proc, ReapNoCopy(p) PROVE LockInv'
  <2>1. On(p, "scan") BY <1>15, AtRunning DEF ReapNoCopy
  <2> QED BY <1>15, <1>I, Types, <2>1, Slots DEF On, ReapNoCopy, Enter, Thread, proc, Free,
      Preemptible, Position, LockInv
<1>16. ASSUME NEW p \in Proc, WaitFail(p) PROVE LockInv'
  <2>1. On(p, "scan") BY <1>16, AtRunning DEF WaitFail
  <2> QED BY <1>16, <1>I, Types, <2>1, Slots DEF On, WaitFail, Enter, Thread, proc, Free,
      Preemptible, Position, LockInv
<1>17. ASSUME NEW p \in Proc, WaitOn(p) PROVE LockInv'
  <2>1. On(p, "scan") BY <1>17, AtRunning DEF WaitOn
  <2> QED BY <1>17, <1>I, Types, <2>1, Slots DEF On, WaitOn, Enter, Thread, Rest, Children, proc,
      Free, Preemptible, Position, LockInv
<1>18. ASSUME NEW p \in Proc, Sleep(p) PROVE LockInv'
  <2>1. On(p, "sleep") BY <1>18, AtRunning DEF Sleep
  <2> QED BY <1>18, <1>I, Types, <2>1, Slots DEF On, Sleep, Sched, proc, Free, Preemptible,
      Position, LockInv
<1>19. ASSUME NEW p \in Proc, Kill(p) PROVE LockInv'
  <2>1. On(p, "kill") BY <1>19, AtRunning DEF Kill
  <2> QED BY <1>19, <1>I, Types, <2>1, Slots DEF On, Kill, Enter, Thread, proc, Free,
      Preemptible, Position, LockInv
<1>20. ASSUME NEW p \in Proc, Yield(p) PROVE LockInv'
  <2>1. On(p, k[p].pc)
    BY <1>20, AtRunning DEF Yield, At, Preemptible
  <2> QED BY <1>20, <1>I, Types, <2>1, Slots DEF On, Yield, Free, Preemptible, Position, LockInv
<1>21. ASSUME NEW c \in Cpu, Swtch(c) PROVE LockInv'
  BY <1>21, <1>I, Types, Slots DEF Swtch, proc, Preemptible, Position, PositionInv, LockInv,
      ForkInv, Building
<1>22. ASSUME NEW c \in Cpu, NEW p \in Proc, Dispatch(c, p) PROVE LockInv'
  BY <1>22, <1>I, Types, Slots DEF Dispatch, Free, Preemptible, LockInv
<1> QED
  BY <1>1, <1>2, <1>3, <1>4, <1>5, <1>6, <1>7, <1>8, <1>9, <1>10, <1>11, <1>12, <1>13, <1>14,
      <1>15, <1>16, <1>17, <1>18, <1>19, <1>20, <1>21, <1>22, QuietStep
  DEF Next, User, Kernel

\* A child being built stays its builder's until it is runnable.
LEMMA ForkStep ==
  ASSUME IInv, Next
  PROVE  ForkInv'
<1>I. PositionInv /\ ForkInv /\ ParentInv BY DEF IInv
<1>1. ASSUME NEW p \in Proc, Quiet(p) PROVE ForkInv'
  BY <1>1, <1>I, Types, Slots DEF Quiet, Outside, Preemptible, ForkInv, Building
<1>2. ASSUME NEW p \in Proc, AllocProc(p), state[k[p].i] = "unused" PROVE ForkInv'
  <2>1. On(p, "fork") BY <1>2, AtRunning DEF AllocProc
  <2>2. PICK s \in Proc : /\ Free(s) /\ state[s] = "unused"
                        /\ state' = [state EXCEPT ![s] = "used"]
                        /\ plock' = [plock EXCEPT ![s] = p]
                        /\ k' = [k EXCEPT ![p] = [Thread("copy") EXCEPT !.x = s]]
                        /\ UNCHANGED <<parent, chan, wait_lock, cpu>>
    BY <1>2 DEF AllocProc
  <2> QED BY <1>I, Types, <2>1, <2>2, Slots DEF On, Free, Thread, Preemptible, ForkInv, Building
<1>3. ASSUME NEW p \in Proc, ForkFail(p) PROVE ForkInv'
  <2>1. On(p, "copy") BY <1>3, AtRunning DEF ForkFail
  <2> QED BY <1>3, <1>I, Types, <2>1, Slots DEF On, ForkFail, FreeProc, Enter, Thread, proc,
      Free, Preemptible, Position, ForkInv, Building
<1>4. ASSUME NEW p \in Proc, ForkCopied(p) PROVE ForkInv'
  <2>1. On(p, "copy") BY <1>4, AtRunning DEF ForkCopied
  <2> QED BY <1>4, <1>I, Types, <2>1, Slots DEF On, ForkCopied, Go, proc, Free, Preemptible,
      Position, ForkInv, Building
<1>5. ASSUME NEW p \in Proc, SetParent(p) PROVE ForkInv'
  <2>1. On(p, "set_parent") BY <1>5, AtRunning DEF SetParent
  <2> QED BY <1>5, <1>I, Types, <2>1, Slots DEF On, SetParent, Go, proc, Free, Preemptible,
      Position, ForkInv, Building
<1>6. ASSUME NEW p \in Proc, SetRunnable(p) PROVE ForkInv'
  <2>1. On(p, "set_runnable") BY <1>6, AtRunning DEF SetRunnable
  <2>2. PICK s \in Proc : s = k[p].x /\ s # p /\ state[s] = "used" /\ parent[s] = p
    BY <1>6, <1>I, <2>1 DEF On, ForkInv, Building
  <2>3. /\ k'[p] = Thread("ret") /\ k'[s] = Thread("user")
        /\ \A q \in Proc : q # p /\ q # s => k'[q] = k[q]
    BY <1>6, Types, <2>2 DEF SetRunnable
  <2>4. /\ Free(s) /\ state' = [state EXCEPT ![s] = "runnable"] 
        /\ UNCHANGED <<parent, chan, plock, wait_lock, cpu>>
    BY <1>6, <2>2 DEF SetRunnable
  <2> QED BY <1>I, Types, <2>1, <2>2, <2>3, <2>4, Slots DEF On, Free, Thread, Preemptible,
      ForkInv, Building
<1>7. ASSUME NEW p \in Proc, ExitStart(p) PROVE ForkInv'
  <2>1. On(p, "exit") BY <1>7, AtRunning DEF ExitStart
  <2> QED BY <1>7, <1>I, Types, <2>1, Slots DEF On, ExitStart, Enter, Thread, proc, Free,
      Preemptible, Position, ForkInv, Building
<1>8. ASSUME NEW p \in Proc, Reparent(p) PROVE ForkInv'
  <2>1. On(p, "reparent") BY <1>8, AtRunning DEF Reparent
  <2>2. UNCHANGED <<state, chan, plock, wait_lock, cpu>> BY <1>8 DEF Reparent
  <2>3. CASE Enter(p, "wake_parent") /\ parent' = parent /\ \A q \in Proc : parent[q] # p
    BY <1>I, Types, <2>1, <2>2, <2>3, Slots DEF On, Enter, Thread, Preemptible, ForkInv, Building
  <2>4. ASSUME Enter(p, "wake_init"), NEW s \in Proc, parent[s] = p,
               parent' = [parent EXCEPT ![s] = initproc]
        PROVE  ForkInv'
    BY <1>I, Types, <2>1, <2>2, <2>4, Slots DEF On, Enter, Thread, Preemptible, ForkInv, Building
  <2> QED BY <1>8, <2>3, <2>4, ReparentEffect
<1>9. ASSUME NEW p \in Proc, WakeInit(p) PROVE ForkInv'
  <2>1. On(p, "wake_init") BY <1>9, AtRunning DEF WakeInit
  <2> QED BY <1>9, <1>I, Types, <2>1, Slots DEF On, WakeInit, Wakeup, Enter, Thread, proc, Free,
      Preemptible, Position, ForkInv, Building
<1>10. ASSUME NEW p \in Proc, WakeParent(p) PROVE ForkInv'
  <2>1. On(p, "wake_parent") BY <1>10, AtRunning DEF WakeParent
  <2> QED BY <1>10, <1>I, Types, <2>1, Slots DEF On, WakeParent, Wakeup, Enter, Thread, proc,
      Free, Preemptible, Position, ForkInv, Building
<1>11. ASSUME NEW p \in Proc, Zombie(p) PROVE ForkInv'
  <2>1. On(p, "zombie") BY <1>11, AtRunning DEF Zombie
  <2> QED BY <1>11, <1>I, Types, <2>1, Slots DEF On, Zombie, Sched, proc, Free, Preemptible,
      Position, ForkInv, Building
<1>12. ASSUME NEW p \in Proc, WaitStart(p) PROVE ForkInv'
  <2>1. On(p, "wait") BY <1>12, AtRunning DEF WaitStart
  <2> QED BY <1>12, <1>I, Types, <2>1, Slots DEF On, WaitStart, Enter, Thread, proc, Free,
      Preemptible, Position, ForkInv, Building
<1>13. ASSUME NEW p \in Proc, ScanChild(p) PROVE ForkInv'
  <2>1. On(p, "scan") BY <1>13, AtRunning DEF ScanChild
  <2>2. PICK s \in Proc : /\ Scans(p, s) /\ Free(s) /\ state[s] # "zombie"
                        /\ k' = [k EXCEPT ![p].i = s + 1]
                        /\ UNCHANGED <<state, parent, chan, plock, wait_lock, cpu>>
    BY <1>13, ScanEffect DEF ScanChild, proc
  <2> QED BY <1>I, Types, <2>1, <2>2, Slots DEF On, Scans, Free, Preemptible, Position, proc,
      ForkInv, Building
<1>14. ASSUME NEW p \in Proc, Reap(p) PROVE ForkInv'
  <2>1. On(p, "scan") BY <1>14, AtRunning DEF Reap
  <2>2. PICK s \in Proc : /\ Scans(p, s) /\ Free(s) /\ state[s] = "zombie"
                        /\ FreeProc(s) /\ wait_lock' = None
                        /\ Enter(p, "ret") /\ UNCHANGED <<plock, cpu>>
    BY <1>14, ScanEffect DEF Reap, proc
  <2> QED BY <1>I, Types, <2>1, <2>2, Slots DEF On, Scans, Free, Preemptible, Position, FreeProc,
      Enter, Thread, ForkInv, Building
<1>15. ASSUME NEW p \in Proc, ReapNoCopy(p) PROVE ForkInv'
  <2>1. On(p, "scan") BY <1>15, AtRunning DEF ReapNoCopy
  <2> QED BY <1>15, <1>I, Types, <2>1, Slots DEF On, ReapNoCopy, Enter, Thread, proc, Free,
      Preemptible, Position, ForkInv, Building
<1>16. ASSUME NEW p \in Proc, WaitFail(p) PROVE ForkInv'
  <2>1. On(p, "scan") BY <1>16, AtRunning DEF WaitFail
  <2> QED BY <1>16, <1>I, Types, <2>1, Slots DEF On, WaitFail, Enter, Thread, proc, Free,
      Preemptible, Position, ForkInv, Building
<1>17. ASSUME NEW p \in Proc, WaitOn(p) PROVE ForkInv'
  <2>1. On(p, "scan") BY <1>17, AtRunning DEF WaitOn
  <2> QED BY <1>17, <1>I, Types, <2>1, Slots DEF On, WaitOn, Enter, Thread, Rest, Children, proc,
      Free, Preemptible, Position, ForkInv, Building
<1>18. ASSUME NEW p \in Proc, Sleep(p) PROVE ForkInv'
  <2>1. On(p, "sleep") BY <1>18, AtRunning DEF Sleep
  <2> QED BY <1>18, <1>I, Types, <2>1, Slots DEF On, Sleep, Sched, proc, Free, Preemptible,
      Position, ForkInv, Building
<1>19. ASSUME NEW p \in Proc, Kill(p) PROVE ForkInv'
  <2>1. On(p, "kill") BY <1>19, AtRunning DEF Kill
  <2> QED BY <1>19, <1>I, Types, <2>1, Slots DEF On, Kill, Enter, Thread, proc, Free,
      Preemptible, Position, ForkInv, Building
<1>20. ASSUME NEW p \in Proc, Yield(p) PROVE ForkInv'
  <2>1. On(p, k[p].pc)
    BY <1>20, AtRunning DEF Yield, At, Preemptible
  <2> QED BY <1>20, <1>I, Types, <2>1, Slots DEF On, Yield, Free, Preemptible, Position, ForkInv,
      Building
<1>21. ASSUME NEW c \in Cpu, Swtch(c) PROVE ForkInv'
  BY <1>21, <1>I, Types, Slots DEF Swtch, proc, Preemptible, Position, ForkInv, Building
<1>22. ASSUME NEW c \in Cpu, NEW p \in Proc, Dispatch(c, p) PROVE ForkInv'
  BY <1>22, <1>I, Types, Slots DEF Dispatch, Free, Preemptible, ForkInv, Building
<1> QED
  BY <1>1, <1>2, <1>3, <1>4, <1>5, <1>6, <1>7, <1>8, <1>9, <1>10, <1>11, <1>12, <1>13, <1>14,
      <1>15, <1>16, <1>17, <1>18, <1>19, <1>20, <1>21, <1>22, QuietStep
  DEF Next, User, Kernel

\* wait_lock is released by the thread that took it, at the end of its section.
LEMMA WaitLockStep ==
  ASSUME IInv, Next
  PROVE  WaitLockInv'
<1>I. PositionInv /\ ForkInv /\ WaitLockInv BY DEF IInv
<1>1. ASSUME NEW p \in Proc, Quiet(p) PROVE WaitLockInv'
  BY <1>1, <1>I, Types, Slots DEF Quiet, Outside, Preemptible, WaitLockInv
<1>2. ASSUME NEW p \in Proc, AllocProc(p), state[k[p].i] = "unused" PROVE WaitLockInv'
  <2>1. On(p, "fork") BY <1>2, AtRunning DEF AllocProc
  <2>2. PICK s \in Proc : /\ Free(s) /\ state[s] = "unused"
                        /\ state' = [state EXCEPT ![s] = "used"]
                        /\ plock' = [plock EXCEPT ![s] = p]
                        /\ k' = [k EXCEPT ![p] = [Thread("copy") EXCEPT !.x = s]]
                        /\ UNCHANGED <<parent, chan, wait_lock, cpu>>
    BY <1>2 DEF AllocProc
  <2> QED BY <1>I, Types, <2>1, <2>2, Slots DEF On, Free, Thread, Preemptible, WaitLockInv
<1>3. ASSUME NEW p \in Proc, ForkFail(p) PROVE WaitLockInv'
  <2>1. On(p, "copy") BY <1>3, AtRunning DEF ForkFail
  <2> QED BY <1>3, <1>I, Types, <2>1, Slots DEF On, ForkFail, FreeProc, Enter, Thread, proc,
      Free, Preemptible, Position, WaitLockInv
<1>4. ASSUME NEW p \in Proc, ForkCopied(p) PROVE WaitLockInv'
  <2>1. On(p, "copy") BY <1>4, AtRunning DEF ForkCopied
  <2> QED BY <1>4, <1>I, Types, <2>1, Slots DEF On, ForkCopied, Go, proc, Free, Preemptible,
      Position, WaitLockInv
<1>5. ASSUME NEW p \in Proc, SetParent(p) PROVE WaitLockInv'
  <2>1. On(p, "set_parent") BY <1>5, AtRunning DEF SetParent
  <2> QED BY <1>5, <1>I, Types, <2>1, Slots DEF On, SetParent, Go, proc, Free, Preemptible,
      Position, WaitLockInv
<1>6. ASSUME NEW p \in Proc, SetRunnable(p) PROVE WaitLockInv'
  <2>1. On(p, "set_runnable") BY <1>6, AtRunning DEF SetRunnable
  <2>2. PICK s \in Proc : s = k[p].x /\ s # p /\ state[s] = "used" /\ parent[s] = p
    BY <1>6, <1>I, <2>1 DEF On, ForkInv, Building
  <2>3. /\ k'[p] = Thread("ret") /\ k'[s] = Thread("user")
        /\ \A q \in Proc : q # p /\ q # s => k'[q] = k[q]
    BY <1>6, Types, <2>2 DEF SetRunnable
  <2>4. /\ Free(s) /\ state' = [state EXCEPT ![s] = "runnable"] 
        /\ UNCHANGED <<parent, chan, plock, wait_lock, cpu>>
    BY <1>6, <2>2 DEF SetRunnable
  <2> QED BY <1>I, Types, <2>1, <2>2, <2>3, <2>4, Slots DEF On, Free, Thread, Preemptible,
      PositionInv, WaitLockInv
<1>7. ASSUME NEW p \in Proc, ExitStart(p) PROVE WaitLockInv'
  <2>1. On(p, "exit") BY <1>7, AtRunning DEF ExitStart
  <2> QED BY <1>7, <1>I, Types, <2>1, Slots DEF On, ExitStart, Enter, Thread, proc, Free,
      Preemptible, Position, WaitLockInv
<1>8. ASSUME NEW p \in Proc, Reparent(p) PROVE WaitLockInv'
  <2>1. On(p, "reparent") BY <1>8, AtRunning DEF Reparent
  <2>2. UNCHANGED <<state, chan, plock, wait_lock, cpu>> BY <1>8 DEF Reparent
  <2>3. CASE Enter(p, "wake_parent") /\ parent' = parent /\ \A q \in Proc : parent[q] # p
    BY <1>I, Types, <2>1, <2>2, <2>3, Slots DEF On, Enter, Thread, Preemptible, WaitLockInv
  <2>4. ASSUME Enter(p, "wake_init"), NEW s \in Proc, parent[s] = p,
               parent' = [parent EXCEPT ![s] = initproc]
        PROVE  WaitLockInv'
    BY <1>I, Types, <2>1, <2>2, <2>4, Slots DEF On, Enter, Thread, Preemptible, WaitLockInv
  <2> QED BY <1>8, <2>3, <2>4, ReparentEffect
<1>9. ASSUME NEW p \in Proc, WakeInit(p) PROVE WaitLockInv'
  <2>1. On(p, "wake_init") BY <1>9, AtRunning DEF WakeInit
  <2> QED BY <1>9, <1>I, Types, <2>1, Slots DEF On, WakeInit, Wakeup, Enter, Thread, proc, Free,
      Preemptible, Position, WaitLockInv
<1>10. ASSUME NEW p \in Proc, WakeParent(p) PROVE WaitLockInv'
  <2>1. On(p, "wake_parent") BY <1>10, AtRunning DEF WakeParent
  <2> QED BY <1>10, <1>I, Types, <2>1, Slots DEF On, WakeParent, Wakeup, Enter, Thread, proc,
      Free, Preemptible, Position, WaitLockInv
<1>11. ASSUME NEW p \in Proc, Zombie(p) PROVE WaitLockInv'
  <2>1. On(p, "zombie") BY <1>11, AtRunning DEF Zombie
  <2> QED BY <1>11, <1>I, Types, <2>1, Slots DEF On, Zombie, Sched, proc, Free, Preemptible,
      Position, WaitLockInv
<1>12. ASSUME NEW p \in Proc, WaitStart(p) PROVE WaitLockInv'
  <2>1. On(p, "wait") BY <1>12, AtRunning DEF WaitStart
  <2> QED BY <1>12, <1>I, Types, <2>1, Slots DEF On, WaitStart, Enter, Thread, proc, Free,
      Preemptible, Position, WaitLockInv
<1>13. ASSUME NEW p \in Proc, ScanChild(p) PROVE WaitLockInv'
  <2>1. On(p, "scan") BY <1>13, AtRunning DEF ScanChild
  <2>2. PICK s \in Proc : /\ Scans(p, s) /\ Free(s) /\ state[s] # "zombie"
                        /\ k' = [k EXCEPT ![p].i = s + 1]
                        /\ UNCHANGED <<state, parent, chan, plock, wait_lock, cpu>>
    BY <1>13, ScanEffect DEF ScanChild, proc
  <2> QED BY <1>I, Types, <2>1, <2>2, Slots DEF On, Scans, Free, Preemptible, Position, proc,
      WaitLockInv
<1>14. ASSUME NEW p \in Proc, Reap(p) PROVE WaitLockInv'
  <2>1. On(p, "scan") BY <1>14, AtRunning DEF Reap
  <2>2. PICK s \in Proc : /\ Scans(p, s) /\ Free(s) /\ state[s] = "zombie"
                        /\ FreeProc(s) /\ wait_lock' = None
                        /\ Enter(p, "ret") /\ UNCHANGED <<plock, cpu>>
    BY <1>14, ScanEffect DEF Reap, proc
  <2> QED BY <1>I, Types, <2>1, <2>2, Slots DEF On, Scans, Free, Preemptible, Position, FreeProc,
      Enter, Thread, WaitLockInv
<1>15. ASSUME NEW p \in Proc, ReapNoCopy(p) PROVE WaitLockInv'
  <2>1. On(p, "scan") BY <1>15, AtRunning DEF ReapNoCopy
  <2> QED BY <1>15, <1>I, Types, <2>1, Slots DEF On, ReapNoCopy, Enter, Thread, proc, Free,
      Preemptible, Position, WaitLockInv
<1>16. ASSUME NEW p \in Proc, WaitFail(p) PROVE WaitLockInv'
  <2>1. On(p, "scan") BY <1>16, AtRunning DEF WaitFail
  <2> QED BY <1>16, <1>I, Types, <2>1, Slots DEF On, WaitFail, Enter, Thread, proc, Free,
      Preemptible, Position, WaitLockInv
<1>17. ASSUME NEW p \in Proc, WaitOn(p) PROVE WaitLockInv'
  <2>1. On(p, "scan") BY <1>17, AtRunning DEF WaitOn
  <2> QED BY <1>17, <1>I, Types, <2>1, Slots DEF On, WaitOn, Enter, Thread, Rest, Children, proc,
      Free, Preemptible, Position, WaitLockInv
<1>18. ASSUME NEW p \in Proc, Sleep(p) PROVE WaitLockInv'
  <2>1. On(p, "sleep") BY <1>18, AtRunning DEF Sleep
  <2> QED BY <1>18, <1>I, Types, <2>1, Slots DEF On, Sleep, Sched, proc, Free, Preemptible,
      Position, WaitLockInv
<1>19. ASSUME NEW p \in Proc, Kill(p) PROVE WaitLockInv'
  <2>1. On(p, "kill") BY <1>19, AtRunning DEF Kill
  <2> QED BY <1>19, <1>I, Types, <2>1, Slots DEF On, Kill, Enter, Thread, proc, Free,
      Preemptible, Position, WaitLockInv
<1>20. ASSUME NEW p \in Proc, Yield(p) PROVE WaitLockInv'
  <2>1. On(p, k[p].pc)
    BY <1>20, AtRunning DEF Yield, At, Preemptible
  <2> QED BY <1>20, <1>I, Types, <2>1, Slots DEF On, Yield, Free, Preemptible, Position,
      WaitLockInv
<1>21. ASSUME NEW c \in Cpu, Swtch(c) PROVE WaitLockInv'
  BY <1>21, <1>I, Types, Slots DEF Swtch, proc, Preemptible, Position, WaitLockInv
<1>22. ASSUME NEW c \in Cpu, NEW p \in Proc, Dispatch(c, p) PROVE WaitLockInv'
  BY <1>22, <1>I, Types, Slots DEF Dispatch, Free, Preemptible, WaitLockInv
<1> QED
  BY <1>1, <1>2, <1>3, <1>4, <1>5, <1>6, <1>7, <1>8, <1>9, <1>10, <1>11, <1>12, <1>13, <1>14,
      <1>15, <1>16, <1>17, <1>18, <1>19, <1>20, <1>21, <1>22, QuietStep
  DEF Next, User, Kernel

\* No step makes init exit or gives it a parent.
LEMMA InitStep ==
  ASSUME IInv, Next
  PROVE  InitInv'
<1>I. PositionInv /\ ForkInv /\ WaitLockInv /\ InitInv BY DEF IInv
<1>1. ASSUME NEW p \in Proc, Quiet(p) PROVE InitInv'
  BY <1>1, <1>I, Types, Slots DEF Quiet, Outside, Preemptible, InitInv, Alive
<1>2. ASSUME NEW p \in Proc, AllocProc(p), state[k[p].i] = "unused" PROVE InitInv'
  <2>1. On(p, "fork") BY <1>2, AtRunning DEF AllocProc
  <2>2. PICK s \in Proc : /\ Free(s) /\ state[s] = "unused"
                        /\ state' = [state EXCEPT ![s] = "used"]
                        /\ plock' = [plock EXCEPT ![s] = p]
                        /\ k' = [k EXCEPT ![p] = [Thread("copy") EXCEPT !.x = s]]
                        /\ UNCHANGED <<parent, chan, wait_lock, cpu>>
    BY <1>2 DEF AllocProc
  <2> QED BY <1>I, Types, <2>1, <2>2, Slots DEF On, Free, Thread, Preemptible, InitInv, Alive
<1>3. ASSUME NEW p \in Proc, ForkFail(p) PROVE InitInv'
  <2>1. On(p, "copy") BY <1>3, AtRunning DEF ForkFail
  <2> QED BY <1>3, <1>I, Types, <2>1, Slots DEF On, ForkFail, FreeProc, Enter, Thread, proc,
      Free, Preemptible, Position, PositionInv, ForkInv, Building, WaitLockInv, InitInv, Alive
<1>4. ASSUME NEW p \in Proc, ForkCopied(p) PROVE InitInv'
  <2>1. On(p, "copy") BY <1>4, AtRunning DEF ForkCopied
  <2> QED BY <1>4, <1>I, Types, <2>1, Slots DEF On, ForkCopied, Go, proc, Free, Preemptible,
      Position, InitInv, Alive
<1>5. ASSUME NEW p \in Proc, SetParent(p) PROVE InitInv'
  <2>1. On(p, "set_parent") BY <1>5, AtRunning DEF SetParent
  <2>2. /\ k'[p].ret = "set_runnable" /\ \A q \in Proc : q # p => k'[q] = k[q]
        /\ state' = state /\ parent' = [parent EXCEPT ![k[p].x] = p]
    BY <1>5, Types, Moves DEF SetParent
  <2>3. k[p].x \in Proc /\ state[k[p].x] = "used" BY <1>I, <2>1 DEF On, ForkInv, Building
  <2> QED BY <1>I, Types, <2>1, <2>2, <2>3, Slots DEF On, InitInv, Alive
<1>6. ASSUME NEW p \in Proc, SetRunnable(p) PROVE InitInv'
  <2>1. On(p, "set_runnable") BY <1>6, AtRunning DEF SetRunnable
  <2>2. PICK s \in Proc : s = k[p].x /\ s # p /\ state[s] = "used" /\ parent[s] = p
    BY <1>6, <1>I, <2>1 DEF On, ForkInv, Building
  <2>3. /\ k'[p] = Thread("ret") /\ k'[s] = Thread("user")
        /\ \A q \in Proc : q # p /\ q # s => k'[q] = k[q]
    BY <1>6, Types, <2>2 DEF SetRunnable
  <2>4. /\ Free(s) /\ state' = [state EXCEPT ![s] = "runnable"] 
        /\ UNCHANGED <<parent, chan, plock, wait_lock, cpu>>
    BY <1>6, <2>2 DEF SetRunnable
  <2> QED BY <1>I, Types, <2>1, <2>2, <2>3, <2>4, Slots DEF On, Free, Thread, Preemptible,
      InitInv, Alive
<1>7. ASSUME NEW p \in Proc, ExitStart(p) PROVE InitInv'
  <2>1. On(p, "exit") BY <1>7, AtRunning DEF ExitStart
  <2> QED BY <1>7, <1>I, Types, <2>1, Slots DEF On, ExitStart, Enter, Thread, proc, Free,
      Preemptible, Position, InitInv, Alive
<1>8. ASSUME NEW p \in Proc, Reparent(p) PROVE InitInv'
  <2>1. On(p, "reparent") BY <1>8, AtRunning DEF Reparent
  <2>2. UNCHANGED <<state, chan, plock, wait_lock, cpu>> BY <1>8 DEF Reparent
  <2>3. CASE Enter(p, "wake_parent") /\ parent' = parent /\ \A q \in Proc : parent[q] # p
    BY <1>I, Types, <2>1, <2>2, <2>3, Slots DEF On, Enter, Thread, Preemptible, InitInv, Alive
  <2>4. ASSUME Enter(p, "wake_init"), NEW s \in Proc, parent[s] = p,
               parent' = [parent EXCEPT ![s] = initproc]
        PROVE  InitInv'
    BY <1>I, Types, <2>1, <2>2, <2>4, Slots DEF On, Enter, Thread, Preemptible, InitInv, Alive
  <2> QED BY <1>8, <2>3, <2>4, ReparentEffect
<1>9. ASSUME NEW p \in Proc, WakeInit(p) PROVE InitInv'
  <2>1. On(p, "wake_init") BY <1>9, AtRunning DEF WakeInit
  <2> QED BY <1>9, <1>I, Types, <2>1, Slots DEF On, WakeInit, Wakeup, Enter, Thread, proc, Free,
      Preemptible, Position, InitInv, Alive
<1>10. ASSUME NEW p \in Proc, WakeParent(p) PROVE InitInv'
  <2>1. On(p, "wake_parent") BY <1>10, AtRunning DEF WakeParent
  <2> QED BY <1>10, <1>I, Types, <2>1, Slots DEF On, WakeParent, Wakeup, Enter, Thread, proc,
      Free, Preemptible, Position, InitInv, Alive
<1>11. ASSUME NEW p \in Proc, Zombie(p) PROVE InitInv'
  <2>1. On(p, "zombie") BY <1>11, AtRunning DEF Zombie
  <2> QED BY <1>11, <1>I, Types, <2>1, Slots DEF On, Zombie, Sched, proc, Free, Preemptible,
      Position, InitInv, Alive
<1>12. ASSUME NEW p \in Proc, WaitStart(p) PROVE InitInv'
  <2>1. On(p, "wait") BY <1>12, AtRunning DEF WaitStart
  <2> QED BY <1>12, <1>I, Types, <2>1, Slots DEF On, WaitStart, Enter, Thread, proc, Free,
      Preemptible, Position, InitInv, Alive
<1>13. ASSUME NEW p \in Proc, ScanChild(p) PROVE InitInv'
  <2>1. On(p, "scan") BY <1>13, AtRunning DEF ScanChild
  <2>2. PICK s \in Proc : /\ Scans(p, s) /\ Free(s) /\ state[s] # "zombie"
                        /\ k' = [k EXCEPT ![p].i = s + 1]
                        /\ UNCHANGED <<state, parent, chan, plock, wait_lock, cpu>>
    BY <1>13, ScanEffect DEF ScanChild, proc
  <2> QED BY <1>I, Types, <2>1, <2>2, Slots DEF On, Scans, Free, Preemptible, Position, proc,
      InitInv, Alive
<1>14. ASSUME NEW p \in Proc, Reap(p) PROVE InitInv'
  <2>1. On(p, "scan") BY <1>14, AtRunning DEF Reap
  <2>2. PICK s \in Proc : /\ Scans(p, s) /\ Free(s) /\ state[s] = "zombie"
                        /\ FreeProc(s) /\ wait_lock' = None
                        /\ Enter(p, "ret") /\ UNCHANGED <<plock, cpu>>
    BY <1>14, ScanEffect DEF Reap, proc
  <2> QED BY <1>I, Types, <2>1, <2>2, Slots DEF On, Scans, Free, Preemptible, Position, FreeProc,
      Enter, Thread, InitInv, Alive
<1>15. ASSUME NEW p \in Proc, ReapNoCopy(p) PROVE InitInv'
  <2>1. On(p, "scan") BY <1>15, AtRunning DEF ReapNoCopy
  <2> QED BY <1>15, <1>I, Types, <2>1, Slots DEF On, ReapNoCopy, Enter, Thread, proc, Free,
      Preemptible, Position, InitInv, Alive
<1>16. ASSUME NEW p \in Proc, WaitFail(p) PROVE InitInv'
  <2>1. On(p, "scan") BY <1>16, AtRunning DEF WaitFail
  <2> QED BY <1>16, <1>I, Types, <2>1, Slots DEF On, WaitFail, Enter, Thread, proc, Free,
      Preemptible, Position, InitInv, Alive
<1>17. ASSUME NEW p \in Proc, WaitOn(p) PROVE InitInv'
  <2>1. On(p, "scan") BY <1>17, AtRunning DEF WaitOn
  <2> QED BY <1>17, <1>I, Types, <2>1, Slots DEF On, WaitOn, Enter, Thread, Rest, Children, proc,
      Free, Preemptible, Position, InitInv, Alive
<1>18. ASSUME NEW p \in Proc, Sleep(p) PROVE InitInv'
  <2>1. On(p, "sleep") BY <1>18, AtRunning DEF Sleep
  <2> QED BY <1>18, <1>I, Types, <2>1, Slots DEF On, Sleep, Sched, proc, Free, Preemptible,
      Position, InitInv, Alive
<1>19. ASSUME NEW p \in Proc, Kill(p) PROVE InitInv'
  <2>1. On(p, "kill") BY <1>19, AtRunning DEF Kill
  <2> QED BY <1>19, <1>I, Types, <2>1, Slots DEF On, Kill, Enter, Thread, proc, Free,
      Preemptible, Position, InitInv, Alive
<1>20. ASSUME NEW p \in Proc, Yield(p) PROVE InitInv'
  <2>1. On(p, k[p].pc)
    BY <1>20, AtRunning DEF Yield, At, Preemptible
  <2> QED BY <1>20, <1>I, Types, <2>1, Slots DEF On, Yield, Free, Preemptible, Position, InitInv,
      Alive
<1>21. ASSUME NEW c \in Cpu, Swtch(c) PROVE InitInv'
  BY <1>21, <1>I, Types, Slots DEF Swtch, proc, Preemptible, Position, InitInv, Alive
<1>22. ASSUME NEW c \in Cpu, NEW p \in Proc, Dispatch(c, p) PROVE InitInv'
  BY <1>22, <1>I, Types, Slots DEF Dispatch, Free, Preemptible, InitInv, Alive
<1> QED
  BY <1>1, <1>2, <1>3, <1>4, <1>5, <1>6, <1>7, <1>8, <1>9, <1>10, <1>11, <1>12, <1>13, <1>14,
      <1>15, <1>16, <1>17, <1>18, <1>19, <1>20, <1>21, <1>22, QuietStep
  DEF Next, User, Kernel

\* No step takes a parent away from a process that still has it.
LEMMA ParentStep ==
  ASSUME IInv, Next
  PROVE  ParentInv'
<1>I. PositionInv /\ ForkInv /\ WaitLockInv /\ InitInv /\ ParentInv BY DEF IInv
<1>1. ASSUME NEW p \in Proc, Quiet(p) PROVE ParentInv'
  BY <1>1, <1>I, Types, Slots DEF Quiet, Outside, Preemptible, ParentInv, Alive
<1>2. ASSUME NEW p \in Proc, AllocProc(p), state[k[p].i] = "unused" PROVE ParentInv'
  <2>1. On(p, "fork") BY <1>2, AtRunning DEF AllocProc
  <2>2. PICK s \in Proc : /\ Free(s) /\ state[s] = "unused"
                        /\ state' = [state EXCEPT ![s] = "used"]
                        /\ plock' = [plock EXCEPT ![s] = p]
                        /\ k' = [k EXCEPT ![p] = [Thread("copy") EXCEPT !.x = s]]
                        /\ UNCHANGED <<parent, chan, wait_lock, cpu>>
    BY <1>2 DEF AllocProc
  <2> QED BY <1>I, Types, <2>1, <2>2, Slots DEF On, Free, Thread, Preemptible, ParentInv, Alive
<1>3. ASSUME NEW p \in Proc, ForkFail(p) PROVE ParentInv'
  <2>1. On(p, "copy") BY <1>3, AtRunning DEF ForkFail
  <2> QED BY <1>3, <1>I, Types, <2>1, Slots DEF On, ForkFail, FreeProc, Enter, Thread, proc,
      Free, Preemptible, Position, PositionInv, ForkInv, Building, WaitLockInv, ParentInv, Alive
<1>4. ASSUME NEW p \in Proc, ForkCopied(p) PROVE ParentInv'
  <2>1. On(p, "copy") BY <1>4, AtRunning DEF ForkCopied
  <2> QED BY <1>4, <1>I, Types, <2>1, Slots DEF On, ForkCopied, Go, proc, Free, Preemptible,
      Position, ParentInv, Alive
<1>5. ASSUME NEW p \in Proc, SetParent(p) PROVE ParentInv'
  <2>1. On(p, "set_parent") BY <1>5, AtRunning DEF SetParent
  <2> QED BY <1>5, <1>I, Types, <2>1, Slots DEF On, SetParent, Go, proc, Free, Preemptible,
      Position, ParentInv, Alive
<1>6. ASSUME NEW p \in Proc, SetRunnable(p) PROVE ParentInv'
  <2>1. On(p, "set_runnable") BY <1>6, AtRunning DEF SetRunnable
  <2>2. PICK s \in Proc : s = k[p].x /\ s # p /\ state[s] = "used" /\ parent[s] = p
    BY <1>6, <1>I, <2>1 DEF On, ForkInv, Building
  <2>3. /\ k'[p] = Thread("ret") /\ k'[s] = Thread("user")
        /\ \A q \in Proc : q # p /\ q # s => k'[q] = k[q]
    BY <1>6, Types, <2>2 DEF SetRunnable
  <2>4. /\ Free(s) /\ state' = [state EXCEPT ![s] = "runnable"] 
        /\ UNCHANGED <<parent, chan, plock, wait_lock, cpu>>
    BY <1>6, <2>2 DEF SetRunnable
  <2> QED BY <1>I, Types, <2>1, <2>2, <2>3, <2>4, Slots DEF On, Free, Thread, Preemptible,
      ParentInv, Alive
<1>7. ASSUME NEW p \in Proc, ExitStart(p) PROVE ParentInv'
  <2>1. On(p, "exit") BY <1>7, AtRunning DEF ExitStart
  <2> QED BY <1>7, <1>I, Types, <2>1, Slots DEF On, ExitStart, Enter, Thread, proc, Free,
      Preemptible, Position, ParentInv, Alive
<1>8. ASSUME NEW p \in Proc, Reparent(p) PROVE ParentInv'
  <2>1. On(p, "reparent") BY <1>8, AtRunning DEF Reparent
  <2>2. UNCHANGED <<state, chan, plock, wait_lock, cpu>> BY <1>8 DEF Reparent
  <2>3. CASE Enter(p, "wake_parent") /\ parent' = parent /\ \A q \in Proc : parent[q] # p
    BY <1>I, Types, <2>1, <2>2, <2>3, Slots DEF On, Enter, Thread, Preemptible, PositionInv,
        ForkInv, Building, WaitLockInv, InitInv, Alive, ParentInv, Alive
  <2>4. ASSUME Enter(p, "wake_init"), NEW s \in Proc, parent[s] = p,
               parent' = [parent EXCEPT ![s] = initproc]
        PROVE  ParentInv'
    BY <1>I, Types, <2>1, <2>2, <2>4, Slots DEF On, Enter, Thread, Preemptible, PositionInv,
        ForkInv, Building, WaitLockInv, InitInv, Alive, ParentInv, Alive
  <2> QED BY <1>8, <2>3, <2>4, ReparentEffect
<1>9. ASSUME NEW p \in Proc, WakeInit(p) PROVE ParentInv'
  <2>1. On(p, "wake_init") BY <1>9, AtRunning DEF WakeInit
  <2> QED BY <1>9, <1>I, Types, <2>1, Slots DEF On, WakeInit, Wakeup, Enter, Thread, proc, Free,
      Preemptible, Position, ParentInv, Alive
<1>10. ASSUME NEW p \in Proc, WakeParent(p) PROVE ParentInv'
  <2>1. On(p, "wake_parent") BY <1>10, AtRunning DEF WakeParent
  <2> QED BY <1>10, <1>I, Types, <2>1, Slots DEF On, WakeParent, Wakeup, Enter, Thread, proc,
      Free, Preemptible, Position, ParentInv, Alive
<1>11. ASSUME NEW p \in Proc, Zombie(p) PROVE ParentInv'
  <2>1. On(p, "zombie") BY <1>11, AtRunning DEF Zombie
  <2> QED BY <1>11, <1>I, Types, <2>1, Slots DEF On, Zombie, Sched, proc, Free, Preemptible,
      Position, ParentInv, Alive
<1>12. ASSUME NEW p \in Proc, WaitStart(p) PROVE ParentInv'
  <2>1. On(p, "wait") BY <1>12, AtRunning DEF WaitStart
  <2> QED BY <1>12, <1>I, Types, <2>1, Slots DEF On, WaitStart, Enter, Thread, proc, Free,
      Preemptible, Position, ParentInv, Alive
<1>13. ASSUME NEW p \in Proc, ScanChild(p) PROVE ParentInv'
  <2>1. On(p, "scan") BY <1>13, AtRunning DEF ScanChild
  <2>2. PICK s \in Proc : /\ Scans(p, s) /\ Free(s) /\ state[s] # "zombie"
                        /\ k' = [k EXCEPT ![p].i = s + 1]
                        /\ UNCHANGED <<state, parent, chan, plock, wait_lock, cpu>>
    BY <1>13, ScanEffect DEF ScanChild, proc
  <2> QED BY <1>I, Types, <2>1, <2>2, Slots DEF On, Scans, Free, Preemptible, Position, proc,
      ParentInv, Alive
<1>14. ASSUME NEW p \in Proc, Reap(p) PROVE ParentInv'
  <2>1. On(p, "scan") BY <1>14, AtRunning DEF Reap
  <2>2. PICK s \in Proc : /\ Scans(p, s) /\ Free(s) /\ state[s] = "zombie"
                        /\ FreeProc(s) /\ wait_lock' = None
                        /\ Enter(p, "ret") /\ UNCHANGED <<plock, cpu>>
    BY <1>14, ScanEffect DEF Reap, proc
  <2> QED BY <1>I, Types, <2>1, <2>2, Slots DEF On, Scans, Free, Preemptible, Position, FreeProc,
      Enter, Thread, ParentInv, Alive
<1>15. ASSUME NEW p \in Proc, ReapNoCopy(p) PROVE ParentInv'
  <2>1. On(p, "scan") BY <1>15, AtRunning DEF ReapNoCopy
  <2> QED BY <1>15, <1>I, Types, <2>1, Slots DEF On, ReapNoCopy, Enter, Thread, proc, Free,
      Preemptible, Position, ParentInv, Alive
<1>16. ASSUME NEW p \in Proc, WaitFail(p) PROVE ParentInv'
  <2>1. On(p, "scan") BY <1>16, AtRunning DEF WaitFail
  <2> QED BY <1>16, <1>I, Types, <2>1, Slots DEF On, WaitFail, Enter, Thread, proc, Free,
      Preemptible, Position, ParentInv, Alive
<1>17. ASSUME NEW p \in Proc, WaitOn(p) PROVE ParentInv'
  <2>1. On(p, "scan") BY <1>17, AtRunning DEF WaitOn
  <2> QED BY <1>17, <1>I, Types, <2>1, Slots DEF On, WaitOn, Enter, Thread, Rest, Children, proc,
      Free, Preemptible, Position, ParentInv, Alive
<1>18. ASSUME NEW p \in Proc, Sleep(p) PROVE ParentInv'
  <2>1. On(p, "sleep") BY <1>18, AtRunning DEF Sleep
  <2> QED BY <1>18, <1>I, Types, <2>1, Slots DEF On, Sleep, Sched, proc, Free, Preemptible,
      Position, ParentInv, Alive
<1>19. ASSUME NEW p \in Proc, Kill(p) PROVE ParentInv'
  <2>1. On(p, "kill") BY <1>19, AtRunning DEF Kill
  <2> QED BY <1>19, <1>I, Types, <2>1, Slots DEF On, Kill, Enter, Thread, proc, Free,
      Preemptible, Position, ParentInv, Alive
<1>20. ASSUME NEW p \in Proc, Yield(p) PROVE ParentInv'
  <2>1. On(p, k[p].pc)
    BY <1>20, AtRunning DEF Yield, At, Preemptible
  <2> QED BY <1>20, <1>I, Types, <2>1, Slots DEF On, Yield, Free, Preemptible, Position,
      ParentInv, Alive
<1>21. ASSUME NEW c \in Cpu, Swtch(c) PROVE ParentInv'
  BY <1>21, <1>I, Types, Slots DEF Swtch, proc, Preemptible, Position, ParentInv, Alive
<1>22. ASSUME NEW c \in Cpu, NEW p \in Proc, Dispatch(c, p) PROVE ParentInv'
  BY <1>22, <1>I, Types, Slots DEF Dispatch, Free, Preemptible, ParentInv, Alive
<1> QED
  BY <1>1, <1>2, <1>3, <1>4, <1>5, <1>6, <1>7, <1>8, <1>9, <1>10, <1>11, <1>12, <1>13, <1>14,
      <1>15, <1>16, <1>17, <1>18, <1>19, <1>20, <1>21, <1>22, QuietStep
  DEF Next, User, Kernel

\* No step leaves a zombie with a sleeping parent.
LEMMA WakeStep ==
  ASSUME IInv, Next
  PROVE  WakeInv'
<1>I. PositionInv /\ ForkInv /\ WaitLockInv /\ InitInv /\ ParentInv /\ WakeInv BY DEF IInv
<1>1. ASSUME NEW p \in Proc, Quiet(p) PROVE WakeInv'
  BY <1>1, <1>I, Types, Slots DEF Quiet, Outside, Preemptible, WakeInv
<1>2. ASSUME NEW p \in Proc, AllocProc(p), state[k[p].i] = "unused" PROVE WakeInv'
  <2>1. On(p, "fork") BY <1>2, AtRunning DEF AllocProc
  <2>2. PICK s \in Proc : /\ Free(s) /\ state[s] = "unused"
                        /\ state' = [state EXCEPT ![s] = "used"]
                        /\ plock' = [plock EXCEPT ![s] = p]
                        /\ k' = [k EXCEPT ![p] = [Thread("copy") EXCEPT !.x = s]]
                        /\ UNCHANGED <<parent, chan, wait_lock, cpu>>
    BY <1>2 DEF AllocProc
  <2> QED BY <1>I, Types, <2>1, <2>2, Slots DEF On, Free, Thread, Preemptible, WakeInv
<1>3. ASSUME NEW p \in Proc, ForkFail(p) PROVE WakeInv'
  <2>1. On(p, "copy") BY <1>3, AtRunning DEF ForkFail
  <2> QED BY <1>3, <1>I, Types, <2>1, Slots DEF On, ForkFail, FreeProc, Enter, Thread, proc,
      Free, Preemptible, Position, WakeInv
<1>4. ASSUME NEW p \in Proc, ForkCopied(p) PROVE WakeInv'
  <2>1. On(p, "copy") BY <1>4, AtRunning DEF ForkCopied
  <2> QED BY <1>4, <1>I, Types, <2>1, Slots DEF On, ForkCopied, Go, proc, Free, Preemptible,
      Position, WakeInv
<1>5. ASSUME NEW p \in Proc, SetParent(p) PROVE WakeInv'
  <2>1. On(p, "set_parent") BY <1>5, AtRunning DEF SetParent
  <2> QED BY <1>5, <1>I, Types, <2>1, Slots DEF On, SetParent, Go, proc, Free, Preemptible,
      Position, WakeInv
<1>6. ASSUME NEW p \in Proc, SetRunnable(p) PROVE WakeInv'
  <2>1. On(p, "set_runnable") BY <1>6, AtRunning DEF SetRunnable
  <2>2. PICK s \in Proc : s = k[p].x /\ s # p /\ state[s] = "used" /\ parent[s] = p
    BY <1>6, <1>I, <2>1 DEF On, ForkInv, Building
  <2>3. /\ k'[p] = Thread("ret") /\ k'[s] = Thread("user")
        /\ \A q \in Proc : q # p /\ q # s => k'[q] = k[q]
    BY <1>6, Types, <2>2 DEF SetRunnable
  <2>4. /\ Free(s) /\ state' = [state EXCEPT ![s] = "runnable"] 
        /\ UNCHANGED <<parent, chan, plock, wait_lock, cpu>>
    BY <1>6, <2>2 DEF SetRunnable
  <2> QED BY <1>I, Types, <2>1, <2>2, <2>3, <2>4, Slots DEF On, Free, Thread, Preemptible,
      PositionInv, WakeInv
<1>7. ASSUME NEW p \in Proc, ExitStart(p) PROVE WakeInv'
  <2>1. On(p, "exit") BY <1>7, AtRunning DEF ExitStart
  <2> QED BY <1>7, <1>I, Types, <2>1, Slots DEF On, ExitStart, Enter, Thread, proc, Free,
      Preemptible, Position, WakeInv
<1>8. ASSUME NEW p \in Proc, Reparent(p) PROVE WakeInv'
  <2>1. On(p, "reparent") BY <1>8, AtRunning DEF Reparent
  <2>2. UNCHANGED <<state, chan, plock, wait_lock, cpu>> BY <1>8 DEF Reparent
  <2>3. CASE Enter(p, "wake_parent") /\ parent' = parent /\ \A q \in Proc : parent[q] # p
    BY <1>I, Types, <2>1, <2>2, <2>3, Slots DEF On, Enter, Thread, Preemptible, PositionInv,
        ForkInv, Building, WaitLockInv, WakeInv
  <2>4. ASSUME Enter(p, "wake_init"), NEW s \in Proc, parent[s] = p,
               parent' = [parent EXCEPT ![s] = initproc]
        PROVE  WakeInv'
    BY <1>I, Types, <2>1, <2>2, <2>4, Slots DEF On, Enter, Thread, Preemptible, PositionInv,
        ForkInv, Building, WaitLockInv, WakeInv
  <2> QED BY <1>8, <2>3, <2>4, ReparentEffect
<1>9. ASSUME NEW p \in Proc, WakeInit(p) PROVE WakeInv'
  <2>1. On(p, "wake_init") BY <1>9, AtRunning DEF WakeInit
  <2> QED BY <1>9, <1>I, Types, <2>1, Slots DEF On, WakeInit, Wakeup, Enter, Thread, proc, Free,
      Preemptible, Position, PositionInv, WakeInv
<1>10. ASSUME NEW p \in Proc, WakeParent(p) PROVE WakeInv'
  <2>1. On(p, "wake_parent") BY <1>10, AtRunning DEF WakeParent
  <2> QED BY <1>10, <1>I, Types, <2>1, Slots DEF On, WakeParent, Wakeup, Enter, Thread, proc,
      Free, Preemptible, Position, PositionInv, WakeInv
<1>11. ASSUME NEW p \in Proc, Zombie(p) PROVE WakeInv'
  <2>1. On(p, "zombie") BY <1>11, AtRunning DEF Zombie
  <2>2. /\ k'[p].ret = "dead" /\ k'[p].i = k[p].i /\ \A q \in Proc : q # p => k'[q] = k[q]
        /\ parent' = parent /\ state' = [state EXCEPT ![p] = "zombie"]
    BY <1>11, Types, Moves DEF Zombie
  <2> QED BY <1>I, Types, <2>1, <2>2, Slots DEF On, WakeInv, WaitLockInv
<1>12. ASSUME NEW p \in Proc, WaitStart(p) PROVE WakeInv'
  <2>1. On(p, "wait") BY <1>12, AtRunning DEF WaitStart
  <2> QED BY <1>12, <1>I, Types, <2>1, Slots DEF On, WaitStart, Enter, Thread, proc, Free,
      Preemptible, Position, WakeInv
<1>13. ASSUME NEW p \in Proc, ScanChild(p) PROVE WakeInv'
  <2>1. On(p, "scan") BY <1>13, AtRunning DEF ScanChild
  <2>2. PICK s \in Proc : /\ Scans(p, s) /\ state[s] # "zombie"
                        /\ k' = [k EXCEPT ![p].i = s + 1] /\ UNCHANGED <<state, parent>>
    BY <1>13, ScanEffect DEF ScanChild, proc
  <2>3. /\ k'[p].ret = "scan" /\ k'[p].i = s + 1 /\ \A q \in Proc : q # p => k'[q] = k[q]
    BY Types, <2>1, <2>2 DEF On, Position
  <2>4. SUFFICES ASSUME NEW x \in Proc, NEW q \in Proc, parent[q] = x
        PROVE  /\ state[q] = "zombie" /\ state[x] = "sleeping" =>
                    x = initproc /\ \E r \in Proc : k'[r].ret = "wake_init"
               /\ state[q] = "zombie" => k'[x].ret # "sleep" /\ (k'[x].ret = "scan" => q >=
                   k'[x].i)
               /\ k'[q].ret = "zombie" => state[x] # "sleeping"
    BY <2>2 DEF WakeInv
  <2>5. /\ state[q] = "zombie" /\ state[x] = "sleeping" =>
             x = initproc /\ \E r \in Proc : k[r].ret = "wake_init"
        /\ state[q] = "zombie" => k[x].ret # "sleep" /\ (k[x].ret = "scan" => q >= k[x].i)
        /\ k[q].ret = "zombie" => state[x] # "sleeping"
    BY <1>I, <2>4 DEF WakeInv
  <2>6. state[q] = "zombie" /\ x = p => q >= s + 1
    BY <2>1, <2>2, <2>4, <2>5, Slots DEF On, Scans
  <2> QED BY <2>1, <2>3, <2>5, <2>6 DEF On
<1>14. ASSUME NEW p \in Proc, Reap(p) PROVE WakeInv'
  <2>1. On(p, "scan") BY <1>14, AtRunning DEF Reap
  <2>2. PICK s \in Proc : /\ Scans(p, s) /\ Free(s) /\ state[s] = "zombie"
                        /\ FreeProc(s) /\ wait_lock' = None
                        /\ Enter(p, "ret") /\ UNCHANGED <<plock, cpu>>
    BY <1>14, ScanEffect DEF Reap, proc
  <2> QED BY <1>I, Types, <2>1, <2>2, Slots DEF On, Scans, Free, Preemptible, Position, FreeProc,
      Enter, Thread, WakeInv
<1>15. ASSUME NEW p \in Proc, ReapNoCopy(p) PROVE WakeInv'
  <2>1. On(p, "scan") BY <1>15, AtRunning DEF ReapNoCopy
  <2> QED BY <1>15, <1>I, Types, <2>1, Slots DEF On, ReapNoCopy, Enter, Thread, proc, Free,
      Preemptible, Position, WakeInv
<1>16. ASSUME NEW p \in Proc, WaitFail(p) PROVE WakeInv'
  <2>1. On(p, "scan") BY <1>16, AtRunning DEF WaitFail
  <2> QED BY <1>16, <1>I, Types, <2>1, Slots DEF On, WaitFail, Enter, Thread, proc, Free,
      Preemptible, Position, WakeInv
<1>17. ASSUME NEW p \in Proc, WaitOn(p) PROVE WakeInv'
  <2>1. On(p, "scan") BY <1>17, AtRunning DEF WaitOn
  <2> QED BY <1>17, <1>I, Types, <2>1, Slots DEF On, WaitOn, Enter, Thread, Rest, Children, proc,
      Free, Preemptible, Position, WakeInv
<1>18. ASSUME NEW p \in Proc, Sleep(p) PROVE WakeInv'
  <2>1. On(p, "sleep") BY <1>18, AtRunning DEF Sleep
  <2>2. /\ k'[p].ret = "wait" /\ k'[p].i = k[p].i /\ \A q \in Proc : q # p => k'[q] = k[q]
        /\ parent' = parent /\ state' = [state EXCEPT ![p] = "sleeping"]
    BY <1>18, Types, Moves DEF Sleep
  <2> QED BY <1>I, Types, <2>1, <2>2, Slots DEF On, WakeInv, WaitLockInv
<1>19. ASSUME NEW p \in Proc, Kill(p) PROVE WakeInv'
  <2>1. On(p, "kill") BY <1>19, AtRunning DEF Kill
  <2> QED BY <1>19, <1>I, Types, <2>1, Slots DEF On, Kill, Enter, Thread, proc, Free,
      Preemptible, Position, WakeInv
<1>20. ASSUME NEW p \in Proc, Yield(p) PROVE WakeInv'
  <2>1. On(p, k[p].pc)
    BY <1>20, AtRunning DEF Yield, At, Preemptible
  <2> QED BY <1>20, <1>I, Types, <2>1, Slots DEF On, Yield, Free, Preemptible, Position,
      PositionInv, WakeInv
<1>21. ASSUME NEW c \in Cpu, Swtch(c) PROVE WakeInv'
  BY <1>21, <1>I, Types, Slots DEF Swtch, proc, Preemptible, Position, WakeInv
<1>22. ASSUME NEW c \in Cpu, NEW p \in Proc, Dispatch(c, p) PROVE WakeInv'
  BY <1>22, <1>I, Types, Slots DEF Dispatch, Free, Preemptible, WakeInv
<1> QED
  BY <1>1, <1>2, <1>3, <1>4, <1>5, <1>6, <1>7, <1>8, <1>9, <1>10, <1>11, <1>12, <1>13, <1>14,
      <1>15, <1>16, <1>17, <1>18, <1>19, <1>20, <1>21, <1>22, QuietStep
  DEF Next, User, Kernel

\* Every step keeps the variables in their ranges.
LEMMA TypeStep ==
  ASSUME IInv, Next
  PROVE  TypeOK'
<1>T. TypeOK /\ PositionInv /\ ForkInv BY DEF IInv
<1>N. NProc \in Nat /\ 1 \in 1 .. NProc + 1 BY ProcAssumption
<1>F. \A l \in Label : Thread(l) \in Position BY <1>N DEF Thread, Position, Label, Preemptible,
    None
<1>1. ASSUME NEW p \in Proc, SyscallFork(p) PROVE TypeOK'
  <2>1. Thread("fork") \in Position BY <1>F DEF Label, Preemptible
  <2> QED BY <1>1, <1>T, <2>1, Slots DEF SyscallFork, Syscall, Enter, proc, TypeOK
<1>2. ASSUME NEW p \in Proc, SyscallExit(p) PROVE TypeOK'
  <2>1. Thread("exit") \in Position BY <1>F DEF Label, Preemptible
  <2> QED BY <1>2, <1>T, <2>1, Slots DEF SyscallExit, Syscall, Enter, proc, TypeOK
<1>3. ASSUME NEW p \in Proc, SyscallWait(p) PROVE TypeOK'
  <2>1. Thread("wait") \in Position BY <1>F DEF Label, Preemptible
  <2> QED BY <1>3, <1>T, <2>1, Slots DEF SyscallWait, Syscall, Enter, proc, TypeOK
<1>4. ASSUME NEW p \in Proc, InterruptKilled(p) PROVE TypeOK'
  <2>1. Thread("exit") \in Position BY <1>F DEF Label, Preemptible
  <2> QED BY <1>4, <1>T, <2>1, Slots DEF InterruptKilled, Enter, proc, TypeOK
<1>5. ASSUME NEW p \in Proc, SyscallReturn(p) PROVE TypeOK'
  <2>1. Thread("exit") \in Position /\ Thread("user") \in Position BY <1>F DEF Label, Preemptible
  <2> QED BY <1>5, <1>T, <2>1, Slots DEF SyscallReturn, Enter, proc, TypeOK
<1>6. ASSUME NEW p \in Proc, NoSlot(p) PROVE TypeOK'
  <2>1. Thread("ret") \in Position BY <1>F DEF Label, Preemptible
  <2> QED BY <1>6, <1>T, <2>1, Slots DEF NoSlot, Enter, proc, TypeOK
<1>7. ASSUME NEW p \in Proc, InitExit(p) PROVE TypeOK'
  BY <1>7, <1>T DEF InitExit, vars, proc, TypeOK
<1>8. ASSUME NEW p \in Proc, KillNext(p) PROVE TypeOK'
  <2>1. k[p] \in Position /\ k[p].i \in Proc BY <1>8, <1>T DEF KillNext, TypeOK
  <2>2. k[p].i + 1 \in 1 .. NProc + 1 BY <2>1, <1>N DEF Proc
  <2>3. [k[p] EXCEPT !.i = k[p].i + 1, !.pre = FALSE] \in Position BY <2>1, <2>2 DEF Position
  <2> QED BY <1>8, <1>T, <2>3 DEF KillNext, proc, TypeOK
<1>9. ASSUME NEW p \in Proc, KillNobody(p) PROVE TypeOK'
  <2>1. Thread("ret") \in Position BY <1>F DEF Label, Preemptible
  <2> QED BY <1>9, <1>T, <2>1, Slots DEF KillNobody, Enter, proc, TypeOK
<1>10. ASSUME NEW p \in Proc, AllocProc(p) PROVE TypeOK'
  <2>1. k[p] \in Position /\ k[p].i \in Proc BY <1>10, <1>T DEF AllocProc, TypeOK
  <2>2. k[p].i + 1 \in 1 .. NProc + 1 BY <2>1, <1>N DEF Proc
  <2>3. k' \in [Proc -> Position]
    <3>1. [Thread("copy") EXCEPT !.x = k[p].i] \in Position
      BY <1>F, <2>1, Slots DEF Position, Label, Preemptible, Thread
    <3>2. [k[p] EXCEPT !.i = k[p].i + 1, !.pre = FALSE] \in Position BY <2>1, <2>2 DEF Position
    <3> QED BY <1>10, <1>T, <3>1, <3>2 DEF AllocProc, TypeOK
  <2> QED BY <1>10, <1>T, <2>1, <2>3, Slots DEF AllocProc, Allocpid, TypeOK
<1>11. ASSUME NEW p \in Proc, ForkFail(p) PROVE TypeOK'
  <2>1. Thread("ret") \in Position BY <1>F DEF Label, Preemptible
  <2> QED BY <1>11, <1>T, <2>1, Slots DEF ForkFail, FreeProc, Enter, proc, TypeOK
<1>12. ASSUME NEW p \in Proc, ForkCopied(p) PROVE TypeOK'
  <2>1. [k[p] EXCEPT !.pc = "set_parent", !.ret = "set_parent", !.pre = FALSE] \in Position
    BY <1>T DEF TypeOK, Position, Label, Preemptible
  <2> QED BY <1>12, <1>T, <2>1, Slots DEF ForkCopied, Go, proc, TypeOK
<1>13. ASSUME NEW p \in Proc, SetParent(p) PROVE TypeOK'
  <2>1. [k[p] EXCEPT !.pc = "set_runnable", !.ret = "set_runnable", !.pre = FALSE] \in Position
    BY <1>T DEF TypeOK, Position, Label, Preemptible
  <2> QED BY <1>13, <1>T, <2>1, Slots DEF SetParent, Go, proc, TypeOK
<1>14. ASSUME NEW p \in Proc, SetRunnable(p) PROVE TypeOK'
  <2>1. Thread("ret") \in Position /\ Thread("user") \in Position BY <1>F DEF Label, Preemptible
  <2> QED BY <1>14, <1>T, <2>1 DEF SetRunnable, TypeOK
<1>15. ASSUME NEW p \in Proc, ExitStart(p) PROVE TypeOK'
  <2>1. Thread("reparent") \in Position BY <1>F DEF Label, Preemptible
  <2> QED BY <1>15, <1>T, <2>1, Slots DEF ExitStart, Enter, proc, TypeOK
<1>16. ASSUME NEW p \in Proc, Reparent(p) PROVE TypeOK'
  <2>1. UNCHANGED <<state, pid, chan, killed, plock, wait_lock, nextpid, cpu>> BY <1>16 DEF
      Reparent
  <2>2. Thread("wake_parent") \in Position /\ Thread("wake_init") \in Position BY <1>F DEF Label
  <2>3. k' \in [Proc -> Position] BY <1>16, <1>T, <2>2, ReparentEffect DEF Enter, TypeOK
  <2>4. parent' \in [Proc -> Proc \union {None}] BY <1>16, <1>T, ReparentEffect, Slots DEF TypeOK
  <2> QED BY <1>T, <2>1, <2>3, <2>4 DEF TypeOK
<1>17. ASSUME NEW p \in Proc, WakeInit(p) PROVE TypeOK'
  <2>1. Thread("reparent") \in Position BY <1>F DEF Label, Preemptible
  <2> QED BY <1>17, <1>T, <2>1, Slots DEF WakeInit, Wakeup, Enter, proc, TypeOK
<1>18. ASSUME NEW p \in Proc, WakeParent(p) PROVE TypeOK'
  <2>1. Thread("zombie") \in Position BY <1>F DEF Label, Preemptible
  <2> QED BY <1>18, <1>T, <2>1, Slots DEF WakeParent, Wakeup, Enter, proc, TypeOK
<1>19. ASSUME NEW p \in Proc, Zombie(p) PROVE TypeOK'
  <2>1. [k[p] EXCEPT !.pc = "sched", !.ret = "dead"] \in Position
    BY <1>T DEF TypeOK, Position, Label, Preemptible
  <2> QED BY <1>19, <1>T, <2>1, Slots DEF Zombie, Sched, proc, TypeOK
<1>20. ASSUME NEW p \in Proc, WaitStart(p) PROVE TypeOK'
  <2>1. Thread("scan") \in Position BY <1>F DEF Label, Preemptible
  <2> QED BY <1>20, <1>T, <2>1, Slots DEF WaitStart, Enter, proc, TypeOK
<1>21. ASSUME NEW p \in Proc, ScanChild(p) PROVE TypeOK'
  <2>1. PICK s \in Proc : k' = [k EXCEPT ![p].i = s + 1] BY <1>21, ScanEffect DEF ScanChild
  <2>2. s + 1 \in 1 .. NProc + 1 BY <1>N DEF Proc
  <2>3. [k[p] EXCEPT !.i = s + 1] \in Position BY <1>T, <2>2 DEF TypeOK, Position
  <2> QED BY <1>21, <1>T, <2>1, <2>3 DEF ScanChild, proc, TypeOK
<1>22. ASSUME NEW p \in Proc, Reap(p) PROVE TypeOK'
  <2>1. PICK s \in Proc : FreeProc(s) BY <1>22, ScanEffect DEF Reap
  <2>2. Thread("ret") \in Position BY <1>F DEF Label, Preemptible
  <2>3. wait_lock' = None /\ Enter(p, "ret") /\ UNCHANGED <<plock, nextpid, cpu>> BY <1>22 DEF
      Reap
  <2> QED BY <1>T, <2>1, <2>2, <2>3, Slots DEF FreeProc, Enter, TypeOK
<1>23. ASSUME NEW p \in Proc, ReapNoCopy(p) PROVE TypeOK'
  <2>1. Thread("ret") \in Position BY <1>F DEF Label, Preemptible
  <2> QED BY <1>23, <1>T, <2>1, Slots DEF ReapNoCopy, Enter, proc, TypeOK
<1>24. ASSUME NEW p \in Proc, WaitFail(p) PROVE TypeOK'
  <2>1. Thread("ret") \in Position BY <1>F DEF Label, Preemptible
  <2> QED BY <1>24, <1>T, <2>1, Slots DEF WaitFail, Enter, proc, TypeOK
<1>25. ASSUME NEW p \in Proc, WaitOn(p) PROVE TypeOK'
  <2>1. Thread("sleep") \in Position BY <1>F DEF Label, Preemptible
  <2> QED BY <1>25, <1>T, <2>1, Slots DEF WaitOn, Enter, Rest, Children, proc, TypeOK
<1>26. ASSUME NEW p \in Proc, Sleep(p) PROVE TypeOK'
  <2>1. [k[p] EXCEPT !.pc = "sched", !.ret = "wait"] \in Position
    BY <1>T DEF TypeOK, Position, Label, Preemptible
  <2> QED BY <1>26, <1>T, <2>1, Slots DEF Sleep, Sched, proc, TypeOK
<1>27. ASSUME NEW p \in Proc, Kill(p) PROVE TypeOK'
  <2>1. Thread("ret") \in Position BY <1>F DEF Label, Preemptible
  <2> QED BY <1>27, <1>T, <2>1, Slots DEF Kill, Enter, proc, TypeOK
<1>28. ASSUME NEW p \in Proc, Yield(p) PROVE TypeOK'
  <2>1. [k[p] EXCEPT !.pc = "sched", !.ret = k[p].pc, !.pre = k[p].pc # "user"] \in Position
    BY <1>T DEF TypeOK, Position, Label
  <2> QED BY <1>28, <1>T, <2>1, Slots DEF Yield, TypeOK
<1>29. ASSUME NEW p \in Proc, NEW m \in KillPids, SyscallKill(p, m) PROVE TypeOK'
  <2>1. [Thread("kill") EXCEPT !.x = m] \in Position
    BY <1>F, ProcAssumption DEF Position, Label, Preemptible
  <2> QED BY <1>29, <1>T, <2>1 DEF SyscallKill, proc, TypeOK
<1>30. ASSUME NEW c \in Cpu, Swtch(c) PROVE TypeOK'
  <2>1. PICK p \in Proc : p = cpu[c] BY <1>30, <1>T DEF Swtch, TypeOK
  <2>2. [k[p] EXCEPT !.pc = k[p].ret] \in Position BY <1>T DEF TypeOK, Position
  <2> QED BY <1>30, <1>T, <2>1, <2>2 DEF Swtch, proc, TypeOK
<1>31. ASSUME NEW c \in Cpu, NEW p \in Proc, Dispatch(c, p) PROVE TypeOK'
  BY <1>31, <1>T DEF Dispatch, TypeOK
<1> QED
  BY <1>1, <1>2, <1>3, <1>4, <1>5, <1>6, <1>7, <1>8, <1>9, <1>10, <1>11, <1>12, <1>13, <1>14,
      <1>15, <1>16, <1>17, <1>18, <1>19, <1>20, <1>21, <1>22, <1>23, <1>24, <1>25, <1>26, <1>27,
          <1>28, <1>29, <1>30, <1>31
  DEF Next, User, Kernel

\* userinit's process is the only one, and no CPU runs it yet.
LEMMA InitIInv ==
  ASSUME Init
  PROVE  IInv
<1>1. /\ state  = [p \in Proc |-> IF p = initproc THEN "runnable" ELSE "unused"]
      /\ parent = [p \in Proc |-> None] /\ chan = [p \in Proc |-> None]
      /\ plock = [p \in Proc |-> None] /\ wait_lock = None /\ cpu = [c \in Cpu |-> None]
      /\ k = [p \in Proc |-> Thread("user")]
  BY DEF Init, Procinit
<1>2. \A p \in Proc : k[p].pc = "user" /\ k[p].ret = "user" BY <1>1 DEF Thread
<1>3. TypeOK
  <2>1. Thread("user") \in Position BY ProcAssumption DEF Thread, Position, Label, Preemptible,
      None
  <2>2. pid \in [Proc -> Nat] /\ nextpid \in Nat /\ killed \in [Proc -> BOOLEAN] BY DEF Init,
      Procinit
  <2> QED BY <1>1, <2>1, <2>2 DEF TypeOK
<1>4. PositionInv BY <1>1, <1>2 DEF PositionInv, Preemptible
<1>5. CpuInv BY <1>1, Slots DEF CpuInv
<1>6. LockInv BY <1>1, <1>2, Slots DEF LockInv
<1>7. ForkInv BY <1>2 DEF ForkInv, Building
<1>8. WaitLockInv BY <1>1, <1>2, Slots DEF WaitLockInv
<1>9. InitInv BY <1>1, <1>2, Slots DEF InitInv, Alive
<1>10. ParentInv BY <1>1, Slots DEF ParentInv
<1>11. WakeInv BY <1>1, Slots DEF WakeInv
<1> QED BY <1>3, <1>4, <1>5, <1>6, <1>7, <1>8, <1>9, <1>10, <1>11 DEF IInv

\* A step that changes nothing keeps everything.
LEMMA Stutter ==
  ASSUME IInv, UNCHANGED vars
  PROVE  IInv'
<1>1. TypeOK' /\ PositionInv' /\ CpuInv' BY DEF IInv, vars, proc, TypeOK, PositionInv, CpuInv
<1>2. LockInv' /\ ForkInv' /\ WaitLockInv'
  BY DEF IInv, vars, proc, LockInv, ForkInv, Building, WaitLockInv
<1>3. InitInv' /\ ParentInv' /\ WakeInv'
  BY DEF IInv, vars, proc, InitInv, ParentInv, WakeInv, Alive
<1> QED BY <1>1, <1>2, <1>3 DEF IInv

\* The inductive invariant: states, positions, locks and parents agree, for
\* any number of slots, CPUs and pids.
THEOREM ProcCorrect == Spec => []IInv
<1>1. Init => IInv BY InitIInv
<1>2. IInv /\ [Next]_vars => IInv'
  <2> SUFFICES ASSUME IInv, [Next]_vars PROVE IInv' OBVIOUS
  <2>1. CASE Next
    BY <2>1, TypeStep, PositionStep, CpuStep, LockStep, ForkStep, WaitLockStep, InitStep,
        ParentStep,
      WakeStep DEF IInv
  <2>2. CASE UNCHANGED vars BY <2>2, Stutter
  <2> QED BY <2>1, <2>2
<1> QED BY <1>1, <1>2, PTL DEF Spec

\* Every variable of proc.c stays in its range: the loops of reparent, kwait
\* and kkill stay inside proc[], and no thread leaves the labels of its function.
THEOREM TypeCorrect == Spec => []TypeOK
<1>1. IInv => TypeOK BY DEF IInv
<1> QED BY <1>1, ProcCorrect, PTL

\* No two CPUs are ever on one kernel stack, also around swtch, and no CPU is on
\* the stack of a slot that freeproc has given back.
THEOREM StacksExclusive == Spec => []StackExclusive
<1>1. IInv => StackExclusive
  <2> SUFFICES ASSUME IInv, NEW c \in Cpu, cpu[c] # None
               PROVE  /\ state[cpu[c]] \notin {"unused", "used"}
                      /\ \A d \in Cpu : cpu[d] = cpu[c] => d = c
    BY DEF StackExclusive
  <2>1. cpu[c] \in Proc /\ CpuInv /\ PositionInv BY DEF IInv, TypeOK
  <2> QED BY <2>1 DEF CpuInv, PositionInv
<1> QED BY <1>1, ProcCorrect, PTL

\* Whoever has a parent has one that can still wait for it.
THEOREM ParentsLive == Spec => []NoOrphan
<1>1. IInv => NoOrphan
  <2> SUFFICES ASSUME IInv, NEW q \in Proc, parent[q] # None
               PROVE  state[parent[q]] \notin {"unused", "used", "zombie"}
    BY DEF NoOrphan
  <2>1. parent[q] \in Proc /\ ParentInv BY DEF IInv, TypeOK
  <2> QED BY <2>1 DEF ParentInv, Alive
<1> QED BY <1>1, ProcCorrect, PTL

\* A parent never sleeps on a zombie, however exit, wait, kill and preemption
\* interleave: the wakeup of kexit is not lost.
THEOREM WakeupsArrive == Spec => []NoLostWakeup
<1>1. IInv => NoLostWakeup
  <2> SUFFICES ASSUME IInv, wait_lock = None, NEW p \in Proc, state[p] = "sleeping",
                      NEW q \in Proc, parent[q] = p, state[q] = "zombie"
               PROVE  FALSE
    BY DEF NoLostWakeup, Children
  <2>1. \E r \in Proc : k[r].ret = "wake_init" BY DEF IInv, WakeInv
  <2> QED BY <2>1, Slots DEF IInv, WaitLockInv
<1> QED BY <1>1, ProcCorrect, PTL
=============================================================================

-------------------------------- MODULE Proc --------------------------------
(***************************************************************************)
(* Processes and the scheduler (kernel/kernel/proc.c): fork, exit, wait,   *)
(* kill, sleep, wakeup and the hand-over of p->lock between a process and  *)
(* the scheduler of its CPU.                                               *)
(*                                                                         *)
(* A step is what a thread does between two lock operations.  A section    *)
(* that takes and releases p->lock without another lock operation inside   *)
(* is one step, enabled when the lock is free; locks that are held across  *)
(* steps are wait_lock, the lock of the child that fork builds, and        *)
(* p->lock from a change of p->state to the scheduler's release.  A thread *)
(* takes steps only while a CPU runs it, and is not preempted while it     *)
(* holds a lock (push_off turns interrupts off).                           *)
(*                                                                         *)
(* Memory, files and the current directory are left out, and with them the *)
(* sleeps of fileclose and begin_op inside fork and exit.                  *)
(***************************************************************************)
EXTENDS Integers, FiniteSets, FiniteSetsExt

CONSTANTS
  NProc,    \* NPROC, the slots of proc[]
  Cpu,      \* the CPUs
  MaxPid,   \* bound on the pids given out: nobody forks after that
  KillPids  \* what user programs pass to kill

ASSUME ProcAssumption ==
  NProc \in Nat \ {0} /\ MaxPid \in Nat /\ Cpu # {} /\ KillPids \subseteq Nat

Proc == 1 .. NProc
None == 0         \* the null pointer
initproc == 1     \* the slot that userinit fills

VARIABLES
  state, parent, pid, chan, killed,   \* fields of struct proc
  plock,       \* the thread that holds p->lock, or None
  wait_lock,   \* the thread that holds wait_lock, or None
  nextpid,
  cpu,         \* c->proc
  k            \* the kernel thread of each slot: pc, the label after sched
               \* (ret), a loop variable (i), the child or the pid (x), and
               \* whether it has been preempted at pc in the kernel (pre)

proc == <<state, parent, pid, chan, killed>>
vars == <<proc, plock, wait_lock, nextpid, cpu, k>>

Thread(l) == [pc |-> l, ret |-> l, i |-> 1, x |-> None, pre |-> FALSE]

\* procinit: every slot is unused and every lock free.
Procinit ==
  /\ plock  = [p \in Proc |-> None] /\ wait_lock = None
  /\ parent = [p \in Proc |-> None] /\ chan = [p \in Proc |-> None]
  /\ killed = [p \in Proc |-> FALSE]

\* userinit then makes the first process, whose pid is 1.
Init ==
  /\ Procinit
  /\ state   = [p \in Proc |-> IF p = initproc THEN "runnable" ELSE "unused"]
  /\ pid     = [p \in Proc |-> IF p = initproc THEN 1 ELSE 0]
  /\ nextpid = 2
  /\ cpu     = [c \in Cpu |-> None]
  /\ k       = [p \in Proc |-> Thread("user")]

Runs(p)  == \E c \in Cpu : cpu[c] = p
At(p, l) == Runs(p) /\ k[p].pc = l
Free(p)  == plock[p] = None
\* killed(p), under p->lock, returns b.
Killed(p, b) == Free(p) /\ killed[p] = b

Children(p) == {q \in Proc : parent[q] = p}

Go(p, l)    == k' = [k EXCEPT ![p] = [@ EXCEPT !.pc = l, !.ret = l, !.pre = FALSE]]
Enter(p, l) == k' = [k EXCEPT ![p] = Thread(l)]
Sched(p, l) == k' = [k EXCEPT ![p] = [@ EXCEPT !.pc = "sched", !.ret = l]]

\* freeproc(q), q->lock held
FreeProc(q) ==
  /\ state'  = [state  EXCEPT ![q] = "unused"]
  /\ parent' = [parent EXCEPT ![q] = None]
  /\ pid'    = [pid    EXCEPT ![q] = 0]
  /\ chan'   = [chan   EXCEPT ![q] = None]
  /\ killed' = [killed EXCEPT ![q] = FALSE]

-----------------------------------------------------------------------------
(* The scheduler *)

\* A CPU that has nothing to run finds p runnable.  The process then releases
\* its lock, in forkret, yield, or sleep, which clears p->chan first.
Dispatch(c, p) ==
  /\ cpu[c] = None /\ Free(p) /\ state[p] = "runnable"
  /\ state' = [state EXCEPT ![p] = "running"]
  /\ chan'  = [chan  EXCEPT ![p] = None]
  /\ cpu'   = [cpu   EXCEPT ![c] = p]
  /\ UNCHANGED <<parent, pid, killed, plock, wait_lock, nextpid, k>>

\* sched: the CPU leaves p's kernel stack, then releases p->lock.
Swtch(c) ==
  LET p == cpu[c] IN
  /\ p # None /\ k[p].pc = "sched"
  /\ cpu'   = [cpu   EXCEPT ![c] = None]
  /\ plock' = [plock EXCEPT ![p] = None]
  /\ k' = [k EXCEPT ![p].pc = k[p].ret]
  /\ UNCHANGED <<proc, wait_lock, nextpid>>

\* The labels at which a thread holds no lock, so that interrupts are on.
Preemptible == {"user", "fork", "set_parent", "set_runnable", "kill", "exit", "wait", "ret"}

\* A timer interrupt, in user mode or in the kernel.  Bound: a thread is
\* preempted once before each of its steps in the kernel.
Yield(p) ==
  /\ Runs(p) /\ k[p].pc \in Preemptible /\ ~k[p].pre /\ Free(p)
  /\ plock' = [plock EXCEPT ![p] = p]
  /\ state' = [state EXCEPT ![p] = "runnable"]
  /\ k' = [k EXCEPT ![p] = [@ EXCEPT !.pc = "sched", !.ret = k[p].pc, !.pre = k[p].pc # "user"]]
  /\ UNCHANGED <<parent, pid, chan, killed, wait_lock, nextpid, cpu>>

-----------------------------------------------------------------------------
(* Traps: usertrap tests p->killed before and after a system call, and on  *)
(* every interrupt.                                                        *)

Syscall(p, l) ==
  /\ At(p, "user") /\ Killed(p, FALSE)
  /\ Enter(p, l)
  /\ UNCHANGED <<proc, plock, wait_lock, nextpid, cpu>>

SyscallFork(p) == nextpid <= MaxPid /\ Syscall(p, "fork")
SyscallExit(p) == Syscall(p, "exit")
SyscallWait(p) == Syscall(p, "wait")

SyscallKill(p, n) ==
  /\ At(p, "user") /\ Killed(p, FALSE)
  /\ k' = [k EXCEPT ![p] = [Thread("kill") EXCEPT !.x = n]]
  /\ UNCHANGED <<proc, plock, wait_lock, nextpid, cpu>>

InterruptKilled(p) ==
  /\ At(p, "user") /\ Killed(p, TRUE)
  /\ Enter(p, "exit")
  /\ UNCHANGED <<proc, plock, wait_lock, nextpid, cpu>>

SyscallReturn(p) ==
  /\ At(p, "ret") /\ Free(p)
  /\ Enter(p, IF killed[p] THEN "exit" ELSE "user")
  /\ UNCHANGED <<proc, plock, wait_lock, nextpid, cpu>>

-----------------------------------------------------------------------------
(* kfork *)

\* Process i gets the next pid, under pid_lock.
Allocpid(i) == pid' = [pid EXCEPT ![i] = nextpid] /\ nextpid' = nextpid + 1

\* allocproc, one slot.
AllocProc(p) ==
  LET i == k[p].i IN
  /\ At(p, "fork")
  /\ i \in Proc /\ Free(i)
  /\ IF state[i] = "unused"
     THEN /\ Allocpid(i)
          /\ state'   = [state EXCEPT ![i] = "used"]
          /\ plock'   = [plock EXCEPT ![i] = p]
          /\ k'       = [k EXCEPT ![p] = [Thread("copy") EXCEPT !.x = i]]
     ELSE /\ k' = [k EXCEPT ![p] = [@ EXCEPT !.i = k[p].i + 1, !.pre = FALSE]]
          /\ UNCHANGED <<pid, nextpid, state, plock>>
  /\ UNCHANGED <<parent, chan, killed, wait_lock, cpu>>

NoSlot(p) ==
  /\ At(p, "fork") /\ k[p].i > NProc
  /\ Enter(p, "ret")
  /\ UNCHANGED <<proc, plock, wait_lock, nextpid, cpu>>

\* The trapframe, the page table or uvmcopy runs out of memory.
ForkFail(p) ==
  /\ At(p, "copy")
  /\ FreeProc(k[p].x)
  /\ plock' = [plock EXCEPT ![k[p].x] = None]
  /\ Enter(p, "ret")
  /\ UNCHANGED <<wait_lock, nextpid, cpu>>

ForkCopied(p) ==
  /\ At(p, "copy")
  /\ plock' = [plock EXCEPT ![k[p].x] = None]
  /\ Go(p, "set_parent")
  /\ UNCHANGED <<proc, wait_lock, nextpid, cpu>>

SetParent(p) ==
  /\ At(p, "set_parent") /\ wait_lock = None
  /\ parent' = [parent EXCEPT ![k[p].x] = p]
  /\ Go(p, "set_runnable")
  /\ UNCHANGED <<state, pid, chan, killed, plock, wait_lock, nextpid, cpu>>

\* The child starts in forkret.
SetRunnable(p) ==
  LET np == k[p].x IN
  /\ At(p, "set_runnable") /\ Free(np)
  /\ state' = [state EXCEPT ![np] = "runnable"]
  /\ k' = [q \in Proc |-> IF q = np THEN Thread("user") ELSE IF q = p THEN Thread("ret") ELSE k[q]]
  /\ UNCHANGED <<parent, pid, chan, killed, plock, wait_lock, nextpid, cpu>>

-----------------------------------------------------------------------------
(* kexit *)

\* "init exiting": panic() ends in for(;;).
InitExit(p) == p = initproc /\ At(p, "exit") /\ UNCHANGED vars

ExitStart(p) ==
  /\ p # initproc
  /\ At(p, "exit") /\ wait_lock = None
  /\ wait_lock' = p
  /\ Enter(p, "reparent")
  /\ UNCHANGED <<proc, plock, nextpid, cpu>>

\* Bug: the children keep their parent.
ReparentNone(p) ==
  /\ At(p, "reparent")
  /\ Enter(p, "wake_parent")
  /\ UNCHANGED <<proc, plock, wait_lock, nextpid, cpu>>

\* The next child of p goes to init, which is woken for it.
Reparent(p) ==
  /\ At(p, "reparent")
  /\ IF Children(p) = {}
     THEN Enter(p, "wake_parent") /\ UNCHANGED parent
     ELSE Enter(p, "wake_init") /\ parent' = [parent EXCEPT ![Min(Children(p))] = initproc]
  /\ UNCHANGED <<state, pid, chan, killed, plock, wait_lock, nextpid, cpu>>

\* wakeup(ch) by p, then on to l.  kwait sleeps on its own slot, so ch is the
\* only slot at which the loop may find somebody.
Wakeup(p, ch, l) ==
  /\ Free(ch)
  /\ state' = IF state[ch] = "sleeping" /\ chan[ch] = ch
              THEN [state EXCEPT ![ch] = "runnable"] ELSE state
  /\ Enter(p, l)
  /\ UNCHANGED <<parent, pid, chan, killed, plock, wait_lock, nextpid, cpu>>

WakeInit(p)   == At(p, "wake_init") /\ Wakeup(p, initproc, "reparent")

\* Bug: only a parent that waits already is told.
WakeParentNone(p) ==
  /\ At(p, "wake_parent")
  /\ Enter(p, "zombie")
  /\ UNCHANGED <<proc, plock, wait_lock, nextpid, cpu>>

WakeParent(p) == At(p, "wake_parent") /\ Wakeup(p, parent[p], "zombie")

\* Bug: p->lock is released before the CPU has left p's stack.
ZombieUnlocked(p) ==
  /\ At(p, "zombie") /\ Free(p)
  /\ state' = [state EXCEPT ![p] = "zombie"]
  /\ wait_lock' = None
  /\ Sched(p, "dead")
  /\ UNCHANGED <<parent, pid, chan, killed, plock, nextpid, cpu>>

Zombie(p) ==
  /\ At(p, "zombie") /\ Free(p)
  /\ plock' = [plock EXCEPT ![p] = p]
  /\ state' = [state EXCEPT ![p] = "zombie"]
  /\ wait_lock' = None
  /\ Sched(p, "dead")
  /\ UNCHANGED <<parent, pid, chan, killed, nextpid, cpu>>

-----------------------------------------------------------------------------
(* kwait *)

WaitStart(p) ==
  /\ At(p, "wait") /\ wait_lock = None
  /\ wait_lock' = p
  /\ Enter(p, "scan")
  /\ UNCHANGED <<proc, plock, nextpid, cpu>>

\* The children that the scan has not looked at.
Rest(p) == {q \in Children(p) : q >= k[p].i}

\* Bug: the loop skips a slot.
ScanChildSkip(p) ==
  /\ At(p, "scan") /\ Rest(p) # {}
  /\ LET q == Min(Rest(p)) IN
     /\ Free(q) /\ state[q] # "zombie"
     /\ k' = [k EXCEPT ![p].i = q + 2]
  /\ UNCHANGED <<proc, plock, wait_lock, nextpid, cpu>>

ScanChild(p) ==
  /\ At(p, "scan") /\ Rest(p) # {}
  /\ LET q == Min(Rest(p)) IN
     /\ Free(q) /\ state[q] # "zombie"
     /\ k' = [k EXCEPT ![p].i = q + 1]
  /\ UNCHANGED <<proc, plock, wait_lock, nextpid, cpu>>

Reap(p) ==
  /\ At(p, "scan") /\ Rest(p) # {}
  /\ LET q == Min(Rest(p)) IN
     /\ Free(q) /\ state[q] = "zombie"
     /\ FreeProc(q)
  /\ wait_lock' = None
  /\ Enter(p, "ret")
  /\ UNCHANGED <<plock, nextpid, cpu>>

\* copyout cannot store the status: the child stays.  init passes no address.
ReapNoCopy(p) ==
  /\ p # initproc
  /\ At(p, "scan") /\ Rest(p) # {}
  /\ LET q == Min(Rest(p)) IN Free(q) /\ state[q] = "zombie"
  /\ wait_lock' = None
  /\ Enter(p, "ret")
  /\ UNCHANGED <<proc, plock, nextpid, cpu>>

\* No child is left to wait for, or p is killed.
WaitFail(p) ==
  /\ At(p, "scan") /\ Rest(p) = {}
  /\ Children(p) # {} => Killed(p, TRUE)
  /\ wait_lock' = None
  /\ Enter(p, "ret")
  /\ UNCHANGED <<proc, plock, nextpid, cpu>>

WaitOn(p) ==
  /\ At(p, "scan") /\ Rest(p) = {} /\ Children(p) # {}
  /\ Killed(p, FALSE)
  /\ Enter(p, "sleep")
  /\ UNCHANGED <<proc, plock, wait_lock, nextpid, cpu>>

\* sleep(p, &wait_lock): p->lock is taken before wait_lock is released.
Sleep(p) ==
  /\ At(p, "sleep") /\ Free(p)
  /\ plock' = [plock EXCEPT ![p] = p]
  /\ wait_lock' = None
  /\ chan'  = [chan  EXCEPT ![p] = p]
  /\ state' = [state EXCEPT ![p] = "sleeping"]
  /\ Sched(p, "wait")
  /\ UNCHANGED <<parent, pid, killed, nextpid, cpu>>

-----------------------------------------------------------------------------
(* kkill *)

Kill(p) ==
  LET i == k[p].i IN
  /\ At(p, "kill")
  /\ i \in Proc /\ Free(i) /\ pid[i] = k[p].x
  /\ killed' = [killed EXCEPT ![i] = TRUE]
  /\ state'  = IF state[i] = "sleeping" THEN [state EXCEPT ![i] = "runnable"] ELSE state
  /\ Enter(p, "ret")
  /\ UNCHANGED <<parent, pid, chan, plock, wait_lock, nextpid, cpu>>

KillNext(p) ==
  LET i == k[p].i IN
  /\ At(p, "kill")
  /\ i \in Proc /\ Free(i) /\ pid[i] # k[p].x
  /\ k' = [k EXCEPT ![p] = [@ EXCEPT !.i = k[p].i + 1, !.pre = FALSE]]
  /\ UNCHANGED <<proc, plock, wait_lock, nextpid, cpu>>

KillNobody(p) ==
  /\ At(p, "kill") /\ k[p].i > NProc
  /\ Enter(p, "ret")
  /\ UNCHANGED <<proc, plock, wait_lock, nextpid, cpu>>

-----------------------------------------------------------------------------
\* What the user program decides.
User(p) ==
  \/ SyscallFork(p) \/ SyscallExit(p) \/ SyscallWait(p)
  \/ \E n \in KillPids : SyscallKill(p, n)

\* What the kernel then does.
Kernel(p) ==
  \/ InterruptKilled(p) \/ SyscallReturn(p)
  \/ AllocProc(p) \/ NoSlot(p) \/ ForkFail(p) \/ ForkCopied(p) \/ SetParent(p) \/ SetRunnable(p)
  \/ InitExit(p) \/ ExitStart(p) \/ Reparent(p) \/ WakeInit(p) \/ WakeParent(p) \/ Zombie(p)
  \/ WaitStart(p) \/ ScanChild(p) \/ Reap(p) \/ ReapNoCopy(p) \/ WaitFail(p) \/ WaitOn(p) \/ Sleep(p)
  \/ Kill(p) \/ KillNext(p) \/ KillNobody(p)

Next ==
  \/ \E p \in Proc : User(p) \/ Kernel(p) \/ Yield(p)
  \/ \E c \in Cpu : Swtch(c) \/ \E p \in Proc : Dispatch(c, p)

Spec == Init /\ [][Next]_vars

-----------------------------------------------------------------------------
(* What must hold. *)

Label == Preemptible \union {"copy", "reparent", "wake_init", "wake_parent", "zombie", "dead",
                             "scan", "sleep", "sched"}

\* Where a kernel thread is, with its locals.
Position == [pc : Label, ret : Label, i : 1 .. NProc + 1, x : Nat, pre : BOOLEAN]

\* The type invariant.
TypeOK ==
  /\ state  \in [Proc -> {"unused", "used", "runnable", "running", "sleeping", "zombie"}]
  /\ parent \in [Proc -> Proc \union {None}]
  /\ chan   \in [Proc -> Proc \union {None}]
  /\ pid    \in [Proc -> Nat] /\ nextpid \in Nat
  /\ killed \in [Proc -> BOOLEAN]
  /\ plock  \in [Proc -> Proc \union {None}]
  /\ wait_lock \in Proc \union {None}
  /\ cpu \in [Cpu -> Proc \union {None}]
  /\ k \in [Proc -> Position]

\* A kernel stack belongs to one CPU at a time, also around swtch, and to none
\* once wait or a failing fork has freed the process.
StackExclusive == \A c \in Cpu : cpu[c] # None =>
  /\ state[cpu[c]] \notin {"unused", "used"}
  /\ \A d \in Cpu : cpu[d] = cpu[c] => d = c

\* When nobody is in exit or wait, whoever has a parent has one that can still
\* wait for it.
NoOrphan == wait_lock = None =>
  \A q \in Proc : parent[q] # None => state[parent[q]] \notin {"unused", "used", "zombie"}

\* No lost wakeup: a parent does not sleep on a zombie.
NoLostWakeup == wait_lock = None =>
  \A p \in Proc : state[p] = "sleeping" => \A q \in Children(p) : state[q] # "zombie"

\* "Kill the process with the given pid": a slot without a process is not hit.
KillHitsProcess == \A p \in Proc : state[p] = "unused" => ~killed[p]
=============================================================================

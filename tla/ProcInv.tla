------------------------------ MODULE ProcInv ------------------------------
(***************************************************************************)
(* The strengthening that makes the invariants of Proc inductive: how      *)
(* p->state, the position of p's kernel thread, p->lock, wait_lock and     *)
(* p->parent go together.  k[p].ret is the position of a thread that is in *)
(* sched as well as of one that is not.                                    *)
(***************************************************************************)
EXTENDS Proc

\* A process that runs, is ready to run or sleeps.
Alive(p) == state[p] \in {"runnable", "running", "sleeping"}

\* Where a thread may be in each state of its process.
PositionInv == \A p \in Proc :
  /\ k[p].ret # "sched" /\ k[p].pc \in {k[p].ret, "sched"}
  /\ state[p] \in {"unused", "used"} => k[p].pc \in {"user", "dead"}
  /\ state[p] = "runnable" => k[p].ret \in Preemptible
  /\ state[p] = "running"  => k[p].pc # "sched" /\ k[p].ret # "dead"
  /\ state[p] = "sleeping" => k[p].ret = "wait" /\ chan[p] = p
  /\ state[p] = "zombie"   => k[p].ret = "dead"

\* A CPU's process is running, or on its way through sched.
CpuInv ==
  /\ \A c \in Cpu, p \in Proc : cpu[c] = p => state[p] = "running" \/ k[p].pc = "sched"
  /\ \A c, d \in Cpu : cpu[c] # None /\ cpu[c] = cpu[d] => c = d

\* Between two steps p->lock is held by p in sched, or by the process that is
\* building p.
LockInv ==
  /\ \A p \in Proc : plock[p] = p <=> k[p].pc = "sched"
  /\ \A p \in Proc : k[p].ret = "copy" => plock[k[p].x] = p
  /\ \A p, q \in Proc : plock[p] = q /\ q # p => k[q].ret = "copy" /\ k[q].x = p

\* p is in kfork and has a slot for the child.
Building(p) == k[p].ret \in {"copy", "set_parent", "set_runnable"}

\* The child that kfork builds is nobody else's.
ForkInv == \A p \in Proc : Building(p) =>
  /\ k[p].x \in Proc /\ state[k[p].x] = "used"
  /\ k[p].ret = "set_runnable" => parent[k[p].x] = p
  /\ \A q \in Proc : Building(q) /\ k[q].x = k[p].x => q = p

\* wait_lock is held from its acquire to its release in kexit and kwait.
WaitLockInv == \A p \in Proc :
  wait_lock = p <=> k[p].ret \in {"reparent", "wake_init", "wake_parent", "zombie", "scan", "sleep"}

\* init neither exits nor is reaped.
InitInv ==
  /\ Alive(initproc) /\ parent[initproc] = None
  /\ k[initproc].ret \notin {"reparent", "wake_init", "wake_parent", "zombie", "dead"}

\* Every other process has a parent, which has not exited: kexit has no
\* children left when it becomes a zombie.
ParentInv ==
  /\ \A p \in Proc : p # initproc /\ state[p] \notin {"unused", "used"} => parent[p] # None
  /\ \A p, q \in Proc : parent[p] = q => Alive(q) /\ k[q].ret \notin {"wake_parent", "zombie"}

\* A zombie's parent does not sleep, except init until reparent has woken it;
\* what kwait has seen of the children, and kexit of the parent, stays true
\* under wait_lock.
WakeInv == \A p, q \in Proc : parent[q] = p =>
  /\ state[q] = "zombie" /\ state[p] = "sleeping" =>
       p = initproc /\ \E r \in Proc : k[r].ret = "wake_init"
  /\ state[q] = "zombie" => k[p].ret # "sleep" /\ (k[p].ret = "scan" => q >= k[p].i)
  /\ k[q].ret = "zombie" => state[p] # "sleeping"

IInv == TypeOK /\ PositionInv /\ CpuInv /\ LockInv /\ ForkInv /\ WaitLockInv
        /\ InitInv /\ ParentInv /\ WakeInv
=============================================================================

------------------------------ MODULE Spinlock ------------------------------
(***************************************************************************)
(* Spin locks and the interrupts of the CPU that holds one                 *)
(* (kernel/spinlock.c).                                                    *)
(*                                                                         *)
(* A CPU spins with its interrupts off, so acquire is a step of its own;   *)
(* the lock is taken by the first step that needs it.  The delays of       *)
(* kernel/chaos.c around acquire and release take time, only while         *)
(* interrupts are on, and change nothing: they are the model's             *)
(* interleavings.                                                          *)
(***************************************************************************)
EXTENDS Integers

CONSTANTS Cpu, Lock, None

ASSUME SpinlockAssumption == None \notin Cpu

VARIABLES
  cpu,      \* struct cpu: noff and intena; ie is the CPU's interrupt enable bit
  owner,    \* lk->cpu, None when lk->locked is 0
  panicked  \* a check of spinlock.c or sched has failed

lvars == <<cpu, owner, panicked>>

LInit ==
  /\ cpu = [c \in Cpu |-> [ie |-> TRUE, noff |-> 0, intena |-> FALSE]]
  /\ owner = [l \in Lock |-> None] /\ panicked = FALSE

PushOff(r) == [ie |-> FALSE, noff |-> r.noff + 1, intena |-> IF r.noff = 0 THEN r.ie ELSE r.intena]

\* Bug: the outer push_off is forgotten.
PopOffEager(r) == [r EXCEPT !.noff = @ - 1, !.ie = r.intena]

PopOff(r) == [r EXCEPT !.noff = @ - 1, !.ie = r.noff = 1 /\ r.intena]

\* pop_off's panics
Unmatched(r) == r.ie \/ r.noff < 1

Free(c, l) == owner[l] \in {None, c}

\* push_off, and the panic of a CPU that holds the lock.  From here on the CPU
\* spins: what it does first with the lock waits until it is Free.
Acquire(c, l) ==
  /\ cpu' = [cpu EXCEPT ![c] = PushOff(@)]
  /\ panicked' = (panicked \/ owner[l] = c)
  /\ UNCHANGED owner

\* amoswap has found a zero.
Locked(c, l) ==
  /\ Free(c, l) /\ owner' = [owner EXCEPT ![l] = c]
  /\ UNCHANGED <<cpu, panicked>>

Release(c, l) ==
  /\ Free(c, l) /\ owner' = [owner EXCEPT ![l] = None]
  /\ cpu' = [cpu EXCEPT ![c] = PopOff(@)]
  /\ panicked' = (panicked \/ Unmatched(cpu[c]))

\* sleep(chan, l) up to the swtch, and the CPU's scheduler, which turns interrupts on.
SleepOn(c, l) ==
  /\ Free(c, l) /\ owner' = [owner EXCEPT ![l] = None]
  /\ cpu' = [cpu EXCEPT ![c] = [@ EXCEPT !.noff = 0, !.ie = TRUE]]
  /\ panicked' = (panicked \/ cpu[c].noff # 1 \/ cpu[c].ie)

LTypeOK ==
  /\ cpu \in [Cpu -> [ie : BOOLEAN, noff : 0 .. 3, intena : BOOLEAN]]
  /\ owner \in [Lock -> Cpu \union {None}]
=============================================================================

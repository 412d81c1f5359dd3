----------------------------- MODULE AtomicLog -----------------------------
(***************************************************************************)
(* What begin_op and end_op promise the file system: the writes of a       *)
(* system call reach the disk together with those of every other system    *)
(* call that has ended, or not at all, whenever the machine stops.  Log    *)
(* blocks, headers and the buffer cache do not appear.                     *)
(***************************************************************************)
CONSTANTS Proc, Block, Val, InitVal

VARIABLES
  cur,       \* what a system call reads
  dur,       \* what is there after a crash
  running    \* the system calls between begin_op and end_op

Init ==
  /\ cur = [b \in Block |-> InitVal]
  /\ dur = cur
  /\ running = {}

Begin(p) == running' = running \union {p} /\ UNCHANGED <<cur, dur>>

Write(b, v) ==
  /\ running # {}
  /\ cur' = [cur EXCEPT ![b] = v]
  /\ UNCHANGED <<dur, running>>

End(p) == running' = running \ {p} /\ UNCHANGED <<cur, dur>>

\* No system call is half done in what becomes durable.
Commit ==
  /\ running = {}
  /\ dur' = cur
  /\ UNCHANGED <<cur, running>>

Crash ==
  /\ cur' = dur
  /\ running' = {}
  /\ UNCHANGED dur

Next ==
  \/ \E p \in Proc : Begin(p) \/ End(p)
  \/ \E b \in Block, v \in Val : Write(b, v)
  \/ Commit \/ Crash

Spec == Init /\ [][Next]_<<cur, dur, running>>
=============================================================================

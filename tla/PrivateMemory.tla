--------------------------- MODULE PrivateMemory ---------------------------
(***************************************************************************)
(* What fork, exit, sbrk and a store promise a user program: every process *)
(* has an address space of its own.  A child starts with a copy of its     *)
(* parent's, and afterwards neither sees the other's stores.  Frames,      *)
(* sharing, faults and counts do not appear.                               *)
(***************************************************************************)
EXTENDS Naturals

CONSTANTS Proc, InitProc, NVa, Val, Zero, InitSz

VARIABLE mem    \* for each living process, the contents of its pages

Pages(n) == 0 .. (n - 1)

Init == mem = [p \in {InitProc} |-> [v \in Pages(InitSz) |-> Zero]]

Store(p, v, d) ==
  /\ v \in DOMAIN mem[p]
  /\ mem' = [mem EXCEPT ![p][v] = d]

\* New pages read as zero.
Resize(p, n) ==
  mem' = [mem EXCEPT ![p] = [v \in Pages(n) |-> IF v \in DOMAIN @ THEN @[v] ELSE Zero]]

Fork(p, c) ==
  /\ c \notin DOMAIN mem
  /\ mem' = [q \in DOMAIN mem \union {c} |-> IF q = c THEN mem[p] ELSE mem[q]]

Exit(p) ==
  /\ p # InitProc
  /\ mem' = [q \in DOMAIN mem \ {p} |-> mem[q]]

Next == \E p \in DOMAIN mem :
  \/ \E v \in Pages(NVa), d \in Val : Store(p, v, d)
  \/ \E n \in 0 .. NVa : Resize(p, n)
  \/ \E c \in Proc : Fork(p, c)
  \/ Exit(p)

Spec == Init /\ [][Next]_mem
=============================================================================

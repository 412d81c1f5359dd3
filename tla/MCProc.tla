------------------------------ MODULE MCProc ------------------------------
(* Proc on small instances. *)
EXTENDS ProcInv, TLC

Sym == Permutations(Cpu)
=============================================================================

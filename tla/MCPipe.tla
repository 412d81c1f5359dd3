------------------------------ MODULE MCPipe ------------------------------
(* Pipe on small instances. *)
EXTENDS Pipe, TLC

Sym == Permutations(Proc \ {Shell})
=============================================================================

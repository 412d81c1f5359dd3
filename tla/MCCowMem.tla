------------------------------ MODULE MCCowMem ------------------------------
(* CowMem on small instances. *)
EXTENDS CowMemInv, TLC

Sym == Permutations(Page) \union Permutations(Proc \ {InitProc})
=============================================================================

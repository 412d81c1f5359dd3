------------------------------ MODULE MCRunner ------------------------------
(* Runner on small instances. *)
EXTENDS RunnerInv

\* A negative base gives two runs one seed.
MCBases == {-1, 7}

\* The files of an earlier session.
MCBefore == {5}
=============================================================================

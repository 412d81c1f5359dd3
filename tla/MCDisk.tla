------------------------------- MODULE MCDisk -------------------------------
(* BufferCache on small instances. *)
EXTENDS BufferCacheInv, TLC

CONSTANTS p, p2, q, q2  \* two processes, with two buffers each

MCOuter == p :> None @@ p2 :> p @@ q :> None @@ q2 :> q

\* A block of the log, an indirect block, the bitmap.
MCLevel == <<0, 1, 2>>

\* A commit, beside a call that maps blocks.
MCWants == p :> {1, 3} @@ p2 :> {2} @@ q :> {2} @@ q2 :> {3}
=============================================================================

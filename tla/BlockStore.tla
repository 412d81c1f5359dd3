----------------------------- MODULE BlockStore -----------------------------
(***************************************************************************)
(* What the buffer cache promises: every block has one content, which only *)
(* the process that holds the block may look at or change.                 *)
(***************************************************************************)
CONSTANTS Proc, Block, Val, None, InitVal

VARIABLES store, holder

vars == <<store, holder>>

Init == store = [k \in Block |-> InitVal] /\ holder = [k \in Block |-> None]

\* bread, brelse, and a store into b->data.
Hold(p, k)    == holder[k] = None /\ holder' = [holder EXCEPT ![k] = p] /\ UNCHANGED store
Release(p, k) == holder[k] = p /\ holder' = [holder EXCEPT ![k] = None] /\ UNCHANGED store
Store(p, k)   == /\ holder[k] = p
                 /\ \E v \in Val : store' = [store EXCEPT ![k] = v]
                 /\ UNCHANGED holder

Next == \E p \in Proc, k \in Block : Hold(p, k) \/ Release(p, k) \/ Store(p, k)
Spec == Init /\ [][Next]_vars
=============================================================================

----------------------------- MODULE ByteQueue -----------------------------
(***************************************************************************)
(* What a pipe promises: bytes come out in the order in which they were    *)
(* put in, none twice, and never more than Size of them are under way.  A  *)
(* byte is lost only when the reader gives no memory to put it.            *)
(***************************************************************************)
EXTENDS Naturals, Sequences

CONSTANTS Size, Val

VARIABLES
  q,     \* the bytes under way
  out    \* the byte that was delivered last

Init == q = <<>> /\ out \in Val

Put(v) == Len(q) < Size /\ q' = Append(q, v) /\ UNCHANGED out
Take   == q # <<>> /\ out' = Head(q) /\ q' = Tail(q)
Lose   == q # <<>> /\ q' = Tail(q) /\ UNCHANGED out

Next == Take \/ Lose \/ \E v \in Val : Put(v)

Spec == Init /\ [][Next]_<<q, out>>
=============================================================================

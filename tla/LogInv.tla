------------------------------- MODULE LogInv -------------------------------
(***************************************************************************)
(* The strengthening that makes the invariants of Log inductive: the space *)
(* that begin_op reserves, which buffers are pinned, and how the log, the  *)
(* header, the buffers and the home blocks agree at each point of commit   *)
(* and of recovery.                                                        *)
(***************************************************************************)
EXTENDS Log

Running == {p \in Proc : pc[p] = "op"}

Committing(p) == pc[p] \in {"commit", "write_log", "write_head", "install", "erase", "done"}

\* One thread commits, when no call runs; nothing runs before initlog is over.
CallInv ==
  /\ outstanding = Cardinality(Running)
  /\ \A p \in Proc : Committing(p) => committing
  /\ \A p, q \in Proc : Committing(p) /\ Committing(q) => p = q
  /\ committing => Running = {}
  /\ boot # "up" => ~committing /\ \A p \in Proc : pc[p] = "idle"

\* Who has written what.
Written == {e \in Proc \X Block : e[2] \in wrote[e[1]]}

\* What a call has not written of its reservation is free in the log.
SpaceInv ==
  /\ \A p \in Proc : pc[p] # "op" => wrote[p] = {}
  /\ \A p \in Proc : wrote[p] \subseteq BlocksOf(lh) /\ Cardinality(wrote[p]) <= OpBlocks
  /\ Len(lh) + outstanding * MaxOp <= LogBlocks + Cardinality(Written)

Distinct(s) == \A i, j \in 1 .. Len(s) : s[i] = s[j] => i = j

\* Each block is in the transaction once.
DistinctInv == Distinct(lh) /\ Distinct(header) /\ Len(header) <= LogBlocks

\* The first entry of lh that install_trans has not put in its place yet: none
\* of them before it starts, all when it is over.  Recovery pins nothing.
First ==
  IF boot # "up" \/ \E p \in Proc : pc[p] = "erase" THEN Len(lh) + 1
  ELSE IF \E p \in Proc : pc[p] = "install" THEN tail ELSE 1

Pending == {lh[i] : i \in First .. Len(lh)}

\* The buffers of those blocks are pinned, the others are as on the disk.
PinInv == \A b \in Block :
  /\ pins[b] = IF b \in Pending THEN 1 ELSE 0
  /\ b \notin Pending => cache[b] = home[b]

\* The first n log blocks are the contents of the first n blocks of lh.
Logged(n) == \A i \in 1 .. n : logblk[i] = cache[lh[i]]

\* What the disk says at each point of commit and of recovery.
DiskInv ==
  /\ boot = "up" /\ header # <<>> => \E p \in Proc : pc[p] \in {"install", "erase"}
  /\ boot \in {"install", "erase"} => header = lh
  /\ boot = "read_head" => tail = 1
  /\ boot = "install" => tail \in 1 .. Len(lh)
  /\ boot = "install" => \A i \in 1 .. Len(lh) : i < tail => home[lh[i]] = logblk[i]
  /\ boot = "erase" => \A i \in 1 .. Len(lh) : home[lh[i]] = logblk[i]
  /\ \A p \in Proc :
       /\ pc[p] \in {"write_log", "install"} => tail \in 1 .. Len(lh)
       /\ pc[p] = "write_log" => Logged(tail - 1)
       /\ pc[p] = "write_head" => lh # <<>>
       /\ pc[p] \in {"write_head", "install", "erase"} => Logged(Len(lh))
       /\ pc[p] \in {"install", "erase"} => header = lh
       /\ pc[p] = "done" => lh = <<>>

IInv == TypeOK /\ CallInv /\ SpaceInv /\ DistinctInv /\ PinInv /\ DiskInv
=============================================================================

----------------------------- MODULE LogProofs -----------------------------
(***************************************************************************)
(* The theorems about Log, for every number of threads, blocks and         *)
(* crashes and every size of the log: the invariants, and that Log         *)
(* implements AtomicLog.                                                   *)
(***************************************************************************)
EXTENDS LogInv, FiniteSetTheorems, FunctionTheorems, SequenceTheorems, TLAPS

Label == {"idle", "begin", "asleep", "op", "commit", "write_log", "write_head",
          "install", "erase", "done"}

\* Thread p goes to l; the others stay, or are woken.
Moves(p, l) ==
  /\ pc' \in [Proc -> Label] /\ pc'[p] = l
  /\ \A q \in Proc : q # p => pc'[q] = pc[q] \/ (pc[q] = "asleep" /\ pc'[q] = "begin")

\* Goto and WakeupGoto are moves.
LEMMA GotoMoves ==
  ASSUME TypeOK, NEW p \in Proc, NEW l \in Label, Goto(p, l) \/ WakeupGoto(p, l)
  PROVE  Moves(p, l)
<1>1. pc \in [Proc -> Label] BY DEF TypeOK, Label
<1>2. CASE Goto(p, l) BY <1>1, <1>2 DEF Goto, Moves
<1>3. CASE WakeupGoto(p, l) BY <1>1, <1>3 DEF WakeupGoto, Moves, Label
<1> QED BY <1>2, <1>3

\* What the parts of the invariant say of the types, and the entries of lh.
LEMMA Types ==
  ASSUME IInv
  PROVE  /\ home \in [Block -> Val] /\ cache \in [Block -> Val]
         /\ logblk \in [1 .. LogBlocks -> Val]
         /\ header \in Seq(Block) /\ lh \in Seq(Block) /\ Len(lh) \in 0 .. LogBlocks
         /\ Len(header) \in 0 .. LogBlocks
         /\ pins \in [Block -> Nat] /\ outstanding \in Nat /\ committing \in BOOLEAN
         /\ tail \in 1 .. LogBlocks + 1 /\ wrote \in [Proc -> SUBSET Block]
         /\ pc \in [Proc -> Label]
         /\ \A i \in 1 .. Len(lh) : lh[i] \in Block /\ i \in 1 .. LogBlocks
         /\ \A i \in 1 .. Len(header) : header[i] \in Block /\ i \in 1 .. LogBlocks
<1>1. Len(lh) \in Nat /\ Len(header) \in Nat BY LenProperties DEF IInv, TypeOK
<1> QED BY <1>1, ElementOfSeq, LogAssumption DEF IInv, TypeOK, DistinctInv, Label

\* The next entry of the loops over lh.
LEMMA TailEntry ==
  ASSUME IInv,
         (boot = "install") \/ (\E p \in Proc : pc[p] \in {"write_log", "install"})
  PROVE  /\ tail \in 1 .. Len(lh) /\ tail \in 1 .. LogBlocks /\ lh[tail] \in Block
         /\ logblk[tail] \in Val /\ tail + 1 \in 1 .. LogBlocks + 1
<1>1. tail \in 1 .. Len(lh) BY DEF IInv, DiskInv
<1>2. Len(lh) \in 0 .. LogBlocks /\ LogBlocks \in Nat BY Types, LogAssumption
<1>3. tail \in 1 .. LogBlocks /\ tail + 1 \in 1 .. LogBlocks + 1 BY <1>1, <1>2
<1>4. lh[tail] \in Block BY <1>1, Types
<1>5. logblk[tail] \in Val BY <1>3, Types
<1> QED BY <1>1, <1>3, <1>4, <1>5

\* Every step keeps every variable in its range.
LEMMA TypeStep ==
  ASSUME IInv, Next
  PROVE  TypeOK'
<1> USE DEF mem, disk
<1>1. /\ TypeOK /\ Len(lh) \in Nat /\ Len(header) \in 0 .. LogBlocks /\ LogBlocks \in Nat
      /\ MaxCrash \in Nat /\ lh \in Seq(Block)
      /\ pc \in [Proc -> Label] /\ crashes \in 0 .. MaxCrash
  BY Types, LogAssumption DEF IInv, TypeOK
<1>2. /\ <<>> \in Seq(Block) /\ Len(<<>>) = 0 /\ 0 <= LogBlocks /\ 1 \in 1 .. LogBlocks + 1
  BY <1>1, EmptySeq
<1>3. ASSUME NEW p \in Proc, SyscallStart(p) \/ Begin(p) PROVE TypeOK'
  <2>1. CASE SyscallStart(p) BY <1>1, <2>1 DEF SyscallStart, Goto, TypeOK
  <2>2. CASE BeginOp(p) BY <1>1, <2>2 DEF BeginOp, Goto, TypeOK
  <2>3. CASE BeginSleep(p) BY <1>1, <2>3 DEF BeginSleep, Goto, TypeOK
  <2> QED BY <1>3, <2>1, <2>2, <2>3 DEF Begin
<1>4. ASSUME NEW p \in Proc, NEW b \in Block, NEW v \in Val, LogWrite(p, b, v) PROVE TypeOK'
  <2>1. Append(lh, b) \in Seq(Block) /\ Len(Append(lh, b)) = Len(lh) + 1
    BY <1>1, AppendProperties
  <2>2. lh' \in Seq(Block) /\ Len(lh') <= LogBlocks /\ pins' \in [Block -> Nat]
    <3>1. CASE b \in BlocksOf(lh) BY <1>1, <1>4, <3>1 DEF LogWrite, TypeOK
    <3>2. CASE b \notin BlocksOf(lh)
      <4>1. lh' = Append(lh, b) /\ pins' = [pins EXCEPT ![b] = @ + 1] /\ Len(lh) < LogBlocks
        BY <1>4, <3>2 DEF LogWrite
      <4> QED BY <1>1, <2>1, <4>1 DEF TypeOK
    <3> QED BY <3>1, <3>2
  <2> QED BY <1>1, <1>4, <2>2 DEF LogWrite, TypeOK
<1>5. ASSUME NEW p \in Proc, EndOp(p) PROVE TypeOK'
  <2>1. outstanding' \in Nat
    <3>1. p \in Running BY <1>5 DEF EndOp, Running
    <3>2. IsFiniteSet(Running)
      <4>1. Running \in SUBSET Proc BY DEF Running
      <4> QED BY <4>1, FS_Subset, LogAssumption
    <3>3. outstanding # 0 BY <3>1, <3>2, FS_EmptySet DEF IInv, CallInv
    <3> QED BY <1>1, <1>5, <3>3 DEF EndOp, TypeOK
  <2>2. pc' \in [Proc -> Label]
    <3>1. Goto(p, "commit") \/ WakeupGoto(p, "idle") BY <1>5 DEF EndOp
    <3> QED BY <1>1, <3>1, GotoMoves DEF Moves, Label
  <2>3. committing' \in BOOLEAN BY <1>1, <1>5 DEF EndOp, TypeOK
  <2> QED BY <1>1, <1>5, <2>1, <2>2, <2>3 DEF EndOp, TypeOK, Label
<1>6. ASSUME NEW p \in Proc, CommitStart(p) PROVE TypeOK'
  BY <1>1, <1>2, <1>6 DEF CommitStart, Goto, TypeOK
<1>7. ASSUME NEW p \in Proc, WriteLog(p) PROVE TypeOK'
  <2>1. tail \in 1 .. LogBlocks /\ lh[tail] \in Block /\ tail + 1 \in 1 .. LogBlocks + 1
    BY <1>7, TailEntry DEF WriteLog
  <2>2. logblk' \in [1 .. LogBlocks -> Val] BY <1>1, <1>7, <2>1 DEF WriteLog, TypeOK
  <2> QED BY <1>1, <1>7, <2>1, <2>2 DEF WriteLog, Goto, TypeOK
<1>8. ASSUME NEW p \in Proc, WriteHead(p) PROVE TypeOK'
  BY <1>1, <1>2, <1>8 DEF WriteHead, Goto, TypeOK
<1>9. ASSUME NEW p \in Proc, Install(p) PROVE TypeOK'
  <2>1. /\ tail \in 1 .. Len(lh) /\ lh[tail] \in Block /\ logblk[tail] \in Val
        /\ tail + 1 \in 1 .. LogBlocks + 1
    BY <1>9, TailEntry DEF Install
  <2>2. pins[lh[tail]] = 1
    <3>1. First = tail
      <4>1. pc[p] = "install" BY <1>9 DEF Install
      <4>2. \A q \in Proc : pc[q] # "erase"
        BY <4>1 DEF IInv, CallInv, Committing
      <4>3. boot = "up" BY <4>1 DEF IInv, CallInv
      <4> QED BY <4>1, <4>2, <4>3 DEF First
    <3>2. lh[tail] \in Pending BY <2>1, <3>1 DEF Pending
    <3> QED BY <2>1, <3>2 DEF IInv, PinInv
  <2>3. pins' \in [Block -> Nat] BY <1>1, <1>9, <2>1, <2>2 DEF Install, TypeOK
  <2> QED BY <1>1, <1>9, <2>1, <2>3 DEF Install, InstallBlock, Goto, TypeOK
<1>10. ASSUME NEW p \in Proc, Erase(p) PROVE TypeOK'
  BY <1>1, <1>2, <1>10 DEF Erase, EraseHead, Goto, TypeOK
<1>11. ASSUME NEW p \in Proc, CommitDone(p) PROVE TypeOK'
  <2>1. pc' \in [Proc -> Label] BY <1>1, <1>11, GotoMoves DEF CommitDone, Moves, Label
  <2> QED BY <1>1, <1>11, <2>1 DEF CommitDone, TypeOK, Label
<1>12. ASSUME NEW b \in Block, Evict(b) PROVE TypeOK' BY <1>1, <1>12 DEF Evict, TypeOK
<1>13. CASE ReadHead BY <1>1, <1>13 DEF ReadHead, TypeOK
<1>14. CASE InstallRecovering
  <2>1. lh[tail] \in Block /\ logblk[tail] \in Val /\ tail + 1 \in 1 .. LogBlocks + 1
    BY <1>14, TailEntry DEF InstallRecovering
  <2> QED BY <1>1, <1>14, <2>1 DEF InstallRecovering, InstallBlock, TypeOK
<1>15. CASE EraseRecovering BY <1>1, <1>2, <1>15 DEF EraseRecovering, EraseHead, TypeOK
<1>16. CASE Crash
  <2>1. crashes' \in 0 .. MaxCrash BY <1>1, <1>16 DEF Crash
  <2>2. wrote' \in [Proc -> SUBSET Block] /\ pc' \in [Proc -> Label] /\ pins' \in [Block -> Nat]
    BY <1>16 DEF Crash, Label
  <2>3. boot' \in {"read_head", "install", "erase", "up"} BY <1>16 DEF Crash
  <2>4. /\ UNCHANGED <<home, logblk, header>> /\ cache' = home /\ lh' = <<>> /\ outstanding' = 0
        /\ committing' = FALSE /\ tail' = 1
    BY <1>16 DEF Crash
  <2> QED BY <1>1, <1>2, <2>1, <2>2, <2>3, <2>4 DEF TypeOK, Label
<1> QED
  BY <1>3, <1>4, <1>5, <1>6, <1>7, <1>8, <1>9, <1>10, <1>11, <1>12, <1>13, <1>14, <1>15, <1>16 DEF
    Next, Commit, Recover

-----------------------------------------------------------------------------
(* Who runs and who commits. *)

\* Sets of threads are finite.
LEMMA Threads ==
  ASSUME NEW S \in SUBSET Proc
  PROVE  /\ IsFiniteSet(S) /\ Cardinality(S) \in Nat /\ (Cardinality(S) = 0 <=> S = {})
         /\ \A p \in Proc : p \notin S => Cardinality(S \union {p}) = Cardinality(S) + 1
         /\ \A p \in S : Cardinality(S \ {p}) = Cardinality(S) - 1
<1>1. IsFiniteSet(S) BY FS_Subset, LogAssumption
<1> QED BY <1>1, FS_CardinalityType, FS_EmptySet, FS_AddElement, FS_RemoveElement

\* The thread that takes a step of a call or of a commit runs on a machine that is
\* up, and is the only one that commits.
LEMMA Alone ==
  ASSUME IInv, NEW p \in Proc, pc[p] # "idle"
  PROVE  /\ boot = "up"
         /\ pc[p] = "op" => ~committing /\ \A q \in Proc : ~Committing(q)
         /\ Committing(p) => committing /\ Running = {} /\ outstanding = 0
                             /\ \A q \in Proc : q # p => ~Committing(q)
<1>1. CallInv BY DEF IInv
<1>2. boot = "up" BY <1>1 DEF CallInv
<1>3. ASSUME pc[p] = "op" PROVE ~committing /\ \A q \in Proc : ~Committing(q)
  <2>1. p \in Running BY <1>3 DEF Running
  <2> QED BY <1>1, <2>1 DEF CallInv
<1>4. ASSUME Committing(p)
      PROVE  /\ committing /\ Running = {} /\ outstanding = 0
             /\ \A q \in Proc : q # p => ~Committing(q)
  <2>1. committing /\ Running = {} /\ \A q \in Proc : q # p => ~Committing(q)
    BY <1>1, <1>4 DEF CallInv
  <2> QED BY <1>1, <2>1, FS_EmptySet DEF CallInv
<1> QED BY <1>2, <1>3, <1>4

\* A step from one point of commit to the next.
CommitMove(p, l) ==
  Committing(p) /\ Goto(p, l) /\ l \in Label /\ UNCHANGED <<outstanding, committing, boot>>

\* Commit goes on alone.
LEMMA CommitGoesOn ==
  ASSUME IInv, NEW p \in Proc, NEW l, CommitMove(p, l),
         l \in {"commit", "write_log", "write_head", "install", "erase", "done"}
  PROVE  CallInv'
<1>1. /\ pc[p] # "idle" /\ pc[p] # "op" /\ l # "op" /\ pc \in [Proc -> Label]
      /\ pc' = [pc EXCEPT ![p] = l]
  BY Types DEF CommitMove, Goto, Committing
<1>2. boot' = "up" /\ committing' /\ outstanding' = 0 /\ Running = {}
  BY <1>1, Alone DEF CommitMove
<1>3. Running' = {} BY <1>1, <1>2 DEF Running
<1>4. \A q \in Proc : q # p => ~Committing(q)' BY <1>1, Alone DEF CommitMove, Committing
<1> QED BY <1>1, <1>2, <1>3, <1>4, FS_EmptySet DEF CallInv

\* Every step keeps the calls counted and the commit alone.
LEMMA CallStep ==
  ASSUME IInv, Next
  PROVE  CallInv'
<1> USE DEF mem, disk
<1>1. CallInv /\ pc \in [Proc -> Label] /\ committing \in BOOLEAN /\ outstanding \in Nat
  BY Types DEF IInv
<1>2. ASSUME NEW p \in Proc, SyscallStart(p) \/ BeginSleep(p) PROVE CallInv'
  <2>1. PICK l \in {"begin", "asleep"} : Goto(p, l) BY <1>2 DEF SyscallStart, BeginSleep
  <2>2. /\ pc' = [pc EXCEPT ![p] = l] /\ pc[p] \in {"idle", "begin"} /\ boot = "up"
        /\ UNCHANGED <<outstanding, committing, boot>>
    BY <1>2, <2>1, Alone DEF SyscallStart, BeginSleep, Goto
  <2>3. Running' = Running BY <1>1, <2>2 DEF Running
  <2>4. \A q \in Proc : Committing(q)' => Committing(q) BY <1>1, <2>2 DEF Committing
  <2> QED BY <1>1, <2>2, <2>3, <2>4 DEF CallInv
<1>3. ASSUME NEW p \in Proc, BeginOp(p) PROVE CallInv'
  <2>1. /\ pc' = [pc EXCEPT ![p] = "op"] /\ pc[p] = "begin" /\ boot = "up"
        /\ outstanding' = outstanding + 1 /\ ~committing /\ UNCHANGED <<committing, boot>>
    BY <1>3, Alone DEF BeginOp, Goto
  <2>2. Running' = Running \union {p} /\ p \notin Running BY <1>1, <2>1 DEF Running
  <2>3. Running \in SUBSET Proc BY DEF Running
  <2>4. Cardinality(Running') = outstanding'
    BY <1>1, <2>1, <2>2, <2>3, Threads DEF CallInv
  <2>5. \A q \in Proc : Committing(q)' => Committing(q) BY <1>1, <2>1 DEF Committing
  <2> QED BY <1>1, <2>1, <2>4, <2>5 DEF CallInv
<1>4. ASSUME NEW p \in Proc, EndOp(p) PROVE CallInv'
  <2>1. /\ pc[p] = "op" /\ boot = "up" /\ ~committing /\ outstanding' = outstanding - 1
        /\ UNCHANGED boot /\ p \in Running
    BY <1>4, Alone DEF EndOp, Running
  <2>2. \A q \in Proc : ~Committing(q) BY <2>1, Alone
  <2>3. PICK l \in {"commit", "idle"} : Moves(p, l)
    BY <1>4, GotoMoves DEF EndOp, IInv, Label
  <2>4. Running' = Running \ {p} BY <1>1, <2>1, <2>3 DEF Running, Moves
  <2>5. Running \in SUBSET Proc BY DEF Running
  <2>6. Cardinality(Running') = outstanding' BY <1>1, <2>1, <2>4, <2>5, Threads DEF CallInv
  <2>7. \A q \in Proc : q # p => ~Committing(q)' BY <2>2, <2>3 DEF Moves, Committing
  <2>8. CASE outstanding = 1
    <3>1. committing' = TRUE BY <1>4, <2>8 DEF EndOp
    <3>2. Cardinality(Running') = 0 /\ Running' \in SUBSET Proc
      BY <1>1, <2>1, <2>4, <2>5, <2>6, <2>8
    <3>3. Running' = {} BY <3>2, Threads
    <3> QED BY <2>1, <2>6, <2>7, <3>1, <3>3 DEF CallInv
  <2>9. CASE outstanding # 1
    <3>1. committing' = committing /\ WakeupGoto(p, "idle") BY <1>4, <2>9 DEF EndOp
    <3>2. ~Committing(p)' BY <1>1, <3>1 DEF WakeupGoto, Committing
    <3> QED BY <2>1, <2>6, <2>7, <3>1, <3>2 DEF CallInv
  <2> QED BY <2>8, <2>9
<1>5. ASSUME NEW p \in Proc, CommitStart(p) PROVE CallInv'
  <2>1. PICK l \in {"write_log", "done"} : CommitMove(p, l)
    BY <1>5 DEF CommitStart, CommitMove, Committing, Label
  <2> QED BY <2>1, CommitGoesOn
<1>6. ASSUME NEW p \in Proc, WriteLog(p) PROVE CallInv'
  <2>1. PICK l \in {"write_log", "write_head"} : CommitMove(p, l)
    BY <1>6 DEF WriteLog, CommitMove, Committing, Label
  <2> QED BY <2>1, CommitGoesOn
<1>7. ASSUME NEW p \in Proc, WriteHead(p) PROVE CallInv'
  <2>1. CommitMove(p, "install") BY <1>7 DEF WriteHead, CommitMove, Committing, Label
  <2> QED BY <2>1, CommitGoesOn
<1>8. ASSUME NEW p \in Proc, Install(p) PROVE CallInv'
  <2>1. PICK l \in {"install", "erase"} : CommitMove(p, l)
    BY <1>8 DEF Install, CommitMove, Committing, Label
  <2> QED BY <2>1, CommitGoesOn
<1>9. ASSUME NEW p \in Proc, Erase(p) PROVE CallInv'
  <2>1. CommitMove(p, "done") BY <1>9 DEF Erase, CommitMove, Committing, Label
  <2> QED BY <2>1, CommitGoesOn
<1>10. ASSUME NEW p \in Proc, CommitDone(p) PROVE CallInv'
  <2>1. Committing(p) /\ pc[p] # "idle" /\ UNCHANGED <<outstanding, boot>>
    BY <1>10 DEF CommitDone, Committing
  <2>2. /\ boot = "up" /\ Running = {} /\ outstanding = 0
        /\ \A q \in Proc : q # p => ~Committing(q)
    BY <2>1, Alone
  <2>3. pc' = [q \in Proc |-> IF q = p THEN "idle" ELSE IF pc[q] = "asleep" THEN "begin" ELSE pc[q]]
    BY <1>10 DEF CommitDone, WakeupGoto
  <2>4. Running' = {} /\ \A q \in Proc : ~Committing(q)'
    BY <2>2, <2>3 DEF Running, Committing
  <2> QED BY <2>1, <2>2, <2>4, FS_EmptySet DEF CallInv
<1>11. ASSUME UNCHANGED <<pc, outstanding, committing>>, boot' = boot \/ boot # "up"
       PROVE  CallInv'
  BY <1>1, <1>11 DEF CallInv, Running, Committing
<1>12. CASE Crash
  <2>1. /\ outstanding' = 0 /\ committing' = FALSE /\ pc' = [p \in Proc |-> "idle"]
    BY <1>12 DEF Crash
  <2>2. Running' = {} /\ \A q \in Proc : ~Committing(q)' BY <2>1 DEF Running, Committing
  <2> QED BY <2>1, <2>2, FS_EmptySet DEF CallInv
<1>13. ASSUME NEW p \in Proc, NEW b \in Block, NEW v \in Val, LogWrite(p, b, v) PROVE CallInv'
  BY <1>11, <1>13 DEF LogWrite
<1>14. ASSUME NEW b \in Block, Evict(b) PROVE CallInv' BY <1>11, <1>14 DEF Evict
<1>15. CASE Recover
  BY <1>11, <1>15 DEF Recover, ReadHead, InstallRecovering, InstallBlock, EraseRecovering
<1> QED
  BY <1>2, <1>3, <1>4, <1>5, <1>6, <1>7, <1>8, <1>9, <1>10, <1>12, <1>13, <1>14, <1>15 DEF Next,
    Begin, Commit

-----------------------------------------------------------------------------
(* The space in the log. *)

\* There are finitely many writes.
LEMMA Writes ==
  ASSUME NEW S \in SUBSET (Proc \X Block)
  PROVE  /\ IsFiniteSet(S) /\ Cardinality(S) \in Nat
         /\ \A e : e \notin S => Cardinality(S \union {e}) = Cardinality(S) + 1
         /\ \A T \in SUBSET S : Cardinality(T) <= Cardinality(S)
<1>1. IsFiniteSet(Proc \X Block) BY FS_Product, LogAssumption
<1>2. IsFiniteSet(S) BY <1>1, FS_Subset
<1> QED BY <1>2, FS_CardinalityType, FS_AddElement, FS_Subset

\* While no call runs nothing is reserved.
LEMMA NothingReserved ==
  ASSUME \A q \in Proc : wrote'[q] = {}, outstanding' = 0, Len(lh') \in 0 .. LogBlocks
  PROVE  SpaceInv'
<1>1. Written' = {} BY DEF Written
<1>2. Cardinality(Written') = 0 /\ Cardinality({}) = 0 BY <1>1, FS_EmptySet
<1>3. Len(lh') + outstanding' * MaxOp <= LogBlocks + Cardinality(Written')
  BY <1>2, LogAssumption
<1>4. \A q \in Proc : wrote'[q] \subseteq BlocksOf(lh)' /\ Cardinality(wrote'[q]) <= OpBlocks
  <2>1. 0 <= OpBlocks BY LogAssumption
  <2>2. ASSUME NEW q \in Proc PROVE Cardinality(wrote'[q]) <= OpBlocks BY <1>2, <2>1
  <2> QED BY <2>2
<1> QED BY <1>3, <1>4 DEF SpaceInv

\* A step that writes nothing and begins or ends no call keeps the space.
LEMMA NothingWritten ==
  ASSUME IInv, UNCHANGED <<wrote, outstanding, lh>>,
         \A q \in Proc : pc[q] = "op" => pc'[q] = "op"
  PROVE  SpaceInv'
BY DEF IInv, SpaceInv, Written, BlocksOf

\* During commit and before the machine is up no call has written anything.
LEMMA NoneWrote ==
  ASSUME IInv, boot # "up" \/ \E p \in Proc : Committing(p)
  PROVE  outstanding = 0 /\ \A q \in Proc : wrote[q] = {} /\ pc[q] # "op"
<1>1. CallInv /\ SpaceInv BY DEF IInv
<1>2. \A q \in Proc : pc[q] # "op" BY <1>1 DEF CallInv, Running
<1>3. Running = {} BY <1>2 DEF Running
<1> QED BY <1>1, <1>2, <1>3, FS_EmptySet DEF CallInv, SpaceInv

\* A call that ends gives back at most its reservation.
LEMMA EndSpace ==
  ASSUME IInv, NEW p \in Proc, EndOp(p)
  PROVE  SpaceInv'
<1>1. /\ outstanding' = outstanding - 1 /\ wrote' = [wrote EXCEPT ![p] = {}] /\ UNCHANGED lh
      /\ pc[p] = "op" /\ wrote \in [Proc -> SUBSET Block] /\ SpaceInv /\ Len(lh) \in Nat
      /\ outstanding \in Nat /\ {LogBlocks, MaxOp, OpBlocks} \subseteq Nat /\ OpBlocks <= MaxOp
  BY Types, LogAssumption DEF EndOp, IInv, mem, disk
<1>2. PICK l \in Label : Moves(p, l)
  BY GotoMoves DEF EndOp, IInv, Label
<1>3. \A q \in Proc : pc'[q] # "op" => wrote'[q] = {}
  BY <1>1, <1>2 DEF Moves, SpaceInv
<1> DEFINE own == {p} \X wrote[p]
<1>4. Written = Written' \union own /\ Written' \cap own = {}
  BY <1>1 DEF Written
<1>5. /\ Written' \in SUBSET (Proc \X Block) /\ Written \in SUBSET (Proc \X Block)
      /\ own \in SUBSET (Proc \X Block) /\ wrote[p] \in SUBSET Block
  BY <1>1 DEF Written
<1>6. Cardinality(own) = Cardinality(wrote[p]) /\ Cardinality(wrote[p]) \in Nat
  <2>1. IsFiniteSet(wrote[p]) BY <1>5, FS_Subset, LogAssumption
  <2>2. IsFiniteSet({p}) /\ Cardinality({p}) = 1 BY FS_Singleton
  <2>3. Cardinality(wrote[p]) \in Nat BY <2>1, FS_CardinalityType
  <2>4. Cardinality(own) = Cardinality({p}) * Cardinality(wrote[p]) BY <2>1, <2>2, FS_Product
  <2> QED BY <2>2, <2>3, <2>4
<1>7. /\ Cardinality(Written) \in Nat /\ Cardinality(Written') \in Nat
      /\ Cardinality(Written) = Cardinality(Written') + Cardinality(own)
  <2>1. IsFiniteSet(Written') /\ IsFiniteSet(own) /\ Cardinality(Written') \in Nat
        /\ Cardinality(Written) \in Nat /\ Cardinality(own) \in Nat
    BY <1>5, Writes
  <2>2. Cardinality(Written' \union own) =
          Cardinality(Written') + Cardinality(own) - Cardinality(Written' \cap own)
    BY <2>1, FS_Union
  <2>3. Cardinality(Written' \cap own) = 0 BY <1>4, FS_EmptySet
  <2> HIDE DEF own
  <2> QED BY <1>4, <2>1, <2>2, <2>3
<1>8. Cardinality(wrote[p]) <= OpBlocks BY <1>1 DEF SpaceInv
<1>9. Len(lh) + outstanding * MaxOp <= LogBlocks + Cardinality(Written) BY <1>1 DEF SpaceInv
<1>10. Len(lh) + (outstanding - 1) * MaxOp <= LogBlocks + Cardinality(Written')
  <2>1. (outstanding - 1) * MaxOp = outstanding * MaxOp - MaxOp BY <1>1
  <2>2. outstanding * MaxOp \in Nat BY <1>1
  <2> HIDE DEF own
  <2> QED BY <1>1, <1>6, <1>7, <1>8, <1>9, <2>1, <2>2
<1>11. \A q \in Proc : wrote'[q] \subseteq BlocksOf(lh)' /\ Cardinality(wrote'[q]) <= OpBlocks
  <2>1. BlocksOf(lh)' = BlocksOf(lh) BY <1>1 DEF BlocksOf
  <2>2. ASSUME NEW q \in Proc, q # p
        PROVE  wrote'[q] \subseteq BlocksOf(lh)' /\ Cardinality(wrote'[q]) <= OpBlocks
    BY <1>1, <2>1, <2>2 DEF SpaceInv
  <2>3. wrote'[p] = {} /\ Cardinality({}) = 0 BY <1>1, FS_EmptySet
  <2> QED BY <1>1, <2>2, <2>3
<1> QED BY <1>1, <1>3, <1>10, <1>11 DEF SpaceInv

\* log_write takes a block of the log only for a new block, and then from the
\* reservation of its own call.
LEMMA WriteSpace ==
  ASSUME IInv, NEW p \in Proc, NEW b \in Block, NEW v \in Val, LogWrite(p, b, v)
  PROVE  SpaceInv'
<1>1. /\ wrote' = [wrote EXCEPT ![p] = @ \union {b}]
      /\ UNCHANGED <<outstanding, pc>> /\ pc[p] = "op"
      /\ b \in wrote[p] \/ Cardinality(wrote[p]) < OpBlocks
      /\ lh' = IF b \in BlocksOf(lh) THEN lh ELSE Append(lh, b)
      /\ wrote \in [Proc -> SUBSET Block] /\ SpaceInv /\ lh \in Seq(Block) /\ Len(lh) \in Nat
      /\ outstanding \in Nat /\ {LogBlocks, MaxOp, OpBlocks} \subseteq Nat
  BY Types, LogAssumption DEF LogWrite, IInv, mem, disk
<1>2. BlocksOf(lh') = BlocksOf(lh) \union {b} /\ Len(lh') \in Nat /\ Len(lh') <= Len(lh) + 1
      /\ (b \in BlocksOf(lh) => Len(lh') = Len(lh))
  <2>1. CASE b \in BlocksOf(lh) BY <1>1, <2>1
  <2>2. CASE b \notin BlocksOf(lh)
    <3>1. /\ Len(lh') = Len(lh) + 1 /\ lh'[Len(lh) + 1] = b
          /\ \A i \in 1 .. Len(lh) : lh'[i] = lh[i]
      BY <1>1, <2>2, AppendProperties
    <3>2. BlocksOf(lh') = BlocksOf(lh) \union {b} BY <1>1, <3>1 DEF BlocksOf
    <3> QED BY <1>1, <2>2, <3>1, <3>2
  <2> QED BY <2>1, <2>2
<1>3. ASSUME NEW q \in Proc
      PROVE  wrote'[q] \subseteq BlocksOf(lh') /\ Cardinality(wrote'[q]) <= OpBlocks
  <2>1. wrote[q] \subseteq BlocksOf(lh) /\ Cardinality(wrote[q]) <= OpBlocks BY <1>1 DEF SpaceInv
  <2>2. CASE q = p
    <3>1. wrote'[p] = wrote[p] \union {b} BY <1>1
    <3>2. IsFiniteSet(wrote[p]) BY <1>1, FS_Subset, LogAssumption
    <3>3. Cardinality(wrote[p]) \in Nat BY <3>2, FS_CardinalityType
    <3>4. Cardinality(wrote[p] \union {b}) =
            IF b \in wrote[p] THEN Cardinality(wrote[p]) ELSE Cardinality(wrote[p]) + 1
      BY <3>2, FS_AddElement
    <3>5. Cardinality(wrote'[p]) <= OpBlocks BY <1>1, <2>1, <2>2, <3>1, <3>3, <3>4
    <3> QED BY <1>2, <2>1, <2>2, <3>1, <3>5
  <2>3. CASE q # p BY <1>1, <1>2, <2>1, <2>3
  <2> QED BY <2>2, <2>3
<1>4. Len(lh') + outstanding * MaxOp <= LogBlocks + Cardinality(Written')
  <2>1. Written' = Written \union {<<p, b>>} BY <1>1 DEF Written
  <2>2. Written \in SUBSET (Proc \X Block) /\ Written' \in SUBSET (Proc \X Block)
    BY <1>1, <2>1 DEF Written
  <2>3. Cardinality(Written) \in Nat /\ Cardinality(Written') \in Nat BY <2>2, Writes
  <2>4. /\ Len(lh) + outstanding * MaxOp <= LogBlocks + Cardinality(Written)
        /\ outstanding * MaxOp \in Nat
    BY <1>1 DEF SpaceInv
  <2>5. CASE b \in wrote[p]
    <3>1. b \in BlocksOf(lh) BY <1>1, <2>5 DEF SpaceInv
    <3>2. Written' = Written BY <2>1, <2>5 DEF Written
    <3> QED BY <1>2, <2>4, <3>1, <3>2
  <2>6. CASE b \notin wrote[p]
    <3>1. <<p, b>> \notin Written BY <2>6 DEF Written
    <3>2. Cardinality(Written') = Cardinality(Written) + 1 BY <2>1, <2>2, <3>1, Writes
    <3> QED BY <1>1, <1>2, <2>3, <2>4, <3>2
  <2> QED BY <2>5, <2>6
<1>5. \A q \in Proc : pc'[q] # "op" => wrote'[q] = {} BY <1>1 DEF SpaceInv
<1> QED BY <1>1, <1>3, <1>4, <1>5 DEF SpaceInv

\* Every step keeps the space that is reserved.
LEMMA SpaceStep ==
  ASSUME IInv, Next
  PROVE  SpaceInv'
<1> USE DEF mem, disk
<1>1. /\ SpaceInv /\ pc \in [Proc -> Label]
      /\ Len(lh) \in 0 .. LogBlocks /\ Len(header) \in 0 .. LogBlocks
  BY Types DEF IInv
<1>2. Len(<<>>) \in 0 .. LogBlocks BY EmptySeq, LogAssumption
<1>3. ASSUME NEW p \in Proc, SyscallStart(p) \/ BeginSleep(p) PROVE SpaceInv'
  BY <1>1, <1>3, NothingWritten DEF SyscallStart, BeginSleep, Goto
<1>4. ASSUME NEW p \in Proc, BeginOp(p) PROVE SpaceInv'
  <2>1. /\ Fits /\ outstanding' = outstanding + 1 /\ UNCHANGED <<wrote, lh>>
        /\ pc' = [pc EXCEPT ![p] = "op"]
    BY <1>4 DEF BeginOp, Goto
  <2>2. Written' = Written /\ Written \in SUBSET (Proc \X Block) BY <2>1 DEF Written
  <2>3. Cardinality(Written) \in Nat BY <2>2, Writes
  <2>4. Len(lh) + (outstanding + 1) * MaxOp <= LogBlocks BY <2>1 DEF Fits
  <2>5. Len(lh) + (outstanding + 1) * MaxOp <= LogBlocks + Cardinality(Written)
    <3>1. Len(lh) \in Nat /\ outstanding \in Nat /\ MaxOp \in Nat /\ LogBlocks \in Nat
      BY Types, LogAssumption
    <3>2. (outstanding + 1) * MaxOp \in Nat BY <3>1
    <3> QED BY <2>3, <2>4, <3>1, <3>2
  <2>6. BlocksOf(lh)' = BlocksOf(lh) BY <2>1 DEF BlocksOf
  <2> QED BY <1>1, <2>1, <2>2, <2>5, <2>6 DEF SpaceInv
<1>5. ASSUME NEW p \in Proc,
             CommitStart(p) \/ WriteLog(p) \/ WriteHead(p) \/ Install(p) \/ CommitDone(p)
      PROVE  SpaceInv'
  <2>1. UNCHANGED <<wrote, outstanding, lh>> /\ Committing(p)
    BY <1>5 DEF CommitStart, WriteLog, WriteHead, Install, InstallBlock, CommitDone, Committing
  <2>2. \A q \in Proc : pc[q] # "op" BY <2>1, NoneWrote
  <2> QED BY <2>1, <2>2, NothingWritten
<1>6. ASSUME NEW p \in Proc, Erase(p) PROVE SpaceInv'
  <2>1. Committing(p) /\ UNCHANGED <<wrote, outstanding>> /\ lh' = <<>>
    BY <1>6 DEF Erase, EraseHead, Committing
  <2> QED BY <1>2, <2>1, NoneWrote, NothingReserved
<1>7. ASSUME NEW b \in Block, Evict(b) PROVE SpaceInv' BY <1>7, NothingWritten DEF Evict
<1>8. CASE ReadHead
  <2>1. boot # "up" /\ UNCHANGED <<wrote, outstanding>> /\ lh' = header BY <1>8 DEF ReadHead
  <2> QED BY <1>1, <2>1, NoneWrote, NothingReserved
<1>9. CASE InstallRecovering BY <1>9, NothingWritten DEF InstallRecovering, InstallBlock
<1>10. CASE EraseRecovering
  <2>1. boot # "up" /\ UNCHANGED <<wrote, outstanding>> /\ lh' = <<>>
    BY <1>10 DEF EraseRecovering, EraseHead
  <2> QED BY <1>2, <2>1, NoneWrote, NothingReserved
<1>11. CASE Crash BY <1>2, <1>11, NothingReserved DEF Crash
<1> QED
  BY <1>3, <1>4, <1>5, <1>6, <1>7, <1>8, <1>9, <1>10, <1>11, EndSpace, WriteSpace DEF Next, Begin,
    Commit, Recover

\* No block is twice in the log or in its header.
LEMMA DistinctStep ==
  ASSUME IInv, Next
  PROVE  DistinctInv'
<1> USE DEF mem, disk
<1>1. DistinctInv /\ lh \in Seq(Block) /\ Len(lh) \in 0 .. LogBlocks BY Types DEF IInv
<1>2. Distinct(<<>>) /\ Len(<<>>) <= LogBlocks BY EmptySeq, LogAssumption DEF Distinct
<1>3. CASE UNCHANGED <<lh, header>> BY <1>1, <1>3 DEF DistinctInv, Distinct
<1>4. ASSUME NEW p \in Proc, NEW b \in Block, NEW v \in Val, LogWrite(p, b, v) PROVE DistinctInv'
  <2>1. CASE b \in BlocksOf(lh) BY <1>3, <1>4, <2>1 DEF LogWrite
  <2>2. CASE b \notin BlocksOf(lh)
    <3>1. lh' = Append(lh, b) /\ UNCHANGED header BY <1>4, <2>2 DEF LogWrite
    <3>2. /\ Len(lh') = Len(lh) + 1 /\ lh'[Len(lh) + 1] = b /\ Len(lh) \in Nat
          /\ \A i \in 1 .. Len(lh) : lh'[i] = lh[i] /\ lh'[i] # b
      BY <1>1, <2>2, <3>1, AppendProperties DEF BlocksOf
    <3>3. \A i \in 1 .. Len(lh') : i \in 1 .. Len(lh) \/ i = Len(lh) + 1 BY <3>2
    <3>4. Distinct(lh') BY <1>1, <3>2, <3>3 DEF DistinctInv, Distinct
    <3> QED BY <1>1, <3>1, <3>4 DEF DistinctInv
  <2> QED BY <2>1, <2>2
<1>5. ASSUME NEW p \in Proc, Begin(p) \/ SyscallStart(p) \/ EndOp(p) PROVE DistinctInv'
  BY <1>3, <1>5 DEF Begin, BeginOp, BeginSleep, SyscallStart, EndOp
<1>6. ASSUME NEW p \in Proc, CommitStart(p) \/ WriteLog(p) \/ Install(p) \/ CommitDone(p)
      PROVE  DistinctInv'
  BY <1>3, <1>6 DEF CommitStart, WriteLog, Install, InstallBlock, CommitDone
<1>7. ASSUME NEW p \in Proc, WriteHead(p) PROVE DistinctInv'
  BY <1>1, <1>7 DEF WriteHead, DistinctInv
<1>8. ASSUME NEW p \in Proc, Erase(p) PROVE DistinctInv'
  BY <1>1, <1>2, <1>8 DEF Erase, EraseHead, DistinctInv
<1>9. ASSUME NEW b \in Block, Evict(b) PROVE DistinctInv' BY <1>3, <1>9 DEF Evict
<1>10. CASE ReadHead BY <1>1, <1>10 DEF ReadHead, DistinctInv
<1>11. CASE InstallRecovering BY <1>3, <1>11 DEF InstallRecovering, InstallBlock
<1>12. CASE EraseRecovering BY <1>1, <1>2, <1>12 DEF EraseRecovering, EraseHead, DistinctInv
<1>13. CASE Crash BY <1>1, <1>2, <1>13 DEF Crash, DistinctInv
<1> QED
  BY <1>4, <1>5, <1>6, <1>7, <1>8, <1>9, <1>10, <1>11, <1>12, <1>13 DEF Next, Commit, Recover

-----------------------------------------------------------------------------
(* The pinned buffers. *)

\* Where First is, by what is going on.
LEMMA FirstIs ==
  ASSUME IInv
  PROVE  /\ boot # "up" => First = Len(lh) + 1
         /\ \A p \in Proc : pc[p] = "erase" => First = Len(lh) + 1
         /\ \A p \in Proc : pc[p] = "install" => First = tail
         /\ boot = "up" /\ (\A p \in Proc : pc[p] \notin {"install", "erase"}) => First = 1
<1>1. ASSUME NEW p \in Proc, pc[p] = "install" PROVE boot = "up" /\ \A q \in Proc : pc[q] # "erase"
  BY <1>1, Alone DEF Committing
<1> QED BY <1>1 DEF First

\* The same of the next state.
LEMMA FirstNext ==
  /\ boot' # "up" => First' = Len(lh') + 1
  /\ \A p \in Proc : pc'[p] = "erase" => First' = Len(lh') + 1
  /\ \A p \in Proc : boot' = "up" /\ pc'[p] = "install" /\ (\A q \in Proc : pc'[q] # "erase")
       => First' = tail'
  /\ boot' = "up" /\ (\A p \in Proc : pc'[p] \notin {"install", "erase"}) => First' = 1
BY DEF First

\* The pending blocks of a log whose first pending entry is the n-th.
LEMMA PendingIs ==
  ASSUME IInv
  PROVE  /\ First = 1 => Pending = BlocksOf(lh)
         /\ First = Len(lh) + 1 => Pending = {}
BY Types DEF Pending, BlocksOf

\* Nothing is pending where the next log is empty or all of it is in place.
LEMMA NothingPending ==
  ASSUME Len(lh') \in Nat, First' = Len(lh') + 1 \/ (Len(lh') = 0 /\ First' = 1)
  PROVE  Pending' = {}
BY DEF Pending

\* A buffer that may be recycled is as on the disk.
LEMMA EvictSame ==
  ASSUME IInv, NEW b \in Block, Evict(b)
  PROVE  UNCHANGED vars
<1>1. cache' = [cache EXCEPT ![b] = home[b]] /\ pins[b] = 0 /\ cache \in [Block -> Val]
  BY Types DEF Evict
<1>2. cache[b] = home[b] BY <1>1 DEF IInv, PinInv
<1>3. cache' = cache BY <1>1, <1>2
<1> QED BY <1>3 DEF Evict, vars, disk, mem

\* Steps that pin and unpin nothing.
LEMMA PinQuiet ==
  ASSUME IInv, UNCHANGED <<pins, cache, home>>, Pending' = Pending
  PROVE  PinInv'
BY DEF IInv, PinInv

\* install_trans writes what the buffer holds.
LEMMA InstallWrites ==
  ASSUME IInv, NEW p \in Proc, Install(p)
  PROVE  /\ cache' = cache /\ tail \in 1 .. Len(lh) /\ lh[tail] \in Block
         /\ logblk[tail] = cache[lh[tail]]
         /\ home' = [home EXCEPT ![lh[tail]] = cache[lh[tail]]]
         /\ header = lh /\ First = tail
<1>1. /\ pc[p] = "install" /\ cache' = [cache EXCEPT ![lh[tail]] = logblk[tail]]
      /\ home' = [home EXCEPT ![lh[tail]] = logblk[tail]]
  BY DEF Install, InstallBlock
<1>2. tail \in 1 .. Len(lh) /\ lh[tail] \in Block BY <1>1, TailEntry
<1>3. logblk[tail] = cache[lh[tail]] /\ header = lh
  BY <1>1, <1>2 DEF IInv, DiskInv, Logged
<1>4. cache' = cache BY <1>1, <1>2, <1>3, Types
<1>5. First = tail BY <1>1, FirstIs
<1> QED BY <1>1, <1>2, <1>3, <1>4, <1>5

\* Every step pins what it adds to the log and unpins what it installs.
LEMMA PinStep ==
  ASSUME IInv, Next
  PROVE  PinInv'
<1> USE DEF mem, disk
<1>1. /\ PinInv /\ lh \in Seq(Block) /\ Len(lh) \in 0 .. LogBlocks /\ pc \in [Proc -> Label]
      /\ Len(header) \in 0 .. LogBlocks /\ LogBlocks \in Nat
      /\ pins \in [Block -> Nat] /\ cache \in [Block -> Val] /\ home \in [Block -> Val]
  BY Types, LogAssumption DEF IInv
<1>2. ASSUME UNCHANGED <<pins, cache, home, lh, tail, boot>>,
             \A q \in Proc : pc'[q] \in {"install", "erase"} <=> pc[q] \in {"install", "erase"},
             \A q \in Proc : pc'[q] = "erase" <=> pc[q] = "erase"
      PROVE  PinInv'
  <2>1. \A q \in Proc : pc'[q] = "install" <=> pc[q] = "install" BY <1>2
  <2>2. First' = First BY <1>2, <2>1 DEF First
  <2>3. Pending' = Pending BY <1>2, <2>2 DEF Pending
  <2> QED BY <1>2, <2>3, PinQuiet
<1>3. ASSUME NEW p \in Proc, SyscallStart(p) \/ Begin(p) PROVE PinInv'
  <2>1. PICK l \in {"begin", "asleep", "op"} : Goto(p, l) /\ pc[p] \in {"idle", "begin"}
    BY <1>3 DEF SyscallStart, Begin, BeginOp, BeginSleep
  <2>2. \A q \in Proc : pc'[q] \in {"install", "erase"} <=> pc[q] \in {"install", "erase"}
    BY <1>1, <2>1 DEF Goto
  <2>3. \A q \in Proc : pc'[q] = "erase" <=> pc[q] = "erase" BY <1>1, <2>1 DEF Goto
  <2> QED BY <1>2, <1>3, <2>2, <2>3 DEF SyscallStart, Begin, BeginOp, BeginSleep
<1>4. ASSUME NEW p \in Proc, NEW b \in Block, NEW v \in Val, LogWrite(p, b, v) PROVE PinInv'
  <2>1. /\ pc[p] = "op" /\ UNCHANGED <<pc, boot, home>> /\ cache' = [cache EXCEPT ![b] = v]
        /\ (b \in BlocksOf(lh) => lh' = lh /\ pins' = pins)
        /\ (b \notin BlocksOf(lh) => lh' = Append(lh, b) /\ pins' = [pins EXCEPT ![b] = @ + 1])
    BY <1>4 DEF LogWrite
  <2>2. boot = "up" /\ \A q \in Proc : pc[q] \notin {"install", "erase"}
    BY <2>1, Alone DEF Committing
  <2>3. First = 1 /\ First' = 1 BY <2>1, <2>2, FirstIs, FirstNext
  <2>4. Pending = BlocksOf(lh) BY <2>3, PendingIs
  <2>5. Pending' = BlocksOf(lh') BY <2>3 DEF Pending, BlocksOf
  <2>6. CASE b \in BlocksOf(lh)
    <3>1. Pending' = Pending /\ pins' = pins /\ b \in Pending BY <2>1, <2>4, <2>5, <2>6
    <3> QED BY <1>1, <2>1, <3>1 DEF PinInv
  <2>7. CASE b \notin BlocksOf(lh)
    <3>1. /\ Len(lh') = Len(lh) + 1 /\ lh'[Len(lh) + 1] = b /\ Len(lh) \in Nat
          /\ \A i \in 1 .. Len(lh) : lh'[i] = lh[i]
      BY <1>1, <2>1, <2>7, AppendProperties
    <3>2. BlocksOf(lh') = BlocksOf(lh) \union {b} BY <3>1 DEF BlocksOf
    <3>3. Pending' = Pending \union {b} /\ b \notin Pending BY <2>4, <2>5, <2>7, <3>2
    <3> QED BY <1>1, <2>1, <2>7, <3>3 DEF PinInv
  <2> QED BY <2>6, <2>7
<1>5. ASSUME NEW p \in Proc, EndOp(p) \/ CommitDone(p) PROVE PinInv'
  <2>1. PICK l \in {"commit", "idle"} : Moves(p, l) /\ pc[p] \in {"op", "done"}
    BY <1>5, GotoMoves DEF EndOp, CommitDone, IInv, Label
  <2>2. \A q \in Proc : pc'[q] \in {"install", "erase"} <=> pc[q] \in {"install", "erase"}
    BY <2>1 DEF Moves
  <2>3. \A q \in Proc : pc'[q] = "erase" <=> pc[q] = "erase" BY <2>1 DEF Moves
  <2> QED BY <1>2, <1>5, <2>2, <2>3 DEF EndOp, CommitDone
<1>6. ASSUME NEW p \in Proc, CommitStart(p) \/ WriteLog(p) PROVE PinInv'
  <2>1. /\ pc[p] \in {"commit", "write_log"} /\ UNCHANGED <<pins, cache, home, lh, boot>>
        /\ \E l \in {"write_log", "write_head", "done"} : pc' = [pc EXCEPT ![p] = l]
    BY <1>6 DEF CommitStart, WriteLog, Goto
  <2>2. boot = "up" /\ \A q \in Proc : pc[q] \notin {"install", "erase"}
    BY <2>1, Alone DEF Committing
  <2>3. boot' = "up" /\ \A q \in Proc : pc'[q] \notin {"install", "erase"} BY <1>1, <2>1, <2>2
  <2>4. First = 1 /\ First' = 1 BY <2>2, <2>3, FirstIs, FirstNext
  <2>5. Pending' = Pending BY <2>1, <2>4 DEF Pending
  <2> QED BY <2>1, <2>5, PinQuiet
<1>7. ASSUME NEW p \in Proc, WriteHead(p) PROVE PinInv'
  <2>1. /\ pc[p] = "write_head" /\ UNCHANGED <<pins, cache, home, lh, boot>> /\ tail' = 1
        /\ pc' = [pc EXCEPT ![p] = "install"]
    BY <1>7 DEF WriteHead, Goto
  <2>2. boot = "up" /\ \A q \in Proc : pc[q] \notin {"install", "erase"}
    BY <2>1, Alone DEF Committing
  <2>3. boot' = "up" /\ pc'[p] = "install" /\ \A q \in Proc : pc'[q] # "erase" BY <1>1, <2>1, <2>2
  <2>4. First = 1 /\ First' = 1 BY <2>1, <2>2, <2>3, FirstIs, FirstNext
  <2>5. Pending' = Pending BY <2>1, <2>4 DEF Pending
  <2> QED BY <2>1, <2>5, PinQuiet
<1>8. ASSUME NEW p \in Proc, Install(p) PROVE PinInv'
  <2>1. /\ pc[p] = "install" /\ UNCHANGED <<lh, boot>> /\ tail' = tail + 1
        /\ pins' = [pins EXCEPT ![lh[tail]] = @ - 1]
        /\ pc' = [pc EXCEPT ![p] = IF tail < Len(lh) THEN "install" ELSE "erase"]
    BY <1>8 DEF Install, InstallBlock, Goto
  <2>2. /\ cache' = cache /\ tail \in 1 .. Len(lh) /\ lh[tail] \in Block
        /\ home' = [home EXCEPT ![lh[tail]] = cache[lh[tail]]] /\ First = tail
    BY <1>8, InstallWrites
  <2>3. boot = "up" /\ \A q \in Proc : q # p => pc[q] # "erase" BY <2>1, Alone DEF Committing
  <2>4. First' = tail + 1
    <3>1. CASE tail < Len(lh)
      <4>1. boot' = "up" /\ pc'[p] = "install" /\ \A q \in Proc : pc'[q] # "erase"
        BY <1>1, <2>1, <2>3, <3>1
      <4> QED BY <2>1, <4>1, FirstNext
    <3>2. CASE ~(tail < Len(lh))
      <4>1. pc'[p] = "erase" /\ tail = Len(lh) BY <1>1, <2>1, <2>2, <3>2
      <4> QED BY <2>1, <4>1, FirstNext
    <3> QED BY <3>1, <3>2
  <2>5. Pending' = Pending \ {lh[tail]} /\ lh[tail] \in Pending
    <3>1. \A i \in 1 .. Len(lh) : lh[i] = lh[tail] => i = tail
      BY <2>2 DEF IInv, DistinctInv, Distinct
    <3>2. Len(lh) \in Nat /\ tail \in Nat /\ 1 <= tail /\ tail <= Len(lh) BY <1>1, <2>2
    <3>3. \A i : i \in (tail + 1) .. Len(lh) <=> i \in tail .. Len(lh) /\ i # tail BY <3>2
    <3>4. \A i \in tail .. Len(lh) : i \in 1 .. Len(lh) BY <3>2
    <3>5. tail \in tail .. Len(lh) BY <3>2
    <3>6. /\ Pending = {lh[i] : i \in tail .. Len(lh)}
          /\ Pending' = {lh[i] : i \in (tail + 1) .. Len(lh)}
      BY <2>1, <2>2, <2>4 DEF Pending
    <3> QED BY <3>1, <3>3, <3>4, <3>5, <3>6
  <2>6. ASSUME NEW b \in Block
        PROVE  /\ pins'[b] = IF b \in Pending' THEN 1 ELSE 0
               /\ b \notin Pending' => cache'[b] = home'[b]
    BY <1>1, <2>1, <2>2, <2>5 DEF PinInv
  <2> QED BY <2>6 DEF PinInv
<1>9. ASSUME NEW p \in Proc, Erase(p) PROVE PinInv'
  <2>1. /\ pc[p] = "erase" /\ UNCHANGED <<pins, cache, home, boot>> /\ lh' = <<>>
        /\ pc' = [pc EXCEPT ![p] = "done"]
    BY <1>9 DEF Erase, EraseHead, Goto
  <2>2. boot = "up" /\ \A q \in Proc : q # p => pc[q] \notin {"install", "erase"}
    BY <2>1, Alone DEF Committing
  <2>3. boot' = "up" /\ \A q \in Proc : pc'[q] \notin {"install", "erase"} BY <1>1, <2>1, <2>2
  <2>4. Pending = {} BY <2>1, FirstIs, PendingIs
  <2>5. Pending' = {} BY <2>1, <2>3, FirstNext, NothingPending, EmptySeq
  <2> QED BY <2>1, <2>4, <2>5, PinQuiet
<1>10. ASSUME NEW b \in Block, Evict(b) PROVE PinInv'
  BY <1>10, EvictSame, <1>2 DEF vars
<1>11. CASE ReadHead
  <2>1. boot # "up" /\ boot' # "up" /\ UNCHANGED <<pins, cache, home>> /\ lh' = header
    BY <1>11 DEF ReadHead
  <2>2. Pending = {} BY <2>1, FirstIs, PendingIs
  <2>3. Pending' = {}
    <3>1. First' = Len(lh') + 1 BY <2>1, FirstNext
    <3>2. Len(lh') \in Nat BY <1>1, <2>1
    <3> QED BY <3>1, <3>2 DEF Pending
  <2> QED BY <2>1, <2>2, <2>3, PinQuiet
<1>12. CASE InstallRecovering
  <2>1. /\ boot = "install" /\ boot' # "up" /\ UNCHANGED <<pins, lh>>
        /\ home'  = [home  EXCEPT ![lh[tail]] = logblk[tail]]
        /\ cache' = [cache EXCEPT ![lh[tail]] = logblk[tail]]
    BY <1>12 DEF InstallRecovering, InstallBlock
  <2>2. Pending = {} BY <2>1, FirstIs, PendingIs
  <2>3. Pending' = {}
    <3>1. First' = Len(lh') + 1 BY <2>1, FirstNext
    <3>2. Len(lh') \in Nat BY <1>1, <2>1
    <3> QED BY <3>1, <3>2 DEF Pending
  <2>4. lh[tail] \in Block BY <2>1, TailEntry
  <2> QED BY <1>1, <2>1, <2>2, <2>3, <2>4 DEF PinInv
<1>13. CASE EraseRecovering
  <2>1. /\ boot = "erase" /\ boot' = "up" /\ UNCHANGED <<pins, cache, home, pc>> /\ lh' = <<>>
    BY <1>13 DEF EraseRecovering, EraseHead
  <2>2. \A q \in Proc : pc'[q] \notin {"install", "erase"} BY <2>1 DEF IInv, CallInv
  <2>3. Pending = {} BY <2>1, FirstIs, PendingIs
  <2>4. Pending' = {} BY <2>1, <2>2, FirstNext, NothingPending, EmptySeq
  <2> QED BY <2>1, <2>3, <2>4, PinQuiet
<1>14. CASE Crash
  <2>1. /\ boot' = "read_head" /\ lh' = <<>> /\ cache' = home /\ home' = home
        /\ pins' = [b \in Block |-> 0]
    BY <1>14 DEF Crash
  <2>2. Pending' = {} BY <2>1, FirstNext, NothingPending, EmptySeq
  <2> QED BY <2>1, <2>2 DEF PinInv
<1> QED
  BY <1>3, <1>4, <1>5, <1>6, <1>7, <1>8, <1>9, <1>10, <1>11, <1>12, <1>13, <1>14 DEF Next, Commit,
    Recover

-----------------------------------------------------------------------------
(* What the disk says. *)

\* Nothing is said of the disk but that its header is empty, while no commit
\* has begun.
LEMMA DiskIdle ==
  ASSUME boot' = "up", header' = <<>>,
         \A q \in Proc : pc'[q] \notin {"write_log", "write_head", "install", "erase", "done"}
  PROVE  DiskInv'
BY DEF DiskInv

\* The header is empty where nobody installs.
LEMMA HeaderEmpty ==
  ASSUME IInv, boot = "up", \A q \in Proc : pc[q] \notin {"install", "erase"}
  PROVE  header = <<>>
BY DEF IInv, DiskInv

\* One thread goes on with the commit, the others are not in it.
LEMMA OneCommits ==
  ASSUME IInv, NEW p \in Proc, Committing(p), NEW l, pc' = [pc EXCEPT ![p] = l], boot' = boot
  PROVE  /\ boot' = "up" /\ pc'[p] = l
         /\ \A q \in Proc : q # p =>
              pc'[q] \notin {"write_log", "write_head", "install", "erase", "done"}
<1>1. boot = "up" /\ \A q \in Proc : q # p => ~Committing(q) BY Alone DEF Committing
<1>2. pc \in [Proc -> Label] BY Types
<1> QED BY <1>1, <1>2 DEF Committing

\* The thread that commits, and it alone, has something to say of the disk.
LEMMA DiskCommits ==
  ASSUME NEW p \in Proc, boot' = "up",
         \A q \in Proc : q # p =>
            pc'[q] \notin {"write_log", "write_head", "install", "erase", "done"},
         header' # <<>> => pc'[p] \in {"install", "erase"},
         pc'[p] \in {"write_log", "install"} => tail' \in 1 .. Len(lh'),
         pc'[p] = "write_log" => Logged(tail - 1)',
         pc'[p] = "write_head" => lh' # <<>>,
         pc'[p] \in {"write_head", "install", "erase"} => Logged(Len(lh))',
         pc'[p] \in {"install", "erase"} => header' = lh',
         pc'[p] = "done" => lh' = <<>>
  PROVE  DiskInv'
BY DEF DiskInv

\* Every step of a call, of a commit and of recovery keeps what the disk says.
LEMMA DiskStep ==
  ASSUME IInv, Next
  PROVE  DiskInv'
<1> USE DEF mem, disk
<1>1. /\ DiskInv /\ lh \in Seq(Block) /\ Len(lh) \in 0 .. LogBlocks /\ pc \in [Proc -> Label]
      /\ Len(header) \in 0 .. LogBlocks /\ LogBlocks \in Nat /\ header \in Seq(Block)
      /\ cache \in [Block -> Val] /\ home \in [Block -> Val] /\ logblk \in [1 .. LogBlocks -> Val]
  BY Types, LogAssumption DEF IInv
<1>2. ASSUME NEW p \in Proc, SyscallStart(p) \/ Begin(p) PROVE DiskInv'
  <2>1. PICK l \in {"begin", "asleep", "op"} : Goto(p, l) /\ pc[p] \in {"idle", "begin"}
    BY <1>2 DEF SyscallStart, Begin, BeginOp, BeginSleep
  <2>2. UNCHANGED <<home, logblk, header, cache, lh, tail, boot>>
    BY <1>2 DEF SyscallStart, Begin, BeginOp, BeginSleep
  <2>3. \A q \in Proc :
          \/ pc'[q] = pc[q]
          \/ /\ pc[q] \notin {"write_log", "write_head", "install", "erase", "done"}
             /\ pc'[q] \notin {"write_log", "write_head", "install", "erase", "done"}
    BY <1>1, <2>1 DEF Goto
  <2>4. Logged(tail - 1)' = Logged(tail - 1) /\ Logged(Len(lh))' = Logged(Len(lh))
    BY <2>2 DEF Logged
  <2> QED BY <1>1, <2>2, <2>3, <2>4 DEF DiskInv
<1>3. ASSUME NEW p \in Proc, NEW b \in Block, NEW v \in Val, LogWrite(p, b, v) PROVE DiskInv'
  <2>1. pc[p] = "op" /\ UNCHANGED <<pc, boot, header>> BY <1>3 DEF LogWrite
  <2>2. boot = "up" /\ \A q \in Proc : ~Committing(q) BY <2>1, Alone
  <2>3. header = <<>> BY <2>2, HeaderEmpty DEF Committing
  <2> QED BY <2>1, <2>2, <2>3, DiskIdle DEF Committing
<1>4. ASSUME NEW p \in Proc, EndOp(p) \/ CommitDone(p) PROVE DiskInv'
  <2>1. /\ pc[p] \in {"op", "done"} /\ UNCHANGED <<boot, header>>
        /\ \E l \in {"commit", "idle"} : Goto(p, l) \/ WakeupGoto(p, l)
    BY <1>4 DEF EndOp, CommitDone
  <2>2. boot = "up" /\ \A q \in Proc : q # p => ~Committing(q) BY <2>1, Alone DEF Committing
  <2>3. header = <<>> BY <2>1, <2>2, HeaderEmpty DEF Committing
  <2>4. PICK l \in {"commit", "idle"} : Moves(p, l)
    BY <2>1, GotoMoves DEF IInv, Label
  <2>5. \A q \in Proc : pc'[q] \notin {"write_log", "write_head", "install", "erase", "done"}
    BY <2>2, <2>4 DEF Moves, Committing
  <2> QED BY <2>1, <2>2, <2>3, <2>5, DiskIdle
<1>5. ASSUME NEW p \in Proc, CommitStart(p) PROVE DiskInv'
  <2>1. /\ pc[p] = "commit" /\ tail' = 1 /\ UNCHANGED <<home, logblk, header, cache, lh, boot>>
        /\ pc' = [pc EXCEPT ![p] = IF Len(lh) > 0 THEN "write_log" ELSE "done"]
    BY <1>5 DEF CommitStart, Goto
  <2>2. boot = "up" /\ \A q \in Proc : q # p => ~Committing(q) BY <2>1, Alone DEF Committing
  <2>3. header = <<>> BY <2>1, <2>2, HeaderEmpty DEF Committing
  <2>4. /\ boot' = "up" /\ pc'[p] = IF Len(lh) > 0 THEN "write_log" ELSE "done"
        /\ \A q \in Proc : q # p =>
              pc'[q] \notin {"write_log", "write_head", "install", "erase", "done"}
    BY <2>1, OneCommits DEF Committing
  <2>5. Logged(tail - 1)' BY <2>1 DEF Logged
  <2>6. CASE Len(lh) > 0
    <3>1. pc'[p] = "write_log" /\ tail' \in 1 .. Len(lh') BY <1>1, <2>1, <2>4, <2>6
    <3> QED BY <2>1, <2>3, <2>4, <2>5, <3>1, DiskCommits
  <2>7. CASE ~(Len(lh) > 0)
    <3>1. pc'[p] = "done" /\ lh' = <<>> BY <1>1, <2>1, <2>4, <2>7, EmptySeq
    <3> QED BY <2>1, <2>3, <2>4, <3>1, DiskCommits
  <2> QED BY <2>6, <2>7
<1>6. ASSUME NEW p \in Proc, WriteLog(p) PROVE DiskInv'
  <2>1. /\ pc[p] = "write_log" /\ tail' = tail + 1 /\ UNCHANGED <<home, header, cache, lh, boot>>
        /\ logblk' = [logblk EXCEPT ![tail] = cache[lh[tail]]]
        /\ pc' = [pc EXCEPT ![p] = IF tail < Len(lh) THEN "write_log" ELSE "write_head"]
    BY <1>6 DEF WriteLog, Goto
  <2>2. boot = "up" /\ \A q \in Proc : q # p => ~Committing(q) BY <2>1, Alone DEF Committing
  <2>3. header = <<>> BY <2>1, <2>2, HeaderEmpty DEF Committing
  <2>4. /\ boot' = "up" /\ pc'[p] = IF tail < Len(lh) THEN "write_log" ELSE "write_head"
        /\ \A q \in Proc : q # p =>
              pc'[q] \notin {"write_log", "write_head", "install", "erase", "done"}
    BY <2>1, OneCommits DEF Committing
  <2>5. tail \in 1 .. Len(lh) /\ tail \in 1 .. LogBlocks BY <2>1, TailEntry
  <2>6. Logged(tail - 1) BY <1>1, <2>1 DEF DiskInv
  <2>7. \A i \in 1 .. tail : logblk'[i] = cache'[lh'[i]]
    <3>1. \A i \in 1 .. tail : i = tail \/ i \in 1 .. (tail - 1) BY <2>5
    <3>2. \A i \in 1 .. tail : i \in 1 .. LogBlocks BY <2>5, <1>1
    <3> QED BY <1>1, <2>1, <2>6, <3>1, <3>2 DEF Logged
  <2>8. CASE tail < Len(lh)
    <3>1. pc'[p] = "write_log" /\ tail' \in 1 .. Len(lh') BY <1>1, <2>1, <2>4, <2>5, <2>8
    <3>2. tail' - 1 = tail BY <2>1, <2>5
    <3>3. Logged(tail - 1)' BY <2>7, <3>2 DEF Logged
    <3> QED BY <2>1, <2>3, <2>4, <3>1, <3>3, DiskCommits
  <2>9. CASE ~(tail < Len(lh))
    <3>1. pc'[p] = "write_head" /\ Len(lh') = tail BY <1>1, <2>1, <2>4, <2>5, <2>9
    <3>2. Logged(Len(lh))' BY <2>7, <3>1 DEF Logged
    <3>3. lh' # <<>> BY <2>5, <3>1, EmptySeq
    <3> QED BY <2>1, <2>3, <2>4, <3>1, <3>2, <3>3, DiskCommits
  <2> QED BY <2>8, <2>9
<1>7. ASSUME NEW p \in Proc, WriteHead(p) PROVE DiskInv'
  <2>1. /\ pc[p] = "write_head" /\ tail' = 1 /\ header' = lh
        /\ UNCHANGED <<home, logblk, cache, lh, boot>>
        /\ pc' = [pc EXCEPT ![p] = "install"]
    BY <1>7 DEF WriteHead, Goto
  <2>2. /\ boot' = "up" /\ pc'[p] = "install"
        /\ \A q \in Proc : q # p =>
              pc'[q] \notin {"write_log", "write_head", "install", "erase", "done"}
    BY <2>1, OneCommits DEF Committing
  <2>3. lh # <<>> /\ Logged(Len(lh)) BY <1>1, <2>1 DEF DiskInv
  <2>4. tail' \in 1 .. Len(lh') BY <1>1, <2>1, <2>3, EmptySeq
  <2>5. Logged(Len(lh))' BY <2>1, <2>3 DEF Logged
  <2> QED BY <2>1, <2>2, <2>4, <2>5, DiskCommits
<1>8. ASSUME NEW p \in Proc, Install(p) PROVE DiskInv'
  <2>1. /\ pc[p] = "install" /\ tail' = tail + 1 /\ UNCHANGED <<logblk, header, lh, boot>>
        /\ pc' = [pc EXCEPT ![p] = IF tail < Len(lh) THEN "install" ELSE "erase"]
    BY <1>8 DEF Install, InstallBlock, Goto
  <2>2. cache' = cache /\ tail \in 1 .. Len(lh) /\ header = lh BY <1>8, InstallWrites
  <2>3. /\ boot' = "up" /\ pc'[p] = IF tail < Len(lh) THEN "install" ELSE "erase"
        /\ \A q \in Proc : q # p =>
              pc'[q] \notin {"write_log", "write_head", "install", "erase", "done"}
    BY <2>1, OneCommits DEF Committing
  <2>4. Logged(Len(lh))' BY <1>1, <2>1, <2>2 DEF Logged, DiskInv
  <2>5. pc'[p] = "install" => tail' \in 1 .. Len(lh') BY <1>1, <2>1, <2>2, <2>3
  <2>6. pc'[p] \in {"install", "erase"} BY <2>3
  <2> QED BY <2>1, <2>2, <2>3, <2>4, <2>5, <2>6, DiskCommits
<1>9. ASSUME NEW p \in Proc, Erase(p) PROVE DiskInv'
  <2>1. /\ pc[p] = "erase" /\ lh' = <<>> /\ header' = <<>> /\ boot' = boot
        /\ pc' = [pc EXCEPT ![p] = "done"]
    BY <1>9 DEF Erase, EraseHead, Goto
  <2>2. /\ boot' = "up" /\ pc'[p] = "done"
        /\ \A q \in Proc : q # p =>
              pc'[q] \notin {"write_log", "write_head", "install", "erase", "done"}
    BY <2>1, OneCommits DEF Committing
  <2> QED BY <2>1, <2>2, DiskCommits
<1>10. ASSUME NEW b \in Block, Evict(b) PROVE DiskInv'
  <2>1. UNCHANGED vars BY <1>10, EvictSame
  <2>2. UNCHANGED <<home, logblk, header, cache, lh, tail, boot, pc>> BY <2>1 DEF vars
  <2> QED BY <1>1, <2>2 DEF DiskInv, Logged
<1>11. CASE ReadHead
  <2>1. /\ boot = "read_head" /\ lh' = header /\ UNCHANGED <<header, tail, pc>>
        /\ boot' = IF Len(header) > 0 THEN "install" ELSE "erase"
    BY <1>11 DEF ReadHead
  <2>2. tail = 1 /\ \A q \in Proc : pc[q] = "idle" BY <1>1, <2>1 DEF DiskInv, IInv, CallInv
  <2>3. boot' = "install" => tail' \in 1 .. Len(lh') /\ \A i \in 1 .. Len(lh') : ~(i < tail')
    BY <1>1, <2>1, <2>2
  <2>4. boot' = "erase" => \A i \in 1 .. Len(lh') : FALSE BY <1>1, <2>1
  <2>5. boot' \in {"install", "erase"} BY <2>1
  <2> QED BY <2>1, <2>2, <2>3, <2>4, <2>5 DEF DiskInv
<1>12. CASE InstallRecovering
  <2>1. /\ boot = "install" /\ tail' = tail + 1 /\ UNCHANGED <<logblk, header, lh, pc>>
        /\ home' = [home EXCEPT ![lh[tail]] = logblk[tail]]
        /\ boot' = IF tail < Len(lh) THEN "install" ELSE "erase"
    BY <1>12 DEF InstallRecovering, InstallBlock
  <2>2. tail \in 1 .. Len(lh) /\ lh[tail] \in Block /\ \A q \in Proc : pc[q] = "idle"
    BY <2>1, TailEntry DEF IInv, CallInv
  <2>3. header = lh /\ \A i \in 1 .. Len(lh) : i < tail => home[lh[i]] = logblk[i]
    BY <1>1, <2>1 DEF DiskInv
  <2>4. \A i \in 1 .. Len(lh) : lh[i] \in Block /\ (lh[i] = lh[tail] => i = tail)
    BY <2>2, Types DEF IInv, DistinctInv, Distinct
  <2>5. \A i \in 1 .. Len(lh) : i <= tail => home'[lh[i]] = logblk[i]
    <3>1. \A i \in 1 .. Len(lh) : i <= tail => i = tail \/ i < tail BY <2>2
    <3> QED BY <1>1, <2>1, <2>2, <2>3, <2>4, <3>1
  <2>6. CASE tail < Len(lh)
    <3>1. boot' = "install" /\ tail' \in 1 .. Len(lh') BY <1>1, <2>1, <2>2, <2>6
    <3>2. \A i \in 1 .. Len(lh') : i < tail' => i <= tail BY <2>1, <2>2
    <3>3. \A i \in 1 .. Len(lh') : i < tail' => home'[lh'[i]] = logblk'[i] BY <2>1, <2>5, <3>2
    <3> QED BY <2>1, <2>2, <2>3, <3>1, <3>3 DEF DiskInv
  <2>7. CASE ~(tail < Len(lh))
    <3>1. boot' = "erase" /\ \A i \in 1 .. Len(lh') : i <= tail BY <1>1, <2>1, <2>2, <2>7
    <3>2. \A i \in 1 .. Len(lh') : home'[lh'[i]] = logblk'[i] BY <2>1, <2>5, <3>1
    <3> QED BY <2>1, <2>2, <2>3, <3>1, <3>2 DEF DiskInv
  <2> QED BY <2>6, <2>7
<1>13. CASE EraseRecovering
  <2>1. boot = "erase" /\ boot' = "up" /\ header' = <<>> /\ UNCHANGED pc
    BY <1>13 DEF EraseRecovering, EraseHead
  <2>2. \A q \in Proc : pc'[q] = "idle" BY <2>1 DEF IInv, CallInv
  <2> QED BY <2>1, <2>2, DiskIdle
<1>14. CASE Crash
  <2>1. boot' = "read_head" /\ tail' = 1 /\ \A q \in Proc : pc'[q] = "idle" BY <1>14 DEF Crash
  <2> QED BY <2>1 DEF DiskInv
<1> QED
  BY <1>2, <1>3, <1>4, <1>5, <1>6, <1>7, <1>8, <1>9, <1>10, <1>11, <1>12, <1>13, <1>14 DEF Next,
    Commit, Recover

-----------------------------------------------------------------------------
(* The invariant, and what it says. *)

\* mkfs leaves an empty log.
LEMMA InitIInv == Init => IInv
<1> SUFFICES ASSUME Init PROVE IInv OBVIOUS
<1>1. /\ home = [b \in Block |-> InitVal] /\ cache = home
      /\ logblk = [i \in 1 .. LogBlocks |-> InitVal] /\ header = <<>> /\ lh = <<>>
      /\ pins = [b \in Block |-> 0] /\ outstanding = 0 /\ committing = FALSE /\ tail = 1
      /\ wrote = [p \in Proc |-> {}] /\ pc = [p \in Proc |-> "idle"]
      /\ boot = "read_head" /\ crashes = 0
  BY DEF Init
<1>2. <<>> \in Seq(Block) /\ Len(<<>>) = 0 BY EmptySeq
<1>3. LogBlocks \in Nat /\ MaxCrash \in Nat /\ OpBlocks \in Nat /\ InitVal \in Val
  BY LogAssumption
<1>4. TypeOK
  <2>1. /\ tail \in 1 .. LogBlocks + 1 /\ Len(lh) <= LogBlocks /\ crashes \in 0 .. MaxCrash
        /\ outstanding \in Nat
    BY <1>1, <1>2, <1>3
  <2> QED BY <1>1, <1>2, <1>3, <2>1 DEF TypeOK
<1>5. Running = {} /\ Written = {} BY <1>1 DEF Running, Written
<1>6. CallInv BY <1>1, <1>5, FS_EmptySet DEF CallInv, Committing
<1>7. SpaceInv
  <2>1. Cardinality({}) = 0 BY FS_EmptySet
  <2>2. Len(lh) + outstanding * MaxOp <= LogBlocks + Cardinality(Written)
    BY <1>1, <1>2, <1>3, <1>5, <2>1, LogAssumption
  <2>3. Cardinality({}) <= OpBlocks BY <1>3, <2>1
  <2> QED BY <1>1, <2>2, <2>3 DEF SpaceInv
<1>8. DistinctInv BY <1>1, <1>2, <1>3 DEF DistinctInv, Distinct
<1>9. PinInv
  <2>1. First = Len(lh) + 1 BY <1>1 DEF First
  <2>2. Pending = {} BY <1>1, <1>2, <2>1 DEF Pending
  <2> QED BY <1>1, <2>2 DEF PinInv
<1>10. DiskInv BY <1>1 DEF DiskInv
<1> QED BY <1>4, <1>6, <1>7, <1>8, <1>9, <1>10 DEF IInv

\* Where nothing changes, the invariant stays.
LEMMA Stutter == IInv /\ UNCHANGED vars => IInv'
<1> SUFFICES ASSUME IInv, UNCHANGED vars PROVE IInv' OBVIOUS
<1>1. TypeOK' BY DEF IInv, TypeOK, vars, mem, disk
<1>2. CallInv' BY DEF IInv, CallInv, Running, Committing, vars, mem, disk
<1>3. SpaceInv' BY DEF IInv, SpaceInv, Written, BlocksOf, vars, mem, disk
<1>4. DistinctInv' BY DEF IInv, DistinctInv, vars, mem, disk
<1>5. First' = First BY DEF First, vars, mem, disk
<1>6. Pending' = Pending BY <1>5 DEF Pending, vars, mem, disk
<1>7. PinInv' BY <1>6, PinQuiet DEF vars, mem, disk
<1>8. DiskInv' BY DEF IInv, DiskInv, Logged, vars, mem, disk
<1> QED BY <1>1, <1>2, <1>3, <1>4, <1>7, <1>8 DEF IInv

\* The inductive invariant, for any number of threads, blocks and crashes: the
\* reservation of begin_op, what is pinned, and what is on the disk at each
\* point of commit and of recovery.
THEOREM LogCorrect == Spec => []IInv
<1>1. Init => IInv BY InitIInv
<1>2. IInv /\ [Next]_vars => IInv'
  <2> SUFFICES ASSUME IInv, [Next]_vars PROVE IInv' OBVIOUS
  <2>1. CASE Next
    BY <2>1, TypeStep, CallStep, SpaceStep, DistinctStep, PinStep, DiskStep DEF IInv
  <2>2. CASE UNCHANGED vars BY <2>2, Stutter
  <2> QED BY <2>1, <2>2
<1> QED BY <1>1, <1>2, PTL DEF Spec

\* Every variable of the log stays in its range: the transaction fits the log's
\* blocks, no buffer is unpinned that is not pinned, outstanding does not go
\* below zero.
THEOREM TypeCorrect == Spec => []TypeOK
<1>1. IInv => TypeOK BY DEF IInv
<1> QED BY <1>1, LogCorrect, PTL

\* A number for each block that thread p has written.
Numbering(p) == CHOOSE f \in Injection(wrote[p], 1 .. OpBlocks) : TRUE

\* The blocks that a call has written can be numbered up to OpBlocks.
LEMMA Numbered ==
  ASSUME IInv, NEW p \in Proc
  PROVE  Numbering(p) \in Injection(wrote[p], 1 .. OpBlocks)
<1>1. /\ wrote[p] \subseteq Block /\ Cardinality(wrote[p]) <= OpBlocks /\ OpBlocks \in Nat
  BY Types, LogAssumption DEF IInv, SpaceInv
<1>2. IsFiniteSet(wrote[p]) BY <1>1, FS_Subset, LogAssumption
<1>3. PICK n \in Nat : n = Cardinality(wrote[p]) /\ ExistsBijection(1 .. n, wrote[p])
  BY <1>2, FS_CardinalityType
<1>4. ExistsBijection(wrote[p], 1 .. n) BY <1>3, Fun_ExistsBijSymmetric
<1>5. PICK f : f \in Bijection(wrote[p], 1 .. n) BY <1>4 DEF ExistsBijection
<1>6. f \in [wrote[p] -> 1 .. n] /\ \A x, y \in wrote[p] : f[x] = f[y] => x = y
  BY <1>5 DEF Bijection, Injection, IsInjective
<1>7. \A x \in wrote[p] : f[x] \in 1 .. OpBlocks BY <1>1, <1>3, <1>6
<1>8. f \in Injection(wrote[p], 1 .. OpBlocks) BY <1>6, <1>7 DEF Injection, IsInjective
<1> QED BY <1>8 DEF Numbering

\* All running calls together have written OpBlocks blocks each at most.
LEMMA WrittenAtMost ==
  ASSUME IInv
  PROVE  Cardinality(Written) <= outstanding * OpBlocks
<1> DEFINE f == [e \in Written |-> <<e[1], Numbering(e[1])[e[2]]>>]
<1>1. ASSUME NEW e \in Written
      PROVE  /\ e \in Proc \X Block /\ e[1] \in Running /\ e[2] \in wrote[e[1]]
             /\ Numbering(e[1])[e[2]] \in 1 .. OpBlocks
  <2>1. e \in Proc \X Block /\ e[1] \in Proc /\ e[2] \in wrote[e[1]] BY DEF Written
  <2>2. e[1] \in Running BY <2>1 DEF IInv, SpaceInv, Running
  <2> QED BY <2>1, <2>2, Numbered DEF Injection
<1>2. f \in [Written -> Running \X (1 .. OpBlocks)] BY <1>1
<1>3. ASSUME NEW d \in Written, NEW e \in Written, f[d] = f[e] PROVE d = e
  <2>1. d[1] = e[1] /\ Numbering(d[1])[d[2]] = Numbering(e[1])[e[2]] BY <1>3
  <2>2. d[1] \in Proc /\ d[2] \in wrote[d[1]] /\ e[2] \in wrote[d[1]] BY <1>1, <2>1
  <2>3. d[2] = e[2] BY <2>1, <2>2, Numbered DEF Injection, IsInjective
  <2> QED BY <1>1, <2>1, <2>3
<1>4. f \in Injection(Written, Running \X (1 .. OpBlocks))
  <2> HIDE DEF f
  <2> QED BY <1>2, <1>3 DEF Injection, IsInjective
<1>5. /\ IsFiniteSet(Running) /\ outstanding = Cardinality(Running)
      /\ IsFiniteSet(1 .. OpBlocks) /\ Cardinality(1 .. OpBlocks) = OpBlocks
  <2>1. Running \in SUBSET Proc BY DEF Running
  <2>2. OpBlocks \in Int /\ 1 \in Int /\ ~(1 > OpBlocks) BY LogAssumption
  <2>3. /\ IsFiniteSet(1 .. OpBlocks)
        /\ Cardinality(1 .. OpBlocks) = IF 1 > OpBlocks THEN 0 ELSE OpBlocks - 1 + 1
    BY <2>2, FS_Interval
  <2>4. Cardinality(1 .. OpBlocks) = OpBlocks BY <2>2, <2>3
  <2> QED BY <2>1, <2>3, <2>4, Threads DEF IInv, CallInv
<1>6. /\ IsFiniteSet(Running \X (1 .. OpBlocks))
      /\ Cardinality(Running \X (1 .. OpBlocks)) = outstanding * OpBlocks
  BY <1>5, FS_Product
<1> HIDE DEF f
<1> QED BY <1>4, <1>6, FS_Injection

\* log_write never finds the log full or no call running, and end_op never a
\* commit: what begin_op reserves is enough, however the calls overlap.
THEOREM NoPanics == Spec => []NoPanic
<1>1. IInv => NoPanic
  <2> SUFFICES ASSUME IInv, NEW p \in Proc, pc[p] = "op"
               PROVE  Len(lh) < LogBlocks /\ outstanding >= 1 /\ ~committing
    BY DEF NoPanic
  <2>1. ~committing BY Alone
  <2>2. outstanding \in Nat /\ outstanding >= 1
    <3>1. p \in Running /\ Running \in SUBSET Proc BY DEF Running
    <3>2. Cardinality(Running) # 0 /\ Cardinality(Running) \in Nat BY <3>1, Threads
    <3> QED BY <3>2 DEF IInv, CallInv
  <2>3. /\ Len(lh) + outstanding * MaxOp <= LogBlocks + Cardinality(Written)
        /\ Cardinality(Written) <= outstanding * OpBlocks
    BY WrittenAtMost DEF IInv, SpaceInv
  <2>4. /\ Len(lh) \in Nat /\ LogBlocks \in Nat /\ MaxOp \in Nat /\ OpBlocks \in Nat
        /\ OpBlocks < MaxOp
    BY Types, LogAssumption
  <2>5. Cardinality(Written) \in Nat
    <3>1. Written \in SUBSET (Proc \X Block) BY DEF Written
    <3> QED BY <3>1, Writes
  <2>6. outstanding * OpBlocks < outstanding * MaxOp
    <3>1. \A m, n, o \in Nat : n < m /\ o >= 1 => o * n < o * m BY SMT
    <3> QED BY <2>2, <2>4, <3>1
  <2>7. outstanding * OpBlocks \in Nat /\ outstanding * MaxOp \in Nat BY <2>2, <2>4
  <2>8. Len(lh) < LogBlocks BY <2>3, <2>4, <2>5, <2>6, <2>7
  <2> QED BY <2>1, <2>2, <2>8
<1> QED BY <1>1, LogCorrect, PTL

-----------------------------------------------------------------------------
(* What is there after a crash, and the refinement. *)

DurableOf(h, lb, hm) == [b \in Block |->
  IF b \in BlocksOf(h) THEN lb[CHOOSE i \in 1 .. Len(h) : h[i] = b] ELSE hm[b]]

\* A header that names each block once says of each of its blocks which log
\* block has it.
LEMMA AfterCrash ==
  ASSUME NEW h, Distinct(h), NEW lb, NEW hm
  PROVE  /\ \A i \in 1 .. Len(h) : h[i] \in Block => DurableOf(h, lb, hm)[h[i]] = lb[i]
         /\ \A b \in Block : b \notin BlocksOf(h) => DurableOf(h, lb, hm)[b] = hm[b]
<1>1. ASSUME NEW i \in 1 .. Len(h), h[i] \in Block PROVE DurableOf(h, lb, hm)[h[i]] = lb[i]
  <2> DEFINE j == CHOOSE n \in 1 .. Len(h) : h[n] = h[i]
  <2>1. j \in 1 .. Len(h) /\ h[j] = h[i] OBVIOUS
  <2>2. j = i BY <2>1 DEF Distinct
  <2>3. h[i] \in BlocksOf(h) BY DEF BlocksOf
  <2> QED BY <1>1, <2>2, <2>3 DEF DurableOf
<1> QED BY <1>1 DEF DurableOf

\* An empty header, and one whose blocks are all in place, change nothing.
LEMMA AllInPlace ==
  ASSUME NEW h, Distinct(h), NEW lb, NEW hm \in [Block -> Val],
         \A i \in 1 .. Len(h) : h[i] \in Block /\ hm[h[i]] = lb[i]
  PROVE  DurableOf(h, lb, hm) = hm
<1>1. ASSUME NEW b \in Block PROVE DurableOf(h, lb, hm)[b] = hm[b]
  <2>1. CASE b \in BlocksOf(h)
    <3>1. PICK i \in 1 .. Len(h) : h[i] = b BY <2>1 DEF BlocksOf
    <3> QED BY <3>1, AfterCrash
  <2>2. CASE b \notin BlocksOf(h) BY <2>2, AfterCrash
  <2> QED BY <2>1, <2>2
<1>2. DurableOf(h, lb, hm) = [b \in Block |-> DurableOf(h, lb, hm)[b]] BY DEF DurableOf
<1>3. hm = [b \in Block |-> hm[b]] OBVIOUS
<1> QED BY <1>1, <1>2, <1>3

\* Durable by its parts, in this state and the next.
LEMMA DurableIs ==
  /\ Durable = DurableOf(header, logblk, home)
  /\ Durable' = DurableOf(header', logblk', home')
BY DEF Durable, DurableOf

\* With an empty header the home blocks are what a crash leaves.
LEMMA NoHeader ==
  ASSUME NEW hm \in [Block -> Val], NEW lb
  PROVE  DurableOf(<<>>, lb, hm) = hm
<1>1. Len(<<>>) = 0 BY EmptySeq
<1>2. Distinct(<<>>) BY <1>1 DEF Distinct
<1>3. \A i \in 1 .. Len(<<>>) : FALSE BY <1>1
<1> QED BY <1>2, <1>3, AllInPlace

\* Where nothing is pending the buffers are as the home blocks.
LEMMA CacheIsHome ==
  ASSUME IInv, Pending = {}
  PROVE  cache = home
<1>1. \A b \in Block : cache[b] = home[b] BY DEF IInv, PinInv
<1> QED BY <1>1, Types

\* When the header is written, what the buffers hold becomes durable.
LEMMA HeadCommits ==
  ASSUME IInv, NEW p \in Proc, WriteHead(p)
  PROVE  Durable' = cache
<1>1. pc[p] = "write_head" /\ header' = lh /\ UNCHANGED <<home, logblk>> BY DEF WriteHead
<1>2. Logged(Len(lh)) BY <1>1 DEF IInv, DiskInv
<1>3. boot = "up" /\ \A q \in Proc : pc[q] \notin {"install", "erase"}
  BY <1>1, Alone DEF Committing
<1>4. Pending = BlocksOf(lh) BY <1>3, FirstIs, PendingIs
<1>5. Distinct(lh) BY DEF IInv, DistinctInv
<1>6. Durable' = DurableOf(lh, logblk, home) BY <1>1, DurableIs
<1>7. ASSUME NEW b \in Block PROVE DurableOf(lh, logblk, home)[b] = cache[b]
  <2>1. CASE b \in BlocksOf(lh)
    <3>1. PICK i \in 1 .. Len(lh) : lh[i] = b BY <2>1 DEF BlocksOf
    <3> QED BY <1>2, <1>5, <3>1, AfterCrash DEF Logged
  <2>2. CASE b \notin BlocksOf(lh)
    <3>1. cache[b] = home[b] BY <1>4, <2>2 DEF IInv, PinInv
    <3> QED BY <1>5, <2>2, <3>1, AfterCrash
  <2> QED BY <2>1, <2>2
<1>8. DurableOf(lh, logblk, home) = [b \in Block |-> DurableOf(lh, logblk, home)[b]]
  BY DEF DurableOf
<1>9. cache = [b \in Block |-> cache[b]] BY Types
<1> QED BY <1>6, <1>7, <1>8, <1>9

\* install_trans writes home what the log has for it.
LEMMA InstallKeeps ==
  ASSUME IInv, (\E p \in Proc : Install(p)) \/ InstallRecovering
  PROVE  Durable' = Durable
<1>1. /\ (boot = "install") \/ (\E p \in Proc : pc[p] \in {"write_log", "install"})
      /\ home' = [home EXCEPT ![lh[tail]] = logblk[tail]] /\ UNCHANGED <<logblk, header>>
      /\ header = lh
  BY DEF Install, InstallRecovering, InstallBlock, IInv, DiskInv
<1>2. tail \in 1 .. Len(lh) BY <1>1, TailEntry
<1>3. lh[tail] \in BlocksOf(header) BY <1>1, <1>2 DEF BlocksOf
<1>4. home \in [Block -> Val] BY Types
<1>5. \A b \in Block : b \notin BlocksOf(header) => home'[b] = home[b] BY <1>1, <1>3, <1>4
<1> QED BY <1>1, <1>5 DEF Durable

\* The header is cleared only when all its blocks are in place.
LEMMA EraseKeeps ==
  ASSUME IInv, (\E p \in Proc : Erase(p)) \/ EraseRecovering
  PROVE  Durable' = home /\ Durable = home /\ cache = home
<1>1. /\ header' = <<>> /\ UNCHANGED home /\ header = lh
      /\ (boot # "up") \/ (\E p \in Proc : pc[p] = "erase")
  BY DEF Erase, EraseRecovering, EraseHead, IInv, DiskInv
<1>2. Pending = {} BY <1>1, FirstIs, PendingIs
<1>3. cache = home BY <1>2, CacheIsHome
<1>4. \A i \in 1 .. Len(lh) : lh[i] \in Block /\ home[lh[i]] = logblk[i]
  <2>1. CASE \E p \in Proc : Erase(p)
    <3>1. Logged(Len(lh)) BY <2>1 DEF Erase, IInv, DiskInv
    <3> QED BY <1>3, <3>1, Types DEF Logged
  <2>2. CASE EraseRecovering BY <2>2, Types DEF EraseRecovering, IInv, DiskInv
  <2> QED BY <2>1, <2>2
<1>5. Distinct(lh) /\ home \in [Block -> Val] BY Types DEF IInv, DistinctInv
<1>6. Durable = home BY <1>1, <1>4, <1>5, AllInPlace, DurableIs
<1>7. Durable' = home BY <1>1, <1>5, NoHeader, DurableIs
<1> QED BY <1>3, <1>6, <1>7

\* A commit that is over has left everything that ended calls have written on
\* the disk.
THEOREM DurableAtReturns == Spec => []DurableAtReturn
<1>1. IInv => DurableAtReturn
  <2> SUFFICES ASSUME IInv, NEW p \in Proc, pc[p] = "done" PROVE Durable = cache
    BY DEF DurableAtReturn
  <2>1. lh = <<>> BY DEF IInv, DiskInv
  <2>2. boot = "up" /\ \A q \in Proc : pc[q] \notin {"install", "erase"} BY Alone DEF Committing
  <2>3. header = <<>> BY <2>2, HeaderEmpty
  <2>4. Pending = {} BY <2>1, <2>2, FirstIs, PendingIs, EmptySeq DEF BlocksOf
  <2>5. cache = home BY <2>4, CacheIsHome
  <2>6. Durable = home BY <2>3, NoHeader, DurableIs, Types
  <2> QED BY <2>5, <2>6
<1> QED BY <1>1, LogCorrect, PTL

\* The variables of AtomicLog in this state.
Cur == IF boot = "up" THEN cache ELSE Durable
Bar == <<Cur, Durable, Running>>

\* Steps that AtomicLog does not see.
LEMMA Unseen ==
  ASSUME IInv, Durable' = Durable, boot' = boot, boot = "up" => cache' = cache,
         \A q \in Proc : pc'[q] = "op" <=> pc[q] = "op"
  PROVE  Bar' = Bar
BY DEF Bar, Cur, Running

\* A step of a call or of a commit is one of AtomicLog or none.
LEMMA CallSim ==
  ASSUME IInv, NEW p \in Proc,
         SyscallStart(p) \/ Begin(p) \/ EndOp(p) \/ Commit(p)
           \/ \E b \in Block, v \in Val : LogWrite(p, b, v)
  PROVE  Atomic!Next \/ Bar' = Bar
<1> USE DEF mem, disk
<1>1. pc \in [Proc -> Label] /\ cache \in [Block -> Val] /\ home \in [Block -> Val] BY Types
<1>2. CASE SyscallStart(p) \/ BeginSleep(p)
  <2>1. /\ UNCHANGED <<home, logblk, header, cache, boot>>
        /\ \E l \in {"begin", "asleep"} : pc' = [pc EXCEPT ![p] = l] /\ pc[p] \in {"idle", "begin"}
    BY <1>2 DEF SyscallStart, BeginSleep, Goto
  <2>2. \A q \in Proc : pc'[q] = "op" <=> pc[q] = "op" BY <1>1, <2>1
  <2>3. Durable' = Durable BY <2>1 DEF Durable
  <2> QED BY <2>1, <2>2, <2>3, Unseen
<1>3. CASE BeginOp(p)
  <2>1. /\ UNCHANGED <<home, logblk, header, cache, boot>> /\ pc[p] = "begin"
        /\ pc' = [pc EXCEPT ![p] = "op"]
    BY <1>3 DEF BeginOp, Goto
  <2>2. Running' = Running \union {p} BY <1>1, <2>1 DEF Running
  <2>3. Durable' = Durable BY <2>1 DEF Durable
  <2>4. Atomic!Begin(p) BY <2>1, <2>2, <2>3 DEF Atomic!Begin, Running
  <2> QED BY <2>4 DEF Atomic!Next
<1>4. CASE EndOp(p)
  <2>1. /\ UNCHANGED <<home, logblk, header, cache, boot>>
        /\ \E l \in {"commit", "idle"} : Goto(p, l) \/ WakeupGoto(p, l)
    BY <1>4 DEF EndOp
  <2>2. PICK l \in {"commit", "idle"} : Moves(p, l) BY <2>1, GotoMoves DEF IInv, Label
  <2>3. Running' = Running \ {p} BY <1>1, <2>2 DEF Running, Moves
  <2>4. Durable' = Durable BY <2>1 DEF Durable
  <2>5. Atomic!End(p) BY <2>1, <2>3, <2>4 DEF Atomic!End, Running
  <2> QED BY <2>5 DEF Atomic!Next
<1>5. ASSUME NEW b \in Block, NEW v \in Val, LogWrite(p, b, v) PROVE Atomic!Next
  <2>1. /\ UNCHANGED <<home, logblk, header, boot, pc>> /\ pc[p] = "op"
        /\ cache' = [cache EXCEPT ![b] = v]
    BY <1>5 DEF LogWrite
  <2>2. boot = "up" BY <2>1, Alone
  <2>3. Durable' = Durable BY <2>1 DEF Durable
  <2>4. Atomic!Write(b, v) BY <2>1, <2>2, <2>3 DEF Atomic!Write
  <2> QED BY <2>4 DEF Atomic!Next
<1>6. CASE CommitStart(p) \/ WriteLog(p)
  <2>1. /\ pc[p] \in {"commit", "write_log"} /\ UNCHANGED <<home, header, cache, boot>>
        /\ \E l \in Label \ {"op"} : pc' = [pc EXCEPT ![p] = l]
    BY <1>6 DEF CommitStart, WriteLog, Goto, Label
  <2>2. \A q \in Proc : pc'[q] = "op" <=> pc[q] = "op" BY <1>1, <2>1
  <2>3. boot = "up" /\ \A q \in Proc : pc[q] \notin {"install", "erase"}
    BY <2>1, Alone DEF Committing
  <2>4. header = <<>> BY <2>3, HeaderEmpty
  <2>5. Durable = home /\ Durable' = home BY <1>1, <2>1, <2>4, NoHeader, DurableIs
  <2> QED BY <2>1, <2>2, <2>5, Unseen
<1>7. CASE WriteHead(p)
  <2>1. /\ pc[p] = "write_head" /\ UNCHANGED <<cache, boot>> /\ pc' = [pc EXCEPT ![p] = "install"]
    BY <1>7 DEF WriteHead, Goto
  <2>2. boot = "up" /\ Running = {} BY <2>1, Alone DEF Committing
  <2>3. Running' = Running BY <1>1, <2>1 DEF Running
  <2>4. Durable' = cache BY <1>7, HeadCommits
  <2>5. Atomic!Commit BY <2>1, <2>2, <2>3, <2>4 DEF Atomic!Commit, Running
  <2> QED BY <2>5 DEF Atomic!Next
<1>8. CASE Install(p) \/ Erase(p)
  <2>1. /\ pc[p] \in {"install", "erase"} /\ boot' = boot
        /\ \E l \in Label \ {"op"} : pc' = [pc EXCEPT ![p] = l]
    BY <1>8 DEF Install, Erase, Goto, Label
  <2>2. \A q \in Proc : pc'[q] = "op" <=> pc[q] = "op" BY <1>1, <2>1
  <2>3. Durable' = Durable BY <1>8, InstallKeeps, EraseKeeps
  <2>4. cache' = cache BY <1>8, InstallWrites DEF Erase
  <2> QED BY <2>1, <2>2, <2>3, <2>4, Unseen
<1>9. CASE CommitDone(p)
  <2>1. pc[p] = "done" /\ UNCHANGED <<home, logblk, header, cache, boot>> /\ WakeupGoto(p, "idle")
    BY <1>9 DEF CommitDone
  <2>2. Moves(p, "idle") BY <2>1, GotoMoves DEF IInv, Label
  <2>3. \A q \in Proc : pc'[q] = "op" <=> pc[q] = "op" BY <2>1, <2>2 DEF Moves
  <2>4. Durable' = Durable BY <2>1 DEF Durable
  <2> QED BY <2>1, <2>3, <2>4, Unseen
<1> QED BY <1>2, <1>3, <1>4, <1>5, <1>6, <1>7, <1>8, <1>9 DEF Begin, Commit

\* A step of recovery is none of AtomicLog.
LEMMA RecoverSim ==
  ASSUME IInv, Recover
  PROVE  Bar' = Bar
<1> USE DEF mem, disk
<1>1. CASE ReadHead
  <2>1. boot # "up" /\ boot' # "up" /\ UNCHANGED <<home, logblk, header, pc>> BY <1>1 DEF ReadHead
  <2>2. Durable' = Durable BY <2>1 DEF Durable
  <2> QED BY <2>1, <2>2 DEF Bar, Cur, Running
<1>2. CASE InstallRecovering
  <2>1. boot # "up" /\ boot' # "up" /\ UNCHANGED pc BY <1>2 DEF InstallRecovering
  <2>2. Durable' = Durable BY <1>2, InstallKeeps
  <2> QED BY <2>1, <2>2 DEF Bar, Cur, Running
<1>3. CASE EraseRecovering
  <2>1. boot # "up" /\ boot' = "up" /\ UNCHANGED <<pc, cache>> BY <1>3 DEF EraseRecovering
  <2>2. Durable' = home /\ Durable = home /\ cache = home BY <1>3, EraseKeeps
  <2> QED BY <2>1, <2>2 DEF Bar, Cur, Running
<1> QED BY <1>1, <1>2, <1>3 DEF Recover

\* The log is an atomic log: a crash between any two disk writes, also in
\* recovery, leaves all of a group of ended system calls or nothing of it.
THEOREM LogAtomic == Spec => ImplementsAtomic
<1>1. Init => Atomic!Init
  <2> SUFFICES ASSUME Init PROVE Atomic!Init OBVIOUS
  <2>1. IInv BY InitIInv
  <2>2. /\ home = [b \in Block |-> InitVal] /\ header = <<>> /\ boot = "read_head"
        /\ pc = [p \in Proc |-> "idle"]
    BY DEF Init
  <2>3. Durable = home BY <2>1, <2>2, NoHeader, DurableIs, Types
  <2>4. {p \in Proc : pc[p] = "op"} = {} BY <2>2
  <2> QED BY <2>2, <2>3, <2>4 DEF Atomic!Init
<1>2. IInv /\ [Next]_vars => [Atomic!Next]_Bar
  <2> SUFFICES ASSUME IInv, [Next]_vars PROVE Atomic!Next \/ Bar' = Bar OBVIOUS
  <2>1. CASE UNCHANGED vars
    <3>1. UNCHANGED <<home, logblk, header, cache, boot, pc>> BY <2>1 DEF vars, disk, mem
    <3>2. Durable' = Durable BY <3>1 DEF Durable
    <3> QED BY <3>1, <3>2, Unseen
  <2>2. CASE \E b \in Block : Evict(b) BY <2>1, <2>2, EvictSame
  <2>3. CASE Crash
    <3>1. /\ UNCHANGED <<home, logblk, header>> /\ boot' = "read_head"
          /\ pc' = [q \in Proc |-> "idle"]
      BY <2>3 DEF Crash, disk
    <3>2. Durable' = Durable BY <3>1 DEF Durable
    <3>3. {q \in Proc : pc'[q] = "op"} = {} BY <3>1
    <3>4. Atomic!Crash BY <3>1, <3>2, <3>3 DEF Atomic!Crash
    <3> QED BY <3>4 DEF Atomic!Next
  <2> QED BY <2>1, <2>2, <2>3, CallSim, RecoverSim DEF Next
<1> QED
  BY <1>1, <1>2, LogCorrect, PTL DEF Spec, ImplementsAtomic, Atomic!Spec, Bar, Cur, Running
=============================================================================

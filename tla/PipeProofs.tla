----------------------------- MODULE PipeProofs -----------------------------
(***************************************************************************)
(* For any number of processes and any size of pipe: nobody sleeps beside  *)
(* work, and the pipe is freed only when it cannot be touched any more.    *)
(*                                                                         *)
(* The argument: a descriptor keeps its end open (the reference counts are *)
(* exact), a sleeper has its descriptor, and whoever changes the pipe      *)
(* holds pi->lock until it has told the sleepers.                          *)
(***************************************************************************)
EXTENDS Pipe, Integers, FiniteSetTheorems, SequenceTheorems, TLAPS

Pc == {"unborn", "user", "lock", "test", "body", "copy", "sleep", "close"}

TypeInv ==
  /\ k \in [Proc -> [pc : Pc, e : End, n : Nat]]
  /\ \A p \in Proc : At(p, "w", "body") => k[p].n > 0
  /\ lock \in Proc \union {NoProc} /\ open \in SUBSET End
  /\ killed \in [Proc -> BOOLEAN]
  /\ fds \in [Proc -> SUBSET End] /\ ref \in [End -> Int]

\* The processes that have a descriptor of e.
Holders(e) == {p \in Proc : e \in fds[p]}

\* ref counts them; they keep e open.
RefInv == \A e \in End :
  /\ ref[e] = Cardinality(Holders(e))
  /\ Holders(e) # {} => e \in open

\* Who is in a read or write has the descriptor; who closes an end is the last.
CallInv ==
  /\ \A p \in Proc :
       /\ k[p].pc \in {"lock", "test", "body", "copy", "sleep"} => k[p].e \in fds[p]
       /\ k[p].pc = "unborn" => fds[p] = {}
       /\ k[p].pc = "close" => k[p].e \in open /\ \A q \in Proc : k[p].e \notin fds[q]
  /\ \A p, q \in Proc : k[p].pc = "close" /\ k[q].pc = "close" /\ p # q => k[p].e # k[q].e

FreedInv == freed => open = {}

\* pi->lock, and what its holder has found out.
LockInv == \A p \in Proc :
  /\ k[p].pc \in {"test", "body", "copy"} <=> lock = p
  /\ k[p].pc = "copy" => k[p].e = "r"
  /\ At(p, "r", "body") => Empty

\* The sleepers, while somebody works on the pipe.
SleepInv == \A p \in Proc :
  /\ At(p, "r", "sleep") =>
       Empty \/ (\E q \in Proc : killed[q]) \/ (\E q \in Proc : lock = q /\ k[q].e = "w")
  /\ At(p, "r", "sleep") \/ At(p, "r", "body") => "w" \in open
  /\ At(p, "w", "sleep") => Full \/ (\E q \in Proc : lock = q /\ At(q, "r", "copy"))
  /\ At(p, "w", "sleep") \/ At(p, "w", "body") => "r" \in open

\* The number of bytes in the pipe.
Filled == (nwrite + Wrap - nread) % Wrap

\* The ring buffer and its counters.
RingInv ==
  /\ data \in [0 .. PipeSize - 1 -> Val] /\ out \in Val /\ freed \in BOOLEAN
  /\ nread \in 0 .. Wrap - 1 /\ nwrite \in 0 .. Wrap - 1
  /\ Filled <= PipeSize

Inv == TypeInv /\ RefInv /\ CallInv /\ FreedInv /\ LockInv /\ SleepInv /\ RingInv

\* The types of the initial states.
LEMMA TypeInit == Init => TypeInv
BY PipeAssumption DEF Init, TypeInv, Outside, At, Pc, End

\* Every step keeps the types.
LEMMA TypeStep ==
  ASSUME TypeInv, [Next]_vars
  PROVE  TypeInv'
<1> USE DEF TypeInv, At, Pc, End
<1>1. CASE UNCHANGED vars
  BY <1>1 DEF vars, pipe, file
<1>2. ASSUME NEW p \in Proc, Acquire(p) PROVE TypeInv'
  BY <1>2 DEF Acquire, Go, pipe, file
<1>9. ASSUME NEW p \in Proc, Kill(p) PROVE TypeInv'
  <2>1. CASE k[p].pc = "sleep"
    BY <1>9, <2>1 DEF Kill, Go, pipe, file
  <2>2. CASE k[p].pc # "sleep"
    BY <1>9, <2>2 DEF Kill, pipe, file
  <2> QED
    BY <2>1, <2>2
<1>8. ASSUME NEW p \in Proc, PipeClose(p) PROVE TypeInv'
  BY <1>8 DEF PipeClose, Wakeup, At, Outside, file
<1>3. ASSUME NEW p \in Proc, Write(p) PROVE TypeInv'
  <2>1. CASE WriteDone(p)
    BY <2>1, PipeAssumption DEF WriteDone, Return, Wakeup, Outside, pipe, file
  <2>2. CASE WriteRefused(p)
    BY <2>2, PipeAssumption DEF WriteRefused, Outside, pipe, file
  <2>3. CASE WriteTest(p)
    BY <2>3 DEF WriteTest, Go, pipe, file
  <2>4. CASE WriteFull(p)
    BY <2>4, PipeAssumption DEF WriteFull, Wakeup, pipe, file
  <2>5. CASE WriteFault(p)
    BY <2>5, PipeAssumption DEF WriteFault, Return, Wakeup, Outside, pipe, file
  <2>6. ASSUME NEW v \in Val, WriteByte(p, v) PROVE TypeInv'
    <3>1. k[p].n > 0 /\ k[p] \in [pc : Pc, e : End, n : Nat]
      BY <2>6 DEF WriteByte
    <3>n. k[p].n - 1 \in Nat
      BY <3>1
    <3>2. [k[p] EXCEPT !.pc = "test", !.n = k[p].n - 1] \in [pc : Pc, e : End, n : Nat]
      BY <3>1, <3>n
    <3>3. k' = [k EXCEPT ![p] = [k[p] EXCEPT !.pc = "test", !.n = k[p].n - 1]]
      BY <2>6 DEF WriteByte
    <3>4. k' \in [Proc -> [pc : Pc, e : End, n : Nat]]
      BY <3>2, <3>3
    <3>5. k'[p].pc = "test" /\ \A q \in Proc : q # p => k'[q] = k[q]
      BY <3>1, <3>3
    <3> QED
      BY <2>6, <3>4, <3>5 DEF WriteByte, file
  <2> QED
    BY <1>3, <2>1, <2>2, <2>3, <2>4, <2>5, <2>6 DEF Write
<1>4. ASSUME NEW p \in Proc, Read(p) PROVE TypeInv'
  <2>1. CASE ReadKilled(p)
    BY <2>1, PipeAssumption DEF ReadKilled, Outside, pipe, file
  <2>2. CASE ReadTest(p)
    BY <2>2 DEF ReadTest, Go, pipe, file
  <2>3. CASE ReadSleep(p)
    BY <2>3, PipeAssumption DEF ReadSleep, Go, pipe, file
  <2>4. CASE ReadByte(p)
    BY <2>4 DEF ReadByte, file
  <2>5. CASE ReadFault(p)
    BY <2>5, PipeAssumption DEF ReadFault, Return, Wakeup, Outside, file
  <2>6. CASE ReadDone(p)
    BY <2>6, PipeAssumption DEF ReadDone, Return, Wakeup, Outside, pipe, file
  <2> QED
    BY <1>4, <2>1, <2>2, <2>3, <2>4, <2>5, <2>6 DEF Read
<1>5. ASSUME NEW p \in Proc, NEW e \in End, FileClose(p, e) PROVE TypeInv'
  BY <1>5 DEF FileClose, Outside, pipe
<1>6. ASSUME NEW p \in Proc, NEW e \in End, NEW n \in Lens, Call(p, e, n) PROVE TypeInv'
  BY <1>6, PipeAssumption DEF Call, pipe, file
<1>7. ASSUME NEW p \in Proc, NEW q \in Proc, Fork(p, q) PROVE TypeInv'
  BY <1>7 DEF Fork, Go, pipe
<1> QED
  BY <1>1, <1>2, <1>3, <1>4, <1>5, <1>6, <1>7, <1>8, <1>9 DEF Next

-----------------------------------------------------------------------------
(* Descriptors *)

FileInv == RefInv /\ CallInv /\ FreedInv

\* One descriptor of each end.
LEMMA FileInit == Init => FileInv
<1> SUFFICES ASSUME Init PROVE FileInv
  OBVIOUS
<1>1. ASSUME NEW e \in End PROVE ref[e] = Cardinality(Holders(e)) /\ e \in open
  <2>1. Holders(e) = {Shell}
    BY <1>1, PipeAssumption DEF Init, Holders
  <2> QED
    BY <2>1, FS_Singleton DEF Init
<1> QED
  BY <1>1 DEF Init, FileInv, RefInv, CallInv, FreedInv, Outside

\* A step of p, in a read or write, that opens and closes nothing.
Quiet(p) ==
  /\ UNCHANGED <<fds, ref, open, freed>>
  /\ k[p].pc \notin {"unborn", "close"} /\ k'[p].pc \notin {"unborn", "close"}
  /\ k'[p].pc \in {"lock", "test", "body", "copy", "sleep"} => k'[p].e \in fds[p]
  /\ \A q \in Proc : q # p =>
       /\ k'[q].e = k[q].e
       /\ k'[q].pc = k[q].pc \/ (k[q].pc = "sleep" /\ k'[q].pc = "lock")

\* Such a step disturbs no descriptor.
LEMMA QuietKeepsFiles ==
  ASSUME TypeInv, FileInv, NEW p \in Proc, Quiet(p)
  PROVE  FileInv'
<1> USE DEF Quiet
<1>1. \A e \in End : Holders(e)' = Holders(e)
  BY DEF Holders
<1>2. RefInv' /\ FreedInv'
  BY <1>1 DEF FileInv, RefInv, FreedInv
<1>3. CallInv'
  BY <1>1 DEF FileInv, CallInv, TypeInv, Pc, End
<1> QED
  BY <1>2, <1>3 DEF FileInv

\* Every step keeps the counts exact and the ends of callers open.
LEMMA FileStep ==
  ASSUME TypeInv, TypeInv', FileInv, [Next]_vars
  PROVE  FileInv'
<1> USE DEF End
<1>1. CASE UNCHANGED vars
  BY <1>1 DEF vars, pipe, file, FileInv, RefInv, CallInv, FreedInv, Holders
<1>2. ASSUME NEW p \in Proc, Acquire(p) PROVE FileInv'
  <2>1. Quiet(p)
    BY <1>2 DEF Acquire, Go, Quiet, TypeInv, FileInv, CallInv, pipe, file
  <2> QED
    BY <2>1, QuietKeepsFiles
<1>3. ASSUME NEW p \in Proc, Kill(p) PROVE FileInv'
  <2>1. CASE k[p].pc = "sleep"
    <3>1. Quiet(p)
      BY <1>3, <2>1 DEF Kill, Go, Quiet, TypeInv, FileInv, CallInv, pipe, file
    <3> QED
      BY <3>1, QuietKeepsFiles
  <2>2. CASE k[p].pc # "sleep"
    BY <1>3, <2>2 DEF Kill, pipe, file, FileInv, RefInv, CallInv, FreedInv, Holders
  <2> QED
    BY <2>1, <2>2
<1>4. ASSUME NEW p \in Proc, Write(p) PROVE FileInv'
  <2> SUFFICES Quiet(p)
    BY QuietKeepsFiles
  <2>1. CASE WriteDone(p)
    BY <2>1 DEF WriteDone, Return, Wakeup, Outside, At, Quiet, TypeInv, FileInv, CallInv, pipe, file
  <2>2. CASE WriteRefused(p)
    BY <2>2 DEF WriteRefused, Outside, At, Quiet, TypeInv, FileInv, CallInv, pipe, file
  <2>3. CASE WriteTest(p)
    BY <2>3 DEF WriteTest, Go, At, Quiet, TypeInv, FileInv, CallInv, pipe, file
  <2>4. CASE WriteFull(p)
    BY <2>4 DEF WriteFull, Wakeup, At, Quiet, TypeInv, FileInv, CallInv, pipe, file
  <2>5. CASE WriteFault(p)
    BY <2>5 DEF WriteFault, Return, Wakeup, Outside, At, Quiet, TypeInv, FileInv, CallInv, pipe, file
  <2>6. ASSUME NEW v \in Val, WriteByte(p, v) PROVE Quiet(p)
    BY <2>6 DEF WriteByte, At, Quiet, TypeInv, FileInv, CallInv, file
  <2> QED
    BY <1>4, <2>1, <2>2, <2>3, <2>4, <2>5, <2>6 DEF Write
<1>5. ASSUME NEW p \in Proc, Read(p) PROVE FileInv'
  <2> SUFFICES Quiet(p)
    BY QuietKeepsFiles
  <2>1. CASE ReadKilled(p)
    BY <2>1 DEF ReadKilled, Outside, At, Quiet, TypeInv, FileInv, CallInv, pipe, file
  <2>2. CASE ReadTest(p)
    BY <2>2 DEF ReadTest, Go, At, Quiet, TypeInv, FileInv, CallInv, pipe, file
  <2>3. CASE ReadSleep(p)
    BY <2>3 DEF ReadSleep, Go, At, Quiet, TypeInv, FileInv, CallInv, pipe, file
  <2>4. CASE ReadByte(p)
    BY <2>4 DEF ReadByte, At, Quiet, TypeInv, FileInv, CallInv, pipe, file
  <2>5. CASE ReadFault(p)
    BY <2>5 DEF ReadFault, Return, Wakeup, Outside, At, Quiet, TypeInv, FileInv, CallInv, pipe, file
  <2>6. CASE ReadDone(p)
    BY <2>6 DEF ReadDone, Return, Wakeup, Outside, At, Quiet, TypeInv, FileInv, CallInv, pipe, file
  <2> QED
    BY <1>5, <2>1, <2>2, <2>3, <2>4, <2>5, <2>6 DEF Read
<1>6. ASSUME NEW p \in Proc, NEW e \in End, NEW n \in Lens, Call(p, e, n) PROVE FileInv'
  <2>1. Quiet(p)
    BY <1>6 DEF Call, Quiet, TypeInv, pipe, file
  <2> QED
    BY <2>1, QuietKeepsFiles
<1>7. ASSUME NEW p \in Proc, NEW e \in End, FileClose(p, e) PROVE FileInv'
  <2>1. p \in Holders(e) /\ IsFiniteSet(Holders(e))
    BY <1>7, PipeAssumption, FS_Subset DEF FileClose, Holders
  <2>2. Holders(e)' = Holders(e) \ {p} /\ \A f \in End \ {e} : Holders(f)' = Holders(f)
    BY <1>7 DEF FileClose, Holders, TypeInv
  <2>3. Cardinality(Holders(e)') = Cardinality(Holders(e)) - 1
    BY <2>1, <2>2, FS_RemoveElement
  <2>4. RefInv'
    BY <1>7, <2>1, <2>2, <2>3 DEF FileClose, RefInv, FileInv, TypeInv, pipe
  <2>5. CASE ref[e] = 1
    <3>1. Holders(e)' = {}
      BY <2>1, <2>2, <2>3, <2>5, FS_Subset, FS_EmptySet DEF RefInv, FileInv
    <3>2. e \in open /\ \A q \in Proc : k[q].pc = "close" => k[q].e # e
      BY <1>7, <2>1 DEF FileClose, RefInv, CallInv, FileInv
    <3>3. k'[p].pc = "close" /\ k'[p].e = e /\ \A q \in Proc \ {p} : k'[q] = k[q]
      BY <1>7, <2>5 DEF FileClose, TypeInv, Outside
    <3>4. \A q \in Proc \ {p} : fds'[q] = fds[q]
      BY <1>7 DEF FileClose, TypeInv
    <3>5. fds'[p] = fds[p] \ {e} /\ open' = open /\ k[p].pc = "user"
      BY <1>7 DEF FileClose, TypeInv, pipe
    <3>6. CallInv'
      BY <3>1, <3>2, <3>3, <3>4, <3>5 DEF FileInv, CallInv, Holders
    <3> QED
      BY <1>7, <2>4, <3>6 DEF FileClose, FileInv, FreedInv, pipe
  <2>6. CASE ref[e] # 1
    BY <1>7, <2>1, <2>2, <2>4, <2>6 DEF FileClose, FileInv, CallInv, FreedInv, TypeInv, pipe
  <2> QED
    BY <2>5, <2>6
<1>8. ASSUME NEW p \in Proc, PipeClose(p) PROVE FileInv'
  <2>1. \A e \in End : Holders(e)' = Holders(e)
    BY <1>8 DEF PipeClose, Holders, file
  <2>2. RefInv'
    <3>1. open' = open \ {k[p].e} /\ ref' = ref
      BY <1>8 DEF PipeClose, file
    <3>2. Holders(k[p].e) = {}
      BY <1>8 DEF PipeClose, FileInv, CallInv, Holders
    <3> QED
      BY <2>1, <3>1, <3>2 DEF FileInv, RefInv
  <2>3. CallInv'
    <3>1. k'[p].pc = "user" /\ open' = open \ {k[p].e} /\ fds' = fds
      BY <1>8 DEF PipeClose, Wakeup, Outside, TypeInv, file
    <3>2. \A q \in Proc \ {p} :
            /\ k'[q].e = k[q].e
            /\ k'[q].pc = k[q].pc \/ (k[q].pc = "sleep" /\ k'[q].pc = "lock")
      BY <1>8 DEF PipeClose, Wakeup, At, TypeInv
    <3>3. k[p].pc = "close"
      BY <1>8 DEF PipeClose
    <3>5. \A q \in Proc : k'[q].pc = "close" =>
            /\ q # p /\ k[q].pc = "close" /\ k'[q].e = k[q].e
            /\ k[q].e # k[p].e /\ k[q].e \in open /\ \A r \in Proc : k[q].e \notin fds[r]
      BY <3>1, <3>2, <3>3 DEF FileInv, CallInv
    <3>6. \A q, r \in Proc : k'[q].pc = "close" /\ k'[r].pc = "close" /\ q # r => k'[q].e # k'[r].e
      BY <3>5 DEF FileInv, CallInv
    <3>7. \A q \in Proc :
            /\ k'[q].pc \in {"lock", "test", "body", "copy", "sleep"} => k'[q].e \in fds'[q]
            /\ k'[q].pc = "unborn" => fds'[q] = {}
      BY <3>1, <3>2 DEF FileInv, CallInv
    <3>8. \A q \in Proc : k'[q].pc = "close" => k'[q].e \in open' /\ \A r \in Proc : k'[q].e \notin fds'[r]
      BY <3>1, <3>5
    <3> QED
      BY <3>6, <3>7, <3>8 DEF CallInv
  <2> QED
    BY <1>8, <2>2, <2>3 DEF PipeClose, FileInv, FreedInv
<1>9. ASSUME NEW p \in Proc, NEW q \in Proc, Fork(p, q) PROVE FileInv'
  <2>1. p # q /\ fds[q] = {}
    BY <1>9 DEF Fork, FileInv, CallInv
  <2>2. ASSUME NEW e \in End PROVE ref'[e] = Cardinality(Holders(e)') /\ (Holders(e)' # {} => Holders(e) # {})
    <3>1. IsFiniteSet(Holders(e)) /\ q \notin Holders(e)
      BY <2>1, PipeAssumption, FS_Subset DEF Holders
    <3>2. Holders(e)' = IF e \in fds[p] THEN Holders(e) \union {q} ELSE Holders(e)
      BY <1>9, <2>1 DEF Fork, Holders, TypeInv
    <3>3. ref'[e] = ref[e] + (IF e \in fds[p] THEN 1 ELSE 0) /\ ref[e] = Cardinality(Holders(e))
      BY <1>9 DEF Fork, FileInv, RefInv, TypeInv
    <3>4. Cardinality(Holders(e) \union {q}) = Cardinality(Holders(e)) + 1
      BY <3>1, FS_AddElement
    <3>5. e \in fds[p] => Holders(e) # {}
      BY DEF Holders
    <3>6. Cardinality(Holders(e)) \in Nat
      BY <3>1, FS_CardinalityType
    <3> QED
      BY <3>2, <3>3, <3>4, <3>5, <3>6
  <2>3. RefInv'
    BY <1>9, <2>2 DEF Fork, FileInv, RefInv, pipe
  <2>4. CallInv'
    <3>1. /\ k'[q].pc = "user" /\ \A r \in Proc \ {q} : k'[r] = k[r]
          /\ fds'[q] = fds[p] /\ \A r \in Proc \ {q} : fds'[r] = fds[r]
          /\ open' = open
      BY <1>9 DEF Fork, Go, TypeInv, pipe
    <3> QED
      BY <3>1 DEF FileInv, CallInv
  <2> QED
    BY <1>9, <2>3, <2>4 DEF Fork, FileInv, FreedInv, pipe
<1> QED
  BY <1>1, <1>2, <1>3, <1>4, <1>5, <1>6, <1>7, <1>8, <1>9 DEF Next

-----------------------------------------------------------------------------
(* pi->lock and the sleepers *)

\* Nobody holds the lock or sleeps.
LEMMA WakeInit == Init => LockInv /\ SleepInv
BY PipeAssumption DEF Init, LockInv, SleepInv, At, Outside

\* Every step keeps what the holder of pi->lock knows.
LEMMA LockStep ==
  ASSUME TypeInv, TypeInv', LockInv, [Next]_vars
  PROVE  LockInv'
<1> USE DEF TypeInv, LockInv, At, End
<1>1. CASE UNCHANGED vars
  BY <1>1 DEF vars, pipe, Empty
<1>2. ASSUME NEW p \in Proc, Acquire(p) PROVE LockInv'
  BY <1>2, PipeAssumption DEF Acquire, Go, pipe, Empty
<1>3. ASSUME NEW p \in Proc, Kill(p) PROVE LockInv'
  BY <1>3 DEF Kill, Go, pipe, Empty
<1>4. ASSUME NEW p \in Proc, Write(p) PROVE LockInv'
  <2>1. CASE WriteDone(p)
    BY <2>1, PipeAssumption DEF WriteDone, Return, Wakeup, Outside, pipe, Empty
  <2>2. CASE WriteRefused(p)
    BY <2>2, PipeAssumption DEF WriteRefused, Outside, pipe, Empty
  <2>3. CASE WriteTest(p)
    BY <2>3 DEF WriteTest, Go, pipe, Empty
  <2>4. CASE WriteFull(p)
    BY <2>4, PipeAssumption DEF WriteFull, Wakeup, pipe, Empty
  <2>5. CASE WriteFault(p)
    BY <2>5, PipeAssumption DEF WriteFault, Return, Wakeup, Outside, pipe, Empty
  <2>6. ASSUME NEW v \in Val, WriteByte(p, v) PROVE LockInv'
    BY <2>6 DEF WriteByte, Empty
  <2> QED
    BY <1>4, <2>1, <2>2, <2>3, <2>4, <2>5, <2>6 DEF Write
<1>5. ASSUME NEW p \in Proc, Read(p) PROVE LockInv'
  <2>1. CASE ReadKilled(p)
    BY <2>1, PipeAssumption DEF ReadKilled, Outside, pipe, Empty
  <2>2. CASE ReadTest(p)
    BY <2>2 DEF ReadTest, Go, pipe, Empty
  <2>3. CASE ReadSleep(p)
    BY <2>3, PipeAssumption DEF ReadSleep, Go, pipe, Empty
  <2>4. CASE ReadByte(p)
    BY <2>4 DEF ReadByte, Empty
  <2>5. CASE ReadFault(p)
    BY <2>5, PipeAssumption DEF ReadFault, Return, Wakeup, Outside, Empty
  <2>6. CASE ReadDone(p)
    BY <2>6, PipeAssumption DEF ReadDone, Return, Wakeup, Outside, pipe, Empty
  <2> QED
    BY <1>5, <2>1, <2>2, <2>3, <2>4, <2>5, <2>6 DEF Read
<1>6. ASSUME NEW p \in Proc, NEW e \in End, NEW n \in Lens, Call(p, e, n) PROVE LockInv'
  BY <1>6 DEF Call, pipe, Empty
<1>7. ASSUME NEW p \in Proc, NEW e \in End, FileClose(p, e) PROVE LockInv'
  BY <1>7 DEF FileClose, Outside, pipe, Empty
<1>8. ASSUME NEW p \in Proc, PipeClose(p) PROVE LockInv'
  BY <1>8, PipeAssumption DEF PipeClose, Wakeup, Outside, Empty
<1>9. ASSUME NEW p \in Proc, NEW q \in Proc, Fork(p, q) PROVE LockInv'
  BY <1>9 DEF Fork, Go, pipe, Empty
<1> QED
  BY <1>1, <1>2, <1>3, <1>4, <1>5, <1>6, <1>7, <1>8, <1>9 DEF Next

\* Whoever makes work for a sleeper wakes it before it releases pi->lock.
LEMMA SleepStep ==
  ASSUME TypeInv, TypeInv', FileInv, LockInv, LockInv', SleepInv, [Next]_vars
  PROVE  SleepInv'
<1> USE DEF TypeInv, SleepInv, At, End
<1>1. CASE UNCHANGED vars
  BY <1>1 DEF vars, pipe, Empty, Full
<1>2. ASSUME NEW p \in Proc, Acquire(p) PROVE SleepInv'
  BY <1>2, PipeAssumption DEF Acquire, Go, pipe, Empty, Full
<1>3. ASSUME NEW p \in Proc, Kill(p) PROVE SleepInv'
  BY <1>3 DEF Kill, Go, pipe, Empty, Full, LockInv
<1>4. ASSUME NEW p \in Proc, Write(p) PROVE SleepInv'
  <2>1. CASE WriteDone(p)
    BY <2>1 DEF WriteDone, Return, Wakeup, Outside, pipe, Full, LockInv
  <2>2. CASE WriteRefused(p)
    BY <2>2 DEF WriteRefused, Outside, pipe, Empty, Full, LockInv, FileInv, CallInv, RefInv, Holders
  <2>3. CASE WriteTest(p)
    BY <2>3 DEF WriteTest, Go, pipe, Empty, Full
  <2>4. CASE WriteFull(p)
    BY <2>4 DEF WriteFull, Wakeup, pipe, Full, LockInv
  <2>5. CASE WriteFault(p)
    BY <2>5 DEF WriteFault, Return, Wakeup, Outside, pipe, Full, LockInv
  <2>6. ASSUME NEW v \in Val, WriteByte(p, v) PROVE SleepInv'
    BY <2>6 DEF WriteByte, LockInv
  <2> QED
    BY <1>4, <2>1, <2>2, <2>3, <2>4, <2>5, <2>6 DEF Write
<1>5. ASSUME NEW p \in Proc, Read(p) PROVE SleepInv'
  <2>1. CASE ReadKilled(p)
    BY <2>1 DEF ReadKilled, Outside, pipe, Empty, Full, LockInv
  <2>2. CASE ReadTest(p)
    BY <2>2 DEF ReadTest, Go, pipe, Empty, Full
  <2>3. CASE ReadSleep(p)
    BY <2>3 DEF ReadSleep, Go, pipe, Empty, Full, LockInv
  <2>4. CASE ReadByte(p)
    BY <2>4 DEF ReadByte, LockInv, Empty
  <2>5. CASE ReadFault(p)
    BY <2>5 DEF ReadFault, Return, Wakeup, Outside, Empty, LockInv
  <2>6. CASE ReadDone(p)
    BY <2>6 DEF ReadDone, Return, Wakeup, Outside, pipe, Empty, LockInv
  <2> QED
    BY <1>5, <2>1, <2>2, <2>3, <2>4, <2>5, <2>6 DEF Read
<1>6. ASSUME NEW p \in Proc, NEW e \in End, NEW n \in Lens, Call(p, e, n) PROVE SleepInv'
  BY <1>6 DEF Call, pipe, Empty, Full, LockInv
<1>7. ASSUME NEW p \in Proc, NEW e \in End, FileClose(p, e) PROVE SleepInv'
  BY <1>7 DEF FileClose, Outside, pipe, Empty, Full, LockInv
<1>8. ASSUME NEW p \in Proc, PipeClose(p) PROVE SleepInv'
  BY <1>8, PipeAssumption DEF PipeClose, Wakeup, Outside, Empty, Full, LockInv
<1>9. ASSUME NEW p \in Proc, NEW q \in Proc, Fork(p, q) PROVE SleepInv'
  BY <1>9 DEF Fork, Go, pipe, Empty, Full, LockInv
<1> QED
  BY <1>1, <1>2, <1>3, <1>4, <1>5, <1>6, <1>7, <1>8, <1>9 DEF Next

-----------------------------------------------------------------------------
(* The ring buffer *)

\* Numbers below the modulus, and one turn above it.
LEMMA ModOne ==
  \A m, a \in Int : m > 0 =>
    /\ 0 <= a /\ a < m => a % m = a
    /\ m <= a /\ a < 2 * m => a % m = a - m
    /\ a % m \in 0 .. m - 1
BY SMT

\* A number is a multiple of the modulus and its remainder.
LEMMA ModDiv == \A m, a \in Int : m > 0 => \E q \in Int : a = m * q + (a % m)
BY SMT

\* The remainder is the only such number below the modulus.
LEMMA ModSum ==
  \A m, a, x, z \in Int : m > 0 /\ a = m * x + z /\ 0 <= z /\ z < m => a % m = z
BY SMT

\* Multiples of the modulus are not close to each other.
LEMMA MultiplesApart ==
  \A m, a, b, x, y, z \in Int :
     m > 0 /\ a <= b /\ b < a + m /\ a = m * x + z /\ b = m * y + z => a = b
BY SMT

\* Numbers less than the modulus apart have different remainders.
LEMMA ModEqual ==
  \A m, a, b \in Int : m > 0 /\ a <= b /\ b < a + m /\ a % m = b % m => a = b
<1> SUFFICES ASSUME NEW m \in Int, m > 0, NEW a \in Int, NEW b \in Int,
                    a <= b, b < a + m, a % m = b % m
             PROVE  a = b
  OBVIOUS
<1>1. PICK x \in Int : a = m * x + (a % m)
  BY ModDiv
<1>2. PICK y \in Int : b = m * y + (b % m)
  BY ModDiv
<1>3. a % m \in Int
  OBVIOUS
<1> DEFINE z == a % m
<1>4. z \in Int /\ a = m * x + z /\ b = m * y + z
  BY <1>1, <1>2, <1>3
<1> HIDE DEF z
<1> QED
  BY <1>4, MultiplesApart

\* The wrap of the counters keeps the place in the buffer: PIPESIZE divides 2^32.
LEMMA WrapKeepsPlace ==
  ASSUME NEW a \in Nat
  PROVE  (a + Wrap) % PipeSize = a % PipeSize
<1>1. PipeSize \in Int /\ PipeSize > 0 /\ Wrap \in Int /\ Wrap % PipeSize = 0 /\ a \in Int
  BY PipeAssumption
<1>2. PICK u \in Int : Wrap = PipeSize * u + (Wrap % PipeSize)
  BY <1>1, ModDiv
<1>3. PICK x \in Int : a = PipeSize * x + (a % PipeSize)
  BY <1>1, ModDiv
<1> DEFINE z == a % PipeSize
<1>4. z \in Int /\ 0 <= z /\ z < PipeSize
  BY <1>1, ModOne
<1>5. a = PipeSize * x + z /\ Wrap = PipeSize * u
  BY <1>1, <1>2, <1>3
<1> HIDE DEF z
<1>6. a + Wrap = PipeSize * (x + u) + z
  BY <1>1, <1>4, <1>5
<1>7. a + Wrap \in Int /\ x + u \in Int
  BY <1>1
<1>8. (a + Wrap) % PipeSize = z
  BY <1>1, <1>4, <1>6, <1>7, ModSum
<1> QED
  BY <1>8 DEF z

\* The counters are apart by the number of bytes, across the wrap.
LEMMA FilledIs ==
  ASSUME RingInv
  PROVE  /\ Filled \in 0 .. Wrap - 1 /\ Filled \in 0 .. PipeSize
         /\ nread <= nwrite => Filled = nwrite - nread
         /\ nwrite < nread => Filled = nwrite + Wrap - nread
         /\ Empty <=> Filled = 0
         /\ Full <=> Filled = PipeSize
<1>1. /\ PipeSize \in Nat /\ PipeSize > 0 /\ Wrap \in Nat /\ PipeSize < Wrap
      /\ nread \in 0 .. Wrap - 1 /\ nwrite \in 0 .. Wrap - 1 /\ Filled <= PipeSize
  BY PipeAssumption DEF RingInv
<1>2. nwrite + Wrap - nread \in Int
  BY <1>1
<1>3. nread <= nwrite => Filled = nwrite - nread
  BY <1>1, <1>2, ModOne DEF Filled
<1>4. nwrite < nread => Filled = nwrite + Wrap - nread
  BY <1>1, <1>2, ModOne DEF Filled
<1>5. Empty <=> Filled = 0
  BY <1>1, <1>3, <1>4 DEF Empty
<1>6. /\ nread + PipeSize < Wrap => (nread + PipeSize) % Wrap = nread + PipeSize
      /\ nread + PipeSize >= Wrap => (nread + PipeSize) % Wrap = nread + PipeSize - Wrap
  BY <1>1, ModOne
<1>7. Full <=> Filled = PipeSize
  BY <1>1, <1>3, <1>4, <1>6 DEF Full
<1> QED
  BY <1>1, <1>3, <1>4, <1>5, <1>7

\* A byte more.
LEMMA PutCounts ==
  ASSUME RingInv, ~Full, nwrite' = (nwrite + 1) % Wrap, nread' = nread
  PROVE  Filled < PipeSize /\ nwrite' \in 0 .. Wrap - 1 /\ Filled' = Filled + 1
<1>1. /\ PipeSize \in Nat /\ Wrap \in Nat /\ PipeSize < Wrap
      /\ nread \in 0 .. Wrap - 1 /\ nwrite \in 0 .. Wrap - 1
  BY PipeAssumption DEF RingInv
<1>2. Filled < PipeSize
  BY <1>1, FilledIs
<1>3. /\ nwrite + 1 < Wrap => nwrite' = nwrite + 1
      /\ nwrite + 1 = Wrap => nwrite' = 0
  BY <1>1, ModOne
<1>4. nwrite' + Wrap - nread \in Int /\ Filled' = (nwrite' + Wrap - nread) % Wrap
  BY <1>1, <1>3 DEF Filled
<1>5. Filled' = Filled + 1
  BY <1>1, <1>2, <1>3, <1>4, FilledIs, ModOne
<1> QED
  BY <1>1, <1>2, <1>3, <1>5

\* A byte less.
LEMMA TakeCounts ==
  ASSUME RingInv, ~Empty, nread' = (nread + 1) % Wrap, nwrite' = nwrite
  PROVE  Filled > 0 /\ nread' \in 0 .. Wrap - 1 /\ Filled' = Filled - 1
<1>1. /\ PipeSize \in Nat /\ Wrap \in Nat /\ PipeSize < Wrap
      /\ nread \in 0 .. Wrap - 1 /\ nwrite \in 0 .. Wrap - 1
  BY PipeAssumption DEF RingInv
<1>2. Filled > 0
  BY <1>1, FilledIs
<1>3. /\ nread + 1 < Wrap => nread' = nread + 1
      /\ nread + 1 = Wrap => nread' = 0
  BY <1>1, ModOne
<1>4. nwrite + Wrap - nread' \in Int /\ Filled' = (nwrite + Wrap - nread') % Wrap
  BY <1>1, <1>3 DEF Filled
<1>5. Filled' = Filled - 1
  BY <1>1, <1>2, <1>3, <1>4, FilledIs, ModOne
<1> QED
  BY <1>1, <1>2, <1>3, <1>5

\* Every step keeps the ring: only WriteByte, ReadByte and ReadFault touch it.
LEMMA RingStep ==
  ASSUME RingInv, [Next]_vars
  PROVE  RingInv'
<1>0. /\ data \in [0 .. PipeSize - 1 -> Val] /\ out \in Val /\ freed \in BOOLEAN
      /\ nread \in 0 .. Wrap - 1 /\ nwrite \in 0 .. Wrap - 1 /\ Filled <= PipeSize
      /\ Filled \in Nat /\ PipeSize \in Nat /\ PipeSize > 0
  BY FilledIs, PipeAssumption DEF RingInv
<1>1. ASSUME UNCHANGED <<data, nread, nwrite, out>>, freed' \in BOOLEAN PROVE RingInv'
  BY <1>1 DEF RingInv, Filled
<1>2. CASE UNCHANGED vars
  BY <1>0, <1>1, <1>2 DEF vars, pipe
<1>3. ASSUME NEW p \in Proc, \/ Acquire(p) \/ Kill(p) \/ \E q \in Proc : Fork(p, q)
                             \/ \E e \in End : FileClose(p, e) \/ \E n \in Lens : Call(p, e, n)
      PROVE  RingInv'
  BY <1>0, <1>1, <1>3 DEF Acquire, Kill, Fork, FileClose, Call, pipe
<1>4. ASSUME NEW p \in Proc, PipeClose(p) PROVE RingInv'
  BY <1>1, <1>4 DEF PipeClose
<1>5. ASSUME NEW p \in Proc, Write(p) PROVE RingInv'
  <2>1. CASE WriteDone(p) \/ WriteRefused(p) \/ WriteTest(p) \/ WriteFull(p) \/ WriteFault(p)
    BY <1>0, <1>1, <2>1 DEF WriteDone, WriteRefused, WriteTest, WriteFull, WriteFault, pipe
  <2>2. ASSUME NEW v \in Val, WriteByte(p, v) PROVE RingInv'
    <3>1. /\ data' = [data EXCEPT ![nwrite % PipeSize] = v] /\ ~Full
          /\ nwrite' = (nwrite + 1) % Wrap /\ UNCHANGED <<nread, out, freed>>
      BY <2>2 DEF WriteByte
    <3>2. Filled < PipeSize /\ nwrite' \in 0 .. Wrap - 1 /\ Filled' = Filled + 1
      BY <3>1, PutCounts
    <3>3. data' \in [0 .. PipeSize - 1 -> Val]
      BY <1>0, <3>1
    <3>4. Filled' <= PipeSize
      BY <1>0, <3>2
    <3> QED
      BY <1>0, <3>1, <3>2, <3>3, <3>4 DEF RingInv
  <2> QED
    BY <1>5, <2>1, <2>2 DEF Write
<1>6. ASSUME NEW p \in Proc, Read(p) PROVE RingInv'
  <2>1. CASE ReadKilled(p) \/ ReadTest(p) \/ ReadSleep(p) \/ ReadDone(p)
    BY <1>0, <1>1, <2>1 DEF ReadKilled, ReadTest, ReadSleep, ReadDone, pipe
  <2>2. ASSUME nread' = (nread + 1) % Wrap, ~Empty, UNCHANGED <<data, nwrite, freed>>, out' \in Val
        PROVE  RingInv'
    <3>1. nread' \in 0 .. Wrap - 1 /\ Filled' = Filled - 1
      BY <2>2, TakeCounts
    <3>2. Filled' <= PipeSize
      BY <1>0, <3>1
    <3> QED
      BY <1>0, <2>2, <3>1, <3>2 DEF RingInv
  <2>3. CASE ReadByte(p)
    <3>1. nread % PipeSize \in 0 .. PipeSize - 1
      BY <1>0, ModOne
    <3>2. data[nread % PipeSize] \in Val
      BY <1>0, <3>1
    <3> QED
      BY <1>0, <2>2, <2>3, <3>2 DEF ReadByte
  <2>4. CASE ReadFault(p)
    BY <1>0, <2>2, <2>4 DEF ReadFault
  <2> QED
    BY <1>6, <2>1, <2>2, <2>3, <2>4 DEF Read
<1> QED
  BY <1>2, <1>3, <1>4, <1>5, <1>6 DEF Next

\* The pipe is empty.
LEMMA RingInit == Init => RingInv
<1> SUFFICES ASSUME Init PROVE RingInv
  OBVIOUS
<1>1. PipeSize \in Nat /\ PipeSize > 0 /\ Wrap \in Nat /\ PipeSize < Wrap
  BY PipeAssumption
<1>2. nread = 0 /\ nwrite = 0 /\ freed = FALSE
  BY DEF Init
<1>3. \E v \in Val : TRUE
  BY PipeAssumption
<1>4. (CHOOSE v \in Val : TRUE) \in Val
  BY <1>3
<1> DEFINE first == CHOOSE v \in Val : TRUE
<1>5. data = [i \in 0 .. PipeSize - 1 |-> first] /\ out = data[0]
  BY DEF Init
<1> HIDE DEF first
<1>6. data \in [0 .. PipeSize - 1 -> Val] /\ out \in Val
  BY <1>1, <1>4, <1>5 DEF first
<1>7. Filled = 0
  BY <1>1, <1>2, ModOne DEF Filled
<1>8. nread \in 0 .. Wrap - 1 /\ nwrite \in 0 .. Wrap - 1 /\ Filled <= PipeSize
  BY <1>1, <1>2, <1>7
<1>9. freed \in BOOLEAN
  BY <1>2
<1> QED
  BY <1>6, <1>8, <1>9 DEF RingInv

-----------------------------------------------------------------------------
(* The queue of bytes *)

\* The bytes in the pipe, the oldest first.
Bytes == [i \in 1 .. Filled |-> data[(nread + i - 1) % PipeSize]]

BytesAreQueued == Bytes \in Seq(Val) /\ Len(Bytes) = Filled

\* A function on 1 .. n is a sequence of n.
LEMMA SeqOf ==
  ASSUME NEW S, NEW n \in Nat, NEW f \in [1 .. n -> S]
  PROVE  f \in Seq(S) /\ Len(f) = n
<1>1. f \in Seq(S)
  BY SeqDef
<1> QED
  BY <1>1, LenProperties

\* They are a sequence of bytes.
LEMMA BytesType == RingInv => BytesAreQueued
<1> SUFFICES ASSUME RingInv PROVE BytesAreQueued
  OBVIOUS
<1>1. Filled \in Nat /\ nread \in Nat /\ PipeSize \in Nat /\ PipeSize > 0
  BY FilledIs, PipeAssumption DEF RingInv
<1>2. data \in [0 .. PipeSize - 1 -> Val]
  BY DEF RingInv
<1>3. \A i \in 1 .. Filled : (nread + i - 1) % PipeSize \in 0 .. PipeSize - 1
  BY <1>1, ModOne
<1>4. \A i \in 1 .. Filled : data[(nread + i - 1) % PipeSize] \in Val
  BY <1>1, <1>2, <1>3
<1>5. Bytes \in [1 .. Filled -> Val]
  BY <1>4 DEF Bytes
<1>6. Bytes \in Seq(Val) /\ Len(Bytes) = Filled
  BY <1>1, <1>5, SeqOf
<1> QED
  BY <1>6 DEF BytesAreQueued

\* They are one after the step too.
LEMMA BytesTypeNext == RingInv' => BytesAreQueued'
  BY BytesType, PTL

\* A byte goes into a place that no byte in the pipe has, behind all of them.
LEMMA PutAppends ==
  ASSUME RingInv, RingInv', ~Full, NEW v \in Val, nwrite' = (nwrite + 1) % Wrap, nread' = nread,
         data' = [data EXCEPT ![nwrite % PipeSize] = v]
  PROVE  Len(Bytes) < PipeSize /\ Bytes' = Append(Bytes, v)
<1>1. /\ Filled \in Nat /\ nread \in 0 .. Wrap - 1 /\ nwrite \in 0 .. Wrap - 1
      /\ PipeSize \in Nat /\ PipeSize > 0 /\ Wrap \in Nat /\ data \in [0 .. PipeSize - 1 -> Val]
  BY FilledIs, PipeAssumption DEF RingInv
<1>2. Filled < PipeSize /\ Filled' = Filled + 1
  BY PutCounts
<1>3. (nread + Filled) % PipeSize = nwrite % PipeSize
  <2>1. CASE nread <= nwrite
    BY <1>1, <2>1, FilledIs
  <2>2. CASE nwrite < nread
    BY <1>1, <2>2, FilledIs, WrapKeepsPlace
  <2> QED
    BY <1>1, <2>1, <2>2
<1>4. nwrite % PipeSize \in 0 .. PipeSize - 1
  BY <1>1, ModOne
<1>5. ASSUME NEW i \in 1 .. Filled PROVE Bytes'[i] = Bytes[i]
  <2>1. (nread + i - 1) % PipeSize # (nread + Filled) % PipeSize
    <3>1. /\ nread + i - 1 \in Int /\ nread + Filled \in Int /\ nread + i - 1 < nread + Filled
          /\ nread + Filled < nread + i - 1 + PipeSize
      BY <1>1, <1>2
    <3> QED
      BY <1>1, <3>1, ModEqual
  <2>2. (nread + i - 1) % PipeSize \in 0 .. PipeSize - 1
    BY <1>1, ModOne
  <2>3. data'[(nread + i - 1) % PipeSize] = data[(nread + i - 1) % PipeSize]
    BY <1>1, <1>3, <2>1, <2>2
  <2>4. i \in 1 .. Filled'
    BY <1>1, <1>2
  <2> QED
    BY <2>3, <2>4 DEF Bytes
<1>6. Bytes'[Filled + 1] = v
  <2>1. Filled + 1 \in 1 .. Filled' /\ nread + (Filled + 1) - 1 = nread + Filled
    BY <1>1, <1>2
  <2>2. Bytes'[Filled + 1] = data'[(nread + Filled) % PipeSize]
    BY <2>1 DEF Bytes
  <2> QED
    BY <1>1, <1>3, <1>4, <2>2
<1>7. Bytes \in Seq(Val) /\ Len(Bytes) = Filled
  BY BytesType DEF BytesAreQueued
<1>8. Bytes' \in Seq(Val) /\ Len(Bytes') = Filled + 1
  BY <1>2, BytesTypeNext DEF BytesAreQueued
<1>9. /\ Append(Bytes, v) \in Seq(Val) /\ Len(Append(Bytes, v)) = Filled + 1
      /\ \A i \in 1 .. Filled : Append(Bytes, v)[i] = Bytes[i] /\ Append(Bytes, v)[Filled + 1] = v
  BY <1>7, AppendProperties
<1>10. Append(Bytes, v)[Filled + 1] = v
  BY <1>7, AppendProperties
<1>11. \A i \in 1 .. Filled + 1 : Bytes'[i] = Append(Bytes, v)[i]
  <2>1. Filled \in Nat
    BY <1>1
  <2> QED
    BY <2>1, <1>5, <1>6, <1>9, <1>10
<1>12. Bytes' = Append(Bytes, v)
  BY <1>8, <1>9, <1>11, SeqEqual
<1> QED
  BY <1>2, <1>7, <1>12

\* The oldest byte goes, the others stay in their order.
LEMMA TakeTails ==
  ASSUME RingInv, RingInv', ~Empty, nread' = (nread + 1) % Wrap, nwrite' = nwrite, data' = data
  PROVE  Bytes # <<>> /\ Bytes' = Tail(Bytes) /\ data[nread % PipeSize] = Head(Bytes)
<1>1. /\ Filled \in Nat /\ nread \in 0 .. Wrap - 1 /\ nwrite \in 0 .. Wrap - 1
      /\ PipeSize \in Nat /\ PipeSize > 0 /\ Wrap \in Nat /\ PipeSize < Wrap
  BY FilledIs, PipeAssumption DEF RingInv
<1>2. Filled > 0 /\ Filled' = Filled - 1
  BY TakeCounts
<1>3. Bytes \in Seq(Val) /\ Len(Bytes) = Filled
  BY BytesType DEF BytesAreQueued
<1>4. Bytes' \in Seq(Val) /\ Len(Bytes') = Filled - 1
  BY <1>2, BytesTypeNext DEF BytesAreQueued
<1>5. Bytes # <<>>
  BY <1>2, <1>3, EmptySeq
<1>6. Head(Bytes) = Bytes[1]
  BY <1>3, <1>5
<1>7. Bytes[1] = data[nread % PipeSize]
  <2>1. 1 \in 1 .. Filled /\ nread + 1 - 1 = nread
    BY <1>1, <1>2
  <2> QED
    BY <2>1 DEF Bytes
<1>8. /\ Tail(Bytes) \in Seq(Val) /\ Len(Tail(Bytes)) = Filled - 1
      /\ \A i \in 1 .. Len(Tail(Bytes)) : Tail(Bytes)[i] = Bytes[i + 1]
  BY <1>3, <1>5, HeadTailProperties
<1>9. ASSUME NEW i \in 1 .. Filled - 1 PROVE Bytes'[i] = Tail(Bytes)[i]
  <2>1. (nread' + i - 1) % PipeSize = (nread + i) % PipeSize
    <3>1. CASE nread + 1 < Wrap
      <4>1. nread' = nread + 1
        BY <1>1, <3>1, ModOne
      <4> QED
        BY <1>1, <4>1
    <3>2. CASE nread + 1 = Wrap
      <4>1. nread' = 0
        BY <1>1, <3>2, ModOne
      <4>2. i - 1 \in Nat /\ nread + i = i - 1 + Wrap /\ nread' + i - 1 = i - 1
        BY <1>1, <3>2, <4>1
      <4> QED
        BY <4>2, WrapKeepsPlace
    <3> QED
      BY <1>1, <3>1, <3>2
  <2>2. i \in 1 .. Filled' /\ i + 1 \in 1 .. Filled /\ nread + (i + 1) - 1 = nread + i
    BY <1>1, <1>2
  <2>3. Bytes'[i] = data[(nread + i) % PipeSize]
    BY <2>1, <2>2 DEF Bytes
  <2>4. Bytes[i + 1] = data[(nread + i) % PipeSize]
    BY <2>2 DEF Bytes
  <2> QED
    BY <1>8, <2>3, <2>4
<1>10. Bytes' = Tail(Bytes)
  BY <1>4, <1>8, <1>9, SeqEqual
<1> QED
  BY <1>5, <1>6, <1>7, <1>10

\* Each step of the pipe is one of the queue, or leaves the queue alone.
LEMMA QueueStep ==
  ASSUME RingInv, RingInv', [Next]_vars
  PROVE  [Queue!Next]_<<Bytes, out>>
<1>1. ASSUME UNCHANGED <<data, nread, nwrite, out>> PROVE UNCHANGED <<Bytes, out>>
  BY <1>1 DEF Bytes, Filled
<1>2. CASE UNCHANGED vars
  BY <1>1, <1>2 DEF vars, pipe
<1>3. ASSUME NEW p \in Proc, \/ Acquire(p) \/ Kill(p) \/ PipeClose(p) \/ \E q \in Proc : Fork(p, q)
                             \/ \E e \in End : FileClose(p, e) \/ \E n \in Lens : Call(p, e, n)
      PROVE  UNCHANGED <<Bytes, out>>
  BY <1>1, <1>3 DEF Acquire, Kill, PipeClose, Fork, FileClose, Call, pipe
<1>4. ASSUME NEW p \in Proc, Write(p) PROVE [Queue!Next]_<<Bytes, out>>
  <2>1. CASE WriteDone(p) \/ WriteRefused(p) \/ WriteTest(p) \/ WriteFull(p) \/ WriteFault(p)
    BY <1>1, <2>1 DEF WriteDone, WriteRefused, WriteTest, WriteFull, WriteFault, pipe
  <2>2. ASSUME NEW v \in Val, WriteByte(p, v) PROVE Queue!Next
    <3>1. Len(Bytes) < PipeSize /\ Bytes' = Append(Bytes, v) /\ out' = out
      BY <2>2, PutAppends DEF WriteByte
    <3>2. Queue!Put(v)
      BY <3>1 DEF Queue!Put, Bytes, Filled
    <3> QED
      BY <3>2 DEF Queue!Next
  <2> QED
    BY <1>4, <2>1, <2>2 DEF Write
<1>5. ASSUME NEW p \in Proc, Read(p) PROVE [Queue!Next]_<<Bytes, out>>
  <2>1. CASE ReadKilled(p) \/ ReadTest(p) \/ ReadSleep(p) \/ ReadDone(p)
    BY <1>1, <2>1 DEF ReadKilled, ReadTest, ReadSleep, ReadDone, pipe
  <2>2. CASE ReadByte(p)
    <3>1. Bytes # <<>> /\ Bytes' = Tail(Bytes) /\ out' = Head(Bytes)
      BY <2>2, TakeTails DEF ReadByte
    <3>2. Queue!Take
      BY <3>1 DEF Queue!Take, Bytes, Filled
    <3> QED
      BY <3>2 DEF Queue!Next
  <2>3. CASE ReadFault(p)
    <3>1. Bytes # <<>> /\ Bytes' = Tail(Bytes) /\ out' = out
      BY <2>3, TakeTails DEF ReadFault
    <3>2. Queue!Lose
      BY <3>1 DEF Queue!Lose, Bytes, Filled
    <3> QED
      BY <3>2 DEF Queue!Next
  <2> QED
    BY <1>5, <2>1, <2>2, <2>3 DEF Read
<1> QED
  BY <1>2, <1>3, <1>4, <1>5 DEF Next

-----------------------------------------------------------------------------
(* The theorems *)

\* The inductive invariant.
THEOREM InvCorrect == Spec => []Inv
<1>1. Init => Inv
  BY TypeInit, FileInit, WakeInit, RingInit DEF Inv, FileInv
<1>2. Inv /\ [Next]_vars => Inv'
  BY TypeStep, FileStep, LockStep, SleepStep, RingStep DEF Inv, FileInv
<1> QED
  BY <1>1, <1>2, PTL DEF Spec

\* A reader sleeps only while a writer may come and there is nothing to read,
\* unless a process was killed.
THEOREM ReadersCorrect == Spec => []ReaderNotForgotten
<1>1. Inv => ReaderNotForgotten
  BY PipeAssumption DEF Inv, SleepInv, ReaderNotForgotten
<1> QED
  BY <1>1, InvCorrect, PTL

\* A writer sleeps only while the pipe is full and may still be read.
THEOREM WritersCorrect == Spec => []WriterNotForgotten
<1>1. Inv => WriterNotForgotten
  BY PipeAssumption DEF Inv, SleepInv, WriterNotForgotten
<1> QED
  BY <1>1, InvCorrect, PTL

\* The pipe's page is freed when no process has a descriptor of it or is at
\* work on it.
THEOREM FreeCorrect == Spec => []FreedUnused
<1>1. Inv => FreedUnused
  BY DEF Inv, TypeInv, RefInv, CallInv, FreedInv, FreedUnused, InPipe, Holders, End
<1> QED
  BY <1>1, InvCorrect, PTL

\* The pipe holds at most PIPESIZE bytes, and the counts of its files are natural
\* numbers.
THEOREM TypeCorrect == Spec => []TypeOK
<1>1. Inv => TypeOK
  <2> SUFFICES ASSUME Inv PROVE TypeOK
    OBVIOUS
  <2>1. ref \in [End -> Nat]
    <3>1. ASSUME NEW e \in End PROVE ref[e] \in Nat
      <4>1. Holders(e) \subseteq Proc
        BY DEF Holders
      <4>2. Cardinality(Holders(e)) \in Nat
        BY <4>1, PipeAssumption, FS_Subset, FS_CardinalityType
      <4> QED
        BY <4>2 DEF Inv, RefInv
    <3>2. ref \in [End -> Int]
      BY DEF Inv, TypeInv
    <3> QED
      BY <3>1, <3>2
  <2> QED
    BY <2>1 DEF Inv, TypeInv, RingInv, TypeOK, Filled, Pc
<1> QED
  BY <1>1, InvCorrect, PTL

\* The pipe is a queue: first in, first out, across the wrap of the counters.
THEOREM QueueCorrect == Spec => ImplementsQueue
<1>1. Init => Queue!Init
  <2> SUFFICES ASSUME Init PROVE Queue!Init
    OBVIOUS
  <2>1. RingInv /\ nread = 0 /\ nwrite = 0
    BY RingInit DEF Init
  <2>2. Bytes = <<>>
    <3>1. Filled = 0 /\ Bytes \in Seq(Val) /\ Len(Bytes) = 0
      BY <2>1, FilledIs, BytesType, PipeAssumption DEF BytesAreQueued
    <3> QED
      BY <3>1, EmptySeq
  <2> QED
    BY <2>1, <2>2 DEF Queue!Init, Bytes, Filled, RingInv
<1>2. Inv /\ Inv' /\ [Next]_vars => [Queue!Next]_<<Bytes, out>>
  BY QueueStep DEF Inv
<1>3. Inv /\ Inv' /\ [Next]_vars => [Queue!Next]_<<
        [i \in 1 .. (nwrite + Wrap - nread) % Wrap |-> data[(nread + i - 1) % PipeSize]], out>>
  BY <1>2 DEF Bytes, Filled
<1> QED
  BY <1>1, <1>3, InvCorrect, PTL DEF Spec, ImplementsQueue, Queue!Spec
=============================================================================

-------------------------------- MODULE Log --------------------------------
(***************************************************************************)
(* The write-ahead log of the file system (kernel/kernel/log.c): group     *)
(* commit of concurrent system calls, and recovery after a crash between   *)
(* any two disk writes.                                                    *)
(*                                                                         *)
(* A step is what a thread does under log.lock, or one disk write.  The    *)
(* write of one block, the header included, is atomic.  The buffer cache   *)
(* appears as the contents that bread returns: a buffer that nobody has    *)
(* pinned may be recycled at any time (Evict), and is read from its home   *)
(* block again.                                                            *)
(***************************************************************************)
EXTENDS Naturals, Sequences, FiniteSets

CONSTANTS
  Proc,       \* the threads that make file-system calls
  Block,      \* the home blocks of the disk
  Val,        \* contents of a block
  InitVal,    \* contents at mkfs
  LogBlocks,  \* LOGBLOCKS
  MaxOp,      \* MAXOPBLOCKS
  OpBlocks,   \* how many different blocks a system call writes at most: fewer than
              \* it reserves (filewrite, file.c:149-158, cuts writes for that)
  Plain,      \* bound: blocks that are only ever written with InitVal
  MaxCrash    \* bound on the number of crashes

ASSUME LogAssumption ==
  /\ {LogBlocks, MaxOp, OpBlocks, MaxCrash} \subseteq Nat
  /\ 0 < OpBlocks /\ OpBlocks < MaxOp /\ MaxOp <= LogBlocks
  /\ InitVal \in Val /\ IsFiniteSet(Block) /\ Plain \subseteq Block /\ IsFiniteSet(Proc)

VARIABLES
  home,         \* on disk: the blocks at their home locations
  logblk,       \* on disk: the blocks of the log
  header,       \* on disk: the block numbers in the log's header
  cache,        \* what bread returns for each block
  pins,         \* how often bpin holds each block's buffer
  lh,           \* log.lh
  outstanding,  \* log.outstanding
  committing,   \* log.committing
  tail,         \* the loop variable of write_log and install_trans
  wrote,        \* the blocks each running system call has written
  pc,           \* where each thread is
  boot,         \* where initlog is, "up" after it
  crashes       \* number of crashes so far

disk == <<home, logblk, header>>
mem  == <<cache, pins, lh, outstanding, committing, tail>>
vars == <<disk, mem, wrote, pc, boot, crashes>>

BlocksOf(s) == {s[i] : i \in 1 .. Len(s)}

Init ==
  /\ home = [b \in Block |-> InitVal] /\ cache = home
  /\ logblk = [i \in 1 .. LogBlocks |-> InitVal]
  /\ header = <<>> /\ lh = <<>>
  /\ pins = [b \in Block |-> 0]
  /\ outstanding = 0 /\ committing = FALSE /\ tail = 1
  /\ wrote = [p \in Proc |-> {}]
  /\ pc = [p \in Proc |-> "idle"]
  /\ boot = "read_head"
  /\ crashes = 0

Goto(p, l) == pc' = [pc EXCEPT ![p] = l]

\* Thread p goes to l and wakes the threads that sleep on &log.
WakeupGoto(p, l) ==
  pc' = [q \in Proc |-> IF q = p THEN l ELSE IF pc[q] = "asleep" THEN "begin" ELSE pc[q]]

-----------------------------------------------------------------------------
(* begin_op, log_write and end_op, under log.lock *)

SyscallStart(p) ==
  /\ boot = "up"
  /\ pc[p] = "idle"
  /\ Goto(p, "begin")
  /\ UNCHANGED <<disk, mem, wrote, boot, crashes>>

\* Bug: the call that begins is left out of the reservation.
FitsWithout == Len(lh) + outstanding * MaxOp <= LogBlocks

\* Each running call, and the new one, may still write MAXOPBLOCKS blocks.
Fits == Len(lh) + (outstanding + 1) * MaxOp <= LogBlocks

BeginOp(p) ==
  /\ pc[p] = "begin"
  /\ ~committing /\ Fits
  /\ outstanding' = outstanding + 1
  /\ Goto(p, "op")
  /\ UNCHANGED <<disk, cache, pins, lh, committing, tail, wrote, boot, crashes>>

BeginSleep(p) ==
  /\ pc[p] = "begin"
  /\ committing \/ ~Fits
  /\ Goto(p, "asleep")
  /\ UNCHANGED <<disk, mem, wrote, boot, crashes>>

\* The call changes b's buffer, which it has locked, and log_write records it.
\* Block b is absorbed if the transaction has it already.
LogWrite(p, b, v) ==
  /\ pc[p] = "op"
  /\ Len(lh) < LogBlocks
  /\ b \in wrote[p] \/ Cardinality(wrote[p]) < OpBlocks
  /\ wrote' = [wrote EXCEPT ![p] = @ \union {b}]
  /\ cache' = [cache EXCEPT ![b] = v]
  /\ IF b \in BlocksOf(lh)
     THEN UNCHANGED <<lh, pins>>
     ELSE lh' = Append(lh, b) /\ pins' = [pins EXCEPT ![b] = @ + 1]
  /\ UNCHANGED <<disk, outstanding, committing, tail, pc, boot, crashes>>

EndOp(p) ==
  /\ pc[p] = "op"
  /\ outstanding' = outstanding - 1
  /\ IF outstanding = 1
     THEN committing' = TRUE /\ Goto(p, "commit")
     ELSE WakeupGoto(p, "idle") /\ UNCHANGED committing
  /\ wrote' = [wrote EXCEPT ![p] = {}]
  /\ UNCHANGED <<disk, cache, pins, lh, tail, boot, crashes>>

-----------------------------------------------------------------------------
(* commit, by the thread of the last end_op, without log.lock *)

\* Bug: a transaction of one block is not committed.
CommitStartLate(p) ==
  /\ pc[p] = "commit"
  /\ tail' = 1
  /\ Goto(p, IF Len(lh) > 1 THEN "write_log" ELSE "done")
  /\ UNCHANGED <<disk, cache, pins, lh, outstanding, committing, wrote, boot, crashes>>

CommitStart(p) ==
  /\ pc[p] = "commit"
  /\ tail' = 1
  /\ Goto(p, IF Len(lh) > 0 THEN "write_log" ELSE "done")
  /\ UNCHANGED <<disk, cache, pins, lh, outstanding, committing, wrote, boot, crashes>>

WriteLog(p) ==
  /\ pc[p] = "write_log"
  /\ logblk' = [logblk EXCEPT ![tail] = cache[lh[tail]]]
  /\ tail' = tail + 1
  /\ Goto(p, IF tail < Len(lh) THEN "write_log" ELSE "write_head")
  /\ UNCHANGED <<home, header, cache, pins, lh, outstanding, committing, wrote, boot, crashes>>

\* The transaction commits here.
WriteHead(p) ==
  /\ pc[p] = "write_head"
  /\ header' = lh
  /\ tail' = 1
  /\ Goto(p, "install")
  /\ UNCHANGED <<home, logblk, cache, pins, lh, outstanding, committing, wrote, boot, crashes>>

\* Bug: tail stays.
InstallBlockAgain ==
  /\ home'  = [home  EXCEPT ![lh[tail]] = logblk[tail]]
  /\ cache' = [cache EXCEPT ![lh[tail]] = logblk[tail]]
  /\ UNCHANGED tail

\* Copy log block tail to its home.
InstallBlock ==
  /\ home'  = [home  EXCEPT ![lh[tail]] = logblk[tail]]
  /\ cache' = [cache EXCEPT ![lh[tail]] = logblk[tail]]
  /\ tail'  = tail + 1

Install(p) ==
  /\ pc[p] = "install"
  /\ InstallBlock
  /\ pins' = [pins EXCEPT ![lh[tail]] = @ - 1]
  /\ Goto(p, IF tail < Len(lh) THEN "install" ELSE "erase")
  /\ UNCHANGED <<logblk, header, lh, outstanding, committing, wrote, boot, crashes>>

EraseHead == lh' = <<>> /\ header' = <<>>

Erase(p) ==
  /\ pc[p] = "erase"
  /\ EraseHead
  /\ Goto(p, "done")
  /\ UNCHANGED <<home, logblk, cache, pins, outstanding, committing, tail, wrote, boot, crashes>>

\* Bug: the threads that wait for the commit are not woken.
CommitDoneSilent(p) ==
  /\ pc[p] = "done"
  /\ committing' = FALSE
  /\ Goto(p, "idle")
  /\ UNCHANGED <<disk, cache, pins, lh, outstanding, tail, wrote, boot, crashes>>

CommitDone(p) ==
  /\ pc[p] = "done"
  /\ committing' = FALSE
  /\ WakeupGoto(p, "idle")
  /\ UNCHANGED <<disk, cache, pins, lh, outstanding, tail, wrote, boot, crashes>>

-----------------------------------------------------------------------------
(* The buffer cache, and the machine *)

\* bget recycles the buffer of b; the next bread reads the disk.
Evict(b) ==
  /\ pins[b] = 0
  /\ cache' = [cache EXCEPT ![b] = home[b]]
  /\ UNCHANGED <<disk, pins, lh, outstanding, committing, tail, wrote, pc, boot, crashes>>

Crash ==
  /\ crashes < MaxCrash
  /\ crashes' = crashes + 1
  /\ cache' = home /\ pins' = [b \in Block |-> 0]
  /\ lh' = <<>> /\ outstanding' = 0 /\ committing' = FALSE /\ tail' = 1
  /\ wrote' = [p \in Proc |-> {}] /\ pc' = [p \in Proc |-> "idle"]
  /\ boot' = "read_head"
  /\ UNCHANGED disk

(* recover_from_log *)

\* Bug: the header is cleared before its blocks are installed.
ReadHeadOnly ==
  /\ boot = "read_head"
  /\ lh' = header
  /\ boot' = "erase"
  /\ UNCHANGED <<disk, cache, pins, outstanding, committing, tail, wrote, pc, crashes>>

ReadHead ==
  /\ boot = "read_head"
  /\ lh' = header
  /\ boot' = IF Len(header) > 0 THEN "install" ELSE "erase"
  /\ UNCHANGED <<disk, cache, pins, outstanding, committing, tail, wrote, pc, crashes>>

InstallRecovering ==
  /\ boot = "install"
  /\ InstallBlock
  /\ boot' = IF tail < Len(lh) THEN "install" ELSE "erase"
  /\ UNCHANGED <<logblk, header, pins, lh, outstanding, committing, wrote, pc, crashes>>

EraseRecovering ==
  /\ boot = "erase"
  /\ EraseHead
  /\ boot' = "up"
  /\ UNCHANGED <<home, logblk, cache, pins, outstanding, committing, tail, wrote, pc, crashes>>

-----------------------------------------------------------------------------
Begin(p)   == BeginOp(p) \/ BeginSleep(p)
Commit(p)  == CommitStart(p) \/ WriteLog(p) \/ WriteHead(p) \/ Install(p) \/ Erase(p) \/ CommitDone(p)
Recover    == ReadHead \/ InstallRecovering \/ EraseRecovering

Next ==
  \/ \E p \in Proc : \/ SyscallStart(p) \/ Begin(p) \/ EndOp(p) \/ Commit(p)
                     \/ \E b \in Block, v \in Val : (b \in Plain => v = InitVal) /\ LogWrite(p, b, v)
  \/ \E b \in Block : Evict(b)
  \/ Recover \/ Crash

Spec == Init /\ [][Next]_vars

\* The scheduler runs every runnable thread again and again, every system call
\* ends, and the disk answers.
Fairness ==
  /\ \A p \in Proc : WF_vars(Begin(p)) /\ WF_vars(EndOp(p)) /\ WF_vars(Commit(p))
  /\ WF_vars(Recover)

FairSpec == Spec /\ Fairness

-----------------------------------------------------------------------------
(* What must hold. *)

\* The type invariant: the log never holds more than LOGBLOCKS blocks, and no
\* bunpin without its bpin.
TypeOK ==
  /\ home \in [Block -> Val] /\ cache \in [Block -> Val]
  /\ logblk \in [1 .. LogBlocks -> Val]
  /\ header \in Seq(Block) /\ lh \in Seq(Block) /\ Len(lh) <= LogBlocks
  /\ pins \in [Block -> Nat]
  /\ outstanding \in Nat /\ committing \in BOOLEAN
  /\ tail \in 1 .. LogBlocks + 1
  /\ wrote \in [Proc -> SUBSET Block]
  /\ pc \in [Proc -> {"idle", "begin", "asleep", "op", "commit", "write_log", "write_head",
                      "install", "erase", "done"}]
  /\ boot \in {"read_head", "install", "erase", "up"}
  /\ crashes \in 0 .. MaxCrash

\* Neither log_write's "too big a transaction" and "log_write outside of
\* trans" nor end_op's "log.committing" is ever reached.
NoPanic == \A p \in Proc : pc[p] = "op" =>
  Len(lh) < LogBlocks /\ outstanding >= 1 /\ ~committing

\* What the disk says after a crash now.
Durable == [b \in Block |->
  IF b \in BlocksOf(header) THEN logblk[CHOOSE i \in 1 .. Len(header) : header[i] = b] ELSE home[b]]

\* end_op returns from a commit only when everything any ended call has
\* written is durable.
DurableAtReturn == \A p \in Proc : pc[p] = "done" => Durable = cache

Atomic == INSTANCE AtomicLog WITH
  cur     <- IF boot = "up" THEN cache ELSE Durable,
  dur     <- Durable,
  running <- {p \in Proc : pc[p] = "op"}

\* A crash between any two disk writes, in recovery too, leaves all of a group
\* of ended system calls or nothing of it.
ImplementsAtomic == Atomic!Spec

\* A thread that sleeps in begin_op is woken.
SleepersWoken == \A p \in Proc : pc[p] = "asleep" ~> pc[p] # "asleep"

\* initlog ends, however often the machine has crashed in it.
RecoveryEnds == boot # "up" ~> boot = "up"

\* Whoever waits for the log, a caller or the booting machine, gets on.
NobodyWaitsForEver == SleepersWoken /\ RecoveryEnds
=============================================================================

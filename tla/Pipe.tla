-------------------------------- MODULE Pipe --------------------------------
(***************************************************************************)
(* One pipe and the processes that share its two ends                      *)
(* (kernel/kernel/pipe.c, and the reference counts of kernel/kernel/file.c *)
(* that decide when an end is closed).                                     *)
(*                                                                         *)
(* A step is one pass of a loop under pi->lock; the test of p->killed,     *)
(* which takes p->lock, is a step of its own, so that a kill may come      *)
(* between it and what follows.  That sleep misses no wakeup is checked in *)
(* Proc; here it is one step, which releases pi->lock.  The counters nread *)
(* and nwrite wrap as in the code.                                         *)
(***************************************************************************)
EXTENDS Naturals, Sequences, FiniteSets

CONSTANTS
  Proc,       \* processes
  Shell,      \* the one that creates the pipe
  NoProc,
  PipeSize,   \* PIPESIZE
  Wrap,       \* 2^32, where a uint wraps
  Val,        \* bytes
  Lens,       \* the lengths n that reads and writes ask for
  Victims     \* the processes that may be killed

ASSUME PipeAssumption ==
  /\ IsFiniteSet(Proc) /\ Shell \in Proc /\ NoProc \notin Proc
  /\ {PipeSize, Wrap} \subseteq Nat \ {0} /\ Lens \subseteq Nat
  /\ Victims \subseteq Proc
  /\ PipeSize < Wrap /\ Wrap % PipeSize = 0
  /\ Val # {}

VARIABLES
  data, nread, nwrite,     \* struct pipe
  open,                    \* the ends e with pi->readopen, pi->writeopen
  lock,                    \* the process that holds pi->lock
  freed,                   \* kfree(pi) has been called
  fds,                     \* the ends that each process has a descriptor of
  ref,                     \* f->ref of the two files
  killed,                  \* p->killed
  k,                       \* each process's thread: where it is, n - i
  out                      \* the byte that copyout stored last

pipe == <<data, nread, nwrite, open>>
file == <<fds, ref>>
vars == <<pipe, lock, freed, file, killed, k, out>>

End == {"r", "w"}

\* The thread of a process that is not in a system call on the pipe.
Outside(l) == [pc |-> l, e |-> "r", n |-> 0]

\* pipealloc has succeeded in the shell; the other processes are not forked.
Init ==
  /\ data = [i \in 0 .. PipeSize - 1 |-> CHOOSE v \in Val : TRUE] /\ nread = 0 /\ nwrite = 0
  /\ open = End /\ lock = NoProc /\ freed = FALSE
  /\ fds = [p \in Proc |-> IF p = Shell THEN End ELSE {}]
  /\ ref = [e \in End |-> 1]
  /\ killed = [p \in Proc |-> FALSE]
  /\ k = [p \in Proc |-> Outside(IF p = Shell THEN "user" ELSE "unborn")]
  /\ out = data[0]

Empty == nread = nwrite

\* Bug: one byte too many.
FullLate == nwrite = (nread + PipeSize + 1) % Wrap

Full == nwrite = (nread + PipeSize) % Wrap

At(p, e, l) == k[p].pc = l /\ k[p].e = e
Go(p, l)    == k' = [k EXCEPT ![p].pc = l]

\* wakeup(&pi->nread) for e = "r", wakeup(&pi->nwrite) for "w"; p goes on at f.
\* Who is woken takes pi->lock again.
Wakeup(p, e, f) ==
  k' = [q \in Proc |-> IF q = p THEN f ELSE IF At(q, e, "sleep") THEN [k[q] EXCEPT !.pc = "lock"] ELSE k[q]]

\* wakeup, release and return
Return(p, e) == Wakeup(p, e, Outside("user")) /\ lock' = NoProc

-----------------------------------------------------------------------------
(* System calls *)

Call(p, e, n) ==
  /\ k[p].pc = "user" /\ ~killed[p] /\ e \in fds[p]
  /\ k' = [k EXCEPT ![p] = [pc |-> "lock", e |-> e, n |-> n]]
  /\ UNCHANGED <<pipe, lock, freed, file, killed, out>>

Acquire(p) ==
  /\ k[p].pc = "lock" /\ lock = NoProc
  /\ lock' = p
  /\ Go(p, "test")
  /\ UNCHANGED <<pipe, freed, file, killed, out>>

\* The child of fork has its parent's descriptors.
Fork(p, q) ==
  /\ k[p].pc = "user" /\ ~killed[p] /\ k[q].pc = "unborn"
  /\ fds' = [fds EXCEPT ![q] = fds[p]]
  /\ ref' = [e \in End |-> ref[e] + IF e \in fds[p] THEN 1 ELSE 0]
  /\ Go(q, "user")
  /\ UNCHANGED <<pipe, lock, freed, killed, out>>

\* kkill; a killed process only closes what it has open.
Kill(p) ==
  /\ p \in Victims /\ k[p].pc # "unborn"
  /\ killed' = [killed EXCEPT ![p] = TRUE]
  /\ IF k[p].pc = "sleep" THEN Go(p, "lock") ELSE UNCHANGED k
  /\ UNCHANGED <<pipe, lock, freed, file, out>>

-----------------------------------------------------------------------------
(* pipewrite *)

WriteDone(p) ==
  /\ At(p, "w", "test") /\ k[p].n = 0
  /\ Return(p, "r")
  /\ UNCHANGED <<pipe, freed, file, killed, out>>

\* The readers are not woken here, whatever has been written before.
WriteRefused(p) ==
  /\ At(p, "w", "test") /\ k[p].n > 0
  /\ "r" \notin open \/ killed[p]
  /\ k' = [k EXCEPT ![p] = Outside("user")]
  /\ lock' = NoProc
  /\ UNCHANGED <<pipe, freed, file, killed, out>>

WriteTest(p) ==
  /\ At(p, "w", "test") /\ k[p].n > 0
  /\ "r" \in open /\ ~killed[p]
  /\ Go(p, "body")
  /\ UNCHANGED <<pipe, lock, freed, file, killed, out>>

\* Bug: the readers are not woken.
WriteFullSilent(p) ==
  /\ At(p, "w", "body") /\ Full
  /\ Go(p, "sleep")
  /\ lock' = NoProc
  /\ UNCHANGED <<pipe, freed, file, killed, out>>

WriteFull(p) ==
  /\ At(p, "w", "body") /\ Full
  /\ Wakeup(p, "r", [k[p] EXCEPT !.pc = "sleep"])
  /\ lock' = NoProc
  /\ UNCHANGED <<pipe, freed, file, killed, out>>

WriteByte(p, v) ==
  /\ At(p, "w", "body") /\ ~Full
  /\ data' = [data EXCEPT ![nwrite % PipeSize] = v]
  /\ nwrite' = (nwrite + 1) % Wrap
  /\ k' = [k EXCEPT ![p] = [@ EXCEPT !.pc = "test", !.n = k[p].n - 1]]
  /\ UNCHANGED <<nread, open, lock, freed, file, killed, out>>

\* copyin fails.
WriteFault(p) ==
  /\ At(p, "w", "body") /\ ~Full
  /\ Return(p, "r")
  /\ UNCHANGED <<pipe, freed, file, killed, out>>

-----------------------------------------------------------------------------
(* piperead *)

ReadKilled(p) ==
  /\ At(p, "r", "test") /\ Empty /\ "w" \in open /\ killed[p]
  /\ k' = [k EXCEPT ![p] = Outside("user")]
  /\ lock' = NoProc
  /\ UNCHANGED <<pipe, freed, file, killed, out>>

ReadTest(p) ==
  /\ At(p, "r", "test")
  /\ Go(p, IF Empty /\ "w" \in open THEN "body" ELSE "copy")
  /\ Empty /\ "w" \in open => ~killed[p]
  /\ UNCHANGED <<pipe, lock, freed, file, killed, out>>

ReadSleep(p) ==
  /\ At(p, "r", "body")
  /\ Go(p, "sleep")
  /\ lock' = NoProc
  /\ UNCHANGED <<pipe, freed, file, killed, out>>

ReadByte(p) ==
  /\ At(p, "r", "copy") /\ k[p].n > 0 /\ ~Empty
  /\ out' = data[nread % PipeSize]
  /\ nread' = (nread + 1) % Wrap
  /\ k' = [k EXCEPT ![p].n = @ - 1]
  /\ UNCHANGED <<data, nwrite, open, lock, freed, file, killed>>

\* copyout fails when the byte is already out of the pipe.
ReadFault(p) ==
  /\ At(p, "r", "copy") /\ k[p].n > 0 /\ ~Empty
  /\ nread' = (nread + 1) % Wrap
  /\ Return(p, "w")
  /\ UNCHANGED <<data, nwrite, open, freed, file, killed, out>>

ReadDone(p) ==
  /\ At(p, "r", "copy") /\ (k[p].n = 0 \/ Empty)
  /\ Return(p, "w")
  /\ UNCHANGED <<pipe, freed, file, killed, out>>

-----------------------------------------------------------------------------
(* sys_close, or kexit: fileclose, then pipeclose for the last reference *)

\* Bug: the first close of a descriptor closes the end.
FileCloseFirst(p, e) ==
  /\ k[p].pc = "user" /\ e \in fds[p]
  /\ fds' = [fds EXCEPT ![p] = @ \ {e}]
  /\ ref' = [ref EXCEPT ![e] = @ - 1]
  /\ k' = [k EXCEPT ![p] = [Outside("close") EXCEPT !.e = e]]
  /\ UNCHANGED <<pipe, lock, freed, killed, out>>

FileClose(p, e) ==
  /\ k[p].pc = "user" /\ e \in fds[p]
  /\ fds' = [fds EXCEPT ![p] = @ \ {e}]
  /\ ref' = [ref EXCEPT ![e] = @ - 1]
  /\ IF ref[e] = 1 THEN k' = [k EXCEPT ![p] = [Outside("close") EXCEPT !.e = e]] ELSE UNCHANGED k
  /\ UNCHANGED <<pipe, lock, freed, killed, out>>

\* Bug: the sleepers of the other end are not woken.
PipeCloseSilent(p) ==
  LET e == k[p].e IN
  /\ k[p].pc = "close" /\ lock = NoProc
  /\ open' = open \ {e}
  /\ freed' = (open' = {})
  /\ k' = [k EXCEPT ![p] = Outside("user")]
  /\ UNCHANGED <<data, nread, nwrite, lock, file, killed, out>>

PipeClose(p) ==
  LET e == k[p].e IN
  /\ k[p].pc = "close" /\ lock = NoProc
  /\ open' = open \ {e}
  /\ freed' = (open' = {})
  /\ Wakeup(p, IF e = "w" THEN "r" ELSE "w", Outside("user"))
  /\ UNCHANGED <<data, nread, nwrite, lock, file, killed, out>>

-----------------------------------------------------------------------------
Write(p) == WriteDone(p) \/ WriteRefused(p) \/ WriteTest(p) \/ WriteFull(p)
            \/ (\E v \in Val : WriteByte(p, v)) \/ WriteFault(p)
Read(p)  == ReadKilled(p) \/ ReadTest(p) \/ ReadSleep(p) \/ ReadByte(p) \/ ReadFault(p) \/ ReadDone(p)

Next == \E p \in Proc :
  \/ Acquire(p) \/ Write(p) \/ Read(p) \/ PipeClose(p) \/ Kill(p)
  \/ \E e \in End : FileClose(p, e) \/ \E n \in Lens : Call(p, e, n)
  \/ \E q \in Proc : Fork(p, q)

Spec == Init /\ [][Next]_vars

-----------------------------------------------------------------------------
(* What must hold. *)

InPipe(p) == k[p].pc \in {"lock", "test", "body", "copy", "sleep", "close"}

\* The type invariant; the pipe holds at most PIPESIZE bytes.
TypeOK ==
  /\ data \in [0 .. PipeSize - 1 -> Val] /\ out \in Val
  /\ {nread, nwrite} \subseteq 0 .. Wrap - 1
  /\ (nwrite + Wrap - nread) % Wrap <= PipeSize
  /\ open \subseteq End /\ lock \in Proc \union {NoProc} /\ freed \in BOOLEAN
  /\ fds \in [Proc -> SUBSET End] /\ ref \in [End -> Nat]
  /\ killed \in [Proc -> BOOLEAN]
  /\ k \in [Proc -> [pc : {"unborn", "user", "lock", "test", "body", "copy", "sleep", "close"},
                     e : End, n : Nat]]

\* When nobody is at work on the pipe, a reader sleeps only while a writer may
\* still come, and, unless a process was killed (WriteRefused leaves its bytes
\* behind without telling anybody), only while there is nothing to read.
ReaderNotForgotten == lock = NoProc =>
  \A p \in Proc : At(p, "r", "sleep") =>
    "w" \in open /\ (Empty \/ \E q \in Proc : killed[q])

\* A writer sleeps only while the pipe is full and can still be read.
WriterNotForgotten == lock = NoProc =>
  \A p \in Proc : At(p, "w", "sleep") => "r" \in open /\ Full

\* The page of the pipe is freed once nobody can touch the pipe any more.
FreedUnused == freed => \A p \in Proc : fds[p] = {} /\ ~InPipe(p)

Queue == INSTANCE ByteQueue WITH
  Size <- PipeSize,
  q <- [i \in 1 .. (nwrite + Wrap - nread) % Wrap |-> data[(nread + i - 1) % PipeSize]]

\* First in, first out, whichever processes read and write, across the wrap of
\* the counters and of the buffer.
ImplementsQueue == Queue!Spec
=============================================================================

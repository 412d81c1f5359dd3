------------------------------- MODULE Console -------------------------------
(***************************************************************************)
(* The console of kernel/console.c on the UART: line editing in the        *)
(* interrupt handler, and the processes that read, write and print.        *)
(***************************************************************************)
EXTENDS Uart

CONSTANTS
  INPUT_BUF_SIZE,
  Wrap,     \* r, w and e are unsigned: 2^32 in the code, here a multiple of the size
  Start,    \* characters that have been read before
  Input,    \* the sequences of characters of which the user types one
  MaxRead,  \* the largest read
  MaxCall, MaxKill \* bounds: system calls and kills

\* What can be typed: a character, a line's end, and the control characters.
Key == {"x", "nl", "cr", "eof", "kill", "bs", "procs", "nul"}

ASSUME ConsoleAssumption ==
  /\ INPUT_BUF_SIZE \in Nat \ {0} /\ Start \in Nat /\ MaxRead \in Nat
  /\ Wrap \in Nat \ {0} /\ Wrap % INPUT_BUF_SIZE = 0 /\ Wrap > INPUT_BUF_SIZE
  /\ Lock = {"tx", "cons", "pr"}
  /\ Input \subseteq Seq(Key)

VARIABLES
  buf, r, w, e, \* cons
  got,          \* the bytes in each reader's memory
  killed,
  input,        \* what the user has still to type
  calls_left, kills_left

cons   == <<buf, r, w, e>>
bounds == <<input, calls_left, kills_left>>
vars   == <<uvars, cons, got, killed, bounds>>

Sub(a, b) == (a - b) % Wrap
Inc(a) == (a + 1) % Wrap
Slot(i) == i % INPUT_BUF_SIZE

Init ==
  /\ LInit /\ UInit
  /\ buf = [i \in 0 .. INPUT_BUF_SIZE - 1 |-> "nul"]
  /\ r = Start % Wrap /\ w = r /\ e = r
  /\ got = [c \in Cpu |-> <<>>] /\ killed = [c \in Cpu |-> FALSE]
  /\ input \in Input /\ calls_left = MaxCall /\ kills_left = MaxKill

-----------------------------------------------------------------------------
(* consoleintr, under cons.lock *)

Getc(c) ==
  /\ At(c, "rx") /\ rx # <<>> /\ rx' = Tail(rx)
  /\ Acquire(c, "cons") /\ Set(c, [Top(c) EXCEPT !.pc = "c", !.ch = Head(rx)])
  /\ UNCHANGED <<tx, txIrq, tx_busy, claimed, cons>>

\* procdump, which prints, and the end of consoleintr
Dump(c) ==
  /\ At(c, "c") /\ Top(c).ch = "procs" /\ Locked(c, "cons") /\ To(c, "c_dump")
  /\ UNCHANGED <<uart, cons>>
DumpPrint(c) == At(c, "c_dump") /\ PrintAcquire(c, "c_end") /\ UNCHANGED cons
ConsEnd(c)   == At(c, "c_end") /\ Release(c, "cons") /\ Set(c, [Frame EXCEPT !.pc = "rx"]) /\ UNCHANGED <<uart, cons>>

Erasing(ch) == ch \in {"kill", "bs"}

\* A character that can be erased: control-U stops at the end of a line.
CanErase(ch) == e # w /\ (ch = "kill" => buf[Slot(Sub(e, 1))] # "nl")

Erase(c) ==
  LET ch == Top(c).ch IN
  /\ At(c, "c") /\ Erasing(ch) /\ CanErase(ch) /\ Locked(c, "cons")
  /\ e' = Sub(e, 1) /\ Set(c, Put(c, "echo", IF ch = "kill" THEN "c" ELSE "c_end"))
  /\ UNCHANGED <<uart, buf, r, w>>

\* Bug: only the line being typed is counted.
RoomEdit == Sub(e, w) < INPUT_BUF_SIZE

Room == Sub(e, r) < INPUT_BUF_SIZE

\* Nothing to erase, no room, or a null.
Ignore(c) ==
  LET ch == Top(c).ch IN
  /\ At(c, "c") /\ ch # "procs" /\ (IF Erasing(ch) THEN ~CanErase(ch) ELSE ch = "nul" \/ ~Room)
  /\ Release(c, "cons") /\ Set(c, [Frame EXCEPT !.pc = "rx"]) /\ UNCHANGED <<uart, cons>>

\* consputc before the character is stored
Echo(c) ==
  LET ch == Top(c).ch IN
  /\ At(c, "c") /\ ch \notin {"procs", "nul"} /\ ~Erasing(ch) /\ Room /\ Locked(c, "cons")
  /\ Set(c, [Put(c, "echo", "c_store") EXCEPT !.ch = IF ch = "cr" THEN "nl" ELSE ch])
  /\ UNCHANGED <<uart, cons>>

\* Bug: a full buffer without a newline is not given to the readers.
StoreOpen(c) ==
  LET ch == Top(c).ch IN
  /\ At(c, "c_store") /\ Release(c, "cons")
  /\ buf' = [buf EXCEPT ![Slot(e)] = ch] /\ e' = Inc(e)
  /\ IF ch \in {"nl", "eof"}
       THEN w' = Inc(e) /\ Wakeup(c, "r_asleep", "r_woken", "rx")
       ELSE Set(c, [Frame EXCEPT !.pc = "rx"]) /\ UNCHANGED w
  /\ UNCHANGED <<uart, r>>

\* Bug: the wakeup is forgotten for a full buffer.
StoreSilent(c) ==
  LET ch == Top(c).ch IN
  /\ At(c, "c_store") /\ Release(c, "cons")
  /\ buf' = [buf EXCEPT ![Slot(e)] = ch] /\ e' = Inc(e)
  /\ w' = IF ch \in {"nl", "eof"} \/ Sub(Inc(e), r) = INPUT_BUF_SIZE THEN Inc(e) ELSE w
  /\ IF ch \in {"nl", "eof"}
       THEN Wakeup(c, "r_asleep", "r_woken", "rx") ELSE Set(c, [Frame EXCEPT !.pc = "rx"])
  /\ UNCHANGED <<uart, r>>

\* A complete line, or a full buffer, is given to the readers.
Store(c) ==
  LET ch == Top(c).ch IN
  /\ At(c, "c_store") /\ Release(c, "cons")
  /\ buf' = [buf EXCEPT ![Slot(e)] = ch] /\ e' = Inc(e)
  /\ IF ch \in {"nl", "eof"} \/ Sub(Inc(e), r) = INPUT_BUF_SIZE
       THEN w' = Inc(e) /\ Wakeup(c, "r_asleep", "r_woken", "rx")
       ELSE Set(c, [Frame EXCEPT !.pc = "rx"]) /\ UNCHANGED w
  /\ UNCHANGED <<uart, r>>

Consoleintr(c) ==
  Getc(c) \/ Dump(c) \/ DumpPrint(c) \/ ConsEnd(c) \/ Erase(c) \/ Ignore(c) \/ Echo(c) \/ Store(c)

-----------------------------------------------------------------------------
(* consoleread: n bytes are wanted *)

ReadCall(c, n) ==
  /\ Acquire(c, "cons") /\ Set(c, [Frame EXCEPT !.pc = "r", !.n = n])
  /\ got' = [got EXCEPT ![c] = <<>>]
  /\ UNCHANGED uart

ReadAgain(c) == At(c, "r_woken") /\ Acquire(c, "cons") /\ To(c, "r") /\ UNCHANGED <<uart, cons, got>>

ReadSleep(c) ==
  /\ At(c, "r") /\ r = w /\ ~killed[c]
  /\ SleepOn(c, "cons") /\ To(c, "r_asleep") /\ UNCHANGED <<uart, cons, got>>

ReadKilled(c) ==
  /\ At(c, "r") /\ r = w /\ killed[c]
  /\ Release(c, "cons") /\ Set(c, Frame) /\ UNCHANGED <<uart, cons, got>>

\* Control-D ends the read; if the read has some bytes, it is left for the next one.
ReadEof(c) ==
  /\ At(c, "r") /\ r # w /\ buf[Slot(r)] = "eof"
  /\ r' = IF got[c] = <<>> THEN Inc(r) ELSE r
  /\ Release(c, "cons") /\ Set(c, Frame) /\ UNCHANGED <<uart, buf, w, e, got>>

\* A byte to the user's memory; the last one ends the read.
ReadByte(c) ==
  LET ch == buf[Slot(r)]
      f  == Top(c)
  IN /\ At(c, "r") /\ r # w /\ ch # "eof"
     /\ r' = Inc(r) /\ got' = [got EXCEPT ![c] = Append(@, ch)]
     /\ IF ch = "nl" \/ f.n = 1
          THEN Release(c, "cons") /\ Set(c, Frame)
          ELSE Locked(c, "cons") /\ Set(c, [f EXCEPT !.n = @ - 1])
     /\ UNCHANGED <<uart, buf, w, e>>

\* copyout fails: the byte has been taken all the same.
ReadFault(c) ==
  /\ At(c, "r") /\ r # w /\ buf[Slot(r)] # "eof"
  /\ r' = Inc(r)
  /\ Release(c, "cons") /\ Set(c, Frame) /\ UNCHANGED <<uart, buf, w, e, got>>

Read(c) == ReadAgain(c) \/ ReadSleep(c) \/ ReadKilled(c) \/ ReadEof(c) \/ ReadByte(c) \/ ReadFault(c)

-----------------------------------------------------------------------------
\* A system call that reads, writes, or prints (usertrap, on a fault).
Call(c) ==
  /\ At(c, "user") /\ calls_left > 0 /\ calls_left' = calls_left - 1 /\ ~killed[c]
  /\ \/ (\E n \in 1 .. MaxRead : ReadCall(c, n))
     \/ (\E n \in 1 .. MaxWrite : WriteChunk(c, n)) /\ UNCHANGED got
     \/ PrintAcquire(c, "user") /\ UNCHANGED got
  /\ UNCHANGED <<cons, killed, input, kills_left>>

\* kkill wakes a process that sleeps, on whatever channel.
Kill(c) ==
  /\ Proc(c).pc # "user" /\ kills_left > 0 /\ kills_left' = kills_left - 1
  /\ killed' = [killed EXCEPT ![c] = TRUE]
  /\ run' = [run EXCEPT ![c][1] = Woken(Woken(@, "r_asleep", "r_woken"), "w_asleep", "w_woken")]
  /\ UNCHANGED <<lvars, uart, cons, got, input, calls_left>>

\* The user types, no faster than the FIFO takes it.
Typed ==
  /\ input # <<>> /\ Len(rx) < 2
  /\ rx' = Append(rx, Head(input)) /\ input' = Tail(input)
  /\ UNCHANGED <<lvars, run, tx, txIrq, tx_busy, claimed, cons, got, killed, calls_left, kills_left>>

Step(c) ==
  /\ \/ (PutIdle(c) \/ PutChar(c) \/ Printf(c) \/ Write(c) \/ Isr(c)) /\ UNCHANGED <<cons, got>>
     \/ Consoleintr(c) /\ UNCHANGED got
     \/ Read(c)
  /\ UNCHANGED <<killed, bounds>>

Others == UNCHANGED <<cons, got, killed, bounds>>

Next ==
  \/ \E c \in Cpu : Step(c) \/ Call(c) \/ Kill(c) \/ (Interrupt(c) /\ Others)
  \/ (Transmit /\ Others)
  \/ Typed

Spec == Init /\ [][Next]_vars

-----------------------------------------------------------------------------
(* What must hold. *)

\* The type invariant; r, w and e stay in order around the ring, and one CPU at
\* most is in the handler.
TypeOK ==
  /\ LTypeOK /\ {tx_busy, claimed, txIrq} \subseteq BOOLEAN
  /\ {r, w, e} \subseteq 0 .. Wrap - 1
  /\ Sub(w, r) <= Sub(e, r) /\ Sub(e, r) <= INPUT_BUF_SIZE
  /\ \A c \in Cpu : Len(run[c]) \in 1 .. 2 /\ Len(got[c]) <= MaxRead
  /\ \A c, d \in Cpu : Len(run[c]) = 2 /\ Len(run[d]) = 2 => c = d

\* No check of spinlock.c fails, a CPU takes no interrupt while it has a lock,
\* and takes them again when the last lock and the handler are done.
LocksMask ==
  /\ ~panicked
  /\ \A c \in Cpu : LET held == {l \in Lock : owner[l] = c} IN
       /\ held # {} => ~cpu[c].ie /\ cpu[c].noff > 0
       /\ At(c, "user") => held = {} /\ cpu[c].ie /\ cpu[c].noff = 0

\* The FIFO has at most one byte of a write, of an echo and of a message: none
\* can overrun it, though the three do not know of each other.
OnePerSource == \A x, y \in 1 .. Len(tx) : tx[x] = tx[y] => x = y

Wants(c) == IF Proc(c).pc \in {"r", "r_asleep", "r_woken"} THEN Proc(c).n ELSE 0

\* The ring, whose indices wrap, is a queue of lines, and a read is given a
\* line, or the part of it that it wants, once.
lines   == [i \in 1 .. Sub(w, r) |-> buf[Slot(r + i - 1)]]
edit    == [i \in 1 .. Sub(e, w) |-> buf[Slot(w + i - 1)]]
reading == [c \in Cpu |-> Wants(c)]

Q == INSTANCE LineQueue WITH
       Reader <- Cpu, Char <- {"x", "nl", "eof"}, SIZE <- INPUT_BUF_SIZE, MaxRead <- MaxRead

\* Every step of consoleintr and consoleread is one of the queue's, or invisible.
ImplementsLineQueue == Q!Spec

\* Who sleeps will be woken: a writer only sleeps while a byte is being sent
\* whose interrupt is to come, and a reader only while no line is complete.
NobodyForgotten ==
  /\ tx_busy => tx # <<>> \/ txIrq \/ \E c \in Cpu : At(c, "isr")
  /\ \A c \in Cpu : /\ Proc(c).pc = "w_asleep" => tx_busy
                    /\ Proc(c).pc = "r_asleep" => r = w
=============================================================================

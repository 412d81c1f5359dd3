----------------------------- MODULE ConsoleInv -----------------------------
(***************************************************************************)
(* The inductive invariant of Console: what can be on the kernel stack of  *)
(* a CPU, which locks go with it, and what the driver and the ring may     *)
(* rely on meanwhile.                                                      *)
(***************************************************************************)
EXTENDS Console

Labels == {"user", "w", "w_woken", "w_asleep", "w_next", "r", "r_woken", "r_asleep",
           "pr", "put", "putc", "pr_end", "isr", "rx", "c", "c_dump", "c_end", "c_store"}

\* What consoleintr stores.
Char == {"x", "nl", "eof"}

Frames ==
  [pc : Labels, n : Int, m : Int, ch : Key \union {None}, src : {None, "echo", "print"},
   ret : Labels, next : Labels]

\* The kernel stacks: their heights, what runs, and the processes below.
depth == [c \in Cpu |-> Len(run[c])]
top   == [c \in Cpu |-> Top(c)]
proc  == [c \in Cpu |-> Proc(c)]

\* A process is at one of these when its CPU takes interrupts.
Resting == {"user", "w_woken", "w_asleep", "w_next", "r_woken", "r_asleep"}

\* printf, on the way to the label k
Printing(f, k) ==
  \/ f.pc \in {"pr", "pr_end"} /\ f.next = k
  \/ f.pc \in {"put", "putc"} /\ f.src = "print" /\ f.ret = "pr_end" /\ f.next = k

\* consputc, of consoleintr
Echoing(f) ==
  /\ f.pc \in {"put", "putc"} /\ f.src = "echo" /\ f.ret \in {"c", "c_end", "c_store"}
  /\ f.ret = "c" => f.ch \in Key
  /\ f.ret = "c_store" => f.ch \in Char

\* The frame of a process, and that of the interrupt handler.
ProcFrame(f) == f.pc \in Resting \union {"w", "r"} \/ Printing(f, "user")

HandlerFrame(f) ==
  \/ f.pc \in {"isr", "rx", "c_dump", "c_end"}
  \/ f.pc = "c" /\ f.ch \in Key
  \/ f.pc = "c_store" /\ f.ch \in Char
  \/ Printing(f, "c_end")
  \/ Echoing(f)

StackOf(c) ==
  \/ depth[c] = 1 /\ ProcFrame(top[c])
  \/ depth[c] = 2 /\ HandlerFrame(top[c]) /\ proc[c].pc \in Resting

StackInv ==
  /\ run \in [Cpu -> Seq(Frames)] /\ claimed \in BOOLEAN
  /\ \A c \in Cpu : StackOf(c)
  /\ \A c \in Cpu : depth[c] = 2 => claimed
  /\ \A c, d \in Cpu : depth[c] = 2 /\ depth[d] = 2 => c = d

\* How many push_off a frame has done; the handler prints with cons.lock.
Pushed(f) ==
  CASE f.pc \in Resting \union {"rx"} -> 0
    [] f.pc = "putc" -> 2
    [] OTHER -> 1

Nested(c) == IF depth[c] = 2 /\ Printing(top[c], "c_end") THEN 1 ELSE 0

MaskOf(c) ==
  /\ cpu[c].noff = Pushed(top[c]) + Nested(c)
  /\ cpu[c].ie <=> depth[c] = 1 /\ cpu[c].noff = 0
  /\ cpu[c].noff > 0 => (cpu[c].intena <=> depth[c] = 1)

MaskInv ==
  /\ panicked = FALSE
  /\ cpu \in [Cpu -> [ie : BOOLEAN, noff : Int, intena : BOOLEAN]]
  /\ \A c \in Cpu : MaskOf(c)

\* Where a CPU may have each of the locks, and where it must.
MayTx(c)    == top[c].pc = "w"
MayCons(c)  == \/ depth[c] = 1 /\ top[c].pc = "r"
               \/ depth[c] = 2 /\ top[c].pc \notin {"isr", "rx"}
MustCons(c) == depth[c] = 2 /\ top[c].pc \notin {"isr", "rx", "c"}
HasPr(c)    == \/ top[c].pc = "pr_end"
               \/ top[c].pc \in {"put", "putc"} /\ top[c].src = "print"

LocksOf(c) ==
  /\ owner["tx"] = c => MayTx(c)
  /\ owner["cons"] = c => MayCons(c)
  /\ MustCons(c) => owner["cons"] = c
  /\ owner["pr"] = c <=> HasPr(c)

OwnInv == owner \in [Lock -> Cpu \union {None}] /\ \A c \in Cpu : LocksOf(c)

Sources == {"write", "echo", "print"}

\* A write's byte is in the FIFO only while tx_busy says so, and who is about to
\* add another one has seen the FIFO without its own.
TxInv ==
  /\ tx \in Seq(Sources) /\ txIrq \in BOOLEAN /\ tx_busy \in BOOLEAN
  /\ OnePerSource
  /\ \A x \in 1 .. Len(tx) : tx[x] = "write" => tx_busy
  /\ \A c \in Cpu : top[c].pc = "putc" => \A x \in 1 .. Len(tx) : tx[x] # top[c].src

\* The character that has been echoed is about to be stored.
Storing(f) == f.pc = "c_store" \/ (f.pc \in {"put", "putc"} /\ f.src = "echo" /\ f.ret = "c_store")

\* The indices are in order, what they enclose has been typed, and there is room
\* for the character that is about to be stored.
RingInv ==
  /\ r \in 0 .. Wrap - 1 /\ w \in 0 .. Wrap - 1 /\ e \in 0 .. Wrap - 1
  /\ Sub(w, r) <= Sub(e, r) /\ Sub(e, r) <= INPUT_BUF_SIZE
  /\ buf \in [0 .. INPUT_BUF_SIZE - 1 -> Char \union {"nul"}]
  /\ \A i \in 0 .. INPUT_BUF_SIZE - 1 : i < Sub(e, r) => buf[Slot(r + i)] \in Char
  /\ \A c \in Cpu : Storing(top[c]) => Room

Reading == {"r", "r_asleep", "r_woken"}

\* What has been typed; a reader's bytes and those that it still wants.
ReadInv ==
  /\ rx \in Seq(Key) /\ input \in Seq(Key) /\ killed \in [Cpu -> BOOLEAN]
  /\ got \in [Cpu -> Seq(Char)]
  /\ \A c \in Cpu : /\ Len(got[c]) <= MaxRead
                    /\ proc[c].pc \in Reading => proc[c].n > 0 /\ proc[c].n + Len(got[c]) <= MaxRead

\* NobodyForgotten, of the stacks.
SleepInv ==
  /\ tx_busy => tx # <<>> \/ txIrq \/ \E c \in Cpu : top[c].pc = "isr"
  /\ \A c \in Cpu : /\ proc[c].pc = "w_asleep" => tx_busy
                    /\ proc[c].pc = "r_asleep" => r = w

Inv == StackInv /\ MaskInv /\ OwnInv /\ TxInv /\ RingInv /\ ReadInv /\ SleepInv
=============================================================================

-------------------------------- MODULE Uart --------------------------------
(***************************************************************************)
(* The driver of kernel/uart.c, the 16550 behind it, and printf's way      *)
(* around the driver.                                                      *)
(*                                                                         *)
(* run[c] is what CPU c has on its kernel stack: the frame of its process, *)
(* and above it the interrupt handler's when there is one.  A process      *)
(* stays on its CPU; Proc shows that it may move.                          *)
(***************************************************************************)
EXTENDS Spinlock, Sequences

CONSTANTS
  MaxWrite, \* bytes of a write
  CHUNK     \* bytes that consolewrite copies at a time

ASSUME UartAssumption == MaxWrite \in Nat /\ CHUNK \in Nat \ {0}

VARIABLES
  tx,       \* the bytes to be sent, by who wrote them: LSR_TX_IDLE when there is none
  txIrq,    \* the interrupt of an empty transmitter
  rx,       \* the bytes received
  tx_busy,
  claimed,  \* plic_claim has handed the interrupt to a CPU
  run

uart  == <<tx, txIrq, rx, tx_busy, claimed>>
uvars == <<lvars, uart, run>>

Frame == [pc |-> "user", n |-> 0, m |-> 0, ch |-> None, src |-> None, ret |-> "user",
          next |-> "user"]

UInit ==
  /\ tx = <<>> /\ txIrq = FALSE /\ rx = <<>> /\ tx_busy = FALSE /\ claimed = FALSE
  /\ run = [c \in Cpu |-> <<Frame>>]

Top(c)    == run[c][Len(run[c])]
At(c, l)  == Top(c).pc = l
Set(c, f) == run' = [run EXCEPT ![c][Len(run[c])] = f]
To(c, l)  == Set(c, [Top(c) EXCEPT !.pc = l])
Proc(c)   == run[c][1]

\* The process of CPU c, as a wakeup of the channel l leaves it.
Woken(f, l, k) == IF f.pc = l THEN [f EXCEPT !.pc = k] ELSE f

-----------------------------------------------------------------------------
(* uartputc_sync, by s, on the way to the label l *)

Put(c, s, l) == [Top(c) EXCEPT !.pc = "put", !.src = s, !.ret = l]

PutIdle(c) ==
  /\ At(c, "put") /\ tx = <<>>
  /\ cpu' = [cpu EXCEPT ![c] = PushOff(@)]
  /\ To(c, "putc")
  /\ UNCHANGED <<owner, panicked, uart>>

PutChar(c) ==
  /\ At(c, "putc")
  /\ tx' = Append(tx, Top(c).src) /\ txIrq' = FALSE
  /\ cpu' = [cpu EXCEPT ![c] = PopOff(@)] /\ panicked' = (panicked \/ Unmatched(cpu[c]))
  /\ Set(c, [Top(c) EXCEPT !.pc = Top(c).ret, !.src = None, !.ret = "user"])
  /\ UNCHANGED <<owner, rx, tx_busy, claimed>>

-----------------------------------------------------------------------------
(* printf, of one character, on the way to the label k *)

PrintAcquire(c, l) == Acquire(c, "pr") /\ Set(c, [Top(c) EXCEPT !.pc = "pr", !.next = l]) /\ UNCHANGED uart
PrintLocked(c)     == At(c, "pr") /\ Locked(c, "pr") /\ Set(c, Put(c, "print", "pr_end")) /\ UNCHANGED uart
PrintEnd(c)        == At(c, "pr_end") /\ Release(c, "pr") /\ Set(c, [Frame EXCEPT !.pc = Top(c).next]) /\ UNCHANGED uart

Printf(c) == PrintLocked(c) \/ PrintEnd(c)

-----------------------------------------------------------------------------
(* consolewrite and uartwrite: n bytes are left, m of them in the chunk *)

\* either_copyin
WriteChunk(c, n) ==
  /\ Acquire(c, "tx")
  /\ Set(c, [Frame EXCEPT !.pc = "w", !.n = n, !.m = IF n < CHUNK THEN n ELSE CHUNK])
  /\ UNCHANGED uart

WriteAgain(c) == At(c, "w_woken") /\ Acquire(c, "tx") /\ To(c, "w") /\ UNCHANGED uart

WriteSleep(c) ==
  /\ At(c, "w") /\ Top(c).m > 0 /\ tx_busy
  /\ SleepOn(c, "tx") /\ To(c, "w_asleep") /\ UNCHANGED uart

WriteByte(c) ==
  LET f == Top(c) IN
  /\ At(c, "w") /\ f.m > 0 /\ ~tx_busy
  /\ Locked(c, "tx")
  /\ tx' = Append(tx, "write") /\ txIrq' = FALSE /\ tx_busy' = TRUE
  /\ Set(c, [f EXCEPT !.n = @ - 1, !.m = @ - 1])
  /\ UNCHANGED <<rx, claimed>>

WriteEnd(c) == At(c, "w") /\ Top(c).m = 0 /\ Release(c, "tx") /\ To(c, "w_next") /\ UNCHANGED uart

\* The next chunk, or the end: nothing is left, or it is not the process's memory.
WriteNext(c) ==
  /\ At(c, "w_next")
  /\ \/ Top(c).n > 0 /\ WriteChunk(c, Top(c).n)
     \/ Set(c, Frame) /\ UNCHANGED <<lvars, uart>>

Write(c) == WriteAgain(c) \/ WriteSleep(c) \/ WriteByte(c) \/ WriteEnd(c) \/ WriteNext(c)

-----------------------------------------------------------------------------
(* The device, and the interrupt up to the received bytes *)

Transmit ==
  /\ tx # <<>> /\ tx' = Tail(tx) /\ txIrq' = (tx' = <<>>)
  /\ UNCHANGED <<lvars, rx, tx_busy, claimed, run>>

\* A trap to kerneltrap or usertrap, devintr and uartintr: reading ISR takes
\* back the transmitter's interrupt.
Interrupt(c) ==
  /\ cpu[c].ie /\ (txIrq \/ rx # <<>>) /\ ~claimed /\ claimed' = TRUE
  /\ txIrq' = FALSE
  /\ cpu' = [cpu EXCEPT ![c] = PushOff([@ EXCEPT !.ie = FALSE])]
  /\ panicked' = (panicked \/ owner["tx"] = c)
  /\ run' = [run EXCEPT ![c] = Append(@, [Frame EXCEPT !.pc = "isr"])]
  /\ UNCHANGED <<owner, tx, rx, tx_busy>>

\* wakeup(l), and the handler goes on at next.
Wakeup(c, l, k, next) ==
  run' = [d \in Cpu |-> LET s == [run[d] EXCEPT ![1] = Woken(@, l, k)]
                        IN IF d = c THEN [s EXCEPT ![Len(s)] = [Frame EXCEPT !.pc = next]] ELSE s]

\* Bug: any interrupt is taken for the transmitter's.
TxDoneAny(c) ==
  /\ At(c, "isr") /\ Release(c, "tx")
  /\ tx_busy' = FALSE /\ Wakeup(c, "w_asleep", "w_woken", "rx")
  /\ UNCHANGED <<tx, txIrq, rx, claimed>>

\* tx_busy is cleared if nothing is being sent, and the writers are woken.
TxDone(c) ==
  /\ At(c, "isr") /\ Release(c, "tx")
  /\ IF tx = <<>> THEN tx_busy' = FALSE /\ Wakeup(c, "w_asleep", "w_woken", "rx")
                  ELSE Set(c, [Frame EXCEPT !.pc = "rx"]) /\ UNCHANGED tx_busy
  /\ UNCHANGED <<tx, txIrq, rx, claimed>>

\* plic_complete, and the return from the trap.
Complete(c) ==
  /\ At(c, "rx") /\ rx = <<>> /\ claimed' = FALSE
  /\ run' = [run EXCEPT ![c] = <<run[c][1]>>]
  /\ cpu' = [cpu EXCEPT ![c].ie = TRUE]
  /\ UNCHANGED <<owner, panicked, tx, txIrq, rx, tx_busy>>

Isr(c) == TxDone(c) \/ Complete(c)
=============================================================================

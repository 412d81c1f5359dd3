----------------------------- MODULE VirtioDisk -----------------------------
(***************************************************************************)
(* The disk driver of kernel/virtio_disk.c, the device behind it and the   *)
(* interrupt between them.                                                 *)
(*                                                                         *)
(* What a process does while it holds vdisk_lock is one step: it gives the *)
(* lock up only in sleep, and what the device sees of it is the increment  *)
(* of avail->idx.  The interrupt handler holds the lock over several       *)
(* steps, between which the device completes further requests.  The PLIC   *)
(* delivers an interrupt to one CPU at a time, so there is one handler.    *)
(***************************************************************************)
EXTENDS Integers, Sequences, FiniteSets, FiniteSetsExt, SequencesExt

CONSTANTS
  Proc,     \* who calls: the processes
  Buf,      \* the buffers
  Block,    \* the disk's blocks
  Val, InitVal, \* the contents of a block
  None,
  NUM       \* descriptors

ASSUME VirtioAssumption == NUM \in Nat /\ NUM >= 3 /\ InitVal \in Val /\ None \notin Proc \union Buf

VARIABLES
  image,    \* the disk
  data, onDisk,  \* b->data, and b->disk: the device has the buffer
  free,     \* the descriptors that are free
  desc,     \* what they hold: a buffer, or nothing, and the next of the chain
  ops, info, \* by the head of a chain: the command; the buffer and the status
  avail, used, \* the rings: requests to the device, and completed ones
  irq,      \* the device's interrupt status
  intr,     \* the handler: idle, claimed, loop, complete
  rw        \* the frame of virtio_disk_rw of each process

driver == <<free, desc, ops, info>>
device == <<image, data, onDisk, avail, used, irq>>
dvars  == <<image, data, onDisk, free, desc, ops, info, avail, used, irq, intr, rw>>

Desc == 0 .. NUM - 1
End  == NUM
Clear == [b |-> None, next |-> End]
Out   == [pc |-> "out", b |-> None, w |-> FALSE, k |-> None, idx |-> End]

DInit ==
  /\ image = [k \in Block |-> InitVal] /\ data \in [Buf -> {InitVal}]
  /\ onDisk = [b \in Buf |-> FALSE]
  /\ free = Desc /\ desc = [i \in Desc |-> Clear]
  /\ ops = [i \in Desc |-> [w |-> FALSE, k |-> None]]
  /\ info = [i \in Desc |-> [b |-> None, done |-> FALSE]]
  /\ avail = <<>> /\ used = <<>> /\ irq = FALSE /\ intr = "idle"
  /\ rw = [p \in Proc |-> Out]

\* The handler is inside its critical section.
Busy == intr = "loop"

\* A call of virtio_disk_rw(b, w), and its return.
RwCall(p, b, k, w) ==
  rw' = [rw EXCEPT ![p] = [pc |-> "alloc", b |-> b, w |-> w, k |-> k, idx |-> End]]
Returned(p) == rw[p].pc = "out"

\* wakeup: who sleeps for a descriptor, or for buffer b, runs again.
WakeDesc(R) == [q \in Proc |-> IF R[q].pc = "nodesc" THEN [R[q] EXCEPT !.pc = "alloc"] ELSE R[q]]
WakeBuf(R, b) ==
  [q \in Proc |-> IF R[q].pc = "wait" /\ R[q].b = b THEN [R[q] EXCEPT !.pc = "check"] ELSE R[q]]

Chain(i) == {i, desc[i].next, desc[desc[i].next].next}

\* The first of the free descriptors.
AllocDesc(F) == Min(F)

\* The three descriptors of a chain, for the buffer b.
Format(i, j, l, b) ==
  [x \in Desc |-> CASE x = i -> [b |-> None, next |-> j]
                   [] x = j -> [b |-> b, next |-> l]
                   [] x = l -> Clear
                   [] OTHER -> desc[x]]

\* Three descriptors, formatted and published.
RwStart(p) ==
  LET i == AllocDesc(free)
      j == AllocDesc(free \ {i})
      l == AllocDesc(free \ {i, j})
      r == rw[p]
  IN /\ r.pc = "alloc" /\ ~Busy /\ Cardinality(free) >= 3
     /\ free' = free \ {i, j, l}
     /\ ops'  = [ops EXCEPT ![i] = [w |-> r.w, k |-> r.k]]
     /\ desc' = Format(i, j, l, r.b)
     /\ info' = [info EXCEPT ![i] = [b |-> r.b, done |-> FALSE]]
     /\ onDisk' = [onDisk EXCEPT ![r.b] = TRUE]
     /\ avail'  = Append(avail, i)
     /\ rw' = [rw EXCEPT ![p] = [r EXCEPT !.pc = "wait", !.idx = i]]
     /\ UNCHANGED <<image, data, used, irq, intr>>

\* Bug: the descriptors that were found are kept.
RwNoDescKept(p) ==
  /\ rw[p].pc = "alloc" /\ ~Busy /\ Cardinality(free) < 3
  /\ free' = {}
  /\ rw' = [rw EXCEPT ![p].pc = "nodesc"]
  /\ UNCHANGED <<device, desc, ops, info, intr>>

\* alloc3_desc gives back what it has found, which wakes the others that wait.
RwNoDesc(p) ==
  /\ rw[p].pc = "alloc" /\ ~Busy /\ Cardinality(free) < 3
  /\ rw' = [(IF free = {} THEN rw ELSE WakeDesc(rw)) EXCEPT ![p].pc = "nodesc"]
  /\ UNCHANGED <<device, driver, intr>>

\* Bug: if(b->disk == 1) sleep(...), so that any wakeup will do.
RwDoneAny(p) ==
  LET r == rw[p] IN
  /\ r.pc = "check" /\ ~Busy
  /\ info' = [info EXCEPT ![r.idx].b = None]
  /\ free' = free \union Chain(r.idx)
  /\ desc' = [i \in Desc |-> IF i \in Chain(r.idx) THEN Clear ELSE desc[i]]
  /\ rw' = WakeDesc([rw EXCEPT ![p] = Out])
  /\ UNCHANGED <<device, ops, intr>>

\* The request has finished: free_chain wakes who waits for descriptors.
RwDone(p) ==
  LET r == rw[p] IN
  /\ r.pc = "check" /\ ~Busy /\ ~onDisk[r.b]
  /\ info' = [info EXCEPT ![r.idx].b = None]
  /\ free' = free \union Chain(r.idx)
  /\ desc' = [i \in Desc |-> IF i \in Chain(r.idx) THEN Clear ELSE desc[i]]
  /\ rw' = WakeDesc([rw EXCEPT ![p] = Out])
  /\ UNCHANGED <<device, ops, intr>>

\* A wakeup that was not the device's.
RwAgain(p) ==
  /\ rw[p].pc = "check" /\ ~Busy /\ onDisk[rw[p].b]
  /\ rw' = [rw EXCEPT ![p].pc = "wait"]
  /\ UNCHANGED <<device, driver, intr>>

-----------------------------------------------------------------------------
\* The device takes a request, in any order, and raises its interrupt.
Complete(x) ==
  LET i == avail[x]
      b == desc[desc[i].next].b
      k == ops[i].k
  IN /\ IF ops[i].w THEN image' = [image EXCEPT ![k] = data[b]] /\ UNCHANGED data
                    ELSE data' = [data EXCEPT ![b] = image[k]] /\ UNCHANGED image
     /\ info'  = [info EXCEPT ![i].done = TRUE]
     /\ avail' = RemoveAt(avail, x)
     /\ used'  = Append(used, i)
     /\ irq'   = TRUE
     /\ UNCHANGED <<onDisk, free, desc, ops, intr, rw>>

Device == \E x \in 1 .. Len(avail) : Complete(x)

\* trap to devintr, plic_claim
Claim ==
  /\ irq /\ intr = "idle" /\ intr' = "claimed"
  /\ UNCHANGED <<device, driver, rw>>

\* acquire, then the acknowledgement; a completion from here on raises it again.
Ack ==
  /\ intr = "claimed" /\ intr' = "loop"
  /\ irq' = FALSE
  /\ UNCHANGED <<image, data, onDisk, avail, used, driver, rw>>

HandleUsed ==
  LET b == info[Head(used)].b IN
  /\ intr = "loop" /\ used # <<>>
  /\ onDisk' = [onDisk EXCEPT ![b] = FALSE]
  /\ used'   = Tail(used)
  /\ rw'     = WakeBuf(rw, b)
  /\ UNCHANGED <<image, data, avail, irq, driver, intr>>

Handled ==
  /\ intr = "loop" /\ used = <<>> /\ intr' = "complete"
  /\ UNCHANGED <<device, driver, rw>>

\* Bug: the interrupt is acknowledged after the loop.
CompletedAck ==
  /\ intr = "complete" /\ intr' = "idle"
  /\ irq' = FALSE
  /\ UNCHANGED <<image, data, onDisk, avail, used, driver, rw>>

\* plic_complete
Completed ==
  /\ intr = "complete" /\ intr' = "idle"
  /\ UNCHANGED <<device, driver, rw>>

Handler == Claim \/ Ack \/ HandleUsed \/ Handled \/ Completed

-----------------------------------------------------------------------------
\* A descriptor is free, in one chain, or nowhere between two steps.
DTypeOK ==
  /\ image \in [Block -> Val] /\ data \in [Buf -> Val] /\ onDisk \in [Buf -> BOOLEAN]
  /\ free \subseteq Desc /\ \A i \in free : desc[i] = Clear
  /\ Len(avail) + Len(used) <= NUM \div 3
  /\ \A p \in Proc : rw[p].pc \in {"out", "alloc", "nodesc", "wait", "check"}
  /\ Cardinality(free) + 3 * Cardinality({p \in Proc : rw[p].pc \in {"wait", "check"}}) = NUM

\* The device only works on a buffer of a process that waits for it, through
\* descriptors that nobody else has; a status is looked at when it is there,
\* and no descriptor is freed twice.
DmaSafe ==
  /\ \A x \in 1 .. Len(avail) : LET i == avail[x] IN
       \E p \in Proc : /\ rw[p].pc \in {"wait", "check"} /\ rw[p].idx = i
                       /\ onDisk[rw[p].b] /\ desc[desc[i].next].b = rw[p].b
                       /\ ops[i] = [w |-> rw[p].w, k |-> rw[p].k]
  /\ \A x \in 1 .. Len(used) : info[used[x]].done /\ info[used[x]].b # None
  /\ \A p, q \in Proc : rw[p].idx # End =>
       /\ Chain(rw[p].idx) \intersect free = {}
       /\ p # q /\ rw[q].idx # End => Chain(rw[p].idx) \intersect Chain(rw[q].idx) = {}
=============================================================================

----------------------------- MODULE RunnerInv -----------------------------
(***************************************************************************)
(* The strengthening that makes the invariants of Runner inductive: the    *)
(* events in the order in which they are sent, whichever interface has     *)
(* received how many of them; what the scanner has seen of a QEMU; which   *)
(* seed the files on disk have.                                            *)
(***************************************************************************)
EXTENDS Runner

\* The runner works on run r.i.
Running == r.pc \in {"build", "boot", "wait", "emit"}

\* It has sent its last event.
Finished == r.pc \in {"close", "end"}

RunnerInv ==
  /\ Running => r.i <= Repeat
  /\ r.pc \in {"off", "start"} => r.i = 1
  /\ r.pc = "last" => r.i > 1 /\ r.res.outcome = "timeout"
  /\ closed => r.pc = "end"

\* A QEMU lives while its run is waited for, and is killed by nothing else.
QemuInv == \A i \in Index :
  /\ i > r.i \/ (i = r.i /\ r.pc \notin {"wait", "emit"}) => qemu[i] = "off"
  /\ i < r.i \/ (i = r.i /\ r.pc = "emit") => qemu[i] # "alive"
  /\ i = r.i /\ r.pc = "wait" => qemu[i] \in {"alive", "exited"}
  /\ qemu[i] = "off" => out[i] = <<>> /\ scan[i].pc = "off"

\* What a scanner has read and said.
ScanInv == \A i \in Index :
  /\ scan[i].n <= Len(out[i])
  /\ scan[i].pc = "read" => FindMarker(SubSeq(out[i], 1, scan[i].n)) = ""
  /\ scan[i].pc = "returned" =>
       \/ scan[i].verdict = ClassifyMarker(FindMarker(out[i])) /\ FindMarker(out[i]) # ""
       \/ /\ scan[i].verdict = <<"fail", "exit">> /\ FindMarker(out[i]) = ""
          /\ qemu[i] \in {"exited", "killed"}

\* A file that make takes to be up to date has the seed in .seedstamp.
SeedInv ==
  /\ \A x \in Part \ old : obj[x] \in {None, stamp}
  /\ r.pc = "boot" => obj = [x \in Part |-> RunSeed(r.i)]
  /\ \A i \in Index : qemu[i] # "off" => booted[i] = [x \in Part |-> RunSeed(i)]

\* The result of run i, which does not change any more.
IsResult(res, i) ==
  /\ i \in Index /\ res.i = i /\ Told(res)
  /\ i = r.i - 1 /\ r.pc # "emit" => res = r.res

\* The n-th event of the session.
IsEvent(ev, n) ==
  \/ n = 1 /\ ev.kind = "started"
  \/ n \in 2 .. r.i /\ ev.kind = "result" /\ IsResult(ev.res, n - 1)
  \/ /\ n = r.i + 1 /\ Finished /\ ev.kind \in {"done", "error"}
     /\ ev.kind = "done" => r.i = Repeat + 1 \/ (r.i > 1 /\ r.res.outcome = "timeout")

\* How many events the runner has sent, and how many the interface has applied.
Sent ==
  IF r.pc \in {"off", "start"} THEN 0 ELSE IF Finished THEN r.i + 1 ELSE r.i
Applied ==
  IF ui.phase \in {"splash", "boot"} THEN 0
  ELSE IF Ended THEN Len(ui.results) + 2 ELSE Len(ui.results) + 1
Received == IF msgs = {} THEN 0 ELSE 1

\* The events arrive once, in order.
StreamInv ==
  /\ Sent = Applied + Received + Len(ch)
  /\ \A x \in 1 .. Len(ch) : IsEvent(ch[x], Applied + Received + x)
  /\ \A ev \in msgs : msgs = {ev} /\ IsEvent(ev, Applied + 1)
  /\ \A k \in 1 .. Len(ui.results) : k < r.i /\ IsResult(ui.results[k], k)

UiInv ==
  /\ ui.phase = "splash" <=> r.pc = "off"
  /\ ui.phase \in {"splash", "boot"} => ui.results = <<>>
  /\ ui.waiting + Received =
       IF mode = "tui" /\ ui.phase \in {"boot", "running"} THEN 1 ELSE 0
  /\ ui.failures <= Len(ui.results)
  /\ ui.failures = 0 <=> \A k \in 1 .. Len(ui.results) : ui.results[k].outcome = "pass"
  /\ mode = "headless" /\ Ended => over
  /\ over => quit \/ Finished

EmitInv == r.pc = "emit" => r.res.i = r.i /\ Told(r.res)

IInv ==
  /\ TypeOK /\ RunnerInv /\ QemuInv /\ ScanInv /\ SeedInv /\ EmitInv /\ StreamInv /\ UiInv
  /\ ReportTrue
=============================================================================

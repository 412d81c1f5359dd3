------------------------------- MODULE Runner -------------------------------
(***************************************************************************)
(* The racegrader command: the goroutine that builds the kernel and boots  *)
(* it again and again (cli/internal/run), the goroutine that reads what    *)
(* QEMU prints, and the two user interfaces that collect the results       *)
(* (cli/internal/headless, cli/internal/tui).                              *)
(*                                                                         *)
(* QEMU and the kernel in it do what they like: print a prompt and         *)
(* markers, hang, or exit.  Texts are reduced to the complete lines that   *)
(* the scanner looks for.                                                  *)
(***************************************************************************)
EXTENDS Integers, Sequences, SequencesExt

CONSTANTS
  Repeat,   \* --repeat
  Bases,    \* values of --seed, 0 excepted, which stands for a positive one
  SeedMod,  \* seeds have 32 bits in the code
  Before,   \* the seed of an earlier session's files, None when there are none
  Cap,      \* the capacity of the channel of events
  MaxOut    \* bound on the markers that one boot prints

ASSUME RunnerAssumption ==
  /\ Repeat \in Nat \ {0} /\ Cap \in Nat \ {0} /\ MaxOut \in Nat
  /\ Bases \subseteq Int \ {0} /\ SeedMod \in Nat \ {0}
  /\ Before \subseteq -1 .. SeedMod - 1

VARIABLES
  mode,       \* "headless" or "tui"
  r,          \* the runner: pc, the index i, the result to send
  base, lastSeed, \* of the Runner
  stamp,      \* the seed in .seedstamp
  obj,        \* the seed in each part of the kernel's files, None when it is missing
  old,        \* the parts that are older than .seedstamp
  booted,     \* the seeds in what each run has booted
  qemu,       \* QEMU of each run: "off", "alive", "exited" or "killed"
  out,        \* what it has printed
  scan,       \* the scanner of each run: pc, lines read, command sent, verdict
  expired,    \* the timeout of the current run has passed
  cancelled,  \* ctx is cancelled
  ch, closed, \* the channel of events
  ui,         \* phase, results, failures, waitEvent commands that are waiting
  msgs,       \* events that a waitEvent command has received for Update
  quit,       \* ctrl+c was pressed
  report,     \* the report on disk
  over        \* the process has exited

guest == <<qemu, out, scan>>
files == <<stamp, obj, old>>
build == <<base, lastSeed, files, booted>>
view  == <<ui, msgs, report, over>>
rest  == <<mode, cancelled, view, quit, build>>
vars  == <<mode, r, guest, build, expired, cancelled, ch, closed, view, quit>>

None    == -1
Index   == 1 .. Repeat
Marker  == {"done", "fail"}
Line    == Marker \union {"prompt"}

\* The files that depend on the seed.  The runner removes chaos.o, printf.o, cow_test.o and
\* what is linked from them ("chaos"), but not race_stress.o and fork_race.o ("stress").
Part == {"chaos", "stress"}
Verdict == {<<"pass", "marker">>, <<"fail", "marker">>, <<"fail", "exit">>}
NoVerdict == <<"", "">>

Result(i, o, d) == [i |-> i, outcome |-> o, detail |-> d]
NoResult == Result(0, "", "")
Event(kind)  == [kind |-> kind, res |-> NoResult]
NoReport == [passed |-> FALSE, results |-> <<>>, written |-> FALSE]

\* headless.Run, or tui.Start with and without --skip-boot
Init ==
  /\ mode \in {"headless", "tui"}
  /\ \E skip \in BOOLEAN :
       LET started == mode = "headless" \/ skip IN
       /\ r = [pc |-> IF started THEN "start" ELSE "off", i |-> 1, res |-> NoResult]
       /\ ui = [phase |-> IF started THEN "boot" ELSE "splash", results |-> <<>>, failures |-> 0,
                waiting |-> IF mode = "tui" /\ skip THEN 1 ELSE 0]
  /\ qemu = [i \in Index |-> "off"]
  /\ out  = [i \in Index |-> <<>>]
  /\ scan = [i \in Index |-> [pc |-> "off", n |-> 0, sent |-> FALSE, verdict |-> NoVerdict]]
  /\ expired = FALSE /\ cancelled = FALSE /\ quit = FALSE /\ over = FALSE
  /\ ch = <<>> /\ closed = FALSE /\ msgs = {}
  /\ report = NoReport
  /\ base \in Bases /\ lastSeed = None
  /\ stamp \in Before /\ obj = [x \in Part |-> stamp] /\ old = {}
  /\ booted = [i \in Index |-> [x \in Part |-> None]]

-----------------------------------------------------------------------------
(* Runner.Run *)

At(l)    == ~over /\ r.pc = l
Send(ev) == Len(ch) < Cap /\ ch' = Append(ch, ev)
Step(l)  == r' = [r EXCEPT !.pc = l]

RunStart ==
  /\ At("start")
  /\ Send(Event("started"))
  /\ Step("top")
  /\ UNCHANGED <<guest, expired, closed, rest>>

\* Bug: a cancelled session just stops.
RunCancelledSilent ==
  /\ At("top") /\ r.i <= Repeat /\ cancelled
  /\ Step("close")
  /\ UNCHANGED <<guest, expired, ch, closed, rest>>

RunCancelled ==
  /\ At("top") /\ r.i <= Repeat /\ cancelled
  /\ Send(Event("error"))
  /\ Step("close")
  /\ UNCHANGED <<guest, expired, closed, rest>>

RunNext ==
  /\ At("top") /\ r.i <= Repeat /\ ~cancelled
  /\ Step("build")
  /\ UNCHANGED <<guest, expired, ch, closed, rest>>

RunDone ==
  /\ At("last") \/ (At("top") /\ r.i > Repeat)
  /\ Send(Event("done"))
  /\ Step("close")
  /\ UNCHANGED <<guest, expired, closed, rest>>

RunClose ==
  /\ At("close")
  /\ closed' = TRUE
  /\ Step("end")
  /\ UNCHANGED <<guest, expired, ch, rest>>

Emit(o, d) == r' = [r EXCEPT !.pc = "emit", !.res = Result(r.i, o, d)]

\* After a timeout the remaining runs are skipped.
SendResult ==
  /\ At("emit")
  /\ Send([kind |-> "result", res |-> r.res])
  /\ r' = [r EXCEPT !.pc = IF r.res.outcome = "timeout" THEN "last" ELSE "top", !.i = @ + 1]
  /\ UNCHANGED <<guest, expired, closed, rest>>

\* runSeed
RunSeed(i) == (IF base + i - 1 <= 0 THEN 1 ELSE base + i - 1) % SeedMod

\* What ensureBuilt leaves: it removes some files if the seed is not the last one.
Left == IF lastSeed # RunSeed(r.i) THEN [obj EXCEPT !["chaos"] = None] ELSE obj

\* Bug: race_stress.o and fork_race.o do not depend on .seedstamp.
StampedRemoved == {"chaos"}

\* The parts that depend on .seedstamp, which make writes anew when SEED changes.
Stamped == Part

\* What make has to make: what is missing, and what is older than .seedstamp.
Outdated == {x \in Part : Left[x] = None} \union old
            \union (IF stamp # RunSeed(r.i) THEN Stamped ELSE {})

\* make has made the parts D.
Made(D) ==
  /\ stamp' = RunSeed(r.i)
  /\ obj' = [x \in Part |-> IF x \in D THEN RunSeed(r.i) ELSE Left[x]]
  /\ old' = Outdated \ D

\* ensureBuilt.  A make that fails may have done a part of its work, or nothing.
Build ==
  /\ At("build")
  /\ \/ Step("boot") /\ Made(Outdated) /\ lastSeed' = RunSeed(r.i)
     \/ Emit("fail", "build") /\ (\E D \in SUBSET Outdated : Made(D)) /\ UNCHANGED lastSeed
     \/ Emit("fail", "build") /\ obj' = Left /\ UNCHANGED <<stamp, old, lastSeed>>
  /\ UNCHANGED <<guest, expired, ch, closed, mode, cancelled, view, quit, base, booted>>

\* runQEMU up to cmd.Start and the goroutine that scans.  The same SEED is given to make,
\* which finds all up to date.
Boot ==
  /\ At("boot") /\ ~cancelled
  /\ Step("wait")
  /\ expired' = FALSE
  /\ qemu' = [qemu EXCEPT ![r.i] = "alive"]
  /\ booted' = [booted EXCEPT ![r.i] = obj]
  /\ scan' = [scan EXCEPT ![r.i].pc = "read"]
  /\ UNCHANGED <<out, ch, closed, mode, cancelled, view, quit, base, lastSeed, files>>

BootFail ==
  /\ At("boot")
  /\ Emit("fail", "start")
  /\ UNCHANGED <<guest, expired, ch, closed, rest>>

\* Bug: only make is killed, and QEMU goes on.
KillLeader == UNCHANGED qemu

\* killProcessGroup and cmd.Wait; QEMU may have exited before.
KillGroup == qemu' = [qemu EXCEPT ![r.i] = IF @ = "alive" THEN "killed" ELSE @]

\* The branches of select.  When both are ready, either may be taken.
TimedOut ==
  /\ At("wait") /\ (expired \/ cancelled)
  /\ KillGroup
  /\ IF cancelled THEN Emit("fail", "cancelled") ELSE Emit("timeout", "timeout")
  /\ UNCHANGED <<out, scan, expired, ch, closed, rest>>

Judged ==
  /\ At("wait") /\ scan[r.i].pc = "returned"
  /\ KillGroup
  /\ Emit(scan[r.i].verdict[1], scan[r.i].verdict[2])
  /\ UNCHANGED <<out, scan, expired, ch, closed, rest>>

TimeUp ==
  /\ At("wait") /\ ~expired
  /\ expired' = TRUE
  /\ UNCHANGED <<r, guest, ch, closed, rest>>

-----------------------------------------------------------------------------
(* scanQEMU *)

\* Line x is the first marker of the lines s.
First(s, x) == x \in 1 .. Len(s) /\ s[x] \in Marker /\ \A y \in 1 .. x - 1 : s[y] \notin Marker

\* The first marker, "" if there is none.
FindMarker(s) ==
  IF \E x \in 1 .. Len(s) : First(s, x) THEN s[CHOOSE x \in 1 .. Len(s) : First(s, x)] ELSE ""

ClassifyMarker(l) == IF l = "done" THEN <<"pass", "marker">> ELSE <<"fail", "marker">>

Reading(i) == ~over /\ scan[i].pc = "read"

\* One Read, of some of the lines that are there, and what is done with the
\* text so far.
ScanRead(i, n) ==
  LET text == SubSeq(out[i], 1, n)
      m    == FindMarker(text) IN
  /\ Reading(i) /\ scan[i].n < n /\ n <= Len(out[i])
  /\ scan' = [scan EXCEPT ![i] =
       [pc |-> IF m = "" THEN "read" ELSE "returned", n |-> n,
        sent |-> scan[i].sent \/ "prompt" \in ToSet(text),
        verdict |-> IF m = "" THEN scan[i].verdict ELSE ClassifyMarker(m)]]
  /\ UNCHANGED <<r, qemu, out, expired, ch, closed, rest>>

\* Read returns EOF: nobody has the other end of the pipe any more.
ScanEnd(i) ==
  /\ Reading(i) /\ scan[i].n = Len(out[i]) /\ qemu[i] \in {"exited", "killed"}
  /\ scan' = [scan EXCEPT ![i] = [@ EXCEPT !.pc = "returned", !.verdict = <<"fail", "exit">>]]
  /\ UNCHANGED <<r, qemu, out, expired, ch, closed, rest>>

-----------------------------------------------------------------------------
(* QEMU *)

\* The command prints DONE; assertions and panics print FAIL at any time.
\* Bounds: the prompt is the first line, if it comes at all, and there are at most
\* MaxOut markers.
PrintLine(i, l) ==
  /\ qemu[i] = "alive"
  /\ Len(out[i]) < MaxOut \/ (Len(out[i]) = MaxOut /\ out[i] # <<>> /\ out[i][1] = "prompt")
  /\ l = "prompt" => out[i] = <<>>
  /\ l = "done" => scan[i].sent
  /\ out' = [out EXCEPT ![i] = Append(@, l)]
  /\ UNCHANGED <<r, qemu, scan, expired, ch, closed, rest>>

Crash(i) ==
  /\ qemu[i] = "alive"
  /\ qemu' = [qemu EXCEPT ![i] = "exited"]
  /\ UNCHANGED <<r, out, scan, expired, ch, closed, rest>>

-----------------------------------------------------------------------------
(* The user interfaces *)

Ended == ui.phase \in {"done", "error"}

\* The counts of headless.Run and applyEventNoWait
Count(res) == IF res.outcome = "pass" THEN 0 ELSE 1

\* One event, with w waitEvent commands afterwards.
Apply(ev, w) ==
  /\ ui' = [phase |-> CASE ev.kind = "done" -> "done"
                        [] ev.kind = "error" -> "error"
                        [] OTHER -> IF ui.phase = "boot" THEN "running" ELSE ui.phase,
            results  |-> IF ev.kind = "result" THEN Append(ui.results, ev.res) ELSE ui.results,
            failures |-> ui.failures + IF ev.kind = "result" THEN Count(ev.res) ELSE 0,
            waiting  |-> w]
  /\ IF ev.kind = "done"
     THEN report' \in {report, [passed |-> ui.failures = 0, results |-> ui.results,
                               written |-> TRUE]}
     ELSE UNCHANGED report

\* headless.Run: range over the channel
HeadlessEvent ==
  /\ ~over /\ mode = "headless" /\ ch # <<>>
  /\ ch' = Tail(ch)
  /\ Apply(Head(ch), 0)
  /\ over' = (Head(ch).kind \in {"done", "error"})
  /\ UNCHANGED <<mode, build, r, guest, expired, cancelled, closed, msgs, quit>>

\* Bug: a tick after the splash screen starts another waitEvent.
TickAgain ==
  /\ ~over /\ mode = "tui" /\ ui.phase \in {"splash", "boot"} /\ ui.waiting < 2
  /\ r' = [r EXCEPT !.pc = IF @ = "off" THEN "start" ELSE @]
  /\ ui' = [ui EXCEPT !.phase = "boot", !.waiting = @ + 1]
  /\ UNCHANGED <<mode, build, guest, expired, cancelled, ch, closed, msgs, report, over, quit>>

\* The end of the splash screen; startRunner starts the runner once.
Tick ==
  /\ ~over /\ mode = "tui" /\ ui.phase = "splash"
  /\ r' = [r EXCEPT !.pc = IF @ = "off" THEN "start" ELSE @]
  /\ ui' = [ui EXCEPT !.phase = "boot", !.waiting = @ + 1]
  /\ UNCHANGED <<mode, build, guest, expired, cancelled, ch, closed, msgs, report, over, quit>>

\* A closed channel counts as the end.
WaitEvent ==
  /\ ~over /\ ui.waiting > 0
  /\ \/ ch # <<>> /\ ch' = Tail(ch) /\ msgs' = msgs \union {Head(ch)}
     \/ ch = <<>> /\ closed /\ UNCHANGED ch /\ msgs' = msgs \union {Event("done")}
  /\ ui' = [ui EXCEPT !.waiting = @ - 1]
  /\ UNCHANGED <<mode, build, r, guest, expired, cancelled, closed, report, over, quit>>

\* Bug: only a result is followed by another waitEvent.
UpdateDeaf(ev) ==
  /\ ~over /\ ev \in msgs
  /\ msgs' = msgs \ {ev}
  /\ Apply(ev, IF ev.kind = "result" THEN ui.waiting + 1 ELSE ui.waiting)
  /\ UNCHANGED <<mode, build, r, guest, expired, cancelled, ch, closed, over, quit>>

\* Update: applyEvent
Update(ev) ==
  /\ ~over /\ ev \in msgs
  /\ msgs' = msgs \ {ev}
  /\ Apply(ev, IF ev.kind \in {"done", "error"} THEN ui.waiting ELSE ui.waiting + 1)
  /\ UNCHANGED <<mode, build, r, guest, expired, cancelled, ch, closed, over, quit>>

\* Update: ctrl+c.  The program ends when it handles the message of tea.Quit.
CtrlC ==
  /\ ~over /\ mode = "tui" /\ ~quit
  /\ cancelled' = TRUE /\ quit' = TRUE
  /\ UNCHANGED <<mode, build, r, guest, expired, ch, closed, view>>

Quit ==
  /\ ~over /\ quit
  /\ over' = TRUE
  /\ UNCHANGED <<mode, build, r, guest, expired, cancelled, ch, closed, ui, msgs, report, quit>>

-----------------------------------------------------------------------------
RunnerStep ==
  \/ RunStart \/ RunCancelled \/ RunNext \/ RunDone \/ RunClose \/ SendResult
  \/ Build \/ Boot \/ BootFail \/ TimedOut \/ Judged
ScanStep(i) == ScanEnd(i) \/ \E n \in 1 .. MaxOut + 1 : ScanRead(i, n)
UiStep == HeadlessEvent \/ Tick \/ WaitEvent \/ \E ev \in msgs : Update(ev)

Qemu(i) == Crash(i) \/ \E l \in Line : PrintLine(i, l)

Next ==
  \/ RunnerStep \/ TimeUp \/ UiStep \/ CtrlC \/ Quit
  \/ \E i \in Index : ScanStep(i) \/ Qemu(i)

Spec == Init /\ [][Next]_vars

\* Goroutines run, and a context reaches its deadline.  make ends.  Nothing is
\* assumed of QEMU or of the user.
Fairness ==
  /\ WF_vars(RunnerStep) /\ WF_vars(TimeUp) /\ WF_vars(UiStep)
  /\ \A i \in Index : WF_vars(ScanStep(i))

FairSpec == Spec /\ Fairness

-----------------------------------------------------------------------------
(* What must hold. *)

ResultType == [i : 0 .. Repeat, outcome : {"", "pass", "fail", "timeout"},
               detail : {"", "build", "start", "cancelled", "timeout", "marker", "exit"}]
EventType == [kind : {"started", "result", "done", "error"}, res : ResultType]
RunType  == [pc : {"off", "start", "top", "build", "boot", "wait", "emit", "last", "close", "end"},
             i : 1 .. Repeat + 1, res : ResultType]
ScanType == [pc : {"off", "read", "returned"}, n : 0 .. MaxOut + 1, sent : BOOLEAN,
             verdict : Verdict \union {NoVerdict}]
UiType   == [phase : {"splash", "boot", "running", "done", "error"}, results : Seq(ResultType),
             failures : 0 .. Repeat, waiting : {0, 1}]
ReportType == [passed : BOOLEAN, results : Seq(ResultType), written : BOOLEAN]

\* The type invariant.
TypeOK ==
  /\ mode \in {"headless", "tui"}
  /\ r \in RunType
  /\ qemu \in [Index -> {"off", "alive", "exited", "killed"}]
  /\ out \in [Index -> Seq(Line)] /\ \A i \in Index : Len(out[i]) <= MaxOut + 1
  /\ scan \in [Index -> ScanType]
  /\ {expired, cancelled, closed, quit, over} \subseteq BOOLEAN
  /\ base \in Bases /\ {lastSeed, stamp} \subseteq None .. SeedMod - 1
  /\ obj \in [Part -> None .. SeedMod - 1] /\ old \subseteq Part
  /\ booted \in [Index -> [Part -> None .. SeedMod - 1]]
  /\ ch \in Seq(EventType) /\ Len(ch) <= Cap /\ msgs \subseteq EventType
  /\ ui \in UiType /\ report \in ReportType

\* The result says what QEMU did.
Told(res) ==
  LET m == FindMarker(out[res.i]) IN
  /\ res.outcome = "pass" => m = "done"
  /\ res.detail = "exit" => qemu[res.i] = "exited" /\ m = ""
  /\ res = Result(res.i, "fail", "marker") => m = "fail"

\* The first marker that QEMU printed decides; a run without one fails only if
\* QEMU exited by itself, the session was cancelled or nothing was booted.  What
\* is said of a run is said of a kernel, and of programs, all of whose files have
\* the seed that the result names, whatever builds failed before.
VerdictHonest == \A k \in DOMAIN ui.results :
  LET res == ui.results[k] IN
  /\ Told(res)
  /\ FindMarker(out[res.i]) # "" => booted[res.i] = [x \in Part |-> RunSeed(res.i)]

\* Every run's result arrives once, in the order of the runs, and a report says
\* PASS exactly if every one of the runs asked for has passed.
ReportTrue ==
  /\ \A k \in DOMAIN ui.results : ui.results[k].i = k
  /\ report.written =>
       (report.passed <=> /\ Len(report.results) = Repeat
                          /\ \A k \in Index : report.results[k].outcome = "pass")

\* A QEMU lives only while its run is waited for: two never share one kernel
\* directory, and none survives the session (unless ctrl+c ends it).
QemuAwaited == \A i \in Index : qemu[i] = "alive" => r.pc = "wait" /\ r.i = i /\ (over => quit)

\* A session ends, whatever QEMU does, and no scanner is left behind.
SessionEnds ==
  /\ <>(Ended \/ over)
  /\ \A i \in Index : scan[i].pc = "read" ~> scan[i].pc = "returned" \/ over
=============================================================================

---------------------------- MODULE RunnerProofs ----------------------------
(***************************************************************************)
(* For any number of runs and any capacity of the channel: every result    *)
(* arrives once, in order, says what QEMU did, and no QEMU outlives its    *)
(* run.                                                                    *)
(*                                                                         *)
(* The argument: the n-th event of the session is determined by what the   *)
(* runner has done (IsEvent), a step does not change what has been done    *)
(* (Kept), and the interface has applied a prefix of the events (StreamInv). *)
(***************************************************************************)
EXTENDS RunnerInv, SequenceTheorems, TLAPS

USE DEF RunType, UiType, ReportType

-----------------------------------------------------------------------------
(* Lines and markers *)

\* The scanner's search has one answer.
LEMMA MarkerOf ==
  ASSUME NEW s \in Seq(Line), NEW x, First(s, x)
  PROVE  FindMarker(s) = s[x] /\ s[x] \in Marker
<1> DEFINE y == CHOOSE z \in 1 .. Len(s) : First(s, z)
<1>1. x \in 1 .. Len(s) /\ y \in 1 .. Len(s) /\ First(s, y)
  BY DEF First
<1>2. x = y
  BY <1>1 DEF First
<1> QED
  BY <1>1, <1>2 DEF FindMarker, First

\* It finds a marker or nothing.
LEMMA MarkerType ==
  ASSUME NEW s \in Seq(Line)
  PROVE  FindMarker(s) \in Marker \union {""} /\ (FindMarker(s) # "" <=> \E x : First(s, x))
<1>1. CASE \E x \in 1 .. Len(s) : First(s, x)
  <2>1. PICK x \in 1 .. Len(s) : First(s, x)
    BY <1>1
  <2> QED
    BY <2>1, MarkerOf DEF Marker
<1>2. CASE ~ \E x \in 1 .. Len(s) : First(s, x)
  BY <1>2 DEF FindMarker, First
<1> QED
  BY <1>1, <1>2

\* One line more.
LEMMA Appended ==
  ASSUME NEW s \in Seq(Line), NEW l \in Line
  PROVE  /\ Append(s, l) \in Seq(Line) /\ Len(Append(s, l)) = Len(s) + 1
         /\ \A x \in 1 .. Len(s) : Append(s, l)[x] = s[x]
OBVIOUS

\* The first marker of a prefix is that of the whole.
LEMMA FirstKept ==
  ASSUME NEW s \in Seq(Line), NEW t \in Seq(Line), Len(s) <= Len(t),
         \A x \in 1 .. Len(s) : t[x] = s[x]
  PROVE  \A x : First(s, x) => First(t, x) /\ t[x] = s[x]
<1> SUFFICES ASSUME NEW x, First(s, x) PROVE First(t, x) /\ t[x] = s[x]
  OBVIOUS
<1>1. Len(s) \in Nat /\ Len(t) \in Nat
  OBVIOUS
<1>2. x \in 1 .. Len(s) /\ x \in 1 .. Len(t) /\ \A y \in 1 .. x - 1 : y \in 1 .. Len(s)
  BY <1>1 DEF First
<1> QED
  BY <1>2 DEF First

\* What is printed after the first marker does not change it.
LEMMA MarkerKept ==
  ASSUME NEW s \in Seq(Line), NEW t \in Seq(Line), Len(s) <= Len(t),
         \A x \in 1 .. Len(s) : t[x] = s[x],
         FindMarker(s) # ""
  PROVE  FindMarker(t) = FindMarker(s)
<1>1. PICK x : First(s, x)
  BY MarkerType
<1>2. First(t, x) /\ t[x] = s[x]
  BY <1>1, FirstKept
<1> QED
  BY <1>1, <1>2, MarkerOf

\* The first n lines.
LEMMA Prefix ==
  ASSUME NEW s \in Seq(Line), NEW n \in 0 .. Len(s)
  PROVE  /\ SubSeq(s, 1, n) \in Seq(Line) /\ Len(SubSeq(s, 1, n)) = n
         /\ \A x \in 1 .. n : SubSeq(s, 1, n)[x] = s[x]
<1>1. \A x \in 1 .. n : s[x] \in Line
  OBVIOUS
<1>2. n \in Int /\ (n = 0 \/ 1 <= n)
  OBVIOUS
<1> QED
  BY <1>1, <1>2, SubSeqProperties

\* A line more does not change what was read.
LEMMA PrefixKept ==
  ASSUME NEW s \in Seq(Line), NEW l \in Line, NEW n \in 0 .. Len(s)
  PROVE  SubSeq(Append(s, l), 1, n) = SubSeq(s, 1, n)
<1>1. /\ Append(s, l) \in Seq(Line) /\ Len(Append(s, l)) = Len(s) + 1
      /\ \A x \in 1 .. n : Append(s, l)[x] = s[x]
  BY Appended
<1>2. n \in 0 .. Len(Append(s, l))
  BY <1>1
<1>3. /\ SubSeq(Append(s, l), 1, n) \in Seq(Line) /\ Len(SubSeq(Append(s, l), 1, n)) = n
      /\ \A x \in 1 .. n : SubSeq(Append(s, l), 1, n)[x] = Append(s, l)[x]
  BY <1>1, <1>2, Prefix
<1>4. /\ SubSeq(s, 1, n) \in Seq(Line) /\ Len(SubSeq(s, 1, n)) = n
      /\ \A x \in 1 .. n : SubSeq(s, 1, n)[x] = s[x]
  BY Prefix
<1>5. \A x \in 1 .. n : SubSeq(Append(s, l), 1, n)[x] = SubSeq(s, 1, n)[x]
  BY <1>1, <1>3, <1>4
<1> QED
  BY <1>3, <1>4, <1>5, SeqEqual

\* Nothing printed, no marker.
LEMMA NoLines == FindMarker(<<>>) = ""
<1>1. ~ \E x \in 1 .. Len(<<>>) : First(<<>>, x)
  BY DEF First
<1> QED
  BY <1>1 DEF FindMarker

-----------------------------------------------------------------------------
(* Seeds *)

\* A remainder is a number below the modulus.
LEMMA ModType ==
  ASSUME NEW m \in Nat \ {0}, NEW a \in Int
  PROVE  a % m \in 0 .. m - 1
OBVIOUS

\* The base is a number.
LEMMA BaseType ==
  ASSUME TypeOK
  PROVE  base \in Int
<1>1. base \in Bases
  BY DEF TypeOK
<1> QED
  BY <1>1, RunnerAssumption

\* Seeds have a range of their own.
LEMMA SeedType ==
  ASSUME TypeOK, NEW i \in Int
  PROVE  RunSeed(i) \in 0 .. SeedMod - 1 /\ RunSeed(i) \in None .. SeedMod - 1 /\ RunSeed(i) # None
<1>1. RunSeed(i) \in 0 .. SeedMod - 1
  <2> DEFINE whole == IF base + i - 1 <= 0 THEN 1 ELSE base + i - 1
  <2>1. whole \in Int /\ SeedMod \in Nat \ {0}
    BY BaseType, RunnerAssumption
  <2> HIDE DEF whole
  <2>2. whole % SeedMod \in 0 .. SeedMod - 1
    BY <2>1, ModType
  <2> QED
    BY <2>2 DEF RunSeed, whole
<1> QED
  BY <1>1, RunnerAssumption DEF None

-----------------------------------------------------------------------------
(* What has been done stays done *)

\* The numbers in the state.
LEMMA Numbers ==
  ASSUME TypeOK
  PROVE  /\ Repeat \in Nat /\ Repeat >= 1 /\ MaxOut \in Nat /\ Cap \in Nat
         /\ r.i \in Nat /\ r.i >= 1 /\ r.i <= Repeat + 1
         /\ Len(ch) \in Nat /\ Len(ui.results) \in Nat
<1>1. Repeat \in Nat /\ Repeat >= 1 /\ MaxOut \in Nat /\ Cap \in Nat
  BY RunnerAssumption
<1>2. r.i \in 1 .. Repeat + 1
  BY DEF TypeOK
<1>3. ch \in Seq(EventType) /\ ui.results \in Seq(ResultType)
  BY DEF TypeOK
<1>4. Len(ch) \in Nat /\ Len(ui.results) \in Nat
  BY <1>3, LenProperties
<1> QED
  BY <1>1, <1>2, <1>4

\* The runs before the current one are over, and the runner goes on; or it goes
\* to the next run.
Keeps ==
  /\ \A i \in Index : i < r.i => out'[i] = out[i] /\ qemu'[i] = qemu[i]
  /\ \/ /\ r'.i = r.i /\ (Finished => Finished')
        /\ r'.pc # "emit" => r.pc # "emit" /\ r'.res = r.res
     \/ /\ r.pc = "emit" /\ r'.pc \in {"last", "top"} /\ r'.i = r.i + 1 /\ r'.res = r.res
        /\ UNCHANGED <<out, qemu>>

\* The runner is where it was, or left to itself.
LEMMA RunnerAlone ==
  ASSUME TypeOK, UNCHANGED <<r, out, qemu>>
  PROVE  Keeps
BY DEF Keeps, Finished

\* Every step keeps the past.
LEMMA Past ==
  ASSUME TypeOK, QemuInv, [Next]_vars
  PROVE  Keeps
<1> USE DEF guest, build, files, view, rest, Finished
<1>0. r.i \in Nat /\ Index = 1 .. Repeat /\ Repeat \in Nat
  BY Numbers DEF Index
<1>t. /\ qemu \in [Index -> {"off", "alive", "exited", "killed"}] /\ out \in [Index -> Seq(Line)]
      /\ \A i \in Index : i < r.i => qemu[i] # "alive"
  BY DEF TypeOK, QemuInv
<1>r. r \in RunType
  BY DEF TypeOK
<1>1. CASE RunStart
  BY <1>1, <1>r DEF RunStart, At, Step, Keeps
<1>2. CASE RunCancelled
  BY <1>2, <1>r DEF RunCancelled, At, Step, Keeps
<1>3. CASE RunNext
  BY <1>3, <1>r DEF RunNext, At, Step, Keeps
<1>4. CASE RunDone
  BY <1>4, <1>r DEF RunDone, At, Step, Keeps
<1>5. CASE RunClose
  BY <1>5, <1>r DEF RunClose, At, Step, Keeps
<1>6. CASE SendResult
  BY <1>6, <1>r, <1>0 DEF SendResult, At, Keeps
<1>7. CASE Build
  BY <1>7, <1>r DEF Build, At, Step, Emit, Keeps
<1>8. CASE Boot
  BY <1>8, <1>r, <1>0, <1>t DEF Boot, At, Step, Keeps
<1>9. CASE BootFail
  BY <1>9, <1>r DEF BootFail, At, Emit, Keeps
<1>10. CASE TimedOut
  BY <1>10, <1>r, <1>0, <1>t DEF TimedOut, At, KillGroup, Emit, Keeps
<1>11. CASE Judged
  BY <1>11, <1>r, <1>0, <1>t DEF Judged, At, KillGroup, Emit, Keeps
<1>12. CASE TimeUp \/ CtrlC \/ Quit
  BY <1>12, RunnerAlone DEF TimeUp, CtrlC, Quit
<1>13. CASE HeadlessEvent \/ WaitEvent
  BY <1>13, RunnerAlone DEF HeadlessEvent, WaitEvent
<1>14. CASE Tick
  BY <1>14, <1>r DEF Tick, Keeps
<1>15. ASSUME NEW ev \in msgs, Update(ev) PROVE Keeps
  BY <1>15, RunnerAlone DEF Update
<1>16. ASSUME NEW i \in Index, ScanEnd(i) \/ \E n \in 1 .. MaxOut + 1 : ScanRead(i, n) PROVE Keeps
  BY <1>16, RunnerAlone DEF ScanEnd, ScanRead
<1>17. ASSUME NEW i \in Index, Crash(i) PROVE Keeps
  BY <1>17, <1>0, <1>t DEF Crash, Keeps
<1>18. ASSUME NEW i \in Index, NEW l \in Line, PrintLine(i, l) PROVE Keeps
  BY <1>18, <1>0, <1>t DEF PrintLine, Keeps
<1>19. CASE UNCHANGED vars
  BY <1>19, RunnerAlone DEF vars
<1> QED
  BY <1>1, <1>2, <1>3, <1>4, <1>5, <1>6, <1>7, <1>8, <1>9, <1>10, <1>11, <1>12, <1>13, <1>14,
    <1>15, <1>16, <1>17, <1>18, <1>19 DEF Next, RunnerStep, ScanStep, UiStep, Qemu

\* So the results do not change.
LEMMA ResultKept ==
  ASSUME TypeOK, Keeps
  PROVE  \A res, i : i < r.i /\ IsResult(res, i) => i < r'.i /\ IsResult(res, i)'
<1> SUFFICES ASSUME NEW res, NEW i, i < r.i, IsResult(res, i)
             PROVE  i < r'.i /\ IsResult(res, i)'
  OBVIOUS
<1>1. i \in Index /\ i \in Nat /\ r.i \in Nat /\ res.i = i /\ Told(res)
  BY Numbers DEF IsResult, Index
<1>2. i < r'.i /\ out'[i] = out[i] /\ qemu'[i] = qemu[i]
  BY <1>1 DEF Keeps
<1>3. Told(res)'
  BY <1>1, <1>2 DEF Told
<1>4. i = r'.i - 1 /\ r'.pc # "emit" => res = r'.res
  BY <1>1 DEF Keeps, IsResult
<1> QED
  BY <1>1, <1>2, <1>3, <1>4 DEF IsResult

\* Nor do the events.
LEMMA EventKept ==
  ASSUME TypeOK, Keeps
  PROVE  \A ev, n : IsEvent(ev, n) => IsEvent(ev, n)'
<1> SUFFICES ASSUME NEW ev, NEW n, IsEvent(ev, n) PROVE IsEvent(ev, n)'
  OBVIOUS
<1>0. r.i \in Nat /\ r.i >= 1
  BY Numbers
<1>1. CASE n = 1 /\ ev.kind = "started"
  BY <1>1 DEF IsEvent
<1>2. CASE n \in 2 .. r.i /\ ev.kind = "result" /\ IsResult(ev.res, n - 1)
  <2>1. n - 1 < r.i /\ n \in Nat
    BY <1>0, <1>2
  <2>2. n \in 2 .. r'.i
    BY <1>0, <1>2 DEF Keeps
  <2>3. IsResult(ev.res, n - 1)'
    BY <1>2, <2>1, ResultKept
  <2> QED
    BY <1>2, <2>2, <2>3 DEF IsEvent
<1>3. CASE /\ n = r.i + 1 /\ Finished /\ ev.kind \in {"done", "error"}
           /\ ev.kind = "done" => r.i = Repeat + 1 \/ (r.i > 1 /\ r.res.outcome = "timeout")
  <2>1. r'.i = r.i /\ Finished' /\ r'.res = r.res
    BY <1>3 DEF Keeps, Finished
  <2> QED
    BY <1>3, <2>1 DEF IsEvent
<1> QED
  BY <1>1, <1>2, <1>3 DEF IsEvent

-----------------------------------------------------------------------------
(* What the interface does with an event *)

\* The next event for the interface, by its kind.
LEMMA Arrives ==
  ASSUME IInv, NEW ev, IsEvent(ev, Applied + 1), ~Ended, ui.phase # "splash"
  PROVE  /\ ui.phase = "boot" => ev.kind = "started" /\ ui.results = <<>>
         /\ ui.phase = "running" =>
              \/ /\ ev.kind = "result" /\ Len(ui.results) + 1 < r.i
                 /\ IsResult(ev.res, Len(ui.results) + 1)
              \/ /\ ev.kind \in {"done", "error"} /\ Finished /\ Len(ui.results) = r.i - 1
                 /\ ev.kind = "done" => r.i = Repeat + 1 \/ (r.i > 1 /\ r.res.outcome = "timeout")
         /\ ui.phase \in {"boot", "running"}
<1>0. TypeOK /\ r.i \in Nat /\ r.i >= 1 /\ Len(ui.results) \in Nat
  BY Numbers DEF IInv
<1>1. ui.phase \in {"boot", "running"}
  BY <1>0 DEF TypeOK, Ended
<1>2. CASE ui.phase = "boot"
  <2>1. Applied = 0 /\ ui.results = <<>>
    BY <1>2 DEF Applied, IInv, UiInv
  <2> QED
    BY <1>0, <1>2, <2>1 DEF IsEvent
<1>3. CASE ui.phase = "running"
  <2>1. Applied = Len(ui.results) + 1
    BY <1>3 DEF Applied, Ended
  <2> QED
    BY <1>0, <1>3, <2>1 DEF IsEvent
<1> QED
  BY <1>1, <1>2, <1>3

\* What Apply does to the results.
Appends(ev) ==
  \/ ev.kind # "result" /\ ui'.results = ui.results
  \/ /\ ev.kind = "result" /\ ui'.results = Append(ui.results, ev.res)
     /\ Len(ui.results) + 1 < r.i /\ IsResult(ev.res, Len(ui.results) + 1)

\* One more event is applied.
LEMMA Applies ==
  ASSUME IInv, NEW ev \in EventType, NEW w \in {0, 1}, IsEvent(ev, Applied + 1),
         ~Ended, ui.phase # "splash", Apply(ev, w)
  PROVE  /\ Applied' = Applied + 1 /\ Appends(ev)
         /\ ui' \in UiType
         /\ report' \in ReportType
         /\ ui'.waiting = w
         /\ ui'.phase = IF ev.kind \in {"done", "error"} THEN ev.kind ELSE "running"
<1>0. /\ TypeOK /\ r.i \in Nat /\ r.i >= 1 /\ r.i <= Repeat + 1 /\ Len(ui.results) \in Nat
      /\ Repeat \in Nat
  BY Numbers DEF IInv
<1>1. /\ ui \in UiType
      /\ report \in ReportType
      /\ ui.failures <= Len(ui.results)
  BY <1>0 DEF TypeOK, IInv, UiInv
<1>2. ev.res \in ResultType /\ ev.kind \in {"started", "result", "done", "error"}
  BY DEF EventType
<1>3. /\ ui.phase = "boot" => ev.kind = "started" /\ ui.results = <<>>
      /\ ui.phase = "running" => ev.kind # "started"
      /\ ui.phase \in {"boot", "running"}
      /\ ev.kind = "result" =>
           /\ ui.phase = "running" /\ Len(ui.results) + 1 < r.i
           /\ IsResult(ev.res, Len(ui.results) + 1)
  BY Arrives
<1>4. /\ Append(ui.results, ev.res) \in Seq(ResultType)
      /\ Len(Append(ui.results, ev.res)) = Len(ui.results) + 1
  BY <1>1, <1>2
<1>5. ui'.phase = IF ev.kind \in {"done", "error"} THEN ev.kind ELSE "running"
  BY <1>2, <1>3 DEF Apply
<1>6. Appends(ev) /\ ui'.waiting = w
  BY <1>2, <1>3 DEF Apply, Appends
<1>7. Count(ev.res) \in {0, 1}
  BY DEF Count
<1>8. ui'.failures \in 0 .. Repeat
  BY <1>0, <1>1, <1>3, <1>7 DEF Apply
<1>9. ui' = [phase |-> ui'.phase, results |-> ui'.results,
             failures |-> ui'.failures, waiting |-> ui'.waiting]
  BY DEF Apply
<1>10. ui'.results \in Seq(ResultType)
  BY <1>1, <1>4, <1>6 DEF Appends
<1>11. Applied' = Applied + 1
  <2>1. CASE ui.phase = "boot"
    BY <1>3, <1>5, <1>6, <2>1 DEF Applied, Ended, Appends
  <2>2. CASE ui.phase = "running"
    BY <1>0, <1>2, <1>3, <1>4, <1>5, <1>6, <2>2 DEF Applied, Ended, Appends
  <2> QED
    BY <1>3, <2>1, <2>2
<1>12. report' \in ReportType
  <2> DEFINE passed == ui.failures = 0
             told   == [passed |-> passed, results |-> ui.results, written |-> TRUE]
  <2>1. report' \in {report, told} \/ report' = report
    BY DEF Apply
  <2>2. passed \in BOOLEAN /\ TRUE \in BOOLEAN
    OBVIOUS
  <2> HIDE DEF passed
  <2>3. told \in ReportType
    BY <1>1, <2>2
  <2> QED
    BY <1>1, <2>1, <2>3
<1> QED
  BY <1>2, <1>5, <1>6, <1>8, <1>9, <1>10, <1>11, <1>12

\* The messages in the program, and the commands that wait.
LEMMA Mailbox ==
  ASSUME IInv
  PROVE  /\ \A ev \in msgs :
              ev \in EventType /\ msgs = {ev} /\ IsEvent(ev, Applied + 1) /\ Received = 1
         /\ ui.waiting > 0 => msgs = {} /\ Received = 0
         /\ msgs # {} \/ ui.waiting > 0 =>
              mode = "tui" /\ ui.phase \in {"boot", "running"} /\ ui.waiting + Received = 1
         /\ mode = "headless" => msgs = {} /\ Received = 0
         /\ ui.waiting \in {0, 1} /\ Received \in {0, 1} /\ Applied \in Nat
<1>1. /\ ui.waiting \in {0, 1} /\ Received \in {0, 1} /\ (msgs = {} <=> Received = 0)
      /\ msgs \subseteq EventType
  <2>1. msgs \subseteq EventType
    BY DEF IInv, TypeOK
  <2>2. ui \in UiType
    BY DEF IInv, TypeOK
  <2>3. ui.waiting \in {0, 1}
    BY <2>2
  <2> QED
    BY <2>1, <2>3 DEF Received
<1>2. ui.waiting + Received = IF mode = "tui" /\ ui.phase \in {"boot", "running"} THEN 1 ELSE 0
  BY DEF IInv, UiInv
<1>3. \A ev \in msgs : msgs = {ev} /\ IsEvent(ev, Applied + 1)
  BY DEF IInv, StreamInv
<1>4. Applied \in Nat
  BY Numbers DEF Applied, IInv
<1> QED
  BY <1>1, <1>2, <1>3, <1>4

\* The oldest event in the channel.
LEMMA Oldest ==
  ASSUME IInv, ch # <<>>
  PROVE  /\ Head(ch) \in EventType /\ Head(ch) = ch[1] /\ IsEvent(ch[1], Applied + Received + 1)
         /\ Tail(ch) \in Seq(EventType) /\ Len(Tail(ch)) = Len(ch) - 1 /\ Len(ch) >= 1
         /\ \A x \in 1 .. Len(Tail(ch)) : Tail(ch)[x] = ch[x + 1]
         /\ ui.phase # "splash"
<1>1. ch \in Seq(EventType) /\ Len(ch) \in Nat /\ Len(ch) >= 1
  <2>1. ch \in Seq(EventType)
    BY DEF IInv, TypeOK
  <2>2. Len(ch) \in Nat \ {0}
    BY <2>1, EmptySeq
  <2> QED
    BY <2>1, <2>2
<1>2. IsEvent(ch[1], Applied + Received + 1)
  BY <1>1 DEF IInv, StreamInv
<1>3. ui.phase # "splash"
  <2>1. Applied \in Nat /\ Received \in {0, 1} /\ Sent = Applied + Received + Len(ch)
    BY Mailbox DEF IInv, StreamInv
  <2>2. Sent # 0
    BY <1>1, <2>1
  <2> QED
    BY <2>2 DEF Sent, IInv, UiInv
<1>4. Head(ch) = ch[1]
  BY <1>1
<1> QED
  BY <1>1, <1>2, <1>3, <1>4, HeadTailProperties

\* The headless interface has a first event to apply.
LEMMA HeadlessTakes ==
  ASSUME IInv, HeadlessEvent
  PROVE  /\ Head(ch) \in EventType /\ IsEvent(Head(ch), Applied + 1) /\ ~Ended
         /\ ui.phase # "splash"
         /\ Apply(Head(ch), 0) /\ 0 \in {0, 1} /\ Received = 0 /\ msgs = {}
<1>1. mode = "headless" /\ ch # <<>> /\ ~over
  BY DEF HeadlessEvent
<1>2. Received = 0 /\ msgs = {} /\ Applied \in Nat
  BY <1>1, Mailbox
<1>3. ~Ended
  BY <1>1 DEF IInv, UiInv
<1>4. IsEvent(Head(ch), Applied + 1)
  BY <1>1, <1>2, Oldest
<1> QED
  BY <1>1, <1>2, <1>3, <1>4, Oldest DEF HeadlessEvent

\* So has Update.
LEMMA UpdateTakes ==
  ASSUME IInv, NEW ev \in msgs, Update(ev)
  PROVE  /\ ev \in EventType /\ IsEvent(ev, Applied + 1) /\ ~Ended /\ ui.phase # "splash"
         /\ Apply(ev, IF ev.kind \in {"done", "error"} THEN 0 ELSE 1)
         /\ Received = 1 /\ msgs' = {} /\ mode = "tui" /\ ui.waiting = 0
<1>1. /\ ev \in EventType /\ IsEvent(ev, Applied + 1) /\ Received = 1 /\ msgs = {ev} /\ mode = "tui"
      /\ ui.phase \in {"boot", "running"} /\ ui.waiting = 0
  BY Mailbox
<1>2. ui.waiting + 1 = 1
  BY <1>1
<1> QED
  BY <1>1, <1>2 DEF Update, Ended

-----------------------------------------------------------------------------
(* Types *)

\* Events and results of their types.
LEMMA Kinds ==
  /\ NoResult \in ResultType
  /\ \A kind \in {"started", "result", "done", "error"} : Event(kind) \in EventType
<1>1. NoResult \in ResultType
  BY RunnerAssumption DEF NoResult, Result, ResultType
<1> QED
  BY <1>1 DEF Event, EventType

\* The types of the initial states.
LEMMA TypeInit == Init => TypeOK
<1> SUFFICES ASSUME Init PROVE TypeOK
  OBVIOUS
<1>1. /\ Repeat \in Nat /\ Repeat >= 1 /\ MaxOut \in Nat /\ Cap \in Nat /\ SeedMod \in Nat
      /\ NoResult \in ResultType
  BY RunnerAssumption, Kinds
<1>2. /\ mode \in {"headless", "tui"} /\ {expired, cancelled, closed, quit, over} \subseteq BOOLEAN
      /\ base \in Bases /\ msgs \subseteq EventType
  BY DEF Init
<1>3. PICK skip \in BOOLEAN :
        LET started == mode = "headless" \/ skip IN
        /\ r = [pc |-> IF started THEN "start" ELSE "off", i |-> 1, res |-> NoResult]
        /\ ui = [phase |-> IF started THEN "boot" ELSE "splash", results |-> <<>>, failures |-> 0,
                 waiting |-> IF mode = "tui" /\ skip THEN 1 ELSE 0]
  BY DEF Init
<1>4. /\ r \in RunType
  BY <1>1, <1>3
<1>5. ui \in UiType
  <2>1. <<>> \in Seq(ResultType)
    OBVIOUS
  <2> QED
    BY <1>1, <1>3, <2>1
<1>0. qemu = [i \in Index |-> "off"] /\ out = [i \in Index |-> <<>>]
  BY Zenon DEF Init
<1>12. scan = [i \in Index |-> [pc |-> "off", n |-> 0, sent |-> FALSE, verdict |-> NoVerdict]]
  BY Zenon DEF Init
<1>13. /\ lastSeed = None /\ stamp \in Before /\ obj = [x \in Part |-> stamp] /\ old = {}
       /\ booted = [i \in Index |-> [x \in Part |-> None]]
  BY Zenon DEF Init
<1>14. ch = <<>> /\ report = NoReport
  BY Zenon DEF Init
<1>6. qemu \in [Index -> {"off", "alive", "exited", "killed"}] /\ out \in [Index -> Seq(Line)]
  BY <1>0
<1>7. \A i \in Index : Len(out[i]) <= MaxOut + 1
  BY <1>0, <1>1
<1>8. scan \in [Index -> ScanType]
  <2> DEFINE none == [pc |-> "off", n |-> 0, sent |-> FALSE, verdict |-> NoVerdict]
  <2>1. none \in ScanType
    BY <1>1 DEF ScanType
  <2> QED
    BY <1>12, <2>1
<1>9. /\ {lastSeed, stamp} \subseteq None .. SeedMod - 1
      /\ obj \in [Part -> None .. SeedMod - 1] /\ old \subseteq Part
      /\ booted \in [Index -> [Part -> None .. SeedMod - 1]]
  <2>1. stamp \in None .. SeedMod - 1 /\ None \in None .. SeedMod - 1
    BY <1>13, RunnerAssumption DEF None
  <2> QED
    BY <1>13, <2>1
<1>10. ch \in Seq(EventType) /\ Len(ch) <= Cap
  BY <1>14, <1>1
<1>11. report \in ReportType
  BY <1>14 DEF NoReport
<1> QED
  BY <1>2, <1>4, <1>5, <1>6, <1>7, <1>8, <1>9, <1>10, <1>11 DEF TypeOK

\* The runner and the channel keep their types when an event is sent.
LEMMA Sends ==
  ASSUME TypeOK, NEW ev \in EventType, Send(ev)
  PROVE  ch' \in Seq(EventType) /\ Len(ch') <= Cap /\ Len(ch') = Len(ch) + 1
<1>1. ch \in Seq(EventType) /\ Cap \in Nat
  BY RunnerAssumption DEF TypeOK
<1>2. Len(ch) \in Nat /\ Len(ch) < Cap /\ ch' = Append(ch, ev)
  BY <1>1 DEF Send
<1> QED
  BY <1>1, <1>2

\* The result that Emit keeps is a result.
LEMMA Emits ==
  ASSUME TypeOK, RunnerInv, Running,
         NEW o \in {"pass", "fail", "timeout"},
         NEW d \in {"build", "start", "cancelled", "timeout", "marker", "exit"}, Emit(o, d)
  PROVE  r' \in RunType
<1>1. Result(r.i, o, d) \in ResultType
  <2>1. r.i \in 0 .. Repeat
    BY Numbers DEF RunnerInv
  <2> QED
    BY <2>1 DEF Result, ResultType
<1>2. r \in RunType
  BY DEF TypeOK
<1> QED
  BY <1>1, <1>2 DEF Emit

\* The seeds of the files that a build leaves.
LEMMA BuiltType ==
  ASSUME TypeOK
  PROVE  /\ RunSeed(r.i) \in None .. SeedMod - 1 /\ Left \in [Part -> None .. SeedMod - 1]
         /\ \A D : Made(D) => /\ stamp' \in None .. SeedMod - 1 /\ old' \subseteq Part
                              /\ obj' \in [Part -> None .. SeedMod - 1]
<1>1. RunSeed(r.i) \in None .. SeedMod - 1
  <2>1. r.i \in Int
    BY Numbers
  <2> QED
    BY <2>1, SeedType
<1>2. /\ obj \in [Part -> None .. SeedMod - 1] /\ None \in None .. SeedMod - 1
      /\ old \subseteq Part
  BY RunnerAssumption DEF TypeOK, None
<1>3. Left \in [Part -> None .. SeedMod - 1]
  BY <1>2 DEF Left
<1>4. Outdated \subseteq Part
  BY <1>2 DEF Outdated, Stamped
<1> QED
  BY <1>1, <1>3, <1>4 DEF Made

\* A line that is printed is a line of the run.
LEMMA Prints ==
  ASSUME TypeOK, NEW i \in Index, NEW l \in Line, PrintLine(i, l)
  PROVE  /\ out' \in [Index -> Seq(Line)] /\ \A j \in Index : Len(out'[j]) <= MaxOut + 1
         /\ out'[i] = Append(out[i], l) /\ \A j \in Index : j # i => out'[j] = out[j]
<1>1. out \in [Index -> Seq(Line)] /\ (\A j \in Index : Len(out[j]) <= MaxOut + 1) /\ MaxOut \in Nat
  BY Numbers DEF TypeOK
<1>2. /\ Append(out[i], l) \in Seq(Line) /\ Len(Append(out[i], l)) = Len(out[i]) + 1
      /\ Len(out[i]) \in Nat
  BY <1>1, Appended
<1>3. out' = [out EXCEPT ![i] = Append(out[i], l)] /\ Len(out[i]) <= MaxOut
  BY <1>1, <1>2 DEF PrintLine
<1> QED
  BY <1>1, <1>2, <1>3

\* What a scanner says.
LEMMA Says ==
  ASSUME NEW s \in Seq(Line), FindMarker(s) # ""
  PROVE  ClassifyMarker(FindMarker(s)) \in Verdict
BY MarkerType DEF ClassifyMarker, Verdict, Marker

\* A scanner that has returned has a verdict.
LEMMA Verdicts ==
  ASSUME TypeOK, ScanInv, NEW i \in Index, scan[i].pc = "returned"
  PROVE  scan[i].verdict \in Verdict
<1>1. out[i] \in Seq(Line)
  BY DEF TypeOK
<1>2. \/ scan[i].verdict = ClassifyMarker(FindMarker(out[i])) /\ FindMarker(out[i]) # ""
      \/ scan[i].verdict = <<"fail", "exit">>
  BY DEF ScanInv
<1>3. <<"fail", "exit">> \in Verdict
  BY DEF Verdict
<1> QED
  BY <1>1, <1>2, <1>3, Says

\* Scanner i goes on; the others do nothing.
Scans(i) ==
  /\ scan'[i] \in ScanType /\ \A j \in Index : j # i => scan'[j] = scan[j]
  /\ scan' \in [Index -> ScanType]

\* What a Read does to the scanner.
LEMMA Reads ==
  ASSUME TypeOK, NEW i \in Index, NEW n \in 1 .. MaxOut + 1, ScanRead(i, n)
  PROVE  /\ Scans(i) /\ n \in 1 .. Len(out[i]) /\ scan[i].pc = "read"
         /\ scan'[i].n = n
         /\ LET m == FindMarker(SubSeq(out[i], 1, n)) IN
            /\ m = "" => scan'[i].pc = "read"
            /\ m # "" => scan'[i].pc = "returned" /\ scan'[i].verdict = ClassifyMarker(m)
<1> DEFINE text == SubSeq(out[i], 1, n)
           m    == FindMarker(text)
           sent == scan[i].sent \/ "prompt" \in ToSet(text)
           v    == IF m = "" THEN scan[i].verdict ELSE ClassifyMarker(m)
           w    == IF m = "" THEN "read" ELSE "returned"
<1>1. scan' = [scan EXCEPT ![i] = [pc |-> w, n |-> n, sent |-> sent, verdict |-> v]]
  BY DEF ScanRead, Reading
<1>0. scan[i].pc = "read" /\ n <= Len(out[i]) /\ MaxOut \in Nat
  BY Numbers DEF ScanRead, Reading
<1>2. scan \in [Index -> ScanType] /\ out[i] \in Seq(Line) /\ Len(out[i]) \in Nat
  BY DEF TypeOK
<1>3. n \in 1 .. Len(out[i]) /\ n \in 0 .. Len(out[i])
  BY <1>0, <1>2
<1>4. text \in Seq(Line)
  BY <1>2, <1>3, Prefix
<1>5. sent \in BOOLEAN /\ w \in {"read", "returned"}
  BY <1>0
<1>6. v \in Verdict \union {NoVerdict}
  BY <1>2, <1>4, Says DEF ScanType
<1> HIDE DEF sent, v, w
<1>7. /\ scan'[i] = [pc |-> w, n |-> n, sent |-> sent, verdict |-> v]
      /\ \A j \in Index : j # i => scan'[j] = scan[j]
  BY <1>1, <1>2 DEF ScanType
<1>8. scan'[i] \in ScanType
  BY <1>0, <1>5, <1>6, <1>7 DEF ScanType
<1>9. scan' \in [Index -> ScanType]
  BY <1>1, <1>2, <1>7, <1>8
<1>10. scan'[i].n = n /\ scan'[i].pc = w /\ scan'[i].verdict = v
  BY <1>7
<1>11. Scans(i)
  BY <1>7, <1>8, <1>9 DEF Scans
<1> QED
  BY <1>0, <1>3, <1>10, <1>11 DEF v, w

\* What the end of the output does to it.
LEMMA Ends ==
  ASSUME TypeOK, NEW i \in Index, ScanEnd(i)
  PROVE  /\ Scans(i) /\ scan[i].pc = "read" /\ scan[i].n = Len(out[i])
         /\ qemu[i] \in {"exited", "killed"}
         /\ scan'[i].n = scan[i].n /\ scan'[i].pc = "returned"
         /\ scan'[i].verdict = <<"fail", "exit">>
<1> DEFINE v == <<"fail", "exit">>
<1>1. /\ scan' = [scan EXCEPT ![i] = [scan[i] EXCEPT !.pc = "returned", !.verdict = v]]
      /\ scan[i].pc = "read" /\ scan[i].n = Len(out[i]) /\ qemu[i] \in {"exited", "killed"}
  BY DEF ScanEnd, Reading
<1>2. scan \in [Index -> ScanType] /\ v \in Verdict
  BY DEF TypeOK, Verdict
<1> HIDE DEF v
<1>3. /\ scan'[i] = [scan[i] EXCEPT !.pc = "returned", !.verdict = v]
      /\ \A j \in Index : j # i => scan'[j] = scan[j]
  BY <1>1, <1>2 DEF ScanType
<1>6. scan[i] \in ScanType
  BY <1>2
<1>7. scan'[i] = [pc |-> "returned", n |-> scan[i].n, sent |-> scan[i].sent, verdict |-> v]
  BY <1>3, <1>6 DEF ScanType
<1>8. scan'[i] \in ScanType
  BY <1>2, <1>6, <1>7 DEF ScanType
<1>4. scan' \in [Index -> ScanType] /\ scan'[i] \in ScanType
  BY <1>1, <1>2, <1>3, <1>8
<1>5. scan'[i].n = scan[i].n /\ scan'[i].pc = "returned" /\ scan'[i].verdict = v
  BY <1>7
<1> QED
  BY <1>1, <1>3, <1>4, <1>5 DEF Scans, v

\* Every step keeps the types.
LEMMA TypeStep ==
  ASSUME IInv, [Next]_vars
  PROVE  TypeOK'
<1> USE DEF guest, build, files, view, rest
<1>0. TypeOK /\ RunnerInv
  BY DEF IInv
<1>r. r \in RunType
  BY <1>0 DEF TypeOK
<1>c. Len(ch) <= Cap /\ msgs \subseteq EventType /\ ch \in Seq(EventType) /\ ui \in UiType
  BY <1>0 DEF TypeOK
<1>1. CASE RunStart
  BY <1>1, <1>0, <1>r, Kinds, Sends DEF RunStart, Step, TypeOK
<1>2. CASE RunCancelled
  BY <1>2, <1>0, <1>r, Kinds, Sends DEF RunCancelled, Step, TypeOK
<1>3. CASE RunNext
  BY <1>3, <1>0, <1>r DEF RunNext, Step, TypeOK
<1>4. CASE RunDone
  BY <1>4, <1>0, <1>r, Kinds, Sends DEF RunDone, Step, TypeOK
<1>5. CASE RunClose
  BY <1>5, <1>0, <1>r DEF RunClose, Step, TypeOK
<1>6. CASE SendResult
  <2>1. [kind |-> "result", res |-> r.res] \in EventType /\ r.i + 1 \in 1 .. Repeat + 1
    BY <1>6, <1>0, <1>r, Numbers DEF SendResult, At, RunnerInv, Running, EventType
  <2>2. ch' \in Seq(EventType) /\ Len(ch') <= Cap
    BY <1>6, <1>0, <2>1, Sends DEF SendResult
  <2>3. r' \in RunType
    BY <1>6, <1>r, <2>1 DEF SendResult
  <2> QED
    BY <1>6, <1>0, <2>2, <2>3 DEF SendResult, TypeOK
<1>7. CASE Build
  <2>1. r' \in RunType
    BY <1>7, <1>0, <1>r, Emits DEF Build, At, Step, Running
  <2>2. /\ lastSeed' \in None .. SeedMod - 1 /\ stamp' \in None .. SeedMod - 1
        /\ obj' \in [Part -> None .. SeedMod - 1] /\ old' \subseteq Part
    BY <1>7, <1>0, BuiltType DEF Build, TypeOK
  <2> QED
    BY <1>7, <1>0, <2>1, <2>2 DEF Build, TypeOK
<1>8. CASE Boot
  <2>1. r' \in RunType /\ r.i \in Index
    BY <1>8, <1>0, <1>r, Numbers DEF Boot, At, Step, RunnerInv, Running, Index
  <2>2. scan' \in [Index -> ScanType]
    <3>1. scan' = [scan EXCEPT ![r.i] = [scan[r.i] EXCEPT !.pc = "read"]]
      BY <1>8 DEF Boot
    <3>2. scan \in [Index -> ScanType]
      BY <1>0 DEF TypeOK
    <3>3. [scan[r.i] EXCEPT !.pc = "read"] \in ScanType
      BY <2>1, <3>2 DEF ScanType
    <3> QED
      BY <3>1, <3>2, <3>3
  <2>3. /\ qemu' \in [Index -> {"off", "alive", "exited", "killed"}]
        /\ booted' \in [Index -> [Part -> None .. SeedMod - 1]]
    BY <1>8, <1>0 DEF Boot, TypeOK
  <2> QED
    BY <1>8, <1>0, <2>1, <2>2, <2>3 DEF Boot, TypeOK
<1>9. CASE BootFail
  <2>1. r' \in RunType
    BY <1>9, <1>0, <1>r, Emits DEF BootFail, At, Running
  <2> QED
    BY <1>9, <1>0, <2>1 DEF BootFail, TypeOK
<1>10. CASE TimedOut
  <2>1. r' \in RunType
    BY <1>10, <1>0, <1>r, Emits DEF TimedOut, At, Running
  <2>2. qemu' \in [Index -> {"off", "alive", "exited", "killed"}]
    BY <1>10, <1>0 DEF TimedOut, KillGroup, TypeOK
  <2> QED
    BY <1>10, <1>0, <2>1, <2>2 DEF TimedOut, TypeOK
<1>11. CASE Judged
  <2>1. scan[r.i].verdict \in Verdict
    <3>1. r.i \in Index /\ scan[r.i].pc = "returned"
      BY <1>11, <1>0, Numbers DEF Judged, At, RunnerInv, Running, Index
    <3> QED
      BY <1>0, <3>1, Verdicts DEF IInv
  <2>2. r' \in RunType
    BY <1>11, <1>0, <1>r, <2>1, Emits DEF Judged, At, Running, Verdict
  <2>3. qemu' \in [Index -> {"off", "alive", "exited", "killed"}]
    BY <1>11, <1>0 DEF Judged, KillGroup, TypeOK
  <2> QED
    BY <1>11, <1>0, <2>2, <2>3 DEF Judged, TypeOK
<1>12. CASE TimeUp \/ CtrlC \/ Quit
  <2>1. CASE TimeUp
    BY <2>1, <1>0 DEF TimeUp, TypeOK
  <2>2. CASE CtrlC
    BY <2>2, <1>0 DEF CtrlC, TypeOK
  <2>3. CASE Quit
    BY <2>3, <1>0 DEF Quit, TypeOK
  <2> QED
    BY <1>12, <2>1, <2>2, <2>3
<1>13. CASE HeadlessEvent
  <2>1. /\ ui' \in UiType
        /\ report' \in ReportType
    BY <1>13, HeadlessTakes, Applies
  <2>2. ch' \in Seq(EventType) /\ Len(ch') <= Cap
    BY <1>13, <1>c, Oldest, Numbers, <1>0 DEF HeadlessEvent
  <2>3. over' \in BOOLEAN
    BY <1>13 DEF HeadlessEvent
  <2> QED
    BY <1>13, <1>0, <2>1, <2>2, <2>3 DEF HeadlessEvent, TypeOK
<1>14. CASE WaitEvent
  <2>1. ui' \in UiType
    <3>1. ui.waiting - 1 \in {0, 1}
      BY <1>14, <1>c DEF WaitEvent
    <3> QED
      BY <1>14, <1>c, <3>1 DEF WaitEvent
  <2>2. ch' \in Seq(EventType) /\ Len(ch') <= Cap /\ msgs' \subseteq EventType
    <3>1. CASE ch # <<>> /\ ch' = Tail(ch) /\ msgs' = msgs \union {Head(ch)}
      BY <1>c, <3>1, Oldest, Numbers, <1>0
    <3>2. CASE ch = <<>> /\ closed /\ UNCHANGED ch /\ msgs' = msgs \union {Event("done")}
      BY <1>c, <3>2, Kinds
    <3> QED
      BY <1>14, <3>1, <3>2 DEF WaitEvent
  <2> QED
    BY <1>14, <1>0, <2>1, <2>2 DEF WaitEvent, TypeOK
<1>15. CASE Tick
  <2>1. ui' \in UiType
    <3>1. ui.waiting + 1 \in {0, 1}
      BY <1>15, Mailbox DEF Tick
    <3> QED
      BY <1>15, <1>c, <3>1 DEF Tick
  <2>2. r' \in RunType
    BY <1>15, <1>r DEF Tick
  <2> QED
    BY <1>15, <1>0, <2>1, <2>2 DEF Tick, TypeOK
<1>16. ASSUME NEW ev \in msgs, Update(ev) PROVE TypeOK'
  <2>1. /\ ui' \in UiType
        /\ report' \in ReportType
    BY <1>16, UpdateTakes, Applies
  <2> QED
    BY <1>16, <1>0, <2>1 DEF Update, TypeOK
<1>17. ASSUME NEW i \in Index, ScanEnd(i) PROVE TypeOK'
  <2>1. scan' \in [Index -> ScanType]
    BY <1>17, <1>0, Ends DEF Scans
  <2> QED
    BY <1>17, <1>0, <2>1 DEF ScanEnd, TypeOK
<1>18. ASSUME NEW i \in Index, NEW n \in 1 .. MaxOut + 1, ScanRead(i, n) PROVE TypeOK'
  <2>1. scan' \in [Index -> ScanType]
    BY <1>18, <1>0, Reads DEF Scans
  <2> QED
    BY <1>18, <1>0, <2>1 DEF ScanRead, TypeOK
<1>19. ASSUME NEW i \in Index, Crash(i) PROVE TypeOK'
  <2>1. qemu' \in [Index -> {"off", "alive", "exited", "killed"}]
    BY <1>19, <1>0 DEF Crash, TypeOK
  <2> QED
    BY <1>19, <1>0, <2>1 DEF Crash, TypeOK
<1>20. ASSUME NEW i \in Index, NEW l \in Line, PrintLine(i, l) PROVE TypeOK'
  <2>1. out' \in [Index -> Seq(Line)] /\ \A j \in Index : Len(out'[j]) <= MaxOut + 1
    BY <1>20, <1>0, Prints
  <2> QED
    BY <1>20, <1>0, <2>1 DEF PrintLine, TypeOK
<1>21. CASE UNCHANGED vars
  BY <1>21, <1>0 DEF vars, TypeOK
<1> QED
  BY <1>1, <1>2, <1>3, <1>4, <1>5, <1>6, <1>7, <1>8, <1>9, <1>10, <1>11, <1>12, <1>13, <1>14,
    <1>15, <1>16, <1>17, <1>18, <1>19, <1>20, <1>21 DEF Next, RunnerStep, ScanStep, UiStep, Qemu
-----------------------------------------------------------------------------
(* The runner, QEMU and the scanners *)

\* The actions that leave the runner and the machines alone.
Aside ==
  \/ CtrlC \/ Quit \/ TimeUp \/ HeadlessEvent \/ WaitEvent \/ (\E ev \in msgs : Update(ev))
  \/ UNCHANGED vars

\* What they leave alone.
LEMMA AsideKeeps ==
  ASSUME Aside
  PROVE  UNCHANGED <<r, closed, qemu, out, scan, base, lastSeed, stamp, obj, old, booted>>
BY DEF Aside, CtrlC, Quit, TimeUp, HeadlessEvent, WaitEvent, Update, vars, guest, build, files,
  view, rest

\* Every step, with what is aside in one.
LEMMA Steps ==
  ASSUME [Next]_vars
  PROVE  \/ RunStart \/ RunCancelled \/ RunNext \/ RunDone \/ RunClose \/ SendResult
         \/ Build \/ Boot \/ BootFail \/ TimedOut \/ Judged \/ Tick \/ Aside
         \/ \E i \in Index : \/ ScanEnd(i) \/ Crash(i)
                             \/ \E n \in 1 .. MaxOut + 1 : ScanRead(i, n)
                             \/ \E l \in Line : PrintLine(i, l)
BY DEF Next, RunnerStep, ScanStep, UiStep, Qemu, Aside

\* The control of the runner.
LEMMA RunnerInvStep ==
  ASSUME IInv, [Next]_vars
  PROVE  RunnerInv'
<1> USE DEF guest, build, files, view, rest, Running
<1>0. RunnerInv /\ r \in RunType /\ r.i \in Nat /\ r.i >= 1 /\ r.i <= Repeat + 1 /\ Repeat \in Nat
  BY Numbers DEF IInv, TypeOK
<1>u. (r.pc = "off" <=> ui.phase = "splash")
  BY DEF IInv, UiInv
<1>1. CASE RunStart
  BY <1>1, <1>0 DEF RunStart, At, Step, RunnerInv
<1>2. CASE RunCancelled
  BY <1>2, <1>0 DEF RunCancelled, At, Step, RunnerInv
<1>3. CASE RunNext
  BY <1>3, <1>0 DEF RunNext, At, Step, RunnerInv
<1>4. CASE RunDone
  BY <1>4, <1>0 DEF RunDone, At, Step, RunnerInv
<1>5. CASE RunClose
  BY <1>5, <1>0 DEF RunClose, At, Step, RunnerInv
<1>6. CASE SendResult
  BY <1>6, <1>0 DEF SendResult, At, RunnerInv
<1>7. CASE Build
  BY <1>7, <1>0 DEF Build, At, Step, Emit, RunnerInv
<1>8. CASE Boot
  BY <1>8, <1>0 DEF Boot, At, Step, RunnerInv
<1>9. CASE BootFail
  BY <1>9, <1>0 DEF BootFail, At, Emit, RunnerInv
<1>10. CASE TimedOut
  BY <1>10, <1>0 DEF TimedOut, At, Emit, RunnerInv
<1>11. CASE Judged
  BY <1>11, <1>0 DEF Judged, At, Emit, RunnerInv
<1>12. CASE Tick
  BY <1>12, <1>0, <1>u DEF Tick, RunnerInv
<1>13. CASE Aside
  BY <1>13, <1>0, AsideKeeps DEF RunnerInv
<1>14. ASSUME NEW i \in Index, ScanEnd(i) \/ Crash(i) PROVE RunnerInv'
  BY <1>14, <1>0 DEF ScanEnd, Crash, RunnerInv
<1>15. ASSUME NEW i \in Index, NEW n \in 1 .. MaxOut + 1, ScanRead(i, n) PROVE RunnerInv'
  BY <1>15, <1>0 DEF ScanRead, RunnerInv
<1>16. ASSUME NEW i \in Index, NEW l \in Line, PrintLine(i, l) PROVE RunnerInv'
  BY <1>16, <1>0 DEF PrintLine, RunnerInv
<1> QED
  BY <1>1, <1>2, <1>3, <1>4, <1>5, <1>6, <1>7, <1>8, <1>9, <1>10, <1>11, <1>12, <1>13, <1>14,
    <1>15, <1>16, Steps

\* Run j of QemuInv.
QemuOf(j) ==
  /\ j > r.i \/ (j = r.i /\ r.pc \notin {"wait", "emit"}) => qemu[j] = "off"
  /\ j < r.i \/ (j = r.i /\ r.pc = "emit") => qemu[j] # "alive"
  /\ j = r.i /\ r.pc = "wait" => qemu[j] \in {"alive", "exited"}
  /\ qemu[j] = "off" => out[j] = <<>> /\ scan[j].pc = "off"

\* A QEMU lives while its run is waited for.
LEMMA QemuInvStep ==
  ASSUME IInv, [Next]_vars
  PROVE  QemuInv'
<1> USE DEF guest, build, files, view, rest
<1>0. RunnerInv /\ r \in RunType /\ r.i \in Nat /\ r.i >= 1 /\ r.i <= Repeat + 1 /\ Repeat \in Nat
  BY Numbers DEF IInv, TypeOK
<1>t. qemu \in [Index -> {"off", "alive", "exited", "killed"}] /\ Index = 1 .. Repeat /\ TypeOK
  BY DEF IInv, TypeOK, Index
<1>s. scan \in [Index -> ScanType]
  BY <1>t DEF TypeOK
<1>u. \A j \in Index : QemuOf(j)
  BY DEF IInv, QemuInv, QemuOf
<1>x. (r.pc = "off" <=> ui.phase = "splash")
  BY DEF IInv, UiInv
<1> SUFFICES ASSUME NEW j \in Index PROVE QemuOf(j)'
  BY DEF QemuInv, QemuOf
<1>j. j \in Nat /\ QemuOf(j)
  BY <1>t, <1>u
<1>1. CASE RunStart
  BY <1>1, <1>0, <1>j DEF RunStart, At, Step, QemuOf
<1>2. CASE RunCancelled
  BY <1>2, <1>0, <1>j DEF RunCancelled, At, Step, QemuOf
<1>3. CASE RunNext
  BY <1>3, <1>0, <1>j DEF RunNext, At, Step, QemuOf
<1>4. CASE RunDone
  BY <1>4, <1>0, <1>j DEF RunDone, At, Step, QemuOf
<1>5. CASE RunClose
  BY <1>5, <1>0, <1>j DEF RunClose, At, Step, QemuOf
<1>6. CASE SendResult
  BY <1>6, <1>0, <1>j DEF SendResult, At, QemuOf
<1>7. CASE Build
  BY <1>7, <1>0, <1>j DEF Build, At, Step, Emit, QemuOf
<1>8. CASE Boot
  <2>1. /\ r'.pc = "wait" /\ r'.i = r.i /\ r.pc = "boot" /\ out' = out
        /\ qemu' = [qemu EXCEPT ![r.i] = "alive"] /\ \A k \in Index : k # r.i => scan'[k] = scan[k]
    BY <1>8, <1>0, <1>s DEF Boot, At, Step
  <2> QED
    BY <2>1, <1>0, <1>j, <1>t DEF QemuOf
<1>9. CASE BootFail
  BY <1>9, <1>0, <1>j DEF BootFail, At, Emit, QemuOf
<1>10. CASE TimedOut
  BY <1>10, <1>0, <1>j, <1>t DEF TimedOut, At, KillGroup, Emit, QemuOf
<1>11. CASE Judged
  BY <1>11, <1>0, <1>j, <1>t DEF Judged, At, KillGroup, Emit, QemuOf
<1>12. CASE Tick
  BY <1>12, <1>0, <1>j, <1>x DEF Tick, QemuOf
<1>13. CASE Aside
  BY <1>13, <1>j, AsideKeeps DEF QemuOf
<1>14. ASSUME NEW i \in Index, ScanEnd(i) PROVE QemuOf(j)'
  BY <1>14, <1>j, <1>t, Ends DEF ScanEnd, Scans, QemuOf
<1>15. ASSUME NEW i \in Index, Crash(i) PROVE QemuOf(j)'
  <2>1. i = r.i /\ r.pc = "wait"
    BY <1>0, <1>u, <1>15, <1>t DEF Crash, QemuOf
  <2> QED
    BY <1>15, <2>1, <1>j, <1>t DEF Crash, QemuOf
<1>16. ASSUME NEW i \in Index, NEW n \in 1 .. MaxOut + 1, ScanRead(i, n) PROVE QemuOf(j)'
  BY <1>16, <1>j, <1>t, Reads DEF ScanRead, Scans, QemuOf
<1>17. ASSUME NEW i \in Index, NEW l \in Line, PrintLine(i, l) PROVE QemuOf(j)'
  BY <1>17, <1>j, <1>t, Prints DEF PrintLine, QemuOf
<1> QED
  BY <1>1, <1>2, <1>3, <1>4, <1>5, <1>6, <1>7, <1>8, <1>9, <1>10, <1>11, <1>12, <1>13, <1>14,
    <1>15, <1>16, <1>17, Steps

\* Run j of ScanInv.
ScanOf(j) ==
  /\ scan[j].n <= Len(out[j])
  /\ scan[j].pc = "read" => FindMarker(SubSeq(out[j], 1, scan[j].n)) = ""
  /\ scan[j].pc = "returned" =>
       \/ scan[j].verdict = ClassifyMarker(FindMarker(out[j])) /\ FindMarker(out[j]) # ""
       \/ /\ scan[j].verdict = <<"fail", "exit">> /\ FindMarker(out[j]) = ""
          /\ qemu[j] \in {"exited", "killed"}

\* A scanner that is left alone is right as long as QEMU is.
LEMMA ScanSame ==
  ASSUME NEW j \in Index, ScanOf(j), scan'[j] = scan[j], out'[j] = out[j],
         qemu'[j] = qemu[j] \/ qemu'[j] \in {"exited", "killed"}
  PROVE  ScanOf(j)'
BY DEF ScanOf

\* What a scanner has read and said.
LEMMA ScanInvStep ==
  ASSUME IInv, [Next]_vars
  PROVE  ScanInv'
<1> USE DEF guest, build, files, view, rest
<1>t. /\ qemu \in [Index -> {"off", "alive", "exited", "killed"}] /\ TypeOK
      /\ scan \in [Index -> ScanType] /\ out \in [Index -> Seq(Line)]
  BY DEF IInv, TypeOK
<1>u. \A j \in Index : ScanOf(j)
  BY DEF IInv, ScanInv, ScanOf
<1> SUFFICES ASSUME NEW j \in Index PROVE ScanOf(j)'
  BY DEF ScanInv, ScanOf
<1>j. ScanOf(j) /\ scan[j] \in ScanType /\ out[j] \in Seq(Line) /\ Len(out[j]) \in Nat
  BY <1>u, <1>t
<1>n. scan[j].n \in Nat /\ scan[j].n \in 0 .. Len(out[j])
  <2>1. scan[j].n \in 0 .. MaxOut + 1 /\ MaxOut \in Nat
    BY <1>j, <1>t, Numbers DEF ScanType
  <2>2. scan[j].n <= Len(out[j])
    BY <1>j DEF ScanOf
  <2> QED
    BY <1>j, <2>1, <2>2
<1>0. r.pc = "boot" => r.i \in Index /\ qemu[r.i] = "off" /\ out[r.i] = <<>> /\ scan[r.i].pc = "off"
  <2>1. r.pc = "boot" => r.i \in Index
    BY Numbers DEF IInv, RunnerInv, Running, Index
  <2> QED
    BY <2>1 DEF IInv, QemuInv
<1>1. CASE \/ RunStart \/ RunCancelled \/ RunNext \/ RunDone \/ RunClose
           \/ SendResult \/ Build \/ BootFail \/ Tick
  BY <1>1, <1>j, ScanSame DEF RunStart, RunCancelled, RunNext, RunDone, RunClose, SendResult,
    Build, BootFail, Tick
<1>2. CASE Boot
  <2>1. CASE j = r.i
    <3>1. /\ scan'[j] = [scan[j] EXCEPT !.pc = "read"] /\ out'[j] = <<>> /\ out[j] = <<>>
      BY <1>2, <1>0, <1>t, <2>1 DEF Boot, At
    <3>2. scan'[j].pc = "read" /\ scan'[j].n = scan[j].n /\ scan[j].n \in 0 .. MaxOut + 1
      BY <3>1, <1>j DEF ScanType
    <3>6. Len(<<>>) = 0
      OBVIOUS
    <3>3. scan[j].n = 0
      BY <3>1, <3>6, <1>n
    <3>4. SubSeq(<<>>, 1, 0) = <<>>
      BY SubSeqEmpty
    <3>5. FindMarker(SubSeq(out'[j], 1, scan'[j].n)) = ""
      BY <3>1, <3>2, <3>3, <3>4, NoLines
    <3>7. scan'[j].n <= Len(out'[j])
      BY <3>1, <3>2, <3>3, <3>6
    <3> QED
      BY <3>2, <3>5, <3>7 DEF ScanOf
  <2>2. CASE j # r.i
    BY <1>2, <1>j, <1>t, <2>2, ScanSame DEF Boot
  <2> QED
    BY <2>1, <2>2
<1>3. CASE TimedOut \/ Judged
  <2>1. scan' = scan /\ out' = out /\ KillGroup
    BY <1>3 DEF TimedOut, Judged
  <2>2. qemu'[j] = qemu[j] \/ qemu'[j] = "killed"
    BY <2>1, <1>t DEF KillGroup
  <2> QED
    BY <2>1, <2>2, <1>j, ScanSame
<1>4. CASE Aside
  BY <1>4, <1>j, AsideKeeps, ScanSame
<1>5. ASSUME NEW i \in Index, ScanEnd(i) PROVE ScanOf(j)'
  <2>0. out' = out /\ qemu' = qemu
    BY <1>5 DEF ScanEnd
  <2>1. CASE j # i
    BY <1>5, <1>j, <1>t, <2>0, <2>1, Ends, ScanSame DEF Scans
  <2>2. CASE j = i
    <3>1. /\ scan[j].pc = "read" /\ scan[j].n = Len(out[j]) /\ qemu[j] \in {"exited", "killed"}
          /\ scan'[j].n = scan[j].n /\ scan'[j].pc = "returned"
          /\ scan'[j].verdict = <<"fail", "exit">>
      BY <1>5, <1>t, <2>2, Ends
    <3>2. SubSeq(out[j], 1, Len(out[j])) = out[j]
      BY <1>j, SubSeqFull
    <3>3. FindMarker(out[j]) = ""
      BY <3>1, <3>2, <1>j DEF ScanOf
    <3> QED
      BY <2>0, <3>1, <3>3, <1>j DEF ScanOf
  <2> QED
    BY <2>1, <2>2
<1>6. ASSUME NEW i \in Index, NEW n \in 1 .. MaxOut + 1, ScanRead(i, n) PROVE ScanOf(j)'
  <2>0. out' = out /\ qemu' = qemu
    BY <1>6 DEF ScanRead
  <2>1. CASE j # i
    BY <1>6, <1>j, <1>t, <2>0, <2>1, Reads, ScanSame DEF Scans
  <2>2. CASE j = i
    <3> DEFINE text == SubSeq(out[j], 1, n)
    <3>0. n \in 1 .. Len(out[j]) /\ scan'[j].n = n
      BY <1>6, <1>t, <2>2, Reads
    <3>1. /\ FindMarker(text) = "" => scan'[j].pc = "read"
          /\ FindMarker(text) # "" =>
               scan'[j].pc = "returned" /\ scan'[j].verdict = ClassifyMarker(FindMarker(text))
      BY <1>6, <1>t, <2>2, Reads
    <3>2. n \in 0 .. Len(out[j]) /\ n <= Len(out[j])
      BY <3>0, <1>j
    <3>3. /\ text \in Seq(Line) /\ Len(text) = n /\ \A x \in 1 .. n : text[x] = out[j][x]
      BY <3>2, <1>j, Prefix
    <3> HIDE DEF text
    <3>4. FindMarker(text) # "" => FindMarker(out[j]) = FindMarker(text)
      BY <3>2, <3>3, <1>j, MarkerKept
    <3>5. CASE FindMarker(text) = ""
      BY <2>0, <3>0, <3>1, <3>2, <3>5 DEF ScanOf, text
    <3>6. CASE FindMarker(text) # ""
      BY <2>0, <3>0, <3>1, <3>2, <3>4, <3>6 DEF ScanOf
    <3> QED
      BY <3>5, <3>6
  <2> QED
    BY <2>1, <2>2
<1>7. ASSUME NEW i \in Index, Crash(i) PROVE ScanOf(j)'
  <2>1. scan' = scan /\ out' = out /\ (qemu'[j] = qemu[j] \/ qemu'[j] = "exited")
    BY <1>7, <1>t DEF Crash
  <2> QED
    BY <2>1, <1>j, ScanSame
<1>8. ASSUME NEW i \in Index, NEW l \in Line, PrintLine(i, l) PROVE ScanOf(j)'
  <2>0. scan' = scan /\ qemu' = qemu /\ qemu[i] = "alive"
    BY <1>8 DEF PrintLine
  <2>1. CASE j # i
    BY <1>8, <1>j, <1>t, <2>0, <2>1, Prints, ScanSame
  <2>2. CASE j = i
    <3> DEFINE more == Append(out[j], l)
    <3>1. out'[j] = more
      BY <1>8, <1>t, <2>2, Prints
    <3>2. /\ Len(more) = Len(out[j]) + 1 /\ more \in Seq(Line)
          /\ \A x \in 1 .. Len(out[j]) : more[x] = out[j][x]
      BY <1>j, Appended
    <3>3. SubSeq(more, 1, scan[j].n) = SubSeq(out[j], 1, scan[j].n)
      BY <1>n, <1>j, PrefixKept
    <3> HIDE DEF more
    <3>8. Len(out[j]) <= Len(more)
      BY <3>2, <1>j
    <3>4. FindMarker(out[j]) # "" => FindMarker(more) = FindMarker(out[j])
      BY <3>2, <3>8, <1>j, MarkerKept
    <3>5. scan'[j].n <= Len(out'[j])
      BY <2>0, <3>1, <3>2, <1>j, <1>n
    <3>6. scan'[j].pc = "read" => FindMarker(SubSeq(out'[j], 1, scan'[j].n)) = ""
      BY <2>0, <3>1, <3>3, <1>j DEF ScanOf
    <3>7. scan'[j].pc = "returned" =>
            scan'[j].verdict = ClassifyMarker(FindMarker(out'[j])) /\ FindMarker(out'[j]) # ""
      BY <2>0, <2>2, <3>1, <3>4, <1>j DEF ScanOf
    <3> QED
      BY <3>5, <3>6, <3>7 DEF ScanOf
  <2> QED
    BY <2>1, <2>2
<1> QED
  BY <1>1, <1>2, <1>3, <1>4, <1>5, <1>6, <1>7, <1>8, Steps

\* The result to send says what QEMU did.
LEMMA EmitInvStep ==
  ASSUME IInv, [Next]_vars
  PROVE  EmitInv'
<1> USE DEF guest, build, files, view, rest
<1>0. r \in RunType /\ r.i \in Nat /\ Index = 1 .. Repeat /\ EmitInv
  BY Numbers DEF IInv, TypeOK, Index
<1>t. /\ qemu \in [Index -> {"off", "alive", "exited", "killed"}] /\ out \in [Index -> Seq(Line)]
      /\ TypeOK
  BY DEF IInv, TypeOK
<1>e. Running => r.i \in Index
  BY Numbers, <1>t DEF IInv, RunnerInv, Index
<1>a. r.pc = "emit" => qemu[r.i] # "alive"
  BY <1>e DEF IInv, QemuInv, Running
<1>1. CASE RunStart \/ RunCancelled \/ RunNext \/ RunDone \/ RunClose \/ Boot
  BY <1>1, <1>0 DEF RunStart, RunCancelled, RunNext, RunDone, RunClose, Boot, At, Step, EmitInv
<1>2. CASE SendResult
  BY <1>2, <1>0 DEF SendResult, EmitInv
<1>3. CASE Build
  <2>1. CASE Step("boot")
    BY <1>0, <2>1 DEF Step, EmitInv
  <2>2. CASE Emit("fail", "build")
    <3>1. r'.res = Result(r.i, "fail", "build") /\ r'.i = r.i
      BY <1>0, <2>2 DEF Emit
    <3>2. Told(r.res)'
      BY <3>1 DEF Told, Result
    <3> QED
      BY <3>1, <3>2 DEF EmitInv, Result
  <2> QED
    BY <1>3, <2>1, <2>2 DEF Build
<1>4. CASE BootFail
  <2>1. r'.res = Result(r.i, "fail", "start") /\ r'.i = r.i
    BY <1>0, <1>4 DEF BootFail, Emit
  <2>2. Told(r.res)'
    BY <2>1 DEF Told, Result
  <2> QED
    BY <2>1, <2>2 DEF EmitInv, Result
<1>5. CASE TimedOut
  <2>1. /\ r'.res = Result(r.i, "fail", "cancelled") \/ r'.res = Result(r.i, "timeout", "timeout")
        /\ r'.i = r.i
    BY <1>0, <1>5 DEF TimedOut, Emit
  <2>2. r'.res.i = r.i /\ r'.res.outcome # "pass" /\ r'.res.detail \notin {"exit", "marker"}
    BY <2>1 DEF Result
  <2>3. Told(r.res)'
    <3>1. r'.res # Result(r'.res.i, "fail", "marker")
      BY <2>2 DEF Result
    <3> QED
      BY <2>2, <3>1 DEF Told
  <2> QED
    BY <2>1, <2>2, <2>3 DEF EmitInv
<1>6. CASE Judged
  <2> DEFINE v == scan[r.i].verdict
             m == FindMarker(out[r.i])
  <2>1. /\ r.pc = "wait" /\ scan[r.i].pc = "returned" /\ KillGroup /\ out' = out
        /\ r'.res = Result(r.i, v[1], v[2]) /\ r'.i = r.i /\ r.i \in Index
    BY <1>0, <1>6, <1>e DEF Judged, At, Emit, Running
  <2>2. qemu[r.i] \in {"alive", "exited"}
    BY <2>1 DEF IInv, QemuInv
  <2>5. /\ m \in Marker \union {""} /\ FindMarker(out'[r.i]) = m
        /\ (FindMarker(out[r.i]))' = FindMarker(out'[r'.i])
    BY <1>t, <2>1, MarkerType
  <2>6. \/ v = ClassifyMarker(m) /\ m # ""
        \/ v = <<"fail", "exit">> /\ m = "" /\ qemu[r.i] \in {"exited", "killed"}
    BY <2>1 DEF IInv, ScanInv
  <2> HIDE DEF m, v
  <2>7. \/ v = <<"pass", "marker">> /\ m = "done"
        \/ v = <<"fail", "marker">> /\ m = "fail"
        \/ v = <<"fail", "exit">> /\ m = "" /\ qemu[r.i] \in {"exited", "killed"}
    BY <2>5, <2>6 DEF ClassifyMarker, Marker
  <2>8. \/ v[1] = "pass" /\ v[2] = "marker" /\ m = "done"
        \/ v[1] = "fail" /\ v[2] = "marker" /\ m = "fail"
        \/ v[1] = "fail" /\ v[2] = "exit" /\ m = "" /\ qemu[r.i] \in {"exited", "killed"}
    <3>1. CASE v = <<"pass", "marker">> /\ m = "done"
      BY <3>1
    <3>2. CASE v = <<"fail", "marker">> /\ m = "fail"
      BY <3>2
    <3>3. CASE v = <<"fail", "exit">> /\ m = "" /\ qemu[r.i] \in {"exited", "killed"}
      BY <3>3
    <3> QED
      BY <2>7, <3>1, <3>2, <3>3
  <2>9. qemu[r.i] = "exited" => qemu'[r.i] = "exited"
    BY <1>t, <2>1 DEF KillGroup
  <2>10. r'.res = [i |-> r.i, outcome |-> v[1], detail |-> v[2]]
    BY <2>1 DEF Result
  <2>11. Told(r.res)'
    <3>0. r'.res.i = r.i /\ r'.res.outcome = v[1] /\ r'.res.detail = v[2]
      BY <2>10
    <3>1. CASE v[1] = "pass" /\ v[2] = "marker" /\ m = "done"
      BY <3>0, <3>1, <2>5 DEF Told, Result
    <3>2. CASE v[1] = "fail" /\ v[2] = "marker" /\ m = "fail"
      BY <3>0, <3>2, <2>5 DEF Told, Result
    <3>3. CASE v[1] = "fail" /\ v[2] = "exit" /\ m = "" /\ qemu[r.i] \in {"exited", "killed"}
      <4>0. r'.res.detail = "exit"
        BY <3>0, <3>3
      <4>1. r'.res # Result(r'.res.i, "fail", "marker")
        BY <4>0 DEF Result
      <4>2. qemu'[r'.res.i] = "exited" /\ FindMarker(out'[r'.res.i]) = ""
        BY <3>0, <3>3, <2>2, <2>5, <2>9
      <4> QED
        BY <3>0, <3>3, <4>1, <4>2 DEF Told
    <3> QED
      BY <2>8, <3>1, <3>2, <3>3
  <2> QED
    BY <2>1, <2>10, <2>11 DEF EmitInv
<1>7. CASE Tick
  BY <1>7, <1>0 DEF Tick, EmitInv, Told
<1>8. CASE Aside
  BY <1>8, <1>0, AsideKeeps DEF EmitInv, Told
<1>9. ASSUME NEW i \in Index, ScanEnd(i) PROVE EmitInv'
  BY <1>9, <1>0 DEF ScanEnd, EmitInv, Told
<1>10. ASSUME NEW i \in Index, NEW n \in 1 .. MaxOut + 1, ScanRead(i, n) PROVE EmitInv'
  BY <1>10, <1>0 DEF ScanRead, EmitInv, Told
<1>11. ASSUME NEW i \in Index, Crash(i) PROVE EmitInv'
  <2>1. r' = r /\ out' = out /\ qemu[i] = "alive" /\ \A j \in Index : j # i => qemu'[j] = qemu[j]
    BY <1>11, <1>t DEF Crash
  <2> QED
    BY <2>1, <1>0, <1>a, <1>e DEF EmitInv, Told, Running
<1>12. ASSUME NEW i \in Index, NEW l \in Line, PrintLine(i, l) PROVE EmitInv'
  <2>1. r' = r /\ qemu' = qemu /\ qemu[i] = "alive" /\ \A j \in Index : j # i => out'[j] = out[j]
    BY <1>12, <1>t, Prints DEF PrintLine
  <2> QED
    BY <2>1, <1>0, <1>a, <1>e DEF EmitInv, Told, Running
<1> QED
  BY <1>1, <1>2, <1>3, <1>4, <1>5, <1>6, <1>7, <1>8, <1>9, <1>10, <1>11, <1>12, Steps

-----------------------------------------------------------------------------
(* The events and the interface *)

\* A step that neither sends nor receives.
Quiet ==
  /\ Sent' = Sent /\ ch' = ch /\ msgs' = msgs /\ Applied' = Applied /\ ui'.results = ui.results

\* It leaves the stream as it is.
LEMMA StreamQuiet ==
  ASSUME TypeOK, StreamInv, Keeps, Quiet
  PROVE  StreamInv'
<1>1. Received' = Received
  BY DEF Quiet, Received
<1>2. Sent' = Applied' + Received' + Len(ch')
  BY <1>1 DEF StreamInv, Quiet
<1>3. (\A x \in 1 .. Len(ch) : IsEvent(ch[x], Applied + Received + x))'
  BY <1>1, EventKept DEF StreamInv, Quiet
<1>4. (\A ev \in msgs : msgs = {ev} /\ IsEvent(ev, Applied + 1))'
  BY EventKept DEF StreamInv, Quiet
<1>5. (\A k \in 1 .. Len(ui.results) : k < r.i /\ IsResult(ui.results[k], k))'
  BY ResultKept DEF StreamInv, Quiet
<1> QED
  BY <1>2, <1>3, <1>4, <1>5 DEF StreamInv

\* An event is sent.
LEMMA StreamSend ==
  ASSUME TypeOK, StreamInv, Keeps, UNCHANGED <<ui, msgs>>,
         NEW ev \in EventType, ch' = Append(ch, ev), Sent' = Sent + 1,
         NEW n, n = Sent + 1, IsEvent(ev, n)'
  PROVE  StreamInv'
<1>0. /\ ch \in Seq(EventType) /\ Len(ch) \in Nat /\ Sent = Applied + Received + Len(ch)
      /\ Received \in Nat /\ Applied \in Nat
  BY Numbers DEF TypeOK, StreamInv, Received, Applied
<1>1. Received' = Received /\ Applied' = Applied
  BY DEF Received, Applied, Ended
<1>2. Len(ch') = Len(ch) + 1 /\ ch'[Len(ch) + 1] = ev /\ \A x \in 1 .. Len(ch) : ch'[x] = ch[x]
  BY <1>0
<1>3. Sent' = Applied' + Received' + Len(ch')
  BY <1>0, <1>1, <1>2
<1>4. \A x \in 1 .. Len(ch) + 1 : \A e, m :
        e = ch'[x] /\ m = Applied + Received + x => IsEvent(e, m)'
  <2> SUFFICES ASSUME NEW x \in 1 .. Len(ch) + 1, NEW e, NEW m,
                      e = ch'[x], m = Applied + Received + x
               PROVE  IsEvent(e, m)'
    OBVIOUS
  <2>1. CASE x \in 1 .. Len(ch)
    <3>1. IsEvent(e, m)
      BY <1>2, <2>1 DEF StreamInv
    <3> QED
      BY <3>1, EventKept
  <2>2. CASE x = Len(ch) + 1
    <3>1. e = ev /\ m = n
      BY <1>0, <1>2, <2>2
    <3> QED
      BY <3>1
  <2> QED
    BY <1>0, <2>1, <2>2
<1>5. (\A x \in 1 .. Len(ch) : IsEvent(ch[x], Applied + Received + x))'
  BY <1>1, <1>2, <1>4
<1>6. (\A e \in msgs : msgs = {e} /\ IsEvent(e, Applied + 1))'
  BY <1>1, EventKept DEF StreamInv
<1>7. (\A k \in 1 .. Len(ui.results) : k < r.i /\ IsResult(ui.results[k], k))'
  BY ResultKept DEF StreamInv
<1> QED
  BY <1>3, <1>5, <1>6, <1>7 DEF StreamInv

\* The results after an event has been applied.
LEMMA ResultsApply ==
  ASSUME TypeOK, StreamInv, Keeps, r' = r, NEW ev \in EventType, Appends(ev)
  PROVE  (\A k \in 1 .. Len(ui.results) : k < r.i /\ IsResult(ui.results[k], k))'
<1>0. ui.results \in Seq(ResultType) /\ ev.res \in ResultType /\ Len(ui.results) \in Nat
  BY Numbers DEF TypeOK, EventType
<1>1. CASE ui'.results = ui.results
  BY <1>1, ResultKept DEF StreamInv
<1>2. CASE /\ ui'.results = Append(ui.results, ev.res)
           /\ Len(ui.results) + 1 < r.i /\ IsResult(ev.res, Len(ui.results) + 1)
  <2>1. /\ Len(ui'.results) = Len(ui.results) + 1 /\ ui'.results[Len(ui.results) + 1] = ev.res
        /\ \A k \in 1 .. Len(ui.results) : ui'.results[k] = ui.results[k]
    BY <1>0, <1>2
  <2>2. \A k \in 1 .. Len(ui.results) + 1 : \A e : e = ui'.results[k] => k < r'.i /\ IsResult(e, k)'
    <3> SUFFICES ASSUME NEW k \in 1 .. Len(ui.results) + 1, NEW e, e = ui'.results[k]
                 PROVE  k < r'.i /\ IsResult(e, k)'
      OBVIOUS
    <3>1. k < r.i /\ IsResult(e, k)
      <4>1. CASE k \in 1 .. Len(ui.results)
        BY <2>1, <4>1 DEF StreamInv
      <4>2. CASE k = Len(ui.results) + 1
        BY <1>2, <2>1, <4>2
      <4> QED
        BY <1>0, <4>1, <4>2
    <3> QED
      BY <3>1, ResultKept
  <2> QED
    BY <2>1, <2>2
<1> QED
  BY <1>1, <1>2 DEF Appends

\* Every step keeps the order of the events.
LEMMA StreamStep ==
  ASSUME IInv, [Next]_vars
  PROVE  StreamInv'
<1> USE DEF guest, build, files, view, rest
<1>0. TypeOK /\ StreamInv /\ RunnerInv /\ r \in RunType /\ r.i \in Nat /\ r.i >= 1
  BY Numbers DEF IInv, TypeOK
<1>k. Keeps
  BY Past DEF IInv
<1>s. Sent \in Nat
  BY <1>0 DEF Sent
<1>1. CASE RunStart
  <2> DEFINE ev == Event("started")
  <2>1. ev \in EventType /\ ch' = Append(ch, ev) /\ UNCHANGED <<ui, msgs>> /\ ev.kind = "started"
    BY <1>1, Kinds DEF RunStart, Send, Event
  <2>2. Sent = 0 /\ Sent' = 1
    BY <1>0, <1>1 DEF RunStart, At, Step, RunnerInv, Sent, Finished
  <2> HIDE DEF ev
  <2>3. IsEvent(ev, 1)'
    BY <2>1 DEF IsEvent
  <2> QED
    BY <1>0, <1>k, <2>1, <2>2, <2>3, StreamSend
<1>2. CASE RunCancelled
  <2> DEFINE ev == Event("error")
  <2>1. ev \in EventType /\ ch' = Append(ch, ev) /\ UNCHANGED <<ui, msgs>> /\ ev.kind = "error"
    BY <1>2, Kinds DEF RunCancelled, Send, Event
  <2>2. Sent = r.i /\ Sent' = r.i + 1 /\ r'.i = r.i /\ Finished'
    BY <1>0, <1>2 DEF RunCancelled, At, Step, Sent, Finished
  <2> HIDE DEF ev
  <2>3. PICK n : n = r.i + 1
    OBVIOUS
  <2>4. IsEvent(ev, n)'
    BY <2>1, <2>2, <2>3 DEF IsEvent
  <2> QED
    BY <1>0, <1>k, <2>1, <2>2, <2>3, <2>4, StreamSend
<1>3. CASE RunDone
  <2> DEFINE ev == Event("done")
  <2>1. ev \in EventType /\ ch' = Append(ch, ev) /\ UNCHANGED <<ui, msgs>> /\ ev.kind = "done"
    BY <1>3, Kinds DEF RunDone, Send, Event
  <2>2. /\ Sent = r.i /\ Sent' = r.i + 1 /\ r'.i = r.i /\ r'.res = r.res /\ Finished'
        /\ r.i = Repeat + 1 \/ (r.i > 1 /\ r.res.outcome = "timeout")
    BY <1>0, <1>3, Numbers DEF RunDone, At, Step, Sent, Finished, RunnerInv
  <2> HIDE DEF ev
  <2>3. PICK n : n = r.i + 1
    OBVIOUS
  <2>4. IsEvent(ev, n)'
    BY <2>1, <2>2, <2>3 DEF IsEvent
  <2> QED
    BY <1>0, <1>k, <2>1, <2>2, <2>3, <2>4, StreamSend
<1>4. CASE SendResult
  <2>0. PICK ev : ev = [kind |-> "result", res |-> r.res]
    OBVIOUS
  <2>1. /\ ev \in EventType /\ ch' = Append(ch, ev) /\ UNCHANGED <<ui, msgs>>
        /\ ev.kind = "result" /\ ev.res = r.res
    BY <1>0, <1>4, <2>0 DEF SendResult, Send, EventType
  <2>2. /\ Sent = r.i /\ Sent' = r.i + 1 /\ r'.i = r.i + 1 /\ r'.res = r.res /\ r.i \in Index
        /\ r.pc = "emit" /\ UNCHANGED <<out, qemu>>
    BY <1>0, <1>4, Numbers DEF SendResult, At, Sent, Finished, RunnerInv, Running, Index
  <2>3. PICK n : n = r.i + 1
    OBVIOUS
  <2>4. ev.res.i = r.i /\ Told(ev.res)
    BY <2>1, <2>2 DEF IInv, EmitInv
  <2>5. Told(ev.res)'
    BY <2>2, <2>4 DEF Told
  <2>6. IsResult(ev.res, n - 1)'
    BY <1>0, <2>1, <2>2, <2>3, <2>4, <2>5 DEF IsResult
  <2>7. IsEvent(ev, n)'
    BY <1>0, <2>1, <2>2, <2>3, <2>6 DEF IsEvent
  <2> QED
    BY <1>0, <1>k, <2>1, <2>2, <2>3, <2>7, StreamSend
<1>5. CASE RunNext \/ RunClose \/ Build \/ Boot \/ BootFail \/ TimedOut \/ Judged
  <2>1. ch' = ch /\ msgs' = msgs /\ ui' = ui
    BY <1>5 DEF RunNext, RunClose, Build, Boot, BootFail, TimedOut, Judged
  <2>2. Sent' = Sent
    BY <1>0, <1>5 DEF RunNext, RunClose, Build, Boot, BootFail, TimedOut, Judged, At, Step, Emit,
      Sent, Finished
  <2>3. Quiet
    BY <2>1, <2>2 DEF Quiet, Applied, Ended
  <2> QED
    BY <1>0, <1>k, <2>3, StreamQuiet
<1>6. CASE Tick
  <2>1. /\ ch' = ch /\ msgs' = msgs /\ ui'.results = ui.results /\ ui.phase = "splash"
        /\ ui'.phase = "boot"
    BY <1>0, <1>6 DEF Tick, TypeOK
  <2>2. r.pc = "off" /\ r'.pc = "start"
    BY <1>0, <1>6, <2>1 DEF Tick, IInv, UiInv
  <2>3. Quiet
    BY <2>1, <2>2 DEF Quiet, Applied, Sent
  <2> QED
    BY <1>0, <1>k, <2>3, StreamQuiet
<1>7. CASE CtrlC \/ Quit \/ TimeUp \/ UNCHANGED vars
  <2>1. ch' = ch /\ msgs' = msgs /\ ui' = ui /\ r' = r
    BY <1>7 DEF CtrlC, Quit, TimeUp, vars
  <2>2. Quiet
    BY <2>1 DEF Quiet, Applied, Ended, Sent, Finished
  <2> QED
    BY <1>0, <1>k, <2>2, StreamQuiet
<1>8. ASSUME NEW i \in Index, ScanEnd(i) \/ Crash(i) PROVE StreamInv'
  <2>1. ch' = ch /\ msgs' = msgs /\ ui' = ui /\ r' = r
    BY <1>8 DEF ScanEnd, Crash
  <2>2. Quiet
    BY <2>1 DEF Quiet, Applied, Ended, Sent, Finished
  <2> QED
    BY <1>0, <1>k, <2>2, StreamQuiet
<1>9. ASSUME NEW i \in Index, NEW n \in 1 .. MaxOut + 1, ScanRead(i, n) PROVE StreamInv'
  <2>1. ch' = ch /\ msgs' = msgs /\ ui' = ui /\ r' = r
    BY <1>9 DEF ScanRead
  <2>2. Quiet
    BY <2>1 DEF Quiet, Applied, Ended, Sent, Finished
  <2> QED
    BY <1>0, <1>k, <2>2, StreamQuiet
<1>10. ASSUME NEW i \in Index, NEW l \in Line, PrintLine(i, l) PROVE StreamInv'
  <2>1. ch' = ch /\ msgs' = msgs /\ ui' = ui /\ r' = r
    BY <1>10 DEF PrintLine
  <2>2. Quiet
    BY <2>1 DEF Quiet, Applied, Ended, Sent, Finished
  <2> QED
    BY <1>0, <1>k, <2>2, StreamQuiet
<1>11. CASE HeadlessEvent
  <2>0. PICK ev : ev = Head(ch)
    OBVIOUS
  <2>1. /\ ev \in EventType /\ IsEvent(ev, Applied + 1) /\ ~Ended /\ ui.phase # "splash"
        /\ Apply(ev, 0)
        /\ Received = 0 /\ msgs = {} /\ 0 \in {0, 1}
    BY <1>11, <2>0, HeadlessTakes
  <2>2. Applied' = Applied + 1 /\ Appends(ev)
    BY <2>1, Applies
  <2>3. /\ ch' = Tail(ch) /\ ch # <<>> /\ msgs' = msgs /\ r' = r
    BY <1>11 DEF HeadlessEvent
  <2>4. /\ Len(ch') = Len(ch) - 1 /\ \A x \in 1 .. Len(ch') : ch'[x] = ch[x + 1]
    BY <2>3, Oldest
  <2>5. Received' = 0 /\ Sent' = Sent /\ Applied \in Nat /\ Len(ch) \in Nat
    BY <1>0, <2>1, <2>3, Mailbox, Numbers DEF Received, Sent, Finished
  <2>6. Sent' = Applied' + Received' + Len(ch')
    BY <1>0, <2>1, <2>2, <2>4, <2>5 DEF StreamInv
  <2>7. \A x \in 1 .. Len(ch') : \A e, m : e = ch'[x] /\ m = Applied + 1 + x => IsEvent(e, m)'
    <3> SUFFICES ASSUME NEW x \in 1 .. Len(ch'), NEW e, NEW m, e = ch'[x], m = Applied + 1 + x
                 PROVE  IsEvent(e, m)'
      OBVIOUS
    <3>1. x + 1 \in 1 .. Len(ch) /\ e = ch[x + 1] /\ m = Applied + Received + (x + 1)
      BY <2>1, <2>4, <2>5
    <3>2. IsEvent(e, m)
      BY <1>0, <3>1 DEF StreamInv
    <3> QED
      BY <1>0, <1>k, <3>2, EventKept
  <2>8. (\A x \in 1 .. Len(ch) : IsEvent(ch[x], Applied + Received + x))'
    BY <2>2, <2>5, <2>7
  <2>9. (\A e \in msgs : msgs = {e} /\ IsEvent(e, Applied + 1))'
    BY <2>1, <2>3
  <2>10. (\A k \in 1 .. Len(ui.results) : k < r.i /\ IsResult(ui.results[k], k))'
    BY <1>0, <1>k, <2>1, <2>2, <2>3, ResultsApply
  <2> QED
    BY <2>6, <2>8, <2>9, <2>10 DEF StreamInv
<1>12. CASE WaitEvent
  <2>1. /\ msgs = {} /\ Received = 0 /\ mode = "tui" /\ ui.phase \in {"boot", "running"}
        /\ Applied \in Nat
        /\ Len(ch) \in Nat
    BY <1>0, <1>12, Mailbox, Numbers DEF WaitEvent
  <2>2. ui'.results = ui.results /\ ui'.phase = ui.phase /\ r' = r
    BY <1>0, <1>12 DEF WaitEvent, TypeOK
  <2>3. Applied' = Applied /\ Sent' = Sent
    BY <2>2 DEF Applied, Ended, Sent, Finished
  <2>4. ~ (ch = <<>> /\ closed)
    <3> SUFFICES ASSUME ch = <<>>, closed PROVE FALSE
      OBVIOUS
    <3>1. Len(ch) = 0 /\ Sent = Applied /\ r.pc = "end" /\ Sent = r.i + 1
      BY <1>0, <2>1 DEF StreamInv, RunnerInv, Sent, Finished
    <3>2. Applied <= r.i
      <4>1. CASE ui.phase = "boot"
        BY <1>0, <4>1 DEF Applied
      <4>2. CASE ui.phase = "running"
        <5>1. Applied = Len(ui.results) + 1 /\ Len(ui.results) \in Nat
          BY <1>0, <4>2, Numbers DEF Applied, Ended
        <5>2. CASE Len(ui.results) = 0
          BY <1>0, <5>1, <5>2
        <5>3. CASE Len(ui.results) # 0
          <6>1. Len(ui.results) \in 1 .. Len(ui.results)
            BY <5>1, <5>3
          <6>2. Len(ui.results) < r.i
            BY <1>0, <6>1 DEF StreamInv
          <6> QED
            BY <1>0, <5>1, <6>2
        <5> QED
          BY <5>2, <5>3
      <4> QED
        BY <2>1, <4>1, <4>2
    <3> QED
      BY <1>0, <2>1, <3>1, <3>2
  <2>5. ch # <<>> /\ ch' = Tail(ch) /\ msgs' = msgs \union {Head(ch)}
    BY <1>12, <2>4 DEF WaitEvent
  <2>6. PICK ev : ev = Head(ch)
    OBVIOUS
  <2>7. msgs' = {ev} /\ IsEvent(ev, Applied + 1)
    BY <2>1, <2>5, <2>6, Oldest
  <2>8. /\ Len(ch') = Len(ch) - 1 /\ \A x \in 1 .. Len(ch') : ch'[x] = ch[x + 1]
    BY <2>5, Oldest
  <2>9. Received' = 1
    BY <2>7 DEF Received
  <2>10. Sent' = Applied' + Received' + Len(ch')
    BY <1>0, <2>1, <2>3, <2>8, <2>9 DEF StreamInv
  <2>11. \A x \in 1 .. Len(ch') : \A e, m : e = ch'[x] /\ m = Applied + 1 + x => IsEvent(e, m)'
    <3> SUFFICES ASSUME NEW x \in 1 .. Len(ch'), NEW e, NEW m, e = ch'[x], m = Applied + 1 + x
                 PROVE  IsEvent(e, m)'
      OBVIOUS
    <3>1. x + 1 \in 1 .. Len(ch) /\ e = ch[x + 1] /\ m = Applied + Received + (x + 1)
      BY <2>1, <2>8
    <3>2. IsEvent(e, m)
      BY <1>0, <3>1 DEF StreamInv
    <3> QED
      BY <1>0, <1>k, <3>2, EventKept
  <2>12. (\A x \in 1 .. Len(ch) : IsEvent(ch[x], Applied + Received + x))'
    BY <2>3, <2>9, <2>11
  <2>13. \A e, m : e = ev /\ m = Applied + 1 => IsEvent(e, m)'
    BY <1>0, <1>k, <2>7, EventKept
  <2>14. (\A e \in msgs : msgs = {e} /\ IsEvent(e, Applied + 1))'
    BY <2>3, <2>7, <2>13
  <2>15. (\A k \in 1 .. Len(ui.results) : k < r.i /\ IsResult(ui.results[k], k))'
    BY <1>0, <1>k, <2>2, ResultKept DEF StreamInv
  <2> QED
    BY <2>10, <2>12, <2>14, <2>15 DEF StreamInv
<1>13. ASSUME NEW ev \in msgs, Update(ev) PROVE StreamInv'
  <2> DEFINE w == IF ev.kind \in {"done", "error"} THEN 0 ELSE 1
  <2>1. /\ ev \in EventType /\ IsEvent(ev, Applied + 1) /\ ~Ended /\ ui.phase # "splash"
        /\ Apply(ev, w)
        /\ Received = 1 /\ msgs' = {} /\ w \in {0, 1}
    BY <1>13, UpdateTakes
  <2> HIDE DEF w
  <2>2. Applied' = Applied + 1 /\ Appends(ev)
    BY <2>1, Applies
  <2>3. ch' = ch /\ r' = r
    BY <1>13 DEF Update
  <2>4. Received' = 0 /\ Sent' = Sent /\ Applied \in Nat /\ Len(ch) \in Nat
    BY <1>0, <2>1, <2>3, Mailbox, Numbers DEF Received, Sent, Finished
  <2>5. Sent' = Applied' + Received' + Len(ch')
    BY <1>0, <2>1, <2>2, <2>3, <2>4 DEF StreamInv
  <2>6. Applied' + Received' = Applied + Received
    BY <2>1, <2>2, <2>4
  <2>7. (\A x \in 1 .. Len(ch) : IsEvent(ch[x], Applied + Received + x))'
    BY <1>0, <1>k, <2>3, <2>6, EventKept DEF StreamInv
  <2>8. (\A e \in msgs : msgs = {e} /\ IsEvent(e, Applied + 1))'
    BY <2>1
  <2>9. (\A k \in 1 .. Len(ui.results) : k < r.i /\ IsResult(ui.results[k], k))'
    BY <1>0, <1>k, <2>1, <2>2, <2>3, ResultsApply
  <2> QED
    BY <2>5, <2>7, <2>8, <2>9 DEF StreamInv
<1> QED
  BY <1>1, <1>2, <1>3, <1>4, <1>5, <1>6, <1>7, <1>8, <1>9, <1>10, <1>11, <1>12, <1>13, Steps DEF
    Aside

\* An interface that does nothing is right as long as the runner goes on.
LEMMA UiSame ==
  ASSUME UiInv, UNCHANGED <<ui, mode, msgs, over, quit>>, r.pc = "off" <=> r'.pc = "off",
         Finished => Finished'
  PROVE  UiInv'
BY DEF UiInv, Received, Ended

\* The counts after an event has been applied.
LEMMA CountsApply ==
  ASSUME TypeOK, UiInv, NEW ev \in EventType, NEW w, Apply(ev, w), Appends(ev)
  PROVE  /\ ui'.failures <= Len(ui'.results)
         /\ ui'.failures = 0 <=> \A k \in 1 .. Len(ui'.results) : ui'.results[k].outcome = "pass"
<1>0. /\ ui.results \in Seq(ResultType) /\ ev.res \in ResultType /\ Len(ui.results) \in Nat
      /\ ui.failures \in Nat
  BY Numbers DEF TypeOK, EventType
<1>1. /\ ui.failures <= Len(ui.results)
      /\ ui.failures = 0 <=> \A k \in 1 .. Len(ui.results) : ui.results[k].outcome = "pass"
  BY DEF UiInv
<1>2. CASE ev.kind # "result"
  <2>1. ui'.results = ui.results /\ ui'.failures = ui.failures
    BY <1>0, <1>2 DEF Apply
  <2> QED
    BY <1>1, <2>1
<1>3. CASE ev.kind = "result"
  <2>1. ui'.results = Append(ui.results, ev.res) /\ ui'.failures = ui.failures + Count(ev.res)
    BY <1>3 DEF Apply
  <2>2. /\ Len(ui'.results) = Len(ui.results) + 1 /\ ui'.results[Len(ui.results) + 1] = ev.res
        /\ \A k \in 1 .. Len(ui.results) : ui'.results[k] = ui.results[k]
    BY <1>0, <2>1
  <2>3. CASE ev.res.outcome = "pass"
    <3>1. ui'.failures = ui.failures
      BY <1>0, <2>1, <2>3 DEF Count
    <3> QED
      BY <1>0, <1>1, <2>2, <2>3, <3>1
  <2>4. CASE ev.res.outcome # "pass"
    <3>1. ui'.failures = ui.failures + 1
      BY <2>1, <2>4 DEF Count
    <3>2. Len(ui.results) + 1 \in 1 .. Len(ui'.results)
      BY <1>0, <2>2
    <3>3. ~ \A k \in 1 .. Len(ui'.results) : ui'.results[k].outcome = "pass"
      BY <1>3, <2>2, <2>4, <3>2
    <3>4. ui'.failures # 0
      BY <1>0, <3>1
    <3>5. ui'.failures <= Len(ui'.results)
      BY <1>0, <1>1, <2>2, <3>1
    <3> QED
      BY <3>3, <3>4, <3>5
  <2> QED
    BY <2>3, <2>4
<1> QED
  BY <1>2, <1>3

\* Every step keeps the counts and the commands of the interface.
LEMMA UiInvStep ==
  ASSUME IInv, [Next]_vars
  PROVE  UiInv'
<1> USE DEF guest, build, files, view, rest
<1>0. TypeOK /\ UiInv /\ r \in RunType /\ ui \in UiType /\ mode \in {"headless", "tui"}
  BY DEF IInv, TypeOK
<1>1. CASE RunStart \/ RunCancelled \/ RunNext \/ RunDone \/ RunClose \/ SendResult
  BY <1>0, <1>1, UiSame DEF RunStart, RunCancelled, RunNext, RunDone, RunClose, SendResult, At,
    Step, Finished
<1>2. CASE Build \/ Boot \/ BootFail \/ TimedOut \/ Judged
  BY <1>0, <1>2, UiSame DEF Build, Boot, BootFail, TimedOut, Judged, At, Step, Emit, Finished
<1>3. CASE Tick
  <2>1. /\ ui'.phase = "boot" /\ ui.phase = "splash" /\ ui'.waiting = ui.waiting + 1
        /\ ui'.results = ui.results /\ ui'.failures = ui.failures
        /\ mode = "tui" /\ UNCHANGED <<mode, msgs, over, quit>> /\ ~over
    BY <1>0, <1>3 DEF Tick
  <2>2. r.pc = "off" /\ r'.pc = "start"
    BY <1>0, <1>3, <2>1 DEF Tick, UiInv
  <2>3. ui'.waiting + Received' = 1
    BY <1>0, <2>1, Mailbox DEF UiInv, Received
  <2> QED
    BY <1>0, <2>1, <2>2, <2>3 DEF UiInv, Ended
<1>4. CASE CtrlC \/ Quit \/ TimeUp \/ UNCHANGED vars
  <2>1. /\ UNCHANGED <<r, ui, mode, msgs>> /\ (over' => over \/ quit) /\ (quit => quit')
        /\ (over => over')
    BY <1>4 DEF CtrlC, Quit, TimeUp, vars
  <2> QED
    BY <1>0, <2>1 DEF UiInv, Received, Ended, Finished
<1>5. ASSUME NEW i \in Index, ScanEnd(i) \/ Crash(i) PROVE UiInv'
  BY <1>0, <1>5, UiSame DEF ScanEnd, Crash, Finished
<1>6. ASSUME NEW i \in Index, NEW n \in 1 .. MaxOut + 1, ScanRead(i, n) PROVE UiInv'
  BY <1>0, <1>6, UiSame DEF ScanRead, Finished
<1>7. ASSUME NEW i \in Index, NEW l \in Line, PrintLine(i, l) PROVE UiInv'
  BY <1>0, <1>7, UiSame DEF PrintLine, Finished
<1>8. CASE HeadlessEvent
  <2>0. PICK ev : ev = Head(ch)
    OBVIOUS
  <2>1. /\ ev \in EventType /\ IsEvent(ev, Applied + 1) /\ ~Ended /\ ui.phase # "splash"
        /\ Apply(ev, 0)
        /\ Received = 0 /\ msgs = {} /\ 0 \in {0, 1}
    BY <1>8, <2>0, HeadlessTakes
  <2>2. /\ Appends(ev) /\ ui'.waiting = 0
        /\ ui'.phase = IF ev.kind \in {"done", "error"} THEN ev.kind ELSE "running"
    BY <2>1, Applies
  <2>3. /\ mode = "headless" /\ mode' = mode /\ r' = r /\ msgs' = msgs /\ quit' = quit
        /\ over' = (ev.kind \in {"done", "error"}) /\ ~over
    BY <1>8, <2>0 DEF HeadlessEvent
  <2>4. r.pc # "off"
    BY <1>0, <2>1 DEF UiInv
  <2>5. ui'.waiting + Received' = 0
    BY <2>1, <2>2, <2>3 DEF Received
  <2>6. ev.kind \in {"done", "error"} => Finished
    BY <2>1, Arrives
  <2>7. /\ ui'.failures <= Len(ui'.results)
        /\ ui'.failures = 0 <=> \A k \in 1 .. Len(ui'.results) : ui'.results[k].outcome = "pass"
    BY <1>0, <2>1, <2>2, CountsApply
  <2> QED
    BY <2>2, <2>3, <2>4, <2>5, <2>6, <2>7 DEF UiInv, Ended, Finished
<1>9. CASE WaitEvent
  <2>1. /\ msgs = {} /\ Received = 0 /\ mode = "tui" /\ ui.phase \in {"boot", "running"}
        /\ ui.waiting = 1
    BY <1>0, <1>9, Mailbox DEF WaitEvent
  <2>2. /\ ui'.results = ui.results /\ ui'.phase = ui.phase /\ ui'.failures = ui.failures
        /\ ui'.waiting = ui.waiting - 1 /\ UNCHANGED <<r, mode, over, quit>> /\ msgs' # {}
    BY <1>0, <1>9 DEF WaitEvent
  <2>3. ui'.waiting + Received' = 1
    BY <2>1, <2>2 DEF Received
  <2> QED
    BY <1>0, <2>1, <2>2, <2>3 DEF UiInv, Ended, Finished
<1>10. ASSUME NEW ev \in msgs, Update(ev) PROVE UiInv'
  <2> DEFINE w == IF ev.kind \in {"done", "error"} THEN 0 ELSE 1
  <2>1. /\ ev \in EventType /\ IsEvent(ev, Applied + 1) /\ ~Ended /\ ui.phase # "splash"
        /\ Apply(ev, w)
        /\ Received = 1 /\ msgs' = {} /\ w \in {0, 1} /\ mode = "tui"
    BY <1>10, UpdateTakes
  <2>8. w = IF ev.kind \in {"done", "error"} THEN 0 ELSE 1
    OBVIOUS
  <2> HIDE DEF w
  <2>2. /\ Appends(ev) /\ ui'.waiting = w
        /\ ui'.phase = IF ev.kind \in {"done", "error"} THEN ev.kind ELSE "running"
    BY <2>1, Applies
  <2>3. UNCHANGED <<r, mode, over, quit>>
    BY <1>10 DEF Update
  <2>4. r.pc # "off"
    BY <1>0, <2>1 DEF UiInv
  <2>5. ui'.waiting + Received' = IF ev.kind \in {"done", "error"} THEN 0 ELSE 1
    BY <2>1, <2>2, <2>8 DEF Received
  <2>7. /\ ui'.failures <= Len(ui'.results)
        /\ ui'.failures = 0 <=> \A k \in 1 .. Len(ui'.results) : ui'.results[k].outcome = "pass"
    BY <1>0, <2>1, <2>2, CountsApply
  <2>9. over => quit \/ Finished
    BY <1>0 DEF UiInv
  <2> QED
    BY <2>1, <2>2, <2>3, <2>4, <2>5, <2>7, <2>9 DEF UiInv, Ended, Finished
<1> QED
  BY <1>1, <1>2, <1>3, <1>4, <1>5, <1>6, <1>7, <1>8, <1>9, <1>10, Steps DEF Aside

\* The report, when the interface applies the last event.
LEMMA ReportApply ==
  ASSUME IInv, NEW ev \in EventType, NEW w, IsEvent(ev, Applied + 1), ~Ended, ui.phase # "splash",
         Apply(ev, w), StreamInv'
  PROVE  ReportTrue'
<1>0. /\ TypeOK /\ ReportTrue /\ StreamInv /\ UiInv /\ Len(ui.results) \in Nat /\ Repeat \in Nat
      /\ r.i \in Nat
  BY Numbers DEF IInv
<1>1. \A k \in DOMAIN ui'.results : ui'.results[k].i = k
  <2>1. TypeOK => ui.results \in Seq(ResultType)
    BY DEF TypeOK
  <2>2. DOMAIN ui'.results = 1 .. Len(ui'.results)
    <3>1. ui'.results = ui.results \/ ui'.results = Append(ui.results, ev.res)
      BY DEF Apply
    <3>2. ev.res \in ResultType
      BY DEF EventType
    <3>3. ui'.results \in Seq(ResultType)
      BY <1>0, <2>1, <3>1, <3>2
    <3> QED
      BY <3>3, LenProperties
  <2> QED
    BY <2>2 DEF StreamInv, IsResult
<1>2. CASE report' = report
  BY <1>0, <1>1, <1>2 DEF ReportTrue
<1>3. CASE /\ ev.kind = "done"
           /\ report' = [passed |-> ui.failures = 0, results |-> ui.results, written |-> TRUE]
  <2>1. /\ Len(ui.results) = r.i - 1
        /\ (r.i = Repeat + 1 \/ (r.i > 1 /\ r.res.outcome = "timeout")) /\ Finished
    BY <1>3, Arrives
  <2>2. ui.failures = 0 <=> \A k \in 1 .. Len(ui.results) : ui.results[k].outcome = "pass"
    BY <1>0 DEF UiInv
  <2>3. Len(ui.results) # Repeat => ui.failures # 0
    <3> SUFFICES ASSUME Len(ui.results) # Repeat PROVE ui.failures # 0
      OBVIOUS
    <3>1. r.i > 1 /\ r.res.outcome = "timeout" /\ Len(ui.results) \in 1 .. Len(ui.results)
      BY <1>0, <2>1
    <3>2. ui.results[Len(ui.results)] = r.res
      BY <1>0, <2>1, <3>1 DEF StreamInv, IsResult, Finished
    <3> QED
      BY <2>2, <3>1, <3>2
  <2>4. (ui.failures = 0) <=> /\ Len(ui.results) = Repeat
                              /\ \A k \in Index : ui.results[k].outcome = "pass"
    BY <2>2, <2>3 DEF Index
  <2>5. report'.passed = (ui.failures = 0) /\ report'.results = ui.results
    BY <1>3
  <2> QED
    BY <1>1, <2>4, <2>5 DEF ReportTrue
<1> QED
  BY <1>2, <1>3 DEF Apply

\* Every step keeps the report true.
LEMMA ReportStep ==
  ASSUME IInv, [Next]_vars, StreamInv'
  PROVE  ReportTrue'
<1> USE DEF guest, build, files, view, rest
<1>0. ReportTrue /\ ui \in UiType
  BY DEF IInv, TypeOK
<1>s. ASSUME ui'.results = ui.results, report' = report PROVE ReportTrue'
  BY <1>0, <1>s DEF ReportTrue
<1>1. CASE RunStart \/ RunCancelled \/ RunNext \/ RunDone \/ RunClose \/ SendResult
  BY <1>1, <1>s DEF RunStart, RunCancelled, RunNext, RunDone, RunClose, SendResult
<1>2. CASE Build \/ Boot \/ BootFail \/ TimedOut \/ Judged
  BY <1>2, <1>s DEF Build, Boot, BootFail, TimedOut, Judged
<1>3. CASE Tick \/ WaitEvent
  BY <1>0, <1>3, <1>s DEF Tick, WaitEvent
<1>4. CASE CtrlC \/ Quit \/ TimeUp \/ UNCHANGED vars
  BY <1>4, <1>s DEF CtrlC, Quit, TimeUp, vars
<1>5. ASSUME NEW i \in Index, ScanEnd(i) \/ Crash(i) PROVE ReportTrue'
  BY <1>5, <1>s DEF ScanEnd, Crash
<1>6. ASSUME NEW i \in Index, NEW n \in 1 .. MaxOut + 1, ScanRead(i, n) PROVE ReportTrue'
  BY <1>6, <1>s DEF ScanRead
<1>7. ASSUME NEW i \in Index, NEW l \in Line, PrintLine(i, l) PROVE ReportTrue'
  BY <1>7, <1>s DEF PrintLine
<1>8. CASE HeadlessEvent
  BY <1>8, HeadlessTakes, ReportApply
<1>9. ASSUME NEW ev \in msgs, Update(ev) PROVE ReportTrue'
  BY <1>9, UpdateTakes, ReportApply
<1> QED
  BY <1>1, <1>2, <1>3, <1>4, <1>5, <1>6, <1>7, <1>8, <1>9, Steps DEF Aside

-----------------------------------------------------------------------------
(* Which kernel is booted *)

\* What a part has that make finds up to date, once it has rewritten .seedstamp.
LEMMA UpToDate ==
  ASSUME SeedInv, NEW x \in Part \ Outdated
  PROVE  Left[x] = RunSeed(r.i) /\ x \notin old
<1>1. Left[x] # None /\ x \notin old /\ stamp = RunSeed(r.i)
  BY DEF Outdated, Stamped
<1>2. obj[x] \in {None, stamp}
  BY <1>1 DEF SeedInv
<1> QED
  BY <1>1, <1>2 DEF Left, TypeOK

\* Whatever part of its work make does, what is then not older than .seedstamp has its seed.
LEMMA MadeRight ==
  ASSUME SeedInv, NEW D \in SUBSET Outdated, Made(D)
  PROVE  \A x \in Part \ old' : obj'[x] = stamp'
<1> SUFFICES ASSUME NEW x \in Part \ old' PROVE obj'[x] = stamp'
  OBVIOUS
<1>1. /\ stamp' = RunSeed(r.i) /\ old' = Outdated \ D
      /\ obj'[x] = IF x \in D THEN RunSeed(r.i) ELSE Left[x]
  BY DEF Made
<1>2. CASE x \in D
  BY <1>1, <1>2
<1>3. CASE x \notin D
  <2>1. x \in Part \ Outdated
    BY <1>1, <1>3
  <2> QED
    BY <1>1, <1>3, <2>1, UpToDate
<1> QED
  BY <1>2, <1>3

\* A make that does nothing leaves what was up to date, or missing.
LEMMA NothingMade ==
  ASSUME TypeOK, SeedInv, obj' = Left, UNCHANGED <<stamp, old>>
  PROVE  \A x \in Part \ old' : obj'[x] \in {None, stamp'}
<1>1. \A x \in Part : Left[x] \in {None, obj[x]}
  BY DEF Left, TypeOK
<1> QED
  BY <1>1 DEF SeedInv

\* A step that does not boot or build.
LEMMA SeedSame ==
  ASSUME SeedInv, UNCHANGED build, r'.pc = "boot" => r.pc = "boot" /\ r'.i = r.i,
         \A i \in Index : qemu'[i] # "off" => qemu[i] # "off"
  PROVE  SeedInv'
<1> USE DEF build, files
<1>0. base' = base /\ booted' = booted /\ stamp' = stamp /\ obj' = obj /\ old' = old
  OBVIOUS
<1>1. \A j : RunSeed(j)' = RunSeed(j)
  BY <1>0 DEF RunSeed
<1>2. \A x \in Part \ old' : obj'[x] \in {None, stamp'}
  BY <1>0 DEF SeedInv
<1>3. r'.pc = "boot" => obj' = [x \in Part |-> RunSeed(r.i)]
  BY <1>0 DEF SeedInv
<1>4. RunSeed(r.i)' = IF r'.i = r.i THEN RunSeed(r.i) ELSE RunSeed(r.i)'
  BY <1>0 DEF RunSeed
<1>5. \A i \in Index : qemu'[i] # "off" => booted'[i] = [x \in Part |-> RunSeed(i)']
  BY <1>0, <1>1 DEF SeedInv
<1> QED
  BY <1>2, <1>3, <1>4, <1>5 DEF SeedInv

\* Every step: the files that are booted have the seed of the run.
LEMMA SeedStep ==
  ASSUME IInv, [Next]_vars
  PROVE  SeedInv'
<1> USE DEF guest, view, rest
<1>0. TypeOK /\ SeedInv /\ r \in RunType /\ r.i \in Nat /\ r.i >= 1
  BY Numbers DEF IInv, TypeOK
<1>t. /\ qemu \in [Index -> {"off", "alive", "exited", "killed"}]
      /\ booted \in [Index -> [Part -> None .. SeedMod - 1]]
  BY <1>0 DEF TypeOK
<1>1. CASE RunStart \/ RunCancelled \/ RunNext \/ RunDone \/ RunClose \/ BootFail
  BY <1>0, <1>1, SeedSame DEF RunStart, RunCancelled, RunNext, RunDone, RunClose, BootFail, Step,
    Emit
<1>2. CASE TimedOut \/ Judged
  <2>1. UNCHANGED build /\ r'.i = r.i /\ r'.pc = "emit" /\ KillGroup
    BY <1>0, <1>2 DEF TimedOut, Judged, Emit
  <2>2. \A i \in Index : qemu'[i] # "off" => qemu[i] # "off"
    BY <1>t, <2>1 DEF KillGroup
  <2> QED
    BY <1>0, <2>1, <2>2, SeedSame
<1>3. CASE Tick
  BY <1>0, <1>3, SeedSame DEF Tick
<1>4. CASE Aside
  BY <1>0, <1>4, AsideKeeps, SeedSame DEF build, files
<1>5. ASSUME NEW i \in Index, ScanEnd(i) PROVE SeedInv'
  BY <1>0, <1>5, SeedSame DEF ScanEnd
<1>6. ASSUME NEW i \in Index, NEW n \in 1 .. MaxOut + 1, ScanRead(i, n) PROVE SeedInv'
  BY <1>0, <1>6, SeedSame DEF ScanRead
<1>7. ASSUME NEW i \in Index, NEW l \in Line, PrintLine(i, l) PROVE SeedInv'
  BY <1>0, <1>7, SeedSame DEF PrintLine
<1>8. ASSUME NEW i \in Index, Crash(i) PROVE SeedInv'
  <2>1. UNCHANGED build /\ r' = r /\ \A j \in Index : qemu'[j] # "off" => qemu[j] # "off"
    BY <1>8, <1>t DEF Crash
  <2> QED
    BY <1>0, <2>1, SeedSame
<1>9. CASE SendResult
  BY <1>0, <1>9, SeedSame DEF SendResult
<1>10. CASE Build
  <2>0. base' = base /\ booted' = booted /\ qemu' = qemu /\ r'.i = r.i
    BY <1>0, <1>10 DEF Build, Step, Emit
  <2>1. \A j : RunSeed(j)' = RunSeed(j)
    BY <2>0 DEF RunSeed
  <2>2. \A x \in Part \ old' : obj'[x] \in {None, stamp'}
    <3>1. \/ \E D \in SUBSET Outdated : Made(D)
          \/ obj' = Left /\ UNCHANGED <<stamp, old>>
      BY <1>10 DEF Build
    <3> QED
      BY <1>0, <3>1, MadeRight, NothingMade
  <2>3. r'.pc = "boot" => obj' = [x \in Part |-> RunSeed(r.i)]
    <3> SUFFICES ASSUME r'.pc = "boot" PROVE obj' = [x \in Part |-> RunSeed(r.i)]
      OBVIOUS
    <3>1. Made(Outdated)
      BY <1>0, <1>10 DEF Build, Emit
    <3>2. \A x \in Part : x \notin Outdated => Left[x] = RunSeed(r.i)
      BY <1>0, UpToDate
    <3> QED
      BY <3>1, <3>2 DEF Made
  <2>4. \A j \in Index : qemu'[j] # "off" => booted'[j] = [x \in Part |-> RunSeed(j)']
    BY <1>0, <2>0, <2>1 DEF SeedInv
  <2>5. RunSeed(r.i)' = RunSeed(r.i)
    BY <2>0 DEF RunSeed
  <2> QED
    BY <2>2, <2>3, <2>4, <2>5 DEF SeedInv
<1>11. CASE Boot
  <2>0. /\ base' = base /\ stamp' = stamp /\ obj' = obj /\ old' = old
        /\ r.pc = "boot" /\ r'.pc = "wait"
        /\ booted' = [booted EXCEPT ![r.i] = obj] /\ qemu' = [qemu EXCEPT ![r.i] = "alive"]
    BY <1>0, <1>11 DEF Boot, At, Step, files
  <2>1. \A j : RunSeed(j)' = RunSeed(j)
    BY <2>0 DEF RunSeed
  <2>2. \A x \in Part \ old' : obj'[x] \in {None, stamp'}
    BY <1>0, <2>0 DEF SeedInv
  <2>3. \A j \in Index : qemu'[j] # "off" => booted'[j] = [x \in Part |-> RunSeed(j)']
    BY <1>0, <1>t, <2>0, <2>1 DEF SeedInv
  <2> QED
    BY <2>0, <2>2, <2>3 DEF SeedInv
<1> QED
  BY <1>1, <1>2, <1>3, <1>4, <1>5, <1>6, <1>7, <1>8, <1>9, <1>10, <1>11, Steps

-----------------------------------------------------------------------------
(* Theorems *)

\* The initial states satisfy the invariant.
LEMMA InitIInv == Init => IInv
<1> SUFFICES ASSUME Init PROVE IInv
  OBVIOUS
<1>0. TypeOK /\ Repeat \in Nat /\ Repeat >= 1
  BY TypeInit, RunnerAssumption
<1>1. PICK skip \in BOOLEAN :
        LET started == mode = "headless" \/ skip IN
        /\ r = [pc |-> IF started THEN "start" ELSE "off", i |-> 1, res |-> NoResult]
        /\ ui = [phase |-> IF started THEN "boot" ELSE "splash", results |-> <<>>, failures |-> 0,
                 waiting |-> IF mode = "tui" /\ skip THEN 1 ELSE 0]
  BY DEF Init
<1>2. /\ r.i = 1 /\ r.pc \in {"off", "start"} /\ ui.results = <<>> /\ ui.failures = 0
      /\ ui.phase \in {"splash", "boot"} /\ (ui.phase = "splash" <=> r.pc = "off")
      /\ ui.waiting = IF mode = "tui" /\ ui.phase \in {"boot", "running"} THEN 1 ELSE 0
  BY <1>1 DEF Init
<1>3. qemu = [i \in Index |-> "off"] /\ out = [i \in Index |-> <<>>]
  BY Zenon DEF Init
<1>4. scan = [i \in Index |-> [pc |-> "off", n |-> 0, sent |-> FALSE, verdict |-> NoVerdict]]
  BY Zenon DEF Init
<1>5. /\ lastSeed = None /\ ch = <<>> /\ report = NoReport /\ msgs = {} /\ closed = FALSE
      /\ over = FALSE
  BY Zenon DEF Init
<1>6. RunnerInv
  BY <1>0, <1>2, <1>5 DEF RunnerInv, Running
<1>7. QemuInv
  BY <1>0, <1>2, <1>3, <1>4 DEF QemuInv, Index
<1>8. ScanInv
  <2>1. Len(<<>>) = 0
    OBVIOUS
  <2>2. \A i \in Index : out[i] = <<>> /\ scan[i].n = 0 /\ scan[i].pc = "off"
    BY <1>3, <1>4
  <2> QED
    <3>1. \A i \in Index : scan[i].n <= Len(out[i])
      BY <2>1, <2>2
    <3>2. \A i \in Index : scan[i].pc # "read" /\ scan[i].pc # "returned"
      BY <2>2
    <3> QED
      BY <3>1, <3>2, Zenon DEF ScanInv
<1>9. SeedInv
  <2>1. obj = [x \in Part |-> stamp]
    BY Zenon DEF Init
  <2> QED
    BY <1>2, <1>3, <2>1 DEF SeedInv
<1>10. EmitInv
  BY <1>2 DEF EmitInv
<1>11. StreamInv
  BY <1>2, <1>5 DEF StreamInv, Sent, Applied, Received
<1>12. UiInv
  BY <1>2, <1>5 DEF UiInv, Received, Ended
<1>13. ReportTrue
  BY <1>2, <1>5 DEF ReportTrue, NoReport
<1> QED
  BY <1>0, <1>6, <1>7, <1>8, <1>9, <1>10, <1>11, <1>12, <1>13 DEF IInv

\* The invariant holds for every number of runs, every base and modulus of the
\* seeds, every capacity of the channel and however much QEMU prints.
THEOREM RunnerCorrect == Spec => []IInv
<1>1. IInv /\ [Next]_vars => IInv'
  BY TypeStep, RunnerInvStep, QemuInvStep, ScanInvStep, SeedStep, EmitInvStep, StreamStep,
    UiInvStep, ReportStep DEF IInv
<1> QED
  BY <1>1, InitIInv, PTL DEF Spec

\* Every variable keeps its type; the channel is never longer than its capacity.
THEOREM TypeCorrect == Spec => []TypeOK
<1>1. IInv => TypeOK
  BY DEF IInv
<1> QED
  BY <1>1, RunnerCorrect, PTL

\* Every result arrives once and in order, and a report that says PASS is right.
THEOREM ReportsTrue == Spec => []ReportTrue
<1>1. IInv => ReportTrue
  BY DEF IInv
<1> QED
  BY <1>1, RunnerCorrect, PTL

\* No QEMU outlives the wait for its run.
THEOREM QemusAwaited == Spec => []QemuAwaited
<1>1. IInv => QemuAwaited
  <2> SUFFICES ASSUME IInv, NEW i \in Index, qemu[i] = "alive"
               PROVE  r.pc = "wait" /\ r.i = i /\ (over => quit)
    BY DEF QemuAwaited
  <2>1. i \in Nat /\ r.i \in Nat
    BY Numbers DEF IInv, Index
  <2>2. r.i = i /\ r.pc = "wait"
    BY <2>1 DEF IInv, QemuInv
  <2> QED
    BY <2>2 DEF IInv, UiInv, Finished
<1> QED
  BY <1>1, RunnerCorrect, PTL

\* Every result that is shown says what QEMU did, with a kernel and programs all of whose
\* files have the seed of the run.
THEOREM VerdictsHonest == Spec => []VerdictHonest
<1>1. IInv => VerdictHonest
  <2> SUFFICES ASSUME IInv, NEW k \in DOMAIN ui.results
               PROVE  /\ Told(ui.results[k])
                      /\ FindMarker(out[ui.results[k].i]) # "" =>
                           booted[ui.results[k].i] = [x \in Part |-> RunSeed(ui.results[k].i)]
    BY DEF VerdictHonest
  <2>1. ui.results \in Seq(ResultType)
    BY DEF IInv, TypeOK
  <2>2. k \in 1 .. Len(ui.results)
    BY <2>1, LenProperties
  <2>3. Told(ui.results[k]) /\ ui.results[k].i = k /\ k \in Index
    BY <2>2 DEF IInv, StreamInv, IsResult
  <2>4. FindMarker(out[k]) # "" => qemu[k] # "off"
    BY <2>3, NoLines DEF IInv, QemuInv
  <2> QED
    BY <2>3, <2>4 DEF IInv, SeedInv
<1> QED
  BY <1>1, RunnerCorrect, PTL

=============================================================================

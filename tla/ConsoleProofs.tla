---------------------------- MODULE ConsoleProofs ----------------------------
(***************************************************************************)
(* Proofs about Console: the invariant of ConsoleInv is inductive, what    *)
(* must hold follows from it, and the ring implements LineQueue.           *)
(*                                                                         *)
(* A step is seen from the stacks first: what runs on each CPU, its        *)
(* interrupt mask and its locks (the lemmas that end in Core), which need  *)
(* nothing of the data.  Then from the data: the FIFO, the ring, the reads *)
(* and the sleepers (the lemmas that end in Data), by what the step leaves *)
(* alone.  Last, from the queue of lines (the lemmas that end in Queue).   *)
(***************************************************************************)
EXTENDS ConsoleInv, SequenceTheorems, TLAPS

-----------------------------------------------------------------------------
(* The kernel stacks. *)

\* The initial frame.
LEMMA FrameType == Frame \in Frames
BY DEF Frame, Frames, Labels

\* What the stacks look like.
LEMMA Stacks ==
  ASSUME StackInv
  PROVE  /\ depth \in [Cpu -> 1 .. 2] /\ top \in [Cpu -> Frames] /\ proc \in [Cpu -> Frames]
         /\ \A c \in Cpu : depth[c] = Len(run[c]) /\ top[c] = Top(c) /\ proc[c] = Proc(c)
         /\ \A c \in Cpu : depth[c] = 1 => top[c] = proc[c]
<1>1. \A c \in Cpu : depth[c] = Len(run[c]) /\ top[c] = Top(c) /\ proc[c] = Proc(c)
  BY DEF depth, top, proc
<1>2. \A c \in Cpu : run[c] \in Seq(Frames) /\ depth[c] \in {1, 2}
  BY DEF StackInv, StackOf
<1>3. \A c \in Cpu : Len(run[c]) \in 1 .. 2 /\ Top(c) \in Frames /\ Proc(c) \in Frames
  <2> SUFFICES ASSUME NEW c \in Cpu
               PROVE  Len(run[c]) \in 1 .. 2 /\ Top(c) \in Frames /\ Proc(c) \in Frames
    OBVIOUS
  <2>1. run[c] \in Seq(Frames) /\ Len(run[c]) \in {1, 2}
    BY <1>1, <1>2
  <2>2. 1 \in 1 .. Len(run[c]) /\ Len(run[c]) \in 1 .. Len(run[c]) /\ Len(run[c]) \in 1 .. 2
    BY <2>1
  <2> QED
    BY <2>1, <2>2, ElementOfSeq DEF Top, Proc
<1>4. \A c \in Cpu : depth[c] = 1 => top[c] = proc[c]
  BY <1>1 DEF Top, Proc
<1>5. /\ depth = [c \in Cpu |-> depth[c]] /\ top = [c \in Cpu |-> top[c]]
      /\ proc = [c \in Cpu |-> proc[c]]
  BY DEF depth, top, proc
<1>6. \A c \in Cpu : depth[c] \in 1 .. 2 /\ top[c] \in Frames /\ proc[c] \in Frames
  BY <1>1, <1>3
<1> QED
  BY <1>1, <1>4, <1>5, <1>6

\* The running function of CPU c goes on with the frame f.
Sets(c, f) ==
  /\ run' \in [Cpu -> Seq(Frames)]
  /\ depth' = depth /\ top' = [top EXCEPT ![c] = f]
  /\ proc' = IF depth[c] = 1 THEN [proc EXCEPT ![c] = f] ELSE proc

\* A stack with a new top.
LEMMA NewTop ==
  ASSUME NEW s \in Seq(Frames), Len(s) \in 1 .. 2, NEW f \in Frames, NEW t,
         t = [s EXCEPT ![Len(s)] = f]
  PROVE  /\ t \in Seq(Frames) /\ Len(t) = Len(s) /\ t[Len(s)] = f
         /\ t[1] = (IF Len(s) = 1 THEN f ELSE s[1])
<1>1. Len(s) \in 1 .. Len(s) /\ 1 \in 1 .. Len(s) /\ DOMAIN s = 1 .. Len(s)
  OBVIOUS
<1>2. t \in Seq(Frames) /\ Len(t) = Len(s)
  BY <1>1, ExceptSeq
<1>3. t[Len(s)] = f /\ (Len(s) # 1 => t[1] = s[1])
  BY <1>1
<1> QED
  BY <1>2, <1>3

\* Set, of the stacks.
LEMMA SetSets ==
  ASSUME StackInv, NEW c \in Cpu, NEW f \in Frames, Set(c, f)
  PROVE  Sets(c, f)
<1> DEFINE n == Len(run[c])
<1> DEFINE t == [run[c] EXCEPT ![n] = f]
<1>0. depth[c] = n /\ depth[c] \in 1 .. 2
  BY Stacks
<1>1. run \in [Cpu -> Seq(Frames)] /\ run[c] \in Seq(Frames) /\ n \in 1 .. 2
  BY <1>0 DEF StackInv
<1>2. run' = [run EXCEPT ![c] = t]
  BY DEF Set
<1>3. /\ t \in Seq(Frames) /\ Len(t) = n /\ t[n] = f
      /\ t[1] = (IF n = 1 THEN f ELSE run[c][1])
  BY <1>1, NewTop
<1>4. run' \in [Cpu -> Seq(Frames)] /\ run'[c] = t /\ \A d \in Cpu : d # c => run'[d] = run[d]
  <2> HIDE DEF t
  <2> QED
    BY <1>1, <1>2, <1>3
<1> HIDE DEF t, n
<1>5. \A d \in Cpu : Len(run'[d]) = Len(run[d])
  BY <1>3, <1>4 DEF n
<1>6. \A d \in Cpu : run'[d][Len(run'[d])] = IF d = c THEN f ELSE run[d][Len(run[d])]
  BY <1>3, <1>4, <1>5 DEF n
<1>7. \A d \in Cpu : run'[d][1] = IF d = c /\ n = 1 THEN f ELSE run[d][1]
  BY <1>3, <1>4
<1>8. depth' = depth
  BY <1>5 DEF depth
<1>9. depth[c] = n /\ top \in [Cpu -> Frames] /\ proc \in [Cpu -> Frames]
  BY Stacks DEF n
<1>10. \A d \in Cpu : top'[d] = IF d = c THEN f ELSE top[d]
  BY <1>6 DEF top, Top
<1>11. \A d \in Cpu : proc'[d] = IF d = c /\ n = 1 THEN f ELSE proc[d]
  BY <1>7 DEF proc, Proc
<1>12. top' = [d \in Cpu |-> top'[d]] /\ proc' = [d \in Cpu |-> proc'[d]]
  BY DEF top, proc
<1>13. top' = [top EXCEPT ![c] = f]
  BY <1>9, <1>10, <1>12
<1>14. proc' = IF n = 1 THEN [proc EXCEPT ![c] = f] ELSE proc
  BY <1>9, <1>11, <1>12
<1> QED
  BY <1>4, <1>8, <1>9, <1>13, <1>14 DEF Sets

\* wakeup(l) by the handler of CPU c, which goes on at next: the processes that
\* sleep at l are at k afterwards.
Wakes(c, l, k, next) ==
  /\ run' \in [Cpu -> Seq(Frames)] /\ depth' = depth
  /\ top' \in [Cpu -> Frames] /\ proc' \in [Cpu -> Frames]
  /\ top'[c] = [Frame EXCEPT !.pc = next]
  /\ \A d \in Cpu : proc'[d] = Woken(proc[d], l, k)
  /\ \A d \in Cpu : d # c => top'[d] = IF depth[d] = 1 THEN Woken(proc[d], l, k) ELSE top[d]

\* A woken process's frame.
LEMMA WokenType ==
  ASSUME NEW f \in Frames, NEW l, NEW k \in Labels
  PROVE  Woken(f, l, k) \in Frames
BY DEF Woken, Frames

\* A stack with a new bottom.
LEMMA NewBottom ==
  ASSUME NEW s \in Seq(Frames), Len(s) \in 1 .. 2, NEW f \in Frames, NEW t,
         t = [s EXCEPT ![1] = f]
  PROVE  /\ t \in Seq(Frames) /\ Len(t) = Len(s) /\ t[1] = f
         /\ t[Len(s)] = (IF Len(s) = 1 THEN f ELSE s[Len(s)])
<1>1. Len(s) \in 1 .. Len(s) /\ 1 \in 1 .. Len(s) /\ DOMAIN s = 1 .. Len(s)
  OBVIOUS
<1>2. t \in Seq(Frames) /\ Len(t) = Len(s)
  BY <1>1, ExceptSeq
<1>3. t[1] = f /\ (Len(s) # 1 => t[Len(s)] = s[Len(s)])
  BY <1>1
<1> QED
  BY <1>2, <1>3

\* What a wakeup makes of one stack.
LEMMA WokenStack ==
  ASSUME StackInv, NEW c \in Cpu, NEW l, NEW k \in Labels, NEW next \in Labels,
         Wakeup(c, l, k, next), depth[c] = 2, NEW d \in Cpu
  PROVE  /\ run'[d] \in Seq(Frames) /\ Len(run'[d]) = Len(run[d])
         /\ run'[d][1] = Woken(run[d][1], l, k)
         /\ d # c => run'[d][Len(run[d])] =
              IF Len(run[d]) = 1 THEN Woken(run[d][1], l, k) ELSE run[d][Len(run[d])]
         /\ d = c => run'[d][Len(run[d])] = [Frame EXCEPT !.pc = next]
<1> DEFINE f == Woken(run[d][1], l, k)
<1> DEFINE s == [run[d] EXCEPT ![1] = f]
<1> DEFINE g == [Frame EXCEPT !.pc = next]
<1> DEFINE n == Len(s)
<1> DEFINE t == [s EXCEPT ![n] = g]
<1>0. depth[d] = Len(run[d]) /\ depth[d] \in 1 .. 2 /\ Proc(d) \in Frames /\ proc[d] = Proc(d)
  BY Stacks
<1>1. run[d] \in Seq(Frames) /\ Len(run[d]) \in 1 .. 2 /\ run[d][1] \in Frames
  BY <1>0, Stacks DEF StackInv, Proc
<1>2. f \in Frames /\ g \in Frames
  BY <1>1, WokenType, FrameType DEF Frames
<1>3. run'[d] = IF d = c THEN t ELSE s
  BY DEF Wakeup
<1> HIDE DEF f, g
<1>4. /\ s \in Seq(Frames) /\ n = Len(run[d]) /\ s[1] = f
      /\ s[Len(run[d])] = (IF Len(run[d]) = 1 THEN f ELSE run[d][Len(run[d])])
  BY <1>1, <1>2, NewBottom
<1> HIDE DEF s
<1>5. t \in Seq(Frames) /\ Len(t) = n /\ t[n] = g /\ t[1] = (IF n = 1 THEN g ELSE s[1])
  BY <1>1, <1>2, <1>4, NewTop
<1> HIDE DEF t, n
<1>6. CASE d = c
  <2>1. run'[d] = t /\ n = 2
    BY <1>0, <1>3, <1>4, <1>6
  <2>2. Len(t) = Len(run[d]) /\ t[1] = f /\ t[Len(run[d])] = g /\ t \in Seq(Frames)
    BY <1>4, <1>5, <2>1
  <2> QED
    BY <1>6, <2>1, <2>2 DEF f, g
<1>7. CASE d # c
  <2>1. run'[d] = s
    BY <1>3, <1>7
  <2> QED
    BY <1>1, <1>4, <1>7, <2>1 DEF f, n
<1> QED
  BY <1>6, <1>7

\* Wakeup, of the stacks.
LEMMA WakeupWakes ==
  ASSUME StackInv, NEW c \in Cpu, NEW l, NEW k \in Labels, NEW next \in Labels,
         Wakeup(c, l, k, next), depth[c] = 2
  PROVE  Wakes(c, l, k, next)
<1>1. \A d \in Cpu :
        /\ run'[d] \in Seq(Frames) /\ Len(run'[d]) = Len(run[d])
        /\ run'[d][1] = Woken(run[d][1], l, k)
        /\ d # c => run'[d][Len(run[d])] =
             IF Len(run[d]) = 1 THEN Woken(run[d][1], l, k) ELSE run[d][Len(run[d])]
        /\ d = c => run'[d][Len(run[d])] = [Frame EXCEPT !.pc = next]
  BY WokenStack
<1>2. \E h : run' = [d \in Cpu |-> h[d]]
  <2>1. run' = [d \in Cpu |-> LET s == [run[d] EXCEPT ![1] = Woken(@, l, k)]
                              IN IF d = c THEN [s EXCEPT ![Len(s)] = [Frame EXCEPT !.pc = next]]
                                          ELSE s]
    BY Zenon DEF Wakeup
  <2>2. run' = [d \in Cpu |-> run'[d]]
    BY Zenon, <2>1
  <2> QED
    BY Zenon, <2>2
<1>3. run' \in [Cpu -> Seq(Frames)]
  <2>1. \A d \in Cpu : run'[d] \in Seq(Frames)
    BY <1>1
  <2> QED
    BY Zenon, <1>2, <2>1
<1>4. \A d \in Cpu : /\ depth'[d] = depth[d] /\ top'[d] = run'[d][Len(run'[d])]
                    /\ proc'[d] = run'[d][1]
  BY <1>1 DEF depth, top, proc, Top, Proc
<1>5. \A d \in Cpu : depth[d] = Len(run[d]) /\ top[d] = run[d][Len(run[d])] /\ proc[d] = run[d][1]
  BY DEF depth, top, proc, Top, Proc
<1>6. depth' = depth
  BY <1>1 DEF depth
<1>7. \A d \in Cpu : proc'[d] = Woken(proc[d], l, k)
  BY <1>1, <1>4, <1>5
<1>8. \A d \in Cpu : d # c => top'[d] = IF depth[d] = 1 THEN Woken(proc[d], l, k) ELSE top[d]
  BY <1>1, <1>4, <1>5
<1>9. top'[c] = [Frame EXCEPT !.pc = next]
  BY <1>1, <1>4
<1>10. \A d \in Cpu : top'[d] \in Frames /\ proc'[d] \in Frames
  <2>1. \A d \in Cpu : proc[d] \in Frames /\ top[d] \in Frames
    BY Stacks
  <2>2. [Frame EXCEPT !.pc = next] \in Frames
    BY FrameType DEF Frames
  <2> QED
    BY <1>7, <1>8, <1>9, <2>1, <2>2, WokenType
<1>11. top' = [d \in Cpu |-> top'[d]] /\ proc' = [d \in Cpu |-> proc'[d]]
  BY DEF top, proc
<1>12. top' \in [Cpu -> Frames] /\ proc' \in [Cpu -> Frames]
  BY <1>10, <1>11
<1> QED
  BY <1>3, <1>6, <1>7, <1>8, <1>9, <1>12 DEF Wakes

\* Interrupt, of the stacks.
LEMMA InterruptPushes ==
  ASSUME StackInv, NEW c \in Cpu, depth[c] = 1, NEW f \in Frames,
         run' = [run EXCEPT ![c] = Append(@, f)]
  PROVE  /\ run' \in [Cpu -> Seq(Frames)] /\ depth' = [depth EXCEPT ![c] = 2]
         /\ top' = [top EXCEPT ![c] = f] /\ proc' = proc
<1> DEFINE t == Append(run[c], f)
<1>1. run \in [Cpu -> Seq(Frames)] /\ run[c] \in Seq(Frames) /\ Len(run[c]) = 1
  BY Stacks DEF StackInv
<1>2. t \in Seq(Frames) /\ Len(t) = 2 /\ t[2] = f /\ t[1] = run[c][1]
  <2>1. /\ t \in Seq(Frames) /\ Len(t) = Len(run[c]) + 1 /\ t[Len(run[c]) + 1] = f
        /\ \A i \in 1 .. Len(run[c]) : t[i] = run[c][i]
    <3>1. run[c] \in Seq(Frames) /\ f \in Frames
      BY <1>1
    <3> QED
      BY Zenon, <3>1, AppendProperties
  <2> HIDE DEF t
  <2>2. 1 \in 1 .. Len(run[c]) /\ Len(run[c]) + 1 = 2
    BY <1>1
  <2> QED
    BY <2>1, <2>2
<1> HIDE DEF t
<1>3. run' = [run EXCEPT ![c] = t]
  BY DEF t
<1>4. run' \in [Cpu -> Seq(Frames)] /\ run'[c] = t /\ \A d \in Cpu : d # c => run'[d] = run[d]
  BY <1>1, <1>2, <1>3
<1>5. \A d \in Cpu : Len(run'[d]) = IF d = c THEN 2 ELSE Len(run[d])
  BY <1>2, <1>4
<1>6. \A d \in Cpu : run'[d][Len(run'[d])] = IF d = c THEN f ELSE run[d][Len(run[d])]
  BY <1>2, <1>4
<1>7. \A d \in Cpu : run'[d][1] = run[d][1]
  BY <1>2, <1>4
<1>8. depth \in [Cpu -> 1 .. 2] /\ top \in [Cpu -> Frames] /\ proc \in [Cpu -> Frames]
  BY Stacks
<1>9. \A d \in Cpu : depth'[d] = IF d = c THEN 2 ELSE depth[d]
  BY <1>5 DEF depth
<1>10. \A d \in Cpu : top'[d] = IF d = c THEN f ELSE top[d]
  BY <1>6 DEF top, Top
<1>11. \A d \in Cpu : proc'[d] = proc[d]
  BY <1>7 DEF proc, Proc
<1>12. /\ depth' = [d \in Cpu |-> depth'[d]] /\ top' = [d \in Cpu |-> top'[d]]
       /\ proc' = [d \in Cpu |-> proc'[d]]
  BY DEF depth, top, proc
<1> QED
  BY <1>4, <1>8, <1>9, <1>10, <1>11, <1>12

\* The return from the trap, of the stacks.
LEMMA ReturnPops ==
  ASSUME StackInv, NEW c \in Cpu, run' = [run EXCEPT ![c] = <<run[c][1]>>]
  PROVE  /\ run' \in [Cpu -> Seq(Frames)] /\ depth' = [depth EXCEPT ![c] = 1]
         /\ top' = [top EXCEPT ![c] = proc[c]] /\ proc' = proc
<1> DEFINE t == <<run[c][1]>>
<1>0. proc[c] = run[c][1] /\ proc[c] \in Frames
  BY Stacks DEF Proc
<1>1. run \in [Cpu -> Seq(Frames)]
  BY DEF StackInv
<1>2. t \in Seq(Frames) /\ Len(t) = 1 /\ t[1] = run[c][1]
  BY <1>0
<1> HIDE DEF t
<1>3. run' = [run EXCEPT ![c] = t]
  BY DEF t
<1>4. run' \in [Cpu -> Seq(Frames)] /\ run'[c] = t /\ \A d \in Cpu : d # c => run'[d] = run[d]
  BY <1>1, <1>2, <1>3
<1>5. \A d \in Cpu : Len(run'[d]) = IF d = c THEN 1 ELSE Len(run[d])
  BY <1>2, <1>4
<1>6. \A d \in Cpu : run'[d][Len(run'[d])] = IF d = c THEN proc[c] ELSE run[d][Len(run[d])]
  BY <1>0, <1>2, <1>4
<1>7. \A d \in Cpu : run'[d][1] = run[d][1]
  BY <1>2, <1>4
<1>8. depth \in [Cpu -> 1 .. 2] /\ top \in [Cpu -> Frames] /\ proc \in [Cpu -> Frames]
  BY Stacks
<1>9. \A d \in Cpu : depth'[d] = IF d = c THEN 1 ELSE depth[d]
  BY <1>5 DEF depth
<1>10. \A d \in Cpu : top'[d] = IF d = c THEN proc[c] ELSE top[d]
  BY <1>6 DEF top, Top
<1>11. \A d \in Cpu : proc'[d] = proc[d]
  BY <1>7 DEF proc, Proc
<1>12. /\ depth' = [d \in Cpu |-> depth'[d]] /\ top' = [d \in Cpu |-> top'[d]]
       /\ proc' = [d \in Cpu |-> proc'[d]]
  BY DEF depth, top, proc
<1> QED
  BY <1>4, <1>8, <1>9, <1>10, <1>11, <1>12

\* kkill, of the stacks: the process of CPU c has the frame f.
LEMMA KillSets ==
  ASSUME StackInv, NEW c \in Cpu, NEW f \in Frames, run' = [run EXCEPT ![c][1] = f]
  PROVE  /\ run' \in [Cpu -> Seq(Frames)] /\ depth' = depth
         /\ top' = IF depth[c] = 1 THEN [top EXCEPT ![c] = f] ELSE top
         /\ proc' = [proc EXCEPT ![c] = f]
<1> DEFINE n == Len(run[c])
<1> DEFINE t == [run[c] EXCEPT ![1] = f]
<1>0. depth[c] = n /\ depth[c] \in 1 .. 2
  BY Stacks
<1>1. run \in [Cpu -> Seq(Frames)] /\ run[c] \in Seq(Frames) /\ n \in 1 .. 2
  BY <1>0 DEF StackInv
<1>2. run' = [run EXCEPT ![c] = t]
  OBVIOUS
<1>3. /\ t \in Seq(Frames) /\ Len(t) = n /\ t[1] = f
      /\ t[n] = (IF n = 1 THEN f ELSE run[c][n])
  BY <1>1, NewBottom
<1> HIDE DEF t
<1>4. run' \in [Cpu -> Seq(Frames)] /\ run'[c] = t /\ \A d \in Cpu : d # c => run'[d] = run[d]
  BY <1>1, <1>2, <1>3
<1> HIDE DEF n
<1>5. \A d \in Cpu : Len(run'[d]) = Len(run[d])
  BY <1>3, <1>4 DEF n
<1>6. \A d \in Cpu : run'[d][Len(run'[d])] = IF d = c /\ n = 1 THEN f ELSE run[d][Len(run[d])]
  BY <1>3, <1>4, <1>5 DEF n
<1>7. \A d \in Cpu : run'[d][1] = IF d = c THEN f ELSE run[d][1]
  BY <1>3, <1>4
<1>8. depth' = depth
  BY <1>5 DEF depth
<1>9. depth[c] = n /\ top \in [Cpu -> Frames] /\ proc \in [Cpu -> Frames]
  BY Stacks DEF n
<1>10. \A d \in Cpu : top'[d] = IF d = c /\ n = 1 THEN f ELSE top[d]
  BY <1>6 DEF top, Top
<1>11. \A d \in Cpu : proc'[d] = IF d = c THEN f ELSE proc[d]
  BY <1>7 DEF proc, Proc
<1>12. top' = [d \in Cpu |-> top'[d]] /\ proc' = [d \in Cpu |-> proc'[d]]
  BY DEF top, proc
<1>13. proc' = [proc EXCEPT ![c] = f]
  BY <1>9, <1>11, <1>12
<1>14. top' = IF n = 1 THEN [top EXCEPT ![c] = f] ELSE top
  BY <1>9, <1>10, <1>12
<1> QED
  BY <1>4, <1>8, <1>9, <1>13, <1>14

-----------------------------------------------------------------------------
(* Stacks, interrupts and locks: what a step of CPU c keeps of the others. *)

CoreInv == StackInv /\ MaskInv /\ OwnInv

Cpus == [ie : BOOLEAN, noff : Int, intena : BOOLEAN]

\* Only CPU c and its locks change.
OnlyCpu(c) == cpu' \in [Cpu -> Cpus] /\ \A d \in Cpu : d # c => cpu'[d] = cpu[d]

OnlyLocks(c) ==
  /\ owner' \in [Lock -> Cpu \union {None}]
  /\ \A l \in Lock : owner'[l] = owner[l] \/ (owner[l] \in {c, None} /\ owner'[l] \in {c, None})

\* A process that rests goes on resting, perhaps woken.
StillRests(d) ==
  /\ proc[d].pc \in Resting /\ proc'[d].pc \in Resting
  /\ IF depth[d] = 1 THEN top[d] = proc[d] /\ top'[d] = proc'[d] ELSE top'[d] = top[d]

\* What runs on other CPUs goes on, but for processes that are woken.
OnlyStack(c) ==
  /\ depth' \in [Cpu -> 1 .. 2] /\ top' \in [Cpu -> Frames] /\ proc' \in [Cpu -> Frames]
  /\ \A d \in Cpu : d # c =>
       /\ depth'[d] = depth[d]
       /\ (top'[d] = top[d] /\ proc'[d] = proc[d]) \/ StillRests(d)

\* The other CPUs keep what they know.
LEMMA OthersKeep ==
  ASSUME CoreInv, NEW c \in Cpu, OnlyCpu(c), OnlyLocks(c), OnlyStack(c),
         NEW d \in Cpu, d # c
  PROVE  StackOf(d)' /\ MaskOf(d)' /\ LocksOf(d)'
<1>1. /\ depth'[d] = depth[d] /\ cpu'[d] = cpu[d] /\ depth[d] \in 1 .. 2
      /\ (top'[d] = top[d] /\ proc'[d] = proc[d]) \/ StillRests(d)
      /\ StackOf(d) /\ MaskOf(d) /\ LocksOf(d)
  BY Stacks DEF OnlyStack, OnlyCpu, CoreInv, StackInv, MaskInv, OwnInv
<1>2. (owner'["tx"] = d <=> owner["tx"] = d) /\ (owner'["cons"] = d <=> owner["cons"] = d)
      /\ (owner'["pr"] = d <=> owner["pr"] = d)
  <2>1. d # None /\ "tx" \in Lock /\ "cons" \in Lock /\ "pr" \in Lock
    BY SpinlockAssumption, ConsoleAssumption
  <2> QED
    BY <2>1 DEF OnlyLocks
<1>3. CASE top'[d] = top[d]
  <2>1. proc[d].pc \in Resting <=> proc'[d].pc \in Resting
    BY <1>1 DEF StillRests
  <2>2. StackOf(d)' /\ MaskOf(d)'
    BY <1>1, <1>3, <2>1 DEF StackOf, MaskOf, Nested
  <2>3. LocksOf(d)'
    BY <1>1, <1>2, <1>3 DEF LocksOf, MayTx, MayCons, MustCons, HasPr
  <2> QED
    BY <2>2, <2>3
<1>4. CASE top'[d] # top[d]
  <2>1. depth[d] = 1 /\ depth'[d] = 1 /\ top[d].pc \in Resting /\ top'[d].pc \in Resting
    BY <1>1, <1>4 DEF StillRests
  <2>2. Pushed(top[d]) = 0 /\ Pushed(top'[d]) = 0 /\ ProcFrame(top'[d])
    BY <2>1 DEF Pushed, ProcFrame, Resting
  <2>3. StackOf(d)' /\ MaskOf(d)'
    BY <1>1, <2>1, <2>2 DEF StackOf, MaskOf, Nested
  <2>4. LocksOf(d)'
    BY <1>1, <1>2, <2>1 DEF LocksOf, MayTx, MayCons, MustCons, HasPr, Resting
  <2> QED
    BY <2>3, <2>4
<1> QED
  BY <1>3, <1>4

\* CPU c goes on with the frame f; the handler may have woken processes.
Goes(c, f) ==
  /\ f \in Frames /\ run' \in [Cpu -> Seq(Frames)] /\ depth' = depth /\ top'[c] = f
  /\ OnlyStack(c)
  /\ \/ proc'[c] = IF depth[c] = 1 THEN f ELSE proc[c]
     \/ depth[c] = 2 /\ proc'[c].pc \in Resting

\* Set does so.
LEMMA SetGoes ==
  ASSUME StackInv, NEW c \in Cpu, NEW f \in Frames, Set(c, f)
  PROVE  Sets(c, f) /\ Goes(c, f)
<1>1. depth \in [Cpu -> 1 .. 2] /\ top \in [Cpu -> Frames] /\ proc \in [Cpu -> Frames]
  BY Stacks
<1>2. Sets(c, f)
  BY SetSets
<1> QED
  BY <1>1, <1>2 DEF Goes, Sets, OnlyStack

\* And so does Wakeup, by the handler.
LEMMA WakeupGoes ==
  ASSUME StackInv, NEW c \in Cpu, NEW l \in Resting, NEW k \in Resting, NEW next \in Labels,
         Wakeup(c, l, k, next), depth[c] = 2
  PROVE  Wakes(c, l, k, next) /\ Goes(c, [Frame EXCEPT !.pc = next])
<1>1. Wakes(c, l, k, next)
  BY WakeupWakes DEF Resting, Labels
<1>2. /\ depth \in [Cpu -> 1 .. 2] /\ top \in [Cpu -> Frames] /\ proc \in [Cpu -> Frames]
      /\ \A d \in Cpu : depth[d] = 1 => top[d] = proc[d]
  BY Stacks
<1>3. \A d \in Cpu : proc[d].pc = l => proc'[d].pc \in Resting
  BY <1>1, <1>2 DEF Wakes, Woken, Frames
<1>4. \A d \in Cpu : proc[d].pc # l => proc'[d] = proc[d]
  BY <1>1 DEF Wakes, Woken
<1>5. proc'[c].pc \in Resting
  <2>1. proc[c].pc \in Resting
    BY DEF StackInv, StackOf
  <2> QED
    BY <2>1, <1>3, <1>4
<1>6. \A d \in Cpu : d # c => top'[d] = IF depth[d] = 1 THEN proc'[d] ELSE top[d]
  BY <1>1 DEF Wakes
<1>7. OnlyStack(c)
  <2>1. /\ depth' = depth /\ depth' \in [Cpu -> 1 .. 2] /\ top' \in [Cpu -> Frames]
        /\ proc' \in [Cpu -> Frames]
    BY <1>1, <1>2 DEF Wakes
  <2> SUFFICES ASSUME NEW d \in Cpu, d # c
               PROVE  (top'[d] = top[d] /\ proc'[d] = proc[d]) \/ StillRests(d)
    BY <2>1 DEF OnlyStack
  <2>2. CASE proc[d].pc = l
    BY <1>2, <1>3, <1>6, <2>2 DEF StillRests
  <2>3. CASE proc[d].pc # l
    BY <1>2, <1>4, <1>6, <2>3
  <2> QED
    BY <2>2, <2>3
<1>8. [Frame EXCEPT !.pc = next] \in Frames
  BY FrameType DEF Frames
<1> QED
  BY <1>1, <1>5, <1>7, <1>8 DEF Goes, Wakes

\* Then CPU c keeps what is known of every CPU, if it does so of itself.
LEMMA CoreSet ==
  ASSUME CoreInv, NEW c \in Cpu, NEW f, Goes(c, f), OnlyCpu(c), OnlyLocks(c),
         panicked' = FALSE, claimed' = claimed,
         depth[c] = 1 => ProcFrame(f), depth[c] = 2 => HandlerFrame(f),
         MaskOf(c)', LocksOf(c)'
  PROVE  CoreInv'
<1>1. StackInv /\ MaskInv /\ OwnInv
  BY DEF CoreInv
<1>2. /\ OnlyStack(c) /\ depth' = depth /\ top'[c] = f /\ run' \in [Cpu -> Seq(Frames)]
      /\ \/ proc'[c] = IF depth[c] = 1 THEN f ELSE proc[c]
         \/ depth[c] = 2 /\ proc'[c].pc \in Resting
  BY DEF Goes
<1>3. \A d \in Cpu : d # c => StackOf(d)' /\ MaskOf(d)' /\ LocksOf(d)'
  BY <1>2, OthersKeep
<1>4. StackOf(c)'
  <2>1. StackOf(c)
    BY <1>1 DEF StackInv
  <2> QED
    BY <1>2, <2>1 DEF StackOf
<1>5. StackInv'
  BY <1>1, <1>2, <1>3, <1>4 DEF StackInv
<1>6. MaskInv' /\ OwnInv'
  BY <1>1, <1>3 DEF MaskInv, OwnInv, OnlyCpu, OnlyLocks, Cpus
<1> QED
  BY <1>5, <1>6 DEF CoreInv

-----------------------------------------------------------------------------
(* push_off and pop_off *)

Level(c) == Pushed(top[c]) + Nested(c)

\* How deep a frame can be.
LEMMA Levels ==
  ASSUME CoreInv, NEW c \in Cpu
  PROVE  /\ cpu[c] \in Cpus /\ Level(c) \in 0 .. 3 /\ cpu[c].noff = Level(c)
         /\ cpu[c].ie <=> (depth[c] = 1 /\ Level(c) = 0)
         /\ Level(c) > 0 => (cpu[c].intena <=> depth[c] = 1)
<1>1. cpu[c] \in Cpus /\ MaskOf(c)
  BY DEF CoreInv, MaskInv, Cpus
<1>2. Pushed(top[c]) \in 0 .. 2 /\ Nested(c) \in 0 .. 1
  BY DEF Pushed, Nested
<1> QED
  BY <1>1, <1>2 DEF MaskOf, Level, Cpus

\* push_off, where the CPU is then one level deeper.
LEMMA PushMask ==
  ASSUME CoreInv, NEW c \in Cpu, cpu' = [cpu EXCEPT ![c] = PushOff(@)], depth'[c] = depth[c],
         Level(c)' = Level(c) + 1
  PROVE  OnlyCpu(c) /\ MaskOf(c)'
<1>1. cpu \in [Cpu -> Cpus]
  BY DEF CoreInv, MaskInv, Cpus
<1>2. PushOff(cpu[c]) \in Cpus
  BY <1>1 DEF PushOff, Cpus
<1>3. OnlyCpu(c) /\ cpu'[c] = PushOff(cpu[c])
  BY <1>1, <1>2 DEF OnlyCpu
<1>4. /\ cpu'[c].noff = cpu[c].noff + 1 /\ cpu'[c].ie = FALSE
      /\ cpu'[c].intena = IF cpu[c].noff = 0 THEN cpu[c].ie ELSE cpu[c].intena
  BY <1>3 DEF PushOff
<1>5. /\ cpu'[c].noff = Level(c)' /\ cpu'[c].noff > 0 /\ ~cpu'[c].ie
      /\ (cpu'[c].intena <=> depth'[c] = 1)
  BY <1>4, Levels
<1> QED
  BY <1>3, <1>5 DEF MaskOf, Level

\* pop_off, where the CPU is then one level up: neither of its panics.
LEMMA PopMask ==
  ASSUME CoreInv, NEW c \in Cpu, cpu' = [cpu EXCEPT ![c] = PopOff(@)], depth'[c] = depth[c],
         Level(c) > 0, Level(c)' = Level(c) - 1
  PROVE  OnlyCpu(c) /\ MaskOf(c)' /\ ~Unmatched(cpu[c])
<1>1. cpu \in [Cpu -> Cpus]
  BY DEF CoreInv, MaskInv, Cpus
<1>2. /\ PopOff(cpu[c]) \in Cpus /\ PopOff(cpu[c]).noff = cpu[c].noff - 1
      /\ PopOff(cpu[c]).ie <=> (cpu[c].noff = 1 /\ cpu[c].intena)
      /\ PopOff(cpu[c]).intena <=> cpu[c].intena
  <2>1. cpu[c] \in Cpus /\ cpu[c].noff \in Int
    BY <1>1 DEF Cpus
  <2> DEFINE b == cpu[c].noff = 1 /\ cpu[c].intena
  <2>2. b \in BOOLEAN /\ (b <=> (cpu[c].noff = 1 /\ cpu[c].intena)) /\ cpu[c].noff - 1 \in Int
    BY <2>1
  <2>3. PopOff(cpu[c]) = [cpu[c] EXCEPT !.noff = cpu[c].noff - 1, !.ie = b]
    BY DEF PopOff
  <2> HIDE DEF b
  <2>4. /\ PopOff(cpu[c]) \in Cpus /\ PopOff(cpu[c]).noff = cpu[c].noff - 1
        /\ PopOff(cpu[c]).ie = b /\ PopOff(cpu[c]).intena = cpu[c].intena
    BY <2>1, <2>2, <2>3 DEF Cpus
  <2> QED
    BY <2>2, <2>4
<1>3. OnlyCpu(c) /\ cpu'[c] = PopOff(cpu[c])
  BY <1>1, <1>2 DEF OnlyCpu
<1>4. /\ cpu[c].noff = Level(c) /\ Level(c) \in 1 .. 3 /\ ~cpu[c].ie
      /\ cpu[c].intena <=> depth[c] = 1
  BY Levels
<1>5. ~Unmatched(cpu[c])
  BY <1>4 DEF Unmatched
<1>6. /\ cpu'[c].noff = Level(c)' /\ (cpu'[c].intena <=> depth'[c] = 1)
      /\ cpu'[c].ie <=> (cpu'[c].noff = 0 /\ depth'[c] = 1)
  BY <1>2, <1>3, <1>4
<1> QED
  BY <1>3, <1>5, <1>6 DEF MaskOf, Level

\* Where the level stays, the interrupt mask may as well.
LEMMA SameMask ==
  ASSUME CoreInv, NEW c \in Cpu, UNCHANGED cpu, depth'[c] = depth[c], Level(c)' = Level(c)
  PROVE  OnlyCpu(c) /\ MaskOf(c)'
<1>1. cpu \in [Cpu -> Cpus] /\ MaskOf(c)
  BY DEF CoreInv, MaskInv, Cpus
<1> QED
  BY <1>1 DEF OnlyCpu, MaskOf, Level

-----------------------------------------------------------------------------
(* acquire, release and sleep *)

\* The locks of CPU c.
LEMMA Owned ==
  ASSUME CoreInv, NEW c \in Cpu
  PROVE  /\ StackOf(c) /\ LocksOf(c) /\ c # None
         /\ owner \in [Lock -> Cpu \union {None}] /\ Lock = {"tx", "cons", "pr"}
BY SpinlockAssumption, ConsoleAssumption DEF CoreInv, StackInv, OwnInv

\* No lock changes hands.
LEMMA SameLocks ==
  ASSUME CoreInv, NEW c \in Cpu, UNCHANGED owner
  PROVE  OnlyLocks(c)
BY Owned DEF OnlyLocks

\* CPU c has taken the lock l, and no other.
LEMMA LockedLocks ==
  ASSUME CoreInv, NEW c \in Cpu, NEW l \in Lock, Locked(c, l)
  PROVE  /\ OnlyLocks(c) /\ owner'[l] = c /\ \A x \in Lock : x # l => owner'[x] = owner[x]
         /\ UNCHANGED <<cpu, panicked>>
BY Owned DEF OnlyLocks, Locked, Free

\* CPU c has given the lock l back, and no other.
LEMMA ReleasedLocks ==
  ASSUME CoreInv, NEW c \in Cpu, NEW l \in Lock, Free(c, l), owner' = [owner EXCEPT ![l] = None]
  PROVE  OnlyLocks(c) /\ owner'[l] = None /\ \A x \in Lock : x # l => owner'[x] = owner[x]
BY Owned DEF OnlyLocks, Free

-----------------------------------------------------------------------------
(* The steps of CPU c, by what they do to its interrupts. *)

\* The level at which the frame f of a CPU with n frames runs.
Deep(f, n) == Pushed(f) + (IF n = 2 /\ Printing(f, "c_end") THEN 1 ELSE 0)

\* c can go on with f: it is a frame for this height of the stack, and the locks go with it.
Fits(c, f) ==
  /\ Goes(c, f) /\ OnlyLocks(c) /\ claimed' = claimed
  /\ depth[c] = 1 => ProcFrame(f)
  /\ depth[c] = 2 => HandlerFrame(f)
  /\ owner'["tx"] = c => f.pc = "w"
  /\ owner'["cons"] = c =>
       IF depth[c] = 1 THEN f.pc = "r" ELSE f.pc \notin {"isr", "rx"}
  /\ depth[c] = 2 /\ f.pc \notin {"isr", "rx", "c"} => owner'["cons"] = c
  /\ owner'["pr"] = c <=> f.pc = "pr_end" \/ (f.pc \in {"put", "putc"} /\ f.src = "print")

\* A frame that fits decides the locks and the level of its CPU.
LEMMA FitsGoes ==
  ASSUME CoreInv, NEW c \in Cpu, NEW f, Fits(c, f)
  PROVE  /\ LocksOf(c)' /\ Level(c)' = Deep(f, depth[c]) /\ depth'[c] = depth[c]
         /\ Level(c) = Deep(top[c], depth[c])
<1>1. depth'[c] = depth[c] /\ top'[c] = f /\ depth[c] \in 1 .. 2
  BY Stacks DEF CoreInv, Fits, Goes
<1>2. LocksOf(c)'
  BY <1>1 DEF LocksOf, MayTx, MayCons, MustCons, HasPr, Fits
<1> QED
  BY <1>1, <1>2 DEF Level, Nested, Deep

\* A step that does push_off goes on with a frame one level deeper.
LEMMA CorePush ==
  ASSUME CoreInv, NEW c \in Cpu, NEW f, Fits(c, f), cpu' = [cpu EXCEPT ![c] = PushOff(@)],
         panicked' = FALSE, Deep(f, depth[c]) = Deep(top[c], depth[c]) + 1
  PROVE  CoreInv'
BY FitsGoes, PushMask, CoreSet DEF Fits

\* A step that does pop_off goes on with a frame one level up.
LEMMA CorePop ==
  ASSUME CoreInv, NEW c \in Cpu, NEW f, Fits(c, f), cpu' = [cpu EXCEPT ![c] = PopOff(@)],
         panicked' = (panicked \/ Unmatched(cpu[c])),
         Deep(top[c], depth[c]) > 0, Deep(f, depth[c]) = Deep(top[c], depth[c]) - 1
  PROVE  CoreInv'
<1>1. OnlyCpu(c) /\ MaskOf(c)' /\ ~Unmatched(cpu[c])
  BY FitsGoes, PopMask
<1>2. panicked' = FALSE
  BY <1>1 DEF CoreInv, MaskInv
<1> QED
  BY <1>1, <1>2, FitsGoes, CoreSet DEF Fits

\* A step that leaves the mask alone goes on with a frame at the same level.
LEMMA CoreSame ==
  ASSUME CoreInv, NEW c \in Cpu, NEW f, Fits(c, f), UNCHANGED <<cpu, panicked>>,
         Deep(f, depth[c]) = Deep(top[c], depth[c])
  PROVE  CoreInv'
<1>1. OnlyCpu(c) /\ MaskOf(c)'
  BY FitsGoes, SameMask
<1>2. panicked' = FALSE
  BY DEF CoreInv, MaskInv
<1> QED
  BY <1>1, <1>2, FitsGoes, CoreSet DEF Fits

\* acquire, of a lock that the CPU does not have.
LEMMA CoreAcquire ==
  ASSUME CoreInv, NEW c \in Cpu, NEW f, Fits(c, f), NEW l \in Lock, Acquire(c, l), owner[l] # c,
         Deep(f, depth[c]) = Deep(top[c], depth[c]) + 1
  PROVE  CoreInv'
<1>1. panicked' = FALSE
  BY DEF CoreInv, MaskInv, Acquire
<1> QED
  BY <1>1, CorePush DEF Acquire

\* release, which does pop_off.
LEMMA CoreRelease ==
  ASSUME CoreInv, NEW c \in Cpu, NEW f, Fits(c, f), NEW l \in Lock, Release(c, l),
         Deep(top[c], depth[c]) > 0, Deep(f, depth[c]) = Deep(top[c], depth[c]) - 1
  PROVE  CoreInv'
BY CorePop DEF Release

\* sleep, in a system call that holds one lock.
LEMMA CoreSleep ==
  ASSUME CoreInv, NEW c \in Cpu, NEW f, Fits(c, f), NEW l \in Lock, SleepOn(c, l),
         depth[c] = 1, Deep(top[c], 1) = 1, Deep(f, 1) = 0
  PROVE  CoreInv'
<1>1. /\ cpu[c] \in Cpus /\ cpu[c].noff = 1 /\ ~cpu[c].ie /\ cpu \in [Cpu -> Cpus]
      /\ Level(c)' = 0 /\ depth'[c] = 1 /\ LocksOf(c)'
  <2>1. /\ LocksOf(c)' /\ Level(c)' = 0 /\ depth'[c] = 1 /\ Level(c) = 1
    BY FitsGoes
  <2>2. cpu \in [Cpu -> Cpus]
    BY DEF CoreInv, MaskInv, Cpus
  <2> QED
    BY <2>1, <2>2, Levels
<1>2. panicked' = FALSE
  BY <1>1 DEF CoreInv, MaskInv, SleepOn
<1> DEFINE x == [cpu[c] EXCEPT !.noff = 0, !.ie = TRUE]
<1>3. x \in Cpus /\ x.noff = 0 /\ x.ie
  <2> DEFINE b == TRUE
  <2> DEFINE n == 0
  <2>1. x = [cpu[c] EXCEPT !.noff = n, !.ie = b] /\ b \in BOOLEAN /\ n \in Int
    OBVIOUS
  <2> HIDE DEF x, b, n
  <2>2. x \in Cpus /\ x.noff = n /\ x.ie = b
    BY <1>1, <2>1 DEF Cpus
  <2> QED
    BY <2>2 DEF b, n
<1>x. cpu' = [cpu EXCEPT ![c] = x]
  BY DEF SleepOn
<1> HIDE DEF x
<1>4. OnlyCpu(c) /\ cpu'[c].noff = 0 /\ cpu'[c].ie
  BY <1>1, <1>3, <1>x DEF OnlyCpu
<1>5. MaskOf(c)'
  BY <1>1, <1>4 DEF MaskOf, Level
<1> QED
  BY <1>1, <1>2, <1>4, <1>5, CoreSet DEF Fits

-----------------------------------------------------------------------------
(* Each step of a CPU keeps stacks, interrupts and locks. *)

\* What runs on CPU c, and what it has.
LEMMA Running ==
  ASSUME CoreInv, NEW c \in Cpu
  PROVE  /\ top[c] \in Frames /\ Top(c) = top[c] /\ depth[c] \in {1, 2}
         /\ depth[c] = 1 => ProcFrame(top[c]) /\ proc[c] = top[c]
         /\ depth[c] = 2 => HandlerFrame(top[c]) /\ proc[c].pc \in Resting
         /\ owner["tx"] = c => top[c].pc = "w"
         /\ owner["cons"] = c =>
              IF depth[c] = 1 THEN top[c].pc = "r" ELSE top[c].pc \notin {"isr", "rx"}
         /\ depth[c] = 2 /\ top[c].pc \notin {"isr", "rx", "c"} => owner["cons"] = c
         /\ owner["pr"] = c <=>
              top[c].pc = "pr_end" \/ (top[c].pc \in {"put", "putc"} /\ top[c].src = "print")
<1>1. StackOf(c) /\ LocksOf(c) /\ top[c] \in Frames /\ Top(c) = top[c] /\ depth[c] \in 1 .. 2
      /\ (depth[c] = 1 => proc[c] = top[c])
  BY Owned, Stacks DEF CoreInv
<1>2. depth[c] \in {1, 2}
  BY <1>1
<1> QED
  BY <1>1, <1>2 DEF StackOf, LocksOf, MayTx, MayCons, MustCons, HasPr

\* A frame that moves to the label l.
LEMMA Moved ==
  ASSUME NEW g \in Frames, NEW l \in Labels
  PROVE  /\ [g EXCEPT !.pc = l] \in Frames /\ [g EXCEPT !.pc = l].pc = l
         /\ [g EXCEPT !.pc = l].n = g.n /\ [g EXCEPT !.pc = l].m = g.m
         /\ [g EXCEPT !.pc = l].ch = g.ch /\ [g EXCEPT !.pc = l].src = g.src
         /\ [g EXCEPT !.pc = l].ret = g.ret /\ [g EXCEPT !.pc = l].next = g.next
BY DEF Frames

\* A frame that enters uartputc_sync.
LEMMA Putting ==
  ASSUME CoreInv, NEW c \in Cpu, NEW s \in {"echo", "print"}, NEW l \in Labels
  PROVE  /\ Put(c, s, l) \in Frames /\ Put(c, s, l).pc = "put" /\ Put(c, s, l).src = s
         /\ Put(c, s, l).ret = l /\ Put(c, s, l).next = top[c].next /\ Put(c, s, l).ch = top[c].ch
<1>1. top[c] \in Frames /\ Put(c, s, l) = [top[c] EXCEPT !.pc = "put", !.src = s, !.ret = l]
  BY Running DEF Put
<1> QED
  BY <1>1 DEF Frames, Labels

\* A new frame at the label l.
LEMMA Fresh ==
  ASSUME NEW l \in Labels
  PROVE  /\ [Frame EXCEPT !.pc = l] \in Frames /\ [Frame EXCEPT !.pc = l].pc = l
         /\ [Frame EXCEPT !.pc = l].n = 0
BY DEF Frame, Frames, Labels

\* How deep the labels are.
LEMMA DeepIs ==
  ASSUME NEW f, NEW n
  PROVE  /\ f.pc \in Resting \union {"rx"} => Deep(f, n) = 0
         /\ f.pc \in {"w", "r", "isr", "c", "c_dump", "c_end", "c_store"} => Deep(f, n) = 1
         /\ n = 1 /\ f.pc \in {"pr", "pr_end", "put"} => Deep(f, n) = 1
         /\ n = 1 /\ f.pc = "putc" => Deep(f, n) = 2
         /\ n = 2 /\ Printing(f, "c_end") => Deep(f, n) = (IF f.pc = "putc" THEN 3 ELSE 2)
         /\ Echoing(f) => Deep(f, n) = (IF f.pc = "putc" THEN 2 ELSE 1)
BY DEF Deep, Pushed, Printing, Echoing, Resting

\* uartputc_sync has found the transmitter idle: push_off.
LEMMA PutIdleCore ==
  ASSUME CoreInv, NEW c \in Cpu, PutIdle(c)
  PROVE  CoreInv' /\ top[c].pc = "put" /\ Sets(c, [top[c] EXCEPT !.pc = "putc"])
<1> DEFINE g == top[c]
<1> DEFINE f == [g EXCEPT !.pc = "putc"]
<1>1. /\ g.pc = "put" /\ g \in Frames /\ Set(c, f) /\ UNCHANGED <<owner, panicked, claimed>>
      /\ cpu' = [cpu EXCEPT ![c] = PushOff(@)]
  BY Running DEF PutIdle, At, To, uart
<1>2. /\ f \in Frames /\ f.pc = "putc" /\ f.src = g.src /\ f.ret = g.ret /\ f.next = g.next
      /\ f.ch = g.ch
  BY <1>1, Moved DEF Labels
<1>3. Goes(c, f) /\ Sets(c, f)
  BY <1>1, <1>2, SetGoes DEF CoreInv
<1> HIDE DEF f
<1>4. (ProcFrame(g) => ProcFrame(f)) /\ (HandlerFrame(g) => HandlerFrame(f))
  BY <1>1, <1>2 DEF ProcFrame, HandlerFrame, Printing, Echoing, Resting
<1>5. Fits(c, f)
  BY <1>1, <1>2, <1>3, <1>4, Running, SameLocks DEF Fits
<1>6. Deep(f, depth[c]) = Deep(g, depth[c]) + 1
  <2>1. depth[c] = 2 => (Printing(g, "c_end") /\ Printing(f, "c_end")) \/ (Echoing(g) /\ Echoing(f))
    BY <1>1, <1>2, Running DEF HandlerFrame, Printing, Echoing
  <2> QED
    BY <1>1, <1>2, <2>1, Running, DeepIs
<1>7. panicked' = FALSE
  BY <1>1 DEF CoreInv, MaskInv
<1>8. CoreInv'
  BY <1>1, <1>5, <1>6, <1>7, CorePush
<1> QED
  BY <1>1, <1>3, <1>8 DEF f

\* uartputc_sync has put its byte: pop_off, and the return to its caller.
LEMMA PutCharCore ==
  ASSUME CoreInv, NEW c \in Cpu, PutChar(c)
  PROVE  /\ CoreInv' /\ top[c].pc = "putc"
         /\ Sets(c, [top[c] EXCEPT !.pc = top[c].ret, !.src = None, !.ret = "user"])
<1> DEFINE g == top[c]
<1> DEFINE f == [g EXCEPT !.pc = g.ret, !.src = None, !.ret = "user"]
<1>1. /\ g.pc = "putc" /\ g \in Frames /\ Set(c, f) /\ UNCHANGED <<owner, claimed>>
      /\ cpu' = [cpu EXCEPT ![c] = PopOff(@)] /\ panicked' = (panicked \/ Unmatched(cpu[c]))
  BY Running DEF PutChar, At
<1>2. f \in Frames /\ f.pc = g.ret /\ f.next = g.next /\ f.ch = g.ch
  BY <1>1 DEF Frames, Labels
<1>3. Goes(c, f) /\ Sets(c, f)
  BY <1>1, <1>2, SetGoes DEF CoreInv
<1> HIDE DEF f
<1>4. CASE Printing(g, "user") \/ Printing(g, "c_end")
  <2>1. f.pc = "pr_end" /\ g.src = "print"
    BY <1>1, <1>2, <1>4 DEF Printing
  <2>2. /\ Printing(g, "user") => Printing(f, "user")
        /\ Printing(g, "c_end") => Printing(f, "c_end")
    BY <1>1, <1>2, <2>1 DEF Printing
  <2>3. /\ depth[c] = 1 => Printing(f, "user")
        /\ depth[c] = 2 => Printing(f, "c_end") /\ Printing(g, "c_end")
    BY <1>1, <2>1, <2>2, Running DEF ProcFrame, HandlerFrame, Echoing, Resting
  <2>4. Fits(c, f)
    BY <1>1, <1>3, <2>1, <2>3, Running, SameLocks DEF Fits, ProcFrame, HandlerFrame
  <2>5. Deep(g, depth[c]) > 0 /\ Deep(f, depth[c]) = Deep(g, depth[c]) - 1
    BY <1>1, <2>1, <2>3, Running, DeepIs
  <2>6. CoreInv'
    BY <1>1, <2>4, <2>5, CorePop
  <2> QED
    BY <1>1, <1>3, <2>6 DEF f
<1>5. CASE ~Printing(g, "user") /\ ~Printing(g, "c_end")
  <2>1. depth[c] = 2 /\ Echoing(g)
    BY <1>1, <1>5, Running DEF ProcFrame, HandlerFrame, Resting
  <2>2. f.pc \in {"c", "c_end", "c_store"} /\ HandlerFrame(f) /\ g.src = "echo"
    BY <1>1, <1>2, <2>1 DEF Echoing, HandlerFrame
  <2>3. Fits(c, f)
    BY <1>1, <1>3, <2>1, <2>2, Running, SameLocks DEF Fits
  <2>4. Deep(g, depth[c]) > 0 /\ Deep(f, depth[c]) = Deep(g, depth[c]) - 1
    BY <1>1, <2>1, <2>2, DeepIs
  <2>5. CoreInv'
    BY <1>1, <2>3, <2>4, CorePop
  <2> QED
    BY <1>1, <1>3, <2>5 DEF f
<1> QED
  BY <1>4, <1>5

\* printf, called from user mode (on a fault) and by procdump.
LEMMA PrintAcquireCore ==
  ASSUME CoreInv, NEW c \in Cpu, NEW l \in {"user", "c_end"}, PrintAcquire(c, l),
         top[c].pc = IF l = "user" THEN "user" ELSE "c_dump"
  PROVE  CoreInv' /\ Sets(c, [top[c] EXCEPT !.pc = "pr", !.next = l])
<1> DEFINE g == top[c]
<1> DEFINE f == [g EXCEPT !.pc = "pr", !.next = l]
<1>1. g \in Frames /\ Set(c, f) /\ UNCHANGED <<owner, claimed>> /\ Acquire(c, "pr") /\ "pr" \in Lock
  BY Running, Owned DEF PrintAcquire, uart, Acquire
<1>2. f \in Frames /\ f.pc = "pr" /\ f.next = l
  BY <1>1 DEF Frames, Labels
<1>3. Goes(c, f) /\ Sets(c, f)
  BY <1>1, <1>2, SetGoes DEF CoreInv
<1> HIDE DEF f
<1>4. /\ l = "user" => depth[c] = 1 /\ Printing(f, "user")
      /\ l = "c_end" => depth[c] = 2 /\ Printing(f, "c_end")
  BY <1>2, Running DEF ProcFrame, HandlerFrame, Printing, Echoing, Resting
<1>5. Fits(c, f) /\ owner["pr"] # c
  BY <1>1, <1>2, <1>3, <1>4, Running, SameLocks DEF Fits, ProcFrame, HandlerFrame
<1>6. Deep(f, depth[c]) = Deep(g, depth[c]) + 1
  BY <1>2, <1>4, DeepIs DEF Resting
<1> QED
  BY <1>1, <1>3, <1>5, <1>6, CoreAcquire DEF f

\* printf has pr.lock, and puts its character.
LEMMA PrintLockedCore ==
  ASSUME CoreInv, NEW c \in Cpu, PrintLocked(c)
  PROVE  CoreInv' /\ top[c].pc = "pr" /\ Sets(c, Put(c, "print", "pr_end"))
<1> DEFINE g == top[c]
<1> DEFINE f == Put(c, "print", "pr_end")
<1>1. g.pc = "pr" /\ g \in Frames /\ Set(c, f) /\ claimed' = claimed /\ Locked(c, "pr")
      /\ "pr" \in Lock
  BY Running, Owned DEF PrintLocked, At, uart
<1>2. /\ f \in Frames /\ f.pc = "put" /\ f.next = g.next /\ f.src = "print" /\ f.ret = "pr_end"
  BY Putting DEF Labels
<1>3. Goes(c, f) /\ Sets(c, f)
  BY <1>1, <1>2, SetGoes DEF CoreInv
<1> HIDE DEF f
<1>4. /\ depth[c] = 1 => Printing(g, "user") /\ Printing(f, "user")
      /\ depth[c] = 2 => Printing(g, "c_end") /\ Printing(f, "c_end")
  BY <1>1, <1>2, Running DEF ProcFrame, HandlerFrame, Printing, Echoing, Resting
<1>5. /\ OnlyLocks(c) /\ owner'["pr"] = c /\ owner'["tx"] = owner["tx"]
      /\ owner'["cons"] = owner["cons"] /\ UNCHANGED <<cpu, panicked>>
  BY <1>1, LockedLocks, Owned
<1>6. Fits(c, f)
  BY <1>1, <1>2, <1>3, <1>4, <1>5, Running DEF Fits, ProcFrame, HandlerFrame
<1>7. Deep(f, depth[c]) = Deep(g, depth[c])
  BY <1>1, <1>2, <1>4, Running, DeepIs
<1> QED
  BY <1>1, <1>3, <1>5, <1>6, <1>7, CoreSame DEF f

\* What release does to the lock.
LEMMA Released ==
  ASSUME CoreInv, NEW c \in Cpu, NEW l \in Lock, Release(c, l)
  PROVE  /\ OnlyLocks(c) /\ owner'[l] = None /\ \A x \in Lock : x # l => owner'[x] = owner[x]
         /\ c # None
BY ReleasedLocks, Owned DEF Release

\* printf gives pr.lock back.
LEMMA PrintEndCore ==
  ASSUME CoreInv, NEW c \in Cpu, PrintEnd(c)
  PROVE  /\ CoreInv' /\ top[c].pc = "pr_end" /\ Sets(c, [Frame EXCEPT !.pc = top[c].next])
         /\ top[c].next \in {"user", "c_end"}
<1> DEFINE g == top[c]
<1> DEFINE f == [Frame EXCEPT !.pc = g.next]
<1>1. g.pc = "pr_end" /\ g \in Frames /\ Set(c, f) /\ claimed' = claimed /\ Release(c, "pr")
      /\ "pr" \in Lock
  BY Running, Owned DEF PrintEnd, At, uart
<1>2. f \in Frames /\ f.pc = g.next
  BY <1>1, Fresh DEF Frames
<1>3. Goes(c, f) /\ Sets(c, f)
  BY <1>1, <1>2, SetGoes DEF CoreInv
<1> HIDE DEF f
<1>4. /\ depth[c] = 1 => Printing(g, "user") /\ f.pc = "user"
      /\ depth[c] = 2 => Printing(g, "c_end") /\ f.pc = "c_end"
  BY <1>1, <1>2, Running DEF ProcFrame, HandlerFrame, Printing, Echoing, Resting
<1>5. /\ OnlyLocks(c) /\ owner'["pr"] # c /\ owner'["tx"] = owner["tx"]
      /\ owner'["cons"] = owner["cons"]
  BY <1>1, Released, Owned
<1>6. Fits(c, f)
  BY <1>1, <1>3, <1>4, <1>5, Running DEF Fits, ProcFrame, HandlerFrame, Resting
<1>7. Deep(g, depth[c]) > 0 /\ Deep(f, depth[c]) = Deep(g, depth[c]) - 1
  BY <1>1, <1>4, Running, DeepIs DEF Resting
<1> QED
  BY <1>1, <1>2, <1>3, <1>4, <1>6, <1>7, CoreRelease, Running DEF f

\* A process that rests takes the lock l and goes on at a label below it.
LEMMA EntersCore ==
  ASSUME CoreInv, NEW c \in Cpu, NEW l \in {"tx", "cons"}, NEW f \in Frames, Set(c, f),
         f.pc \in {"w", "r"}, top[c].pc \in Resting, Acquire(c, l), claimed' = claimed
  PROVE  CoreInv' /\ Sets(c, f) /\ depth[c] = 1
<1>1. Goes(c, f) /\ Sets(c, f)
  BY SetGoes DEF CoreInv
<1>2. depth[c] = 1
  BY Running DEF HandlerFrame, Resting, Printing, Echoing
<1>3. UNCHANGED owner /\ l \in Lock
  BY Owned DEF Acquire
<1>4. owner["tx"] # c /\ owner["cons"] # c /\ owner["pr"] # c
  BY <1>2, Running DEF Resting
<1>5. Fits(c, f)
  BY <1>1, <1>2, <1>3, <1>4, SameLocks DEF Fits, ProcFrame
<1>6. Deep(f, depth[c]) = Deep(top[c], depth[c]) + 1
  BY DeepIs
<1> QED
  BY <1>1, <1>2, <1>3, <1>4, <1>5, <1>6, CoreAcquire

\* A process that has, or spins for, the lock l gives it up and rests.
LEMMA LeavesCore ==
  ASSUME CoreInv, NEW c \in Cpu, NEW l \in {"tx", "cons"}, NEW f \in Frames, Set(c, f),
         f.pc \in Resting, top[c].pc = IF l = "tx" THEN "w" ELSE "r",
         Release(c, l) \/ SleepOn(c, l), claimed' = claimed
  PROVE  CoreInv' /\ Sets(c, f) /\ depth[c] = 1
<1>1. Goes(c, f) /\ Sets(c, f)
  BY SetGoes DEF CoreInv
<1>2. depth[c] = 1
  BY Running DEF HandlerFrame, Printing, Echoing
<1>3. l \in Lock /\ c # None /\ Lock = {"tx", "cons", "pr"}
  BY Owned
<1>4. Free(c, l) /\ owner' = [owner EXCEPT ![l] = None]
  BY DEF Release, SleepOn
<1>5. OnlyLocks(c) /\ owner'[l] = None /\ \A x \in Lock : x # l => owner'[x] = owner[x]
  BY <1>3, <1>4, ReleasedLocks
<1>6. owner'["tx"] # c /\ owner'["cons"] # c /\ owner'["pr"] # c
  BY <1>2, <1>3, <1>5, Running
<1>7. Fits(c, f)
  BY <1>1, <1>2, <1>5, <1>6 DEF Fits, ProcFrame, Resting
<1>8. Deep(f, 1) = 0 /\ Deep(top[c], 1) = 1
  BY DeepIs
<1> QED
  BY <1>1, <1>2, <1>3, <1>7, <1>8, CoreRelease, CoreSleep

\* A process goes on below the lock l, which it has now.
LEMMA StaysCore ==
  ASSUME CoreInv, NEW c \in Cpu, NEW l \in {"tx", "cons"}, NEW f \in Frames, Set(c, f),
         f.pc = top[c].pc, top[c].pc = IF l = "tx" THEN "w" ELSE "r",
         Locked(c, l), claimed' = claimed
  PROVE  CoreInv' /\ Sets(c, f) /\ depth[c] = 1
<1>1. Goes(c, f) /\ Sets(c, f)
  BY SetGoes DEF CoreInv
<1>2. depth[c] = 1
  BY Running DEF HandlerFrame, Printing, Echoing
<1>3. l \in Lock /\ c # None /\ Lock = {"tx", "cons", "pr"}
  BY Owned
<1>4. /\ OnlyLocks(c) /\ owner'[l] = c /\ \A x \in Lock : x # l => owner'[x] = owner[x]
      /\ UNCHANGED <<cpu, panicked>>
  BY <1>3, LockedLocks
<1>5. Fits(c, f)
  BY <1>1, <1>2, <1>3, <1>4, Running DEF Fits, ProcFrame
<1>6. Deep(f, depth[c]) = Deep(top[c], depth[c])
  BY DeepIs
<1> QED
  BY <1>1, <1>2, <1>4, <1>5, <1>6, CoreSame

\* The handler takes cons.lock, with the character that it has got.
LEMMA GetcCore ==
  ASSUME CoreInv, rx \in Seq(Key), NEW c \in Cpu, Getc(c)
  PROVE  CoreInv' /\ Sets(c, [top[c] EXCEPT !.pc = "c", !.ch = Head(rx)]) /\ Head(rx) \in Key
<1> DEFINE g == top[c]
<1> DEFINE f == [g EXCEPT !.pc = "c", !.ch = Head(rx)]
<1>1. /\ g.pc = "rx" /\ g \in Frames /\ Set(c, f) /\ UNCHANGED <<owner, claimed>>
      /\ Acquire(c, "cons") /\ "cons" \in Lock /\ rx # <<>>
  BY Running, Owned DEF Getc, At, Acquire
<1>2. Head(rx) \in Key
  BY <1>1, HeadTailProperties
<1>3. f \in Frames /\ f.pc = "c" /\ f.ch \in Key
  BY <1>1, <1>2 DEF Frames, Labels
<1>4. Goes(c, f) /\ Sets(c, f)
  BY <1>1, <1>3, SetGoes DEF CoreInv
<1>5. depth[c] = 2 /\ owner["cons"] # c
  BY <1>1, Running DEF ProcFrame, Resting, Printing
<1> HIDE DEF f
<1>6. Fits(c, f)
  BY <1>1, <1>3, <1>4, <1>5, Running, SameLocks DEF Fits, HandlerFrame
<1>7. Deep(f, depth[c]) = Deep(g, depth[c]) + 1
  BY <1>1, <1>3, DeepIs
<1>8. CoreInv'
  BY <1>1, <1>5, <1>6, <1>7, CoreAcquire
<1> QED
  BY <1>2, <1>4, <1>8 DEF f

\* The handler finds cons.lock free, or has it, and goes on below it.
LEMMA BelowCore ==
  ASSUME CoreInv, NEW c \in Cpu, NEW f \in Frames, Set(c, f), Locked(c, "cons"),
         top[c].pc = "c", f.pc = "c_dump" \/ (f.pc = "put" /\ Echoing(f)), claimed' = claimed
  PROVE  CoreInv' /\ Sets(c, f) /\ depth[c] = 2
<1>1. Goes(c, f) /\ Sets(c, f)
  BY SetGoes DEF CoreInv
<1>2. depth[c] = 2
  BY Running DEF ProcFrame, Resting, Printing
<1>3. c # None /\ Lock = {"tx", "cons", "pr"}
  BY Owned
<1>4. /\ OnlyLocks(c) /\ owner'["cons"] = c /\ owner'["tx"] = owner["tx"]
      /\ owner'["pr"] = owner["pr"] /\ UNCHANGED <<cpu, panicked>>
  BY <1>3, LockedLocks
<1>5. owner'["tx"] # c /\ owner'["pr"] # c
  BY <1>4, Running
<1>6. Fits(c, f)
  BY <1>1, <1>2, <1>4, <1>5 DEF Fits, HandlerFrame, Echoing
<1>7. Deep(f, depth[c]) = Deep(top[c], depth[c])
  BY DeepIs
<1> QED
  BY <1>1, <1>2, <1>4, <1>6, <1>7, CoreSame

\* The handler gives a lock up and looks for the next character.
LEMMA NextCharCore ==
  ASSUME CoreInv, NEW c \in Cpu, NEW l \in {"tx", "cons"}, NEW f,
         Goes(c, f), f.pc = "rx", Release(c, l), claimed' = claimed,
         top[c].pc \in (IF l = "tx" THEN {"isr"} ELSE {"c", "c_end", "c_store"})
  PROVE  CoreInv'
<1>2. depth[c] = 2
  BY Running DEF ProcFrame, Resting, Printing
<1>3. l \in Lock /\ c # None /\ Lock = {"tx", "cons", "pr"}
  BY Owned
<1>4. OnlyLocks(c) /\ owner'[l] # c /\ \A x \in Lock : x # l => owner'[x] = owner[x]
  BY <1>3, Released
<1>5. owner'["tx"] # c /\ owner'["cons"] # c /\ owner'["pr"] # c
  BY <1>2, <1>3, <1>4, Running
<1>6. Fits(c, f)
  BY <1>2, <1>4, <1>5 DEF Fits, HandlerFrame
<1>7. Deep(f, depth[c]) = 0 /\ Deep(top[c], depth[c]) = 1
  BY DeepIs
<1> QED
  BY <1>3, <1>6, <1>7, CoreRelease

\* Where the handler runs, there are two frames.
LEMMA InHandler ==
  ASSUME CoreInv, NEW c \in Cpu, top[c].pc \in {"isr", "rx", "c", "c_dump", "c_end", "c_store"}
  PROVE  depth[c] = 2
BY Running DEF ProcFrame, Resting, Printing

\* An interrupt: only where nothing is pushed.
LEMMA InterruptCore ==
  ASSUME CoreInv, NEW c \in Cpu, Interrupt(c)
  PROVE  /\ CoreInv' /\ proc' = proc /\ top' = [top EXCEPT ![c] = [Frame EXCEPT !.pc = "isr"]]
         /\ depth[c] = 1 /\ top[c].pc \in Resting
<1> DEFINE f == [Frame EXCEPT !.pc = "isr"]
<1>1. /\ cpu[c].ie /\ ~claimed /\ claimed' = TRUE /\ UNCHANGED owner
      /\ panicked' = (panicked \/ owner["tx"] = c)
      /\ run' = [run EXCEPT ![c] = Append(@, f)]
  BY DEF Interrupt
<1>2. f \in Frames /\ f.pc = "isr"
  BY FrameType DEF Frames, Labels
<1>3. depth[c] = 1 /\ Level(c) = 0
  BY <1>1, Levels
<1>4. top[c].pc \in Resting /\ proc[c] = top[c]
  <2>1. Pushed(top[c]) = 0
    BY <1>3 DEF Level, Nested, Pushed
  <2>2. top[c].pc \notin {"w", "r", "pr", "pr_end", "put", "putc"}
    BY <2>1 DEF Pushed, Resting
  <2> QED
    BY <1>3, <2>2, Running DEF ProcFrame, Printing
<1> HIDE DEF f
<1>5. /\ run' \in [Cpu -> Seq(Frames)] /\ depth' = [depth EXCEPT ![c] = 2]
      /\ top' = [top EXCEPT ![c] = f] /\ proc' = proc
  BY <1>1, <1>2, <1>3, InterruptPushes DEF CoreInv
<1>6. depth \in [Cpu -> 1 .. 2] /\ top \in [Cpu -> Frames] /\ proc \in [Cpu -> Frames]
  BY Stacks DEF CoreInv
<1>7. OnlyStack(c) /\ depth'[c] = 2 /\ top'[c] = f /\ proc'[c].pc \in Resting
  BY <1>2, <1>4, <1>5, <1>6 DEF OnlyStack
<1>8. owner["tx"] # c /\ owner["cons"] # c /\ owner["pr"] # c
  BY <1>3, <1>4, Running DEF Resting
<1>9. panicked' = FALSE /\ OnlyLocks(c)
  BY <1>1, <1>8, SameLocks DEF CoreInv, MaskInv
<1>10. OnlyCpu(c) /\ cpu'[c].noff = 1 /\ ~cpu'[c].ie /\ ~cpu'[c].intena
  <2> DEFINE q == PushOff([cpu[c] EXCEPT !.ie = FALSE])
  <2>1. cpu \in [Cpu -> Cpus] /\ cpu[c].noff = 0 /\ cpu[c] \in Cpus
    BY <1>3, Levels DEF CoreInv, MaskInv, Cpus
  <2>2. q = [ie |-> FALSE, noff |-> 1, intena |-> FALSE]
    <3>1. [cpu[c] EXCEPT !.ie = FALSE].noff = 0 /\ [cpu[c] EXCEPT !.ie = FALSE].ie = FALSE
      BY <2>1 DEF Cpus
    <3> DEFINE x == [cpu[c] EXCEPT !.ie = FALSE]
    <3> HIDE DEF x
    <3>2. x.noff = 0 /\ x.ie = FALSE
      BY <3>1 DEF x
    <3>3. PushOff(x) = [ie |-> FALSE, noff |-> x.noff + 1, intena |-> x.ie]
      BY <3>2 DEF PushOff
    <3>n. x.noff + 1 = 1
      BY <3>2
    <3>4. PushOff(x) = [ie |-> FALSE, noff |-> 1, intena |-> FALSE]
      BY Zenon, <3>2, <3>3, <3>n
    <3> QED
      BY <3>4 DEF x
  <2>3. cpu' = [cpu EXCEPT ![c] = q]
    BY DEF Interrupt
  <2> HIDE DEF q
  <2>4. q \in Cpus /\ q.noff = 1 /\ q.ie = FALSE /\ q.intena = FALSE
    BY <2>2 DEF Cpus
  <2> QED
    BY <2>1, <2>3, <2>4 DEF OnlyCpu
<1>11. StackOf(c)' /\ MaskOf(c)' /\ LocksOf(c)'
  <2>1. StackOf(c)'
    BY <1>2, <1>7 DEF StackOf, HandlerFrame
  <2>2. Pushed(f) = 1 /\ ~Printing(f, "c_end")
    BY <1>2 DEF Pushed, Resting, Printing
  <2>3. MaskOf(c)'
    BY <1>7, <1>10, <2>2 DEF MaskOf, Nested
  <2>4. LocksOf(c)'
    BY <1>1, <1>2, <1>7, <1>8 DEF LocksOf, MayTx, MayCons, MustCons, HasPr
  <2> QED
    BY <2>1, <2>3, <2>4
<1>12. \A d \in Cpu : StackOf(d)' /\ MaskOf(d)' /\ LocksOf(d)'
  BY <1>7, <1>9, <1>10, <1>11, OthersKeep
<1>13. \A d \in Cpu : depth'[d] = 2 => d = c
  <2>1. \A d \in Cpu : depth[d] # 2
    BY <1>1 DEF CoreInv, StackInv
  <2> QED
    BY <1>5, <1>6, <2>1
<1>14. CoreInv'
  BY <1>1, <1>5, <1>9, <1>10, <1>12, <1>13
     DEF CoreInv, StackInv, MaskInv, OwnInv, OnlyCpu, OnlyLocks, Cpus
<1> QED
  BY <1>3, <1>4, <1>5, <1>14 DEF f

\* The end of an interrupt: the process goes on.
LEMMA CompleteCore ==
  ASSUME CoreInv, NEW c \in Cpu, Complete(c)
  PROVE  CoreInv' /\ proc' = proc /\ top' = [top EXCEPT ![c] = proc[c]] /\ top[c].pc = "rx"
<1>1. /\ top[c].pc = "rx" /\ claimed' = FALSE /\ UNCHANGED <<owner, panicked>>
      /\ run' = [run EXCEPT ![c] = <<run[c][1]>>] /\ cpu' = [cpu EXCEPT ![c].ie = TRUE]
  BY Running DEF Complete, At
<1>2. /\ run' \in [Cpu -> Seq(Frames)] /\ depth' = [depth EXCEPT ![c] = 1]
      /\ top' = [top EXCEPT ![c] = proc[c]] /\ proc' = proc
  BY <1>1, ReturnPops DEF CoreInv
<1>3. depth \in [Cpu -> 1 .. 2] /\ top \in [Cpu -> Frames] /\ proc \in [Cpu -> Frames]
  BY Stacks DEF CoreInv
<1>4. depth[c] = 2 /\ proc[c].pc \in Resting
  BY <1>1, InHandler, Running
<1>5. OnlyStack(c) /\ depth'[c] = 1 /\ top'[c] = proc[c]
  BY <1>2, <1>3 DEF OnlyStack
<1>6. owner["tx"] # c /\ owner["cons"] # c /\ owner["pr"] # c
  BY <1>1, <1>4, Running
<1>7. panicked' = FALSE /\ OnlyLocks(c)
  BY <1>1, SameLocks DEF CoreInv, MaskInv
<1>8. Deep(top[c], depth[c]) = 0
  BY <1>1, DeepIs
<1>9. OnlyCpu(c) /\ cpu'[c].noff = 0 /\ cpu'[c].ie
  <2> DEFINE b == TRUE
  <2>1. cpu \in [Cpu -> Cpus] /\ cpu[c].noff = 0 /\ cpu[c] \in Cpus
    BY <1>8, Levels DEF CoreInv, MaskInv, Cpus, Level, Deep, Nested
  <2>2. cpu' = [cpu EXCEPT ![c] = [cpu[c] EXCEPT !.ie = b]] /\ b \in BOOLEAN
    BY <1>1
  <2> HIDE DEF b
  <2>3. [cpu[c] EXCEPT !.ie = b] \in Cpus /\ [cpu[c] EXCEPT !.ie = b].noff = 0
        /\ [cpu[c] EXCEPT !.ie = b].ie = b
    BY <2>1, <2>2 DEF Cpus
  <2>4. OnlyCpu(c) /\ cpu'[c].noff = 0 /\ cpu'[c].ie = b
    BY <2>1, <2>2, <2>3 DEF OnlyCpu
  <2> QED
    BY <2>4 DEF b
<1>10. StackOf(c)' /\ MaskOf(c)' /\ LocksOf(c)'
  <2>1. StackOf(c)'
    BY <1>4, <1>5 DEF StackOf, ProcFrame
  <2>2. Pushed(proc[c]) = 0
    BY <1>4 DEF Pushed, Resting
  <2>3. MaskOf(c)'
    BY <1>5, <1>9, <2>2 DEF MaskOf, Nested
  <2>4. LocksOf(c)'
    BY <1>1, <1>4, <1>5, <1>6 DEF LocksOf, MayTx, MayCons, MustCons, HasPr, Resting
  <2> QED
    BY <2>1, <2>3, <2>4
<1>11. \A d \in Cpu : StackOf(d)' /\ MaskOf(d)' /\ LocksOf(d)'
  BY <1>5, <1>7, <1>9, <1>10, OthersKeep
<1>12. \A d \in Cpu : depth'[d] # 2
  <2>1. \A d \in Cpu : depth[d] = 2 => d = c
    BY <1>4 DEF CoreInv, StackInv
  <2> QED
    BY <1>2, <1>3, <2>1
<1>13. CoreInv'
  BY <1>1, <1>2, <1>7, <1>9, <1>11, <1>12
     DEF CoreInv, StackInv, MaskInv, OwnInv, OnlyCpu, OnlyLocks, Cpus
<1> QED
  BY <1>1, <1>2, <1>13

\* A process goes from one place of rest to another.
LEMMA RestsCore ==
  ASSUME CoreInv, NEW c \in Cpu, NEW f \in Frames, Set(c, f), f.pc \in Resting,
         top[c].pc \in Resting, UNCHANGED lvars, claimed' = claimed
  PROVE  CoreInv' /\ Sets(c, f) /\ depth[c] = 1
<1>1. Goes(c, f) /\ Sets(c, f)
  BY SetGoes DEF CoreInv
<1>2. depth[c] = 1
  BY Running DEF HandlerFrame, Resting, Printing, Echoing
<1>3. UNCHANGED <<cpu, owner, panicked>>
  BY DEF lvars
<1>4. owner["tx"] # c /\ owner["cons"] # c /\ owner["pr"] # c
  BY <1>2, Running DEF Resting
<1>5. Fits(c, f)
  BY <1>1, <1>2, <1>3, <1>4, SameLocks DEF Fits, ProcFrame, Resting
<1>6. Deep(f, depth[c]) = Deep(top[c], depth[c])
  BY DeepIs
<1> QED
  BY <1>1, <1>2, <1>3, <1>5, <1>6, CoreSame

\* A new chunk of a write.
WriteFrame(n) == [Frame EXCEPT !.pc = "w", !.n = n, !.m = IF n < CHUNK THEN n ELSE CHUNK]

\* The frame of a chunk.
LEMMA WriteFrameType ==
  ASSUME NEW n \in Int
  PROVE  WriteFrame(n) \in Frames /\ WriteFrame(n).pc = "w"
<1> DEFINE m == IF n < CHUNK THEN n ELSE CHUNK
<1>1. m \in Int
  BY UartAssumption
<1>2. WriteFrame(n) = [Frame EXCEPT !.pc = "w", !.n = n, !.m = m]
  BY DEF WriteFrame
<1> HIDE DEF m
<1> QED
  BY <1>1, <1>2, FrameType DEF Frames, Labels

\* uartwrite takes tx_lock for a chunk.
LEMMA WriteChunkCore ==
  ASSUME CoreInv, NEW c \in Cpu, NEW n \in Int, WriteChunk(c, n), top[c].pc \in Resting
  PROVE  CoreInv' /\ Sets(c, WriteFrame(n)) /\ WriteFrame(n).pc = "w" /\ depth[c] = 1
<1>1. WriteFrame(n) \in Frames /\ WriteFrame(n).pc = "w"
  BY WriteFrameType
<1>2. Acquire(c, "tx") /\ Set(c, WriteFrame(n)) /\ claimed' = claimed
  BY DEF WriteChunk, WriteFrame, uart
<1> QED
  BY <1>1, <1>2, EntersCore

\* What a write does, seen from the stacks: it goes on with the frame f.
LEMMA WriteCore ==
  ASSUME CoreInv, NEW c \in Cpu, Write(c)
  PROVE  /\ CoreInv' /\ depth[c] = 1 /\ top[c].pc \in {"w_woken", "w", "w_next"}
         /\ \E f \in Frames : /\ Sets(c, f) /\ f.pc \in {"w", "w_asleep", "w_next", "user"}
                              /\ f.pc = "w_asleep" => tx_busy /\ UNCHANGED uart
<1>0. top[c] \in Frames /\ Top(c) = top[c]
  BY Running
<1>1. CASE WriteAgain(c)
  <2> DEFINE f == [top[c] EXCEPT !.pc = "w"]
  <2>1. top[c].pc = "w_woken" /\ Acquire(c, "tx") /\ Set(c, f) /\ claimed' = claimed
    BY <1>0, <1>1 DEF WriteAgain, At, To, uart
  <2>2. f \in Frames /\ f.pc = "w"
    BY <1>0, Moved DEF Labels
  <2>3. CoreInv' /\ Sets(c, f) /\ depth[c] = 1
    BY <2>1, <2>2, EntersCore DEF Resting
  <2> QED
    BY <2>1, <2>2, <2>3
<1>2. CASE WriteSleep(c)
  <2> DEFINE f == [top[c] EXCEPT !.pc = "w_asleep"]
  <2>1. top[c].pc = "w" /\ SleepOn(c, "tx") /\ Set(c, f) /\ UNCHANGED uart /\ tx_busy
    BY <1>0, <1>2 DEF WriteSleep, At, To
  <2>2. f \in Frames /\ f.pc = "w_asleep" /\ claimed' = claimed
    BY <1>0, <2>1, Moved DEF Labels, uart
  <2>3. CoreInv' /\ Sets(c, f) /\ depth[c] = 1
    BY <2>1, <2>2, LeavesCore DEF Resting
  <2> QED
    BY <2>1, <2>2, <2>3
<1>3. CASE WriteByte(c)
  <2> DEFINE f == [top[c] EXCEPT !.n = top[c].n - 1, !.m = top[c].m - 1]
  <2>1. top[c].pc = "w" /\ Locked(c, "tx") /\ Set(c, f) /\ claimed' = claimed
    BY <1>0, <1>3 DEF WriteByte, At
  <2>n. top[c].n - 1 \in Int /\ top[c].m - 1 \in Int
    BY <1>0 DEF Frames
  <2>2. f \in Frames /\ f.pc = "w"
    <3> DEFINE n == top[c].n - 1
    <3> DEFINE m == top[c].m - 1
    <3>1. f = [top[c] EXCEPT !.n = n, !.m = m] /\ n \in Int /\ m \in Int
      BY <2>n
    <3> HIDE DEF f, n, m
    <3> QED
      BY <1>0, <2>1, <3>1 DEF Frames
  <2>3. CoreInv' /\ Sets(c, f) /\ depth[c] = 1
    BY <2>1, <2>2, StaysCore
  <2> QED
    BY <2>1, <2>2, <2>3
<1>4. CASE WriteEnd(c)
  <2> DEFINE f == [top[c] EXCEPT !.pc = "w_next"]
  <2>1. top[c].pc = "w" /\ Release(c, "tx") /\ Set(c, f) /\ claimed' = claimed
    BY <1>0, <1>4 DEF WriteEnd, At, To, uart
  <2>2. f \in Frames /\ f.pc = "w_next"
    BY <1>0, Moved DEF Labels
  <2>3. CoreInv' /\ Sets(c, f) /\ depth[c] = 1
    BY <2>1, <2>2, LeavesCore DEF Resting
  <2> QED
    BY <2>1, <2>2, <2>3
<1>5. CASE WriteNext(c)
  <2>1. top[c].pc = "w_next" /\ top[c].n \in Int
    BY <1>0, <1>5 DEF WriteNext, At, Frames
  <2>2. CASE WriteChunk(c, top[c].n)
    <3>1. CoreInv' /\ Sets(c, WriteFrame(top[c].n)) /\ WriteFrame(top[c].n).pc = "w" /\ depth[c] = 1
      BY <2>1, <2>2, WriteChunkCore DEF Resting
    <3>2. WriteFrame(top[c].n) \in Frames
      BY <2>1, WriteFrameType
    <3> QED
      BY <2>1, <3>1, <3>2
  <2>3. CASE Set(c, Frame) /\ UNCHANGED <<lvars, uart>>
    <3>1. Frame \in Frames /\ Frame.pc = "user"
      BY FrameType DEF Frame
    <3>2. CoreInv' /\ Sets(c, Frame) /\ depth[c] = 1
      BY <2>1, <2>3, <3>1, RestsCore DEF Resting, uart
    <3> QED
      BY <2>1, <3>1, <3>2
  <2> QED
    BY <1>0, <1>5, <2>2, <2>3 DEF WriteNext
<1> QED
  BY <1>1, <1>2, <1>3, <1>4, <1>5 DEF Write

\* The end of a transmission.
LEMMA TxDoneCore ==
  ASSUME CoreInv, NEW c \in Cpu, TxDone(c)
  PROVE  /\ CoreInv' /\ top[c].pc = "isr" /\ depth[c] = 2
         /\ IF tx = <<>> THEN Wakes(c, "w_asleep", "w_woken", "rx")
                         ELSE Sets(c, [Frame EXCEPT !.pc = "rx"])
<1> DEFINE f == [Frame EXCEPT !.pc = "rx"]
<1>1. top[c].pc = "isr" /\ Release(c, "tx") /\ claimed' = claimed
  BY Running DEF TxDone, At
<1>2. depth[c] = 2
  BY <1>1, InHandler
<1>3. f \in Frames /\ f.pc = "rx"
  BY Fresh DEF Labels
<1>4. CASE tx = <<>>
  <2>1. Wakes(c, "w_asleep", "w_woken", "rx") /\ Goes(c, f)
    BY <1>2, <1>4, WakeupGoes DEF TxDone, CoreInv, Resting, Labels
  <2> HIDE DEF f
  <2>2. CoreInv'
    BY <1>1, <1>3, <2>1, NextCharCore
  <2> QED
    BY <1>1, <1>2, <1>4, <2>1, <2>2
<1>5. CASE tx # <<>>
  <2>1. Sets(c, f) /\ Goes(c, f)
    BY <1>3, <1>5, SetGoes DEF TxDone, CoreInv
  <2>2. CoreInv'
    BY <1>1, <1>3, <2>1, NextCharCore
  <2> QED
    BY <1>1, <1>2, <1>5, <2>1, <2>2
<1> QED
  BY <1>4, <1>5

\* A read that was woken.
LEMMA ReadAgainCore ==
  ASSUME CoreInv, NEW c \in Cpu, ReadAgain(c)
  PROVE  /\ CoreInv' /\ depth[c] = 1 /\ top[c].pc = "r_woken"
         /\ Sets(c, [top[c] EXCEPT !.pc = "r"])
<1> DEFINE f == [top[c] EXCEPT !.pc = "r"]
<1>1. top[c].pc = "r_woken" /\ Acquire(c, "cons") /\ Set(c, f) /\ claimed' = claimed
  BY Running DEF ReadAgain, At, To, uart
<1>0. top[c] \in Frames
  BY Running
<1>2. f \in Frames /\ f.pc = "r"
  BY <1>0, Moved DEF Labels
<1>3. CoreInv' /\ Sets(c, f) /\ depth[c] = 1
  BY <1>1, <1>2, EntersCore DEF Resting
<1> QED
  BY <1>1, <1>3

\* A read that finds nothing.
LEMMA ReadSleepCore ==
  ASSUME CoreInv, NEW c \in Cpu, ReadSleep(c)
  PROVE  /\ CoreInv' /\ depth[c] = 1 /\ top[c].pc = "r"
         /\ Sets(c, [top[c] EXCEPT !.pc = "r_asleep"])
<1> DEFINE f == [top[c] EXCEPT !.pc = "r_asleep"]
<1>1. top[c].pc = "r" /\ SleepOn(c, "cons") /\ Set(c, f) /\ claimed' = claimed
  BY Running DEF ReadSleep, At, To, uart
<1>0. top[c] \in Frames
  BY Running
<1>2. f \in Frames /\ f.pc = "r_asleep"
  BY <1>0, Moved DEF Labels
<1>3. CoreInv' /\ Sets(c, f) /\ depth[c] = 1
  BY <1>1, <1>2, LeavesCore DEF Resting
<1> QED
  BY <1>1, <1>3

\* A read that ends.
LEMMA ReadEndCore ==
  ASSUME CoreInv, NEW c \in Cpu, At(c, "r"), Release(c, "cons"), Set(c, Frame), claimed' = claimed
  PROVE  CoreInv' /\ depth[c] = 1 /\ top[c].pc = "r" /\ Sets(c, Frame)
<1>1. top[c].pc = "r"
  BY Running DEF At
<1>2. Frame \in Frames /\ Frame.pc = "user"
  BY FrameType DEF Frame
<1>3. CoreInv' /\ Sets(c, Frame) /\ depth[c] = 1
  BY <1>1, <1>2, LeavesCore DEF Resting
<1> QED
  BY <1>1, <1>3

\* A read that takes a byte and wants more.
LEMMA ReadMoreCore ==
  ASSUME CoreInv, NEW c \in Cpu, At(c, "r"), Locked(c, "cons"),
         Set(c, [top[c] EXCEPT !.n = top[c].n - 1]), claimed' = claimed
  PROVE  /\ CoreInv' /\ depth[c] = 1 /\ top[c].pc = "r"
         /\ Sets(c, [top[c] EXCEPT !.n = top[c].n - 1])
<1> DEFINE f == [top[c] EXCEPT !.n = top[c].n - 1]
<1>1. top[c].pc = "r" /\ top[c] \in Frames
  BY Running DEF At
<1>2. f \in Frames /\ f.pc = "r"
  BY <1>1 DEF Frames
<1>3. CoreInv' /\ Sets(c, f) /\ depth[c] = 1
  BY <1>1, <1>2, StaysCore
<1> QED
  BY <1>1, <1>3

\* A read begins.
ReadFrame(n) == [Frame EXCEPT !.pc = "r", !.n = n]

\* consoleread takes cons.lock.
LEMMA ReadCallCore ==
  ASSUME CoreInv, NEW c \in Cpu, NEW n \in Int, ReadCall(c, n), top[c].pc = "user"
  PROVE  CoreInv' /\ depth[c] = 1 /\ Sets(c, ReadFrame(n))
<1>1. ReadFrame(n) \in Frames /\ ReadFrame(n).pc = "r"
  BY FrameType DEF ReadFrame, Frames, Labels
<1>2. Acquire(c, "cons") /\ Set(c, ReadFrame(n)) /\ claimed' = claimed
  BY DEF ReadCall, ReadFrame, uart
<1> QED
  BY <1>1, <1>2, EntersCore DEF Resting

\* The handler echoes or erases.
EchoFrame(c, l, ch) == [Put(c, "echo", l) EXCEPT !.ch = ch]

\* consoleintr erases, and echoes that; control-U comes back for more.
LEMMA EraseCore ==
  ASSUME CoreInv, NEW c \in Cpu, Erase(c)
  PROVE  /\ CoreInv' /\ depth[c] = 2 /\ top[c].pc = "c" /\ top[c].ch \in {"kill", "bs"}
         /\ Sets(c, Put(c, "echo", IF top[c].ch = "kill" THEN "c" ELSE "c_end"))
<1> DEFINE l == IF top[c].ch = "kill" THEN "c" ELSE "c_end"
<1> DEFINE f == Put(c, "echo", l)
<1>1. /\ top[c].pc = "c" /\ top[c].ch \in {"kill", "bs"} /\ Locked(c, "cons") /\ Set(c, f)
      /\ claimed' = claimed
  BY Running DEF Erase, Erasing, At, uart
<1>2. l \in {"c", "c_end"} /\ l \in Labels
  BY DEF Labels
<1>3. f \in Frames /\ f.pc = "put" /\ f.src = "echo" /\ f.ret = l /\ f.ch = top[c].ch
  BY <1>2, Putting
<1>4. Echoing(f)
  BY <1>1, <1>2, <1>3 DEF Echoing, Key
<1>5. CoreInv' /\ Sets(c, f) /\ depth[c] = 2
  BY <1>1, <1>3, <1>4, BelowCore
<1> QED
  BY <1>1, <1>5

\* consoleintr echoes a character that it has room for.
LEMMA EchoCore ==
  ASSUME CoreInv, NEW c \in Cpu, Echo(c)
  PROVE  /\ CoreInv' /\ depth[c] = 2 /\ top[c].pc = "c" /\ Room
         /\ Sets(c, EchoFrame(c, "c_store", IF top[c].ch = "cr" THEN "nl" ELSE top[c].ch))
<1> DEFINE ch == IF top[c].ch = "cr" THEN "nl" ELSE top[c].ch
<1> DEFINE f == EchoFrame(c, "c_store", ch)
<1>1. /\ top[c].pc = "c" /\ Locked(c, "cons") /\ Set(c, f) /\ claimed' = claimed /\ Room
      /\ top[c].ch \notin {"procs", "nul", "kill", "bs"}
  BY Running DEF Echo, EchoFrame, Erasing, At, uart
<1>2. depth[c] = 2 /\ ch \in Char
  <2>1. depth[c] = 2
    BY <1>1, InHandler
  <2>2. top[c].ch \in Key
    BY <1>1, <2>1, Running DEF HandlerFrame, Printing, Echoing
  <2> QED
    BY <1>1, <2>1, <2>2 DEF Key, Char
<1>3. f \in Frames /\ f.pc = "put" /\ f.src = "echo" /\ f.ret = "c_store" /\ f.ch = ch
  <2>1. "c_store" \in Labels /\ ch \in Key
    BY <1>2 DEF Labels, Char, Key
  <2> HIDE DEF ch
  <2>2. LET g == Put(c, "echo", "c_store") IN
          g \in Frames /\ g.pc = "put" /\ g.src = "echo" /\ g.ret = "c_store"
    BY <2>1, Putting
  <2> QED
    BY <2>1, <2>2 DEF EchoFrame, Frames
<1>4. Echoing(f)
  BY <1>2, <1>3 DEF Echoing
<1> HIDE DEF f
<1>5. CoreInv' /\ Sets(c, f) /\ depth[c] = 2
  BY <1>1, <1>3, <1>4, BelowCore
<1> QED
  BY <1>1, <1>5 DEF f

\* consoleintr calls procdump.
LEMMA DumpCore ==
  ASSUME CoreInv, NEW c \in Cpu, Dump(c)
  PROVE  /\ CoreInv' /\ depth[c] = 2 /\ top[c].pc = "c"
         /\ Sets(c, [top[c] EXCEPT !.pc = "c_dump"])
<1> DEFINE f == [top[c] EXCEPT !.pc = "c_dump"]
<1>1. top[c].pc = "c" /\ Locked(c, "cons") /\ Set(c, f) /\ claimed' = claimed
  BY Running DEF Dump, At, To, uart
<1>0. top[c] \in Frames
  BY Running
<1>2. f \in Frames /\ f.pc = "c_dump"
  BY <1>0, Moved DEF Labels
<1>3. CoreInv' /\ Sets(c, f) /\ depth[c] = 2
  BY <1>1, <1>2, BelowCore
<1> QED
  BY <1>1, <1>3

\* The end of consoleintr, without or after a change.
LEMMA EndCore ==
  ASSUME CoreInv, NEW c \in Cpu, ConsEnd(c) \/ Ignore(c)
  PROVE  /\ CoreInv' /\ depth[c] = 2 /\ top[c].pc \in {"c", "c_end"}
         /\ Sets(c, [Frame EXCEPT !.pc = "rx"])
<1> DEFINE f == [Frame EXCEPT !.pc = "rx"]
<1>1. top[c].pc \in {"c", "c_end"} /\ Release(c, "cons") /\ Set(c, f) /\ claimed' = claimed
  BY Running DEF ConsEnd, Ignore, At, uart
<1>2. f \in Frames /\ f.pc = "rx"
  BY Fresh DEF Labels
<1>3. Goes(c, f) /\ Sets(c, f)
  BY <1>1, <1>2, SetGoes DEF CoreInv
<1>4. CoreInv'
  BY <1>1, <1>2, <1>3, NextCharCore
<1> QED
  BY <1>1, <1>3, <1>4, InHandler

\* A character is given to the readers.
Given(ch) == ch \in {"nl", "eof"} \/ Sub(Inc(e), r) = INPUT_BUF_SIZE

\* consoleintr stores the character, gives cons.lock back, and wakes the readers or not.
LEMMA StoreCore ==
  ASSUME CoreInv, NEW c \in Cpu, Store(c)
  PROVE  /\ CoreInv' /\ depth[c] = 2 /\ top[c].pc = "c_store" /\ top[c].ch \in Char
         /\ IF Given(top[c].ch) THEN w' = Inc(e) /\ Wakes(c, "r_asleep", "r_woken", "rx")
                                ELSE w' = w /\ Sets(c, [Frame EXCEPT !.pc = "rx"])
<1> DEFINE f == [Frame EXCEPT !.pc = "rx"]
<1>1. top[c].pc = "c_store" /\ Release(c, "cons") /\ claimed' = claimed
  BY Running DEF Store, At, uart
<1>2. depth[c] = 2 /\ top[c].ch \in Char
  BY <1>1, InHandler, Running DEF HandlerFrame, Printing, Echoing
<1>3. f \in Frames /\ f.pc = "rx"
  BY Fresh DEF Labels
<1>4. CASE Given(top[c].ch)
  <2>0. w' = Inc(e) /\ Wakeup(c, "r_asleep", "r_woken", "rx")
    BY <1>4, Running DEF Store, Given
  <2>1. Wakes(c, "r_asleep", "r_woken", "rx") /\ Goes(c, f)
    BY <1>2, <2>0, WakeupGoes DEF CoreInv, Resting, Labels
  <2> HIDE DEF f
  <2>2. CoreInv'
    BY <1>1, <1>3, <2>1, NextCharCore
  <2> QED
    BY <1>1, <1>2, <1>4, <2>0, <2>1, <2>2
<1>5. CASE ~Given(top[c].ch)
  <2>0. w' = w /\ Set(c, f)
    BY <1>5, Running DEF Store, Given
  <2>1. Sets(c, f) /\ Goes(c, f)
    BY <1>3, <2>0, SetGoes DEF CoreInv
  <2>2. CoreInv'
    BY <1>1, <1>3, <2>1, NextCharCore
  <2> QED
    BY <1>1, <1>2, <1>5, <2>0, <2>1, <2>2
<1> QED
  BY <1>4, <1>5

\* A kill wakes a process that sleeps.
KilledFrame(f) == Woken(Woken(f, "r_asleep", "r_woken"), "w_asleep", "w_woken")

\* A kill leaves nobody asleep, and changes nothing but that.
LEMMA KilledType ==
  ASSUME NEW f \in Frames
  PROVE  /\ KilledFrame(f) \in Frames
         /\ KilledFrame(f) = f \/ (/\ f.pc \in {"r_asleep", "w_asleep"}
                                   /\ KilledFrame(f).pc \in {"r_woken", "w_woken"})
         /\ KilledFrame(f).n = f.n /\ KilledFrame(f).pc \notin {"r_asleep", "w_asleep"}
         /\ f.pc = "r_asleep" => KilledFrame(f).pc = "r_woken"
         /\ f.pc = "w_asleep" => KilledFrame(f).pc = "w_woken"
<1>1. CASE f.pc = "r_asleep"
  <2> DEFINE g == [f EXCEPT !.pc = "r_woken"]
  <2>1. g \in Frames /\ g.pc = "r_woken" /\ g.n = f.n
    BY DEF Frames, Labels
  <2>2. Woken(f, "r_asleep", "r_woken") = g
    BY <1>1 DEF Woken
  <2> HIDE DEF g
  <2>3. KilledFrame(f) = g
    BY <2>1, <2>2 DEF KilledFrame, Woken
  <2> QED
    BY <1>1, <2>1, <2>3
<1>2. CASE f.pc = "w_asleep"
  <2> DEFINE g == [f EXCEPT !.pc = "w_woken"]
  <2>1. g \in Frames /\ g.pc = "w_woken" /\ g.n = f.n
    BY DEF Frames, Labels
  <2>2. KilledFrame(f) = g
    BY <1>2 DEF KilledFrame, Woken
  <2> HIDE DEF g
  <2> QED
    BY <1>2, <2>1, <2>2
<1>3. CASE f.pc \notin {"r_asleep", "w_asleep"}
  <2>1. KilledFrame(f) = f
    BY <1>3 DEF KilledFrame, Woken
  <2> QED
    BY <1>3, <2>1
<1> QED
  BY <1>1, <1>2, <1>3

\* A kill changes the frame of one process, between two places of rest.
LEMMA KillCore ==
  ASSUME CoreInv, NEW c \in Cpu, Kill(c)
  PROVE  /\ CoreInv' /\ depth' = depth
         /\ top' = IF depth[c] = 1 THEN [top EXCEPT ![c] = KilledFrame(proc[c])] ELSE top
         /\ proc' = [proc EXCEPT ![c] = KilledFrame(proc[c])]
<1> DEFINE f == KilledFrame(proc[c])
<1>1. /\ depth \in [Cpu -> 1 .. 2] /\ top \in [Cpu -> Frames] /\ proc \in [Cpu -> Frames]
      /\ proc[c] = Proc(c) /\ (depth[c] = 1 => top[c] = proc[c])
  BY Stacks DEF CoreInv
<1>2. run' = [run EXCEPT ![c][1] = f] /\ UNCHANGED <<cpu, owner, panicked, claimed>>
  BY <1>1 DEF Kill, KilledFrame, Proc, lvars, uart
<1>3. f \in Frames /\ (f = proc[c] \/ (proc[c].pc \in Resting /\ f.pc \in Resting))
  BY <1>1, KilledType DEF Resting
<1> HIDE DEF f
<1>4. /\ run' \in [Cpu -> Seq(Frames)] /\ depth' = depth
      /\ top' = IF depth[c] = 1 THEN [top EXCEPT ![c] = f] ELSE top
      /\ proc' = [proc EXCEPT ![c] = f]
  BY <1>2, <1>3, KillSets DEF CoreInv
<1>5. CASE f = proc[c]
  <2>1. top' = top /\ proc' = proc /\ depth' = depth
    BY <1>1, <1>4, <1>5
  <2>2. CoreInv'
    BY <1>2, <1>4, <2>1 DEF CoreInv, StackInv, StackOf, MaskInv, MaskOf, Nested, OwnInv, LocksOf,
                            MayTx, MayCons, MustCons, HasPr
  <2> QED
    BY <1>4, <2>2 DEF f
<1>6. CASE f # proc[c]
  <2>0. proc[c].pc \in Resting /\ f.pc \in Resting
    BY <1>3, <1>6
  <2> DEFINE g == top'[c]
  <2>1. g = IF depth[c] = 1 THEN f ELSE top[c]
    BY <1>1, <1>4
  <2>2. /\ g \in Frames /\ depth' = depth /\ OnlyStack(c) /\ proc'[c] = f
    BY <1>1, <1>3, <1>4 DEF OnlyStack
  <2>3. Goes(c, g)
    BY <1>4, <2>0, <2>1, <2>2, <1>1 DEF Goes
  <2>4. /\ depth[c] = 1 => ProcFrame(g) /\ g.pc \in Resting /\ top[c].pc \in Resting
        /\ depth[c] = 2 => HandlerFrame(g) /\ g = top[c]
    BY <1>1, <2>0, <2>1, Running DEF ProcFrame
  <2> HIDE DEF g
  <2>5. Fits(c, g)
    BY <1>2, <2>3, <2>4, SameLocks, Running DEF Fits, Resting
  <2>6. Deep(g, depth[c]) = Deep(top[c], depth[c])
    BY <2>4, Running, DeepIs
  <2>7. CoreInv'
    BY <1>2, <2>5, <2>6, CoreSame
  <2> QED
    BY <1>4, <2>7 DEF f
<1> QED
  BY <1>5, <1>6

\* Every step keeps stacks, interrupts and locks.
LEMMA CoreStep ==
  ASSUME CoreInv, rx \in Seq(Key), [Next]_vars
  PROVE  CoreInv'
<1>1. CASE UNCHANGED <<lvars, run, claimed>>
  <2>1. depth' = depth /\ top' = top /\ proc' = proc
    BY <1>1 DEF depth, top, proc, Top, Proc
  <2> QED
    BY <1>1, <2>1 DEF lvars, CoreInv, StackInv, StackOf, MaskInv, MaskOf, Nested, OwnInv, LocksOf,
                      MayTx, MayCons, MustCons, HasPr
<1>2. ASSUME NEW c \in Cpu, Step(c) PROVE CoreInv'
  <2>1. CASE PutIdle(c) \/ PutChar(c) \/ Printf(c) \/ Write(c)
    BY <2>1, PutIdleCore, PutCharCore, PrintLockedCore, PrintEndCore, WriteCore DEF Printf
  <2>2. CASE Isr(c)
    BY <2>2, TxDoneCore, CompleteCore DEF Isr
  <2>3. CASE Consoleintr(c)
    <3>1. CASE DumpPrint(c)
      <4>1. top[c].pc = "c_dump" /\ PrintAcquire(c, "c_end")
        BY <3>1, Running DEF DumpPrint, At
      <4> QED
        BY <4>1, PrintAcquireCore
    <3> QED
      BY <2>3, <3>1, GetcCore, DumpCore, EndCore, EraseCore, EchoCore, StoreCore DEF Consoleintr
  <2>4. CASE Read(c)
    <3>1. CASE ReadKilled(c) \/ ReadEof(c) \/ ReadFault(c)
      <4>1. At(c, "r") /\ Release(c, "cons") /\ Set(c, Frame) /\ claimed' = claimed
        BY <3>1 DEF ReadKilled, ReadEof, ReadFault, uart
      <4> QED
        BY <4>1, ReadEndCore
    <3>2. CASE ReadByte(c)
      <4>1. /\ At(c, "r") /\ claimed' = claimed
            /\ \/ Release(c, "cons") /\ Set(c, Frame)
               \/ Locked(c, "cons") /\ Set(c, [top[c] EXCEPT !.n = top[c].n - 1])
        BY <3>2, Running DEF ReadByte, uart
      <4> QED
        BY <4>1, ReadEndCore, ReadMoreCore
    <3> QED
      BY <2>4, <3>1, <3>2, ReadAgainCore, ReadSleepCore DEF Read
  <2> QED
    BY <1>2, <2>1, <2>2, <2>3, <2>4 DEF Step
<1>3. ASSUME NEW c \in Cpu, Call(c) PROVE CoreInv'
  <2>1. top[c].pc = "user"
    BY <1>3, Running DEF Call, At
  <2>2. ASSUME NEW n \in 1 .. MaxRead, ReadCall(c, n) PROVE CoreInv'
    BY <2>1, <2>2, ReadCallCore
  <2>3. ASSUME NEW n \in 1 .. MaxWrite, WriteChunk(c, n) PROVE CoreInv'
    BY <2>1, <2>3, WriteChunkCore DEF Resting
  <2>4. CASE PrintAcquire(c, "user")
    BY <2>1, <2>4, PrintAcquireCore
  <2> QED
    BY <1>3, <2>2, <2>3, <2>4 DEF Call
<1>4. CASE (Transmit /\ Others) \/ Typed
  BY <1>1, <1>4 DEF Transmit, Typed
<1> QED
  BY <1>1, <1>2, <1>3, <1>4, KillCore, InterruptCore DEF Next, vars, uvars, uart

-----------------------------------------------------------------------------
(* The driver and the ring: what most steps leave alone. *)

DataInv == TxInv /\ RingInv /\ ReadInv /\ SleepInv

\* Nobody is newly about to put a byte, or to store a character; the handler has not
\* looked at the transmitter; nobody has gone to sleep, and readers want what they did.
NoPutc     == \A d \in Cpu : top'[d].pc = "putc" => top[d].pc = "putc" /\ top'[d].src = top[d].src
NoStoring  == \A d \in Cpu : Storing(top'[d]) => Storing(top[d])
IsrStays   == \A d \in Cpu : top[d].pc = "isr" => top'[d].pc = "isr"
NoSleeper  == \A d \in Cpu : proc'[d].pc \in {"w_asleep", "r_asleep"} => proc'[d].pc = proc[d].pc
ReadsStay  == \A d \in Cpu : proc'[d].pc \in Reading =>
                              proc[d].pc \in Reading /\ proc'[d].n = proc[d].n
ReadsSame  == ReadsStay /\ \A d \in Cpu : proc[d].pc \in Reading => proc'[d].pc \in Reading

\* The transmitter's part, of a step that sends nothing.
LEMMA TxQuiet ==
  ASSUME TxInv, NoPutc, UNCHANGED <<tx, tx_busy>>, txIrq' \in BOOLEAN
  PROVE  TxInv'
BY DEF TxInv, NoPutc, OnePerSource

\* The ring's part, of a step that leaves it alone.
LEMMA RingQuiet ==
  ASSUME RingInv, NoStoring, UNCHANGED cons
  PROVE  RingInv'
BY DEF RingInv, NoStoring, cons, Room, Sub, Slot

\* The reads' part, of a step that gives them nothing.
LEMMA ReadQuiet ==
  ASSUME ReadInv, ReadsStay, UNCHANGED got, rx' \in Seq(Key), input' \in Seq(Key),
         killed' \in [Cpu -> BOOLEAN]
  PROVE  ReadInv'
<1> DEFINE taken == [c \in Cpu |-> Len(got[c])]
<1>1. \A c \in Cpu : taken[c] = Len(got[c]) /\ Len(got'[c]) = Len(got[c])
  OBVIOUS
<1>2. /\ got' \in [Cpu -> Seq(Char)]
      /\ \A c \in Cpu : Len(got'[c]) <= MaxRead
  BY DEF ReadInv
<1>3. \A c \in Cpu : proc[c].pc \in Reading => proc[c].n > 0 /\ proc[c].n + taken[c] <= MaxRead
  BY <1>1 DEF ReadInv
<1> HIDE DEF taken
<1>4. \A c \in Cpu : proc'[c].pc \in Reading => proc'[c].n > 0 /\ proc'[c].n + taken[c] <= MaxRead
  BY <1>3 DEF ReadsStay
<1>5. \A c \in Cpu : proc'[c].pc \in Reading =>
                     proc'[c].n > 0 /\ proc'[c].n + Len(got'[c]) <= MaxRead
  BY <1>1, <1>4
<1> QED
  BY <1>2, <1>5 DEF ReadInv

\* The sleepers' part, of a step after which nobody sleeps who did not.
LEMMA SleepQuiet ==
  ASSUME SleepInv, IsrStays, NoSleeper, UNCHANGED <<tx_busy, r, w>>,
         tx # <<>> \/ txIrq => tx' # <<>> \/ txIrq'
  PROVE  SleepInv'
BY DEF SleepInv, IsrStays, NoSleeper

\* What does not change but for the stacks.
DataStays == UNCHANGED <<tx, txIrq, tx_busy, cons, got>>

InputTyped == rx' \in Seq(Key) /\ input' \in Seq(Key) /\ killed' \in [Cpu -> BOOLEAN]

\* All of it, of a step that only moves the stacks.
LEMMA DataQuiet ==
  ASSUME DataInv, NoPutc, NoStoring, IsrStays, NoSleeper, ReadsStay, DataStays, InputTyped
  PROVE  DataInv'
<1>1. TxInv' BY TxQuiet DEF DataInv, DataStays, TxInv
<1>2. RingInv' BY RingQuiet DEF DataInv, DataStays
<1>3. ReadInv' BY ReadQuiet DEF DataInv, DataStays, InputTyped
<1>4. SleepInv' BY SleepQuiet DEF DataInv, DataStays, cons
<1> QED BY <1>1, <1>2, <1>3, <1>4 DEF DataInv

\* What a new frame on the stack of CPU c leaves alone.
LEMMA SetsCalm ==
  ASSUME StackInv, NEW c \in Cpu, NEW f, Sets(c, f)
  PROVE  /\ f.pc # "putc" => NoPutc
         /\ ~Storing(f) \/ Storing(top[c]) => NoStoring
         /\ top[c].pc # "isr" => IsrStays
         /\ depth[c] = 2 \/ f.pc \notin {"w_asleep", "r_asleep"} => NoSleeper
         /\ depth[c] = 2 \/ f.pc \notin Reading \/ (top[c].pc \in Reading /\ f.n = top[c].n)
              => ReadsStay
         /\ (\/ depth[c] = 2 \/ (f.pc \notin Reading /\ top[c].pc \notin Reading)
             \/ f.pc \in Reading /\ top[c].pc \in Reading /\ f.n = top[c].n)
              => ReadsSame
<1>1. /\ depth \in [Cpu -> 1 .. 2] /\ top \in [Cpu -> Frames] /\ proc \in [Cpu -> Frames]
      /\ (depth[c] = 1 => top[c] = proc[c])
  BY Stacks
<1>2. top'[c] = f /\ \A d \in Cpu : d # c => top'[d] = top[d] /\ proc'[d] = proc[d]
  BY <1>1 DEF Sets
<1>3. proc'[c] = IF depth[c] = 1 THEN f ELSE proc[c]
  BY <1>1 DEF Sets
<1>4. f.pc # "putc" => NoPutc
  BY <1>2 DEF NoPutc
<1>5. ~Storing(f) \/ Storing(top[c]) => NoStoring
  BY <1>2 DEF NoStoring
<1>6. top[c].pc # "isr" => IsrStays
  BY <1>2 DEF IsrStays
<1>7. depth[c] = 2 \/ f.pc \notin {"w_asleep", "r_asleep"} => NoSleeper
  BY <1>2, <1>3 DEF NoSleeper
<1>8. depth[c] = 2 \/ f.pc \notin Reading \/ (top[c].pc \in Reading /\ f.n = top[c].n) => ReadsStay
  BY <1>1, <1>2, <1>3 DEF ReadsStay
<1>9. (\/ depth[c] = 2 \/ (f.pc \notin Reading /\ top[c].pc \notin Reading)
       \/ f.pc \in Reading /\ top[c].pc \in Reading /\ f.n = top[c].n)
        => ReadsSame
  BY <1>1, <1>2, <1>3, <1>8 DEF ReadsSame
<1> QED
  BY <1>4, <1>5, <1>6, <1>7, <1>8, <1>9

\* What a wakeup by the handler leaves alone.
LEMMA WakesCalm ==
  ASSUME StackInv, NEW c \in Cpu, depth[c] = 2,
         NEW i \in {"w", "r"}, NEW l, NEW k,
         l = (IF i = "w" THEN "w_asleep" ELSE "r_asleep"),
         k = (IF i = "w" THEN "w_woken" ELSE "r_woken"), Wakes(c, l, k, "rx")
  PROVE  /\ NoPutc /\ NoStoring /\ NoSleeper /\ ReadsStay /\ ReadsSame
         /\ top[c].pc # "isr" => IsrStays
         /\ \A d \in Cpu : proc'[d].pc # l
         /\ \A d \in Cpu : d # c => top'[d].pc = top[d].pc \/ top'[d].pc = k
<1>1. /\ depth \in [Cpu -> 1 .. 2] /\ top \in [Cpu -> Frames] /\ proc \in [Cpu -> Frames]
      /\ \A d \in Cpu : depth[d] = 1 => top[d] = proc[d]
  BY Stacks
<1>2. \A d \in Cpu : /\ proc[d].pc = l => proc'[d] = [proc[d] EXCEPT !.pc = k]
                     /\ proc[d].pc # l => proc'[d] = proc[d]
  BY DEF Wakes, Woken
<1>3. \A d \in Cpu : proc[d].pc = l => proc'[d].pc = k /\ proc'[d].n = proc[d].n
  <2>1. k \in Labels
    BY DEF Labels
  <2>2. \A d \in Cpu : [proc[d] EXCEPT !.pc = k].pc = k /\ [proc[d] EXCEPT !.pc = k].n = proc[d].n
    BY <1>1, <2>1, Moved
  <2> QED
    BY <1>2, <2>2
<1>4. \A d \in Cpu : d # c => top'[d] = IF depth[d] = 1 THEN proc'[d] ELSE top[d]
  BY DEF Wakes
<1>5. top'[c].pc = "rx"
  BY Fresh DEF Wakes, Labels
<1>6. \A d \in Cpu : d # c => (top'[d] = top[d] \/ (top[d].pc = l /\ top'[d].pc = k))
  BY <1>1, <1>2, <1>3, <1>4
<1>7. NoPutc /\ NoStoring
  BY <1>5, <1>6 DEF NoPutc, NoStoring, Storing
<1>8. NoSleeper /\ ReadsSame /\ \A d \in Cpu : proc'[d].pc # l
  BY <1>2, <1>3 DEF NoSleeper, ReadsSame, ReadsStay, Reading
<1>9. top[c].pc # "isr" => IsrStays
  BY <1>6 DEF IsrStays
<1>10. \A d \in Cpu : d # c => top'[d].pc = top[d].pc \/ top'[d].pc = k
  BY <1>6
<1> QED
  BY <1>7, <1>8, <1>9, <1>10 DEF ReadsSame

-----------------------------------------------------------------------------
(* The transmitter. *)

\* What the other parts of a step leave alone.
ConsStay == UNCHANGED <<cons, got, killed, bounds>>

\* What has been typed stays typed where it stays.
LEMMA TypedStay ==
  ASSUME DataInv, ConsStay, UNCHANGED rx
  PROVE  InputTyped
BY DEF DataInv, ReadInv, InputTyped, ConsStay, bounds

\* A byte of a source that the FIFO does not have.
LEMMA TxAppend ==
  ASSUME tx \in Seq(Sources), OnePerSource, NEW s \in Sources, tx' = Append(tx, s),
         \A x \in 1 .. Len(tx) : tx[x] # s
  PROVE  /\ tx' \in Seq(Sources) /\ OnePerSource' /\ tx' # <<>>
         /\ \A x \in 1 .. Len(tx') : tx'[x] = s \/ \E y \in 1 .. Len(tx) : tx'[x] = tx[y]
<1>1. /\ tx' \in Seq(Sources) /\ Len(tx') = Len(tx) + 1 /\ tx'[Len(tx) + 1] = s /\ tx' # <<>>
      /\ \A x \in 1 .. Len(tx) : tx'[x] = tx[x]
  BY AppendProperties, Zenon
<1>2. Len(tx) \in Nat /\ \A x \in 1 .. Len(tx') : x = Len(tx) + 1 \/ x \in 1 .. Len(tx)
  BY <1>1
<1>3. OnePerSource'
  BY <1>1, <1>2 DEF OnePerSource
<1> QED
  BY <1>1, <1>2, <1>3

\* The oldest byte leaves the FIFO.
LEMMA TxTail ==
  ASSUME tx \in Seq(Sources), OnePerSource, tx # <<>>, tx' = Tail(tx)
  PROVE  /\ tx' \in Seq(Sources) /\ OnePerSource'
         /\ \A x \in 1 .. Len(tx') : \E y \in 1 .. Len(tx) : tx'[x] = tx[y]
<1>1. /\ tx' \in Seq(Sources) /\ Len(tx') = Len(tx) - 1 /\ Len(tx) \in Nat
      /\ \A x \in 1 .. Len(tx') : tx'[x] = tx[x + 1]
  BY HeadTailProperties
<1>2. \A x \in 1 .. Len(tx') : x + 1 \in 1 .. Len(tx)
  BY <1>1
<1>3. OnePerSource'
  BY <1>1, <1>2 DEF OnePerSource
<1> QED
  BY <1>1, <1>2, <1>3

\* Who is about to put a byte: an echo, or a message, and one of each.
LEMMA Putters ==
  ASSUME CoreInv, NEW c \in Cpu, top[c].pc = "putc"
  PROVE  /\ top[c].src \in {"echo", "print"}
         /\ depth[c] = 1 => top[c].ret = "pr_end"
         /\ depth[c] = 2 => top[c].ret \in {"pr_end", "c", "c_end", "c_store"}
         /\ top[c].ret = "c_store" => top[c].src = "echo"
         /\ \A d \in Cpu : d # c /\ top[d].pc = "putc" => top[d].src # top[c].src
<1>1. \A d \in Cpu : top[d].pc = "putc" =>
        /\ depth[d] = 1 => top[d].src = "print" /\ top[d].ret = "pr_end"
        /\ depth[d] = 2 => \/ top[d].src = "print" /\ top[d].ret = "pr_end"
                           \/ top[d].src = "echo" /\ top[d].ret \in {"c", "c_end", "c_store"}
        /\ depth[d] \in {1, 2}
  BY Running DEF ProcFrame, HandlerFrame, Resting, Printing, Echoing
<1>2. \A d \in Cpu : top[d].pc = "putc" =>
        owner[IF top[d].src = "print" THEN "pr" ELSE "cons"] = d
  BY <1>1, Running
<1>3. \A d \in Cpu : d # c /\ top[d].pc = "putc" => top[d].src # top[c].src
  BY <1>2
<1> QED
  BY <1>1, <1>3

\* uartputc_sync finds the transmitter idle.
LEMMA PutIdleData ==
  ASSUME Inv, NEW c \in Cpu, PutIdle(c), ConsStay
  PROVE  DataInv' /\ ReadsSame
<1> DEFINE f == [top[c] EXCEPT !.pc = "putc"]
<1>0. CoreInv /\ StackInv /\ DataInv
  BY DEF Inv, CoreInv, DataInv
<1>1. /\ UNCHANGED <<tx, txIrq, tx_busy, rx>> /\ tx = <<>>
      /\ top[c].pc = "put" /\ Sets(c, f) /\ top[c] \in Frames
  BY <1>0, PutIdleCore, Running DEF PutIdle, uart
<1>2. f.pc = "putc" /\ f.src = top[c].src /\ f.ret = top[c].ret
  BY <1>1, Moved DEF Labels
<1> HIDE DEF f
<1>3. NoStoring /\ IsrStays /\ NoSleeper /\ ReadsStay /\ ReadsSame
  BY <1>0, <1>1, <1>2, SetsCalm DEF Storing, Reading
<1>4. TxInv'
  <2>1. tx' = <<>> /\ Len(tx') = 0 /\ tx' = tx
    BY <1>1
  <2> QED
    BY <1>0, <1>1, <2>1 DEF TxInv, OnePerSource, DataInv
<1>5. InputTyped /\ UNCHANGED <<cons, got, r, w>>
  BY <1>0, <1>1, TypedStay DEF ConsStay, cons
<1> QED
  BY <1>0, <1>1, <1>3, <1>4, <1>5, RingQuiet, ReadQuiet, SleepQuiet DEF DataInv, InputTyped

\* uartputc_sync writes its byte.
LEMMA PutCharData ==
  ASSUME Inv, NEW c \in Cpu, PutChar(c), ConsStay
  PROVE  DataInv' /\ ReadsSame
<1> DEFINE s == top[c].src
<1> DEFINE f == [top[c] EXCEPT !.pc = top[c].ret, !.src = None, !.ret = "user"]
<1>0. CoreInv /\ StackInv /\ DataInv
  BY DEF Inv, CoreInv, DataInv
<1>1. /\ UNCHANGED <<tx_busy, rx>> /\ tx' = Append(tx, s) /\ txIrq' = FALSE
      /\ top[c].pc = "putc" /\ Sets(c, f) /\ top[c] \in Frames
  BY <1>0, PutCharCore, Running DEF PutChar
<1>2. f.pc = top[c].ret /\ f \in Frames
  BY <1>1 DEF Frames, Labels
<1> HIDE DEF f
<1>3. /\ s \in {"echo", "print"} /\ f.pc \in {"pr_end", "c", "c_end", "c_store"}
      /\ depth[c] \in {1, 2} /\ (f.pc = "c_store" => Storing(top[c]))
      /\ \A d \in Cpu : d # c /\ top[d].pc = "putc" => top[d].src # s
  BY <1>0, <1>1, <1>2, Putters, Running DEF Storing
<1>4. NoPutc /\ NoStoring /\ IsrStays /\ NoSleeper /\ ReadsStay /\ ReadsSame
  BY <1>0, <1>1, <1>2, <1>3, SetsCalm DEF Storing, Reading
<1>5. InputTyped /\ UNCHANGED <<cons, got, r, w>>
  BY <1>0, <1>1, TypedStay DEF ConsStay, cons
<1>6. /\ tx \in Seq(Sources) /\ OnePerSource /\ s \in Sources
      /\ \A x \in 1 .. Len(tx) : tx[x] # s
  BY <1>0, <1>1, <1>3 DEF DataInv, TxInv, Sources
<1>7. /\ tx' \in Seq(Sources) /\ OnePerSource' /\ tx' # <<>>
      /\ \A x \in 1 .. Len(tx') : tx'[x] = s \/ \E y \in 1 .. Len(tx) : tx'[x] = tx[y]
  BY <1>1, <1>6, TxAppend
<1>8. TxInv'
  <2>1. \A x \in 1 .. Len(tx') : tx'[x] = "write" => tx_busy'
    BY <1>0, <1>1, <1>3, <1>7 DEF DataInv, TxInv
  <2>2. \A d \in Cpu : top'[d].pc = "putc" =>
                       top[d].pc = "putc" /\ top'[d].src = top[d].src /\ d # c
    <3>1. top'[c] = f
      BY <1>0, <1>1, Stacks DEF Sets
    <3> QED
      BY <1>3, <1>4, <3>1 DEF NoPutc
  <2>3. \A d \in Cpu : top'[d].pc = "putc" => \A x \in 1 .. Len(tx') : tx'[x] # top'[d].src
    <3> SUFFICES ASSUME NEW d \in Cpu, top'[d].pc = "putc", NEW x \in 1 .. Len(tx')
                 PROVE  tx'[x] # top[d].src
      BY <2>2
    <3>1. top[d].src # s /\ \A y \in 1 .. Len(tx) : tx[y] # top[d].src
      BY <1>0, <1>3, <2>2 DEF DataInv, TxInv
    <3> QED
      BY <1>7, <3>1
  <2>4. tx_busy' \in BOOLEAN /\ txIrq' \in BOOLEAN
    BY <1>0, <1>1 DEF DataInv, TxInv
  <2> QED
    BY <1>7, <2>1, <2>3, <2>4 DEF TxInv
<1> QED
  BY <1>0, <1>1, <1>4, <1>5, <1>7, <1>8, RingQuiet, ReadQuiet, SleepQuiet DEF DataInv, InputTyped
\* What a step of the transmitter's side needs for the rest of what is known.
LEMMA TxSide ==
  ASSUME DataInv, TxInv', SleepInv', NoStoring, ReadsStay, InputTyped, UNCHANGED <<cons, got>>
  PROVE  DataInv'
BY RingQuiet, ReadQuiet DEF DataInv, InputTyped

\* uartwrite, uartputc_sync's rival.
LEMMA WriteData ==
  ASSUME Inv, NEW c \in Cpu, Write(c), ConsStay
  PROVE  DataInv' /\ ReadsSame
<1>0. CoreInv /\ StackInv /\ DataInv
  BY DEF Inv, CoreInv, DataInv
<1>1. PICK f \in Frames : /\ Sets(c, f) /\ f.pc \in {"w", "w_asleep", "w_next", "user"}
                          /\ f.pc = "w_asleep" => tx_busy /\ UNCHANGED uart
  BY <1>0, WriteCore
<1>2. depth[c] = 1 /\ top[c].pc \in {"w_woken", "w", "w_next"}
  BY <1>0, WriteCore
<1>3. /\ NoPutc /\ NoStoring /\ IsrStays /\ ReadsStay /\ ReadsSame
      /\ f.pc # "w_asleep" => NoSleeper
  BY <1>0, <1>1, <1>2, SetsCalm DEF Storing, Reading
<1>4. UNCHANGED uart \/ WriteByte(c)
  BY DEF Write, WriteAgain, WriteSleep, WriteEnd, WriteNext, WriteChunk
<1>5. InputTyped /\ UNCHANGED <<cons, got, r, w>>
  <2>1. UNCHANGED rx
    BY <1>4 DEF WriteByte, uart
  <2> QED
    BY <1>0, <2>1, TypedStay DEF ConsStay, cons
<1>6. CASE UNCHANGED uart
  <2>1. UNCHANGED <<tx, tx_busy, txIrq>>
    BY <1>6 DEF uart
  <2>2. TxInv'
    BY <1>0, <1>3, <2>1, TxQuiet DEF DataInv, TxInv
  <2>3. SleepInv'
    <3>1. CASE f.pc # "w_asleep"
      BY <1>0, <1>3, <1>5, <2>1, <3>1, SleepQuiet DEF DataInv
    <3>2. CASE f.pc = "w_asleep"
      <4>1. \A d \in Cpu : proc'[d].pc = "r_asleep" => proc[d].pc = "r_asleep"
        BY <1>0, <1>1, <1>2, <3>2, Stacks DEF Sets
      <4> QED
        BY <1>0, <1>1, <1>3, <1>5, <2>1, <3>2, <4>1 DEF DataInv, SleepInv, IsrStays
    <3> QED
      BY <3>1, <3>2
  <2> QED
    BY <1>0, <1>3, <1>5, <2>2, <2>3, TxSide
<1>7. CASE WriteByte(c)
  <2>1. /\ ~tx_busy /\ tx' = Append(tx, "write") /\ txIrq' = FALSE /\ tx_busy' = TRUE
    BY <1>7 DEF WriteByte
  <2>2. /\ tx \in Seq(Sources) /\ OnePerSource /\ "write" \in Sources
        /\ \A x \in 1 .. Len(tx) : tx[x] # "write"
    BY <1>0, <2>1 DEF DataInv, TxInv, Sources
  <2>3. /\ tx' \in Seq(Sources) /\ OnePerSource' /\ tx' # <<>>
        /\ \A x \in 1 .. Len(tx') : tx'[x] = "write" \/ \E y \in 1 .. Len(tx) : tx'[x] = tx[y]
    BY <2>1, <2>2, TxAppend
  <2>4. TxInv'
    <3> SUFFICES ASSUME NEW d \in Cpu, top'[d].pc = "putc", NEW x \in 1 .. Len(tx')
                 PROVE  tx'[x] # top'[d].src
      BY <2>1, <2>3 DEF TxInv
    <3>1. top[d].pc = "putc" /\ top'[d].src = top[d].src
      BY <1>3 DEF NoPutc
    <3>2. top[d].src # "write" /\ \A y \in 1 .. Len(tx) : tx[y] # top[d].src
      BY <1>0, <3>1, Putters DEF DataInv, TxInv
    <3> QED
      BY <2>3, <3>1, <3>2
  <2>5. SleepInv'
    <3>1. NoSleeper
      BY <1>1, <1>3, <2>1
    <3> QED
      BY <1>0, <1>5, <2>1, <2>3, <3>1 DEF DataInv, SleepInv, NoSleeper
  <2> QED
    BY <1>0, <1>3, <1>5, <2>4, <2>5, TxSide
<1> QED
  BY <1>4, <1>6, <1>7

\* The 16550 sends a byte.
LEMMA TransmitData ==
  ASSUME Inv, Transmit, ConsStay
  PROVE  DataInv' /\ ReadsSame
<1>0. DataInv /\ tx \in Seq(Sources) /\ OnePerSource
  BY DEF Inv, DataInv, TxInv
<1>1. /\ tx # <<>> /\ tx' = Tail(tx) /\ txIrq' = (tx' = <<>>) /\ UNCHANGED <<tx_busy, rx>>
      /\ top' = top /\ proc' = proc
  BY DEF Transmit, top, proc, Top, Proc
<1>2. /\ tx' \in Seq(Sources) /\ OnePerSource'
      /\ \A x \in 1 .. Len(tx') : \E y \in 1 .. Len(tx) : tx'[x] = tx[y]
  BY <1>0, <1>1, TxTail
<1>3. TxInv'
  <2>1. \A x \in 1 .. Len(tx') : tx'[x] = "write" => tx_busy'
    BY <1>0, <1>1, <1>2 DEF DataInv, TxInv
  <2>2. \A d \in Cpu : top'[d].pc = "putc" => \A x \in 1 .. Len(tx') : tx'[x] # top'[d].src
    BY <1>0, <1>1, <1>2 DEF DataInv, TxInv
  <2>3. tx_busy' \in BOOLEAN /\ txIrq' \in BOOLEAN
    BY <1>0, <1>1 DEF DataInv, TxInv
  <2> QED
    BY <1>2, <2>1, <2>2, <2>3 DEF TxInv
<1>4. SleepInv' /\ NoStoring /\ ReadsStay /\ ReadsSame
  BY <1>0, <1>1 DEF DataInv, SleepInv, NoStoring, ReadsStay, ReadsSame, ConsStay, cons
<1>5. InputTyped /\ UNCHANGED <<cons, got>>
  BY <1>0, <1>1, TypedStay DEF ConsStay
<1> QED
  BY <1>0, <1>3, <1>4, <1>5, TxSide

\* The interrupt takes txIrq back, and the handler will look at the transmitter.
LEMMA InterruptData ==
  ASSUME Inv, NEW c \in Cpu, Interrupt(c), ConsStay
  PROVE  DataInv' /\ ReadsSame
<1> DEFINE f == [Frame EXCEPT !.pc = "isr"]
<1>0. CoreInv /\ DataInv /\ top \in [Cpu -> Frames]
  BY Stacks DEF Inv, CoreInv, DataInv
<1>1. /\ txIrq' = FALSE /\ UNCHANGED <<tx, tx_busy, rx>>
      /\ proc' = proc /\ top' = [top EXCEPT ![c] = f] /\ top[c].pc \in Resting
  BY <1>0, InterruptCore DEF Interrupt
<1>2. f.pc = "isr"
  BY DEF Frame
<1> HIDE DEF f
<1>3. top'[c].pc = "isr" /\ \A d \in Cpu : d # c => top'[d] = top[d]
  BY <1>0, <1>1, <1>2
<1>4. NoPutc /\ NoStoring /\ ReadsStay /\ ReadsSame
  BY <1>1, <1>3 DEF NoPutc, NoStoring, Storing, ReadsStay, ReadsSame
<1>5. TxInv'
  BY <1>0, <1>1, <1>4, TxQuiet DEF DataInv
<1>6. SleepInv'
  BY <1>0, <1>1, <1>3 DEF DataInv, SleepInv, ConsStay, cons
<1>7. InputTyped /\ UNCHANGED <<cons, got>>
  BY <1>0, <1>1, TypedStay DEF ConsStay
<1> QED
  BY <1>0, <1>4, <1>5, <1>6, <1>7, TxSide

\* The handler's look at the transmitter.
LEMMA TxDoneData ==
  ASSUME Inv, NEW c \in Cpu, TxDone(c), ConsStay
  PROVE  DataInv' /\ ReadsSame
<1> DEFINE f == [Frame EXCEPT !.pc = "rx"]
<1>0. CoreInv /\ StackInv /\ DataInv
  BY DEF Inv, CoreInv, DataInv
<1>1. /\ UNCHANGED <<tx, txIrq, rx>> /\ top[c].pc = "isr" /\ depth[c] = 2
      /\ IF tx = <<>> THEN tx_busy' = FALSE /\ Wakes(c, "w_asleep", "w_woken", "rx")
                      ELSE tx_busy' = tx_busy /\ Sets(c, f)
  BY <1>0, TxDoneCore DEF TxDone
<1>2. InputTyped /\ UNCHANGED <<cons, got, r, w>>
  BY <1>0, <1>1, TypedStay DEF ConsStay, cons
<1>3. f.pc = "rx"
  BY DEF Frame
<1> HIDE DEF f
<1>4. CASE tx = <<>>
  <2>1. /\ NoPutc /\ NoStoring /\ NoSleeper /\ ReadsStay /\ ReadsSame
        /\ \A d \in Cpu : proc'[d].pc # "w_asleep"
    BY <1>0, <1>1, <1>4, WakesCalm
  <2>2. TxInv'
    <3>1. Len(tx') = 0 /\ tx' = tx
      BY <1>1, <1>4
    <3>2. tx_busy' \in BOOLEAN /\ txIrq' \in BOOLEAN
      BY <1>0, <1>1, <1>4 DEF DataInv, TxInv
    <3> QED
      BY <1>0, <3>1, <3>2 DEF DataInv, TxInv, OnePerSource
  <2>3. SleepInv'
    BY <1>0, <1>1, <1>2, <1>4, <2>1 DEF DataInv, SleepInv, NoSleeper
  <2> QED
    BY <1>0, <1>2, <2>1, <2>2, <2>3, TxSide
<1>5. CASE tx # <<>>
  <2>1. NoPutc /\ NoStoring /\ NoSleeper /\ ReadsStay /\ ReadsSame
    BY <1>0, <1>1, <1>3, <1>5, SetsCalm DEF Storing
  <2>2. TxInv'
    BY <1>0, <1>1, <1>5, <2>1, TxQuiet DEF DataInv, TxInv
  <2>3. SleepInv'
    BY <1>0, <1>1, <1>2, <1>5, <2>1 DEF DataInv, SleepInv, NoSleeper
  <2> QED
    BY <1>0, <1>2, <2>1, <2>2, <2>3, TxSide
<1> QED
  BY <1>4, <1>5

\* The process goes on below the handler.
LEMMA CompleteData ==
  ASSUME Inv, NEW c \in Cpu, Complete(c), ConsStay
  PROVE  DataInv' /\ ReadsSame
<1>0. CoreInv /\ StackInv /\ DataInv /\ top \in [Cpu -> Frames]
  BY Stacks DEF Inv, CoreInv, DataInv
<1>1. /\ UNCHANGED <<tx, txIrq, tx_busy, rx>> /\ proc' = proc
      /\ top' = [top EXCEPT ![c] = proc[c]] /\ top[c].pc = "rx"
  BY <1>0, CompleteCore DEF Complete
<1>2. proc[c].pc \in Resting
  BY <1>0, <1>1, InHandler, Running
<1>3. top'[c].pc \in Resting /\ \A d \in Cpu : d # c => top'[d] = top[d]
  BY <1>0, <1>1, <1>2
<1>4. NoPutc /\ NoStoring /\ IsrStays /\ NoSleeper /\ ReadsStay /\ ReadsSame
  BY <1>1, <1>3 DEF NoPutc, NoStoring, Storing, IsrStays, NoSleeper, ReadsStay, ReadsSame, Resting
<1>5. InputTyped /\ DataStays
  BY <1>0, <1>1, TypedStay DEF ConsStay, DataStays
<1> QED
  BY <1>0, <1>4, <1>5, DataQuiet

\* printf, but for its character.
LEMMA PrintData ==
  ASSUME Inv, NEW c \in Cpu, ConsStay \/ (UNCHANGED <<cons, got, killed, input>>),
         \/ Printf(c)
         \/ PrintAcquire(c, "user") /\ top[c].pc = "user"
         \/ PrintAcquire(c, "c_end") /\ top[c].pc = "c_dump"
  PROVE  DataInv' /\ ReadsSame
<1>0. CoreInv /\ StackInv /\ DataInv /\ top[c] \in Frames
  BY Running DEF Inv, CoreInv, DataInv
<1>1. UNCHANGED uart /\ UNCHANGED <<cons, got, killed, input>>
  BY DEF Printf, PrintLocked, PrintEnd, PrintAcquire, ConsStay, bounds
<1>2. InputTyped /\ DataStays
  BY <1>0, <1>1 DEF uart, DataStays, InputTyped, DataInv, ReadInv
<1>3. ASSUME NEW f, Sets(c, f), f.pc \in {"put", "user", "c_end", "pr"}, ~Storing(f),
             top[c].pc \in {"user", "pr", "pr_end", "c_dump"}
      PROVE  DataInv' /\ ReadsSame
  <2>1. NoPutc /\ NoStoring /\ IsrStays /\ NoSleeper /\ ReadsStay /\ ReadsSame
    BY <1>0, <1>3, SetsCalm DEF Reading
  <2> QED
    BY <1>0, <1>2, <2>1, DataQuiet
<1>4. CASE PrintLocked(c)
  <2> DEFINE f == Put(c, "print", "pr_end")
  <2>1. Sets(c, f) /\ top[c].pc = "pr"
    BY <1>0, <1>4, PrintLockedCore
  <2>2. f.pc = "put" /\ f.src = "print"
    BY <1>0, Putting DEF Labels
  <2> HIDE DEF f
  <2> QED
    BY <1>3, <2>1, <2>2 DEF Storing
<1>5. CASE PrintEnd(c)
  <2> DEFINE f == [Frame EXCEPT !.pc = top[c].next]
  <2>1. Sets(c, f) /\ top[c].pc = "pr_end" /\ top[c].next \in {"user", "c_end"}
    BY <1>0, <1>5, PrintEndCore
  <2>2. f.pc = top[c].next
    BY <2>1, Fresh DEF Labels
  <2> HIDE DEF f
  <2> QED
    BY <1>3, <2>1, <2>2 DEF Storing
<1>6. ASSUME NEW l \in {"user", "c_end"}, PrintAcquire(c, l),
             top[c].pc = IF l = "user" THEN "user" ELSE "c_dump"
      PROVE  DataInv' /\ ReadsSame
  <2> DEFINE f == [top[c] EXCEPT !.pc = "pr", !.next = l]
  <2>1. Sets(c, f)
    BY <1>0, <1>6, PrintAcquireCore
  <2>2. f.pc = "pr"
    BY <1>0 DEF Frames
  <2> HIDE DEF f
  <2> QED
    BY <1>3, <1>6, <2>1, <2>2 DEF Storing
<1> QED
  BY <1>4, <1>5, <1>6 DEF Printf

-----------------------------------------------------------------------------
(* The ring: its indices, and their places in the buffer. *)

\* Numbers around zero, and their remainders.
LEMMA ModNear ==
  \A m, a \in Int : m > 0 =>
    /\ 0 <= a /\ a < m => a % m = a
    /\ m <= a /\ a < 2 * m => a % m = a - m
    /\ a < 0 /\ 0 <= a + m => a % m = a + m
    /\ a % m \in 0 .. m - 1
BY SMT

\* A number is a multiple of the modulus and its remainder.
LEMMA ModDiv == \A m, a \in Int : m > 0 => \E q \in Int : a = m * q + (a % m)
BY SMT

\* The remainder is the only such number below the modulus.
LEMMA ModSum ==
  \A m, a, x, z \in Int : m > 0 /\ a = m * x + z /\ 0 <= z /\ z < m => a % m = z
BY SMT

\* Multiples of the modulus are not close to each other.
LEMMA MultiplesApart ==
  \A m, a, b, x, y, z \in Int :
     m > 0 /\ a <= b /\ b < a + m /\ a = m * x + z /\ b = m * y + z => a = b
BY SMT

\* Numbers less than the modulus apart have different remainders.
LEMMA ModEqual ==
  \A m, a, b \in Int : m > 0 /\ a <= b /\ b < a + m /\ a % m = b % m => a = b
<1> SUFFICES ASSUME NEW m \in Int, m > 0, NEW a \in Int, NEW b \in Int,
                    a <= b, b < a + m, a % m = b % m
             PROVE  a = b
  OBVIOUS
<1>1. PICK x \in Int : a = m * x + (a % m)
  BY ModDiv
<1>2. PICK y \in Int : b = m * y + (b % m)
  BY ModDiv
<1>3. a % m \in Int
  OBVIOUS
<1> DEFINE z == a % m
<1>4. z \in Int /\ a = m * x + z /\ b = m * y + z
  BY <1>1, <1>2, <1>3
<1> HIDE DEF z
<1> QED
  BY <1>4, MultiplesApart

\* The constants of the ring.
LEMMA Sizes ==
  /\ INPUT_BUF_SIZE \in Nat /\ INPUT_BUF_SIZE > 0 /\ Wrap \in Nat /\ Wrap > INPUT_BUF_SIZE
  /\ Wrap % INPUT_BUF_SIZE = 0 /\ MaxRead \in Nat
BY ConsoleAssumption

Index == 0 .. Wrap - 1

\* How far an index is ahead of another one.
LEMMA SubIs ==
  ASSUME NEW a \in Index, NEW b \in Index
  PROVE  /\ Sub(a, b) \in Index /\ Sub(a, b) = IF b <= a THEN a - b ELSE a - b + Wrap
         /\ Sub(a, b) = 0 <=> a = b
<1>1. Wrap \in Int /\ Wrap > 0 /\ a \in 0 .. Wrap - 1 /\ b \in 0 .. Wrap - 1
  BY Sizes DEF Index
<1> DEFINE d == a - b
<1>2. /\ d \in Int /\ (b <= a => 0 <= d /\ d < Wrap) /\ (a < b => d < 0 /\ 0 <= d + Wrap)
      /\ (d = 0 <=> a = b) /\ d + Wrap # 0 /\ (b <= a \/ a < b)
  BY <1>1
<1>3. Sub(a, b) = d % Wrap
  BY DEF Sub
<1> HIDE DEF d
<1>4. /\ Sub(a, b) = IF b <= a THEN d ELSE d + Wrap
      /\ Sub(a, b) \in 0 .. Wrap - 1
  BY <1>1, <1>2, <1>3, ModNear
<1> QED
  BY <1>1, <1>2, <1>4 DEF d, Index

\* The next index, and the one before.
LEMMA IncIs ==
  ASSUME NEW a \in Index
  PROVE  /\ Inc(a) \in Index /\ Inc(a) = IF a = Wrap - 1 THEN 0 ELSE a + 1
         /\ Sub(a, 1) \in Index /\ Sub(a, 1) = IF a = 0 THEN Wrap - 1 ELSE a - 1
<1>1. Wrap \in Int /\ Wrap > 0 /\ a \in 0 .. Wrap - 1 /\ a + 1 \in Int /\ 1 \in Index
  BY Sizes DEF Index
<1>2. Inc(a) = IF a = Wrap - 1 THEN 0 ELSE a + 1
  <2> DEFINE d == a + 1
  <2>1. d \in Int /\ (a = Wrap - 1 => Wrap <= d /\ d < 2 * Wrap /\ d - Wrap = 0)
        /\ (a # Wrap - 1 => 0 <= d /\ d < Wrap)
    BY <1>1
  <2>2. Inc(a) = d % Wrap
    BY DEF Inc
  <2> HIDE DEF d
  <2>3. Inc(a) = IF a = Wrap - 1 THEN 0 ELSE d
    BY <1>1, <2>1, <2>2, ModNear
  <2> QED
    BY <2>3 DEF d
<1>3. Sub(a, 1) \in Index /\ Sub(a, 1) = IF 1 <= a THEN a - 1 ELSE a - 1 + Wrap
  BY <1>1, SubIs
<1> QED
  BY <1>1, <1>2, <1>3 DEF Index

\* The distances, as the indices move.
LEMMA Moves ==
  ASSUME NEW a \in Index, NEW b \in Index
  PROVE  /\ Sub(a, b) < Wrap - 1 => Sub(Inc(a), b) = Sub(a, b) + 1
         /\ a # b => /\ Sub(a, b) > 0 /\ Sub(Sub(a, 1), b) = Sub(a, b) - 1
                     /\ Sub(a, Inc(b)) = Sub(a, b) - 1
<1> DEFINE x == Sub(a, b)
<1> DEFINE i == Inc(a)
<1> DEFINE j == Inc(b)
<1> DEFINE k == Sub(a, 1)
<1> DEFINE y == Sub(i, b)
<1> DEFINE u == Sub(k, b)
<1> DEFINE v == Sub(a, j)
<1>1. Wrap \in Int /\ Wrap > 1 /\ a \in 0 .. Wrap - 1 /\ b \in 0 .. Wrap - 1
  BY Sizes DEF Index
<1>2. /\ i = IF a = Wrap - 1 THEN 0 ELSE a + 1
      /\ j = IF b = Wrap - 1 THEN 0 ELSE b + 1
      /\ k = IF a = 0 THEN Wrap - 1 ELSE a - 1
      /\ i \in Index /\ j \in Index /\ k \in Index
  BY IncIs
<1>3. /\ x = IF b <= a THEN a - b ELSE a - b + Wrap
      /\ y = IF b <= i THEN i - b ELSE i - b + Wrap
      /\ u = IF b <= k THEN k - b ELSE k - b + Wrap
      /\ v = IF j <= a THEN a - j ELSE a - j + Wrap
  BY <1>2, SubIs
<1> HIDE DEF x, i, j, k, y, u, v
<1>4. x < Wrap - 1 => y = x + 1
  BY <1>1, <1>2, <1>3
<1>5. a # b => x > 0 /\ u = x - 1 /\ v = x - 1
  BY <1>1, <1>2, <1>3
<1> QED
  BY <1>4, <1>5 DEF x, i, j, k, y, u, v

\* The wrap of an index keeps its place in the buffer: the size divides 2^32.
LEMMA SlotWrap ==
  ASSUME NEW a \in Int
  PROVE  Slot(a + Wrap) = Slot(a) /\ Slot(a) \in 0 .. INPUT_BUF_SIZE - 1
<1>1. /\ INPUT_BUF_SIZE \in Int /\ INPUT_BUF_SIZE > 0 /\ Wrap \in Int
      /\ Wrap % INPUT_BUF_SIZE = 0
  BY Sizes
<1>2. PICK u \in Int : Wrap = INPUT_BUF_SIZE * u + (Wrap % INPUT_BUF_SIZE)
  BY <1>1, ModDiv
<1>3. PICK x \in Int : a = INPUT_BUF_SIZE * x + (a % INPUT_BUF_SIZE)
  BY <1>1, ModDiv
<1> DEFINE z == a % INPUT_BUF_SIZE
<1>4. z \in Int /\ 0 <= z /\ z < INPUT_BUF_SIZE
  BY <1>1, ModNear
<1>5. a = INPUT_BUF_SIZE * x + z /\ Wrap = INPUT_BUF_SIZE * u
  BY <1>1, <1>2, <1>3
<1> HIDE DEF z
<1>6. a + Wrap = INPUT_BUF_SIZE * (x + u) + z
  BY <1>1, <1>4, <1>5
<1>7. a + Wrap \in Int /\ x + u \in Int
  BY <1>1
<1>8. (a + Wrap) % INPUT_BUF_SIZE = z
  BY <1>1, <1>4, <1>6, <1>7, ModSum
<1> QED
  BY <1>1, <1>4, <1>8 DEF z, Slot

\* The places from an index on, seen from an earlier one or from the one before.
LEMMA SlotFrom ==
  ASSUME NEW a \in Index, NEW b \in Index, NEW i \in Int
  PROVE  Slot(b + Sub(a, b) + i) = Slot(a + i) /\ Slot(Inc(b) + i) = Slot(b + (i + 1))
<1>1. Wrap \in Int /\ a \in Int /\ b \in Int
  BY Sizes DEF Index
<1>2. Sub(a, b) = a - b \/ Sub(a, b) = a - b + Wrap
  BY SubIs
<1>3. b + Sub(a, b) + i = a + i \/ b + Sub(a, b) + i = (a + i) + Wrap
  BY <1>1, <1>2
<1>4. Inc(b) = b + 1 \/ Inc(b) + Wrap = b + 1
  BY <1>1, IncIs
<1>5. Inc(b) \in Int /\ (Inc(b) + i = b + (i + 1) \/ (Inc(b) + i) + Wrap = b + (i + 1))
  <2>1. Inc(b) \in Int
    BY <1>1, IncIs DEF Index
  <2> QED
    BY <1>1, <1>4, <2>1
<1> DEFINE x == a + i
<1> DEFINE y == Inc(b) + i
<1>6. x \in Int /\ y \in Int
  BY <1>1, <1>5
<1>7. Slot(x + Wrap) = Slot(x) /\ Slot(y + Wrap) = Slot(y)
  BY <1>6, SlotWrap
<1> QED
  BY <1>3, <1>5, <1>7

\* Different places: as many as the buffer has.
LEMMA SlotApart ==
  ASSUME NEW a \in Int, NEW i \in Int, NEW j \in Int, i < j, j < i + INPUT_BUF_SIZE
  PROVE  Slot(a + i) # Slot(a + j)
<1>1. INPUT_BUF_SIZE \in Int /\ INPUT_BUF_SIZE > 0
  BY Sizes
<1> DEFINE x == a + i
<1> DEFINE y == a + j
<1>2. x \in Int /\ y \in Int /\ x <= y /\ y < x + INPUT_BUF_SIZE /\ x # y
  BY <1>1
<1> HIDE DEF x, y
<1>3. x % INPUT_BUF_SIZE # y % INPUT_BUF_SIZE
  BY <1>1, <1>2, ModEqual
<1> QED
  BY <1>3 DEF x, y, Slot

-----------------------------------------------------------------------------
(* consoleintr and consoleread on the ring. *)

\* The indices.
LEMMA Ring ==
  ASSUME RingInv
  PROVE  /\ r \in Index /\ w \in Index /\ e \in Index
         /\ Sub(w, r) \in Nat /\ Sub(e, r) \in Nat /\ Sub(e, r) < Wrap
         /\ Sub(w, r) <= Sub(e, r) /\ Sub(e, r) <= INPUT_BUF_SIZE
         /\ Sub(w, r) = 0 <=> w = r
         /\ Sub(w, r) = Sub(e, r) <=> w = e
         /\ \A i \in Nat : i < Sub(e, r) => Slot(r + i) \in 0 .. INPUT_BUF_SIZE - 1
                                            /\ buf[Slot(r + i)] \in Char
<1>1. /\ r \in Index /\ w \in Index /\ e \in Index /\ Wrap \in Int /\ Wrap > INPUT_BUF_SIZE
      /\ Sub(w, r) <= Sub(e, r) /\ Sub(e, r) <= INPUT_BUF_SIZE /\ INPUT_BUF_SIZE \in Int
  BY Sizes DEF RingInv, Index
<1> DEFINE x == Sub(w, r)
<1> DEFINE y == Sub(e, r)
<1>2. /\ x \in Index /\ x = (IF r <= w THEN w - r ELSE w - r + Wrap)
      /\ y \in Index /\ y = (IF r <= e THEN e - r ELSE e - r + Wrap)
      /\ x = 0 <=> w = r
  BY <1>1, SubIs
<1> HIDE DEF x, y
<1>3. (x = y <=> w = e) /\ x \in Nat /\ y \in Nat /\ y < Wrap
  BY <1>1, <1>2 DEF Index
<1>4. ASSUME NEW i \in Nat, i < y
      PROVE  Slot(r + i) \in 0 .. INPUT_BUF_SIZE - 1 /\ buf[Slot(r + i)] \in Char
  <2>1. i \in 0 .. INPUT_BUF_SIZE - 1 /\ r + i \in Int
    BY <1>1, <1>3, <1>4 DEF y, Index
  <2> QED
    BY <1>4, <2>1, SlotWrap DEF RingInv, y
<1> QED
  BY <1>1, <1>2, <1>3, <1>4 DEF x, y

\* What a step of the console's side needs for the rest of what is known.
LEMMA ConsSide ==
  ASSUME DataInv, RingInv', ReadInv', SleepInv', NoPutc, UNCHANGED <<tx, txIrq, tx_busy>>
  PROVE  DataInv'
BY TxQuiet DEF DataInv, TxInv

\* What consoleintr leaves alone.
HandlerStay == UNCHANGED <<got, killed, bounds>>

\* The driver is left alone as well, but for what it has received.
LEMMA HandlerSide ==
  ASSUME DataInv, HandlerStay, NoPutc, ReadsStay, UNCHANGED <<tx, txIrq, tx_busy>>,
         rx' \in Seq(Key), RingInv', SleepInv'
  PROVE  DataInv'
<1>1. InputTyped /\ UNCHANGED got
  BY DEF DataInv, ReadInv, InputTyped, HandlerStay, bounds
<1> QED
  BY <1>1, ReadQuiet, ConsSide DEF DataInv, InputTyped

\* Steps of consoleintr that leave the ring alone.
LEMMA CalmData ==
  ASSUME Inv, NEW c \in Cpu, HandlerStay, Getc(c) \/ Dump(c) \/ ConsEnd(c) \/ Ignore(c)
  PROVE  DataInv' /\ ReadsSame
<1>0. CoreInv /\ StackInv /\ DataInv /\ rx \in Seq(Key) /\ top[c] \in Frames
  BY Running DEF Inv, CoreInv, DataInv, ReadInv
<1>1. PICK f : Sets(c, f) /\ f.pc \in {"c", "c_dump", "rx"}
  <2>1. CASE Getc(c)
    <3>1. /\ Sets(c, [top[c] EXCEPT !.pc = "c", !.ch = Head(rx)])
          /\ [top[c] EXCEPT !.pc = "c", !.ch = Head(rx)].pc = "c"
      BY <1>0, <2>1, GetcCore DEF Frames
    <3> QED
      BY <3>1
  <2>2. CASE Dump(c)
    <3>1. Sets(c, [top[c] EXCEPT !.pc = "c_dump"]) /\ [top[c] EXCEPT !.pc = "c_dump"].pc = "c_dump"
      BY <1>0, <2>2, DumpCore DEF Frames
    <3> QED
      BY <3>1
  <2>3. CASE ConsEnd(c) \/ Ignore(c)
    <3>1. Sets(c, [Frame EXCEPT !.pc = "rx"]) /\ [Frame EXCEPT !.pc = "rx"].pc = "rx"
      BY <1>0, <2>3, EndCore, Fresh DEF Labels
    <3> QED
      BY <3>1
  <2> QED
    BY <2>1, <2>2, <2>3
<1>2. top[c].pc \in {"rx", "c", "c_end"} /\ UNCHANGED <<tx, txIrq, tx_busy, cons>>
  BY <1>0, Running DEF Getc, Dump, ConsEnd, Ignore, At, uart
<1>3. NoPutc /\ NoStoring /\ IsrStays /\ NoSleeper /\ ReadsStay /\ ReadsSame
  BY <1>0, <1>1, <1>2, SetsCalm DEF Storing, Reading
<1>4. rx' \in Seq(Key)
  <2>1. CASE Getc(c)
    BY <1>0, <2>1, HeadTailProperties DEF Getc
  <2>2. CASE ~Getc(c)
    BY <1>0, <2>2 DEF Dump, ConsEnd, Ignore, uart
  <2> QED
    BY <2>1, <2>2
<1>5. RingInv' /\ SleepInv'
  BY <1>0, <1>2, <1>3, RingQuiet, SleepQuiet DEF DataInv, cons
<1> QED
  BY <1>0, <1>2, <1>3, <1>4, <1>5, HandlerSide

\* A character of the line that is being typed is erased.
LEMMA EraseData ==
  ASSUME Inv, NEW c \in Cpu, HandlerStay, Erase(c)
  PROVE  DataInv' /\ ReadsSame
<1>0. CoreInv /\ StackInv /\ DataInv /\ RingInv
  BY DEF Inv, CoreInv, DataInv
<1> DEFINE l == IF top[c].ch = "kill" THEN "c" ELSE "c_end"
<1> DEFINE f == Put(c, "echo", l)
<1>1. /\ Sets(c, f) /\ top[c].pc = "c" /\ depth[c] = 2
      /\ UNCHANGED <<uart, buf, r, w>> /\ e' = Sub(e, 1) /\ e # w
  BY <1>0, EraseCore DEF Erase, CanErase
<1>2. l \in {"c", "c_end"} /\ l \in Labels
  BY DEF Labels
<1>3. f.pc = "put" /\ f.ret \in {"c", "c_end"}
  BY <1>0, <1>2, Putting
<1> HIDE DEF f, l
<1>4. NoPutc /\ NoStoring /\ IsrStays /\ NoSleeper /\ ReadsStay /\ ReadsSame
  BY <1>0, <1>1, <1>3, SetsCalm DEF Storing
<1>5. /\ e' \in Index /\ Sub(e', r) = Sub(e, r) - 1
      /\ Sub(w, r) <= Sub(e', r) /\ Sub(e', r) < INPUT_BUF_SIZE
  <2>1. Sub(w, r) < Sub(e, r) /\ Sub(e, r) > 0
    BY <1>0, <1>1, Ring
  <2>2. e # r
    BY <1>0, <2>1, Ring, SubIs
  <2>3. e' \in Index /\ Sub(e', r) = Sub(e, r) - 1
    BY <1>0, <1>1, <2>2, Ring, Moves, IncIs
  <2> QED
    BY <1>0, <2>1, <2>3, Ring, Sizes
<1>6. RingInv'
  <2>1. \A i \in 0 .. INPUT_BUF_SIZE - 1 : i < Sub(e', r) => buf[Slot(r + i)] \in Char
    BY <1>0, <1>5, Ring DEF RingInv
  <2>2. UNCHANGED <<buf, r, w>> /\ Sub(e', r) < INPUT_BUF_SIZE /\ Sub(e', r) <= INPUT_BUF_SIZE
    BY <1>0, <1>1, <1>5, Ring, Sizes
  <2>3. e' \in 0 .. Wrap - 1
    BY <1>5 DEF Index
  <2> QED
    BY <1>0, <1>5, <2>1, <2>2, <2>3 DEF RingInv, Room, Sub, Slot
<1>7. SleepInv'
  BY <1>0, <1>1, <1>4, SleepQuiet DEF DataInv, uart
<1>8. rx' \in Seq(Key) /\ UNCHANGED <<tx, txIrq, tx_busy>>
  BY <1>0, <1>1 DEF DataInv, ReadInv, uart
<1> QED
  BY <1>0, <1>4, <1>6, <1>7, <1>8, HandlerSide

\* There is room for the character that is echoed.
LEMMA EchoData ==
  ASSUME Inv, NEW c \in Cpu, HandlerStay, Echo(c)
  PROVE  DataInv' /\ ReadsSame
<1>0. CoreInv /\ StackInv /\ DataInv /\ RingInv
  BY DEF Inv, CoreInv, DataInv
<1> DEFINE ch == IF top[c].ch = "cr" THEN "nl" ELSE top[c].ch
<1> DEFINE f == EchoFrame(c, "c_store", ch)
<1>1. Sets(c, f) /\ top[c].pc = "c" /\ depth[c] = 2 /\ Room /\ UNCHANGED <<uart, cons>>
  BY <1>0, EchoCore DEF Echo
<1>2. f.pc = "put"
  <2> DEFINE g == Put(c, "echo", "c_store")
  <2>1. g \in Frames /\ g.pc = "put"
    BY <1>0, Putting DEF Labels
  <2>2. f = [g EXCEPT !.ch = ch]
    BY DEF EchoFrame
  <2> HIDE DEF f, g, ch
  <2> QED
    BY <2>1, <2>2 DEF Frames
<1> HIDE DEF f, ch
<1>3. NoPutc /\ IsrStays /\ NoSleeper /\ ReadsStay /\ ReadsSame
  BY <1>0, <1>1, <1>2, SetsCalm
<1>4. RingInv' /\ SleepInv'
  BY <1>0, <1>1, <1>3, SleepQuiet DEF DataInv, RingInv, Room, cons, uart, Sub, Slot
<1>5. rx' \in Seq(Key) /\ UNCHANGED <<tx, txIrq, tx_busy>>
  BY <1>0, <1>1 DEF DataInv, ReadInv, uart
<1> QED
  BY <1>0, <1>3, <1>4, <1>5, HandlerSide

\* A character is stored, in the first free place.
LEMMA StoreRing ==
  ASSUME Inv, NEW c \in Cpu, Store(c)
  PROVE  /\ Room /\ e' \in Index /\ Sub(e', r) = Sub(e, r) + 1 /\ UNCHANGED r
         /\ buf' = [buf EXCEPT ![Slot(e)] = top[c].ch] /\ top[c].ch \in Char
         /\ Slot(e) \in 0 .. INPUT_BUF_SIZE - 1 /\ buf'[Slot(r + Sub(e, r))] = top[c].ch
         /\ \A i \in Nat : i < Sub(e, r) => buf'[Slot(r + i)] = buf[Slot(r + i)]
<1>0. CoreInv /\ RingInv
  BY DEF Inv, CoreInv
<1>1. /\ top[c].pc = "c_store" /\ top[c].ch \in Char /\ e' = Inc(e) /\ UNCHANGED r
      /\ buf' = [buf EXCEPT ![Slot(e)] = top[c].ch]
  BY <1>0, StoreCore, Running DEF Store
<1>2. Room
  BY <1>0, <1>1 DEF RingInv, Storing
<1>3. /\ r \in Index /\ e \in Index /\ r \in Int /\ e \in Int /\ Sub(e, r) \in Nat
      /\ Sub(e, r) < INPUT_BUF_SIZE /\ Sub(e, r) < Wrap - 1 /\ INPUT_BUF_SIZE \in Int
  BY <1>0, <1>2, Ring, Sizes DEF Room, Index
<1>4. e' \in Index /\ Sub(e', r) = Sub(e, r) + 1
  BY <1>1, <1>3, IncIs, Moves
<1>5. Slot(r + Sub(e, r)) = Slot(e) /\ Slot(e) \in 0 .. INPUT_BUF_SIZE - 1
  <2>1. Slot(r + Sub(e, r) + 0) = Slot(e + 0)
    BY <1>3, SlotFrom
  <2>2. r + Sub(e, r) + 0 = r + Sub(e, r) /\ e + 0 = e
    BY <1>3
  <2> QED
    BY <1>3, <2>1, <2>2, SlotWrap
<1>6. buf \in [0 .. INPUT_BUF_SIZE - 1 -> Char \union {"nul"}]
  BY <1>0 DEF RingInv
<1>7. ASSUME NEW i \in Nat, i < Sub(e, r)
      PROVE  buf'[Slot(r + i)] = buf[Slot(r + i)]
  <2>1. Slot(r + i) # Slot(r + Sub(e, r))
    <3> DEFINE n == Sub(e, r)
    <3>1. n \in Int /\ i \in Int /\ i < n /\ n < i + INPUT_BUF_SIZE /\ r \in Int
      BY <1>3, <1>7
    <3> HIDE DEF n
    <3>2. Slot(r + i) # Slot(r + n)
      BY <3>1, SlotApart
    <3> QED
      BY <3>2 DEF n
  <2>2. Slot(r + i) \in 0 .. INPUT_BUF_SIZE - 1
    BY <1>0, <1>7, Ring
  <2> QED
    BY <1>1, <1>5, <1>6, <2>1, <2>2
<1>8. buf'[Slot(e)] = top[c].ch
  BY <1>1, <1>5, <1>6
<1> QED
  BY <1>1, <1>2, <1>4, <1>5, <1>7, <1>8

\* The readers that sleep are woken when w moves.
LEMMA StoreData ==
  ASSUME Inv, NEW c \in Cpu, HandlerStay, Store(c)
  PROVE  DataInv' /\ ReadsSame
<1>0. CoreInv /\ StackInv /\ DataInv /\ RingInv
  BY DEF Inv, CoreInv, DataInv
<1> DEFINE f == [Frame EXCEPT !.pc = "rx"]
<1>1. /\ depth[c] = 2 /\ top[c].pc = "c_store" /\ top[c].ch \in Char
      /\ IF Given(top[c].ch) THEN w' = Inc(e) /\ Wakes(c, "r_asleep", "r_woken", "rx")
                             ELSE w' = w /\ Sets(c, f)
      /\ UNCHANGED <<uart, r>> /\ e' = Inc(e)
  BY <1>0, StoreCore DEF Store
<1>2. f.pc = "rx"
  BY Fresh DEF Labels
<1> HIDE DEF f
<1>3. /\ NoPutc /\ NoStoring /\ IsrStays /\ NoSleeper /\ ReadsStay /\ ReadsSame
      /\ w' # w => \A d \in Cpu : proc'[d].pc # "r_asleep"
  <2>1. CASE Given(top[c].ch)
    BY <1>0, <1>1, <2>1, WakesCalm
  <2>2. CASE ~Given(top[c].ch)
    BY <1>0, <1>1, <1>2, <2>2, SetsCalm DEF Storing
  <2> QED
    BY <2>1, <2>2
<1>4. \A d \in Cpu : ~Storing(top'[d])
  <2>1. \A d \in Cpu : d # c => ~Storing(top[d])
    <3> SUFFICES ASSUME NEW d \in Cpu, d # c, Storing(top[d])
                 PROVE  FALSE
      OBVIOUS
    <3>1. depth[d] = 2
      BY <1>0, Running DEF ProcFrame, Resting, Printing, Storing
    <3> QED
      BY <1>0, <1>1, <3>1 DEF StackInv
  <2>2. top'[c].pc = "rx"
    <3>1. CASE Given(top[c].ch)
      BY <1>1, <3>1, Fresh DEF Wakes, Labels
    <3>2. CASE ~Given(top[c].ch)
      BY <1>0, <1>1, <1>2, <3>2, Stacks DEF Sets
    <3> QED
      BY <3>1, <3>2
  <2> QED
    BY <1>3, <2>1, <2>2 DEF NoStoring, Storing
<1>5. RingInv'
  <2> DEFINE b == buf'
  <2> DEFINE n == Sub(e, r)
  <2>1. /\ Room /\ e' \in Index /\ Sub(e', r) = n + 1 /\ UNCHANGED r
        /\ b = [buf EXCEPT ![Slot(e)] = top[c].ch]
        /\ Slot(e) \in 0 .. INPUT_BUF_SIZE - 1 /\ b[Slot(r + n)] = top[c].ch
        /\ \A i \in Nat : i < n => b[Slot(r + i)] = buf[Slot(r + i)]
    BY StoreRing
  <2>2. /\ r \in Index /\ w \in Index /\ Sub(w, r) <= n /\ n \in Nat /\ n < INPUT_BUF_SIZE
        /\ Sub(w, r) \in Nat /\ INPUT_BUF_SIZE \in Int
        /\ \A i \in Nat : i < n => buf[Slot(r + i)] \in Char
    BY <1>0, <2>1, Ring, Sizes DEF Room
  <2>3. b \in [0 .. INPUT_BUF_SIZE - 1 -> Char \union {"nul"}]
    BY <1>0, <1>1, <2>1 DEF RingInv
  <2> HIDE DEF b, n
  <2>4. \A i \in 0 .. INPUT_BUF_SIZE - 1 : i < n + 1 => b[Slot(r + i)] \in Char
    <3> SUFFICES ASSUME NEW i \in 0 .. INPUT_BUF_SIZE - 1, i < n + 1
                 PROVE  b[Slot(r + i)] \in Char
      OBVIOUS
    <3>1. CASE i = n
      BY <1>1, <2>1, <3>1
    <3>2. CASE i # n
      <4>1. i \in Nat /\ i < n
        BY <2>2, <3>2
      <4> QED
        BY <2>1, <2>2, <4>1
    <3> QED
      BY <3>1, <3>2
  <2>5. w' \in Index /\ Sub(w', r) <= Sub(e', r) /\ Sub(e', r) <= INPUT_BUF_SIZE
    <3>1. w' = e' \/ w' = w
      BY <1>1
    <3>2. Sub(e', r) \in Int /\ Sub(w, r) <= Sub(e', r) /\ Sub(e', r) <= INPUT_BUF_SIZE
      BY <2>1, <2>2
    <3> QED
      BY <2>1, <2>2, <3>1, <3>2
  <2> QED
    BY <1>4, <2>1, <2>2, <2>3, <2>4, <2>5 DEF RingInv, Index, b, Sub, Slot
<1>6. SleepInv'
  BY <1>0, <1>1, <1>3 DEF DataInv, SleepInv, IsrStays, NoSleeper, uart
<1>7. rx' \in Seq(Key) /\ UNCHANGED <<tx, txIrq, tx_busy>>
  BY <1>0, <1>1 DEF DataInv, ReadInv, uart
<1> QED
  BY <1>0, <1>3, <1>5, <1>6, <1>7, HandlerSide

\* The first character of the ring is taken.
LEMMA TakeRing ==
  ASSUME RingInv, NoStoring, r # w, r' = Inc(r), UNCHANGED <<buf, w, e>>
  PROVE  /\ RingInv' /\ r' \in Index /\ Sub(w, r') = Sub(w, r) - 1 /\ Sub(e, r') = Sub(e, r) - 1
         /\ buf[Slot(r)] \in Char
<1> DEFINE q == Inc(r)
<1>1. /\ r \in Index /\ w \in Index /\ e \in Index /\ r \in Int /\ INPUT_BUF_SIZE \in Int
      /\ Sub(w, r) \in Nat /\ Sub(e, r) \in Nat /\ Sub(w, r) <= Sub(e, r)
      /\ Sub(e, r) <= INPUT_BUF_SIZE
      /\ \A i \in Nat : i < Sub(e, r) => buf[Slot(r + i)] \in Char
  BY Ring, Sizes DEF Index
<1>2. Sub(w, r) > 0 /\ Sub(e, r) > 0 /\ e # r
  BY <1>1, Ring, SubIs
<1>3. q \in Index /\ Sub(w, q) = Sub(w, r) - 1 /\ Sub(e, q) = Sub(e, r) - 1
  BY <1>1, <1>2, Moves, IncIs
<1>4. \A i \in Nat : i < Sub(e, q) => buf[Slot(q + i)] \in Char
  <2> SUFFICES ASSUME NEW i \in Nat, i < Sub(e, q)
               PROVE  buf[Slot(q + i)] \in Char
    OBVIOUS
  <2>1. Slot(q + i) = Slot(r + (i + 1))
    BY <1>1, SlotFrom
  <2>2. i + 1 \in Nat /\ i + 1 < Sub(e, r)
    BY <1>1, <1>3
  <2> QED
    BY <1>1, <2>1, <2>2
<1>5. buf[Slot(r)] \in Char
  <2>1. r + 0 = r /\ 0 \in Nat /\ 0 < Sub(e, r)
    BY <1>1, <1>2
  <2> QED
    BY <1>1, <2>1
<1> HIDE DEF q
<1>6. q \in 0 .. Wrap - 1 /\ Sub(w, q) <= Sub(e, q) /\ Sub(e, q) < INPUT_BUF_SIZE
      /\ Sub(e, q) <= INPUT_BUF_SIZE
  BY <1>1, <1>3 DEF Index
<1>7. \A i \in 0 .. INPUT_BUF_SIZE - 1 : i < Sub(e, q) => buf[Slot(q + i)] \in Char
  BY <1>1, <1>4
<1>8. r' = q /\ UNCHANGED <<buf, w, e>>
  BY DEF q
<1>9. RingInv'
  BY <1>6, <1>7, <1>8 DEF RingInv, Room, Sub, Slot
<1> QED
  BY <1>3, <1>5, <1>8, <1>9

\* A reader goes on with the frame f, and what it has been given.
LEMMA ReadCounts ==
  ASSUME ReadInv, StackInv, NEW c \in Cpu, depth[c] = 1, NEW f, Sets(c, f),
         NEW s \in Seq(Char), got' = [got EXCEPT ![c] = s], Len(s) <= MaxRead,
         f.pc \in Reading => f.n > 0 /\ f.n + Len(s) <= MaxRead,
         InputTyped
  PROVE  ReadInv'
<1>1. got \in [Cpu -> Seq(Char)] /\ proc \in [Cpu -> Frames]
  BY Stacks DEF ReadInv
<1>2. proc'[c] = f /\ \A d \in Cpu : d # c => proc'[d] = proc[d]
  BY <1>1 DEF Sets
<1>3. got' \in [Cpu -> Seq(Char)] /\ got'[c] = s /\ \A d \in Cpu : d # c => got'[d] = got[d]
  BY <1>1
<1> DEFINE len == [d \in Cpu |-> Len(got'[d])]
<1>4. \A d \in Cpu : len[d] = Len(got'[d]) /\ (d # c => len[d] = Len(got[d]))
  BY <1>3
<1>5. len[c] = Len(s)
  BY <1>3
<1>6. ASSUME NEW d \in Cpu
      PROVE  /\ len[d] <= MaxRead
             /\ proc'[d].pc \in Reading => proc'[d].n > 0 /\ proc'[d].n + len[d] <= MaxRead
  <2> HIDE DEF len
  <2>1. CASE d = c
    BY <1>2, <1>5, <2>1
  <2>2. CASE d # c
    BY <1>2, <1>4, <2>2 DEF ReadInv
  <2> QED
    BY <2>1, <2>2
<1> HIDE DEF len
<1> QED
  BY <1>3, <1>4, <1>6 DEF ReadInv, InputTyped

\* What consoleread leaves alone.
ReadStay == UNCHANGED <<killed, bounds>>

\* Reads that take nothing.
LEMMA WaitData ==
  ASSUME Inv, NEW c \in Cpu, ReadStay, ReadAgain(c) \/ ReadSleep(c) \/ ReadKilled(c)
  PROVE  DataInv' /\ (~ReadKilled(c) => ReadsSame)
<1>0. CoreInv /\ StackInv /\ DataInv /\ top[c] \in Frames
  BY Running DEF Inv, CoreInv, DataInv
<1>1. DataStays /\ UNCHANGED uart
  BY DEF ReadAgain, ReadSleep, ReadKilled, DataStays, uart
<1>2. InputTyped
  BY <1>0, <1>1 DEF DataInv, ReadInv, InputTyped, ReadStay, bounds, uart
<1>3. CASE ReadAgain(c)
  <2> DEFINE f == [top[c] EXCEPT !.pc = "r"]
  <2>1. Sets(c, f) /\ top[c].pc = "r_woken"
    BY <1>0, <1>3, ReadAgainCore
  <2>2. f.pc = "r" /\ f.n = top[c].n
    BY <1>0, Moved DEF Labels
  <2> HIDE DEF f
  <2>3. NoPutc /\ NoStoring /\ IsrStays /\ NoSleeper /\ ReadsStay /\ ReadsSame
    BY <1>0, <2>1, <2>2, SetsCalm DEF Storing, Reading
  <2> QED
    BY <1>0, <1>1, <1>2, <2>3, DataQuiet
<1>4. CASE ReadSleep(c)
  <2> DEFINE f == [top[c] EXCEPT !.pc = "r_asleep"]
  <2>1. Sets(c, f) /\ top[c].pc = "r" /\ depth[c] = 1 /\ r = w
    BY <1>0, <1>4, ReadSleepCore DEF ReadSleep
  <2>2. f.pc = "r_asleep" /\ f.n = top[c].n
    BY <1>0, Moved DEF Labels
  <2> HIDE DEF f
  <2>3. NoPutc /\ NoStoring /\ IsrStays /\ ReadsStay /\ ReadsSame
    BY <1>0, <2>1, <2>2, SetsCalm DEF Storing, Reading
  <2>4. \A d \in Cpu : proc'[d].pc = "w_asleep" => proc[d].pc = "w_asleep"
    BY <1>0, <2>1, <2>2, Stacks DEF Sets
  <2>5. SleepInv'
    BY <1>0, <1>1, <2>1, <2>3, <2>4 DEF DataInv, SleepInv, IsrStays, DataStays, cons
  <2> QED
    BY <1>0, <1>1, <1>2, <2>3, <2>5, TxQuiet, RingQuiet, ReadQuiet
       DEF DataInv, DataStays, InputTyped, TxInv
<1>5. CASE ReadKilled(c)
  <2>1. At(c, "r") /\ Release(c, "cons") /\ Set(c, Frame) /\ claimed' = claimed
    BY <1>5 DEF ReadKilled, uart
  <2>2. Sets(c, Frame) /\ top[c].pc = "r" /\ Frame.pc = "user"
    BY <1>0, <2>1, ReadEndCore DEF Frame
  <2>3. NoPutc /\ NoStoring /\ IsrStays /\ NoSleeper /\ ReadsStay
    BY <1>0, <2>2, SetsCalm DEF Storing, Reading
  <2> QED
    BY <1>0, <1>1, <1>2, <1>5, <2>3, DataQuiet
<1> QED
  BY <1>3, <1>4, <1>5

\* Where a read takes a character, nobody sleeps.
LEMMA TakeSleep ==
  ASSUME SleepInv, r # w, IsrStays, NoSleeper, UNCHANGED uart
  PROVE  SleepInv'
BY DEF SleepInv, IsrStays, NoSleeper, uart

\* Reads that end with what they have: the end of a file, or a fault.
LEMMA EndData ==
  ASSUME Inv, NEW c \in Cpu, ReadStay, ReadEof(c) \/ ReadFault(c)
  PROVE  DataInv'
<1>0. CoreInv /\ StackInv /\ DataInv /\ RingInv
  BY DEF Inv, CoreInv, DataInv
<1>1. /\ At(c, "r") /\ Release(c, "cons") /\ Set(c, Frame) /\ claimed' = claimed
      /\ UNCHANGED <<uart, buf, w, e, got>> /\ r # w /\ (r' = Inc(r) \/ r' = r)
  BY DEF ReadEof, ReadFault, uart
<1>2. Sets(c, Frame) /\ top[c].pc = "r" /\ Frame.pc = "user"
  BY <1>0, <1>1, ReadEndCore DEF Frame
<1>3. NoPutc /\ NoStoring /\ IsrStays /\ NoSleeper /\ ReadsStay
  BY <1>0, <1>2, SetsCalm DEF Storing, Reading
<1>4. InputTyped
  BY <1>0, <1>1 DEF DataInv, ReadInv, InputTyped, ReadStay, bounds, uart
<1>5. RingInv'
  BY <1>0, <1>1, <1>3, TakeRing, RingQuiet DEF cons
<1>6. ReadInv' /\ SleepInv'
  BY <1>0, <1>1, <1>3, <1>4, ReadQuiet, TakeSleep DEF DataInv, InputTyped
<1> QED
  BY <1>0, <1>1, <1>3, <1>5, <1>6, ConsSide DEF uart

\* A read takes a character.
LEMMA ByteData ==
  ASSUME Inv, NEW c \in Cpu, ReadStay, ReadByte(c)
  PROVE  DataInv'
<1>0. CoreInv /\ StackInv /\ DataInv /\ RingInv /\ ReadInv /\ top[c] \in Frames
  BY Running DEF Inv, CoreInv, DataInv
<1> DEFINE ch == buf[Slot(r)]
<1> DEFINE g == [top[c] EXCEPT !.n = top[c].n - 1]
<1> DEFINE s == Append(got[c], ch)
<1>1. /\ At(c, "r") /\ r # w /\ r' = Inc(r) /\ got' = [got EXCEPT ![c] = s]
      /\ UNCHANGED <<uart, buf, w, e>>
      /\ IF ch = "nl" \/ top[c].n = 1 THEN Release(c, "cons") /\ Set(c, Frame)
                                      ELSE Locked(c, "cons") /\ Set(c, g)
  BY <1>0, Running DEF ReadByte
<1>2. g \in Frames /\ g.pc = top[c].pc /\ g.n = top[c].n - 1
  <2> DEFINE k == top[c].n - 1
  <2>1. k \in Int
    BY <1>0 DEF Frames
  <2> HIDE DEF k
  <2> QED
    BY <1>0, <2>1 DEF Frames, k
<1>3. PICK f : /\ Sets(c, f) /\ depth[c] = 1 /\ top[c].pc = "r"
               /\ f.pc \in {"user", "r"}
               /\ f.pc = "r" => f.n = top[c].n - 1 /\ top[c].n # 1
  <2>0. claimed' = claimed
    BY <1>1 DEF uart
  <2>1. CASE ch = "nl" \/ top[c].n = 1
    <3>1. Sets(c, Frame) /\ depth[c] = 1 /\ top[c].pc = "r" /\ Frame.pc = "user"
      BY <1>0, <1>1, <2>0, <2>1, ReadEndCore DEF Frame
    <3> QED
      BY <3>1
  <2>2. CASE ~(ch = "nl" \/ top[c].n = 1)
    <3>1. Sets(c, g) /\ depth[c] = 1 /\ top[c].pc = "r"
      BY <1>0, <1>1, <2>0, <2>2, ReadMoreCore
    <3> QED
      BY <1>2, <2>2, <3>1
  <2> QED
    BY <2>1, <2>2
<1>4. NoPutc /\ NoStoring /\ IsrStays /\ NoSleeper
  BY <1>0, <1>3, SetsCalm DEF Storing
<1>5. InputTyped
  BY <1>0, <1>1 DEF ReadInv, InputTyped, ReadStay, bounds, uart
<1>6. RingInv' /\ ch \in Char
  BY <1>0, <1>1, <1>4, TakeRing
<1>7. s \in Seq(Char) /\ Len(s) = Len(got[c]) + 1 /\ Len(got[c]) \in Nat
  <2> HIDE DEF ch
  <2>1. got[c] \in Seq(Char)
    BY <1>0 DEF ReadInv
  <2>2. Append(got[c], ch) \in Seq(Char) /\ Len(Append(got[c], ch)) = Len(got[c]) + 1
    BY Zenon, <1>6, <2>1, AppendProperties
  <2> QED
    BY <2>1, <2>2
<1>8. top[c].n \in Int /\ top[c].n > 0 /\ top[c].n + Len(got[c]) <= MaxRead /\ MaxRead \in Nat
  <2>1. proc[c] = top[c]
    BY <1>0, <1>3, Running
  <2> QED
    BY <1>0, <1>3, <2>1, Sizes DEF ReadInv, Reading, Frames
<1> DEFINE k == Len(s)
<1>9. k <= MaxRead /\ (f.pc \in Reading => f.n > 0 /\ f.n + k <= MaxRead)
  <2>1. k = Len(got[c]) + 1
    BY <1>7
  <2> HIDE DEF k
  <2>2. f.pc \in Reading => f.pc = "r"
    BY <1>3 DEF Reading
  <2> QED
    BY <1>3, <1>7, <1>8, <2>1, <2>2
<1>10. got' = [got EXCEPT ![c] = s]
  BY <1>1
<1> HIDE DEF s, ch
<1>11. ReadInv'
  BY <1>0, <1>3, <1>5, <1>7, <1>9, <1>10, ReadCounts
<1>12. SleepInv'
  BY <1>0, <1>1, <1>4, TakeSleep DEF DataInv
<1> QED
  BY <1>0, <1>1, <1>4, <1>6, <1>11, <1>12, ConsSide DEF uart

\* A read begins.
LEMMA ReadCallData ==
  ASSUME Inv, NEW c \in Cpu, NEW n \in 1 .. MaxRead, ReadCall(c, n), top[c].pc = "user",
         UNCHANGED <<cons, killed, input>>
  PROVE  DataInv'
<1>0. CoreInv /\ StackInv /\ DataInv /\ ReadInv /\ MaxRead \in Nat
  BY Sizes DEF Inv, CoreInv, DataInv
<1>1. Sets(c, ReadFrame(n)) /\ depth[c] = 1
  BY <1>0, ReadCallCore
<1>2. UNCHANGED uart /\ got' = [got EXCEPT ![c] = <<>>]
  BY DEF ReadCall
<1>3. ReadFrame(n).pc = "r" /\ ReadFrame(n).n = n
  BY DEF ReadFrame, Frame
<1>4. NoPutc /\ NoStoring /\ IsrStays /\ NoSleeper
  BY <1>0, <1>1, <1>3, SetsCalm DEF Storing
<1>5. InputTyped
  BY <1>0, <1>2 DEF ReadInv, InputTyped, uart
<1> DEFINE s == <<>>
<1>6. s \in Seq(Char) /\ Len(s) = 0 /\ got' = [got EXCEPT ![c] = s]
  BY <1>2
<1> HIDE DEF s
<1>7. n > 0 /\ n + Len(s) <= MaxRead /\ Len(s) <= MaxRead
  BY <1>0, <1>6
<1>8. ReadInv'
  BY <1>0, <1>1, <1>3, <1>5, <1>6, <1>7, ReadCounts
<1>9. RingInv' /\ SleepInv'
  BY <1>0, <1>2, <1>4, RingQuiet, SleepQuiet DEF DataInv, uart, cons
<1> QED
  BY <1>0, <1>2, <1>4, <1>8, <1>9, ConsSide DEF uart

\* A write begins.
LEMMA WriteCallData ==
  ASSUME Inv, NEW c \in Cpu, NEW n \in 1 .. MaxWrite, WriteChunk(c, n), top[c].pc = "user",
         UNCHANGED <<cons, got, killed, input>>
  PROVE  DataInv' /\ ReadsSame
<1>0. CoreInv /\ StackInv /\ DataInv /\ ReadInv
  BY DEF Inv, CoreInv, DataInv
<1>1. Sets(c, WriteFrame(n)) /\ WriteFrame(n).pc = "w" /\ UNCHANGED uart
  <2>1. n \in Int
    BY UartAssumption
  <2> QED
    BY <1>0, <2>1, WriteChunkCore DEF Resting, WriteChunk
<1>2. NoPutc /\ NoStoring /\ IsrStays /\ NoSleeper /\ ReadsStay /\ ReadsSame
  BY <1>0, <1>1, SetsCalm DEF Storing, Reading
<1>3. InputTyped /\ DataStays
  BY <1>0, <1>1 DEF ReadInv, InputTyped, DataStays, uart
<1> QED
  BY <1>0, <1>2, <1>3, DataQuiet

\* A kill leaves everything alone but a sleep.
LEMMA KillData ==
  ASSUME Inv, NEW c \in Cpu, Kill(c)
  PROVE  DataInv' /\ ReadsSame
<1> DEFINE f == KilledFrame(proc[c])
<1>0. CoreInv /\ StackInv /\ DataInv /\ ReadInv
  BY DEF Inv, CoreInv, DataInv
<1>1. /\ top' = (IF depth[c] = 1 THEN [top EXCEPT ![c] = f] ELSE top)
      /\ proc' = [proc EXCEPT ![c] = f]
  BY <1>0, KillCore
<1>2. /\ depth \in [Cpu -> 1 .. 2] /\ top \in [Cpu -> Frames] /\ proc \in [Cpu -> Frames]
      /\ (depth[c] = 1 => top[c] = proc[c])
  BY <1>0, Stacks
<1>3. /\ f = proc[c] \/ (/\ proc[c].pc \in {"r_asleep", "w_asleep"}
                         /\ f.pc \in {"r_woken", "w_woken"})
      /\ f.n = proc[c].n /\ f.pc \notin {"r_asleep", "w_asleep"}
      /\ (proc[c].pc = "r_asleep" => f.pc = "r_woken")
      /\ (proc[c].pc = "w_asleep" => f.pc = "w_woken")
  BY <1>2, KilledType
<1> HIDE DEF f
<1>4. /\ proc'[c] = f /\ \A d \in Cpu : d # c => proc'[d] = proc[d] /\ top'[d] = top[d]
      /\ top'[c] = IF depth[c] = 1 THEN f ELSE top[c]
  BY <1>1, <1>2
<1>5. NoPutc /\ NoStoring /\ IsrStays
  BY <1>2, <1>3, <1>4 DEF NoPutc, NoStoring, Storing, IsrStays
<1>6. NoSleeper /\ ReadsStay /\ ReadsSame
  BY <1>3, <1>4 DEF NoSleeper, ReadsStay, ReadsSame, Reading
<1>7. InputTyped
  <2>1. killed' \in [Cpu -> BOOLEAN]
    BY <1>0 DEF Kill, ReadInv
  <2> QED
    BY <1>0, <2>1 DEF Kill, ReadInv, InputTyped, uart
<1>8. DataStays
  BY DEF Kill, DataStays, uart
<1> QED
  BY <1>0, <1>5, <1>6, <1>7, <1>8, DataQuiet

\* A key is typed.
LEMMA TypedData ==
  ASSUME Inv, Typed
  PROVE  DataInv' /\ ReadsSame
<1>0. DataInv /\ ReadInv
  BY DEF Inv, DataInv
<1>1. top' = top /\ proc' = proc /\ DataStays
  BY DEF Typed, top, proc, Top, Proc, DataStays
<1>2. NoPutc /\ NoStoring /\ IsrStays /\ NoSleeper /\ ReadsStay /\ ReadsSame
  BY <1>1 DEF NoPutc, NoStoring, IsrStays, NoSleeper, ReadsStay, ReadsSame
<1>3. InputTyped
  <2>1. /\ rx \in Seq(Key) /\ input \in Seq(Key) /\ input # <<>> /\ UNCHANGED killed
        /\ rx' = Append(rx, Head(input)) /\ input' = Tail(input) /\ killed \in [Cpu -> BOOLEAN]
    BY <1>0 DEF Typed, ReadInv
  <2>2. Head(input) \in Key /\ Tail(input) \in Seq(Key)
    BY <2>1, HeadTailProperties
  <2>3. Append(rx, Head(input)) \in Seq(Key)
    BY Zenon, <2>1, <2>2, AppendProperties
  <2> QED
    BY <2>1, <2>2, <2>3 DEF InputTyped
<1> QED
  BY <1>0, <1>1, <1>2, <1>3, DataQuiet

-----------------------------------------------------------------------------
(* The invariant. *)

\* Nothing runs.
Idle == \A c \in Cpu : depth[c] = 1 /\ top[c] = Frame /\ proc[c] = Frame

\* At the start nothing runs, no lock is held and interrupts are on.
LEMMA EmptyCore ==
  ASSUME Idle, run \in [Cpu -> Seq(Frames)], claimed = FALSE, panicked = FALSE,
         cpu = [c \in Cpu |-> [ie |-> TRUE, noff |-> 0, intena |-> FALSE]],
         owner = [l \in Lock |-> None]
  PROVE  CoreInv
<1>1. Frame \in Frames /\ Frame.pc = "user"
  BY FrameType DEF Frame
<1>2. StackInv
  <2>1. \A c \in Cpu : depth[c] = 1 /\ top[c].pc = "user"
    BY <1>1 DEF Idle
  <2>2. ASSUME NEW c \in Cpu PROVE StackOf(c) /\ depth[c] # 2
    <3>1. depth[c] = 1 /\ depth[c] # 2 /\ top[c].pc \in Resting
      BY <2>1 DEF Resting
    <3> QED
      BY <3>1 DEF StackOf, ProcFrame
  <2> QED
    BY <2>2 DEF StackInv
<1>3. MaskInv
  <2> DEFINE x == [ie |-> TRUE, noff |-> 0, intena |-> FALSE]
  <2>1. x \in Cpus /\ x.ie /\ x.noff = 0
    BY DEF Cpus
  <2>x. cpu = [c \in Cpu |-> x]
    OBVIOUS
  <2> HIDE DEF x
  <2>2. \A c \in Cpu : cpu[c] = x
    BY <2>x
  <2>3. cpu \in [Cpu -> Cpus]
    BY <2>1, <2>x
  <2>4. ASSUME NEW c \in Cpu PROVE MaskOf(c)
    <3>1. Pushed(Frame) = 0 /\ depth[c] = 1 /\ top[c] = Frame
      BY <1>1 DEF Pushed, Resting, Idle
    <3>2. cpu[c].noff = 0 /\ cpu[c].ie
      BY <2>1, <2>2
    <3> QED
      BY <3>1, <3>2 DEF MaskOf, Nested
  <2> QED
    BY <2>3, <2>4 DEF MaskInv, Cpus
<1>4. OwnInv
  <2>1. \A l \in Lock : owner[l] = None
    OBVIOUS
  <2>2. ASSUME NEW c \in Cpu PROVE LocksOf(c)
    <3>1. c # None /\ Lock = {"tx", "cons", "pr"} /\ depth[c] = 1 /\ top[c].pc = "user"
      BY <1>1, SpinlockAssumption, ConsoleAssumption DEF Idle
    <3>2. owner["tx"] # c /\ owner["cons"] # c /\ owner["pr"] # c
      BY <2>1, <3>1
    <3> QED
      BY <3>1, <3>2 DEF LocksOf, MayTx, MayCons, MustCons, HasPr
  <2> QED
    BY <2>2 DEF OwnInv
<1> QED
  BY <1>2, <1>3, <1>4 DEF CoreInv

\* The first stack.
LEMMA FirstStack == <<Frame>> \in Seq(Frames)
BY FrameType

\* And the ring is empty.
LEMMA EmptyRing ==
  ASSUME Idle, buf = [i \in 0 .. INPUT_BUF_SIZE - 1 |-> "nul"], r = Start % Wrap, w = r, e = r
  PROVE  RingInv
<1>1. r \in Index
  <2>1. Start \in Int /\ Wrap \in Int /\ Wrap > 0
    BY Sizes, ConsoleAssumption
  <2>2. Start % Wrap \in 0 .. Wrap - 1
    BY <2>1, ModNear
  <2> QED
    BY <2>2 DEF Index
<1>2. Sub(e, r) = 0 /\ Sub(w, r) = 0
  BY <1>1, SubIs
<1>3. \A i \in 0 .. INPUT_BUF_SIZE - 1 : ~(i < Sub(e, r))
  BY <1>2, Sizes
<1>4. buf \in [0 .. INPUT_BUF_SIZE - 1 -> Char \union {"nul"}]
  OBVIOUS
<1>5. \A c \in Cpu : ~Storing(top[c])
  <2>1. Frame.pc = "user"
    BY DEF Frame
  <2> QED
    BY <2>1 DEF Storing, Idle
<1>6. Sub(w, r) <= Sub(e, r) /\ Sub(e, r) <= INPUT_BUF_SIZE
  BY <1>2, Sizes
<1> QED
  BY <1>1, <1>3, <1>4, <1>5, <1>6 DEF RingInv, Index

\* And so is the FIFO, and the readers have nothing.
LEMMA EmptyData ==
  ASSUME Idle, tx \in Seq(Sources), Len(tx) = 0, txIrq = FALSE, rx \in Seq(Key), tx_busy = FALSE,
         got \in [Cpu -> Seq(Char)], \A c \in Cpu : got[c] = <<>>,
         killed = [c \in Cpu |-> FALSE], input \in Input
  PROVE  TxInv /\ ReadInv /\ SleepInv
<1>1. \A c \in Cpu : top[c].pc = "user" /\ proc[c].pc = "user"
  <2>1. Frame.pc = "user"
    BY DEF Frame
  <2> QED
    BY <2>1 DEF Idle
<1>2. TxInv
  <2>1. \A x \in 1 .. Len(tx) : FALSE
    OBVIOUS
  <2> QED
    BY <1>1, <2>1 DEF TxInv, OnePerSource
<1>3. SleepInv
  BY <1>1 DEF SleepInv
<1>4. ReadInv
  <2>1. input \in Seq(Key) /\ killed \in [Cpu -> BOOLEAN]
    BY ConsoleAssumption
  <2>2. ASSUME NEW c \in Cpu PROVE Len(got[c]) <= MaxRead
    <3>1. Len(<<>>) = 0 /\ got[c] = <<>>
      OBVIOUS
    <3>2. 0 <= MaxRead
      BY Sizes
    <3> QED
      BY <3>1, <3>2, Zenon
  <2> QED
    BY <1>1, <2>1, <2>2 DEF ReadInv, Reading
<1> QED
  BY <1>2, <1>3, <1>4

\* The initial states.
LEMMA InitInv == Init => Inv
<1> SUFFICES ASSUME Init PROVE Inv
  OBVIOUS
<1>1. /\ run = [c \in Cpu |-> <<Frame>>] /\ claimed = FALSE /\ panicked = FALSE
      /\ tx = <<>> /\ txIrq = FALSE /\ rx = <<>> /\ tx_busy = FALSE
  BY Zenon DEF Init, LInit, UInit
<1>2. /\ cpu = [c \in Cpu |-> [ie |-> TRUE, noff |-> 0, intena |-> FALSE]]
      /\ owner = [l \in Lock |-> None]
  BY Zenon DEF Init, LInit
<1>3. /\ buf = [i \in 0 .. INPUT_BUF_SIZE - 1 |-> "nul"]
      /\ r = Start % Wrap /\ w = r /\ e = r
      /\ got = [c \in Cpu |-> <<>>] /\ killed = [c \in Cpu |-> FALSE] /\ input \in Input
  BY Zenon DEF Init
<1>4. Idle
  BY Zenon, <1>1 DEF Idle, depth, top, proc, Top, Proc
<1>5. run \in [Cpu -> Seq(Frames)]
  BY Zenon, <1>1, FirstStack
<1>6. /\ tx \in Seq(Sources) /\ Len(tx) = 0 /\ rx \in Seq(Key)
      /\ got \in [Cpu -> Seq(Char)] /\ \A c \in Cpu : got[c] = <<>>
  BY Zenon, <1>1, <1>3, EmptySeq
<1> QED
  BY Zenon, <1>1, <1>2, <1>3, <1>4, <1>5, <1>6, EmptyCore, EmptyRing, EmptyData DEF Inv, CoreInv

\* Every step keeps what is known of the driver, the ring and the readers.
LEMMA DataStep ==
  ASSUME Inv, [Next]_vars
  PROVE  DataInv'
<1>1. ASSUME NEW c \in Cpu, Step(c) PROVE DataInv'
  <2>1. CASE (PutIdle(c) \/ PutChar(c) \/ Printf(c) \/ Write(c) \/ Isr(c)) /\ ConsStay
    BY <2>1, PutIdleData, PutCharData, PrintData, WriteData, TxDoneData, CompleteData DEF Isr
  <2>2. CASE Consoleintr(c) /\ HandlerStay
    <3>1. CASE DumpPrint(c)
      <4>1. top[c].pc = "c_dump" /\ PrintAcquire(c, "c_end") /\ ConsStay
        BY <2>2, <3>1, Running DEF Inv, CoreInv, DumpPrint, At, ConsStay, HandlerStay
      <4> QED
        BY <4>1, PrintData
    <3> QED
      BY <2>2, <3>1, CalmData, EraseData, EchoData, StoreData DEF Consoleintr
  <2>3. CASE Read(c) /\ ReadStay
    BY <2>3, WaitData, EndData, ByteData DEF Read
  <2>4. UNCHANGED <<killed, bounds>>
    BY <1>1 DEF Step
  <2> QED
    BY <1>1, <2>1, <2>2, <2>3, <2>4 DEF Step, ConsStay, HandlerStay, ReadStay
<1>2. ASSUME NEW c \in Cpu, Call(c) PROVE DataInv'
  <2>1. top[c].pc = "user" /\ UNCHANGED <<cons, killed, input>>
    BY <1>2, Running DEF Inv, CoreInv, Call, At
  <2>2. ASSUME NEW n \in 1 .. MaxRead, ReadCall(c, n) PROVE DataInv'
    BY <2>1, <2>2, ReadCallData
  <2>3. ASSUME NEW n \in 1 .. MaxWrite, WriteChunk(c, n), UNCHANGED got PROVE DataInv'
    BY <2>1, <2>3, WriteCallData
  <2>4. CASE PrintAcquire(c, "user") /\ UNCHANGED got
    BY <2>1, <2>4, PrintData
  <2> QED
    BY <1>2, <2>2, <2>3, <2>4 DEF Call
<1>3. CASE Transmit /\ Others
  BY <1>3, TransmitData DEF Others, ConsStay
<1>4. ASSUME NEW c \in Cpu, Interrupt(c), Others PROVE DataInv'
  BY <1>4, InterruptData DEF Others, ConsStay
<1>5. CASE UNCHANGED vars
  <2>1. top' = top /\ proc' = proc /\ DataStays
    BY <1>5 DEF vars, uvars, uart, top, proc, Top, Proc, DataStays
  <2>2. NoPutc /\ NoStoring /\ IsrStays /\ NoSleeper /\ ReadsStay
    BY <2>1 DEF NoPutc, NoStoring, IsrStays, NoSleeper, ReadsStay
  <2>3. InputTyped
    BY <1>5 DEF Inv, ReadInv, InputTyped, vars, uvars, uart, bounds
  <2> QED
    BY <2>1, <2>2, <2>3, DataQuiet DEF Inv, DataInv
<1> QED
  BY <1>1, <1>2, <1>3, <1>4, <1>5, KillData, TypedData DEF Next

\* The invariant is inductive.
LEMMA NextInv ==
  ASSUME Inv, [Next]_vars
  PROVE  Inv'
<1>1. CoreInv'
  BY CoreStep DEF Inv, CoreInv, ReadInv
<1>2. DataInv'
  BY DataStep
<1> QED
  BY <1>1, <1>2 DEF CoreInv, DataInv, Inv

\* What runs on the CPUs, the locks they have, and what the driver and the
\* console rely on: the inductive invariant.
THEOREM InvHolds == Spec => []Inv
<1>1. Init => Inv
  BY InitInv
<1>2. Inv /\ [Next]_vars => Inv'
  BY NextInv
<1> QED
  BY <1>1, <1>2, PTL DEF Spec

\* The invariant, of the kernel stacks themselves.
LEMMA InvImplies ==
  ASSUME Inv
  PROVE  TypeOK /\ LocksMask /\ OnePerSource /\ NobodyForgotten
<1>0. CoreInv /\ StackInv /\ RingInv /\ TxInv
  BY DEF Inv, CoreInv
<1>1. \A c \in Cpu : /\ depth[c] = Len(run[c]) /\ depth[c] \in 1 .. 2
                     /\ top[c] = Top(c) /\ proc[c] = Proc(c)
  BY <1>0, Stacks
<1>2. TypeOK
  <2>1. cpu \in [Cpu -> [ie : BOOLEAN, noff : 0 .. 3, intena : BOOLEAN]]
    <3>1. cpu \in [Cpu -> Cpus]
      BY <1>0 DEF CoreInv, MaskInv, Cpus
    <3>2. \A c \in Cpu : cpu[c] \in Cpus /\ cpu[c].noff \in 0 .. 3
      BY <1>0, Levels
    <3>3. \A c \in Cpu : cpu[c] \in [ie : BOOLEAN, noff : 0 .. 3, intena : BOOLEAN]
      BY <3>2 DEF Cpus
    <3> QED
      BY <3>1, <3>3
  <2>2. LTypeOK /\ tx_busy \in BOOLEAN /\ claimed \in BOOLEAN /\ txIrq \in BOOLEAN
    BY <1>0, <2>1 DEF LTypeOK, CoreInv, OwnInv, TxInv, StackInv
  <2>3. \A c \in Cpu : Len(run[c]) \in 1 .. 2 /\ Len(got[c]) <= MaxRead
    BY <1>1 DEF Inv, ReadInv
  <2>4. \A c, d \in Cpu : Len(run[c]) = 2 /\ Len(run[d]) = 2 => c = d
    <3>1. \A c, d \in Cpu : depth[c] = 2 /\ depth[d] = 2 => c = d
      BY <1>0 DEF StackInv
    <3> SUFFICES ASSUME NEW c \in Cpu, NEW d \in Cpu, Len(run[c]) = 2, Len(run[d]) = 2
                 PROVE  c = d
      OBVIOUS
    <3>2. depth[c] = 2 /\ depth[d] = 2
      BY <1>1
    <3> QED
      BY <3>1, <3>2
  <2>5. {r, w, e} \subseteq 0 .. Wrap - 1 /\ Sub(w, r) <= Sub(e, r) /\ Sub(e, r) <= INPUT_BUF_SIZE
    BY <1>0 DEF RingInv
  <2> QED
    BY <2>2, <2>3, <2>4, <2>5 DEF TypeOK
<1>3. LocksMask
  <2> SUFFICES ASSUME NEW c \in Cpu
               PROVE  LET held == {l \in Lock : owner[l] = c} IN
                        /\ held # {} => ~cpu[c].ie /\ cpu[c].noff > 0
                        /\ At(c, "user") => held = {} /\ cpu[c].ie /\ cpu[c].noff = 0
    BY <1>0 DEF LocksMask, CoreInv, MaskInv
  <2>1. Lock = {"tx", "cons", "pr"} /\ depth[c] \in {1, 2}
    BY <1>0, Owned, Running
  <2>2. (\E l \in Lock : owner[l] = c) => Level(c) > 0
    <3>1. Level(c) \in 0 .. 3 /\ Level(c) = Deep(top[c], depth[c])
      BY <1>0, Levels DEF Level, Deep, Nested
    <3>2. owner["tx"] = c \/ owner["cons"] = c \/ owner["pr"] = c =>
            top[c].pc \notin Resting \union {"rx"}
      BY <1>0, Running DEF ProcFrame, HandlerFrame, Resting, Printing, Echoing
    <3>3. top[c].pc \notin Resting \union {"rx"} => Pushed(top[c]) > 0
      BY DEF Pushed
    <3>4. Pushed(top[c]) > 0 => Level(c) > 0
      BY DEF Level, Nested, Pushed
    <3> QED
      BY <2>1, <3>2, <3>3, <3>4
  <2>3. top[c].pc = "user" => depth[c] = 1 /\ Level(c) = 0
    BY <1>0, Running DEF HandlerFrame, Printing, Echoing, Level, Nested, Pushed, Resting
  <2>4. At(c, "user") <=> top[c].pc = "user"
    BY <1>1 DEF At
  <2> QED
    BY <1>0, <2>2, <2>3, <2>4, Levels
<1>4. NobodyForgotten
  BY <1>1 DEF Inv, SleepInv, NobodyForgotten, At
<1> QED
  BY <1>0, <1>2, <1>3, <1>4 DEF TxInv

\* The types; the indices of the ring are in order, across their wrap, and one
\* CPU at most runs the handler (console.c, uart.c, spinlock.c).
THEOREM TypeOKHolds == Spec => []TypeOK
BY InvHolds, InvImplies, PTL

\* No check of spinlock.c fails, a CPU that has a lock takes no interrupt, and
\* one that is in user mode has none and takes them (spinlock.c, trap.c).
THEOREM LocksMaskHolds == Spec => []LocksMask
BY InvHolds, InvImplies, PTL

\* The FIFO never has two bytes of one source: uartwrite, the echo and printf,
\* which know nothing of each other, overrun it together at most three deep (uart.c).
THEOREM OnePerSourceHolds == Spec => []OnePerSource
BY InvHolds, InvImplies, PTL

\* No wakeup is lost: a writer sleeps while an interrupt is to come, a reader
\* while no line is complete (uart.c, console.c).
THEOREM NobodyForgottenHolds == Spec => []NobodyForgotten
BY InvHolds, InvImplies, PTL

-----------------------------------------------------------------------------
(* The ring implements the queue of lines. *)

\* Between three indices in order, and the places seen from the first one.
LEMMA Split ==
  ASSUME NEW x \in Index, NEW y \in Index, NEW z \in Index, Sub(y, x) <= Sub(z, x)
  PROVE  /\ Sub(y, x) \in Nat /\ Sub(z, x) \in Nat /\ Sub(z, y) \in Nat
         /\ Sub(z, y) = Sub(z, x) - Sub(y, x)
         /\ \A j \in Int : Slot(y + j) = Slot(x + (Sub(y, x) + j))
<1>1. /\ Wrap \in Int /\ x \in 0 .. Wrap - 1 /\ y \in 0 .. Wrap - 1 /\ z \in 0 .. Wrap - 1
  BY Sizes DEF Index
<1> DEFINE n == Sub(y, x)
<1> DEFINE k == Sub(z, x)
<1> DEFINE m == Sub(z, y)
<1>2. /\ n = IF x <= y THEN y - x ELSE y - x + Wrap
      /\ k = IF x <= z THEN z - x ELSE z - x + Wrap
      /\ m = IF y <= z THEN z - y ELSE z - y + Wrap
      /\ n \in Index /\ k \in Index /\ m \in Index /\ n <= k
  BY SubIs
<1>3. ASSUME NEW j \in Int PROVE Slot(y + j) = Slot(x + (n + j))
  <2>1. Slot(x + Sub(y, x) + j) = Slot(y + j)
    BY <1>3, SlotFrom
  <2>2. x + n + j = x + (n + j)
    <3>1. x \in Int /\ n \in Int
      BY <1>1, <1>2 DEF Index
    <3> HIDE DEF n
    <3> QED
      BY <1>3, <3>1
  <2> QED
    BY <2>1, <2>2
<1> HIDE DEF n, k, m
<1>4. n \in Nat /\ k \in Nat /\ m \in Nat /\ m = k - n
  BY <1>1, <1>2 DEF Index
<1> QED
  BY <1>3, <1>4 DEF n, k, m

\* A function on the first n places is a sequence.
LEMMA Part ==
  ASSUME NEW n \in Nat, NEW l \in [1 .. n -> Char]
  PROVE  l \in Seq(Char) /\ Len(l) = n
OBVIOUS

\* What lies between three indices x, y and z in order, seen from the first one.
LEMMA Places ==
  ASSUME NEW x \in Index, NEW y \in Index, NEW z \in Index, NEW b,
         Sub(y, x) <= Sub(z, x), Sub(z, x) <= INPUT_BUF_SIZE,
         \A i \in Nat : i < Sub(z, x) => b[Slot(x + i)] \in Char
  PROVE  /\ Sub(y, x) \in Nat /\ Sub(z, x) \in Nat /\ Sub(z, y) \in Nat
         /\ Sub(z, y) = Sub(z, x) - Sub(y, x)
         /\ \A i \in 1 .. Sub(y, x) : /\ b[Slot(x + i - 1)] \in Char
                                      /\ b[Slot(x + i - 1)] = b[Slot(x + (i - 1))]
         /\ \A i \in 1 .. Sub(z, y) :
              /\ b[Slot(y + i - 1)] \in Char
              /\ b[Slot(y + i - 1)] = b[Slot(x + (Sub(y, x) + (i - 1)))]
<1> DEFINE n == Sub(y, x)
<1> DEFINE k == Sub(z, x)
<1> DEFINE m == Sub(z, y)
<1>1. /\ n \in Nat /\ k \in Nat /\ m \in Nat /\ m = k - n /\ n <= k
      /\ \A j \in Int : Slot(y + j) = Slot(x + (n + j))
  BY Split
<1>2. x \in Int /\ y \in Int
  BY Sizes DEF Index
<1>3. \A i \in Nat : i < k => b[Slot(x + i)] \in Char
  OBVIOUS
<1> HIDE DEF n, k, m
<1>4. ASSUME NEW i \in 1 .. n
      PROVE  b[Slot(x + i - 1)] \in Char /\ b[Slot(x + i - 1)] = b[Slot(x + (i - 1))]
  <2>1. x + i - 1 = x + (i - 1) /\ i - 1 \in Nat /\ i - 1 < k
    BY <1>1, <1>2
  <2> QED
    BY <1>3, <2>1
<1>5. ASSUME NEW i \in 1 .. m
      PROVE  /\ b[Slot(y + i - 1)] \in Char
             /\ b[Slot(y + i - 1)] = b[Slot(x + (n + (i - 1)))]
  <2>1. y + i - 1 = y + (i - 1) /\ i - 1 \in Int /\ n + (i - 1) \in Nat /\ n + (i - 1) < k
    BY <1>1, <1>2
  <2>2. Slot(y + (i - 1)) = Slot(x + (n + (i - 1)))
    BY <1>1, <2>1
  <2> QED
    BY <1>3, <2>1, <2>2
<1> QED
  BY <1>1, <1>4, <1>5 DEF n, k, m

\* The indices x, y and z are in order, and what they enclose in b has been typed.
Enclosed(x, y, z, b) ==
  /\ x \in Index /\ y \in Index /\ z \in Index
  /\ Sub(y, x) <= Sub(z, x) /\ Sub(z, x) <= INPUT_BUF_SIZE
  /\ \A i \in Nat : i < Sub(z, x) => b[Slot(x + i)] \in Char

\* The sequences l and d, cut out of the ring, and what they are.
Cut(x, y, z, b, l, d) ==
  /\ l = [i \in 1 .. Sub(y, x) |-> b[Slot(x + i - 1)]]
  /\ d = [i \in 1 .. Sub(z, y) |-> b[Slot(y + i - 1)]]

Seen(x, y, z, b, l, d) ==
  /\ l \in Seq(Char) /\ d \in Seq(Char)
  /\ Len(l) = Sub(y, x) /\ Len(d) = Sub(z, x) - Sub(y, x)
  /\ \A i \in 1 .. Sub(y, x) : l[i] = b[Slot(x + (i - 1))]
  /\ \A i \in 1 .. Sub(z, x) - Sub(y, x) : d[i] = b[Slot(x + (Sub(y, x) + (i - 1)))]

\* The two sequences that lie between three indices.
LEMMA ViewOf ==
  ASSUME NEW x, NEW y, NEW z, NEW b, Enclosed(x, y, z, b), NEW l, NEW d, Cut(x, y, z, b, l, d)
  PROVE  Seen(x, y, z, b, l, d)
<1> DEFINE n == Sub(y, x)
<1> DEFINE k == Sub(z, x)
<1> DEFINE m == Sub(z, y)
<1>1. /\ n \in Nat /\ k \in Nat /\ m \in Nat /\ m = k - n
      /\ \A i \in 1 .. n : /\ b[Slot(x + i - 1)] \in Char
                           /\ b[Slot(x + i - 1)] = b[Slot(x + (i - 1))]
      /\ \A i \in 1 .. m : /\ b[Slot(y + i - 1)] \in Char
                           /\ b[Slot(y + i - 1)] = b[Slot(x + (n + (i - 1)))]
  BY Places DEF Enclosed
<1>2. l = [i \in 1 .. n |-> b[Slot(x + i - 1)]] /\ d = [i \in 1 .. m |-> b[Slot(y + i - 1)]]
  BY DEF Cut
<1> HIDE DEF n, k, m
<1>3. l \in [1 .. n -> Char] /\ d \in [1 .. m -> Char]
  BY <1>1, <1>2
<1>4. l \in Seq(Char) /\ Len(l) = n /\ d \in Seq(Char) /\ Len(d) = m
  BY <1>1, <1>3, Part
<1>5. /\ \A i \in 1 .. n : l[i] = b[Slot(x + (i - 1))]
      /\ \A i \in 1 .. m : d[i] = b[Slot(x + (n + (i - 1)))]
  BY <1>1, <1>2
<1>6. 1 .. k - n = 1 .. m
  BY <1>1
<1> QED
  BY <1>1, <1>4, <1>5, <1>6 DEF n, k, m, Seen

\* The queue, before a step and after it.
LEMMA View ==
  ASSUME RingInv
  PROVE  Seen(r, w, e, buf, lines, edit) /\ Enclosed(r, w, e, buf)
<1>1. Enclosed(r, w, e, buf)
  BY Ring DEF Enclosed
<1>2. Cut(r, w, e, buf, lines, edit)
  BY Zenon DEF Cut, lines, edit
<1> QED
  BY <1>1, <1>2, ViewOf

\* After a step: the indices and the buffer are x, y, z and b.
LEMMA ViewNext ==
  ASSUME RingInv', NEW x, x = r', NEW y, y = w', NEW z, z = e', NEW b, b = buf'
  PROVE  Seen(x, y, z, b, lines', edit') /\ Enclosed(x, y, z, b)
<1>1. /\ x \in Index /\ y \in Index /\ z \in Index
      /\ Sub(y, x) <= Sub(z, x) /\ Sub(z, x) <= INPUT_BUF_SIZE
      /\ \A i \in 0 .. INPUT_BUF_SIZE - 1 : i < Sub(z, x) => b[Slot(x + i)] \in Char
  BY DEF RingInv, Index, Sub, Slot
<1>2. \A i \in Nat : i < Sub(z, x) => b[Slot(x + i)] \in Char
  <2>1. Sub(z, x) \in Int /\ INPUT_BUF_SIZE \in Int
    BY <1>1, Sizes, SubIs DEF Index
  <2> QED
    BY <1>1, <2>1
<1>3. Cut(x, y, z, b, lines', edit')
  BY DEF Cut, lines, edit, Sub, Slot
<1>4. Enclosed(x, y, z, b)
  BY <1>1, <1>2 DEF Enclosed
<1> QED
  BY <1>3, <1>4, ViewOf

-----------------------------------------------------------------------------
(* The steps of the queue. *)

\* Sequences that are what their places say.
LEMMA PrefixSeq ==
  ASSUME NEW l \in Seq(Char), NEW s \in Seq(Char), Len(s) = Len(l) - 1,
         \A i \in 1 .. Len(s) : s[i] = l[i]
  PROVE  s = SubSeq(l, 1, Len(l) - 1)
<1> DEFINE t == SubSeq(l, 1, Len(l) - 1)
<1>1. Len(l) \in Nat /\ Len(s) \in Nat
  OBVIOUS
<1>2. t \in Seq(Char) /\ Len(t) = Len(l) - 1 /\ \A i \in 1 .. Len(l) - 1 : t[i] = l[i]
  <2>1. \A i \in 1 .. Len(l) - 1 : i \in 1 .. Len(l) /\ l[i] \in Char
    BY ElementOfSeq
  <2> QED
    BY <1>1, <2>1
<1> HIDE DEF t
<1>3. s = t
  BY <1>1, <1>2, SeqEqual
<1> QED
  BY <1>3 DEF t

\* A sequence with one more element.
LEMMA AppendSeq ==
  ASSUME NEW l \in Seq(Char), NEW s \in Seq(Char), NEW ch \in Char, Len(s) = Len(l) + 1,
         \A i \in 1 .. Len(l) : s[i] = l[i], s[Len(l) + 1] = ch
  PROVE  s = Append(l, ch)
<1> DEFINE t == Append(l, ch)
<1>1. /\ t \in Seq(Char) /\ Len(t) = Len(l) + 1 /\ Len(l) \in Nat
      /\ (\A i \in 1 .. Len(l) : t[i] = l[i]) /\ t[Len(l) + 1] = ch
  OBVIOUS
<1> HIDE DEF t
<1>2. \A i \in 1 .. Len(s) : s[i] = t[i]
  BY <1>1
<1>3. s = t
  BY <1>1, <1>2, SeqEqual
<1> QED
  BY <1>3 DEF t

\* Two sequences, one after the other.
LEMMA JoinSeq ==
  ASSUME NEW l \in Seq(Char), NEW d \in Seq(Char), NEW s \in Seq(Char),
         Len(s) = Len(l) + Len(d), \A i \in 1 .. Len(l) : s[i] = l[i],
         \A i \in 1 .. Len(d) : s[Len(l) + i] = d[i]
  PROVE  s = l \o d
<1> DEFINE t == l \o d
<1>1. /\ t \in Seq(Char) /\ Len(t) = Len(l) + Len(d) /\ Len(l) \in Nat /\ Len(d) \in Nat
      /\ \A i \in 1 .. Len(l) : t[i] = l[i]
      /\ \A i \in 1 .. Len(d) : t[Len(l) + i] = d[i]
  OBVIOUS
<1> HIDE DEF t
<1>2. \A i \in 1 .. Len(s) : s[i] = t[i]
  <2> SUFFICES ASSUME NEW i \in 1 .. Len(s) PROVE s[i] = t[i]
    OBVIOUS
  <2>1. CASE i \in 1 .. Len(l)
    BY <1>1, <2>1
  <2>2. CASE i \notin 1 .. Len(l)
    <3>1. i - Len(l) \in 1 .. Len(d) /\ i = Len(l) + (i - Len(l))
      BY <1>1, <2>2
    <3> QED
      BY <1>1, <3>1
  <2> QED
    BY <2>1, <2>2
<1>3. s = t
  BY <1>1, <1>2, SeqEqual
<1> QED
  BY <1>3 DEF t

\* A sequence without its first element.
LEMMA TailSeq ==
  ASSUME NEW l \in Seq(Char), NEW s \in Seq(Char), Len(l) > 0, Len(s) = Len(l) - 1,
         \A i \in 1 .. Len(s) : s[i] = l[i + 1]
  PROVE  s = Tail(l) /\ l # <<>> /\ Head(l) = l[1]
<1> DEFINE t == Tail(l)
<1>1. l # <<>> /\ Head(l) = l[1] /\ Len(l) \in Nat
  OBVIOUS
<1>2. t \in Seq(Char) /\ Len(t) = Len(l) - 1 /\ \A i \in 1 .. Len(t) : t[i] = l[i + 1]
  BY <1>1, HeadTailProperties
<1> HIDE DEF t
<1>3. s = t
  BY <1>1, <1>2, SeqEqual
<1> QED
  BY <1>1, <1>3 DEF t

\* What the reads want, of the processes' frames.
LEMMA ReadingIs ==
  /\ reading  = [c \in Cpu |-> IF proc[c].pc \in Reading THEN proc[c].n ELSE 0]
  /\ reading' = [c \in Cpu |-> IF proc'[c].pc \in Reading THEN proc'[c].n ELSE 0]
BY DEF reading, Wants, proc, Proc, Reading

\* Where the frames of the reads stay, so does what they want.
LEMMA ReadingSame ==
  ASSUME ReadsSame
  PROVE  reading' = reading
<1>1. \A c \in Cpu : (IF proc'[c].pc \in Reading THEN proc'[c].n ELSE 0)
                      = (IF proc[c].pc \in Reading THEN proc[c].n ELSE 0)
  BY DEF ReadsSame, ReadsStay
<1> QED
  BY <1>1, ReadingIs

\* A process goes on with the frame f.
LEMMA ReadingSets ==
  ASSUME StackInv, NEW c \in Cpu, depth[c] = 1, NEW f, Sets(c, f)
  PROVE  reading' = [reading EXCEPT ![c] = IF f.pc \in Reading THEN f.n ELSE 0]
<1>1. proc' = [proc EXCEPT ![c] = f] /\ proc \in [Cpu -> Frames]
  BY Stacks DEF Sets
<1> DEFINE n == IF f.pc \in Reading THEN f.n ELSE 0
<1>2. \A d \in Cpu : (IF proc'[d].pc \in Reading THEN proc'[d].n ELSE 0)
                      = IF d = c THEN n ELSE IF proc[d].pc \in Reading THEN proc[d].n ELSE 0
  BY <1>1
<1> HIDE DEF n
<1>3. reading' = [reading EXCEPT ![c] = n]
  BY <1>2, ReadingIs
<1> QED
  BY <1>3 DEF n

\* A step that leaves the ring and the reads alone is invisible.
LEMMA QuietQueue ==
  ASSUME UNCHANGED <<cons, got>>, ReadsSame
  PROVE  UNCHANGED Q!vars
<1>1. lines' = lines /\ edit' = edit
  BY DEF lines, edit, cons, Sub, Slot
<1> QED
  BY <1>1, ReadingSame DEF Q!vars

\* The last character of the line is erased.
LEMMA EraseQueue ==
  ASSUME Inv, RingInv', NEW c \in Cpu, HandlerStay, Erase(c)
  PROVE  Q!Erased
<1>0. RingInv /\ ReadsSame
  BY EraseData DEF Inv
<1>1. e' = Sub(e, 1) /\ e # w /\ UNCHANGED <<buf, r, w, got>>
  BY DEF Erase, CanErase, HandlerStay
<1>2. lines' = lines /\ reading' = reading /\ got' = got
  BY <1>0, <1>1, ReadingSame DEF lines, Sub, Slot
<1> DEFINE n == Sub(w, r)
<1> DEFINE k == Sub(e, r)
<1> DEFINE b == buf
<1> DEFINE z == Sub(e, 1)
<1>3. n \in Nat /\ k \in Nat /\ n < k
  BY <1>0, <1>1, Ring
<1>4. Sub(z, r) = k - 1
  <2>1. r \in Index /\ e \in Index /\ k # 0
    BY <1>0, <1>3, Ring
  <2>2. e # r
    BY <2>1, SubIs
  <2> QED
    BY <2>1, <2>2, Moves
<1> HIDE DEF z
<1>5. Seen(r, w, e, b, lines, edit)
  BY <1>0, View
<1>6. Seen(r, w, z, b, lines', edit')
  <2>1. r = r' /\ w = w' /\ z = e' /\ b = buf'
    BY <1>1 DEF z
  <2> HIDE DEF b
  <2> QED
    BY <2>1, ViewNext
<1> HIDE DEF n, k, b
<1>7. /\ edit \in Seq(Char) /\ Len(edit) = k - n
      /\ \A i \in 1 .. k - n : edit[i] = b[Slot(r + (n + (i - 1)))]
  BY <1>5 DEF Seen, n, k
<1>8. /\ edit' \in Seq(Char) /\ Len(edit') = k - 1 - n
      /\ \A i \in 1 .. k - 1 - n : edit'[i] = b[Slot(r + (n + (i - 1)))]
  BY <1>4, <1>6 DEF Seen, n
<1>9. edit # <<>> /\ Len(edit') = Len(edit) - 1 /\ \A i \in 1 .. Len(edit') : edit'[i] = edit[i]
  <2>1. Len(edit) > 0 /\ Len(edit') = Len(edit) - 1
    BY <1>3, <1>7, <1>8
  <2>2. edit # <<>>
    BY <1>7, <2>1, EmptySeq
  <2>3. \A i \in 1 .. k - 1 - n : i \in 1 .. k - n
    BY <1>3
  <2> QED
    BY <1>7, <1>8, <2>1, <2>2, <2>3
<1>10. edit' = SubSeq(edit, 1, Len(edit) - 1)
  BY <1>7, <1>8, <1>9, PrefixSeq
<1> QED
  BY <1>2, <1>9, <1>10 DEF Q!Erased

\* A character joins the line, which is complete when it is given to the readers.
LEMMA StoreQueue ==
  ASSUME Inv, RingInv', NEW c \in Cpu, HandlerStay, Store(c)
  PROVE  \E ch \in Char : Q!Typed(ch)
<1> DEFINE ch == top[c].ch
<1> DEFINE n == Sub(w, r)
<1> DEFINE k == Sub(e, r)
<1> DEFINE b == buf'
<1> DEFINE z == e'
<1> DEFINE y == w'
<1>0. RingInv /\ CoreInv /\ ReadsSame
  BY StoreData DEF Inv, CoreInv
<1>1. /\ Room /\ z \in Index /\ Sub(z, r) = k + 1 /\ ch \in Char /\ b[Slot(r + k)] = ch
      /\ \A i \in Nat : i < k => b[Slot(r + i)] = buf[Slot(r + i)]
      /\ UNCHANGED r
  BY <1>0, StoreRing
<1>2. z = Inc(e) /\ y = IF Given(ch) THEN z ELSE w
  BY <1>0, StoreCore DEF Store
<1>3. UNCHANGED got /\ reading' = reading
  BY <1>0, ReadingSame DEF HandlerStay
<1>4. /\ n \in Nat /\ k \in Nat /\ n <= k /\ k < INPUT_BUF_SIZE /\ INPUT_BUF_SIZE \in Nat
      /\ r \in Index
  BY <1>0, <1>1, Ring, Sizes DEF Room
<1>5. Seen(r, w, e, buf, lines, edit)
  BY <1>0, View
<1>6. Seen(r, y, z, b, lines', edit')
  <2>1. r = r' /\ y = w' /\ z = e' /\ b = buf'
    BY <1>1
  <2> HIDE DEF y, z, b
  <2> QED
    BY <2>1, ViewNext
<1>7. Given(ch) <=> ch \in {"nl", "eof"} \/ k + 1 = INPUT_BUF_SIZE
  BY <1>1, <1>2 DEF Given
<1>8. Sub(y, r) = IF Given(ch) THEN k + 1 ELSE n
  BY <1>1, <1>2
<1> HIDE DEF n, k, b, y, z, ch
<1> DEFINE line == Append(edit, ch)
<1>9. /\ lines \in Seq(Char) /\ edit \in Seq(Char) /\ Len(lines) = n /\ Len(edit) = k - n
      /\ \A i \in 1 .. n : lines[i] = buf[Slot(r + (i - 1))]
      /\ \A i \in 1 .. k - n : edit[i] = buf[Slot(r + (n + (i - 1)))]
  BY <1>5 DEF Seen, n, k
<1>10. /\ line \in Seq(Char) /\ Len(line) = k - n + 1 /\ line[k - n + 1] = ch
       /\ \A i \in 1 .. k - n : line[i] = edit[i]
  BY <1>1, <1>9
<1>11. Len(lines) + Len(line) = k + 1 /\ k + 1 <= INPUT_BUF_SIZE
  BY <1>4, <1>9, <1>10
\* The places of the lines and of the line, after the step.
<1>12. /\ \A i \in 1 .. n : b[Slot(r + (i - 1))] = lines[i]
       /\ \A i \in 1 .. k - n + 1 : b[Slot(r + (n + (i - 1)))] = line[i]
  <2>1. ASSUME NEW i \in 1 .. n PROVE b[Slot(r + (i - 1))] = lines[i]
    <3>1. i - 1 \in Nat /\ i - 1 < k
      BY <1>4
    <3> QED
      BY <1>1, <1>9, <3>1
  <2>2. ASSUME NEW i \in 1 .. k - n + 1 PROVE b[Slot(r + (n + (i - 1)))] = line[i]
    <3>1. CASE i = k - n + 1
      <4>1. n + (i - 1) = k
        BY <1>4, <3>1
      <4> QED
        BY <1>1, <1>10, <3>1, <4>1
    <3>2. CASE i # k - n + 1
      <4>1. i \in 1 .. k - n /\ n + (i - 1) \in Nat /\ n + (i - 1) < k
        BY <1>4, <3>2
      <4> QED
        BY <1>1, <1>9, <1>10, <4>1
    <3> QED
      BY <3>1, <3>2
  <2> QED
    BY <2>1, <2>2
<1> HIDE DEF line
<1>13. CASE Given(ch)
  <2>1. /\ lines' \in Seq(Char) /\ edit' \in Seq(Char) /\ Len(lines') = k + 1 /\ Len(edit') = 0
        /\ \A i \in 1 .. k + 1 : lines'[i] = b[Slot(r + (i - 1))]
    BY <1>1, <1>4, <1>6, <1>8, <1>13 DEF Seen
  <2>2. \A i \in 1 .. Len(lines) : lines'[i] = lines[i]
    <3>1. \A i \in 1 .. n : i \in 1 .. k + 1
      BY <1>4
    <3> QED
      BY <1>9, <1>12, <2>1, <3>1
  <2>3. \A i \in 1 .. Len(line) : lines'[Len(lines) + i] = line[i]
    <3> SUFFICES ASSUME NEW i \in 1 .. k - n + 1 PROVE lines'[n + i] = line[i]
      BY <1>9, <1>10
    <3>1. n + i \in 1 .. k + 1 /\ (n + i) - 1 = n + (i - 1)
      BY <1>4
    <3> QED
      BY <1>12, <2>1, <3>1
  <2>4. lines' = lines \o line
    <3>1. Len(lines') = Len(lines) + Len(line)
      BY <1>11, <2>1
    <3>2. lines \in Seq(Char) /\ line \in Seq(Char) /\ lines' \in Seq(Char)
      BY <1>9, <1>10, <2>1
    <3> QED
      BY Zenon, <2>2, <2>3, <3>1, <3>2, JoinSeq
  <2>5. edit' = <<>>
    BY <2>1, EmptySeq
  <2> QED
    BY <1>1, <1>3, <1>7, <1>11, <1>13, <2>4, <2>5 DEF Q!Typed, line
<1>14. CASE ~Given(ch)
  <2>1. /\ lines' \in Seq(Char) /\ edit' \in Seq(Char)
        /\ Len(lines') = n /\ Len(edit') = k - n + 1
        /\ \A i \in 1 .. n : lines'[i] = b[Slot(r + (i - 1))]
        /\ \A i \in 1 .. k - n + 1 : edit'[i] = b[Slot(r + (n + (i - 1)))]
    <3>1. (k + 1) - n = k - n + 1
      BY <1>4
    <3> QED
      BY <1>1, <1>6, <1>8, <1>14, <3>1 DEF Seen
  <2>2. lines' = lines
    BY <1>9, <1>12, <2>1, SeqEqual
  <2>3. edit' = line
    BY <1>10, <1>12, <2>1, SeqEqual
  <2> QED
    BY <1>1, <1>3, <1>7, <1>11, <1>14, <2>2, <2>3 DEF Q!Typed, line
<1> QED
  BY <1>13, <1>14

\* The first character of the lines is at r.
LEMMA FirstOfLines ==
  ASSUME RingInv, r # w
  PROVE  lines # <<>> /\ Head(lines) = buf[Slot(r)]
<1> DEFINE n == Sub(w, r)
<1>1. n \in Nat /\ n > 0 /\ r \in Int
  BY Ring, Sizes DEF Index
<1>2. Seen(r, w, e, buf, lines, edit)
  BY View
<1> HIDE DEF n
<1>3. /\ lines \in Seq(Char) /\ Len(lines) = n
      /\ \A i \in 1 .. n : lines[i] = buf[Slot(r + (i - 1))]
  BY <1>2 DEF Seen, n
<1>4. lines # <<>>
  BY <1>1, <1>3, EmptySeq
<1>5. lines[1] = buf[Slot(r)]
  <2>1. 1 \in 1 .. n /\ r + (1 - 1) = r
    BY <1>1
  <2> QED
    BY <1>3, <2>1
<1> QED
  BY <1>3, <1>4, <1>5

\* The first character of the lines is taken.
LEMMA TakeQueue ==
  ASSUME RingInv, RingInv', r # w, r' = Inc(r), UNCHANGED <<buf, w, e>>
  PROVE  /\ lines # <<>> /\ Head(lines) = buf[Slot(r)]
         /\ lines' = Tail(lines) /\ edit' = edit
<1> DEFINE n == Sub(w, r)
<1> DEFINE b == buf
<1> DEFINE x == Inc(r)
<1>1. n \in Nat /\ n > 0 /\ r \in Index /\ r \in Int
  BY Ring, Sizes DEF Index
<1>2. Sub(w, x) = n - 1
  BY Ring, Moves
<1>3. edit' = edit
  BY DEF edit, Sub, Slot
<1>4. Seen(r, w, e, b, lines, edit)
  BY View
<1>5. Seen(x, w, e, b, lines', edit')
  <2>1. x = r' /\ w = w' /\ e = e' /\ b = buf'
    OBVIOUS
  <2> HIDE DEF x, b
  <2> QED
    BY <2>1, ViewNext
<1>6. \A i \in Int : Slot(x + (i - 1)) = Slot(r + ((i + 1) - 1))
  <2> SUFFICES ASSUME NEW i \in Int PROVE Slot(x + (i - 1)) = Slot(r + ((i + 1) - 1))
    OBVIOUS
  <2>1. Slot(Inc(r) + (i - 1)) = Slot(r + ((i - 1) + 1))
    <3> DEFINE j == i - 1
    <3>1. j \in Int
      OBVIOUS
    <3> HIDE DEF j
    <3>2. Slot(Inc(r) + j) = Slot(r + (j + 1))
      BY <1>1, <3>1, SlotFrom
    <3> QED
      BY <3>2 DEF j
  <2>2. (i - 1) + 1 = (i + 1) - 1
    OBVIOUS
  <2> QED
    BY <2>1, <2>2
<1> HIDE DEF n, x, b
<1>7. /\ lines \in Seq(Char) /\ Len(lines) = n
      /\ \A i \in 1 .. n : lines[i] = b[Slot(r + (i - 1))]
  BY <1>4 DEF Seen, n
<1>8. /\ lines' \in Seq(Char) /\ Len(lines') = n - 1
      /\ \A i \in 1 .. n - 1 : lines'[i] = b[Slot(x + (i - 1))]
  BY <1>2, <1>5 DEF Seen
<1>9. \A i \in 1 .. Len(lines') : lines'[i] = lines[i + 1]
  <2> SUFFICES ASSUME NEW i \in 1 .. n - 1 PROVE lines'[i] = lines[i + 1]
    BY <1>8
  <2>1. i \in Int /\ i + 1 \in Int /\ i + 1 \in 1 .. n
    BY <1>1
  <2> QED
    BY <1>6, <1>7, <1>8, <2>1
<1>10. lines' = Tail(lines)
  BY <1>1, <1>7, <1>8, <1>9, TailSeq
<1> QED
  BY <1>3, <1>10, FirstOfLines

\* A read takes a character.
LEMMA ByteQueue ==
  ASSUME Inv, RingInv', NEW c \in Cpu, ReadStay, ReadByte(c)
  PROVE  Q!Take(c)
<1>0. CoreInv /\ StackInv /\ RingInv /\ top[c] \in Frames
  BY Running DEF Inv, CoreInv
<1> DEFINE ch == buf[Slot(r)]
<1> DEFINE g == [top[c] EXCEPT !.n = top[c].n - 1]
<1>1. /\ At(c, "r") /\ r # w /\ r' = Inc(r) /\ got' = [got EXCEPT ![c] = Append(got[c], ch)]
      /\ UNCHANGED <<uart, buf, w, e>> /\ ch # "eof" /\ claimed' = claimed
      /\ IF ch = "nl" \/ top[c].n = 1 THEN Release(c, "cons") /\ Set(c, Frame)
                                      ELSE Locked(c, "cons") /\ Set(c, g)
  BY <1>0, Running DEF ReadByte, uart
<1>2. lines # <<>> /\ Head(lines) = ch /\ lines' = Tail(lines) /\ edit' = edit
  BY <1>0, <1>1, TakeQueue
<1>3. g.pc = top[c].pc /\ g.n = top[c].n - 1
  <2> DEFINE k == top[c].n - 1
  <2> HIDE DEF k
  <2>1. [top[c] EXCEPT !.n = k].pc = top[c].pc /\ [top[c] EXCEPT !.n = k].n = k
    BY <1>0 DEF Frames
  <2> QED
    BY <2>1 DEF k
<1>4. /\ depth[c] = 1 /\ top[c].pc = "r" /\ reading[c] = top[c].n /\ reading[c] > 0
  <2>1. top[c].pc = "r"
    BY <1>0, <1>1, Running DEF At
  <2>2. depth[c] = 1
    BY <1>0, <2>1, Running DEF HandlerFrame, Printing, Echoing
  <2>3. proc[c] = top[c]
    BY <1>0, <2>2, Stacks
  <2> QED
    BY <2>1, <2>2, <2>3, ReadingIs DEF Inv, ReadInv, Reading
<1>5. reading' = [reading EXCEPT ![c] = IF ch = "nl" THEN 0 ELSE reading[c] - 1]
  <2>1. CASE ch = "nl" \/ top[c].n = 1
    <3>1. Sets(c, Frame) /\ Frame.pc = "user"
      BY <1>0, <1>1, <2>1, ReadEndCore DEF Frame
    <3>2. reading' = [reading EXCEPT ![c] = 0]
      BY <1>0, <1>4, <3>1, ReadingSets DEF Reading
    <3>3. (IF ch = "nl" THEN 0 ELSE reading[c] - 1) = 0
      BY <1>4, <2>1
    <3> QED
      BY <3>2, <3>3
  <2>2. CASE ~(ch = "nl" \/ top[c].n = 1)
    <3>1. Sets(c, g)
      BY <1>0, <1>1, <2>2, ReadMoreCore
    <3> HIDE DEF g
    <3>2. reading' = [reading EXCEPT ![c] = g.n]
      BY <1>0, <1>3, <1>4, <3>1, ReadingSets DEF Reading
    <3>3. (IF ch = "nl" THEN 0 ELSE reading[c] - 1) = g.n
      BY <1>3, <1>4, <2>2
    <3> QED
      BY <3>2, <3>3
  <2> QED
    BY <2>1, <2>2
<1> HIDE DEF ch, g
<1> QED
  BY <1>1, <1>2, <1>4, <1>5 DEF Q!Take

\* A read that gives cons.lock back wants nothing more.
LEMMA EndsReading ==
  ASSUME Inv, NEW c \in Cpu, At(c, "r"), Release(c, "cons"), Set(c, Frame), claimed' = claimed
  PROVE  reading[c] > 0 /\ reading' = [reading EXCEPT ![c] = 0]
<1>0. CoreInv /\ StackInv
  BY DEF Inv, CoreInv
<1>1. Sets(c, Frame) /\ depth[c] = 1 /\ top[c].pc = "r" /\ Frame.pc = "user"
  BY <1>0, ReadEndCore DEF Frame
<1>2. reading' = [reading EXCEPT ![c] = 0]
  BY <1>0, <1>1, ReadingSets DEF Reading
<1>3. proc[c] = top[c]
  BY <1>0, <1>1, Stacks
<1> QED
  BY <1>1, <1>2, <1>3, ReadingIs DEF Inv, ReadInv, Reading

\* The end of a file, a fault, and a read that is killed with nothing to read.
LEMMA EndQueue ==
  ASSUME Inv, RingInv', NEW c \in Cpu, ReadStay, ReadEof(c) \/ ReadFault(c) \/ ReadKilled(c)
  PROVE  Q!Eof(c) \/ Q!Fault(c) \/ Q!Stop(c)
<1>0. RingInv
  BY DEF Inv
<1>1. /\ At(c, "r") /\ Release(c, "cons") /\ Set(c, Frame) /\ claimed' = claimed
      /\ UNCHANGED <<buf, w, e, got>>
  BY DEF ReadEof, ReadFault, ReadKilled, uart, cons
<1>2. reading[c] > 0 /\ reading' = [reading EXCEPT ![c] = 0]
  BY <1>1, EndsReading
<1>3. CASE ReadFault(c)
  <2>1. r # w /\ buf[Slot(r)] # "eof" /\ r' = Inc(r)
    BY <1>3 DEF ReadFault
  <2> QED
    BY <1>0, <1>1, <1>2, <2>1, TakeQueue DEF Q!Fault
<1>4. CASE ReadEof(c)
  <2>1. r # w /\ buf[Slot(r)] = "eof" /\ r' = IF got[c] = <<>> THEN Inc(r) ELSE r
    BY <1>4 DEF ReadEof
  <2>2. CASE got[c] = <<>>
    <3>1. lines # <<>> /\ Head(lines) = "eof" /\ lines' = Tail(lines) /\ edit' = edit
      BY <1>0, <1>1, <2>1, <2>2, TakeQueue
    <3> QED
      BY <1>1, <1>2, <2>2, <3>1 DEF Q!Eof
  <2>3. CASE got[c] # <<>>
    <3>1. lines' = lines /\ edit' = edit
      BY <1>1, <2>1, <2>3 DEF lines, edit, Sub, Slot
    <3>2. lines # <<>> /\ Head(lines) = "eof"
      BY <1>0, <2>1, FirstOfLines
    <3> QED
      BY <1>1, <1>2, <2>3, <3>1, <3>2 DEF Q!Eof
  <2> QED
    BY <2>2, <2>3
<1>5. CASE ReadKilled(c)
  <2>1. r = w /\ UNCHANGED cons
    BY <1>5 DEF ReadKilled
  <2>2. lines' = lines /\ edit' = edit
    BY <2>1 DEF lines, edit, Sub, Slot, cons
  <2>3. lines = <<>>
    <3>1. Seen(r, w, e, buf, lines, edit) /\ Sub(w, r) = 0
      BY <1>0, <2>1, View, Ring
    <3>2. lines \in Seq(Char) /\ Len(lines) = 0
      BY <3>1 DEF Seen
    <3> QED
      BY <3>2, EmptySeq
  <2> QED
    BY <1>1, <1>2, <2>2, <2>3 DEF Q!Stop
<1> QED
  BY <1>3, <1>4, <1>5

\* A read begins.
LEMMA BeginQueue ==
  ASSUME Inv, NEW c \in Cpu, NEW n \in 1 .. MaxRead, ReadCall(c, n), top[c].pc = "user",
         UNCHANGED cons
  PROVE  Q!Begin(c, n)
<1>0. CoreInv /\ StackInv
  BY DEF Inv, CoreInv
<1>1. Sets(c, ReadFrame(n)) /\ depth[c] = 1
  BY <1>0, ReadCallCore
<1>2. ReadFrame(n).pc = "r" /\ ReadFrame(n).n = n
  BY DEF ReadFrame, Frame
<1>3. reading' = [reading EXCEPT ![c] = n]
  BY <1>0, <1>1, <1>2, ReadingSets DEF Reading
<1>4. reading[c] = 0
  <2>1. proc[c] = top[c]
    BY <1>0, <1>1, Stacks
  <2> QED
    BY <2>1, ReadingIs DEF Reading
<1>5. lines' = lines /\ edit' = edit /\ got' = [got EXCEPT ![c] = <<>>]
  BY DEF lines, edit, cons, Sub, Slot, ReadCall
<1> QED
  BY <1>3, <1>4, <1>5 DEF Q!Begin

\* Every step of consoleintr and consoleread is one of the queue's, or invisible.
LEMMA NextQueue ==
  ASSUME Inv, Inv', [Next]_vars
  PROVE  [Q!Next]_(Q!vars)
<1>0. RingInv'
  BY DEF Inv
<1>1. ASSUME NEW c \in Cpu, Step(c) PROVE Q!Next \/ UNCHANGED Q!vars
  <2>0. UNCHANGED <<killed, bounds>>
    BY <1>1 DEF Step
  <2>1. CASE (PutIdle(c) \/ PutChar(c) \/ Printf(c) \/ Write(c) \/ Isr(c)) /\ ConsStay
    <3>1. ReadsSame
      BY <2>1, PutIdleData, PutCharData, PrintData, WriteData, TxDoneData, CompleteData DEF Isr
    <3> QED
      BY <2>1, <3>1, QuietQueue DEF ConsStay
  <2>2. CASE Consoleintr(c) /\ HandlerStay
    <3>1. CASE DumpPrint(c)
      <4>1. top[c].pc = "c_dump" /\ PrintAcquire(c, "c_end") /\ ConsStay
        BY <2>2, <3>1, Running DEF Inv, CoreInv, DumpPrint, At, ConsStay, HandlerStay
      <4>2. ReadsSame
        BY <4>1, PrintData
      <4> QED
        BY <4>1, <4>2, QuietQueue DEF ConsStay
    <3>2. CASE Getc(c) \/ Dump(c) \/ ConsEnd(c) \/ Ignore(c)
      <4>1. ReadsSame
        BY <2>2, <3>2, CalmData
      <4>2. UNCHANGED <<cons, got>>
        BY <2>2, <3>2 DEF Getc, Dump, ConsEnd, Ignore, HandlerStay
      <4> QED
        BY <4>1, <4>2, QuietQueue
    <3>3. CASE Echo(c)
      <4>1. ReadsSame /\ UNCHANGED <<cons, got>>
        BY <2>2, <3>3, EchoData DEF Echo, HandlerStay
      <4> QED
        BY <4>1, QuietQueue
    <3>4. CASE Erase(c)
      BY <1>0, <2>2, <3>4, EraseQueue DEF Q!Next
    <3>5. CASE Store(c)
      <4>1. \E ch \in Char : Q!Typed(ch)
        BY <1>0, <2>2, <3>5, StoreQueue
      <4> QED
        BY <4>1 DEF Q!Next, Char
    <3> QED
      BY <2>2, <3>1, <3>2, <3>3, <3>4, <3>5 DEF Consoleintr
  <2>3. CASE Read(c) /\ ReadStay
    <3>1. CASE ReadAgain(c) \/ ReadSleep(c)
      <4>1. ~ReadKilled(c)
        BY <3>1 DEF ReadAgain, ReadSleep, ReadKilled, At
      <4>2. ReadsSame /\ UNCHANGED <<cons, got>>
        BY <2>3, <3>1, <4>1, WaitData DEF ReadAgain, ReadSleep
      <4> QED
        BY <4>2, QuietQueue
    <3>2. CASE ReadEof(c) \/ ReadFault(c) \/ ReadKilled(c)
      BY <1>0, <2>3, <3>2, EndQueue DEF Q!Next
    <3>3. CASE ReadByte(c)
      BY <1>0, <2>3, <3>3, ByteQueue DEF Q!Next
    <3> QED
      BY <2>3, <3>1, <3>2, <3>3 DEF Read
  <2> QED
    BY <1>1, <2>0, <2>1, <2>2, <2>3 DEF Step, ConsStay, HandlerStay, ReadStay
<1>2. ASSUME NEW c \in Cpu, Call(c) PROVE Q!Next \/ UNCHANGED Q!vars
  <2>1. top[c].pc = "user" /\ UNCHANGED <<cons, killed, input>>
    BY <1>2, Running DEF Inv, CoreInv, Call, At
  <2>2. ASSUME NEW n \in 1 .. MaxRead, ReadCall(c, n) PROVE Q!Next
    BY <2>1, <2>2, BeginQueue DEF Q!Next
  <2>3. ASSUME NEW n \in 1 .. MaxWrite, WriteChunk(c, n), UNCHANGED got
        PROVE  UNCHANGED Q!vars
    <3>1. ReadsSame
      BY <2>1, <2>3, WriteCallData
    <3> QED
      BY <2>1, <2>3, <3>1, QuietQueue
  <2>4. CASE PrintAcquire(c, "user") /\ UNCHANGED got
    <3>1. ReadsSame
      BY <2>1, <2>4, PrintData
    <3> QED
      BY <2>1, <2>4, <3>1, QuietQueue
  <2> QED
    BY <1>2, <2>2, <2>3, <2>4 DEF Call
<1>3. CASE Transmit /\ Others
  <2>1. ReadsSame
    BY <1>3, TransmitData DEF Others, ConsStay
  <2> QED
    BY <1>3, <2>1, QuietQueue DEF Others
<1>4. ASSUME NEW c \in Cpu, Interrupt(c), Others PROVE UNCHANGED Q!vars
  <2>1. ReadsSame
    BY <1>4, InterruptData DEF Others, ConsStay
  <2> QED
    BY <1>4, <2>1, QuietQueue DEF Others
<1>5. ASSUME NEW c \in Cpu, Kill(c) PROVE UNCHANGED Q!vars
  <2>1. ReadsSame /\ UNCHANGED <<cons, got>>
    BY <1>5, KillData DEF Kill
  <2> QED
    BY <2>1, QuietQueue
<1>6. CASE Typed
  <2>1. ReadsSame /\ UNCHANGED <<cons, got>>
    BY <1>6, TypedData DEF Typed
  <2> QED
    BY <2>1, QuietQueue
<1>7. CASE UNCHANGED vars
  <2>1. proc' = proc /\ UNCHANGED <<cons, got>>
    BY <1>7 DEF vars, uvars, proc, Proc
  <2>2. ReadsSame
    BY <2>1 DEF ReadsSame, ReadsStay
  <2> QED
    BY <2>1, <2>2, QuietQueue
<1> QED
  BY <1>1, <1>2, <1>3, <1>4, <1>5, <1>6, <1>7 DEF Next

\* At the start the queue is empty, and nobody reads.
LEMMA InitQueue == Init => Q!Init
<1> SUFFICES ASSUME Init PROVE Q!Init
  OBVIOUS
<1>1. Inv
  BY InitInv
<1>2. w = r /\ e = r /\ got = [c \in Cpu |-> <<>>] /\ run = [c \in Cpu |-> <<Frame>>]
  BY Zenon DEF Init, UInit
<1>3. lines = <<>> /\ edit = <<>>
  <2>1. Seen(r, w, e, buf, lines, edit) /\ Sub(w, r) = 0 /\ Sub(e, r) = 0
    <3>1. RingInv /\ w = r /\ e = r
      BY <1>1, <1>2, Zenon DEF Inv
    <3> QED
      BY <3>1, View, Ring
  <2>2. lines \in Seq(Char) /\ edit \in Seq(Char) /\ Len(lines) = 0 /\ Len(edit) = 0
    BY <2>1 DEF Seen
  <2> QED
    BY <2>2, EmptySeq
<1>4. reading = [c \in Cpu |-> 0]
  <2>1. \A c \in Cpu : Wants(c) = 0
    <3>1. \A c \in Cpu : Proc(c) = Frame
      BY <1>2, Zenon DEF Proc
    <3>2. Frame.pc = "user"
      BY DEF Frame
    <3> QED
      BY <3>1, <3>2 DEF Wants
  <2> QED
    BY <2>1, Zenon DEF reading
<1> QED
  BY <1>2, <1>3, <1>4, Zenon DEF Q!Init

\* The ring of consoleintr and consoleread is a queue of lines: what is typed can
\* be edited until the line is complete, and every read takes its characters
\* from the first line, in order and once (console.c).
THEOREM Refinement == Spec => ImplementsLineQueue
<1>1. Inv /\ Inv' /\ [Next]_vars => [Q!Next]_(Q!vars)
  BY NextQueue
<1> QED
  BY <1>1, InvHolds, InitQueue, PTL DEF Spec, ImplementsLineQueue, Q!Spec

=============================================================================

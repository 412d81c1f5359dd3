------------------------------ MODULE LineQueue ------------------------------
(***************************************************************************)
(* What the console promises: characters that are typed can be edited      *)
(* until a line is complete; reads take complete lines, in order, no more  *)
(* than one at a time.                                                     *)
(***************************************************************************)
EXTENDS Integers, Sequences

CONSTANTS Reader, Char, SIZE, MaxRead

VARIABLES
  lines,    \* the characters of complete lines
  edit,     \* the line that is being typed
  reading,  \* what a read still wants, 0 when there is none
  got       \* what each process's last read has been given

vars == <<lines, edit, reading, got>>

Init == lines = <<>> /\ edit = <<>> /\ reading = [p \in Reader |-> 0] /\ got = [p \in Reader |-> <<>>]

Typed(c) ==
  LET line == Append(edit, c) IN
  /\ Len(lines) + Len(line) <= SIZE
  /\ IF c \in {"nl", "eof"} \/ Len(lines) + Len(line) = SIZE
       THEN lines' = lines \o line /\ edit' = <<>>
       ELSE edit' = line /\ UNCHANGED lines
  /\ UNCHANGED <<reading, got>>

Erased ==
  /\ edit # <<>> /\ edit' = SubSeq(edit, 1, Len(edit) - 1)
  /\ UNCHANGED <<lines, reading, got>>

Begin(p, n) ==
  /\ reading[p] = 0
  /\ reading' = [reading EXCEPT ![p] = n] /\ got' = [got EXCEPT ![p] = <<>>]
  /\ UNCHANGED <<lines, edit>>

\* A read ends with a line, or when it has all it wants.
Take(p) ==
  /\ reading[p] > 0 /\ lines # <<>> /\ Head(lines) # "eof"
  /\ got' = [got EXCEPT ![p] = Append(@, Head(lines))]
  /\ reading' = [reading EXCEPT ![p] = IF Head(lines) = "nl" THEN 0 ELSE @ - 1]
  /\ lines' = Tail(lines) /\ UNCHANGED edit

\* The end of file is a read of no bytes: it is kept for the next read if there are some.
Eof(p) ==
  /\ reading[p] > 0 /\ lines # <<>> /\ Head(lines) = "eof"
  /\ reading' = [reading EXCEPT ![p] = 0]
  /\ lines' = (IF got[p] = <<>> THEN Tail(lines) ELSE lines) /\ UNCHANGED <<edit, got>>

\* The buffer of the read is not the process's: a byte is lost.
Fault(p) ==
  /\ reading[p] > 0 /\ lines # <<>> /\ Head(lines) # "eof"
  /\ reading' = [reading EXCEPT ![p] = 0]
  /\ lines' = Tail(lines) /\ UNCHANGED <<edit, got>>

\* A read gives up, killed, only when there is nothing to read.
Stop(p) ==
  /\ reading[p] > 0 /\ lines = <<>>
  /\ reading' = [reading EXCEPT ![p] = 0]
  /\ UNCHANGED <<lines, edit, got>>

Next ==
  \/ \E c \in Char : Typed(c)
  \/ Erased
  \/ \E p \in Reader : (\E n \in 1 .. MaxRead : Begin(p, n)) \/ Take(p) \/ Eof(p) \/ Fault(p) \/ Stop(p)

Spec == Init /\ [][Next]_vars
=============================================================================

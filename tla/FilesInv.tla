------------------------------ MODULE FilesInv ------------------------------
(***************************************************************************)
(* The inductive invariant behind RefsExact of Files: what each kernel     *)
(* thread refers to and has locked at each label, and that whatever a      *)
(* directory, a file or a thread names is an inode.                        *)
(***************************************************************************)
EXTENDS Files

Calls   == {"open", "create", "link", "unlink", "chdir", "exec"}
Putting == {"put", "free", "freed", "drop"}

\* Where a thread goes after its iput calls.
Returns == {"end", "walk", "exists", "opened", "made", "bad", "badlink", "unlinked"}

\* Where a thread goes when it has put what is in its list.
Aim(fr) == IF fr.pc \in Putting THEN fr.ret ELSE fr.pc

\* Which registers are in use.
HasIp(fr)  == Aim(fr) \in {"walk", "open", "opened", "create", "exists", "new", "made", "link",
                           "dirlink", "unlink", "remove", "unlinked", "chdir", "exec"}
HasDp(fr)  == Aim(fr) \in {"new", "remove", "bad"}
HasOld(fr) == Aim(fr) \in {"dirlink", "badlink"} \/ (Aim(fr) = "walk" /\ fr.arg.call = "dirlink")

Reg(used, i) == IF used THEN i \in Inum ELSE i = 0

\* The process has given up, or never had, its files and its directory.
Gone(fr) == fr.pc = "dead" \/ fr.after = "dead"

\* filewrite is between its first and its last transaction.
Writing(fr) == fr.pc \in {"write", "writelock", "writei", "written"} \/ fr.after = "write"

Shape(fr) ==
  fr = [pc |-> fr.pc, ret |-> fr.ret, after |-> fr.after, ip |-> fr.ip, dp |-> fr.dp,
        old |-> fr.old, puts |-> fr.puts, path |-> fr.path, arg |-> fr.arg, f |-> fr.f,
        n |-> fr.n, m |-> fr.m]

FrameOk(fr) ==
  /\ Shape(fr)
  /\ fr.pc \in Label /\ fr.after \in {"user", "exit", "write", "dead", "reclaim"}
  /\ fr.pc \in Putting => fr.ret \in Returns
  /\ Reg(HasIp(fr), fr.ip) /\ Reg(HasDp(fr), fr.dp) /\ Reg(HasOld(fr), fr.old)
  /\ Aim(fr) = "walk" => fr.arg.call \in Calls \union {"dirlink"}
  /\ fr.puts \in Seq(Inum) /\ Len(fr.puts) <= 2 /\ (fr.pc \in Putting <=> fr.puts # <<>>)
  /\ fr.after = "write" => fr.pc = "end"
  /\ fr.after = "dead" => Aim(fr) = "end"

ThreadInv == k = [p \in Proc |-> k[p]] /\ \A p \in Proc : FrameOk(k[p])

\* A directory is a sequence of entries that name inodes.
DirOk(s) == /\ Len(s) \in Nat /\ s = [j \in 1 .. Len(s) |-> s[j]]
            /\ \A j \in 1 .. Len(s) : s[j].inum \in 0 .. NInode

FsOk(F) == /\ F = [ino |-> F.ino, ents |-> F.ents, used |-> F.used, ind |-> F.ind, stray |-> F.stray]
           /\ F.ents = [i \in Inum |-> F.ents[i]]
           /\ \A i \in Inum : DirOk(F.ents[i])

DiskInv == FsOk(fs) /\ FsOk(disk)

\* What open files, directories and descriptors refer to.
FileOk(f) ==
  /\ f = [ref |-> f.ref, type |-> f.type, ip |-> f.ip, off |-> f.off, r |-> f.r, w |-> f.w]
  /\ f.ref \in Nat
  /\ IF f.ref = 0 THEN f.ip = 0 ELSE f.ip \in Inum

FileInv ==
  /\ ftable = [f \in File |-> ftable[f]] /\ \A f \in File : FileOk(ftable[f])
  /\ ofile \in [Proc -> [Fd -> 0 .. NFile]] /\ cwd \in [Proc -> 0 .. NInode]
  /\ \A p \in Proc :
       /\ IF Gone(k[p]) THEN cwd[p] = 0 /\ \A fd \in Fd : ofile[p][fd] = 0 ELSE cwd[p] \in Inum
       /\ Writing(k[p]) => k[p].f \in File /\ \E fd \in Fd : ofile[p][fd] = k[p].f

\* What a thread has locked: for its iputs, and for what comes after them.
PutLock(p, i) == k[p].pc \in {"free", "freed"} /\ i = Head(k[p].puts)
AimLock(p, i) ==
  \/ Aim(k[p]) \in {"opened", "made", "unlinked"} /\ i = k[p].ip
  \/ Aim(k[p]) \in {"new", "remove", "bad"} /\ i = k[p].dp
  \/ k[p].pc \in {"writei", "written"} /\ i = ftable[k[p].f].ip

LockInv ==
  /\ lock \in [Inum -> Proc \union {NoProc}]
  /\ \A p \in Proc, i \in Inum : /\ lock[i] = p <=> PutLock(p, i) \/ AimLock(p, i)
                                 /\ ~(PutLock(p, i) /\ AimLock(p, i))

\* The entry that unlink has found stays where it is.
EntryInv == \A p \in Proc : At(p, "remove") => Entry(p) # 0

OutInv == \A p \in Proc : k[p].pc \in {"user", "dead", "exit", "write", "reclaim"} => p \notin out

\* The counts.
ItableInv ==
  itable = [i \in Inum |-> [ref |-> itable[i].ref, valid |-> itable[i].valid, d |-> itable[i].d]]

RefInv ==
  /\ \A i \in Inum : itable[i].ref = Cardinality(FilesOf(i)) + Cardinality(CwdsOf(i))
                                     + Cardinality(RegsOf(i)) + Cardinality(PutsOf(i))
  /\ \A f \in File : ftable[f].ref =
       Cardinality({x \in Proc \X Fd : ofile[x[1]][x[2]] = f})

Inv == ThreadInv /\ DiskInv /\ FileInv /\ LockInv /\ EntryInv /\ OutInv /\ ItableInv /\ RefInv
=============================================================================

-------------------------------- MODULE Files --------------------------------
(***************************************************************************)
(* Files, directories and inodes: the path system calls of kernel/         *)
(* sysfile.c, the open files of file.c and the inode table of fs.c, by     *)
(* several processes, with a crash at any time and the recovery of         *)
(* orphaned inodes at boot.                                                *)
(*                                                                         *)
(* A step is what a process does between two points at which it may wait   *)
(* for an inode's lock or at which another process may see the inode       *)
(* table.  An inode that is locked and unlocked inside a step only has to  *)
(* be free; `lock' holds those that stay locked between steps.             *)
(*                                                                         *)
(* No path goes through "..": in a directory that has been removed,        *)
(* together with its parent, that entry names a freed inode and ilock      *)
(* panics.  The other panic that programs can bring about is iget's, when  *)
(* every entry of the inode table is in use: it is a step, and the last.   *)
(*                                                                         *)
(* The log is atomic here, as Log shows: the disk takes what the calls     *)
(* have written when the last of them ends, and a crash goes back to that. *)
(***************************************************************************)
EXTENDS DiskFs

CONSTANTS
  Proc, InitProc,  \* the processes, and the one that boots
  NoProc,
  Request,         \* the path system calls that programs make
  NINODE,          \* entries of the inode table
  NFile, NOFILE,   \* sizes of the file table and of a process's descriptors
  NDEV,            \* device numbers below NDEV exist
  MaxChunk,        \* blocks that filewrite writes in a transaction
  WriteLen,        \* blocks that programs write in a call
  MaxCall, MaxCrash \* bounds: system calls, and crashes

ASSUME FilesAssumption ==
  /\ IsFiniteSet(Proc) /\ InitProc \in Proc /\ NoProc \notin Proc
  /\ \A r \in Request : /\ r.arg.mode \subseteq {"WRONLY", "RDWR", "CREATE", "TRUNC"}
                        /\ r.arg.call \in {"open", "create", "link", "unlink", "chdir", "exec"}
                        /\ \A x \in DOMAIN r.path : r.path[x] # ".."
                        /\ \A x \in DOMAIN r.arg.new : r.arg.new[x] # ".."
  /\ NINODE \in Nat \ {0} /\ {NFile, NOFILE, NDEV, MaxCall, MaxCrash} \subseteq Nat
  /\ WriteLen \subseteq Nat /\ MaxChunk \in Nat \ {0}

VARIABLES
  fs,      \* the file system as the buffer cache shows it
  disk,    \* what is committed
  itable,  \* ref, valid and the copy of the inode: its entry in the table if ref > 0
  lock,    \* the holder of ip->lock between steps
  ftable,  \* the open files
  ofile, cwd,
  out,     \* the processes inside a transaction
  k,       \* the kernel thread of each process
  calls, crashes,
  left,    \* history: the inodes that nobody frees before the next boot
  panicked \* iget has called panic

mem  == <<itable, lock>>
open == <<ftable, ofile, cwd>>
work == <<fs, disk, mem, open, out, k, calls, crashes, left>>
vars == <<work, panicked>>

File   == 1 .. NFile
Fd     == 1 .. NOFILE
NoFile == [ref |-> 0, type |-> "none", ip |-> 0, off |-> 0, r |-> FALSE, w |-> FALSE]
NoInode == [ref |-> 0, valid |-> FALSE, d |-> Unused]

\* What a program asks for: a path, which is a sequence of names with "/" first
\* if it is absolute, and arguments; `call' is the label that takes what namex finds.
Arg(c) == [call |-> c, type |-> "file", major |-> 0, mode |-> {}, new |-> <<>>]
Req(path, arg) == [path |-> path, arg |-> arg]

SysOpen(path, mode) == Req(path,
  [Arg(IF "CREATE" \in mode THEN "create" ELSE "open") EXCEPT !.mode = mode])
SysMkdir(path)      == Req(path, [Arg("create") EXCEPT !.type = "dir"])
SysMknod(path, n)   == Req(path, [Arg("create") EXCEPT !.type = "dev", !.major = n])
SysLink(path, new)  == Req(path, [Arg("link") EXCEPT !.new = new])
SysUnlink(path)     == Req(path, Arg("unlink"))
SysChdir(path)      == Req(path, Arg("chdir"))
SysExec(path)       == Req(path, Arg("exec"))

\* A kernel thread: its label; the references it owns (ip, dp, old, and puts, the
\* list of iput calls to come, after which it goes to ret); where it goes when its
\* transaction ends; what is left of a path, the call's arguments, the file it
\* writes, the blocks left to write and written, or the loop variable (n, m).
Frame(l) == [pc |-> l, ret |-> l, after |-> "user", ip |-> 0, dp |-> 0, old |-> 0, puts |-> <<>>,
             path |-> <<>>, arg |-> Arg(""), f |-> 0, n |-> 0, m |-> 0]

\* What a boot starts from: the first process, in forkret, and its directory.
BootTable == [i \in Inum |-> IF i = ROOTINO THEN [NoInode EXCEPT !.ref = 1] ELSE NoInode]
NoLocks   == [i \in Inum |-> NoProc]
NoFiles   == [f \in File |-> NoFile]
NoFds     == [p \in Proc |-> [fd \in Fd |-> 0]]
BootCwd   == [p \in Proc |-> IF p = InitProc THEN ROOTINO ELSE 0]
BootProcs == [p \in Proc |-> IF p = InitProc THEN [Frame("reclaim") EXCEPT !.n = 1] ELSE Frame("dead")]

Init ==
  /\ fs = Mkfs /\ disk = Mkfs
  /\ itable = BootTable /\ lock = NoLocks /\ ftable = NoFiles
  /\ ofile = NoFds /\ cwd = BootCwd /\ out = {} /\ k = BootProcs
  /\ calls = 0 /\ crashes = 0 /\ left = {} /\ panicked = FALSE

At(p, l)    == k[p].pc = l
Free(i)     == lock[i] = NoProc

\* What other CPUs still do after iget's panic is left out: they get neither
\* itable.lock nor a commit, because the call that has panicked does not end.
Running     == ~panicked /\ UNCHANGED panicked
Goto(p, fr) == Running /\ k' = [k EXCEPT ![p] = fr]
To(p, l)    == Goto(p, [k[p] EXCEPT !.pc = l])

\* iput the inodes s, then go to l; what goes to puts leaves the registers.
Iput(fr, s, l) == [fr EXCEPT !.puts = s, !.pc = "put", !.ret = l]

Iget(T, i) == [T EXCEPT ![i] = IF @.ref > 0 THEN [@ EXCEPT !.ref = T[i].ref + 1]
                               ELSE [NoInode EXCEPT !.ref = 1]]

InUse == {i \in Inum : itable[i].ref > 0}

\* Bug: the loop ends before the last entry.
CanIgetShort(i) == i = 0 \/ i \in InUse \/ Cardinality(InUse) + 1 < NINODE

\* iget finds the inode in the table, or room for it; it is not called for 0.
CanIget(i) == i = 0 \/ i \in InUse \/ Cardinality(InUse) < NINODE

\* ilock reads the inode unless the entry is valid.
Ilock(T, i) == IF T[i].valid THEN T ELSE [T EXCEPT ![i] = [@ EXCEPT !.valid = TRUE, !.d = fs.ino[i]]]
Locked(i)   == Ilock(itable, i)[i].d

\* What dirlookup finds for the next name in p's directory, or 0.
Looked(p) == LET j == DirLookup(fs, k[p].ip, Head(k[p].path))
             IN IF j = 0 THEN 0 ELSE fs.ents[k[p].ip][j].inum

\* The inode may be locked by others again.
Iunlock(i) == lock' = [lock EXCEPT ![i] = NoProc]

\* iupdate, on both sides of the cache: inode i becomes d.
Update(T, i, d) == [Ilock(T, i) EXCEPT ![i].d = d]

-----------------------------------------------------------------------------
(* begin_op, end_op and iput *)

EndOp(p) ==
  /\ At(p, "end")
  /\ out'  = out \ {p}
  /\ disk' = IF out = {p} THEN fs ELSE disk
  /\ Goto(p, IF k[p].after = "user" THEN Frame("user")
             ELSE [Frame(k[p].after) EXCEPT !.f = k[p].f, !.n = k[p].n])
  /\ UNCHANGED <<fs, mem, open, calls, crashes, left>>

\* Bug: the references are not looked at.
IsLastUnlinked(i) == itable[i].valid /\ itable[i].d.nlink = 0

IsLast(i) == itable[i].ref = 1 /\ itable[i].valid /\ itable[i].d.nlink = 0

Unref(p) ==
  LET i == Head(k[p].puts)
      s == Tail(k[p].puts)
  IN /\ itable' = [itable EXCEPT ![i] = IF @.ref = 1 THEN NoInode
                                      ELSE [@ EXCEPT !.ref = itable[i].ref - 1]]
     /\ Goto(p, [k[p] EXCEPT !.puts = s, !.pc = IF s = <<>> THEN k[p].ret ELSE "put"])
     /\ UNCHANGED <<fs, disk, lock, open, out, calls, crashes>>

IputRef(p)  == At(p, "put") /\ ~IsLast(Head(k[p].puts)) /\ Unref(p) /\ UNCHANGED left

IputLast(p) ==
  LET i == Head(k[p].puts) IN
  /\ At(p, "put") /\ IsLast(i) /\ Free(i)
  /\ lock' = [lock EXCEPT ![i] = p]
  /\ To(p, "free")
  /\ UNCHANGED <<fs, disk, itable, open, out, calls, crashes, left>>

\* itrunc(ip); ip->type = 0; iupdate(ip).  From here on ialloc may give i away.
IputFree(p) ==
  LET i == Head(k[p].puts)
      t == Itrunc(fs, i, itable[i].d)
      d == [t.d EXCEPT !.type = "free"]
      lost == {fs.ents[i][j].inum : j \in 3 .. Len(fs.ents[i])} \ {0}
  IN /\ At(p, "free")
     /\ fs' = [Iupdate(t.fs, i, d) EXCEPT !.stray = (@ \ {i}) \union lost]
     /\ itable' = [itable EXCEPT ![i].d = d]
     /\ To(p, "freed")
     /\ UNCHANGED <<disk, lock, open, out, calls, crashes, left>>

IputInvalid(p) ==
  LET i == Head(k[p].puts) IN
  /\ At(p, "freed")
  /\ itable' = [itable EXCEPT ![i].valid = FALSE]
  /\ Iunlock(i)
  /\ To(p, "drop")
  /\ UNCHANGED <<fs, disk, open, out, calls, crashes, left>>

\* The code does not look at the inode again, though a create may have taken it
\* and given it up while this reference was still counted.
IputDrop(p) ==
  LET i == Head(k[p].puts) IN
  /\ At(p, "drop") /\ Unref(p)
  /\ left' = IF IsLast(i) THEN left \union {i} ELSE left

-----------------------------------------------------------------------------
(* namex *)

\* The call of nameiparent: the walk stops one element early.
WantsParent(fr) == fr.arg.call \in {"create", "unlink", "dirlink"}

Start(p, path) == IF path # <<>> /\ Head(path) = "/" THEN ROOTINO ELSE cwd[p]
Names(path)    == SelectSeq(path, LAMBDA nm : nm # "/")

\* begin_op, and the first step of namex.
Syscall(p, r) ==
  /\ At(p, "user") /\ calls < MaxCall /\ CanIget(Start(p, r.path))
  /\ calls' = calls + 1
  /\ out' = out \union {p}
  /\ itable' = Iget(itable, Start(p, r.path))
  /\ Goto(p, [Frame("walk") EXCEPT !.ip = Start(p, r.path), !.path = Names(r.path), !.arg = r.arg])
  /\ UNCHANGED <<fs, disk, lock, open, crashes, left>>

NameError(p) == IF k[p].arg.call = "dirlink" THEN "badlink" ELSE "end"

\* The path ends: namei has found ip, and nameiparent has no parent to give.
WalkEnd(p) ==
  LET fr == k[p] IN
  /\ At(p, "walk") /\ fr.path = <<>>
  /\ Goto(p, IF WantsParent(fr) THEN Iput([fr EXCEPT !.ip = 0], <<fr.ip>>, NameError(p))
             ELSE [fr EXCEPT !.pc = fr.arg.call])
  /\ UNCHANGED <<fs, disk, mem, open, out, calls, crashes, left>>

WalkParent(p) ==
  LET fr == k[p] IN
  /\ At(p, "walk") /\ Len(fr.path) = 1 /\ WantsParent(fr) /\ Free(fr.ip)
  /\ Locked(fr.ip).type = "dir"
  /\ itable' = Ilock(itable, fr.ip)
  /\ To(p, fr.arg.call)
  /\ UNCHANGED <<fs, disk, lock, open, out, calls, crashes, left>>

\* The next element, or the error that ip is no directory or has no such entry.
WalkNext(p) ==
  LET fr == k[p]
      T  == Ilock(itable, fr.ip)
      j  == DirLookup(fs, fr.ip, Head(fr.path))
      i  == fs.ents[fr.ip][j].inum
  IN /\ At(p, "walk") /\ fr.path # <<>> /\ Free(fr.ip)
     /\ T[fr.ip].d.type = "dir" => ~(WantsParent(fr) /\ Len(fr.path) = 1)
     /\ IF T[fr.ip].d.type # "dir" \/ j = 0
        THEN /\ itable' = T
             /\ Goto(p, Iput([fr EXCEPT !.ip = 0], <<fr.ip>>, NameError(p)))
        ELSE /\ CanIget(i)
             /\ itable' = Iget(T, i)
             /\ Goto(p, Iput([fr EXCEPT !.ip = i, !.path = Tail(@)], <<fr.ip>>, "walk"))
     /\ UNCHANGED <<fs, disk, lock, open, out, calls, crashes, left>>

\* iunlockput(ip), end_op and an error: the end of most calls that fail.
Fail(p, i) ==
  /\ itable' = Ilock(itable, i)
  /\ Goto(p, Iput([k[p] EXCEPT !.ip = 0], <<i>>, "end"))
  /\ UNCHANGED <<fs, disk, lock, open, out, calls, crashes, left>>

-----------------------------------------------------------------------------
(* sys_open and create *)

\* sys_open takes ip->lock and keeps it, or create has taken it.
OpenLock(p) ==
  LET i == k[p].ip IN
  /\ At(p, "open") /\ Free(i)
  /\ ~(Locked(i).type = "dir" /\ k[p].arg.mode # {})
  /\ itable' = Ilock(itable, i)
  /\ lock'   = [lock EXCEPT ![i] = p]
  /\ To(p, "opened")
  /\ UNCHANGED <<fs, disk, open, out, calls, crashes, left>>

OpenDir(p) ==
  /\ At(p, "open") /\ Free(k[p].ip)
  /\ Locked(k[p].ip).type = "dir" /\ k[p].arg.mode # {}
  /\ Fail(p, k[p].ip)

FreeFiles   == {f \in File : ftable[f].ref = 0}
FreeFds(p)  == {fd \in Fd : ofile[p][fd] = 0}
BadDev(i)   == itable[i].d.type = "dev" /\ itable[i].d.major >= NDEV

\* No such device, no file or no descriptor.
OpenFail(p) ==
  LET i == k[p].ip IN
  /\ At(p, "opened")
  /\ BadDev(i) \/ FreeFiles = {} \/ FreeFds(p) = {}
  /\ Iunlock(i)
  /\ Goto(p, Iput([k[p] EXCEPT !.ip = 0], <<i>>, "end"))
  /\ UNCHANGED <<fs, disk, itable, open, out, calls, crashes, left>>

\* The file takes over the reference.
OpenFile(p) ==
  LET i == k[p].ip
      m == k[p].arg.mode
      t == Itrunc(fs, i, itable[i].d)
      trunc == "TRUNC" \in m /\ itable[i].d.type = "file"
  IN /\ At(p, "opened")
     /\ ~BadDev(i) /\ FreeFiles # {} /\ FreeFds(p) # {}
     /\ ftable' = [ftable EXCEPT ![Min(FreeFiles)] =
          [ref |-> 1, type |-> IF itable[i].d.type = "dev" THEN "dev" ELSE "inode", ip |-> i, off |-> 0,
           r |-> "WRONLY" \notin m, w |-> m \intersect {"WRONLY", "RDWR"} # {}]]
     /\ ofile'  = [ofile EXCEPT ![p][Min(FreeFds(p))] = Min(FreeFiles)]
     /\ fs'     = IF trunc THEN t.fs ELSE fs
     /\ itable' = IF trunc THEN [itable EXCEPT ![i].d = t.d] ELSE itable
     /\ Iunlock(i)
     /\ Goto(p, [k[p] EXCEPT !.pc = "end", !.ip = 0])
     /\ UNCHANGED <<disk, cwd, out, calls, crashes, left>>

\* create finds the name and goes from the directory to the inode.
CreateFound(p) ==
  LET dp == k[p].ip
      j  == DirLookup(fs, dp, Head(k[p].path))
      i  == fs.ents[dp][j].inum
  IN /\ At(p, "create") /\ Free(dp) /\ j # 0 /\ CanIget(i)
     /\ itable' = Iget(Ilock(itable, dp), i)
     /\ Goto(p, Iput([k[p] EXCEPT !.ip = i], <<dp>>, "exists"))
     /\ UNCHANGED <<fs, disk, lock, open, out, calls, crashes, left>>

CreateExists(p) ==
  LET i == k[p].ip IN
  /\ At(p, "exists") /\ Free(i)
  /\ k[p].arg.type = "file" /\ Locked(i).type \in {"file", "dev"}
  /\ itable' = Ilock(itable, i)
  /\ lock'   = [lock EXCEPT ![i] = p]
  /\ To(p, "opened")
  /\ UNCHANGED <<fs, disk, open, out, calls, crashes, left>>

CreateRefused(p) ==
  /\ At(p, "exists") /\ Free(k[p].ip)
  /\ ~(k[p].arg.type = "file" /\ Locked(k[p].ip).type \in {"file", "dev"})
  /\ Fail(p, k[p].ip)

FreeInodes == {i \in Inum : fs.ino[i].type = "free"}

CreateNoInode(p) ==
  LET dp == k[p].ip IN
  /\ At(p, "create") /\ Free(dp) /\ DirLookup(fs, dp, Head(k[p].path)) = 0
  /\ FreeInodes = {}
  /\ Fail(p, dp)

\* ialloc, with the directory locked.  Its scan is not atomic: an inode before
\* the one it takes may be free again.
CreateAlloc(p) ==
  LET dp == k[p].ip IN
  /\ At(p, "create") /\ Free(dp) /\ DirLookup(fs, dp, Head(k[p].path)) = 0
  /\ lock' = [lock EXCEPT ![dp] = p]
  /\ \E i \in FreeInodes :
       /\ CanIget(i)
       /\ fs'     = Iupdate(fs, i, [Unused EXCEPT !.type = k[p].arg.type])
       /\ itable' = Iget(Ilock(itable, dp), i)
       /\ Goto(p, [k[p] EXCEPT !.pc = "new", !.dp = dp, !.ip = i])
  /\ UNCHANGED <<disk, open, out, calls, crashes, left>>

\* dirlink, if what came before it worked.
Then(r, i, nm, inum) == IF r.ok THEN DirLink(r.fs, i, r.d, nm, inum) ELSE r

\* The entry for the name, after the new inode's own entries.
Entered(p, own) ==
  LET dp == k[p].dp
      fd == itable[dp].d
  IN IF own.ok THEN DirLink(own.fs, dp, fd, Head(k[p].path), k[p].ip)
     ELSE [ok |-> FALSE, fs |-> own.fs, d |-> fd]

\* ".." counts as a link of the directory.
CountUp(p, own, name) ==
  LET d == IF k[p].arg.type = "dir" /\ name.ok THEN [name.d EXCEPT !.nlink = @ + 1] ELSE name.d
  IN [ok |-> name.ok, ip |-> own.d, dp |-> d, fs |-> Iupdate(name.fs, k[p].dp, d)]
NameIt(p, own) == CountUp(p, own, Entered(p, own))

\* create writes the new inode, "." and "..", and the entry for the name: the
\* inodes and the file system after it, and whether there was room.
Linked(p) ==
  LET i == k[p].ip
      d == [Locked(i) EXCEPT !.nlink = 1, !.major = k[p].arg.major]
      r == [ok |-> TRUE, fs |-> Iupdate(fs, i, d), d |-> d]
  IN NameIt(p, IF k[p].arg.type = "dir" THEN Then(Then(r, i, ".", i), i, "..", k[p].dp) ELSE r)

CreateNew(p) ==
  LET i  == k[p].ip
      dp == k[p].dp
  IN /\ At(p, "new") /\ Free(i)
     /\ \E c \in {Linked(p)} :
          /\ c.ok
          /\ fs'     = c.fs
          /\ itable' = Update(Update(itable, i, c.ip), dp, c.dp)
     /\ lock'   = [lock EXCEPT ![i] = p, ![dp] = NoProc]
     /\ Goto(p, Iput([k[p] EXCEPT !.dp = 0], <<dp>>,
                     IF k[p].arg.type = "file" THEN "opened" ELSE "made"))
     /\ UNCHANGED <<disk, open, out, calls, crashes, left>>

\* The disk is full: ip->nlink = 0, and iput frees what ialloc gave.
CreateFail(p) ==
  LET i == k[p].ip
      Unlinked(d) == [d EXCEPT !.nlink = 0]
  IN /\ At(p, "new") /\ Free(i)
     /\ \E c \in {Linked(p)} :
          /\ ~c.ok
          /\ fs'     = Iupdate(c.fs, i, Unlinked(c.ip))
          /\ itable' = Update(Update(itable, i, Unlinked(c.ip)), k[p].dp, c.dp)
     /\ Goto(p, Iput([k[p] EXCEPT !.ip = 0], <<i>>, "bad"))
     /\ UNCHANGED <<disk, lock, open, out, calls, crashes, left>>

\* iunlockput(dp) after an error under its lock.
DirFail(p) ==
  LET dp == k[p].dp IN
  /\ At(p, "bad")
  /\ Iunlock(dp)
  /\ Goto(p, Iput([k[p] EXCEPT !.dp = 0], <<dp>>, "end"))
  /\ UNCHANGED <<fs, disk, itable, open, out, calls, crashes, left>>

\* sys_mkdir and sys_mknod
Made(p) ==
  LET i == k[p].ip IN
  /\ At(p, "made")
  /\ Iunlock(i)
  /\ Goto(p, Iput([k[p] EXCEPT !.ip = 0], <<i>>, "end"))
  /\ UNCHANGED <<fs, disk, itable, open, out, calls, crashes, left>>

-----------------------------------------------------------------------------
(* sys_link and sys_unlink *)

LinkDir(p) ==
  /\ At(p, "link") /\ Free(k[p].ip)
  /\ Locked(k[p].ip).type = "dir"
  /\ Fail(p, k[p].ip)

\* The count goes up before the entry is there; then nameiparent(new).
LinkCount(p) ==
  LET i   == k[p].ip
      d   == Locked(i)
      new == k[p].arg.new
      T   == Update(itable, i, [d EXCEPT !.nlink = @ + 1])
  IN /\ At(p, "link") /\ Free(i) /\ d.type # "dir" /\ CanIget(Start(p, new))
     /\ fs'     = Iupdate(fs, i, [d EXCEPT !.nlink = @ + 1])
     /\ itable' = Iget(T, Start(p, new))
     /\ Goto(p, [k[p] EXCEPT !.pc = "walk", !.old = i, !.ip = Start(p, new),
                             !.path = Names(new), !.arg = Arg("dirlink")])
     /\ UNCHANGED <<disk, lock, open, out, calls, crashes, left>>

\* dirlink, whether or not it finds room and a free name.  What it finds under
\* the name it puts at once, never as the last one: the entry is a link.
LinkEntry(p) ==
  LET dp == k[p].ip
      i  == k[p].old
  IN /\ At(p, "dirlink") /\ Free(dp) /\ CanIget(Looked(p))
     /\ \E r \in {DirLink(fs, dp, Locked(dp), Head(k[p].path), i)} :
          /\ fs'     = r.fs
          /\ itable' = Update(itable, dp, r.d)
          /\ Goto(p, IF r.ok THEN Iput([k[p] EXCEPT !.ip = 0, !.old = 0], <<dp, i>>, "end")
                             ELSE Iput([k[p] EXCEPT !.ip = 0], <<dp>>, "badlink"))
     /\ UNCHANGED <<disk, lock, open, out, calls, crashes, left>>

\* Bug: the link count is not taken back.
BadLinkKeeps(p) ==
  LET i == k[p].old IN
  /\ At(p, "badlink") /\ Free(i)
  /\ itable' = Ilock(itable, i)
  /\ Goto(p, Iput([k[p] EXCEPT !.old = 0], <<i>>, "end"))
  /\ UNCHANGED <<fs, disk, lock, open, out, calls, crashes, left>>

BadLink(p) ==
  LET i == k[p].old
      d == [Locked(i) EXCEPT !.nlink = @ - 1]
  IN /\ At(p, "badlink") /\ Free(i)
     /\ fs'     = Iupdate(fs, i, d)
     /\ itable' = Update(itable, i, d)
     /\ Goto(p, Iput([k[p] EXCEPT !.old = 0], <<i>>, "end"))
     /\ UNCHANGED <<disk, lock, open, out, calls, crashes, left>>

Entry(p) == DirLookup(fs, IF k[p].dp = 0 THEN k[p].ip ELSE k[p].dp, Head(k[p].path))

\* "." and "..", or no such entry.
UnlinkFail(p) ==
  /\ At(p, "unlink") /\ Free(k[p].ip)
  /\ Head(k[p].path) \in {".", ".."} \/ Entry(p) = 0
  /\ Fail(p, k[p].ip)

\* From here the directory stays locked until the entry is gone.
UnlinkFound(p) ==
  LET dp == k[p].ip
      i  == fs.ents[dp][Entry(p)].inum
  IN /\ At(p, "unlink") /\ Free(dp)
     /\ Head(k[p].path) \notin {".", ".."} /\ Entry(p) # 0 /\ CanIget(i)
     /\ itable' = Iget(Ilock(itable, dp), i)
     /\ lock'   = [lock EXCEPT ![dp] = p]
     /\ Goto(p, [k[p] EXCEPT !.pc = "remove", !.dp = dp, !.ip = i])
     /\ UNCHANGED <<fs, disk, open, out, calls, crashes, left>>

UnlinkNotEmpty(p) ==
  LET i == k[p].ip IN
  /\ At(p, "remove") /\ Free(i)
  /\ Locked(i).type = "dir" /\ ~IsDirEmpty(fs, i)
  /\ itable' = Ilock(itable, i)
  /\ Goto(p, Iput([k[p] EXCEPT !.ip = 0], <<i>>, "bad"))
  /\ UNCHANGED <<fs, disk, lock, open, out, calls, crashes, left>>

\* Bug: the parent keeps the link count for "..".
UnlinkRemoveUp(p) ==
  LET i  == k[p].ip
      dp == k[p].dp
  IN /\ At(p, "remove") /\ Free(i)
     /\ Locked(i).type = "dir" => IsDirEmpty(fs, i)
     /\ fs'     = WriteEntry(fs, dp, itable[dp].d, Entry(p), NoEntry).fs
     /\ itable' = Ilock(itable, i)
     /\ lock'   = [lock EXCEPT ![i] = p, ![dp] = NoProc]
     /\ Goto(p, Iput([k[p] EXCEPT !.dp = 0], <<dp>>, "unlinked"))
     /\ UNCHANGED <<disk, open, out, calls, crashes, left>>

\* The entry goes, then the directory's lock; the inode is locked meanwhile.
UnlinkRemove(p) ==
  LET i  == k[p].ip
      dp == k[p].dp
      Down(d) == IF Locked(i).type = "dir" THEN [d EXCEPT !.nlink = @ - 1] ELSE d
  IN /\ At(p, "remove") /\ Free(i)
     /\ Locked(i).type = "dir" => IsDirEmpty(fs, i)
     /\ \E w \in {WriteEntry(fs, dp, itable[dp].d, Entry(p), NoEntry)} :
          /\ fs'     = Iupdate(w.fs, dp, Down(w.d))
          /\ itable' = Update(Ilock(itable, i), dp, Down(w.d))
     /\ lock'   = [lock EXCEPT ![i] = p, ![dp] = NoProc]
     /\ Goto(p, Iput([k[p] EXCEPT !.dp = 0], <<dp>>, "unlinked"))
     /\ UNCHANGED <<disk, open, out, calls, crashes, left>>

UnlinkCount(p) ==
  LET i == k[p].ip
      d == [itable[i].d EXCEPT !.nlink = @ - 1]
  IN /\ At(p, "unlinked")
     /\ fs'     = Iupdate(fs, i, d)
     /\ itable' = Update(itable, i, d)
     /\ Iunlock(i)
     /\ Goto(p, Iput([k[p] EXCEPT !.ip = 0], <<i>>, "end"))
     /\ UNCHANGED <<disk, open, out, calls, crashes, left>>

-----------------------------------------------------------------------------
(* sys_chdir and kexec *)

ChdirFail(p) ==
  /\ At(p, "chdir") /\ Free(k[p].ip)
  /\ Locked(k[p].ip).type # "dir"
  /\ Fail(p, k[p].ip)

\* The code assigns p->cwd after end_op; only p reads it.
Chdir(p) ==
  LET i == k[p].ip IN
  /\ At(p, "chdir") /\ Free(i)
  /\ Locked(i).type = "dir"
  /\ itable' = Ilock(itable, i)
  /\ cwd'    = [cwd EXCEPT ![p] = i]
  /\ Goto(p, Iput([k[p] EXCEPT !.ip = 0], <<cwd[p]>>, "end"))
  /\ UNCHANGED <<fs, disk, lock, ftable, ofile, out, calls, crashes, left>>

\* kexec holds the lock while it loads the file, then puts the inode, whether
\* it is a program or not.
Exec(p) == At(p, "exec") /\ Free(k[p].ip) /\ Fail(p, k[p].ip)

-----------------------------------------------------------------------------
(* Open files *)

\* Bug: the descriptor is not cleared.
CloseKeeps(p, fd, after) ==
  LET f == ofile[p][fd] IN
  /\ f # 0
  /\ UNCHANGED ofile
  /\ ftable' = [ftable EXCEPT ![f].ref = @ - 1]
  /\ Goto(p, Frame(after))
  /\ UNCHANGED out

\* sys_close, fileclose: the last close of an inode's file starts a transaction
\* for its iput.
Close(p, fd, after) ==
  LET f == ofile[p][fd] IN
  /\ f # 0
  /\ ofile'  = [ofile EXCEPT ![p][fd] = 0]
  /\ ftable' = [ftable EXCEPT ![f] = IF @.ref = 1 THEN NoFile
                                     ELSE [@ EXCEPT !.ref = ftable[f].ref - 1]]
  /\ IF ftable[f].ref = 1
     THEN /\ out' = out \union {p}
          /\ Goto(p, Iput([Frame("put") EXCEPT !.after = after], <<ftable[f].ip>>, "end"))
     ELSE /\ UNCHANGED out
          /\ Goto(p, Frame(after))

SysClose(p, fd) ==
  /\ At(p, "user") /\ calls < MaxCall /\ calls' = calls + 1
  /\ Close(p, fd, "user")
  /\ UNCHANGED <<fs, disk, mem, cwd, crashes, left>>

\* The file behind a descriptor, or 0.
Argfd(p, fd) == ofile[p][fd]

Filedup(T, f) == [T EXCEPT ![f].ref = @ + 1]

SysDup(p, fd) ==
  LET f == Argfd(p, fd) IN
  /\ Running /\ At(p, "user") /\ calls < MaxCall /\ calls' = calls + 1
  /\ f # 0 /\ FreeFds(p) # {}
  /\ ofile'  = [ofile EXCEPT ![p][Min(FreeFds(p))] = f]
  /\ ftable' = Filedup(ftable, f)
  /\ UNCHANGED <<fs, disk, mem, cwd, out, k, crashes, left>>

\* How many of n blocks from off are read of an inode.
Readi(d, off, n) == IF off > d.size THEN 0 ELSE Min({n, d.size - off})

\* Under ip->lock.
Fileread(f, n) ==
  LET i == ftable[f].ip IN
  /\ ftable[f].r /\ ftable[f].type = "inode" /\ Free(i)
  /\ itable' = Ilock(itable, i)
  /\ ftable' = [ftable EXCEPT ![f].off = @ + Readi(Locked(i), @, n)]

\* What fstat copies out is left out.
Filestat(f) ==
  LET i == ftable[f].ip IN
  /\ ftable[f].type \in {"inode", "dev"} /\ Free(i)
  /\ itable' = Ilock(itable, i)
  /\ UNCHANGED ftable

SysRead(p, fd, n) ==
  /\ Running /\ At(p, "user") /\ calls < MaxCall /\ calls' = calls + 1
  /\ Argfd(p, fd) # 0 /\ Fileread(Argfd(p, fd), n)
  /\ UNCHANGED <<fs, disk, lock, ofile, cwd, out, k, crashes, left>>

SysFstat(p, fd) ==
  /\ Running /\ At(p, "user") /\ calls < MaxCall /\ calls' = calls + 1
  /\ Argfd(p, fd) # 0 /\ Filestat(Argfd(p, fd))
  /\ UNCHANGED <<fs, disk, lock, ofile, cwd, out, k, crashes, left>>

SysWrite(p, fd, n) ==
  LET f == Argfd(p, fd) IN
  /\ At(p, "user") /\ calls < MaxCall /\ calls' = calls + 1
  /\ f # 0 /\ ftable[f].type = "inode" /\ ftable[f].w
  /\ Goto(p, [Frame("write") EXCEPT !.f = f, !.n = n])
  /\ UNCHANGED <<fs, disk, mem, open, out, crashes, left>>

\* filewrite: a transaction for each MaxChunk blocks.
WriteBegin(p) ==
  /\ At(p, "write")
  /\ out' = out \union {p}
  /\ To(p, "writelock")
  /\ UNCHANGED <<fs, disk, mem, open, calls, crashes, left>>

Chunk(p) == Min({k[p].n, MaxChunk})

\* writei starts, or refuses: beyond the end of a file that was truncated, or too long.
WriteLock(p) ==
  LET f == k[p].f
      i == ftable[f].ip
  IN /\ At(p, "writelock") /\ Free(i)
     /\ itable' = Ilock(itable, i)
     /\ IF ftable[f].off > Locked(i).size \/ ftable[f].off + Chunk(p) > MAXFILE
        THEN Goto(p, [k[p] EXCEPT !.pc = "end"]) /\ UNCHANGED lock
        ELSE To(p, "writei") /\ lock' = [lock EXCEPT ![i] = p]
     /\ UNCHANGED <<fs, disk, open, out, calls, crashes, left>>

\* One block: bmap may find the disk full, and either_copyin may fail after
\* bmap has allocated.  The address is in the copy of the inode only.
WriteBlock(p) ==
  LET f == k[p].f
      i == ftable[f].ip
  IN /\ At(p, "writei") /\ k[p].m < Chunk(p)
     /\ \E b \in {Bmap(fs, itable[i].d, ftable[f].off + k[p].m)} :
          /\ fs'     = b.fs
          /\ itable' = [itable EXCEPT ![i].d = b.d]
          /\ \/ b.addr # 0 /\ Goto(p, [k[p] EXCEPT !.m = @ + 1])
             \/ To(p, "written")
     /\ UNCHANGED <<disk, lock, open, out, calls, crashes, left>>

\* Bug: the inode is written back only if it has grown.
WriteDoneSize(p) ==
  LET f == k[p].f
      i == ftable[f].ip
      m == k[p].m
      d == [itable[i].d EXCEPT !.size = IF ftable[f].off + m > @ THEN ftable[f].off + m ELSE @]
  IN /\ At(p, "written") \/ (At(p, "writei") /\ m = Chunk(p))
     /\ fs'     = IF d.size > itable[i].d.size THEN Iupdate(fs, i, d) ELSE fs
     /\ itable' = [itable EXCEPT ![i].d = d]
     /\ ftable' = [ftable EXCEPT ![f].off = @ + m]
     /\ Iunlock(i)
     /\ Goto(p, [k[p] EXCEPT !.pc = "end", !.n = @ - m, !.m = 0,
                             !.after = IF m = Chunk(p) /\ k[p].n > m THEN "write" ELSE "user"])
     /\ UNCHANGED <<disk, ofile, cwd, out, calls, crashes, left>>

\* The size and iupdate, then f->off; filewrite goes on if all of the chunk was written.
WriteDone(p) ==
  LET f == k[p].f
      i == ftable[f].ip
      m == k[p].m
      d == [itable[i].d EXCEPT !.size = IF ftable[f].off + m > @ THEN ftable[f].off + m ELSE @]
  IN /\ At(p, "written") \/ (At(p, "writei") /\ m = Chunk(p))
     /\ fs'     = Iupdate(fs, i, d)
     /\ itable' = [itable EXCEPT ![i].d = d]
     /\ ftable' = [ftable EXCEPT ![f].off = @ + m]
     /\ Iunlock(i)
     /\ Goto(p, [k[p] EXCEPT !.pc = "end", !.n = @ - m, !.m = 0,
                             !.after = IF m = Chunk(p) /\ k[p].n > m THEN "write" ELSE "user"])
     /\ UNCHANGED <<disk, ofile, cwd, out, calls, crashes, left>>

-----------------------------------------------------------------------------
(* kfork, kexit, boot and crash *)

Fork(p, q) ==
  /\ At(p, "user") /\ At(q, "dead")
  /\ ftable' = [f \in File |-> [ftable[f] EXCEPT !.ref =
                  @ + Cardinality({fd \in Fd : ofile[p][fd] = f})]]
  /\ ofile'  = [ofile EXCEPT ![q] = ofile[p]]
  /\ cwd'    = [cwd EXCEPT ![q] = cwd[p]]
  /\ itable' = Iget(itable, cwd[p])
  /\ Goto(q, Frame("user"))
  /\ UNCHANGED <<fs, disk, lock, out, calls, crashes, left>>

SysExit(p) ==
  /\ At(p, "user") /\ p # InitProc
  /\ Goto(p, Frame("exit"))
  /\ UNCHANGED <<fs, disk, mem, open, out, calls, crashes, left>>

ExitClose(p) ==
  /\ At(p, "exit") /\ FreeFds(p) # Fd
  /\ Close(p, Min(Fd \ FreeFds(p)), "exit")
  /\ UNCHANGED <<fs, disk, mem, cwd, calls, crashes, left>>

ExitCwd(p) ==
  /\ At(p, "exit") /\ FreeFds(p) = Fd
  /\ out' = out \union {p}
  /\ cwd' = [cwd EXCEPT ![p] = 0]
  /\ Goto(p, Iput([Frame("put") EXCEPT !.after = "dead"], <<cwd[p]>>, "end"))
  /\ UNCHANGED <<fs, disk, mem, ftable, ofile, calls, crashes, left>>

\* ireclaim, an inode at a time; nobody else runs yet.
Orphaned(i) == fs.ino[i].type # "free" /\ fs.ino[i].nlink = 0

\* Bug: the inode is put without having been read.
ReclaimUnread(p) ==
  LET i == k[p].n IN
  /\ At(p, "reclaim") /\ i \in Inum /\ Orphaned(i) /\ CanIget(i)
  /\ itable' = Iget(itable, i)
  /\ out' = out \union {p}
  /\ Goto(p, Iput([k[p] EXCEPT !.after = "reclaim", !.n = i + 1], <<i>>, "end"))
  /\ UNCHANGED <<fs, disk, lock, open, calls, crashes, left>>

Reclaim(p) ==
  LET i == k[p].n IN
  /\ At(p, "reclaim") /\ i \in Inum /\ Orphaned(i) /\ CanIget(i)
  /\ itable' = Ilock(Iget(itable, i), i)
  /\ out' = out \union {p}
  /\ Goto(p, Iput([k[p] EXCEPT !.after = "reclaim", !.n = i + 1], <<i>>, "end"))
  /\ UNCHANGED <<fs, disk, lock, open, calls, crashes, left>>

ReclaimNext(p) ==
  LET i == k[p].n IN
  /\ At(p, "reclaim") /\ ~(i \in Inum /\ Orphaned(i))
  /\ Goto(p, IF i \in Inum THEN [k[p] EXCEPT !.n = i + 1] ELSE Frame("user"))
  /\ UNCHANGED <<fs, disk, mem, open, out, calls, crashes, left>>

\* p's next step calls iget(i).
Asks(p, i) ==
  LET fr == k[p] IN
  \/ At(p, "user") /\ calls < MaxCall /\ \E r \in Request : i = Start(p, r.path)
  \/ /\ fr.pc \in {"walk", "create", "dirlink", "unlink"} /\ fr.path # <<>> /\ Free(fr.ip)
     /\ At(p, "walk") => Locked(fr.ip).type = "dir" /\ ~(WantsParent(fr) /\ Len(fr.path) = 1)
     /\ At(p, "unlink") => Head(fr.path) \notin {".", ".."}
     /\ i = Looked(p)
  \/ At(p, "create") /\ Free(fr.ip) /\ Looked(p) = 0 /\ i \in FreeInodes
  \/ At(p, "link") /\ Free(fr.ip) /\ Locked(fr.ip).type # "dir" /\ i = Start(p, fr.arg.new)
  \/ At(p, "reclaim") /\ i = fr.n /\ Orphaned(i)

\* panic("iget: no inodes")
IgetPanic(p) ==
  /\ ~panicked /\ panicked' = TRUE
  /\ \E i \in Inum : Asks(p, i) /\ ~CanIget(i)
  /\ UNCHANGED work

Crash ==
  /\ crashes < MaxCrash /\ crashes' = crashes + 1
  /\ fs' = disk
  /\ itable' = BootTable /\ lock' = NoLocks /\ ftable' = NoFiles
  /\ ofile' = NoFds /\ cwd' = BootCwd /\ out' = {} /\ k' = BootProcs /\ left' = {}
  /\ panicked' = FALSE
  /\ UNCHANGED <<disk, calls>>

-----------------------------------------------------------------------------
\* What a program asks for.
User(p) ==
  \/ \E r \in Request : Syscall(p, r)
  \/ \E fd \in Fd :
       \/ SysClose(p, fd) \/ SysDup(p, fd)
       \/ SysRead(p, fd, 1) \/ SysFstat(p, fd)
       \/ \E n \in WriteLen : SysWrite(p, fd, n)
  \/ SysExit(p) \/ \E q \in Proc : Fork(p, q)

\* What the kernel does for it.
Kernel(p) ==
  \/ EndOp(p) \/ IputRef(p) \/ IputLast(p) \/ IputFree(p) \/ IputInvalid(p) \/ IputDrop(p)
  \/ WalkEnd(p) \/ WalkParent(p) \/ WalkNext(p)
  \/ OpenLock(p) \/ OpenDir(p) \/ OpenFail(p) \/ OpenFile(p)
  \/ CreateFound(p) \/ CreateExists(p) \/ CreateRefused(p) \/ CreateNoInode(p) \/ CreateAlloc(p)
  \/ CreateNew(p) \/ CreateFail(p) \/ DirFail(p) \/ Made(p)
  \/ LinkDir(p) \/ LinkCount(p) \/ LinkEntry(p) \/ BadLink(p)
  \/ UnlinkFail(p) \/ UnlinkFound(p) \/ UnlinkNotEmpty(p) \/ UnlinkRemove(p) \/ UnlinkCount(p)
  \/ ChdirFail(p) \/ Chdir(p) \/ Exec(p)
  \/ WriteBegin(p) \/ WriteLock(p) \/ WriteBlock(p) \/ WriteDone(p)
  \/ ExitClose(p) \/ ExitCwd(p) \/ Reclaim(p) \/ ReclaimNext(p)

\* Bound: the programs have made their calls; or nobody runs.
Rest ==
  /\ panicked \/ (calls = MaxCall /\ \A p \in Proc : At(p, "user") \/ At(p, "dead"))
  /\ UNCHANGED vars

Next == Crash \/ Rest \/ \E p \in Proc : User(p) \/ Kernel(p) \/ IgetPanic(p)

Spec == Init /\ [][Next]_vars

-----------------------------------------------------------------------------
(* What must hold. *)

Label == {"user", "dead", "exit", "write", "reclaim", "end", "put", "free", "freed", "drop", "walk",
          "open", "opened", "create", "exists", "new", "bad", "made", "link", "dirlink", "badlink",
          "unlink", "remove", "unlinked", "chdir", "exec", "writelock", "writei", "written"}

\* The inode as the kernel sees it: the copy in the table, if there is one.
Cur(i) == IF itable[i].valid THEN itable[i].d ELSE fs.ino[i]

\* The type invariant; a valid copy of an inode that nobody has locked is what
\* the disk will get.
TypeOK ==
  /\ \A i \in Inum : /\ itable[i].ref \in Nat /\ lock[i] \in Proc \union {NoProc}
                     /\ itable[i].valid /\ Free(i) => itable[i].d = fs.ino[i]
                     /\ fs.ino[i].type \in {"free", "dir", "file", "dev"}
                     /\ fs.ino[i].nlink \in Nat
  /\ \A f \in File : ftable[f].ref \in Nat /\ ftable[f].ip \in 0 .. NInode
  /\ ofile \in [Proc -> [Fd -> 0 .. NFile]] /\ cwd \in [Proc -> 0 .. NInode]
  /\ out \subseteq Proc
  /\ \A p \in Proc : k[p].pc \in Label /\ k[p].ret \in Label

\* Who refers to inode i: open files, current directories, the registers of kernel
\* threads, and their iput calls to come.
FilesOf(i) == {f \in File : ftable[f].ip = i}
CwdsOf(i)  == {p \in Proc : cwd[p] = i}
RegsOf(i)  == {x \in Proc \X {"ip", "dp", "old"} : k[x[1]][x[2]] = i}
PutsOf(i)  == UNION {{p} \X {x \in DOMAIN k[p].puts : k[p].puts[x] = i} : p \in Proc}

\* Reference counts are exact on every path of every call, and who is back in
\* user mode holds no lock, no reference but its files and directory, and no
\* transaction.
RefsExact ==
  /\ \A i \in Inum : itable[i].ref = Cardinality(FilesOf(i)) + Cardinality(CwdsOf(i))
                                     + Cardinality(RegsOf(i)) + Cardinality(PutsOf(i))
  /\ \A f \in File : ftable[f].ref =
       Cardinality({x \in Proc \X Fd : ofile[x[1]][x[2]] = f})
  /\ \A p \in Proc : k[p].pc \in {"user", "dead", "exit", "write"} =>
       /\ p \notin out /\ \A i \in Inum : lock[i] # p
       /\ k[p].ip = 0 /\ k[p].dp = 0 /\ k[p].old = 0 /\ k[p].puts = <<>>

Dirs == {i \in Inum : Cur(i).type = "dir"}

\* The entries that name inode i, and those of them called "..".
EntriesOf(i) == {x \in Dirs \X (1 .. MAXFILE * DirBlock) :
                   /\ x[2] \in DOMAIN fs.ents[x[1]]
                   /\ fs.ents[x[1]][x[2]].inum = i /\ fs.ents[x[1]][x[2]].name # "."}
Ups(i)  == {x \in EntriesOf(i) : fs.ents[x[1]][x[2]].name = ".."}
Named(i) == i = ROOTINO \/ EntriesOf(i) # Ups(i)

\* What is promised to inode i by a call in progress: link counts before it
\* enters the name, unlink removes the name before it counts.
Promised(i) ==
  Cardinality({p \in Proc : k[p].old = i})
  + Cardinality({p \in Proc : k[p].ip = i /\ (At(p, "unlinked") \/ k[p].ret = "unlinked")})

\* An inode's link count is the number of its names, ".." of a directory that
\* has a name included.
LinksExact == \A i \in Inum : Cur(i).type # "free" /\ i \notin fs.stray =>
  Cur(i).nlink = Cardinality({x \in EntriesOf(i) : x \in Ups(i) => x[1] # ROOTINO /\ Named(x[1])})
                 + Promised(i) + (IF i = ROOTINO THEN 1 ELSE 0)

\* A block is marked used exactly if one inode points to it, once.
BlocksExact == \A b \in Block :
  MapThenSumSet(LAMBDA i : Cardinality(Pointers(fs, Cur(i), b)), Inum) = IF b \in fs.used THEN 1 ELSE 0

\* Somebody holds the inode, or ireclaim is about to read it.
Linkless(i) == Cur(i).type # "free" /\ Cur(i).nlink = 0
Kept(i) == itable[i].ref > 0 \/ (Linkless(i) /\ At(InitProc, "reclaim") /\ k[InitProc].n <= i)

\* An inode without links is freed by the last iput, or by ireclaim at boot.
FreedByLast == \A i \in Inum : Linkless(i) => Kept(i)

\* A removed directory in which create has made another: ".." there raised its
\* link count again, and neither iput nor ireclaim will free it.
Revived(i) == Cur(i).nlink > 0 /\ \E x \in Ups(i) : x[1] # ROOTINO /\ Named(x[1])

\* An inode without a name has a holder who frees it, but for those that IputDrop
\* leaves, those that lost their name with its directory, and revived directories.
NoOrphan == \A i \in Inum : Cur(i).type # "free" /\ ~Named(i) =>
  Kept(i) \/ i \in left \/ i \in fs.stray \/ Revived(i)

\* What create, link, unlink, iput and a crash leave on the disk: exact link counts,
\* an exact bitmap, and no inode without a name that nobody frees, other than by the
\* three ways in which the code leaves one (fs.c:361, sysfile.c:282 and 287).
DiskExact == LinksExact /\ BlocksExact /\ NoOrphan

\* Who makes iget panic: NINODE different inodes have a holder.
Held(i)  == FilesOf(i) # {} \/ CwdsOf(i) # {} \/ RegsOf(i) # {} \/ PutsOf(i) # {}
IgetFull == panicked => Cardinality({i \in Inum : Held(i)}) >= NINODE

\* The panics of fs.c, sysfile.c and log.c: ilock of a free inode, unlink of an
\* inode without links, dirlookup in something else, log_write and iput outside
\* of a transaction, iput of the last reference while the inode is locked; and
\* iget, which does panic, but only if so many inodes are really in use.
NoPanic ==
  /\ IgetFull
  /\ \A p \in Proc : LET fr == k[p] IN
       /\ fr.pc \in {"walk", "open", "exists", "new", "link", "remove", "chdir", "exec"} /\ Free(fr.ip)
          => Cur(fr.ip).type # "free"
       /\ At(p, "remove") /\ Free(fr.ip) => Cur(fr.ip).nlink > 0
       /\ fr.pc \in {"create", "unlink", "dirlink"} => Cur(fr.ip).type = "dir"
       /\ fr.pc \notin {"user", "dead", "exit", "write", "reclaim"} => p \in out
       /\ At(p, "put") /\ IsLast(Head(fr.puts)) => Free(Head(fr.puts))
=============================================================================

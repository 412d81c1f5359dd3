------------------------------- MODULE DiskFs -------------------------------
(***************************************************************************)
(* The file system as it lies on the disk: inodes, the bitmap, indirect    *)
(* blocks, directory entries.  An operator here is what a function of      *)
(* kernel/kernel/fs.c does to that value while it holds the inode's lock;  *)
(* Mkfs is the image that mkfs/mkfs.c makes.                               *)
(*                                                                         *)
(* A file's size and offsets count blocks, a directory's count entries.    *)
(* The bytes of a file are left out.                                       *)
(***************************************************************************)
EXTENDS Integers, Sequences, FiniteSets, FiniteSetsExt, SequencesExt

CONSTANTS
  NInode,     \* sb.ninodes - 1: inodes are numbered from 1
  NBlock,     \* the data blocks
  NDirect,    \* NDIRECT
  NIndirect,  \* NINDIRECT
  DirBlock,   \* directory entries in a block
  Shipped     \* the names of the files that mkfs puts into the root directory

ASSUME DiskFsAssumption ==
  /\ NInode \in Nat /\ NBlock \in Nat /\ NDirect \in Nat \ {0} /\ NIndirect \in Nat
  /\ Shipped \in Seq(STRING) /\ DirBlock \in Nat /\ 2 + Len(Shipped) < DirBlock
  /\ 1 + Len(Shipped) <= NInode /\ 1 + Len(Shipped) <= NBlock

Inum    == 1 .. NInode
Block   == 1 .. NBlock
ROOTINO == 1
MAXFILE == NDirect + NIndirect

Dirent(nm, i) == [name |-> nm, inum |-> i]
NoEntry == Dirent("", 0)
Dinode(t, n, sz, b) == [type |-> t, major |-> 0, nlink |-> n, size |-> sz,
                        addrs |-> [x \in 0 .. NDirect |-> IF x = 0 THEN b ELSE 0]]
Unused == Dinode("free", 0, 0, 0)
Zeroes == [x \in 0 .. NIndirect - 1 |-> 0]

-----------------------------------------------------------------------------
(* mkfs: the image `fs', and the counters from which inodes and blocks are  *)
(* taken in order.                                                         *)

\* `stray' is not on the disk: the inodes that lost their last entry because
\* the directory it was in has been freed.
Blank == [fs |-> [ino  |-> [i \in Inum |-> Unused], ents |-> [i \in Inum |-> <<>>],
                  used |-> {}, ind |-> [b \in Block |-> Zeroes], stray |-> {}],
          freeinode |-> ROOTINO, freeblock |-> 1]

Winode(M, i, d) == [M EXCEPT !.fs.ino[i] = d]

MkIalloc(M, t) == [Winode(M, M.freeinode, Dinode(t, 1, 0, 0)) EXCEPT !.freeinode = @ + 1]

\* The bitmap: every block so far.
MkBalloc(M) == [M.fs EXCEPT !.used = 1 .. M.freeblock - 1]

\* A block for the address b if it is missing.
MkFill(M, b) == IF b # 0 THEN [m |-> M, b |-> b]
                ELSE [m |-> [M EXCEPT !.freeblock = @ + 1], b |-> M.freeblock]

\* iappend finds or makes block n of inode i.
MkBmap(M, i, n) ==
  LET t == MkFill(M, M.fs.ino[i].addrs[IF n < NDirect THEN n ELSE NDirect])
      u == MkFill(t.m, t.m.fs.ind[t.b][n - NDirect])
  IN IF n < NDirect THEN [t.m EXCEPT !.fs.ino[i].addrs[n] = t.b]
     ELSE [u.m EXCEPT !.fs = [u.m.fs EXCEPT !.ino[i].addrs[NDirect] = t.b,
                                            !.ind[t.b][n - NDirect] = u.b]]

\* iappend of a block of a file, or of an entry of the root directory.
AppendBlock(M, i) ==
  [MkBmap(M, i, M.fs.ino[i].size) EXCEPT !.fs.ino[i].size = @ + 1]
AppendEntry(M, e) ==
  LET L == MkBmap(M, ROOTINO, M.fs.ino[ROOTINO].size \div DirBlock) IN
  [L EXCEPT !.fs = [L.fs EXCEPT !.ino[ROOTINO].size = @ + 1, !.ents[ROOTINO] = Append(@, e)]]

\* Every file of the command line has one block.
AddFile(M, nm) == AppendBlock(AppendEntry(MkIalloc(M, "file"), Dirent(nm, M.freeinode)), M.freeinode)

\* The size of the root directory goes up to the end of its block.
RoundRoot(M) ==
  LET sz == (M.fs.ino[ROOTINO].size \div DirBlock + 1) * DirBlock IN
  [M EXCEPT !.fs = [M.fs EXCEPT
     !.ino[ROOTINO].size = sz,
     !.ents[ROOTINO] = [j \in 1 .. sz |-> IF j <= Len(@) THEN @[j] ELSE NoEntry]]]

MkRoot == AppendEntry(AppendEntry(MkIalloc(Blank, "dir"), Dirent(".", ROOTINO)),
                      Dirent("..", ROOTINO))

\* After n files.
AddFiles[n \in 0 .. Len(Shipped)] ==
  IF n = 0 THEN MkRoot ELSE AddFile(AddFiles[n - 1], Shipped[n])

Mkfs == MkBalloc(RoundRoot(AddFiles[Len(Shipped)]))

-----------------------------------------------------------------------------
(* Blocks *)

\* The first free block, zeroed, or 0.
Balloc(F) ==
  LET b == IF F.used = Block THEN 0 ELSE Min(Block \ F.used) IN
  [fs |-> IF b = 0 THEN F ELSE [F EXCEPT !.used = @ \union {b}, !.ind[b] = Zeroes], b |-> b]

\* An allocation only where the address b is missing.
Fill(F, b) == IF b # 0 THEN [fs |-> F, b |-> b] ELSE Balloc(F)

\* The address of block n of inode d, allocated if missing; 0 if the disk is full.
\* t is its direct block, or the indirect one; u is what that one names.
Direct(t, d, x) == [fs |-> t.fs, d |-> [d EXCEPT !.addrs[x] = t.b], addr |-> t.b]
Indirect(t, u, d, x) ==
  [fs |-> [u.fs EXCEPT !.ind[t.b][x] = u.b], d |-> [d EXCEPT !.addrs[NDirect] = t.b], addr |-> u.b]
BmapIndirect(t, d, x) ==
  IF t.b = 0 THEN Direct(t, d, NDirect) ELSE Indirect(t, Fill(t.fs, t.fs.ind[t.b][x]), d, x)
Bmap(F, d, n) ==
  IF n < NDirect THEN Direct(Fill(F, d.addrs[n]), d, n)
  ELSE BmapIndirect(Fill(F, d.addrs[NDirect]), d, n - NDirect)

\* The positions in inode d that hold the address b.
Pointers(F, d, b) ==
  {<<x>> : x \in {y \in 0 .. NDirect : d.addrs[y] = b}} \union
  {<<NDirect, x>> : x \in {y \in 0 .. NIndirect - 1 :
                             d.addrs[NDirect] # 0 /\ F.ind[d.addrs[NDirect]][y] = b}}

Content(F, d) == {b \in Block : Pointers(F, d, b) # {}}

Bfree(F, B) == [F EXCEPT !.used = @ \ B]

\* itrunc, with its iupdate.
Itrunc(F, i, d) ==
  LET e == [d EXCEPT !.size = 0, !.addrs = Unused.addrs] IN
  [fs |-> [Bfree(F, Content(F, d)) EXCEPT !.ents[i] = <<>>, !.ino[i] = e], d |-> e]

Iupdate(F, i, d) == [F EXCEPT !.ino[i] = d]

-----------------------------------------------------------------------------
(* Directories *)

\* The index of the entry for nm in directory i, or 0.
DirLookup(F, i, nm) ==
  LET J == {j \in DOMAIN F.ents[i] : F.ents[i][j].inum # 0 /\ F.ents[i][j].name = nm}
  IN IF J = {} THEN 0 ELSE Min(J)

\* Entry e at index j, in the block m that bmap has found, or not.
EntryIn(m, i, j, e) ==
  LET n == [m.d EXCEPT !.size = IF j > @ THEN j ELSE @] IN
  IF m.addr = 0 THEN [ok |-> FALSE, fs |-> Iupdate(m.fs, i, m.d), d |-> m.d]
  ELSE [ok |-> TRUE, d |-> n,
        fs |-> [Iupdate(m.fs, i, n) EXCEPT !.ents[i] =
                  [x \in DOMAIN @ \union {j} |-> IF x = j THEN e ELSE @[x]]]]

\* writei of entry e at index j of directory i: d is its in-memory inode.
WriteEntry(F, i, d, j, e) ==
  IF j > MAXFILE * DirBlock THEN [ok |-> FALSE, fs |-> F, d |-> d]
  ELSE EntryIn(Bmap(F, d, (j - 1) \div DirBlock), i, j, e)

DirLink(F, i, d, nm, inum) ==
  LET J == {j \in DOMAIN F.ents[i] : F.ents[i][j].inum = 0} IN
  IF DirLookup(F, i, nm) # 0 THEN [ok |-> FALSE, fs |-> F, d |-> d]
  ELSE WriteEntry(F, i, d, Min(J \union {Len(F.ents[i]) + 1}), Dirent(nm, inum))

IsDirEmpty(F, i) == \A j \in 3 .. Len(F.ents[i]) : F.ents[i][j].inum = 0
=============================================================================

------------------------------ MODULE MCFiles ------------------------------
(* Files on small instances. *)
EXTENDS FilesInv, TLC

Ship1 == <<"f">>
F     == <<"/", "f">>
D     == <<"/", "d">>
DF    == <<"/", "d", "f">>
G     == <<"/", "g">>
Rel   == <<"f">>
Mix   == {SysOpen(F, {"RDWR"}), SysOpen(G, {"WRONLY"}), SysOpen(Rel, {"CREATE", "TRUNC"}),
          SysOpen(<<".">>, {"WRONLY"}), SysMkdir(D), SysMkdir(DF), SysMknod(G, 1), SysLink(F, DF),
          SysLink(D, DF), SysUnlink(F), SysUnlink(D), SysChdir(D), SysChdir(F), SysExec(F)}

\* Two names for a single inode.
TwoNames == {SysUnlink(F), SysUnlink(D), SysMknod(D, 1)}
=============================================================================

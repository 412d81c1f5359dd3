------------------------------ MODULE MCDevices ------------------------------
(* Console on small instances. *)
EXTENDS ConsoleInv, TLC

Sym == Permutations(Cpu)
Scripts == {<<"x", "eof", "x", "nl">>, <<"x", "x", "x", "x">>, <<"nl", "x", "kill", "nl">>,
            <<"bs", "x", "bs", "cr">>, <<"procs", "nul", "eof">>}
Locks == {"tx", "cons", "pr"}
=============================================================================

------------------------------- MODULE MCMemory -------------------------------
(***************************************************************************)
(* Instances of Memory: a server and a command line tool, with one thread  *)
(* each, and two memory ids.  Of two policies one allows portable          *)
(* memories, and a rule of it may be shadowed.                             *)
(***************************************************************************)
EXTENDS Memory, TLC

CONSTANTS srv, cli, server, tool, m1, m2, first, second, open, strict

TwoThreads == {srv, cli}
TwoProcs == {server, tool}
TwoProcOf == srv :> server @@ cli :> tool

Nobody == {}

TwoIds == {m1, m2}
TwoContents == {first, second}
TwoPolicies == {open, strict}
OnlyOpen == {open}
OnlyFirst == {first}

\* Neither the memory ids, nor the contents, nor the two threads (each with its
\* process) are told apart.
Swap == srv :> cli @@ cli :> srv @@ server :> tool @@ tool :> server
MemorySymmetry ==
    Permutations(Ids) \cup Permutations(Contents) \cup {Swap}
=============================================================================

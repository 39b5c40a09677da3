----------------------------- MODULE MCPolicyStore ----------------------------
(***************************************************************************)
(* Instances of PolicyStore: a server and a command line tool, the default *)
(* policy with one or two revisions and another policy with one.           *)
(***************************************************************************)
EXTENDS PolicyStore, TLC

CONSTANTS srv, cli, server, tool, vaultDefault, other, d1, d2, o1, lax, strict

TwoThreads == {srv, cli}
TwoProcs == {server, tool}
TwoProcOf == srv :> server @@ cli :> tool

Nobody == {}

OnlyDefault == {vaultDefault}
TwoPolicies == {vaultDefault, other}
DefaultNames == {d1, d2}
NamesOfTwo == {d1, o1}
PolicyOfNames == [r \in Revisions |-> IF r = o1 THEN other ELSE vaultDefault]

TwoRules == {lax, strict}
OnlyLax == {lax}

\* The two threads, each with its process, are not told apart.
Swap == srv :> cli @@ cli :> srv @@ server :> tool @@ tool :> server
ThreadSymmetry == {Swap} \cup Permutations({srv})
=============================================================================

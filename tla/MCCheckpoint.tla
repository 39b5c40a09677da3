----------------------------- MODULE MCCheckpoint -----------------------------
(***************************************************************************)
(* Instances of Checkpoint: two threads of a server that both checkpoint   *)
(* and operate on one workstream of two sessions.                          *)
(***************************************************************************)
EXTENDS Checkpoint, TLC

CONSTANTS srv1, srv2, server, claude, codex

ServerThreads == {srv1, srv2}
ServerProcs == {server}
ServerOf == [t \in ServerThreads |-> server]
Nobody == {}

TwoSessions == {claude, codex}

BothModes == {"single", "parallel"}
ParallelMode == {"parallel"}

ServerSymmetry == Permutations(ServerThreads)
=============================================================================

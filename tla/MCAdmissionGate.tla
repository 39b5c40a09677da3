--------------------------- MODULE MCAdmissionGate ---------------------------
(***************************************************************************)
(* A server with three threads, so that a group of readers forms while     *)
(* several threads sleep on the condition variable, next to a tool with    *)
(* one thread that competes for the file lock.                             *)
(***************************************************************************)
EXTENDS AdmissionGate, TLC

CONSTANTS srv1, srv2, srv3, cli1, server, tool

AllThreads == {srv1, srv2, srv3, cli1}
AllProcs == {server, tool}
ProcessOf == srv1 :> server @@ srv2 :> server @@ srv3 :> server @@ cli1 :> tool
=============================================================================

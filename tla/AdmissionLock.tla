---------------------------- MODULE AdmissionLock ----------------------------
(***************************************************************************)
(* What the policy admission gate promises its callers: at any time either *)
(* one thread holds admission exclusively (a policy or applicability       *)
(* mutation), or any number of threads of ONE process share a stable       *)
(* snapshot (checkpoint writers), or nobody holds it.  A process that dies *)
(* loses whatever its threads held.                                        *)
(*                                                                         *)
(* Nothing is said here about how the promise is kept; AdmissionGate does  *)
(* that, and Checkpoint relies on nothing more than this module.           *)
(***************************************************************************)

CONSTANTS
    Threads,    \* every thread of every process that opens the Vault
    Procs,      \* the processes
    ProcOf      \* ProcOf[t] is the process thread t runs in

VARIABLES
    sharers,    \* threads inside policy_admission_snapshot
    owners      \* threads inside policy_admission_gate (at most one)

lockVars == <<sharers, owners>>

ThreadsOf(p) == {t \in Threads : ProcOf[t] = p}

LockTypeOK ==
    /\ sharers \subseteq Threads
    /\ owners \subseteq Threads

LockInit ==
    /\ sharers = {}
    /\ owners = {}

\* No thread holds admission in either mode.
Unlocked == sharers = {} /\ owners = {}

AcquireShared(t) ==
    /\ t \notin sharers
    /\ owners = {}
    /\ \A u \in sharers : ProcOf[u] = ProcOf[t]
    /\ sharers' = sharers \cup {t}
    /\ UNCHANGED owners

ReleaseShared(t) ==
    /\ t \in sharers
    /\ sharers' = sharers \ {t}
    /\ UNCHANGED owners

AcquireExclusive(t) ==
    /\ Unlocked
    /\ owners' = {t}
    /\ UNCHANGED sharers

ReleaseExclusive(t) ==
    /\ t \in owners
    /\ owners' = owners \ {t}
    /\ UNCHANGED sharers

\* A process dies: the operating system drops its lock and its threads vanish.
Abandon(p) ==
    /\ sharers' = sharers \ ThreadsOf(p)
    /\ owners' = owners \ ThreadsOf(p)

LockNext ==
    \/ \E t \in Threads : \/ AcquireShared(t)
                          \/ ReleaseShared(t)
                          \/ AcquireExclusive(t)
                          \/ ReleaseExclusive(t)
    \/ \E p \in Procs : Abandon(p)

LockSpec == LockInit /\ [][LockNext]_lockVars
=============================================================================

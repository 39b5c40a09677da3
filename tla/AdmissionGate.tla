---------------------------- MODULE AdmissionGate ----------------------------
(***************************************************************************)
(* The two-level reader/writer lock of mneme/core/policy.py that puts      *)
(* every policy or applicability mutation (policy_admission_gate, a        *)
(* writer) and every checkpoint (policy_admission_snapshot, a reader) in   *)
(* one order.                                                              *)
(*                                                                         *)
(*   - Inside a process a condition variable arbitrates: a writer waits    *)
(*     for the writer and all readers, a reader waits for the writer and   *)
(*     for every WAITING writer.                                           *)
(*   - Between processes one advisory file lock arbitrates.  A writer      *)
(*     takes it after it became the process's writer.  The first reader of *)
(*     a group takes it while it still owns the condition's mutex; the     *)
(*     last reader of the group gives it back.                             *)
(*   - A thread that is already inside re-enters without any lock.         *)
(*                                                                         *)
(* A block under the condition's mutex is one step, except where it        *)
(* sleeps: in condition.wait, and in the first reader's file lock.         *)
(* readers and waiting_writers are counters in the code; here they are the *)
(* sets of threads that they count.                                        *)
(***************************************************************************)
EXTENDS Naturals

CONSTANTS
    Threads,    \* every thread of every process that opens the Vault
    Procs,      \* the processes
    ProcOf,     \* ProcOf[t] is the process thread t runs in
    None,       \* "no thread"
    MaxOps,     \* bound: admissions, nested ones included, that each thread
                \*   asks for in one behaviour
    MaxDepth    \* bound: nesting of admissions inside one thread

ASSUME ProcOfAssumption == ProcOf \in [Threads -> Procs]
ASSUME NoneAssumption == None \notin Threads
ASSUME BoundAssumption == MaxOps \in Nat /\ MaxDepth \in Nat \ {0}

VARIABLES
    pc,         \* where each thread is
    depth,      \* thread-local _admission_depth
    mutex,      \* owner of the process's condition mutex while it sleeps inside
    writer,     \* _AdmissionState.writer, per process
    readers,    \* _AdmissionState.readers, per process
    waiting,    \* _AdmissionState.waiting_writers, per process
    guard,      \* _AdmissionState.reader_file_guard, per process
    flock,      \* whose open stream holds the cross-process file lock
    ops         \* admissions each thread may still ask for

vars == <<pc, depth, mutex, writer, readers, waiting, guard, flock, ops>>

PCs == {"idle",
        "gateWait", "gateWoken", "gateLocking", "gateHeld", "gateLeaving",
        "snapWait", "snapWoken", "snapLocking", "snapHeld"}

Inside == {"gateHeld", "snapHeld"}

ThreadsOf(p) == {t \in Threads : ProcOf[t] = p}

TypeOK ==
    /\ pc \in [Threads -> PCs]
    /\ depth \in [Threads -> Nat]
    /\ mutex \in [Procs -> Threads \cup {None}]
    /\ writer \in [Procs -> Threads \cup {None}]
    /\ readers \in [Procs -> SUBSET Threads]
    /\ waiting \in [Procs -> SUBSET Threads]
    /\ guard \in [Procs -> Threads \cup {None}]
    /\ flock \in Threads \cup {None}
    /\ ops \in [Threads -> Nat]

Init ==
    /\ pc = [t \in Threads |-> "idle"]
    /\ depth = [t \in Threads |-> 0]
    /\ mutex = [p \in Procs |-> None]
    /\ writer = [p \in Procs |-> None]
    /\ readers = [p \in Procs |-> {}]
    /\ waiting = [p \in Procs |-> {}]
    /\ guard = [p \in Procs |-> None]
    /\ flock = None
    /\ ops = [t \in Threads |-> MaxOps]

-----------------------------------------------------------------------------
(* Conditions and effects that several actions share.  A definition whose  *)
(* name starts with Bug is a plausible mistake in the one that follows it; *)
(* nothing in the specification uses it.                                   *)

WriterMustWait(p) == writer[p] # None \/ readers[p] # {}

BugReaderIgnoresWaiting(p) == writer[p] # None

ReaderMustWait(p) == writer[p] # None \/ waiting[p] # {}

BugFileLockDoesNotBlock == TRUE

FileLockFree == flock = None

LastReader(t) == readers[ProcOf[t]] = {t}

BugWakeWritersOnly(p, t) ==
    IF ProcOf[t] = p /\ pc[t] = "gateWait" THEN "gateWoken" ELSE pc[t]

\* condition.notify_all: every sleeper of process p may compete for the mutex.
Woken(p, t) ==
    CASE ProcOf[t] = p /\ pc[t] = "gateWait" -> "gateWoken"
      [] ProcOf[t] = p /\ pc[t] = "snapWait" -> "snapWoken"
      [] OTHER -> pc[t]

\* Thread t leaves its process's state and wakes every sleeper of the process.
LeaveNotifying(t) ==
    pc' = [u \in Threads |-> IF u = t THEN "idle" ELSE Woken(ProcOf[t], u)]

\* A thread that holds no admission asks for one; a thread inside nests instead.
Asks(t) ==
    /\ pc[t] = "idle"
    /\ ops[t] > 0
    /\ ops' = [ops EXCEPT ![t] = @ - 1]

-----------------------------------------------------------------------------
(* policy_admission_gate                                                   *)

\* The body of the wait loop, entered for the first time or after a wake-up.
GateTry(t) ==
    LET p == ProcOf[t] IN
    /\ mutex[p] = None
    /\ \/ Asks(t)
       \/ pc[t] = "gateWoken" /\ UNCHANGED ops
    /\ IF WriterMustWait(p)
         THEN /\ waiting' = [waiting EXCEPT ![p] = @ \cup {t}]
              /\ pc' = [pc EXCEPT ![t] = "gateWait"]
              /\ UNCHANGED writer
         ELSE /\ waiting' = [waiting EXCEPT ![p] = @ \ {t}]
              /\ pc' = [pc EXCEPT ![t] = "gateLocking"]
              /\ writer' = [writer EXCEPT ![p] = t]
    /\ UNCHANGED <<depth, mutex, readers, guard, flock>>

GateLock(t) ==
    /\ pc[t] = "gateLocking"
    /\ FileLockFree
    /\ flock' = t
    /\ pc' = [pc EXCEPT ![t] = "gateHeld"]
    /\ depth' = [depth EXCEPT ![t] = 1]
    /\ UNCHANGED <<mutex, writer, readers, waiting, guard, ops>>

BugGateKeepsWriterOnFailure(t) ==
    /\ pc[t] = "gateLocking"
    /\ pc' = [pc EXCEPT ![t] = "idle"]
    /\ UNCHANGED <<depth, mutex, writer, readers, waiting, guard, flock, ops>>

\* The lock file cannot be opened (an unsafe path chain, an I/O error).
GateLockFails(t) ==
    /\ pc[t] = "gateLocking"
    /\ pc' = [pc EXCEPT ![t] = "gateLeaving"]
    /\ UNCHANGED <<depth, mutex, writer, readers, waiting, guard, flock, ops>>

GateUnlock(t) ==
    /\ pc[t] = "gateHeld"
    /\ depth[t] = 1
    /\ depth' = [depth EXCEPT ![t] = 0]
    /\ flock' = None
    /\ pc' = [pc EXCEPT ![t] = "gateLeaving"]
    /\ UNCHANGED <<mutex, writer, readers, waiting, guard, ops>>

GateLeave(t) ==
    LET p == ProcOf[t] IN
    /\ pc[t] = "gateLeaving"
    /\ mutex[p] = None
    /\ writer' = [writer EXCEPT ![p] = None]
    /\ LeaveNotifying(t)
    /\ UNCHANGED <<depth, mutex, readers, waiting, guard, flock, ops>>

-----------------------------------------------------------------------------
(* policy_admission_snapshot                                               *)

\* The wait loop, then: join the group, or keep the mutex and lock the file.
SnapTry(t) ==
    LET p == ProcOf[t] IN
    /\ mutex[p] = None
    /\ \/ Asks(t)
       \/ pc[t] = "snapWoken" /\ UNCHANGED ops
    /\ \/ /\ ReaderMustWait(p)
          /\ pc' = [pc EXCEPT ![t] = "snapWait"]
          /\ UNCHANGED <<depth, mutex, readers>>
       \/ /\ ~ReaderMustWait(p)
          /\ readers[p] = {}
          /\ mutex' = [mutex EXCEPT ![p] = t]
          /\ pc' = [pc EXCEPT ![t] = "snapLocking"]
          /\ UNCHANGED <<depth, readers>>
       \/ /\ ~ReaderMustWait(p)
          /\ readers[p] # {}
          /\ readers' = [readers EXCEPT ![p] = @ \cup {t}]
          /\ pc' = [pc EXCEPT ![t] = "snapHeld"]
          /\ depth' = [depth EXCEPT ![t] = 1]
          /\ UNCHANGED mutex
    /\ UNCHANGED <<writer, waiting, guard, flock>>

SnapLock(t) ==
    LET p == ProcOf[t] IN
    /\ pc[t] = "snapLocking"
    /\ FileLockFree
    /\ flock' = t
    /\ guard' = [guard EXCEPT ![p] = t]
    /\ readers' = [readers EXCEPT ![p] = @ \cup {t}]
    /\ mutex' = [mutex EXCEPT ![p] = None]
    /\ pc' = [pc EXCEPT ![t] = "snapHeld"]
    /\ depth' = [depth EXCEPT ![t] = 1]
    /\ UNCHANGED <<writer, waiting, ops>>

\* __enter__ of the first reader's file lock raises; "with" frees the mutex.
SnapLockFails(t) ==
    /\ pc[t] = "snapLocking"
    /\ mutex' = [mutex EXCEPT ![ProcOf[t]] = None]
    /\ pc' = [pc EXCEPT ![t] = "idle"]
    /\ UNCHANGED <<depth, writer, readers, waiting, guard, flock, ops>>

\* The last reader of the group gives the file lock back and wakes the sleepers.
SnapLeave(t) ==
    LET p == ProcOf[t] IN
    /\ pc[t] = "snapHeld"
    /\ depth[t] = 1
    /\ mutex[p] = None
    /\ readers' = [readers EXCEPT ![p] = @ \ {t}]
    /\ depth' = [depth EXCEPT ![t] = 0]
    /\ IF LastReader(t)
         THEN /\ flock' = IF guard[p] = None THEN flock ELSE None
              /\ guard' = [guard EXCEPT ![p] = None]
              /\ LeaveNotifying(t)
         ELSE /\ pc' = [pc EXCEPT ![t] = "idle"]
              /\ UNCHANGED <<flock, guard>>
    /\ UNCHANGED <<mutex, writer, waiting, ops>>

-----------------------------------------------------------------------------
(* Re-entry: either context manager, used by a thread that is inside.      *)

Nest(t) ==
    /\ pc[t] \in Inside
    /\ depth[t] < MaxDepth
    /\ ops[t] > 0
    /\ ops' = [ops EXCEPT ![t] = @ - 1]
    /\ depth' = [depth EXCEPT ![t] = @ + 1]
    /\ UNCHANGED <<pc, mutex, writer, readers, waiting, guard, flock>>

BugUnmatchedPop(t) ==
    /\ pc[t] \in Inside
    /\ depth' = [depth EXCEPT ![t] = @ - 1]
    /\ UNCHANGED <<pc, mutex, writer, readers, waiting, guard, flock, ops>>

Unnest(t) ==
    /\ pc[t] \in Inside
    /\ depth[t] > 1
    /\ depth' = [depth EXCEPT ![t] = @ - 1]
    /\ UNCHANGED <<pc, mutex, writer, readers, waiting, guard, flock, ops>>

-----------------------------------------------------------------------------
(* The process is killed at any point and started again: its memory is     *)
(* gone and the operating system has released its file lock.               *)

Crash(p) ==
    /\ \E t \in ThreadsOf(p) : pc[t] # "idle"
    /\ pc' = [t \in Threads |-> IF ProcOf[t] = p THEN "idle" ELSE pc[t]]
    /\ depth' = [t \in Threads |-> IF ProcOf[t] = p THEN 0 ELSE depth[t]]
    /\ mutex' = [mutex EXCEPT ![p] = None]
    /\ writer' = [writer EXCEPT ![p] = None]
    /\ readers' = [readers EXCEPT ![p] = {}]
    /\ waiting' = [waiting EXCEPT ![p] = {}]
    /\ guard' = [guard EXCEPT ![p] = None]
    /\ flock' = IF flock \in ThreadsOf(p) THEN None ELSE flock
    /\ UNCHANGED ops

\* Every thread has used its admissions: the bounded behaviour is over.
Finished ==
    /\ \A t \in Threads : pc[t] = "idle" /\ ops[t] = 0
    /\ UNCHANGED vars

-----------------------------------------------------------------------------
\* A thread that has started an admission goes on with it.
Continue(t) ==
    \/ pc[t] = "gateWoken" /\ GateTry(t)
    \/ GateLock(t)
    \/ GateUnlock(t)
    \/ GateLeave(t)
    \/ pc[t] = "snapWoken" /\ SnapTry(t)
    \/ SnapLock(t)
    \/ SnapLeave(t)
    \/ Unnest(t)

Next ==
    \/ \E t \in Threads : \/ GateTry(t)
                          \/ GateLock(t)
                          \/ GateLockFails(t)
                          \/ GateUnlock(t)
                          \/ GateLeave(t)
                          \/ SnapTry(t)
                          \/ SnapLock(t)
                          \/ SnapLockFails(t)
                          \/ SnapLeave(t)
                          \/ Nest(t)
                          \/ Unnest(t)
    \/ \E p \in Procs : Crash(p)
    \/ Finished

Spec == Init /\ [][Next]_vars

(***************************************************************************)
(* Every thread that is not killed keeps running, and the file lock is     *)
(* eventually granted when it stays free.  Nothing obliges a thread to ask *)
(* for an admission, the lock file to fail, or a process to crash.         *)
(***************************************************************************)
Fairness == \A t \in Threads : WF_vars(Continue(t))

FairSpec == Spec /\ Fairness

-----------------------------------------------------------------------------
(* Safety                                                                  *)

\* A policy mutation runs alone among all threads of all processes, and the
\* checkpoints that share a snapshot all belong to one process (the docstrings
\* of policy_admission_gate and policy_admission_snapshot).
Exclusion ==
    /\ \A t, u \in Threads :
         t # u /\ pc[t] = "gateHeld" => pc[u] \notin Inside
    /\ \A t, u \in Threads :
         pc[t] = "snapHeld" /\ pc[u] = "snapHeld" => ProcOf[t] = ProcOf[u]

\* However the admissions of a process ended (normally, because the lock file
\* failed, or because the process died), nothing of them is left behind: no
\* count, no writer, no mutex, and no file lock held for nobody.
NoLeakedAdmission ==
    \A p \in Procs :
        (\A t \in ThreadsOf(p) : pc[t] = "idle") =>
            /\ writer[p] = None /\ readers[p] = {} /\ waiting[p] = {}
            /\ mutex[p] = None /\ guard[p] = None
            /\ flock \notin ThreadsOf(p)

\* "policy and applicability mutations wait for every reader to finish" and do
\* not wait forever behind new ones: while a writer of a process waits, no
\* further reader of that process is let in, even one that has been asleep in
\* the file lock when the writer came.
WriterPreference ==
    [][\A t \in Threads :
         pc[t] # "snapHeld" /\ pc'[t] = "snapHeld" => waiting[ProcOf[t]] = {}]_vars

\* The code keeps the promise of AdmissionLock.
Lock == INSTANCE AdmissionLock
            WITH sharers <- {t \in Threads : pc[t] = "snapHeld"},
                 owners <- {t \in Threads : pc[t] = "gateHeld"}

ImplementsLock == Lock!LockSpec

-----------------------------------------------------------------------------
(* Liveness                                                                *)

\* No wake-up is lost and no two processes wait for each other: an admission
\* that was asked for ends, whatever the other threads do or whoever dies.
EveryAdmissionEnds ==
    \A t \in Threads : pc[t] # "idle" ~> pc[t] = "idle"
=============================================================================

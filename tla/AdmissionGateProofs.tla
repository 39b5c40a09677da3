-------------------------- MODULE AdmissionGateProofs --------------------------
(***************************************************************************)
(* What AdmissionGate guarantees for every set of threads and processes.   *)
(*                                                                         *)
(* The argument: the thread-by-thread view (pc) and the bookkeeping that   *)
(* the code consults (writer, readers, guard, mutex) always agree, and the *)
(* file lock belongs to the process whose bookkeeping says so.  With that, *)
(* two threads inside at once would be two owners of one file lock.        *)
(***************************************************************************)
EXTENDS AdmissionGate, TLAPS

\* The process's writer is the thread that is somewhere in the gate's body.
WriterInv ==
    /\ \A t \in Threads :
         pc[t] \in {"gateLocking", "gateHeld", "gateLeaving"}
            <=> writer[ProcOf[t]] = t
    /\ \A p \in Procs : writer[p] # None => ProcOf[writer[p]] = p

\* readers counts exactly the threads inside a snapshot.
ReaderInv ==
    \A p \in Procs : \A t \in Threads :
        t \in readers[p] <=> ProcOf[t] = p /\ pc[t] = "snapHeld"

\* A group of readers has no writer beside it, and holds the file lock in the
\* name of the reader that took it.
GroupInv ==
    \A p \in Procs :
        IF readers[p] # {}
          THEN /\ writer[p] = None
               /\ guard[p] \in Threads
               /\ flock = guard[p]
               /\ ProcOf[guard[p]] = p
          ELSE guard[p] = None

\* A thread inside the gate owns the file lock, and a file lock is never owned
\* for nobody.
FileLockInv ==
    /\ \A t \in Threads : pc[t] = "gateHeld" => flock = t
    /\ flock # None => pc[flock] = "gateHeld" \/ readers[ProcOf[flock]] # {}

\* Only the first reader sleeps with the mutex; nothing moves meanwhile.
MutexInv ==
    /\ \A t \in Threads :
         pc[t] = "snapLocking" =>
            /\ mutex[ProcOf[t]] = t
            /\ writer[ProcOf[t]] = None
            /\ readers[ProcOf[t]] = {}
            /\ waiting[ProcOf[t]] = {}
    /\ \A p \in Procs :
         mutex[p] # None => ProcOf[mutex[p]] = p /\ pc[mutex[p]] = "snapLocking"

\* Only threads asleep in the gate's wait loop are counted as waiting.
WaitInv ==
    \A p \in Procs : \A t \in waiting[p] :
        ProcOf[t] = p /\ pc[t] \in {"gateWait", "gateWoken"}

IInv ==
    /\ TypeOK
    /\ WriterInv
    /\ ReaderInv
    /\ GroupInv
    /\ FileLockInv
    /\ MutexInv
    /\ WaitInv

\* Nothing is held and nobody is counted in the beginning.
LEMMA InitIInv == Init => IInv
<1> SUFFICES ASSUME Init PROVE IInv
  OBVIOUS
<1> USE ProcOfAssumption, NoneAssumption, BoundAssumption DEF Init
<1>1. TypeOK
  BY DEF TypeOK, PCs
<1>2. WriterInv /\ ReaderInv /\ GroupInv
  BY DEF WriterInv, ReaderInv, GroupInv
<1>3. FileLockInv /\ MutexInv /\ WaitInv
  BY DEF FileLockInv, MutexInv, WaitInv
<1> QED
  BY <1>1, <1>2, <1>3 DEF IInv

\* notify_all changes nothing but the place where sleepers of the process stand.
LEMMA WokenIsSleeping ==
    ASSUME NEW p \in Procs, NEW u \in Threads, pc \in [Threads -> PCs]
    PROVE  /\ Woken(p, u) \in PCs
           /\ \/ Woken(p, u) = pc[u]
              \/ pc[u] = "gateWait" /\ Woken(p, u) = "gateWoken"
              \/ pc[u] = "snapWait" /\ Woken(p, u) = "snapWoken"
<1>1. CASE ProcOf[u] = p /\ pc[u] = "gateWait"
  <2>1. Woken(p, u) = "gateWoken"
    BY <1>1 DEF Woken
  <2> QED
    BY <1>1, <2>1 DEF PCs
<1>2. CASE ProcOf[u] = p /\ pc[u] = "snapWait"
  <2>1. Woken(p, u) = "snapWoken"
    BY <1>2 DEF Woken
  <2> QED
    BY <1>2, <2>1 DEF PCs
<1>3. CASE ~(ProcOf[u] = p /\ (pc[u] = "gateWait" \/ pc[u] = "snapWait"))
  <2>1. Woken(p, u) = pc[u]
    BY <1>3 DEF Woken
  <2> QED
    BY <2>1
<1> QED
  BY <1>1, <1>2, <1>3

\* policy_admission_gate's wait loop: the caller sleeps as a waiting writer, or
\* becomes the writer.
LEMMA GateTryIInv == ASSUME NEW t \in Threads, IInv, GateTry(t) PROVE IInv'
<1> USE ProcOfAssumption, NoneAssumption, BoundAssumption DEF IInv, GateTry, Asks, WriterMustWait
<1>1. TypeOK'
  BY DEF TypeOK, PCs
<1>2. WriterInv'
  BY DEF TypeOK, WriterInv, GroupInv, MutexInv
<1>3. ReaderInv'
  BY DEF TypeOK, ReaderInv
<1>4. GroupInv'
  BY DEF TypeOK, WriterInv, ReaderInv, GroupInv, FileLockInv, MutexInv
<1>5. FileLockInv'
  BY DEF TypeOK, WriterInv, ReaderInv, GroupInv, FileLockInv, MutexInv
<1>6. MutexInv'
  BY DEF TypeOK, ReaderInv, MutexInv
<1>7. WaitInv'
  BY DEF TypeOK, WaitInv
<1> QED
  BY <1>1, <1>2, <1>3, <1>4, <1>5, <1>6, <1>7 DEF IInv

\* The writer gets the file lock, which no reader group can be holding.
LEMMA GateLockIInv == ASSUME NEW t \in Threads, IInv, GateLock(t) PROVE IInv'
<1> USE ProcOfAssumption, NoneAssumption, BoundAssumption DEF IInv, GateLock, FileLockFree
<1>1. TypeOK'
  BY DEF TypeOK, PCs
<1>2. WriterInv'
  BY DEF TypeOK, WriterInv, GroupInv, MutexInv
<1>3. ReaderInv'
  BY DEF TypeOK, ReaderInv
<1>4. GroupInv'
  BY DEF TypeOK, WriterInv, ReaderInv, GroupInv, FileLockInv, MutexInv
<1>5. FileLockInv'
  BY DEF TypeOK, WriterInv, ReaderInv, GroupInv, FileLockInv, MutexInv
<1>6. MutexInv'
  <2>1. ASSUME NEW u \in Threads, pc'[u] = "snapLocking"
        PROVE  /\ mutex'[ProcOf[u]] = u
               /\ writer'[ProcOf[u]] = None
               /\ readers'[ProcOf[u]] = {}
               /\ waiting'[ProcOf[u]] = {}
    BY <2>1 DEF TypeOK, WriterInv, ReaderInv, MutexInv
  <2>2. ASSUME NEW p \in Procs, mutex'[p] # None
        PROVE  ProcOf[mutex'[p]] = p /\ pc'[mutex'[p]] = "snapLocking"
    <3>1. mutex[p] \in Threads \cup {None}
      BY DEF TypeOK
    <3> QED
      BY <2>2, <3>1 DEF TypeOK, MutexInv
  <2> QED
    BY <2>1, <2>2 DEF MutexInv
<1>7. WaitInv'
  BY DEF TypeOK, WaitInv
<1> QED
  BY <1>1, <1>2, <1>3, <1>4, <1>5, <1>6, <1>7 DEF IInv

\* The writer gives up; it stays the writer until it leaves.
LEMMA GateLockFailsIInv == ASSUME NEW t \in Threads, IInv, GateLockFails(t) PROVE IInv'
<1> USE ProcOfAssumption, NoneAssumption, BoundAssumption DEF IInv, GateLockFails
<1>1. TypeOK'
  BY DEF TypeOK, PCs
<1>2. WriterInv'
  BY DEF TypeOK, WriterInv, GroupInv, MutexInv
<1>3. ReaderInv'
  BY DEF TypeOK, ReaderInv
<1>4. GroupInv'
  BY DEF TypeOK, WriterInv, ReaderInv, GroupInv, FileLockInv, MutexInv
<1>5. FileLockInv'
  BY DEF TypeOK, WriterInv, ReaderInv, GroupInv, FileLockInv, MutexInv
<1>6. MutexInv'
  <2>1. ASSUME NEW u \in Threads, pc'[u] = "snapLocking"
        PROVE  /\ mutex'[ProcOf[u]] = u
               /\ writer'[ProcOf[u]] = None
               /\ readers'[ProcOf[u]] = {}
               /\ waiting'[ProcOf[u]] = {}
    BY <2>1 DEF TypeOK, WriterInv, ReaderInv, MutexInv
  <2>2. ASSUME NEW p \in Procs, mutex'[p] # None
        PROVE  ProcOf[mutex'[p]] = p /\ pc'[mutex'[p]] = "snapLocking"
    <3>1. mutex[p] \in Threads \cup {None}
      BY DEF TypeOK
    <3> QED
      BY <2>2, <3>1 DEF TypeOK, MutexInv
  <2> QED
    BY <2>1, <2>2 DEF MutexInv
<1>7. WaitInv'
  BY DEF TypeOK, WaitInv
<1> QED
  BY <1>1, <1>2, <1>3, <1>4, <1>5, <1>6, <1>7 DEF IInv

\* The writer gives the file lock back.
LEMMA GateUnlockIInv == ASSUME NEW t \in Threads, IInv, GateUnlock(t) PROVE IInv'
<1> USE ProcOfAssumption, NoneAssumption, BoundAssumption DEF IInv, GateUnlock
<1>1. TypeOK'
  BY DEF TypeOK, PCs
<1>2. WriterInv'
  BY DEF TypeOK, WriterInv, GroupInv, MutexInv
<1>3. ReaderInv'
  BY DEF TypeOK, ReaderInv
<1>4. GroupInv'
  BY DEF TypeOK, WriterInv, ReaderInv, GroupInv, FileLockInv, MutexInv
<1>5. FileLockInv'
  BY DEF TypeOK, WriterInv, ReaderInv, GroupInv, FileLockInv, MutexInv
<1>6. MutexInv'
  <2>1. ASSUME NEW u \in Threads, pc'[u] = "snapLocking"
        PROVE  /\ mutex'[ProcOf[u]] = u
               /\ writer'[ProcOf[u]] = None
               /\ readers'[ProcOf[u]] = {}
               /\ waiting'[ProcOf[u]] = {}
    <3>1. pc[u] = "snapLocking" /\ u # t
      BY <2>1 DEF TypeOK
    <3> QED
      BY <3>1 DEF TypeOK, MutexInv
  <2>2. ASSUME NEW p \in Procs, mutex'[p] # None
        PROVE  ProcOf[mutex'[p]] = p /\ pc'[mutex'[p]] = "snapLocking"
    <3>1. mutex[p] \in Threads \cup {None}
      BY DEF TypeOK
    <3> QED
      BY <2>2, <3>1 DEF TypeOK, MutexInv
  <2> QED
    BY <2>1, <2>2 DEF MutexInv
<1>7. WaitInv'
  BY DEF TypeOK, WaitInv
<1> QED
  BY <1>1, <1>2, <1>3, <1>4, <1>5, <1>6, <1>7 DEF IInv

\* The writer steps down and wakes the sleepers.
LEMMA GateLeaveIInv == ASSUME NEW t \in Threads, IInv, GateLeave(t) PROVE IInv'
<1> USE ProcOfAssumption, NoneAssumption, BoundAssumption DEF IInv, GateLeave, LeaveNotifying, Woken
<1>1. TypeOK'
  BY DEF TypeOK, PCs
<1>2. WriterInv'
  BY DEF TypeOK, WriterInv, GroupInv, MutexInv
<1>3. ReaderInv'
  BY DEF TypeOK, ReaderInv
<1>4. GroupInv'
  BY DEF TypeOK, WriterInv, ReaderInv, GroupInv, FileLockInv, MutexInv
<1>5. FileLockInv'
  BY DEF TypeOK, WriterInv, ReaderInv, GroupInv, FileLockInv, MutexInv
<1>6. MutexInv'
  BY DEF TypeOK, ReaderInv, MutexInv
<1>7. WaitInv'
  BY DEF TypeOK, WaitInv
<1> QED
  BY <1>1, <1>2, <1>3, <1>4, <1>5, <1>6, <1>7 DEF IInv

\* policy_admission_snapshot's wait loop: sleep, join the group, or go for the
\* file lock.
LEMMA SnapTryIInv == ASSUME NEW t \in Threads, IInv, SnapTry(t) PROVE IInv'
<1> USE ProcOfAssumption, NoneAssumption, BoundAssumption DEF IInv, SnapTry, Asks, ReaderMustWait
<1>1. TypeOK'
  BY DEF TypeOK, PCs
<1>2. WriterInv'
  BY DEF TypeOK, WriterInv, GroupInv, MutexInv
<1>3. ReaderInv'
  BY DEF TypeOK, ReaderInv
<1>4. GroupInv'
  BY DEF TypeOK, WriterInv, ReaderInv, GroupInv, FileLockInv, MutexInv
<1>5. FileLockInv'
  BY DEF TypeOK, WriterInv, ReaderInv, GroupInv, FileLockInv, MutexInv
<1>6. MutexInv'
  BY DEF TypeOK, ReaderInv, MutexInv
<1>7. WaitInv'
  BY DEF TypeOK, WaitInv
<1> QED
  BY <1>1, <1>2, <1>3, <1>4, <1>5, <1>6, <1>7 DEF IInv

\* The first reader of a group gets the file lock.
LEMMA SnapLockIInv == ASSUME NEW t \in Threads, IInv, SnapLock(t) PROVE IInv'
<1> USE ProcOfAssumption, NoneAssumption, BoundAssumption DEF IInv, SnapLock, FileLockFree
<1>1. TypeOK'
  BY DEF TypeOK, PCs
<1>2. WriterInv'
  BY DEF TypeOK, WriterInv, GroupInv, MutexInv
<1>3. ReaderInv'
  BY DEF TypeOK, ReaderInv
<1>4. GroupInv'
  BY DEF TypeOK, WriterInv, ReaderInv, GroupInv, FileLockInv, MutexInv
<1>5. FileLockInv'
  <2>1. ASSUME NEW u \in Threads, pc'[u] = "gateHeld" PROVE FALSE
    BY <2>1 DEF TypeOK, FileLockInv
  <2>2. readers'[ProcOf[flock']] # {}
    BY DEF TypeOK
  <2> QED
    BY <2>1, <2>2 DEF FileLockInv
<1>6. MutexInv'
  <2>1. ASSUME NEW u \in Threads, pc'[u] = "snapLocking"
        PROVE  /\ mutex'[ProcOf[u]] = u
               /\ writer'[ProcOf[u]] = None
               /\ readers'[ProcOf[u]] = {}
               /\ waiting'[ProcOf[u]] = {}
    BY <2>1 DEF TypeOK, WriterInv, ReaderInv, MutexInv
  <2>2. ASSUME NEW p \in Procs, mutex'[p] # None
        PROVE  ProcOf[mutex'[p]] = p /\ pc'[mutex'[p]] = "snapLocking"
    <3>1. mutex[p] \in Threads \cup {None}
      BY DEF TypeOK
    <3> QED
      BY <2>2, <3>1 DEF TypeOK, MutexInv
  <2> QED
    BY <2>1, <2>2 DEF MutexInv
<1>7. WaitInv'
  BY DEF TypeOK, WaitInv
<1> QED
  BY <1>1, <1>2, <1>3, <1>4, <1>5, <1>6, <1>7 DEF IInv

\* The first reader fails before anything of it is counted.
LEMMA SnapLockFailsIInv == ASSUME NEW t \in Threads, IInv, SnapLockFails(t) PROVE IInv'
<1> USE ProcOfAssumption, NoneAssumption, BoundAssumption DEF IInv, SnapLockFails
<1>1. TypeOK'
  BY DEF TypeOK, PCs
<1>2. WriterInv'
  BY DEF TypeOK, WriterInv, GroupInv, MutexInv
<1>3. ReaderInv'
  BY DEF TypeOK, ReaderInv
<1>4. GroupInv'
  BY DEF TypeOK, WriterInv, ReaderInv, GroupInv, FileLockInv, MutexInv
<1>5. FileLockInv'
  BY DEF TypeOK, WriterInv, ReaderInv, GroupInv, FileLockInv, MutexInv
<1>6. MutexInv'
  <2>1. ASSUME NEW u \in Threads, pc'[u] = "snapLocking"
        PROVE  /\ mutex'[ProcOf[u]] = u
               /\ writer'[ProcOf[u]] = None
               /\ readers'[ProcOf[u]] = {}
               /\ waiting'[ProcOf[u]] = {}
    <3>1. pc[u] = "snapLocking" /\ u # t
      BY <2>1 DEF TypeOK
    <3> QED
      BY <3>1 DEF TypeOK, MutexInv
  <2>2. ASSUME NEW p \in Procs, mutex'[p] # None
        PROVE  ProcOf[mutex'[p]] = p /\ pc'[mutex'[p]] = "snapLocking"
    <3>1. mutex[p] \in Threads \cup {None}
      BY DEF TypeOK
    <3> QED
      BY <2>2, <3>1 DEF TypeOK, MutexInv
  <2> QED
    BY <2>1, <2>2 DEF MutexInv
<1>7. WaitInv'
  BY DEF TypeOK, WaitInv
<1> QED
  BY <1>1, <1>2, <1>3, <1>4, <1>5, <1>6, <1>7 DEF IInv

\* A reader leaves; the last one gives the file lock back.
LEMMA SnapLeaveIInv == ASSUME NEW t \in Threads, IInv, SnapLeave(t) PROVE IInv'
<1> USE ProcOfAssumption, NoneAssumption, BoundAssumption DEF IInv, SnapLeave, LastReader, LeaveNotifying, Woken
<1> DEFINE p == ProcOf[t]
<1>a. /\ p \in Procs /\ t \in readers[p] /\ pc[t] = "snapHeld"
      /\ writer[p] = None /\ guard[p] \in Threads
      /\ flock = guard[p] /\ ProcOf[guard[p]] = p
  BY DEF TypeOK, ReaderInv, GroupInv
<1>b. \A q \in Procs : q # p => readers[q] = {} /\ guard[q] = None
  BY <1>a DEF TypeOK, GroupInv
<1>c. \A u \in Threads : pc[u] # "gateHeld"
  BY <1>a DEF TypeOK, FileLockInv, WriterInv
<1>d. /\ readers' = [readers EXCEPT ![p] = @ \ {t}]
      /\ depth' = [depth EXCEPT ![t] = 0]
      /\ UNCHANGED <<mutex, writer, waiting, ops>>
  OBVIOUS
<1>e. /\ pc' \in [Threads -> PCs]
      /\ pc'[t] = "idle"
      /\ \A u \in Threads \ {t} :
           \/ pc'[u] = pc[u]
           \/ pc[u] = "gateWait" /\ pc'[u] = "gateWoken"
           \/ pc[u] = "snapWait" /\ pc'[u] = "snapWoken"
  <2>1. CASE LastReader(t)
    <3>1. pc' = [u \in Threads |-> IF u = t THEN "idle" ELSE Woken(p, u)]
      BY <2>1 DEF LeaveNotifying
    <3>2. "idle" \in PCs
      BY DEF PCs
    <3>3. pc \in [Threads -> PCs]
      BY DEF TypeOK
    <3> HIDE DEF Woken, p, SnapLeave, IInv, LastReader, LeaveNotifying
    <3>4. pc' \in [Threads -> PCs]
      BY <1>a, <3>1, <3>2, <3>3, WokenIsSleeping
    <3> QED
      BY <1>a, <3>1, <3>3, <3>4, WokenIsSleeping
  <2>2. CASE ~LastReader(t)
    <3>1. pc' = [pc EXCEPT ![t] = "idle"]
      BY <2>2
    <3>2. "idle" \in PCs
      BY DEF PCs
    <3>3. pc \in [Threads -> PCs]
      BY DEF TypeOK
    <3> HIDE DEF SnapLeave, IInv, LastReader, LeaveNotifying, Woken
    <3>4. pc' \in [Threads -> PCs]
      BY <3>1, <3>2, <3>3
    <3> QED
      BY <3>1, <3>3, <3>4
  <2> QED
    BY <2>1, <2>2
<1>f. \/ readers[p] = {t} /\ flock' = None /\ guard' = [guard EXCEPT ![p] = None]
      \/ readers[p] # {t} /\ UNCHANGED <<flock, guard>>
  BY <1>a, NoneAssumption
<1> HIDE DEF p, SnapLeave
<1>1. TypeOK'
  <2>1. flock' \in Threads \cup {None} /\ guard' \in [Procs -> Threads \cup {None}]
    BY <1>f DEF TypeOK
  <2>2. readers' \in [Procs -> SUBSET Threads] /\ depth' \in [Threads -> Nat]
    BY <1>d DEF TypeOK
  <2> QED
    BY <1>d, <1>e, <2>1, <2>2 DEF TypeOK
<1>2. WriterInv'
  BY <1>a, <1>d, <1>e DEF TypeOK, WriterInv
<1>3. ReaderInv'
  BY <1>a, <1>d, <1>e DEF TypeOK, ReaderInv, p
<1>4. GroupInv'
  <2>1. ASSUME NEW q \in Procs, q # p
        PROVE  readers'[q] = {} /\ guard'[q] = None
    BY <1>a, <1>b, <1>d, <1>f, <2>1 DEF TypeOK
  <2>2. CASE readers[p] = {t}
    <3>1. readers'[p] = {} /\ guard'[p] = None
      BY <1>a, <1>d, <1>f, <2>2 DEF TypeOK
    <3> QED
      BY <2>1, <3>1 DEF GroupInv
  <2>3. CASE readers[p] # {t}
    <3>1. /\ writer'[p] = None /\ guard'[p] \in Threads
          /\ flock' = guard'[p] /\ ProcOf[guard'[p]] = p
      BY <1>a, <1>d, <1>f, <2>3
    <3>2. readers'[p] # {}
      BY <1>a, <1>d, <2>3 DEF TypeOK
    <3> QED
      BY <2>1, <3>1, <3>2 DEF GroupInv
  <2> QED
    BY <2>2, <2>3
<1>5. FileLockInv'
  <2>1. \A u \in Threads : pc'[u] # "gateHeld"
    BY <1>c, <1>e
  <2>2. ASSUME flock' # None PROVE readers'[ProcOf[flock']] # {}
    <3>1. readers[p] # {t} /\ flock' = guard[p]
      BY <1>a, <1>f, <2>2
    <3> QED
      BY <1>a, <1>d, <3>1 DEF TypeOK
  <2> QED
    BY <2>1, <2>2 DEF FileLockInv
<1>6. MutexInv'
  <2>1. ASSUME NEW u \in Threads, pc'[u] = "snapLocking"
        PROVE  /\ mutex'[ProcOf[u]] = u
               /\ writer'[ProcOf[u]] = None
               /\ readers'[ProcOf[u]] = {}
               /\ waiting'[ProcOf[u]] = {}
    <3>1. pc[u] = "snapLocking"
      BY <1>e, <2>1
    <3>2. ProcOf[u] # p
      BY <1>a, <3>1 DEF MutexInv
    <3> QED
      BY <1>d, <3>1, <3>2 DEF TypeOK, MutexInv
  <2>2. ASSUME NEW q \in Procs, mutex'[q] # None
        PROVE  ProcOf[mutex'[q]] = q /\ pc'[mutex'[q]] = "snapLocking"
    <3>1. mutex[q] \in Threads /\ pc[mutex[q]] = "snapLocking" /\ ProcOf[mutex[q]] = q
      BY <1>d, <2>2 DEF TypeOK, MutexInv
    <3> QED
      BY <1>a, <1>d, <1>e, <3>1
  <2> QED
    BY <2>1, <2>2 DEF MutexInv
<1>7. WaitInv'
  BY <1>a, <1>d, <1>e DEF TypeOK, WaitInv
<1> QED
  BY <1>1, <1>2, <1>3, <1>4, <1>5, <1>6, <1>7 DEF IInv

\* Re-entry changes the thread's depth only.
LEMMA NestIInv == ASSUME NEW t \in Threads, IInv, Nest(t) PROVE IInv'
<1> USE ProcOfAssumption, NoneAssumption, BoundAssumption DEF IInv, Nest, Inside
<1>1. TypeOK'
  BY DEF TypeOK, PCs
<1>2. WriterInv'
  BY DEF TypeOK, WriterInv, GroupInv, MutexInv
<1>3. ReaderInv'
  BY DEF TypeOK, ReaderInv
<1>4. GroupInv'
  BY DEF TypeOK, WriterInv, ReaderInv, GroupInv, FileLockInv, MutexInv
<1>5. FileLockInv'
  BY DEF TypeOK, WriterInv, ReaderInv, GroupInv, FileLockInv, MutexInv
<1>6. MutexInv'
  BY DEF TypeOK, ReaderInv, MutexInv
<1>7. WaitInv'
  BY DEF TypeOK, WaitInv
<1> QED
  BY <1>1, <1>2, <1>3, <1>4, <1>5, <1>6, <1>7 DEF IInv

\* So does the end of a nested admission.
LEMMA UnnestIInv == ASSUME NEW t \in Threads, IInv, Unnest(t) PROVE IInv'
<1> USE ProcOfAssumption, NoneAssumption, BoundAssumption DEF IInv, Unnest, Inside
<1>1. TypeOK'
  BY DEF TypeOK, PCs
<1>2. WriterInv'
  BY DEF TypeOK, WriterInv, GroupInv, MutexInv
<1>3. ReaderInv'
  BY DEF TypeOK, ReaderInv
<1>4. GroupInv'
  BY DEF TypeOK, WriterInv, ReaderInv, GroupInv, FileLockInv, MutexInv
<1>5. FileLockInv'
  BY DEF TypeOK, WriterInv, ReaderInv, GroupInv, FileLockInv, MutexInv
<1>6. MutexInv'
  BY DEF TypeOK, ReaderInv, MutexInv
<1>7. WaitInv'
  BY DEF TypeOK, WaitInv
<1> QED
  BY <1>1, <1>2, <1>3, <1>4, <1>5, <1>6, <1>7 DEF IInv

\* A dead process leaves no bookkeeping and no file lock behind.
LEMMA CrashIInv == ASSUME NEW p \in Procs, IInv, Crash(p) PROVE IInv'
<1> USE ProcOfAssumption, NoneAssumption, BoundAssumption DEF IInv, Crash, ThreadsOf
<1>1. TypeOK'
  BY DEF TypeOK, PCs
<1>2. WriterInv'
  BY DEF TypeOK, WriterInv
<1>3. ReaderInv'
  BY DEF TypeOK, ReaderInv
<1>4. GroupInv'
  BY DEF TypeOK, GroupInv
<1>5. FileLockInv'
  <2>1. ASSUME NEW u \in Threads, pc'[u] = "gateHeld" PROVE flock' = u
    BY <2>1 DEF TypeOK, FileLockInv
  <2>2. ASSUME flock' # None
        PROVE  pc'[flock'] = "gateHeld" \/ readers'[ProcOf[flock']] # {}
    <3>1. flock' = flock /\ flock \in Threads /\ ProcOf[flock] # p
      BY <2>2 DEF TypeOK
    <3> QED
      BY <3>1 DEF TypeOK, FileLockInv
  <2> QED
    BY <2>1, <2>2 DEF FileLockInv
<1>6. MutexInv'
  BY DEF TypeOK, MutexInv
<1>7. WaitInv'
  BY DEF TypeOK, WaitInv
<1> QED
  BY <1>1, <1>2, <1>3, <1>4, <1>5, <1>6, <1>7 DEF IInv

\* A step that changes nothing preserves the invariant.
LEMMA StutterIInv == ASSUME IInv, UNCHANGED vars PROVE IInv'
  BY DEF IInv, vars, TypeOK, WriterInv, ReaderInv, GroupInv, FileLockInv,
         MutexInv, WaitInv

\* Every step preserves the invariant.
LEMMA NextIInv == IInv /\ [Next]_vars => IInv'
<1> SUFFICES ASSUME IInv, [Next]_vars PROVE IInv'
  OBVIOUS
<1>1. ASSUME NEW t \in Threads, GateTry(t) PROVE IInv'
  BY <1>1, GateTryIInv
<1>2. ASSUME NEW t \in Threads, GateLock(t) \/ GateLockFails(t) PROVE IInv'
  BY <1>2, GateLockIInv, GateLockFailsIInv
<1>3. ASSUME NEW t \in Threads, GateUnlock(t) \/ GateLeave(t) PROVE IInv'
  BY <1>3, GateUnlockIInv, GateLeaveIInv
<1>4. ASSUME NEW t \in Threads, SnapTry(t) PROVE IInv'
  BY <1>4, SnapTryIInv
<1>5. ASSUME NEW t \in Threads, SnapLock(t) \/ SnapLockFails(t) PROVE IInv'
  BY <1>5, SnapLockIInv, SnapLockFailsIInv
<1>6. ASSUME NEW t \in Threads, SnapLeave(t) PROVE IInv'
  BY <1>6, SnapLeaveIInv
<1>7. ASSUME NEW t \in Threads, Nest(t) \/ Unnest(t) PROVE IInv'
  BY <1>7, NestIInv, UnnestIInv
<1>8. ASSUME NEW p \in Procs, Crash(p) PROVE IInv'
  BY <1>8, CrashIInv
<1>9. CASE Finished \/ UNCHANGED vars
  BY <1>9, StutterIInv DEF Finished
<1> QED
  BY <1>1, <1>2, <1>3, <1>4, <1>5, <1>6, <1>7, <1>8, <1>9 DEF Next

\* The bookkeeping invariant holds in every reachable state.
THEOREM Invariance == Spec => []IInv
  BY InitIInv, NextIInv, PTL DEF Spec

\* The variables keep their types, for any number of threads and processes.
THEOREM TypeCorrect == Spec => []TypeOK
<1>1. IInv => TypeOK
  BY DEF IInv
<1> QED
  BY <1>1, Invariance, PTL

\* Two threads inside against the rules would be two owners of one file lock.
LEMMA InsideIsExclusive == IInv => Exclusion
<1> SUFFICES ASSUME IInv PROVE Exclusion
  OBVIOUS
<1> USE ProcOfAssumption, NoneAssumption DEF IInv
<1>1. ASSUME NEW t \in Threads, pc[t] = "snapHeld"
      PROVE  /\ flock = guard[ProcOf[t]]
             /\ ProcOf[flock] = ProcOf[t]
             /\ flock \in Threads
             /\ writer[ProcOf[t]] = None
  BY <1>1 DEF TypeOK, ReaderInv, GroupInv
<1>2. ASSUME NEW t \in Threads, NEW u \in Threads, t # u, pc[t] = "gateHeld"
      PROVE  pc[u] \notin Inside
  <2>1. flock = t /\ writer[ProcOf[t]] = t
    BY <1>2 DEF TypeOK, FileLockInv, WriterInv
  <2>2. pc[u] # "gateHeld"
    BY <1>2, <2>1 DEF FileLockInv
  <2>3. pc[u] # "snapHeld"
    BY <1>1, <1>2, <2>1
  <2> QED
    BY <2>2, <2>3 DEF Inside
<1>3. ASSUME NEW t \in Threads, NEW u \in Threads,
             pc[t] = "snapHeld", pc[u] = "snapHeld"
      PROVE  ProcOf[t] = ProcOf[u]
  BY <1>1, <1>3
<1> QED
  BY <1>2, <1>3 DEF Exclusion

\* policy_admission_gate excludes every other admission of every process, and
\* snapshots are shared inside one process only.
THEOREM MutualExclusion == Spec => []Exclusion
  BY Invariance, InsideIsExclusive, PTL

\* The bookkeeping of a process whose threads are all idle counts nobody.
LEMMA IdleMeansFree == IInv => NoLeakedAdmission
<1> SUFFICES ASSUME IInv, NEW p \in Procs,
                    \A t \in ThreadsOf(p) : pc[t] = "idle"
             PROVE  /\ writer[p] = None /\ readers[p] = {} /\ waiting[p] = {}
                    /\ mutex[p] = None /\ guard[p] = None
                    /\ flock \notin ThreadsOf(p)
  BY DEF NoLeakedAdmission
<1> USE ProcOfAssumption, NoneAssumption DEF IInv, ThreadsOf
<1>1. readers[p] = {} /\ guard[p] = None
  BY DEF TypeOK, ReaderInv, GroupInv
<1>2. writer[p] = None
  BY DEF TypeOK, WriterInv
<1>3. waiting[p] = {}
  BY DEF TypeOK, WaitInv
<1>4. mutex[p] = None
  BY DEF TypeOK, MutexInv
<1>5. flock \notin ThreadsOf(p)
  BY <1>1 DEF TypeOK, FileLockInv
<1> QED
  BY <1>1, <1>2, <1>3, <1>4, <1>5

\* Nothing of an admission outlives it, however it ended.
THEOREM NothingLeaks == Spec => []NoLeakedAdmission
  BY Invariance, IdleMeansFree, PTL

\* A reader enters only when no writer of its process is waiting.
LEMMA EntryNeedsNoWaiter ==
    IInv /\ [Next]_vars =>
        [\A t \in Threads :
            pc[t] # "snapHeld" /\ pc'[t] = "snapHeld" => waiting[ProcOf[t]] = {}]_vars
<1> SUFFICES ASSUME IInv, Next, NEW t \in Threads,
                    pc[t] # "snapHeld", pc'[t] = "snapHeld"
             PROVE  waiting[ProcOf[t]] = {}
  OBVIOUS
<1> USE ProcOfAssumption DEF IInv
<1>1. ASSUME NEW u \in Threads, SnapTry(u) PROVE waiting[ProcOf[t]] = {}
  BY <1>1 DEF SnapTry, ReaderMustWait, TypeOK
<1>2. ASSUME NEW u \in Threads, SnapLock(u) PROVE waiting[ProcOf[t]] = {}
  BY <1>2 DEF SnapLock, TypeOK, MutexInv
<1>3. ASSUME NEW u \in Threads, GateLeave(u) \/ SnapLeave(u) PROVE FALSE
  <2>1. pc'[t] \in {"idle", pc[t], Woken(ProcOf[u], t)}
    BY <1>3 DEF GateLeave, SnapLeave, LeaveNotifying, TypeOK
  <2> QED
    BY <2>1, WokenIsSleeping DEF TypeOK
<1>4. ASSUME NEW u \in Threads, \/ GateTry(u) \/ GateLock(u) \/ GateLockFails(u)
                                \/ GateUnlock(u) \/ SnapLockFails(u)
                                \/ Nest(u) \/ Unnest(u)
      PROVE  FALSE
  BY <1>4 DEF GateTry, GateLock, GateLockFails, GateUnlock, SnapLockFails,
              Nest, Unnest, TypeOK
<1>5. ASSUME NEW p \in Procs, Crash(p) PROVE FALSE
  BY <1>5 DEF Crash
<1>6. CASE Finished
  BY <1>6 DEF Finished, vars
<1> QED
  BY <1>1, <1>2, <1>3, <1>4, <1>5, <1>6 DEF Next

\* No reader enters a snapshot while a writer of its process waits.
THEOREM WritersComeFirst == Spec => WriterPreference
  BY Invariance, EntryNeedsNoWaiter, PTL DEF Spec, WriterPreference

-----------------------------------------------------------------------------
(* The code implements AdmissionLock: every step is a step of the abstract *)
(* lock on the sets of threads inside, or leaves both sets alone.          *)

Sharers == {t \in Threads : pc[t] = "snapHeld"}

Owners == {t \in Threads : pc[t] = "gateHeld"}

\* The initial states are initial states of the abstract lock.
LEMMA InitMaps == Init => Lock!LockInit
  BY DEF Init, Lock!LockInit

\* An admission that moves no thread into or out of a snapshot or the gate.
LEMMA OtherMovesMap ==
    ASSUME pc \in [Threads -> PCs], pc' \in [Threads -> PCs],
           \A u \in Threads : pc'[u] # pc[u] => pc[u] \notin Inside /\ pc'[u] \notin Inside
    PROVE  UNCHANGED Lock!lockVars
<1>1. Sharers' = Sharers
  BY DEF Sharers, Inside
<1>2. Owners' = Owners
  BY DEF Owners, Inside
<1> QED
  BY <1>1, <1>2 DEF Sharers, Owners, Lock!lockVars

\* Taking the file lock as the writer acquires exclusive admission.
LEMMA EnterGateMaps ==
    ASSUME NEW t \in Threads, IInv, GateLock(t) PROVE Lock!AcquireExclusive(t)
<1> USE ProcOfAssumption, NoneAssumption DEF IInv, GateLock, FileLockFree
<1>1. \A u \in Threads : pc[u] # "gateHeld"
  BY DEF FileLockInv
<1>2. ASSUME NEW u \in Threads, pc[u] = "snapHeld" PROVE FALSE
  <2>1. ProcOf[u] \in Procs /\ readers[ProcOf[u]] # {}
    BY <1>2 DEF ReaderInv
  <2> QED
    BY <2>1 DEF GroupInv
<1>3. Sharers = {} /\ Owners = {}
  BY <1>1, <1>2 DEF Sharers, Owners
<1>4. Sharers' = {} /\ Owners' = {t}
  BY <1>1, <1>2 DEF Sharers, Owners, TypeOK
<1> QED
  BY <1>3, <1>4 DEF Lock!AcquireExclusive, Lock!Unlocked, Sharers, Owners

\* Giving it back releases exclusive admission.
LEMMA LeaveGateMaps ==
    ASSUME NEW t \in Threads, IInv, GateUnlock(t) PROVE Lock!ReleaseExclusive(t)
<1> USE DEF IInv, GateUnlock
<1>1. Sharers' = Sharers /\ Owners' = Owners \ {t} /\ t \in Owners
  BY DEF TypeOK, Sharers, Owners
<1> QED
  BY <1>1 DEF Lock!ReleaseExclusive, Sharers, Owners

\* Whoever enters a snapshot finds no gate held and only threads of its process.
LEMMA EnterSnapshotMaps ==
    ASSUME NEW t \in Threads, IInv, Exclusion', pc[t] \notin Inside,
           pc' = [pc EXCEPT ![t] = "snapHeld"]
    PROVE  Lock!AcquireShared(t)
<1>1. Sharers' = Sharers \cup {t} /\ Owners' = Owners /\ t \notin Sharers
  BY DEF IInv, TypeOK, Sharers, Owners, Inside
<1>3. Owners = {}
  <2>1. ASSUME NEW u \in Owners PROVE FALSE
    <3>1. u \in Threads /\ pc'[u] = "gateHeld" /\ u # t /\ pc'[t] = "snapHeld"
      BY DEF IInv, TypeOK, Owners, Inside
    <3> QED
      BY <3>1 DEF Exclusion, Inside
  <2> QED
    BY <2>1
<1>4. \A u \in Sharers : ProcOf[u] = ProcOf[t]
  BY DEF Exclusion, Sharers, IInv, TypeOK
<1> QED
  BY <1>1, <1>3, <1>4 DEF Lock!AcquireShared, Sharers, Owners

\* The end of a snapshot releases one share.
LEMMA LeaveSnapshotMaps ==
    ASSUME NEW t \in Threads, IInv, SnapLeave(t) PROVE Lock!ReleaseShared(t)
<1>1. /\ pc[t] = "snapHeld"
      /\ pc'[t] = "idle"
      /\ \A u \in Threads \ {t} :
           pc'[u] # pc[u] => pc[u] \notin Inside /\ pc'[u] \notin Inside
  <2>1. CASE LastReader(t)
    <3>1. /\ pc[t] = "snapHeld"
          /\ pc' = [u \in Threads |-> IF u = t THEN "idle" ELSE Woken(ProcOf[t], u)]
      BY <2>1 DEF SnapLeave, LeaveNotifying
    <3>2. pc \in [Threads -> PCs] /\ ProcOf[t] \in Procs
      BY ProcOfAssumption DEF IInv, TypeOK
    <3> QED
      BY <3>1, <3>2, WokenIsSleeping DEF Inside
  <2>2. CASE ~LastReader(t)
    BY <2>2 DEF SnapLeave, IInv, TypeOK
  <2> QED
    BY <2>1, <2>2
<1>2. Sharers' = Sharers \ {t} /\ Owners' = Owners /\ t \in Sharers
  BY <1>1 DEF Sharers, Owners, Inside
<1> QED
  BY <1>2 DEF Lock!ReleaseShared, Sharers, Owners

\* A crash abandons whatever the threads of the process held.
LEMMA CrashMaps ==
    ASSUME NEW p \in Procs, IInv, Crash(p) PROVE Lock!Abandon(p)
<1>1. /\ Sharers' = Sharers \ ThreadsOf(p)
      /\ Owners' = Owners \ ThreadsOf(p)
  BY DEF Crash, IInv, TypeOK, Sharers, Owners, ThreadsOf
<1> QED
  BY <1>1 DEF Lock!Abandon, Lock!ThreadsOf, ThreadsOf, Sharers, Owners

\* Every step is a step of the abstract lock or a stutter of it.
LEMMA StepMaps ==
    IInv /\ IInv' /\ Exclusion' /\ [Next]_vars => [Lock!LockNext]_(Lock!lockVars)
<1> SUFFICES ASSUME IInv, IInv', Exclusion', [Next]_vars
             PROVE  Lock!LockNext \/ UNCHANGED Lock!lockVars
  OBVIOUS
<1>0. pc \in [Threads -> PCs] /\ pc' \in [Threads -> PCs]
  BY DEF IInv, TypeOK
<1>1. ASSUME NEW t \in Threads, GateLock(t) PROVE Lock!LockNext
  BY <1>1, EnterGateMaps DEF Lock!LockNext
<1>2. ASSUME NEW t \in Threads, GateUnlock(t) PROVE Lock!LockNext
  BY <1>2, LeaveGateMaps DEF Lock!LockNext
<1>3. ASSUME NEW t \in Threads, SnapLock(t) PROVE Lock!LockNext
  <2>1. pc[t] \notin Inside /\ pc' = [pc EXCEPT ![t] = "snapHeld"]
    BY <1>3 DEF SnapLock, Inside
  <2> QED
    BY <2>1, EnterSnapshotMaps DEF Lock!LockNext
<1>4. ASSUME NEW t \in Threads, SnapLeave(t) PROVE Lock!LockNext
  BY <1>4, LeaveSnapshotMaps DEF Lock!LockNext
<1>5. ASSUME NEW p \in Procs, Crash(p) PROVE Lock!LockNext
  BY <1>5, CrashMaps DEF Lock!LockNext
<1>6. ASSUME NEW t \in Threads, SnapTry(t)
      PROVE  Lock!LockNext \/ UNCHANGED Lock!lockVars
  <2>1. pc[t] \in {"idle", "snapWoken"}
    BY <1>6 DEF SnapTry, Asks
  <2>2. CASE pc' = [pc EXCEPT ![t] = "snapHeld"]
    BY <2>1, <2>2, EnterSnapshotMaps DEF Lock!LockNext, Inside
  <2>3. CASE pc' = [pc EXCEPT ![t] = "snapWait"] \/ pc' = [pc EXCEPT ![t] = "snapLocking"]
    <3>1. \A u \in Threads :
            pc'[u] # pc[u] => pc[u] \notin Inside /\ pc'[u] \notin Inside
      BY <1>0, <2>1, <2>3 DEF Inside
    <3> QED
      BY <1>0, <3>1, OtherMovesMap
  <2> QED
    BY <1>6, <2>2, <2>3 DEF SnapTry
<1>7. ASSUME NEW t \in Threads, \/ GateTry(t) \/ GateLockFails(t) \/ GateLeave(t)
                                \/ SnapLockFails(t) \/ Nest(t) \/ Unnest(t)
      PROVE  UNCHANGED Lock!lockVars
  <2>1. \A u \in Threads :
          pc'[u] # pc[u] => pc[u] \notin Inside /\ pc'[u] \notin Inside
    <3>1. CASE GateLeave(t)
      BY <1>0, <3>1, ProcOfAssumption, WokenIsSleeping
         DEF GateLeave, LeaveNotifying, Inside
    <3>2. CASE ~GateLeave(t)
      BY <1>0, <1>7, <3>2 DEF GateTry, Asks, GateLockFails, SnapLockFails,
                              Nest, Unnest, Inside
    <3> QED
      BY <3>1, <3>2
  <2> QED
    BY <1>0, <2>1, OtherMovesMap
<1>8. CASE Finished \/ UNCHANGED vars
  BY <1>8 DEF Finished, vars, Lock!lockVars
<1> QED
  BY <1>1, <1>2, <1>3, <1>4, <1>5, <1>6, <1>7, <1>8 DEF Next

\* The condition variable, the counters and the file lock together keep exactly
\* the promise that every caller of the gate relies on.
THEOREM GateImplementsLock == Spec => ImplementsLock
  BY InitMaps, Invariance, MutualExclusion, StepMaps, PTL DEF Spec, ImplementsLock, Lock!LockSpec

-----------------------------------------------------------------------------
(* Nobody waits for somebody who waits.  ENABLED is beyond the provers, so  *)
(* the guards of Continue's actions are written out: what a thread that has *)
(* started an admission is waiting for, read from pc.                       *)

CanContinue(t) ==
    \/ /\ pc[t] \in {"gateWoken", "gateLeaving", "snapWoken"}
       /\ mutex[ProcOf[t]] = None
    \/ /\ pc[t] \in {"gateLocking", "snapLocking"}
       /\ FileLockFree
    \/ /\ pc[t] = "gateHeld"
       /\ depth[t] > 0
    \/ /\ pc[t] = "snapHeld"
       /\ depth[t] > 1 \/ (depth[t] = 1 /\ mutex[ProcOf[t]] = None)

\* As long as an admission is under way anywhere, some thread that is in the
\* middle of one can go on, without a failure, a death or a new request.
NobodyIsStuck ==
    (\E t \in Threads : pc[t] # "idle") => \E t \in Threads : CanContinue(t)

\* No wake-up is lost: whoever sleeps in a wait loop still has to.
SleepInv ==
    \A t \in Threads :
        /\ pc[t] = "gateWait" => WriterMustWait(ProcOf[t])
        /\ pc[t] = "snapWait" => ReaderMustWait(ProcOf[t])

\* Exactly the threads inside have an admission of their own to give back.
DepthInv == \A t \in Threads : pc[t] \in Inside <=> depth[t] > 0

\* The wait loop of policy_admission_gate.
LEMMA GateTrySleep == ASSUME NEW t \in Threads, IInv, SleepInv, GateTry(t) PROVE SleepInv'
<1> USE ProcOfAssumption, NoneAssumption DEF GateTry, WriterMustWait, ReaderMustWait
<1> DEFINE p == ProcOf[t]
<1>1. CASE WriterMustWait(p)
  <2>1. /\ pc' = [pc EXCEPT ![t] = "gateWait"]
        /\ waiting' = [waiting EXCEPT ![p] = @ \cup {t}]
        /\ UNCHANGED <<writer, readers>>
    BY <1>1
  <2> QED
    BY <1>1, <2>1 DEF IInv, TypeOK, SleepInv
<1>2. CASE ~WriterMustWait(p)
  <2>1. /\ pc' = [pc EXCEPT ![t] = "gateLocking"]
        /\ waiting' = [waiting EXCEPT ![p] = @ \ {t}]
        /\ writer' = [writer EXCEPT ![p] = t]
        /\ UNCHANGED readers
    BY <1>2
  <2> QED
    BY <1>2, <2>1 DEF IInv, TypeOK, SleepInv
<1> QED
  BY <1>1, <1>2

\* The wait loop of policy_admission_snapshot.
LEMMA SnapTrySleep == ASSUME NEW t \in Threads, IInv, SleepInv, SnapTry(t) PROVE SleepInv'
<1> USE ProcOfAssumption, NoneAssumption DEF SnapTry, WriterMustWait, ReaderMustWait
<1>1. UNCHANGED <<writer, waiting>>
  OBVIOUS
<1>2. CASE ReaderMustWait(ProcOf[t]) /\ pc' = [pc EXCEPT ![t] = "snapWait"]
           /\ UNCHANGED readers
  BY <1>1, <1>2 DEF IInv, TypeOK, SleepInv
<1>3. CASE pc' = [pc EXCEPT ![t] = "snapLocking"] /\ UNCHANGED readers
  BY <1>1, <1>3 DEF IInv, TypeOK, SleepInv
<1>4. CASE /\ pc' = [pc EXCEPT ![t] = "snapHeld"]
           /\ readers' = [readers EXCEPT ![ProcOf[t]] = @ \cup {t}]
  BY <1>1, <1>4 DEF IInv, TypeOK, SleepInv
<1> QED
  BY <1>2, <1>3, <1>4

\* Whoever leaves last wakes every sleeper of the process, so that none of its
\* threads sleeps; the other processes are untouched.
LEMMA NotifyingSleep ==
    ASSUME NEW t \in Threads, IInv, SleepInv, LeaveNotifying(t),
           UNCHANGED waiting,
           \A p \in Procs \ {ProcOf[t]} : writer'[p] = writer[p] /\ readers'[p] = readers[p]
    PROVE  SleepInv'
<1> USE ProcOfAssumption
<1>1. ASSUME NEW u \in Threads, ProcOf[u] = ProcOf[t]
      PROVE  pc'[u] \notin {"gateWait", "snapWait"}
  BY <1>1 DEF LeaveNotifying, Woken
<1>2. ASSUME NEW u \in Threads, ProcOf[u] # ProcOf[t]
      PROVE  pc'[u] = pc[u]
  BY <1>2 DEF LeaveNotifying, Woken
<1>3. ASSUME NEW u \in Threads
      PROVE  /\ pc'[u] = "gateWait" => WriterMustWait(ProcOf[u])'
             /\ pc'[u] = "snapWait" => ReaderMustWait(ProcOf[u])'
  <2>1. CASE ProcOf[u] = ProcOf[t]
    BY <1>1, <2>1
  <2>2. CASE ProcOf[u] # ProcOf[t]
    BY <1>2, <2>2 DEF SleepInv, WriterMustWait, ReaderMustWait
  <2> QED
    BY <2>1, <2>2
<1> QED
  BY <1>3 DEF SleepInv

\* A reader leaves: the last wakes everybody, any other leaves readers behind.
LEMMA SnapLeaveSleep == ASSUME NEW t \in Threads, IInv, SleepInv, SnapLeave(t) PROVE SleepInv'
<1> USE ProcOfAssumption DEF SnapLeave
<1>1. readers \in [Procs -> SUBSET Threads] /\ pc \in [Threads -> PCs] /\ ProcOf[t] \in Procs
  BY DEF IInv, TypeOK
<1>2. \A p \in Procs \ {ProcOf[t]} : writer'[p] = writer[p] /\ readers'[p] = readers[p]
  BY <1>1
<1>3. CASE LastReader(t)
  BY <1>2, <1>3, NotifyingSleep
<1>4. CASE ~LastReader(t)
  <2>1. t \in readers[ProcOf[t]]
    BY <1>1 DEF IInv, ReaderInv
  <2>2. readers'[ProcOf[t]] # {}
    BY <1>1, <1>4, <2>1 DEF LastReader
  <2>3. pc' = [pc EXCEPT ![t] = "idle"] /\ UNCHANGED <<writer, waiting>>
    BY <1>4
  <2> HIDE DEF SnapLeave
  <2> QED
    BY <1>1, <1>2, <2>2, <2>3 DEF SleepInv, WriterMustWait, ReaderMustWait
<1> QED
  BY <1>3, <1>4

\* Every step leaves the sleepers something to sleep for.
LEMMA NextSleep == IInv /\ SleepInv /\ [Next]_vars => SleepInv'
<1> SUFFICES ASSUME IInv, SleepInv, [Next]_vars PROVE SleepInv'
  OBVIOUS
<1> USE ProcOfAssumption, NoneAssumption
<1>0. /\ pc \in [Threads -> PCs] /\ readers \in [Procs -> SUBSET Threads]
      /\ writer \in [Procs -> Threads \cup {None}]
  BY DEF IInv, TypeOK
<1>1. ASSUME NEW t \in Threads, GateLock(t) \/ GateLockFails(t) \/ GateUnlock(t)
      PROVE  SleepInv'
  BY <1>0, <1>1 DEF GateLock, GateLockFails, GateUnlock, SleepInv, WriterMustWait, ReaderMustWait
<1>2. ASSUME NEW t \in Threads, GateLeave(t) PROVE SleepInv'
  <2>1. \A p \in Procs \ {ProcOf[t]} : writer'[p] = writer[p] /\ readers'[p] = readers[p]
    BY <1>0, <1>2 DEF GateLeave
  <2> QED
    BY <1>2, <2>1, NotifyingSleep DEF GateLeave
<1>3. ASSUME NEW t \in Threads, SnapLock(t) PROVE SleepInv'
  <2>1. /\ pc' = [pc EXCEPT ![t] = "snapHeld"]
        /\ readers' = [readers EXCEPT ![ProcOf[t]] = @ \cup {t}]
        /\ UNCHANGED <<writer, waiting>>
    BY <1>3 DEF SnapLock
  <2> QED
    BY <1>0, <2>1 DEF SleepInv, WriterMustWait, ReaderMustWait
<1>4. ASSUME NEW t \in Threads, SnapLockFails(t) PROVE SleepInv'
  BY <1>0, <1>4 DEF SnapLockFails, SleepInv, WriterMustWait, ReaderMustWait
<1>5. ASSUME NEW t \in Threads, Nest(t) \/ Unnest(t) PROVE SleepInv'
  BY <1>5 DEF Nest, Unnest, SleepInv, WriterMustWait, ReaderMustWait
<1>6. ASSUME NEW p \in Procs, Crash(p) PROVE SleepInv'
  <2>1. ASSUME NEW u \in Threads, pc'[u] # "idle"
        PROVE  ProcOf[u] # p /\ pc'[u] = pc[u]
    BY <1>6, <2>1 DEF Crash
  <2>2. ASSUME NEW q \in Procs, q # p
        PROVE  writer'[q] = writer[q] /\ readers'[q] = readers[q] /\ waiting'[q] = waiting[q]
    BY <1>6, <2>2 DEF Crash, IInv, TypeOK
  <2> QED
    BY <2>1, <2>2 DEF SleepInv, WriterMustWait, ReaderMustWait
<1>7. CASE Finished \/ UNCHANGED vars
  BY <1>7 DEF Finished, vars, SleepInv, WriterMustWait, ReaderMustWait
<1> QED
  BY <1>1, <1>2, <1>3, <1>4, <1>5, <1>6, <1>7,
     GateTrySleep, SnapTrySleep, SnapLeaveSleep DEF Next

\* Every step keeps the depths and the places in step.
LEMMA NextDepth == IInv /\ DepthInv /\ [Next]_vars => DepthInv'
<1> SUFFICES ASSUME IInv, DepthInv, [Next]_vars PROVE DepthInv'
  OBVIOUS
<1> USE ProcOfAssumption
<1>0. /\ pc \in [Threads -> PCs] /\ pc' \in [Threads -> PCs]
      /\ depth \in [Threads -> Nat]
  BY NextIInv DEF IInv, TypeOK
<1>1. ASSUME NEW t \in Threads, \/ GateTry(t) \/ GateLockFails(t) \/ SnapLockFails(t)
      PROVE  DepthInv'
  BY <1>0, <1>1 DEF GateTry, Asks, GateLockFails, SnapLockFails, DepthInv, Inside
<1>2. ASSUME NEW t \in Threads, GateLock(t) \/ GateUnlock(t) PROVE DepthInv'
  BY <1>0, <1>2 DEF GateLock, GateUnlock, DepthInv, Inside
<1>3. ASSUME NEW t \in Threads, SnapTry(t) PROVE DepthInv'
  <2>1. pc[t] \in {"idle", "snapWoken"}
    BY <1>3 DEF SnapTry, Asks
  <2>2. \/ /\ pc' = [pc EXCEPT ![t] = "snapWait"] \/ pc' = [pc EXCEPT ![t] = "snapLocking"]
           /\ UNCHANGED depth
        \/ /\ pc' = [pc EXCEPT ![t] = "snapHeld"]
           /\ depth' = [depth EXCEPT ![t] = 1]
    BY <1>3 DEF SnapTry
  <2> QED
    BY <1>0, <2>1, <2>2 DEF DepthInv, Inside
<1>4. ASSUME NEW t \in Threads, SnapLock(t) PROVE DepthInv'
  BY <1>0, <1>4 DEF SnapLock, DepthInv, Inside
<1>5. ASSUME NEW t \in Threads, GateLeave(t) \/ SnapLeave(t) PROVE DepthInv'
  <2>1. \/ pc[t] = "gateLeaving" /\ UNCHANGED depth
        \/ pc[t] = "snapHeld" /\ depth' = [depth EXCEPT ![t] = 0]
    BY <1>5 DEF GateLeave, SnapLeave
  <2>2. LeaveNotifying(t) \/ pc' = [pc EXCEPT ![t] = "idle"]
    BY <1>5 DEF GateLeave, SnapLeave
  <2>3. /\ pc'[t] = "idle"
        /\ \A u \in Threads \ {t} : pc'[u] \in Inside <=> pc[u] \in Inside
    BY <1>0, <2>2, WokenIsSleeping DEF LeaveNotifying, Inside
  <2> QED
    BY <1>0, <2>1, <2>3 DEF DepthInv, Inside
<1>6. ASSUME NEW t \in Threads, Nest(t) \/ Unnest(t) PROVE DepthInv'
  BY <1>0, <1>6 DEF Nest, Unnest, DepthInv
<1>7. ASSUME NEW p \in Procs, Crash(p) PROVE DepthInv'
  BY <1>0, <1>7 DEF Crash, DepthInv, Inside
<1>8. CASE Finished \/ UNCHANGED vars
  BY <1>8 DEF Finished, vars, DepthInv
<1> QED
  BY <1>1, <1>2, <1>3, <1>4, <1>5, <1>6, <1>7, <1>8 DEF Next

\* If nobody could go on, nobody would be inside, so the file lock would be free,
\* so nobody would be locking, so no mutex would be held, so nobody would be the
\* writer or a reader, and nobody would have anything to sleep for.
LEMMA SomebodyGoesOn == IInv /\ SleepInv /\ DepthInv => NobodyIsStuck
<1> SUFFICES ASSUME IInv, SleepInv, DepthInv,
                    NEW t \in Threads, pc[t] # "idle",
                    \A u \in Threads : ~CanContinue(u)
             PROVE  FALSE
  BY DEF NobodyIsStuck
<1> USE ProcOfAssumption, NoneAssumption
<1>0. /\ pc \in [Threads -> PCs] /\ depth \in [Threads -> Nat]
      /\ flock \in Threads \cup {None}
      /\ readers \in [Procs -> SUBSET Threads] /\ waiting \in [Procs -> SUBSET Threads]
      /\ mutex \in [Procs -> Threads \cup {None}]
      /\ writer \in [Procs -> Threads \cup {None}]
  BY DEF IInv, TypeOK
<1>1. \A u \in Threads : pc[u] # "gateHeld"
  BY <1>0 DEF CanContinue, DepthInv, Inside
<1>2. ASSUME NEW u \in Threads, pc[u] = "snapHeld" PROVE FALSE
  <2>1. depth[u] > 0 /\ depth[u] \in Nat
    BY <1>0, <1>2 DEF DepthInv, Inside
  <2>2. mutex[ProcOf[u]] # None
    BY <1>2, <2>1 DEF CanContinue
  <2>3. pc[mutex[ProcOf[u]]] = "snapLocking" /\ ProcOf[mutex[ProcOf[u]]] = ProcOf[u]
        /\ mutex[ProcOf[u]] \in Threads
    BY <1>0, <2>2 DEF IInv, MutexInv
  <2>4. readers[ProcOf[u]] = {}
    BY <2>3 DEF IInv, MutexInv
  <2> QED
    BY <1>2, <2>4 DEF IInv, ReaderInv
<1>3. \A p \in Procs : readers[p] = {}
  BY <1>0, <1>2 DEF IInv, ReaderInv
<1>4. flock = None
  BY <1>0, <1>1, <1>3 DEF IInv, FileLockInv
<1>5. \A u \in Threads : pc[u] \notin {"gateLocking", "snapLocking"}
  BY <1>4 DEF CanContinue, FileLockFree
<1>6. \A p \in Procs : mutex[p] = None
  BY <1>0, <1>5 DEF IInv, MutexInv
<1>7. \A u \in Threads : pc[u] \notin {"gateWoken", "gateLeaving", "snapWoken"}
  BY <1>6 DEF CanContinue
<1>8. \A p \in Procs : writer[p] = None
  BY <1>0, <1>1, <1>5, <1>7 DEF IInv, WriterInv
<1>9. \A u \in Threads : pc[u] # "gateWait"
  BY <1>3, <1>8 DEF SleepInv, WriterMustWait
<1>10. \A p \in Procs : waiting[p] = {}
  BY <1>0, <1>7, <1>9 DEF IInv, WaitInv
<1>11. \A u \in Threads : pc[u] # "snapWait"
  BY <1>8, <1>10 DEF SleepInv, ReaderMustWait
<1> QED
  BY <1>0, <1>1, <1>2, <1>5, <1>7, <1>9, <1>11 DEF PCs

\* However many threads and processes compete, whatever failed before and
\* whoever died: the condition variable, the mutex that the first reader keeps
\* while it waits for the file lock, and the file lock never wait in a circle,
\* and no notification that somebody needs is left out (policy.py:100-176).
THEOREM NoDeadlock == Spec => []NobodyIsStuck
<1>1. Init => SleepInv /\ DepthInv
  BY DEF Init, SleepInv, DepthInv, Inside
<1>2. IInv /\ (SleepInv /\ DepthInv) /\ [Next]_vars => (SleepInv /\ DepthInv)'
  BY NextSleep, NextDepth
<1> QED
  BY <1>1, <1>2, Invariance, SomebodyGoesOn, PTL DEF Spec
=============================================================================

-------------------------- MODULE PolicyStoreProofs ---------------------------
(***************************************************************************)
(* What PolicyStore guarantees for every set of threads, processes,        *)
(* policies, revisions and rules, and every bound.                         *)
(*                                                                         *)
(* Three facts carry the argument: a complete revision file never changes  *)
(* (HoldsStays), whoever is inside the gate is alone there, and an index   *)
(* takes a new generation with every pointer that moves, so that a client  *)
(* whose generation still fits has seen all of it (SeenInv).               *)
(***************************************************************************)
EXTENDS PolicyStore, TLAPS

\* The gate admits one thread, and it is where it should be.
OwnerInv ==
    /\ \A t \in Threads : t \in owners <=> pc[t] \in Gated
    /\ \A t, u \in owners : t = u

\* The reference a registry is written under, and what is true of it.
ReceiptReady(t) ==
    /\ ActiveDefault # None
    /\ ActiveDefault \in task[t].receipt
    /\ \A ref \in task[t].receipt : Holds(Portable, ref)

\* What a command knows at each place.
TaskInv ==
    \A t \in Threads :
        /\ pc[t] # "idle" => task[t].op \in Operations
        /\ pc[t] \in {"writing", "bootstrapping", "asked", "indexing", "moving", "assigning"} =>
             task[t].ref \in Refs
        /\ pc[t] \in {"asked", "indexing", "moving"} /\ Activates(t) =>
             task[t].class \in Classes
        /\ pc[t] = "writing" =>
             /\ task[t].op \in {"create", "bootstrap"}
             /\ task[t].class \in Classes
             /\ file[task[t].class][task[t].ref.revision] = Torn
             /\ task[t].op = "bootstrap" => task[t].class = Portable
        /\ pc[t] = "bootstrapping" => task[t].op = "bootstrap" /\ task[t].class = Portable
        /\ pc[t] = "indexing" =>
             Activates(t) /\ \E c \in Classes :
                 BelongsTo(c, task[t].ref) /\ index[c].state = "torn"
        /\ pc[t] = "moving" =>
             Activates(t) /\ \E c \in Classes :
                 /\ BelongsTo(c, task[t].ref)
                 /\ index[c].state = "whole"
                 /\ index[c].generation = task[t].generation
        /\ pc[t] = "registering" =>
             project.state = "torn" /\ project.policy = None /\ ReceiptReady(t)
        /\ pc[t] = "assigning" =>
             /\ project.state = "whole"
             /\ BelongsTo(Portable, task[t].ref)
             /\ task[t].ref \in task[t].receipt
             /\ ReceiptReady(t)

\* A client's knowledge of an index is old, or it is all there is to know.
SeenInv ==
    \A t \in Threads :
        pc[t] \in {"asked", "indexing", "moving"} /\ Activates(t) =>
            LET x == index[task[t].class] IN
            /\ task[t].generation <= x.generation
            /\ task[t].generation = x.generation => task[t].seen = x.active

IInv ==
    /\ TypeOK
    /\ OwnerInv
    /\ TaskInv
    /\ SeenInv
    /\ ActivePointersResolve
    /\ ReceiptsKeepTheirRules

Unmoved == UNCHANGED <<file, index, project>>

-----------------------------------------------------------------------------
(* Facts about files and references.                                       *)

\* A rule is not a mark, and not None.
LEMMA RulesAreNotMarks ==
    \A d \in Rules : d # Absent /\ d # Torn /\ d # None
  BY RuleAssumption

\* No reference is None.
LEMMA RefsAreNotNone ==
    /\ None \notin Refs
    /\ None \notin Classes
  BY NoneAssumption DEF Refs

\* A reference belongs to one class at most.
LEMMA OneClass ==
    ASSUME TypeOK, NEW ref \in Refs, NEW c \in Classes, NEW d \in Classes,
           BelongsTo(c, ref), BelongsTo(d, ref)
    PROVE  c = d
  BY RulesAreNotMarks DEF BelongsTo, Holds, Refs

\* The class that an activation inside the gate is about.
LEMMA TargetIs ==
    ASSUME TypeOK, NEW t \in Threads, task[t].ref \in Refs,
           NEW c \in Classes, BelongsTo(c, task[t].ref)
    PROVE  TargetOf(t) = c
<1>1. \A d \in Classes : BelongsTo(d, task[t].ref) => d = c
  BY OneClass
<1> QED
  BY <1>1 DEF TargetOf

\* How a file may change: it is created, or the torn one is completed.
FilesGrow ==
    \A c \in Classes : \A r \in Revisions :
        \/ file'[c][r] = file[c][r]
        \/ file[c][r] = Absent /\ file'[c][r] = Torn
        \/ file[c][r] = Torn /\ file'[c][r] \in Rules

\* What a complete revision says, it says for ever.
LEMMA HoldsStays ==
    ASSUME FilesGrow, NEW c \in Classes, NEW ref \in Refs, Holds(c, ref)
    PROVE  Holds(c, ref)'
<1>1. ref.revision \in Revisions /\ ref.digest \in Rules
  BY DEF Refs
<1> QED
  BY <1>1, RulesAreNotMarks DEF FilesGrow, Holds

\* Active pointers and receipts outlive any growth of the files.
LEMMA PointersOutlive ==
    ASSUME TypeOK, FilesGrow, ActivePointersResolve, UNCHANGED index
    PROVE  ActivePointersResolve'
<1> SUFFICES ASSUME NEW c \in Classes, NEW p \in Policies, index[c].active[p] # None
             PROVE  /\ Holds(c, index[c].active[p])'
                    /\ PolicyOf[index[c].active[p].revision] = p
  BY DEF ActivePointersResolve
<1>1. index[c].active[p] \in Refs
  BY DEF TypeOK, Indices, Pointers
<1> QED
  BY <1>1, HoldsStays DEF ActivePointersResolve, Holds

LEMMA ReceiptsOutlive ==
    ASSUME TypeOK, FilesGrow, ReceiptsKeepTheirRules, UNCHANGED project
    PROVE  ReceiptsKeepTheirRules'
<1>1. project.receipts \subseteq Refs
  BY DEF TypeOK, Projects
<1>2. Portable \in Classes
  BY DEF Classes
<1> QED
  BY <1>1, <1>2, HoldsStays DEF ReceiptsKeepTheirRules

\* Whoever is inside the gate is alone there.
LEMMA AloneInside ==
    ASSUME IInv, NEW t \in Threads, pc[t] \in Gated
    PROVE  owners = {t} /\ \A u \in Threads : pc[u] \in Gated => u = t
  BY DEF IInv, OwnerInv, TypeOK

\* When the gate is free nobody is inside.
LEMMA NobodyInside ==
    ASSUME IInv, Gate!Unlocked
    PROVE  owners = {} /\ \A u \in Threads : pc[u] \notin Gated
  BY DEF IInv, OwnerInv, Gate!Unlocked

-----------------------------------------------------------------------------
(* Every action preserves the invariant.                                   *)

LEMMA InitIInv == Init => IInv
<1> SUFFICES ASSUME Init PROVE IInv
  OBVIOUS
<1> USE DEF Init
<1>1. TypeOK
  <2>1. index \in [Classes -> Indices]
    BY DEF EmptyIndex, NoPointers, Indices, FileStates, Pointers
  <2>2. project \in Projects
    BY DEF Projects, FileStates
  <2> QED
    BY <2>1, <2>2 DEF TypeOK, PCs, Tasks, NoTask, NoPointers, Pointers
<1>2. OwnerInv /\ TaskInv /\ SeenInv
  BY DEF OwnerInv, TaskInv, SeenInv, Gated
<1>3. ActivePointersResolve /\ ReceiptsKeepTheirRules
  BY DEF ActivePointersResolve, ReceiptsKeepTheirRules, EmptyIndex, NoPointers
<1> QED
  BY <1>1, <1>2, <1>3 DEF IInv

\* A command that is done, refused or has failed, and leaves the files alone.
LEMMA FinishIInv ==
    ASSUME IInv, NEW t \in Threads, Finish(t), owners' = owners \ {t}, Unmoved
    PROVE  IInv'
<1> USE DEF IInv, Finish, Goto, Unmoved
<1>1. TypeOK'
  BY DEF TypeOK, PCs, Tasks, NoTask, NoPointers, Pointers
<1>2. OwnerInv'
  BY DEF TypeOK, OwnerInv, Gated
<1>3. TaskInv'
  BY DEF TypeOK, TaskInv, Activates, BelongsTo, Holds, ReceiptReady, ActiveDefault
<1>4. SeenInv'
  BY DEF TypeOK, SeenInv, Activates
<1>5. ActivePointersResolve' /\ ReceiptsKeepTheirRules'
  BY DEF ActivePointersResolve, ReceiptsKeepTheirRules, Holds
<1> QED
  BY <1>1, <1>2, <1>3, <1>4, <1>5 DEF IInv

LEMMA RefuseIInv ==
    ASSUME IInv, NEW t \in Threads, Refuse(t), Unmoved
    PROVE  IInv'
<1>1. owners' = owners \ {t}
  BY NobodyInside DEF Refuse
<1> QED
  BY <1>1, FinishIInv DEF Refuse

\* Creating a revision file.
LEMMA StartRevisionIInv ==
    ASSUME IInv, NEW t \in Threads, NEW op \in {"create", "bootstrap"},
           NEW c \in Classes, NEW ref \in Refs, op = "bootstrap" => c = Portable,
           pc[t] = "idle", StartRevision(t, op, c, ref)
    PROVE  IInv'
<1> USE DEF IInv
<1>1. /\ file[c][ref.revision] = Absent
      /\ file' = [file EXCEPT ![c][ref.revision] = Torn]
      /\ task' = [task EXCEPT ![t] = [NoTask EXCEPT !.op = op, !.class = c, !.ref = ref]]
      /\ pc' = [pc EXCEPT ![t] = "writing"]
      /\ UNCHANGED <<index, project>>
      /\ owners = {} /\ owners' = {t}
  BY DEF StartRevision, MayCreate, EnterGate, Goto, Gate!AcquireExclusive, Gate!Unlocked
<1>2. ref.revision \in Revisions /\ ref.digest \in Rules
  BY DEF Refs
<1>3. \A u \in Threads : pc[u] \notin Gated
  BY <1>1, NobodyInside DEF Gate!Unlocked
<1>4. FilesGrow
  BY <1>1, <1>2 DEF FilesGrow, TypeOK
<1>5. TypeOK'
  <2>1. task' \in [Threads -> Tasks]
    BY <1>1 DEF TypeOK, Tasks, NoTask, Operations, NoPointers, Pointers
  <2>2. file' \in [Classes -> [Revisions -> Rules \cup {Absent, Torn}]]
    BY <1>1, <1>2 DEF TypeOK
  <2> QED
    BY <1>1, <2>1, <2>2 DEF TypeOK, PCs
<1>6. OwnerInv'
  BY <1>1, <1>3 DEF TypeOK, OwnerInv, Gated
<1>7. task'[t].op = op /\ task'[t].class = c /\ task'[t].ref = ref
  BY <1>1 DEF TypeOK, NoTask
<1>8. file'[c][ref.revision] = Torn
  BY <1>1, <1>2 DEF TypeOK
<1>9. TaskInv'
  <2> SUFFICES ASSUME NEW u \in Threads
               PROVE  TaskInv!(u)'
    BY DEF TaskInv
  <2>1. CASE u = t
    BY <1>1, <1>7, <1>8, <2>1 DEF TypeOK, Operations
  <2>2. CASE u # t
    <3>1. pc'[u] = pc[u] /\ task'[u] = task[u] /\ pc[u] \notin Gated
      BY <1>1, <1>3, <2>2 DEF TypeOK
    <3> QED
      BY <3>1 DEF TaskInv, Gated, Activates
  <2> QED
    BY <2>1, <2>2
<1>10. SeenInv'
  BY <1>1 DEF TypeOK, SeenInv, Activates
<1>11. ActivePointersResolve' /\ ReceiptsKeepTheirRules'
  BY <1>1, <1>4, PointersOutlive, ReceiptsOutlive
<1> QED
  BY <1>5, <1>6, <1>9, <1>10, <1>11 DEF IInv

LEMMA CreateRevisionIInv ==
    ASSUME IInv, NEW t \in Threads, CreateRevision(t) PROVE IInv' \/ UNCHANGED vars
<1>1. PICK c \in Classes, ref \in Refs :
         \/ StartRevision(t, "create", c, ref)
         \/ UNCHANGED vars
  BY DEF CreateRevision
<1> QED
  BY <1>1, StartRevisionIInv DEF CreateRevision

\* A thread that is outside the gate goes on outside the gate, and no file moves.
LEMMA OutsideIInv ==
    ASSUME IInv, NEW t \in Threads, NEW label \in PCs, NEW k \in Tasks,
           pc[t] \notin Gated, label \in {"bootstrapping", "asked"},
           pc' = [pc EXCEPT ![t] = label], task' = [task EXCEPT ![t] = k],
           UNCHANGED <<file, index, project, owners>>,
           k.op \in Operations, k.ref \in Refs,
           label = "bootstrapping" => k.op = "bootstrap" /\ k.class = Portable,
           label = "asked" /\ k.op \in {"activate", "bootstrap"} =>
               /\ k.class \in Classes
               /\ k.generation = index[k.class].generation
               /\ k.seen = index[k.class].active
    PROVE  IInv'
<1> USE DEF IInv
<1>1. TypeOK'
  BY DEF TypeOK
<1>2. OwnerInv'
  BY DEF TypeOK, OwnerInv, Gated
<1>3. task'[t] = k /\ pc'[t] = label
  BY DEF TypeOK
<1>4. TaskInv'
  <2> SUFFICES ASSUME NEW u \in Threads
               PROVE  TaskInv!(u)'
    BY DEF TaskInv
  <2>1. CASE u = t
    BY <1>3, <2>1 DEF Activates
  <2>2. CASE u # t
    <3>1. pc'[u] = pc[u] /\ task'[u] = task[u]
      BY <2>2 DEF TypeOK
    <3> QED
      BY <3>1 DEF TaskInv, Activates, BelongsTo, Holds, ReceiptReady, ActiveDefault
  <2> QED
    BY <2>1, <2>2
<1>5. SeenInv'
  <2> SUFFICES ASSUME NEW u \in Threads,
                      pc'[u] \in {"asked", "indexing", "moving"}, Activates(u)'
               PROVE  /\ task'[u].generation <= index[task'[u].class].generation
                      /\ task'[u].generation = index[task'[u].class].generation =>
                           task'[u].seen = index[task'[u].class].active
    BY DEF SeenInv
  <2>1. CASE u = t
    <3>1. index[k.class].generation \in Nat
      BY <1>3, <2>1 DEF TypeOK, Indices, Activates
    <3> QED
      BY <1>3, <2>1, <3>1 DEF Activates
  <2>2. CASE u # t
    <3>1. pc'[u] = pc[u] /\ task'[u] = task[u]
      BY <2>2 DEF TypeOK
    <3> QED
      BY <3>1 DEF SeenInv, Activates
  <2> QED
    BY <2>1, <2>2
<1>6. ActivePointersResolve' /\ ReceiptsKeepTheirRules'
  BY DEF ActivePointersResolve, ReceiptsKeepTheirRules, Holds
<1> QED
  BY <1>1, <1>2, <1>4, <1>5, <1>6 DEF IInv

LEMMA BootstrapDefaultIInv ==
    ASSUME IInv, NEW t \in Threads, BootstrapDefault(t) PROVE IInv'
<1> USE DEF IInv
<1>1. DefaultRef \in Refs /\ Portable \in Classes
  BY PolicyAssumption, RuleAssumption DEF DefaultRef, Refs, Classes
<1>2. CASE StartRevision(t, "bootstrap", Portable, DefaultRef)
  BY <1>1, <1>2, StartRevisionIInv DEF BootstrapDefault
<1>3. CASE ~StartRevision(t, "bootstrap", Portable, DefaultRef)
  <2> DEFINE k == [NoTask EXCEPT !.op = "bootstrap", !.class = Portable, !.ref = DefaultRef]
  <2>1. k \in Tasks /\ k.op = "bootstrap" /\ k.class = Portable /\ k.ref = DefaultRef
    BY <1>1 DEF Tasks, NoTask, Operations, NoPointers, Pointers
  <2>2. /\ pc[t] = "idle" /\ pc' = [pc EXCEPT ![t] = "bootstrapping"]
        /\ task' = [task EXCEPT ![t] = k]
        /\ UNCHANGED <<file, index, project, owners>>
    BY <1>3 DEF BootstrapDefault, Goto
  <2> HIDE DEF k
  <2> QED
    BY <1>1, <2>1, <2>2, OutsideIInv DEF Operations, PCs, Gated
<1> QED
  BY <1>2, <1>3

LEMMA BootstrapLookIInv ==
    ASSUME IInv, NEW t \in Threads, BootstrapLook(t) PROVE IInv'
<1> USE DEF IInv
<1>0. pc[t] = "bootstrapping" /\ t \notin owners /\ UNCHANGED <<file, index, project, owners>>
  BY DEF BootstrapLook, OwnerInv, Gated
<1>1. CASE Finish(t)
  BY <1>0, <1>1, FinishIInv DEF Unmoved, TypeOK
<1>2. CASE ~Finish(t)
  <2> DEFINE k == [task[t] EXCEPT !.generation = index[Portable].generation,
                                  !.seen = index[Portable].active]
  <2>1. task' = [task EXCEPT ![t] = k] /\ pc' = [pc EXCEPT ![t] = "asked"]
    BY <1>2 DEF BootstrapLook, Goto, TypeOK
  <2>2. Portable \in Classes /\ index[Portable] \in Indices
    BY DEF Classes, TypeOK
  <2>3. k \in Tasks
    BY <2>2 DEF Tasks, TypeOK, Indices
  <2>4. k.op = "bootstrap" /\ k.class = Portable /\ k.ref \in Refs
          /\ k.generation = index[Portable].generation
          /\ k.seen = index[Portable].active
    <3>1. task[t] \in Tasks /\ task[t].op = "bootstrap" /\ task[t].class = Portable
            /\ task[t].ref \in Refs
      BY <1>0 DEF TypeOK, TaskInv
    <3> QED
      BY <3>1 DEF Tasks
  <2> HIDE DEF k
  <2> QED
    BY <1>0, <2>1, <2>2, <2>3, <2>4, OutsideIInv DEF Operations, PCs, Gated
<1> QED
  BY <1>1, <1>2

LEMMA AskActivateIInv ==
    ASSUME IInv, NEW t \in Threads, AskActivate(t) PROVE IInv'
<1> USE DEF IInv
<1>1. PICK c \in Classes, ref \in Known :
         task' = [task EXCEPT ![t] =
                    [NoTask EXCEPT !.op = "activate", !.class = c, !.ref = ref,
                                   !.generation = index[c].generation,
                                   !.seen = index[c].active]]
  BY DEF AskActivate
<1> DEFINE k == [NoTask EXCEPT !.op = "activate", !.class = c, !.ref = ref,
                               !.generation = index[c].generation,
                               !.seen = index[c].active]
<1>2. ref \in Refs /\ index[c] \in Indices
  BY DEF Known, TypeOK
<1>3. k \in Tasks
  BY <1>2 DEF Tasks, NoTask, Operations, Indices, NoPointers
<1>4. k.op = "activate" /\ k.class = c /\ k.ref = ref
        /\ k.generation = index[c].generation /\ k.seen = index[c].active
  BY DEF NoTask
<1>5. task' = [task EXCEPT ![t] = k] /\ pc' = [pc EXCEPT ![t] = "asked"] /\ pc[t] = "idle"
        /\ UNCHANGED <<file, index, project, owners>>
  BY <1>1 DEF AskActivate, Goto
<1> HIDE DEF k
<1> QED
  BY <1>2, <1>3, <1>4, <1>5, OutsideIInv DEF Operations, PCs, Gated

LEMMA AskAssignIInv ==
    ASSUME IInv, NEW t \in Threads, AskAssign(t) PROVE IInv'
<1> USE DEF IInv
<1>1. PICK ref \in Known :
         task' = [task EXCEPT ![t] = [NoTask EXCEPT !.op = "assign", !.ref = ref,
                                        !.generation = project.generation]]
  BY DEF AskAssign
<1> DEFINE k == [NoTask EXCEPT !.op = "assign", !.ref = ref,
                               !.generation = project.generation]
<1>2. ref \in Refs
  BY DEF Known
<1>3. k \in Tasks
  BY <1>2 DEF Tasks, NoTask, Operations, Projects, NoPointers, Pointers, TypeOK
<1>4. k.op = "assign" /\ k.ref = ref
  BY DEF NoTask
<1>5. task' = [task EXCEPT ![t] = k] /\ pc' = [pc EXCEPT ![t] = "asked"] /\ pc[t] = "idle"
        /\ UNCHANGED <<file, index, project, owners>>
  BY <1>1 DEF AskAssign, Goto
<1> HIDE DEF k
<1> QED
  BY <1>2, <1>3, <1>4, <1>5, OutsideIInv DEF Operations, PCs, Gated

\* Completing a revision file.
LEMMA WriteRevisionIInv ==
    ASSUME IInv, NEW t \in Threads, WriteRevision(t) PROVE IInv'
<1> USE DEF IInv
<1> DEFINE c == task[t].class
           ref == task[t].ref
<1>1. /\ pc[t] = "writing" /\ c \in Classes /\ ref \in Refs
      /\ file[c][ref.revision] = Torn
      /\ task[t].op \in {"create", "bootstrap"}
      /\ task[t].op = "bootstrap" => c = Portable
  BY DEF WriteRevision, TaskInv
<1>2. ref.revision \in Revisions /\ ref.digest \in Rules
  BY <1>1 DEF Refs
<1>3. file' = [file EXCEPT ![c][ref.revision] = ref.digest]
        /\ UNCHANGED <<index, project>> /\ owners' = owners \ {t}
  BY DEF WriteRevision, Leave, Gate!ReleaseExclusive
<1>4. \A u \in Threads : pc[u] \in Gated => u = t
  BY <1>1, AloneInside DEF Gated
<1>5. FilesGrow
  BY <1>1, <1>2, <1>3 DEF FilesGrow, TypeOK
<1>6. \/ pc' = [pc EXCEPT ![t] = "idle"] /\ task' = [task EXCEPT ![t] = NoTask]
      \/ /\ pc' = [pc EXCEPT ![t] = "bootstrapping"] /\ UNCHANGED task
         /\ task[t].op = "bootstrap"
  BY DEF WriteRevision, Leave, Finish, Goto
<1>7. TypeOK'
  <2>1. NoTask \in Tasks
    BY DEF Tasks, NoTask, NoPointers, Pointers
  <2>2. file' \in [Classes -> [Revisions -> Rules \cup {Absent, Torn}]]
    BY <1>2, <1>3 DEF TypeOK
  <2> QED
    BY <1>3, <1>6, <2>1, <2>2 DEF TypeOK, PCs
<1>8. OwnerInv'
  BY <1>3, <1>4, <1>6 DEF TypeOK, OwnerInv, Gated
<1>9. TaskInv'
  <2> SUFFICES ASSUME NEW u \in Threads
               PROVE  TaskInv!(u)'
    BY DEF TaskInv
  <2>1. CASE u = t
    BY <1>1, <1>6, <2>1 DEF TypeOK, Operations
  <2>2. CASE u # t
    <3>1. pc'[u] = pc[u] /\ task'[u] = task[u] /\ pc[u] \notin Gated
      BY <1>4, <1>6, <2>2 DEF TypeOK
    <3> QED
      BY <3>1 DEF TaskInv, Gated, Activates
  <2> QED
    BY <2>1, <2>2
<1>10. SeenInv'
  <2> SUFFICES ASSUME NEW u \in Threads,
                      pc'[u] \in {"asked", "indexing", "moving"}, Activates(u)'
               PROVE  /\ task'[u].generation <= index[task'[u].class].generation
                      /\ task'[u].generation = index[task'[u].class].generation =>
                           task'[u].seen = index[task'[u].class].active
    BY <1>3 DEF SeenInv
  <2>1. pc'[u] = pc[u] /\ task'[u] = task[u]
    BY <1>6 DEF TypeOK
  <2> QED
    BY <2>1 DEF SeenInv, Activates
<1>11. ActivePointersResolve' /\ ReceiptsKeepTheirRules'
  BY <1>3, <1>5, PointersOutlive, ReceiptsOutlive
<1> QED
  BY <1>7, <1>8, <1>9, <1>10, <1>11 DEF IInv

\* Entering the gate for an activation.
LEMMA ActivateIInv ==
    ASSUME IInv, NEW t \in Threads, Activate(t) PROVE IInv'
<1> USE DEF IInv
<1>1. CASE Refuse(t) /\ UNCHANGED index
  BY <1>1, RefuseIInv DEF Activate, Unmoved
<1>2. CASE EnterGate(t) /\ (\E c \in Classes : ActivateIn(t, c)) /\ UNCHANGED task
  <2>1. owners = {} /\ owners' = {t} /\ \A u \in Threads : pc[u] \notin Gated
    BY <1>2, NobodyInside DEF EnterGate, Gate!AcquireExclusive, Gate!Unlocked
  <2>2. PICK c \in Classes : ActivateIn(t, c)
    BY <1>2
  <2>3. pc[t] = "asked" /\ Activates(t) /\ UNCHANGED <<file, project, task>>
    BY <1>2 DEF Activate
  <2>4. BelongsTo(c, task[t].ref) /\ task[t].ref \in Refs /\ task[t].class \in Classes
    BY <2>2, <2>3 DEF ActivateIn, TaskInv
  <2>5. \/ /\ index[c].state = "absent" /\ index' = [index EXCEPT ![c].state = "torn"]
           /\ pc' = [pc EXCEPT ![t] = "indexing"]
        \/ /\ index[c].state = "whole" /\ index[c].generation = task[t].generation
           /\ pc' = [pc EXCEPT ![t] = "moving"] /\ UNCHANGED index
    BY <2>2 DEF ActivateIn, MayMove, Goto
  <2>6. \A d \in Classes : /\ index'[d].generation = index[d].generation
                           /\ index'[d].active = index[d].active
                           /\ index'[d] \in Indices
    <3>1. \A d \in Classes : index[d] \in Indices
      BY DEF TypeOK
    <3>2. index' = index \/ (index[c].state = "absent"
                             /\ index' = [index EXCEPT ![c] = [index[c] EXCEPT !.state = "torn"]])
      BY <2>5 DEF TypeOK
    <3>3. index[c].state = "absent" => [index[c] EXCEPT !.state = "torn"] \in Indices
      BY <3>1 DEF Indices, FileStates
    <3>4. [index[c] EXCEPT !.state = "torn"].generation = index[c].generation
            /\ [index[c] EXCEPT !.state = "torn"].active = index[c].active
      BY <3>1 DEF Indices
    <3> QED
      BY <3>1, <3>2, <3>3, <3>4 DEF TypeOK
  <2>7. TypeOK'
    <3>1. index' \in [Classes -> Indices]
      BY <2>5, <2>6 DEF TypeOK
    <3> QED
      BY <2>1, <2>3, <2>5, <3>1 DEF TypeOK, PCs
  <2>8. OwnerInv'
    BY <2>1, <2>5 DEF TypeOK, OwnerInv, Gated
  <2>9. TaskInv'
    <3> SUFFICES ASSUME NEW u \in Threads
                 PROVE  TaskInv!(u)'
      BY DEF TaskInv
    <3>1. CASE u = t
      <4>1. task'[t] = task[t] /\ BelongsTo(c, task[t].ref)' /\ Activates(t)'
              /\ task[t].op \in Operations
        BY <2>3, <2>4 DEF BelongsTo, Holds, Activates, TaskInv
      <4>2. pc'[t] = "indexing" => index'[c].state = "torn"
        BY <2>5 DEF TypeOK, Indices
      <4>3. pc'[t] = "moving" => index'[c].state = "whole"
                /\ index'[c].generation = task[t].generation
        BY <2>5 DEF TypeOK, Indices
      <4>4. pc'[t] \in {"indexing", "moving"}
        BY <2>5 DEF TypeOK
      <4> QED
        BY <2>4, <3>1, <4>1, <4>2, <4>3, <4>4
    <3>2. CASE u # t
      <4>1. pc'[u] = pc[u] /\ task'[u] = task[u] /\ pc[u] \notin Gated
        BY <2>1, <2>3, <2>5, <3>2 DEF TypeOK
      <4> QED
        BY <4>1 DEF TaskInv, Gated, Activates
    <3> QED
      BY <3>1, <3>2
  <2>10. SeenInv'
    <3> SUFFICES ASSUME NEW u \in Threads,
                        pc'[u] \in {"asked", "indexing", "moving"}, Activates(u)'
                 PROVE  LET x == index'[task'[u].class] IN
                        /\ task'[u].generation <= x.generation
                        /\ task'[u].generation = x.generation => task'[u].seen = x.active
      BY DEF SeenInv
    <3>1. pc[u] \in {"asked", "indexing", "moving"} /\ Activates(u) /\ task'[u] = task[u]
      BY <2>3, <2>5 DEF TypeOK, Activates
    <3>2. task[u].class \in Classes
      BY <3>1 DEF TaskInv
    <3> QED
      BY <2>6, <3>1, <3>2 DEF SeenInv
  <2>11. ActivePointersResolve' /\ ReceiptsKeepTheirRules'
    BY <2>3, <2>6 DEF ActivePointersResolve, ReceiptsKeepTheirRules, Holds
  <2> QED
    BY <2>7, <2>8, <2>9, <2>10, <2>11 DEF IInv
<1> QED
  BY <1>1, <1>2 DEF Activate

\* What a step of the thread inside the gate leaves true of the others' tasks
\* when it only changes an index, for the better.
IndexGrows ==
    \A d \in Classes :
        \/ index'[d] = index[d]
        \/ index'[d].generation = index[d].generation /\ index'[d].active = index[d].active
        \/ index'[d].generation > index[d].generation

LEMMA SeenOutlives ==
    ASSUME TypeOK, TypeOK', TaskInv, SeenInv, IndexGrows,
           \A u \in Threads : \/ pc'[u] = pc[u] /\ task'[u] = task[u]
                              \/ pc'[u] = "idle"
                              \/ pc'[u] \in {"moving", "registering", "assigning"}
                                   /\ pc[u] = "indexing" /\ task'[u] = task[u]
    PROVE  SeenInv'
<1> SUFFICES ASSUME NEW u \in Threads,
                    pc'[u] \in {"asked", "indexing", "moving"}, Activates(u)'
             PROVE  LET x == index'[task'[u].class] IN
                    /\ task'[u].generation <= x.generation
                    /\ task'[u].generation = x.generation => task'[u].seen = x.active
  BY DEF SeenInv
<1>1. pc[u] \in {"asked", "indexing", "moving"} /\ Activates(u) /\ task'[u] = task[u]
  BY DEF Activates
<1>2. task[u].class \in Classes /\ task[u].generation \in Nat
  BY <1>1 DEF TaskInv, TypeOK, Tasks
<1> DEFINE x == index[task[u].class]
           y == index'[task[u].class]
<1>3. x.generation \in Nat
  BY <1>2 DEF TypeOK, Indices
<1>4. task[u].generation <= x.generation
        /\ (task[u].generation = x.generation => task[u].seen = x.active)
  BY <1>1 DEF SeenInv
<1>5. \/ y = x
      \/ y.generation = x.generation /\ y.active = x.active
      \/ y.generation > x.generation
  BY <1>2 DEF IndexGrows
<1>6. CASE y.generation > x.generation
  <2>1. y.generation \in Nat
    BY <1>2 DEF TypeOK, Indices
  <2>2. task[u].generation <= y.generation /\ task[u].generation # y.generation
    BY <1>2, <1>3, <1>4, <1>6, <2>1
  <2> QED
    BY <1>1, <2>2
<1>7. CASE ~(y.generation > x.generation)
  BY <1>1, <1>4, <1>5, <1>7
<1> QED
  BY <1>6, <1>7

LEMMA WriteIndexIInv ==
    ASSUME IInv, NEW t \in Threads, WriteIndex(t) PROVE IInv'
<1> USE DEF IInv
<1>1. pc[t] = "indexing" /\ task[t].ref \in Refs /\ Activates(t) /\ task[t].class \in Classes
  BY DEF WriteIndex, TaskInv
<1>2. PICK c \in Classes : BelongsTo(c, task[t].ref) /\ index[c].state = "torn"
  BY <1>1 DEF TaskInv
<1>3. TargetOf(t) = c
  BY <1>1, <1>2, TargetIs
<1>4. index' = [index EXCEPT ![c] = EmptyIndex] /\ UNCHANGED <<file, project>>
  BY <1>3 DEF WriteIndex
<1>5. index[c].generation = 0 /\ index[c].active = NoPointers
  <2>1. index[c] \in Indices
    BY DEF TypeOK
  <2>2. index[c].generation = 0 /\ index[c].active \in Pointers
          /\ \A p \in Policies : index[c].active[p] = None
    BY <1>2, <2>1 DEF Indices
  <2> QED
    BY <2>2 DEF NoPointers, Pointers
<1>6. index'[c] = EmptyIndex /\ \A d \in Classes \ {c} : index'[d] = index[d]
  BY <1>4 DEF TypeOK
<1>7. IndexGrows
  BY <1>5, <1>6 DEF IndexGrows, EmptyIndex
<1>8. \/ /\ task[t].generation = 0 /\ pc' = [pc EXCEPT ![t] = "moving"]
         /\ UNCHANGED <<owners, task>>
      \/ pc' = [pc EXCEPT ![t] = "idle"] /\ task' = [task EXCEPT ![t] = NoTask]
           /\ owners' = owners \ {t}
  BY DEF WriteIndex, Goto, Leave, Finish, Gate!ReleaseExclusive
<1>9. \A u \in Threads : pc[u] \in Gated => u = t
  BY <1>1, AloneInside DEF Gated
<1>10. TypeOK'
  <2>1. NoTask \in Tasks
    BY DEF Tasks, NoTask, NoPointers, Pointers
  <2>2. EmptyIndex \in Indices
    BY DEF EmptyIndex, NoPointers, Indices, FileStates, Pointers
  <2> QED
    BY <1>4, <1>8, <2>1, <2>2 DEF TypeOK, PCs
<1>11. OwnerInv'
  BY <1>1, <1>8, <1>9 DEF TypeOK, OwnerInv, Gated
<1>12. TaskInv'
  <2> SUFFICES ASSUME NEW u \in Threads
               PROVE  TaskInv!(u)'
    BY DEF TaskInv
  <2>1. CASE u = t
    <3>1. CASE pc'[t] = "idle"
      BY <2>1, <3>1
    <3>2. CASE pc'[t] # "idle"
      <4>1. pc'[t] = "moving" /\ task'[t] = task[t] /\ task[t].generation = 0
        BY <1>8, <3>2 DEF TypeOK
      <4>2. BelongsTo(c, task[t].ref)' /\ Activates(t)' /\ task[t].op \in Operations
        BY <1>1, <1>2, <1>4, <4>1 DEF BelongsTo, Holds, Activates, TaskInv
      <4>3. index'[c].state = "whole" /\ index'[c].generation = 0
        BY <1>6 DEF EmptyIndex
      <4> QED
        BY <1>1, <2>1, <4>1, <4>2, <4>3
    <3> QED
      BY <3>1, <3>2
  <2>2. CASE u # t
    <3>1. pc'[u] = pc[u] /\ task'[u] = task[u] /\ pc[u] \notin Gated
      BY <1>8, <1>9, <2>2 DEF TypeOK
    <3> QED
      BY <3>1 DEF TaskInv, Gated, Activates
  <2> QED
    BY <2>1, <2>2
<1>13. SeenInv'
  <2>1. \A u \in Threads : \/ pc'[u] = pc[u] /\ task'[u] = task[u]
                           \/ pc'[u] = "idle"
                           \/ pc'[u] = "moving" /\ pc[u] = "indexing" /\ task'[u] = task[u]
    BY <1>1, <1>8 DEF TypeOK
  <2> QED
    BY <1>7, <1>10, <2>1, SeenOutlives
<1>14. ActivePointersResolve' /\ ReceiptsKeepTheirRules'
  <2>1. \A d \in Classes : index'[d].active = index[d].active
    BY <1>5, <1>6 DEF EmptyIndex
  <2> QED
    BY <1>4, <2>1 DEF ActivePointersResolve, ReceiptsKeepTheirRules, Holds
<1> QED
  BY <1>10, <1>11, <1>12, <1>13, <1>14 DEF IInv

\* What the replacement of an index does: one pointer moves.
LEMMA MoveFacts ==
    ASSUME IInv, NEW t \in Threads, MovePointer(t)
    PROVE  \E c \in Classes :
             /\ BelongsTo(c, task[t].ref) /\ task[t].ref \in Refs
             /\ index[c].state = "whole"
             /\ index[c].generation = task[t].generation
             /\ index' = [index EXCEPT ![c] = Moved(index[c], task[t].generation, task[t].ref)]
             /\ PolicyOf[task[t].ref.revision] \in Policies
             /\ index'[c].state = "whole"
             /\ index'[c].generation = index[c].generation + 1
             /\ index'[c].active =
                  [index[c].active EXCEPT ![PolicyOf[task[t].ref.revision]] = task[t].ref]
             /\ \A d \in Classes \ {c} : index'[d] = index[d]
             /\ index'[c] \in Indices
<1> USE DEF IInv
<1>1. pc[t] = "moving" /\ task[t].ref \in Refs
  BY DEF MovePointer, TaskInv
<1>2. PICK c \in Classes : /\ BelongsTo(c, task[t].ref)
                           /\ index[c].state = "whole"
                           /\ index[c].generation = task[t].generation
  BY <1>1 DEF TaskInv
<1>3. TargetOf(t) = c
  BY <1>1, <1>2, TargetIs
<1>4. index' = [index EXCEPT ![c] = Moved(index[c], task[t].generation, task[t].ref)]
  BY <1>3 DEF MovePointer
<1>5. PolicyOf[task[t].ref.revision] \in Policies
  BY <1>1, PolicyAssumption DEF Refs
<1>6. index[c] \in Indices /\ index[c].active \in Pointers /\ index[c].generation \in Nat
  BY DEF TypeOK, Indices
<1> DEFINE x == index[c]
           y == Moved(x, task[t].generation, task[t].ref)
           a == [x.active EXCEPT ![PolicyOf[task[t].ref.revision]] = task[t].ref]
<1>7. y = [state |-> "whole", generation |-> x.generation + 1, active |-> a]
  <2>1. x = [state |-> "whole", generation |-> task[t].generation, active |-> x.active]
    BY <1>2, <1>6 DEF Indices
  <2>2. y = [x EXCEPT !.generation = task[t].generation + 1, !.active = a]
    BY <2>1 DEF Moved
  <2> HIDE DEF y, a
  <2> QED
    BY <1>2, <2>1, <2>2
<1>8. a \in Pointers
  BY <1>1, <1>5, <1>6 DEF Pointers
<1>9. x.generation + 1 \in Nat /\ x.generation + 1 # 0
  BY <1>6
<1>10. y \in Indices
  BY <1>7, <1>8, <1>9 DEF Indices, FileStates
<1>11. index'[c] = y /\ \A d \in Classes \ {c} : index'[d] = index[d]
  BY <1>4 DEF TypeOK
<1>12. index'[c] = [state |-> "whole", generation |-> x.generation + 1, active |-> a]
  BY <1>7, <1>11
<1>13. index'[c].state = "whole" /\ index'[c].generation = x.generation + 1
         /\ index'[c].active = a
  BY <1>12
<1>14. index'[c] \in Indices
  BY <1>10, <1>11
<1> HIDE DEF y
<1> QED
  BY <1>1, <1>2, <1>4, <1>5, <1>11, <1>13, <1>14

LEMMA MovePointerIInv ==
    ASSUME IInv, NEW t \in Threads, MovePointer(t) PROVE IInv'
<1> USE DEF IInv
<1>1. PICK c \in Classes :
             /\ BelongsTo(c, task[t].ref) /\ task[t].ref \in Refs
             /\ index' = [index EXCEPT ![c] = Moved(index[c], task[t].generation, task[t].ref)]
             /\ PolicyOf[task[t].ref.revision] \in Policies
             /\ index'[c].generation = index[c].generation + 1
             /\ index'[c].active =
                  [index[c].active EXCEPT ![PolicyOf[task[t].ref.revision]] = task[t].ref]
             /\ \A d \in Classes \ {c} : index'[d] = index[d]
             /\ index'[c] \in Indices
  BY MoveFacts
<1>2. /\ pc[t] = "moving" /\ UNCHANGED <<file, project>>
      /\ pc' = [pc EXCEPT ![t] = "idle"] /\ task' = [task EXCEPT ![t] = NoTask]
      /\ owners' = owners \ {t}
  BY DEF MovePointer, Leave, Finish, Goto, Gate!ReleaseExclusive
<1>3. \A u \in Threads : pc[u] \in Gated => u = t
  BY <1>2, AloneInside DEF Gated
<1>4. TypeOK'
  <2>1. NoTask \in Tasks
    BY DEF Tasks, NoTask, NoPointers, Pointers
  <2>2. index' \in [Classes -> Indices]
    BY <1>1 DEF TypeOK
  <2> QED
    BY <1>2, <2>1, <2>2 DEF TypeOK, PCs
<1>5. OwnerInv'
  BY <1>2, <1>3 DEF TypeOK, OwnerInv, Gated
<1>6. TaskInv'
  <2> SUFFICES ASSUME NEW u \in Threads
               PROVE  TaskInv!(u)'
    BY DEF TaskInv
  <2>1. CASE u = t
    BY <1>2, <2>1 DEF TypeOK
  <2>2. CASE u # t
    <3>1. pc'[u] = pc[u] /\ task'[u] = task[u] /\ pc[u] \notin Gated
      BY <1>2, <1>3, <2>2 DEF TypeOK
    <3> QED
      BY <3>1 DEF TaskInv, Gated, Activates
  <2> QED
    BY <2>1, <2>2
<1>7. SeenInv'
  <2>1. index[c].generation \in Nat
    BY DEF TypeOK, Indices
  <2>2. IndexGrows
    BY <1>1, <2>1 DEF IndexGrows
  <2>3. \A u \in Threads : (pc'[u] = pc[u] /\ task'[u] = task[u]) \/ pc'[u] = "idle"
    BY <1>2 DEF TypeOK
  <2> QED
    BY <1>4, <2>2, <2>3, SeenOutlives
<1>8. ActivePointersResolve'
  <2> SUFFICES ASSUME NEW d \in Classes, NEW p \in Policies, index'[d].active[p] # None
               PROVE  /\ Holds(d, index'[d].active[p])
                      /\ PolicyOf[index'[d].active[p].revision] = p
    BY <1>2 DEF ActivePointersResolve, Holds
  <2>1. CASE d = c /\ p = PolicyOf[task[t].ref.revision]
    <3>1. index[c].active \in Pointers
      BY DEF TypeOK, Indices
    <3>2. index'[c].active[p] = task[t].ref
      BY <1>1, <2>1, <3>1 DEF Pointers
    <3> QED
      BY <1>1, <2>1, <3>2 DEF BelongsTo
  <2>2. CASE ~(d = c /\ p = PolicyOf[task[t].ref.revision])
    <3>1. index[c].active \in Pointers
      BY DEF TypeOK, Indices
    <3>2. index'[d].active[p] = index[d].active[p]
      BY <1>1, <2>2, <3>1 DEF Pointers
    <3> QED
      BY <3>2 DEF ActivePointersResolve
  <2> QED
    BY <2>1, <2>2
<1>9. ReceiptsKeepTheirRules'
  BY <1>2 DEF ReceiptsKeepTheirRules, Holds
<1> QED
  BY <1>4, <1>5, <1>6, <1>7, <1>8, <1>9 DEF IInv

\* The active default, where it is read for a registry document.
LEMMA ActiveDefaultHolds ==
    ASSUME IInv, DefaultLoads
    PROVE  ActiveDefault # None /\ ActiveDefault \in Refs /\ Holds(Portable, ActiveDefault)
<1>1. Portable \in Classes /\ DefaultPolicy \in Policies
  BY PolicyAssumption DEF Classes
<1>2. ActiveDefault \in Refs \cup {None}
  BY <1>1 DEF IInv, TypeOK, Indices, Pointers, ActiveDefault
<1> QED
  BY <1>2 DEF DefaultLoads, ActiveDefault

\* The gate is entered for a registry: files and indices stay, and the project
\* is torn or stays.
LEMMA EnterForProjectIInv ==
    ASSUME IInv, NEW t \in Threads, NEW k \in Tasks, pc[t] \notin Gated, EnterGate(t),
           task' = [task EXCEPT ![t] = k], UNCHANGED <<file, index>>,
           ActiveDefault # None, ActiveDefault \in k.receipt,
           \A ref \in k.receipt : Holds(Portable, ref),
           \/ /\ pc' = [pc EXCEPT ![t] = "registering"] /\ k.op = "register"
              /\ project.state = "absent"
              /\ project' = [project EXCEPT !.state = "torn"]
           \/ /\ pc' = [pc EXCEPT ![t] = "assigning"] /\ k.op = "assign"
              /\ k.ref \in Refs /\ k.ref \in k.receipt /\ BelongsTo(Portable, k.ref)
              /\ project.state = "whole"
              /\ UNCHANGED project
    PROVE  IInv'
<1> USE DEF IInv
<1>1. owners = {} /\ owners' = {t} /\ \A u \in Threads : pc[u] \notin Gated
  BY NobodyInside DEF EnterGate, Gate!AcquireExclusive, Gate!Unlocked
<1>2. task'[t] = k /\ project \in Projects
  BY DEF TypeOK
<1>3. project' \in Projects /\ project'.receipts = project.receipts
        /\ (project.state = "absent" => project'.state = "torn" /\ project'.policy = None)
  BY <1>2, RefsAreNotNone DEF Projects, FileStates
<1>4. TypeOK'
  BY <1>1, <1>3 DEF TypeOK, PCs
<1>5. OwnerInv'
  BY <1>1 DEF TypeOK, OwnerInv, Gated
<1>6. ReceiptReady(t)'
  BY <1>2 DEF ReceiptReady, ActiveDefault, Holds
<1>7. TaskInv'
  <2> SUFFICES ASSUME NEW u \in Threads
               PROVE  TaskInv!(u)'
    BY DEF TaskInv
  <2>1. CASE u = t
    <3>1. pc'[t] = "registering" \/ pc'[t] = "assigning"
      BY DEF TypeOK
    <3>2. CASE pc'[t] = "registering"
      BY <1>2, <1>3, <1>6, <2>1, <3>2 DEF TypeOK, Operations
    <3>3. CASE pc'[t] = "assigning"
      BY <1>2, <1>6, <2>1, <3>3 DEF TypeOK, Operations, BelongsTo, Holds
    <3> QED
      BY <3>1, <3>2, <3>3
  <2>2. CASE u # t
    <3>1. pc'[u] = pc[u] /\ task'[u] = task[u] /\ pc[u] \notin Gated
      BY <1>1, <2>2 DEF TypeOK
    <3> QED
      BY <3>1 DEF TaskInv, Gated, Activates
  <2> QED
    BY <2>1, <2>2
<1>8. SeenInv'
  <2> SUFFICES ASSUME NEW u \in Threads,
                      pc'[u] \in {"asked", "indexing", "moving"}, Activates(u)'
               PROVE  /\ task'[u].generation <= index[task'[u].class].generation
                      /\ task'[u].generation = index[task'[u].class].generation =>
                           task'[u].seen = index[task'[u].class].active
    BY DEF SeenInv
  <2>1. pc'[u] = pc[u] /\ task'[u] = task[u]
    BY DEF TypeOK
  <2> QED
    BY <2>1 DEF SeenInv, Activates
<1>9. ActivePointersResolve' /\ ReceiptsKeepTheirRules'
  BY <1>3 DEF ActivePointersResolve, ReceiptsKeepTheirRules, Holds
<1> QED
  BY <1>4, <1>5, <1>7, <1>8, <1>9 DEF IInv

LEMMA RegisterIInv ==
    ASSUME IInv, NEW t \in Threads, Register(t) PROVE IInv'
<1> DEFINE k == [NoTask EXCEPT !.op = "register", !.receipt = {ActiveDefault}]
<1>1. ActiveDefault # None /\ ActiveDefault \in Refs /\ Holds(Portable, ActiveDefault)
  BY ActiveDefaultHolds DEF Register
<1>2. k \in Tasks /\ k.op = "register" /\ k.receipt = {ActiveDefault}
  BY <1>1 DEF Tasks, NoTask, Operations, NoPointers, Pointers
<1>3. /\ pc[t] = "idle" /\ EnterGate(t) /\ task' = [task EXCEPT ![t] = k]
      /\ UNCHANGED <<file, index>> /\ pc' = [pc EXCEPT ![t] = "registering"]
      /\ project.state = "absent" /\ project' = [project EXCEPT !.state = "torn"]
  BY DEF Register, Goto
<1> HIDE DEF k
<1> QED
  BY <1>1, <1>2, <1>3, EnterForProjectIInv DEF Gated

LEMMA AssignPolicyIInv ==
    ASSUME IInv, NEW t \in Threads, AssignPolicy(t) PROVE IInv'
<1>1. CASE Refuse(t)
  BY <1>1, RefuseIInv DEF AssignPolicy, Unmoved
<1>2. CASE ~Refuse(t)
  <2> DEFINE k == [task[t] EXCEPT !.receipt = {ActiveDefault, task[t].ref}]
  <2>1. /\ pc[t] = "asked" /\ task[t].op = "assign" /\ EnterGate(t)
        /\ task' = [task EXCEPT ![t].receipt = {ActiveDefault, task[t].ref}]
        /\ pc' = [pc EXCEPT ![t] = "assigning"]
        /\ UNCHANGED <<file, index, project>>
        /\ Assignable(task[t].ref) /\ ProjectReads /\ DefaultLoads
    BY <1>2 DEF AssignPolicy, AdmitAssignment, AssignAdmits, Goto
  <2>2. task[t] \in Tasks /\ task[t].ref \in Refs
    BY <2>1 DEF IInv, TypeOK, TaskInv
  <2>3. ActiveDefault # None /\ ActiveDefault \in Refs /\ Holds(Portable, ActiveDefault)
    BY <2>1, ActiveDefaultHolds
  <2>4. k \in Tasks /\ k.op = "assign" /\ k.ref = task[t].ref
          /\ k.receipt = {ActiveDefault, task[t].ref}
    BY <2>1, <2>2, <2>3 DEF Tasks
  <2>5. task' = [task EXCEPT ![t] = k]
    BY <2>1 DEF IInv, TypeOK
  <2>6. BelongsTo(Portable, task[t].ref) /\ Holds(Portable, task[t].ref)
          /\ project.state = "whole"
    BY <2>1 DEF Assignable, BelongsTo, ProjectReads
  <2> HIDE DEF k
  <2> QED
    BY <2>1, <2>2, <2>3, <2>4, <2>5, <2>6, EnterForProjectIInv DEF Gated
<1> QED
  BY <1>1, <1>2

\* The write of a registry document.
LEMMA StoreProjectIInv ==
    ASSUME IInv, NEW t \in Threads, WriteProject(t) \/ ReplaceProject(t) PROVE IInv'
<1> USE DEF IInv
<1>1. /\ pc[t] \in {"registering", "assigning"} /\ UNCHANGED <<file, index>>
      /\ pc' = [pc EXCEPT ![t] = "idle"] /\ task' = [task EXCEPT ![t] = NoTask]
      /\ owners' = owners \ {t}
      /\ project'.receipts = project.receipts \cup task[t].receipt
  <2>1. project.state = "torn" => project.receipts = {}
    BY DEF TypeOK, Projects
  <2>2. CASE WriteProject(t)
    <3>1. project.state = "torn" /\ project \in Projects
      BY <2>2 DEF WriteProject, TaskInv, TypeOK
    <3> QED
      BY <2>1, <2>2, <3>1
      DEF WriteProject, Leave, Finish, Goto, Gate!ReleaseExclusive, Projects
  <2>3. CASE ReplaceProject(t)
    BY <2>3 DEF ReplaceProject, Leave, Finish, Goto, Gate!ReleaseExclusive, TypeOK, Projects
  <2> QED
    BY <2>2, <2>3
<1>2. ReceiptReady(t) /\ task[t] \in Tasks
  BY <1>1 DEF TaskInv, TypeOK
<1>3. project' \in Projects
  <2>1. CASE WriteProject(t)
    <3>1. project.policy = None /\ project \in Projects /\ task[t].receipt \subseteq Refs
      BY <1>2, <2>1 DEF WriteProject, TaskInv, TypeOK, Tasks
    <3> QED
      BY <2>1, <3>1 DEF WriteProject, Projects, FileStates
  <2>2. CASE ReplaceProject(t)
    <3>1. project.state = "whole" /\ project \in Projects /\ task[t].receipt \subseteq Refs
            /\ task[t].ref \in task[t].receipt /\ task[t].generation + 1 \in Nat
      BY <1>2, <2>2 DEF ReplaceProject, TaskInv, TypeOK, Tasks
    <3> QED
      BY <2>2, <3>1 DEF ReplaceProject, Projects, FileStates
  <2> QED
    BY <2>1, <2>2
<1>4. \A u \in Threads : pc[u] \in Gated => u = t
  BY <1>1, AloneInside DEF Gated
<1>5. TypeOK'
  <2>1. NoTask \in Tasks
    BY DEF Tasks, NoTask, NoPointers, Pointers
  <2> QED
    BY <1>1, <1>3, <2>1 DEF TypeOK, PCs
<1>6. OwnerInv'
  BY <1>1, <1>4 DEF TypeOK, OwnerInv, Gated
<1>7. TaskInv'
  <2> SUFFICES ASSUME NEW u \in Threads
               PROVE  TaskInv!(u)'
    BY DEF TaskInv
  <2>1. CASE u = t
    BY <1>1, <2>1 DEF TypeOK
  <2>2. CASE u # t
    <3>1. pc'[u] = pc[u] /\ task'[u] = task[u] /\ pc[u] \notin Gated
      BY <1>1, <1>4, <2>2 DEF TypeOK
    <3> QED
      BY <3>1 DEF TaskInv, Gated, Activates
  <2> QED
    BY <2>1, <2>2
<1>8. SeenInv'
  <2>1. \A u \in Threads : (pc'[u] = pc[u] /\ task'[u] = task[u]) \/ pc'[u] = "idle"
    BY <1>1 DEF TypeOK
  <2> QED
    BY <1>1, <1>5, <2>1, SeenOutlives DEF IndexGrows
<1>9. ActivePointersResolve'
  BY <1>1 DEF ActivePointersResolve, Holds
<1>10. ReceiptsKeepTheirRules'
  BY <1>1, <1>2 DEF ReceiptsKeepTheirRules, Holds, ReceiptReady
<1> QED
  BY <1>5, <1>6, <1>7, <1>8, <1>9, <1>10 DEF IInv

LEMMA WriteFailsIInv ==
    ASSUME IInv, NEW t \in Threads, WriteFails(t) PROVE IInv'
  BY FinishIInv DEF WriteFails, Leave, Gate!ReleaseExclusive, Unmoved

LEMMA CrashIInv ==
    ASSUME IInv, NEW p \in Mortal, Crash(p) PROVE IInv'
<1> USE DEF IInv, Crash
<1>1. TypeOK'
  <2>1. NoTask \in Tasks
    BY DEF Tasks, NoTask, NoPointers, Pointers
  <2> QED
    BY <2>1 DEF TypeOK, PCs, Gate!Abandon
<1>2. OwnerInv'
  BY DEF TypeOK, OwnerInv, Gated, Gate!Abandon, Gate!ThreadsOf
<1>3. \A u \in Threads : pc'[u] = "idle" \/ (pc'[u] = pc[u] /\ task'[u] = task[u])
  BY DEF TypeOK
<1>4. TaskInv'
  <2> SUFFICES ASSUME NEW u \in Threads
               PROVE  TaskInv!(u)'
    BY DEF TaskInv
  <2>1. CASE pc'[u] = "idle"
    BY <2>1
  <2>2. CASE pc'[u] = pc[u] /\ task'[u] = task[u]
    BY <2>2 DEF TaskInv, Activates, BelongsTo, Holds, ReceiptReady, ActiveDefault
  <2> QED
    BY <1>3, <2>1, <2>2
<1>5. SeenInv'
  BY <1>1, <1>3, SeenOutlives DEF IndexGrows
<1>6. ActivePointersResolve' /\ ReceiptsKeepTheirRules'
  BY DEF ActivePointersResolve, ReceiptsKeepTheirRules, Holds
<1> QED
  BY <1>1, <1>2, <1>4, <1>5, <1>6 DEF IInv

LEMMA StutterIInv == ASSUME IInv, UNCHANGED vars PROVE IInv'
  BY DEF vars, IInv, TypeOK, OwnerInv, TaskInv, SeenInv, ActivePointersResolve,
         ReceiptsKeepTheirRules, Activates, BelongsTo, Holds, ReceiptReady, ActiveDefault

LEMMA NextIInv == IInv /\ [Next]_vars => IInv'
<1> SUFFICES ASSUME IInv, [Next]_vars PROVE IInv'
  OBVIOUS
<1>1. ASSUME NEW t \in Threads,
             CreateRevision(t) \/ BootstrapDefault(t) \/ WriteRevision(t) \/ BootstrapLook(t)
      PROVE  IInv'
  BY <1>1, CreateRevisionIInv, StutterIInv, BootstrapDefaultIInv, WriteRevisionIInv,
     BootstrapLookIInv
<1>2. ASSUME NEW t \in Threads,
             AskActivate(t) \/ Activate(t) \/ WriteIndex(t) \/ MovePointer(t)
      PROVE  IInv'
  BY <1>2, AskActivateIInv, ActivateIInv, WriteIndexIInv, MovePointerIInv
<1>3. ASSUME NEW t \in Threads,
             \/ Register(t) \/ WriteProject(t) \/ AskAssign(t) \/ AssignPolicy(t)
             \/ ReplaceProject(t) \/ WriteFails(t)
      PROVE  IInv'
  BY <1>3, RegisterIInv, StoreProjectIInv, AskAssignIInv, AssignPolicyIInv, WriteFailsIInv
<1>4. ASSUME NEW p \in Mortal, Crash(p) PROVE IInv'
  BY <1>4, CrashIInv
<1>5. CASE UNCHANGED vars
  BY <1>5, StutterIInv
<1> QED
  BY <1>1, <1>2, <1>3, <1>4, <1>5 DEF Next

\* Each step of a command keeps the relation of files, pointers and the registry to
\* what is known of the commands (policy.py:369-564, registries.py:267-346).
THEOREM Invariance == Spec => []IInv
  BY InitIInv, NextIInv, PTL DEF Spec

-----------------------------------------------------------------------------
(* What a step may do to files, indices and the registry.                  *)

LEMMA FileStep ==
    ASSUME IInv, [Next]_vars
    PROVE  \/ UNCHANGED file
           \/ \E t \in Threads, c \in Classes, ref \in Refs, op \in {"create", "bootstrap"} :
                StartRevision(t, op, c, ref)
           \/ \E t \in Threads : WriteRevision(t)
<1>1. DefaultRef \in Refs /\ Portable \in Classes
  BY PolicyAssumption, RuleAssumption DEF DefaultRef, Refs, Classes
<1>2. ASSUME NEW t \in Threads, CreateRevision(t)
      PROVE  UNCHANGED file \/ \E c \in Classes, ref \in Refs : StartRevision(t, "create", c, ref)
  BY <1>2 DEF CreateRevision, vars
<1>3. ASSUME NEW t \in Threads, BootstrapDefault(t)
      PROVE  UNCHANGED file \/ StartRevision(t, "bootstrap", Portable, DefaultRef)
  BY <1>3 DEF BootstrapDefault
<1>4. ASSUME NEW t \in Threads,
             \/ BootstrapLook(t) \/ AskActivate(t) \/ Activate(t) \/ WriteIndex(t)
             \/ MovePointer(t) \/ Register(t) \/ WriteProject(t) \/ AskAssign(t)
             \/ AssignPolicy(t) \/ ReplaceProject(t) \/ WriteFails(t)
      PROVE  UNCHANGED file
  BY <1>4 DEF BootstrapLook, AskActivate, Activate, WriteIndex, MovePointer, Register,
              WriteProject, AskAssign, AssignPolicy, ReplaceProject, WriteFails
<1>5. ASSUME NEW p \in Mortal, Crash(p) PROVE UNCHANGED file
  BY <1>5 DEF Crash
<1>6. CASE UNCHANGED vars
  BY <1>6 DEF vars
<1> QED
  BY <1>1, <1>2, <1>3, <1>4, <1>5, <1>6 DEF Next

\* The file a creation starts.
LEMMA StartEffect ==
    ASSUME TypeOK, NEW t \in Threads, NEW c \in Classes, NEW ref \in Refs,
           NEW op \in {"create", "bootstrap"}, StartRevision(t, op, c, ref)
    PROVE  /\ file[c][ref.revision] = Absent
           /\ file'[c][ref.revision] = Torn
           /\ \A d \in Classes, r \in Revisions :
                file'[d][r] = file[d][r] \/ (d = c /\ r = ref.revision)
           /\ task'[t].op = op /\ task'[t].class = c /\ task'[t].ref = ref
<1>1. /\ file[c][ref.revision] = Absent
      /\ file' = [file EXCEPT ![c][ref.revision] = Torn]
      /\ task' = [task EXCEPT ![t] = [NoTask EXCEPT !.op = op, !.class = c, !.ref = ref]]
  BY DEF StartRevision, MayCreate
<1>2. ref.revision \in Revisions
  BY DEF Refs
<1> QED
  BY <1>1, <1>2 DEF TypeOK, NoTask

\* The file a creation completes.
LEMMA WriteEffect ==
    ASSUME IInv, NEW t \in Threads, WriteRevision(t)
    PROVE  \E c \in Classes, ref \in Refs :
             /\ file[c][ref.revision] = Torn
             /\ file'[c][ref.revision] = ref.digest
             /\ \A d \in Classes, r \in Revisions :
                  file'[d][r] = file[d][r] \/ (d = c /\ r = ref.revision)
             /\ file' = [file EXCEPT ![c][ref.revision] = ref.digest]
             /\ UNCHANGED <<index, project>>
<1> DEFINE c == task[t].class
           ref == task[t].ref
<1>1. c \in Classes /\ ref \in Refs /\ file[c][ref.revision] = Torn
        /\ file' = [file EXCEPT ![c][ref.revision] = ref.digest]
        /\ UNCHANGED <<index, project>>
  BY DEF IInv, WriteRevision, TaskInv
<1>2. ref.revision \in Revisions
  BY <1>1 DEF Refs
<1> QED
  BY <1>1, <1>2 DEF IInv, TypeOK

LEMMA FilesOnlyGrow ==
    ASSUME IInv, [Next]_vars PROVE FilesGrow
<1>1. CASE UNCHANGED file
  BY <1>1 DEF FilesGrow
<1>2. ASSUME NEW t \in Threads, NEW c \in Classes, NEW ref \in Refs,
             NEW op \in {"create", "bootstrap"}, StartRevision(t, op, c, ref)
      PROVE  FilesGrow
  BY <1>2, StartEffect DEF FilesGrow, IInv
<1>3. ASSUME NEW t \in Threads, WriteRevision(t) PROVE FilesGrow
  BY <1>3, WriteEffect DEF FilesGrow, Refs
<1> QED
  BY <1>1, <1>2, <1>3, FileStep

\* Pointers move only in MovePointer.
LEMMA PointerStep ==
    ASSUME IInv, [Next]_vars
    PROVE  \/ \A c \in Classes : index'[c].active = index[c].active
           \/ \E t \in Threads : MovePointer(t)
<1>1. ASSUME NEW t \in Threads, WriteIndex(t)
      PROVE  \A c \in Classes : index'[c].active = index[c].active
  <2>1. task[t].ref \in Refs
    BY <1>1 DEF IInv, TaskInv, WriteIndex
  <2>2. PICK c \in Classes : BelongsTo(c, task[t].ref) /\ index[c].state = "torn"
    BY <1>1 DEF IInv, TaskInv, WriteIndex
  <2>3. index' = [index EXCEPT ![c] = EmptyIndex]
    BY <1>1, <2>1, <2>2, TargetIs DEF WriteIndex, IInv
  <2>4. index[c] \in Indices
    BY DEF IInv, TypeOK
  <2>5. index[c].active \in Pointers /\ \A p \in Policies : index[c].active[p] = None
    BY <2>2, <2>4 DEF Indices
  <2>6. index[c].active = NoPointers
    BY <2>5 DEF NoPointers, Pointers
  <2> QED
    BY <2>3, <2>6 DEF IInv, TypeOK, EmptyIndex
<1>2. ASSUME NEW t \in Threads, Activate(t)
      PROVE  \A c \in Classes : index'[c].active = index[c].active
  <2>1. UNCHANGED index \/ \E c \in Classes : index' = [index EXCEPT ![c].state = "torn"]
    BY <1>2 DEF Activate, ActivateIn
  <2> QED
    BY <2>1 DEF IInv, TypeOK, Indices
<1>3. ASSUME NEW t \in Threads,
             \/ CreateRevision(t) \/ BootstrapDefault(t) \/ WriteRevision(t)
             \/ BootstrapLook(t) \/ AskActivate(t) \/ Register(t) \/ WriteProject(t)
             \/ AskAssign(t) \/ AssignPolicy(t) \/ ReplaceProject(t) \/ WriteFails(t)
      PROVE  UNCHANGED index
  BY <1>3 DEF CreateRevision, BootstrapDefault, StartRevision, WriteRevision, BootstrapLook,
              AskActivate, Register, WriteProject, AskAssign, AssignPolicy, ReplaceProject,
              WriteFails, vars
<1>4. ASSUME NEW p \in Mortal, Crash(p) PROVE UNCHANGED index
  BY <1>4 DEF Crash
<1>5. CASE UNCHANGED vars
  BY <1>5 DEF vars
<1> QED
  BY <1>1, <1>2, <1>3, <1>4, <1>5 DEF Next

-----------------------------------------------------------------------------
(* The theorems.                                                           *)

\* Files, indices, registry and tasks always have the shape the code gives
\* them, an index without a file has no pointers, and what is assigned is among
\* the receipts.
THEOREM TypeCorrect == Spec => []TypeOK
  BY Invariance, PTL DEF IInv

\* load_active never meets a pointer whose revision is missing, torn or changed
\* (policy.py:412-425).
THEOREM PointersResolve == Spec => []ActivePointersResolve
  BY Invariance, PTL DEF IInv

\* The rules behind recorded decisions stay in the portable tree.
THEOREM ReceiptsStayAuditable == Spec => []ReceiptsKeepTheirRules
  BY Invariance, PTL DEF IInv

\* Both kinds of reference keep naming intact rules.
THEOREM ReferencesResolve == Spec => []NoReferenceDangles
<1>1. ActivePointersResolve /\ ReceiptsKeepTheirRules => NoReferenceDangles
  BY DEF NoReferenceDangles
<1> QED
  BY <1>1, PointersResolve, ReceiptsStayAuditable, PTL

LEMMA MoveStep ==
    ASSUME IInv, [Next]_vars, NEW t \in Threads, NEW c \in Classes,
           pc[t] = "moving", index'[c].active # index[c].active, task[t].class = c
    PROVE  /\ index[c].active = task[t].seen
           /\ \E p \in Policies :
                index'[c].active = [index[c].active EXCEPT ![p] = task[t].ref]
<1>1. PICK u \in Threads : MovePointer(u)
  BY PointerStep
<1>2. u = t
  BY <1>1, AloneInside DEF MovePointer, Gated
<1>3. PICK d \in Classes :
             /\ index[d].generation = task[t].generation
             /\ PolicyOf[task[t].ref.revision] \in Policies
             /\ index'[d].active =
                  [index[d].active EXCEPT ![PolicyOf[task[t].ref.revision]] = task[t].ref]
             /\ \A e \in Classes \ {d} : index'[e] = index[e]
  BY <1>1, <1>2, MoveFacts
<1>4. d = c
  BY <1>3
<1>5. Activates(t)
  BY DEF IInv, TaskInv
<1>6. task[t].generation = index[c].generation => task[t].seen = index[c].active
  BY <1>5 DEF IInv, SeenInv
<1> QED
  BY <1>3, <1>4, <1>6

\* No pointer moves behind the back of the client that moves it.
THEOREM NoBlindActivation == Spec => PointersMoveAsSeen
<1>1. IInv /\ [Next]_vars =>
        [\A t \in Threads : \A c \in Classes :
           pc[t] = "moving" /\ index'[c].active # index[c].active
             /\ task[t].class = c
           => /\ index[c].active = task[t].seen
              /\ \E p \in Policies :
                   index'[c].active = [index[c].active EXCEPT ![p] = task[t].ref]]_vars
  BY MoveStep
<1> QED
  BY <1>1, Invariance, PTL DEF Spec, PointersMoveAsSeen

LEMMA ShadowStep ==
    ASSUME IInv, [Next]_vars, NEW ref \in Refs, Loads(ref), ~Loads(ref)'
    PROVE  \E t \in Threads : \E c \in Classes :
             /\ task'[t].op \in {"create", "bootstrap"}
             /\ task'[t].class = c
             /\ task'[t].ref.revision = ref.revision
             /\ ~Holds(c, ref)
<1>1. PICK b \in Classes : BelongsTo(b, ref)
  BY DEF Loads
<1>2. ref.revision \in Revisions /\ ref.digest \in Rules
  BY DEF Refs
<1>3. Holds(b, ref)'
  BY <1>1, FilesOnlyGrow, HoldsStays DEF BelongsTo
<1>4. PICK d \in Classes \ {b} : file[d][ref.revision] = Absent /\ file'[d][ref.revision] # Absent
  BY <1>1, <1>3 DEF Loads, BelongsTo
<1>5. ~Holds(d, ref)
  BY <1>2, <1>4, RulesAreNotMarks DEF Holds
<1>6. ASSUME NEW t \in Threads, NEW c \in Classes, NEW r \in Refs,
             NEW op \in {"create", "bootstrap"}, StartRevision(t, op, c, r)
      PROVE  /\ task'[t].op \in {"create", "bootstrap"} /\ task'[t].class = d
             /\ task'[t].ref.revision = ref.revision
  BY <1>2, <1>4, <1>6, StartEffect DEF IInv
<1>7. ASSUME NEW t \in Threads, WriteRevision(t) PROVE FALSE
  <2>1. Absent # Torn
    BY RuleAssumption
  <2> QED
    BY <1>2, <1>4, <1>7, <2>1, WriteEffect
<1> QED
  BY <1>4, <1>5, <1>6, <1>7, FileStep

\* Only a revision of the same name in the other class makes a rule unloadable.
THEOREM OnlyShadowsHide == Spec => RulesLoadUntilShadowed
<1>1. IInv /\ [Next]_vars =>
        [\A ref \in Refs : Loads(ref) /\ ~Loads(ref)' =>
           \E t \in Threads : \E c \in Classes :
               /\ task'[t].op \in {"create", "bootstrap"}
               /\ task'[t].class = c
               /\ task'[t].ref.revision = ref.revision
               /\ ~Holds(c, ref)]_vars
  BY ShadowStep
<1> QED
  BY <1>1, Invariance, PTL DEF Spec, RulesLoadUntilShadowed

\* A registry is written under the default that is active at its write.
THEOREM DefaultStaysActive == Spec => WrittenUnderActiveDefault
<1>1. IInv /\ [Next]_vars =>
        [\A t \in Threads :
           pc[t] \in {"registering", "assigning"} /\ project'.state = "whole"
             /\ project' # project
           => ActiveDefault \in task[t].receipt]_vars
  BY DEF IInv, TaskInv, ReceiptReady
<1> QED
  BY <1>1, Invariance, PTL DEF Spec, WrittenUnderActiveDefault

-----------------------------------------------------------------------------
(* The ledger that the store implements.                                   *)

RulesOf(f) == [c \in Classes |-> [r \in Revisions |-> IF f[c][r] \in Rules THEN f[c][r] ELSE None]]

LEMMA InitMapsToLedger == Init => Ledger!LedgerInit
  BY RulesAreNotMarks, RuleAssumption DEF Init, Ledger!LedgerInit, EmptyIndex, NoPointers

\* Where a reference belongs, the ledger names it.
LEMMA BelongsMaps ==
    ASSUME NEW c \in Classes, NEW ref \in Refs, BelongsTo(c, ref)
    PROVE  Ledger!Names(c, ref)
<1>1. ref.revision \in Revisions /\ ref.digest \in Rules
  BY DEF Refs
<1> QED
  BY <1>1, RulesAreNotMarks, RuleAssumption DEF BelongsTo, Holds, Ledger!Names

\* A creation that starts changes nothing in the ledger, one that ends publishes.
LEMMA RevisionMaps ==
    ASSUME IInv, [Next]_vars, file' # file
    PROVE  UNCHANGED RulesOf(file) \/ \E c \in Classes, ref \in Refs : Ledger!Publish(c, ref)
<1>1. ASSUME NEW t \in Threads, NEW c \in Classes, NEW r \in Refs,
             NEW op \in {"create", "bootstrap"}, StartRevision(t, op, c, r)
      PROVE  UNCHANGED RulesOf(file)
  BY <1>1, StartEffect, RulesAreNotMarks DEF IInv, RulesOf
<1>2. ASSUME NEW t \in Threads, WriteRevision(t)
      PROVE  \E c \in Classes, ref \in Refs : Ledger!Publish(c, ref)
  <2>1. PICK c \in Classes, ref \in Refs :
             /\ file[c][ref.revision] = Torn
             /\ file'[c][ref.revision] = ref.digest
             /\ \A d \in Classes, r \in Revisions :
                  file'[d][r] = file[d][r] \/ (d = c /\ r = ref.revision)
             /\ UNCHANGED <<index, project>>
    BY <1>2, WriteEffect
  <2>2. ref.revision \in Revisions /\ ref.digest \in Rules
    BY DEF Refs
  <2>3. RulesOf(file') = [RulesOf(file) EXCEPT ![c][ref.revision] = ref.digest]
    <3> DEFINE row(f, d) == [r \in Revisions |-> IF f[d][r] \in Rules THEN f[d][r] ELSE None]
    <3>1. row(file', c) = [row(file, c) EXCEPT ![ref.revision] = ref.digest]
      BY <2>1, <2>2
    <3>2. \A d \in Classes \ {c} : row(file', d) = row(file, d)
      BY <2>1
    <3>3. \A f : RulesOf(f) = [d \in Classes |-> row(f, d)]
      BY DEF RulesOf
    <3> HIDE DEF row
    <3>4. [RulesOf(file) EXCEPT ![c][ref.revision] = ref.digest]
            = [RulesOf(file) EXCEPT ![c] = [row(file, c) EXCEPT ![ref.revision] = ref.digest]]
      BY <3>3
    <3> QED
      BY <3>1, <3>2, <3>3, <3>4
  <2>4. RulesOf(file)[c][ref.revision] = None
    BY <2>1, <2>2, RulesAreNotMarks DEF RulesOf
  <2>5. Ledger!Publish(c, ref)
    BY <2>1, <2>3, <2>4 DEF Ledger!Publish, RulesOf
  <2> QED
    BY <2>5
<1> QED
  BY <1>1, <1>2, FileStep

\* A pointer that moves is a Point of the ledger.
LEMMA MoveMaps ==
    ASSUME IInv, NEW t \in Threads, MovePointer(t)
    PROVE  \E c \in Classes, ref \in Refs : Ledger!Point(c, ref)
<1>0. PICK c \in Classes, ref \in Refs :
             /\ BelongsTo(c, ref) /\ PolicyOf[ref.revision] \in Policies
             /\ index'[c].active =
                  [index[c].active EXCEPT ![PolicyOf[ref.revision]] = ref]
             /\ \A d \in Classes \ {c} : index'[d] = index[d]
  BY MoveFacts
<1>1. UNCHANGED <<file, project>>
  BY DEF MovePointer
<1>2. Ledger!Names(c, ref)
  BY <1>0, BelongsMaps
<1>3. [d \in Classes |-> index'[d].active]
        = [[d \in Classes |-> index[d].active] EXCEPT ![c][PolicyOf[ref.revision]] = ref]
  <2>1. [[d \in Classes |-> index[d].active] EXCEPT ![c][PolicyOf[ref.revision]] = ref]
          = [[d \in Classes |-> index[d].active] EXCEPT ![c] =
                [index[c].active EXCEPT ![PolicyOf[ref.revision]] = ref]]
    OBVIOUS
  <2> QED
    BY <1>0, <2>1
<1>4. Ledger!Point(c, ref)
  BY <1>1, <1>2, <1>3 DEF Ledger!Point
<1> QED
  BY <1>4

\* A registry that is replaced is an Assign of the ledger.
LEMMA ReplaceMaps ==
    ASSUME IInv, NEW t \in Threads, ReplaceProject(t)
    PROVE  \E ref \in Refs : Ledger!Assign(ref)
<1>1. pc[t] = "assigning" /\ task[t].ref \in Refs /\ BelongsTo(Portable, task[t].ref)
  BY DEF IInv, ReplaceProject, TaskInv
<1>2. Ledger!Names(Portable, task[t].ref)
  BY <1>1, BelongsMaps DEF Classes
<1>3. project'.policy = task[t].ref /\ UNCHANGED <<file, index>>
  BY DEF ReplaceProject, IInv, TypeOK, Projects
<1>4. Ledger!Assign(task[t].ref)
  BY <1>2, <1>3 DEF Ledger!Assign
<1> QED
  BY <1>1, <1>4

\* Only a replacement changes what is assigned.
LEMMA AssignedStep ==
    ASSUME IInv, [Next]_vars
    PROVE  project'.policy = project.policy \/ \E t \in Threads : ReplaceProject(t)
<1>1. ASSUME NEW t \in Threads, Register(t) \/ WriteProject(t)
      PROVE  project'.policy = project.policy
  BY <1>1 DEF Register, WriteProject, IInv, TypeOK, Projects
<1>2. ASSUME NEW t \in Threads,
             \/ CreateRevision(t) \/ BootstrapDefault(t) \/ WriteRevision(t)
             \/ BootstrapLook(t) \/ AskActivate(t) \/ Activate(t) \/ WriteIndex(t)
             \/ MovePointer(t) \/ AskAssign(t) \/ AssignPolicy(t) \/ WriteFails(t)
      PROVE  UNCHANGED project
  BY <1>2 DEF CreateRevision, BootstrapDefault, StartRevision, WriteRevision, BootstrapLook,
              AskActivate, Activate, WriteIndex, MovePointer, AskAssign, AssignPolicy,
              WriteFails, vars
<1>3. ASSUME NEW p \in Mortal, Crash(p) PROVE UNCHANGED project
  BY <1>3 DEF Crash
<1>4. CASE UNCHANGED vars
  BY <1>4 DEF vars
<1> QED
  BY <1>1, <1>2, <1>3, <1>4 DEF Next

\* Every step is a step of the ledger or a stutter of it.
LEMMA StepMaps == IInv /\ [Next]_vars => [Ledger!LedgerNext]_(Ledger!ledgerVars)
<1> SUFFICES ASSUME IInv, [Next]_vars
             PROVE  Ledger!LedgerNext \/ UNCHANGED Ledger!ledgerVars
  OBVIOUS
<1>0. Refs = Ledger!LedgerRefs
  BY DEF Refs, Ledger!LedgerRefs
<1>1. CASE \E t \in Threads : MovePointer(t)
  BY <1>0, <1>1, MoveMaps DEF Ledger!LedgerNext
<1>2. CASE \E t \in Threads : ReplaceProject(t)
  BY <1>0, <1>2, ReplaceMaps DEF Ledger!LedgerNext
<1>3. CASE /\ ~\E t \in Threads : MovePointer(t) \/ ReplaceProject(t)
  <2>1. project'.policy = project.policy /\ \A c \in Classes : index'[c].active = index[c].active
    BY <1>3, AssignedStep, PointerStep
  <2>2. CASE UNCHANGED RulesOf(file)
    BY <2>1, <2>2 DEF Ledger!ledgerVars, RulesOf
  <2>3. CASE ~UNCHANGED RulesOf(file)
    <3>1. file' # file
      BY <2>3 DEF RulesOf
    <3> QED
      BY <1>0, <2>3, <3>1, RevisionMaps DEF Ledger!LedgerNext
  <2> QED
    BY <2>2, <2>3
<1> QED
  BY <1>1, <1>2, <1>3

\* Torn files, generations, admissions and crashes together are still a ledger.
THEOREM StoreImplementsLedger == Spec => ImplementsLedger
  BY InitMapsToLedger, Invariance, StepMaps, PTL DEF Spec, ImplementsLedger, Ledger!LedgerSpec

-----------------------------------------------------------------------------
(* What dead processes and full disks leave, and what it takes to leave it. *)

\* Nothing repairs a file that was left half-written: once its writer is gone it
\* stays, and with a torn index so does the failure of every activation in its
\* class (policy.py:557-585).
DebrisStays ==
    [][owners = {} =>
         /\ \A c \in Classes : \A r \in Revisions : file[c][r] = Torn => file'[c][r] = Torn
         /\ \A c \in Classes : index[c].state = "torn" => index'[c].state = "torn"
         /\ project.state = "torn" => project'.state = "torn"]_vars

\* Who touches the files when nobody is inside the gate: whoever enters it.
LEMMA EntryStep ==
    ASSUME IInv, [Next]_vars, owners = {}
    PROVE  \/ UNCHANGED <<file, index, project>>
           \/ /\ \E t \in Threads, c \in Classes, ref \in Refs, op \in {"create", "bootstrap"} :
                   StartRevision(t, op, c, ref)
              /\ UNCHANGED <<index, project>>
           \/ /\ \E t \in Threads, c \in Classes : ActivateIn(t, c) /\ pc[t] = "asked"
              /\ UNCHANGED <<file, project>>
           \/ \E t \in Threads : Register(t) /\ UNCHANGED <<file, index>>
<1>0. \A t \in Threads : pc[t] \notin Gated
  BY DEF IInv, OwnerInv
<1>1. DefaultRef \in Refs /\ Portable \in Classes
  BY PolicyAssumption, RuleAssumption DEF DefaultRef, Refs, Classes
<1>2. ASSUME NEW t \in Threads, CreateRevision(t)
      PROVE  \/ UNCHANGED <<file, index, project>>
             \/ /\ \E c \in Classes, ref \in Refs : StartRevision(t, "create", c, ref)
                /\ UNCHANGED <<index, project>>
  BY <1>2 DEF CreateRevision, StartRevision, vars
<1>3. ASSUME NEW t \in Threads, BootstrapDefault(t)
      PROVE  \/ UNCHANGED <<file, index, project>>
             \/ /\ StartRevision(t, "bootstrap", Portable, DefaultRef)
                /\ UNCHANGED <<index, project>>
  BY <1>3 DEF BootstrapDefault, StartRevision
<1>4. ASSUME NEW t \in Threads, Activate(t)
      PROVE  \/ UNCHANGED <<file, index, project>>
             \/ /\ \E c \in Classes : ActivateIn(t, c) /\ pc[t] = "asked"
                /\ UNCHANGED <<file, project>>
  BY <1>4 DEF Activate
<1>5. ASSUME NEW t \in Threads,
             BootstrapLook(t) \/ AskActivate(t) \/ AskAssign(t) \/ AssignPolicy(t)
      PROVE  UNCHANGED <<file, index, project>>
  BY <1>5 DEF BootstrapLook, AskActivate, AskAssign, AssignPolicy
<1>6. ASSUME NEW t \in Threads,
             \/ WriteRevision(t) \/ WriteIndex(t) \/ MovePointer(t) \/ WriteProject(t)
             \/ ReplaceProject(t) \/ WriteFails(t)
      PROVE  FALSE
  BY <1>0, <1>6 DEF WriteRevision, WriteIndex, MovePointer, WriteProject, ReplaceProject,
                    WriteFails, Gated
<1>7. ASSUME NEW t \in Threads, Register(t) PROVE UNCHANGED <<file, index>>
  BY <1>7 DEF Register
<1>8. ASSUME NEW p \in Mortal, Crash(p) PROVE UNCHANGED <<file, index, project>>
  BY <1>8 DEF Crash
<1>9. CASE UNCHANGED vars
  BY <1>9 DEF vars
<1> QED
  BY <1>1, <1>2, <1>3, <1>4, <1>5, <1>6, <1>7, <1>8, <1>9 DEF Next

LEMMA DebrisStep ==
    ASSUME IInv, [Next]_vars, owners = {}
    PROVE  /\ \A c \in Classes : \A r \in Revisions : file[c][r] = Torn => file'[c][r] = Torn
           /\ \A c \in Classes : index[c].state = "torn" => index'[c].state = "torn"
           /\ project.state = "torn" => project'.state = "torn"
<1>1. CASE UNCHANGED <<file, index, project>>
  BY <1>1
<1>2. ASSUME NEW t \in Threads, NEW c \in Classes, NEW ref \in Refs,
             NEW op \in {"create", "bootstrap"}, StartRevision(t, op, c, ref)
      PROVE  \A d \in Classes : \A r \in Revisions : file[d][r] = Torn => file'[d][r] = Torn
  BY <1>2, StartEffect DEF IInv
<1>3. ASSUME NEW t \in Threads, NEW c \in Classes, ActivateIn(t, c)
      PROVE  \A d \in Classes : index[d].state = "torn" => index'[d].state = "torn"
  BY <1>3 DEF ActivateIn, IInv, TypeOK
<1>4. ASSUME NEW t \in Threads, Register(t) PROVE project.state # "torn"
  BY <1>4 DEF Register
<1> QED
  BY <1>1, <1>2, <1>3, <1>4, EntryStep

\* A half-written file is there for good: no command of the store writes over one
\* (_ensure_index and create_revision, policy.py:369-382, 553-564).
THEOREM NothingRepairs == Spec => DebrisStays
  BY DebrisStep, Invariance, PTL DEF Spec, DebrisStays

\* A file is half-written only while somebody is writing it.
Tidy ==
    /\ \A c \in Classes : \A r \in Revisions : file[c][r] = Torn =>
         \E t \in Threads : pc[t] = "writing" /\ task[t].class = c /\ task[t].ref.revision = r
    /\ \A c \in Classes : index[c].state = "torn" =>
         \E t \in Threads : pc[t] = "indexing" /\ BelongsTo(c, task[t].ref)
    /\ project.state = "torn" => \E t \in Threads : pc[t] = "registering"

NothingTorn ==
    /\ \A c \in Classes : \A r \in Revisions : file[c][r] # Torn
    /\ \A c \in Classes : index[c].state # "torn"
    /\ project.state # "torn"

\* When nobody is inside the gate every file is whole or not there.
WholeWhenIdle == owners = {} => NothingTorn

\* Tidiness is about whoever is inside the gate.
LEMMA TidyInside ==
    ASSUME IInv, Tidy, \A t \in Threads : pc[t] \notin {"writing", "indexing", "registering"}
    PROVE  NothingTorn
  BY DEF Tidy, NothingTorn

LEMMA TidyStep ==
    ASSUME Mortal = {}, DiskMayFail = FALSE, IInv, Tidy, [Next]_vars PROVE Tidy'
<1> USE DEF IInv
<1>0. DOMAIN pc = Threads /\ DOMAIN task = Threads
  BY DEF TypeOK
<1>1. ASSUME NEW t \in Threads, pc[t] \notin Gated, UNCHANGED <<file, index, project>>,
             \A u \in Threads : u # t => pc'[u] = pc[u] /\ task'[u] = task[u]
      PROVE  Tidy'
  BY <1>1 DEF Tidy, Gated, BelongsTo, Holds
<1>2. ASSUME NEW t \in Threads, NEW c \in Classes, NEW ref \in Refs,
             NEW op \in {"create", "bootstrap"}, StartRevision(t, op, c, ref)
      PROVE  Tidy'
  <2>1. NothingTorn
    BY <1>2, NobodyInside, TidyInside DEF StartRevision, EnterGate, Gate!AcquireExclusive, Gated
  <2>2. UNCHANGED <<index, project>> /\ pc'[t] = "writing"
    BY <1>0, <1>2 DEF StartRevision, Goto
  <2>3. \A d \in Classes : \A r \in Revisions :
          file'[d][r] = Torn => d = c /\ r = ref.revision
    BY <1>2, <2>1, StartEffect DEF NothingTorn
  <2>4. task'[t].class = c /\ task'[t].ref = ref
    BY <1>2, StartEffect
  <2> QED
    BY <2>1, <2>2, <2>3, <2>4 DEF Tidy, NothingTorn
<1>3. ASSUME NEW t \in Threads, WriteRevision(t) PROVE Tidy'
  <2>1. pc[t] = "writing" /\ UNCHANGED <<index, project>>
    BY <1>3 DEF WriteRevision
  <2>2. \A u \in Threads : pc[u] \in Gated => u = t
    BY <2>1, AloneInside DEF Gated
  <2>3. /\ task[t].class \in Classes /\ task[t].ref \in Refs
        /\ file' = [file EXCEPT ![task[t].class][task[t].ref.revision] = task[t].ref.digest]
    BY <1>3, <2>1 DEF WriteRevision, TaskInv
  <2>4. task[t].ref.revision \in Revisions /\ task[t].ref.digest # Torn
    BY <2>3, RulesAreNotMarks DEF Refs
  <2>5. \A c \in Classes : \A r \in Revisions : file'[c][r] # Torn
    BY <2>1, <2>2, <2>3, <2>4 DEF Tidy, TypeOK, Gated
  <2>6. (\A c \in Classes : index[c].state # "torn") /\ project.state # "torn"
    BY <2>1, <2>2 DEF Tidy, Gated
  <2> QED
    BY <2>1, <2>5, <2>6 DEF Tidy
<1>4. ASSUME NEW t \in Threads, NEW c \in Classes, ActivateIn(t, c), EnterGate(t),
             UNCHANGED <<file, project, task>>
      PROVE  Tidy'
  <2>1. NothingTorn
    BY <1>4, NobodyInside, TidyInside DEF EnterGate, Gate!AcquireExclusive, Gated
  <2>2. BelongsTo(c, task[t].ref)'
    BY <1>4 DEF ActivateIn, BelongsTo, Holds
  <2>3. \A d \in Classes : index'[d].state = "torn" => d = c /\ pc'[t] = "indexing"
    BY <1>0, <1>4, <2>1 DEF ActivateIn, NothingTorn, TypeOK, Goto
  <2> QED
    BY <1>4, <2>1, <2>2, <2>3 DEF Tidy, NothingTorn
<1>5. ASSUME NEW t \in Threads, WriteIndex(t) PROVE Tidy'
  <2>1. pc[t] = "indexing" /\ UNCHANGED <<file, project>> /\ task[t].ref \in Refs
    BY <1>5 DEF WriteIndex, TaskInv
  <2>2. \A u \in Threads : pc[u] \in Gated => u = t
    BY <2>1, AloneInside DEF Gated
  <2>3. PICK c \in Classes : BelongsTo(c, task[t].ref) /\ index[c].state = "torn"
    BY <2>1 DEF TaskInv
  <2>4. index' = [index EXCEPT ![c] = EmptyIndex]
    BY <1>5, <2>1, <2>3, TargetIs DEF WriteIndex
  <2>5. \A d \in Classes : index[d].state = "torn" => d = c
    BY <2>1, <2>2, <2>3, OneClass DEF Tidy, Gated
  <2>6. EmptyIndex.state # "torn"
    BY DEF EmptyIndex
  <2>7. \A d \in Classes : index'[d].state # "torn"
    BY <2>4, <2>5, <2>6 DEF TypeOK
  <2>8. /\ \A d \in Classes : \A r \in Revisions : file[d][r] # Torn
        /\ project.state # "torn"
    BY <2>1, <2>2 DEF Tidy, Gated
  <2> QED
    BY <2>1, <2>7, <2>8 DEF Tidy
<1>6. ASSUME NEW t \in Threads, MovePointer(t) PROVE Tidy'
  <2>1. pc[t] = "moving" /\ UNCHANGED <<file, project>>
    BY <1>6 DEF MovePointer
  <2>2. NothingTorn
    BY <2>1, AloneInside, TidyInside DEF Gated
  <2>3. \A c \in Classes : index'[c].state # "torn"
    BY <1>6, <2>2, MoveFacts DEF NothingTorn
  <2> QED
    BY <2>1, <2>2, <2>3 DEF Tidy, NothingTorn
<1>7. ASSUME NEW t \in Threads, Register(t) PROVE Tidy'
  <2>1. NothingTorn
    BY <1>7, NobodyInside, TidyInside DEF Register, EnterGate, Gate!AcquireExclusive, Gated
  <2>2. UNCHANGED <<file, index>> /\ pc'[t] = "registering"
    BY <1>0, <1>7 DEF Register, Goto
  <2> QED
    BY <2>1, <2>2 DEF Tidy, NothingTorn
<1>8. ASSUME NEW t \in Threads, WriteProject(t) \/ ReplaceProject(t) PROVE Tidy'
  <2>1. pc[t] \in {"registering", "assigning"} /\ UNCHANGED <<file, index>>
    BY <1>8 DEF WriteProject, ReplaceProject
  <2>2. \A u \in Threads : pc[u] \in Gated => u = t
    BY <2>1, AloneInside DEF Gated
  <2>3. /\ \A c \in Classes : \A r \in Revisions : file[c][r] # Torn
        /\ \A c \in Classes : index[c].state # "torn"
    BY <2>1, <2>2 DEF Tidy, Gated
  <2>4. project'.state = "whole"
    BY <1>8 DEF WriteProject, ReplaceProject, TaskInv, TypeOK, Projects
  <2> QED
    BY <2>1, <2>3, <2>4 DEF Tidy
<1>9. ASSUME NEW t \in Threads,
             \/ CreateRevision(t) \/ BootstrapDefault(t) \/ BootstrapLook(t) \/ AskActivate(t)
             \/ Activate(t) \/ AskAssign(t) \/ AssignPolicy(t)
      PROVE  Tidy'
  <2>1. CASE CreateRevision(t)
    BY <1>2, <2>1 DEF CreateRevision, vars, Tidy, BelongsTo, Holds
  <2>2. CASE BootstrapDefault(t)
    <3>1. DefaultRef \in Refs /\ Portable \in Classes
      BY PolicyAssumption, RuleAssumption DEF DefaultRef, Refs, Classes
    <3>2. CASE StartRevision(t, "bootstrap", Portable, DefaultRef)
      BY <1>2, <3>1, <3>2
    <3>3. CASE ~StartRevision(t, "bootstrap", Portable, DefaultRef)
      BY <1>0, <1>1, <2>2, <3>3 DEF BootstrapDefault, Goto, Gated
    <3> QED
      BY <3>2, <3>3
  <2>3. CASE BootstrapLook(t) \/ AskActivate(t) \/ AskAssign(t)
    BY <1>0, <1>1, <2>3 DEF BootstrapLook, AskActivate, AskAssign, Goto, Finish, Gated
  <2>4. CASE Activate(t)
    <3>1. CASE Refuse(t) /\ UNCHANGED index
      BY <1>0, <1>1, <2>4, <3>1 DEF Activate, Refuse, Finish, Goto, Gated
    <3> QED
      BY <1>4, <2>4, <3>1 DEF Activate
  <2>5. CASE AssignPolicy(t)
    BY <1>0, <1>1, <2>5 DEF AssignPolicy, Refuse, Finish, Goto, Gated
  <2> QED
    BY <1>9, <2>1, <2>2, <2>3, <2>4, <2>5
<1>10. CASE UNCHANGED vars
  BY <1>10 DEF vars, Tidy, BelongsTo, Holds
<1> QED
  BY <1>3, <1>5, <1>6, <1>7, <1>8, <1>9, <1>10 DEF Next, WriteFails

\* However many clients create, activate, register and assign at once: unless a
\* process dies or the disk fails, nothing half-written is ever left
\* (write_new, fs.py:161-172).
THEOREM DebrisNeedsAFault ==
    ASSUME Mortal = {}, DiskMayFail = FALSE
    PROVE  Spec => []WholeWhenIdle
<1>1. Init => Tidy
  BY RuleAssumption DEF Init, Tidy, EmptyIndex
<1>2. IInv /\ Tidy /\ [Next]_vars => Tidy'
  BY TidyStep
<1>3. IInv /\ Tidy => WholeWhenIdle
  <2> SUFFICES ASSUME IInv, Tidy, owners = {} PROVE NothingTorn
    BY DEF WholeWhenIdle
  <2>1. \A t \in Threads : pc[t] \notin Gated
    BY DEF IInv, OwnerInv
  <2> QED
    BY <2>1, TidyInside DEF Gated
<1> QED
  BY <1>1, <1>2, <1>3, Invariance, PTL DEF Spec

-----------------------------------------------------------------------------
(* What it takes to stop a tightening.  A run shows that two revisions of   *)
(* one name, in the two classes, can make every assignment fail.            *)

\* No revision has a file of its name in the other class.
NoShadow == \A r \in Revisions : file[Portable][r] = Absent \/ file[LocalOnly][r] = Absent

OnlyShadowsStop == NoShadow => TighteningRemainsPossible

\* A registry is there only since a default has been active.
DefaultInv == project.state # "absent" => ActiveDefault # None

LEMMA DefaultStep == ASSUME IInv, DefaultInv, [Next]_vars PROVE DefaultInv'
<1>0. Portable \in Classes /\ DefaultPolicy \in Policies
  BY PolicyAssumption DEF Classes
<1>1. ActiveDefault # None => ActiveDefault' # None
  <2>1. CASE \A c \in Classes : index'[c].active = index[c].active
    BY <1>0, <2>1 DEF ActiveDefault
  <2>2. ASSUME NEW t \in Threads, MovePointer(t), ActiveDefault # None
        PROVE  ActiveDefault' # None
    <3>1. PICK c \in Classes :
             /\ task[t].ref \in Refs
             /\ PolicyOf[task[t].ref.revision] \in Policies
             /\ index'[c].active =
                  [index[c].active EXCEPT ![PolicyOf[task[t].ref.revision]] = task[t].ref]
             /\ \A d \in Classes \ {c} : index'[d] = index[d]
      BY <2>2, MoveFacts
    <3>2. index[c].active \in Pointers
      BY DEF IInv, TypeOK, Indices
    <3> DEFINE q == PolicyOf[task[t].ref.revision]
    <3>3. \/ index'[c].active[DefaultPolicy] = index[c].active[DefaultPolicy]
          \/ index'[c].active[DefaultPolicy] = task[t].ref
      BY <1>0, <3>1, <3>2 DEF Pointers
    <3> QED
      BY <1>0, <2>2, <3>1, <3>3, RefsAreNotNone DEF ActiveDefault
  <2> QED
    BY <2>1, <2>2, PointerStep
<1>2. CASE project.state # "absent"
  BY <1>1, <1>2 DEF DefaultInv
<1>3. ASSUME project.state = "absent", project'.state # "absent" PROVE ActiveDefault # None
  <2>1. PICK t \in Threads : Register(t)
    <3>1. ASSUME NEW t \in Threads, WriteProject(t) \/ ReplaceProject(t) PROVE FALSE
      BY <1>3, <3>1 DEF WriteProject, ReplaceProject, IInv, TaskInv
    <3> QED
      BY <1>3, <3>1 DEF Next, vars, CreateRevision, StartRevision, BootstrapDefault,
         WriteRevision, BootstrapLook, AskActivate, Activate, WriteIndex, MovePointer,
         AskAssign, AssignPolicy, WriteFails, Crash
  <2> QED
    BY <2>1 DEF Register, DefaultLoads, ActiveDefault
<1> QED
  BY <1>1, <1>2, <1>3 DEF DefaultInv

\* registries.py is right that recording a more restrictive ceiling remains
\* possible, unless a local revision takes the name of a portable one: neither
\* kills nor failed writes nor any order of commands can prevent it
\* (_admit_document, registries.py:587-613).
THEOREM OnlyShadowsStopTightening == Spec => []OnlyShadowsStop
<1>1. Init => DefaultInv
  BY DEF Init, DefaultInv
<1>2. IInv /\ DefaultInv /\ [Next]_vars => DefaultInv'
  BY DefaultStep
<1>3. IInv /\ DefaultInv => OnlyShadowsStop
  <2> SUFFICES ASSUME IInv, DefaultInv, NoShadow, project.state = "whole",
                      NEW ref \in Refs, Assignable(ref)
               PROVE  AssignAdmits(ref, project.generation)
    BY DEF OnlyShadowsStop, TighteningRemainsPossible
  <2>1. ASSUME NEW r \in Refs, Holds(Portable, r) PROVE Loads(r)
    <3>1. r.revision \in Revisions /\ r.digest # Absent
      BY RulesAreNotMarks DEF Refs
    <3>2. file[LocalOnly][r.revision] = Absent
      BY <2>1, <3>1 DEF NoShadow, Holds
    <3> QED
      BY <2>1, <3>2 DEF Loads, BelongsTo, Classes
  <2>2. project.receipts \subseteq Refs
    BY DEF IInv, TypeOK, Projects
  <2>3. ProjectReads
    BY <2>1, <2>2 DEF ProjectReads, IInv, ReceiptsKeepTheirRules
  <2>4. Portable \in Classes /\ DefaultPolicy \in Policies
    BY PolicyAssumption DEF Classes
  <2>5. ActiveDefault # None
    BY DEF DefaultInv
  <2>6. ActiveDefault \in Refs /\ Holds(Portable, ActiveDefault)
    <3>1. ActiveDefault \in Refs \cup {None}
      BY <2>4 DEF IInv, TypeOK, Indices, Pointers, ActiveDefault
    <3> QED
      BY <2>4, <2>5, <3>1 DEF IInv, ActivePointersResolve, ActiveDefault
  <2>7. DefaultLoads
    BY <2>1, <2>5, <2>6 DEF DefaultLoads, ActiveDefault
  <2> QED
    BY <2>3, <2>7 DEF AssignAdmits
<1> QED
  BY <1>1, <1>2, <1>3, Invariance, PTL DEF Spec

-----------------------------------------------------------------------------
(* The gate keeps everybody else away from what a command has checked.      *)

AdmissionIsAtomic ==
    [][\A t \in Threads :
         pc[t] \in Gated /\ <<file, index, project>>' # <<file, index, project>> =>
             \/ WriteRevision(t) \/ WriteIndex(t) \/ MovePointer(t)
             \/ WriteProject(t) \/ ReplaceProject(t)]_vars

\* Whatever changes while a command is inside the gate it has changed itself
\* (admission_mutation, policy.py:179-184).
THEOREM GateIsolates == Spec => AdmissionIsAtomic
<1>1. IInv /\ [Next]_vars =>
        [\A t \in Threads :
           pc[t] \in Gated /\ <<file, index, project>>' # <<file, index, project>> =>
               \/ WriteRevision(t) \/ WriteIndex(t) \/ MovePointer(t)
               \/ WriteProject(t) \/ ReplaceProject(t)]_vars
  <2> SUFFICES ASSUME IInv, [Next]_vars, NEW t \in Threads, pc[t] \in Gated,
                      <<file', index', project'>> # <<file, index, project>>
               PROVE  \/ WriteRevision(t) \/ WriteIndex(t) \/ MovePointer(t)
                      \/ WriteProject(t) \/ ReplaceProject(t)
    OBVIOUS
  <2>1. owners = {t} /\ \A u \in Threads : pc[u] \in Gated => u = t
    BY AloneInside
  <2>2. ASSUME NEW u \in Threads,
               \/ CreateRevision(u) \/ BootstrapDefault(u) \/ BootstrapLook(u)
               \/ AskActivate(u) \/ Activate(u) \/ Register(u) \/ AskAssign(u)
               \/ AssignPolicy(u) \/ WriteFails(u)
        PROVE  FALSE
    BY <2>1, <2>2 DEF CreateRevision, StartRevision, BootstrapDefault, BootstrapLook,
       AskActivate, Activate, Refuse, Register, AskAssign, AssignPolicy, WriteFails,
       EnterGate, Gate!AcquireExclusive, Gate!Unlocked, vars
  <2>3. ASSUME NEW u \in Threads,
               \/ WriteRevision(u) \/ WriteIndex(u) \/ MovePointer(u)
               \/ WriteProject(u) \/ ReplaceProject(u)
        PROVE  u = t
    BY <2>1, <2>3 DEF WriteRevision, WriteIndex, MovePointer, WriteProject, ReplaceProject, Gated
  <2> QED
    BY <2>2, <2>3 DEF Next, Crash, vars
<1> QED
  BY <1>1, Invariance, PTL DEF Spec, AdmissionIsAtomic

\* Every change of an index or of the registry is counted by its generation, so
\* that a client that names the generation it has seen names what it has seen.
EveryWriteCounts ==
    [][/\ \A c \in Classes : index[c].state = "whole" /\ index'[c] # index[c] =>
            index'[c].state = "whole" /\ index'[c].generation = index[c].generation + 1
       /\ project.state = "whole" /\ project' # project =>
            project'.state = "whole" /\ project'.generation = project.generation + 1]_vars

\* An assignment inside the gate is to the generation its client named.
AssignInv ==
    \A t \in Threads : pc[t] = "assigning" => task[t].generation = project.generation

LEMMA AssignStep == ASSUME IInv, AssignInv, [Next]_vars PROVE AssignInv'
<1>0. DOMAIN pc = Threads /\ DOMAIN task = Threads /\ task \in [Threads -> Tasks]
  BY DEF IInv, TypeOK
<1> SUFFICES ASSUME NEW t \in Threads, pc'[t] = "assigning"
             PROVE  task'[t].generation = project'.generation
  BY DEF AssignInv
<1>1. ASSUME NEW u \in Threads, AssignPolicy(u)
      PROVE  task'[t].generation = project'.generation
  <2>1. project' = project /\ (u # t => pc'[t] = pc[t] /\ task'[t] = task[t])
    BY <1>0, <1>1 DEF AssignPolicy, Refuse, Finish, Goto
  <2>2. CASE u = t
    <3>1. AssignAdmits(task[t].ref, task[t].generation)
          /\ task' = [task EXCEPT ![t].receipt = {ActiveDefault, task[t].ref}]
      BY <1>0, <1>1, <2>2 DEF AssignPolicy, Refuse, Finish, Goto
    <3>2. task'[t].generation = task[t].generation
      BY <1>0, <3>1 DEF Tasks
    <3> QED
      BY <2>1, <3>1, <3>2 DEF AssignAdmits
  <2> QED
    BY <2>1, <2>2 DEF AssignInv
<1>2. CASE pc'[t] = pc[t] /\ task'[t] = task[t] /\ project' = project
  BY <1>2 DEF AssignInv
<1>3. ASSUME NEW u \in Threads,
             \/ CreateRevision(u) \/ BootstrapDefault(u) \/ WriteRevision(u)
             \/ BootstrapLook(u) \/ AskActivate(u) \/ Activate(u) \/ WriteIndex(u)
             \/ MovePointer(u) \/ AskAssign(u) \/ WriteFails(u)
      PROVE  pc'[t] = pc[t] /\ task'[t] = task[t] /\ project' = project
  <2>1. CASE CreateRevision(u) \/ BootstrapDefault(u) \/ WriteRevision(u)
    BY <1>0, <1>3, <2>1 DEF CreateRevision, BootstrapDefault, StartRevision, WriteRevision,
                            Leave, Finish, Goto, vars
  <2>2. CASE BootstrapLook(u) \/ AskActivate(u) \/ AskAssign(u)
    BY <1>0, <1>3, <2>2 DEF BootstrapLook, AskActivate, AskAssign, Finish, Goto
  <2>3. CASE Activate(u) \/ WriteIndex(u)
    BY <1>0, <1>3, <2>3 DEF Activate, ActivateIn, Refuse, WriteIndex, Leave, Finish, Goto
  <2>4. CASE MovePointer(u) \/ WriteFails(u)
    BY <1>0, <1>3, <2>4 DEF MovePointer, WriteFails, Leave, Finish, Goto
  <2> QED
    BY <1>3, <2>1, <2>2, <2>3, <2>4
<1>4. ASSUME NEW u \in Threads, Register(u) \/ WriteProject(u) \/ ReplaceProject(u)
      PROVE  FALSE
  <2>1. u # t /\ pc[t] = "assigning"
    BY <1>0, <1>4 DEF Register, WriteProject, ReplaceProject, Leave, Finish, Goto
  <2>2. owners = {t} /\ \A v \in Threads : pc[v] \in Gated => v = t
    BY <2>1, AloneInside DEF Gated
  <2> QED
    BY <1>4, <2>1, <2>2 DEF Register, EnterGate, Gate!AcquireExclusive, Gate!Unlocked,
                            WriteProject, ReplaceProject, Gated
<1>5. ASSUME NEW p \in Mortal, Crash(p)
      PROVE  pc'[t] = pc[t] /\ task'[t] = task[t] /\ project' = project
  BY <1>5 DEF Crash
<1>6. CASE UNCHANGED vars
  BY <1>2, <1>6 DEF vars
<1> QED
  BY <1>1, <1>2, <1>3, <1>4, <1>5, <1>6 DEF Next

LEMMA CountStep ==
    ASSUME IInv, AssignInv, [Next]_vars
    PROVE  /\ \A c \in Classes : index[c].state = "whole" /\ index'[c] # index[c] =>
                index'[c].state = "whole" /\ index'[c].generation = index[c].generation + 1
           /\ project.state = "whole" /\ project' # project =>
                project'.state = "whole" /\ project'.generation = project.generation + 1
<1>1. ASSUME NEW c \in Classes, index[c].state = "whole", index'[c] # index[c]
      PROVE  index'[c].state = "whole" /\ index'[c].generation = index[c].generation + 1
  <2>1. ASSUME NEW t \in Threads, MovePointer(t)
        PROVE  index'[c].state = "whole" /\ index'[c].generation = index[c].generation + 1
    BY <1>1, <2>1, MoveFacts
  <2>2. ASSUME NEW t \in Threads, WriteIndex(t) PROVE FALSE
    <3>1. task[t].ref \in Refs
      BY <2>2 DEF IInv, TaskInv, WriteIndex
    <3>2. PICK d \in Classes : BelongsTo(d, task[t].ref) /\ index[d].state = "torn"
      BY <2>2 DEF IInv, TaskInv, WriteIndex
    <3>3. index' = [index EXCEPT ![d] = EmptyIndex]
      BY <2>2, <3>1, <3>2, TargetIs DEF WriteIndex, IInv
    <3> QED
      BY <1>1, <3>2, <3>3 DEF IInv, TypeOK
  <2>3. ASSUME NEW t \in Threads, Activate(t) PROVE FALSE
    <3>1. \/ UNCHANGED index
          \/ \E d \in Classes : /\ index[d].state = "absent"
                                /\ index' = [index EXCEPT ![d].state = "torn"]
      BY <2>3 DEF Activate, ActivateIn
    <3> QED
      BY <1>1, <3>1 DEF IInv, TypeOK
  <2> QED
    BY <1>1, <2>1, <2>2, <2>3 DEF Next, vars, CreateRevision, StartRevision, BootstrapDefault,
       WriteRevision, BootstrapLook, AskActivate, Register, WriteProject, AskAssign,
       AssignPolicy, ReplaceProject, WriteFails, Crash
<1>2. ASSUME project.state = "whole", project' # project
      PROVE  project'.state = "whole" /\ project'.generation = project.generation + 1
  <2>1. ASSUME NEW t \in Threads, ReplaceProject(t)
        PROVE  project'.state = "whole" /\ project'.generation = project.generation + 1
    BY <1>2, <2>1 DEF ReplaceProject, AssignInv, IInv, TypeOK, Projects
  <2>2. ASSUME NEW t \in Threads, WriteProject(t) \/ Register(t) PROVE FALSE
    BY <1>2, <2>2 DEF WriteProject, Register, IInv, TaskInv
  <2> QED
    BY <1>2, <2>1, <2>2 DEF Next, vars, CreateRevision, StartRevision, BootstrapDefault,
       WriteRevision, BootstrapLook, AskActivate, Activate, WriteIndex, MovePointer,
       AskAssign, AssignPolicy, WriteFails, Crash
<1> QED
  BY <1>1, <1>2

\* A generation that still fits means that nothing was written in between: the
\* compare-and-swap of the index and of the registry has no ABA (activate,
\* policy.py:384-403; assign_project_policy, registries.py:326-346).
THEOREM GenerationsCount == Spec => EveryWriteCounts
<1>1. Init => AssignInv
  BY DEF Init, AssignInv
<1>2. IInv /\ AssignInv /\ [Next]_vars => AssignInv'
  BY AssignStep
<1>3. IInv /\ AssignInv /\ [Next]_vars =>
        [/\ \A c \in Classes : index[c].state = "whole" /\ index'[c] # index[c] =>
              index'[c].state = "whole" /\ index'[c].generation = index[c].generation + 1
         /\ project.state = "whole" /\ project' # project =>
              project'.state = "whole" /\ project'.generation = project.generation + 1]_vars
  BY CountStep
<1> QED
  BY <1>1, <1>2, <1>3, Invariance, PTL DEF Spec, EveryWriteCounts

-----------------------------------------------------------------------------
(* Every command ends.                                                     *)

\* The guards of the actions of a command that go beyond a place.
CanContinue(t) ==
    \/ pc[t] = "bootstrapping"
    \/ pc[t] = "asked" /\ (Activates(t) \/ task[t].op = "assign") /\ Gate!Unlocked
    \/ pc[t] \in Gated /\ t \in owners

NobodyIsStuck ==
    (\E t \in Threads : pc[t] # "idle") => \E t \in Threads : CanContinue(t)

AskedInv == \A t \in Threads : pc[t] = "asked" => Activates(t) \/ task[t].op = "assign"

LEMMA AskedStep == ASSUME IInv, AskedInv, [Next]_vars PROVE AskedInv'
<1>0. DOMAIN pc = Threads /\ task \in [Threads -> Tasks]
  BY DEF IInv, TypeOK
<1> SUFFICES ASSUME NEW t \in Threads, pc'[t] = "asked"
             PROVE  task'[t].op \in {"activate", "bootstrap", "assign"}
  BY DEF AskedInv, Activates
<1>1. CASE pc'[t] = pc[t] /\ task'[t] = task[t]
  BY <1>1 DEF AskedInv, Activates
<1>2. ASSUME NEW u \in Threads,
             \/ CreateRevision(u) \/ BootstrapDefault(u) \/ WriteRevision(u)
             \/ Activate(u) \/ WriteIndex(u) \/ MovePointer(u) \/ Register(u)
             \/ WriteProject(u) \/ AssignPolicy(u) \/ ReplaceProject(u) \/ WriteFails(u)
      PROVE  pc'[t] = pc[t] /\ task'[t] = task[t]
  <2>1. CASE CreateRevision(u) \/ BootstrapDefault(u) \/ WriteRevision(u)
    BY <1>0, <2>1 DEF CreateRevision, BootstrapDefault, StartRevision, WriteRevision,
                      Leave, Finish, Goto, vars
  <2>2. CASE Activate(u) \/ WriteIndex(u) \/ MovePointer(u)
    BY <1>0, <2>2 DEF Activate, ActivateIn, Refuse, WriteIndex, MovePointer, Leave, Finish, Goto
  <2>3. CASE Register(u) \/ WriteProject(u) \/ ReplaceProject(u)
    BY <1>0, <2>3 DEF Register, WriteProject, ReplaceProject, Leave, Finish, Goto
  <2>4. CASE AssignPolicy(u) \/ WriteFails(u)
    BY <1>0, <2>4 DEF AssignPolicy, Refuse, WriteFails, Leave, Finish, Goto
  <2> QED
    BY <1>2, <2>1, <2>2, <2>3, <2>4
<1>3. ASSUME NEW u \in Threads, BootstrapLook(u)
      PROVE  task'[t].op \in {"activate", "bootstrap", "assign"}
  <2>1. CASE u # t
    BY <1>0, <1>1, <1>3, <2>1 DEF BootstrapLook, Finish, Goto
  <2>2. CASE u = t
    <3>1. /\ pc[t] = "bootstrapping"
          /\ task' = [task EXCEPT ![t].generation = index[Portable].generation,
                                  ![t].seen = index[Portable].active]
      BY <1>0, <1>3, <2>2 DEF BootstrapLook, Finish, Goto
    <3>2. task[t].op = "bootstrap" /\ task[t] \in Tasks
      BY <1>0, <3>1 DEF IInv, TaskInv
    <3>3. task'[t] = [task[t] EXCEPT !.generation = index[Portable].generation,
                                     !.seen = index[Portable].active]
      BY <1>0, <3>1
    <3> QED
      BY <3>2, <3>3 DEF Tasks
  <2> QED
    BY <2>1, <2>2
<1>4. ASSUME NEW u \in Threads, AskActivate(u) \/ AskAssign(u)
      PROVE  task'[t].op \in {"activate", "bootstrap", "assign"}
  <2>1. CASE u # t
    BY <1>0, <1>1, <1>4, <2>1 DEF AskActivate, AskAssign, Goto
  <2>2. CASE u = t
    BY <1>0, <1>4, <2>2 DEF AskActivate, AskAssign, NoTask
  <2> QED
    BY <2>1, <2>2
<1>5. ASSUME NEW p \in Mortal, Crash(p) PROVE pc'[t] = pc[t] /\ task'[t] = task[t]
  BY <1>5 DEF Crash
<1>6. CASE UNCHANGED vars
  BY <1>1, <1>6 DEF vars
<1> QED
  BY <1>1, <1>2, <1>3, <1>4, <1>5, <1>6 DEF Next

\* Whoever is inside the gate can leave it, and when nobody is inside whoever
\* waits for it can enter (admission_mutation around policy.py:369-403 and
\* registries.py:267-346).
THEOREM NoDeadlock == Spec => []NobodyIsStuck
<1>1. Init => AskedInv
  BY DEF Init, AskedInv
<1>2. IInv /\ AskedInv /\ [Next]_vars => AskedInv'
  BY AskedStep
<1>3. IInv /\ AskedInv => NobodyIsStuck
  <2> SUFFICES ASSUME IInv, AskedInv, NEW t \in Threads, pc[t] # "idle",
                      \A u \in Threads : ~CanContinue(u)
               PROVE  FALSE
    BY DEF NobodyIsStuck
  <2>1. owners = {}
    BY DEF CanContinue, IInv, OwnerInv, TypeOK
  <2>2. pc[t] = "asked"
    BY <2>1 DEF CanContinue, IInv, OwnerInv, TypeOK, PCs, Gated
  <2> QED
    BY <2>1, <2>2 DEF CanContinue, AskedInv, Gate!Unlocked
<1> QED
  BY <1>1, <1>2, <1>3, Invariance, PTL DEF Spec

\* How many steps a command still takes at most.
Left(place) ==
    CASE place = "idle" -> 0
      [] place \in {"moving", "registering", "assigning"} -> 1
      [] place = "indexing" -> 2
      [] place = "asked" -> 3
      [] place = "bootstrapping" -> 4
      [] place = "writing" -> 5

EveryStepComesCloser ==
    [][\A t \in Threads :
         pc[t] # "idle" /\ pc'[t] # pc[t] =>
             0 <= Left(pc[t])' /\ Left(pc[t])' < Left(pc[t])]_vars

\* Where a command can be after a step of its own.
Moves(place, next) ==
    \/ next = "idle" /\ place # "idle"
    \/ place = "writing" /\ next = "bootstrapping"
    \/ place = "bootstrapping" /\ next = "asked"
    \/ place = "asked" /\ next \in {"indexing", "moving", "assigning"}
    \/ place = "indexing" /\ next = "moving"

LEMMA CommandMoves ==
    ASSUME IInv, [Next]_vars, NEW t \in Threads, pc[t] # "idle", pc'[t] # pc[t]
    PROVE  Moves(pc[t], pc'[t])
<1>0. DOMAIN pc = Threads
  BY DEF IInv, TypeOK
<1>1. ASSUME NEW u \in Threads,
             CreateRevision(u) \/ BootstrapDefault(u) \/ WriteRevision(u) \/ BootstrapLook(u)
      PROVE  Moves(pc[t], pc'[t])
  BY <1>0, <1>1 DEF CreateRevision, BootstrapDefault, StartRevision, WriteRevision,
                    BootstrapLook, Leave, Finish, Goto, Moves, vars
<1>2. ASSUME NEW u \in Threads,
             AskActivate(u) \/ Activate(u) \/ WriteIndex(u) \/ MovePointer(u)
      PROVE  Moves(pc[t], pc'[t])
  BY <1>0, <1>2 DEF AskActivate, Activate, ActivateIn, Refuse, WriteIndex, MovePointer,
                    Leave, Finish, Goto, Moves
<1>3. ASSUME NEW u \in Threads,
             \/ Register(u) \/ WriteProject(u) \/ AskAssign(u) \/ AssignPolicy(u)
             \/ ReplaceProject(u) \/ WriteFails(u)
      PROVE  Moves(pc[t], pc'[t])
  BY <1>0, <1>3 DEF Register, WriteProject, AskAssign, AssignPolicy, Refuse, ReplaceProject,
                    WriteFails, Leave, Finish, Goto, Moves
<1>4. ASSUME NEW p \in Mortal, Crash(p) PROVE Moves(pc[t], pc'[t])
  BY <1>4 DEF Crash, Moves
<1>5. CASE UNCHANGED vars
  BY <1>5 DEF vars
<1> QED
  BY <1>1, <1>2, <1>3, <1>4, <1>5 DEF Next

\* Neither the two admissions of a bootstrap nor a refusal ever goes back
\* (bootstrap_default, policy.py:454-491).
THEOREM CommandsEnd == Spec => EveryStepComesCloser
<1>1. IInv /\ [Next]_vars =>
        [\A t \in Threads : pc[t] # "idle" /\ pc'[t] # pc[t] =>
             0 <= Left(pc[t])' /\ Left(pc[t])' < Left(pc[t])]_vars
  <2> SUFFICES ASSUME IInv, [Next]_vars, NEW t \in Threads, pc[t] # "idle", pc'[t] # pc[t]
               PROVE  0 <= Left(pc'[t]) /\ Left(pc'[t]) < Left(pc[t])
    BY DEF Left
  <2>1. Moves(pc[t], pc'[t])
    BY CommandMoves
  <2>2. pc[t] \in PCs
    BY DEF IInv, TypeOK
  <2> QED
    BY <2>1, <2>2 DEF Moves, Left, PCs
<1> QED
  BY <1>1, Invariance, PTL DEF Spec, EveryStepComesCloser
=============================================================================

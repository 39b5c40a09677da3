----------------------------- MODULE PolicyStore ------------------------------
(***************************************************************************)
(* The policy revisions of a Vault, the index of active revisions of each  *)
(* storage class (PolicyStore, mneme/core/policy.py) and a project registry*)
(* with the policy assigned to it (mneme/core/registries.py).              *)
(*                                                                         *)
(* Every command runs its checks and its write inside the policy admission *)
(* gate, which is exclusive.  What a client expects of an index or a       *)
(* registry is as old as its last look at it, and bootstrap_default looks  *)
(* at the index between two admissions.  A new file is created and then    *)
(* written, so that it is torn if its writer dies; an update replaces the  *)
(* file at once.                                                           *)
(*                                                                         *)
(* A revision is named <policy id>/<revision>; the same name may be taken  *)
(* in both storage classes.  A rule stands for its digest too.  The        *)
(* projects and sources of the Vault are abstracted to one project of the  *)
(* portable tree; a source registry is written and assigned the same way.  *)
(***************************************************************************)
EXTENDS Naturals

CONSTANTS
    Threads,        \* threads that use the Vault
    Procs,          \* their processes
    ProcOf,         \* ProcOf[t] is the process of thread t
    Policies,       \* policy ids
    DefaultPolicy,  \* "vault-default"
    Revisions,      \* names of revisions
    PolicyOf,       \* PolicyOf[r] is the policy that revision r belongs to
    DefaultRevision,\* "vault-default/1"
    Rules,          \* what a revision can say
    DefaultRule,    \* what the bootstrapped default says
    Permissive,     \* rules under which a portable registry is allowed
    Portable,       \* StorageClass.PORTABLE
    LocalOnly,      \* StorageClass.LOCAL_ONLY
    Absent,         \* a revision has no file
    Torn,           \* the file of a revision is half-written
    None,           \* no reference, no task
    Mortal,         \* processes that may die between any two steps
    DiskMayFail,    \* whether a write may fail (a full disk)
    MaxGeneration,  \* bound: generation of an index
    MaxAssignments  \* bound: generation of the project registry

Classes == {Portable, LocalOnly}

ASSUME ProcOfAssumption == ProcOf \in [Threads -> Procs]
ASSUME ClassAssumption == Portable # LocalOnly
ASSUME PolicyAssumption ==
    /\ PolicyOf \in [Revisions -> Policies]
    /\ DefaultRevision \in Revisions
    /\ PolicyOf[DefaultRevision] = DefaultPolicy
ASSUME RuleAssumption ==
    /\ DefaultRule \in Rules
    /\ Permissive \subseteq Rules
    /\ Absent \notin Rules /\ Torn \notin Rules /\ None \notin Rules
    /\ Absent # Torn
ASSUME NoneAssumption ==
    None \notin Classes \cup [revision : Revisions, digest : Rules]
ASSUME MortalAssumption == Mortal \subseteq Procs
ASSUME DiskAssumption == DiskMayFail \in BOOLEAN
ASSUME BoundAssumption == MaxGeneration \in Nat /\ MaxAssignments \in Nat

VARIABLES
    file,       \* file[c][r]: the revision file r of class c
    index,      \* index[c]: .madi/policy-index.yaml of class c
    project,    \* the project registry
    owners,     \* threads inside the policy admission gate
    pc,         \* where each thread is
    task        \* what each thread was asked and has looked up

vars == <<file, index, project, owners, pc, task>>

\* PolicyRef: the identity of a revision that receipts and pointers hold.
Refs == [revision : Revisions, digest : Rules]

Pointers == [Policies -> Refs \cup {None}]

FileStates == {"absent", "torn", "whole"}

Indices ==
    {x \in [state : FileStates, generation : Nat, active : Pointers] :
       (x.state # "whole" \/ x.generation = 0) =>
           x.generation = 0 /\ \A p \in Policies : x.active[p] = None}

\* receipts: what every evaluation of this registry was made with.
Projects ==
    {x \in [state : FileStates, generation : Nat, policy : Refs \cup {None},
            receipts : SUBSET Refs] :
       /\ x.state # "whole" => x.generation = 0 /\ x.receipts = {}
       /\ x.policy # None => x.policy \in x.receipts}

Operations == {"create", "activate", "bootstrap", "register", "assign"}

\* The command, the class it is about (for an activation, the one whose index
\* the client looked at), and the generation and pointers the client knows.
\* Then the references a registry document is evaluated with.
Tasks ==
    [op : Operations \cup {None}, class : Classes \cup {None},
     ref : Refs \cup {None}, generation : Nat, seen : Pointers,
     receipt : SUBSET Refs]

PCs == {"idle", "writing", "bootstrapping", "asked", "indexing", "moving",
        "registering", "assigning"}

Gated == {"writing", "indexing", "moving", "registering", "assigning"}

TypeOK ==
    /\ file \in [Classes -> [Revisions -> Rules \cup {Absent, Torn}]]
    /\ index \in [Classes -> Indices]
    /\ project \in Projects
    /\ owners \subseteq Threads
    /\ pc \in [Threads -> PCs]
    /\ task \in [Threads -> Tasks]

NoPointers == [p \in Policies |-> None]

NoTask ==
    [op |-> None, class |-> None, ref |-> None, generation |-> 0,
     seen |-> NoPointers, receipt |-> {}]

EmptyIndex == [state |-> "whole", generation |-> 0, active |-> NoPointers]

\* The portable tree that Vault.initialize has just made visible: it has an
\* empty index, the local tree has none.
Init ==
    /\ file = [c \in Classes |-> [r \in Revisions |-> Absent]]
    /\ index = [c \in Classes |->
                  IF c = Portable THEN EmptyIndex
                  ELSE [EmptyIndex EXCEPT !.state = "absent"]]
    /\ project = [state |-> "absent", generation |-> 0, policy |-> None,
                  receipts |-> {}]
    /\ owners = {}
    /\ pc = [t \in Threads |-> "idle"]
    /\ task = [t \in Threads |-> NoTask]

Gate == INSTANCE AdmissionLock WITH sharers <- {}

-----------------------------------------------------------------------------
(* What the files say.  A definition whose name starts with Bug is a       *)
(* plausible mistake in the one that follows it; nothing in the            *)
(* specification uses it.                                                  *)

DefaultRef == [revision |-> DefaultRevision, digest |-> DefaultRule]

\* _load_revision returns ref: the file is complete and has ref's digest.
Holds(c, ref) == file[c][ref.revision] = ref.digest

BugTrustsThePath(c, ref) == file[c][ref.revision] # Absent

BugIgnoresOtherClass(c, ref) == Holds(c, ref)

\* _storage_class_for_ref returns c: no class holds another file of that name.
BelongsTo(c, ref) ==
    /\ Holds(c, ref)
    /\ \A d \in Classes \ {c} : file[d][ref.revision] = Absent

\* A client holds only references that create_revision, or a read, returned.
Known == {ref \in Refs : \E c \in Classes : Holds(c, ref)}

\* load_rule(ref) succeeds.
Loads(ref) == \E c \in Classes : BelongsTo(c, ref)

\* load_active(vault-default) succeeds, and so does load_rule of what it returns.
DefaultLoads ==
    LET ref == index[Portable].active[DefaultPolicy] IN
    ref # None /\ Holds(Portable, ref) /\ Loads(ref)

ActiveDefault == index[Portable].active[DefaultPolicy]

\* load_project: the file is complete and each of its receipts can be audited.
ProjectReads ==
    /\ project.state = "whole"
    /\ \A ref \in project.receipts : Loads(ref)

-----------------------------------------------------------------------------
(* The parts of a command.                                                 *)

Goto(t, label) == pc' = [pc EXCEPT ![t] = label]

Finish(t) ==
    /\ Goto(t, "idle")
    /\ task' = [task EXCEPT ![t] = NoTask]

EnterGate(t) == Gate!AcquireExclusive(t)

\* A command that is done, or fails, leaves the gate.
Leave(t) ==
    /\ Gate!ReleaseExclusive(t)
    /\ Finish(t)

\* A command that is refused by its checks: it enters and leaves the gate.
Refuse(t) ==
    /\ Gate!Unlocked
    /\ Finish(t)
    /\ UNCHANGED owners

-----------------------------------------------------------------------------
(* create_revision, and the half of bootstrap_default that calls it.       *)

BugOverwrite(c, r) == TRUE

\* open(..., "x")
MayCreate(c, r) == file[c][r] = Absent

StartRevision(t, op, c, ref) ==
    /\ MayCreate(c, ref.revision)
    /\ EnterGate(t)
    /\ file' = [file EXCEPT ![c][ref.revision] = Torn]
    /\ task' = [task EXCEPT ![t] = [NoTask EXCEPT !.op = op, !.class = c, !.ref = ref]]
    /\ Goto(t, "writing")
    /\ UNCHANGED <<index, project>>

\* The name is free in the class asked for, or the command fails; the other
\* class is not looked at.
CreateRevision(t) ==
    /\ pc[t] = "idle"
    /\ \E c \in Classes, ref \in Refs :
         \/ StartRevision(t, "create", c, ref)
         \/ ~MayCreate(c, ref.revision) /\ Gate!Unlocked /\ UNCHANGED vars

\* bootstrap_default creates the default revision, or finds exactly it; if it
\* finds anything else it fails, which changes nothing.
BootstrapDefault(t) ==
    /\ pc[t] = "idle"
    /\ \/ StartRevision(t, "bootstrap", Portable, DefaultRef)
       \/ /\ Gate!Unlocked
          /\ Holds(Portable, DefaultRef)
          /\ task' = [task EXCEPT ![t] = [NoTask EXCEPT !.op = "bootstrap",
                                            !.class = Portable, !.ref = DefaultRef]]
          /\ Goto(t, "bootstrapping")
          /\ UNCHANGED <<file, index, project, owners>>

WriteRevision(t) ==
    /\ pc[t] = "writing"
    /\ file' = [file EXCEPT ![task[t].class][task[t].ref.revision] = task[t].ref.digest]
    /\ \/ /\ task[t].op = "create"
          /\ Leave(t)
       \/ /\ task[t].op = "bootstrap"
          /\ Gate!ReleaseExclusive(t)
          /\ Goto(t, "bootstrapping")
          /\ UNCHANGED task
    /\ UNCHANGED <<index, project>>

\* Between its two admissions bootstrap_default reads the index; it goes on only
\* if the default policy has no active revision yet.
BootstrapLook(t) ==
    /\ pc[t] = "bootstrapping"
    /\ \/ /\ ActiveDefault = None
          /\ task' = [task EXCEPT ![t].generation = index[Portable].generation,
                                  ![t].seen = index[Portable].active]
          /\ Goto(t, "asked")
       \/ /\ ActiveDefault # None
          /\ Finish(t)
    /\ UNCHANGED <<file, index, project, owners>>

-----------------------------------------------------------------------------
(* activate, for a client and for bootstrap_default.                       *)

\* A client has looked at an index, which it expects to be at generation 0 if
\* there is none, and asks for a revision to be made active.
AskActivate(t) ==
    /\ pc[t] = "idle"
    /\ \E c \in Classes, ref \in Known :
         /\ index[c].state # "torn"
         /\ task' = [task EXCEPT ![t] =
                       [NoTask EXCEPT !.op = "activate", !.class = c, !.ref = ref,
                                      !.generation = index[c].generation,
                                      !.seen = index[c].active]]
    /\ Goto(t, "asked")
    /\ UNCHANGED <<file, index, project, owners>>

BugMoveAtAnyGeneration(t, c) == task[t].generation < MaxGeneration

\* write_cas: the index is at the generation the client expects.  Bound: it can
\* take one more.
MayMove(t, c) ==
    /\ index[c].generation = task[t].generation
    /\ task[t].generation < MaxGeneration

Activates(t) == task[t].op \in {"activate", "bootstrap"}

\* _storage_class_for_ref, then _ensure_index: an index that is absent is
\* created first.
ActivateIn(t, c) ==
    /\ BelongsTo(c, task[t].ref)
    /\ \/ /\ index[c].state = "absent"
          /\ index' = [index EXCEPT ![c].state = "torn"]
          /\ Goto(t, "indexing")
       \/ /\ index[c].state = "whole"
          /\ MayMove(t, c)
          /\ Goto(t, "moving")
          /\ UNCHANGED index

ActivationRefused(t) ==
    \A c \in Classes : BelongsTo(c, task[t].ref) =>
        \/ index[c].state = "torn"
        \/ index[c].state = "whole" /\ ~MayMove(t, c)

Activate(t) ==
    /\ pc[t] = "asked"
    /\ Activates(t)
    /\ \/ /\ EnterGate(t)
          /\ \E c \in Classes : ActivateIn(t, c)
          /\ UNCHANGED task
       \/ /\ ActivationRefused(t)
          /\ Refuse(t)
          /\ UNCHANGED index
    /\ UNCHANGED <<file, project>>

\* The class whose index an activation inside the gate is about.
TargetOf(t) == CHOOSE c \in Classes : BelongsTo(c, task[t].ref)

\* The new index is complete: generation 0, nothing active.
WriteIndex(t) ==
    LET c == TargetOf(t) IN
    /\ pc[t] = "indexing"
    /\ index' = [index EXCEPT ![c] = EmptyIndex]
    /\ \/ /\ task[t].generation = 0 /\ MaxGeneration > 0
          /\ Goto(t, "moving")
          /\ UNCHANGED <<owners, task>>
       \/ /\ ~(task[t].generation = 0 /\ MaxGeneration > 0)
          /\ Leave(t)
    /\ UNCHANGED <<file, project>>

BugKeepsGeneration(x, expected, ref) ==
    [x EXCEPT !.active[PolicyOf[ref.revision]] = ref]

\* One pointer moves, at the generation after the one the client expected.
Moved(x, expected, ref) ==
    [x EXCEPT !.generation = expected + 1,
              !.active[PolicyOf[ref.revision]] = ref]

\* os.replace of the index.
MovePointer(t) ==
    LET c == TargetOf(t) IN
    /\ pc[t] = "moving"
    /\ index' = [index EXCEPT ![c] = Moved(@, task[t].generation, task[t].ref)]
    /\ Leave(t)
    /\ UNCHANGED <<file, project>>

-----------------------------------------------------------------------------
(* The project registry.                                                   *)

\* register_project: the document is evaluated under the active default before
\* its file is created.
Register(t) ==
    /\ pc[t] = "idle"
    /\ project.state = "absent"
    /\ DefaultLoads
    /\ ActiveDefault.digest \in Permissive
    /\ EnterGate(t)
    /\ project' = [project EXCEPT !.state = "torn"]
    /\ task' = [task EXCEPT ![t] = [NoTask EXCEPT !.op = "register",
                                      !.receipt = {ActiveDefault}]]
    /\ Goto(t, "registering")
    /\ UNCHANGED <<file, index>>

WriteProject(t) ==
    /\ pc[t] = "registering"
    /\ project' = [project EXCEPT !.state = "whole", !.receipts = task[t].receipt]
    /\ Leave(t)
    /\ UNCHANGED <<file, index>>

\* A client has looked at the registry and asks for a policy to be assigned.
AskAssign(t) ==
    /\ pc[t] = "idle"
    /\ project.state = "whole"
    /\ project.generation < MaxAssignments
    /\ \E ref \in Known :
         task' = [task EXCEPT ![t] = [NoTask EXCEPT !.op = "assign", !.ref = ref,
                                        !.generation = project.generation]]
    /\ Goto(t, "asked")
    /\ UNCHANGED <<file, index, project, owners>>

\* _validate_assignable_policy
Assignable(ref) == BelongsTo(Portable, ref)

\* assign_project_policy up to its write.  A denied evaluation is recorded, it
\* does not refuse the assignment.
AssignAdmits(ref, generation) ==
    /\ Assignable(ref)
    /\ ProjectReads
    /\ project.generation = generation
    /\ DefaultLoads

BugAssignWithoutGate(t) == owners' = owners \cup {t}

AdmitAssignment(t) == EnterGate(t)

AssignPolicy(t) ==
    /\ pc[t] = "asked"
    /\ task[t].op = "assign"
    /\ \/ /\ AdmitAssignment(t)
          /\ AssignAdmits(task[t].ref, task[t].generation)
          /\ task' = [task EXCEPT ![t].receipt = {ActiveDefault, task[t].ref}]
          /\ Goto(t, "assigning")
       \/ /\ ~AssignAdmits(task[t].ref, task[t].generation)
          /\ Refuse(t)
    /\ UNCHANGED <<file, index, project>>

\* os.replace of the registry: the receipt is added to those it has.
ReplaceProject(t) ==
    /\ pc[t] = "assigning"
    /\ project' = [project EXCEPT !.generation = task[t].generation + 1,
                                  !.policy = task[t].ref,
                                  !.receipts = @ \cup task[t].receipt]
    /\ Leave(t)
    /\ UNCHANGED <<file, index>>

-----------------------------------------------------------------------------
(* The environment.                                                        *)

\* A write fails: a new file stays behind torn, an updated one as it was.
WriteFails(t) ==
    /\ DiskMayFail
    /\ pc[t] \in Gated
    /\ Leave(t)
    /\ UNCHANGED <<file, index, project>>

\* A process dies between any two steps; only its files stay.
Crash(p) ==
    /\ \E t \in Threads : ProcOf[t] = p /\ pc[t] # "idle"
    /\ Gate!Abandon(p)
    /\ pc' = [t \in Threads |-> IF ProcOf[t] = p THEN "idle" ELSE pc[t]]
    /\ task' = [t \in Threads |-> IF ProcOf[t] = p THEN NoTask ELSE task[t]]
    /\ UNCHANGED <<file, index, project>>

Next ==
    \/ \E t \in Threads : \/ CreateRevision(t)
                          \/ BootstrapDefault(t)
                          \/ WriteRevision(t)
                          \/ BootstrapLook(t)
                          \/ AskActivate(t)
                          \/ Activate(t)
                          \/ WriteIndex(t)
                          \/ MovePointer(t)
                          \/ Register(t)
                          \/ WriteProject(t)
                          \/ AskAssign(t)
                          \/ AssignPolicy(t)
                          \/ ReplaceProject(t)
                          \/ WriteFails(t)
    \/ \E p \in Mortal : Crash(p)

Spec == Init /\ [][Next]_vars

-----------------------------------------------------------------------------
(* Safety                                                                  *)

\* An active pointer always names a complete revision of its own class with
\* the digest it was activated with, whatever dies in between: load_active,
\* which every write and every read of the Vault begins with, does not fail.
ActivePointersResolve ==
    \A c \in Classes : \A p \in Policies :
        index[c].active[p] # None =>
            /\ Holds(c, index[c].active[p])
            /\ PolicyOf[index[c].active[p].revision] = p

\* "Never last-write-wins": an activation moves one pointer, and the client that
\* asks for it knew where all pointers of that index were.  In particular a
\* bootstrap never takes the place of an operator's choice it did not see.
PointersMoveAsSeen ==
    [][\A t \in Threads : \A c \in Classes :
         pc[t] = "moving" /\ index'[c].active # index[c].active
           /\ task[t].class = c
         => /\ index[c].active = task[t].seen
            /\ \E p \in Policies :
                 index'[c].active = [index[c].active EXCEPT ![p] = task[t].ref]]_vars

\* The rules that the decisions recorded in the registry were made with never
\* change nor vanish from the portable tree: "a decision can be audited from the
\* current tree" (D3 vault design 10.2).
ReceiptsKeepTheirRules ==
    \A ref \in project.receipts : Holds(Portable, ref)

\* Neither an active pointer nor a recorded decision names a rule that is not
\* there, torn or another one (policy.py:412-425, registries.py:815-835).
NoReferenceDangles == ActivePointersResolve /\ ReceiptsKeepTheirRules

\* A rule that loads stops loading only when someone creates a revision of the
\* same name in the other class; no kill, full disk or race can do it.
RulesLoadUntilShadowed ==
    [][\A ref \in Refs : Loads(ref) /\ ~Loads(ref)' =>
         \E t \in Threads : \E c \in Classes :
             /\ task'[t].op \in {"create", "bootstrap"}
             /\ task'[t].class = c
             /\ task'[t].ref.revision = ref.revision
             /\ ~Holds(c, ref)]_vars

\* Between the evaluation of a registry document and its write the active
\* default cannot move: what is written names the default in force at the write.
WrittenUnderActiveDefault ==
    [][\A t \in Threads :
         pc[t] \in {"registering", "assigning"} /\ project'.state = "whole"
           /\ project' # project
         => ActiveDefault \in task[t].receipt]_vars

\* The store keeps the promise of PolicyLedger.
Ledger == INSTANCE PolicyLedger
              WITH rules <- [c \in Classes |-> [r \in Revisions |->
                                IF file[c][r] \in Rules THEN file[c][r] ELSE None]],
                   active <- [c \in Classes |-> index[c].active],
                   assigned <- project.policy

ImplementsLedger == Ledger!LedgerSpec

\* registries.py, _admit_document: "recording a more restrictive ceiling must
\* remain possible".  When nobody is at work, a person who names a revision of
\* the portable tree, the default being active, and the registry's generation,
\* can assign it.
TighteningRemainsPossible ==
    (owners = {} /\ project.state = "whole") =>
        \A ref \in Refs :
            Assignable(ref) => AssignAdmits(ref, project.generation)
=============================================================================

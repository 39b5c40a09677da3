------------------------------ MODULE Checkpoint ------------------------------
(***************************************************************************)
(* One workstream of a Vault: its registry (workstream.yaml), the immutable*)
(* revision files of its sessions, the policy in force, and the threads    *)
(* that checkpoint sessions and operate on the registry                    *)
(* (mneme/core/sessions.py, mneme/core/registries.py, and the head         *)
(* commands of mneme/core/service.py).                                     *)
(*                                                                         *)
(* A checkpoint is two writes: the revision file is created exclusively,   *)
(* then the registry's head is moved by a compare-and-swap on its          *)
(* generation.  Both happen inside one policy admission snapshot, which    *)
(* checkpoints of the same process share; AdmissionLock says what that     *)
(* guarantees.  Every step a thread takes between two accesses to shared   *)
(* state is an action, so that any other thread may come in between.       *)
(*                                                                         *)
(* Bodies, relations and policy rules are abstracted: of a revision, the   *)
(* parent it names; of the policy, a version number that every change of   *)
(* an applicable rule increases.                                           *)
(***************************************************************************)
EXTENDS Naturals, FiniteSets

CONSTANTS
    Threads,        \* threads that use the Vault
    Procs,          \* their processes
    ProcOf,         \* ProcOf[t] is the process of thread t
    Mortal,         \* the processes that may be killed
    Operators,      \* threads that also run operator commands
    DiskMayFail,    \* whether a write may fail (a full disk)
    Sessions,       \* session ids, each checkpointed by one adapter
    None,           \* no head
    FirstModes,     \* resolution modes the workstream may be created with
    MaxAttempts,    \* CAS attempts of one head addition (three in the code)
    MaxRevision,    \* bound: largest revision number (999999 in the code)
    MaxGeneration,  \* bound: registry generations of one behaviour
    MaxPolicy       \* bound: policy changes of one behaviour

Modes == {"single", "preferred", "parallel"}

\* A closed workstream is checkpointed and operated on exactly like a paused one.
Statuses == {"active", "paused"}

Numbers == 1 .. MaxRevision

HeadRefs == [session : Sessions, revision : Numbers]

Head(s, n) == [session |-> s, revision |-> n]

ASSUME ProcOfAssumption == ProcOf \in [Threads -> Procs]
ASSUME RolesAssumption == Mortal \subseteq Procs /\ Operators \subseteq Threads
ASSUME DiskAssumption == DiskMayFail \in BOOLEAN
ASSUME SessionsAssumption == Sessions # {}
ASSUME NoneAssumption == None \notin HeadRefs
ASSUME ModesAssumption == FirstModes \subseteq {"single", "parallel"}
ASSUME BoundAssumption ==
    /\ MaxAttempts \in Nat \ {0}
    /\ MaxRevision \in Nat \ {0}
    /\ MaxGeneration \in Nat
    /\ MaxPolicy \in Nat

VARIABLES
    file,       \* file[s][n]: state of <session s>/<n>.md on disk
    parents,    \* parents[s][n]: expected_parent recorded in that file
    registry,   \* workstream.yaml
    policy,     \* version of the rules that apply to the workstream
    sharers,    \* threads inside the policy admission snapshot
    pc,         \* where each thread is
    task,       \* what each thread was asked, has seen and has computed
    acked,      \* history: newest revision of each session acknowledged
                \*   to its client since an operator last moved its head
    commands    \* history: operator commands that changed the registry

vars == <<file, parents, registry, policy, sharers, pc, task, acked, commands>>

Registries ==
    [generation : Nat, mode : Modes, status : Statuses,
     heads : SUBSET HeadRefs, preferred : HeadRefs \cup {None}]

\* The fields of a CheckpointRequest, then the local variables of
\* create_revision, add_active_head and the head commands: the registry
\* observed, the revision number, the registry to store, the CAS attempt.
Tasks ==
    [session : Sessions, parent : 0 .. MaxRevision, generation : Nat,
     policy : Nat, seen : Registries, number : Numbers, cand : Registries,
     attempt : 1 .. MaxAttempts]

PCs == {"idle", "asked", "observed", "numbered", "creating", "replacing",
        "adding", "swapping", "storing", "acknowledging", "failing",
        "updating"}

Lock == INSTANCE AdmissionLock WITH owners <- {}

Unlocked == sharers = {}

TypeOK ==
    /\ file \in [Sessions -> [Numbers -> {"absent", "torn", "written"}]]
    /\ parents \in [Sessions -> [Numbers -> 0 .. MaxRevision]]
    /\ registry \in Registries
    /\ policy \in Nat
    /\ sharers \subseteq Threads
    /\ pc \in [Threads -> PCs]
    /\ task \in [Threads -> Tasks]
    /\ acked \in [Sessions -> 0 .. MaxRevision]
    /\ commands \in Nat

FirstRegistry(mode) ==
    [generation |-> 0, mode |-> mode, status |-> "active", heads |-> {},
     preferred |-> None]

NoTask ==
    [session |-> CHOOSE s \in Sessions : TRUE, parent |-> 0, generation |-> 0,
     policy |-> 0, seen |-> FirstRegistry("parallel"), number |-> 1,
     cand |-> FirstRegistry("parallel"), attempt |-> 1]

Init ==
    /\ file = [s \in Sessions |-> [n \in Numbers |-> "absent"]]
    /\ parents = [s \in Sessions |-> [n \in Numbers |-> 0]]
    /\ registry \in {FirstRegistry(mode) : mode \in FirstModes}
    /\ policy = 0
    /\ sharers = {}
    /\ pc = [t \in Threads |-> "idle"]
    /\ task = [t \in Threads |-> NoTask]
    /\ acked = [s \in Sessions |-> 0]
    /\ commands = 0

-----------------------------------------------------------------------------
(* What a workstream registry and a session directory say.  A definition   *)
(* whose name starts with Bug is a plausible mistake in the one that       *)
(* follows it; nothing in the specification uses it.                       *)

\* WorkstreamRegistry.__post_init__: building any other registry raises.
WellFormed(r) ==
    /\ \A h, k \in r.heads : h.session = k.session => h = k
    /\ r.mode = "single" => \A h, k \in r.heads : h = k
    /\ r.mode = "preferred" => r.preferred \in r.heads
    /\ r.mode # "preferred" => r.preferred = None

HeadsOf(r, s) == {h \in r.heads : h.session = s}

\* The revision numbers for which session s has a file, readable or not.
Listed(s) == {n \in Numbers : file[s][n] # "absent"}

\* read_revision: the file is there and parses.
Readable(h) == file[h.session][h.revision] = "written"

\* n is the largest listed number, or 0 where there is none.
IsLast(s, n) ==
    /\ n = 0 \/ n \in Listed(s)
    /\ \A m \in Listed(s) : m <= n

HasGap(s) == \E n \in Listed(s) : \E m \in 1 .. n : m \notin Listed(s)

\* The head the checkpoint of thread t wants to publish.
NewHead(t) == Head(task[t].session, task[t].number)

-----------------------------------------------------------------------------
(* A client asks for a checkpoint.                                         *)

\* What a client can believe the parent to be: the session's active head, or
\* the newest revision it sees, or nothing.
ClientParents(s) ==
    {h.revision : h \in HeadsOf(registry, s)}
        \cup {n \in 0 .. MaxRevision : n = 0 \/ IsLast(s, n)}

\* Bound: the registry changes already asked for fit under MaxGeneration.
RoomForChange ==
    registry.generation + Cardinality({t \in Threads : pc[t] # "idle"})
        < MaxGeneration

\* The service evaluates the rules and builds the request before any lock is
\* taken; the registry generation is the one the client last read.
Ask(t) ==
    /\ pc[t] = "idle"
    /\ RoomForChange
    /\ \E s \in Sessions : \E parent \in ClientParents(s) :
         task' = [task EXCEPT ![t] =
                    [NoTask EXCEPT !.session = s, !.parent = parent,
                                   !.generation = registry.generation,
                                   !.policy = policy]]
    /\ pc' = [pc EXCEPT ![t] = "asked"]
    /\ UNCHANGED <<file, parents, registry, policy, sharers, acked, commands>>

-----------------------------------------------------------------------------
(* create_revision: inside the policy admission snapshot.                  *)

Goto(t, label) == pc' = [pc EXCEPT ![t] = label]

\* An exception unwinds to the end of the snapshot.
Fail(t) ==
    /\ Goto(t, "failing")
    /\ UNCHANGED <<file, parents, registry, task, acked>>

EnterSnapshot(t) == Lock!AcquireShared(t)

\* The request still describes the registry and the policy in force.
RequestIsCurrent(t) ==
    /\ registry.generation = task[t].generation
    /\ policy = task[t].policy

\* The snapshot is entered and the registry read in it.
Observe(t) ==
    /\ pc[t] = "asked"
    /\ EnterSnapshot(t)
    /\ \/ /\ RequestIsCurrent(t)
          /\ task' = [task EXCEPT ![t].seen = registry]
          /\ Goto(t, "observed")
          /\ UNCHANGED <<file, parents, registry, acked>>
       \/ ~RequestIsCurrent(t) /\ Fail(t)
    /\ UNCHANGED <<policy, commands>>

BugSkipUnreadableParent(s, parent) ==
    /\ ~HasGap(s)
    /\ IsLast(s, parent)
    /\ parent < MaxRevision

BugNoLastRevision(s, parent) ==
    /\ ~HasGap(s)
    /\ IsLast(s, parent)
    /\ parent # 0 => Readable(Head(s, parent))

\* _next_revision: the lineage has no gap, its last file can be read, and the
\* request names it as the parent.
NextRevisionAdmits(s, parent) ==
    /\ ~HasGap(s)
    /\ IsLast(s, parent)
    /\ parent # 0 => Readable(Head(s, parent))
    /\ parent < MaxRevision

NextRevision(t) ==
    LET admitted == NextRevisionAdmits(task[t].session, task[t].parent) IN
    /\ pc[t] = "observed"
    /\ \/ /\ admitted
          /\ task' = [task EXCEPT ![t].number = task[t].parent + 1]
          /\ Goto(t, "numbered")
          /\ UNCHANGED <<file, parents, registry, acked>>
       \/ ~admitted /\ Fail(t)
    /\ UNCHANGED <<policy, sharers, commands>>

BugMayOverwrite(h) == TRUE

\* open(..., "x") creates the file only if there is none.
MayCreate(h) == file[h.session][h.revision] = "absent"

Create(t) ==
    LET h == NewHead(t) IN
    /\ pc[t] = "numbered"
    /\ \/ /\ MayCreate(h)
          /\ file' = [file EXCEPT ![h.session][h.revision] = "torn"]
          /\ Goto(t, "creating")
          /\ UNCHANGED <<parents, registry, task, acked>>
       \/ ~MayCreate(h) /\ Fail(t)
    /\ UNCHANGED <<policy, sharers, commands>>

\* The created file stays behind.
WriteFails(t) ==
    /\ DiskMayFail
    /\ pc[t] = "creating"
    /\ Fail(t)
    /\ UNCHANGED <<policy, sharers, commands>>

-----------------------------------------------------------------------------
(* _advance_head                                                           *)

BugReplacesEveryHead(r, old, h) ==
    [r EXCEPT !.heads = {h},
              !.preferred = IF r.preferred = old THEN h ELSE r.preferred]

\* The observed registry with the head of the session replaced by h; a
\* preferred head follows.
Replaced(r, old, h) ==
    [r EXCEPT !.heads = (r.heads \ {old}) \cup {h},
              !.preferred = IF r.preferred = old THEN h ELSE r.preferred]

\* The head of the session is exactly the parent the request names.
HeadIsParent(r, s, parent) ==
    parent # 0 /\ HeadsOf(r, s) = {Head(s, parent)}

\* Nothing shared is read here: the decision rests on the observed registry.
AdvanceHead(t) ==
    LET s == task[t].session
        parent == task[t].parent
        seen == task[t].seen IN
    \/ /\ HeadsOf(seen, s) = {}
       /\ parent = 0
       /\ Goto(t, "adding")
       /\ UNCHANGED task
    \/ /\ HeadIsParent(seen, s, parent)
       /\ task' = [task EXCEPT ![t].cand =
                     Replaced(seen, CHOOSE h \in HeadsOf(seen, s) : TRUE, NewHead(t))]
       /\ Goto(t, "replacing")
    \/ /\ ~(HeadsOf(seen, s) = {} /\ parent = 0)
       /\ ~HeadIsParent(seen, s, parent)
       /\ Goto(t, "failing")
       /\ UNCHANGED task

\* The revision is complete on disk; its head may be published.
Write(t) ==
    LET h == NewHead(t) IN
    /\ pc[t] = "creating"
    /\ file' = [file EXCEPT ![h.session][h.revision] = "written"]
    /\ parents' = [parents EXCEPT ![h.session][h.revision] = task[t].parent]
    /\ AdvanceHead(t)
    /\ UNCHANGED <<registry, policy, sharers, acked, commands>>

-----------------------------------------------------------------------------
(* update_workstream inside a snapshot, down to write_text_cas: compare the *)
(* generation of the file, then replace the file.  ArtifactStore.write_cas  *)
(* joins the two steps by a file lock of the artifact (and write_text_cas   *)
(* by a threading.Lock); a process that dies between them lets go of it.    *)

BugCasLockPerWriter(t) == TRUE

CasLockFree(t) == \A u \in Threads : pc[u] # "storing"

\* The file still has the generation the writer started from.
MayStore(r) == registry.generation = r.generation

Store(r) == registry' = [r EXCEPT !.generation = @ + 1]

Compare(t) ==
    /\ CasLockFree(t)
    /\ MayStore(task[t].cand)
    /\ Goto(t, "storing")
    /\ UNCHANGED <<file, parents, registry, task, acked>>

\* One session's own lineage: a single compare-and-swap, never a merge.
ReplaceHead(t) ==
    /\ pc[t] = "replacing"
    /\ \/ Compare(t)
       \/ CasLockFree(t) /\ ~MayStore(task[t].cand) /\ Fail(t)
    /\ UNCHANGED <<policy, sharers, commands>>

\* os.replace is atomic; before it, the temporary file may fail to be written.
Publish(t) ==
    /\ pc[t] = "storing"
    /\ \/ /\ Store(task[t].cand)
          /\ Goto(t, "acknowledging")
          /\ UNCHANGED <<file, parents, task, acked>>
       \/ DiskMayFail /\ Fail(t)
    /\ UNCHANGED <<policy, sharers, commands>>

-----------------------------------------------------------------------------
(* add_active_head: the bounded structural retry.                          *)

BugIgnoreMovedHeads(base, current, h) ==
    /\ current.mode = base.mode /\ current.status = base.status
    /\ current.preferred = base.preferred
    /\ HeadsOf(current, h.session) \subseteq {h}

\* _is_disjoint_addition: since base, heads were only added, nothing else
\* changed, and the session of h has no other head.
DisjointAddition(base, current, h) ==
    /\ current.mode = base.mode /\ current.status = base.status
    /\ current.preferred = base.preferred
    /\ base.heads \subseteq current.heads
    /\ HeadsOf(current, h.session) \subseteq {h}

\* The candidate is the CURRENT registry and the new head.
Added(r, h) == [r EXCEPT !.heads = @ \cup {h}]

\* The loop body up to the CAS: read the head, reload, prove disjointness,
\* build the registry (which refuses a second head in single mode).
CanAdd(t) ==
    /\ Readable(NewHead(t))
    /\ task[t].seen.generation <= registry.generation
    /\ DisjointAddition(task[t].seen, registry, NewHead(t))
    /\ WellFormed(Added(registry, NewHead(t)))

AddReload(t) ==
    LET h == NewHead(t) IN
    /\ pc[t] = "adding"
    /\ \/ /\ CanAdd(t)
          /\ task' = [task EXCEPT ![t].cand = Added(registry, h)]
          /\ Goto(t, IF h \in registry.heads THEN "acknowledging" ELSE "swapping")
          /\ UNCHANGED <<file, parents, registry, acked>>
       \/ ~CanAdd(t) /\ Fail(t)
    /\ UNCHANGED <<policy, sharers, commands>>

AddSwap(t) ==
    /\ pc[t] = "swapping"
    /\ CasLockFree(t)
    /\ \/ Compare(t)
       \/ /\ ~MayStore(task[t].cand)
          /\ task[t].attempt < MaxAttempts
          /\ task' = [task EXCEPT ![t].attempt = @ + 1]
          /\ Goto(t, "adding")
          /\ UNCHANGED <<file, parents, registry, acked>>
       \/ /\ ~MayStore(task[t].cand)
          /\ task[t].attempt = MaxAttempts
          /\ Fail(t)
    /\ UNCHANGED <<policy, sharers, commands>>

\* The snapshot is released; the client learns the outcome.
Leave(t) ==
    /\ pc[t] \in {"acknowledging", "failing"}
    /\ Lock!ReleaseShared(t)
    /\ Goto(t, "idle")
    /\ acked' = IF pc[t] = "acknowledging"
                  THEN [acked EXCEPT ![task[t].session] =
                          IF @ < task[t].number THEN task[t].number ELSE @]
                  ELSE acked
    /\ task' = [task EXCEPT ![t] = NoTask]
    /\ UNCHANGED <<file, parents, registry, policy, commands>>

-----------------------------------------------------------------------------
(* Operator commands: read and check outside the admission gate, then one  *)
(* gated compare-and-swap (update_workstream).                             *)

Command(t, r) ==
    /\ pc[t] = "idle"
    /\ RoomForChange
    /\ WellFormed(r)
    /\ task' = [task EXCEPT ![t].cand = r]
    /\ Goto(t, "updating")
    /\ UNCHANGED <<file, parents, registry, policy, sharers, acked, commands>>

\* set_active_heads: any readable revisions, one per session.
SelectHeads(t) ==
    \E H \in SUBSET {h \in HeadRefs : Readable(h)} :
        Command(t, [registry EXCEPT !.heads = H])

\* set_preferred_head: one of the active heads; the mode becomes preferred.
PreferHead(t) ==
    \E h \in registry.heads :
        /\ Readable(h)
        /\ Command(t, [registry EXCEPT !.mode = "preferred", !.preferred = h])

\* A lifecycle change through RegistryStore.update_workstream.
SetStatus(t) ==
    \E status \in Statuses \ {registry.status} :
        Command(t, [registry EXCEPT !.status = status])

\* What a client was told of a session is void once a person moved its head.
ApplyUpdate(t) ==
    LET r == task[t].cand IN
    /\ pc[t] = "updating"
    /\ Unlocked
    /\ \/ /\ MayStore(r)
          /\ Store(r)
          /\ acked' = [s \in Sessions |->
                         IF HeadsOf(r, s) = HeadsOf(registry, s) THEN acked[s] ELSE 0]
          /\ commands' = commands + 1
       \/ ~MayStore(r) /\ UNCHANGED <<registry, acked, commands>>
    /\ Goto(t, "idle")
    /\ task' = [task EXCEPT ![t] = NoTask]
    /\ UNCHANGED <<file, parents, policy, sharers>>

BugPolicyUngated == TRUE

PolicyGate == Unlocked

\* A policy revision is activated or assigned: gated like every mutation.
ChangePolicy ==
    /\ PolicyGate
    /\ policy < MaxPolicy
    /\ policy' = policy + 1
    /\ UNCHANGED <<file, parents, registry, sharers, pc, task, acked, commands>>

\* A process dies between any two steps; only its files stay.
Crash(p) ==
    /\ \E t \in Threads : ProcOf[t] = p /\ pc[t] # "idle"
    /\ Lock!Abandon(p)
    /\ pc' = [t \in Threads |-> IF ProcOf[t] = p THEN "idle" ELSE pc[t]]
    /\ task' = [t \in Threads |-> IF ProcOf[t] = p THEN NoTask ELSE task[t]]
    /\ UNCHANGED <<file, parents, registry, policy, acked, commands>>

\* The bounded behaviour is over.
Finished ==
    /\ \A t \in Threads : pc[t] = "idle"
    /\ ~RoomForChange
    /\ UNCHANGED vars

Next ==
    \/ \E t \in Threads : \/ Ask(t)
                          \/ Observe(t)
                          \/ NextRevision(t)
                          \/ Create(t)
                          \/ Write(t)
                          \/ WriteFails(t)
                          \/ ReplaceHead(t)
                          \/ AddReload(t)
                          \/ AddSwap(t)
                          \/ Publish(t)
                          \/ Leave(t)
                          \/ ApplyUpdate(t)
    \/ \E t \in Operators : \/ SelectHeads(t)
                            \/ PreferHead(t)
                            \/ SetStatus(t)
    \/ ChangePolicy
    \/ \E p \in Mortal : Crash(p)
    \/ Finished

Spec == Init /\ [][Next]_vars

-----------------------------------------------------------------------------
(* Safety                                                                  *)

\* The registry never names a head that a reader cannot follow: every active
\* head, and every revision before it, is on disk, complete, and recorded
\* behind its direct predecessor - however writers interleave, fail or die.
HeadsAreReadable ==
    \A h \in registry.heads : \A n \in 1 .. h.revision :
        /\ file[h.session][n] = "written"
        /\ parents[h.session][n] = n - 1

\* What the resolver relies on: one head per session, no choice to make in mode
\* single, a preferred head exactly in mode preferred and then an active one -
\* although four kinds of writers build the registry from what they saw earlier.
RegistryIsConsistent ==
    /\ \A h, k \in registry.heads :
         h.session = k.session \/ registry.mode = "single" => h = k
    /\ registry.mode = "preferred" <=> registry.preferred \in registry.heads

\* A lineage is linear: its files are numbered without a gap, and only the
\* newest can be unreadable.
LineageIsLinear ==
    \A s \in Sessions : \A n \in Listed(s) : \A m \in 1 .. n - 1 :
        file[s][m] = "written"

\* All of it together, at every moment between two writes of anybody: what a
\* reader of the workstream may find never misleads it.
StoreIsConsistent ==
    /\ HeadsAreReadable
    /\ RegistryIsConsistent
    /\ LineageIsLinear

\* No acknowledged checkpoint is lost: until a person moves the head of its
\* session, the registry shows it or a successor of it.
AcknowledgedIsPublished ==
    \A s \in Sessions :
        acked[s] # 0 => \E h \in HeadsOf(registry, s) : h.revision >= acked[s]

\* "no policy assignment can linearize between its canonical admission snapshot
\* and immutable write" (policy_admission_gate), nor before the head moves:
\* what a checkpoint in progress has been admitted under is still in force.
PolicyIsStable ==
    \A t \in Threads :
        pc[t] \notin {"idle", "asked", "failing", "updating"}
            => policy = task[t].policy

\* A written revision is immutable, and no second writer ever gets its number.
RevisionsAreImmutable ==
    [][\A h \in HeadRefs : Readable(h) =>
          /\ Readable(h)'
          /\ parents'[h.session][h.revision] = parents[h.session][h.revision]]_vars

\* The structural retry "cannot overwrite a Session lineage, choose a preferred
\* head, alter lifecycle or policy fields" (ARCHITECTURE.md): compared with what
\* its writer observed, the registry it stores has more heads, a head more than
\* the registry it replaces, and everything else unchanged.
RetryOnlyAddsItsHead ==
    [][\A t \in Threads :
         /\ pc[t] = "storing" /\ task[t].parent = 0
         /\ registry' # registry /\ pc'[t] = "acknowledging"
         =>
            /\ task[t].seen.heads \subseteq registry.heads
            /\ registry'.heads = registry.heads \cup {NewHead(t)}
            /\ registry' = [task[t].seen EXCEPT
                               !.heads = registry'.heads,
                               !.generation = registry'.generation]]_vars

\* The workstream keeps the promise of SessionLineage.
Lineage == INSTANCE SessionLineage
               WITH revisions <- {h \in HeadRefs : Readable(h)},
                    heads <- registry.heads,
                    preferred <- registry.preferred,
                    generation <- registry.generation

ImplementsLineage == Lineage!LineageSpec

\* docs/USAGE.md on competing writes: "read the current Registry generation and
\* head again and retry explicitly".  When nobody is at work on the workstream,
\* a client that does so - it names the active head as the parent, or none if
\* its session has no head - gets its revision number, provided the newest file
\* of the session can be read and is not the last number there is.
RetryWithRegistryHeadIsAdmitted ==
    (\A t \in Threads : pc[t] = "idle") =>
        \A s \in Sessions : \A last \in 0 .. MaxRevision - 1 :
            IsLast(s, last) /\ (last # 0 => Readable(Head(s, last))) =>
                IF HeadsOf(registry, s) = {}
                  THEN NextRevisionAdmits(s, 0)
                  ELSE \E h \in HeadsOf(registry, s) :
                           NextRevisionAdmits(s, h.revision)
=============================================================================

-------------------------------- MODULE Memory --------------------------------
(***************************************************************************)
(* The Memory store of a Vault's portable tree (mneme/core/memories.py) and*)
(* the commands of mneme/core/service.py that drive it: candidates are     *)
(* submitted, edited, promoted, superseded and retired by several clients, *)
(* while the policy changes and processes die.                             *)
(*                                                                         *)
(* A command has three parts.  What the client knows of the record it      *)
(* names is as old as its last look at it.  The service then reads the     *)
(* record and evaluates the policy, under no lock.  Only the third part,   *)
(* check and write, runs inside the policy admission gate, which is        *)
(* exclusive; AdmissionLock says what that guarantees.                     *)
(*                                                                         *)
(* A new record is a file that is created and then written; an update is   *)
(* written to a temporary file beside the record, which then replaces it.  *)
(* Every read of a record also reads the whole directory, for the record's *)
(* successor, and fails on a half-written or a temporary file, and on an   *)
(* accepted memory if a rule that its receipt names does not load.  Such a *)
(* rule is a file of the policy store; it stops to load when a revision of *)
(* the same name is created in the other storage class (PolicyStore shows  *)
(* how), which any client may do.                                          *)
(*                                                                         *)
(* Bodies, scopes and provenance are abstracted to a content, the rules    *)
(* that apply to the records to one policy.                                *)
(***************************************************************************)
EXTENDS Naturals

CONSTANTS
    Threads,        \* threads that use the Vault
    Procs,          \* their processes
    ProcOf,         \* ProcOf[t] is the process of thread t
    Ids,            \* memory ids
    Contents,       \* semantic contents (what the semantic hash covers)
    Policies,       \* the policies that can be in force
    Permissive,     \* those under which a portable memory is allowed
    Shadowable,     \* those a rule of which somebody may create once more
    None,           \* no predecessor, no content, nothing yet
    Mortal,         \* processes that may die between any two steps
    DiskMayFail,    \* whether a write may fail (a full disk)
    MaxGeneration   \* bound: generation of a record

ASSUME ProcOfAssumption == ProcOf \in [Threads -> Procs]
ASSUME NoneAssumption == None \notin Ids \cup Contents \cup Policies
ASSUME PolicyAssumption == Permissive \subseteq Policies /\ Shadowable \subseteq Policies
ASSUME MortalAssumption == Mortal \subseteq Procs
ASSUME DiskAssumption == DiskMayFail \in BOOLEAN
ASSUME BoundAssumption == MaxGeneration \in Nat

VARIABLES
    rec,        \* rec[i]: memory/<i>.md
    leftover,   \* a temporary file was left in the directory by a dead process
    policy,     \* the policy in force
    shadowed,   \* policies a rule of which was created again in the other class
    owners,     \* threads inside the policy admission gate
    pc,         \* where each thread is
    task        \* what each thread was asked, has read and has computed

vars == <<rec, leftover, policy, shadowed, owners, pc, task>>

States == {"absent", "torn", "candidate", "accepted", "retired"}

\* accepted is the accepted_semantic_hash marker: a candidate has none, an
\* accepted memory has one, a retired memory may have one.  receipt is the policy
\* that policy_receipt was evaluated under.
Records ==
    {r \in [state : States, content : Contents \cup {None}, generation : Nat,
            supersedes : Ids \cup {None}, accepted : BOOLEAN,
            receipt : Policies \cup {None}] :
       /\ r.state = "accepted" => r.accepted
       /\ r.accepted => r.state \in {"accepted", "retired"}}

Operations == {"submit", "supersede", "edit", "promote", "retire"}

\* The command: its operation, the record it names (the predecessor, for
\* supersede), and the generation and content of it that the client knows.
\* Then the receipt: the content it binds, and the policy it was evaluated
\* under.  Then the file a new record is written to.
Tasks ==
    [op : Operations \cup {None}, id : Ids \cup {None}, generation : Nat,
     reviewed : Contents \cup {None}, content : Contents \cup {None},
     policy : Policies \cup {None}, file : Ids \cup {None}]

PCs == {"idle", "asked", "prepared", "admitted", "creating", "replacing"}

Gated == {"admitted", "creating", "replacing"}

TypeOK ==
    /\ rec \in [Ids -> Records]
    /\ leftover \in BOOLEAN
    /\ policy \in Policies
    /\ shadowed \subseteq Policies
    /\ owners \subseteq Threads
    /\ pc \in [Threads -> PCs]
    /\ task \in [Threads -> Tasks]

NoRecord ==
    [state |-> "absent", content |-> None, generation |-> 0,
     supersedes |-> None, accepted |-> FALSE, receipt |-> None]

NoTask ==
    [op |-> None, id |-> None, generation |-> 0, reviewed |-> None,
     content |-> None, policy |-> None, file |-> None]

Init ==
    /\ rec = [i \in Ids |-> NoRecord]
    /\ leftover = FALSE
    /\ policy \in Policies
    /\ shadowed = {}
    /\ owners = {}
    /\ pc = [t \in Threads |-> "idle"]
    /\ task = [t \in Threads |-> NoTask]

Gate == INSTANCE AdmissionLock WITH sharers <- {}

-----------------------------------------------------------------------------
(* What the memory directory says.  A definition whose name starts with    *)
(* Bug is a plausible mistake in the one that follows it; nothing in the   *)
(* specification uses it.                                                  *)

\* The records whose file is complete.
Written == {i \in Ids : rec[i].state \notin {"absent", "torn"}}

\* PolicyStore.load_rule succeeds for every rule of policy p.
Loads(p) == p \notin shadowed

\* _validate_historic_receipt, for every record that is accepted.
ReceiptsLoad == \A i \in Ids : rec[i].state = "accepted" => Loads(rec[i].receipt)

\* iter_records, which every read goes through for the derived link: every
\* entry of the directory is a record that parses, so none is a temporary file
\* of an update, the receipts of the accepted ones still load, and no two name
\* the same predecessor.
StoreReads ==
    /\ \A i \in Ids : rec[i].state # "torn"
    /\ ~leftover
    /\ \A t \in Threads : pc[t] # "replacing"
    /\ ReceiptsLoad
    /\ \A i, j \in Written :
         rec[i].supersedes = rec[j].supersedes /\ rec[i].supersedes # None => i = j

\* MemoryStore.read succeeds.
CanRead(i) == i \in Written /\ StoreReads

\* _derived_successor: who names i as its predecessor, accepted or not.
Successors(i) == {j \in Written : rec[j].supersedes = i}

\* _has_successor: PROFILE leaves i out.
Superseded(i) == \E j \in Successors(i) : rec[j].accepted

-----------------------------------------------------------------------------
(* The client, and the part of the service that runs under no lock.        *)

Goto(t, label) == pc' = [pc EXCEPT ![t] = label]

Refuse(t) ==
    /\ Goto(t, "idle")
    /\ task' = [task EXCEPT ![t] = NoTask]

\* A client has looked at a record and sends a command that names it.  Bound:
\* the record can take one more generation.
Ask(t) ==
    /\ pc[t] = "idle"
    /\ \E op \in Operations \ {"submit"} : \E i \in Written :
         /\ rec[i].generation < MaxGeneration
         /\ task' = [task EXCEPT ![t] =
                       [NoTask EXCEPT !.op = op, !.id = i,
                                      !.generation = rec[i].generation,
                                      !.reviewed = rec[i].content]]
    /\ Goto(t, "asked")
    /\ UNCHANGED <<rec, leftover, policy, shadowed, owners>>

\* The service evaluates the policy in force: its rules load and allow.
Evaluates == Loads(policy) /\ policy \in Permissive

\* submit_memory without a predecessor: nothing is read but the policy.  A
\* client may choose the id of a record that exists already.  (The store's
\* submit_candidate can be given a predecessor too; no command does.)
Submit(t) ==
    /\ pc[t] = "idle"
    /\ Evaluates
    /\ \E i \in Ids : \E c \in Contents :
         task' = [task EXCEPT ![t] =
                    [NoTask EXCEPT !.op = "submit", !.id = i,
                                   !.content = c, !.policy = policy]]
    /\ Goto(t, "prepared")
    /\ UNCHANGED <<rec, leftover, policy, shadowed, owners>>

\* The contents a receipt can be evaluated for: the record's own for a
\* promotion, any for a successor or an edit.
Proposed(t) ==
    IF task[t].op = "promote" THEN {rec[task[t].id].content} ELSE Contents

\* promote_memory and a supersession read the record first.
Prepare(t) ==
    LET ready == /\ task[t].op # "edit" => CanRead(task[t].id)
                 /\ Evaluates IN
    /\ pc[t] = "asked"
    /\ task[t].op # "retire"
    /\ \/ /\ ready
          /\ \E c \in Proposed(t) :
               task' = [task EXCEPT ![t].content = c, ![t].policy = policy]
          /\ Goto(t, "prepared")
       \/ ~ready /\ Refuse(t)
    /\ UNCHANGED <<rec, leftover, policy, shadowed, owners>>

-----------------------------------------------------------------------------
(* Inside the gate: the checks.                                            *)

BugReceiptOfAnyPolicy(t) == TRUE

\* _validate_admission: the rules in force load, and the receipt was evaluated
\* under them.  (It is allowed: Submit and Prepare refuse one that is not.)
ReceiptIsCurrent(t) == Loads(policy) /\ task[t].policy = policy

SubmitAdmits(t) == ReceiptIsCurrent(t)

BugEditAcceptedToo(t) ==
    /\ CanRead(task[t].id)
    /\ rec[task[t].id].state # "retired"
    /\ ReceiptIsCurrent(t)

EditAdmits(t) ==
    /\ CanRead(task[t].id)
    /\ rec[task[t].id].state = "candidate"
    /\ ReceiptIsCurrent(t)

\* The receipt must bind what the record says now.
PromoteAdmits(t) ==
    /\ CanRead(task[t].id)
    /\ rec[task[t].id].state = "candidate"
    /\ task[t].content = rec[task[t].id].content
    /\ ReceiptIsCurrent(t)

BugSupersedeCandidate(t) ==
    /\ CanRead(task[t].id)
    /\ rec[task[t].id].generation = task[t].generation
    /\ Successors(task[t].id) = {}
    /\ ReceiptIsCurrent(t)

\* An ever-accepted predecessor, at the generation the client knows, whose one
\* successor has not been reserved.
SupersedeAdmits(t) ==
    /\ CanRead(task[t].id)
    /\ rec[task[t].id].accepted
    /\ rec[task[t].id].generation = task[t].generation
    /\ Successors(task[t].id) = {}
    /\ ReceiptIsCurrent(t)

RetireAdmits(i, generation) ==
    /\ CanRead(i)
    /\ rec[i].generation = generation
    /\ rec[i].state # "retired"

Admits(t) ==
    /\ task[t].op = "submit" => SubmitAdmits(t)
    /\ task[t].op = "edit" => EditAdmits(t)
    /\ task[t].op = "promote" => PromoteAdmits(t)
    /\ task[t].op = "supersede" => SupersedeAdmits(t)
    /\ task[t].op = "retire" => RetireAdmits(task[t].id, task[t].generation)

\* Ready for the gate: retire evaluates no policy.
AtGate(t) ==
    \/ pc[t] = "prepared"
    \/ pc[t] = "asked" /\ task[t].op = "retire"

EnterGate(t) == Gate!AcquireExclusive(t)

\* The gate is entered, the record read and the checks made; a refused command
\* leaves the gate at once.
Admit(t) ==
    /\ AtGate(t)
    /\ \/ /\ EnterGate(t)
          /\ Admits(t)
          /\ Goto(t, "admitted")
          /\ UNCHANGED task
       \/ /\ Gate!Unlocked
          /\ ~Admits(t)
          /\ Refuse(t)
          /\ UNCHANGED owners
    /\ UNCHANGED <<rec, leftover, policy, shadowed>>

-----------------------------------------------------------------------------
(* Inside the gate: the write, the last of which leaves the gate.          *)

Creates(t) == task[t].op \in {"submit", "supersede"}

Leave(t) ==
    /\ Gate!ReleaseExclusive(t)
    /\ Refuse(t)

\* The file a new record goes to: the client's id, or a new one (mem-<uuid4>).
\* Bound: Ids may run out, and a successor is then refused.
Targets(t) == IF task[t].op = "submit" THEN {task[t].id} ELSE Ids

\* open(..., "x")
Create(t) ==
    /\ pc[t] = "admitted"
    /\ Creates(t)
    /\ \/ \E i \in Targets(t) :
            /\ rec[i].state = "absent"
            /\ rec' = [rec EXCEPT ![i].state = "torn"]
            /\ task' = [task EXCEPT ![t].file = i]
            /\ Goto(t, "creating")
            /\ UNCHANGED owners
       \/ /\ \A i \in Targets(t) : rec[i].state # "absent"
          /\ Leave(t)
          /\ UNCHANGED rec
    /\ UNCHANGED <<leftover, policy, shadowed>>

\* The new record is complete on disk.
Write(t) ==
    /\ pc[t] = "creating"
    /\ rec' = [rec EXCEPT ![task[t].file] =
                 [state |-> "candidate", content |-> task[t].content,
                  generation |-> 0, accepted |-> FALSE, receipt |-> task[t].policy,
                  supersedes |-> IF task[t].op = "supersede" THEN task[t].id ELSE None]]
    /\ Leave(t)
    /\ UNCHANGED <<leftover, policy, shadowed>>

\* A new file stays behind as it is; an update removes its temporary file and
\* leaves the record alone.
WriteFails(t) ==
    /\ DiskMayFail
    /\ pc[t] \in {"creating", "replacing"}
    /\ Leave(t)
    /\ UNCHANGED <<rec, leftover, policy, shadowed>>

BugReplaceAnyGeneration(t) == TRUE

\* write_cas: the file still has the generation the client expects.
MayReplace(t) == rec[task[t].id].generation = task[t].generation

\* mkstemp beside the record, unless the generation has moved.
StartReplace(t) ==
    /\ pc[t] = "admitted"
    /\ ~Creates(t)
    /\ \/ /\ MayReplace(t)
          /\ Goto(t, "replacing")
          /\ UNCHANGED <<owners, task>>
       \/ /\ ~MayReplace(t)
          /\ Leave(t)
    /\ UNCHANGED <<rec, leftover, policy, shadowed>>

Edited(r, c, p) == [r EXCEPT !.content = c, !.receipt = p]

BugPromoteForgetsMarker(r, p) == [r EXCEPT !.state = "accepted", !.receipt = p]

Promoted(r, p) == [r EXCEPT !.state = "accepted", !.accepted = TRUE, !.receipt = p]

BugRetireForgetsAcceptance(r) ==
    [r EXCEPT !.state = "retired", !.accepted = FALSE]

Retired(r) == [r EXCEPT !.state = "retired"]

Updated(t, r) ==
    CASE task[t].op = "edit" -> Edited(r, task[t].content, task[t].policy)
      [] task[t].op = "promote" -> Promoted(r, task[t].policy)
      [] task[t].op = "retire" -> Retired(r)

\* os.replace: the next generation is the one after the client's.
Replace(t) ==
    LET i == task[t].id IN
    /\ pc[t] = "replacing"
    /\ rec' = [rec EXCEPT ![i] = [Updated(t, @) EXCEPT
                                    !.generation = task[t].generation + 1]]
    /\ Leave(t)
    /\ UNCHANGED <<leftover, policy, shadowed>>

-----------------------------------------------------------------------------
(* The environment.                                                        *)

\* A policy revision is activated, or assigned to a project, source or
\* workstream of the records: gated like every mutation.  An earlier revision
\* may be activated again, one that does not load may not.
ChangePolicy ==
    /\ Gate!Unlocked
    /\ \E p \in Policies \ {policy} : (Loads(policy) => Loads(p)) /\ policy' = p
    /\ UNCHANGED <<rec, leftover, shadowed, owners, pc, task>>

\* A revision that some policies name is created in the other storage class
\* too: create_revision looks for it in its own class only.
Shadow ==
    /\ Gate!Unlocked
    /\ \E hit \in SUBSET (Shadowable \ shadowed) :
         hit # {} /\ shadowed' = shadowed \cup hit
    /\ UNCHANGED <<rec, leftover, policy, owners, pc, task>>

\* A process dies between any two steps; only its files stay.
Crash(p) ==
    /\ \E t \in Threads : ProcOf[t] = p /\ pc[t] # "idle"
    /\ Gate!Abandon(p)
    /\ leftover' = (leftover \/ \E t \in Threads : ProcOf[t] = p /\ pc[t] = "replacing")
    /\ pc' = [t \in Threads |-> IF ProcOf[t] = p THEN "idle" ELSE pc[t]]
    /\ task' = [t \in Threads |-> IF ProcOf[t] = p THEN NoTask ELSE task[t]]
    /\ UNCHANGED <<rec, policy, shadowed>>

Next ==
    \/ \E t \in Threads : \/ Ask(t)
                          \/ Submit(t)
                          \/ Prepare(t)
                          \/ Admit(t)
                          \/ Create(t)
                          \/ Write(t)
                          \/ WriteFails(t)
                          \/ StartReplace(t)
                          \/ Replace(t)
    \/ ChangePolicy
    \/ Shadow
    \/ \E p \in Mortal : Crash(p)

Spec == Init /\ [][Next]_vars

-----------------------------------------------------------------------------
(* Safety                                                                  *)

\* A memory has at most one successor, whoever asks for one and when, and only
\* what has once been accepted has one ("an ever-accepted memory", "a reserved
\* successor"): two would make every read of the store fail for ever.
OneSuccessor ==
    /\ \A i, j \in Written :
         rec[i].supersedes = rec[j].supersedes /\ rec[i].supersedes # None => i = j
    /\ \A i \in Written :
         rec[i].supersedes # None =>
             rec[i].supersedes \in Written /\ rec[rec[i].supersedes].accepted

\* What is accepted is what the client that promoted it had reviewed, even if
\* the candidate was edited after its look or after the service evaluated it.
AcceptedAsReviewed ==
    [][\A t \in Threads : \A i \in Ids :
         ~rec[i].accepted /\ rec'[i].accepted
           /\ pc[t] = "replacing" /\ pc'[t] = "idle"
         => task[t].id = i /\ rec'[i].content = task[t].reviewed]_vars

\* Between its check and its write a command cannot lose the policy it was
\* admitted under: whatever is submitted, edited or accepted is allowed by the
\* policy in force at the moment it is written.
WrittenUnderPolicy ==
    [][\A i \in Written' :
         i \notin Written \/ rec'[i].content # rec[i].content
            \/ (rec'[i].accepted /\ ~rec[i].accepted)
         => policy \in Permissive]_vars

\* A memory that an accepted successor has replaced is never shown again, even
\* when that successor is retired: what was corrected does not come back.
SupersededStaysHidden ==
    [][\A i \in Ids : Superseded(i) => Superseded(i)']_vars

\* The store keeps the promise of MemoryReview ("candidate-first, immutable
\* accepted semantics", PRINCIPLES.md A-5).
Review == INSTANCE MemoryReview
              WITH proposed <- {i \in Ids : rec[i].state = "candidate"},
                   accepted <- {i \in Ids : rec[i].accepted},
                   retired <- {i \in Ids : rec[i].state = "retired"},
                   says <- [i \in Ids |-> rec[i].content],
                   replaces <- [i \in Ids |-> rec[i].supersedes]

ImplementsReview == Review!ReviewSpec

\* docs/INTEGRATION.md: "Remediation can retire a record".  When nobody is at
\* work, a person who names a live memory and its generation can retire it.
RemediationIsPossible ==
    owners = {} =>
        \A i \in Written :
            rec[i].state # "retired" => RetireAdmits(i, rec[i].generation)
=============================================================================

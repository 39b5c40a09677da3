# Verification of mneme

mneme keeps the long-term memory of one person's AI assistants in a *Vault*: a
portable directory tree of Markdown and YAML files that several processes (an
MCP server, command line tools, editor hooks) read and write at the same time,
next to a machine-local tree with locks, caches and bindings. There is no
database and no daemon. What makes it correct is discipline: exclusive file
creation, atomic replacement, generation numbers, and one reader/writer gate
that puts every policy change in one order with every write the policy governs.

This directory models that discipline in TLA+, checks it with TLC on small
instances and proves its safety with TLAPS for all instances.

## 1. Inventory

| Part | Source | State it keeps | Operations | Interacts with |
|---|---|---|---|---|
| Admission gate | `core/policy.py:50-184` | per process: writer, readers, waiting writers, reader's file guard; per thread: nesting depth; one lock file | `policy_admission_gate`, `policy_admission_snapshot`, re-entry | every mutation below runs inside it |
| Session checkpoints | `core/sessions.py` | immutable revision files `<session>/<n>.md` | `create_revision` (policy check, number, write, head) | gate (shared), registry |
| Registries | `core/registries.py` | `workstream.yaml`: generation, mode, status, heads, preferred head; project and source registries | `add_active_head` with bounded retry, `update_workstream`, assign policy | gate (exclusive, or nested in a snapshot), CAS |
| CAS writes | `core/fs.py`, `core/storage.py` | files, per-artifact lock files, per-process locks | `write_new`, `write_cas`, `replace_text`, view store | used by all stores |
| Memory store | `core/memories.py` | `memory/<id>.md`: status, content, generation, predecessor, acceptance marker | submit, edit, promote, supersede, retire, PROFILE | gate (exclusive), CAS |
| Policy store | `core/policy.py:299-650` | immutable policy revisions, an active-pointer index per storage class | create revision, activate, bootstrap default | gate (exclusive), CAS |
| Policy evaluation | `core/policy.py:655-1027` | none | ceiling of a set of rules, re-evaluation of a receipt | all writers, authorizer |
| Vault | `core/vault.py` | the two root directories | initialize (staged), open, open or bootstrap local state | policy store |
| Core service | `core/service.py` | none of its own | commands; recall, context, profile under the gate | all stores, index, authorizer |
| Authorizer | `core/security.py` | none | is an artifact, or a tree, allowed outward under the policy of now | recall, context, sync |
| Search index | `core/search/` | a generated SQLite file | rebuild, query, staleness check | recall |
| Views | `core/context.py`, `ViewStore` | `CURRENT.md`, `PROFILE.md` and their authorization files | write, load | authorizer |
| Resolver | `core/resolver.py` | none | which head a workstream resolves to | context |
| Git transport | `core/git_sync.py` | the Git repository of the portable tree | preflight, commit paths, fast-forward check, push | authorizer, doctor |
| Sources | `core/sources/` | local binding file | bind, resolve | recall |
| Doctor | `core/doctor.py` | none | is a tree sound | Git transport |
| Legacy migration | `migration/legacy.py` | `legacy-migration.lock`, staging directories, published bundles | `stage_legacy` | legacy database and wiki, which others write |
| Adapters | `adapters/` | none | translate hook events for the service | service |
| Growth lab, legacy wiki, transports, CLI, installers, model provider | see PROJECT.json | none of the Vault | - | service |

What is hard here, in one paragraph per kind (PROJECT.json "hazards" has each at
its line):

* **Interleaving and atomicity.** Checkpoints of one process run concurrently in
  one snapshot; operator commands read outside the gate; the service evaluates
  the policy before the gate; compare-and-swap is a read and a replacement.
* **Crashes and full disks.** A checkpoint is two files, a new file exists
  before it is complete, an update leaves a temporary file if its process dies.
* **Retries.** The head addition retries three times against a registry that
  others change; a client retries after a conflict.
* **Liveness.** The gate mixes a condition variable with a file lock that is
  waited for while the condition's mutex is held.
* **Stale knowledge.** A client acts on a generation and a content it read some
  time ago; what it accepts must be what it read. Recall starts from an index
  that may be older than a correction or a tightened policy.
* **Looks without a lock.** Recall, the Git transport and the staging of legacy
  data read things that others change meanwhile, one file, one page or one Git
  command at a time; each compares its looks in its own way before it acts.

What makes each part correct: the gate excludes and neither leaks nor starves
(writers first); heads can always be followed, lineages have no gaps, no
acknowledged checkpoint is lost, the retry adds and never overwrites; a memory
is accepted as reviewed, has one successor, and a correction is not undone;
nothing is written that the policy in force at that moment forbids; a Vault that
was made is never removed by an initialization that fails or comes second;
nothing is shown on the word of an index or a cache; a branch loses no commit and
only checked trees leave by Git; what a staged bundle holds belonged together.

## 2. Modules

| Module | Models | Kind |
|---|---|---|
| `AdmissionLock` | what the gate promises: one owner, or sharers of one process | abstract specification |
| `AdmissionGate` | the gate as written: condition variable, mutex, file lock, re-entry | implements `AdmissionLock` |
| `SessionLineage` | what a workstream promises: linear lineages, heads that move forward or are added, operator moves | abstract specification |
| `Checkpoint` | `create_revision`, registry, CAS, retry, operator commands; instances `AdmissionLock` for the snapshot | implements `SessionLineage` |
| `MemoryReview` | what the Memory store promises: proposed, revised, accepted once, retired | abstract specification |
| `Memory` | the store's commands with the client's look, the ungated evaluation and the gated write; instances `AdmissionLock` for the gate | implements `MemoryReview` |
| `PolicyLedger` | what the policy store promises: rules published once, pointers that name a published rule of their own class | abstract specification |
| `PolicyStore` | revisions, active pointers of two storage classes, the bootstrap of the default, a project registry with its receipts; instances `AdmissionLock` for the gate | implements `PolicyLedger` |
| `VaultBootstrap` | `initialize` with its undo, `open_or_bootstrap_local`, the strict `open`; shares nothing but the directories with the others, so it uses no gate | detailed specification |
| `Portability` | the evaluation of a request, the live authorizer and Doctor's verdict, as functions of a tree of files | operators |
| `Projection` | what may be shown of a tree: rows, the views, the verdict a view is bound to | operators, on `Portability` |
| `Recall` | recall, reindex, the views and their two-file cache; instances `AdmissionLock` for the gate | detailed specification, on `Projection` |
| `GitSync` | commit of selected files, fast-forward check and push, next to a person and other clones | detailed specification, on `Portability` |
| `LegacyStaging` | `stage_legacy` next to a database in WAL mode and a wiki that are written | detailed specification |
| `*Proofs` | the theorems | TLAPS |
| `MC*` | threads, processes, sessions, ids, policies for TLC | TLC |

The composition is by contract: `AdmissionGate` is shown to implement
`AdmissionLock`, and `Checkpoint`, `Memory`, `PolicyStore` and `Recall` use the
actions of `AdmissionLock`, not the gate's internals. `Recall` and `GitSync`
share one translation of the authorizer, `Portability`, and everything it says of
a tree it says of the tree at one moment.

### AdmissionGate

`pc` is a thread's place in one of the two context managers; `writer`,
`readers`, `waiting` and `guard` are the fields of `_AdmissionState`, `mutex`
is the condition's lock *while its owner sleeps in the file lock* (everywhere
else a block under the mutex is one step), `flock` the advisory file lock,
`depth` the thread-local nesting depth. Actions: `GateTry`, `GateLock`,
`GateLockFails`, `GateUnlock`, `GateLeave`, `SnapTry`, `SnapLock`,
`SnapLockFails`, `SnapLeave`, `Nest`, `Unnest`, and `Crash` of a process.
`readers` and `waiting_writers` are counters in the code and sets here.

### Checkpoint

One workstream. `file` and `parents` are the revision files, `registry` is
`workstream.yaml`, `policy` a version number of the rules that apply, `sharers`
the threads in the snapshot, `pc`/`task` each thread's place and local
variables. `acked` (what clients were told) and `commands` (operator writes)
are history variables that no guard reads.

| Action | Code |
|---|---|
| `Ask` | the service builds a request from what the client last read |
| `Observe` | snapshot entered, registry read, generation and policy compared |
| `NextRevision`, `Create`, `Write`, `WriteFails` | directory scan; exclusive creation; content; torn file on failure |
| (`Write` ends in) `AdvanceHead` | decides between addition and replacement from the observed registry |
| `AddReload`, `AddSwap` | one round of the structural retry: reload and prove disjointness, CAS |
| `ReplaceHead` | the exact-generation CAS of the session's own head |
| `Publish` | `os.replace` after a successful comparison, or a full disk |
| `SelectHeads`, `PreferHead`, `SetStatus`, `ApplyUpdate` | operator commands: built outside the gate, stored inside |
| `ChangePolicy`, `Crash` | environment |

An operator command reads the registry before it reads the heads it names; the
model reads both at one instant, which is equivalent because the stored
generation must still be the one read. `update_workstream` compares the
generation once itself and once in the CAS; the second subsumes the first. The
temporary file of a registry update that a crash leaves is not modelled: nothing
scans that directory. The immutability of a session's adapter is abstracted by
giving each session one adapter. A change of a workstream's own policy
references through `update_workstream` is not modelled; `ChangePolicy` stands
for changes of every rule that applies.

### Memory

`rec[i]` is `memory/<i>.md` with its state on disk, `leftover` says that a dead
process left a temporary file, `policy` is the policy in force, `owners` the
thread in the gate. A command is `Ask` (the client's look), `Prepare` or
`Submit` (the service's ungated read and evaluation), `Admit` (gate entered,
checks), then `Create` and `Write`, or `StartReplace` and `Replace`. Both
writes are two steps, because every read scans the directory and fails on a
half-written or temporary file (`iter_records`). A read is one step: a read
that fails because of a write in progress changes nothing. `edit_candidate` is a
store operation no service command exposes; it is modelled because the review
guarantee depends on it. The store's `submit_candidate` can be given a
predecessor as well, the service never does (only `supersede` names one), so
`Submit` has none. One storage class and one policy for all records are
modelled.

A read of an accepted memory also loads every rule its receipt names
(`_validate_historic_receipt`), so each record keeps, as `receipt`, the policy it
was evaluated under, and `ReceiptsLoad` is part of `StoreReads`. `Shadow` creates
a revision of such a policy once more in the other storage class, after which it
does not load (`Loads`); `PolicyStore` has the details. It takes the gate like
every creation of a revision, and nothing in the code takes it back.

### PolicyStore

`file[c][r]` is `.madi/policies/<policy>/<revision>.yaml` in storage class `c`
(absent, torn, or saying a rule; a rule stands for its digest), `index[c]` that
class's `policy-index.yaml`, `project` one portable project registry with the
references its admission receipts name, `owners` the thread in the gate,
`pc`/`task` each command's place and what its client knew.

| Action | Code |
|---|---|
| `CreateRevision`, `WriteRevision` | `create_revision`: exclusive creation in the class asked for, content |
| `BootstrapDefault`, `BootstrapLook` | `bootstrap_default`: create or find exactly the default, then the read of the index between its two admissions |
| `AskActivate`, `Activate` | the client's look at an index; `activate`: which class the reference belongs to, the index's creation, the comparison |
| `WriteIndex`, `MovePointer` | content of a first index; `os.replace` of the index |
| `Register`, `WriteProject` | `register_project`: evaluation under the active default, creation, content |
| `AskAssign`, `AssignPolicy`, `ReplaceProject` | `assign_project_policy`: assignable, every receipt auditable, generation, evaluation; replacement with one more receipt |
| `WriteFails`, `Crash` | a full disk; process death |

A client names only references that exist (`Known`): it has them from
`create_revision` or from a read; anything else is refused without effect. One
project stands for all projects and sources of the portable tree, whose
registries are written and assigned the same way. A replacement is one step
here, since nothing scans these directories.

### VaultBootstrap

`root` is the portable tree that all processes are told (absent, whole, being
removed, or an empty directory; whose id; what the revision `vault-default/1`
holds; which default policy is active and whether the index was written since the
bootstrap looked at it; which machines have a local revision of that name),
`local[h][i]` the machine-local tree `<home>/vaults/<id>`, `stage[p]` and
`owned[p]` the staging directories and the `owned` set of an initialization.
`opened`, `made` and `failed` record what commands returned. No lock protects
any of it: what decides a race is the rename of a directory.

| Action | Code |
|---|---|
| `Initialize`, `Stage`, `CheckTargets` | `initialize` up to the second look at the targets (203-265) |
| `RenameLocal`, `RenamePortable` | the two renames, the change of `owned` with each (266-275) |
| `BootstrapDefault` | strict open and `bootstrap_default` (276-279) in three steps: `BootstrapRevision` creates the revision or finds exactly it, `BootstrapLook` reads the index, `BootstrapActivate` activates; each fails where a client was in the way |
| `RemoveStage`, `RemoveLocal`, `RemovePortable`, `RemovalFails`, `Undone` | the except clause (280-283): deepest path first, each removal in its steps |
| `OpenRead`, `OpenLook`, `LinkLocal`, `OpenStrict` | `open_or_bootstrap_local` (82-113): validated candidate, first look, second look and rename, strict open |
| `CreateRevision`, `Activate` | the policies of a client that has opened the Vault, whose initialization may be still under way |
| `Fails`, `Crash` | a directory or file that cannot be made; process death |

Stages carry a fresh id in their name, so nobody else meets them, and those of
dead processes are forgotten. A rename replaces an empty directory and fails on
any other, as rename(2) does. A removal fails only when something was put into
the tree meanwhile; permissions are not modelled. A tree that is being removed
may or may not still pass validation.

### Portability and Projection

A tree is a function from artifacts to contents; a content keeps what leads to a
policy (the rules a registry or the index of active policies names, its project,
workstream, sources and heads) and what it says. A file that any check of a
single file refuses is `Torn`. `Inputs`, `CurrentRules`, `Permits`, `Authorized`,
`Fingerprint` and `TreeAuthorized` follow `security.py` and `policy.py`, `Sound`
follows `doctor.py`, `RenderCurrent`, `RenderProfile`, `Decide` and `Bind` follow
`service.py`, `context.py`, `resolver.py` and `memories.py`. Two lookups that
look alike differ in the code and here: a local source that does not load for any
reason falls back to the portable one (`SourceFile`), a local project only if it
does not exist (`ProjectFile`).

### Recall

`tree` is the Vault with its mounted files, `index` the SQLite index (its state
and its rows, best match first), `cache` the text and authorization file of each
view, `owners` the client in the gate. `moments`, `disturbed`, `touched` and
`tainted` are history variables.

| Action | Code |
|---|---|
| `Ask`, `Search`, `LoadCandidate`, `DecideCandidate`, `ConfirmCandidate` | `_recall`: pages of candidates, and for each the read, the live authorization and the comparison with the row; an index that is missing is rebuilt once |
| `Reindex`, `ScanNext`, `ScanEnds`, `Publish`, `PublishFails` | the rebuild: a scan file by file, the atomic publication under the index lock |
| `AskView`, `TakeGate`, `DecideView`, `RenderView`, `BindView` | CURRENT and PROFILE inside the gate |
| `CompareCache`, `WriteText`, `WriteAuthorization`, `CacheWriteFails` | the view store: compared, then two replacements |
| `EditFile`, `LoseIndex`, `Die` | commands (gated), hands (not gated), a lost index, process death |

A row is confirmed against the file it came from; for a mounted file that takes the
source's registry and the rules it names (`Confirmed`). Recall takes no gate, so
the text, the verdict and the mark of a successor that one row rests on may be of different moments of the call: `NothingStaleIsShown`
says exactly that and no more. A stronger form with a single moment does not
hold once three changes happen during a call. That a rebuild between two pages
can show one row twice or skip one is left open as well; no document claims
otherwise, and `UndisturbedCalls` excludes it for a call that is left alone. The
staleness of an index is not detected by the code, and an index that a
rebuild left invalid stays so until the next rebuild. Local artifacts are not indexed.
Rendering is one step, because commands are kept out by the gate; a hand that
edits files meanwhile can make the cached view a mixture, so `CachedViewsAreCurrent`
excepts views written during such an edit (`tainted`). The service always renders
and never returns the cache; the property is about other readers of the files.

### GitSync

A commit is the sequence of the trees of its history. `worktree`, `index`,
`head`, `branch`, `upstream`, `tracking` are the shared repository, `remote` the
other side; `loose` is the commit of a detached HEAD. Every scan is a step, and so
is every Git command that looks at HEAD, a ref, an index or the files: where the
code compares branch and commit (`_same_branch_head`), somebody can come between.

| Action | Code |
|---|---|
| `DoctorScan`, `LiveScan` | `sync_preflight`, which all three operations pass: Doctor, then the live authorizer, on the files of the worktree |
| `CommitPaths`, `NameBranch`, `ReadParent`, `ReadEntries`, `AddPath` | `commit_paths` up to the isolated index |
| `ValidateStaged`, `RecheckBranch`, `RecheckHead`, `AdvanceBranch` | Doctor on what was staged, HEAD's branch and commit compared, `commit-tree` and `update-ref` with the old value |
| `CompareEntries`, `UpdateIndex` | the person's index brought up for the committed paths |
| `Push`, `NamePushedBranch`, `ReadUpstream`, `CaptureHead`, `CheckClean`, `CheckBranch`, `CheckHead`, `RecheckPushedBranch`, `RecheckUpstream`, `Send` | `push` of a captured, validated commit; `fast_forward` shares the middle |
| `FastForward`, `CheckRequest`, `Fetch`, `ReadTarget`, `RecheckTargetBranch`, `RecheckTargetUpstream`, `RecheckTarget`, `RecheckClean`, `RecheckTargetHead`, `Decide` | the check before a manual fast-forward |
| `EditFile`, `StageFile`, `CommitByHand`, `ResetByHand`, `CheckOut`, `FastForwardByHand`, `Reconfigure`, `OtherClonePushes` | the person at the command line and other clones |

The commands that read the configuration before a fetch are one step. A mismatching
remote or branch is refused at once and left out. On a detached HEAD only a look at
the branch is refused; a look at the commit (`ReadParent`, `CaptureHead`) finds that
of the detached HEAD, and what a call has captured there need not be any branch's:
the later comparison of the branch, `update-ref` with the old value and the push
without force are what keeps the branches. A failing lock of the person's index is
not modelled. Three windows follow from the code and are left open by the
properties: the update of the person's index can overwrite an entry that is
staged at that very moment, and after a change of branch it reaches the index of
another branch; only the tip of a push is validated, not the commits below it;
and the live authorizer reads the worktree, so that files swapped after
`sync_preflight` are caught only as far as Doctor's verdict on the staged tree
goes. `inspect_sync` reports and changes nothing.

### LegacyStaging

`main` is the database file page by page, `stamp` its modification time, `log`
the write-ahead log beside it, `wiki` the files of the wiki; `lock`, `staging`
and `bundles` are what stagers write. A call follows `Script`, the order of looks
and writes in `stage_legacy`: `Stat`, `ReadPage`, `ReadTables` look at the
database, `ListWiki`, `StatFile`, `HashFile` at the wiki,
`Check` compares, `TakeLock`, `MakeStaging`, `CopyPage`, `ExportTables`,
`WriteManifest`, `Publish`, `WriteFails`, `Clean`, `Die` are the rest. `Commit`,
`CheckpointPage`, `CloseDatabase` and `EditWiki` are the owners of the sources.

A digest stands for the bytes it is taken of, a write changes the modification
time, the wiki is flat, and the hash of one file is one step. The last look for an
existing bundle and the rename are two (`Script` ends with "vacant" and
"publish"), both under the lock. The typed export and the validation of header and
paths are abstracted; what a bundle says of the tables, their classification and
what blocks an item (`portable_action`) is a function of the exported tables and
left out. A file of the wiki is looked at twice, not three times: the `stat` after
the hash (legacy.py:487) asks the same `os.DirEntry` again, which answers from its
cache, so the comparison at 492 never fires. A change during the hash is found by
the next snapshot of the wiki. Each of the
two sources is compared over its own window: the database belongs to the
files a bundle names, and these were all the files there were, but perhaps at
another moment. `BundlesHangTogether` states what the comparisons do give; that
one moment had both is false once there are three changes (the docstring of
`stage_legacy` expects writers to be quiescent or cooperative). A stager
that is killed, or whose removal fails, leaves its staging directory, and nothing
in the code removes it later: `StagingIsAllOrNothing` is about calls that return.

## 3. Runs

| Run | Instance | Shows |
|---|---|---|
| `gate` | 3 threads of a server, 1 of a tool, 2 admissions per thread, nesting 2 | no leak, writer preference, refinement, every admission ends |
| `checkpoint_server` | 1 mortal process, 2 threads, 2 sessions, 2 revisions, 2 attempts, generations to 3, 1 policy change, operators, full disk, both first modes | store consistent, acknowledged heads stay, policy of a checkpoint stable, the retry (with its exhaustion) only adds, refinement |
| `checkpoint_conflict` | 2 threads, 3 revisions | **violation**, see section 6 |
| `memory` | 2 mortal processes, 2 ids, 2 contents, 2 policies, one of which can be shadowed, generations to 2, full disk | one successor, corrections stay, accepted as reviewed, policy at the write, refinement |
| `memory_wedge` | 2 ids, mortal processes | **violation**, see section 6 |
| `policy_store` | 2 mortal processes, 2 revisions of the default (one policy id), 2 rules, 2 classes, full disk | no reference dangles, no blind activation, rules load until shadowed, refinement |
| `policy_shadow` | the same without failures | **violation**, see section 6 |
| `vault_bootstrap` | 3 mortal processes, 2 of them in one home, 2 ids, failing writes, clients that create and activate policies meanwhile | the undo is exact, openers converge, local trees stay |
| `vault_atomicity` | the same without failing writes | **violation**, see section 6 |
| `git_sync` | 1 client, 2 calls, 2 branches, 5 files, 2 steps of a person or another clone, with 3 kinds of edit (a tightened project, a missing head, a removed workstream) | branches only grow, only checked trees are committed or pushed, answers of undisturbed calls are true |
| `recall` | 2 clients (one recalls or views, one reindexes or views), 4 indexed artifacts, 2 rankings, limit 2, 2 edits of 5 kinds or losses of the index; CURRENT with its overlay, PROFILE | nothing stale is shown, undisturbed calls miss nothing, cached views are current, every call comes to an end |
| `legacy_staging` | 2 stagers, 2 pages, 2 wiki files, 1 transaction, 1 edit | what is bundled belonged together, all or nothing |

Bounds. `MaxOps`, `MaxDepth` (gate), `MaxRevision`, `MaxGeneration`, `MaxPolicy`
(workstream), `MaxGeneration` (memory), `MaxGeneration` and `MaxAssignments`
(policy store), `MaxCalls`, `MaxEdits` (Git, recall) and `MaxWrites`, `MaxEdits`,
`MaxCalls` (staging) only cut behaviours off; none is an artefact a property
depends on, and the proofs hold for every value. They are large enough for the
cases that matter: two threads of a process and a foreign one for the group's
file lock; a writer that waits while readers sleep; two sessions so that one is
added while another moves, and two attempts (three in the code) so that a retry
loses to its peer and is exhausted; two revisions so that a head moves; two
memory ids, which become predecessor and successor or rivals; two revisions of
one policy with two possible contents in two classes, so that a name is taken
twice with equal and with different contents and a pointer moves away and back;
two ids so that a second initialization meets what a first one left, and three
processes so that two initialize while one opens, or two open for one machine;
two Git branches so that HEAD moves between a call's looks, and two foreign steps
so that something changes and changes back; a limit of two among four rows, so
that recall needs several pages when rows are withheld; two pages, so that a copy
can be half old. `MaxRevision` also stands for the six digits of a revision's name.
A memory that is submitted, promoted and retired, or edited and promoted, changes
its generation twice, so two suffice for every command to follow every other that
it can follow directly. What three sessions, three memory
ids, two policy ids or two concurrent Git clients add is left to the theorems.

Symmetry: threads of one process, processes with their one thread, memory ids,
contents, Git branches and stagers are interchangeable where a configuration says
so; no run with a symmetry set checks liveness.

Deadlock is checked in every run except two: `legacy_staging`, where everybody simply
ends, and `memory`, where no command can be given any more once the only permissive
policy is shadowed and no record is there to be named. That no command hangs there
is the theorem `NoDeadlock`. `Finished` stutters elsewhere where a bounded behaviour
is over, and only there.

Fairness. `EveryAdmissionEnds` assumes weak fairness of every *started* thread's
next step (`Continue`): the operating system schedules it, the body of a `with`
block ends, and a blocked file lock is granted once it stays free. Nobody must
ask for an admission, and failures and crashes are never obliged. As each
thread asks for finitely many admissions, contention is finite; the run does not
claim that the file lock is fair under endless contention between processes
(`flock` gives no such promise). That recall ends is stated without fairness:
every step of a call, also one that answers an interference, makes a natural
number smaller (`EveryStepComesCloser`), so an infinite call does not exist.

Every property has a mutant (PROJECT.json): a definition named `Bug...` is the
plausible mistake that the property catches. No specification uses one.

## 4. Proofs

Everything in section 3 that is safety is also proved, for any sets of threads,
processes, sessions, ids, policies, and any bounds.

* `AdmissionGateProofs`. The inductive invariant ties the sets to the program
  counters (who is in `readers`, `waiting`, who is `writer`), the file lock to
  its holder (the writer inside, or a group through `guard`), and the mutex to
  the one thread that sleeps in the first reader's file lock. The subtle part is
  that the holder of the group's lock may have left while the group is still
  there: `flock` is tied to the group, not to the thread.
* `CheckpointProofs`. `IInv` has the strands `LockInv` (who is in the snapshot),
  `LineageInv` (files without gaps, parents recorded), `NumberInv` (a thread's
  number is its own: creation is exclusive), `RegistryInv`, `GenerationInv` (a
  candidate's generation is never ahead of the registry's, and between compare
  and replace it equals it), `CandidateInv` (what a candidate contains relative
  to what was observed), `PublishedInv` (acknowledged or about to be), and
  `PolicyIsStable`. The step that needs care is `Publish`: the candidate was
  built from an old registry, and only the generation argument makes it safe.
* `MemoryProofs`. `IInv` says which thread may own the gate, what a thread's task
  holds at each place, that a look is not newer than the record and binds its
  content as long as the generations agree (`LookInv`), and that what `Admit`
  checked still holds at the write (`AdmittedInv`), because the gate is held.
* `PolicyStoreProofs`. `IInv` ties `owners` to the program counters (`AloneInside`:
  one thread between the two halves of a write), says what each task holds at
  its place (an activation inside the gate `BelongsTo` a class, so its file is
  whole and the other class has none), and relates what a client saw to the
  index as long as the generations agree (`SeenInv`, the heart of
  `PointersMoveAsSeen`). Almost everything rests on one lemma, `HoldsStays`: a
  file that says a rule says it for ever, since creation is exclusive and
  content is only written to a file that is torn. The refinement needs, beyond
  that, that a name is checked in both classes by the activation itself.

* `VaultBootstrapProofs`. `IInv` says at each place exactly what a process owns
  (`OwnedAt`), that the portable tree bears a process's id precisely as long as
  it owns that tree (`RootAt`), the same for its local tree (`LocalAt`), that
  the id of an unpublished Vault is known to nobody (`HiddenAt`) and what an
  opener that finds no local tree may conclude (`OpenAt`). The steps fall into
  two kinds, and one lemma serves each: `QuietKeeps` for those that change no
  tree, `TendsKeeps` for those of an initialization, which change the trees of
  its own id only; since ids are drawn once, nobody else's part is disturbed.
* `GitSyncProofs`. `IInv` has the repository's part (`RepoOK`: every branch and a
  detached HEAD have a commit), and for each call `Fits`: which operation may be at a
  place, and what it has captured there,
  such as a staged tree that differs from its base in the call's paths only and
  is sound once validated, or a sound commit to push. It speaks of what the call
  has captured only, so nobody else can disturb it. For
  `UndisturbedCalls` a second invariant says what a call has seen as long as
  nobody else moved.
* `LegacyStagingProofs`. One idea carries it: a thing that was looked at either has
  a newer time now or still is as it was seen (`Holds`, `Lasts`). Two looks with
  equal times and contents therefore enclose an interval without a write. The
  look for sidecars after the copy is the moment of the database with the files
  that are named (`DatabaseMoment`), the second listing of the
  wiki the moment of its files (`ListingMoment`); each is what it is if the
  later looks agree, which the invariant carries as an implication until they do.
* `RecallProofs`. Each step of a call is proved once to lead to a typed place with
  a smaller `Measure` (`StepsTo`, `Closer`); type correctness and termination
  follow. `AllFresh` says what a call's answer so far rests on among the moments
  of the call. `CacheInv` says what a client in the gate and a stored
  authorization were made from: a bound verdict determines the text that is
  rendered (`BoundIsRendered`), so whoever gets the same verdict may use the text.
  `UndisturbedInv` says what a call has collected while files and index are those
  it began with.

Beyond what the runs check, the same invariants give four more families of
theorems. TLC confirmed the temporal ones on the instance of the run before they
were proved.

*Nobody waits for ever on somebody who waits.* `NoDeadlock` (gate, checkpoint,
memory, policy store, staging, recall) say that while somebody is under way
somebody has a next step, and `NobodyHasToWait` (Vault, Git) that each has one.
`CommandsEnd` and `CallsEnd` (checkpoint, Vault, memory, policy store, Git,
staging; `ComesCloser` for recall) say that a step of a call lowers a natural number
or, in staging, goes on in a script without a loop: no retry, undo or re-check goes
round. An initialization with its undo takes at most sixteen steps, a push fifteen,
a fast-forward seventeen, a commit twelve and one for each file. Since the provers
know neither `ENABLED` nor fairness, `CanContinue` writes the guards out; TLC
compared it with `ENABLED` in all reachable states of the small instances.
For the gate a second invariant, `SleepInv`, says whose notification each sleeper
can still count on. Two hypotheses are finiteness: of the wiki's files, and of the
files of a Git tree.

*What it takes to break a promise.* Three of the disagreements of section 6 come
with the theorem that bounds them. `WedgeNeedsAFaultOrAShadow` and
`HalfAVaultNeedsInterference`: where no process is mortal and no write fails (which
is the hypothesis, stated on the two constants), no interleaving of any number of
clients blocks remediation as long as the rules that accepted memories were
evaluated under still load, nor leaves half a Vault unless a client that got in
before the end of the initialization wrote policies: another revision under the
bootstrap's name, a local one of that name, or the index. `OnlyShadowsStopTightening`:
kills and failed writes included, only a name used in both storage classes stops a
more restrictive assignment. `DebrisNeedsAFault` and `NothingRepairs` say of
half-written files of the policy store that only a fault leaves them, and that no command removes them.
The invariants `Tidy` and `CleanInv` say who is busy with each file that is not
whole.

*What the code relies on without checking it.* `CorrectionsAreChains`: the
corrections of memories form no circle. `GenerationsCount`: generations only grow
by one, so the compare-and-swap has no ABA. `GateIsolates` (memory, policy
store): between the check and the write of a command nobody else writes. Of the
authorizer, for every tree and not only the reachable ones: `DamageFailsClosed`
(a file a positive verdict relies on can be lost or torn without opening
anything, except where a local source or project gives way to its portable
namesake, or where an absent memory is not missed) and `MoreRulesAllowLess` (more rules
never allow more; the one exception is the very first rule of a portable
artifact, which is closed while it has none). `NothingAboveItsCeiling` follows from
the same definitions: what the transport commits or pushes contains no session
and no memory above its ceiling, judged by the published tree itself.

*A call fails for a reason.* `RefusedForAReason` (Git) and
`UndisturbedCallsSucceed` (staging) are the converse of the safety properties: a
call that only ever refused would satisfy those. The many re-checks of these
calls compare what was captured with what there is; the theorems say that
without interference none of them is tripped by the call's own steps. The first
needs the invariant of `AnswersAreTrue`, the second a new one, `AllKnown`: what a
call has noted is what is there, as long as nobody has written.

Every temporal theorem combines Init, step and implication by PTL. The four
refinements are proved as step simulations. The constants' assumptions are the
named `ASSUME`s of the modules; none restricts a size. Mutual exclusion
(`MutualExclusion`) is a theorem only: in the runs `ImplementsLock` includes it.
`StoreIsConsistent`, `NoReferenceDangles` and `UndoIsExact` are conjunctions of
named parts.

Model-checked only: `EveryAdmissionEnds` (liveness under fairness is out of the
prover's reach). Everything else the runs check has a theorem.

Still to be proved: an abstract directory of Vaults that `VaultBootstrap` implements
as long as nothing breaks, and the counterpart of `RefusedForAReason` for
checkpoints.

## 5. Not modelled, and why

* **Codecs and validators** of single files (YAML, Markdown, paths, secrets,
  digests): pure functions of a text. Here a file loads or does not.
* **Command line, transports, adapters, installers**: they parse, translate and
  call the service; they keep no state of the Vault. A repeated or concurrent
  call is what the models of the service see.
* **Growth lab, legacy wiki, single-file memory, model provider**: the predecessor
  of the Core and its experiments. Their database and wiki appear as the sources
  that `LegacyStaging` reads.
* **Registration of sources, and the local binding file.** Written and compared
  like the registries of `PolicyStore`; a mounted source is a file of `Recall`.
* **Of the resolver**, the difference between resolved, divergent and degraded, which
  changes wording only; **of the views**, wording and the limits of four heads and
  five memories; **of search**, tokenization and scores (a ranking is any given
  order); **of memories**, relations and scopes other than the one used.
* **Reports** (`inspect_sync`, Doctor's listing, status): read-only.
* **Windows**: the branches of `fs.py` and of the file lock for it.
* **Repair of a torn local policy index** (PROJECT.json, the hazard without a
  property): the code has none and no document promises one; the state is reached
  in `policy_store`.

## 6. Where code and documents disagree

* **A lost race blocks its session** (`checkpoint_conflict`). `docs/USAGE.md`
  tells a client that lost a race to re-read the registry's head and retry. The
  loser's revision file stays, and `_next_revision` wants the last *file* as the
  parent, `_advance_head` the active *head*: no parent satisfies both. An
  operator has to select the orphan as the head.
* **One interrupted write stops remediation** (`memory_wedge`).
  `docs/INTEGRATION.md` promises that remediation can retire a record; every
  read scans the whole directory and rejects a half-written or temporary file of
  *any* memory. There is a second way to the same end in which nothing breaks: an
  accepted memory whose receipt names a revision that is then shadowed (next
  item) cannot be read either. The run excludes it (`Shadowable` is empty), so
  that it shows the first; `WedgeNeedsAFaultOrAShadow` says that there is no third.
* **A revision can be shadowed** (`policy_shadow`). `_admit_document` promises that
  recording a more restrictive ceiling remains possible. A revision created
  under a name that the other storage class already uses makes every reference
  of that name ambiguous or mismatched; a registry whose receipts name it can be
  neither read nor assigned any more.

* **Initialization is not atomic** (`vault_atomicity`). `docs/SETUP-NEW-PC.md`
  says that `Vault.initialize` creates both roots and the default policy
  atomically. The portable root is published before the default policy is
  bootstrapped, and the undo does not run for a process that is killed. What is
  left opens, has no policy, and is refused by `initialize`. A kill is not the only
  way: if a client opened the Vault in between and wrote policies, the bootstrap
  can fail, and an undo that meets a used tree leaves it (`HalfAVaultNeedsInterference`).

## 7. How to run

    tlc -workers 2 -config CheckpointServer.cfg MCCheckpoint
    tlapm CheckpointProofs.tla

Every configuration is named after its run; section 3 gives the instance. The
longest run, `recall`, takes about two minutes.

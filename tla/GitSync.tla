------------------------------- MODULE GitSync -------------------------------
(***************************************************************************)
(* The Git transport of a portable tree (mneme/core/git_sync.py): commits  *)
(* of selected files from an isolated index, the check before a manual     *)
(* fast-forward, and the push of a captured commit, by clients that share  *)
(* one repository with a person at the command line and one remote with    *)
(* other clones.                                                           *)
(*                                                                         *)
(* A commit is the sequence of the trees of its history, so its parent is  *)
(* that sequence without its last tree.  Every Git command that looks at   *)
(* HEAD, the refs, an index or the files is a step of its own, and so is   *)
(* every scan of Doctor and of the live authorizer; the files are added to *)
(* the isolated index one by one.  There is no lock: what a call has read  *)
(* may be different when it acts.                                          *)
(*                                                                         *)
(* Every local branch has an upstream, upstream[b]; a call for another     *)
(* remote or branch is refused before it does anything, and is left out.   *)
(* A detached HEAD has a commit of its own: a look at the commit of HEAD   *)
(* succeeds there, a look at its branch does not.                          *)
(***************************************************************************)
EXTENDS Portability, Sequences

CONSTANTS
    Clients,        \* processes that call the transport
    Artifacts,      \* the files of the portable tree
    Contents,       \* what a file can hold
    FirstTree,      \* the tree of the first commit
    Edits,          \* changes of one file that are made: [file, content]
    Branches,       \* local branches
    Detached,       \* HEAD names no branch
    MaxCalls,       \* bound: calls of each client
    MaxEdits        \* bound: steps of the person and of other clones

Trees == [Artifacts -> Contents]

ASSUME TreeAssumption == Absent \in Contents /\ FirstTree \in Trees
ASSUME EditAssumption == Edits \subseteq [file : Artifacts, content : Contents]
ASSUME BranchAssumption == Detached \notin Branches
ASSUME NumbersAssumption == MaxCalls \in Nat /\ MaxEdits \in Nat

\* Histories, oldest tree first; the empty one stands for none.
Histories == Seq(Trees)

Tip(c) == c[Len(c)]

\* merge-base --is-ancestor
IsAncestor(c, d) ==
    /\ Len(c) <= Len(d)
    /\ c = SubSeq(d, 1, Len(c))

VARIABLES
    worktree,   \* the files
    index,      \* the index of the person
    head,       \* the branch HEAD names, or Detached
    loose,      \* the commit of a detached HEAD
    branch,     \* branch[b] is the commit of a local branch
    upstream,   \* upstream[b] is the remote branch it tracks
    tracking,   \* refs/remotes
    remote,     \* the branches of the remote repository
    pc,         \* a client's place in its call
    task,       \* what its call has captured
    result,     \* what its last call returned
    calls,      \* calls of each client so far
    edits,      \* steps of others so far
    disturbed   \* the clients during or since whose call others changed something

repo == <<worktree, index, head, loose, branch, upstream, tracking, remote>>
vars == <<worktree, index, head, loose, branch, upstream, tracking, remote,
          pc, task, result, calls, edits, disturbed>>

Places == {"idle", "requested", "fetching", "configured", "upstream", "capturing",
           "doctor", "live", "naming", "parent", "entries", "adding", "validating",
           "rechecking", "recheckhead", "advancing", "comparing", "indexing",
           "clean", "same", "samehead", "target", "sameref", "sameup", "sametarget",
           "clean2", "same2", "samehead2", "configured2", "upstream2", "sending"}

Results == {"none", "refused", "committed", "pushed", "up-to-date", "ahead",
            "divergent", "manual"}

\* What a call knows; the last two fields are what it found at its start.
Tasks ==
    [op : {"none", "commit", "push", "forward"},
     paths : SUBSET Artifacts,          \* canonical paths of the commit
     todo : SUBSET Artifacts,           \* those not yet added
     ref : Branches \cup {Detached},    \* the captured branch
     base : Histories,                  \* the captured commit
     up : Branches \cup {Detached},     \* the captured upstream
     before : Trees,                    \* entries of the person's index
     staged : Trees,                    \* the isolated index
     target : Histories,                \* the fetched commit
     wasIndex : Trees, wasHead : Histories]

NoTask == [op |-> "none", paths |-> {}, todo |-> {}, ref |-> Detached,
           base |-> <<>>, up |-> Detached,
           before |-> FirstTree, staged |-> FirstTree, target |-> <<>>,
           wasIndex |-> FirstTree, wasHead |-> <<>>]

\* Where a call relies on the branch and the commit it has captured.
Captured == {"entries", "adding", "validating", "rechecking", "recheckhead",
             "advancing", "comparing", "indexing", "doctor", "live", "clean", "same",
             "samehead", "target", "sameref", "sameup", "sametarget", "clean2",
             "same2", "samehead2", "configured2", "upstream2", "sending"}

TypeOK ==
    /\ worktree \in Trees /\ index \in Trees
    /\ head \in Branches \cup {Detached}
    /\ loose \in Histories /\ loose # <<>>
    /\ branch \in [Branches -> Histories]
    /\ upstream \in [Branches -> Branches]
    /\ tracking \in [Branches -> Histories]
    /\ remote \in [Branches -> Histories]
    /\ pc \in [Clients -> Places]
    /\ task \in [Clients -> Tasks]
    /\ result \in [Clients -> Results]
    /\ calls \in [Clients -> Nat]
    /\ edits \in Nat
    /\ disturbed \subseteq Clients
    /\ \A b \in Branches : branch[b] # <<>> /\ remote[b] # <<>> /\ tracking[b] # <<>>
    /\ \A p \in Clients : pc[p] \in Captured =>
         \/ task[p].op = "commit" /\ pc[p] \in {"doctor", "live"}
         \/ task[p].ref \in Branches /\ task[p].base # <<>>

Init ==
    /\ worktree \in {FirstTree} \cup
           {[FirstTree EXCEPT ![e.file] = e.content] : e \in Edits}
    /\ index = FirstTree
    /\ head \in Branches \cup {Detached}
    /\ loose = <<FirstTree>>
    /\ branch = [b \in Branches |-> <<FirstTree>>]
    /\ upstream = [b \in Branches |-> b]
    /\ tracking = branch /\ remote = branch
    /\ pc = [p \in Clients |-> "idle"]
    /\ task = [p \in Clients |-> NoTask]
    /\ result = [p \in Clients |-> "none"]
    /\ calls = [p \in Clients |-> 0]
    /\ edits = 0
    /\ disturbed = {}

-----------------------------------------------------------------------------
(* Helpers                                                                 *)

\* rev-parse HEAD^{commit}
HeadCommit == IF head = Detached THEN loose ELSE branch[head]

\* status --porcelain prints nothing.
Clean == worktree = index /\ index = Tip(HeadCommit)

\* The two looks of _same_branch_head; the first is also that of _configured_upstream.
SameBranch(p) == head # Detached /\ head = task[p].ref

SameCommit(p) == HeadCommit = task[p].base

\* @{upstream} is the one captured before.
SameUpstream(p) == head # Detached /\ upstream[head] = task[p].up

\* A step on the repository is noticed by the others' calls.
Disturb(p) == disturbed' = disturbed \cup (Clients \ {p})

\* A step that only looks.
Look == UNCHANGED <<repo, calls, edits, disturbed>>

Proceed(p, place, t) ==
    /\ pc' = [pc EXCEPT ![p] = place]
    /\ task' = [task EXCEPT ![p] = t]
    /\ UNCHANGED result

\* What was captured is gone, but for the paths and what the call found.
Return(p, answer) ==
    /\ pc' = [pc EXCEPT ![p] = "idle"]
    /\ result' = [result EXCEPT ![p] = answer]
    /\ task' = [task EXCEPT ![p] =
                   IF answer = "refused"
                     THEN NoTask
                     ELSE [NoTask EXCEPT !.paths = task[p].paths,
                                         !.wasIndex = task[p].wasIndex,
                                         !.wasHead = task[p].wasHead]]

\* A look that goes on with what it captures, or refuses.
Check(p, condition, place, t) ==
    /\ IF condition THEN Proceed(p, place, t) ELSE Return(p, "refused")
    /\ Look

Call(p, t, place) ==
    /\ pc[p] = "idle" /\ calls[p] < MaxCalls
    /\ Proceed(p, place, [t EXCEPT !.wasIndex = index, !.wasHead = HeadCommit])
    /\ calls' = [calls EXCEPT ![p] = @ + 1]
    /\ disturbed' = disturbed \ {p}
    /\ UNCHANGED <<repo, edits>>

-----------------------------------------------------------------------------
(* sync_preflight: the files of the working tree, first by Doctor, then by *)
(* the live authorizer.                                                    *)

DoctorScan(p) ==
    /\ pc[p] = "doctor"
    /\ Check(p, Sound(worktree), "live", task[p])

LiveScan(p) ==
    /\ pc[p] = "live"
    /\ Check(p, TreeAuthorized(worktree),
             IF task[p].op = "commit" THEN "naming" ELSE "clean", task[p])

-----------------------------------------------------------------------------
(* commit_paths                                                            *)

\* The caller names canonical files that are there.
CommitPaths(p) ==
    \E paths \in (SUBSET {a \in Artifacts : worktree[a] # Absent}) \ {{}} :
        Call(p, [NoTask EXCEPT !.op = "commit", !.paths = paths, !.todo = paths],
             "doctor")

BugNameAnyBranch(p) ==
    /\ pc[p] = "naming"
    /\ Proceed(p, "parent", [task[p] EXCEPT !.ref = head])
    /\ Look

\* symbolic-ref refuses a detached HEAD.
NameBranch(p) ==
    /\ pc[p] = "naming"
    /\ Check(p, head # Detached, "parent", [task[p] EXCEPT !.ref = head])

\* HEAD, whatever it names by now, and its tree read into the isolated index.
ReadParent(p) ==
    /\ pc[p] = "parent"
    /\ Proceed(p, "entries",
               [task[p] EXCEPT !.base = HeadCommit, !.staged = Tip(HeadCommit)])
    /\ Look

BugStageOnTopOfIndex(p) ==
    /\ pc[p] = "entries"
    /\ Proceed(p, "adding", [task[p] EXCEPT !.before = index, !.staged = index])
    /\ Look

ReadEntries(p) ==
    /\ pc[p] = "entries"
    /\ Proceed(p, "adding", [task[p] EXCEPT !.before = index])
    /\ Look

\* git add into the isolated index, one file after the other.
AddPath(p) ==
    /\ pc[p] = "adding"
    /\ \E a \in task[p].todo :
         Proceed(p, IF task[p].todo = {a} THEN "validating" ELSE "adding",
                 [task[p] EXCEPT !.staged[a] = worktree[a], !.todo = @ \ {a}])
    /\ Look

\* Regular entries, a difference to the parent, and Doctor on the tree itself.
Committable(p) ==
    /\ \A a \in task[p].paths : task[p].staged[a] # Absent
    /\ task[p].staged # Tip(task[p].base)
    /\ Sound(task[p].staged)

ValidateStaged(p) ==
    /\ pc[p] = "validating"
    /\ Check(p, Committable(p), "rechecking", task[p])

RecheckBranch(p) ==
    /\ pc[p] = "rechecking"
    /\ Check(p, SameBranch(p), "recheckhead", task[p])

RecheckHead(p) ==
    /\ pc[p] = "recheckhead"
    /\ Check(p, SameCommit(p), "advancing", task[p])

BugUpdateRefBlindly(p) == TRUE

\* update-ref with the expected old commit.
RefUnmoved(p) == branch[task[p].ref] = task[p].base

AdvanceBranch(p) ==
    /\ pc[p] = "advancing"
    /\ IF RefUnmoved(p)
         THEN /\ branch' = [branch EXCEPT ![task[p].ref] =
                                Append(task[p].base, task[p].staged)]
              /\ Disturb(p)
              /\ Proceed(p, "comparing", task[p])
              /\ UNCHANGED <<worktree, index, head, loose, upstream, tracking,
                             remote, calls, edits>>
         ELSE Return(p, "refused") /\ Look

\* _synchronize_primary_index: only if the entries are as they were.
CompareEntries(p) ==
    /\ pc[p] = "comparing"
    /\ IF \A a \in task[p].paths : index[a] = task[p].before[a]
         THEN Proceed(p, "indexing", task[p])
         ELSE Return(p, "committed")
    /\ Look

UpdateIndex(p) ==
    /\ pc[p] = "indexing"
    /\ index' = [a \in Artifacts |-> IF a \in task[p].paths THEN task[p].staged[a]
                                                            ELSE index[a]]
    /\ Return(p, "committed")
    /\ Disturb(p)
    /\ UNCHANGED <<worktree, head, loose, branch, upstream, tracking, remote,
                   calls, edits>>

-----------------------------------------------------------------------------
(* fast_forward                                                            *)

FastForward(p) == Call(p, [NoTask EXCEPT !.op = "forward"], "requested")

\* _configured_upstream_request, before anything is fetched.
CheckRequest(p) ==
    /\ pc[p] = "requested"
    /\ Check(p, head # Detached, "fetching", task[p])

Fetch(p) ==
    /\ pc[p] = "fetching"
    /\ tracking' = remote
    /\ Proceed(p, "configured", task[p])
    /\ Disturb(p)
    /\ UNCHANGED <<worktree, index, head, loose, branch, upstream, remote, calls, edits>>

\* The captured target is validated as a commit, not as a checkout.
ReadTarget(p) ==
    /\ pc[p] = "target"
    /\ Check(p, Sound(Tip(tracking[task[p].up])), "sameref",
             [task[p] EXCEPT !.target = tracking[task[p].up]])

\* _configured_upstream again, then the commit of the same reference.
RecheckTargetBranch(p) ==
    /\ pc[p] = "sameref"
    /\ Check(p, SameBranch(p), "sameup", task[p])

RecheckTargetUpstream(p) ==
    /\ pc[p] = "sameup"
    /\ Check(p, SameUpstream(p), "sametarget", task[p])

RecheckTarget(p) ==
    /\ pc[p] = "sametarget"
    /\ Check(p, tracking[task[p].up] = task[p].target, "clean2", task[p])

RecheckClean(p) ==
    /\ pc[p] = "clean2"
    /\ Check(p, Clean, "same2", task[p])

RecheckTargetHead(p) ==
    /\ pc[p] = "same2"
    /\ Check(p, SameBranch(p), "samehead2", task[p])

Relation(c, d) ==
    CASE c = d -> "up-to-date"
      [] IsAncestor(c, d) /\ c # d -> "manual"
      [] IsAncestor(d, c) /\ c # d -> "ahead"
      [] OTHER -> "divergent"

\* Whatever the answer, nothing is applied.
Decide(p) ==
    /\ pc[p] = "samehead2"
    /\ Return(p, IF SameCommit(p) THEN Relation(task[p].base, task[p].target)
                                  ELSE "refused")
    /\ Look

-----------------------------------------------------------------------------
(* push, and what it shares with fast_forward                              *)

Push(p) == Call(p, [NoTask EXCEPT !.op = "push"], "configured")

\* _configured_upstream: the branch, then its upstream or that of another one
\* checked out meanwhile.
NamePushedBranch(p) ==
    /\ pc[p] = "configured"
    /\ Check(p, head # Detached, "upstream", [task[p] EXCEPT !.ref = head])

ReadUpstream(p) ==
    /\ pc[p] = "upstream"
    /\ Check(p, head # Detached, "capturing", [task[p] EXCEPT !.up = upstream[head]])

\* HEAD, whatever it names by now; a push validates its tree first.
CaptureHead(p) ==
    /\ pc[p] = "capturing"
    /\ Check(p, task[p].op = "push" => Sound(Tip(HeadCommit)), "doctor",
             [task[p] EXCEPT !.base = HeadCommit])

CheckClean(p) ==
    /\ pc[p] = "clean"
    /\ Check(p, Clean, "same", task[p])

CheckBranch(p) ==
    /\ pc[p] = "same"
    /\ Check(p, SameBranch(p), "samehead", task[p])

CheckHead(p) ==
    /\ pc[p] = "samehead"
    /\ Check(p, SameCommit(p),
             IF task[p].op = "push" THEN "configured2" ELSE "target", task[p])

RecheckPushedBranch(p) ==
    /\ pc[p] = "configured2"
    /\ Check(p, SameBranch(p), "upstream2", task[p])

RecheckUpstream(p) ==
    /\ pc[p] = "upstream2"
    /\ Check(p, SameUpstream(p), "sending", task[p])

\* The commit that is sent.
BugPushHead(p) == HeadCommit

Sent(p) == task[p].base

\* git push without force: the remote takes a commit that follows its own.
RemoteTakes(old, new) == IsAncestor(old, new)

\* The answer of the remote may be lost after it has taken the commit.
Send(p) ==
    /\ pc[p] = "sending"
    /\ \/ /\ RemoteTakes(remote[task[p].up], Sent(p))
          /\ remote' = [remote EXCEPT ![task[p].up] = Sent(p)]
          /\ \/ /\ Return(p, "pushed")
                /\ tracking' = [tracking EXCEPT ![task[p].up] = Sent(p)]
             \/ Return(p, "refused") /\ UNCHANGED tracking
          /\ Disturb(p)
          /\ UNCHANGED <<worktree, index, head, loose, branch, upstream, calls, edits>>
       \/ Return(p, "refused") /\ Look

-----------------------------------------------------------------------------
(* The person at the command line, checkpoints that write files, and other *)
(* clones                                                                  *)

Other ==
    /\ edits < MaxEdits
    /\ edits' = edits + 1
    /\ disturbed' = Clients
    /\ UNCHANGED <<pc, task, result, calls>>

EditFile ==
    /\ \E e \in Edits :
         /\ worktree[e.file] # e.content
         /\ worktree' = [worktree EXCEPT ![e.file] = e.content]
    /\ UNCHANGED <<index, head, loose, branch, upstream, tracking, remote>>
    /\ Other

StageFile ==
    /\ \E a \in Artifacts :
         /\ index[a] # worktree[a]
         /\ index' = [index EXCEPT ![a] = worktree[a]]
    /\ UNCHANGED <<worktree, head, loose, branch, upstream, tracking, remote>>
    /\ Other

MoveHead(c) ==
    IF head = Detached
      THEN loose' = c /\ UNCHANGED branch
      ELSE branch' = [branch EXCEPT ![head] = c] /\ UNCHANGED loose

\* git commit, of the index or of all files.
CommitByHand ==
    /\ index' \in {index, worktree}
    /\ index' # Tip(HeadCommit)
    /\ MoveHead(Append(HeadCommit, index'))
    /\ UNCHANGED <<worktree, head, upstream, tracking, remote>>
    /\ Other

\* git reset --soft HEAD~1
ResetByHand ==
    /\ Len(HeadCommit) > 1
    /\ MoveHead(SubSeq(HeadCommit, 1, Len(HeadCommit) - 1))
    /\ UNCHANGED <<worktree, index, head, upstream, tracking, remote>>
    /\ Other

\* Another branch, or the same commit without one.
CheckOut ==
    /\ Clean
    /\ \/ \E b \in Branches \ {head} :
            /\ head' = b
            /\ worktree' = Tip(branch[b])
            /\ index' = Tip(branch[b])
            /\ UNCHANGED loose
       \/ /\ head # Detached
          /\ head' = Detached /\ loose' = HeadCommit
          /\ UNCHANGED <<worktree, index>>
    /\ UNCHANGED <<branch, upstream, tracking, remote>>
    /\ Other

\* What fast_forward tells its caller to do by hand.
FastForwardByHand ==
    /\ head # Detached /\ Clean
    /\ IsAncestor(branch[head], tracking[upstream[head]])
    /\ branch[head] # tracking[upstream[head]]
    /\ branch' = [branch EXCEPT ![head] = tracking[upstream[head]]]
    /\ worktree' = Tip(tracking[upstream[head]])
    /\ index' = Tip(tracking[upstream[head]])
    /\ UNCHANGED <<head, loose, upstream, tracking, remote>>
    /\ Other

Reconfigure ==
    /\ \E b, u \in Branches :
         /\ upstream[b] # u
         /\ upstream' = [upstream EXCEPT ![b] = u]
    /\ UNCHANGED <<worktree, index, head, loose, branch, tracking, remote>>
    /\ Other

\* Another clone pushes a change of one file, made by any tool.
OtherClonePushes ==
    /\ \E u \in Branches, e \in Edits :
         /\ Tip(remote[u])[e.file] # e.content
         /\ remote' = [remote EXCEPT ![u] =
                           Append(@, [Tip(@) EXCEPT ![e.file] = e.content])]
    /\ UNCHANGED <<worktree, index, head, loose, branch, upstream, tracking>>
    /\ Other

\* Every client is done and nobody does anything more.
Finished ==
    /\ edits = MaxEdits
    /\ \A p \in Clients : pc[p] = "idle" /\ calls[p] = MaxCalls
    /\ UNCHANGED vars

ClientStep(p) ==
    \/ CommitPaths(p)
    \/ FastForward(p)
    \/ Push(p)
    \/ DoctorScan(p)
    \/ LiveScan(p)
    \/ NameBranch(p)
    \/ ReadParent(p)
    \/ ReadEntries(p)
    \/ AddPath(p)
    \/ ValidateStaged(p)
    \/ RecheckBranch(p)
    \/ RecheckHead(p)
    \/ AdvanceBranch(p)
    \/ CompareEntries(p)
    \/ UpdateIndex(p)
    \/ CheckRequest(p)
    \/ Fetch(p)
    \/ ReadTarget(p)
    \/ RecheckTargetBranch(p)
    \/ RecheckTargetUpstream(p)
    \/ RecheckTarget(p)
    \/ RecheckClean(p)
    \/ RecheckTargetHead(p)
    \/ Decide(p)
    \/ NamePushedBranch(p)
    \/ ReadUpstream(p)
    \/ CaptureHead(p)
    \/ CheckClean(p)
    \/ CheckBranch(p)
    \/ CheckHead(p)
    \/ RecheckPushedBranch(p)
    \/ RecheckUpstream(p)
    \/ Send(p)

Next ==
    \/ \E p \in Clients : ClientStep(p)
    \/ EditFile
    \/ StageFile
    \/ CommitByHand
    \/ ResetByHand
    \/ CheckOut
    \/ FastForwardByHand
    \/ Reconfigure
    \/ OtherClonePushes
    \/ Finished

Spec == Init /\ [][Next]_vars

-----------------------------------------------------------------------------
(* Safety                                                                  *)

\* commit_paths adds one commit to a branch and takes none away, whatever other
\* calls and the person do to the branch, the index and the files meanwhile.
\* What it adds is a tree a clone of which Doctor accepts, and differs from its
\* parent in files of one call only: nothing slips in that was merely staged.
CommitsOnlyAdd ==
    [][edits' = edits =>
         \A b \in Branches : branch'[b] # branch[b] =>
            /\ IsAncestor(branch[b], branch'[b])
            /\ Len(branch'[b]) = Len(branch[b]) + 1
            /\ Sound(Tip(branch'[b]))
            /\ \E p \in Clients : \A a \in Artifacts \ task[p].paths :
                   Tip(branch'[b])[a] = Tip(branch[b])[a]]_vars

\* push publishes validated commits and overwrites nothing: the remote branch
\* only moves forward, to a commit whose tree Doctor accepts, although HEAD, the
\* upstream and the remote may have moved since that commit was looked at.
PushesOnlyChecked ==
    [][edits' = edits =>
         \A u \in Branches : remote'[u] # remote[u] =>
            IsAncestor(remote[u], remote'[u]) /\ Sound(Tip(remote'[u]))]_vars

\* A call in which nobody interfered tells the truth.  A commit holds the files
\* it was asked for as they are, and the rest as it was; the person's index has
\* changed in those files only.  What was pushed is the clean, sound and
\* authorized working tree.  A fast-forward was not applied, its target is what
\* the remote has, and its answer is how that relates to the branch.
UndisturbedCommit(p) ==
    LET t == task[p] tip == Tip(branch[head])
        asked(old) == [a \in Artifacts |-> IF a \in t.paths THEN worktree[a]
                                                            ELSE old[a]]
    IN  /\ head # Detached
        /\ branch[head] = Append(t.wasHead, tip)
        /\ tip = asked(Tip(t.wasHead))
        /\ index = asked(t.wasIndex)
        /\ Sound(tip) /\ TreeAuthorized(worktree)

UndisturbedPush(p) ==
    /\ head # Detached /\ Clean
    /\ remote[upstream[head]] = branch[head]
    /\ Sound(worktree) /\ TreeAuthorized(worktree)

UndisturbedForward(p) ==
    LET c == branch[head] d == remote[upstream[head]] IN
        /\ head # Detached /\ Clean
        /\ c = task[p].wasHead /\ index = task[p].wasIndex
        /\ Sound(Tip(d))
        /\ CASE result[p] = "up-to-date" -> c = d
             [] result[p] = "manual" -> IsAncestor(c, d) /\ c # d
             [] result[p] = "ahead" -> IsAncestor(d, c) /\ c # d
             [] OTHER -> ~IsAncestor(c, d) /\ ~IsAncestor(d, c)

UndisturbedCalls ==
    \A p \in Clients \ disturbed : pc[p] = "idle" =>
        /\ result[p] = "committed" => UndisturbedCommit(p)
        /\ result[p] = "pushed" => UndisturbedPush(p)
        /\ result[p] \in {"up-to-date", "manual", "ahead", "divergent"}
               => UndisturbedForward(p)
=============================================================================

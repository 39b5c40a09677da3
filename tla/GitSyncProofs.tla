---------------------------- MODULE GitSyncProofs ----------------------------
(***************************************************************************)
(* Proofs about GitSync.                                                   *)
(***************************************************************************)
EXTENDS GitSync, TLAPS, SequenceTheorems, FiniteSetTheorems

-----------------------------------------------------------------------------
(* Histories                                                               *)

\* A history with one more tree.
LEMMA OneMore ==
    ASSUME NEW c \in Histories, NEW s \in Trees
    PROVE  /\ Append(c, s) \in Histories /\ Append(c, s) # <<>>
           /\ Len(Append(c, s)) = Len(c) + 1
           /\ Tip(Append(c, s)) = s
           /\ IsAncestor(c, Append(c, s))
<1>1. /\ Append(c, s) \in Seq(Trees) /\ Append(c, s) # <<>>
      /\ Len(Append(c, s)) = Len(c) + 1
      /\ Append(c, s)[Len(c) + 1] = s
      /\ \A i \in 1 .. Len(c) : Append(c, s)[i] = c[i]
    BY AppendProperties DEF Histories
<1>2. Len(c) \in Nat
    BY LenProperties DEF Histories
<1>3. SubSeq(Append(c, s), 1, Len(c)) = c
    BY <1>1, <1>2 DEF Histories
<1> QED
    BY <1>1, <1>2, <1>3 DEF Histories, Tip, IsAncestor

LEMMA TipOfHistory ==
    ASSUME NEW c \in Histories, c # <<>>
    PROVE  Tip(c) \in Trees
<1>1. Len(c) \in 1 .. Len(c)
    BY EmptySeq, LenProperties DEF Histories
<1> QED
    BY <1>1, ElementOfSeq DEF Histories, Tip

-----------------------------------------------------------------------------
(* The inductive invariant.  What is known of a call that others may       *)
(* disturb depends on its place and on what it captured only.              *)

OpFits(place, op) ==
    /\ place \in {"naming", "parent", "entries", "adding", "validating", "rechecking",
                  "recheckhead", "advancing", "comparing", "indexing"} => op = "commit"
    /\ place \in {"configured2", "upstream2", "sending"} => op = "push"
    /\ place \in {"configured", "upstream", "capturing", "clean", "same", "samehead"} =>
         op \in {"push", "forward"}
    /\ place \in {"requested", "fetching", "target", "sameref", "sameup", "sametarget",
                  "clean2", "same2", "samehead2"} => op = "forward"
    /\ place \in {"doctor", "live"} => op \in {"commit", "push", "forward"}

BaseFits(place, t) ==
    /\ place \in Captured =>
         \/ t.op = "commit" /\ place \in {"doctor", "live"}
         \/ t.ref \in Branches /\ t.base # <<>>
    /\ place \in {"parent", "upstream", "capturing"} => t.ref \in Branches
    /\ place \in Captured \cup {"capturing"} /\ t.op # "commit" => t.up \in Branches
    /\ place \in {"sameref", "sameup", "sametarget", "clean2", "same2", "samehead2"} =>
         t.target # <<>>

\* The isolated index differs from the captured commit in the call's files only.
StagedFits(place, t) ==
    /\ place = "entries" => t.staged = Tip(t.base)
    /\ place \in {"adding", "validating", "rechecking", "recheckhead", "advancing"} =>
         /\ \A a \in Artifacts \ t.paths : t.staged[a] = Tip(t.base)[a]
         /\ t.todo \subseteq t.paths
    /\ place \in {"doctor", "live", "naming", "parent", "entries"} /\ t.op = "commit" =>
         t.todo = t.paths /\ t.todo # {}
    /\ place = "adding" => t.todo # {}
    /\ place \in {"validating", "rechecking", "recheckhead", "advancing", "comparing",
                  "indexing"} => t.todo = {}
    /\ place \in {"rechecking", "recheckhead", "advancing"} => Sound(t.staged)

\* What a push captured was validated first.
PushFits(place, t) ==
    place \in Captured /\ t.op = "push" => Sound(Tip(t.base))

Fits(p) ==
    /\ OpFits(pc[p], task[p].op)
    /\ BaseFits(pc[p], task[p])
    /\ StagedFits(pc[p], task[p])
    /\ PushFits(pc[p], task[p])

RepoOK ==
    /\ worktree \in Trees /\ index \in Trees
    /\ head \in Branches \cup {Detached}
    /\ loose \in Histories /\ loose # <<>>
    /\ branch \in [Branches -> Histories]
    /\ upstream \in [Branches -> Branches]
    /\ tracking \in [Branches -> Histories]
    /\ remote \in [Branches -> Histories]
    /\ \A b \in Branches : branch[b] # <<>> /\ remote[b] # <<>> /\ tracking[b] # <<>>

ClientOK ==
    /\ pc \in [Clients -> Places]
    /\ task \in [Clients -> Tasks]
    /\ result \in [Clients -> Results]

CountOK == calls \in [Clients -> Nat] /\ edits \in Nat /\ disturbed \subseteq Clients

IInv == RepoOK /\ ClientOK /\ CountOK /\ \A p \in Clients : Fits(p)

LEMMA TypeFollows == IInv => TypeOK
BY DEF IInv, RepoOK, ClientOK, CountOK, Fits, BaseFits, TypeOK

LEMMA NoTaskTyped == NoTask \in Tasks
BY TreeAssumption, EmptySeq DEF NoTask, Tasks, Histories

LEMMA Initially == Init => IInv
<1> SUFFICES ASSUME Init PROVE IInv
    OBVIOUS
<1>1. worktree \in Trees
    BY TreeAssumption, EditAssumption DEF Init, Trees
<1>2. <<FirstTree>> \in Histories /\ <<FirstTree>> # <<>>
    BY TreeAssumption DEF Histories
<1>3. RepoOK
    BY <1>1, <1>2, TreeAssumption DEF Init, RepoOK
<1>4. ClientOK /\ CountOK
    BY NoTaskTyped DEF Init, ClientOK, CountOK, Places, Results
<1>5. ASSUME NEW p \in Clients PROVE Fits(p)
    BY DEF Init, Fits, OpFits, BaseFits, StagedFits, PushFits, Captured, NoTask
<1> QED
    BY <1>3, <1>4, <1>5 DEF IInv

-----------------------------------------------------------------------------
(* How a call moves                                                        *)

\* Client p is now here with this; nothing of the others has changed.
Moves(p, place, t, r) ==
    /\ pc' = [pc EXCEPT ![p] = place]
    /\ task' = [task EXCEPT ![p] = t]
    /\ result' = [result EXCEPT ![p] = r]

LEMMA MoveKeeps ==
    ASSUME ClientOK, NEW p \in Clients, NEW place \in Places, NEW t \in Tasks,
           NEW r \in Results, Moves(p, place, t, r)
    PROVE  /\ ClientOK'
           /\ pc'[p] = place /\ task'[p] = t /\ result'[p] = r
           /\ \A q \in Clients : q # p =>
                  pc'[q] = pc[q] /\ task'[q] = task[q] /\ result'[q] = result[q]
BY DEF ClientOK, Moves

LEMMA ProceedMoves ==
    ASSUME ClientOK, NEW p \in Clients, NEW place, NEW t, Proceed(p, place, t)
    PROVE  Moves(p, place, t, result[p]) /\ result[p] \in Results
BY DEF ClientOK, Proceed, Moves

\* What a call that has returned still knows.
Left(t, answer) ==
    IF answer = "refused"
      THEN NoTask
      ELSE [NoTask EXCEPT !.paths = t.paths, !.wasIndex = t.wasIndex, !.wasHead = t.wasHead]

LEMMA ReturnMoves ==
    ASSUME ClientOK, NEW p \in Clients, NEW answer, Return(p, answer)
    PROVE  Moves(p, "idle", Left(task[p], answer), answer) /\ Left(task[p], answer) \in Tasks
<1>1. task[p] \in Tasks
    BY DEF ClientOK
<1>2. Left(task[p], answer) \in Tasks
    BY <1>1, NoTaskTyped DEF Left, Tasks
<1> QED
    BY <1>2 DEF ClientOK, Return, Moves, Left

\* Of a call that has returned nothing is known.
LEMMA IdleFits ==
    ASSUME NEW t
    PROVE  /\ OpFits("idle", t.op) /\ BaseFits("idle", t) /\ StagedFits("idle", t)
           /\ PushFits("idle", t)
BY DEF OpFits, BaseFits, StagedFits, PushFits, Captured

LEMMA OthersKeep ==
    ASSUME IInv, NEW p \in Clients, NEW place \in Places, NEW t \in Tasks,
           NEW r \in Results, Moves(p, place, t, r),
           OpFits(place, t.op), BaseFits(place, t), StagedFits(place, t), PushFits(place, t)
    PROVE  ClientOK' /\ \A q \in Clients : Fits(q)'
<1>1. /\ ClientOK'
      /\ pc'[p] = place /\ task'[p] = t
      /\ \A q \in Clients : q # p => pc'[q] = pc[q] /\ task'[q] = task[q]
    BY MoveKeeps DEF IInv
<1>2. ASSUME NEW q \in Clients PROVE Fits(q)'
    <2>1. CASE q = p
        BY <1>1, <2>1 DEF Fits
    <2>2. CASE q # p
        BY <1>1, <2>2 DEF Fits, IInv
    <2> QED
        BY <2>1, <2>2
<1> QED
    BY <1>1, <1>2

\* A client's call goes on, with what fits its new place.
LEMMA GoingOn ==
    ASSUME IInv, NEW p \in Clients, NEW place \in Places, NEW t \in Tasks,
           Proceed(p, place, t),
           OpFits(place, t.op), BaseFits(place, t), StagedFits(place, t), PushFits(place, t)
    PROVE  ClientOK' /\ \A q \in Clients : Fits(q)'
<1>1. Moves(p, place, t, result[p]) /\ result[p] \in Results
    BY ProceedMoves DEF IInv
<1> QED
    BY <1>1, OthersKeep

LEMMA Returning ==
    ASSUME IInv, NEW p \in Clients, NEW answer \in Results, Return(p, answer)
    PROVE  ClientOK' /\ \A q \in Clients : Fits(q)'
<1>1. Moves(p, "idle", Left(task[p], answer), answer) /\ Left(task[p], answer) \in Tasks
    BY ReturnMoves DEF IInv
<1>2. "idle" \in Places
    BY DEF Places
<1> QED
    BY <1>1, <1>2, IdleFits, OthersKeep

LEMMA LookingOnly ==
    ASSUME IInv, Look
    PROVE  RepoOK' /\ CountOK'
BY DEF IInv, Look, repo, RepoOK, CountOK

\* A check that goes on fits, or it refuses.
LEMMA Checking ==
    ASSUME IInv, NEW p \in Clients, NEW condition, NEW place \in Places, NEW t,
           Check(p, condition, place, t),
           condition => /\ t \in Tasks
                        /\ OpFits(place, t.op) /\ BaseFits(place, t)
                        /\ StagedFits(place, t) /\ PushFits(place, t)
    PROVE  IInv'
<1>1. RepoOK' /\ CountOK'
    BY LookingOnly DEF Check
<1>2. CASE condition
    BY <1>1, <1>2, GoingOn DEF Check, IInv
<1>3. CASE ~condition
    <2>1. "refused" \in Results
        BY DEF Results
    <2> QED
        BY <1>1, <1>3, <2>1, Returning DEF Check, IInv
<1> QED
    BY <1>2, <1>3

\* What every step of a call may use.
LEMMA Known ==
    ASSUME IInv, NEW p \in Clients
    PROVE  /\ task[p] \in Tasks /\ Fits(p)
           /\ HeadCommit \in Histories /\ HeadCommit # <<>> /\ Tip(HeadCommit) \in Trees
           /\ head # Detached => head \in Branches /\ HeadCommit = branch[head]
                                 /\ upstream[head] \in Branches
<1>1. task[p] \in Tasks /\ Fits(p)
    BY DEF IInv, ClientOK
<1>2. HeadCommit \in Histories /\ HeadCommit # <<>>
    BY DEF HeadCommit, IInv, RepoOK
<1>3. head # Detached => head \in Branches /\ HeadCommit = branch[head]
                         /\ upstream[head] \in Branches
    BY DEF HeadCommit, IInv, RepoOK
<1> QED
    BY <1>1, <1>2, <1>3, TipOfHistory

-----------------------------------------------------------------------------
(* One lemma per step                                                      *)

LEMMA CallFits ==
    ASSUME IInv, NEW p \in Clients, NEW t \in Tasks, NEW place \in Places,
           Call(p, t, place),
           OpFits(place, t.op), place \in {"doctor", "requested", "configured"},
           place = "doctor" => t.op = "commit" /\ t.todo = t.paths /\ t.todo # {}
    PROVE  IInv'
<1> DEFINE u == [t EXCEPT !.wasIndex = index, !.wasHead = HeadCommit]
<1>1. u \in Tasks
    BY Known DEF Tasks, IInv, RepoOK
<1>2. u.op = t.op /\ u.todo = t.todo /\ u.paths = t.paths
    BY DEF Tasks
<1>3. OpFits(place, u.op) /\ BaseFits(place, u) /\ StagedFits(place, u) /\ PushFits(place, u)
    BY <1>2 DEF OpFits, BaseFits, StagedFits, PushFits, Captured
<1>4. Proceed(p, place, u)
    BY DEF Call
<1> HIDE DEF u
<1>5. ClientOK' /\ \A q \in Clients : Fits(q)'
    BY <1>1, <1>3, <1>4, GoingOn
<1>6. RepoOK' /\ CountOK'
    BY DEF Call, IInv, RepoOK, CountOK, repo
<1> QED
    BY <1>5, <1>6 DEF IInv

LEMMA CommitPathsFits ==
    ASSUME IInv, NEW p \in Clients, CommitPaths(p) PROVE IInv'
<1>1. PICK paths \in (SUBSET Artifacts) \ {{}} :
          Call(p, [NoTask EXCEPT !.op = "commit", !.paths = paths, !.todo = paths], "doctor")
    BY DEF CommitPaths
<1> DEFINE t == [NoTask EXCEPT !.op = "commit", !.paths = paths, !.todo = paths]
<1>2. t \in Tasks /\ t.op = "commit" /\ t.todo = t.paths /\ t.todo # {}
    <2>1. t.op = "commit" /\ t.paths = paths /\ t.todo = paths
        BY DEF NoTask
    <2>2. t \in Tasks
        BY NoTaskTyped DEF Tasks
    <2>3. paths # {}
        OBVIOUS
    <2> HIDE DEF t
    <2> QED
        BY <2>1, <2>2, <2>3
<1>3. Call(p, t, "doctor") /\ "doctor" \in Places
    BY <1>1 DEF Places
<1> HIDE DEF t
<1>4. OpFits("doctor", t.op)
    BY <1>2 DEF OpFits
<1> QED
    BY <1>2, <1>3, <1>4, CallFits

LEMMA FastForwardFits ==
    ASSUME IInv, NEW p \in Clients, FastForward(p) PROVE IInv'
<1> DEFINE t == [NoTask EXCEPT !.op = "forward"]
<1>1. t \in Tasks /\ t.op = "forward"
    BY NoTaskTyped DEF Tasks
<1>2. Call(p, t, "requested")
    BY DEF FastForward
<1> HIDE DEF t
<1> QED
    BY <1>1, <1>2, CallFits DEF OpFits, Places

LEMMA PushCallFits ==
    ASSUME IInv, NEW p \in Clients, Push(p) PROVE IInv'
<1> DEFINE t == [NoTask EXCEPT !.op = "push"]
<1>1. t \in Tasks /\ t.op = "push"
    BY NoTaskTyped DEF Tasks
<1>2. Call(p, t, "configured")
    BY DEF Push
<1> HIDE DEF t
<1> QED
    BY <1>1, <1>2, CallFits DEF OpFits, Places

\* Steps that look and go on with what they had.
LEMMA ScansFit ==
    ASSUME IInv, NEW p \in Clients, DoctorScan(p) \/ LiveScan(p) PROVE IInv'
<1> task[p] \in Tasks /\ Fits(p)
    BY Known
<1>1. CASE DoctorScan(p)
    <2>1. /\ OpFits("live", task[p].op) /\ BaseFits("live", task[p])
          /\ StagedFits("live", task[p]) /\ PushFits("live", task[p])
        BY <1>1 DEF DoctorScan, Fits, OpFits, BaseFits, StagedFits, PushFits, Captured
    <2> QED
        BY <1>1, <2>1, Checking DEF DoctorScan, Places
<1>2. CASE LiveScan(p)
    <2> DEFINE place == IF task[p].op = "commit" THEN "naming" ELSE "clean"
    <2>1. /\ OpFits(place, task[p].op) /\ BaseFits(place, task[p])
          /\ StagedFits(place, task[p]) /\ PushFits(place, task[p])
        BY <1>2 DEF LiveScan, Fits, OpFits, BaseFits, StagedFits, PushFits, Captured
    <2>2. place \in Places /\ Check(p, TreeAuthorized(worktree), place, task[p])
        BY <1>2 DEF LiveScan, Places
    <2> QED
        BY <2>1, <2>2, Checking
<1> QED
    BY <1>1, <1>2

\* The two looks that capture the branch.
LEMMA NameBranchFits ==
    ASSUME IInv, NEW p \in Clients, NameBranch(p) \/ NamePushedBranch(p) PROVE IInv'
<1> DEFINE t == [task[p] EXCEPT !.ref = head]
<1>1. task[p] \in Tasks /\ Fits(p) /\ (head # Detached => head \in Branches)
    BY Known
<1>2. ASSUME head # Detached
      PROVE  /\ t \in Tasks
             /\ t.ref = head /\ t.op = task[p].op /\ t.todo = task[p].todo
             /\ t.paths = task[p].paths
    BY <1>1, <1>2 DEF Tasks
<1>3. NameBranch(p) => pc[p] = "naming" /\ Check(p, head # Detached, "parent", t)
    BY DEF NameBranch
<1>4. NamePushedBranch(p) => pc[p] = "configured" /\ Check(p, head # Detached, "upstream", t)
    BY DEF NamePushedBranch
<1> HIDE DEF t
<1>5. head # Detached /\ pc[p] = "naming" =>
        /\ OpFits("parent", t.op) /\ BaseFits("parent", t)
        /\ StagedFits("parent", t) /\ PushFits("parent", t)
    BY <1>1, <1>2 DEF Fits, OpFits, BaseFits, StagedFits, PushFits, Captured
<1>6. head # Detached /\ pc[p] = "configured" =>
        /\ OpFits("upstream", t.op) /\ BaseFits("upstream", t)
        /\ StagedFits("upstream", t) /\ PushFits("upstream", t)
    BY <1>1, <1>2 DEF Fits, OpFits, BaseFits, StagedFits, PushFits, Captured
<1>7. CASE NameBranch(p)
    BY <1>2, <1>3, <1>5, <1>7, Checking DEF Places
<1>8. CASE NamePushedBranch(p)
    BY <1>2, <1>4, <1>6, <1>8, Checking DEF Places
<1> QED
    BY <1>7, <1>8

LEMMA ReadParentFits ==
    ASSUME IInv, NEW p \in Clients, ReadParent(p) PROVE IInv'
<1> DEFINE t == [task[p] EXCEPT !.base = HeadCommit, !.staged = Tip(HeadCommit)]
<1>1. /\ task[p] \in Tasks /\ Fits(p) /\ pc[p] = "parent"
      /\ HeadCommit \in Histories /\ HeadCommit # <<>> /\ Tip(HeadCommit) \in Trees
    BY Known DEF ReadParent
<1>2. /\ t \in Tasks
      /\ t.base = HeadCommit /\ t.staged = Tip(HeadCommit)
      /\ t.op = task[p].op /\ t.todo = task[p].todo
      /\ t.paths = task[p].paths /\ t.ref = task[p].ref
    BY <1>1 DEF Tasks
<1>3. Proceed(p, "entries", t) /\ Look
    BY DEF ReadParent
<1> HIDE DEF t
<1>4. /\ OpFits("entries", t.op) /\ BaseFits("entries", t)
      /\ StagedFits("entries", t) /\ PushFits("entries", t)
    BY <1>1, <1>2 DEF Fits, OpFits, BaseFits, StagedFits, PushFits, Captured
<1> QED
    BY <1>2, <1>3, <1>4, GoingOn, LookingOnly DEF Places, IInv

LEMMA ReadEntriesFits ==
    ASSUME IInv, NEW p \in Clients, ReadEntries(p) PROVE IInv'
<1> DEFINE t == [task[p] EXCEPT !.before = index]
<1>1. task[p] \in Tasks /\ Fits(p)
    BY Known
<1>2. /\ t \in Tasks
      /\ t.base = task[p].base /\ t.staged = task[p].staged /\ t.op = task[p].op
      /\ t.todo = task[p].todo /\ t.paths = task[p].paths /\ t.ref = task[p].ref
    BY <1>1 DEF Tasks, IInv, RepoOK
<1> HIDE DEF t
<1>3. /\ OpFits("adding", t.op) /\ BaseFits("adding", t)
      /\ StagedFits("adding", t) /\ PushFits("adding", t)
    BY <1>1, <1>2 DEF ReadEntries, Fits, OpFits, BaseFits, StagedFits, PushFits, Captured
<1>4. Proceed(p, "adding", t) /\ Look
    BY DEF ReadEntries, t
<1> QED
    BY <1>2, <1>3, <1>4, GoingOn, LookingOnly DEF Places, IInv

LEMMA AddPathFits ==
    ASSUME IInv, NEW p \in Clients, AddPath(p) PROVE IInv'
<1>1. PICK a \in task[p].todo :
         Proceed(p, IF task[p].todo = {a} THEN "validating" ELSE "adding",
                 [task[p] EXCEPT !.staged[a] = worktree[a], !.todo = @ \ {a}])
    BY DEF AddPath
<1> DEFINE t == [task[p] EXCEPT !.staged[a] = worktree[a], !.todo = @ \ {a}]
           place == IF task[p].todo = {a} THEN "validating" ELSE "adding"
<1>2. task[p] \in Tasks /\ Fits(p) /\ pc[p] = "adding"
    BY Known DEF AddPath
<1>3. task[p].staged \in Trees /\ worktree \in Trees /\ a \in Artifacts
    BY <1>2 DEF Tasks, IInv, RepoOK
<1>4. [task[p].staged EXCEPT ![a] = worktree[a]] \in Trees
    BY <1>3 DEF Trees
<1>5. /\ t \in Tasks
      /\ t.staged = [task[p].staged EXCEPT ![a] = worktree[a]]
      /\ t.base = task[p].base /\ t.op = task[p].op
      /\ t.todo = task[p].todo \ {a} /\ t.paths = task[p].paths /\ t.ref = task[p].ref
    BY <1>2, <1>4 DEF Tasks
<1>6. a \in task[p].paths
      /\ \A b \in Artifacts \ task[p].paths : task[p].staged[b] = Tip(task[p].base)[b]
    BY <1>2 DEF Fits, StagedFits
<1>7. \A b \in Artifacts \ t.paths : t.staged[b] = Tip(t.base)[b]
    BY <1>3, <1>5, <1>6 DEF Trees
<1>8. /\ place \in {"adding", "validating"} /\ place \in Places
      /\ place = "validating" => task[p].todo = {a}
      /\ place = "adding" => task[p].todo # {a}
    BY DEF Places
<1>9. Proceed(p, place, t)
    BY <1>1
<1> HIDE DEF t, place
<1>10. OpFits(place, t.op) /\ BaseFits(place, t) /\ PushFits(place, t)
    BY <1>2, <1>5, <1>8 DEF Fits, OpFits, BaseFits, PushFits, Captured
<1>11. StagedFits(place, t)
    BY <1>2, <1>5, <1>7, <1>8 DEF Fits, StagedFits
<1> QED
    BY <1>5, <1>8, <1>9, <1>10, <1>11, GoingOn, LookingOnly DEF AddPath, IInv

LEMMA StagedChecksFit ==
    ASSUME IInv, NEW p \in Clients, ValidateStaged(p) \/ RecheckBranch(p) \/ RecheckHead(p)
    PROVE  IInv'
<1> task[p] \in Tasks /\ Fits(p)
    BY Known
<1>1. CASE ValidateStaged(p)
    <2>1. Committable(p) => /\ OpFits("rechecking", task[p].op)
                            /\ BaseFits("rechecking", task[p])
                            /\ StagedFits("rechecking", task[p])
                            /\ PushFits("rechecking", task[p])
        BY <1>1 DEF ValidateStaged, Committable, Fits, OpFits, BaseFits, StagedFits, PushFits,
                    Captured
    <2> QED
        BY <1>1, <2>1, Checking DEF ValidateStaged, Places
<1>2. CASE RecheckHead(p)
    <2>1. /\ OpFits("advancing", task[p].op) /\ BaseFits("advancing", task[p])
          /\ StagedFits("advancing", task[p]) /\ PushFits("advancing", task[p])
        BY <1>2 DEF RecheckHead, Fits, OpFits, BaseFits, StagedFits, PushFits, Captured
    <2> QED
        BY <1>2, <2>1, Checking DEF RecheckHead, Places
<1>3. CASE RecheckBranch(p)
    <2>1. /\ OpFits("recheckhead", task[p].op) /\ BaseFits("recheckhead", task[p])
          /\ StagedFits("recheckhead", task[p]) /\ PushFits("recheckhead", task[p])
        BY <1>3 DEF RecheckBranch, Fits, OpFits, BaseFits, StagedFits, PushFits, Captured
    <2> QED
        BY <1>3, <2>1, Checking DEF RecheckBranch, Places
<1> QED
    BY <1>1, <1>2, <1>3

\* A branch, and how it relates to what it was: one sound tree more, which
\* differs from its parent in the call's files only.
LEMMA AdvanceBranchFits ==
    ASSUME IInv, NEW p \in Clients, AdvanceBranch(p)
    PROVE  /\ IInv'
           /\ \A b \in Branches : branch'[b] # branch[b] =>
                 /\ b = task[p].ref /\ branch[b] = task[p].base
                 /\ branch'[b] = Append(branch[b], task[p].staged)
                 /\ pc[p] = "advancing"
<1>1. task[p] \in Tasks /\ Fits(p) /\ pc[p] = "advancing"
    BY Known DEF AdvanceBranch
<1>2. CASE RefUnmoved(p)
    <2> DEFINE c == Append(task[p].base, task[p].staged)
    <2>1. task[p].base \in Histories /\ task[p].staged \in Trees /\ task[p].ref \in Branches
        BY <1>1 DEF Tasks, Fits, BaseFits, OpFits, Captured
    <2>2. c \in Histories /\ c # <<>>
        BY <2>1, OneMore
    <2>3. /\ branch' = [branch EXCEPT ![task[p].ref] = c]
          /\ Disturb(p) /\ Proceed(p, "comparing", task[p])
          /\ UNCHANGED <<worktree, index, head, loose, upstream, tracking, remote,
                         calls, edits>>
        BY <1>2 DEF AdvanceBranch
    <2> HIDE DEF c
    <2>4. RepoOK'
        BY <2>1, <2>2, <2>3 DEF IInv, RepoOK
    <2>5. CountOK'
        BY <2>3 DEF IInv, CountOK, Disturb
    <2>6. /\ OpFits("comparing", task[p].op) /\ BaseFits("comparing", task[p])
          /\ StagedFits("comparing", task[p]) /\ PushFits("comparing", task[p])
        BY <1>1 DEF Fits, OpFits, BaseFits, StagedFits, PushFits, Captured
    <2>7. IInv'
        BY <1>1, <2>3, <2>4, <2>5, <2>6, GoingOn DEF Places, IInv
    <2>8. branch[task[p].ref] = task[p].base
        BY <1>2 DEF RefUnmoved
    <2> QED
        BY <1>1, <2>1, <2>3, <2>7, <2>8 DEF c, IInv, RepoOK
<1>3. CASE ~RefUnmoved(p)
    <2>1. Return(p, "refused") /\ Look
        BY <1>3 DEF AdvanceBranch
    <2>2. IInv'
        BY <2>1, Returning, LookingOnly DEF Results, IInv
    <2> QED
        BY <2>1, <2>2 DEF Look, repo
<1> QED
    BY <1>2, <1>3

LEMMA CompareEntriesFits ==
    ASSUME IInv, NEW p \in Clients, CompareEntries(p) PROVE IInv'
<1>1. task[p] \in Tasks /\ Fits(p) /\ pc[p] = "comparing"
    BY Known DEF CompareEntries
<1>2. /\ OpFits("indexing", task[p].op) /\ BaseFits("indexing", task[p])
      /\ StagedFits("indexing", task[p]) /\ PushFits("indexing", task[p])
    BY <1>1 DEF Fits, OpFits, BaseFits, StagedFits, PushFits, Captured
<1>3. Look /\ (Proceed(p, "indexing", task[p]) \/ Return(p, "committed"))
    BY DEF CompareEntries
<1> QED
    BY <1>1, <1>2, <1>3, GoingOn, Returning, LookingOnly DEF Places, Results, IInv

LEMMA UpdateIndexFits ==
    ASSUME IInv, NEW p \in Clients, UpdateIndex(p) PROVE IInv'
<1>1. task[p].staged \in Trees /\ index \in Trees
    BY Known DEF Tasks, IInv, RepoOK
<1>2. index' \in Trees
    BY <1>1 DEF UpdateIndex, Trees
<1>3. RepoOK'
    BY <1>2 DEF UpdateIndex, IInv, RepoOK
<1>4. CountOK'
    BY DEF UpdateIndex, Disturb, IInv, CountOK
<1>5. Return(p, "committed") /\ "committed" \in Results
    BY DEF UpdateIndex, Results
<1> QED
    BY <1>3, <1>4, <1>5, Returning DEF IInv

LEMMA RequestFits ==
    ASSUME IInv, NEW p \in Clients, CheckRequest(p) PROVE IInv'
<1>1. task[p] \in Tasks /\ Fits(p) /\ pc[p] = "requested"
    BY Known DEF CheckRequest
<1>2. /\ OpFits("fetching", task[p].op) /\ BaseFits("fetching", task[p])
      /\ StagedFits("fetching", task[p]) /\ PushFits("fetching", task[p])
    BY <1>1 DEF Fits, OpFits, BaseFits, StagedFits, PushFits, Captured
<1> QED
    BY <1>1, <1>2, Checking DEF CheckRequest, Places

LEMMA FetchFits ==
    ASSUME IInv, NEW p \in Clients, Fetch(p) PROVE IInv'
<1>1. task[p] \in Tasks /\ Fits(p) /\ pc[p] = "fetching"
    BY Known DEF Fetch
<1>2. /\ OpFits("configured", task[p].op) /\ BaseFits("configured", task[p])
      /\ StagedFits("configured", task[p]) /\ PushFits("configured", task[p])
    BY <1>1 DEF Fits, OpFits, BaseFits, StagedFits, PushFits, Captured
<1>3. Proceed(p, "configured", task[p])
    BY DEF Fetch
<1>4. RepoOK' /\ CountOK'
    BY DEF Fetch, Disturb, IInv, RepoOK, CountOK
<1> QED
    BY <1>1, <1>2, <1>3, <1>4, GoingOn DEF Places, IInv

LEMMA ReadUpstreamFits ==
    ASSUME IInv, NEW p \in Clients, ReadUpstream(p) PROVE IInv'
<1> DEFINE t == [task[p] EXCEPT !.up = upstream[head]]
<1>1. /\ task[p] \in Tasks /\ Fits(p) /\ pc[p] = "upstream"
      /\ head # Detached => upstream[head] \in Branches
    BY Known DEF ReadUpstream
<1>2. ASSUME head # Detached
      PROVE  /\ t \in Tasks
             /\ t.ref = task[p].ref /\ t.op = task[p].op /\ t.up = upstream[head]
    BY <1>1, <1>2 DEF Tasks
<1>3. Check(p, head # Detached, "capturing", t)
    BY DEF ReadUpstream
<1> HIDE DEF t
<1>4. head # Detached => /\ OpFits("capturing", t.op) /\ BaseFits("capturing", t)
                         /\ StagedFits("capturing", t) /\ PushFits("capturing", t)
    BY <1>1, <1>2 DEF Fits, OpFits, BaseFits, StagedFits, PushFits, Captured
<1> QED
    BY <1>2, <1>3, <1>4, Checking DEF Places

LEMMA CaptureHeadFits ==
    ASSUME IInv, NEW p \in Clients, CaptureHead(p) PROVE IInv'
<1> DEFINE t == [task[p] EXCEPT !.base = HeadCommit]
           goes == task[p].op = "push" => Sound(Tip(HeadCommit))
<1>1. /\ task[p] \in Tasks /\ Fits(p) /\ pc[p] = "capturing"
      /\ HeadCommit \in Histories /\ HeadCommit # <<>>
    BY Known DEF CaptureHead
<1>2. /\ t \in Tasks
      /\ t.base = HeadCommit /\ t.ref = task[p].ref
      /\ t.op = task[p].op /\ t.up = task[p].up
    BY <1>1 DEF Tasks
<1> HIDE DEF t
<1>3. goes => /\ OpFits("doctor", t.op) /\ BaseFits("doctor", t)
              /\ StagedFits("doctor", t) /\ PushFits("doctor", t)
    BY <1>1, <1>2 DEF Fits, OpFits, BaseFits, StagedFits, PushFits, Captured
<1>4. Check(p, goes, "doctor", t)
    BY DEF CaptureHead, t
<1> HIDE DEF goes
<1> QED
    BY <1>2, <1>3, <1>4, Checking DEF Places

\* The checks between the capture and the answer, or the sending.
LEMMA ChecksFit ==
    ASSUME IInv, NEW p \in Clients,
           \/ CheckClean(p) \/ CheckBranch(p) \/ CheckHead(p)
           \/ RecheckPushedBranch(p) \/ RecheckUpstream(p)
           \/ RecheckTargetBranch(p) \/ RecheckTargetUpstream(p) \/ RecheckTarget(p)
           \/ RecheckClean(p) \/ RecheckTargetHead(p)
    PROVE  IInv'
<1> task[p] \in Tasks /\ Fits(p)
    BY Known
<1> USE DEF Fits, OpFits, BaseFits, StagedFits, PushFits, Captured
<1>1. CASE CheckClean(p)
    <2>1. /\ OpFits("same", task[p].op) /\ BaseFits("same", task[p])
          /\ StagedFits("same", task[p]) /\ PushFits("same", task[p])
        BY <1>1 DEF CheckClean
    <2> QED
        BY <1>1, <2>1, Checking DEF CheckClean, Places
<1>2. CASE CheckHead(p)
    <2> DEFINE place == IF task[p].op = "push" THEN "configured2" ELSE "target"
    <2>1. /\ OpFits(place, task[p].op) /\ BaseFits(place, task[p])
          /\ StagedFits(place, task[p]) /\ PushFits(place, task[p])
        BY <1>2 DEF CheckHead
    <2>2. place \in Places /\ Check(p, SameCommit(p), place, task[p])
        BY <1>2 DEF CheckHead, Places
    <2> QED
        BY <2>1, <2>2, Checking
<1>3. CASE RecheckUpstream(p)
    <2>1. /\ OpFits("sending", task[p].op) /\ BaseFits("sending", task[p])
          /\ StagedFits("sending", task[p]) /\ PushFits("sending", task[p])
        BY <1>3 DEF RecheckUpstream
    <2> QED
        BY <1>3, <2>1, Checking DEF RecheckUpstream, Places
<1>4. CASE RecheckTarget(p)
    <2>1. /\ OpFits("clean2", task[p].op) /\ BaseFits("clean2", task[p])
          /\ StagedFits("clean2", task[p]) /\ PushFits("clean2", task[p])
        BY <1>4 DEF RecheckTarget
    <2> QED
        BY <1>4, <2>1, Checking DEF RecheckTarget, Places
<1>5. CASE RecheckClean(p)
    <2>1. /\ OpFits("same2", task[p].op) /\ BaseFits("same2", task[p])
          /\ StagedFits("same2", task[p]) /\ PushFits("same2", task[p])
        BY <1>5 DEF RecheckClean
    <2> QED
        BY <1>5, <2>1, Checking DEF RecheckClean, Places
<1>6. CASE CheckBranch(p)
    <2>1. /\ OpFits("samehead", task[p].op) /\ BaseFits("samehead", task[p])
          /\ StagedFits("samehead", task[p]) /\ PushFits("samehead", task[p])
        BY <1>6 DEF CheckBranch
    <2> QED
        BY <1>6, <2>1, Checking DEF CheckBranch, Places
<1>7. CASE RecheckPushedBranch(p)
    <2>1. /\ OpFits("upstream2", task[p].op) /\ BaseFits("upstream2", task[p])
          /\ StagedFits("upstream2", task[p]) /\ PushFits("upstream2", task[p])
        BY <1>7 DEF RecheckPushedBranch
    <2> QED
        BY <1>7, <2>1, Checking DEF RecheckPushedBranch, Places
<1>8. CASE RecheckTargetBranch(p)
    <2>1. /\ OpFits("sameup", task[p].op) /\ BaseFits("sameup", task[p])
          /\ StagedFits("sameup", task[p]) /\ PushFits("sameup", task[p])
        BY <1>8 DEF RecheckTargetBranch
    <2> QED
        BY <1>8, <2>1, Checking DEF RecheckTargetBranch, Places
<1>9. CASE RecheckTargetUpstream(p)
    <2>1. /\ OpFits("sametarget", task[p].op) /\ BaseFits("sametarget", task[p])
          /\ StagedFits("sametarget", task[p]) /\ PushFits("sametarget", task[p])
        BY <1>9 DEF RecheckTargetUpstream
    <2> QED
        BY <1>9, <2>1, Checking DEF RecheckTargetUpstream, Places
<1>10. CASE RecheckTargetHead(p)
    <2>1. /\ OpFits("samehead2", task[p].op) /\ BaseFits("samehead2", task[p])
          /\ StagedFits("samehead2", task[p]) /\ PushFits("samehead2", task[p])
        BY <1>10 DEF RecheckTargetHead
    <2> QED
        BY <1>10, <2>1, Checking DEF RecheckTargetHead, Places
<1> QED
    BY <1>1, <1>2, <1>3, <1>4, <1>5, <1>6, <1>7, <1>8, <1>9, <1>10

LEMMA ReadTargetFits ==
    ASSUME IInv, NEW p \in Clients, ReadTarget(p) PROVE IInv'
<1> DEFINE t == [task[p] EXCEPT !.target = tracking[task[p].up]]
<1>1. task[p] \in Tasks /\ Fits(p) /\ pc[p] = "target" /\ task[p].op = "forward"
    BY Known DEF ReadTarget, Fits, OpFits
<1>2. task[p].up \in Branches
    BY <1>1 DEF Fits, BaseFits, Captured
<1>3. tracking[task[p].up] \in Histories /\ tracking[task[p].up] # <<>>
    BY <1>2 DEF IInv, RepoOK
<1>4. /\ t \in Tasks
      /\ t.target = tracking[task[p].up] /\ t.base = task[p].base /\ t.ref = task[p].ref
      /\ t.op = task[p].op /\ t.up = task[p].up
    BY <1>1, <1>3 DEF Tasks
<1> HIDE DEF t
<1>5. /\ OpFits("sameref", t.op) /\ BaseFits("sameref", t)
      /\ StagedFits("sameref", t) /\ PushFits("sameref", t)
    BY <1>1, <1>3, <1>4 DEF Fits, OpFits, BaseFits, StagedFits, PushFits, Captured
<1>6. Check(p, Sound(Tip(tracking[task[p].up])), "sameref", t)
    BY DEF ReadTarget, t
<1> QED
    BY <1>4, <1>5, <1>6, Checking DEF Places

LEMMA DecideFits ==
    ASSUME IInv, NEW p \in Clients, Decide(p) PROVE IInv'
<1> DEFINE r == IF SameCommit(p) THEN Relation(task[p].base, task[p].target) ELSE "refused"
<1>1. r \in Results
    BY DEF Relation, Results
<1>2. Return(p, r) /\ Look
    BY DEF Decide
<1> HIDE DEF r
<1> QED
    BY <1>1, <1>2, Returning, LookingOnly DEF IInv

\* What the remote takes is the captured commit, whose tree was validated.
LEMMA SendFits ==
    ASSUME IInv, NEW p \in Clients, Send(p)
    PROVE  /\ IInv'
           /\ \A u \in Branches : remote'[u] # remote[u] =>
                 /\ IsAncestor(remote[u], remote'[u]) /\ remote'[u] = task[p].base
                 /\ Sound(Tip(remote'[u]))
<1>1. task[p] \in Tasks /\ Fits(p) /\ pc[p] = "sending" /\ task[p].op = "push"
    BY Known DEF Send, Fits, OpFits
<1>2. /\ task[p].up \in Branches /\ task[p].base \in Histories /\ task[p].base # <<>>
      /\ Sound(Tip(task[p].base))
    BY <1>1 DEF Fits, BaseFits, PushFits, Captured, Tasks
<1>3. CASE remote' = [remote EXCEPT ![task[p].up] = Sent(p)]
           /\ RemoteTakes(remote[task[p].up], Sent(p))
           /\ Disturb(p)
           /\ UNCHANGED <<worktree, index, head, loose, branch, upstream, calls, edits>>
           /\ \/ Return(p, "pushed")
                 /\ tracking' = [tracking EXCEPT ![task[p].up] = Sent(p)]
              \/ Return(p, "refused") /\ UNCHANGED tracking
    <2>1. RepoOK'
        BY <1>2, <1>3 DEF Sent, IInv, RepoOK
    <2>2. CountOK'
        BY <1>3 DEF Disturb, IInv, CountOK
    <2>3. IInv'
        BY <1>3, <2>1, <2>2, Returning DEF Results, IInv
    <2> QED
        BY <1>2, <1>3, <2>3 DEF Sent, RemoteTakes, IInv, RepoOK
<1>4. CASE Return(p, "refused") /\ Look
    <2>1. IInv'
        BY <1>4, Returning, LookingOnly DEF Results, IInv
    <2> QED
        BY <1>4, <2>1 DEF Look, repo
<1> QED
    BY <1>3, <1>4 DEF Send

\* A step of others leaves the calls alone.
LEMMA OtherFits ==
    ASSUME IInv, Other, RepoOK'
    PROVE  IInv'
BY DEF IInv, Other, ClientOK, CountOK, Fits

LEMMA EditFits ==
    ASSUME NEW tree \in Trees, NEW e \in Edits
    PROVE  [tree EXCEPT ![e.file] = e.content] \in Trees
BY EditAssumption DEF Trees

LEMMA FilesFit ==
    ASSUME IInv, EditFile \/ StageFile PROVE IInv'
<1>1. CASE EditFile
    <2>1. worktree' \in Trees
        BY <1>1, EditFits DEF EditFile, IInv, RepoOK
    <2>2. RepoOK'
        BY <1>1, <2>1 DEF EditFile, IInv, RepoOK
    <2> QED
        BY <1>1, <2>2, OtherFits DEF EditFile
<1>2. CASE StageFile
    <2>1. worktree \in Trees /\ index \in Trees
        BY DEF IInv, RepoOK
    <2>2. index' \in Trees
        BY <1>2, <2>1 DEF StageFile, Trees
    <2>3. RepoOK'
        BY <1>2, <2>2 DEF StageFile, IInv, RepoOK
    <2> QED
        BY <1>2, <2>3, OtherFits DEF StageFile
<1> QED
    BY <1>1, <1>2

LEMMA MoveHeadFits ==
    ASSUME IInv, NEW c \in Histories, c # <<>>, MoveHead(c), worktree' \in Trees,
           index' \in Trees, UNCHANGED <<head, upstream, tracking, remote>>
    PROVE  RepoOK'
BY DEF MoveHead, IInv, RepoOK

LEMMA CommitByHandFits ==
    ASSUME IInv, CommitByHand PROVE IInv'
<1>1. HeadCommit \in Histories /\ index' \in Trees /\ worktree' \in Trees
    BY DEF CommitByHand, HeadCommit, IInv, RepoOK
<1>2. Append(HeadCommit, index') \in Histories /\ Append(HeadCommit, index') # <<>>
    BY <1>1, OneMore
<1>3. /\ MoveHead(Append(HeadCommit, index'))
      /\ UNCHANGED <<head, upstream, tracking, remote>>
    BY DEF CommitByHand
<1>4. RepoOK'
    BY <1>1, <1>2, <1>3, MoveHeadFits
<1> QED
    BY <1>4, OtherFits DEF CommitByHand

LEMMA ResetByHandFits ==
    ASSUME IInv, ResetByHand PROVE IInv'
<1> DEFINE h == HeadCommit
           c == SubSeq(h, 1, Len(h) - 1)
<1>1. /\ h \in Histories /\ Len(h) > 1 /\ MoveHead(c)
      /\ worktree' \in Trees /\ index' \in Trees
      /\ UNCHANGED <<head, upstream, tracking, remote>>
    BY DEF ResetByHand, HeadCommit, IInv, RepoOK
<1> HIDE DEF h
<1>2. c \in Histories /\ Len(c) = Len(h) - 1
    BY <1>1 DEF Histories
<1> HIDE DEF c
<1>3. c # <<>>
    <2>1. Len(h) \in Nat /\ Len(<<>>) = 0
        BY <1>1, LenProperties DEF Histories
    <2> QED
        BY <1>1, <1>2, <2>1
<1>4. RepoOK'
    BY <1>1, <1>2, <1>3, MoveHeadFits
<1> QED
    BY <1>4, OtherFits DEF ResetByHand

LEMMA CheckOutFits ==
    ASSUME IInv, CheckOut PROVE IInv'
<1>1. \A b \in Branches : Tip(branch[b]) \in Trees
    BY TipOfHistory DEF IInv, RepoOK
<1>2. RepoOK'
    BY <1>1 DEF CheckOut, HeadCommit, IInv, RepoOK
<1> QED
    BY <1>2, OtherFits DEF CheckOut

LEMMA FastForwardByHandFits ==
    ASSUME IInv, FastForwardByHand PROVE IInv'
<1>1. head \in Branches /\ upstream[head] \in Branches
    BY DEF FastForwardByHand, IInv, RepoOK
<1>2. tracking[upstream[head]] \in Histories /\ tracking[upstream[head]] # <<>>
    BY <1>1 DEF IInv, RepoOK
<1>3. Tip(tracking[upstream[head]]) \in Trees
    BY <1>2, TipOfHistory
<1>4. RepoOK'
    BY <1>1, <1>2, <1>3 DEF FastForwardByHand, IInv, RepoOK
<1> QED
    BY <1>4, OtherFits DEF FastForwardByHand

LEMMA RemotesFit ==
    ASSUME IInv, Reconfigure \/ OtherClonePushes PROVE IInv'
<1>1. CASE Reconfigure
    <2>1. RepoOK'
        BY <1>1 DEF Reconfigure, IInv, RepoOK
    <2> QED
        BY <1>1, <2>1, OtherFits DEF Reconfigure
<1>2. CASE OtherClonePushes
    <2>1. PICK u \in Branches, e \in Edits :
              remote' = [remote EXCEPT ![u] =
                            Append(@, [Tip(@) EXCEPT ![e.file] = e.content])]
        BY <1>2 DEF OtherClonePushes
    <2>2. remote[u] \in Histories /\ remote[u] # <<>>
        BY DEF IInv, RepoOK
    <2>3. [Tip(remote[u]) EXCEPT ![e.file] = e.content] \in Trees
        BY <2>2, TipOfHistory, EditFits
    <2> DEFINE c == Append(remote[u], [Tip(remote[u]) EXCEPT ![e.file] = e.content])
    <2>4. c \in Histories /\ c # <<>>
        BY <2>2, <2>3, OneMore
    <2>5. remote' = [remote EXCEPT ![u] = c]
        BY <2>1 DEF IInv, RepoOK
    <2> HIDE DEF c
    <2>6. RepoOK'
        BY <1>2, <2>4, <2>5 DEF OtherClonePushes, IInv, RepoOK
    <2> QED
        BY <1>2, <2>6, OtherFits DEF OtherClonePushes
<1> QED
    BY <1>1, <1>2

-----------------------------------------------------------------------------
(* Every step                                                              *)

\* Steps by others than the clients.
Outside ==
    \/ EditFile \/ StageFile \/ CommitByHand \/ ResetByHand \/ CheckOut
    \/ FastForwardByHand \/ Reconfigure \/ OtherClonePushes

LEMMA OutsideFits ==
    ASSUME IInv, Outside PROVE IInv' /\ edits' # edits
<1>1. IInv'
    BY FilesFit, CommitByHandFits, ResetByHandFits, CheckOutFits, FastForwardByHandFits,
       RemotesFit DEF Outside
<1>2. Other
    BY DEF Outside, EditFile, StageFile, CommitByHand, ResetByHand, CheckOut,
           FastForwardByHand, Reconfigure, OtherClonePushes
<1> QED
    BY <1>1, <1>2 DEF Other, IInv, CountOK

LEMMA ClientStepFits ==
    ASSUME IInv, NEW p \in Clients, ClientStep(p) PROVE IInv'
BY CommitPathsFits, FastForwardFits, PushCallFits, ScansFit, NameBranchFits, ReadParentFits,
   ReadEntriesFits, AddPathFits, StagedChecksFit, AdvanceBranchFits, CompareEntriesFits,
   UpdateIndexFits, RequestFits, FetchFits, ReadTargetFits, ChecksFit, DecideFits,
   ReadUpstreamFits, CaptureHeadFits, SendFits
   DEF ClientStep

LEMMA NextCases ==
    ASSUME [Next]_vars
    PROVE  (\E p \in Clients : ClientStep(p)) \/ Outside \/ UNCHANGED vars
BY DEF Next, Outside, Finished

LEMMA Inductive == IInv /\ [Next]_vars => IInv'
<1> SUFFICES ASSUME IInv, [Next]_vars PROVE IInv'
    OBVIOUS
<1>1. CASE \E p \in Clients : ClientStep(p)
    BY <1>1, ClientStepFits
<1>2. CASE Outside
    BY <1>2, OutsideFits
<1>3. CASE UNCHANGED vars
    BY <1>3 DEF vars, IInv, RepoOK, ClientOK, CountOK, Fits
<1> QED
    BY <1>1, <1>2, <1>3, NextCases

\* Each step of a call or of others leaves the repository with commits and every
\* call with what fits its place (git_sync.py:213-361).
THEOREM Invariance == Spec => []IInv
<1>1. IInv /\ [Next]_vars => IInv'
    BY Inductive
<1> QED
    BY <1>1, Initially, PTL DEF Spec

\* Every variable keeps its type, and a call that relies on a branch has captured
\* one, with a commit (git_sync.py:213-361).
THEOREM TypeCorrect == Spec => []TypeOK
<1>1. IInv => TypeOK
    BY TypeFollows
<1> QED
    BY <1>1, Invariance, PTL

-----------------------------------------------------------------------------
(* Branches and the remote                                                 *)

\* Only one step of a call moves a branch, and only one the remote.
LEMMA BranchMoves ==
    ASSUME IInv, NEW p \in Clients, ClientStep(p)
    PROVE  AdvanceBranch(p) \/ UNCHANGED branch
BY DEF ClientStep, CommitPaths, FastForward, Push, Call, DoctorScan, LiveScan, NameBranch,
       ReadParent, ReadEntries, AddPath, ValidateStaged, RecheckBranch, RecheckHead, CompareEntries,
       UpdateIndex, CheckRequest, Fetch, ReadTarget, RecheckTargetBranch,
       RecheckTargetUpstream, RecheckTarget, RecheckClean, RecheckTargetHead, Decide,
       NamePushedBranch, ReadUpstream, CaptureHead, CheckClean, CheckBranch, CheckHead,
       RecheckPushedBranch, RecheckUpstream, Send, Check, Look,
       repo

LEMMA RemoteMoves ==
    ASSUME IInv, NEW p \in Clients, ClientStep(p)
    PROVE  Send(p) \/ UNCHANGED remote
BY DEF ClientStep, CommitPaths, FastForward, Push, Call, DoctorScan, LiveScan, NameBranch,
       ReadParent, ReadEntries, AddPath, ValidateStaged, RecheckBranch, RecheckHead, CompareEntries,
       UpdateIndex, CheckRequest, Fetch, ReadTarget, RecheckTargetBranch,
       RecheckTargetUpstream, RecheckTarget, RecheckClean, RecheckTargetHead, Decide,
       NamePushedBranch, ReadUpstream, CaptureHead, CheckClean, CheckBranch, CheckHead,
       RecheckPushedBranch, RecheckUpstream, AdvanceBranch,
       Check, Look, repo

AddsOne ==
    edits' = edits =>
         \A b \in Branches : branch'[b] # branch[b] =>
            /\ IsAncestor(branch[b], branch'[b])
            /\ Len(branch'[b]) = Len(branch[b]) + 1
            /\ Sound(Tip(branch'[b]))
            /\ \E p \in Clients : \A a \in Artifacts \ task[p].paths :
                   Tip(branch'[b])[a] = Tip(branch[b])[a]

LEMMA StepAddsOne == IInv /\ [Next]_vars => AddsOne
<1> SUFFICES ASSUME IInv, [Next]_vars, edits' = edits, NEW b \in Branches,
                    branch'[b] # branch[b]
             PROVE  /\ IsAncestor(branch[b], branch'[b])
                    /\ Len(branch'[b]) = Len(branch[b]) + 1
                    /\ Sound(Tip(branch'[b]))
                    /\ \E p \in Clients : \A a \in Artifacts \ task[p].paths :
                           Tip(branch'[b])[a] = Tip(branch[b])[a]
    BY DEF AddsOne
<1>1. PICK p \in Clients : ClientStep(p)
    BY NextCases, OutsideFits DEF vars
<1>2. AdvanceBranch(p)
    BY <1>1, BranchMoves
<1>3. /\ branch[b] = task[p].base /\ pc[p] = "advancing"
      /\ branch'[b] = Append(branch[b], task[p].staged)
    BY <1>2, AdvanceBranchFits
<1>4. task[p].staged \in Trees /\ branch[b] \in Histories /\ Fits(p)
    BY Known DEF Tasks, IInv, RepoOK
<1>5. /\ Sound(task[p].staged)
      /\ \A a \in Artifacts \ task[p].paths : task[p].staged[a] = Tip(branch[b])[a]
    BY <1>3, <1>4 DEF Fits, StagedFits
<1>6. /\ Tip(branch'[b]) = task[p].staged
      /\ IsAncestor(branch[b], branch'[b]) /\ Len(branch'[b]) = Len(branch[b]) + 1
    BY <1>3, <1>4, OneMore
<1> QED
    BY <1>5, <1>6

\* For any clients, files, branches and interference, a branch only grows by one
\* sound commit that changes the files of one call (git_sync.py:257-261).
THEOREM CommitsAdd == Spec => CommitsOnlyAdd
<1>1. IInv /\ [Next]_vars => AddsOne
    BY StepAddsOne
<1> QED
    BY <1>1, Invariance, PTL DEF Spec, CommitsOnlyAdd, AddsOne

Validated ==
    edits' = edits =>
         \A u \in Branches : remote'[u] # remote[u] =>
            IsAncestor(remote[u], remote'[u]) /\ Sound(Tip(remote'[u]))

LEMMA StepValidated == IInv /\ [Next]_vars => Validated
<1> SUFFICES ASSUME IInv, [Next]_vars, edits' = edits, NEW u \in Branches,
                    remote'[u] # remote[u]
             PROVE  IsAncestor(remote[u], remote'[u]) /\ Sound(Tip(remote'[u]))
    BY DEF Validated
<1>1. PICK p \in Clients : ClientStep(p)
    BY NextCases, OutsideFits DEF vars
<1>2. Send(p)
    BY <1>1, RemoteMoves
<1> QED
    BY <1>2, SendFits

\* For any clients, files, branches and interference, the remote only moves
\* forward, to a tree that Doctor has accepted (git_sync.py:348-361).
THEOREM PushesChecked == Spec => PushesOnlyChecked
<1>1. IInv /\ [Next]_vars => Validated
    BY StepValidated
<1> QED
    BY <1>1, Invariance, PTL DEF Spec, PushesOnlyChecked, Validated

-----------------------------------------------------------------------------
(* Calls in which nobody interfered                                        *)

\* What a call in which nobody interfered knows of the repository.
ToCommit == {"entries", "adding", "validating", "rechecking", "recheckhead", "advancing"}
AfterCommit == {"comparing", "indexing"}
Staging == ToCommit \ {"entries"}
AfterTarget == {"sameref", "sameup", "sametarget", "clean2", "same2", "samehead2"}
AfterClean == {"same", "samehead", "target", "configured2", "upstream2", "sending"}
                  \cup AfterTarget
AfterLive == {"naming", "parent", "clean"} \cup ToCommit \cup AfterCommit \cup AfterClean
Transport(place, t) == place \in Captured /\ t.op \in {"push", "forward"}

ScansSeen(place) ==
    /\ place \in {"live"} \cup AfterLive => Sound(worktree)
    /\ place \in AfterLive => TreeAuthorized(worktree)

StartSeen(place, t) ==
    /\ place # "idle" => index = t.wasIndex
    /\ place \notin {"idle"} \cup AfterCommit => HeadCommit = t.wasHead

HeadSeen(place, t) ==
    /\ \/ place \in {"parent", "upstream", "capturing"} \cup ToCommit \cup AfterCommit
       \/ Transport(place, t)
       => head = t.ref /\ head # Detached
    /\ place \in ToCommit \/ Transport(place, t) => t.base = HeadCommit

UpstreamSeen(place, t) ==
    /\ place = "capturing" \/ Transport(place, t) => t.up = upstream[head]
    /\ place \in {"configured", "upstream", "capturing"} \cup Captured /\ t.op = "forward" =>
         tracking = remote
    /\ place \in AfterClean => Clean
    /\ place \in AfterTarget => t.target = tracking[t.up] /\ Sound(Tip(t.target))

StagedSeen(place, t) ==
    /\ place \in Staging \cup AfterCommit =>
         /\ t.before = index
         /\ \A a \in Artifacts :
              t.staged[a] = IF a \in t.paths \ t.todo THEN worktree[a] ELSE Tip(t.base)[a]
    /\ place \in AfterCommit =>
         /\ t.base = t.wasHead /\ Sound(t.staged)
         /\ branch[head] = Append(t.base, t.staged)

AnswerSeen(p) ==
    pc[p] = "idle" =>
        /\ result[p] = "committed" => UndisturbedCommit(p)
        /\ result[p] = "pushed" => UndisturbedPush(p)
        /\ result[p] \in {"up-to-date", "manual", "ahead", "divergent"}
               => UndisturbedForward(p)

Seen(place, t) ==
    /\ ScansSeen(place) /\ StartSeen(place, t) /\ HeadSeen(place, t)
    /\ UpstreamSeen(place, t) /\ StagedSeen(place, t)

SeenAt(p) == p \notin disturbed => Seen(pc[p], task[p]) /\ AnswerSeen(p)

LEMMA SeenAtFirst == Init => \A p \in Clients : SeenAt(p)
BY DEF Init, SeenAt, Seen, ScansSeen, StartSeen, HeadSeen, UpstreamSeen, StagedSeen, AnswerSeen,
       Captured, ToCommit, AfterCommit, Staging, AfterLive, AfterClean, AfterTarget, Transport

\* Of a call that has returned only the answer is asked.
LEMMA SeenIdle == ASSUME NEW t PROVE Seen("idle", t)
BY DEF Seen, ScansSeen, StartSeen, HeadSeen, UpstreamSeen, StagedSeen, Captured, ToCommit,
       AfterCommit, Staging, AfterLive, AfterClean, AfterTarget, Transport

\* Another's step is noticed, or leaves the repository as it is.
LEMMA OthersSee ==
    ASSUME NEW q \in Clients, SeenAt(q),
           pc'[q] = pc[q], task'[q] = task[q], result'[q] = result[q],
           q \notin disturbed' => q \notin disturbed /\ UNCHANGED repo
    PROVE  SeenAt(q)'
<1> SUFFICES ASSUME q \notin disturbed' PROVE Seen(pc[q], task[q])' /\ AnswerSeen(q)'
    BY DEF SeenAt, Seen, ScansSeen, StartSeen, HeadSeen, UpstreamSeen, StagedSeen
<1>1. Seen(pc[q], task[q]) /\ AnswerSeen(q) /\ UNCHANGED repo
    BY DEF SeenAt
<1>2. Seen(pc[q], task[q])'
    BY <1>1 DEF repo, Seen, ScansSeen, StartSeen, HeadSeen, UpstreamSeen, StagedSeen,
                HeadCommit, Clean
<1>3. AnswerSeen(q)'
    BY <1>1 DEF repo, AnswerSeen, UndisturbedCommit, UndisturbedPush, UndisturbedForward, Clean,
                HeadCommit
<1> QED
    BY <1>2, <1>3

LEMMA SeenRefused ==
    ASSUME IInv, NEW p \in Clients, Return(p, "refused") PROVE SeenAt(p)'
<1>1. pc'[p] = "idle" /\ result'[p] = "refused"
    BY DEF Return, IInv, ClientOK
<1>2. AnswerSeen(p)'
    BY <1>1 DEF AnswerSeen
<1>3. Seen(pc[p], task[p])'
    BY <1>1 DEF Seen, ScansSeen, StartSeen, HeadSeen, UpstreamSeen, StagedSeen, Captured,
                ToCommit, AfterCommit, Staging, AfterLive, AfterClean, AfterTarget, Transport
<1> QED
    BY <1>2, <1>3 DEF SeenAt

\* A call that looks and goes on, with what it has seen.
LEMMA SeenGoing ==
    ASSUME IInv, NEW p \in Clients, NEW place \in Places, NEW t \in Tasks,
           Proceed(p, place, t), Look, place # "idle",
           p \notin disturbed => Seen(place, t)
    PROVE  SeenAt(p)'
<1>1. pc'[p] = place /\ task'[p] = t
    BY ProceedMoves, MoveKeeps DEF IInv
<1>2. UNCHANGED repo /\ disturbed' = disturbed
    BY DEF Look
<1>3. AnswerSeen(p)'
    BY <1>1 DEF AnswerSeen
<1>4. p \notin disturbed => Seen(pc[p], task[p])'
    BY <1>1, <1>2 DEF repo, Seen, ScansSeen, StartSeen, HeadSeen, UpstreamSeen, StagedSeen,
                      HeadCommit, Clean
<1> QED
    BY <1>2, <1>3, <1>4 DEF SeenAt

LEMMA SeenChecking ==
    ASSUME IInv, NEW p \in Clients, NEW condition, NEW place \in Places, NEW t,
           Check(p, condition, place, t), place # "idle",
           condition => t \in Tasks /\ (p \notin disturbed => Seen(place, t))
    PROVE  SeenAt(p)'
BY SeenGoing, SeenRefused DEF Check

LEMMA CallSeen ==
    ASSUME IInv, NEW p \in Clients, NEW t \in Tasks, NEW place \in Places,
           Call(p, t, place),
           place \in {"doctor", "requested", "configured"},
           place = "doctor" => t.op = "commit",
           place = "configured" => t.op = "push"
    PROVE  SeenAt(p)'
<1> DEFINE u == [t EXCEPT !.wasIndex = index, !.wasHead = HeadCommit]
<1>1. u \in Tasks
    BY Known DEF Tasks, IInv, RepoOK
<1>2. u.op = t.op /\ u.wasIndex = index /\ u.wasHead = HeadCommit
    BY DEF Tasks
<1>3. Proceed(p, place, u) /\ UNCHANGED repo
    BY DEF Call
<1> HIDE DEF u
<1>4. pc'[p] = place /\ task'[p] = u
    BY <1>1, <1>3, ProceedMoves, MoveKeeps DEF IInv
<1>5. AnswerSeen(p)'
    BY <1>4 DEF AnswerSeen
<1>6. Seen(pc[p], task[p])'
    BY <1>2, <1>3, <1>4
       DEF repo, Seen, ScansSeen, StartSeen, HeadSeen, UpstreamSeen, StagedSeen, HeadCommit,
           Captured, ToCommit, AfterCommit, Staging, AfterLive, AfterClean, AfterTarget,
           Transport
<1> QED
    BY <1>5, <1>6 DEF SeenAt

LEMMA CallsSeen ==
    ASSUME IInv, NEW p \in Clients, CommitPaths(p) \/ FastForward(p) \/ Push(p)
    PROVE  SeenAt(p)'
<1>1. CASE CommitPaths(p)
    <2>1. PICK paths \in SUBSET Artifacts :
              Call(p, [NoTask EXCEPT !.op = "commit", !.paths = paths, !.todo = paths], "doctor")
        BY <1>1 DEF CommitPaths
    <2> DEFINE t == [NoTask EXCEPT !.op = "commit", !.paths = paths, !.todo = paths]
    <2>2. t \in Tasks /\ t.op = "commit"
        BY NoTaskTyped DEF Tasks
    <2>3. Call(p, t, "doctor")
        BY <2>1
    <2> HIDE DEF t
    <2> QED
        BY <2>2, <2>3, CallSeen DEF Places
<1>2. CASE FastForward(p)
    <2> DEFINE t == [NoTask EXCEPT !.op = "forward"]
    <2>1. t \in Tasks /\ Call(p, t, "requested")
        BY <1>2, NoTaskTyped DEF Tasks, FastForward
    <2> HIDE DEF t
    <2> QED
        BY <2>1, CallSeen DEF Places
<1>3. CASE Push(p)
    <2> DEFINE t == [NoTask EXCEPT !.op = "push"]
    <2>1. t \in Tasks /\ t.op = "push" /\ Call(p, t, "configured")
        BY <1>3, NoTaskTyped DEF Tasks, Push
    <2> HIDE DEF t
    <2> QED
        BY <2>1, CallSeen DEF Places
<1> QED
    BY <1>1, <1>2, <1>3

\* The steps that go on with what they had.
LEMMA ScansSee ==
    ASSUME IInv, NEW p \in Clients, SeenAt(p), DoctorScan(p) \/ LiveScan(p)
    PROVE  SeenAt(p)'
<1> task[p] \in Tasks /\ Fits(p)
    BY Known
<1> USE DEF SeenAt, Seen, ScansSeen, StartSeen, HeadSeen, UpstreamSeen, StagedSeen, Captured,
            ToCommit, AfterCommit, Staging, AfterLive, AfterClean, AfterTarget, Transport
<1>1. CASE DoctorScan(p)
    <2>1. Sound(worktree) => (p \notin disturbed => Seen("live", task[p]))
        BY <1>1 DEF DoctorScan
    <2> QED
        BY <1>1, <2>1, SeenChecking DEF DoctorScan, Places
<1>2. CASE LiveScan(p)
    <2> DEFINE place == IF task[p].op = "commit" THEN "naming" ELSE "clean"
    <2>1. pc[p] = "live" /\ Check(p, TreeAuthorized(worktree), place, task[p])
        BY <1>2 DEF LiveScan
    <2>2. TreeAuthorized(worktree) => (p \notin disturbed => Seen(place, task[p]))
        BY <2>1 DEF Fits, OpFits
    <2>3. place \in Places /\ place # "idle"
        BY DEF Places
    <2> HIDE DEF place
    <2> QED
        BY <2>1, <2>2, <2>3, SeenChecking
<1> QED
    BY <1>1, <1>2

LEMMA NameBranchSeen ==
    ASSUME IInv, NEW p \in Clients, SeenAt(p), NameBranch(p) \/ NamePushedBranch(p)
    PROVE  SeenAt(p)'
<1> DEFINE t == [task[p] EXCEPT !.ref = head]
<1>1. task[p] \in Tasks /\ Fits(p) /\ (head # Detached => head \in Branches)
    BY Known
<1>2. ASSUME head # Detached
      PROVE  /\ t \in Tasks
             /\ t.ref = head
             /\ t.op = task[p].op /\ t.paths = task[p].paths /\ t.todo = task[p].todo
             /\ t.base = task[p].base /\ t.up = task[p].up /\ t.before = task[p].before
             /\ t.staged = task[p].staged /\ t.target = task[p].target
             /\ t.wasIndex = task[p].wasIndex /\ t.wasHead = task[p].wasHead
    BY <1>1, <1>2 DEF Tasks
<1>3. NameBranch(p) => pc[p] = "naming" /\ Check(p, head # Detached, "parent", t)
    BY DEF NameBranch
<1>4. NamePushedBranch(p) => pc[p] = "configured" /\ Check(p, head # Detached, "upstream", t)
    BY DEF NamePushedBranch
<1> HIDE DEF t
<1>5. head # Detached /\ pc[p] = "naming" => (p \notin disturbed => Seen("parent", t))
    BY <1>1, <1>2
       DEF Fits, OpFits, SeenAt, Seen, ScansSeen, StartSeen, HeadSeen, UpstreamSeen, StagedSeen,
           Captured, ToCommit, AfterCommit, Staging, AfterLive, AfterClean, AfterTarget,
           Transport
<1>6. head # Detached /\ pc[p] = "configured" => (p \notin disturbed => Seen("upstream", t))
    BY <1>1, <1>2
       DEF Fits, OpFits, SeenAt, Seen, ScansSeen, StartSeen, HeadSeen, UpstreamSeen, StagedSeen,
           Captured, ToCommit, AfterCommit, Staging, AfterLive, AfterClean, AfterTarget,
           Transport
<1>7. CASE NameBranch(p)
    BY <1>2, <1>3, <1>5, <1>7, SeenChecking DEF Places
<1>8. CASE NamePushedBranch(p)
    BY <1>2, <1>4, <1>6, <1>8, SeenChecking DEF Places
<1> QED
    BY <1>7, <1>8

LEMMA ReadParentSeen ==
    ASSUME IInv, NEW p \in Clients, SeenAt(p), ReadParent(p) PROVE SeenAt(p)'
<1> DEFINE t == [task[p] EXCEPT !.base = HeadCommit, !.staged = Tip(HeadCommit)]
<1>1. /\ task[p] \in Tasks /\ Fits(p) /\ pc[p] = "parent"
      /\ HeadCommit \in Histories /\ Tip(HeadCommit) \in Trees
    BY Known DEF ReadParent
<1>2. /\ t \in Tasks
      /\ t.base = HeadCommit /\ t.staged = Tip(HeadCommit)
      /\ t.op = task[p].op /\ t.ref = task[p].ref
      /\ t.wasIndex = task[p].wasIndex /\ t.wasHead = task[p].wasHead
    BY <1>1 DEF Tasks
<1>3. Proceed(p, "entries", t) /\ Look
    BY DEF ReadParent
<1> HIDE DEF t
<1>4. p \notin disturbed => Seen("entries", t)
    BY <1>1, <1>2
       DEF Fits, OpFits, SeenAt, Seen, ScansSeen, StartSeen, HeadSeen, UpstreamSeen, StagedSeen,
           Captured, ToCommit, AfterCommit, Staging, AfterLive, AfterClean, AfterTarget,
           Transport
<1> QED
    BY <1>2, <1>3, <1>4, SeenGoing DEF Places

LEMMA ReadEntriesSeen ==
    ASSUME IInv, NEW p \in Clients, SeenAt(p), ReadEntries(p) PROVE SeenAt(p)'
<1> DEFINE t == [task[p] EXCEPT !.before = index]
<1>1. /\ task[p] \in Tasks /\ Fits(p) /\ pc[p] = "entries"
      /\ task[p].staged = Tip(task[p].base) /\ task[p].todo = task[p].paths
      /\ task[p].op = "commit"
    BY Known DEF ReadEntries, Fits, StagedFits, OpFits
<1>2. /\ t \in Tasks /\ t.before = index
      /\ t.base = task[p].base /\ t.staged = task[p].staged /\ t.op = task[p].op
      /\ t.todo = task[p].todo /\ t.paths = task[p].paths /\ t.ref = task[p].ref
      /\ t.wasIndex = task[p].wasIndex /\ t.wasHead = task[p].wasHead
    BY <1>1 DEF Tasks, IInv, RepoOK
<1> HIDE DEF t
<1>3. Proceed(p, "adding", t) /\ Look
    BY DEF ReadEntries, t
<1>4. p \notin disturbed => Seen("adding", t)
    BY <1>1, <1>2
       DEF SeenAt, Seen, ScansSeen, StartSeen, HeadSeen, UpstreamSeen, StagedSeen,
           Captured, ToCommit, AfterCommit, Staging, AfterLive, AfterClean, AfterTarget,
           Transport
<1> QED
    BY <1>2, <1>3, <1>4, SeenGoing DEF Places

LEMMA AddPathSeen ==
    ASSUME IInv, NEW p \in Clients, SeenAt(p), AddPath(p) PROVE SeenAt(p)'
<1>1. PICK a \in task[p].todo :
         Proceed(p, IF task[p].todo = {a} THEN "validating" ELSE "adding",
                 [task[p] EXCEPT !.staged[a] = worktree[a], !.todo = @ \ {a}])
    BY DEF AddPath
<1> DEFINE t == [task[p] EXCEPT !.staged[a] = worktree[a], !.todo = @ \ {a}]
           place == IF task[p].todo = {a} THEN "validating" ELSE "adding"
<1>2. /\ task[p] \in Tasks /\ Fits(p) /\ pc[p] = "adding" /\ Look
      /\ task[p].op = "commit" /\ task[p].todo \subseteq task[p].paths
    BY Known DEF AddPath, Fits, StagedFits, OpFits
<1>3. task[p].staged \in Trees /\ worktree \in Trees /\ a \in Artifacts
    BY <1>2 DEF Tasks, IInv, RepoOK
<1>4. [task[p].staged EXCEPT ![a] = worktree[a]] \in Trees
    BY <1>3 DEF Trees
<1>5. /\ t \in Tasks
      /\ t.staged = [task[p].staged EXCEPT ![a] = worktree[a]]
      /\ t.base = task[p].base /\ t.op = task[p].op /\ t.before = task[p].before
      /\ t.todo = task[p].todo \ {a} /\ t.paths = task[p].paths /\ t.ref = task[p].ref
      /\ t.wasIndex = task[p].wasIndex /\ t.wasHead = task[p].wasHead
    BY <1>2, <1>4 DEF Tasks
<1>6. place \in {"adding", "validating"} /\ place \in Places /\ Proceed(p, place, t)
    BY <1>1 DEF Places
<1> HIDE DEF t, place
<1>7. ASSUME p \notin disturbed PROVE StagedSeen(place, t)
    <2>1. /\ task[p].before = index
          /\ \A b \in Artifacts : task[p].staged[b] =
                IF b \in task[p].paths \ task[p].todo THEN worktree[b] ELSE Tip(task[p].base)[b]
        BY <1>2, <1>7 DEF SeenAt, Seen, StagedSeen, Staging, ToCommit
    <2>2. ASSUME NEW b \in Artifacts
          PROVE  t.staged[b] = IF b \in t.paths \ t.todo THEN worktree[b] ELSE Tip(t.base)[b]
        <3>1. CASE b = a
            BY <1>2, <1>3, <1>5, <3>1 DEF Trees
        <3>2. CASE b # a
            BY <1>3, <1>5, <2>1, <3>2 DEF Trees
        <3> QED
            BY <3>1, <3>2
    <2> QED
        BY <1>5, <1>6, <2>1, <2>2 DEF StagedSeen, AfterCommit
<1>8. p \notin disturbed =>
        /\ ScansSeen(place) /\ StartSeen(place, t) /\ HeadSeen(place, t)
        /\ UpstreamSeen(place, t)
    BY <1>2, <1>5, <1>6
       DEF SeenAt, Seen, ScansSeen, StartSeen, HeadSeen, UpstreamSeen,
           Captured, ToCommit, AfterCommit, AfterLive, AfterClean, AfterTarget, Transport
<1>9. p \notin disturbed => Seen(place, t)
    BY <1>7, <1>8 DEF Seen
<1> QED
    BY <1>2, <1>5, <1>6, <1>9, SeenGoing

LEMMA StagedChecksSee ==
    ASSUME IInv, NEW p \in Clients, SeenAt(p),
           ValidateStaged(p) \/ RecheckBranch(p) \/ RecheckHead(p)
    PROVE  SeenAt(p)'
<1> task[p] \in Tasks /\ Fits(p)
    BY Known
<1> USE DEF SeenAt, Seen, ScansSeen, StartSeen, HeadSeen, UpstreamSeen, StagedSeen, Captured,
            ToCommit, AfterCommit, Staging, AfterLive, AfterClean, AfterTarget, Transport
<1>1. CASE ValidateStaged(p)
    <2>1. p \notin disturbed => Seen("rechecking", task[p])
        BY <1>1 DEF ValidateStaged, Fits, OpFits
    <2> QED
        BY <1>1, <2>1, SeenChecking DEF ValidateStaged, Places
<1>2. CASE RecheckHead(p)
    <2>1. p \notin disturbed => Seen("advancing", task[p])
        BY <1>2 DEF RecheckHead, Fits, OpFits
    <2> QED
        BY <1>2, <2>1, SeenChecking DEF RecheckHead, Places
<1>3. CASE RecheckBranch(p)
    <2>1. p \notin disturbed => Seen("recheckhead", task[p])
        BY <1>3 DEF RecheckBranch, Fits, OpFits
    <2> QED
        BY <1>3, <2>1, SeenChecking DEF RecheckBranch, Places
<1> QED
    BY <1>1, <1>2, <1>3

\* Undisturbed, the branch is the one the call was about.
LEMMA AdvanceBranchSeen ==
    ASSUME IInv, NEW p \in Clients, SeenAt(p), AdvanceBranch(p) PROVE SeenAt(p)'
<1>1. /\ task[p] \in Tasks /\ Fits(p) /\ pc[p] = "advancing"
      /\ task[p].op = "commit" /\ task[p].ref \in Branches /\ Sound(task[p].staged)
    BY Known DEF AdvanceBranch, Fits, OpFits, BaseFits, StagedFits, Captured
<1>2. CASE RefUnmoved(p)
    <2>1. /\ branch' = [branch EXCEPT ![task[p].ref] = Append(task[p].base, task[p].staged)]
          /\ disturbed' = disturbed \cup (Clients \ {p}) /\ Proceed(p, "comparing", task[p])
          /\ UNCHANGED <<worktree, index, head, loose, upstream, tracking, remote>>
        BY <1>2 DEF AdvanceBranch, Disturb
    <2>2. pc'[p] = "comparing" /\ task'[p] = task[p]
        BY <1>1, <2>1, ProceedMoves, MoveKeeps DEF IInv, Places
    <2>3. AnswerSeen(p)'
        BY <2>2 DEF AnswerSeen
    <2>4. ASSUME p \notin disturbed PROVE Seen(pc[p], task[p])'
        <3>1. /\ head = task[p].ref /\ head # Detached /\ task[p].base = HeadCommit
              /\ HeadCommit = task[p].wasHead /\ index = task[p].wasIndex
              /\ Sound(worktree) /\ TreeAuthorized(worktree)
              /\ StagedSeen("advancing", task[p])
            BY <1>1, <2>4 DEF SeenAt, Seen, ScansSeen, StartSeen, HeadSeen, UpstreamSeen, StagedSeen,
           Captured, ToCommit, AfterCommit, Staging, AfterLive, AfterClean, AfterTarget,
           Transport
        <3>2. branch'[head'] = Append(task[p].base, task[p].staged)
            BY <1>1, <2>1, <3>1 DEF IInv, RepoOK
        <3>3. StagedSeen(pc[p], task[p])'
            BY <1>1, <2>1, <2>2, <3>1, <3>2 DEF StagedSeen, Staging, ToCommit, AfterCommit
        <3>4. /\ ScansSeen(pc[p])' /\ StartSeen(pc[p], task[p])' /\ HeadSeen(pc[p], task[p])'
              /\ UpstreamSeen(pc[p], task[p])'
            BY <1>1, <2>1, <2>2, <3>1
               DEF ScansSeen, StartSeen, HeadSeen, UpstreamSeen, Captured, ToCommit,
                   AfterCommit, AfterLive, AfterClean, AfterTarget, Transport
        <3> QED
            BY <3>3, <3>4 DEF Seen
    <2> QED
        BY <2>1, <2>3, <2>4 DEF SeenAt
<1>3. CASE ~RefUnmoved(p)
    BY <1>3, SeenRefused DEF AdvanceBranch
<1> QED
    BY <1>2, <1>3

\* Undisturbed, the index is still as it was, and is updated.
LEMMA CompareEntriesSeen ==
    ASSUME IInv, NEW p \in Clients, SeenAt(p), CompareEntries(p) PROVE SeenAt(p)'
<1>1. task[p] \in Tasks /\ Fits(p) /\ pc[p] = "comparing" /\ Look /\ task[p].op = "commit"
    BY Known DEF CompareEntries, Fits, OpFits
<1>2. CASE Proceed(p, "indexing", task[p])
    <2>1. p \notin disturbed => Seen("indexing", task[p])
        BY <1>1 DEF SeenAt, Seen, ScansSeen, StartSeen, HeadSeen, UpstreamSeen, StagedSeen,
           Captured, ToCommit, AfterCommit, Staging, AfterLive, AfterClean, AfterTarget,
           Transport
    <2> QED
        BY <1>1, <1>2, <2>1, SeenGoing DEF Places
<1>3. CASE ~ \A a \in task[p].paths : index[a] = task[p].before[a]
    <2>1. p \in disturbed
        BY <1>1, <1>3 DEF SeenAt, Seen, StagedSeen, AfterCommit
    <2> QED
        BY <1>1, <2>1 DEF SeenAt, Look
<1> QED
    BY <1>2, <1>3 DEF CompareEntries

LEMMA UpdateIndexSeen ==
    ASSUME IInv, NEW p \in Clients, SeenAt(p), UpdateIndex(p) PROVE SeenAt(p)'
<1>1. /\ task[p] \in Tasks /\ Fits(p) /\ pc[p] = "indexing" /\ Return(p, "committed")
      /\ task[p].op = "commit" /\ task[p].todo = {} /\ task[p].base \in Histories
      /\ task[p].staged \in Trees /\ task[p].paths \subseteq Artifacts /\ index \in Trees
      /\ disturbed' = disturbed \cup (Clients \ {p})
      /\ UNCHANGED <<worktree, head, branch, upstream, tracking, remote>>
    BY Known DEF UpdateIndex, Disturb, Fits, OpFits, StagedFits, Tasks, IInv, RepoOK
<1>2. /\ pc'[p] = "idle" /\ result'[p] = "committed" /\ task'[p] = Left(task[p], "committed")
    BY <1>1, ReturnMoves, MoveKeeps DEF IInv, Places, Results
<1>3. /\ task'[p].paths = task[p].paths /\ task'[p].wasIndex = task[p].wasIndex
      /\ task'[p].wasHead = task[p].wasHead
    BY <1>2, NoTaskTyped DEF Left, Tasks
<1>4. ASSUME p \notin disturbed PROVE UndisturbedCommit(p)'
    <2>1. /\ head = task[p].ref /\ head # Detached /\ index = task[p].wasIndex
          /\ Sound(worktree) /\ TreeAuthorized(worktree)
          /\ StagedSeen("indexing", task[p])
        BY <1>1, <1>4 DEF SeenAt, Seen, ScansSeen, StartSeen, HeadSeen, UpstreamSeen, StagedSeen,
           Captured, ToCommit, AfterCommit, Staging, AfterLive, AfterClean, AfterTarget,
           Transport
    <2>2. /\ branch[head] = Append(task[p].wasHead, task[p].staged)
          /\ task[p].base = task[p].wasHead /\ Sound(task[p].staged)
          /\ \A a \in Artifacts : task[p].staged[a] =
                IF a \in task[p].paths THEN worktree[a] ELSE Tip(task[p].wasHead)[a]
        BY <1>1, <2>1 DEF StagedSeen, AfterCommit
    <2>3. Tip(branch[head]) = task[p].staged
        BY <1>1, <2>2, OneMore
    <2>4. task[p].staged = [a \in Artifacts |-> IF a \in task[p].paths THEN worktree[a]
                                                ELSE Tip(task[p].wasHead)[a]]
        BY <1>1, <2>2 DEF Trees
    <2>5. index' = [a \in Artifacts |-> IF a \in task[p].paths THEN worktree[a]
                                                               ELSE task[p].wasIndex[a]]
        BY <1>1, <2>1, <2>2 DEF UpdateIndex
    <2> QED
        BY <1>1, <1>3, <2>1, <2>2, <2>3, <2>4, <2>5 DEF UndisturbedCommit
<1>5. Seen(pc[p], task[p])'
    BY <1>2 DEF SeenAt, Seen, ScansSeen, StartSeen, HeadSeen, UpstreamSeen, StagedSeen,
           Captured, ToCommit, AfterCommit, Staging, AfterLive, AfterClean, AfterTarget,
           Transport
<1>6. p \notin disturbed => AnswerSeen(p)'
    BY <1>2, <1>4 DEF AnswerSeen
<1> QED
    BY <1>1, <1>5, <1>6 DEF SeenAt

LEMMA RequestSeen ==
    ASSUME IInv, NEW p \in Clients, SeenAt(p), CheckRequest(p) PROVE SeenAt(p)'
<1>1. task[p] \in Tasks /\ Fits(p) /\ pc[p] = "requested" /\ task[p].op = "forward"
    BY Known DEF CheckRequest, Fits, OpFits
<1>2. p \notin disturbed => Seen("fetching", task[p])
    BY <1>1 DEF SeenAt, Seen, ScansSeen, StartSeen, HeadSeen, UpstreamSeen, StagedSeen,
           Captured, ToCommit, AfterCommit, Staging, AfterLive, AfterClean, AfterTarget,
           Transport
<1> QED
    BY <1>1, <1>2, SeenChecking DEF CheckRequest, Places

LEMMA FetchSeen ==
    ASSUME IInv, NEW p \in Clients, SeenAt(p), Fetch(p) PROVE SeenAt(p)'
<1>1. /\ task[p] \in Tasks /\ Fits(p) /\ pc[p] = "fetching" /\ task[p].op = "forward"
      /\ tracking' = remote /\ Proceed(p, "configured", task[p])
      /\ disturbed' = disturbed \cup (Clients \ {p})
      /\ UNCHANGED <<worktree, index, head, loose, branch, upstream, remote>>
    BY Known DEF Fetch, Disturb, Fits, OpFits
<1>2. pc'[p] = "configured" /\ task'[p] = task[p]
    BY <1>1, ProceedMoves, MoveKeeps DEF IInv, Places
<1>3. AnswerSeen(p)'
    BY <1>2 DEF AnswerSeen
<1>4. p \notin disturbed => Seen(pc[p], task[p])'
    BY <1>1, <1>2 DEF HeadCommit, SeenAt, Seen, ScansSeen, StartSeen, HeadSeen, UpstreamSeen,
           StagedSeen, Captured, ToCommit, AfterCommit, Staging, AfterLive, AfterClean,
           AfterTarget, Transport
<1> QED
    BY <1>1, <1>3, <1>4 DEF SeenAt

LEMMA ReadUpstreamSeen ==
    ASSUME IInv, NEW p \in Clients, SeenAt(p), ReadUpstream(p) PROVE SeenAt(p)'
<1> DEFINE t == [task[p] EXCEPT !.up = upstream[head]]
<1>1. /\ task[p] \in Tasks /\ Fits(p) /\ pc[p] = "upstream"
      /\ head # Detached => upstream[head] \in Branches
    BY Known DEF ReadUpstream
<1>2. ASSUME head # Detached
      PROVE  /\ t \in Tasks
             /\ t.ref = task[p].ref /\ t.op = task[p].op /\ t.up = upstream[head]
             /\ t.wasIndex = task[p].wasIndex /\ t.wasHead = task[p].wasHead
    BY <1>1, <1>2 DEF Tasks
<1>3. Check(p, head # Detached, "capturing", t)
    BY DEF ReadUpstream
<1> HIDE DEF t
<1>4. head # Detached => (p \notin disturbed => Seen("capturing", t))
    BY <1>1, <1>2
       DEF Fits, OpFits, SeenAt, Seen, ScansSeen, StartSeen, HeadSeen, UpstreamSeen, StagedSeen,
           Captured, ToCommit, AfterCommit, Staging, AfterLive, AfterClean, AfterTarget,
           Transport
<1> QED
    BY <1>2, <1>3, <1>4, SeenChecking DEF Places

LEMMA CaptureHeadSeen ==
    ASSUME IInv, NEW p \in Clients, SeenAt(p), CaptureHead(p) PROVE SeenAt(p)'
<1> DEFINE t == [task[p] EXCEPT !.base = HeadCommit]
           goes == task[p].op = "push" => Sound(Tip(HeadCommit))
<1>1. /\ task[p] \in Tasks /\ Fits(p) /\ pc[p] = "capturing" /\ HeadCommit \in Histories
      /\ task[p].op \in {"push", "forward"}
    BY Known DEF CaptureHead, Fits, OpFits
<1>2. /\ t \in Tasks
      /\ t.base = HeadCommit /\ t.ref = task[p].ref
      /\ t.op = task[p].op /\ t.up = task[p].up
      /\ t.wasIndex = task[p].wasIndex /\ t.wasHead = task[p].wasHead
    BY <1>1 DEF Tasks
<1>3. Check(p, goes, "doctor", t)
    BY DEF CaptureHead
<1> HIDE DEF t, goes
<1>4. p \notin disturbed => Seen("doctor", t)
    BY <1>1, <1>2 DEF SeenAt, Seen, ScansSeen, StartSeen, HeadSeen, UpstreamSeen, StagedSeen,
           Captured, ToCommit, AfterCommit, Staging, AfterLive, AfterClean, AfterTarget,
           Transport
<1> QED
    BY <1>2, <1>3, <1>4, SeenChecking DEF Places

LEMMA ChecksSee ==
    ASSUME IInv, NEW p \in Clients, SeenAt(p),
           \/ CheckClean(p) \/ CheckBranch(p) \/ CheckHead(p)
           \/ RecheckPushedBranch(p) \/ RecheckUpstream(p)
           \/ RecheckTargetBranch(p) \/ RecheckTargetUpstream(p) \/ RecheckTarget(p)
           \/ RecheckClean(p) \/ RecheckTargetHead(p)
    PROVE  SeenAt(p)'
<1> task[p] \in Tasks /\ Fits(p)
    BY Known
<1> USE DEF SeenAt, Seen, ScansSeen, StartSeen, HeadSeen, UpstreamSeen, StagedSeen, Captured,
            ToCommit, AfterCommit, Staging, AfterLive, AfterClean, AfterTarget, Transport
<1>1. CASE CheckClean(p)
    <2>1. Clean => (p \notin disturbed => Seen("same", task[p]))
        BY <1>1 DEF CheckClean, Fits, OpFits
    <2> QED
        BY <1>1, <2>1, SeenChecking DEF CheckClean, Places
<1>2. CASE CheckHead(p)
    <2> DEFINE place == IF task[p].op = "push" THEN "configured2" ELSE "target"
    <2>1. pc[p] = "samehead" /\ Check(p, SameCommit(p), place, task[p])
        BY <1>2 DEF CheckHead
    <2>2. p \notin disturbed => Seen(place, task[p])
        BY <2>1 DEF Fits, OpFits
    <2>3. place \in Places /\ place # "idle"
        BY DEF Places
    <2> HIDE DEF place
    <2> QED
        BY <2>1, <2>2, <2>3, SeenChecking
<1>3. CASE RecheckUpstream(p)
    <2>1. p \notin disturbed => Seen("sending", task[p])
        BY <1>3 DEF RecheckUpstream, Fits, OpFits
    <2> QED
        BY <1>3, <2>1, SeenChecking DEF RecheckUpstream, Places
<1>4. CASE RecheckTarget(p)
    <2>1. p \notin disturbed => Seen("clean2", task[p])
        BY <1>4 DEF RecheckTarget, Fits, OpFits
    <2> QED
        BY <1>4, <2>1, SeenChecking DEF RecheckTarget, Places
<1>5. CASE RecheckClean(p)
    <2>1. p \notin disturbed => Seen("same2", task[p])
        BY <1>5 DEF RecheckClean, Fits, OpFits
    <2> QED
        BY <1>5, <2>1, SeenChecking DEF RecheckClean, Places
<1>6. CASE CheckBranch(p)
    <2>1. p \notin disturbed => Seen("samehead", task[p])
        BY <1>6 DEF CheckBranch, Fits, OpFits
    <2> QED
        BY <1>6, <2>1, SeenChecking DEF CheckBranch, Places
<1>7. CASE RecheckPushedBranch(p)
    <2>1. p \notin disturbed => Seen("upstream2", task[p])
        BY <1>7 DEF RecheckPushedBranch, Fits, OpFits
    <2> QED
        BY <1>7, <2>1, SeenChecking DEF RecheckPushedBranch, Places
<1>8. CASE RecheckTargetBranch(p)
    <2>1. p \notin disturbed => Seen("sameup", task[p])
        BY <1>8 DEF RecheckTargetBranch, Fits, OpFits
    <2> QED
        BY <1>8, <2>1, SeenChecking DEF RecheckTargetBranch, Places
<1>9. CASE RecheckTargetUpstream(p)
    <2>1. p \notin disturbed => Seen("sametarget", task[p])
        BY <1>9 DEF RecheckTargetUpstream, Fits, OpFits
    <2> QED
        BY <1>9, <2>1, SeenChecking DEF RecheckTargetUpstream, Places
<1>10. CASE RecheckTargetHead(p)
    <2>1. p \notin disturbed => Seen("samehead2", task[p])
        BY <1>10 DEF RecheckTargetHead, Fits, OpFits
    <2> QED
        BY <1>10, <2>1, SeenChecking DEF RecheckTargetHead, Places
<1> QED
    BY <1>1, <1>2, <1>3, <1>4, <1>5, <1>6, <1>7, <1>8, <1>9, <1>10

LEMMA ReadTargetSeen ==
    ASSUME IInv, NEW p \in Clients, SeenAt(p), ReadTarget(p) PROVE SeenAt(p)'
<1> DEFINE t == [task[p] EXCEPT !.target = tracking[task[p].up]]
<1>1. task[p] \in Tasks /\ Fits(p) /\ pc[p] = "target" /\ task[p].op = "forward"
    BY Known DEF ReadTarget, Fits, OpFits
<1>2. tracking[task[p].up] \in Histories
    BY <1>1 DEF Fits, BaseFits, Captured, IInv, RepoOK
<1>3. /\ t \in Tasks
      /\ t.target = tracking[task[p].up] /\ t.base = task[p].base /\ t.ref = task[p].ref
      /\ t.op = task[p].op /\ t.up = task[p].up
      /\ t.wasIndex = task[p].wasIndex /\ t.wasHead = task[p].wasHead
    BY <1>1, <1>2 DEF Tasks
<1> HIDE DEF t
<1>4. Check(p, Sound(Tip(tracking[task[p].up])), "sameref", t)
    BY DEF ReadTarget, t
<1>5. Sound(Tip(tracking[task[p].up])) => (p \notin disturbed => Seen("sameref", t))
    BY <1>1, <1>3 DEF SeenAt, Seen, ScansSeen, StartSeen, HeadSeen, UpstreamSeen, StagedSeen,
           Captured, ToCommit, AfterCommit, Staging, AfterLive, AfterClean, AfterTarget,
           Transport
<1> QED
    BY <1>3, <1>4, <1>5, SeenChecking DEF Places

\* What a transport call knows when it answers.
LEMMA TransportSeen ==
    ASSUME IInv, NEW p \in Clients, SeenAt(p), p \notin disturbed,
           pc[p] \in {"samehead2", "sending"}
    PROVE  /\ head = task[p].ref /\ head \in Branches /\ Clean
           /\ task[p].base = branch[head] /\ task[p].up = upstream[head]
           /\ branch[head] = task[p].wasHead /\ index = task[p].wasIndex
           /\ Sound(worktree) /\ TreeAuthorized(worktree)
           /\ pc[p] = "samehead2" =>
                 task[p].target = remote[upstream[head]] /\ Sound(Tip(task[p].target))
<1>1. Fits(p)
    BY Known
<1>2. task[p].op \in {"push", "forward"} /\ (pc[p] = "samehead2" => task[p].op = "forward")
    BY <1>1 DEF Fits, OpFits
<1>3. head \in Branches \cup {Detached}
    BY DEF IInv, RepoOK
<1> QED
    BY <1>2, <1>3 DEF HeadCommit, SeenAt, Seen, ScansSeen, StartSeen, HeadSeen, UpstreamSeen,
           Captured, AfterCommit, ToCommit, AfterLive, AfterClean, AfterTarget, Transport

LEMMA DecideSeen ==
    ASSUME IInv, NEW p \in Clients, SeenAt(p), Decide(p) PROVE SeenAt(p)'
<1> DEFINE r == IF SameCommit(p) THEN Relation(task[p].base, task[p].target) ELSE "refused"
<1>1. /\ pc[p] = "samehead2" /\ Return(p, r) /\ UNCHANGED repo /\ disturbed' = disturbed
      /\ r \in Results
    BY DEF Decide, Look, Relation, Results
<1>2. r \in {"up-to-date", "manual", "ahead", "divergent", "refused"}
    BY DEF Relation
<1>3. CASE r = "refused"
    BY <1>1, <1>3, SeenRefused
<1>4. CASE r # "refused"
    <2>1. r = Relation(task[p].base, task[p].target)
        BY <1>4
    <2> HIDE DEF r
    <2>2. pc'[p] = "idle" /\ result'[p] = r /\ task'[p] = Left(task[p], r)
        BY <1>1, ReturnMoves, MoveKeeps DEF IInv, Places
    <2>3. task'[p].wasIndex = task[p].wasIndex /\ task'[p].wasHead = task[p].wasHead
        BY <1>4, <2>2, NoTaskTyped DEF Left, Tasks
    <2>4. ASSUME p \notin disturbed PROVE UndisturbedForward(p)'
        <3>1. /\ head = task[p].ref /\ head \in Branches /\ Clean
              /\ task[p].base = branch[head]
              /\ branch[head] = task[p].wasHead /\ index = task[p].wasIndex
              /\ task[p].target = remote[upstream[head]] /\ Sound(Tip(task[p].target))
            BY <1>1, <2>4, TransportSeen
        <3>2. head # Detached /\ Clean'
            BY <1>1, <3>1, BranchAssumption DEF Clean, HeadCommit, repo
        <3>3. CASE r = "up-to-date"
            BY <1>1, <2>1, <2>2, <2>3, <3>1, <3>2, <3>3 DEF repo, UndisturbedForward, Relation
        <3>4. CASE r = "manual"
            BY <1>1, <2>1, <2>2, <2>3, <3>1, <3>2, <3>4 DEF repo, UndisturbedForward, Relation
        <3>5. CASE r = "ahead"
            BY <1>1, <2>1, <2>2, <2>3, <3>1, <3>2, <3>5 DEF repo, UndisturbedForward, Relation
        <3>6. CASE r = "divergent"
            BY <1>1, <2>1, <2>2, <2>3, <3>1, <3>2, <3>6 DEF repo, UndisturbedForward, Relation
        <3> QED
            BY <1>2, <1>4, <3>3, <3>4, <3>5, <3>6
    <2>5. Seen(pc[p], task[p])'
        BY <2>2 DEF SeenAt, Seen, ScansSeen, StartSeen, HeadSeen, UpstreamSeen, StagedSeen,
           Captured, ToCommit, AfterCommit, Staging, AfterLive, AfterClean, AfterTarget,
           Transport
    <2>6. p \notin disturbed => AnswerSeen(p)'
        BY <1>2, <2>2, <2>4 DEF AnswerSeen
    <2> QED
        BY <1>1, <2>5, <2>6 DEF SeenAt
<1> QED
    BY <1>3, <1>4

LEMMA SendSeen ==
    ASSUME IInv, NEW p \in Clients, SeenAt(p), Send(p) PROVE SeenAt(p)'
<1>1. CASE Return(p, "refused")
    BY <1>1, SeenRefused
<1>2. CASE /\ remote' = [remote EXCEPT ![task[p].up] = Sent(p)]
           /\ Return(p, "pushed")
           /\ Disturb(p)
           /\ UNCHANGED <<worktree, index, head, loose, branch, upstream>>
    <2>1. pc[p] = "sending" /\ disturbed' = disturbed \cup (Clients \ {p})
        BY <1>2 DEF Send, Disturb
    <2>2. pc'[p] = "idle" /\ result'[p] = "pushed"
        BY <1>2, ReturnMoves, MoveKeeps DEF IInv, Places, Results
    <2>3. ASSUME p \notin disturbed PROVE UndisturbedPush(p)'
        <3>1. /\ head \in Branches /\ Clean
              /\ task[p].base = branch[head] /\ task[p].up = upstream[head]
              /\ Sound(worktree) /\ TreeAuthorized(worktree)
            BY <2>1, <2>3, TransportSeen
        <3>2. head # Detached /\ Clean'
            BY <1>2, <3>1, BranchAssumption DEF Clean, HeadCommit
        <3>3. remote'[upstream[head]] = branch[head]
            BY <1>2, <3>1 DEF Sent, IInv, RepoOK
        <3> QED
            BY <1>2, <3>1, <3>2, <3>3 DEF UndisturbedPush
    <2>4. Seen(pc[p], task[p])'
        BY <2>2 DEF SeenAt, Seen, ScansSeen, StartSeen, HeadSeen, UpstreamSeen, StagedSeen,
           Captured, ToCommit, AfterCommit, Staging, AfterLive, AfterClean, AfterTarget,
           Transport
    <2>5. p \notin disturbed => AnswerSeen(p)'
        BY <2>2, <2>3 DEF AnswerSeen
    <2> QED
        BY <2>1, <2>4, <2>5 DEF SeenAt
<1> QED
    BY <1>1, <1>2 DEF Send

LEMMA OwnStepSeen ==
    ASSUME IInv, NEW p \in Clients, SeenAt(p), ClientStep(p) PROVE SeenAt(p)'
BY CallsSeen, ScansSee, NameBranchSeen, ReadParentSeen, ReadEntriesSeen, AddPathSeen,
   StagedChecksSee, AdvanceBranchSeen, CompareEntriesSeen, UpdateIndexSeen, RequestSeen,
   FetchSeen, ReadTargetSeen, ChecksSee, DecideSeen, ReadUpstreamSeen, CaptureHeadSeen,
   SendSeen
   DEF ClientStep

\* What a client's step is to the others: their call is theirs, and whatever
\* changes the repository is noticed.
LEMMA OthersCalls ==
    ASSUME ClientOK, NEW p \in Clients, NEW q \in Clients, q # p, ClientStep(p)
    PROVE  pc'[q] = pc[q] /\ task'[q] = task[q] /\ result'[q] = result[q]
<1>1. ASSUME NEW place, NEW t, Proceed(p, place, t)
      PROVE  pc'[q] = pc[q] /\ task'[q] = task[q] /\ result'[q] = result[q]
    BY <1>1 DEF Proceed, ClientOK
<1>2. ASSUME NEW answer, Return(p, answer)
      PROVE  pc'[q] = pc[q] /\ task'[q] = task[q] /\ result'[q] = result[q]
    BY <1>2 DEF Return, ClientOK
<1>3. (\E place, t : Proceed(p, place, t)) \/ (\E answer : Return(p, answer))
    BY DEF ClientStep, CommitPaths, FastForward, Push, Call, DoctorScan, LiveScan, NameBranch,
       ReadParent, ReadEntries, AddPath, ValidateStaged, RecheckBranch, RecheckHead, CompareEntries,
       UpdateIndex, CheckRequest, Fetch, ReadTarget, RecheckTargetBranch,
       RecheckTargetUpstream, RecheckTarget, RecheckClean, RecheckTargetHead, Decide,
       NamePushedBranch, ReadUpstream, CaptureHead, CheckClean, CheckBranch, CheckHead,
       RecheckPushedBranch, RecheckUpstream, AdvanceBranch, Send,
       Check
<1> QED
    BY <1>1, <1>2, <1>3

LEMMA StepForOthers ==
    ASSUME NEW p \in Clients, ClientStep(p)
    PROVE  \/ UNCHANGED <<repo, disturbed>>
           \/ UNCHANGED repo /\ disturbed' = disturbed \ {p}
           \/ disturbed' = disturbed \cup (Clients \ {p})
BY DEF ClientStep, CommitPaths, FastForward, Push, Call, DoctorScan, LiveScan, NameBranch,
       ReadParent, ReadEntries, AddPath, ValidateStaged, RecheckBranch, RecheckHead, CompareEntries,
       UpdateIndex, CheckRequest, Fetch, ReadTarget, RecheckTargetBranch,
       RecheckTargetUpstream, RecheckTarget, RecheckClean, RecheckTargetHead, Decide,
       NamePushedBranch, ReadUpstream, CaptureHead, CheckClean, CheckBranch, CheckHead,
       RecheckPushedBranch, RecheckUpstream, AdvanceBranch, Send,
       Check, Look, Disturb

LEMMA StepSeen ==
    ASSUME IInv, [Next]_vars, \A q \in Clients : SeenAt(q), NEW p \in Clients
    PROVE  SeenAt(p)'
<1>1. ASSUME NEW q \in Clients, ClientStep(q), q # p PROVE SeenAt(p)'
    <2>1. pc'[p] = pc[p] /\ task'[p] = task[p] /\ result'[p] = result[p]
        BY <1>1, OthersCalls DEF IInv
    <2>2. p \notin disturbed' => p \notin disturbed /\ UNCHANGED repo
        BY <1>1, StepForOthers
    <2> QED
        BY <2>1, <2>2, OthersSee
<1>2. CASE Outside
    <2>1. Other
        BY <1>2 DEF Outside, EditFile, StageFile, CommitByHand, ResetByHand, CheckOut,
           FastForwardByHand, Reconfigure, OtherClonePushes
    <2> QED
        BY <2>1 DEF Other, SeenAt
<1>3. CASE UNCHANGED vars
    BY <1>3, OthersSee DEF vars, repo
<1> QED
    BY <1>1, <1>2, <1>3, NextCases, OwnStepSeen

\* For any clients, files, branches and interference, an answer given by a call
\* in which nobody interfered is true: the commit is what was asked for, what was
\* pushed is the checked tree, and the relation to the remote is the one it has
\* (git_sync.py:213-361, 722-790).
THEOREM AnswersAreTrue == Spec => []UndisturbedCalls
<1> DEFINE SeenByAll == \A q \in Clients : SeenAt(q)
<1>1. Init => SeenByAll
    BY SeenAtFirst
<1>2. SeenByAll /\ IInv /\ [Next]_vars => SeenByAll'
    BY StepSeen
<1>3. SeenByAll => UndisturbedCalls
    BY DEF SeenAt, AnswerSeen, UndisturbedCalls
<1> HIDE DEF SeenByAll
<1>4. Spec => []SeenByAll
    BY <1>1, <1>2, Invariance, PTL DEF Spec
<1> QED
    BY <1>3, <1>4, PTL

-----------------------------------------------------------------------------
(* What the live authorizer promises, whatever the files of the tree say.  *)

\* What can be asked for: authorize_current knows no other kinds.
Authorizable == {"vault", "project", "source", "workstream", "session", "memory"}

\* The files that a positive verdict rests on.
ReliesOn(tree, a) ==
    Inputs(tree, a)
      \cup {RuleFile(r) : r \in CurrentRules(tree, a)}
      \cup (IF a.kind \in {"session", "memory"} THEN {a} ELSE {})
      \cup (IF a.kind = "memory" THEN Memories(tree, a.class) ELSE {})

\* Where the code means to go on without the file: another is looked up in place
\* of a local source that does not load and of a local project that is not there,
\* and a memory that is not there is not read.
IsTolerated(a, f, damage) ==
    \/ f.class = "local" /\ f.kind = "source" /\ a.kind # "memory"
    \/ f.class = "local" /\ f.kind = "project" /\ damage = Absent
    \/ f.kind = "memory" /\ f # a /\ damage = Absent

\* Two trees that agree on where the rules of an artifact come from have the
\* same inputs.
LEMMA SameInputs ==
    ASSUME NEW t, NEW u, NEW a,
           a.kind # "project" => At(t, a) = At(u, a),
           a.kind \in {"session", "memory"} => Loads(t, a),
           \A f \in WorkstreamFiles(t, a) \cup SourceFiles(t, a) : At(t, f) = At(u, f),
           SourceFiles(u, a) = SourceFiles(t, a),
           \A id : At(t, File("local", "project", id)) = Absent
                     <=> At(u, File("local", "project", id)) = Absent
    PROVE  Inputs(u, a) = Inputs(t, a)
<1>1. WorkstreamFiles(u, a) = WorkstreamFiles(t, a)
  BY DEF WorkstreamFiles, Loads, At
<1>2. \A class, id : ProjectFile(u, class, id) = ProjectFile(t, class, id)
  BY DEF ProjectFile
<1>3. \A f \in WorkstreamFiles(t, a) \cup SourceFiles(t, a) :
        /\ Loads(u, f) <=> Loads(t, f)
        /\ Loads(t, f) => u[f] = t[f]
  BY DEF Loads, At
<1>4. a.kind # "project" => /\ Loads(u, a) <=> Loads(t, a)
                            /\ Loads(t, a) => u[a] = t[a]
  BY DEF Loads, At
<1> HIDE DEF WorkstreamFiles, SourceFiles, ProjectFile, Loads
<1>5. ProjectFiles(u, a) = ProjectFiles(t, a)
  BY <1>1, <1>2, <1>3, <1>4 DEF ProjectFiles
<1> QED
  BY <1>1, <1>5 DEF Inputs

\* A portable artifact is allowed only under rules that load, none local-only.
LEMMA PortableIsGoverned ==
    ASSUME NEW tree, NEW a, a.class = "portable", Authorized(tree, a)
    PROVE  /\ CurrentRules(tree, a) # {}
           /\ \A r \in CurrentRules(tree, a) :
                Loads(tree, RuleFile(r)) /\ PersonalVault <= CeilingOf[r]
  BY DEF Authorized, Permits, Requested, PersonalVault, LocalOnly

\* Everything a positive verdict rests on loads.
LEMMA RelianceLoads ==
    ASSUME NEW tree, NEW a, Authorized(tree, a), NEW f \in ReliesOn(tree, a)
    PROVE  Loads(tree, f) /\ f \in DOMAIN tree
<1>1. Loads(tree, f)
  BY DEF Authorized, ReliesOn, MemoriesLoad
<1> QED
  BY <1>1 DEF Loads, At

\* A file of that kind that disappears or no longer loads takes the permission
\* with it, wherever it was found: there is no other file whose rules would then
\* apply instead, unless the code means it (authorize_current and what it looks
\* up, security.py:128-157, 300-534).
THEOREM DamageFailsClosed ==
    ASSUME NEW tree, NEW a, a.kind \in Authorizable,
           Authorized(tree, a),
           NEW f \in ReliesOn(tree, a),
           NEW damage \in {Absent, Torn},
           ~IsTolerated(a, f, damage)
    PROVE  ~Authorized([tree EXCEPT ![f] = damage], a)
<1> DEFINE u == [tree EXCEPT ![f] = damage]
<1> SUFFICES ASSUME Authorized(u, a) PROVE FALSE
  OBVIOUS
<1>1. Loads(tree, f) /\ f \in DOMAIN tree
  BY RelianceLoads
<1>2. DOMAIN u = DOMAIN tree /\ u[f] = damage /\ \A g \in DOMAIN tree : g # f => u[g] = tree[g]
  BY <1>1
<1> HIDE DEF u
<1>3. At(u, f) = damage /\ ~Loads(u, f) /\ \A g : g # f => At(u, g) = At(tree, g)
  BY <1>1, <1>2 DEF At, Loads
<1>4. f \notin Inputs(u, a)
  BY <1>3 DEF Authorized
<1>5. a.kind \in {"session", "memory"} => f # a /\ Loads(tree, a)
  BY <1>3 DEF Authorized
<1>6. f \notin Memories(tree, a.class) \/ a.kind # "memory"
  <2> SUFFICES ASSUME f \in Memories(tree, a.class), a.kind = "memory" PROVE FALSE
    OBVIOUS
  <2>1. damage = Torn
    BY <1>5 DEF IsTolerated, Memories
  <2>2. f \in Memories(u, a.class)
    BY <1>2, <2>1, ContentAssumption DEF Memories
  <2> QED
    BY <1>3, <2>2 DEF Authorized, MemoriesLoad
<1>7. a.kind = "workstream" => f # a
  BY <1>4 DEF Inputs, WorkstreamFiles
<1>8. f # a \/ a.kind \in {"project", "source", "vault"}
  BY <1>5, <1>7 DEF Authorizable
<1>9. WorkstreamFiles(u, a) = WorkstreamFiles(tree, a) /\ f \notin WorkstreamFiles(tree, a)
  <2>1. a.kind \in {"session", "memory"} => u[a] = tree[a]
    BY <1>2, <1>5 DEF Loads, At
  <2>2. WorkstreamFiles(u, a) = WorkstreamFiles(tree, a)
    BY <2>1 DEF WorkstreamFiles
  <2> QED
    BY <1>4, <2>2 DEF Inputs
<1>10. SourceFiles(u, a) = SourceFiles(tree, a) /\ f \notin SourceFiles(tree, a)
  <2>1. a.kind \in {"session", "memory"} => u[a] = tree[a]
    BY <1>2, <1>5 DEF Loads, At
  <2>2. ASSUME NEW class, NEW id, a.kind # "memory"
        PROVE  SourceFile(u, class, id) = SourceFile(tree, class, id)
    <3>1. File("local", "source", id) # f
      BY <2>2 DEF IsTolerated, File
    <3>2. Loads(u, File("local", "source", id)) <=> Loads(tree, File("local", "source", id))
      BY <1>3, <3>1 DEF Loads
    <3> QED
      BY <3>2 DEF SourceFile
  <2>3. SourceFiles(u, a) = SourceFiles(tree, a)
    <3> HIDE DEF SourceFile
    <3> QED
      BY <2>1, <2>2 DEF SourceFiles
  <2> QED
    BY <1>4, <2>3 DEF Inputs
<1>11. \A id : At(tree, File("local", "project", id)) = Absent
                 <=> At(u, File("local", "project", id)) = Absent
  <2> SUFFICES ASSUME NEW id, File("local", "project", id) = f
               PROVE  At(tree, f) # Absent /\ At(u, f) # Absent
    BY <1>3
  <2>1. damage = Torn
    BY DEF IsTolerated, File
  <2> QED
    BY <1>1, <1>3, <2>1, ContentAssumption DEF Loads
<1>12. f \in ProjectFiles(tree, a) => f.kind = "project"
  <2>1. \A class, id : ProjectFile(tree, class, id).kind = "project"
    BY DEF ProjectFile, File
  <2> HIDE DEF ProjectFile
  <2> QED
    BY <2>1 DEF ProjectFiles
<1>13. \A r : RuleFile(r).kind = "rule"
  BY DEF RuleFile, File
<1>14. a.kind # "project" => f # a
  <2> SUFFICES ASSUME a.kind \in {"source", "vault"}, f = a PROVE FALSE
    BY <1>8
  <2>1. f # PolicyIndex
    BY <1>4 DEF Inputs
  <2>2. f \notin Inputs(tree, a)
    BY <1>9, <1>10, <1>12, <2>1 DEF Inputs
  <2> QED
    BY <1>13, <2>2 DEF ReliesOn
<1>15. Inputs(u, a) = Inputs(tree, a)
  <2>1. \A g \in WorkstreamFiles(tree, a) \cup SourceFiles(tree, a) : At(tree, g) = At(u, g)
    BY <1>3, <1>9, <1>10
  <2>2. a.kind # "project" => At(tree, a) = At(u, a)
    BY <1>3, <1>14
  <2> QED
    BY <1>5, <1>10, <1>11, <2>1, <2>2, SameInputs
<1>16. \A g \in Inputs(tree, a) : u[g] = tree[g]
  <2>1. \A g \in Inputs(tree, a) : g \in DOMAIN tree
    BY DEF Authorized, Loads, At
  <2> QED
    BY <1>2, <1>4, <1>15, <2>1
<1>17. CurrentRules(u, a) = CurrentRules(tree, a)
  BY <1>15, <1>16 DEF CurrentRules
<1>18. \A r \in CurrentRules(tree, a) : f # RuleFile(r)
  BY <1>3, <1>17 DEF Authorized
<1> QED
  BY <1>4, <1>5, <1>6, <1>15, <1>18 DEF ReliesOn

\* One tree restricts another: the same files are there and load, say the same
\* about where rules come from, and name at least the rules they named.
Restricts(u, t) ==
    /\ DOMAIN u = DOMAIN t
    /\ \A f \in DOMAIN t :
         /\ u[f] = Absent <=> t[f] = Absent
         /\ Loads(u, f) <=> Loads(t, f)
         /\ Loads(t, f) =>
              /\ t[f].policies \subseteq u[f].policies
              /\ u[f].project = t[f].project
              /\ u[f].workstream = t[f].workstream
              /\ u[f].sources = t[f].sources
              /\ u[f].supersedes = t[f].supersedes

\* More rules never allow more: deny wins, and whatever is allowed under all of
\* the rules was allowed under some of them.  Only the very first rule opens a
\* portable artifact, which without any is closed (evaluate_portability under
\* authorize_current, policy.py:918-1027, security.py:402-477).
THEOREM MoreRulesAllowLess ==
    ASSUME NEW t, NEW u, NEW a, a.kind \in Authorizable,
           Restricts(u, t), Authorized(u, a),
           CurrentRules(t, a) # {} \/ Requested(a.class) = LocalOnly
    PROVE  Authorized(t, a)
<1>1. \A f : /\ At(u, f) = Absent <=> At(t, f) = Absent
             /\ Loads(u, f) <=> Loads(t, f)
  BY DEF Restricts, At, Loads
<1>2. \A f : Loads(t, f) =>
              /\ f \in DOMAIN t
              /\ t[f].policies \subseteq u[f].policies
              /\ u[f].project = t[f].project
              /\ u[f].workstream = t[f].workstream
              /\ u[f].sources = t[f].sources
              /\ u[f].supersedes = t[f].supersedes
  BY DEF Restricts, At, Loads
<1>3. a.kind \in {"session", "memory"} =>
        /\ Loads(t, a)
        /\ u[a].workstream = t[a].workstream
        /\ u[a].sources = t[a].sources
  BY <1>1, <1>2 DEF Authorized
<1>4. WorkstreamFiles(u, a) = WorkstreamFiles(t, a)
  BY <1>3 DEF WorkstreamFiles
<1>5. \A class, id : SourceFile(u, class, id) = SourceFile(t, class, id)
  BY <1>1 DEF SourceFile
<1>6. \A class, id : ProjectFile(u, class, id) = ProjectFile(t, class, id)
  BY <1>1 DEF ProjectFile
<1> HIDE DEF SourceFile, ProjectFile, WorkstreamFiles
<1>7. SourceFiles(u, a) = SourceFiles(t, a)
  BY <1>3, <1>5 DEF SourceFiles
<1> HIDE DEF SourceFiles, Loads
<1>8. ProjectFiles(u, a) = ProjectFiles(t, a)
  BY <1>1, <1>2, <1>4, <1>6, <1>7 DEF ProjectFiles
<1>9. Inputs(u, a) = Inputs(t, a) /\ \A f \in Inputs(t, a) : Loads(t, f)
  BY <1>1, <1>4, <1>7, <1>8 DEF Inputs, Authorized
<1>10. CurrentRules(t, a) \subseteq CurrentRules(u, a)
  BY <1>2, <1>9 DEF CurrentRules
<1>11. a.kind = "memory" => MemoriesLoad(t, a.class)
  <2> SUFFICES ASSUME MemoriesLoad(u, a.class) PROVE MemoriesLoad(t, a.class)
    BY DEF Authorized
  <2>1. Memories(u, a.class) = Memories(t, a.class)
    BY DEF Memories, Restricts
  <2> QED
    BY <1>1, <1>2, <2>1 DEF MemoriesLoad
<1>12. Permits(Requested(a.class), CurrentRules(t, a))
  BY <1>10 DEF Authorized, Permits
<1>13. \A r \in CurrentRules(t, a) : Loads(t, RuleFile(r))
  BY <1>1, <1>10 DEF Authorized
<1> QED
  BY <1>3, <1>9, <1>11, <1>12, <1>13 DEF Authorized

\* The rules of an artifact allow it to be published: there are some, they load,
\* and the ceiling of none is local-only.
Publishable(tree, a) ==
    /\ CurrentRules(tree, a) # {}
    /\ \A r \in CurrentRules(tree, a) :
         Loads(tree, RuleFile(r)) /\ PersonalVault <= CeilingOf[r]

AllPublishable(tree) ==
    \A a \in Portable(tree) : a.kind \in {"session", "memory"} => Publishable(tree, a)

\* What Doctor accepts contains no session and no memory above its ceiling.
LEMMA SoundIsPublishable == ASSUME NEW tree, Sound(tree) PROVE AllPublishable(tree)
<1>1. \A a \in Portable(tree) : a.kind \in {"session", "memory"} => Authorized(tree, a)
  BY DEF Sound
<1>2. \A a \in Portable(tree) : a.class = "portable"
  BY DEF Portable
<1> QED
  BY <1>1, <1>2, PortableIsGoverned DEF AllPublishable, Publishable

\* Whatever is committed or pushed by the transport, in whatever order files,
\* policies, HEAD and the remote change meanwhile, has no session and no memory
\* that its rules keep local: judged by the policies of the very tree that is
\* published (git_sync.py:213-361, doctor.py:112-147).
CeilingsAreKept ==
    [][edits' = edits =>
         \A b \in Branches :
            /\ branch'[b] # branch[b] => AllPublishable(Tip(branch'[b]))
            /\ remote'[b] # remote[b] => AllPublishable(Tip(remote'[b]))]_vars

\* For any clients, branches, policies and interference, neither commit_paths nor
\* push publishes a session or a memory that its rules keep local
\* (git_sync.py:213-361).
THEOREM NothingAboveItsCeiling == Spec => CeilingsAreKept
<1>1. ASSUME [edits' = edits =>
                \A b \in Branches : branch'[b] # branch[b] =>
                  /\ IsAncestor(branch[b], branch'[b])
                  /\ Len(branch'[b]) = Len(branch[b]) + 1
                  /\ Sound(Tip(branch'[b]))
                  /\ \E p \in Clients : \A a \in Artifacts \ task[p].paths :
                         Tip(branch'[b])[a] = Tip(branch[b])[a]]_vars,
             [edits' = edits =>
                \A u \in Branches : remote'[u] # remote[u] =>
                  IsAncestor(remote[u], remote'[u]) /\ Sound(Tip(remote'[u]))]_vars
      PROVE  [edits' = edits =>
                \A b \in Branches :
                  /\ branch'[b] # branch[b] => AllPublishable(Tip(branch'[b]))
                  /\ remote'[b] # remote[b] => AllPublishable(Tip(remote'[b]))]_vars
  BY <1>1, SoundIsPublishable
<1> QED
  BY <1>1, CommitsAdd, PushesChecked, PTL DEF CommitsOnlyAdd, PushesOnlyChecked, CeilingsAreKept

-----------------------------------------------------------------------------
(* A call that nobody disturbs is refused for a reason only.  Most of the   *)
(* checks of a call compare what it captured with what there is; next to    *)
(* nobody they must not find a difference that the call itself has made.    *)

\* The tree that a commit was asked for.
AskedFor(p) ==
    [a \in Artifacts |-> IF a \in task[p].paths THEN worktree[a] ELSE Tip(HeadCommit)[a]]

\* The files, the branch or the remote do not allow the call.  What a push was
\* answered is not known: the remote may have refused or the answer be lost.
ReasonToRefuse(p) ==
    \/ head = Detached \/ ~Sound(worktree) \/ ~TreeAuthorized(worktree)
    \/ /\ task[p].op = "commit"
       /\ \/ \E a \in task[p].paths : worktree[a] = Absent
          \/ AskedFor(p) = Tip(HeadCommit) \/ ~Sound(AskedFor(p))
    \/ /\ task[p].op = "push"
       /\ ~Clean \/ ~Sound(Tip(HeadCommit)) \/ pc[p] = "sending"
    \/ /\ task[p].op = "forward"
       /\ ~Clean \/ ~Sound(Tip(remote[upstream[head]]))

IsRefused(p) == pc[p] # "idle" /\ pc'[p] = "idle" /\ result'[p] = "refused"

RefusalsHaveReasons ==
    [][\A p \in Clients \ disturbed : IsRefused(p) => ReasonToRefuse(p)]_vars

\* A check refuses only if what it asks is false.
LEMMA CheckRefuses ==
    ASSUME ClientOK, NEW p \in Clients, NEW condition, NEW place, NEW t,
           Check(p, condition, place, t), place # "idle", pc'[p] = "idle"
    PROVE  ~condition
BY DEF Check, Proceed, ClientOK

LEMMA CommitRefusals ==
    ASSUME IInv, NEW p \in Clients, Seen(pc[p], task[p]), pc'[p] = "idle",
           \/ DoctorScan(p) \/ LiveScan(p) \/ NameBranch(p)
           \/ ValidateStaged(p) \/ RecheckBranch(p) \/ RecheckHead(p)
    PROVE  ReasonToRefuse(p)
<1>1. ClientOK /\ task[p] \in Tasks /\ Fits(p) /\ RepoOK
    BY Known DEF IInv
<1>2. DoctorScan(p) => ~Sound(worktree)
    BY <1>1, CheckRefuses DEF DoctorScan
<1>3. LiveScan(p) => ~TreeAuthorized(worktree)
    <2>1. (IF task[p].op = "commit" THEN "naming" ELSE "clean") # "idle"
        OBVIOUS
    <2> QED
        BY <1>1, <2>1, CheckRefuses DEF LiveScan
<1>4. NameBranch(p) => head = Detached
    BY <1>1, CheckRefuses DEF NameBranch
<1>5. ASSUME ValidateStaged(p) PROVE ReasonToRefuse(p)
    <2>1. pc[p] = "validating" /\ ~Committable(p)
        BY <1>1, <1>5, CheckRefuses DEF ValidateStaged
    <2>2. /\ head # Detached /\ task[p].base = HeadCommit
          /\ task[p].todo = {} /\ task[p].op = "commit"
          /\ \A a \in Artifacts : task[p].staged[a] =
                 IF a \in task[p].paths \ task[p].todo THEN worktree[a]
                                                       ELSE Tip(task[p].base)[a]
        BY <1>1, <2>1 DEF Seen, HeadSeen, StagedSeen, Staging, ToCommit, Fits, StagedFits, OpFits
    <2>3. task[p].staged \in [Artifacts -> Contents]
        BY <1>1 DEF Tasks, Trees
    <2>4. task[p].staged = AskedFor(p)
        BY <2>2, <2>3 DEF AskedFor
    <2>5. \A a \in task[p].paths : a \in Artifacts /\ task[p].staged[a] = worktree[a]
        BY <1>1, <2>2 DEF Tasks
    <2> QED
        BY <2>1, <2>2, <2>4, <2>5 DEF Committable, ReasonToRefuse
<1>6. ~RecheckBranch(p) /\ ~RecheckHead(p)
    <2>1. /\ RecheckBranch(p) => pc[p] = "rechecking" /\ ~SameBranch(p)
          /\ RecheckHead(p) => pc[p] = "recheckhead" /\ ~SameCommit(p)
        BY <1>1, CheckRefuses DEF RecheckBranch, RecheckHead
    <2>2. pc[p] \in {"rechecking", "recheckhead"} => SameBranch(p) /\ SameCommit(p)
        BY DEF Seen, HeadSeen, ToCommit, SameBranch, SameCommit
    <2> QED
        BY <2>1, <2>2
<1> QED
    BY <1>2, <1>3, <1>4, <1>5, <1>6 DEF ReasonToRefuse

LEMMA TransportRefusals ==
    ASSUME IInv, NEW p \in Clients, Seen(pc[p], task[p]), pc'[p] = "idle",
           \/ CheckRequest(p) \/ NamePushedBranch(p) \/ ReadUpstream(p) \/ CaptureHead(p)
           \/ CheckClean(p) \/ CheckBranch(p) \/ CheckHead(p)
           \/ RecheckPushedBranch(p) \/ RecheckUpstream(p)
           \/ ReadTarget(p) \/ RecheckTargetBranch(p) \/ RecheckTargetUpstream(p)
           \/ RecheckTarget(p) \/ RecheckClean(p) \/ RecheckTargetHead(p)
    PROVE  ReasonToRefuse(p)
<1>1. ClientOK /\ task[p] \in Tasks /\ Fits(p) /\ RepoOK
    BY Known DEF IInv
<1>2. CheckRequest(p) \/ NamePushedBranch(p) \/ ReadUpstream(p) => head = Detached
    BY <1>1, CheckRefuses DEF CheckRequest, NamePushedBranch, ReadUpstream
<1>3. CaptureHead(p) => task[p].op = "push" /\ ~Sound(Tip(HeadCommit))
    BY <1>1, CheckRefuses DEF CaptureHead
<1>4. CheckClean(p) \/ RecheckClean(p) => ~Clean /\ task[p].op \in {"push", "forward"}
    BY <1>1, CheckRefuses DEF CheckClean, RecheckClean, Fits, OpFits
\* Where the captured state is compared, it is as it was.
<1>5. pc[p] \in {"same", "samehead", "configured2", "upstream2", "target", "sameref",
                 "sameup", "sametarget", "same2"} =>
        /\ SameBranch(p) /\ SameCommit(p) /\ SameUpstream(p)
        /\ pc[p] = "sametarget" => tracking[task[p].up] = task[p].target
        /\ pc[p] = "target" =>
             task[p].op = "forward" /\ tracking[task[p].up] = remote[upstream[head]]
    <2>1. pc[p] \in {"same", "samehead", "configured2", "upstream2", "target", "sameref",
                     "sameup", "sametarget", "same2"} => Transport(pc[p], task[p])
        BY <1>1 DEF Transport, Captured, Fits, OpFits
    <2>2. pc[p] = "target" => task[p].op = "forward"
        BY <1>1 DEF Fits, OpFits
    <2> QED
        BY <2>1, <2>2 DEF Seen, HeadSeen, UpstreamSeen, AfterTarget, Transport, SameBranch,
                          SameCommit, SameUpstream
<1>6. ~CheckBranch(p) /\ ~CheckHead(p)
    <2>1. (IF task[p].op = "push" THEN "configured2" ELSE "target") # "idle"
        OBVIOUS
    <2>2. /\ CheckBranch(p) => pc[p] = "same" /\ ~SameBranch(p)
          /\ CheckHead(p) => pc[p] = "samehead" /\ ~SameCommit(p)
        BY <1>1, <2>1, CheckRefuses DEF CheckBranch, CheckHead
    <2> QED
        BY <1>5, <2>2
<1>7. ~RecheckPushedBranch(p) /\ ~RecheckUpstream(p)
    <2>1. /\ RecheckPushedBranch(p) => pc[p] = "configured2" /\ ~SameBranch(p)
          /\ RecheckUpstream(p) => pc[p] = "upstream2" /\ ~SameUpstream(p)
        BY <1>1, CheckRefuses DEF RecheckPushedBranch, RecheckUpstream
    <2> QED
        BY <1>5, <2>1
<1>8. ReadTarget(p) =>
        task[p].op = "forward" /\ ~Sound(Tip(remote[upstream[head]]))
    <2>1. ReadTarget(p) => pc[p] = "target" /\ ~Sound(Tip(tracking[task[p].up]))
        BY <1>1, CheckRefuses DEF ReadTarget
    <2> QED
        BY <1>5, <2>1
<1>9. ~RecheckTargetBranch(p) /\ ~RecheckTargetUpstream(p) /\ ~RecheckTarget(p)
          /\ ~RecheckTargetHead(p)
    <2>1. /\ RecheckTargetBranch(p) => pc[p] = "sameref" /\ ~SameBranch(p)
          /\ RecheckTargetUpstream(p) => pc[p] = "sameup" /\ ~SameUpstream(p)
        BY <1>1, CheckRefuses DEF RecheckTargetBranch, RecheckTargetUpstream
    <2>2. /\ RecheckTarget(p) =>
               pc[p] = "sametarget" /\ tracking[task[p].up] # task[p].target
          /\ RecheckTargetHead(p) => pc[p] = "same2" /\ ~SameBranch(p)
        BY <1>1, CheckRefuses DEF RecheckTarget, RecheckTargetHead
    <2> QED
        BY <1>5, <2>1, <2>2
<1> QED
    BY <1>2, <1>3, <1>4, <1>6, <1>7, <1>8, <1>9 DEF ReasonToRefuse

\* The steps that act, or decide, and not by a check.
LEMMA ActRefusals ==
    ASSUME IInv, NEW p \in Clients, Seen(pc[p], task[p]), IsRefused(p),
           AdvanceBranch(p) \/ CompareEntries(p) \/ UpdateIndex(p) \/ Decide(p) \/ Send(p)
    PROVE  ReasonToRefuse(p)
<1>1. ClientOK /\ Fits(p)
    BY Known DEF IInv
<1>2. ~AdvanceBranch(p)
    <2>1. pc[p] = "advancing" => RefUnmoved(p)
        BY DEF Seen, HeadSeen, ToCommit, RefUnmoved, HeadCommit
    <2>2. "comparing" # "idle"
        OBVIOUS
    <2> QED
        BY <1>1, <2>1, <2>2 DEF AdvanceBranch, Proceed, IsRefused, ClientOK
<1>3. ~CompareEntries(p) /\ ~UpdateIndex(p)
    BY <1>1 DEF CompareEntries, UpdateIndex, Proceed, Return, IsRefused, ClientOK
<1>4. ~Decide(p)
    <2>1. pc[p] = "samehead2" => SameCommit(p)
        BY <1>1 DEF Seen, HeadSeen, Transport, Captured, Fits, OpFits, SameCommit
    <2>2. Relation(task[p].base, task[p].target) \in {"up-to-date", "manual", "ahead", "divergent"}
        BY DEF Relation
    <2> QED
        BY <1>1, <2>1, <2>2 DEF Decide, Return, IsRefused, ClientOK
<1>5. Send(p) => ReasonToRefuse(p)
    BY <1>1 DEF Send, Fits, OpFits, ReasonToRefuse
<1> QED
    BY <1>2, <1>3, <1>4, <1>5

LEMMA StepRefuses ==
    ASSUME IInv, [Next]_vars, NEW p \in Clients, Seen(pc[p], task[p]), IsRefused(p)
    PROVE  ReasonToRefuse(p)
<1>1. pc'[p] # pc[p]
    BY DEF IsRefused
<1>2. ClientStep(p)
    <2>1. ASSUME Outside \/ UNCHANGED vars PROVE FALSE
        BY <1>1, <2>1 DEF vars, Outside, EditFile, StageFile, CommitByHand, ResetByHand,
           CheckOut, FastForwardByHand, Reconfigure, OtherClonePushes, Other
    <2>2. PICK q \in Clients : ClientStep(q)
        BY <2>1, NextCases
    <2>3. q = p
        BY <1>1, <2>2, OthersCalls DEF IInv
    <2> QED
        BY <2>2, <2>3
<1>3. ~CommitPaths(p) /\ ~FastForward(p) /\ ~Push(p)
    BY DEF CommitPaths, FastForward, Push, Call, IsRefused
<1>4. ~ReadParent(p) /\ ~ReadEntries(p) /\ ~AddPath(p) /\ ~Fetch(p)
    BY DEF ReadParent, ReadEntries, AddPath, Fetch, Proceed, IsRefused, IInv, ClientOK
<1> QED
    BY <1>2, <1>3, <1>4, CommitRefusals, TransportRefusals, ActRefusals
       DEF ClientStep, IsRefused

\* For any clients, files and branches, a call in which nobody interfered is
\* refused only because HEAD is detached, the tree or the commit it asks for is
\* not sound, authorized or clean, there is nothing to commit, or the remote did
\* not answer; the rechecks of the captured state then find what they expect
\* (git_sync.py:213-361, 722-790).
THEOREM RefusedForAReason == Spec => RefusalsHaveReasons
<1> DEFINE SeenByAll == \A q \in Clients : SeenAt(q)
<1>1. Init => SeenByAll
    BY SeenAtFirst
<1>2. SeenByAll /\ IInv /\ [Next]_vars => SeenByAll'
    BY StepSeen
<1>3. SeenByAll /\ IInv /\ [Next]_vars =>
        [\A p \in Clients \ disturbed : IsRefused(p) => ReasonToRefuse(p)]_vars
    BY StepRefuses DEF SeenAt
<1> HIDE DEF SeenByAll
<1> QED
    BY <1>1, <1>2, <1>3, Invariance, PTL DEF Spec, RefusalsHaveReasons

-----------------------------------------------------------------------------
(* Every call ends.  There is no lock to wait for, and whatever a call finds *)
(* moved it refuses instead of trying again.                                 *)

\* How far a place is from the end of its call.  The places of a commit, a push
\* and a fast-forward follow one another in this order.
Distance(place) ==
    CASE place = "requested"                               -> 17
      [] place = "fetching"                                -> 16
      [] place = "configured"                              -> 15
      [] place = "upstream"                                -> 14
      [] place = "capturing"                               -> 13
      [] place = "doctor"                                  -> 12
      [] place = "live"                                    -> 11
      [] place \in {"naming", "clean"}                     -> 10
      [] place \in {"parent", "same"}                      -> 9
      [] place \in {"entries", "samehead"}                 -> 8
      [] place \in {"adding", "target", "configured2"}     -> 7
      [] place \in {"validating", "sameref", "upstream2"}  -> 6
      [] place \in {"rechecking", "sameup", "sending"}     -> 5
      [] place \in {"recheckhead", "sametarget"}           -> 4
      [] place \in {"advancing", "clean2"}                 -> 3
      [] place \in {"comparing", "same2"}                  -> 2
      [] place \in {"indexing", "samehead2"}               -> 1
      [] OTHER                                             -> 0

\* The steps that a call still takes at most.
Ahead(p) == Distance(pc[p]) + Cardinality(task[p].todo)

LEMMA DistanceTyped == ASSUME NEW place PROVE Distance(place) \in 0 .. 17
BY DEF Distance

\* What a step of a call does to its place and to the files it has still to add.
GoesOn(p) ==
    \/ Distance(pc'[p]) < Distance(pc[p]) /\ task'[p].todo \subseteq task[p].todo
    \/ /\ pc[p] = "adding" /\ pc'[p] = "adding"
       /\ \E a \in task[p].todo : task'[p].todo = task[p].todo \ {a}

LEMMA ReturnGoesOn ==
    ASSUME IInv, NEW p \in Clients, NEW answer, Return(p, answer), Distance(pc[p]) > 0
    PROVE  GoesOn(p)
<1>1. ClientOK
    BY DEF IInv
<1>2. pc'[p] = "idle" /\ task'[p] = Left(task[p], answer)
    BY <1>1, ReturnMoves DEF Moves, ClientOK
<1>3. task'[p].todo = {} /\ Distance("idle") = 0
    BY <1>2 DEF Left, NoTask, Distance
<1> QED
    BY <1>2, <1>3 DEF GoesOn

LEMMA ProceedGoesOn ==
    ASSUME IInv, NEW p \in Clients, NEW place, NEW t, Proceed(p, place, t),
           Distance(place) < Distance(pc[p]), t.todo \subseteq task[p].todo
    PROVE  GoesOn(p)
<1>1. pc'[p] = place /\ task'[p] = t
    BY DEF Proceed, IInv, ClientOK
<1> QED
    BY <1>1 DEF GoesOn

LEMMA CheckGoesOn ==
    ASSUME IInv, NEW p \in Clients, NEW condition, NEW place, NEW t,
           Check(p, condition, place, t),
           Distance(place) < Distance(pc[p]), t.todo = task[p].todo
    PROVE  GoesOn(p)
<1>1. Distance(place) \in Nat /\ Distance(pc[p]) \in Nat
    BY DistanceTyped
<1>2. Distance(pc[p]) > 0
    BY <1>1
<1> QED
    BY <1>2, ReturnGoesOn, ProceedGoesOn DEF Check

LEMMA CommitGoesOn ==
    ASSUME IInv, NEW p \in Clients,
           \/ DoctorScan(p) \/ LiveScan(p) \/ NameBranch(p) \/ ReadParent(p)
           \/ ReadEntries(p) \/ ValidateStaged(p) \/ RecheckBranch(p) \/ RecheckHead(p)
    PROVE  GoesOn(p)
<1>1. task[p] \in Tasks
    BY Known
<1>2. DoctorScan(p) => GoesOn(p)
    BY CheckGoesOn DEF DoctorScan, Distance
<1>3. LiveScan(p) => GoesOn(p)
    <2>1. Distance(IF task[p].op = "commit" THEN "naming" ELSE "clean") < Distance("live")
        BY DEF Distance
    <2> QED
        BY <2>1, CheckGoesOn DEF LiveScan
<1>4. NameBranch(p) => GoesOn(p)
    <2>1. [task[p] EXCEPT !.ref = head].todo = task[p].todo
        BY <1>1 DEF Tasks
    <2>2. Distance("parent") < Distance("naming")
        BY DEF Distance
    <2> QED
        BY <2>1, <2>2, CheckGoesOn DEF NameBranch
<1>5. ReadParent(p) => GoesOn(p)
    <2> DEFINE t == [task[p] EXCEPT !.base = HeadCommit, !.staged = Tip(HeadCommit)]
    <2>1. t.todo \subseteq task[p].todo
        BY <1>1 DEF Tasks
    <2>2. Distance("entries") < Distance("parent")
        BY DEF Distance
    <2>3. ReadParent(p) => pc[p] = "parent" /\ Proceed(p, "entries", t)
        BY DEF ReadParent
    <2> HIDE DEF t
    <2> QED
        BY <2>1, <2>2, <2>3, ProceedGoesOn
<1>6. ReadEntries(p) => GoesOn(p)
    <2>1. [task[p] EXCEPT !.before = index].todo \subseteq task[p].todo
        BY <1>1 DEF Tasks
    <2>2. Distance("adding") < Distance("entries")
        BY DEF Distance
    <2> QED
        BY <2>1, <2>2, ProceedGoesOn DEF ReadEntries
<1>7. ValidateStaged(p) => GoesOn(p)
    BY CheckGoesOn DEF ValidateStaged, Distance
<1>8. RecheckBranch(p) \/ RecheckHead(p) => GoesOn(p)
    BY CheckGoesOn DEF RecheckBranch, RecheckHead, Distance
<1> QED
    BY <1>2, <1>3, <1>4, <1>5, <1>6, <1>7, <1>8

LEMMA AddPathGoesOn == ASSUME IInv, NEW p \in Clients, AddPath(p) PROVE GoesOn(p)
<1>1. PICK a \in task[p].todo :
        Proceed(p, IF task[p].todo = {a} THEN "validating" ELSE "adding",
                [task[p] EXCEPT !.staged[a] = worktree[a], !.todo = @ \ {a}])
    BY DEF AddPath
<1>2. task[p] \in Tasks
    BY Known
<1>3. [task[p] EXCEPT !.staged[a] = worktree[a], !.todo = @ \ {a}].todo = task[p].todo \ {a}
    BY <1>2 DEF Tasks
<1>4. /\ task'[p].todo = task[p].todo \ {a}
      /\ pc'[p] = IF task[p].todo = {a} THEN "validating" ELSE "adding"
    BY <1>1, <1>3 DEF Proceed, IInv, ClientOK
<1>5. pc[p] = "adding" /\ Distance("validating") < Distance("adding")
    BY DEF AddPath, Distance
<1> QED
    BY <1>4, <1>5 DEF GoesOn

LEMMA ActsGoOn ==
    ASSUME IInv, NEW p \in Clients,
           \/ AdvanceBranch(p) \/ CompareEntries(p) \/ UpdateIndex(p)
           \/ Decide(p) \/ Send(p) \/ Fetch(p)
    PROVE  GoesOn(p)
<1>1. AdvanceBranch(p) => GoesOn(p)
    <2>1. Distance("comparing") < Distance("advancing") /\ Distance("advancing") > 0
        BY DEF Distance
    <2> QED
        BY <2>1, ReturnGoesOn, ProceedGoesOn DEF AdvanceBranch
<1>2. CompareEntries(p) => GoesOn(p)
    <2>1. Distance("indexing") < Distance("comparing") /\ Distance("comparing") > 0
        BY DEF Distance
    <2> QED
        BY <2>1, ReturnGoesOn, ProceedGoesOn DEF CompareEntries
<1>3. UpdateIndex(p) => GoesOn(p)
    <2>1. Distance("indexing") > 0
        BY DEF Distance
    <2> QED
        BY <2>1, ReturnGoesOn DEF UpdateIndex
<1>4. Decide(p) => GoesOn(p)
    <2>1. Distance("samehead2") > 0
        BY DEF Distance
    <2> QED
        BY <2>1, ReturnGoesOn DEF Decide
<1>5. Send(p) => GoesOn(p)
    <2>1. Distance("sending") > 0
        BY DEF Distance
    <2> QED
        BY <2>1, ReturnGoesOn DEF Send
<1>6. Fetch(p) => GoesOn(p)
    <2>1. Distance("configured") < Distance("fetching")
        BY DEF Distance
    <2> QED
        BY <2>1, ProceedGoesOn DEF Fetch
<1> QED
    BY <1>1, <1>2, <1>3, <1>4, <1>5, <1>6

LEMMA TransportGoesOn ==
    ASSUME IInv, NEW p \in Clients,
           \/ CheckRequest(p) \/ NamePushedBranch(p) \/ ReadUpstream(p) \/ CaptureHead(p)
           \/ CheckClean(p) \/ CheckBranch(p) \/ CheckHead(p)
           \/ RecheckPushedBranch(p) \/ RecheckUpstream(p)
           \/ ReadTarget(p) \/ RecheckTargetBranch(p) \/ RecheckTargetUpstream(p)
           \/ RecheckTarget(p) \/ RecheckClean(p) \/ RecheckTargetHead(p)
    PROVE  GoesOn(p)
<1>1. task[p] \in Tasks
    BY Known
<1>2. CheckRequest(p) => GoesOn(p)
    BY CheckGoesOn DEF CheckRequest, Distance
<1>3. NamePushedBranch(p) \/ ReadUpstream(p) => GoesOn(p)
    <2>1. /\ [task[p] EXCEPT !.ref = head].todo = task[p].todo
          /\ [task[p] EXCEPT !.up = upstream[head]].todo = task[p].todo
        BY <1>1 DEF Tasks
    <2>2. /\ Distance("upstream") < Distance("configured")
          /\ Distance("capturing") < Distance("upstream")
        BY DEF Distance
    <2> QED
        BY <2>1, <2>2, CheckGoesOn DEF NamePushedBranch, ReadUpstream
<1>4. CaptureHead(p) => GoesOn(p)
    <2>1. [task[p] EXCEPT !.base = HeadCommit].todo = task[p].todo
        BY <1>1 DEF Tasks
    <2>2. Distance("doctor") < Distance("capturing")
        BY DEF Distance
    <2> QED
        BY <2>1, <2>2, CheckGoesOn DEF CaptureHead
<1>5. CheckClean(p) \/ RecheckClean(p) \/ CheckBranch(p) \/ RecheckTargetHead(p) => GoesOn(p)
    BY CheckGoesOn DEF CheckClean, RecheckClean, CheckBranch, RecheckTargetHead, Distance
<1>6. CheckHead(p) => GoesOn(p)
    <2>1. Distance(IF task[p].op = "push" THEN "configured2" ELSE "target")
              < Distance("samehead")
        BY DEF Distance
    <2> QED
        BY <2>1, CheckGoesOn DEF CheckHead
<1>7. /\ RecheckPushedBranch(p) \/ RecheckUpstream(p) => GoesOn(p)
      /\ RecheckTargetBranch(p) \/ RecheckTargetUpstream(p) \/ RecheckTarget(p) => GoesOn(p)
    BY CheckGoesOn DEF RecheckPushedBranch, RecheckUpstream, RecheckTargetBranch,
                       RecheckTargetUpstream, RecheckTarget, Distance
<1>8. ReadTarget(p) => GoesOn(p)
    <2>1. [task[p] EXCEPT !.target = tracking[task[p].up]].todo = task[p].todo
        BY <1>1 DEF Tasks
    <2>2. Distance("sameref") < Distance("target")
        BY DEF Distance
    <2> QED
        BY <2>1, <2>2, CheckGoesOn DEF ReadTarget
<1> QED
    BY <1>2, <1>3, <1>4, <1>5, <1>6, <1>7, <1>8

\* Nothing but a call of its own changes what is known of a call, and it goes on.
LEMMA StepGoesOn ==
    ASSUME IInv, [Next]_vars, NEW p \in Clients, pc[p] # "idle"
    PROVE  UNCHANGED <<pc[p], task[p]>> \/ GoesOn(p)
<1>1. CASE \E q \in Clients : q # p /\ ClientStep(q)
    BY <1>1, OthersCalls DEF IInv
<1>2. CASE ClientStep(p)
    <2>1. ~CommitPaths(p) /\ ~FastForward(p) /\ ~Push(p)
        BY DEF CommitPaths, FastForward, Push, Call
    <2> QED
        BY <1>2, <2>1, CommitGoesOn, AddPathGoesOn, ActsGoOn, TransportGoesOn DEF ClientStep
<1>3. CASE Outside \/ UNCHANGED vars
    BY <1>3 DEF vars, Outside, EditFile, StageFile, CommitByHand, ResetByHand,
       CheckOut, FastForwardByHand, Reconfigure, OtherClonePushes, Other
<1> QED
    BY <1>1, <1>2, <1>3, NextCases

\* A step brings a call closer to its end or leaves it where it is.
EveryStepComesCloser ==
    [][\A p \in Clients : pc[p] # "idle" =>
          \/ UNCHANGED <<pc[p], task[p]>>
          \/ Ahead(p)' < Ahead(p) /\ Ahead(p)' \in Nat]_vars

\* For any clients, branches and interference, and any finite number of files, no
\* call of the transport runs for ever: a push ends within 15 steps of its own, a
\* fast-forward within 17, a commit within 12 and one for each file it names,
\* however often the person and other clones move what it has captured
\* (git_sync.py:213-361).
THEOREM CallsEnd ==
    ASSUME IsFiniteSet(Artifacts)
    PROVE  Spec => EveryStepComesCloser
<1>1. ASSUME IInv, [Next]_vars, NEW p \in Clients, pc[p] # "idle"
      PROVE  \/ UNCHANGED <<pc[p], task[p]>>
             \/ Ahead(p)' < Ahead(p) /\ Ahead(p)' \in Nat
    <2>1. SUFFICES ASSUME GoesOn(p) PROVE Ahead(p)' < Ahead(p) /\ Ahead(p)' \in Nat
        BY <1>1, StepGoesOn
    <2>2. IsFiniteSet(task[p].todo)
        BY <1>1, Known, FS_Subset DEF Tasks
    <2>3. Distance(pc[p]) \in Nat /\ Distance(pc'[p]) \in Nat
        BY DistanceTyped
    <2>4. Cardinality(task[p].todo) \in Nat
        BY <2>2, FS_CardinalityType
    <2>5. CASE Distance(pc'[p]) < Distance(pc[p]) /\ task'[p].todo \subseteq task[p].todo
        <3>1. IsFiniteSet(task'[p].todo) /\ Cardinality(task'[p].todo) <= Cardinality(task[p].todo)
            BY <2>2, <2>5, FS_Subset
        <3>2. Cardinality(task'[p].todo) \in Nat
            BY <3>1, FS_CardinalityType
        <3> HIDE DEF Distance
        <3> QED
            BY <2>3, <2>4, <2>5, <3>1, <3>2 DEF Ahead
    <2>6. CASE /\ pc[p] = "adding" /\ pc'[p] = "adding"
               /\ \E a \in task[p].todo : task'[p].todo = task[p].todo \ {a}
        <3>1. PICK a \in task[p].todo : task'[p].todo = task[p].todo \ {a}
            BY <2>6
        <3>2. /\ IsFiniteSet(task'[p].todo)
              /\ Cardinality(task'[p].todo) = Cardinality(task[p].todo) - 1
            BY <2>2, <3>1, FS_RemoveElement
        <3>3. Cardinality(task'[p].todo) \in Nat
            BY <3>2, FS_CardinalityType
        <3> QED
            BY <2>3, <2>4, <2>6, <3>2, <3>3 DEF Ahead
    <2> QED
        BY <2>1, <2>5, <2>6 DEF GoesOn
<1>2. IInv /\ [Next]_vars =>
        [\A p \in Clients : pc[p] # "idle" =>
            \/ UNCHANGED <<pc[p], task[p]>>
            \/ Ahead(p)' < Ahead(p) /\ Ahead(p)' \in Nat]_vars
    BY <1>1
<1> QED
    BY <1>2, Invariance, PTL DEF Spec, EveryStepComesCloser

\* A call can go on by itself: of the guards of its steps only that of AddPath asks
\* for more than a place.
CanContinue(p) ==
    /\ pc[p] \in Places \ {"idle"}
    /\ pc[p] = "adding" => task[p].todo # {}

NobodyWaits == \A p \in Clients : pc[p] # "idle" => CanContinue(p)

\* For any clients, files and interference, a call under way always has a next step
\* of its own: git add is never left without a file, and nothing is waited for
\* (git_sync.py:213-361).
THEOREM NobodyHasToWait == Spec => []NobodyWaits
<1>1. IInv => NobodyWaits
    BY DEF IInv, ClientOK, Fits, StagedFits, CanContinue, NobodyWaits
<1> QED
    BY <1>1, Invariance, PTL
=============================================================================

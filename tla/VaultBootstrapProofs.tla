------------------------ MODULE VaultBootstrapProofs ------------------------
(***************************************************************************)
(* Proofs about VaultBootstrap.                                            *)
(***************************************************************************)
EXTENDS VaultBootstrap, TLAPS

-----------------------------------------------------------------------------
(* The inductive invariant.                                                *)

Trying == Initializing \cup {"undoing"}
Clearing == Undoing \ {"undoing"}
Bootstrapping == {"bootstrapping", "inspecting", "activating"}

\* Processes with an id of their own.
Busy(p) == pc[p] \in Initializing \cup Undoing

\* Nothing of the Vault is visible yet.
Hiding(p) == pc[p] \in {"staging", "staging_local", "checking", "renaming"}

\* Ids are drawn once: what bears an id that is in use belongs to its drawer.
IdAt(p) ==
    /\ pc[p] # "idle" => id[p] \in used
    /\ Busy(p) => id[p] \notin made \cup failed
    /\ Busy(p) => \A q \in Procs : Busy(q) /\ q # p => id[q] # id[p]

UsedInv ==
    /\ root.id # None => root.id \in used
    /\ \A h \in Homes : \A i \in Ids : local[h][i] # "absent" => i \in used
    /\ made \subseteq used /\ failed \subseteq used

\* What a process owns, wherever it is.
OwnedAs(place, o) ==
    /\ place \in {"idle", "staging", "looking", "opening"} => o = {}
    /\ place = "staging_local" => o = {"portable_stage"}
    /\ place \in {"checking", "renaming"} => o = {"portable_stage", "local_stage"}
    /\ place = "publishing" => o = {"portable_stage", "local"}
    /\ place \in {"bootstrapping", "inspecting", "activating"} => o = {"portable", "local"}
    /\ place = "linking" => o = {"local_stage"}
    /\ place = "clearing_local" => "local" \in o
    /\ place \in {"clearing_portable", "removing_portable"} => "portable" \in o

OwnedAt(p) == OwnedAs(pc[p], owned[p])

\* The portable tree is a process's own exactly as long as it owns it.
RootAt(p) ==
    Busy(p) =>
        /\ "portable" \notin owned[p] => root.id # id[p]
        /\ "portable" \in owned[p] /\ pc[p] \notin {"clearing_portable", "removing_portable"}
             => root.id = id[p] /\ root.state = "whole"
        /\ pc[p] = "clearing_portable" => root.id = id[p] /\ root.state = "torn"

\* And so is the local tree in its home.
LocalAt(p) ==
    Busy(p) =>
        /\ \A h \in Homes : h # HomeOf[p] \/ "local" \notin owned[p]
             => local[h][id[p]] \in {"absent", "opened"}
        /\ "local" \in owned[p] /\ pc[p] # "clearing_local" => LocalOf(p) = "made"
        /\ pc[p] = "clearing_local" => LocalOf(p) = "torn"

\* Nobody knows the id of a Vault that was never visible.
HiddenAt(p) ==
    Hiding(p) =>
        /\ \A h \in Homes : local[h][id[p]] = "absent"
        /\ \A q \in Procs : pc[q] \in Opening => id[q] # id[p]

\* An opener that finds its local tree gone had opened a Vault that failed.
OpenAt(q) ==
    pc[q] = "opening" /\ LocalOf(q) = "absent" =>
        /\ id[q] \notin made
        /\ \A p \in Procs : pc[p] \in Initializing => id[p] # id[q]

MadeInv ==
    /\ MadeVaultsStay
    /\ \A i \in made : \A h \in Homes : local[h][i] # "torn"

IInv ==
    /\ TypeOK
    /\ UsedInv
    /\ \A p \in Procs : IdAt(p)
    /\ \A p \in Procs : OwnedAt(p)
    /\ \A p \in Procs : RootAt(p)
    /\ \A p \in Procs : LocalAt(p)
    /\ \A p \in Procs : HiddenAt(p)
    /\ \A p \in Procs : OpenAt(p)
    /\ MadeInv
    /\ FailureLeavesNothing

LEMMA Initially == Init => IInv
BY HomeAssumption, NoneAssumption
   DEF Init, IInv, TypeOK, UsedInv, IdAt, OwnedAt, RootAt, LocalAt, HiddenAt, OpenAt, MadeInv,
       MadeVaultsStay, FailureLeavesNothing, OwnedAs, Busy, Hiding, Roots, RootStates, LocalStates,
       NoRoot, Tree, Initializing, Undoing, Opening, Trees, Stages

-----------------------------------------------------------------------------
(* A step is one process's; nothing of another changes but the trees.      *)

Alone(p) ==
    \A q \in Procs : q # p =>
        pc'[q] = pc[q] /\ id'[q] = id[q] /\ owned'[q] = owned[q] /\ stage'[q] = stage[q]

\* A step that changes no tree and no history.
Quiet(p) ==
    /\ UNCHANGED <<root, local, used, made, failed>>
    /\ Alone(p)
    /\ OwnedAt(p)'
    /\ pc'[p] \notin Clearing
    /\ Hiding(p)' => Hiding(p)
    /\ pc'[p] \in Initializing => pc[p] \in Initializing
    /\ pc'[p] = "undoing" => pc[p] \in Trying
    /\ Busy(p)' =>
         /\ id'[p] = id[p]
         /\ "portable" \in owned'[p] <=> "portable" \in owned[p]
         /\ "local" \in owned'[p] <=> "local" \in owned[p]
    /\ pc'[p] \in Opening =>
         \/ pc[p] \in Opening /\ id'[p] = id[p]
         \/ id'[p] = root.id /\ root.id # None
    /\ pc'[p] = "opening" =>
         pc[p] \in Opening /\ id'[p] = id[p] /\ LocalOf(p) # "absent"
    /\ pc'[p] = "idle" => stage'[p] = {}

LEMMA OwnsPortable ==
    ASSUME NEW p, OwnedAt(p), pc[p] \in Initializing
    PROVE  /\ "portable" \in owned[p] <=> pc[p] \in Bootstrapping
           /\ "local" \in owned[p] <=> pc[p] \in {"publishing"} \cup Bootstrapping
<1>1. CASE pc[p] = "staging"
  BY <1>1 DEF OwnedAt, OwnedAs, Bootstrapping
<1>2. CASE pc[p] = "staging_local"
  BY <1>2 DEF OwnedAt, OwnedAs, Bootstrapping
<1>3. CASE pc[p] \in {"checking", "renaming"}
  BY <1>3 DEF OwnedAt, OwnedAs, Bootstrapping
<1>4. CASE pc[p] = "publishing"
  BY <1>4 DEF OwnedAt, OwnedAs, Bootstrapping
<1>5. CASE pc[p] \in Bootstrapping
  BY <1>5 DEF OwnedAt, OwnedAs, Bootstrapping
<1> QED
  BY <1>1, <1>2, <1>3, <1>4, <1>5 DEF Initializing, Bootstrapping

LEMMA QuietKeeps ==
    ASSUME IInv, NEW p \in Procs, TypeOK', Quiet(p)
    PROVE  IInv'
<1>1. /\ root' = root /\ local' = local /\ used' = used
      /\ made' = made /\ failed' = failed
  BY DEF Quiet
<1>2. \A q \in Procs : q # p =>
        pc'[q] = pc[q] /\ id'[q] = id[q] /\ owned'[q] = owned[q] /\ stage'[q] = stage[q]
  BY DEF Quiet, Alone
<1>3. \A q \in Procs : Busy(q)' => Busy(q) /\ id'[q] = id[q]
  <2> SUFFICES ASSUME NEW q \in Procs, Busy(q)' PROVE Busy(q) /\ id'[q] = id[q]
    OBVIOUS
  <2>1. CASE q # p
    BY <1>2, <2>1 DEF Busy
  <2>2. CASE q = p
    <3>1. pc'[p] \in Initializing \/ pc'[p] = "undoing"
      BY <2>2 DEF Busy, Quiet, Clearing
    <3>2. pc[p] \in Initializing \/ pc[p] = "undoing"
      BY <3>1 DEF Quiet, Trying
    <3> QED
      BY <2>2, <3>2 DEF Quiet, Busy, Undoing
  <2> QED
    BY <2>1, <2>2
<1>4. \A q \in Procs : Busy(q)' =>
         /\ "portable" \in owned'[q] <=> "portable" \in owned[q]
         /\ "local" \in owned'[q] <=> "local" \in owned[q]
  BY <1>2 DEF Quiet
<1>5. \A q \in Procs : Hiding(q)' => Hiding(q) /\ id'[q] = id[q]
  <2> SUFFICES ASSUME NEW q \in Procs, Hiding(q)' PROVE Hiding(q) /\ id'[q] = id[q]
    OBVIOUS
  <2>1. Busy(q)'
    BY DEF Hiding, Busy, Initializing
  <2> QED
    BY <1>2, <1>3, <2>1 DEF Quiet, Hiding
<1>6. UsedInv'
  BY <1>1 DEF IInv, UsedInv
<1>7. \A q \in Procs : IdAt(q)'
  <2> SUFFICES ASSUME NEW q \in Procs PROVE IdAt(q)'
    OBVIOUS
  <2>1. pc'[q] # "idle" => id'[q] \in used
    <3>1. CASE Busy(q)'
      BY <1>3, <3>1 DEF IInv, IdAt, Busy, Initializing, Undoing
    <3>2. CASE pc'[q] \in Opening /\ q # p
      BY <1>2, <3>2 DEF IInv, IdAt, Opening
    <3>3. CASE pc'[q] \in Opening /\ q = p
      BY <3>3 DEF IInv, IdAt, UsedInv, Opening, Quiet
    <3> QED
      BY <3>1, <3>2, <3>3 DEF TypeOK, Busy
  <2>2. Busy(q)' => id'[q] \notin made' \cup failed'
    BY <1>1, <1>3 DEF IInv, IdAt
  <2>3. Busy(q)' => \A r \in Procs : Busy(r)' /\ r # q => id'[r] # id'[q]
    BY <1>3 DEF IInv, IdAt
  <2> QED
    BY <1>1, <2>1, <2>2, <2>3 DEF IdAt, Busy
<1>8. \A q \in Procs : OwnedAt(q)'
  <2> SUFFICES ASSUME NEW q \in Procs, q # p PROVE OwnedAt(q)'
    BY DEF Quiet
  <2>1. OwnedAt(q)
    BY DEF IInv
  <2> QED
    BY <1>2, <2>1 DEF OwnedAt
<1>9. \A q \in Procs : RootAt(q)'
  <2> SUFFICES ASSUME NEW q \in Procs, Busy(q)' PROVE RootAt(q)'
    BY DEF RootAt, Busy
  <2>1. RootAt(q) /\ Busy(q) /\ OwnedAt(q)
    BY <1>3 DEF IInv
  <2>2. CASE q # p
    BY <1>1, <1>2, <2>1, <2>2 DEF RootAt, Busy
  <2>3. CASE q = p
    <3>1. pc'[p] \in Trying /\ pc[p] \in Trying
      BY <2>3 DEF Busy, Quiet, Trying, Clearing, Undoing, Initializing
    <3> QED
      BY <1>1, <1>3, <1>4, <2>1, <2>3, <3>1 DEF RootAt, Trying, Initializing
  <2> QED
    BY <2>2, <2>3
<1>10. \A q \in Procs : LocalAt(q)'
  <2> SUFFICES ASSUME NEW q \in Procs, Busy(q)' PROVE LocalAt(q)'
    BY DEF LocalAt, Busy
  <2>1. LocalAt(q) /\ Busy(q)
    BY <1>3 DEF IInv
  <2>2. id'[q] = id[q] /\ ("local" \in owned'[q] <=> "local" \in owned[q])
    BY <1>3, <1>4
  <2>3. pc'[q] = "clearing_local" <=> pc[q] = "clearing_local"
    BY <1>2 DEF Quiet, Clearing, Undoing, Busy, Trying, Initializing
  <2> QED
    BY <1>1, <2>1, <2>2, <2>3 DEF LocalAt, LocalOf
<1>11. \A q \in Procs : HiddenAt(q)'
  <2> SUFFICES ASSUME NEW q \in Procs, Hiding(q)' PROVE HiddenAt(q)'
    BY DEF HiddenAt, Hiding
  <2>1. HiddenAt(q) /\ Hiding(q) /\ id'[q] = id[q] /\ RootAt(q) /\ OwnedAt(q)
    BY <1>5 DEF IInv
  <2>2. root.id # id[q]
    BY <2>1, OwnsPortable DEF RootAt, Bootstrapping, Hiding, Busy, Initializing
  <2>3. ASSUME NEW r \in Procs, pc'[r] \in Opening PROVE id'[r] # id[q]
    <3>1. CASE r # p
      BY <1>2, <2>1, <2>3, <3>1 DEF HiddenAt
    <3>2. CASE r = p
      BY <2>1, <2>2, <2>3, <3>2 DEF HiddenAt, Quiet
    <3> QED
      BY <3>1, <3>2
  <2> QED
    BY <1>1, <2>1, <2>3 DEF HiddenAt
<1>12. \A q \in Procs : OpenAt(q)'
  <2> SUFFICES ASSUME NEW q \in Procs, pc'[q] = "opening", LocalOf(q)' = "absent"
               PROVE  OpenAt(q)'
    BY DEF OpenAt
  <2>1. q # p
    BY <1>1 DEF Quiet, LocalOf
  <2>2. pc[q] = "opening" /\ id'[q] = id[q] /\ LocalOf(q) = "absent" /\ OpenAt(q)
    BY <1>1, <1>2, <2>1 DEF IInv, LocalOf
  <2>3. \A r \in Procs : pc'[r] \in Initializing => pc[r] \in Initializing /\ id'[r] = id[r]
    BY <1>2, <1>3 DEF Quiet, Busy
  <2> QED
    BY <1>1, <2>2, <2>3 DEF OpenAt
<1>13. MadeInv'
  BY <1>1 DEF IInv, MadeInv, MadeVaultsStay
<1>14. FailureLeavesNothing'
  BY <1>1, <1>2 DEF IInv, FailureLeavesNothing, Quiet
<1> QED
  BY <1>6, <1>7, <1>8, <1>9, <1>10, <1>11, <1>12, <1>13, <1>14 DEF IInv
-----------------------------------------------------------------------------
(* The actions that change no tree.                                        *)

Places == Initializing \cup Undoing \cup Opening \cup {"idle"}

\* The step takes p to a place, with an id and with what it then owns.
Moved(p, place, i, o, s) ==
    /\ pc' \in [Procs -> Places] /\ pc'[p] = place
    /\ id' \in [Procs -> Ids \cup {None}] /\ id'[p] = i
    /\ owned' \in [Procs -> SUBSET Trees] /\ owned'[p] = o
    /\ stage' \in [Procs -> SUBSET Stages] /\ stage'[p] = s
    /\ opened' \in [Procs -> Ids \cup {None}]
    /\ s \subseteq o
    /\ Alone(p)

LEMMA MovedTypes ==
    ASSUME TypeOK, NEW p \in Procs, NEW place, NEW i, NEW o, NEW s, Moved(p, place, i, o, s),
           UNCHANGED <<root, local, used, made, failed>>
    PROVE  TypeOK'
BY DEF TypeOK, Moved, Alone, Places

LEMMA StageKeeps ==
    ASSUME IInv, NEW p \in Procs, Stage(p)
    PROVE  IInv'
<1> TypeOK /\ OwnedAt(p)
  BY DEF IInv
<1>1. CASE pc[p] = "staging" /\ MakeStage(p, "portable_stage") /\ Goto(p, "staging_local")
  <2>1. Moved(p, "staging_local", id[p], owned[p] \cup {"portable_stage"},
              stage[p] \cup {"portable_stage"})
    BY <1>1 DEF Stage, Moved, MakeStage, Goto, TypeOK, Alone, Places, Initializing, Trees, Stages
  <2>2. Quiet(p)
    BY <1>1, <2>1 DEF Stage, Moved, OwnedAt, OwnedAs, Quiet, Hiding, Busy, Trying, Initializing, Undoing, Opening, Clearing
  <2> QED
    BY <2>1, <2>2, MovedTypes, QuietKeeps DEF Stage
<1>2. CASE pc[p] = "staging_local" /\ MakeStage(p, "local_stage") /\ Goto(p, "checking")
  <2>1. Moved(p, "checking", id[p], owned[p] \cup {"local_stage"},
              stage[p] \cup {"local_stage"})
    BY <1>2 DEF Stage, Moved, MakeStage, Goto, TypeOK, Alone, Places, Initializing, Trees, Stages
  <2>2. Quiet(p)
    BY <1>2, <2>1 DEF Stage, Moved, OwnedAt, OwnedAs, Quiet, Hiding, Busy, Trying, Initializing, Undoing, Opening, Clearing
  <2> QED
    BY <2>1, <2>2, MovedTypes, QuietKeeps DEF Stage
<1> QED
  BY <1>1, <1>2 DEF Stage

\* An initialization that finds something wrong starts to undo.
LEMMA UndoKeeps ==
    ASSUME IInv, NEW p \in Procs, pc[p] \in Initializing, Goto(p, "undoing"),
           UNCHANGED <<root, local, used, id, owned, stage, opened, made, failed>>
    PROVE  IInv'
<1> TypeOK
  BY DEF IInv
<1>1. Moved(p, "undoing", id[p], owned[p], stage[p])
  BY DEF Goto, Moved, TypeOK, Alone, Places, Initializing, Undoing, Opening
<1>2. Quiet(p)
  BY <1>1 DEF Moved, OwnedAt, OwnedAs, Quiet, Hiding, Busy, Trying, Initializing, Undoing, Opening, Clearing
<1> QED
  BY <1>1, <1>2, MovedTypes, QuietKeeps

\* A command that ends without any effect.
LEMMA ReturnKeeps ==
    ASSUME IInv, NEW p \in Procs, NEW vault \in Ids \cup {None}, Return(p, vault),
           stage' = [stage EXCEPT ![p] = {}], UNCHANGED <<root, local, used, made, failed>>
    PROVE  IInv'
<1> TypeOK
  BY DEF IInv
<1>1. Moved(p, "idle", None, {}, {})
  BY DEF Return, Goto, Moved, TypeOK, Alone, Places, Initializing, Undoing, Opening
<1>2. Quiet(p)
  BY <1>1 DEF Moved, OwnedAt, OwnedAs, Quiet, Hiding, Busy, Trying, Initializing, Undoing, Opening, Clearing
<1> QED
  BY <1>1, <1>2, MovedTypes, QuietKeeps

LEMMA CheckTargetsKeeps ==
    ASSUME IInv, NEW p \in Procs, CheckTargets(p)
    PROVE  IInv'
<1> TypeOK /\ OwnedAt(p)
  BY DEF IInv
<1>1. CASE Goto(p, "renaming")
  <2>1. Moved(p, "renaming", id[p], owned[p], stage[p])
    BY <1>1 DEF CheckTargets, Goto, Moved, TypeOK, Alone, Places, Initializing, Undoing, Opening
  <2>2. Quiet(p)
    BY <1>1, <2>1 DEF CheckTargets, Moved, OwnedAt, OwnedAs, Quiet, Hiding, Busy, Trying, Initializing, Undoing, Opening, Clearing
  <2> QED
    BY <2>1, <2>2, MovedTypes, QuietKeeps DEF CheckTargets
<1>2. CASE Goto(p, "undoing")
  BY <1>2, UndoKeeps DEF CheckTargets, Initializing
<1> QED
  BY <1>1, <1>2 DEF CheckTargets

LEMMA RemoveStageKeeps ==
    ASSUME IInv, NEW p \in Procs, RemoveStage(p)
    PROVE  IInv'
<1> TypeOK
  BY DEF IInv
<1>1. PICK s \in Stages : Removes(p, s) /\ Removed(p, s) /\ DropStage(p, s)
  BY DEF RemoveStage
<1>2. s # "portable" /\ s # "local"
  BY DEF Stages
<1>3. Moved(p, "undoing", id[p], owned[p] \ {s}, stage[p] \ {s})
  BY <1>1 DEF RemoveStage, Removed, DropStage, Moved, TypeOK, Alone, Places, Initializing, Undoing, Opening
<1>4. Quiet(p)
  BY <1>2, <1>3 DEF RemoveStage, Moved, OwnedAt, OwnedAs, Quiet, Hiding, Busy, Trying, Initializing, Undoing, Opening, Clearing
<1> QED
  BY <1>3, <1>4, MovedTypes, QuietKeeps DEF RemoveStage

LEMMA RemovalFailsKeeps ==
    ASSUME IInv, NEW p \in Procs, RemovalFails(p)
    PROVE  IInv'
BY ReturnKeeps DEF RemovalFails

LEMMA CrashKeeps ==
    ASSUME IInv, NEW p \in Procs, Crash(p)
    PROVE  IInv'
BY ReturnKeeps DEF Crash

LEMMA FailsKeeps ==
    ASSUME IInv, NEW p \in Procs, Fails(p)
    PROVE  IInv'
<1>1. CASE pc[p] \in Initializing
  BY <1>1, UndoKeeps DEF Fails, Initializing
<1>2. CASE pc[p] = "linking" /\ Return(p, None) /\ DropStage(p, "local_stage")
  <2>1. TypeOK /\ owned[p] = {"local_stage"}
    BY <1>2 DEF IInv, OwnedAt, OwnedAs
  <2>2. stage[p] \ {"local_stage"} = {}
    BY <2>1 DEF TypeOK
  <2>3. stage' = [stage EXCEPT ![p] = {}]
    BY <1>2, <2>2 DEF DropStage
  <2> QED
    BY <1>2, <2>3, ReturnKeeps DEF Fails
<1> QED
  BY <1>1, <1>2 DEF Fails

LEMMA OpenReadKeeps ==
    ASSUME IInv, NEW p \in Procs, OpenRead(p)
    PROVE  IInv'
<1> TypeOK /\ OwnedAt(p)
  BY DEF IInv
<1>1. root.id \in Ids
  BY DEF OpenRead, Openable, TypeOK, Roots
<1>2. root.id # None
  BY <1>1, NoneAssumption
<1>3. stage[p] = {}
  BY DEF TypeOK, OwnedAt, OwnedAs, OpenRead
<1>4. Moved(p, "looking", root.id, owned[p], stage[p])
  BY <1>1 DEF OpenRead, Goto, Moved, TypeOK, Alone, Places, Initializing, Undoing, Opening
<1>5. Quiet(p)
  BY <1>2, <1>4 DEF OpenRead, Moved, OwnedAt, OwnedAs, Quiet, Hiding, Busy, Trying, Initializing, Undoing, Opening, Clearing
<1> QED
  BY <1>4, <1>5, MovedTypes, QuietKeeps DEF OpenRead

LEMMA OpenLookKeeps ==
    ASSUME IInv, NEW p \in Procs, OpenLook(p)
    PROVE  IInv'
<1> TypeOK /\ OwnedAt(p)
  BY DEF IInv
<1>1. CASE LocalOf(p) # "absent" /\ Goto(p, "opening") /\ UNCHANGED <<owned, stage>>
  <2>1. Moved(p, "opening", id[p], owned[p], stage[p])
    BY <1>1 DEF OpenLook, Goto, Moved, TypeOK, Alone, Places, Initializing, Undoing, Opening
  <2>2. Quiet(p)
    BY <1>1, <2>1 DEF OpenLook, Moved, OwnedAt, OwnedAs, Quiet, Hiding, Busy, Trying, Initializing, Undoing, Opening, Clearing
  <2> QED
    BY <2>1, <2>2, MovedTypes, QuietKeeps DEF OpenLook
<1>2. CASE MakeStage(p, "local_stage") /\ Goto(p, "linking")
  <2>1. Moved(p, "linking", id[p], owned[p] \cup {"local_stage"}, stage[p] \cup {"local_stage"})
    BY <1>2 DEF OpenLook, MakeStage, Goto, Trees, Stages, Moved, TypeOK, Alone, Places, Initializing, Undoing, Opening
  <2>2. Quiet(p)
    BY <1>2, <2>1 DEF OpenLook, Moved, OwnedAt, OwnedAs, Quiet, Hiding, Busy, Trying, Initializing, Undoing, Opening, Clearing
  <2> QED
    BY <2>1, <2>2, MovedTypes, QuietKeeps DEF OpenLook
<1> QED
  BY <1>1, <1>2 DEF OpenLook

LEMMA OpenStrictKeeps ==
    ASSUME IInv, NEW p \in Procs, OpenStrict(p)
    PROVE  IInv'
<1>1. TypeOK /\ stage[p] = {}
  BY DEF IInv, TypeOK, OwnedAt, OwnedAs, OpenStrict
<1>2. stage' = [stage EXCEPT ![p] = {}]
  BY <1>1 DEF OpenStrict, TypeOK
<1>3. root.id \in Ids \cup {None}
  BY <1>1 DEF TypeOK, Roots
<1> QED
  BY <1>2, <1>3, ReturnKeeps DEF OpenStrict

-----------------------------------------------------------------------------
(* The actions that change a tree or a history.                            *)

LEMMA InitializeKeeps ==
    ASSUME IInv, NEW p \in Procs, Initialize(p)
    PROVE  IInv'
<1> TypeOK /\ OwnedAt(p)
  BY DEF IInv
<1>1. PICK i \in Ids \ used : id' = [id EXCEPT ![p] = i] /\ used' = used \cup {i}
  BY DEF Initialize
<1>2. owned[p] = {} /\ stage[p] = {}
  BY DEF TypeOK, OwnedAt, OwnedAs, Initialize
<1>3. Moved(p, "staging", i, {}, {})
  BY <1>1, <1>2 DEF Initialize, Goto, Moved, TypeOK, Alone, Places, Initializing, Undoing, Opening
<1>4. /\ root' = root /\ local' = local /\ made' = made /\ failed' = failed
      /\ used' = used \cup {i}
  BY <1>1 DEF Initialize
<1>5. /\ pc'[p] = "staging" /\ id'[p] = i /\ owned'[p] = {} /\ stage'[p] = {}
      /\ \A q \in Procs : q # p =>
           pc'[q] = pc[q] /\ id'[q] = id[q] /\ owned'[q] = owned[q] /\ stage'[q] = stage[q]
  BY <1>3 DEF Moved, Alone
<1>6. /\ root.id # i /\ \A h \in Homes : local[h][i] = "absent"
      /\ i \notin made \cup failed
      /\ \A q \in Procs : pc[q] # "idle" => id[q] # i
  BY <1>1, NoneAssumption DEF IInv, UsedInv, IdAt
<1>7. \A q \in Procs : Busy(q)' /\ q # p => Busy(q) /\ id'[q] = id[q] /\ id[q] # i
  BY <1>5, <1>6 DEF Busy, Initializing, Undoing
<1>8. TypeOK'
  BY <1>3, <1>4 DEF Moved, Alone, TypeOK, Places
<1>9. UsedInv'
  BY <1>4 DEF IInv, UsedInv
<1>10. ASSUME NEW q \in Procs PROVE IdAt(q)'
  <2>1. IdAt(q)
    BY DEF IInv
  <2>2. CASE q = p
    BY <1>4, <1>5, <1>6, <1>7, <2>2 DEF IdAt
  <2>3. CASE q # p
    BY <1>4, <1>5, <1>7, <2>1, <2>3 DEF IdAt
  <2> QED
    BY <2>2, <2>3
<1>11. ASSUME NEW q \in Procs PROVE OwnedAt(q)'
  BY <1>5 DEF IInv, OwnedAt, OwnedAs
<1>12. ASSUME NEW q \in Procs PROVE RootAt(q)'
  <2>1. RootAt(q)
    BY DEF IInv
  <2> QED
    BY <1>4, <1>5, <1>6, <2>1 DEF RootAt, Busy
<1>13. ASSUME NEW q \in Procs PROVE LocalAt(q)'
  <2>1. LocalAt(q)
    BY DEF IInv
  <2> QED
    BY <1>4, <1>5, <1>6, <2>1 DEF LocalAt, LocalOf, Busy
<1>14. ASSUME NEW q \in Procs PROVE HiddenAt(q)'
  <2>1. HiddenAt(q)
    BY DEF IInv
  <2>2. \A r \in Procs : pc'[r] \in Opening => pc[r] \in Opening /\ id'[r] = id[r] /\ id[r] # i
    BY <1>5, <1>6 DEF Opening
  <2> QED
    <3>1. CASE q = p
      BY <1>4, <1>5, <1>6, <2>2, <3>1 DEF HiddenAt
    <3>2. CASE q # p
      <4>1. pc'[q] = pc[q] /\ id'[q] = id[q]
        BY <1>5, <3>2
      <4>2. Hiding(q) => \A r \in Procs : pc'[r] \in Opening => id'[r] # id[q]
        BY <2>1, <2>2 DEF HiddenAt
      <4> QED
        BY <1>4, <2>1, <4>1, <4>2 DEF HiddenAt, Hiding
    <3> QED
      BY <3>1, <3>2
<1>15. ASSUME NEW q \in Procs PROVE OpenAt(q)'
  <2>1. OpenAt(q)
    BY DEF IInv
  <2>2. pc'[q] = "opening" => pc[q] = "opening" /\ id'[q] = id[q] /\ id[q] # i
    BY <1>5, <1>6
  <2> QED
    BY <1>4, <1>5, <2>1, <2>2 DEF OpenAt, LocalOf
<1>16. MadeInv'
  BY <1>4 DEF IInv, MadeInv, MadeVaultsStay
<1>17. FailureLeavesNothing'
  BY <1>4, <1>5 DEF IInv, FailureLeavesNothing
<1> QED
  BY <1>8, <1>9, <1>10, <1>11, <1>12, <1>13, <1>14, <1>15, <1>16, <1>17 DEF IInv

\* A step of an initialization changes no tree but those of its own id.
Tends(p) ==
    /\ Busy(p) /\ ~Hiding(p)'
    /\ Alone(p)
    /\ used' = used
    /\ \/ pc'[p] \in Initializing \cup Undoing /\ id'[p] = id[p] /\ made' = made /\ failed' = failed
       \/ pc'[p] = "idle" /\ stage'[p] = {}
    /\ pc'[p] \in Initializing => pc[p] \in Initializing
    /\ \A h \in Homes : \A j \in Ids : h # HomeOf[p] \/ j # id[p] => local'[h][j] = local[h][j]
    /\ local'[HomeOf[p]][id[p]] = "absent" /\ LocalOf(p) # "absent"
         => pc'[p] \notin Initializing /\ made' = made
    /\ made' = made \/ (made' = made \cup {id[p]} /\ pc[p] \in Initializing)
    /\ failed' = failed \/ failed' = failed \cup {id[p]}
    /\ root'.id \in {root.id, id[p], None}
    /\ root.state \in {"whole", "torn"} /\ root.id # id[p]
         => root'.id = root.id /\ root'.state = root.state /\ root'.policy = root.policy

\* What it has to see to itself.
Minds(p) ==
    /\ OwnedAt(p)' /\ RootAt(p)' /\ LocalAt(p)'
    /\ id[p] \in made' =>
         /\ root'.state = "whole" /\ root'.id = id[p] /\ root'.policy # "none"
         /\ local'[HomeOf[p]][id[p]] = "made"
         /\ \A h \in Homes : local'[h][id[p]] # "torn"
    /\ id[p] \in failed' =>
         root'.id # id[p] /\ \A h \in Homes : local'[h][id[p]] \in {"absent", "opened"}

LEMMA TendsKeeps ==
    ASSUME IInv, NEW p \in Procs, TypeOK', Tends(p), Minds(p)
    PROVE  IInv'
<1> DEFINE i == id[p]
<1>1. \A q \in Procs : q # p =>
        pc'[q] = pc[q] /\ id'[q] = id[q] /\ owned'[q] = owned[q] /\ stage'[q] = stage[q]
  BY DEF Tends, Alone
<1>2. i \in used /\ i \in Ids /\ i # None /\ i \notin made \cup failed /\ HomeOf[p] \in Homes
  BY HomeAssumption, NoneAssumption DEF IInv, IdAt, Tends, Busy, Initializing, Undoing, TypeOK
<1>3. \A q \in Procs : Busy(q) /\ q # p => id[q] # i
  BY DEF IInv, IdAt, Tends
<1>4. \A h \in Homes : \A j \in Ids : h # HomeOf[p] \/ j # i => local'[h][j] = local[h][j]
  BY DEF Tends
<1>5. \A q \in Procs : pc[q] # "idle" => id[q] \in Ids /\ id[q] \in used
  BY DEF IInv, IdAt, TypeOK
<1>6. \A q \in Procs : Busy(q)' => Busy(q) /\ id'[q] = id[q]
  BY <1>1 DEF Tends, Busy, Initializing, Undoing
<1>7. ASSUME NEW q \in Procs, Busy(q), q # p
      PROVE  /\ id[q] \in Ids /\ id[q] # i /\ id[q] # None
             /\ \A h \in Homes : local'[h][id[q]] = local[h][id[q]]
  <2>1. id[q] \in Ids /\ id[q] # i
    BY <1>3, <1>5, <1>7 DEF Busy, Initializing, Undoing
  <2> QED
    BY <1>4, <2>1, NoneAssumption
<1>8. UsedInv'
  <2>1. root'.id # None => root'.id \in used
    BY <1>2 DEF Tends, IInv, UsedInv
  <2>2. ASSUME NEW h \in Homes, NEW j \in Ids, local'[h][j] # "absent" PROVE j \in used
    BY <1>2, <1>4, <2>2 DEF IInv, UsedInv
  <2> QED
    BY <1>2, <2>1, <2>2 DEF Tends, IInv, UsedInv
<1>9. ASSUME NEW q \in Procs PROVE IdAt(q)'
  <2>1. CASE q = p
    <3>1. Busy(p)' => made' = made /\ failed' = failed
      BY DEF Tends, Busy, Initializing, Undoing
    <3>2. pc'[p] # "idle" => id'[p] = i
      BY DEF Tends
    <3> QED
      BY <1>2, <1>3, <1>6, <2>1, <3>1, <3>2 DEF IdAt, Tends
  <2>2. CASE q # p
    <3>1. IdAt(q)
      BY DEF IInv
    <3>2. pc'[q] # "idle" => id'[q] \in used'
      BY <1>1, <2>2, <3>1 DEF IdAt, Tends
    <3>3. Busy(q)' => id'[q] \notin made' \cup failed'
      BY <1>3, <1>6, <2>2, <3>1 DEF IdAt, Tends
    <3>4. Busy(q)' => \A r \in Procs : Busy(r)' /\ r # q => id'[r] # id'[q]
      BY <1>6, <3>1 DEF IdAt
    <3> QED
      BY <3>2, <3>3, <3>4 DEF IdAt, Busy
  <2> QED
    BY <2>1, <2>2
<1>10. ASSUME NEW q \in Procs PROVE OwnedAt(q)'
  BY <1>1 DEF IInv, OwnedAt, Minds
<1>11. ASSUME NEW q \in Procs PROVE RootAt(q)'
  <2> SUFFICES ASSUME q # p, Busy(q)' PROVE RootAt(q)'
    <3>1. RootAt(p)'
      BY DEF Minds
    <3>2. ~Busy(q)' => RootAt(q)'
      BY DEF RootAt
    <3> QED
      BY <3>1, <3>2
  <2>1. Busy(q) /\ RootAt(q)
    BY <1>6 DEF IInv
  <2>2. id[q] # i /\ id[q] # None
    BY <1>7, <2>1
  <2>3. root'.id = id[q] => root.id = id[q]
    BY <2>2 DEF Tends
  <2>4. root.id = id[q] /\ root.state \in {"whole", "torn"}
          => root'.id = root.id /\ root'.state = root.state
    BY <2>2 DEF Tends
  <2> QED
    BY <1>1, <2>1, <2>3, <2>4 DEF RootAt
<1>12. ASSUME NEW q \in Procs PROVE LocalAt(q)'
  <2> SUFFICES ASSUME q # p, Busy(q)' PROVE LocalAt(q)'
    BY DEF Minds, LocalAt, Busy
  <2>1. Busy(q) /\ LocalAt(q) /\ HomeOf[q] \in Homes
    BY <1>6, HomeAssumption DEF IInv
  <2>2. \A h \in Homes : local'[h][id[q]] = local[h][id[q]]
    BY <1>7, <2>1
  <2>3. LocalOf(q)' = LocalOf(q)
    BY <1>1, <2>1, <2>2 DEF LocalOf
  <2>4. pc'[q] = pc[q] /\ id'[q] = id[q] /\ owned'[q] = owned[q]
    BY <1>1
  <2> QED
    BY <2>1, <2>2, <2>3, <2>4 DEF LocalAt
<1>13. ASSUME NEW q \in Procs PROVE HiddenAt(q)'
  <2> SUFFICES ASSUME Hiding(q)' PROVE HiddenAt(q)'
    BY DEF HiddenAt, Hiding
  <2>1. q # p
    BY DEF Tends
  <2>2. Hiding(q) /\ HiddenAt(q) /\ id'[q] = id[q] /\ Busy(q)
    BY <1>1, <2>1 DEF Hiding, Busy, Initializing, IInv
  <2>3. \A h \in Homes : local'[h][id[q]] = local[h][id[q]]
    BY <1>7, <2>1, <2>2
  <2>4. \A r \in Procs : pc'[r] \in Opening => pc[r] \in Opening /\ id'[r] = id[r]
    BY <1>1 DEF Tends, Opening, Initializing, Undoing
  <2> QED
    BY <2>2, <2>3, <2>4 DEF HiddenAt
<1>14. ASSUME NEW q \in Procs PROVE OpenAt(q)'
  <2> SUFFICES ASSUME pc'[q] = "opening", LocalOf(q)' = "absent" PROVE OpenAt(q)'
    BY DEF OpenAt
  <2>1. q # p
    BY DEF Tends, Initializing, Undoing
  <2>2. pc[q] = "opening" /\ id'[q] = id[q] /\ OpenAt(q) /\ HomeOf[q] \in Homes /\ id[q] \in Ids
    BY <1>1, <1>5, <2>1, HomeAssumption DEF IInv
  <2>3. \A r \in Procs : pc'[r] \in Initializing => pc[r] \in Initializing /\ id'[r] = id[r]
    BY <1>1 DEF Tends, Initializing, Undoing
  <2>4. CASE LocalOf(q) = "absent"
    <3>1. id[q] \notin made /\ \A r \in Procs : pc[r] \in Initializing => id[r] # id[q]
      BY <2>2, <2>4 DEF OpenAt
    <3>2. id[q] \notin made'
      BY <3>1 DEF Tends
    <3> QED
      BY <2>2, <2>3, <3>1, <3>2 DEF OpenAt
  <2>5. CASE LocalOf(q) # "absent"
    <3>1. HomeOf[q] = HomeOf[p] /\ id[q] = i
      BY <1>4, <2>2, <2>5 DEF LocalOf
    <3>2. pc'[p] \notin Initializing /\ made' = made
      BY <2>2, <2>5, <3>1 DEF Tends, LocalOf
    <3>3. \A r \in Procs : pc'[r] \in Initializing => id'[r] # i
      BY <1>3, <2>3, <3>2 DEF Busy
    <3> QED
      BY <1>2, <2>2, <3>1, <3>2, <3>3 DEF OpenAt
  <2> QED
    BY <2>4, <2>5
<1>15. MadeInv'
  <2> SUFFICES ASSUME NEW j \in made'
               PROVE  /\ root'.state = "whole" /\ root'.id = j /\ root'.policy # "none"
                      /\ \E h \in Homes : local'[h][j] = "made"
                      /\ \A h \in Homes : local'[h][j] # "torn"
    BY DEF MadeInv, MadeVaultsStay
  <2>1. CASE j = i
    BY <1>2, <2>1 DEF Minds
  <2>2. CASE j # i
    <3>1. j \in made /\ j \in Ids
      BY <2>2 DEF Tends, TypeOK, IInv
    <3>2. \A h \in Homes : local'[h][j] = local[h][j]
      BY <1>4, <2>2, <3>1
    <3>3. /\ root.state = "whole" /\ root.id = j /\ root.policy # "none"
          /\ \E h \in Homes : local[h][j] = "made"
          /\ \A h \in Homes : local[h][j] # "torn"
      BY <3>1 DEF IInv, MadeInv, MadeVaultsStay
    <3> QED
      BY <2>2, <3>2, <3>3 DEF Tends
  <2> QED
    BY <2>1, <2>2
<1>16. FailureLeavesNothing'
  <2>1. ASSUME NEW j \in failed'
        PROVE  root'.id # j /\ \A h \in Homes : local'[h][j] \in {"absent", "opened"}
    <3>1. CASE j = i
      BY <2>1, <3>1 DEF Minds
    <3>2. CASE j # i
      <4>1. j \in failed /\ j \in Ids /\ j # None
        BY <2>1, <3>2, NoneAssumption DEF Tends, TypeOK, IInv
      <4>2. \A h \in Homes : local'[h][j] = local[h][j]
        BY <1>4, <3>2, <4>1
      <4>3. root.id # j /\ \A h \in Homes : local[h][j] \in {"absent", "opened"}
        BY <4>1 DEF IInv, FailureLeavesNothing
      <4>4. root'.id # j
        BY <3>2, <4>1, <4>3 DEF Tends
      <4> QED
        BY <4>2, <4>3, <4>4
    <3> QED
      BY <3>1, <3>2
  <2>2. ASSUME NEW q \in Procs, pc'[q] = "idle" PROVE stage'[q] = {}
    <3>1. CASE q = p
      BY <2>2, <3>1 DEF Tends, Initializing, Undoing
    <3>2. CASE q # p
      BY <1>1, <2>2, <3>2 DEF IInv, FailureLeavesNothing
    <3> QED
      BY <3>1, <3>2
  <2> QED
    BY <2>1, <2>2 DEF FailureLeavesNothing
<1> QED
  BY <1>8, <1>9, <1>10, <1>11, <1>12, <1>13, <1>14, <1>15, <1>16 DEF IInv

LEMMA OwnFacts ==
    ASSUME IInv, NEW p \in Procs, Busy(p)
    PROVE  /\ id[p] \in Ids /\ id[p] # None /\ id[p] \in used /\ id[p] \notin made \cup failed
           /\ HomeOf[p] \in Homes
           /\ OwnedAt(p) /\ RootAt(p) /\ LocalAt(p) /\ HiddenAt(p)
BY HomeAssumption, NoneAssumption DEF IInv, IdAt, Busy, Initializing, Undoing, TypeOK

LEMMA LocalFacts ==
    ASSUME TypeOK, NEW p \in Procs, id[p] \in Ids, NEW state \in LocalStates, SetLocal(p, state)
    PROVE  /\ local' \in [Homes -> [Ids -> LocalStates]]
           /\ local'[HomeOf[p]][id[p]] = state
           /\ \A h \in Homes : \A j \in Ids : h # HomeOf[p] \/ j # id[p] => local'[h][j] = local[h][j]
BY HomeAssumption DEF TypeOK, SetLocal

LEMMA TreeTypes ==
    ASSUME TypeOK, NEW p \in Procs, NEW place, NEW i, NEW o, NEW s, Moved(p, place, i, o, s),
           root' \in Roots, local' \in [Homes -> [Ids -> LocalStates]],
           used' \subseteq Ids, made' \subseteq Ids, failed' \subseteq Ids
    PROVE  TypeOK'
BY DEF TypeOK, Moved, Alone, Places

LEMMA RenameLocalKeeps ==
    ASSUME IInv, NEW p \in Procs, RenameLocal(p)
    PROVE  IInv'
<1> TypeOK /\ Busy(p)
  BY DEF IInv, RenameLocal, Busy, Initializing
<1>1. /\ id[p] \in Ids /\ id[p] \notin made \cup failed /\ HomeOf[p] \in Homes
      /\ OwnedAt(p) /\ RootAt(p) /\ HiddenAt(p)
  BY OwnFacts
<1>2. Moved(p, "publishing", id[p], {"portable_stage", "local"}, stage[p] \ {"local_stage"})
  <2>1. owned[p] = {"portable_stage", "local_stage"}
    BY <1>1 DEF RenameLocal, OwnedAt, OwnedAs
  <2>2. /\ (owned[p] \ {"local_stage"}) \cup {"local"} = {"portable_stage", "local"}
        /\ stage[p] \ {"local_stage"} \subseteq {"portable_stage", "local"}
    BY <2>1 DEF TypeOK
  <2>3. owned' = [owned EXCEPT ![p] = {"portable_stage", "local"}]
    BY <2>2 DEF RenameLocal, OwnInstead
  <2> QED
    BY <2>2, <2>3 DEF RenameLocal, DropStage, Goto, Trees, Stages, Moved, TypeOK, Alone, Places, Initializing, Undoing, Opening
<1>3. root' = root /\ made' = made /\ failed' = failed /\ used' = used /\ pc[p] = "renaming"
  BY DEF RenameLocal
<1>4. /\ local' \in [Homes -> [Ids -> LocalStates]]
      /\ local'[HomeOf[p]][id[p]] = "made"
      /\ \A h \in Homes : \A j \in Ids : h # HomeOf[p] \/ j # id[p] => local'[h][j] = local[h][j]
  BY <1>1, LocalFacts DEF RenameLocal, LocalStates
<1>5. TypeOK'
  BY <1>2, <1>3, <1>4, TreeTypes DEF TypeOK
<1>6. Tends(p)
  BY <1>2, <1>3, <1>4 DEF Tends, Moved, Busy, Hiding, Alone, Initializing, Undoing
<1>7. Minds(p)
  <2>1. pc'[p] = "publishing" /\ id'[p] = id[p] /\ owned'[p] = {"portable_stage", "local"}
    BY <1>2 DEF Moved
  <2>2. OwnedAt(p)'
    BY <2>1 DEF OwnedAt, OwnedAs
  <2>3. root.id # id[p]
    BY <1>1, <1>3, OwnsPortable DEF RootAt, Bootstrapping, Initializing
  <2>4. RootAt(p)'
    BY <1>3, <2>1, <2>3 DEF RootAt
  <2>5. \A h \in Homes : h # HomeOf[p] => local'[h][id[p]] = "absent"
    BY <1>1, <1>3, <1>4 DEF HiddenAt, Hiding
  <2>6. LocalAt(p)'
    BY <1>4, <2>1, <2>5 DEF LocalAt, LocalOf
  <2> QED
    BY <1>1, <1>3, <2>2, <2>4, <2>6 DEF Minds
<1> QED
  BY <1>5, <1>6, <1>7, TendsKeeps

LEMMA RenamePortableKeeps ==
    ASSUME IInv, NEW p \in Procs, RenamePortable(p)
    PROVE  IInv'
<1> TypeOK /\ Busy(p)
  BY DEF IInv, RenamePortable, Busy, Initializing
<1>1. /\ id[p] \in Ids /\ id[p] # None /\ id[p] \notin made \cup failed
      /\ OwnedAt(p) /\ RootAt(p) /\ LocalAt(p)
  BY OwnFacts
<1>2. CASE /\ root.state \in {"absent", "empty"}
           /\ root' = Tree("whole", id[p])
           /\ DropStage(p, "portable_stage")
           /\ OwnInstead(p, "portable_stage", "portable")
           /\ Goto(p, "bootstrapping")
  <2>1. Moved(p, "bootstrapping", id[p], {"portable", "local"}, stage[p] \ {"portable_stage"})
    BY <1>1, <1>2 DEF RenamePortable, OwnInstead, DropStage, OwnedAt, OwnedAs, Goto, Trees, Stages, Moved, TypeOK, Alone, Places, Initializing, Undoing, Opening
  <2>2. /\ local' = local /\ made' = made /\ failed' = failed /\ used' = used
        /\ pc[p] = "publishing"
    BY DEF RenamePortable
  <2>3. /\ root'.state = "whole" /\ root'.id = id[p] /\ root' \in Roots
    BY <1>1, <1>2 DEF Roots, RootStates, Tree
  <2>4. TypeOK'
    BY <2>1, <2>2, <2>3, TreeTypes DEF TypeOK
  <2>5. Tends(p)
    BY <1>2, <2>1, <2>2, <2>3 DEF LocalOf, Tends, Moved, Busy, Hiding, Alone, Initializing, Undoing
  <2>6. Minds(p)
    <3>1. pc'[p] = "bootstrapping" /\ id'[p] = id[p] /\ owned'[p] = {"portable", "local"}
      BY <2>1 DEF Moved
    <3>2. OwnedAt(p)'
      BY <3>1 DEF OwnedAt, OwnedAs
    <3>3. RootAt(p)'
      BY <2>3, <3>1 DEF RootAt
    <3>4. "local" \in owned[p]
      BY <1>1, <2>2 DEF OwnedAt, OwnedAs
    <3>5. LocalAt(p)'
      BY <1>1, <2>2, <3>1, <3>4 DEF LocalAt, LocalOf
    <3> QED
      BY <1>1, <2>2, <3>2, <3>3, <3>5 DEF Minds
  <2> QED
    BY <2>4, <2>5, <2>6, TendsKeeps
<1>3. CASE Goto(p, "undoing") /\ UNCHANGED <<root, owned, stage>>
  BY <1>3, UndoKeeps DEF RenamePortable, Initializing
<1> QED
  BY <1>2, <1>3 DEF RenamePortable

\* The end of an initialization.
LEMMA SucceedKeeps ==
    ASSUME IInv, NEW p \in Procs, pc[p] \in {"inspecting", "activating"}, Succeed(p),
           root' \in Roots, root'.id = root.id, root'.state = root.state,
           root'.policy = "default", UNCHANGED <<local, used, stage, failed>>
    PROVE  IInv'
<1> TypeOK /\ Busy(p)
  BY DEF IInv, Busy, Initializing
<1>1. /\ id[p] \in Ids /\ id[p] # None /\ id[p] \notin made \cup failed
      /\ OwnedAt(p) /\ RootAt(p) /\ LocalAt(p)
  BY OwnFacts
<1>2. owned[p] = {"portable", "local"} /\ stage[p] = {}
  BY <1>1 DEF OwnedAt, OwnedAs, TypeOK, Stages
<1>3. Moved(p, "idle", None, {}, {})
  BY <1>1, <1>2 DEF Succeed, Return, Goto, Moved, TypeOK, Alone, Places, Initializing, Undoing, Opening
<1>4. local' = local /\ made' = made \cup {id[p]} /\ failed' = failed /\ used' = used
  BY DEF Succeed
<1>5. root'.id = id[p] /\ root'.state = "whole"
  BY <1>1, <1>2 DEF RootAt
<1>6. TypeOK'
  BY <1>1, <1>3, <1>4, TreeTypes DEF TypeOK
<1>7. Tends(p)
  BY <1>3, <1>4, <1>5 DEF LocalOf, Tends, Moved, Busy, Hiding, Alone, Initializing, Undoing
<1>8. Minds(p)
  <2>1. pc'[p] = "idle" /\ owned'[p] = {}
    BY <1>3 DEF Moved
  <2>2. OwnedAt(p)' /\ RootAt(p)' /\ LocalAt(p)'
    BY <2>1 DEF OwnedAt, OwnedAs, RootAt, LocalAt, Busy, Initializing, Undoing
  <2>3. LocalOf(p) = "made"
    BY <1>1, <1>2 DEF LocalAt
  <2>4. \A h \in Homes : h # HomeOf[p] => local[h][id[p]] \in {"absent", "opened"}
    BY <1>1 DEF LocalAt
  <2> QED
    BY <1>1, <1>4, <1>5, <2>2, <2>3, <2>4 DEF Minds, LocalOf
<1> QED
  BY <1>6, <1>7, <1>8, TendsKeeps

\* A step that does not end it yet.
LEMMA GoesOnKeeps ==
    ASSUME IInv, NEW p \in Procs, pc[p] \in Bootstrapping,
           NEW place \in Bootstrapping, Goto(p, place),
           root' \in Roots, root'.id = root.id, root'.state = root.state,
           UNCHANGED <<local, used, id, owned, stage, opened, made, failed>>
    PROVE  IInv'
<1> TypeOK /\ Busy(p)
  BY DEF IInv, Bootstrapping, Busy, Initializing
<1>1. /\ id[p] \in Ids /\ id[p] # None /\ id[p] \notin made \cup failed
      /\ OwnedAt(p) /\ RootAt(p) /\ LocalAt(p)
  BY OwnFacts
<1>2. owned[p] = {"portable", "local"}
  BY <1>1 DEF OwnedAt, OwnedAs, Bootstrapping
<1>3. Moved(p, place, id[p], owned[p], stage[p])
  BY <1>1 DEF Goto, Moved, TypeOK, Alone, Places, Bootstrapping, Initializing, Undoing, Opening
<1>4. root.id = id[p] /\ root.state = "whole"
  BY <1>1, <1>2 DEF RootAt, Bootstrapping
<1>5. TypeOK'
  BY <1>3, TreeTypes DEF TypeOK
<1>6. Tends(p)
  BY <1>3, <1>4 DEF LocalOf, Tends, Moved, Busy, Hiding, Alone, Bootstrapping, Initializing, Undoing
<1>7. Minds(p)
  <2>1. pc'[p] = place /\ id'[p] = id[p] /\ owned'[p] = {"portable", "local"}
    BY <1>2, <1>3 DEF Moved
  <2>2. OwnedAt(p)'
    BY <2>1 DEF OwnedAt, OwnedAs, Bootstrapping
  <2>3. RootAt(p)'
    BY <1>4, <2>1 DEF RootAt, Bootstrapping
  <2>4. LocalAt(p)'
    BY <1>1, <1>2, <2>1 DEF LocalAt, LocalOf, Bootstrapping
  <2> QED
    BY <1>1, <2>2, <2>3, <2>4 DEF Minds
<1> QED
  BY <1>5, <1>6, <1>7, TendsKeeps

LEMMA BootstrapRevisionKeeps ==
    ASSUME IInv, NEW p \in Procs, BootstrapRevision(p)
    PROVE  IInv'
<1>1. CASE root' = [root EXCEPT !.revision = "default"] /\ Goto(p, "inspecting")
  <2>1. root' \in Roots /\ root'.id = root.id /\ root'.state = root.state
    BY <1>1 DEF IInv, TypeOK, Roots
  <2> QED
    BY <1>1, <2>1, GoesOnKeeps DEF BootstrapRevision, Bootstrapping
<1>2. CASE Goto(p, "undoing") /\ UNCHANGED root
  BY <1>2, UndoKeeps DEF BootstrapRevision, Initializing
<1> QED
  BY <1>1, <1>2 DEF BootstrapRevision

LEMMA BootstrapLookKeeps ==
    ASSUME IInv, NEW p \in Procs, BootstrapLook(p)
    PROVE  IInv'
<1>1. CASE root.policy = "default" /\ Succeed(p) /\ UNCHANGED root
  BY <1>1, SucceedKeeps DEF BootstrapLook, IInv, TypeOK
<1>2. CASE /\ root' = [root EXCEPT !.moved = FALSE]
           /\ Goto(p, "activating")
           /\ UNCHANGED <<id, owned, opened, made>>
  <2>1. root' \in Roots /\ root'.id = root.id /\ root'.state = root.state
    BY <1>2 DEF IInv, TypeOK, Roots
  <2> QED
    BY <1>2, <2>1, GoesOnKeeps DEF BootstrapLook, Bootstrapping
<1>3. CASE Goto(p, "undoing") /\ UNCHANGED <<root, id, owned, opened, made>>
  BY <1>3, UndoKeeps DEF BootstrapLook, Initializing
<1> QED
  BY <1>1, <1>2, <1>3 DEF BootstrapLook

LEMMA BootstrapActivateKeeps ==
    ASSUME IInv, NEW p \in Procs, BootstrapActivate(p)
    PROVE  IInv'
<1>1. CASE root' = [root EXCEPT !.policy = "default"] /\ Succeed(p)
  <2>1. /\ root' \in Roots /\ root'.id = root.id /\ root'.state = root.state
        /\ root'.policy = "default"
    BY <1>1 DEF IInv, TypeOK, Roots
  <2> QED
    BY <1>1, <2>1, SucceedKeeps DEF BootstrapActivate
<1>2. CASE Goto(p, "undoing") /\ UNCHANGED <<root, id, owned, opened, made>>
  BY <1>2, UndoKeeps DEF BootstrapActivate, Initializing
<1> QED
  BY <1>1, <1>2 DEF BootstrapActivate

LEMMA BootstrapDefaultKeeps ==
    ASSUME IInv, NEW p \in Procs, BootstrapDefault(p)
    PROVE  IInv'
BY BootstrapRevisionKeeps, BootstrapLookKeeps, BootstrapActivateKeeps DEF BootstrapDefault

LEMMA RemoveLocalKeeps ==
    ASSUME IInv, NEW p \in Procs, RemoveLocal(p)
    PROVE  IInv'
<1> TypeOK /\ Busy(p)
  BY DEF IInv, RemoveLocal, Busy, Undoing
<1>1. /\ id[p] \in Ids /\ id[p] \notin made \cup failed /\ HomeOf[p] \in Homes
      /\ OwnedAt(p) /\ RootAt(p) /\ LocalAt(p)
  BY OwnFacts
<1>2. root' = root /\ made' = made /\ failed' = failed /\ used' = used
  BY DEF RemoveLocal
<1>3. "local" \in owned[p]
  BY <1>1 DEF RemoveLocal, Removes, OwnedAt, OwnedAs
<1>4. CASE pc[p] = "undoing" /\ SetLocal(p, "torn") /\ Goto(p, "clearing_local") /\ UNCHANGED owned
  <2>1. Moved(p, "clearing_local", id[p], owned[p], stage[p])
    BY <1>4 DEF RemoveLocal, Goto, Moved, TypeOK, Alone, Places, Initializing, Undoing, Opening
  <2>2. /\ local' \in [Homes -> [Ids -> LocalStates]]
        /\ local'[HomeOf[p]][id[p]] = "torn"
        /\ \A h \in Homes : \A j \in Ids : h # HomeOf[p] \/ j # id[p] => local'[h][j] = local[h][j]
    BY <1>1, <1>4, LocalFacts DEF LocalStates
  <2>3. TypeOK'
    BY <1>2, <2>1, <2>2, TreeTypes DEF TypeOK
  <2>4. Tends(p)
    BY <1>2, <1>4, <2>1, <2>2 DEF Tends, Moved, Busy, Hiding, Alone, Initializing, Undoing
  <2>5. Minds(p)
    <3>1. pc'[p] = "clearing_local" /\ id'[p] = id[p] /\ owned'[p] = owned[p]
      BY <2>1 DEF Moved
    <3>2. OwnedAt(p)'
      BY <1>3, <3>1 DEF OwnedAt, OwnedAs
    <3>3. RootAt(p)'
      BY <1>1, <1>2, <1>4, <3>1 DEF RootAt
    <3>4. \A h \in Homes : h # HomeOf[p] => local'[h][id[p]] \in {"absent", "opened"}
      BY <1>1, <2>2 DEF LocalAt
    <3>5. LocalAt(p)'
      BY <1>3, <2>2, <3>1, <3>4 DEF LocalAt, LocalOf
    <3> QED
      BY <1>1, <1>2, <3>2, <3>3, <3>5 DEF Minds
  <2> QED
    BY <2>3, <2>4, <2>5, TendsKeeps
<1>5. CASE /\ pc[p] = "clearing_local" /\ SetLocal(p, "absent")
           /\ Goto(p, "undoing") /\ Removed(p, "local")
  <2>1. Moved(p, "undoing", id[p], owned[p] \ {"local"}, stage[p])
    BY <1>5 DEF RemoveLocal, Removed, Goto, Stages, Moved, TypeOK, Alone, Places, Initializing, Undoing, Opening
  <2>2. /\ local' \in [Homes -> [Ids -> LocalStates]]
        /\ local'[HomeOf[p]][id[p]] = "absent"
        /\ \A h \in Homes : \A j \in Ids : h # HomeOf[p] \/ j # id[p] => local'[h][j] = local[h][j]
    BY <1>1, <1>5, LocalFacts DEF LocalStates
  <2>3. TypeOK'
    BY <1>2, <2>1, <2>2, TreeTypes DEF TypeOK
  <2>4. Tends(p)
    BY <1>2, <1>5, <2>1, <2>2 DEF Tends, Moved, Busy, Hiding, Alone, Initializing, Undoing
  <2>5. Minds(p)
    <3>1. pc'[p] = "undoing" /\ id'[p] = id[p] /\ owned'[p] = owned[p] \ {"local"}
      BY <2>1 DEF Moved
    <3>2. OwnedAt(p)'
      BY <3>1 DEF OwnedAt, OwnedAs
    <3>3. RootAt(p)'
      BY <1>1, <1>2, <1>5, <3>1 DEF RootAt
    <3>4. \A h \in Homes : local'[h][id[p]] \in {"absent", "opened"}
      BY <1>1, <2>2 DEF LocalAt
    <3>5. LocalAt(p)'
      BY <3>1, <3>4 DEF LocalAt, LocalOf
    <3> QED
      BY <1>1, <1>2, <3>2, <3>3, <3>5 DEF Minds
  <2> QED
    BY <2>3, <2>4, <2>5, TendsKeeps
<1> QED
  BY <1>4, <1>5 DEF RemoveLocal

LEMMA RemovePortableKeeps ==
    ASSUME IInv, NEW p \in Procs, RemovePortable(p)
    PROVE  IInv'
<1> TypeOK /\ Busy(p)
  BY DEF IInv, RemovePortable, Busy, Undoing
<1>1. /\ id[p] \in Ids /\ id[p] # None /\ id[p] \notin made \cup failed
      /\ OwnedAt(p) /\ RootAt(p) /\ LocalAt(p)
  BY OwnFacts
<1>2. local' = local /\ made' = made /\ failed' = failed /\ used' = used
  BY DEF RemovePortable
<1>3. "portable" \in owned[p]
  BY <1>1 DEF RemovePortable, Removes, OwnedAt, OwnedAs
<1>4. CASE /\ pc[p] = "undoing" /\ root.state # "absent" /\ root' = [root EXCEPT !.state = "torn"]
           /\ Goto(p, "clearing_portable") /\ UNCHANGED owned
  <2>1. Moved(p, "clearing_portable", id[p], owned[p], stage[p])
    BY <1>4 DEF RemovePortable, Goto, Moved, TypeOK, Alone, Places, Initializing, Undoing, Opening
  <2>2. root.id = id[p]
    BY <1>1, <1>3, <1>4 DEF RootAt
  <2>3. root' \in Roots /\ root'.id = root.id /\ root'.state = "torn"
    BY <1>4 DEF TypeOK, Roots, RootStates
  <2>4. TypeOK'
    BY <1>2, <2>1, <2>3, TreeTypes DEF TypeOK
  <2>5. Tends(p)
    BY <1>2, <1>4, <2>1, <2>2, <2>3 DEF LocalOf, Tends, Moved, Busy, Hiding, Alone, Initializing, Undoing
  <2>6. Minds(p)
    <3>1. pc'[p] = "clearing_portable" /\ id'[p] = id[p] /\ owned'[p] = owned[p]
      BY <2>1 DEF Moved
    <3>2. OwnedAt(p)'
      BY <1>3, <3>1 DEF OwnedAt, OwnedAs
    <3>3. RootAt(p)'
      BY <1>3, <2>2, <2>3, <3>1 DEF RootAt
    <3>4. LocalAt(p)'
      BY <1>1, <1>2, <1>4, <3>1 DEF LocalAt, LocalOf
    <3> QED
      BY <1>1, <1>2, <3>2, <3>3, <3>4 DEF Minds
  <2> QED
    BY <2>4, <2>5, <2>6, TendsKeeps
<1>5. CASE /\ pc[p] = "clearing_portable" /\ root' = [root EXCEPT !.state = "empty"]
           /\ Goto(p, "removing_portable") /\ UNCHANGED owned
  <2>1. Moved(p, "removing_portable", id[p], owned[p], stage[p])
    BY <1>5 DEF RemovePortable, Goto, Moved, TypeOK, Alone, Places, Initializing, Undoing, Opening
  <2>2. root.id = id[p]
    BY <1>1, <1>3, <1>5 DEF RootAt
  <2>3. root' \in Roots /\ root'.id = root.id /\ root'.state = "empty"
    BY <1>1, <1>5, <2>2, NoneAssumption DEF TypeOK, Roots, RootStates
  <2>4. TypeOK'
    BY <1>2, <2>1, <2>3, TreeTypes DEF TypeOK
  <2>5. Tends(p)
    BY <1>2, <1>5, <2>1, <2>2, <2>3 DEF LocalOf, Tends, Moved, Busy, Hiding, Alone, Initializing, Undoing
  <2>6. Minds(p)
    <3>1. pc'[p] = "removing_portable" /\ id'[p] = id[p] /\ owned'[p] = owned[p]
      BY <2>1 DEF Moved
    <3>2. OwnedAt(p)'
      BY <1>3, <3>1 DEF OwnedAt, OwnedAs
    <3>3. RootAt(p)'
      BY <1>3, <3>1 DEF RootAt
    <3>4. LocalAt(p)'
      BY <1>1, <1>2, <1>5, <3>1 DEF LocalAt, LocalOf
    <3> QED
      BY <1>1, <1>2, <3>2, <3>3, <3>4 DEF Minds
  <2> QED
    BY <2>4, <2>5, <2>6, TendsKeeps
<1>6. CASE /\ pc[p] = "removing_portable" /\ root.state = "empty" /\ root' = NoRoot
           /\ Goto(p, "undoing") /\ Removed(p, "portable")
  <2>1. Moved(p, "undoing", id[p], owned[p] \ {"portable"}, stage[p])
    BY <1>6 DEF RemovePortable, Removed, Goto, Stages, Moved, TypeOK, Alone, Places, Initializing, Undoing, Opening
  <2>2. root' \in Roots /\ root'.id = None
    BY <1>6 DEF Roots, RootStates, NoRoot, Tree
  <2>3. TypeOK'
    BY <1>2, <2>1, <2>2, TreeTypes DEF TypeOK
  <2>4. Tends(p)
    BY <1>2, <1>6, <2>1, <2>2 DEF LocalOf, Tends, Moved, Busy, Hiding, Alone, Initializing, Undoing
  <2>5. Minds(p)
    <3>1. pc'[p] = "undoing" /\ id'[p] = id[p] /\ owned'[p] = owned[p] \ {"portable"}
      BY <2>1 DEF Moved
    <3>2. OwnedAt(p)'
      BY <3>1 DEF OwnedAt, OwnedAs
    <3>3. RootAt(p)'
      BY <1>1, <2>2, <3>1 DEF RootAt
    <3>4. LocalAt(p)'
      BY <1>1, <1>2, <1>6, <3>1 DEF LocalAt, LocalOf
    <3> QED
      BY <1>1, <1>2, <3>2, <3>3, <3>4 DEF Minds
  <2> QED
    BY <2>3, <2>4, <2>5, TendsKeeps
<1> QED
  BY <1>4, <1>5, <1>6 DEF RemovePortable

LEMMA UndoneKeeps ==
    ASSUME IInv, NEW p \in Procs, Undone(p)
    PROVE  IInv'
<1> TypeOK /\ Busy(p)
  BY DEF IInv, Undone, Busy, Undoing
<1>1. /\ id[p] \in Ids /\ id[p] \notin made \cup failed /\ RootAt(p) /\ LocalAt(p)
  BY OwnFacts
<1>2. owned[p] = {} /\ stage[p] = {}
  BY DEF Undone, TypeOK
<1>3. Moved(p, "idle", None, {}, {})
  BY <1>2 DEF Undone, Return, Goto, Moved, TypeOK, Alone, Places, Initializing, Undoing, Opening
<1>4. /\ root' = root /\ local' = local /\ made' = made /\ used' = used
      /\ failed' = failed \cup {id[p]}
  BY DEF Undone
<1>5. TypeOK'
  BY <1>1, <1>3, <1>4, TreeTypes DEF TypeOK
<1>6. Tends(p)
  BY <1>3, <1>4 DEF LocalOf, Tends, Moved, Busy, Hiding, Alone, Initializing, Undoing
<1>7. Minds(p)
  <2>1. pc'[p] = "idle" /\ owned'[p] = {}
    BY <1>3 DEF Moved
  <2>2. OwnedAt(p)' /\ RootAt(p)' /\ LocalAt(p)'
    BY <2>1 DEF OwnedAt, OwnedAs, RootAt, LocalAt, Busy, Initializing, Undoing
  <2>3. root.id # id[p] /\ \A h \in Homes : local[h][id[p]] \in {"absent", "opened"}
    BY <1>1, <1>2 DEF RootAt, LocalAt
  <2> QED
    BY <1>1, <1>4, <2>2, <2>3 DEF Minds
<1> QED
  BY <1>5, <1>6, <1>7, TendsKeeps

LEMMA LinkLocalKeeps ==
    ASSUME IInv, NEW p \in Procs, LinkLocal(p)
    PROVE  IInv'
<1> TypeOK /\ pc[p] = "linking"
  BY DEF IInv, LinkLocal
<1>1. /\ owned[p] = {"local_stage"} /\ id[p] \in Ids /\ id[p] \in used /\ HomeOf[p] \in Homes
  BY HomeAssumption DEF IInv, OwnedAt, OwnedAs, IdAt, TypeOK
<1>2. ASSUME Goto(p, "opening"), Removed(p, "local_stage"), UNCHANGED <<id, opened>>
      PROVE  Moved(p, "opening", id[p], {}, {})
  <2>1. owned[p] \ {"local_stage"} = {} /\ stage[p] \ {"local_stage"} = {}
    BY <1>1 DEF TypeOK
  <2>2. owned' = [owned EXCEPT ![p] = {}] /\ stage' = [stage EXCEPT ![p] = {}]
    BY <1>2, <2>1 DEF Removed, LinkLocal, DropStage
  <2> QED
    BY <1>2, <2>2 DEF Goto, Moved, TypeOK, Alone, Places, Initializing, Undoing, Opening
<1>3. CASE LinkLost(p) /\ UNCHANGED local
  <2>1. Moved(p, "opening", id[p], {}, {})
    BY <1>2, <1>3 DEF LinkLost
  <2>2. Quiet(p)
    BY <1>3, <2>1 DEF LinkLocal, LinkLost, Moved, OwnedAt, OwnedAs, Quiet, Hiding, Busy, Trying, Initializing, Undoing, Opening, Clearing
  <2>3. UNCHANGED <<root, local, used, made, failed>>
    BY <1>3 DEF LinkLocal
  <2>4. TypeOK'
    BY <2>1, <2>3, MovedTypes
  <2> QED
    BY <2>2, <2>4, QuietKeeps
<1>4. CASE /\ LocalOf(p) = "absent" /\ SetLocal(p, "opened") /\ Goto(p, "opening")
           /\ Removed(p, "local_stage") /\ UNCHANGED <<id, opened>>
  <2>1. Moved(p, "opening", id[p], {}, {})
    BY <1>2, <1>4
  <2>2. root' = root /\ made' = made /\ failed' = failed /\ used' = used
    BY DEF LinkLocal
  <2>3. /\ local' \in [Homes -> [Ids -> LocalStates]]
        /\ local'[HomeOf[p]][id[p]] = "opened"
        /\ \A h \in Homes : \A j \in Ids : h # HomeOf[p] \/ j # id[p] => local'[h][j] = local[h][j]
    BY <1>1, <1>4, LocalFacts DEF LocalStates
  <2>4. TypeOK'
    BY <2>1, <2>2, <2>3, TreeTypes DEF TypeOK
  <2>5. /\ pc'[p] = "opening" /\ owned'[p] = {} /\ stage'[p] = {}
        /\ \A q \in Procs : id'[q] = id[q]
        /\ \A q \in Procs : q # p =>
             pc'[q] = pc[q] /\ owned'[q] = owned[q] /\ stage'[q] = stage[q]
    BY <2>1 DEF Moved, Alone
  <2>6. \A h \in Homes : \A j \in Ids :
           \/ local'[h][j] = local[h][j]
           \/ h = HomeOf[p] /\ j = id[p] /\ local[h][j] = "absent" /\ local'[h][j] = "opened"
    BY <1>4, <2>3 DEF LocalOf
  <2>7. \A q \in Procs : Busy(q)' => Busy(q) /\ q # p
    BY <2>5 DEF Busy, Initializing, Undoing
  <2>8. UsedInv'
    <3>1. ASSUME NEW h \in Homes, NEW j \in Ids, local'[h][j] # "absent" PROVE j \in used
      <4>1. local[h][j] # "absent" => j \in used
        BY DEF IInv, UsedInv
      <4>2. local[h][j] # "absent" \/ j = id[p]
        BY <2>6, <3>1
      <4> QED
        BY <1>1, <4>1, <4>2
    <3> QED
      BY <2>2, <3>1 DEF IInv, UsedInv
  <2>9. ASSUME NEW q \in Procs PROVE IdAt(q)'
    <3>1. IdAt(q)
      BY DEF IInv
    <3>2. pc'[q] # "idle" => id'[q] \in used'
      BY <1>1, <2>2, <2>5, <3>1 DEF IdAt
    <3>3. Busy(q)' => id'[q] \notin made' \cup failed'
      BY <2>2, <2>5, <2>7, <3>1 DEF IdAt
    <3>4. Busy(q)' => \A r \in Procs : Busy(r)' /\ r # q => id'[r] # id'[q]
      BY <2>5, <2>7, <3>1 DEF IdAt
    <3> QED
      BY <3>2, <3>3, <3>4 DEF IdAt, Busy
  <2>10. ASSUME NEW q \in Procs PROVE OwnedAt(q)'
    <3>1. OwnedAt(q) /\ OwnedAs("opening", {})
      BY DEF IInv, OwnedAs
    <3> QED
      BY <2>5, <3>1 DEF OwnedAt
  <2>11. ASSUME NEW q \in Procs PROVE RootAt(q)'
    <3> SUFFICES ASSUME Busy(q)' PROVE RootAt(q)'
      BY DEF RootAt
    <3>1. RootAt(q) /\ Busy(q) /\ q # p
      BY <2>7 DEF IInv
    <3> QED
      BY <2>2, <2>5, <3>1 DEF RootAt
  <2>12. ASSUME NEW q \in Procs PROVE LocalAt(q)'
    <3> SUFFICES ASSUME Busy(q)' PROVE LocalAt(q)'
      BY DEF LocalAt
    <3>1. Busy(q) /\ q # p /\ LocalAt(q) /\ id[q] \in Ids /\ HomeOf[q] \in Homes
      BY <2>7, OwnFacts
    <3>2. \A h \in Homes : h # HomeOf[q] \/ "local" \notin owned[q]
             => local'[h][id[q]] \in {"absent", "opened"}
      BY <2>6, <3>1 DEF LocalAt
    <3>3. LocalOf(q) # "absent" => LocalOf(q)' = LocalOf(q)
      BY <2>5, <2>6, <3>1 DEF LocalOf
    <3>4. pc'[q] = pc[q] /\ id'[q] = id[q] /\ owned'[q] = owned[q]
      BY <2>5, <3>1
    <3> QED
      BY <3>1, <3>2, <3>3, <3>4 DEF LocalAt
  <2>13. ASSUME NEW q \in Procs PROVE HiddenAt(q)'
    <3> SUFFICES ASSUME Hiding(q)' PROVE HiddenAt(q)'
      BY DEF HiddenAt
    <3>1. q # p /\ Hiding(q) /\ id'[q] = id[q]
      BY <2>5 DEF Hiding
    <3>2. HiddenAt(q) /\ id[q] \in Ids
      BY <3>1, OwnFacts DEF Hiding, Busy, Initializing
    <3>3. id[q] # id[p]
      BY <3>1, <3>2 DEF HiddenAt, Opening
    <3>4. \A h \in Homes : local'[h][id[q]] = local[h][id[q]]
      BY <2>3, <3>2, <3>3
    <3>5. \A r \in Procs : pc'[r] \in Opening => pc[r] \in Opening
      BY <2>5 DEF Opening
    <3> QED
      BY <2>5, <3>1, <3>2, <3>4, <3>5 DEF HiddenAt
  <2>14. ASSUME NEW q \in Procs PROVE OpenAt(q)'
    <3> SUFFICES ASSUME pc'[q] = "opening", LocalOf(q)' = "absent" PROVE OpenAt(q)'
      BY DEF OpenAt
    <3>1. q # p
      BY <2>3, <2>5 DEF LocalOf
    <3>2. /\ pc[q] = "opening" /\ OpenAt(q) /\ id'[q] = id[q]
          /\ HomeOf[q] \in Homes /\ id[q] \in Ids
      BY <2>5, <3>1, HomeAssumption DEF IInv, IdAt, TypeOK
    <3>3. LocalOf(q) = "absent"
      BY <2>6, <3>2 DEF LocalOf
    <3>4. \A r \in Procs : pc'[r] \in Initializing => pc[r] \in Initializing
      BY <2>5 DEF Initializing
    <3> QED
      BY <2>2, <2>5, <3>2, <3>3, <3>4 DEF OpenAt
  <2>15. MadeInv'
    <3>1. \A j \in made : j \in Ids
      BY DEF TypeOK
    <3> QED
      BY <2>2, <2>6, <3>1 DEF IInv, MadeInv, MadeVaultsStay
  <2>16. FailureLeavesNothing'
    <3>1. \A j \in failed : \A h \in Homes : local'[h][j] \in {"absent", "opened"}
      BY <2>6 DEF IInv, FailureLeavesNothing, TypeOK
    <3>2. \A q \in Procs : pc'[q] = "idle" => pc[q] = "idle" /\ stage'[q] = stage[q]
      BY <2>5
    <3> QED
      BY <2>2, <3>1, <3>2 DEF IInv, FailureLeavesNothing
  <2> QED
    BY <2>4, <2>8, <2>9, <2>10, <2>11, <2>12, <2>13, <2>14, <2>15, <2>16 DEF IInv
<1> QED
  BY <1>3, <1>4 DEF LinkLocal

\* A client of the Vault changes nothing but its policies.
LEMMA ClientFacts ==
    ASSUME TypeOK, NEW p \in Procs, CreateRevision(p) \/ Activate(p)
    PROVE  /\ UNCHANGED <<local, used, pc, id, owned, stage, opened, made, failed>>
           /\ root.state = "whole"
           /\ root' \in Roots /\ root'.id = root.id /\ root'.state = root.state
           /\ root'.policy \in {root.policy, "default", "other"}
<1> root \in Roots /\ HomeOf[p] \in Homes
  BY HomeAssumption DEF TypeOK
<1>1. CASE CreateRevision(p)
  BY <1>1 DEF CreateRevision, Roots
<1>2. CASE Activate(p)
  <2>1. PICK policy \in {root.policy, "default", "other"} :
          root' = [root EXCEPT !.policy = policy, !.moved = TRUE]
    BY <1>2 DEF Activate
  <2>2. policy \in {"none", "default", "other"}
    BY <2>1 DEF Roots
  <2>3. root' \in Roots /\ root'.id = root.id /\ root'.state = root.state /\ root'.policy = policy
    BY <2>1, <2>2 DEF Roots
  <2> QED
    BY <1>2, <2>3 DEF Activate
<1> QED
  BY <1>1, <1>2

LEMMA ClientKeeps ==
    ASSUME IInv, NEW p \in Procs, CreateRevision(p) \/ Activate(p)
    PROVE  IInv'
<1>1. /\ local' = local /\ used' = used /\ pc' = pc /\ id' = id /\ owned' = owned
      /\ stage' = stage /\ opened' = opened /\ made' = made /\ failed' = failed
  BY ClientFacts DEF IInv
<1>2. /\ root' \in Roots /\ root'.id = root.id /\ root'.state = root.state
      /\ root.policy # "none" => root'.policy # "none"
  BY ClientFacts DEF IInv
<1>3. TypeOK'
  BY <1>1, <1>2 DEF IInv, TypeOK
<1>4. UsedInv'
  BY <1>1, <1>2 DEF IInv, UsedInv
<1>5. ASSUME NEW q \in Procs
      PROVE  IdAt(q)' /\ OwnedAt(q)' /\ RootAt(q)' /\ LocalAt(q)' /\ HiddenAt(q)' /\ OpenAt(q)'
  <2>1. IdAt(q) /\ OwnedAt(q) /\ RootAt(q) /\ LocalAt(q) /\ HiddenAt(q) /\ OpenAt(q)
    BY DEF IInv
  <2>2. IdAt(q)' /\ OwnedAt(q)'
    BY <1>1, <2>1 DEF IdAt, OwnedAt, Busy
  <2>3. RootAt(q)'
    BY <1>1, <1>2, <2>1 DEF RootAt, Busy
  <2>4. LocalAt(q)' /\ HiddenAt(q)' /\ OpenAt(q)'
    BY <1>1, <2>1 DEF LocalAt, HiddenAt, OpenAt, LocalOf, Busy, Hiding
  <2> QED
    BY <2>2, <2>3, <2>4
<1>6. MadeInv'
  BY <1>1, <1>2 DEF IInv, MadeInv, MadeVaultsStay
<1>7. FailureLeavesNothing'
  BY <1>1, <1>2 DEF IInv, FailureLeavesNothing
<1> QED
  BY <1>3, <1>4, <1>5, <1>6, <1>7 DEF IInv

-----------------------------------------------------------------------------
(* The theorems.                                                           *)

LEMMA Unchanged ==
    ASSUME IInv, UNCHANGED vars
    PROVE  IInv'
<1>1. /\ root' = root /\ local' = local /\ used' = used /\ pc' = pc /\ id' = id
      /\ owned' = owned /\ stage' = stage /\ opened' = opened /\ made' = made
      /\ failed' = failed
  BY DEF vars
<1>2. TypeOK' /\ UsedInv' /\ MadeInv' /\ FailureLeavesNothing'
  BY <1>1 DEF IInv, TypeOK, UsedInv, MadeInv, MadeVaultsStay, FailureLeavesNothing
<1>3. ASSUME NEW q \in Procs
      PROVE  IdAt(q)' /\ OwnedAt(q)' /\ RootAt(q)' /\ LocalAt(q)' /\ HiddenAt(q)' /\ OpenAt(q)'
  <2>1. IdAt(q) /\ OwnedAt(q) /\ RootAt(q) /\ LocalAt(q) /\ HiddenAt(q) /\ OpenAt(q)
    BY DEF IInv
  <2>2. IdAt(q)' /\ OwnedAt(q)' /\ RootAt(q)'
    BY <1>1, <2>1 DEF IdAt, OwnedAt, RootAt, Busy
  <2>3. LocalAt(q)' /\ HiddenAt(q)' /\ OpenAt(q)'
    BY <1>1, <2>1 DEF LocalAt, HiddenAt, OpenAt, LocalOf, Busy, Hiding
  <2> QED
    BY <2>2, <2>3
<1> QED
  BY <1>2, <1>3 DEF IInv

LEMMA StepKeeps ==
    ASSUME IInv, [Next]_vars
    PROVE  IInv'
<1>1. CASE UNCHANGED vars
  BY <1>1, Unchanged
<1>2. CASE Finished
  BY <1>2, Unchanged DEF Finished
<1>3. ASSUME NEW p \in Procs, Initialize(p) PROVE IInv'
  BY <1>3, InitializeKeeps
<1>4. ASSUME NEW p \in Procs,
             Stage(p) \/ CheckTargets(p) \/ RenameLocal(p) \/ RenamePortable(p) \/ BootstrapDefault(p)
      PROVE  IInv'
  BY <1>4, StageKeeps, CheckTargetsKeeps, RenameLocalKeeps, RenamePortableKeeps, BootstrapDefaultKeeps
<1>5. ASSUME NEW p \in Procs,
             RemoveStage(p) \/ RemoveLocal(p) \/ RemovePortable(p) \/ RemovalFails(p) \/ Undone(p)
      PROVE  IInv'
  BY <1>5, RemoveStageKeeps, RemoveLocalKeeps, RemovePortableKeeps, RemovalFailsKeeps, UndoneKeeps
<1>6. ASSUME NEW p \in Procs, OpenRead(p) \/ OpenLook(p) \/ LinkLocal(p) \/ OpenStrict(p)
      PROVE  IInv'
  BY <1>6, OpenReadKeeps, OpenLookKeeps, LinkLocalKeeps, OpenStrictKeeps
<1>7. ASSUME NEW p \in Procs, CreateRevision(p) \/ Activate(p) \/ Fails(p) PROVE IInv'
  BY <1>7, ClientKeeps, FailsKeeps
<1>8. ASSUME NEW p \in Mortal, Crash(p) PROVE IInv'
  BY <1>8, CrashKeeps, MortalAssumption
<1> QED
  BY <1>1, <1>2, <1>3, <1>4, <1>5, <1>6, <1>7, <1>8 DEF Next

LEMMA Invariance == Spec => []IInv
<1>1. IInv /\ [Next]_vars => IInv'
  BY StepKeeps
<1> QED
  BY Initially, <1>1, PTL DEF Spec

\* Every tree and every process is in one of the states the code can leave it in;
\* in particular a process owns the stages that it has made.
THEOREM TypeCorrect == Spec => []TypeOK
<1>1. IInv => TypeOK
  BY DEF IInv
<1> QED
  BY Invariance, <1>1, PTL

\* A Vault whose initialization succeeded is never removed or left without a
\* policy by an initialization that fails or loses a race (Vault.initialize).
THEOREM MadeVaultsAreSafe == Spec => []MadeVaultsStay
<1>1. IInv => MadeVaultsStay
  BY DEF IInv, MadeInv
<1> QED
  BY Invariance, <1>1, PTL

\* An initialization that was undone has left no tree of its own behind
\* (the except clause of Vault.initialize).
THEOREM FailuresAreUndone == Spec => []FailureLeavesNothing
<1>1. IInv => FailureLeavesNothing
  BY DEF IInv
<1> QED
  BY Invariance, <1>1, PTL

\* The undo removes neither too much nor too little.
THEOREM UndoesExactly == Spec => []UndoIsExact
<1>1. MadeVaultsStay /\ FailureLeavesNothing => UndoIsExact
  BY DEF UndoIsExact
<1> QED
  BY <1>1, MadeVaultsAreSafe, FailuresAreUndone, PTL

\* The tree that open_or_bootstrap_local made for a machine is never removed.
THEOREM LocalTreesAreKept == Spec => LocalTreesStay
<1> DEFINE Kept == \A h \in Homes : \A i \in Ids :
                     local[h][i] = "opened" => local'[h][i] = "opened"
<1>1. ASSUME IInv, [Next]_vars PROVE Kept
  <2>1. CASE local' = local
    BY <2>1
  <2>2. ASSUME NEW p \in Procs, RenameLocal(p) \/ RemoveLocal(p) PROVE Kept
    <3>1. Busy(p)
      BY <2>2 DEF RenameLocal, RemoveLocal, Busy, Initializing, Undoing
    <3>2. id[p] \in Ids /\ LocalAt(p) /\ HiddenAt(p) /\ OwnedAt(p) /\ TypeOK
      BY <1>1, <3>1, OwnFacts DEF IInv
    <3>3. LocalOf(p) # "opened"
      <4>1. CASE RenameLocal(p)
        BY <3>2, <4>1, HomeAssumption DEF RenameLocal, HiddenAt, Hiding, LocalOf
      <4>2. CASE RemoveLocal(p)
        BY <3>1, <3>2, <4>2 DEF RemoveLocal, Removes, LocalAt
      <4> QED
        BY <2>2, <4>1, <4>2
    <3>4. PICK state \in LocalStates : SetLocal(p, state)
      BY <2>2 DEF RenameLocal, RemoveLocal, LocalStates
    <3> QED
      BY <3>2, <3>3, <3>4, LocalFacts DEF LocalOf
  <2>3. ASSUME NEW p \in Procs, LinkLocal(p), SetLocal(p, "opened") PROVE Kept
    <3>1. id[p] \in Ids /\ TypeOK
      BY <1>1, <2>3 DEF IInv, IdAt, TypeOK, LinkLocal
    <3> QED
      BY <2>3, <3>1, LocalFacts DEF LocalStates
  <2> QED
    BY <1>1, <2>1, <2>2, <2>3 DEF Next, vars, Finished, Initialize, Stage, CheckTargets,
       RenamePortable, BootstrapDefault, BootstrapRevision, BootstrapLook, BootstrapActivate,
       RemoveStage, RemovePortable, RemovalFails, Undone, OpenRead, OpenLook, LinkLocal,
       OpenStrict, CreateRevision, Activate, Fails, Crash
<1>2. IInv /\ [Next]_vars => [Kept]_vars
  BY <1>1
<1> QED
  BY Invariance, <1>2, PTL DEF Spec, LocalTreesStay

\* An opener of a Vault that has been made gets it, whoever else opens it for the
\* same machine at the same time (Vault.open_or_bootstrap_local).
THEOREM OpenersGetTheVault == Spec => OpenersConverge
<1> DEFINE Opens == \A p \in Procs :
              (LinkLocal(p) \/ OpenStrict(p)) /\ pc'[p] = "idle" /\ id[p] \in made
                => opened'[p] = id[p]
<1>1. ASSUME IInv PROVE Opens
  <2> SUFFICES ASSUME NEW p \in Procs, LinkLocal(p) \/ OpenStrict(p), pc'[p] = "idle",
                      id[p] \in made
               PROVE  opened'[p] = id[p]
    OBVIOUS
  <2>1. TypeOK /\ OpenAt(p) /\ HomeOf[p] \in Homes /\ id[p] \in Ids
    BY <1>1, HomeAssumption DEF IInv, TypeOK
  <2>2. OpenStrict(p)
    BY <2>1 DEF LinkLocal, LinkLost, Goto, TypeOK
  <2>3. root.state = "whole" /\ root.id = id[p] /\ LocalOf(p) # "torn"
    BY <1>1, <2>1 DEF IInv, MadeInv, MadeVaultsStay, LocalOf
  <2>4. LocalOf(p) # "absent"
    BY <2>1, <2>2 DEF OpenAt, OpenStrict
  <2>5. LocalOf(p) \in {"made", "opened"}
    BY <2>1, <2>3, <2>4 DEF TypeOK, LocalOf, LocalStates
  <2>6. Return(p, root.id)
    BY <2>2, <2>3, <2>5 DEF OpenStrict, LocalOf
  <2> QED
    BY <2>1, <2>3, <2>6 DEF Return, TypeOK
<1>2. IInv /\ [Next]_vars => [Opens]_vars
  BY <1>1
<1> QED
  BY Invariance, <1>2, PTL DEF Spec, OpenersConverge
-----------------------------------------------------------------------------
(* Every command ends.  There is no lock, so nobody should ever have to     *)
(* wait; and an undo that could not go on, or that came back to where it    *)
(* was, would leave half a Vault behind for good.                           *)

\* A process can go on by itself: the guards of the actions of a command, where
\* they ask for more than a place.
CanContinue(p) ==
    \/ pc[p] \in {"staging", "staging_local", "checking", "renaming", "publishing",
                  "bootstrapping", "inspecting", "activating", "clearing_local",
                  "clearing_portable", "removing_portable", "looking", "linking"}
    \/ /\ pc[p] = "undoing"
       /\ \/ owned[p] = {}
          \/ \E s \in Stages \cup {"local"} : Removes(p, s)
          \/ Removes(p, "portable") /\ root.state # "absent"
    \/ /\ pc[p] = "opening"
       /\ \/ Openable(root.state) /\ local[HomeOf[p]][root.id] # "absent"
          \/ ~(root.state = "whole" /\ local[HomeOf[p]][root.id] \in {"made", "opened"})

NobodyWaits == \A p \in Procs : pc[p] # "idle" => CanContinue(p)

\* Of the trees that a process owns one is the deepest.
LEMMA DeepestIsOwned ==
    ASSUME NEW own \in SUBSET Trees, own # {}
    PROVE  \E t \in own : \A u \in own : Depth[u] <= Depth[t]
<1>1. /\ Depth["portable_stage"] \in Nat /\ Depth["portable"] \in Nat
      /\ Depth["local_stage"] \in Nat /\ Depth["local"] \in Nat
  BY DepthAssumption DEF Trees, Stages
<1>2. PICK s \in own : TRUE
  OBVIOUS
<1>3. \A u \in own : u \in {"portable_stage", "portable", "local_stage", "local"}
  BY DEF Trees, Stages
<1>4. CASE Depth["portable"] <= Depth["local"]
  <2>1. CASE \E t \in own : t \in {"local_stage", "local"}
    BY <1>1, <1>3, <1>4, <2>1, DepthAssumption
  <2>2. CASE ~\E t \in own : t \in {"local_stage", "local"}
    BY <1>1, <1>2, <1>3, <2>2, DepthAssumption
  <2> QED
    BY <2>1, <2>2
<1>5. CASE Depth["local"] <= Depth["portable"]
  <2>1. CASE \E t \in own : t \in {"portable_stage", "portable"}
    BY <1>1, <1>3, <1>5, <2>1, DepthAssumption
  <2>2. CASE ~\E t \in own : t \in {"portable_stage", "portable"}
    BY <1>1, <1>2, <1>3, <2>2, DepthAssumption
  <2> QED
    BY <2>1, <2>2
<1> QED
  BY <1>1, <1>4, <1>5

\* Whatever others do to the two names, a process always has a next step of its
\* own (vault.py:74-116, 202-284); while it undoes, because the deepest of the
\* trees it still owns is there to be removed.
THEOREM NobodyHasToWait == Spec => []NobodyWaits
<1>1. ASSUME IInv, NEW p \in Procs, pc[p] # "idle" PROVE CanContinue(p)
  <2>1. TypeOK /\ RootAt(p)
    BY <1>1 DEF IInv
  <2>2. CASE pc[p] = "undoing" /\ owned[p] # {}
    <3>1. PICK t \in owned[p] : \A u \in owned[p] : Depth[u] <= Depth[t]
      BY <2>1, <2>2, DeepestIsOwned DEF TypeOK
    <3>2. Removes(p, t) /\ t \in Trees
      BY <2>1, <3>1 DEF Removes, TypeOK
    <3>3. t = "portable" => root.state # "absent"
      BY <2>1, <2>2, <3>1 DEF RootAt, Busy, Undoing
    <3> QED
      BY <2>2, <3>2, <3>3 DEF CanContinue, Trees, Stages
  <2>3. CASE pc[p] = "opening"
    BY <2>3 DEF CanContinue, Openable
  <2>4. CASE ~(pc[p] = "undoing" /\ owned[p] # {}) /\ pc[p] # "opening"
    BY <1>1, <2>1, <2>4 DEF TypeOK, Initializing, Undoing, Opening, CanContinue
  <2> QED
    BY <2>2, <2>3, <2>4
<1>2. IInv => NobodyWaits
  BY <1>1 DEF NobodyWaits
<1> QED
  BY <1>2, Invariance, PTL

\* How many steps a command still takes at most: to remove what it owns, ...
Owing(own) ==
    (IF "portable_stage" \in own THEN 1 ELSE 0) + (IF "local_stage" \in own THEN 1 ELSE 0)
      + (IF "portable" \in own THEN 3 ELSE 0) + (IF "local" \in own THEN 2 ELSE 0)

\* ... and to get there.
Left(place, own) ==
    CASE place = "idle" -> 0
      [] place = "undoing" -> Owing(own) + 1
      [] place \in {"clearing_local", "clearing_portable"} -> Owing(own)
      [] place = "removing_portable" -> Owing(own) - 1
      [] place = "activating" -> 9
      [] place = "inspecting" -> 10
      [] place = "bootstrapping" -> 11
      [] place = "publishing" -> 12
      [] place = "renaming" -> 13
      [] place = "checking" -> 14
      [] place = "staging_local" -> 15
      [] place = "staging" -> 16
      [] place = "opening" -> 1
      [] place = "linking" -> 2
      [] place = "looking" -> 3

EveryStepComesCloser ==
    [][\A p \in Procs :
         pc[p] # "idle" /\ <<pc[p], owned[p]>>' # <<pc[p], owned[p]>> =>
             /\ 0 <= Left(pc[p], owned[p])'
             /\ Left(pc[p], owned[p])' < Left(pc[p], owned[p])]_vars

\* From where to where a command goes, and what it owns before and after.
Moves(place, own, next, left) ==
    \/ next = "idle" /\ place # "idle"
    \/ next = "undoing" /\ place \in Initializing
    \/ place = "staging" /\ next = "staging_local"
    \/ place = "staging_local" /\ next = "checking"
    \/ place = "checking" /\ next = "renaming"
    \/ place = "renaming" /\ next = "publishing"
    \/ place = "publishing" /\ next = "bootstrapping"
    \/ place = "bootstrapping" /\ next = "inspecting"
    \/ place = "inspecting" /\ next = "activating"
    \/ /\ place = "undoing" /\ next = "undoing"
       /\ \E s \in Stages : s \in own /\ left = own \ {s}
    \/ /\ place = "undoing" /\ next \in {"clearing_local", "clearing_portable"}
       /\ left = own
    \/ place = "clearing_local" /\ next = "undoing" /\ left = own \ {"local"}
    \/ place = "clearing_portable" /\ next = "removing_portable" /\ left = own
    \/ place = "removing_portable" /\ next = "undoing" /\ left = own \ {"portable"}
    \/ place = "looking" /\ next \in {"opening", "linking"}
    \/ place = "linking" /\ next = "opening"

LEMMA OwingIsSmall ==
    ASSUME NEW own
    PROVE  /\ Owing(own) \in 0 .. 7
           /\ "portable" \in own => 3 <= Owing(own)
           /\ "local" \in own => 2 <= Owing(own)
           /\ "portable" \in own => Owing(own \ {"portable"}) = Owing(own) - 3
           /\ "local" \in own => Owing(own \ {"local"}) = Owing(own) - 2
           /\ \A s \in Stages : s \in own => Owing(own \ {s}) = Owing(own) - 1
  BY DEF Owing, Stages

LEMMA MovesGoDown ==
    ASSUME NEW place, NEW next, NEW own, NEW left,
           Moves(place, own, next, left), OwnedAs(place, own), OwnedAs(next, left),
           place \in Initializing \cup Undoing \cup Opening
    PROVE  0 <= Left(next, left) /\ Left(next, left) < Left(place, own)
<1>1. /\ Owing(own) \in 0 .. 7 /\ Owing(left) \in 0 .. 7
      /\ place \in {"clearing_portable", "removing_portable"} => 3 <= Owing(own)
      /\ next \in {"clearing_portable", "removing_portable"} => 3 <= Owing(left)
      /\ place = "clearing_local" => 2 <= Owing(own)
  BY OwingIsSmall DEF OwnedAs
<1>2. CASE next = "idle"
  <2>1. place # "idle"
    BY <1>2 DEF Initializing, Undoing, Opening
  <2> QED
    BY <1>1, <1>2, <2>1 DEF Left, Initializing, Undoing, Opening
<1>3. CASE next = "undoing" /\ place \in Initializing
  BY <1>1, <1>3 DEF Left, Initializing
<1>4. CASE place = "undoing" /\ next = "undoing"
  <2>1. PICK s \in Stages : s \in own /\ left = own \ {s}
    BY <1>4 DEF Moves, Initializing
  <2>2. Owing(left) = Owing(own) - 1
    BY <2>1, OwingIsSmall
  <2> QED
    BY <1>1, <1>4, <2>2 DEF Left
<1>5. CASE place = "undoing" /\ next \in {"clearing_local", "clearing_portable"}
  BY <1>1, <1>5 DEF Left, Moves
<1>6. CASE place = "clearing_local" /\ next = "undoing"
  <2>1. left = own \ {"local"} /\ "local" \in own
    BY <1>6 DEF Moves, OwnedAs, Initializing
  <2>2. Owing(left) = Owing(own) - 2
    BY <2>1, OwingIsSmall
  <2> QED
    BY <1>1, <1>6, <2>2 DEF Left
<1>7. CASE place = "clearing_portable" /\ next = "removing_portable"
  BY <1>1, <1>7 DEF Left, Moves
<1>8. CASE place = "removing_portable" /\ next = "undoing"
  <2>1. left = own \ {"portable"} /\ "portable" \in own
    BY <1>8 DEF Moves, OwnedAs, Initializing
  <2>2. Owing(left) = Owing(own) - 3
    BY <2>1, OwingIsSmall
  <2> QED
    BY <1>1, <1>8, <2>2 DEF Left
<1>9. CASE \/ place = "staging" /\ next = "staging_local"
           \/ place = "staging_local" /\ next = "checking"
           \/ place = "checking" /\ next = "renaming"
           \/ place = "renaming" /\ next = "publishing"
           \/ place = "publishing" /\ next = "bootstrapping"
           \/ place = "bootstrapping" /\ next = "inspecting"
           \/ place = "inspecting" /\ next = "activating"
           \/ place = "looking" /\ next \in {"opening", "linking"}
           \/ place = "linking" /\ next = "opening"
  BY <1>9 DEF Left
<1> QED
  BY <1>2, <1>3, <1>4, <1>5, <1>6, <1>7, <1>8, <1>9 DEF Moves

\* Each action of a process is one of the moves.
LEMMA OwnMoves ==
    ASSUME IInv, NEW p \in Procs, pc[p] # "idle",
           \/ Stage(p) \/ CheckTargets(p) \/ RenameLocal(p) \/ RenamePortable(p)
           \/ BootstrapDefault(p) \/ RemoveStage(p) \/ RemoveLocal(p) \/ RemovePortable(p)
           \/ RemovalFails(p) \/ Undone(p) \/ OpenLook(p) \/ LinkLocal(p) \/ OpenStrict(p)
           \/ Fails(p) \/ Crash(p)
    PROVE  Moves(pc[p], owned[p], pc'[p], owned'[p])
<1>0. TypeOK /\ DOMAIN pc = Procs /\ DOMAIN owned = Procs
  BY DEF IInv, TypeOK
<1>1. CASE Stage(p)
  BY <1>0, <1>1 DEF Stage, Goto, Moves
<1>2. CASE CheckTargets(p)
  BY <1>0, <1>2 DEF CheckTargets, Goto, Moves, Initializing
<1>3. CASE RenameLocal(p)
  BY <1>0, <1>3 DEF RenameLocal, Goto, Moves
<1>4. CASE RenamePortable(p)
  BY <1>0, <1>4 DEF RenamePortable, Goto, Moves, Initializing
<1>5. CASE BootstrapDefault(p)
  BY <1>0, <1>5
     DEF BootstrapDefault, BootstrapRevision, BootstrapLook, BootstrapActivate, Succeed, Return,
         Goto, Moves, Initializing
<1>6. CASE RemoveStage(p)
  <2>1. PICK s \in Stages : Removes(p, s) /\ Removed(p, s)
    BY <1>6 DEF RemoveStage
  <2>2. pc[p] = "undoing" /\ pc' = pc
    BY <1>6 DEF RemoveStage
  <2>3. s \in owned[p] /\ owned'[p] = owned[p] \ {s}
    BY <1>0, <2>1 DEF Removes, Removed
  <2> QED
    BY <2>2, <2>3 DEF Moves
<1>7. CASE RemoveLocal(p)
  BY <1>0, <1>7 DEF RemoveLocal, Removed, Goto, Moves
<1>8. CASE RemovePortable(p)
  BY <1>0, <1>8 DEF RemovePortable, Removed, Goto, Moves
<1>9. CASE RemovalFails(p) \/ Undone(p) \/ OpenStrict(p) \/ Crash(p)
  <2>1. Return(p, None) \/ Return(p, root.id)
    BY <1>9 DEF RemovalFails, Undone, OpenStrict, Crash
  <2> QED
    BY <1>0, <2>1 DEF Return, Goto, Moves
<1>10. CASE OpenLook(p)
  BY <1>0, <1>10 DEF OpenLook, Goto, Moves
<1>11. CASE LinkLocal(p)
  BY <1>0, <1>11 DEF LinkLocal, LinkLost, Goto, Moves
<1>12. CASE Fails(p)
  BY <1>0, <1>12 DEF Fails, Return, Goto, Moves
<1> QED
  BY <1>1, <1>2, <1>3, <1>4, <1>5, <1>6, <1>7, <1>8, <1>9, <1>10, <1>11, <1>12

\* No process moves another, or takes away what it owns.
LEMMA OthersMove ==
    ASSUME IInv, NEW p \in Procs, pc[p] # "idle", [Next]_vars,
           <<pc'[p], owned'[p]>> # <<pc[p], owned[p]>>
    PROVE  \/ Stage(p) \/ CheckTargets(p) \/ RenameLocal(p) \/ RenamePortable(p)
           \/ BootstrapDefault(p) \/ RemoveStage(p) \/ RemoveLocal(p) \/ RemovePortable(p)
           \/ RemovalFails(p) \/ Undone(p) \/ OpenLook(p) \/ LinkLocal(p) \/ OpenStrict(p)
           \/ Fails(p) \/ Crash(p)
<1>0. DOMAIN pc = Procs /\ DOMAIN owned = Procs
  BY DEF IInv, TypeOK
<1>1. ASSUME NEW q \in Procs, q # p,
             \/ Initialize(q) \/ Stage(q) \/ CheckTargets(q) \/ RenameLocal(q)
             \/ RenamePortable(q) \/ BootstrapDefault(q) \/ RemoveStage(q) \/ RemoveLocal(q)
             \/ RemovePortable(q) \/ RemovalFails(q) \/ Undone(q) \/ OpenRead(q)
             \/ OpenLook(q) \/ LinkLocal(q) \/ OpenStrict(q) \/ Fails(q) \/ Crash(q)
      PROVE  FALSE
  <2>1. CASE Initialize(q) \/ Stage(q) \/ CheckTargets(q) \/ OpenRead(q) \/ OpenLook(q)
    BY <1>0, <1>1, <2>1 DEF Initialize, Stage, MakeStage, CheckTargets, OpenRead, OpenLook, Goto
  <2>2. CASE RenameLocal(q) \/ RenamePortable(q) \/ LinkLocal(q) \/ Fails(q)
    BY <1>0, <1>1, <2>2
       DEF RenameLocal, RenamePortable, LinkLocal, LinkLost, Fails, OwnInstead, Removed, Return, Goto
  <2>3. CASE RemoveStage(q) \/ RemoveLocal(q) \/ RemovePortable(q)
    BY <1>0, <1>1, <2>3 DEF RemoveStage, RemoveLocal, RemovePortable, Removed, Goto
  <2>4. CASE BootstrapDefault(q) \/ RemovalFails(q) \/ Undone(q) \/ OpenStrict(q) \/ Crash(q)
    BY <1>0, <1>1, <2>4
       DEF BootstrapDefault, BootstrapRevision, BootstrapLook, BootstrapActivate, Succeed,
           RemovalFails, Undone, OpenStrict, Crash, Return, Goto
  <2> QED
    BY <1>1, <2>1, <2>2, <2>3, <2>4
<1>2. CASE Finished \/ UNCHANGED vars \/ \E q \in Procs : CreateRevision(q) \/ Activate(q)
  BY <1>2 DEF Finished, CreateRevision, Activate, vars
<1>3. ~Initialize(p) /\ ~OpenRead(p)
  BY DEF Initialize, OpenRead
<1> QED
  BY <1>1, <1>2, <1>3, MortalAssumption DEF Next

\* A command ends after at most sixteen steps of its own, whatever others do to
\* the two names meanwhile; an undo never comes back to a tree it has removed
\* (Vault.initialize and open_or_bootstrap_local, vault.py:74-116, 202-284).
THEOREM CommandsEnd == Spec => EveryStepComesCloser
<1>1. IInv /\ IInv' /\ [Next]_vars =>
        [\A p \in Procs :
            pc[p] # "idle" /\ <<pc[p], owned[p]>>' # <<pc[p], owned[p]>> =>
                /\ 0 <= Left(pc[p], owned[p])'
                /\ Left(pc[p], owned[p])' < Left(pc[p], owned[p])]_vars
  <2> SUFFICES ASSUME IInv, IInv', [Next]_vars, NEW p \in Procs,
                      pc[p] # "idle", <<pc'[p], owned'[p]>> # <<pc[p], owned[p]>>
               PROVE  /\ 0 <= Left(pc'[p], owned'[p])
                      /\ Left(pc'[p], owned'[p]) < Left(pc[p], owned[p])
    BY DEF Left
  <2>1. Moves(pc[p], owned[p], pc'[p], owned'[p])
    BY OthersMove, OwnMoves
  <2>2. /\ OwnedAs(pc[p], owned[p]) /\ OwnedAs(pc'[p], owned'[p])
        /\ pc[p] \in Initializing \cup Undoing \cup Opening
    BY DEF IInv, TypeOK, OwnedAt
  <2> QED
    BY <2>1, <2>2, MovesGoDown
<1> QED
  BY <1>1, Invariance, PTL DEF Spec, EveryStepComesCloser

-----------------------------------------------------------------------------
(* What it takes to leave half a Vault.  A run shows that a process that is *)
(* killed between the rename and the bootstrap does; no race does, but for  *)
(* one: a client that opens the Vault in between, and is at its policies,   *)
(* makes the bootstrap fail, and the undo finds the tree in use.            *)

\* A client has taken the name of the default revision, in the portable tree or
\* in a local one, or has activated a policy.
Interfered == root.revision = "other" \/ root.shadows # {} \/ root.moved

AtomicUnlessInterfered == InitializationIsAtomic \/ Interfered

Removing == {"undoing", "clearing_local", "clearing_portable"}

\* A tree that is removed has been interfered with, and one without a default is
\* being given it.
CleanInv ==
    /\ root.policy = "other" => root.moved
    /\ root.state \in {"torn", "empty"} => Interfered
    /\ root.state = "whole" /\ root.policy = "none"
         => Interfered \/ \E p \in Procs : pc[p] \in Bootstrapping
    /\ \A p \in Procs : pc[p] \in Removing /\ "portable" \in owned[p] => Interfered

\* A step that leaves the portable tree alone, and neither ends a bootstrap nor
\* begins to remove that tree.
LEMMA CleanAside ==
    ASSUME CleanInv, NEW p \in Procs, UNCHANGED root, pc[p] \notin Bootstrapping,
           \A q \in Procs : q # p => pc'[q] = pc[q] /\ owned'[q] = owned[q],
           pc'[p] \in Removing /\ "portable" \in owned'[p] =>
               pc[p] \in Removing /\ "portable" \in owned[p]
    PROVE  CleanInv'
<1>1. root' = root /\ Interfered' = Interfered
  BY DEF Interfered
<1>2. (\E q \in Procs : pc[q] \in Bootstrapping) => \E q \in Procs : pc'[q] \in Bootstrapping
  <2>1. \A q \in Procs : pc[q] \in Bootstrapping => pc'[q] \in Bootstrapping
    OBVIOUS
  <2> QED
    BY <2>1
<1>3. \A q \in Procs : pc'[q] \in Removing /\ "portable" \in owned'[q] => Interfered
  BY DEF CleanInv
<1> QED
  BY <1>1, <1>2, <1>3 DEF CleanInv

\* While one process bootstraps the portable tree no other is removing it.
LEMMA NobodyElseRemoves ==
    ASSUME IInv, NEW p \in Procs, pc[p] \in Bootstrapping,
           NEW q \in Procs, pc[q] \in Removing, "portable" \in owned[q]
    PROVE  FALSE
<1>1. Busy(p) /\ Busy(q) /\ p # q
  BY DEF Busy, Bootstrapping, Removing, Initializing, Undoing
<1>2. id[p] # id[q]
  BY <1>1 DEF IInv, IdAt
<1>3. root.id = id[p]
  <2>1. OwnedAt(p) /\ RootAt(p)
    BY DEF IInv
  <2> QED
    BY <1>1, <2>1 DEF OwnedAt, OwnedAs, RootAt, Bootstrapping
<1>4. root.id = id[q]
  BY <1>1 DEF IInv, RootAt, Removing
<1> QED
  BY <1>2, <1>3, <1>4

LEMMA CleanBootstrap ==
    ASSUME IInv, CleanInv, NEW p \in Procs, BootstrapDefault(p)
    PROVE  CleanInv'
<1>0. /\ DOMAIN pc = Procs /\ DOMAIN owned = Procs /\ root \in Roots
      /\ pc[p] \in Bootstrapping
  BY DEF IInv, TypeOK, BootstrapDefault, BootstrapRevision, BootstrapLook, BootstrapActivate,
         Bootstrapping
<1>1. \A q \in Procs : q # p => pc'[q] = pc[q] /\ owned'[q] = owned[q]
  BY <1>0 DEF BootstrapDefault, BootstrapRevision, BootstrapLook, BootstrapActivate, Succeed,
              Return, Goto
<1>2. \A q \in Procs : q # p => ~(pc'[q] \in Removing /\ "portable" \in owned'[q])
  BY <1>0, <1>1, NobodyElseRemoves
<1>3. root.state = "whole"
  <2>1. OwnedAt(p) /\ RootAt(p)
    BY DEF IInv
  <2>2. Busy(p)
    BY <1>0 DEF Busy, Bootstrapping, Initializing
  <2> QED
    BY <1>0, <2>1, <2>2 DEF OwnedAt, OwnedAs, RootAt, Bootstrapping
<1>4. CASE pc'[p] = "undoing" /\ root' = root /\ Interfered
  BY <1>4 DEF CleanInv, Interfered
<1>5. CASE pc'[p] = "idle" /\ root'.state = "whole" /\ root'.policy = "default"
  BY <1>2, <1>5 DEF CleanInv, Removing
<1>6. CASE pc'[p] \in Bootstrapping /\ root'.state = "whole" /\ root'.policy = "none"
  BY <1>2, <1>6 DEF CleanInv, Removing, Bootstrapping
<1>7. CASE BootstrapRevision(p)
  <2>1. CASE root.revision = "other"
    BY <1>0, <1>4, <1>7, <2>1 DEF BootstrapRevision, Goto, Interfered
  <2>2. CASE root.revision # "other"
    <3>1. root' = [root EXCEPT !.revision = "default"] /\ pc'[p] = "inspecting"
      BY <1>0, <1>7, <2>2 DEF BootstrapRevision, Goto
    <3>2. /\ root'.state = "whole" /\ root'.policy = root.policy
          /\ root'.moved = root.moved
      BY <1>0, <1>3, <3>1 DEF Roots
    <3> QED
      BY <1>2, <3>1, <3>2 DEF CleanInv, Removing, Bootstrapping
  <2> QED
    BY <2>1, <2>2
<1>8. CASE BootstrapLook(p)
  <2>1. CASE root.policy = "default"
    BY <1>0, <1>3, <1>5, <1>8, <2>1 DEF BootstrapLook, Succeed, Return, Goto
  <2>2. CASE root.policy = "none"
    <3>1. root' = [root EXCEPT !.moved = FALSE] /\ pc'[p] = "activating"
      BY <1>0, <1>8, <2>2 DEF BootstrapLook, Goto
    <3>2. root'.state = "whole" /\ root'.policy = "none"
      BY <1>0, <1>3, <2>2, <3>1 DEF Roots
    <3> QED
      BY <1>6, <3>1, <3>2 DEF Bootstrapping
  <2>3. CASE root.policy = "other"
    <3>1. Interfered
      BY <2>3 DEF CleanInv, Interfered
    <3> QED
      BY <1>0, <1>4, <1>8, <2>3, <3>1 DEF BootstrapLook, Goto
  <2> QED
    BY <1>0, <2>1, <2>2, <2>3 DEF Roots
<1>9. CASE BootstrapActivate(p)
  <2>1. CASE MayActivate(p)
    <3>1. root' = [root EXCEPT !.policy = "default"] /\ pc'[p] = "idle"
      BY <1>0, <1>9, <2>1 DEF BootstrapActivate, Succeed, Return, Goto
    <3>2. root'.state = "whole" /\ root'.policy = "default"
      BY <1>0, <1>3, <3>1 DEF Roots
    <3> QED
      BY <1>5, <3>1, <3>2
  <2>2. CASE ~MayActivate(p)
    <3>1. Interfered
      BY <2>2 DEF MayActivate, Interfered
    <3> QED
      BY <1>0, <1>4, <1>9, <2>2, <3>1 DEF BootstrapActivate, Goto
  <2> QED
    BY <2>1, <2>2
<1> QED
  BY <1>7, <1>8, <1>9 DEF BootstrapDefault

\* A client can only add to what has been interfered with.
LEMMA CleanClient ==
    ASSUME TypeOK, CleanInv, NEW q \in Procs, CreateRevision(q) \/ Activate(q)
    PROVE  CleanInv'
<1>1. pc' = pc /\ owned' = owned /\ root'.state = root.state /\ root \in Roots
  BY ClientFacts DEF TypeOK
<1>2. CASE CreateRevision(q)
  <2>1. /\ root'.policy = root.policy /\ root'.moved = root.moved
        /\ root.revision = "other" => root'.revision = "other"
        /\ root.shadows \subseteq root'.shadows
    BY <1>1, <1>2 DEF CreateRevision, Roots
  <2>2. Interfered => Interfered'
    BY <2>1 DEF Interfered
  <2> QED
    BY <1>1, <2>1, <2>2 DEF CleanInv
<1>3. CASE Activate(q)
  <2>1. root'.moved
    BY <1>1, <1>3 DEF Activate, Roots
  <2> QED
    BY <2>1 DEF CleanInv, Interfered
<1> QED
  BY <1>2, <1>3

LEMMA CleanStep ==
    ASSUME Mortal = {}, DiskMayFail = FALSE, IInv, CleanInv, [Next]_vars
    PROVE  CleanInv'
<1>0. TypeOK /\ DOMAIN pc = Procs /\ DOMAIN owned = Procs
  BY DEF IInv, TypeOK
<1>1. ASSUME NEW p \in Procs, pc[p] \in Initializing \ Bootstrapping
      PROVE  "portable" \notin owned[p]
  BY <1>1, OwnsPortable DEF IInv
<1>2. ASSUME NEW p \in Procs, Initialize(p) \/ Stage(p) \/ CheckTargets(p) PROVE CleanInv'
  <2>1. CASE Initialize(p)
    BY <1>0, <2>1, CleanAside DEF Bootstrapping, Initialize, Goto, Removing
  <2>2. CASE Stage(p)
    BY <1>0, <2>2, CleanAside DEF Bootstrapping, Stage, MakeStage, Goto, Removing
  <2>3. CASE CheckTargets(p)
    BY <1>0, <1>1, <2>3, CleanAside DEF Bootstrapping, CheckTargets, Goto, Removing, Initializing
  <2> QED
    BY <1>2, <2>1, <2>2, <2>3
<1>3. ASSUME NEW p \in Procs, RenameLocal(p) PROVE CleanInv'
  BY <1>0, <1>3, CleanAside DEF Bootstrapping, RenameLocal, OwnInstead, Goto, Removing
<1>4. ASSUME NEW p \in Procs, RenamePortable(p) PROVE CleanInv'
  <2>1. CASE UNCHANGED root
    <3>1. pc[p] = "publishing" /\ pc'[p] = "undoing" /\ owned' = owned
          /\ \A q \in Procs : q # p => pc'[q] = pc[q]
      BY <1>0, <1>4, <2>1 DEF RenamePortable, Tree, Goto
    <3> QED
      BY <1>1, <2>1, <3>1, CleanAside DEF Bootstrapping, Initializing
  <2>2. CASE root' # root
    <3>1. /\ root.state \in {"absent", "empty"}
          /\ root' = Tree("whole", id[p])
          /\ pc'[p] = "bootstrapping"
          /\ \A q \in Procs : q # p => pc'[q] = pc[q] /\ owned'[q] = owned[q]
      BY <1>0, <1>4, <2>2 DEF RenamePortable, OwnInstead, Goto
    <3>2. ASSUME NEW q \in Procs, pc'[q] \in Removing, "portable" \in owned'[q] PROVE FALSE
      <4>1. q # p /\ pc[q] \in Removing /\ "portable" \in owned[q]
        BY <3>1, <3>2 DEF Removing
      <4>2. root.state \in {"whole", "torn"}
        BY <4>1 DEF IInv, RootAt, Busy, Removing, Undoing
      <4> QED
        BY <3>1, <4>2
    <3> QED
      BY <3>1, <3>2 DEF CleanInv, Tree, Bootstrapping
  <2> QED
    BY <2>1, <2>2
<1>5. ASSUME NEW p \in Procs, BootstrapDefault(p) PROVE CleanInv'
  BY <1>5, CleanBootstrap
<1>6. ASSUME NEW p \in Procs, RemoveStage(p) \/ RemoveLocal(p) PROVE CleanInv'
  <2>1. CASE RemoveStage(p)
    BY <1>0, <2>1, CleanAside DEF Bootstrapping, RemoveStage, Removed, Removing
  <2>2. CASE RemoveLocal(p)
    BY <1>0, <2>2, CleanAside DEF Bootstrapping, RemoveLocal, Removed, Goto, Removing
  <2> QED
    BY <1>6, <2>1, <2>2
<1>7. ASSUME NEW p \in Procs, RemovePortable(p) PROVE CleanInv'
  <2>0. /\ \A q \in Procs : q # p => pc'[q] = pc[q] /\ owned'[q] = owned[q]
        /\ root \in Roots
    BY <1>0, <1>7 DEF RemovePortable, Removed, Goto, TypeOK
  <2>1. CASE pc[p] \in {"undoing", "clearing_portable"}
    <3>1. "portable" \in owned[p]
      BY <1>7, <2>1 DEF RemovePortable, Removes, IInv, OwnedAt, OwnedAs
    <3>2. Interfered
      BY <2>1, <3>1 DEF CleanInv, Removing
    <3>3. \E s \in {"torn", "empty"} : root' = [root EXCEPT !.state = s]
      BY <1>7, <2>1 DEF RemovePortable
    <3>4. /\ root'.revision = root.revision /\ root'.shadows = root.shadows
          /\ root'.moved = root.moved /\ root'.policy = root.policy
      BY <2>0, <3>3 DEF Roots
    <3>5. Interfered'
      BY <3>2, <3>4 DEF Interfered
    <3> QED
      BY <3>4, <3>5 DEF CleanInv
  <2>2. CASE pc[p] \notin {"undoing", "clearing_portable"}
    <3>1. /\ root.state = "empty" /\ root' = NoRoot
          /\ owned'[p] = owned[p] \ {"portable"}
      BY <1>0, <1>7, <2>2 DEF RemovePortable, Removed
    <3>2. ASSUME NEW q \in Procs, pc'[q] \in Removing, "portable" \in owned'[q] PROVE FALSE
      <4>1. q # p /\ pc[q] \in Removing /\ "portable" \in owned[q]
        BY <2>0, <3>1, <3>2
      <4>2. root.state \in {"whole", "torn"}
        BY <4>1 DEF IInv, RootAt, Busy, Removing, Undoing
      <4> QED
        BY <3>1, <4>2
    <3> QED
      BY <3>1, <3>2 DEF CleanInv, NoRoot, Tree
  <2> QED
    BY <2>1, <2>2
<1>8. ASSUME NEW p \in Procs, RemovalFails(p) \/ Undone(p) PROVE CleanInv'
  BY <1>0, <1>8, CleanAside DEF Bootstrapping, RemovalFails, Undone, Return, Goto, Removing
<1>9. ASSUME NEW p \in Procs, OpenRead(p) \/ OpenLook(p) \/ LinkLocal(p) \/ OpenStrict(p)
      PROVE  CleanInv'
  <2>1. CASE OpenRead(p)
    BY <1>0, <2>1, CleanAside DEF Bootstrapping, OpenRead, Goto, Removing
  <2>2. CASE OpenLook(p)
    BY <1>0, <2>2, CleanAside DEF Bootstrapping, OpenLook, MakeStage, Goto, Removing
  <2>3. CASE LinkLocal(p)
    BY <1>0, <2>3, CleanAside DEF Bootstrapping, LinkLocal, LinkLost, Removed, Goto, Removing
  <2>4. CASE OpenStrict(p)
    BY <1>0, <2>4, CleanAside DEF Bootstrapping, OpenStrict, Return, Goto, Removing
  <2> QED
    BY <1>9, <2>1, <2>2, <2>3, <2>4
<1>10. ASSUME NEW p \in Procs, CreateRevision(p) \/ Activate(p) PROVE CleanInv'
  BY <1>0, <1>10, CleanClient
<1>11. CASE UNCHANGED vars \/ Finished
  BY <1>11 DEF Finished, vars, CleanInv, Interfered
<1> QED
  BY <1>2, <1>3, <1>4, <1>5, <1>6, <1>7, <1>8, <1>9, <1>10, <1>11 DEF Next, Fails

\* docs/SETUP-NEW-PC.md is right as long as nothing breaks and no client gets at
\* the policies of a Vault that is still being initialized: however many processes
\* initialize and open at once, they leave no tree or a whole one with an active
\* default (vault.py:233-284, policy.py:452-513).
THEOREM HalfAVaultNeedsInterference ==
    ASSUME Mortal = {}, DiskMayFail = FALSE
    PROVE  Spec => []AtomicUnlessInterfered
<1>1. Init => CleanInv
  BY DEF Init, CleanInv, NoRoot, Tree, Removing
<1>2. IInv /\ CleanInv /\ [Next]_vars => CleanInv'
  BY CleanStep
<1>3. IInv /\ CleanInv => AtomicUnlessInterfered
  <2> SUFFICES ASSUME IInv, CleanInv, \A p \in Procs : pc[p] = "idle", ~Interfered
               PROVE  root.state = "absent" \/ (root.state = "whole" /\ root.policy # "none")
    BY DEF AtomicUnlessInterfered, InitializationIsAtomic
  <2>1. root.state \in RootStates
    BY DEF IInv, TypeOK, Roots
  <2> QED
    BY <2>1 DEF CleanInv, RootStates, Bootstrapping
<1> QED
  BY <1>1, <1>2, <1>3, Invariance, PTL DEF Spec
=============================================================================

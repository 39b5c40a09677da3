---------------------------- MODULE VaultBootstrap ----------------------------
(***************************************************************************)
(* How the two directory trees of a Vault come to be (mneme/core/vault.py):*)
(* Vault.initialize stages both, renames them into place and bootstraps the*)
(* default policy, and removes what it made if any of this fails;          *)
(* open_or_bootstrap_local opens a Vault and makes the machine-local tree  *)
(* that a machine does not have yet.  There is no lock: what processes     *)
(* share are the names of the two trees, and renames of directories.       *)
(*                                                                         *)
(* All processes are told the same portable root.  A directory that is     *)
(* renamed replaces an empty one (rename(2)).  Removal of a tree takes     *)
(* time: it is torn, then empty, then gone.  A process that dies leaves its*)
(* staging directories behind; their names are never used again, so they   *)
(* are forgotten here.                                                     *)
(***************************************************************************)
EXTENDS Naturals

CONSTANTS
    Procs,          \* processes
    Homes,          \* machine-local state homes
    HomeOf,         \* HomeOf[p] is the state home of process p
    Ids,            \* Vault ids; one is drawn afresh for each initialization
    Depth,          \* Depth[t]: number of path components of tree t
    None,           \* no Vault
    Mortal,         \* processes that may die between any two steps
    DiskMayFail     \* whether making a directory or a file may fail

Stages == {"portable_stage", "local_stage"}
Trees == Stages \cup {"portable", "local"}

ASSUME HomeAssumption == HomeOf \in [Procs -> Homes]
ASSUME NoneAssumption == None \notin Ids
\* A stage lies beside the tree it becomes.  Two trees of one depth go in the
\* order of a set of paths, so the one that goes first counts as the deeper.
ASSUME DepthAssumption ==
    /\ Depth \in [Trees -> Nat]
    /\ Depth["portable_stage"] = Depth["portable"]
    /\ Depth["local_stage"] = Depth["local"]
    /\ Depth["portable"] # Depth["local"]
ASSUME MortalAssumption == Mortal \subseteq Procs
ASSUME DiskAssumption == DiskMayFail \in BOOLEAN

VARIABLES
    root,       \* the portable tree
    local,      \* local[h][i]: the tree of Vault i in state home h
    used,       \* ids drawn so far
    pc,         \* where each process is
    id,         \* the Vault id each process works with
    owned,      \* trees a process has to remove if it fails
    stage,      \* staging directories of a process that exist
    opened,     \* the Vault a process has opened, or None
    made,       \* history: Vaults whose initialization succeeded
    failed      \* history: Vaults whose initialization failed and was undone

vars == <<root, local, used, pc, id, owned, stage, opened, made, failed>>

RootStates == {"absent", "whole", "torn", "empty"}

\* Of the portable tree: what its revision "vault-default/1" holds, where a file
\* that is half-written counts as another; which default policy is active, none
\* yet, that revision or another; whether a client has activated a policy since
\* bootstrap_default looked at the index.  And the homes whose local tree of this
\* Vault holds a revision of that name, too.
Roots ==
    {r \in [state : RootStates, id : Ids \cup {None},
            revision : {"free", "default", "other"}, policy : {"none", "default", "other"},
            moved : BOOLEAN, shadows : SUBSET Homes] :
        r.state = "absent" <=> r.id = None}

\* A local tree tells who made it, initialize or open_or_bootstrap_local.
LocalStates == {"absent", "made", "opened", "torn"}

Initializing == {"staging", "staging_local", "checking", "renaming", "publishing",
                 "bootstrapping", "inspecting", "activating"}
Undoing == {"undoing", "clearing_local", "clearing_portable", "removing_portable"}
Opening == {"looking", "linking", "opening"}

TypeOK ==
    /\ root \in Roots
    /\ local \in [Homes -> [Ids -> LocalStates]]
    /\ used \subseteq Ids
    /\ pc \in [Procs -> Initializing \cup Undoing \cup Opening \cup {"idle"}]
    /\ id \in [Procs -> Ids \cup {None}]
    /\ owned \in [Procs -> SUBSET Trees]
    /\ stage \in [Procs -> SUBSET Stages]
    /\ \A p \in Procs : stage[p] \subseteq owned[p]
    /\ opened \in [Procs -> Ids \cup {None}]
    /\ made \subseteq Ids
    /\ failed \subseteq Ids

\* A tree without any policy yet.
Tree(state, vault) ==
    [state |-> state, id |-> vault, revision |-> "free", policy |-> "none",
     moved |-> FALSE, shadows |-> {}]

NoRoot == Tree("absent", None)

Init ==
    /\ root = NoRoot
    /\ local = [h \in Homes |-> [i \in Ids |-> "absent"]]
    /\ used = {}
    /\ pc = [p \in Procs |-> "idle"]
    /\ id = [p \in Procs |-> None]
    /\ owned = [p \in Procs |-> {}]
    /\ stage = [p \in Procs |-> {}]
    /\ opened = [p \in Procs |-> None]
    /\ made = {}
    /\ failed = {}

-----------------------------------------------------------------------------
(* Steps of a command.  A definition whose name starts with Bug is a       *)
(* plausible mistake in the one that follows it; nothing in the            *)
(* specification uses it.                                                  *)

Goto(p, label) == pc' = [pc EXCEPT ![p] = label]

LocalOf(p) == local[HomeOf[p]][id[p]]

SetLocal(p, state) == local' = [local EXCEPT ![HomeOf[p]][id[p]] = state]

BugStageNotOwned(p, s) == stage' = [stage EXCEPT ![p] = @ \cup {s}] /\ UNCHANGED owned

\* p makes a staging directory.
MakeStage(p, s) ==
    /\ stage' = [stage EXCEPT ![p] = @ \cup {s}]
    /\ owned' = [owned EXCEPT ![p] = @ \cup {s}]

BugOwnsBeforeRename(p, s, t) == owned' = [owned EXCEPT ![p] = (@ \ {s}) \cup {t, "portable"}]

\* owned.remove(s), owned.add(t)
OwnInstead(p, s, t) == owned' = [owned EXCEPT ![p] = (@ \ {s}) \cup {t}]

DropStage(p, s) == stage' = [stage EXCEPT ![p] = @ \ {s}]

\* A command is over; opened[p] is what it returned, if it returned a Vault.
Return(p, vault) ==
    /\ Goto(p, "idle")
    /\ id' = [id EXCEPT ![p] = None]
    /\ owned' = [owned EXCEPT ![p] = {}]
    /\ opened' = [opened EXCEPT ![p] = vault]

-----------------------------------------------------------------------------
(* Vault.initialize                                                        *)

Initialize(p) ==
    /\ pc[p] = "idle"
    /\ root.state = "absent"
    /\ \E i \in Ids \ used :
         /\ id' = [id EXCEPT ![p] = i]
         /\ used' = used \cup {i}
    /\ Goto(p, "staging")
    /\ opened' = [opened EXCEPT ![p] = None]
    /\ UNCHANGED <<root, local, owned, stage, made, failed>>

Stage(p) ==
    /\ \/ pc[p] = "staging" /\ MakeStage(p, "portable_stage") /\ Goto(p, "staging_local")
       \/ pc[p] = "staging_local" /\ MakeStage(p, "local_stage") /\ Goto(p, "checking")
    /\ UNCHANGED <<root, local, used, id, opened, made, failed>>

CheckTargets(p) ==
    /\ pc[p] = "checking"
    /\ \/ root.state = "absent" /\ LocalOf(p) = "absent" /\ Goto(p, "renaming")
       \/ ~(root.state = "absent" /\ LocalOf(p) = "absent") /\ Goto(p, "undoing")
    /\ UNCHANGED <<root, local, used, id, owned, stage, opened, made, failed>>

RenameLocal(p) ==
    /\ pc[p] = "renaming"
    /\ SetLocal(p, "made")
    /\ DropStage(p, "local_stage")
    /\ OwnInstead(p, "local_stage", "local")
    /\ Goto(p, "publishing")
    /\ UNCHANGED <<root, used, id, opened, made, failed>>

\* The rename succeeds if no other tree has taken the name.
RenamePortable(p) ==
    /\ pc[p] = "publishing"
    /\ \/ /\ root.state \in {"absent", "empty"}
          /\ root' = Tree("whole", id[p])
          /\ DropStage(p, "portable_stage")
          /\ OwnInstead(p, "portable_stage", "portable")
          /\ Goto(p, "bootstrapping")
       \/ /\ root.state \in {"whole", "torn"}
          /\ Goto(p, "undoing")
          /\ UNCHANGED <<root, owned, stage>>
    /\ UNCHANGED <<local, used, id, opened, made, failed>>

\* PolicyStore.bootstrap_default, the end of initialize: it creates the default
\* revision or finds exactly it, looks at the index and, if no default is active,
\* activates it.  A client that has opened the Vault meanwhile can be in the way
\* of each.
BootstrapRevision(p) ==
    /\ pc[p] = "bootstrapping"
    /\ \/ /\ root.revision # "other"
          /\ root' = [root EXCEPT !.revision = "default"]
          /\ Goto(p, "inspecting")
       \/ root.revision = "other" /\ Goto(p, "undoing") /\ UNCHANGED root
    /\ UNCHANGED <<local, used, id, owned, stage, opened, made, failed>>

Succeed(p) ==
    /\ made' = made \cup {id[p]}
    /\ Return(p, id[p])

BootstrapLook(p) ==
    /\ pc[p] = "inspecting"
    /\ \/ /\ root.policy = "default"
          /\ Succeed(p)
          /\ UNCHANGED root
       \/ /\ root.policy = "none"
          /\ root' = [root EXCEPT !.moved = FALSE]
          /\ Goto(p, "activating")
          /\ UNCHANGED <<id, owned, opened, made>>
       \/ /\ root.policy = "other"
          /\ Goto(p, "undoing")
          /\ UNCHANGED <<root, id, owned, opened, made>>
    /\ UNCHANGED <<local, used, stage, failed>>

\* The revision belongs to one storage class, and write_cas finds the index that
\* was looked at.
MayActivate(p) == HomeOf[p] \notin root.shadows /\ ~root.moved

BootstrapActivate(p) ==
    /\ pc[p] = "activating"
    /\ \/ /\ MayActivate(p)
          /\ root' = [root EXCEPT !.policy = "default"]
          /\ Succeed(p)
       \/ /\ ~MayActivate(p)
          /\ Goto(p, "undoing")
          /\ UNCHANGED <<root, id, owned, opened, made>>
    /\ UNCHANGED <<local, used, stage, failed>>

BootstrapDefault(p) == BootstrapRevision(p) \/ BootstrapLook(p) \/ BootstrapActivate(p)

-----------------------------------------------------------------------------
(* A failed initialization removes its trees, the deepest first.           *)

BugRemovesUnowned(p, t) == TRUE

Removes(p, t) ==
    /\ t \in owned[p]
    /\ \A u \in owned[p] : Depth[u] <= Depth[t]

Removed(p, t) == owned' = [owned EXCEPT ![p] = @ \ {t}]

RemoveStage(p) ==
    /\ pc[p] = "undoing"
    /\ \E s \in Stages : Removes(p, s) /\ Removed(p, s) /\ DropStage(p, s)
    /\ UNCHANGED <<root, local, used, pc, id, opened, made, failed>>

\* shutil.rmtree of the local tree: its entries, then itself.
RemoveLocal(p) ==
    /\ \/ /\ pc[p] = "undoing" /\ Removes(p, "local")
          /\ SetLocal(p, "torn")
          /\ Goto(p, "clearing_local")
          /\ UNCHANGED owned
       \/ /\ pc[p] = "clearing_local"
          /\ SetLocal(p, "absent")
          /\ Goto(p, "undoing")
          /\ Removed(p, "local")
    /\ UNCHANGED <<root, used, id, stage, opened, made, failed>>

\* Of the portable tree, whatever it is by now: its entries, and itself if it is
\* still the empty directory.
RemovePortable(p) ==
    /\ \/ /\ pc[p] = "undoing" /\ Removes(p, "portable")
          /\ root.state # "absent"
          /\ root' = [root EXCEPT !.state = "torn"]
          /\ Goto(p, "clearing_portable")
          /\ UNCHANGED owned
       \/ /\ pc[p] = "clearing_portable"
          /\ root' = [root EXCEPT !.state = "empty"]
          /\ Goto(p, "removing_portable")
          /\ UNCHANGED owned
       \/ /\ pc[p] = "removing_portable" /\ root.state = "empty"
          /\ root' = NoRoot
          /\ Goto(p, "undoing")
          /\ Removed(p, "portable")
    /\ UNCHANGED <<local, used, id, stage, opened, made, failed>>

\* A directory cannot be removed if there is something in it again: from a client
\* that has opened the Vault, or the tree of another initialization that was
\* renamed onto the empty directory.  What is left then stays.
RemovalFails(p) ==
    /\ \/ /\ pc[p] = "clearing_local"
          /\ \E q \in Procs : opened[q] = id[p] /\ HomeOf[q] = HomeOf[p]
       \/ pc[p] = "clearing_portable" /\ \E q \in Procs : opened[q] # None
       \/ pc[p] = "removing_portable" /\ root.state # "empty"
    /\ Return(p, None)
    /\ stage' = [stage EXCEPT ![p] = {}]
    /\ UNCHANGED <<root, local, used, made, failed>>

Undone(p) ==
    /\ pc[p] = "undoing"
    /\ owned[p] = {}
    /\ failed' = failed \cup {id[p]}
    /\ Return(p, None)
    /\ UNCHANGED <<root, local, used, stage, made>>

-----------------------------------------------------------------------------
(* Vault.open_or_bootstrap_local                                           *)

\* A tree that is torn may or may not still have what open looks for.
Openable(state) == state \notin {"absent", "empty"}

OpenRead(p) ==
    /\ pc[p] = "idle"
    /\ Openable(root.state)
    /\ id' = [id EXCEPT ![p] = root.id]
    /\ opened' = [opened EXCEPT ![p] = None]
    /\ Goto(p, "looking")
    /\ UNCHANGED <<root, local, used, owned, stage, made, failed>>

OpenLook(p) ==
    /\ pc[p] = "looking"
    /\ \/ /\ LocalOf(p) # "absent"
          /\ Goto(p, "opening")
          /\ UNCHANGED <<owned, stage>>
       \/ /\ LocalOf(p) = "absent"
          /\ MakeStage(p, "local_stage")
          /\ Goto(p, "linking")
    /\ UNCHANGED <<root, local, used, id, opened, made, failed>>

BugLoserFails(p) == LocalOf(p) # "absent" /\ Return(p, None)

\* Somebody else's tree of that name will do; the stage is removed.
LinkLost(p) ==
    /\ LocalOf(p) # "absent"
    /\ Goto(p, "opening")
    /\ Removed(p, "local_stage")
    /\ UNCHANGED <<id, opened>>

\* The second look and the rename.
LinkLocal(p) ==
    /\ pc[p] = "linking"
    /\ \/ /\ LocalOf(p) = "absent"
          /\ SetLocal(p, "opened")
          /\ Goto(p, "opening")
          /\ Removed(p, "local_stage")
          /\ UNCHANGED <<id, opened>>
       \/ LinkLost(p) /\ UNCHANGED local
    /\ DropStage(p, "local_stage")
    /\ UNCHANGED <<root, used, made, failed>>

\* Vault.open of the paths.  The id is read again.
OpenStrict(p) ==
    /\ pc[p] = "opening"
    /\ \/ /\ Openable(root.state)
          /\ local[HomeOf[p]][root.id] # "absent"
          /\ Return(p, root.id)
       \/ /\ ~(root.state = "whole" /\ local[HomeOf[p]][root.id] \in {"made", "opened"})
          /\ Return(p, None)
    /\ UNCHANGED <<root, local, used, stage, made, failed>>

-----------------------------------------------------------------------------
(* Clients and the environment.                                            *)

\* Whoever has opened the Vault may create a policy revision, also one of the
\* name that the bootstrap uses, in either storage class.
CreateRevision(q) ==
    /\ opened[q] # None
    /\ root.state = "whole"
    /\ \/ /\ root.revision = "free"
          /\ \E content \in {"default", "other"} : root' = [root EXCEPT !.revision = content]
       \/ /\ opened[q] = root.id
          /\ root' = [root EXCEPT !.shadows = @ \cup {HomeOf[q]}]
    /\ UNCHANGED <<local, used, pc, id, owned, stage, opened, made, failed>>

\* And may activate one: as the default, the bootstrapped revision or another,
\* or as some other policy.
Activate(q) ==
    /\ opened[q] # None
    /\ root.state = "whole"
    /\ \E policy \in {root.policy, "default", "other"} :
         /\ policy = "default" /\ root.policy # "default"
              => root.revision = "default" /\ HomeOf[q] \notin root.shadows
         /\ root' = [root EXCEPT !.policy = policy, !.moved = TRUE]
    /\ UNCHANGED <<local, used, pc, id, owned, stage, opened, made, failed>>

\* A directory or file cannot be made or renamed.
Fails(p) ==
    /\ DiskMayFail
    /\ \/ /\ pc[p] \in Initializing
          /\ Goto(p, "undoing")
          /\ UNCHANGED <<id, owned, stage, opened>>
       \/ /\ pc[p] = "linking"
          /\ Return(p, None)
          /\ DropStage(p, "local_stage")
    /\ UNCHANGED <<root, local, used, made, failed>>

Crash(p) ==
    /\ pc[p] # "idle" \/ opened[p] # None
    /\ Return(p, None)
    /\ stage' = [stage EXCEPT ![p] = {}]
    /\ UNCHANGED <<root, local, used, made, failed>>

\* There is nothing to open, and no initialization can begin: an empty directory
\* was left behind, or (bound) the ids are used up.
Finished ==
    /\ root.state = "empty" \/ (root.state = "absent" /\ used = Ids)
    /\ \A p \in Procs : pc[p] = "idle" /\ opened[p] = None
    /\ UNCHANGED vars

Next ==
    \/ Finished
    \/ \E p \in Procs : \/ Initialize(p)
                         \/ Stage(p)
                         \/ CheckTargets(p)
                         \/ RenameLocal(p)
                         \/ RenamePortable(p)
                         \/ BootstrapDefault(p)
                         \/ RemoveStage(p)
                         \/ RemoveLocal(p)
                         \/ RemovePortable(p)
                         \/ RemovalFails(p)
                         \/ Undone(p)
                         \/ OpenRead(p)
                         \/ OpenLook(p)
                         \/ LinkLocal(p)
                         \/ OpenStrict(p)
                         \/ CreateRevision(p)
                         \/ Activate(p)
                         \/ Fails(p)
    \/ \E p \in Mortal : Crash(p)

Spec == Init /\ [][Next]_vars

-----------------------------------------------------------------------------
(* Safety                                                                  *)

\* A Vault whose initialization has succeeded stays: no other initialization,
\* that loses the race for the name or fails, removes anything of it, and it
\* always has an active default policy and its maker's local tree.
MadeVaultsStay ==
    \A i \in made :
        /\ root.state = "whole" /\ root.id = i /\ root.policy # "none"
        /\ \E h \in Homes : local[h][i] = "made"

\* An initialization that failed and was undone has left no tree, no stage and
\* no half-made tree; what a process that opened the Vault meanwhile made for
\* its machine is that process's.
FailureLeavesNothing ==
    /\ \A i \in failed : root.id # i /\ \A h \in Homes : local[h][i] \in {"absent", "opened"}
    /\ \A p \in Procs : pc[p] = "idle" => stage[p] = {}

\* What the undo of an initialization takes away is its own trees, all of them
\* and nothing of another's (vault.py:280-283).
UndoIsExact == MadeVaultsStay /\ FailureLeavesNothing

\* The local tree that open_or_bootstrap_local makes for a machine is complete
\* from the moment it is there, and nobody ever takes it away.
LocalTreesStay ==
    [][\A h \in Homes : \A i \in Ids :
         local[h][i] = "opened" => local'[h][i] = "opened"]_vars

\* Processes that open a Vault that has been made all get it, however they race to
\* make the machine's local tree; only a full disk can turn one away.
OpenersConverge ==
    [][\A p \in Procs :
         (LinkLocal(p) \/ OpenStrict(p)) /\ pc'[p] = "idle" /\ id[p] \in made
           => opened'[p] = id[p]]_vars

\* docs/SETUP-NEW-PC.md: initialize "creates both roots and the default policy
\* atomically".  When no process is at work, a portable tree that is there is
\* whole and has an active default policy.
InitializationIsAtomic ==
    (\A p \in Procs : pc[p] = "idle") =>
        root.state = "absent" \/ (root.state = "whole" /\ root.policy # "none")
=============================================================================

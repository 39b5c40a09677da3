---------------------------- MODULE SessionLineage ----------------------------
(***************************************************************************)
(* What a workstream promises about its sessions, with no writer, lock,    *)
(* file or retry in sight: revisions are only ever added, each one behind  *)
(* its predecessor; publishing a checkpoint moves the head of ITS session  *)
(* by exactly one revision and touches no other head; only an explicit     *)
(* operator command may put the heads anywhere else; and every change of   *)
(* the registry is counted by its generation.                              *)
(***************************************************************************)
EXTENDS Naturals

CONSTANTS
    Sessions,       \* session ids of one workstream
    MaxRevision,    \* the largest revision number a session can reach
    None            \* no preferred head

VARIABLES
    revisions,      \* references of the revisions that can be read
    heads,          \* active_heads of the registry
    preferred,      \* its preferred_head
    generation,     \* its generation
    commands        \* how many operator commands have changed it

lineageVars == <<revisions, heads, preferred, generation, commands>>

Refs == [session : Sessions, revision : 1 .. MaxRevision]

Ref(s, n) == [session |-> s, revision |-> n]

\* r has nothing before it, or what is before it can be read.
Follows(r, S) == r.revision = 1 \/ Ref(r.session, r.revision - 1) \in S

LineageInit ==
    /\ revisions = {}
    /\ heads = {}
    /\ preferred = None
    /\ generation = 0
    /\ commands = 0

\* A revision becomes readable behind its predecessor.
AddRevision(r) ==
    /\ r \notin revisions
    /\ Follows(r, revisions)
    /\ revisions' = revisions \cup {r}
    /\ UNCHANGED <<heads, preferred, generation, commands>>

\* The first revision of a session that has no head becomes its head.
PublishFirst(r) ==
    /\ r \in revisions
    /\ r.revision = 1
    /\ \A h \in heads : h.session # r.session
    /\ heads' = heads \cup {r}
    /\ generation' = generation + 1
    /\ UNCHANGED <<revisions, preferred, commands>>

\* The head of a session moves to its direct successor, and the preference
\* moves with it if it was the preferred one.
PublishNext(r) ==
    /\ r \in revisions
    /\ \E h \in heads :
         /\ h.session = r.session
         /\ r.revision = h.revision + 1
         /\ heads' = (heads \ {h}) \cup {r}
         /\ preferred' = IF preferred = h THEN r ELSE preferred
    /\ generation' = generation + 1
    /\ UNCHANGED <<revisions, commands>>

\* A person selects heads, a preferred head or a lifecycle status.
Operate(H, k) ==
    /\ H \subseteq revisions
    /\ heads' = H
    /\ preferred' = k
    /\ generation' = generation + 1
    /\ commands' = commands + 1
    /\ UNCHANGED revisions

LineageNext ==
    \/ \E r \in Refs : AddRevision(r) \/ PublishFirst(r) \/ PublishNext(r)
    \/ \E H \in SUBSET Refs : \E k \in H \cup {None} : Operate(H, k)

LineageSpec == LineageInit /\ [][LineageNext]_lineageVars
=============================================================================

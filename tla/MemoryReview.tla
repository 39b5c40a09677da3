----------------------------- MODULE MemoryReview -----------------------------
(***************************************************************************)
(* What the Memory store promises, with no file, receipt, generation or    *)
(* crash in sight: a memory is proposed, may be revised while it is only a *)
(* proposal, is accepted at most once and retired at most once; what has   *)
(* been accepted is never rewritten, only replaced by ONE successor, which *)
(* is a proposal like any other.                                           *)
(***************************************************************************)

CONSTANTS
    Ids,        \* memory ids
    Contents,   \* what a memory can say
    None        \* no predecessor, no content

VARIABLES
    proposed,   \* memories that are only candidates
    accepted,   \* memories that were accepted, retired since or not
    retired,    \* memories that were retired
    says,       \* what each of them says
    replaces    \* the memory each of them supersedes

reviewVars == <<proposed, accepted, retired, says, replaces>>

Known == proposed \cup accepted \cup retired

ReviewInit ==
    /\ proposed = {} /\ accepted = {} /\ retired = {}
    /\ says = [i \in Ids |-> None]
    /\ replaces = [i \in Ids |-> None]

\* A new memory, or the only successor of one that has been accepted.
Propose(i, c, prior) ==
    /\ i \notin Known
    /\ prior # None => /\ prior \in accepted
                       /\ \A k \in Known : replaces[k] # prior
    /\ proposed' = proposed \cup {i}
    /\ says' = [says EXCEPT ![i] = c]
    /\ replaces' = [replaces EXCEPT ![i] = prior]
    /\ UNCHANGED <<accepted, retired>>

Revise(i, c) ==
    /\ i \in proposed
    /\ says' = [says EXCEPT ![i] = c]
    /\ UNCHANGED <<proposed, accepted, retired, replaces>>

Accept(i) ==
    /\ i \in proposed
    /\ proposed' = proposed \ {i}
    /\ accepted' = accepted \cup {i}
    /\ UNCHANGED <<retired, says, replaces>>

\* A retired proposal was never accepted; a retired fact stays an accepted one.
Retire(i) ==
    /\ i \in (proposed \cup accepted) \ retired
    /\ proposed' = proposed \ {i}
    /\ retired' = retired \cup {i}
    /\ UNCHANGED <<accepted, says, replaces>>

ReviewNext ==
    \E i \in Ids : \/ \E c \in Contents : \E prior \in Ids \cup {None} :
                          Propose(i, c, prior)
                   \/ \E c \in Contents : Revise(i, c)
                   \/ Accept(i)
                   \/ Retire(i)

ReviewSpec == ReviewInit /\ [][ReviewNext]_reviewVars
=============================================================================

----------------------------- MODULE PolicyLedger -----------------------------
(***************************************************************************)
(* What the policy store promises: a ledger of rules that are published    *)
(* once and never altered, and pointers that only ever name a published    *)
(* rule of their own storage class.  A pointer may move to any such rule,  *)
(* forwards or back; one pointer moves at a time.                          *)
(***************************************************************************)

CONSTANTS
    Classes,    \* storage classes, each a root of its own
    Portable,   \* the one that project registries of the Vault live in
    Revisions,  \* names of policy revisions, <policy id>/<revision>
    Rules,      \* what a revision can say
    Policies,   \* policy ids
    PolicyOf,   \* PolicyOf[r] is the policy that revision r belongs to
    None

VARIABLES
    rules,      \* rules[c][r]: the rule published as r in class c, or None
    active,     \* active[c][p]: the revision and rule p points to, or None
    assigned    \* the revision and rule assigned to a project, or None

ledgerVars == <<rules, active, assigned>>

LedgerRefs == [revision : Revisions, digest : Rules]

LedgerInit ==
    /\ rules = [c \in Classes |-> [r \in Revisions |-> None]]
    /\ active = [c \in Classes |-> [p \in Policies |-> None]]
    /\ assigned = None

\* A reference is good in class c if c, and no other class, published it.
Names(c, ref) ==
    /\ rules[c][ref.revision] = ref.digest
    /\ \A d \in Classes \ {c} : rules[d][ref.revision] = None

Publish(c, ref) ==
    /\ rules[c][ref.revision] = None
    /\ rules' = [rules EXCEPT ![c][ref.revision] = ref.digest]
    /\ UNCHANGED <<active, assigned>>

Point(c, ref) ==
    /\ Names(c, ref)
    /\ active' = [active EXCEPT ![c][PolicyOf[ref.revision]] = ref]
    /\ UNCHANGED <<rules, assigned>>

Assign(ref) ==
    /\ Names(Portable, ref)
    /\ assigned' = ref
    /\ UNCHANGED <<rules, active>>

LedgerNext ==
    \E ref \in LedgerRefs : \/ \E c \in Classes : Publish(c, ref) \/ Point(c, ref)
                            \/ Assign(ref)

LedgerSpec == LedgerInit /\ [][LedgerNext]_ledgerVars
=============================================================================

------------------------------ MODULE MCGitSync ------------------------------
(***************************************************************************)
(* Instances of GitSync: a project whose policy may be tightened, a        *)
(* workstream of the project that may be removed, or name a session that   *)
(* is not there.                                                           *)
(***************************************************************************)
EXTENDS GitSync, TLC

CONSTANTS client, main, side, lax, strict, madi, work, sess

OneClient == {client}
TwoBranches == {main, side}

TwoRules == {lax, strict}
Ceilings == lax :> Shareable @@ strict :> LocalOnly

Project == File("portable", "project", madi)
Workstream == File("portable", "workstream", work)

OfProject == [Plain EXCEPT !.project = madi]
Tightened == [Plain EXCEPT !.policies = {strict}]
ActiveLax == [Plain EXCEPT !.policies = {lax}]
MissingHead == [OfProject EXCEPT !.heads = {File("portable", "session", sess)}]

Files == {PolicyIndex, RuleFile(lax), RuleFile(strict), Project, Workstream}
AllContents ==
    {Absent, Torn, Plain, OfProject, Tightened, ActiveLax, MissingHead}

FirstFiles ==
    [a \in Files |-> CASE a = PolicyIndex -> ActiveLax
                       [] a = Workstream -> OfProject
                       [] OTHER -> Plain]

TwoFileEdits ==
    {[file |-> Project, content |-> Tightened],
     [file |-> Workstream, content |-> MissingHead],
     [file |-> Workstream, content |-> Absent]}

BranchSymmetry == Permutations(TwoBranches)
=============================================================================

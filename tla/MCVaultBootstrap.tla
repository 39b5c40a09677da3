--------------------------- MODULE MCVaultBootstrap ---------------------------
(***************************************************************************)
(* Instances of VaultBootstrap: two or three processes, one or two machine-*)
(* local state homes, two ids.                                             *)
(***************************************************************************)
EXTENDS VaultBootstrap, TLC

CONSTANTS p1, p2, p3, here, there, i1, i2

ThreeProcs == {p1, p2, p3}
TwoHomes == {here, there}
HomeOfThree == p1 :> here @@ p2 :> here @@ p3 :> there
TwoIds == {i1, i2}

\* <home>/.madi/state/vaults/<id> and <home>/vault
LocalDeeper ==
    [t \in Trees |-> IF t \in {"portable_stage", "portable"} THEN 3 ELSE 5]
Nobody == {}

IdSymmetry == Permutations(TwoIds)
ProcSymmetry == Permutations({p1, p2})
Symmetry == IdSymmetry \cup ProcSymmetry
=============================================================================

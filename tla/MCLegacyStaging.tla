-------------------------- MODULE MCLegacyStaging --------------------------
(***************************************************************************)
(* Instances of LegacyStaging: a database of two pages, in which a         *)
(* transaction makes a table, and a wiki of two files.        *)
(***************************************************************************)
EXTENDS LegacyStaging, TLC

CONSTANTS first, second, page, note

TwoStagers == {first, second}
TwoFiles == {page, note}
OnePage == page :> 1 @@ note :> 0

Always == {"facts", "wiki_fts", "meta"}
SomeTables == [v \in Versions |-> IF v = 0 THEN Always ELSE Always \cup {"skills"}]

StagerSymmetry == Permutations(TwoStagers)
=============================================================================

--------------------------- MODULE MCPlayerTable ---------------------------
(***************************************************************************)
(* PlayerTable with few identifiers: enough for a player with two tanks    *)
(* and one more whom the deletions move about.                             *)
(***************************************************************************)
EXTENDS PlayerTable, TLC

AllOptions == [keepShots : BOOLEAN, autoKick : BOOLEAN]
KickOnly == {[keepShots |-> FALSE, autoKick |-> TRUE]}

Symmetry == Permutations(Ids)
=============================================================================

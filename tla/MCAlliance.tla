----------------------------- MODULE MCAlliance -----------------------------
(***************************************************************************)
(* Alliances and tag among few players, who are interchangeable.           *)
(***************************************************************************)
EXTENDS Tag, TLC

\* A server where alliances come and go, one where tag is played.
AllGames == {[tagGame |-> FALSE, allowAlliances |-> TRUE, operator |-> TRUE],
             [tagGame |-> TRUE, allowAlliances |-> FALSE, operator |-> FALSE]}
TwoAlliances == 0 .. 1
Symmetry == Permutations(Ids)
=============================================================================

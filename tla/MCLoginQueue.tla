---------------------------- MODULE MCLoginQueue ----------------------------
(***************************************************************************)
(* Four who want to play, three of them of one host, on a server with two  *)
(* places.                                                                 *)
(***************************************************************************)
EXTENDS LoginQueue

CONSTANTS ann, bob, cat, dan
FourClients == {ann, bob, cat, dan}
TwoHosts == [x \in FourClients |-> IF x = dan THEN "far" ELSE "near"]
=============================================================================

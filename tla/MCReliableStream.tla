-------------------------- MODULE MCReliableStream --------------------------
(***************************************************************************)
(* ReliableStream with a stream of a few bytes and packets of two or three *)
(* bytes: long enough for bursts of several packets, for packets that      *)
(* overlap after a shorter one was sent, and for a frame update to share   *)
(* its packet with reliable data.                                          *)
(***************************************************************************)
EXTENDS ReliableStream
=============================================================================

---------------------------- MODULE MCConnection ----------------------------
(***************************************************************************)
(* Connection for TLC: the sizes are all in the configurations.  In        *)
(* Connection.cfg a packet holds half of the buffer, so that a burst cuts  *)
(* what is queued anywhere; the other configurations have packets of one   *)
(* unit, so that the reply and the map travel in packets of their own.     *)
(***************************************************************************)
EXTENDS Connection
=============================================================================

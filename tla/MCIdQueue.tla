------------------------------ MODULE MCIdQueue ------------------------------
(***************************************************************************)
(* IdQueue on a ring of 4 identifiers and counters of 3 bits, so that both *)
(* the ring and the counters wrap.                                         *)
(***************************************************************************)
EXTENDS IdQueue
=============================================================================

----------------------------- MODULE ByteStream -----------------------------
(***************************************************************************)
(* What the reliable stream promises the rest of the program: the client   *)
(* reads the bytes that the server queued for it, in the order they were   *)
(* queued, each of them once.  Byte number i stands for whatever was the   *)
(* i-th byte queued.                                                       *)
(***************************************************************************)
EXTENDS Integers, Sequences

CONSTANT MaxStream           \* bound: bytes queued during a connection

VARIABLES written,           \* how many bytes the server has queued
          delivered          \* the bytes the client has received

streamVars == <<written, delivered>>

\* The first n bytes of the stream.
Prefix(n) == [i \in 1 .. n |-> i]

Init == /\ written = 0
        /\ delivered = Prefix(0)

Queue == /\ written < MaxStream
         /\ written' \in written + 1 .. MaxStream
         /\ UNCHANGED delivered

Deliver == /\ Len(delivered) < written
           /\ \E n \in Len(delivered) + 1 .. written : delivered' = Prefix(n)
           /\ UNCHANGED written

Next == Queue \/ Deliver

Spec == Init /\ [][Next]_streamVars

\* As long as the two sides keep talking, everything queued is delivered.
FairSpec == Spec /\ WF_streamVars(Deliver)
=============================================================================

------------------------------- MODULE IdPool -------------------------------
(***************************************************************************)
(* What the allocator of player identifiers promises to the server: a      *)
(* first-in first-out pool of the numbers 1..NumIds.  request_ID() takes   *)
(* the identifier that has been free for the longest time, release_ID()    *)
(* puts an identifier that is in use at the end of the pool.               *)
(***************************************************************************)
EXTENDS Integers, Sequences, FiniteSets

CONSTANT NumIds              \* NUM_IDS of serverconst.h

Ids == 1 .. NumIds

VARIABLES freeIds,           \* the free identifiers, oldest first
          exited             \* release_ID() met an illegal identifier

poolVars == <<freeIds, exited>>

FreeSet == {freeIds[k] : k \in 1 .. Len(freeIds)}

Init == /\ freeIds = [k \in Ids |-> k]
        /\ exited = FALSE

Request == /\ ~exited
           /\ Len(freeIds) > 0
           /\ freeIds' = Tail(freeIds)
           /\ UNCHANGED exited

Release(id) == /\ ~exited
               /\ id \in Ids \ FreeSet
               /\ freeIds' = Append(freeIds, id)
               /\ UNCHANGED exited

\* The server stops when it is asked to release what is not in use.
Refuse == /\ ~exited
          /\ exited' = TRUE
          /\ UNCHANGED freeIds

Next == \/ Request
        \/ \E id \in Ids : Release(id)
        \/ Refuse

Spec == Init /\ [][Next]_poolVars
=============================================================================

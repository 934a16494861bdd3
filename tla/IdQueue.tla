------------------------------- MODULE IdQueue -------------------------------
(***************************************************************************)
(* The allocator of player identifiers (server/id.c).  The free            *)
(* identifiers are kept in a ring of NumIds slots between two unsigned     *)
(* counters that are only ever incremented: they wrap at Modulus (2^32 in  *)
(* the program) and are reduced modulo NumIds when the ring is indexed.    *)
(***************************************************************************)
EXTENDS Integers, Sequences, FiniteSets

CONSTANTS NumIds,            \* NUM_IDS
          Modulus            \* the number of values of an unsigned int

\* The ring is only correct across the wrap of the counters because the
\* number of slots divides the number of values of a counter.
ASSUME IdQueueAssumption ==
    /\ NumIds \in Nat \ {0}
    /\ Modulus \in Nat
    /\ Modulus > NumIds
    /\ Modulus % NumIds = 0

Ids == 1 .. NumIds
Counters == 0 .. Modulus - 1

VARIABLES IDqueue,           \* ID_queue[], slots 0 .. NumIds - 1
          IDinuse,           \* ID_inuse[]
          getID,             \* get_ID, the counter of identifiers taken
          putID,             \* put_ID, the counter of identifiers put back
          exited             \* the server called exit(1)

vars == <<IDqueue, IDinuse, getID, putID, exited>>

-----------------------------------------------------------------------------

\* Unsigned arithmetic.
Succ(c) == (c + 1) % Modulus
NumFree == (putID - getID) % Modulus

Slot(c) == c % NumIds

\* init_ID(), called by every entry point before anything else.
Init == /\ IDqueue = [s \in 0 .. NumIds - 1 |-> s + 1]
        /\ IDinuse = [id \in Ids |-> FALSE]
        /\ getID = 0
        /\ putID = NumIds
        /\ exited = FALSE

\* The corruption test of init_ID().
Corrupt == NumFree > NumIds

PeekID == IF getID = putID THEN 0 ELSE IDqueue[Slot(getID)]

RequestID == /\ ~exited /\ ~Corrupt
             /\ PeekID # 0
             /\ getID' = Succ(getID)
             /\ IDinuse' = [IDinuse EXCEPT ![PeekID] = TRUE]
             /\ UNCHANGED <<IDqueue, putID, exited>>

\* Mutant: release_ID() does not look at ID_inuse[].
IllegalWithoutInuse(id) == NumFree = NumIds \/ id \notin Ids

\* The test of release_ID().
Illegal(id) == NumFree = NumIds \/ id \notin {i \in Ids : IDinuse[i]}

ReleaseID(id) == /\ ~exited /\ ~Corrupt
                 /\ ~Illegal(id)
                 /\ IDqueue' = [IDqueue EXCEPT ![Slot(putID)] = id]
                 /\ putID' = Succ(putID)
                 /\ IDinuse' = [IDinuse EXCEPT ![id] = FALSE]
                 /\ UNCHANGED <<getID, exited>>

\* error() and exit(1), in init_ID() or in release_ID(id).
Exit(id) == /\ ~exited
            /\ Corrupt \/ Illegal(id)
            /\ exited' = TRUE
            /\ UNCHANGED <<IDqueue, IDinuse, getID, putID>>

Next == \/ RequestID
        \/ \E id \in 0 .. NumIds + 1 : ReleaseID(id) \/ Exit(id)

Spec == Init /\ [][Next]_vars

-----------------------------------------------------------------------------

\* The queue holds identifiers, and its counters stay in their width.
TypeOK == /\ IDqueue \in [0 .. NumIds - 1 -> Ids]
          /\ IDinuse \in [Ids -> BOOLEAN]
          /\ getID \in Counters
          /\ putID \in Counters
          /\ exited \in BOOLEAN

\* The k-th oldest free identifier, k counted from 0.
FreeAt(k) == IDqueue[Slot(getID + k)]

FreeIds == [k \in 1 .. NumFree |-> FreeAt(k - 1)]

\* The part of the ring between the two counters holds every identifier that
\* is not in use, each of them once: no identifier is lost by the wrap of a
\* counter or of the ring, and none is ever handed to two players.
RingHoldsFreeIds ==
    /\ NumFree <= NumIds
    /\ \A j, k \in 0 .. NumFree - 1 : FreeAt(j) = FreeAt(k) => j = k
    /\ \A k \in 0 .. NumFree - 1 : ~IDinuse[FreeAt(k)]
    /\ \A id \in Ids : ~IDinuse[id] => \E k \in 0 .. NumFree - 1 : FreeAt(k) = id

\* The ring implements the first-in first-out pool: the identifier of a
\* player who left is given to a newcomer only after every identifier that
\* was free before it.
Pool == INSTANCE IdPool WITH freeIds <- FreeIds
PoolSpec == Pool!Spec
=============================================================================

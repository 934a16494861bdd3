---------------------------- MODULE IdQueueProofs ----------------------------
(***************************************************************************)
(* Proofs about the allocator of player identifiers, for every number of   *)
(* identifiers and every width of the counters that it divides.            *)
(*                                                                         *)
(* TypeOK and RingHoldsFreeIds are inductive together.  What makes the     *)
(* steps go through is modular arithmetic: the k-th free slot is the same  *)
(* whether it is counted from the counter or from its wrapped successor    *)
(* (SlotSucc), the slot release_ID() writes is the one behind the last     *)
(* free slot (SlotOfPut), and fewer than NumIds consecutive counters never *)
(* share a slot (SlotsDistinct).                                           *)
(***************************************************************************)
EXTENDS IdQueue, SequenceTheorems, TLAPS

-----------------------------------------------------------------------------

LEMMA ModRange == ASSUME NEW a \in Int, NEW n \in Nat \ {0}
                  PROVE  a % n \in 0 .. n - 1
  BY SMT

LEMMA ModDecompose == ASSUME NEW a \in Int, NEW n \in Nat \ {0}
                      PROVE  /\ a = (a \div n) * n + (a % n)
                             /\ a \div n \in Int
  BY SMT

LEMMA ModUnique == ASSUME NEW q \in Int, NEW n \in Nat \ {0},
                          NEW r \in 0 .. n - 1, NEW a \in Int, a = q * n + r
                   PROVE  a % n = r
  BY SMT

LEMMA ModSmall == ASSUME NEW n \in Nat \ {0}, NEW k \in 0 .. n - 1
                  PROVE  k % n = k
  BY SMT

LEMMA MulAtLeast == ASSUME NEW q \in Int, NEW n \in Nat \ {0}, q # 0
                    PROVE  q * n >= n \/ q * n <= -n
  BY SMT

\* Adding a multiple of the modulus changes nothing.
LEMMA ModAddMultiple == ASSUME NEW a \in Int, NEW q \in Int, NEW n \in Nat \ {0}
                        PROVE  (a + q * n) % n = a % n
<1> DEFINE d == a \div n
           r == a % n
<1>1. a = d * n + r /\ d \in Int /\ r \in 0 .. n - 1
  BY ModDecompose, ModRange
<1> HIDE DEF d, r
<1>2. a + q * n = (d + q) * n + r
  BY <1>1, SMT
<1>3. (a + q * n) % n = r
  BY <1>1, <1>2, ModUnique, SMT
<1> QED
  BY <1>3 DEF r

\* Consecutive numbers, fewer than the modulus, have different remainders.
LEMMA ModDistinct == ASSUME NEW a \in Int, NEW n \in Nat \ {0},
                            NEW j \in 0 .. n - 1, NEW k \in 0 .. n - 1,
                            (a + j) % n = (a + k) % n
                     PROVE  j = k
<1> DEFINE x == (a + j) \div n
           y == (a + k) \div n
           r == (a + j) % n
<1>1. /\ a + j = x * n + r /\ a + k = y * n + r
      /\ x \in Int /\ y \in Int /\ r \in Int
  <2>1. n \in Int /\ a + j \in Int /\ a + k \in Int
    BY SMT
  <2>2. /\ a + j = x * n + r /\ x \in Int
        /\ a + k = y * n + ((a + k) % n) /\ y \in Int
    BY <2>1, ModDecompose
  <2>3. r \in 0 .. n - 1
    BY <2>1, ModRange
  <2> QED BY <2>1, <2>2, <2>3, SMT
<1> HIDE DEF x, y, r
<1>2. j - k = (x - y) * n /\ x - y \in Int
  BY <1>1, SMT
<1>3. x - y = 0
  BY <1>2, MulAtLeast, SMT
<1> QED
  BY <1>2, <1>3, SMT

-----------------------------------------------------------------------------

\* A counter value and its wrapped form use the same slot.
LEMMA SlotOfWrapped == ASSUME NEW a \in Int, NEW k \in Int
                       PROVE  /\ Slot((a % Modulus) + k) = Slot(a + k)
                              /\ Modulus \in Nat \ {0}
<1> DEFINE q == a \div Modulus
           r == a % Modulus
           c == Modulus \div NumIds
<1>1. Modulus \in Nat \ {0} /\ NumIds \in Nat \ {0}
  BY IdQueueAssumption, SMT
<1>2. a = q * Modulus + r /\ q \in Int /\ r \in Int
  BY <1>1, ModDecompose, ModRange, SMT
<1>3. Modulus = c * NumIds /\ c \in Int
  BY <1>1, IdQueueAssumption, ModDecompose, SMT
<1> HIDE DEF q, r, c
<1> DEFINE m == q * c
<1>4. q * Modulus = m * NumIds /\ m \in Int
  BY <1>1, <1>2, <1>3, SMT
<1> HIDE DEF m
<1>5. a + k = (r + k) + m * NumIds /\ r + k \in Int
  <2>1. m * NumIds \in Int
    BY <1>1, <1>4, SMT
  <2> QED BY <1>2, <1>4, <2>1, SMT
<1>6. ((r + k) + m * NumIds) % NumIds = (r + k) % NumIds
  BY <1>1, <1>4, <1>5, ModAddMultiple
<1> QED
  BY <1>1, <1>5, <1>6 DEF Slot, r

LEMMA SlotInRing == ASSUME NEW a \in Int
                    PROVE  Slot(a) \in 0 .. NumIds - 1
  BY IdQueueAssumption, ModRange, SMT DEF Slot

LEMMA SlotSucc == ASSUME NEW c \in Counters, NEW k \in Nat
                  PROVE  Slot(Succ(c) + k) = Slot(c + (k + 1))
<1>1. c \in Int /\ c + 1 \in Int /\ (c + 1) + k = c + (k + 1)
  BY IdQueueAssumption, SMT DEF Counters
<1> QED
  BY <1>1, SlotOfWrapped DEF Succ

LEMMA SlotsDistinct == ASSUME NEW a \in Int, NEW j \in 0 .. NumIds - 1,
                              NEW k \in 0 .. NumIds - 1, Slot(a + j) = Slot(a + k)
                       PROVE  j = k
  BY IdQueueAssumption, ModDistinct DEF Slot

LEMMA SuccInCounters == ASSUME NEW c \in Counters PROVE Succ(c) \in Counters
<1>1. Modulus \in Nat \ {0} /\ c + 1 \in Int
  BY IdQueueAssumption, SMT DEF Counters
<1> QED
  BY <1>1, ModRange DEF Succ, Counters

\* The distance between two counters, without the modulus.
LEMMA CounterDistance ==
    ASSUME NEW g \in Counters, NEW p \in Counters
    PROVE  /\ (p - g) % Modulus \in 0 .. Modulus - 1
           /\ (p - g) % Modulus = IF p >= g THEN p - g ELSE p - g + Modulus
<1>1. Modulus \in Nat \ {0} /\ g \in Int /\ p \in Int
      /\ g >= 0 /\ g < Modulus /\ p >= 0 /\ p < Modulus
  BY IdQueueAssumption, SMT DEF Counters
<1>2. CASE p >= g
  <2>1. p - g \in 0 .. Modulus - 1 /\ p - g = 0 * Modulus + (p - g)
    BY <1>1, <1>2, SMT
  <2>2. (p - g) % Modulus = p - g
    BY <1>1, <2>1, ModUnique, SMT
  <2> QED BY <1>2, <2>1, <2>2
<1>3. CASE ~(p >= g)
  <2>1. /\ p - g + Modulus \in 0 .. Modulus - 1
        /\ p - g = (-1) * Modulus + (p - g + Modulus)
    BY <1>1, <1>3, SMT
  <2>2. (p - g) % Modulus = p - g + Modulus
    BY <1>1, <2>1, ModUnique, SMT
  <2> QED BY <1>3, <2>1, <2>2
<1> QED BY <1>2, <1>3

\* A counter below its bound is incremented; at its bound it wraps to 0.
LEMMA SuccValue == ASSUME NEW c \in Counters
                   PROVE  Succ(c) = IF c = Modulus - 1 THEN 0 ELSE c + 1
<1>1. Modulus \in Nat \ {0} /\ c \in Int /\ c >= 0 /\ c < Modulus
  BY IdQueueAssumption, SMT DEF Counters
<1>2. CASE c = Modulus - 1
  <2>1. c + 1 = 1 * Modulus + 0 /\ 0 \in 0 .. Modulus - 1
    BY <1>1, <1>2, SMT
  <2> QED BY <1>1, <1>2, <2>1, ModUnique, SMT DEF Succ
<1>3. CASE c # Modulus - 1
  <2>1. c + 1 = 0 * Modulus + (c + 1) /\ c + 1 \in 0 .. Modulus - 1
    BY <1>1, <1>3, SMT
  <2> QED BY <1>1, <1>3, <2>1, ModUnique, SMT DEF Succ
<1> QED BY <1>2, <1>3

\* release_ID() writes the slot behind the last free identifier.
LEMMA SlotOfPut == ASSUME getID \in Counters, putID \in Counters
                   PROVE  Slot(putID) = Slot(getID + NumFree)
<1>1. Modulus \in Nat \ {0} /\ getID \in Int /\ putID \in Int
  BY IdQueueAssumption, SMT DEF Counters
<1>2. putID = putID + 0 /\ (putID = getID + NumFree \/ putID + Modulus = getID + NumFree)
  BY <1>1, CounterDistance, SMT DEF NumFree
<1>3. (putID + Modulus) % Modulus = putID
  <2>1. putID + Modulus = 1 * Modulus + putID /\ putID \in 0 .. Modulus - 1
    BY <1>1, SMT DEF Counters
  <2> QED BY <1>1, <2>1, ModUnique, SMT
<1>4. Slot(putID + 0) = Slot((putID + Modulus) + 0)
  <2>1. putID + Modulus \in Int /\ 0 \in Int
    BY <1>1, SMT
  <2>2. Slot(((putID + Modulus) % Modulus) + 0) = Slot((putID + Modulus) + 0)
    BY <2>1, SlotOfWrapped
  <2> QED BY <1>3, <2>2
<1>5. (putID + Modulus) + 0 = putID + Modulus
  BY <1>1, SMT
<1> QED BY <1>2, <1>4, <1>5

-----------------------------------------------------------------------------

Inv == TypeOK /\ RingHoldsFreeIds

LEMMA FreeAtInIds == ASSUME TypeOK, NEW k \in Int
                     PROVE  FreeAt(k) \in Ids
<1>1. getID + k \in Int
  BY IdQueueAssumption, SMT DEF TypeOK, Counters
<1>2. Slot(getID + k) \in 0 .. NumIds - 1
  BY <1>1, SlotInRing
<1> QED
  BY <1>2 DEF TypeOK, FreeAt

LEMMA InitInv == Init => Inv
<1> SUFFICES ASSUME Init PROVE Inv
  OBVIOUS
<1> USE DEF Init
<1>1. TypeOK
  <2>1. IDqueue \in [0 .. NumIds - 1 -> Ids]
    BY IdQueueAssumption, SMT DEF Ids
  <2>2. getID \in Counters /\ putID \in Counters
    BY IdQueueAssumption, SMT DEF Counters
  <2>3. IDinuse \in [Ids -> BOOLEAN]
    OBVIOUS
  <2> QED BY <2>1, <2>2, <2>3 DEF TypeOK
<1>2. NumFree = NumIds
  <2>1. getID \in Counters /\ putID \in Counters
    BY <1>1 DEF TypeOK
  <2>2. NumFree = IF putID >= getID THEN putID - getID ELSE putID - getID + Modulus
    BY <2>1, CounterDistance DEF NumFree
  <2> QED BY <2>2, IdQueueAssumption, SMT
<1>3. ASSUME NEW k \in 0 .. NumIds - 1 PROVE FreeAt(k) = k + 1
  <2>1. getID + k = k
    BY IdQueueAssumption, SMT
  <2>2. k % NumIds = k
    BY IdQueueAssumption, ModSmall
  <2> QED BY <2>1, <2>2, SMT DEF FreeAt, Slot
<1>4. /\ \A j, k \in 0 .. NumFree - 1 : FreeAt(j) = FreeAt(k) => j = k
      /\ \A k \in 0 .. NumFree - 1 : ~IDinuse[FreeAt(k)]
  <2>1. \A k \in 0 .. NumFree - 1 : FreeAt(k) \in Ids
    BY <1>1, <1>2, IdQueueAssumption, FreeAtInIds, SMT
  <2>2. \A k \in 0 .. NumFree - 1 : FreeAt(k) = k + 1
    BY <1>2, <1>3
  <2> HIDE DEF Init
  <2>3. \A j, k \in 0 .. NumFree - 1 : FreeAt(j) = FreeAt(k) => j = k
    BY <2>2, SMT
  <2>4. \A k \in 0 .. NumFree - 1 : ~IDinuse[FreeAt(k)]
    BY <2>1 DEF Init
  <2> QED BY <2>3, <2>4
<1>5. \A id \in Ids : \E k \in 0 .. NumFree - 1 : FreeAt(k) = id
  <2> TAKE id \in Ids
  <2>1. id - 1 \in 0 .. NumFree - 1
    BY <1>2, IdQueueAssumption, SMT DEF Ids
  <2>2. FreeAt(id - 1) = id
    BY <1>2, <1>3, <2>1, SMT DEF Ids
  <2> QED BY <2>1, <2>2
<1>6. NumFree <= NumIds
  BY <1>2, IdQueueAssumption, SMT
<1> HIDE DEF Init
<1> QED
  BY <1>1, <1>4, <1>5, <1>6 DEF Inv, RingHoldsFreeIds

\* request_ID() takes the first free identifier and renumbers the others.
LEMMA RequestEffect ==
    ASSUME Inv, RequestID
    PROVE  /\ TypeOK'
           /\ NumFree >= 1 /\ NumFree' = NumFree - 1 /\ NumFree \in Int
           /\ PeekID = FreeAt(0)
           /\ \A k \in Nat : FreeAt(k)' = FreeAt(k + 1)
<1> USE DEF Inv
<1>1. getID \in Counters /\ putID \in Counters /\ getID # putID
  BY DEF RequestID, TypeOK, PeekID
<1>2. getID' = Succ(getID) /\ putID' = putID /\ IDqueue' = IDqueue
  BY DEF RequestID
<1>3. getID' \in Counters /\ putID' \in Counters
  BY <1>1, <1>2, SuccInCounters
<1>4. PeekID = FreeAt(0)
  <2>1. getID + 0 = getID
    BY <1>1, IdQueueAssumption, SMT DEF Counters
  <2> QED BY <1>1, <2>1 DEF PeekID, FreeAt
<1>5. TypeOK'
  <2>1. PeekID \in Ids
    BY <1>4, FreeAtInIds
  <2> QED BY <1>2, <1>3, <2>1 DEF TypeOK, RequestID
<1>6. NumFree >= 1 /\ NumFree \in Int /\ NumFree' = NumFree - 1
  <2>1. NumFree' = (putID' - getID') % Modulus
    BY DEF NumFree
  <2>2. NumFree = IF putID >= getID THEN putID - getID ELSE putID - getID + Modulus
    BY <1>1, CounterDistance DEF NumFree
  <2>3. NumFree' = IF putID' >= getID' THEN putID' - getID' ELSE putID' - getID' + Modulus
    BY <1>3, <2>1, CounterDistance
  <2>4. getID' = IF getID = Modulus - 1 THEN 0 ELSE getID + 1
    BY <1>1, <1>2, SuccValue
  <2> HIDE DEF Inv
  <2> QED
    BY <1>1, <1>2, <2>2, <2>3, <2>4, IdQueueAssumption, SMT DEF Counters
<1>7. ASSUME NEW k \in Nat PROVE FreeAt(k)' = FreeAt(k + 1)
  BY <1>1, <1>2, <1>7, SlotSucc DEF FreeAt
<1> QED BY <1>4, <1>5, <1>6, <1>7

\* release_ID(id) puts id behind the last free identifier.
LEMMA ReleaseEffect ==
    ASSUME Inv, NEW id, ReleaseID(id)
    PROVE  /\ TypeOK'
           /\ id \in Ids /\ IDinuse[id]
           /\ NumFree \in 0 .. NumIds - 1 /\ NumFree' = NumFree + 1
           /\ \A k \in 0 .. NumFree - 1 : FreeAt(k)' = FreeAt(k)
           /\ \A k \in Int : k = NumFree => FreeAt(k)' = id
<1> DEFINE n == NumFree
<1>1. getID \in Counters /\ putID \in Counters
  BY DEF Inv, TypeOK
<1>2. /\ getID' = getID /\ putID' = Succ(putID)
      /\ IDqueue' = [IDqueue EXCEPT ![Slot(putID)] = id]
      /\ IDinuse' = [IDinuse EXCEPT ![id] = FALSE] /\ exited' = exited
  BY DEF ReleaseID
<1>3. id \in Ids /\ IDinuse[id] /\ NumFree # NumIds
  BY DEF ReleaseID, Illegal
<1>4. TypeOK'
  <2>1. putID' \in Counters
    BY <1>1, <1>2, SuccInCounters
  <2>2. IDqueue' \in [0 .. NumIds - 1 -> Ids] /\ IDinuse' \in [Ids -> BOOLEAN]
    BY <1>2, <1>3 DEF Inv, TypeOK
  <2> QED BY <1>1, <1>2, <2>1, <2>2 DEF Inv, TypeOK
<1>5. /\ n \in 0 .. NumIds - 1 /\ NumFree' = n + 1
      /\ getID \in Int /\ NumIds \in Nat \ {0}
  <2>1. NumFree \in 0 .. Modulus - 1 /\ NumFree <= NumIds
    BY <1>1, CounterDistance DEF NumFree, Inv, RingHoldsFreeIds
  <2>2. NumFree = IF putID >= getID THEN putID - getID ELSE putID - getID + Modulus
    BY <1>1, CounterDistance DEF NumFree
  <2>3. putID' \in Counters
    BY <1>4 DEF TypeOK
  <2>4. NumFree' = IF putID' >= getID THEN putID' - getID ELSE putID' - getID + Modulus
    BY <1>1, <1>2, <2>3, CounterDistance DEF NumFree
  <2>5. putID' = IF putID = Modulus - 1 THEN 0 ELSE putID + 1
    BY <1>1, <1>2, SuccValue
  <2> QED
    BY <1>1, <1>3, <2>1, <2>2, <2>4, <2>5, IdQueueAssumption, SMT DEF Counters
<1>6. Slot(putID) = Slot(getID + n) /\ Slot(putID) \in 0 .. NumIds - 1
  <2>1. putID \in Int
    BY <1>1, IdQueueAssumption, SMT DEF Counters
  <2> QED BY <1>1, <2>1, SlotOfPut, SlotInRing
<1>7. IDqueue \in [0 .. NumIds - 1 -> Ids]
  BY DEF Inv, TypeOK
<1> HIDE DEF n
<1>8. ASSUME NEW k \in 0 .. n - 1 PROVE FreeAt(k)' = FreeAt(k)
  <2>1. k \in 0 .. NumIds - 1 /\ k # n /\ getID + k \in Int
    BY <1>5, SMT
  <2>2. Slot(getID + k) # Slot(putID) /\ Slot(getID + k) \in 0 .. NumIds - 1
    BY <1>5, <1>6, <2>1, SlotsDistinct, SlotInRing
  <2> QED BY <1>2, <1>7, <2>2 DEF FreeAt
<1>9. ASSUME NEW k \in Int, k = n PROVE FreeAt(k)' = id
  <2>1. IDqueue'[Slot(getID + k)] = id
    BY <1>2, <1>6, <1>7, <1>9
  <2> QED BY <1>2, <2>1 DEF FreeAt
<1> QED BY <1>2, <1>3, <1>4, <1>5, <1>8, <1>9 DEF FreeAt, n

LEMMA RequestPreservesInv == Inv /\ RequestID => Inv'
<1> SUFFICES ASSUME Inv, RequestID PROVE Inv'
  OBVIOUS
<1>1. /\ TypeOK' /\ NumFree >= 1 /\ NumFree' = NumFree - 1 /\ NumFree \in Int
      /\ PeekID = FreeAt(0)
      /\ \A k \in Nat : FreeAt(k)' = FreeAt(k + 1)
  BY RequestEffect
<1>2. IDinuse' = [IDinuse EXCEPT ![FreeAt(0)] = TRUE]
  BY <1>1 DEF RequestID
<1> USE DEF Inv, RingHoldsFreeIds
<1>3. NumFree' <= NumIds
  BY <1>1, IdQueueAssumption, SMT
<1>4. \A j, k \in (0 .. NumFree - 1)' : FreeAt(j)' = FreeAt(k)' => j = k
  <2> SUFFICES ASSUME NEW j \in 0 .. NumFree' - 1, NEW k \in 0 .. NumFree' - 1,
                      FreeAt(j)' = FreeAt(k)'
               PROVE  j = k
    OBVIOUS
  <2>1. /\ j \in Nat /\ k \in Nat
        /\ j + 1 \in 0 .. NumFree - 1 /\ k + 1 \in 0 .. NumFree - 1
    BY <1>1, SMT
  <2>2. FreeAt(j + 1) = FreeAt(k + 1)
    BY <1>1, <2>1
  <2>3. j + 1 = k + 1
    BY <2>1, <2>2
  <2> QED BY <2>1, <2>3, SMT
<1>5. \A k \in (0 .. NumFree - 1)' : ~IDinuse'[FreeAt(k)']
  <2> SUFFICES ASSUME NEW k \in 0 .. NumFree' - 1 PROVE ~IDinuse'[FreeAt(k)']
    OBVIOUS
  <2>1. k \in Nat /\ k + 1 \in 0 .. NumFree - 1 /\ 0 \in 0 .. NumFree - 1 /\ k + 1 # 0
    BY <1>1, SMT
  <2>2. FreeAt(k)' = FreeAt(k + 1) /\ FreeAt(k + 1) # FreeAt(0)
    BY <1>1, <2>1
  <2>3. FreeAt(k + 1) \in Ids /\ ~IDinuse[FreeAt(k + 1)]
    BY <2>1, FreeAtInIds
  <2> QED BY <1>2, <2>2, <2>3 DEF TypeOK
<1>6. \A id \in Ids : ~IDinuse'[id] => \E k \in (0 .. NumFree - 1)' : FreeAt(k)' = id
  <2> SUFFICES ASSUME NEW id \in Ids, ~IDinuse'[id]
               PROVE  \E k \in 0 .. NumFree' - 1 : FreeAt(k)' = id
    OBVIOUS
  <2>1. FreeAt(0) \in Ids
    BY FreeAtInIds
  <2>2. id # FreeAt(0) /\ ~IDinuse[id]
    BY <1>2, <2>1 DEF TypeOK
  <2>3. PICK j \in 0 .. NumFree - 1 : FreeAt(j) = id
    BY <2>2
  <2>4. j # 0 /\ j - 1 \in Nat /\ j - 1 \in 0 .. NumFree' - 1 /\ (j - 1) + 1 = j
    BY <1>1, <2>2, <2>3, SMT
  <2>5. FreeAt(j - 1)' = FreeAt(j)
    BY <1>1, <2>4
  <2> QED BY <2>3, <2>4, <2>5
<1> QED BY <1>1, <1>3, <1>4, <1>5, <1>6

LEMMA ReleasePreservesInv == ASSUME NEW id, Inv, ReleaseID(id) PROVE Inv'
<1>1. /\ TypeOK' /\ id \in Ids /\ IDinuse[id]
      /\ NumFree \in 0 .. NumIds - 1 /\ NumFree' = NumFree + 1
      /\ \A k \in 0 .. NumFree - 1 : FreeAt(k)' = FreeAt(k)
      /\ \A k \in Int : k = NumFree => FreeAt(k)' = id
  BY ReleaseEffect
<1>2. IDinuse' = [IDinuse EXCEPT ![id] = FALSE]
  BY DEF ReleaseID
<1> USE DEF Inv, RingHoldsFreeIds
<1>3. NumFree' <= NumIds
  BY <1>1, IdQueueAssumption, SMT
<1>4. ASSUME NEW k \in 0 .. NumFree' - 1
      PROVE  \/ k \in 0 .. NumFree - 1 /\ FreeAt(k)' = FreeAt(k) /\ FreeAt(k) # id
                /\ ~IDinuse[FreeAt(k)]
             \/ k = NumFree /\ FreeAt(k)' = id
  <2>1. k \in Int /\ (k \in 0 .. NumFree - 1 \/ k = NumFree)
    BY <1>1, SMT
  <2> QED BY <1>1, <2>1
<1>5. \A j, k \in (0 .. NumFree - 1)' : FreeAt(j)' = FreeAt(k)' => j = k
  BY <1>4
<1>6. \A k \in (0 .. NumFree - 1)' : ~IDinuse'[FreeAt(k)']
  <2> SUFFICES ASSUME NEW k \in 0 .. NumFree' - 1 PROVE ~IDinuse'[FreeAt(k)']
    OBVIOUS
  <2>1. FreeAt(k) \in Ids
    BY <1>1, FreeAtInIds, SMT
  <2> QED BY <1>1, <1>2, <1>4, <2>1 DEF TypeOK
<1>7. \A i \in Ids : ~IDinuse'[i] => \E k \in (0 .. NumFree - 1)' : FreeAt(k)' = i
  <2> SUFFICES ASSUME NEW i \in Ids, ~IDinuse'[i]
               PROVE  \E k \in 0 .. NumFree' - 1 : FreeAt(k)' = i
    OBVIOUS
  <2>1. CASE i = id
    <3>1. NumFree \in 0 .. NumFree' - 1 /\ NumFree \in Int
      BY <1>1, SMT
    <3>2. PICK k \in 0 .. NumFree' - 1 : k = NumFree
      BY <3>1
    <3> QED BY <1>1, <2>1, <3>2, SMT
  <2>2. CASE i # id
    <3>1. ~IDinuse[i]
      BY <1>2, <2>2 DEF TypeOK
    <3>2. PICK k \in 0 .. NumFree - 1 : FreeAt(k) = i
      BY <3>1
    <3>3. k \in 0 .. NumFree' - 1
      BY <1>1, SMT
    <3> QED BY <1>1, <3>2, <3>3
  <2> QED BY <2>1, <2>2
<1> QED BY <1>1, <1>3, <1>5, <1>6, <1>7

LEMMA ExitPreservesInv == ASSUME NEW id, Inv, Exit(id) PROVE Inv'
  BY DEF Exit, Inv, TypeOK, RingHoldsFreeIds, NumFree, FreeAt, Slot

LEMMA NextPreservesInv == Inv /\ [Next]_vars => Inv'
<1> SUFFICES ASSUME Inv, [Next]_vars PROVE Inv'
  OBVIOUS
<1>1. CASE RequestID
  BY <1>1, RequestPreservesInv
<1>2. ASSUME NEW id \in 0 .. NumIds + 1, ReleaseID(id) PROVE Inv'
  BY <1>2, ReleasePreservesInv
<1>3. ASSUME NEW id \in 0 .. NumIds + 1, Exit(id) PROVE Inv'
  BY <1>3, ExitPreservesInv
<1>4. CASE UNCHANGED vars
  BY <1>4 DEF vars, Inv, TypeOK, RingHoldsFreeIds, NumFree, FreeAt, Slot
<1> QED BY <1>1, <1>2, <1>3, <1>4 DEF Next

\* In every reachable state the ring between the counters of server/id.c
\* holds exactly the identifiers that no player has, each of them once.
THEOREM RingSafe == Spec => [](TypeOK /\ RingHoldsFreeIds)
<1>1. Init => Inv
  BY InitInv
<1>2. Inv /\ [Next]_vars => Inv'
  BY NextPreservesInv
<1> QED BY <1>1, <1>2, PTL DEF Spec, Inv

-----------------------------------------------------------------------------

\* The free identifiers, read from the ring, are a sequence of identifiers.
LEMMA FreeIdsSeq == ASSUME Inv
                    PROVE  /\ FreeIds \in Seq(Ids) /\ Len(FreeIds) = NumFree
                           /\ NumFree \in 0 .. NumIds
                           /\ \A k \in 1 .. NumFree : FreeIds[k] = FreeAt(k - 1)
<1>1. NumFree \in 0 .. NumIds
  <2>1. NumFree \in 0 .. Modulus - 1 /\ NumFree <= NumIds
    BY CounterDistance DEF NumFree, Inv, TypeOK, RingHoldsFreeIds
  <2> QED BY <2>1, IdQueueAssumption, SMT
<1>2. \A k \in 1 .. NumFree : FreeAt(k - 1) \in Ids
  BY <1>1, FreeAtInIds, SMT DEF Inv
<1> QED BY <1>1, <1>2, IdQueueAssumption, SMT DEF FreeIds

LEMMA TailAsFunction ==
    ASSUME NEW S, NEW s \in Seq(S), Len(s) >= 1
    PROVE  Tail(s) = [k \in 1 .. Len(s) - 1 |-> s[k + 1]]
<1>1. s # <<>>
  BY EmptySeq, SMT
<1>2. /\ Tail(s) \in Seq(S) /\ Len(Tail(s)) = Len(s) - 1
      /\ \A k \in 1 .. Len(Tail(s)) : Tail(s)[k] = s[k + 1]
  BY <1>1, HeadTailProperties
<1>3. Tail(s) \in [1 .. Len(Tail(s)) -> S]
  BY <1>2, LenProperties
<1> QED BY <1>2, <1>3

LEMMA AppendAsFunction ==
    ASSUME NEW S, NEW s \in Seq(S), NEW e \in S
    PROVE  Append(s, e) = [k \in 1 .. Len(s) + 1 |-> IF k = Len(s) + 1 THEN e ELSE s[k]]
<1>1. /\ Append(s, e) \in Seq(S) /\ Len(Append(s, e)) = Len(s) + 1
      /\ \A k \in 1 .. Len(s) : Append(s, e)[k] = s[k]
      /\ Append(s, e)[Len(s) + 1] = e /\ Len(s) \in Nat
  BY AppendProperties, LenProperties
<1>2. Append(s, e) \in [1 .. Len(s) + 1 -> S]
  BY <1>1, LenProperties
<1>3. ASSUME NEW k \in 1 .. Len(s) + 1
      PROVE  Append(s, e)[k] = IF k = Len(s) + 1 THEN e ELSE s[k]
  <2>1. k = Len(s) + 1 \/ k \in 1 .. Len(s)
    BY <1>1, SMT
  <2> QED BY <1>1, <2>1, SMT
<1> QED BY <1>2, <1>3

LEMMA PoolInit == Init => Pool!Init
<1> SUFFICES ASSUME Init PROVE Pool!Init
  OBVIOUS
<1>1. Inv
  BY InitInv
<1>2. NumFree = NumIds
  <2>1. getID \in Counters /\ putID \in Counters
    BY <1>1 DEF Inv, TypeOK
  <2>2. NumFree = IF putID >= getID THEN putID - getID ELSE putID - getID + Modulus
    BY <2>1, CounterDistance DEF NumFree
  <2> QED BY <2>2, IdQueueAssumption, SMT DEF Init
<1>3. ASSUME NEW k \in Ids PROVE FreeAt(k - 1) = k
  <2>1. /\ k - 1 \in 0 .. NumIds - 1 /\ getID + (k - 1) = k - 1
        /\ (k - 1) + 1 = k
    BY IdQueueAssumption, SMT DEF Init, Ids
  <2>2. (k - 1) % NumIds = k - 1
    BY <2>1, IdQueueAssumption, ModSmall
  <2>3. FreeAt(k - 1) = IDqueue[k - 1]
    BY <2>1, <2>2 DEF FreeAt, Slot
  <2>4. IDqueue = [s \in 0 .. NumIds - 1 |-> s + 1]
    BY DEF Init
  <2>5. IDqueue[k - 1] = (k - 1) + 1
    BY <2>1, <2>4
  <2> QED BY <2>1, <2>3, <2>5
<1>4. FreeIds = [k \in Ids |-> k]
  BY <1>2, <1>3 DEF FreeIds, Ids
<1> QED BY <1>4 DEF Init, Pool!Init, Pool!Ids, Ids

LEMMA PoolRequest == Inv /\ RequestID => Pool!Request
<1> SUFFICES ASSUME Inv, RequestID PROVE Pool!Request
  OBVIOUS
<1>1. /\ NumFree >= 1 /\ NumFree' = NumFree - 1 /\ NumFree \in Int
      /\ \A k \in Nat : FreeAt(k)' = FreeAt(k + 1)
  BY RequestEffect
<1>2. /\ FreeIds \in Seq(Ids) /\ Len(FreeIds) = NumFree
      /\ \A k \in 1 .. NumFree : FreeIds[k] = FreeAt(k - 1)
  BY FreeIdsSeq
<1>3. FreeIds' = [k \in 1 .. NumFree - 1 |-> FreeAt(k)]
  <2>1. ASSUME NEW k \in 1 .. NumFree - 1 PROVE FreeAt(k - 1)' = FreeAt(k)
    <3>1. k - 1 \in Nat /\ (k - 1) + 1 = k
      BY <1>1, SMT
    <3> QED BY <1>1, <3>1
  <2> QED BY <1>1, <2>1 DEF FreeIds
<1>4. Tail(FreeIds) = [k \in 1 .. NumFree - 1 |-> FreeAt(k)]
  <2>1. Tail(FreeIds) = [k \in 1 .. NumFree - 1 |-> FreeIds[k + 1]]
    BY <1>1, <1>2, TailAsFunction
  <2>2. ASSUME NEW k \in 1 .. NumFree - 1 PROVE FreeIds[k + 1] = FreeAt(k)
    <3>1. k + 1 \in 1 .. NumFree /\ (k + 1) - 1 = k
      BY <1>1, SMT
    <3> QED BY <1>2, <3>1
  <2> QED BY <2>1, <2>2
<1>5. Len(FreeIds) > 0
  BY <1>1, <1>2, SMT
<1> QED BY <1>3, <1>4, <1>5 DEF RequestID, Pool!Request

LEMMA PoolRelease == ASSUME NEW id, Inv, ReleaseID(id) PROVE id \in Pool!Ids /\ Pool!Release(id)
<1>1. /\ id \in Ids /\ IDinuse[id]
      /\ NumFree \in 0 .. NumIds - 1 /\ NumFree' = NumFree + 1
      /\ \A k \in 0 .. NumFree - 1 : FreeAt(k)' = FreeAt(k)
      /\ \A k \in Int : k = NumFree => FreeAt(k)' = id
  BY ReleaseEffect
<1>2. /\ FreeIds \in Seq(Ids) /\ Len(FreeIds) = NumFree
      /\ \A k \in 1 .. NumFree : FreeIds[k] = FreeAt(k - 1)
  BY FreeIdsSeq
<1>3. id \notin Pool!FreeSet
  <2>1. ASSUME NEW k \in 1 .. Len(FreeIds) PROVE FreeIds[k] # id
    <3>1. k - 1 \in 0 .. NumFree - 1
      BY <1>1, <1>2, SMT
    <3>2. ~IDinuse[FreeAt(k - 1)]
      BY <3>1 DEF Inv, RingHoldsFreeIds
    <3> QED BY <1>1, <1>2, <3>2
  <2> QED BY <2>1 DEF Pool!FreeSet
<1>4. FreeIds' = [k \in 1 .. NumFree + 1 |-> IF k = NumFree + 1 THEN id ELSE FreeAt(k - 1)]
  <2>1. ASSUME NEW k \in 1 .. NumFree + 1
        PROVE  FreeAt(k - 1)' = IF k = NumFree + 1 THEN id ELSE FreeAt(k - 1)
    <3>1. CASE k = NumFree + 1
      <4>1. k - 1 \in Int /\ k - 1 = NumFree
        BY <1>1, <3>1, SMT
      <4> QED BY <1>1, <3>1, <4>1
    <3>2. CASE k # NumFree + 1
      <4>1. k - 1 \in 0 .. NumFree - 1
        BY <1>1, <3>2, SMT
      <4> QED BY <1>1, <3>2, <4>1
    <3> QED BY <3>1, <3>2
  <2> QED BY <1>1, <2>1 DEF FreeIds
<1>5. Append(FreeIds, id)
        = [k \in 1 .. NumFree + 1 |-> IF k = NumFree + 1 THEN id ELSE FreeAt(k - 1)]
  <2>1. Append(FreeIds, id)
          = [k \in 1 .. NumFree + 1 |-> IF k = NumFree + 1 THEN id ELSE FreeIds[k]]
    BY <1>1, <1>2, AppendAsFunction
  <2>2. ASSUME NEW k \in 1 .. NumFree + 1, k # NumFree + 1
        PROVE  FreeIds[k] = FreeAt(k - 1)
    BY <1>1, <1>2, <2>2, SMT
  <2> QED BY <2>1, <2>2
<1> QED BY <1>1, <1>3, <1>4, <1>5 DEF ReleaseID, Pool!Release, Pool!Ids, Ids

\* Every step of the ring is a step of the first-in first-out pool or leaves
\* it unchanged: server/id.c implements IdPool.
THEOREM RingImplementsPool == Spec => PoolSpec
<1>1. Init => Pool!Init
  BY PoolInit
<1>2. Inv /\ [Next]_vars => [Pool!Next]_Pool!poolVars
  <2> SUFFICES ASSUME Inv, [Next]_vars PROVE [Pool!Next]_Pool!poolVars
    OBVIOUS
  <2>1. CASE RequestID
    BY <2>1, PoolRequest DEF Pool!Next
  <2>2. ASSUME NEW id \in 0 .. NumIds + 1, ReleaseID(id) PROVE Pool!Next
    BY <2>2, PoolRelease DEF Pool!Next
  <2>3. ASSUME NEW id \in 0 .. NumIds + 1, Exit(id) PROVE Pool!Next
    <3>1. FreeIds' = FreeIds
      BY <2>3 DEF Exit, FreeIds, FreeAt, NumFree, Slot
    <3> QED BY <2>3, <3>1 DEF Exit, Pool!Next, Pool!Refuse
  <2>4. CASE UNCHANGED vars
    BY <2>4 DEF vars, Pool!poolVars, FreeIds, FreeAt, NumFree, Slot
  <2> QED BY <2>1, <2>2, <2>3, <2>4 DEF Next
<1>3. Spec => []Inv
  BY InitInv, NextPreservesInv, PTL DEF Spec
<1> QED BY <1>1, <1>2, <1>3, PTL DEF Spec, PoolSpec, Pool!Spec
=============================================================================

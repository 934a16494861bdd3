--------------------------- MODULE LoginQueueProofs ---------------------------
(***************************************************************************)
(* The game never gets more players than it has places for, though between *)
(* the offer of a connection and the login others leave, log in and ask.   *)
(* Each main loop counts connections that still listen with those that log *)
(* in and play, and offers one more when there is room for it.             *)
(* The queue keeps its shape and its order, and whoever is told to enter   *)
(* has a connection that listens.                                          *)
(***************************************************************************)
EXTENDS LoginQueue, FiniteSetTheorems, FunctionTheorems, SequenceTheorems,
        WellFoundedInduction, TLAPS

States == {"free", "listening", "login", "playing"}
Occupied == {c \in Clients : conn[c] # "free"}
Inv == conn \in [Clients -> States] /\ ConnectionsFit

LEMMA OccupiedFinite ==
    ASSUME NEW S, S \subseteq Clients
    PROVE  IsFiniteSet(S) /\ Cardinality(S) \in Nat
BY QueueAssumption, FS_Subset, FS_CardinalityType

\* Whoever had no connection has none.
LEMMA NoNewcomer ==
    ASSUME Inv, conn' \in [Clients -> States], \A c \in Clients : conn[c] = "free" => conn'[c] = "free"
    PROVE  Inv'
<1>1. Occupied' \subseteq Occupied /\ IsFiniteSet(Occupied)
  BY OccupiedFinite DEF Occupied
<1>2. Cardinality(Occupied') <= Cardinality(Occupied)
  BY <1>1, FS_Subset
<1>3. Cardinality(Occupied) \in Nat /\ Cardinality(Occupied') \in Nat /\ Limit \in Nat
  BY OccupiedFinite, QueueAssumption DEF Occupied
<1> QED BY <1>2, <1>3 DEF Inv, ConnectionsFit, Occupied

\* What becomes of the connections: those in S are new.
LEMMA ConnectionsTyped ==
    ASSUME Inv, NEW S, Connections(S)
    PROVE  /\ conn' \in [Clients -> States]
           /\ \A c \in Clients : conn'[c] # "free" =>
                c \in S \/ StillListens(c) \/ conn[c] \in {"login", "playing"}
BY DEF Connections, Inv, States

\* One more fits when there is room.
LEMMA OneMoreFits ==
    ASSUME Inv, NEW c, Room, Connections({c})
    PROVE  Inv'
<1> DEFINE Staying == {x \in Clients : conn[x] \in {"login", "playing"} \/ StillListens(x)}
<1>1. Cardinality(Staying) \in Nat /\ IsFiniteSet(Staying) /\ Cardinality(Staying) < Limit
      /\ Limit \in Nat
  BY OccupiedFinite, QueueAssumption DEF Room
<1>2. IsFiniteSet(Staying \cup {c}) /\ Cardinality(Staying \cup {c}) <= Cardinality(Staying) + 1
  <2>1. CASE c \in Staying
    <3>1. Staying \cup {c} = Staying
      BY <2>1
    <3> QED BY <1>1, <3>1
  <2>2. CASE c \notin Staying
    <3> HIDE DEF Staying
    <3> QED BY <1>1, <2>2, FS_AddElement
  <2> QED BY <2>1, <2>2
<1>3. Occupied' \subseteq Staying \cup {c}
  BY ConnectionsTyped DEF Occupied
<1>4. Cardinality(Occupied') <= Cardinality(Staying \cup {c})
  BY <1>2, <1>3, FS_Subset
<1>5. Cardinality(Occupied') \in Nat /\ Cardinality(Staying \cup {c}) \in Nat
  BY <1>2, OccupiedFinite, FS_CardinalityType DEF Occupied
<1>6. Cardinality(Occupied') <= Limit
  BY <1>1, <1>2, <1>4, <1>5
<1> QED BY <1>6, ConnectionsTyped DEF Inv, ConnectionsFit, Occupied

\* However the queue is gone through, a connection is only set up in one place.
LEMMA LoopOffers ==
    ASSUME Queue_loop
    PROVE  Connections({}) \/ (Room /\ \E c : Connections({c}))
<1> DEFINE q == Aged
           ports == IF \A i \in DOMAIN q : q[i].port THEN Len(q)
                    ELSE Min({i \in DOMAIN q : ~q[i].port}) - 1
           due == {i \in 1 .. ports : ~Gone(q[i]) /\ q[i].sent > AckDelay}
           head == Remaining(q, ports)
           next == ports + 1
           wakes == {i \in next .. Len(q) : Expired(q[i]) \/ q[i].sent >= WaitDelay}
           offers == next <= Len(q) /\ ~Expired(q[next]) /\ unqueued >= AckDelay /\ Room
           c == q[next].client
<1>1. ASSUME NEW x, NEW S, NEW n, Result(x, S, n) PROVE Connections(S)
  BY <1>1 DEF Result
<1>2. CASE due # {}
  <2>1. \E x, n : Result(x, {}, n)
    BY <1>2, Zenon DEF Queue_loop
  <2> QED BY <1>1, <2>1
<1>3. CASE due = {} /\ offers
  <2>1. \E x, n : Result(x, {c}, n) \/ Result(x, {}, n)
    BY <1>3, Zenon DEF Queue_loop
  <2> QED BY <1>1, <1>3, <2>1
<1>4. CASE due = {} /\ ~offers
  <2>1. \E x, n : Result(x, {}, n)
    BY <1>4, Zenon DEF Queue_loop
  <2> QED BY <1>1, <2>1
<1> QED BY <1>2, <1>3, <1>4

LEMMA StepFits == Inv /\ [Next]_vars => Inv'
<1> SUFFICES ASSUME Inv, [Next]_vars PROVE Inv'
  OBVIOUS
<1>1. CASE Main_loop
  <2>1. CASE Connections({})
    <3>1. \A c \in Clients : conn[c] = "free" => conn'[c] = "free"
      BY <2>1 DEF Connections, StillListens
    <3> QED BY <2>1, <3>1, ConnectionsTyped, NoNewcomer
  <2>2. ASSUME NEW c, Room, Connections({c}) PROVE Inv'
    BY <2>2, OneMoreFits
  <2> QED BY <1>1, <2>1, <2>2, LoopOffers DEF Main_loop
<1>2. ASSUME NEW c \in Clients, Contact(c) PROVE Inv'
  BY <1>2 DEF Contact, Inv, ConnectionsFit
<1>3. ASSUME NEW c \in Clients, Handle_listening(c) \/ Handle_login(c) \/ Destroy_connection(c)
      PROVE  Inv'
  <2>1. conn' \in [Clients -> States] /\ \A x \in Clients : conn[x] = "free" => conn'[x] = "free"
    BY <1>3 DEF Handle_listening, Handle_login, Destroy_connection, Inv, States
  <2> QED BY <2>1, NoNewcomer
<1>4. ASSUME NEW i \in DOMAIN queue, Queue_advance_player(i) PROVE Inv'
  BY <1>4 DEF Queue_advance_player, Inv, ConnectionsFit
<1>5. CASE UNCHANGED vars
  BY <1>5 DEF vars, Inv, ConnectionsFit
<1> QED BY <1>1, <1>2, <1>3, <1>4, <1>5 DEF Next

LEMMA InitFits == Init => Inv
<1> SUFFICES ASSUME Init PROVE Inv
  OBVIOUS
<1>1. Occupied = {} /\ conn \in [Clients -> States]
  BY DEF Init, Occupied, States
<1>2. Cardinality(Occupied) = 0 /\ Limit \in Nat
  BY <1>1, FS_EmptySet, QueueAssumption
<1> QED BY <1>1, <1>2 DEF Inv, ConnectionsFit, Occupied

\* Those who play, those who log in and those who have been offered a connection
\* never are more than there are places in the game (contact.c:727).
THEOREM GameNeverOverfull == Spec => []ConnectionsFit
<1>1. Inv => ConnectionsFit
  BY DEF Inv
<1> QED BY <1>1, InitFits, StepFits, PTL DEF Spec

-----------------------------------------------------------------------------
(* The queue keeps its shape.  What a main loop leaves of it is put        *)
(* together from parts of the queue, in their order (Part); those of the   *)
(* front have a login port (Ports), those of the rest wait (Waits).        *)

Entries == [client : Clients, port : BOOLEAN, sent : Nat, recv : Nat]

Distinct(s) == \A k, l \in 1 .. Len(s) : s[k].client = s[l].client => k = l
Ports(s) == \A k \in 1 .. Len(s) : s[k].port
Waits(s) == \A k \in 1 .. Len(s) : ~s[k].port
Ordered(s) == \A k, l \in 1 .. Len(s) : k < l /\ s[l].port => s[k].port
InOrder(q, s) ==
    \A k, j \in 1 .. Len(s), x, y \in 1 .. Len(q) :
        k < j /\ s[k].client = q[x].client /\ s[j].client = q[y].client => x < y
Part(q, lo, hi, s) ==
    /\ s \in Seq(Entries) /\ Distinct(s) /\ InOrder(q, s)
    /\ \A k \in 1 .. Len(s) : \E l \in lo .. hi : s[k].client = q[l].client
Shape(s) == s \in Seq(Entries) /\ Distinct(s) /\ Ordered(s)

\* Two neighbouring ranges of places in the queue.
Ranges(q, lo, m, n, hi) ==
    /\ q \in Seq(Entries) /\ Distinct(q)
    /\ {lo, n} \subseteq Nat /\ {m, hi} \subseteq Int
    /\ 1 <= lo /\ lo <= n /\ m < n /\ m <= hi /\ hi <= Len(q)

LEMMA JoinParts ==
    ASSUME NEW q, NEW lo, NEW m, NEW n, NEW hi, Ranges(q, lo, m, n, hi),
           NEW s, Part(q, lo, m, s), NEW u, Part(q, n, hi, u)
    PROVE  Part(q, lo, hi, s \o u) /\ Len(s \o u) = Len(s) + Len(u)
<1>0. /\ q \in Seq(Entries) /\ Distinct(q) /\ lo \in Nat /\ m \in Int /\ n \in Nat /\ hi \in Int
      /\ 1 <= lo /\ lo <= n /\ m < n /\ m <= hi /\ hi <= Len(q)
  BY DEF Ranges
<1> DEFINE r == s \o u
<1>1. s \in Seq(Entries) /\ u \in Seq(Entries) /\ Len(s) \in Nat /\ Len(u) \in Nat /\ Len(q) \in Nat
  BY <1>0, LenProperties DEF Part
<1>2. /\ r \in Seq(Entries) /\ Len(r) = Len(s) + Len(u)
      /\ \A k \in 1 .. Len(s) + Len(u) : r[k] = IF k <= Len(s) THEN s[k] ELSE u[k - Len(s)]
  BY <1>1, ConcatProperties
<1> HIDE DEF r
<1>3. \A k \in 1 .. Len(r) :
         \/ k \in 1 .. Len(s) /\ r[k] = s[k]
         \/ k > Len(s) /\ k - Len(s) \in 1 .. Len(u) /\ r[k] = u[k - Len(s)]
  BY <1>1, <1>2
<1>4. \A k \in 1 .. Len(s) : \E l \in lo .. m : s[k].client = q[l].client
  BY DEF Part
<1>5. \A k \in 1 .. Len(u) : \E l \in n .. hi : u[k].client = q[l].client
  BY DEF Part
<1>6. \A k \in 1 .. Len(s), j \in 1 .. Len(u) : s[k].client # u[j].client
  <2> SUFFICES ASSUME NEW k \in 1 .. Len(s), NEW j \in 1 .. Len(u), s[k].client = u[j].client
               PROVE  FALSE
    OBVIOUS
  <2>1. PICK x \in lo .. m : s[k].client = q[x].client
    BY <1>4
  <2>2. PICK y \in n .. hi : u[j].client = q[y].client
    BY <1>5
  <2>3. x \in 1 .. Len(q) /\ y \in 1 .. Len(q) /\ x # y
    BY <1>0, <1>1
  <2> QED BY <1>0, <2>1, <2>2, <2>3 DEF Distinct
<1>7. Distinct(r)
  <2> SUFFICES ASSUME NEW k \in 1 .. Len(r), NEW j \in 1 .. Len(r), r[k].client = r[j].client
               PROVE  k = j
    BY DEF Distinct
  <2>1. CASE k \in 1 .. Len(s) /\ r[k] = s[k] /\ j \in 1 .. Len(s) /\ r[j] = s[j]
    BY <2>1 DEF Part, Distinct
  <2>2. CASE /\ k > Len(s) /\ k - Len(s) \in 1 .. Len(u) /\ r[k] = u[k - Len(s)]
             /\ j > Len(s) /\ j - Len(s) \in 1 .. Len(u) /\ r[j] = u[j - Len(s)]
    <3>1. k - Len(s) = j - Len(s)
      BY <2>2 DEF Part, Distinct
    <3> QED BY <1>1, <3>1
  <2> QED BY <1>3, <1>6, <2>1, <2>2
<1>8. \A k \in 1 .. Len(r) : \E l \in lo .. hi : r[k].client = q[l].client
  <2> SUFFICES ASSUME NEW k \in 1 .. Len(r)
               PROVE  \E l \in lo .. hi : r[k].client = q[l].client
    OBVIOUS
  <2>1. CASE k \in 1 .. Len(s) /\ r[k] = s[k]
    <3>1. PICK x \in lo .. m : s[k].client = q[x].client
      BY <1>4, <2>1
    <3>2. x \in lo .. hi
      BY <1>0, <1>1
    <3> QED BY <2>1, <3>1, <3>2
  <2>2. CASE k - Len(s) \in 1 .. Len(u) /\ r[k] = u[k - Len(s)]
    <3>1. PICK x \in n .. hi : u[k - Len(s)].client = q[x].client
      BY <1>5, <2>2
    <3>2. x \in lo .. hi
      BY <1>0, <1>1
    <3> QED BY <2>2, <3>1, <3>2
  <2> QED BY <1>3, <2>1, <2>2
<1>9. InOrder(q, r)
  <2> SUFFICES ASSUME NEW k \in 1 .. Len(r), NEW j \in 1 .. Len(r), k < j,
                      NEW x \in 1 .. Len(q), NEW y \in 1 .. Len(q),
                      r[k].client = q[x].client, r[j].client = q[y].client
               PROVE  x < y
    BY DEF InOrder
  <2>1. CASE k \in 1 .. Len(s) /\ r[k] = s[k] /\ j \in 1 .. Len(s) /\ r[j] = s[j]
    BY <2>1 DEF Part, InOrder
  <2>2. CASE /\ k > Len(s) /\ k - Len(s) \in 1 .. Len(u) /\ r[k] = u[k - Len(s)]
             /\ j > Len(s) /\ j - Len(s) \in 1 .. Len(u) /\ r[j] = u[j - Len(s)]
    <3> DEFINE a == k - Len(s)
               b == j - Len(s)
    <3>1. a < b
      BY <1>1, <1>2
    <3>2. /\ a \in 1 .. Len(u) /\ b \in 1 .. Len(u)
          /\ u[a].client = q[x].client /\ u[b].client = q[y].client
      BY <2>2
    <3> HIDE DEF a, b
    <3> QED BY <3>1, <3>2 DEF Part, InOrder
  <2>3. CASE /\ k \in 1 .. Len(s) /\ r[k] = s[k]
             /\ j - Len(s) \in 1 .. Len(u) /\ r[j] = u[j - Len(s)]
    <3>1. PICK a \in lo .. m : s[k].client = q[a].client
      BY <1>4, <2>3
    <3>2. PICK b \in n .. hi : u[j - Len(s)].client = q[b].client
      BY <1>5, <2>3
    <3>3. a \in 1 .. Len(q) /\ b \in 1 .. Len(q) /\ a < b
      BY <1>0, <1>1
    <3>4. a = x /\ b = y
      BY <1>0, <2>3, <3>1, <3>2, <3>3 DEF Distinct
    <3> QED BY <3>3, <3>4
  <2>4. ~(k > Len(s) /\ j \in 1 .. Len(s))
    BY <1>1, <1>2
  <2> QED BY <1>3, <2>1, <2>2, <2>3, <2>4
<1> QED BY <1>2, <1>7, <1>8, <1>9 DEF Part, r

LEMMA JoinOrders ==
    ASSUME NEW s \in Seq(Entries), NEW u \in Seq(Entries)
    PROVE  /\ Ports(s) /\ Ports(u) => Ports(s \o u)
           /\ Waits(s) /\ Waits(u) => Waits(s \o u)
           /\ Ports(s) /\ Ordered(u) => Ordered(s \o u)
           /\ Ordered(s) /\ Waits(u) => Ordered(s \o u)
<1> DEFINE r == s \o u
<1>1. /\ r \in Seq(Entries) /\ Len(r) = Len(s) + Len(u) /\ Len(s) \in Nat /\ Len(u) \in Nat
      /\ \A k \in 1 .. Len(s) + Len(u) : r[k] = IF k <= Len(s) THEN s[k] ELSE u[k - Len(s)]
  BY ConcatProperties, LenProperties
<1> HIDE DEF r
<1>2. \A k \in 1 .. Len(r) :
         \/ k \in 1 .. Len(s) /\ r[k] = s[k]
         \/ k > Len(s) /\ k - Len(s) \in 1 .. Len(u) /\ r[k] = u[k - Len(s)]
  BY <1>1
<1>3. Ports(s) /\ Ports(u) => Ports(r)
  BY <1>2 DEF Ports
<1>4. Waits(s) /\ Waits(u) => Waits(r)
  BY <1>2 DEF Waits
<1>5. ASSUME Ports(s), Ordered(u) PROVE Ordered(r)
  <2> SUFFICES ASSUME NEW k \in 1 .. Len(r), NEW l \in 1 .. Len(r), k < l, r[l].port
               PROVE  r[k].port
    BY DEF Ordered
  <2>1. CASE k \in 1 .. Len(s) /\ r[k] = s[k]
    BY <1>5, <2>1 DEF Ports
  <2>2. CASE k > Len(s) /\ k - Len(s) \in 1 .. Len(u) /\ r[k] = u[k - Len(s)]
    <3>1. l - Len(s) \in 1 .. Len(u) /\ r[l] = u[l - Len(s)] /\ k - Len(s) < l - Len(s)
      BY <1>1, <1>2, <2>2
    <3> QED BY <1>5, <2>2, <3>1 DEF Ordered
  <2> QED BY <1>2, <2>1, <2>2
<1>6. ASSUME Ordered(s), Waits(u) PROVE Ordered(r)
  <2> SUFFICES ASSUME NEW k \in 1 .. Len(r), NEW l \in 1 .. Len(r), k < l, r[l].port
               PROVE  r[k].port
    BY DEF Ordered
  <2>1. l \in 1 .. Len(s) /\ r[l] = s[l]
    BY <1>2, <1>6 DEF Waits
  <2>2. k \in 1 .. Len(s) /\ r[k] = s[k]
    BY <1>1, <1>2, <2>1
  <2> QED BY <1>6, <2>1, <2>2 DEF Ordered
<1> QED BY <1>3, <1>4, <1>5, <1>6 DEF r

\* A piece of the queue, and one entry with something in it changed.
LEMMA PieceIsPart ==
    ASSUME NEW q \in Seq(Entries), Distinct(q), NEW lo \in Nat, 1 <= lo,
           NEW hi \in Int, hi <= Len(q)
    PROVE  /\ Part(q, lo, hi, SubSeq(q, lo, hi))
           /\ Len(SubSeq(q, lo, hi)) = IF lo <= hi THEN hi - lo + 1 ELSE 0
           /\ \A k \in 1 .. Len(SubSeq(q, lo, hi)) :
                 lo + k - 1 \in lo .. hi /\ SubSeq(q, lo, hi)[k] = q[lo + k - 1]
<1> DEFINE s == SubSeq(q, lo, hi)
<1>1. /\ s \in Seq(Entries) /\ Len(s) = (IF lo <= hi THEN hi - lo + 1 ELSE 0)
      /\ \A i \in 1 .. hi - lo + 1 : s[i] = q[lo + i - 1]
  <2>1. \A i \in lo .. hi : i \in 1 .. Len(q)
    BY LenProperties
  <2>2. \A i \in lo .. hi : q[i] \in Entries
    BY <2>1, ElementOfSeq
  <2> QED BY <2>2, SubSeqProperties
<1> HIDE DEF s
<1>2. \A k \in 1 .. Len(s) : k \in 1 .. hi - lo + 1 /\ lo + k - 1 \in lo .. hi
  BY <1>1
<1>3. Distinct(s)
  <2> SUFFICES ASSUME NEW k \in 1 .. Len(s), NEW l \in 1 .. Len(s), s[k].client = s[l].client
               PROVE  k = l
    BY DEF Distinct
  <2>1. lo + k - 1 \in 1 .. Len(q) /\ lo + l - 1 \in 1 .. Len(q)
    BY <1>2, LenProperties
  <2>2. lo + k - 1 = lo + l - 1
    BY <1>1, <1>2, <2>1 DEF Distinct
  <2> QED BY <2>2
<1>4. \A k \in 1 .. Len(s) : \E l \in lo .. hi : s[k].client = q[l].client
  BY <1>1, <1>2
<1>5. InOrder(q, s)
  <2> SUFFICES ASSUME NEW k \in 1 .. Len(s), NEW j \in 1 .. Len(s), k < j,
                      NEW x \in 1 .. Len(q), NEW y \in 1 .. Len(q),
                      s[k].client = q[x].client, s[j].client = q[y].client
               PROVE  x < y
    BY DEF InOrder
  <2>1. lo + k - 1 \in 1 .. Len(q) /\ lo + j - 1 \in 1 .. Len(q)
    BY <1>2, LenProperties
  <2>2. lo + k - 1 = x /\ lo + j - 1 = y
    BY <1>1, <1>2, <2>1 DEF Distinct
  <2> QED BY <2>2
<1> QED BY <1>1, <1>2, <1>3, <1>4, <1>5 DEF Part, s

LEMMA EntryIsPart ==
    ASSUME NEW q, NEW i \in Nat, NEW e \in Entries, e.client = q[i].client
    PROVE  Part(q, i, i, <<e>>) /\ Len(<<e>>) = 1 /\ <<e>>[1] = e
<1>1. <<e>> \in Seq(Entries) /\ Len(<<e>>) = 1 /\ <<e>>[1] = e
  OBVIOUS
<1>2. i \in i .. i
  OBVIOUS
<1>3. InOrder(q, <<e>>)
  BY <1>1 DEF InOrder
<1> QED BY <1>1, <1>2, <1>3 DEF Part, Distinct

LEMMA JoinEntry ==
    ASSUME NEW q \in Seq(Entries), Distinct(q), NEW m \in Int, NEW i \in Nat,
           1 <= i, m < i, i <= Len(q), NEW s, Part(q, 1, m, s),
           NEW e \in Entries, e.client = q[i].client
    PROVE  Part(q, 1, i, s \o <<e>>) /\ Len(s \o <<e>>) = Len(s) + 1
<1> DEFINE u == <<e>>
           one == 1
<1>1. Part(q, i, i, u) /\ Len(u) = 1
  BY EntryIsPart
<1>2. Ranges(q, one, m, i, i) /\ Part(q, one, m, s) /\ Part(q, i, i, u)
  BY <1>1 DEF Ranges
<1> HIDE DEF u, one
<1>3. Part(q, one, i, s \o u) /\ Len(s \o u) = Len(s) + Len(u)
  BY ONLY <1>2, JoinParts
<1> QED BY <1>1, <1>3 DEF one, u

LEMMA LeastNumber ==
    ASSUME NEW T \in SUBSET Nat, T # {}
    PROVE  Min(T) \in T /\ \A y \in T : Min(T) <= y
<1> DEFINE R == {ss \in Nat \X Nat : ss[1] < ss[2]}
<1>1. IsWellFoundedOn(R, Nat)
  BY NatLessThanWellFounded DEF OpToRel
<1>2. \E x \in T : \A y \in T : <<y, x>> \notin R
  <2> HIDE DEF R
  <2> QED BY <1>1, WFMin
<1>3. PICK x \in T : \A y \in T : <<y, x>> \notin R
  BY <1>2
<1>4. ASSUME NEW y \in T PROVE x <= y
  <2>1. x \in Nat /\ y \in Nat /\ ~(y < x)
    BY <1>3
  <2> QED BY ONLY <2>1, SMT
<1> QED BY <1>4 DEF Min

\* What is in T at first, and stays there with each turn, is there after the last.
LEMMA LoopInduction ==
    ASSUME NEW N \in Nat, NEW T, NEW after, <<0, after[0]>> \in T,
           \A k \in 1 .. N : <<k - 1, after[k - 1]>> \in T => <<k, after[k]>> \in T
    PROVE  <<N, after[N]>> \in T
<1> DEFINE Bad == {k \in 0 .. N : <<k, after[k]>> \notin T}
<1>1. SUFFICES ASSUME Bad # {} PROVE FALSE
  OBVIOUS
<1> DEFINE k == Min(Bad)
<1>2. k \in Bad /\ \A l \in Bad : k <= l
  <2>1. Bad \in SUBSET Nat
    OBVIOUS
  <2> HIDE DEF Bad
  <2> QED BY <1>1, <2>1, LeastNumber
<1> HIDE DEF k
<1>3. k # 0
  BY <1>2
<1>4. k \in 1 .. N /\ k - 1 \in 0 .. N /\ ~(k <= k - 1)
  BY <1>2, <1>3
<1>5. k - 1 \notin Bad
  BY <1>2, <1>4
<1> QED BY <1>2, <1>4, <1>5

\* The loop over the front of the queue can be run.
LEMMA LoopExists ==
    ASSUME NEW q, NEW N \in Nat
    PROVE  \E kept :
              /\ kept[0] = <<>> /\ Remaining(q, N) = kept[N]
              /\ \A k \in 1 .. N :
                    kept[k] = IF Gone(q[k]) THEN kept[k - 1] ELSE Append(kept[k - 1], q[k])
<1> DEFINE Turn(f, k) == IF k = 0 THEN <<>>
                         ELSE IF Gone(q[k]) THEN f[k - 1] ELSE Append(f[k - 1], q[k])
           Run(n) == \E f : f = [k \in 0 .. n |-> Turn(f, k)]
           Bad == {n \in 0 .. N : ~Run(n)}
<1>1. Run(0)
  <2> DEFINE f == [k \in 0 .. 0 |-> <<>>]
  <2>1. f = [k \in 0 .. 0 |-> Turn(f, k)]
    OBVIOUS
  <2> QED BY <2>1
<1>2. ASSUME NEW n \in 1 .. N, Run(n - 1)
      PROVE  Run(n)
  <2>1. PICK f : f = [k \in 0 .. n - 1 |-> Turn(f, k)]
    BY <1>2
  <2> DEFINE g == [k \in 0 .. n |-> IF k = n THEN Turn(f, n) ELSE f[k]]
  <2>2. ASSUME NEW k \in 0 .. n PROVE g[k] = Turn(g, k)
    <3>1. CASE k = 0
      <4>1. g[k] = f[k] /\ k \in 0 .. n - 1
        BY <3>1
      <4>2. f[k] = Turn(f, k)
        BY <2>1, <4>1
      <4> QED BY <3>1, <4>1, <4>2
    <3>2. CASE k = n
      <4>1. k # 0 /\ n - 1 \in 0 .. n /\ n - 1 # n
        BY <3>2
      <4>2. g[n - 1] = f[n - 1]
        BY <4>1
      <4> QED BY <3>2, <4>1, <4>2
    <3>3. CASE k # 0 /\ k # n
      <4>1. k \in 0 .. n - 1 /\ k - 1 \in 0 .. n /\ k - 1 # n /\ g[k] = f[k]
        BY <3>3
      <4>2. g[k - 1] = f[k - 1]
        BY <4>1
      <4>3. f[k] = Turn(f, k)
        BY <2>1, <4>1
      <4> QED BY <3>3, <4>1, <4>2, <4>3
    <3> QED BY <3>1, <3>2, <3>3
  <2>3. g = [k \in 0 .. n |-> Turn(g, k)]
    <3>1. g = [k \in 0 .. n |-> g[k]]
      OBVIOUS
    <3> HIDE DEF g, Turn
    <3> QED BY <2>2, <3>1
  <2> HIDE DEF g
  <2> QED BY <2>3
<1>3. Run(N)
  <2> HIDE DEF Run
  <2>1. SUFFICES ASSUME ~Run(N) PROVE FALSE
    OBVIOUS
  <2> DEFINE n == Min(Bad)
  <2>2. n \in Bad /\ \A m \in Bad : n <= m
    <3>1. N \in Bad /\ Bad \in SUBSET Nat
      BY <2>1
    <3> HIDE DEF Bad
    <3> QED BY <3>1, LeastNumber
  <2> HIDE DEF n
  <2>3. n # 0
    BY <1>1, <2>2
  <2>4. n \in 1 .. N /\ n - 1 \in 0 .. N /\ ~(n <= n - 1)
    BY <2>2, <2>3
  <2>5. Run(n - 1)
    BY <2>2, <2>4
  <2> QED BY <1>2, <2>2, <2>4, <2>5
<1> DEFINE kept == CHOOSE f : f = [k \in 0 .. N |-> Turn(f, k)]
<1>4. kept = [k \in 0 .. N |-> Turn(kept, k)]
  <2> HIDE DEF Turn
  <2> QED BY <1>3
<1>5. Remaining(q, N) = kept[N]
  BY DEF Remaining
<1> HIDE DEF kept
<1>6. \A k \in 0 .. N : kept[k] = Turn(kept, k)
  <2> HIDE DEF Turn
  <2> QED BY <1>4
<1>7. kept[0] = <<>>
  BY <1>6
<1>8. \A k \in 1 .. N : kept[k] = IF Gone(q[k]) THEN kept[k - 1] ELSE Append(kept[k - 1], q[k])
  BY <1>6
<1> QED BY <1>5, <1>7, <1>8

\* What is left of the front of the queue.
LEMMA RemainingIsPart ==
    ASSUME NEW q \in Seq(Entries), Distinct(q), NEW N \in Nat, N <= Len(q),
           \A i \in 1 .. N : q[i].port
    PROVE  LET s == Remaining(q, N)
           IN  Part(q, 1, N, s) /\ Ports(s) /\ Len(s) <= N /\ Len(s) \in Nat
<1> DEFINE Kept(k, s) == Part(q, 1, k, s) /\ Ports(s) /\ Len(s) <= k
           T == {p \in (0 .. N) \X Seq(Entries) : Kept(p[1], p[2])}
<1>1. PICK kept :
         /\ kept[0] = <<>> /\ Remaining(q, N) = kept[N]
         /\ \A k \in 1 .. N :
               kept[k] = IF Gone(q[k]) THEN kept[k - 1] ELSE Append(kept[k - 1], q[k])
  BY LoopExists
<1>2. <<0, kept[0]>> \in T
  <2>1. <<>> \in Seq(Entries) /\ Len(<<>>) = 0 /\ 0 \in 0 .. N /\ 1 .. 0 = {}
    OBVIOUS
  <2>2. Kept(0, <<>>)
    BY <2>1 DEF Part, Distinct, InOrder, Ports
  <2>3. kept[0] \in Seq(Entries) /\ Kept(0, kept[0])
    <3> HIDE DEF Kept
    <3> QED BY <1>1, <2>1, <2>2
  <2> HIDE DEF Kept
  <2> QED BY <2>1, <2>3
<1>3. ASSUME NEW k \in 1 .. N, <<k - 1, kept[k - 1]>> \in T
      PROVE  <<k, kept[k]>> \in T
  <2> DEFINE s == kept[k - 1]
  <2>1. Part(q, 1, k - 1, s) /\ Ports(s) /\ Len(s) <= k - 1 /\ k \in 0 .. N
    BY <1>3
  <2>2. s \in Seq(Entries) /\ Len(s) \in Nat
    BY <2>1, LenProperties DEF Part
  <2> HIDE DEF s
  <2>3. CASE Gone(q[k])
    <3>1. kept[k] = s
      BY <1>1, <2>3 DEF s
    <3>2. 1 .. k - 1 \subseteq 1 .. k
      OBVIOUS
    <3>3. Kept(k, s)
      BY <2>1, <2>2, <3>2 DEF Part
    <3> HIDE DEF Kept
    <3> QED BY <2>1, <2>2, <3>1, <3>3
  <2>4. CASE ~Gone(q[k])
    <3> DEFINE u == <<q[k]>>
    <3>1. kept[k] = Append(s, q[k])
      BY <1>1, <2>4 DEF s
    <3>2. k \in 1 .. Len(q) /\ q[k] \in Entries /\ k \in Nat /\ k <= Len(q)
      <4>1. k \in 1 .. Len(q)
        BY LenProperties
      <4> QED BY <4>1, ElementOfSeq
    <3>3. kept[k] = s \o u
      BY <2>2, <3>1, <3>2, AppendIsConcat
    <3>4. Part(q, k, k, u) /\ Len(u) = 1 /\ u[1] = q[k]
      BY <3>2, EntryIsPart
    <3>5. Ports(u) /\ u \in Seq(Entries)
      BY <3>4 DEF Ports, Part
    <3> HIDE DEF u
    <3>6. Part(q, 1, k, s \o u) /\ Len(s \o u) = Len(s) + 1
      <4> DEFINE m == k - 1
      <4>1. m \in Int /\ k \in Nat /\ 1 <= k /\ m < k /\ k <= Len(q) /\ Part(q, 1, m, s)
        BY <2>1, <3>2
      <4> HIDE DEF m
      <4> QED BY <3>2, <4>1, JoinEntry DEF u
    <3>7. Ports(s \o u)
      BY <2>1, <2>2, <3>5, JoinOrders
    <3>8. Kept(k, s \o u) /\ s \o u \in Seq(Entries)
      BY <2>1, <2>2, <3>2, <3>6, <3>7 DEF Part
    <3> HIDE DEF Kept
    <3> QED BY <2>1, <3>3, <3>8
  <2> QED BY <2>3, <2>4
<1>4. <<N, kept[N]>> \in T
  <2> HIDE DEF T
  <2> QED BY <1>2, <1>3, LoopInduction
<1>5. Kept(N, Remaining(q, N))
  BY <1>1, <1>4
<1> QED BY <1>5, LenProperties DEF Part

\* The three ways in which the main loop puts a queue together.
LEMMA WithEntry ==
    ASSUME NEW q, Shape(q), NEW i \in 1 .. Len(q), \A j \in 1 .. i - 1 : q[j].port,
           NEW e \in Entries, e.client = q[i].client, e.port
    PROVE  LET s == Remaining(q, i - 1)
               r == s \o <<e>> \o Without(q, i)
           IN  /\ Shape(r) /\ InOrder(q, r)
               /\ Len(r) = Len(q) - (i - 1 - Len(s)) /\ i - 1 - Len(s) \in Nat
<1> DEFINE m == i - 1
           n == i + 1
           s == Remaining(q, m)
           t == s \o <<e>>
           hi == Len(q)
           u == SubSeq(q, n, hi)
<1>1. q \in Seq(Entries) /\ Distinct(q) /\ Ordered(q)
  BY DEF Shape
<1>2. /\ i \in Nat /\ m \in Nat /\ n \in Nat /\ hi \in Nat /\ 1 <= i /\ m < i /\ i <= hi
      /\ m <= Len(q) /\ 1 <= n /\ i < n /\ hi <= Len(q) /\ i <= Len(q) /\ i \in Int /\ hi \in Int
  BY <1>1, LenProperties
<1>3. Part(q, 1, m, s) /\ Ports(s) /\ Len(s) <= m /\ Len(s) \in Nat
  <2> HIDE DEF m
  <2> QED BY <1>1, <1>2, RemainingIsPart DEF m
<1>4. Part(q, 1, i, t) /\ Len(t) = Len(s) + 1
  <2> HIDE DEF m, s
  <2> QED BY <1>1, <1>2, <1>3, JoinEntry
<1>5. /\ Part(q, n, hi, u) /\ Len(u) = Len(q) - i
      /\ \A k \in 1 .. Len(u) : n + k - 1 \in n .. hi /\ u[k] = q[n + k - 1]
  <2>1. /\ Part(q, n, hi, SubSeq(q, n, hi))
        /\ Len(SubSeq(q, n, hi)) = IF n <= hi THEN hi - n + 1 ELSE 0
        /\ \A k \in 1 .. Len(SubSeq(q, n, hi)) :
              n + k - 1 \in n .. hi /\ SubSeq(q, n, hi)[k] = q[n + k - 1]
    <3> HIDE DEF n, hi
    <3> QED BY <1>1, <1>2, PieceIsPart
  <2> QED BY <1>2, <2>1
<1>6. Ordered(u)
  <2> SUFFICES ASSUME NEW k \in 1 .. Len(u), NEW l \in 1 .. Len(u), k < l, u[l].port
               PROVE  u[k].port
    BY DEF Ordered
  <2>1. n + k - 1 \in 1 .. Len(q) /\ n + l - 1 \in 1 .. Len(q) /\ n + k - 1 < n + l - 1
    BY <1>2, <1>5
  <2> QED BY <1>1, <1>5, <2>1 DEF Ordered
<1>7. Ports(<<e>>) /\ <<e>> \in Seq(Entries)
  BY DEF Ports
<1> DEFINE one == 1
<1>8. Part(q, one, i, t) /\ Part(q, n, hi, u) /\ Ranges(q, one, i, n, hi)
  BY <1>1, <1>2, <1>4, <1>5 DEF Ranges
<1> HIDE DEF m, n, s, t, hi, u, one
<1>9. Part(q, one, hi, t \o u) /\ Len(t \o u) = Len(t) + Len(u)
  BY ONLY <1>8, JoinParts
<1>10. Ports(t) /\ t \in Seq(Entries) /\ s \in Seq(Entries) /\ u \in Seq(Entries)
  BY <1>3, <1>4, <1>5, <1>7, JoinOrders DEF Part, t
<1>11. Ordered(t \o u)
  BY <1>6, <1>10, JoinOrders
<1>12. Shape(t \o u) /\ InOrder(q, t \o u)
  BY <1>9, <1>11 DEF Shape, Part
<1>13. Len(t \o u) = Len(q) - (m - Len(s)) /\ m - Len(s) \in Nat
  BY <1>2, <1>3, <1>4, <1>5, <1>9 DEF m, hi
<1> QED BY <1>12, <1>13 DEF Without, m, n, s, t, hi, u

\* Those who wait from place n on go on waiting, behind what is left before them.
LEMMA WithRest ==
    ASSUME NEW q, Shape(q), NEW t, NEW m \in Int, Part(q, 1, m, t), Ordered(t),
           NEW n \in Nat, 1 <= n, m < n, m <= Len(q), n <= Len(q) + 1,
           \A j \in n .. Len(q) : ~q[j].port
    PROVE  LET r == t \o Without(q, n - 1)
           IN  /\ Shape(r) /\ InOrder(q, r)
               /\ Len(r) = Len(t) + Len(q) - n + 1 /\ Len(t) \in Nat
<1> DEFINE one == 1
           hi == Len(q)
           u == SubSeq(q, n, hi)
           r == t \o u
<1>1. q \in Seq(Entries) /\ Distinct(q) /\ hi \in Nat /\ t \in Seq(Entries) /\ Len(t) \in Nat
  BY LenProperties DEF Shape, Part
<1>2. /\ Part(q, n, hi, u) /\ Len(u) = (IF n <= hi THEN hi - n + 1 ELSE 0)
      /\ \A k \in 1 .. Len(u) : n + k - 1 \in n .. hi /\ u[k] = q[n + k - 1]
  <2>1. hi \in Int /\ hi <= Len(q)
    BY <1>1
  <2> HIDE DEF hi
  <2> QED BY <1>1, <2>1, PieceIsPart
<1>3. Waits(u) /\ u \in Seq(Entries)
  BY <1>2 DEF Waits, Part
<1>4. Part(q, one, m, t) /\ Part(q, n, hi, u) /\ Ranges(q, one, m, n, hi)
  BY <1>1, <1>2 DEF Ranges
<1>5. Len(u) = Len(q) - n + 1
  BY <1>1, <1>2
<1> HIDE DEF one, hi, u
<1>6. Part(q, one, hi, t \o u) /\ Len(t \o u) = Len(t) + Len(u)
  BY ONLY <1>4, JoinParts
<1>7. Ordered(t \o u)
  BY <1>1, <1>3, JoinOrders
<1>8. Shape(r) /\ InOrder(q, r) /\ Len(r) = Len(t) + Len(q) - n + 1
  <2>1. Len(q) \in Nat /\ Len(u) \in Int
    BY <1>1, <1>5 DEF hi
  <2> QED BY <1>1, <1>5, <1>6, <1>7, <2>1 DEF Shape, Part
<1>9. Without(q, n - 1) = u
  <2>1. n - 1 + 1 = n
    OBVIOUS
  <2> QED BY <2>1 DEF Without, u, hi
<1> QED BY <1>1, <1>8, <1>9

\* The front, and those behind it up to place i.
LEMMA WithBetween ==
    ASSUME NEW q, Shape(q), NEW m \in Nat, m <= Len(q), \A j \in 1 .. m : q[j].port,
           \A j \in m + 1 .. Len(q) : ~q[j].port, NEW i \in m + 1 .. Len(q)
    PROVE  LET s == Remaining(q, m)
               t == s \o SubSeq(q, m + 1, i - 1)
           IN  Part(q, 1, i - 1, t) /\ Ordered(t) /\ Len(t) = Len(s) + i - 1 - m
<1> DEFINE one == 1
           n == m + 1
           hi == i - 1
           s == Remaining(q, m)
           u == SubSeq(q, n, hi)
<1>1. q \in Seq(Entries) /\ Distinct(q) /\ Len(q) \in Nat
  BY LenProperties DEF Shape
<1>2. /\ i \in Nat /\ n \in Nat /\ hi \in Int /\ 1 <= n /\ m <= hi /\ hi <= Len(q)
      /\ (IF n <= hi THEN hi - n + 1 ELSE 0) = i - 1 - m
  BY <1>1
<1>3. Part(q, 1, m, s) /\ Ports(s) /\ Len(s) \in Nat /\ s \in Seq(Entries)
  BY <1>1, RemainingIsPart DEF Part
<1>4. /\ Part(q, n, hi, u) /\ Len(u) = (IF n <= hi THEN hi - n + 1 ELSE 0)
      /\ \A k \in 1 .. Len(u) : n + k - 1 \in n .. hi /\ u[k] = q[n + k - 1]
  <2> HIDE DEF n, hi
  <2> QED BY <1>1, <1>2, PieceIsPart
<1>5. Waits(u) /\ u \in Seq(Entries)
  <2>1. \A k \in 1 .. Len(u) : n + k - 1 \in m + 1 .. Len(q)
    BY <1>1, <1>2, <1>4
  <2> QED BY <1>4, <2>1 DEF Waits, Part
<1>6. Part(q, one, m, s) /\ Part(q, n, hi, u) /\ Ranges(q, one, m, n, hi)
  BY <1>1, <1>2, <1>3, <1>4 DEF Ranges
<1> HIDE DEF one, n, hi, s, u
<1>7. Part(q, one, hi, s \o u) /\ Len(s \o u) = Len(s) + Len(u)
  BY ONLY <1>6, JoinParts
<1>8. Ordered(s \o u)
  <2>1. Ordered(u)
    BY <1>5 DEF Waits, Ordered
  <2> QED BY <1>3, <1>5, <2>1, JoinOrders
<1>9. Len(s \o u) = Len(s) + i - 1 - m
  BY <1>2, <1>3, <1>4, <1>7
<1> QED BY <1>7, <1>8, <1>9 DEF one, n, hi, s, u

-----------------------------------------------------------------------------
(* The invariant of the queue.                                             *)

QInv ==
    /\ Shape(queue) /\ NumQueuedPlayers = Len(queue) /\ Len(queue) <= MaxQueuedPlayers
    /\ listening \in [Clients -> 0 .. ListenTimeout] /\ unqueued \in 0 .. AckDelay + 1

LEMMA Bounds ==
    /\ MaxQueuedPlayers \in Nat /\ MaxQueuedPlayers >= 1
    /\ {CheckDelay, AckDelay, WaitDelay, ListenTimeout, RecvTimeout} \subseteq Nat
BY QueueAssumption

LEMMA OlderIsAge ==
    ASSUME NEW age \in Nat, NEW delay \in Nat
    PROVE  Older(age, delay) \in 0 .. delay + 1
<1> DEFINE T == {age + 1, delay + 1}
<1>1. T \in SUBSET Nat /\ T # {} /\ delay + 1 \in T
  OBVIOUS
<1>2. Min(T) \in Nat /\ Min(T) <= delay + 1
  <2> HIDE DEF T
  <2> QED BY <1>1, LeastNumber
<1> QED BY <1>2 DEF Older

LEMMA AgedShape ==
    ASSUME QInv
    PROVE  /\ Shape(Aged) /\ Len(Aged) = Len(queue) /\ DOMAIN Aged = 1 .. Len(queue)
           /\ \A i \in 1 .. Len(queue) : Aged[i].client = queue[i].client
<1>1. queue \in Seq(Entries) /\ Distinct(queue) /\ Ordered(queue)
  BY DEF QInv, Shape
<1>2. DOMAIN queue = 1 .. Len(queue) /\ Len(queue) \in Nat /\ \A i \in 1 .. Len(queue) : queue[i] \in Entries
  BY <1>1, LenProperties, ElementOfSeq
<1>3. ASSUME NEW i \in 1 .. Len(queue)
      PROVE  /\ Aged[i] \in Entries
             /\ Aged[i].client = queue[i].client /\ Aged[i].port = queue[i].port
  <2>1. Aged[i] = [queue[i] EXCEPT !.sent = Older(@, WaitDelay), !.recv = Older(@, RecvTimeout)]
    BY <1>2 DEF Aged
  <2>2. queue[i].sent \in Nat /\ queue[i].recv \in Nat /\ queue[i] \in Entries
    BY <1>2 DEF Entries
  <2>3. Older(queue[i].sent, WaitDelay) \in Nat /\ Older(queue[i].recv, RecvTimeout) \in Nat
    <3>1. WaitDelay \in Nat /\ RecvTimeout \in Nat
      BY Bounds
    <3>2. /\ Older(queue[i].sent, WaitDelay) \in 0 .. WaitDelay + 1
          /\ Older(queue[i].recv, RecvTimeout) \in 0 .. RecvTimeout + 1
      BY <2>2, <3>1, OlderIsAge
    <3> QED BY <3>1, <3>2
  <2> QED BY <2>1, <2>2, <2>3 DEF Entries
<1>4. Aged \in [1 .. Len(queue) -> Entries]
  BY <1>2, <1>3 DEF Aged
<1>5. Aged \in Seq(Entries)
  BY <1>2, <1>4, SeqDef
<1>6. DOMAIN Aged = 1 .. Len(queue) /\ Len(Aged) = Len(queue)
  <2>1. DOMAIN Aged = 1 .. Len(queue)
    BY <1>4
  <2>2. DOMAIN Aged = 1 .. Len(Aged) /\ Len(Aged) \in Nat
    BY <1>5, LenProperties
  <2> QED BY <1>2, <2>1, <2>2
<1>7. Distinct(Aged) /\ Ordered(Aged)
  BY <1>1, <1>3, <1>6 DEF Distinct, Ordered
<1> QED BY <1>3, <1>5, <1>6, <1>7 DEF Shape

\* What a loop leaves is the queue, and the counter goes along.
LEMMA ResultInv ==
    ASSUME QInv, NEW q, NEW x, NEW S, NEW n \in Nat, Shape(x), InOrder(q, x),
           Len(x) = Len(queue) - n, Result(x, S, n)
    PROVE  QInv' /\ InOrder(q, queue')
<1>1. queue \in Seq(Entries) /\ Len(queue) \in Nat
  BY LenProperties DEF QInv, Shape
<1>2. queue' = x /\ NumQueuedPlayers' = Len(x) /\ Len(x) <= MaxQueuedPlayers
  BY <1>1, Bounds DEF QInv, Result
<1>3. unqueued' \in 0 .. AckDelay + 1
  <2>1. unqueued \in Nat /\ AckDelay \in Nat
    BY Bounds DEF QInv
  <2>2. Older(unqueued, AckDelay) \in 0 .. AckDelay + 1
    BY ONLY <2>1, OlderIsAge
  <2>3. 0 \in 0 .. AckDelay + 1
    BY ONLY <2>1
  <2> QED BY <2>2, <2>3 DEF Result
<1>4. listening' \in [Clients -> 0 .. ListenTimeout]
  <2>1. ListenTimeout \in Nat
    BY Bounds
  <2> QED BY <2>1 DEF Result, Connections, QInv, StillListens
<1>5. QInv'
  BY <1>2, <1>3, <1>4 DEF QInv
<1>6. InOrder(q, queue')
  BY <1>2
<1> QED BY <1>5, <1>6

\* Those with a login port are the first.
LEMMA FrontFirst ==
    ASSUME NEW q, Shape(q), DOMAIN q = 1 .. Len(q)
    PROVE  LET ports == IF \A i \in DOMAIN q : q[i].port THEN Len(q)
                        ELSE Min({i \in DOMAIN q : ~q[i].port}) - 1
           IN  /\ ports \in Nat /\ ports <= Len(q)
               /\ \A i \in 1 .. ports : q[i].port
               /\ \A i \in ports + 1 .. Len(q) : ~q[i].port
<1>1. q \in Seq(Entries) /\ Ordered(q) /\ Len(q) \in Nat
  BY LenProperties DEF Shape
<1>2. CASE \A i \in DOMAIN q : q[i].port
  BY <1>1, <1>2
<1>3. CASE ~\A i \in DOMAIN q : q[i].port
  <2> DEFINE T == {i \in DOMAIN q : ~q[i].port}
             f == Min(T)
  <2>1. f \in T /\ \A j \in T : f <= j
    <3>1. T \in SUBSET Nat /\ T # {}
      BY <1>3
    <3> HIDE DEF T
    <3> QED BY <3>1, LeastNumber
  <2> HIDE DEF f
  <2>2. f \in 1 .. Len(q) /\ ~q[f].port
    BY <2>1
  <2>3. \A i \in 1 .. f - 1 : q[i].port
    <3> SUFFICES ASSUME NEW i \in 1 .. f - 1, ~q[i].port PROVE FALSE
      OBVIOUS
    <3>1. i \in T /\ ~(f <= i)
      BY <2>2
    <3> QED BY <2>1, <3>1
  <2>4. \A i \in f .. Len(q) : ~q[i].port
    <3> SUFFICES ASSUME NEW i \in f .. Len(q), q[i].port PROVE FALSE
      OBVIOUS
    <3>1. i \in 1 .. Len(q) /\ (i = f \/ f < i)
      BY <2>2
    <3> QED BY <1>1, <2>2, <3>1 DEF Ordered
  <2>5. f - 1 + 1 = f /\ f - 1 \in Nat /\ f - 1 <= Len(q)
    BY <1>1, <2>2
  <2> QED BY <1>3, <2>3, <2>4, <2>5 DEF f
<1> QED BY <1>2, <1>3

LEMMA LoopInv ==
    ASSUME QInv, Queue_loop
    PROVE  QInv' /\ InOrder(Aged, queue')
<1> DEFINE q == Aged
           ports == IF \A i \in DOMAIN q : q[i].port THEN Len(q)
                    ELSE Min({i \in DOMAIN q : ~q[i].port}) - 1
           due == {i \in 1 .. ports : ~Gone(q[i]) /\ q[i].sent > AckDelay}
           head == Remaining(q, ports)
           next == ports + 1
           wakes == {i \in next .. Len(q) : Expired(q[i]) \/ q[i].sent >= WaitDelay}
           offers == next <= Len(q) /\ ~Expired(q[next]) /\ unqueued >= AckDelay /\ Room
<1> SUFFICES QInv' /\ InOrder(q, queue')
  OBVIOUS
<1>1. /\ Shape(q) /\ Len(q) = Len(queue) /\ Len(q) \in Nat /\ DOMAIN q = 1 .. Len(q)
      /\ q \in Seq(Entries) /\ Distinct(q) /\ \A i \in 1 .. Len(q) : q[i] \in Entries
  BY AgedShape, LenProperties, ElementOfSeq DEF Shape
<1>2. /\ ports \in Nat /\ ports <= Len(q)
      /\ \A i \in 1 .. ports : q[i].port
      /\ \A i \in ports + 1 .. Len(q) : ~q[i].port
  <2> HIDE DEF q
  <2> QED BY <1>1, FrontFirst
<1>3. /\ Part(q, 1, ports, head) /\ Ports(head) /\ Len(head) \in Nat /\ Len(head) <= ports
      /\ Ordered(head)
  <2> HIDE DEF q, ports
  <2>1. Part(q, 1, ports, head) /\ Ports(head) /\ Len(head) \in Nat /\ Len(head) <= ports
    BY <1>1, <1>2, RemainingIsPart
  <2> HIDE DEF head
  <2> QED BY <2>1 DEF Ports, Ordered
<1>4. \A i \in 1 .. Len(q) : /\ Answered(q[i]) \in Entries
                             /\ Answered(q[i]).client = q[i].client
                             /\ Answered(q[i]).port = q[i].port
  BY <1>1 DEF Answered, Entries
<1>5. CASE due # {}
  <2> DEFINE i == Min(due)
             before == Remaining(q, i - 1)
             x == before \o <<Answered(q[i])>> \o Without(q, i)
  <2>1. Result(x, {}, i - 1 - Len(before))
    BY <1>5, Zenon DEF Queue_loop
  <2>2. i \in 1 .. ports
    <3>1. due \in SUBSET Nat
      BY <1>2
    <3>2. Min(due) \in due
      <4> HIDE DEF due
      <4> QED BY <1>5, <3>1, LeastNumber
    <3> QED BY <3>2
  <2> HIDE DEF i, q, ports
  <2>3. i \in 1 .. Len(q) /\ (\A j \in 1 .. i - 1 : q[j].port) /\ q[i].port
    BY <1>1, <1>2, <2>2
  <2>4. Shape(x) /\ InOrder(q, x) /\ Len(x) = Len(q) - (i - 1 - Len(before)) /\ i - 1 - Len(before) \in Nat
    <3> DEFINE e == Answered(q[i])
    <3>1. e \in Entries /\ e.client = q[i].client /\ e.port
      BY <1>4, <2>3
    <3> HIDE DEF e
    <3> QED BY <1>1, <2>3, <3>1, WithEntry DEF e
  <2> DEFINE n == i - 1 - Len(before)
  <2> HIDE DEF x, n
  <2>5. n \in Nat /\ Len(x) = Len(queue) - n /\ Result(x, {}, n) /\ Shape(x) /\ InOrder(q, x)
    BY <1>1, <2>1, <2>4 DEF n
  <2> QED BY <2>5, ResultInv
<1>6. CASE due = {} /\ offers /\ conn[q[next].client] \in {"free", "listening"}
  <2> DEFINE e == [Answered(q[next]) EXCEPT !.port = TRUE]
             x == head \o <<e>> \o Without(q, next)
             n == ports - Len(head)
  <2>1. Result(x, {q[next].client}, n)
    BY <1>6, Zenon DEF Queue_loop
  <2>2. next \in 1 .. Len(q) /\ next - 1 = ports
    BY <1>1, <1>2, <1>6
  <2>3. e \in Entries /\ e.client = q[next].client /\ e.port
    BY <1>4, <2>2 DEF Entries
  <2> HIDE DEF q, ports, next, e
  <2>4. Shape(x) /\ InOrder(q, x) /\ Len(x) = Len(q) - n /\ n \in Nat
    <3>1. \A j \in 1 .. next - 1 : q[j].port
      BY <1>2, <2>2
    <3>2. LET s == Remaining(q, next - 1)
              r == s \o <<e>> \o Without(q, next)
          IN  Shape(r) /\ InOrder(q, r) /\ Len(r) = Len(q) - (next - 1 - Len(s)) /\ next - 1 - Len(s) \in Nat
      BY <1>1, <2>2, <2>3, <3>1, WithEntry
    <3> QED BY <2>2, <3>2
  <2> HIDE DEF x, n
  <2> QED BY <1>1, <2>1, <2>4, ResultInv
<1>7. CASE due = {} /\ offers /\ conn[q[next].client] \notin {"free", "listening"}
  <2> DEFINE x == head \o Without(q, next)
             n == ports - Len(head) + 1
  <2>1. Result(x, {}, n)
    BY <1>7, Zenon DEF Queue_loop
  <2>2. next <= Len(q)
    BY <1>7
  <2> HIDE DEF q, ports, head
  <2>3. Shape(x) /\ InOrder(q, x) /\ Len(x) = Len(q) - n /\ n \in Nat
    <3> DEFINE k == next + 1
    <3>1. /\ k \in Nat /\ 1 <= k /\ ports < k /\ ports <= Len(q) /\ k <= Len(q) + 1 /\ k - 1 = next
          /\ ports \in Int /\ \A j \in k .. Len(q) : j \in ports + 1 .. Len(q)
      BY <1>1, <1>2, <2>2
    <3>2. \A j \in k .. Len(q) : ~q[j].port
      BY <1>2, <3>1
    <3> HIDE DEF k, next
    <3>3. LET r == head \o Without(q, k - 1)
          IN  Shape(r) /\ InOrder(q, r) /\ Len(r) = Len(head) + Len(q) - k + 1
      BY <1>1, <1>3, <3>1, <3>2, WithRest
    <3>4. Shape(x) /\ InOrder(q, x) /\ Len(x) = Len(head) + Len(q) - k + 1
      BY <3>1, <3>3
    <3>5. k = ports + 2
      BY <1>2 DEF next, k
    <3> HIDE DEF x
    <3> QED BY <1>1, <1>2, <1>3, <3>4, <3>5
  <2> HIDE DEF x, n
  <2> QED BY <1>1, <2>1, <2>3, ResultInv
<1>8. CASE due = {} /\ ~offers /\ wakes # {}
  <2> DEFINE i == Min(wakes)
             between == SubSeq(q, next, i - 1)
             t == head \o between
  <2>1. i \in next .. Len(q)
    <3>1. wakes \in SUBSET Nat
      <4> HIDE DEF q, ports
      <4> QED BY <1>1, <1>2
    <3>2. Min(wakes) \in wakes
      <4> HIDE DEF wakes
      <4> QED BY <1>8, <3>1, LeastNumber
    <3> QED BY <3>2
  <2>2. Expired(q[i]) => Result(t \o Without(q, i), {}, ports - Len(head) + 1)
    BY <1>8, Zenon DEF Queue_loop
  <2>3. ~Expired(q[i]) =>
            Result(t \o <<Answered(q[i])>> \o Without(q, i), {}, ports - Len(head))
    BY <1>8, Zenon DEF Queue_loop
  <2> HIDE DEF q, ports, i
  <2>4. Part(q, 1, i - 1, t) /\ Ordered(t) /\ Len(t) = Len(head) + i - 1 - ports
    BY <1>1, <1>2, <2>1, WithBetween
  <2> HIDE DEF t, head
  <2> DEFINE k == i + 1
             e == Answered(q[i])
             w == t \o <<e>>
             m == i - 1
  <2>5. /\ k \in Nat /\ i \in Nat /\ 1 <= k /\ i < k /\ i <= Len(q) /\ k <= Len(q) + 1 /\ k - 1 = i
        /\ m \in Int /\ m < i /\ m < k /\ m <= Len(q) /\ 1 <= i /\ i \in 1 .. Len(q) /\ i \in Int
        /\ \A j \in k .. Len(q) : j \in ports + 1 .. Len(q)
    BY <1>1, <1>2, <2>1
  <2>6. \A j \in k .. Len(q) : ~q[j].port
    BY <1>2, <2>5
  <2>7. e \in Entries /\ e.client = q[i].client /\ ~e.port
    <3>1. i \in ports + 1 .. Len(q)
      BY <2>1
    <3> QED BY <1>2, <1>4, <2>5, <3>1
  <2>8. Part(q, 1, m, t)
    BY <2>4
  <2>9. t \in Seq(Entries) /\ <<e>> \in Seq(Entries) /\ Waits(<<e>>)
    BY <2>7, <2>8 DEF Part, Waits
  <2> HIDE DEF k, m, e
  <2>10. Part(q, 1, i, w) /\ Len(w) = Len(t) + 1
    BY <1>1, <2>5, <2>7, <2>8, JoinEntry
  <2>11. Ordered(w)
    BY <2>4, <2>9, JoinOrders
  <2> HIDE DEF w
  <2>12. LET r == t \o Without(q, k - 1)
         IN  Shape(r) /\ InOrder(q, r) /\ Len(r) = Len(t) + Len(q) - k + 1
    <3>1. Shape(q) /\ Part(q, 1, m, t) /\ Ordered(t) /\ m \in Int /\ k \in Nat /\ 1 <= k /\ m < k
          /\ m <= Len(q) /\ k <= Len(q) + 1 /\ \A j \in k .. Len(q) : ~q[j].port
      BY <1>1, <2>4, <2>5, <2>8, <2>6
    <3> QED BY ONLY <3>1, WithRest
  <2>13. LET r == w \o Without(q, k - 1)
         IN  Shape(r) /\ InOrder(q, r) /\ Len(r) = Len(w) + Len(q) - k + 1
    <3>1. Shape(q) /\ Part(q, 1, i, w) /\ Ordered(w) /\ i \in Int /\ k \in Nat /\ 1 <= k /\ i < k
          /\ i <= Len(q) /\ k <= Len(q) + 1 /\ \A j \in k .. Len(q) : ~q[j].port
      BY <1>1, <2>5, <2>10, <2>11, <2>6
    <3> QED BY ONLY <3>1, WithRest
  <2>14. CASE Expired(q[i])
    <3> DEFINE x == t \o Without(q, i)
               n == ports - Len(head) + 1
    <3>3. Shape(x) /\ InOrder(q, x) /\ Len(x) = Len(t) + Len(q) - k + 1
      BY <2>5, <2>12
    <3> HIDE DEF x
    <3>1. n \in Nat /\ Shape(x) /\ InOrder(q, x) /\ Len(x) = Len(queue) - n
      BY <1>1, <1>2, <1>3, <2>4, <2>5, <3>3 DEF k
    <3>2. Result(x, {}, n)
      BY <2>2, <2>14 DEF x
    <3> HIDE DEF x, n
    <3> QED BY <3>1, <3>2, ResultInv
  <2>15. CASE ~Expired(q[i])
    <3> DEFINE x == w \o Without(q, i)
               n == ports - Len(head)
    <3>3. Shape(x) /\ InOrder(q, x) /\ Len(x) = Len(w) + Len(q) - k + 1
      BY <2>5, <2>13
    <3> HIDE DEF x
    <3>1. n \in Nat /\ Shape(x) /\ InOrder(q, x) /\ Len(x) = Len(queue) - n
      BY <1>1, <1>2, <1>3, <2>4, <2>5, <2>10, <3>3 DEF k
    <3>2. Result(x, {}, n)
      BY <2>3, <2>15 DEF x, w, e
    <3> HIDE DEF x, n
    <3> QED BY <3>1, <3>2, ResultInv
  <2> QED BY <2>14, <2>15
<1>9. CASE due = {} /\ ~offers /\ wakes = {}
  <2> DEFINE x == head \o Without(q, ports)
             n == ports - Len(head)
  <2>1. Result(x, {}, n)
    BY <1>9, Zenon DEF Queue_loop
  <2>2. Shape(x) /\ InOrder(q, x) /\ Len(x) = Len(q) - n /\ n \in Nat
    <3> DEFINE k == ports + 1
    <3>1. /\ k \in Nat /\ 1 <= k /\ ports < k /\ ports <= Len(q) /\ k <= Len(q) + 1 /\ k - 1 = ports
          /\ ports \in Int
      BY <1>1, <1>2
    <3>2. \A j \in k .. Len(q) : ~q[j].port
      BY <1>2
    <3> HIDE DEF q, ports, head, k
    <3>3. LET r == head \o Without(q, k - 1)
          IN  Shape(r) /\ InOrder(q, r) /\ Len(r) = Len(head) + Len(q) - k + 1
      BY <1>1, <1>3, <3>1, <3>2, WithRest
    <3> QED BY <1>1, <1>2, <1>3, <3>1, <3>3 DEF k
  <2> HIDE DEF x, n, q
  <2> QED BY <1>1, <2>1, <2>2, ResultInv
<1> QED BY <1>5, <1>6, <1>7, <1>8, <1>9

\* The same people at the same places, with the same ports.
LEMMA SamePlaces ==
    ASSUME NEW s, Shape(s), NEW r \in [DOMAIN s -> Entries],
           \A i \in 1 .. Len(s) : r[i].client = s[i].client /\ r[i].port = s[i].port
    PROVE  Shape(r) /\ Len(r) = Len(s)
<1>1. s \in Seq(Entries) /\ Distinct(s) /\ Ordered(s) /\ Len(s) \in Nat /\ DOMAIN s = 1 .. Len(s)
  BY LenProperties DEF Shape
<1>2. r \in Seq(Entries)
  <2>1. r \in [1 .. Len(s) -> Entries]
    BY <1>1
  <2> QED BY <1>1, <2>1, SeqDef
<1>3. Len(r) = Len(s)
  <2>1. DOMAIN r = 1 .. Len(s) /\ DOMAIN r = 1 .. Len(r) /\ Len(r) \in Nat
    BY <1>1, <1>2, LenProperties
  <2> QED BY <1>1, <2>1
<1>4. Distinct(r) /\ Ordered(r)
  BY <1>1, <1>3 DEF Distinct, Ordered
<1> QED BY <1>2, <1>3, <1>4 DEF Shape

LEMMA ContactInv ==
    ASSUME QInv, NEW c \in Clients, Contact(c)
    PROVE  QInv'
<1>1. /\ queue \in Seq(Entries) /\ Distinct(queue) /\ Ordered(queue) /\ Len(queue) \in Nat
      /\ DOMAIN queue = 1 .. Len(queue) /\ \A i \in 1 .. Len(queue) : queue[i] \in Entries
  BY LenProperties, ElementOfSeq DEF QInv, Shape
<1>2. Queue_player(c) /\ UNCHANGED <<unqueued, listening>>
  BY DEF Contact
<1>3. CASE queue' = queue /\ (NumQueuedPlayers' = NumQueuedPlayers \/ NumQueuedPlayers' = Len(queue))
  BY <1>2, <1>3 DEF QInv
<1>4. CASE /\ queue' = [i \in DOMAIN queue |->
                          IF queue[i].client = c THEN [queue[i] EXCEPT !.recv = 0] ELSE queue[i]]
           /\ UNCHANGED NumQueuedPlayers
  <2>1. \A i \in 1 .. Len(queue) : /\ queue'[i] \in Entries
                                   /\ queue'[i].client = queue[i].client
                                   /\ queue'[i].port = queue[i].port
    BY <1>1, <1>4 DEF Entries
  <2>2. queue' \in [DOMAIN queue -> Entries]
    BY <1>1, <1>4, <2>1
  <2>3. Shape(queue)' /\ Len(queue') = Len(queue)
    <3> DEFINE r == queue'
    <3>1. Shape(queue) /\ r \in [DOMAIN queue -> Entries]
          /\ \A i \in 1 .. Len(queue) : r[i].client = queue[i].client /\ r[i].port = queue[i].port
      BY <2>1, <2>2 DEF QInv
    <3> HIDE DEF r
    <3>2. Shape(r) /\ Len(r) = Len(queue)
      BY ONLY <3>1, SamePlaces
    <3> QED BY <3>2 DEF r, Shape, Distinct, Ordered
  <2> QED BY <1>2, <1>4, <2>3 DEF QInv
<1>5. CASE /\ c \notin Queued /\ ~(Len(queue) >= MaxQueuedPlayers)
           /\ queue' = Append(queue, Entry(c)) /\ NumQueuedPlayers' = Len(queue) + 1
  <2> DEFINE r == Append(queue, Entry(c))
             n == Len(queue)
  <2>1. Entry(c) \in Entries /\ Entry(c).client = c /\ Entry(c).port = FALSE
    BY DEF Entry, Entries
  <2>2. /\ r \in Seq(Entries) /\ Len(r) = n + 1 /\ r[n + 1] = Entry(c)
        /\ \A i \in 1 .. n : r[i] = queue[i]
    BY <1>1, <2>1, AppendProperties
  <2> HIDE DEF r
  <2>3. \A i \in 1 .. n : r[i].client # c
    BY <1>1, <1>5, <2>2 DEF Queued
  <2>4. \A k \in 1 .. n + 1 : k \in 1 .. n \/ k = n + 1
    BY <1>1
  <2>5. Distinct(r)
    <3> SUFFICES ASSUME NEW k \in 1 .. Len(r), NEW l \in 1 .. Len(r), r[k].client = r[l].client
                 PROVE  k = l
      BY DEF Distinct
    <3>1. CASE k \in 1 .. n /\ l \in 1 .. n
      BY <1>1, <2>2, <3>1 DEF Distinct
    <3>2. CASE k = n + 1 \/ l = n + 1
      BY <2>1, <2>2, <2>3, <2>4, <3>2
    <3> QED BY <2>2, <2>4, <3>1, <3>2
  <2>6. Ordered(r)
    <3> SUFFICES ASSUME NEW k \in 1 .. Len(r), NEW l \in 1 .. Len(r), k < l, r[l].port
                 PROVE  r[k].port
      BY DEF Ordered
    <3>1. l # n + 1
      BY <2>1, <2>2
    <3>2. l \in 1 .. n /\ k \in 1 .. n
      BY <1>1, <2>2, <3>1
    <3> QED BY <1>1, <2>2, <3>2 DEF Ordered
  <2>7. n + 1 <= MaxQueuedPlayers
    <3>1. MaxQueuedPlayers \in Nat /\ n \in Nat
      BY <1>1, Bounds
    <3> QED BY <1>5, <3>1
  <2>8. queue' = r
    BY <1>5 DEF r
  <2>9. Shape(queue)' /\ Len(queue') = n + 1
    BY <2>2, <2>5, <2>6, <2>8 DEF Shape, Distinct, Ordered
  <2> QED BY <1>2, <1>5, <2>7, <2>9 DEF QInv
<1> QED BY <1>2, <1>3, <1>4, <1>5 DEF Queue_player

LEMMA GreatestNumber ==
    ASSUME NEW N \in Nat, NEW T \in SUBSET (1 .. N), T # {}
    PROVE  Max(T) \in T /\ \A y \in T : Max(T) >= y
<1> DEFINE U == {N - x : x \in T}
           m == Min(U)
<1>1. U \in SUBSET Nat /\ U # {}
  OBVIOUS
<1>2. m \in U /\ \A y \in U : m <= y
  <2> HIDE DEF U
  <2> QED BY <1>1, LeastNumber
<1> HIDE DEF m
<1>3. PICK x \in T : m = N - x
  BY <1>2
<1>4. ASSUME NEW y \in T PROVE x >= y
  <2>1. N - y \in U
    OBVIOUS
  <2>2. m <= N - y
    BY <1>2, <2>1
  <2>3. N - x <= N - y /\ x \in Nat /\ y \in Nat
    BY <1>3, <2>2
  <2> QED BY ONLY <2>3, N \in Nat
<1> QED BY <1>4 DEF Max

\* Who is at place k when the i-th has moved up behind the first ones.  Two change
\* their order only if one of them is the i-th.
Taken(first, i, k) == IF k <= first \/ k > i THEN k ELSE IF k = first + 1 THEN i ELSE k - 1

LEMMA MovedUp ==
    ASSUME NEW first \in Int, NEW i \in Int, first < i, NEW k \in Int, NEW l \in Int, k < l,
           Taken(first, i, l) < Taken(first, i, k)
    PROVE  Taken(first, i, k) = i /\ Taken(first, i, l) \in first + 1 .. i - 1
<1>1. k = first + 1
  BY DEF Taken
<1>2. Taken(first, i, k) = i
  BY <1>1 DEF Taken
<1>3. Taken(first, i, l) = l - 1 /\ l <= i
  BY <1>1, <1>2 DEF Taken
<1> QED BY <1>1, <1>2, <1>3

\* Somebody moved up is behind all who enter, and before all others.
LEMMA AdvancedShape ==
    ASSUME NEW i \in DOMAIN queue, Shape(queue), ~queue[i].port
    PROVE  /\ Shape(Advanced(i)) /\ Len(Advanced(i)) = Len(queue)
           /\ \A k \in 1 .. Len(queue) : \E l \in 1 .. Len(queue) : Advanced(i)[k] = queue[l]
           /\ \A k, l, x, y \in 1 .. Len(queue) :
                 /\ k < l /\ y < x
                 /\ Advanced(i)[k].client = queue[x].client
                 /\ Advanced(i)[l].client = queue[y].client
                 => x = i /\ ~queue[y].port
<1> DEFINE entering == {j \in 1 .. i - 1 : queue[j].port}
           first == IF entering = {} THEN 0 ELSE Max(entering)
           N == Len(queue)
           s == RemoveAt(queue, i)
           r == InsertAt(s, first + 1, queue[i])
<1>1. /\ queue \in Seq(Entries) /\ Distinct(queue) /\ Ordered(queue) /\ N \in Nat
      /\ DOMAIN queue = 1 .. N /\ \A j \in 1 .. N : queue[j] \in Entries
      /\ i \in 1 .. N
  BY LenProperties, ElementOfSeq DEF Shape
<1>2. /\ first \in 0 .. i - 1 /\ \A j \in 1 .. first : queue[j].port
      /\ \A j \in first + 1 .. i - 1 : ~queue[j].port
  <2>1. CASE entering = {}
    BY <1>1, <2>1
  <2>2. CASE entering # {}
    <3> DEFINE f == Max(entering)
    <3>1. i - 1 \in Nat /\ entering \in SUBSET (1 .. i - 1)
      BY <1>1
    <3>2. f \in entering /\ \A j \in entering : f >= j
      <4> HIDE DEF entering
      <4> QED BY <2>2, <3>1, GreatestNumber
    <3> HIDE DEF f
    <3>3. f \in 1 .. i - 1 /\ queue[f].port
      BY <3>2
    <3>4. \A j \in 1 .. f : queue[j].port
      <4> SUFFICES ASSUME NEW j \in 1 .. f PROVE queue[j].port
        OBVIOUS
      <4>1. j \in 1 .. N /\ f \in 1 .. N /\ (j = f \/ j < f)
        BY <1>1, <3>3
      <4> QED BY <1>1, <3>3, <4>1 DEF Ordered
    <3>5. \A j \in f + 1 .. i - 1 : ~queue[j].port
      <4> SUFFICES ASSUME NEW j \in f + 1 .. i - 1, queue[j].port PROVE FALSE
        OBVIOUS
      <4>1. j \in 1 .. i - 1 /\ ~(f >= j)
        BY <1>1, <3>3
      <4> QED BY <3>2, <4>1
    <3>6. first = f /\ f \in 0 .. i - 1
      BY <2>2, <3>3 DEF f
    <3> HIDE DEF first
    <3> QED BY <3>4, <3>5, <3>6
  <2> QED BY <2>1, <2>2
<1> HIDE DEF first
<1>3. /\ s \in Seq(Entries) /\ Len(s) = N - 1
      /\ \A j \in 1 .. N - 1 : s[j] = IF j < i THEN queue[j] ELSE queue[j + 1]
  <2> DEFINE a == SubSeq(queue, 1, i - 1)
             b == SubSeq(queue, i + 1, N)
             m == i - 1
             n == i + 1
             one == 1
  <2>1. /\ m \in Int /\ m <= Len(queue) /\ n \in Nat /\ 1 <= n /\ N \in Int /\ N <= Len(queue)
        /\ one \in Nat /\ 1 <= one
    BY <1>1
  <2>2. /\ Part(queue, one, m, SubSeq(queue, one, m))
        /\ Len(SubSeq(queue, one, m)) = (IF one <= m THEN m - one + 1 ELSE 0)
        /\ \A k \in 1 .. Len(SubSeq(queue, one, m)) :
              SubSeq(queue, one, m)[k] = queue[one + k - 1]
    <3> HIDE DEF one, m
    <3> QED BY <1>1, <2>1, PieceIsPart
  <2>3. /\ Part(queue, n, N, SubSeq(queue, n, N))
        /\ Len(SubSeq(queue, n, N)) = (IF n <= N THEN N - n + 1 ELSE 0)
        /\ \A k \in 1 .. Len(SubSeq(queue, n, N)) : SubSeq(queue, n, N)[k] = queue[n + k - 1]
    <3> HIDE DEF n, N
    <3> QED BY <1>1, <2>1, PieceIsPart
  <2>4. a \in Seq(Entries) /\ Len(a) = i - 1 /\ \A k \in 1 .. i - 1 : a[k] = queue[k]
    <3>1. a = SubSeq(queue, one, m) /\ Len(a) = i - 1 /\ a \in Seq(Entries)
      BY <1>1, <2>2 DEF Part
    <3>2. \A k \in 1 .. i - 1 : one + k - 1 = k
      OBVIOUS
    <3> HIDE DEF a
    <3> QED BY <2>2, <3>1, <3>2
  <2>5. b \in Seq(Entries) /\ Len(b) = N - i /\ \A k \in 1 .. N - i : b[k] = queue[i + k]
    <3>1. b = SubSeq(queue, n, N) /\ Len(b) = N - i /\ b \in Seq(Entries)
      BY <1>1, <2>3 DEF Part
    <3>2. \A k \in 1 .. N - i : n + k - 1 = i + k
      OBVIOUS
    <3> HIDE DEF b
    <3> QED BY <2>3, <3>1, <3>2
  <2>6. s = a \o b
    BY DEF RemoveAt
  <2> HIDE DEF a, b, s
  <2>7. /\ s \in Seq(Entries) /\ Len(s) = Len(a) + Len(b)
        /\ \A k \in 1 .. Len(a) + Len(b) : s[k] = IF k <= Len(a) THEN a[k] ELSE b[k - Len(a)]
    BY <2>4, <2>5, <2>6, ConcatProperties
  <2>8. Len(s) = N - 1
    BY <1>1, <2>4, <2>5, <2>7
  <2>9. ASSUME NEW j \in 1 .. N - 1
        PROVE  s[j] = IF j < i THEN queue[j] ELSE queue[j + 1]
    <3>1. CASE j < i
      <4>1. j \in 1 .. Len(a) + Len(b) /\ j <= Len(a) /\ j \in 1 .. i - 1
        BY <1>1, <2>4, <2>5, <3>1
      <4> QED BY <2>4, <2>7, <3>1, <4>1
    <3>2. CASE ~(j < i)
      <4>1. /\ j \in 1 .. Len(a) + Len(b) /\ ~(j <= Len(a)) /\ j - Len(a) \in 1 .. N - i
            /\ i + (j - Len(a)) = j + 1
        BY <1>1, <2>4, <2>5, <3>2
      <4> QED BY <2>5, <2>7, <3>2, <4>1
    <3> QED BY <3>1, <3>2
  <2> QED BY <2>7, <2>8, <2>9
<1> HIDE DEF s
<1> DEFINE Place(k) == Taken(first, i, k)
<1> USE DEF Taken
<1>4. /\ r \in Seq(Entries) /\ Len(r) = N
      /\ \A k \in 1 .. N : r[k] = queue[Place(k)]
  <2> DEFINE a == SubSeq(s, 1, first)
             b == SubSeq(s, first + 1, Len(s))
             e == queue[i]
  <2>1. \A k \in 1 .. Len(s) : s[k] \in Entries
    BY <1>3, ElementOfSeq
  <2>2. Len(s) \in Nat /\ first \in Nat /\ first <= Len(s) /\ e \in Entries
    BY <1>1, <1>2, <1>3
  <2>3. a \in Seq(Entries) /\ Len(a) = first /\ \A k \in 1 .. first : a[k] = s[k]
    <3> DEFINE one == 1
    <3>1. \A k \in one .. first : s[k] \in Entries
      BY <2>1, <2>2
    <3>2. /\ SubSeq(s, one, first) \in Seq(Entries)
          /\ Len(SubSeq(s, one, first)) = (IF one <= first THEN first - one + 1 ELSE 0)
          /\ \A k \in 1 .. first - one + 1 : SubSeq(s, one, first)[k] = s[one + k - 1]
      <4>1. one \in Int /\ first \in Int
        BY <2>2
      <4> HIDE DEF one
      <4> QED BY <3>1, <4>1, SubSeqProperties
    <3>3. /\ (IF one <= first THEN first - one + 1 ELSE 0) = first
          /\ \A k \in 1 .. first : k \in 1 .. first - one + 1 /\ one + k - 1 = k
      BY <2>2
    <3> QED BY <3>2, <3>3
  <2>4. /\ b \in Seq(Entries) /\ Len(b) = N - 1 - first
        /\ \A k \in 1 .. N - 1 - first : b[k] = s[first + k]
    <3> DEFINE f == first + 1
               l == Len(s)
    <3>1. \A k \in f .. l : s[k] \in Entries
      BY <2>1, <2>2
    <3>2. /\ SubSeq(s, f, l) \in Seq(Entries)
          /\ Len(SubSeq(s, f, l)) = (IF f <= l THEN l - f + 1 ELSE 0)
          /\ \A k \in 1 .. l - f + 1 : SubSeq(s, f, l)[k] = s[f + k - 1]
      <4>1. f \in Int /\ l \in Int
        BY <2>2
      <4> HIDE DEF f, l
      <4> QED BY <3>1, <4>1, SubSeqProperties
    <3>3. /\ (IF f <= l THEN l - f + 1 ELSE 0) = N - 1 - first
          /\ \A k \in 1 .. N - 1 - first : k \in 1 .. l - f + 1 /\ f + k - 1 = first + k
      <4>1. l \in Nat /\ l = N - 1 /\ first \in Nat /\ first <= l /\ N \in Nat
        BY <1>1, <1>3, <2>2
      <4> HIDE DEF l, N
      <4> QED BY <4>1
    <3> QED BY <3>2, <3>3
  <2>5. r = (a \o <<e>>) \o b
    <3> DEFINE p == first + 1
    <3>1. p - 1 = first
      BY <2>2
    <3>2. r = SubSeq(s, 1, p - 1) \o <<e>> \o SubSeq(s, p, Len(s))
      BY Zenon DEF InsertAt
    <3> HIDE DEF r, p, e
    <3>3. r = SubSeq(s, 1, first) \o <<e>> \o SubSeq(s, p, Len(s))
      BY <3>1, <3>2
    <3> QED BY <3>3 DEF p
  <2> DEFINE x == a \o <<e>>
  <2> HIDE DEF a, b, e, r
  <2>6. /\ x \in Seq(Entries) /\ Len(x) = first + 1
        /\ \A k \in 1 .. first : x[k] = s[k]
        /\ x[first + 1] = e
    <3>1. x = Append(a, e)
      BY <2>2, <2>3, AppendIsConcat
    <3> HIDE DEF x
    <3> QED BY <2>2, <2>3, <3>1, AppendProperties
  <2> HIDE DEF x
  <2>7. r = x \o b
    BY <2>5 DEF x
  <2>8. /\ r \in Seq(Entries) /\ Len(r) = Len(x) + Len(b)
        /\ \A k \in 1 .. Len(x) + Len(b) : r[k] = IF k <= Len(x) THEN x[k] ELSE b[k - Len(x)]
    BY <2>4, <2>6, <2>7, ConcatProperties
  <2>9. Len(r) = N
    BY <1>1, <2>2, <2>4, <2>6, <2>8
  <2>10. ASSUME NEW k \in 1 .. N PROVE r[k] = queue[Place(k)]
    <3>1. k \in 1 .. Len(x) + Len(b)
      BY <1>1, <2>2, <2>4, <2>6
    <3>2. CASE k <= first
      <4>1. k <= Len(x) /\ k \in 1 .. first /\ k \in 1 .. N - 1 /\ k < i
        BY <1>1, <1>2, <2>2, <2>6, <3>2
      <4> QED BY <1>3, <2>6, <2>8, <3>1, <3>2, <4>1
    <3>3. CASE k = first + 1
      <4>1. k <= Len(x) /\ ~(k <= first) /\ ~(k > i)
        BY <1>1, <1>2, <2>2, <2>6, <3>3
      <4> QED BY <2>6, <2>8, <3>1, <3>3, <4>1 DEF e
    <3>4. CASE k > first + 1
      <4> DEFINE j == k - 1
      <4>1. /\ ~(k <= Len(x)) /\ k - Len(x) \in 1 .. N - 1 - first /\ first + (k - Len(x)) = j
            /\ j \in 1 .. N - 1 /\ j + 1 = k /\ ~(k <= first) /\ k # first + 1
            /\ (j < i <=> ~(k > i))
        BY <1>1, <1>2, <2>2, <2>6, <3>4
      <4>2. r[k] = s[j]
        BY <2>4, <2>8, <3>1, <4>1
      <4> HIDE DEF j
      <4>3. s[j] = IF j < i THEN queue[j] ELSE queue[j + 1]
        BY <1>3, <4>1
      <4> QED BY <4>1, <4>2, <4>3 DEF j
    <3> QED BY <2>2, <3>2, <3>3, <3>4
  <2> QED BY <2>8, <2>9, <2>10
<1>5. \A k, l \in 1 .. N : Place(k) \in 1 .. N /\ (Place(k) = Place(l) => k = l)
  BY <1>1, <1>2
<1>6. \A k \in 1 .. N : queue[Place(k)].port => k <= first
  <2> SUFFICES ASSUME NEW k \in 1 .. N, queue[Place(k)].port, ~(k <= first) PROVE FALSE
    OBVIOUS
  <2>1. CASE k > i
    BY <1>1, <2>1 DEF Ordered
  <2>2. CASE ~(k > i) /\ k = first + 1
    BY <2>2
  <2>3. CASE ~(k > i) /\ k # first + 1
    <3>1. k - 1 \in first + 1 .. i - 1
      BY <1>1, <1>2, <2>3
    <3> QED BY <1>2, <2>3, <3>1
  <2> QED BY <2>1, <2>2, <2>3
<1>7. \A k \in 1 .. N : k <= first => queue[Place(k)].port
  BY <1>1, <1>2
<1>p. ASSUME NEW k \in 1 .. N, NEW l \in 1 .. N, k < l, Place(l) < Place(k)
      PROVE  Place(k) = i /\ ~queue[Place(l)].port
  <2>1. k \in Int /\ l \in Int /\ i \in Int /\ first \in Int /\ first < i
    BY <1>1, <1>2
  <2> HIDE DEF Taken
  <2>2. Place(k) = i /\ Place(l) \in first + 1 .. i - 1
    BY <2>1, <1>p, MovedUp
  <2> QED BY <1>2, <2>2
<1> HIDE DEF Place, r
<1>8. Distinct(r)
  <2> SUFFICES ASSUME NEW k \in 1 .. N, NEW l \in 1 .. N, r[k].client = r[l].client PROVE k = l
    BY <1>4 DEF Distinct
  <2>1. Place(k) \in 1 .. N /\ Place(l) \in 1 .. N
    BY <1>5
  <2>2. queue[Place(k)].client = queue[Place(l)].client
    BY <1>4
  <2>3. Place(k) = Place(l)
    BY <1>1, <2>1, <2>2 DEF Distinct
  <2> QED BY <1>5, <2>3
<1>9. Ordered(r)
  <2> SUFFICES ASSUME NEW k \in 1 .. N, NEW l \in 1 .. N, k < l, r[l].port
               PROVE  r[k].port
    BY <1>4 DEF Ordered
  <2>1. l <= first
    BY <1>4, <1>6
  <2>2. k <= first
    BY <1>2, <2>1
  <2> QED BY <1>4, <1>7, <2>2
<1>10. Advanced(i) = r
  BY DEF Advanced, r, s, first
<1>11. \A k \in 1 .. N : \E l \in 1 .. N : r[k] = queue[l]
  BY <1>4, <1>5
<1>12. ASSUME NEW k \in 1 .. N, NEW l \in 1 .. N, NEW x \in 1 .. N, NEW y \in 1 .. N,
              k < l, y < x, r[k].client = queue[x].client, r[l].client = queue[y].client
       PROVE  x = i /\ ~queue[y].port
  <2>1. Place(k) = x /\ Place(l) = y
    BY <1>1, <1>4, <1>5, <1>12 DEF Distinct
  <2> QED BY <1>p, <1>12, <2>1
<1> QED BY <1>4, <1>8, <1>9, <1>10, <1>11, <1>12 DEF Shape

LEMMA StepQueue == QInv /\ Inv /\ [Next]_vars => QInv'
<1> SUFFICES ASSUME QInv, Inv, [Next]_vars PROVE QInv'
  OBVIOUS
<1>1. CASE Main_loop
  BY <1>1, LoopInv DEF Main_loop
<1>2. ASSUME NEW c \in Clients, Contact(c) PROVE QInv'
  BY <1>2, ContactInv
<1>3. ASSUME NEW c \in Clients, Handle_listening(c) \/ Handle_login(c) \/ Destroy_connection(c)
      PROVE  QInv'
  <2>1. UNCHANGED <<queue, NumQueuedPlayers, unqueued>>
    BY <1>3 DEF Handle_listening, Handle_login, Destroy_connection
  <2>2. listening' = listening \/ listening' = [listening EXCEPT ![c] = 0]
    BY <1>3 DEF Handle_listening, Handle_login, Destroy_connection
  <2>3. listening' \in [Clients -> 0 .. ListenTimeout]
    <3>1. 0 \in 0 .. ListenTimeout
      BY Bounds
    <3> QED BY <2>2, <3>1 DEF QInv
  <2> QED BY <2>1, <2>3 DEF QInv, Shape, Distinct, Ordered
<1>4. ASSUME NEW i \in DOMAIN queue, Queue_advance_player(i) PROVE QInv'
  <2>1. Shape(Advanced(i)) /\ Len(Advanced(i)) = Len(queue)
    BY <1>4, AdvancedShape DEF Queue_advance_player, QInv
  <2> DEFINE x == Advanced(i)
  <2>2. queue' = x /\ UNCHANGED <<NumQueuedPlayers, unqueued, listening>>
    BY <1>4 DEF Queue_advance_player
  <2> HIDE DEF x
  <2> QED BY <2>1, <2>2 DEF QInv, Shape, Distinct, Ordered, x
<1>5. CASE UNCHANGED vars
  BY <1>5 DEF vars, QInv, Shape, Distinct, Ordered
<1> QED BY <1>1, <1>2, <1>3, <1>4, <1>5 DEF Next

LEMMA InitQueue == Init => QInv
<1> SUFFICES ASSUME Init PROVE QInv
  OBVIOUS
<1>1. queue = <<>> /\ <<>> \in Seq(Entries) /\ Len(<<>>) = 0 /\ 1 .. 0 = {}
  BY DEF Init
<1>2. Shape(queue)
  BY <1>1 DEF Shape, Distinct, Ordered
<1>3. AckDelay + 1 \in 0 .. AckDelay + 1 /\ 0 \in 0 .. ListenTimeout /\ 0 <= MaxQueuedPlayers
  BY Bounds
<1> QED BY <1>1, <1>2, <1>3 DEF Init, QInv

\* Nobody is in the queue twice, counted as QueueSound does.
LEMMA AllCounted ==
    ASSUME QInv
    PROVE  Cardinality(Queued) = Len(queue)
<1> DEFINE N == Len(queue)
           f == [i \in 1 .. N |-> queue[i].client]
<1>1. queue \in Seq(Entries) /\ N \in Nat /\ DOMAIN queue = 1 .. N /\ Distinct(queue)
  BY LenProperties DEF QInv, Shape
<1>2. f \in [1 .. N -> Queued]
  BY <1>1 DEF Queued
<1>3. \A k, l \in 1 .. N : f[k] = f[l] => k = l
  BY <1>1 DEF Distinct
<1>4. \A c \in Queued : \E k \in 1 .. N : f[k] = c
  BY <1>1 DEF Queued
<1> HIDE DEF f, N
<1>5. f \in Bijection(1 .. N, Queued)
  BY <1>2, <1>3, <1>4, Fun_IsBij
<1>6. ExistsBijection(1 .. N, Queued)
  BY <1>5 DEF ExistsBijection
<1>7. Cardinality(Queued) = N
  BY <1>1, <1>6, FS_CountingElements
<1> QED BY <1>7 DEF N

\* Whatever clients ask and however often, whoever is moved up, given up or
\* let in, the queue has everybody once, those with a login port first, and as
\* many as its counter says (contact.c:636, 727, 841, 879).
THEOREM QueueSoundAlways == Spec => []QueueSound
<1>1. Init => QInv /\ Inv
  BY InitQueue, InitFits
<1>2. QInv /\ Inv /\ [Next]_vars => (QInv /\ Inv)'
  BY StepQueue, StepFits
<1>3. QInv /\ Inv => QueueSound
  <2> SUFFICES ASSUME QInv, Inv PROVE QueueSound
    OBVIOUS
  <2>1. queue \in Seq(Entries) /\ Ordered(queue) /\ DOMAIN queue = 1 .. Len(queue)
    BY LenProperties DEF QInv, Shape
  <2> QED BY <2>1, AllCounted DEF QueueSound, QInv, Inv, States, Entries, Ordered
<1> QED BY <1>1, <1>2, <1>3, PTL DEF Spec

-----------------------------------------------------------------------------
(* Who is told to enter.  In a main loop everybody else's last answer is   *)
(* at least one loop old, and the one who is answered either has just got  *)
(* a connection or one was looked for.                                     *)

Older1(s) == \A k \in 1 .. Len(s) : s[k].sent # 0

LEMMA OlderIsPositive ==
    ASSUME NEW age \in Nat, NEW delay \in Nat
    PROVE  Older(age, delay) # 0
<1> DEFINE T == {age + 1, delay + 1}
<1>1. T \in SUBSET Nat /\ T # {} /\ \A x \in T : x # 0
  OBVIOUS
<1>2. Min(T) \in T
  <2> HIDE DEF T
  <2> QED BY <1>1, LeastNumber
<1>3. Min(T) # 0
  <2> HIDE DEF T
  <2> QED BY <1>1, <1>2
<1> QED BY <1>3 DEF Older

LEMMA AgedIsOlder == QInv => Older1(Aged)
<1> SUFFICES ASSUME QInv, NEW i \in 1 .. Len(Aged) PROVE Aged[i].sent # 0
  BY DEF Older1
<1>1. i \in DOMAIN queue /\ queue[i] \in Entries
  <2>1. queue \in Seq(Entries) /\ i \in 1 .. Len(queue)
    BY AgedShape DEF QInv, Shape
  <2> QED BY <2>1, LenProperties, ElementOfSeq
<1>2. queue[i].sent \in Nat /\ WaitDelay \in Nat
  BY <1>1, Bounds DEF Entries
<1>3. Older(queue[i].sent, WaitDelay) # 0
  BY ONLY <1>2, OlderIsPositive
<1>4. Aged[i].sent = Older(queue[i].sent, WaitDelay)
  BY <1>1 DEF Aged, Entries
<1> QED BY <1>3, <1>4

LEMMA RemainingIsOlder ==
    ASSUME NEW q \in Seq(Entries), Older1(q), NEW N \in Nat, N <= Len(q)
    PROVE  Remaining(q, N) \in Seq(Entries) /\ Older1(Remaining(q, N))
<1> DEFINE T == {p \in (0 .. N) \X Seq(Entries) : Older1(p[2])}
<1>1. PICK kept :
         /\ kept[0] = <<>> /\ Remaining(q, N) = kept[N]
         /\ \A k \in 1 .. N :
               kept[k] = IF Gone(q[k]) THEN kept[k - 1] ELSE Append(kept[k - 1], q[k])
  BY LoopExists
<1>2. <<0, kept[0]>> \in T
  <2>1. <<>> \in Seq(Entries) /\ 1 .. Len(<<>>) = {} /\ 0 \in 0 .. N
    OBVIOUS
  <2> QED BY <1>1, <2>1 DEF Older1
<1>3. ASSUME NEW k \in 1 .. N, <<k - 1, kept[k - 1]>> \in T
      PROVE  <<k, kept[k]>> \in T
  <2> DEFINE s == kept[k - 1]
             u == Append(s, q[k])
  <2>1. s \in Seq(Entries) /\ Older1(s) /\ k \in 0 .. N
    BY <1>3
  <2>2. k \in 1 .. Len(q) /\ q[k] \in Entries /\ q[k].sent # 0
    <3>1. k \in 1 .. Len(q)
      BY LenProperties
    <3> QED BY <3>1, ElementOfSeq DEF Older1
  <2> HIDE DEF s
  <2>3. /\ u \in Seq(Entries) /\ Len(u) = Len(s) + 1 /\ u[Len(s) + 1] = q[k]
        /\ \A i \in 1 .. Len(s) : u[i] = s[i]
    BY <2>1, <2>2, AppendProperties
  <2> HIDE DEF u
  <2>4. Older1(u)
    <3>1. \A i \in 1 .. Len(u) : i \in 1 .. Len(s) \/ i = Len(s) + 1
      BY <2>1, <2>3, LenProperties
    <3> QED BY <2>1, <2>2, <2>3, <3>1 DEF Older1
  <2>5. kept[k] = IF Gone(q[k]) THEN s ELSE u
    BY <1>1 DEF s, u
  <2> QED BY <2>1, <2>3, <2>4, <2>5
<1>4. <<N, kept[N]>> \in T
  <2> HIDE DEF T
  <2> QED BY <1>2, <1>3, LoopInduction
<1> QED BY <1>1, <1>4

LEMMA PieceIsOlder ==
    ASSUME NEW q \in Seq(Entries), Distinct(q), Older1(q), NEW lo \in Nat, 1 <= lo,
           NEW hi \in Int, hi <= Len(q)
    PROVE  SubSeq(q, lo, hi) \in Seq(Entries) /\ Older1(SubSeq(q, lo, hi))
<1> DEFINE s == SubSeq(q, lo, hi)
<1>1. /\ s \in Seq(Entries)
      /\ \A k \in 1 .. Len(s) : lo + k - 1 \in lo .. hi /\ s[k] = q[lo + k - 1]
  BY PieceIsPart DEF Part
<1> HIDE DEF s
<1>2. \A k \in 1 .. Len(s) : lo + k - 1 \in 1 .. Len(q)
  BY <1>1, LenProperties
<1> QED BY <1>1, <1>2 DEF Older1, s

LEMMA JoinOlder ==
    ASSUME NEW s \in Seq(Entries), NEW u \in Seq(Entries), Older1(s), Older1(u)
    PROVE  s \o u \in Seq(Entries) /\ Older1(s \o u)
<1> DEFINE r == s \o u
<1>1. /\ r \in Seq(Entries) /\ Len(r) = Len(s) + Len(u) /\ Len(s) \in Nat /\ Len(u) \in Nat
      /\ \A k \in 1 .. Len(s) + Len(u) : r[k] = IF k <= Len(s) THEN s[k] ELSE u[k - Len(s)]
  BY ConcatProperties, LenProperties
<1> HIDE DEF r
<1>2. \A k \in 1 .. Len(r) : \/ k \in 1 .. Len(s) /\ r[k] = s[k]
                             \/ k - Len(s) \in 1 .. Len(u) /\ r[k] = u[k - Len(s)]
  BY <1>1
<1> QED BY <1>1, <1>2 DEF Older1, r

\* One answer between others that are older.
LEMMA OneAnswered ==
    ASSUME NEW s \in Seq(Entries), NEW u \in Seq(Entries), Older1(s), Older1(u), NEW e \in Entries
    PROVE  \A k \in DOMAIN (s \o <<e>> \o u) :
              LET x == (s \o <<e>> \o u)[k] IN x.sent # 0 \/ x = e
<1> DEFINE v == s \o <<e>>
           r == v \o u
<1>1. v = Append(s, e)
  BY AppendIsConcat
<1> HIDE DEF v
<1>2. /\ v \in Seq(Entries) /\ Len(v) = Len(s) + 1 /\ Len(s) \in Nat /\ v[Len(s) + 1] = e
      /\ \A k \in 1 .. Len(s) : v[k] = s[k]
  BY <1>1, AppendProperties, LenProperties
<1>3. /\ r \in Seq(Entries) /\ Len(r) = Len(v) + Len(u) /\ Len(u) \in Nat
      /\ \A k \in 1 .. Len(v) + Len(u) : r[k] = IF k <= Len(v) THEN v[k] ELSE u[k - Len(v)]
  BY <1>2, ConcatProperties, LenProperties
<1> HIDE DEF r
<1>4. DOMAIN r = 1 .. Len(r)
  BY <1>3, LenProperties
<1>5. \A k \in DOMAIN r : \/ k \in 1 .. Len(s) /\ r[k] = s[k]
                          \/ r[k] = e
                          \/ k - Len(v) \in 1 .. Len(u) /\ r[k] = u[k - Len(v)]
  BY <1>2, <1>3, <1>4
<1>6. \A k \in DOMAIN r : r[k].sent # 0 \/ r[k] = e
  BY <1>5 DEF Older1
<1> QED BY <1>6 DEF r, v

LEMMA NobodyTold ==
    ASSUME NEW r \in Seq(Entries), Older1(r), queue' = r
    PROVE  \A c \in Clients : ~Told(c)'
<1>1. DOMAIN r = 1 .. Len(r)
  BY LenProperties
<1> QED BY <1>1 DEF Told, Older1

LEMMA AnsweredListens ==
    ASSUME NEW s \in Seq(Entries), NEW u \in Seq(Entries), Older1(s), Older1(u), NEW e \in Entries,
           queue' = s \o <<e>> \o u, NEW S, Connections(S),
           e.port => e.client \in S \/ StillListens(e.client)
    PROVE  \A c \in Clients : Told(c)' => conn'[c] = "listening"
<1> DEFINE r == s \o <<e>> \o u
<1>1. \A k \in DOMAIN r : r[k].sent # 0 \/ r[k] = e
  BY OneAnswered
<1>2. queue' = r
  OBVIOUS
<1> HIDE DEF r
<1>3. ASSUME NEW c \in Clients, Told(c)' PROVE e.client = c /\ e.port
  BY <1>1, <1>2, <1>3 DEF Told
<1>4. ASSUME NEW c \in Clients, Told(c)' PROVE conn'[c] = "listening"
  <2>1. c \in S \/ StillListens(c)
    BY <1>3, <1>4
  <2> QED BY <2>1 DEF Connections
<1> QED BY <1>4

\* Whom a main loop tells to enter, a connection listens for.
LEMMA LoopTells ==
    ASSUME QInv, Queue_loop
    PROVE  \A c \in Clients : Told(c)' => conn'[c] = "listening"
<1> DEFINE q == Aged
           ports == IF \A i \in DOMAIN q : q[i].port THEN Len(q)
                    ELSE Min({i \in DOMAIN q : ~q[i].port}) - 1
           due == {i \in 1 .. ports : ~Gone(q[i]) /\ q[i].sent > AckDelay}
           head == Remaining(q, ports)
           next == ports + 1
           wakes == {i \in next .. Len(q) : Expired(q[i]) \/ q[i].sent >= WaitDelay}
           offers == next <= Len(q) /\ ~Expired(q[next]) /\ unqueued >= AckDelay /\ Room
<1>1. /\ Shape(q) /\ Len(q) \in Nat /\ DOMAIN q = 1 .. Len(q) /\ q \in Seq(Entries)
      /\ Distinct(q) /\ Older1(q) /\ \A i \in 1 .. Len(q) : q[i] \in Entries
  BY AgedShape, AgedIsOlder, LenProperties, ElementOfSeq DEF Shape
<1>2. /\ ports \in Nat /\ ports <= Len(q)
      /\ \A i \in ports + 1 .. Len(q) : ~q[i].port
  <2> HIDE DEF q
  <2> QED BY <1>1, FrontFirst
<1> DEFINE Kept(n) == Remaining(q, n)
<1>3. ASSUME NEW n \in Nat, n <= Len(q) PROVE Kept(n) \in Seq(Entries) /\ Older1(Kept(n))
  <2> HIDE DEF q
  <2> QED BY <1>1, <1>3, RemainingIsOlder
<1>4. ASSUME NEW n \in Nat, n <= Len(q)
      PROVE  Without(q, n) \in Seq(Entries) /\ Older1(Without(q, n))
  <2> DEFINE lo == n + 1
             hi == Len(q)
  <2>1. lo \in Nat /\ 1 <= lo /\ hi \in Int /\ hi <= Len(q)
    BY <1>1
  <2>2. SubSeq(q, lo, hi) \in Seq(Entries) /\ Older1(SubSeq(q, lo, hi))
    <3> HIDE DEF q, lo, hi
    <3> QED BY <1>1, <2>1, PieceIsOlder
  <2> QED BY <2>2 DEF Without
<1>5. \A i \in 1 .. Len(q) : /\ Answered(q[i]) \in Entries
                             /\ Answered(q[i]).client = q[i].client
                             /\ Answered(q[i]).port = q[i].port
  BY <1>1 DEF Answered, Entries
<1>6. CASE due # {}
  <2> DEFINE i == Min(due)
             m == i - 1
             s == Remaining(q, m)
             e == Answered(q[i])
             u == Without(q, i)
  <2>1. Result(s \o <<e>> \o u, {}, i - 1 - Len(s))
    BY <1>6, Zenon DEF Queue_loop
  <2>2. i \in due
    <3>1. due \in SUBSET Nat
      BY <1>2
    <3> HIDE DEF due
    <3> QED BY <1>6, <3>1, LeastNumber
  <2> HIDE DEF i, q, ports
  <2>3. i \in 1 .. Len(q) /\ i \in Nat /\ m \in Nat /\ m <= Len(q) /\ i <= Len(q)
    BY <1>1, <1>2, <2>2
  <2>4. s \in Seq(Entries) /\ Older1(s) /\ u \in Seq(Entries) /\ Older1(u) /\ e \in Entries
        /\ e.client = q[i].client
    <3> HIDE DEF m
    <3>1. s \in Seq(Entries) /\ Older1(s)
      BY <1>3, <2>3
    <3>2. u \in Seq(Entries) /\ Older1(u)
      BY <1>4, <2>3
    <3> QED BY <1>5, <2>3, <3>1, <3>2
  <2>5. StillListens(q[i].client)
    <3>1. q[i].sent \in Nat /\ CheckDelay \in Nat /\ AckDelay \in Nat /\ CheckDelay <= AckDelay
      BY <1>1, <2>3, QueueAssumption DEF Entries
    <3>2. q[i].sent > AckDelay /\ ~Gone(q[i])
      BY <2>2
    <3>3. q[i].sent > CheckDelay
      BY <3>1, <3>2
    <3> QED BY <3>2, <3>3 DEF Gone, Check_connection
  <2> HIDE DEF s, e, u, m
  <2>6. queue' = s \o <<e>> \o u /\ Connections({})
    BY <2>1 DEF Result
  <2>7. e.port => e.client \in {} \/ StillListens(e.client)
    BY <2>4, <2>5
  <2> QED BY <2>4, <2>6, <2>7, AnsweredListens
<1>7. CASE due = {} /\ offers /\ conn[q[next].client] \in {"free", "listening"}
  <2> DEFINE e == [Answered(q[next]) EXCEPT !.port = TRUE]
             u == Without(q, next)
             c == q[next].client
  <2>1. Result(head \o <<e>> \o u, {c}, ports - Len(head))
    BY <1>7, Zenon DEF Queue_loop
  <2>2. next \in 1 .. Len(q) /\ next \in Nat /\ next <= Len(q)
    BY <1>1, <1>2, <1>7
  <2>3. e \in Entries /\ e.client = c
    BY <1>5, <2>2 DEF Entries
  <2>4. head \in Seq(Entries) /\ Older1(head)
    BY <1>2, <1>3
  <2>5. u \in Seq(Entries) /\ Older1(u)
    BY <1>4, <2>2
  <2> HIDE DEF head, e, u, c, q, ports, next
  <2>6. queue' = head \o <<e>> \o u /\ Connections({c})
    BY <2>1 DEF Result
  <2>7. e.port => e.client \in {c} \/ StillListens(e.client)
    BY <2>3
  <2> QED BY <2>3, <2>4, <2>5, <2>6, <2>7, AnsweredListens
<1>8. CASE due = {} /\ offers /\ conn[q[next].client] \notin {"free", "listening"}
  <2> DEFINE u == Without(q, next)
  <2>1. Result(head \o u, {}, ports - Len(head) + 1)
    BY <1>8, Zenon DEF Queue_loop
  <2>2. next \in Nat /\ next <= Len(q)
    BY <1>1, <1>2, <1>8
  <2>3. head \in Seq(Entries) /\ Older1(head)
    BY <1>2, <1>3
  <2>4. u \in Seq(Entries) /\ Older1(u)
    BY <1>4, <2>2
  <2> HIDE DEF head, u, q, ports, next
  <2> DEFINE r == head \o u
  <2>5. r \in Seq(Entries) /\ Older1(r)
    BY <2>3, <2>4, JoinOlder
  <2>6. queue' = r
    BY <2>1 DEF Result
  <2> HIDE DEF r
  <2> QED BY <2>5, <2>6, NobodyTold
<1>9. CASE due = {} /\ ~offers /\ wakes # {}
  <2> DEFINE i == Min(wakes)
             hi == i - 1
             between == SubSeq(q, next, hi)
             e == Answered(q[i])
             u == Without(q, i)
             t == head \o between
  <2>1. i \in next .. Len(q)
    <3>1. wakes \in SUBSET Nat
      <4> HIDE DEF q, ports
      <4> QED BY <1>1, <1>2
    <3>2. Min(wakes) \in wakes
      <4> HIDE DEF wakes
      <4> QED BY <1>9, <3>1, LeastNumber
    <3> QED BY <3>2
  <2>2. Expired(q[i]) => Result(t \o u, {}, ports - Len(head) + 1)
    BY <1>9, Zenon DEF Queue_loop
  <2>3. ~Expired(q[i]) => Result(t \o <<e>> \o u, {}, ports - Len(head))
    BY <1>9, Zenon DEF Queue_loop
  <2> HIDE DEF q, ports, i
  <2>4. /\ i \in Nat /\ i <= Len(q) /\ i \in 1 .. Len(q) /\ next \in Nat /\ 1 <= next
        /\ hi \in Int /\ hi <= Len(q) /\ i \in ports + 1 .. Len(q)
    BY <1>1, <1>2, <2>1
  <2>5. head \in Seq(Entries) /\ Older1(head)
    BY <1>2, <1>3
  <2>6. u \in Seq(Entries) /\ Older1(u)
    BY <1>4, <2>4
  <2>7. between \in Seq(Entries) /\ Older1(between)
    <3> HIDE DEF next, hi
    <3> QED BY <1>1, <2>4, PieceIsOlder
  <2>8. e \in Entries /\ ~e.port
    BY <1>2, <1>5, <2>4
  <2> HIDE DEF between, head, u, e, next, hi
  <2>9. t \in Seq(Entries) /\ Older1(t)
    BY <2>5, <2>7, JoinOlder
  <2> HIDE DEF t
  <2>10. CASE Expired(q[i])
    <3> DEFINE r == t \o u
    <3>1. r \in Seq(Entries) /\ Older1(r)
      BY <2>6, <2>9, JoinOlder
    <3>2. queue' = r
      BY <2>2, <2>10 DEF Result
    <3> HIDE DEF r
    <3> QED BY <3>1, <3>2, NobodyTold
  <2>11. CASE ~Expired(q[i])
    <3>1. queue' = t \o <<e>> \o u /\ Connections({})
      BY <2>3, <2>11 DEF Result
    <3>2. e.port => e.client \in {} \/ StillListens(e.client)
      BY <2>8
    <3> QED BY <2>6, <2>8, <2>9, <3>1, <3>2, AnsweredListens
  <2> QED BY <2>10, <2>11
<1>10. CASE due = {} /\ ~offers /\ wakes = {}
  <2> DEFINE u == Without(q, ports)
  <2>1. Result(head \o u, {}, ports - Len(head))
    BY <1>10, Zenon DEF Queue_loop
  <2>2. head \in Seq(Entries) /\ Older1(head)
    BY <1>2, <1>3
  <2>3. u \in Seq(Entries) /\ Older1(u)
    BY <1>2, <1>4
  <2> HIDE DEF head, u, q, ports
  <2> DEFINE r == head \o u
  <2>4. r \in Seq(Entries) /\ Older1(r)
    BY <2>2, <2>3, JoinOlder
  <2>5. queue' = r
    BY <2>1 DEF Result
  <2> HIDE DEF r
  <2> QED BY <2>4, <2>5, NobodyTold
<1> QED BY <1>6, <1>7, <1>8, <1>9, <1>10

\* Other steps tell nobody who had not been told.
LEMMA OthersTellNobody ==
    ASSUME QInv, Next, ~Main_loop, NEW c \in Clients, Told(c)'
    PROVE  Told(c)
<1>1. /\ queue \in Seq(Entries) /\ DOMAIN queue = 1 .. Len(queue) /\ Len(queue) \in Nat
      /\ \A i \in 1 .. Len(queue) : queue[i] \in Entries
  BY LenProperties, ElementOfSeq DEF QInv, Shape
<1>2. CASE queue' = queue
  BY <1>2 DEF Told
<1>3. ASSUME NEW x \in Clients, Contact(x) PROVE Told(c)
  <2>1. Queue_player(x)
    BY <1>3 DEF Contact
  <2>2. CASE queue' = [i \in DOMAIN queue |->
                IF queue[i].client = x THEN [queue[i] EXCEPT !.recv = 0] ELSE queue[i]]
    BY <1>1, <2>2 DEF Told, Entries
  <2>3. CASE queue' = Append(queue, Entry(x))
    <3> DEFINE r == Append(queue, Entry(x))
               n == Len(queue)
    <3>1. Entry(x) \in Entries /\ Entry(x).port = FALSE
      BY DEF Entry, Entries
    <3>2. /\ r \in Seq(Entries) /\ Len(r) = n + 1 /\ r[n + 1] = Entry(x)
          /\ \A i \in 1 .. n : r[i] = queue[i]
      BY <1>1, <3>1, AppendProperties
    <3> HIDE DEF r
    <3>3. \A k \in DOMAIN r : k \in 1 .. n \/ k = n + 1
      BY <1>1, <3>2, LenProperties
    <3>4. queue' = r
      BY <2>3 DEF r
    <3> QED BY <1>1, <3>1, <3>2, <3>3, <3>4 DEF Told
  <2> QED BY <1>2, <2>1, <2>2, <2>3 DEF Queue_player
<1>4. ASSUME NEW i \in DOMAIN queue, Queue_advance_player(i) PROVE Told(c)
  <2> DEFINE r == Advanced(i)
  <2>1. \A k \in DOMAIN r : \E l \in DOMAIN queue : r[k] = queue[l]
    <3>1. /\ Shape(r) /\ Len(r) = Len(queue)
          /\ \A k \in 1 .. Len(queue) : \E l \in 1 .. Len(queue) : r[k] = queue[l]
      BY <1>4, AdvancedShape DEF Queue_advance_player, QInv
    <3> HIDE DEF r
    <3>2. DOMAIN r = 1 .. Len(queue)
      BY <3>1, LenProperties DEF Shape
    <3> QED BY <1>1, <3>1, <3>2
  <2>2. queue' = r
    BY <1>4 DEF Queue_advance_player
  <2> HIDE DEF r
  <2> QED BY <2>1, <2>2 DEF Told
<1>5. ASSUME NEW x \in Clients, Handle_listening(x) \/ Handle_login(x) \/ Destroy_connection(x)
      PROVE  Told(c)
  BY <1>2, <1>5 DEF Handle_listening, Handle_login, Destroy_connection
<1> QED BY <1>3, <1>4, <1>5 DEF Next

\* A client who is told to enter has a connection that listens for him; that
\* his old place in the queue, with its port, outlives the connection misleads
\* nobody (contact.c:692).
THEOREM OffersListenAlways == Spec => OffersListen
<1>1. QInv /\ [Next]_vars => [\A c \in Clients : ~Told(c) /\ Told(c)' => conn'[c] = "listening"]_vars
  BY LoopTells, OthersTellNobody DEF Main_loop
<1>2. Spec => []QInv
  <2>1. QInv /\ Inv /\ [Next]_vars => (QInv /\ Inv)'
    BY StepQueue, StepFits
  <2> QED BY <2>1, InitQueue, InitFits, PTL DEF Spec
<1> QED BY <1>1, <1>2, PTL DEF Spec, OffersListen

-----------------------------------------------------------------------------
(* First come, first served: who is behind another stays behind him.       *)

LEMMA OrderKept ==
    ASSUME QInv, InOrder(queue, queue'), DOMAIN queue' = 1 .. Len(queue')
    PROVE  \A c, d \in Clients : ~Overtakes(d, c)
<1>1. DOMAIN queue = 1 .. Len(queue) /\ Len(queue) \in Nat
  BY LenProperties DEF QInv, Shape
<1> SUFFICES ASSUME NEW c, NEW d, Overtakes(d, c) PROVE FALSE
  OBVIOUS
<1>2. PICK x, y \in 1 .. Len(queue) : x < y /\ queue[x].client = c /\ queue[y].client = d
  BY <1>1 DEF Overtakes, Before
<1>3. PICK k, l \in 1 .. Len(queue') : k < l /\ queue'[k].client = d /\ queue'[l].client = c
  BY DEF Overtakes, Before
<1>4. y < x
  BY <1>2, <1>3 DEF InOrder
<1> QED BY <1>1, <1>2, <1>4

LEMMA OrderItself ==
    ASSUME QInv
    PROVE  InOrder(queue, queue)
BY DEF QInv, Shape, Distinct, InOrder

LEMMA ContactOrder ==
    ASSUME QInv, NEW c \in Clients, Queue_player(c)
    PROVE  InOrder(queue, queue')
<1>1. /\ queue \in Seq(Entries) /\ Distinct(queue) /\ Len(queue) \in Nat
      /\ DOMAIN queue = 1 .. Len(queue) /\ \A i \in 1 .. Len(queue) : queue[i] \in Entries
  BY LenProperties, ElementOfSeq DEF QInv, Shape
<1>2. CASE queue' = queue
  <2>1. InOrder(queue, queue)
    BY OrderItself
  <2> QED BY <1>2, <2>1
<1>3. CASE queue' = [i \in DOMAIN queue |->
                        IF queue[i].client = c THEN [queue[i] EXCEPT !.recv = 0] ELSE queue[i]]
  <2> DEFINE r == queue'
  <2>1. \A i \in 1 .. Len(queue) : r[i] \in Entries /\ r[i].client = queue[i].client
    BY <1>1, <1>3 DEF Entries
  <2>2. r \in [1 .. Len(queue) -> Entries]
    BY <1>1, <1>3, <2>1
  <2> HIDE DEF r
  <2>3. r \in Seq(Entries)
    BY <1>1, <2>2, SeqDef
  <2>4. Len(r) = Len(queue)
    <3>1. DOMAIN r = 1 .. Len(queue) /\ DOMAIN r = 1 .. Len(r) /\ Len(r) \in Nat
      BY <2>2, <2>3, LenProperties
    <3> QED BY <1>1, <3>1
  <2>5. InOrder(queue, r)
    BY <1>1, <2>1, <2>4 DEF Distinct, InOrder
  <2> QED BY <2>5 DEF r
<1>4. CASE c \notin Queued /\ queue' = Append(queue, Entry(c))
  <2> DEFINE r == Append(queue, Entry(c))
             n == Len(queue)
  <2>1. Entry(c) \in Entries /\ Entry(c).client = c
    BY DEF Entry, Entries
  <2>2. /\ r \in Seq(Entries) /\ Len(r) = n + 1 /\ r[n + 1] = Entry(c)
        /\ \A i \in 1 .. n : r[i] = queue[i]
    BY <1>1, <2>1, AppendProperties
  <2> HIDE DEF r
  <2>3. \A i \in 1 .. n : queue[i].client # c
    BY <1>1, <1>4 DEF Queued
  <2>4. InOrder(queue, r)
    <3> SUFFICES ASSUME NEW k \in 1 .. Len(r), NEW j \in 1 .. Len(r), k < j,
                        NEW x \in 1 .. n, NEW y \in 1 .. n,
                        r[k].client = queue[x].client, r[j].client = queue[y].client
                 PROVE  x < y
      BY DEF InOrder
    <3>1. j # n + 1
      BY <2>1, <2>2, <2>3
    <3>2. j \in 1 .. n /\ k \in 1 .. n
      BY <1>1, <2>2, <3>1
    <3>3. x = k /\ y = j
      BY <1>1, <2>2, <3>2 DEF Distinct
    <3> QED BY <3>3
  <2> QED BY <1>4, <2>4 DEF r
<1> QED BY <1>2, <1>3, <1>4 DEF Queue_player

\* Only who is moved up comes before others, and these wait.
LEMMA OneAdvances ==
    ASSUME QInv, NEW i \in DOMAIN queue, Queue_advance_player(i),
           NEW c, NEW d, Overtakes(d, c)
    PROVE  d = queue[i].client /\ ~Enters(c)
<1> DEFINE r == Advanced(i)
<1>1. /\ DOMAIN queue = 1 .. Len(queue) /\ Len(queue) \in Nat /\ Distinct(queue)
      /\ Shape(queue)
  BY LenProperties DEF QInv, Shape
<1>2. /\ Shape(r) /\ Len(r) = Len(queue)
      /\ \A k, l, x, y \in 1 .. Len(queue) :
            /\ k < l /\ y < x /\ r[k].client = queue[x].client /\ r[l].client = queue[y].client
            => x = i /\ ~queue[y].port
  BY <1>1, AdvancedShape DEF Queue_advance_player
<1>3. queue' = r
  BY DEF Queue_advance_player
<1> HIDE DEF r
<1>4. DOMAIN r = 1 .. Len(queue)
  BY <1>2, LenProperties DEF Shape
<1>5. PICK y, x \in 1 .. Len(queue) : y < x /\ queue[y].client = c /\ queue[x].client = d
  BY <1>1 DEF Overtakes, Before
<1>6. PICK k, l \in 1 .. Len(queue) : k < l /\ r[k].client = d /\ r[l].client = c
  BY <1>3, <1>4 DEF Overtakes, Before
<1>7. x = i /\ ~queue[y].port
  BY <1>2, <1>5, <1>6
<1> QED BY <1>1, <1>5, <1>7 DEF Distinct, Enters

LEMMA StepServes ==
    ASSUME QInv, Inv, [Next]_vars, NEW c \in Clients, NEW d \in Clients, Overtakes(d, c)
    PROVE  /\ advances' = advances + 1 /\ ~Enters(c)
           /\ \A b, e \in Clients : Overtakes(e, b) => e = d
<1>1. DOMAIN queue' = 1 .. Len(queue')
  <2>1. QInv'
    BY StepQueue
  <2> QED BY <2>1, LenProperties DEF QInv, Shape
<1>2. ASSUME InOrder(queue, queue') PROVE FALSE
  BY <1>1, <1>2, OrderKept
<1>3. ~Main_loop
  <2> SUFFICES ASSUME Main_loop PROVE FALSE
    OBVIOUS
  <2>1. InOrder(Aged, queue')
    BY LoopInv DEF Main_loop
  <2>2. Len(Aged) = Len(queue) /\ \A j \in 1 .. Len(queue) : Aged[j].client = queue[j].client
    BY AgedShape
  <2>3. InOrder(queue, queue')
    BY <2>1, <2>2 DEF InOrder
  <2> QED BY <1>2, <2>3
<1>4. ASSUME NEW x \in Clients, Contact(x) PROVE FALSE
  BY <1>2, <1>4, ContactOrder DEF Contact
<1>5. ASSUME queue' = queue PROVE FALSE
  BY <1>2, <1>5, OrderItself
<1>6. ASSUME NEW x \in Clients, Handle_listening(x) \/ Handle_login(x) \/ Destroy_connection(x)
      PROVE  FALSE
  BY <1>5, <1>6 DEF Handle_listening, Handle_login, Destroy_connection
<1>7. PICK i \in DOMAIN queue : Queue_advance_player(i)
  BY <1>3, <1>4, <1>5, <1>6 DEF Next, vars
<1>8. \A b, e : Overtakes(e, b) => e = queue[i].client /\ ~Enters(b)
  BY <1>7, OneAdvances
<1> QED BY <1>7, <1>8 DEF Queue_advance_player

\* In the queue for the game who comes first is served first: however clients ask
\* again, fall silent or are let in, only an operator moves somebody past others,
\* one at a time and past nobody who is entering (contact.c:879).
THEOREM FirstAlwaysServed == Spec => FirstComesFirst
<1>1. QInv /\ Inv /\ [Next]_vars =>
          [\A c, d \in Clients : Overtakes(d, c) =>
                /\ advances' = advances + 1 /\ ~Enters(c)
                /\ \A b, e \in Clients : Overtakes(e, b) => e = d]_vars
  BY StepServes
<1>2. Spec => [](QInv /\ Inv)
  <2>1. QInv /\ Inv /\ [Next]_vars => (QInv /\ Inv)'
    BY StepQueue, StepFits
  <2> QED BY <2>1, InitQueue, InitFits, PTL DEF Spec
<1> QED BY <1>1, <1>2, PTL DEF Spec, FirstComesFirst
=============================================================================

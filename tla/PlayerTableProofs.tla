-------------------------- MODULE PlayerTableProofs --------------------------
(***************************************************************************)
(* Proofs about the table of the players, for every number of identifiers, *)
(* structures and tanks.                                                   *)
(*                                                                         *)
(* A table is sound while some players are leaving (Sound): what the index *)
(* says of who is present, of who leaves and of who is neither.  The two   *)
(* halves of Delete_player put one player among those who leave, and take  *)
(* him away; in between the loop over the tanks does both for each of      *)
(* them.  Players are counted by their identifiers (Kin), which a move     *)
(* within the table does not change.                                       *)
(***************************************************************************)
EXTENDS PlayerTable, FiniteSetTheorems, FunctionTheorems, SequenceTheorems,
        WellFoundedInduction, TLAPS

\* All tables, sound or not.
Tables == [array : [Places -> PlayerRecords], num : 0 .. NumIds,
           index : [Ids -> Places \cup {NoInd}], robots : Int, tanks : Int,
           free : Seq(Ids), broken : BOOLEAN]

\* The identifiers of the players of one kind.
Kin(t, k) == {id \in Ids : /\ t.index[id] \in 0 .. t.num - 1
                           /\ t.array[t.index[id]].kind = k}

\* Who is present is where the index says, who leaves (the players gone) behind
\* them, and who is neither in the pool; and nobody has two structures.
Placed(t, gone) ==
    /\ \A i \in 0 .. t.num - 1 : t.array[i].id \in Ids /\ t.index[t.array[i].id] = i
    /\ \A id \in Ids : t.index[id] \in 0 .. t.num - 1 => t.array[t.index[id]].id = id
    /\ \A id \in Ids : t.index[id] \notin 0 .. t.num - 1 => (id \in gone <=> t.index[id] # NoInd)
    /\ \A id \in gone : t.index[id] \notin 0 .. t.num - 1
    /\ \A i, j \in Places : i # j /\ t.array[i].id = t.array[j].id => t.array[i].id = NoId
Pooled(t, gone) ==
    /\ \A id \in Ids : t.index[id] = NoInd <=> \E k \in 1 .. Len(t.free) : t.free[k] = id
    /\ \A k, l \in 1 .. Len(t.free) : t.free[k] = t.free[l] => k = l
    /\ Len(t.free) = NumIds - t.num - Cardinality(gone)
Counted(t) ==
    /\ t.robots = Cardinality(Kin(t, "robot"))
    /\ t.tanks = Cardinality(Kin(t, "tank"))
Sound(t, gone) == Placed(t, gone) /\ Pooled(t, gone) /\ Counted(t)

\* The owner of a tank is present and no tank, or it is id and the tank is below m.
IsTank(r) == r.kind = "tank" /\ r.owner # NoId
Owned(t, id, m) ==
    \A i \in 0 .. t.num - 1 : IsTank(t.array[i]) =>
        \/ t.array[i].owner = id /\ i < m
        \/ /\ t.array[i].owner \in Ids
           /\ t.index[t.array[i].owner] \in 0 .. t.num - 1
           /\ t.array[t.index[t.array[i].owner]].kind # "tank"

\* From t to u, x is no longer present, and everybody else is as before.
Keeps(t, u, x) ==
    /\ \A id \in Ids \ {x} :
          /\ u.index[id] \in 0 .. u.num - 1 <=> t.index[id] \in 0 .. t.num - 1
          /\ t.index[id] \in 0 .. t.num - 1 => u.array[u.index[id]] = t.array[t.index[id]]
          /\ u.index[id] = NoInd <=> t.index[id] = NoInd
    /\ u.index[x] \notin 0 .. u.num - 1 /\ u.index[x] # NoInd

\* The places from v on hold players of U only.
Above(t, v, U) == \A i \in v .. t.num - 1 : t.array[i].id \in U

-----------------------------------------------------------------------------

LEMMA NumbersOfIds == NumIds \in Nat /\ NumIds < NumStructs /\ NumStructs \in Nat
BY TableAssumption, FS_CardinalityType DEF NumIds

\* A table in which one thing is changed.
LEMMA TableUpdates ==
    ASSUME NEW t \in Tables
    PROVE  /\ \A x \in 0 .. NumIds : [t EXCEPT !.num = x] \in Tables
           /\ \A x \in [Places -> PlayerRecords] : [t EXCEPT !.array = x] \in Tables
           /\ \A x \in [Ids -> Places \cup {NoInd}] : [t EXCEPT !.index = x] \in Tables
           /\ \A x \in Int : [t EXCEPT !.robots = x] \in Tables
           /\ \A x \in Int : [t EXCEPT !.tanks = x] \in Tables
           /\ \A x \in Seq(Ids) : [t EXCEPT !.free = x] \in Tables
           /\ \A x \in BOOLEAN : [t EXCEPT !.broken = x] \in Tables
BY DEF Tables

\* What s taken out of t means for each part of the table.
LEMMA TakeOutFields ==
    ASSUME NEW t \in Tables, NEW s \in PlayerRecords, s.id \in Ids,
           t.index[s.id] \in 0 .. t.num - 1
    PROVE  LET u == TakeOut(t, s)
               i == t.index[s.id]
               last == t.num - 1
           IN  /\ u \in Tables
               /\ i \in Places /\ last \in Places /\ t.num \in Nat
               /\ u.num = last
               /\ u.array = [t.array EXCEPT ![last] = s, ![i] = t.array[last]]
               /\ u.index = [t.index EXCEPT ![t.array[last].id] = i, ![s.id] = last]
               /\ u.robots = IF s.kind = "robot" THEN t.robots - 1 ELSE t.robots
               /\ u.tanks = IF s.kind = "tank" THEN t.tanks - 1 ELSE t.tanks
               /\ u.free = t.free /\ u.broken = t.broken
<1> DEFINE i == t.index[s.id]
           last == t.num - 1
           u == TakeOut(t, s)
<1>1. i \in Places /\ last \in Places /\ t.num \in 0 .. NumIds /\ last \in 0 .. NumIds
  BY NumbersOfIds DEF Tables, Places
<1>2. /\ u.num = last
      /\ u.array = [t.array EXCEPT ![last] = s, ![i] = t.array[last]]
      /\ u.index = [t.index EXCEPT ![t.array[last].id] = i, ![s.id] = last]
      /\ u.robots = IF s.kind = "robot" THEN t.robots - 1 ELSE t.robots
      /\ u.tanks = IF s.kind = "tank" THEN t.tanks - 1 ELSE t.tanks
      /\ u.free = t.free /\ u.broken = t.broken
  BY DEF TakeOut, Uncount, Tables
<1>4. u.array \in [Places -> PlayerRecords]
  <2>1. t.array \in [Places -> PlayerRecords]
    BY DEF Tables
  <2> QED BY <1>1, <1>2, <2>1
<1>5. u.index \in [Ids -> Places \cup {NoInd}]
  <2>1. t.index \in [Ids -> Places \cup {NoInd}]
    BY DEF Tables
  <2> QED BY <1>1, <1>2, <2>1
<1>6. u.robots \in Int /\ u.tanks \in Int /\ u.free \in Seq(Ids) /\ u.broken \in BOOLEAN
  BY <1>2 DEF Tables
<1>7. u \in Tables
  <2> DEFINE t1 == [t EXCEPT !.num = u.num]
             t2 == [t1 EXCEPT !.array = u.array]
             t3 == [t2 EXCEPT !.index = u.index]
             t4 == [t3 EXCEPT !.robots = u.robots]
  <2>1. u = [t4 EXCEPT !.tanks = u.tanks]
    BY <1>2 DEF TakeOut, Uncount
  <2>2. t1 \in Tables
    BY <1>1, <1>2, TableUpdates
  <2>3. t2 \in Tables
    BY <1>4, <2>2, TableUpdates
  <2>4. t3 \in Tables
    BY <1>5, <2>3, TableUpdates
  <2>5. t4 \in Tables
    BY <1>6, <2>4, TableUpdates
  <2> QED BY <1>6, <2>1, <2>5, TableUpdates
<1> QED BY <1>1, <1>2, <1>7

\* Players are put among those who leave ...
LEMMA TakeOutPlaced ==
    ASSUME NEW t \in Tables, NEW gone \in SUBSET Ids, Placed(t, gone), NEW s \in PlayerRecords,
           s.id \in Ids, t.index[s.id] \in 0 .. t.num - 1, s = t.array[t.index[s.id]]
    PROVE  /\ Placed(TakeOut(t, s), gone \cup {s.id}) /\ s.id \notin gone
           /\ Keeps(t, TakeOut(t, s), s.id)
<1> DEFINE u == TakeOut(t, s)
           i == t.index[s.id]
           last == t.num - 1
<1>1. /\ u \in Tables /\ i \in 0 .. last /\ i \in Places /\ last \in Places /\ u.num = last
      /\ u.array = [t.array EXCEPT ![last] = s, ![i] = t.array[last]]
      /\ u.index = [t.index EXCEPT ![t.array[last].id] = i, ![s.id] = last]
  BY TakeOutFields
<1>2. /\ t.array \in [Places -> PlayerRecords] /\ t.index \in [Ids -> Places \cup {NoInd}]
      /\ t.num \in 0 .. NumIds /\ NumIds \in Nat
      /\ \A j \in 0 .. last : j \in Places
  BY NumbersOfIds DEF Tables, Places
<1>3. \A j \in Places : u.array[j] = IF j = i THEN t.array[last]
                                     ELSE IF j = last THEN s ELSE t.array[j]
  BY <1>1, <1>2
<1>4. \A id \in Ids : u.index[id] = IF id = s.id THEN last
                                    ELSE IF id = t.array[last].id THEN i ELSE t.index[id]
  BY <1>1, <1>2
<1>5. /\ \A j \in 0 .. last : t.array[j].id \in Ids /\ t.index[t.array[j].id] = j
      /\ \A id \in Ids : t.index[id] \in 0 .. last => t.array[t.index[id]].id = id
      /\ \A id \in Ids : t.index[id] \notin 0 .. last => (id \in gone <=> t.index[id] # NoInd)
      /\ \A id \in gone : t.index[id] \notin 0 .. last
      /\ \A j, k \in Places : j # k /\ t.array[j].id = t.array[k].id => t.array[j].id = NoId
  BY DEF Placed
<1>6. last \in Int /\ last >= 0 /\ \A j \in Places : j \in Int
  BY <1>1 DEF Places
<1>7. NoId \notin Ids /\ NoInd \notin Places
  BY TableAssumption DEF NoInd, Places
<1> HIDE DEF u, i, last
<1>8. s.id \in Ids /\ s = t.array[i] /\ t.index[s.id] = i
  BY DEF i
<1>9. \A j \in 0 .. last - 1 : u.array[j].id \in Ids /\ u.index[u.array[j].id] = j
  <2> SUFFICES ASSUME NEW j \in 0 .. last - 1
               PROVE  u.array[j].id \in Ids /\ u.index[u.array[j].id] = j
    OBVIOUS
  <2>1. j \in 0 .. last /\ j # last /\ j \in Places /\ last \in 0 .. last
    BY <1>2, <1>6
  <2>2. CASE j = i
    BY <1>3, <1>4, <1>5, <1>8, <2>1, <2>2
  <2>3. CASE j # i
    <3>1. u.array[j] = t.array[j]
      BY <1>3, <2>1, <2>3
    <3>2. t.array[j].id # s.id /\ t.array[j].id # t.array[last].id
      BY <1>5, <1>8, <2>1, <2>3
    <3> QED BY <1>4, <1>5, <2>1, <3>1, <3>2
  <2> QED BY <2>2, <2>3
<1>10. \A id \in Ids \ {s.id} :
          /\ u.index[id] \in 0 .. last - 1 <=> t.index[id] \in 0 .. last
          /\ t.index[id] \in 0 .. last => u.array[u.index[id]] = t.array[t.index[id]]
          /\ u.index[id] = NoInd <=> t.index[id] = NoInd
  <2> SUFFICES ASSUME NEW id \in Ids \ {s.id}
               PROVE  /\ u.index[id] \in 0 .. last - 1 <=> t.index[id] \in 0 .. last
                      /\ t.index[id] \in 0 .. last =>
                            u.array[u.index[id]] = t.array[t.index[id]]
                      /\ u.index[id] = NoInd <=> t.index[id] = NoInd
    OBVIOUS
  <2>1. last \in 0 .. last /\ i \in 0 .. last
    BY <1>1, <1>6
  <2>2. CASE id = t.array[last].id
    <3>1. u.index[id] = i /\ t.index[id] = last /\ i # last
      BY <1>4, <1>5, <1>8, <2>1, <2>2
    <3>2. i \in 0 .. last - 1 /\ u.array[i] = t.array[last]
      BY <1>1, <1>3, <1>6, <2>1, <3>1
    <3> QED BY <1>1, <1>7, <2>1, <3>1, <3>2
  <2>3. CASE id # t.array[last].id
    <3>1. u.index[id] = t.index[id]
      BY <1>4, <2>3
    <3>2. t.index[id] \in Places \cup {NoInd} /\ t.index[id] # i
      <4>1. t.index[id] = i => t.array[i].id = id
        BY <1>5, <2>1
      <4> QED BY <1>2, <1>8, <4>1
    <3>3. t.index[id] # last
      BY <1>5, <2>1, <2>3
    <3>4. t.index[id] \in 0 .. last <=> t.index[id] \in 0 .. last - 1
      BY <1>6, <3>2, <3>3 DEF NoInd
    <3>5. t.index[id] \in 0 .. last => u.array[t.index[id]] = t.array[t.index[id]]
      BY <1>2, <1>3, <3>2, <3>3
    <3> QED BY <3>1, <3>4, <3>5
  <2> QED BY <2>2, <2>3
<1>11. u.index[s.id] = last /\ last \notin 0 .. last - 1 /\ last # NoInd
  BY <1>4, <1>6, <1>8 DEF NoInd
<1>12. s.id \notin gone
  BY <1>1, <1>5, <1>8
<1>13. Placed(u, gone \cup {s.id})
  <2>1. \A j \in 0 .. u.num - 1 : u.array[j].id \in Ids /\ u.index[u.array[j].id] = j
    BY <1>1, <1>9
  <2>2. \A id \in Ids : u.index[id] \in 0 .. u.num - 1 => u.array[u.index[id]].id = id
    BY <1>1, <1>5, <1>10, <1>11
  <2>3. \A id \in Ids : u.index[id] \notin 0 .. u.num - 1 =>
            (id \in gone \cup {s.id} <=> u.index[id] # NoInd)
    BY <1>1, <1>5, <1>10, <1>11
  <2>4. \A id \in gone \cup {s.id} : u.index[id] \notin 0 .. u.num - 1
    BY <1>1, <1>5, <1>10, <1>11, <1>12
  <2>5. \A j, k \in Places : j # k /\ u.array[j].id = u.array[k].id => u.array[j].id = NoId
    <3> DEFINE from(j) == IF j = i THEN last ELSE IF j = last THEN i ELSE j
    <3>1. \A j \in Places : from(j) \in Places /\ u.array[j] = t.array[from(j)]
      BY <1>1, <1>3, <1>8
    <3>2. \A j, k \in Places : j # k => from(j) # from(k)
      OBVIOUS
    <3> HIDE DEF from
    <3> QED BY <1>5, <3>1, <3>2
  <2> QED BY <2>1, <2>2, <2>3, <2>4, <2>5 DEF Placed
<1>14. t.num - 1 = last /\ u.num = last
  BY <1>1, <1>2 DEF last
<1>15. Keeps(t, u, s.id)
  BY <1>10, <1>11, <1>14 DEF Keeps
<1> QED BY <1>12, <1>13, <1>15 DEF u

\* ... and are no longer counted.
LEMMA TakeOutSound ==
    ASSUME NEW t \in Tables, NEW gone \in SUBSET Ids, Sound(t, gone), NEW s \in PlayerRecords,
           s.id \in Ids, t.index[s.id] \in 0 .. t.num - 1, s = t.array[t.index[s.id]]
    PROVE  Sound(TakeOut(t, s), gone \cup {s.id})
<1> DEFINE u == TakeOut(t, s)
<1>1. Placed(u, gone \cup {s.id}) /\ s.id \notin gone
  BY TakeOutPlaced DEF Sound
<1>2. /\ u \in Tables /\ u.num = t.num - 1 /\ u.free = t.free /\ t.num \in Nat
      /\ u.robots = IF s.kind = "robot" THEN t.robots - 1 ELSE t.robots
      /\ u.tanks = IF s.kind = "tank" THEN t.tanks - 1 ELSE t.tanks
  BY TakeOutFields
<1>3. Keeps(t, u, s.id)
  BY TakeOutPlaced DEF Sound
<1> HIDE DEF u
<1>4. IsFiniteSet(gone) /\ IsFiniteSet(Ids)
  BY TableAssumption, FS_Subset
<1>5. Pooled(u, gone \cup {s.id})
  <2>1. \A id \in Ids : u.index[id] = NoInd <=> t.index[id] = NoInd
    <3>1. t.index[s.id] # NoInd
      BY DEF NoInd
    <3> QED BY <1>3, <3>1 DEF Keeps
  <2>2. Cardinality(gone \cup {s.id}) = Cardinality(gone) + 1 /\ Cardinality(gone) \in Nat
    BY <1>1, <1>4, FS_AddElement, FS_CardinalityType
  <2>3. Len(u.free) = NumIds - u.num - Cardinality(gone \cup {s.id})
    <3>1. Len(t.free) = NumIds - t.num - Cardinality(gone)
      BY DEF Sound, Pooled
    <3>2. t.num \in Int /\ NumIds \in Int
      BY <1>2, NumbersOfIds
    <3>3. u.free = t.free /\ u.num = t.num - 1
      BY <1>2
    <3> QED BY <2>2, <3>1, <3>2, <3>3
  <2> QED BY <1>2, <2>1, <2>3 DEF Sound, Pooled
<1>6. ASSUME NEW k \in {"robot", "tank"}
      PROVE  Cardinality(Kin(u, k)) = IF s.kind = k THEN Cardinality(Kin(t, k)) - 1
                                                    ELSE Cardinality(Kin(t, k))
  <2>1. Kin(u, k) = IF s.kind = k THEN Kin(t, k) \ {s.id} ELSE Kin(t, k)
    BY <1>3 DEF Kin, Keeps
  <2>2. IsFiniteSet(Kin(t, k))
    BY <1>4, FS_Subset DEF Kin
  <2>3. s.kind = k => s.id \in Kin(t, k)
    BY DEF Kin
  <2>4. s.kind = k => Cardinality(Kin(t, k) \ {s.id}) = Cardinality(Kin(t, k)) - 1
    BY <2>2, <2>3, FS_RemoveElement
  <2> QED BY <2>1, <2>4
<1>7. Counted(u)
  BY <1>2, <1>6 DEF Sound, Counted
<1> QED BY <1>1, <1>5, <1>7 DEF Sound, u

\* Who leaves is gone for good when his identifier is back in the pool.
LEMMA ReleaseSound ==
    ASSUME NEW t \in Tables, NEW gone \in SUBSET Ids, Sound(t, gone), NEW id \in gone
    PROVE  LET u == Release(t, id)
           IN  /\ u \in Tables /\ Sound(u, gone \ {id})
               /\ u.array = t.array /\ u.num = t.num /\ u.broken = t.broken
               /\ u.robots = t.robots /\ u.tanks = t.tanks
               /\ u.index = [t.index EXCEPT ![id] = NoInd] /\ u.free = Append(t.free, id)
<1> DEFINE u == Release(t, id)
<1>1. /\ u.array = t.array /\ u.num = t.num /\ u.broken = t.broken
      /\ u.robots = t.robots /\ u.tanks = t.tanks
      /\ u.index = [t.index EXCEPT ![id] = NoInd] /\ u.free = Append(t.free, id)
  BY DEF Release, Tables
<1>2. id \in Ids /\ t.free \in Seq(Ids) /\ t.index \in [Ids -> Places \cup {NoInd}]
      /\ t.num \in Nat
  BY NumbersOfIds DEF Tables
<1>3. u \in Tables
  <2> DEFINE t1 == [t EXCEPT !.index = u.index]
  <2>1. u = [t1 EXCEPT !.free = u.free]
    BY <1>1 DEF Release
  <2>2. t1 \in Tables
    BY <1>1, <1>2, TableUpdates
  <2>3. u.free \in Seq(Ids)
    BY <1>1, <1>2, AppendProperties
  <2> QED BY <2>1, <2>2, <2>3, TableUpdates
<1> HIDE DEF u
<1>4. t.index[id] \notin 0 .. t.num - 1 /\ t.index[id] # NoInd /\ NoInd \notin 0 .. t.num - 1
  BY <1>2 DEF Sound, Placed, NoInd
<1>5. \A x \in Ids : u.index[x] = IF x = id THEN NoInd ELSE t.index[x]
  BY <1>1, <1>2
<1>6. Placed(u, gone \ {id})
  BY <1>1, <1>2, <1>4, <1>5 DEF Sound, Placed
<1>7. Pooled(u, gone \ {id})
  <2>1. Cardinality(gone \ {id}) = Cardinality(gone) - 1 /\ Cardinality(gone) \in Nat
    BY TableAssumption, FS_Subset, FS_RemoveElement, FS_CardinalityType
  <2>2. /\ Len(u.free) = Len(t.free) + 1 /\ Len(t.free) \in Nat
        /\ \A k \in 1 .. Len(t.free) : u.free[k] = t.free[k]
        /\ u.free[Len(t.free) + 1] = id
    BY <1>1, <1>2, AppendProperties, LenProperties
  <2>3. Len(u.free) = NumIds - u.num - Cardinality(gone \ {id})
    BY <1>1, <1>2, <2>1, <2>2, NumbersOfIds, SMTT(40) DEF Sound, Pooled
  <2>4. \A x \in Ids : u.index[x] = NoInd <=> \E k \in 1 .. Len(u.free) : u.free[k] = x
    <3> SUFFICES ASSUME NEW x \in Ids
                 PROVE  u.index[x] = NoInd <=> \E k \in 1 .. Len(u.free) : u.free[k] = x
      OBVIOUS
    <3>1. (\E k \in 1 .. Len(u.free) : u.free[k] = x)
            <=> x = id \/ \E k \in 1 .. Len(t.free) : t.free[k] = x
      <4>1. \A k \in 1 .. Len(u.free) : k \in 1 .. Len(t.free) \/ k = Len(t.free) + 1
        BY <2>2
      <4>2. /\ \A k \in 1 .. Len(t.free) : k \in 1 .. Len(u.free)
            /\ Len(t.free) + 1 \in 1 .. Len(u.free)
        BY <2>2
      <4> HIDE DEF u
      <4> QED BY <2>2, <4>1, <4>2
    <3> QED BY <1>4, <1>5, <3>1 DEF Sound, Pooled
  <2>5. \A k, l \in 1 .. Len(u.free) : u.free[k] = u.free[l] => k = l
    <3>1. \A k \in 1 .. Len(t.free) : t.free[k] # id
      BY <1>2, <1>4 DEF Sound, Pooled
    <3>2. \A k, l \in 1 .. Len(t.free) : t.free[k] = t.free[l] => k = l
      BY DEF Sound, Pooled
    <3>3. \A k \in 1 .. Len(u.free) : k \in 1 .. Len(t.free) \/ k = Len(t.free) + 1
      BY <2>2
    <3> QED BY <2>2, <3>1, <3>2, <3>3
  <2> QED BY <2>3, <2>4, <2>5 DEF Pooled
<1>8. Kin(u, "robot") = Kin(t, "robot") /\ Kin(u, "tank") = Kin(t, "tank")
  BY <1>1, <1>4, <1>5 DEF Kin
<1>9. Counted(u)
  BY <1>1, <1>8 DEF Sound, Counted
<1> QED BY <1>1, <1>3, <1>6, <1>7, <1>9 DEF Sound, u

-----------------------------------------------------------------------------
(* The loop over the tanks.                                                *)

LEMMA LeastNumber ==
    ASSUME NEW T \in SUBSET Nat, T # {}
    PROVE  \E x \in T : \A y \in T : x <= y
<1> DEFINE R == {ss \in Nat \X Nat : ss[1] < ss[2]}
<1>1. IsWellFoundedOn(R, Nat)
  BY NatLessThanWellFounded DEF OpToRel
<1>2. \E x \in T : \A y \in T : <<y, x>> \notin R
  <2> HIDE DEF R
  <2> QED BY <1>1, WFMin
<1>3. PICK x \in T : \A y \in T : <<y, x>> \notin R
  BY <1>2
<1>4. ASSUME NEW y \in T PROVE x <= y
  <2>1. x \in Nat /\ y \in Nat /\ ~(y < x)
    BY <1>3
  <2> QED BY ONLY <2>1, SMT
<1> QED BY <1>4

\* What holds at first and is kept by each turn of a loop holds after it.
LEMMA LoopInduction ==
    ASSUME NEW N \in Nat, NEW T, NEW after, <<0, after[0]>> \in T,
           \A k \in 1 .. N : <<k - 1, after[k - 1]>> \in T => <<k, after[k]>> \in T
    PROVE  \A k \in 0 .. N : <<k, after[k]>> \in T
<1> DEFINE Bad == {k \in 0 .. N : <<k, after[k]>> \notin T}
<1>1. SUFFICES ASSUME Bad # {} PROVE FALSE
  OBVIOUS
<1>2. PICK k \in Bad : \A l \in Bad : k <= l
  <2>1. Bad \in SUBSET Nat
    OBVIOUS
  <2> QED BY <1>1, <2>1, LeastNumber
<1>3. k # 0
  OBVIOUS
<1>4. k \in 1 .. N /\ k - 1 \in 0 .. N /\ ~(k <= k - 1)
  BY <1>3
<1>5. k - 1 \notin Bad
  BY <1>2, <1>4
<1> QED BY <1>4, <1>5

\* The loop can be run: there are the tables after each of its turns.
LEMMA LoopExists ==
    ASSUME NEW id, NEW t, t.num \in Nat
    PROVE  \E after :
              /\ after[0] = t /\ DeleteTanks(id, t) = after[t.num]
              /\ \A k \in 1 .. t.num : after[k] = DeleteTank(id, after[k - 1], t.num - k)
<1> DEFINE N == t.num
           Turn(f, k) == IF k = 0 THEN t ELSE DeleteTank(id, f[k - 1], N - k)
           Run(n) == \E f : f = [k \in 0 .. n |-> Turn(f, k)]
           Bad == {n \in 0 .. N : ~Run(n)}
<1>1. Run(0)
  <2> DEFINE f == [k \in 0 .. 0 |-> t]
  <2>1. f = [k \in 0 .. 0 |-> Turn(f, k)]
    OBVIOUS
  <2> QED BY <2>1
<1>2. ASSUME NEW n \in 1 .. N, Run(n - 1)
      PROVE  Run(n)
  <2>1. PICK f : f = [k \in 0 .. n - 1 |-> Turn(f, k)]
    BY <1>2
  <2> DEFINE g == [k \in 0 .. n |-> IF k = n THEN DeleteTank(id, f[n - 1], N - n) ELSE f[k]]
  <2>2. ASSUME NEW k \in 0 .. n PROVE g[k] = Turn(g, k)
    <3>1. CASE k = 0
      <4>1. g[k] = f[k] /\ k \in 0 .. n - 1
        BY <3>1
      <4>2. f[k] = Turn(f, k)
        BY <2>1, <4>1
      <4> QED BY <3>1, <4>1, <4>2
    <3>2. CASE k = n
      <4>1. k # 0 /\ n - 1 \in 0 .. n /\ n - 1 # n
        BY <3>2
      <4>2. g[n - 1] = f[n - 1]
        BY <4>1
      <4> QED BY <3>2, <4>1, <4>2
    <3>3. CASE k # 0 /\ k # n
      <4>1. k \in 0 .. n - 1 /\ k - 1 \in 0 .. n /\ k - 1 # n /\ g[k] = f[k]
        BY <3>3
      <4>2. g[k - 1] = f[k - 1]
        BY <4>1
      <4>3. f[k] = Turn(f, k)
        BY <2>1, <4>1
      <4> QED BY <3>3, <4>1, <4>2, <4>3
    <3> QED BY <3>1, <3>2, <3>3
  <2>3. g = [k \in 0 .. n |-> Turn(g, k)]
    <3>1. g = [k \in 0 .. n |-> g[k]]
      OBVIOUS
    <3> HIDE DEF g, Turn
    <3> QED BY <2>2, <3>1
  <2> HIDE DEF g
  <2> QED BY <2>3
<1>3. Run(N)
  <2> HIDE DEF Run
  <2>1. SUFFICES ASSUME ~Run(N) PROVE FALSE
    OBVIOUS
  <2>2. PICK n \in Bad : \A m \in Bad : n <= m
    <3>1. N \in Bad /\ Bad \in SUBSET Nat
      BY <2>1
    <3> QED BY <3>1, LeastNumber
  <2>3. n # 0
    BY <1>1
  <2>4. n \in 1 .. N /\ n - 1 \in 0 .. N /\ ~(n <= n - 1)
    BY <2>3
  <2>5. Run(n - 1)
    BY <2>2, <2>4
  <2> QED BY <1>2, <2>4, <2>5
<1> DEFINE after == CHOOSE f : f = [k \in 0 .. N |-> Turn(f, k)]
<1>4. after = [k \in 0 .. N |-> Turn(after, k)]
  <2> HIDE DEF Turn
  <2> QED BY <1>3
<1>5. DeleteTanks(id, t) = after[N]
  BY DEF DeleteTanks
<1> HIDE DEF after
<1>6. \A k \in 0 .. N : after[k] = Turn(after, k)
  <2> HIDE DEF Turn
  <2> QED BY <1>4
<1>7. after[0] = t
  BY <1>6
<1>8. \A k \in 1 .. N : after[k] = DeleteTank(id, after[k - 1], N - k)
  BY <1>6
<1> QED BY <1>5, <1>7, <1>8

\* A table is as sound as another that has the same players in the same places,
\* whatever else is in their structures and in those behind them.
LEMMA SamePlayers ==
    ASSUME NEW t \in Tables, NEW u \in Tables,
           u.num = t.num, u.index = t.index, u.robots = t.robots, u.tanks = t.tanks,
           u.free = t.free,
           \A i \in 0 .. t.num - 1 : /\ u.array[i].id = t.array[i].id
                                     /\ u.array[i].kind = t.array[i].kind
                                     /\ u.array[i].owner \in {t.array[i].owner, NoId},
           \A i \in Places : u.array[i].id \in {t.array[i].id, NoId}
    PROVE  /\ \A gone \in SUBSET Ids : Sound(t, gone) => Sound(u, gone)
           /\ \A id, m : Owned(t, id, m) => Owned(u, id, m)
<1>1. ASSUME NEW gone \in SUBSET Ids, Sound(t, gone)
      PROVE  Sound(u, gone)
  <2>1. \A k : Kin(u, k) = Kin(t, k)
    BY DEF Kin
  <2>2. Counted(u)
    BY <1>1, <2>1 DEF Sound, Counted
  <2>3. Pooled(u, gone)
    BY <1>1 DEF Sound, Pooled
  <2>4. Placed(t, gone)
    BY <1>1 DEF Sound
  <2>5. \A i \in 0 .. u.num - 1 : u.array[i].id \in Ids /\ u.index[u.array[i].id] = i
    BY <2>4 DEF Placed
  <2>6. \A id \in Ids : u.index[id] \in 0 .. u.num - 1 => u.array[u.index[id]].id = id
    BY <2>4 DEF Placed
  <2>7. \A i, j \in Places : i # j /\ u.array[i].id = u.array[j].id => u.array[i].id = NoId
    BY <2>4 DEF Placed
  <2>8. Placed(u, gone)
    BY <2>4, <2>5, <2>6, <2>7, SMTT(40) DEF Placed
  <2> QED BY <2>2, <2>3, <2>8 DEF Sound
<1>2. ASSUME NEW id, NEW m, Owned(t, id, m)
      PROVE  Owned(u, id, m)
  <2> SUFFICES ASSUME NEW i \in 0 .. u.num - 1, IsTank(u.array[i])
               PROVE  \/ u.array[i].owner = id /\ i < m
                      \/ /\ u.array[i].owner \in Ids
                         /\ u.index[u.array[i].owner] \in 0 .. u.num - 1
                         /\ u.array[u.index[u.array[i].owner]].kind # "tank"
    BY DEF Owned
  <2>1. i \in 0 .. t.num - 1 /\ u.array[i].owner = t.array[i].owner /\ IsTank(t.array[i])
    BY DEF IsTank
  <2> QED BY <1>2, <2>1 DEF Owned
<1> QED BY <1>1, <1>2

\* Whoever leaves has no tanks, or they stay.
Quiet(t, id) ==
    \/ options.keepShots
    \/ \A i \in 0 .. t.num - 1 : ~(t.array[i].kind = "tank" /\ t.array[i].owner = id)

\* What holds of table t when the loop that began with t0 has k places behind it.
Loop(t0, id, v, U, k, t) ==
    /\ t \in Tables /\ Sound(t, {id})
    /\ t.num <= t0.num /\ t.num >= t0.num - k
    /\ t.broken = t0.broken /\ t.tanks <= t0.tanks
    /\ Owned(t, id, t0.num - k)
    /\ Above(t, v, U)
    /\ \A i \in Places : t0.array[i].id \in Ids => t.array[i].id \in Ids
    /\ Quiet(t0, id) =>
          /\ t.num = t0.num
          /\ \A i \in Places : t.array[i] \in {t0.array[i], [t0.array[i] EXCEPT !.owner = NoId]}

LEMMA LoopTurn ==
    ASSUME NEW t0 \in Tables, NEW id \in Ids, NEW v \in Nat, NEW U, NEW k \in 1 .. t0.num,
           NEW t, Loop(t0, id, v, U, k - 1, t)
    PROVE  Loop(t0, id, v, U, k, DeleteTank(id, t, t0.num - k))
<1> DEFINE i == t0.num - k
           s == t.array[i]
<1>1. /\ t \in Tables /\ t0.num \in Nat /\ k \in Nat /\ t.num \in Nat
      /\ i \in 0 .. t.num - 1 /\ i \in Places /\ t0.num - (k - 1) = i + 1
      /\ t.num \in 0 .. NumIds
  <2>1. t \in Tables /\ t.num >= t0.num - (k - 1)
    BY DEF Loop
  <2>2. t.num \in 0 .. NumIds /\ t0.num \in 0 .. NumIds
    BY <2>1 DEF Tables
  <2> QED BY <2>1, <2>2, NumbersOfIds DEF Places
<1>2. t.array \in [Places -> PlayerRecords] /\ s \in PlayerRecords
  BY <1>1 DEF Tables
<1>3. s.id \in Ids /\ t.index[s.id] = i
  BY <1>1 DEF Loop, Sound, Placed
<1>4. NoId \notin Ids
  BY TableAssumption
<1> HIDE DEF i
<1>5. CASE s.kind # "tank" \/ s.owner # id
  <2>1. DeleteTank(id, t, i) = t
    BY <1>5 DEF DeleteTank
  <2>2. Owned(t, id, i)
    <3>1. Owned(t, id, i + 1)
      BY <1>1 DEF Loop
    <3> QED BY <1>1, <1>5, <3>1 DEF Owned, IsTank
  <2>3. Owned(t, id, t0.num - k) /\ t.num >= t0.num - k
    BY <1>1, <2>2 DEF i
  <2>4. Loop(t0, id, v, U, k, t)
    BY <2>3 DEF Loop
  <2> QED BY <2>1, <2>4 DEF i
<1>6. CASE s.kind = "tank" /\ s.owner = id /\ options.keepShots
  <2> DEFINE r == [s EXCEPT !.owner = NoId]
             u == [t EXCEPT !.array = [t.array EXCEPT ![i] = r]]
  <2>1. DeleteTank(id, t, i) = u
    BY <1>6 DEF DeleteTank
  <2>2. r \in PlayerRecords /\ r.id = s.id /\ r.kind = s.kind /\ r.owner = NoId
    BY <1>2 DEF PlayerRecords
  <2>3. [t.array EXCEPT ![i] = r] \in [Places -> PlayerRecords]
    BY <1>2, <2>2
  <2>4. u \in Tables
    BY <1>1, <2>3, TableUpdates
  <2>5. /\ u.num = t.num /\ u.index = t.index /\ u.robots = t.robots /\ u.tanks = t.tanks
        /\ u.free = t.free /\ u.broken = t.broken
        /\ u.array = [t.array EXCEPT ![i] = r]
    BY <1>1 DEF Tables
  <2>6. \A j \in Places : u.array[j] = IF j = i THEN r ELSE t.array[j]
    BY <1>2, <2>5
  <2> HIDE DEF r, u
  <2>7. \A j \in 0 .. t.num - 1 : j \in Places
    BY <1>1, NumbersOfIds DEF Places
  <2>8. Sound(u, {id}) /\ (\A m : Owned(t, id, m) => Owned(u, id, m))
    BY <1>1, <2>2, <2>4, <2>5, <2>6, <2>7, SamePlayers DEF Loop
  <2>9. Owned(u, id, i)
    <3>1. Owned(u, id, i + 1)
      BY <1>1, <2>8 DEF Loop
    <3> QED BY <1>1, <1>3, <1>4, <2>2, <2>6, <3>1 DEF Owned, IsTank
  <2>10. Above(u, v, U)
    BY <1>1, <2>2, <2>5, <2>6, <2>7 DEF Loop, Above
  <2>11. \A j \in Places : t0.array[j].id \in Ids => u.array[j].id \in Ids
    BY <2>2, <2>6 DEF Loop
  <2>12. Quiet(t0, id) => \A j \in Places :
            u.array[j] \in {t0.array[j], [t0.array[j] EXCEPT !.owner = NoId]}
    <3> SUFFICES ASSUME Quiet(t0, id), NEW j \in Places
                 PROVE  u.array[j] \in {t0.array[j], [t0.array[j] EXCEPT !.owner = NoId]}
      OBVIOUS
    <3>1. t.array[j] \in {t0.array[j], [t0.array[j] EXCEPT !.owner = NoId]}
      BY DEF Loop
    <3>2. t0.array[j] \in PlayerRecords
      BY DEF Tables
    <3>3. [[t0.array[j] EXCEPT !.owner = NoId] EXCEPT !.owner = NoId]
            = [t0.array[j] EXCEPT !.owner = NoId]
      BY <3>2 DEF PlayerRecords
    <3> QED BY <2>6, <3>1, <3>3 DEF r
  <2>13. Owned(u, id, t0.num - k) /\ u.num >= t0.num - k
    BY <1>1, <2>5, <2>9 DEF i
  <2>14. Loop(t0, id, v, U, k, u)
    BY <2>4, <2>5, <2>8, <2>10, <2>11, <2>12, <2>13 DEF Loop
  <2> QED BY <2>1, <2>14 DEF i
<1>7. CASE s.kind = "tank" /\ s.owner = id /\ ~options.keepShots
  <2> DEFINE w == TakeOut(t, s)
             u == Release(w, s.id)
             last == t.num - 1
  <2>1. DeleteTank(id, t, i) = u
    BY <1>7 DEF DeleteTank
  <2>2. /\ s.id \in Ids /\ t.index[s.id] \in 0 .. t.num - 1 /\ s = t.array[t.index[s.id]]
        /\ {id} \in SUBSET Ids /\ Sound(t, {id}) /\ Placed(t, {id})
        /\ t.index[id] \notin 0 .. t.num - 1
    BY <1>1, <1>3 DEF Loop, Sound, Placed
  <2>3. /\ w \in Tables /\ w.num = last /\ last \in 0 .. last /\ last \in Places
        /\ w.array = [t.array EXCEPT ![last] = s, ![i] = t.array[last]]
        /\ w.tanks = t.tanks - 1 /\ w.broken = t.broken
    <3>1. /\ TakeOut(t, s) \in Tables /\ TakeOut(t, s).num = t.num - 1 /\ t.num - 1 \in Places
          /\ TakeOut(t, s).array = [t.array EXCEPT ![t.num - 1] = s,
                                                   ![t.index[s.id]] = t.array[t.num - 1]]
          /\ TakeOut(t, s).tanks = IF s.kind = "tank" THEN t.tanks - 1 ELSE t.tanks
          /\ TakeOut(t, s).broken = t.broken
      BY <1>1, <1>2, <2>2, TakeOutFields
    <3> QED BY <1>1, <1>3, <1>7, <3>1, SMTT(40)
  <2>4. Keeps(t, w, s.id) /\ s.id # id
    <3>1. Keeps(t, TakeOut(t, s), s.id) /\ s.id \notin {id}
      <4> HIDE DEF s
      <4> QED BY <1>1, <1>2, <2>2, TakeOutPlaced
    <3> QED BY <3>1
  <2>5. /\ u \in Tables /\ Sound(u, ({id} \cup {s.id}) \ {s.id})
        /\ u.array = w.array /\ u.num = w.num /\ u.broken = w.broken /\ u.tanks = w.tanks
        /\ u.index = [w.index EXCEPT ![s.id] = NoInd]
    <3>1. Sound(w, {id} \cup {s.id})
      <4> HIDE DEF s
      <4> QED BY <1>1, <1>2, <2>2, TakeOutSound
    <3>2. {id} \cup {s.id} \in SUBSET Ids /\ s.id \in {id} \cup {s.id}
      BY <2>2
    <3> DEFINE gone == {id} \cup {s.id}
               x == s.id
    <3>3. gone \in SUBSET Ids /\ x \in gone /\ Sound(w, gone) /\ w \in Tables
      BY <2>3, <3>1, <3>2
    <3> HIDE DEF w, s, gone, x
    <3>4. /\ Release(w, x) \in Tables /\ Sound(Release(w, x), gone \ {x})
          /\ Release(w, x).array = w.array /\ Release(w, x).num = w.num
          /\ Release(w, x).broken = w.broken /\ Release(w, x).tanks = w.tanks
          /\ Release(w, x).index = [w.index EXCEPT ![x] = NoInd]
      BY <3>3, ReleaseSound, ZenonT(60)
    <3> QED BY <3>4 DEF gone, x
  <2>6. Sound(u, {id})
    <3>1. ({id} \cup {s.id}) \ {s.id} = {id}
      BY <2>4
    <3> QED BY <2>5, <3>1
  <2>7. \A j \in Places : u.array[j] = IF j = i THEN t.array[last]
                                       ELSE IF j = last THEN s ELSE t.array[j]
    BY <1>1, <1>2, <2>2, <2>3, <2>5
  <2>8. w.index \in [Ids -> Places \cup {NoInd}]
    BY <2>2, <2>3, SMTT(40) DEF Tables
  <2> HIDE DEF w, u
  <2>9. \A j \in 0 .. t.num - 1 : j \in Places
    BY <1>1, NumbersOfIds DEF Places
  <2>10. Owned(u, id, i)
    <3> SUFFICES ASSUME NEW j \in 0 .. u.num - 1, IsTank(u.array[j])
                 PROVE  \/ u.array[j].owner = id /\ j < i
                        \/ /\ u.array[j].owner \in Ids
                           /\ u.index[u.array[j].owner] \in 0 .. u.num - 1
                           /\ u.array[u.index[u.array[j].owner]].kind # "tank"
      BY DEF Owned
    <3> DEFINE from == IF j = i THEN last ELSE j
               o == u.array[j].owner
    <3>1. /\ from \in 0 .. t.num - 1 /\ j \in Places /\ j # last /\ j < last
          /\ u.array[j] = t.array[from]
      BY <1>1, <2>2, <2>3, <2>5, <2>7, <2>9
    <3>2. Owned(t, id, i + 1)
      BY <1>1 DEF Loop
    <3>3. CASE o = id /\ from < i + 1
      BY <1>1, <3>1, <3>3, SMTT(40)
    <3>4. CASE /\ o \in Ids /\ t.index[o] \in 0 .. t.num - 1
               /\ t.array[t.index[o]].kind # "tank"
      <4>1. o # s.id
        BY <1>3, <1>7, <3>4
      <4>2. w.index[o] \in 0 .. w.num - 1 /\ w.array[w.index[o]] = t.array[t.index[o]]
        BY <2>4, <3>4, <4>1 DEF Keeps
      <4>3. u.index[o] = w.index[o]
        BY <2>5, <2>8, <3>4, <4>1
      <4> QED BY <2>5, <3>4, <4>2, <4>3
    <3> HIDE DEF from
    <3> QED BY <3>1, <3>2, <3>3, <3>4 DEF Owned
  <2>11. Above(u, v, U)
    <3> SUFFICES ASSUME NEW j \in v .. u.num - 1
                 PROVE  u.array[j].id \in U
      BY DEF Above
    <3>1. /\ j \in v .. t.num - 1 /\ j \in Places /\ j # last
          /\ j = i => last \in v .. t.num - 1
      BY <1>1, <2>2, <2>3, <2>5, <2>9
    <3>2. t.array[j].id \in U /\ (j = i => t.array[last].id \in U)
      BY <3>1 DEF Loop, Above
    <3> QED BY <2>7, <3>1, <3>2
  <2>12. \A j \in Places : t0.array[j].id \in Ids => u.array[j].id \in Ids
    <3>1. t.array[last].id \in Ids
      BY <1>1, <2>2 DEF Loop, Sound, Placed
    <3> QED BY <1>3, <2>7, <3>1, SMTT(40) DEF Loop
  <2>13. ~Quiet(t0, id)
    <3> SUFFICES ASSUME Quiet(t0, id) PROVE FALSE
      OBVIOUS
    <3>1. t.array[i] \in {t0.array[i], [t0.array[i] EXCEPT !.owner = NoId]} /\ t.num = t0.num
      BY <1>1 DEF Loop
    <3>2. t0.array[i] \in PlayerRecords
      BY <1>1 DEF Tables
    <3>3. [t0.array[i] EXCEPT !.owner = NoId].owner = NoId
      BY <3>2 DEF PlayerRecords
    <3>4. t0.array[i] = s
      BY <1>4, <1>7, <3>1, <3>3
    <3> QED BY <1>1, <1>7, <3>1, <3>4 DEF Quiet
  <2>14. /\ u.num <= t0.num /\ u.num >= t0.num - k /\ u.tanks <= t0.tanks
         /\ u.broken = t0.broken
    <3>1. t.tanks \in Int /\ t0.tanks \in Int /\ t.tanks <= t0.tanks /\ t.num <= t0.num
      BY <1>1 DEF Tables, Loop
    <3>2. t.broken = t0.broken
      BY DEF Loop
    <3> QED BY <1>1, <2>2, <2>3, <2>5, <3>1, <3>2 DEF i
  <2>15. Owned(u, id, t0.num - k)
    BY <2>10 DEF i
  <2>16. Loop(t0, id, v, U, k, u)
    BY <2>5, <2>6, <2>11, <2>12, <2>13, <2>14, <2>15 DEF Loop
  <2> QED BY <2>1, <2>16 DEF i
<1> QED BY <1>5, <1>6, <1>7

\* What the deletion of player x makes of table t.
Deletes(t, x, v, U, u) ==
    /\ u \in Tables /\ Sound(u, {}) /\ Owned(u, NoId, 0)
    /\ u.tanks <= t.tanks /\ u.broken = t.broken
    /\ Above(u, v, U)
    /\ \A i \in Places : t.array[i].id \in Ids => u.array[i].id \in Ids
    /\ Quiet(t, x) =>
          /\ u.num = t.num - 1
          /\ \A i \in Places : u.array[i].id = IF i = t.index[x] THEN t.array[t.num - 1].id
                                              ELSE IF i = t.num - 1 THEN x
                                              ELSE t.array[i].id

LEMMA DeleteSound ==
    ASSUME NEW t \in Tables, Sound(t, {}), Owned(t, NoId, 0), NEW s \in PlayerRecords,
           s.id \in Ids, t.index[s.id] \in 0 .. t.num - 1, s = t.array[t.index[s.id]],
           NEW v \in Nat, NEW U, Above(t, v, U)
    PROVE  Deletes(t, s.id, v, U, Delete(t, s))
<1> DEFINE x == s.id
           i == t.index[x]
           last == t.num - 1
           w == TakeOut(t, s)
<1>1. /\ w \in Tables /\ i \in Places /\ last \in Places /\ w.num = last
      /\ w.array = [t.array EXCEPT ![last] = s, ![i] = t.array[last]]
      /\ w.tanks = (IF s.kind = "tank" THEN t.tanks - 1 ELSE t.tanks) /\ w.broken = t.broken
  BY TakeOutFields
<1>2. /\ t.num \in 0 .. NumIds /\ NumIds \in Nat /\ t.array \in [Places -> PlayerRecords]
      /\ i \in 0 .. last /\ last \in Nat /\ last \in 0 .. t.num - 1
      /\ \A j \in 0 .. t.num - 1 : j \in Places
      /\ x \in Ids /\ s = t.array[i] /\ t.tanks \in Int
  <2>1. t.num \in 0 .. NumIds
    BY DEF Tables
  <2>2. i \in 0 .. last /\ last \in Nat /\ last \in 0 .. t.num - 1
    BY <2>1, NumbersOfIds
  <2> QED BY <2>1, <2>2, NumbersOfIds DEF Tables, Places
<1>3. Sound(w, {x}) /\ Keeps(t, w, x)
  <2>1. {} \in SUBSET Ids /\ Placed(t, {}) /\ {} \cup {s.id} = {x}
    BY DEF Sound
  <2>2. Sound(TakeOut(t, s), {} \cup {s.id})
    BY <2>1, TakeOutSound
  <2>3. Keeps(t, TakeOut(t, s), s.id)
    BY <2>1, TakeOutPlaced
  <2> QED BY <2>1, <2>2, <2>3
<1>4. \A j \in Places : w.array[j] = IF j = i THEN t.array[last]
                                     ELSE IF j = last THEN s ELSE t.array[j]
  BY <1>1, <1>2
<1>5. Delete(t, s) = Release(DeleteTanks(x, w), x)
  BY <1>2 DEF Delete, NoInd
<1> HIDE DEF w, x, i, last
<1>6. Owned(w, x, w.num)
  <2> SUFFICES ASSUME NEW j \in 0 .. w.num - 1, IsTank(w.array[j])
               PROVE  \/ w.array[j].owner = x /\ j < w.num
                      \/ /\ w.array[j].owner \in Ids
                         /\ w.index[w.array[j].owner] \in 0 .. w.num - 1
                         /\ w.array[w.index[w.array[j].owner]].kind # "tank"
    BY DEF Owned
  <2> DEFINE from == IF j = i THEN last ELSE j
             o == w.array[j].owner
  <2>1. from \in 0 .. t.num - 1 /\ j < w.num /\ w.array[j] = t.array[from]
    BY <1>1, <1>2, <1>4
  <2>2. /\ o \in Ids /\ t.index[o] \in 0 .. t.num - 1
        /\ t.array[t.index[o]].kind # "tank"
    <3>1. IsTank(t.array[from]) /\ ~(from < 0)
      BY <2>1
    <3> QED BY <2>1, <3>1 DEF Owned
  <2>3. CASE o = x
    BY <2>1, <2>3
  <2>4. CASE o # x
    BY <1>3, <2>2, <2>4 DEF Keeps
  <2> QED BY <2>3, <2>4
<1>7. Above(w, v, U)
  <2> SUFFICES ASSUME NEW j \in v .. w.num - 1
               PROVE  w.array[j].id \in U
    BY DEF Above
  <2>1. j \in v .. t.num - 1 /\ j \in Places /\ j # last /\ last \in v .. t.num - 1
    BY <1>1, <1>2 DEF last
  <2> QED BY <1>4, <2>1 DEF Above
<1>8. Loop(w, x, v, U, 0, w)
  <2>1. w.tanks <= w.tanks /\ w.num <= w.num /\ w.num >= w.num - 0 /\ w.num - 0 = w.num
    BY <1>1, <1>2, SMTT(40) DEF Tables
  <2> QED BY <1>1, <1>3, <1>6, <1>7, <2>1 DEF Loop
<1>9. PICK after :
         /\ after[0] = w /\ DeleteTanks(x, w) = after[w.num]
         /\ \A k \in 1 .. w.num : after[k] = DeleteTank(x, after[k - 1], w.num - k)
  BY <1>1, <1>2, LoopExists
<1> DEFINE T == {p \in (0 .. w.num) \X Tables : Loop(w, x, v, U, p[1], p[2])}
           y == DeleteTanks(x, w)
<1>10. Loop(w, x, v, U, w.num, y)
  <2>1. w.num \in Nat
    BY <1>1, <1>2
  <2>2. <<0, after[0]>> \in T
    BY <1>1, <1>8, <1>9, <2>1
  <2>3. ASSUME NEW k \in 1 .. w.num, <<k - 1, after[k - 1]>> \in T
        PROVE  <<k, after[k]>> \in T
    <3>1. Loop(w, x, v, U, k - 1, after[k - 1])
      BY <2>3
    <3>2. Loop(w, x, v, U, k, DeleteTank(x, after[k - 1], w.num - k))
      BY <1>1, <1>2, <3>1, LoopTurn
    <3>3. Loop(w, x, v, U, k, after[k])
      BY <1>9, <3>2
    <3>4. after[k] \in Tables /\ k \in 0 .. w.num
      BY <2>1, <3>3 DEF Loop
    <3> QED BY <3>3, <3>4
  <2> HIDE DEF T
  <2>4. \A k \in 0 .. w.num : <<k, after[k]>> \in T
    BY <2>1, <2>2, <2>3, LoopInduction
  <2>5. <<w.num, after[w.num]>> \in T
    BY <2>1, <2>4
  <2> QED BY <1>9, <2>5 DEF T
<1> DEFINE u == Release(y, x)
<1> HIDE DEF y
<1>11. y \in Tables /\ Sound(y, {x}) /\ Owned(y, x, 0)
  <2>1. w.num - w.num = 0
    BY <1>1, <1>2
  <2> QED BY <1>10, <2>1 DEF Loop
<1>12. /\ u \in Tables /\ Sound(u, {x} \ {x})
       /\ u.array = y.array /\ u.num = y.num /\ u.broken = y.broken /\ u.tanks = y.tanks
       /\ u.index = [y.index EXCEPT ![x] = NoInd]
  <2> DEFINE gone == {x}
  <2>1. gone \in SUBSET Ids /\ x \in gone /\ Sound(y, gone)
    BY <1>2, <1>11
  <2> HIDE DEF gone
  <2>2. /\ Release(y, x) \in Tables /\ Sound(Release(y, x), gone \ {x})
        /\ Release(y, x).array = y.array /\ Release(y, x).num = y.num
        /\ Release(y, x).broken = y.broken /\ Release(y, x).tanks = y.tanks
        /\ Release(y, x).index = [y.index EXCEPT ![x] = NoInd]
    BY <1>11, <2>1, ReleaseSound, ZenonT(60)
  <2> QED BY <2>2 DEF gone
<1> HIDE DEF u
<1>13. Sound(u, {})
  <2>1. {x} \ {x} = {}
    OBVIOUS
  <2> QED BY <1>12, <2>1
<1>14. Owned(u, NoId, 0)
  <2> SUFFICES ASSUME NEW j \in 0 .. u.num - 1, IsTank(u.array[j])
               PROVE  /\ u.array[j].owner \in Ids
                      /\ u.index[u.array[j].owner] \in 0 .. u.num - 1
                      /\ u.array[u.index[u.array[j].owner]].kind # "tank"
    BY SMTT(40) DEF Owned
  <2> DEFINE o == u.array[j].owner
  <2>1. /\ o \in Ids /\ y.index[o] \in 0 .. y.num - 1
        /\ y.array[y.index[o]].kind # "tank"
    <3>1. ~(j < 0) /\ j \in 0 .. y.num - 1 /\ IsTank(y.array[j]) /\ o = y.array[j].owner
      BY <1>12
    <3> QED BY <1>11, <3>1 DEF Owned
  <2>2. o # x
    BY <1>11, <2>1 DEF Sound, Placed
  <2>3. u.index[o] = y.index[o]
    BY <1>11, <1>12, <2>1, <2>2 DEF Tables
  <2> QED BY <1>12, <2>1, <2>3
<1>15. Above(u, v, U)
  BY <1>10, <1>12 DEF Loop, Above
<1>16. u.tanks <= t.tanks /\ u.broken = t.broken
  <2>1. y.tanks \in Int /\ y.tanks <= w.tanks /\ y.broken = w.broken
    BY <1>10 DEF Loop, Tables
  <2> QED BY <1>1, <1>2, <1>12, <2>1
<1>17. ASSUME NEW j \in Places, t.array[j].id \in Ids
       PROVE  u.array[j].id \in Ids
  <2>1. t.array[last].id \in Ids
    BY <1>2 DEF Sound, Placed
  <2>2. w.array[j].id \in Ids
    BY <1>2, <1>4, <1>17, <2>1 DEF x
  <2> QED BY <1>10, <1>12, <2>2 DEF Loop
<1>18. ASSUME Quiet(t, x)
       PROVE  /\ u.num = t.num - 1
              /\ \A j \in Places : u.array[j].id = IF j = i THEN t.array[last].id
                                                  ELSE IF j = last THEN x ELSE t.array[j].id
  <2>1. Quiet(w, x)
    <3> SUFFICES ASSUME NEW j \in 0 .. w.num - 1, ~options.keepShots
                 PROVE  ~(w.array[j].kind = "tank" /\ w.array[j].owner = x)
      BY DEF Quiet
    <3>1. \E k \in 0 .. t.num - 1 : w.array[j] = t.array[k]
      <4>1. j \in 0 .. t.num - 1 /\ j # last
        BY <1>1, <1>2
      <4> QED BY <1>2, <1>4, <4>1
    <3> QED BY <1>18, <3>1 DEF Quiet
  <2>2. u.num = w.num
    BY <1>10, <1>12, <2>1 DEF Loop
  <2>3. ASSUME NEW j \in Places PROVE u.array[j].id = w.array[j].id
    <3>1. u.array[j] \in {w.array[j], [w.array[j] EXCEPT !.owner = NoId]}
      BY <1>10, <1>12, <2>1 DEF Loop
    <3>2. w.array[j] \in PlayerRecords
      BY <1>1 DEF Tables
    <3> QED BY <3>1, <3>2 DEF PlayerRecords
  <2> QED BY <1>1, <1>4, <2>2, <2>3 DEF x, last
<1> QED
  BY <1>5, <1>12, <1>13, <1>14, <1>15, <1>16, <1>17, <1>18 DEF Deletes, u, y, x, i, last

-----------------------------------------------------------------------------
(* The invariant.  Between the frames nothing is left behind the players;  *)
(* the second walk comes to structures that somebody has, or has had.      *)

Typed ==
    /\ options \in Options
    /\ Table \in Tables /\ tanks <= MaxTanks
    /\ walk \in {"none", "up", "down"}
    /\ visit \in Places \cup {NoInd} /\ visited \subseteq Ids
Walking ==
    /\ walk = "none" => \A i \in Places : i >= num => array[i].id = NoId
    /\ walk # "none" => visit \in Places
    /\ walk = "down" => \A i \in 0 .. visit : array[i].id \in Ids
IInv ==
    /\ Typed /\ Sound(Table, {}) /\ Owned(Table, NoId, 0)
    /\ Walking /\ WalkMeetsAll

\* What the invariant says of the variables themselves.
LEMMA Fields ==
    ASSUME IInv
    PROVE  /\ array \in [Places -> PlayerRecords] /\ num \in 0 .. NumIds /\ num \in Nat
           /\ index \in [Ids -> Places \cup {NoInd}] /\ robots \in Int /\ tanks \in Int
           /\ free \in Seq(Ids) /\ broken \in BOOLEAN
           /\ \A i \in 0 .. num - 1 : i \in Places /\ array[i].id \in Ids /\ index[array[i].id] = i
           /\ \A id \in Ids : index[id] # NoInd =>
                 index[id] \in 0 .. num - 1 /\ array[index[id]].id = id
           /\ \A i, j \in Places : i # j /\ array[i].id = array[j].id => array[i].id = NoId
<1>1. Table \in Tables /\ Placed(Table, {})
  BY DEF IInv, Typed, Sound
<1>2. /\ array \in [Places -> PlayerRecords] /\ num \in 0 .. NumIds
      /\ index \in [Ids -> Places \cup {NoInd}] /\ robots \in Int /\ tanks \in Int
      /\ free \in Seq(Ids) /\ broken \in BOOLEAN
  BY <1>1 DEF Table, Tables
<1>3. num \in Nat /\ \A i \in 0 .. num - 1 : i \in Places
  BY <1>2, NumbersOfIds DEF Places
<1>4. /\ \A i \in 0 .. num - 1 : array[i].id \in Ids /\ index[array[i].id] = i
      /\ \A id \in Ids : index[id] # NoInd => index[id] \in 0 .. num - 1 /\ array[index[id]].id = id
      /\ \A i, j \in Places : i # j /\ array[i].id = array[j].id => array[i].id = NoId
  BY <1>1 DEF Table, Placed
<1> QED BY <1>2, <1>3, <1>4

\* A player of each kind is counted by his structure or by his identifier.
LEMMA KinPresent ==
    ASSUME IInv, NEW k
    PROVE  Cardinality({s \in Present : s.kind = k}) = Cardinality(Kin(Table, k))
<1> DEFINE S == {s \in Present : s.kind = k}
           K == Kin(Table, k)
           f == [id \in K |-> array[index[id]]]
<1>1. K = {id \in Ids : index[id] \in 0 .. num - 1 /\ array[index[id]].kind = k}
  BY DEF Kin, Table
<1>2. \A id \in K : f[id] \in S /\ f[id].id = id
  BY <1>1, Fields DEF Present, NoInd
<1>3. \A s \in S : s.id \in K /\ s = f[s.id]
  BY <1>1, Fields DEF Present
<1>4. IsFiniteSet(K)
  BY <1>1, TableAssumption, FS_Subset
<1>5. f \in Bijection(K, S)
  <2> HIDE DEF S, K
  <2>1. f \in [K -> S]
    BY <1>2
  <2> QED BY <1>2, <1>3, <2>1, Fun_IsBij
<1> QED BY <1>4, <1>5, FS_Bijection DEF ExistsBijection

LEMMA InvImplies == IInv => TypeOK /\ TableSound /\ CountersRight /\ OwnersPresent /\ WalkMeetsAll
<1> SUFFICES ASSUME IInv
             PROVE  TypeOK /\ TableSound /\ CountersRight /\ OwnersPresent /\ WalkMeetsAll
  OBVIOUS
<1>1. \A id \in Ids : id \in PresentIds <=> index[id] # NoInd
  BY Fields DEF PresentIds, Present, NoInd, Places
<1>2. CountersRight
  BY KinPresent DEF IInv, Sound, Counted, CountersRight, Table
<1>3. TypeOK
  <2>1. \A k : Cardinality(Kin(Table, k)) \in 0 .. NumIds
    <3>1. \A k : Kin(Table, k) \in SUBSET Ids
      BY DEF Kin
    <3> QED BY <3>1, TableAssumption, FS_Subset, FS_CardinalityType DEF NumIds
  <2>2. robots \in 0 .. NumIds /\ tanks \in Nat /\ tanks <= MaxTanks
    BY <2>1, NumbersOfIds DEF IInv, Sound, Counted, Table, Typed
  <2>3. tanks \in 0 .. MaxTanks
    BY <2>2, TableAssumption
  <2> QED BY <2>2, <2>3, Fields DEF TypeOK, IInv, Typed
<1>4. TableSound
  <2>1. Pooled(Table, {}) /\ Cardinality({}) = 0
    BY FS_EmptySet DEF IInv, Sound
  <2>2. Len(free) = NumIds - num
    BY <2>1, Fields, NumbersOfIds DEF Pooled, Table
  <2>3. {free[k] : k \in 1 .. Len(free)} = Ids \ PresentIds
    <3>1. \A k \in 1 .. Len(free) : free[k] \in Ids
      BY Fields, ElementOfSeq
    <3>2. \A id \in Ids : index[id] = NoInd <=> \E k \in 1 .. Len(free) : free[k] = id
      BY <2>1 DEF Pooled, Table
    <3> QED BY <1>1, <3>1, <3>2
  <2>4. \A i \in 0 .. num - 1 : array[i].id # NoId /\ index[array[i].id] = i
    BY Fields, TableAssumption
  <2> QED BY <1>1, <2>2, <2>3, <2>4 DEF TableSound
<1>5. OwnersPresent
  <2> SUFFICES ASSUME NEW i \in 0 .. num - 1, array[i].kind = "tank", array[i].owner # NoId
               PROVE  array[i].owner \in PresentIds /\ array[index[array[i].owner]].kind # "tank"
    BY DEF OwnersPresent, Present
  <2> DEFINE o == array[i].owner
  <2>1. o \in Ids /\ index[o] \in 0 .. num - 1 /\ array[index[o]].kind # "tank"
    BY DEF IInv, Owned, IsTank, Table
  <2>2. index[o] # NoInd
    BY <2>1, Fields DEF NoInd
  <2> QED BY <1>1, <2>1, <2>2
<1> QED BY <1>2, <1>3, <1>4, <1>5 DEF IInv

\* A step to table t.
LEMMA StepTo ==
    ASSUME NEW t \in Tables, Becomes(t), Sound(t, {}), Owned(t, NoId, 0), t.tanks <= MaxTanks,
           options' \in Options, walk' \in {"none", "up", "down"},
           visit' \in Places \cup {NoInd}, visited' \subseteq Ids, Walking', WalkMeetsAll'
    PROVE  IInv'
<1>1. Table' = t
  BY DEF Table, Becomes, Tables
<1>2. tanks' <= MaxTanks
  BY DEF Becomes
<1> QED BY <1>1, <1>2 DEF IInv, Typed

LEMMA InitInv == Init => IInv
<1> SUFFICES ASSUME Init PROVE IInv
  OBVIOUS
<1>1. /\ NumIds \in Nat /\ 0 \in 0 .. NumIds /\ free \in [1 .. NumIds -> Ids] /\ IsInjective(free)
      /\ 0 .. 0 - 1 = {} /\ 0 <= MaxTanks
  BY NumbersOfIds, TableAssumption DEF Init
<1>2. free \in Seq(Ids) /\ Len(free) = NumIds
  <2>1. free \in Seq(Ids)
    BY <1>1, SeqDef
  <2>2. 1 .. Len(free) = 1 .. NumIds /\ Len(free) \in Nat
    BY <1>1, <2>1, LenProperties
  <2> QED BY <1>1, <2>1, <2>2
<1>3. Table \in Tables
  <2>1. Unused \in PlayerRecords
    BY DEF Unused, PlayerRecords
  <2>2. /\ array \in [Places -> PlayerRecords] /\ index \in [Ids -> Places \cup {NoInd}]
    BY <2>1 DEF Init
  <2>3. robots \in Int /\ tanks \in Int /\ num \in 0 .. NumIds
    BY <1>1, SMT DEF Init
  <2>4. broken \in BOOLEAN
    BY DEF Init
  <2> QED BY <1>2, <2>2, <2>3, <2>4 DEF Table, Tables
<1>4. \A id \in Ids : \E k \in 1 .. Len(free) : free[k] = id
  <2>1. Cardinality(1 .. NumIds) = NumIds
    BY <1>1, FS_Interval
  <2>2. free \in Injection(1 .. NumIds, Ids)
    BY <1>1 DEF Injection
  <2>3. free \in Surjection(1 .. NumIds, Ids)
    BY <2>1, <2>2, TableAssumption, FS_Injection DEF NumIds
  <2> QED BY <1>2, <2>3 DEF Surjection
<1>5. Pooled(Table, {})
  <2>1. \A id \in Ids : index[id] = NoInd
    BY DEF Init
  <2>2. \A k, l \in 1 .. Len(free) : free[k] = free[l] => k = l
    BY <1>1, <1>2 DEF IsInjective
  <2>3. Len(free) = NumIds - num - Cardinality({})
    BY <1>1, <1>2, FS_EmptySet DEF Init
  <2> QED BY <1>4, <2>1, <2>2, <2>3 DEF Table, Pooled
<1>6. Placed(Table, {}) /\ Owned(Table, NoId, 0)
  <2>1. num = 0 /\ 0 .. num - 1 = {} /\ \A id \in Ids : index[id] = NoInd
    BY <1>1 DEF Init
  <2>2. \A i \in Places : array[i].id = NoId
    BY DEF Init, Unused
  <2> QED BY <2>1, <2>2 DEF Table, Placed, Owned
<1>7. Counted(Table)
  <2>1. \A k : Kin(Table, k) = {}
    BY <1>1 DEF Init, Table, Kin
  <2> QED BY <2>1, FS_EmptySet DEF Init, Table, Counted
<1>8. Walking /\ WalkMeetsAll
  BY DEF Init, Walking, WalkMeetsAll, Unused
<1> QED BY <1>1, <1>3, <1>5, <1>6, <1>7, <1>8 DEF IInv, Typed, Sound, Init

\* What is behind the players is of no use.
LEMMA ForgetSound ==
    ASSUME NEW t \in Tables, Sound(t, {}), Owned(t, NoId, 0)
    PROVE  LET u == Forget(t)
           IN  /\ u \in Tables /\ Sound(u, {}) /\ Owned(u, NoId, 0)
               /\ u.num = t.num /\ u.tanks = t.tanks /\ u.broken = t.broken
               /\ \A i \in Places : i >= u.num => u.array[i].id = NoId
<1> DEFINE a == [i \in Places |-> IF i < t.num THEN t.array[i] ELSE Unused]
           u == [t EXCEPT !.array = a]
<1>1. a \in [Places -> PlayerRecords]
  <2>1. Unused \in PlayerRecords
    BY DEF Unused, PlayerRecords
  <2> QED BY <2>1 DEF Tables
<1>2. u \in Tables
  BY <1>1, TableUpdates
<1>3. /\ u.num = t.num /\ u.index = t.index /\ u.robots = t.robots /\ u.tanks = t.tanks
      /\ u.free = t.free /\ u.broken = t.broken /\ u.array = a
  BY DEF Tables
<1>4. t.num \in Nat /\ \A i \in 0 .. t.num - 1 : i \in Places /\ i < t.num
  BY NumbersOfIds DEF Tables, Places
<1>5. /\ \A i \in 0 .. t.num - 1 : u.array[i] = t.array[i]
      /\ \A i \in Places : u.array[i].id \in {t.array[i].id, NoId}
      /\ \A i \in Places : i >= u.num => u.array[i].id = NoId
  BY <1>3, <1>4 DEF Unused, Places
<1>6. Forget(t) = u
  BY DEF Forget
<1> HIDE DEF u
<1>7. Sound(u, {}) /\ Owned(u, NoId, 0)
  BY <1>2, <1>3, <1>5, SamePlayers
<1> QED BY <1>2, <1>3, <1>5, <1>6, <1>7

-----------------------------------------------------------------------------
(* The steps.                                                              *)

\* A newcomer, who may be a tank that another player drops.
LEMMA AddSound ==
    ASSUME IInv, walk = "none", UNCHANGED options, NEW kind \in {"human", "robot", "tank"},
           NEW owner \in Ids \cup {NoId}, Add(kind, owner),
           kind = "tank" => /\ tanks < MaxTanks /\ owner \in Ids /\ index[owner] \in 0 .. num - 1
                            /\ array[index[owner]].kind # "tank"
    PROVE  IInv'
<1> DEFINE x == Head(free)
           r == [id |-> x, kind |-> kind, owner |-> owner, status |-> "alive"]
           t == Table'
<1>1. /\ x \in Ids /\ Tail(free) \in Seq(Ids) /\ Len(Tail(free)) = Len(free) - 1
      /\ Len(free) \in Nat /\ Len(free) >= 1 /\ x = free[1]
      /\ \A k \in 1 .. Len(Tail(free)) : Tail(free)[k] = free[k + 1]
  <2>1. free \in Seq(Ids) /\ free # <<>>
    BY Fields DEF Add
  <2>2. Head(free) = free[1]
    BY <2>1
  <2>3. Len(free) \in Nat /\ Len(free) # 0
    BY <2>1, EmptySeq, LenProperties
  <2> QED BY <2>1, <2>2, <2>3, HeadTailProperties
<1>2. /\ Pooled(Table, {}) /\ Placed(Table, {}) /\ Counted(Table) /\ Table \in Tables
      /\ Cardinality({}) = 0
  BY FS_EmptySet DEF IInv, Sound, Typed
<1>3. index[x] = NoInd /\ num < NumIds
  <2>1. index[x] = NoInd <=> \E k \in 1 .. Len(free) : free[k] = x
    BY <1>1, <1>2 DEF Pooled, Table
  <2>2. Len(free) = NumIds - num
    BY <1>2, Fields, NumbersOfIds DEF Pooled, Table
  <2> QED BY <1>1, <2>1, <2>2, Fields, NumbersOfIds
<1>4. num \in Places /\ num + 1 \in 0 .. NumIds /\ num \in Nat
  BY <1>3, Fields, NumbersOfIds DEF Places
<1>5. r \in PlayerRecords /\ r.id = x /\ r.kind = kind /\ r.owner = owner
  BY <1>1 DEF PlayerRecords
<1> HIDE DEF r, x
<1>6. /\ t.array = [array EXCEPT ![num] = r] /\ t.num = num + 1
      /\ t.index = [index EXCEPT ![x] = num]
      /\ t.robots = (IF kind = "robot" THEN robots + 1 ELSE robots)
      /\ t.tanks = (IF kind = "tank" THEN tanks + 1 ELSE tanks)
      /\ t.free = Tail(free) /\ t.broken = broken
  BY DEF Add, Table, r, x
<1>7. t \in Tables
  <2>1. /\ t.array \in [Places -> PlayerRecords] /\ t.index \in [Ids -> Places \cup {NoInd}]
        /\ t.robots \in Int /\ t.tanks \in Int
    BY <1>1, <1>4, <1>5, <1>6, Fields
  <2>2. t.num \in 0 .. NumIds /\ t.free \in Seq(Ids) /\ t.broken \in BOOLEAN
    BY <1>1, <1>4, <1>6, Fields
  <2> QED BY <2>1, <2>2 DEF Table, Tables
<1>8. Becomes(t)
  BY DEF Becomes, Table
<1>9. /\ \A i \in Places : t.array[i] = IF i = num THEN r ELSE array[i]
      /\ \A id \in Ids : t.index[id] = IF id = x THEN num ELSE index[id]
  BY <1>1, <1>6, Fields
<1> HIDE DEF t
<1>10. /\ \A i \in 0 .. num - 1 : i \in 0 .. num /\ i # num /\ i \in Places
       /\ num \in 0 .. num /\ t.num - 1 = num
       /\ \A i \in 0 .. num : i \in 0 .. num - 1 \/ i = num
       /\ NoInd \notin 0 .. num /\ NoInd # num
  BY <1>4, <1>6, Fields, SMTT(40) DEF NoInd
<1>11. \A i \in Places : array[i].id # x
  <2> SUFFICES ASSUME NEW i \in Places, array[i].id = x PROVE FALSE
    OBVIOUS
  <2>1. x # NoId
    BY <1>1, TableAssumption DEF x
  <2>2. i >= num => array[i].id = NoId
    BY DEF IInv, Walking
  <2>3. i < num => index[x] = i /\ i # NoInd
    BY <1>4, Fields DEF Places, NoInd
  <2> QED BY <1>3, <1>4, <2>1, <2>2, <2>3 DEF Places
<1>12. Placed(t, {})
  <2>1. \A i \in 0 .. t.num - 1 : t.array[i].id \in Ids /\ t.index[t.array[i].id] = i
    BY <1>1, <1>4, <1>5, <1>9, <1>10, <1>11, Fields, SMTT(40) DEF x
  <2>2. \A id \in Ids : t.index[id] # NoInd =>
            t.index[id] \in 0 .. t.num - 1 /\ t.array[t.index[id]].id = id
    <3> SUFFICES ASSUME NEW id \in Ids, t.index[id] # NoInd
                 PROVE  t.index[id] \in 0 .. num /\ t.array[t.index[id]].id = id
      BY <1>10
    <3>1. CASE id = x
      BY <1>4, <1>5, <1>9, <1>10, <3>1
    <3>2. CASE id # x
      <4>1. index[id] \in 0 .. num - 1 /\ array[index[id]].id = id /\ t.index[id] = index[id]
        BY <1>9, <3>2, Fields
      <4> QED BY <1>9, <1>10, <4>1
    <3> QED BY <3>1, <3>2
  <2>3. \A i, j \in Places : i # j /\ t.array[i].id = t.array[j].id => t.array[i].id = NoId
    BY <1>5, <1>9, <1>11, Fields
  <2>4. NoInd \notin 0 .. t.num - 1
    BY <1>10
  <2> QED BY <2>1, <2>2, <2>3, <2>4 DEF Placed
<1>13. Pooled(t, {})
  <2>1. Len(t.free) = NumIds - t.num - Cardinality({})
    BY <1>1, <1>2, <1>4, <1>6, Fields, NumbersOfIds, SMTT(40) DEF Pooled, Table
  <2>2. \A k, l \in 1 .. Len(free) : free[k] = free[l] => k = l
    BY <1>2 DEF Pooled, Table
  <2>3. \A k \in 1 .. Len(t.free) : k + 1 \in 1 .. Len(free) /\ t.free[k] = free[k + 1]
    BY <1>1, <1>6
  <2>4. \A k, l \in 1 .. Len(t.free) : t.free[k] = t.free[l] => k = l
    <3> SUFFICES ASSUME NEW k \in 1 .. Len(t.free), NEW l \in 1 .. Len(t.free),
                        t.free[k] = t.free[l]
                 PROVE  k = l
      OBVIOUS
    <3>1. k + 1 = l + 1
      BY <2>2, <2>3
    <3> QED BY <3>1
  <2>5. ASSUME NEW id \in Ids
        PROVE  t.index[id] = NoInd <=> \E k \in 1 .. Len(t.free) : t.free[k] = id
    <3>1. index[id] = NoInd <=> \E k \in 1 .. Len(free) : free[k] = id
      BY <1>2 DEF Pooled, Table
    <3>2. 1 \in 1 .. Len(free) /\ \A k \in 1 .. Len(free) : k # 1 =>
             k - 1 \in 1 .. Len(t.free) /\ t.free[k - 1] = free[k]
      <4> SUFFICES ASSUME NEW k \in 1 .. Len(free), k # 1
                   PROVE  k - 1 \in 1 .. Len(t.free) /\ t.free[k - 1] = free[k]
        BY <1>1
      <4>1. k - 1 \in 1 .. Len(t.free) /\ (k - 1) + 1 = k
        BY <1>1, <1>6
      <4> QED BY <2>3, <4>1
    <3>3. \A k \in 1 .. Len(t.free) : t.free[k] # x
      <4> SUFFICES ASSUME NEW k \in 1 .. Len(t.free), t.free[k] = x PROVE FALSE
        OBVIOUS
      <4>1. k + 1 = 1
        BY <1>1, <2>2, <2>3, <3>2 DEF x
      <4> QED BY <4>1
    <3>4. CASE id = x
      <4>1. t.index[id] # NoInd
        BY <1>9, <1>10, <3>4
      <4> QED BY <3>3, <3>4, <4>1
    <3>5. CASE id # x
      <4>1. t.index[id] = index[id] /\ free[1] # id
        BY <1>1, <1>9, <3>5 DEF x
      <4>2. ASSUME NEW k \in 1 .. Len(free), free[k] = id
            PROVE  \E l \in 1 .. Len(t.free) : t.free[l] = id
        <5>1. k - 1 \in 1 .. Len(t.free) /\ t.free[k - 1] = id
          BY <3>2, <4>1, <4>2
        <5> QED BY <5>1
      <4>3. ASSUME NEW k \in 1 .. Len(t.free), t.free[k] = id
            PROVE  \E l \in 1 .. Len(free) : free[l] = id
        <5>1. k + 1 \in 1 .. Len(free) /\ free[k + 1] = id
          BY <2>3, <4>3
        <5> QED BY <5>1
      <4> QED BY <3>1, <4>1, <4>2, <4>3
    <3> QED BY <3>4, <3>5
  <2> QED BY <2>1, <2>4, <2>5 DEF Pooled
<1>14. Counted(t)
  <2>1. ASSUME NEW k
        PROVE  Cardinality(Kin(t, k)) = IF k = kind THEN Cardinality(Kin(Table, k)) + 1
                                                    ELSE Cardinality(Kin(Table, k))
    <3>1. Kin(Table, k) = {id \in Ids : index[id] \in 0 .. num - 1 /\ array[index[id]].kind = k}
      BY DEF Kin, Table
    <3>2. \A id \in Ids \ {x} : id \in Kin(t, k) <=> id \in Kin(Table, k)
      BY <1>4, <1>9, <1>10, <3>1, Fields DEF Kin
    <3>3. x \in Kin(t, k) <=> k = kind
      BY <1>1, <1>4, <1>5, <1>9, <1>10 DEF Kin, x
    <3>4. x \notin Kin(Table, k)
      BY <1>3, <1>10, <3>1
    <3>5. Kin(t, k) = IF k = kind THEN Kin(Table, k) \cup {x} ELSE Kin(Table, k)
      BY <1>1, <3>2, <3>3, <3>4 DEF Kin, x
    <3>6. IsFiniteSet(Kin(Table, k))
      BY <3>1, TableAssumption, FS_Subset
    <3>7. Cardinality(Kin(Table, k) \cup {x}) = Cardinality(Kin(Table, k)) + 1
      BY <3>4, <3>6, FS_AddElement
    <3> QED BY <3>5, <3>7
  <2>2. robots = Cardinality(Kin(Table, "robot")) /\ tanks = Cardinality(Kin(Table, "tank"))
    BY <1>2 DEF Counted, Table
  <2> QED BY <1>6, <2>1, <2>2 DEF Counted
<1>15. Owned(t, NoId, 0)
  <2> SUFFICES ASSUME NEW i \in 0 .. num, IsTank(t.array[i])
               PROVE  /\ t.array[i].owner \in Ids
                      /\ t.index[t.array[i].owner] \in 0 .. num
                      /\ t.array[t.index[t.array[i].owner]].kind # "tank"
    BY <1>10 DEF Owned
  <2> DEFINE o == t.array[i].owner
  <2>1. o \in Ids /\ index[o] \in 0 .. num - 1 /\ array[index[o]].kind # "tank"
    <3>1. CASE i = num
      BY <1>4, <1>5, <1>9, <3>1 DEF IsTank
    <3>2. CASE i # num
      <4>1. i \in 0 .. num - 1 /\ t.array[i] = array[i] /\ ~(i < 0)
        BY <1>4, <1>9, <1>10, <3>2
      <4> QED BY <4>1 DEF IInv, Owned, Table
    <3> QED BY <3>1, <3>2
  <2>2. o # x
    BY <1>3, <1>10, <2>1
  <2> QED BY <1>9, <1>10, <2>1, <2>2
<1>16. t.tanks <= MaxTanks
  BY <1>6, Fields, TableAssumption DEF IInv, Typed
<1>17. Walking' /\ WalkMeetsAll'
  <2>1. \A i \in Places : i >= num + 1 => t.array[i].id = NoId
    BY <1>4, <1>9 DEF IInv, Walking, Places
  <2>2. array' = t.array /\ num' = num + 1
    BY <1>6, <1>8 DEF Becomes
  <2>3. walk' = "none"
    BY DEF Add, walkVars
  <2> QED BY <2>1, <2>2, <2>3 DEF Walking, WalkMeetsAll
<1>18. options' \in Options /\ UNCHANGED walkVars
  BY DEF IInv, Typed, Add
<1> QED
  BY <1>7, <1>8, <1>12, <1>13, <1>14, <1>15, <1>16, <1>17, <1>18, StepTo
     DEF Sound, IInv, Typed, walkVars

LEMMA EnterInv ==
    ASSUME IInv, UNCHANGED options, NEW kind \in {"human", "robot"}, Enter(kind)
    PROVE  IInv'
BY AddSound DEF Enter, Idle

LEMMA DetachInv ==
    ASSUME IInv, UNCHANGED options, NEW s \in Present, Detach(s)
    PROVE  IInv'
<1>1. s.id \in Ids /\ index[s.id] \in 0 .. num - 1 /\ array[index[s.id]] = s
  BY Fields DEF Present
<1> QED BY <1>1, AddSound DEF Detach, Idle

\* A player who is in the table, or in a place where one has been.
LEMMA DeleteFrom ==
    ASSUME IInv, NEW i \in Places, array[i].id \in Ids, NEW v \in Nat, NEW U,
           Above(Table, v, U)
    PROVE  /\ index[array[i].id] = NoInd =>
                 Delete(Table, array[i]) = [Table EXCEPT !.broken = TRUE]
           /\ index[array[i].id] # NoInd =>
                 /\ i = index[array[i].id] /\ i < num
                 /\ Deletes(Table, array[i].id, v, U, Delete(Table, array[i]))
<1> DEFINE s == array[i]
<1>1. /\ Table.array = array /\ Table.index = index /\ Table.num = num
  BY DEF Table
<1>2. CASE index[s.id] = NoInd
  BY <1>1, <1>2 DEF Delete
<1>3. CASE index[s.id] # NoInd
  <2>1. index[s.id] \in 0 .. num - 1 /\ index[s.id] \in Places /\ array[index[s.id]].id = s.id
    BY <1>3, Fields
  <2>2. i = index[s.id]
    BY <2>1, TableAssumption, Fields
  <2>3. /\ s \in PlayerRecords /\ s.id \in Ids
        /\ Table \in Tables /\ Sound(Table, {}) /\ Owned(Table, NoId, 0)
    BY Fields DEF IInv, Typed
  <2>4. i < num
    BY <2>1, <2>2, Fields
  <2>5. /\ Table.index[s.id] \in 0 .. Table.num - 1
        /\ s = Table.array[Table.index[s.id]]
    BY <1>1, <2>1, <2>2
  <2> HIDE DEF s
  <2>6. Deletes(Table, s.id, v, U, Delete(Table, s))
    BY <2>3, <2>5, DeleteSound
  <2> QED BY <1>3, <2>2, <2>4, <2>6 DEF s
<1> QED BY <1>2, <1>3

\* Marking the table as broken is the only thing that then happens to it.
LEMMA BrokenSound ==
    ASSUME NEW t \in Tables, Sound(t, {}), Owned(t, NoId, 0)
    PROVE  LET u == [t EXCEPT !.broken = TRUE]
           IN  /\ u \in Tables /\ Sound(u, {}) /\ Owned(u, NoId, 0)
               /\ u.array = t.array /\ u.num = t.num /\ u.tanks = t.tanks /\ u.broken = TRUE
<1> DEFINE u == [t EXCEPT !.broken = TRUE]
<1>1. u \in Tables
  BY TableUpdates
<1>2. /\ u.array = t.array /\ u.num = t.num /\ u.index = t.index /\ u.robots = t.robots
      /\ u.tanks = t.tanks /\ u.free = t.free /\ u.broken = TRUE
  BY DEF Tables
<1> HIDE DEF u
<1>3. Sound(u, {}) /\ Owned(u, NoId, 0)
  BY <1>1, <1>2, SamePlayers
<1> QED BY <1>1, <1>2, <1>3 DEF u

LEMMA LeaveInv ==
    ASSUME IInv, UNCHANGED options, NEW s \in Present, Leave(s)
    PROVE  IInv'
<1>1. PICK i \in 0 .. num - 1 : s = array[i]
  BY DEF Present
<1>2. i \in Places /\ s.id \in Ids /\ index[s.id] # NoInd
  BY <1>1, Fields DEF NoInd
<1> DEFINE t == Delete(Table, s)
           u == Forget(t)
<1>3. Deletes(Table, s.id, 0, Ids, t)
  <2>1. Above(Table, 0, Ids)
    BY Fields DEF Above, Table
  <2> QED BY <1>1, <1>2, <2>1, DeleteFrom
<1> HIDE DEF t
<1>4. t \in Tables /\ Sound(t, {}) /\ Owned(t, NoId, 0) /\ t.tanks <= Table.tanks
  BY <1>3 DEF Deletes
<1>5. /\ u \in Tables /\ Sound(u, {}) /\ Owned(u, NoId, 0)
      /\ u.tanks = t.tanks /\ \A j \in Places : j >= u.num => u.array[j].id = NoId
  BY <1>4, ForgetSound
<1>6. Becomes(u) /\ walk' = "none" /\ UNCHANGED walkVars
  BY DEF Leave, Idle, walkVars, t
<1> HIDE DEF u
<1>7. u.tanks <= MaxTanks
  <2>1. Table.tanks = tanks /\ tanks <= MaxTanks /\ tanks \in Int /\ MaxTanks \in Nat
    BY Fields, TableAssumption DEF Table, IInv, Typed
  <2> QED BY <1>4, <1>5, <2>1 DEF Tables
<1>8. Walking' /\ WalkMeetsAll'
  BY <1>5, <1>6 DEF Walking, WalkMeetsAll, Becomes
<1> QED BY <1>5, <1>6, <1>7, <1>8, StepTo DEF IInv, Typed, walkVars

\* Players are killed, paused and started again where they are.
LEMMA StatusSound ==
    ASSUME IInv, NEW a \in [Places -> PlayerRecords],
           \A i \in Places : /\ a[i].id = array[i].id /\ a[i].kind = array[i].kind
                             /\ a[i].owner = array[i].owner
    PROVE  LET u == [Table EXCEPT !.array = a]
           IN  /\ u \in Tables /\ Sound(u, {}) /\ Owned(u, NoId, 0)
               /\ u.array = a /\ u.num = num /\ u.index = index /\ u.robots = robots
               /\ u.tanks = tanks /\ u.free = free /\ u.broken = broken
<1> DEFINE u == [Table EXCEPT !.array = a]
<1>1. Table \in Tables /\ Sound(Table, {}) /\ Owned(Table, NoId, 0) /\ Table.array = array
  BY DEF IInv, Typed, Table
<1>2. u \in Tables
  BY <1>1, TableUpdates
<1>3. /\ u.array = a /\ u.num = Table.num /\ u.index = Table.index /\ u.robots = Table.robots
      /\ u.tanks = Table.tanks /\ u.free = Table.free /\ u.broken = Table.broken
  BY <1>1 DEF Tables
<1>4. \A i \in 0 .. Table.num - 1 : i \in Places
  BY Fields DEF Table
<1> HIDE DEF u
<1>5. Sound(u, {}) /\ Owned(u, NoId, 0)
  BY <1>1, <1>2, <1>3, <1>4, SamePlayers
<1> QED BY <1>2, <1>3, <1>5 DEF u, Table

LEMMA TogglePauseInv ==
    ASSUME IInv, UNCHANGED options, NEW s \in Present, TogglePause(s)
    PROVE  IInv'
<1> DEFINE a == array'
           t == [Table EXCEPT !.array = a]
<1>1. /\ array' \in [Places -> PlayerRecords]
      /\ \A i \in Places : /\ array'[i].id = array[i].id /\ array'[i].kind = array[i].kind
                            /\ array'[i].owner = array[i].owner
  <2>1. index[s.id] \in Places
    BY Fields DEF Present
  <2>2. array[index[s.id]] \in PlayerRecords
    BY <2>1, Fields
  <2> QED BY <2>1, <2>2, Fields DEF TogglePause, PlayerRecords
<1> HIDE DEF a
<1>2. /\ t \in Tables /\ Sound(t, {}) /\ Owned(t, NoId, 0)
      /\ t.array = a /\ t.num = num /\ t.index = index /\ t.robots = robots
      /\ t.tanks = tanks /\ t.free = free /\ t.broken = broken
  BY <1>1, StatusSound DEF a
<1> HIDE DEF t
<1>3. Becomes(t)
  BY <1>2 DEF Becomes, TogglePause, a
<1>4. Walking' /\ WalkMeetsAll'
  BY <1>1 DEF IInv, Walking, WalkMeetsAll, TogglePause, Idle, walkVars
<1> QED BY <1>2, <1>3, <1>4, StepTo DEF IInv, Typed, TogglePause, walkVars

LEMMA StartFrameInv ==
    ASSUME IInv, UNCHANGED options, StartFrame
    PROVE  IInv'
<1>1. Becomes(Table)
  BY DEF Becomes, Table, StartFrame
<1>2. 0 \in Places
  BY NumbersOfIds DEF Places
<1>3. Table.tanks <= MaxTanks
  BY DEF Table, IInv, Typed
<1>4. Walking' /\ WalkMeetsAll'
  <2>1. visit' = 0 /\ visited' = {} /\ walk' = "up"
    BY DEF StartFrame
  <2>2. 0 .. 0 - 1 = {}
    OBVIOUS
  <2> QED BY <1>2, <2>1, <2>2 DEF Walking, WalkMeetsAll
<1> QED BY <1>1, <1>2, <1>3, <1>4, StepTo DEF IInv, Typed, StartFrame

LEMMA UpdatePlayerInv ==
    ASSUME IInv, UNCHANGED options, NEW flooding \in BOOLEAN, Update_player(flooding)
    PROVE  IInv'
<1> DEFINE s == array[visit]
           U == Ids \ visited
           t == Delete(Table, s)
<1>1. /\ walk = "up" /\ visit \in Places /\ visit \in Nat /\ visit < num /\ visit \in 0 .. num - 1
      /\ s.id \in Ids /\ index[s.id] = visit /\ visit # NoInd
  <2>1. walk = "up" /\ visit \in Places /\ visit < num
    BY DEF IInv, Walking, Update_player
  <2>2. visit \in Nat /\ visit \in 0 .. num - 1 /\ visit # NoInd
    BY <2>1, Fields DEF Places, NoInd
  <2> QED BY <2>1, <2>2, Fields
<1>2. \A i \in visit .. num - 1 : array[i].id \in U
  <2>1. \A i \in visit .. num - 1 : i \in 0 .. num - 1
    BY <1>1, Fields
  <2> QED BY <1>1, <2>1, Fields DEF IInv, WalkMeetsAll
<1>3. options.keepShots => \A i \in 0 .. visit - 1 : array[i].id \in visited
  BY <1>1 DEF IInv, WalkMeetsAll
<1>4. CASE flooding
  <2>1. Becomes(t) /\ UNCHANGED walkVars
    BY <1>4 DEF Update_player
  <2>2. Deletes(Table, s.id, visit, U, t)
    <3>1. Above(Table, visit, U)
      BY <1>2 DEF Above, Table
    <3> HIDE DEF U
    <3> QED BY <1>1, <3>1, DeleteFrom
  <2> HIDE DEF t
  <2>3. /\ t \in Tables /\ Sound(t, {}) /\ Owned(t, NoId, 0) /\ t.tanks <= Table.tanks
        /\ Above(t, visit, U)
    BY <2>2 DEF Deletes
  <2>4. t.tanks <= MaxTanks
    <3>1. Table.tanks = tanks /\ tanks <= MaxTanks /\ tanks \in Int /\ MaxTanks \in Nat
      BY Fields, TableAssumption DEF Table, IInv, Typed
    <3> QED BY <2>3, <3>1 DEF Tables
  <2>5. ASSUME options.keepShots, NEW i \in 0 .. visit - 1
        PROVE  t.array[i].id \in visited
    <3>1. i \in Places /\ i # visit /\ i # num - 1
      BY <1>1, Fields DEF Places
    <3>2. Quiet(Table, s.id)
      BY <2>5 DEF Quiet
    <3>3. t.array[i].id = array[i].id
      BY <1>1, <2>2, <3>1, <3>2 DEF Deletes, Table
    <3> QED BY <1>3, <2>5, <3>3
  <2>6. Walking' /\ WalkMeetsAll'
    BY <1>1, <2>1, <2>3, <2>5 DEF Walking, WalkMeetsAll, Becomes, Above, walkVars
  <2> QED BY <2>1, <2>3, <2>4, <2>6, StepTo DEF IInv, Typed, walkVars
<1>5. CASE ~flooding
  <2>1. /\ UNCHANGED <<array, num, index, robots, tanks, free, broken, walk>>
        /\ visit' = visit + 1 /\ visited' = visited \cup {s.id}
    BY <1>5 DEF Update_player
  <2>2. Becomes(Table) /\ Table.tanks <= MaxTanks
    BY <2>1 DEF Becomes, Table, IInv, Typed
  <2>3. visit + 1 \in Places
    BY <1>1, Fields, NumbersOfIds DEF Places
  <2>4. \A i \in visit + 1 .. num - 1 : array[i].id \notin visited \cup {s.id}
    <3>1. \A i \in visit + 1 .. num - 1 : i \in visit .. num - 1 /\ i \in 0 .. num - 1 /\ i # visit
      BY <1>1, Fields
    <3> QED BY <1>1, <1>2, <3>1, Fields
  <2>5. options.keepShots => \A i \in 0 .. visit + 1 - 1 : array[i].id \in visited \cup {s.id}
    <3>1. \A i \in 0 .. visit + 1 - 1 : i = visit \/ i \in 0 .. visit - 1
      BY <1>1
    <3> QED BY <1>3, <3>1
  <2>6. Walking' /\ WalkMeetsAll'
    BY <1>1, <2>1, <2>3, <2>4, <2>5 DEF Walking, WalkMeetsAll
  <2>7. visited' \subseteq Ids
    BY <1>1, <2>1 DEF IInv, Typed
  <2> QED BY <1>1, <2>1, <2>2, <2>3, <2>6, <2>7, StepTo DEF IInv, Typed
<1> QED BY <1>4, <1>5

LEMMA StartWalkInv ==
    ASSUME IInv, UNCHANGED options, StartWalk
    PROVE  IInv'
<1>1. PICK dead \in SUBSET {i \in 0 .. num - 1 : array[i].status # "paused"} :
         LET table == [Table EXCEPT !.array = [i \in Places |->
                           IF i \in dead THEN [array[i] EXCEPT !.status = "killed"]
                                         ELSE array[i]]]
         IN  Becomes(IF num = 0 THEN Forget(table) ELSE table)
  BY DEF StartWalk
<1> DEFINE a == [i \in Places |-> IF i \in dead THEN [array[i] EXCEPT !.status = "killed"]
                                                ELSE array[i]]
           t == [Table EXCEPT !.array = a]
<1>2. /\ a \in [Places -> PlayerRecords]
      /\ \A i \in Places : /\ a[i].id = array[i].id /\ a[i].kind = array[i].kind
                            /\ a[i].owner = array[i].owner
  <2>1. \A i \in Places : array[i] \in PlayerRecords
    BY Fields
  <2> QED BY <2>1 DEF PlayerRecords
<1>3. Becomes(IF num = 0 THEN Forget(t) ELSE t)
  BY <1>1
<1> HIDE DEF a
<1>4. /\ t \in Tables /\ Sound(t, {}) /\ Owned(t, NoId, 0)
      /\ t.array = a /\ t.num = num /\ t.tanks = tanks
  BY <1>2, StatusSound
<1> HIDE DEF t
<1>5. /\ walk' = (IF num = 0 THEN "none" ELSE "down") /\ visit' = num - 1 /\ visited' = {}
  BY DEF StartWalk, FirstPlace
<1>6. t.tanks <= MaxTanks
  BY <1>4 DEF IInv, Typed
<1>7. CASE num = 0
  <2>1. /\ Forget(t) \in Tables /\ Sound(Forget(t), {}) /\ Owned(Forget(t), NoId, 0)
        /\ Forget(t).tanks = t.tanks
        /\ \A i \in Places : i >= Forget(t).num => Forget(t).array[i].id = NoId
    BY <1>4, ForgetSound
  <2> DEFINE u == Forget(t)
  <2> HIDE DEF u
  <2>2. Becomes(u)
    BY <1>3, <1>7 DEF u
  <2>3. walk' = "none" /\ visit' = NoInd
    BY <1>5, <1>7 DEF NoInd
  <2>4. Walking' /\ WalkMeetsAll'
    BY <2>1, <2>2, <2>3 DEF Walking, WalkMeetsAll, Becomes, u
  <2> QED BY <1>5, <1>6, <2>1, <2>2, <2>3, <2>4, StepTo DEF IInv, Typed, u
<1>8. CASE num # 0
  <2>1. Becomes(t) /\ walk' = "down"
    BY <1>3, <1>5, <1>8
  <2>2. num - 1 \in 0 .. num - 1 /\ num - 1 \in Places /\ num - 1 < num
    BY <1>8, Fields DEF Places
  <2>3. Walking'
    <3>1. \A i \in 0 .. num - 1 : a[i].id \in Ids
      BY <1>2, Fields
    <3> QED BY <1>4, <1>5, <2>1, <2>2, <3>1 DEF Walking, Becomes
  <2>4. WalkMeetsAll'
    <3>1. \A i \in 0 .. num - 1 : ~(i > num - 1)
      BY Fields
    <3> QED BY <1>4, <1>5, <2>1, <2>2, <3>1 DEF WalkMeetsAll, Becomes
  <2> QED BY <1>4, <1>5, <1>6, <2>1, <2>2, <2>3, <2>4, StepTo DEF IInv, Typed
<1> QED BY <1>7, <1>8

\* What a turn of the second walk makes of the table.
Visited(t) ==
    /\ t \in Tables /\ Sound(t, {}) /\ Owned(t, NoId, 0) /\ t.tanks <= tanks
    /\ \A i \in Places : array[i].id \in Ids => t.array[i].id \in Ids
    /\ (options.autoKick => options.keepShots) =>
          /\ visit - 1 < t.num
          /\ \A i \in 0 .. t.num - 1 :
                t.array[i].id \in visited \cup {array[visit].id} <=> i > visit - 1

\* When the walk deletes whom it meets, his tanks stay behind or he has none.
LEMMA VisitDeletes ==
    ASSUME IInv, walk = "down",
           (options.autoKick => options.keepShots) => Quiet(Table, array[visit].id)
    PROVE  Visited(Delete(Table, array[visit]))
<1> DEFINE s == array[visit]
           t == Delete(Table, s)
<1>1. visit \in Places /\ visit \in Nat /\ s.id \in Ids /\ visit \in 0 .. visit
  BY DEF IInv, Walking, Places
<1>2. Above(Table, num, {})
  <2>1. num .. num - 1 = {}
    BY Fields
  <2> QED BY <2>1 DEF Above, Table
<1>3. /\ index[s.id] = NoInd => t = [Table EXCEPT !.broken = TRUE]
      /\ index[s.id] # NoInd => visit = index[s.id] /\ visit < num
                               /\ Deletes(Table, s.id, num, {}, t)
  BY <1>1, <1>2, Fields, DeleteFrom
<1>4. /\ (options.autoKick => options.keepShots) =>
            /\ visit < num /\ visit \in 0 .. num - 1 /\ index[s.id] # NoInd
            /\ \A i \in 0 .. num - 1 : array[i].id \in visited <=> i > visit
  <2>1. visit < num => visit \in 0 .. num - 1
    BY <1>1, Fields
  <2>2. visit \in 0 .. num - 1 => index[s.id] # NoInd
    BY <1>1, Fields DEF NoInd
  <2> QED BY <2>1, <2>2 DEF IInv, WalkMeetsAll
<1> HIDE DEF t
<1>5. Table \in Tables /\ Sound(Table, {}) /\ Owned(Table, NoId, 0)
      /\ Table.array = array /\ Table.num = num /\ Table.index = index /\ Table.tanks = tanks
      /\ tanks \in Int
  BY Fields DEF IInv, Typed, Table
<1>6. CASE index[s.id] = NoInd
  <2>1. /\ t \in Tables /\ Sound(t, {}) /\ Owned(t, NoId, 0)
        /\ t.array = array /\ t.tanks = tanks
    BY <1>3, <1>5, <1>6, BrokenSound
  <2> QED BY <1>4, <1>5, <1>6, <2>1 DEF Visited, t
<1>7. CASE index[s.id] # NoInd
  <2>1. /\ t \in Tables /\ Sound(t, {}) /\ Owned(t, NoId, 0) /\ t.tanks <= tanks
        /\ \A i \in Places : array[i].id \in Ids => t.array[i].id \in Ids
    BY <1>3, <1>5, <1>7 DEF Deletes
  <2>2. ASSUME options.autoKick => options.keepShots
        PROVE  /\ visit - 1 < t.num
               /\ \A i \in 0 .. t.num - 1 :
                     t.array[i].id \in visited \cup {s.id} <=> i > visit - 1
    <3>1. /\ t.num = num - 1
          /\ \A i \in Places : t.array[i].id = IF i = visit THEN array[num - 1].id
                                              ELSE IF i = num - 1 THEN s.id
                                              ELSE array[i].id
      BY <1>3, <1>5, <1>7, <2>2 DEF Deletes
    <3>2. visit < num /\ visit \in 0 .. num - 1 /\ visit \in Nat
          /\ \A i \in 0 .. num - 1 : array[i].id \in visited <=> i > visit
      BY <1>1, <1>4, <2>2
    <3>3. ASSUME NEW i \in 0 .. t.num - 1
          PROVE  t.array[i].id \in visited \cup {s.id} <=> i > visit - 1
      <4>1. /\ i \in 0 .. num - 1 /\ i \in Places /\ i # num - 1 /\ i \in Nat
            /\ num - 1 \in 0 .. num - 1
        BY <3>1, Fields
      <4>2. CASE i = visit
        <5>1. num - 1 > visit /\ i > visit - 1
          BY <3>1, <3>2, <4>1, <4>2, Fields
        <5>2. array[num - 1].id \in visited
          BY <3>2, <4>1, <5>1
        <5> QED BY <3>1, <4>1, <4>2, <5>1, <5>2
      <4>3. CASE i # visit
        <5>1. t.array[i].id = array[i].id /\ array[i].id # s.id
          BY <3>1, <3>2, <4>1, <4>3, Fields
        <5>2. i > visit <=> i > visit - 1
          BY <3>2, <4>1, <4>3
        <5> QED BY <3>2, <4>1, <5>1, <5>2
      <4> QED BY <4>2, <4>3
    <3>4. visit - 1 < t.num
      BY <3>1, <3>2, Fields
    <3> QED BY <3>3, <3>4
  <2> QED BY <2>1, <2>2 DEF Visited, t
<1> QED BY <1>6, <1>7

\* Whoever it leaves in his place has been met.
LEMMA VisitKeeps ==
    ASSUME IInv, walk = "down", NEW t \in Tables, Sound(t, {}), Owned(t, NoId, 0),
           t.num = num, t.tanks = tanks, \A i \in Places : t.array[i].id = array[i].id
    PROVE  Visited(t)
<1>1. visit \in Places /\ visit \in Nat
  BY DEF IInv, Walking, Places
<1>2. ASSUME options.autoKick => options.keepShots
      PROVE  /\ visit - 1 < t.num
             /\ \A i \in 0 .. t.num - 1 :
                   t.array[i].id \in visited \cup {array[visit].id} <=> i > visit - 1
  <2>1. visit < num /\ \A i \in 0 .. num - 1 : array[i].id \in visited <=> i > visit
    BY <1>2 DEF IInv, WalkMeetsAll
  <2>2. visit \in 0 .. num - 1 /\ visit - 1 < num
    BY <1>1, <2>1, Fields
  <2>3. ASSUME NEW i \in 0 .. num - 1
        PROVE  array[i].id \in visited \cup {array[visit].id} <=> i > visit - 1
    <3>1. array[i].id = array[visit].id <=> i = visit
      BY <2>2, Fields
    <3>2. i > visit - 1 <=> i > visit \/ i = visit
      BY <1>1, Fields
    <3> QED BY <2>1, <3>1, <3>2
  <2> QED BY <2>2, <2>3, Fields
<1>3. t.tanks <= tanks
  BY Fields
<1> QED BY <1>2, <1>3 DEF Visited

LEMMA VisitInv ==
    ASSUME IInv, UNCHANGED options, NEW kick \in BOOLEAN, Visit(kick)
    PROVE  IInv'
<1> DEFINE s == array[visit]
           t == IF kick THEN Delete(Table, s) ELSE Bury(Table, visit)
           next == visit - 1
           w == IF next = NoInd THEN Forget(t) ELSE t
<1>1. /\ walk = "down" /\ visit \in Places /\ visit \in Nat /\ s.id \in Ids
      /\ \A i \in 0 .. visit : array[i].id \in Ids
  <2>1. walk = "down"
    BY DEF Visit
  <2>2. visit \in Places /\ visit \in Nat /\ visit \in 0 .. visit
    BY <2>1 DEF IInv, Walking, Places
  <2> QED BY <2>1, <2>2 DEF IInv, Walking
<1>2. /\ Becomes(w) /\ visit' = next
      /\ walk' = (IF next = NoInd THEN "none" ELSE "down")
      /\ visited' = (IF next = NoInd THEN {} ELSE visited \cup {s.id})
      /\ kick => options.autoKick
  BY DEF Visit, NextPlace
<1>3. Table.array = array /\ Table.num = num /\ Table.index = index /\ Table.tanks = tanks
      /\ Table \in Tables /\ Sound(Table, {}) /\ Owned(Table, NoId, 0)
  BY DEF IInv, Typed, Table
<1>4. Visited(t)
  <2>1. CASE kick
    <3>1. (options.autoKick => options.keepShots) => Quiet(Table, s.id)
      BY <1>2, <2>1 DEF Quiet
    <3>2. t = Delete(Table, s)
      BY <2>1
    <3> HIDE DEF t
    <3> QED BY <1>1, <3>1, <3>2, VisitDeletes
  <2>2. CASE ~kick /\ s.status # "killed"
    <3>1. t = Table
      BY <1>3, <2>2 DEF Bury
    <3> HIDE DEF t
    <3> QED BY <1>1, <1>3, <3>1, VisitKeeps
  <2>3. CASE ~kick /\ s.status = "killed" /\ s.kind = "tank"
    <3>1. t = Delete(Table, s)
      BY <1>3, <2>3 DEF Bury
    <3>2. (options.autoKick => options.keepShots) => Quiet(Table, s.id)
      <4> SUFFICES ASSUME options.autoKick => options.keepShots, NEW i \in 0 .. num - 1,
                          array[i].kind = "tank", array[i].owner = s.id
                   PROVE  FALSE
        BY <1>3 DEF Quiet
      <4>1. visit \in 0 .. num - 1
        BY <1>1, Fields DEF IInv, WalkMeetsAll
      <4>2. index[s.id] = visit /\ s.id # NoId
        BY <1>1, <4>1, Fields, TableAssumption
      <4>3. array[index[s.id]].kind # "tank"
        BY <1>3, <4>2 DEF Owned, IsTank
      <4> QED BY <2>3, <4>2, <4>3
    <3> HIDE DEF t
    <3> QED BY <1>1, <3>1, <3>2, VisitDeletes
  <2>4. CASE ~kick /\ s.status = "killed" /\ s.kind # "tank"
    <3> DEFINE a == [array EXCEPT ![visit].status = "alive"]
    <3>1. t = [Table EXCEPT !.array = a]
      BY <1>3, <2>4 DEF Bury
    <3>2. /\ a \in [Places -> PlayerRecords]
          /\ \A i \in Places : /\ a[i].id = array[i].id /\ a[i].kind = array[i].kind
                                /\ a[i].owner = array[i].owner
      <4>1. s \in PlayerRecords
        BY <1>1, Fields
      <4> QED BY <1>1, <4>1, Fields DEF PlayerRecords
    <3> HIDE DEF a, t
    <3>3. /\ t \in Tables /\ Sound(t, {}) /\ Owned(t, NoId, 0)
          /\ t.array = a /\ t.num = num /\ t.tanks = tanks
      BY <3>1, <3>2, StatusSound
    <3> QED BY <1>1, <3>2, <3>3, VisitKeeps
  <2> QED BY <2>1, <2>2, <2>3, <2>4
<1> HIDE DEF t
<1>5. t \in Tables /\ Sound(t, {}) /\ Owned(t, NoId, 0) /\ t.tanks <= MaxTanks
  <2>1. tanks \in Int /\ tanks <= MaxTanks /\ MaxTanks \in Nat
    BY Fields, TableAssumption DEF IInv, Typed
  <2> QED BY <1>4, <2>1 DEF Visited, Tables
<1>6. CASE next = NoInd
  <2> DEFINE u == Forget(t)
  <2>1. /\ u \in Tables /\ Sound(u, {}) /\ Owned(u, NoId, 0) /\ u.tanks = t.tanks
        /\ \A i \in Places : i >= u.num => u.array[i].id = NoId
    BY <1>5, ForgetSound
  <2> HIDE DEF u
  <2>2. Becomes(u) /\ walk' = "none" /\ visit' = NoInd /\ visited' = {}
    BY <1>2, <1>6 DEF u
  <2>3. Walking' /\ WalkMeetsAll'
    BY <2>1, <2>2 DEF Walking, WalkMeetsAll, Becomes
  <2> QED BY <1>5, <2>1, <2>2, <2>3, StepTo DEF IInv, Typed
<1>7. CASE next # NoInd
  <2>1. Becomes(t) /\ walk' = "down" /\ visit' = next /\ visited' = visited \cup {s.id}
    BY <1>2, <1>7
  <2>2. next \in Places /\ \A i \in 0 .. next : i \in Places /\ i \in 0 .. visit
    BY <1>1, <1>7, NumbersOfIds DEF NoInd, Places
  <2>3. Walking'
    BY <1>1, <1>4, <2>1, <2>2 DEF Walking, Becomes, Visited
  <2>4. WalkMeetsAll'
    BY <1>4, <2>1 DEF WalkMeetsAll, Becomes, Visited
  <2>5. visited' \subseteq Ids
    BY <1>1, <2>1 DEF IInv, Typed
  <2> QED BY <1>5, <2>1, <2>2, <2>3, <2>4, <2>5, StepTo DEF IInv, Typed
<1> QED BY <1>6, <1>7

LEMMA NextInv == IInv /\ [Next]_vars => IInv'
<1> SUFFICES ASSUME IInv, [Next]_vars PROVE IInv'
  OBVIOUS
<1>1. CASE Next
  <2>1. UNCHANGED options
    BY <1>1 DEF Next
  <2>2. CASE \E kind \in {"human", "robot"} : Enter(kind)
    BY <2>1, <2>2, EnterInv
  <2>3. CASE \E s \in Present : Detach(s)
    BY <2>1, <2>3, DetachInv
  <2>4. CASE \E s \in Present : Leave(s)
    BY <2>1, <2>4, LeaveInv
  <2>5. CASE \E s \in Present : TogglePause(s)
    BY <2>1, <2>5, TogglePauseInv
  <2>6. CASE StartFrame
    BY <2>1, <2>6, StartFrameInv
  <2>7. CASE StartWalk
    BY <2>1, <2>7, StartWalkInv
  <2>8. CASE \E flooding \in BOOLEAN : Update_player(flooding)
    BY <2>1, <2>8, UpdatePlayerInv
  <2>9. CASE \E kick \in BOOLEAN : Visit(kick)
    BY <2>1, <2>9, VisitInv
  <2> QED BY <1>1, <2>2, <2>3, <2>4, <2>5, <2>6, <2>7, <2>8, <2>9 DEF Next
<1>2. CASE UNCHANGED vars
  BY <1>2 DEF vars, walkVars, IInv, Typed, Walking, WalkMeetsAll, Table, Places
<1> QED BY <1>1, <1>2

\* The places of the array, the index and the counters stay in their ranges, for
\* any number of identifiers (Init_player, Delete_player, Robot_create).
THEOREM TypesKept == Spec => []TypeOK
<1>1. IInv => TypeOK
  BY InvImplies
<1> QED BY <1>1, InitInv, NextInv, PTL DEF Spec

\* However players, robots and tanks come and go, and whoever a walk deletes (on a
\* frame's way up or down), the array and the index of the players stay inverse to
\* each other, and an identifier is a player's or in the pool once (Init_player,
\* Delete_player, release_ID).
THEOREM TableSoundAlways == Spec => []TableSound
<1>1. IInv => TableSound
  BY InvImplies
<1> QED BY <1>1, InitInv, NextInv, PTL DEF Spec

\* The counters of robots and tanks (NumRobots, NumPseudoPlayers) count them, whoever
\* Delete_player() deletes with whom.
THEOREM CountersAlwaysRight == Spec => []CountersRight
<1>1. IInv => CountersRight
  BY InvImplies
<1> QED BY <1>1, InitInv, NextInv, PTL DEF Spec

\* The owner of a tank is a player in the game (Tank_handle_detach, Delete_player):
\* nobody takes an identifier while a tank still names it.
THEOREM OwnersAlwaysPresent == Spec => []OwnersPresent
<1>1. IInv => OwnersPresent
  BY InvImplies
<1> QED BY <1>1, InitInv, NextInv, PTL DEF Spec

\* Though the walks of a frame delete players and their tanks, and with them move
\* others about, the second meets everybody once if players who are thrown out
\* keep their tanks or are not thrown out; and the first meets nobody twice, and
\* misses nobody if their tanks stay.
THEOREM WalkMeetsAllAlways == Spec => []WalkMeetsAll
<1>1. IInv => WalkMeetsAll
  BY InvImplies
<1> QED BY <1>1, InitInv, NextInv, PTL DEF Spec
=============================================================================

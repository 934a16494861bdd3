--------------------------- MODULE ActivePlayProofs ---------------------------
(***************************************************************************)
(* Proofs about the unreliable half of the protocol, for every map, window *)
(* and lifetime of packets: what the server takes the client to know is    *)
(* what it shows, and no input is taken for received that was not.         *)
(*                                                                         *)
(* The argument about the map is one about ages.  A frame younger than an  *)
(* object's last change holds its value (FramesHold).  The client shows    *)
(* frames in order, so that all it may still show are younger than what    *)
(* any acknowledgement is about (DatagramsHold); and as an acknowledgement *)
(* only counts when it is younger than the last change, whatever is shown  *)
(* after it holds the value too (MasksHold).                               *)
(***************************************************************************)
EXTENDS ActivePlay, SequenceTheorems, WellFoundedInduction, TLAPS

-----------------------------------------------------------------------------
(* The inductive invariant.                                                *)

Types ==
    /\ val \in [Objects -> 0 .. 2] /\ \A o \in Objects : val[o] \in Values(o)
    /\ changeAge \in [Objects -> Nat] /\ \A o \in Objects : changeAge[o] <= MaxChangeAge
    /\ conn_mask \subseteq ConnObjects /\ update_mask \subseteq UpdateObjects
    /\ frames \in Seq(Range(frames)) /\ Len(frames) <= MaxAge
    /\ window \subseteq DOMAIN frames
    /\ lastAge \in 0 .. MaxLastAge
    /\ DOMAIN copy = Objects
    /\ \A d \in datagrams :
        /\ d = [age |-> d.age, loops |-> d.loops, acks |-> d.acks, key |-> d.key, talk |-> d.talk]
        /\ d.loops \in Nat

\* Frame f has nothing else about o than v; or than that it is destroyed or not.
Holds(f, o, v) == \A n \in DOMAIN f.objs : f.objs[n][1] = o => f.objs[n][2] = v
HoldsDead(f, o, v) ==
    \A n \in DOMAIN f.objs : f.objs[n][1] = o => (f.objs[n][2] = 0 <=> v = 0)

\* What the server takes the client to know, fully and of destruction only.
Known == conn_mask \cup (Range(Polygons) \ update_mask)
KnownDead == Range(Targets) \ update_mask

InOrder == \A i \in window : i - 1 < lastAge
FramesHold ==
    \A o \in Objects, i \in DOMAIN frames :
        i - 1 < changeAge[o] => Holds(frames[i], o, val[o])
DatagramsHold ==
    \A d \in datagrams :
        /\ lastAge <= d.loops
        /\ \A o \in d.acks \cap Objects : d.loops < changeAge[o] => copy[o] = val[o]
MasksHold ==
    \A i \in DOMAIN frames : i - 1 < lastAge =>
        /\ \A o \in Known : Holds(frames[i], o, val[o])
        /\ \A o \in KnownDead : HoldsDead(frames[i], o, val[o])

MapInv == Types /\ InOrder /\ FramesHold /\ DatagramsHold /\ MasksHold /\ KnownIsTrue

-----------------------------------------------------------------------------
(* Numbers and sequences.                                                  *)

LEMMA MinOfTwo ==
    ASSUME NEW a \in Int, NEW b \in Int
    PROVE  Min({a, b}) = IF a <= b THEN a ELSE b
<1>1. \E x \in {a, b} : \A y \in {a, b} : x <= y
  OBVIOUS
<1>2. Min({a, b}) \in {a, b} /\ \A y \in {a, b} : Min({a, b}) <= y
  BY <1>1 DEF Min
<1> QED BY <1>2

LEMMA MaxOfTwo ==
    ASSUME NEW a \in Int, NEW b \in Int
    PROVE  Max({a, b}) = IF a <= b THEN b ELSE a
<1>1. \E x \in {a, b} : \A y \in {a, b} : x >= y
  OBVIOUS
<1>2. Max({a, b}) \in {a, b} /\ \A y \in {a, b} : Max({a, b}) >= y
  BY <1>1 DEF Max
<1> QED BY <1>2

\* A set of numbers below a bound has a greatest one.
LEMMA GreatestNumber ==
    ASSUME NEW N \in Nat, NEW T \in SUBSET (1 .. N), T # {}
    PROVE  Max(T) \in T /\ \A y \in T : y <= Max(T)
<1> DEFINE R == {ss \in Nat \X Nat : ss[1] < ss[2]}
           D == {N - x : x \in T}
<1>1. IsWellFoundedOn(R, Nat)
  BY NatLessThanWellFounded DEF OpToRel
<1>2. D \in SUBSET Nat /\ D # {}
  <2>1. PICK y \in T : TRUE
    OBVIOUS
  <2>2. N - y \in D
    OBVIOUS
  <2>3. \A x \in T : N - x \in Nat
    OBVIOUS
  <2> QED BY <2>2, <2>3
<1>3. \E m \in D : \A y \in D : <<y, m>> \notin R
  <2> HIDE DEF R, D
  <2> QED BY <1>1, <1>2, WFMin
<1>4. PICK x \in T : \A y \in T : <<N - y, N - x>> \notin R
  BY <1>3
<1>5. \A y \in T : x >= y
  <2> SUFFICES ASSUME NEW y \in T PROVE x >= y
    OBVIOUS
  <2>1. N - y \in Nat /\ N - x \in Nat
    OBVIOUS
  <2>2. ~(N - y < N - x)
    BY <1>4, <2>1
  <2> QED BY <2>2
<1>6. Max(T) \in T /\ \A y \in T : Max(T) >= y
  BY <1>5 DEF Max
<1> QED BY <1>6

LEMMA SequenceIntoRange ==
    ASSUME NEW S, NEW s \in Seq(S)
    PROVE  s \in Seq(Range(s))
<1>1. s = [i \in 1 .. Len(s) |-> s[i]] /\ Len(s) \in Nat /\ DOMAIN s = 1 .. Len(s)
  BY LenProperties
<1>2. \A i \in 1 .. Len(s) : s[i] \in Range(s)
  BY <1>1 DEF Range
<1> DEFINE R == Range(s)
<1> HIDE DEF R
<1>3. s \in [1 .. Len(s) -> R]
  BY <1>1, <1>2 DEF R
<1>4. \E n \in Nat : s \in [1 .. n -> R]
  BY <1>1, <1>3
<1>5. s \in UNION {[1 .. n -> R] : n \in Nat}
  BY <1>4
<1>6. Seq(R) = UNION {[1 .. n -> R] : n \in Nat}
  BY SeqDef
<1>7. s \in Seq(R)
  BY <1>5, <1>6
<1> QED BY <1>7 DEF R

\* The ages of all that is under way move by one with a frame.
LEMMA FramesShift ==
    ASSUME NEW S, frames \in Seq(S), Len(frames) <= MaxAge, NEW f,
           frames' = SubSeq(<<f>> \o frames, 1, Min({MaxAge, Len(frames) + 1}))
    PROVE  /\ frames' \in Seq(Range(frames')) /\ Len(frames') <= MaxAge
           /\ \A i \in DOMAIN frames' :
                \/ i = 1 /\ frames'[i] = f
                \/ i - 1 \in DOMAIN frames /\ frames'[i] = frames[i - 1]
           /\ \A i \in DOMAIN frames : i < MaxAge => i + 1 \in DOMAIN frames'
<1> DEFINE all == <<f>> \o frames
           U == S \cup {f}
           m == Min({MaxAge, Len(frames) + 1})
<1>1. Len(frames) \in Nat /\ DOMAIN frames = 1 .. Len(frames) /\ MaxAge \in Nat \ {0}
  BY PlayAssumption
<1>2. frames \in Seq(U) /\ <<f>> \in Seq(U)
  OBVIOUS
<1>3. all \in Seq(U) /\ Len(all) = Len(frames) + 1
      /\ \A i \in 1 .. Len(all) : all[i] = IF i = 1 THEN f ELSE frames[i - 1]
  BY <1>1, <1>2, ConcatProperties
<1>4. m \in 1 .. Len(all) /\ m <= MaxAge /\ (m = MaxAge \/ m = Len(frames) + 1)
  BY <1>1, <1>3, MinOfTwo
<1> HIDE DEF all, m
<1>5. \A i \in 1 .. m : all[i] \in U
  BY <1>3, <1>4
<1>6. frames' = SubSeq(all, 1, m)
  BY DEF all, m
<1>7. frames' \in Seq(U) /\ Len(frames') = m /\ \A i \in 1 .. m : frames'[i] = all[i]
  <2>1. /\ SubSeq(all, 1, m) \in Seq(U)
        /\ Len(SubSeq(all, 1, m)) = (IF 1 <= m THEN m - 1 + 1 ELSE 0)
        /\ \A i \in 1 .. m - 1 + 1 : SubSeq(all, 1, m)[i] = all[1 + i - 1]
    BY <1>4, <1>5, SubSeqProperties
  <2>2. 1 <= m /\ m - 1 + 1 = m /\ \A i \in 1 .. m : 1 + i - 1 = i
    BY <1>4
  <2>3. \A i \in 1 .. m : SubSeq(all, 1, m)[i] = all[i]
    BY <2>1, <2>2
  <2>4. Len(SubSeq(all, 1, m)) = m
    BY <2>1, <2>2
  <2> HIDE <2>1
  <2> QED BY <1>6, <2>1, <2>3, <2>4, Zenon
<1>8. DOMAIN frames' = 1 .. m
  BY <1>7, LenProperties
<1>9. frames' \in Seq(Range(frames'))
  BY <1>7, LenProperties, SequenceIntoRange
<1>10. \A i \in DOMAIN frames' :
            \/ i = 1 /\ frames'[i] = f
            \/ i - 1 \in DOMAIN frames /\ frames'[i] = frames[i - 1]
  BY <1>1, <1>3, <1>4, <1>7, <1>8, SMTT(40)
<1>11. \A i \in DOMAIN frames : i < MaxAge => i + 1 \in DOMAIN frames'
  <2> SUFFICES ASSUME NEW i \in 1 .. Len(frames), i < MaxAge PROVE i + 1 \in 1 .. m
    BY <1>1, <1>8
  <2> QED BY <1>1, <1>4
<1> QED BY <1>4, <1>7, <1>9, <1>10, <1>11

-----------------------------------------------------------------------------
(* Each step keeps the invariant.                                          *)

LEMMA InitMap == Init => MapInv
<1> SUFFICES ASSUME Init PROVE MapInv
  OBVIOUS
<1>1. MaxAge \in Nat \ {0} /\ MaxChangeAge \in Nat /\ MaxLastAge \in Nat
  BY PlayAssumption DEF MaxChangeAge, MaxLastAge
<1>2. Types
  <2>1. frames \in Seq(Range(frames)) /\ Len(frames) <= MaxAge
    BY <1>1 DEF Init
  <2> QED BY <1>1, <2>1 DEF Init, Types
<1>3. \A o \in Known \cup KnownDead : copy[o] = val[o]
  BY DEF Init, Known, KnownDead, Handle_login, Objects, Kinds, ConnObjects, UpdateObjects
<1>4. KnownIsTrue
  BY <1>3 DEF KnownIsTrue, Known, KnownDead
<1> QED BY <1>2, <1>4
        DEF Init, MapInv, InOrder, FramesHold, DatagramsHold, MasksHold

\* What a change leaves known has kept its value, or whether it is destroyed.
LEMMA ChangeMap ==
    ASSUME MapInv, NEW o \in Objects, Change(o)
    PROVE  MapInv'
<1> USE DEF MapInv, Types
<1>1. PICK v \in Values(o), restored \in BOOLEAN :
        /\ v = 0 => val[o] # 0
        /\ restored => v = 2
        /\ val[o] = 0 => restored
        /\ val' = [val EXCEPT ![o] = v]
        /\ changeAge' = [changeAge EXCEPT ![o] = 0]
        /\ conn_mask' = conn_mask \ {o}
        /\ update_mask' = IF v = 0 \/ restored THEN update_mask \cup ({o} \cap UpdateObjects)
                          ELSE update_mask
  BY DEF Change
<1>2. UNCHANGED <<frames, window, lastAge, copy, datagrams>>
  BY DEF Change, network, client
<1>3. Types'
  <2>1. v \in 0 .. 2 /\ MaxChangeAge \in Nat
    BY PlayAssumption DEF Values, MaxChangeAge
  <2>2. val' \in [Objects -> 0 .. 2] /\ \A x \in Objects : val'[x] \in Values(x)
    BY <1>1, <2>1
  <2>3. changeAge' \in [Objects -> Nat] /\ \A x \in Objects : changeAge'[x] <= MaxChangeAge
    BY <1>1, <2>1
  <2>4. conn_mask' \subseteq ConnObjects /\ update_mask' \subseteq UpdateObjects
    BY <1>1
  <2> QED BY <1>2, <2>2, <2>3, <2>4
<1>4. InOrder'
  BY <1>2 DEF InOrder
<1>5. \A x \in Objects \ {o} : val'[x] = val[x] /\ changeAge'[x] = changeAge[x]
  BY <1>1
<1>6. changeAge'[o] = 0 /\ val'[o] = v
  BY <1>1
<1>7. FramesHold'
  <2>1. \A i \in DOMAIN frames : i \in Nat \ {0}
    BY LenProperties
  <2> QED BY <1>2, <1>5, <1>6, <2>1 DEF FramesHold
<1>8. DatagramsHold'
  BY <1>2, <1>5, <1>6 DEF DatagramsHold
<1>9. /\ \A x \in Known' : x \in Known /\ x \in Objects /\ val'[x] = val[x]
      /\ \A x \in KnownDead' : x \in KnownDead /\ x \in Objects /\ (val'[x] = 0 <=> val[x] = 0)
  <2>1. \A x \in Known' : x \in Known /\ x \in Objects
    BY <1>1 DEF Known, ConnObjects, Objects, Kinds
  <2>2. \A x \in KnownDead' : x \in KnownDead /\ x \in Objects
    BY <1>1 DEF KnownDead, Objects, Kinds
  <2>3. ASSUME o \in Known' PROVE val'[o] = val[o]
    <3>1. o \in Range(Polygons) \ update_mask'
      BY <1>1, <2>3 DEF Known
    <3>2. ~(v = 0 \/ restored)
      BY <1>1, <3>1 DEF UpdateObjects
    <3>3. Values(o) = {0, 2}
      BY <3>1, PlayAssumption DEF Values
    <3> QED BY <1>1, <1>6, <3>2, <3>3
  <2>4. ASSUME o \in KnownDead' PROVE val'[o] = 0 <=> val[o] = 0
    <3>1. ~(v = 0 \/ restored)
      BY <1>1, <2>4 DEF KnownDead, UpdateObjects
    <3> QED BY <1>1, <1>6, <3>1
  <2> QED BY <1>5, <2>1, <2>2, <2>3, <2>4
<1>10. MasksHold'
  BY <1>2, <1>9 DEF MasksHold, HoldsDead
<1>11. KnownIsTrue'
  BY <1>2, <1>9 DEF KnownIsTrue, Known, KnownDead
<1> QED BY <1>3, <1>4, <1>7, <1>8, <1>10, <1>11

\* Everything under way becomes one frame older, and the new frame shows what is.
LEMMA FrameMap ==
    ASSUME MapInv, Frame_update
    PROVE  MapInv'
<1> USE DEF MapInv, Types
<1> DEFINE Fresh(f) == \A x \in Objects : Holds(f, x, val[x])
<1>1. PICK f : /\ Fresh(f)
               /\ frames' = SubSeq(<<f>> \o frames, 1, Min({MaxAge, Len(frames) + 1}))
  <2> DEFINE objs == InFrame(Targets) \o InFrame(Cannons) \o InFrame(Polygons)
             g == [key_ack |-> last_key_change,
                   objs |-> [n \in DOMAIN objs |-> <<objs[n], val[objs[n]]>>]]
  <2>1. frames' = SubSeq(<<g>> \o frames, 1, Min({MaxAge, Len(frames) + 1}))
    BY DEF Frame_update
  <2> HIDE DEF objs
  <2>2. Fresh(g)
    BY DEF Holds
  <2> QED BY <2>1, <2>2
<1> HIDE DEF Fresh
<1>2. /\ frames' \in Seq(Range(frames')) /\ Len(frames') <= MaxAge
      /\ \A i \in DOMAIN frames' :
           \/ i = 1 /\ frames'[i] = f
           \/ i - 1 \in DOMAIN frames /\ frames'[i] = frames[i - 1]
      /\ \A i \in DOMAIN frames : i < MaxAge => i + 1 \in DOMAIN frames'
  <2>1. frames \in Seq(Range(frames)) /\ Len(frames) <= MaxAge
    OBVIOUS
  <2> QED BY <1>1, <2>1, FramesShift
<1>3. UNCHANGED <<val, conn_mask, update_mask, copy>>
  BY DEF Frame_update
<1>4. MaxAge \in Nat \ {0} /\ MaxChangeAge \in Nat /\ MaxChangeAge >= MaxAge
      /\ MaxLastAge \in Nat /\ MaxLastAge >= MaxAge
  BY PlayAssumption, SMTT(40) DEF MaxChangeAge, MaxLastAge
<1>5. \A x \in Objects : /\ changeAge'[x] \in Nat /\ changeAge'[x] <= MaxChangeAge
                         /\ changeAge'[x] = changeAge[x] + 1 \/ changeAge'[x] = MaxChangeAge
                         /\ changeAge'[x] <= changeAge[x] + 1
  <2> SUFFICES ASSUME NEW x \in Objects
               PROVE  /\ changeAge'[x] \in Nat /\ changeAge'[x] <= MaxChangeAge
                      /\ changeAge'[x] = changeAge[x] + 1 \/ changeAge'[x] = MaxChangeAge
                      /\ changeAge'[x] <= changeAge[x] + 1
    OBVIOUS
  <2>1. changeAge'[x] = Min({changeAge[x] + 1, MaxChangeAge})
    BY DEF Frame_update, Older
  <2>2. changeAge[x] \in Nat /\ changeAge[x] <= MaxChangeAge
    OBVIOUS
  <2>3. changeAge'[x] = IF changeAge[x] + 1 <= MaxChangeAge THEN changeAge[x] + 1 ELSE MaxChangeAge
    <3>1. changeAge[x] + 1 \in Int /\ MaxChangeAge \in Int
      BY <1>4, <2>2
    <3> QED BY <2>1, <3>1, MinOfTwo
  <2> QED BY <1>4, <2>2, <2>3
<1>6. /\ lastAge' \in 0 .. MaxLastAge /\ lastAge' <= lastAge + 1
      /\ lastAge' = lastAge + 1 \/ lastAge' = MaxLastAge
  <2>1. lastAge' = Min({lastAge + 1, MaxLastAge}) /\ lastAge \in 0 .. MaxLastAge
    BY DEF Frame_update, Older
  <2>2. lastAge + 1 \in Int /\ MaxLastAge \in Int
    BY <1>4, <2>1
  <2>3. lastAge' = IF lastAge + 1 <= MaxLastAge THEN lastAge + 1 ELSE MaxLastAge
    BY <2>1, <2>2, MinOfTwo
  <2> QED BY <1>4, <2>1, <2>3
<1>7. \A d \in datagrams' : \E e \in datagrams :
        /\ d.loops = e.loops + 1 /\ d.acks = e.acks
        /\ d = [age |-> d.age, loops |-> d.loops, acks |-> d.acks, key |-> d.key, talk |-> d.talk]
  <2> SUFFICES ASSUME NEW d \in datagrams'
               PROVE  \E e \in datagrams :
                        /\ d.loops = e.loops + 1 /\ d.acks = e.acks
                        /\ d = [age |-> d.age, loops |-> d.loops, acks |-> d.acks,
                                key |-> d.key, talk |-> d.talk]
    OBVIOUS
  <2>1. PICK e \in datagrams : d = [e EXCEPT !.age = @ + 1, !.loops = @ + 1]
    BY DEF Frame_update
  <2>2. e = [age |-> e.age, loops |-> e.loops, acks |-> e.acks, key |-> e.key, talk |-> e.talk]
    OBVIOUS
  <2>3. d = [age |-> e.age + 1, loops |-> e.loops + 1, acks |-> e.acks,
             key |-> e.key, talk |-> e.talk]
    BY <2>1, <2>2
  <2> QED BY <2>3
<1>8. window' = {i + 1 : i \in window} /\ \A i \in window : i < MaxAge
  BY DEF Frame_update
<1>9. \A i \in DOMAIN frames : i \in Nat \ {0} /\ i <= MaxAge
  BY <1>4, LenProperties
<1>10. \A i \in DOMAIN frames' : i \in Nat \ {0} /\ i <= MaxAge
  BY <1>2, <1>4, LenProperties
<1>11. Types'
  <2>1. window' \subseteq DOMAIN frames'
    BY <1>2, <1>8
  <2>2. \A d \in datagrams' :
            /\ d = [age |-> d.age, loops |-> d.loops, acks |-> d.acks, key |-> d.key, talk |-> d.talk]
            /\ d.loops \in Nat
    BY <1>7
  <2>3. changeAge' \in [Objects -> Nat]
    BY <1>5 DEF Frame_update
  <2> QED BY <1>2, <1>3, <1>5, <1>6, <2>1, <2>2, <2>3
<1>12. InOrder'
  BY <1>4, <1>6, <1>8, <1>9 DEF InOrder
<1>13. FramesHold'
  <2> SUFFICES ASSUME NEW x \in Objects, NEW i \in DOMAIN frames', i - 1 < changeAge'[x]
               PROVE  Holds(frames'[i], x, val[x])
    BY <1>3 DEF FramesHold
  <2>1. CASE i = 1 /\ frames'[i] = f
    BY <2>1, <1>1 DEF Fresh
  <2>2. CASE i - 1 \in DOMAIN frames /\ frames'[i] = frames[i - 1]
    <3>1. (i - 1) - 1 < changeAge[x]
      BY <1>5, <1>10
    <3> QED BY <2>2, <3>1 DEF FramesHold
  <2> QED BY <1>2, <2>1, <2>2
<1>14. DatagramsHold'
  <2> SUFFICES ASSUME NEW d \in datagrams'
               PROVE  /\ lastAge' <= d.loops
                      /\ \A x \in d.acks \cap Objects : d.loops < changeAge'[x] => copy[x] = val[x]
    BY <1>3 DEF DatagramsHold
  <2>1. PICK e \in datagrams : d.loops = e.loops + 1 /\ d.acks = e.acks
    BY <1>7
  <2>2. e.loops \in Nat /\ lastAge <= e.loops
        /\ \A x \in e.acks \cap Objects : e.loops < changeAge[x] => copy[x] = val[x]
    BY DEF DatagramsHold
  <2>3. \A x \in d.acks \cap Objects : d.loops < changeAge'[x] => e.loops < changeAge[x]
    BY <1>5, <2>1, <2>2
  <2> QED BY <1>6, <2>1, <2>2, <2>3
<1>15. UNCHANGED <<Known, KnownDead>>
  BY <1>3 DEF Known, KnownDead
<1>16. Known \subseteq Objects /\ KnownDead \subseteq Objects
  BY DEF Known, KnownDead, ConnObjects, Objects, Kinds
<1>17. MasksHold'
  <2> SUFFICES ASSUME NEW i \in DOMAIN frames', i - 1 < lastAge'
               PROVE  /\ \A x \in Known : Holds(frames'[i], x, val[x])
                      /\ \A x \in KnownDead : HoldsDead(frames'[i], x, val[x])
    BY <1>3, <1>15 DEF MasksHold
  <2>1. CASE i = 1 /\ frames'[i] = f
    BY <2>1, <1>1, <1>16 DEF Fresh, Holds, HoldsDead
  <2>2. CASE i - 1 \in DOMAIN frames /\ frames'[i] = frames[i - 1]
    <3>1. (i - 1) - 1 < lastAge
      BY <1>4, <1>6, <1>10
    <3> QED BY <2>2, <3>1 DEF MasksHold
  <2> QED BY <1>2, <2>1, <2>2
<1>18. KnownIsTrue'
  BY <1>3 DEF KnownIsTrue
<1> QED BY <1>11, <1>12, <1>13, <1>14, <1>17, <1>18

\* Only the window changes, and it is a set of frames not shown yet.
LEMMA ReadMap ==
    ASSUME MapInv, NEW i \in 1 .. MaxAge, Net_read(i)
    PROVE  MapInv'
<1> USE DEF MapInv, Types
<1>1. window' \subseteq window \cup {i}
  BY DEF Net_read
<1>2. i \in DOMAIN frames /\ i - 1 < lastAge
  BY DEF Net_read, NewFrame
<1>3. UNCHANGED <<traffic, server, network, lastAge, copy>>
  BY DEF Net_read
<1>4. UNCHANGED <<val, changeAge, conn_mask, update_mask, frames, datagrams>>
  BY <1>3 DEF server, map, network
<1>5. Types' /\ InOrder'
  BY <1>1, <1>2, <1>3, <1>4 DEF InOrder
<1>6. FramesHold' /\ DatagramsHold' /\ MasksHold' /\ KnownIsTrue'
  BY <1>3, <1>4 DEF FramesHold, DatagramsHold, MasksHold, KnownIsTrue, Known, KnownDead
<1> QED BY <1>5, <1>6

\* The frame that is shown is younger than all that was shown and acknowledged.
LEMMA PacketMap ==
    ASSUME MapInv, Net_packet
    PROVE  MapInv'
<1> USE DEF MapInv, Types
<1> DEFINE i == Max(window)
           objs == frames[i].objs
           acks == {objs[n][1] : n \in (1 .. MaxAcks) \cap DOMAIN objs}
           About(x) == \E n \in DOMAIN objs : objs[n][1] = x
<1>1. DOMAIN frames = 1 .. Len(frames) /\ Len(frames) \in Nat
  BY LenProperties
<1>2. i \in window /\ \A j \in window : j <= i
  <2>1. window \in SUBSET (1 .. Len(frames)) /\ window # {}
    BY <1>1 DEF Net_packet
  <2> QED BY <1>1, <2>1, GreatestNumber
<1>3. i \in DOMAIN frames /\ i \in Nat \ {0} /\ i - 1 < lastAge
  BY <1>1, <1>2, SMTT(40) DEF InOrder
<1>4. /\ lastAge' = i - 1
      /\ copy' = [x \in Objects |-> IF About(x)
                  THEN objs[CHOOSE n \in DOMAIN objs : objs[n][1] = x][2] ELSE copy[x]]
      /\ window' = window \ {i}
      /\ \E key, line : datagrams' \in {datagrams, datagrams \cup {Datagram(i - 1, acks, key, line)}}
  <2>1. \E key, line : \E sent \in BOOLEAN :
          datagrams' = datagrams \cup (IF sent THEN {Datagram(i - 1, acks, key, line)} ELSE {})
    BY DEF Net_packet
  <2>2. \E key, line : datagrams' \in {datagrams, datagrams \cup {Datagram(i - 1, acks, key, line)}}
    BY <2>1
  <2> QED BY <2>2 DEF Net_packet
<1>5. UNCHANGED <<val, changeAge, conn_mask, update_mask, frames>>
  BY DEF Net_packet, server, map
<1>6. \A x \in acks : About(x)
  OBVIOUS
<1> HIDE DEF acks, i
<1>7. ASSUME NEW x \in Objects, Holds(frames[i], x, val[x]), About(x) \/ copy[x] = val[x]
      PROVE  copy'[x] = val[x]
  BY <1>4, <1>7 DEF Holds
<1>8. ASSUME NEW x \in Objects, HoldsDead(frames[i], x, val[x]), copy[x] = 0 <=> val[x] = 0
      PROVE  copy'[x] = 0 <=> val[x] = 0
  BY <1>4, <1>8 DEF HoldsDead
<1> HIDE DEF About
<1>9. PICK key, line : datagrams' \in {datagrams, datagrams \cup {Datagram(i - 1, acks, key, line)}}
  BY <1>4
<1>10. \A d \in datagrams' : d \in datagrams \/ d = Datagram(i - 1, acks, key, line)
  BY <1>9
<1>11. Types'
  <2>1. lastAge' \in 0 .. MaxLastAge
    <3>1. MaxLastAge \in Nat
      BY PlayAssumption DEF MaxLastAge
    <3>2. i - 1 >= 0 /\ i - 1 <= MaxLastAge
      BY <1>3, <3>1
    <3> QED BY <1>3, <1>4, <3>1, <3>2
  <2>2. \A d \in datagrams' :
            /\ d = [age |-> d.age, loops |-> d.loops, acks |-> d.acks, key |-> d.key, talk |-> d.talk]
            /\ d.loops \in Nat
    BY <1>3, <1>10 DEF Datagram
  <2> QED BY <1>4, <1>5, <2>1, <2>2
<1>12. InOrder'
  BY <1>1, <1>2, <1>4 DEF InOrder
<1>13. FramesHold'
  BY <1>5 DEF FramesHold
<1>14. DatagramsHold'
  <2> SUFFICES ASSUME NEW d \in datagrams'
               PROVE  /\ lastAge' <= d.loops
                      /\ \A x \in d.acks \cap Objects : d.loops < changeAge[x] => copy'[x] = val[x]
    BY <1>5 DEF DatagramsHold
  <2>1. CASE d \in datagrams
    <3>1. lastAge <= d.loops /\ d.loops \in Nat
      BY <2>1 DEF DatagramsHold
    <3>2. ASSUME NEW x \in d.acks \cap Objects, d.loops < changeAge[x] PROVE copy'[x] = val[x]
      <4>1. copy[x] = val[x]
        BY <2>1, <3>2 DEF DatagramsHold
      <4>2. i - 1 < changeAge[x]
        BY <1>3, <3>1, <3>2
      <4>3. Holds(frames[i], x, val[x])
        BY <1>3, <4>2 DEF FramesHold
      <4> QED BY <1>7, <4>1, <4>3
    <3>3. lastAge' <= d.loops
      BY <1>3, <1>4, <3>1
    <3> QED BY <3>2, <3>3
  <2>2. CASE d = Datagram(i - 1, acks, key, line)
    <3>1. d.loops = i - 1 /\ d.acks = acks
      BY <2>2 DEF Datagram
    <3>2. ASSUME NEW x \in acks \cap Objects, i - 1 < changeAge[x] PROVE copy'[x] = val[x]
      <4>1. Holds(frames[i], x, val[x])
        BY <1>3, <3>2 DEF FramesHold
      <4> QED BY <1>6, <1>7, <4>1
    <3>3. lastAge' <= d.loops
      BY <1>3, <1>4, <3>1
    <3> QED BY <3>1, <3>2, <3>3
  <2> QED BY <1>10, <2>1, <2>2
<1>15. UNCHANGED <<Known, KnownDead>>
  BY <1>5 DEF Known, KnownDead
<1>16. MasksHold'
  <2> SUFFICES ASSUME NEW j \in DOMAIN frames, j - 1 < lastAge'
               PROVE  /\ \A x \in Known : Holds(frames[j], x, val[x])
                      /\ \A x \in KnownDead : HoldsDead(frames[j], x, val[x])
    BY <1>5, <1>15 DEF MasksHold
  <2>1. j - 1 < lastAge
    BY <1>1, <1>3, <1>4
  <2> QED BY <2>1 DEF MasksHold
<1>17. /\ \A x \in Known : x \in Objects /\ copy[x] = val[x] /\ Holds(frames[i], x, val[x])
       /\ \A x \in KnownDead : /\ x \in Objects /\ (copy[x] = 0 <=> val[x] = 0)
                               /\ HoldsDead(frames[i], x, val[x])
  <2>1. Known \subseteq Objects /\ KnownDead \subseteq Objects
    BY DEF Known, KnownDead, ConnObjects, Objects, Kinds
  <2>2. /\ \A x \in Known : copy[x] = val[x]
        /\ \A x \in KnownDead : copy[x] = 0 <=> val[x] = 0
    BY DEF KnownIsTrue, Known, KnownDead
  <2> QED BY <1>3, <2>1, <2>2 DEF MasksHold
<1>18. KnownIsTrue'
  BY <1>5, <1>7, <1>8, <1>15, <1>17 DEF KnownIsTrue, Known, KnownDead
<1> QED BY <1>11, <1>12, <1>13, <1>14, <1>16, <1>18

\* A datagram without acknowledgements says nothing about the map.
LEMMA SendMap ==
    ASSUME MapInv, NEW key, NEW line, NEW acks,
           acks = {}, datagrams' = datagrams \cup {Datagram(lastAge, acks, key, line)},
           UNCHANGED <<traffic, server, frames, window, lastAge, copy>>
    PROVE  MapInv'
<1> USE DEF MapInv, Types
<1>1. UNCHANGED <<val, changeAge, conn_mask, update_mask>>
  BY DEF server, map
<1>2. \A d \in datagrams' : d \in datagrams \/ d = Datagram(lastAge, acks, key, line)
  OBVIOUS
<1>3. Types'
  <2>1. \A d \in datagrams' :
            /\ d = [age |-> d.age, loops |-> d.loops, acks |-> d.acks, key |-> d.key, talk |-> d.talk]
            /\ d.loops \in Nat
    BY <1>2 DEF Datagram
  <2> QED BY <1>1, <2>1
<1>4. DatagramsHold'
  BY <1>1, <1>2 DEF DatagramsHold, Datagram
<1>5. InOrder' /\ FramesHold' /\ MasksHold' /\ KnownIsTrue'
  BY <1>1 DEF InOrder, FramesHold, MasksHold, KnownIsTrue, Known, KnownDead
<1> QED BY <1>3, <1>4, <1>5

\* An acknowledgement that counts is younger than the last change, and so is
\* all that the client will show after it.
LEMMA InputMap ==
    ASSUME MapInv, NEW d \in datagrams, Handle_input(d)
    PROVE  MapInv'
<1> USE DEF MapInv, Types
<1> DEFINE new == {x \in d.acks : NewerThanChange(x, d.loops)}
<1>1. /\ conn_mask' = conn_mask \cup (new \cap ConnObjects)
      /\ update_mask' = update_mask \ new
  BY DEF Handle_input
<1>2. UNCHANGED <<traffic, val, changeAge, frames, datagrams, client>>
  BY DEF Handle_input
<1>3. UNCHANGED <<window, lastAge, copy>>
  BY <1>2 DEF client
<1>4. Types'
  BY <1>1, <1>2, <1>3
<1>5. InOrder' /\ FramesHold' /\ DatagramsHold'
  BY <1>2, <1>3 DEF InOrder, FramesHold, DatagramsHold
<1>6. \A x \in new \cap Objects : copy[x] = val[x] /\ lastAge <= d.loops /\ d.loops < changeAge[x]
  BY DEF DatagramsHold, NewerThanChange
<1> HIDE DEF new
<1>7. \A x \in new \cap Objects, i \in DOMAIN frames :
        i - 1 < lastAge => Holds(frames[i], x, val[x]) /\ HoldsDead(frames[i], x, val[x])
  <2> SUFFICES ASSUME NEW x \in new \cap Objects, NEW i \in DOMAIN frames, i - 1 < lastAge
               PROVE  Holds(frames[i], x, val[x]) /\ HoldsDead(frames[i], x, val[x])
    OBVIOUS
  <2>1. i \in Nat /\ d.loops \in Nat /\ lastAge \in Nat /\ changeAge[x] \in Nat
    BY LenProperties
  <2>2. i - 1 < changeAge[x]
    BY <1>6, <2>1
  <2>3. Holds(frames[i], x, val[x])
    BY <2>2 DEF FramesHold
  <2> QED BY <2>3 DEF Holds, HoldsDead
<1>8. /\ \A x \in Known' : x \in Known \/ x \in new \cap Objects
      /\ \A x \in KnownDead' : x \in KnownDead \/ x \in new \cap Objects
  BY <1>1 DEF Known, KnownDead, ConnObjects, Objects, Kinds
<1>9. MasksHold'
  BY <1>2, <1>3, <1>7, <1>8 DEF MasksHold
<1>10. KnownIsTrue'
  <2>1. /\ \A x \in Known : copy[x] = val[x]
        /\ \A x \in KnownDead : copy[x] = 0 <=> val[x] = 0
    BY DEF KnownIsTrue, Known, KnownDead
  <2>2. /\ \A x \in Known' : copy[x] = val[x]
        /\ \A x \in KnownDead' : copy[x] = 0 <=> val[x] = 0
    BY <1>6, <1>8, <2>1
  <2> QED BY <1>2, <1>3, <2>2 DEF KnownIsTrue, Known, KnownDead
<1> QED BY <1>4, <1>5, <1>9, <1>10

\* The rest of the steps do not touch what the invariant speaks of.
LEMMA OtherMap ==
    ASSUME MapInv,
           UNCHANGED <<val, changeAge, conn_mask, update_mask, frames, window, lastAge,
                       datagrams, copy>>
    PROVE  MapInv'
BY DEF MapInv, Types, InOrder, FramesHold, DatagramsHold, MasksHold, KnownIsTrue,
       Known, KnownDead

LEMMA StepMap == MapInv /\ [Next]_vars => MapInv'
<1> SUFFICES ASSUME MapInv, [Next]_vars PROVE MapInv'
  OBVIOUS
<1>1. ASSUME NEW o \in Objects, Change(o) PROVE MapInv'
  BY <1>1, ChangeMap
<1>2. ASSUME NEW o \in Objects, Move(o) PROVE MapInv'
  BY <1>2, OtherMap DEF Move, map, network, client
<1>3. CASE Frame_update
  BY <1>3, FrameMap
<1>4. ASSUME NEW i \in 1 .. MaxAge, Net_read(i) PROVE MapInv'
  BY <1>4, ReadMap
<1>5. CASE Net_packet
  BY <1>5, PacketMap
<1>6. CASE Net_key_change
  <2>1. PICK key, line : datagrams' = datagrams \cup {Datagram(lastAge, {}, key, line)}
    BY <1>6 DEF Net_key_change
  <2>2. UNCHANGED <<traffic, server, frames, window, lastAge, copy>>
    BY <1>6 DEF Net_key_change
  <2> QED BY <2>1, <2>2, SendMap
<1>7. CASE Net_talk
  <2>1. PICK key, line : datagrams' = datagrams \cup {Datagram(lastAge, {}, key, line)}
    BY <1>7 DEF Net_talk
  <2>2. UNCHANGED <<traffic, server, frames, window, lastAge, copy>>
    BY <1>7 DEF Net_talk
  <2> QED BY <2>1, <2>2, SendMap
<1>8. ASSUME NEW d \in datagrams, Handle_input(d) PROVE MapInv'
  BY <1>8, InputMap
<1>9. CASE Receive_talk_ack
  BY <1>9, OtherMap DEF Receive_talk_ack, server, map
<1>10. CASE UNCHANGED vars
  BY <1>10, OtherMap DEF vars, server, map, network, client
<1> QED BY <1>1, <1>2, <1>3, <1>4, <1>5, <1>6, <1>7, <1>8, <1>9, <1>10 DEF Next

\* What the server takes a client to know of a target, cannon, fuel station or
\* polygon, the client shows, whatever frames and acknowledgements are lost, late
\* or repeated (netserver.c:2466, netclient.c:1072).
THEOREM KnownStaysTrue == Spec => []KnownIsTrue
<1>1. MapInv => KnownIsTrue
  BY DEF MapInv
<1> QED BY <1>1, InitMap, StepMap, PTL DEF Spec

-----------------------------------------------------------------------------
(* Keyboards and talk.                                                     *)

Numbers == {last_key_change, talk_sequence_num, keyChange, keyAck, talkSeq, talkPending}

\* What is under way was sent, and what is acknowledged was received.
InputInv ==
    /\ Numbers \subseteq Nat
    /\ \A d \in datagrams : d.key \in 0 .. keyChange /\ d.talk \in 0 .. talkSeq
    /\ \A i \in DOMAIN frames : frames[i].key_ack \in Nat
    /\ talkAcks \in Seq(Nat) /\ \A i \in 1 .. Len(talkAcks) : talkAcks[i] <= talk_sequence_num
    /\ AcksTrue

LEMMA InitInput == Init => InputInv
BY DEF Init, InputInv, Numbers, AcksTrue

LEMMA FrameInput ==
    ASSUME MapInv, InputInv, Frame_update
    PROVE  InputInv'
<1> USE DEF InputInv, Numbers
<1>1. PICK f : /\ f.key_ack = last_key_change
               /\ frames' = SubSeq(<<f>> \o frames, 1, Min({MaxAge, Len(frames) + 1}))
  BY DEF Frame_update
<1>2. \A i \in DOMAIN frames' :
        \/ frames'[i] = f
        \/ i - 1 \in DOMAIN frames /\ frames'[i] = frames[i - 1]
  <2>1. frames \in Seq(Range(frames)) /\ Len(frames) <= MaxAge
    BY DEF MapInv, Types
  <2> QED BY <1>1, <2>1, FramesShift
<1>3. UNCHANGED <<last_key_change, talk_sequence_num, talkAcks, keyChange, keyAck, talkSeq,
                  talkPending>>
  BY DEF Frame_update, talk
<1>4. \A d \in datagrams' : \E e \in datagrams : d.key = e.key /\ d.talk = e.talk
  <2> SUFFICES ASSUME NEW d \in datagrams'
               PROVE  \E e \in datagrams : d.key = e.key /\ d.talk = e.talk
    OBVIOUS
  <2>1. PICK e \in datagrams : d = [e EXCEPT !.age = @ + 1, !.loops = @ + 1]
    BY DEF Frame_update
  <2>2. e = [age |-> e.age, loops |-> e.loops, acks |-> e.acks, key |-> e.key, talk |-> e.talk]
    BY DEF MapInv, Types
  <2>3. d = [age |-> e.age + 1, loops |-> e.loops + 1, acks |-> e.acks,
             key |-> e.key, talk |-> e.talk]
    BY <2>1, <2>2
  <2> QED BY <2>3
<1>5. \A i \in DOMAIN frames' : frames'[i].key_ack \in Nat /\ frames'[i].key_ack <= last_key_change
  <2> SUFFICES ASSUME NEW i \in DOMAIN frames'
               PROVE  frames'[i].key_ack \in Nat /\ frames'[i].key_ack <= last_key_change
    OBVIOUS
  <2>1. last_key_change \in Nat
    OBVIOUS
  <2>2. CASE frames'[i] = f
    <3>1. frames'[i].key_ack = last_key_change
      BY <1>1, <2>2, Zenon
    <3> QED BY <2>1, <3>1
  <2>3. CASE i - 1 \in DOMAIN frames /\ frames'[i] = frames[i - 1]
    <3>1. frames[i - 1].key_ack \in Nat /\ frames[i - 1].key_ack <= last_key_change
      BY <2>3 DEF AcksTrue
    <3> QED BY <2>3, <3>1
  <2> QED BY <1>2, <2>2, <2>3
<1>6. AcksTrue'
  BY <1>3, <1>5 DEF AcksTrue
<1> QED BY <1>3, <1>4, <1>5, <1>6

\* A datagram of the client carries its newest keyboard and line, or none.
LEMMA SendInput ==
    ASSUME InputInv, UNCHANGED <<server, frames, talkAcks>>,
           keyChange' \in Nat, keyChange' >= keyChange, keyAck' \in Nat, keyAck' <= last_key_change,
           talkSeq' \in Nat, talkSeq' >= talkSeq, talkPending' \in Nat,
           talkPending' = 0 => talkPending = 0 /\ talkSeq' = talkSeq,
           talkPending' # 0 => talkPending' = talkSeq',
           NEW loops, NEW acks, NEW key \in {0, keyChange'}, NEW line \in {0, talkPending'},
           datagrams' \in {datagrams, datagrams \cup {Datagram(loops, acks, key, line)}}
    PROVE  InputInv'
<1> USE DEF InputInv, Numbers
<1>1. UNCHANGED <<last_key_change, talk_sequence_num>>
  BY DEF server
<1>2. \A d \in datagrams' : d \in datagrams \/ d = Datagram(loops, acks, key, line)
  OBVIOUS
<1>3. \A d \in datagrams' : d.key \in 0 .. keyChange' /\ d.talk \in 0 .. talkSeq'
  BY <1>2, SMTT(40) DEF Datagram
<1>4. AcksTrue'
  BY <1>1 DEF AcksTrue
<1> QED BY <1>1, <1>3, <1>4

LEMMA PacketInput ==
    ASSUME MapInv, InputInv, Net_packet
    PROVE  InputInv'
<1> USE DEF InputInv, Numbers
<1> DEFINE i == Max(window)
<1>1. i \in DOMAIN frames
  <2>1. DOMAIN frames = 1 .. Len(frames) /\ Len(frames) \in Nat /\ window \subseteq DOMAIN frames
    BY LenProperties DEF MapInv, Types
  <2>2. window \in SUBSET (1 .. Len(frames)) /\ window # {}
    BY <2>1 DEF Net_packet
  <2>3. i \in window
    BY <2>1, <2>2, GreatestNumber
  <2> QED BY <2>1, <2>3
<1>2. keyAck' = Max({keyAck, frames[i].key_ack})
  BY DEF Net_packet
<1> HIDE DEF i
<1>3. keyAck' \in Nat /\ keyAck' <= last_key_change
  <2>1. keyAck \in Nat /\ keyAck <= last_key_change
        /\ frames[i].key_ack \in Nat /\ frames[i].key_ack <= last_key_change
    BY <1>1 DEF AcksTrue
  <2>2. keyAck' = IF keyAck <= frames[i].key_ack THEN frames[i].key_ack ELSE keyAck
    BY <1>2, <2>1, MaxOfTwo, SMTT(40)
  <2> QED BY <2>1, <2>2
<1>4. UNCHANGED <<server, frames, talkAcks, keyChange, talkSeq, talkPending>>
  BY DEF Net_packet
<1>5. \E loops, acks : \E key \in {0, keyChange'}, line \in {0, talkPending'} :
        datagrams' \in {datagrams, datagrams \cup {Datagram(loops, acks, key, line)}}
  <2> DEFINE objs == frames[i].objs
             wait == Min({TALK_RETRY, talkWait + lastAge - (i - 1)})
             acks == {objs[n][1] : n \in (1 .. MaxAcks) \cap DOMAIN objs}
             ack == Max({keyAck, frames[i].key_ack})
             update == ack # keyChange \/ quiet = KeepAlive
             sent == update \/ acks # {}
             line == IF sent /\ TalkDue(wait) THEN talkPending ELSE 0
             key == IF update THEN keyChange ELSE 0
  <2>1. datagrams' = datagrams \cup (IF sent THEN {Datagram(i - 1, acks, key, line)} ELSE {})
    BY DEF Net_packet, i
  <2>2. line \in {0, talkPending} /\ key \in {0, keyChange}
    OBVIOUS
  <2> HIDE DEF objs, wait, acks, ack, update, sent, line, key
  <2>3. datagrams' \in {datagrams, datagrams \cup {Datagram(i - 1, acks, key, line)}}
    BY <2>1
  <2> QED BY <1>4, <2>2, <2>3
<1>6. /\ keyChange' \in Nat /\ keyChange' >= keyChange
      /\ talkSeq' \in Nat /\ talkSeq' >= talkSeq /\ talkPending' \in Nat
      /\ talkPending' = 0 => talkPending = 0 /\ talkSeq' = talkSeq
      /\ talkPending' # 0 => talkPending' = talkSeq'
  BY <1>4 DEF AcksTrue
<1> QED BY <1>3, <1>4, <1>5, <1>6, SendInput, ZenonT(60)

\* The server takes a keyboard that is newer and a line that is the next.
LEMMA HandleInput ==
    ASSUME InputInv, NEW d \in datagrams, Handle_input(d)
    PROVE  InputInv'
<1> USE DEF InputInv, Numbers
<1>1. UNCHANGED <<frames, datagrams, keyChange, keyAck, talkSeq, talkPending>>
  BY DEF Handle_input, client, talk
<1>2. d.key \in 0 .. keyChange /\ d.talk \in 0 .. talkSeq
  OBVIOUS
<1>3. /\ last_key_change' \in Nat /\ last_key_change' >= last_key_change
      /\ last_key_change' <= keyChange
  <2>1. last_key_change' = Max({last_key_change, d.key})
    BY DEF Handle_input
  <2>2. last_key_change \in Nat /\ last_key_change <= keyChange /\ keyChange \in Nat
    BY DEF AcksTrue
  <2>3. last_key_change' = IF last_key_change <= d.key THEN d.key ELSE last_key_change
    BY <1>2, <2>1, <2>2, MaxOfTwo, SMTT(40)
  <2> QED BY <1>2, <2>2, <2>3
<1>4. \/ UNCHANGED <<talk_sequence_num, talkAcks>>
      \/ /\ talkAcks' = Append(talkAcks, d.talk) /\ talk_sequence_num' = d.talk
         /\ d.talk > talk_sequence_num
  BY <1>2 DEF Handle_input, Receive_talk
<1>5. /\ talk_sequence_num' \in Nat /\ talk_sequence_num' >= talk_sequence_num
      /\ talk_sequence_num' <= talkSeq
  BY <1>2, <1>4 DEF AcksTrue
<1>6. talkAcks' \in Seq(Nat) /\ \A i \in 1 .. Len(talkAcks') : talkAcks'[i] <= talk_sequence_num'
  <2>1. CASE UNCHANGED <<talk_sequence_num, talkAcks>>
    BY <2>1
  <2>2. CASE talkAcks' = Append(talkAcks, d.talk) /\ talk_sequence_num' = d.talk
             /\ d.talk > talk_sequence_num
    <3>1. talkAcks' \in Seq(Nat) /\ Len(talkAcks') = Len(talkAcks) + 1 /\ Len(talkAcks) \in Nat
          /\ \A i \in 1 .. Len(talkAcks') :
               talkAcks'[i] = IF i <= Len(talkAcks) THEN talkAcks[i] ELSE d.talk
      BY <1>2, <2>2, AppendProperties, SMTT(40)
    <3>2. ASSUME NEW i \in 1 .. Len(talkAcks') PROVE talkAcks'[i] <= talk_sequence_num'
      <4>1. CASE i <= Len(talkAcks)
        <5>1. talkAcks[i] \in Nat /\ talkAcks[i] <= talk_sequence_num
          <6>1. i \in 1 .. Len(talkAcks)
            BY <3>1, <4>1
          <6> QED BY <6>1, ElementOfSeq
        <5>2. talk_sequence_num \in Nat
          OBVIOUS
        <5>3. talkAcks'[i] = talkAcks[i]
          BY <3>1, <4>1
        <5> HIDE DEF InputInv, Numbers
        <5> QED BY <1>5, <5>1, <5>2, <5>3
      <4>2. CASE ~(i <= Len(talkAcks))
        <5>1. talkAcks'[i] = d.talk
          BY <3>1, <4>2
        <5>2. talk_sequence_num' = d.talk /\ d.talk \in Nat
          BY <1>2, <2>2
        <5> HIDE DEF InputInv, Numbers
        <5> QED BY <5>1, <5>2
      <4> QED BY <4>1, <4>2
    <3> QED BY <3>1, <3>2
  <2> QED BY <1>4, <2>1, <2>2
<1>7. AcksTrue'
  BY <1>1, <1>3, <1>5 DEF AcksTrue
<1> QED BY <1>1, <1>3, <1>5, <1>6, <1>7

LEMMA AckInput ==
    ASSUME InputInv, Receive_talk_ack
    PROVE  InputInv'
<1> USE DEF InputInv, Numbers
<1>1. /\ Head(talkAcks) \in Nat /\ Head(talkAcks) <= talk_sequence_num
      /\ talkAcks' \in Seq(Nat)
      /\ \A i \in 1 .. Len(talkAcks') : talkAcks'[i] <= talk_sequence_num
  BY HeadTailProperties, LenProperties DEF Receive_talk_ack
<1>2. talkPending' \in {0, talkPending}
      /\ (talkPending' # talkPending => Head(talkAcks) >= talkPending)
  BY DEF Receive_talk_ack, Acknowledges
<1>3. UNCHANGED <<last_key_change, talk_sequence_num, frames, datagrams, keyChange, keyAck, talkSeq>>
  BY DEF Receive_talk_ack, server
<1>4. AcksTrue'
  BY <1>1, <1>2, <1>3 DEF AcksTrue
<1> QED BY <1>1, <1>2, <1>3, <1>4

LEMMA StepInput == MapInv /\ InputInv /\ [Next]_vars => InputInv'
<1> SUFFICES ASSUME MapInv, InputInv, [Next]_vars PROVE InputInv'
  OBVIOUS
<1> DEFINE Same == UNCHANGED <<last_key_change, talk_sequence_num, frames, datagrams, talkAcks,
                               keyChange, keyAck, talkSeq, talkPending>>
<1>0. ASSUME Same PROVE InputInv'
  BY <1>0 DEF InputInv, Numbers, AcksTrue
<1>1. ASSUME NEW o \in Objects, Change(o) \/ Move(o) PROVE InputInv'
  BY <1>0, <1>1 DEF Change, Move, network, client, talk
<1>2. CASE Frame_update
  BY <1>2, FrameInput
<1>3. ASSUME NEW i \in 1 .. MaxAge, Net_read(i) PROVE InputInv'
  BY <1>0, <1>3 DEF Net_read, server, network, talk
<1>4. CASE Net_packet
  BY <1>4, PacketInput
<1>5. CASE Net_key_change
  <2>1. PICK line \in {0, talkPending} :
          datagrams' = datagrams \cup {Datagram(lastAge, {}, keyChange + 1, line)}
    BY <1>5 DEF Net_key_change
  <2>2. /\ keyChange' = keyChange + 1
        /\ UNCHANGED <<server, frames, talkAcks, keyAck, talkSeq, talkPending>>
    BY <1>5 DEF Net_key_change
  <2>3. /\ keyChange' \in Nat /\ keyChange' >= keyChange
        /\ keyAck' \in Nat /\ keyAck' <= last_key_change
        /\ talkSeq' \in Nat /\ talkSeq' >= talkSeq /\ talkPending' \in Nat
        /\ talkPending' = 0 => talkPending = 0 /\ talkSeq' = talkSeq
        /\ talkPending' # 0 => talkPending' = talkSeq'
    BY <2>2 DEF InputInv, Numbers, AcksTrue
  <2> QED BY <2>1, <2>2, <2>3, SendInput
<1>6. CASE Net_talk
  <2>1. datagrams' = datagrams \cup {Datagram(lastAge, {}, 0, talkSeq + 1)}
    BY <1>6 DEF Net_talk
  <2>2. /\ talkSeq' = talkSeq + 1 /\ talkPending' = talkSeq + 1
        /\ UNCHANGED <<server, frames, talkAcks, keyAck, keyChange>>
    BY <1>6 DEF Net_talk
  <2>3. /\ keyChange' \in Nat /\ keyChange' >= keyChange
        /\ keyAck' \in Nat /\ keyAck' <= last_key_change
        /\ talkSeq' \in Nat /\ talkSeq' >= talkSeq /\ talkPending' \in Nat
        /\ talkPending' = 0 => talkPending = 0 /\ talkSeq' = talkSeq
        /\ talkPending' # 0 => talkPending' = talkSeq'
    BY <2>2 DEF InputInv, Numbers, AcksTrue
  <2>4. talkSeq + 1 \in {0, talkPending'} /\ 0 \in {0, keyChange'}
    BY <2>2
  <2> QED BY <2>1, <2>2, <2>3, <2>4, SendInput
<1>7. ASSUME NEW d \in datagrams, Handle_input(d) PROVE InputInv'
  BY <1>7, HandleInput
<1>8. CASE Receive_talk_ack
  BY <1>8, AckInput
<1>9. CASE UNCHANGED vars
  BY <1>0, <1>9 DEF vars, server, network, client, talk
<1> QED BY <1>1, <1>2, <1>3, <1>4, <1>5, <1>6, <1>7, <1>8, <1>9 DEF Next

\* The client gives up no keyboard and no line of talk that the server has not
\* got, and the server acknowledges nothing that was not sent
\* (netserver.c:2103, 2670).
THEOREM InputNeverLost == Spec => []AcksTrue
<1>1. InputInv => AcksTrue
  BY DEF InputInv
<1> QED BY <1>1, InitMap, StepMap, InitInput, StepInput, PTL DEF Spec
=============================================================================

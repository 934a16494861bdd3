--------------------------- MODULE ConnectionProofs ---------------------------
(***************************************************************************)
(* Proofs about the reliable stream, for every size of packets, buffers,   *)
(* frames and networks and every length of the stream, and about a         *)
(* connection, for every size of its set-up data.                          *)
(*                                                                         *)
(* The inductive invariant of the stream adds two things to the checked    *)
(* invariants: each buffer and each packet holds the bytes its position    *)
(* announces (Contents), and the client has received exactly the bytes     *)
(* before its offset.  Then an acknowledgement under way never exceeds the *)
(* client's offset, which never exceeds what was sent, which is bounded by *)
(* what is buffered: no acknowledgement is "bad".                          *)
(*                                                                         *)
(* A step of the connection is a step of the reliable stream or leaves the *)
(* stream alone, so that what is shown of the stream holds in every        *)
(* connection.  The server's own invariant, ServerInv, says where each     *)
(* draining state leads and how far the set-up data is by then.  The       *)
(* login's, LoginInv, says what the units of the stream are and that the   *)
(* client is in the phase that its position in the stream calls for.       *)
(***************************************************************************)
EXTENDS Connection, SequenceTheorems, WellFoundedInduction, TLAPS

\* seq holds the bytes that follow the first rel bytes of the stream.
BytesFrom(seq, rel) == \A i \in 1 .. Len(seq) : seq[i] = rel + i

Contents ==
    /\ BytesFrom(c, reliableOffset)
    /\ \A p \in dataNet : BytesFrom(p.bytes, p.rel)
    /\ Len(delivered) = clientOffset
    /\ BytesFrom(delivered, 0)

Inv == TypeOK /\ NoBadAck /\ Positions /\ TimerOnlyWhileUnacked /\ Contents

-----------------------------------------------------------------------------

LEMMA MulMonotone == ASSUME NEW x \in Int, NEW y \in Int, NEW b \in Nat, x <= y
                     PROVE  x * b <= y * b /\ x * b \in Int /\ y * b \in Int
<1>1. (y - x) * b >= 0
  BY SMT
<1> QED BY <1>1, SMT

\* The i-th packet of a burst starts before the end of the data.
LEMMA CeilDivStart == ASSUME NEW a \in Nat, NEW b \in Nat \ {0}, NEW i \in Nat,
                             i < CeilDiv(a, b)
                      PROVE  i * b < a
<1> DEFINE q == (a + b - 1) \div b
<1>1. q \in Int /\ q * b <= a + b - 1 /\ i <= q - 1
  BY SMT DEF CeilDiv
<1> HIDE DEF q
<1>2. i * b <= (q - 1) * b
  BY <1>1, MulMonotone, SMT
<1>3. (q - 1) * b = q * b - b
  BY <1>1, SMT
<1> QED BY <1>1, <1>2, <1>3, MulMonotone, SMT

LEMMA ConcatBytes ==
    ASSUME NEW s \in Seq(1 .. MaxStream), NEW t \in Seq(1 .. MaxStream), NEW rel \in Nat,
           BytesFrom(s, rel), BytesFrom(t, rel + Len(s))
    PROVE  /\ s \o t \in Seq(1 .. MaxStream) /\ Len(s \o t) = Len(s) + Len(t)
           /\ BytesFrom(s \o t, rel)
<1>1. /\ s \o t \in Seq(1 .. MaxStream) /\ Len(s \o t) = Len(s) + Len(t)
      /\ \A i \in 1 .. Len(s) + Len(t) :
            (s \o t)[i] = IF i <= Len(s) THEN s[i] ELSE t[i - Len(s)]
      /\ Len(s) \in Nat /\ Len(t) \in Nat
  BY ConcatProperties, LenProperties
<1>2. ASSUME NEW i \in 1 .. Len(s) + Len(t) PROVE (s \o t)[i] = rel + i
  <2>1. CASE i <= Len(s)
    BY <1>1, <2>1, SMT DEF BytesFrom
  <2>2. CASE ~(i <= Len(s))
    <3>1. i - Len(s) \in 1 .. Len(t) /\ (rel + Len(s)) + (i - Len(s)) = rel + i
      BY <1>1, <2>2, SMT
    <3> QED BY <1>1, <2>2, <3>1 DEF BytesFrom
  <2> QED BY <2>1, <2>2
<1> QED BY <1>1, <1>2 DEF BytesFrom

LEMMA SubSeqBytes ==
    ASSUME NEW s \in Seq(1 .. MaxStream), NEW rel \in Nat, BytesFrom(s, rel),
           NEW m \in Nat, NEW n \in Nat, m <= n, n <= Len(s)
    PROVE  /\ SubSeq(s, m + 1, n) \in Seq(1 .. MaxStream)
           /\ Len(SubSeq(s, m + 1, n)) = n - m
           /\ BytesFrom(SubSeq(s, m + 1, n), rel + m)
<1>1. Len(s) \in Nat /\ \A i \in 1 .. Len(s) : s[i] \in 1 .. MaxStream
  BY LenProperties, ElementOfSeq
<1>2. m + 1 \in Int /\ n \in Int /\ \A i \in m + 1 .. n : s[i] \in 1 .. MaxStream
  BY <1>1, SMT
<1>3. /\ SubSeq(s, m + 1, n) \in Seq(1 .. MaxStream)
      /\ Len(SubSeq(s, m + 1, n)) = IF m + 1 <= n THEN n - (m + 1) + 1 ELSE 0
      /\ \A i \in 1 .. n - (m + 1) + 1 : SubSeq(s, m + 1, n)[i] = s[m + 1 + i - 1]
  BY <1>2, SubSeqProperties
<1>4. Len(SubSeq(s, m + 1, n)) = n - m /\ n - (m + 1) + 1 = n - m
  BY <1>3, SMT
<1>5. ASSUME NEW i \in 1 .. n - m PROVE SubSeq(s, m + 1, n)[i] = (rel + m) + i
  <2>1. m + 1 + i - 1 \in 1 .. Len(s) /\ rel + (m + 1 + i - 1) = (rel + m) + i
    BY <1>1, SMT
  <2> QED BY <1>3, <1>4, <2>1 DEF BytesFrom
<1> QED BY <1>3, <1>4, <1>5 DEF BytesFrom

-----------------------------------------------------------------------------

LEMMA InitInv == Init => Inv
<1> SUFFICES ASSUME Init PROVE Inv
  OBVIOUS
<1>1. <<>> \in Seq(1 .. MaxStream) /\ Len(<<>>) = 0
  BY EmptySeq
<1> USE DEF Init
<1>2. TypeOK
  <2>1. 0 \in 0 .. MaxStream
    BY StreamAssumption, SMT
  <2> QED BY <1>1, <2>1 DEF TypeOK, TimerState
<1>3. Positions /\ TimerOnlyWhileUnacked /\ NoBadAck
  BY <1>1, SMT DEF Positions, TimerOnlyWhileUnacked, NoBadAck
<1>4. Contents
  BY <1>1, SMT DEF Contents, BytesFrom
<1> QED BY <1>2, <1>3, <1>4 DEF Inv

LEMMA QueueMessageInv == ASSUME Inv, NEW n \in 1 .. MaxMessage, QueueMessage(n) PROVE Inv'
<1> DEFINE new == [i \in 1 .. n |-> written + i]
<1>1. /\ written \in Nat /\ reliableOffset \in Nat /\ n \in Nat \ {0} /\ MaxStream \in Nat
      /\ c \in Seq(1 .. MaxStream) /\ written = reliableOffset + Len(c)
      /\ BytesFrom(c, reliableOffset) /\ written + n <= MaxStream /\ Len(c) \in Nat
  BY StreamAssumption, LenProperties, SMT
     DEF Inv, TypeOK, Positions, Contents, QueueMessage
<1>2. new \in Seq(1 .. MaxStream) /\ Len(new) = n /\ BytesFrom(new, reliableOffset + Len(c))
  BY <1>1, SMT DEF BytesFrom
<1> HIDE DEF new
<1>3. /\ c \o new \in Seq(1 .. MaxStream) /\ Len(c \o new) = Len(c) + n
      /\ BytesFrom(c \o new, reliableOffset)
  BY <1>1, <1>2, ConcatBytes
<1>4. /\ c' = c \o new /\ written' = written + n
      /\ UNCHANGED <<reliableOffset, reliableUnsent, timer, sentThisLoop, acks,
                     badAck, clientOffset, delivered, dataNet, ackNet>>
  BY DEF QueueMessage, clientVars, new
<1>5. TypeOK'
  BY <1>1, <1>3, <1>4, SMT DEF Inv, TypeOK
<1>6. Positions'
  <2>1. /\ reliableOffset' <= clientOffset' /\ clientOffset' <= reliableUnsent'
        /\ \A rel \in ackNet' : rel <= clientOffset'
        /\ \A p \in dataNet' : Len(p.bytes) > 0 /\ p.rel + Len(p.bytes) <= reliableUnsent'
    BY <1>4 DEF Inv, Positions
  <2>2. /\ reliableUnsent' <= reliableOffset' + Len(c')
        /\ written' = reliableOffset' + Len(c')
    <3>1. reliableUnsent <= reliableOffset + Len(c) /\ reliableUnsent \in Int
      BY DEF Inv, Positions, TypeOK
    <3>2. /\ Len(c') = Len(c) + n /\ written' = written + n
          /\ reliableOffset' = reliableOffset /\ reliableUnsent' = reliableUnsent
      BY <1>3, <1>4
    <3> QED BY <1>1, <3>1, <3>2, SMT
  <2> QED BY <2>1, <2>2 DEF Positions
<1>7. NoBadAck' /\ TimerOnlyWhileUnacked' /\ Contents'
  BY <1>3, <1>4 DEF Inv, NoBadAck, TimerOnlyWhileUnacked, Contents, BytesFrom
<1> QED BY <1>5, <1>6, <1>7 DEF Inv

\* What one burst of Send_reliable() puts on the network.
LEMMA BurstBytes ==
    ASSUME Inv, NEW f \in 0 .. MaxFrame, MaySend(f),
           NEW k \in 1 .. NumPackets(f), NEW i \in 0 .. k - 1
    PROVE  /\ BurstPacket(f, i) \in Packets
           /\ BytesFrom(BurstPacket(f, i).bytes, BurstPacket(f, i).rel)
           /\ Len(BurstPacket(f, i).bytes) > 0
           /\ BurstPacket(f, i).rel + Len(BurstPacket(f, i).bytes)
                <= reliableOffset + Lesser(k * MaxPacket, Room(f))
<1> DEFINE first == i * MaxPacket
           len   == Lesser(MaxPacket, Room(f) - first)
           room  == Room(f)
<1>1. /\ MaxPacket \in Nat \ {0} /\ f \in Nat /\ c \in Seq(1 .. MaxStream)
      /\ Len(c) \in Nat /\ Len(c) > 0 /\ reliableOffset \in Nat
      /\ BytesFrom(c, reliableOffset) /\ MaxStream \in Nat
  BY StreamAssumption, LenProperties, SMT DEF Inv, TypeOK, Contents, MaySend
<1>2. room \in 1 .. Len(c)
  BY <1>1, SMT DEF Room, Lesser, MaySend, MinSend
<1>3. i \in Nat /\ k \in Int /\ i + 1 <= k /\ i < CeilDiv(room, MaxPacket)
  <2>1. Window \in Int /\ CeilDiv(room, MaxPacket) \in Int
    BY <1>1, <1>2, SMT DEF Window, CeilDiv, Inv, TypeOK
  <2> QED BY <2>1, SMT DEF NumPackets, Lesser
<1>4. first \in Nat /\ first < room
  <2>1. first < room
    BY <1>1, <1>2, <1>3, CeilDivStart
  <2>2. i * MaxPacket \in Nat
    BY <1>1, <1>3, SMT
  <2> QED BY <2>1, <2>2
<1>5. first + MaxPacket <= k * MaxPacket /\ k * MaxPacket \in Int
  <2>1. (i + 1) * MaxPacket <= k * MaxPacket /\ k * MaxPacket \in Int
    BY <1>1, <1>3, MulMonotone
  <2>2. (i + 1) * MaxPacket = first + MaxPacket
    BY <1>1, <1>3, SMT
  <2> QED BY <2>1, <2>2
<1> HIDE DEF first, room
<1>6. /\ len \in Nat \ {0} /\ first + len <= room
      /\ first + len <= k * MaxPacket /\ first + len <= Len(c)
  <2>1. len <= MaxPacket /\ len <= room - first /\ len \in {MaxPacket, room - first}
    BY <1>1, <1>2, <1>4, SMT DEF Lesser, room
  <2> HIDE DEF len
  <2>2. len \in Nat \ {0} /\ first + len <= room /\ first + len <= first + MaxPacket
    BY <1>1, <1>2, <1>4, <2>1, SMT
  <2>3. first + MaxPacket \in Int
    BY <1>1, <1>4, SMT
  <2> QED BY <1>1, <1>2, <1>4, <1>5, <2>2, <2>3, SMT
<1> HIDE DEF len
<1>7. /\ SubSeq(c, first + 1, first + len) \in Seq(1 .. MaxStream)
      /\ Len(SubSeq(c, first + 1, first + len)) = (first + len) - first
      /\ BytesFrom(SubSeq(c, first + 1, first + len), reliableOffset + first)
  <2>1. first \in Nat /\ first + len \in Nat /\ first <= first + len
    BY <1>4, <1>6, SMT
  <2> QED BY <1>1, <1>6, <2>1, SubSeqBytes
<1>8. BurstPacket(f, i) = [rel |-> reliableOffset + first,
                           bytes |-> SubSeq(c, first + 1, first + len)]
  BY DEF BurstPacket, first, len, room
<1>9. reliableOffset + first \in 0 .. MaxStream
  <2>1. reliableOffset + Len(c) \in 0 .. MaxStream
    BY DEF Inv, TypeOK, Positions
  <2> QED BY <1>1, <1>2, <1>4, <2>1, SMT
<1>10. first + len <= Lesser(k * MaxPacket, Room(f))
  BY <1>6 DEF Lesser, room
<1>11. (first + len) - first = len
  BY <1>4, <1>6, SMT
<1>12. (reliableOffset + first) + len <= reliableOffset + Lesser(k * MaxPacket, Room(f))
  <2>1. Lesser(k * MaxPacket, Room(f)) \in Int
    BY <1>2, <1>5, SMT DEF Lesser, room
  <2> QED BY <1>1, <1>4, <1>6, <1>10, <2>1, SMT
<1> QED
  BY <1>6, <1>7, <1>8, <1>9, <1>11, <1>12, SMT DEF Packets

LEMMA SendReliableInv ==
    ASSUME Inv, NEW f \in 0 .. MaxFrame, NEW k \in 0 .. MaxStream, SendReliable(f, k)
    PROVE  Inv'
<1> DEFINE sent == {BurstPacket(f, i) : i \in 0 .. k - 1}
           end  == reliableOffset + Lesser(k * MaxPacket, Room(f))
<1>1. /\ MaySend(f) /\ k \in 0 .. NumPackets(f)
      /\ dataNet' = dataNet \cup sent
      /\ timer' = IF k > 0 THEN "running" ELSE timer
      /\ reliableUnsent' = IF k > 0 THEN NewUnsent(end) ELSE reliableUnsent
      /\ acks' = IF k < NumPackets(f) THEN 0 ELSE Window - 1
      /\ sentThisLoop' = TRUE
      /\ UNCHANGED <<written, c, reliableOffset, badAck, clientOffset, delivered, ackNet>>
  BY DEF SendReliable, clientVars
<1>2. /\ c \in Seq(1 .. MaxStream) /\ Len(c) \in Nat /\ reliableOffset \in Nat
      /\ reliableUnsent \in 0 .. MaxStream /\ reliableOffset + Len(c) \in 0 .. MaxStream
      /\ reliableOffset <= clientOffset /\ clientOffset <= reliableUnsent
      /\ clientOffset \in Nat /\ reliableUnsent <= reliableOffset + Len(c)
      /\ acks \in Nat /\ MaxStream \in Nat
  BY LenProperties, StreamAssumption, SMT DEF Inv, TypeOK, Positions
<1>3. Room(f) \in 1 .. Len(c)
  BY <1>1, <1>2, StreamAssumption, SMT DEF Room, Lesser, MaySend, MinSend
<1>4. Window \in Nat /\ Window >= 1
  BY <1>2, SMT DEF Window
<1>5. CASE k = 0
  <2>1. sent = {}
    BY <1>5, SMT
  <2>2. dataNet' = dataNet /\ timer' = timer /\ reliableUnsent' = reliableUnsent
    BY <1>1, <1>5, <2>1, SMT
  <2>3. acks' \in Nat
    BY <1>1, <1>4, SMT
  <2> QED
    BY <1>1, <2>2, <2>3
       DEF Inv, TypeOK, NoBadAck, Positions, TimerOnlyWhileUnacked, Contents, BytesFrom
<1>6. CASE k > 0
  <2>1. k \in 1 .. NumPackets(f)
    BY <1>1, <1>6, SMT
  <2>2. \A p \in sent : /\ p \in Packets /\ BytesFrom(p.bytes, p.rel)
                        /\ Len(p.bytes) > 0 /\ p.rel + Len(p.bytes) <= end
    BY <1>1, <2>1, BurstBytes
  <2>3. end \in Int /\ end > reliableOffset /\ end <= reliableOffset + Len(c)
    <3>1. k * MaxPacket \in Int /\ k * MaxPacket >= 1
      <4>1. 1 * MaxPacket <= k * MaxPacket /\ k * MaxPacket \in Int
        BY <1>6, StreamAssumption, MulMonotone, SMT
      <4> QED BY <4>1, StreamAssumption, SMT
    <3>2. Lesser(k * MaxPacket, Room(f)) \in 1 .. Len(c)
      BY <1>2, <1>3, <3>1, SMT DEF Lesser
    <3> QED BY <1>2, <3>2, SMT
  <2> HIDE DEF sent, end
  <2>4. /\ reliableUnsent' \in 0 .. MaxStream
        /\ reliableUnsent <= reliableUnsent' /\ end <= reliableUnsent'
        /\ reliableOffset < reliableUnsent'
        /\ reliableUnsent' <= reliableOffset + Len(c)
    BY <1>1, <1>2, <1>6, <2>3, SMT DEF NewUnsent, Greater
  <2>5. timer' = "running" /\ acks' \in Nat
    BY <1>1, <1>4, <1>6, SMT
  <2>6. TypeOK'
    BY <1>1, <2>2, <2>4, <2>5 DEF Inv, TypeOK, TimerState
  <2>7. \A p \in dataNet' : Len(p.bytes) > 0 /\ p.rel + Len(p.bytes) <= reliableUnsent'
    <3>1. \A p \in dataNet' : p \in Packets /\ Len(p.bytes) > 0
                              /\ (p.rel + Len(p.bytes) <= reliableUnsent
                                  \/ p.rel + Len(p.bytes) <= end)
      BY <1>1, <2>2 DEF Inv, Positions, TypeOK
    <3>2. \A p \in Packets : p.rel + Len(p.bytes) \in Int
      BY LenProperties, <1>2, SMT DEF Packets
    <3>3. /\ reliableUnsent \in Int /\ reliableUnsent' \in Int /\ end \in Int
          /\ reliableUnsent <= reliableUnsent' /\ end <= reliableUnsent'
      BY <1>2, <2>3, <2>4
    <3>4. ASSUME NEW p \in dataNet'
          PROVE  Len(p.bytes) > 0 /\ p.rel + Len(p.bytes) <= reliableUnsent'
      <4>1. p \in Packets /\ Len(p.bytes) > 0 /\ p.rel + Len(p.bytes) \in Int
        BY <3>1, <3>2
      <4>2. p.rel + Len(p.bytes) <= reliableUnsent \/ p.rel + Len(p.bytes) <= end
        BY <3>1
      <4> QED BY <3>3, <4>1, <4>2, SMT
    <3> QED BY <3>4
  <2>8. Positions'
    <3>1. clientOffset <= reliableUnsent'
      BY <1>2, <2>4, SMT
    <3> QED BY <1>1, <2>4, <2>7, <3>1 DEF Inv, Positions
  <2>9. TimerOnlyWhileUnacked' /\ NoBadAck'
    BY <1>1, <2>4, <2>5 DEF TimerOnlyWhileUnacked, NoBadAck, Inv
  <2>10. Contents'
    BY <1>1, <2>2 DEF Inv, Contents, BytesFrom
  <2> QED BY <2>6, <2>8, <2>9, <2>10 DEF Inv
<1> QED BY <1>1, <1>5, <1>6, SMT

LEMMA ReceiveAckInv ==
    ASSUME Inv, NEW rel \in ackNet, NEW dup \in BOOLEAN, ReceiveAck(rel, dup)
    PROVE  Inv' /\ reliableOffset' <= clientOffset'
<1>1. /\ rel \in Nat /\ rel <= clientOffset /\ rel \in 0 .. MaxStream
      /\ c \in Seq(1 .. MaxStream) /\ Len(c) \in Nat /\ reliableOffset \in Nat
      /\ reliableUnsent \in Nat /\ clientOffset \in Nat /\ acks \in Nat
      /\ reliableOffset <= clientOffset /\ clientOffset <= reliableUnsent
      /\ reliableUnsent <= reliableOffset + Len(c) /\ written = reliableOffset + Len(c)
      /\ BytesFrom(c, reliableOffset)
  BY LenProperties, StreamAssumption, SMT DEF Inv, TypeOK, Positions, Contents
<1>2. ~AckIsBad(rel)
  BY <1>1, SMT DEF AckIsBad
<1>3. /\ ackNet' \subseteq ackNet
      /\ UNCHANGED <<written, reliableUnsent, sentThisLoop, clientOffset, delivered, dataNet>>
  BY DEF ReceiveAck, clientVars
<1>4. CASE AckIsOld(rel)
  <2>1. UNCHANGED <<c, reliableOffset, acks, timer, badAck>>
    BY <1>2, <1>4 DEF ReceiveAck
  <2> QED
    BY <1>3, <2>1 DEF Inv, TypeOK, NoBadAck, Positions, TimerOnlyWhileUnacked,
                      Contents, BytesFrom
<1>5. CASE ~AckIsOld(rel)
  <2> DEFINE diff == rel - reliableOffset
  <2>1. /\ c' = SubSeq(c, diff + 1, Len(c))
        /\ acks' = Greater(CeilDiv(diff, AckUnit), acks + 1)
        /\ reliableOffset' = rel /\ badAck' = badAck
        /\ timer' = IF AckStopsTimer(rel) THEN "off" ELSE timer
    BY <1>2, <1>5 DEF ReceiveAck
  <2>2. diff \in Nat /\ diff <= Len(c) /\ reliableOffset + diff = rel /\ rel > reliableOffset
    BY <1>1, <1>5, SMT DEF AckIsOld
  <2>3. acks' \in Nat
    <3>1. CeilDiv(diff, AckUnit) \in Int
      BY <2>2, StreamAssumption, SMT DEF CeilDiv
    <3> QED BY <1>1, <2>1, <3>1, SMT DEF Greater
  <2> HIDE DEF diff
  <2>4. /\ c' \in Seq(1 .. MaxStream) /\ Len(c') = Len(c) - diff
        /\ BytesFrom(c', rel)
    <3>1. /\ SubSeq(c, diff + 1, Len(c)) \in Seq(1 .. MaxStream)
          /\ Len(SubSeq(c, diff + 1, Len(c))) = Len(c) - diff
          /\ BytesFrom(SubSeq(c, diff + 1, Len(c)), reliableOffset + diff)
      BY <1>1, <2>2, SubSeqBytes, SMTT(40)
    <3> QED BY <2>1, <2>2, <3>1
  <2>5. timer' \in TimerState /\ (timer' # "off" <=> rel < reliableUnsent)
    <3>1. timer # "off" <=> reliableOffset < reliableUnsent
      BY DEF Inv, TimerOnlyWhileUnacked
    <3>2. reliableOffset < reliableUnsent
      BY <1>1, <2>2, SMT
    <3>3. AckStopsTimer(rel) <=> ~(rel < reliableUnsent)
      BY <1>1, SMT DEF AckStopsTimer
    <3> QED BY <2>1, <3>1, <3>2, <3>3 DEF Inv, TypeOK, TimerState
  <2>6. rel + Len(c') = reliableOffset + Len(c) /\ Len(c') \in Nat
    BY <1>1, <2>2, <2>4, SMTT(40)
  <2>7. TypeOK'
    BY <1>1, <1>3, <2>1, <2>3, <2>4, <2>5 DEF Inv, TypeOK
  <2>8. Positions'
    BY <1>1, <1>3, <2>1, <2>6 DEF Inv, Positions
  <2>9. NoBadAck' /\ TimerOnlyWhileUnacked'
    BY <1>3, <2>1, <2>5 DEF Inv, NoBadAck, TimerOnlyWhileUnacked
  <2>10. Contents'
    BY <1>3, <2>1, <2>4 DEF Inv, Contents, BytesFrom
  <2> QED BY <1>1, <1>3, <2>1, <2>7, <2>8, <2>9, <2>10 DEF Inv
<1>6. CASE Inv'
  BY <1>6 DEF Inv, Positions
<1> QED BY <1>4, <1>5, <1>6 DEF Inv, Positions

LEMMA ReceiveReliableInv ==
    ASSUME Inv, NEW p \in dataNet, NEW dup \in BOOLEAN, ReceiveReliable(p, dup)
    PROVE  Inv'
<1>1. /\ p.rel \in 0 .. MaxStream /\ p.bytes \in Seq(1 .. MaxStream)
      /\ Len(p.bytes) \in Nat /\ p.rel + Len(p.bytes) <= reliableUnsent
      /\ BytesFrom(p.bytes, p.rel)
      /\ clientOffset \in Nat /\ reliableUnsent \in 0 .. MaxStream /\ MaxStream \in Nat
      /\ reliableOffset \in Nat /\ reliableOffset <= clientOffset
      /\ clientOffset <= reliableUnsent
      /\ delivered \in Seq(1 .. MaxStream) /\ Len(delivered) = clientOffset
      /\ BytesFrom(delivered, 0)
  BY LenProperties, StreamAssumption, SMT DEF Inv, TypeOK, Positions, Contents, Packets
<1>2. /\ dataNet' \subseteq dataNet
      /\ UNCHANGED <<written, c, reliableOffset, reliableUnsent, timer, sentThisLoop,
                     acks, badAck>>
  BY DEF ReceiveReliable, serverVars
<1>3. CASE IsGap(p) \/ IsDuplicate(p)
  <2>1. UNCHANGED <<clientOffset, delivered>> /\ ackNet' \subseteq ackNet \cup {clientOffset}
    BY <1>3 DEF ReceiveReliable, clientVars, SendAck
  <2>2. clientOffset \in 0 .. MaxStream
    BY DEF Inv, TypeOK
  <2>3. \A rel \in ackNet' : rel <= clientOffset
    BY <1>1, <2>1, SMT DEF Inv, Positions
  <2> QED
    BY <1>2, <2>1, <2>2, <2>3
       DEF Inv, TypeOK, NoBadAck, Positions, TimerOnlyWhileUnacked, Contents, BytesFrom
<1>4. CASE ~(IsGap(p) \/ IsDuplicate(p))
  <2> DEFINE skip == clientOffset - p.rel
             new  == NewBytes(p)
  <2>1. skip \in Nat /\ skip <= Len(p.bytes) /\ p.rel + skip = clientOffset + 0
        /\ p.rel \in Nat
    BY <1>1, <1>4, SMT DEF IsGap, IsDuplicate
  <2> HIDE DEF skip
  <2>2. /\ SubSeq(p.bytes, skip + 1, Len(p.bytes)) \in Seq(1 .. MaxStream)
        /\ Len(SubSeq(p.bytes, skip + 1, Len(p.bytes))) = Len(p.bytes) - skip
        /\ BytesFrom(SubSeq(p.bytes, skip + 1, Len(p.bytes)), p.rel + skip)
    BY <1>1, <2>1, SubSeqBytes, SMTT(40)
  <2>3. 0 + Len(delivered) = p.rel + skip /\ 0 \in Nat
    BY <1>1, <2>1, SMT
  <2>4. new \in Seq(1 .. MaxStream) /\ Len(new) = Len(p.bytes) - skip
        /\ BytesFrom(new, 0 + Len(delivered))
    BY <2>2, <2>3 DEF NewBytes, skip
  <2> HIDE DEF new
  <2>5. /\ delivered' = delivered \o new /\ clientOffset' = clientOffset + Len(new)
        /\ ackNet' \subseteq ackNet \cup {clientOffset'}
    BY <1>4 DEF ReceiveReliable, SendAck, new
  <2>6. /\ delivered' \in Seq(1 .. MaxStream) /\ Len(delivered') = clientOffset'
        /\ BytesFrom(delivered', 0)
    <3>1. /\ delivered \o new \in Seq(1 .. MaxStream)
          /\ Len(delivered \o new) = Len(delivered) + Len(new)
          /\ BytesFrom(delivered \o new, 0)
      BY <1>1, <2>3, <2>4, ConcatBytes
    <3> QED BY <1>1, <2>5, <3>1
  <2>7. /\ clientOffset' \in 0 .. MaxStream /\ clientOffset <= clientOffset'
        /\ clientOffset' <= reliableUnsent /\ reliableOffset <= clientOffset'
    <3>1. clientOffset' = p.rel + Len(p.bytes)
      <4>1. clientOffset' = clientOffset + (Len(p.bytes) - skip)
        BY <2>4, <2>5
      <4>2. /\ clientOffset \in Int /\ Len(p.bytes) \in Int /\ skip \in Int /\ p.rel \in Int
            /\ p.rel + skip = clientOffset + 0
        BY <1>1, <2>1, SMT
      <4>3. \A x, y, z, r \in Int : r + z = x + 0 => x + (y - z) = r + y
        BY SMT
      <4> QED BY <4>1, <4>2, <4>3
    <3> QED BY <1>1, <2>1, <3>1, SMTT(40)
  <2>8. \A rel \in ackNet' : rel \in 0 .. MaxStream /\ rel <= clientOffset'
    <3>1. \A rel \in ackNet : rel \in 0 .. MaxStream /\ rel <= clientOffset
      BY DEF Inv, TypeOK, Positions
    <3> QED BY <1>1, <2>5, <2>7, <3>1, SMT
  <2>9. TypeOK'
    BY <1>2, <2>6, <2>7, <2>8 DEF Inv, TypeOK
  <2>10. Positions'
    BY <1>2, <2>7, <2>8 DEF Inv, Positions
  <2>11. NoBadAck' /\ TimerOnlyWhileUnacked' /\ Contents'
    BY <1>2, <2>6 DEF Inv, NoBadAck, TimerOnlyWhileUnacked, Contents, BytesFrom
  <2> QED BY <2>9, <2>10, <2>11 DEF Inv
<1> QED BY <1>3, <1>4

\* The steps that only move the clock or lose packets.
LEMMA OtherStepInv ==
    ASSUME Inv,
           \/ SendNothing
           \/ \E expire \in BOOLEAN : MainLoop(expire)
           \/ \E p \in dataNet : LoseData(p)
           \/ \E rel \in ackNet : LoseAck(rel)
           \/ UNCHANGED vars
    PROVE  Inv'
<1>1. /\ UNCHANGED <<written, c, reliableOffset, reliableUnsent, acks, badAck,
                     clientOffset, delivered>>
      /\ dataNet' \subseteq dataNet /\ ackNet' \subseteq ackNet
      /\ sentThisLoop' \in BOOLEAN
      /\ timer' \in TimerState /\ (timer' = "off" <=> timer = "off")
  BY DEF SendNothing, MainLoop, LoseData, LoseAck, vars, serverVars, clientVars,
         Inv, TypeOK, TimerState
<1> QED
  BY <1>1 DEF Inv, TypeOK, NoBadAck, Positions, TimerOnlyWhileUnacked, Contents, BytesFrom

LEMMA NextInv == Inv /\ [Next]_vars => Inv'
<1> SUFFICES ASSUME Inv, [Next]_vars PROVE Inv'
  OBVIOUS
<1>1. ASSUME NEW n \in 1 .. MaxMessage, QueueMessage(n) PROVE Inv'
  BY <1>1, QueueMessageInv
<1>2. ASSUME NEW f \in 0 .. MaxFrame, NEW k \in 0 .. MaxStream, SendReliable(f, k) PROVE Inv'
  BY <1>2, SendReliableInv
<1>3. ASSUME NEW p \in dataNet, NEW dup \in BOOLEAN, ReceiveReliable(p, dup) PROVE Inv'
  BY <1>3, ReceiveReliableInv
<1>4. ASSUME NEW rel \in ackNet, NEW dup \in BOOLEAN, ReceiveAck(rel, dup) PROVE Inv'
  BY <1>4, ReceiveAckInv
<1> QED BY <1>1, <1>2, <1>3, <1>4, OtherStepInv DEF Next

-----------------------------------------------------------------------------

\* A client that follows Receive_reliable() is never thrown out for a bad
\* acknowledgement, whatever the network loses, repeats or reorders; the
\* positions of both sides stay ordered and the timer is right.
THEOREM StreamInvariants ==
    Spec => [](TypeOK /\ NoBadAck /\ Positions /\ TimerOnlyWhileUnacked)
<1> QED BY InitInv, NextInv, PTL DEF Spec, Inv

\* Nobody acknowledges what was not sent: Receive_ack() never destroys the
\* connection of a client that follows the protocol with "bad ack".
THEOREM AcksAlwaysGood == Spec => []NoBadAck
<1> QED BY InitInv, NextInv, PTL DEF Spec, Inv

-----------------------------------------------------------------------------

\* Bytes in the order of the stream, from its beginning, are a prefix of it.
LEMMA BytesArePrefix ==
    ASSUME NEW seq \in Seq(1 .. MaxStream), BytesFrom(seq, 0)
    PROVE  seq = Stream!Prefix(Len(seq))
<1>1. seq \in [1 .. Len(seq) -> 1 .. MaxStream]
  BY LenProperties
<1>2. \A i \in 1 .. Len(seq) : seq[i] = 0 + i
  BY DEF BytesFrom
<1>3. \A i \in 1 .. Len(seq) : seq[i] = i
  BY <1>2, SMT
<1> QED BY <1>1, <1>2, <1>3 DEF Stream!Prefix

\* The stream over the lossy network implements the abstract one: bytes reach
\* the client in the order they were queued, without gaps or repetitions.
THEOREM StreamImplementsByteStream == Spec => StreamSafe
<1>1. Init => Stream!Init
  <2> SUFFICES ASSUME Init PROVE Stream!Init
    OBVIOUS
  <2>1. delivered \in Seq(1 .. MaxStream) /\ BytesFrom(delivered, 0) /\ Len(delivered) = 0
    BY InitInv DEF Inv, TypeOK, Contents, Init
  <2> QED BY <2>1, BytesArePrefix DEF Init, Stream!Init
<1>2. Inv /\ Inv' /\ [Next]_vars => [Stream!Next]_Stream!streamVars
  <2> SUFFICES ASSUME Inv, Inv', [Next]_vars PROVE [Stream!Next]_Stream!streamVars
    OBVIOUS
  <2>1. ASSUME NEW n \in 1 .. MaxMessage, QueueMessage(n) PROVE Stream!Next
    <3>1. written' = written + n /\ written + n <= MaxStream /\ delivered' = delivered
      BY <2>1 DEF QueueMessage, clientVars
    <3>2. written < MaxStream /\ written' \in written + 1 .. MaxStream
      BY <3>1, StreamAssumption, SMT DEF Inv, TypeOK
    <3> QED BY <3>1, <3>2 DEF Stream!Next, Stream!Queue
  <2>2. ASSUME NEW p \in dataNet, NEW dup \in BOOLEAN, ReceiveReliable(p, dup)
        PROVE  [Stream!Next]_Stream!streamVars
    <3>1. written' = written
      BY <2>2 DEF ReceiveReliable, serverVars
    <3>2. /\ delivered' = Stream!Prefix(clientOffset') /\ delivered = Stream!Prefix(clientOffset)
          /\ Len(delivered) = clientOffset
      <4>1. delivered = Stream!Prefix(clientOffset)
        BY BytesArePrefix DEF Inv, TypeOK, Contents
      <4>2. /\ delivered' \in Seq(1 .. MaxStream) /\ BytesFrom(delivered', 0)
            /\ Len(delivered') = clientOffset'
        BY DEF Inv, TypeOK, Contents, BytesFrom
      <4>3. delivered' = Stream!Prefix(Len(delivered'))
        BY <4>2, BytesArePrefix
      <4> QED BY <4>1, <4>2, <4>3 DEF Inv, Contents
    <3>3. clientOffset' <= written /\ clientOffset' \in Nat /\ clientOffset \in Nat
      BY <3>1, StreamAssumption, LenProperties, SMT DEF Inv, TypeOK, Positions
    <3>4. CASE IsGap(p) \/ IsDuplicate(p)
      BY <2>2, <3>1, <3>4 DEF ReceiveReliable, clientVars, Stream!streamVars
    <3>5. CASE ~(IsGap(p) \/ IsDuplicate(p))
      <4>1. clientOffset' = clientOffset + Len(NewBytes(p))
        BY <2>2, <3>5 DEF ReceiveReliable
      <4>2. Len(NewBytes(p)) \in Nat \ {0}
        <5>1. /\ p.bytes \in Seq(1 .. MaxStream) /\ p.rel \in 0 .. MaxStream
              /\ BytesFrom(p.bytes, p.rel) /\ Len(p.bytes) \in Nat
          BY LenProperties DEF Inv, TypeOK, Packets, Contents
        <5>2. /\ clientOffset - p.rel \in Nat /\ clientOffset - p.rel < Len(p.bytes)
              /\ p.rel \in Nat
          BY <3>3, <3>5, <5>1, StreamAssumption, SMT DEF IsGap, IsDuplicate
        <5>3. Len(NewBytes(p)) = Len(p.bytes) - (clientOffset - p.rel)
          BY <5>1, <5>2, SubSeqBytes, SMT DEF NewBytes
        <5> QED BY <5>1, <5>2, <5>3, SMT
      <4>3. /\ clientOffset < written
            /\ clientOffset' \in clientOffset + 1 .. written
        BY <3>3, <4>1, <4>2, StreamAssumption, SMTT(40) DEF Inv, TypeOK
      <4> QED BY <3>1, <3>2, <4>3 DEF Stream!Next, Stream!Deliver
    <3> QED BY <3>4, <3>5
  <2>3. ASSUME UNCHANGED <<written, delivered>> PROVE UNCHANGED Stream!streamVars
    BY <2>3 DEF Stream!streamVars
  <2> QED
    BY <2>1, <2>2, <2>3 DEF Next, SendReliable, SendNothing, MainLoop, ReceiveAck,
       LoseData, LoseAck, vars, serverVars, clientVars
<1> QED BY <1>1, <1>2, InitInv, NextInv, PTL DEF Spec, StreamSafe, Stream!Spec

-----------------------------------------------------------------------------
(* The connection.                                                         *)

\* The part of the inductive invariant that is about the server's states.
ServerInv ==
    /\ connState \in ConnStates
    /\ setupDone \in 0 .. SetupSize
    /\ turn = "setup" => connState = "SETUP"
    /\ turn = "confirm" => connState = "LISTENING"
    /\ connState = "LISTENING" => setupDone = 0
    /\ connState = "SETUP" => setupDone < SetupSize
    /\ connState = "LOGIN" => setupDone = SetupSize
    /\ connState = "DRAIN" => \/ drainState = "SETUP" /\ setupDone = 0
                              \/ drainState = "LOGIN" /\ setupDone = SetupSize
    /\ connState = "READY" => drainState = "PLAYING"
    /\ player <=> connState \in {"READY", "PLAYING"}
    /\ player \in BOOLEAN

ConnInv == Inv /\ ServerInv /\ DrainHasData

\* What Handle_setup() queues: at least the header when it comes first, never
\* more than there is, and nothing of it makes the connection ready too early.
LEMMA HandleSetupChunk ==
    ASSUME Inv, ServerInv, HandleSetup
    PROVE  \E n \in 0 .. SetupSize :
             /\ n = 0 => UNCHANGED <<streamVars, content>>
             /\ n > 0 => /\ QueueMessage(n)
                         /\ content' = content \o [i \in 1 .. n |-> "setup"]
             /\ setupDone' = setupDone + n
             /\ setupDone' \in 0 .. SetupSize
             /\ setupDone' = SetupSize => n > 0
<1> DEFINE header == IF setupDone = 0 THEN 1 ELSE 0
           n      == header + SetupChunk(header)
<1>1. /\ setupDone \in Nat /\ setupDone < SetupSize /\ SetupSize \in Nat /\ SetupSize > 1
      /\ SetupFill \in Int /\ Len(c) \in Nat
  BY ConnectionAssumption, LenProperties, SMT DEF HandleSetup, ServerInv, Inv, TypeOK
<1>2. header \in {0, 1} /\ setupDone + header <= SetupSize
  BY <1>1, SMT
<1> HIDE DEF header
<1>3. SetupChunk(header) \in Nat /\ setupDone + header + SetupChunk(header) <= SetupSize
  <2>1. \A a, b, d, h \in Int :
          d + h <= b => /\ Lesser(Greater(0, a - h), b - d - h) \in Nat
                        /\ d + h + Lesser(Greater(0, a - h), b - d - h) <= b
    BY SMT DEF Lesser, Greater
  <2>2. SetupFill - Len(c) \in Int /\ setupDone \in Int /\ SetupSize \in Int /\ header \in Int
    BY <1>1, <1>2, SMT
  <2> QED BY <1>2, <2>1, <2>2 DEF SetupChunk
<1>4. /\ n \in 0 .. SetupSize /\ setupDone + n \in 0 .. SetupSize
      /\ setupDone + n = SetupSize => n > 0
  BY <1>1, <1>2, <1>3, SMT
<1>5. /\ \/ n = 0 /\ UNCHANGED <<streamVars, content>>
         \/ n > 0 /\ Queue([i \in 1 .. n |-> "setup"])
      /\ setupDone' = setupDone + n
  BY DEF HandleSetup, header
<1> HIDE DEF n
<1>6. n > 0 => QueueMessage(n) /\ content' = content \o [i \in 1 .. n |-> "setup"]
  <2> SUFFICES ASSUME n > 0
               PROVE  QueueMessage(n) /\ content' = content \o [i \in 1 .. n |-> "setup"]
    OBVIOUS
  <2>0. Queue([i \in 1 .. n |-> "setup"])
    BY <1>4, <1>5, ConnectionAssumption, SMT
  <2>1. /\ QueueMessage(Len([i \in 1 .. n |-> "setup"]))
        /\ content' = content \o [i \in 1 .. n |-> "setup"]
    BY <2>0 DEF Queue
  <2>2. Len([i \in 1 .. n |-> "setup"]) = n
    BY <1>4, ConnectionAssumption, LenProperties, SMT
  <2> QED BY <2>1, <2>2
<1>7. n = 0 => UNCHANGED <<streamVars, content>>
  BY <1>4, <1>5, ConnectionAssumption, SMT
<1> QED BY <1>4, <1>5, <1>6, <1>7

-----------------------------------------------------------------------------

\* Every handler of the server, the client and the network is a step of the
\* stream or leaves it alone.
LEMMA StepIsStreamStep ==
    ASSUME Inv, ServerInv, [ConnNext]_allVars
    PROVE  [Next]_vars
<1>1. ASSUME NEW n \in 1 .. MaxMessage, QueueMessage(n) PROVE Next
  BY <1>1 DEF Next
<1>2. ASSUME NEW f \in 0 .. MaxFrame, NEW k \in 0 .. MaxStream, SendReliable(f, k) PROVE Next
  BY <1>2 DEF Next
<1>3. MaxMessage \in Nat /\ MaxFrame \in Nat /\ MaxStream \in Nat /\ 1 \in 1 .. MaxMessage
      /\ 2 \in 1 .. MaxMessage /\ \A n \in 1 .. SetupSize : n \in 1 .. MaxMessage
      /\ 0 \in 0 .. MaxFrame /\ 0 \in 0 .. MaxStream /\ 1 .. MaxFrame \subseteq 0 .. MaxFrame
  BY StreamAssumption, ConnectionAssumption, SMT
<1>4. CASE UNCHANGED streamVars
  BY <1>4 DEF streamVars
<1>5. CASE ServerStep
  <2>1. ASSUME NEW dup \in Copies, ReceiveVerify(dup) PROVE Next
    BY <1>1, <1>3, <2>1, LenProperties DEF ReceiveVerify, Queue
  <2>2. ASSUME NEW dup \in Copies, ReceivePlay(dup) PROVE Next
    BY <1>1, <1>3, <2>2, LenProperties DEF ReceivePlay, Queue, LoginMessages
  <2>3. ASSUME QueueInfo PROVE Next
    BY <1>1, <1>3, <2>3, LenProperties DEF QueueInfo, Queue
  <2>4. ASSUME NEW k \in 0 .. MaxStream, Confirm(k) \/ InputSend(k) PROVE Next
    BY <1>2, <1>3, <2>4 DEF Confirm, InputSend
  <2>5. ASSUME NEW f \in 1 .. MaxFrame, NEW k \in 0 .. MaxStream, FrameWithData(f, k)
        PROVE  Next
    BY <1>2, <1>3, <2>5 DEF FrameWithData
  <2>6. ASSUME NEW dup \in Copies, NEW k \in 0 .. MaxStream, ReceivePlayAgain(dup, k)
        PROVE  [Next]_vars
    BY <1>2, <1>3, <2>6 DEF ReceivePlayAgain, Next, streamVars
  <2>7. ASSUME NEW expire \in BOOLEAN, Turn(expire) PROVE Next
    BY <2>7 DEF Turn, Next
  <2>8. ASSUME HandleSetup PROVE [Next]_vars
    <3>1. PICK n \in 0 .. SetupSize : /\ n = 0 => UNCHANGED <<streamVars, content>>
                                      /\ n > 0 => QueueMessage(n)
      BY <2>8, HandleSetupChunk
    <3>2. CASE n = 0
      BY <3>1, <3>2 DEF streamVars
    <3>3. CASE n # 0
      <4>1. n > 0 /\ n \in 1 .. SetupSize
        BY <3>3, ConnectionAssumption, SMT
      <4> QED BY <1>1, <1>3, <3>1, <4>1
    <3> QED BY <3>2, <3>3
  <2>9. ASSUME NEW rel \in ackNet, NEW dup \in Copies, ConnReceiveAck(rel, dup) PROVE Next
    BY <2>9, ConnectionAssumption DEF ConnReceiveAck, Next
  <2>10. ASSUME \/ \E m \in toServer, dup \in Copies : ReceiveIgnored(m, dup)
                \/ InputIdle
                \/ \E f \in 1 .. MaxFrame : FrameAlone(f)
         PROVE  UNCHANGED streamVars
    BY <2>10 DEF ReceiveIgnored, InputIdle, FrameAlone
  <2> QED
    BY <1>4, <1>5, <2>1, <2>2, <2>3, <2>4, <2>5, <2>6, <2>7, <2>8, <2>9, <2>10
       DEF ServerStep
<1>6. CASE ClientStep
  <2>1. ASSUME NEW p \in dataNet, NEW dup \in Copies, ClientReceiveReliable(p, dup) PROVE Next
    BY <2>1, ConnectionAssumption DEF ClientReceiveReliable, Next
  <2>2. ASSUME ClientVerify \/ ClientPlay \/ \E dup \in Copies : ClientReceiveFrame(dup)
        PROVE  UNCHANGED streamVars
    BY <2>2 DEF ClientVerify, ClientPlay, ClientReceiveFrame
  <2> QED BY <1>4, <1>6, <2>1, <2>2 DEF ClientStep
<1>7. CASE NetworkStep
  BY <1>4, <1>7 DEF NetworkStep, ConnLoseData, ConnLoseAck, LosePacket, Next
<1>8. CASE GiveUp \/ UNCHANGED allVars
  BY <1>4, <1>8 DEF GiveUp, ReceiveQuit, RefusePlay, Timeout, ClientLeave, allVars
<1> QED BY <1>5, <1>6, <1>7, <1>8 DEF ConnNext

-----------------------------------------------------------------------------

LEMMA ConnInitInv == ConnInit => ConnInv
<1> SUFFICES ASSUME ConnInit PROVE ConnInv
  OBVIOUS
<1>1. Inv
  BY InitInv DEF ConnInit
<1>2. 0 \in 0 .. SetupSize
  BY ConnectionAssumption, SMT
<1> QED BY <1>1, <1>2 DEF ConnInit, ConnInv, ServerInv, ConnStates, DrainHasData

\* Receive_ack() leaves DRAIN and READY for the state they drain to, and stays
\* only while there is something left to acknowledge.
LEMMA ReceiveAckServer ==
    ASSUME ConnInv, NEW rel \in ackNet, NEW dup \in BOOLEAN, ConnReceiveAck(rel, dup)
    PROVE  ServerInv' /\ DrainHasData'
<1>1. /\ reliableOffset \in Int /\ reliableUnsent \in Int /\ rel \in Int
      /\ Len(c) \in Int /\ reliableUnsent <= reliableOffset + Len(c)
  BY StreamAssumption, LenProperties, SMT DEF ConnInv, Inv, TypeOK, Positions
<1>2. Inv'
  BY ReceiveAckInv DEF ConnInv, ConnReceiveAck
<1>3. UNCHANGED <<setupDone, turn>> /\ turn = "wait" /\ ReceiveAck(rel, dup)
  BY DEF ConnReceiveAck, queueVars
<1>4. CASE badAck'
  BY <1>3, <1>4 DEF ConnReceiveAck, Destroy, ConnInv, ServerInv, ConnStates, DrainHasData
<1>5. CASE ~badAck' /\ AckIsOld(rel)
  <2>1. c' = c
    BY <1>3, <1>5 DEF ReceiveAck
  <2>2. UNCHANGED <<connState, drainState, player>>
    BY <1>5 DEF ConnReceiveAck
  <2> QED BY <1>3, <2>1, <2>2 DEF ConnInv, ServerInv, DrainHasData
<1>6. CASE ~badAck' /\ ~AckIsOld(rel) /\ connState = "DRAIN"
  <2>1. UNCHANGED <<drainState, player>>
    BY <1>6 DEF ConnReceiveAck
  <2>2. CASE AckStopsTimer(rel)
    <3>1. connState' = drainState
      BY <1>6, <2>2 DEF ConnReceiveAck
    <3>2. \/ drainState = "SETUP" /\ setupDone = 0 /\ setupDone < SetupSize
          \/ drainState = "LOGIN" /\ setupDone = SetupSize
      BY <1>6, ConnectionAssumption, SMT DEF ConnInv, ServerInv
    <3> QED BY <1>3, <1>6, <2>1, <3>1, <3>2 DEF ConnInv, ServerInv, ConnStates, DrainHasData
  <2>3. CASE ~AckStopsTimer(rel)
    <3>1. connState' = "DRAIN"
      BY <1>6, <2>3 DEF ConnReceiveAck
    <3>2. reliableOffset' = rel /\ reliableUnsent' = reliableUnsent
      BY <1>3, <1>6 DEF ReceiveAck
    <3>3. reliableUnsent <= rel + Len(c') /\ Len(c') \in Nat
      BY <1>2, <3>2, LenProperties DEF Inv, TypeOK, Positions
    <3>4. Len(c') > 0
      BY <1>1, <2>3, <3>3, SMT DEF AckStopsTimer
    <3> QED BY <1>3, <1>6, <2>1, <3>1, <3>4 DEF ConnInv, ServerInv, DrainHasData
  <2> QED BY <2>2, <2>3
<1>7. CASE ~badAck' /\ ~AckIsOld(rel) /\ connState = "READY"
  <2>1. UNCHANGED <<drainState, player>> /\ drainState = "PLAYING"
    BY <1>7 DEF ConnReceiveAck, ConnInv, ServerInv
  <2>2. connState' = IF ReplyGone THEN "PLAYING" ELSE "READY"
    BY <1>7, <2>1 DEF ConnReceiveAck
  <2>3. ~ReplyGone => Len(c') # 0
    BY DEF ReplyGone
  <2>4. Len(c') \in Nat
    BY <1>2, LenProperties DEF Inv, TypeOK
  <2>5. ~ReplyGone => Len(c') > 0
    BY <2>3, <2>4, SMT
  <2> QED
    BY <1>3, <1>7, <2>1, <2>2, <2>5 DEF ConnInv, ServerInv, ConnStates, DrainHasData
<1>8. CASE ~badAck' /\ ~AckIsOld(rel) /\ connState \notin {"DRAIN", "READY"}
  <2>1. UNCHANGED <<connState, drainState, player>>
    BY <1>8 DEF ConnReceiveAck
  <2> QED BY <1>3, <1>8, <2>1 DEF ConnInv, ServerInv, DrainHasData
<1> QED BY <1>4, <1>5, <1>6, <1>7, <1>8

\* A step that queues something leaves the buffer with something in it.
LEMMA QueueFills ==
    ASSUME Inv, NEW n \in 1 .. MaxMessage, QueueMessage(n)
    PROVE  Len(c') > 0
<1>1. Inv'
  BY QueueMessageInv
<1>2. /\ written = reliableOffset + Len(c) /\ written' = reliableOffset' + Len(c')
      /\ written' = written + n /\ reliableOffset' = reliableOffset
  BY <1>1 DEF Inv, Positions, QueueMessage
<1>3. Len(c) \in Nat /\ Len(c') \in Nat /\ reliableOffset \in Int /\ n \in Int /\ n > 0
  BY <1>1, StreamAssumption, LenProperties, SMT DEF Inv, TypeOK
<1> QED BY <1>2, <1>3, SMT

LEMMA ConnNextInv == ConnInv /\ [ConnNext]_allVars => ConnInv'
<1> SUFFICES ASSUME ConnInv, [ConnNext]_allVars PROVE ServerInv' /\ DrainHasData'
  BY StepIsStreamStep, NextInv DEF ConnInv
<1> USE DEF ConnInv
\* Most steps change neither the server's state nor its buffer.
<1>1. ASSUME UNCHANGED <<stateVars, setupDone, turn, c>> PROVE ServerInv' /\ DrainHasData'
  BY <1>1 DEF ServerInv, DrainHasData, stateVars
<1>2. ASSUME Destroy, setupDone' = setupDone, turn = "wait" \/ turn = "confirm", turn' = "wait"
      PROVE  ServerInv' /\ DrainHasData'
  BY <1>2 DEF ServerInv, DrainHasData, Destroy, ConnStates
<1>3. CASE ServerStep
  <2>1. ASSUME NEW dup \in Copies, ReceiveVerify(dup) PROVE ServerInv' /\ DrainHasData'
    BY <2>1 DEF ReceiveVerify, stateVars, ServerInv, DrainHasData
  <2>2. ASSUME NEW k \in 0 .. MaxStream, Confirm(k) PROVE ServerInv' /\ DrainHasData'
    <3>1. /\ turn = "confirm" /\ turn' = "wait" /\ setupDone' = setupDone
          /\ setupDone = 0 /\ c' = c /\ Len(c) > 0
      BY <2>2 DEF Confirm, queueVars, ServerInv, SendReliable, MaySend
    <3>2. CASE k > 0
      <4>1. connState' = "DRAIN" /\ drainState' = "SETUP" /\ player' = player
        BY <2>2, <3>2 DEF Confirm
      <4> QED BY <3>1, <4>1 DEF ServerInv, DrainHasData, ConnStates
    <3> QED BY <1>2, <2>2, <3>1, <3>2 DEF Confirm
  <2>3. ASSUME NEW expire \in BOOLEAN, Turn(expire) PROVE ServerInv' /\ DrainHasData'
    BY <2>3 DEF Turn, MainLoop, stateVars, queueVars, ServerInv, DrainHasData
  <2>4. ASSUME HandleSetup PROVE ServerInv' /\ DrainHasData'
    <3>1. PICK n \in 0 .. SetupSize :
             /\ n > 0 => QueueMessage(n)
             /\ setupDone' = setupDone + n
             /\ setupDone' \in 0 .. SetupSize
             /\ setupDone' = SetupSize => n > 0
      BY <2>4, HandleSetupChunk
    <3>2. /\ turn' = "send" /\ player' = player /\ connState = "SETUP"
          /\ setupDone' >= SetupSize => connState' = "DRAIN" /\ drainState' = "LOGIN"
          /\ ~(setupDone' >= SetupSize) => UNCHANGED <<connState, drainState>>
      BY <2>4 DEF HandleSetup, ServerInv
    <3>3. CASE setupDone' >= SetupSize
      <4>1. setupDone' = SetupSize /\ n \in 1 .. MaxMessage
        BY <3>1, <3>3, ConnectionAssumption, StreamAssumption, SMT
      <4>2. Len(c') > 0
        <5>1. n > 0
          BY <4>1, StreamAssumption, SMT
        <5> QED BY <3>1, <4>1, <5>1, QueueFills
      <4> QED BY <3>1, <3>2, <3>3, <4>1, <4>2 DEF ServerInv, DrainHasData, ConnStates
    <3>4. CASE ~(setupDone' >= SetupSize)
      <4>1. setupDone' < SetupSize
        BY <3>1, <3>4, ConnectionAssumption, SMT
      <4> QED BY <3>1, <3>2, <3>4, <4>1 DEF ServerInv, DrainHasData, ConnStates
    <3> QED BY <3>3, <3>4
  <2>5. ASSUME NEW k \in 0 .. MaxStream, InputSend(k) PROVE ServerInv' /\ DrainHasData'
    BY <2>5 DEF InputSend, SendReliable, stateVars, queueVars, ServerInv, DrainHasData
  <2>6. ASSUME NEW f \in 1 .. MaxFrame, NEW k \in 0 .. MaxStream, FrameWithData(f, k)
        PROVE  ServerInv' /\ DrainHasData'
    BY <2>6 DEF FrameWithData, SendReliable, stateVars, queueVars, ServerInv, DrainHasData
  <2>7. ASSUME InputIdle \/ \E f \in 1 .. MaxFrame : FrameAlone(f)
        PROVE  ServerInv' /\ DrainHasData'
    BY <2>7 DEF InputIdle, FrameAlone, streamVars, vars, serverVars, stateVars, queueVars,
                ServerInv, DrainHasData
  <2>8. ASSUME QueueInfo PROVE ServerInv' /\ DrainHasData'
    <3>1. QueueMessage(1)
      BY <2>8, LenProperties DEF QueueInfo, Queue
    <3>2. 1 \in 1 .. MaxMessage
      BY ConnectionAssumption, StreamAssumption, SMT
    <3>3. Len(c') > 0
      BY <3>1, <3>2, QueueFills
    <3> QED BY <2>8, <3>3 DEF QueueInfo, stateVars, ServerInv, DrainHasData
  <2>9. ASSUME NEW dup \in Copies, ReceivePlay(dup) PROVE ServerInv' /\ DrainHasData'
    <3>1. QueueMessage(2)
      BY <2>9, LenProperties DEF ReceivePlay, Queue, LoginMessages
    <3>2. 2 \in 1 .. MaxMessage
      BY ConnectionAssumption, StreamAssumption, SMT
    <3>3. Len(c') > 0
      BY <3>1, <3>2, QueueFills
    <3> QED BY <2>9, <3>3 DEF ReceivePlay, ServerInv, DrainHasData, ConnStates
  <2>10. ASSUME NEW dup \in Copies, NEW k \in 0 .. MaxStream, ReceivePlayAgain(dup, k)
         PROVE  ServerInv' /\ DrainHasData'
    BY <1>1, <2>10 DEF ReceivePlayAgain, SendReliable, SendNothing, queueVars, streamVars,
                       vars, serverVars
  <2>11. ASSUME NEW rel \in ackNet, NEW dup \in Copies, ConnReceiveAck(rel, dup)
         PROVE  ServerInv' /\ DrainHasData'
    BY <2>11, ReceiveAckServer, ConnectionAssumption
  <2>12. ASSUME NEW m \in toServer, NEW dup \in Copies, ReceiveIgnored(m, dup)
         PROVE  ServerInv' /\ DrainHasData'
    BY <1>1, <2>12 DEF ReceiveIgnored, streamVars, vars, serverVars, queueVars
  <2> QED
    BY <1>3, <2>1, <2>2, <2>3, <2>4, <2>5, <2>6, <2>7, <2>8, <2>9, <2>10, <2>11, <2>12
       DEF ServerStep
<1>4. CASE ClientStep
  BY <1>1, <1>4 DEF ClientStep, ClientReceiveReliable, ClientVerify, ClientPlay,
     ClientReceiveFrame, ReceiveReliable, streamVars, vars, serverVars, queueVars
<1>5. CASE NetworkStep
  BY <1>1, <1>5 DEF NetworkStep, ConnLoseData, ConnLoseAck, LosePacket, LoseData, LoseAck,
     streamVars, vars, serverVars, connVars, queueVars
<1>6. CASE GiveUp
  BY <1>1, <1>2, <1>6 DEF GiveUp, ReceiveQuit, RefusePlay, Timeout, ClientLeave,
     streamVars, vars, serverVars, queueVars
<1>7. CASE UNCHANGED allVars
  BY <1>1, <1>7 DEF allVars, streamVars, vars, serverVars, connVars, queueVars
<1> QED BY <1>3, <1>4, <1>5, <1>6, <1>7 DEF ConnNext

-----------------------------------------------------------------------------

\* A connection with whatever the login adds to it is a reliable stream: all
\* that holds of the stream holds of its bytes in every state of the connection.
THEOREM ConnectionUsesStream == ConnSpec => Spec
<1>1. ConnInit => Init
  BY DEF ConnInit
<1>2. ConnInv /\ [ConnNext]_allVars => [Next]_vars
  BY StepIsStreamStep DEF ConnInv
<1> QED BY <1>1, <1>2, ConnInitInv, ConnNextInv, PTL DEF ConnSpec, Spec

\* DRAIN and READY, which only an acknowledgement of new data ends, always have
\* data left to acknowledge.
THEOREM DrainsHaveData == ConnSpec => []DrainHasData
<1>1. ConnInv => DrainHasData
  BY DEF ConnInv
<1> QED BY <1>1, ConnInitInv, ConnNextInv, PTL DEF ConnSpec

-----------------------------------------------------------------------------
(* The client's half of the login.                                         *)

\* What the server queues as the n-th unit of its stream.
Kind(n) == IF n = 1 THEN "verify"
           ELSE IF n <= SetupSize + 1 THEN "setup"
           ELSE IF n = SetupSize + 2 THEN "reply" ELSE "info"

\* The procedure the client is in when it has read n units.
Phase(n) == IF n = 0 THEN "verify"
            ELSE IF n <= SetupSize THEN "setup"
            ELSE IF n = SetupSize + 1 THEN "start" ELSE "play"

Kinds == {"verify", "setup", "reply", "info"}

Queued == /\ content \in Seq(Kinds)
          /\ Len(content) = written
          /\ \A i \in 1 .. written : content[i] = Kind(i)

\* How far the stream is in each state of the connection.
Amount ==
    /\ connState = "LISTENING" => written = IF turn = "confirm" THEN 1 ELSE 0
    /\ connState \in {"DRAIN", "SETUP", "LOGIN"} => written = 1 + setupDone
    /\ connState \in {"READY", "PLAYING"} => written >= SetupSize + 2

InPhase == clientState \in {"gone", Phase(clientOffset)}

\* What the server has made of the client's position, itself or in a packet
\* that is still under way.
Heard == /\ connState = "LOGIN" => clientOffset > 0
         /\ \/ player
            \/ "PLAY" \in toServer
            \/ "FRAME" \in toClient
            => clientOffset > SetupSize

LoginInv == ConnInv /\ Queued /\ Amount /\ InPhase /\ Heard

\* One more unit takes the client from one phase to the next.
LEMMA PhaseSteps ==
    ASSUME NEW n \in Nat \ {0}
    PROVE  AfterUnit(Phase(n - 1), n, Kind(n)) = Phase(n)
<1>1. SetupSize \in Nat /\ SetupSize > 1
  BY ConnectionAssumption, SMT
<1>2. CASE n = 1
  BY <1>1, <1>2, SMT DEF AfterUnit, Phase, Kind, SetupRead
<1>3. CASE n # 1 /\ n <= SetupSize + 1
  BY <1>1, <1>3, SMT DEF AfterUnit, Phase, Kind, SetupRead
<1>4. CASE n = SetupSize + 2
  BY <1>1, <1>4, SMT DEF AfterUnit, Phase, Kind, SetupRead
<1>5. CASE n > SetupSize + 2
  BY <1>1, <1>5, SMT DEF AfterUnit, Phase, Kind, SetupRead
<1> QED BY <1>1, <1>2, <1>3, <1>4, <1>5, SMT

\* A set of numbers that is not empty has a least one.
LEMMA LeastNumber ==
    ASSUME NEW T \in SUBSET Nat, T # {}
    PROVE  \E x \in T : \A y \in T : x <= y
<1> DEFINE R == {ss \in Nat \X Nat : ss[1] < ss[2]}
<1>1. IsWellFoundedOn(R, Nat)
  BY NatLessThanWellFounded DEF OpToRel
<1>2. \E x \in T : \A y \in T : <<y, x>> \notin R
  <2> HIDE DEF R
  <2> QED BY <1>1, WFMin
<1>3. PICK x \in T : \A y \in T : <<y, x>> \notin R
  BY <1>2
<1>4. ASSUME NEW y \in T PROVE x <= y
  <2>1. x \in Nat /\ y \in Nat /\ ~(y < x)
    BY <1>3
  <2> QED BY ONLY <2>1, SMT
<1> QED BY <1>4

\* What the client's step makes of the units a + 1 to b of the stream, taken
\* from a client in step with the first a.
After(a, b, cont, units) ==
    CHOOSE f : f = [n \in a .. b |-> IF n = a THEN Phase(a)
                                     ELSE AfterUnit(f[n - 1], n, cont[units[n]])]

\* The client's procedure after the units a + 1 to b of the stream.
LEMMA PhaseAfter ==
    ASSUME NEW a \in Nat, NEW b \in Nat, a <= b,
           NEW cont, NEW units, \A n \in a + 1 .. b : cont[units[n]] = Kind(n)
    PROVE  After(a, b, cont, units)[b] = Phase(b)
<1> DEFINE TurnOf(f, n) == IF n = a THEN Phase(a)
                         ELSE AfterUnit(f[n - 1], n, cont[units[n]])
           g == [n \in a .. b |-> Phase(n)]
           after == CHOOSE f : f = [n \in a .. b |-> TurnOf(f, n)]
<1>1. ASSUME NEW n \in a .. b, n # a
      PROVE  n \in a + 1 .. b /\ n - 1 \in a .. b /\ n \in Nat \ {0}
  BY <1>1, SMT
<1>2. ASSUME NEW n \in a .. b, n # a
      PROVE  AfterUnit(Phase(n - 1), n, cont[units[n]]) = Phase(n)
  <2>1. cont[units[n]] = Kind(n)
    BY <1>1, <1>2
  <2>2. AfterUnit(Phase(n - 1), n, Kind(n)) = Phase(n)
    BY <1>1, <1>2, PhaseSteps
  <2> QED BY <2>1, <2>2
<1>3. g = [n \in a .. b |-> TurnOf(g, n)]
  <2>1. ASSUME NEW n \in a .. b PROVE Phase(n) = TurnOf(g, n)
    <3>1. CASE n = a
      BY <3>1
    <3>2. CASE n # a
      <4>1. n \in a + 1 .. b /\ n - 1 \in a .. b
        BY <1>1, <3>2
      <4>2. g[n - 1] = Phase(n - 1)
        BY <4>1
      <4> QED BY <1>2, <3>2, <4>1, <4>2
    <3> QED BY <3>1, <3>2
  <2> QED BY <2>1
<1>4. after = [n \in a .. b |-> TurnOf(after, n)]
  <2> HIDE DEF TurnOf, g
  <2> QED BY <1>3
<1> HIDE DEF after
<1>5. \A n \in a .. b : after[n] = TurnOf(after, n)
  <2> HIDE DEF TurnOf
  <2> QED BY <1>4
<1> DEFINE Bad == {n \in a .. b : after[n] # Phase(n)}
<1>6. Bad = {}
  <2> SUFFICES ASSUME Bad # {} PROVE FALSE
    OBVIOUS
  <2>1. Bad \in SUBSET Nat
    BY SMT
  <2>2. PICK n \in Bad : \A m \in Bad : n <= m
    <3> HIDE DEF Bad
    <3> QED BY <2>1, LeastNumber
  <2>3. n \in a .. b /\ n # a
    BY <1>5, <2>2
  <2>4. n \in a + 1 .. b /\ n - 1 \in a .. b
    BY <1>1, <2>3
  <2>5. ~(n <= n - 1)
    BY <2>3, SMT
  <2>6. after[n - 1] = Phase(n - 1)
    BY <2>2, <2>4, <2>5
  <2>7. after[n] = Phase(n)
    BY <1>5, <1>2, <2>3, <2>4, <2>6
  <2> QED BY <2>2, <2>7
<1>7. b \in a .. b
  BY SMT
<1>8. after[b] = Phase(b)
  BY <1>6, <1>7
<1> QED BY <1>8 DEF after, After

-----------------------------------------------------------------------------

\* What is queued goes on in the order of the stream.
LEMMA QueuedGoesOn ==
    ASSUME Inv, Queued, NEW s \in Seq(Kinds), QueueMessage(Len(s)), content' = content \o s,
           \A i \in 1 .. Len(s) : s[i] = Kind(written + i)
    PROVE  Queued' /\ written' = written + Len(s)
<1>1. /\ written \in Nat /\ Len(s) \in Nat /\ written' = written + Len(s)
      /\ content \in Seq(Kinds) /\ Len(content) = written
  BY StreamAssumption, LenProperties, SMT DEF Inv, TypeOK, Queued, QueueMessage
<1>2. /\ content \o s \in Seq(Kinds) /\ Len(content \o s) = written + Len(s)
      /\ \A i \in 1 .. written + Len(s) :
            (content \o s)[i] = IF i <= written THEN content[i] ELSE s[i - written]
  BY <1>1, ConcatProperties
<1>3. ASSUME NEW i \in 1 .. written + Len(s) PROVE (content \o s)[i] = Kind(i)
  <2>1. CASE i <= written
    <3>1. i \in 1 .. written
      BY <1>1, <2>1, SMT
    <3> QED BY <1>2, <2>1, <3>1 DEF Queued
  <2>2. CASE ~(i <= written)
    <3>1. i - written \in 1 .. Len(s) /\ written + (i - written) = i
      BY <1>1, <2>2, SMT
    <3>2. s[i - written] = Kind(written + (i - written))
      BY <3>1
    <3> QED BY <1>2, <2>2, <3>1, <3>2
  <2> QED BY <2>1, <2>2
<1> QED BY <1>1, <1>2, <1>3 DEF Queued

\* The client reads on in step with what it receives.
LEMMA ReadsOn ==
    ASSUME LoginInv, Inv', NEW p \in dataNet, NEW dup \in BOOLEAN,
           ClientReceiveReliable(p, dup)
    PROVE  InPhase' /\ clientOffset <= clientOffset'
<1>1. /\ clientOffset \in Nat /\ clientOffset' \in Nat /\ clientOffset' <= written'
      /\ Len(delivered') = clientOffset' /\ BytesFrom(delivered', 0)
      /\ written' = written /\ content' = content
  <2>1. /\ clientOffset' <= reliableUnsent' /\ reliableUnsent' <= reliableOffset' + Len(c')
        /\ written' = reliableOffset' + Len(c')
    BY DEF Inv, Positions
  <2>2. /\ clientOffset' \in Nat /\ reliableUnsent' \in Nat /\ written' \in Nat
        /\ clientOffset \in Nat
    BY StreamAssumption, SMT DEF LoginInv, ConnInv, Inv, TypeOK
  <2>3. clientOffset' <= written'
    BY <2>1, <2>2, SMT
  <2>4. written' = written /\ content' = content
    BY DEF ClientReceiveReliable, ReceiveReliable, serverVars, queueVars
  <2> QED BY <2>2, <2>3, <2>4 DEF Inv, Contents
<1>2. clientOffset <= clientOffset'
  <2>1. CASE IsGap(p) \/ IsDuplicate(p)
    BY <1>1, <2>1, SMT DEF ClientReceiveReliable, ReceiveReliable, clientVars
  <2>2. CASE ~(IsGap(p) \/ IsDuplicate(p))
    <3>1. clientOffset' = clientOffset + Len(NewBytes(p))
      BY <2>2 DEF ClientReceiveReliable, ReceiveReliable
    <3>2. p.bytes \in Seq(1 .. MaxStream) /\ p.rel \in Nat /\ Len(p.bytes) \in Nat
      BY StreamAssumption, LenProperties, SMTT(40) DEF LoginInv, ConnInv, Inv, TypeOK, Packets
    <3>3. BytesFrom(p.bytes, p.rel)
      BY DEF LoginInv, ConnInv, Inv, Contents
    <3>4. clientOffset - p.rel \in Nat /\ clientOffset - p.rel <= Len(p.bytes)
      BY <1>1, <2>2, <3>2, SMT DEF IsGap, IsDuplicate
    <3>5. Len(NewBytes(p)) = Len(p.bytes) - (clientOffset - p.rel)
      BY <3>2, <3>3, <3>4, SubSeqBytes DEF NewBytes
    <3> QED BY <1>1, <3>1, <3>2, <3>4, <3>5, SMT
  <2> QED BY <2>1, <2>2
<1>3. \A n \in clientOffset + 1 .. clientOffset' : content[delivered'[n]] = Kind(n)
  <2> TAKE n \in clientOffset + 1 .. clientOffset'
  <2>1. n \in 1 .. clientOffset' /\ n \in 1 .. written /\ 0 + n = n
    BY <1>1, SMT DEF LoginInv, ConnInv, Inv, TypeOK
  <2>2. delivered'[n] = n
    BY <1>1, <2>1 DEF BytesFrom
  <2> QED BY <2>1, <2>2 DEF LoginInv, Queued
<1>4. clientState = Phase(clientOffset)
  BY DEF LoginInv, InPhase, ClientReceiveReliable, Running
<1>5. clientState' =
        (CHOOSE f : f = [n \in clientOffset .. clientOffset' |->
                           IF n = clientOffset THEN clientState
                           ELSE AfterUnit(f[n - 1], n, content[delivered'[n]])])[clientOffset']
  BY DEF ClientReceiveReliable
<1>6. clientState' = After(clientOffset, clientOffset', content, delivered')[clientOffset']
  BY <1>4, <1>5 DEF After
<1>7. clientState' = Phase(clientOffset')
  BY <1>1, <1>2, <1>3, <1>6, PhaseAfter, ZenonT(60)
<1> QED BY <1>2, <1>7 DEF InPhase, Phase

LEMMA LoginInitInv == ConnInit => LoginInv
<1> SUFFICES ASSUME ConnInit PROVE LoginInv
  OBVIOUS
<1>1. ConnInv
  BY ConnInitInv
<1>2. Queued
  BY EmptySeq, SMT DEF ConnInit, Init, Queued
<1>3. Amount /\ InPhase /\ Heard
  BY DEF ConnInit, Init, Amount, InPhase, Phase, Heard
<1> QED BY <1>1, <1>2, <1>3 DEF LoginInv

\* What does not touch the stream, the states or the client, and sends neither
\* PKT_PLAY nor a frame update, leaves the invariant alone.
Quiet == /\ UNCHANGED <<content, written, connState, setupDone, player>>
         /\ UNCHANGED <<clientState, clientOffset>>
         /\ turn' = "confirm" <=> turn = "confirm"
         /\ "PLAY" \in toServer' => "PLAY" \in toServer
         /\ "FRAME" \in toClient' => "FRAME" \in toClient

LEMMA QuietKeeps == LoginInv /\ Quiet => Queued' /\ Amount' /\ InPhase' /\ Heard'
BY DEF LoginInv, Quiet, Queued, Amount, InPhase, Phase, Heard

LEMMA DestroyKeeps ==
    ASSUME LoginInv, Destroy, UNCHANGED <<streamVars, queueVars, clientState>>,
           toServer' \subseteq toServer
    PROVE  Queued' /\ Amount' /\ InPhase' /\ Heard'
BY DEF LoginInv, Destroy, streamVars, vars, serverVars, clientVars, queueVars,
       Queued, Amount, InPhase, Phase, Heard

\* The server queues what it queues in the order of the stream.
LEMMA ServerQueues ==
    ASSUME LoginInv, ServerStep, ConnInv'
    PROVE  Queued' /\ Amount' /\ InPhase' /\ Heard'
<1>1. /\ SetupSize \in Nat /\ SetupSize > 1 /\ written \in Nat /\ setupDone \in 0 .. SetupSize
      /\ clientOffset \in Nat
  BY ConnectionAssumption, StreamAssumption, SMT DEF LoginInv, ConnInv, ServerInv, Inv, TypeOK
<1> USE DEF LoginInv
<1>2. ASSUME UNCHANGED <<clientOffset, clientState, player>>,
             connState' = "LOGIN" => connState = "LOGIN",
             toServer' \subseteq toServer, toClient' = toClient
      PROVE  InPhase' /\ Heard'
  BY <1>2 DEF InPhase, Phase, Heard
<1>3. ASSUME NEW n, QueueMessage(n) PROVE UNCHANGED <<clientOffset, delivered>>
  BY <1>3 DEF QueueMessage, clientVars
<1>4. ASSUME NEW dup \in Copies, ReceiveVerify(dup) PROVE Queued' /\ Amount' /\ InPhase' /\ Heard'
  <2>1. /\ QueueMessage(Len(<<"verify">>)) /\ content' = content \o <<"verify">>
        /\ written = 0 /\ turn' = "confirm" /\ UNCHANGED <<stateVars, setupDone, toClient, clientState>>
        /\ toServer' \subseteq toServer /\ connState = "LISTENING"
    BY <1>4 DEF ReceiveVerify, Queue, Amount, Take
  <2>2. /\ <<"verify">> \in Seq(Kinds) /\ Len(<<"verify">>) = 1
        /\ \A i \in 1 .. 1 : <<"verify">>[i] = Kind(written + i)
    BY <2>1, SMT DEF Kinds, Kind
  <2>3. Queued' /\ written' = written + 1
    BY <2>1, <2>2, QueuedGoesOn DEF ConnInv
  <2>4. Amount'
    BY <1>1, <2>1, <2>3, SMT DEF Amount, stateVars
  <2> QED BY <1>2, <1>3, <2>1, <2>3, <2>4 DEF stateVars
<1>5. ASSUME HandleSetup PROVE Queued' /\ Amount' /\ InPhase' /\ Heard'
  <2>1. PICK n \in 0 .. SetupSize :
           /\ n = 0 => UNCHANGED <<streamVars, content>>
           /\ n > 0 => /\ QueueMessage(n)
                       /\ content' = content \o [i \in 1 .. n |-> "setup"]
           /\ setupDone' = setupDone + n
           /\ setupDone' \in 0 .. SetupSize
    BY <1>5, HandleSetupChunk DEF ConnInv
  <2>2. /\ connState = "SETUP" /\ connState' \in {"SETUP", "DRAIN"} /\ turn' = "send"
        /\ UNCHANGED <<player, toServer, toClient, clientState>>
    BY <1>5 DEF HandleSetup, ConnInv, ServerInv
  <2>3. written = 1 + setupDone
    BY <2>2 DEF Amount
  <2>4. Queued' /\ written' = written + n /\ clientOffset' = clientOffset
    <3>1. CASE n = 0
      BY <1>1, <2>1, <3>1 DEF streamVars, vars, serverVars, clientVars, Queued
    <3>2. CASE n # 0
      <4> DEFINE s == [i \in 1 .. n |-> "setup"]
      <4>1. n > 0 /\ n \in Nat
        BY <3>2, <1>1, SMT
      <4>2. s \in Seq(Kinds) /\ Len(s) = n /\ \A i \in 1 .. n : s[i] = "setup"
        BY <4>1, SMT DEF Kinds
      <4>3. \A i \in 1 .. n : Kind(written + i) = "setup"
        BY <1>1, <2>1, <2>3, <4>1, SMT DEF Kind
      <4>4. QueueMessage(n) /\ content' = content \o s
        BY <2>1, <4>1
      <4> HIDE DEF s
      <4>5. \A i \in 1 .. Len(s) : s[i] = Kind(written + i)
        BY <4>2, <4>3
      <4> QED BY <1>3, <4>2, <4>4, <4>5, QueuedGoesOn DEF ConnInv
    <3> QED BY <3>1, <3>2
  <2>5. Amount'
    <3>1. written' = 1 + setupDone'
      BY <1>1, <2>1, <2>3, <2>4, SMT
    <3> QED BY <2>2, <3>1 DEF Amount
  <2> QED BY <1>2, <2>2, <2>4, <2>5
<1>6. ASSUME QueueInfo PROVE Queued' /\ Amount' /\ InPhase' /\ Heard'
  <2>1. /\ QueueMessage(Len(<<"info">>)) /\ content' = content \o <<"info">>
        /\ connState \in {"READY", "PLAYING"} /\ turn' = turn /\ turn = "wait"
        /\ UNCHANGED <<stateVars, setupDone, toServer, toClient, clientState>>
    BY <1>6 DEF QueueInfo, Queue
  <2>2. written >= SetupSize + 2
    BY <2>1 DEF Amount
  <2>3. <<"info">> \in Seq(Kinds) /\ Len(<<"info">>) = 1 /\ <<"info">>[1] = "info"
    BY SMT DEF Kinds
  <2>4. \A i \in 1 .. 1 : <<"info">>[i] = Kind(written + i)
    <3>1. Kind(written + 1) = "info"
      BY <1>1, <2>2, SMT DEF Kind
    <3> QED BY <2>3, <3>1
  <2>5. Queued' /\ written' = written + 1
    BY <2>1, <2>3, <2>4, QueuedGoesOn DEF ConnInv
  <2>6. Amount'
    <3>1. written' >= SetupSize + 2
      BY <1>1, <2>2, <2>5, SMT
    <3> QED BY <2>1, <3>1 DEF Amount, stateVars
  <2> QED BY <1>2, <1>3, <2>1, <2>5, <2>6 DEF stateVars
<1>7. ASSUME NEW dup \in Copies, ReceivePlay(dup) PROVE Queued' /\ Amount' /\ InPhase' /\ Heard'
  <2>1. /\ QueueMessage(Len(LoginMessages)) /\ content' = content \o LoginMessages
        /\ connState = "LOGIN" /\ connState' = "READY"
        /\ "PLAY" \in toServer /\ toServer' \subseteq toServer
        /\ UNCHANGED <<setupDone, turn, toClient, clientState>>
    BY <1>7 DEF ReceivePlay, Queue, Take
  <2>2. written = SetupSize + 1
    BY <1>1, <2>1, SMT DEF Amount, ConnInv, ServerInv
  <2>3. /\ LoginMessages \in Seq(Kinds) /\ Len(LoginMessages) = 2
        /\ LoginMessages[1] = "reply" /\ LoginMessages[2] = "info"
    BY SMT DEF Kinds, LoginMessages
  <2>4. Kind(written + 1) = "reply" /\ Kind(written + 2) = "info"
    BY <1>1, <2>2, SMT DEF Kind
  <2>5. \A i \in 1 .. Len(LoginMessages) : LoginMessages[i] = Kind(written + i)
    <3>1. \A i \in 1 .. 2 : i = 1 \/ i = 2
      BY SMT
    <3> QED BY <2>3, <2>4, <3>1
  <2>6. Queued' /\ written' = written + 2
    BY <2>1, <2>3, <2>5, QueuedGoesOn DEF ConnInv
  <2>7. Amount'
    <3>1. written' >= SetupSize + 2
      BY <1>1, <2>2, <2>6, SMT
    <3> QED BY <2>1, <3>1 DEF Amount
  <2>8. clientOffset > SetupSize /\ clientOffset' = clientOffset
    BY <1>3, <2>1 DEF Heard
  <2> QED BY <2>1, <2>6, <2>7, <2>8 DEF InPhase, Phase, Heard

<1>8. ASSUME NEW k \in 0 .. MaxStream, Confirm(k) PROVE Queued' /\ Amount' /\ InPhase' /\ Heard'
  <2>1. /\ turn = "confirm" /\ turn' = "wait" /\ connState = "LISTENING" /\ setupDone = 0
        /\ UNCHANGED <<content, written, setupDone, clientOffset, clientState, toServer>>
    BY <1>8 DEF Confirm, SendReliable, queueVars, clientVars, ConnInv, ServerInv
  <2>2. Queued' /\ written = 1
    BY <2>1 DEF Queued, Amount
  <2>3. CASE k > 0
    <3>1. connState' = "DRAIN" /\ UNCHANGED <<player, toClient>>
      BY <1>8, <2>3 DEF Confirm
    <3>2. written' = 1 + setupDone'
      BY <2>1, <2>2, SMT
    <3> QED BY <1>2, <2>1, <2>2, <3>1, <3>2 DEF Amount
  <2>4. CASE ~(k > 0)
    <3>1. Destroy
      BY <1>8, <2>4 DEF Confirm
    <3> QED BY <2>1, <2>2, <3>1 DEF Destroy, Amount, InPhase, Phase, Heard
  <2> QED BY <2>3, <2>4
<1>9. ASSUME NEW rel \in ackNet, NEW dup \in Copies, ConnReceiveAck(rel, dup)
      PROVE  Queued' /\ Amount' /\ InPhase' /\ Heard'
  <2>1. /\ ReceiveAck(rel, dup) /\ turn = "wait" /\ connState \notin {"FREE", "LISTENING"}
        /\ UNCHANGED <<content, setupDone, turn, toServer, clientState>>
        /\ UNCHANGED <<written, clientOffset>>
    BY <1>9 DEF ConnReceiveAck, ReceiveAck, queueVars, clientVars
  <2>2. Queued'
    BY <2>1 DEF Queued
  <2>3. CASE badAck'
    <3>1. Destroy
      BY <1>9, <2>3 DEF ConnReceiveAck
    <3> QED BY <2>1, <2>2, <3>1 DEF Destroy, Amount, InPhase, Phase, Heard
  <2>4. CASE ~badAck'
    <3>1. /\ UNCHANGED <<drainState, player, toClient>>
          /\ \/ connState' = connState
             \/ /\ connState = "DRAIN" /\ ~AckIsOld(rel)
                /\ connState' = drainState
             \/ connState = "READY" /\ connState' = drainState
      BY <1>9, <2>4 DEF ConnReceiveAck
    <3>2. CASE connState' = connState
      BY <1>2, <2>1, <2>2, <3>1, <3>2 DEF Amount
    <3>3. CASE connState = "DRAIN" /\ ~AckIsOld(rel) /\ connState' = drainState
      <4>1. connState' \in {"SETUP", "LOGIN"}
        BY <3>3 DEF ConnInv, ServerInv
      <4>2. clientOffset > 0
        <5>1. rel <= clientOffset /\ rel \in Int /\ reliableOffset \in Nat
          BY StreamAssumption, SMT DEF ConnInv, Inv, TypeOK, Positions
        <5> QED BY <1>1, <3>3, <5>1, SMT DEF AckIsOld
      <4>3. Amount'
        BY <2>1, <3>3, <4>1 DEF Amount
      <4> QED BY <2>1, <2>2, <3>1, <4>2, <4>3 DEF InPhase, Phase, Heard
    <3>4. CASE connState = "READY" /\ connState' = drainState
      <4>1. connState' = "PLAYING"
        BY <3>4 DEF ConnInv, ServerInv
      <4>2. Amount'
        BY <2>1, <3>4, <4>1 DEF Amount
      <4> QED BY <1>2, <2>1, <2>2, <3>1, <4>1, <4>2
    <3> QED BY <3>1, <3>2, <3>3, <3>4
  <2> QED BY <2>3, <2>4
<1>10. ASSUME \/ \E f \in 1 .. MaxFrame, k \in 0 .. MaxStream : FrameWithData(f, k)
              \/ \E f \in 1 .. MaxFrame : FrameAlone(f)
       PROVE  Queued' /\ Amount' /\ InPhase' /\ Heard'
  <2>1. /\ connState = "PLAYING" /\ turn = "send" /\ turn' = "wait"
        /\ UNCHANGED <<connState, player, setupDone, content, toServer, clientState>>
    BY <1>10 DEF FrameWithData, FrameAlone, stateVars, queueVars
  <2>2. UNCHANGED <<written, clientOffset>>
    BY <1>10 DEF FrameWithData, FrameAlone, SendReliable, streamVars, vars, serverVars, clientVars
  <2>3. player /\ clientOffset > SetupSize
    BY <2>1 DEF ConnInv, ServerInv, Heard
  <2> QED BY <2>1, <2>2, <2>3 DEF Queued, Amount, InPhase, Phase, Heard
<1>11. ASSUME \/ \E m \in toServer, dup \in Copies : ReceiveIgnored(m, dup)
              \/ \E expire \in BOOLEAN : Turn(expire)
              \/ \E k \in 0 .. MaxStream : InputSend(k)
              \/ InputIdle
              \/ \E dup \in Copies, k \in 0 .. MaxStream : ReceivePlayAgain(dup, k)
       PROVE  Quiet
  <2>1. CASE \E m \in toServer, dup \in Copies : ReceiveIgnored(m, dup)
    BY <2>1 DEF ReceiveIgnored, Take, Quiet, streamVars, vars, serverVars, clientVars,
                stateVars, queueVars
  <2>2. CASE \E expire \in BOOLEAN : Turn(expire)
    BY <2>2 DEF Turn, MainLoop, Quiet, clientVars, stateVars, queueVars
  <2>3. CASE (\E k \in 0 .. MaxStream : InputSend(k)) \/ InputIdle
    BY <2>3 DEF InputSend, InputIdle, SendReliable, Quiet, streamVars, vars, serverVars,
                clientVars, stateVars, queueVars
  <2>4. CASE \E dup \in Copies, k \in 0 .. MaxStream : ReceivePlayAgain(dup, k)
    BY <2>4 DEF ReceivePlayAgain, Take, SendReliable, SendNothing, Quiet, streamVars, vars,
                serverVars, clientVars, stateVars, queueVars
  <2> QED BY <1>11, <2>1, <2>2, <2>3, <2>4
<1> QED
  BY <1>4, <1>5, <1>6, <1>7, <1>8, <1>9, <1>10, <1>11, QuietKeeps DEF ServerStep

LEMMA LoginNextInv == LoginInv /\ [ConnNext]_allVars => LoginInv'
<1> SUFFICES ASSUME LoginInv, [ConnNext]_allVars
             PROVE  Queued' /\ Amount' /\ InPhase' /\ Heard'
  BY ConnNextInv DEF LoginInv
<1>1. ConnInv' /\ Inv'
  BY ConnNextInv DEF LoginInv, ConnInv
<1>2. /\ SetupSize \in Nat /\ SetupSize > 1 /\ clientOffset \in Nat /\ clientOffset' \in Nat
  BY <1>1, ConnectionAssumption, StreamAssumption, SMT DEF LoginInv, ConnInv, Inv, TypeOK
<1>3. CASE ServerStep
  BY <1>1, <1>3, ServerQueues
<1>4. CASE ClientStep
  <2>1. ASSUME NEW p \in dataNet, NEW dup \in Copies, ClientReceiveReliable(p, dup)
        PROVE  Queued' /\ Amount' /\ InPhase' /\ Heard'
    <3>1. dup \in BOOLEAN
      BY ConnectionAssumption
    <3>2. InPhase' /\ clientOffset <= clientOffset'
      BY <1>1, <2>1, <3>1, ReadsOn
    <3>3. UNCHANGED <<content, written, connState, setupDone, player, turn, toServer, toClient>>
      BY <2>1 DEF ClientReceiveReliable, ReceiveReliable, serverVars, stateVars, queueVars
    <3>4. /\ clientOffset > 0 => clientOffset' > 0
          /\ clientOffset > SetupSize => clientOffset' > SetupSize
      BY <1>2, <3>2, SMT
    <3> QED BY <3>2, <3>3, <3>4 DEF LoginInv, Queued, Amount, Heard
  <2>2. CASE ClientVerify
    <3>1. Quiet
      BY <2>2 DEF ClientVerify, Quiet, streamVars, vars, serverVars, clientVars, stateVars,
                  queueVars
    <3> QED BY <3>1, QuietKeeps
  <2>3. CASE ClientPlay
    <3>1. clientOffset > SetupSize
      BY <1>2, <2>3, SMT DEF ClientPlay, LoginInv, InPhase, Phase
    <3> QED BY <2>3, <3>1 DEF ClientPlay, streamVars, vars, serverVars, clientVars,
                stateVars, queueVars, LoginInv, Queued, Amount, InPhase, Phase, Heard
  <2>4. ASSUME NEW dup \in Copies, ClientReceiveFrame(dup)
        PROVE  Queued' /\ Amount' /\ InPhase' /\ Heard'
    <3>1. clientOffset > SetupSize
      BY <2>4 DEF ClientReceiveFrame, LoginInv, Heard
    <3>2. clientState \notin {"verify", "setup"}
      BY <1>2, <3>1, SMT DEF LoginInv, InPhase, Phase
    <3>3. Quiet
      BY <2>4, <3>2 DEF ClientReceiveFrame, Quiet, streamVars, vars, serverVars, clientVars,
                stateVars, queueVars
    <3> QED BY <3>3, QuietKeeps
  <2> QED BY <1>4, <2>1, <2>2, <2>3, <2>4 DEF ClientStep
<1>5. CASE NetworkStep
  <2>1. Quiet
    BY <1>5 DEF NetworkStep, ConnLoseData, ConnLoseAck, LosePacket, LoseData, LoseAck, Quiet,
       connVars, streamVars, vars, serverVars, clientVars, stateVars, queueVars
  <2> QED BY <2>1, QuietKeeps
<1>6. CASE GiveUp
  <2>1. ASSUME \/ \E dup \in Copies : ReceiveQuit(dup)
               \/ \E dup \in Copies : RefusePlay(dup)
               \/ Timeout
        PROVE  Queued' /\ Amount' /\ InPhase' /\ Heard'
    BY <2>1, DestroyKeeps DEF ReceiveQuit, RefusePlay, Timeout, Take
  <2>2. CASE ClientLeave
    BY <2>2 DEF ClientLeave, streamVars, vars, serverVars, clientVars, stateVars, queueVars,
       LoginInv, Queued, Amount, InPhase, Heard
  <2> QED BY <1>6, <2>1, <2>2 DEF GiveUp
<1>7. CASE UNCHANGED allVars
  <2>1. Quiet
    BY <1>7 DEF allVars, Quiet, connVars, streamVars, vars, serverVars, clientVars, stateVars,
                queueVars
  <2> QED BY <2>1, QuietKeeps
<1> QED BY <1>3, <1>4, <1>5, <1>6, <1>7 DEF ConnNext

\* The client's phase is the one its position in the stream calls for, and the
\* server never takes it to be further.
LEMMA LoginAgrees == LoginInv => Agreement /\ ClientNeverConfused
<1> SUFFICES ASSUME LoginInv PROVE Agreement /\ ClientNeverConfused
  OBVIOUS
<1>1. /\ SetupSize \in Nat /\ SetupSize > 1 /\ clientOffset \in Nat /\ written \in Nat
      /\ setupDone \in 0 .. SetupSize /\ connState \in ConnStates
  BY ConnectionAssumption, StreamAssumption, SMT
     DEF LoginInv, ConnInv, ServerInv, Inv, TypeOK
<1>2. clientOffset <= written
  <2>1. /\ clientOffset <= reliableUnsent /\ reliableUnsent <= written
        /\ reliableUnsent \in Int
    BY StreamAssumption, SMT DEF LoginInv, ConnInv, Inv, TypeOK, Positions
  <2> QED BY <1>1, <2>1, SMT
<1>3. ClientNeverConfused
  BY DEF LoginInv, InPhase, Phase, ClientNeverConfused
<1>4. clientState = "play" => player \/ connState = "FREE"
  <2> SUFFICES ASSUME clientState = "play", connState # "FREE" PROVE player
    OBVIOUS
  <2>1. clientOffset >= SetupSize + 2
    <3>1. Phase(clientOffset) = "play"
      BY DEF LoginInv, InPhase
    <3> QED BY <1>1, <3>1, SMT DEF Phase
  <2>2. written > 1 + setupDone /\ written > 1
    BY <1>1, <1>2, <2>1, SMT
  <2>3. connState # "LISTENING"
    <3>1. connState = "LISTENING" => written \in {0, 1}
      BY DEF LoginInv, Amount
    <3> QED BY <2>2, <3>1, SMT
  <2>4. connState \notin {"DRAIN", "SETUP", "LOGIN"}
    <3>1. written # 1 + setupDone
      BY <1>1, <2>2, SMT
    <3> QED BY <3>1 DEF LoginInv, Amount
  <2> QED BY <1>1, <2>3, <2>4 DEF ConnStates, LoginInv, ConnInv, ServerInv
<1> QED BY <1>3, <1>4 DEF Agreement, LoginInv, ConnInv, ServerInv, Heard

-----------------------------------------------------------------------------

\* Whatever is lost, repeated, late or cut at any byte, and however large the
\* set-up data is, the client never finds in its stream or among its packets
\* what the phase of its login does not expect (Net_verify, Net_setup,
\* Net_start).
THEOREM ClientNeverLost == ConnSpec => []ClientNeverConfused
<1>1. LoginInv => ClientNeverConfused
  BY LoginAgrees
<1> QED BY <1>1, LoginInitInv, LoginNextInv, PTL DEF ConnSpec

\* In every state of every login the server takes the client to be no further
\* than it is, and a playing client has a player or was thrown out
\* (Handle_listening, Handle_setup, Handle_login, Receive_ack).
THEOREM SidesAgree == ConnSpec => []Agreement
<1>1. LoginInv => Agreement
  BY LoginAgrees
<1> QED BY <1>1, LoginInitInv, LoginNextInv, PTL DEF ConnSpec

-----------------------------------------------------------------------------
(* The timer of the stream.                                                *)
(*                                                                         *)
(* ReliableStream leaves open how long it runs.  Its estimator and its     *)
(* back-off stay in their ranges: the steps are monotonic, eight times the *)
(* longest round trip is a fixed point of the smoothing, and four times    *)
(* the greatest error one of the deviation.  The longest round trip is one *)
(* of the highest frame rate so far, which only grows.                     *)

VARIABLES FPS, top, rtt_smoothed, rtt_dev, rtt_retransmit,
          countdown     \* the timer of RetransmitTimer, in loops

RTO == INSTANCE RetransmitTimer WITH timer <- countdown

TimerInv ==
    /\ FPS \in 1 .. RTO!MAX_SERVER_FPS /\ top \in FPS .. RTO!MAX_SERVER_FPS
    /\ rtt_smoothed \in Int /\ rtt_dev \in Int /\ rtt_retransmit \in Int /\ countdown \in Int
    /\ RTO!EstimateInRange /\ RTO!BackoffInRange

\* An eighth of the error is added: between the two, whatever is measured.
LEMMA Smoothing ==
    ASSUME NEW M \in Nat, NEW s \in 8 .. 8 * M, NEW rtt \in 1 .. M
    PROVE  /\ s + (rtt - s \div 8) \in 8 .. 8 * M
           /\ rtt - s \div 8 <= M - 1 /\ s \div 8 - rtt <= M - 1
<1>1. PICK q \in Int : s \div 8 = q
  OBVIOUS
<1>2. 8 * q <= s /\ s <= 8 * q + 7
  BY <1>1
<1>3. q >= 1 /\ q <= M
  BY <1>2
<1>4. s + (rtt - q) >= 8 /\ s + (rtt - q) <= 8 * M
  BY <1>2, <1>3
<1> QED BY <1>1, <1>3, <1>4

\* A quarter of the deviation gives way to the error.
LEMMA Deviation ==
    ASSUME NEW E \in Nat, NEW d \in 0 .. 4 * E, NEW error \in 0 .. E
    PROVE  d + error - d \div 4 \in 0 .. 4 * E
<1>1. PICK q \in Int : d \div 4 = q
  OBVIOUS
<1>2. 4 * q <= d /\ d <= 4 * q + 3
  BY <1>1
<1>3. d + error - q >= 0 /\ d + error - q <= 4 * E
  BY <1>2
<1> QED BY <1>1, <1>3

\* The time-out made of the two.
LEMMA TimeoutMade ==
    ASSUME NEW M \in Nat \ {0}, NEW s \in 8 .. 8 * M, NEW d \in 0 .. 4 * (M - 1)
    PROVE  (s \div 4 + d) \div 2 \in 0 .. 3 * M
<1>1. PICK q \in Int : s \div 4 = q
  OBVIOUS
<1>2. 4 * q <= s /\ s <= 4 * q + 3
  BY <1>1
<1>3. PICK h \in Int : (q + d) \div 2 = h
  OBVIOUS
<1>4. 2 * h <= q + d /\ q + d <= 2 * h + 1
  BY <1>3
<1>5. h >= 0 /\ h <= 3 * M
  BY <1>2, <1>4
<1> QED BY <1>1, <1>3, <1>5

LEMMA TimerInitInv == RTO!Init => TimerInv
BY DEF RTO!Init, TimerInv, RTO!EstimateInRange, RTO!BackoffInRange,
       RTO!DEFAULT_RETRANSMIT, RTO!MAX_SERVER_FPS, RTO!LongestRtt

LEMMA AckInv ==
    ASSUME TimerInv, NEW rtt \in 1 .. RTO!MAX_SERVER_FPS + 1, RTO!Receive_ack(rtt)
    PROVE  TimerInv'
<1> DEFINE before == IF rtt_smoothed = 0 THEN 8 * rtt ELSE rtt_smoothed
           delta == rtt - before \div 8
           error == IF delta < 0 THEN -delta ELSE delta
           timeout == (rtt_smoothed' \div 4 + rtt_dev') \div 2
           M == RTO!LongestRtt
<1>1. M \in Nat \ {0} /\ rtt \in 1 .. M
  <2>1. RTO!Receive_ack(rtt) => rtt <= RTO!MAX_RTT
    BY DEF RTO!Receive_ack
  <2> QED BY <2>1 DEF TimerInv, RTO!LongestRtt, RTO!MAX_RTT, RTO!MAX_SERVER_FPS
<1>2. /\ rtt_smoothed' = before + delta
      /\ rtt_dev' = rtt_dev + error - rtt_dev \div 4
      /\ rtt_retransmit' = IF timeout < RTO!MIN_RETRANSMIT THEN RTO!MIN_RETRANSMIT ELSE timeout
      /\ countdown' \in {0, countdown} /\ FPS' = FPS /\ top' = top
  BY DEF RTO!Receive_ack, RTO!StopTimer
<1>3. before \in 8 .. 8 * M
  BY <1>1 DEF TimerInv, RTO!EstimateInRange
<1> HIDE DEF before, M
<1>4. rtt_smoothed' \in 8 .. 8 * M /\ delta \in Int /\ delta <= M - 1 /\ -delta <= M - 1
  BY <1>1, <1>2, <1>3, Smoothing
<1>5. M - 1 \in Nat /\ rtt_dev \in 0 .. 4 * (M - 1)
  BY <1>1 DEF TimerInv, RTO!EstimateInRange, M
<1>6. error \in 0 .. (M - 1)
  BY <1>4, <1>5
<1> HIDE DEF delta, error
<1>7. rtt_dev' \in 0 .. 4 * (M - 1)
  BY <1>2, <1>5, <1>6, Deviation
<1>8. timeout \in 0 .. 3 * M
  BY <1>1, <1>4, <1>7, TimeoutMade
<1>9. RTO!MIN_RETRANSMIT \in 1 .. 3 * M
  <2>1. FPS \in Int /\ 1 <= FPS /\ FPS <= M
    BY DEF TimerInv, RTO!LongestRtt, M, RTO!MAX_SERVER_FPS
  <2>2. FPS \div 8 \in 0 .. M
    BY <1>1, <2>1
  <2> QED BY <1>1, <2>2 DEF RTO!MIN_RETRANSMIT
<1> HIDE DEF timeout
<1>10. rtt_retransmit' \in 1 .. 3 * M
  BY <1>1, <1>2, <1>8, <1>9
<1>11. countdown' \in 0 .. M
  BY <1>1, <1>2 DEF TimerInv, RTO!BackoffInRange, M
<1>12. RTO!LongestRtt' = M
  BY <1>2 DEF M, RTO!LongestRtt
<1>13. RTO!EstimateInRange' /\ RTO!BackoffInRange'
  BY <1>1, <1>4, <1>7, <1>10, <1>11, <1>12 DEF RTO!EstimateInRange, RTO!BackoffInRange
<1>14. /\ rtt_smoothed' \in Int /\ rtt_dev' \in Int /\ rtt_retransmit' \in Int
       /\ countdown' \in Int
  BY <1>1, <1>4, <1>5, <1>7, <1>10, <1>11
<1> QED BY <1>2, <1>13, <1>14 DEF TimerInv

\* With a higher rate there is more room.
LEMMA RateInv ==
    ASSUME TimerInv, NEW rate \in 1 .. RTO!MAX_SERVER_FPS, RTO!Timing_setup(rate)
    PROVE  TimerInv'
<1>1. /\ FPS \in Int /\ top \in Int /\ 1 <= FPS /\ FPS <= top /\ top <= RTO!MAX_SERVER_FPS
      /\ RTO!MAX_SERVER_FPS \in Int
  BY DEF TimerInv, RTO!MAX_SERVER_FPS
<1>2. /\ FPS' = rate /\ top' = (IF rate > top THEN rate ELSE top)
      /\ rtt_smoothed' = rtt_smoothed /\ rtt_dev' = rtt_dev
      /\ rtt_retransmit' = rtt_retransmit /\ countdown' = countdown
  BY DEF RTO!Timing_setup
<1>3. top' \in FPS' .. RTO!MAX_SERVER_FPS /\ top' \in Int /\ top <= top'
  BY <1>1, <1>2
<1>4. RTO!EstimateInRange'
  BY <1>1, <1>2, <1>3 DEF TimerInv, RTO!EstimateInRange, RTO!LongestRtt
<1>5. RTO!BackoffInRange'
  BY <1>1, <1>2, <1>3 DEF TimerInv, RTO!BackoffInRange, RTO!LongestRtt
<1> QED BY <1>1, <1>2, <1>3, <1>4, <1>5 DEF TimerInv

LEMMA TimerStepInv == TimerInv /\ [RTO!Next]_(RTO!vars) => TimerInv'
<1> SUFFICES ASSUME TimerInv, [RTO!Next]_(RTO!vars) PROVE TimerInv'
  OBVIOUS
<1> USE DEF TimerInv, RTO!EstimateInRange, RTO!BackoffInRange, RTO!LongestRtt, RTO!MAX_SERVER_FPS
<1>1. CASE RTO!Main_loop
  BY <1>1 DEF RTO!Main_loop
<1>2. CASE RTO!Send_reliable
  <2> DEFINE wait == IF rtt_retransmit > RTO!MAX_RETRANSMIT THEN RTO!MAX_RETRANSMIT
                     ELSE rtt_retransmit
  <2>1. /\ countdown' = wait /\ rtt_retransmit' = IF countdown = 0 THEN 2 * wait ELSE wait
        /\ UNCHANGED <<FPS, top, rtt_smoothed, rtt_dev>>
    BY <1>2 DEF RTO!Send_reliable
  <2>2. wait \in 0 .. RTO!LongestRtt /\ (rtt_smoothed # 0 => wait > 0)
    BY DEF RTO!MAX_RETRANSMIT
  <2> HIDE DEF wait
  <2>3. /\ rtt_retransmit' \in 0 .. 2 * RTO!LongestRtt /\ countdown' \in 0 .. RTO!LongestRtt
        /\ rtt_smoothed # 0 => rtt_retransmit' > 0
    BY <2>1, <2>2
  <2>4. RTO!EstimateInRange'
    BY <2>1
  <2>5. RTO!BackoffInRange'
    BY <2>1, <2>3
  <2> QED BY <2>1, <2>3, <2>4, <2>5
<1>3. CASE RTO!Receive_odd_ack
  BY <1>3, SMTT(40) DEF RTO!Receive_odd_ack, RTO!StopTimer
<1>4. ASSUME NEW rtt \in 1 .. RTO!MAX_SERVER_FPS + 1, RTO!Receive_ack(rtt) PROVE TimerInv'
  BY <1>4, AckInv
<1>5. ASSUME NEW rate \in 1 .. RTO!MAX_SERVER_FPS, RTO!Timing_setup(rate) PROVE TimerInv'
  BY <1>5, RateInv
<1>6. CASE UNCHANGED RTO!vars
  BY <1>6 DEF RTO!vars
<1> QED BY <1>1, <1>2, <1>3, <1>4, <1>5, <1>6, ZenonT(60) DEF RTO!Next

\* However late, repeated or odd the acknowledgements, and however the operator
\* changes the frame rate, the integer estimates of the round trip time neither
\* drift beyond what one measurement can be, at the highest rate so far, nor go
\* negative (netserver.c:2366).
THEOREM EstimatesBounded == RTO!Spec => []RTO!EstimateInRange
<1>1. TimerInv => RTO!EstimateInRange
  BY DEF TimerInv
<1> QED BY <1>1, TimerInitInv, TimerStepInv, PTL DEF RTO!Spec

\* The back-off is capped and does not get stuck at zero once a round trip was
\* measured, and no running timer is further away than one second and a loop of
\* the highest frame rate so far, which is the only one where nobody changes it:
\* this is why it expires in ReliableStream (netserver.c:2333).
THEOREM BackoffBounded == RTO!Spec => []RTO!BackoffInRange
<1>1. TimerInv => RTO!BackoffInRange
  BY DEF TimerInv
<1> QED BY <1>1, TimerInitInv, TimerStepInv, PTL DEF RTO!Spec
=============================================================================

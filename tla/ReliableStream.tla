--------------------------- MODULE ReliableStream ---------------------------
(***************************************************************************)
(* The reliable byte stream from the server to one client over UDP:        *)
(* Send_reliable() and Receive_ack() of server/netserver.c, and            *)
(* Receive_reliable() and Send_ack() of client/netclient.c.                *)
(*                                                                         *)
(* The server keeps the bytes that are not acknowledged yet in connp->c    *)
(* and sends them in packets of at most MaxPacket bytes, at most once per  *)
(* main loop, appended to a frame update if there is one.  A packet names  *)
(* the position of its first byte, an acknowledgement the position of the  *)
(* first byte the client has not got.  The network loses, duplicates and   *)
(* reorders both.                                                          *)
(*                                                                         *)
(* A byte is represented by its number in the stream.  The value of the    *)
(* retransmission timeout is abstracted: a running   *)
(* timer expires at any later main loop.                                   *)
(***************************************************************************)
EXTENDS Integers, Sequences, FiniteSets

CONSTANTS MaxPacket,         \* MAX_RELIABLE_DATA_PACKET_SIZE
          AckUnit,           \* the 512 of Receive_ack()
          QueueSize,         \* the size of the socket buffer connp->c
          MaxStream,         \* bound: bytes queued during a connection
          MaxMessage,        \* bound: bytes queued by one call
          MaxFrame,          \* bound: bytes of a frame update
          NetCapacity        \* bound: packets under way in each direction

ASSUME StreamAssumption ==
    /\ MaxPacket \in Nat \ {0}
    /\ AckUnit \in Nat \ {0}
    /\ QueueSize \in Nat
    /\ MaxStream \in Nat
    /\ MaxMessage \in Nat
    /\ MaxFrame \in Nat
    /\ NetCapacity \in Nat

MinSend == 1                 \* min_send_size of Send_reliable()

VARIABLES written,           \* bytes the server has queued so far
          c,                 \* connp->c, the bytes not acknowledged
          reliableOffset,    \* connp->reliable_offset, the number of bytes before c
          reliableUnsent,    \* connp->reliable_unsent, the end of what was sent
          timer,             \* connp->retransmit_at_loop against main_loops
          sentThisLoop,      \* connp->last_send_loops = main_loops
          acks,              \* connp->acks, the send window less one
          badAck,            \* Destroy_connection(connp, "bad ack")
          dataNet,           \* PKT_RELIABLE packets under way
          ackNet,            \* PKT_ACK packets under way
          clientOffset,      \* reliable_offset of the client
          delivered          \* what was appended to the client's cbuf

serverVars == <<written, c, reliableOffset, reliableUnsent, timer, sentThisLoop,
                acks, badAck>>
clientVars == <<clientOffset, delivered>>
vars == <<serverVars, clientVars, dataNet, ackNet>>

\* retransmit_at_loop = 0, > main_loops, and <= main_loops.
TimerState == {"off", "running", "expired"}

Lesser(a, b) == IF a < b THEN a ELSE b
Greater(a, b) == IF a > b THEN a ELSE b
CeilDiv(a, b) == (a + b - 1) \div b

Packets == [rel : 0 .. MaxStream, bytes : Seq(1 .. MaxStream)]

Init == /\ written = 0
        /\ c = <<>>
        /\ reliableOffset = 0
        /\ reliableUnsent = 0
        /\ timer = "off"
        /\ sentThisLoop = FALSE
        /\ acks = 0
        /\ badAck = FALSE
        /\ dataNet = {} /\ ackNet = {}
        /\ clientOffset = 0
        /\ delivered = <<>>

-----------------------------------------------------------------------------
(* The server.                                                             *)

\* A message of n bytes is queued, whole or, when the buffer is full, not at
\* all: Packet_printf() and Sockbuf_write() on a locked socket buffer.
QueueMessage(n) ==
    /\ ~badAck
    /\ written + n <= MaxStream
    /\ Len(c) + n <= QueueSize
    /\ c' = c \o [i \in 1 .. n |-> written + i]
    /\ written' = written + n
    /\ UNCHANGED <<reliableOffset, reliableUnsent, timer, sentThisLoop, acks,
                   badAck, clientVars, dataNet, ackNet>>

\* What fits behind a frame update of f bytes (max_todo).
Room(f) == IF f = 0 THEN Len(c) ELSE Lesser(Len(c), MaxPacket - f)

\* Mutant: what was sent once is never sent again.
MaySendNew(f) ==
    /\ Len(c) > 0
    /\ ~sentThisLoop
    /\ Room(f) > reliableUnsent - reliableOffset

\* The early returns of Send_reliable(): nothing to send, a frame update that
\* leaves no room, or a running timer and nothing new to add to a frame.
MaySend(f) ==
    /\ Len(c) > 0
    /\ ~sentThisLoop
    /\ f > 0 => f < MaxPacket - MinSend
    /\ timer = "running" =>
         /\ f > 0
         /\ Room(f) > reliableUnsent - reliableOffset + MinSend

\* On a timeout the window is halved.
Window == 1 + IF timer = "expired" THEN acks \div 2 ELSE acks

\* The i-th packet of a burst, i counted from 0.
BurstPacket(f, i) ==
    LET first == i * MaxPacket
        len   == Lesser(MaxPacket, Room(f) - first)
    IN  [rel |-> reliableOffset + first, bytes |-> SubSeq(c, first + 1, first + len)]

NumPackets(f) == Lesser(Window, CeilDiv(Room(f), MaxPacket))

\* Mutant: the end of the last burst, even if an earlier one reached further.
EndOfSent(end) == end

\* The end of what was sent so far, after a burst up to end.
NewUnsent(end) == Greater(reliableUnsent, end)

\* Send_reliable() with a frame update of f bytes in the packet.  The socket
\* takes k packets of the burst, fewer than all of them when it would block.
SendReliable(f, k) ==
    /\ ~badAck
    /\ MaySend(f)
    /\ k \in 0 .. NumPackets(f)
    /\ LET sent == {BurstPacket(f, i) : i \in 0 .. k - 1}
           end  == reliableOffset + Lesser(k * MaxPacket, Room(f))
       IN  /\ Cardinality(dataNet \cup sent) <= NetCapacity
           /\ dataNet' = dataNet \cup sent
           /\ timer' = IF k > 0 THEN "running" ELSE timer
           /\ reliableUnsent' = IF k > 0 THEN NewUnsent(end) ELSE reliableUnsent
    /\ acks' = IF k < NumPackets(f) THEN 0 ELSE Window - 1
    /\ sentThisLoop' = TRUE
    /\ UNCHANGED <<written, c, reliableOffset, badAck, clientVars, ackNet>>

\* Send_reliable() with nothing queued: nothing more is sent in this loop.
SendNothing ==
    /\ ~badAck
    /\ Len(c) = 0 /\ ~sentThisLoop
    /\ sentThisLoop' = TRUE
    /\ UNCHANGED <<written, c, reliableOffset, reliableUnsent, timer, acks,
                   badAck, clientVars, dataNet, ackNet>>

\* Another main loop: main_loops is incremented, a running timer may expire.
MainLoop(expire) ==
    /\ ~badAck
    /\ sentThisLoop' = FALSE
    /\ timer' = IF expire /\ timer = "running" THEN "expired" ELSE timer
    /\ UNCHANGED <<written, c, reliableOffset, reliableUnsent, acks, badAck,
                   clientVars, dataNet, ackNet>>

\* Mutant: an acknowledgement of the whole buffer is refused.
AckReachesEnd(rel) == rel - reliableOffset >= Len(c)

\* Receive_ack() of an acknowledgement of everything before rel; dup when the
\* network keeps a copy of the packet.
AckIsBad(rel) == rel - reliableOffset > Len(c)
AckIsOld(rel) == rel - reliableOffset <= 0
AckStopsTimer(rel) == rel >= reliableUnsent

ReceiveAck(rel, dup) ==
    /\ ~badAck
    /\ rel \in ackNet
    /\ ackNet' = IF dup THEN ackNet ELSE ackNet \ {rel}
    /\ \/ /\ AckIsBad(rel)
          /\ badAck' = TRUE
          /\ UNCHANGED <<c, reliableOffset, acks, timer>>
       \/ /\ ~AckIsBad(rel) /\ AckIsOld(rel)
          /\ UNCHANGED <<c, reliableOffset, acks, timer, badAck>>
       \/ /\ ~AckIsBad(rel) /\ ~AckIsOld(rel)
          /\ LET diff == rel - reliableOffset
             IN  /\ c' = SubSeq(c, diff + 1, Len(c))
                 /\ acks' = Greater(CeilDiv(diff, AckUnit), acks + 1)
          /\ reliableOffset' = rel
          /\ timer' = IF AckStopsTimer(rel) THEN "off" ELSE timer
          /\ UNCHANGED badAck
    /\ UNCHANGED <<written, reliableUnsent, sentThisLoop, clientVars, dataNet>>

-----------------------------------------------------------------------------
(* The client.                                                             *)

\* Send_ack(): the position of the client's stream.  It is lost at once when
\* the network is full.
SendAck(pos) ==
    ackNet' = IF Cardinality(ackNet \cup {pos}) <= NetCapacity
              THEN ackNet \cup {pos} ELSE ackNet

\* Mutant: the bytes of an overlapping packet are all taken.
AllBytes(p) == p.bytes

\* Receive_reliable(): a packet behind a gap is dropped, one with nothing new
\* too, and of one that overlaps only the new bytes are taken.  Each of them is
\* acknowledged with the client's position.  That cbuf may have no room for them,
\* after which the client gives up (netclient.c:2300), is left out: it is larger
\* than a packet, and all whole messages in it are worked off after each.
IsGap(p) == p.rel > clientOffset
IsDuplicate(p) == p.rel + Len(p.bytes) <= clientOffset
NewBytes(p) == SubSeq(p.bytes, clientOffset - p.rel + 1, Len(p.bytes))

ReceiveReliable(p, dup) ==
    /\ p \in dataNet
    /\ dataNet' = IF dup THEN dataNet ELSE dataNet \ {p}
    /\ IF IsGap(p) \/ IsDuplicate(p)
       THEN /\ UNCHANGED clientVars
            /\ SendAck(clientOffset)
       ELSE /\ delivered' = delivered \o NewBytes(p)
            /\ clientOffset' = clientOffset + Len(NewBytes(p))
            /\ SendAck(clientOffset + Len(NewBytes(p)))
    /\ UNCHANGED serverVars

-----------------------------------------------------------------------------
(* The network.                                                            *)

LoseData(p) == /\ p \in dataNet
               /\ dataNet' = dataNet \ {p}
               /\ UNCHANGED <<serverVars, clientVars, ackNet>>

LoseAck(rel) == /\ rel \in ackNet
                /\ ackNet' = ackNet \ {rel}
                /\ UNCHANGED <<serverVars, clientVars, dataNet>>

-----------------------------------------------------------------------------

Next == \/ \E n \in 1 .. MaxMessage : QueueMessage(n)
        \/ \E f \in 0 .. MaxFrame : \E k \in 0 .. MaxStream : SendReliable(f, k)
        \/ SendNothing
        \/ \E expire \in BOOLEAN : MainLoop(expire)
        \/ \E p \in dataNet, dup \in BOOLEAN : ReceiveReliable(p, dup)
        \/ \E rel \in ackNet, dup \in BOOLEAN : ReceiveAck(rel, dup)
        \/ \E p \in dataNet : LoseData(p)
        \/ \E rel \in ackNet : LoseAck(rel)

Spec == Init /\ [][Next]_vars

(***************************************************************************)
(* The main loop runs for ever and calls Send_reliable() in each turn;     *)
(* frames that leave room come again and the socket does not block for     *)
(* ever.  The network is lossy but fair: of the packets of one kind that   *)
(* are sent again and again some arrive.                                   *)
(***************************************************************************)
Fairness ==
    /\ WF_vars(MainLoop(TRUE))
    /\ SF_vars(\E f \in 0 .. MaxFrame : \E k \in 1 .. MaxStream : SendReliable(f, k))
    /\ SF_vars(\E p \in dataNet : /\ ~IsGap(p) /\ ~IsDuplicate(p)
                                  /\ ReceiveReliable(p, FALSE))
    /\ SF_vars(\E p \in dataNet : IsDuplicate(p) /\ ReceiveReliable(p, FALSE))
    /\ SF_vars(\E rel \in ackNet : ~AckIsOld(rel) /\ ReceiveAck(rel, FALSE))
    /\ WF_vars(\E p \in dataNet : ReceiveReliable(p, FALSE))
    /\ WF_vars(\E rel \in ackNet : ReceiveAck(rel, FALSE))

FairSpec == Spec /\ Fairness

-----------------------------------------------------------------------------

\* The ranges of the two sides' counters and of the packets under way.
TypeOK == /\ written \in 0 .. MaxStream
          /\ c \in Seq(1 .. MaxStream)
          /\ reliableOffset \in 0 .. MaxStream
          /\ reliableUnsent \in 0 .. MaxStream
          /\ timer \in TimerState
          /\ sentThisLoop \in BOOLEAN
          /\ acks \in Nat
          /\ badAck \in BOOLEAN
          /\ dataNet \subseteq Packets
          /\ ackNet \subseteq 0 .. MaxStream
          /\ clientOffset \in 0 .. MaxStream
          /\ delivered \in Seq(1 .. MaxStream)

\* Neither a lost nor a duplicated nor a late packet or acknowledgement makes
\* the server find an acknowledgement of data it never sent and throw the
\* client out ("bad ack" of Receive_ack()).
NoBadAck == ~badAck

\* The positions of the two sides and of every packet under way: what the
\* server has discarded was received, what was received was sent, and what was
\* sent is still buffered or was acknowledged.
Positions ==
    /\ reliableOffset <= clientOffset
    /\ clientOffset <= reliableUnsent
    /\ reliableUnsent <= reliableOffset + Len(c)
    /\ written = reliableOffset + Len(c)
    /\ \A rel \in ackNet : rel <= clientOffset
    /\ \A p \in dataNet : Len(p.bytes) > 0 /\ p.rel + Len(p.bytes) <= reliableUnsent

\* The retransmission timer is set exactly while something that was sent is
\* not acknowledged: Receive_ack() never stops it too early (the client would
\* wait for ever for a lost packet) nor leaves it set (new data would wait for
\* a timeout of nothing).
TimerOnlyWhileUnacked == timer # "off" <=> reliableOffset < reliableUnsent

\* The stream is delivered in order, without gaps and without repetitions.
Stream == INSTANCE ByteStream
StreamSafe == Stream!Spec

\* ... and, when the network is fair, completely.
StreamLive == Stream!FairSpec

\* Everything queued is acknowledged in the end, so that a connection that
\* drains its reliable data (CONN_DRAIN) goes on.
BufferEmpties == []<>(c = <<>>)
=============================================================================

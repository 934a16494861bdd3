----------------------------- MODULE ActivePlay -----------------------------
(***************************************************************************)
(* The unreliable half of the protocol, for one client that plays: frame   *)
(* updates with the state of targets, cannons, fuel stations and polygons  *)
(* one way (src/server/frame.c), acknowledgements of these, keyboards and  *)
(* lines of talk the other way (src/client/netclient.c), and what the      *)
(* server does with them (src/server/netserver.c).  Packets are lost,      *)
(* reordered and duplicated; acknowledgements of talk travel in the        *)
(* reliable stream, which is a queue here.                                 *)
(*                                                                         *)
(* A frame number n stands here as its age, frame_loops - n: the code only *)
(* compares numbers.  The oldest packet in the network is younger than     *)
(* MaxAge frames, so ages beyond what can be compared are capped.          *)
(***************************************************************************)
EXTENDS Integers, Sequences, FiniteSetsExt, SequencesExt, Functions

CONSTANTS
    Targets, Cannons, Polygons,     \* sequences of map objects; a fuel
                                    \* station is handled as a cannon is
    Traffics,       \* what may happen in one behaviour: records of the
                    \* objects that change, those that come and go from view,
                    \* one whose packets are not all lost, the number of
                    \* keyboards and of lines of talk
    MaxAge,         \* frames a packet lives in the network or in the window
    MaxPacket,      \* objects of one kind in a frame (max_packet)
    MaxAcks,        \* acknowledgements that fit in wbuf (MAX_MAP_ACK_LEN)
    WindowSize,     \* receive_window_size
    TALK_RETRY,     \* frames between two times a line is sent
    KeepAlive,      \* frames that pass in the 5 seconds of the keepalive
    MaxTalkAcks     \* acknowledgements of talk that fit in connp->c

Kinds == {Targets, Cannons, Polygons}
Objects == UNION {Range(k) : k \in Kinds}
\* conn_mask says what the client knows of what it sees, update_mask what
\* it knows of what it may not see.
ConnObjects == Range(Targets) \cup Range(Cannons)
UpdateObjects == Range(Targets) \cup Range(Polygons)
\* destroyed, damaged, whole
Values(o) == IF o \in Range(Targets) THEN 0 .. 2 ELSE {0, 2}

ASSUME PlayAssumption ==
    /\ MaxAge \in Nat \ {0} /\ MaxPacket \in Nat \ {0} /\ MaxAcks \in Nat \ {0}
    /\ WindowSize \in Nat \ {0} /\ TALK_RETRY \in Nat /\ KeepAlive \in Nat \ {0}
    /\ MaxTalkAcks \in Nat \ {0}
    /\ Range(Targets) \cap Range(Polygons) = {}
    /\ Traffics \subseteq [changing : SUBSET Objects, moving : SUBSET Objects,
                           watched : Objects, keys : Nat, talks : Nat]

VARIABLES
    traffic,            \* one of Traffics
    \* the server
    val,                \* dead_ticks and damage, fuel, or current_style
    changeAge,          \* age of last_change
    conn_mask,          \* objects with the client's bit set in conn_mask
    update_mask,        \* objects with the client's bit set in update_mask
    inView,
    last_update,        \* pl->last_target_update and so on, by kind
    last_key_change, talk_sequence_num,
    \* the network
    frames,             \* the last frames, newest first
    datagrams,          \* packets of the client
    talkAcks,
    \* the client
    window,             \* ages + 1 of the frames in Frames[]
    lastAge,            \* age of last_loops
    copy,               \* what the client shows
    keyChange, keyAck,  \* last_keyboard_change, last_keyboard_ack
    talkSeq,            \* the client's own talk_sequence_num
    talkPending,
    talkWait,           \* last_loops - talk_last_send
    quiet               \* frames processed since last_send_anything

map == <<val, changeAge, conn_mask, update_mask>>
server == <<map, inView, last_update, last_key_change, talk_sequence_num>>
network == <<frames, datagrams, talkAcks>>
talk == <<talkSeq, talkPending, talkWait>>
client == <<window, lastAge, copy, keyChange, keyAck, talk, quiet>>
vars == <<traffic, server, network, client>>

MaxChangeAge == 2 * MaxAge - 1
MaxLastAge == MaxAge + TALK_RETRY
Older(age, max) == Min({age + 1, max})

-----------------------------------------------------------------------------
(* The map on the server.                                                  *)

\* What the client shows at startup is right for this object.
Handle_login(o) == val[o] = 2

Init ==
    /\ traffic \in Traffics
    /\ val \in {v \in [Objects -> 0 .. 2] :
                 \A o \in Objects : /\ v[o] \in Values(o)
                                    /\ o \notin traffic.changing \cup {traffic.watched}
                                       => v[o] = 2}
    /\ changeAge = [o \in Objects |-> MaxChangeAge]
    /\ conn_mask = {o \in ConnObjects : Handle_login(o)}
    /\ update_mask = {o \in UpdateObjects : ~Handle_login(o)}
    /\ inView = Objects
    /\ last_update = [k \in Kinds |-> 1]
    /\ last_key_change = 0 /\ talk_sequence_num = 0
    /\ frames = <<>> /\ datagrams = {} /\ talkAcks = <<>>
    /\ window = {} /\ lastAge = MaxLastAge
    /\ copy = [o \in Objects |-> 2]
    /\ keyChange = 0 /\ keyAck = 0
    /\ talkSeq = 0 /\ talkPending = 0 /\ talkWait = TALK_RETRY
    /\ quiet = 0

\* A hit, a repair, a shot cannon, fuel taken or made, a new style.  A target
\* is restored when its time has come, or another of its team is (targetSync).
Change(o) ==
    /\ o \in traffic.changing
    /\ \E v \in Values(o), restored \in BOOLEAN :
        /\ v = 0 => val[o] # 0
        /\ restored => v = 2
        /\ val[o] = 0 => restored
        /\ val' = [val EXCEPT ![o] = v]
        /\ changeAge' = [changeAge EXCEPT ![o] = 0]
        /\ conn_mask' = conn_mask \ {o}
        /\ update_mask' = IF v = 0 \/ restored THEN update_mask \cup ({o} \cap UpdateObjects)
                          ELSE update_mask
    /\ UNCHANGED <<traffic, inView, last_update, last_key_change, talk_sequence_num,
                   network, client>>

\* The player flies, and o comes into view or leaves it.
Move(o) ==
    /\ o \in traffic.moving
    /\ inView' = IF o \in inView THEN inView \ {o} ELSE inView \cup {o}
    /\ UNCHANGED <<traffic, map, last_update, last_key_change, talk_sequence_num,
                   network, client>>

-----------------------------------------------------------------------------
(* Frames.                                                                 *)

MustSend(o) ==
    \/ o \in update_mask
    \/ o \in (ConnObjects \ conn_mask) \cap inView

\* The places of one kind's objects, beginning after place i.
Rotated(k, i) == [n \in 1 .. Len(k) |-> 1 + ((i - 1 + n) % Len(k))]
\* Mutant: every frame begins with the first object.
Chosen_FromTheFirst(k) ==
    LET due == SelectSeq(Rotated(k, Len(k)), LAMBDA i : MustSend(k[i]))
    IN  SubSeq(due, 1, Min({MaxPacket, Len(due)}))
\* The places of the objects that are sent, in the order in which the loop
\* finds them: it begins after the last one of the previous frame.
Chosen(k) ==
    LET due == SelectSeq(Rotated(k, last_update[k]), LAMBDA i : MustSend(k[i]))
    IN  SubSeq(due, 1, Min({MaxPacket, Len(due)}))
InFrame(k) == [n \in 1 .. Len(Chosen(k)) |-> k[Chosen(k)[n]]]

\* Everything in Frames[] and in the network is one frame older afterwards.
Frame_update ==
    /\ \A i \in window : i < MaxAge
    /\ LET objs == InFrame(Targets) \o InFrame(Cannons) \o InFrame(Polygons)
           frame == [key_ack |-> last_key_change,
                     objs |-> [n \in DOMAIN objs |-> <<objs[n], val[objs[n]]>>]]
       IN  frames' = SubSeq(<<frame>> \o frames, 1, Min({MaxAge, Len(frames) + 1}))
    /\ last_update' = [k \in Kinds |-> IF Chosen(k) = <<>> THEN last_update[k]
                                       ELSE Last(Chosen(k))]
    /\ changeAge' = [o \in Objects |-> Older(changeAge[o], MaxChangeAge)]
    /\ datagrams' = {[d EXCEPT !.age = @ + 1, !.loops = @ + 1] :
                        d \in {e \in datagrams : e.age < MaxAge - 1}}
    /\ window' = {i + 1 : i \in window}
    /\ lastAge' = Older(lastAge, MaxLastAge)
    /\ UNCHANGED <<traffic, val, conn_mask, update_mask, inView, last_key_change,
                   talk_sequence_num, talkAcks, copy, keyChange, keyAck, talk, quiet>>

\* A frame newer than the one shown, and not there yet.
NewFrame(i) == i \notin window /\ i - 1 < lastAge

\* A frame is put in the window; when that is full, the oldest is dropped.
Net_read(i) ==
    /\ i \in DOMAIN frames /\ NewFrame(i)
    /\ WindowSize = 1 => window = {}
    /\ LET w == window \cup {i}
       IN  window' = IF WindowSize > 1 /\ Cardinality(w) = WindowSize THEN w \ {Max(w)} ELSE w
    /\ UNCHANGED <<traffic, server, network, lastAge, copy, keyChange, keyAck, talk, quiet>>

-----------------------------------------------------------------------------
(* What the client sends.  A datagram has its age, the age of last_loops   *)
(* when it was sent, what it acknowledges, the number of its keyboard (or  *)
(* 0) and of its line of talk (or 0).                                      *)

\* Mutant: a line is not sent again.
TalkDue_Never(wait) == FALSE
\* wait is last_loops - talk_last_send.
TalkDue(wait) == talkPending # 0 /\ wait >= TALK_RETRY

Datagram(loops, acks, key, line) ==
    [age |-> 0, loops |-> loops, acks |-> acks, key |-> key, talk |-> line]

\* The oldest frame of the window is shown, and its objects acknowledged as
\* long as there is room.  The keyboard goes along when it is not acknowledged
\* or nothing was sent for long, and the line of talk when anything does.
Net_packet ==
    /\ window # {}
    /\ LET i == Max(window)
           objs == frames[i].objs
           wait == Min({TALK_RETRY, talkWait + lastAge - (i - 1)})
           acks == {objs[n][1] : n \in (1 .. MaxAcks) \cap DOMAIN objs}
           ack == Max({keyAck, frames[i].key_ack})
           update == ack # keyChange \/ quiet = KeepAlive
           sent == update \/ acks # {}
           line == IF sent /\ TalkDue(wait) THEN talkPending ELSE 0
       IN  /\ lastAge' = i - 1
           /\ copy' = [o \in Objects |->
                IF \E n \in DOMAIN objs : objs[n][1] = o
                THEN objs[CHOOSE n \in DOMAIN objs : objs[n][1] = o][2] ELSE copy[o]]
           /\ keyAck' = ack
           /\ talkWait' = IF line # 0 THEN 0 ELSE wait
           /\ quiet' = IF sent THEN 0 ELSE quiet + 1
           /\ datagrams' = datagrams \cup
                (IF sent THEN {Datagram(i - 1, acks, IF update THEN keyChange ELSE 0, line)}
                 ELSE {})
           /\ window' = window \ {i}
    /\ UNCHANGED <<traffic, server, frames, talkAcks, keyChange, talkSeq, talkPending>>

Net_key_change ==
    /\ keyChange < traffic.keys
    /\ keyChange' = keyChange + 1
    /\ LET line == IF TalkDue(talkWait) THEN talkPending ELSE 0
       IN  /\ datagrams' = datagrams \cup {Datagram(lastAge, {}, keyChange + 1, line)}
           /\ talkWait' = IF line # 0 THEN 0 ELSE talkWait
    /\ UNCHANGED <<traffic, server, frames, talkAcks, window, lastAge, copy, keyAck,
                   talkSeq, talkPending, quiet>>

\* A new line takes the place of one that is not acknowledged yet.
Net_talk ==
    /\ talkSeq < traffic.talks
    /\ talkSeq' = talkSeq + 1 /\ talkPending' = talkSeq + 1 /\ talkWait' = 0
    /\ datagrams' = datagrams \cup {Datagram(lastAge, {}, 0, talkSeq + 1)}
    /\ quiet' = 0
    /\ UNCHANGED <<traffic, server, frames, talkAcks, window, lastAge, copy, keyChange, keyAck>>

-----------------------------------------------------------------------------
(* What the server does with it.                                           *)

\* Mutant: >= instead of >.
NewerThanChange_OrEqual(o, loops) == loops <= changeAge[o]
\* The frame acknowledged is newer than the object's last change.
NewerThanChange(o, loops) == loops < changeAge[o]

\* A line whose acknowledgement does not fit is ignored.
Receive_talk(line) ==
    IF line <= talk_sequence_num \/ Len(talkAcks) = MaxTalkAcks
    THEN UNCHANGED <<talk_sequence_num, talkAcks>>
    ELSE talkAcks' = Append(talkAcks, line) /\ talk_sequence_num' = line

Handle_input(d) ==
    /\ d \in datagrams
    /\ LET known == {o \in d.acks : NewerThanChange(o, d.loops)}
       IN  /\ conn_mask' = conn_mask \cup (known \cap ConnObjects)
           /\ update_mask' = update_mask \ known
    /\ last_key_change' = Max({last_key_change, d.key})
    /\ Receive_talk(d.talk)
    /\ UNCHANGED <<traffic, val, changeAge, inView, last_update, frames, datagrams, client>>

\* Mutant: any acknowledgement ends the waiting.
Acknowledges_Any(ack) == TRUE
Acknowledges(ack) == ack >= talkPending
Receive_talk_ack ==
    /\ talkAcks # <<>>
    /\ talkPending' = IF Acknowledges(Head(talkAcks)) THEN 0 ELSE talkPending
    /\ talkAcks' = Tail(talkAcks)
    /\ UNCHANGED <<traffic, server, frames, datagrams, window, lastAge, copy, keyChange,
                   keyAck, talkSeq, talkWait, quiet>>

Next ==
    \/ \E o \in Objects : Change(o) \/ Move(o)
    \/ Frame_update
    \/ \E i \in 1 .. MaxAge : Net_read(i)
    \/ Net_packet
    \/ Net_key_change
    \/ Net_talk
    \/ \E d \in datagrams : Handle_input(d)
    \/ Receive_talk_ack

-----------------------------------------------------------------------------
(* What the loops of the server and the client do again and again, and     *)
(* what the network lets through in the end: one of the newest frames that *)
(* carry the watched object, or any newest frame while that object needs   *)
(* not be sent; and one of the datagrams with all the client waits for.    *)
(* The client's loop shows such a frame before the window drops it, now    *)
(* and then.                                                               *)

Carries(i) == \E n \in DOMAIN frames[i].objs : frames[i].objs[n][1] = traffic.watched
ReadsWanted == /\ frames # <<>> /\ (MustSend(traffic.watched) => Carries(1))
               /\ Net_read(1)
ShowsWatched == window # {} /\ Carries(Max(window)) /\ Net_packet
HearsPending == \E d \in datagrams : /\ keyAck # keyChange => d.key = keyChange
                                     /\ d.talk = talkPending
                                     /\ Handle_input(d)

Fairness ==
    /\ WF_vars(Frame_update) /\ WF_vars(Net_packet) /\ WF_vars(Receive_talk_ack)
    /\ SF_vars(ReadsWanted) /\ SF_vars(ShowsWatched) /\ SF_vars(HearsPending)

Spec == Init /\ [][Next]_vars /\ Fairness

-----------------------------------------------------------------------------
(* Properties.                                                             *)

\* What the server takes the client to know is what the client shows: an
\* object with its bit in conn_mask as it is, a polygon without its bit in
\* update_mask as it is, a target without its bit in update_mask as destroyed
\* or not.  An acknowledgement or a frame that is late, or comes twice, never
\* makes the server forget a change (netserver.c:2466, netclient.c:1072).
KnownIsTrue ==
    /\ \A o \in conn_mask : copy[o] = val[o]
    /\ \A o \in Range(Polygons) \ update_mask : copy[o] = val[o]
    /\ \A o \in Range(Targets) \ update_mask : copy[o] = 0 <=> val[o] = 0

\* The client never takes a keyboard for received that was not, nor stops
\* sending a line of talk that the server has not got; and the server never
\* acknowledges what was not sent yet ("Premature keyboard ack by server").
AcksTrue ==
    /\ keyAck <= last_key_change /\ last_key_change <= keyChange
    /\ \A i \in DOMAIN frames : frames[i].key_ack <= last_key_change
    /\ talk_sequence_num <= talkSeq
    /\ talkPending = 0 => talk_sequence_num = talkSeq
    /\ talkPending # 0 => talkPending = talkSeq

\* The watched object, when it no longer changes value and can be seen, or is
\* a polygon, is shown right in the end and stays so, though others change and
\* packets are lost, reordered and repeated (frame.c:404).
ClientCatchesUp ==
    /\ <>[](traffic.watched \in inView \cup Range(Polygons))
    /\ <>[][val'[traffic.watched] = val[traffic.watched]]_vars
    => <>[](copy[traffic.watched] = val[traffic.watched])

\* The newest keyboard and line of talk reach the server, and the client
\* hears of it (netserver.c:2103, 2670).
InputArrives == <>[](/\ last_key_change = keyChange /\ keyAck = keyChange
                     /\ talk_sequence_num = talkSeq /\ talkPending = 0)
=============================================================================

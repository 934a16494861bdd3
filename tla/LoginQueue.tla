----------------------------- MODULE LoginQueue -----------------------------
(***************************************************************************)
(* The queue of those who want to play (src/server/contact.c): requests on *)
(* the contact port, the loop that gives the first one a connection when   *)
(* there is room, and tells the others that they wait, and the time-outs   *)
(* of entries and of connections that nobody comes to.  Kicks of robots    *)
(* and paused players and the choice of a team are in TeamRoster, what a   *)
(* connection does after its first packet is in Connection.                *)
(*                                                                         *)
(* A client has one nick and one screen.  Nothing is assumed of it, nor of *)
(* the datagrams between the two: a request to enter may arrive at any     *)
(* time, delayed and repeated, a client may or may not hear that there is  *)
(* a port for it, and come to it or not.  Times are ages in main loops,    *)
(* capped beyond the delay they are compared with.                         *)
(***************************************************************************)
EXTENDS Integers, Sequences, FiniteSetsExt, SequencesExt

CONSTANTS
    Clients,
    Host,               \* the address of each
    MaxQueuedPlayers,
    Limit,              \* places in the game (playerLimit, Num_bases())
    \* delays in main loops: 2, 2 + FPS / 4, 3 * FPS, LISTEN_TIMEOUT * FPS
    \* and 30 * FPS in the code
    CheckDelay, AckDelay, WaitDelay, ListenTimeout, RecvTimeout,
    MaxAdvances         \* how often operators move somebody up

ASSUME QueueAssumption ==
    /\ IsFiniteSet(Clients) /\ DOMAIN Host = Clients
    /\ {MaxQueuedPlayers, Limit} \subseteq Nat \ {0}
    /\ {CheckDelay, AckDelay, WaitDelay, ListenTimeout, RecvTimeout, MaxAdvances} \subseteq Nat
    /\ CheckDelay <= AckDelay

VARIABLES
    queue,              \* qp_list: records of the client, whether it has a
                        \* login_port, and the ages of last_ack_sent and
                        \* last_ack_recv
    NumQueuedPlayers,
    unqueued,           \* age of last_unqueued_loops
    conn,               \* the connection with the client's nick
    listening,          \* its age while it listens
    advances

vars == <<queue, NumQueuedPlayers, unqueued, conn, listening, advances>>

Init ==
    /\ queue = <<>> /\ NumQueuedPlayers = 0 /\ unqueued = AckDelay + 1
    /\ conn = [c \in Clients |-> "free"] /\ listening = [c \in Clients |-> 0]
    /\ advances = 0

Older(age, delay) == Min({age + 1, delay + 1})
Entry(c) == [client |-> c, port |-> FALSE, sent |-> 0, recv |-> 0]
Queued == {queue[i].client : i \in DOMAIN queue}
Expired(e) == e.recv > RecvTimeout

-----------------------------------------------------------------------------
(* Contact port.                                                           *)

\* Mutant: who asks again gets a new place instead of his old one.
Queue_player_Requeues(c) ==
    LET others == SelectSeq(queue, LAMBDA e : e.client # c)
        same == {e \in Range(others) : Host[e.client] = Host[c]} IN
    IF conn[c] = "playing" \/ Cardinality(same) > 1 \/ Len(others) >= MaxQueuedPlayers
    THEN UNCHANGED <<queue, NumQueuedPlayers>>
    ELSE queue' = Append(others, Entry(c)) /\ NumQueuedPlayers' = Len(others) + 1
\* Somebody is in the queue, at the same place as before, when he asks again.
\* Not more than two of one host are let in, and nobody who is in the game.
Queue_player(c) ==
    LET same == {e \in Range(queue) : Host[e.client] = Host[c]} IN
    IF conn[c] = "playing" THEN UNCHANGED <<queue, NumQueuedPlayers>>
    ELSE IF c \in Queued
    THEN /\ queue' = [i \in DOMAIN queue |->
                        IF queue[i].client = c THEN [queue[i] EXCEPT !.recv = 0] ELSE queue[i]]
         /\ UNCHANGED NumQueuedPlayers
    ELSE IF Cardinality(same) > 1 THEN UNCHANGED <<queue, NumQueuedPlayers>>
    ELSE IF Len(queue) >= MaxQueuedPlayers
    THEN NumQueuedPlayers' = Len(queue) /\ UNCHANGED queue
    ELSE queue' = Append(queue, Entry(c)) /\ NumQueuedPlayers' = Len(queue) + 1

Contact(c) ==
    /\ Queue_player(c)
    /\ UNCHANGED <<unqueued, conn, listening, advances>>

\* Mutant: to the top, whoever is entering.
Advanced_ToTheTop(i) == <<queue[i]>> \o RemoveAt(queue, i)
\* The i-th moves up behind the last before him who is entering the game.
Advanced(i) ==
    LET entering == {j \in 1 .. i - 1 : queue[j].port}
        first == IF entering = {} THEN 0 ELSE Max(entering)
    IN  InsertAt(RemoveAt(queue, i), first + 1, queue[i])
Queue_advance_player(i) ==
    /\ advances < MaxAdvances /\ i \in DOMAIN queue /\ i > 1 /\ ~queue[i].port
    /\ queue' = Advanced(i) /\ advances' = advances + 1
    /\ UNCHANGED <<NumQueuedPlayers, unqueued, conn, listening>>

-----------------------------------------------------------------------------
(* The main loop: everything is one loop older, connections that listened  *)
(* too long are destroyed (Input()), and then the queue is looked at.      *)

Aged == [i \in DOMAIN queue |->
            [queue[i] EXCEPT !.sent = Older(@, WaitDelay), !.recv = Older(@, RecvTimeout)]]
StillListens(c) == conn[c] = "listening" /\ listening[c] < ListenTimeout

Room == Cardinality({c \in Clients : conn[c] \in {"login", "playing"} \/ StillListens(c)}) < Limit

\* Mutant: the connection is not looked for.
Check_connection_Trusts(e) == TRUE
Check_connection(e) == StillListens(e.client)

\* What becomes of q, the queue at this time: its first part has login ports;
\* up to the first of these that is due for another reply, those who are gone
\* are removed.  When none is due, the next in line gets a connection, is
\* removed, or waits; and then one of those who wait is removed or told.
\* Mutant: nobody is found missing, however long he is silent.
Gone_Never(e) == FALSE
Gone(e) == Expired(e) \/ (e.sent > CheckDelay /\ ~Check_connection(e))
Remaining(q, n) ==
    LET kept[k \in 0 .. n] == IF k = 0 THEN <<>>
                              ELSE IF Gone(q[k]) THEN kept[k - 1] ELSE Append(kept[k - 1], q[k])
    IN  kept[n]
Answered(e) == [e EXCEPT !.sent = 0]
Without(q, i) == SubSeq(q, i + 1, Len(q))

\* Conn[] after the time-outs; with c's connection, if one is set up for him.
Connections(S) ==
    /\ conn' = [c \in Clients |->
            IF c \in S \/ StillListens(c) THEN "listening"
            ELSE IF conn[c] = "listening" THEN "free" ELSE conn[c]]
    /\ listening' = [c \in Clients |->
            IF StillListens(c) THEN listening[c] + 1 ELSE 0]

Result(q, S, n) ==
    /\ queue' = q /\ NumQueuedPlayers' = NumQueuedPlayers - n
    /\ unqueued' = IF S = {} THEN Older(unqueued, AckDelay) ELSE 0
    /\ Connections(S)

Queue_loop ==
    LET q == Aged
        ports == IF \A i \in DOMAIN q : q[i].port THEN Len(q)
                 ELSE Min({i \in DOMAIN q : ~q[i].port}) - 1
        due == {i \in 1 .. ports : ~Gone(q[i]) /\ q[i].sent > AckDelay}
        head == Remaining(q, ports)
        next == ports + 1
        wakes == {i \in next .. Len(q) : Expired(q[i]) \/ q[i].sent >= WaitDelay}
    IN  IF due # {}
        THEN LET i == Min(due)
                 before == Remaining(q, i - 1)
             IN  Result(before \o <<Answered(q[i])>> \o Without(q, i),
                        {}, i - 1 - Len(before))
        ELSE IF next <= Len(q) /\ ~Expired(q[next]) /\ unqueued >= AckDelay /\ Room
        THEN LET c == q[next].client IN
             IF conn[c] \in {"free", "listening"}
             THEN Result(head \o <<[Answered(q[next]) EXCEPT !.port = TRUE]>> \o Without(q, next),
                         {c}, ports - Len(head))
             ELSE Result(head \o Without(q, next), {}, ports - Len(head) + 1)
        ELSE IF wakes # {}
        THEN LET i == Min(wakes)
                 between == SubSeq(q, next, i - 1)
             IN  IF Expired(q[i])
                 THEN Result(head \o between \o Without(q, i), {}, ports - Len(head) + 1)
                 ELSE Result(head \o between \o <<Answered(q[i])>> \o Without(q, i),
                             {}, ports - Len(head))
        ELSE Result(head \o Without(q, ports), {}, ports - Len(head))

Main_loop == Queue_loop /\ UNCHANGED advances

-----------------------------------------------------------------------------
(* What the connections go through.                                        *)

\* The first packet comes; a connection whose first packet is not a right one, or
\* to which no answer can be sent, is destroyed.
Handle_listening(c) ==
    /\ conn[c] = "listening"
    /\ \E state \in {"login", "free"} : conn' = [conn EXCEPT ![c] = state]
    /\ listening' = [listening EXCEPT ![c] = 0]
    /\ UNCHANGED <<queue, NumQueuedPlayers, unqueued, advances>>
Handle_login(c) ==
    /\ conn[c] = "login"
    /\ conn' = [conn EXCEPT ![c] = "playing"]
    /\ UNCHANGED <<queue, NumQueuedPlayers, unqueued, listening, advances>>

\* A player leaves, or a login is given up or times out.
Destroy_connection(c) ==
    /\ conn[c] \in {"login", "playing"}
    /\ conn' = [conn EXCEPT ![c] = "free"]
    /\ UNCHANGED <<queue, NumQueuedPlayers, unqueued, listening, advances>>

Next ==
    \/ Main_loop
    \/ \E c \in Clients : \/ Contact(c) \/ Handle_listening(c)
                          \/ Handle_login(c) \/ Destroy_connection(c)
    \/ \E i \in DOMAIN queue : Queue_advance_player(i)

\* The server's loop runs on, and nobody plays or logs in for ever.
Fairness ==
    /\ WF_vars(Main_loop)
    /\ \A c \in Clients : WF_vars(Destroy_connection(c))

Spec == Init /\ [][Next]_vars /\ Fairness

-----------------------------------------------------------------------------
(* Properties.                                                             *)

\* All who play, log in or have been offered a connection fit in the game.
ConnectionsFit == Cardinality({c \in Clients : conn[c] # "free"}) <= Limit

\* The queue keeps its shape, whoever asks, gives up, is moved up or times out:
\* nobody is in it twice, those with a login port come first, so that the loops
\* over the two parts meet everybody, and the counter, which is also set after
\* a search, is right.  And all who play, log in or have been offered a
\* connection fit in the game (contact.c:636, 727, 841, 879).
QueueSound ==
    /\ queue \in Seq([client : Clients, port : BOOLEAN, sent : Nat, recv : Nat])
    /\ conn \in [Clients -> {"free", "listening", "login", "playing"}]
    /\ listening \in [Clients -> 0 .. ListenTimeout] /\ unqueued \in 0 .. AckDelay + 1
    /\ NumQueuedPlayers = Len(queue) /\ Len(queue) <= MaxQueuedPlayers
    /\ Cardinality(Queued) = Len(queue)
    /\ \A i, j \in DOMAIN queue : i < j /\ queue[j].port => queue[i].port
    /\ ConnectionsFit

\* A client is told to enter only while a connection listens for him, though
\* his place in the queue, with its port, lives longer than that (contact.c:692).
Told(c) == \E i \in DOMAIN queue : queue[i].client = c /\ queue[i].port /\ queue[i].sent = 0
OffersListen ==
    [][\A c \in Clients : ~Told(c) /\ Told(c)' => conn'[c] = "listening"]_vars

Before(c, d, q) == \E i, j \in DOMAIN q : i < j /\ q[i].client = c /\ q[j].client = d
Overtakes(d, c) == Before(c, d, queue) /\ Before(d, c, queue')
Enters(c) == \E i \in DOMAIN queue : queue[i].client = c /\ queue[i].port

\* Nobody passes another in the queue, whoever is removed, answered or asks again,
\* but one whom an operator moves up (contact.c:879), and he passes nobody who is
\* entering the game.
FirstComesFirst ==
    [][\A c, d \in Clients : Overtakes(d, c) =>
            /\ advances' = advances + 1 /\ ~Enters(c)
            /\ \A b, e \in Clients : Overtakes(e, b) => e = d]_vars

\* Nobody stays in the queue for ever: he gets a connection or is given up,
\* also when those before him never come to theirs.
QueueMoves == \A c \in Clients : []<>(c \notin Queued)
=============================================================================

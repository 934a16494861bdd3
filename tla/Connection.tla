----------------------------- MODULE Connection -----------------------------
(***************************************************************************)
(* One connection from the client's first packet to active play: the       *)
(* connection states of server/netserver.c and the login of                *)
(* client/netclient.c (Net_verify, Net_setup, Net_start), on top of the    *)
(* reliable stream.  Every action is one handler; where the handler queues *)
(* or sends reliable data, it is a step of ReliableStream as well.         *)
(*                                                                         *)
(* The server is one thread.  Each turn of its main loop runs Input(),     *)
(* which gives up connections that time out, queues set-up data            *)
(* (Handle_setup) and calls Send_reliable(), then sends the frame updates, *)
(* and then handles packets until the next turn.  `turn' is the place in   *)
(* that order.  Handle_setup() also looks for acknowledgements itself: a   *)
(* packet it takes is one taken just before the main loop.                 *)
(*                                                                         *)
(* The reply to PKT_VERIFY with the magic number is one unit of the        *)
(* stream, as is the reply to PKT_PLAY.  A frame update and the reliable   *)
(* data behind it in the same packet travel as two packets.                *)
(***************************************************************************)
EXTENDS ReliableStream

CONSTANTS SetupSize,         \* units of set-up data, the header included
          SetupFill,         \* how far Handle_setup() fills the buffer
          Copies             \* bound: BOOLEAN if the network keeps copies, else {FALSE}

ASSUME ConnectionAssumption ==
    /\ SetupSize \in Nat \ {0, 1}
    /\ SetupFill \in 1 .. QueueSize
    /\ MaxMessage >= SetupSize
    /\ Copies \subseteq BOOLEAN

VARIABLES connState,         \* connp->state
          drainState,        \* connp->drain_state
          player,            \* connp->id # NO_ID: the client has a player
          setupDone,         \* connp->setup, in units
          content,           \* what the server has queued, in order:
                             \* "verify", "setup", "reply" and "info"
          turn,              \* the place in the server's main loop: "wait",
                             \* "confirm", "setup" or "send"
          toServer,          \* other packets under way to the server
          toClient,          \* other packets under way to the client
          clientState        \* the procedure the client is in: "verify",
                             \* "setup", "start", "play"; "gone"; "confused" when
                             \* it met what it did not expect and gives up

streamVars == vars
stateVars == <<connState, drainState, player>>
queueVars == <<setupDone, content>>
connVars == <<stateVars, queueVars, turn, toServer, toClient, clientState>>
allVars == <<streamVars, connVars>>

ConnStates == {"FREE", "LISTENING", "SETUP", "LOGIN", "PLAYING", "DRAIN", "READY"}

ConnInit ==
    /\ Init
    /\ connState = "LISTENING" /\ drainState = "FREE"
    /\ player = FALSE
    /\ setupDone = 0
    /\ content = <<>>
    /\ turn = "wait"
    /\ toServer = {} /\ toClient = {}
    /\ clientState = "verify"

-----------------------------------------------------------------------------
(* The server.                                                             *)

\* A packet m is taken from the network, which may keep a copy.
Take(m, dup) == /\ m \in toServer
                /\ toServer' = IF dup THEN toServer ELSE toServer \ {m}

\* Destroy_connection(): the player goes, the client is told with a packet.
Destroy == /\ connState' = "FREE" /\ drainState' = "FREE"
           /\ player' = FALSE
           /\ toClient' = toClient \cup {"QUIT"}

Queue(kinds) == /\ QueueMessage(Len(kinds))
                /\ content' = content \o kinds

\* A packet the state's table gives to Receive_discard(), or PKT_PLAY in READY.
Ignored(m) == \/ m = "VERIFY" /\ connState \notin {"FREE", "LISTENING"}
              \/ m = "PLAY" /\ connState \in {"DRAIN", "SETUP", "READY"}

ReceiveIgnored(m, dup) ==
    /\ turn = "wait" /\ Ignored(m) /\ Take(m, dup)
    /\ UNCHANGED <<streamVars, stateVars, queueVars, turn, toClient, clientState>>

\* Handle_listening() gives up on anything but PKT_VERIFY, every other state
\* on PKT_QUIT.
ReceiveQuit(dup) ==
    /\ turn = "wait" /\ connState # "FREE"
    /\ Take("QUIT", dup)
    /\ Destroy
    /\ UNCHANGED <<streamVars, queueVars, turn, clientState>>

\* Handle_listening() queues the reply and sends it before it returns ...
ReceiveVerify(dup) ==
    /\ turn = "wait" /\ connState = "LISTENING"
    /\ Take("VERIFY", dup)
    /\ Queue(<<"verify">>)
    /\ turn' = "confirm"
    /\ UNCHANGED <<stateVars, setupDone, toClient, clientState>>

\* ... and gives up when the socket does not take it ("confirm failed").
Confirm(k) ==
    /\ turn = "confirm"
    /\ SendReliable(0, k)
    /\ IF k > 0 THEN /\ connState' = "DRAIN" /\ drainState' = "SETUP"
                     /\ UNCHANGED <<player, toClient>>
                ELSE Destroy
    /\ turn' = "wait"
    /\ UNCHANGED <<queueVars, toServer, clientState>>

\* Another turn of the main loop.
Turn(expire) ==
    /\ turn = "wait" /\ connState # "FREE"
    /\ MainLoop(expire)
    /\ turn' = IF connState = "SETUP" THEN "setup" ELSE "send"
    /\ UNCHANGED <<stateVars, queueVars, toServer, toClient, clientState>>

\* Input() finds at its start that the connection has been too long in its state.
Timeout ==
    /\ turn = "wait" /\ connState # "FREE"
    /\ Destroy
    /\ UNCHANGED <<streamVars, queueVars, turn, toServer, clientState>>

\* The room Handle_setup() sees for n units of header and the map data behind.
SetupChunk(n) == Lesser(Greater(0, SetupFill - Len(c) - n), SetupSize - setupDone - n)

\* Handle_setup(): the header first, then as much as fits.
HandleSetup ==
    LET header == IF setupDone = 0 THEN 1 ELSE 0
        n      == header + SetupChunk(header)
    IN  /\ turn = "setup"
        /\ \/ n = 0 /\ UNCHANGED <<streamVars, content>>
           \/ n > 0 /\ Queue([i \in 1 .. n |-> "setup"])
        /\ setupDone' = setupDone + n
        /\ IF setupDone + n >= SetupSize
           THEN connState' = "DRAIN" /\ drainState' = "LOGIN"
           ELSE UNCHANGED <<connState, drainState>>
        /\ turn' = "send"
        /\ UNCHANGED <<player, toServer, toClient, clientState>>

\* Input() calls Send_reliable() for the states before active play.
Waiting == connState \in {"DRAIN", "READY", "SETUP", "LOGIN"}

InputSend(k) ==
    /\ turn = "send" /\ Waiting /\ Len(c) > 0
    /\ SendReliable(0, k)
    /\ turn' = "wait"
    /\ UNCHANGED <<stateVars, queueVars, toServer, toClient, clientState>>

InputIdle ==
    /\ turn = "send" /\ ~(Waiting /\ MaySend(0))
    /\ turn' = "wait"
    /\ UNCHANGED <<streamVars, stateVars, queueVars, toServer, toClient, clientState>>

\* A frame update of f bytes, with reliable data behind it when there is room
\* (Send_end_of_frame); nothing goes out when the socket takes no packet.
FrameWithData(f, k) ==
    /\ turn = "send" /\ connState = "PLAYING" /\ f > 0
    /\ SendReliable(f, k)
    /\ toClient' = IF k > 0 THEN toClient \cup {"FRAME"} ELSE toClient
    /\ turn' = "wait"
    /\ UNCHANGED <<stateVars, queueVars, toServer, clientState>>

FrameAlone(f) ==
    /\ turn = "send" /\ connState = "PLAYING" /\ f > 0
    /\ ~MaySend(f)
    /\ toClient' = toClient \cup {"FRAME"}
    /\ turn' = "wait"
    /\ UNCHANGED <<streamVars, stateVars, queueVars, toServer, clientState>>

\* The server has something to tell a player, at any time.
QueueInfo ==
    /\ turn = "wait" /\ connState \in {"READY", "PLAYING"}
    /\ Queue(<<"info">>)
    /\ UNCHANGED <<stateVars, setupDone, turn, toServer, toClient, clientState>>

\* Mutant: the player's own data before the reply.
InfoFirst == <<"info", "reply">>

\* What Handle_login() queues for its own client.
LoginMessages == <<"reply", "info">>

\* Receive_play() in LOGIN: Handle_login() makes the player, changes the state
\* and queues the reply ...
ReceivePlay(dup) ==
    /\ turn = "wait" /\ connState = "LOGIN"
    /\ Take("PLAY", dup)
    /\ connState' = "READY" /\ drainState' = "PLAYING"
    /\ player' = TRUE
    /\ Queue(LoginMessages)
    /\ UNCHANGED <<setupDone, turn, toClient, clientState>>

\* ... or fails: the name is in use, or there is no free identifier.
RefusePlay(dup) ==
    /\ turn = "wait" /\ connState = "LOGIN"
    /\ Take("PLAY", dup)
    /\ Destroy
    /\ UNCHANGED <<streamVars, queueVars, turn, clientState>>

\* Mutant: a repeated PKT_PLAY is ignored in PLAYING.
PlayAgainIgnored(dup, k) ==
    /\ turn = "wait" /\ connState = "PLAYING"
    /\ Take("PLAY", dup)
    /\ UNCHANGED <<streamVars, stateVars, queueVars, turn, toClient, clientState>>

\* Receive_play() of a repeated PKT_PLAY in PLAYING sends what is queued.
ReceivePlayAgain(dup, k) ==
    /\ turn = "wait" /\ connState = "PLAYING"
    /\ Take("PLAY", dup)
    /\ \/ SendReliable(0, k)
       \/ Len(c) = 0 /\ SendNothing
       \/ ~MaySend(0) /\ k = 0 /\ UNCHANGED streamVars
    /\ UNCHANGED <<stateVars, queueVars, turn, toClient, clientState>>

\* The unit at the head of connp->c.
Head1 == content[c'[1]]

\* Mutant: an empty buffer is not enough to leave READY.
ReplyLeft == Len(c') > 0 /\ Head1 # "reply"

\* Receive_ack() after it has advanced the buffer: the reply to PKT_PLAY is
\* taken to be acknowledged when it is not at the head of the buffer.
ReplyGone == Len(c') = 0 \/ Head1 # "reply"

ConnReceiveAck(rel, dup) ==
    /\ turn = "wait" /\ connState \notin {"FREE", "LISTENING"}
    /\ ReceiveAck(rel, dup)
    /\ IF badAck'
       THEN Destroy
       ELSE /\ IF \/ connState = "DRAIN" /\ ~AckIsOld(rel) /\ AckStopsTimer(rel)
                  \/ connState = "READY" /\ ~AckIsOld(rel) /\ ReplyGone
               THEN connState' = drainState
               ELSE connState' = connState
            /\ UNCHANGED <<drainState, player, toClient>>
    /\ UNCHANGED <<queueVars, turn, toServer, clientState>>

-----------------------------------------------------------------------------
(* The client.                                                             *)

Running == clientState \notin {"gone", "confused"}

\* Net_verify() sends its first packet again and again.
ClientVerify ==
    /\ clientState = "verify"
    /\ toServer' = toServer \cup {"VERIFY"}
    /\ UNCHANGED <<streamVars, stateVars, queueVars, turn, toClient, clientState>>

\* Net_start() sends PKT_PLAY again and again.
ClientPlay ==
    /\ clientState = "start"
    /\ toServer' = toServer \cup {"PLAY"}
    /\ UNCHANGED <<streamVars, stateVars, queueVars, turn, toClient, clientState>>

\* Mutant: Net_setup() returns one unit early.
SetupReadEarly(n) == n >= SetupSize

\* Net_setup() returns when the n-th unit of the stream was its last.
SetupRead(n) == n > SetupSize

\* The procedure the client is in after the n-th unit of the stream.
AfterUnit(state, n, kind) ==
    CASE state = "verify" /\ kind = "verify" -> "setup"
      [] state = "setup" /\ kind = "setup" -> IF SetupRead(n) THEN "start" ELSE "setup"
      [] state = "start" /\ kind = "reply" -> "play"
      [] state = "play" /\ kind \in {"reply", "info"} -> "play"
      [] OTHER -> "confused"

\* Receive_reliable(), after which Net_verify(), Net_setup(), Net_start() and
\* Net_packet() take all there is out of the buffer before they read again.
ClientReceiveReliable(p, dup) ==
    /\ Running
    /\ ReceiveReliable(p, dup)
    /\ LET after[n \in clientOffset .. clientOffset'] ==
             IF n = clientOffset THEN clientState
             ELSE AfterUnit(after[n - 1], n, content[delivered'[n]])
       IN  clientState' = after[clientOffset']
    /\ UNCHANGED <<stateVars, queueVars, turn, toServer, toClient>>

\* A frame update: skipped by Net_start(), an error before.
ClientReceiveFrame(dup) ==
    /\ Running
    /\ "FRAME" \in toClient
    /\ toClient' = IF dup THEN toClient ELSE toClient \ {"FRAME"}
    /\ clientState' = IF clientState \in {"verify", "setup"} THEN "confused"
                      ELSE clientState
    /\ UNCHANGED <<streamVars, stateVars, queueVars, turn, toServer>>

\* The server closed the connection, the client's retries are used up, or its
\* user has enough: Net_cleanup() tells the server.
ClientLeave ==
    /\ clientState # "gone"
    /\ clientState' = "gone"
    /\ toServer' = toServer \cup {"QUIT"}
    /\ UNCHANGED <<streamVars, stateVars, queueVars, turn, toClient>>

-----------------------------------------------------------------------------
(* The network.                                                            *)

\* What is lost during a turn of the main loop is as well lost before or after.
ConnLoseData(p) == turn = "wait" /\ LoseData(p) /\ UNCHANGED connVars
ConnLoseAck(rel) == turn = "wait" /\ LoseAck(rel) /\ UNCHANGED connVars

LosePacket ==
    /\ turn = "wait"
    /\ \/ /\ \E m \in toServer : toServer' = toServer \ {m}
          /\ UNCHANGED toClient
       \/ /\ \E m \in toClient : toClient' = toClient \ {m}
          /\ UNCHANGED toServer
    /\ UNCHANGED <<streamVars, stateVars, queueVars, turn, clientState>>

-----------------------------------------------------------------------------

ServerStep ==
    \/ \E m \in toServer, dup \in Copies : ReceiveIgnored(m, dup)
    \/ \E dup \in Copies : ReceiveVerify(dup)
    \/ \E k \in 0 .. MaxStream : Confirm(k)
    \/ \E expire \in BOOLEAN : Turn(expire)
    \/ HandleSetup
    \/ \E k \in 0 .. MaxStream : InputSend(k)
    \/ InputIdle
    \/ \E f \in 1 .. MaxFrame, k \in 0 .. MaxStream : FrameWithData(f, k)
    \/ \E f \in 1 .. MaxFrame : FrameAlone(f)
    \/ QueueInfo
    \/ \E dup \in Copies : ReceivePlay(dup)
    \/ \E dup \in Copies, k \in 0 .. MaxStream : ReceivePlayAgain(dup, k)
    \/ \E rel \in ackNet, dup \in Copies : ConnReceiveAck(rel, dup)

ClientStep ==
    \/ \E p \in dataNet, dup \in Copies : ClientReceiveReliable(p, dup)
    \/ ClientVerify
    \/ ClientPlay
    \/ \E dup \in Copies : ClientReceiveFrame(dup)

NetworkStep ==
    \/ \E p \in dataNet : ConnLoseData(p)
    \/ \E rel \in ackNet : ConnLoseAck(rel)
    \/ LosePacket

\* One of the two sides gives up.
GiveUp ==
    \/ \E dup \in Copies : ReceiveQuit(dup)
    \/ \E dup \in Copies : RefusePlay(dup)
    \/ Timeout
    \/ ClientLeave

ConnNext == ServerStep \/ ClientStep \/ NetworkStep \/ GiveUp

ConnSpec == ConnInit /\ [][ConnNext]_allVars

(***************************************************************************)
(* A login in which nobody gives up: no timeout, no refusal, and a socket  *)
(* that takes the very first packet.  Every main loop calls Input(), the   *)
(* client repeats its packets, and the network loses some of each kind but *)
(* not all.  No frame update has to leave room for reliable data, and none *)
(* has to be sent.                                                         *)
(***************************************************************************)
LoginStep == (ServerStep \/ ClientStep \/ NetworkStep) /\ connState' # "FREE"

LoginFairness ==
    /\ SF_allVars(Turn(TRUE))
    /\ WF_allVars(HandleSetup \/ InputIdle \/ \E k \in 1 .. MaxStream : Confirm(k))
    /\ SF_allVars(\E k \in 1 .. MaxStream : InputSend(k))
    /\ SF_allVars(\/ ReceiveVerify(FALSE)
                  \/ ReceivePlay(FALSE)
                  \/ \E k \in 1 .. MaxStream : ReceivePlayAgain(FALSE, k))
    /\ SF_allVars(\E rel \in ackNet : ~AckIsOld(rel) /\ ConnReceiveAck(rel, FALSE))
    /\ SF_allVars(\E rel \in ackNet : ConnReceiveAck(rel, FALSE))
    /\ SF_allVars(\E p \in dataNet : /\ ~IsGap(p) /\ ~IsDuplicate(p)
                                     /\ ClientReceiveReliable(p, FALSE))
    /\ SF_allVars(\E p \in dataNet : IsDuplicate(p) /\ ClientReceiveReliable(p, FALSE))
    /\ WF_allVars(\E p \in dataNet : ClientReceiveReliable(p, FALSE))
    /\ WF_allVars(ClientVerify \/ ClientPlay)

LoginSpec == ConnInit /\ [][LoginStep]_allVars /\ LoginFairness

-----------------------------------------------------------------------------

\* The states that only an acknowledgement of new data ends are never entered,
\* and never kept, with nothing left to acknowledge: the client would be stuck
\* in its login until the timeout.
DrainHasData == connState \in {"DRAIN", "READY"} => Len(c) > 0

\* Whatever is lost, repeated or late, the client never finds a frame update
\* or a message of another phase where it expects its reply or its map.
ClientNeverConfused == clientState # "confused"

\* The two sides agree on how far the login is: the server takes the client to
\* be in LOGIN only when it has its verification, to be a player only when it
\* has the whole map, and a playing client is a player or was thrown out.
Agreement ==
    /\ connState = "LOGIN" => clientOffset > 0 /\ setupDone = SetupSize
    /\ player <=> connState \in {"READY", "PLAYING"}
    /\ player => clientOffset > SetupSize
    /\ clientState = "play" => player \/ connState = "FREE"

\* A login in which nobody gives up comes to an end on both sides, even when the
\* server goes to PLAYING before its reply has arrived and frame updates leave
\* no room for it.
LoginCompletes == <>[](connState = "PLAYING" /\ clientState = "play")
=============================================================================

# XPilot NG: a TLA+ model of the server's core

XPilot NG is a multi-player space game: one server simulates the world and
any number of clients steer a ship each over UDP. This directory models the
parts of the server (and of the client where it is the other side of a
protocol) whose correctness is a matter of *order*: identifiers that wrap,
messages that are lost, a login that passes through seven states, teams that
fill up while somebody waits for a place in them, a table of players that
shrinks while a loop walks over it. The flying itself, geometry and real
arithmetic, is not modelled.

Paths below are relative to the root of the repository, that is without the
leading `src/` that `PROJECT.json` has.

## 1. Inventory

The server is one thread. `Main_loop()` (`src/server/server.c`) runs at every
timer tick: `Input()` serves connections that are not playing and gives up
those that time out, `Update_objects()` moves the game, `Frame_update()`
sends every client a frame, `Queue_loop()` lets waiting players in. Between
two ticks `sched.c` calls the handlers of packets that have arrived. So no
two handlers interleave, and all the concurrency is between the server, its
clients, the network and the timers; inside the server the hazard is state
that one handler found and a later one uses.

| component | state | operations | hard to test | correct when | here |
|---|---|---|---|---|---|
| identifiers, `id.c` | ring, two counters, in-use flags | peek, request, release | wrap of both counters, double release | no identifier lost or given twice | `IdQueue` |
| reliable stream, `netserver.c`, `netclient.c` | unacknowledged bytes, offsets, timer, window; client offset | send, resend, receive, acknowledge | loss, repetition, reordering, overlap, sharing packets with frames | delivered in order and in the end; no byte dropped too early | `ReliableStream` |
| retransmission timer, `netserver.c` | smoothed round trip, deviation, back-off | measure, back off, change of the frame rate | integer arithmetic, ambiguous acknowledgements | within bounds, the timer expires | `RetransmitTimer` |
| connection, `netserver.c`, `netclient.c` | connection state and the state it drains to, set-up progress; client procedure | the handlers of each state, time-outs | late and repeated packets in each state, data queued but not sent | both sides agree; nobody is stuck; login completes | `Connection` |
| frames, keys, talk, map objects, `frame.c`, `netserver.c`, `netclient.c` | window of frames; masks of who knows what; last change, retries | send, sort, show, acknowledge, repeat | late, lost and repeated frames and acknowledgements, frames without room | the server is right about what the client knows; everything arrives | `ActivePlay` |
| login queue, `contact.c` | list of waiting players | enqueue, acknowledge, offer, drop, move up | clients that vanish or ask again, offers nobody takes | queue and counters right, no more players than places, nobody stuck | `LoginQueue` |
| team roster, `command.c`, `event.c`, `player.c`, `robot.c`, `contact.c` | team, base, pause of each player; members, robots and queue of each team | admission, login, leaving, robots, pause, change of home, `/team` | admission and login far apart, swaps in circles, baseless pausing | counts right, everybody who plays has a base of his own, nothing fails or hangs | `TeamRoster` |
| player table, `player.c`, `ship.c`, `update.c` | `PlayersArray`, `GetIndArray`, counters | join, drop a tank, delete (with tanks), the two walks of a frame | recursive deletion, deletion inside a loop | table and index inverse, walks meet everybody | `PlayerTable` |
| alliances, `alliance.c` | members, invitations | invite, accept, refuse, cancel, leave, merge | crossing invitations, players who leave | counts, one alliance each, no alliance against anybody's will | `Alliance` |
| tag, `tag.c` | who is 'it' | transfer, search for another | 'it' leaves, pauses | 'it' is in the game, the search ends | `Tag` |
| rounds and races, `player.c`, `update.c`, `server.c`, `race.c` | state, lives and laps of each player, round time, rounds played | appear, die, pause, checkpoint, end of round or race, reset, end of game | death, pause and end of round in one frame | who is out returns with the next round, and it comes | `Rounds` |
| balls, `treasure.c`, `shot.c`, `collision.c`, `walls.c` | carrier and owner of a ball, who reaches for it, treasures left | connect, detach, touch, cash, delete, make again | owners who leave or die, two events in one frame | no ball lost uncounted, no owner who is gone | `Balls`, `Rounds` |
| scheduler, `sched.c` | timer ticks, input handlers | tick, dispatch | handlers removed while dispatching | no tick lost for ever | order of a turn only |
| items, score | game rules | per rule | limits | counters | left out |
| collision, walls, objects, options, map parser, rank, recording, metaserver | | | | | left out: geometry, formats, files |
| client display, replay, map editor, ports | | | | | left out |

`PROJECT.json` lists every component with its sources, and under `hazards`
every place found so far where a test would hardly reach.

## 2. Modules

| module | models | extends or instantiates |
|---|---|---|
| `IdPool` | what the allocator promises: a first-in first-out pool | |
| `IdQueue` | the ring of `id.c` | refines `IdPool` |
| `ByteStream` | what the stream promises: bytes in order | |
| `ReliableStream` | `Send_reliable`, `Receive_ack`, `Receive_reliable`, `Send_ack` | refines `ByteStream` |
| `RetransmitTimer` | the integers behind the stream's timer | |
| `Connection` | connection states and login of both sides | extends `ReliableStream` |
| `ActivePlay` | frames, map objects, keyboards and talk of a client that plays | |
| `LoginQueue` | the queue of the contact port | |
| `TeamRoster` | teams, bases, robots, pause, `/team` | |
| `PlayerTable` | the table of players and the two walks over it | |
| `Alliance` | alliances | |
| `Tag` | the tag game | extends `Alliance` |
| `Balls` | balls and treasures, as operators on a world | |
| `Rounds` | players' states, rounds, races, and the frame in which balls move | extends `Balls` |
| `MC*` | the instances for TLC | each extends its module |
| `*Proofs` | theorems | each extends its module; `ConnectionProofs` is about the stream too, `AllianceProofs` (which extends `Tag`) about the tag game |

### IdQueue

`IDqueue`, `IDinuse`, `getID`, `putID` are the arrays and counters of `id.c`;
`exited` says that the server called `exit(1)`. The actions are
`request_ID`, `release_ID` and the exits. Any identifier, legal or not, may be
released at any time, as the allocator has to defend itself against its
callers. The counters are taken modulo `Modulus` (2^32 in the program). That
the ring survives their wrap rests on `NUM_IDS` (256) dividing 2^32: this is
the assumption `IdQueueAssumption`, and the model fails without it.

### ReliableStream

A byte is its number in the stream. The server's `connp->c` is the sequence
`c`; `reliableOffset` and `reliableUnsent` are the code's; `timer` compares
`retransmit_at_loop` with `main_loops`; `sentThisLoop` compares
`last_send_loops` with it; `acks` is the window less one. A packet names the
position of its first byte, as in the code, so that packets of different
bursts overlap. A call of `Send_reliable` with a frame of `f` bytes in the
packet buffer sends `k` packets, fewer than the window allows when the socket
would block. A packet that is not consumed stays in the network: this is how
repetition is modelled, and sets of packets give reordering for free. When a
packet cannot be written at all the code destroys the connection, which
`Connection` covers with its time-out; that the client's `cbuf` has no room for the
bytes of a packet, after which the client gives up, is left out (it is larger than a
packet, and whole messages are worked off after each). When the timer expires is left open: in
any later turn. That it does expire is what `RetransmitTimer` is for.

### Connection

`Connection` extends the stream with the server's states, the set-up data of
`Handle_setup`, and the client's `Net_verify`, `Net_setup` and `Net_start`. A
unit of the stream here is a whole message (the reply to `PKT_VERIFY` with its
magic number, a piece of the map, the reply to `PKT_PLAY`, any later message);
`content` remembers which. `turn` is the place in `Main_loop`: set-up, sending,
and then packets. Other packets (`VERIFY`, `PLAY`, `QUIT`, frames) are in the
sets `toServer` and `toClient`. The client procedures loop over what they read,
so the client's step applies `AfterUnit` to the new units one after the other (`after`). A client that
meets what its procedure does not expect is `"confused"`, where the code
prints an error and gives up. A second packet that `Handle_setup` takes from
its socket while it waits for acknowledgements is taken by the ordinary
handler just before, which is the same because nothing else happens between.

### TeamRoster

One record, `game`, has the kind, team, base, pause and previous team of every
player, and the members, robots and queue (`SwapperId`) of every team. Functions
that several handlers share (`Pick_team`, `Pick_startpos`, `Delete_player`,
`Check_team_members`, `Set_swapper_state`, the kicks of `contact.c`) are
operators from one such record to the next, so that a handler reads as in the
code. `server` records what the handler led to: `"up"`, `"ended"`
(`End_game()` in `Pick_startpos`), `"aborted"` (the assertion of
`Robot_create`), `"crashed"` (a null base in `Pause_player`) or `"looping"`
(the search of `Cmd_team` that does not end). The model stops there. Scores are
abstracted: where the lowest decides anybody may have it. Which base of a team
is picked is left to `CHOOSE`, as bases of one team are alike. Game lock,
operators who move others, spectators and tanks are left out. Who is privileged
against being kicked is not modelled either: a kick of paused players takes any of
them, or none.

`BasesKept` and `RobotsApart` name the servers on which the properties hold.
A player without a base (he entered paused when all were taken, or paused with
`baselessPausing`) belongs to team 0. The counts, and that who plays has a base,
rest on `BasesKept`: either there are no such players (no baseless pausing and no
team reserved for robots), or they always stay paused (no limited lives) and team 0
is the reserved one, so that nobody waits to get into it.

### PlayerTable

The structures of `PlayersArray` with the identifier, kind, owner (for tanks,
`lock.pl_id`) and status of each; `GetIndArray`; the counters; the pool of
identifiers as a sequence (justified by `IdQueue`). `Delete` is
`Delete_player`: swap with the last, then walk down and delete the tanks of the
one who left, which recurses one level because a tank drops no tanks. The two
loops of a frame that delete are states of their own, `walk` and `visit`,
because deletions happen inside: the one of `Update_players` goes up, throws out
flooders and looks at their place again; the one of `Update_objects` goes down,
buries tanks and throws out who has paused for too long. What is left in
structures behind the last player is kept during the walk, since the loop may
read it, and forgotten afterwards, since `Init_player` sets it all.

### RetransmitTimer

The integers of `Receive_ack` and `Send_reliable`: `rtt_smoothed` is scaled by
8 and `rtt_dev` by 4, the time-out is doubled whenever the timer has expired and
capped when it is used. The frame rate is any from 1 to 255 and may be changed
by the operator in the middle, which changes what the code's constants
(`MAX_RTT`, `MIN_RETRANSMIT` and so on, macros over `FPS`) are worth; `top` remembers
the highest rate so far, since what was measured at it stays. There is no run:
255 frame rates times all estimates are too many states, and a smaller range
would miss the rounding. The bounds are proved instead.

### ActivePlay

One client that plays. A frame number is its age, the difference to
`frame_loops`, because the code only compares numbers; ages beyond what can be
compared are capped. `val` is what an object looks like (a target: destroyed,
damaged, whole; a cannon or polygon: one of two), `changeAge` its `last_change`,
`conn_mask` and `update_mask` the client's bits. `frames` are those still in the
network, and reading one does not consume it, so that it may come again;
`datagrams` are the client's packets, which are not consumed either. `window` is the client's
`Frames[]`: frames are read into it, the oldest is dropped when it is full, and
the oldest is shown. Fuel stations are handled as cannons are and stand under
the same name. Acknowledgements of talk travel in the reliable stream, which is
a queue here. A line of talk is repeated only in packets that are sent anyway;
that it arrives when nothing else happens is the merit of the keepalive, and so
of `KeepAlive` in `Net_packet`.

### LoginQueue

`queue` is `qp_list`; ages in main loops stand for `last_ack_sent`,
`last_ack_recv` and `last_unqueued_loops`. `Queue_loop` is one action, with the
time-outs of listening connections that come before it in `Main_loop`. Nothing is
assumed of clients or of datagrams: whoever may ask does so at any time, and the first
packet on a new connection may be a bad one, which destroys it. What a
connection does after it has left LISTENING is three states here; which team
somebody is admitted to and who is kicked for him are in `TeamRoster`.
`Queue_kick` is left out because nothing in the program calls it.

### Alliance and Tag

`alliance`, `invite`, `NumMembers` are the code's fields, `live` the alliances that
exist, `mode` the bit of `world->rules->mode` that the option switches.
The order of `PlayersArray` is left open: loops whose order shows are done in any
order. The loop of `Accept_all_alliances` has a state of its own, `accepting`, since
each acceptance changes what the next one finds; no other handler runs inside it.
`crashed` says that a null pointer has been followed.
`Tag` adds the player who is 'it' and who pauses. `Check_tag` looks at every order
of the table and every place where its random search may begin.

### Balls and Rounds

Both work on one record, `world`: state, lives and counts of the players, the
balls with carrier and owner, the treasures and what their teams have lost, the
round. `Balls` has the operators from one world to the next that deal with balls,
`Rounds` those about players and rounds and all actions. A ball is named by its
treasure, which has one at most. `pl->ball`, which may point to a ball that has
been freed, is `aim`. A frame is taken apart into phases: objects move, players
are updated, players collide, the killed are buried, and the state of the game is
computed; `todo` is what the loop of a phase has still to visit, in any order.
Positions are left open, so that whatever depends on where things are may happen
or not, and counts of frames may run out in any frame. Bounds: a player touches
one ball in a frame at most, and rounds beyond `roundsToPlay` are counted as one
more, as are laps beyond `raceLaps`. In races there is one checkpoint, since others
only delay a lap; `round`, `FINISH` and `RACE_OVER` are the code's. Left out: tanks,
special balls, `legacyMode`, changes of team, phasing and hover pauses,
`gameDuration` above 0, options changed at run time, who wins, and the lap times with
the points and bases they give. A race excludes teams, as in `map.c:582`: the proof of
`OutStaysOut` needs it, so it is part of `BallsAssumption`.

## 3. Runs

| run | configuration | bounds | distinct states | shows |
|---|---|---|---|---|
| `id_queue` | `IdQueue.cfg` | 4 identifiers, counters modulo 8 | 13 k | both wraps; `IdPool` implemented |
| `stream` | `ReliableStream.cfg` | 5 bytes, packets of 3, buffer of 4, 2 packets each way | 73 k | safety, `ByteStream` implemented; everything arrives and is acknowledged |
| `conn` | `Connection.cfg` | map of 5 units, buffer of 5, filled to 4, packets of 3, 2 packets each way | 2.3 M | a login in which packets are lost, repeated and overtake each other |
| `conn_live` | `ConnectionLive.cfg` | map of 3, packets of 1, no frame that carries data | 56 k | login completes |
| `roster` | `TeamRoster.cfg` | 5 players, 4 bases (with baseless pausing 3) in 3 teams, six servers | 40 k | teams, bases, queues, swaps |
| `player_table` | `PlayerTable.cfg` | 5 identifiers, 6 structures, 3 tanks, all four options | 1.5 M | deletions outside and inside the two walks |
| `player_walk` | `PlayerTableWalk.cfg` | as `player_table`, kicks only | | finding 1 |
| `alliance` | `Alliance.cfg` | 4 players, 2 alliances, two servers | 21 k | invitations that cross, merges, departures; tag |
| `alliance_cancel` | `AllianceCancel.cfg` | 3 players | | finding 2 |
| `active_play` | `ActivePlay.cfg` | a target, a cannon, 2 polygons, six kinds of traffic, packets live 2 frames, window of 3 | 142 k | what the server believes is true; everything arrives |
| `login_queue` | `LoginQueue.cfg` | 4 clients of 2 hosts, queue of 2, game of 2 | 63 k | the queue keeps its shape and order, and moves |
| `rounds` | `Rounds.cfg` | 2 or 3 players, up to 2 balls, seven servers | 1.7 M | balls, owners, lives and rounds stay consistent, and rounds end |

What a server is started with (`Options`, `Games` or `Servers`, sets of records)
is chosen once, in `Init`, and kept in a variable, so that one run checks several
servers. The six of `roster` are one whose robots have a team of their own (the
default of `restrictRobots`), the same with baseless pausing and the same with robots
everywhere, one without robots and with limited lives, and two whose robots are among
the players, with and without limited lives. Those of `rounds` are a
duel of two teams without spare lives (`treasureKillTeam`,
`ballCollisionDetaches`); capture the flag with a time limit, without reset at the
end of a round; a team with an empty goal, a time limit and a number of rounds (without
a time limit `Compute_game_status` is not called any more once the game is over: the
teams go on losing treasures, and the counts of those left fall without end); a mêlée of
two and a robot, each with a spare life, and a time limit; one where balls outlive
the round; a race of three with limited lives; and a ball race of two without, with a
time limit. A property that holds on some servers only says so in its statement:
`KeepsRunning`, `MembersCounted`, `ActiveHaveBase`, TeamRoster's `QueueSound`, `WalkMeetsAll`,
`BallsSound`. What happens on the others is under Findings.

Why the bounds are enough. In the stream a burst has two packets, a frame
shortens one, and a retransmission is cut elsewhere than the first
transmission, so that packets overlap on both sides; two packets under way
suffice for each pair to overtake each other. In `Connection` the map needs
several calls of `Handle_setup`, and `SetupFill` smaller than the buffer makes
it stop and go on. Three teams allow a circle that passes and one that does not
pass the team asked for; with 5 players on 4 bases or fewer somebody is always left
over. In the table three tanks can belong to one player or to two, below and
above him in the table. Four players make two alliances that can merge, or one of
three that another joins, and there is no third alliance for them. In active play
a frame has room for one polygon and there are two, and a datagram has room for one
acknowledgement and a frame may carry three; a packet that lives for two frames can
be overtaken by the next frame and by a change in between. Each kind of traffic
changes one thing while another is watched, since what they share is the room in
packets. In the login queue three entries of which two have ports need a game of
two places, one left again; the delays are small but keep the order they have in
the program. In `rounds` two balls can be
carried by one player, be cashed at each other's treasure, or be lost in one frame.

Players, identifiers and structures are interchangeable, so rosters, tables and
alliances are checked up to symmetry, and so are the two robots of a race (only for invariants and action properties that
treat all alike, never for liveness).

`CHECK_DEADLOCK FALSE` stands where the system really stops: the server that
has exited (`id_queue`, the rosters in which the server may end, the table after
the second deletion of a player, an alliance that crashed), a connection that is
free with its client gone (`conn`). `MaxStream` ends the stream of `Connection`:
no more messages are queued then, which is a bound of the model, as are the numbers
of keyboards and lines in `Traffics` and `MaxAdvances` of the login queue.

### Fairness

`ReliableStream!Fairness`: `Main_loop` runs at every tick (weak); a packet goes
out when `Send_reliable` may send again and again (strong, since frames that
leave no room take turns with frames that leave some); and of packets of one
kind sent again and again some arrive (strong, the usual fair-lossy network).
The code promises nothing against frames that never leave room: that is a
condition, not a result.

`Connection!LoginFairness` assumes besides that nobody gives up (no time-out, no
refusal), that the client repeats its packets as `Net_verify` and `Net_start`
do, and that of those that repeat themselves some arrive. It does *not* assume
that a frame ever carries reliable data: `conn_live` has frames of full size,
and the login completes only because `Receive_play` sends again in PLAYING.

`ActivePlay!Fairness`: frames are made and shown (weak). Of the network: if the
newest frame carries the watched object again and again (or need not), one such frame arrives
when it is the newest; the client shows one before the window drops it; and of the
datagrams with all that the client waits for one arrives (strong). That the frame
carries the object at all is the rotation's business, and its mutant starves it.

`LoginQueue!Fairness`: the main loop runs, and nobody plays or logs in for ever (weak).

`Rounds` states its liveness as a variant: `TimeRunsDown` says that the time left
falls in every frame while somebody waits, so that he waits for `maxRoundTime`
frames at most. No fairness is needed for that.

## 4. Findings

1. `player_walk`: a player thrown out for pausing takes tanks along, and the walk
   goes on behind the end of the table, where a tank may be deleted twice. This
   happens with the default `maxPauseTime`, after four hours.
2. `alliance_cancel`: invitations for a player who leaves stay, and whoever cancels
   one, or invites somebody else instead, makes the server follow a null pointer. A
   second way to crash is accepting the invitation of one who has become an ally since:
   the alliance is merged with itself (`alliance.c:452-467`).

Both are disagreements with what the source or the help says. Other places where
the models had to follow the code to something a reader may not expect, without a
document that says otherwise or without a run of their own:

* READY becomes PLAYING when the reply is not the *first* byte of the buffer, and
  older set-up data may be in front of it, because `Receive_ack` leaves DRAIN when
  all that was *sent* is acknowledged, not all there *is*. The reply is then taken
  for acknowledged. Harmless for the login as a whole (`conn`, `conn_live`), because
  `Receive_play` repeats the reply.
* With robots among the players (`restrictRobots` off), one created between admission
  and login takes the base of the player who logs in, and `Pick_startpos` ends the
  game; with `baselessPausing` the search of `/team` can go round a circle of queues
  for ever. `KeepsRunning` excepts both.
* With limited lives a player without a base who swaps with a paused one makes a
  waiting player of him who has no base now (`Set_swapper_state`, `command.c:1219`);
  a new home then gives him a base that no count knows of, the next robot finds
  no free base, and the game ends. And where the reserved team is not team 0, a player
  without a base may wait to get into another team, a circle of swaps through team 0
  leaves somebody else without a base, or the search of `/team` does not end. This is
  what `BasesKept` excludes. It was found when the invariant would not be proved.
* `target.c:56` looks reversed beside `update.c:447`: both decide which targets of a
  team are restored together, and the model allows either.
* `Delete_shot` clears others' pointers to the ball only if the ball has no carrier
  (`shot.c:1127-1138`), so that `aim` may dangle and name the next ball in the same
  memory. A team may connect to its own ball at home that way, which the comment at
  `collision.c:371-376` excludes.
* In individual games without `endOfRoundReset` a reset clears HAS_BALL and leaves
  the balls attached (the exception in `BallsSound`). `endOfRoundReset` is documented
  as effective only with limited lives; the code does not ask.
* Without `endOfRoundReset`, a dead player whose self-destruction is pending comes
  back after `Game_Over` (`update.c:930`): `Game_Over` makes everybody dead who has lives
  left, and whoever is killed with lives left appears again. So `OutStaysOut` speaks
  of games that are not over; it was its proof that brought this to light. In games with unlimited lives all
  come back alive after `Game_Over`.
* A team may have more balls than `TreasuresLeft` says, when a ball is cashed twice
  in a frame, or is made again because its owner leaves in the frame in which it was
  cashed: so `NoLossUncounted` is an inequality.
* A race without limited lives does not end "when the first player completes the
  course" (`race.c:36-38`): it ends in a frame in which somebody finishes while at most
  one other is alive. Finishers come back to life, and `RACE_OVER` keeps them from
  finishing again, so that a race of three who have all finished goes on for ever,
  unless `maxRoundTime` or `resetOnHuman` ends it. And whoever finishes twice is scored
  again with the next who finishes. (With two players, as in `rounds`, it does end.)
* The end of a race counts the round before it resets the players, where the other
  modes reset first: the last race is followed by one more that nobody ends
  (`race.c:381`). A reset by an operator leaves FINISH and RACE_OVER as they are.
* In a ball race a player who pauses or waits may finish with a ball that is still
  flying: he is dead then, and no longer pauses.
* The bases after a race come from an array with holes where tanks are in the table
  (`race.c:288-311`, uninitialized), and through `home_base`, which a player who pauses
  without a base does not have (`race.c:308`). Neither is modelled.
* `treasureKillTeam` kills the dead and those who have just paused; and when only one
  team plays, `maxRoundTime` does not end a round (`Rivals` in `TimeRunsDown`).

## 5. Theorems

All proofs are checked by TLAPS without anything taken on trust, for every
value of the constants that satisfies the assumptions of the modules.

* `IdQueueProofs`: `RingSafe`, `RingImplementsPool`. The inductive invariant says
  where each free identifier is in the ring, which needs that `Slot` commutes
  with the wrap of a counter: a fact about `%` that holds because `NumIds`
  divides `Modulus`.
* `ConnectionProofs`, of the stream: `StreamInvariants`, `AcksAlwaysGood`,
  `StreamImplementsByteStream`. `Positions` is not
  inductive by itself: the invariant `Inv` adds `Contents`, that the buffer, every
  packet under way and what the client has hold the bytes that their positions
  announce. Then an acknowledgement under way is at most the client's offset, which
  is at most what was sent, which is at most what is buffered; so no acknowledgement
  is bad and none discards what is not delivered.
* `ConnectionProofs`, of a connection: `ConnectionUsesStream` (each handler is a step
  of the stream or none, so the theorems above hold inside a connection),
  `DrainsHaveData`, `ClientNeverLost` and `SidesAgree`. `ServerInv` says for each
  state how far the set-up data is and where a drain leads; with `Positions` it
  follows that DRAIN ends at the latest with the last byte. For the client's half,
  what the `n`-th unit of the stream is (`Kind`) and the phase of a client that has read
  `n` units (`Phase`) are given by `n` alone: `Queued` says that the server has queued
  just that, `Amount` how much in each state, `InPhase` that the client is where its
  offset says, and `Heard` that a `PKT_PLAY` or a frame under way was sent when it was
  far enough. Then a client that plays has read the reply that only a player is sent.
* `ConnectionProofs`, of the stream's timer: `EstimatesBounded`, `BackoffBounded`, of
  `RetransmitTimer` (there as `RTO`). Both updates are
  monotonic in the old estimate and in what is measured, so that the largest
  measurement's fixed points bound them, rounding included. An operator may change the
  frame rate, which bounds both what is measured and what is waited, and a time-out of
  the old rate stays: so the bounds are in terms of `top`, the highest rate so far (a
  history variable), and a timer expires within a second and a loop of that rate. Where
  the rate is left alone, `top` is the rate.
* `ActivePlayProofs`: `KnownStaysTrue`, `InputNeverLost`. The invariant says for every
  frame under way that an object in it which has not changed since has its present value
  (`FramesHold`), for every datagram that what it acknowledges was shown at least as
  new (`DatagramsHold`), and of frames still to be shown that they have nothing else to
  say of an object that the masks call known (`MasksHold`): an argument about ages.
* `AllianceProofs`, of alliances: `AlliancesCounted`, `InvitationsUncrossed`,
  `AlliesAgree`. The invariant is the types, the counts, that no two invitations cross,
  and that nobody invites himself (`Sane`); the count of a merge is that of a union of
  two disjoint sets.
* `AllianceProofs`, of tag: `TagUsesAlliance` (so the theorems above hold in the game of
  tag), `TagHolderPresent`, `SearchAlwaysFinds`. The search begins below the *number* of
  candidates and goes up: by the pigeonhole principle either there is a candidate
  above, or nobody is 'it' and it begins again at the bottom.
* `LoginQueueProofs`: `GameNeverOverfull`, `QueueSoundAlways`, `OffersListenAlways`,
  `FirstAlwaysServed`.
  However the queue is gone through, a connection is offered in one place, after the
  count. What a main loop leaves of the queue is put together from parts of it in
  their order (`Part`, `Shape`), so that nobody is in it twice and those with a port
  come first. Who is told to enter has just got a connection, or his last answer is
  older than `AckDelay`: then a connection was looked for, since `CheckDelay` is not
  longer (a part of `QueueAssumption`, as in `contact.c`). The parts also keep their
  order (`InOrder`), and so `FirstAlwaysServed`, of `FirstComesFirst`, is the half of
  `QueueMoves` that is not liveness: nobody passes another but whom an operator moves
  up, one at a time and behind all who are entering.
* `PlayerTableProofs`: `TypesKept`, `TableSoundAlways`, `CountersAlwaysRight`,
  `OwnersAlwaysPresent`, `WalkMeetsAllAlways`. The invariant joins
  the table's soundness (places and identifiers are inverse to each other, `Placed`;
  the pool, `Pooled`; the counters, `Counted`), that tanks have owners (`Owned`), and
  where the walk is (`Walking`). A deletion in the middle of a walk takes tanks along,
  each of them swapped with the last of the table: the deletions are gone through one
  after the other, with what is left of the table between them (`Keeps`, `Above`).
* `TeamRosterProofs`: `RosterKeepsRunning`, `MembersAlwaysCounted`,
  `ActiveAlwaysHaveBase`, `QueuesAlwaysSound`, `OnlyMovedByWill`, for any number of
  players, teams and bases. `IInv` joins the first four (each needs the others) with what a handler relies
  on without looking: a paused player has a base or the reserved team 0
  (`Seated`), no more are in the game than there are bases (`Fits`), robots stay in
  their team (`RobotsStay`), and no circle of teams in each of which a player of the
  next one waits (`NoCircle`: every set of teams has one whose waiting player does not
  come from the set). That a free base is found is a pigeonhole argument (`FreeBase`,
  `SomeRoom`); that the search of `/team` ends is another, on the way from queue to
  queue (`WayIsFinite`). `QueueSound` promises that there is no such circle where
  nobody gives his base away to pause: with baseless pausing one may close, and
  `KeepsRunning` lets the search loop there. Swaps of two, with a paused player and round a circle are one
  lemma (`ReseatedKeeps`): everybody has the seat that somebody else had, by a
  permutation of the players, so that the counts stay. Who begins to wait closes no
  circle because the search did not come by his team (`TeamsBehind`, `Redirected`).
  `OnlyMovedByWill` goes through the handlers: most give a team to nobody but the
  player they are about (`OthersStay`), and `/team` to those who waited for it (`ByWill`).
* `RoundsProofs`: `RoundsTyped`, `BallsAlwaysSound`, `LossesAlwaysCounted`,
  `OutAlwaysStaysOut`, `NobodyEverLeftOut`, `TimeAlwaysRunsDown`, for any number of players, teams and
  treasures and all options. A world is sound (`Sound`) if its sets name players and balls
  that are there (`Named`), balls belong to players of the game (`Owned`), and `HAS_BALL`
  agrees with the carriers (`Held`, where rounds end with the balls back); each operator of `Balls` and
  `Rounds` keeps that, or says what is missing in between: the ball of someone who has
  just died (`HeldBut`) or that is just being deleted (`HeldWithout`), and `HAS_BALL` after
  `Reset_all_players` has cleared it. The loops over players and balls are
  `FoldSet`s: a function on the subsets of a finite set is shown to exist that does
  one member after the other (`FoldExists`), and what holds of an operation holds of its
  fold (`SubsetInduction`), by well-founded induction, not by an induction theorem.
  For the action properties the world also has to fit: who is dead has no life to lose
  (`Fit`), all rounds are played when the game is over (`Final`), and the time limit runs
  while anybody is there (`Timed`). Each operator then either leaves the round alone and
  brings nobody back (`Falls`), or ends it (`Ends`): a round begins for all, or the game
  is over. That nobody is left out is `Ongoing`: when none of the three searches for the
  end of a round finds one, there is somebody in it or nobody out of it.
  That no loss goes uncounted (`NoLossUncounted`) is not inductive: it counts the balls
  that are there or come back, and does not say which of those that are there would come
  back once they are deleted. The inductive form (`Saved`) counts only the balls that
  `Delete_shot` makes again: a team has at least as many of them as it has treasures left.
  Every operator keeps that (`Saves`), since only `Punish_team` takes a ball off that list,
  and it takes one treasure of the same team off the count with it.

The type invariants of `IdQueue`, `ReliableStream`, `Alliance`, `PlayerTable` and `Rounds`,
`ServerInv` of `Connection` and `Types` of `ActivePlay` are parts of these inductive
invariants, and so are proved; that of the login queue is part of `QueueSound`.

Only model-checked is liveness (fairness and ENABLED are beyond the prover): every
invariant and every action property of a passing run is a theorem.

## 6. Not modelled

The models are of the server's decisions and of both sides of its protocol. Most of
the repository is something else: drawing, fonts, widgets and key bindings of three
clients, the ports to Windows, the replay viewer, the map editor, maps and textures,
and in the server real-time physics, collision geometry, the parsing of options and
maps, and the text of messages. The definitions here stand for about 4 % of
its lines, and no faithful model of this kind could come near a third: those parts
are arithmetic over large ranges, formats, or output, with no state that
others depend on.

What could still be modelled, in this order:

1. `TeamRoster`: operators who move others (an operator's `/team` moves robots
   too and leaves the team's `NumRobots` as it was, `command.c:1113`), the game lock, spectators.
2. `Rounds`: tanks, special balls, changes of team in the middle of a round; lap times and
   the bases they give.
3. `Sched`: ticks of the timer that are caught up, and input handlers that are removed while
   they are called. The order of a turn is all that is modelled of it.
4. Heat seekers, which are given `NumPlayers - 1`, an index, where everything else
   keeps identifiers (`ship.c:493`); items and modifiers, whose limits are one
   function each.

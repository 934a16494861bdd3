------------------------------- MODULE Rounds -------------------------------
(***************************************************************************)
(* Players who appear, die, wait and pause, and the rounds they play: the  *)
(* frame of Update_objects (src/server/update.c), Compute_game_status and  *)
(* Reset_all_players (player.c), the end of the game (server.c), login,    *)
(* leaving, pausing (event.c) and the reset of an operator (command.c).    *)
(*                                                                         *)
(* The frame is taken apart where other players or balls may be in between:*)
(* phase says where Update_objects is, todo what its loop has still to     *)
(* visit.  Loops over players and objects are done in any order.  Counts   *)
(* of frames (recovery, pause, self destruction, idling) may run out in    *)
(* any frame.  In a race (race.c) there is one checkpoint, and the order   *)
(* of the lap times, which only gives bases and points, is left out, as    *)
(* are tanks, changes of team, phasing and hover pausing, options changed  *)
(* while the server runs, and gameDuration > 0.                            *)
(***************************************************************************)
EXTENDS Balls

VARIABLES
    phase,          \* "idle" between two frames, else the part of Update_objects
    todo            \* balls or players that the loop of this phase has to visit

vars == <<server, world, phase, todo>>

Paused(w) == Are({"paused"}, w)
Out(w) == Are({"waiting", "dead"}, w)

\* The world of a new server (Treasure_init, and the counts of map.c).
TreasuresOf(team) == {t \in server.treasures \ server.empty : Team[t] = team}
AllBalls == server.treasures \ server.empty
NewWorld ==
    [state |-> [p \in Players |-> "out"], life |-> [p \in Players |-> 0],
     recovering |-> {}, pausing |-> {}, destructing |-> {},
     aim |-> [p \in Players |-> NO_BALL], HAS_BALL |-> {},
     balls |-> AllBalls, have |-> AllBalls, recreate |-> AllBalls,
     dying |-> {}, fused |-> {},
     carrier |-> [t \in Treasures |-> NO_ID], ball_owner |-> [t \in Treasures |-> NO_ID],
     TreasuresLeft |-> [x \in Teams |-> Cardinality(TreasuresOf(x))],
     TreasuresDestroyed |-> [x \in Teams |-> 0],
     roundtime |-> -1, roundsPlayed |-> 0, over |-> FALSE,
     round |-> [p \in Players |-> 0], FINISH |-> {}, RACE_OVER |-> {}]

Init ==
    /\ server \in Servers
    /\ world = NewWorld
    /\ phase = "idle" /\ todo = {}

-----------------------------------------------------------------------------
(* Deaths, pauses, departures.                                             *)

\* Mutant: the last life is not noticed.
Player_death_reset_InDebt(p, w) ==
    LET d == Detach_ball(p, Treasures, w)
        v == [Player_set_state({p}, "appearing", d)
                  EXCEPT !.destructing = @ \ {p}, !.HAS_BALL = @ \ {p}]
    IN  IF w.state[p] = "paused" THEN w
        ELSE IF server.limitedLives THEN [v EXCEPT !.life[p] = @ - 1] ELSE v
\* Player_death_reset; lives are counted when they are limited.
Player_death_reset(p, w) ==
    LET d == Detach_ball(p, Treasures, w)
        v == [Player_set_state({p}, "appearing", d)
                  EXCEPT !.destructing = @ \ {p}, !.HAS_BALL = @ \ {p}]
        s == IF w.state[p] = "waiting" THEN "waiting" ELSE "dead"
    IN  IF w.state[p] = "paused" THEN w
        ELSE IF ~server.limitedLives THEN v
        ELSE IF w.life[p] = 0 THEN Player_set_state({p}, s, v)
        ELSE [v EXCEPT !.life[p] = @ - 1]

\* Pause_player(pl, true); robots do not pause.
Pause_player(p, w) ==
    IF p \in Robots \/ w.state[p] = "paused" THEN w
    ELSE LET v == [Player_set_state({p}, "paused", w)
                       EXCEPT !.pausing = @ \cup {p}, !.recovering = @ \ {p},
                              !.destructing = @ \ {p}]
         IN  Detach_ball(p, Treasures, v)

\* Delete_player.
Delete_player(p, w) ==
    [Delete_players_balls(p, w) EXCEPT
        !.state[p] = "out", !.life[p] = 0, !.aim[p] = NO_BALL, !.HAS_BALL = @ \ {p},
        !.recovering = @ \ {p}, !.pausing = @ \ {p}, !.destructing = @ \ {p},
        !.round[p] = 0, !.FINISH = @ \ {p}, !.RACE_OVER = @ \ {p}]

-----------------------------------------------------------------------------
(* The end of a round.                                                     *)

\* The players' part of Reset_all_players.
ResetPlayers(w) ==
    LET v == IF server.endOfRoundReset THEN FoldSet(Player_death_reset, w, Present(w)) ELSE w
        P == Present(v) \ Paused(v)
    IN  [Player_set_state(P, "appearing", v) EXCEPT
            !.HAS_BALL = {}, !.round = NewWorld.round,
            !.life = [p \in Players |-> IF p \in P THEN server.lives ELSE @[p]]]

\* The treasures' part: all balls are deleted and made again, so that a pointer
\* to a ball that was freed before may point to any of the new ones.
ResetBalls(w) ==
    LET aims == {a \in [Players -> AllBalls \cup {NO_BALL}] :
                    \A p \in Players : w.aim[p] \in w.balls \cup {NO_BALL} => a[p] = NO_BALL}
    IN  IF ~server.teamPlay THEN {w}
        ELSE {[w EXCEPT !.balls = AllBalls, !.have = AllBalls, !.recreate = AllBalls,
                        !.dying = {}, !.fused = {},
                        !.carrier = NewWorld.carrier, !.ball_owner = NewWorld.ball_owner,
                        !.TreasuresLeft = NewWorld.TreasuresLeft,
                        !.TreasuresDestroyed = NewWorld.TreasuresDestroyed,
                        !.aim = a] : a \in aims}

Reset_all_players(w) ==
    {[v EXCEPT !.roundtime = server.maxRoundTime] : v \in ResetBalls(ResetPlayers(w))}

Game_Over(w) ==
    [Player_set_state(Present(w) \ Paused(w), "dead", w) EXCEPT !.over = TRUE]

\* Count_rounds; what is beyond roundsToPlay is counted as one more.
Count_rounds(w) ==
    LET v == [w EXCEPT !.roundsPlayed = IF @ <= server.roundsToPlay THEN @ + 1 ELSE @]
    IN  IF server.roundsToPlay = 0 THEN w
        ELSE IF w.roundsPlayed + 1 = server.roundsToPlay THEN Game_Over(v) ELSE v

\* Team_game_over and Individual_game_over; who won shows in the scores only.
EndRound(w) == {Count_rounds(v) : v \in Reset_all_players(w)}

\* Does Compute_game_status end the round?  In games of teams:
TeamRoundOver(w) ==
    LET alive == {Team[p] : p \in Present(w) \ (Paused(w) \cup Out(w))}
        dead == {Team[p] : p \in Out(w)} \ alive
        withTreasure == {x \in alive : w.TreasuresLeft[x] > 0 \/ TreasuresOf(x) = {}}
        destroyed == \E x \in alive : w.TreasuresDestroyed[x] > 0
        lost(x) == Cardinality(TreasuresOf(x)) - w.TreasuresLeft[x]
    IN  IF Cardinality(alive) > 1
        THEN \/ Cardinality(withTreasure) <= 1 /\ destroyed
             \/ server.maxRoundTime > 0 /\ w.roundtime = 0
        ELSE dead # {} \/ MapThenSumSet(lost, Teams) # 0

\* ... and where everybody is for himself:
IndividualRoundOver(w) ==
    LET active == Present(w) \ Paused(w)
        alive == active \ Out(w)
    IN  \/ Cardinality(alive) = 1 /\ Cardinality(active) > 1
        \/ alive = {} /\ active # {}
        \/ Cardinality(alive) > 1 /\ alive \subseteq Robots /\ Humans \cap Out(w) # {}
        \/ server.maxRoundTime > 0 /\ w.roundtime = 0

\* Mutant: the time stops one frame early.
Ticked_AlmostOut(w) == [w EXCEPT !.roundtime = IF @ > 1 THEN @ - 1 ELSE @]
\* A frame of the round is over.
Ticked(w) == [w EXCEPT !.roundtime = IF @ > 0 THEN @ - 1 ELSE @]

-----------------------------------------------------------------------------
(* Races.                                                                  *)

\* Player_pass_checkpoint; more laps than the race has are counted as one more.
\* Whoever finishes is dead, also when he pauses and his ball is still flying.
Player_pass_checkpoint(p, w) ==
    LET v == [w EXCEPT !.round[p] = Min({@ + 1, server.raceLaps + 1})]
        given == [v EXCEPT !.ball_owner =
                    [t \in Treasures |-> IF server.ballrace /\ @[t] = p THEN NO_ID ELSE @[t]]]
    IN  IF v.round[p] <= server.raceLaps THEN v
        ELSE [Player_set_state({p}, "dead", Player_death_reset(p, given))
                EXCEPT !.FINISH = @ \cup {p}]

\* Those in the race, also when they are dead.
Racers(w) == Present(w) \ (Paused(w) \cup Are({"waiting"}, w))

\* The round is counted before everybody appears again, also after the last one.
Race_game_over(w) ==
    LET v == [w EXCEPT !.FINISH = {}, !.RACE_OVER = {}]
    IN  Reset_all_players(Count_rounds(FoldSet(Player_death_reset, v, Racers(w))))

\* Those who finished in this frame have RACE_OVER afterwards.  Who has it already
\* and finishes once more is taken along by the next who finishes.
Finished(w) == {p \in (Racers(w) \cap w.FINISH) \ w.RACE_OVER : w.round[p] > server.raceLaps}
Scored(w) ==
    LET ready == Finished(w) \cup (Racers(w) \cap w.FINISH \cap w.RACE_OVER)
    IN  IF Finished(w) = {} THEN [w EXCEPT !.FINISH = (@ \ Racers(w)) \cup ready]
        ELSE [w EXCEPT !.FINISH = @ \ Racers(w), !.RACE_OVER = @ \cup ready]

\* Mutant: those who wait for the next race are forgotten.
Expected_Racers(w) == Racers(w)
\* Without these there is no race to end.
Expected(w) == Racers(w) \cup Are({"waiting"}, w)

\* With limited lives a race ends when nobody is alive, or one of several; without,
\* when somebody finishes and at most one other is alive.
RaceOver(w) ==
    LET alive == Racers(w) \ Are({"dead"}, w)
    IN  /\ Expected(w) # {}
        /\ \/ server.maxRoundTime > 0 /\ w.roundtime = 0
           \/ server.limitedLives /\ alive = {}
           \/ server.limitedLives /\ Cardinality(alive) = 1 /\ Racers(w) # alive
           \/ ~server.limitedLives /\ Finished(w) # {} /\ Cardinality(alive) <= 1

Race_compute_game_status(w) ==
    IF RaceOver(w) THEN Race_game_over(Scored(w)) ELSE {Scored(w)}

Compute_game_status(w) ==
    LET v == Ticked(w)
        ended == IF server.teamPlay THEN TeamRoundOver(v) ELSE IndividualRoundOver(v)
    IN  IF server.race THEN Race_compute_game_status(v)
        ELSE IF ended THEN EndRound(v) ELSE {v}

-----------------------------------------------------------------------------
(* Between two frames.                                                     *)

Between(next) == phase = "idle" /\ world' \in next /\ UNCHANGED <<server, phase, todo>>

\* Init_player, called by Handle_login and Robot_create, and the rest of these
\* that is about rounds.
Enter(p) ==
    LET first == Present(world) = {}
        s == IF first THEN "alive" ELSE IF server.limitedLives THEN "waiting" ELSE "appearing"
        v == [Player_set_state({p}, s, world) EXCEPT !.life[p] = IF first THEN server.lives ELSE 0]
        humans == Cardinality(Humans \cap Present(v))
        resets == /\ p \in Humans /\ server.resetOnHuman > 0 /\ humans <= server.resetOnHuman
                  /\ server.race \/ server.teamPlay \/ server.limitedLives
        time == IF server.maxRoundTime > 0 THEN server.maxRoundTime ELSE -1
    IN  /\ p \in server.players \ Present(world)
        /\ Between({[x EXCEPT !.roundtime = IF first THEN time ELSE @] :
                        x \in IF ~resets THEN {v}
                              ELSE IF server.race THEN Race_game_over(v) ELSE EndRound(v)})

\* Destroy_connection, or a robot that leaves.
Leave(p) == p \in Present(world) /\ Between({Delete_player(p, world)})

\* KEY_PAUSE: also by those who are dead or wait.
Pause(p) == p \in Present(world) \ Paused(world) /\ Between({Pause_player(p, world)})

\* Pause_player(pl, false), refused for a while after pausing.
Unpause(p) ==
    /\ p \in Paused(world) \ world.pausing
    /\ Between({[Player_set_state({p}, IF server.limitedLives THEN "waiting" ELSE "appearing", world)
                    EXCEPT !.round[p] = 0]})

\* KEY_DROP_BALL and robots drop all; the ECM of others detaches single balls.
DropBall(p) ==
    /\ world.state[p] = "alive"
    /\ Between({Detach_ball(p, B, world) : B \in {Treasures} \cup {{t} : t \in Carried(p, world)}})

\* KEY_SELF_DESTRUCT switches the count on or off.
SelfDestruct(p) ==
    /\ world.state[p] = "alive"
    /\ Between({[world EXCEPT !.destructing = IF p \in @ THEN @ \ {p} ELSE @ \cup {p}]})

\* Cmd_reset deletes all objects; with "all" it counts the rounds anew.
Cmd_reset ==
    LET w == FoldSet(Delete_shot, world, world.balls)
    IN  \E n \in {0, world.roundsPlayed} :
            Between({[v EXCEPT !.over = FALSE, !.roundsPlayed = n] : v \in Reset_all_players(w)})

-----------------------------------------------------------------------------
(* A frame: Update_objects.                                                *)

\* Misc_object_update begins.
StartFrame ==
    /\ phase = "idle" /\ phase' = "move" /\ todo' = world.balls
    /\ UNCHANGED <<server, world>>

MoveBall(t) ==
    /\ phase = "move" /\ t \in todo
    /\ world' \in Moved(t, world)
    /\ todo' = todo \ {t} /\ UNCHANGED <<server, phase>>

\* Mutant: who is out of the round comes back as well.
Recovered_Any(p, w) == Player_set_state({p}, "alive", w)
\* recovery_count of p runs out.
Recovered(p, w) ==
    Player_set_state({p}, IF server.limitedLives /\ w.state[p] = "dead" THEN "dead" ELSE "alive", w)

\* Update_players for one player: thrown out for flooding, counts that run out,
\* a crash against a wall.
Updated(p, w) ==
    LET counted == [w EXCEPT !.pausing = @ \ {p}]
        Goes(x) == {x} \cup (IF p \in x.destructing
                             THEN {Player_death_reset(p, Player_set_state({p}, "killed", x))} ELSE {})
        Flies(x) == {x} \cup (IF x.state[p] = "alive" THEN {Player_set_state({p}, "killed", x)} ELSE {})
        Then(x) == UNION {Flies(y) : y \in Goes(x)}
        Recovers(x) ==
            LET y == [x EXCEPT !.recovering = @ \ {p}]
            IN  IF p \notin x.recovering THEN Then(x)
                ELSE IF x.state[p] \notin {"dead", "appearing"} THEN {Pause_player(p, y)}
                ELSE {x} \cup Then(Recovered(p, y))
    IN  (UNION {Recovers(x) : x \in IF w.state[p] = "paused" THEN {w, counted} ELSE {counted}})
        \cup (IF p \in Humans THEN {Delete_player(p, w)} ELSE {})

\* The loop of Misc_object_update is over, the one of Update_players begins.
StartPlayers ==
    /\ phase = "move" /\ todo = {}
    /\ phase' = "players" /\ todo' = Present(world) /\ UNCHANGED <<server, world>>

UpdatePlayer(p) ==
    /\ phase = "players" /\ p \in todo
    /\ world' \in Updated(p, world)
    /\ todo' = todo \ {p} /\ UNCHANGED <<server, phase>>

\* A ball of a race at its owner's checkpoint.
BallPasses(t, w) ==
    IF w.ball_owner[t] # NO_ID THEN Player_pass_checkpoint(w.ball_owner[t], w) ELSE w
MayPass == {t \in world.balls \ (world.dying \cup world.have) :
                /\ server.race /\ server.ballrace
                /\ server.ballrace_connect => world.carrier[t] = world.ball_owner[t]}

\* Check_collision begins; in BallCollision balls pass checkpoints, and are
\* destroyed that meet too fast.
StartCollision ==
    /\ phase = "players" /\ todo = {}
    /\ \E B \in SUBSET (world.balls \ world.have), P \in SUBSET MayPass :
            /\ Cardinality(B) # 1
            /\ world' = [FoldSet(BallPasses, world, P) EXCEPT !.dying = @ \cup B]
    /\ phase' = "collide" /\ todo' = Are({"alive"}, world) /\ UNCHANGED server

\* PlayerCollision for p, who may run into q, connect, touch one ball at most
\* (another one that he touches in the same frame is left to the next), be shot,
\* and pass a checkpoint.
Collide(p) ==
    LET Killed(P, w) == Player_set_state(P, "killed", w)
        Crashes(w) == {Killed(P, w) : P \in UNION {SUBSET {p, q} : q \in Are({"alive"}, w)}}
        Touches(w) == IF w.state[p] # "alive" THEN {w}
                      ELSE {w} \cup UNION {Touched(p, t, w) : t \in w.balls}
        Shot(w) == {w} \cup (IF w.state[p] = "alive" THEN {Killed({p}, w)} ELSE {})
        Passes(w) == {w} \cup (IF w.state[p] = "alive" /\ server.race /\ ~server.ballrace
                               THEN {Player_pass_checkpoint(p, w)} ELSE {})
    IN  /\ phase = "collide" /\ p \in todo
        /\ IF world.state[p] # "alive" THEN UNCHANGED world
           ELSE \E u \in Crashes(world) : \E v \in Connected(p, u) : \E x \in Touches(v) :
                    \E y \in Shot(x) : world' \in Passes(y)
        /\ todo' = todo \ {p} /\ UNCHANGED <<server, phase>>

StartBurials ==
    /\ phase = "collide" /\ todo = {}
    /\ phase' = "bury" /\ todo' = Present(world) /\ UNCHANGED <<server, world>>

\* The loop that buries the killed, throws out who pauses too long and makes
\* those pause who idle.
Bury(p) ==
    LET w == IF world.state[p] = "killed" THEN Player_death_reset(p, world) ELSE world
        company == Cardinality(Humans \cap Present(w)) > 1
    IN  /\ phase = "bury" /\ p \in todo
        /\ world' \in {w}
               \cup (IF p \in Humans \cap Paused(w) THEN {Delete_player(p, w)} ELSE {})
               \cup (IF p \in Humans /\ w.state[p] = "alive" /\ company THEN {Pause_player(p, w)} ELSE {})
        /\ todo' = todo \ {p} /\ UNCHANGED <<server, phase>>

\* Balls that are to die are deleted, and the state of the game is computed.
EndFrame ==
    LET w == FoldSet(Delete_shot, world, world.dying)
    IN  /\ phase = "bury" /\ todo = {}
        /\ world' \in IF ~world.over \/ server.maxRoundTime > 0 THEN Compute_game_status(w) ELSE {w}
        /\ phase' = "idle" /\ UNCHANGED <<server, todo>>

Frame ==
    \/ StartFrame \/ StartPlayers \/ StartCollision \/ StartBurials \/ EndFrame
    \/ \E t \in Treasures : MoveBall(t)
    \/ \E p \in Players : UpdatePlayer(p) \/ Collide(p) \/ Bury(p)

Next ==
    \/ Frame
    \/ \E p \in Players : Enter(p) \/ Leave(p) \/ DropBall(p) \/ SelfDestruct(p)
    \/ \E p \in Humans : Pause(p) \/ Unpause(p)
    \/ Cmd_reset

Spec == Init /\ [][Next]_vars

-----------------------------------------------------------------------------
(* Properties.                                                             *)

States == {"out", "waiting", "appearing", "alive", "killed", "dead", "paused"}

\* Types.  Nobody has fewer than no lives (Player_death_reset), sets of players
\* name players who are there, and what is marked on balls is on balls that are.
TypeOK ==
    /\ server \in Servers /\ phase \in {"idle", "move", "players", "collide", "bury"}
    /\ todo \subseteq Treasures \cup Players
    /\ world.state \in [Players -> States] /\ world.life \in [Players -> 0 .. server.lives]
    /\ \A P \in {world.recovering, world.pausing, world.destructing, world.HAS_BALL} :
            P \subseteq Present(world)
    /\ \A B \in {world.dying, world.recreate, world.fused} : B \subseteq world.balls
    /\ world.roundtime \in -1 .. server.maxRoundTime
    /\ world.roundsPlayed \in 0 .. server.roundsToPlay + 1
    /\ world.round \in [Players -> 0 .. server.raceLaps + 1]
    /\ world.FINISH \cup world.RACE_OVER \subseteq Present(world)

\* A ball that is safe in its treasure is neither carried nor owned; those who
\* carry or own a ball are in the game, which Player_by_id takes for granted
\* (treasure.c:184, collision.c:711); and HAS_BALL is with those alive who carry
\* one.  The last needs teams, or endOfRoundReset: else Reset_all_players clears
\* HAS_BALL and leaves the balls where they are.
BallsSound ==
    /\ \A t \in world.have : /\ t \in world.balls /\ world.carrier[t] = NO_ID
                             /\ world.ball_owner[t] = NO_ID
    /\ \A t \in world.balls :
            {world.carrier[t], world.ball_owner[t]} \subseteq Present(world) \cup {NO_ID}
    /\ server.teamPlay \/ server.endOfRoundReset =>
            /\ \A t \in world.balls \ Free(world) :
                    world.carrier[t] \in Are({"alive", "killed"}, world)
            /\ world.HAS_BALL = {world.carrier[t] : t \in world.balls \ Free(world)}

\* The balls that are there, or come back when they are deleted (shot.c:1139).
Lasting == {t \in world.balls : t \in world.dying =>
                t \in world.recreate \/ world.ball_owner[t] = NO_ID}

\* A team has at least as many balls as it has treasures left: no ball is gone for
\* the rest of the round that Handle_Scoring has not counted (score.c:455), however
\* cashing, dying, leaving and the deletion of balls fall together.
NoLossUncounted ==
    \A x \in Teams : Cardinality(TreasuresOf(x) \cap Lasting) >= world.TreasuresLeft[x]

\* Those who do not play: out of the round, pausing, or killed with no life left.
Lost(w) == Out(w) \cup Paused(w) \cup {p \in Are({"killed"}, w) : w.life[p] = 0}

\* Everybody who does not pause appears, with all lives.
Begun(w) ==
    LET P == Present(w) \ Paused(w)
    IN  P = Are({"appearing"}, w) /\ \A p \in P : w.life[p] = server.lives

\* With limited lives, whoever does not play comes back only when a round begins
\* (Reset_all_players), and then everybody does: not by recovering (update.c:914),
\* not through treasureKillTeam, pausing or a self destruction he has begun.  When
\* the game is over the last may happen (update.c:930): Game_Over makes everybody
\* dead who has lives left.
OutStaysOut ==
    [][server.limitedLives /\ ~world.over /\ ~(Lost(world) \cap Present(world') \subseteq Lost(world'))
       => Begun(world')]_vars

\* With limited lives, no frame ends with somebody out and nobody in the game: then
\* all who play would wait for each other for ever.  Three ways of finding the end
\* of a round see to it: for teams, for single players, and for races, where who
\* waits has to count when the last racer leaves or pauses (race.c:207).
NobodyLeftOut ==
    [][/\ phase = "bury" /\ phase' = "idle"
       /\ server.limitedLives /\ ~world'.over /\ Out(world') # {}
       => Present(world') \ (Paused(world') \cup Out(world')) # {}]_vars

\* p is out of a round that has a time limit and rivals who may drag it out.
Rivals(p, w) == ~server.teamPlay \/ \E q \in Present(w) \ Paused(w) : Team[q] # Team[p]
Waits(p, w) == server.maxRoundTime > 0 /\ p \in Out(w) /\ Rivals(p, w)

\* Whoever waits for the next round waits maxRoundTime at most: while he does, the
\* time that is left gets less in every frame (player.c:1077), whoever enters,
\* leaves or pauses, and when it is over the round is.  Only the end of the game
\* sets it again without letting him in.
TimeRunsDown ==
    [][\A p \in Players : Waits(p, world) /\ Waits(p, world') /\ (world'.over => world.over) =>
          /\ world.roundtime >= 0 /\ world'.roundtime <= world.roundtime
          /\ phase = "bury" /\ phase' = "idle" => world'.roundtime < world.roundtime]_vars
=============================================================================

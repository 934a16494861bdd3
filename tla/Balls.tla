-------------------------------- MODULE Balls --------------------------------
(***************************************************************************)
(* Balls and the treasures they belong to: connectors, goals, touches and  *)
(* the deletion of balls (src/server/treasure.c, collision.c, shot.c,      *)
(* walls.c, and Detach_ball of player.c).                                  *)
(*                                                                         *)
(* Every operator takes a world, a record, as its last argument and gives  *)
(* the world (or the set of worlds) after the call, so that a handler      *)
(* reads as in the code.  A ball is named by its treasure: a treasure has  *)
(* one at most.  pl->ball, which may still point to a ball that is freed,  *)
(* is aim.  Positions are left open: whatever depends on where things are  *)
(* may happen or not.  Special balls and legacyMode are left out.          *)
(***************************************************************************)
EXTENDS Integers, FiniteSets, FiniteSetsExt

CONSTANTS
    Humans, Robots, \* players of either kind
    Treasures,      \* treasures, and the balls that come from them
    Team,           \* of players and treasures
    NO_ID,          \* no player
    NO_BALL,        \* a null pointer to a ball
    Servers         \* what a server may be started with

\* A negative limit of the options means none, as 0 does; in a race there are no
\* teams (map.c:582).
ASSUME BallsAssumption ==
    /\ IsFiniteSet(Humans \cup Robots) /\ NO_ID \notin Humans \cup Robots
    /\ IsFiniteSet(Treasures) /\ NO_BALL \notin Treasures
    /\ \A s \in Servers :
          /\ s.players \subseteq Humans \cup Robots /\ s.treasures \subseteq Treasures
          /\ {s.teamPlay, s.limitedLives, s.endOfRoundReset, s.treasureKillTeam, s.race,
              s.ballrace} \subseteq BOOLEAN
          /\ ~(s.teamPlay /\ s.race)
          /\ {s.lives, s.maxRoundTime, s.roundsToPlay, s.raceLaps} \subseteq Nat

VARIABLES
    server,         \* one of Servers
    world           \* players, balls, treasures, teams and the round

Players == Humans \cup Robots
Teams == {Team[p] : p \in server.players}
Present(w) == {p \in Players : w.state[p] # "out"}
Are(s, w) == {p \in Players : w.state[p] \in s}

\* A ball that may be connected to: nobody holds it.
Free(w) == {t \in w.balls : w.carrier[t] = NO_ID}
Carried(p, w) == {t \in w.balls : w.carrier[t] = p}

\* Player_set_state for all of P, with what it does to pl_life and recovery_count.
Player_set_state(P, s, w) ==
    [w EXCEPT !.state = [p \in Players |-> IF p \in P THEN s ELSE @[p]],
              !.life = [p \in Players |->
                            IF p \in P /\ s \in {"waiting", "paused"} THEN 0 ELSE @[p]],
              !.recovering = IF s = "appearing" THEN @ \cup P ELSE @]

\* Detach_ball of the balls B; Treasures stands for NULL, all of them.
Detach_ball(p, B, w) ==
    LET v == [w EXCEPT !.aim[p] = IF @ \in B THEN NO_BALL ELSE @]
    IN  IF p \notin w.HAS_BALL THEN v
        ELSE [v EXCEPT !.carrier = [t \in Treasures |-> IF t \in B /\ @[t] = p THEN NO_ID ELSE @[t]],
                       !.HAS_BALL = IF Carried(p, w) \subseteq B THEN @ \ {p} ELSE @]

\* Make_treasure_ball: the place of the ball freed last is taken again.
Make_treasure_ball(t, w) ==
    IF t \in w.have \/ t \in server.empty THEN w
    ELSE [w EXCEPT !.balls = @ \cup {t}, !.recreate = @ \cup {t}, !.have = @ \cup {t}]

\* Delete_shot of a ball.
Delete_shot(t, w) ==
    LET v == IF w.carrier[t] # NO_ID THEN Detach_ball(w.carrier[t], {t}, w)
             ELSE [w EXCEPT !.aim = [p \in Players |-> IF @[p] = t THEN NO_BALL ELSE @[p]]]
        never == w.ball_owner[t] = NO_ID
        freed == [v EXCEPT !.balls = @ \ {t}, !.dying = @ \ {t}, !.recreate = @ \ {t},
                           !.fused = @ \ {t}, !.carrier[t] = NO_ID, !.ball_owner[t] = NO_ID,
                           !.have = IF never THEN @ \ {t} ELSE @]
    IN  IF never \/ t \in w.recreate THEN Make_treasure_ball(t, freed) ELSE freed

\* Mutant: balls keep an owner who is gone.
Delete_players_balls_Owned(p, w) == FoldSet(Delete_shot, w, Carried(p, w))
\* What Delete_player does to balls: those attached go, others lose their owner.
Delete_players_balls(p, w) ==
    LET v == FoldSet(Delete_shot, w, Carried(p, w))
    IN  [v EXCEPT !.ball_owner = [t \in Treasures |-> IF @[t] = p THEN NO_ID ELSE @[t]]]

-----------------------------------------------------------------------------
(* Goals.                                                                  *)

\* Whom a lost treasure of a team concerns: pause_count > 0 is not paused yet.
InPlay(team, w) ==
    {p \in Present(w) : /\ Team[p] = team /\ w.state[p] # "waiting"
                        /\ w.state[p] = "paused" => p \in w.pausing}

\* Mutant: the ball of a treasure that was not counted as lost does not come back.
Punish_team_Always(p, t, w) ==
    LET loser == Team[t]
        members == InPlay(loser, w)
        w1 == [w EXCEPT !.TreasuresLeft[loser] = @ - 1,
                        !.TreasuresDestroyed[Team[p]] = @ + 1]
        v == IF loser = Team[p] \/ \A m \in members : w.state[m] = "dead" THEN w
             ELSE IF server.treasureKillTeam THEN Player_set_state(members, "killed", w1) ELSE w1
    IN  [v EXCEPT !.recreate = @ \ {t}]
\* Punish_team with the SCORE_TREASURE of Handle_Scoring, when the ball of t is
\* cashed by p; the scores are left out.
Punish_team(p, t, w) ==
    LET loser == Team[t]
        members == InPlay(loser, w)
        w1 == [w EXCEPT !.TreasuresLeft[loser] = @ - 1,
                        !.TreasuresDestroyed[Team[p]] = @ + 1,
                        !.recreate = @ \ {t}]
    IN  IF loser = Team[p] \/ \A m \in members : w.state[m] = "dead" THEN w
        ELSE IF server.treasureKillTeam THEN Player_set_state(members, "killed", w1) ELSE w1

\* Balltarget_hitfunc: the ball of t can hit the goal at the treasure g.
CanHit(t, g, w) ==
    LET o == w.ball_owner[t]
    IN  o = NO_ID \/ (server.teamPlay /\ (Team[t] = Team[g] => Team[o] = Team[g]))

\* Ball_hits_goal and what its callers do: the ball dies.
Ball_hits_goal(t, g, w) ==
    LET o == w.ball_owner[t]
        v == IF o = NO_ID THEN [w EXCEPT !.recreate = @ \cup {t}]
             ELSE IF ~server.teamPlay \/ Team[g] # Team[o] THEN w
             ELSE IF Team[t] = Team[g] THEN [w EXCEPT !.recreate = @ \cup {t}]
             ELSE IF server.captureTheFlag /\ g \notin w.have \cup server.empty THEN w
             ELSE Punish_team(o, t, w)
    IN  [v EXCEPT !.dying = @ \cup {t}]

\* A ball may reach a goal, or may not.
MayHit(t, w) ==
    {w} \cup {Ball_hits_goal(t, g, w) : g \in {x \in server.treasures : CanHit(t, x, w)}}

\* Move_object of a ball, which dies when it hits a wall too fast.
Move_object(t, w) == MayHit(t, w) \cup {[w EXCEPT !.dying = @ \cup {t}]}

\* Misc_object_update for one ball: the connector, which may snap, and the move.
Moved(t, w) ==
    LET v == [w EXCEPT !.fused = @ \ {t}]
        loose == IF w.carrier[t] = NO_ID THEN {v} ELSE {v, Detach_ball(w.carrier[t], {t}, v)}
    IN  UNION {IF t \in x.have THEN MayHit(t, x) ELSE Move_object(t, x) : x \in loose}

-----------------------------------------------------------------------------
(* Players and balls (PlayerCollision, for a player who does not phase).   *)

\* The ball p aims at is far enough: it is attached, inside a goal perhaps.
Attached(p, w) ==
    LET t == w.aim[p]
        v == [w EXCEPT !.carrier[t] = p, !.ball_owner[t] = p, !.have = @ \ {t},
                       !.HAS_BALL = @ \cup {p}, !.aim[p] = NO_BALL]
    IN  MayHit(t, v)

\* The part about balls of PlayerCollision.
Connected(p, w) ==
    LET none == [w EXCEPT !.aim[p] = NO_BALL]
        t == w.aim[p]
        near == {x \in Free(w) : ~(server.teamPlay /\ x \in w.have /\ Team[x] = Team[p])}
    IN  IF ~server.multipleConnectors /\ p \in w.HAS_BALL THEN {none}
        ELSE IF t # NO_BALL
        THEN IF t \in Free(w) \ w.dying THEN {none, w} \cup Attached(p, w) ELSE {none}
        ELSE {w} \cup {[w EXCEPT !.aim[p] = x] : x \in near}

\* Player_collides_with_ball.
Touched(p, t, w) ==
    LET v == IF server.treasureCollisionDestroys THEN [w EXCEPT !.dying = @ \cup {t}] ELSE w
        After(x) ==
            LET y == [x EXCEPT !.fused = @ \cup {t}, !.have = @ \ {t}]
                c == x.carrier[t]
            IN  IF c = NO_ID THEN [y EXCEPT !.ball_owner[t] = p]
                ELSE IF server.ballCollisionDetaches
                THEN [Detach_ball(c, {t}, y) EXCEPT !.ball_owner[t] = p]
                ELSE y
    IN  {Player_set_state({p}, "killed", v)}
        \cup (IF t \in w.fused THEN {v} ELSE {After(x) : x \in Move_object(t, v)})
=============================================================================

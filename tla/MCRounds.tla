------------------------------ MODULE MCRounds ------------------------------
(***************************************************************************)
(* Few players and balls on servers of several kinds.                      *)
(***************************************************************************)
EXTENDS Rounds, TLC

CONSTANTS h1, h2, r1, r2, r3, b1, b2, e1

\* Balls b1 and b2 are at home in the two teams; e1 is an empty goal.
TeamOf == [x \in {h1, b1, e1} |-> 1] @@ [x \in {h2, r1, r2, r3, b2} |-> 2]

Game(players, treasures, teamPlay, limitedLives) ==
    [players |-> players, treasures |-> treasures, empty |-> treasures \cap {e1},
     teamPlay |-> teamPlay, limitedLives |-> limitedLives,
     lives |-> IF limitedLives THEN 1 ELSE 0, resetOnHuman |-> 0,
     maxRoundTime |-> 0, roundsToPlay |-> 0, endOfRoundReset |-> TRUE,
     treasureKillTeam |-> FALSE, captureTheFlag |-> FALSE, multipleConnectors |-> FALSE,
     treasureCollisionDestroys |-> FALSE, ballCollisionDetaches |-> FALSE,
     race |-> FALSE, raceLaps |-> 0, ballrace |-> FALSE, ballrace_connect |-> FALSE]

Duel == [Game({h1, h2}, {b1, b2}, TRUE, TRUE) EXCEPT
            !.lives = 0, !.treasureKillTeam = TRUE, !.ballCollisionDetaches = TRUE]
Flags == [Game({h1, h2}, {b1, b2}, TRUE, FALSE) EXCEPT
            !.captureTheFlag = TRUE, !.maxRoundTime = 1,
            !.multipleConnectors = TRUE, !.treasureCollisionDestroys = TRUE,
            !.endOfRoundReset = FALSE, !.resetOnHuman = 1]
Goal == [Game({h1, h2}, {e1, b2}, TRUE, FALSE) EXCEPT
            !.maxRoundTime = 1, !.roundsToPlay = 1]
Melee == [Game({h1, h2, r1}, {}, FALSE, TRUE) EXCEPT
            !.maxRoundTime = 2, !.roundsToPlay = 2]
Loose == [Game({h1, h2}, {b1}, FALSE, TRUE) EXCEPT
            !.endOfRoundReset = FALSE, !.roundsToPlay = 1]
Race == [Game({h1, r2, r3}, {}, FALSE, TRUE) EXCEPT
            !.race = TRUE, !.raceLaps = 1, !.lives = 0]
BallRace == [Game({h1, h2}, {b1}, FALSE, FALSE) EXCEPT
            !.race = TRUE, !.raceLaps = 1, !.ballrace = TRUE, !.maxRoundTime = 1,
            !.roundsToPlay = 1, !.resetOnHuman = 1]

\* Two robots that are in the same servers are interchangeable.
Symmetry == Permutations({r2, r3})

AllServers == {Duel, Flags, Goal, Melee, Loose, Race, BallRace}
=============================================================================

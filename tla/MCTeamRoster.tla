---------------------------- MODULE MCTeamRoster ----------------------------
(***************************************************************************)
(* TeamRoster on small maps of three teams with one of two bases, and      *)
(* under the options that change what a handler does.  Players are         *)
(* interchangeable.                                                        *)
(***************************************************************************)
EXTENDS TeamRoster, TLC

\* Team 0 is for the robots; no player and robot ever wait for the same base.
Robots ==
    [baseTeam        |-> <<0, 1, 1, 2>>, robotTeam |-> 0,
     restrictRobots  |-> TRUE, reserveRobotTeam |-> TRUE,
     baselessPausing |-> FALSE, limitedLives |-> FALSE,
     minRobots |-> 0, maxRobots |-> 4, playerLimit |-> 4]

\* No team is for robots, and there are none: players, and rounds.
Rounds ==
    [baseTeam        |-> <<0, 0, 1, 2>>, robotTeam |-> 0,
     restrictRobots  |-> TRUE, reserveRobotTeam |-> FALSE,
     baselessPausing |-> FALSE, limitedLives |-> TRUE,
     minRobots |-> 0, maxRobots |-> 0, playerLimit |-> 4]

\* Who pauses gives his base away, and there is room for one player more than bases.
Baseless ==
    [Robots EXCEPT !.baseTeam = <<0, 1, 2>>, !.baselessPausing = TRUE]

\* Robots play where the players do.
Mixed ==
    [Rounds EXCEPT !.restrictRobots = FALSE, !.limitedLives = FALSE, !.maxRobots = 4]

\* Robots play where the players do, though one team is for robots only.
Everywhere ==
    [Robots EXCEPT !.restrictRobots = FALSE]

\* With rounds and limited lives.
MixedRounds ==
    [Mixed EXCEPT !.limitedLives = TRUE]

AllOptions == {Robots, Rounds, Baseless, Mixed, Everywhere, MixedRounds}

Symmetry == Permutations(Players)
=============================================================================

----------------------------- MODULE TeamRoster -----------------------------
(***************************************************************************)
(* Who plays in which team and from which base: joining, robots, pausing,  *)
(* and the /team command with its queue of players who wait for a place in *)
(* a full team (server/command.c, event.c, player.c, robot.c, contact.c,   *)
(* netserver.c).                                                           *)
(*                                                                         *)
(* Every team keeps a count of its members and the one player who waits to *)
(* get in.  The players keep their team and base.  The server is one       *)
(* thread, so that every handler is one step; but a handler that fails     *)
(* takes the server with it, and a search that does not end hangs it.      *)
(* `game' is the state of the whole; a function that the handlers share is *)
(* an operator from one such state to the next.                            *)
(*                                                                         *)
(* Scores are abstracted: where the lowest decides, anyone may be it.      *)
(* There are no tanks, spectators, operators and game locks here, and the  *)
(* order of a team's bases is left out: any free one is as good.  So are   *)
(* the privileges against being kicked: any paused players may have them.  *)
(***************************************************************************)
EXTENDS Integers, Sequences, FiniteSetsExt

CONSTANTS Players,           \* those who may be in the game
          NoId,              \* NO_ID
          NumTeams,
          Options            \* the maps and options a server may be started with

Teams == 0 .. NumTeams - 1

ASSUME RosterAssumption ==
    /\ IsFiniteSet(Players) /\ NoId \notin Players
    /\ NumTeams \in Nat \ {0}
    /\ \A o \in Options :
          /\ o.baseTeam \in Seq(Teams) /\ o.baseTeam # <<>>
          /\ o.robotTeam \in Teams
          /\ {o.restrictRobots, o.reserveRobotTeam, o.baselessPausing,
              o.limitedLives} \subseteq BOOLEAN
          /\ {o.minRobots, o.maxRobots, o.playerLimit} \subseteq Int

NoTeam == -1                 \* TEAM_NOT_SET
NoBase == 0

VARIABLES options,           \* what the server was started with
          game               \* the players, the teams and the server

vars == <<options, game>>

BaseTeam == options.baseTeam \* the team of each base, 1 .. Num_bases()
RobotTeam == options.robotTeam
RestrictRobots == options.restrictRobots
ReserveRobotTeam == options.reserveRobotTeam
BaselessPausing == options.baselessPausing
LimitedLives == options.limitedLives
MinRobots == options.minRobots
MaxRobots == options.maxRobots
PlayerLimit == options.playerLimit

Bases == DOMAIN BaseTeam

NumBases(t) == Cardinality({b \in Bases : BaseTeam[b] = t})
Reserved(t) == ReserveRobotTeam /\ t = RobotTeam

Init ==
    /\ options \in Options
    /\ game = [
            kind     |-> [p \in Players |-> "absent"],
            team     |-> [p \in Players |-> NoTeam],
            base     |-> [p \in Players |-> NoBase],
            paused   |-> {},
            prevTeam |-> [p \in Players |-> 0],      \* pl_prev_team
            members  |-> [t \in Teams |-> 0],        \* NumMembers
            robots   |-> [t \in Teams |-> 0],        \* NumRobots of the team
            swapper  |-> [t \in Teams |-> NoId],     \* SwapperId
            server   |-> "up"]

Of(g, k) == {p \in Players : g.kind[p] = k}
Present(g) == Of(g, "human") \cup Of(g, "robot")
Active(g) == Present(g) \ g.paused
Based(g, t) == {p \in Present(g) : g.team[p] = t /\ g.base[p] # NoBase}
HasRoom(g, t) == NumBases(t) > g.members[t]

-----------------------------------------------------------------------------
(* Functions that the handlers share.                                      *)

\* Mutant: active players are taken for paused.
BasedIn(g, t) == Based(g, t)

\* The paused players who hold one of the team's bases.
PausedIn(g, t) == g.paused \cap Based(g, t)

\* Check_team_members() sets the count right (and says so).
CheckTeamMembers(g, t) == [g EXCEPT !.members[t] = Cardinality(Based(g, t))]

\* Nobody in S waits for a place in a team.
Unqueue(g, S) ==
    [g EXCEPT !.swapper = [t \in Teams |-> IF g.swapper[t] \in S THEN NoId ELSE g.swapper[t]]]

\* Pick_startpos(): without a free base the server gives up.
PickStartpos(g, p) ==
    LET taken == {g.base[q] : q \in Present(g) \ {p}}
        free  == {b \in Bases : BaseTeam[b] = g.team[p]} \ taken
    IN  IF free = {} THEN [g EXCEPT !.server = "ended"]
                     ELSE [g EXCEPT !.base[p] = CHOOSE b \in free : TRUE]

\* Delete_player() for each of S, the counts of their teams looked at again.
DeletePlayers(g, S) ==
    LET lost(t) == Based(g, t) \cap S
        left    == {g.team[p] : p \in S}
    IN  [Unqueue(g, S) EXCEPT
            !.kind     = [p \in Players |-> IF p \in S THEN "absent" ELSE @[p]],
            !.team     = [p \in Players |-> IF p \in S THEN NoTeam ELSE @[p]],
            !.base     = [p \in Players |-> IF p \in S THEN NoBase ELSE @[p]],
            !.prevTeam = [p \in Players |-> IF p \in S THEN 0 ELSE @[p]],
            !.paused   = @ \ S,
            !.members  = [t \in Teams |-> IF t \in left THEN Cardinality(Based(g, t) \ S) ELSE @[t]],
            !.robots   = [t \in Teams |-> @[t] - Cardinality(lost(t) \cap Of(g, "robot"))]]
DeletePlayer(g, p) == DeletePlayers(g, {p})

\* Set_swapper_state(): with limited lives whoever has opponents must wait for
\* the next round, and is not paused any more.
SetSwapperState(g, p) ==
    IF LimitedLives /\ \E q \in Active(g) : g.team[q] # g.team[p]
    THEN [g EXCEPT !.paused = @ \ {p}]
    ELSE g

\* Pick_team(): the teams it may choose, if any.
PickTeam(g, robot) ==
    LET playing  == [t \in Teams |-> Cardinality({p \in Active(g) : g.team[p] = t})]
        free     == {t \in Teams : HasRoom(g, t) /\ (robot \/ ~Reserved(t))}
        inUse    == {t \in Teams : playing[t] > 0}
        smallest == {t \in free : \A u \in free \cap inUse : playing[t] <= playing[u]
                                                          /\ playing[t] > 0}
        first    == IF Cardinality(inUse) <= 1 THEN free \ inUse
                    ELSE IF free \cap inUse = {} THEN free ELSE smallest
        choice   == IF first = {} THEN free ELSE first
    IN  IF robot /\ RestrictRobots THEN {IF HasRoom(g, RobotTeam) THEN RobotTeam ELSE NoTeam}
        ELSE IF choice = {} THEN {NoTeam}
        ELSE IF Cardinality(choice) = 1 THEN choice ELSE choice \ {RobotTeam}

-----------------------------------------------------------------------------
(* Joining and leaving.                                                    *)

\* Kick_robot_players(): none, or one of them.
KickRobot(g, t) ==
    {DeletePlayer(g, p) : p \in {q \in Of(g, "robot") :
                                    IF t = NoTeam THEN ~Reserved(g.team[q])
                                    ELSE g.robots[t] > 0 /\ g.team[q] = t}}

\* Kick_paused_players(): some of them, but those with a privilege; where all
\* that are left have one, nobody is.
KickPaused(g, t) ==
    LET paused == IF t = NoTeam THEN g.paused ELSE PausedIn(g, t)
    IN  {DeletePlayers(g, S) : S \in (SUBSET paused) \ {{}}}

\* Queue_loop(): is there room for one more?
Limit == IF BaselessPausing THEN PlayerLimit ELSE Min({PlayerLimit, Len(BaseTeam)})
Room(g) == Cardinality(Present(g) \cup Of(g, "joining")) < Limit

\* The states in which it goes on, some players kicked for the purpose, with
\* success or not.
MakeRoom(g) ==
    IF Room(g) THEN {g}
    ELSE LET kicked == KickRobot(g, NoTeam)
             full   == IF kicked = {} THEN {g} ELSE {h \in kicked : ~Room(h)}
         IN  {h \in kicked : Room(h)} \cup
             UNION {{h} \cup KickPaused(h, NoTeam) : h \in full}

\* The state and the team after the player's wish has been looked at ...
Wish(g, t) ==
    IF t = NoTeam \/ Reserved(t) THEN {<<g, NoTeam>>}
    ELSE IF HasRoom(g, t) THEN {<<g, t>>}
    ELSE LET robots == KickRobot(g, t)
         IN  IF robots # {} THEN robots \X {t}
             ELSE {<<g, NoTeam>>} \cup (KickPaused(g, t) \X {t})

\* ... and after a team has been found for a player without one.
FindTeam(g) ==
    LET robots == Cardinality(Of(g, "robot"))
    IN  UNION {IF t = NoTeam /\ robots > g.robots[RobotTeam]
               THEN UNION {{h} \X PickTeam(h, FALSE) : h \in KickRobot(g, NoTeam)}
               ELSE {<<g, t>>} : t \in PickTeam(g, FALSE)}

\* Queue_loop(): a player in the queue of the contact port gets a connection, if
\* there is room and a connection to be had.
Admit(p, wish) ==
    /\ game.kind[p] = "absent"
    /\ \E g \in MakeRoom(game) :
          IF ~Room(g) THEN game' = g
          ELSE \E w \in Wish(g, wish) :
               \E v \in IF w[2] = NoTeam THEN FindTeam(w[1]) ELSE {w} :
                  \/ game' = [v[1] EXCEPT !.kind[p] = "joining", !.team[p] = v[2]]
                  \/ game' = v[1]

\* Its login ends before the player is made.
GiveUpLogin(p) ==
    /\ game.kind[p] = "joining"
    /\ game' = [game EXCEPT !.kind[p] = "absent", !.team[p] = NoTeam]

\* Mutant: the team asked for is taken for granted.
StillFitsAlways(g, t) == t # NoTeam

\* Handle_login() looks again whether the team has room.
StillFits(g, t) ==
    /\ t # NoTeam /\ ~Reserved(t)
    /\ NumBases(t) > 0
    /\ CheckTeamMembers(g, t).members[t] - g.robots[t] < NumBases(t)

\* The player enters, with a base or paused without one.
Enter(g, p, t) ==
    LET human == [g EXCEPT !.kind[p] = "human"]
        based == PickStartpos([human EXCEPT !.team[p] = t], p)
    IN  IF t = NoTeam THEN [human EXCEPT !.team[p] = 0, !.paused = @ \cup {p}]
                      ELSE [based EXCEPT !.members[t] = @ + 1]

\* Handle_login()
Login(p) ==
    LET wish == game.team[p]
        g    == IF wish # NoTeam /\ ~Reserved(wish) /\ NumBases(wish) > 0
                THEN CheckTeamMembers(game, wish) ELSE game
    IN  /\ game.kind[p] = "joining"
        /\ \E t \in IF StillFits(g, wish) THEN {wish} ELSE PickTeam(g, FALSE) :
              game' = Enter(g, p, t)

\* A player quits, is kicked, or has lost his connection.
Leave(p) == game.kind[p] = "human" /\ game' = DeletePlayer(game, p)

\* Robot_update(): enough robots, room for another one, ...
NumRobots(g) == Cardinality(Of(g, "robot"))
NumShips(g) == Cardinality(Present(g) \cup Of(g, "joining"))
RobotWanted(g) ==
    /\ NumShips(g) < MaxRobots \/ NumRobots(g) < MinRobots
    /\ BaselessPausing \/ NumShips(g) < Len(BaseTeam)
    /\ RestrictRobots => HasRoom(g, RobotTeam)

\* ... Robot_create(), which must get a team, ...
RobotCreate(p) ==
    /\ game.kind[p] = "absent" /\ RobotWanted(game)
    /\ \E t \in PickTeam(game, TRUE) :
          game' = IF t = NoTeam THEN [game EXCEPT !.server = "aborted"]
                  ELSE PickStartpos([game EXCEPT !.kind[p] = "robot", !.team[p] = t,
                                         !.members[t] = @ + 1, !.robots[t] = @ + 1], p)

\* ... or too many of them.
RobotRemove(p) ==
    /\ game.kind[p] = "robot" /\ ~RobotWanted(game)
    /\ \/ ~BaselessPausing /\ NumShips(game) > Len(BaseTeam)
       \/ NumShips(game) > MaxRobots /\ NumRobots(game) > MinRobots
    /\ game' = DeletePlayer(game, p)

-----------------------------------------------------------------------------
(* Pausing and moving.                                                     *)

\* Pause_player(pl, true): nobody gets into the team of the one who pauses, and
\* his own place in a queue is lost.
Pause(p) ==
    LET t     == game.team[p]
        quiet == Unqueue([game EXCEPT !.swapper[t] = NoId, !.paused = @ \cup {p}], {p})
    IN  /\ game.kind[p] = "human" /\ p \notin game.paused
        /\ game' = IF ~BaselessPausing THEN quiet
                   ELSE IF game.base[p] = NoBase THEN [game EXCEPT !.server = "crashed"]
                   ELSE [quiet EXCEPT !.members[t] = @ - 1, !.prevTeam[p] = t,
                                      !.team[p] = 0, !.base[p] = NoBase]

\* A player takes a free place in team t.
MoveTo(g, p, t) ==
    LET left == IF g.base[p] = NoBase THEN g ELSE [g EXCEPT !.members[g.team[p]] = @ - 1]
    IN  PickStartpos(SetSwapperState([left EXCEPT !.team[p] = t, !.members[t] = @ + 1], p), p)

\* Mutant: a player is unpaused, base or not.
UnpauseAnyway(p) == p \in game.paused /\ game' = [game EXCEPT !.paused = @ \ {p}]

\* Pause_player(pl, false), the minimum time over: without a base back into the
\* team he was in, if there is room.
Unpause(p) ==
    LET back == game.prevTeam[p]
    IN  /\ p \in game.paused
        /\ \/ /\ game.base[p] # NoBase
              /\ game' = [game EXCEPT !.paused = @ \ {p}]
           \/ /\ game.base[p] = NoBase
              /\ back > 0 /\ HasRoom(game, back)
              /\ game' = [MoveTo(game, p, back) EXCEPT !.paused = @ \ {p}]

\* Player_change_home(): a base of his own team, and another one for the team
\* mate who had it.
ChangeHome(p, b) ==
    LET g      == [game EXCEPT !.base[p] = b]
        owners == {q \in Present(game) \ {p} : game.base[q] = b}
    IN  /\ game.kind[p] = "human" /\ p \notin game.paused
        /\ BaseTeam[b] = game.team[p] /\ b # game.base[p]
        /\ IF owners = {} THEN game' = g
                          ELSE \E q \in owners : game' = PickStartpos(g, q)

\* Where the player who waits for a place in team t comes from.
ComesFrom(g, t) == IF t = NoTeam \/ g.swapper[t] = NoId THEN NoTeam ELSE g.team[g.swapper[t]]

\* The teams on the way from team t, against the queues.
Way(g, t) ==
    LET way[n \in 0 .. NumTeams + 1] == IF n = 0 THEN t ELSE ComesFrom(g, way[n - 1])
    IN  way

\* How far it is from the team of p to team t that way, or 0.
FirstMeeting(g, p, t) ==
    LET hits == {n \in 1 .. NumTeams + 1 : Way(g, g.team[p])[n] = t}
    IN  IF hits = {} \/ g.base[p] = NoBase THEN 0 ELSE Min(hits)

\* The search goes on for ever: as many steps as there are teams, and no end.
Endless(g, p, t) ==
    g.base[p] # NoBase /\ FirstMeeting(g, p, t) = 0 /\ Way(g, g.team[p])[NumTeams + 1] # NoTeam

\* Mutant: the queues along the way are not emptied.
RotateKeepsQueues(g, p, t) ==
    LET way    == Way(g, g.team[p])
        n      == FirstMeeting(g, p, t)
        movers == [i \in 1 .. n |-> g.swapper[way[i - 1]]]
        bases  == [i \in 1 .. n |-> g.base[IF i = 1 THEN p ELSE movers[i - 1]]]
        turn[i \in 0 .. n] ==
            IF i = 0 THEN g
            ELSE SetSwapperState([turn[i - 1] EXCEPT !.team[movers[i]] = way[i - 1],
                                                     !.base[movers[i]] = bases[i]], movers[i])
    IN  SetSwapperState([turn[n] EXCEPT !.team[p] = t, !.base[p] = g.base[movers[n]]], p)

\* Mutant: everybody on the way takes his own base along.
RotateKeepsBases(g, p, t) ==
    LET way    == Way(g, g.team[p])
        n      == FirstMeeting(g, p, t)
        movers == [i \in 1 .. n |-> g.swapper[way[i - 1]]]
        turn[i \in 0 .. n] ==
            IF i = 0 THEN g
            ELSE SetSwapperState([turn[i - 1] EXCEPT !.swapper[way[i - 1]] = NoId,
                                                     !.team[movers[i]] = way[i - 1]], movers[i])
    IN  SetSwapperState([turn[n] EXCEPT !.team[p] = t], p)

\* Each of those who wait along the way takes the place of the one before him,
\* and p the place of the last.
Rotate(g, p, t) ==
    LET way    == Way(g, g.team[p])
        n      == FirstMeeting(g, p, t)
        movers == [i \in 1 .. n |-> g.swapper[way[i - 1]]]
        bases  == [i \in 1 .. n |-> g.base[IF i = 1 THEN p ELSE movers[i - 1]]]
        turn[i \in 0 .. n] ==
            IF i = 0 THEN g
            ELSE SetSwapperState([turn[i - 1] EXCEPT !.swapper[way[i - 1]] = NoId,
                                                     !.team[movers[i]] = way[i - 1],
                                                     !.base[movers[i]] = bases[i]], movers[i])
    IN  SetSwapperState([turn[n] EXCEPT !.team[p] = t, !.base[p] = g.base[movers[n]]], p)

\* p swaps with a paused player of the team.
SwapWithPaused(g, p, q) ==
    SetSwapperState(SetSwapperState(
        [g EXCEPT !.team[q] = g.team[p], !.team[p] = g.team[q],
                  !.base[q] = g.base[p], !.base[p] = g.base[q]], q), p)

\* Cmd_team(): the command first takes the player out of all the queues.
Refused(p, t) ==
    \/ t = game.team[p] /\ game.base[p] # NoBase
    \/ NumBases(t) = 0 \/ Reserved(t)

TeamRefused(p, t) ==
    /\ game.kind[p] = "human" /\ Refused(p, t)
    /\ game' = Unqueue(game, {p})

\* There is a free place.  A player without a base is unpaused, if the minimum
\* time is over.
TeamFree(p, t) ==
    LET g == Unqueue(game, {p})
    IN  /\ game.kind[p] = "human" /\ ~Refused(p, t) /\ HasRoom(g, t)
        /\ \/ game' = MoveTo(g, p, t)
           \/ /\ game.base[p] = NoBase
              /\ game' = [MoveTo(g, p, t) EXCEPT !.paused = @ \ {p}]

\* The team is full: somebody in it waits to get, over others perhaps, to the
\* place of p; or it has a paused player; or p has to wait.
TeamFull(p, t) ==
    LET g      == Unqueue(game, {p})
        paused == PausedIn(g, t)
    IN  /\ game.kind[p] = "human" /\ ~Refused(p, t) /\ ~HasRoom(g, t)
        /\ CASE Endless(g, p, t)          -> game' = [g EXCEPT !.server = "looping"]
             [] FirstMeeting(g, p, t) > 0 -> game' = Rotate(g, p, t)
             [] OTHER ->
                  IF paused # {} THEN \E q \in paused : game' = SwapWithPaused(g, p, q)
                                 ELSE game' = [g EXCEPT !.swapper[t] = p]

-----------------------------------------------------------------------------

Next ==
    /\ game.server = "up"
    /\ UNCHANGED options
    /\ \E p \in Players :
          \/ \E wish \in Teams \cup {NoTeam} : Admit(p, wish)
          \/ GiveUpLogin(p)
          \/ Login(p)
          \/ Leave(p)
          \/ RobotCreate(p)
          \/ RobotRemove(p)
          \/ Pause(p)
          \/ Unpause(p)
          \/ \E b \in Bases : ChangeHome(p, b)
          \/ \E t \in Teams : TeamRefused(p, t)
          \/ \E t \in Teams : TeamFree(p, t)
          \/ \E t \in Teams : TeamFull(p, t)

Spec == Init /\ [][Next]_vars

-----------------------------------------------------------------------------

\* A player without a base is in team 0.  He gets into the game without one when
\* limited lives make everybody wait who is swapped, and others lose theirs to him
\* when they may swap into team 0.  Neither happens where everybody gets a base,
\* nor with one life for all when team 0 is that of the robots.
BasesKept ==
    \/ ~BaselessPausing /\ ~ReserveRobotTeam
    \/ ~LimitedLives /\ Reserved(0)

\* The robots, if there are any, have a team of their own.
RobotsApart ==
    \/ RestrictRobots /\ ReserveRobotTeam
    \/ MinRobots <= 0 /\ MaxRobots <= 0

\* While robots keep to their team, no sequence of logins, kicks, pauses and team
\* changes brings the server down: whoever is given a team gets a base in it, who
\* gives his base away has one; and unless players without a base wait in queues,
\* and return to another team than they waited in, the search of /team ends.
KeepsRunning ==
    BasesKept /\ RobotsApart =>
        game.server = "up" \/ (game.server = "looping" /\ BaselessPausing)

\* The members of a team are those who hold one of its bases, as many as it says
\* (Check_team_members() has nothing to put right), and everybody else's base is
\* somebody else's.
MembersCounted ==
    BasesKept /\ game.server = "up" =>
      /\ \A t \in Teams : /\ game.members[t] = Cardinality(Based(game, t))
                          /\ game.robots[t] = Cardinality(Based(game, t) \cap Of(game, "robot"))
      /\ \A p \in Present(game) : game.base[p] # NoBase =>
             /\ BaseTeam[game.base[p]] = game.team[p]
             /\ \A q \in Present(game) \ {p} : game.base[q] # game.base[p]

\* Who takes part in the game has a base to start from.
ActiveHaveBase ==
    BasesKept /\ game.server = "up" => \A p \in Active(game) : game.base[p] # NoBase

\* Who waits for a place in a team is a player, in one queue only.  Where everybody
\* keeps his base, also while he pauses, there is no circle of teams in each of
\* which a player of the next one waits, and nobody waits for his own team: a
\* command that would close a circle makes everybody on it move (command.c:1169).
\* Players who wait without a base get one in another team when they return, and
\* may close one.
QueueSound ==
    /\ \A t \in Teams : LET p == game.swapper[t] IN p # NoId =>
          /\ game.kind[p] = "human"
          /\ \A u \in Teams \ {t} : game.swapper[u] # p
    /\ BasesKept /\ ~BaselessPausing =>
          \A S \in (SUBSET Teams) \ {{}} : \E t \in S : ComesFrom(game, t) \notin S

\* Nobody is moved into another team against his will: whoever neither asked
\* for his new team nor is paused stays where he is, but for the one player
\* whose command it is.
MovedByWill ==
    [][Cardinality({p \in Active(game) \cap Active(game)' :
                       /\ game'.team[p] # game.team[p]
                       /\ game.swapper[game'.team[p]] # p}) <= 1]_vars
=============================================================================

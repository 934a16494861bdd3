--------------------------- MODULE TeamRosterProofs ---------------------------
(***************************************************************************)
(* Every team's count of its members is right, who takes part in the game  *)
(* has a base of his own, and while robots keep to their team no sequence  *)
(* of logins, kicks, pauses and team changes brings the server down.       *)
(*                                                                         *)
(* The functions that the handlers share are described by what they leave  *)
(* of a game (..Effect); each handler is then seen to keep the invariant.  *)
(***************************************************************************)
EXTENDS TeamRoster, FiniteSetTheorems, FunctionTheorems, SequenceTheorems,
        WellFoundedInduction, TLAPS

Kinds == {"absent", "joining", "human", "robot"}
Servers == {"up", "ended", "aborted", "crashed", "looping"}

Games ==
    [kind : [Players -> Kinds], team : [Players -> Teams \cup {NoTeam}],
     base : [Players -> Bases \cup {NoBase}], paused : SUBSET Players,
     prevTeam : [Players -> Teams], members : [Teams -> Int], robots : [Teams -> Int],
     swapper : [Teams -> Players \cup {NoId}], server : Servers]

\* Those in the game have a team, and only they may have a base or a pause.
Placed(g) ==
    /\ \A p \in Present(g) : g.team[p] \in Teams
    /\ \A p \in Players \ Present(g) : g.base[p] = NoBase
    /\ g.paused \subseteq Of(g, "human")

\* Who waits is a player, in one queue.
Queues(g) ==
    \A t \in Teams : g.swapper[t] # NoId =>
        /\ g.kind[g.swapper[t]] = "human"
        /\ \A u \in Teams \ {t} : g.swapper[u] # g.swapper[t]

Basic(g) == g \in Games /\ Placed(g) /\ Queues(g)

Counted(g) ==
    \A t \in Teams : /\ g.members[t] = Cardinality(Based(g, t))
                     /\ g.robots[t] = Cardinality(Based(g, t) \cap Of(g, "robot"))

Owned(g) ==
    \A p \in Present(g) : g.base[p] # NoBase =>
        /\ BaseTeam[g.base[p]] = g.team[p]
        /\ \A q \in Present(g) \ {p} : g.base[q] # g.base[p]

\* Who has no base is paused, in team 0, and that is the team of the robots.
Seated(g) ==
    /\ \A p \in Present(g) : g.base[p] = NoBase => Reserved(0) /\ p \in g.paused /\ g.team[p] = 0
    /\ \A p \in Of(g, "human") : g.base[p] # NoBase => ~Reserved(g.team[p])
    /\ \A t \in Teams : Reserved(t) => g.swapper[t] = NoId

\* There are no more than bases, counting those who log in.
Fits(g) == ~BaselessPausing => Cardinality(Present(g) \cup Of(g, "joining")) <= Len(BaseTeam)

RobotsStay(g) ==
    /\ RestrictRobots => \A p \in Of(g, "robot") : g.team[p] = RobotTeam
    /\ MinRobots <= 0 /\ MaxRobots <= 0 => Of(g, "robot") = {}

\* No circle of teams in each of which a player of the next one waits.
NoCircle(g) ==
    ~BaselessPausing =>
        /\ \A p \in Players : g.prevTeam[p] = 0
        /\ \A S \in SUBSET Teams : S # {} => \E t \in S : ComesFrom(g, t) \notin S

Good(g) == Counted(g) /\ Owned(g) /\ Seated(g) /\ Fits(g) /\ RobotsStay(g) /\ NoCircle(g)

Lasting(g) == g.server = "up" \/ (g.server = "looping" /\ BaselessPausing)

IInv ==
    /\ options \in Options
    /\ Basic(game)
    /\ BasesKept => NoCircle(game) /\ (game.server = "up" => Good(game))
    /\ BasesKept /\ RobotsApart => Lasting(game)

-----------------------------------------------------------------------------
(* What the servers' settings are.                                         *)

LEMMA Settings ==
    ASSUME options \in Options
    PROVE  /\ BaseTeam \in Seq(Teams) /\ Len(BaseTeam) \in Nat \ {0}
           /\ Bases = 1 .. Len(BaseTeam) /\ IsFiniteSet(Bases) /\ Cardinality(Bases) = Len(BaseTeam)
           /\ \A b \in Bases : BaseTeam[b] \in Teams
           /\ RobotTeam \in Teams /\ 0 \in Teams /\ NoTeam \notin Teams /\ NoBase \notin Bases
           /\ {RestrictRobots, ReserveRobotTeam, BaselessPausing, LimitedLives} \subseteq BOOLEAN
           /\ {MinRobots, MaxRobots, PlayerLimit} \subseteq Int
           /\ IsFiniteSet(Teams) /\ Cardinality(Teams) = NumTeams /\ NumTeams \in Nat \ {0}
           /\ IsFiniteSet(Players) /\ NoId \notin Players
<1>1. /\ BaseTeam \in Seq(Teams) /\ BaseTeam # <<>> /\ RobotTeam \in Teams
      /\ {RestrictRobots, ReserveRobotTeam, BaselessPausing, LimitedLives} \subseteq BOOLEAN
      /\ {MinRobots, MaxRobots, PlayerLimit} \subseteq Int
      /\ NumTeams \in Nat \ {0} /\ IsFiniteSet(Players) /\ NoId \notin Players
  BY RosterAssumption DEF BaseTeam, RobotTeam, RestrictRobots, ReserveRobotTeam,
     BaselessPausing, LimitedLives, MinRobots, MaxRobots, PlayerLimit
<1>2. Len(BaseTeam) \in Nat \ {0} /\ Bases = 1 .. Len(BaseTeam)
  BY <1>1, LenProperties, EmptySeq DEF Bases
<1>3. \A b \in Bases : BaseTeam[b] \in Teams
  BY <1>1, <1>2, ElementOfSeq
<1>4. IsFiniteSet(Bases) /\ Cardinality(Bases) = Len(BaseTeam)
  <2> DEFINE a == 1
             b == Len(BaseTeam)
  <2>1. a \in Int /\ b \in Int /\ a .. b = Bases /\ (IF a > b THEN 0 ELSE b - a + 1) = b
    BY <1>2
  <2> HIDE DEF a, b
  <2>2. IsFiniteSet(a .. b) /\ Cardinality(a .. b) = IF a > b THEN 0 ELSE b - a + 1
    BY <2>1, FS_Interval
  <2> QED BY <2>1, <2>2 DEF b
<1>5. IsFiniteSet(Teams) /\ Cardinality(Teams) = NumTeams
  <2> DEFINE a == 0
             b == NumTeams - 1
  <2>1. a \in Int /\ b \in Int /\ a .. b = Teams /\ (IF a > b THEN 0 ELSE b - a + 1) = NumTeams
    BY <1>1 DEF Teams
  <2> HIDE DEF a, b
  <2>2. IsFiniteSet(a .. b) /\ Cardinality(a .. b) = IF a > b THEN 0 ELSE b - a + 1
    BY <2>1, FS_Interval
  <2> QED BY <2>1, <2>2
<1>6. 0 \in Teams /\ NoTeam \notin Teams /\ NoBase \notin Bases
  BY <1>1, <1>2 DEF Teams, NoTeam, NoBase
<1> QED BY <1>1, <1>2, <1>3, <1>4, <1>5, <1>6

LEMMA Fields ==
    ASSUME NEW g \in Games
    PROVE  /\ g.kind \in [Players -> Kinds] /\ g.team \in [Players -> Teams \cup {NoTeam}]
           /\ g.base \in [Players -> Bases \cup {NoBase}] /\ g.paused \in SUBSET Players
           /\ g.prevTeam \in [Players -> Teams] /\ g.members \in [Teams -> Int]
           /\ g.robots \in [Teams -> Int] /\ g.swapper \in [Teams -> Players \cup {NoId}]
           /\ g.server \in Servers
BY DEF Games

-----------------------------------------------------------------------------
(* What the functions that the handlers share do.                          *)

\* The game but for bases and the server.
SameBut(g, h) ==
    /\ h.kind = g.kind /\ h.team = g.team /\ h.prevTeam = g.prevTeam
    /\ h.members = g.members /\ h.robots = g.robots /\ h.swapper = g.swapper

\* p has got a base of his team that nobody had, or there was none.
Started(g, p, h) ==
    /\ h \in Games /\ SameBut(g, h) /\ h.paused = g.paused
    /\ \/ /\ h.base = g.base /\ h.server = "ended"
          /\ \A b \in Bases : BaseTeam[b] = g.team[p] => \E q \in Present(g) \ {p} : g.base[q] = b
       \/ /\ h.server = g.server
          /\ \E b \in Bases : /\ BaseTeam[b] = g.team[p] /\ h.base = [g.base EXCEPT ![p] = b]
                              /\ \A q \in Present(g) \ {p} : g.base[q] # b

LEMMA PickStartposEffect ==
    ASSUME NEW g \in Games, NEW p \in Players
    PROVE  Started(g, p, PickStartpos(g, p))
<1> SUFFICES ASSUME NEW h, h = PickStartpos(g, p) PROVE Started(g, p, h)
  OBVIOUS
<1> DEFINE taken == {g.base[q] : q \in Present(g) \ {p}}
           free  == {b \in Bases : BaseTeam[b] = g.team[p]} \ taken
<1>1. CASE free = {}
  <2>1. h = [g EXCEPT !.server = "ended"]
    BY <1>1 DEF PickStartpos
  <2>2. h \in Games /\ SameBut(g, h) /\ h.paused = g.paused /\ h.base = g.base /\ h.server = "ended"
    BY <2>1 DEF Games, Servers, SameBut
  <2> QED BY <1>1, <2>2 DEF Started
<1>2. CASE free # {}
  <2> DEFINE b == CHOOSE x \in free : TRUE
  <2>1. h = [g EXCEPT !.base[p] = b]
    BY <1>2 DEF PickStartpos
  <2>2. b \in free
    BY <1>2
  <2> HIDE DEF b
  <2>3. /\ h \in Games /\ SameBut(g, h) /\ h.paused = g.paused /\ h.server = g.server
        /\ h.base = [g.base EXCEPT ![p] = b]
    BY <2>1, <2>2, SMTT(40) DEF Games, SameBut
  <2> QED BY <2>2, <2>3 DEF Started
<1> QED BY <1>1, <1>2

LEMMA SetSwapperEffect ==
    ASSUME NEW g \in Games, NEW p \in Players
    PROVE  LET h == SetSwapperState(g, p)
           IN  /\ h \in Games /\ SameBut(g, h) /\ h.base = g.base /\ h.server = g.server
               /\ h.paused \subseteq g.paused /\ (~LimitedLives => h.paused = g.paused)
               /\ h.paused \in {g.paused, g.paused \ {p}}
<1>1. SetSwapperState(g, p) \in {g, [g EXCEPT !.paused = @ \ {p}]}
      /\ (~LimitedLives => SetSwapperState(g, p) = g)
  BY DEF SetSwapperState
<1> QED BY <1>1 DEF Games, SameBut

LEMMA UnqueueEffect ==
    ASSUME NEW g \in Games, NEW S
    PROVE  LET h == Unqueue(g, S)
           IN  /\ h \in Games /\ h.kind = g.kind /\ h.team = g.team /\ h.base = g.base
               /\ h.paused = g.paused /\ h.prevTeam = g.prevTeam /\ h.members = g.members
               /\ h.robots = g.robots /\ h.server = g.server
               /\ h.swapper = [t \in Teams |-> IF g.swapper[t] \in S THEN NoId ELSE g.swapper[t]]
BY DEF Unqueue, Games

LEMMA DeleteEffect ==
    ASSUME NEW g \in Games, NEW S \in SUBSET Players, options \in Options
    PROVE  LET h == DeletePlayers(g, S)
           IN  /\ h \in Games /\ h.server = g.server /\ h.paused = g.paused \ S
               /\ h.kind = [p \in Players |-> IF p \in S THEN "absent" ELSE g.kind[p]]
               /\ h.team = [p \in Players |-> IF p \in S THEN NoTeam ELSE g.team[p]]
               /\ h.base = [p \in Players |-> IF p \in S THEN NoBase ELSE g.base[p]]
               /\ h.prevTeam = [p \in Players |-> IF p \in S THEN 0 ELSE g.prevTeam[p]]
               /\ h.swapper = [t \in Teams |-> IF g.swapper[t] \in S THEN NoId ELSE g.swapper[t]]
               /\ h.members = [t \in Teams |-> IF \E p \in S : g.team[p] = t
                                               THEN Cardinality(Based(g, t) \ S) ELSE g.members[t]]
               /\ h.robots = [t \in Teams |-> g.robots[t]
                                 - Cardinality((Based(g, t) \cap S) \cap Of(g, "robot"))]
<1> DEFINE u == Unqueue(g, S)
           M == [t \in Teams |-> IF \E p \in S : g.team[p] = t
                                 THEN Cardinality(Based(g, t) \ S) ELSE g.members[t]]
           R == [t \in Teams |-> g.robots[t] - Cardinality((Based(g, t) \cap S) \cap Of(g, "robot"))]
           h == [u EXCEPT
                  !.kind     = [p \in Players |-> IF p \in S THEN "absent" ELSE @[p]],
                  !.team     = [p \in Players |-> IF p \in S THEN NoTeam ELSE @[p]],
                  !.base     = [p \in Players |-> IF p \in S THEN NoBase ELSE @[p]],
                  !.prevTeam = [p \in Players |-> IF p \in S THEN 0 ELSE @[p]],
                  !.paused   = @ \ S,
                  !.members  = M,
                  !.robots   = R]
<1>1. u \in Games /\ u.members = g.members /\ u.robots = g.robots
  BY UnqueueEffect
<1>2. M \in [Teams -> Int] /\ R \in [Teams -> Int]
  <2>1. \A t \in Teams : /\ IsFiniteSet(Based(g, t) \ S)
                         /\ IsFiniteSet((Based(g, t) \cap S) \cap Of(g, "robot"))
    BY Settings, FS_Subset DEF Based, Present, Of
  <2>2. \A t \in Teams : /\ Cardinality(Based(g, t) \ S) \in Nat
                         /\ Cardinality((Based(g, t) \cap S) \cap Of(g, "robot")) \in Nat
    BY <2>1, FS_CardinalityType
  <2>3. g.members \in [Teams -> Int] /\ g.robots \in [Teams -> Int]
    BY Fields
  <2>4. ASSUME NEW t \in Teams PROVE M[t] \in Int /\ R[t] \in Int
    <3> DEFINE a == Cardinality(Based(g, t) \ S)
               b == Cardinality((Based(g, t) \cap S) \cap Of(g, "robot"))
    <3>1. a \in Nat /\ b \in Nat /\ g.members[t] \in Int /\ g.robots[t] \in Int
      BY <2>2, <2>3
    <3>2. M[t] \in {a, g.members[t]} /\ R[t] = g.robots[t] - b
      OBVIOUS
    <3> HIDE DEF a, b, M, R
    <3> QED BY <3>1, <3>2
  <2>5. M = [t \in Teams |-> M[t]] /\ R = [t \in Teams |-> R[t]]
    OBVIOUS
  <2> HIDE DEF M, R
  <2> QED BY <2>4, <2>5
<1>3. DeletePlayers(g, S) = h
  BY <1>1, ZenonT(60) DEF DeletePlayers
<1> HIDE DEF M, R
<1>4. h \in Games
  BY <1>1, <1>2, Settings DEF Games, Kinds
<1>5. /\ h.server = u.server /\ h.paused = u.paused \ S /\ h.members = M /\ h.robots = R
      /\ h.swapper = u.swapper
      /\ h.kind = [p \in Players |-> IF p \in S THEN "absent" ELSE u.kind[p]]
      /\ h.team = [p \in Players |-> IF p \in S THEN NoTeam ELSE u.team[p]]
      /\ h.base = [p \in Players |-> IF p \in S THEN NoBase ELSE u.base[p]]
      /\ h.prevTeam = [p \in Players |-> IF p \in S THEN 0 ELSE u.prevTeam[p]]
  BY <1>1 DEF Games
<1>6. /\ u.kind = g.kind /\ u.team = g.team /\ u.base = g.base /\ u.paused = g.paused
      /\ u.prevTeam = g.prevTeam /\ u.server = g.server
      /\ u.swapper = [t \in Teams |-> IF g.swapper[t] \in S THEN NoId ELSE g.swapper[t]]
  BY UnqueueEffect
<1> HIDE DEF h, u
<1> QED BY <1>3, <1>4, <1>5, <1>6 DEF M, R

-----------------------------------------------------------------------------
(* What always holds of a game.                                            *)

LEMMA PickStartposBasic ==
    ASSUME NEW g, Basic(g), NEW p \in Present(g), options \in Options
    PROVE  Basic(PickStartpos(g, p))
<1> DEFINE h == PickStartpos(g, p)
<1>1. g \in Games /\ p \in Players
  BY DEF Basic, Present, Of
<1>2. h \in Games /\ SameBut(g, h) /\ h.paused = g.paused
      /\ (h.base = g.base \/ \E b \in Bases : h.base = [g.base EXCEPT ![p] = b])
  BY <1>1, PickStartposEffect DEF Started
<1> HIDE DEF h
<1>3. \A q \in Players : q # p => h.base[q] = g.base[q]
  BY <1>1, <1>2, Fields
<1>4. Placed(h)
  BY <1>2, <1>3 DEF Basic, Placed, SameBut, Present, Of
<1>5. Queues(h)
  BY <1>2 DEF Basic, Queues, SameBut
<1> QED BY <1>2, <1>4, <1>5 DEF Basic, h

LEMMA SetSwapperBasic ==
    ASSUME NEW g, Basic(g), NEW p \in Players
    PROVE  Basic(SetSwapperState(g, p))
<1> DEFINE h == SetSwapperState(g, p)
<1>1. h \in Games /\ SameBut(g, h) /\ h.base = g.base /\ h.paused \subseteq g.paused
  BY SetSwapperEffect DEF Basic
<1> HIDE DEF h
<1> QED BY <1>1 DEF Basic, Placed, Queues, SameBut, Present, Of, h

LEMMA UnqueueBasic ==
    ASSUME NEW g, Basic(g), NEW S
    PROVE  Basic(Unqueue(g, S))
<1> DEFINE h == Unqueue(g, S)
<1>1. /\ h \in Games /\ h.kind = g.kind /\ h.team = g.team /\ h.base = g.base
      /\ h.paused = g.paused
      /\ h.swapper = [t \in Teams |-> IF g.swapper[t] \in S THEN NoId ELSE g.swapper[t]]
  BY UnqueueEffect DEF Basic
<1> HIDE DEF h
<1>2. Placed(h)
  BY <1>1 DEF Basic, Placed, Present, Of
<1>3. Queues(h)
  BY <1>1 DEF Basic, Queues
<1> QED BY <1>1, <1>2, <1>3 DEF Basic, h

LEMMA DeleteBasic ==
    ASSUME NEW g, Basic(g), NEW S \in SUBSET Players, options \in Options
    PROVE  Basic(DeletePlayers(g, S))
<1> DEFINE h == DeletePlayers(g, S)
<1>1. /\ h \in Games /\ h.paused = g.paused \ S
      /\ h.kind = [p \in Players |-> IF p \in S THEN "absent" ELSE g.kind[p]]
      /\ h.team = [p \in Players |-> IF p \in S THEN NoTeam ELSE g.team[p]]
      /\ h.base = [p \in Players |-> IF p \in S THEN NoBase ELSE g.base[p]]
      /\ h.swapper = [t \in Teams |-> IF g.swapper[t] \in S THEN NoId ELSE g.swapper[t]]
  BY DeleteEffect, ZenonT(60) DEF Basic
<1> HIDE DEF h
<1>2. Placed(h)
  BY <1>1 DEF Basic, Placed, Present, Of
<1>3. Queues(h)
  <2> SUFFICES ASSUME NEW t \in Teams, h.swapper[t] # NoId
               PROVE  /\ h.kind[h.swapper[t]] = "human"
                      /\ \A u \in Teams \ {t} : h.swapper[u] # h.swapper[t]
    BY DEF Queues
  <2>1. h.swapper[t] = g.swapper[t] /\ g.swapper[t] \notin S /\ g.swapper[t] \in Players
    BY <1>1, Fields DEF Basic
  <2>2. \A u \in Teams : h.swapper[u] = NoId \/ h.swapper[u] = g.swapper[u]
    BY <1>1
  <2> QED BY <1>1, <2>1, <2>2 DEF Basic, Queues
<1> QED BY <1>1, <1>2, <1>3 DEF Basic, h

-----------------------------------------------------------------------------
(* Counting.                                                               *)

LEMMA FinitePlayers ==
    ASSUME NEW S, S \subseteq Players
    PROVE  IsFiniteSet(S) /\ Cardinality(S) \in Nat
BY RosterAssumption, FS_Subset, FS_CardinalityType

LEMMA OneMoreOrLess ==
    ASSUME NEW A \in SUBSET Players, NEW B \in SUBSET Players, NEW p, A \ {p} = B \ {p}
    PROVE  Cardinality(B) = Cardinality(A) - (IF p \in A THEN 1 ELSE 0) + (IF p \in B THEN 1 ELSE 0)
<1> DEFINE C == A \ {p}
<1>1. IsFiniteSet(C) /\ Cardinality(C) \in Nat
  BY FinitePlayers
<1>2. Cardinality(C \cup {p}) = Cardinality(C) + 1
  <2>1. p \notin C
    OBVIOUS
  <2> HIDE DEF C
  <2> QED BY <1>1, <2>1, FS_AddElement
<1>3. A = (IF p \in A THEN C \cup {p} ELSE C) /\ B = (IF p \in B THEN C \cup {p} ELSE C)
  OBVIOUS
<1> HIDE DEF C
<1>4. CASE p \in A /\ p \in B
  <2>1. A = C \cup {p} /\ B = C \cup {p}
    BY <1>3, <1>4
  <2> QED BY <1>1, <1>2, <1>4, <2>1
<1>5. CASE p \in A /\ p \notin B
  <2>1. A = C \cup {p} /\ B = C
    BY <1>3, <1>5
  <2> QED BY <1>1, <1>2, <1>5, <2>1
<1>6. CASE p \notin A /\ p \in B
  <2>1. A = C /\ B = C \cup {p}
    BY <1>3, <1>6
  <2> QED BY <1>1, <1>2, <1>6, <2>1
<1>7. CASE p \notin A /\ p \notin B
  <2>1. A = C /\ B = C
    BY <1>3, <1>7
  <2> QED BY <1>1, <1>7, <2>1
<1> QED BY <1>4, <1>5, <1>6, <1>7

\* Only p's kind, team or base is another.
OnlyOf(g, h, p) ==
    \A q \in Players \ {p} : h.kind[q] = g.kind[q] /\ h.team[q] = g.team[q] /\ h.base[q] = g.base[q]

One(b) == IF b THEN 1 ELSE 0

LEMMA OneChanges ==
    ASSUME NEW g, NEW h, NEW p \in Players, OnlyOf(g, h, p), Counted(g),
           \A t \in Teams :
              /\ h.members[t] = g.members[t] - One(p \in Based(g, t)) + One(p \in Based(h, t))
              /\ h.robots[t] = g.robots[t] - One(p \in Based(g, t) /\ g.kind[p] = "robot")
                                           + One(p \in Based(h, t) /\ h.kind[p] = "robot")
    PROVE  Counted(h)
<1> SUFFICES ASSUME NEW t \in Teams
             PROVE  /\ h.members[t] = Cardinality(Based(h, t))
                    /\ h.robots[t] = Cardinality(Based(h, t) \cap Of(h, "robot"))
  BY DEF Counted
<1> DEFINE A == Based(g, t)
           B == Based(h, t)
           C == Based(g, t) \cap Of(g, "robot")
           D == Based(h, t) \cap Of(h, "robot")
<1>1. A \in SUBSET Players /\ B \in SUBSET Players /\ C \in SUBSET Players /\ D \in SUBSET Players
  BY DEF Based, Present, Of
<1>2. A \ {p} = B \ {p} /\ C \ {p} = D \ {p}
  BY DEF Based, Present, Of, OnlyOf
<1>3. /\ p \in C <=> (p \in Based(g, t) /\ g.kind[p] = "robot")
      /\ p \in D <=> (p \in Based(h, t) /\ h.kind[p] = "robot")
  BY DEF Of
<1>4. g.members[t] = Cardinality(A) /\ g.robots[t] = Cardinality(C)
  BY DEF Counted
<1> HIDE DEF A, B, C, D
<1>5. Cardinality(B) = Cardinality(A) - (IF p \in A THEN 1 ELSE 0) + (IF p \in B THEN 1 ELSE 0)
  BY <1>1, <1>2, OneMoreOrLess
<1>6. Cardinality(D) = Cardinality(C) - (IF p \in C THEN 1 ELSE 0) + (IF p \in D THEN 1 ELSE 0)
  BY <1>1, <1>2, OneMoreOrLess
<1>7. h.members[t] = Cardinality(B)
  BY <1>4, <1>5 DEF One, A, B
<1>8. h.robots[t] = Cardinality(D)
  BY <1>3, <1>4, <1>6 DEF One
<1> QED BY <1>7, <1>8 DEF B, D

\* Where fewer than the bases of a team are held, one is free.
LEMMA FreeBase ==
    ASSUME options \in Options, NEW g, NEW Q \in SUBSET Players, NEW t \in Teams,
           \A q \in Q : g.base[q] # NoBase => BaseTeam[g.base[q]] = g.team[q],
           Cardinality({q \in Q : g.team[q] = t /\ g.base[q] # NoBase}) < NumBases(t)
    PROVE  \E b \in Bases : BaseTeam[b] = t /\ \A q \in Q : g.base[q] # b
<1> SUFFICES ASSUME \A b \in Bases : BaseTeam[b] = t => \E q \in Q : g.base[q] = b PROVE FALSE
  OBVIOUS
<1> DEFINE T == {b \in Bases : BaseTeam[b] = t}
           U == {q \in Q : g.team[q] = t /\ g.base[q] # NoBase}
           f == [b \in T |-> CHOOSE q \in Q : g.base[q] = b]
<1>1. \A b \in T : f[b] \in Q /\ g.base[f[b]] = b
  OBVIOUS
<1>2. ASSUME NEW b \in T PROVE f[b] \in U
  <2>1. b \in Bases /\ BaseTeam[b] = t /\ b # NoBase
    BY Settings
  <2>2. f[b] \in Q /\ g.base[f[b]] = b
    BY <1>1
  <2> HIDE DEF f
  <2> QED BY <2>1, <2>2
<1>3. f \in [T -> U] /\ \A a, b \in T : f[a] = f[b] => a = b
  <2>1. f \in [T -> U]
    BY <1>2
  <2> HIDE DEF f
  <2> QED BY <1>1, <2>1
<1>4. IsFiniteSet(U) /\ Cardinality(U) \in Nat
  BY FinitePlayers
<1>5. IsFiniteSet(T) /\ Cardinality(T) \in Nat
  BY Settings, FS_Subset, FS_CardinalityType
<1> HIDE DEF f
<1>6. f \in Injection(T, U)
  BY <1>3, Fun_IsInj
<1>7. Cardinality(T) <= Cardinality(U)
  <2> HIDE DEF T, U
  <2> QED BY <1>4, <1>6, FS_Injection
<1>8. NumBases(t) = Cardinality(T)
  BY DEF NumBases
<1> QED BY <1>4, <1>5, <1>7, <1>8

LEMMA NoCircleShrinks ==
    ASSUME options \in Options, NEW g, NEW h, NoCircle(g),
           \A t \in Teams : ComesFrom(h, t) \in {NoTeam, ComesFrom(g, t)},
           \A p \in Players : h.prevTeam[p] \in {0, g.prevTeam[p]}
    PROVE  NoCircle(h)
<1> SUFFICES ASSUME ~BaselessPausing
             PROVE  /\ \A p \in Players : h.prevTeam[p] = 0
                    /\ \A S \in SUBSET Teams : S # {} => \E t \in S : ComesFrom(h, t) \notin S
  BY DEF NoCircle
<1>1. \A p \in Players : h.prevTeam[p] = 0
  BY DEF NoCircle
<1>2. ASSUME NEW S \in SUBSET Teams, S # {} PROVE \E t \in S : ComesFrom(h, t) \notin S
  <2>1. PICK t \in S : ComesFrom(g, t) \notin S
    BY <1>2 DEF NoCircle
  <2>2. NoTeam \notin S
    BY Settings
  <2> QED BY <2>1, <2>2
<1> QED BY <1>1, <1>2

-----------------------------------------------------------------------------
(* Leaving.                                                                *)

\* The game but that some have left it, and nobody has got another team.
Fewer(g, h) ==
    /\ Basic(h) /\ h.server = g.server
    /\ \A p \in Players : /\ h.kind[p] \in {g.kind[p], "absent"}
                          /\ h.kind[p] # "absent" => h.team[p] = g.team[p]
    /\ BasesKept /\ Good(g) => Good(h)

LEMMA FewerFit ==
    ASSUME NEW g, NEW h, \A p \in Players : h.kind[p] \in {g.kind[p], "absent"}
    PROVE  /\ \A k \in {"joining", "human", "robot"} : Of(h, k) \subseteq Of(g, k)
           /\ Present(h) \cup Of(h, "joining") \subseteq Present(g) \cup Of(g, "joining")
           /\ Fits(g) /\ options \in Options => Fits(h)
<1>1. /\ \A k \in {"joining", "human", "robot"} : Of(h, k) \subseteq Of(g, k)
      /\ Present(h) \cup Of(h, "joining") \subseteq Present(g) \cup Of(g, "joining")
  BY DEF Of, Present
<1>2. ASSUME Fits(g), options \in Options, ~BaselessPausing
      PROVE  Cardinality(Present(h) \cup Of(h, "joining")) <= Len(BaseTeam)
  <2> DEFINE A == Present(g) \cup Of(g, "joining")
             B == Present(h) \cup Of(h, "joining")
  <2>1. B \subseteq A /\ A \subseteq Players /\ B \subseteq Players
    BY <1>1 DEF Present, Of
  <2>2. Cardinality(A) <= Len(BaseTeam)
    BY <1>2 DEF Fits
  <2> HIDE DEF A, B
  <2>3. IsFiniteSet(A) /\ Cardinality(A) \in Nat /\ Cardinality(B) \in Nat
    BY <2>1, FinitePlayers
  <2>4. Cardinality(B) <= Cardinality(A)
    BY <2>1, <2>3, FS_Subset
  <2>5. Len(BaseTeam) \in Nat
    BY <1>2, Settings
  <2>6. Cardinality(B) <= Len(BaseTeam)
    BY <2>2, <2>3, <2>4, <2>5
  <2> QED BY <2>6 DEF B
<1> QED BY <1>1, <1>2 DEF Fits

LEMMA DeleteCounted ==
    ASSUME options \in Options, NEW g, Basic(g), NEW S \in SUBSET Players, Counted(g)
    PROVE  Counted(DeletePlayers(g, S))
<1> DEFINE h == DeletePlayers(g, S)
<1>1. /\ h.kind = [p \in Players |-> IF p \in S THEN "absent" ELSE g.kind[p]]
      /\ h.team = [p \in Players |-> IF p \in S THEN NoTeam ELSE g.team[p]]
      /\ h.base = [p \in Players |-> IF p \in S THEN NoBase ELSE g.base[p]]
      /\ h.members = [t \in Teams |-> IF \E p \in S : g.team[p] = t
                                      THEN Cardinality(Based(g, t) \ S) ELSE g.members[t]]
      /\ h.robots = [t \in Teams |-> g.robots[t]
                        - Cardinality((Based(g, t) \cap S) \cap Of(g, "robot"))]
  BY DeleteEffect, ZenonT(60) DEF Basic
<1> HIDE DEF h
<1> SUFFICES ASSUME NEW t \in Teams
             PROVE  /\ h.members[t] = Cardinality(Based(h, t))
                    /\ h.robots[t] = Cardinality(Based(h, t) \cap Of(h, "robot"))
  BY DEF Counted, h
<1>2. Based(h, t) = Based(g, t) \ S
  BY <1>1 DEF Based, Present, Of
<1>3. h.members[t] = Cardinality(Based(h, t))
  <2>1. CASE \E p \in S : g.team[p] = t
    BY <1>1, <1>2, <2>1
  <2>2. CASE ~ \E p \in S : g.team[p] = t
    <3>1. Based(h, t) = Based(g, t)
      BY <1>2, <2>2 DEF Based
    <3> QED BY <1>1, <2>2, <3>1 DEF Counted
  <2> QED BY <2>1, <2>2
<1>4. h.robots[t] = Cardinality(Based(h, t) \cap Of(h, "robot"))
  <2> DEFINE A == Based(g, t) \cap Of(g, "robot")
             B == (Based(g, t) \cap S) \cap Of(g, "robot")
             C == Based(h, t) \cap Of(h, "robot")
  <2>1. C = A \ S /\ B = A \cap S /\ A \subseteq Players /\ B \subseteq Players /\ C \subseteq Players
    BY <1>1, <1>2 DEF Based, Present, Of
  <2>2. h.robots[t] = g.robots[t] - Cardinality(B) /\ g.robots[t] = Cardinality(A)
    BY <1>1 DEF Counted
  <2> HIDE DEF A, B, C
  <2>3. IsFiniteSet(A) /\ Cardinality(A) \in Nat /\ Cardinality(B) \in Nat /\ Cardinality(C) \in Nat
    BY <2>1, FinitePlayers
  <2>4. Cardinality(A \ S) = Cardinality(A) - Cardinality(A \cap S)
    BY <2>3, FS_Difference
  <2>5. h.robots[t] = Cardinality(C)
    BY <2>1, <2>2, <2>3, <2>4
  <2> QED BY <2>5 DEF C
<1> QED BY <1>3, <1>4

LEMMA DeleteFewer ==
    ASSUME options \in Options, NEW g, Basic(g), NEW S \in SUBSET Players
    PROVE  Fewer(g, DeletePlayers(g, S))
<1> DEFINE h == DeletePlayers(g, S)
<1>1. /\ h.server = g.server /\ h.paused = g.paused \ S
      /\ h.kind = [p \in Players |-> IF p \in S THEN "absent" ELSE g.kind[p]]
      /\ h.team = [p \in Players |-> IF p \in S THEN NoTeam ELSE g.team[p]]
      /\ h.base = [p \in Players |-> IF p \in S THEN NoBase ELSE g.base[p]]
      /\ h.prevTeam = [p \in Players |-> IF p \in S THEN 0 ELSE g.prevTeam[p]]
      /\ h.swapper = [t \in Teams |-> IF g.swapper[t] \in S THEN NoId ELSE g.swapper[t]]
  BY DeleteEffect, ZenonT(60) DEF Basic
<1>2. Basic(h)
  BY DeleteBasic
<1>3. \A p \in Players : h.kind[p] \in {g.kind[p], "absent"}
  BY <1>1
<1>4. \A p \in Players : h.kind[p] # "absent" => h.team[p] = g.team[p]
  BY <1>1
<1>5. ASSUME BasesKept, Good(g) PROVE Good(h)
  <2>1. Counted(h)
    BY <1>5, DeleteCounted DEF Good
  <2> HIDE DEF h
  <2>2. Owned(h)
    BY <1>1, <1>5 DEF Good, Owned, Present, Of
  <2>3. Seated(h)
    <3>1. \A p \in Present(h) : /\ p \notin S /\ p \in Present(g) /\ h.base[p] = g.base[p]
                                /\ h.team[p] = g.team[p]
      BY <1>1 DEF Present, Of
    <3>2. \A p \in Of(h, "human") : p \in Of(g, "human") /\ p \in Present(h)
      BY <1>1 DEF Present, Of
    <3>3. \A t \in Teams : h.swapper[t] \in {NoId, g.swapper[t]}
      BY <1>1
    <3> QED BY <1>1, <1>5, <3>1, <3>2, <3>3 DEF Good, Seated
  <2>4. Fits(h)
    BY <1>3, <1>5, FewerFit DEF Good
  <2>5. RobotsStay(h)
    BY <1>1, <1>5 DEF Good, RobotsStay, Of
  <2>6. NoCircle(h)
    <3>1. \A t \in Teams : ComesFrom(h, t) \in {NoTeam, ComesFrom(g, t)}
      <4> TAKE t \in Teams
      <4>1. CASE g.swapper[t] \in S \/ g.swapper[t] = NoId
        <5>1. h.swapper[t] = NoId
          BY <1>1, <4>1
        <5> QED BY <5>1 DEF ComesFrom
      <4>2. CASE g.swapper[t] \notin S /\ g.swapper[t] # NoId
        <5>1. h.swapper[t] = g.swapper[t] /\ g.swapper[t] \in Players
          BY <1>1, <4>2, Fields DEF Basic
        <5>2. h.team[g.swapper[t]] = g.team[g.swapper[t]]
          BY <1>1, <4>2, <5>1
        <5> QED BY <5>1, <5>2 DEF ComesFrom
      <4> QED BY <4>1, <4>2
    <3>2. \A p \in Players : h.prevTeam[p] \in {0, g.prevTeam[p]}
      BY <1>1
    <3>3. NoCircle(g)
      BY <1>5 DEF Good
    <3> QED BY <3>1, <3>2, <3>3, NoCircleShrinks
  <2> QED BY <2>1, <2>2, <2>3, <2>4, <2>5, <2>6 DEF Good
<1> HIDE DEF h
<1>6. h.server = g.server
  BY <1>1
<1> QED BY <1>2, <1>3, <1>5, <1>6, <1>4 DEF Fewer, h

LEMMA FewerStill ==
    ASSUME NEW g, NEW h, NEW k, Fewer(g, h), Fewer(h, k)
    PROVE  Fewer(g, k)
BY DEF Fewer

LEMMA KickRobotFewer ==
    ASSUME options \in Options, NEW g, Basic(g), NEW t, NEW h \in KickRobot(g, t)
    PROVE  Fewer(g, h)
<1>1. PICK p \in Of(g, "robot") : h = DeletePlayer(g, p)
  BY DEF KickRobot
<1>2. {p} \in SUBSET Players /\ h = DeletePlayers(g, {p})
  BY <1>1 DEF DeletePlayer, Of
<1> QED BY <1>2, DeleteFewer

LEMMA KickPausedFewer ==
    ASSUME options \in Options, NEW g, Basic(g), NEW t, NEW h \in KickPaused(g, t)
    PROVE  Fewer(g, h)
<1>1. PICK S \in SUBSET (IF t = NoTeam THEN g.paused ELSE PausedIn(g, t)) : h = DeletePlayers(g, S)
  BY DEF KickPaused
<1>2. S \in SUBSET Players
  BY Fields DEF Basic, PausedIn
<1> QED BY <1>1, <1>2, DeleteFewer

LEMMA MakeRoomFewer ==
    ASSUME options \in Options, NEW g, Basic(g), NEW h \in MakeRoom(g)
    PROVE  Fewer(g, h)
<1>1. Fewer(g, g)
  BY DEF Fewer
<1>2. CASE Room(g)
  BY <1>1, <1>2 DEF MakeRoom
<1>3. CASE ~Room(g)
  <2> DEFINE kicked == KickRobot(g, NoTeam)
             full   == IF kicked = {} THEN {g} ELSE {k \in kicked : ~Room(k)}
  <2>1. \A k \in kicked : Fewer(g, k)
    BY KickRobotFewer
  <2>2. \A k \in full : Fewer(g, k)
    BY <1>1, <2>1
  <2>3. \/ h \in kicked
        \/ \E k \in full : h = k \/ h \in KickPaused(k, NoTeam)
    BY <1>3 DEF MakeRoom
  <2> HIDE DEF kicked, full
  <2>4. ASSUME NEW k \in full, h \in KickPaused(k, NoTeam) PROVE Fewer(g, h)
    <3>1. Fewer(g, k) /\ Basic(k)
      BY <2>2 DEF Fewer
    <3>2. Fewer(k, h)
      BY <2>4, <3>1, KickPausedFewer
    <3> QED BY <3>1, <3>2, FewerStill
  <2> QED BY <2>1, <2>2, <2>3, <2>4
<1> QED BY <1>2, <1>3

LEMMA PickTeamTyped ==
    ASSUME options \in Options, NEW g, NEW robot \in BOOLEAN
    PROVE  /\ PickTeam(g, robot) \subseteq Teams \cup {NoTeam}
           /\ \A t \in PickTeam(g, robot) \ {NoTeam} :
                 HasRoom(g, t) /\ (~robot => ~Reserved(t))
           /\ robot /\ RestrictRobots => \A t \in PickTeam(g, robot) :
                 t = RobotTeam \/ (t = NoTeam /\ ~HasRoom(g, RobotTeam))
           /\ NoTeam \in PickTeam(g, FALSE) =>
                 \A t \in Teams : ~(HasRoom(g, t) /\ ~Reserved(t))
<1> DEFINE playing == [t \in Teams |-> Cardinality({p \in Active(g) : g.team[p] = t})]
           Free(r) == {t \in Teams : HasRoom(g, t) /\ (r \/ ~Reserved(t))}
           inUse == {t \in Teams : playing[t] > 0}
           Smallest(r) == {t \in Free(r) : \A u \in Free(r) \cap inUse : playing[t] <= playing[u]
                                                                        /\ playing[t] > 0}
           First(r) == IF Cardinality(inUse) <= 1 THEN Free(r) \ inUse
                       ELSE IF Free(r) \cap inUse = {} THEN Free(r) ELSE Smallest(r)
           Choice(r) == IF First(r) = {} THEN Free(r) ELSE First(r)
<1>1. ASSUME NEW r \in BOOLEAN
      PROVE  PickTeam(g, r) =
                IF r /\ RestrictRobots THEN {IF HasRoom(g, RobotTeam) THEN RobotTeam ELSE NoTeam}
                ELSE IF Choice(r) = {} THEN {NoTeam}
                ELSE IF Cardinality(Choice(r)) = 1 THEN Choice(r) ELSE Choice(r) \ {RobotTeam}
  BY Zenon DEF PickTeam
<1> HIDE DEF playing
<1>2. \A r \in BOOLEAN : Choice(r) \subseteq Free(r) /\ (Choice(r) = {} => Free(r) = {})
  OBVIOUS
<1>3. RobotTeam \in Teams /\ NoTeam \notin Teams
  BY Settings
<1> HIDE DEF Choice
<1>4. PickTeam(g, robot) \subseteq Teams \cup {NoTeam}
  BY <1>1, <1>2, <1>3
<1>5. \A t \in PickTeam(g, robot) \ {NoTeam} : HasRoom(g, t) /\ (~robot => ~Reserved(t))
  BY <1>1, <1>2, <1>3
<1>6. robot /\ RestrictRobots => \A t \in PickTeam(g, robot) :
                 t = RobotTeam \/ (t = NoTeam /\ ~HasRoom(g, RobotTeam))
  BY <1>1
<1>7. NoTeam \in PickTeam(g, FALSE) => \A t \in Teams : ~(HasRoom(g, t) /\ ~Reserved(t))
  BY <1>1, <1>2, <1>3
<1> QED BY <1>4, <1>5, <1>6, <1>7

LEMMA WishFewer ==
    ASSUME options \in Options, NEW g, Basic(g), NEW t \in Teams \cup {NoTeam}, NEW w \in Wish(g, t)
    PROVE  Fewer(g, w[1]) /\ w[2] \in Teams \cup {NoTeam}
<1> DEFINE kicked == KickRobot(g, t) \cup KickPaused(g, t)
<1>1. Fewer(g, g)
  BY DEF Fewer
<1>2. \A h \in kicked : Fewer(g, h)
  BY KickRobotFewer, KickPausedFewer
<1>3. w \in {<<g, NoTeam>>, <<g, t>>} \cup (kicked \X {t})
  BY DEF Wish
<1> HIDE DEF kicked
<1>4. CASE w \in {<<g, NoTeam>>, <<g, t>>}
  BY <1>1, <1>4
<1>5. CASE w \in kicked \X {t}
  BY <1>2, <1>5
<1> QED BY <1>3, <1>4, <1>5

LEMMA FindTeamFewer ==
    ASSUME options \in Options, NEW g, Basic(g), NEW w \in FindTeam(g)
    PROVE  Fewer(g, w[1]) /\ w[2] \in Teams \cup {NoTeam}
<1>1. Fewer(g, g)
  BY DEF Fewer
<1>2. PICK t \in PickTeam(g, FALSE) :
         w \in IF t = NoTeam /\ Cardinality(Of(g, "robot")) > g.robots[RobotTeam]
               THEN UNION {{h} \X PickTeam(h, FALSE) : h \in KickRobot(g, NoTeam)}
               ELSE {<<g, t>>}
  BY DEF FindTeam
<1>3. CASE w = <<g, t>>
  <2>1. t \in Teams \cup {NoTeam}
    BY PickTeamTyped
  <2> QED BY <1>1, <1>3, <2>1
<1>4. CASE \E h \in KickRobot(g, NoTeam) : w \in {h} \X PickTeam(h, FALSE)
  <2>1. PICK h \in KickRobot(g, NoTeam) : w \in {h} \X PickTeam(h, FALSE)
    BY <1>4
  <2>2. Fewer(g, h)
    BY KickRobotFewer
  <2>3. PickTeam(h, FALSE) \subseteq Teams \cup {NoTeam}
    BY PickTeamTyped
  <2>4. w[1] = h /\ w[2] \in PickTeam(h, FALSE)
    BY <2>1
  <2> QED BY <2>2, <2>3, <2>4
<1> QED BY <1>2, <1>3, <1>4

LEMMA RoomStays ==
    ASSUME options \in Options, NEW g, NEW h, Fewer(g, h), Room(g)
    PROVE  Room(h)
<1> DEFINE A == Present(g) \cup Of(g, "joining")
           B == Present(h) \cup Of(h, "joining")
<1>1. B \subseteq A
  BY FewerFit DEF Fewer
<1>2. A \subseteq Players /\ B \subseteq Players /\ Cardinality(A) < Limit
  BY <1>1 DEF Present, Of, Room
<1> HIDE DEF A, B
<1>3. IsFiniteSet(A) /\ Cardinality(A) \in Nat /\ Cardinality(B) \in Nat
  BY <1>2, FinitePlayers
<1>4. Cardinality(B) <= Cardinality(A)
  BY <1>1, <1>3, FS_Subset
<1>5. Limit \in Int
  <2>1. PlayerLimit \in Int /\ Len(BaseTeam) \in Int
    BY Settings
  <2>2. Min({PlayerLimit, Len(BaseTeam)}) \in {PlayerLimit, Len(BaseTeam)}
    <3> DEFINE a == PlayerLimit
               b == Len(BaseTeam)
    <3>1. a \in Int /\ b \in Int
      BY <2>1
    <3> HIDE DEF a, b
    <3>2. \E x \in {a, b} : \A y \in {a, b} : x <= y
      BY <3>1
    <3>3. Min({a, b}) \in {a, b}
      BY <3>2 DEF Min
    <3> QED BY <3>3 DEF a, b
  <2> QED BY <2>1, <2>2 DEF Limit
<1>6. Cardinality(B) < Limit
  BY <1>2, <1>3, <1>4, <1>5
<1> QED BY <1>6 DEF Room, B

-----------------------------------------------------------------------------
(* Logging in.                                                             *)

\* What a handler makes of a game where everybody is counted and has his base.
Kept(g, h) ==
    BasesKept /\ Good(g) =>
        /\ h.server = "up" => Good(h)
        /\ NoCircle(h)
        /\ RobotsApart => Lasting(h)

LEMMA GoodKept ==
    ASSUME NEW g, NEW h, h.server = "up", BasesKept /\ Good(g) => Good(h)
    PROVE  Kept(g, h)
BY DEF Kept, Good, Lasting

LEMMA KeptStill ==
    ASSUME NEW g, NEW h, NEW k, Fewer(g, h), Kept(h, k)
    PROVE  Kept(g, k)
BY DEF Kept, Fewer

\* One more fits where there is room.
LEMMA OneMoreFits ==
    ASSUME options \in Options, NEW g, NEW h, NEW p \in Players, g.kind[p] = "absent",
           \A q \in Players \ {p} : h.kind[q] = g.kind[q],
           ~BaselessPausing => Cardinality(Present(g) \cup Of(g, "joining")) < Len(BaseTeam)
    PROVE  Fits(h)
<1> SUFFICES ASSUME ~BaselessPausing
             PROVE  Cardinality(Present(h) \cup Of(h, "joining")) <= Len(BaseTeam)
  BY DEF Fits
<1> DEFINE A == Present(g) \cup Of(g, "joining")
           B == Present(h) \cup Of(h, "joining")
<1>1. A \in SUBSET Players /\ B \in SUBSET Players /\ A \ {p} = B \ {p} /\ p \notin A
  BY DEF Present, Of
<1>2. Cardinality(A) < Len(BaseTeam)
  OBVIOUS
<1> HIDE DEF A, B
<1>3. Cardinality(B) = Cardinality(A) - (IF p \in A THEN 1 ELSE 0) + (IF p \in B THEN 1 ELSE 0)
  BY <1>1, OneMoreOrLess
<1>4. Cardinality(A) \in Nat /\ Len(BaseTeam) \in Nat
  BY <1>1, FinitePlayers, Settings
<1>5. Cardinality(B) <= Len(BaseTeam)
  BY <1>1, <1>2, <1>3, <1>4
<1> QED BY <1>5 DEF B

\* A server without baseless players lets in no more than there are bases.
LEMMA LimitIsBases ==
    ASSUME options \in Options, ~BaselessPausing
    PROVE  Limit <= Len(BaseTeam) /\ Limit \in Int
<1> DEFINE a == PlayerLimit
           b == Len(BaseTeam)
<1>1. a \in Int /\ b \in Int
  BY Settings
<1>2. Limit = Min({a, b})
  BY DEF Limit
<1> HIDE DEF a, b
<1>3. \E x \in {a, b} : \A y \in {a, b} : x <= y
  BY <1>1
<1>4. Min({a, b}) \in {a, b} /\ Min({a, b}) <= b
  BY <1>3 DEF Min
<1>5. Limit <= b /\ Limit \in Int
  BY <1>1, <1>2, <1>4
<1> QED BY <1>5 DEF b

\* p starts or ends his login.
Relogged(g, h, p, k, t) ==
    /\ h \in Games /\ h.base = g.base /\ h.paused = g.paused /\ h.prevTeam = g.prevTeam
    /\ h.members = g.members /\ h.robots = g.robots /\ h.swapper = g.swapper
    /\ h.server = g.server
    /\ h.kind = [g.kind EXCEPT ![p] = k] /\ h.team = [g.team EXCEPT ![p] = t]

\* Nobody's place depends on who logs in.
LEMMA LoginKeeps ==
    ASSUME options \in Options, NEW g, Basic(g), NEW p \in Players, NEW k \in {"absent", "joining"},
           g.kind[p] \in {"absent", "joining"}, NEW t \in Teams \cup {NoTeam},
           NEW h, Relogged(g, h, p, k, t)
    PROVE  Basic(h) /\ (Good(g) /\ Fits(h) => Good(h))
<1>1. /\ h \in Games /\ h.base = g.base /\ h.paused = g.paused /\ h.prevTeam = g.prevTeam
      /\ h.members = g.members /\ h.robots = g.robots /\ h.swapper = g.swapper
      /\ h.server = g.server
      /\ h.kind = [g.kind EXCEPT ![p] = k] /\ h.team = [g.team EXCEPT ![p] = t]
  BY DEF Relogged
<1>2. g.kind \in [Players -> Kinds] /\ g.team \in [Players -> Teams \cup {NoTeam}]
  BY Fields DEF Basic
<1>3. /\ \A q \in Players \ {p} : h.kind[q] = g.kind[q] /\ h.team[q] = g.team[q]
      /\ h.kind[p] \in {"absent", "joining"}
  BY <1>1, <1>2
<1>4. Of(h, "human") = Of(g, "human") /\ Of(h, "robot") = Of(g, "robot") /\ p \notin Present(g)
  BY <1>3 DEF Of, Present
<1>5. Present(h) = Present(g) /\ \A q \in Present(g) : q \in Players \ {p}
  BY <1>4 DEF Present, Of
<1>6. Placed(h)
  BY <1>1, <1>3, <1>4, <1>5 DEF Basic, Placed
<1>7. \A u \in Teams : g.swapper[u] # NoId => g.swapper[u] \in Of(g, "human") /\ g.swapper[u] # p
  BY Fields DEF Basic, Queues, Of
<1>8. Queues(h)
  BY <1>1, <1>4, <1>7 DEF Basic, Queues, Of
<1>9. ASSUME Good(g), Fits(h) PROVE Good(h)
  <2>1. \A u \in Teams : Based(h, u) = Based(g, u)
    BY <1>1, <1>3, <1>5 DEF Based
  <2>2. Counted(h)
    BY <1>1, <1>4, <1>9, <2>1 DEF Good, Counted
  <2>3. Owned(h)
    BY <1>1, <1>3, <1>5, <1>9 DEF Good, Owned
  <2>4. Seated(h)
    BY <1>1, <1>3, <1>4, <1>5, <1>9 DEF Good, Seated, Of
  <2>5. RobotsStay(h)
    BY <1>3, <1>4, <1>5, <1>9 DEF Good, RobotsStay, Present
  <2>6. NoCircle(h)
    <3>1. \A u \in Teams : ComesFrom(h, u) \in {NoTeam, ComesFrom(g, u)}
      BY <1>1, <1>3, <1>7 DEF ComesFrom, Of
    <3>2. \A q \in Players : h.prevTeam[q] \in {0, g.prevTeam[q]}
      BY <1>1
    <3>3. NoCircle(g)
      BY <1>9 DEF Good
    <3> QED BY <3>1, <3>2, <3>3, NoCircleShrinks
  <2> QED BY <1>9, <2>2, <2>3, <2>4, <2>5, <2>6 DEF Good
<1> QED BY <1>1, <1>6, <1>8, <1>9 DEF Basic

\* Some may be kicked to make room, and then p may begin to log in.
LEMMA AdmitIs ==
    ASSUME options \in Options, Basic(game), NEW p \in Players,
           NEW wish \in Teams \cup {NoTeam}, Admit(p, wish)
    PROVE  \E h : /\ Fewer(game, h)
                  /\ \/ game' = h
                     \/ /\ Room(h)
                        /\ \E t \in Teams \cup {NoTeam} :
                              game' = [h EXCEPT !.kind[p] = "joining", !.team[p] = t]
<1>1. PICK g \in MakeRoom(game) :
          IF ~Room(g) THEN game' = g
          ELSE \E w \in Wish(g, wish) :
               \E v \in IF w[2] = NoTeam THEN FindTeam(w[1]) ELSE {w} :
                  \/ game' = [v[1] EXCEPT !.kind[p] = "joining", !.team[p] = v[2]]
                  \/ game' = v[1]
  BY DEF Admit
<1>2. Fewer(game, g)
  BY MakeRoomFewer
<1>3. CASE ~Room(g)
  BY <1>1, <1>2, <1>3
<1>4. CASE Room(g)
  <2>1. PICK w \in Wish(g, wish) :
               \E v \in IF w[2] = NoTeam THEN FindTeam(w[1]) ELSE {w} :
                  \/ game' = [v[1] EXCEPT !.kind[p] = "joining", !.team[p] = v[2]]
                  \/ game' = v[1]
    BY <1>1, <1>4
  <2>2. Fewer(g, w[1]) /\ w[2] \in Teams \cup {NoTeam}
    BY <1>2, WishFewer DEF Fewer
  <2>3. PICK v \in IF w[2] = NoTeam THEN FindTeam(w[1]) ELSE {w} :
                  \/ game' = [v[1] EXCEPT !.kind[p] = "joining", !.team[p] = v[2]]
                  \/ game' = v[1]
    BY <2>1
  <2> DEFINE h == v[1]
             t == v[2]
  <2>4. Fewer(g, h) /\ t \in Teams \cup {NoTeam}
    <3>1. CASE w[2] = NoTeam
      <4>1. v \in FindTeam(w[1]) /\ Basic(w[1])
        BY <2>2, <2>3, <3>1 DEF Fewer
      <4>2. Fewer(w[1], h) /\ t \in Teams \cup {NoTeam}
        BY <4>1, FindTeamFewer
      <4>3. Fewer(g, h)
        BY <2>2, <4>2, FewerStill
      <4> QED BY <4>2, <4>3
    <3>2. CASE w[2] # NoTeam
      BY <2>2, <2>3, <3>2
    <3> QED BY <3>1, <3>2
  <2>5. game' = [h EXCEPT !.kind[p] = "joining", !.team[p] = t] \/ game' = h
    BY <2>3
  <2> HIDE DEF h, t
  <2>6. Fewer(game, h)
    BY <1>2, <2>4, FewerStill
  <2>7. Room(h)
    BY <1>4, <2>4, RoomStays
  <2> QED BY <2>4, <2>5, <2>6, <2>7
<1> QED BY <1>3, <1>4

LEMMA AdmitKeeps ==
    ASSUME options \in Options, Basic(game), game.server = "up", NEW p \in Players,
           NEW wish \in Teams \cup {NoTeam}, Admit(p, wish)
    PROVE  Basic(game') /\ Kept(game, game')
<1>1. PICK h : /\ Fewer(game, h)
               /\ \/ game' = h
                  \/ /\ Room(h)
                     /\ \E t \in Teams \cup {NoTeam} :
                           game' = [h EXCEPT !.kind[p] = "joining", !.team[p] = t]
  BY AdmitIs
<1>2. CASE game' = h
  BY <1>1, <1>2, GoodKept DEF Fewer
<1>3. ASSUME Room(h), NEW t \in Teams \cup {NoTeam},
             game' = [h EXCEPT !.kind[p] = "joining", !.team[p] = t]
      PROVE  Basic(game') /\ Kept(game, game')
  <2> DEFINE k == "joining"
  <2>1. h.kind[p] = "absent" /\ Basic(h) /\ h.server = "up"
    <3>1. game.kind[p] = "absent"
      BY DEF Admit
    <3> QED BY <1>1, <3>1 DEF Fewer
  <2>2. Relogged(h, game', p, k, t) /\ game'.server = "up"
    BY <1>3, <2>1 DEF Basic, Games, Kinds, Relogged
  <2>3. Basic(game') /\ (Good(h) /\ Fits(game') => Good(game'))
    <3>1. k \in {"absent", "joining"} /\ h.kind[p] \in {"absent", "joining"}
      BY <2>1
    <3> HIDE DEF k
    <3> QED BY <2>1, <2>2, <3>1, LoginKeeps
  <2>4. \A q \in Players \ {p} : game'.kind[q] = h.kind[q]
    BY <1>3, <2>1 DEF Basic, Games
  <2>5. ~BaselessPausing => Cardinality(Present(h) \cup Of(h, "joining")) < Len(BaseTeam)
    <3> DEFINE n == Cardinality(Present(h) \cup Of(h, "joining"))
               l == Limit
               b == Len(BaseTeam)
    <3> SUFFICES ASSUME ~BaselessPausing PROVE n < b
      OBVIOUS
    <3>1. l <= b /\ l \in Int
      BY LimitIsBases
    <3>2. n < l
      BY <1>3 DEF Room
    <3>3. n \in Nat /\ b \in Int
      BY FinitePlayers, Settings DEF Present, Of
    <3> HIDE DEF n, l, b
    <3> QED BY <3>1, <3>2, <3>3
  <2>6. Fits(game')
    BY <2>1, <2>4, <2>5, OneMoreFits
  <2>7. BasesKept /\ Good(game) => Good(game')
    BY <1>1, <2>3, <2>6 DEF Fewer
  <2> QED BY <2>2, <2>3, <2>7, GoodKept
<1> QED BY <1>1, <1>2, <1>3

LEMMA GiveUpLoginKeeps ==
    ASSUME options \in Options, Basic(game), game.server = "up", NEW p \in Players, GiveUpLogin(p)
    PROVE  Basic(game') /\ Kept(game, game')
<1> DEFINE k == "absent"
<1>1. /\ Relogged(game, game', p, k, NoTeam) /\ game'.server = "up"
      /\ game.kind[p] \in {"absent", "joining"} /\ k \in {"absent", "joining"}
      /\ NoTeam \in Teams \cup {NoTeam}
  BY DEF GiveUpLogin, Basic, Games, Kinds, Relogged
<1> HIDE DEF k
<1>2. Basic(game') /\ (Good(game) /\ Fits(game') => Good(game'))
  BY <1>1, LoginKeeps
<1>3. Good(game) => Fits(game')
  <2>1. \A q \in Players : game'.kind[q] \in {game.kind[q], "absent"}
    BY DEF GiveUpLogin, Basic, Games
  <2> QED BY <2>1, FewerFit DEF Good
<1> QED BY <1>1, <1>2, <1>3, GoodKept

LEMMA DeleteKeeps ==
    ASSUME options \in Options, Basic(game), game.server = "up", NEW p \in Players,
           game' = DeletePlayer(game, p)
    PROVE  Basic(game') /\ Kept(game, game')
<1>1. {p} \in SUBSET Players /\ game' = DeletePlayers(game, {p})
  BY DEF DeletePlayer
<1>2. Fewer(game, game')
  BY <1>1, DeleteFewer
<1> QED BY <1>2, GoodKept DEF Fewer

-----------------------------------------------------------------------------
(* Taking a place.                                                         *)

\* Where a team has room, one of its bases is free.
LEMMA PlaceFree ==
    ASSUME options \in Options, NEW g, Basic(g), Counted(g), Owned(g), NEW p \in Players,
           NEW t \in Teams, HasRoom(g, t), p \notin Based(g, t)
    PROVE  \E b \in Bases : BaseTeam[b] = t /\ \A q \in Present(g) \ {p} : g.base[q] # b
<1> DEFINE Q == Present(g) \ {p}
<1>1. Q \in SUBSET Players
  BY DEF Present, Of
<1>2. \A q \in Q : g.base[q] # NoBase => BaseTeam[g.base[q]] = g.team[q]
  BY DEF Owned
<1>3. {q \in Q : g.team[q] = t /\ g.base[q] # NoBase} = Based(g, t)
  BY DEF Based
<1>4. Cardinality({q \in Q : g.team[q] = t /\ g.base[q] # NoBase}) < NumBases(t)
  BY <1>3 DEF Counted, HasRoom
<1> HIDE DEF Q
<1>5. \E b \in Bases : BaseTeam[b] = t /\ \A q \in Q : g.base[q] # b
  BY <1>1, <1>2, <1>4, FreeBase, SMTT(40)
<1> QED BY <1>5 DEF Q

LEMMA TakesPlace ==
    ASSUME options \in Options, NEW g, Basic(g), Good(g), NEW h, Basic(h),
           NEW p \in Players, OnlyOf(g, h, p), NEW t \in Teams, NEW k \in {"human", "robot"},
           h.kind[p] = k, h.team[p] = t, k = "human" => ~Reserved(t),
           NEW b \in Bases, h.base[p] = b, BaseTeam[b] = t,
           \A q \in Present(g) \ {p} : g.base[q] # b,
           \A u \in Teams :
              /\ h.members[u] = g.members[u] - One(p \in Based(g, u)) + One(u = t)
              /\ h.robots[u] = g.robots[u] - One(p \in Based(g, u) /\ g.kind[p] = "robot")
                                           + One(u = t /\ k = "robot"),
           g.paused \ {p} \subseteq h.paused,
           \A u \in Teams : h.swapper[u] \in {NoId, g.swapper[u]}
    PROVE  Counted(h) /\ Owned(h) /\ Seated(h)
<1>1. b # NoBase
  BY Settings
<1>2. p \in Present(h) /\ \A q \in Players \ {p} : q \in Present(h) <=> q \in Present(g)
  BY DEF Present, Of, OnlyOf
<1>3. Counted(h)
  <2>1. \A u \in Teams : p \in Based(h, u) <=> u = t
    BY <1>1, <1>2 DEF Based
  <2>2. \A u \in Teams :
              /\ h.members[u] = g.members[u] - One(p \in Based(g, u)) + One(p \in Based(h, u))
              /\ h.robots[u] = g.robots[u] - One(p \in Based(g, u) /\ g.kind[p] = "robot")
                                           + One(p \in Based(h, u) /\ h.kind[p] = "robot")
    <3> TAKE u \in Teams
    <3>1. CASE u = t
      <4>1. p \in Based(h, u)
        BY <2>1, <3>1
      <4> QED BY <3>1, <4>1 DEF One
    <3>2. CASE u # t
      <4>1. p \notin Based(h, u)
        BY <2>1, <3>2
      <4> QED BY <3>2, <4>1 DEF One
    <3> QED BY <3>1, <3>2
  <2>3. Counted(g)
    BY DEF Good
  <2> QED BY <2>2, <2>3, OneChanges
<1>4. Owned(h)
  <2> SUFFICES ASSUME NEW r \in Present(h), h.base[r] # NoBase
               PROVE  /\ BaseTeam[h.base[r]] = h.team[r]
                      /\ \A q \in Present(h) \ {r} : h.base[q] # h.base[r]
    BY DEF Owned
  <2>1. Present(h) \subseteq Players
    BY DEF Present, Of
  <2>2. CASE r = p
    BY <1>2, <2>1, <2>2 DEF OnlyOf
  <2>3. CASE r # p
    <3>1. r \in Present(g) \ {p} /\ h.base[r] = g.base[r] /\ h.team[r] = g.team[r]
      BY <1>2, <2>1, <2>3 DEF OnlyOf
    <3>2. BaseTeam[h.base[r]] = h.team[r]
      BY <3>1 DEF Good, Owned
    <3>3. ASSUME NEW q \in Present(h) \ {r} PROVE h.base[q] # h.base[r]
      <4>1. CASE q = p
        BY <3>1, <4>1
      <4>2. CASE q # p
        <5>1. q \in Present(g) \ {r} /\ h.base[q] = g.base[q]
          BY <1>2, <2>1, <3>3, <4>2 DEF OnlyOf
        <5> QED BY <3>1, <5>1 DEF Good, Owned
      <4> QED BY <4>1, <4>2
    <3> QED BY <3>2, <3>3
  <2> QED BY <2>2, <2>3
<1>5. Seated(h)
  <2>1. ASSUME NEW q \in Present(h), h.base[q] = NoBase
        PROVE  Reserved(0) /\ q \in h.paused /\ h.team[q] = 0
    <3>1. q # p /\ q \in Present(g) /\ q \in Players \ {p}
      BY <1>1, <1>2, <2>1 DEF Present, Of
    <3>2. g.base[q] = NoBase /\ h.team[q] = g.team[q]
      BY <2>1, <3>1 DEF OnlyOf
    <3> QED BY <3>1, <3>2 DEF Good, Seated
  <2>2. ASSUME NEW q \in Of(h, "human"), h.base[q] # NoBase PROVE ~Reserved(h.team[q])
    <3>1. CASE q = p
      BY <2>2, <3>1 DEF Of
    <3>2. CASE q # p
      <4>1. q \in Of(g, "human") /\ h.base[q] = g.base[q] /\ h.team[q] = g.team[q]
        BY <3>2 DEF OnlyOf, Of
      <4> QED BY <2>2, <4>1 DEF Good, Seated
    <3> QED BY <3>1, <3>2
  <2>3. \A u \in Teams : Reserved(u) => h.swapper[u] = NoId
    BY DEF Good, Seated
  <2> QED BY <2>1, <2>2, <2>3 DEF Seated
<1> QED BY <1>3, <1>4, <1>5

\* With fewer players than bases some team has room.
LEMMA SomeRoom ==
    ASSUME options \in Options, NEW g, Basic(g), Counted(g), Owned(g),
           Cardinality(Present(g)) < Len(BaseTeam)
    PROVE  \E t \in Teams : HasRoom(g, t)
<1> DEFINE P == Present(g)
<1>1. P \subseteq Players /\ IsFiniteSet(P) /\ Cardinality(P) \in Nat
  BY FinitePlayers DEF Present, Of
<1>2. PICK b \in Bases : \A p \in P : g.base[p] # b
  <2> SUFFICES ASSUME \A b \in Bases : \E p \in P : g.base[p] = b PROVE FALSE
    OBVIOUS
  <2> DEFINE f == [b \in Bases |-> CHOOSE p \in P : g.base[p] = b]
  <2>1. \A b \in Bases : f[b] \in P /\ g.base[f[b]] = b
    OBVIOUS
  <2>2. f \in [Bases -> P]
    BY <2>1
  <2> HIDE DEF f
  <2>3. f \in Injection(Bases, P)
    BY <2>1, <2>2, Fun_IsInj
  <2>4. IsFiniteSet(Bases) /\ Cardinality(Bases) = Len(BaseTeam) /\ Len(BaseTeam) \in Nat
    BY Settings
  <2> HIDE DEF P
  <2>5. Cardinality(Bases) <= Cardinality(P)
    BY <1>1, <2>3, <2>4, FS_Injection
  <2> QED BY <1>1, <2>4, <2>5 DEF P
<1> DEFINE t == BaseTeam[b]
           B == Based(g, t)
           T == {c \in Bases : BaseTeam[c] = t}
           f == [p \in B |-> g.base[p]]
<1>3. t \in Teams /\ IsFiniteSet(T) /\ Cardinality(T) \in Nat
  BY Settings, FS_Subset, FS_CardinalityType
<1>4. \A p \in B : p \in P /\ g.base[p] \in T \ {b} /\ \A q \in B : g.base[q] = g.base[p] => q = p
  <2> TAKE p \in B
  <2>1. p \in P /\ g.base[p] # NoBase /\ p \in Players
    BY <1>1 DEF Based
  <2>2. g.base[p] \in Bases
    BY <2>1, Fields DEF Basic
  <2>3. BaseTeam[g.base[p]] = t
    BY <2>1 DEF Owned, Based
  <2>4. \A q \in B : g.base[q] = g.base[p] => q = p
    BY <2>1 DEF Owned, Based
  <2> QED BY <1>2, <2>1, <2>2, <2>3, <2>4
<1>5. f \in [B -> T \ {b}]
  BY <1>4
<1>6. f \in Injection(B, T \ {b})
  <2>1. \A p, q \in B : f[p] = f[q] => p = q
    BY <1>4
  <2> HIDE DEF f, B, T
  <2> QED BY <1>5, <2>1, Fun_IsInj
<1>7. IsFiniteSet(B) /\ Cardinality(B) \in Nat
  BY <1>1, FinitePlayers DEF Based
<1>8. b \in T
  OBVIOUS
<1>9. g.members[t] = Cardinality(B) /\ NumBases(t) = Cardinality(T)
  BY <1>3 DEF Counted, NumBases
<1> HIDE DEF f, B, T, t
<1>10. IsFiniteSet(T \ {b}) /\ Cardinality(T \ {b}) = Cardinality(T) - 1
  BY <1>3, <1>8, FS_RemoveElement
<1>11. Cardinality(B) <= Cardinality(T \ {b})
  BY <1>6, <1>7, <1>10, FS_Injection
<1>12. HasRoom(g, t)
  BY <1>3, <1>7, <1>9, <1>10, <1>11 DEF HasRoom
<1> QED BY <1>3, <1>12

LEMMA CheckFewer ==
    ASSUME NEW g, Basic(g), NEW t \in Teams
    PROVE  Fewer(g, CheckTeamMembers(g, t))
<1> DEFINE n == Cardinality(Based(g, t))
           h == CheckTeamMembers(g, t)
<1>1. n \in Nat
  BY FinitePlayers DEF Based, Present, Of
<1>2. h = [g EXCEPT !.members[t] = n]
  BY DEF CheckTeamMembers
<1> HIDE DEF n, h
<1>3. /\ h \in Games /\ h.kind = g.kind /\ h.team = g.team /\ h.base = g.base
      /\ h.paused = g.paused /\ h.prevTeam = g.prevTeam /\ h.robots = g.robots
      /\ h.swapper = g.swapper /\ h.server = g.server
      /\ h.members = [g.members EXCEPT ![t] = n]
  BY <1>1, <1>2, SMTT(40) DEF Basic, Games
<1>4. Basic(h)
  BY <1>3 DEF Basic, Placed, Queues, Present, Of
<1>5. ASSUME Good(g) PROVE h = g
  <2>1. g.members[t] = n
    BY <1>5 DEF Good, Counted, n
  <2>2. [g EXCEPT !.members[t] = g.members[t]] = g
    BY DEF Basic, Games
  <2> QED BY <1>2, <2>1, <2>2
<1> QED BY <1>3, <1>4, <1>5 DEF Fewer, h

\* Robots that have a team of their own take no place in another.
LEMMA NoRobotsThere ==
    ASSUME NEW g, Good(g), RobotsApart, NEW t \in Teams, ~Reserved(t)
    PROVE  g.robots[t] = 0
<1>1. Based(g, t) \cap Of(g, "robot") = {}
  BY DEF Good, RobotsStay, RobotsApart, Reserved, Based
<1>2. g.robots[t] = Cardinality({})
  BY <1>1 DEF Good, Counted
<1> QED BY <1>2, FS_EmptySet

LEMMA EnterBased ==
    ASSUME options \in Options, NEW g, Basic(g), g.server = "up", NEW p \in Players,
           g.kind[p] = "joining", NEW t \in Teams, ~Reserved(t),
           RobotsApart /\ Good(g) => HasRoom(g, t)
    PROVE  Basic(Enter(g, p, t)) /\ Kept(g, Enter(g, p, t))
<1> DEFINE i == [[g EXCEPT !.kind[p] = "human"] EXCEPT !.team[p] = t]
           j == PickStartpos(i, p)
           h == [j EXCEPT !.members[t] = @ + 1]
<1>1. Enter(g, p, t) = h
  BY Settings DEF Enter
<1>2. /\ i \in Games /\ i.base = g.base /\ i.paused = g.paused /\ i.prevTeam = g.prevTeam
      /\ i.members = g.members /\ i.robots = g.robots /\ i.swapper = g.swapper
      /\ i.server = "up"
      /\ i.kind = [g.kind EXCEPT ![p] = "human"] /\ i.team = [g.team EXCEPT ![p] = t]
  BY DEF Basic, Games, Kinds
<1>3. /\ g.kind \in [Players -> Kinds] /\ g.team \in [Players -> Teams \cup {NoTeam}]
      /\ g.base \in [Players -> Bases \cup {NoBase}] /\ g.members \in [Teams -> Int]
  BY Fields DEF Basic
<1> HIDE DEF i
<1>4. /\ i.kind[p] = "human" /\ i.team[p] = t
      /\ \A q \in Players \ {p} : i.kind[q] = g.kind[q] /\ i.team[q] = g.team[q]
  BY <1>2, <1>3
<1>5. p \notin Present(g) /\ p \in Present(i) /\ Present(i) \ {p} = Present(g)
  BY <1>4 DEF Present, Of
<1>6. Basic(i)
  <2>1. Placed(i)
    BY <1>2, <1>4, <1>5 DEF Basic, Placed, Present, Of
  <2>2. Queues(i)
    <3>1. \A u \in Teams : g.swapper[u] # NoId => g.swapper[u] \in Players
      BY Fields DEF Basic
    <3> QED BY <1>2, <1>4, <3>1 DEF Basic, Queues
  <2> QED BY <1>2, <2>1, <2>2 DEF Basic
<1>7. /\ j \in Games /\ SameBut(i, j) /\ j.paused = i.paused
      /\ \/ /\ j.base = i.base /\ j.server = "ended"
            /\ \A b \in Bases : BaseTeam[b] = t => \E q \in Present(g) : g.base[q] = b
         \/ /\ j.server = "up"
            /\ \E b \in Bases : /\ BaseTeam[b] = t /\ j.base = [g.base EXCEPT ![p] = b]
                                /\ \A q \in Present(g) : g.base[q] # b
  <2>1. \A q \in Present(i) \ {p} : i.base[q] = g.base[q] /\ q \in Present(g)
    BY <1>2, <1>5
  <2>2. \A q \in Present(g) : q \in Present(i) \ {p}
    BY <1>5
  <2>3. Started(i, p, j)
    BY <1>2, PickStartposEffect
  <2> HIDE DEF j
  <2> QED BY <1>2, <1>4, <2>1, <2>2, <2>3, SMTT(40) DEF Started
<1>8. Basic(j)
  BY <1>5, <1>6, PickStartposBasic
<1> HIDE DEF j
<1>9. /\ h \in Games /\ h.kind = i.kind /\ h.team = i.team /\ h.base = j.base
      /\ h.paused = g.paused /\ h.prevTeam = g.prevTeam /\ h.robots = g.robots
      /\ h.swapper = g.swapper /\ h.server = j.server
      /\ h.members = [g.members EXCEPT ![t] = @ + 1]
  <2>1. j \in Games
    BY <1>7
  <2>2. /\ h \in Games /\ h.kind = j.kind /\ h.team = j.team /\ h.base = j.base
        /\ h.paused = j.paused /\ h.prevTeam = j.prevTeam /\ h.robots = j.robots
        /\ h.swapper = j.swapper /\ h.server = j.server
        /\ h.members = [j.members EXCEPT ![t] = @ + 1]
    BY <2>1 DEF Games
  <2> HIDE DEF h
  <2> QED BY <1>2, <1>7, <2>2 DEF SameBut
<1> HIDE DEF h
<1>10. Basic(h)
  BY <1>2, <1>7, <1>8, <1>9 DEF Basic, Placed, Queues, Present, Of, SameBut
<1>11. NoCircle(g) => NoCircle(h)
  <2>1. \A u \in Teams : ComesFrom(h, u) \in {NoTeam, ComesFrom(g, u)}
    <3>1. \A u \in Teams : g.swapper[u] # NoId => g.swapper[u] \in Players \ {p}
      BY Fields DEF Basic, Queues
    <3> QED BY <1>4, <1>9, <3>1 DEF ComesFrom
  <2>2. \A q \in Players : h.prevTeam[q] \in {0, g.prevTeam[q]}
    BY <1>9
  <2> QED BY <2>1, <2>2, NoCircleShrinks
<1>12. ASSUME Good(g), h.server = "up" PROVE Good(h)
  <2>1. PICK b \in Bases : /\ BaseTeam[b] = t /\ j.base = [g.base EXCEPT ![p] = b]
                           /\ \A q \in Present(g) : g.base[q] # b
    BY <1>7, <1>9, <1>12
  <2>2. h.base[p] = b /\ h.kind[p] = "human" /\ h.team[p] = t /\ OnlyOf(g, h, p)
    BY <1>3, <1>4, <1>9, <2>1 DEF OnlyOf
  <2>3. \A u \in Teams :
              /\ h.members[u] = g.members[u] - One(p \in Based(g, u)) + One(u = t)
              /\ h.robots[u] = g.robots[u] - One(p \in Based(g, u) /\ g.kind[p] = "robot")
                                           + One(u = t /\ "human" = "robot")
    <3>1. \A u \in Teams : ~(p \in Based(g, u)) /\ g.members[u] \in Int /\ g.robots[u] \in Int
      BY <1>5, Fields DEF Based, Basic
    <3>2. \A u \in Teams : h.members[u] = IF u = t THEN g.members[u] + 1 ELSE g.members[u]
      BY <1>3, <1>9
    <3> QED BY <1>9, <3>1, <3>2 DEF One
  <2>4. Counted(h) /\ Owned(h) /\ Seated(h)
    <3> DEFINE k == "human"
    <3>1. /\ k \in {"human", "robot"} /\ h.kind[p] = k
          /\ \A u \in Teams :
              /\ h.members[u] = g.members[u] - One(p \in Based(g, u)) + One(u = t)
              /\ h.robots[u] = g.robots[u] - One(p \in Based(g, u) /\ g.kind[p] = "robot")
                                           + One(u = t /\ k = "robot")
          /\ g.paused \ {p} \subseteq h.paused
          /\ \A u \in Teams : h.swapper[u] \in {NoId, g.swapper[u]}
          /\ \A q \in Present(g) \ {p} : g.base[q] # b
      BY <1>9, <2>1, <2>2, <2>3
    <3> HIDE DEF k
    <3> QED BY <1>10, <1>12, <2>1, <2>2, <3>1, TakesPlace
  <2>5. Fits(h)
    <3>1. Present(h) \cup Of(h, "joining") = Present(g) \cup Of(g, "joining")
      BY <1>4, <1>9 DEF Present, Of
    <3> QED BY <1>12, <3>1 DEF Good, Fits
  <2>6. RobotsStay(h)
    BY <1>4, <1>9, <1>12 DEF Good, RobotsStay, Of
  <2> QED BY <1>11, <1>12, <2>4, <2>5, <2>6 DEF Good
<1>13. ASSUME Good(g), RobotsApart PROVE h.server = "up"
  <2>1. p \notin Based(g, t) /\ HasRoom(g, t) /\ Counted(g) /\ Owned(g)
    BY <1>5, <1>13 DEF Based, Good
  <2>2. \E b \in Bases : BaseTeam[b] = t /\ \A q \in Present(g) \ {p} : g.base[q] # b
    BY <2>1, PlaceFree
  <2> QED BY <1>5, <1>7, <1>9, <2>2
<1> QED BY <1>1, <1>10, <1>11, <1>12, <1>13 DEF Kept, Lasting, Good

LEMMA EnterBaseless ==
    ASSUME options \in Options, NEW g, Basic(g), g.server = "up", NEW p \in Players,
           g.kind[p] = "joining", \A u \in Teams : ~(HasRoom(g, u) /\ ~Reserved(u))
    PROVE  Basic(Enter(g, p, NoTeam)) /\ Kept(g, Enter(g, p, NoTeam))
<1> DEFINE i == [g EXCEPT !.kind[p] = "human"]
           h == [i EXCEPT !.team[p] = 0, !.paused = @ \cup {p}]
<1>1. Enter(g, p, NoTeam) = h
  BY DEF Enter
<1>2. /\ i \in Games /\ i.team = g.team /\ i.base = g.base /\ i.paused = g.paused
      /\ i.prevTeam = g.prevTeam /\ i.members = g.members /\ i.robots = g.robots
      /\ i.swapper = g.swapper /\ i.server = "up" /\ i.kind = [g.kind EXCEPT ![p] = "human"]
  BY DEF Basic, Games, Kinds
<1> HIDE DEF i
<1>3. /\ h \in Games /\ h.base = g.base /\ h.paused = g.paused \cup {p}
      /\ h.prevTeam = g.prevTeam /\ h.members = g.members /\ h.robots = g.robots
      /\ h.swapper = g.swapper /\ h.server = "up" /\ h.kind = [g.kind EXCEPT ![p] = "human"]
      /\ h.team = [g.team EXCEPT ![p] = 0]
  <2>1. 0 \in Teams
    BY Settings
  <2>2. /\ h \in Games /\ h.base = i.base /\ h.paused = i.paused \cup {p}
        /\ h.prevTeam = i.prevTeam /\ h.members = i.members /\ h.robots = i.robots
        /\ h.swapper = i.swapper /\ h.server = i.server /\ h.kind = i.kind
        /\ h.team = [i.team EXCEPT ![p] = 0]
    BY <1>2, <2>1 DEF Games
  <2> HIDE DEF h
  <2> QED BY <1>2, <2>2
<1> HIDE DEF h
<1>4. /\ g.kind \in [Players -> Kinds] /\ g.team \in [Players -> Teams \cup {NoTeam}]
  BY Fields DEF Basic
<1>5. /\ h.kind[p] = "human" /\ h.team[p] = 0 /\ p \notin Present(g)
      /\ \A q \in Players \ {p} : h.kind[q] = g.kind[q] /\ h.team[q] = g.team[q]
  BY <1>3, <1>4 DEF Present, Of
<1>6. /\ Present(h) = Present(g) \cup {p} /\ Present(g) \subseteq Players
      /\ Of(h, "human") = Of(g, "human") \cup {p} /\ Of(h, "robot") = Of(g, "robot")
  BY <1>5 DEF Present, Of
<1>7. g.base[p] = NoBase
  BY <1>5 DEF Basic, Placed
<1>8. \A u \in Teams : g.swapper[u] # NoId => g.swapper[u] \in Players \ {p}
  BY Fields DEF Basic, Queues
<1>9. Basic(h)
  <2>1. Placed(h)
    BY <1>3, <1>5, <1>6, Settings DEF Basic, Placed
  <2>2. Queues(h)
    BY <1>3, <1>5, <1>8 DEF Basic, Queues
  <2> QED BY <1>3, <2>1, <2>2 DEF Basic
<1>10. ASSUME BasesKept, Good(g) PROVE Good(h)
  <2>1. \A u \in Teams : Based(h, u) = Based(g, u)
    BY <1>3, <1>5, <1>6, <1>7 DEF Based
  <2>2. Counted(h)
    BY <1>3, <1>6, <1>10, <2>1 DEF Good, Counted
  <2>3. Owned(h)
    BY <1>3, <1>5, <1>6, <1>7, <1>10 DEF Good, Owned
  <2>4. Fits(h)
    <3>1. Present(h) \cup Of(h, "joining") = Present(g) \cup Of(g, "joining")
      BY <1>5 DEF Present, Of
    <3> QED BY <1>10, <3>1 DEF Good, Fits
  <2>5. Reserved(0)
    <3> SUFFICES ASSUME ~BaselessPausing, ~ReserveRobotTeam PROVE FALSE
      BY <1>10 DEF BasesKept
    <3> DEFINE A == Present(g)
               B == Present(g) \cup Of(g, "joining")
               l == Len(BaseTeam)
    <3>1. Cardinality(B) <= l /\ l \in Nat
      BY <1>10, Settings DEF Good, Fits
    <3>2. A \subseteq B /\ p \in B /\ p \notin A /\ IsFiniteSet(B) /\ Cardinality(B) \in Nat
          /\ IsFiniteSet(A) /\ Cardinality(A) \in Nat
      BY <1>5, FinitePlayers DEF Present, Of
    <3> HIDE DEF A, B, l
    <3>3. IsFiniteSet(B \ {p}) /\ Cardinality(B \ {p}) = Cardinality(B) - 1 /\ A \subseteq B \ {p}
      BY <3>2, FS_RemoveElement
    <3>4. Cardinality(A) <= Cardinality(B \ {p})
      BY <3>3, FS_Subset
    <3>5. Cardinality(A) < l
      BY <3>1, <3>2, <3>3, <3>4
    <3>6. \E u \in Teams : HasRoom(g, u)
      BY <1>10, <3>5, SomeRoom DEF A, l, Good
    <3> QED BY <3>6 DEF Reserved
  <2>6. Seated(h)
    BY <1>3, <1>5, <1>6, <1>7, <1>10, <2>5 DEF Good, Seated
  <2>7. RobotsStay(h)
    BY <1>3, <1>5, <1>6, <1>10 DEF Good, RobotsStay, Present
  <2>8. NoCircle(h)
    <3>1. \A u \in Teams : ComesFrom(h, u) \in {NoTeam, ComesFrom(g, u)}
      BY <1>3, <1>5, <1>8 DEF ComesFrom
    <3>2. \A q \in Players : h.prevTeam[q] \in {0, g.prevTeam[q]}
      BY <1>3
    <3>3. NoCircle(g)
      BY <1>10 DEF Good
    <3> QED BY <3>1, <3>2, <3>3, NoCircleShrinks
  <2> QED BY <2>2, <2>3, <2>4, <2>6, <2>7, <2>8 DEF Good
<1>11. h.server = "up"
  BY <1>3
<1>12. Kept(g, h)
  BY <1>10, <1>11, GoodKept
<1> QED BY <1>1, <1>9, <1>12

LEMMA HandleLoginKeeps ==
    ASSUME options \in Options, Basic(game), game.server = "up", NEW p \in Players, Login(p)
    PROVE  Basic(game') /\ Kept(game, game')
<1> DEFINE wish == game.team[p]
           g == IF wish # NoTeam /\ ~Reserved(wish) /\ NumBases(wish) > 0
                THEN CheckTeamMembers(game, wish) ELSE game
<1>1. game.kind[p] = "joining" /\ wish \in Teams \cup {NoTeam}
  BY Fields DEF Login, Basic
<1>2. Fewer(game, g)
  <2>1. Fewer(game, game)
    BY DEF Fewer
  <2>2. wish \in Teams => Fewer(game, CheckTeamMembers(game, wish))
    BY CheckFewer
  <2> QED BY <1>1, <2>1, <2>2
<1>3. PICK t \in IF StillFits(g, wish) THEN {wish} ELSE PickTeam(g, FALSE) : game' = Enter(g, p, t)
  BY DEF Login
<1>4. g.kind = game.kind
  BY DEF CheckTeamMembers, Basic, Games
<1> HIDE DEF g, wish
<1>5. g.kind[p] = "joining" /\ Basic(g) /\ g.server = "up"
  BY <1>1, <1>2, <1>4 DEF Fewer
<1>6. CASE StillFits(g, wish)
  <2>1. t \in Teams /\ ~Reserved(t)
    BY <1>1, <1>3, <1>6 DEF StillFits
  <2>2. ASSUME RobotsApart, Good(g) PROVE HasRoom(g, t)
    <3> DEFINE n == Cardinality(Based(g, t))
    <3>1. n \in Nat /\ g.members[t] = n
      BY <2>1, <2>2, FinitePlayers DEF Good, Counted, Based, Present, Of
    <3>2. CheckTeamMembers(g, t).members[t] = n
      BY <1>5, <2>1 DEF CheckTeamMembers, Basic, Games
    <3>3. n - g.robots[t] < NumBases(t)
      BY <1>3, <1>6, <3>2 DEF StillFits
    <3>4. g.robots[t] = 0
      BY <2>1, <2>2, NoRobotsThere
    <3> HIDE DEF n
    <3>5. n < NumBases(t)
      BY <3>1, <3>3, <3>4
    <3>6. NumBases(t) \in Nat
      BY Settings, FS_Subset, FS_CardinalityType DEF NumBases
    <3> QED BY <3>1, <3>5, <3>6 DEF HasRoom
  <2>3. Basic(Enter(g, p, t)) /\ Kept(g, Enter(g, p, t))
    BY <1>5, <2>1, <2>2, EnterBased
  <2> QED BY <1>2, <1>3, <2>3, KeptStill
<1>7. CASE ~StillFits(g, wish)
  <2>1. t \in PickTeam(g, FALSE)
    BY <1>3, <1>7
  <2> DEFINE r == FALSE
  <2>2. /\ PickTeam(g, r) \subseteq Teams \cup {NoTeam}
        /\ \A u \in PickTeam(g, r) \ {NoTeam} : HasRoom(g, u) /\ (~r => ~Reserved(u))
        /\ NoTeam \in PickTeam(g, FALSE) => \A u \in Teams : ~(HasRoom(g, u) /\ ~Reserved(u))
    <3>1. r \in BOOLEAN
      OBVIOUS
    <3> HIDE DEF r
    <3> QED BY <3>1, PickTeamTyped
  <2>3. CASE t = NoTeam
    <3>1. Basic(Enter(g, p, t)) /\ Kept(g, Enter(g, p, t))
      BY <1>5, <2>1, <2>2, <2>3, EnterBaseless
    <3> QED BY <1>2, <1>3, <3>1, KeptStill
  <2>4. CASE t # NoTeam
    <3>1. t \in Teams /\ HasRoom(g, t) /\ ~Reserved(t)
      BY <2>1, <2>2, <2>4
    <3>2. Basic(Enter(g, p, t)) /\ Kept(g, Enter(g, p, t))
      BY <1>5, <3>1, EnterBased
    <3> QED BY <1>2, <1>3, <3>2, KeptStill
  <2> QED BY <2>3, <2>4
<1> QED BY <1>6, <1>7

\* The game but that the server has stopped.
LEMMA ServerStops ==
    ASSUME options \in Options, NEW g, Basic(g), NEW s \in Servers, NEW h, h = [g EXCEPT !.server = s]
    PROVE  Basic(h) /\ h.server = s /\ (NoCircle(g) => NoCircle(h))
<1>1. /\ h \in Games /\ h.kind = g.kind /\ h.team = g.team /\ h.base = g.base
      /\ h.paused = g.paused /\ h.prevTeam = g.prevTeam /\ h.swapper = g.swapper /\ h.server = s
  BY DEF Basic, Games
<1>2. Basic(h)
  BY <1>1 DEF Basic, Placed, Queues, Present, Of
<1>3. NoCircle(g) => NoCircle(h)
  BY <1>1 DEF NoCircle, ComesFrom
<1> QED BY <1>1, <1>2, <1>3

\* Where none are allowed, none are wanted.
LEMMA RobotsAllowed ==
    ASSUME options \in Options, NEW g, RobotWanted(g)
    PROVE  ~(MinRobots <= 0 /\ MaxRobots <= 0)
<1> DEFINE n == NumShips(g)
           m == NumRobots(g)
           a == MinRobots
           b == MaxRobots
<1>1. n \in Nat /\ m \in Nat
  BY FinitePlayers DEF NumShips, NumRobots, Present, Of
<1>2. n < b \/ m < a
  BY DEF RobotWanted
<1>3. a \in Int /\ b \in Int
  BY Settings
<1> HIDE DEF n, m, a, b
<1>4. ~(a <= 0 /\ b <= 0)
  BY <1>1, <1>2, <1>3
<1> QED BY <1>4 DEF a, b

\* p is a robot of team t, but without a base yet.
Enlisted(g, p, t, i) ==
    /\ i \in Games /\ i.base = g.base /\ i.paused = g.paused /\ i.prevTeam = g.prevTeam
    /\ i.swapper = g.swapper /\ i.server = g.server
    /\ i.kind = [g.kind EXCEPT ![p] = "robot"] /\ i.team = [g.team EXCEPT ![p] = t]
    /\ i.members = [g.members EXCEPT ![t] = @ + 1] /\ i.robots = [g.robots EXCEPT ![t] = @ + 1]

LEMMA RobotPlaced ==
    ASSUME options \in Options, NEW g, Basic(g), g.server = "up", NEW p \in Players,
           g.kind[p] = "absent", RobotWanted(g), NEW t \in Teams, HasRoom(g, t),
           RestrictRobots => t = RobotTeam, NEW i, Enlisted(g, p, t, i)
    PROVE  Basic(PickStartpos(i, p)) /\ Kept(g, PickStartpos(i, p))
<1> DEFINE h == PickStartpos(i, p)
<1>1. /\ i \in Games /\ i.base = g.base /\ i.paused = g.paused /\ i.prevTeam = g.prevTeam
      /\ i.swapper = g.swapper /\ i.server = "up"
      /\ i.kind = [g.kind EXCEPT ![p] = "robot"] /\ i.team = [g.team EXCEPT ![p] = t]
      /\ i.members = [g.members EXCEPT ![t] = @ + 1]
      /\ i.robots = [g.robots EXCEPT ![t] = @ + 1]
  BY DEF Enlisted
<1>2. Started(i, p, h)
  BY <1>1, PickStartposEffect
<1>3. /\ g.kind \in [Players -> Kinds] /\ g.team \in [Players -> Teams \cup {NoTeam}]
      /\ g.base \in [Players -> Bases \cup {NoBase}]
      /\ g.members \in [Teams -> Int] /\ g.robots \in [Teams -> Int]
  BY Fields DEF Basic
<1>4. /\ i.kind[p] = "robot" /\ i.team[p] = t
      /\ \A q \in Players \ {p} : i.kind[q] = g.kind[q] /\ i.team[q] = g.team[q]
  BY <1>1, <1>3
<1>5. p \notin Present(g) /\ p \in Present(i) /\ Present(i) = Present(g) \cup {p}
  BY <1>4 DEF Present, Of
<1>6. \A u \in Teams : g.swapper[u] # NoId => g.swapper[u] \in Players \ {p}
  BY Fields DEF Basic, Queues
<1>7. Basic(i)
  <2>1. i.paused \subseteq Of(i, "human")
    BY <1>1, <1>4 DEF Basic, Placed, Of
  <2>2. Placed(i)
    BY <1>1, <1>4, <1>5, <2>1 DEF Basic, Placed, Present, Of
  <2>3. Queues(i)
    BY <1>1, <1>4, <1>6 DEF Basic, Queues
  <2> QED BY <1>1, <2>2, <2>3 DEF Basic
<1>8. Basic(h)
  BY <1>5, <1>7, PickStartposBasic
<1> HIDE DEF h
<1>9. /\ SameBut(i, h) /\ h.paused = i.paused
      /\ \/ /\ h.base = i.base /\ h.server = "ended"
            /\ \A b \in Bases : BaseTeam[b] = i.team[p] =>
                        \E q \in Present(i) \ {p} : i.base[q] = b
         \/ /\ h.server = i.server
            /\ \E b \in Bases : /\ BaseTeam[b] = i.team[p] /\ h.base = [i.base EXCEPT ![p] = b]
                                /\ \A q \in Present(i) \ {p} : i.base[q] # b
  BY <1>2 DEF Started
<1>10. ASSUME Good(g) PROVE h.server = "up" /\ Good(h)
  <2>1. p \notin Based(g, t) /\ Counted(g) /\ Owned(g)
    BY <1>5, <1>10 DEF Based, Good
  <2>2. \E b \in Bases : BaseTeam[b] = t /\ \A q \in Present(g) \ {p} : g.base[q] # b
    BY <2>1, PlaceFree
  <2>3. Present(i) \ {p} = Present(g) \ {p}
    BY <1>5
  <2>4. h.server = "up"
        /\ \E b \in Bases : /\ BaseTeam[b] = t /\ h.base = [g.base EXCEPT ![p] = b]
                            /\ \A q \in Present(g) \ {p} : g.base[q] # b
    BY <1>1, <1>4, <1>9, <2>2, <2>3, SMTT(40)
  <2>5. PICK b \in Bases : /\ BaseTeam[b] = t /\ h.base = [g.base EXCEPT ![p] = b]
                           /\ \A q \in Present(g) \ {p} : g.base[q] # b
    BY <2>4
  <2> DEFINE k == "robot"
  <2>6. /\ k \in {"human", "robot"} /\ h.kind[p] = k /\ h.team[p] = t /\ h.base[p] = b
        /\ OnlyOf(g, h, p) /\ k # "human" /\ g.paused \ {p} \subseteq h.paused
        /\ \A u \in Teams : h.swapper[u] \in {NoId, g.swapper[u]}
    BY <1>1, <1>3, <1>4, <1>9, <2>5 DEF OnlyOf, SameBut
  <2>7. \A u \in Teams :
            /\ h.members[u] = g.members[u] - One(p \in Based(g, u)) + One(u = t)
            /\ h.robots[u] = g.robots[u] - One(p \in Based(g, u) /\ g.kind[p] = "robot")
                                         + One(u = t /\ k = "robot")
    <3>1. \A u \in Teams : ~(p \in Based(g, u)) /\ g.members[u] \in Int /\ g.robots[u] \in Int
      BY <1>3, <1>5 DEF Based
    <3>2. \A u \in Teams :
             /\ h.members[u] = IF u = t THEN g.members[u] + 1 ELSE g.members[u]
             /\ h.robots[u] = IF u = t THEN g.robots[u] + 1 ELSE g.robots[u]
      BY <1>1, <1>3, <1>9 DEF SameBut
    <3> QED BY <3>1, <3>2 DEF One
  <2>8. Counted(h) /\ Owned(h) /\ Seated(h)
    <3> HIDE DEF k
    <3>1. k = "human" => ~Reserved(t)
      BY <2>6
    <3>2. /\ \A q \in Present(g) \ {p} : g.base[q] # b
          /\ BaseTeam[b] = t
      BY <2>5
    <3>3. /\ h.kind[p] = k /\ h.team[p] = t /\ h.base[p] = b /\ k \in {"human", "robot"}
          /\ OnlyOf(g, h, p) /\ g.paused \ {p} \subseteq h.paused
          /\ \A u \in Teams : h.swapper[u] \in {NoId, g.swapper[u]}
      BY <2>6
    <3> QED BY <1>8, <1>10, <2>7, <3>1, <3>2, <3>3, TakesPlace
  <2>9. Fits(h)
    <3>1. ~BaselessPausing => Cardinality(Present(g) \cup Of(g, "joining")) < Len(BaseTeam)
      BY DEF RobotWanted, NumShips
    <3>2. \A q \in Players \ {p} : h.kind[q] = g.kind[q]
      BY <2>6 DEF OnlyOf
    <3> QED BY <3>1, <3>2, OneMoreFits
  <2>10. RobotsStay(h)
    <3>1. Of(h, "robot") = Of(g, "robot") \cup {p}
      BY <2>6 DEF Of, OnlyOf
    <3>2. \A q \in Of(g, "robot") : q # p => h.team[q] = g.team[q]
      BY <2>6 DEF Of, OnlyOf
    <3>3. RestrictRobots => \A q \in Of(h, "robot") : h.team[q] = RobotTeam
      BY <1>10, <2>6, <3>1, <3>2 DEF Good, RobotsStay
    <3>4. ~(MinRobots <= 0 /\ MaxRobots <= 0)
      BY RobotsAllowed
    <3> QED BY <3>3, <3>4 DEF RobotsStay
  <2>11. NoCircle(h)
    <3>1. \A u \in Teams : ComesFrom(h, u) \in {NoTeam, ComesFrom(g, u)}
      BY <1>1, <1>4, <1>6, <1>9 DEF ComesFrom, SameBut
    <3>2. \A q \in Players : h.prevTeam[q] \in {0, g.prevTeam[q]}
      BY <1>1, <1>9 DEF SameBut
    <3>3. NoCircle(g)
      BY <1>10 DEF Good
    <3> QED BY <3>1, <3>2, <3>3, NoCircleShrinks
  <2> QED BY <1>10, <2>4, <2>8, <2>9, <2>10, <2>11 DEF Good
<1>11. Kept(g, h)
  BY <1>10 DEF Kept, Good, Lasting
<1> QED BY <1>8, <1>11 DEF h

LEMMA RobotCreateKeeps ==
    ASSUME options \in Options, Basic(game), game.server = "up", NEW p \in Players, RobotCreate(p)
    PROVE  Basic(game') /\ Kept(game, game')
<1>1. game.kind[p] = "absent" /\ RobotWanted(game)
  BY DEF RobotCreate
<1>2. PICK t \in PickTeam(game, TRUE) :
          game' = IF t = NoTeam THEN [game EXCEPT !.server = "aborted"]
                  ELSE PickStartpos([game EXCEPT !.kind[p] = "robot", !.team[p] = t,
                                         !.members[t] = @ + 1, !.robots[t] = @ + 1], p)
  BY DEF RobotCreate
<1> DEFINE r == TRUE
<1>3. /\ t \in Teams \cup {NoTeam} /\ (t # NoTeam => HasRoom(game, t))
      /\ RestrictRobots => t = RobotTeam \/ (t = NoTeam /\ ~HasRoom(game, RobotTeam))
  <2>1. r \in BOOLEAN /\ t \in PickTeam(game, r) /\ r
    OBVIOUS
  <2> HIDE DEF r
  <2>2. /\ PickTeam(game, r) \subseteq Teams \cup {NoTeam}
        /\ \A u \in PickTeam(game, r) \ {NoTeam} : HasRoom(game, u) /\ (~r => ~Reserved(u))
        /\ r /\ RestrictRobots => \A u \in PickTeam(game, r) :
                 u = RobotTeam \/ (u = NoTeam /\ ~HasRoom(game, RobotTeam))
    BY <2>1, PickTeamTyped
  <2> QED BY <2>1, <2>2
<1>4. RobotsApart => t # NoTeam
  BY <1>1, <1>3, RobotsAllowed, Settings DEF RobotsApart, RobotWanted
<1>5. CASE t = NoTeam
  <2> DEFINE s == "aborted"
  <2>1. s \in Servers /\ game' = [game EXCEPT !.server = s] /\ s # "up"
    BY <1>2, <1>5 DEF Servers
  <2> HIDE DEF s
  <2>2. Basic(game') /\ game'.server = s /\ (NoCircle(game) => NoCircle(game'))
    BY <2>1, ServerStops
  <2> QED BY <1>4, <1>5, <2>1, <2>2 DEF Kept, Good
<1>6. CASE t # NoTeam
  <2>1. t \in Teams /\ HasRoom(game, t) /\ (RestrictRobots => t = RobotTeam)
    BY <1>3, <1>6
  <2> DEFINE i == [game EXCEPT !.kind[p] = "robot", !.team[p] = t,
                               !.members[t] = @ + 1, !.robots[t] = @ + 1]
  <2>2. game' = PickStartpos(i, p)
    BY <1>2, <1>6
  <2>3. Enlisted(game, p, t, i)
    <3> DEFINE i1 == [game EXCEPT !.kind[p] = "robot"]
               i2 == [i1 EXCEPT !.team[p] = t]
               i3 == [i2 EXCEPT !.members[t] = @ + 1]
    <3>1. /\ i1 \in Games /\ i1.base = game.base /\ i1.paused = game.paused
          /\ i1.prevTeam = game.prevTeam /\ i1.swapper = game.swapper /\ i1.server = game.server
          /\ i1.kind = [game.kind EXCEPT ![p] = "robot"] /\ i1.team = game.team
          /\ i1.members = game.members /\ i1.robots = game.robots
      BY DEF Basic, Games, Kinds
    <3>2. i = [i3 EXCEPT !.robots[t] = @ + 1]
      OBVIOUS
    <3> HIDE DEF i, i1
    <3>3. /\ i2 \in Games /\ i2.base = i1.base /\ i2.paused = i1.paused
          /\ i2.prevTeam = i1.prevTeam /\ i2.swapper = i1.swapper /\ i2.server = i1.server
          /\ i2.kind = i1.kind /\ i2.team = [i1.team EXCEPT ![p] = t]
          /\ i2.members = i1.members /\ i2.robots = i1.robots
      BY <2>1, <3>1 DEF Games
    <3> HIDE DEF i2
    <3>4. /\ i3 \in Games /\ i3.base = i2.base /\ i3.paused = i2.paused
          /\ i3.prevTeam = i2.prevTeam /\ i3.swapper = i2.swapper /\ i3.server = i2.server
          /\ i3.kind = i2.kind /\ i3.team = i2.team /\ i3.robots = i2.robots
          /\ i3.members = [i2.members EXCEPT ![t] = @ + 1]
      BY <2>1, <3>3, SMTT(40) DEF Games
    <3> HIDE DEF i3
    <3>5. /\ i \in Games /\ i.base = i3.base /\ i.paused = i3.paused
          /\ i.prevTeam = i3.prevTeam /\ i.swapper = i3.swapper /\ i.server = i3.server
          /\ i.kind = i3.kind /\ i.team = i3.team /\ i.members = i3.members
          /\ i.robots = [i3.robots EXCEPT ![t] = @ + 1]
      BY <2>1, <3>2, <3>4, SMTT(40) DEF Games
    <3> QED BY <3>1, <3>3, <3>4, <3>5 DEF Enlisted
  <2> HIDE DEF i
  <2> QED BY <1>1, <2>1, <2>2, <2>3, RobotPlaced
<1> QED BY <1>5, <1>6

-----------------------------------------------------------------------------
(* Pausing and moving.                                                     *)

\* Queues may be left, and players paused, at any time.
LEMMA QuietFewer ==
    ASSUME options \in Options, NEW g, Basic(g), NEW h \in Games,
           h.kind = g.kind, h.team = g.team, h.base = g.base, h.prevTeam = g.prevTeam,
           h.members = g.members, h.robots = g.robots, h.server = g.server,
           g.paused \subseteq h.paused, h.paused \subseteq Of(g, "human"),
           \A t \in Teams : h.swapper[t] \in {NoId, g.swapper[t]}
    PROVE  Fewer(g, h)
<1>1. Of(h, "human") = Of(g, "human") /\ Of(h, "robot") = Of(g, "robot")
      /\ Present(h) = Present(g) /\ \A t \in Teams : Based(h, t) = Based(g, t)
  BY DEF Of, Present, Based
<1>2. Placed(h)
  BY <1>1 DEF Basic, Placed
<1>3. Queues(h)
  BY DEF Basic, Queues
<1>4. ASSUME Good(g) PROVE Good(h)
  <2>1. Counted(h)
    BY <1>1, <1>4 DEF Good, Counted
  <2>2. Owned(h)
    BY <1>1, <1>4 DEF Good, Owned
  <2>3. Seated(h)
    BY <1>1, <1>4 DEF Good, Seated
  <2>4. Fits(h)
    BY <1>4 DEF Good, Fits, Present, Of
  <2>5. RobotsStay(h)
    BY <1>1, <1>4 DEF Good, RobotsStay
  <2>6. NoCircle(h)
    <3>1. \A t \in Teams : ComesFrom(h, t) \in {NoTeam, ComesFrom(g, t)}
      BY DEF ComesFrom
    <3>2. \A p \in Players : h.prevTeam[p] \in {0, g.prevTeam[p]}
      OBVIOUS
    <3>3. NoCircle(g)
      BY <1>4 DEF Good
    <3> QED BY <3>1, <3>2, <3>3, NoCircleShrinks
  <2> QED BY <2>1, <2>2, <2>3, <2>4, <2>5, <2>6 DEF Good
<1> QED BY <1>2, <1>3, <1>4 DEF Fewer, Basic

LEMMA UnqueueFewer ==
    ASSUME options \in Options, NEW g, Basic(g), NEW S
    PROVE  Fewer(g, Unqueue(g, S))
<1> DEFINE h == Unqueue(g, S)
<1>1. /\ h \in Games /\ h.kind = g.kind /\ h.team = g.team /\ h.base = g.base
      /\ h.paused = g.paused /\ h.prevTeam = g.prevTeam /\ h.members = g.members
      /\ h.robots = g.robots /\ h.server = g.server
      /\ h.swapper = [t \in Teams |-> IF g.swapper[t] \in S THEN NoId ELSE g.swapper[t]]
  BY UnqueueEffect DEF Basic
<1> HIDE DEF h
<1>2. /\ g.paused \subseteq h.paused /\ h.paused \subseteq Of(g, "human")
      /\ \A t \in Teams : h.swapper[t] \in {NoId, g.swapper[t]}
  BY <1>1 DEF Basic, Placed
<1>3. Fewer(g, h)
  BY <1>1, <1>2, QuietFewer
<1> QED BY <1>3 DEF h

LEMMA TeamRefusedKeeps ==
    ASSUME options \in Options, Basic(game), game.server = "up", NEW p \in Players,
           NEW t \in Teams, TeamRefused(p, t)
    PROVE  Basic(game') /\ Kept(game, game')
<1>1. Fewer(game, game')
  BY UnqueueFewer DEF TeamRefused
<1> QED BY <1>1, GoodKept DEF Fewer

\* A player gives his base away and pauses in team 0.
LEMMA PauseBaseless ==
    ASSUME options \in Options, NEW g, Basic(g), BaselessPausing, NEW p \in g.paused,
           NEW t \in Teams, g.team[p] = t, g.base[p] # NoBase, NEW h \in Games,
           h.kind = g.kind, h.paused = g.paused, h.robots = g.robots, h.swapper = g.swapper,
           h.team = [g.team EXCEPT ![p] = 0], h.base = [g.base EXCEPT ![p] = NoBase],
           h.members = [g.members EXCEPT ![t] = @ - 1]
    PROVE  Basic(h) /\ (BasesKept /\ Good(g) => Good(h))
<1>1. p \in Of(g, "human") /\ p \in Present(g) /\ p \in Players /\ g.kind[p] # "robot"
  BY DEF Basic, Placed, Present, Of
<1>2. /\ h.team[p] = 0 /\ h.base[p] = NoBase /\ 0 \in Teams
      /\ \A q \in Players \ {p} : h.team[q] = g.team[q] /\ h.base[q] = g.base[q]
  <2>1. g.team \in [Players -> Teams \cup {NoTeam}] /\ g.base \in [Players -> Bases \cup {NoBase}]
    BY Fields DEF Basic
  <2> QED BY <1>1, <2>1, Settings
<1>3. Present(h) = Present(g) /\ Of(h, "human") = Of(g, "human") /\ Of(h, "robot") = Of(g, "robot")
      /\ Present(g) \subseteq Players
  BY DEF Present, Of
<1>4. Basic(h)
  <2>1. Placed(h)
    BY <1>2, <1>3 DEF Basic, Placed
  <2>2. Queues(h)
    BY DEF Basic, Queues
  <2> QED BY <2>1, <2>2 DEF Basic
<1>5. ASSUME BasesKept, Good(g) PROVE Good(h)
  <2>1. Reserved(0)
    BY <1>5 DEF BasesKept
  <2>2. Counted(h)
    <3>1. OnlyOf(g, h, p)
      BY <1>2 DEF OnlyOf
    <3>2. \A u \in Teams :
              /\ h.members[u] = g.members[u] - One(p \in Based(g, u)) + One(p \in Based(h, u))
              /\ h.robots[u] = g.robots[u] - One(p \in Based(g, u) /\ g.kind[p] = "robot")
                                           + One(p \in Based(h, u) /\ h.kind[p] = "robot")
      <4>1. \A u \in Teams : (p \in Based(g, u) <=> u = t) /\ ~(p \in Based(h, u))
        BY <1>1, <1>2, <1>3 DEF Based
      <4>2. \A u \in Teams :
               /\ h.members[u] = IF u = t THEN g.members[u] - 1 ELSE g.members[u]
               /\ g.members[u] \in Int /\ g.robots[u] \in Int
        BY Fields DEF Basic
      <4> QED BY <1>1, <4>1, <4>2 DEF One
    <3>3. Counted(g)
      BY <1>5 DEF Good
    <3> QED BY <1>1, <3>1, <3>2, <3>3, OneChanges
  <2>3. Owned(h)
    <3>1. \A q \in Present(h) : h.base[q] # NoBase =>
             q \in Present(g) /\ h.base[q] = g.base[q] /\ h.team[q] = g.team[q]
      BY <1>2, <1>3
    <3>2. \A q \in Present(h) : h.base[q] \in {NoBase, g.base[q]}
      BY <1>2, <1>3
    <3> QED BY <1>3, <1>5, <3>1, <3>2 DEF Good, Owned
  <2>4. Seated(h)
    <3>1. \A q \in Present(h) : h.base[q] = NoBase =>
              Reserved(0) /\ q \in h.paused /\ h.team[q] = 0
      BY <1>2, <1>3, <1>5, <2>1 DEF Good, Seated
    <3>2. \A q \in Of(h, "human") : h.base[q] # NoBase => ~Reserved(h.team[q])
      <4>1. \A q \in Of(h, "human") : h.base[q] # NoBase =>
               q \in Of(g, "human") /\ h.base[q] = g.base[q] /\ h.team[q] = g.team[q]
        BY <1>2, <1>3 DEF Of
      <4> QED BY <1>5, <4>1 DEF Good, Seated
    <3> QED BY <1>5, <3>1, <3>2 DEF Good, Seated
  <2>5. RobotsStay(h)
    <3>1. \A q \in Of(h, "robot") : h.team[q] = g.team[q]
      BY <1>1, <1>2, <1>3 DEF Of
    <3> QED BY <1>3, <1>5, <3>1 DEF Good, RobotsStay
  <2> QED BY <2>2, <2>3, <2>4, <2>5 DEF Good, Fits, NoCircle
<1> QED BY <1>4, <1>5

LEMMA PauseKeeps ==
    ASSUME options \in Options, Basic(game), game.server = "up", NEW p \in Players, Pause(p)
    PROVE  Basic(game') /\ Kept(game, game')
<1> DEFINE t == game.team[p]
           loud  == [game EXCEPT !.swapper[t] = NoId, !.paused = @ \cup {p}]
           quiet == Unqueue(loud, {p})
<1>1. game.kind[p] = "human" /\ p \notin game.paused /\ p \in Of(game, "human")
      /\ p \in Present(game)
  BY DEF Pause, Of, Present
<1>2. t \in Teams
  BY <1>1 DEF Basic, Placed
<1>3. /\ loud \in Games /\ loud.kind = game.kind /\ loud.team = game.team /\ loud.base = game.base
      /\ loud.prevTeam = game.prevTeam /\ loud.members = game.members
      /\ loud.robots = game.robots /\ loud.server = game.server
      /\ loud.paused = game.paused \cup {p} /\ loud.swapper = [game.swapper EXCEPT ![t] = NoId]
  BY <1>2 DEF Basic, Games
<1>4. game' = IF ~BaselessPausing THEN quiet
              ELSE IF game.base[p] = NoBase THEN [game EXCEPT !.server = "crashed"]
              ELSE [quiet EXCEPT !.members[t] = @ - 1, !.prevTeam[p] = t,
                                 !.team[p] = 0, !.base[p] = NoBase]
  BY DEF Pause
<1> HIDE DEF loud
<1>5. Fewer(game, loud)
  <2>1. \A u \in Teams : loud.swapper[u] \in {NoId, game.swapper[u]}
    BY <1>3, Fields DEF Basic
  <2>2. game.paused \subseteq loud.paused /\ loud.paused \subseteq Of(game, "human")
    BY <1>1, <1>3 DEF Basic, Placed
  <2> QED BY <1>3, <2>1, <2>2, QuietFewer
<1>6. Basic(loud) /\ Fewer(loud, quiet)
  BY <1>5, UnqueueFewer DEF Fewer
<1>7. Fewer(game, quiet)
  BY <1>5, <1>6, FewerStill
<1>8. /\ quiet \in Games /\ quiet.kind = game.kind /\ quiet.team = game.team
      /\ quiet.base = game.base /\ quiet.prevTeam = game.prevTeam /\ quiet.members = game.members
      /\ quiet.robots = game.robots /\ quiet.server = "up" /\ quiet.paused = game.paused \cup {p}
  BY <1>3, UnqueueEffect, ZenonT(60)
<1> HIDE DEF quiet
<1>9. CASE ~BaselessPausing
  BY <1>4, <1>7, <1>9, GoodKept DEF Fewer
<1>10. CASE BaselessPausing /\ game.base[p] = NoBase
  <2> DEFINE s == "crashed"
  <2>1. s \in Servers /\ game' = [game EXCEPT !.server = s] /\ s # "up"
    BY <1>4, <1>10 DEF Servers
  <2> HIDE DEF s
  <2>2. Basic(game')
    BY <2>1, ServerStops
  <2>3. ~Good(game)
    BY <1>1, <1>10 DEF Good, Seated
  <2> QED BY <2>2, <2>3 DEF Kept
<1>11. CASE BaselessPausing /\ game.base[p] # NoBase
  <2> DEFINE q1 == [quiet EXCEPT !.members[t] = @ - 1]
             q2 == [q1 EXCEPT !.prevTeam[p] = t]
             q3 == [q2 EXCEPT !.team[p] = 0]
  <2>1. game' = [q3 EXCEPT !.base[p] = NoBase]
    BY <1>4, <1>11
  <2>2. /\ q1 \in Games /\ q1.kind = quiet.kind /\ q1.team = quiet.team /\ q1.base = quiet.base
        /\ q1.paused = quiet.paused /\ q1.robots = quiet.robots /\ q1.swapper = quiet.swapper
        /\ q1.server = quiet.server /\ q1.members = [quiet.members EXCEPT ![t] = @ - 1]
    BY <1>2, <1>8 DEF Games
  <2> HIDE DEF q1
  <2>3. /\ q2 \in Games /\ q2.kind = q1.kind /\ q2.team = q1.team /\ q2.base = q1.base
        /\ q2.paused = q1.paused /\ q2.robots = q1.robots /\ q2.swapper = q1.swapper
        /\ q2.server = q1.server /\ q2.members = q1.members
    BY <1>2, <2>2 DEF Games
  <2> HIDE DEF q2
  <2>4. /\ q3 \in Games /\ q3.kind = q2.kind /\ q3.team = [q2.team EXCEPT ![p] = 0]
        /\ q3.base = q2.base /\ q3.paused = q2.paused /\ q3.robots = q2.robots
        /\ q3.swapper = q2.swapper /\ q3.server = q2.server /\ q3.members = q2.members
    BY <2>3, Settings DEF Games
  <2> HIDE DEF q3
  <2>5. /\ game' \in Games /\ game'.kind = q3.kind /\ game'.team = q3.team
        /\ game'.base = [q3.base EXCEPT ![p] = NoBase] /\ game'.paused = q3.paused
        /\ game'.robots = q3.robots /\ game'.swapper = q3.swapper /\ game'.server = q3.server
        /\ game'.members = q3.members
    BY <2>1, <2>4 DEF Games
  <2>6. /\ game' \in Games /\ game'.kind = quiet.kind /\ game'.paused = quiet.paused
        /\ game'.robots = quiet.robots /\ game'.swapper = quiet.swapper /\ game'.server = "up"
        /\ game'.team = [quiet.team EXCEPT ![p] = 0]
        /\ game'.base = [quiet.base EXCEPT ![p] = NoBase]
        /\ game'.members = [quiet.members EXCEPT ![t] = @ - 1]
    BY <1>8, <2>2, <2>3, <2>4, <2>5
  <2>7. Basic(quiet) /\ p \in quiet.paused /\ quiet.team[p] = t /\ quiet.base[p] # NoBase
    BY <1>7, <1>8, <1>11 DEF Fewer
  <2> HIDE DEF t
  <2>8. Basic(game') /\ (BasesKept /\ Good(quiet) => Good(game'))
    BY <1>2, <1>11, <2>6, <2>7, PauseBaseless
  <2>9. Kept(quiet, game')
    BY <2>6, <2>8, GoodKept
  <2> QED BY <1>7, <2>8, <2>9, KeptStill
<1> QED BY <1>9, <1>10, <1>11

\* A player has left his base, if he had one, and counts in team t.
Moving(g, p, t, i) ==
    /\ i \in Games /\ i.kind = g.kind /\ i.base = g.base /\ i.paused = g.paused
    /\ i.prevTeam = g.prevTeam /\ i.robots = g.robots /\ i.swapper = g.swapper
    /\ i.server = g.server /\ i.team = [g.team EXCEPT ![p] = t]
    /\ \A u \in Teams : i.members[u] = g.members[u] - One(p \in Based(g, u)) + One(u = t)

LEMMA MovingIs ==
    ASSUME options \in Options, NEW g, Basic(g), NEW p \in Present(g), NEW t \in Teams,
           g.base[p] # NoBase => g.team[p] # t
    PROVE  \E i : /\ Moving(g, p, t, i)
                  /\ MoveTo(g, p, t) = PickStartpos(SetSwapperState(i, p), p)
<1> DEFINE left == IF g.base[p] = NoBase THEN g ELSE [g EXCEPT !.members[g.team[p]] = @ - 1]
           j == [left EXCEPT !.team[p] = t]
           i == [j EXCEPT !.members[t] = @ + 1]
<1>1. MoveTo(g, p, t) = PickStartpos(SetSwapperState(i, p), p)
  BY DEF MoveTo
<1>2. p \in Players /\ g.team[p] \in Teams /\ g.members \in [Teams -> Int]
  BY Fields DEF Basic, Placed, Present, Of
<1>3. /\ left \in Games /\ left.kind = g.kind /\ left.base = g.base /\ left.paused = g.paused
      /\ left.prevTeam = g.prevTeam /\ left.robots = g.robots /\ left.swapper = g.swapper
      /\ left.server = g.server /\ left.team = g.team
      /\ \A u \in Teams : left.members[u] = g.members[u] - One(p \in Based(g, u))
  <2>1. CASE g.base[p] = NoBase
    <3>1. \A u \in Teams : ~(p \in Based(g, u))
      BY <2>1 DEF Based
    <3>2. left = g
      BY <2>1
    <3> HIDE DEF left
    <3> QED BY <1>2, <3>1, <3>2 DEF Basic, One
  <2>2. CASE g.base[p] # NoBase
    <3> DEFINE s == g.team[p]
    <3>1. \A u \in Teams : p \in Based(g, u) <=> u = s
      BY <2>2 DEF Based
    <3>2. left = [g EXCEPT !.members[s] = @ - 1] /\ s \in Teams
      BY <1>2, <2>2
    <3> HIDE DEF left, s
    <3>3. /\ left \in Games /\ left.kind = g.kind /\ left.base = g.base /\ left.paused = g.paused
          /\ left.prevTeam = g.prevTeam /\ left.robots = g.robots /\ left.swapper = g.swapper
          /\ left.server = g.server /\ left.team = g.team
          /\ left.members = [g.members EXCEPT ![s] = @ - 1]
      BY <3>2, SMTT(40) DEF Basic, Games
    <3>4. \A u \in Teams : left.members[u] = IF u = s THEN g.members[u] - 1 ELSE g.members[u]
      BY <1>2, <3>3
    <3> QED BY <1>2, <3>1, <3>3, <3>4 DEF One
  <2> QED BY <2>1, <2>2
<1> HIDE DEF left
<1>4. /\ j \in Games /\ j.kind = left.kind /\ j.base = left.base /\ j.paused = left.paused
      /\ j.prevTeam = left.prevTeam /\ j.robots = left.robots /\ j.swapper = left.swapper
      /\ j.server = left.server /\ j.members = left.members
      /\ j.team = [left.team EXCEPT ![p] = t]
  BY <1>2, <1>3 DEF Games
<1> HIDE DEF j
<1>5. /\ i \in Games /\ i.kind = j.kind /\ i.base = j.base /\ i.paused = j.paused
      /\ i.prevTeam = j.prevTeam /\ i.robots = j.robots /\ i.swapper = j.swapper
      /\ i.server = j.server /\ i.team = j.team
      /\ i.members = [j.members EXCEPT ![t] = @ + 1]
  BY <1>4, SMTT(40) DEF Games
<1> HIDE DEF i
<1>6. \A u \in Teams : i.members[u] = g.members[u] - One(p \in Based(g, u)) + One(u = t)
  <2>1. j.members \in [Teams -> Int]
    BY <1>4, Fields
  <2>2. \A u \in Teams : i.members[u] = j.members[u] + One(u = t)
    BY <1>5, <2>1 DEF One
  <2>3. \A u \in Teams : j.members[u] = g.members[u] - One(p \in Based(g, u))
    BY <1>3, <1>4
  <2> QED BY <2>2, <2>3
<1>7. Moving(g, p, t, i)
  BY <1>3, <1>4, <1>5, <1>6 DEF Moving
<1> QED BY <1>1, <1>7

\* He gets a base there, and may be unpaused for it.
LEMMA MoveKeeps ==
    ASSUME options \in Options, NEW g, Basic(g), g.server = "up", NEW p \in Players,
           g.kind[p] = "human", NEW t \in Teams, HasRoom(g, t),
           g.base[p] # NoBase => g.team[p] # t,
           BasesKept /\ Good(g) =>
              ~Reserved(t) /\ (BaselessPausing \/ \A u \in Teams : g.swapper[u] # p),
           NEW m, m = MoveTo(g, p, t),
           NEW h \in Games, SameBut(m, h), h.base = m.base, h.server = m.server,
           h.paused \in {m.paused, m.paused \ {p}}
    PROVE  Basic(h) /\ Kept(g, h)
<1>1. p \in Present(g)
  BY DEF Present, Of
<1>2. PICK i : Moving(g, p, t, i) /\ MoveTo(g, p, t) = PickStartpos(SetSwapperState(i, p), p)
  BY <1>1, MovingIs
<1>3. /\ i \in Games /\ i.kind = g.kind /\ i.base = g.base /\ i.paused = g.paused
      /\ i.prevTeam = g.prevTeam /\ i.robots = g.robots /\ i.swapper = g.swapper
      /\ i.server = g.server /\ i.team = [g.team EXCEPT ![p] = t]
      /\ \A u \in Teams : i.members[u] = g.members[u] - One(p \in Based(g, u)) + One(u = t)
  BY <1>2 DEF Moving
<1>4. /\ i.team[p] = t /\ \A q \in Players \ {p} : i.team[q] = g.team[q]
      /\ g.members \in [Teams -> Int] /\ g.robots \in [Teams -> Int]
      /\ g.base \in [Players -> Bases \cup {NoBase}]
  BY <1>3, Fields DEF Basic
<1>5. Basic(i)
  <2>1. Present(i) = Present(g) /\ Of(i, "human") = Of(g, "human")
    BY <1>3 DEF Present, Of
  <2>2. Placed(i)
    BY <1>3, <1>4, <2>1 DEF Basic, Placed, Present, Of
  <2>3. Queues(i)
    BY <1>3 DEF Basic, Queues
  <2> QED BY <1>3, <2>2, <2>3 DEF Basic
<1> DEFINE j == SetSwapperState(i, p)
<1>6. Basic(j)
  BY <1>5, SetSwapperBasic
<1>7. /\ j \in Games /\ SameBut(i, j) /\ j.base = i.base /\ j.server = i.server
      /\ j.paused \in {i.paused, i.paused \ {p}}
  BY <1>3, SetSwapperEffect
<1>8. m = PickStartpos(j, p)
  BY <1>2
<1> HIDE DEF j
<1>9. Present(j) = Present(g) /\ Of(j, "human") = Of(g, "human") /\ Of(j, "robot") = Of(g, "robot")
  BY <1>3, <1>7 DEF Present, Of, SameBut
<1>10. Basic(m)
  BY <1>1, <1>6, <1>8, <1>9, PickStartposBasic
<1>11. Basic(h)
  <2>1. Placed(h)
    BY <1>10 DEF Basic, Placed, SameBut, Present, Of
  <2>2. Queues(h)
    BY <1>10 DEF Basic, Queues, SameBut
  <2> QED BY <2>1, <2>2 DEF Basic
<1>12. Started(j, p, m)
  BY <1>7, <1>8, PickStartposEffect
<1>13. ASSUME BasesKept, Good(g) PROVE h.server = "up" /\ Good(h)
  <2>1. p \notin Based(g, t) /\ Counted(g) /\ Owned(g)
    BY <1>13 DEF Based, Good
  <2>2. \E b \in Bases : BaseTeam[b] = t /\ \A q \in Present(g) \ {p} : g.base[q] # b
    BY <2>1, PlaceFree
  <2>3. j.team[p] = t /\ j.base = g.base /\ j.server = "up"
    BY <1>3, <1>4, <1>7 DEF SameBut
  <2>4. m.server = "up"
        /\ \E b \in Bases : /\ BaseTeam[b] = t /\ m.base = [g.base EXCEPT ![p] = b]
                            /\ \A q \in Present(g) \ {p} : g.base[q] # b
    <3>1. ~ \A b \in Bases : BaseTeam[b] = j.team[p] => \E q \in Present(j) \ {p} : j.base[q] = b
      BY <1>9, <2>2, <2>3
    <3>2. m.server = j.server
          /\ \E b \in Bases : /\ BaseTeam[b] = j.team[p] /\ m.base = [j.base EXCEPT ![p] = b]
                              /\ \A q \in Present(j) \ {p} : j.base[q] # b
      BY <1>12, <3>1 DEF Started
    <3> QED BY <1>9, <2>3, <3>2
  <2>5. PICK b \in Bases : /\ BaseTeam[b] = t /\ m.base = [g.base EXCEPT ![p] = b]
                           /\ \A q \in Present(g) \ {p} : g.base[q] # b
    BY <2>4
  <2>6. /\ h.kind = g.kind /\ h.team = i.team /\ h.members = i.members /\ h.robots = g.robots
        /\ h.swapper = g.swapper /\ h.prevTeam = g.prevTeam /\ h.base = [g.base EXCEPT ![p] = b]
        /\ m.paused \in {g.paused, g.paused \ {p}}
    BY <1>3, <1>7, <1>12, <2>5 DEF Started, SameBut
  <2> DEFINE k == "human"
  <2>7. /\ k \in {"human", "robot"} /\ h.kind[p] = k /\ h.team[p] = t /\ h.base[p] = b
        /\ OnlyOf(g, h, p) /\ g.paused \ {p} \subseteq h.paused
        /\ \A u \in Teams : h.swapper[u] \in {NoId, g.swapper[u]}
    BY <1>4, <2>6 DEF OnlyOf
  <2>8. \A u \in Teams :
            /\ h.members[u] = g.members[u] - One(p \in Based(g, u)) + One(u = t)
            /\ h.robots[u] = g.robots[u] - One(p \in Based(g, u) /\ g.kind[p] = "robot")
                                         + One(u = t /\ k = "robot")
    <3>1. \A u \in Teams : h.robots[u] = g.robots[u] /\ g.robots[u] \in Int /\ g.kind[p] # "robot"
                           /\ k # "robot"
      BY <1>4, <2>6
    <3> HIDE DEF k
    <3> QED BY <1>3, <2>6, <3>1 DEF One
  <2>9. Counted(h) /\ Owned(h) /\ Seated(h)
    <3> HIDE DEF k
    <3>1. k = "human" => ~Reserved(t)
      BY <1>13
    <3>2. /\ \A q \in Present(g) \ {p} : g.base[q] # b
          /\ BaseTeam[b] = t
      BY <2>5
    <3>3. /\ h.kind[p] = k /\ h.team[p] = t /\ h.base[p] = b /\ k \in {"human", "robot"}
          /\ OnlyOf(g, h, p) /\ g.paused \ {p} \subseteq h.paused
          /\ \A u \in Teams : h.swapper[u] \in {NoId, g.swapper[u]}
      BY <2>7
    <3> QED BY <1>11, <1>13, <2>8, <3>1, <3>2, <3>3, TakesPlace
  <2>10. Fits(h)
    BY <1>13, <2>6 DEF Good, Fits, Present, Of
  <2>11. RobotsStay(h)
    <3>1. \A q \in Of(h, "robot") : q \in Of(g, "robot") /\ h.team[q] = g.team[q]
      BY <2>6, <2>7 DEF Of, OnlyOf
    <3>2. Of(h, "robot") = Of(g, "robot")
      BY <2>6 DEF Of
    <3> QED BY <1>13, <3>1, <3>2 DEF Good, RobotsStay
  <2>12. NoCircle(h)
    <3>1. CASE BaselessPausing
      BY <3>1 DEF NoCircle
    <3>2. CASE ~BaselessPausing
      <4>1. \A u \in Teams : ComesFrom(h, u) \in {NoTeam, ComesFrom(g, u)}
        <5>1. \A u \in Teams : g.swapper[u] # NoId => g.swapper[u] \in Players \ {p}
          BY <1>13, <3>2, Fields DEF Basic
        <5> QED BY <2>6, <2>7, <5>1 DEF ComesFrom, OnlyOf
      <4>2. \A q \in Players : h.prevTeam[q] \in {0, g.prevTeam[q]}
        BY <2>6
      <4>3. NoCircle(g)
        BY <1>13 DEF Good
      <4> QED BY <4>1, <4>2, <4>3, NoCircleShrinks
    <3> QED BY <3>1, <3>2
  <2> QED BY <1>13, <2>4, <2>9, <2>10, <2>11, <2>12 DEF Good
<1>14. Kept(g, h)
  BY <1>13 DEF Kept, Good, Lasting
<1> QED BY <1>11, <1>14

LEMMA MoveTyped ==
    ASSUME options \in Options, NEW g, Basic(g), NEW p \in Present(g), NEW t \in Teams,
           g.base[p] # NoBase => g.team[p] # t
    PROVE  MoveTo(g, p, t) \in Games
<1>1. PICK i : Moving(g, p, t, i) /\ MoveTo(g, p, t) = PickStartpos(SetSwapperState(i, p), p)
  BY MovingIs
<1>2. p \in Players /\ i \in Games
  BY <1>1 DEF Moving, Present, Of
<1>3. SetSwapperState(i, p) \in Games
  BY <1>2, SetSwapperEffect
<1>4. Started(SetSwapperState(i, p), p, PickStartpos(SetSwapperState(i, p), p))
  BY <1>2, <1>3, PickStartposEffect
<1> QED BY <1>1, <1>4 DEF Started

LEMMA UnpausedAre ==
    ASSUME NEW g \in Games, NEW p
    PROVE  LET h == [g EXCEPT !.paused = @ \ {p}]
           IN  h \in Games /\ SameBut(g, h) /\ h.base = g.base /\ h.server = g.server
               /\ h.paused = g.paused \ {p}
BY DEF Games, SameBut

LEMMA TeamFreeKeeps ==
    ASSUME options \in Options, Basic(game), game.server = "up", NEW p \in Players,
           NEW t \in Teams, TeamFree(p, t)
    PROVE  Basic(game') /\ Kept(game, game')
<1> DEFINE g == Unqueue(game, {p})
           m == MoveTo(g, p, t)
           h == [m EXCEPT !.paused = @ \ {p}]
<1>1. /\ game.kind[p] = "human" /\ ~Refused(p, t) /\ HasRoom(g, t)
      /\ game' = m \/ game' = h
  BY DEF TeamFree
<1>2. Fewer(game, g)
  BY UnqueueFewer
<1>3. /\ g.kind = game.kind /\ g.team = game.team /\ g.base = game.base
      /\ g.swapper = [u \in Teams |-> IF game.swapper[u] \in {p} THEN NoId ELSE game.swapper[u]]
  BY UnqueueEffect DEF Basic
<1> HIDE DEF g
<1>4. Basic(g) /\ g.server = "up" /\ g.kind[p] = "human" /\ p \in Present(g)
  BY <1>1, <1>2, <1>3 DEF Fewer, Present, Of
<1>5. ~Reserved(t) /\ (g.base[p] # NoBase => g.team[p] # t)
  BY <1>1, <1>3 DEF Refused
<1>6. \A u \in Teams : g.swapper[u] # p
  BY <1>3, Settings
<1>7. m \in Games
  BY <1>4, <1>5, MoveTyped
<1>8. h \in Games /\ SameBut(m, h) /\ h.base = m.base /\ h.server = m.server
      /\ h.paused = m.paused \ {p}
  BY <1>7, UnpausedAre
<1> HIDE DEF h
<1>9. Basic(h) /\ Kept(g, h)
  <2>1. m = MoveTo(g, p, t)
    OBVIOUS
  <2> HIDE DEF m
  <2> QED BY <1>1, <1>4, <1>5, <1>6, <1>8, <2>1, MoveKeeps
<1>10. Basic(m) /\ Kept(g, m)
  <2>1. m = MoveTo(g, p, t) /\ SameBut(m, m)
    BY DEF SameBut
  <2> HIDE DEF m
  <2> QED BY <1>1, <1>4, <1>5, <1>6, <1>7, <2>1, MoveKeeps
<1> QED BY <1>1, <1>2, <1>9, <1>10, KeptStill

LEMMA UnpauseKeeps ==
    ASSUME options \in Options, Basic(game), game.server = "up", NEW p \in Players, Unpause(p)
    PROVE  Basic(game') /\ Kept(game, game')
<1> DEFINE t == game.prevTeam[p]
           m == MoveTo(game, p, t)
<1>1. /\ p \in game.paused
      /\ \/ game.base[p] # NoBase /\ game' = [game EXCEPT !.paused = @ \ {p}]
         \/ /\ game.base[p] = NoBase /\ t > 0 /\ HasRoom(game, t)
            /\ game' = [m EXCEPT !.paused = @ \ {p}]
  BY DEF Unpause
<1>2. game.kind[p] = "human" /\ p \in Present(game) /\ t \in Teams
  BY <1>1, Fields DEF Basic, Placed, Present, Of
<1>3. CASE game.base[p] # NoBase /\ game' = [game EXCEPT !.paused = @ \ {p}]
  <2> DEFINE h == [game EXCEPT !.paused = @ \ {p}]
  <2>1. h \in Games /\ SameBut(game, h) /\ h.base = game.base /\ h.server = "up"
        /\ h.paused = game.paused \ {p}
    BY UnpausedAre DEF Basic
  <2>2. game' = h
    BY <1>3
  <2> HIDE DEF h
  <2>3. Basic(h)
    BY <2>1 DEF Basic, Placed, Queues, SameBut, Present, Of
  <2>4. ASSUME Good(game) PROVE Good(h)
    <3>1. /\ Present(h) = Present(game) /\ Of(h, "human") = Of(game, "human")
          /\ Of(h, "robot") = Of(game, "robot") /\ Of(h, "joining") = Of(game, "joining")
          /\ \A u \in Teams : Based(h, u) = Based(game, u)
      BY <2>1 DEF Present, Of, SameBut, Based
    <3>2. Counted(h)
      BY <2>1, <2>4, <3>1 DEF Good, Counted, SameBut
    <3>3. Owned(h)
      BY <2>1, <2>4, <3>1 DEF Good, Owned, SameBut
    <3>4. Fits(h) /\ RobotsStay(h)
      BY <2>1, <2>4, <3>1 DEF Good, Fits, RobotsStay, SameBut
    <3>5. Seated(h)
      BY <1>3, <2>1, <2>4, <3>1 DEF Good, Seated, SameBut
    <3>6. NoCircle(h)
      BY <2>1, <2>4 DEF Good, NoCircle, ComesFrom, SameBut
    <3> QED BY <3>2, <3>3, <3>4, <3>5, <3>6 DEF Good
  <2> QED BY <2>1, <2>2, <2>3, <2>4, GoodKept
<1>4. CASE /\ game.base[p] = NoBase /\ t > 0 /\ HasRoom(game, t)
           /\ game' = [m EXCEPT !.paused = @ \ {p}]
  <2> DEFINE h == [m EXCEPT !.paused = @ \ {p}]
  <2> HIDE DEF t
  <2>1. m \in Games
    BY <1>2, <1>4, MoveTyped
  <2>2. h \in Games /\ SameBut(m, h) /\ h.base = m.base /\ h.server = m.server
        /\ h.paused = m.paused \ {p}
    BY <2>1, UnpausedAre
  <2>3. game' = h
    BY <1>4
  <2> HIDE DEF h
  <2>4. BasesKept /\ Good(game) =>
           ~Reserved(t) /\ (BaselessPausing \/ \A u \in Teams : game.swapper[u] # p)
    <3> SUFFICES ASSUME BasesKept, Good(game) PROVE ~Reserved(t) /\ BaselessPausing
      OBVIOUS
    <3>1. BaselessPausing
      BY <1>4 DEF Good, NoCircle, t
    <3> QED BY <1>4, <3>1 DEF BasesKept, Reserved
  <2>5. Basic(h) /\ Kept(game, h)
    <3>1. m = MoveTo(game, p, t)
      OBVIOUS
    <3> HIDE DEF m
    <3> QED BY <1>2, <1>4, <2>2, <2>4, <3>1, MoveKeeps
  <2> QED BY <2>3, <2>5
<1> QED BY <1>1, <1>3, <1>4

LEMMA ChangeHomeKeeps ==
    ASSUME options \in Options, Basic(game), game.server = "up", NEW p \in Players,
           NEW b \in Bases, ChangeHome(p, b)
    PROVE  Basic(game') /\ Kept(game, game')
<1> DEFINE g == [game EXCEPT !.base[p] = b]
           owners == {q \in Present(game) \ {p} : game.base[q] = b}
<1>1. /\ game.kind[p] = "human" /\ p \notin game.paused
      /\ BaseTeam[b] = game.team[p] /\ b # game.base[p]
      /\ IF owners = {} THEN game' = g ELSE \E q \in owners : game' = PickStartpos(g, q)
  BY DEF ChangeHome
<1>2. /\ g \in Games /\ SameBut(game, g) /\ g.paused = game.paused /\ g.server = "up"
      /\ g.base = [game.base EXCEPT ![p] = b]
  BY DEF Basic, Games, SameBut
<1> HIDE DEF g
<1>3. p \in Present(game) /\ p \in Players /\ Present(game) \subseteq Players /\ b # NoBase
  BY <1>1, Settings DEF Present, Of
<1>4. /\ g.base[p] = b /\ \A q \in Players \ {p} : g.base[q] = game.base[q]
      /\ Present(g) = Present(game)
  <2>1. game.base \in [Players -> Bases \cup {NoBase}]
    BY Fields DEF Basic
  <2> QED BY <1>2, <2>1 DEF SameBut, Present, Of
<1>5. Basic(g)
  <2>1. Placed(g)
    BY <1>2, <1>3, <1>4 DEF Basic, Placed, SameBut, Of
  <2>2. Queues(g)
    BY <1>2 DEF Basic, Queues, SameBut
  <2> QED BY <1>2, <2>1, <2>2 DEF Basic
\* The same have bases of the same teams afterwards.
<1>6. ASSUME NEW h, Basic(h), SameBut(game, h), h.paused = game.paused, Owned(h), Good(game),
             \A q \in Present(game) : h.base[q] = NoBase <=> game.base[q] = NoBase
      PROVE  Good(h)
  <2>1. /\ Present(h) = Present(game) /\ Of(h, "human") = Of(game, "human")
        /\ Of(h, "robot") = Of(game, "robot") /\ Of(h, "joining") = Of(game, "joining")
        /\ \A t \in Teams : Based(h, t) = Based(game, t)
    BY <1>6 DEF Present, Of, SameBut, Based
  <2>2. Counted(h)
    BY <1>6, <2>1 DEF Good, Counted, SameBut
  <2>3. Seated(h)
    BY <1>6, <2>1 DEF Good, Seated, SameBut, Present
  <2>4. Fits(h) /\ RobotsStay(h)
    BY <1>6, <2>1 DEF Good, Fits, RobotsStay, SameBut
  <2>5. NoCircle(h)
    BY <1>6 DEF Good, NoCircle, ComesFrom, SameBut
  <2> QED BY <1>6, <2>2, <2>3, <2>4, <2>5 DEF Good
<1>7. Good(game) => game.base[p] # NoBase
  BY <1>1, <1>3 DEF Good, Seated
<1>8. CASE owners = {}
  <2>1. game' = g /\ \A q \in Present(game) \ {p} : game.base[q] # b
    BY <1>1, <1>8
  <2>2. ASSUME Good(game) PROVE Good(g)
    <3>1. Owned(g)
      BY <1>1, <1>2, <1>3, <1>4, <2>1, <2>2 DEF Good, Owned, SameBut
    <3>2. \A q \in Present(game) : g.base[q] = NoBase <=> game.base[q] = NoBase
      BY <1>3, <1>4, <1>7, <2>2
    <3> QED BY <1>2, <1>5, <1>6, <2>2, <3>1, <3>2
  <2> QED BY <1>2, <1>5, <2>1, <2>2, GoodKept
<1>9. CASE owners # {}
  <2>1. PICK q \in owners : game' = PickStartpos(g, q)
    BY <1>1, <1>9
  <2>2. q \in Present(game) /\ q # p /\ game.base[q] = b /\ q \in Players
    BY <1>3
  <2>3. Basic(game')
    BY <1>4, <1>5, <2>1, <2>2, PickStartposBasic
  <2>4. Started(g, q, game')
    BY <1>2, <2>1, <2>2, PickStartposEffect
  <2>5. ASSUME Good(game) PROVE game'.server = "up" /\ Good(game')
    <3> DEFINE a == game.base[p]
    <3>1. /\ a \in Bases /\ BaseTeam[a] = game.team[p] /\ game.team[q] = game.team[p] /\ a # b
          /\ \A r \in Present(game) \ {p} : game.base[r] # a
      <4>1. a # NoBase /\ a \in Bases
        BY <1>3, <1>7, <2>5, Fields DEF Basic
      <4>2. Owned(game)
        BY <2>5 DEF Good
      <4> QED BY <1>1, <1>3, <2>2, <4>1, <4>2 DEF Owned
    <3>2. \A r \in Present(g) \ {q} : g.base[r] # a
      BY <1>3, <1>4, <3>1
    <3>3. g.team[q] = game.team[p]
      BY <1>2, <3>1 DEF SameBut
    <3>4. /\ game'.server = "up"
          /\ SameBut(g, game') /\ game'.paused = g.paused
          /\ \E c \in Bases : /\ BaseTeam[c] = g.team[q] /\ game'.base = [g.base EXCEPT ![q] = c]
                              /\ \A r \in Present(g) \ {q} : g.base[r] # c
      BY <1>2, <2>4, <3>1, <3>2, <3>3 DEF Started
    <3>5. PICK c \in Bases : /\ BaseTeam[c] = g.team[q] /\ game'.base = [g.base EXCEPT ![q] = c]
                             /\ \A r \in Present(g) \ {q} : g.base[r] # c
      BY <3>4
    <3>6. SameBut(game, game') /\ game'.paused = game.paused
      BY <1>2, <3>4 DEF SameBut
    <3>7. /\ game'.base[q] = c /\ game'.base[p] = b /\ c # b /\ c # NoBase
          /\ \A r \in Players \ {p, q} : game'.base[r] = game.base[r]
          /\ \A r \in Present(game) \ {p, q} : game.base[r] # c
      <4>1. g.base \in [Players -> Bases \cup {NoBase}]
        BY <1>2, Fields
      <4>2. game'.base[q] = c /\ \A r \in Players \ {q} : game'.base[r] = g.base[r]
        BY <2>2, <3>5, <4>1
      <4> QED BY <1>3, <1>4, <2>2, <3>5, <4>2, Settings
    <3>8. Owned(game')
      <4>1. Present(game') = Present(game)
        BY <3>6 DEF SameBut, Present, Of
      <4>2. Owned(game)
        BY <2>5 DEF Good
      <4> SUFFICES ASSUME NEW r \in Present(game), game'.base[r] # NoBase
                   PROVE  /\ BaseTeam[game'.base[r]] = game'.team[r]
                          /\ \A s \in Present(game) \ {r} : game'.base[s] # game'.base[r]
        BY <4>1 DEF Owned
      <4>3. game'.team = game.team /\ r \in Players
        BY <1>3, <3>6 DEF SameBut
      <4>4. \A s \in Present(game) \ {p, q} : game.base[s] # b
        BY <2>2, <4>2, <1>3 DEF Owned
      <4>5. CASE r = p
        BY <1>1, <1>3, <3>7, <4>3, <4>4, <4>5
      <4>6. CASE r = q
        BY <1>3, <2>2, <3>1, <3>3, <3>5, <3>7, <4>3, <4>6
      <4>7. CASE r \notin {p, q}
        <5>1. game'.base[r] = game.base[r] /\ game.base[r] # NoBase /\ r \in Present(game)
          BY <3>7, <4>3, <4>7
        <5>2. BaseTeam[game.base[r]] = game.team[r]
              /\ \A s \in Present(game) \ {r} : game.base[s] # game.base[r]
          BY <4>2, <5>1 DEF Owned
        <5>3. \A s \in Present(game) \ {p, q} : game'.base[s] = game.base[s]
          BY <1>3, <3>7
        <5> QED BY <3>7, <4>3, <4>4, <4>7, <5>1, <5>2, <5>3
      <4> QED BY <4>5, <4>6, <4>7
    <3>9. \A r \in Present(game) : game'.base[r] = NoBase <=> game.base[r] = NoBase
      BY <1>3, <1>7, <2>2, <2>5, <3>7
    <3> QED BY <1>6, <2>3, <2>5, <3>4, <3>6, <3>8, <3>9
  <2>6. Kept(game, game')
    BY <2>5 DEF Kept, Good, Lasting
  <2> QED BY <2>3, <2>6
<1> QED BY <1>8, <1>9

-----------------------------------------------------------------------------
(* The way from team to team against the queues.                           *)

LEMMA LeastNumber ==
    ASSUME NEW T \in SUBSET Nat, T # {}
    PROVE  Min(T) \in T /\ \A y \in T : Min(T) <= y
<1> DEFINE R == {ss \in Nat \X Nat : ss[1] < ss[2]}
<1>1. IsWellFoundedOn(R, Nat)
  BY NatLessThanWellFounded DEF OpToRel
<1>2. \E x \in T : \A y \in T : <<y, x>> \notin R
  <2> HIDE DEF R
  <2> QED BY <1>1, WFMin
<1>3. PICK x \in T : \A y \in T : <<y, x>> \notin R
  BY <1>2
<1>4. ASSUME NEW y \in T PROVE x <= y
  <2>1. x \in Nat /\ y \in Nat /\ ~(y < x)
    BY <1>3
  <2> QED BY ONLY <2>1, SMT
<1> QED BY <1>4 DEF Min

\* What holds at first and is kept by each step holds all the way.
LEMMA AllTheWay ==
    ASSUME NEW N \in Nat, NEW T, NEW f, <<0, f[0]>> \in T,
           \A k \in 1 .. N : <<k - 1, f[k - 1]>> \in T => <<k, f[k]>> \in T
    PROVE  \A k \in 0 .. N : <<k, f[k]>> \in T
<1> DEFINE Bad == {k \in 0 .. N : <<k, f[k]>> \notin T}
<1>1. SUFFICES ASSUME Bad # {} PROVE FALSE
  OBVIOUS
<1> DEFINE k == Min(Bad)
<1>2. k \in Bad /\ \A l \in Bad : k <= l
  <2>1. Bad \in SUBSET Nat
    OBVIOUS
  <2> HIDE DEF Bad
  <2> QED BY <1>1, <2>1, LeastNumber
<1> HIDE DEF k
<1>3. k # 0
  BY <1>2
<1>4. k \in 1 .. N /\ k - 1 \in 0 .. N /\ ~(k <= k - 1)
  BY <1>2, <1>3
<1>5. k - 1 \notin Bad
  BY <1>2, <1>4
<1> QED BY <1>2, <1>4, <1>5

\* f takes N steps of F from x.
Steps(f, N, x, F) == f = [k \in 0 .. N |-> IF k = 0 THEN x ELSE F[<<k, f[k - 1]>>]]

LEMMA StepByStep ==
    ASSUME NEW N \in Nat, NEW D, NEW x \in D, NEW F,
           \A k \in 1 .. N : \A y \in D : F[<<k, y>>] \in D
    PROVE  \E f : Steps(f, N, x, F) /\ \A k \in 0 .. N : f[k] \in D
<1> DEFINE Turn(f, k) == IF k = 0 THEN x ELSE F[<<k, f[k - 1]>>]
           Run(n) == \E f : /\ f = [k \in 0 .. n |-> Turn(f, k)]
                            /\ \A k \in 0 .. n : f[k] \in D
           Bad == {n \in 0 .. N : ~Run(n)}
<1>1. Run(0)
  <2> DEFINE f == [k \in 0 .. 0 |-> x]
  <2>1. f = [k \in 0 .. 0 |-> Turn(f, k)] /\ \A k \in 0 .. 0 : f[k] \in D
    OBVIOUS
  <2> QED BY <2>1
<1>2. ASSUME NEW n \in 1 .. N, Run(n - 1)
      PROVE  Run(n)
  <2>1. PICK f : /\ f = [k \in 0 .. n - 1 |-> Turn(f, k)]
                 /\ \A k \in 0 .. n - 1 : f[k] \in D
    BY <1>2
  <2> DEFINE g == [k \in 0 .. n |-> IF k = n THEN Turn(f, n) ELSE f[k]]
  <2>2. ASSUME NEW k \in 0 .. n PROVE g[k] = Turn(g, k) /\ g[k] \in D
    <3>1. CASE k = 0
      <4>1. g[k] = f[k] /\ k \in 0 .. n - 1
        BY <3>1
      <4>2. f[k] = Turn(f, k)
        BY <2>1, <4>1
      <4> QED BY <3>1, <4>1, <4>2
    <3>2. CASE k = n
      <4>1. k # 0 /\ n - 1 \in 0 .. n /\ n - 1 # n /\ n - 1 \in 0 .. n - 1
        BY <3>2
      <4>2. g[n - 1] = f[n - 1] /\ f[n - 1] \in D
        BY <2>1, <4>1
      <4> QED BY <3>2, <4>1, <4>2
    <3>3. CASE k # 0 /\ k # n
      <4>1. k \in 0 .. n - 1 /\ k - 1 \in 0 .. n /\ k - 1 # n /\ g[k] = f[k]
        BY <3>3
      <4>2. g[k - 1] = f[k - 1]
        BY <4>1
      <4>3. f[k] = Turn(f, k) /\ f[k] \in D
        BY <2>1, <4>1
      <4> QED BY <3>3, <4>1, <4>2, <4>3
    <3> QED BY <3>1, <3>2, <3>3
  <2>3. g = [k \in 0 .. n |-> Turn(g, k)] /\ \A k \in 0 .. n : g[k] \in D
    <3>1. g = [k \in 0 .. n |-> g[k]]
      OBVIOUS
    <3> HIDE DEF g, Turn
    <3> QED BY <2>2, <3>1
  <2> HIDE DEF g
  <2> QED BY <2>3
<1>3. Run(N)
  <2> HIDE DEF Run
  <2>1. SUFFICES ASSUME ~Run(N) PROVE FALSE
    OBVIOUS
  <2> DEFINE n == Min(Bad)
  <2>2. n \in Bad /\ \A m \in Bad : n <= m
    <3>1. N \in Bad /\ Bad \in SUBSET Nat
      BY <2>1
    <3> HIDE DEF Bad
    <3> QED BY <3>1, LeastNumber
  <2> HIDE DEF n
  <2>3. n # 0
    BY <1>1, <2>2
  <2>4. n \in 1 .. N /\ n - 1 \in 0 .. N /\ ~(n <= n - 1)
    BY <2>2, <2>3
  <2>5. Run(n - 1)
    BY <2>2, <2>4
  <2> QED BY <1>2, <2>2, <2>4, <2>5
<1> QED BY <1>3 DEF Steps

LEMMA ComesFromTyped ==
    ASSUME options \in Options, NEW g, Basic(g), NEW t \in Teams \cup {NoTeam}
    PROVE  ComesFrom(g, t) \in Teams \cup {NoTeam}
<1>1. g.swapper \in [Teams -> Players \cup {NoId}] /\ g.team \in [Players -> Teams \cup {NoTeam}]
  BY Fields DEF Basic
<1> QED BY <1>1 DEF ComesFrom

LEMMA WayIs ==
    ASSUME options \in Options, NEW g, Basic(g), NEW t \in Teams
    PROVE  /\ Way(g, t)[0] = t
           /\ \A n \in 1 .. NumTeams + 1 : Way(g, t)[n] = ComesFrom(g, Way(g, t)[n - 1])
           /\ \A n \in 0 .. NumTeams + 1 : Way(g, t)[n] \in Teams \cup {NoTeam}
<1> DEFINE N == NumTeams + 1
           D == Teams \cup {NoTeam}
           Turn(f, n) == IF n = 0 THEN t ELSE ComesFrom(g, f[n - 1])
           F == [ny \in (1 .. N) \X D |-> ComesFrom(g, ny[2])]
<1>1. N \in Nat /\ t \in D /\ NumTeams + 1 = N
  BY Settings
<1> HIDE DEF N
<1>2. \A k \in 1 .. N : \A y \in D : F[<<k, y>>] = ComesFrom(g, y) /\ F[<<k, y>>] \in D
  BY ComesFromTyped
<1> HIDE DEF F
<1>3. \E f : f = [n \in 0 .. N |-> Turn(f, n)]
  <2> HIDE DEF D
  <2>1. PICK f : Steps(f, N, t, F) /\ \A k \in 0 .. N : f[k] \in D
    <3>1. \A k \in 1 .. N : \A y \in D : F[<<k, y>>] \in D
      BY <1>2
    <3> QED BY <1>1, <3>1, StepByStep
  <2>2. \A k \in 0 .. N : f[k] = Turn(f, k)
    <3> TAKE k \in 0 .. N
    <3>1. CASE k = 0
      BY <2>1, <3>1 DEF Steps
    <3>2. CASE k # 0
      <4>1. k \in 1 .. N /\ k - 1 \in 0 .. N
        BY <1>1, <3>2
      <4>2. F[<<k, f[k - 1]>>] = ComesFrom(g, f[k - 1])
        BY <1>2, <2>1, <4>1
      <4> QED BY <2>1, <3>2, <4>2 DEF Steps
    <3> QED BY <3>1, <3>2
  <2>3. f = [k \in 0 .. N |-> f[k]]
    BY <2>1 DEF Steps
  <2> HIDE DEF Turn
  <2>4. f = [k \in 0 .. N |-> Turn(f, k)]
    BY <2>2, <2>3
  <2> QED BY <2>4
<1> DEFINE way == CHOOSE f : f = [n \in 0 .. N |-> Turn(f, n)]
<1>4. way = [n \in 0 .. N |-> Turn(way, n)]
  <2> HIDE DEF Turn
  <2> QED BY <1>3
<1>5. Way(g, t) = way
  BY DEF Way, N
<1> HIDE DEF way
<1>6. \A n \in 0 .. N : way[n] = Turn(way, n)
  <2> HIDE DEF Turn
  <2> QED BY <1>4
<1>7. way[0] = t /\ \A n \in 1 .. N : way[n] = ComesFrom(g, way[n - 1])
  BY <1>1, <1>6
<1>8. \A n \in 0 .. N : way[n] \in D
  <2> DEFINE T == Nat \X D
  <2>1. <<0, way[0]>> \in T
    BY <1>1, <1>7
  <2>2. \A k \in 1 .. N : <<k - 1, way[k - 1]>> \in T => <<k, way[k]>> \in T
    BY <1>7, ComesFromTyped
  <2>3. \A k \in 0 .. N : <<k, way[k]>> \in T
    <3> HIDE DEF T
    <3> QED BY <1>1, <2>1, <2>2, AllTheWay
  <2> QED BY <2>3
<1> QED BY <1>1, <1>5, <1>7, <1>8

\* After its end the way does not go on.
LEMMA WayEnds ==
    ASSUME options \in Options, NEW g, Basic(g), NEW t \in Teams, NEW n \in 0 .. NumTeams + 1,
           Way(g, t)[n] = NoTeam, NEW m \in n .. NumTeams + 1
    PROVE  Way(g, t)[m] = NoTeam
<1> DEFINE way == Way(g, t)
           N == NumTeams + 1
           T == {ky \in Nat \X (Teams \cup {NoTeam}) : ky[1] >= n => ky[2] = NoTeam}
<1>1. /\ \A k \in 1 .. N : way[k] = ComesFrom(g, way[k - 1])
      /\ \A k \in 0 .. N : way[k] \in Teams \cup {NoTeam}
  BY WayIs
<1>2. N \in Nat /\ n \in 0 .. N /\ m \in 0 .. N /\ m >= n /\ way[n] = NoTeam
  BY Settings
<1>3. ComesFrom(g, NoTeam) = NoTeam
  BY DEF ComesFrom
<1> HIDE DEF way, N
<1>4. <<0, way[0]>> \in T
  BY <1>1, <1>2
<1>5. \A k \in 1 .. N : <<k - 1, way[k - 1]>> \in T => <<k, way[k]>> \in T
  <2> TAKE k \in 1 .. N
  <2> HAVE <<k - 1, way[k - 1]>> \in T
  <2>1. k \in Nat /\ k \in 0 .. N /\ way[k] \in Teams \cup {NoTeam}
        /\ way[k] = ComesFrom(g, way[k - 1])
    BY <1>1, <1>2
  <2>2. k >= n => k = n \/ k - 1 >= n
    BY <1>2
  <2>3. k - 1 >= n => way[k - 1] = NoTeam
    OBVIOUS
  <2>4. k >= n => way[k] = NoTeam
    BY <1>2, <1>3, <2>1, <2>2, <2>3
  <2> QED BY <2>1, <2>4
<1>6. <<m, way[m]>> \in T
  <2> HIDE DEF T
  <2> QED BY <1>2, <1>4, <1>5, AllTheWay
<1> QED BY <1>2, <1>6 DEF way

\* Without circles, the way ends before it can have met all the teams.
LEMMA WayIsFinite ==
    ASSUME options \in Options, NEW g, Basic(g), NEW t \in Teams, ~BaselessPausing, NoCircle(g)
    PROVE  Way(g, t)[NumTeams + 1] = NoTeam
<1> DEFINE way == Way(g, t)
           N == NumTeams + 1
<1> SUFFICES ASSUME way[N] # NoTeam PROVE FALSE
  OBVIOUS
<1>1. /\ \A k \in 1 .. N : way[k] = ComesFrom(g, way[k - 1])
      /\ \A k \in 0 .. N : way[k] \in Teams \cup {NoTeam}
  BY WayIs
<1>2. N \in Nat /\ N = NumTeams + 1 /\ NumTeams \in Nat
  BY Settings
<1>3. \A k \in 0 .. N : way[k] \in Teams
  <2> SUFFICES ASSUME NEW k \in 0 .. N, way[k] = NoTeam PROVE FALSE
    BY <1>1
  <2>1. N \in k .. N
    BY <1>2
  <2>2. way[N] = NoTeam
    BY <2>1, WayEnds
  <2> QED BY <2>2
<1> HIDE DEF way, N
<1>4. ASSUME NEW i \in 0 .. N, NEW j \in 0 .. N, i < j PROVE way[i] # way[j]
  <2> SUFFICES ASSUME way[i] = way[j] PROVE FALSE
    OBVIOUS
  <2> DEFINE S == {way[k] : k \in i .. j - 1}
  <2>1. \A k \in i .. j - 1 : k \in 0 .. N /\ k + 1 \in 1 .. N /\ (k + 1) - 1 = k
                              /\ (k + 1 \in i .. j - 1 \/ k + 1 = j)
    BY <1>2, <1>4
  <2>2. i \in i .. j - 1
    BY <1>2, <1>4
  <2>3. S \in SUBSET Teams /\ S # {}
    BY <1>3, <2>1, <2>2
  <2>4. \A k \in i .. j - 1 : ComesFrom(g, way[k]) = way[k + 1] /\ way[k + 1] \in S
    <3> TAKE k \in i .. j - 1
    <3>1. ComesFrom(g, way[k]) = way[k + 1]
      BY <1>1, <2>1
    <3>2. CASE k + 1 \in i .. j - 1
      BY <3>1, <3>2
    <3>3. CASE k + 1 = j
      BY <2>2, <3>1, <3>3
    <3> QED BY <2>1, <3>2, <3>3
  <2>5. \A u \in S : ComesFrom(g, u) \in S
    BY <2>4
  <2> HIDE DEF S
  <2> QED BY <2>3, <2>5 DEF NoCircle
<1> DEFINE f == [k \in 0 .. N |-> way[k]]
<1>5. f \in Injection(0 .. N, Teams)
  <2>1. f \in [0 .. N -> Teams]
    BY <1>3
  <2>2. \A i, j \in 0 .. N : f[i] = f[j] => i = j
    <3> TAKE i, j \in 0 .. N
    <3>1. i < j \/ j < i \/ i = j
      BY <1>2
    <3> QED BY <1>4, <3>1
  <2> HIDE DEF f
  <2> QED BY <2>1, <2>2, Fun_IsInj
<1> HIDE DEF f
<1>6. IsFiniteSet(Teams) /\ Cardinality(Teams) = NumTeams
  BY Settings
<1>7. Cardinality(0 .. N) <= Cardinality(Teams)
  BY <1>5, <1>6, FS_Injection
<1>8. Cardinality(0 .. N) = N + 1
  <2> DEFINE a == 0
             b == N
  <2>1. a \in Int /\ b \in Int /\ (IF a > b THEN 0 ELSE b - a + 1) = N + 1
    BY <1>2
  <2> HIDE DEF a, b
  <2>2. Cardinality(a .. b) = IF a > b THEN 0 ELSE b - a + 1
    BY <2>1, FS_Interval
  <2> QED BY <2>1, <2>2 DEF a, b
<1> QED BY <1>2, <1>6, <1>7, <1>8

\* Up to its first meeting with another team, the way meets no team twice.
LEMMA WayIsNew ==
    ASSUME options \in Options, NEW g, Basic(g), NEW t \in Teams, NEW n \in 1 .. NumTeams + 1,
           Way(g, t)[n] \in Teams, \A k \in 0 .. n - 1 : Way(g, t)[k] # Way(g, t)[n],
           NEW i \in 0 .. n, NEW j \in 0 .. n, i < j
    PROVE  Way(g, t)[i] # Way(g, t)[j]
<1> DEFINE way == Way(g, t)
           N == NumTeams + 1
           T == {ky \in Nat \X (Teams \cup {NoTeam}) : ky[1] >= j => ky[2] = way[ky[1] - (j - i)]}
<1> SUFFICES ASSUME way[i] = way[j] PROVE FALSE
  OBVIOUS
<1>1. /\ \A k \in 1 .. N : way[k] = ComesFrom(g, way[k - 1])
      /\ \A k \in 0 .. N : way[k] \in Teams \cup {NoTeam}
  BY WayIs
<1>2. N \in Nat /\ n \in 1 .. N /\ n \in Nat /\ i \in Nat /\ j \in Nat /\ i < j /\ j <= n /\ n <= N
      /\ j > 0
  BY Settings
<1>3. \A k \in 0 .. n - 1 : way[k] # way[n]
  OBVIOUS
<1> HIDE DEF way, N
<1>4. <<0, way[0]>> \in T
  BY <1>1, <1>2
<1>5. \A k \in 1 .. n : <<k - 1, way[k - 1]>> \in T => <<k, way[k]>> \in T
  <2> TAKE k \in 1 .. n
  <2> HAVE <<k - 1, way[k - 1]>> \in T
  <2>1. k \in Nat /\ k \in 1 .. N /\ k \in 0 .. N /\ way[k] \in Teams \cup {NoTeam}
        /\ way[k] = ComesFrom(g, way[k - 1])
    BY <1>1, <1>2
  <2>2. k >= j => k = j \/ k - 1 >= j
    BY <1>2
  <2>3. CASE k < j
    BY <1>2, <2>1, <2>3
  <2>4. CASE k = j
    <3>1. k - (j - i) = i
      BY <1>2, <2>4
    <3> QED BY <2>1, <2>4, <3>1
  <2>5. CASE k - 1 >= j
    <3> DEFINE l == k - (j - i)
    <3>1. l \in 1 .. N /\ (k - 1) - (j - i) = l - 1
      BY <1>2, <2>1, <2>5
    <3>2. way[k - 1] = way[(k - 1) - (j - i)]
      BY <2>5
    <3>3. way[l] = ComesFrom(g, way[l - 1])
      BY <1>1, <3>1
    <3>4. way[k] = way[l]
      BY <2>1, <3>1, <3>2, <3>3
    <3> QED BY <2>1, <3>4
  <2> QED BY <1>2, <2>2, <2>3, <2>4, <2>5
<1>6. <<n, way[n]>> \in T
  <2>1. n \in 0 .. n
    BY <1>2
  <2> HIDE DEF T
  <2> QED BY <1>2, <1>4, <1>5, <2>1, AllTheWay
<1>7. way[n] = way[n - (j - i)] /\ n - (j - i) \in 0 .. n - 1
  BY <1>2, <1>6
<1> QED BY <1>3, <1>7

-----------------------------------------------------------------------------
(* Taking each other's places.                                             *)

\* s only rearranges the players.
Rearranges(s) ==
    s \in [Players -> Players] /\ \A q, r \in Players : s[q] = s[r] => q = r

LEMMA SameMany ==
    ASSUME NEW s, Rearranges(s), NEW A \in SUBSET Players, NEW B \in SUBSET Players,
           \A q \in Players : q \in B <=> s[q] \in A
    PROVE  Cardinality(B) = Cardinality(A)
<1>1. s \in Injection(Players, Players)
  BY Fun_IsInj DEF Rearranges
<1>2. IsFiniteSet(Players) /\ IsFiniteSet(B)
  BY RosterAssumption, FinitePlayers
<1>3. s \in Surjection(Players, Players)
  BY <1>1, <1>2, FS_Injection
<1>4. \A a \in Players : \E q \in Players : s[q] = a
  BY <1>3 DEF Surjection
<1> DEFINE F == [q \in B |-> s[q]]
<1>5. F \in [B -> A]
  OBVIOUS
<1>6. \A q, r \in B : F[q] = F[r] => q = r
  BY DEF Rearranges
<1>7. \A a \in A : \E q \in B : F[q] = a
  BY <1>4
<1> HIDE DEF F
<1>8. F \in Bijection(B, A)
  BY <1>5, <1>6, <1>7, Fun_IsBij
<1>9. ExistsBijection(B, A)
  BY <1>8 DEF ExistsBijection
<1> QED BY <1>2, <1>9, FS_Bijection

\* Everybody has the team and the base that somebody else had before.
Reseated(g, h, s) ==
    /\ h \in Games /\ h.kind = g.kind /\ h.prevTeam = g.prevTeam /\ h.members = g.members
    /\ h.robots = g.robots /\ h.server = g.server
    /\ h.paused \subseteq g.paused /\ (~LimitedLives => h.paused = g.paused)
    /\ \A q \in Players : h.team[q] = g.team[s[q]] /\ h.base[q] = g.base[s[q]]

LEMMA ReseatedKeeps ==
    ASSUME options \in Options, NEW g, Basic(g), g.server = "up", NEW s, Rearranges(s),
           \A q \in Players : s[q] = q \/ (g.kind[q] = "human" /\ g.kind[s[q]] = "human"),
           NEW h, Reseated(g, h, s), \A t \in Teams : h.swapper[t] \in {NoId, g.swapper[t]},
           BasesKept /\ Good(g) =>
              /\ \A q \in Present(g) : h.base[q] = NoBase => q \in g.paused
              /\ NoCircle(h)
    PROVE  Basic(h) /\ Kept(g, h)
<1>1. g \in Games /\ h \in Games /\ Placed(g) /\ Queues(g) /\ s \in [Players -> Players]
  BY DEF Basic, Reseated, Rearranges
<1>2. /\ Present(h) = Present(g) /\ \A k \in Kinds : Of(h, k) = Of(g, k)
      /\ Present(g) \subseteq Players
      /\ \A q \in Players : g.kind[s[q]] = g.kind[q] /\ (q \in Present(g) <=> s[q] \in Present(g))
  BY <1>1 DEF Reseated, Present, Of, Kinds
<1>3. \A t \in Teams, q \in Players : q \in Based(h, t) <=> s[q] \in Based(g, t)
  BY <1>1, <1>2 DEF Reseated, Based
<1>4. Basic(h)
  <2>1. Placed(h)
    BY <1>1, <1>2 DEF Placed, Reseated, Kinds
  <2>2. Queues(h)
    BY <1>1 DEF Queues, Reseated
  <2> QED BY <1>1, <2>1, <2>2 DEF Basic
<1>5. ASSUME BasesKept, Good(g) PROVE Good(h)
  <2>1. Counted(g) /\ Owned(g) /\ Seated(g) /\ Fits(g) /\ RobotsStay(g) /\ NoCircle(h)
    BY <1>5 DEF Good
  <2>2. Counted(h)
    <3> SUFFICES ASSUME NEW t \in Teams
                 PROVE  /\ h.members[t] = Cardinality(Based(h, t))
                        /\ h.robots[t] = Cardinality(Based(h, t) \cap Of(h, "robot"))
      BY DEF Counted
    <3> DEFINE A == Based(g, t)
               B == Based(h, t)
               C == Based(g, t) \cap Of(g, "robot")
               D == Based(h, t) \cap Of(h, "robot")
    <3>1. A \in SUBSET Players /\ B \in SUBSET Players /\ C \in SUBSET Players /\ D \in SUBSET Players
      BY DEF Based, Present, Of
    <3>2. \A q \in Players : q \in B <=> s[q] \in A
      BY <1>3
    <3>3. \A q \in Players : q \in D <=> s[q] \in C
      <4>1. Of(h, "robot") = Of(g, "robot")
        BY <1>2 DEF Kinds
      <4> QED BY <1>1, <1>2, <1>3, <4>1 DEF Of
    <3>4. g.members[t] = Cardinality(A) /\ g.robots[t] = Cardinality(C)
      BY <2>1 DEF Counted
    <3> HIDE DEF A, B, C, D
    <3>5. Cardinality(B) = Cardinality(A) /\ Cardinality(D) = Cardinality(C)
      BY <3>1, <3>2, <3>3, SameMany
    <3>6. h.members = g.members /\ h.robots = g.robots
      BY DEF Reseated
    <3> QED BY <3>4, <3>5, <3>6 DEF B, D
  <2>3. Owned(h)
    <3> SUFFICES ASSUME NEW p \in Present(h), h.base[p] # NoBase
                 PROVE  /\ BaseTeam[h.base[p]] = h.team[p]
                        /\ \A q \in Present(h) \ {p} : h.base[q] # h.base[p]
      BY DEF Owned
    <3>1. /\ p \in Players /\ h.team[p] = g.team[s[p]] /\ h.base[p] = g.base[s[p]]
          /\ s[p] \in Present(g)
      BY <1>2 DEF Reseated
    <3>2. BaseTeam[g.base[s[p]]] = g.team[s[p]]
          /\ \A r \in Present(g) \ {s[p]} : g.base[r] # g.base[s[p]]
      BY <2>1, <3>1 DEF Owned
    <3>3. \A q \in Present(h) \ {p} : s[q] \in Present(g) \ {s[p]} /\ h.base[q] = g.base[s[q]]
      BY <1>2, <3>1 DEF Rearranges, Reseated
    <3> QED BY <3>1, <3>2, <3>3
  <2>4. Seated(h)
    <3>1. ASSUME NEW p \in Present(h), h.base[p] = NoBase
          PROVE  Reserved(0) /\ p \in h.paused /\ h.team[p] = 0
      <4>1. p \in Players /\ s[p] \in Present(g) /\ g.base[s[p]] = NoBase /\ h.team[p] = g.team[s[p]]
            /\ p \in Present(g)
        BY <1>2, <3>1 DEF Reseated
      <4>2. Reserved(0) /\ g.team[s[p]] = 0
        BY <2>1, <4>1 DEF Seated
      <4>3. p \in g.paused
        BY <1>5, <3>1, <4>1
      <4>4. ~LimitedLives
        BY <1>5, <4>2 DEF BasesKept, Reserved
      <4> QED BY <4>1, <4>2, <4>3, <4>4 DEF Reseated
    <3>2. ASSUME NEW p \in Of(h, "human"), h.base[p] # NoBase PROVE ~Reserved(h.team[p])
      <4>1. p \in Players /\ s[p] \in Of(g, "human") /\ g.base[s[p]] # NoBase
            /\ h.team[p] = g.team[s[p]]
        BY <1>1, <1>2, <3>2 DEF Reseated, Of, Kinds
      <4> QED BY <2>1, <4>1 DEF Seated
    <3>3. \A t \in Teams : Reserved(t) => h.swapper[t] = NoId
      BY <2>1 DEF Seated
    <3> QED BY <3>1, <3>2, <3>3 DEF Seated
  <2>5. Fits(h)
    BY <1>2, <2>1 DEF Fits, Kinds
  <2>6. RobotsStay(h)
    <3>1. Of(h, "robot") = Of(g, "robot")
      BY <1>2 DEF Kinds
    <3>2. \A q \in Of(g, "robot") : h.team[q] = g.team[q]
      BY DEF Reseated, Of
    <3> QED BY <2>1, <3>1, <3>2 DEF RobotsStay
  <2> QED BY <2>1, <2>2, <2>3, <2>4, <2>5, <2>6 DEF Good
<1>6. h.server = "up"
  BY DEF Reseated
<1> QED BY <1>4, <1>5, <1>6, GoodKept

\* Where the teams behind s stay behind it, s may be behind another team.
LEMMA Redirected ==
    ASSUME options \in Options, NEW g, NEW h, NoCircle(g), NEW W \in SUBSET Teams,
           \A x \in W : ComesFrom(g, x) \in W \cup {NoTeam}, NEW s \in W, NEW u \in Teams \ W,
           \A x \in Teams \ {u} : ComesFrom(h, x) \in {NoTeam, ComesFrom(g, x)},
           ComesFrom(h, u) \in {NoTeam, s, ComesFrom(g, u)},
           \A p \in Players : h.prevTeam[p] \in {0, g.prevTeam[p]}
    PROVE  NoCircle(h)
<1> SUFFICES ASSUME ~BaselessPausing
             PROVE  /\ \A p \in Players : h.prevTeam[p] = 0
                    /\ \A S \in SUBSET Teams : S # {} => \E t \in S : ComesFrom(h, t) \notin S
  BY DEF NoCircle
<1>1. \A p \in Players : h.prevTeam[p] = 0
  BY DEF NoCircle
<1>2. ASSUME NEW S \in SUBSET Teams, S # {}, \A t \in S : ComesFrom(h, t) \in S PROVE FALSE
  <2>1. NoTeam \notin S
    BY Settings
  <2>2. \A R \in SUBSET Teams : R # {} => \E t \in R : ComesFrom(g, t) \notin R
    BY DEF NoCircle
  <2>3. \A x \in S \ {u} : ComesFrom(g, x) \in S
    BY <1>2, <2>1
  <2>4. u \in S /\ s \in S
    BY <1>2, <2>1, <2>2, <2>3
  <2>5. S \cap W \in SUBSET Teams /\ S \cap W # {}
    BY <2>4
  <2>6. PICK x \in S \cap W : ComesFrom(g, x) \notin S \cap W
    BY <2>2, <2>5
  <2>7. x \in S \ {u} /\ ComesFrom(g, x) \in W \cup {NoTeam}
    BY <2>6
  <2> QED BY <2>1, <2>3, <2>6, <2>7
<1> QED BY <1>1, <1>2

\* Where nobody on the way from the team of p waits to get into t, the teams
\* behind that of p do not include t.
LEMMA TeamsBehind ==
    ASSUME options \in Options, NEW g, Basic(g), Good(g), NEW p \in Present(g), NEW t \in Teams,
           ~BaselessPausing, ~Reserved(t), g.base[p] # NoBase => g.team[p] # t,
           FirstMeeting(g, p, t) = 0
    PROVE  \E W \in SUBSET Teams :
              /\ g.team[p] \in W /\ t \notin W
              /\ \A x \in W : ComesFrom(g, x) \in W \cup {NoTeam}
<1>1. g.team[p] \in Teams
  BY DEF Basic, Placed
<1>2. CASE g.base[p] = NoBase
  <2>1. Reserved(0) /\ g.team[p] = 0 /\ g.swapper[0] = NoId
    BY <1>2, Settings DEF Good, Seated
  <2>2. ComesFrom(g, 0) = NoTeam
    BY <2>1 DEF ComesFrom
  <2>3. {0} \in SUBSET Teams /\ g.team[p] \in {0} /\ t \notin {0}
        /\ \A x \in {0} : ComesFrom(g, x) \in {0} \cup {NoTeam}
    BY <1>1, <2>1, <2>2
  <2> QED BY <2>3
<1>3. CASE g.base[p] # NoBase
  <2> DEFINE s == g.team[p]
             way == Way(g, s)
             N == NumTeams + 1
             hits == {n \in 1 .. N : way[n] = t}
             W == {way[k] : k \in 0 .. N} \ {NoTeam}
  <2>1. N \in Nat /\ t # NoTeam /\ s # NoTeam
    BY <1>1, Settings
  <2>2. /\ way[0] = s
        /\ \A k \in 1 .. N : way[k] = ComesFrom(g, way[k - 1])
        /\ \A k \in 0 .. N : way[k] \in Teams \cup {NoTeam}
    BY <1>1, WayIs
  <2>3. way[N] = NoTeam
    BY <1>1, WayIsFinite DEF Good
  <2>4. hits = {}
    <3> SUFFICES ASSUME hits # {} PROVE FALSE
      OBVIOUS
    <3>1. FirstMeeting(g, p, t) = Min(hits)
      BY <1>3 DEF FirstMeeting
    <3>2. Min(hits) \in hits
      <4>1. hits \in SUBSET Nat
        OBVIOUS
      <4> HIDE DEF hits
      <4> QED BY <4>1, LeastNumber
    <3> QED BY <2>1, <3>1, <3>2
  <2> HIDE DEF way, N
  <2>5. s \in W /\ W \in SUBSET Teams
    BY <2>1, <2>2
  <2>6. t \notin W
    <3> SUFFICES ASSUME NEW k \in 0 .. N, way[k] = t PROVE FALSE
      OBVIOUS
    <3>1. k \notin 1 .. N
      BY <2>4
    <3>2. k = 0
      BY <2>1, <3>1
    <3> QED BY <1>3, <2>2, <3>2
  <2>7. ASSUME NEW k \in 0 .. N, way[k] # NoTeam PROVE ComesFrom(g, way[k]) \in W \cup {NoTeam}
    <3>1. k # N
      BY <2>3, <2>7
    <3>2. k + 1 \in 1 .. N /\ k + 1 \in 0 .. N /\ (k + 1) - 1 = k
      BY <2>1, <3>1
    <3>3. way[k + 1] = ComesFrom(g, way[k])
      BY <2>2, <3>2
    <3> QED BY <3>2, <3>3
  <2>8. \A x \in W : ComesFrom(g, x) \in W \cup {NoTeam}
    BY <2>7
  <2>9. g.team[p] = s
    OBVIOUS
  <2> HIDE DEF s, W
  <2> QED BY <2>5, <2>6, <2>8, <2>9
<1> QED BY <1>2, <1>3

\* p waits for a place in team t.
LEMMA WaitKeeps ==
    ASSUME options \in Options, NEW g, Basic(g), g.server = "up", NEW p \in Players,
           g.kind[p] = "human", \A u \in Teams : g.swapper[u] # p, NEW t \in Teams, ~Reserved(t),
           g.base[p] # NoBase => g.team[p] # t, FirstMeeting(g, p, t) = 0,
           NEW h, h = [g EXCEPT !.swapper[t] = p]
    PROVE  Basic(h) /\ Kept(g, h)
<1>1. /\ h \in Games /\ h.base = g.base /\ h.paused = g.paused /\ h.server = g.server
      /\ h.swapper = [g.swapper EXCEPT ![t] = p]
  BY DEF Basic, Games
<1>2. /\ h.kind = g.kind /\ h.team = g.team /\ h.prevTeam = g.prevTeam /\ h.members = g.members
      /\ h.robots = g.robots
  BY DEF Basic, Games
<1>3. h.swapper[t] = p /\ \A u \in Teams \ {t} : h.swapper[u] = g.swapper[u]
  <2>1. g.swapper \in [Teams -> Players \cup {NoId}]
    BY Fields DEF Basic
  <2> QED BY <1>1, <2>1
<1>4. Basic(h)
  <2>1. Placed(h)
    BY <1>1, <1>2 DEF Basic, Placed, Present, Of
  <2>2. Queues(h)
    BY <1>2, <1>3 DEF Basic, Queues
  <2> QED BY <1>1, <2>1, <2>2 DEF Basic
<1>5. ASSUME Good(g) PROVE Good(h)
  <2>1. /\ Present(h) = Present(g) /\ \A k \in Kinds : Of(h, k) = Of(g, k)
        /\ \A u \in Teams : Based(h, u) = Based(g, u)
    BY <1>1, <1>2 DEF Present, Of, Based
  <2>2. Counted(h)
    BY <1>2, <1>5, <2>1 DEF Good, Counted, Kinds
  <2>3. Owned(h)
    BY <1>1, <1>2, <1>5, <2>1 DEF Good, Owned
  <2>4. Seated(h)
    BY <1>1, <1>2, <1>3, <1>5, <2>1 DEF Good, Seated, Kinds
  <2>5. Fits(h) /\ RobotsStay(h)
    BY <1>2, <1>5, <2>1 DEF Good, Fits, RobotsStay, Kinds
  <2>6. NoCircle(h)
    <3>1. SUFFICES ASSUME ~BaselessPausing PROVE NoCircle(h)
      BY DEF NoCircle
    <3>2. p \in Present(g)
      BY DEF Present, Of
    <3>3. PICK W \in SUBSET Teams : /\ g.team[p] \in W /\ t \notin W
                                    /\ \A x \in W : ComesFrom(g, x) \in W \cup {NoTeam}
      BY <1>5, <3>1, <3>2, TeamsBehind
    <3>4. \A x \in Teams \ {t} : ComesFrom(h, x) = ComesFrom(g, x)
      BY <1>2, <1>3 DEF ComesFrom
    <3>5. ComesFrom(h, t) = g.team[p]
      BY <1>2, <1>3, Settings DEF ComesFrom
    <3>6. NoCircle(g)
      BY <1>5 DEF Good
    <3> QED BY <1>2, <3>3, <3>4, <3>5, <3>6, Redirected, ZenonT(60)
  <2> QED BY <2>2, <2>3, <2>4, <2>5, <2>6 DEF Good
<1> QED BY <1>1, <1>4, <1>5, GoodKept

\* p swaps with a paused player of team t.
LEMMA SwapKeeps ==
    ASSUME options \in Options, NEW g, Basic(g), g.server = "up", NEW p \in Players,
           g.kind[p] = "human", \A u \in Teams : g.swapper[u] # p, NEW t \in Teams, ~Reserved(t),
           g.base[p] # NoBase => g.team[p] # t, FirstMeeting(g, p, t) = 0,
           NEW q \in PausedIn(g, t), NEW h, h = SwapWithPaused(g, p, q)
    PROVE  Basic(h) /\ Kept(g, h)
<1> DEFINE x == [g EXCEPT !.team[q] = g.team[p], !.team[p] = g.team[q],
                          !.base[q] = g.base[p], !.base[p] = g.base[q]]
           y == SetSwapperState(x, q)
           s == [r \in Players |-> IF r = p THEN q ELSE IF r = q THEN p ELSE r]
<1>1. /\ q \in Players /\ q \in g.paused /\ g.kind[q] = "human" /\ g.base[q] # NoBase
      /\ g.team[q] = t /\ q # p
  BY DEF PausedIn, Based, Basic, Placed, Of
<1>2. g.kind \in [Players -> Kinds] /\ g.team \in [Players -> Teams \cup {NoTeam}]
      /\ g.base \in [Players -> Bases \cup {NoBase}]
  BY Fields DEF Basic
<1>3. /\ x \in Games
      /\ x.kind = g.kind /\ x.prevTeam = g.prevTeam /\ x.members = g.members
      /\ x.robots = g.robots /\ x.swapper = g.swapper /\ x.server = g.server
      /\ x.paused = g.paused
      /\ x.team = [[g.team EXCEPT ![q] = g.team[p]] EXCEPT ![p] = g.team[q]]
      /\ x.base = [[g.base EXCEPT ![q] = g.base[p]] EXCEPT ![p] = g.base[q]]
  BY <1>1, <1>2 DEF Basic, Games
<1>4. h = SetSwapperState(y, p)
  BY DEF SwapWithPaused
<1> HIDE DEF x
<1>5. y \in Games /\ SameBut(x, y) /\ y.base = x.base /\ y.server = x.server
      /\ y.paused \subseteq x.paused /\ (~LimitedLives => y.paused = x.paused)
  BY <1>1, <1>3, SetSwapperEffect
<1> HIDE DEF y
<1>6. h \in Games /\ SameBut(y, h) /\ h.base = y.base /\ h.server = y.server
      /\ h.paused \subseteq y.paused /\ (~LimitedLives => h.paused = y.paused)
  BY <1>4, <1>5, SetSwapperEffect
<1>7. /\ h.kind = g.kind /\ h.prevTeam = g.prevTeam /\ h.members = g.members
      /\ h.robots = g.robots /\ h.swapper = g.swapper /\ h.server = g.server
      /\ h.team = x.team /\ h.base = x.base
      /\ h.paused \subseteq g.paused /\ (~LimitedLives => h.paused = g.paused)
  BY <1>3, <1>5, <1>6 DEF SameBut
<1>8. /\ h.team[p] = g.team[q] /\ h.team[q] = g.team[p]
      /\ h.base[p] = g.base[q] /\ h.base[q] = g.base[p]
      /\ \A r \in Players \ {p, q} : h.team[r] = g.team[r] /\ h.base[r] = g.base[r]
  BY <1>1, <1>2, <1>3, <1>7
<1>9. Rearranges(s) /\ \A r \in Players : s[r] = r \/ (g.kind[r] = "human" /\ g.kind[s[r]] = "human")
  BY <1>1 DEF Rearranges
<1>10. Reseated(g, h, s)
  <2>1. \A r \in Players : h.team[r] = g.team[s[r]] /\ h.base[r] = g.base[s[r]]
    BY <1>1, <1>8
  <2> HIDE DEF s
  <2> QED BY <1>6, <1>7, <2>1 DEF Reseated
<1> HIDE DEF s
<1>11. ASSUME Good(g), BasesKept
       PROVE  NoCircle(h) /\ \A r \in Present(g) : h.base[r] = NoBase => r \in g.paused
  <2>1. \A r \in Present(g) : h.base[r] = NoBase => r \in g.paused
    <3>1. \A r \in Present(g) : g.base[r] = NoBase => r \in g.paused
      BY <1>11 DEF Good, Seated
    <3>2. Present(g) \subseteq Players
      BY DEF Present, Of
    <3> QED BY <1>1, <1>8, <3>1, <3>2
  <2>2. NoCircle(h)
    <3>1. SUFFICES ASSUME ~BaselessPausing PROVE NoCircle(h)
      BY DEF NoCircle
    <3>2. p \in Present(g)
      BY DEF Present, Of
    <3>3. PICK W \in SUBSET Teams : /\ g.team[p] \in W /\ t \notin W
                                    /\ \A z \in W : ComesFrom(g, z) \in W \cup {NoTeam}
      BY <1>11, <3>1, <3>2, TeamsBehind
    <3>4. NoCircle(g)
      BY <1>11 DEF Good
    <3>5. \A z \in Teams : g.swapper[z] # q => ComesFrom(h, z) = ComesFrom(g, z)
      <4> TAKE z \in Teams
      <4>1. g.swapper[z] \in Players \cup {NoId}
        BY Fields DEF Basic
      <4> QED BY <1>7, <1>8, <4>1 DEF ComesFrom
    <3>6. CASE \A z \in Teams : g.swapper[z] # q
      BY <1>7, <3>4, <3>5, <3>6, NoCircleShrinks
    <3>7. CASE \E z \in Teams : g.swapper[z] = q
      <4>1. PICK u \in Teams : g.swapper[u] = q
        BY <3>7
      <4>2. \A z \in Teams \ {u} : g.swapper[z] # q
        <5>1. q # NoId
          BY <1>1, Settings
        <5> QED BY <4>1, <5>1 DEF Basic, Queues
      <4>3. ComesFrom(g, u) = t /\ ComesFrom(h, u) = g.team[p]
        BY <1>1, <1>7, <1>8, <4>1, Settings DEF ComesFrom
      <4>4. u \notin W
        BY <3>3, <4>3, Settings
      <4>5. \A z \in Teams \ {u} : ComesFrom(h, z) = ComesFrom(g, z)
        BY <3>5, <4>2
      <4> QED BY <1>7, <3>3, <3>4, <4>3, <4>4, <4>5, Redirected
    <3> QED BY <3>6, <3>7
  <2> QED BY <2>1, <2>2
<1>12. \A u \in Teams : h.swapper[u] \in {NoId, g.swapper[u]}
  BY <1>7
<1> QED BY <1>9, <1>10, <1>11, <1>12, ReseatedKeeps

LEMMA CycleRearranges ==
    ASSUME NEW n \in Nat, NEW c \in [0 .. n -> Players], \A i, j \in 0 .. n : c[i] = c[j] => i = j
    PROVE  \E s : /\ Rearranges(s)
                  /\ \A i \in 0 .. n : s[c[i]] = c[IF i = 0 THEN n ELSE i - 1]
                  /\ \A q \in Players : (\A i \in 0 .. n : c[i] # q) => s[q] = q
<1> DEFINE Before(i) == IF i = 0 THEN n ELSE i - 1
           At(q) == CHOOSE i \in 0 .. n : c[i] = q
           s == [q \in Players |-> IF \E i \in 0 .. n : c[i] = q THEN c[Before(At(q))] ELSE q]
<1>1. \A i \in 0 .. n : Before(i) \in 0 .. n /\ c[i] \in Players
  OBVIOUS
<1>2. \A i, j \in 0 .. n : Before(i) = Before(j) => i = j
  OBVIOUS
<1>3. \A i \in 0 .. n : At(c[i]) = i
  OBVIOUS
<1> HIDE DEF At, Before
<1>4. \A i \in 0 .. n : s[c[i]] = c[Before(i)]
  BY <1>1, <1>3
<1>5. \A q \in Players : (\A i \in 0 .. n : c[i] # q) => s[q] = q
  OBVIOUS
<1>6. \A q \in Players : s[q] \in Players
  <2> TAKE q \in Players
  <2>1. CASE \E i \in 0 .. n : c[i] = q
    <3>1. PICK i \in 0 .. n : c[i] = q
      BY <2>1
    <3> QED BY <1>1, <1>4, <3>1
  <2>2. CASE ~\E i \in 0 .. n : c[i] = q
    BY <1>5, <2>2
  <2> QED BY <2>1, <2>2
<1>7. s \in [Players -> Players]
  BY <1>6
<1> HIDE DEF s
<1>8. ASSUME NEW q \in Players, NEW r \in Players, s[q] = s[r] PROVE q = r
  <2>1. CASE \E i \in 0 .. n : c[i] = q
    <3>1. PICK i \in 0 .. n : c[i] = q
      BY <2>1
    <3>2. CASE \E j \in 0 .. n : c[j] = r
      <4>1. PICK j \in 0 .. n : c[j] = r
        BY <3>2
      <4> QED BY <1>1, <1>2, <1>4, <1>8, <3>1, <4>1
    <3>3. CASE ~\E j \in 0 .. n : c[j] = r
      BY <1>1, <1>4, <1>5, <1>8, <3>1, <3>3
    <3> QED BY <3>2, <3>3
  <2>2. CASE ~\E i \in 0 .. n : c[i] = q
    <3>1. s[q] = q
      BY <1>5, <2>2
    <3>2. CASE \E j \in 0 .. n : c[j] = r
      <4>1. PICK j \in 0 .. n : c[j] = r
        BY <3>2
      <4> QED BY <1>1, <1>4, <1>8, <2>2, <3>1, <4>1
    <3>3. CASE ~\E j \in 0 .. n : c[j] = r
      BY <1>5, <1>8, <3>1, <3>3
    <3> QED BY <3>2, <3>3
  <2> QED BY <2>1, <2>2
<1>9. Rearranges(s)
  BY <1>7, <1>8 DEF Rearranges
<1> QED BY <1>4, <1>5, <1>9 DEF Before

\* c are the n players who wait one for the place of the other, behind p.
Line(g, p, t, c, n) ==
    /\ n \in Nat \ {0} /\ c \in [0 .. n -> Players] /\ c[0] = p /\ g.team[c[n]] = t
    /\ \A i, j \in 0 .. n : c[i] = c[j] => i = j
    /\ \A i \in 0 .. n : g.kind[c[i]] = "human" /\ g.team[c[i]] \in Teams
    /\ \A i \in 1 .. n : g.swapper[g.team[c[i - 1]]] = c[i]

LEMMA LineIs ==
    ASSUME options \in Options, NEW g, Basic(g), NEW p \in Players, g.kind[p] = "human",
           \A u \in Teams : g.swapper[u] # p, NEW t \in Teams,
           g.base[p] # NoBase => g.team[p] # t, NEW n, n = FirstMeeting(g, p, t), n # 0
    PROVE  /\ n \in 1 .. NumTeams + 1 /\ g.base[p] # NoBase
           /\ \E c : Line(g, p, t, c, n) /\ \A i \in 0 .. n : Way(g, g.team[p])[i] = g.team[c[i]]
<1> DEFINE s == g.team[p]
           way == Way(g, s)
           N == NumTeams + 1
           hits == {k \in 1 .. N : way[k] = t}
<1>1. s \in Teams /\ N \in Nat /\ t # NoTeam
  BY Settings DEF Basic, Placed, Present, Of
<1>2. /\ way[0] = s
      /\ \A k \in 1 .. N : way[k] = ComesFrom(g, way[k - 1])
      /\ \A k \in 0 .. N : way[k] \in Teams \cup {NoTeam}
  BY <1>1, WayIs
<1>3. g.base[p] # NoBase /\ hits # {} /\ n = Min(hits)
  BY DEF FirstMeeting
<1>4. n \in hits /\ \A k \in hits : n <= k
  <2>1. hits \in SUBSET Nat
    OBVIOUS
  <2> HIDE DEF hits
  <2> QED BY <1>3, <2>1, LeastNumber
<1>5. n \in 1 .. N /\ n \in Nat /\ way[n] = t /\ \A k \in 0 .. n - 1 : way[k] # t
  <2>1. n \in 1 .. N /\ way[n] = t /\ n \in Nat /\ n <= N
    BY <1>1, <1>4
  <2>2. way[0] # t
    BY <1>2, <1>3
  <2>3. \A k \in 0 .. n - 1 : k = 0 \/ (k \in 1 .. N /\ ~(n <= k))
    BY <1>1, <2>1
  <2> HIDE DEF way
  <2>4. \A k \in 0 .. n - 1 : way[k] # t
    BY <1>4, <2>2, <2>3
  <2> QED BY <2>1, <2>4
<1>6. \A k \in 0 .. n : way[k] \in Teams
  <2> SUFFICES ASSUME NEW k \in 0 .. n, way[k] \notin Teams PROVE FALSE
    OBVIOUS
  <2>1. k \in 0 .. N /\ n \in k .. N
    BY <1>1, <1>5
  <2>2. way[k] = NoTeam
    BY <1>2, <2>1
  <2>3. way[n] = NoTeam
    BY <1>1, <2>1, <2>2, WayEnds
  <2> QED BY <1>1, <1>5, <2>3
<1>7. \A i, j \in 0 .. n : way[i] = way[j] => i = j
  <2>1. \A i, j \in 0 .. n : i < j => way[i] # way[j]
    BY <1>1, <1>5, <1>6, WayIsNew
  <2>2. \A i, j \in 0 .. n : i < j \/ j < i \/ i = j
    BY <1>5
  <2> HIDE DEF way
  <2> QED BY <2>1, <2>2
<1> HIDE DEF hits
<1> DEFINE c == [i \in 0 .. n |-> IF i = 0 THEN p ELSE g.swapper[way[i - 1]]]
<1>8. c[0] = p /\ \A i \in 1 .. n : c[i] = g.swapper[way[i - 1]]
  BY <1>5
<1> HIDE DEF way
<1>9. ASSUME NEW i \in 1 .. n
      PROVE  /\ c[i] \in Players /\ c[i] # NoId /\ c[i] # p /\ g.team[c[i]] = way[i]
             /\ g.kind[c[i]] = "human" /\ i - 1 \in 0 .. n /\ i \in 0 .. n
  <2>1. i \in 1 .. N /\ i - 1 \in 0 .. n /\ i \in 0 .. n
    BY <1>1, <1>5
  <2>2. way[i] = ComesFrom(g, way[i - 1]) /\ way[i] # NoTeam /\ way[i - 1] \in Teams
    BY <1>2, <1>6, <2>1, Settings
  <2>3. g.swapper[way[i - 1]] # NoId /\ way[i] = g.team[g.swapper[way[i - 1]]]
    BY <2>2 DEF ComesFrom
  <2>4. g.swapper[way[i - 1]] \in Players
    BY <2>2, <2>3, Fields DEF Basic
  <2> HIDE DEF c
  <2> QED BY <1>8, <2>1, <2>2, <2>3, <2>4 DEF Basic, Queues
<1>10. c \in [0 .. n -> Players] /\ \A i \in 0 .. n : g.kind[c[i]] = "human" /\ g.team[c[i]] = way[i]
  <2>1. \A i \in 0 .. n : i = 0 \/ i \in 1 .. n
    BY <1>5
  <2>2. \A i \in 0 .. n : c[i] \in Players
    <3> TAKE i \in 0 .. n
    <3>1. CASE i = 0
      BY <1>8, <3>1
    <3>2. CASE i \in 1 .. n
      <4> HIDE DEF c
      <4> QED BY <1>9, <3>2
    <3> QED BY <2>1, <3>1, <3>2
  <2>3. c = [i \in 0 .. n |-> c[i]]
    OBVIOUS
  <2> HIDE DEF c
  <2>4. \A i \in 0 .. n : g.kind[c[i]] = "human" /\ g.team[c[i]] = way[i]
    BY <1>2, <1>8, <1>9, <2>1
  <2> QED BY <2>2, <2>3, <2>4
<1> HIDE DEF c
<1>11. ASSUME NEW i \in 0 .. n, NEW j \in 0 .. n, c[i] = c[j] PROVE i = j
  <2>1. (i = 0 \/ i \in 1 .. n) /\ (j = 0 \/ j \in 1 .. n)
    BY <1>5
  <2>2. CASE i = 0 \/ j = 0
    BY <1>8, <1>9, <1>11, <2>1, <2>2
  <2>3. CASE i \in 1 .. n /\ j \in 1 .. n
    <3>1. g.swapper[way[i - 1]] = g.swapper[way[j - 1]] /\ g.swapper[way[i - 1]] # NoId
          /\ way[i - 1] \in Teams /\ way[j - 1] \in Teams /\ i - 1 \in 0 .. n /\ j - 1 \in 0 .. n
      BY <1>6, <1>8, <1>9, <1>11, <2>3
    <3>2. way[i - 1] = way[j - 1]
      BY <3>1 DEF Basic, Queues
    <3>3. i - 1 = j - 1
      BY <1>7, <3>1, <3>2
    <3> QED BY <2>3, <3>3
  <2> QED BY <2>1, <2>2, <2>3
<1>12. Line(g, p, t, c, n)
  <2>1. \A i \in 1 .. n : g.swapper[g.team[c[i - 1]]] = c[i]
    BY <1>8, <1>9, <1>10
  <2>2. n \in 0 .. n /\ n \in Nat \ {0}
    BY <1>5, SMTT(40)
  <2> QED BY <1>5, <1>6, <1>8, <1>10, <1>11, <2>1, <2>2 DEF Line
<1> QED BY <1>3, <1>5, <1>10, <1>12 DEF way, N

\* The first i of c have taken the places of those before them.
Turned(g, x, c, i) ==
    /\ x \in Games /\ x.kind = g.kind /\ x.prevTeam = g.prevTeam /\ x.members = g.members
    /\ x.robots = g.robots /\ x.server = g.server
    /\ x.paused \subseteq g.paused /\ (~LimitedLives => x.paused = g.paused)
    /\ \A j \in 1 .. i : /\ x.team[c[j]] = g.team[c[j - 1]] /\ x.base[c[j]] = g.base[c[j - 1]]
                         /\ x.swapper[g.team[c[j - 1]]] = NoId
    /\ \A q \in Players : (\A j \in 1 .. i : q # c[j]) =>
                             x.team[q] = g.team[q] /\ x.base[q] = g.base[q]
    /\ \A u \in Teams : x.swapper[u] \in {NoId, g.swapper[u]}

LEMMA TurnOne ==
    ASSUME options \in Options, NEW g, Basic(g), NEW p, NEW t, NEW c, NEW n, Line(g, p, t, c, n),
           NEW i \in 1 .. n, NEW x, Turned(g, x, c, i - 1), NEW u, u = g.team[c[i - 1]],
           NEW b, b = g.base[c[i - 1]], NEW q, q = c[i],
           NEW y, y = SetSwapperState([x EXCEPT !.swapper[u] = NoId, !.team[q] = u, !.base[q] = b], q)
    PROVE  Turned(g, y, c, i)
<1> DEFINE z == [x EXCEPT !.swapper[u] = NoId, !.team[q] = u, !.base[q] = b]
<1>1. /\ n \in Nat \ {0} /\ i \in Nat /\ i \in 0 .. n /\ i - 1 \in 0 .. n
      /\ \A j \in 1 .. i - 1 : j \in 0 .. n /\ j - 1 \in 0 .. n /\ j # i
      /\ \A j \in 1 .. i : j = i \/ j \in 1 .. i - 1
      /\ i \in 1 .. i
  BY DEF Line
<1>2. c[i - 1] \in Players /\ q \in Players /\ u \in Teams
  BY <1>1 DEF Line
<1>3. b \in Bases \cup {NoBase}
  BY <1>2, Fields DEF Basic
<1>4. x \in Games
  BY DEF Turned
<1>5. /\ z \in Games /\ z.kind = x.kind /\ z.prevTeam = x.prevTeam /\ z.members = x.members
      /\ z.robots = x.robots /\ z.server = x.server /\ z.paused = x.paused
      /\ z.swapper = [x.swapper EXCEPT ![u] = NoId]
      /\ z.team = [x.team EXCEPT ![q] = u] /\ z.base = [x.base EXCEPT ![q] = b]
  BY <1>2, <1>3, <1>4 DEF Games
<1>6. y = SetSwapperState(z, q)
  OBVIOUS
<1> HIDE DEF z
<1>7. /\ y \in Games /\ SameBut(z, y) /\ y.base = z.base /\ y.server = z.server
      /\ y.paused \subseteq z.paused /\ (~LimitedLives => y.paused = z.paused)
  BY <1>2, <1>5, <1>6, SetSwapperEffect
<1>8. /\ y.swapper[u] = NoId /\ \A w \in Teams \ {u} : y.swapper[w] = x.swapper[w]
      /\ y.team[q] = u /\ y.base[q] = b
      /\ \A r \in Players \ {q} : y.team[r] = x.team[r] /\ y.base[r] = x.base[r]
  <2>1. x.swapper \in [Teams -> Players \cup {NoId}] /\ x.team \in [Players -> Teams \cup {NoTeam}]
        /\ x.base \in [Players -> Bases \cup {NoBase}]
    BY <1>4, Fields
  <2>2. y.swapper = [x.swapper EXCEPT ![u] = NoId] /\ y.team = [x.team EXCEPT ![q] = u]
        /\ y.base = [x.base EXCEPT ![q] = b]
    BY <1>5, <1>7 DEF SameBut
  <2> QED BY ONLY <1>2, <2>1, <2>2
<1>9. /\ y.kind = g.kind /\ y.prevTeam = g.prevTeam /\ y.members = g.members
      /\ y.robots = g.robots /\ y.server = g.server
      /\ y.paused \subseteq g.paused /\ (~LimitedLives => y.paused = g.paused)
  BY ONLY <1>5, <1>7, Turned(g, x, c, i - 1), SMTT(40) DEF SameBut, Turned
<1>10. ASSUME NEW j \in 1 .. i
       PROVE  /\ y.team[c[j]] = g.team[c[j - 1]] /\ y.base[c[j]] = g.base[c[j - 1]]
              /\ y.swapper[g.team[c[j - 1]]] = NoId
  <2>1. CASE j = i
    BY ONLY <1>8, <2>1, u = g.team[c[i - 1]], b = g.base[c[i - 1]], q = c[i]
  <2>2. CASE j \in 1 .. i - 1
    <3>1. c[j] \in Players \ {q} /\ g.team[c[j - 1]] \in Teams
      BY <1>1, <2>2 DEF Line
    <3>2. /\ x.team[c[j]] = g.team[c[j - 1]] /\ x.base[c[j]] = g.base[c[j - 1]]
          /\ x.swapper[g.team[c[j - 1]]] = NoId
      BY <2>2, SMTT(40) DEF Turned
    <3> QED BY ONLY <1>8, <3>1, <3>2
  <2> QED BY <1>1, <2>1, <2>2
<1>11. ASSUME NEW r \in Players, \A j \in 1 .. i : r # c[j]
       PROVE  y.team[r] = g.team[r] /\ y.base[r] = g.base[r]
  <2>1. r \in Players \ {q} /\ \A j \in 1 .. i - 1 : r # c[j]
    BY <1>1, <1>11
  <2> QED BY <1>8, <2>1, ZenonT(60) DEF Turned
<1>12. \A w \in Teams : y.swapper[w] \in {NoId, g.swapper[w]}
  BY <1>8 DEF Turned
<1> QED BY <1>7, <1>9, <1>10, <1>11, <1>12 DEF Turned

\* After them, p has taken the place of the last one.
Rotated(g, h, p, t, c, n) ==
    \E x : /\ Turned(g, x, c, n)
           /\ h = SetSwapperState([x EXCEPT !.team[p] = t, !.base[p] = g.base[c[n]]], p)

LEMMA RotateTurns ==
    ASSUME options \in Options, NEW g, Basic(g), NEW p \in Players, NEW t \in Teams, NEW c,
           NEW n, n = FirstMeeting(g, p, t), Line(g, p, t, c, n),
           \A i \in 0 .. n : Way(g, g.team[p])[i] = g.team[c[i]]
    PROVE  Rotated(g, Rotate(g, p, t), p, t, c, n)
<1> DEFINE way    == Way(g, g.team[p])
           movers == [i \in 1 .. n |-> g.swapper[way[i - 1]]]
           bases  == [i \in 1 .. n |-> g.base[IF i = 1 THEN p ELSE movers[i - 1]]]
           Turn(y, i) == SetSwapperState([y EXCEPT !.swapper[way[i - 1]] = NoId,
                                                   !.team[movers[i]] = way[i - 1],
                                                   !.base[movers[i]] = bases[i]], movers[i])
           turn[i \in 0 .. n] == IF i = 0 THEN g ELSE Turn(turn[i - 1], i)
<1>1. Rotate(g, p, t) = SetSwapperState([turn[n] EXCEPT !.team[p] = t, !.base[p] = g.base[movers[n]]], p)
  BY DEF Rotate
<1>2. n \in Nat \ {0} /\ n \in 1 .. n /\ n \in 0 .. n /\ 0 \in 0 .. n /\ c[0] = p
      /\ \A i \in 1 .. n : i \in 0 .. n /\ i - 1 \in 0 .. n /\ (i # 1 => i - 1 \in 1 .. n)
  BY DEF Line
<1>3. \A i \in 1 .. n : movers[i] = c[i]
  BY <1>2 DEF Line
<1>4. \A i \in 1 .. n : bases[i] = g.base[c[i - 1]]
  <2> HIDE DEF movers
  <2> QED BY <1>2, <1>3
<1> HIDE DEF movers, bases
<1>5. \A i \in 1 .. n : way[i - 1] = g.team[c[i - 1]]
  BY <1>2
<1> HIDE DEF way
<1>6. ASSUME NEW i \in 1 .. n, NEW y, Turned(g, y, c, i - 1) PROVE Turned(g, Turn(y, i), c, i)
  <2> DEFINE u == way[i - 1]
             b == bases[i]
             q == movers[i]
             z == SetSwapperState([y EXCEPT !.swapper[u] = NoId, !.team[q] = u, !.base[q] = b], q)
  <2>1. Turn(y, i) = z
    OBVIOUS
  <2>2. u = g.team[c[i - 1]] /\ b = g.base[c[i - 1]] /\ q = c[i]
    BY <1>3, <1>4, <1>5
  <2> HIDE DEF u, b, q
  <2>3. Turned(g, z, c, i)
    BY <1>6, <2>2, TurnOne
  <2> QED BY <2>1, <2>3
<1> HIDE DEF Turn
<1>7. Turned(g, g, c, 0)
  BY DEF Turned, Basic
<1> DEFINE F == [iy \in (1 .. n) \X Games |-> IF Turned(g, iy[2], c, iy[1] - 1)
                                              THEN Turn(iy[2], iy[1]) ELSE g]
           T == {iy \in Nat \X Games : Turned(g, iy[2], c, iy[1])}
<1>8. \A i \in 1 .. n : \A y \in Games :
         F[<<i, y>>] = (IF Turned(g, y, c, i - 1) THEN Turn(y, i) ELSE g) /\ F[<<i, y>>] \in Games
  <2> TAKE i \in 1 .. n
  <2> TAKE y \in Games
  <2>1. F[<<i, y>>] = IF Turned(g, y, c, i - 1) THEN Turn(y, i) ELSE g
    OBVIOUS
  <2>2. Turned(g, y, c, i - 1) => Turn(y, i) \in Games
    <3> HIDE DEF F
    <3>1. \A x : Turned(g, x, c, i) => x \in Games
      BY DEF Turned
    <3> QED BY <1>6, <3>1
  <2>3. g \in Games
    BY DEF Basic
  <2> HIDE DEF F
  <2> QED BY <2>1, <2>2, <2>3
<1> HIDE DEF F
<1>9. PICK f : Steps(f, n, g, F) /\ \A k \in 0 .. n : f[k] \in Games
  <2>1. g \in Games /\ n \in Nat /\ \A i \in 1 .. n : \A y \in Games : F[<<i, y>>] \in Games
    BY <1>2, <1>8 DEF Basic
  <2> QED BY <2>1, StepByStep
<1>10. /\ DOMAIN f = 0 .. n /\ f[0] = g
       /\ \A k \in 1 .. n : f[k] = F[<<k, f[k - 1]>>]
  BY <1>2, <1>9 DEF Steps
<1>11. \A k \in 1 .. n : <<k - 1, f[k - 1]>> \in T => f[k] = Turn(f[k - 1], k) /\ <<k, f[k]>> \in T
  <2> TAKE k \in 1 .. n
  <2> HAVE <<k - 1, f[k - 1]>> \in T
  <2>1. Turned(g, f[k - 1], c, k - 1) /\ f[k - 1] \in Games /\ k \in Nat /\ f[k] \in Games
    BY <1>2, <1>9
  <2>2. f[k] = Turn(f[k - 1], k)
    BY <1>8, <1>10, <2>1
  <2>3. Turned(g, f[k], c, k)
    BY <1>6, <2>1, <2>2
  <2> QED BY <2>1, <2>2, <2>3
<1>12. \A k \in 0 .. n : <<k, f[k]>> \in T
  <2>1. <<0, f[0]>> \in T
    BY <1>7, <1>10 DEF Basic
  <2> HIDE DEF T
  <2> QED BY <1>2, <1>11, <2>1, AllTheWay
<1>13. f = [i \in 0 .. n |-> IF i = 0 THEN g ELSE Turn(f[i - 1], i)]
  <2> DEFINE G(i) == IF i = 0 THEN g ELSE Turn(f[i - 1], i)
  <2>1. \A i \in 0 .. n : f[i] = G(i)
    <3> TAKE i \in 0 .. n
    <3>1. CASE i = 0
      BY <1>10, <3>1
    <3>2. CASE i # 0
      <4>1. i \in 1 .. n /\ i - 1 \in 0 .. n
        BY <1>2, <3>2
      <4> QED BY <1>11, <1>12, <3>2, <4>1
    <3> QED BY <3>1, <3>2
  <2>2. f = [i \in 0 .. n |-> f[i]]
    BY <1>9 DEF Steps
  <2> HIDE DEF G
  <2>3. f = [i \in 0 .. n |-> G(i)]
    BY <2>1, <2>2
  <2> QED BY <2>3 DEF G
<1>14. turn = [i \in 0 .. n |-> IF i = 0 THEN g ELSE Turn(turn[i - 1], i)]
  BY <1>13
<1> HIDE DEF turn
<1>15. \A k \in 0 .. n : <<k, turn[k]>> \in T
  <2>1. turn[0] = g /\ \A k \in 1 .. n : turn[k] = Turn(turn[k - 1], k)
    BY <1>2, <1>14
  <2>2. <<0, turn[0]>> \in T
    BY <1>7, <2>1, SMTT(40) DEF Basic
  <2>3. \A k \in 1 .. n : <<k - 1, turn[k - 1]>> \in T => <<k, turn[k]>> \in T
    <3> TAKE k \in 1 .. n
    <3> HAVE <<k - 1, turn[k - 1]>> \in T
    <3>1. Turned(g, turn[k - 1], c, k - 1) /\ k \in Nat
      BY <1>2
    <3>2. Turned(g, turn[k], c, k)
      BY <1>6, <2>1, <3>1
    <3> QED BY <3>1, <3>2 DEF Turned
  <2> HIDE DEF T
  <2> QED BY <1>2, <2>2, <2>3, AllTheWay
<1>16. Turned(g, turn[n], c, n)
  BY <1>2, <1>15
<1>17. movers[n] = c[n]
  BY <1>2, <1>3
<1> QED BY <1>1, <1>16, <1>17 DEF Rotated

\* Those who wait behind each other, and p the last of them, go round.
LEMMA RotateKeeps ==
    ASSUME options \in Options, NEW g, Basic(g), g.server = "up", NEW p \in Players,
           g.kind[p] = "human", \A u \in Teams : g.swapper[u] # p, NEW t \in Teams, ~Reserved(t),
           g.base[p] # NoBase => g.team[p] # t, FirstMeeting(g, p, t) # 0,
           NEW h, h = Rotate(g, p, t)
    PROVE  Basic(h) /\ Kept(g, h)
<1> DEFINE n == FirstMeeting(g, p, t)
<1>1. n = FirstMeeting(g, p, t) /\ n # 0
  OBVIOUS
<1> HIDE DEF n
<1>2. g.base[p] # NoBase
  BY <1>1, LineIs
<1>3. PICK c : Line(g, p, t, c, n) /\ \A i \in 0 .. n : Way(g, g.team[p])[i] = g.team[c[i]]
  BY <1>1, LineIs
<1>4. PICK x : /\ Turned(g, x, c, n)
               /\ h = SetSwapperState([x EXCEPT !.team[p] = t, !.base[p] = g.base[c[n]]], p)
  <2>1. Rotated(g, h, p, t, c, n)
    BY <1>1, <1>3, RotateTurns
  <2> QED BY <2>1, Zenon DEF Rotated
<1> DEFINE b == g.base[c[n]]
           z == [x EXCEPT !.team[p] = t, !.base[p] = b]
<1>5. /\ n \in Nat \ {0} /\ n \in 0 .. n /\ 0 \in 0 .. n
      /\ \A i \in 1 .. n : i \in 0 .. n /\ i - 1 \in 0 .. n /\ i # 0
      /\ \A i \in 0 .. n : (i = 0 \/ i \in 1 .. n) /\ (IF i = 0 THEN n ELSE i - 1) \in 0 .. n
  BY <1>3 DEF Line
<1>6. /\ c \in [0 .. n -> Players] /\ c[0] = p /\ g.team[c[n]] = t
      /\ \A i, j \in 0 .. n : c[i] = c[j] => i = j
      /\ \A i \in 0 .. n : g.kind[c[i]] = "human" /\ g.team[c[i]] \in Teams
      /\ \A i \in 1 .. n : g.swapper[g.team[c[i - 1]]] = c[i]
  BY <1>3 DEF Line
<1>7. b \in Bases \cup {NoBase}
  BY <1>5, <1>6, Fields DEF Basic
<1>8. x \in Games
  BY <1>4 DEF Turned
<1>9. h = SetSwapperState(z, p)
  BY <1>4
<1>10. b = g.base[c[n]]
  OBVIOUS
<1> HIDE DEF b
<1>11. /\ z \in Games /\ z.kind = x.kind /\ z.prevTeam = x.prevTeam /\ z.members = x.members
       /\ z.robots = x.robots /\ z.server = x.server /\ z.paused = x.paused /\ z.swapper = x.swapper
       /\ z.team = [x.team EXCEPT ![p] = t] /\ z.base = [x.base EXCEPT ![p] = b]
  BY <1>7, <1>8 DEF Games
<1> HIDE DEF z
<1>12. /\ h \in Games /\ SameBut(z, h) /\ h.base = z.base /\ h.server = z.server
       /\ h.paused \subseteq z.paused /\ (~LimitedLives => h.paused = z.paused)
  BY <1>9, <1>11, SetSwapperEffect
<1>13. /\ h.kind = g.kind /\ h.prevTeam = g.prevTeam /\ h.members = g.members
       /\ h.robots = g.robots /\ h.server = g.server /\ h.swapper = x.swapper
       /\ h.paused \subseteq g.paused /\ (~LimitedLives => h.paused = g.paused)
  BY ONLY <1>4, <1>11, <1>12 DEF SameBut, Turned
<1>14. /\ h.team[p] = g.team[c[n]] /\ h.base[p] = g.base[c[n]]
       /\ \A q \in Players \ {p} : h.team[q] = x.team[q] /\ h.base[q] = x.base[q]
  <2>1. x.team \in [Players -> Teams \cup {NoTeam}] /\ x.base \in [Players -> Bases \cup {NoBase}]
    BY <1>8, Fields
  <2>2. h.team = [x.team EXCEPT ![p] = t] /\ h.base = [x.base EXCEPT ![p] = b]
    BY <1>11, <1>12 DEF SameBut
  <2> QED BY <1>6, <1>10, <2>1, <2>2
<1>15. PICK s : /\ Rearranges(s)
                /\ \A i \in 0 .. n : s[c[i]] = c[IF i = 0 THEN n ELSE i - 1]
                /\ \A q \in Players : (\A i \in 0 .. n : c[i] # q) => s[q] = q
  BY <1>5, <1>6, CycleRearranges, ZenonT(60)
<1>16. ASSUME NEW i \in 1 .. n
       PROVE  /\ h.team[c[i]] = g.team[c[i - 1]] /\ h.base[c[i]] = g.base[c[i - 1]]
              /\ s[c[i]] = c[i - 1] /\ h.swapper[g.team[c[i - 1]]] = NoId
  <2>1. c[i] \in Players \ {p}
    BY <1>5, <1>6
  <2>2. /\ x.team[c[i]] = g.team[c[i - 1]] /\ x.base[c[i]] = g.base[c[i - 1]]
        /\ x.swapper[g.team[c[i - 1]]] = NoId
    BY <1>4 DEF Turned
  <2> QED BY <1>5, <1>13, <1>14, <1>15, <2>1, <2>2
<1>17. ASSUME NEW q \in Players, \A i \in 0 .. n : c[i] # q
       PROVE  h.team[q] = g.team[q] /\ h.base[q] = g.base[q] /\ s[q] = q
  <2>1. q # p /\ \A i \in 1 .. n : q # c[i]
    BY <1>5, <1>6, <1>17
  <2>2. x.team[q] = g.team[q] /\ x.base[q] = g.base[q]
    BY <1>4, <2>1 DEF Turned
  <2> QED BY <1>14, <1>15, <1>17, <2>1, <2>2
<1>18. s[p] = c[n]
  BY <1>5, <1>6, <1>15
<1>19. \A q \in Players : \/ q = p
                          \/ \E i \in 1 .. n : q = c[i]
                          \/ \A i \in 0 .. n : c[i] # q
  BY <1>5, <1>6
<1>20. Reseated(g, h, s)
  <2>1. ASSUME NEW q \in Players PROVE h.team[q] = g.team[s[q]] /\ h.base[q] = g.base[s[q]]
    <3>1. CASE q = p
      BY <1>14, <1>18, <3>1
    <3>2. CASE \E i \in 1 .. n : q = c[i]
      BY <1>16, <3>2
    <3>3. CASE \A i \in 0 .. n : c[i] # q
      BY <1>17, <3>3
    <3> QED BY <1>19, <3>1, <3>2, <3>3
  <2> QED BY <1>12, <1>13, <2>1 DEF Reseated
<1>21. ASSUME NEW q \in Players
       PROVE  s[q] = q \/ (g.kind[q] = "human" /\ g.kind[s[q]] = "human")
  <2>1. CASE q = p
    BY <1>5, <1>6, <1>18, <2>1
  <2>2. CASE \E i \in 1 .. n : q = c[i]
    BY <1>5, <1>6, <1>16, <2>2
  <2>3. CASE \A i \in 0 .. n : c[i] # q
    BY <1>17, <2>3
  <2> QED BY <1>19, <2>1, <2>2, <2>3
<1>22. \A u \in Teams : h.swapper[u] \in {NoId, g.swapper[u]}
  BY <1>4, <1>13 DEF Turned
<1>23. ASSUME Good(g)
       PROVE  NoCircle(h) /\ \A q \in Present(g) : h.base[q] = NoBase => q \in g.paused
  <2>1. ASSUME NEW i \in 0 .. n PROVE g.base[c[i]] # NoBase
    <3>1. CASE i = 0
      BY <1>2, <1>6, <3>1
    <3>2. CASE i # 0
      <4> SUFFICES ASSUME g.base[c[i]] = NoBase PROVE FALSE
        OBVIOUS
      <4>1. c[i] \in Present(g)
        BY <1>6 DEF Present, Of
      <4>2. g.team[c[i]] = 0 /\ Reserved(0) /\ g.swapper[0] = NoId
        BY <1>23, <4>1, Settings DEF Good, Seated
      <4>3. CASE i = n
        BY <1>6, <4>2, <4>3
      <4>4. CASE i # n
        <5>1. i + 1 \in 1 .. n /\ (i + 1) - 1 = i /\ i + 1 \in 0 .. n
          BY <1>5, <4>4
        <5>2. c[i + 1] = NoId
          BY <1>6, <4>2, <5>1
        <5> QED BY <1>6, <5>1, <5>2, Settings
      <4> QED BY <4>3, <4>4
    <3> QED BY <3>1, <3>2
  <2>2. \A q \in Present(g) : h.base[q] = NoBase => q \in g.paused
    <3>1. \A q \in Present(g) : q \in Players /\ (g.base[q] = NoBase => q \in g.paused)
      BY <1>23 DEF Good, Seated, Present, Of
    <3>2. \A i \in 1 .. n : h.base[c[i]] # NoBase
      BY <1>5, <1>16, <2>1
    <3>3. h.base[p] # NoBase
      BY <1>5, <1>14, <2>1
    <3> QED BY <1>17, <1>19, <3>1, <3>2, <3>3
  <2>3. NoCircle(h)
    <3>1. ASSUME NEW u \in Teams PROVE ComesFrom(h, u) \in {NoTeam, ComesFrom(g, u)}
      <4>1. CASE h.swapper[u] = NoId
        BY <4>1 DEF ComesFrom
      <4>2. CASE h.swapper[u] # NoId
        <5> DEFINE r == g.swapper[u]
        <5>1. h.swapper[u] = r /\ r \in Players /\ r # p
          BY <1>22, <4>2, Fields DEF Basic
        <5>2. ASSUME NEW i \in 1 .. n, r = c[i] PROVE FALSE
          <6> DEFINE w == g.team[c[i - 1]]
          <6>1. g.swapper[w] = r /\ w \in Teams /\ h.swapper[w] = NoId /\ r # NoId
            BY <1>5, <1>6, <1>16, <4>2, <5>1, <5>2
          <6> HIDE DEF w
          <6>2. w = u
            BY <6>1 DEF Basic, Queues
          <6> QED BY <4>2, <6>1, <6>2
        <5> HIDE DEF r
        <5>3. \A i \in 0 .. n : c[i] # r
          BY <1>5, <1>6, <5>1, <5>2
        <5>4. h.team[r] = g.team[r]
          BY <1>17, <5>1, <5>3
        <5>5. r = g.swapper[u]
          BY DEF r
        <5> QED BY <4>2, <5>1, <5>4, <5>5 DEF ComesFrom
      <4> QED BY <4>1, <4>2
    <3> QED BY <1>13, <1>23, <3>1, NoCircleShrinks DEF Good
  <2> QED BY <2>2, <2>3
<1> QED BY <1>15, <1>20, <1>21, <1>22, <1>23, ReseatedKeeps

LEMMA TeamFullKeeps ==
    ASSUME options \in Options, Basic(game), game.server = "up", NEW p \in Players,
           NEW t \in Teams, TeamFull(p, t)
    PROVE  Basic(game') /\ Kept(game, game')
<1> DEFINE g == Unqueue(game, {p})
           h == [g EXCEPT !.swapper[t] = p]
           k == [g EXCEPT !.server = "looping"]
<1>1. /\ game.kind[p] = "human" /\ ~Refused(p, t)
      /\ \/ Endless(g, p, t) /\ game' = k
         \/ FirstMeeting(g, p, t) > 0 /\ game' = Rotate(g, p, t)
         \/ /\ ~Endless(g, p, t) /\ ~(FirstMeeting(g, p, t) > 0)
            /\ \/ \E q \in PausedIn(g, t) : game' = SwapWithPaused(g, p, q)
               \/ game' = h
  BY DEF TeamFull
<1>2. Fewer(game, g)
  BY UnqueueFewer
<1>3. /\ g.kind = game.kind /\ g.team = game.team /\ g.base = game.base
      /\ g.swapper = [u \in Teams |-> IF game.swapper[u] \in {p} THEN NoId ELSE game.swapper[u]]
  BY UnqueueEffect DEF Basic
<1> HIDE DEF g
<1>4. Basic(g) /\ g.server = "up" /\ g.kind[p] = "human"
  BY <1>1, <1>2, <1>3 DEF Fewer
<1>5. ~Reserved(t) /\ (g.base[p] # NoBase => g.team[p] # t)
  BY <1>1, <1>3 DEF Refused
<1>6. \A u \in Teams : g.swapper[u] # p
  BY <1>3, Settings
<1>7. FirstMeeting(g, p, t) \in Nat
  <2> DEFINE m == FirstMeeting(g, p, t)
  <2>1. m = FirstMeeting(g, p, t)
    OBVIOUS
  <2> HIDE DEF m
  <2>2. m # 0 => m \in 1 .. NumTeams + 1
    BY <1>4, <1>5, <1>6, <2>1, LineIs
  <2> QED BY <2>1, <2>2
<1>8. CASE Endless(g, p, t) /\ game' = k
  <2>1. k = [g EXCEPT !.server = "looping"] /\ "looping" \in Servers
    BY DEF Servers
  <2> HIDE DEF k
  <2>2. Basic(k) /\ k.server = "looping" /\ (NoCircle(g) => NoCircle(k))
    BY <1>4, <2>1, ServerStops
  <2>3. ASSUME Good(g) PROVE NoCircle(k) /\ Lasting(k)
    <3>1. NoCircle(g)
      BY <2>3 DEF Good
    <3>2. g.team[p] \in Teams
      BY <1>4 DEF Basic, Placed, Present, Of
    <3>3. BaselessPausing
      BY <1>4, <1>8, <3>1, <3>2, WayIsFinite DEF Endless
    <3> QED BY <2>2, <3>1, <3>3 DEF Lasting
  <2>4. Kept(g, k)
    BY <2>2, <2>3 DEF Kept
  <2> QED BY <1>2, <1>8, <2>2, <2>4, KeptStill
<1> HIDE DEF k
<1>9. CASE FirstMeeting(g, p, t) > 0 /\ game' = Rotate(g, p, t)
  <2>1. Basic(game') /\ Kept(g, game')
    BY <1>4, <1>5, <1>6, <1>7, <1>9, RotateKeeps
  <2> QED BY <1>2, <2>1, KeptStill
<1>10. CASE ~(FirstMeeting(g, p, t) > 0) /\ \E q \in PausedIn(g, t) : game' = SwapWithPaused(g, p, q)
  <2>1. FirstMeeting(g, p, t) = 0
    BY <1>7, <1>10
  <2>2. PICK q \in PausedIn(g, t) : game' = SwapWithPaused(g, p, q)
    BY <1>10
  <2>3. Basic(game') /\ Kept(g, game')
    BY <1>4, <1>5, <1>6, <2>1, <2>2, SwapKeeps
  <2> QED BY <1>2, <2>3, KeptStill
<1>11. CASE ~(FirstMeeting(g, p, t) > 0) /\ game' = h
  <2>1. FirstMeeting(g, p, t) = 0
    BY <1>7, <1>11
  <2>2. h = [g EXCEPT !.swapper[t] = p]
    OBVIOUS
  <2> HIDE DEF h
  <2>3. Basic(h) /\ Kept(g, h)
    BY <1>4, <1>5, <1>6, <2>1, <2>2, WaitKeeps
  <2> QED BY <1>2, <1>11, <2>3, KeptStill
<1> QED BY <1>1, <1>8, <1>9, <1>10, <1>11

-----------------------------------------------------------------------------
(* The invariant.                                                          *)

LEMMA InitKeeps == Init => IInv
<1> SUFFICES ASSUME Init PROVE IInv
  OBVIOUS
<1>1. options \in Options
  BY DEF Init
<1>2. /\ game \in Games /\ game.server = "up" /\ game.paused = {}
      /\ \A p \in Players : /\ game.kind[p] = "absent" /\ game.base[p] = NoBase
                            /\ game.prevTeam[p] = 0
      /\ \A t \in Teams : game.members[t] = 0 /\ game.robots[t] = 0 /\ game.swapper[t] = NoId
  BY <1>1, Settings DEF Init, Games, Kinds, Servers
<1>3. /\ Present(game) = {} /\ Of(game, "joining") = {} /\ Of(game, "robot") = {}
      /\ Of(game, "human") = {} /\ \A t \in Teams : Based(game, t) = {}
  BY <1>2 DEF Present, Of, Based
<1>4. Basic(game)
  BY <1>2, <1>3 DEF Basic, Placed, Queues
<1>5. NoCircle(game)
  <2>1. \A t \in Teams : ComesFrom(game, t) = NoTeam
    BY <1>2 DEF ComesFrom
  <2>2. \A S \in SUBSET Teams : S # {} => \E t \in S : ComesFrom(game, t) \notin S
    BY <1>1, <2>1, Settings
  <2> QED BY <1>2, <2>2 DEF NoCircle
<1>6. Good(game)
  <2>1. IsFiniteSet({}) /\ Cardinality({}) = 0
    BY FS_EmptySet
  <2>2. Counted(game)
    BY <1>2, <1>3, <2>1 DEF Counted
  <2>3. Owned(game)
    BY <1>3 DEF Owned
  <2>4. Seated(game)
    BY <1>2, <1>3 DEF Seated
  <2>5. Fits(game)
    <3>1. Present(game) \cup Of(game, "joining") = {}
      BY <1>3
    <3>2. Cardinality(Present(game) \cup Of(game, "joining")) = 0
      BY <2>1, <3>1
    <3>3. Len(BaseTeam) \in Nat
      BY <1>1, Settings
    <3>4. 0 <= Len(BaseTeam)
      BY <3>3
    <3> QED BY <3>2, <3>4 DEF Fits
  <2>6. RobotsStay(game)
    BY <1>3 DEF RobotsStay
  <2> QED BY <1>5, <2>2, <2>3, <2>4, <2>5, <2>6 DEF Good
<1> QED BY <1>1, <1>2, <1>4, <1>5, <1>6 DEF IInv, Lasting

\* What is kept of the next game is kept in the next state.
LEMMA KeptNext ==
    ASSUME IInv, UNCHANGED options, Basic(game'),
           BasesKept => /\ NoCircle(game') /\ (game'.server = "up" => Good(game'))
                        /\ RobotsApart => Lasting(game')
    PROVE  IInv'
<1>1. /\ BasesKept' = BasesKept /\ RobotsApart' = RobotsApart
      /\ BaselessPausing' = BaselessPausing /\ NumTeams' = NumTeams
  BY DEF BasesKept, RobotsApart, Reserved, BaselessPausing, ReserveRobotTeam, LimitedLives,
     RobotTeam, RestrictRobots, MinRobots, MaxRobots
<1>2. options' \in Options /\ Basic(game)'
  BY DEF IInv, Basic, Games, Bases, BaseTeam, Placed, Queues, Present, Of
<1>3. NoCircle(game') => NoCircle(game)'
  BY <1>1 DEF NoCircle, ComesFrom
<1>4. Good(game') => Good(game)'
  <2>1. Counted(game') => Counted(game)'
    BY DEF Counted, Based, Present, Of
  <2>2. Owned(game') => Owned(game)'
    BY DEF Owned, Present, Of, BaseTeam
  <2>3. Seated(game') => Seated(game)'
    BY DEF Seated, Present, Of, Reserved, ReserveRobotTeam, RobotTeam
  <2>4. Fits(game') => Fits(game)'
    BY DEF Fits, Present, Of, BaselessPausing, BaseTeam
  <2>5. RobotsStay(game') => RobotsStay(game)'
    BY DEF RobotsStay, Of, RestrictRobots, RobotTeam, MinRobots, MaxRobots
  <2> QED BY <1>3, <2>1, <2>2, <2>3, <2>4, <2>5 DEF Good
<1>5. Lasting(game') => Lasting(game)'
  BY <1>1 DEF Lasting
<1> QED BY <1>1, <1>2, <1>3, <1>4, <1>5 DEF IInv

LEMMA NextKeeps == IInv /\ [Next]_vars => IInv'
<1> SUFFICES ASSUME IInv, [Next]_vars PROVE IInv'
  OBVIOUS
<1>1. options \in Options /\ Basic(game)
  BY DEF IInv
<1>2. CASE Next
  <2>1. game.server = "up" /\ UNCHANGED options
    BY <1>2 DEF Next
  <2>2. PICK p \in Players :
          \/ \E wish \in Teams \cup {NoTeam} : Admit(p, wish)
          \/ GiveUpLogin(p)
          \/ Login(p)
          \/ Leave(p)
          \/ RobotCreate(p)
          \/ RobotRemove(p)
          \/ Pause(p)
          \/ Unpause(p)
          \/ \E b \in Bases : ChangeHome(p, b)
          \/ \E t \in Teams : TeamRefused(p, t)
          \/ \E t \in Teams : TeamFree(p, t)
          \/ \E t \in Teams : TeamFull(p, t)
    BY <1>2, Zenon DEF Next
  <2>3. Basic(game') /\ Kept(game, game')
    <3>1. CASE \E wish \in Teams \cup {NoTeam} : Admit(p, wish)
      BY <1>1, <2>1, <3>1, AdmitKeeps
    <3>2. CASE GiveUpLogin(p)
      BY <1>1, <2>1, <3>2, GiveUpLoginKeeps
    <3>3. CASE Login(p)
      BY <1>1, <2>1, <3>3, HandleLoginKeeps
    <3>4. CASE Leave(p)
      BY <1>1, <2>1, <3>4, DeleteKeeps DEF Leave
    <3>5. CASE RobotCreate(p)
      BY <1>1, <2>1, <3>5, RobotCreateKeeps
    <3>6. CASE RobotRemove(p)
      BY <1>1, <2>1, <3>6, DeleteKeeps DEF RobotRemove
    <3>7. CASE Pause(p)
      BY <1>1, <2>1, <3>7, PauseKeeps
    <3>8. CASE Unpause(p)
      BY <1>1, <2>1, <3>8, UnpauseKeeps
    <3>9. CASE \E b \in Bases : ChangeHome(p, b)
      BY <1>1, <2>1, <3>9, ChangeHomeKeeps
    <3>10. CASE \E t \in Teams : TeamRefused(p, t)
      BY <1>1, <2>1, <3>10, TeamRefusedKeeps
    <3>11. CASE \E t \in Teams : TeamFree(p, t)
      BY <1>1, <2>1, <3>11, TeamFreeKeeps
    <3>12. CASE \E t \in Teams : TeamFull(p, t)
      BY <1>1, <2>1, <3>12, TeamFullKeeps
    <3> QED BY <2>2, <3>1, <3>2, <3>3, <3>4, <3>5, <3>6, <3>7, <3>8, <3>9, <3>10, <3>11, <3>12
  <2>4. BasesKept => Good(game)
    BY <2>1 DEF IInv
  <2> QED BY <2>1, <2>3, <2>4, KeptNext DEF Kept
<1>3. CASE UNCHANGED vars
  <2>1. options' = options /\ game' = game
    BY <1>3 DEF vars
  <2>2. Basic(game')
    BY <1>1, <2>1
  <2>3. BasesKept => /\ NoCircle(game') /\ (game'.server = "up" => Good(game'))
                     /\ RobotsApart => Lasting(game')
    BY <2>1 DEF IInv
  <2> QED BY <2>1, <2>2, <2>3, KeptNext
<1> QED BY <1>2, <1>3

THEOREM RosterInductive == Spec => []IInv
BY InitKeeps, NextKeeps, PTL DEF Spec

\* Where everybody is to get a base and robots keep to their team, no sequence of
\* logins, kicks, pauses and team changes makes the server end, abort or crash
\* (Pick_startpos(), Robot_create(), Pause_player()), nor search for ever (Cmd_team())
\* but for players who wait in queues without a base.
THEOREM RosterKeepsRunning == Spec => []KeepsRunning
<1>1. IInv => KeepsRunning
  BY DEF IInv, KeepsRunning, Lasting
<1> QED BY <1>1, RosterInductive, PTL

\* A team's NumMembers and NumRobots are those who hold its bases, and nobody holds
\* the base of another, whatever handlers count up and down.
THEOREM MembersAlwaysCounted == Spec => []MembersCounted
<1>1. IInv => MembersCounted
  BY DEF IInv, MembersCounted, Good, Counted, Owned
<1> QED BY <1>1, RosterInductive, PTL

\* Who is in the game and not paused has a base to start from.
THEOREM ActiveAlwaysHaveBase == Spec => []ActiveHaveBase
<1>1. IInv => ActiveHaveBase
  BY DEF IInv, ActiveHaveBase, Good, Seated, Active
<1> QED BY <1>1, RosterInductive, PTL

\* Who waits for a place in a team (SwapperId) is a player, in one queue only; and
\* where everybody keeps his base, also while he pauses, circles of waiting players
\* never form, so that the search of Cmd_team() ends (command.c:1169).
THEOREM QueuesAlwaysSound == Spec => []QueueSound
<1>1. IInv => QueueSound
  <2> SUFFICES ASSUME IInv PROVE QueueSound
    OBVIOUS
  <2>1. \A t \in Teams : game.swapper[t] # NoId =>
            /\ game.kind[game.swapper[t]] = "human"
            /\ \A u \in Teams \ {t} : game.swapper[u] # game.swapper[t]
    BY DEF IInv, Basic, Queues
  <2>2. BasesKept /\ ~BaselessPausing =>
            \A S \in (SUBSET Teams) \ {{}} : \E t \in S : ComesFrom(game, t) \notin S
    BY DEF IInv, NoCircle
  <2> QED BY <2>1, <2>2 DEF QueueSound
<1> QED BY <1>1, RosterInductive, PTL

-----------------------------------------------------------------------------
(* Who is moved into another team.                                         *)

\* Nobody in the game but p has got another team.
OthersStay(g, h, p) ==
    \A q \in Present(h) \ {p} : h.team[q] = g.team[q]

\* Nobody who plays, but p, has got another team than he waited for.
ByWill(g, h, p) ==
    \A q \in (Active(g) \cap Active(h)) \ {p} :
        h.team[q] = g.team[q] \/ g.swapper[h.team[q]] = q

LEMMA StayByWill ==
    ASSUME NEW g, NEW h, NEW p, OthersStay(g, h, p)
    PROVE  ByWill(g, h, p)
BY DEF OthersStay, ByWill, Active

LEMMA FewerStay ==
    ASSUME NEW g, NEW h, Fewer(g, h), NEW p
    PROVE  OthersStay(g, h, p)
BY DEF Fewer, OthersStay, Present, Of

LEMMA FewerThenStay ==
    ASSUME NEW g, NEW h, Fewer(g, h), NEW k, NEW p, OthersStay(h, k, p),
           \A q \in Players \ {p} : k.kind[q] = h.kind[q]
    PROVE  OthersStay(g, k, p)
BY DEF Fewer, OthersStay, Present, Of

LEMMA AdmitStays ==
    ASSUME options \in Options, Basic(game), NEW p \in Players,
           NEW wish \in Teams \cup {NoTeam}, Admit(p, wish)
    PROVE  OthersStay(game, game', p)
<1>1. PICK h : /\ Fewer(game, h)
               /\ \/ game' = h
                  \/ /\ Room(h)
                     /\ \E t \in Teams \cup {NoTeam} :
                           game' = [h EXCEPT !.kind[p] = "joining", !.team[p] = t]
  BY AdmitIs
<1>2. CASE game' = h
  BY <1>1, <1>2, FewerStay
<1>3. ASSUME NEW t \in Teams \cup {NoTeam},
             game' = [h EXCEPT !.kind[p] = "joining", !.team[p] = t]
      PROVE  OthersStay(game, game', p)
  <2>1. \A q \in Players \ {p} : game'.kind[q] = h.kind[q] /\ game'.team[q] = h.team[q]
    BY <1>1, <1>3 DEF Fewer, Basic, Games
  <2>2. OthersStay(h, game', p)
    BY <2>1 DEF OthersStay, Present, Of
  <2> QED BY <1>1, <2>1, <2>2, FewerThenStay
<1> QED BY <1>1, <1>2, <1>3

LEMMA GiveUpLoginStays ==
    ASSUME Basic(game), NEW p \in Players, GiveUpLogin(p)
    PROVE  OthersStay(game, game', p)
BY DEF GiveUpLogin, Basic, Games, OthersStay, Present, Of

LEMMA EnterStays ==
    ASSUME options \in Options, NEW g, Basic(g), NEW p \in Players, NEW t \in Teams \cup {NoTeam}
    PROVE  \A q \in Players \ {p} : /\ Enter(g, p, t).kind[q] = g.kind[q]
                                    /\ Enter(g, p, t).team[q] = g.team[q]
<1> DEFINE human == [g EXCEPT !.kind[p] = "human"]
           i == [human EXCEPT !.team[p] = t]
           j == PickStartpos(i, p)
           b == [j EXCEPT !.members[t] = @ + 1]
           a == [human EXCEPT !.team[p] = 0, !.paused = @ \cup {p}]
<1>1. Enter(g, p, t) = IF t = NoTeam THEN a ELSE b
  BY DEF Enter
<1>2. /\ i \in Games /\ i.kind = [g.kind EXCEPT ![p] = "human"] /\ i.team = [g.team EXCEPT ![p] = t]
      /\ a.kind = [g.kind EXCEPT ![p] = "human"] /\ a.team = [g.team EXCEPT ![p] = 0]
  BY DEF Basic, Games, Kinds
<1>3. g.kind \in [Players -> Kinds] /\ g.team \in [Players -> Teams \cup {NoTeam}]
  BY Fields DEF Basic
<1> HIDE DEF a, i
<1>4. j \in Games /\ j.kind = i.kind /\ j.team = i.team
  BY <1>2, PickStartposEffect DEF Started, SameBut
<1> HIDE DEF j
<1>5. b.kind = j.kind /\ b.team = j.team
  BY <1>4 DEF Games
<1> HIDE DEF b
<1> QED BY <1>1, <1>2, <1>3, <1>4, <1>5

LEMMA HandleLoginStays ==
    ASSUME options \in Options, Basic(game), NEW p \in Players, Login(p)
    PROVE  OthersStay(game, game', p)
<1> DEFINE wish == game.team[p]
           g == IF wish # NoTeam /\ ~Reserved(wish) /\ NumBases(wish) > 0
                THEN CheckTeamMembers(game, wish) ELSE game
<1>1. wish \in Teams \cup {NoTeam}
  BY Fields DEF Basic
<1>2. Fewer(game, g)
  <2>1. Fewer(game, game)
    BY DEF Fewer
  <2>2. wish \in Teams => Fewer(game, CheckTeamMembers(game, wish))
    BY CheckFewer
  <2> QED BY <1>1, <2>1, <2>2
<1>3. PICK t \in IF StillFits(g, wish) THEN {wish} ELSE PickTeam(g, FALSE) : game' = Enter(g, p, t)
  BY DEF Login
<1>4. t \in Teams \cup {NoTeam}
  BY <1>1, <1>3, PickTeamTyped
<1> HIDE DEF g
<1>5. \A q \in Players \ {p} : game'.kind[q] = g.kind[q] /\ game'.team[q] = g.team[q]
  BY <1>2, <1>3, <1>4, EnterStays DEF Fewer
<1>6. OthersStay(g, game', p)
  BY <1>5 DEF OthersStay, Present, Of
<1> QED BY <1>2, <1>5, <1>6, FewerThenStay

LEMMA DeleteStays ==
    ASSUME options \in Options, Basic(game), NEW p \in Players, game' = DeletePlayer(game, p)
    PROVE  OthersStay(game, game', p)
<1>1. {p} \in SUBSET Players /\ game' = DeletePlayers(game, {p})
  BY DEF DeletePlayer
<1> QED BY <1>1, DeleteFewer, FewerStay

LEMMA RobotCreateStays ==
    ASSUME options \in Options, Basic(game), NEW p \in Players, RobotCreate(p)
    PROVE  OthersStay(game, game', p)
<1>1. PICK t \in PickTeam(game, TRUE) :
          game' = IF t = NoTeam THEN [game EXCEPT !.server = "aborted"]
                  ELSE PickStartpos([game EXCEPT !.kind[p] = "robot", !.team[p] = t,
                                         !.members[t] = @ + 1, !.robots[t] = @ + 1], p)
  BY DEF RobotCreate
<1>2. t \in Teams \cup {NoTeam}
  BY PickTeamTyped
<1>3. CASE t = NoTeam
  BY <1>1, <1>3 DEF Basic, Games, OthersStay
<1>4. CASE t # NoTeam
  <2> DEFINE i1 == [game EXCEPT !.kind[p] = "robot", !.team[p] = t]
             i2 == [i1 EXCEPT !.members[t] = @ + 1]
             i == [i2 EXCEPT !.robots[t] = @ + 1]
  <2>1. game' = PickStartpos(i, p) /\ t \in Teams
    BY <1>1, <1>2, <1>4
  <2>2. i1 \in Games /\ i1.team = [game.team EXCEPT ![p] = t]
    BY <1>2 DEF Basic, Games, Kinds
  <2> HIDE DEF i1
  <2>3. i2 \in Games /\ i2.team = i1.team
    BY <2>1, <2>2 DEF Games
  <2> HIDE DEF i2
  <2>4. i \in Games /\ i.team = i2.team
    BY <2>1, <2>3 DEF Games
  <2> HIDE DEF i
  <2>5. game'.team = i.team
    BY <2>1, <2>4, PickStartposEffect DEF Started, SameBut
  <2>6. game.team \in [Players -> Teams \cup {NoTeam}]
    BY Fields DEF Basic
  <2>7. \A q \in Players \ {p} : game'.team[q] = game.team[q]
    BY <2>2, <2>3, <2>4, <2>5, <2>6
  <2> QED BY <2>7 DEF OthersStay, Present, Of
<1> QED BY <1>3, <1>4

LEMMA PauseStays ==
    ASSUME options \in Options, Basic(game), NEW p \in Players, Pause(p)
    PROVE  OthersStay(game, game', p)
<1> DEFINE t     == game.team[p]
           i     == [game EXCEPT !.swapper[t] = NoId, !.paused = @ \cup {p}]
           quiet == Unqueue(i, {p})
           away  == [quiet EXCEPT !.members[t] = @ - 1, !.prevTeam[p] = t,
                                  !.team[p] = 0, !.base[p] = NoBase]
<1>1. \/ game' = quiet
      \/ game' = [game EXCEPT !.server = "crashed"]
      \/ game' = away
  BY DEF Pause
<1>2. i.team = game.team
  BY DEF Basic, Games
<1> HIDE DEF i
<1>3. quiet.team = game.team
  BY <1>2 DEF Unqueue
<1> HIDE DEF quiet
<1>4. \A q \in Players \ {p} : away.team[q] = quiet.team[q]
  OBVIOUS
<1> HIDE DEF away
<1>5. [game EXCEPT !.server = "crashed"].team = game.team
  BY DEF Basic, Games
<1> QED BY <1>1, <1>3, <1>4, <1>5 DEF OthersStay, Present, Of

LEMMA MoveStays ==
    ASSUME options \in Options, NEW g, Basic(g), NEW p \in Present(g), NEW t \in Teams,
           g.base[p] # NoBase => g.team[p] # t
    PROVE  /\ MoveTo(g, p, t) \in Games
           /\ \A q \in Players \ {p} : MoveTo(g, p, t).team[q] = g.team[q]
<1> DEFINE m == MoveTo(g, p, t)
<1>1. PICK i : Moving(g, p, t, i) /\ m = PickStartpos(SetSwapperState(i, p), p)
  BY MovingIs
<1> DEFINE j == SetSwapperState(i, p)
<1>2. p \in Players /\ i \in Games /\ i.team = [g.team EXCEPT ![p] = t]
  BY <1>1 DEF Moving, Present, Of
<1>3. j \in Games /\ j.team = i.team
  BY <1>2, SetSwapperEffect DEF SameBut
<1>4. m = PickStartpos(j, p)
  BY <1>1
<1> HIDE DEF j, m
<1>5. m \in Games /\ m.team = j.team
  BY <1>2, <1>3, <1>4, PickStartposEffect DEF Started, SameBut
<1>6. g.team \in [Players -> Teams \cup {NoTeam}]
  BY Fields DEF Basic
<1>7. \A q \in Players \ {p} : m.team[q] = g.team[q]
  BY <1>2, <1>3, <1>5, <1>6
<1> QED BY <1>5, <1>7 DEF m

LEMMA UnpauseStays ==
    ASSUME options \in Options, Basic(game), NEW p \in Players, Unpause(p)
    PROVE  OthersStay(game, game', p)
<1> DEFINE t == game.prevTeam[p]
           m == MoveTo(game, p, t)
<1>1. \/ game' = [game EXCEPT !.paused = @ \ {p}]
      \/ game.base[p] = NoBase /\ game' = [m EXCEPT !.paused = @ \ {p}]
  BY DEF Unpause
<1>2. p \in Present(game) /\ t \in Teams
  BY Fields DEF Unpause, Basic, Placed, Present, Of
<1>3. CASE game' = [game EXCEPT !.paused = @ \ {p}]
  BY <1>3, UnpausedAre DEF Basic, SameBut, OthersStay
<1>4. CASE game.base[p] = NoBase /\ game' = [m EXCEPT !.paused = @ \ {p}]
  <2> HIDE DEF t
  <2>1. m \in Games /\ \A q \in Players \ {p} : m.team[q] = game.team[q]
    BY <1>2, <1>4, MoveStays
  <2> HIDE DEF m
  <2>2. game'.team = m.team
    BY <1>4, <2>1, UnpausedAre DEF SameBut
  <2> QED BY <2>1, <2>2 DEF OthersStay, Present, Of
<1> QED BY <1>1, <1>3, <1>4

LEMMA ChangeHomeStays ==
    ASSUME options \in Options, Basic(game), NEW p \in Players, NEW b \in Bases, ChangeHome(p, b)
    PROVE  OthersStay(game, game', p)
<1> DEFINE g == [game EXCEPT !.base[p] = b]
<1>1. game' = g \/ \E q \in Present(game) : game' = PickStartpos(g, q)
  BY DEF ChangeHome
<1>2. g \in Games /\ g.team = game.team
  BY DEF Basic, Games
<1> HIDE DEF g
<1>3. ASSUME NEW q \in Present(game), game' = PickStartpos(g, q) PROVE game'.team = g.team
  <2>1. q \in Players
    BY DEF Present, Of
  <2> QED BY <1>2, <1>3, <2>1, PickStartposEffect DEF Started, SameBut
<1>4. game'.team = game.team
  BY <1>1, <1>2, <1>3
<1> QED BY <1>4 DEF OthersStay

LEMMA TeamRefusedStays ==
    ASSUME options \in Options, Basic(game), NEW p \in Players, NEW t \in Teams, TeamRefused(p, t)
    PROVE  OthersStay(game, game', p)
BY UnqueueFewer, FewerStay DEF TeamRefused

LEMMA TeamFreeStays ==
    ASSUME options \in Options, Basic(game), NEW p \in Players, NEW t \in Teams, TeamFree(p, t)
    PROVE  OthersStay(game, game', p)
<1> DEFINE g == Unqueue(game, {p})
           m == MoveTo(g, p, t)
<1>1. /\ game.kind[p] = "human" /\ ~Refused(p, t)
      /\ game' = m \/ game' = [m EXCEPT !.paused = @ \ {p}]
  BY DEF TeamFree
<1>2. Basic(g) /\ g.kind = game.kind /\ g.team = game.team /\ g.base = game.base
  BY UnqueueBasic, UnqueueEffect DEF Basic
<1> HIDE DEF g
<1>3. p \in Present(g) /\ (g.base[p] # NoBase => g.team[p] # t)
  BY <1>1, <1>2 DEF Refused, Present, Of
<1>4. m \in Games /\ \A q \in Players \ {p} : m.team[q] = game.team[q]
  BY <1>2, <1>3, MoveStays
<1> HIDE DEF m
<1>5. [m EXCEPT !.paused = @ \ {p}].team = m.team
  BY <1>4, UnpausedAre DEF SameBut
<1>6. game'.team = m.team
  BY <1>1, <1>5
<1> QED BY <1>4, <1>6 DEF OthersStay, Present, Of

\* Who waits behind another, and is moved for it, waited for that very team.
LEMMA RotateByWill ==
    ASSUME options \in Options, NEW g, Basic(g), NEW p \in Players,
           g.kind[p] = "human", \A u \in Teams : g.swapper[u] # p, NEW t \in Teams,
           g.base[p] # NoBase => g.team[p] # t, FirstMeeting(g, p, t) # 0,
           NEW h, h = Rotate(g, p, t)
    PROVE  ByWill(g, h, p)
<1> DEFINE n == FirstMeeting(g, p, t)
<1>1. n = FirstMeeting(g, p, t) /\ n # 0
  OBVIOUS
<1> HIDE DEF n
<1>2. PICK c : Line(g, p, t, c, n) /\ \A i \in 0 .. n : Way(g, g.team[p])[i] = g.team[c[i]]
  BY <1>1, LineIs
<1>3. PICK x : /\ Turned(g, x, c, n)
               /\ h = SetSwapperState([x EXCEPT !.team[p] = t, !.base[p] = g.base[c[n]]], p)
  <2>1. Rotated(g, h, p, t, c, n)
    BY <1>1, <1>2, RotateTurns
  <2> QED BY <2>1, Zenon DEF Rotated
<1> DEFINE b == g.base[c[n]]
           z == [x EXCEPT !.team[p] = t, !.base[p] = b]
<1>4. b \in Bases \cup {NoBase} /\ x \in Games
  <2>1. c[n] \in Players /\ x \in Games
    BY <1>2, <1>3 DEF Line, Turned
  <2> QED BY <2>1, Fields DEF Basic
<1>5. h = SetSwapperState(z, p)
  BY <1>3
<1> HIDE DEF b
<1>6. z \in Games /\ z.team = [x.team EXCEPT ![p] = t]
  BY <1>4 DEF Games
<1> HIDE DEF z
<1>7. h.team = z.team
  BY <1>5, <1>6, SetSwapperEffect DEF SameBut
<1>8. \A q \in Players \ {p} : h.team[q] = x.team[q]
  <2>1. x.team \in [Players -> Teams \cup {NoTeam}]
    BY <1>4, Fields
  <2> QED BY <1>6, <1>7, <2>1
<1>9. ASSUME NEW q \in Players \ {p} PROVE h.team[q] = g.team[q] \/ g.swapper[h.team[q]] = q
  <2>1. CASE \E i \in 1 .. n : q = c[i]
    <3>1. PICK i \in 1 .. n : q = c[i]
      BY <2>1
    <3>2. x.team[q] = g.team[c[i - 1]]
      BY <1>3, <3>1 DEF Turned
    <3>3. g.swapper[g.team[c[i - 1]]] = q
      BY <1>2, <3>1 DEF Line
    <3> QED BY <1>8, <3>2, <3>3
  <2>2. CASE \A i \in 1 .. n : q # c[i]
    <3>1. x.team[q] = g.team[q]
      BY <1>3, <2>2 DEF Turned
    <3> QED BY <1>8, <3>1
  <2> QED BY <2>1, <2>2
<1> QED BY <1>9 DEF ByWill, Active, Present, Of

\* Who has to give his base away is paused.
LEMMA SwapByWill ==
    ASSUME NEW g, Basic(g), NEW p \in Players, NEW t \in Teams, NEW q \in PausedIn(g, t),
           NEW h, h = SwapWithPaused(g, p, q)
    PROVE  ByWill(g, h, p)
<1> DEFINE i1 == [g EXCEPT !.team[q] = g.team[p], !.team[p] = g.team[q]]
           i2 == [i1 EXCEPT !.base[q] = g.base[p]]
           i == [i2 EXCEPT !.base[p] = g.base[q]]
           j == SetSwapperState(i, q)
<1>1. h = SetSwapperState(j, p)
  BY DEF SwapWithPaused
<1>2. q \in Players /\ q \in g.paused
  BY Fields DEF PausedIn, Basic
<1>3. /\ g.team \in [Players -> Teams \cup {NoTeam}] /\ g.base \in [Players -> Bases \cup {NoBase}]
      /\ g \in Games
  BY Fields DEF Basic
<1>4. /\ i1 \in Games /\ i1.team = [g.team EXCEPT ![q] = g.team[p], ![p] = g.team[q]]
  BY <1>2, <1>3 DEF Games
<1> HIDE DEF i1
<1>5. i2 \in Games /\ i2.team = i1.team
  BY <1>2, <1>3, <1>4 DEF Games
<1> HIDE DEF i2
<1>6. i \in Games /\ i.team = i2.team
  BY <1>2, <1>3, <1>5 DEF Games
<1> HIDE DEF i
<1>7. j \in Games /\ j.team = i.team
  BY <1>2, <1>6, SetSwapperEffect DEF SameBut
<1> HIDE DEF j
<1>8. h.team = j.team
  BY <1>1, <1>7, SetSwapperEffect DEF SameBut
<1>9. \A r \in Players \ {p, q} : h.team[r] = g.team[r]
  BY <1>3, <1>4, <1>5, <1>6, <1>7, <1>8
<1> QED BY <1>2, <1>9 DEF ByWill, Active, Present, Of

LEMMA TeamFullByWill ==
    ASSUME options \in Options, Basic(game), game.server = "up", NEW p \in Players,
           NEW t \in Teams, TeamFull(p, t)
    PROVE  ByWill(game, game', p)
<1> DEFINE g == Unqueue(game, {p})
<1>1. /\ game.kind[p] = "human" /\ ~Refused(p, t)
      /\ \/ game' = [g EXCEPT !.server = "looping"]
         \/ FirstMeeting(g, p, t) > 0 /\ game' = Rotate(g, p, t)
         \/ \E q \in PausedIn(g, t) : game' = SwapWithPaused(g, p, q)
         \/ game' = [g EXCEPT !.swapper[t] = p]
  BY DEF TeamFull
<1>2. /\ Basic(g) /\ g.kind = game.kind /\ g.team = game.team /\ g.base = game.base
      /\ g.paused = game.paused
      /\ g.swapper = [u \in Teams |-> IF game.swapper[u] \in {p} THEN NoId ELSE game.swapper[u]]
  BY UnqueueBasic, UnqueueEffect DEF Basic
<1> HIDE DEF g
<1>3. g.kind[p] = "human" /\ (g.base[p] # NoBase => g.team[p] # t) /\ \A u \in Teams : g.swapper[u] # p
  BY <1>1, <1>2, Settings DEF Refused
<1>4. ByWill(g, game', p)
  <2>1. CASE FirstMeeting(g, p, t) > 0 /\ game' = Rotate(g, p, t)
    BY <1>2, <1>3, <2>1, RotateByWill
  <2>2. CASE \E q \in PausedIn(g, t) : game' = SwapWithPaused(g, p, q)
    BY <1>2, <2>2, SwapByWill
  <2>3. CASE game' = [g EXCEPT !.server = "looping"] \/ game' = [g EXCEPT !.swapper[t] = p]
    <3>1. game'.team = g.team
      BY <1>2, <2>3 DEF Basic, Games
    <3> QED BY <3>1 DEF ByWill
  <2> QED BY <1>1, <2>1, <2>2, <2>3
<1>5. Active(g) = Active(game)
  BY <1>2 DEF Active, Present, Of
<1>6. ASSUME NEW q \in Active(game'), g.swapper[game'.team[q]] = q
      PROVE  game.swapper[game'.team[q]] = q
  <2>1. game'.team[q] \in Teams /\ q \in Players
    BY TeamFullKeeps DEF Active, Basic, Placed, Present, Of
  <2> QED BY <1>2, <1>6, <2>1, Settings
<1> QED BY <1>2, <1>4, <1>5, <1>6 DEF ByWill

LEMMA NextByWill ==
    ASSUME IInv, Next
    PROVE  \E p \in Players : ByWill(game, game', p)
<1>1. options \in Options /\ Basic(game) /\ game.server = "up"
  BY DEF IInv, Next
<1>2. PICK p \in Players :
          \/ \E wish \in Teams \cup {NoTeam} : Admit(p, wish)
          \/ GiveUpLogin(p)
          \/ Login(p)
          \/ Leave(p)
          \/ RobotCreate(p)
          \/ RobotRemove(p)
          \/ Pause(p)
          \/ Unpause(p)
          \/ \E b \in Bases : ChangeHome(p, b)
          \/ \E t \in Teams : TeamRefused(p, t)
          \/ \E t \in Teams : TeamFree(p, t)
          \/ \E t \in Teams : TeamFull(p, t)
  BY Zenon DEF Next
<1>3. CASE \E wish \in Teams \cup {NoTeam} : Admit(p, wish)
  BY <1>1, <1>3, AdmitStays, StayByWill
<1>4. CASE GiveUpLogin(p)
  BY <1>1, <1>4, GiveUpLoginStays, StayByWill
<1>5. CASE Login(p)
  BY <1>1, <1>5, HandleLoginStays, StayByWill
<1>6. CASE Leave(p) \/ RobotRemove(p)
  BY <1>1, <1>6, DeleteStays, StayByWill DEF Leave, RobotRemove
<1>7. CASE RobotCreate(p)
  BY <1>1, <1>7, RobotCreateStays, StayByWill
<1>8. CASE Pause(p)
  BY <1>1, <1>8, PauseStays, StayByWill
<1>9. CASE Unpause(p)
  BY <1>1, <1>9, UnpauseStays, StayByWill
<1>10. CASE \E b \in Bases : ChangeHome(p, b)
  BY <1>1, <1>10, ChangeHomeStays, StayByWill
<1>11. CASE \E t \in Teams : TeamRefused(p, t)
  BY <1>1, <1>11, TeamRefusedStays, StayByWill
<1>12. CASE \E t \in Teams : TeamFree(p, t)
  BY <1>1, <1>12, TeamFreeStays, StayByWill
<1>13. CASE \E t \in Teams : TeamFull(p, t)
  BY <1>1, <1>13, TeamFullByWill
<1> QED BY <1>2, <1>3, <1>4, <1>5, <1>6, <1>7, <1>8, <1>9, <1>10, <1>11, <1>12, <1>13

\* Whatever handler runs, at most one of those who play, whose command it is, gets
\* into a team he did not wait for (Cmd_team(), the swap along the queues of
\* SwapperId): the others are paused or had asked for it.
THEOREM OnlyMovedByWill == Spec => MovedByWill
<1> DEFINE moved == {p \in Active(game) \cap Active(game)' :
                       /\ game'.team[p] # game.team[p]
                       /\ game.swapper[game'.team[p]] # p}
<1>1. IInv /\ [Next]_vars => [Cardinality(moved) <= 1]_vars
  <2> SUFFICES ASSUME IInv, Next PROVE Cardinality(moved) <= 1
    OBVIOUS
  <2>1. PICK p \in Players : ByWill(game, game', p)
    BY NextByWill
  <2>2. Active(game)' = Active(game')
    BY DEF Active, Present, Of
  <2>3. moved \subseteq {p}
    BY <2>1, <2>2 DEF ByWill
  <2> HIDE DEF moved
  <2>4. IsFiniteSet({p}) /\ Cardinality({p}) = 1
    BY FS_Singleton
  <2>5. Cardinality(moved) <= Cardinality({p}) /\ Cardinality(moved) \in Nat
    BY <2>3, <2>4, FS_Subset, FS_CardinalityType
  <2> QED BY <2>4, <2>5
<1> HIDE DEF moved
<1>2. [][Cardinality(moved) <= 1]_vars => MovedByWill
  BY DEF MovedByWill, moved
<1> QED BY <1>1, <1>2, RosterInductive, PTL DEF Spec
=============================================================================

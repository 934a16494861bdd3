---------------------------- MODULE RoundsProofs ----------------------------
(***************************************************************************)
(* Whatever happens in a frame and between two, the sets that a world      *)
(* names stay sets of players and balls that are there, balls are carried  *)
(* and owned by players of the game, and who is out of a round stays out   *)
(* until the next one begins, which is in time.                            *)
(*                                                                         *)
(* A world is sound before and after each function of the code, or it is   *)
(* said what is missing: who has just died still has to let go of balls,   *)
(* and HAS_BALL is wrong from when Reset_all_players has cleared it until  *)
(* the balls are made again.  Loops are folds over sets: what holds of a   *)
(* world when a part of the set is done is shown for all parts.  What a    *)
(* function does to rounds is either that it leaves them alone and brings  *)
(* nobody back (Falls), or that it ends one (Ends).  No function takes a   *)
(* ball that will be made again and still counts as left (Saves).          *)
(***************************************************************************)
EXTENDS Rounds, FiniteSetTheorems, WellFoundedInduction, TLAPS

-----------------------------------------------------------------------------
(* Folds.                                                                  *)

LEMMA LeastNumber ==
    ASSUME NEW T \in SUBSET Nat, T # {}
    PROVE  \E n \in T : \A m \in T : n <= m
<1> DEFINE R == {ss \in Nat \X Nat : ss[1] < ss[2]}
<1>1. IsWellFoundedOn(R, Nat)
  BY NatLessThanWellFounded DEF OpToRel
<1>2. PICK n \in T : \A m \in T : ~(<<m, n>> \in R)
  BY <1>1, WFMin
<1>3. \A m \in T : ~(m < n)
  BY <1>2
<1> QED BY <1>3

\* The member that a fold takes first.
First(s) == CHOOSE x \in s : TRUE

LEMMA FirstIn ==
    ASSUME NEW s, s # {}
    PROVE  First(s) \in s
BY DEF First

\* What holds of the empty set, and of a set when it does without its first
\* member, holds of all subsets of a finite set.
LEMMA SubsetInduction ==
    ASSUME NEW S, IsFiniteSet(S), NEW G, {} \in G,
           \A s \in SUBSET S : s # {} /\ s \ {First(s)} \in G => s \in G
    PROVE  SUBSET S \subseteq G
<1> DEFINE N == {n \in Nat : \E s \in SUBSET S : s \notin G /\ Cardinality(s) = n}
<1> SUFFICES ASSUME NEW u \in SUBSET S, u \notin G PROVE FALSE
  OBVIOUS
<1>1. \A s \in SUBSET S : IsFiniteSet(s) /\ Cardinality(s) \in Nat
  BY FS_Subset, FS_CardinalityType
<1>2. N # {}
  BY <1>1
<1>3. PICK n \in N : \A m \in N : n <= m
  <2> HIDE DEF N
  <2>1. N \in SUBSET Nat
    BY DEF N
  <2> QED BY <1>2, <2>1, LeastNumber
<1>4. PICK s \in SUBSET S : s \notin G /\ Cardinality(s) = n
  OBVIOUS
<1>5. s # {} /\ First(s) \in s
  BY <1>4, FirstIn
<1>6. Cardinality(s \ {First(s)}) = Cardinality(s) - 1
  BY <1>1, <1>5, FS_RemoveElement
<1>7. s \ {First(s)} \in SUBSET S /\ s \ {First(s)} \notin G
  BY <1>4, <1>5
<1>8. n - 1 \in N
  BY <1>1, <1>4, <1>6, <1>7
<1> QED BY <1>3, <1>8

\* The function that a fold is made of, for operations that are functions, exists.
IsFold(f, S, base, F) ==
    f = [s \in SUBSET S |-> IF s = {} THEN base ELSE F[First(s)][f[s \ {First(s)}]]]

LEMMA FoldExists ==
    ASSUME NEW S, IsFiniteSet(S), NEW base, NEW F
    PROVE  \E f : IsFold(f, S, base, F)
<1> DEFINE Step(f, s) == IF s = {} THEN base ELSE F[First(s)][f[s \ {First(s)}]]
           D(n) == {s \in SUBSET S : Cardinality(s) <= n}
           Is(f, n) == f = [s \in D(n) |-> Step(f, s)]
           Bad == {n \in Nat : ~ \E f : Is(f, n)}
<1>1. \A s \in SUBSET S : IsFiniteSet(s) /\ Cardinality(s) \in Nat
  BY FS_Subset, FS_CardinalityType
<1>2. \E f : Is(f, 0)
  <2> DEFINE f == [s \in D(0) |-> base]
  <2>1. \A s \in D(0) : s = {}
    <3> SUFFICES ASSUME NEW s \in SUBSET S, Cardinality(s) <= 0 PROVE s = {}
      OBVIOUS
    <3>1. Cardinality(s) = 0 /\ IsFiniteSet(s)
      BY <1>1
    <3> QED BY <3>1, FS_EmptySet
  <2>2. \A s \in D(0) : Step(f, s) = base
    BY <2>1
  <2>3. Is(f, 0)
    BY <2>2
  <2> QED BY <2>3
<1>3. ASSUME NEW n \in Nat, NEW f, Is(f, n) PROVE \E g : Is(g, n + 1)
  <2> DEFINE g == [s \in D(n + 1) |-> Step(f, s)]
  <2>1. ASSUME NEW s \in D(n + 1) PROVE Step(g, s) = Step(f, s)
    <3>1. CASE s = {}
      BY <3>1
    <3>2. CASE s # {}
      <4> DEFINE r == s \ {First(s)}
      <4>1. First(s) \in s /\ Cardinality(r) = Cardinality(s) - 1
        BY <1>1, <3>2, FirstIn, FS_RemoveElement
      <4>2. Cardinality(s) \in Nat /\ Cardinality(s) <= n + 1 /\ r \in SUBSET S
        BY <1>1
      <4>3. r \in D(n) /\ r \in D(n + 1)
        BY <4>1, <4>2
      <4>4. g[r] = Step(f, r)
        BY <4>3
      <4>5. f[r] = Step(f, r)
        <5> HIDE DEF D, Step, r
        <5> QED BY <1>3, <4>3
      <4>6. g[r] = f[r]
        BY <4>4, <4>5
      <4> HIDE DEF g
      <4> QED BY <4>6
    <3> QED BY <3>1, <3>2
  <2> HIDE DEF D, Step
  <2>2. Is(g, n + 1)
    BY <2>1
  <2> QED BY <2>2
<1> HIDE DEF Is
<1>4. Bad = {}
  <2> SUFFICES ASSUME Bad # {} PROVE FALSE
    OBVIOUS
  <2>1. PICK n \in Bad : \A m \in Bad : n <= m
    <3>1. Bad \in SUBSET Nat
      OBVIOUS
    <3> HIDE DEF Bad
    <3> QED BY <3>1, LeastNumber
  <2>2. n # 0 /\ n \in Nat
    BY <1>2
  <2>3. n - 1 \in Nat /\ n - 1 \notin Bad /\ (n - 1) + 1 = n
    BY <2>1, <2>2
  <2>4. \E f : Is(f, n - 1)
    BY <2>3
  <2>5. \E g : Is(g, (n - 1) + 1)
    BY <1>3, <2>3, <2>4
  <2> QED BY <2>3, <2>5
<1>5. \E f : Is(f, Cardinality(S))
  <2>1. Cardinality(S) \in Nat
    BY <1>1
  <2> QED BY <1>4, <2>1
<1>6. D(Cardinality(S)) = SUBSET S
  <2>1. \A s \in SUBSET S : Cardinality(s) <= Cardinality(S)
    BY FS_Subset
  <2> QED BY <2>1
<1>7. PICK f : f = [s \in D(Cardinality(S)) |-> Step(f, s)]
  BY <1>5 DEF Is
<1> HIDE DEF D
<1>8. f = [s \in SUBSET S |-> Step(f, s)]
  BY <1>6, <1>7
<1> QED BY <1>8 DEF IsFold

-----------------------------------------------------------------------------
(* Worlds.                                                                 *)

Worlds ==
    [state : [Players -> States], life : [Players -> 0 .. server.lives],
     recovering : SUBSET Players, pausing : SUBSET Players, destructing : SUBSET Players,
     aim : [Players -> Treasures \cup {NO_BALL}], HAS_BALL : SUBSET Players,
     balls : SUBSET Treasures, have : SUBSET Treasures, recreate : SUBSET Treasures,
     dying : SUBSET Treasures, fused : SUBSET Treasures,
     carrier : [Treasures -> Players \cup {NO_ID}],
     ball_owner : [Treasures -> Players \cup {NO_ID}],
     TreasuresLeft : [Teams -> Int], TreasuresDestroyed : [Teams -> Int],
     roundtime : -1 .. server.maxRoundTime, roundsPlayed : 0 .. server.roundsToPlay + 1,
     over : BOOLEAN, round : [Players -> 0 .. server.raceLaps + 1],
     FINISH : SUBSET Players, RACE_OVER : SUBSET Players]

\* What is named is there.
Named(w) ==
    /\ \A P \in {w.recovering, w.pausing, w.destructing, w.HAS_BALL, w.FINISH, w.RACE_OVER} :
            P \subseteq Present(w)
    /\ \A B \in {w.have, w.dying, w.recreate, w.fused} : B \subseteq w.balls

\* Balls at home belong to nobody, the others to players of the game.
Owned(w) ==
    /\ \A t \in w.have : w.carrier[t] = NO_ID /\ w.ball_owner[t] = NO_ID
    /\ \A t \in w.balls : /\ w.carrier[t] \in Present(w) \cup {NO_ID}
                          /\ w.ball_owner[t] \in Present(w) \cup {NO_ID}

\* Where the end of a round takes the balls away, those who carry one are alive or
\* just killed, and HAS_BALL says who they are.
Resets == server.teamPlay \/ server.endOfRoundReset
Held(w) ==
    Resets => /\ \A t \in w.balls : w.carrier[t] # NO_ID =>
                     /\ w.carrier[t] \in w.HAS_BALL
                     /\ w.state[w.carrier[t]] \in {"alive", "killed"}
              /\ \A p \in w.HAS_BALL : \E t \in w.balls : w.carrier[t] = p

Whole(w) == w \in Worlds /\ Named(w) /\ Owned(w)
Sound(w) == Whole(w) /\ Held(w)

\* The same players and balls are there.
Same(w, h) == Present(h) = Present(w) /\ h.balls = w.balls

\* What soundness is about, of players and of balls, is unchanged.
SamePlayers(w, h) ==
    /\ h.state = w.state /\ h.recovering = w.recovering /\ h.pausing = w.pausing
    /\ h.destructing = w.destructing /\ h.FINISH = w.FINISH /\ h.RACE_OVER = w.RACE_OVER
SameBalls(w, h) ==
    /\ h.balls = w.balls /\ h.have = w.have /\ h.recreate = w.recreate /\ h.dying = w.dying
    /\ h.fused = w.fused /\ h.carrier = w.carrier /\ h.ball_owner = w.ball_owner
    /\ h.HAS_BALL = w.HAS_BALL

\* No more treasures are left to a team than it has balls that come back when they
\* are deleted: those that Handle_Scoring has counted may come back as well.
Saved(w) == \A x \in Teams : Cardinality(TreasuresOf(x) \cap w.recreate) >= w.TreasuresLeft[x]
Saves(w, h) == Saved(w) => Saved(h)

\* What the end of a round is about, besides.
SameRound(w, h) ==
    /\ h.over = w.over /\ h.roundtime = w.roundtime /\ h.roundsPlayed = w.roundsPlayed
    /\ Saves(w, h)
SameLives(w, h) == h.life = w.life /\ SameRound(w, h)
SameCounts(w, h) ==
    /\ h.life = w.life /\ h.over = w.over /\ h.roundtime = w.roundtime
    /\ h.roundsPlayed = w.roundsPlayed /\ h.TreasuresLeft = w.TreasuresLeft

LEMMA Options ==
    ASSUME server \in Servers
    PROVE  /\ server.players \subseteq Players /\ server.treasures \subseteq Treasures
           /\ {server.teamPlay, server.limitedLives, server.endOfRoundReset,
               server.treasureKillTeam, server.race, server.ballrace} \subseteq BOOLEAN
           /\ server.lives \in Nat /\ server.maxRoundTime \in Nat
           /\ server.roundsToPlay \in Nat /\ server.raceLaps \in Nat
           /\ server.race => ~server.teamPlay
           /\ IsFiniteSet(Players) /\ NO_ID \notin Players
           /\ IsFiniteSet(Treasures) /\ NO_BALL \notin Treasures
BY BallsAssumption DEF Players

LEMMA Fields ==
    ASSUME NEW w \in Worlds
    PROVE  /\ w.state \in [Players -> States] /\ w.life \in [Players -> 0 .. server.lives]
           /\ w.recovering \subseteq Players /\ w.pausing \subseteq Players
           /\ w.destructing \subseteq Players /\ w.HAS_BALL \subseteq Players
           /\ w.FINISH \subseteq Players /\ w.RACE_OVER \subseteq Players
           /\ w.aim \in [Players -> Treasures \cup {NO_BALL}]
           /\ w.balls \subseteq Treasures /\ w.have \subseteq Treasures
           /\ w.recreate \subseteq Treasures /\ w.dying \subseteq Treasures
           /\ w.fused \subseteq Treasures
           /\ w.carrier \in [Treasures -> Players \cup {NO_ID}]
           /\ w.ball_owner \in [Treasures -> Players \cup {NO_ID}]
           /\ w.TreasuresLeft \in [Teams -> Int] /\ w.TreasuresDestroyed \in [Teams -> Int]
           /\ w.roundtime \in -1 .. server.maxRoundTime
           /\ w.roundsPlayed \in 0 .. server.roundsToPlay + 1 /\ w.over \in BOOLEAN
           /\ w.round \in [Players -> 0 .. server.raceLaps + 1]
BY DEF Worlds

LEMMA TreasuresFinite ==
    ASSUME server \in Servers, NEW x, NEW S
    PROVE  /\ IsFiniteSet(TreasuresOf(x)) /\ IsFiniteSet(TreasuresOf(x) \cap S)
           /\ Cardinality(TreasuresOf(x)) \in Nat /\ Cardinality(TreasuresOf(x) \cap S) \in Nat
<1>1. TreasuresOf(x) \subseteq Treasures
  BY Options DEF TreasuresOf
<1>2. IsFiniteSet(TreasuresOf(x)) /\ IsFiniteSet(TreasuresOf(x) \cap S)
  BY <1>1, Options, FS_Subset
<1> QED BY <1>2, FS_CardinalityType

\* No ball is lost when all that come back still do.
LEMMA TreasuresStay ==
    ASSUME server \in Servers, NEW w \in Worlds, NEW h, SameCounts(w, h),
           AllBalls \cap w.recreate \subseteq h.recreate
    PROVE  SameLives(w, h)
<1>1. ASSUME NEW x \in Teams, Cardinality(TreasuresOf(x) \cap w.recreate) >= w.TreasuresLeft[x]
      PROVE  Cardinality(TreasuresOf(x) \cap h.recreate) >= h.TreasuresLeft[x]
  <2> DEFINE old == TreasuresOf(x) \cap w.recreate
             new == TreasuresOf(x) \cap h.recreate
  <2>1. old \subseteq new
    BY DEF TreasuresOf, AllBalls
  <2>2. IsFiniteSet(new) /\ Cardinality(new) \in Nat /\ Cardinality(old) \in Nat
    BY TreasuresFinite
  <2>3. w.TreasuresLeft[x] \in Int /\ h.TreasuresLeft = w.TreasuresLeft
    BY Fields DEF SameCounts
  <2>4. Cardinality(old) >= w.TreasuresLeft[x]
    BY <1>1
  <2> HIDE DEF old, new
  <2>5. Cardinality(old) <= Cardinality(new)
    BY <2>1, <2>2, FS_Subset
  <2>6. Cardinality(new) >= h.TreasuresLeft[x]
    BY <2>2, <2>3, <2>4, <2>5
  <2> QED BY <2>6 DEF new
<1>2. Saves(w, h)
  BY <1>1 DEF Saves, Saved
<1> QED BY <1>2 DEF SameLives, SameRound, SameCounts

-----------------------------------------------------------------------------
(* Who is out of the round.                                                *)

\* With limited lives, who pauses has none, and no self destruction under way.
Naps(w) ==
    server.limitedLives => \A p \in Players : w.state[p] = "paused" =>
        p \notin w.destructing /\ w.life[p] = 0

\* Nor has who waits; and who is dead has none before the game is over, or is there
\* in a race only, where those who finish die.
Fit(w) ==
    Naps(w) /\ (server.limitedLives => \A p \in Players :
        /\ w.state[p] = "waiting" => w.life[p] = 0
        /\ ~w.over /\ w.state[p] \in {"dead", "waiting"} => p \notin w.destructing
        /\ ~w.over /\ w.state[p] = "dead" /\ server.teamPlay => w.life[p] = 0)

\* Those who stay away until a round begins.
Gone(w) ==
    {p \in Players : \/ w.state[p] = "out"
                     \/ w.state[p] = "dead" /\ ~server.teamPlay
                     \/ w.life[p] = 0 /\ w.state[p] \in {"waiting", "paused", "dead", "killed"}}

\* The round goes on, and nobody comes back.
Rests(w, h) == SameRound(w, h) /\ (Naps(w) => Naps(h))
Falls(w, h) ==
    Rests(w, h) /\ (server.limitedLives /\ Fit(w) =>
                        Fit(h) /\ (~w.over => Gone(w) \subseteq Gone(h)))

LEMMA FallsAgain ==
    ASSUME NEW u, NEW w, NEW h, Falls(u, w), Falls(w, h)
    PROVE  Falls(u, h)
BY DEF Falls, Rests, SameRound, Saves

LEMMA FallsAs ==
    ASSUME NEW w, NEW h, SamePlayers(w, h), SameLives(w, h)
    PROVE  Falls(w, h)
BY DEF SamePlayers, SameLives, SameRound, Saves, Falls, Rests, Fit, Naps, Gone

-----------------------------------------------------------------------------
(* States of players.                                                      *)

\* What Player_set_state of P does.
SetIs(P, s, w, h) ==
    /\ h \in Worlds /\ SameBalls(w, h)
    /\ h.state = [p \in Players |-> IF p \in P THEN s ELSE w.state[p]]
    /\ h.recovering = IF s = "appearing" THEN w.recovering \cup P ELSE w.recovering
    /\ h.pausing = w.pausing /\ h.destructing = w.destructing
    /\ h.FINISH = w.FINISH /\ h.RACE_OVER = w.RACE_OVER /\ SameRound(w, h)
    /\ h.life = [p \in Players |-> IF p \in P /\ s \in {"waiting", "paused"} THEN 0 ELSE w.life[p]]

LEMMA SetStateIs ==
    ASSUME server \in Servers, NEW w \in Worlds, NEW P \in SUBSET Players, NEW s \in States
    PROVE  SetIs(P, s, w, Player_set_state(P, s, w))
<1> DEFINE a == [p \in Players |-> IF p \in P THEN s ELSE w.state[p]]
           l == [p \in Players |-> IF p \in P /\ s \in {"waiting", "paused"} THEN 0 ELSE w.life[p]]
           r == IF s = "appearing" THEN w.recovering \cup P ELSE w.recovering
           h == [[[w EXCEPT !.state = a] EXCEPT !.life = l] EXCEPT !.recovering = r]
<1>1. Player_set_state(P, s, w) = h
  BY DEF Player_set_state
<1>2. a \in [Players -> States] /\ l \in [Players -> 0 .. server.lives] /\ r \in SUBSET Players
  BY Fields, Options
<1> HIDE DEF a, l, r
<1>3. h \in Worlds /\ h.state = a /\ h.life = l /\ h.recovering = r
  BY <1>2 DEF Worlds
<1>4. /\ SameBalls(w, h) /\ h.pausing = w.pausing /\ h.destructing = w.destructing
      /\ h.FINISH = w.FINISH /\ h.RACE_OVER = w.RACE_OVER /\ SameRound(w, h)
  BY DEF Worlds, SameBalls, SameRound, Saves, Saved
<1> HIDE DEF h
<1> QED BY <1>1, <1>3, <1>4 DEF SetIs, a, l, r

\* Soundness is about these parts of a world only.
LEMMA WholeAs ==
    ASSUME NEW w, Whole(w), NEW h \in Worlds, SamePlayers(w, h), SameBalls(w, h)
    PROVE  Whole(h) /\ Same(w, h) /\ (Held(w) => Held(h))
BY DEF Whole, Named, Owned, Held, Same, SamePlayers, SameBalls, Present

\* What changes when players who are there get another state.
SetGives(P, s, w, h) ==
    /\ Whole(h) /\ Same(w, h) /\ SameBalls(w, h) /\ SameRound(w, h)
    /\ h.destructing = w.destructing
    /\ \A p \in Players : /\ h.state[p] = IF p \in P THEN s ELSE w.state[p]
                          /\ h.life[p] = IF p \in P /\ s \in {"waiting", "paused"} THEN 0
                                         ELSE w.life[p]

LEMMA SetStateWhole ==
    ASSUME server \in Servers, NEW w, Whole(w), NEW P \in SUBSET Present(w),
           NEW s \in States \ {"out"}
    PROVE  SetGives(P, s, w, Player_set_state(P, s, w))
<1> DEFINE h == Player_set_state(P, s, w)
<1>1. P \in SUBSET Players
  BY DEF Present
<1>2. SetIs(P, s, w, h)
  BY <1>1, SetStateIs DEF Whole
<1> HIDE DEF h
<1> USE DEF SetIs
<1>3. Present(h) = Present(w)
  BY <1>2 DEF Present
<1>4. Named(h) /\ Owned(h)
  BY <1>2, <1>3 DEF Whole, Named, Owned, SameBalls
<1>5. SetGives(P, s, w, h)
  BY <1>2, <1>3, <1>4 DEF SetGives, Whole, Same, SameBalls
<1> QED BY <1>5 DEF h

\* Who is killed, or carries no ball, may be given any state.
LEMMA SetStateHeld ==
    ASSUME NEW w, Sound(w), NEW P, NEW s, NEW h, SetGives(P, s, w, h),
           Resets => s \in {"alive", "killed"} \/ P \cap w.HAS_BALL = {}
    PROVE  Sound(h)
<1>1. \A t \in w.balls : w.carrier[t] # NO_ID => w.carrier[t] \in Players
  BY DEF Sound, Whole, Owned, Present
<1>2. Held(h)
  BY <1>1 DEF Sound, SetGives, Held, SameBalls
<1> QED BY <1>2 DEF Sound, SetGives

-----------------------------------------------------------------------------
(* Balls.                                                                  *)

\* What Detach_ball leaves alone, and what it does to carriers.
DetachGives(p, B, w, h) ==
    /\ h \in Worlds /\ SamePlayers(w, h) /\ SameLives(w, h) /\ SameCounts(w, h)
    /\ h.balls = w.balls /\ h.have = w.have /\ h.recreate = w.recreate
    /\ h.dying = w.dying /\ h.fused = w.fused /\ h.ball_owner = w.ball_owner
    /\ p \notin w.HAS_BALL => h.carrier = w.carrier /\ h.HAS_BALL = w.HAS_BALL
    /\ p \in w.HAS_BALL =>
          /\ h.carrier = [t \in Treasures |-> IF t \in B /\ w.carrier[t] = p THEN NO_ID
                                             ELSE w.carrier[t]]
          /\ h.HAS_BALL = IF Carried(p, w) \subseteq B THEN w.HAS_BALL \ {p} ELSE w.HAS_BALL

LEMMA DetachIs ==
    ASSUME server \in Servers, NEW w \in Worlds, NEW p \in Players, NEW B
    PROVE  DetachGives(p, B, w, Detach_ball(p, B, w))
<1> DEFINE x == IF w.aim[p] \in B THEN NO_BALL ELSE w.aim[p]
           v == [w EXCEPT !.aim[p] = x]
           c == [t \in Treasures |-> IF t \in B /\ w.carrier[t] = p THEN NO_ID ELSE w.carrier[t]]
           k == IF Carried(p, w) \subseteq B THEN w.HAS_BALL \ {p} ELSE w.HAS_BALL
           h == [[v EXCEPT !.carrier = c] EXCEPT !.HAS_BALL = k]
<1>1. x \in Treasures \cup {NO_BALL} /\ c \in [Treasures -> Players \cup {NO_ID}]
      /\ k \in SUBSET Players
  BY Fields
<1>2. v \in Worlds /\ SamePlayers(w, v) /\ SameBalls(w, v) /\ SameCounts(w, v)
  <2> HIDE DEF x
  <2> QED BY <1>1 DEF Worlds, SamePlayers, SameBalls, SameCounts
<1>3. Detach_ball(p, B, w) = IF p \notin w.HAS_BALL THEN v ELSE h
  <2>1. v.carrier = w.carrier /\ v.HAS_BALL = w.HAS_BALL
    BY <1>2 DEF SameBalls
  <2> QED BY <2>1 DEF Detach_ball
<1> HIDE DEF c, k, v
<1>4. /\ h \in Worlds /\ SamePlayers(v, h) /\ SameCounts(v, h) /\ h.carrier = c /\ h.HAS_BALL = k
      /\ h.balls = v.balls /\ h.have = v.have /\ h.recreate = v.recreate
      /\ h.dying = v.dying /\ h.fused = v.fused /\ h.ball_owner = v.ball_owner
  BY <1>1, <1>2 DEF Worlds, SamePlayers, SameCounts
<1> HIDE DEF h
<1>5. ASSUME NEW y, SameCounts(w, y), y.recreate = w.recreate PROVE SameLives(w, y)
  BY <1>5, TreasuresStay
<1>6. SameLives(w, v) /\ SameLives(w, h) /\ SameCounts(w, h)
  BY <1>2, <1>4, <1>5 DEF SameBalls, SameCounts
<1> QED BY <1>2, <1>3, <1>4, <1>6 DEF DetachGives, SamePlayers, SameBalls, c, k

\* As Held, but that p may be in any state.
HeldBut(p, w) ==
    Resets => /\ \A t \in w.balls : w.carrier[t] # NO_ID =>
                     /\ w.carrier[t] \in w.HAS_BALL
                     /\ w.carrier[t] = p \/ w.state[w.carrier[t]] \in {"alive", "killed"}
              /\ \A q \in w.HAS_BALL : \E t \in w.balls : w.carrier[t] = q

\* p carries no ball; others may have fewer.
LetGo(p, w, h) ==
    /\ \A t \in Treasures : h.carrier[t] \in {w.carrier[t], NO_ID}
    /\ h.HAS_BALL \subseteq w.HAS_BALL
    /\ Resets => p \notin h.HAS_BALL /\ \A t \in h.balls : h.carrier[t] # p

LEMMA DetachWhole ==
    ASSUME server \in Servers, NEW w, Whole(w), NEW p \in Players, NEW B
    PROVE  LET h == Detach_ball(p, B, w)
           IN  /\ Whole(h) /\ Same(w, h) /\ h.state = w.state
               /\ h.have = w.have /\ h.dying = w.dying /\ h.recreate = w.recreate
               /\ h.fused = w.fused /\ h.ball_owner = w.ball_owner
               /\ \A t \in Treasures : h.carrier[t] \in {w.carrier[t], NO_ID}
               /\ Falls(w, h)
               /\ Held(w) => Held(h)
<1> DEFINE h == Detach_ball(p, B, w)
<1>0. w \in Worlds
  BY DEF Whole
<1>1. DetachGives(p, B, w, h)
  BY <1>0, DetachIs
<1> USE DEF DetachGives
<1> HIDE DEF h
<1>2. Present(h) = Present(w) /\ h.state = w.state
  BY <1>1 DEF SamePlayers, Present
<1>3. \A t \in Treasures : h.carrier[t] \in {w.carrier[t], NO_ID}
  BY <1>1
<1>4. w.balls \subseteq Treasures /\ w.have \subseteq Treasures
  BY Fields DEF Whole
<1>5. Whole(h)
  <2>1. Named(h)
    BY <1>1, <1>2 DEF Whole, Named, SamePlayers
  <2>2. Owned(h)
    BY <1>1, <1>2, <1>3, <1>4 DEF Whole, Owned
  <2> QED BY <1>1, <2>1, <2>2 DEF Whole
<1>6. ASSUME Held(w) PROVE Held(h)
  <2>1. CASE p \notin w.HAS_BALL
    BY <1>1, <1>2, <1>6, <2>1 DEF Held
  <2>2. CASE p \in w.HAS_BALL
    <3> SUFFICES ASSUME Resets
                 PROVE  /\ \A t \in h.balls : h.carrier[t] # NO_ID =>
                               /\ h.carrier[t] \in h.HAS_BALL
                               /\ h.state[h.carrier[t]] \in {"alive", "killed"}
                        /\ \A q \in h.HAS_BALL : \E t \in h.balls : h.carrier[t] = q
      BY DEF Held
    <3>1. ASSUME NEW t \in h.balls, h.carrier[t] # NO_ID
          PROVE  /\ h.carrier[t] \in h.HAS_BALL
                 /\ h.state[h.carrier[t]] \in {"alive", "killed"}
      <4>1. t \in w.balls /\ t \in Treasures /\ h.carrier[t] = w.carrier[t]
        BY <1>1, <1>3, <1>4, <3>1
      <4>2. w.carrier[t] \in w.HAS_BALL /\ w.state[w.carrier[t]] \in {"alive", "killed"}
        BY <1>6, <3>1, <4>1 DEF Held
      <4>3. Carried(p, w) \subseteq B => w.carrier[t] # p
        BY <1>1, <2>2, <3>1, <4>1 DEF Carried
      <4> QED BY <1>1, <1>2, <2>2, <4>1, <4>2, <4>3
    <3>2. ASSUME NEW q \in h.HAS_BALL PROVE \E t \in h.balls : h.carrier[t] = q
      <4>1. PICK t \in w.balls : w.carrier[t] = q
        BY <1>1, <1>6, <2>2, <3>2 DEF Held
      <4>2. CASE q # p
        BY <1>1, <1>4, <2>2, <4>1, <4>2
      <4>3. CASE q = p
        <5>1. ~(Carried(p, w) \subseteq B)
          BY <1>1, <2>2, <3>2, <4>3
        <5>2. PICK u \in w.balls : w.carrier[u] = p /\ u \notin B
          BY <5>1, <1>4 DEF Carried
        <5> QED BY <1>1, <1>4, <2>2, <4>3, <5>2
      <4> QED BY <4>2, <4>3
    <3> QED BY <3>1, <3>2
  <2> QED BY <2>1, <2>2
<1>7. Falls(w, h)
  BY <1>1, FallsAs
<1> QED BY <1>1, <1>2, <1>3, <1>5, <1>6, <1>7 DEF Same, h

\* Who lets go of all balls carries none, whatever has happened to him.
LEMMA DetachAll ==
    ASSUME server \in Servers, NEW w, Whole(w), NEW p \in Players, HeldBut(p, w)
    PROVE  LET h == Detach_ball(p, Treasures, w)
           IN  Sound(h) /\ LetGo(p, w, h)
<1> DEFINE h == Detach_ball(p, Treasures, w)
<1>0. w \in Worlds
  BY DEF Whole
<1>1. DetachGives(p, Treasures, w, h)
  BY <1>0, DetachIs
<1>2. Whole(h) /\ \A t \in Treasures : h.carrier[t] \in {w.carrier[t], NO_ID}
  BY DetachWhole
<1> HIDE DEF h
<1> USE DEF DetachGives
<1>3. Carried(p, w) \subseteq Treasures /\ w.balls \subseteq Treasures
  BY Fields DEF Whole, Carried
<1>4. p # NO_ID /\ h.state = w.state
  BY <1>1, Options DEF SamePlayers
<1>5. CASE p \notin w.HAS_BALL
  <2>1. Resets => \A t \in w.balls : w.carrier[t] # p
    BY <1>4, <1>5 DEF HeldBut
  <2>2. Held(h)
    BY <1>1, <1>4, <1>5, <2>1 DEF HeldBut, Held
  <2>3. LetGo(p, w, h)
    BY <1>1, <1>2, <1>5, <2>1 DEF LetGo
  <2> QED BY <1>2, <2>2, <2>3 DEF Sound, h
<1>6. CASE p \in w.HAS_BALL
  <2>1. /\ h.HAS_BALL = w.HAS_BALL \ {p}
        /\ \A t \in Treasures : h.carrier[t] = IF w.carrier[t] = p THEN NO_ID ELSE w.carrier[t]
    BY <1>1, <1>3, <1>6
  <2>2. Held(h)
    BY <1>1, <1>3, <1>4, <2>1 DEF HeldBut, Held
  <2>3. LetGo(p, w, h)
    BY <1>1, <1>2, <1>3, <1>4, <2>1 DEF LetGo
  <2> QED BY <1>2, <2>2, <2>3 DEF Sound, h
<1> QED BY <1>5, <1>6

LEMMA HeldHeldBut ==
    ASSUME NEW w, Held(w), NEW p
    PROVE  HeldBut(p, w)
BY DEF Held, HeldBut

-----------------------------------------------------------------------------
(* Deaths and pauses.                                                      *)

\* Who does not pause loses a life, or is out of the round.
Dies(p, w, h) ==
    /\ SameRound(w, h)
    /\ \A q \in Players \ {p} : /\ h.state[q] = w.state[q] /\ h.life[q] = w.life[q]
                                /\ q \in h.destructing => q \in w.destructing
    /\ w.state[p] = "paused" =>
          /\ h.state[p] = "paused" /\ h.life[p] = w.life[p]
          /\ h.destructing = w.destructing
    /\ w.state[p] # "paused" =>
          /\ p \notin h.destructing
          /\ server.limitedLives =>
                IF w.life[p] # 0 THEN h.state[p] = "appearing"
                ELSE h.life[p] = 0 /\ h.state[p] \in {"waiting", "dead"}

\* Nor does he carry a ball any more.
Drops(p, w, h) ==
    /\ Sound(h) /\ Same(w, h) /\ h.HAS_BALL \subseteq w.HAS_BALL
    /\ Resets => p \notin h.HAS_BALL

\* Player_death_reset.
ResetGives(p, w, h) == Drops(p, w, h) /\ Dies(p, w, h)

LEMMA DiesFalls ==
    ASSUME NEW w, NEW p \in Present(w), NEW h, Dies(p, w, h)
    PROVE  /\ Rests(w, h)
           /\ (server.limitedLives /\ Fit(w) /\ ~w.over /\ w.state[p] = "dead" => server.teamPlay)
                  => Falls(w, h)
<1>1. w.state[p] # "out" /\ p \in Players
  BY DEF Present
<1>2. Rests(w, h)
  BY <1>1 DEF Dies, Rests, Naps
<1>3. ASSUME server.limitedLives, Fit(w) PROVE Fit(h)
  BY <1>1, <1>2, <1>3 DEF Dies, Rests, Fit, SameRound, Saves
<1>4. ASSUME server.limitedLives, Fit(w), ~w.over, w.state[p] = "dead" => server.teamPlay
      PROVE  Gone(w) \subseteq Gone(h)
  <2> SUFFICES ASSUME NEW q \in Gone(w) PROVE q \in Gone(h)
    OBVIOUS
  <2>1. CASE q # p
    BY <2>1 DEF Gone, Dies
  <2>2. CASE q = p
    BY <1>1, <1>4, <2>2 DEF Gone, Dies
  <2> QED BY <2>1, <2>2
<1> QED BY <1>2, <1>3, <1>4 DEF Falls

LEMMA DeathReset ==
    ASSUME server \in Servers, NEW w, Sound(w), NEW p \in Present(w)
    PROVE  ResetGives(p, w, Player_death_reset(p, w))
<1> DEFINE d == Detach_ball(p, Treasures, w)
           a == Player_set_state({p}, "appearing", d)
           v == [a EXCEPT !.destructing = @ \ {p}, !.HAS_BALL = @ \ {p}]
           s == IF w.state[p] = "waiting" THEN "waiting" ELSE "dead"
           l == [v EXCEPT !.life[p] = @ - 1]
<1>1. p \in Players /\ p # NO_ID /\ Whole(w) /\ Held(w) /\ w \in Worlds
  BY Options DEF Present, Sound, Whole
<1>2. Sound(d) /\ LetGo(p, w, d)
  BY <1>1, DetachAll, HeldHeldBut
<1>3. Same(w, d)
  BY <1>1, DetachWhole
<1>d. SameLives(w, d) /\ d.state = w.state /\ d.destructing = w.destructing
  <2>1. DetachGives(p, Treasures, w, d)
    BY <1>1, DetachIs
  <2> HIDE DEF d
  <2> QED BY <2>1 DEF DetachGives, SamePlayers
<1> HIDE DEF d
<1>4. {p} \in SUBSET Present(d) /\ (Resets => p \notin d.HAS_BALL)
      /\ d.HAS_BALL \subseteq w.HAS_BALL
  BY <1>2, <1>3 DEF Same, LetGo
<1>5. SetGives({p}, "appearing", d, a)
  <2>1. "appearing" \in States \ {"out"}
    BY DEF States
  <2> QED BY <1>2, <1>4, <2>1, SetStateWhole DEF Sound
<1> HIDE DEF a
<1>a. Sound(a)
  BY <1>2, <1>4, <1>5, SetStateHeld
<1>b. /\ Same(d, a) /\ SameBalls(d, a) /\ SameRound(w, a) /\ a.destructing = w.destructing
      /\ \A q \in Players : /\ a.state[q] = IF q = p THEN "appearing" ELSE w.state[q]
                            /\ a.life[q] = w.life[q]
  BY <1>d, <1>5 DEF SetGives, SameLives, SameRound, Saves
<1>6. a \in Worlds /\ Whole(a) /\ Held(a)
  BY <1>a DEF Sound, Whole
<1>7. /\ v \in Worlds /\ v.destructing = a.destructing \ {p} /\ v.HAS_BALL = a.HAS_BALL \ {p}
      /\ v.state = a.state /\ v.life = a.life /\ v.recovering = a.recovering
      /\ v.pausing = a.pausing /\ v.FINISH = a.FINISH /\ v.RACE_OVER = a.RACE_OVER
      /\ v.balls = a.balls /\ v.have = a.have /\ v.recreate = a.recreate /\ v.dying = a.dying
      /\ v.fused = a.fused /\ v.carrier = a.carrier /\ v.ball_owner = a.ball_owner
      /\ SameRound(a, v)
  BY <1>6 DEF Worlds, SameRound, Saves, Saved
<1> HIDE DEF v
<1>8. Whole(v) /\ Same(a, v)
  BY <1>6, <1>7 DEF Whole, Named, Owned, Same, Present
<1>9. Held(v)
  <2>1. Resets => v.HAS_BALL = a.HAS_BALL
    BY <1>4, <1>b, <1>7 DEF SameBalls
  <2> QED BY <1>6, <1>7, <2>1 DEF Held
<1>10. Drops(p, w, v)
  BY <1>3, <1>4, <1>b, <1>7, <1>8, <1>9 DEF Drops, Same, SameBalls, Sound
<1>c. /\ SameRound(w, v) /\ v.destructing = w.destructing \ {p}
      /\ \A q \in Players : /\ v.state[q] = IF q = p THEN "appearing" ELSE w.state[q]
                            /\ v.life[q] = w.life[q]
  BY <1>b, <1>7 DEF SameRound, Saves
<1>11. ASSUME w.state[p] # "paused", w.life[p] = 0
       PROVE  ResetGives(p, w, Player_set_state({p}, s, v))
  <2>1. {p} \in SUBSET Present(v) /\ (Resets => {p} \cap v.HAS_BALL = {})
    BY <1>4, <1>10 DEF Drops, Same
  <2>2. s \in States \ {"out"} /\ s \in {"waiting", "dead"}
    BY DEF States
  <2> HIDE DEF s
  <2> DEFINE h == Player_set_state({p}, s, v)
  <2>3. SetGives({p}, s, v, h)
    BY <1>8, <2>1, <2>2, SetStateWhole
  <2> HIDE DEF h
  <2>4. Sound(h)
    BY <1>10, <2>1, <2>3, SetStateHeld DEF Drops
  <2>5. Drops(p, w, h)
    BY <1>10, <2>3, <2>4 DEF Drops, SetGives, Same, SameBalls
  <2>6. Dies(p, w, h)
    BY <1>1, <1>11, <1>c, <2>2, <2>3 DEF Dies, SetGives, SameRound, Saves
  <2> QED BY <2>5, <2>6 DEF h, ResetGives
<1>12. ASSUME w.state[p] # "paused", w.life[p] # 0 PROVE ResetGives(p, w, l)
  <2> DEFINE n == [v.life EXCEPT ![p] = @ - 1]
  <2>1. \A q \in Players : v.life[q] = w.life[q] /\ w.life[q] \in 0 .. server.lives
    BY <1>1, <1>c, Fields
  <2>2. v.life \in [Players -> 0 .. server.lives] /\ server.lives \in Nat
    BY <1>7, Options, Fields
  <2>3. n \in [Players -> 0 .. server.lives] /\ \A q \in Players \ {p} : n[q] = v.life[q]
    BY <1>1, <1>12, <2>1, <2>2
  <2> HIDE DEF n
  <2>4. l = [v EXCEPT !.life = n]
    BY DEF n
  <2> HIDE DEF l
  <2>5. l \in Worlds /\ SamePlayers(v, l) /\ SameBalls(v, l) /\ SameRound(v, l) /\ l.life = n
    BY <1>7, <2>3, <2>4 DEF Worlds, SamePlayers, SameBalls, SameRound, Saves, Saved
  <2>6. Sound(l) /\ Same(v, l)
    BY <1>10, <2>5, WholeAs DEF Drops, Sound
  <2>7. Drops(p, w, l)
    BY <1>10, <2>5, <2>6 DEF Drops, Same, SameBalls
  <2>8. Dies(p, w, l)
    BY <1>1, <1>12, <1>c, <2>1, <2>3, <2>5 DEF Dies, SamePlayers, SameRound, Saves
  <2> QED BY <2>7, <2>8 DEF ResetGives
<1>13. CASE w.state[p] = "paused"
  <2>1. Resets => p \notin w.HAS_BALL
    BY <1>1, <1>13 DEF Held
  <2> QED BY <1>13, <2>1 DEF Player_death_reset, ResetGives, Drops, Dies, Same, SameRound, Saves
<1>14. CASE w.state[p] # "paused"
  <2>1. Player_death_reset(p, w) = IF ~server.limitedLives THEN v
                                   ELSE IF w.life[p] = 0 THEN Player_set_state({p}, s, v) ELSE l
    BY <1>14 DEF Player_death_reset, v, a, d
  <2>2. ~server.limitedLives => Dies(p, w, v)
    BY <1>14, <1>c DEF Dies
  <2> QED BY <1>10, <1>11, <1>12, <1>14, <2>1, <2>2 DEF ResetGives
<1> QED BY <1>13, <1>14

\* Soundness is kept, the same players and balls are there, and the round goes on.
Kept(w, h) == Sound(h) /\ Same(w, h) /\ Falls(w, h)

LEMMA KeptAgain ==
    ASSUME NEW u, NEW w, NEW h, Kept(u, w), Kept(w, h)
    PROVE  Kept(u, h)
<1>1. Falls(u, h)
  BY FallsAgain DEF Kept
<1> QED BY <1>1 DEF Kept, Same

LEMMA Pauses ==
    ASSUME server \in Servers, NEW w, Sound(w), NEW p \in Present(w)
    PROVE  Kept(w, Pause_player(p, w))
<1> DEFINE a == Player_set_state({p}, "paused", w)
           v == [a EXCEPT !.pausing = @ \cup {p}, !.recovering = @ \ {p}, !.destructing = @ \ {p}]
           h == Detach_ball(p, Treasures, v)
<1>1. p \in Players /\ Whole(w) /\ Held(w)
  BY DEF Present, Sound
<1>2. SetGives({p}, "paused", w, a)
  <2>1. "paused" \in States \ {"out"} /\ {p} \in SUBSET Present(w)
    BY DEF States
  <2> QED BY <1>1, <2>1, SetStateWhole
<1> HIDE DEF a
<1>3. a \in Worlds /\ Whole(a)
  BY <1>2 DEF SetGives, Whole
<1>4. /\ v \in Worlds /\ v.pausing = a.pausing \cup {p} /\ v.recovering = a.recovering \ {p}
      /\ v.destructing = a.destructing \ {p} /\ SameBalls(a, v)
      /\ v.state = a.state /\ v.FINISH = a.FINISH /\ v.RACE_OVER = a.RACE_OVER
      /\ SameLives(a, v)
  BY <1>1, <1>3 DEF Worlds, SameBalls, SameLives, SameRound, Saves, Saved
<1> HIDE DEF v
<1>5. p \in Present(a)
  BY <1>1, <1>2 DEF SetGives, Present
<1>6. Whole(v) /\ Same(a, v)
  BY <1>3, <1>4, <1>5 DEF Whole, Named, Owned, Same, SameBalls, Present
<1>7. HeldBut(p, v)
  <2>1. \A t \in w.balls : w.carrier[t] # NO_ID => w.carrier[t] \in Players
    BY <1>1 DEF Whole, Owned, Present
  <2>2. SameBalls(w, v) /\ \A q \in Players \ {p} : v.state[q] = w.state[q]
    BY <1>2, <1>4 DEF SetGives, SameBalls
  <2> QED BY <1>1, <2>1, <2>2 DEF Held, HeldBut, SameBalls
<1>8. Sound(h)
  BY <1>1, <1>6, <1>7, DetachAll
<1>9. Same(v, h) /\ Falls(v, h)
  BY <1>1, <1>6, DetachWhole
<1>f. Falls(w, v)
  <2>1. /\ SameRound(w, v) /\ v.destructing = w.destructing \ {p}
        /\ \A q \in Players : /\ v.state[q] = IF q = p THEN "paused" ELSE w.state[q]
                              /\ v.life[q] = IF q = p THEN 0 ELSE w.life[q]
    BY <1>2, <1>4 DEF SetGives, SameLives, SameRound, Saves
  <2>2. Rests(w, v) /\ (Fit(w) => Fit(v))
    BY <1>1, <2>1 DEF Rests, Fit, Naps, SameRound, Saves
  <2>3. Gone(w) \subseteq Gone(v)
    BY <1>1, <2>1 DEF Gone
  <2> QED BY <2>2, <2>3 DEF Falls
<1>10. Kept(w, h)
  <2>1. Falls(w, h)
    BY <1>9, <1>f, FallsAgain
  <2> QED BY <1>2, <1>6, <1>8, <1>9, <2>1 DEF Kept, Same, SetGives
<1>11. Kept(w, w)
  <2>1. Falls(w, w)
    BY FallsAs DEF SamePlayers, SameLives, SameRound, Saves
  <2> QED BY <2>1 DEF Kept, Same
<1> QED BY <1>10, <1>11 DEF Pause_player, a, v

-----------------------------------------------------------------------------
(* Deletion of balls.                                                      *)

\* Delete_shot takes away the ball of t, or brings it back to its treasure.
DeleteGives(t, w, h) ==
    /\ Sound(h) /\ SamePlayers(w, h) /\ SameLives(w, h)
    /\ h.balls \subseteq w.balls /\ w.balls \ {t} \subseteq h.balls
    /\ h.carrier = [w.carrier EXCEPT ![t] = NO_ID]

\* As Held, for all balls but that of t.
HeldWithout(t, w) ==
    Resets => /\ \A u \in w.balls \ {t} : w.carrier[u] # NO_ID =>
                     /\ w.carrier[u] \in w.HAS_BALL
                     /\ w.state[w.carrier[u]] \in {"alive", "killed"}
              /\ \A p \in w.HAS_BALL : \E u \in w.balls \ {t} : w.carrier[u] = p

\* The ball is let go before it is freed.
LetsGo(t, w, v) ==
    /\ Whole(v) /\ Same(w, v) /\ v.recreate = w.recreate /\ v.have = w.have
    /\ v.ball_owner = w.ball_owner /\ \A u \in Treasures \ {t} : v.carrier[u] = w.carrier[u]
    /\ HeldWithout(t, v) /\ SamePlayers(w, v) /\ SameCounts(w, v)

LEMMA DetachOne ==
    ASSUME server \in Servers, NEW w, Sound(w), NEW t \in w.balls, w.carrier[t] # NO_ID
    PROVE  LetsGo(t, w, Detach_ball(w.carrier[t], {t}, w))
<1> DEFINE c == w.carrier[t]
           h == Detach_ball(c, {t}, w)
<1>1. Whole(w) /\ Held(w) /\ w \in Worlds
  BY DEF Sound, Whole
<1>2. t \in Treasures /\ c \in Players /\ w.balls \subseteq Treasures
  BY <1>1, Fields
<1>3. DetachGives(c, {t}, w, h)
  BY <1>1, <1>2, DetachIs
<1>4. Whole(h) /\ Same(w, h)
  BY <1>1, <1>2, DetachWhole
<1> HIDE DEF h
<1>5. \A u \in Treasures \ {t} : h.carrier[u] = w.carrier[u]
  BY <1>3 DEF DetachGives
<1>6. h.balls = w.balls /\ h.state = w.state
  BY <1>3 DEF DetachGives, SamePlayers
<1>7. ASSUME Resets PROVE HeldWithout(t, h)
  <2>1. c \in w.HAS_BALL
    BY <1>1, <1>7 DEF Held
  <2>2. h.HAS_BALL = IF Carried(c, w) \subseteq {t} THEN w.HAS_BALL \ {c} ELSE w.HAS_BALL
    BY <1>3, <2>1 DEF DetachGives
  <2>3. ASSUME NEW u \in h.balls \ {t}, h.carrier[u] # NO_ID
        PROVE  h.carrier[u] \in h.HAS_BALL /\ h.state[h.carrier[u]] \in {"alive", "killed"}
    <3>1. u \in w.balls /\ h.carrier[u] = w.carrier[u]
      BY <1>2, <1>5, <1>6, <2>3
    <3>2. w.carrier[u] \in w.HAS_BALL /\ w.state[w.carrier[u]] \in {"alive", "killed"}
      BY <1>1, <1>7, <2>3, <3>1 DEF Held
    <3>3. w.carrier[u] = c => ~(Carried(c, w) \subseteq {t})
      BY <2>3, <3>1 DEF Carried
    <3> HIDE DEF c
    <3> QED BY <1>6, <2>2, <3>1, <3>2, <3>3
  <2>4. ASSUME NEW p \in h.HAS_BALL PROVE \E u \in h.balls \ {t} : h.carrier[u] = p
    <3>1. PICK u \in w.balls : w.carrier[u] = p
      BY <1>1, <1>7, <2>2, <2>4 DEF Held
    <3>2. CASE p # c
      <4>1. u # t
        BY <3>1, <3>2
      <4> QED BY <1>2, <1>5, <1>6, <3>1, <4>1
    <3>3. CASE p = c
      <4>1. PICK x \in Carried(c, w) : x # t
        BY <2>2, <2>4, <3>3
      <4> QED BY <1>2, <1>5, <1>6, <3>3, <4>1 DEF Carried
    <3> QED BY <3>2, <3>3
  <2> QED BY <2>3, <2>4 DEF HeldWithout
<1>8. HeldWithout(t, h)
  BY <1>7 DEF HeldWithout
<1>9. LetsGo(t, w, h)
  BY <1>3, <1>4, <1>5, <1>8 DEF LetsGo, DetachGives
<1> QED BY <1>9 DEF h

LEMMA MakeBall ==
    ASSUME server \in Servers, NEW w, Sound(w), NEW t \in Treasures,
           w.carrier[t] = NO_ID, w.ball_owner[t] = NO_ID
    PROVE  LET h == Make_treasure_ball(t, w)
           IN  /\ Sound(h) /\ SamePlayers(w, h) /\ SameCounts(w, h) /\ h.carrier = w.carrier
               /\ h.balls \in {w.balls, w.balls \cup {t}}
               /\ t \notin w.have => AllBalls \cap (w.recreate \cup {t}) \subseteq h.recreate
<1> DEFINE h == [w EXCEPT !.balls = @ \cup {t}, !.recreate = @ \cup {t}, !.have = @ \cup {t}]
<1>1. Whole(w) /\ Held(w) /\ w \in Worlds
  BY DEF Sound, Whole
<1>2. /\ h \in Worlds /\ h.balls = w.balls \cup {t} /\ h.recreate = w.recreate \cup {t}
      /\ h.have = w.have \cup {t} /\ h.dying = w.dying /\ h.fused = w.fused
      /\ h.carrier = w.carrier /\ h.ball_owner = w.ball_owner /\ h.HAS_BALL = w.HAS_BALL
      /\ SamePlayers(w, h)
  BY <1>1, ZenonT(60) DEF Worlds, SamePlayers
<1>l. SameCounts(w, h)
  BY <1>1 DEF Worlds, SameCounts
<1> HIDE DEF h
<1>3. Present(h) = Present(w)
  BY <1>2 DEF SamePlayers, Present
<1>4. Whole(h)
  BY <1>1, <1>2, <1>3 DEF Whole, Named, Owned, SamePlayers
<1>5. Held(h)
  BY <1>1, <1>2 DEF Held, SamePlayers
<1>6. SamePlayers(w, w) /\ SameCounts(w, w)
  BY DEF SamePlayers, SameCounts
<1>7. Make_treasure_ball(t, w) = IF t \in w.have \/ t \in server.empty THEN w ELSE h
  BY DEF Make_treasure_ball, h
<1>8. t \in server.empty => AllBalls \cap (w.recreate \cup {t}) \subseteq w.recreate
  BY DEF AllBalls
<1> QED BY <1>2, <1>l, <1>4, <1>5, <1>6, <1>7, <1>8 DEF Sound

LEMMA DeleteShot ==
    ASSUME server \in Servers, NEW w, Sound(w), NEW t \in w.balls
    PROVE  DeleteGives(t, w, Delete_shot(t, w))
<1> DEFINE n == [w EXCEPT !.aim = [p \in Players |-> IF @[p] = t THEN NO_BALL ELSE @[p]]]
           v == IF w.carrier[t] # NO_ID THEN Detach_ball(w.carrier[t], {t}, w) ELSE n
           never == w.ball_owner[t] = NO_ID
           f == [v EXCEPT !.balls = @ \ {t}, !.dying = @ \ {t}, !.recreate = @ \ {t},
                          !.fused = @ \ {t}, !.carrier[t] = NO_ID, !.ball_owner[t] = NO_ID,
                          !.have = IF never THEN @ \ {t} ELSE @]
<1>1. Whole(w) /\ Held(w) /\ w \in Worlds
  BY DEF Sound, Whole
<1>2. t \in Treasures /\ w.balls \subseteq Treasures
  BY <1>1, Fields
<1>3. LetsGo(t, w, v)
  <2>1. CASE w.carrier[t] # NO_ID
    BY <2>1, DetachOne
  <2>2. CASE w.carrier[t] = NO_ID
    <3>1. [p \in Players |-> IF w.aim[p] = t THEN NO_BALL ELSE w.aim[p]]
              \in [Players -> Treasures \cup {NO_BALL}]
      BY <1>1, Fields
    <3>2. n \in Worlds /\ SamePlayers(w, n) /\ SameBalls(w, n) /\ SameCounts(w, n)
      BY <1>1, <3>1 DEF Worlds, SamePlayers, SameBalls, SameCounts
    <3> HIDE DEF n
    <3>3. Whole(n) /\ Same(w, n) /\ Held(n)
      BY <1>1, <3>2, WholeAs
    <3>4. n.carrier = w.carrier
      BY <3>2 DEF SameBalls
    <3>5. HeldWithout(t, n)
      <4>1. \A p \in n.HAS_BALL : p # NO_ID
        BY <3>3, Fields, Options DEF Whole
      <4> QED BY <2>2, <3>3, <3>4, <4>1 DEF Held, HeldWithout
    <3>6. LetsGo(t, w, n)
      BY <3>2, <3>3, <3>4, <3>5 DEF LetsGo, SameBalls
    <3> QED BY <2>2, <3>6
  <2> QED BY <2>1, <2>2
<1> HIDE DEF v
<1>4. Whole(v) /\ v \in Worlds /\ HeldWithout(t, v) /\ v.balls = w.balls
  BY <1>3 DEF LetsGo, Whole, Same
<1>5. /\ f \in Worlds /\ f.balls = v.balls \ {t} /\ f.dying = v.dying \ {t}
      /\ f.recreate = v.recreate \ {t} /\ f.fused = v.fused \ {t}
      /\ f.carrier = [v.carrier EXCEPT ![t] = NO_ID]
      /\ f.ball_owner = [v.ball_owner EXCEPT ![t] = NO_ID]
      /\ f.have = IF never THEN v.have \ {t} ELSE v.have
      /\ f.HAS_BALL = v.HAS_BALL /\ SamePlayers(v, f)
  BY <1>2, <1>4, ZenonT(60) DEF Worlds, SamePlayers
<1>l. SamePlayers(w, f) /\ SameCounts(w, f) /\ f.recreate = w.recreate \ {t}
  <2>1. SameCounts(v, f)
    BY <1>4 DEF Worlds, SameCounts
  <2> HIDE DEF f
  <2> QED BY <1>3, <1>5, <2>1 DEF LetsGo, SamePlayers, SameCounts
<1> HIDE DEF f
<1>6. v.carrier \in [Treasures -> Players \cup {NO_ID}]
      /\ v.ball_owner \in [Treasures -> Players \cup {NO_ID}] /\ v.have \subseteq Treasures
      /\ w.carrier \in [Treasures -> Players \cup {NO_ID}]
  BY <1>1, <1>4, Fields
<1>7. f.carrier = [w.carrier EXCEPT ![t] = NO_ID]
  BY <1>2, <1>3, <1>5, <1>6 DEF LetsGo
<1>8. t \notin f.have
  <2>1. t \in w.have => never
    BY <1>1 DEF Whole, Owned
  <2> QED BY <1>3, <1>5, <2>1 DEF LetsGo
<1>9. Present(f) = Present(v) /\ Present(f) = Present(w)
  BY <1>3, <1>5 DEF LetsGo, Same, SamePlayers, Present
<1>10. Named(f)
  BY <1>4, <1>5, <1>8, <1>9 DEF Whole, Named, SamePlayers
<1>11. Owned(f)
  BY <1>2, <1>4, <1>5, <1>6, <1>8, <1>9 DEF Whole, Owned
<1>12. Held(f)
  BY <1>2, <1>4, <1>5, <1>6 DEF HeldWithout, Held, SamePlayers
<1>13. Sound(f)
  BY <1>5, <1>10, <1>11, <1>12 DEF Sound, Whole
<1>14. t \notin w.recreate => DeleteGives(t, w, f)
  <2>1. t \notin w.recreate => SameLives(w, f)
    BY <1>1, <1>l, TreasuresStay
  <2> QED BY <1>4, <1>5, <1>7, <1>l, <1>13, <2>1 DEF DeleteGives
<1>15. f.carrier[t] = NO_ID /\ f.ball_owner[t] = NO_ID
  BY <1>2, <1>5, <1>6
<1> DEFINE h == Make_treasure_ball(t, f)
<1>16. /\ Sound(h) /\ SamePlayers(f, h) /\ SameCounts(f, h) /\ h.carrier = f.carrier
       /\ h.balls \in {f.balls, f.balls \cup {t}}
       /\ AllBalls \cap (f.recreate \cup {t}) \subseteq h.recreate
  BY <1>2, <1>8, <1>13, <1>15, MakeBall
<1> HIDE DEF h
<1>17. DeleteGives(t, w, h)
  <2>0. SameCounts(w, h) /\ AllBalls \cap w.recreate \subseteq h.recreate
    BY <1>l, <1>16 DEF SameCounts
  <2>1. SamePlayers(w, h) /\ SameLives(w, h)
    BY <1>1, <1>l, <1>16, <2>0, TreasuresStay DEF SamePlayers
  <2> QED BY <1>4, <1>5, <1>7, <1>16, <2>1 DEF DeleteGives
<1>18. Delete_shot(t, w) = IF never \/ t \in w.recreate THEN h ELSE f
  BY DEF Delete_shot, v, f, h
<1> QED BY <1>14, <1>17, <1>18

\* What deletion of the balls B gives, when the part s of them is done.
DeletedGives(s, B, w, h) ==
    /\ Sound(h) /\ SamePlayers(w, h) /\ SameLives(w, h)
    /\ h.balls \subseteq w.balls /\ B \ s \subseteq h.balls
    /\ \A t \in Treasures : h.carrier[t] = IF t \in s THEN NO_ID ELSE w.carrier[t]

LEMMA DeleteBalls ==
    ASSUME server \in Servers, NEW w, Sound(w), NEW B \in SUBSET w.balls
    PROVE  DeletedGives(B, B, w, FoldSet(Delete_shot, w, B))
<1> DEFINE F == [t \in B |-> [v \in Worlds |-> Delete_shot(t, v)]]
           Is(f) == f = [s \in SUBSET B |-> IF s = {} THEN w
                                            ELSE Delete_shot(First(s), f[s \ {First(s)}])]
<1>1. IsFiniteSet(B) /\ w \in Worlds
  BY Fields, Options, FS_Subset DEF Sound, Whole
<1>2. ASSUME NEW s \in SUBSET B, s # {}, NEW v, DeletedGives(s \ {First(s)}, B, w, v)
      PROVE  DeletedGives(s, B, w, Delete_shot(First(s), v))
  <2> DEFINE t == First(s)
             h == Delete_shot(t, v)
  <2>1. t \in s
    BY <1>2, FirstIn
  <2>0. DeletedGives(s \ {t}, B, w, v)
    BY <1>2
  <2> HIDE DEF t
  <2>2. Sound(v) /\ t \in v.balls
    BY <2>0, <2>1 DEF DeletedGives
  <2>3. DeleteGives(t, v, h)
    BY <2>2, DeleteShot
  <2>4. w.balls \subseteq Treasures /\ v.carrier \in [Treasures -> Players \cup {NO_ID}]
    BY <1>1, <2>2, Fields DEF Sound, Whole
  <2> HIDE DEF h
  <2>5. \A u \in Treasures : v.carrier[u] = IF u \in s \ {t} THEN NO_ID ELSE w.carrier[u]
    BY <2>0 DEF DeletedGives
  <2>6. \A u \in Treasures : h.carrier[u] = IF u \in s THEN NO_ID ELSE w.carrier[u]
    BY <2>1, <2>3, <2>4, <2>5 DEF DeleteGives
  <2>7. h.balls \subseteq w.balls /\ B \ s \subseteq h.balls
    BY <2>0, <2>1, <2>3 DEF DeletedGives, DeleteGives
  <2>8. Sound(h) /\ SamePlayers(w, h) /\ SameLives(w, h)
    BY <2>0, <2>3 DEF DeletedGives, DeleteGives, SamePlayers, SameLives, SameRound, Saves
  <2>9. DeletedGives(s, B, w, h)
    BY <2>6, <2>7, <2>8 DEF DeletedGives
  <2> QED BY <2>9 DEF h, t
<1>3. DeletedGives({}, B, w, w)
  BY DEF DeletedGives, SamePlayers, SameLives, SameRound, Saves
<1>4. \A s, v : DeletedGives(s, B, w, v) => v \in Worlds
  BY DEF DeletedGives, Sound, Whole
<1>5. ASSUME NEW f, f[{}] = w,
             \A s \in SUBSET B : s # {} /\ f[s \ {First(s)}] \in Worlds =>
                 f[s] = Delete_shot(First(s), f[s \ {First(s)}])
      PROVE  \A s \in SUBSET B : DeletedGives(s, B, w, f[s])
  <2> DEFINE G == {s \in SUBSET B : DeletedGives(s, B, w, f[s])}
  <2>1. {} \in G
    BY <1>3, <1>5
  <2>2. ASSUME NEW s \in SUBSET B, s # {}, s \ {First(s)} \in G PROVE s \in G
    <3>1. First(s) \in B
      BY <2>2, FirstIn
    <3>2. f[s \ {First(s)}] \in Worlds
      BY <1>4, <2>2
    <3>3. f[s] = Delete_shot(First(s), f[s \ {First(s)}])
      BY <1>5, <2>2, <3>1, <3>2
    <3> QED BY <1>2, <2>2, <3>3
  <2> HIDE DEF G
  <2>3. SUBSET B \subseteq G
    BY <1>1, <2>1, <2>2, SubsetInduction
  <2> QED BY <2>3 DEF G
<1>6. \E f : Is(f)
  <2>1. PICK f : IsFold(f, B, w, F)
    BY <1>1, FoldExists
  <2>2. ASSUME NEW s \in SUBSET B, s # {}, f[s \ {First(s)}] \in Worlds
        PROVE  f[s] = Delete_shot(First(s), f[s \ {First(s)}])
    <3>1. First(s) \in B
      BY <2>2, FirstIn
    <3>2. f[s] = F[First(s)][f[s \ {First(s)}]]
      BY <2>1, <2>2 DEF IsFold
    <3> QED BY <2>2, <3>1, <3>2
  <2>3. f[{}] = w
    BY <2>1 DEF IsFold
  <2>4. \A s \in SUBSET B : f[s] \in Worlds
    BY <1>4, <1>5, <2>2, <2>3
  <2>5. \A s \in SUBSET B : f[s] = IF s = {} THEN w ELSE Delete_shot(First(s), f[s \ {First(s)}])
    BY <2>2, <2>3, <2>4
  <2>6. Is(f)
    <3>1. f = [s \in SUBSET B |-> f[s]]
      BY <2>1 DEF IsFold
    <3> QED BY <2>5, <3>1
  <2> QED BY <2>6
<1> DEFINE d == CHOOSE f : Is(f)
<1>7. Is(d)
  BY <1>6
<1>8. FoldSet(Delete_shot, w, B) = d[B]
  BY DEF FoldSet, MapThenFoldSet, First
<1> HIDE DEF d
<1>9. \A s \in SUBSET B : d[s] = IF s = {} THEN w ELSE Delete_shot(First(s), d[s \ {First(s)}])
  BY <1>7
<1>10. DeletedGives(B, B, w, d[B])
  BY <1>5, <1>9
<1> QED BY <1>8, <1>10

\* Who leaves takes his ball along, and owns none.
LeaveGives(p, w, h) ==
    Sound(h) /\ Present(h) = Present(w) \ {p} /\ h.balls \subseteq w.balls /\ Falls(w, h)

LEMMA DeletePlayer ==
    ASSUME server \in Servers, NEW w, Sound(w), NEW p \in Players
    PROVE  LeaveGives(p, w, Delete_player(p, w))
<1> DEFINE C == Carried(p, w)
           v == FoldSet(Delete_shot, w, C)
           o == [t \in Treasures |-> IF v.ball_owner[t] = p THEN NO_ID ELSE v.ball_owner[t]]
           d == [v EXCEPT !.ball_owner = o]
           h == [d EXCEPT
                    !.state[p] = "out", !.life[p] = 0, !.aim[p] = NO_BALL, !.HAS_BALL = @ \ {p},
                    !.recovering = @ \ {p}, !.pausing = @ \ {p}, !.destructing = @ \ {p},
                    !.round[p] = 0, !.FINISH = @ \ {p}, !.RACE_OVER = @ \ {p}]
<1>1. C \in SUBSET w.balls /\ w \in Worlds /\ w.balls \subseteq Treasures
  BY Fields DEF Carried, Sound, Whole
<1>2. DeletedGives(C, C, w, v)
  BY <1>1, DeleteBalls
<1>3. Delete_player(p, w) = h
  <2>1. v = FoldSet(Delete_shot, w, Carried(p, w))
    OBVIOUS
  <2> HIDE DEF v
  <2> QED BY <2>1 DEF Delete_player, Delete_players_balls
<1> HIDE DEF v
<1>4. v \in Worlds /\ Whole(v) /\ Held(v) /\ v.balls \subseteq w.balls /\ Present(v) = Present(w)
  BY <1>2 DEF DeletedGives, SamePlayers, Present, Sound, Whole
<1>5. \A t \in v.balls : v.carrier[t] # p
  <2>1. p # NO_ID
    BY Options
  <2> QED BY <1>1, <1>2, <1>4, <2>1 DEF DeletedGives, Carried
<1>6. o \in [Treasures -> Players \cup {NO_ID}]
  BY <1>4, Fields
<1> HIDE DEF C, o
<1>7. /\ d \in Worlds /\ SamePlayers(v, d) /\ d.ball_owner = o /\ d.carrier = v.carrier
      /\ d.balls = v.balls /\ d.have = v.have /\ d.recreate = v.recreate /\ d.dying = v.dying
      /\ d.fused = v.fused /\ d.HAS_BALL = v.HAS_BALL /\ SameLives(v, d)
  BY <1>4, <1>6 DEF Worlds, SamePlayers, SameLives, SameRound, Saves, Saved
<1> HIDE DEF d
<1>8. /\ [d.state EXCEPT ![p] = "out"] \in [Players -> States]
      /\ [d.life EXCEPT ![p] = 0] \in [Players -> 0 .. server.lives]
      /\ [d.aim EXCEPT ![p] = NO_BALL] \in [Players -> Treasures \cup {NO_BALL}]
      /\ [d.round EXCEPT ![p] = 0] \in [Players -> 0 .. server.raceLaps + 1]
  BY <1>7, Fields, Options DEF States
<1>9. h \in Worlds
  <2> DEFINE e == [d EXCEPT !.state[p] = "out", !.life[p] = 0, !.aim[p] = NO_BALL]
             g == [e EXCEPT !.HAS_BALL = @ \ {p}, !.recovering = @ \ {p}, !.pausing = @ \ {p},
                            !.destructing = @ \ {p}]
             k == [g EXCEPT !.round[p] = 0, !.FINISH = @ \ {p}, !.RACE_OVER = @ \ {p}]
  <2>1. h = k
    OBVIOUS
  <2>2. e \in Worlds /\ e.round = d.round
    BY <1>7, <1>8 DEF Worlds
  <2> HIDE DEF e, h
  <2>3. g \in Worlds /\ g.round = d.round
    BY <2>2 DEF Worlds
  <2> HIDE DEF g
  <2>4. k \in Worlds
    BY <1>8, <2>3 DEF Worlds
  <2> HIDE DEF k
  <2> QED BY <2>1, <2>4
<1>10. /\ h.state = [d.state EXCEPT ![p] = "out"] /\ h.HAS_BALL = d.HAS_BALL \ {p}
       /\ h.recovering = d.recovering \ {p} /\ h.pausing = d.pausing \ {p}
       /\ h.destructing = d.destructing \ {p}
       /\ h.FINISH = d.FINISH \ {p} /\ h.RACE_OVER = d.RACE_OVER \ {p}
       /\ h.balls = d.balls /\ h.have = d.have /\ h.recreate = d.recreate /\ h.dying = d.dying
       /\ h.fused = d.fused /\ h.carrier = d.carrier /\ h.ball_owner = d.ball_owner
  BY <1>7 DEF Worlds
<1>l. h.life = [d.life EXCEPT ![p] = 0] /\ SameRound(d, h)
  BY <1>7 DEF Worlds, SameRound, Saves, Saved
<1> HIDE DEF h
<1>11. d.state \in [Players -> States] /\ d.state = v.state
  BY <1>7, Fields DEF SamePlayers
<1>12. Present(h) = Present(w) \ {p}
  BY <1>4, <1>10, <1>11 DEF Present
<1>13. Named(h)
  BY <1>4, <1>7, <1>10, <1>12 DEF Whole, Named, SamePlayers
<1>14. v.balls \subseteq Treasures /\ v.have \subseteq Treasures
       /\ \A t \in Treasures : o[t] = IF v.ball_owner[t] = p THEN NO_ID ELSE v.ball_owner[t]
  BY <1>4, Fields DEF o
<1>15. Owned(h)
  BY <1>4, <1>5, <1>7, <1>10, <1>12, <1>14 DEF Whole, Owned
<1>16. Held(h)
  <2>1. \A t \in v.balls : v.carrier[t] # NO_ID => v.carrier[t] \in Players
    BY <1>4 DEF Whole, Owned, Present
  <2> QED BY <1>4, <1>5, <1>7, <1>10, <1>11, <2>1 DEF Held
<1>f. Falls(w, h)
  <2>1. SamePlayers(w, d) /\ SameLives(w, d) /\ d.life \in [Players -> 0 .. server.lives]
    BY <1>2, <1>7, Fields DEF DeletedGives, SamePlayers, SameLives, SameRound, Saves
  <2>2. /\ SameRound(w, h) /\ h.destructing = w.destructing \ {p}
        /\ \A q \in Players : /\ h.state[q] = IF q = p THEN "out" ELSE w.state[q]
                              /\ h.life[q] = IF q = p THEN 0 ELSE w.life[q]
    BY <1>l, <1>10, <1>11, <2>1 DEF SamePlayers, SameLives, SameRound, Saves
  <2>3. Rests(w, h) /\ (Fit(w) => Fit(h))
    BY <2>2 DEF Rests, Fit, Naps, SameRound, Saves
  <2>4. Gone(w) \subseteq Gone(h)
    BY <2>2 DEF Gone
  <2> QED BY <2>3, <2>4 DEF Falls
<1>17. LeaveGives(p, w, h)
  BY <1>4, <1>7, <1>9, <1>10, <1>12, <1>13, <1>15, <1>16, <1>f DEF LeaveGives, Sound, Whole
<1> QED BY <1>3, <1>17

-----------------------------------------------------------------------------
(* Goals.                                                                  *)

\* Marks on balls change, some are no longer safe.
Marked(w, h) ==
    /\ SamePlayers(w, h) /\ SameLives(w, h) /\ h.balls = w.balls /\ h.have \subseteq w.have
    /\ h.dying \subseteq w.balls /\ h.recreate \subseteq w.balls /\ h.fused \subseteq w.balls
    /\ h.carrier = w.carrier /\ h.ball_owner = w.ball_owner /\ h.HAS_BALL = w.HAS_BALL

LEMMA MarksKept ==
    ASSUME NEW w, Sound(w), NEW h \in Worlds, Marked(w, h)
    PROVE  Kept(w, h)
<1>1. Present(h) = Present(w)
  BY DEF Marked, SamePlayers, Present
<1>2. Named(h)
  BY <1>1 DEF Sound, Whole, Named, Marked, SamePlayers
<1>3. Owned(h)
  BY <1>1 DEF Sound, Whole, Owned, Marked
<1>4. Held(h)
  BY DEF Sound, Held, Marked, SamePlayers
<1>5. Falls(w, h)
  BY FallsAs DEF Marked
<1> QED BY <1>1, <1>2, <1>3, <1>4, <1>5 DEF Kept, Same, Sound, Whole, Marked

\* So it is when nothing that soundness and rounds are about changes.
LEMMA AlikeKept ==
    ASSUME NEW w, Sound(w), NEW h \in Worlds, SamePlayers(w, h), SameLives(w, h), SameBalls(w, h)
    PROVE  Kept(w, h)
BY WholeAs, FallsAs DEF Kept, Sound

LEMMA SoundNamed ==
    ASSUME NEW w, Sound(w)
    PROVE  /\ w \in Worlds /\ w.balls \subseteq Treasures /\ w.have \subseteq w.balls
           /\ w.dying \subseteq w.balls /\ w.recreate \subseteq w.balls /\ w.fused \subseteq w.balls
           /\ Kept(w, w)
<1>1. w \in Worlds
  BY DEF Sound, Whole
<1>2. SamePlayers(w, w) /\ SameLives(w, w) /\ SameBalls(w, w)
  BY DEF SamePlayers, SameLives, SameRound, Saves, SameBalls
<1> QED BY <1>1, <1>2, AlikeKept, Fields DEF Sound, Whole, Named

\* Whoever is killed was not dead, unless in a game of teams.
LEMMA KilledKept ==
    ASSUME server \in Servers, NEW w, Sound(w), NEW P \in SUBSET Present(w),
           server.limitedLives /\ Fit(w) /\ ~w.over =>
               \A p \in P : w.state[p] = "dead" => server.teamPlay
    PROVE  Kept(w, Player_set_state(P, "killed", w))
<1> DEFINE h == Player_set_state(P, "killed", w)
<1>1. SetGives(P, "killed", w, h)
  <2>1. "killed" \in States \ {"out"}
    BY DEF States
  <2> QED BY <2>1, SetStateWhole DEF Sound
<1> HIDE DEF h
<1>2. Sound(h)
  BY <1>1, SetStateHeld
<1>3. /\ SameRound(w, h) /\ h.destructing = w.destructing
      /\ \A p \in Players : /\ h.state[p] = IF p \in P THEN "killed" ELSE w.state[p]
                            /\ h.life[p] = w.life[p]
  BY <1>1 DEF SetGives
<1>4. Rests(w, h) /\ (Fit(w) => Fit(h))
  BY <1>3 DEF Rests, Fit, Naps, SameRound, Saves
<1>5. ASSUME server.limitedLives, Fit(w), ~w.over PROVE Gone(w) \subseteq Gone(h)
  BY <1>3, <1>5 DEF Gone, Present
<1>6. Falls(w, h)
  BY <1>4, <1>5 DEF Falls
<1>7. Kept(w, h)
  BY <1>1, <1>2, <1>6 DEF Kept, SetGives
<1> QED BY <1>7 DEF h

LEMMA Counted ==
    ASSUME NEW S, NEW f \in [S -> Int], NEW x
    PROVE  [f EXCEPT ![x] = @ - 1] \in [S -> Int] /\ [f EXCEPT ![x] = @ + 1] \in [S -> Int]
<1>1. CASE x \in S
  BY <1>1
<1>2. CASE x \notin S
  <2>1. [f EXCEPT ![x] = @ - 1] = f /\ [f EXCEPT ![x] = @ + 1] = f
    BY <1>2
  <2> QED BY <2>1
<1> QED BY <1>1, <1>2

LEMMA PunishKept ==
    ASSUME server \in Servers, NEW w, Sound(w), NEW p, NEW t, server.teamPlay
    PROVE  Kept(w, Punish_team(p, t, w))
<1> DEFINE l == [w.TreasuresLeft EXCEPT ![Team[t]] = @ - 1]
           d == [w.TreasuresDestroyed EXCEPT ![Team[p]] = @ + 1]
           a == [w EXCEPT !.TreasuresLeft = l, !.TreasuresDestroyed = d, !.recreate = @ \ {t}]
           w1 == [w EXCEPT !.TreasuresLeft[Team[t]] = @ - 1,
                           !.TreasuresDestroyed[Team[p]] = @ + 1,
                           !.recreate = @ \ {t}]
           M == InPlay(Team[t], w)
<1>1. w \in Worlds /\ w.recreate \subseteq w.balls
  BY SoundNamed
<1>2. l \in [Teams -> Int] /\ d \in [Teams -> Int]
  BY <1>1, Fields, Counted
<1>3. w1 = a
  BY <1>1 DEF Worlds
<1> HIDE DEF l, d
<1>4. a \in Worlds /\ SamePlayers(w, a) /\ a.recreate = w.recreate \ {t} /\ a.balls = w.balls
      /\ a.have = w.have /\ a.dying = w.dying /\ a.fused = w.fused /\ a.carrier = w.carrier
      /\ a.ball_owner = w.ball_owner /\ a.HAS_BALL = w.HAS_BALL
      /\ a.life = w.life /\ a.over = w.over /\ a.roundtime = w.roundtime
      /\ a.roundsPlayed = w.roundsPlayed /\ a.TreasuresLeft = l
  BY <1>1, <1>2 DEF Worlds, SamePlayers
<1> HIDE DEF a, w1
<1>s. SameLives(w, a)
  <2>1. ASSUME NEW x \in Teams, Cardinality(TreasuresOf(x) \cap w.recreate) >= w.TreasuresLeft[x]
        PROVE  Cardinality(TreasuresOf(x) \cap a.recreate) >= a.TreasuresLeft[x]
    <3> DEFINE old == TreasuresOf(x) \cap w.recreate
               new == TreasuresOf(x) \cap a.recreate
    <3>1. /\ w.TreasuresLeft \in [Teams -> Int]
          /\ l[x] = IF x = Team[t] THEN w.TreasuresLeft[x] - 1 ELSE w.TreasuresLeft[x]
      BY <1>1, Fields DEF l
    <3>2. w.TreasuresLeft[x] \in Int
      BY <3>1
    <3>3. IsFiniteSet(old) /\ Cardinality(old) \in Nat
      BY TreasuresFinite
    <3>4. Cardinality(old) >= w.TreasuresLeft[x]
      BY <2>1
    <3>5. new = old \/ (x = Team[t] /\ t \in old /\ new = old \ {t})
      BY <1>4 DEF TreasuresOf
    <3> HIDE DEF old, new
    <3>6. t \in old /\ new = old \ {t} => Cardinality(new) = Cardinality(old) - 1
      BY <3>3, FS_RemoveElement
    <3>7. Cardinality(new) >= l[x]
      BY <3>1, <3>2, <3>3, <3>4, <3>5, <3>6
    <3> QED BY <1>4, <3>7 DEF new
  <2>2. Saves(w, a)
    BY <2>1 DEF Saves, Saved
  <2> QED BY <1>4, <2>2 DEF SameLives, SameRound
<1>5. Marked(w, a)
  BY <1>1, <1>4, <1>s, SoundNamed DEF Marked
<1>6. Kept(w, a)
  BY <1>4, <1>5, MarksKept
<1>7. Kept(w, Player_set_state(M, "killed", a))
  <2>1. M \in SUBSET Present(a) /\ Sound(a)
    BY <1>6 DEF InPlay, Kept, Same
  <2>2. Kept(a, Player_set_state(M, "killed", a))
    BY <2>1, KilledKept
  <2> QED BY <1>6, <2>2, KeptAgain
<1>8. Punish_team(p, t, w) \in {w, Player_set_state(M, "killed", a), a}
  BY <1>3 DEF Punish_team, w1
<1> QED BY <1>6, <1>7, <1>8, SoundNamed

LEMMA GoalKept ==
    ASSUME server \in Servers, NEW w, Sound(w), NEW t \in w.balls, NEW g
    PROVE  Kept(w, Ball_hits_goal(t, g, w))
<1> DEFINE o == w.ball_owner[t]
           r == [w EXCEPT !.recreate = @ \cup {t}]
           v == IF o = NO_ID THEN r
                ELSE IF ~server.teamPlay \/ Team[g] # Team[o] THEN w
                ELSE IF Team[t] = Team[g] THEN r
                ELSE IF server.captureTheFlag /\ g \notin w.have \cup server.empty THEN w
                ELSE Punish_team(o, t, w)
           h == [v EXCEPT !.dying = @ \cup {t}]
<1>1. /\ w \in Worlds /\ w.dying \subseteq w.balls /\ w.recreate \subseteq w.balls
      /\ w.fused \subseteq w.balls /\ w.balls \subseteq Treasures
  BY SoundNamed
<1>2. r \in Worlds /\ Marked(w, r)
  <2>1. /\ r \in Worlds /\ SamePlayers(w, r) /\ r.balls = w.balls /\ r.have = w.have
        /\ r.dying = w.dying /\ r.recreate = w.recreate \cup {t} /\ r.fused = w.fused
        /\ r.carrier = w.carrier /\ r.ball_owner = w.ball_owner /\ r.HAS_BALL = w.HAS_BALL
    BY <1>1, ZenonT(60) DEF Worlds, SamePlayers
  <2>2. SameCounts(w, r)
    BY <1>1 DEF Worlds, SameCounts
  <2> HIDE DEF r
  <2>3. SameLives(w, r)
    BY <1>1, <2>1, <2>2, TreasuresStay
  <2> QED BY <1>1, <2>1, <2>3 DEF Marked
<1>3. Kept(w, r)
  BY <1>2, MarksKept
<1> HIDE DEF r
<1>4. Kept(w, v)
  BY <1>3, PunishKept, SoundNamed
<1>5. Ball_hits_goal(t, g, w) = h
  BY DEF Ball_hits_goal, r
<1> HIDE DEF v
<1>6. /\ v \in Worlds /\ t \in v.balls /\ v.dying \subseteq v.balls /\ v.recreate \subseteq v.balls
      /\ v.fused \subseteq v.balls /\ v.balls \subseteq Treasures
  BY <1>4, SoundNamed DEF Kept, Same
<1>7. h \in Worlds /\ Marked(v, h)
  BY <1>6, SMTT(40) DEF Worlds, Marked, SamePlayers, SameLives, SameRound, Saves, Saved
<1>8. Kept(v, h)
  BY <1>4, <1>7, MarksKept DEF Kept
<1> QED BY <1>4, <1>5, <1>8, KeptAgain

LEMMA MayHitKept ==
    ASSUME server \in Servers, NEW w, Sound(w), NEW t \in w.balls, NEW h \in MayHit(t, w)
    PROVE  Kept(w, h)
BY GoalKept, SoundNamed DEF MayHit

LEMMA MoveKept ==
    ASSUME server \in Servers, NEW w, Sound(w), NEW t \in w.balls, NEW h \in Move_object(t, w)
    PROVE  Kept(w, h)
<1> DEFINE d == [w EXCEPT !.dying = @ \cup {t}]
<1>1. /\ w \in Worlds /\ w.dying \subseteq w.balls /\ w.recreate \subseteq w.balls
      /\ w.fused \subseteq w.balls /\ w.balls \subseteq Treasures
  BY SoundNamed
<1>2. d \in Worlds /\ Marked(w, d)
  BY <1>1, SMTT(40) DEF Worlds, Marked, SamePlayers, SameLives, SameRound, Saves, Saved
<1>3. Kept(w, d)
  BY <1>2, MarksKept
<1> HIDE DEF d
<1>4. h \in MayHit(t, w) \/ h = d
  BY DEF Move_object, d
<1> QED BY <1>3, <1>4, MayHitKept

LEMMA DetachKept ==
    ASSUME server \in Servers, NEW w, Sound(w), NEW p \in Players, NEW B
    PROVE  Kept(w, Detach_ball(p, B, w))
BY DetachWhole DEF Sound, Kept

LEMMA MovedKept ==
    ASSUME server \in Servers, NEW w, Sound(w), NEW t \in w.balls, NEW h \in Moved(t, w)
    PROVE  Kept(w, h)
<1> DEFINE v == [w EXCEPT !.fused = @ \ {t}]
           x0 == Detach_ball(w.carrier[t], {t}, v)
<1>1. /\ w \in Worlds /\ w.dying \subseteq w.balls /\ w.recreate \subseteq w.balls
      /\ w.fused \subseteq w.balls /\ w.balls \subseteq Treasures
      /\ w.carrier \in [Treasures -> Players \cup {NO_ID}]
  BY SoundNamed, Fields
<1>2. v \in Worlds /\ Marked(w, v)
  BY <1>1, SMTT(40) DEF Worlds, Marked, SamePlayers, SameLives, SameRound, Saves, Saved
<1>3. Kept(w, v)
  BY <1>2, MarksKept
<1> HIDE DEF v
<1>4. ASSUME w.carrier[t] # NO_ID PROVE Kept(w, x0)
  <2>1. w.carrier[t] \in Players /\ Sound(v)
    BY <1>1, <1>3, <1>4 DEF Kept
  <2>2. Kept(v, x0)
    BY <2>1, DetachKept
  <2> QED BY <1>3, <2>2, KeptAgain
<1> HIDE DEF x0
<1>5. PICK x : /\ x = v \/ (w.carrier[t] # NO_ID /\ x = x0)
               /\ h \in IF t \in x.have THEN MayHit(t, x) ELSE Move_object(t, x)
  BY DEF Moved, v, x0
<1>6. Kept(w, x)
  BY <1>3, <1>4, <1>5
<1>7. Sound(x) /\ t \in x.balls
  BY <1>6 DEF Kept, Same
<1>8. Kept(x, h)
  BY <1>5, <1>7, MayHitKept, MoveKept
<1> QED BY <1>6, <1>8, KeptAgain

-----------------------------------------------------------------------------
(* Players and balls.                                                      *)

\* Only what somebody aims at is changed.
LEMMA AimKept ==
    ASSUME server \in Servers, NEW w, Sound(w), NEW p, NEW t \in Treasures \cup {NO_BALL}
    PROVE  Kept(w, [w EXCEPT !.aim[p] = t])
<1> DEFINE a == [w.aim EXCEPT ![p] = t]
           h == [w EXCEPT !.aim[p] = t]
<1>1. w \in Worlds
  BY SoundNamed
<1>2. a \in [Players -> Treasures \cup {NO_BALL}]
  BY <1>1, Fields
<1>3. h \in Worlds /\ SamePlayers(w, h) /\ SameBalls(w, h) /\ SameLives(w, h)
  BY <1>1, <1>2 DEF Worlds, SamePlayers, SameBalls, SameLives, SameRound, Saves, Saved
<1> HIDE DEF h
<1>4. Kept(w, h)
  BY <1>3, AlikeKept
<1> QED BY <1>4 DEF h

LEMMA OwnerKept ==
    ASSUME server \in Servers, NEW w, Sound(w), NEW t \in w.balls, t \notin w.have,
           NEW p \in Present(w)
    PROVE  Kept(w, [w EXCEPT !.ball_owner[t] = p])
<1> DEFINE o == [w.ball_owner EXCEPT ![t] = p]
           h == [w EXCEPT !.ball_owner[t] = p]
<1>1. w \in Worlds /\ p \in Players /\ w.balls \subseteq Treasures /\ w.have \subseteq w.balls
  BY SoundNamed DEF Present
<1>2. /\ o \in [Treasures -> Players \cup {NO_ID}]
      /\ \A u \in Treasures : o[u] = IF u = t THEN p ELSE w.ball_owner[u]
  BY <1>1, Fields
<1>3. h = [w EXCEPT !.ball_owner = o]
  OBVIOUS
<1> HIDE DEF o, h
<1>4. /\ h \in Worlds /\ SamePlayers(w, h) /\ h.ball_owner = o /\ h.carrier = w.carrier
      /\ h.balls = w.balls /\ h.have = w.have /\ h.recreate = w.recreate /\ h.dying = w.dying
      /\ h.fused = w.fused /\ h.HAS_BALL = w.HAS_BALL
  BY <1>1, <1>2, <1>3, ZenonT(60) DEF Worlds, SamePlayers
<1>l. SameLives(w, h)
  BY <1>1, <1>3 DEF Worlds, SameLives, SameRound, Saves, Saved
<1>5. Present(h) = Present(w)
  BY <1>4 DEF SamePlayers, Present
<1>6. Named(h) /\ Held(h)
  BY <1>4, <1>5 DEF Sound, Whole, Named, Held, SamePlayers
<1>7. Owned(h)
  BY <1>1, <1>2, <1>4, <1>5 DEF Sound, Whole, Owned
<1>8. Kept(w, h)
  BY <1>4, <1>l, <1>5, <1>6, <1>7, FallsAs DEF Kept, Same, Sound, Whole
<1> QED BY <1>8 DEF h

\* Who connects is not out of the round.
LEMMA AttachedKept ==
    ASSUME server \in Servers, NEW w, Sound(w), NEW p \in Present(w),
           w.state[p] \in {"alive", "killed"}, w.aim[p] \in Free(w), NEW h \in Attached(p, w)
    PROVE  Kept(w, h)
<1> DEFINE t == w.aim[p]
           c == [w.carrier EXCEPT ![t] = p]
           o == [w.ball_owner EXCEPT ![t] = p]
           a == [w.aim EXCEPT ![p] = NO_BALL]
           v == [w EXCEPT !.carrier[t] = p, !.ball_owner[t] = p, !.have = @ \ {t},
                          !.HAS_BALL = @ \cup {p}, !.aim[p] = NO_BALL]
<1>1. /\ w \in Worlds /\ w.balls \subseteq Treasures /\ w.have \subseteq w.balls
      /\ t \in w.balls /\ w.carrier[t] = NO_ID /\ p \in Players
  BY SoundNamed DEF Free, Present
<1>2. /\ c \in [Treasures -> Players \cup {NO_ID}] /\ o \in [Treasures -> Players \cup {NO_ID}]
      /\ a \in [Players -> Treasures \cup {NO_BALL}]
      /\ \A u \in Treasures : c[u] = IF u = t THEN p ELSE w.carrier[u]
      /\ \A u \in Treasures : o[u] = IF u = t THEN p ELSE w.ball_owner[u]
  BY <1>1, Fields
<1>3. v = [w EXCEPT !.carrier = c, !.ball_owner = o, !.have = @ \ {t},
                    !.HAS_BALL = @ \cup {p}, !.aim = a]
  BY <1>1 DEF Worlds
<1>4. h \in MayHit(t, v)
  BY DEF Attached
<1> HIDE DEF t, c, o, a, v
<1>5. /\ v \in Worlds /\ SamePlayers(w, v) /\ v.ball_owner = o /\ v.carrier = c
      /\ v.balls = w.balls /\ v.have = w.have \ {t} /\ v.recreate = w.recreate
      /\ v.dying = w.dying /\ v.fused = w.fused /\ v.HAS_BALL = w.HAS_BALL \cup {p}
  BY <1>1, <1>2, <1>3, ZenonT(60) DEF Worlds, SamePlayers
<1>l. SameLives(w, v)
  BY <1>1, <1>3 DEF Worlds, SameLives, SameRound, Saves, Saved
<1>6. Present(v) = Present(w) /\ v.state = w.state
  BY <1>5 DEF SamePlayers, Present
<1>7. Named(v)
  BY <1>1, <1>5, <1>6 DEF Sound, Whole, Named, SamePlayers
<1>8. Owned(v)
  BY <1>1, <1>2, <1>5, <1>6 DEF Sound, Whole, Owned
<1>9. Held(v)
  <2>1. \A q \in w.HAS_BALL : q # NO_ID
    BY <1>1, Fields, Options
  <2> QED BY <1>1, <1>2, <1>5, <1>6, <2>1 DEF Sound, Held
<1>10. Kept(w, v)
  BY <1>5, <1>l, <1>6, <1>7, <1>8, <1>9, FallsAs DEF Kept, Same, Sound, Whole
<1>11. Sound(v) /\ t \in v.balls
  BY <1>1, <1>10 DEF Kept, Same
<1>12. Kept(v, h)
  BY <1>4, <1>11, MayHitKept
<1> QED BY <1>10, <1>12, KeptAgain

LEMMA ConnectedKept ==
    ASSUME server \in Servers, NEW w, Sound(w), NEW p \in Present(w),
           w.state[p] \in {"alive", "killed"}, NEW h \in Connected(p, w)
    PROVE  Kept(w, h)
<1>1. Kept(w, w) /\ Free(w) \subseteq Treasures
  BY SoundNamed DEF Free
<1>2. \A t \in Treasures \cup {NO_BALL} : Kept(w, [w EXCEPT !.aim[p] = t])
  BY AimKept
<1>3. \/ h = w
      \/ \E t \in Treasures \cup {NO_BALL} : h = [w EXCEPT !.aim[p] = t]
      \/ w.aim[p] \in Free(w) /\ h \in Attached(p, w)
  BY <1>1 DEF Connected
<1> QED BY <1>1, <1>2, <1>3, AttachedKept

LEMMA TouchedKept ==
    ASSUME server \in Servers, NEW w, Sound(w), NEW p \in Present(w), w.state[p] = "alive",
           NEW t \in w.balls, NEW h \in Touched(p, t, w)
    PROVE  Kept(w, h)
<1> DEFINE d == [w EXCEPT !.dying = @ \cup {t}]
           v == IF server.treasureCollisionDestroys THEN d ELSE w
           After(x) ==
              LET y == [x EXCEPT !.fused = @ \cup {t}, !.have = @ \ {t}]
                  c == x.carrier[t]
              IN  IF c = NO_ID THEN [y EXCEPT !.ball_owner[t] = p]
                  ELSE IF server.ballCollisionDetaches
                  THEN [Detach_ball(c, {t}, y) EXCEPT !.ball_owner[t] = p]
                  ELSE y
<1>1. Kept(w, v) /\ v.state = w.state
  <2>1. /\ w \in Worlds /\ w.dying \subseteq w.balls /\ w.recreate \subseteq w.balls
        /\ w.fused \subseteq w.balls /\ w.balls \subseteq Treasures
    BY SoundNamed
  <2>2. d \in Worlds /\ Marked(w, d)
    BY <2>1, SMTT(40) DEF Worlds, Marked, SamePlayers, SameLives, SameRound, Saves, Saved
  <2>3. Kept(w, d) /\ d.state = w.state
    BY <2>2, MarksKept DEF Marked, SamePlayers
  <2> HIDE DEF d
  <2> QED BY <2>3, SoundNamed
<1>2. ASSUME NEW x, Kept(w, x) PROVE Kept(w, After(x))
  <2> DEFINE y == [x EXCEPT !.fused = @ \cup {t}, !.have = @ \ {t}]
             c == x.carrier[t]
             e == Detach_ball(c, {t}, y)
  <2>1. Sound(x) /\ t \in x.balls
    BY <1>2 DEF Kept, Same
  <2>2. /\ x \in Worlds /\ x.dying \subseteq x.balls /\ x.recreate \subseteq x.balls
        /\ x.fused \subseteq x.balls /\ x.balls \subseteq Treasures
        /\ x.carrier \in [Treasures -> Players \cup {NO_ID}]
    BY <2>1, SoundNamed, Fields
  <2>3. y \in Worlds /\ Marked(x, y) /\ y.have = x.have \ {t}
    BY <2>1, <2>2, ZenonT(60) DEF Worlds, Marked, SamePlayers, SameLives, SameRound, Saves, Saved
  <2> HIDE DEF y
  <2>4. Kept(w, y)
    BY <1>2, <2>1, <2>3, MarksKept, KeptAgain
  <2>5. Sound(y) /\ t \in y.balls /\ t \notin y.have /\ p \in Present(y)
    BY <2>3, <2>4 DEF Kept, Same
  <2>6. Kept(w, [y EXCEPT !.ball_owner[t] = p])
    BY <2>4, <2>5, OwnerKept, KeptAgain
  <2>7. ASSUME c # NO_ID PROVE Kept(w, [e EXCEPT !.ball_owner[t] = p])
    <3>1. c \in Players
      BY <2>1, <2>2, <2>7
    <3>2. Kept(y, e) /\ e.have = y.have
      BY <2>5, <3>1, DetachKept, DetachWhole DEF Sound
    <3> HIDE DEF e
    <3>3. Sound(e) /\ t \in e.balls /\ t \notin e.have /\ p \in Present(e)
      BY <2>5, <3>2 DEF Kept, Same
    <3>4. Kept(e, [e EXCEPT !.ball_owner[t] = p])
      BY <3>3, OwnerKept
    <3> QED BY <2>4, <3>2, <3>4, KeptAgain
  <2>8. After(x) \in {[y EXCEPT !.ball_owner[t] = p], y}
        \/ (c # NO_ID /\ After(x) = [e EXCEPT !.ball_owner[t] = p])
    BY DEF y
  <2> HIDE DEF After, c, e
  <2> QED BY <2>4, <2>6, <2>7, <2>8
<1>3. \/ h = Player_set_state({p}, "killed", v) \/ h = v
      \/ \E x \in Move_object(t, v) : h = After(x)
  BY ZenonT(60) DEF Touched
<1> HIDE DEF After, v
<1>4. Sound(v) /\ t \in v.balls /\ {p} \in SUBSET Present(v)
  BY <1>1 DEF Kept, Same
<1>5. Kept(w, Player_set_state({p}, "killed", v))
  <2>1. Kept(v, Player_set_state({p}, "killed", v))
    BY <1>1, <1>4, KilledKept
  <2> QED BY <1>1, <2>1, KeptAgain
<1>6. \A x \in Move_object(t, v) : Kept(w, x)
  BY <1>1, <1>4, MoveKept, KeptAgain
<1> QED BY <1>1, <1>2, <1>3, <1>5, <1>6

-----------------------------------------------------------------------------
(* The end of a round.                                                     *)

\* As Kept, but that players may come back.
Stays(w, h) == Sound(h) /\ Same(w, h) /\ Rests(w, h)

\* What the deaths of the players Q give, when the part s of them is done.
BuriedGives(s, w, h) ==
    /\ Stays(w, h) /\ h.HAS_BALL \subseteq w.HAS_BALL
    /\ Resets => s \cap h.HAS_BALL = {}

LEMMA BuryAll ==
    ASSUME server \in Servers, NEW w, Sound(w), NEW Q \in SUBSET Present(w)
    PROVE  BuriedGives(Q, w, FoldSet(Player_death_reset, w, Q))
<1> DEFINE F == [p \in Q |-> [v \in Worlds |-> Player_death_reset(p, v)]]
           Is(f) == f = [s \in SUBSET Q |-> IF s = {} THEN w
                                            ELSE Player_death_reset(First(s), f[s \ {First(s)}])]
<1>1. IsFiniteSet(Q) /\ w \in Worlds
  BY Fields, Options, FS_Subset DEF Sound, Whole, Present
<1>2. ASSUME NEW s \in SUBSET Q, s # {}, NEW v, BuriedGives(s \ {First(s)}, w, v)
      PROVE  BuriedGives(s, w, Player_death_reset(First(s), v))
  <2> DEFINE p == First(s)
             h == Player_death_reset(p, v)
  <2>1. p \in s
    BY <1>2, FirstIn
  <2>2. BuriedGives(s \ {p}, w, v)
    BY <1>2
  <2> HIDE DEF p
  <2>3. Sound(v) /\ p \in Present(v)
    BY <2>1, <2>2 DEF BuriedGives, Stays, Same
  <2>4. ResetGives(p, v, h)
    BY <2>3, DeathReset
  <2> HIDE DEF h
  <2>5. Stays(w, h)
    <3>1. Rests(v, h)
      BY <2>3, <2>4, DiesFalls DEF ResetGives
    <3>2. Rests(w, h)
      BY <2>2, <3>1 DEF BuriedGives, Stays, Rests, SameRound, Saves
    <3> QED BY <2>2, <2>4, <3>2 DEF BuriedGives, Stays, ResetGives, Drops, Same
  <2>6. BuriedGives(s, w, h)
    BY <2>1, <2>2, <2>4, <2>5 DEF BuriedGives, ResetGives, Drops
  <2> QED BY <2>6 DEF h, p
<1>3. BuriedGives({}, w, w)
  BY SoundNamed DEF BuriedGives, Stays, Kept, Falls
<1>4. \A s, v : BuriedGives(s, w, v) => v \in Worlds
  BY DEF BuriedGives, Stays, Sound, Whole
<1>5. ASSUME NEW f, f[{}] = w,
             \A s \in SUBSET Q : s # {} /\ f[s \ {First(s)}] \in Worlds =>
                 f[s] = Player_death_reset(First(s), f[s \ {First(s)}])
      PROVE  \A s \in SUBSET Q : BuriedGives(s, w, f[s])
  <2> DEFINE G == {s \in SUBSET Q : BuriedGives(s, w, f[s])}
  <2>1. {} \in G
    BY <1>3, <1>5
  <2>2. ASSUME NEW s \in SUBSET Q, s # {}, s \ {First(s)} \in G PROVE s \in G
    <3>1. First(s) \in Q
      BY <2>2, FirstIn
    <3>2. f[s \ {First(s)}] \in Worlds
      BY <1>4, <2>2
    <3>3. f[s] = Player_death_reset(First(s), f[s \ {First(s)}])
      BY <1>5, <2>2, <3>1, <3>2
    <3> QED BY <1>2, <2>2, <3>3
  <2> HIDE DEF G
  <2>3. SUBSET Q \subseteq G
    BY <1>1, <2>1, <2>2, SubsetInduction
  <2> QED BY <2>3 DEF G
<1>6. \E f : Is(f)
  <2>1. PICK f : IsFold(f, Q, w, F)
    BY <1>1, FoldExists
  <2>2. ASSUME NEW s \in SUBSET Q, s # {}, f[s \ {First(s)}] \in Worlds
        PROVE  f[s] = Player_death_reset(First(s), f[s \ {First(s)}])
    <3>1. First(s) \in Q
      BY <2>2, FirstIn
    <3>2. f[s] = F[First(s)][f[s \ {First(s)}]]
      BY <2>1, <2>2 DEF IsFold
    <3> QED BY <2>2, <3>1, <3>2
  <2>3. f[{}] = w
    BY <2>1 DEF IsFold
  <2>4. \A s \in SUBSET Q : f[s] \in Worlds
    BY <1>4, <1>5, <2>2, <2>3
  <2>5. \A s \in SUBSET Q : f[s] = IF s = {} THEN w
                                   ELSE Player_death_reset(First(s), f[s \ {First(s)}])
    BY <2>2, <2>3, <2>4
  <2>6. Is(f)
    <3>1. f = [s \in SUBSET Q |-> f[s]]
      BY <2>1 DEF IsFold
    <3> QED BY <2>5, <3>1
  <2> QED BY <2>6
<1> DEFINE d == CHOOSE f : Is(f)
<1>7. Is(d)
  BY <1>6
<1>8. FoldSet(Player_death_reset, w, Q) = d[Q]
  BY DEF FoldSet, MapThenFoldSet, First
<1> HIDE DEF d
<1>9. \A s \in SUBSET Q : d[s] = IF s = {} THEN w
                                 ELSE Player_death_reset(First(s), d[s \ {First(s)}])
  BY <1>7
<1>10. BuriedGives(Q, w, d[Q])
  BY <1>5, <1>9
<1> QED BY <1>8, <1>10

\* All appear, as many rounds have been played, and it is as much over as before.
Begins(w, h) ==
    /\ h.over = w.over /\ h.roundsPlayed = w.roundsPlayed
    /\ (Naps(w) => Naps(h)) /\ Saves(w, h)
    /\ Begun(h)

LEMMA BeginsAs ==
    ASSUME NEW w, NEW x, Begins(w, x), NEW h, SamePlayers(x, h), h.life = x.life,
           h.over = x.over, h.roundsPlayed = x.roundsPlayed, Saves(x, h)
    PROVE  Begins(w, h)
BY DEF Begins, Saves, Naps, Begun, SamePlayers, Present, Paused, Are

\* Nobody is said to have a ball, which may still be carried.
LEMMA ResetPlayersWhole ==
    ASSUME server \in Servers, NEW w, Sound(w)
    PROVE  LET x == ResetPlayers(w)
           IN  /\ Whole(x) /\ Same(w, x) /\ x.HAS_BALL = {} /\ (~server.teamPlay => Held(x))
               /\ Begins(w, x)
<1> DEFINE v == IF server.endOfRoundReset THEN FoldSet(Player_death_reset, w, Present(w)) ELSE w
           P == Present(v) \ Paused(v)
           a == Player_set_state(P, "appearing", v)
           r == [p \in Players |-> 0]
           l == [p \in Players |-> IF p \in P THEN server.lives ELSE a.life[p]]
           x == [a EXCEPT !.HAS_BALL = {}, !.round = r, !.life = l]
<1>1. Stays(w, v)
  <2>1. BuriedGives(Present(w), w, FoldSet(Player_death_reset, w, Present(w)))
    BY BuryAll
  <2> QED BY <2>1, SoundNamed DEF BuriedGives, Stays, Kept, Falls
<1>2. server.endOfRoundReset => v.HAS_BALL = {}
  <2>1. ASSUME server.endOfRoundReset PROVE v.HAS_BALL = {}
    <3>1. BuriedGives(Present(w), w, v)
      BY <2>1, BuryAll
    <3>2. Resets
      BY <2>1 DEF Resets
    <3>3. w.HAS_BALL \subseteq Present(w)
      BY DEF Sound, Whole, Named
    <3> QED BY <3>1, <3>2, <3>3 DEF BuriedGives
  <2> QED BY <2>1
<1>3. ResetPlayers(w) = [a EXCEPT !.HAS_BALL = {}, !.round = NewWorld.round,
                                  !.life = [p \in Players |-> IF p \in P THEN server.lives ELSE @[p]]]
  BY DEF ResetPlayers
<1> HIDE DEF v
<1>4. SetGives(P, "appearing", v, a)
  <2>1. "appearing" \in States \ {"out"}
    BY DEF States
  <2> QED BY <1>1, <2>1, SetStateWhole DEF Stays, Sound
<1> HIDE DEF a
<1>5. a \in Worlds
  BY <1>4 DEF SetGives, Whole
<1>6. NewWorld.round = r
  BY DEF NewWorld
<1>7. ResetPlayers(w) = x
  BY <1>3, <1>5, <1>6 DEF Worlds
<1>8. r \in [Players -> 0 .. server.raceLaps + 1] /\ l \in [Players -> 0 .. server.lives]
  BY <1>5, Fields, Options
<1>l. \A p \in Players : l[p] = IF p \in P THEN server.lives ELSE v.life[p]
  BY <1>4 DEF SetGives
<1> HIDE DEF P, r, l
<1>9. /\ x \in Worlds /\ SamePlayers(a, x) /\ x.HAS_BALL = {} /\ x.balls = a.balls
      /\ x.have = a.have /\ x.recreate = a.recreate /\ x.dying = a.dying /\ x.fused = a.fused
      /\ x.carrier = a.carrier /\ x.ball_owner = a.ball_owner
  BY <1>5, <1>8 DEF Worlds, SamePlayers
<1>b. x.life = l /\ x.over = a.over /\ x.roundsPlayed = a.roundsPlayed
      /\ x.TreasuresLeft = a.TreasuresLeft
  BY <1>5 DEF Worlds
<1> HIDE DEF x
<1>10. Present(x) = Present(a)
  BY <1>9 DEF SamePlayers, Present
<1>11. Named(x) /\ Owned(x)
  BY <1>4, <1>9, <1>10 DEF SetGives, Whole, Named, Owned, SamePlayers
<1>12. Same(w, x)
  BY <1>1, <1>4, <1>9, <1>10 DEF SetGives, Stays, Same
<1>c. /\ x.over = w.over /\ x.roundsPlayed = w.roundsPlayed /\ x.destructing = v.destructing
      /\ \A p \in Players : /\ x.state[p] = IF p \in P THEN "appearing" ELSE v.state[p]
                            /\ x.life[p] = IF p \in P THEN server.lives ELSE v.life[p]
  BY <1>1, <1>4, <1>l, <1>9, <1>b DEF Stays, Rests, SetGives, SamePlayers, SameRound, Saves
<1>d. Begins(w, x)
  <2>1. Naps(w) => Naps(v)
    BY <1>1 DEF Stays, Rests
  <2>2. \A p \in Players : p \in P <=> v.state[p] \notin {"out", "paused"}
    BY DEF P, Present, Paused, Are
  <2>3. Naps(v) => Naps(x)
    BY <1>c, <2>2 DEF Naps
  <2>4. Begun(x)
    BY <1>c, <2>2 DEF Begun, Present, Paused, Are
  <2>5. Saves(a, x)
    BY <1>9, <1>b DEF Saves, Saved
  <2>6. Saves(w, x)
    BY <1>1, <1>4, <2>5 DEF Stays, Rests, SetGives, SameRound, Saves
  <2> QED BY <1>c, <2>1, <2>3, <2>4, <2>6 DEF Begins
<1>13. ASSUME ~server.teamPlay PROVE Held(x)
  <2>1. Resets => v.HAS_BALL = {}
    BY <1>2, <1>13 DEF Resets
  <2>2. a.carrier = v.carrier /\ a.balls = v.balls
    BY <1>4 DEF SetGives, SameBalls
  <2> QED BY <1>1, <1>9, <2>1, <2>2 DEF Stays, Sound, Held
<1> QED BY <1>7, <1>9, <1>11, <1>12, <1>13, <1>d DEF Whole

\* A round begins, and nobody has a ball.
Cleared(w, h) == Sound(h) /\ Present(h) = Present(w) /\ h.HAS_BALL = {} /\ Begins(w, h)

LEMMA ResetAllSound ==
    ASSUME server \in Servers, NEW w, Sound(w), NEW h \in Reset_all_players(w)
    PROVE  Cleared(w, h) /\ h.roundtime = server.maxRoundTime
<1> DEFINE x == ResetPlayers(w)
<1>1. /\ Whole(x) /\ Same(w, x) /\ x.HAS_BALL = {} /\ (~server.teamPlay => Held(x))
      /\ Begins(w, x)
  BY ResetPlayersWhole
<1>2. PICK y \in ResetBalls(x) : h = [y EXCEPT !.roundtime = server.maxRoundTime]
  BY DEF Reset_all_players
<1> HIDE DEF x
<1>3. x \in Worlds
  BY <1>1 DEF Whole
<1>4. Cleared(w, y)
  <2>1. CASE ~server.teamPlay
    BY <1>1, <1>2, <2>1 DEF ResetBalls, Cleared, Same, Sound
  <2>2. CASE server.teamPlay
    <3> DEFINE l == NewWorld.TreasuresLeft
               d == NewWorld.TreasuresDestroyed
               n == [t \in Treasures |-> NO_ID]
    <3>1. PICK a \in [Players -> AllBalls \cup {NO_BALL}] :
             y = [x EXCEPT !.balls = AllBalls, !.have = AllBalls, !.recreate = AllBalls,
                           !.dying = {}, !.fused = {},
                           !.carrier = NewWorld.carrier, !.ball_owner = NewWorld.ball_owner,
                           !.TreasuresLeft = l, !.TreasuresDestroyed = d, !.aim = a]
      BY <1>2, <2>2 DEF ResetBalls
    <3>2. NewWorld.carrier = n /\ NewWorld.ball_owner = n
      BY DEF NewWorld
    <3>3. AllBalls \subseteq Treasures
      BY Options DEF AllBalls
    <3>4. l \in [Teams -> Int] /\ d \in [Teams -> Int]
      <4>1. \A k \in Teams : Cardinality(TreasuresOf(k)) \in Int
        <5>1. \A k \in Teams : TreasuresOf(k) \subseteq Treasures
          BY Options DEF TreasuresOf
        <5> QED BY <5>1, Options, FS_Subset, FS_CardinalityType
      <4>2. l = [k \in Teams |-> Cardinality(TreasuresOf(k))] /\ d = [k \in Teams |-> 0]
        BY DEF NewWorld
      <4> QED BY <4>1, <4>2
    <3> HIDE DEF l, d
    <3>5. n \in [Treasures -> Players \cup {NO_ID}] /\ \A t \in Treasures : n[t] = NO_ID
      OBVIOUS
    <3> HIDE DEF n
    <3>6. a \in [Players -> Treasures \cup {NO_BALL}]
      BY <3>3
    <3>7. /\ y \in Worlds /\ SamePlayers(x, y) /\ y.balls = AllBalls /\ y.have = AllBalls
          /\ y.recreate = AllBalls /\ y.dying = {} /\ y.fused = {} /\ y.carrier = n
          /\ y.ball_owner = n /\ y.HAS_BALL = x.HAS_BALL
      BY <1>3, <3>1, <3>2, <3>3, <3>4, <3>5, <3>6, ZenonT(60) DEF Worlds, SamePlayers
    <3>b. y.life = x.life /\ y.over = x.over /\ y.roundsPlayed = x.roundsPlayed
      BY <1>3, <3>1 DEF Worlds
    <3>s. Saved(y)
      <4>1. y.TreasuresLeft = l
        BY <1>3, <3>1 DEF Worlds
      <4>2. \A k \in Teams : y.TreasuresLeft[k] = Cardinality(TreasuresOf(k))
        BY <4>1 DEF l, NewWorld
      <4>3. \A k : TreasuresOf(k) \cap AllBalls = TreasuresOf(k)
        BY DEF TreasuresOf, AllBalls
      <4>4. \A k : Cardinality(TreasuresOf(k)) \in Int
        BY TreasuresFinite
      <4>5. ASSUME NEW k \in Teams
            PROVE  Cardinality(TreasuresOf(k) \cap y.recreate) >= y.TreasuresLeft[k]
        <5>1. TreasuresOf(k) \cap y.recreate = TreasuresOf(k)
          BY <3>7, <4>3
        <5> DEFINE safe == Cardinality(TreasuresOf(k) \cap y.recreate)
                   left == y.TreasuresLeft[k]
        <5>2. safe = left /\ safe \in Int
          BY <4>2, <4>4, <5>1
        <5> HIDE DEF safe, left
        <5>3. safe >= left
          BY <5>2
        <5> QED BY <5>3 DEF safe, left
      <4> QED BY <4>5 DEF Saved
    <3>c. Begins(w, y)
      BY <1>1, <3>7, <3>b, <3>s, BeginsAs DEF Saves
    <3>8. Present(y) = Present(x)
      BY <3>7 DEF SamePlayers, Present
    <3>9. Named(y) /\ Owned(y)
      BY <1>1, <3>3, <3>5, <3>7, <3>8 DEF Whole, Named, Owned, SamePlayers
    <3>10. Held(y)
      BY <1>1, <3>3, <3>5, <3>7 DEF Held
    <3> QED BY <1>1, <3>7, <3>c, <3>8, <3>9, <3>10 DEF Cleared, Same, Sound, Whole
  <2> QED BY <2>1, <2>2
<1>5. y \in Worlds
  BY <1>4 DEF Cleared, Sound, Whole
<1>6. h \in Worlds /\ SamePlayers(y, h) /\ SameBalls(y, h)
  BY <1>2, <1>5, Options, SMTT(40) DEF Worlds, SamePlayers, SameBalls
<1>b. /\ h.life = y.life /\ h.over = y.over /\ h.roundsPlayed = y.roundsPlayed
      /\ h.roundtime = server.maxRoundTime /\ h.TreasuresLeft = y.TreasuresLeft
  BY <1>2, <1>5 DEF Worlds
<1>7. Whole(h) /\ Same(y, h) /\ Held(h)
  BY <1>4, <1>6, WholeAs DEF Cleared, Sound
<1>8. Begins(w, h)
  <2>1. Saves(y, h)
    BY <1>6, <1>b DEF SameBalls, Saves, Saved
  <2> QED BY <1>4, <1>6, <1>b, <2>1, BeginsAs DEF Cleared
<1> QED BY <1>4, <1>6, <1>b, <1>7, <1>8 DEF Cleared, Same, SameBalls, Sound

\* What is not about players and balls changes, and who has finished.
LEMMA ScoredSound ==
    ASSUME NEW w, Sound(w), NEW h \in Worlds, SameBalls(w, h),
           h.state = w.state, h.recovering = w.recovering, h.pausing = w.pausing,
           h.destructing = w.destructing, SameLives(w, h),
           h.FINISH \subseteq Present(w), h.RACE_OVER \subseteq Present(w)
    PROVE  Kept(w, h) /\ h.HAS_BALL = w.HAS_BALL
<1>1. Present(h) = Present(w)
  BY DEF Present
<1>2. Named(h) /\ Owned(h) /\ Held(h)
  BY <1>1 DEF Sound, Whole, Named, Owned, Held, SameBalls
<1>3. Falls(w, h)
  BY DEF SameLives, SameRound, Saves, Falls, Rests, Fit, Naps, Gone
<1> QED BY <1>1, <1>2, <1>3 DEF Kept, Same, Sound, Whole, SameBalls

\* The game is over for everybody.
Ended(w) == w.over /\ \A p \in Players : w.state[p] \in {"out", "paused", "dead"}

\* What counting a round gives.
Counts(w, h) ==
    /\ Sound(h) /\ Same(w, h) /\ h.HAS_BALL = w.HAS_BALL
    /\ h.roundtime = w.roundtime
    /\ (Naps(w) => Naps(h)) /\ Saves(w, h)
    /\ \/ /\ h.over = w.over /\ h.state = w.state /\ h.life = w.life
          /\ h.roundsPlayed >= w.roundsPlayed
       \/ Ended(h) /\ w.roundsPlayed < server.roundsToPlay /\ h.roundsPlayed >= server.roundsToPlay

LEMMA GameOverSound ==
    ASSUME server \in Servers, NEW w, Sound(w), Resets => w.HAS_BALL = {}
    PROVE  LET h == Game_Over(w)
           IN  /\ Sound(h) /\ Same(w, h) /\ h.HAS_BALL = w.HAS_BALL /\ Ended(h)
               /\ h.roundtime = w.roundtime /\ h.roundsPlayed = w.roundsPlayed
               /\ (Naps(w) => Naps(h)) /\ Saves(w, h)
<1> DEFINE P == Present(w) \ Paused(w)
           a == Player_set_state(P, "dead", w)
           h == [a EXCEPT !.over = TRUE]
<1>1. SetGives(P, "dead", w, a)
  <2>1. "dead" \in States \ {"out"}
    BY DEF States
  <2> QED BY <2>1, SetStateWhole DEF Sound
<1>2. Game_Over(w) = h
  BY DEF Game_Over
<1> HIDE DEF a
<1>3. Sound(a)
  BY <1>1, SetStateHeld
<1>4. a \in Worlds
  BY <1>3, SoundNamed
<1>5. h \in Worlds /\ SamePlayers(a, h) /\ SameBalls(a, h)
  BY <1>4 DEF Worlds, SamePlayers, SameBalls
<1>b. h.over = TRUE /\ h.life = a.life /\ h.roundtime = a.roundtime
      /\ h.roundsPlayed = a.roundsPlayed /\ h.TreasuresLeft = a.TreasuresLeft
  BY <1>4 DEF Worlds
<1> HIDE DEF h
<1>6. Sound(h) /\ Same(a, h)
  BY <1>3, <1>5, WholeAs DEF Sound
<1>7. /\ h.roundtime = w.roundtime /\ h.roundsPlayed = w.roundsPlayed
      /\ h.destructing = w.destructing
      /\ \A p \in Players : /\ h.state[p] = IF p \in P THEN "dead" ELSE w.state[p]
                            /\ h.life[p] = w.life[p]
  BY <1>1, <1>5, <1>b DEF SetGives, SamePlayers, SameRound, Saves
<1>8. \A p \in Players : p \in P <=> w.state[p] \notin {"out", "paused"}
  BY DEF P, Present, Paused, Are
<1> HIDE DEF P
<1>9. Ended(h) /\ (Naps(w) => Naps(h))
  BY <1>b, <1>7, <1>8 DEF Ended, Naps
<1>10. Saves(w, h)
  <2>1. Saves(a, h)
    BY <1>5, <1>b DEF SameBalls, Saves, Saved
  <2> QED BY <1>1, <2>1 DEF SetGives, SameRound, Saves
<1> QED BY <1>1, <1>2, <1>5, <1>6, <1>7, <1>9, <1>10 DEF SetGives, Same, SameBalls

LEMMA CountRoundsSound ==
    ASSUME server \in Servers, NEW w, Sound(w), Resets => w.HAS_BALL = {}
    PROVE  Counts(w, Count_rounds(w))
<1> DEFINE n == IF w.roundsPlayed <= server.roundsToPlay THEN w.roundsPlayed + 1 ELSE w.roundsPlayed
           v == [w EXCEPT !.roundsPlayed = n]
           o == Game_Over(v)
<1>1. w \in Worlds
  BY SoundNamed
<1>2. /\ n \in 0 .. server.roundsToPlay + 1 /\ n >= w.roundsPlayed /\ w.roundsPlayed \in Int
      /\ w.roundsPlayed + 1 = server.roundsToPlay =>
            w.roundsPlayed < server.roundsToPlay /\ n >= server.roundsToPlay
  <2>1. w.roundsPlayed \in 0 .. server.roundsToPlay + 1 /\ server.roundsToPlay \in Nat
    BY <1>1, Fields, Options
  <2> QED BY <2>1
<1>3. \/ Count_rounds(w) \in {w, v}
      \/ Count_rounds(w) = o /\ w.roundsPlayed + 1 = server.roundsToPlay
  BY DEF Count_rounds
<1> HIDE DEF n
<1>4. v \in Worlds /\ SamePlayers(w, v) /\ SameBalls(w, v)
  BY <1>1, <1>2 DEF Worlds, SamePlayers, SameBalls
<1>b. /\ v.life = w.life /\ v.over = w.over /\ v.roundtime = w.roundtime
      /\ v.roundsPlayed = n /\ v.TreasuresLeft = w.TreasuresLeft
  BY <1>1 DEF Worlds
<1> HIDE DEF v
<1>5. Sound(v) /\ Same(w, v) /\ v.HAS_BALL = w.HAS_BALL
  BY <1>4, WholeAs DEF Sound, SameBalls
<1>6. (Naps(w) => Naps(v)) /\ Saves(w, v)
  BY <1>4, <1>b DEF Naps, SamePlayers, SameBalls, Saves, Saved
<1>7. /\ Sound(o) /\ Same(v, o) /\ o.HAS_BALL = v.HAS_BALL /\ Ended(o)
      /\ o.roundtime = v.roundtime /\ o.roundsPlayed = v.roundsPlayed
      /\ (Naps(v) => Naps(o)) /\ Saves(v, o)
  BY <1>5, GameOverSound
<1> HIDE DEF o
<1>8. Counts(w, v)
  BY <1>2, <1>4, <1>b, <1>5, <1>6 DEF Counts, SamePlayers
<1>9. w.roundsPlayed + 1 = server.roundsToPlay => Counts(w, o)
  BY <1>2, <1>b, <1>5, <1>6, <1>7 DEF Counts, Same, Saves
<1>10. Counts(w, w)
  BY <1>2 DEF Counts, Same, Saves
<1> QED BY <1>3, <1>8, <1>9, <1>10

\* Once the game is over, all its rounds have been played.
Final(w) == w.over => w.roundsPlayed >= server.roundsToPlay

LEMMA CountsFinal ==
    ASSUME server \in Servers, NEW w, Sound(w), Final(w), NEW h, Counts(w, h)
    PROVE  Final(h)
<1>1. /\ w.roundsPlayed \in Int /\ h.roundsPlayed \in Int /\ server.roundsToPlay \in Int
  BY SoundNamed, Fields, Options DEF Counts
<1>2. (h.over = w.over /\ h.roundsPlayed >= w.roundsPlayed)
      \/ h.roundsPlayed >= server.roundsToPlay
  BY DEF Counts
<1>3. ASSUME h.over = w.over, h.roundsPlayed >= w.roundsPlayed PROVE Final(h)
  BY <1>1, <1>3 DEF Final
<1>4. h.roundsPlayed >= server.roundsToPlay => Final(h)
  BY DEF Final
<1> QED BY <1>2, <1>3, <1>4

\* A new round begins, or the game has come to its end.
Ends(w, h) ==
    /\ (Naps(w) => Naps(h)) /\ Saves(w, h)
    /\ Final(w) => Final(h)
    /\ h.roundtime = server.maxRoundTime
    /\ Begun(h) \/ (Ended(h) /\ w.roundsPlayed < server.roundsToPlay)

\* Soundness is kept, and the same players are there.
Safe(w, h) == Sound(h) /\ Present(h) = Present(w) /\ Ends(w, h)

LEMMA EndRoundSound ==
    ASSUME server \in Servers, NEW w, Sound(w), NEW h \in EndRound(w)
    PROVE  Safe(w, h)
<1>1. PICK v \in Reset_all_players(w) : h = Count_rounds(v)
  BY DEF EndRound
<1>2. Cleared(w, v) /\ v.roundtime = server.maxRoundTime
  BY <1>1, ResetAllSound
<1>3. Counts(v, h)
  BY <1>1, <1>2, CountRoundsSound DEF Cleared
<1>4. h.over = v.over /\ h.state = v.state /\ h.life = v.life => Begun(h)
  BY <1>2 DEF Cleared, Begins, Begun, Present, Paused, Are
<1>5. v.over = w.over /\ v.roundsPlayed = w.roundsPlayed /\ (Naps(w) => Naps(v)) /\ Saves(w, v)
  BY <1>2 DEF Cleared, Begins
<1>6. Final(w) => Final(h)
  <2>1. Final(w) => Final(v)
    BY <1>5 DEF Final
  <2> QED BY <1>2, <1>3, <2>1, CountsFinal DEF Cleared
<1>7. Ends(w, h)
  BY <1>2, <1>3, <1>4, <1>5, <1>6 DEF Ends, Counts, Saves
<1> QED BY <1>2, <1>3, <1>7 DEF Cleared, Counts, Same, Safe

LEMMA RaceGameOverSound ==
    ASSUME server \in Servers, NEW w, Sound(w), NEW h \in Race_game_over(w)
    PROVE  Safe(w, h)
<1> DEFINE v == [w EXCEPT !.FINISH = {}, !.RACE_OVER = {}]
           R == Racers(w)
           f == FoldSet(Player_death_reset, v, R)
           c == Count_rounds(f)
<1>1. w \in Worlds
  BY SoundNamed
<1>2. /\ v \in Worlds /\ SameBalls(w, v) /\ v.state = w.state /\ v.recovering = w.recovering
      /\ v.pausing = w.pausing /\ v.destructing = w.destructing /\ SameLives(w, v)
      /\ v.FINISH = {} /\ v.RACE_OVER = {}
  BY <1>1 DEF Worlds, SameBalls, SameLives, SameRound, Saves, Saved
<1>3. h \in Reset_all_players(c)
  BY DEF Race_game_over
<1> HIDE DEF v
<1>4. Kept(w, v) /\ v.HAS_BALL = w.HAS_BALL
  BY <1>2, ScoredSound
<1>5. R \subseteq Present(v)
  BY <1>4 DEF Racers, Kept, Same
<1>6. BuriedGives(R, v, f)
  BY <1>4, <1>5, BuryAll DEF Kept
<1> HIDE DEF f
<1>7. Resets => w.HAS_BALL \subseteq R
  <2>1. ASSUME Resets, NEW p \in w.HAS_BALL PROVE p \in R
    <3>1. p \in Present(w) /\ p \in Players /\ p # NO_ID
      BY <1>1, Fields, Options DEF Sound, Whole, Named
    <3>2. w.state[p] \in {"alive", "killed"}
      BY <2>1, <3>1 DEF Sound, Held
    <3> QED BY <3>1, <3>2 DEF Racers, Paused, Are
  <2> QED BY <2>1
<1> HIDE DEF R
<1>8. Resets => f.HAS_BALL = {}
  BY <1>4, <1>6, <1>7 DEF BuriedGives
<1>9. Sound(f) /\ Counts(f, c)
  BY <1>6, <1>8, CountRoundsSound DEF BuriedGives, Stays
<1> HIDE DEF c
<1>10. Cleared(c, h) /\ h.roundtime = server.maxRoundTime
  BY <1>3, <1>9, ResetAllSound DEF Counts
<1>11. SameRound(w, f) /\ (Naps(w) => Naps(f))
  <2>1. Rests(w, v) /\ Rests(v, f)
    BY <1>4, <1>6 DEF Kept, Falls, BuriedGives, Stays
  <2> QED BY <2>1 DEF Rests, SameRound, Saves
<1>12. Final(w) => Final(h)
  <2>1. Final(w) => Final(f)
    BY <1>11 DEF Final, SameRound, Saves
  <2>2. Final(c) => Final(h)
    BY <1>10 DEF Final, Cleared, Begins
  <2> QED BY <1>9, <2>1, <2>2, CountsFinal
<1>13. Ends(w, h)
  <2>1. Saves(w, f)
    BY <1>11 DEF SameRound
  <2> QED BY <1>9, <1>10, <1>11, <1>12, <2>1 DEF Counts, Cleared, Begins, Ends, Saves
<1> QED BY <1>4, <1>6, <1>9, <1>10, <1>13 DEF BuriedGives, Stays, Kept, Same, Counts, Cleared, Safe

\* The same players are out, and the round goes on as it was.
AsBefore(w, h) ==
    Kept(w, h) /\ h.state = w.state /\ h.life = w.life /\ h.destructing = w.destructing

LEMMA ScoredKept ==
    ASSUME server \in Servers, NEW w, Sound(w)
    PROVE  AsBefore(w, Scored(w))
<1> DEFINE e == Finished(w) \cup (Racers(w) \cap w.FINISH \cap w.RACE_OVER)
           a == [w EXCEPT !.FINISH = (@ \ Racers(w)) \cup e]
           b == [w EXCEPT !.FINISH = @ \ Racers(w), !.RACE_OVER = @ \cup e]
<1>1. w \in Worlds /\ w.FINISH \subseteq Present(w) /\ w.RACE_OVER \subseteq Present(w)
      /\ Present(w) \subseteq Players
  BY SoundNamed DEF Sound, Whole, Named, Present
<1>2. e \subseteq w.FINISH
  BY DEF Finished
<1>3. Scored(w) = IF Finished(w) = {} THEN a ELSE b
  BY DEF Scored
<1> HIDE DEF e
<1>4. /\ a \in Worlds /\ SameBalls(w, a) /\ a.state = w.state /\ a.recovering = w.recovering
      /\ a.pausing = w.pausing /\ a.destructing = w.destructing /\ SameLives(w, a)
      /\ a.FINISH \subseteq Present(w) /\ a.RACE_OVER \subseteq Present(w)
  BY <1>1, <1>2 DEF Worlds, SameBalls, SameLives, SameRound, Saves, Saved
<1>5. /\ b \in Worlds /\ SameBalls(w, b) /\ b.state = w.state /\ b.recovering = w.recovering
      /\ b.pausing = w.pausing /\ b.destructing = w.destructing /\ SameLives(w, b)
      /\ b.FINISH \subseteq Present(w) /\ b.RACE_OVER \subseteq Present(w)
  BY <1>1, <1>2 DEF Worlds, SameBalls, SameLives, SameRound, Saves, Saved
<1> HIDE DEF a, b
<1>6. AsBefore(w, a) /\ AsBefore(w, b)
  BY <1>4, <1>5, ScoredSound DEF AsBefore, SameLives
<1> QED BY <1>3, <1>6

\* Somebody plays where anybody is out, and there is time left for those who wait.
Ongoing(w) ==
    /\ server.limitedLives /\ Out(w) # {} => Present(w) \ (Paused(w) \cup Out(w)) # {}
    /\ \A p \in Players : Waits(p, w) => w.roundtime # 0

LEMMA TeamsGoOn ==
    ASSUME server \in Servers, server.teamPlay, NEW w, ~TeamRoundOver(w)
    PROVE  Ongoing(w)
<1> DEFINE Play == Present(w) \ (Paused(w) \cup Out(w))
           alive == {Team[p] : p \in Play}
           dead == {Team[p] : p \in Out(w)} \ alive
<1>1. IsFiniteSet(alive)
  <2>1. IsFiniteSet(Play)
    <3>1. Play \subseteq Players
      BY DEF Present
    <3> QED BY <3>1, Options, FS_Subset
  <2> DEFINE f == [p \in Play |-> Team[p]]
  <2>2. f \in Surjection(Play, alive)
    <3> HIDE DEF Play
    <3> QED BY DEF Surjection
  <2> HIDE DEF Play, alive, f
  <2> QED BY <2>1, <2>2, FS_Surjection
<1>2. \/ Cardinality(alive) > 1 /\ ~(server.maxRoundTime > 0 /\ w.roundtime = 0)
      \/ ~(Cardinality(alive) > 1) /\ dead = {}
  BY Zenon DEF TeamRoundOver
<1>3. ASSUME NEW p \in Out(w) PROVE Play # {}
  <2>1. CASE Cardinality(alive) > 1
    BY <2>1, FS_EmptySet
  <2>2. CASE dead = {}
    BY <1>3, <2>2
  <2> QED BY <1>2, <2>1, <2>2
<1>4. ASSUME NEW p \in Players, Waits(p, w) PROVE w.roundtime # 0
  <2>1. p \in Out(w) /\ server.maxRoundTime > 0
    BY <1>4 DEF Waits
  <2>2. PICK q \in Present(w) \ Paused(w) : Team[q] # Team[p]
    BY <1>4 DEF Waits, Rivals
  <2>3. ASSUME dead = {} PROVE Cardinality(alive) > 1
    <3>1. Team[p] \in alive
      BY <2>1, <2>3
    <3>2. Team[q] \in alive
      BY <2>2, <2>3
    <3> HIDE DEF alive
    <3> DEFINE two == {Team[p], Team[q]}
    <3>3. two \subseteq alive /\ IsFiniteSet(two)
      BY <1>1, <3>1, <3>2, FS_Subset
    <3>4. Cardinality(two) = 2
      <4>1. IsFiniteSet({Team[p]}) /\ Cardinality({Team[p]}) = 1
        BY FS_Singleton
      <4>2. two = {Team[p]} \cup {Team[q]} /\ Team[q] \notin {Team[p]}
        BY <2>2
      <4>3. Cardinality({Team[p]} \cup {Team[q]}) = Cardinality({Team[p]}) + 1
        BY <4>1, <4>2, FS_AddElement
      <4> QED BY <4>1, <4>2, <4>3
    <3>5. Cardinality(two) <= Cardinality(alive) /\ Cardinality(alive) \in Nat
      BY <1>1, <3>3, FS_Subset, FS_CardinalityType
    <3> QED BY <3>4, <3>5
  <2> QED BY <1>2, <2>1, <2>3
<1> QED BY <1>3, <1>4 DEF Ongoing

LEMMA SinglesGoOn ==
    ASSUME NEW w, ~IndividualRoundOver(w)
    PROVE  Ongoing(w)
<1> DEFINE active == Present(w) \ Paused(w)
           alive == active \ Out(w)
<1>1. ~(server.maxRoundTime > 0 /\ w.roundtime = 0) /\ ~(alive = {} /\ active # {})
  BY Zenon DEF IndividualRoundOver
<1>2. Out(w) \subseteq active
  BY DEF Out, Present, Paused, Are
<1>3. alive = Present(w) \ (Paused(w) \cup Out(w))
  OBVIOUS
<1> HIDE DEF active
<1> QED BY <1>1, <1>2, <1>3 DEF Ongoing, Waits

LEMMA RacersGoOn ==
    ASSUME NEW w, ~RaceOver(w)
    PROVE  Ongoing(w)
<1> DEFINE alive == Racers(w) \ Are({"dead"}, w)
<1>1. Expected(w) # {} => ~(server.maxRoundTime > 0 /\ w.roundtime = 0)
                          /\ ~(server.limitedLives /\ alive = {})
  BY Zenon DEF RaceOver
<1>2. Out(w) \subseteq Expected(w)
  BY DEF Out, Expected, Racers, Present, Paused, Are
<1>3. alive \subseteq Present(w) \ (Paused(w) \cup Out(w))
  BY DEF Racers, Out, Are
<1> HIDE DEF alive
<1> QED BY <1>1, <1>2, <1>3 DEF Ongoing, Waits

\* One frame of the round is over.
Ticks(w, h) ==
    /\ h.state = w.state /\ h.life = w.life /\ h.destructing = w.destructing
    /\ h.over = w.over /\ h.roundsPlayed = w.roundsPlayed /\ Saves(w, h)
    /\ h.roundtime = IF w.roundtime > 0 THEN w.roundtime - 1 ELSE w.roundtime

\* Compute_game_status ends the round, or it goes on for those who wait.
LEMMA StatusSafe ==
    ASSUME server \in Servers, NEW w, Sound(w), NEW h \in Compute_game_status(w)
    PROVE  Safe(w, h) \/ (Sound(h) /\ Present(h) = Present(w) /\ Ticks(w, h) /\ Ongoing(h))
<1> DEFINE v == Ticked(w)
<1>1. w \in Worlds /\ w.roundtime \in -1 .. server.maxRoundTime /\ server.maxRoundTime \in Nat
  BY SoundNamed, Fields, Options
<1>2. Sound(v) /\ Present(v) = Present(w) /\ Ticks(w, v)
  <2> DEFINE n == IF w.roundtime > 0 THEN w.roundtime - 1 ELSE w.roundtime
             x == [w EXCEPT !.roundtime = n]
  <2>1. v = x
    BY DEF Ticked
  <2>2. n \in -1 .. server.maxRoundTime
    BY <1>1
  <2>n. n = IF w.roundtime > 0 THEN w.roundtime - 1 ELSE w.roundtime
    OBVIOUS
  <2> HIDE DEF n
  <2>3. /\ x \in Worlds /\ SamePlayers(w, x) /\ SameBalls(w, x) /\ x.roundtime = n
        /\ x.life = w.life /\ x.over = w.over /\ x.roundsPlayed = w.roundsPlayed
        /\ x.TreasuresLeft = w.TreasuresLeft
    BY <1>1, <2>2 DEF Worlds, SamePlayers, SameBalls
  <2> HIDE DEF x, v
  <2>5. Saves(w, x)
    BY <2>3 DEF SameBalls, Saves, Saved
  <2>4. Sound(x) /\ Present(x) = Present(w)
    BY <2>3, WholeAs DEF Sound, Same
  <2> QED BY <2>1, <2>n, <2>3, <2>4, <2>5 DEF Ticks, SamePlayers
<1>3. \/ server.race /\ h \in Race_compute_game_status(v)
      \/ ~server.race /\ h \in EndRound(v)
      \/ ~server.race /\ h = v /\ (server.teamPlay => ~TeamRoundOver(v))
                      /\ (~server.teamPlay => ~IndividualRoundOver(v))
  BY DEF Compute_game_status
<1> HIDE DEF v
<1>4. ASSUME NEW x, NEW y, Sound(x), x.state = v.state, x.life = v.life,
             x.destructing = v.destructing, x.over = v.over, x.roundsPlayed = v.roundsPlayed,
             Saves(v, x), Safe(x, y)
      PROVE  Safe(w, y)
  <2>1. Present(x) = Present(w)
    BY <1>2, <1>4 DEF Present
  <2>2. Ends(w, y)
    BY <1>2, <1>4 DEF Safe, Ends, Ticks, Naps, Final, Saves
  <2> QED BY <1>4, <2>1, <2>2 DEF Safe
<1>5. ASSUME h \in Race_compute_game_status(v)
      PROVE  Safe(w, h) \/ (Sound(h) /\ Present(h) = Present(w) /\ Ticks(w, h) /\ Ongoing(h))
  <2> DEFINE x == Scored(v)
  <2>1. AsBefore(v, x)
    BY <1>2, ScoredKept
  <2>2. h \in Race_game_over(x) \/ (h = x /\ ~RaceOver(v))
    BY <1>5 DEF Race_compute_game_status
  <2> HIDE DEF x
  <2>3. /\ Sound(x) /\ Present(x) = Present(v) /\ x.state = v.state /\ x.life = v.life
        /\ x.destructing = v.destructing /\ SameRound(v, x)
    BY <2>1 DEF AsBefore, Kept, Same, Falls, Rests
  <2>4. h \in Race_game_over(x) => Safe(w, h)
    BY <1>4, <2>3, RaceGameOverSound DEF SameRound, Saves
  <2>5. Ticks(w, x)
    BY <1>2, <2>3 DEF Ticks, SameRound, Saves
  <2>6. ~RaceOver(v) => Ongoing(x)
    <3>1. ~RaceOver(v) => Ongoing(v)
      BY RacersGoOn
    <3>2. Out(x) = Out(v) /\ Paused(x) = Paused(v) /\ x.roundtime = v.roundtime
      BY <2>3 DEF Out, Paused, Are, SameRound, Saves
    <3> QED BY <2>3, <3>1, <3>2 DEF Ongoing, Waits, Rivals
  <2> QED BY <1>2, <2>2, <2>3, <2>4, <2>5, <2>6
<1>6. ASSUME h \in EndRound(v) PROVE Safe(w, h)
  BY <1>2, <1>4, <1>6, EndRoundSound DEF Saves
<1>7. ASSUME server.teamPlay => ~TeamRoundOver(v), ~server.teamPlay => ~IndividualRoundOver(v)
      PROVE  Ongoing(v)
  BY <1>7, TeamsGoOn, SinglesGoOn
<1> QED BY <1>2, <1>3, <1>5, <1>6, <1>7

-----------------------------------------------------------------------------
(* Checkpoints.                                                            *)

LEMMA SmallerOf ==
    ASSUME NEW a \in Int, NEW b \in Int
    PROVE  Min({a, b}) \in {a, b} /\ Min({a, b}) <= a /\ Min({a, b}) <= b
<1>1. \E x \in {a, b} : \A y \in {a, b} : x <= y
  <2>1. CASE a <= b
    BY <2>1
  <2>2. CASE b <= a
    BY <2>2
  <2> QED BY <2>1, <2>2
<1>2. Min({a, b}) \in {a, b} /\ \A y \in {a, b} : Min({a, b}) <= y
  BY <1>1, Zenon DEF Min
<1> QED BY <1>2

LEMMA PassKept ==
    ASSUME server \in Servers, server.race, NEW w, Sound(w), NEW p \in Present(w)
    PROVE  Kept(w, Player_pass_checkpoint(p, w))
<1> DEFINE m == Min({w.round[p] + 1, server.raceLaps + 1})
           r == [w.round EXCEPT ![p] = m]
           v == [w EXCEPT !.round = r]
           o == [t \in Treasures |-> IF server.ballrace /\ v.ball_owner[t] = p THEN NO_ID
                                     ELSE v.ball_owner[t]]
           g == [v EXCEPT !.ball_owner = o]
           d == Player_death_reset(p, g)
           a == Player_set_state({p}, "dead", d)
           h == [a EXCEPT !.FINISH = @ \cup {p}]
<1>1. w \in Worlds /\ p \in Players
  BY SoundNamed DEF Present
<1>2. r \in [Players -> 0 .. server.raceLaps + 1]
  <2>1. w.round \in [Players -> 0 .. server.raceLaps + 1] /\ server.raceLaps \in Nat
    BY <1>1, Fields, Options
  <2> DEFINE x == w.round[p] + 1
             y == server.raceLaps + 1
  <2>2. x \in Int /\ x >= 0 /\ y \in Nat /\ y = server.raceLaps + 1
    BY <1>1, <2>1
  <2>3. m = Min({x, y})
    OBVIOUS
  <2> HIDE DEF x, y, m
  <2>4. m \in {x, y} /\ m <= y
    <3>1. x \in Int /\ y \in Int
      BY <2>2
    <3>2. Min({x, y}) \in {x, y} /\ Min({x, y}) <= y
      BY <3>1, SmallerOf, Zenon
    <3> QED BY <2>3, <3>2
  <2>5. m \in 0 .. server.raceLaps + 1
    BY <2>2, <2>4
  <2> QED BY <1>1, <2>1, <2>5
<1>3. Player_pass_checkpoint(p, w) \in {v, h}
  <2>1. v = [w EXCEPT !.round[p] = m]
    OBVIOUS
  <2>2. [w EXCEPT !.round[p] = Min({@ + 1, server.raceLaps + 1})] = [w EXCEPT !.round[p] = m]
    OBVIOUS
  <2> HIDE DEF v, m
  <2> QED BY <2>1, <2>2, ZenonT(60) DEF Player_pass_checkpoint
<1> HIDE DEF r
<1>4. v \in Worlds /\ SamePlayers(w, v) /\ SameLives(w, v) /\ SameBalls(w, v)
  BY <1>1, <1>2 DEF Worlds, SamePlayers, SameLives, SameRound, Saves, Saved, SameBalls
<1> HIDE DEF v
<1>5. Kept(w, v)
  BY <1>4, AlikeKept
<1>6. /\ o \in [Treasures -> Players \cup {NO_ID}]
      /\ \A t \in Treasures : o[t] \in {v.ball_owner[t], NO_ID}
  BY <1>4, Fields
<1> HIDE DEF o
<1>7. /\ g \in Worlds /\ SamePlayers(v, g) /\ g.balls = v.balls /\ g.have = v.have
      /\ g.recreate = v.recreate /\ g.dying = v.dying /\ g.fused = v.fused
      /\ g.carrier = v.carrier /\ g.ball_owner = o /\ g.HAS_BALL = v.HAS_BALL
      /\ SameLives(v, g)
  BY <1>4, <1>6 DEF Worlds, SamePlayers, SameLives, SameRound, Saves, Saved
<1> HIDE DEF g
<1>8. Kept(v, g)
  <2>1. Present(g) = Present(v)
    BY <1>7 DEF SamePlayers, Present
  <2>2. v.have \subseteq Treasures /\ v.balls \subseteq Treasures
    BY <1>4, Fields
  <2>3. Named(g) /\ Held(g)
    BY <1>5, <1>7, <2>1 DEF Kept, Sound, Whole, Named, Held, SamePlayers
  <2>4. Owned(g)
    BY <1>5, <1>6, <1>7, <2>1, <2>2 DEF Kept, Sound, Whole, Owned
  <2>5. Falls(v, g)
    BY <1>7, FallsAs
  <2> QED BY <1>7, <2>1, <2>3, <2>4, <2>5 DEF Kept, Same, Sound, Whole
<1>9. Sound(g) /\ p \in Present(g)
  BY <1>5, <1>8 DEF Kept, Same
<1>10. ResetGives(p, g, d)
  BY <1>9, DeathReset
<1> HIDE DEF d
<1>11. Sound(d) /\ {p} \in SUBSET Present(d) /\ (Resets => {p} \cap d.HAS_BALL = {})
  BY <1>9, <1>10 DEF ResetGives, Drops, Same
<1>12. SetGives({p}, "dead", d, a)
  <2>1. "dead" \in States \ {"out"}
    BY DEF States
  <2> QED BY <1>11, <2>1, SetStateWhole DEF Sound
<1> HIDE DEF a
<1>13. Sound(a)
  BY <1>11, <1>12, SetStateHeld
<1>14. a \in Worlds /\ p \in Present(a) /\ a.FINISH \subseteq Present(a) /\ a.RACE_OVER \subseteq Present(a)
  BY <1>11, <1>12, <1>13, SoundNamed DEF SetGives, Same, Sound, Whole, Named
<1>15. /\ h \in Worlds /\ SameBalls(a, h) /\ h.state = a.state /\ h.recovering = a.recovering
       /\ h.pausing = a.pausing /\ h.destructing = a.destructing
       /\ h.FINISH \subseteq Present(a) /\ h.RACE_OVER \subseteq Present(a)
  BY <1>1, <1>14, ZenonT(60) DEF Worlds, SameBalls
<1>l. SameLives(a, h)
  BY <1>14 DEF Worlds, SameLives, SameRound, Saves, Saved
<1> HIDE DEF h
<1>16. Kept(a, h)
  BY <1>13, <1>15, <1>l, ScoredSound
<1>f. Falls(w, h)
  <2>1. Dies(p, g, d) /\ SamePlayers(w, g) /\ SameLives(w, g)
    BY <1>4, <1>7, <1>10 DEF ResetGives, SamePlayers, SameLives, SameRound, Saves
  <2>2. /\ SameRound(w, h) /\ h.state[p] = "dead" /\ h.destructing = d.destructing
        /\ \A q \in Players \ {p} : h.state[q] = d.state[q] /\ h.life[q] = d.life[q]
    BY <1>1, <1>12, <1>15, <1>l, <2>1 DEF SetGives, SameLives, SameRound, Saves, Dies
  <2>3. /\ \A q \in Players \ {p} : /\ h.state[q] = w.state[q] /\ h.life[q] = w.life[q]
                                    /\ q \in h.destructing => q \in w.destructing
        /\ w.state[p] = "paused" \/ p \notin h.destructing
        /\ w.state[p] = "paused" => h.destructing = w.destructing
    BY <2>1, <2>2 DEF Dies, SamePlayers, SameLives
  <2>4. ~server.teamPlay
    BY Options
  <2>5. Rests(w, h) /\ (server.limitedLives /\ Fit(w) => Fit(h))
    BY <1>1, <2>2, <2>3, <2>4 DEF Rests, Fit, Naps, SameRound, Saves
  <2>6. Gone(w) \subseteq Gone(h)
    BY <2>2, <2>3, <2>4 DEF Gone
  <2> QED BY <2>5, <2>6 DEF Falls
<1>17. Kept(w, h)
  BY <1>5, <1>8, <1>10, <1>12, <1>16, <1>f DEF Kept, Same, ResetGives, Drops, SetGives
<1> QED BY <1>3, <1>5, <1>17

LEMMA BallPassesKept ==
    ASSUME server \in Servers, server.race, NEW w, Sound(w), NEW t \in w.balls
    PROVE  Kept(w, BallPasses(t, w))
<1>1. w.ball_owner[t] # NO_ID => w.ball_owner[t] \in Present(w)
  BY DEF Sound, Whole, Owned
<1> QED BY <1>1, PassKept, SoundNamed DEF BallPasses

LEMMA AllPassKept ==
    ASSUME server \in Servers, NEW w, Sound(w), NEW B \in SUBSET w.balls, B # {} => server.race
    PROVE  Kept(w, FoldSet(BallPasses, w, B))
<1> DEFINE F == [t \in B |-> [v \in Worlds |-> BallPasses(t, v)]]
           Is(f) == f = [s \in SUBSET B |-> IF s = {} THEN w
                                            ELSE BallPasses(First(s), f[s \ {First(s)}])]
<1>1. IsFiniteSet(B) /\ w \in Worlds
  BY Fields, Options, FS_Subset DEF Sound, Whole
<1>2. ASSUME NEW s \in SUBSET B, s # {}, NEW v, Kept(w, v)
      PROVE  Kept(w, BallPasses(First(s), v))
  <2>1. First(s) \in B /\ server.race
    BY <1>2, FirstIn
  <2>2. Sound(v) /\ First(s) \in v.balls
    BY <1>2, <2>1 DEF Kept, Same
  <2>3. Kept(v, BallPasses(First(s), v))
    BY <2>1, <2>2, BallPassesKept
  <2> QED BY <1>2, <2>3, KeptAgain
<1>3. Kept(w, w)
  BY SoundNamed
<1>4. \A v : Kept(w, v) => v \in Worlds
  BY DEF Kept, Sound, Whole
<1>5. ASSUME NEW f, f[{}] = w,
             \A s \in SUBSET B : s # {} /\ f[s \ {First(s)}] \in Worlds =>
                 f[s] = BallPasses(First(s), f[s \ {First(s)}])
      PROVE  \A s \in SUBSET B : Kept(w, f[s])
  <2> DEFINE G == {s \in SUBSET B : Kept(w, f[s])}
  <2>1. {} \in G
    BY <1>3, <1>5
  <2>2. ASSUME NEW s \in SUBSET B, s # {}, s \ {First(s)} \in G PROVE s \in G
    <3>1. Kept(w, f[s \ {First(s)}]) /\ f[s \ {First(s)}] \in Worlds
      BY <1>4, <2>2
    <3>2. f[s] = BallPasses(First(s), f[s \ {First(s)}])
      BY <1>5, <2>2, <3>1
    <3> QED BY <1>2, <2>2, <3>1, <3>2
  <2> HIDE DEF G
  <2>3. SUBSET B \subseteq G
    BY <1>1, <2>1, <2>2, SubsetInduction
  <2> QED BY <2>3 DEF G
<1>6. \E f : Is(f)
  <2>1. PICK f : IsFold(f, B, w, F)
    BY <1>1, FoldExists
  <2>2. ASSUME NEW s \in SUBSET B, s # {}, f[s \ {First(s)}] \in Worlds
        PROVE  f[s] = BallPasses(First(s), f[s \ {First(s)}])
    <3>1. First(s) \in B
      BY <2>2, FirstIn
    <3>2. f[s] = F[First(s)][f[s \ {First(s)}]]
      BY <2>1, <2>2 DEF IsFold
    <3> QED BY <2>2, <3>1, <3>2
  <2>3. f[{}] = w
    BY <2>1 DEF IsFold
  <2>4. \A s \in SUBSET B : f[s] \in Worlds
    BY <1>4, <1>5, <2>2, <2>3
  <2>5. \A s \in SUBSET B : f[s] = IF s = {} THEN w ELSE BallPasses(First(s), f[s \ {First(s)}])
    BY <2>2, <2>3, <2>4
  <2>6. Is(f)
    <3>1. f = [s \in SUBSET B |-> f[s]]
      BY <2>1 DEF IsFold
    <3> QED BY <2>5, <3>1
  <2> QED BY <2>6
<1> DEFINE d == CHOOSE f : Is(f)
<1>7. Is(d)
  BY <1>6
<1>8. FoldSet(BallPasses, w, B) = d[B]
  BY DEF FoldSet, MapThenFoldSet, First
<1> HIDE DEF d
<1>9. \A s \in SUBSET B : d[s] = IF s = {} THEN w ELSE BallPasses(First(s), d[s \ {First(s)}])
  BY <1>7
<1>10. Kept(w, d[B])
  BY <1>5, <1>9
<1> QED BY <1>8, <1>10

-----------------------------------------------------------------------------
(* What happens to one player.                                             *)

\* The counts of players who are there may change; who begins his self destruction
\* is alive.
LEMMA CountsKept ==
    ASSUME NEW w, Sound(w), NEW h \in Worlds, SameBalls(w, h), h.state = w.state,
           h.recovering \subseteq w.recovering, h.pausing \subseteq w.pausing,
           \A p \in h.destructing \ w.destructing : p \in Players /\ w.state[p] = "alive",
           h.FINISH = w.FINISH, h.RACE_OVER = w.RACE_OVER, SameLives(w, h)
    PROVE  Kept(w, h)
<1>1. Present(h) = Present(w) /\ h.destructing \subseteq Present(w)
  BY DEF Present, Sound, Whole, Named
<1>2. Named(h) /\ Owned(h) /\ Held(h)
  BY <1>1 DEF Sound, Whole, Named, Owned, Held, SameBalls
<1>3. Falls(w, h)
  BY DEF SameLives, SameRound, Saves, Falls, Rests, Fit, Naps, Gone
<1> QED BY <1>1, <1>2, <1>3 DEF Kept, Same, Sound, Whole, SameBalls

LEMMA RecoveredKept ==
    ASSUME server \in Servers, NEW w, Sound(w), NEW p \in Present(w),
           w.state[p] \in {"dead", "appearing"}
    PROVE  Kept(w, Recovered(p, w))
<1> DEFINE s == IF server.limitedLives /\ w.state[p] = "dead" THEN "dead" ELSE "alive"
           h == Player_set_state({p}, s, w)
<1>1. s \in States \ {"out"}
  BY DEF States
<1>2. Resets => {p} \cap w.HAS_BALL = {}
  <2>1. p # NO_ID /\ p \in Players
    BY Options DEF Present
  <2>2. Resets => p \notin w.HAS_BALL
    BY <2>1 DEF Sound, Held
  <2> QED BY <2>2
<1>3. Recovered(p, w) = h
  BY DEF Recovered
<1> HIDE DEF s
<1>4. SetGives({p}, s, w, h)
  BY <1>1, SetStateWhole DEF Sound
<1> HIDE DEF h
<1>5. Sound(h)
  BY <1>2, <1>4, SetStateHeld
<1>6. server.limitedLives => s = IF w.state[p] = "dead" THEN "dead" ELSE "alive"
  BY DEF s
<1>7. Falls(w, h)
  <2>1. /\ SameRound(w, h) /\ h.destructing = w.destructing
        /\ server.limitedLives => \A q \in Players :
              /\ h.state[q] = w.state[q] \/ (w.state[q] = "appearing" /\ h.state[q] = "alive")
              /\ h.life[q] = w.life[q]
    <3>1. s \notin {"waiting", "paused"}
      BY DEF s
    <3> QED BY <1>4, <1>6, <3>1 DEF SetGives
  <2>2. Rests(w, h) /\ (server.limitedLives /\ Fit(w) => Fit(h))
    BY <2>1 DEF Rests, Fit, Naps, SameRound, Saves
  <2>3. server.limitedLives => Gone(w) \subseteq Gone(h)
    BY <2>1 DEF Gone
  <2> QED BY <2>2, <2>3 DEF Falls
<1> QED BY <1>3, <1>4, <1>5, <1>7 DEF Kept, SetGives

\* The parts of Updated, for p.
Goes(p, x) == {x} \cup (IF p \in x.destructing
                 THEN {Player_death_reset(p, Player_set_state({p}, "killed", x))} ELSE {})
Flies(p, x) == {x} \cup (IF x.state[p] = "alive" THEN {Player_set_state({p}, "killed", x)} ELSE {})
Then(p, x) == UNION {Flies(p, y) : y \in Goes(p, x)}
Recovers(p, x) ==
    LET y == [x EXCEPT !.recovering = @ \ {p}]
    IN  IF p \notin x.recovering THEN Then(p, x)
        ELSE IF x.state[p] \notin {"dead", "appearing"} THEN {Pause_player(p, y)}
        ELSE {x} \cup Then(p, Recovered(p, y))

LEMMA UpdatedParts ==
    ASSUME NEW w, NEW p, NEW h \in Updated(p, w)
    PROVE  \/ h \in Recovers(p, w) \/ h \in Recovers(p, [w EXCEPT !.pausing = @ \ {p}])
           \/ h = Delete_player(p, w)
<1> DEFINE counted == [w EXCEPT !.pausing = @ \ {p}]
           D == IF w.state[p] = "paused" THEN {w, counted} ELSE {counted}
           gone == IF p \in Humans THEN {Delete_player(p, w)} ELSE {}
<1>1. Updated(p, w) = (UNION {Recovers(p, x) : x \in D}) \cup gone
  BY Zenon DEF Updated, Recovers, Then, Goes, Flies
<1>2. D \subseteq {w, counted} /\ gone \subseteq {Delete_player(p, w)}
  OBVIOUS
<1> HIDE DEF D, gone, counted
<1>3. h \in gone \/ \E x \in D : h \in Recovers(p, x)
  BY <1>1
<1> QED BY <1>2, <1>3 DEF counted

LEMMA UpdatedKept ==
    ASSUME server \in Servers, NEW w, Sound(w), NEW p \in Players, NEW h \in Updated(p, w)
    PROVE  Kept(w, h) \/ h = Delete_player(p, w)
<1> DEFINE counted == [w EXCEPT !.pausing = @ \ {p}]
<1>1. ASSUME NEW x, Kept(w, x), NEW y \in Goes(p, x) PROVE Kept(w, y)
  <2>1. CASE y = x
    BY <1>1, <2>1
  <2>2. CASE p \in x.destructing /\ y = Player_death_reset(p, Player_set_state({p}, "killed", x))
    <3> DEFINE k == Player_set_state({p}, "killed", x)
    <3>1. p \in Present(x) /\ Sound(x)
      BY <1>1, <2>2 DEF Kept, Sound, Whole, Named
    <3>2. Kept(x, k)
      <4>1. server.limitedLives /\ Fit(x) /\ ~x.over => x.state[p] # "dead"
        BY <2>2 DEF Fit
      <4> QED BY <3>1, <4>1, KilledKept
    <3>3. y = Player_death_reset(p, k)
      BY <2>2
    <3>4. k.state[p] = "killed"
      <4>1. "killed" \in States \ {"out"} /\ {p} \in SUBSET Present(x)
        BY <3>1 DEF States
      <4>2. SetGives({p}, "killed", x, k)
        BY <3>1, <4>1, SetStateWhole DEF Sound
      <4> QED BY <4>2 DEF SetGives
    <3> HIDE DEF k
    <3>5. ResetGives(p, k, y) /\ p \in Present(k)
      BY <3>1, <3>2, <3>3, DeathReset DEF Kept, Same
    <3>6. Kept(k, y)
      BY <3>4, <3>5, DiesFalls DEF ResetGives, Drops, Kept
    <3> QED BY <1>1, <3>2, <3>6, KeptAgain
  <2> QED BY <1>1, <2>1, <2>2 DEF Goes
<1>2. ASSUME NEW x, Kept(w, x), NEW y \in Flies(p, x) PROVE Kept(w, y)
  <2>1. x.state[p] = "alive" => Kept(x, Player_set_state({p}, "killed", x))
    <3>1. x.state[p] = "alive" => {p} \in SUBSET Present(x)
      BY DEF Present
    <3> QED BY <1>2, <3>1, KilledKept DEF Kept
  <2>2. y = x \/ (x.state[p] = "alive" /\ y = Player_set_state({p}, "killed", x))
    BY <1>2 DEF Flies
  <2> QED BY <1>2, <2>1, <2>2, KeptAgain
<1>3. ASSUME NEW x, Kept(w, x), NEW y \in Then(p, x) PROVE Kept(w, y)
  BY <1>1, <1>2, <1>3 DEF Then
<1>4. ASSUME NEW x, Kept(w, x), NEW y \in Recovers(p, x) PROVE Kept(w, y)
  <2>1. CASE p \notin x.recovering
    BY <1>3, <1>4, <2>1 DEF Recovers
  <2>2. CASE p \in x.recovering
    <3> DEFINE z == [x EXCEPT !.recovering = @ \ {p}]
    <3>1. p \in Present(x) /\ x \in Worlds /\ Sound(x)
      BY <1>4, <2>2, SoundNamed DEF Kept, Sound, Whole, Named
    <3>2. /\ z \in Worlds /\ SameBalls(x, z) /\ z.state = x.state /\ SameLives(x, z)
          /\ z.recovering \subseteq x.recovering /\ z.pausing = x.pausing
          /\ z.destructing = x.destructing /\ z.FINISH = x.FINISH /\ z.RACE_OVER = x.RACE_OVER
      BY <3>1 DEF Worlds, SameBalls, SameLives, SameRound, Saves, Saved
    <3>3. \/ x.state[p] \notin {"dead", "appearing"} /\ y = Pause_player(p, z)
          \/ x.state[p] \in {"dead", "appearing"} /\ (y = x \/ y \in Then(p, Recovered(p, z)))
      BY <1>4, <2>2 DEF Recovers
    <3> HIDE DEF z
    <3>5. Kept(x, z)
      BY <3>1, <3>2, CountsKept
    <3>6. Sound(z) /\ p \in Present(z) /\ Kept(w, z)
      BY <1>4, <3>1, <3>5, KeptAgain DEF Kept, Same
    <3>7. Kept(w, Pause_player(p, z))
      BY <3>6, Pauses, KeptAgain
    <3>8. x.state[p] \in {"dead", "appearing"} => Kept(w, Recovered(p, z))
      BY <3>2, <3>6, RecoveredKept, KeptAgain
    <3> QED BY <1>3, <1>4, <3>3, <3>7, <3>8
  <2> QED BY <2>1, <2>2
<1>5. Kept(w, counted) /\ Kept(w, w)
  <2>1. w \in Worlds
    BY SoundNamed
  <2>2. /\ counted \in Worlds /\ SameBalls(w, counted) /\ counted.state = w.state
        /\ counted.recovering = w.recovering /\ counted.pausing \subseteq w.pausing
        /\ counted.destructing = w.destructing /\ counted.FINISH = w.FINISH
        /\ counted.RACE_OVER = w.RACE_OVER /\ SameLives(w, counted)
    BY <2>1 DEF Worlds, SameBalls, SameLives, SameRound, Saves, Saved
  <2> HIDE DEF counted
  <2> QED BY <2>2, CountsKept, SoundNamed
<1>6. \/ h \in Recovers(p, w) \/ h \in Recovers(p, counted)
      \/ h = Delete_player(p, w)
  BY UpdatedParts
<1> HIDE DEF counted
<1> QED BY <1>4, <1>5, <1>6

-----------------------------------------------------------------------------
(* Entering.                                                               *)

\* Who enters has n lives and is in the state s.
Enters(p, s, n, w, h) ==
    /\ Sound(h) /\ SameRound(w, h) /\ h.destructing = w.destructing /\ p \notin h.destructing
    /\ \A q \in Players : /\ h.state[q] = IF q = p THEN s ELSE w.state[q]
                          /\ h.life[q] = IF q = p THEN n ELSE w.life[q]

LEMMA EnterSound ==
    ASSUME server \in Servers, NEW w, Sound(w), NEW p \in Players \ Present(w),
           NEW s \in {"alive", "waiting", "appearing"}, NEW n \in 0 .. server.lives
    PROVE  Enters(p, s, n, w, [Player_set_state({p}, s, w) EXCEPT !.life[p] = n])
<1> DEFINE a == Player_set_state({p}, s, w)
           l == [a.life EXCEPT ![p] = n]
           h == [a EXCEPT !.life[p] = n]
<1>1. w \in Worlds
  BY SoundNamed
<1>2. SetIs({p}, s, w, a)
  <2>1. {p} \in SUBSET Players /\ s \in States
    BY DEF States
  <2> QED BY <1>1, <2>1, SetStateIs
<1>3. h = [a EXCEPT !.life = l]
  OBVIOUS
<1> HIDE DEF a, h
<1> USE DEF SetIs
<1>4. l \in [Players -> 0 .. server.lives]
  BY <1>2, Fields
<1>l. \A q \in Players : l[q] = IF q = p THEN n ELSE w.life[q]
  BY <1>1, <1>2, Fields
<1> HIDE DEF l
<1>5. h \in Worlds /\ SamePlayers(a, h) /\ SameBalls(a, h)
  BY <1>2, <1>3, <1>4, ZenonT(60) DEF Worlds, SamePlayers, SameBalls
<1>a. h.life = l /\ SameRound(a, h)
  BY <1>2, <1>3 DEF Worlds, SameRound, Saves, Saved
<1>6. h.state = a.state /\ Present(h) = Present(w) \cup {p}
  BY <1>2, <1>5 DEF SamePlayers, Present
<1>7. Named(h)
  BY <1>2, <1>5, <1>6 DEF Sound, Whole, Named, SamePlayers, SameBalls
<1>8. Owned(h)
  BY <1>2, <1>5, <1>6 DEF Sound, Whole, Owned, SameBalls
<1>9. Held(h)
  <2>1. \A t \in w.balls : w.carrier[t] # NO_ID => w.carrier[t] \in Players \ {p}
    BY DEF Sound, Whole, Owned, Present
  <2>2. \A q \in Players \ {p} : h.state[q] = w.state[q]
    BY <1>2, <1>6
  <2> QED BY <1>2, <1>5, <2>1, <2>2 DEF Sound, Held, SameBalls
<1>10. Sound(h)
  BY <1>5, <1>7, <1>8, <1>9 DEF Sound, Whole
<1>11. Enters(p, s, n, w, h)
  <2>1. p \notin w.destructing
    BY DEF Sound, Whole, Named
  <2> QED BY <1>2, <1>l, <1>5, <1>a, <1>6, <1>10, <2>1 DEF Enters, SamePlayers, SameRound, Saves
<1> QED BY <1>11 DEF h, a

-----------------------------------------------------------------------------
(* Collisions of players.                                                  *)

\* Those of a crash are alive, and some are killed.
LEMMA CrashKept ==
    ASSUME server \in Servers, NEW w, Sound(w), NEW P \in SUBSET Are({"alive"}, w)
    PROVE  LET h == Player_set_state(P, "killed", w)
           IN  /\ Kept(w, h)
               /\ \A p \in Are({"alive"}, w) : h.state[p] \in {"alive", "killed"}
<1> DEFINE h == Player_set_state(P, "killed", w)
<1>1. P \in SUBSET Present(w) /\ "killed" \in States \ {"out"}
  BY DEF Are, Present, States
<1>2. SetGives(P, "killed", w, h)
  BY <1>1, SetStateWhole DEF Sound
<1>3. Kept(w, h)
  <2>1. \A p \in P : w.state[p] # "dead"
    BY DEF Are
  <2> QED BY <1>1, <2>1, KilledKept
<1> HIDE DEF h
<1>4. \A p \in Are({"alive"}, w) : h.state[p] \in {"alive", "killed"}
  BY <1>2 DEF SetGives, Are
<1> QED BY <1>3, <1>4 DEF h

\* The parts of Collide.
Touches(p, w) == IF w.state[p] # "alive" THEN {w}
                 ELSE {w} \cup UNION {Touched(p, t, w) : t \in w.balls}
Shot(p, w) == {w} \cup (IF w.state[p] = "alive" THEN {Player_set_state({p}, "killed", w)} ELSE {})
Passes(p, w) == {w} \cup (IF w.state[p] = "alive" /\ server.race /\ ~server.ballrace
                          THEN {Player_pass_checkpoint(p, w)} ELSE {})

LEMMA CollideParts ==
    ASSUME NEW p \in Players, Collide(p)
    PROVE  /\ phase = "collide" /\ p \in todo /\ todo' = todo \ {p}
           /\ UNCHANGED <<server, phase>>
           /\ \/ UNCHANGED world
              \/ /\ world.state[p] = "alive"
                 /\ \E q \in Are({"alive"}, world) : \E P \in SUBSET {p, q} :
                       \E v \in Connected(p, Player_set_state(P, "killed", world)) :
                          \E x \in Touches(p, v) : \E y \in Shot(p, x) : world' \in Passes(p, y)
<1>1. /\ phase = "collide" /\ p \in todo /\ todo' = todo \ {p}
      /\ UNCHANGED <<server, phase>>
  BY DEF Collide
<1>2. CASE world.state[p] # "alive"
  BY <1>1, <1>2 DEF Collide
<1>3. CASE world.state[p] = "alive"
  <2> DEFINE S == UNION {SUBSET {p, q} : q \in Are({"alive"}, world)}
             C == {Player_set_state(P, "killed", world) : P \in S}
  <2>1. \E u \in C : \E v \in Connected(p, u) :
           \E x \in Touches(p, v) : \E y \in Shot(p, x) : world' \in Passes(p, y)
    BY <1>3 DEF Collide, Touches, Shot, Passes
  <2>2. \A P \in S : \E q \in Are({"alive"}, world) : P \in SUBSET {p, q}
    OBVIOUS
  <2> HIDE DEF S
  <2>3. PICK P \in S : \E v \in Connected(p, Player_set_state(P, "killed", world)) :
           \E x \in Touches(p, v) : \E y \in Shot(p, x) : world' \in Passes(p, y)
    BY <2>1
  <2>4. PICK q \in Are({"alive"}, world) : P \in SUBSET {p, q}
    BY <2>2
  <2> QED BY <1>1, <1>3, <2>3, <2>4
<1> QED BY <1>2, <1>3

LEMMA CollideKept ==
    ASSUME server \in Servers, Sound(world), NEW p \in Players, Collide(p)
    PROVE  Kept(world, world')
<1>1. CASE UNCHANGED world
  BY <1>1, SoundNamed
<1>2. CASE ~ UNCHANGED world
  <2>1. PICK q \in Are({"alive"}, world) : \E P \in SUBSET {p, q} :
              /\ world.state[p] = "alive"
              /\ \E v \in Connected(p, Player_set_state(P, "killed", world)) :
                    \E x \in Touches(p, v) : \E y \in Shot(p, x) : world' \in Passes(p, y)
    BY <1>2, CollideParts
  <2>2. PICK P \in SUBSET {p, q} :
              /\ world.state[p] = "alive"
              /\ \E v \in Connected(p, Player_set_state(P, "killed", world)) :
                    \E x \in Touches(p, v) : \E y \in Shot(p, x) : world' \in Passes(p, y)
    BY <2>1
  <2> DEFINE u == Player_set_state(P, "killed", world)
  <2>3. P \in SUBSET Are({"alive"}, world) /\ p \in Are({"alive"}, world) /\ p \in Present(world)
    BY <2>2 DEF Are, Present
  <2>4. Kept(world, u) /\ u.state[p] \in {"alive", "killed"}
    BY <2>3, CrashKept
  <2>5. PICK v \in Connected(p, u) :
              \E x \in Touches(p, v) : \E y \in Shot(p, x) : world' \in Passes(p, y)
    BY <2>2
  <2>6. PICK x \in Touches(p, v) : \E y \in Shot(p, x) : world' \in Passes(p, y)
    BY <2>5
  <2>7. PICK y \in Shot(p, x) : world' \in Passes(p, y)
    BY <2>6
  <2> HIDE DEF u
  <2>8. Sound(u) /\ p \in Present(u)
    BY <2>3, <2>4 DEF Kept, Same
  <2>9. Kept(u, v)
    BY <2>4, <2>8, ConnectedKept
  <2>10. Kept(world, v)
    BY <2>4, <2>9, KeptAgain
  <2>11. Sound(v) /\ p \in Present(v)
    BY <2>3, <2>10 DEF Kept, Same
  <2>12. Kept(v, x)
    <3>1. CASE x = v
      BY <2>11, <3>1, SoundNamed
    <3>2. CASE x # v
      <4>1. PICK t \in v.balls : x \in Touched(p, t, v) /\ v.state[p] = "alive"
        BY <2>6, <3>2 DEF Touches
      <4> QED BY <2>11, <4>1, TouchedKept
    <3> QED BY <3>1, <3>2
  <2>13. Kept(world, x)
    BY <2>10, <2>12, KeptAgain
  <2>14. Sound(x) /\ p \in Present(x)
    BY <2>3, <2>13 DEF Kept, Same
  <2>15. Kept(x, y)
    <3>1. Kept(x, x)
      BY <2>14, SoundNamed
    <3>2. x.state[p] = "alive" => Kept(x, Player_set_state({p}, "killed", x))
      <4>1. {p} \in SUBSET Present(x)
        BY <2>14
      <4> QED BY <2>14, <4>1, KilledKept
    <3> QED BY <2>7, <3>1, <3>2 DEF Shot
  <2>16. Kept(world, y)
    BY <2>13, <2>15, KeptAgain
  <2>17. Sound(y) /\ p \in Present(y)
    BY <2>3, <2>16 DEF Kept, Same
  <2>18. Kept(y, world')
    <3>1. Kept(y, y)
      BY <2>17, SoundNamed
    <3>2. server.race => Kept(y, Player_pass_checkpoint(p, y))
      BY <2>17, PassKept
    <3> QED BY <2>7, <3>1, <3>2 DEF Passes
  <2> QED BY <2>16, <2>18, KeptAgain
<1> QED BY <1>1, <1>2

-----------------------------------------------------------------------------
(* The invariant.                                                          *)

\* While anybody is there, the time of rounds that have a limit is running.
Timed(w) == server.maxRoundTime > 0 /\ Present(w) # {} => w.roundtime >= 0

Good(w) == Sound(w) /\ Fit(w) /\ Final(w) /\ Timed(w) /\ Saved(w)

\* While balls move, those that the loop has still to visit are there.
IInv ==
    /\ server \in Servers /\ phase \in {"idle", "move", "players", "collide", "bury"}
    /\ todo \subseteq Treasures \cup Players
    /\ Good(world)
    /\ phase = "move" => todo \subseteq world.balls

\* What OutStaysOut says of a step, and TimeRunsDown, but for the end of a frame.
StaysOut(w, h) ==
    server.limitedLives /\ ~w.over /\ ~(Lost(w) \cap Present(h) \subseteq Lost(h)) => Begun(h)
RunsDown(w, h) ==
    \A p \in Players : Waits(p, w) /\ Waits(p, h) /\ (h.over => w.over) =>
        w.roundtime >= 0 /\ h.roundtime <= w.roundtime

\* What is shown of every step.
Steps(w, h) == Good(h) /\ StaysOut(w, h) /\ RunsDown(w, h)

LEMMA LostGone ==
    ASSUME NEW w, Fit(w), server.limitedLives, ~w.over
    PROVE  Lost(w) \subseteq Gone(w)
<1> SUFFICES ASSUME NEW p \in Lost(w) PROVE p \in Gone(w)
  OBVIOUS
<1>1. p \in Players /\ w.state[p] \in {"waiting", "dead", "paused", "killed"}
      /\ (w.state[p] = "killed" => w.life[p] = 0)
  BY DEF Lost, Out, Paused, Are
<1>2. /\ w.state[p] = "paused" => w.life[p] = 0
      /\ w.state[p] = "waiting" => w.life[p] = 0
      /\ w.state[p] = "dead" /\ server.teamPlay => w.life[p] = 0
  BY <1>1 DEF Fit, Naps
<1> QED BY <1>1, <1>2 DEF Gone

LEMMA GoneLost ==
    ASSUME NEW h
    PROVE  Gone(h) \cap Present(h) \subseteq Lost(h)
BY DEF Gone, Present, Lost, Out, Paused, Are

\* While the round goes on, who is out stays out, and the time is what it was.
LEMMA FallsSteps ==
    ASSUME server \in Servers, NEW w, Good(w), NEW h, Sound(h), Falls(w, h),
           Present(w) = {} => Present(h) = {}
    PROVE  Steps(w, h)
<1>1. SameRound(w, h) /\ Fit(h)
  <2>1. ~server.limitedLives => Fit(h)
    BY DEF Fit, Naps
  <2> QED BY <2>1 DEF Good, Falls, Rests
<1>2. Good(h)
  BY <1>1 DEF Good, SameRound, Saves, Final, Timed
<1>3. StaysOut(w, h)
  <2>1. ASSUME server.limitedLives, ~w.over PROVE Lost(w) \cap Present(h) \subseteq Lost(h)
    <3>1. Gone(w) \subseteq Gone(h)
      BY <2>1 DEF Good, Falls
    <3>2. Lost(w) \subseteq Gone(w)
      BY <2>1, LostGone DEF Good
    <3> QED BY <3>1, <3>2, GoneLost
  <2> QED BY <2>1 DEF StaysOut
<1>4. RunsDown(w, h)
  <2>1. w.roundtime \in Int
    BY SoundNamed, Fields, Options DEF Good
  <2>2. ASSUME NEW p, Waits(p, w) PROVE w.roundtime >= 0
    BY <2>2 DEF Waits, Out, Are, Present, Good, Timed
  <2> QED BY <1>1, <2>1, <2>2 DEF RunsDown, SameRound, Saves
<1> QED BY <1>2, <1>3, <1>4 DEF Steps

\* When a round begins, nobody is out.
LEMMA BegunIn ==
    ASSUME NEW h, Begun(h)
    PROVE  Out(h) = {}
BY DEF Begun, Out, Present, Paused, Are

LEMMA BegunSteps ==
    ASSUME server \in Servers, NEW w, NEW h, Sound(h), Begun(h), Naps(h), Final(h), Saved(h),
           h.roundtime = server.maxRoundTime
    PROVE  Steps(w, h)
<1>1. Out(h) = {}
  BY BegunIn
<1>2. Fit(h)
  BY <1>1 DEF Fit, Out, Are
<1>3. Timed(h)
  BY Options DEF Timed
<1>4. RunsDown(w, h)
  BY <1>1 DEF RunsDown, Waits
<1> QED BY <1>2, <1>3, <1>4 DEF Steps, Good, StaysOut

\* When the game is over, all are out.
LEMMA EndedSteps ==
    ASSUME server \in Servers, NEW w, Good(w), NEW h, Sound(h), Ended(h), Naps(h), Final(h),
           Saved(h), h.roundtime = server.maxRoundTime, w.roundsPlayed < server.roundsToPlay
    PROVE  Steps(w, h)
<1>1. w.roundsPlayed \in Int /\ server.roundsToPlay \in Int
  BY SoundNamed, Fields, Options DEF Good
<1>2. h.over /\ ~w.over
  BY <1>1 DEF Ended, Good, Final
<1>3. Fit(h)
  BY <1>2 DEF Ended, Fit
<1>4. Timed(h)
  BY Options DEF Timed
<1>5. Present(h) \subseteq Lost(h)
  BY DEF Ended, Present, Lost, Out, Paused, Are
<1>6. StaysOut(w, h)
  BY <1>5 DEF StaysOut
<1> QED BY <1>2, <1>3, <1>4, <1>6 DEF Steps, Good, RunsDown

LEMMA EndsSteps ==
    ASSUME server \in Servers, NEW w, Good(w), NEW v, Naps(v), v.over = w.over,
           v.roundsPlayed = w.roundsPlayed, Saves(w, v), NEW h, Sound(h), Ends(v, h)
    PROVE  Steps(w, h)
<1>1. Naps(h) /\ h.roundtime = server.maxRoundTime /\ Saved(h)
  BY DEF Ends, Saves, Good
<1>2. Final(h)
  BY DEF Ends, Final, Good
<1>3. Begun(h) \/ (Ended(h) /\ w.roundsPlayed < server.roundsToPlay)
  BY DEF Ends
<1> QED BY <1>1, <1>2, <1>3, BegunSteps, EndedSteps

\* All this is about the options of the server, which stay as they are.
LEMMA GoodNext ==
    ASSUME UNCHANGED server, Good(world')
    PROVE  Good(world)'
<1>1. (world \in Worlds)'
  BY DEF Good, Sound, Whole, Worlds, Teams
<1>2. Named(world)' /\ Owned(world)'
  BY DEF Good, Sound, Whole, Named, Owned, Present
<1>3. Held(world)'
  BY DEF Good, Sound, Held, Resets
<1>4. Fit(world)' /\ Final(world)' /\ Timed(world)' /\ Saved(world)'
  BY DEF Good, Fit, Naps, Final, Timed, Present, Saved, Teams, TreasuresOf
<1> QED BY <1>1, <1>2, <1>3, <1>4 DEF Good, Sound, Whole

\* The invariant is kept, and the step is as it should be.
Sure == IInv' /\ Steps(world, world')

\* What a step between two frames has to show.
LEMMA BetweenKeeps ==
    ASSUME IInv, NEW next, Between(next), \A h \in next : Steps(world, h)
    PROVE  Sure
<1>1. world' \in next /\ phase = "idle" /\ UNCHANGED <<server, phase, todo>>
  BY DEF Between
<1>2. Good(world)'
  BY <1>1, GoodNext DEF Steps
<1> QED BY <1>1, <1>2 DEF IInv, Sure

LEMMA InitInv ==
    ASSUME Init
    PROVE  IInv
<1>1. server \in Servers /\ world = NewWorld /\ phase = "idle" /\ todo = {}
  BY DEF Init
<1>2. AllBalls \subseteq Treasures /\ \A x \in Teams : Cardinality(TreasuresOf(x)) \in Int
  <2>1. \A x : TreasuresOf(x) \subseteq Treasures
    BY <1>1, Options DEF TreasuresOf
  <2>2. \A x : IsFiniteSet(TreasuresOf(x))
    BY <1>1, <2>1, Options, FS_Subset
  <2>3. \A x : Cardinality(TreasuresOf(x)) \in Nat
    BY <2>2, FS_CardinalityType
  <2> QED BY <1>1, <2>3, Options DEF AllBalls
<1> DEFINE n == NewWorld
<1>3. n \in Worlds
  BY <1>1, <1>2, Options DEF NewWorld, Worlds, States
<1>4. /\ \A p \in Players : n.state[p] = "out"
      /\ n.recovering = {} /\ n.pausing = {} /\ n.destructing = {} /\ n.HAS_BALL = {}
      /\ n.FINISH = {} /\ n.RACE_OVER = {}
      /\ n.balls = AllBalls /\ n.have = AllBalls /\ n.recreate = AllBalls
      /\ n.dying = {} /\ n.fused = {}
      /\ n.carrier = [t \in Treasures |-> NO_ID] /\ n.ball_owner = [t \in Treasures |-> NO_ID]
      /\ n.over = FALSE
  BY DEF NewWorld
<1> HIDE DEF n
<1>5. Named(n) /\ Owned(n) /\ Held(n)
  BY <1>2, <1>4 DEF Named, Owned, Held, Present
<1>6. Fit(n) /\ Final(n) /\ Timed(n)
  BY <1>4 DEF Fit, Naps, Final, Timed, Present
<1>7. Saved(n)
  <2>1. \A k \in Teams : n.TreasuresLeft[k] = Cardinality(TreasuresOf(k))
    BY DEF n, NewWorld
  <2>2. \A k : TreasuresOf(k) \cap AllBalls = TreasuresOf(k)
    BY DEF TreasuresOf, AllBalls
  <2> QED BY <1>2, <1>4, <2>1, <2>2 DEF Saved
<1> QED BY <1>1, <1>3, <1>5, <1>6, <1>7 DEF IInv, Good, Sound, Whole, n

LEMMA EnterInv ==
    ASSUME IInv, NEW p \in Players, Enter(p)
    PROVE  Sure
<1> DEFINE first == Present(world) = {}
           s == IF first THEN "alive" ELSE IF server.limitedLives THEN "waiting" ELSE "appearing"
           n == IF first THEN server.lives ELSE 0
           v == [Player_set_state({p}, s, world) EXCEPT !.life[p] = n]
           time == IF server.maxRoundTime > 0 THEN server.maxRoundTime ELSE -1
           X == {v} \cup Race_game_over(v) \cup EndRound(v)
           next == {[x EXCEPT !.roundtime = IF first THEN time ELSE @] : x \in X}
<1>1. server \in Servers /\ Good(world) /\ Sound(world) /\ p \notin Present(world)
  BY DEF IInv, Good, Enter
<1>2. Between(next)
  BY DEF Enter, Between
<1>3. /\ s \in {"alive", "waiting", "appearing"} /\ n \in 0 .. server.lives
      /\ time \in -1 .. server.maxRoundTime
      /\ server.limitedLives /\ ~first => s = "waiting" /\ n = 0
      /\ first => s = "alive"
      /\ server.maxRoundTime > 0 => time >= 0
  BY <1>1, Options
<1>f. first <=> Present(world) = {}
  OBVIOUS
<1> HIDE DEF first, s, n, time
<1>4. Enters(p, s, n, world, v)
  BY <1>1, <1>3, EnterSound
<1> HIDE DEF v
<1>5. Sound(v) /\ SameRound(world, v) /\ Final(v) /\ Fit(v) /\ Saved(v)
  <2>1. Final(v)
    BY <1>1, <1>4 DEF Enters, SameRound, Saves, Good, Final
  <2>2. Fit(v)
    BY <1>1, <1>3, <1>4 DEF Enters, SameRound, Saves, Good, Fit, Naps
  <2>3. Saved(v)
    BY <1>1, <1>4 DEF Enters, SameRound, Saves, Good
  <2> QED BY <1>4, <2>1, <2>2, <2>3 DEF Enters
<1>6. \A x \in X : x = v \/ Safe(v, x)
  BY <1>1, <1>5, EndRoundSound, RaceGameOverSound
<1> HIDE DEF X
<1>7. ASSUME ~first, NEW x \in X PROVE Steps(world, x)
  <2>1. CASE x = v
    <3>1. world.state[p] = "out"
      BY <1>1 DEF Present
    <3>2. server.limitedLives => Gone(world) \subseteq Gone(v)
      BY <1>3, <1>4, <1>7, <3>1 DEF Enters, Gone
    <3>3. Falls(world, v)
      BY <1>5, <3>2 DEF Falls, Rests, Fit
    <3> QED BY <1>1, <1>5, <1>f, <1>7, <2>1, <3>3, FallsSteps
  <2>2. CASE Safe(v, x)
    BY <1>1, <1>5, <2>2, EndsSteps DEF Safe, SameRound, Saves, Fit
  <2> QED BY <1>6, <2>1, <2>2
<1>8. ASSUME first, NEW x \in X PROVE Sound(x) /\ Fit(x) /\ Final(x) /\ Saved(x)
  <2>1. CASE x = v
    BY <1>5, <2>1
  <2>2. CASE Safe(v, x)
    <3>1. Steps(world, x)
      BY <1>1, <1>5, <2>2, EndsSteps DEF Safe, SameRound, Saves, Fit
    <3> QED BY <3>1 DEF Steps, Good
  <2> QED BY <1>6, <2>1, <2>2
<1>9. ASSUME first, NEW x \in X, NEW h, h = [x EXCEPT !.roundtime = time]
      PROVE  Steps(world, h)
  <2>1. x \in Worlds /\ Sound(x) /\ Fit(x) /\ Final(x) /\ Saved(x)
    BY <1>8, <1>9, SoundNamed
  <2>2. /\ h \in Worlds /\ SamePlayers(x, h) /\ SameBalls(x, h) /\ h.roundtime = time
        /\ h.life = x.life /\ h.over = x.over /\ h.roundsPlayed = x.roundsPlayed
        /\ h.TreasuresLeft = x.TreasuresLeft
    BY <1>3, <1>9, <2>1 DEF Worlds, SamePlayers, SameBalls
  <2>3. Sound(h)
    BY <2>1, <2>2, WholeAs DEF Sound
  <2>4. Fit(h) /\ Final(h) /\ Saved(h)
    BY <2>1, <2>2 DEF Fit, Naps, Final, Saved, SamePlayers, SameBalls
  <2>5. Timed(h)
    BY <1>3, <2>2 DEF Timed
  <2>6. Lost(world) = {} /\ Out(world) = {}
    BY <1>f, <1>9 DEF Present, Lost, Out, Paused, Are
  <2> QED BY <2>3, <2>4, <2>5, <2>6 DEF Steps, Good, StaysOut, RunsDown, Waits
<1>10. ASSUME NEW h \in next PROVE Steps(world, h)
  <2>1. PICK x \in X : h = [x EXCEPT !.roundtime = IF first THEN time ELSE @]
    OBVIOUS
  <2>2. CASE first
    BY <1>9, <2>1, <2>2
  <2>3. CASE ~first
    <3>1. Steps(world, x)
      BY <1>7, <2>3
    <3>2. x \in Worlds
      BY <3>1, SoundNamed DEF Steps, Good
    <3>3. h = x
      BY <2>1, <2>3, <3>2 DEF Worlds
    <3> QED BY <3>1, <3>3
  <2> QED BY <2>2, <2>3
<1> HIDE DEF next
<1> QED BY <1>2, <1>10, BetweenKeeps

LEMMA UnpauseInv ==
    ASSUME IInv, NEW p \in Players, Unpause(p)
    PROVE  Sure
<1> DEFINE s == IF server.limitedLives THEN "waiting" ELSE "appearing"
           a == Player_set_state({p}, s, world)
           r == [a.round EXCEPT ![p] = 0]
           h == [a EXCEPT !.round[p] = 0]
<1>1. server \in Servers /\ Good(world) /\ Sound(world) /\ world.state[p] = "paused"
      /\ Between({h})
  BY DEF IInv, Good, Unpause, Paused, Are
<1>2. {p} \in SUBSET Present(world) /\ s \in States \ {"out"}
      /\ (server.limitedLives => s = "waiting")
  BY <1>1 DEF Present, States
<1>3. Resets => {p} \cap world.HAS_BALL = {}
  <2>1. p # NO_ID
    BY <1>1, Options
  <2> QED BY <1>1, <2>1 DEF Sound, Held
<1> HIDE DEF s
<1>4. SetGives({p}, s, world, a)
  BY <1>1, <1>2, SetStateWhole DEF Sound
<1>5. h = [a EXCEPT !.round = r]
  OBVIOUS
<1> HIDE DEF a, h
<1>6. Sound(a) /\ a \in Worlds
  BY <1>1, <1>3, <1>4, SetStateHeld, SoundNamed
<1>7. r \in [Players -> 0 .. server.raceLaps + 1]
  BY <1>1, <1>6, Options, Fields
<1> HIDE DEF r
<1>8. h \in Worlds /\ SamePlayers(a, h) /\ SameLives(a, h) /\ SameBalls(a, h)
  BY <1>5, <1>6, <1>7 DEF Worlds, SamePlayers, SameLives, SameRound, Saves, Saved, SameBalls
<1>9. Sound(h)
  BY <1>6, <1>8, WholeAs DEF Sound
<1>10. Falls(world, h)
  <2>1. /\ SameRound(world, h) /\ h.destructing = world.destructing
        /\ \A q \in Players \ {p} : h.state[q] = world.state[q] /\ h.life[q] = world.life[q]
        /\ server.limitedLives => h.state[p] = "waiting" /\ h.life[p] = 0
    BY <1>2, <1>4, <1>8 DEF SetGives, SamePlayers, SameLives, SameRound, Saves
  <2>2. server.limitedLives => p \notin world.destructing
    BY <1>1 DEF Good, Fit, Naps
  <2>3. Rests(world, h) /\ (server.limitedLives => Fit(h))
    BY <1>1, <2>1, <2>2 DEF Good, Rests, Fit, Naps, SameRound, Saves
  <2>4. server.limitedLives => Gone(world) \subseteq Gone(h)
    BY <2>1 DEF Gone
  <2> QED BY <2>3, <2>4 DEF Falls
<1>11. Steps(world, h)
  BY <1>1, <1>2, <1>9, <1>10, FallsSteps
<1> QED BY <1>1, <1>11, BetweenKeeps

\* What keeps a world and its players.
LEMMA KeptSteps ==
    ASSUME server \in Servers, NEW w, Good(w), NEW h, Kept(w, h)
    PROVE  Steps(w, h)
BY FallsSteps DEF Kept, Same

LEMMA LeaveSteps ==
    ASSUME server \in Servers, NEW w, Good(w), NEW p \in Players
    PROVE  Steps(w, Delete_player(p, w))
<1>1. LeaveGives(p, w, Delete_player(p, w))
  BY DeletePlayer DEF Good
<1> QED BY <1>1, FallsSteps DEF LeaveGives

LEMMA DropBallInv ==
    ASSUME IInv, NEW p \in Players, DropBall(p)
    PROVE  Sure
<1> DEFINE D == {Treasures} \cup {{t} : t \in Carried(p, world)}
           next == {Detach_ball(p, B, world) : B \in D}
<1>1. server \in Servers /\ Good(world) /\ Sound(world) /\ Between(next)
  BY DEF IInv, Good, DropBall
<1> HIDE DEF D
<1>2. \A h \in next : Steps(world, h)
  BY <1>1, DetachKept, KeptSteps
<1> HIDE DEF next
<1> QED BY <1>1, <1>2, BetweenKeeps

LEMMA SelfDestructInv ==
    ASSUME IInv, NEW p \in Players, SelfDestruct(p)
    PROVE  Sure
<1> DEFINE d == IF p \in world.destructing THEN world.destructing \ {p}
                ELSE world.destructing \cup {p}
           h == [world EXCEPT !.destructing = d]
<1>1. server \in Servers /\ Good(world) /\ Sound(world) /\ world.state[p] = "alive"
      /\ Between({h})
  BY DEF IInv, Good, SelfDestruct
<1>2. world \in Worlds
  BY <1>1, SoundNamed
<1>3. d \in SUBSET Players /\ d \subseteq world.destructing \cup {p}
  BY <1>2, Fields
<1> HIDE DEF d
<1>4. /\ h \in Worlds /\ SameBalls(world, h) /\ h.state = world.state
      /\ h.recovering = world.recovering /\ h.pausing = world.pausing
      /\ h.destructing = d /\ h.FINISH = world.FINISH /\ h.RACE_OVER = world.RACE_OVER
      /\ SameLives(world, h)
  BY <1>2, <1>3 DEF Worlds, SameBalls, SameLives, SameRound, Saves, Saved
<1> HIDE DEF h
<1>5. Steps(world, h)
  BY <1>1, <1>3, <1>4, CountsKept, KeptSteps
<1> QED BY <1>1, <1>5, BetweenKeeps

LEMMA CmdResetInv ==
    ASSUME IInv, Cmd_reset
    PROVE  Sure
<1> DEFINE w == FoldSet(Delete_shot, world, world.balls)
<1>1. server \in Servers /\ Good(world) /\ Sound(world) /\ world \in Worlds
  BY SoundNamed DEF IInv, Good
<1>2. PICK n \in {0, world.roundsPlayed} :
           Between({[v EXCEPT !.over = FALSE, !.roundsPlayed = n] : v \in Reset_all_players(w)})
  BY DEF Cmd_reset
<1>3. Sound(w) /\ Naps(w) /\ Saved(w)
  <2>1. DeletedGives(world.balls, world.balls, world, w)
    BY <1>1, DeleteBalls
  <2> HIDE DEF w
  <2> QED BY <1>1, <2>1 DEF DeletedGives, Good, Fit, Naps, SamePlayers, SameLives, SameRound, Saves
<1> HIDE DEF w
<1> DEFINE R == Reset_all_players(w)
           next == {[v EXCEPT !.over = FALSE, !.roundsPlayed = n] : v \in R}
<1>4. Between(next)
  BY <1>2
<1>5. \A v \in R : Cleared(w, v) /\ v.roundtime = server.maxRoundTime
  BY <1>1, <1>3, ResetAllSound
<1>6. n \in 0 .. server.roundsToPlay + 1
  BY <1>1, Options, Fields
<1> HIDE DEF R
<1>7. ASSUME NEW h \in next PROVE Steps(world, h)
  <2>1. PICK v \in R : h = [[v EXCEPT !.over = FALSE] EXCEPT !.roundsPlayed = n]
    OBVIOUS
  <2>2. v \in Worlds /\ Sound(v) /\ Naps(v) /\ Begun(v) /\ v.roundtime = server.maxRoundTime
        /\ Saved(v)
    BY <1>3, <1>5, SoundNamed DEF Cleared, Begins, Saves
  <2>3. h \in Worlds /\ SamePlayers(v, h) /\ SameBalls(v, h)
    BY <1>6, <2>1, <2>2, ZenonT(60) DEF Worlds, SamePlayers, SameBalls
  <2>4. h.life = v.life /\ h.over = FALSE /\ h.roundtime = v.roundtime
        /\ h.TreasuresLeft = v.TreasuresLeft
    BY <2>1, <2>2 DEF Worlds
  <2>5. Sound(h)
    BY <2>2, <2>3, WholeAs DEF Sound
  <2>6. Begun(h) /\ Naps(h) /\ Final(h) /\ Saved(h)
    <3>1. Saved(h)
      BY <2>2, <2>3, <2>4 DEF Saved, SameBalls
    <3> QED BY <2>2, <2>3, <2>4, <3>1
            DEF Begun, Naps, Final, SamePlayers, Present, Paused, Are
  <2> QED BY <1>1, <2>2, <2>4, <2>5, <2>6, BegunSteps
<1> HIDE DEF next
<1> QED BY <1>4, <1>7, BetweenKeeps

\* A step of the loop of a phase.
LEMMA LoopKeeps ==
    ASSUME IInv, UNCHANGED <<server, phase>>, todo' \subseteq todo, Steps(world, world'),
           phase = "move" => world'.balls = world.balls
    PROVE  Sure
<1>1. Good(world)'
  BY GoodNext DEF Steps
<1> QED BY <1>1 DEF IInv, Sure

\* The next phase of a frame begins.
LEMMA PhaseKeeps ==
    ASSUME IInv, UNCHANGED server, phase' \in {"idle", "players", "collide", "bury"},
           todo' \subseteq Treasures \cup Players, Steps(world, world')
    PROVE  Sure
<1>1. Good(world)'
  BY GoodNext DEF Steps
<1>2. (phase = "move")' = FALSE /\ (Treasures \cup Players)' = Treasures \cup Players
  OBVIOUS
<1> QED BY <1>1, <1>2 DEF IInv, Sure

LEMMA StandStill ==
    ASSUME IInv, UNCHANGED world
    PROVE  Steps(world, world')
<1>1. Kept(world, world)
  BY SoundNamed DEF IInv, Good
<1> QED BY <1>1, KeptSteps DEF IInv

\* A frame ends: who is out is not alone, and the time of those who wait runs down.
FrameEnds(w, h) ==
    /\ server.limitedLives /\ ~h.over /\ Out(h) # {} => Present(h) \ (Paused(h) \cup Out(h)) # {}
    /\ \A p \in Players : Waits(p, w) /\ Waits(p, h) /\ (h.over => w.over) =>
          h.roundtime < w.roundtime

LEMMA EndFrameInv ==
    ASSUME IInv, EndFrame
    PROVE  Sure /\ FrameEnds(world, world')
<1>1. server \in Servers /\ Good(world) /\ Sound(world)
  BY DEF IInv, Good
<1> DEFINE w == FoldSet(Delete_shot, world, world.dying)
<1>2. Sound(w) /\ SamePlayers(world, w) /\ SameLives(world, w)
  <2>1. world.dying \in SUBSET world.balls
    BY <1>1, SoundNamed
  <2> QED BY <1>1, <2>1, DeleteBalls DEF DeletedGives
<1>3. /\ UNCHANGED server /\ phase' = "idle" /\ todo' = todo
      /\ \/ world' \in Compute_game_status(w)
         \/ world' = w /\ world.over /\ ~(server.maxRoundTime > 0)
  BY DEF EndFrame
<1> HIDE DEF w
<1>4. Naps(w) /\ w.over = world.over /\ w.roundsPlayed = world.roundsPlayed
      /\ Present(w) = Present(world) /\ Saves(world, w)
  BY <1>1, <1>2 DEF Good, Fit, Naps, SamePlayers, SameLives, SameRound, Saves, Present
<1>5. CASE world' = w /\ world.over /\ ~(server.maxRoundTime > 0)
  <2>1. Falls(world, w)
    BY <1>2, FallsAs
  <2>2. Steps(world, world')
    BY <1>1, <1>2, <1>4, <1>5, <2>1, FallsSteps
  <2>3. FrameEnds(world, world')
    BY <1>4, <1>5 DEF FrameEnds, Waits
  <2> QED BY <1>3, <2>2, <2>3, PhaseKeeps DEF IInv
<1>6. CASE Safe(w, world')
  <2>1. Steps(world, world')
    BY <1>1, <1>4, <1>6, EndsSteps DEF Safe
  <2>2. Begun(world') => Out(world') = {}
    BY BegunIn
  <2>3. Ended(world') /\ world.roundsPlayed < server.roundsToPlay => world'.over /\ ~world.over
    <3>1. world.roundsPlayed \in Int /\ server.roundsToPlay \in Int
      BY <1>1, SoundNamed, Fields, Options
    <3> QED BY <1>1, <3>1 DEF Ended, Good, Final
  <2>4. FrameEnds(world, world')
    BY <1>4, <1>6, <2>2, <2>3 DEF Safe, Ends, FrameEnds, Waits
  <2> QED BY <1>3, <2>1, <2>4, PhaseKeeps DEF IInv
<1>7. ASSUME Sound(world'), Present(world') = Present(w), Ticks(w, world'), Ongoing(world')
      PROVE  Sure /\ FrameEnds(world, world')
  <2>1. /\ world'.state = world.state /\ world'.life = world.life
        /\ world'.destructing = world.destructing /\ world'.over = world.over
        /\ world'.roundsPlayed = world.roundsPlayed
        /\ world'.roundtime = IF world.roundtime > 0 THEN world.roundtime - 1 ELSE world.roundtime
    BY <1>2, <1>7 DEF Ticks, SamePlayers, SameLives, SameRound, Saves
  <2>2. world.roundtime \in Int
    BY <1>1, SoundNamed, Fields, Options
  <2>3. /\ Present(world') = Present(world) /\ Out(world') = Out(world)
        /\ Lost(world') = Lost(world)
    BY <2>1 DEF Present, Lost, Out, Paused, Are
  <2>4. Good(world')
    <3>1. Fit(world') /\ Final(world')
      BY <1>1, <2>1 DEF Good, Fit, Naps, Final
    <3>2. Timed(world')
      BY <1>1, <2>1, <2>2, <2>3 DEF Good, Timed
    <3>3. Saved(world')
      BY <1>1, <1>4, <1>7 DEF Good, Ticks, Saves
    <3> QED BY <1>7, <3>1, <3>2, <3>3 DEF Good
  <2>5. ASSUME NEW p \in Players, Waits(p, world), Waits(p, world')
        PROVE  world.roundtime >= 0 /\ world'.roundtime < world.roundtime
    <3>1. world.roundtime >= 0
      BY <1>1, <2>5 DEF Waits, Out, Are, Present, Good, Timed
    <3>2. world'.roundtime # 0
      BY <1>7, <2>5 DEF Ongoing
    <3> QED BY <2>1, <2>2, <3>1, <3>2
  <2>6. Steps(world, world')
    <3>1. world'.roundtime \in Int
      BY <2>1, <2>2
    <3> QED BY <2>2, <2>3, <2>4, <2>5, <3>1 DEF Steps, StaysOut, RunsDown
  <2>7. FrameEnds(world, world')
    BY <1>7, <2>5 DEF FrameEnds, Ongoing
  <2> QED BY <1>3, <2>6, <2>7, PhaseKeeps DEF IInv
<1> QED BY <1>1, <1>2, <1>3, <1>5, <1>6, <1>7, StatusSafe

LEMMA FrameInv ==
    ASSUME IInv, StartFrame \/ StartPlayers \/ StartCollision \/ StartBurials
    PROVE  Sure
<1>1. server \in Servers /\ Good(world) /\ Sound(world) /\ world \in Worlds
      /\ world.balls \subseteq Treasures
  BY SoundNamed DEF IInv, Good
<1>2. \A w : Present(w) \subseteq Players /\ Are({"alive"}, w) \subseteq Players
  BY DEF Present, Are
<1>3. CASE StartFrame
  <2>1. Steps(world, world')
    BY <1>3, StandStill DEF StartFrame
  <2>2. Good(world)'
    BY <1>3, <2>1, GoodNext DEF StartFrame, Steps
  <2> QED BY <1>1, <1>3, <2>1, <2>2 DEF StartFrame, IInv, Sure
<1>4. CASE StartPlayers
  BY <1>2, <1>4, StandStill, PhaseKeeps DEF StartPlayers
<1>5. CASE StartCollision
  <2>1. PICK B \in SUBSET (world.balls \ world.have), P \in SUBSET MayPass :
             world' = [FoldSet(BallPasses, world, P) EXCEPT !.dying = @ \cup B]
    BY <1>5 DEF StartCollision
  <2> DEFINE w == FoldSet(BallPasses, world, P)
             h == [w EXCEPT !.dying = @ \cup B]
  <2>2. P \in SUBSET world.balls /\ (P # {} => server.race)
    BY DEF MayPass
  <2>3. Kept(world, w)
    BY <1>1, <2>2, AllPassKept
  <2> HIDE DEF w
  <2>4. Sound(w) /\ w \in Worlds /\ B \subseteq w.balls /\ w.dying \subseteq w.balls
        /\ w.balls \subseteq Treasures /\ w.recreate \subseteq w.balls /\ w.fused \subseteq w.balls
    BY <2>3, SoundNamed DEF Kept, Same
  <2>5. Kept(world, h)
    <3> DEFINE d == w.dying \cup B
    <3>1. d \subseteq w.balls /\ d \in SUBSET Treasures
      BY <2>4
    <3>2. h = [w EXCEPT !.dying = d]
      OBVIOUS
    <3> HIDE DEF d, h
    <3>3. h \in Worlds /\ Marked(w, h)
      BY <2>4, <3>1, <3>2 DEF Worlds, Marked, SamePlayers, SameLives, SameRound, Saves, Saved
    <3>4. Kept(w, h)
      BY <2>4, <3>3, MarksKept
    <3> QED BY <2>3, <3>4, KeptAgain
  <2>6. world' = h
    BY <2>1 DEF w
  <2> HIDE DEF h
  <2>7. UNCHANGED server /\ phase' = "collide" /\ todo' \subseteq Players
    BY <1>2, <1>5 DEF StartCollision
  <2> QED BY <1>1, <2>5, <2>6, <2>7, KeptSteps, PhaseKeeps
<1>6. CASE StartBurials
  BY <1>2, <1>6, StandStill, PhaseKeeps DEF StartBurials
<1> QED BY <1>3, <1>4, <1>5, <1>6

LEMMA MoveInv ==
    ASSUME IInv, NEW t \in Treasures, MoveBall(t)
    PROVE  Sure
<1>1. server \in Servers /\ Good(world) /\ Sound(world) /\ t \in world.balls
      /\ world' \in Moved(t, world) /\ UNCHANGED <<server, phase>> /\ todo' = todo \ {t}
  BY DEF IInv, Good, MoveBall
<1>2. Kept(world, world')
  BY <1>1, MovedKept
<1> QED BY <1>1, <1>2, KeptSteps, LoopKeeps DEF Kept, Same

LEMMA UpdateInv ==
    ASSUME IInv, NEW p \in Players, UpdatePlayer(p)
    PROVE  Sure
<1>1. server \in Servers /\ Good(world) /\ Sound(world) /\ world' \in Updated(p, world)
      /\ UNCHANGED <<server, phase>> /\ todo' = todo \ {p} /\ phase = "players"
  BY DEF IInv, Good, UpdatePlayer
<1>2. Steps(world, world')
  BY <1>1, UpdatedKept, KeptSteps, LeaveSteps
<1> QED BY <1>1, <1>2, LoopKeeps

LEMMA CollideInv ==
    ASSUME IInv, NEW p \in Players, Collide(p)
    PROVE  Sure
<1>1. server \in Servers /\ Good(world) /\ Sound(world) /\ phase = "collide"
      /\ UNCHANGED <<server, phase>> /\ todo' = todo \ {p}
  BY CollideParts DEF IInv, Good
<1>2. Steps(world, world')
  BY <1>1, CollideKept, KeptSteps
<1> QED BY <1>1, <1>2, LoopKeeps

LEMMA BuryInv ==
    ASSUME IInv, NEW p \in Players, Bury(p)
    PROVE  Sure
<1> DEFINE w == IF world.state[p] = "killed" THEN Player_death_reset(p, world) ELSE world
<1>1. server \in Servers /\ Good(world) /\ Sound(world) /\ phase = "bury"
      /\ UNCHANGED <<server, phase>> /\ todo' = todo \ {p}
  BY DEF IInv, Good, Bury
<1>2. Kept(world, w)
  <2>1. CASE world.state[p] = "killed"
    <3>1. p \in Present(world)
      BY <2>1 DEF Present
    <3>2. ResetGives(p, world, w)
      BY <1>1, <2>1, <3>1, DeathReset
    <3> HIDE DEF w
    <3> QED BY <2>1, <3>1, <3>2, DiesFalls DEF ResetGives, Drops, Kept
  <2>2. CASE world.state[p] # "killed"
    BY <1>1, <2>2, SoundNamed
  <2> QED BY <2>1, <2>2
<1>3. \/ world' = w \/ world' = Delete_player(p, w)
      \/ w.state[p] = "alive" /\ world' = Pause_player(p, w)
  BY DEF Bury
<1> HIDE DEF w
<1>4. ASSUME world' = Delete_player(p, w) PROVE Steps(world, world')
  <2>1. LeaveGives(p, w, world')
    BY <1>1, <1>2, <1>4, DeletePlayer DEF Kept
  <2>2. Falls(world, world')
    BY <1>2, <2>1, FallsAgain DEF Kept, LeaveGives
  <2> QED BY <1>1, <1>2, <2>1, <2>2, FallsSteps DEF LeaveGives, Kept, Same
<1>5. w.state[p] = "alive" => Kept(world, Pause_player(p, w))
  <2>1. w.state[p] = "alive" => p \in Present(w)
    BY DEF Present
  <2> QED BY <1>1, <1>2, <2>1, Pauses, KeptAgain DEF Kept
<1>6. Steps(world, world')
  BY <1>1, <1>2, <1>3, <1>4, <1>5, KeptSteps
<1> QED BY <1>1, <1>6, LoopKeeps

LEMMA StepInv ==
    ASSUME IInv, [Next]_vars
    PROVE  Sure
<1>0. server \in Servers /\ Good(world) /\ Sound(world)
  BY DEF IInv, Good
<1>1. ASSUME NEW t \in Treasures, MoveBall(t) PROVE Sure
  BY <1>1, MoveInv
<1>2. ASSUME NEW p \in Players, UpdatePlayer(p) \/ Collide(p) \/ Bury(p) PROVE Sure
  BY <1>2, UpdateInv, CollideInv, BuryInv
<1>3. ASSUME NEW p \in Players, Enter(p) \/ Leave(p) \/ DropBall(p) \/ SelfDestruct(p)
      PROVE  Sure
  <2>1. CASE Leave(p)
    <3> DEFINE h == Delete_player(p, world)
    <3>1. Steps(world, h)
      BY <1>0, LeaveSteps
    <3>2. Between({h})
      BY <2>1 DEF Leave
    <3> HIDE DEF h
    <3> QED BY <3>1, <3>2, BetweenKeeps
  <2> QED BY <1>3, <2>1, EnterInv, DropBallInv, SelfDestructInv
<1>4. ASSUME NEW p \in Humans, Pause(p) \/ Unpause(p) PROVE Sure
  <2>1. p \in Players
    BY DEF Players
  <2>2. CASE Pause(p)
    <3> DEFINE h == Pause_player(p, world)
    <3>1. p \in Present(world) /\ Between({h})
      BY <2>2 DEF Pause
    <3>2. Steps(world, h)
      BY <1>0, <3>1, Pauses, KeptSteps
    <3> HIDE DEF h
    <3> QED BY <3>1, <3>2, BetweenKeeps
  <2> QED BY <1>4, <2>1, <2>2, UnpauseInv
<1>5. CASE UNCHANGED vars
  <2>1. Steps(world, world') /\ UNCHANGED <<server, phase>> /\ todo' \subseteq todo
        /\ world'.balls = world.balls
    BY <1>5, StandStill DEF vars
  <2> QED BY <2>1, LoopKeeps
<1> QED BY <1>1, <1>2, <1>3, <1>4, <1>5, FrameInv, EndFrameInv, CmdResetInv DEF Next, Frame

\* Only EndFrame ends a frame.
LEMMA EndsFrame ==
    ASSUME [Next]_vars, phase = "bury", phase' = "idle"
    PROVE  EndFrame
BY DEF Next, Frame, vars, StartFrame, StartPlayers, StartCollision, StartBurials, MoveBall,
       UpdatePlayer, Collide, Bury, Enter, Leave, DropBall, SelfDestruct, Pause, Unpause,
       Cmd_reset, Between

-----------------------------------------------------------------------------
(* Theorems.                                                               *)

THEOREM RoundsInductive == Spec => []IInv
<1>1. Init => IInv
  BY InitInv
<1>2. IInv /\ [Next]_vars => IInv'
  BY StepInv DEF Sure
<1> QED BY <1>1, <1>2, PTL DEF Spec

\* Nobody has fewer than no lives, sets of players name players who are there, and
\* marks are on balls that are there, however deaths, pauses, departures and the
\* ends of rounds follow each other (Player_death_reset, Delete_player,
\* Delete_shot, Reset_all_players).
THEOREM RoundsTyped == Spec => []TypeOK
<1>1. IInv => TypeOK
  <2> SUFFICES ASSUME IInv PROVE TypeOK
    OBVIOUS
  <2>1. world \in Worlds /\ Named(world)
    BY DEF IInv, Good, Sound, Whole
  <2> QED BY <2>1, Fields DEF IInv, TypeOK, Named
<1> QED BY <1>1, RoundsInductive, PTL

\* Who carries or owns a ball is in the game, which Player_by_id takes for granted
\* (treasure.c:184, collision.c:711), a ball at home belongs to nobody, and where
\* rounds end with the balls back, HAS_BALL is with those alive who carry one.
THEOREM BallsAlwaysSound == Spec => []BallsSound
<1>1. IInv => BallsSound
  <2> SUFFICES ASSUME IInv PROVE BallsSound
    OBVIOUS
  <2>1. server \in Servers /\ world \in Worlds /\ Named(world) /\ Owned(world) /\ Held(world)
    BY DEF IInv, Good, Sound, Whole
  <2>2. /\ world.have \subseteq world.balls /\ world.HAS_BALL \subseteq Players
        /\ world.carrier \in [Treasures -> Players \cup {NO_ID}] /\ world.balls \subseteq Treasures
        /\ NO_ID \notin Players
    BY <2>1, Fields, Options DEF Named
  <2>3. ASSUME server.teamPlay \/ server.endOfRoundReset
        PROVE  /\ \A t \in world.balls \ Free(world) :
                      world.carrier[t] \in Are({"alive", "killed"}, world)
               /\ world.HAS_BALL = {world.carrier[t] : t \in world.balls \ Free(world)}
    <3>1. /\ \A t \in world.balls : world.carrier[t] # NO_ID =>
                 /\ world.carrier[t] \in world.HAS_BALL
                 /\ world.state[world.carrier[t]] \in {"alive", "killed"}
          /\ \A p \in world.HAS_BALL : \E t \in world.balls : world.carrier[t] = p
      BY <2>1, <2>3 DEF Held, Resets
    <3>2. world.balls \ Free(world) = {t \in world.balls : world.carrier[t] # NO_ID}
      BY DEF Free
    <3> QED BY <2>2, <3>1, <3>2 DEF Are
  <2> QED BY <2>1, <2>2, <2>3 DEF BallsSound, Owned
<1> QED BY <1>1, RoundsInductive, PTL

\* A team has at least as many balls as treasures left: whatever is cashed, dies,
\* leaves or is deleted in a frame, in whatever order, a ball that does not come
\* back has been counted (Punish_team, Handle_Scoring, Delete_shot).
THEOREM LossesAlwaysCounted == Spec => []NoLossUncounted
<1>1. IInv => NoLossUncounted
  <2> SUFFICES ASSUME IInv, NEW x \in Teams
               PROVE  Cardinality(TreasuresOf(x) \cap Lasting) >= world.TreasuresLeft[x]
    BY DEF NoLossUncounted
  <2> DEFINE old == TreasuresOf(x) \cap world.recreate
             new == TreasuresOf(x) \cap Lasting
  <2>1. server \in Servers /\ Sound(world) /\ Cardinality(old) >= world.TreasuresLeft[x]
    BY DEF IInv, Good, Saved
  <2>2. old \subseteq new
    BY <2>1, SoundNamed DEF Lasting
  <2>3. IsFiniteSet(new) /\ Cardinality(new) \in Nat /\ Cardinality(old) \in Nat
    BY <2>1, TreasuresFinite
  <2>4. world.TreasuresLeft[x] \in Int
    BY <2>1, SoundNamed, Fields
  <2> HIDE DEF old, new
  <2>5. Cardinality(old) <= Cardinality(new)
    BY <2>2, <2>3, FS_Subset
  <2>6. Cardinality(new) >= world.TreasuresLeft[x]
    BY <2>1, <2>3, <2>4, <2>5
  <2> QED BY <2>6 DEF new
<1> QED BY <1>1, RoundsInductive, PTL

\* With limited lives whoever is out, pauses or has lost his last life comes back
\* only when a round begins, with everybody else: neither recovering (update.c:914),
\* nor pausing, nor treasureKillTeam, nor the order of deaths and departures in a
\* frame lets him in.
THEOREM OutAlwaysStaysOut == Spec => OutStaysOut
<1>1. IInv /\ [Next]_vars =>
         [server.limitedLives /\ ~world.over /\ ~(Lost(world) \cap Present(world') \subseteq Lost(world'))
             => Begun(world')]_vars
  BY StepInv DEF Sure, Steps, StaysOut
<1> QED BY <1>1, RoundsInductive, PTL DEF OutStaysOut, Spec

\* A frame leaves nobody out with nobody in the game: each of the three ways to find
\* the end of a round (Team_game_over, Individual_game_over, Race_game_over) sees
\* it, whoever has left, paused or died in the frame.
THEOREM NobodyEverLeftOut == Spec => NobodyLeftOut
<1>1. IInv /\ [Next]_vars =>
         [/\ phase = "bury" /\ phase' = "idle"
          /\ server.limitedLives /\ ~world'.over /\ Out(world') # {}
          => Present(world') \ (Paused(world') \cup Out(world')) # {}]_vars
  <2> SUFFICES ASSUME IInv, [Next]_vars, phase = "bury", phase' = "idle",
                      server.limitedLives, ~world'.over, Out(world') # {}
               PROVE  Present(world') \ (Paused(world') \cup Out(world')) # {}
    OBVIOUS
  <2>1. FrameEnds(world, world')
    BY EndsFrame, EndFrameInv
  <2> QED BY <2>1 DEF FrameEnds
<1> QED BY <1>1, RoundsInductive, PTL DEF NobodyLeftOut, Spec

\* Whoever waits for the next round waits maxRoundTime at most: the time that is
\* left never grows while he does, gets less in every frame, and is not over while
\* he still waits (Compute_game_status, player.c:1077).
THEOREM TimeAlwaysRunsDown == Spec => TimeRunsDown
<1>1. IInv /\ [Next]_vars =>
         [\A p \in Players : Waits(p, world) /\ Waits(p, world') /\ (world'.over => world.over) =>
             /\ world.roundtime >= 0 /\ world'.roundtime <= world.roundtime
             /\ phase = "bury" /\ phase' = "idle" => world'.roundtime < world.roundtime]_vars
  <2> SUFFICES ASSUME IInv, [Next]_vars, NEW p \in Players, Waits(p, world), Waits(p, world'),
                      world'.over => world.over
               PROVE  /\ world.roundtime >= 0 /\ world'.roundtime <= world.roundtime
                      /\ phase = "bury" /\ phase' = "idle" => world'.roundtime < world.roundtime
    OBVIOUS
  <2>1. world.roundtime >= 0 /\ world'.roundtime <= world.roundtime
    BY StepInv DEF Sure, Steps, RunsDown
  <2>2. phase = "bury" /\ phase' = "idle" => world'.roundtime < world.roundtime
    BY EndsFrame, EndFrameInv DEF FrameEnds
  <2> QED BY <2>1, <2>2
<1> QED BY <1>1, RoundsInductive, PTL DEF TimeRunsDown, Spec
=============================================================================

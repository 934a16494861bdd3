----------------------------- MODULE PlayerTable -----------------------------
(***************************************************************************)
(* The table of the players, robots and tanks (server/player.c).           *)
(*                                                                         *)
(* PlayersArray[] holds all player structures, those of the NumPlayers     *)
(* players first; GetIndArray[] gives the place of an identifier.          *)
(* Delete_player() moves the last player to the place of the one who       *)
(* leaves, and the leaving structure behind the others.  Tanks are players *)
(* too: they follow the player who dropped them, so that one deletion may  *)
(* take several players away, at any place in the table.                   *)
(*                                                                         *)
(* In a frame the server walks over the table twice and deletes some of    *)
(* those it meets: Update_players() goes up and throws out flooders, the   *)
(* end of Update_objects() goes down and buries tanks and throws out who   *)
(* has been paused for too long.  `visit' is the loop variable of both.    *)
(* The identifiers come from the pool of IdPool.                           *)
(***************************************************************************)
EXTENDS Integers, FiniteSets, Sequences, Functions

CONSTANTS Ids,               \* 1 .. NUM_IDS
          NoId,              \* NO_ID
          NumStructs,        \* playerArrayNumber
          MaxTanks,          \* MAX_PSEUDO_PLAYERS
          Options            \* the options a server may be started with

NumIds == Cardinality(Ids)

ASSUME TableAssumption ==
    /\ IsFiniteSet(Ids) /\ Ids # {} /\ NoId \notin Ids
    /\ NumStructs \in Nat /\ NumIds < NumStructs
    /\ MaxTanks \in Nat
    /\ Options \subseteq [keepShots : BOOLEAN,
                           autoKick  : BOOLEAN]    \* maxPauseTime > 0

Places == 0 .. NumStructs - 1
NoInd == -1

\* A player_t: the owner of a tank is its lock.pl_id.
PlayerRecords == [id     : Ids \cup {NoId},
                  kind   : {"human", "robot", "tank"},
                  owner  : Ids \cup {NoId},
                  status : {"alive", "paused", "killed"}]
Unused == [id |-> NoId, kind |-> "human", owner |-> NoId, status |-> "alive"]

VARIABLES options,           \* what the server was started with
          array,             \* PlayersArray[]: what its structures hold
          num,               \* NumPlayers
          index,             \* GetIndArray[]
          robots, tanks,     \* NumRobots, NumPseudoPlayers
          free,              \* the pool of identifiers
          broken,            \* a player was deleted who had been deleted before
          walk,              \* "up", "down", or "none" between two frames
          visit,             \* the place the walk comes to next, or NoInd
          visited            \* history: the identifiers it has met

walkVars == <<walk, visit, visited>>
vars == <<options, array, num, index, robots, tanks, free, broken, walkVars>>

\* The table as a record, for the operators that change it.
Table == [array |-> array, num |-> num, index |-> index, robots |-> robots,
          tanks |-> tanks, free |-> free, broken |-> broken]

Becomes(t) ==
    /\ array' = t.array /\ num' = t.num /\ index' = t.index
    /\ robots' = t.robots /\ tanks' = t.tanks /\ free' = t.free
    /\ broken' = t.broken

Init ==
    /\ options \in Options
    /\ array = [i \in Places |-> Unused]
    /\ num = 0
    /\ index = [id \in Ids |-> NoInd]
    /\ robots = 0 /\ tanks = 0
    /\ free \in {f \in [1 .. NumIds -> Ids] : IsInjective(f)}
    /\ broken = FALSE
    /\ walk = "none" /\ visit = NoInd /\ visited = {}

\* Mutant: a counter never goes down.
UncountNever(n, b) == n

\* A counter of players of one kind when one of them leaves, or another.
Uncount(n, b) == IF b THEN n - 1 ELSE n

-----------------------------------------------------------------------------

\* Init_player() takes the structure behind the others and the identifier that
\* request_ID() then takes from the pool; the caller counts the new player.
Add(kind, owner) ==
    /\ free # <<>>
    /\ array' = [array EXCEPT ![num] = [id |-> Head(free), kind |-> kind, owner |-> owner,
                                        status |-> "alive"]]
    /\ num' = num + 1
    /\ index' = [index EXCEPT ![Head(free)] = num]
    /\ robots' = IF kind = "robot" THEN robots + 1 ELSE robots
    /\ tanks' = IF kind = "tank" THEN tanks + 1 ELSE tanks
    /\ free' = Tail(free)
    /\ UNCHANGED <<broken, walkVars>>

\* Mutant: the place of the player who moves is not updated.
TakeOutOnly(t, s) ==
    LET i    == t.index[s.id]
        last == t.num - 1
    IN  [t EXCEPT !.num = last, !.array = [@ EXCEPT ![last] = s, ![i] = t.array[last]],
                  !.robots = Uncount(@, s.kind = "robot"),
                  !.tanks = Uncount(@, s.kind = "tank")]

\* The first half of Delete_player(): the last player gets the place of s.
TakeOut(t, s) ==
    LET i    == t.index[s.id]
        last == t.num - 1
    IN  [t EXCEPT !.num = last, !.array = [@ EXCEPT ![last] = s, ![i] = t.array[last]],
                  !.index = [@ EXCEPT ![t.array[last].id] = i, ![s.id] = last],
                  !.robots = Uncount(@, s.kind = "robot"),
                  !.tanks = Uncount(@, s.kind = "tank")]

\* The end of it: release_ID().
Release(t, id) == [t EXCEPT !.index[id] = NoInd, !.free = Append(@, id)]

\* Mutant: the tanks stay.
DeleteTankNever(id, t, i) == t

\* One of the tanks that the leaving player id has dropped, at place i.
DeleteTank(id, t, i) ==
    LET s == t.array[i]
    IN  IF s.kind # "tank" \/ s.owner # id THEN t
        ELSE IF options.keepShots THEN [t EXCEPT !.array[i].owner = NoId]
        ELSE Release(TakeOut(t, s), s.id)

\* In between it looks for them, from the last place to the first.
DeleteTanks(id, t) ==
    LET after[k \in 0 .. t.num] ==
            IF k = 0 THEN t ELSE DeleteTank(id, after[k - 1], t.num - k)
    IN  after[t.num]

Delete(t, s) ==
    IF t.index[s.id] = NoInd THEN [t EXCEPT !.broken = TRUE]
    ELSE Release(DeleteTanks(s.id, TakeOut(t, s)), s.id)

\* What is left in the structures behind the others is of no use after the walk:
\* Init_player() sets all of it.
Forget(t) == [t EXCEPT !.array = [i \in Places |-> IF i < t.num THEN t.array[i] ELSE Unused]]

-----------------------------------------------------------------------------
(* Between two frames.                                                     *)

Idle == walk = "none" /\ ~broken
Present == {array[i] : i \in 0 .. num - 1}

\* Handle_login(), Robot_create()
Enter(kind) == Idle /\ Add(kind, NoId)

\* Mutant: any number of tanks.
DetachAny(s) == Idle /\ s.kind # "tank" /\ s.status = "alive" /\ Add("tank", s.id)

\* Tank_handle_detach()
Detach(s) ==
    /\ Idle /\ s.kind # "tank" /\ s.status = "alive"
    /\ tanks < MaxTanks
    /\ Add("tank", s.id)

\* A client quits, a robot is not needed any more.
Leave(s) ==
    /\ Idle /\ s.kind # "tank"
    /\ Becomes(Forget(Delete(Table, s)))
    /\ UNCHANGED walkVars

TogglePause(s) ==
    /\ Idle /\ s.kind = "human"
    /\ array' = [array EXCEPT ![index[s.id]].status = IF @ = "paused" THEN "alive" ELSE "paused"]
    /\ UNCHANGED <<num, index, robots, tanks, free, broken, walkVars>>

-----------------------------------------------------------------------------
(* A frame.                                                                *)

\* Main_loop() updates the game while there is a human in it.
StartFrame ==
    /\ Idle /\ num > robots + tanks
    /\ walk' = "up" /\ visit' = 0 /\ visited' = {}
    /\ UNCHANGED <<array, num, index, robots, tanks, free, broken>>

\* One turn of the loop of Update_players().  The place of a flooder who is
\* thrown out is looked at again.
Update_player(flooding) ==
    LET s == array[visit] IN
    /\ walk = "up" /\ visit < num /\ ~broken
    /\ flooding => s.kind = "human"
    /\ IF flooding
       THEN Becomes(Delete(Table, s)) /\ UNCHANGED walkVars
       ELSE /\ visit' = visit + 1 /\ visited' = visited \cup {s.id}
            /\ UNCHANGED <<array, num, index, robots, tanks, free, broken, walk>>

\* The walk begins with the last player.
FirstPlace == num - 1

\* Check_collision() and the like kill some of the players; then the second
\* walk begins, if there is anybody left.
StartWalk ==
    /\ walk = "up" /\ visit >= num /\ ~broken
    /\ \E dead \in SUBSET {i \in 0 .. num - 1 : array[i].status # "paused"} :
          LET table == [Table EXCEPT !.array = [i \in Places |->
                            IF i \in dead THEN [array[i] EXCEPT !.status = "killed"]
                                          ELSE array[i]]]
          IN  Becomes(IF num = 0 THEN Forget(table) ELSE table)
    /\ walk' = IF num = 0 THEN "none" ELSE "down"
    /\ visit' = FirstPlace
    /\ visited' = {}

\* Mutant: the place whose player is deleted is looked at again.
NextAgain(i, n) == IF n < num /\ i < n THEN i ELSE i - 1

\* for (i = NumPlayers - 1; i >= 0; i--), whatever number n of players is left.
NextPlace(i, n) == i - 1

\* A killed tank goes, other killed players start again.
Bury(t, i) ==
    LET s == t.array[i]
    IN  IF s.status # "killed" THEN t
        ELSE IF s.kind = "tank" THEN Delete(t, s)
        ELSE [t EXCEPT !.array[i].status = "alive"]

\* One turn of the loop: whoever is killed, and whoever has been paused for too
\* long (if that can be).
Visit(kick) ==
    LET s     == array[visit]
        table == IF kick THEN Delete(Table, s) ELSE Bury(Table, visit)
        next  == NextPlace(visit, table.num)
    IN  /\ walk = "down" /\ ~broken
        /\ kick => options.autoKick /\ s.kind = "human" /\ s.status = "paused"
        /\ Becomes(IF next = NoInd THEN Forget(table) ELSE table)
        /\ walk' = IF next = NoInd THEN "none" ELSE "down"
        /\ visit' = next
        /\ visited' = IF next = NoInd THEN {} ELSE visited \cup {s.id}

Next ==
    /\ UNCHANGED options
    /\ \/ \E kind \in {"human", "robot"} : Enter(kind)
       \/ \E s \in Present : Detach(s)
       \/ \E s \in Present : Leave(s)
       \/ \E s \in Present : TogglePause(s)
       \/ StartFrame \/ StartWalk
       \/ \E flooding \in BOOLEAN : Update_player(flooding)
       \/ \E kick \in BOOLEAN : Visit(kick)

Spec == Init /\ [][Next]_vars

-----------------------------------------------------------------------------

\* Every place holds a structure, and the counters stay in their range.
TypeOK ==
    /\ options \in Options
    /\ array \in [Places -> PlayerRecords]
    /\ num \in 0 .. NumIds
    /\ index \in [Ids -> Places \cup {NoInd}]
    /\ robots \in 0 .. NumIds /\ tanks \in 0 .. MaxTanks
    /\ free \in Seq(Ids)
    /\ broken \in BOOLEAN
    /\ walk \in {"none", "up", "down"}
    /\ visit \in Places \cup {NoInd} /\ visited \subseteq Ids

PresentIds == {s.id : s \in Present}

\* The table and the index are inverse to each other, and an identifier is
\* either a player's or, once, in the pool.
TableSound ==
    /\ \A i \in 0 .. num - 1 : array[i].id # NoId /\ index[array[i].id] = i
    /\ \A id \in Ids \ PresentIds : index[id] = NoInd
    /\ {free[k] : k \in 1 .. Len(free)} = Ids \ PresentIds
    /\ Len(free) = NumIds - num

\* NumRobots and NumPseudoPlayers, from which the server decides whether there is
\* room in the game and whether there is a game at all.
CountersRight ==
    /\ robots = Cardinality({s \in Present : s.kind = "robot"})
    /\ tanks = Cardinality({s \in Present : s.kind = "tank"})

\* The owner of a tank is in the game, and never a newcomer or another tank with
\* the identifier of one who left.
OwnersPresent ==
    \A s \in Present : s.kind = "tank" /\ s.owner # NoId =>
        s.owner \in PresentIds /\ array[index[s.owner]].kind # "tank"

\* Both walks meet everybody once who is left, though players are moved about:
\* those who were met are those behind the place the second walk comes to, which
\* is a player's (update.c:1263), if players who are thrown out keep their tanks
\* or are not thrown out; and those before the place the first comes to
\* (update.c:876).  That one meets nobody twice, but when tanks go along misses
\* in this frame a player who is moved to the place of one of them.
WalkMeetsAll ==
    /\ walk = "down" /\ (options.autoKick => options.keepShots) =>
         /\ visit < num
         /\ \A i \in 0 .. num - 1 : array[i].id \in visited <=> i > visit
    /\ walk = "up" =>
         /\ \A i \in visit .. num - 1 : array[i].id \notin visited
         /\ options.keepShots => \A i \in 0 .. visit - 1 : array[i].id \in visited

\* Delete_player() leaves PlayersArray[] so as "to have Player_by_index(ind) point
\* to a valid player": so does every place the second walk comes to.
WalkMeetsPlayers == walk = "down" => visit < num
=============================================================================

------------------------------ MODULE Alliance ------------------------------
(***************************************************************************)
(* Alliances (src/server/alliance.c) and what the rest of the server does  *)
(* to them: /ally of command.c, the answers of robots, tanks that join     *)
(* their owner's alliance, players who leave, the option allowAlliances.   *)
(*                                                                         *)
(* An invitation is kept by the one who invites, as the identifier of the  *)
(* one invited.  The order of PlayersArray is left open: loops over it     *)
(* whose order shows are done in any order.                                *)
(***************************************************************************)
EXTENDS Integers, FiniteSets

CONSTANTS
    Ids,            \* identifiers of players
    NO_ID,          \* no identifier
    AllianceIds,    \* 0 .. MAX_TEAMS - 1
    NOT_SET,        \* ALLIANCE_NOT_SET
    Games           \* what a server may be started with: records of tagGame,
                    \* allowAlliances and whether it has an operator

ASSUME AllianceAssumption ==
    /\ IsFiniteSet(Ids) /\ NO_ID \notin Ids /\ NOT_SET \notin AllianceIds
    /\ Games \subseteq [tagGame : BOOLEAN, allowAlliances : BOOLEAN, operator : BOOLEAN]

VARIABLES
    game,           \* one of Games
    kind,           \* pl_type of the player with this identifier, or "none"
    owner,          \* lock.pl_id of a tank
    alliance,       \* pl->alliance
    invite,         \* pl->invite
    live,           \* identifiers of the alliances in Alliances[]
    NumMembers,     \* Alliances[i]->NumMembers, by identifier
    allowed,        \* options.allowAlliances
    mode,           \* the bit ALLIANCES of world->rules->mode
    accepting,      \* who is in the loop of Accept_all_alliances, or NO_ID
    crashed         \* a null pointer has been followed

players == <<kind, owner>>
alliances == <<alliance, invite, live, NumMembers>>
rules == <<game, allowed, mode>>
allianceVars == <<players, alliances, rules, accepting, crashed>>

Present == {p \in Ids : kind[p] # "none"}
Humans == {p \in Ids : kind[p] = "human"}
Members(a) == {p \in Ids : alliance[p] = a}
Players_are_allies(p, q) == alliance[p] # NOT_SET /\ alliance[p] = alliance[q]

\* The handlers run one after the other, and not inside the loop.
Idle == ~crashed /\ accepting = NO_ID
Crash == crashed' = TRUE /\ UNCHANGED <<players, alliances, rules, accepting>>

AllianceInit ==
    /\ kind = [p \in Ids |-> "none"] /\ owner = [p \in Ids |-> NO_ID]
    /\ alliance = [p \in Ids |-> NOT_SET] /\ invite = [p \in Ids |-> NO_ID]
    /\ live = {} /\ NumMembers = [a \in AllianceIds |-> 0]
    /\ game \in Games /\ allowed = game.allowAlliances /\ mode = game.allowAlliances
    /\ accepting = NO_ID /\ crashed = FALSE

-----------------------------------------------------------------------------
(* Building blocks.  inv is what invitations are when the block begins.    *)

\* inv without the invitations for those in S.
Cancelled(inv, S) == [p \in Ids |-> IF inv[p] \in S THEN NO_ID ELSE inv[p]]

\* Everybody in S becomes a member of a.
Alliance_add_players(S, a, inv) ==
    /\ alliance' = [p \in Ids |-> IF p \in S THEN a ELSE alliance[p]]
    /\ invite' = Cancelled(inv, S)

Create_alliance(p, q, inv) ==
    IF AllianceIds \ live = {}
    THEN invite' = inv /\ UNCHANGED <<alliance, live, NumMembers>>
    ELSE \E a \in AllianceIds \ live :
            /\ Alliance_add_players({p, q}, a, inv)
            /\ live' = live \cup {a}
            /\ NumMembers' = [NumMembers EXCEPT ![a] = 2]

Player_join_alliance(p, a, inv) ==
    /\ Alliance_add_players({p}, a, inv)
    /\ NumMembers' = [NumMembers EXCEPT ![a] = @ + 1]
    /\ UNCHANGED live

\* Mutant: the counter does not follow.
Merge_alliances_Uncounted(a, b, inv) ==
    /\ Alliance_add_players(Members(b), a, inv)
    /\ live' = live \ {b}
    /\ NumMembers' = [NumMembers EXCEPT ![b] = 0]
\* The members of alliance b move to alliance a, and b is dissolved.
Merge_alliances(a, b, inv) ==
    /\ Alliance_add_players(Members(b), a, inv)
    /\ live' = live \ {b}
    /\ NumMembers' = [NumMembers EXCEPT ![a] = @ + Cardinality(Members(b)), ![b] = 0]

\* p accepts the invitation of q, who has invited him.  Merge_alliances of an
\* alliance with itself takes q out and then looks for the alliance of q.
Accept_alliance(p, q, inv) ==
    LET rest == [inv EXCEPT ![q] = NO_ID] IN
    IF alliance[p] # NOT_SET /\ alliance[p] = alliance[q]
    THEN crashed' = TRUE /\ UNCHANGED alliances
    ELSE /\ UNCHANGED crashed
         /\ \/ alliance[p] = NOT_SET /\ alliance[q] = NOT_SET /\ Create_alliance(p, q, rest)
            \/ alliance[p] = NOT_SET /\ alliance[q] # NOT_SET
               /\ Player_join_alliance(p, alliance[q], rest)
            \/ alliance[p] # NOT_SET /\ alliance[q] = NOT_SET
               /\ Player_join_alliance(q, alliance[p], rest)
            \/ alliance[p] # NOT_SET /\ alliance[q] # NOT_SET
               /\ Merge_alliances(alliance[q], alliance[p], rest)

\* Those in S leave; alliances they leave with one member or none dissolve.
Left(S, a) == NumMembers[a] - Cardinality(Members(a) \cap S)
Dissolving(S) == {a \in live : Members(a) \cap S # {} /\ Left(S, a) <= 1}
Leave_alliances(S) ==
    /\ alliance' = [p \in Ids |-> IF p \in S \/ alliance[p] \in Dissolving(S)
                                  THEN NOT_SET ELSE alliance[p]]
    /\ live' = live \ Dissolving(S)
    /\ NumMembers' = [a \in AllianceIds |->
            IF a \in Dissolving(S) THEN 0 ELSE Left(S, a)]

\* A robot answers the invitation of p: it refuses when a human is among its
\* allies, and otherwise as war, activity and scores have it.
Robot_invite(r, p, inv) ==
    \/ /\ ~\E h \in Humans : Players_are_allies(r, h)
       /\ Accept_alliance(r, p, inv)
    \/ /\ invite' = [inv EXCEPT ![p] = NO_ID]
       /\ UNCHANGED <<alliance, live, NumMembers, crashed>>

-----------------------------------------------------------------------------
(* The commands.  Only humans give them, while alliances are allowed.      *)

Cmd_ally(p) == Idle /\ mode /\ p \in Humans

\* Mutant: an invitation that meets another does not accept it.
Invite_player_Crossing(p, q) ==
    /\ Cmd_ally(p) /\ q \in Present \ {p} /\ kind[q] = "human"
    /\ ~Players_are_allies(p, q) /\ invite[p] # q
    /\ invite' = [invite EXCEPT ![p] = q]
    /\ UNCHANGED <<players, alliance, live, NumMembers, rules, accepting, crashed>>
Invite_player(p, q) ==
    /\ Cmd_ally(p) /\ q \in Present \ {p} /\ kind[q] # "tank"
    /\ ~Players_are_allies(p, q) /\ invite[p] # q
    /\ LET inv == [invite EXCEPT ![p] = q] IN
       \/ invite[q] = p /\ Accept_alliance(p, q, invite)
       \/ invite[q] # p /\ invite[p] \notin Present \cup {NO_ID}
          /\ crashed' = TRUE /\ UNCHANGED alliances
       \/ invite[q] # p /\ invite[p] \in Present \cup {NO_ID} /\ kind[q] = "robot"
          /\ Robot_invite(q, p, inv)
       \/ invite[q] # p /\ invite[p] \in Present \cup {NO_ID} /\ kind[q] = "human"
          /\ invite' = inv /\ UNCHANGED <<alliance, live, NumMembers, crashed>>
    /\ UNCHANGED <<players, rules, accepting>>

\* The name of who was invited is looked up to tell him.
Cancel_invitation(p) ==
    /\ Cmd_ally(p) /\ invite[p] # NO_ID
    /\ IF invite[p] \in Present
       THEN /\ invite' = [invite EXCEPT ![p] = NO_ID]
            /\ UNCHANGED <<players, alliance, live, NumMembers, rules, accepting, crashed>>
       ELSE Crash

Refuse_alliance(p, q) ==
    /\ Cmd_ally(p) /\ q \in Present /\ invite[q] = p
    /\ invite' = [invite EXCEPT ![q] = NO_ID]
    /\ UNCHANGED <<players, alliance, live, NumMembers, rules, accepting, crashed>>

Refuse_all_alliances(p) ==
    /\ Cmd_ally(p)
    /\ invite' = Cancelled(invite, {p})
    /\ UNCHANGED <<players, alliance, live, NumMembers, rules, accepting, crashed>>

\* Mutant: no invitation is asked for.
Accept_Uninvited(p, q) ==
    /\ Cmd_ally(p) /\ q \in Present \ {p}
    /\ Accept_alliance(p, q, invite)
    /\ UNCHANGED <<players, rules, accepting>>
Accept(p, q) ==
    /\ Cmd_ally(p) /\ q \in Present /\ invite[q] = p
    /\ Accept_alliance(p, q, invite)
    /\ UNCHANGED <<players, rules, accepting>>

\* /ally accept: the loop over the table, whose order is any.
Accept_all_alliances(p) ==
    /\ Cmd_ally(p)
    /\ accepting' = p
    /\ UNCHANGED <<players, alliances, rules, crashed>>
AcceptNext(q) ==
    /\ ~crashed /\ accepting # NO_ID /\ q \in Present /\ invite[q] = accepting
    /\ Accept_alliance(accepting, q, invite)
    /\ UNCHANGED <<players, rules, accepting>>
AcceptedAll ==
    /\ ~crashed /\ accepting # NO_ID /\ \A q \in Present : invite[q] # accepting
    /\ accepting' = NO_ID
    /\ UNCHANGED <<players, alliances, rules, crashed>>

Leave_alliance(p) ==
    /\ Cmd_ally(p) /\ alliance[p] # NOT_SET
    /\ Leave_alliances({p})
    /\ UNCHANGED <<players, invite, rules, accepting, crashed>>

-----------------------------------------------------------------------------
(* What others do.                                                         *)

\* Somebody logs in, or a robot is created, with an identifier that is free.
Init_player(p, k) ==
    /\ Idle /\ kind[p] = "none" /\ k \in {"human", "robot"}
    /\ kind' = [kind EXCEPT ![p] = k]
    /\ alliance' = [alliance EXCEPT ![p] = NOT_SET]
    /\ invite' = [invite EXCEPT ![p] = NO_ID]
    /\ UNCHANGED <<owner, live, NumMembers, rules, accepting, crashed>>

\* p drops a tank, which joins his alliance.
Tank_handle_detach(p, t) ==
    LET inv == [invite EXCEPT ![t] = NO_ID] IN
    /\ Idle /\ kind[p] \in {"human", "robot"} /\ kind[t] = "none"
    /\ kind' = [kind EXCEPT ![t] = "tank"] /\ owner' = [owner EXCEPT ![t] = p]
    /\ IF alliance[p] # NOT_SET THEN Player_join_alliance(t, alliance[p], inv)
       ELSE invite' = inv /\ UNCHANGED <<alliance, live, NumMembers>>
    /\ UNCHANGED <<rules, accepting, crashed>>

\* p leaves the game.  His tanks go with him or, with keepShots, lose their
\* owner.  Invitations for him are left standing.
Delete_player(p) ==
    /\ Idle /\ p \in Present
    /\ \E keepShots \in BOOLEAN :
          LET tanks == {t \in Ids \ {p} : kind[t] = "tank" /\ owner[t] = p}
              gone == IF keepShots THEN {p} ELSE {p} \cup tanks
          IN  /\ kind' = [q \in Ids |-> IF q \in gone THEN "none" ELSE kind[q]]
              /\ owner' = [q \in Ids |-> IF q \in tanks \cup {p} THEN NO_ID ELSE owner[q]]
              /\ Leave_alliances(gone)
              /\ invite' = [q \in Ids |-> IF q \in gone THEN NO_ID ELSE invite[q]]
    /\ UNCHANGED <<rules, accepting, crashed>>

\* The operator sets the option.  The bit of the rules follows when another
\* rule is tuned; only then does setting the option again dissolve anything.
tuner_allowalliances(v) ==
    /\ Idle /\ game.operator /\ allowed' = v
    /\ IF mode THEN UNCHANGED alliances
       ELSE /\ alliance' = [p \in Ids |-> NOT_SET]
            /\ live' = {} /\ NumMembers' = [a \in AllianceIds |-> 0]
            /\ UNCHANGED invite
    /\ UNCHANGED <<game, players, mode, accepting, crashed>>
Set_world_rules ==
    /\ Idle /\ game.operator /\ mode' = allowed
    /\ UNCHANGED <<game, players, alliances, allowed, accepting, crashed>>

Commands(p) ==
    \/ \E q \in Ids : Invite_player(p, q) \/ Refuse_alliance(p, q) \/ Accept(p, q)
    \/ Cancel_invitation(p) \/ Refuse_all_alliances(p)
    \/ Accept_all_alliances(p) \/ Leave_alliance(p)

AllianceNext ==
    \/ \E p \in Ids : Commands(p) \/ AcceptNext(p) \/ Delete_player(p)
    \/ \E p \in Ids, k \in {"human", "robot"} : Init_player(p, k)
    \/ \E p, t \in Ids : Tank_handle_detach(p, t)
    \/ \E v \in BOOLEAN : tuner_allowalliances(v)
    \/ AcceptedAll \/ Set_world_rules

AllianceSpec == AllianceInit /\ [][AllianceNext]_allianceVars

-----------------------------------------------------------------------------
(* Properties.                                                             *)

AllianceTypeOK ==
    /\ kind \in [Ids -> {"none", "human", "robot", "tank"}]
    /\ owner \in [Ids -> Ids \cup {NO_ID}]
    /\ alliance \in [Ids -> AllianceIds \cup {NOT_SET}]
    /\ invite \in [Ids -> Ids \cup {NO_ID}]
    /\ game \in Games /\ live \subseteq AllianceIds /\ NumMembers \in [AllianceIds -> Nat]
    /\ allowed \in BOOLEAN /\ mode \in BOOLEAN
    /\ accepting \in Ids \cup {NO_ID} /\ crashed \in BOOLEAN

\* The counter of each alliance is the number of players who are in it, which
\* is two at least; nobody is in an alliance that is not in Alliances[], or in
\* one after he left.  Joining, leaving, merging, dissolving, tanks and
\* deletions all move the counter (alliance.c:350, 391).
CountsRight ==
    /\ \A a \in AllianceIds : NumMembers[a] = Cardinality(Members(a))
    /\ \A a \in live : NumMembers[a] >= 2
    /\ \A p \in Ids : alliance[p] # NOT_SET => alliance[p] \in live /\ p \in Present

\* Two players never wait for each other's answer: an invitation that meets
\* one in the other direction accepts it (alliance.c:72), also when one of the
\* two has an identifier that somebody else was invited under.
NoCrossedInvitations ==
    \A p, q \in Present : ~(invite[p] = q /\ invite[q] = p)

\* Players become allies only by agreement: one of the circle of the first had
\* invited one of the circle of the second, or the other way round, or there is
\* a robot in one of the circles, which accepts at once, or one of the two is a
\* tank that has just been dropped.
AgreedBy(p, q) ==
    \E x \in {p} \cup {r \in Ids : Players_are_allies(r, p)},
       y \in {q} \cup {r \in Ids : Players_are_allies(r, q)} :
        invite[x] = y \/ invite[y] = x \/ "robot" \in {kind[x], kind[y]}
AlliesByAgreement ==
    [][\A p, q \in Present :
          p # q /\ Players_are_allies(p, q)' /\ ~Players_are_allies(p, q)
          => AgreedBy(p, q)]_allianceVars

\* The server survives every command.  It does not: whoever cancels his
\* invitation of somebody who has left makes it follow a null pointer, and so
\* does whoever accepts the invitation of one who has become his ally since.
StaysUp == ~crashed
=============================================================================

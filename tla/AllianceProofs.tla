---------------------------- MODULE AllianceProofs ----------------------------
(***************************************************************************)
(* Proofs about alliances, for every number of players and of alliances,   *)
(* and about the game of tag.                                              *)
(*                                                                         *)
(* Each building block (join, create, merge, leave) keeps the counters     *)
(* right when its arguments are what its callers give it: players who are  *)
(* there and in no alliance, two different alliances, and so on.  That     *)
(* they are is Sane: nobody has invited himself, and the loop of           *)
(* Accept_all_alliances runs for somebody who is there.                    *)
(*                                                                         *)
(* What is proved of alliances holds while tag is played; the tag never    *)
(* outlives its holder, and the search for the next one finds somebody     *)
(* wherever it begins.                                                     *)
(***************************************************************************)
EXTENDS Tag, FiniteSetTheorems, WellFoundedInduction, TLAPS

Sane ==
    /\ \A p \in Ids : invite[p] # p
    /\ accepting \in Present \cup {NO_ID}

Inv == AllianceTypeOK /\ CountsRight /\ NoCrossedInvitations /\ Sane

\* What the blocks say of the three variables that count members.
Counted == UNCHANGED <<alliance, live, NumMembers>>

\* Whoever was there is there, and invitations were taken back at most.
Stay == \A p \in Present : kind'[p] # "none"
Shrinks(inv) == invite' \in [Ids -> Ids \cup {NO_ID}]
                /\ \A p \in Ids : invite'[p] \in {inv[p], NO_ID}

-----------------------------------------------------------------------------
(* Members.                                                                *)

\* The members of an alliance are finitely many.
LEMMA MembersFinite ==
    ASSUME NEW a PROVE IsFiniteSet(Members(a)) /\ Cardinality(Members(a)) \in Nat
<1>1. Members(a) \in SUBSET Ids
  BY DEF Members
<1> QED BY <1>1, FS_Subset, FS_CardinalityType, AllianceAssumption

\* Nobody is a member of an alliance that is not in Alliances[].
LEMMA NoMembers ==
    ASSUME Inv, NEW a \in AllianceIds \ live
    PROVE  Members(a) = {} /\ NumMembers[a] = 0
<1>1. Members(a) = {}
  BY AllianceAssumption DEF Inv, CountsRight, Members
<1> QED BY <1>1, FS_EmptySet DEF Inv, CountsRight

\* When nobody's alliance changes and nobody leaves, the counters stay right.
LEMMA CountsStay ==
    ASSUME Inv, Counted, Stay
    PROVE  CountsRight'
<1>1. \A a : Members(a)' = Members(a)
  BY DEF Counted, Members
<1> QED BY <1>1 DEF Counted, Stay, Inv, CountsRight, Present

\* Player_join_alliance() of somebody in no alliance.
LEMMA JoinCounts ==
    ASSUME Inv, NEW p \in Ids, NEW a \in live, NEW inv,
           alliance[p] = NOT_SET, kind'[p] # "none", Stay,
           Player_join_alliance(p, a, inv)
    PROVE  CountsRight' /\ NumMembers' \in [AllianceIds -> Nat]
           /\ alliance' \in [Ids -> AllianceIds \cup {NOT_SET}] /\ live' \subseteq AllianceIds
<1> USE DEF Player_join_alliance, Alliance_add_players, Inv, AllianceTypeOK
<1>1. a \in AllianceIds /\ a # NOT_SET /\ p \notin Members(a)
  BY AllianceAssumption DEF Members
<1>2. Members(a)' = Members(a) \cup {p}
  BY DEF Members
<1>3. \A b \in AllianceIds \ {a} : Members(b)' = Members(b)
  BY <1>1, AllianceAssumption DEF Members
<1>4. Cardinality(Members(a)') = NumMembers[a] + 1
  <2>1. Cardinality(Members(a) \cup {p}) = Cardinality(Members(a)) + 1
    BY ONLY <1>1, FS_AddElement, MembersFinite
  <2>2. NumMembers[a] = Cardinality(Members(a))
    BY <1>1 DEF CountsRight
  <2> QED BY ONLY <1>2, <2>1, <2>2
<1>5. NumMembers' = [NumMembers EXCEPT ![a] = @ + 1] /\ NumMembers[a] \in Nat /\ NumMembers[a] >= 2
  BY <1>1 DEF CountsRight
<1>6. \A b \in AllianceIds : NumMembers'[b] = Cardinality(Members(b)')
  BY <1>1, <1>3, <1>4, <1>5 DEF CountsRight
<1>7. \A b \in live' : NumMembers'[b] >= 2
  BY <1>1, <1>5 DEF CountsRight
<1>8. \A q \in Ids : alliance'[q] # NOT_SET => alliance'[q] \in live' /\ q \in Present'
  BY <1>1 DEF CountsRight, Stay, Present
<1> QED BY <1>1, <1>5, <1>6, <1>7, <1>8 DEF CountsRight

\* Create_alliance() of two in no alliance.
LEMMA CreateCounts ==
    ASSUME Inv, NEW p \in Present, NEW q \in Present, p # q, NEW inv,
           alliance[p] = NOT_SET, alliance[q] = NOT_SET, Stay,
           Create_alliance(p, q, inv)
    PROVE  CountsRight' /\ NumMembers' \in [AllianceIds -> Nat]
           /\ alliance' \in [Ids -> AllianceIds \cup {NOT_SET}] /\ live' \subseteq AllianceIds
<1> USE DEF Create_alliance, Alliance_add_players, Inv, AllianceTypeOK
<1>1. CASE AllianceIds \ live = {}
  BY <1>1, CountsStay DEF Counted
<1>2. CASE AllianceIds \ live # {}
  <2>1. PICK a \in AllianceIds \ live :
          /\ Alliance_add_players({p, q}, a, inv)
          /\ live' = live \cup {a}
          /\ NumMembers' = [NumMembers EXCEPT ![a] = 2]
    BY <1>2
  <2>2. a # NOT_SET /\ Members(a) = {}
    BY AllianceAssumption, NoMembers
  <2>3. Members(a)' = {p, q}
    BY <2>1, <2>2 DEF Members, Present
  <2>4. \A b \in AllianceIds \ {a} : Members(b)' = Members(b)
    BY <2>1, AllianceAssumption DEF Members
  <2>5. Cardinality({p, q}) = 2
    <3>1. {p} \cup {q} = {p, q} /\ q \notin {p}
      OBVIOUS
    <3>2. IsFiniteSet({p}) /\ Cardinality({p}) = 1
      BY ONLY FS_Singleton
    <3>3. Cardinality({p} \cup {q}) = 1 + 1
      BY ONLY <3>1, <3>2, FS_AddElement
    <3> QED BY ONLY <3>1, <3>3
  <2>6. \A b \in AllianceIds : NumMembers'[b] = Cardinality(Members(b)')
    BY <2>1, <2>3, <2>4, <2>5 DEF CountsRight
  <2>7. \A b \in live' : NumMembers'[b] >= 2
    BY <2>1, <2>2 DEF CountsRight
  <2>8. \A r \in Ids : alliance'[r] # NOT_SET => alliance'[r] \in live' /\ r \in Present'
    BY <2>1 DEF CountsRight, Stay, Present
  <2> QED BY <2>1, <2>6, <2>7, <2>8 DEF CountsRight
<1> QED BY <1>1, <1>2

\* Merge_alliances() of two alliances.
LEMMA MergeCounts ==
    ASSUME Inv, NEW a \in live, NEW b \in live, a # b, NEW inv, Stay,
           Merge_alliances(a, b, inv)
    PROVE  CountsRight' /\ NumMembers' \in [AllianceIds -> Nat]
           /\ alliance' \in [Ids -> AllianceIds \cup {NOT_SET}] /\ live' \subseteq AllianceIds
<1> USE DEF Merge_alliances, Alliance_add_players, Inv, AllianceTypeOK
<1>1. /\ a \in AllianceIds /\ b \in AllianceIds /\ a # NOT_SET /\ b # NOT_SET
      /\ Members(a) \cap Members(b) = {}
  BY AllianceAssumption DEF Members
<1>2. Members(a)' = Members(a) \cup Members(b) /\ Members(b)' = {}
  BY <1>1 DEF Members
<1>3. \A d \in AllianceIds \ {a, b} : Members(d)' = Members(d)
  BY <1>1 DEF Members
<1>4. Cardinality(Members(a)') = Cardinality(Members(a)) + Cardinality(Members(b))
  <2>1. Cardinality(Members(a) \cap Members(b)) = 0
    BY ONLY <1>1, FS_EmptySet
  <2>2. Cardinality(Members(a) \cup Members(b)) = Cardinality(Members(a)) + Cardinality(Members(b)) - 0
    BY ONLY <2>1, FS_Union, MembersFinite
  <2>3. Cardinality(Members(a)) \in Nat /\ Cardinality(Members(b)) \in Nat
    BY ONLY MembersFinite
  <2> QED BY ONLY <1>2, <2>2, <2>3
<1>5. NumMembers' = [NumMembers EXCEPT ![a] = @ + Cardinality(Members(b)), ![b] = 0]
  OBVIOUS
<1>6. \A d \in AllianceIds : NumMembers'[d] = Cardinality(Members(d)')
  <2>1. NumMembers'[a] = Cardinality(Members(a)')
    BY <1>1, <1>4, <1>5 DEF CountsRight
  <2>2. NumMembers'[b] = Cardinality(Members(b)')
    BY <1>1, <1>2, <1>5, FS_EmptySet
  <2>3. \A d \in AllianceIds \ {a, b} : NumMembers'[d] = Cardinality(Members(d)')
    BY <1>1, <1>3, <1>5 DEF CountsRight
  <2> QED BY <2>1, <2>2, <2>3
<1>7. Cardinality(Members(b)) \in Nat /\ NumMembers[a] \in Nat
  BY <1>1, MembersFinite
<1>8. NumMembers' \in [AllianceIds -> Nat] /\ \A d \in live' : NumMembers'[d] >= 2
  BY <1>1, <1>5, <1>7 DEF CountsRight
<1>9. \A r \in Ids : alliance'[r] # NOT_SET => alliance'[r] \in live' /\ r \in Present'
  BY <1>1 DEF CountsRight, Stay, Present, Members
<1> QED BY <1>1, <1>6, <1>8, <1>9 DEF CountsRight

\* Leave_alliance() of everybody in S: of one, or of one and his tanks.
LEMMA LeaveCounts ==
    ASSUME Inv, NEW S \in SUBSET Ids, Leave_alliances(S),
           \A p \in Present \ S : kind'[p] # "none"
    PROVE  CountsRight' /\ NumMembers' \in [AllianceIds -> Nat]
           /\ alliance' \in [Ids -> AllianceIds \cup {NOT_SET}] /\ live' \subseteq AllianceIds
<1> USE DEF Inv, AllianceTypeOK
<1>1. \A a \in AllianceIds : Left(S, a) = Cardinality(Members(a) \ S) /\ Left(S, a) \in Nat
  <2> TAKE a \in AllianceIds
  <2>1. IsFiniteSet(Members(a) \ S)
        /\ Cardinality(Members(a) \ S) = Cardinality(Members(a)) - Cardinality(Members(a) \cap S)
    BY ONLY MembersFinite, FS_Difference
  <2>2. Cardinality(Members(a) \ S) \in Nat
    BY ONLY <2>1, FS_CardinalityType
  <2> QED BY <2>1, <2>2 DEF Left, CountsRight
<1>2. \A a \in AllianceIds : Members(a)' = IF a \in Dissolving(S) THEN {} ELSE Members(a) \ S
  BY AllianceAssumption DEF Leave_alliances, Members
<1>3. NumMembers' = [a \in AllianceIds |-> IF a \in Dissolving(S) THEN 0 ELSE Left(S, a)]
  BY DEF Leave_alliances
<1>4. NumMembers' \in [AllianceIds -> Nat]
  BY <1>1, <1>3
<1>5. \A a \in AllianceIds : NumMembers'[a] = Cardinality(Members(a)')
  BY <1>1, <1>2, <1>3, FS_EmptySet
<1>6. \A a \in live' : NumMembers'[a] >= 2
  <2> TAKE a \in live'
  <2>1. a \in live /\ a \in AllianceIds /\ a \notin Dissolving(S)
    BY DEF Leave_alliances
  <2>2. CASE Members(a) \cap S = {}
    <3>1. Members(a) \ S = Members(a)
      BY <2>2
    <3>2. Left(S, a) = NumMembers[a] /\ NumMembers[a] >= 2
      BY <1>1, <2>1, <3>1 DEF CountsRight
    <3> QED BY <1>3, <2>1, <3>2
  <2>3. CASE Members(a) \cap S # {}
    <3>1. ~(Left(S, a) <= 1)
      BY <2>1, <2>3 DEF Dissolving
    <3>2. Left(S, a) \in Nat
      BY <1>1, <2>1
    <3>3. \A n \in Nat : ~(n <= 1) => n >= 2
      BY ONLY SMT
    <3>4. Left(S, a) >= 2
      BY ONLY <3>1, <3>2, <3>3
    <3> QED BY <1>3, <2>1, <3>4
  <2> QED BY <2>2, <2>3
<1>7. \A p \in Ids : alliance'[p] # NOT_SET => alliance'[p] \in live' /\ p \in Present'
  BY DEF Leave_alliances, CountsRight, Present
<1> QED BY <1>4, <1>5, <1>6, <1>7 DEF CountsRight, Leave_alliances

-----------------------------------------------------------------------------
(* Invitations and their acceptance.                                       *)

\* inv is what invitations may be: of others, and not crossed.
Uncrossed(inv) ==
    /\ inv \in [Ids -> Ids \cup {NO_ID}]
    /\ \A p \in Ids : inv[p] # p
    /\ \A p, q \in Present : ~(inv[p] = q /\ inv[q] = p)

\* A new invitation that does not meet one in the other direction.
LEMMA OneMore ==
    ASSUME Inv, NEW p \in Ids, NEW q \in Ids, p # q, invite[q] # p
    PROVE  Uncrossed(invite) /\ Uncrossed([invite EXCEPT ![p] = q])
<1>1. Uncrossed(invite)
  BY DEF Inv, AllianceTypeOK, Sane, NoCrossedInvitations, Uncrossed
<1> QED BY <1>1, AllianceAssumption DEF Uncrossed

\* Taking invitations back crosses none, when newcomers have none.
LEMMA FewerInvitations ==
    ASSUME NEW inv, Uncrossed(inv), Shrinks(inv),
           \A p \in Present' \ Present : invite'[p] = NO_ID
    PROVE  NoCrossedInvitations' /\ \A p \in Ids : invite'[p] # p
<1>1. \A p \in Ids : invite'[p] # p
  BY AllianceAssumption DEF Uncrossed, Shrinks
<1>2. ASSUME NEW p \in Present', NEW q \in Present', invite'[p] = q, invite'[q] = p
      PROVE  FALSE
  <2>1. p \in Ids /\ q \in Ids /\ p # NO_ID /\ q # NO_ID
    BY AllianceAssumption DEF Present
  <2>2. p \in Present /\ q \in Present
    BY <1>2, <2>1
  <2>3. inv[p] = q /\ inv[q] = p
    BY <1>2, <2>1 DEF Shrinks
  <2> QED BY <2>2, <2>3 DEF Uncrossed
<1> QED BY <1>1, <1>2 DEF NoCrossedInvitations

\* Accept_alliance() takes invitations back.
LEMMA AcceptShrinks ==
    ASSUME NEW inv \in [Ids -> Ids \cup {NO_ID}], NEW p, NEW q \in Ids,
           Accept_alliance(p, q, inv)
    PROVE  Shrinks(inv) \/ invite' = invite
<1> DEFINE rest == [inv EXCEPT ![q] = NO_ID]
<1>1. rest \in [Ids -> Ids \cup {NO_ID}] /\ \A x \in Ids : rest[x] \in {inv[x], NO_ID}
  OBVIOUS
<1>2. invite' = invite \/ invite' = rest \/ \E S : invite' = Cancelled(rest, S)
  <2> HIDE DEF rest
  <2>1. ASSUME NEW S, NEW a, Alliance_add_players(S, a, rest)
        PROVE  \E T : invite' = Cancelled(rest, T)
    BY <2>1 DEF Alliance_add_players
  <2>2. CASE Create_alliance(p, q, rest)
    BY <2>1, <2>2 DEF Create_alliance
  <2>3. ASSUME NEW x, NEW a, Player_join_alliance(x, a, rest)
        PROVE  \E T : invite' = Cancelled(rest, T)
    BY <2>1, <2>3 DEF Player_join_alliance
  <2>4. ASSUME NEW a, NEW b, Merge_alliances(a, b, rest)
        PROVE  \E T : invite' = Cancelled(rest, T)
    BY <2>1, <2>4 DEF Merge_alliances
  <2>5. CASE UNCHANGED alliances
    BY <2>5 DEF alliances
  <2> QED BY <2>2, <2>3, <2>4, <2>5 DEF Accept_alliance, rest
<1> HIDE DEF rest
<1>3. \A S : /\ Cancelled(rest, S) \in [Ids -> Ids \cup {NO_ID}]
             /\ \A x \in Ids : Cancelled(rest, S)[x] \in {rest[x], NO_ID}
  BY <1>1 DEF Cancelled
<1> QED BY <1>1, <1>2, <1>3 DEF Shrinks

\* Accept_alliance() between two who are there keeps the counters right.
LEMMA AcceptCounts ==
    ASSUME Inv, NEW p \in Present, NEW q \in Present, p # q, NEW inv, Stay,
           Accept_alliance(p, q, inv)
    PROVE  /\ CountsRight' /\ NumMembers' \in [AllianceIds -> Nat]
           /\ alliance' \in [Ids -> AllianceIds \cup {NOT_SET}] /\ live' \subseteq AllianceIds
           /\ crashed' \in BOOLEAN
<1>1. CASE UNCHANGED alliances /\ crashed' = TRUE
  <2>1. Counted
    BY <1>1 DEF Counted, alliances
  <2> QED BY <1>1, <2>1, CountsStay DEF Inv, AllianceTypeOK, Counted
<1>2. CASE UNCHANGED crashed
  <2>1. /\ p \in Ids /\ q \in Ids /\ crashed' \in BOOLEAN /\ kind'[p] # "none" /\ kind'[q] # "none"
        /\ alliance[p] # NOT_SET => alliance[p] \in live
        /\ alliance[q] # NOT_SET => alliance[q] \in live
    BY <1>2 DEF Inv, AllianceTypeOK, CountsRight, Present, Stay
  <2> DEFINE rest == [inv EXCEPT ![q] = NO_ID]
  <2>2. \/ UNCHANGED alliances /\ crashed' = TRUE
        \/ alliance[p] = NOT_SET /\ alliance[q] = NOT_SET /\ Create_alliance(p, q, rest)
        \/ alliance[p] = NOT_SET /\ alliance[q] # NOT_SET
           /\ Player_join_alliance(p, alliance[q], rest)
        \/ alliance[p] # NOT_SET /\ alliance[q] = NOT_SET
           /\ Player_join_alliance(q, alliance[p], rest)
        \/ alliance[p] # NOT_SET /\ alliance[q] # NOT_SET /\ alliance[p] # alliance[q]
           /\ Merge_alliances(alliance[q], alliance[p], rest)
    BY DEF Accept_alliance
  <2> HIDE DEF rest
  <2> QED BY <1>1, <2>1, <2>2, CreateCounts, JoinCounts, MergeCounts
<1> QED BY <1>1, <1>2 DEF Accept_alliance

-----------------------------------------------------------------------------
(* The invariant.                                                          *)

LEMMA InitInv == AllianceInit => Inv
<1> SUFFICES ASSUME AllianceInit PROVE Inv
  OBVIOUS
<1> USE AllianceAssumption DEF AllianceInit
<1>1. AllianceTypeOK
  BY DEF AllianceTypeOK
<1>2. CountsRight
  <2>1. \A a \in AllianceIds : Members(a) = {} /\ NumMembers[a] = 0
    BY DEF Members
  <2> QED BY <2>1, FS_EmptySet DEF CountsRight
<1>3. NO_ID \notin Ids /\ accepting = NO_ID /\ \A p \in Ids : invite[p] = NO_ID
  OBVIOUS
<1>4. Sane
  BY ONLY <1>3 DEF Sane
<1>5. NoCrossedInvitations
  BY ONLY <1>3 DEF NoCrossedInvitations, Present
<1> QED BY <1>1, <1>2, <1>4, <1>5 DEF Inv

\* What is left to show of a step that changes neither players nor rules nor
\* the loop: nothing but alliances.
LEMMA SamePlayers ==
    ASSUME Inv, UNCHANGED <<players, rules, accepting>>
    PROVE  /\ Stay /\ Present' = Present
           /\ kind' \in [Ids -> {"none", "human", "robot", "tank"}]
           /\ owner' \in [Ids -> Ids \cup {NO_ID}]
           /\ game' \in Games /\ allowed' \in BOOLEAN /\ mode' \in BOOLEAN
           /\ accepting' \in Ids \cup {NO_ID} /\ accepting' \in Present' \cup {NO_ID}
  BY DEF Inv, AllianceTypeOK, Sane, players, rules, Stay, Present

\* p accepts an invitation of q, or a robot p that of q.
LEMMA AcceptInv ==
    ASSUME Inv, NEW p \in Present, NEW q \in Present, p # q, NEW inv, Uncrossed(inv),
           Accept_alliance(p, q, inv), UNCHANGED <<players, rules, accepting>>
    PROVE  Inv'
<1>1. /\ CountsRight' /\ NumMembers' \in [AllianceIds -> Nat]
      /\ alliance' \in [Ids -> AllianceIds \cup {NOT_SET}] /\ live' \subseteq AllianceIds
      /\ crashed' \in BOOLEAN
  BY SamePlayers, AcceptCounts
<1>2. Shrinks(inv) \/ invite' = invite
  <2>1. q \in Ids /\ inv \in [Ids -> Ids \cup {NO_ID}]
    BY DEF Present, Uncrossed
  <2> QED BY <2>1, AcceptShrinks
<1>3. /\ invite' \in [Ids -> Ids \cup {NO_ID}]
      /\ NoCrossedInvitations' /\ \A x \in Ids : invite'[x] # x
  <2>1. CASE Shrinks(inv)
    BY <2>1, FewerInvitations, SamePlayers DEF Shrinks
  <2>2. CASE invite' = invite
    BY <2>2, SamePlayers DEF Inv, AllianceTypeOK, Sane, NoCrossedInvitations
  <2> QED BY <1>2, <2>1, <2>2
<1> QED BY <1>1, <1>3, SamePlayers DEF Inv, AllianceTypeOK, Sane

\* A step that only takes invitations of inv back, or leaves all as it was.
LEMMA InvitationsInv ==
    ASSUME Inv, NEW inv, Uncrossed(inv), Shrinks(inv), Counted,
           crashed' \in BOOLEAN, UNCHANGED <<players, rules, accepting>>
    PROVE  Inv'
<1>1. CountsRight'
  BY CountsStay, SamePlayers
<1>2. NoCrossedInvitations' /\ \A x \in Ids : invite'[x] # x
  BY FewerInvitations, SamePlayers
<1> QED BY <1>1, <1>2, SamePlayers DEF Inv, AllianceTypeOK, Sane, Counted, Shrinks

LEMMA InvitePlayerInv ==
    ASSUME Inv, NEW p \in Ids, NEW q \in Ids, Invite_player(p, q)
    PROVE  Inv'
<1> DEFINE inv == [invite EXCEPT ![p] = q]
<1>1. /\ p \in Present /\ q \in Present /\ p # q
      /\ UNCHANGED <<players, rules, accepting>>
  BY DEF Invite_player, Cmd_ally, Humans, Present
<1>2. CASE Accept_alliance(p, q, invite)
  <2>1. Uncrossed(invite)
    BY DEF Inv, AllianceTypeOK, Sane, NoCrossedInvitations, Uncrossed
  <2> QED BY <1>1, <1>2, <2>1, AcceptInv
<1>3. CASE crashed' = TRUE /\ UNCHANGED alliances
  <2>1. Uncrossed(invite) /\ Shrinks(invite) /\ Counted
    BY <1>3 DEF Inv, AllianceTypeOK, Sane, NoCrossedInvitations, Uncrossed, alliances,
                Shrinks, Counted
  <2> QED BY <1>1, <1>3, <2>1, InvitationsInv
<1>4. CASE invite[q] # p /\ \/ Robot_invite(q, p, inv)
                            \/ invite' = inv /\ UNCHANGED <<alliance, live, NumMembers, crashed>>
  <2>1. Uncrossed(inv)
    BY <1>1, <1>4, OneMore
  <2>2. CASE Accept_alliance(q, p, inv)
    BY <1>1, <2>1, <2>2, AcceptInv
  <2>3. CASE invite' \in {[inv EXCEPT ![p] = NO_ID], inv}
             /\ UNCHANGED <<alliance, live, NumMembers, crashed>>
    <3>1. Shrinks(inv)
      BY <2>1, <2>3 DEF Shrinks, Uncrossed
    <3>2. Counted /\ crashed' \in BOOLEAN
      BY <2>3 DEF Counted, Inv, AllianceTypeOK
    <3> QED BY <1>1, <2>1, <3>1, <3>2, InvitationsInv
  <2> QED BY <1>4, <2>2, <2>3 DEF Robot_invite
<1> HIDE DEF inv
<1> QED BY <1>2, <1>3, <1>4 DEF Invite_player, inv

LEMMA CommandsInv ==
    ASSUME Inv, NEW p \in Ids, Commands(p)
    PROVE  Inv'
<1>0. Uncrossed(invite)
  BY DEF Inv, AllianceTypeOK, Sane, NoCrossedInvitations, Uncrossed
<1>1. ASSUME NEW q \in Ids, Invite_player(p, q)
      PROVE  Inv'
  BY <1>1, InvitePlayerInv
<1>2. ASSUME NEW q \in Ids, Refuse_alliance(p, q)
      PROVE  Inv'
  <2>1. /\ Counted /\ crashed' \in BOOLEAN /\ UNCHANGED <<players, rules, accepting>>
        /\ invite' = [invite EXCEPT ![q] = NO_ID]
    BY <1>2 DEF Refuse_alliance, Counted, Inv, AllianceTypeOK
  <2>2. Shrinks(invite)
    BY <1>0, <2>1 DEF Shrinks, Uncrossed
  <2> QED BY <1>0, <2>1, <2>2, InvitationsInv
<1>3. ASSUME NEW q \in Ids, Accept(p, q)
      PROVE  Inv'
  <2>1. p \in Present /\ q \in Present /\ p # q
    BY <1>3 DEF Accept, Cmd_ally, Humans, Present, Inv, Sane
  <2> QED BY <1>0, <1>3, <2>1, AcceptInv DEF Accept
<1>4. CASE Cancel_invitation(p)
  <2>1. /\ Counted /\ crashed' \in BOOLEAN /\ UNCHANGED <<players, rules, accepting>>
        /\ invite' \in {invite, [invite EXCEPT ![p] = NO_ID]}
    BY <1>4 DEF Cancel_invitation, Crash, Counted, Inv, AllianceTypeOK, alliances
  <2>2. Shrinks(invite)
    BY <1>0, <2>1 DEF Shrinks, Uncrossed
  <2> QED BY <1>0, <2>1, <2>2, InvitationsInv
<1>5. CASE Refuse_all_alliances(p)
  <2>1. /\ Counted /\ crashed' \in BOOLEAN /\ UNCHANGED <<players, rules, accepting>>
        /\ invite' = Cancelled(invite, {p})
    BY <1>5 DEF Refuse_all_alliances, Counted, Inv, AllianceTypeOK
  <2>2. Shrinks(invite)
    BY <1>0, <2>1 DEF Shrinks, Uncrossed, Cancelled
  <2> QED BY <1>0, <2>1, <2>2, InvitationsInv
<1>6. CASE Accept_all_alliances(p)
  <2>1. /\ p \in Present /\ accepting' = p /\ UNCHANGED <<players, alliances, rules, crashed>>
    BY <1>6 DEF Accept_all_alliances, Cmd_ally, Humans, Present
  <2>2. Counted /\ Stay /\ Present' = Present
    BY <2>1 DEF Counted, Stay, Present, players, alliances
  <2>3. CountsRight'
    BY <2>2, CountsStay
  <2> QED BY <2>1, <2>2, <2>3
          DEF Inv, AllianceTypeOK, Sane, NoCrossedInvitations, players, alliances, rules, Present
<1>7. CASE Leave_alliance(p)
  <2>1. Leave_alliances({p}) /\ UNCHANGED <<players, invite, rules, accepting, crashed>>
    BY <1>7 DEF Leave_alliance
  <2>2. /\ CountsRight' /\ NumMembers' \in [AllianceIds -> Nat]
        /\ alliance' \in [Ids -> AllianceIds \cup {NOT_SET}] /\ live' \subseteq AllianceIds
    BY <2>1, LeaveCounts, SamePlayers DEF Stay
  <2> QED BY <2>1, <2>2, SamePlayers DEF Inv, AllianceTypeOK, Sane, NoCrossedInvitations
<1> QED BY <1>1, <1>2, <1>3, <1>4, <1>5, <1>6, <1>7 DEF Commands

\* The loop of Accept_all_alliances().
LEMMA AcceptingInv ==
    ASSUME Inv, (\E q \in Ids : AcceptNext(q)) \/ AcceptedAll
    PROVE  Inv'
<1>0. Uncrossed(invite)
  BY DEF Inv, AllianceTypeOK, Sane, NoCrossedInvitations, Uncrossed
<1>1. ASSUME NEW q \in Ids, AcceptNext(q)
      PROVE  Inv'
  <2>1. accepting \in Present /\ q \in Present /\ accepting # q
    BY <1>1 DEF AcceptNext, Present, Inv, Sane
  <2> QED BY <1>0, <1>1, <2>1, AcceptInv DEF AcceptNext
<1>2. CASE AcceptedAll
  <2>1. accepting' = NO_ID /\ UNCHANGED <<players, alliances, rules, crashed>>
    BY <1>2 DEF AcceptedAll
  <2>2. Counted /\ Stay /\ Present' = Present
    BY <2>1 DEF Counted, Stay, Present, players, alliances
  <2>3. CountsRight'
    BY <2>2, CountsStay
  <2> QED BY <2>1, <2>2, <2>3
          DEF Inv, AllianceTypeOK, Sane, NoCrossedInvitations, players, alliances, rules, Present
<1> QED BY <1>1, <1>2

\* Somebody comes: by himself, or as a tank that joins his owner's alliance.
LEMMA NewcomerInv ==
    ASSUME Inv, NEW p \in Ids,
           \/ \E k \in {"human", "robot"} : Init_player(p, k)
           \/ \E o \in Ids : Tank_handle_detach(o, p)
    PROVE  Inv'
<1> DEFINE inv == [invite EXCEPT ![p] = NO_ID]
<1>1. ASSUME NEW k \in {"human", "robot", "tank"}, kind[p] = "none",
             kind' = [kind EXCEPT ![p] = k], owner' \in [Ids -> Ids \cup {NO_ID}],
             invite' = inv \/ \E S : p \in S /\ invite' = Cancelled(inv, S),
             CountsRight', NumMembers' \in [AllianceIds -> Nat],
             alliance' \in [Ids -> AllianceIds \cup {NOT_SET}], live' \subseteq AllianceIds,
             UNCHANGED <<rules, accepting, crashed>>
      PROVE  Inv'
  <2>1. /\ kind' \in [Ids -> {"none", "human", "robot", "tank"}]
        /\ Present' = Present \cup {p} /\ p \notin Present
    BY <1>1 DEF Inv, AllianceTypeOK, Present
  <2>2. /\ inv \in [Ids -> Ids \cup {NO_ID}] /\ \A x \in Ids : inv[x] \in {invite[x], NO_ID}
        /\ inv[p] = NO_ID
    BY DEF Inv, AllianceTypeOK
  <2>3. Uncrossed(invite)
    BY DEF Inv, AllianceTypeOK, Sane, NoCrossedInvitations, Uncrossed
  <2> HIDE DEF inv
  <2>4. Shrinks(invite) /\ invite'[p] = NO_ID
    BY <1>1, <2>2 DEF Shrinks, Cancelled
  <2>5. NoCrossedInvitations' /\ \A x \in Ids : invite'[x] # x
    BY <2>1, <2>3, <2>4, FewerInvitations
  <2> QED BY <1>1, <2>1, <2>4, <2>5 DEF Inv, AllianceTypeOK, Sane, rules, Shrinks
<1>2. ASSUME NEW k \in {"human", "robot"}, Init_player(p, k)
      PROVE  Inv'
  <2>1. /\ kind[p] = "none" /\ kind' = [kind EXCEPT ![p] = k]
        /\ alliance' = [alliance EXCEPT ![p] = NOT_SET] /\ invite' = inv
        /\ UNCHANGED <<owner, live, NumMembers, rules, accepting, crashed>>
    BY <1>2 DEF Init_player
  <2>2. alliance' = alliance
    BY <2>1 DEF Inv, AllianceTypeOK, CountsRight, Present
  <2>3. Counted /\ Stay
    BY <2>1, <2>2 DEF Counted, Stay, Inv, AllianceTypeOK, Present
  <2>4. CountsRight'
    BY <2>3, CountsStay
  <2>5. /\ NumMembers' \in [AllianceIds -> Nat] /\ owner' \in [Ids -> Ids \cup {NO_ID}]
        /\ alliance' \in [Ids -> AllianceIds \cup {NOT_SET}] /\ live' \subseteq AllianceIds
    BY <2>1, <2>2 DEF Inv, AllianceTypeOK
  <2> HIDE DEF inv
  <2> QED BY <1>1, <2>1, <2>4, <2>5
<1>3. ASSUME NEW o \in Ids, Tank_handle_detach(o, p)
      PROVE  Inv'
  <2>1. /\ kind[p] = "none" /\ kind' = [kind EXCEPT ![p] = "tank"] /\ o \in Present
        /\ owner' = [owner EXCEPT ![p] = o] /\ UNCHANGED <<rules, accepting, crashed>>
        /\ IF alliance[o] # NOT_SET THEN Player_join_alliance(p, alliance[o], inv)
           ELSE invite' = inv /\ UNCHANGED <<alliance, live, NumMembers>>
    BY <1>3 DEF Tank_handle_detach, Present
  <2> HIDE DEF inv
  <2>2. /\ Stay /\ kind'[p] # "none" /\ alliance[p] = NOT_SET
        /\ alliance[o] # NOT_SET => alliance[o] \in live
        /\ owner' \in [Ids -> Ids \cup {NO_ID}]
    BY <2>1 DEF Stay, Inv, AllianceTypeOK, CountsRight, Present
  <2>3. CASE alliance[o] # NOT_SET
    <3>1. Player_join_alliance(p, alliance[o], inv) /\ alliance[o] \in live
      BY <2>1, <2>2, <2>3
    <3>2. \E S : p \in S /\ invite' = Cancelled(inv, S)
      BY <3>1 DEF Player_join_alliance, Alliance_add_players
    <3>3. /\ CountsRight' /\ NumMembers' \in [AllianceIds -> Nat]
          /\ alliance' \in [Ids -> AllianceIds \cup {NOT_SET}] /\ live' \subseteq AllianceIds
      BY <2>2, <3>1, JoinCounts
    <3> QED BY <1>1, <2>1, <2>2, <3>2, <3>3
  <2>4. CASE alliance[o] = NOT_SET
    <3>1. Counted /\ invite' = inv
      BY <2>1, <2>4 DEF Counted
    <3>2. CountsRight'
      BY <2>2, <3>1, CountsStay
    <3>3. /\ NumMembers' \in [AllianceIds -> Nat]
          /\ alliance' \in [Ids -> AllianceIds \cup {NOT_SET}] /\ live' \subseteq AllianceIds
      BY <3>1 DEF Counted, Inv, AllianceTypeOK
    <3> QED BY <1>1, <2>1, <2>2, <3>1, <3>2, <3>3
  <2> QED BY <2>3, <2>4
<1> QED BY <1>2, <1>3

LEMMA DeletePlayerInv ==
    ASSUME Inv, NEW p \in Ids, Delete_player(p)
    PROVE  Inv'
<1>1. PICK gone \in SUBSET Ids, tanks \in SUBSET Ids :
        /\ kind' = [q \in Ids |-> IF q \in gone THEN "none" ELSE kind[q]]
        /\ owner' = [q \in Ids |-> IF q \in tanks \cup {p} THEN NO_ID ELSE owner[q]]
        /\ Leave_alliances(gone)
        /\ invite' = [q \in Ids |-> IF q \in gone THEN NO_ID ELSE invite[q]]
  <2>1. PICK keepShots \in BOOLEAN :
          LET tanks == {t \in Ids \ {p} : kind[t] = "tank" /\ owner[t] = p}
              gone == IF keepShots THEN {p} ELSE {p} \cup tanks
          IN  /\ kind' = [q \in Ids |-> IF q \in gone THEN "none" ELSE kind[q]]
              /\ owner' = [q \in Ids |-> IF q \in tanks \cup {p} THEN NO_ID ELSE owner[q]]
              /\ Leave_alliances(gone)
              /\ invite' = [q \in Ids |-> IF q \in gone THEN NO_ID ELSE invite[q]]
    BY DEF Delete_player
  <2> DEFINE tanks == {t \in Ids \ {p} : kind[t] = "tank" /\ owner[t] = p}
             gone == IF keepShots THEN {p} ELSE {p} \cup tanks
  <2>2. tanks \in SUBSET Ids /\ gone \in SUBSET Ids
    OBVIOUS
  <2> QED BY <2>1, <2>2
<1>2. accepting' = NO_ID /\ UNCHANGED <<rules, crashed>>
  BY DEF Delete_player, Idle
<1>3. /\ CountsRight' /\ NumMembers' \in [AllianceIds -> Nat]
      /\ alliance' \in [Ids -> AllianceIds \cup {NOT_SET}] /\ live' \subseteq AllianceIds
  <2>1. \A q \in Present \ gone : kind'[q] # "none"
    BY <1>1 DEF Present
  <2> QED BY <1>1, <2>1, LeaveCounts
<1>4. /\ kind' \in [Ids -> {"none", "human", "robot", "tank"}]
      /\ owner' \in [Ids -> Ids \cup {NO_ID}] /\ invite' \in [Ids -> Ids \cup {NO_ID}]
      /\ Present' \subseteq Present
  BY <1>1 DEF Inv, AllianceTypeOK, Present
<1>5. NoCrossedInvitations' /\ \A x \in Ids : invite'[x] # x
  <2>1. Uncrossed(invite) /\ Shrinks(invite)
    BY <1>1, <1>4 DEF Inv, AllianceTypeOK, Sane, NoCrossedInvitations, Uncrossed, Shrinks
  <2> QED BY <1>4, <2>1, FewerInvitations
<1> QED BY <1>2, <1>3, <1>4, <1>5 DEF Inv, AllianceTypeOK, Sane, rules

\* The operator dissolves all alliances, or sets the rules.
LEMMA OperatorInv ==
    ASSUME Inv, (\E v \in BOOLEAN : tuner_allowalliances(v)) \/ Set_world_rules
    PROVE  Inv'
<1>1. /\ UNCHANGED <<game, players, invite, accepting, crashed>>
      /\ allowed' \in BOOLEAN /\ mode' \in BOOLEAN
  BY DEF tuner_allowalliances, Set_world_rules, alliances, Inv, AllianceTypeOK
<1>2. Stay /\ Present' = Present
  BY <1>1 DEF Stay, Present, players
<1>3. /\ CountsRight' /\ NumMembers' \in [AllianceIds -> Nat]
      /\ alliance' \in [Ids -> AllianceIds \cup {NOT_SET}] /\ live' \subseteq AllianceIds
  <2>1. CASE UNCHANGED alliances
    <3>1. Counted
      BY <2>1 DEF Counted, alliances
    <3> QED BY <1>2, <3>1, CountsStay DEF Counted, Inv, AllianceTypeOK
  <2>2. CASE /\ alliance' = [p \in Ids |-> NOT_SET]
             /\ live' = {} /\ NumMembers' = [a \in AllianceIds |-> 0]
    <3>1. \A a \in AllianceIds : Members(a)' = {}
      BY <2>2, AllianceAssumption DEF Members
    <3> QED BY <2>2, <3>1, FS_EmptySet DEF CountsRight
  <2> QED BY <2>1, <2>2 DEF tuner_allowalliances, Set_world_rules
<1> QED BY <1>1, <1>2, <1>3
        DEF Inv, AllianceTypeOK, Sane, NoCrossedInvitations, players, Present

LEMMA StepInv == Inv /\ [AllianceNext]_allianceVars => Inv'
<1> SUFFICES ASSUME Inv, [AllianceNext]_allianceVars PROVE Inv'
  OBVIOUS
<1>1. ASSUME NEW p \in Ids, Commands(p) PROVE Inv'
  BY <1>1, CommandsInv
<1>2. CASE (\E p \in Ids : AcceptNext(p)) \/ AcceptedAll
  BY <1>2, AcceptingInv
<1>3. ASSUME NEW p \in Ids, Delete_player(p) PROVE Inv'
  BY <1>3, DeletePlayerInv
<1>4. ASSUME NEW p \in Ids, NEW k \in {"human", "robot"}, Init_player(p, k) PROVE Inv'
  BY <1>4, NewcomerInv
<1>5. ASSUME NEW p \in Ids, NEW t \in Ids, Tank_handle_detach(p, t) PROVE Inv'
  BY <1>5, NewcomerInv
<1>6. CASE (\E v \in BOOLEAN : tuner_allowalliances(v)) \/ Set_world_rules
  BY <1>6, OperatorInv
<1>7. CASE UNCHANGED allianceVars
  <2>1. Counted /\ Stay /\ Present' = Present
    BY <1>7 DEF allianceVars, alliances, players, Counted, Stay, Present
  <2>2. CountsRight'
    BY <2>1, CountsStay
  <2> QED BY <1>7, <2>1, <2>2
          DEF Inv, AllianceTypeOK, Sane, NoCrossedInvitations, allianceVars, alliances, players, rules
<1> QED BY <1>1, <1>2, <1>3, <1>4, <1>5, <1>6, <1>7 DEF AllianceNext

LEMMA InvAlways == AllianceSpec => []Inv
<1> QED BY InitInv, StepInv, PTL DEF AllianceSpec

\* The counter of every alliance is the number of its members, two at least,
\* and its members are in the game, however players, robots and tanks come, go,
\* invite, accept, merge and leave (alliance.c:350, 391).
THEOREM AlliancesCounted == AllianceSpec => [](AllianceTypeOK /\ CountsRight)
<1>1. Inv => AllianceTypeOK /\ CountsRight
  BY DEF Inv
<1> QED BY <1>1, InvAlways, PTL

\* No two players wait for each other's answer (alliance.c:72).
THEOREM InvitationsUncrossed == AllianceSpec => []NoCrossedInvitations
<1>1. Inv => NoCrossedInvitations
  BY DEF Inv
<1> QED BY <1>1, InvAlways, PTL

-----------------------------------------------------------------------------
(* Agreement.                                                              *)

Circle(p) == {p} \cup {r \in Ids : Players_are_allies(r, p)}

\* Who becomes allies when p accepts an invitation of q: somebody of the circle
\* of p and somebody of the circle of q.
LEMMA AcceptAllies ==
    ASSUME Inv, NEW p \in Present, NEW q \in Present, NEW inv,
           Accept_alliance(p, q, inv),
           NEW x \in Present, NEW y \in Present, x # y,
           Players_are_allies(x, y)', ~Players_are_allies(x, y)
    PROVE  \/ p \in Circle(x) /\ q \in Circle(y)
           \/ q \in Circle(x) /\ p \in Circle(y)
<1> DEFINE rest == [inv EXCEPT ![q] = NO_ID]
<1>1. /\ p \in Ids /\ q \in Ids /\ x \in Ids /\ y \in Ids
      /\ \A r \in Ids : alliance[r] # NOT_SET => alliance[r] \in live
      /\ live \subseteq AllianceIds /\ NOT_SET \notin AllianceIds
  BY AllianceAssumption DEF Present, Inv, AllianceTypeOK, CountsRight
<1>2. alliance'[x] = alliance'[y] /\ alliance'[x] # NOT_SET
  BY DEF Players_are_allies
<1>3. ASSUME NEW S, NEW a, Alliance_add_players(S, a, rest)
      PROVE  \A r \in Ids : alliance'[r] = IF r \in S THEN a ELSE alliance[r]
  BY <1>3 DEF Alliance_add_players
<1>4. CASE UNCHANGED alliances
  BY <1>4, <1>2 DEF alliances, Players_are_allies
<1>5. CASE Create_alliance(p, q, rest)
  <2>1. CASE alliance' = alliance
    BY <1>2, <2>1 DEF Players_are_allies
  <2>2. CASE \E a \in AllianceIds \ live : Alliance_add_players({p, q}, a, rest)
    <3>1. PICK a \in AllianceIds \ live : Alliance_add_players({p, q}, a, rest)
      BY <2>2
    <3>2. \A r \in Ids : alliance'[r] = (IF r \in {p, q} THEN a ELSE alliance[r]) /\ alliance[r] # a
      BY <1>1, <1>3, <3>1
    <3>3. {x, y} = {p, q}
      BY <1>1, <1>2, <3>2 DEF Players_are_allies
    <3> QED BY <3>3 DEF Circle
  <2> HIDE DEF rest
  <2> QED BY <1>5, <2>1, <2>2 DEF Create_alliance
<1>6. ASSUME NEW r \in Ids, NEW s \in Ids, {r, s} = {p, q}, alliance[s] # NOT_SET,
             Player_join_alliance(r, alliance[s], rest)
      PROVE  \/ r \in Circle(x) /\ s \in Circle(y)
             \/ s \in Circle(x) /\ r \in Circle(y)
  <2>1. \A z \in Ids : alliance'[z] = IF z \in {r} THEN alliance[s] ELSE alliance[z]
    BY <1>3, <1>6 DEF Player_join_alliance
  <2>2. \/ x = r /\ alliance[y] = alliance[s]
        \/ y = r /\ alliance[x] = alliance[s]
    BY <1>1, <1>2, <2>1 DEF Players_are_allies
  <2> QED BY <1>1, <1>6, <2>2 DEF Circle, Players_are_allies
<1>7. CASE alliance[p] # NOT_SET /\ alliance[q] # NOT_SET
           /\ Merge_alliances(alliance[q], alliance[p], rest)
  <2>1. \A z \in Ids : alliance'[z] = IF z \in Members(alliance[p]) THEN alliance[q] ELSE alliance[z]
    BY <1>3, <1>7 DEF Merge_alliances
  <2>2. \/ alliance[x] = alliance[p] /\ alliance[y] = alliance[q]
        \/ alliance[y] = alliance[p] /\ alliance[x] = alliance[q]
    BY <1>1, <1>2, <1>7, <2>1 DEF Players_are_allies, Members
  <2> QED BY <1>1, <1>7, <2>2 DEF Circle, Players_are_allies
<1> HIDE DEF rest
<1>8. \/ UNCHANGED alliances \/ Create_alliance(p, q, rest)
      \/ alliance[q] # NOT_SET /\ Player_join_alliance(p, alliance[q], rest)
      \/ alliance[p] # NOT_SET /\ Player_join_alliance(q, alliance[p], rest)
      \/ alliance[p] # NOT_SET /\ alliance[q] # NOT_SET
         /\ Merge_alliances(alliance[q], alliance[p], rest)
  BY DEF Accept_alliance, rest
<1>9. CASE alliance[q] # NOT_SET /\ Player_join_alliance(p, alliance[q], rest)
  BY <1>1, <1>6, <1>9
<1>10. CASE alliance[p] # NOT_SET /\ Player_join_alliance(q, alliance[p], rest)
  BY <1>1, <1>6, <1>10
<1> QED BY <1>4, <1>5, <1>7, <1>8, <1>9, <1>10

Agreed == \A x, y \in Present :
              x # y /\ Players_are_allies(x, y)' /\ ~Players_are_allies(x, y) => AgreedBy(x, y)

\* Accepting an invitation, or a robot's accepting one, is agreement.
LEMMA AcceptAgreed ==
    ASSUME Inv, NEW p \in Present, NEW q \in Present, NEW inv, Accept_alliance(p, q, inv),
           invite[q] = p \/ kind[p] = "robot"
    PROVE  Agreed
<1> SUFFICES ASSUME NEW x \in Present, NEW y \in Present, x # y,
                    Players_are_allies(x, y)', ~Players_are_allies(x, y)
             PROVE  AgreedBy(x, y)
  BY DEF Agreed
<1>1. \/ p \in Circle(x) /\ q \in Circle(y)
      \/ q \in Circle(x) /\ p \in Circle(y)
  BY AcceptAllies
<1> QED BY <1>1 DEF AgreedBy, Circle

\* No other step makes allies of two who are in the game.
LEMMA FewerAllies ==
    ASSUME Inv, \A r \in Present : alliance'[r] \in {alliance[r], NOT_SET}
    PROVE  Agreed
  BY DEF Agreed, Players_are_allies, Present

LEMMA InviteAgreed ==
    ASSUME Inv, NEW p \in Ids, NEW q \in Ids, Invite_player(p, q)
    PROVE  Agreed
<1> DEFINE inv == [invite EXCEPT ![p] = q]
<1>1. p \in Present /\ q \in Present
  BY DEF Invite_player, Cmd_ally, Humans, Present
<1>2. \/ UNCHANGED alliance
      \/ invite[q] = p /\ Accept_alliance(p, q, invite)
      \/ kind[q] = "robot" /\ Accept_alliance(q, p, inv)
  BY DEF Invite_player, Robot_invite, alliances
<1> HIDE DEF inv
<1> QED BY <1>1, <1>2, AcceptAgreed, FewerAllies

LEMMA StepAgreed == Inv /\ AllianceNext => Agreed
<1> SUFFICES ASSUME Inv, AllianceNext PROVE Agreed
  OBVIOUS
<1>1. ASSUME NEW p \in Ids, Commands(p) PROVE Agreed
  <2>1. ASSUME NEW q \in Ids, Accept(p, q) PROVE Agreed
    BY <2>1, AcceptAgreed DEF Accept, Cmd_ally, Humans, Present
  <2>2. CASE Leave_alliance(p)
    BY <2>2, FewerAllies DEF Leave_alliance, Leave_alliances, Present
  <2>3. CASE UNCHANGED alliance
    BY <2>3, FewerAllies
  <2> QED BY <1>1, <2>1, <2>2, <2>3, InviteAgreed
          DEF Commands, Refuse_alliance, Cancel_invitation, Crash, Refuse_all_alliances,
              Accept_all_alliances, alliances
<1>2. ASSUME NEW q \in Ids, AcceptNext(q) PROVE Agreed
  BY <1>2, AcceptAgreed DEF AcceptNext, Inv, Sane, Present
<1>3. CASE AcceptedAll \/ Set_world_rules
  BY <1>3, FewerAllies DEF AcceptedAll, Set_world_rules, alliances
<1>4. ASSUME NEW p \in Ids, Delete_player(p) PROVE Agreed
  <2>1. \E S : Leave_alliances(S)
    BY <1>4 DEF Delete_player
  <2> QED BY <2>1, FewerAllies DEF Leave_alliances, Present
<1>5. ASSUME NEW p \in Ids, NEW k \in {"human", "robot"}, Init_player(p, k) PROVE Agreed
  BY <1>5, FewerAllies DEF Init_player, Present, Inv, AllianceTypeOK
<1>6. ASSUME NEW p \in Ids, NEW t \in Ids, Tank_handle_detach(p, t) PROVE Agreed
  <2>1. \A r \in Present : alliance'[r] = alliance[r]
    BY <1>6 DEF Tank_handle_detach, Player_join_alliance, Alliance_add_players, Present
  <2> QED BY <2>1, FewerAllies
<1>7. ASSUME NEW v \in BOOLEAN, tuner_allowalliances(v) PROVE Agreed
  BY <1>7, FewerAllies DEF tuner_allowalliances, alliances, Present
<1> QED BY <1>1, <1>2, <1>3, <1>4, <1>5, <1>6, <1>7 DEF AllianceNext

\* Nobody becomes an ally of somebody without an invitation between the circles
\* of the two, or a robot there that was asked (alliance.c:157).
THEOREM AlliesAgree == AllianceSpec => AlliesByAgreement
<1>1. Inv /\ [AllianceNext]_allianceVars =>
        [\A p, q \in Present : p # q /\ Players_are_allies(p, q)' /\ ~Players_are_allies(p, q)
             => AgreedBy(p, q)]_allianceVars
  BY StepAgreed DEF Agreed
<1> QED BY <1>1, InvAlways, PTL DEF AllianceSpec, AlliesByAgreement

-----------------------------------------------------------------------------
(* Tag.                                                                    *)

\* A set of numbers that is not empty has a least.
LEMMA LeastNumber ==
    ASSUME NEW T \in SUBSET Nat, T # {}
    PROVE  Min(T) \in T
<1> DEFINE R == {ss \in Nat \X Nat : ss[1] < ss[2]}
<1>1. IsWellFoundedOn(R, Nat)
  BY NatLessThanWellFounded DEF OpToRel
<1>2. \E x \in T : \A y \in T : <<y, x>> \notin R
  <2> HIDE DEF R
  <2> QED BY <1>1, WFMin
<1>3. \E x \in T : \A y \in T : x <= y
  <2>1. PICK x \in T : \A y \in T : <<y, x>> \notin R
    BY <1>2
  <2>2. ASSUME NEW y \in T PROVE x <= y
    <3>1. x \in Nat /\ y \in Nat /\ ~(y < x)
      BY <2>1
    <3> QED BY ONLY <3>1, SMT
  <2> QED BY <2>2
<1> QED BY <1>3 DEF Min

\* The places of the players who may have the tag.
LEMMA CandidateAbove ==
    ASSUME AllianceTypeOK, NEW table \in SetToSeqs(Present), NEW start \in Starts
    PROVE  /\ Len(table) \in Nat /\ \A i \in 1 .. Len(table) : table[i] \in Present
           /\ start \in Nat \ {0}
           /\ \E i \in start .. Len(table) : Player_can_be_tagged(table[i])
<1> DEFINE n == Cardinality(Present)
<1>1. /\ IsFiniteSet(Present) /\ n \in Nat
      /\ IsFiniteSet(Candidates) /\ Cardinality(Candidates) \in Nat
  <2>1. Present \in SUBSET Ids /\ Candidates \in SUBSET Ids
    BY DEF Present, Candidates
  <2> QED BY <2>1, AllianceAssumption, FS_Subset, FS_CardinalityType
<1>2. /\ table \in [1 .. n -> Present] /\ Len(table) = n
      /\ \A i, j \in 1 .. n : i # j => table[i] # table[j]
  <2>1. table \in [1 .. n -> Present] /\ \A i, j \in 1 .. n : i # j => table[i] # table[j]
    BY DEF SetToSeqs
  <2>2. Len(table) = n
    BY <1>1, <2>1
  <2> QED BY <2>1, <2>2
<1>3. start \in Nat \ {0} /\ start <= Cardinality(Candidates)
  BY <1>1 DEF Starts
<1> HIDE DEF n
<1>4. table \in Surjection(1 .. n, Present)
  <2>1. table \in Injection(1 .. n, Present)
    BY <1>2 DEF Injection, IsInjective
  <2>2. IsFiniteSet(1 .. n) /\ Cardinality(1 .. n) = n
    BY <1>1, FS_Interval, SMTT(40)
  <2> QED BY <1>1, <2>1, <2>2, FS_Injection DEF n
<1>5. ASSUME \A i \in start .. n : ~Player_can_be_tagged(table[i])
      PROVE  FALSE
  <2> DEFINE below == {i \in 1 .. start - 1 : i <= n /\ table[i] \in Candidates}
             f == [i \in below |-> table[i]]
  <2>1. IsFiniteSet(below) /\ Cardinality(below) <= start - 1
    <3>1. IsFiniteSet(1 .. start - 1) /\ Cardinality(1 .. start - 1) = start - 1
      BY <1>3, FS_Interval
    <3> QED BY <3>1, FS_Subset
  <2>2. f \in Surjection(below, Candidates)
    <3>1. f \in [below -> Candidates]
      OBVIOUS
    <3>2. ASSUME NEW c \in Candidates PROVE \E i \in below : f[i] = c
      <4>1. PICK i \in 1 .. n : table[i] = c
        BY <1>4 DEF Surjection, Candidates
      <4>2. Player_can_be_tagged(table[i])
        BY <4>1 DEF Candidates
      <4>3. i \in below
        BY <1>1, <1>3, <1>5, <4>1, <4>2 DEF n
      <4> QED BY <4>1, <4>3
    <3> QED BY <3>1, <3>2 DEF Surjection
  <2>3. Cardinality(Candidates) <= Cardinality(below) /\ Cardinality(below) \in Nat
    BY <2>1, <2>2, FS_Surjection, FS_CardinalityType
  <2> QED BY ONLY <1>1, <1>3, <2>1, <2>3
<1> QED BY <1>1, <1>2, <1>3, <1>5 DEF n

\* The first place of one who may have the tag is found going up.
LEMMA SearchFinds ==
    ASSUME AllianceTypeOK, NEW table \in SetToSeqs(Present), NEW start \in Starts
    PROVE  Search(table, start) \in Candidates
<1> DEFINE up == {i \in start .. Len(table) : Player_can_be_tagged(table[i])}
<1>1. up # {} /\ up \in SUBSET Nat
  BY CandidateAbove
<1>2. Min(up) \in up
  <2> HIDE DEF up
  <2> QED BY <1>1, LeastNumber
<1>3. Search(table, start) = table[Min(up)]
  BY <1>1 DEF Search
<1>4. Min(up) \in 1 .. Len(table) /\ Player_can_be_tagged(table[Min(up)])
  BY <1>2, CandidateAbove
<1> HIDE DEF up
<1> QED BY <1>3, <1>4, CandidateAbove DEF Candidates

-----------------------------------------------------------------------------

TagInv ==
    /\ tagItPlayerId \in Ids \cup {NO_ID}
    /\ TagSound
    /\ asserted = FALSE

\* Alliances go on as they do without the game of tag: all that is proved of
\* them holds while it is played.
THEOREM TagUsesAlliance == Spec => AllianceSpec
<1>1. Init => AllianceInit
  BY DEF Init
<1>2. [Next]_vars => [AllianceNext]_allianceVars
  BY DEF Next, vars, AllianceStep, Check_tag, TogglePause, Transfer_tag
<1> QED BY <1>1, <1>2, PTL DEF Spec, AllianceSpec

LEMMA CheckTagInv ==
    ASSUME AllianceTypeOK, TagInv, Check_tag
    PROVE  TagInv'
<1>1. Present' = Present
  BY DEF Check_tag, allianceVars, players, Present
<1>2. CASE Candidates = {}
  BY <1>2 DEF Check_tag, TagInv, TagSound
<1>3. CASE Candidates # {}
  <2>1. PICK table \in SetToSeqs(Present), start \in Starts :
          tagItPlayerId' = Search(table, start) /\ asserted' = (tagItPlayerId' = NO_ID)
    BY <1>3 DEF Check_tag
  <2>2. tagItPlayerId' \in Present /\ tagItPlayerId' \in Ids /\ tagItPlayerId' # NO_ID
    BY <2>1, SearchFinds, AllianceAssumption DEF Candidates, Present
  <2> QED BY <1>1, <2>1, <2>2 DEF TagInv, TagSound
<1> QED BY <1>2, <1>3

LEMMA TagStep == AllianceTypeOK /\ TagInv /\ [Next]_vars => TagInv'
<1> SUFFICES ASSUME AllianceTypeOK, TagInv, [Next]_vars PROVE TagInv'
  OBVIOUS
<1>1. CASE AllianceStep
  BY <1>1 DEF AllianceStep, TagInv, TagSound, Present
<1>2. CASE Check_tag
  BY <1>2, CheckTagInv
<1>3. ASSUME NEW p \in Ids, TogglePause(p) PROVE TagInv'
  BY <1>3 DEF TogglePause, TagInv, TagSound, Present, allianceVars, players
<1>4. ASSUME NEW p \in Ids, NEW q \in Ids, Transfer_tag(p, q) PROVE TagInv'
  BY <1>4 DEF Transfer_tag, TagInv, TagSound, Present, allianceVars, players
<1>5. CASE UNCHANGED vars
  BY <1>5 DEF vars, TagInv, TagSound, Present, allianceVars, players
<1> QED BY <1>1, <1>2, <1>3, <1>4, <1>5 DEF Next

LEMMA TagAlways == Spec => [](AllianceTypeOK /\ TagInv)
<1>1. Init => TagInv
  BY DEF Init, TagInv, TagSound
<1>2. Inv => AllianceTypeOK
  BY DEF Inv
<1> QED BY <1>1, <1>2, TagStep, TagUsesAlliance, InvAlways, PTL DEF Spec

\* Whoever is 'it' is in the game: nobody inherits the tag with the identifier
\* of one who left (player.c:1345).
THEOREM TagHolderPresent == Spec => []TagSound
<1>1. TagInv => TagSound
  BY DEF TagInv
<1> QED BY <1>1, TagAlways, PTL

\* For every number of players, in every order of the table and from every
\* place where it may begin, the search of Check_tag finds somebody who may have
\* the tag on its way up: below its start there are fewer places than players
\* who may have it.  The assertion behind it never fails (tag.c:76-96).
THEOREM SearchAlwaysFinds == Spec => []SearchFindsPlayer
<1>1. AllianceTypeOK /\ TagInv => SearchFindsPlayer
  BY SearchFinds DEF TagInv, SearchFindsPlayer
<1> QED BY <1>1, TagAlways, PTL
=============================================================================

-------------------------------- MODULE Tag --------------------------------
(***************************************************************************)
(* The game of tag (src/server/tag.c): one player is 'it', who kills him   *)
(* becomes 'it', and every frame checks that somebody is.  The players are *)
(* those of Alliance.                                                      *)
(***************************************************************************)
EXTENDS Alliance, SequencesExt

VARIABLES
    tagItPlayerId,
    paused,         \* the players in PL_STATE_PAUSED
    asserted        \* the assertion of Check_tag has failed

vars == <<allianceVars, tagItPlayerId, paused, asserted>>

Init ==
    /\ AllianceInit
    /\ tagItPlayerId = NO_ID /\ paused = {} /\ asserted = FALSE

Player_can_be_tagged(p) == kind[p] # "tank" /\ p \notin paused

\* Mutant: the tag is not taken away.
AllianceStep_KeepsTag ==
    /\ ~asserted /\ AllianceNext
    /\ paused' = {p \in paused : kind'[p] # "none"}
    /\ UNCHANGED <<tagItPlayerId, asserted>>
\* A step of Alliance; Delete_player takes the tag from the one who leaves.
AllianceStep ==
    /\ ~asserted /\ AllianceNext
    /\ tagItPlayerId' = IF tagItPlayerId \in Ids /\ kind'[tagItPlayerId] = "none"
                        THEN NO_ID ELSE tagItPlayerId
    /\ paused' = {p \in paused : kind'[p] # "none"}
    /\ UNCHANGED asserted

TogglePause(p) ==
    /\ Idle /\ ~asserted /\ game.tagGame /\ p \in Humans
    /\ paused' = IF p \in paused THEN paused \ {p} ELSE paused \cup {p}
    /\ UNCHANGED <<allianceVars, tagItPlayerId, asserted>>

\* Whoever kills 'it', or shoves 'it' into a wall, gets the tag.  His shot may
\* have been under way since before he paused.
Transfer_tag(killer, victim) ==
    /\ Idle /\ ~asserted /\ game.tagGame
    /\ killer \in Present \ {victim} /\ victim \in Present \ paused
    /\ tagItPlayerId = victim
    /\ tagItPlayerId' = killer
    /\ UNCHANGED <<allianceVars, paused, asserted>>

Candidates == {p \in Present : Player_can_be_tagged(p)}
\* Mutant: any place of the table.
Starts_AnyPlace == 1 .. Cardinality(Present)
\* The random places where the search may begin, counted from 1: below the
\* number of candidates.
Starts == 1 .. Cardinality(Candidates)

\* Up from the start, and from the bottom when nobody is tagged; table is
\* PlayersArray.
Search(table, start) ==
    LET up == {i \in start .. Len(table) : Player_can_be_tagged(table[i])}
        again == {i \in 1 .. start - 1 : Player_can_be_tagged(table[i])}
    IN  IF up # {} THEN table[Min(up)]
        ELSE IF tagItPlayerId = NO_ID /\ again # {} THEN table[Min(again)]
        ELSE tagItPlayerId

NeedsTag == game.tagGame /\ ~(tagItPlayerId \in Present /\ Player_can_be_tagged(tagItPlayerId))

Check_tag ==
    /\ Idle /\ ~asserted /\ NeedsTag
    /\ IF Candidates = {} THEN tagItPlayerId' = NO_ID /\ UNCHANGED asserted
       ELSE \E table \in SetToSeqs(Present), start \in Starts :
               /\ tagItPlayerId' = Search(table, start)
               /\ asserted' = (tagItPlayerId' = NO_ID)
    /\ UNCHANGED <<allianceVars, paused>>

Next ==
    \/ AllianceStep \/ Check_tag
    \/ \E p \in Ids : TogglePause(p)
    \/ \E p, q \in Ids : Transfer_tag(p, q)

Spec == Init /\ [][Next]_vars

-----------------------------------------------------------------------------
(* Properties.                                                             *)

\* The tag never outlives its holder: an identifier that is used again does not
\* make a newcomer 'it' (player.c:1345).
TagSound == tagItPlayerId # NO_ID => tagItPlayerId \in Present

\* When the tag is with nobody, or with somebody who has paused or is a tank,
\* the search of Check_tag ends with a player who may have it, wherever it
\* begins: it starts again at the bottom only when nobody was tagged before, and
\* the assertion behind it would not notice a tag that stays where it was
\* (tag.c:76-96).
SearchFindsPlayer ==
    /\ ~asserted
    /\ NeedsTag => \A table \in SetToSeqs(Present), start \in Starts :
                      Search(table, start) \in Candidates
=============================================================================

------------------------------ MODULE LaneWar ------------------------------
(***************************************************************************)
(* What a match on the lane promises its players, whatever the heroes do:  *)
(* the battle zone moves one zone per push, every push costs a wave        *)
(* counter, lives are only lost, and the game ends once, for the team that *)
(* wins the last push, reaches the other throne or empties the other's     *)
(* lives.  One move of a player may set off two pushes: the one its attack *)
(* causes, and the one of the minion battle if it ends the round.          *)
(***************************************************************************)
EXTENDS Integers

CONSTANTS
    Zones,   \* how many zones the lane has
    Waves, Lives

VARIABLES
    lane,    \* where the battle is, from 1 at the red throne to Zones
    waves, lives, winner

vars == <<lane, waves, lives, winner>>

Teams == {"Red", "Blue"}
Foe(team) == IF team = "Red" THEN "Blue" ELSE "Red"

Init ==
    /\ lane = (Zones + 1) \div 2
    /\ waves = Waves
    /\ lives = [team \in Teams |-> Lives]
    /\ winner = "none"

Match == [lane |-> lane, waves |-> waves, winner |-> winner]

\* A push by a team, in a match that is not over.
Pushed(m, team) ==
    LET next == m.lane + (IF team = "Red" THEN 1 ELSE -1)
        atThrone == next \in {1, Zones}
    IN  IF m.waves = 1 \/ atThrone
        THEN [m EXCEPT !.waves = @ - 1, !.winner = team]
        ELSE [m EXCEPT !.waves = @ - 1, !.lane = next]

Push ==
    /\ winner = "none"
    /\ \E first, second \in Teams :
         LET once == Pushed(Match, first) IN
           Match' \in {once, IF once.winner = "none" THEN Pushed(once, second) ELSE once}
    /\ UNCHANGED lives

Fall ==
    /\ winner = "none"
    /\ \E team \in Teams, left \in 0..Lives :
         /\ left < lives[team]
         /\ lives' = [lives EXCEPT ![team] = left]
         /\ IF left = 0
            THEN winner' = Foe(team) /\ UNCHANGED <<lane, waves>>
            ELSE \/ UNCHANGED <<lane, waves, winner>>
                 \/ \E w \in Teams : Match' = Pushed(Match, w)

Next == Push \/ Fall

Spec == Init /\ [][Next]_vars
=============================================================================

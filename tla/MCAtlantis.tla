----------------------------- MODULE MCAtlantis -----------------------------
(***************************************************************************)
(* TLC instances of the atlantis engine: a lane of five zones on two rows  *)
(* of hexes, three heroes with a card or two each.                         *)
(***************************************************************************)
EXTENDS Atlantis, TLC

\* One column of hexes for each throne and outpost, two for the middle.
Columns == <<"A", "B", "C", "C", "D", "E">>
MCHexes == ((1..6) \X (0..1)) \union ((2..5) \X {-1})
MCZoneOf == [h \in MCHexes |-> Columns[h[1]]]
MCLane == <<"A", "B", "C", "D", "E">>
MCHeroSpawns == [Red |-> {<<1, 0>>, <<1, 1>>}, Blue |-> {<<6, 0>>}]
Minion(team, kind, q, r) == [team |-> team, kind |-> kind, home |-> <<q, r>>]
MCSpawns == {
    Minion("Red", "Melee", 3, 0), Minion("Red", "Ranged", 3, -1),
    Minion("Blue", "Melee", 4, 0), Minion("Blue", "Heavy", 4, 1),
    Minion("Red", "Melee", 2, 0), Minion("Blue", "Melee", 2, 1),
    Minion("Red", "Melee", 5, 0), Minion("Blue", "Melee", 5, 1)}

Card(color, tier, initiative, attack, defense, move, reach, item) ==
    [color |-> color, tier |-> tier, initiative |-> initiative, attack |-> attack,
     defense |-> defense, move |-> move, reach |-> reach, item |-> item]

\* A fighter moves and attacks from afar; a guard stands where it spawned.
MCCatalog == [
    gold   |-> Card("Gold", None, 2, None, 2, None, None, None),
    blade1 |-> Card("Red", 1, 2, 3, None, 1, 4, None),
    blade2 |-> Card("Red", 2, 2, 4, 2, 1, 4, "Attack"),
    blade3 |-> Card("Red", 2, 3, 4, 2, 1, 4, "Initiative"),
    guard1 |-> Card("Red", 1, 2, 3, 3, None, 2, None),
    guard2 |-> Card("Red", 2, 2, 4, 3, None, 2, "Defense"),
    guard3 |-> Card("Red", 2, 3, 4, 2, None, 2, "Range"),
    ultra  |-> Card("Purple", 4, 0, None, None, None, None, None)]
Fighter == {"gold", "blade1", "blade2", "blade3", "ultra"}
Guard == {"gold", "guard1", "guard2", "guard3", "ultra"}

MCTeam == <<"Red", "Blue", "Red">>
MCDeck == <<Fighter, Guard, Guard>>
=============================================================================

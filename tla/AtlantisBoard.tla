--------------------------- MODULE AtlantisBoard ---------------------------
(***************************************************************************)
(* The board of the atlantis engine: hexes in axial coordinates, grouped   *)
(* into zones, some of them terrain, some of them spawn points.  The lane  *)
(* is the sequence of zones from the red throne to the blue one.           *)
(***************************************************************************)
EXTENDS Integers, Sequences, SequencesExt, FiniteSets, FiniteSetsExt

CONSTANTS
    Hexes,      \* the spaces of the board, as <<q, r>>
    ZoneOf,     \* the zone of each space
    Terrain,    \* the spaces nothing can stand on
    Lane,       \* the zones on the lane, red throne first
    HeroSpawns, \* the hero spawn points of each team
    Spawns      \* minion spawn points: [team, kind, home]

Teams == {"Red", "Blue"}
Opponent(team) == IF team = "Red" THEN "Blue" ELSE "Red"
Throne(team) == IF team = "Red" THEN Head(Lane) ELSE Last(Lane)

Zones == {ZoneOf[h] : h \in Hexes}
SpacesIn(zone) == {h \in Hexes : ZoneOf[h] = zone}

Directions == {<<1, 0>>, <<1, -1>>, <<0, -1>>, <<-1, 0>>, <<-1, 1>>, <<0, 1>>}
Neighbors(h) == {<<h[1] + d[1], h[2] + d[2]>> : d \in Directions}

\* Steps between two hexes, obstacles ignored.
Distance(h, k) ==
    LET Abs(n) == IF n < 0 THEN -n ELSE n
        dq == h[1] - k[1]
        dr == h[2] - k[2]
    IN  (Abs(dq) + Abs(dr) + Abs(dq + dr)) \div 2

\* The order of a BTreeMap over hexes.
HexLess(h, k) == h[1] < k[1] \/ (h[1] = k[1] /\ h[2] < k[2])

\* The n-th of a set of hexes in that order.
Nth(S, n) == CHOOSE h \in S : Cardinality({k \in S : HexLess(k, h)}) = n - 1

\* The minion spawn points of a zone; a space is at most one spawn point.
Homes(zone) == {h \in SpacesIn(zone) : \E s \in Spawns : s.home = h}
SpawnAt(h) == CHOOSE s \in Spawns : s.home = h

\* At least two pairs of spaces that are not terrain touch across the border.
ZonesAdjacent(a, b) ==
    /\ a # b
    /\ Cardinality({border \in (SpacesIn(a) \ Terrain) \X (SpacesIn(b) \ Terrain) :
                      border[2] \in Neighbors(border[1])}) >= 2

\* Every space at most `steps` moves away through spaces that are not blocked.
Reachable(blocked, from, steps) ==
    LET ring[n \in 0..steps] ==
          IF n = 0 THEN {from}
          ELSE ring[n - 1] \union
                 ((Hexes \intersect UNION {Neighbors(h) : h \in ring[n - 1]}) \ blocked)
    IN  ring[steps] \ {from}

\* Board::parse refuses a lane that does not run from throne to throne, Game::new
\* one without a middle; the spawn points are on the board.  Between the thrones every
\* zone of the lane is printed with minions of both teams.
ASSUME BoardAssumption ==
    /\ Hexes \subseteq Int \X Int /\ IsFiniteSet(Hexes)
    /\ ZoneOf \in [Hexes -> Zones] /\ Terrain \subseteq Hexes
    /\ Lane \in Seq(Zones) /\ Len(Lane) % 2 = 1 /\ Len(Lane) >= 3
    /\ \A i, j \in 1..Len(Lane) : Lane[i] = Lane[j] => i = j
    /\ \A team \in Teams : HeroSpawns[team] \subseteq SpacesIn(Throne(team)) \ Terrain
    /\ \A s \in Spawns : /\ s.home \in Hexes \ Terrain /\ s.team \in Teams
                          /\ s.kind \in {"Melee", "Ranged", "Heavy"}
    /\ \A s, t \in Spawns : s.home = t.home => s = t
    /\ \A i \in 2..(Len(Lane) - 1), team \in Teams :
         \E s \in Spawns : s.team = team /\ ZoneOf[s.home] = Lane[i]
=============================================================================

--------------------------- MODULE AtlantisRules ---------------------------
(***************************************************************************)
(* What the atlantis engine does to a game: combat, the turn machine and   *)
(* the end of a round.  The engine is one struct and methods that take     *)
(* `&mut self` and call one another; here a game is a record g and each    *)
(* method an operator from games to games.                                 *)
(***************************************************************************)
EXTENDS AtlantisBoard

CONSTANTS
    Seats,          \* the number of players
    Team,           \* the team of each player
    Catalog,        \* the cards: [color, tier, initiative, attack, defense, move, reach, item]
    Deck,           \* each player's cards; handicapped and extra basics, which never leave
                    \* the box, are left out
    TurnsPerRound, MaxLevel,
    None,           \* no card, no value on a card, no attacker
    Nowhere         \* the hex of a hero that waits to respawn

Players == 1..Seats

Basic(c) == Catalog[c].color \in {"Gold", "Silver"}
Purple(c) == Catalog[c].color = "Purple"
Starts(c) == Basic(c) \/ Catalog[c].tier = 1

\* Coins are a u8; the release build of the browser engine wraps.
U8(n) == n % 256

\* Cards have an initiative, some a number of steps, and those that are not basic a tier; a deck has one
\* ultimate, one card of each colour in tier I and two in every tier above; the levels
\* below the last are one per upgrade the starting hand can go through (card.rs, the
\* test every_deck_has_the_standard_shape).
ASSUME CatalogAssumption ==
    /\ Seats \in Nat \ {0} /\ TurnsPerRound \in Nat \ {0} /\ MaxLevel \in Nat \ {0}
    /\ Team \in [Players -> Teams] /\ Nowhere \notin Hexes
    /\ \A p \in Players :
         /\ IsFiniteSet(Deck[p]) /\ None \notin Deck[p]
         /\ \E c \in Deck[p] : \A d \in Deck[p] : Purple(d) <=> d = c
         /\ \A c \in Deck[p] : /\ Catalog[c].initiative \in Nat
                               /\ Catalog[c].move \in Nat \union {None}
                               /\ Basic(c) \/ Catalog[c].tier \in Nat \ {0}
    /\ \A p \in Players :
         LET colors == {Catalog[c].color : c \in {d \in Deck[p] : Catalog[d].tier = 1}}
             tiers == {Catalog[c].tier : c \in {d \in Deck[p] : Catalog[d].color \in colors}}
         IN  /\ tiers = 1..Cardinality(tiers) /\ {"Gold", "Silver", "Purple"} \intersect colors = {}
             /\ \A color \in colors, tier \in tiers :
                  Cardinality({c \in Deck[p] : Catalog[c].color = color /\ Catalog[c].tier = tier})
                    = IF tier = 1 THEN 1 ELSE 2
             /\ MaxLevel - 2 = Cardinality(colors) * (Cardinality(tiers) - 1)

-----------------------------------------------------------------------------
(* Queries *)

IsOver(g) == g.phase.type = "GameOver"
Panicked(g) == g.phase.type = "Panic"
Over(g, winner, reason) ==
    [g EXCEPT !.phase = [type |-> "GameOver", winner |-> winner, reason |-> reason]]

\* An `expect`, an `unwrap` or an overflow check that fails ends the game.
Expect(holds, g, next) == IF holds THEN next ELSE [g EXCEPT !.phase = [type |-> "Panic"]]

Obstacles(g) ==
    Terrain \union {m.at : m \in g.minions} \union ({g.hero[p] : p \in Players} \ {Nowhere})

EmptySpaces(g, zone) == SpacesIn(zone) \ Obstacles(g)

MinionsOf(g, team) ==
    {m \in g.minions : m.team = team /\ ZoneOf[m.at] = Lane[g.lane]}

\* A heavy minion is a target like any other.
MUT_Immune(g, m) == FALSE

\* A heavy minion is immune while a friendly one that is not heavy stands.
Immune(g, m) == m.kind = "Heavy" /\ \E n \in MinionsOf(g, m.team) : n.kind # "Heavy"

ItemBonus(g, p, icon) == Cardinality({c \in g.items[p] : Catalog[c].item = icon})

Initiative(g, p) ==
    IF g.played[p] = None THEN 0
    ELSE Catalog[g.played[p]].initiative + ItemBonus(g, p, "Initiative")

Owned(g, p) ==
    g.hand[p] \union ({g.played[p]} \ {None}) \union g.resolved[p] \union g.discard[p]

LowestTier(g, p) ==
    LET tiers == {Catalog[c].tier : c \in {d \in Owned(g, p) : ~Basic(d)}}
    IN  IF tiers = {} THEN 1 ELSE Min(tiers)

ZoneHasEnemies(g, zone, team) ==
    \/ \E m \in g.minions : m.team # team /\ ZoneOf[m.at] = zone
    \/ \E p \in Players : Team[p] # team /\ g.hero[p] # Nowhere /\ ZoneOf[g.hero[p]] = zone

\* Any empty space of the hero's zone or an adjacent one, if neither has enemies.
FastTravelTargets(g, from, team) ==
    LET here == ZoneOf[from]
        open == {z \in Zones : (z = here \/ ZonesAdjacent(here, z)) /\ ~ZoneHasEnemies(g, z, team)}
    IN  IF here \notin open THEN {} ELSE (UNION {EmptySpaces(g, z) : z \in open}) \ {from}

\* The team's empty hero spawn points, or else the empty spaces of the throne
\* next to one.
RespawnSpaces(g, team) ==
    LET free == HeroSpawns[team] \ Obstacles(g)
    IN  IF free # {} THEN free
        ELSE EmptySpaces(g, Throne(team)) \intersect UNION {Neighbors(h) : h \in HeroSpawns[team]}

\* Friendly melee and heavy minions next to the hero add one, enemy ones and
\* enemy ranged ones within two spaces take one.
DefenseModifiers(g, p) ==
    LET Count(friend, kinds, reach) ==
          Cardinality({m \in g.minions : /\ (m.team = Team[p]) = friend
                                         /\ m.kind \in kinds
                                         /\ Distance(g.hero[p], m.at) \in 1..reach})
    IN  Count(TRUE, {"Melee", "Heavy"}, 1) - Count(FALSE, {"Melee", "Heavy"}, 1)
          - Count(FALSE, {"Ranged"}, 2)

-----------------------------------------------------------------------------
(* The lane *)

\* The nearest of the spaces that are free, the first of them in a tie.
Nearer(from, h, k) == \/ Distance(from, h) < Distance(from, k)
                      \/ Distance(from, h) = Distance(from, k) /\ HexLess(h, k)
Nearest(from, free) == CHOOSE h \in free : \A k \in free : h = k \/ Nearer(from, h, k)

\* One minion per spawn point of the battle zone, in the order of the board; a
\* minion whose spawn point is taken goes to the nearest empty space.
Respawned(g) ==
    LET zone == Lane[g.lane]
        homes == Homes(zone)
        Added(minions, s) ==
          LET free == EmptySpaces(g, zone) \ {m.at : m \in minions}
          IN  IF free = {} THEN minions
              ELSE minions \union {[team |-> s.team, kind |-> s.kind, home |-> s.home,
                                    at |-> Nearest(s.home, free)]}
        upTo[i \in 0..Cardinality(homes)] ==
          IF i = 0 THEN {} ELSE Added(upTo[i - 1], SpawnAt(Nth(homes, i)))
    IN  upTo[Cardinality(homes)]
RespawnMinions(g) == [g EXCEPT !.minions = @ \union Respawned(g)]

\* The minions left in the old zone stay on the board.
MUT_PushLane_Leftovers(g, winner) ==
    LET left == [g EXCEPT !.waves = @ - 1]
        lane == g.lane + (IF winner = "Red" THEN 1 ELSE -1)
    IN  Expect(g.waves > 0, g,
          IF left.waves = 0 THEN Over(left, winner, "won the last push")
          ELSE Expect(lane \in 1..Len(Lane), g,
                 IF Lane[lane] = Throne(Opponent(winner)) THEN Over(left, winner, "captured the throne")
                 ELSE RespawnMinions([left EXCEPT !.lane = lane])))

\* The last push is looked for before its wave counter is taken.
MUT_PushLane_Waves(g, winner) ==
    LET left == [g EXCEPT !.waves = @ - 1]
        lane == g.lane + (IF winner = "Red" THEN 1 ELSE -1)
        stay == {m \in g.minions : ZoneOf[m.at] # Lane[g.lane]}
    IN  IF g.waves = 0 THEN Over(g, winner, "won the last push")
        ELSE Expect(lane \in 1..Len(Lane), g,
               IF Lane[lane] = Throne(Opponent(winner)) THEN Over(left, winner, "captured the throne")
               ELSE RespawnMinions([left EXCEPT !.minions = stay, !.lane = lane]))

\* The battle zone moves one zone towards the loser's throne, unless the last
\* wave counter or the throne itself ends the game.
PushLane(g, winner) ==
    LET left == [g EXCEPT !.waves = @ - 1]
        lane == g.lane + (IF winner = "Red" THEN 1 ELSE -1)
        stay == {m \in g.minions : ZoneOf[m.at] # Lane[g.lane]}
    IN  Expect(g.waves > 0, g,
          IF left.waves = 0 THEN Over(left, winner, "won the last push")
          ELSE Expect(lane \in 1..Len(Lane), g,
                 IF Lane[lane] = Throne(Opponent(winner)) THEN Over(left, winner, "captured the throne")
                 ELSE RespawnMinions([left EXCEPT !.minions = stay, !.lane = lane])))

Bounty(kind) == IF kind = "Heavy" THEN 4 ELSE 2

DefeatMinion(g, m, attacker) ==
    LET paid == IF attacker = None THEN g
                ELSE [g EXCEPT !.coins[attacker] = U8(@ + Bounty(m.kind))]
        gone == [paid EXCEPT !.minions = @ \ {m}]
    IN  Expect(m \in g.minions, g,
          IF MinionsOf(gone, m.team) = {} THEN PushLane(gone, Opponent(m.team)) ELSE gone)

\* The order in which the minions of a side fall in a battle.
FallsBefore(m, n) ==
    LET Rank(k) == CASE k = "Melee" -> 0 [] k = "Ranged" -> 1 [] OTHER -> 2
    IN  \/ Rank(m.kind) < Rank(n.kind)
        \/ Rank(m.kind) = Rank(n.kind) /\ HexLess(m.home, n.home)

\* The outnumbered side loses the difference, melee first and heavy last; no
\* more can fall than it has, and the last one pushes the lane.
MinionBattle(g) ==
    LET count == [team \in Teams |-> Cardinality(MinionsOf(g, team))]
        loser == IF count["Red"] < count["Blue"] THEN "Red" ELSE "Blue"
        diff == count[Opponent(loser)] - count[loser]
        losers == MinionsOf(g, loser)
        fallen == {m \in losers : Cardinality({n \in losers : FallsBefore(n, m)}) < diff}
        gone == [g EXCEPT !.minions = @ \ fallen]
    IN  IF fallen # {} /\ MinionsOf(gone, loser) = {} THEN PushLane(gone, Opponent(loser))
        ELSE gone

-----------------------------------------------------------------------------
(* Levels *)

\* Every level the coins allow is bought; going from level l - 1 to l costs l - 1.
Price(from, to) == (to * (to - 1) - from * (from - 1)) \div 2
LevelFor(g, p) == Max({l \in g.level[p]..MaxLevel : Price(g.level[p], l) <= g.coins[p]})

\* The last level owes an upgrade as well.
MUT_UpgradesFor(g, p) == LevelFor(g, p) - g.level[p]

\* Each level but the last owes an upgrade; the last unlocks the ultimate.
UpgradesFor(g, p) == Min({LevelFor(g, p), MaxLevel - 1}) - Min({g.level[p], MaxLevel - 1})
UltimateFor(g, p) ==
    IF g.level[p] < MaxLevel /\ LevelFor(g, p) = MaxLevel THEN {c \in g.deck[p] : Purple(c)} ELSE {}

\* Level-ups are owed in the order of the seats; the list is empty when a round ends,
\* so what it says is how many each player is owed.
BuyLevelUps(g) ==
    [g EXCEPT !.coins = [p \in Players |-> @[p] - Price(g.level[p], LevelFor(g, p))],
              !.level = [p \in Players |-> LevelFor(g, p)],
              !.leveled = [p \in Players |-> @[p] \/ LevelFor(g, p) > g.level[p]],
              !.owed = [p \in Players |-> @[p] + UpgradesFor(g, p)],
              !.deck = [p \in Players |-> @[p] \ UltimateFor(g, p)],
              !.ultimate = [p \in Players |-> @[p] \union UltimateFor(g, p)]]

\* Pity coins, then a new round.
FinishRound(g) ==
    [g EXCEPT !.coins = [p \in Players |-> IF g.leveled[p] THEN @[p] ELSE U8(@[p] + 1)],
              !.leveled = [p \in Players |-> FALSE],
              !.round = @ + 1,
              !.turn = 1,
              !.phase = [type |-> "Play"]]

ContinueLevelUps(g) ==
    LET owing == {p \in Players : g.owed[p] > 0}
    IN  IF Panicked(g) THEN g
        ELSE IF owing = {} THEN FinishRound(g)
        ELSE [g EXCEPT !.phase = [type |-> "LevelUp", player |-> Min(owing)]]

\* The lowest tier in hand, each card against the two of the next in the deck.
UpgradeChoices(g, p) ==
    LET tiered == {c \in g.hand[p] : ~Basic(c)}
        lowest == Min({Catalog[c].tier : c \in tiered})
    IN  {choice \in tiered \X g.deck[p] :
           /\ Catalog[choice[1]].tier = lowest
           /\ Catalog[choice[2]].color = Catalog[choice[1]].color
           /\ Catalog[choice[2]].tier = lowest + 1}

\* The card that comes into the hand replaces no other.
MUT_UpgradeCard(g, p, out, take) ==
    LET siblings == {c \in g.deck[p] \ {take} : /\ Catalog[c].color = Catalog[take].color
                                               /\ Catalog[c].tier = Catalog[take].tier}
        sibling == CHOOSE c \in siblings : TRUE
    IN  Expect(siblings # {}, g,
          [g EXCEPT !.hand[p] = @ \union {take},
                    !.deck[p] = @ \ {take, sibling},
                    !.items[p] = @ \union {sibling},
                    !.owed[p] = @ - 1])

\* `out` goes back to the deck, `take` comes into the hand and its sibling
\* becomes an item.
UpgradeCard(g, p, out, take) ==
    LET siblings == {c \in g.deck[p] \ {take} : /\ Catalog[c].color = Catalog[take].color
                                               /\ Catalog[c].tier = Catalog[take].tier}
        sibling == CHOOSE c \in siblings : TRUE
    IN  Expect(siblings # {}, g,
          [g EXCEPT !.hand[p] = (@ \ {out}) \union {take},
                    !.deck[p] = (@ \union {out}) \ {take, sibling},
                    !.items[p] = @ \union {sibling},
                    !.owed[p] = @ - 1])

-----------------------------------------------------------------------------
(* The turn machine *)

Retrieve(g) ==
    [g EXCEPT !.hand = [p \in Players |-> @[p] \union g.resolved[p] \union g.discard[p]],
              !.resolved = [p \in Players |-> {}],
              !.discard = [p \in Players |-> {}]]

EndRound(g) ==
    LET battle == MinionBattle(g)
    IN  IF IsOver(battle) \/ Panicked(battle) THEN battle
        ELSE ContinueLevelUps(BuyLevelUps(Retrieve(battle)))

\* One turn more than a round has.
MUT_EndTurn(g) ==
    LET cleared == [g EXCEPT !.passed = [p \in Players |-> FALSE]]
    IN  IF g.turn > TurnsPerRound THEN EndRound(cleared)
        ELSE [cleared EXCEPT !.turn = @ + 1, !.phase = [type |-> "Play"]]

EndTurn(g) ==
    LET cleared == [g EXCEPT !.passed = [p \in Players |-> FALSE]]
    IN  IF g.turn = TurnsPerRound THEN EndRound(cleared)
        ELSE [cleared EXCEPT !.turn = @ + 1, !.phase = [type |-> "Play"]]

\* Highest unresolved initiative acts next; the coin decides a tie across
\* teams, and flips once its player has acted; a tie within a team is a choice.
NextActor(g) ==
    LET unresolved == {p \in Players : g.played[p] # None}
        tied == {p \in unresolved : \A q \in unresolved : Initiative(g, p) >= Initiative(g, q)}
        oneTeam == \A p, q \in tied : Team[p] = Team[q]
        candidates == IF oneTeam THEN tied ELSE {p \in tied : Team[p] = g.coin}
        asked == [g EXCEPT !.flip = @ \/ ~oneTeam]
    IN  IF IsOver(g) \/ Panicked(g) THEN g
        ELSE IF unresolved = {} THEN EndTurn(g)
        ELSE IF Cardinality(candidates) = 1
        THEN [asked EXCEPT !.phase = [type |-> "Act", player |-> CHOOSE p \in candidates : TRUE]]
        ELSE [asked EXCEPT !.phase = [type |-> "ChooseActor", candidates |-> candidates]]

AfterPlay(g) ==
    IF \A p \in Players : g.played[p] # None \/ g.passed[p] THEN NextActor(g) ELSE g

\* A played card is resolved, if there is one.
Resolve(g, p) ==
    [g EXCEPT !.resolved[p] = @ \union ({g.played[p]} \ {None}), !.played[p] = None]

\* The coin flips and stays due to flip.
MUT_FinishAction(g, p) ==
    LET resolved == Resolve(g, p)
    IN  NextActor(IF g.flip THEN [resolved EXCEPT !.coin = Opponent(@)] ELSE resolved)

FinishAction(g, p) ==
    LET resolved == Resolve(g, p)
    IN  NextActor(IF g.flip THEN [resolved EXCEPT !.flip = FALSE, !.coin = Opponent(@)]
                  ELSE resolved)

-----------------------------------------------------------------------------
(* Combat *)

AssistCoins(level) == CASE level <= 3 -> 1 [] level \in 4..6 -> 2 [] OTHER -> 3

\* The hero leaves the board, its card resolved; the attackers are paid and the
\* defenders spend lives.
DefeatHero(g, defender, attacker) ==
    LET fallen == Resolve([g EXCEPT !.hero[defender] = Nowhere], defender)
        level == g.level[defender]
        Pay(p) == IF p = attacker THEN level
                  ELSE IF Team[p] = Team[attacker] THEN AssistCoins(level) ELSE 0
        lives == Max({0, g.lives[Team[defender]] - LowestTier(fallen, defender)})
        paid == [fallen EXCEPT !.coins = [p \in Players |-> U8(@[p] + Pay(p))],
                               !.lives[Team[defender]] = lives]
    IN  IF lives = 0 THEN Over(paid, Team[attacker], "no lives left") ELSE paid

ResolveDefense(g, defender, card) ==
    LET attacker == g.phase.attacker
        spent == IF card = None THEN g
                 ELSE [g EXCEPT !.hand[defender] = @ \ {card}, !.discard[defender] = @ \union {card}]
        total == Max({0, Catalog[card].defense + ItemBonus(g, defender, "Defense")
                           + DefenseModifiers(g, defender)})
        holds == card # None /\ total >= g.phase.total
        after == IF holds THEN spent ELSE DefeatHero(spent, defender, attacker)
    IN  Expect(card # None => g.hero[defender] # Nowhere, g,
          IF IsOver(after) THEN after
          ELSE FinishAction([after EXCEPT !.phase = [type |-> "Act", player |-> attacker]], attacker))
=============================================================================

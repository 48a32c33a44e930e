------------------------------ MODULE Atlantis ------------------------------
(***************************************************************************)
(* The atlantis engine: a board game of rounds and turns, played through   *)
(* Game::apply, which accepts an action only if legal_actions lists it.    *)
(*                                                                         *)
(* There is one action here for each kind of Action; its guard is the part *)
(* of legal_actions that offers it, its effect the arm of apply.           *)
(***************************************************************************)
EXTENDS AtlantisRules

CONSTANTS
    Waves, Lives,  \* the counters of the game's length
    MaxRound       \* the game is followed up to this round

\* The heroes that can leave their throne: those with a card to move with.
Roamers == {p \in Players : \E c \in Deck[p] : Catalog[c].move # None}

\* A zone that can be fought over has room for its minions beside the heroes that
\* can come there; the zones of the printed board have many more spaces.
ASSUME RoomAssumption ==
    \A i \in 2..(Len(Lane) - 1) :
      Cardinality(SpacesIn(Lane[i]) \ Terrain)
        >= Cardinality(Homes(Lane[i])) + Cardinality(Roamers)

\* Game::new refuses more heroes than a throne has spawn points.
Mates(team) == {p \in Players : Team[p] = team}
ASSUME SeatAssumption ==
    \A team \in Teams : Cardinality(Mates(team)) <= Cardinality(HeroSpawns[team])

\* A game starts with wave and life counters (rules.rs).
ASSUME LengthAssumption == Waves \in Nat \ {0} /\ Lives \in Nat \ {0}

VARIABLE game

\* The hands the heroes start with: the basic cards and tier I.
StartingHand(p) == {c \in Deck[p] : Starts(c)}

\* The n-th hero of a team starts on the n-th of its spawn points; blue takes
\* its own last to first.
StartingHex(p) ==
    LET spawns == HeroSpawns[Team[p]]
        seat == Cardinality({q \in Mates(Team[p]) : q <= p})
    IN  Nth(spawns, IF Team[p] = "Red" THEN seat ELSE Cardinality(spawns) + 1 - seat)

\* Game::with_catalog; the seed decides only the side of the coin.
Init ==
    \E coin \in Teams :
      game = RespawnMinions(
        [hero |-> [p \in Players |-> StartingHex(p)], minions |-> {},
         hand |-> [p \in Players |-> StartingHand(p)], played |-> [p \in Players |-> None],
         resolved |-> [p \in Players |-> {}], discard |-> [p \in Players |-> {}],
         deck |-> [p \in Players |-> Deck[p] \ StartingHand(p)],
         items |-> [p \in Players |-> {}], ultimate |-> [p \in Players |-> {}],
         coins |-> [p \in Players |-> 0], level |-> [p \in Players |-> 1],
         passed |-> [p \in Players |-> FALSE], leveled |-> [p \in Players |-> FALSE],
         owed |-> [p \in Players |-> 0], lane |-> (Len(Lane) + 1) \div 2, round |-> 1, turn |-> 1,
         waves |-> Waves, lives |-> [team \in Teams |-> Lives],
         coin |-> coin, flip |-> FALSE, phase |-> [type |-> "Play"]])

-----------------------------------------------------------------------------
(* Play *)

Playing(p) == game.phase.type = "Play" /\ game.played[p] = None /\ ~game.passed[p]

PlayCard(p) ==
    /\ Playing(p)
    /\ \E c \in game.hand[p] :
         game' = AfterPlay([game EXCEPT !.hand[p] = @ \ {c}, !.played[p] = c])

Pass(p) ==
    /\ Playing(p)
    /\ game.hand[p] = {}
    /\ game' = AfterPlay([game EXCEPT !.passed[p] = TRUE])

ChooseActor(p) ==
    /\ game.phase.type = "ChooseActor"
    /\ p \in game.phase.candidates
    /\ game' = [game EXCEPT !.phase = [type |-> "Act", player |-> p]]

-----------------------------------------------------------------------------
(* Act.  Listing a player's actions reads the played card, which must exist. *)

Acting(p) ==
    /\ game.phase.type = "Act"
    /\ game.phase.player = p
    /\ game.played[p] # None

OnBoard(p) == Acting(p) /\ game.hero[p] # Nowhere
Played(p) == Catalog[game.played[p]]
Place(p, h) == [game EXCEPT !.hero[p] = h]

Respawn(p) ==
    /\ Acting(p)
    /\ game.hero[p] = Nowhere
    /\ \E h \in RespawnSpaces(game, Team[p]) : game' = Place(p, h)

\* Moving leaves the action to be taken.
MUT_Move(p) ==
    /\ OnBoard(p)
    /\ Played(p).move # None
    /\ \E h \in Reachable(Obstacles(game), game.hero[p],
                          Played(p).move + ItemBonus(game, p, "Movement")) :
         game' = Place(p, h)

Move(p) ==
    /\ OnBoard(p)
    /\ Played(p).move # None
    /\ \E h \in Reachable(Obstacles(game), game.hero[p],
                          Played(p).move + ItemBonus(game, p, "Movement")) :
         game' = FinishAction(Place(p, h), p)

FastTravel(p) ==
    /\ OnBoard(p)
    /\ Played(p).move # None
    /\ \E h \in FastTravelTargets(game, game.hero[p], Team[p]) :
         game' = FinishAction(Place(p, h), p)

\* Enemies within reach, one space unless the card has a range.
InReach(p, h) ==
    /\ Played(p).attack # None
    /\ h # Nowhere
    /\ Distance(game.hero[p], h) <= IF Played(p).reach = None THEN 1
                                    ELSE Played(p).reach + ItemBonus(game, p, "Range")

AttackMinion(p) ==
    /\ OnBoard(p)
    /\ \E m \in game.minions :
         /\ m.team # Team[p]
         /\ InReach(p, m.at)
         /\ ~Immune(game, m)
         /\ game' = FinishAction(DefeatMinion(game, m, p), p)

\* The hero attacked decides first; the attacker's action is not finished.
AttackHero(p) ==
    /\ OnBoard(p)
    /\ \E q \in Players :
         /\ Team[q] # Team[p]
         /\ InReach(p, game.hero[q])
         /\ game' = [game EXCEPT !.phase =
              [type |-> "Defend", attacker |-> p, defender |-> q,
               total |-> Played(p).attack + ItemBonus(game, p, "Attack")]]

\* Holding, and a skill, whose text the engine does not apply.
Hold(p) == Acting(p) /\ game' = FinishAction(game, p)

-----------------------------------------------------------------------------

Defend(p) ==
    /\ game.phase.type = "Defend"
    /\ game.phase.defender = p
    /\ \E card \in {c \in game.hand[p] : Catalog[c].defense # None} \union {None} :
         game' = ResolveDefense(game, p, card)

Upgrade(p) ==
    /\ game.phase.type = "LevelUp"
    /\ game.phase.player = p
    /\ \E choice \in UpgradeChoices(game, p) :
         game' = ContinueLevelUps(UpgradeCard(game, p, choice[1], choice[2]))

Act(p) ==
    \/ PlayCard(p) \/ Pass(p) \/ ChooseActor(p)
    \/ Respawn(p) \/ Move(p) \/ FastTravel(p) \/ AttackMinion(p) \/ AttackHero(p) \/ Hold(p)
    \/ Defend(p) \/ Upgrade(p)

InBound == game.round <= MaxRound

\* The game has ended, or is followed no further.
Stop == (IsOver(game) \/ ~InBound) /\ UNCHANGED game

Next == (InBound /\ \E p \in Players : Act(p)) \/ Stop

Spec == Init /\ [][Next]_game

-----------------------------------------------------------------------------
(* Properties *)

Places == Hexes \union {Nowhere}
Actors == CASE game.phase.type = "ChooseActor" -> game.phase.candidates
            [] game.phase.type = "Act" -> {game.phase.player}
            [] game.phase.type = "Defend" -> {game.phase.attacker}
            [] OTHER -> {}

\* The fields of a game keep their types; coins and counters fit a byte.
TypeOK ==
    /\ game.hero \in [Players -> Places]
    /\ \A m \in game.minions : m.team \in Teams /\ m.at \in Hexes \ Terrain
    /\ \A p \in Players : game.coins[p] \in 0..255 /\ game.level[p] \in 1..MaxLevel
    /\ game.owed \in [Players -> 0..(MaxLevel - 2)]
    /\ game.lane \in 1..Len(Lane) /\ game.waves \in 0..Waves
    /\ game.lives \in [Teams -> 0..Lives] /\ game.coin \in Teams
    /\ game.turn \in 1..TurnsPerRound

\* No `expect` of the engine fails, no counter goes below zero, and whoever is
\* asked has something to answer: the one to act has a played card, the hero
\* that defends is on the board, a bought level has a card to take.
NeverStuck ==
    /\ ~Panicked(game)
    /\ game.phase.type = "Play" => \E p \in Players : Playing(p)
    /\ game.phase.type \in {"ChooseActor", "Act", "Defend"} => Actors # {}
    /\ \A p \in Actors : game.played[p] # None
    /\ game.phase.type = "Defend" => game.hero[game.phase.defender] # Nowhere
    /\ game.phase.type = "LevelUp" => UpgradeChoices(game, game.phase.player) # {}

\* Through plays, defenses, defeats, retrievals and upgrades every card of a
\* hero is in exactly one place, and the hero always owns one card of each
\* colour it started with.
CardsAccounted ==
    \A p \in Players :
      LET piles == <<game.hand[p], {game.played[p]} \ {None}, game.resolved[p], game.discard[p],
                     game.deck[p], game.items[p], game.ultimate[p]>>
          Colors(S) == {Catalog[c].color : c \in S}
      IN  /\ \A i, j \in DOMAIN piles : i # j => piles[i] \intersect piles[j] = {}
          /\ UNION {piles[i] : i \in DOMAIN piles} = Deck[p]
          /\ Colors(Owned(game, p)) = Colors(StartingHand(p))
          /\ Cardinality(Owned(game, p)) = Cardinality(StartingHand(p))

\* Every level a hero has bought gave it an item or still owes it one; only the
\* last level gives the ultimate.
LevelsPaidOut ==
    \A p \in Players :
      /\ Cardinality(game.items[p]) + game.owed[p] = Min({game.level[p], MaxLevel - 1}) - 1
      /\ game.ultimate[p] # {} <=> game.level[p] = MaxLevel

\* Whoever acts, or may be chosen to, has the highest initiative of those left.  The
\* coin is due to flip exactly while a player acts who was tied with one of the
\* other team, and that player is on the side the coin shows.
TurnOrder ==
    IF Actors = {} THEN game.flip => IsOver(game)
    ELSE \A p \in Actors :
           LET left == {q \in Players : game.played[q] # None}
               rivals == {q \in left : /\ Team[q] # Team[p]
                                       /\ Initiative(game, q) = Initiative(game, p)}
           IN  /\ \A q \in left : Initiative(game, q) <= Initiative(game, p)
               /\ game.flip <=> rivals # {}
               /\ game.flip => Team[p] = game.coin

\* While the game is on both sides have a minion in the battle zone, no minion is
\* anywhere else, and no two units share a space.
LaneHeld ==
    LET Standing == {p \in Players : game.hero[p] # Nowhere} IN
    /\ ~IsOver(game) => \A team \in Teams : MinionsOf(game, team) # {}
    /\ ~IsOver(game) => \A m \in game.minions : ZoneOf[m.at] = Lane[game.lane]
    /\ \A m, n \in game.minions : m.at = n.at => m = n
    /\ \A p \in Standing : game.hero[p] \notin Terrain \union {m.at : m \in game.minions}
    /\ \A p, q \in Standing : game.hero[p] = game.hero[q] => p = q

\* A heavy minion falls, to an attack or to the minion battle, only when none of
\* its lighter companions is left.  A push takes the minions of the old zone off the
\* board; two in one action can come back to it.
HeavyFallsLast ==
    [][ \A m \in game.minions \ game'.minions :
          m.kind = "Heavy" /\ game'.lane = game.lane /\ game.waves - game'.waves < 2 =>
            \A n \in game'.minions : n.team = m.team => n.kind = "Heavy" ]_game

\* The engine plays the match on the lane that LaneWar promises.
Match == INSTANCE LaneWar WITH
    Zones <- Len(Lane), lane <- game.lane, waves <- game.waves, lives <- game.lives,
    winner <- IF IsOver(game) THEN game.phase.winner ELSE "none"
PlaysLaneWar == Match!Spec

\* An upper bound of the actions left in a round: five for a player that has yet
\* to play, four for a card not resolved (its player is chosen, respawns, attacks
\* and waits for the defense), one for an upgrade still to be bought or made.
StepsLeft(g) ==
    LET undecided == {p \in Players : g.played[p] = None /\ ~g.passed[p]}
        unresolved == {p \in Players : g.played[p] # None}
        levels == {up \in Players \X (1..MaxLevel) : up[2] > g.level[up[1]] - g.owed[up[1]]}
        playing == IF g.phase.type = "Play" THEN 5 * Cardinality(undecided) ELSE 0
        spent == CASE g.phase.type = "Act" -> IF g.hero[g.phase.player] = Nowhere THEN 1 ELSE 2
                   [] g.phase.type = "Defend" -> 3
                   [] OTHER -> 0
    IN  5 * Seats * (TurnsPerRound - g.turn) + playing + 4 * Cardinality(unresolved) - spent
          + Cardinality(levels)

\* Whatever the players do, every action brings the end of the round nearer: they
\* cannot act, defend, respawn and upgrade for ever within one.
RoundsEnd ==
    [][ IsOver(game') \/ game'.round > game.round
          \/ StepsLeft(game') \in 0..(StepsLeft(game) - 1) ]_game
=============================================================================

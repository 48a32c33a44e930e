--------------------------- MODULE AtlantisProofs ---------------------------
(***************************************************************************)
(* Proofs about the atlantis engine, for every board, catalogue and number *)
(* of players.                                                             *)
(***************************************************************************)
EXTENDS Atlantis, FiniteSetTheorems, WellFoundedInduction, TLAPS

-----------------------------------------------------------------------------
(* Sets of numbers *)

\* A set of naturals that is not empty has a least element, and Min is it.
LEMMA MinOfNats ==
    ASSUME NEW S, S \subseteq Nat, S # {}
    PROVE  Min(S) \in S /\ \A n \in S : Min(S) <= n
<1>1. PICK k \in S : k \in Nat
  OBVIOUS
<1> DEFINE B == {n \in S : n <= k}
           Below(s) == {t \in B : t < s}
           T == {Below(s) : s \in B}
<1>2. k \in B /\ B \subseteq Nat /\ IsFiniteSet(B)
  <2>1. k \in B
    BY <1>1
  <2>2. B \subseteq Nat /\ \A s \in B : s <= k
    OBVIOUS
  <2> HIDE DEF B
  <2>3. QED
    BY <2>1, <2>2, <1>1, FS_BoundedSetOfNaturals
<1>3. T \subseteq FiniteSubsetsOf(B) /\ T # {}
  <2>1. \A U \in SUBSET B : IsFiniteSet(U)
    <3> HIDE DEF B
    <3> QED BY <1>2, FS_Subset
  <2>2. \A s \in B : Below(s) \in SUBSET B
    OBVIOUS
  <2> HIDE DEF Below, B
  <2>3. QED
    BY <1>2, <2>1, <2>2 DEF FiniteSubsetsOf
<1>4. PICK x \in T : \A y \in T : ~(<<y, x>> \in StrictSubsetOrdering(B))
  <2> HIDE DEF T, B
  <2> QED BY <1>2, <1>3, FS_StrictSubsetOrderingWellFounded, WFMin
<1>5. PICK m \in B : x = Below(m)
  BY <1>4
<1>6. ASSUME NEW t \in B, t < m PROVE FALSE
  <2>1. Below(t) \in T /\ Below(t) \subseteq x /\ t \in x /\ t \notin Below(t)
    <3>1. Below(t) \in T
      OBVIOUS
    <3>2. \A s \in B : s < t => s < m
      BY <1>2, <1>6
    <3>3. ~(t < t)
      BY <1>2
    <3> HIDE DEF T, B
    <3>4. QED
      BY <1>5, <1>6, <3>1, <3>2, <3>3
  <2>2. <<Below(t), x>> \in StrictSubsetOrdering(B)
    BY <2>1, <1>5 DEF StrictSubsetOrdering
  <2>3. QED
    BY <1>4, <2>1, <2>2
<1>7. m \in S /\ \A n \in S : m <= n
  <2>1. \A n \in B : m <= n
    <3> HIDE DEF B
    <3> QED BY <1>2, <1>6
  <2>2. \A n \in S : n \in B \/ n > k
    BY <1>1
  <2>3. m \in S /\ m <= k
    OBVIOUS
  <2> HIDE DEF B
  <2>4. QED
    BY <1>1, <2>1, <2>2, <2>3
<1>8. QED
  BY <1>7 DEF Min

\* Of finitely many things with a number each, one has the highest.
LEMMA HighestOf ==
    ASSUME NEW S, IsFiniteSet(S), S # {}, NEW f \in [S -> Nat]
    PROVE  \E s \in S : \A t \in S : f[t] <= f[s]
<1> DEFINE Above(s) == {t \in S : f[t] > f[s]}
           T == {Above(s) : s \in S}
<1>1. T \subseteq FiniteSubsetsOf(S) /\ T # {}
  <2>1. \A U \in SUBSET S : IsFiniteSet(U)
    BY FS_Subset
  <2>2. \A s \in S : Above(s) \in SUBSET S
    OBVIOUS
  <2> HIDE DEF Above
  <2>3. QED
    BY <2>1, <2>2 DEF FiniteSubsetsOf
<1>2. PICK x \in T : \A y \in T : ~(<<y, x>> \in StrictSubsetOrdering(S))
  <2> HIDE DEF T
  <2> QED BY <1>1, FS_StrictSubsetOrderingWellFounded, WFMin
<1>3. PICK s \in S : x = Above(s)
  BY <1>2
<1>4. ASSUME NEW t \in S, f[t] > f[s] PROVE FALSE
  <2>1. Above(t) \in T /\ Above(t) \subseteq x /\ t \in x /\ t \notin Above(t)
    <3>1. Above(t) \in T
      OBVIOUS
    <3>2. \A u \in S : f[u] > f[t] => f[u] > f[s]
      BY <1>4
    <3>3. ~(f[t] > f[t])
      OBVIOUS
    <3> HIDE DEF T
    <3>4. QED
      BY <1>3, <1>4, <3>1, <3>2, <3>3
  <2>2. x \subseteq S
    BY <1>3
  <2>3. <<Above(t), x>> \in StrictSubsetOrdering(S)
    <3> HIDE DEF Above, T
    <3> QED BY <2>1, <2>2 DEF StrictSubsetOrdering
  <2>4. QED
    BY <1>2, <2>1, <2>3
<1>5. QED
  BY <1>4

-----------------------------------------------------------------------------
(* Games *)

Fields == {"hero", "minions", "hand", "played", "resolved", "discard", "deck", "items",
           "ultimate", "coins", "level", "passed", "leveled", "owed", "lane", "round",
           "turn", "waves", "lives", "coin", "flip", "phase"}

\* A method that changes only these fields of a game.
Changes(g, h, fields) == DOMAIN h = Fields /\ \A f \in Fields \ fields : h[f] = g[f]

\* The fields the turn machine and the lane depend on keep their types, and no card
\* strays into the hand of a player who does not have it.
Cards == UNION {Deck[p] : p \in Players}
Held(g, p) == g.hand[p] \union g.resolved[p] \union g.discard[p] \union g.items[p]
                \union g.deck[p]
WellMade(g) ==
    /\ DOMAIN g = Fields
    /\ g.hand \in [Players -> SUBSET Cards] /\ g.resolved \in [Players -> SUBSET Cards]
    /\ g.discard \in [Players -> SUBSET Cards] /\ g.items \in [Players -> SUBSET Cards]
    /\ g.deck \in [Players -> SUBSET Cards]
    /\ g.played \in [Players -> Cards \union {None}]
    /\ \A p \in Players : Held(g, p) \subseteq Deck[p] /\ g.played[p] \in Deck[p] \union {None}
    /\ g.lane \in 1..Len(Lane) /\ g.waves \in Nat
    /\ g.lives \in [Teams -> 0..Lives]
    /\ g.coin \in Teams /\ g.flip \in BOOLEAN

\* The fields that a game must keep for WellMade to stay true.
Made == {"hand", "resolved", "discard", "items", "deck", "played", "lane", "waves", "lives",
         "coin", "flip"}

\* A lane has a middle.
LEMMA LaneLength == Len(Lane) \in Nat /\ Len(Lane) >= 3 /\ Len(Lane) % 2 = 1
<1>1. Lane \in Seq(Zones) /\ Len(Lane) >= 3 /\ Len(Lane) % 2 = 1
  BY BoardAssumption
<1>2. QED
  BY <1>1

\* What leaves the piles, the counters and the phase alone leaves the game well made.
LEMMA StaysWellMade ==
    ASSUME NEW g, NEW h, WellMade(g), Changes(g, h, Fields \ Made)
    PROVE  WellMade(h)
BY DEF WellMade, Held, Changes, Fields, Made

\* A tossed coin leaves a game well made.
LEMMA CoinStaysWellMade ==
    ASSUME NEW g, NEW h, WellMade(g), Changes(g, h, {"flip", "coin"}),
           h.flip \in BOOLEAN, h.coin \in Teams
    PROVE  WellMade(h)
<1>1. \A f \in Fields \ {"flip", "coin"} : h[f] = g[f]
  BY DEF Changes
<1>2. DOMAIN h = Fields
  BY DEF Changes, WellMade
<1>3. QED
  BY SMTT(30), <1>1 DEF WellMade, Held, Changes, Fields

\* The items of a hero are finitely many.
LEMMA ItemBonusIsNat ==
    ASSUME NEW g, WellMade(g), NEW p \in Players, NEW icon
    PROVE  ItemBonus(g, p, icon) \in Nat
<1> DEFINE S == {c \in g.items[p] : Catalog[c].item = icon}
<1>1. S \in SUBSET Deck[p]
  BY DEF WellMade, Held
<1> HIDE DEF S
<1>2. Cardinality(S) \in Nat
  BY <1>1, CatalogAssumption, FS_Subset, FS_CardinalityType
<1>3. QED
  BY <1>2 DEF S, ItemBonus

\* An initiative is a number.
LEMMA InitiativeIsNat ==
    ASSUME NEW g, WellMade(g), NEW p \in Players
    PROVE  Initiative(g, p) \in Nat
<1>1. Initiative(g, p) = IF g.played[p] = None THEN 0
                         ELSE Catalog[g.played[p]].initiative + ItemBonus(g, p, "Initiative")
  BY DEF Initiative
<1>2. g.played[p] # None => Catalog[g.played[p]].initiative \in Nat
  BY CatalogAssumption DEF WellMade
<1>3. ItemBonus(g, p, "Initiative") \in Nat
  BY ItemBonusIsNat
<1>4. QED
  BY <1>1, <1>2, <1>3

\* A hero that falls costs at least one life.
LEMMA LowestTierCosts ==
    ASSUME NEW g, WellMade(g), NEW p \in Players
    PROVE  LowestTier(g, p) \in Nat \ {0}
<1> DEFINE S == {Catalog[c].tier : c \in {d \in Owned(g, p) : ~Basic(d)}}
<1>1. S \subseteq Nat \ {0}
  <2>1. \A c \in Deck[p] : Basic(c) \/ Catalog[c].tier \in Nat \ {0}
    BY CatalogAssumption
  <2>2. Owned(g, p) \subseteq Deck[p]
    BY DEF Owned, WellMade, Held
  <2>3. QED
    BY <2>1, <2>2
<1>2. S # {} => Min(S) \in Nat \ {0}
  <2> HIDE DEF S
  <2>1. S \subseteq Nat
    BY <1>1
  <2>2. QED
    BY <1>1, <2>1, MinOfNats
<1>3. LowestTier(g, p) = IF S = {} THEN 1 ELSE Min(S)
  BY DEF LowestTier
<1> HIDE DEF S
<1>4. QED
  BY <1>2, <1>3

-----------------------------------------------------------------------------
(* The lane *)

\* A match that is not over has counters left on both sides and a battle that is
\* at neither throne; one that is over has a winner.
Alive(g) ==
    IF IsOver(g) THEN g.phase.winner \in Teams
    ELSE /\ g.waves > 0 /\ g.lane \in 2..(Len(Lane) - 1)
         /\ \A team \in Teams : g.lives[team] > 0

Winner(g) == IF IsOver(g) THEN g.phase.winner ELSE "none"

\* No push: the lane, its counters and the match are where they were.
Stays(g, h) == h.lane = g.lane /\ h.waves = g.waves /\ Winner(h) = Winner(g)

\* A push by a team.
Onward(lane, team) == lane + (IF team = "Red" THEN 1 ELSE -1)
Pushes(g, h, team) ==
    /\ h.waves = g.waves - 1
    /\ IF g.waves = 1 \/ Onward(g.lane, team) \in {1, Len(Lane)}
       THEN h.lane = g.lane /\ Winner(h) = team
       ELSE h.lane = Onward(g.lane, team) /\ ~IsOver(h)

\* At most one push.
Moves(g, h) == Stays(g, h) \/ \E team \in Teams : Pushes(g, h, team)

\* A match that is alive always has room for one more push: the counter and the
\* index of the lane never pass their ends, and no `expect` of push_lane fails.
LEMMA PushLanePushes ==
    ASSUME NEW g, WellMade(g), Alive(g), ~IsOver(g), NEW team \in Teams
    PROVE  LET h == PushLane(g, team) IN
           /\ WellMade(h) /\ Alive(h)
           /\ Changes(g, h, {"minions", "lane", "waves", "phase"})
           /\ Pushes(g, h, team)
           /\ IsOver(h) \/ h.phase = g.phase
<1> DEFINE next == Onward(g.lane, team)
           left == [g EXCEPT !.waves = @ - 1]
           stay == {m \in g.minions : ZoneOf[m.at] # Lane[g.lane]}
           on == RespawnMinions([left EXCEPT !.minions = stay, !.lane = next])
           bad == [g EXCEPT !.phase = [type |-> "Panic"]]
           lost == Over(left, team, "won the last push")
           taken == Over(left, team, "captured the throne")
           throne == Lane[next] = Throne(Opponent(team))
           h == PushLane(g, team)
<1>1. /\ DOMAIN g = Fields /\ g.lane \in 2..(Len(Lane) - 1) /\ g.waves \in Nat \ {0}
      /\ next \in 1..Len(Lane)
  <2>1. DOMAIN g = Fields /\ g.lane \in 2..(Len(Lane) - 1) /\ g.waves \in Nat \ {0}
    BY DEF WellMade, Alive
  <2>2. Len(Lane) \in Nat
    BY LaneLength
  <2>3. next = g.lane + 1 \/ next = g.lane - 1
    BY DEF Onward
  <2>4. next \in 1..Len(Lane)
    BY <2>1, <2>2, <2>3
  <2>5. QED
    BY <2>1, <2>4
<1>2. throne <=> next \in {1, Len(Lane)}
  <2>1. Len(Lane) \in Nat /\ Len(Lane) >= 3 /\ Len(Lane) \in 1..Len(Lane) /\ 1 \in 1..Len(Lane)
    BY LaneLength
  <2> DEFINE distinct == \A i, j \in 1..Len(Lane) : Lane[i] = Lane[j] => i = j
  <2>6. distinct
    BY BoardAssumption
  <2>2. Head(Lane) = Lane[1] /\ Last(Lane) = Lane[Len(Lane)]
    BY DEF Last
  <2>3. CASE team = "Red"
    <3>1. Throne(Opponent(team)) = Lane[Len(Lane)] /\ next = g.lane + 1
      BY <2>2, <2>3 DEF Throne, Opponent, Onward
    <3>2. QED
      BY <1>1, <2>1, <2>6, <3>1
  <2>4. CASE team = "Blue"
    <3>1. Throne(Opponent(team)) = Lane[1] /\ next = g.lane - 1
      BY <2>2, <2>4 DEF Throne, Opponent, Onward
    <3>2. QED
      BY <1>1, <2>1, <2>6, <3>1
  <2>5. QED
    BY <2>3, <2>4 DEF Teams
\* Each outcome of a push is a game of its own.
<1>4. /\ lost.lane = g.lane /\ lost.waves = g.waves - 1 /\ Winner(lost) = team
      /\ IsOver(lost) /\ Changes(g, lost, {"waves", "phase"})
  BY <1>1 DEF Fields, Winner, IsOver, Changes, Over
<1>5. /\ taken.lane = g.lane /\ taken.waves = g.waves - 1 /\ Winner(taken) = team
      /\ IsOver(taken) /\ Changes(g, taken, {"waves", "phase"})
  BY <1>1 DEF Fields, Winner, IsOver, Changes, Over
<1>6. /\ on.lane = next /\ on.waves = g.waves - 1 /\ on.phase = g.phase
      /\ ~IsOver(on) /\ Changes(g, on, {"minions", "lane", "waves"})
  <2> HIDE DEF next
  <2>1. QED
    BY <1>1 DEF Fields, IsOver, Changes, RespawnMinions
<1>7. h = IF ~(g.waves > 0) THEN bad
          ELSE IF left.waves = 0 THEN lost
          ELSE IF ~(next \in 1..Len(Lane)) THEN bad
          ELSE IF throne THEN taken
          ELSE on
  <2> HIDE DEF on
  <2>1. QED
    BY DEF PushLane, Expect, Onward, on
<1>8. left.waves = g.waves - 1
  BY <1>1 DEF Fields
<1> HIDE DEF h, on, left, next, bad, lost, taken, throne
<1>9. \/ h = lost /\ g.waves = 1
      \/ h = taken /\ g.waves > 1 /\ next \in {1, Len(Lane)}
      \/ h = on /\ g.waves > 1 /\ next \notin {1, Len(Lane)} /\ next \in 1..Len(Lane)
  BY <1>1, <1>2, <1>7, <1>8
<1>10. /\ h.lane \in 1..Len(Lane) /\ h.waves \in Nat
       /\ Pushes(g, h, team)
       /\ IsOver(h) \/ h.phase = g.phase
       /\ IF IsOver(h) THEN h.phase.winner \in Teams
          ELSE h.waves > 0 /\ h.lane \in 2..(Len(Lane) - 1)
       /\ Changes(g, h, {"minions", "lane", "waves", "phase"})
  <2>1. CASE h = lost /\ g.waves = 1
    BY <1>1, <1>4, <2>1 DEF Pushes, Changes, Winner
  <2>2. CASE h = taken /\ g.waves > 1 /\ next \in {1, Len(Lane)}
    BY <1>1, <1>5, <2>2 DEF Pushes, Changes, Winner, next
  <2>3. CASE h = on /\ g.waves > 1 /\ next \notin {1, Len(Lane)} /\ next \in 1..Len(Lane)
    BY <1>1, <1>6, <2>3 DEF Pushes, Changes, next
  <2>4. QED
    BY <1>9, <2>1, <2>2, <2>3
<1>11. WellMade(h)
  BY <1>10 DEF WellMade, Held, Changes, Fields
<1>12. Alive(h)
  BY <1>10 DEF Alive, Changes, Fields
<1>13. QED
  BY <1>10, <1>11, <1>12 DEF h

\* The minion battle pushes at most once, and changes nothing but the lane.
LEMMA BattlePushes ==
    ASSUME NEW g, WellMade(g), Alive(g), ~IsOver(g)
    PROVE  LET h == MinionBattle(g) IN
           /\ WellMade(h) /\ Alive(h)
           /\ Changes(g, h, {"minions", "lane", "waves", "phase"})
           /\ Moves(g, h)
           /\ IsOver(h) \/ h.phase = g.phase
<1> DEFINE count == [team \in Teams |-> Cardinality(MinionsOf(g, team))]
           loser == IF count["Red"] < count["Blue"] THEN "Red" ELSE "Blue"
           diff == count[Opponent(loser)] - count[loser]
           losers == MinionsOf(g, loser)
           fallen == {m \in losers : Cardinality({n \in losers : FallsBefore(n, m)}) < diff}
           gone == [g EXCEPT !.minions = @ \ fallen]
           h == MinionBattle(g)
<1>1. loser \in Teams
  BY DEF Teams
<1>2. h = gone \/ h = PushLane(gone, Opponent(loser))
  BY DEF MinionBattle
<1> HIDE DEF h, loser, fallen
<1>3. /\ Changes(g, gone, {"minions"}) /\ gone.phase = g.phase /\ gone.lane = g.lane
      /\ gone.waves = g.waves /\ gone.lives = g.lives
  BY DEF WellMade, Fields, Changes
<1> HIDE DEF gone
<1>4. WellMade(gone) /\ Alive(gone) /\ ~IsOver(gone) /\ Stays(g, gone)
  BY <1>3, StaysWellMade DEF Changes, Fields, Made, Alive, IsOver, Stays, Winner
<1>5. CASE h = gone
  BY <1>3, <1>4, <1>5 DEF Changes, Moves, h
<1>6. CASE h = PushLane(gone, Opponent(loser))
  <2>1. Opponent(loser) \in Teams
    BY DEF Opponent, Teams
  <2>2. /\ WellMade(h) /\ Alive(h) /\ Changes(gone, h, {"minions", "lane", "waves", "phase"})
        /\ Pushes(gone, h, Opponent(loser)) /\ (IsOver(h) \/ h.phase = gone.phase)
    BY <1>4, <1>6, <2>1, PushLanePushes
  <2>3. Pushes(g, h, Opponent(loser))
    BY <1>3, <2>2 DEF Pushes
  <2>4. Changes(g, h, {"minions", "lane", "waves", "phase"})
    BY <1>3, <2>2 DEF Changes
  <2>5. QED
    BY <1>3, <2>1, <2>2, <2>3, <2>4 DEF Moves, h
<1>7. QED
  BY <1>2, <1>5, <1>6

-----------------------------------------------------------------------------
(* The end of a turn and of a round *)

\* What the end of a turn does to a game: at most one push, and either the match is
\* over or the heroes play or level up next.  The coin and its flip are left alone.
TurnEnded(g, h) ==
    /\ WellMade(h) /\ Alive(h) /\ Moves(g, h)
    /\ h.lives = g.lives /\ h.flip = g.flip /\ h.coin = g.coin
    /\ h.played = g.played /\ h.passed = g.passed
    /\ IsOver(h) \/ h.phase.type \in {"Play", "LevelUp"}
    /\ h.phase.type = "LevelUp" => h.phase.player \in Players /\ h.owed[h.phase.player] > 0

\* Collecting the cards and buying levels move no card to another hero.
LEMMA RetrieveKeeps ==
    ASSUME NEW g, WellMade(g)
    PROVE  LET h == Retrieve(g) IN
           WellMade(h) /\ Changes(g, h, {"hand", "resolved", "discard"})
<1> DEFINE hand == [p \in Players |-> g.hand[p] \union g.resolved[p] \union g.discard[p]]
           none == [p \in Players |-> {}]
           h == Retrieve(g)
<1>1. /\ hand \in [Players -> SUBSET Cards]
      /\ \A p \in Players : hand[p] = g.hand[p] \union g.resolved[p] \union g.discard[p]
  BY DEF WellMade
<1>2. none \in [Players -> SUBSET Cards] /\ \A p \in Players : none[p] = {}
  OBVIOUS
<1>3. /\ h.hand = hand /\ h.resolved = none /\ h.discard = none
      /\ Changes(g, h, {"hand", "resolved", "discard"})
  <2> HIDE DEF none
  <2>1. h = [g EXCEPT !.hand = hand, !.resolved = none, !.discard = none]
    BY DEF Retrieve, WellMade, Fields, none
  <2> HIDE DEF hand, h
  <2>2. QED
    BY <2>1 DEF WellMade, Fields, Changes
<1> HIDE DEF h, hand, none
<1>4. \A p \in Players : Held(h, p) \subseteq Held(g, p)
  BY <1>1, <1>2, <1>3 DEF Held, Changes, Fields
<1>5. WellMade(h)
  BY <1>1, <1>2, <1>3, <1>4 DEF WellMade, Changes, Fields
<1>6. QED
  BY <1>3, <1>5 DEF h

\* Buying levels spends coins, records what is owed and may unlock the ultimate.
LEMMA LevelUpsKeep ==
    ASSUME NEW g, WellMade(g)
    PROVE  LET h == BuyLevelUps(g) IN
           /\ WellMade(h)
           /\ Changes(g, h, {"coins", "level", "leveled", "owed", "deck", "ultimate"})
<1> DEFINE deck == [p \in Players |-> g.deck[p] \ UltimateFor(g, p)]
           h == BuyLevelUps(g)
<1>1. /\ deck \in [Players -> SUBSET Cards]
      /\ \A p \in Players : deck[p] \subseteq g.deck[p]
  BY DEF WellMade
<1>2. h.deck = deck /\ Changes(g, h, {"coins", "level", "leveled", "owed", "deck", "ultimate"})
  BY DEF WellMade, Fields, Changes, BuyLevelUps
<1> HIDE DEF h, deck
<1>3. \A p \in Players : Held(h, p) \subseteq Held(g, p)
  BY <1>1, <1>2 DEF Held, Changes, Fields
<1>4. WellMade(h)
  BY <1>1, <1>2, <1>3 DEF WellMade, Changes, Fields
<1>5. QED
  BY <1>2, <1>4 DEF h

\* The phase that follows is a level-up or the play of the next round.
LEMMA LevelUpsEnd ==
    ASSUME NEW g, WellMade(g), Alive(g), ~IsOver(g), ~Panicked(g)
    PROVE  TurnEnded(g, ContinueLevelUps(g)) /\ Stays(g, ContinueLevelUps(g))
<1> DEFINE h == ContinueLevelUps(g)
           owing == {p \in Players : g.owed[p] > 0}
           asked == [g EXCEPT !.phase = [type |-> "LevelUp", player |-> Min(owing)]]
<1>1. h = FinishRound(g) \/ (h = asked /\ owing # {})
  BY DEF ContinueLevelUps
<1>2. /\ Changes(g, FinishRound(g), {"coins", "leveled", "round", "turn", "phase"})
      /\ FinishRound(g).phase.type = "Play"
  BY DEF WellMade, Fields, Changes, FinishRound
<1>3. /\ Changes(g, asked, {"phase"}) /\ asked.phase.type = "LevelUp"
      /\ asked.phase.player = Min(owing)
  <2> HIDE DEF owing
  <2>1. QED
    BY DEF WellMade, Fields, Changes
<1> HIDE DEF asked
<1>8. owing # {} => Min(owing) \in Players /\ g.owed[Min(owing)] > 0
  <2>1. owing \subseteq Nat
    BY DEF Players
  <2>2. \A p \in owing : p \in Players /\ g.owed[p] > 0
    OBVIOUS
  <2> HIDE DEF owing
  <2>3. QED
    BY <2>1, <2>2, MinOfNats
<1> HIDE DEF h, owing
<1>4. /\ Changes(g, h, {"coins", "leveled", "round", "turn", "phase"})
      /\ h.phase.type \in {"Play", "LevelUp"}
      /\ h.phase.type = "LevelUp" => h.phase.player \in Players /\ h.owed[h.phase.player] > 0
  BY <1>1, <1>2, <1>3, <1>8 DEF Changes, Fields
<1>5. WellMade(h)
  BY <1>4, StaysWellMade DEF Changes, Fields, Made
<1>6. /\ Alive(h) /\ Stays(g, h) /\ h.lives = g.lives /\ h.flip = g.flip /\ h.coin = g.coin
      /\ h.played = g.played /\ h.passed = g.passed
  BY <1>4 DEF Alive, Stays, Winner, IsOver, Changes, Fields
<1>7. QED
  BY <1>4, <1>5, <1>6 DEF TurnEnded, Moves, h

\* The end of a round pushes at most once, and ends the match or starts a round or a level-up.
LEMMA RoundEnds ==
    ASSUME NEW g, WellMade(g), Alive(g), ~IsOver(g), ~Panicked(g)
    PROVE  TurnEnded(g, EndRound(g))
<1> DEFINE battle == MinionBattle(g)
           back == Retrieve(battle)
           bought == BuyLevelUps(back)
           h == EndRound(g)
<1>1. /\ WellMade(battle) /\ Alive(battle) /\ Moves(g, battle)
      /\ Changes(g, battle, {"minions", "lane", "waves", "phase"})
      /\ IsOver(battle) \/ battle.phase = g.phase
  BY BattlePushes
<1>2. h = IF IsOver(battle) \/ Panicked(battle) THEN battle ELSE ContinueLevelUps(bought)
  BY DEF EndRound
<1> HIDE DEF battle, h
<1>3. /\ battle.lives = g.lives /\ battle.flip = g.flip /\ battle.coin = g.coin
      /\ battle.played = g.played /\ battle.passed = g.passed
  BY <1>1 DEF Changes, Fields
<1>4. CASE IsOver(battle)
  BY <1>1, <1>2, <1>3, <1>4 DEF TurnEnded, IsOver, h
<1>5. CASE ~IsOver(battle)
  <2>1. ~Panicked(battle)
    BY <1>1, <1>5 DEF Panicked
  <2>2. WellMade(back) /\ Changes(battle, back, {"hand", "resolved", "discard"})
    BY <1>1, RetrieveKeeps
  <2> HIDE DEF back
  <2>3. WellMade(bought)
        /\ Changes(back, bought, {"coins", "level", "leveled", "owed", "deck", "ultimate"})
    BY <2>2, LevelUpsKeep
  <2> HIDE DEF bought
  <2>4. /\ bought.lane = battle.lane /\ bought.waves = battle.waves /\ bought.lives = battle.lives
        /\ bought.phase = battle.phase /\ bought.flip = battle.flip /\ bought.coin = battle.coin
        /\ bought.played = battle.played /\ bought.passed = battle.passed
    BY <2>2, <2>3 DEF Changes, Fields
  <2>5. Alive(bought) /\ ~IsOver(bought) /\ ~Panicked(bought)
    BY <1>1, <1>5, <2>1, <2>4 DEF Alive, IsOver, Panicked
  <2>6. TurnEnded(bought, h) /\ Stays(bought, h)
    BY <1>2, <1>5, <2>1, <2>3, <2>5, LevelUpsEnd
  <2>7. Moves(g, h)
    <3>1. Winner(bought) = Winner(battle)
      BY <2>4 DEF Winner, IsOver
    <3>2. h.lane = battle.lane /\ h.waves = battle.waves /\ Winner(h) = Winner(battle)
      BY <2>4, <2>6, <3>1 DEF Stays
    <3>3. ~IsOver(h) <=> ~IsOver(battle)
      <4>1. Winner(h) \notin Teams
        BY <1>5, <3>2 DEF Winner, Teams
      <4>2. QED
        BY <1>5, <2>6, <4>1 DEF TurnEnded, Alive, Winner
    <3>4. QED
      BY <1>1, <3>2, <3>3 DEF Moves, Stays, Pushes
  <2>8. QED
    BY <1>3, <2>4, <2>6, <2>7 DEF TurnEnded, h
<1>6. QED
  BY <1>4, <1>5

-----------------------------------------------------------------------------
(* Turn order *)

ActorsOf(g) == CASE g.phase.type = "ChooseActor" -> g.phase.candidates
                 [] g.phase.type = "Act" -> {g.phase.player}
                 [] g.phase.type = "Defend" -> {g.phase.attacker}
                 [] OTHER -> {}

Left(g) == {p \in Players : g.played[p] # None}

\* What TurnOrder says of a game.
Ordered(g) ==
    IF ActorsOf(g) = {} THEN g.flip => IsOver(g)
    ELSE \A p \in ActorsOf(g) :
           LET rivals == {q \in Left(g) : /\ Team[q] # Team[p]
                                          /\ Initiative(g, q) = Initiative(g, p)}
           IN  /\ \A q \in Left(g) : Initiative(g, q) <= Initiative(g, p)
               /\ g.flip <=> rivals # {}
               /\ g.flip => Team[p] = g.coin

\* Somebody can play, whoever is to act has a played card, and a hero that defends
\* is on the board; levels are bought between the turns.
Asked(g) ==
    /\ g.phase.type \in {"Play", "ChooseActor", "Act", "Defend", "LevelUp", "GameOver", "Panic"}
    /\ g.phase.type = "Play" => \E p \in Players : g.played[p] = None /\ ~g.passed[p]
    /\ g.phase.type \in {"ChooseActor", "Act", "Defend"} => ActorsOf(g) # {}
    /\ ActorsOf(g) \subseteq Left(g)
    /\ g.phase.type = "Defend" => /\ g.phase.defender \in Players
                                  /\ g.hero[g.phase.defender] # Nowhere
                                  /\ Team[g.phase.defender] # Team[g.phase.attacker]
    /\ g.phase.type = "LevelUp" =>
         /\ g.phase.player \in Players
         /\ \A p \in Players : g.played[p] = None /\ ~g.passed[p]

\* What handing the game to the next player does to it.
HandedOn(g, h) ==
    WellMade(h) /\ Alive(h) /\ Moves(g, h) /\ h.lives = g.lives /\ Ordered(h) /\ Asked(h)

\* With the last card resolved the turn ends, and with the last turn the round.
LEMMA TurnEnds ==
    ASSUME NEW g, WellMade(g), Alive(g), ~IsOver(g), ~Panicked(g), ~g.flip, Left(g) = {}
    PROVE  HandedOn(g, EndTurn(g))
<1> DEFINE cleared == [g EXCEPT !.passed = [p \in Players |-> FALSE]]
           next == [cleared EXCEPT !.turn = @ + 1, !.phase = [type |-> "Play"]]
           h == EndTurn(g)
<1>1. Changes(g, cleared, {"passed"}) /\ cleared.passed = [p \in Players |-> FALSE]
  BY DEF WellMade, Fields, Changes
<1>2. /\ Changes(g, next, {"passed", "turn", "phase"})
      /\ next.passed = [p \in Players |-> FALSE] /\ next.phase.type = "Play"
  BY DEF WellMade, Fields, Changes
<1>3. h = EndRound(cleared) \/ h = next
  BY DEF EndTurn
<1> HIDE DEF h, cleared, next
<1>4. Stays(g, cleared)
  BY <1>1 DEF Stays, Winner, IsOver, Changes, Fields
<1>5. /\ WellMade(h) /\ Alive(h) /\ Moves(g, h) /\ h.lives = g.lives /\ ~h.flip
      /\ h.played = g.played /\ h.passed = [p \in Players |-> FALSE]
      /\ IsOver(h) \/ h.phase.type \in {"Play", "LevelUp"}
      /\ h.phase.type = "LevelUp" => h.phase.player \in Players
  <2>1. CASE h = EndRound(cleared)
    <3>1. WellMade(cleared)
      BY <1>1, StaysWellMade DEF Changes, Fields, Made
    <3>2. Alive(cleared) /\ ~IsOver(cleared) /\ ~Panicked(cleared)
      BY <1>1 DEF Alive, IsOver, Panicked, Changes, Fields
    <3>3. TurnEnded(cleared, h)
      BY <2>1, <3>1, <3>2, RoundEnds
    <3>4. Moves(g, h)
      BY <1>4, <3>3 DEF TurnEnded, Moves, Stays, Pushes
    <3>5. cleared.lives = g.lives /\ cleared.flip = g.flip /\ cleared.played = g.played
      BY <1>1 DEF Changes, Fields
    <3>6. QED
      BY <1>1, <3>3, <3>4, <3>5 DEF TurnEnded
  <2>2. CASE h = next
    <3>1. WellMade(h)
      BY <1>2, <2>2, StaysWellMade DEF Changes, Fields, Made
    <3>2. /\ h.lane = g.lane /\ h.waves = g.waves /\ h.lives = g.lives /\ h.flip = g.flip
          /\ h.played = g.played
      BY <1>2, <2>2 DEF Changes, Fields
    <3>3. Alive(h) /\ Stays(g, h)
      BY <1>2, <2>2, <3>2 DEF Alive, IsOver, Stays, Winner
    <3>4. QED
      BY <1>2, <2>2, <3>1, <3>2, <3>3 DEF Moves
  <2>3. QED
    BY <1>3, <2>1, <2>2
<1>6. ActorsOf(h) = {}
  BY <1>5 DEF ActorsOf, IsOver
<1>7. Ordered(h)
  BY <1>5, <1>6 DEF Ordered
<1>8. Asked(h)
  <2>1. \A p \in Players : h.played[p] = None /\ ~h.passed[p]
    BY <1>5 DEF Left
  <2>2. 1 \in Players
    BY CatalogAssumption DEF Players
  <2>3. QED
    BY <1>5, <1>6, <2>1, <2>2 DEF Asked, IsOver
<1>9. QED
  BY <1>5, <1>7, <1>8 DEF HandedOn, h

\* The next to act: a tie across the teams has a candidate on the side of the coin,
\* and only such a tie leaves the coin due to flip.
LEMMA NextActorActs ==
    ASSUME NEW g, WellMade(g), Alive(g), ~IsOver(g), ~Panicked(g), ~g.flip
    PROVE  HandedOn(g, NextActor(g))
<1> DEFINE unresolved == {p \in Players : g.played[p] # None}
           tied == {p \in unresolved : \A q \in unresolved : Initiative(g, p) >= Initiative(g, q)}
           oneTeam == \A p, q \in tied : Team[p] = Team[q]
           candidates == IF oneTeam THEN tied ELSE {p \in tied : Team[p] = g.coin}
           asked == [g EXCEPT !.flip = @ \/ ~oneTeam]
           only == CHOOSE p \in candidates : TRUE
           act == [asked EXCEPT !.phase = [type |-> "Act", player |-> only]]
           choice == [asked EXCEPT !.phase = [type |-> "ChooseActor", candidates |-> candidates]]
           h == NextActor(g)
<1>1. unresolved = Left(g)
  BY DEF Left
<1>2. CASE unresolved = {}
  <2>1. h = EndTurn(g)
    BY <1>2 DEF NextActor
  <2>2. QED
    BY <1>1, <1>2, <2>1, TurnEnds
<1>3. CASE unresolved # {}
  <2>1. h = IF Cardinality(candidates) = 1 THEN act ELSE choice
    BY <1>3 DEF NextActor
  <2>2. \A p \in Players : Initiative(g, p) \in Nat
    BY InitiativeIsNat
  <2>3. tied # {}
    <3> DEFINE f == [p \in unresolved |-> Initiative(g, p)]
    <3>1. IsFiniteSet(unresolved) /\ f \in [unresolved -> Nat]
      <4>1. IsFiniteSet(Players) /\ unresolved \in SUBSET Players
        BY CatalogAssumption, FS_Interval DEF Players
      <4>2. f \in [unresolved -> Nat]
        BY <2>2
      <4> HIDE DEF unresolved, f
      <4>3. QED
        BY <4>1, <4>2, FS_Subset
    <3>2. \A p \in unresolved : f[p] = Initiative(g, p) /\ f[p] \in Nat
      BY <2>2
    <3>3. PICK p \in unresolved : \A q \in unresolved : f[q] <= f[p]
      <4> HIDE DEF unresolved, f
      <4> QED BY <1>3, <3>1, HighestOf
    <3> HIDE DEF f
    <3>4. \A q \in unresolved : Initiative(g, p) >= Initiative(g, q)
      BY <3>2, <3>3
    <3> HIDE DEF unresolved
    <3>5. QED
      BY <3>4
  <2>4. /\ tied \subseteq unresolved /\ unresolved \subseteq Players
        /\ \A p \in tied, q \in unresolved : Initiative(g, q) <= Initiative(g, p)
        /\ \A p \in tied, q \in unresolved : Initiative(g, q) = Initiative(g, p) => q \in tied
    BY <2>2
  <2>5. \A p, q \in tied : Initiative(g, p) = Initiative(g, q)
    BY <2>2, <2>4
  <2> HIDE DEF tied
  <2>6. candidates # {} /\ candidates \subseteq tied
    BY <2>3, <2>4, CatalogAssumption DEF WellMade, Teams
  <2>7. ~oneTeam => \A p \in candidates : Team[p] = g.coin /\ \E q \in tied : Team[q] # Team[p]
    OBVIOUS
  <2>8. oneTeam => \A p, q \in tied : Team[p] = Team[q]
    OBVIOUS
  <2>9. Cardinality(candidates) = 1 => candidates = {only}
    <3> HIDE DEF candidates, unresolved
    <3>1. IsFiniteSet(Players) /\ candidates \in SUBSET Players
      <4>1. candidates \in SUBSET Players
        BY <2>4, <2>6
      <4>2. QED
        BY <4>1, CatalogAssumption, FS_Interval DEF Players
    <3>2. IsFiniteSet(candidates)
      BY <3>1, FS_Subset
    <3>3. QED
      BY <3>2, FS_Singleton
  <2> HIDE DEF only, oneTeam, candidates
  <2>10. /\ Changes(g, h, {"flip", "phase"}) /\ (h.flip <=> ~oneTeam) /\ h.flip \in BOOLEAN
         /\ h.phase.type \in {"Act", "ChooseActor"}
         /\ ActorsOf(h) = candidates
    <3>1. Changes(g, asked, {"flip"}) /\ (asked.flip <=> ~oneTeam) /\ asked.flip \in BOOLEAN
      BY DEF WellMade, Fields, Changes
    <3> HIDE DEF asked
    <3>2. CASE Cardinality(candidates) = 1
      <4>1. h = act
        BY <2>1, <3>2
      <4>2. /\ Changes(asked, act, {"phase"}) /\ act.phase.type = "Act"
            /\ act.phase.player = only
        BY <3>1 DEF Fields, Changes
      <4> HIDE DEF act, h
      <4>3. Changes(g, h, {"flip", "phase"}) /\ h.flip = asked.flip
        BY <3>1, <4>1, <4>2 DEF Changes, Fields
      <4>4. ActorsOf(h) = candidates
        BY <2>9, <3>2, <4>1, <4>2 DEF ActorsOf
      <4>5. QED
        BY <3>1, <4>1, <4>2, <4>3, <4>4
    <3>3. CASE Cardinality(candidates) # 1
      <4>1. h = choice
        BY <2>1, <3>3
      <4>2. /\ Changes(asked, choice, {"phase"}) /\ choice.phase.type = "ChooseActor"
            /\ choice.phase.candidates = candidates
        BY <3>1 DEF Fields, Changes
      <4> HIDE DEF choice, h
      <4>3. Changes(g, h, {"flip", "phase"}) /\ h.flip = asked.flip
        BY <3>1, <4>1, <4>2 DEF Changes, Fields
      <4>4. ActorsOf(h) = candidates
        BY <4>1, <4>2 DEF ActorsOf
      <4>5. QED
        BY <3>1, <4>1, <4>2, <4>3, <4>4
    <3>4. QED
      BY <3>2, <3>3
  <2> HIDE DEF h
  <2>11. /\ h.played = g.played /\ h.items = g.items /\ h.lane = g.lane /\ h.waves = g.waves
         /\ h.lives = g.lives /\ h.coin = g.coin
    BY <2>10 DEF Changes, Fields
  <2>12. Left(h) = unresolved /\ \A p \in Players : Initiative(h, p) = Initiative(g, p)
    BY <2>11 DEF Left, Initiative, ItemBonus
  <2>13. WellMade(h)
    BY <2>10, <2>11 DEF WellMade, Held, Changes, Fields
  <2>14. Alive(h) /\ Stays(g, h) /\ ~IsOver(h)
    BY <2>10, <2>11 DEF Alive, IsOver, Stays, Winner
  <2>15. Ordered(h)
    <3>1. SUFFICES ASSUME NEW p \in candidates
                   PROVE  LET rivals == {q \in Left(h) : /\ Team[q] # Team[p]
                                          /\ Initiative(h, q) = Initiative(h, p)}
                          IN  /\ \A q \in Left(h) : Initiative(h, q) <= Initiative(h, p)
                              /\ h.flip <=> rivals # {}
                              /\ h.flip => Team[p] = h.coin
      BY <2>6, <2>10 DEF Ordered
    <3> DEFINE rivals == {q \in Left(h) : /\ Team[q] # Team[p]
                                          /\ Initiative(h, q) = Initiative(h, p)}
    <3>2. \A q \in Players : q \in rivals <=> /\ q \in unresolved /\ Team[q] # Team[p]
                                              /\ Initiative(g, q) = Initiative(g, p)
      BY <2>4, <2>6, <2>12
    <3>3. rivals \subseteq Players
      BY DEF Left
    <3>4. \A q \in Left(h) : Initiative(h, q) <= Initiative(h, p)
      BY <2>4, <2>6, <2>12
    <3> HIDE DEF rivals, unresolved
    <3>5. h.flip <=> rivals # {}
      <4>1. CASE oneTeam
        BY <2>4, <2>6, <2>8, <2>10, <3>2, <3>3, <4>1
      <4>2. CASE ~oneTeam
        <5>1. PICK q \in tied : Team[q] # Team[p]
          BY <2>7, <4>2
        <5>2. q \in rivals
          BY <2>4, <2>5, <2>6, <3>2, <5>1
        <5>3. QED
          BY <2>10, <4>2, <5>2
      <4>3. QED
        BY <4>1, <4>2
    <3>6. h.flip => Team[p] = h.coin
      BY <2>7, <2>10, <2>11
    <3>7. QED
      BY <3>4, <3>5, <3>6 DEF rivals
  <2>16. Asked(h)
    BY <2>4, <2>6, <2>10, <2>12 DEF Asked
  <2>17. QED
    BY <2>11, <2>13, <2>14, <2>15, <2>16 DEF HandedOn, Moves, h
<1>4. QED
  BY <1>2, <1>3

\* A resolved card moves between piles of its player.
LEMMA ResolveKeeps ==
    ASSUME NEW g, WellMade(g), NEW p \in Players
    PROVE  LET h == Resolve(g, p) IN
           /\ WellMade(h) /\ Changes(g, h, {"resolved", "played"})
           /\ h.played = [g.played EXCEPT ![p] = None]
<1> DEFINE resolved == [g.resolved EXCEPT ![p] = @ \union ({g.played[p]} \ {None})]
           played == [g.played EXCEPT ![p] = None]
           h == Resolve(g, p)
<1>1. h.resolved = resolved /\ h.played = played /\ Changes(g, h, {"resolved", "played"})
  BY DEF Resolve, WellMade, Fields, Changes
<1>2. resolved \in [Players -> SUBSET Cards] /\ played \in [Players -> Cards \union {None}]
  BY DEF WellMade
<1>3. \A q \in Players : /\ resolved[q] \subseteq Deck[q] /\ played[q] \in Deck[q] \union {None}
  BY DEF WellMade, Held
<1> HIDE DEF h, resolved, played
<1>4. \A q \in Players : Held(h, q) \subseteq Deck[q] /\ h.played[q] \in Deck[q] \union {None}
  BY <1>1, <1>3 DEF WellMade, Held, Changes, Fields
<1>5. WellMade(h)
  BY <1>1, <1>2, <1>4 DEF WellMade, Changes, Fields
<1>6. QED
  BY <1>1, <1>5 DEF h, played

\* An action that ends settles the coin before the next player is sought.
LEMMA FinishActionHands ==
    ASSUME NEW g, WellMade(g), Alive(g), ~Panicked(g), NEW p \in Players
    PROVE  /\ HandedOn(g, FinishAction(g, p))
           /\ IsOver(g) => Stays(g, FinishAction(g, p))
<1> DEFINE resolved == Resolve(g, p)
           flipped == [resolved EXCEPT !.flip = FALSE, !.coin = Opponent(@)]
           settled == IF g.flip THEN flipped ELSE resolved
           h == FinishAction(g, p)
<1>1. WellMade(resolved) /\ Changes(g, resolved, {"resolved", "played"})
  BY ResolveKeeps
<1>2. h = NextActor(settled)
  BY DEF FinishAction
<1> HIDE DEF resolved, h
<1>3. Changes(resolved, flipped, {"flip", "coin"}) /\ flipped.flip = FALSE /\ flipped.coin \in Teams
  BY <1>1 DEF WellMade, Fields, Changes, Opponent, Teams
<1> HIDE DEF flipped
<1>4. /\ Changes(g, settled, {"resolved", "played", "flip", "coin"}) /\ ~settled.flip
      /\ WellMade(settled)
  <2>1. CASE g.flip
    <3>1. settled = flipped
      BY <2>1
    <3>2. WellMade(flipped)
      BY <1>1, <1>3, CoinStaysWellMade
    <3>3. QED
      BY <1>1, <1>3, <3>1, <3>2 DEF Changes
  <2>2. CASE ~g.flip
    <3>1. settled = resolved /\ resolved.flip = g.flip
      BY <1>1, <2>2 DEF Changes, Fields
    <3>2. QED
      BY <1>1, <2>2, <3>1 DEF Changes
  <2>3. QED
    BY <2>1, <2>2
<1> HIDE DEF settled
<1>5. /\ settled.lane = g.lane /\ settled.waves = g.waves /\ settled.lives = g.lives
      /\ settled.phase = g.phase
  BY <1>4 DEF Changes, Fields
<1>6. Alive(settled) /\ Stays(g, settled) /\ ~Panicked(settled) /\ (IsOver(settled) <=> IsOver(g))
  BY <1>5 DEF Alive, IsOver, Panicked, Stays, Winner
<1>7. CASE IsOver(g)
  <2>1. h = settled
    BY <1>2, <1>6, <1>7 DEF NextActor
  <2>2. ActorsOf(h) = {} /\ IsOver(h)
    BY <1>6, <1>7, <2>1 DEF ActorsOf, IsOver
  <2>3. Ordered(h) /\ Asked(h)
    BY <2>2 DEF Ordered, Asked, IsOver
  <2>4. QED
    BY <1>4, <1>5, <1>6, <2>1, <2>3 DEF HandedOn, Moves, h
<1>8. CASE ~IsOver(g)
  <2>1. HandedOn(settled, h)
    BY <1>2, <1>4, <1>6, <1>8, NextActorActs
  <2>2. Moves(g, h)
    BY <1>6, <2>1 DEF HandedOn, Moves, Stays, Pushes
  <2>3. QED
    BY <1>5, <1>8, <2>1, <2>2 DEF HandedOn, h
<1>9. QED
  BY <1>7, <1>8

\* The last of a play hands the game to the first to act.
LEMMA AfterPlayHands ==
    ASSUME NEW g, WellMade(g), Alive(g), ~g.flip, g.phase.type = "Play"
    PROVE  HandedOn(g, AfterPlay(g))
<1>1. ~IsOver(g) /\ ~Panicked(g)
  BY DEF IsOver, Panicked
<1>2. CASE \A p \in Players : g.played[p] # None \/ g.passed[p]
  BY <1>1, <1>2, NextActorActs DEF AfterPlay
<1>3. CASE ~ \A p \in Players : g.played[p] # None \/ g.passed[p]
  <2>1. AfterPlay(g) = g
    BY <1>3 DEF AfterPlay
  <2>2. ActorsOf(g) = {}
    BY DEF ActorsOf
  <2>3. Ordered(g) /\ Asked(g)
    BY <1>3, <2>2 DEF Ordered, Asked
  <2>4. QED
    BY <2>1, <2>3 DEF HandedOn, Moves, Stays
<1>4. QED
  BY <1>2, <1>3

-----------------------------------------------------------------------------
(* Combat *)

\* An attack on a minion pushes the lane at most once.
LEMMA DefeatMinionPushes ==
    ASSUME NEW g, WellMade(g), Alive(g), ~IsOver(g), NEW m \in g.minions, NEW attacker
    PROVE  LET h == DefeatMinion(g, m, attacker) IN
           /\ WellMade(h) /\ Alive(h) /\ Moves(g, h)
           /\ Changes(g, h, {"coins", "minions", "lane", "waves", "phase"})
           /\ IsOver(h) \/ h.phase = g.phase
<1> DEFINE paid == IF attacker = None THEN g
                   ELSE [g EXCEPT !.coins[attacker] = U8(@ + Bounty(m.kind))]
           gone == [paid EXCEPT !.minions = @ \ {m}]
           h == DefeatMinion(g, m, attacker)
<1>1. Changes(g, paid, {"coins"})
  BY DEF WellMade, Fields, Changes
<1>2. h = IF MinionsOf(gone, m.team) = {} THEN PushLane(gone, Opponent(m.team)) ELSE gone
  BY DEF DefeatMinion, Expect
<1> HIDE DEF h, paid
<1>3. Changes(g, gone, {"coins", "minions"})
  BY <1>1 DEF Fields, Changes
<1> HIDE DEF gone
<1>4. /\ gone.phase = g.phase /\ gone.lane = g.lane /\ gone.waves = g.waves
      /\ gone.lives = g.lives
  BY <1>3 DEF Fields, Changes
<1>5. WellMade(gone) /\ Alive(gone) /\ ~IsOver(gone) /\ Stays(g, gone)
  BY <1>3, <1>4, StaysWellMade DEF Changes, Fields, Made, Alive, IsOver, Stays, Winner
<1>6. CASE h = gone
  BY <1>3, <1>4, <1>5, <1>6 DEF Changes, Moves, h
<1>7. CASE h = PushLane(gone, Opponent(m.team))
  <2>1. Opponent(m.team) \in Teams
    BY DEF Opponent, Teams
  <2>2. /\ WellMade(h) /\ Alive(h) /\ Changes(gone, h, {"minions", "lane", "waves", "phase"})
        /\ Pushes(gone, h, Opponent(m.team)) /\ (IsOver(h) \/ h.phase = gone.phase)
    BY <1>5, <1>7, <2>1, PushLanePushes
  <2>3. Pushes(g, h, Opponent(m.team))
    BY <1>4, <2>2 DEF Pushes
  <2>4. Changes(g, h, {"coins", "minions", "lane", "waves", "phase"})
    BY <1>3, <2>2 DEF Changes
  <2>5. QED
    BY <1>4, <2>1, <2>2, <2>3, <2>4 DEF Moves, h
<1>8. QED
  BY <1>2, <1>6, <1>7

\* The larger of two numbers.
LEMMA MaxOfTwo ==
    ASSUME NEW a \in Int, NEW b \in Int
    PROVE  Max({a, b}) = IF a >= b THEN a ELSE b
BY DEF Max

\* A hero that falls costs its team a life and, with the last, the match.
LEMMA DefeatHeroCosts ==
    ASSUME NEW g, WellMade(g), Alive(g), ~IsOver(g),
           NEW defender \in Players, NEW attacker \in Players, Team[defender] # Team[attacker]
    PROVE  LET h == DefeatHero(g, defender, attacker)
               team == Team[defender]
           IN  /\ WellMade(h) /\ Alive(h) /\ h.lane = g.lane /\ h.waves = g.waves
               /\ h.lives \in [Teams -> 0..Lives] /\ h.lives[team] < g.lives[team]
               /\ h.lives = [g.lives EXCEPT ![team] = h.lives[team]]
               /\ IF h.lives[team] = 0 THEN IsOver(h) /\ Winner(h) = Team[attacker]
                  ELSE h.phase = g.phase
<1> DEFINE team == Team[defender]
           away == [g EXCEPT !.hero[defender] = Nowhere]
           fallen == Resolve(away, defender)
           level == g.level[defender]
           Pay(p) == IF p = attacker THEN level
                     ELSE IF Team[p] = Team[attacker] THEN AssistCoins(level) ELSE 0
           left == Max({0, g.lives[team] - LowestTier(fallen, defender)})
           paid == [fallen EXCEPT !.coins = [p \in Players |-> U8(@[p] + Pay(p))],
                                  !.lives[team] = left]
           over == Over(paid, Team[attacker], "no lives left")
           h == DefeatHero(g, defender, attacker)
<1>1. WellMade(away) /\ Changes(g, away, {"hero"})
  <2>1. Changes(g, away, {"hero"})
    BY DEF WellMade, Fields, Changes
  <2> HIDE DEF away
  <2>2. QED
    BY <2>1, StaysWellMade DEF Changes, Fields, Made
<1> HIDE DEF away
<1>2. WellMade(fallen) /\ Changes(g, fallen, {"hero", "resolved", "played"})
  <2>1. WellMade(fallen) /\ Changes(away, fallen, {"resolved", "played"})
    BY <1>1, ResolveKeeps
  <2> HIDE DEF fallen
  <2>2. QED
    BY <1>1, <2>1 DEF Changes
<1>3. h = IF left = 0 THEN over ELSE paid
  BY DEF DefeatHero, away
<1> HIDE DEF fallen, h
<1>4. team \in Teams /\ Team[attacker] \in Teams /\ g.lives[team] \in 1..Lives
  BY CatalogAssumption DEF WellMade, Alive
<1>5. left \in 0..Lives /\ left < g.lives[team]
  <2> DEFINE cost == LowestTier(fallen, defender)
  <2>1. cost \in Nat \ {0}
    BY <1>2, LowestTierCosts
  <2> HIDE DEF cost
  <2>2. left = IF 0 >= g.lives[team] - cost THEN 0 ELSE g.lives[team] - cost
    BY <1>4, <2>1, MaxOfTwo DEF cost
  <2>3. Lives \in Nat
    BY LengthAssumption
  <2> HIDE DEF left
  <2>4. QED
    BY <1>4, <2>1, <2>2, <2>3
<1> HIDE DEF left, team
<1>6. /\ Changes(fallen, paid, {"coins", "lives"}) /\ paid.lives = [g.lives EXCEPT ![team] = left]
  BY <1>2 DEF Fields, Changes
<1> HIDE DEF paid
<1>7. Changes(paid, over, {"phase"}) /\ IsOver(over) /\ over.phase.winner = Team[attacker]
  BY <1>6 DEF Over, IsOver, Fields, Changes
<1> HIDE DEF over
<1>8. /\ Changes(g, h, {"hero", "resolved", "played", "coins", "lives", "phase"})
      /\ h.resolved = fallen.resolved /\ h.played = fallen.played
      /\ h.lives = [g.lives EXCEPT ![team] = left]
      /\ IF left = 0 THEN IsOver(h) /\ h.phase.winner = Team[attacker] ELSE h.phase = g.phase
  BY <1>2, <1>3, <1>6, <1>7 DEF Changes, Fields
<1>9. h.lane = g.lane /\ h.waves = g.waves
  BY <1>8 DEF Changes, Fields
<1>10. /\ h.lives \in [Teams -> 0..Lives] /\ h.lives[team] = left
       /\ \A t \in Teams : t # team => h.lives[t] = g.lives[t]
  BY <1>4, <1>5, <1>8 DEF WellMade
<1>11. WellMade(h)
  BY <1>2, <1>8, <1>9, <1>10 DEF WellMade, Held, Changes, Fields
<1>12. Alive(h)
  <2>1. CASE left = 0
    BY <1>4, <1>8, <2>1 DEF Alive
  <2>2. CASE left # 0
    BY <1>5, <1>8, <1>9, <1>10, <2>2 DEF Alive, IsOver
  <2>3. QED
    BY <2>1, <2>2
<1>13. IF left = 0 THEN IsOver(h) /\ Winner(h) = Team[attacker] ELSE h.phase = g.phase
  BY <1>8 DEF Winner
<1>14. QED
  BY <1>5, <1>8, <1>9, <1>10, <1>11, <1>12, <1>13 DEF h, team

\* A hero falls: its team loses lives, and the match with the last of them;
\* otherwise the lane may still be pushed once, at the end of the round.
Falls(g, h) ==
    \E team \in Teams, left \in 0..Lives :
      /\ left < g.lives[team] /\ h.lives = [g.lives EXCEPT ![team] = left]
      /\ IF left = 0
         THEN h.lane = g.lane /\ h.waves = g.waves /\ Winner(h) = Opponent(team)
         ELSE Moves(g, h)

\* A card that is played leaves the hand of its player.
LEMMA PlayKeeps ==
    ASSUME NEW g, WellMade(g), NEW p \in Players, NEW c \in g.hand[p]
    PROVE  LET h == [g EXCEPT !.hand[p] = @ \ {c}, !.played[p] = c]
           IN  WellMade(h) /\ Changes(g, h, {"hand", "played"})
<1> DEFINE hand == [g.hand EXCEPT ![p] = @ \ {c}]
           played == [g.played EXCEPT ![p] = c]
           h == [g EXCEPT !.hand[p] = @ \ {c}, !.played[p] = c]
<1>1. Changes(g, h, {"hand", "played"}) /\ h.hand = hand /\ h.played = played
  BY DEF WellMade, Fields, Changes
<1>2. c \in Deck[p] /\ c \in Cards
  BY DEF WellMade, Held
<1>3. hand \in [Players -> SUBSET Cards] /\ played \in [Players -> Cards \union {None}]
  BY <1>2 DEF WellMade
<1>4. \A q \in Players : hand[q] \subseteq Deck[q] /\ played[q] \in Deck[q] \union {None}
  BY <1>2 DEF WellMade, Held
<1> HIDE DEF h, hand, played
<1>5. \A q \in Players : Held(h, q) \subseteq Deck[q] /\ h.played[q] \in Deck[q] \union {None}
  BY <1>1, <1>4 DEF WellMade, Held, Changes, Fields
<1>6. WellMade(h)
  BY <1>1, <1>3, <1>5 DEF WellMade, Changes, Fields
<1>7. QED
  BY <1>1, <1>6 DEF h

\* A card spent on a defense goes to the discards of its player.
LEMMA SpendKeeps ==
    ASSUME NEW g, WellMade(g), NEW defender \in Players, NEW card \in g.hand[defender]
    PROVE  LET h == [g EXCEPT !.hand[defender] = @ \ {card},
                              !.discard[defender] = @ \union {card}]
           IN  WellMade(h) /\ Changes(g, h, {"hand", "discard"})
<1> DEFINE hand == [g.hand EXCEPT ![defender] = @ \ {card}]
           discard == [g.discard EXCEPT ![defender] = @ \union {card}]
           h == [g EXCEPT !.hand[defender] = @ \ {card}, !.discard[defender] = @ \union {card}]
<1>1. h.hand = hand /\ h.discard = discard /\ Changes(g, h, {"hand", "discard"})
  BY DEF WellMade, Fields, Changes
<1>2. card \in Cards /\ card \in Deck[defender]
  BY DEF WellMade, Held
<1>3. hand \in [Players -> SUBSET Cards] /\ discard \in [Players -> SUBSET Cards]
  BY <1>2 DEF WellMade
<1>4. \A p \in Players : hand[p] \subseteq Deck[p] /\ discard[p] \subseteq Deck[p]
  BY <1>2 DEF WellMade, Held
<1> HIDE DEF h, hand, discard
<1>5. \A p \in Players : Held(h, p) \subseteq Deck[p]
  BY <1>1, <1>4 DEF WellMade, Held, Changes, Fields
<1>6. WellMade(h)
  BY <1>1, <1>3, <1>5 DEF WellMade, Changes, Fields
<1>7. QED
  BY <1>1, <1>6 DEF h

\* A defense that holds hands the game on; one that does not costs lives first.
LEMMA DefenseHands ==
    ASSUME NEW g, WellMade(g), Alive(g), Asked(g), NEW defender \in Players,
           g.phase.type = "Defend", g.phase.defender = defender,
           NEW card \in g.hand[defender] \union {None}
    PROVE  LET h == ResolveDefense(g, defender, card) IN
           /\ WellMade(h) /\ Alive(h) /\ Ordered(h) /\ Asked(h)
           /\ Falls(g, h) \/ (h.lives = g.lives /\ Moves(g, h))
<1> DEFINE attacker == g.phase.attacker
           spending == [g EXCEPT !.hand[defender] = @ \ {card},
                                 !.discard[defender] = @ \union {card}]
           spent == IF card = None THEN g ELSE spending
           total == Max({0, Catalog[card].defense + ItemBonus(g, defender, "Defense")
                              + DefenseModifiers(g, defender)})
           holds == card # None /\ total >= g.phase.total
           fallen == DefeatHero(spent, defender, attacker)
           after == IF holds THEN spent ELSE fallen
           next == [after EXCEPT !.phase = [type |-> "Act", player |-> attacker]]
           h == ResolveDefense(g, defender, card)
<1>1. /\ attacker \in Players /\ Team[defender] # Team[attacker] /\ g.hero[defender] # Nowhere
      /\ ~IsOver(g)
  BY DEF Asked, ActorsOf, Left, IsOver
<1>2. h = IF IsOver(after) THEN after ELSE FinishAction(next, attacker)
  BY <1>1 DEF ResolveDefense, Expect
<1>3. WellMade(spent) /\ Changes(g, spent, {"hand", "discard"})
  <2>1. CASE card = None
    BY <2>1 DEF Changes, WellMade
  <2>2. CASE card # None
    BY <2>2, SpendKeeps
  <2>3. QED
    BY <2>1, <2>2
<1> HIDE DEF spent, h, holds, attacker
<1>4. /\ spent.lane = g.lane /\ spent.waves = g.waves /\ spent.lives = g.lives
      /\ spent.phase = g.phase
  BY <1>3 DEF Changes, Fields
<1>5. Alive(spent) /\ ~IsOver(spent)
  BY <1>1, <1>4 DEF Alive, IsOver
<1>6. g.lives \in [Teams -> 0..Lives] /\ Team[defender] \in Teams
      /\ Team[attacker] = Opponent(Team[defender])
  BY <1>1, CatalogAssumption DEF WellMade, Teams, Opponent
<1>7. /\ WellMade(after) /\ Alive(after)
      /\ after.lane = g.lane /\ after.waves = g.waves
      /\ \/ after.lives = g.lives /\ after.phase = g.phase
         \/ /\ after.lives \in [Teams -> 0..Lives]
            /\ after.lives[Team[defender]] < g.lives[Team[defender]]
            /\ after.lives = [g.lives EXCEPT ![Team[defender]] = after.lives[Team[defender]]]
            /\ IF after.lives[Team[defender]] = 0
               THEN IsOver(after) /\ Winner(after) = Team[attacker]
               ELSE after.phase = g.phase
  <2>1. CASE holds
    BY <1>3, <1>4, <1>5, <2>1
  <2>2. CASE ~holds
    <3>1. after = fallen
      BY <2>2
    <3> HIDE DEF after
    <3>2. QED
      BY <1>1, <1>3, <1>4, <1>5, <3>1, DefeatHeroCosts
  <2>3. QED
    BY <2>1, <2>2
<1> HIDE DEF after
<1>8. CASE IsOver(after)
  <2>1. h = after /\ ActorsOf(h) = {}
    BY <1>2, <1>8 DEF ActorsOf, IsOver
  <2>2. Ordered(h) /\ Asked(h)
    BY <1>8, <2>1 DEF Ordered, Asked, IsOver
  <2>3. after.lives[Team[defender]] = 0
    BY <1>1, <1>7, <1>8 DEF IsOver
  <2>4. 0 \in 0..Lives
    BY LengthAssumption
  <2>5. Falls(g, h)
    <3>1. after.phase # g.phase
      BY <1>1, <1>8 DEF IsOver
    <3>2. QED
      BY <1>6, <1>7, <2>1, <2>3, <2>4, <3>1 DEF Falls
  <2>6. QED
    BY <1>7, <2>1, <2>2, <2>5 DEF h
<1>9. CASE ~IsOver(after)
  <2>1. Changes(after, next, {"phase"}) /\ next.phase.type = "Act" /\ next.lives = after.lives
        /\ next.lane = after.lane /\ next.waves = after.waves
    BY <1>7 DEF WellMade, Fields, Changes
  <2> HIDE DEF next
  <2>2. WellMade(next)
    BY <1>7, <2>1, StaysWellMade DEF Changes, Fields, Made
  <2>3. Alive(next) /\ ~IsOver(next) /\ ~Panicked(next)
    BY <1>7, <1>9, <2>1 DEF Alive, IsOver, Panicked
  <2>4. HandedOn(next, h)
    BY <1>1, <1>2, <1>9, <2>2, <2>3, FinishActionHands
  <2>5. next.lane = g.lane /\ next.waves = g.waves /\ Winner(next) = Winner(g)
    BY <1>1, <1>7, <2>1, <2>3 DEF Winner
  <2>6. Moves(g, h)
    BY <2>4, <2>5 DEF HandedOn, Moves, Stays, Pushes
  <2>7. CASE after.lives = g.lives
    BY <2>1, <2>4, <2>6, <2>7 DEF HandedOn, h
  <2>8. CASE after.lives # g.lives
    <3>1. after.lives[Team[defender]] # 0
      BY <1>7, <1>9, <2>8
    <3>2. after.lives[Team[defender]] \in 0..Lives
      BY <1>6, <1>7, <2>8
    <3>3. Falls(g, h)
      <4> DEFINE t == Team[defender]
                 left == after.lives[t]
      <4>1. h.lives = after.lives
        BY <2>1, <2>4 DEF HandedOn
      <4>2. t \in Teams /\ left \in 0..Lives /\ left < g.lives[t] /\ left # 0
            /\ after.lives = [g.lives EXCEPT ![t] = left]
        BY <1>6, <1>7, <2>8, <3>1, <3>2
      <4> HIDE DEF t, left
      <4>3. QED
        BY <2>6, <4>1, <4>2 DEF Falls
    <3>4. QED
      BY <2>4, <3>3 DEF HandedOn, h
  <2>9. QED
    BY <2>7, <2>8
<1>10. QED
  BY <1>8, <1>9

-----------------------------------------------------------------------------
(* The game *)

\* What holds of the game between two actions.
GameInv == WellMade(game) /\ Alive(game) /\ Ordered(game) /\ Asked(game)

\* A new game is in order, and is a new match.
LEMMA GameInit ==
    ASSUME Init
    PROVE  GameInv /\ Match!Init /\ ~IsOver(game)
<1> DEFINE fresh(coin) ==
        [hero |-> [p \in Players |-> StartingHex(p)], minions |-> {},
         hand |-> [p \in Players |-> StartingHand(p)], played |-> [p \in Players |-> None],
         resolved |-> [p \in Players |-> {}], discard |-> [p \in Players |-> {}],
         deck |-> [p \in Players |-> Deck[p] \ StartingHand(p)],
         items |-> [p \in Players |-> {}], ultimate |-> [p \in Players |-> {}],
         coins |-> [p \in Players |-> 0], level |-> [p \in Players |-> 1],
         passed |-> [p \in Players |-> FALSE], leveled |-> [p \in Players |-> FALSE],
         owed |-> [p \in Players |-> 0], lane |-> (Len(Lane) + 1) \div 2, round |-> 1, turn |-> 1,
         waves |-> Waves, lives |-> [team \in Teams |-> Lives],
         coin |-> coin, flip |-> FALSE, phase |-> [type |-> "Play"]]
<1>1. PICK coin \in Teams : game = RespawnMinions(fresh(coin))
  BY DEF Init
<1> DEFINE g == fresh(coin)
<1>2. /\ DOMAIN g = Fields
      /\ g.hand = [p \in Players |-> StartingHand(p)] /\ g.played = [p \in Players |-> None]
      /\ g.resolved = [p \in Players |-> {}] /\ g.discard = [p \in Players |-> {}]
      /\ g.deck = [p \in Players |-> Deck[p] \ StartingHand(p)]
      /\ g.items = [p \in Players |-> {}] /\ g.passed = [p \in Players |-> FALSE]
      /\ g.lane = (Len(Lane) + 1) \div 2 /\ g.waves = Waves
      /\ g.lives = [team \in Teams |-> Lives] /\ g.coin = coin /\ g.flip = FALSE
      /\ g.phase.type = "Play"
  BY DEF Fields
<1> HIDE DEF g
<1>3. Changes(g, game, {"minions"})
  BY <1>1, <1>2 DEF RespawnMinions, Changes, Fields, g
<1>4. Len(Lane) \in Nat /\ Len(Lane) >= 3 /\ Len(Lane) % 2 = 1
  BY LaneLength
<1>5. g.lane \in 2..(Len(Lane) - 1)
  BY <1>2, <1>4
<1>6. WellMade(game)
  <2>1. \A p \in Players : StartingHand(p) \subseteq Deck[p]
    BY DEF StartingHand
  <2>2. WellMade(g)
    <3>1. /\ g.hand \in [Players -> SUBSET Cards] /\ g.deck \in [Players -> SUBSET Cards]
          /\ g.resolved \in [Players -> SUBSET Cards] /\ g.discard \in [Players -> SUBSET Cards]
          /\ g.items \in [Players -> SUBSET Cards]
      BY <1>2, <2>1 DEF Cards
    <3>2. /\ g.played \in [Players -> Cards \union {None}]
          /\ g.lives \in [Teams -> 0..Lives] /\ g.lane \in 1..Len(Lane) /\ g.waves \in Nat
      BY <1>2, <1>4, <1>5, LengthAssumption
    <3>3. \A p \in Players : Held(g, p) \subseteq Deck[p] /\ g.played[p] \in Deck[p] \union {None}
      BY <1>2, <2>1 DEF Held
    <3>4. QED
      BY <1>1, <1>2, <3>1, <3>2, <3>3 DEF WellMade
  <2>3. QED
    BY <1>3, <2>2, StaysWellMade DEF Changes, Fields, Made
<1>7. /\ game.lane = g.lane /\ game.waves = g.waves /\ game.lives = g.lives
      /\ game.phase = g.phase /\ game.flip = g.flip /\ game.played = g.played
      /\ game.passed = g.passed
  BY <1>3 DEF Changes, Fields
<1>8. Alive(game) /\ ~IsOver(game)
  BY <1>2, <1>5, <1>7, LengthAssumption DEF Alive, IsOver
<1>9. ActorsOf(game) = {}
  BY <1>2, <1>7 DEF ActorsOf
<1>10. Ordered(game)
  BY <1>2, <1>7, <1>9 DEF Ordered
<1>11. Asked(game)
  <2>1. 1 \in Players
    BY CatalogAssumption DEF Players
  <2>2. QED
    BY <1>2, <1>7, <1>9, <2>1 DEF Asked
<1>12. Match!Init
  BY <1>2, <1>7, <1>8 DEF Match!Init, Teams, Match!Teams
<1>13. QED
  BY <1>6, <1>8, <1>10, <1>11, <1>12 DEF GameInv

\* One action pushes the lane at most twice, the second time only if the first has
\* not ended the match.
Twice(g, h) == \E k : Moves(g, k) /\ Moves(k, h) /\ (IsOver(k) => Stays(k, h))

\* What an action makes of the game.
Advanced(g, h) ==
    /\ WellMade(h) /\ Alive(h) /\ Ordered(h) /\ Asked(h)
    /\ Falls(g, h) \/ (h.lives = g.lives /\ Twice(g, h))

\* A game that is handed on from where the lane has not moved has advanced.
LEMMA HandedAdvances ==
    ASSUME NEW g, NEW k, NEW h, ~IsOver(g), ~IsOver(k), k.lane = g.lane, k.waves = g.waves,
           k.lives = g.lives, HandedOn(k, h)
    PROVE  Advanced(g, h)
<1>1. Stays(g, k) /\ Moves(g, k)
  BY DEF Moves, Stays, Winner
<1>2. Twice(g, h)
  BY <1>1 DEF Twice, HandedOn
<1>3. QED
  BY <1>2 DEF Advanced, HandedOn

\* Cards are played while the coin is not due to flip.
LEMMA PlaysAdvance ==
    ASSUME GameInv, NEW p \in Players, PlayCard(p) \/ Pass(p)
    PROVE  Advanced(game, game')
<1>1. /\ WellMade(game) /\ Alive(game) /\ game.phase.type = "Play" /\ ~game.flip
      /\ game.played[p] = None
  BY DEF GameInv, PlayCard, Pass, Playing, Ordered, ActorsOf, IsOver
<1>2. ~IsOver(game)
  BY <1>1 DEF IsOver
<1>3. CASE Pass(p)
  <2> DEFINE k == [game EXCEPT !.passed[p] = TRUE]
  <2>1. Changes(game, k, {"passed"}) /\ game' = AfterPlay(k)
    BY <1>1, <1>3 DEF Pass, WellMade, Fields, Changes
  <2> HIDE DEF k
  <2>2. WellMade(k)
    BY <1>1, <2>1, StaysWellMade DEF Changes, Fields, Made
  <2>3. /\ k.lane = game.lane /\ k.waves = game.waves /\ k.lives = game.lives
        /\ k.phase = game.phase /\ k.flip = game.flip
    BY <2>1 DEF Changes, Fields
  <2>4. Alive(k) /\ ~IsOver(k)
    BY <1>1, <1>2, <2>3 DEF Alive, IsOver
  <2>5. QED
    BY <1>1, <1>2, <2>1, <2>2, <2>3, <2>4, AfterPlayHands, HandedAdvances
<1>4. CASE PlayCard(p)
  <2>1. PICK c \in game.hand[p] :
          game' = AfterPlay([game EXCEPT !.hand[p] = @ \ {c}, !.played[p] = c])
    BY <1>4 DEF PlayCard
  <2> DEFINE k == [game EXCEPT !.hand[p] = @ \ {c}, !.played[p] = c]
  <2>2. WellMade(k) /\ Changes(game, k, {"hand", "played"})
    BY <1>1, PlayKeeps
  <2>6. game' = AfterPlay(k)
    BY <2>1
  <2> HIDE DEF k
  <2>9. /\ k.lane = game.lane /\ k.waves = game.waves /\ k.lives = game.lives
        /\ k.phase = game.phase /\ k.flip = game.flip
    BY <2>2 DEF Changes, Fields
  <2>10. Alive(k) /\ ~IsOver(k)
    BY <1>1, <1>2, <2>9 DEF Alive, IsOver
  <2>11. QED
    BY <1>1, <1>2, <2>2, <2>6, <2>9, <2>10, AfterPlayHands, HandedAdvances
<1>5. QED
  BY <1>3, <1>4

\* Choosing, respawning and attacking a hero leave the one to act as it was found.
LEMMA AskedAdvance ==
    ASSUME GameInv, NEW p \in Players, ChooseActor(p) \/ Respawn(p) \/ AttackHero(p)
    PROVE  Advanced(game, game')
<1>1. /\ WellMade(game) /\ Alive(game) /\ Ordered(game) /\ Asked(game) /\ ~IsOver(game)
      /\ p \in ActorsOf(game)
  BY DEF GameInv, ChooseActor, Respawn, AttackHero, OnBoard, Acting, IsOver, ActorsOf
<1>2. /\ Changes(game, game', {"phase", "hero"})
      /\ game'.phase.type \in {"Act", "Defend"}
      /\ ActorsOf(game') = {p}
      /\ game'.phase.type = "Defend" =>
           /\ game'.phase.defender \in Players /\ game'.phase.attacker = p
           /\ game'.hero[game'.phase.defender] # Nowhere
           /\ Team[game'.phase.defender] # Team[p]
  <2>1. CASE ChooseActor(p)
    <3>1. game' = [game EXCEPT !.phase = [type |-> "Act", player |-> p]]
      BY <2>1 DEF ChooseActor
    <3>2. Changes(game, game', {"phase"}) /\ game'.phase.type = "Act" /\ game'.phase.player = p
      BY <1>1, <3>1 DEF WellMade, Fields, Changes
    <3>3. QED
      BY <3>2 DEF Changes, ActorsOf
  <2>2. CASE Respawn(p)
    <3>1. PICK h : game' = [game EXCEPT !.hero[p] = h]
      BY <2>2 DEF Respawn, Place
    <3>2. Changes(game, game', {"hero"}) /\ game'.phase = game.phase
      BY <1>1, <3>1 DEF WellMade, Fields, Changes
    <3>3. game.phase.type = "Act" /\ game.phase.player = p
      BY <2>2 DEF Respawn, Acting
    <3>4. QED
      BY <3>2, <3>3 DEF Changes, ActorsOf
  <2>3. CASE AttackHero(p)
    <3>1. PICK q \in Players :
            /\ Team[q] # Team[p] /\ InReach(p, game.hero[q])
            /\ game' = [game EXCEPT !.phase =
                 [type |-> "Defend", attacker |-> p, defender |-> q,
                  total |-> Played(p).attack + ItemBonus(game, p, "Attack")]]
      BY <2>3 DEF AttackHero
    <3>2. /\ Changes(game, game', {"phase"}) /\ game'.phase.type = "Defend"
          /\ game'.phase.attacker = p /\ game'.phase.defender = q
          /\ game'.hero = game.hero
      BY <1>1, <3>1 DEF WellMade, Fields, Changes
    <3>3. game.hero[q] # Nowhere
      BY <3>1 DEF InReach
    <3>4. QED
      BY <3>1, <3>2, <3>3 DEF Changes, ActorsOf
  <2>4. QED
    BY <2>1, <2>2, <2>3
<1>3. /\ game'.lane = game.lane /\ game'.waves = game.waves /\ game'.lives = game.lives
      /\ game'.played = game.played /\ game'.items = game.items
      /\ game'.flip = game.flip /\ game'.coin = game.coin
  BY <1>2 DEF Changes, Fields
<1>4. WellMade(game')
  BY <1>1, <1>2, StaysWellMade DEF Changes, Fields, Made
<1>5. Alive(game') /\ ~IsOver(game') /\ Stays(game, game')
  BY <1>1, <1>2, <1>3 DEF Alive, IsOver, Stays, Winner
<1>6. Left(game') = Left(game) /\ \A q \in Players : Initiative(game', q) = Initiative(game, q)
  BY <1>3 DEF Left, Initiative, ItemBonus
<1>7. Ordered(game')
  BY <1>1, <1>2, <1>3, <1>6 DEF Ordered, Left
<1>8. Asked(game')
  BY <1>1, <1>2, <1>6 DEF Asked
<1>9. Twice(game, game')
  BY <1>5 DEF Twice, Moves, Stays
<1>10. QED
  BY <1>3, <1>4, <1>5, <1>7, <1>8, <1>9 DEF Advanced

\* An action that ends hands the game on.
LEMMA ActionsAdvance ==
    ASSUME GameInv, NEW p \in Players,
           Move(p) \/ FastTravel(p) \/ AttackMinion(p) \/ Hold(p)
    PROVE  Advanced(game, game')
<1>1. WellMade(game) /\ Alive(game) /\ ~IsOver(game) /\ ~Panicked(game)
  BY DEF GameInv, Move, FastTravel, AttackMinion, Hold, OnBoard, Acting, IsOver, Panicked
<1>2. CASE Hold(p)
  BY <1>1, <1>2, FinishActionHands, HandedAdvances DEF Hold
<1>3. CASE Move(p) \/ FastTravel(p)
  <2>1. PICK h : game' = FinishAction([game EXCEPT !.hero[p] = h], p)
    BY <1>3 DEF Move, FastTravel, Place
  <2> DEFINE k == [game EXCEPT !.hero[p] = h]
  <2>2. Changes(game, k, {"hero"})
    BY <1>1 DEF WellMade, Fields, Changes
  <2>3. game' = FinishAction(k, p)
    BY <2>1
  <2> HIDE DEF k
  <2>4. WellMade(k)
    BY <1>1, <2>2, StaysWellMade DEF Changes, Fields, Made
  <2>5. /\ k.lane = game.lane /\ k.waves = game.waves /\ k.lives = game.lives
        /\ k.phase = game.phase
    BY <2>2 DEF Changes, Fields
  <2>6. Alive(k) /\ ~IsOver(k) /\ ~Panicked(k)
    BY <1>1, <2>5 DEF Alive, IsOver, Panicked
  <2>7. QED
    BY <1>1, <2>3, <2>4, <2>5, <2>6, FinishActionHands, HandedAdvances
<1>4. CASE AttackMinion(p)
  <2>1. PICK m \in game.minions : game' = FinishAction(DefeatMinion(game, m, p), p)
    BY <1>4 DEF AttackMinion
  <2> DEFINE k == DefeatMinion(game, m, p)
  <2>2. /\ WellMade(k) /\ Alive(k) /\ Moves(game, k)
        /\ Changes(game, k, {"coins", "minions", "lane", "waves", "phase"})
        /\ IsOver(k) \/ k.phase = game.phase
    BY <1>1, DefeatMinionPushes
  <2>3. game' = FinishAction(k, p)
    BY <2>1
  <2> HIDE DEF k
  <2>4. ~Panicked(k) /\ k.lives = game.lives
    BY <1>1, <2>2 DEF IsOver, Panicked, Changes, Fields
  <2>5. HandedOn(k, game') /\ (IsOver(k) => Stays(k, game'))
    BY <2>2, <2>3, <2>4, FinishActionHands
  <2>6. QED
    BY <2>2, <2>4, <2>5 DEF Advanced, HandedOn, Twice
<1>5. QED
  BY <1>2, <1>3, <1>4

\* A defense advances the game.
LEMMA DefendsAdvance ==
    ASSUME GameInv, NEW p \in Players, Defend(p)
    PROVE  Advanced(game, game')
<1>1. WellMade(game) /\ Alive(game) /\ Asked(game)
  BY DEF GameInv
<1>2. PICK card \in game.hand[p] \union {None} : game' = ResolveDefense(game, p, card)
  BY DEF Defend
<1>3. game.phase.type = "Defend" /\ game.phase.defender = p
  BY DEF Defend
<1>4. /\ WellMade(game') /\ Alive(game') /\ Ordered(game') /\ Asked(game')
      /\ Falls(game, game') \/ (game'.lives = game.lives /\ Moves(game, game'))
  BY <1>1, <1>2, <1>3, DefenseHands
<1>5. Moves(game, game') => Twice(game, game')
  BY DEF Twice, Moves, Stays
<1>6. QED
  BY <1>4, <1>5 DEF Advanced

\* The piles an upgrade leaves hold cards of the player, and only those.
LEMMA UpgradeKeeps ==
    ASSUME NEW g, WellMade(g), NEW p \in Players, NEW out \in g.hand[p], NEW take \in g.deck[p]
    PROVE  LET h == UpgradeCard(g, p, out, take) IN
           /\ WellMade(h)
           /\ \/ Panicked(h) /\ Changes(g, h, {"phase"})
              \/ Changes(g, h, {"hand", "deck", "items", "owed"})
<1> DEFINE siblings == {c \in g.deck[p] \ {take} : /\ Catalog[c].color = Catalog[take].color
                                                   /\ Catalog[c].tier = Catalog[take].tier}
           sibling == CHOOSE c \in siblings : TRUE
           hand == [g.hand EXCEPT ![p] = (@ \ {out}) \union {take}]
           deck == [g.deck EXCEPT ![p] = (@ \union {out}) \ {take, sibling}]
           items == [g.items EXCEPT ![p] = @ \union {sibling}]
           bad == [g EXCEPT !.phase = [type |-> "Panic"]]
           good == [g EXCEPT !.hand[p] = (@ \ {out}) \union {take},
                             !.deck[p] = (@ \union {out}) \ {take, sibling},
                             !.items[p] = @ \union {sibling},
                             !.owed[p] = @ - 1]
           h == UpgradeCard(g, p, out, take)
<1>1. siblings \subseteq g.deck[p]
  OBVIOUS
<1>2. h = IF siblings # {} THEN good ELSE bad
  BY DEF UpgradeCard, Expect
<1> HIDE DEF siblings, h
<1>3. Changes(g, bad, {"phase"}) /\ Panicked(bad)
  BY DEF WellMade, Fields, Changes, Panicked
<1>4. siblings # {} => sibling \in g.deck[p]
  BY <1>1
<1> HIDE DEF sibling
<1>5. /\ Changes(g, good, {"hand", "deck", "items", "owed"})
      /\ good.hand = hand /\ good.deck = deck /\ good.items = items
  BY DEF WellMade, Fields, Changes
<1>6. CASE siblings = {}
  <2>1. h = bad
    BY <1>2, <1>6
  <2> HIDE DEF bad
  <2>2. WellMade(h)
    BY <1>3, <2>1, StaysWellMade DEF Changes, Fields, Made
  <2>3. QED
    BY <1>3, <2>1, <2>2 DEF h
<1>7. CASE siblings # {}
  <2>1. h = good /\ sibling \in Deck[p] /\ out \in Deck[p] /\ take \in Deck[p]
    BY <1>2, <1>4, <1>7 DEF WellMade, Held
  <2>2. /\ hand \in [Players -> SUBSET Cards] /\ deck \in [Players -> SUBSET Cards]
        /\ items \in [Players -> SUBSET Cards]
    BY <2>1 DEF WellMade, Cards
  <2>3. \A q \in Players : hand[q] \subseteq Deck[q] /\ deck[q] \subseteq Deck[q] /\ items[q] \subseteq Deck[q]
    BY <2>1 DEF WellMade, Held
  <2> HIDE DEF good, hand, deck, items
  <2>4. \A q \in Players : Held(h, q) \subseteq Deck[q]
    BY <1>5, <2>1, <2>3 DEF WellMade, Held, Changes, Fields
  <2>5. WellMade(h)
    BY <1>5, <2>1, <2>2, <2>4 DEF WellMade, Changes, Fields
  <2>6. QED
    BY <1>5, <2>1, <2>5 DEF h
<1>8. QED
  BY <1>6, <1>7

\* An upgrade ends the level-up or leaves it to those who are still owed one.
LEMMA UpgradesAdvance ==
    ASSUME GameInv, NEW p \in Players, Upgrade(p)
    PROVE  Advanced(game, game')
<1>1. /\ WellMade(game) /\ Alive(game) /\ game.phase.type = "LevelUp" /\ ~game.flip
      /\ \A q \in Players : game.played[q] = None /\ ~game.passed[q]
      /\ ~IsOver(game)
  BY DEF GameInv, Upgrade, Asked, Ordered, ActorsOf, IsOver
<1>2. PICK out \in game.hand[p], take \in game.deck[p] :
        game' = ContinueLevelUps(UpgradeCard(game, p, out, take))
  BY DEF Upgrade, UpgradeChoices
<1> DEFINE k == UpgradeCard(game, p, out, take)
<1>3. /\ WellMade(k)
      /\ \/ Panicked(k) /\ Changes(game, k, {"phase"})
         \/ Changes(game, k, {"hand", "deck", "items", "owed"})
  BY <1>1, UpgradeKeeps
<1>4. game' = ContinueLevelUps(k)
  BY <1>2
<1> HIDE DEF k
<1>5. /\ k.lane = game.lane /\ k.waves = game.waves /\ k.lives = game.lives
      /\ k.flip = game.flip /\ k.played = game.played /\ k.passed = game.passed
  BY <1>3 DEF Changes, Fields
<1>6. ~IsOver(k)
  BY <1>1, <1>3 DEF Changes, Fields, IsOver, Panicked
<1>7. Alive(k) /\ Stays(game, k)
  BY <1>1, <1>5, <1>6 DEF Alive, Stays, Winner
<1>8. CASE Panicked(k)
  <2>1. game' = k
    BY <1>4, <1>8 DEF ContinueLevelUps
  <2>2. ActorsOf(k) = {} /\ Asked(k)
    BY <1>8 DEF ActorsOf, Panicked, Asked
  <2>3. Ordered(k)
    BY <1>1, <1>5, <2>2 DEF Ordered
  <2>4. Twice(game, k)
    <3>1. Moves(game, k) /\ Moves(k, k) /\ Stays(k, k)
      BY <1>7 DEF Moves, Stays
    <3>2. QED
      BY <3>1 DEF Twice
  <2>5. QED
    BY <1>3, <1>5, <1>7, <2>1, <2>2, <2>3, <2>4 DEF Advanced
<1>9. CASE ~Panicked(k)
  <2>1. TurnEnded(k, game') /\ Stays(k, game')
    BY <1>3, <1>4, <1>6, <1>7, <1>9, LevelUpsEnd
  <2>2. ActorsOf(game') = {}
    BY <2>1 DEF TurnEnded, ActorsOf, IsOver
  <2>3. Ordered(game')
    BY <1>1, <1>5, <2>1, <2>2 DEF Ordered, TurnEnded
  <2>4. 1 \in Players
    BY CatalogAssumption DEF Players
  <2>5. Asked(game')
    BY <1>1, <1>5, <2>1, <2>2, <2>4 DEF Asked, TurnEnded, IsOver
  <2>6. QED
    BY <1>5, <1>7, <2>1, <2>3, <2>5 DEF Advanced, Twice, Moves, TurnEnded
<1>10. QED
  BY <1>8, <1>9

\* Every action keeps the invariant and pushes or spends what it may.
LEMMA GameStep ==
    ASSUME GameInv, NEW p \in Players, Act(p)
    PROVE  Advanced(game, game') /\ ~IsOver(game)
<1>1. Advanced(game, game')
  BY PlaysAdvance, AskedAdvance, ActionsAdvance, DefendsAdvance, UpgradesAdvance DEF Act
<1>2. ~IsOver(game)
  BY DEF Act, PlayCard, Pass, Playing, ChooseActor, Respawn, Move, FastTravel, AttackMinion,
         AttackHero, Hold, OnBoard, Acting, Defend, Upgrade, IsOver
<1>3. QED
  BY <1>1, <1>2

-----------------------------------------------------------------------------
(* The abstract match *)

MatchOf(g) == [lane |-> g.lane, waves |-> g.waves, winner |-> Winner(g)]

\* A push of the engine is a push of the match.
LEMMA PushIsPush ==
    ASSUME NEW g, NEW h, ~IsOver(g), NEW team \in Teams, Pushes(g, h, team)
    PROVE  MatchOf(h) = Match!Pushed(MatchOf(g), team)
<1>1. CASE g.waves = 1 \/ Onward(g.lane, team) \in {1, Len(Lane)}
  BY <1>1 DEF Pushes, Onward, MatchOf, Match!Pushed
<1>2. CASE ~(g.waves = 1 \/ Onward(g.lane, team) \in {1, Len(Lane)})
  BY <1>2 DEF Pushes, Onward, MatchOf, Match!Pushed, Winner
<1>3. QED
  BY <1>1, <1>2

\* A game whose lane moved has been pushed, in the match too.
LEMMA MoveIsPush ==
    ASSUME NEW g, NEW h, ~IsOver(g), Moves(g, h)
    PROVE  \/ MatchOf(h) = MatchOf(g)
           \/ \E team \in Teams : MatchOf(h) = Match!Pushed(MatchOf(g), team)
BY PushIsPush DEF Moves, Stays, MatchOf

\* One or two pushes, or none, are a step of the match.
LEMMA TwiceIsPush ==
    ASSUME NEW g, NEW h, ~IsOver(g), Twice(g, h)
    PROVE  \/ MatchOf(h) = MatchOf(g)
           \/ \E first, second \in Teams :
                LET once == Match!Pushed(MatchOf(g), first) IN
                MatchOf(h) \in {once, IF once.winner = "none" THEN Match!Pushed(once, second)
                                      ELSE once}
<1>1. PICK k : Moves(g, k) /\ Moves(k, h) /\ (IsOver(k) => Stays(k, h))
  BY DEF Twice
<1>2. \/ MatchOf(k) = MatchOf(g)
      \/ \E team \in Teams : MatchOf(k) = Match!Pushed(MatchOf(g), team)
  BY <1>1, MoveIsPush
<1>3. CASE IsOver(k)
  <2>1. MatchOf(h) = MatchOf(k)
    BY <1>1, <1>3 DEF Stays, MatchOf
  <2>2. QED
    BY <1>2, <2>1
<1>4. CASE ~IsOver(k)
  <2>1. \/ MatchOf(h) = MatchOf(k)
        \/ \E team \in Teams : MatchOf(h) = Match!Pushed(MatchOf(k), team)
    BY <1>1, <1>4, MoveIsPush
  <2>2. MatchOf(k).winner = "none"
    BY <1>4 DEF MatchOf, Winner
  <2>3. QED
    BY <1>2, <2>1, <2>2
<1>5. QED
  BY <1>3, <1>4

\* What an action makes of the game is a step of the match.
LEMMA MatchStep ==
    ASSUME GameInv, ~IsOver(game), Advanced(game, game')
    PROVE  [Match!Next]_(Match!vars)
<1> DEFINE winner == IF IsOver(game) THEN game.phase.winner ELSE "none"
<1>1. Match!Match = MatchOf(game) /\ (Match!Match)' = MatchOf(game')
  BY DEF Match!Match, MatchOf, Winner
<1>2. Winner(game) = "none"
  BY DEF Winner
<1>3. CASE game'.lives = game.lives /\ Twice(game, game')
  <2>1. CASE MatchOf(game') = MatchOf(game)
    BY <1>3, <2>1 DEF Match!vars, MatchOf, Winner
  <2>2. CASE \E first, second \in Teams :
                LET once == Match!Pushed(MatchOf(game), first) IN
                MatchOf(game') \in {once, IF once.winner = "none" THEN Match!Pushed(once, second)
                                          ELSE once}
    BY <1>1, <1>2, <1>3, <2>2 DEF Match!Next, Match!Push, Winner, Teams, Match!Teams
  <2>3. QED
    BY <1>3, <2>1, <2>2, TwiceIsPush
<1>4. CASE Falls(game, game')
  <2>1. PICK team \in Teams, left \in 0..Lives :
          /\ left < game.lives[team] /\ game'.lives = [game.lives EXCEPT ![team] = left]
          /\ IF left = 0
             THEN game'.lane = game.lane /\ game'.waves = game.waves
                  /\ Winner(game') = Opponent(team)
             ELSE Moves(game, game')
    BY <1>4 DEF Falls
  <2>2. CASE left = 0
    BY <1>2, <2>1, <2>2 DEF Match!Next, Match!Fall, Match!Foe, Opponent, Winner, Match!Teams, Teams
  <2>3. CASE left # 0
    <3>1. \/ MatchOf(game') = MatchOf(game)
          \/ \E w \in Teams : MatchOf(game') = Match!Pushed(MatchOf(game), w)
      BY <2>1, <2>3, MoveIsPush
    <3>2. CASE MatchOf(game') = MatchOf(game)
      BY <1>2, <2>1, <2>3, <3>2 DEF Match!Next, Match!Fall, MatchOf, Winner, Match!Teams, Teams
    <3>3. CASE \E w \in Teams : MatchOf(game') = Match!Pushed(MatchOf(game), w)
      BY <1>1, <1>2, <2>1, <2>3, <3>3 DEF Match!Next, Match!Fall, Winner, Match!Teams, Teams
    <3>4. QED
      BY <3>1, <3>2, <3>3
  <2>4. QED
    BY <2>2, <2>3
<1>5. QED
  BY <1>3, <1>4 DEF Advanced

\* The invariant: cards stay with their players, a match that is not over has
\* counters left, and the phase asks those who can answer, in the right order.
THEOREM GameHoldsTogether == Spec => []GameInv
<1>1. Init => GameInv
  BY GameInit
<1>2. GameInv /\ [Next]_game => GameInv'
  <2> SUFFICES ASSUME GameInv, [Next]_game PROVE GameInv'
    OBVIOUS
  <2>1. CASE UNCHANGED game
    BY <2>1 DEF GameInv
  <2>2. ASSUME NEW p \in Players, Act(p) PROVE GameInv'
    <3>1. Advanced(game, game')
      BY <2>2, GameStep
    <3>2. QED
      BY <3>1 DEF Advanced, GameInv
  <2>3. QED
    BY <2>1, <2>2 DEF Next, Stop
<1>3. QED
  BY <1>1, <1>2, PTL DEF Spec

\* Whoever acts has the highest initiative of those left, and the coin is due to
\* flip exactly while a player acts who was tied with one of the other team.
THEOREM PlayersActInOrder == Spec => []TurnOrder
<1>1. GameInv => TurnOrder
  BY DEF GameInv, Ordered, TurnOrder, Actors, ActorsOf, Left
<1>2. QED
  BY <1>1, GameHoldsTogether, PTL

\* The engine plays the match LaneWar promises: every action pushes the battle as
\* LaneWar allows, spends lives, ends the match, or leaves the match alone.
THEOREM EnginePlaysLaneWar == Spec => PlaysLaneWar
<1>1. Init => Match!Init
  BY GameInit
<1>2. GameInv /\ [Next]_game => [Match!Next]_(Match!vars)
  <2> SUFFICES ASSUME GameInv, [Next]_game PROVE [Match!Next]_(Match!vars)
    OBVIOUS
  <2>1. CASE UNCHANGED game
    BY <2>1 DEF Match!vars, IsOver
  <2>2. ASSUME NEW p \in Players, Act(p) PROVE [Match!Next]_(Match!vars)
    BY <2>2, GameStep, MatchStep
  <2>3. QED
    BY <2>1, <2>2 DEF Next, Stop
<1>3. QED
  BY <1>1, <1>2, GameHoldsTogether, PTL DEF Spec, PlaysLaneWar, Match!Spec

-----------------------------------------------------------------------------
(* The ledger: where the cards of a hero are, and what its levels have paid *)

\* The colours a hero can upgrade, its cards of those, and how many tiers they have.
ColorsOf(p) == {Catalog[c].color : c \in {d \in Deck[p] : Catalog[d].tier = 1}}
TiersOf(p) == {Catalog[c].tier : c \in {d \in Deck[p] : Catalog[d].color \in ColorsOf(p)}}
Colored(p) == {c \in Deck[p] : Catalog[c].color \in ColorsOf(p)}
Top(p) == Cardinality(TiersOf(p))
Basics(p) == {c \in Deck[p] : Basic(c)}
Ultimates(p) == {c \in Deck[p] : Purple(c)}
Cell(p, color, tier) == {c \in Deck[p] : Catalog[c].color = color /\ Catalog[c].tier = tier}

\* A hero owns its basic cards and one of each colour; of every tier it has climbed
\* to, and only of those, it has one item of the colour.
Books(own, deck, items, ult, p) ==
    /\ own \union deck \union items \union ult = Deck[p]
    /\ own \intersect deck = {} /\ own \intersect items = {} /\ own \intersect ult = {}
    /\ deck \intersect items = {} /\ deck \intersect ult = {} /\ items \intersect ult = {}
    /\ Basics(p) \subseteq own /\ own \subseteq Basics(p) \union Colored(p)
    /\ items \subseteq Colored(p) /\ ult \in {{}, Ultimates(p)}
    /\ \A color \in ColorsOf(p) : \E c \in own : Catalog[c].color = color
    /\ \A c, d \in own : Catalog[c].color = Catalog[d].color /\ ~Basic(c) => c = d
    /\ \A c \in items, d \in own :
         Catalog[c].color = Catalog[d].color =>
           2 <= Catalog[c].tier /\ Catalog[c].tier <= Catalog[d].tier
    /\ \A d \in own \intersect Colored(p) : \A t \in 2..Catalog[d].tier :
         \E c \in items : Catalog[c].color = Catalog[d].color /\ Catalog[c].tier = t
    /\ \A c, d \in items :
         Catalog[c].color = Catalog[d].color /\ Catalog[c].tier = Catalog[d].tier => c = d

\* Every level bought gave an item or owes one; the last gave the ultimate.
Paid(level, owed, items, ult, p) ==
    /\ Cardinality(items) + owed = Min({level, MaxLevel - 1}) - 1
    /\ ult = IF level = MaxLevel THEN Ultimates(p) ELSE {}

\* A card a hero owns is in one pile.
Apart(hand, played, resolved, discard) ==
    /\ hand \intersect resolved = {} /\ hand \intersect discard = {}
    /\ resolved \intersect discard = {}
    /\ played \notin hand \union resolved \union discard

Ledger(g) ==
    /\ g.coins \in [Players -> 0..255] /\ g.level \in [Players -> 1..MaxLevel]
    /\ g.owed \in [Players -> Nat] /\ g.ultimate \in [Players -> SUBSET Cards]
    /\ \A p \in Players :
         /\ Apart(g.hand[p], g.played[p], g.resolved[p], g.discard[p])
         /\ Books(Owned(g, p), g.deck[p], g.items[p], g.ultimate[p], p)
         /\ Paid(g.level[p], g.owed[p], g.items[p], g.ultimate[p], p)

\* In a level-up all cards have been collected, and a level is owed.
Banked(g) ==
    g.phase.type = "LevelUp" =>
      /\ \A p \in Players : g.resolved[p] = {} /\ g.discard[p] = {}
      /\ g.owed[g.phase.player] > 0

\* Two cards.
LEMMA PairOf ==
    ASSUME NEW S, IsFiniteSet(S), Cardinality(S) = 2
    PROVE  \E a, b \in S : a # b /\ S = {a, b}
<1>1. PICK a \in S : TRUE
  BY FS_EmptySet
<1>2. IsFiniteSet(S \ {a}) /\ Cardinality(S \ {a}) = 1
  BY <1>1, FS_RemoveElement
<1>3. PICK b : S \ {a} = {b}
  BY <1>2, FS_Singleton
<1>4. QED
  BY <1>1, <1>3

\* The standard shape of a deck, as the other lemmas use it.
LEMMA DeckShape ==
    ASSUME NEW p \in Players
    PROVE  /\ IsFiniteSet(Deck[p]) /\ IsFiniteSet(ColorsOf(p)) /\ Top(p) \in Nat
           /\ \A c \in Colored(p) : /\ ~Basic(c) /\ ~Purple(c)
                                    /\ Catalog[c].color \in ColorsOf(p)
                                    /\ Catalog[c].tier \in 1..Top(p)
           /\ \A color \in ColorsOf(p) : 1 \in 1..Top(p) /\ \E c : Cell(p, color, 1) = {c}
           /\ \A color \in ColorsOf(p), tier \in 2..Top(p) :
                \E c, d : c # d /\ Cell(p, color, tier) = {c, d}
           /\ MaxLevel - 2 = Cardinality(ColorsOf(p)) * (Top(p) - 1)
<1> DEFINE First == {d \in Deck[p] : Catalog[d].tier = 1}
           f == [c \in First |-> Catalog[c].color]
           h == [c \in Colored(p) |-> Catalog[c].tier]
<1>1. IsFiniteSet(Deck[p])
  BY CatalogAssumption
<1>2. IsFiniteSet(First) /\ IsFiniteSet(Colored(p))
  <2>1. First \in SUBSET Deck[p] /\ Colored(p) \in SUBSET Deck[p]
    BY DEF Colored
  <2> HIDE DEF First
  <2>2. QED
    BY <1>1, <2>1, FS_Subset
<1>3. IsFiniteSet(ColorsOf(p))
  <2>1. f \in Surjection(First, ColorsOf(p))
    BY DEF Surjection, ColorsOf
  <2> HIDE DEF f, First
  <2>2. QED
    BY <1>2, <2>1, FS_Surjection
<1>4. IsFiniteSet(TiersOf(p))
  <2>1. h \in Surjection(Colored(p), TiersOf(p))
    BY DEF Surjection, TiersOf, Colored
  <2> HIDE DEF h
  <2>2. QED
    BY <1>2, <2>1, FS_Surjection
<1>5. Top(p) \in Nat
  BY <1>4, FS_CardinalityType DEF Top
<1>6. /\ TiersOf(p) = 1..Top(p) /\ {"Gold", "Silver", "Purple"} \intersect ColorsOf(p) = {}
      /\ \A color \in ColorsOf(p), tier \in TiersOf(p) :
           Cardinality(Cell(p, color, tier)) = IF tier = 1 THEN 1 ELSE 2
      /\ MaxLevel - 2 = Cardinality(ColorsOf(p)) * (Top(p) - 1)
  BY CatalogAssumption DEF TiersOf, ColorsOf, Top, Cell
<1>7. \A c \in Colored(p) : /\ ~Basic(c) /\ ~Purple(c)
                            /\ Catalog[c].color \in ColorsOf(p)
                            /\ Catalog[c].tier \in 1..Top(p)
  <2>1. \A c \in Colored(p) : Catalog[c].color \in ColorsOf(p) /\ Catalog[c].tier \in TiersOf(p)
    BY DEF Colored, TiersOf
  <2>2. QED
    BY <1>6, <2>1 DEF Basic, Purple
<1>8. \A color, tier : IsFiniteSet(Cell(p, color, tier))
  <2>1. \A color, tier : Cell(p, color, tier) \in SUBSET Deck[p]
    BY DEF Cell
  <2>2. QED
    BY <1>1, <2>1, FS_Subset
<1>9. \A color \in ColorsOf(p) : 1 \in 1..Top(p) /\ \E c : Cell(p, color, 1) = {c}
  <2> SUFFICES ASSUME NEW color \in ColorsOf(p)
               PROVE  1 \in 1..Top(p) /\ \E c : Cell(p, color, 1) = {c}
    OBVIOUS
  <2>1. 1 \in TiersOf(p)
    BY DEF TiersOf, ColorsOf
  <2>2. Cardinality(Cell(p, color, 1)) = 1
    BY <1>6, <2>1
  <2>3. QED
    BY <1>6, <1>8, <2>1, <2>2, FS_Singleton
<1>10. \A color \in ColorsOf(p), tier \in 2..Top(p) :
         \E c, d : c # d /\ Cell(p, color, tier) = {c, d}
  <2> SUFFICES ASSUME NEW color \in ColorsOf(p), NEW tier \in 2..Top(p)
               PROVE  \E c, d : c # d /\ Cell(p, color, tier) = {c, d}
    OBVIOUS
  <2>1. tier \in TiersOf(p) /\ tier # 1
    BY <1>5, <1>6
  <2>2. Cardinality(Cell(p, color, tier)) = 2
    BY <1>6, <2>1
  <2>3. QED
    BY <1>8, <2>2, PairOf
<1>11. QED
  BY <1>1, <1>3, <1>5, <1>6, <1>7, <1>9, <1>10

\* A card of the tier above the one a hero owns in its colour waits in the deck.
LEMMA NextTierWaits ==
    ASSUME NEW p \in Players, NEW own, NEW deck, NEW items, NEW ult,
           Books(own, deck, items, ult, p), NEW out \in own, ~Basic(out),
           NEW take \in Deck[p], Catalog[take].color = Catalog[out].color,
           Catalog[take].tier = Catalog[out].tier + 1
    PROVE  take \in deck /\ out \in Colored(p) /\ take \in Colored(p)
<1>1. out \in Colored(p) /\ take \in Colored(p)
  BY DEF Books, Basics, Colored
<1>2. Catalog[out].tier \in Nat /\ Catalog[take].tier # Catalog[out].tier
  BY <1>1, DeckShape
<1>3. take \notin own
  BY <1>2 DEF Books
<1>4. take \notin items
  BY <1>2 DEF Books
<1>5. take \notin ult
  BY <1>1, DeckShape DEF Books, Ultimates
<1>6. QED
  BY <1>1, <1>3, <1>4, <1>5 DEF Books

\* A card replaces one of its colour, a tier lower, and its sibling is the only other
\* card of its colour and tier in the deck.
Replaces(take, out) == /\ ~Basic(out) /\ Catalog[take].color = Catalog[out].color
                       /\ Catalog[take].tier = Catalog[out].tier + 1
Siblings(deck, take, sibling) ==
    \A c \in deck \ {take} :
      Catalog[c].color = Catalog[take].color /\ Catalog[c].tier = Catalog[take].tier
        <=> c = sibling
Upgraded(p, own, deck, items, ult, out, take) ==
    \E sibling \in deck :
      /\ Siblings(deck, take, sibling) /\ sibling \notin items /\ sibling # take
      /\ Books((own \ {out}) \union {take}, (deck \union {out}) \ {take, sibling},
               items \union {sibling}, ult, p)

\* "Every tier has two cards": an upgrade finds the sibling, and keeps the books.
LEMMA UpgradeBooks ==
    ASSUME NEW p \in Players, NEW own, NEW deck, NEW items, NEW ult,
           Books(own, deck, items, ult, p), NEW out \in own, NEW take \in deck,
           Replaces(take, out)
    PROVE  Upgraded(p, own, deck, items, ult, out, take)
<1> USE DEF Replaces
<1> DEFINE color == Catalog[out].color
           tier == Catalog[out].tier + 1
<1>1. take \in Deck[p]
  BY DEF Books
<1>2. out \in Colored(p) /\ take \in Colored(p)
  BY <1>1, NextTierWaits
<1>3. /\ color \in ColorsOf(p) /\ Catalog[out].tier \in Nat \ {0} /\ tier \in 2..Top(p)
      /\ Top(p) \in Nat
  BY <1>2, DeckShape
<1>4. PICK c, d : c # d /\ Cell(p, color, tier) = {c, d}
  <2>1. \A x \in ColorsOf(p), t \in 2..Top(p) : \E c, d : c # d /\ Cell(p, x, t) = {c, d}
    BY DeckShape
  <2> HIDE DEF color, tier
  <2>2. QED
    BY <1>3, <2>1
<1>5. take \in Cell(p, color, tier)
  BY <1>1 DEF Cell
<1>6. PICK sibling : sibling # take /\ Cell(p, color, tier) = {take, sibling}
  BY <1>4, <1>5
<1>7. sibling \in Deck[p] /\ Catalog[sibling].color = color /\ Catalog[sibling].tier = tier
  BY <1>6 DEF Cell
<1>8. sibling \in deck /\ sibling \in Colored(p)
  BY <1>7, NextTierWaits
<1>9. Siblings(deck, take, sibling)
  <2>1. \A e \in deck \ {take} : Catalog[e].color = color /\ Catalog[e].tier = tier => e = sibling
    BY <1>6 DEF Books, Cell
  <2>2. QED
    BY <1>7, <2>1 DEF Siblings
<1> DEFINE own1 == (own \ {out}) \union {take}
           deck1 == (deck \union {out}) \ {take, sibling}
           items1 == items \union {sibling}
<1>10. out # take /\ out # sibling
  BY <1>8 DEF Books
<1>11. sibling \notin items /\ take \notin own
  BY <1>8 DEF Books
<1>12. /\ own1 \union deck1 \union items1 \union ult = Deck[p]
       /\ own1 \intersect deck1 = {} /\ own1 \intersect items1 = {} /\ own1 \intersect ult = {}
       /\ deck1 \intersect items1 = {} /\ deck1 \intersect ult = {} /\ items1 \intersect ult = {}
  BY <1>6, <1>8, <1>10 DEF Books
<1>13. /\ Basics(p) \subseteq own1 /\ own1 \subseteq Basics(p) \union Colored(p)
       /\ items1 \subseteq Colored(p) /\ ult \in {{}, Ultimates(p)}
  BY <1>2, <1>8 DEF Books, Basics
<1>14. \A x \in ColorsOf(p) : \E e \in own1 : Catalog[e].color = x
  BY DEF Books
<1>15. \A e \in own : Catalog[e].color = color => e = out
  <2>1. \A e \in own : Catalog[e].color = color => ~Basic(e)
    BY DEF Basic
  <2>2. QED
    BY <2>1 DEF Books
<1>16. \A e, f \in own1 : Catalog[e].color = Catalog[f].color /\ ~Basic(e) => e = f
  BY <1>15 DEF Books
<1>17. \A e \in items : Catalog[e].color = color => Catalog[e].tier \in 2..(tier - 1)
  BY <1>2, <1>3, DeckShape DEF Books
<1>18. \A e \in items1, f \in own1 :
         Catalog[e].color = Catalog[f].color =>
           2 <= Catalog[e].tier /\ Catalog[e].tier <= Catalog[f].tier
  <2> SUFFICES ASSUME NEW e \in items1, NEW f \in own1, Catalog[e].color = Catalog[f].color
               PROVE  2 <= Catalog[e].tier /\ Catalog[e].tier <= Catalog[f].tier
    OBVIOUS
  <2>1. CASE f = take
    <3>1. Catalog[f].tier = tier /\ Catalog[e].color = color
      BY <2>1
    <3>2. CASE e = sibling
      BY <1>3, <1>7, <3>1, <3>2
    <3>3. CASE e \in items
      <4> HIDE DEF tier, color
      <4> QED BY <1>3, <1>17, <3>1, <3>3
    <3>4. QED
      BY <3>2, <3>3
  <2>2. CASE f # take
    <3>1. f \in own /\ Catalog[f].color # color
      BY <1>15, <2>2
    <3>2. e \in items
      BY <1>7, <3>1
    <3>3. QED
      BY <3>1, <3>2 DEF Books
  <2>3. QED
    BY <2>1, <2>2
<1>19. \A f \in own1 \intersect Colored(p) : \A t \in 2..Catalog[f].tier :
         \E e \in items1 : Catalog[e].color = Catalog[f].color /\ Catalog[e].tier = t
  <2> SUFFICES ASSUME NEW f \in own1 \intersect Colored(p), NEW t \in 2..Catalog[f].tier
               PROVE  \E e \in items1 : Catalog[e].color = Catalog[f].color /\ Catalog[e].tier = t
    OBVIOUS
  <2>1. CASE f = take
    <3>1. t = tier \/ t \in 2..Catalog[out].tier
      BY <1>3, <2>1
    <3>2. CASE t = tier
      BY <1>7, <2>1, <3>2
    <3>3. CASE t \in 2..Catalog[out].tier
      <4>1. \E e \in items : Catalog[e].color = color /\ Catalog[e].tier = t
        BY <1>2, <3>3 DEF Books
      <4>2. QED
        BY <2>1, <4>1
    <3>4. QED
      BY <3>1, <3>2, <3>3
  <2>2. CASE f # take
    BY <2>2 DEF Books
  <2>3. QED
    BY <2>1, <2>2
<1>20. \A e, f \in items1 :
         Catalog[e].color = Catalog[f].color /\ Catalog[e].tier = Catalog[f].tier => e = f
  <2>1. \A e \in items : ~(Catalog[e].color = color /\ Catalog[e].tier = tier)
    BY <1>3, <1>17
  <2>2. QED
    BY <1>7, <2>1 DEF Books
<1>21. Books(own1, deck1, items1, ult, p)
  BY <1>12, <1>13, <1>14, <1>16, <1>18, <1>19, <1>20 DEF Books
<1>22. QED
  BY <1>6, <1>8, <1>9, <1>11, <1>21 DEF Upgraded

\* One card of each colour is as many cards as colours.
LEMMA OnePerColor ==
    ASSUME NEW S, IsFiniteSet(S), NEW C,
           \A s \in S : Catalog[s].color \in C,
           \A x \in C : \E s \in S : Catalog[s].color = x,
           \A s, t \in S : Catalog[s].color = Catalog[t].color => s = t
    PROVE  Cardinality(S) = Cardinality(C)
<1> DEFINE f == [s \in S |-> Catalog[s].color]
<1>1. f \in Bijection(S, C)
  BY DEF Bijection, Injection, Surjection, IsInjective
<1>2. ExistsBijection(S, C)
  BY <1>1 DEF ExistsBijection
<1>3. QED
  BY <1>2, FS_Bijection

\* A hero that has every colour in the last tier has every item there is.
LEMMA AllItems ==
    ASSUME NEW p \in Players, NEW own, NEW deck, NEW items, NEW ult,
           Books(own, deck, items, ult, p),
           \A d \in own \intersect Colored(p) : Catalog[d].tier = Top(p)
    PROVE  Cardinality(items) = Cardinality(ColorsOf(p)) * (Top(p) - 1)
<1> DEFINE f == [c \in items |-> <<Catalog[c].color, Catalog[c].tier>>]
           Cells == ColorsOf(p) \X (2..Top(p))
<1>1. IsFiniteSet(items)
  <2>1. items \in SUBSET Deck[p]
    BY DEF Books
  <2>2. QED
    BY <2>1, DeckShape, FS_Subset
<1>2. \A x \in ColorsOf(p) : \E d \in own \intersect Colored(p) : Catalog[d].color = x
  BY DEF Books, Colored
<1>3. \A c \in items : Catalog[c].color \in ColorsOf(p) /\ Catalog[c].tier \in 2..Top(p)
  <2> SUFFICES ASSUME NEW c \in items
               PROVE  Catalog[c].color \in ColorsOf(p) /\ Catalog[c].tier \in 2..Top(p)
    OBVIOUS
  <2>1. Catalog[c].color \in ColorsOf(p) /\ Catalog[c].tier \in 1..Top(p)
    BY DeckShape DEF Books
  <2>2. PICK d \in own \intersect Colored(p) : Catalog[d].color = Catalog[c].color
    BY <1>2, <2>1
  <2>3. 2 <= Catalog[c].tier
    BY <2>2 DEF Books
  <2>4. QED
    BY <2>1, <2>3, DeckShape
<1>4. \A x \in ColorsOf(p), t \in 2..Top(p) :
        \E c \in items : Catalog[c].color = x /\ Catalog[c].tier = t
  BY <1>2 DEF Books
<1>5. f \in Bijection(items, Cells)
  <2>1. f \in Injection(items, Cells)
    BY <1>3 DEF Injection, IsInjective, Books
  <2>2. f \in Surjection(items, Cells)
    <3>1. \A y \in Cells : \E c \in items : f[c] = y
      BY <1>4
    <3>2. QED
      BY <1>3, <3>1 DEF Surjection
  <2>3. QED
    BY <2>1, <2>2 DEF Bijection
<1>6. Cardinality(Cells) = Cardinality(items)
  <2> HIDE DEF f, Cells
  <2>1. ExistsBijection(items, Cells)
    BY <1>5 DEF ExistsBijection
  <2>2. QED
    BY <1>1, <2>1, FS_Bijection
<1>7. Top(p) \in Nat
  BY DeckShape
<1>8. Cardinality(2..Top(p)) = IF 2 > Top(p) THEN 0 ELSE Top(p) - 1
  BY <1>7, FS_Interval
<1>9. Cardinality(Cells) = Cardinality(ColorsOf(p)) * Cardinality(2..Top(p))
  <2>1. IsFiniteSet(ColorsOf(p)) /\ IsFiniteSet(2..Top(p))
    BY <1>7, DeckShape, FS_Interval
  <2>2. QED
    BY <2>1, FS_Product
<1>10. CASE ColorsOf(p) = {}
  <2>1. Cardinality(ColorsOf(p)) = 0 /\ Cardinality(2..Top(p)) \in Nat
    BY <1>7, <1>8, <1>10, FS_EmptySet
  <2>2. QED
    BY <1>6, <1>7, <1>9, <2>1
<1>11. CASE ColorsOf(p) # {}
  <2>1. Top(p) >= 1
    BY <1>7, <1>11, DeckShape
  <2>2. Cardinality(2..Top(p)) = Top(p) - 1
    BY <1>7, <1>8, <2>1
  <2>3. QED
    BY <1>6, <1>9, <2>2
<1>12. QED
  BY <1>10, <1>11

\* There is a card of the lowest tier owned and one of its colour in the next.
Upgradable(own, deck) ==
    LET tiered == {c \in own : ~Basic(c)} IN
    \E out \in tiered, take \in deck :
      /\ Catalog[out].tier = Min({Catalog[c].tier : c \in tiered})
      /\ Catalog[take].color = Catalog[out].color
      /\ Catalog[take].tier = Catalog[out].tier + 1

\* A hero that is owed a level has a card to upgrade, one of its lowest tier.
LEMMA AnUpgradeWaits ==
    ASSUME NEW p \in Players, NEW own, NEW deck, NEW items, NEW ult,
           Books(own, deck, items, ult, p), NEW level \in 1..MaxLevel, NEW owed \in Nat \ {0},
           Paid(level, owed, items, ult, p)
    PROVE  Upgradable(own, deck)
<1> DEFINE tiered == {c \in own : ~Basic(c)}
           tiers == {Catalog[c].tier : c \in tiered}
           lowest == Min(tiers)
<1>1. tiered = own \intersect Colored(p)
  <2>1. tiered \subseteq Colored(p)
    BY DEF Books, Basics
  <2>2. \A c \in Colored(p) : ~Basic(c)
    BY DeckShape
  <2>3. QED
    BY <2>1, <2>2
<1>2. Top(p) \in Nat /\ \A c \in tiered : Catalog[c].tier \in 1..Top(p)
  BY <1>1, DeckShape
<1>3. Cardinality(items) + owed <= MaxLevel - 2
  <2>1. MaxLevel \in Nat \ {0}
    BY CatalogAssumption
  <2>2. Min({level, MaxLevel - 1}) <= MaxLevel - 1 /\ Min({level, MaxLevel - 1}) \in Int
    BY <2>1 DEF Min
  <2>3. Cardinality(items) \in Nat
    <3>1. items \in SUBSET Deck[p]
      BY DEF Books
    <3>2. QED
      BY <3>1, DeckShape, FS_Subset, FS_CardinalityType
  <2>4. QED
    BY <2>1, <2>2, <2>3 DEF Paid
<1>4. Cardinality(items) \in Nat
  <2>1. items \in SUBSET Deck[p]
    BY DEF Books
  <2>2. QED
    BY <2>1, DeckShape, FS_Subset, FS_CardinalityType
<1>5. \E d \in tiered : Catalog[d].tier # Top(p)
  <2>1. SUFFICES ASSUME \A d \in tiered : Catalog[d].tier = Top(p) PROVE FALSE
    OBVIOUS
  <2>2. Cardinality(items) = Cardinality(ColorsOf(p)) * (Top(p) - 1)
    BY <1>1, <2>1, AllItems
  <2>3. Cardinality(items) = MaxLevel - 2
    BY <2>2, DeckShape
  <2>4. MaxLevel \in Nat
    BY CatalogAssumption
  <2>5. QED
    BY <1>3, <1>4, <2>3, <2>4
<1>6. lowest \in tiers /\ \A t \in tiers : lowest <= t
  <2>1. tiers \subseteq Nat /\ tiers # {}
    BY <1>2, <1>5
  <2> HIDE DEF tiers
  <2>2. QED
    BY <2>1, MinOfNats
<1>7. PICK out \in tiered : Catalog[out].tier = lowest
  BY <1>6
<1> HIDE DEF tiered
<1>8. lowest \in 1..Top(p) /\ lowest # Top(p)
  <2>1. lowest \in 1..Top(p)
    BY <1>2, <1>7
  <2>2. PICK d \in tiered : Catalog[d].tier # Top(p)
    BY <1>5
  <2>3. lowest <= Catalog[d].tier /\ Catalog[d].tier \in 1..Top(p)
    BY <1>2, <1>6
  <2> HIDE DEF lowest, tiers
  <2>4. QED
    BY <1>2, <2>1, <2>2, <2>3
<1> HIDE DEF lowest
<1>9. out \in Colored(p) /\ out \in own /\ ~Basic(out)
  BY <1>1, DeckShape DEF tiered
<1>10. Catalog[out].color \in ColorsOf(p) /\ lowest + 1 \in 2..Top(p)
  BY <1>2, <1>8, <1>9, DeckShape
<1>11. \A x \in ColorsOf(p), t \in 2..Top(p) : \E c, d : c # d /\ Cell(p, x, t) = {c, d}
  BY DeckShape
<1>12. PICK take : take \in Cell(p, Catalog[out].color, lowest + 1)
  BY Z3T(30), <1>10, <1>11
<1>13. take \in deck
  BY <1>7, <1>9, <1>12, NextTierWaits DEF Cell
<1>14. QED
  BY <1>7, <1>12, <1>13 DEF Cell, lowest, tiered, Upgradable

\* The fields the ledger does not look at, and those that say which pile a card a
\* hero owns is in.
Loose == {"hero", "minions", "passed", "leveled", "lane", "round", "turn", "waves", "lives",
          "coin", "flip", "phase"}
OwnPiles == {"hand", "played", "resolved", "discard"}

\* The ledger holds as long as no hero gains or loses a card.
LEMMA LedgerMoves ==
    ASSUME NEW g, NEW h, Ledger(g), Changes(g, h, Loose \union OwnPiles \union {"coins"}),
           h.coins \in [Players -> 0..255],
           \A p \in Players : /\ Owned(h, p) = Owned(g, p)
                              /\ Apart(h.hand[p], h.played[p], h.resolved[p], h.discard[p])
    PROVE  Ledger(h)
<1>1. /\ h.deck = g.deck /\ h.items = g.items /\ h.ultimate = g.ultimate
      /\ h.level = g.level /\ h.owed = g.owed
  BY DEF Changes, Fields, Loose, OwnPiles
<1>2. QED
  BY <1>1 DEF Ledger

\* Coins may change as long as they are bytes.
LEMMA LedgerCoins ==
    ASSUME NEW g, NEW h, Ledger(g), Changes(g, h, Loose \union {"coins"}),
           h.coins \in [Players -> 0..255]
    PROVE  Ledger(h)
<1>1. /\ h.hand = g.hand /\ h.played = g.played /\ h.resolved = g.resolved
      /\ h.discard = g.discard
  BY DEF Changes, Fields, Loose
<1>2. \A p \in Players : /\ Owned(h, p) = Owned(g, p)
                         /\ Apart(h.hand[p], h.played[p], h.resolved[p], h.discard[p])
  BY <1>1 DEF Owned, Ledger
<1>3. Changes(g, h, Loose \union OwnPiles \union {"coins"})
  BY DEF Changes
<1>4. QED
  BY <1>2, <1>3, LedgerMoves

\* The ledger is not touched by what touches neither cards nor levels nor coins.
LEMMA LedgerStays ==
    ASSUME NEW g, NEW h, Ledger(g), Changes(g, h, Loose)
    PROVE  Ledger(h)
<1>1. h.coins = g.coins
  BY DEF Changes, Fields, Loose
<1>2. Changes(g, h, Loose \union {"coins"}) /\ h.coins \in [Players -> 0..255]
  BY <1>1 DEF Changes, Ledger
<1>3. QED
  BY <1>2, LedgerCoins

\* A byte.
LEMMA ByteIsByte == \A n \in Int : U8(n) \in 0..255
BY DEF U8

\* No card of a hero is None.
LEMMA NoneIsNoCard ==
    ASSUME NEW g, WellMade(g), NEW p \in Players
    PROVE  None \notin g.hand[p] \union g.resolved[p] \union g.discard[p]
BY CatalogAssumption DEF WellMade, Held

\* A card that is played leaves the hand.
LEMMA LedgerPlay ==
    ASSUME NEW g, NEW h, WellMade(g), Ledger(g), NEW p \in Players, NEW c \in g.hand[p],
           g.played[p] = None, Changes(g, h, {"hand", "played"}),
           h.hand = [g.hand EXCEPT ![p] = @ \ {c}], h.played = [g.played EXCEPT ![p] = c]
    PROVE  Ledger(h)
<1>1. h.resolved = g.resolved /\ h.discard = g.discard /\ h.coins = g.coins
  BY DEF Changes, Fields
<1>2. c # None /\ c \notin g.resolved[p] /\ c \notin g.discard[p]
  BY NoneIsNoCard DEF Ledger, Apart
<1>3. ASSUME NEW q \in Players
      PROVE  /\ Owned(h, q) = Owned(g, q)
             /\ Apart(h.hand[q], h.played[q], h.resolved[q], h.discard[q])
  <2>1. Apart(g.hand[q], g.played[q], g.resolved[q], g.discard[q])
    BY DEF Ledger
  <2>2. CASE q = p
    <3>1. h.hand[q] = g.hand[q] \ {c} /\ h.played[q] = c
      BY <2>2 DEF WellMade
    <3>2. QED
      BY <1>1, <1>2, <2>1, <2>2, <3>1 DEF Owned, Apart
  <2>3. CASE q # p
    <3>1. h.hand[q] = g.hand[q] /\ h.played[q] = g.played[q]
      BY <2>3 DEF WellMade
    <3>2. QED
      BY <1>1, <2>1, <3>1 DEF Owned
  <2>4. QED
    BY <2>2, <2>3
<1>4. Changes(g, h, Loose \union OwnPiles \union {"coins"})
  BY DEF Changes, OwnPiles
<1>5. h.coins \in [Players -> 0..255]
  BY <1>1 DEF Ledger
<1>6. QED
  BY <1>3, <1>4, <1>5, LedgerMoves

\* A card that is resolved has left the table.
LEMMA LedgerResolve ==
    ASSUME NEW g, WellMade(g), Ledger(g), NEW p \in Players
    PROVE  Ledger(Resolve(g, p))
<1> DEFINE h == Resolve(g, p)
<1>1. /\ h.resolved = [g.resolved EXCEPT ![p] = @ \union ({g.played[p]} \ {None})]
      /\ h.played = [g.played EXCEPT ![p] = None]
      /\ Changes(g, h, {"resolved", "played"})
  BY DEF Resolve, WellMade, Fields, Changes
<1> HIDE DEF h
<1>2. h.hand = g.hand /\ h.discard = g.discard /\ h.coins = g.coins
  BY <1>1 DEF Changes, Fields
<1>3. ASSUME NEW q \in Players
      PROVE  /\ Owned(h, q) = Owned(g, q)
             /\ Apart(h.hand[q], h.played[q], h.resolved[q], h.discard[q])
  <2>1. /\ Apart(g.hand[q], g.played[q], g.resolved[q], g.discard[q])
        /\ None \notin g.hand[q] \union g.resolved[q] \union g.discard[q]
    BY NoneIsNoCard DEF Ledger
  <2>2. CASE q = p
    <3>1. h.resolved[q] = g.resolved[q] \union ({g.played[q]} \ {None}) /\ h.played[q] = None
      BY <1>1, <2>2 DEF WellMade
    <3>2. QED
      BY <1>2, <2>1, <3>1 DEF Owned, Apart
  <2>3. CASE q # p
    <3>1. h.resolved[q] = g.resolved[q] /\ h.played[q] = g.played[q]
      BY <1>1, <2>3 DEF WellMade
    <3>2. QED
      BY <1>2, <2>1, <3>1 DEF Owned
  <2>4. QED
    BY <2>2, <2>3
<1>4. Changes(g, h, Loose \union OwnPiles \union {"coins"})
  BY <1>1 DEF Changes, OwnPiles
<1>5. Ledger(h)
  BY <1>2, <1>3, <1>4, LedgerMoves DEF Ledger
<1>6. QED
  BY <1>5 DEF h

\* At the end of a round, with no card on the table, every card is in hand again.
LEMMA LedgerRetrieve ==
    ASSUME NEW g, WellMade(g), Ledger(g), Left(g) = {}
    PROVE  LET h == Retrieve(g) IN
           Ledger(h) /\ \A p \in Players : h.resolved[p] = {} /\ h.discard[p] = {}
<1> DEFINE h == Retrieve(g)
<1>1. Changes(g, h, {"hand", "resolved", "discard"})
  BY RetrieveKeeps
<1>2. /\ h.hand = [p \in Players |-> g.hand[p] \union g.resolved[p] \union g.discard[p]]
      /\ h.resolved = [p \in Players |-> {}] /\ h.discard = [p \in Players |-> {}]
  BY DEF Retrieve, WellMade, Fields
<1> HIDE DEF h
<1>3. h.played = g.played /\ h.coins = g.coins
  BY <1>1 DEF Changes, Fields
<1>4. ASSUME NEW q \in Players
      PROVE  /\ Owned(h, q) = Owned(g, q)
             /\ Apart(h.hand[q], h.played[q], h.resolved[q], h.discard[q])
  <2>1. None \notin g.hand[q] \union g.resolved[q] \union g.discard[q] /\ g.played[q] = None
    BY NoneIsNoCard DEF Left
  <2>2. /\ h.hand[q] = g.hand[q] \union g.resolved[q] \union g.discard[q]
        /\ h.resolved[q] = {} /\ h.discard[q] = {} /\ h.played[q] = g.played[q]
    BY <1>2, <1>3
  <2>3. QED
    BY <2>1, <2>2 DEF Owned, Apart
<1>5. Changes(g, h, Loose \union OwnPiles \union {"coins"})
  BY <1>1 DEF Changes, OwnPiles
<1>6. Ledger(h)
  BY <1>3, <1>4, <1>5, LedgerMoves DEF Ledger
<1>7. QED
  BY <1>2, <1>6 DEF h

\* Levels cost more the further they go, and nothing if none is bought.
LEMMA PriceIsNat ==
    ASSUME NEW a \in Nat \ {0}, NEW b \in Nat \ {0}, a <= b
    PROVE  Price(a, b) \in Nat /\ Price(a, a) = 0
<1>1. PICK d \in Nat : b = a + d
  <2>1. b - a \in Nat /\ b = a + (b - a)
    OBVIOUS
  <2>2. QED
    BY <2>1
<1>2. b * (b - 1) - a * (a - 1) = d * (a + a + d - 1)
  BY <1>1
<1>3. d * (a + a + d - 1) \in Nat
  <2>1. a + a + d - 1 \in Nat
    OBVIOUS
  <2>2. \A x, y \in Nat : x * y \in Nat
    OBVIOUS
  <2>3. QED
    BY <2>1, <2>2
<1>4. a * (a - 1) - a * (a - 1) = 0
  OBVIOUS
<1>5. \A n \in Nat : n \div 2 \in Nat
  OBVIOUS
<1>6. QED
  BY <1>2, <1>3, <1>4, <1>5 DEF Price

\* The level bought can be paid for.
LEMMA LevelForFits ==
    ASSUME NEW g, NEW p \in Players, g.coins[p] \in 0..255, g.level[p] \in 1..MaxLevel
    PROVE  /\ LevelFor(g, p) \in g.level[p]..MaxLevel
           /\ g.coins[p] - Price(g.level[p], LevelFor(g, p)) \in 0..255
<1> DEFINE from == g.level[p]
           coins == g.coins[p]
           S == {l \in from..MaxLevel : Price(from, l) <= coins}
<1>1. MaxLevel \in Nat /\ from \in 1..MaxLevel /\ coins \in 0..255
  BY CatalogAssumption
<1> HIDE DEF from, coins
<1>2. from \in S
  BY <1>1, PriceIsNat
<1>3. IsFiniteSet(S)
  <2>1. S \in SUBSET (from..MaxLevel)
    OBVIOUS
  <2> HIDE DEF S
  <2>2. IsFiniteSet(from..MaxLevel)
    <3>1. from \in Int /\ MaxLevel \in Int
      BY <1>1
    <3>2. QED
      BY <3>1, FS_Interval
  <2>3. QED
    BY <2>1, <2>2, FS_Subset
<1>4. PICK m \in S : \A l \in S : m >= l
  <2> DEFINE f == [l \in S |-> l]
  <2>1. f \in [S -> Nat] /\ \A l \in S : f[l] = l
    BY <1>1
  <2> HIDE DEF f, S
  <2>2. PICK m \in S : \A l \in S : f[l] <= f[m]
    BY <1>2, <1>3, <2>1, HighestOf
  <2>3. \A l \in S : l <= m /\ l \in Nat
    BY <2>1, <2>2
  <2>4. QED
    BY <2>3
<1>5. Max(S) \in S
  <2> HIDE DEF S
  <2>1. QED
    BY <1>4 DEF Max
<1>6. LevelFor(g, p) = Max(S)
  BY DEF LevelFor, from, coins
<1> DEFINE to == LevelFor(g, p)
<1>7. to \in from..MaxLevel /\ Price(from, to) <= coins
  BY <1>5, <1>6
<1> HIDE DEF to
<1>8. Price(from, to) \in Nat
  BY <1>1, <1>7, PriceIsNat
<1>9. coins - Price(from, to) \in 0..255
  <2>1. PICK price : price = Price(from, to)
    OBVIOUS
  <2>2. price \in Nat /\ price <= coins /\ coins \in 0..255
    BY <1>1, <1>7, <1>8, <2>1
  <2>3. coins - price \in 0..255
    BY <2>2
  <2>4. QED
    BY <2>1, <2>3
<1>10. QED
  BY <1>7, <1>9 DEF from, to, coins

\* The smaller of two numbers.
LEMMA MinOfTwo ==
    ASSUME NEW a \in Int, NEW b \in Int
    PROVE  Min({a, b}) = IF a <= b THEN a ELSE b
BY DEF Min

\* Unlocking the ultimate takes it out of the deck and nothing else.
LEMMA UltimateBooks ==
    ASSUME NEW p \in Players, NEW own, NEW deck, NEW items,
           Books(own, deck, items, {}, p)
    PROVE  /\ {c \in deck : Purple(c)} = Ultimates(p)
           /\ Books(own, deck \ Ultimates(p), items, Ultimates(p), p)
<1>1. Ultimates(p) \intersect own = {} /\ Ultimates(p) \intersect items = {}
  BY DeckShape DEF Books, Ultimates, Basics, Basic, Purple
<1>2. Ultimates(p) \subseteq deck
  BY <1>1 DEF Books, Ultimates
<1>3. {c \in deck : Purple(c)} = Ultimates(p)
  BY <1>2 DEF Books, Ultimates
<1>4. /\ own \union (deck \ Ultimates(p)) \union items \union Ultimates(p) = Deck[p]
      /\ own \intersect (deck \ Ultimates(p)) = {} /\ own \intersect Ultimates(p) = {}
      /\ (deck \ Ultimates(p)) \intersect items = {}
      /\ (deck \ Ultimates(p)) \intersect Ultimates(p) = {}
      /\ items \intersect Ultimates(p) = {}
  BY <1>1, <1>2 DEF Books
<1>5. Books(own, deck \ Ultimates(p), items, Ultimates(p), p)
  BY <1>4 DEF Books
<1>6. QED
  BY <1>3, <1>5

\* The levels bought are all paid out, in upgrades owed or in the ultimate.
LEMMA LedgerLevels ==
    ASSUME NEW g, WellMade(g), Ledger(g)
    PROVE  Ledger(BuyLevelUps(g))
<1> DEFINE h == BuyLevelUps(g)
<1>1. /\ h.coins = [p \in Players |-> g.coins[p] - Price(g.level[p], LevelFor(g, p))]
      /\ h.level = [p \in Players |-> LevelFor(g, p)]
      /\ h.owed = [p \in Players |-> g.owed[p] + UpgradesFor(g, p)]
      /\ h.deck = [p \in Players |-> g.deck[p] \ UltimateFor(g, p)]
      /\ h.ultimate = [p \in Players |-> g.ultimate[p] \union UltimateFor(g, p)]
      /\ h.hand = g.hand /\ h.played = g.played /\ h.resolved = g.resolved
      /\ h.discard = g.discard /\ h.items = g.items
  BY DEF BuyLevelUps, WellMade, Fields
<1> HIDE DEF h
<1>2. ASSUME NEW p \in Players
      PROVE  /\ h.coins[p] \in 0..255 /\ h.level[p] \in 1..MaxLevel /\ h.owed[p] \in Nat
             /\ h.ultimate[p] \subseteq Cards
             /\ Apart(h.hand[p], h.played[p], h.resolved[p], h.discard[p])
             /\ Books(Owned(h, p), h.deck[p], h.items[p], h.ultimate[p], p)
             /\ Paid(h.level[p], h.owed[p], h.items[p], h.ultimate[p], p)
  <2> DEFINE from == g.level[p]
             to == LevelFor(g, p)
             last == MaxLevel - 1
  <2>1. /\ h.coins[p] \in 0..255 /\ h.level[p] = to /\ to \in from..MaxLevel
        /\ from \in 1..MaxLevel /\ MaxLevel \in Nat \ {0}
    <3>1. MaxLevel \in Nat \ {0}
      BY CatalogAssumption
    <3>2. g.coins[p] \in 0..255 /\ from \in 1..MaxLevel
      BY DEF Ledger
    <3>3. to \in from..MaxLevel /\ g.coins[p] - Price(from, to) \in 0..255
      BY <3>2, LevelForFits
    <3>4. h.coins[p] = g.coins[p] - Price(from, to) /\ h.level[p] = to
      BY <1>1
    <3>5. QED
      BY <3>1, <3>2, <3>3, <3>4
  <2>2. /\ Owned(h, p) = Owned(g, p) /\ h.items[p] = g.items[p]
        /\ Apart(h.hand[p], h.played[p], h.resolved[p], h.discard[p])
    BY <1>1 DEF Owned, Ledger
  <2>3. /\ Books(Owned(g, p), g.deck[p], g.items[p], g.ultimate[p], p)
        /\ Paid(from, g.owed[p], g.items[p], g.ultimate[p], p)
        /\ g.owed[p] \in Nat
    BY DEF Ledger
  <2>4. /\ h.owed[p] = g.owed[p] + UpgradesFor(g, p)
        /\ h.deck[p] = g.deck[p] \ UltimateFor(g, p)
        /\ h.ultimate[p] = g.ultimate[p] \union UltimateFor(g, p)
    BY <1>1
  <2>5. UltimateFor(g, p) = IF from < MaxLevel /\ to = MaxLevel
                            THEN {c \in g.deck[p] : Purple(c)} ELSE {}
    BY DEF UltimateFor
  <2>6. UpgradesFor(g, p) = Min({to, last}) - Min({from, last})
    BY DEF UpgradesFor
  <2> HIDE DEF from, to
  <2>7. h.owed[p] \in Nat /\ g.owed[p] - Min({from, last}) = h.owed[p] - Min({to, last})
    BY <2>1, <2>3, <2>4, <2>6, MinOfTwo
  <2>8. Cardinality(g.items[p]) + h.owed[p] = Min({to, last}) - 1
    <3>1. Cardinality(g.items[p]) \in Nat
      <4>1. g.items[p] \in SUBSET Deck[p]
        BY DEF WellMade, Held
      <4>2. QED
        BY <4>1, DeckShape, FS_Subset, FS_CardinalityType
    <3>2. Cardinality(g.items[p]) + g.owed[p] = Min({from, last}) - 1
      BY <2>3 DEF Paid
    <3>3. Min({from, last}) \in Int /\ Min({to, last}) \in Int
      BY <2>1, MinOfTwo
    <3>4. QED
      BY <2>3, <2>7, <3>1, <3>2, <3>3
  <2>9. CASE from < MaxLevel /\ to = MaxLevel
    <3>1. g.ultimate[p] = {}
      BY <2>1, <2>3, <2>9 DEF Paid
    <3>2. /\ UltimateFor(g, p) = Ultimates(p)
          /\ Books(Owned(g, p), g.deck[p] \ Ultimates(p), g.items[p], Ultimates(p), p)
      BY <2>3, <2>5, <2>9, <3>1, UltimateBooks
    <3>3. h.deck[p] = g.deck[p] \ Ultimates(p) /\ h.ultimate[p] = Ultimates(p)
      BY <2>4, <3>1, <3>2
    <3>4. Paid(h.level[p], h.owed[p], h.items[p], h.ultimate[p], p)
      BY <2>1, <2>2, <2>8, <2>9, <3>3 DEF Paid
    <3>5. Ultimates(p) \subseteq Cards
      BY DEF Ultimates, Cards
    <3>6. QED
      BY <2>1, <2>2, <2>7, <3>2, <3>3, <3>4, <3>5
  <2>10. CASE ~(from < MaxLevel /\ to = MaxLevel)
    <3>1. h.deck[p] = g.deck[p] /\ h.ultimate[p] = g.ultimate[p]
      BY <2>4, <2>5, <2>10
    <3>2. (from = MaxLevel) <=> (to = MaxLevel)
      BY <2>1, <2>10
    <3>3. Paid(h.level[p], h.owed[p], h.items[p], h.ultimate[p], p)
      BY <2>1, <2>2, <2>3, <2>8, <3>1, <3>2 DEF Paid
    <3>4. g.ultimate[p] \subseteq Cards
      BY DEF Ledger
    <3>5. QED
      BY <2>1, <2>2, <2>3, <2>7, <3>1, <3>3, <3>4
  <2>11. QED
    BY <2>9, <2>10
<1>3. /\ h.coins \in [Players -> 0..255] /\ h.level \in [Players -> 1..MaxLevel]
      /\ h.owed \in [Players -> Nat] /\ h.ultimate \in [Players -> SUBSET Cards]
  BY <1>1, <1>2
<1>4. Ledger(h)
  BY <1>2, <1>3 DEF Ledger
<1>5. QED
  BY <1>4 DEF h

\* What a method that hands the game on leaves of the ledger.
Booked(h) == Ledger(h) /\ Banked(h) /\ ~Panicked(h)

\* The level-up that follows finds all cards collected and a level owed.
LEMMA LevelUpsBook ==
    ASSUME NEW g, WellMade(g), Alive(g), Ledger(g), ~IsOver(g), ~Panicked(g),
           \A p \in Players : g.resolved[p] = {} /\ g.discard[p] = {}
    PROVE  Booked(ContinueLevelUps(g))
<1> DEFINE h == ContinueLevelUps(g)
           owing == {p \in Players : g.owed[p] > 0}
           asked == [g EXCEPT !.phase = [type |-> "LevelUp", player |-> Min(owing)]]
           coins == [p \in Players |-> IF g.leveled[p] THEN g.coins[p] ELSE U8(g.coins[p] + 1)]
<1>1. TurnEnded(g, h)
  BY LevelUpsEnd
<1>2. h = FinishRound(g) \/ h = asked
  BY DEF ContinueLevelUps
<1>3. /\ Changes(g, FinishRound(g), {"coins", "leveled", "round", "turn", "phase"})
      /\ FinishRound(g).coins = coins
  BY DEF WellMade, Fields, Changes, FinishRound
<1>4. Changes(g, asked, {"phase"})
  <2> HIDE DEF owing
  <2>1. QED
    BY DEF WellMade, Fields, Changes
<1> HIDE DEF h, asked
<1>5. coins \in [Players -> 0..255]
  <2>1. \A p \in Players : g.coins[p] \in 0..255 /\ U8(g.coins[p] + 1) \in 0..255
    <3>1. \A p \in Players : g.coins[p] \in 0..255 /\ g.coins[p] + 1 \in Int
      BY DEF Ledger
    <3>2. QED
      BY <3>1, ByteIsByte
  <2>2. QED
    BY <2>1
<1> HIDE DEF coins
<1>6. Ledger(h) /\ h.resolved = g.resolved /\ h.discard = g.discard
  <2>1. CASE h = FinishRound(g)
    <3>1. Changes(g, h, Loose \union {"coins"})
      BY <1>3, <2>1 DEF Changes, Loose
    <3>2. h.resolved = g.resolved /\ h.discard = g.discard
      BY <3>1 DEF Changes, Fields, Loose
    <3>3. QED
      BY <1>3, <1>5, <2>1, <3>1, <3>2, LedgerCoins
  <2>2. CASE h = asked
    <3>1. Changes(g, h, Loose)
      BY <1>4, <2>2 DEF Changes, Loose
    <3>2. h.resolved = g.resolved /\ h.discard = g.discard
      BY <3>1 DEF Changes, Fields, Loose
    <3>3. QED
      BY <3>1, <3>2, LedgerStays
  <2>3. QED
    BY <1>2, <2>1, <2>2
<1>7. Banked(h) /\ ~Panicked(h)
  BY <1>1, <1>6 DEF TurnEnded, Banked, Panicked, IsOver
<1>8. QED
  BY <1>6, <1>7 DEF Booked, h

\* The end of a round keeps the books: battle, retrieval, levels.
LEMMA RoundBooks ==
    ASSUME NEW g, WellMade(g), Alive(g), Ledger(g), ~IsOver(g), ~Panicked(g), Left(g) = {}
    PROVE  Booked(EndRound(g))
<1> DEFINE battle == MinionBattle(g)
           back == Retrieve(battle)
           bought == BuyLevelUps(back)
           h == EndRound(g)
<1>1. /\ WellMade(battle) /\ Alive(battle)
      /\ Changes(g, battle, {"minions", "lane", "waves", "phase"})
      /\ IsOver(battle) \/ battle.phase = g.phase
  BY BattlePushes
<1>2. h = IF IsOver(battle) \/ Panicked(battle) THEN battle ELSE ContinueLevelUps(bought)
  BY DEF EndRound
<1> HIDE DEF battle, h
<1>3. Ledger(battle) /\ Left(battle) = {} /\ ~Panicked(battle)
  <2>1. Changes(g, battle, Loose) /\ battle.played = g.played
    BY <1>1 DEF Changes, Fields, Loose
  <2>2. ~Panicked(battle)
    BY <1>1 DEF IsOver, Panicked
  <2>3. QED
    BY <2>1, <2>2, LedgerStays DEF Left
<1>4. CASE IsOver(battle)
  BY <1>2, <1>3, <1>4 DEF Booked, Banked, IsOver, h
<1>5. CASE ~IsOver(battle)
  <2>1. /\ WellMade(back) /\ Changes(battle, back, {"hand", "resolved", "discard"})
        /\ Ledger(back) /\ \A p \in Players : back.resolved[p] = {} /\ back.discard[p] = {}
    BY <1>1, <1>3, RetrieveKeeps, LedgerRetrieve
  <2> HIDE DEF back
  <2>2. /\ WellMade(bought) /\ Ledger(bought)
        /\ Changes(back, bought, {"coins", "level", "leveled", "owed", "deck", "ultimate"})
    BY <2>1, LevelUpsKeep, LedgerLevels
  <2> HIDE DEF bought
  <2>3. /\ bought.lane = battle.lane /\ bought.waves = battle.waves
        /\ bought.lives = battle.lives /\ bought.phase = battle.phase
        /\ bought.resolved = back.resolved /\ bought.discard = back.discard
    BY <2>1, <2>2 DEF Changes, Fields
  <2>4. Alive(bought) /\ ~IsOver(bought) /\ ~Panicked(bought)
    BY <1>1, <1>3, <1>5, <2>3 DEF Alive, IsOver, Panicked
  <2>5. QED
    BY <1>2, <1>3, <1>5, <2>1, <2>2, <2>3, <2>4, LevelUpsBook DEF h
<1>6. QED
  BY <1>4, <1>5

\* So does the end of a turn,
LEMMA TurnBooks ==
    ASSUME NEW g, WellMade(g), Alive(g), Ledger(g), ~IsOver(g), ~Panicked(g), Left(g) = {}
    PROVE  Booked(EndTurn(g))
<1> DEFINE cleared == [g EXCEPT !.passed = [p \in Players |-> FALSE]]
           next == [cleared EXCEPT !.turn = @ + 1, !.phase = [type |-> "Play"]]
           h == EndTurn(g)
<1>1. Changes(g, cleared, {"passed"})
  BY DEF WellMade, Fields, Changes
<1>2. Changes(g, next, {"passed", "turn", "phase"}) /\ next.phase.type = "Play"
  BY DEF WellMade, Fields, Changes
<1>3. h = EndRound(cleared) \/ h = next
  BY DEF EndTurn
<1> HIDE DEF h, cleared, next
<1>4. CASE h = EndRound(cleared)
  <2>1. WellMade(cleared)
    BY <1>1, StaysWellMade DEF Changes, Fields, Made
  <2>2. Alive(cleared) /\ ~IsOver(cleared) /\ ~Panicked(cleared) /\ Left(cleared) = {}
    BY <1>1 DEF Alive, IsOver, Panicked, Changes, Fields, Left
  <2>3. Ledger(cleared)
    <3>1. Changes(g, cleared, Loose)
      BY <1>1 DEF Changes, Loose
    <3>2. QED
      BY <3>1, LedgerStays
  <2>4. QED
    BY <1>4, <2>1, <2>2, <2>3, RoundBooks DEF h
<1>5. CASE h = next
  <2>1. Changes(g, h, Loose)
    BY <1>2, <1>5 DEF Changes, Loose
  <2>2. QED
    BY <1>2, <1>5, <2>1, LedgerStays DEF Booked, Banked, Panicked, h
<1>6. QED
  BY <1>3, <1>4, <1>5

\* the choice of who acts next,
LEMMA NextActorBooks ==
    ASSUME NEW g, WellMade(g), Alive(g), Ledger(g), ~IsOver(g), ~Panicked(g)
    PROVE  Booked(NextActor(g))
<1> DEFINE unresolved == {p \in Players : g.played[p] # None}
           tied == {p \in unresolved : \A q \in unresolved : Initiative(g, p) >= Initiative(g, q)}
           oneTeam == \A p, q \in tied : Team[p] = Team[q]
           candidates == IF oneTeam THEN tied ELSE {p \in tied : Team[p] = g.coin}
           asked == [g EXCEPT !.flip = @ \/ ~oneTeam]
           only == CHOOSE p \in candidates : TRUE
           act == [asked EXCEPT !.phase = [type |-> "Act", player |-> only]]
           choice == [asked EXCEPT !.phase = [type |-> "ChooseActor", candidates |-> candidates]]
           h == NextActor(g)
<1>1. unresolved = Left(g)
  BY DEF Left
<1>2. CASE unresolved = {}
  <2>1. h = EndTurn(g)
    BY <1>2 DEF NextActor
  <2>2. QED
    BY <1>1, <1>2, <2>1, TurnBooks
<1>3. CASE unresolved # {}
  <2>1. h = act \/ h = choice
    BY <1>3 DEF NextActor
  <2> HIDE DEF only, oneTeam, candidates, h
  <2>2. /\ Changes(g, act, {"flip", "phase"}) /\ act.phase.type = "Act"
        /\ Changes(g, choice, {"flip", "phase"}) /\ choice.phase.type = "ChooseActor"
    BY DEF WellMade, Fields, Changes
  <2> HIDE DEF act, choice
  <2>3. Changes(g, h, Loose) /\ h.phase.type \in {"Act", "ChooseActor"}
    BY <2>1, <2>2 DEF Changes, Loose
  <2>4. QED
    BY <2>3, LedgerStays DEF Booked, Banked, Panicked, h
<1>4. QED
  BY <1>2, <1>3

\* the end of an action,
LEMMA FinishActionBooks ==
    ASSUME NEW g, WellMade(g), Alive(g), Ledger(g), ~Panicked(g), NEW p \in Players
    PROVE  Booked(FinishAction(g, p))
<1> DEFINE resolved == Resolve(g, p)
           flipped == [resolved EXCEPT !.flip = FALSE, !.coin = Opponent(@)]
           settled == IF g.flip THEN flipped ELSE resolved
           h == FinishAction(g, p)
<1>1. WellMade(resolved) /\ Changes(g, resolved, {"resolved", "played"}) /\ Ledger(resolved)
  BY ResolveKeeps, LedgerResolve
<1>2. h = NextActor(settled)
  BY DEF FinishAction
<1> HIDE DEF resolved, h
<1>3. /\ Changes(resolved, flipped, {"flip", "coin"}) /\ flipped.flip = FALSE
      /\ flipped.coin \in Teams
  BY <1>1 DEF WellMade, Fields, Changes, Opponent, Teams
<1> HIDE DEF flipped
<1>4. WellMade(settled) /\ Ledger(settled)
  <2>1. WellMade(flipped)
    BY <1>1, <1>3, CoinStaysWellMade
  <2>2. Changes(resolved, flipped, Loose)
    BY <1>3 DEF Changes, Loose
  <2>3. Ledger(flipped)
    BY <1>1, <2>2, LedgerStays
  <2>4. QED
    BY <1>1, <2>1, <2>3
<1>5. /\ settled.lane = g.lane /\ settled.waves = g.waves /\ settled.lives = g.lives
      /\ settled.phase = g.phase
  BY <1>1, <1>3 DEF Changes, Fields
<1> HIDE DEF settled
<1>6. Alive(settled) /\ ~Panicked(settled)
  BY <1>5 DEF Alive, IsOver, Panicked
<1>7. CASE IsOver(settled)
  <2>1. h = settled
    BY <1>2, <1>7 DEF NextActor
  <2>2. QED
    BY <1>4, <1>6, <1>7, <2>1 DEF Booked, Banked, IsOver, h
<1>8. CASE ~IsOver(settled)
  BY <1>2, <1>4, <1>6, <1>8, NextActorBooks DEF h
<1>9. QED
  BY <1>7, <1>8

\* and of a play.
LEMMA AfterPlayBooks ==
    ASSUME NEW g, WellMade(g), Alive(g), Ledger(g), g.phase.type = "Play"
    PROVE  Booked(AfterPlay(g))
<1>1. ~IsOver(g) /\ ~Panicked(g) /\ Banked(g)
  BY DEF IsOver, Panicked, Banked
<1>2. AfterPlay(g) = NextActor(g) \/ AfterPlay(g) = g
  BY DEF AfterPlay
<1>3. QED
  BY <1>1, <1>2, NextActorBooks DEF Booked

\* Bounties are coins.
LEMMA DefeatMinionBooks ==
    ASSUME NEW g, WellMade(g), Alive(g), Ledger(g), ~IsOver(g),
           NEW m \in g.minions, NEW attacker \in Players
    PROVE  Ledger(DefeatMinion(g, m, attacker))
<1> DEFINE paid == IF attacker = None THEN g
                   ELSE [g EXCEPT !.coins[attacker] = U8(@ + Bounty(m.kind))]
           gone == [paid EXCEPT !.minions = @ \ {m}]
           pushed == PushLane(gone, Opponent(m.team))
           h == DefeatMinion(g, m, attacker)
<1>1. Changes(g, paid, {"coins"}) /\ paid.coins \in [Players -> 0..255]
  <2> DEFINE value == U8(g.coins[attacker] + Bounty(m.kind))
             coins == [g.coins EXCEPT ![attacker] = value]
             richer == [g EXCEPT !.coins[attacker] = value]
  <2>1. value \in 0..255
    <3>1. g.coins[attacker] \in 0..255
      BY DEF Ledger
    <3>2. Bounty(m.kind) = 4 \/ Bounty(m.kind) = 2
      BY DEF Bounty
    <3>3. g.coins[attacker] + Bounty(m.kind) \in Int
      <4> HIDE DEF value
      <4> QED BY <3>1, <3>2
    <3>4. QED
      BY <3>3, ByteIsByte
  <2>2. paid = g \/ paid = richer
    OBVIOUS
  <2> HIDE DEF value, paid
  <2>3. Changes(g, richer, {"coins"}) /\ richer.coins = coins
    BY DEF WellMade, Fields, Changes
  <2> HIDE DEF richer
  <2>4. coins \in [Players -> 0..255] /\ g.coins \in [Players -> 0..255]
    BY <2>1 DEF Ledger
  <2> HIDE DEF coins
  <2>5. Changes(g, g, {"coins"})
    BY DEF WellMade, Changes
  <2>6. QED
    BY <2>2, <2>3, <2>4, <2>5
<1>2. h = pushed \/ h = gone
  BY DEF DefeatMinion, Expect
<1> HIDE DEF h, paid
<1>3. Changes(g, gone, Loose \union {"coins"}) /\ gone.coins = paid.coins
      /\ Changes(g, gone, {"coins", "minions"})
  BY <1>1 DEF Fields, Changes, Loose
<1> HIDE DEF gone
<1>4. Ledger(gone)
  BY <1>1, <1>3, LedgerCoins
<1>5. CASE h = pushed
  <2>1. WellMade(gone) /\ Alive(gone) /\ ~IsOver(gone) /\ Opponent(m.team) \in Teams
    <3>1. /\ gone.phase = g.phase /\ gone.lane = g.lane /\ gone.waves = g.waves
          /\ gone.lives = g.lives
      BY <1>3 DEF Changes, Fields
    <3>2. QED
      BY <1>3, <3>1, StaysWellMade
         DEF Changes, Fields, Made, Alive, IsOver, Opponent, Teams
  <2>2. Changes(gone, pushed, {"minions", "lane", "waves", "phase"})
    BY <2>1, PushLanePushes
  <2> HIDE DEF pushed
  <2>3. Changes(gone, h, Loose)
    BY <1>5, <2>2 DEF Changes, Loose
  <2>4. QED
    BY <1>4, <2>3, LedgerStays DEF h
<1>6. CASE h = gone
  BY <1>4, <1>6 DEF h
<1>7. QED
  BY <1>2, <1>5, <1>6

\* A hero that falls loses no card, and those who felled it are paid.
LEMMA DefeatHeroBooks ==
    ASSUME NEW g, WellMade(g), Ledger(g), NEW defender \in Players, NEW attacker \in Players
    PROVE  Ledger(DefeatHero(g, defender, attacker))
<1> DEFINE team == Team[defender]
           away == [g EXCEPT !.hero[defender] = Nowhere]
           fallen == Resolve(away, defender)
           level == g.level[defender]
           Pay(p) == IF p = attacker THEN level
                     ELSE IF Team[p] = Team[attacker] THEN AssistCoins(level) ELSE 0
           left == Max({0, g.lives[team] - LowestTier(fallen, defender)})
           coins == [p \in Players |-> U8(fallen.coins[p] + Pay(p))]
           paid == [fallen EXCEPT !.coins = coins, !.lives[team] = left]
           over == Over(paid, Team[attacker], "no lives left")
           h == DefeatHero(g, defender, attacker)
<1>1. h = over \/ h = paid
  BY DEF DefeatHero
<1> HIDE DEF h, left
<1>2. Changes(g, away, {"hero"})
  BY DEF WellMade, Fields, Changes
<1> HIDE DEF away
<1>3. WellMade(away) /\ Ledger(away)
  <2>1. Changes(g, away, Loose)
    BY <1>2 DEF Changes, Loose
  <2>2. QED
    BY <1>2, <2>1, StaysWellMade, LedgerStays DEF Changes, Fields, Made
<1>4. Ledger(fallen) /\ DOMAIN fallen = Fields
  BY <1>3, LedgerResolve, ResolveKeeps DEF Changes
<1> HIDE DEF fallen
<1>5. coins \in [Players -> 0..255]
  <2>1. level \in Int
    <3>1. level \in 1..MaxLevel /\ MaxLevel \in Nat
      BY CatalogAssumption DEF Ledger
    <3>2. QED
      BY <3>1
  <2> HIDE DEF level
  <2>2. ASSUME NEW p \in Players PROVE fallen.coins[p] + Pay(p) \in Int
    <3>1. fallen.coins[p] \in 0..255
      BY <1>4 DEF Ledger
    <3>2. Pay(p) \in Int
      <4>1. AssistCoins(level) \in Int
        BY <2>1 DEF AssistCoins
      <4>2. QED
        BY <2>1, <4>1
    <3> HIDE DEF Pay
    <3>3. QED
      BY <3>1, <3>2
  <2>3. \A p \in Players : U8(fallen.coins[p] + Pay(p)) \in 0..255
    BY <2>2, ByteIsByte
  <2>4. QED
    BY <2>3
<1> HIDE DEF coins, team
<1>6. Changes(fallen, paid, {"coins", "lives"}) /\ paid.coins = coins
  BY <1>4 DEF Fields, Changes
<1> HIDE DEF paid
<1>7. Changes(paid, over, {"phase"}) /\ over.coins = coins
  BY <1>6 DEF Over, Fields, Changes
<1> HIDE DEF over
<1>8. Changes(fallen, h, Loose \union {"coins"}) /\ h.coins = coins
  BY <1>1, <1>6, <1>7 DEF Changes, Loose
<1>9. Ledger(h)
  BY <1>4, <1>5, <1>8, LedgerCoins
<1>10. QED
  BY <1>9 DEF h

\* A card spent in defense is discarded.
LEMMA LedgerDiscard ==
    ASSUME NEW g, NEW h, WellMade(g), Ledger(g), NEW p \in Players, NEW c \in g.hand[p],
           Changes(g, h, {"hand", "discard"}),
           h.hand = [g.hand EXCEPT ![p] = @ \ {c}],
           h.discard = [g.discard EXCEPT ![p] = @ \union {c}]
    PROVE  Ledger(h)
<1>1. h.resolved = g.resolved /\ h.played = g.played /\ h.coins = g.coins
  BY DEF Changes, Fields
<1>2. c # g.played[p] /\ c \notin g.resolved[p] /\ c \notin g.discard[p]
  BY DEF Ledger, Apart
<1>3. ASSUME NEW q \in Players
      PROVE  /\ Owned(h, q) = Owned(g, q)
             /\ Apart(h.hand[q], h.played[q], h.resolved[q], h.discard[q])
  <2>1. Apart(g.hand[q], g.played[q], g.resolved[q], g.discard[q])
    BY DEF Ledger
  <2>2. CASE q = p
    <3>1. h.hand[q] = g.hand[q] \ {c} /\ h.discard[q] = g.discard[q] \union {c}
      BY <2>2 DEF WellMade
    <3>2. QED
      BY <1>1, <1>2, <2>1, <2>2, <3>1 DEF Owned, Apart
  <2>3. CASE q # p
    <3>1. h.hand[q] = g.hand[q] /\ h.discard[q] = g.discard[q]
      BY <2>3 DEF WellMade
    <3>2. QED
      BY <1>1, <2>1, <3>1 DEF Owned
  <2>4. QED
    BY <2>2, <2>3
<1>4. Changes(g, h, Loose \union OwnPiles \union {"coins"})
  BY DEF Changes, OwnPiles
<1>5. h.coins \in [Players -> 0..255]
  BY <1>1 DEF Ledger
<1>6. QED
  BY <1>3, <1>4, <1>5, LedgerMoves

\* So does a defense, that holds or not.
LEMMA DefenseBooks ==
    ASSUME NEW g, WellMade(g), Alive(g), Asked(g), Ledger(g), NEW defender \in Players,
           g.phase.type = "Defend", g.phase.defender = defender,
           NEW card \in g.hand[defender] \union {None}
    PROVE  Booked(ResolveDefense(g, defender, card))
<1> DEFINE attacker == g.phase.attacker
           spending == [g EXCEPT !.hand[defender] = @ \ {card},
                                 !.discard[defender] = @ \union {card}]
           spent == IF card = None THEN g ELSE spending
           total == Max({0, Catalog[card].defense + ItemBonus(g, defender, "Defense")
                              + DefenseModifiers(g, defender)})
           holds == card # None /\ total >= g.phase.total
           fallen == DefeatHero(spent, defender, attacker)
           after == IF holds THEN spent ELSE fallen
           next == [after EXCEPT !.phase = [type |-> "Act", player |-> attacker]]
           h == ResolveDefense(g, defender, card)
<1>1. /\ attacker \in Players /\ Team[defender] # Team[attacker] /\ g.hero[defender] # Nowhere
      /\ ~IsOver(g)
  BY DEF Asked, ActorsOf, Left, IsOver
<1>2. h = IF IsOver(after) THEN after ELSE FinishAction(next, attacker)
  BY <1>1 DEF ResolveDefense, Expect
<1>3. WellMade(spent) /\ Ledger(spent) /\ Changes(g, spent, {"hand", "discard"})
  <2>1. CASE card = None
    BY <2>1 DEF Changes, WellMade
  <2>2. CASE card # None
    <3> DEFINE hand == [g.hand EXCEPT ![defender] = @ \ {card}]
               discard == [g.discard EXCEPT ![defender] = @ \union {card}]
    <3>1. spending.hand = hand /\ spending.discard = discard /\ Changes(g, spending, {"hand", "discard"})
      BY DEF WellMade, Fields, Changes
    <3>2. card \in Cards /\ card \in Deck[defender] /\ card \in g.hand[defender]
      BY <2>2 DEF WellMade, Held
    <3>3. hand \in [Players -> SUBSET Cards] /\ discard \in [Players -> SUBSET Cards]
      BY <3>2 DEF WellMade
    <3>4. \A p \in Players : hand[p] \subseteq Deck[p] /\ discard[p] \subseteq Deck[p]
      BY <3>2 DEF WellMade, Held
    <3>5. spent = spending
      BY <2>2
    <3> HIDE DEF spent, spending
    <3>6. Ledger(spending)
      BY <3>1, <3>2, LedgerDiscard
    <3> HIDE DEF hand, discard
    <3>7. \A p \in Players : Held(spending, p) \subseteq Deck[p]
      BY <3>1, <3>4 DEF WellMade, Held, Changes, Fields
    <3>8. WellMade(spending)
      BY <3>1, <3>3, <3>7 DEF WellMade, Changes, Fields
    <3>9. QED
      BY <3>1, <3>5, <3>6, <3>8
  <2>3. QED
    BY <2>1, <2>2
<1> HIDE DEF spent, h, holds, attacker
<1>4. Alive(spent) /\ ~IsOver(spent) /\ ~Panicked(spent)
  <2>1. /\ spent.lane = g.lane /\ spent.waves = g.waves /\ spent.lives = g.lives
        /\ spent.phase = g.phase
    BY <1>3 DEF Changes, Fields
  <2>2. QED
    BY <1>1, <2>1 DEF Alive, IsOver, Panicked
<1>5. WellMade(after) /\ Alive(after) /\ Ledger(after)
  <2>1. after = spent \/ after = fallen
    OBVIOUS
  <2>2. WellMade(fallen) /\ Alive(fallen) /\ Ledger(fallen)
    BY <1>1, <1>3, <1>4, DefeatHeroCosts, DefeatHeroBooks
  <2> HIDE DEF after, fallen
  <2>3. QED
    BY <1>3, <1>4, <2>1, <2>2
<1> HIDE DEF after
<1>6. CASE IsOver(after)
  BY <1>2, <1>5, <1>6 DEF Booked, Banked, IsOver, Panicked, h
<1>7. CASE ~IsOver(after)
  <2>1. Changes(after, next, {"phase"}) /\ next.phase.type = "Act" /\ next.lives = after.lives
        /\ next.lane = after.lane /\ next.waves = after.waves
    BY <1>5 DEF WellMade, Fields, Changes
  <2> HIDE DEF next
  <2>2. WellMade(next)
    BY <1>5, <2>1, StaysWellMade DEF Changes, Fields, Made
  <2>3. Alive(next) /\ ~Panicked(next)
    BY <1>5, <1>7, <2>1 DEF Alive, IsOver, Panicked
  <2>4. Ledger(next)
    <3>1. Changes(after, next, Loose)
      BY <2>1 DEF Changes, Loose
    <3>2. QED
      BY <1>5, <3>1, LedgerStays
  <2>5. QED
    BY <1>1, <1>2, <1>7, <2>2, <2>3, <2>4, FinishActionBooks DEF h
<1>8. QED
  BY <1>6, <1>7

\* An upgrade spends a level owed on an item.
LEMMA LedgerUpgrade ==
    ASSUME NEW g, WellMade(g), Ledger(g), ~Panicked(g), NEW p \in Players, g.owed[p] > 0,
           \A q \in Players : g.played[q] = None /\ g.resolved[q] = {} /\ g.discard[q] = {},
           NEW out \in g.hand[p], NEW take \in g.deck[p], ~Basic(out),
           Catalog[take].color = Catalog[out].color,
           Catalog[take].tier = Catalog[out].tier + 1
    PROVE  LET h == UpgradeCard(g, p, out, take) IN
           Ledger(h) /\ Changes(g, h, {"hand", "deck", "items", "owed"})
<1> DEFINE siblings == {c \in g.deck[p] \ {take} : /\ Catalog[c].color = Catalog[take].color
                                                   /\ Catalog[c].tier = Catalog[take].tier}
           sibling == CHOOSE c \in siblings : TRUE
           hand == [g.hand EXCEPT ![p] = (@ \ {out}) \union {take}]
           deck == [g.deck EXCEPT ![p] = (@ \union {out}) \ {take, sibling}]
           items == [g.items EXCEPT ![p] = @ \union {sibling}]
           owed == [g.owed EXCEPT ![p] = @ - 1]
           good == [g EXCEPT !.hand[p] = (@ \ {out}) \union {take},
                             !.deck[p] = (@ \union {out}) \ {take, sibling},
                             !.items[p] = @ \union {sibling},
                             !.owed[p] = @ - 1]
           h == UpgradeCard(g, p, out, take)
<1>1. \A q \in Players : Owned(g, q) = g.hand[q]
  BY DEF Owned
<1>2. Books(g.hand[p], g.deck[p], g.items[p], g.ultimate[p], p)
  BY <1>1 DEF Ledger
<1>3. PICK s \in g.deck[p] :
        /\ siblings = {s} /\ s \notin g.items[p] /\ s # take
        /\ Books((g.hand[p] \ {out}) \union {take}, (g.deck[p] \union {out}) \ {take, s},
                 g.items[p] \union {s}, g.ultimate[p], p)
  <2> DEFINE own == g.hand[p]
             left == g.deck[p]
             had == g.items[p]
             ult == g.ultimate[p]
  <2>1. Books(own, left, had, ult, p) /\ out \in own /\ take \in left
    BY <1>2
  <2>2. Replaces(take, out)
    BY DEF Replaces
  <2>3. Upgraded(p, own, left, had, ult, out, take)
    <3> HIDE DEF own, left, had, ult
    <3> QED BY <2>1, <2>2, UpgradeBooks
  <2>4. QED
    BY ZenonT(40), <2>3 DEF Upgraded, Siblings
<1>4. h = good
  BY <1>3 DEF UpgradeCard, Expect
<1> HIDE DEF siblings, h
<1>5. sibling = s
  BY <1>3
<1> HIDE DEF sibling
<1>6. /\ Changes(g, good, {"hand", "deck", "items", "owed"})
      /\ good.hand = hand /\ good.deck = deck /\ good.items = items /\ good.owed = owed
  BY DEF WellMade, Fields, Changes
<1> HIDE DEF good
<1>7. /\ h.hand = hand /\ h.deck = deck /\ h.items = items /\ h.owed = owed
      /\ h.played = g.played /\ h.resolved = g.resolved /\ h.discard = g.discard
      /\ h.coins = g.coins /\ h.level = g.level /\ h.ultimate = g.ultimate
  BY <1>4, <1>6 DEF Changes, Fields
<1>8. g.owed \in [Players -> Nat] /\ owed \in [Players -> Nat]
  <2>1. g.owed[p] \in Nat /\ g.owed \in [Players -> Nat]
    BY DEF Ledger
  <2>2. g.owed[p] - 1 \in Nat
    BY <2>1
  <2>3. QED
    BY <2>1, <2>2
<1>9. ASSUME NEW q \in Players
      PROVE  /\ Apart(h.hand[q], h.played[q], h.resolved[q], h.discard[q])
             /\ Books(Owned(h, q), h.deck[q], h.items[q], h.ultimate[q], q)
             /\ Paid(h.level[q], h.owed[q], h.items[q], h.ultimate[q], q)
  <2>1. Owned(h, q) = h.hand[q]
    BY <1>7 DEF Owned
  <2>2. CASE q = p
    <3>1. /\ h.hand[q] = (g.hand[p] \ {out}) \union {take}
          /\ h.deck[q] = (g.deck[p] \union {out}) \ {take, s}
          /\ h.items[q] = g.items[p] \union {s} /\ h.owed[q] = g.owed[p] - 1
      BY <1>5, <1>7, <1>8, <2>2 DEF WellMade
    <3>2. Books(Owned(h, q), h.deck[q], h.items[q], h.ultimate[q], q)
      <4>1. h.ultimate[q] = g.ultimate[p] /\ Owned(h, q) = (g.hand[p] \ {out}) \union {take}
        BY <1>7, <2>1, <2>2, <3>1
      <4>2. QED
        BY <1>3, <2>2, <3>1, <4>1
    <3>3. None \notin h.hand[q]
      BY <2>1, <2>2, <3>2, CatalogAssumption DEF Books
    <3>4. Paid(h.level[q], h.owed[q], h.items[q], h.ultimate[q], q)
      <4>1. Paid(g.level[p], g.owed[p], g.items[p], g.ultimate[p], p)
        BY DEF Ledger
      <4>2. IsFiniteSet(g.items[p])
        <5>1. g.items[p] \in SUBSET Deck[p]
          BY <1>2 DEF Books
        <5>2. QED
          BY <5>1, DeckShape, FS_Subset
      <4>3. /\ Cardinality(h.items[q]) = Cardinality(g.items[p]) + 1
            /\ Cardinality(g.items[p]) \in Nat
        BY <1>3, <3>1, <4>2, FS_AddElement, FS_CardinalityType
      <4>4. Cardinality(h.items[q]) + h.owed[q] = Cardinality(g.items[p]) + g.owed[p]
        BY <1>8, <3>1, <4>3
      <4>5. QED
        BY <1>7, <2>2, <4>1, <4>4 DEF Paid
    <3>5. QED
      BY <1>7, <3>2, <3>3, <3>4 DEF Apart
  <2>3. CASE q # p
    <3>1. /\ h.hand[q] = g.hand[q] /\ h.deck[q] = g.deck[q] /\ h.items[q] = g.items[q]
          /\ h.owed[q] = g.owed[q]
      BY <1>7, <1>8, <2>3 DEF WellMade
    <3>2. QED
      BY <1>1, <1>7, <2>1, <3>1 DEF Ledger
  <2>4. QED
    BY <2>2, <2>3
<1>10. Ledger(h)
  BY <1>7, <1>8, <1>9 DEF Ledger
<1>11. QED
  BY <1>4, <1>6, <1>10 DEF h

-----------------------------------------------------------------------------
(* The ledger of the game *)

\* The starting hand is in order.
LEMMA StartBooks ==
    ASSUME NEW p \in Players
    PROVE  Books(StartingHand(p), Deck[p] \ StartingHand(p), {}, {}, p)
<1> DEFINE own == StartingHand(p)
<1>1. own \subseteq Deck[p]
  BY DEF StartingHand
<1>2. \A c \in own : Basic(c) \/ (c \in Colored(p) /\ Catalog[c].tier = 1)
  BY DEF StartingHand, Starts, Colored, ColorsOf
<1>3. \A c \in Deck[p] : Catalog[c].tier = 1 => c \in own
  BY DEF StartingHand, Starts
<1>4. Basics(p) \subseteq own
  BY DEF Basics, StartingHand, Starts
<1>5. own \subseteq Basics(p) \union Colored(p)
  BY <1>1, <1>2 DEF Basics
<1>6. \A color \in ColorsOf(p) : \E c \in own : Catalog[c].color = color
  BY <1>3 DEF ColorsOf
<1>7. \A c, d \in own : Catalog[c].color = Catalog[d].color /\ ~Basic(c) => c = d
  <2> SUFFICES ASSUME NEW c \in own, NEW d \in own, Catalog[c].color = Catalog[d].color,
                      ~Basic(c)
               PROVE  c = d
    OBVIOUS
  <2>1. c \in Colored(p) /\ Catalog[c].tier = 1 /\ ~Basic(d)
    BY <1>2 DEF Basic
  <2>2. d \in Colored(p) /\ Catalog[d].tier = 1
    BY <1>2, <2>1
  <2>3. Catalog[c].color \in ColorsOf(p)
    BY <2>1 DEF Colored
  <2>4. PICK e : Cell(p, Catalog[c].color, 1) = {e}
    BY <2>3, DeckShape
  <2>5. c \in Cell(p, Catalog[c].color, 1) /\ d \in Cell(p, Catalog[c].color, 1)
    BY <1>1, <2>1, <2>2 DEF Cell
  <2>6. QED
    BY <2>4, <2>5
<1>8. \A d \in own \intersect Colored(p) : 2..Catalog[d].tier = {}
  <2>1. \A d \in own \intersect Colored(p) : Catalog[d].tier = 1
    BY <1>2, DeckShape
  <2>2. 2..1 = {}
    OBVIOUS
  <2>3. QED
    BY <2>1, <2>2
<1>9. QED
  BY <1>1, <1>4, <1>5, <1>6, <1>7, <1>8 DEF Books

\* At the start every hero holds its basic cards and one card of each colour.
LEMMA LedgerInit ==
    ASSUME Init
    PROVE  Booked(game)
<1> DEFINE fresh(coin) ==
        [hero |-> [p \in Players |-> StartingHex(p)], minions |-> {},
         hand |-> [p \in Players |-> StartingHand(p)], played |-> [p \in Players |-> None],
         resolved |-> [p \in Players |-> {}], discard |-> [p \in Players |-> {}],
         deck |-> [p \in Players |-> Deck[p] \ StartingHand(p)],
         items |-> [p \in Players |-> {}], ultimate |-> [p \in Players |-> {}],
         coins |-> [p \in Players |-> 0], level |-> [p \in Players |-> 1],
         passed |-> [p \in Players |-> FALSE], leveled |-> [p \in Players |-> FALSE],
         owed |-> [p \in Players |-> 0], lane |-> (Len(Lane) + 1) \div 2, round |-> 1, turn |-> 1,
         waves |-> Waves, lives |-> [team \in Teams |-> Lives],
         coin |-> coin, flip |-> FALSE, phase |-> [type |-> "Play"]]
<1>1. PICK coin \in Teams : game = RespawnMinions(fresh(coin))
  BY DEF Init
<1> DEFINE g == fresh(coin)
<1>2. /\ DOMAIN g = Fields
      /\ g.hand = [p \in Players |-> StartingHand(p)] /\ g.played = [p \in Players |-> None]
      /\ g.resolved = [p \in Players |-> {}] /\ g.discard = [p \in Players |-> {}]
      /\ g.deck = [p \in Players |-> Deck[p] \ StartingHand(p)]
      /\ g.items = [p \in Players |-> {}] /\ g.ultimate = [p \in Players |-> {}]
      /\ g.coins = [p \in Players |-> 0] /\ g.level = [p \in Players |-> 1]
      /\ g.owed = [p \in Players |-> 0] /\ g.phase.type = "Play"
  BY DEF Fields
<1> HIDE DEF g
<1>3. Changes(g, game, {"minions"})
  BY <1>1, <1>2 DEF RespawnMinions, Changes, Fields, g
<1>4. MaxLevel \in Nat \ {0}
  BY CatalogAssumption
<1>5. g.coins \in [Players -> 0..255] /\ g.level \in [Players -> 1..MaxLevel]
      /\ g.owed \in [Players -> Nat] /\ g.ultimate \in [Players -> SUBSET Cards]
  BY <1>2, <1>4
<1>6. ASSUME NEW p \in Players
      PROVE  /\ Apart(g.hand[p], g.played[p], g.resolved[p], g.discard[p])
             /\ Books(Owned(g, p), g.deck[p], g.items[p], g.ultimate[p], p)
             /\ Paid(g.level[p], g.owed[p], g.items[p], g.ultimate[p], p)
  <2> DEFINE own == StartingHand(p)
  <2>1. /\ g.hand[p] = own /\ g.played[p] = None /\ g.resolved[p] = {} /\ g.discard[p] = {}
        /\ g.deck[p] = Deck[p] \ own /\ g.items[p] = {} /\ g.ultimate[p] = {}
        /\ g.level[p] = 1 /\ g.owed[p] = 0
    BY <1>2
  <2>2. Owned(g, p) = own /\ None \notin own
    BY <2>1, CatalogAssumption DEF Owned, StartingHand
  <2>3. Books(own, Deck[p] \ own, {}, {}, p)
    BY StartBooks
  <2>4. Paid(1, 0, {}, {}, p)
    <3>1. MaxLevel >= 2
      <4>1. PICK c \in Deck[p] : Purple(c)
        BY CatalogAssumption
      <4>2. MaxLevel - 2 = Cardinality(ColorsOf(p)) * (Top(p) - 1)
        BY DeckShape
      <4>3. Cardinality(ColorsOf(p)) \in Nat /\ Top(p) \in Nat
        BY DeckShape, FS_CardinalityType
      <4>4. CASE ColorsOf(p) = {}
        <5>1. Cardinality(ColorsOf(p)) = 0
          BY <4>4, FS_EmptySet
        <5>2. QED
          BY <1>4, <4>2, <4>3, <5>1
      <4>5. CASE ColorsOf(p) # {}
        <5>1. Top(p) - 1 \in Nat
          BY <4>3, <4>5, DeckShape
        <5>2. \A x, y \in Nat : x * y \in Nat
          OBVIOUS
        <5>3. Cardinality(ColorsOf(p)) * (Top(p) - 1) \in Nat
          BY <4>3, <5>1, <5>2
        <5>4. QED
          BY <1>4, <4>2, <5>3
      <4>6. QED
        BY <4>4, <4>5
    <3>2. Min({1, MaxLevel - 1}) = 1 /\ 1 # MaxLevel
      BY <1>4, <3>1, MinOfTwo
    <3>3. Cardinality({}) = 0
      BY FS_EmptySet
    <3>4. QED
      BY <3>2, <3>3 DEF Paid
  <2>5. QED
    BY <2>1, <2>2, <2>3, <2>4 DEF Apart
<1>7. Ledger(g)
  BY <1>5, <1>6 DEF Ledger
<1>8. Ledger(game)
  <2>1. Changes(g, game, Loose)
    BY <1>3 DEF Changes, Loose
  <2>2. QED
    BY <1>7, <2>1, LedgerStays
<1>9. game.phase.type = "Play"
  BY <1>2, <1>3 DEF Changes, Fields
<1>10. QED
  BY <1>8, <1>9 DEF Booked, Banked, Panicked

\* Every action keeps the ledger.
LEMMA PlaysBook ==
    ASSUME GameInv, Booked(game), NEW p \in Players, PlayCard(p) \/ Pass(p)
    PROVE  Booked(game')
<1>1. /\ WellMade(game) /\ Alive(game) /\ game.phase.type = "Play" /\ game.played[p] = None
      /\ Ledger(game)
  BY DEF GameInv, PlayCard, Pass, Playing, Booked
<1>2. CASE Pass(p)
  <2> DEFINE k == [game EXCEPT !.passed[p] = TRUE]
  <2>1. Changes(game, k, {"passed"}) /\ game' = AfterPlay(k)
    BY <1>1, <1>2 DEF Pass, WellMade, Fields, Changes
  <2> HIDE DEF k
  <2>2. WellMade(k)
    BY <1>1, <2>1, StaysWellMade DEF Changes, Fields, Made
  <2>3. Alive(k) /\ k.phase.type = "Play"
    BY <1>1, <2>1 DEF Alive, IsOver, Changes, Fields
  <2>4. Ledger(k)
    <3>1. Changes(game, k, Loose)
      BY <2>1 DEF Changes, Loose
    <3>2. QED
      BY <1>1, <3>1, LedgerStays
  <2>5. QED
    BY <2>1, <2>2, <2>3, <2>4, AfterPlayBooks
<1>3. CASE PlayCard(p)
  <2>1. PICK c \in game.hand[p] :
          game' = AfterPlay([game EXCEPT !.hand[p] = @ \ {c}, !.played[p] = c])
    BY <1>3 DEF PlayCard
  <2> DEFINE k == [game EXCEPT !.hand[p] = @ \ {c}, !.played[p] = c]
             hand == [game.hand EXCEPT ![p] = @ \ {c}]
             played == [game.played EXCEPT ![p] = c]
  <2>2. Changes(game, k, {"hand", "played"}) /\ k.hand = hand /\ k.played = played
    BY <1>1 DEF WellMade, Fields, Changes
  <2>3. c \in Deck[p] /\ c \in Cards
    BY <1>1 DEF WellMade, Held
  <2>4. hand \in [Players -> SUBSET Cards] /\ played \in [Players -> Cards \union {None}]
    BY <1>1, <2>3 DEF WellMade
  <2>5. \A q \in Players : hand[q] \subseteq Deck[q] /\ played[q] \in Deck[q] \union {None}
    BY <1>1, <2>3 DEF WellMade, Held
  <2>6. game' = AfterPlay(k)
    BY <2>1
  <2> HIDE DEF k
  <2>7. Ledger(k)
    BY <1>1, <2>2, LedgerPlay
  <2> HIDE DEF hand, played
  <2>8. \A q \in Players : Held(k, q) \subseteq Deck[q] /\ k.played[q] \in Deck[q] \union {None}
    BY <1>1, <2>2, <2>5 DEF WellMade, Held, Changes, Fields
  <2>9. WellMade(k)
    BY <1>1, <2>2, <2>4, <2>8 DEF WellMade, Changes, Fields
  <2>10. Alive(k) /\ k.phase.type = "Play"
    BY <1>1, <2>2 DEF Alive, IsOver, Changes, Fields
  <2>11. QED
    BY <2>6, <2>7, <2>9, <2>10, AfterPlayBooks
<1>4. QED
  BY <1>2, <1>3

\* Choosing, respawning and attacking a hero move no card.
LEMMA AskedBook ==
    ASSUME GameInv, Booked(game), NEW p \in Players, ChooseActor(p) \/ Respawn(p) \/ AttackHero(p)
    PROVE  Booked(game')
<1>1. WellMade(game) /\ Ledger(game)
  BY DEF GameInv, Booked
<1>2. Changes(game, game', {"phase", "hero"}) /\ game'.phase.type \in {"Act", "Defend"}
  <2>1. CASE ChooseActor(p)
    <3>1. game' = [game EXCEPT !.phase = [type |-> "Act", player |-> p]]
      BY <2>1 DEF ChooseActor
    <3>2. QED
      BY <1>1, <3>1 DEF WellMade, Fields, Changes
  <2>2. CASE Respawn(p)
    <3>1. PICK h : game' = [game EXCEPT !.hero[p] = h]
      BY <2>2 DEF Respawn, Place
    <3>2. game.phase.type = "Act"
      BY <2>2 DEF Respawn, Acting
    <3>3. QED
      BY <1>1, <3>1, <3>2 DEF WellMade, Fields, Changes
  <2>3. CASE AttackHero(p)
    <3>1. PICK q \in Players :
            game' = [game EXCEPT !.phase =
              [type |-> "Defend", attacker |-> p, defender |-> q,
               total |-> Played(p).attack + ItemBonus(game, p, "Attack")]]
      BY <2>3 DEF AttackHero
    <3>2. QED
      BY <1>1, <3>1 DEF WellMade, Fields, Changes
  <2>4. QED
    BY <2>1, <2>2, <2>3
<1>3. Ledger(game')
  <2>1. Changes(game, game', Loose)
    BY <1>2 DEF Changes, Loose
  <2>2. QED
    BY <1>1, <2>1, LedgerStays
<1>4. QED
  BY <1>2, <1>3 DEF Booked, Banked, Panicked

\* An action that ends keeps the books by the end it comes to.
LEMMA ActionsBook ==
    ASSUME GameInv, Booked(game), NEW p \in Players,
           Move(p) \/ FastTravel(p) \/ AttackMinion(p) \/ Hold(p)
    PROVE  Booked(game')
<1>1. WellMade(game) /\ Alive(game) /\ ~IsOver(game) /\ ~Panicked(game) /\ Ledger(game)
  BY DEF GameInv, Move, FastTravel, AttackMinion, Hold, OnBoard, Acting, IsOver, Panicked,
         Booked
<1>2. CASE Hold(p)
  BY <1>1, <1>2, FinishActionBooks DEF Hold
<1>3. CASE Move(p) \/ FastTravel(p)
  <2>1. PICK h : game' = FinishAction([game EXCEPT !.hero[p] = h], p)
    BY <1>3 DEF Move, FastTravel, Place
  <2> DEFINE k == [game EXCEPT !.hero[p] = h]
  <2>2. Changes(game, k, {"hero"})
    BY <1>1 DEF WellMade, Fields, Changes
  <2>3. game' = FinishAction(k, p)
    BY <2>1
  <2> HIDE DEF k
  <2>4. WellMade(k)
    BY <1>1, <2>2, StaysWellMade DEF Changes, Fields, Made
  <2>5. Alive(k) /\ ~Panicked(k)
    BY <1>1, <2>2 DEF Alive, IsOver, Panicked, Changes, Fields
  <2>6. Ledger(k)
    <3>1. Changes(game, k, Loose)
      BY <2>2 DEF Changes, Loose
    <3>2. QED
      BY <1>1, <3>1, LedgerStays
  <2>7. QED
    BY <2>3, <2>4, <2>5, <2>6, FinishActionBooks
<1>4. CASE AttackMinion(p)
  <2>1. PICK m \in game.minions : game' = FinishAction(DefeatMinion(game, m, p), p)
    BY <1>4 DEF AttackMinion
  <2> DEFINE k == DefeatMinion(game, m, p)
  <2>2. WellMade(k) /\ Alive(k) /\ (IsOver(k) \/ k.phase = game.phase) /\ Ledger(k)
    BY <1>1, DefeatMinionPushes, DefeatMinionBooks
  <2>3. game' = FinishAction(k, p)
    BY <2>1
  <2> HIDE DEF k
  <2>4. ~Panicked(k)
    BY <1>1, <2>2 DEF IsOver, Panicked
  <2>5. QED
    BY <2>2, <2>3, <2>4, FinishActionBooks
<1>5. QED
  BY <1>2, <1>3, <1>4

\* A defense spends the card it is made with.
LEMMA DefendsBook ==
    ASSUME GameInv, Booked(game), NEW p \in Players, Defend(p)
    PROVE  Booked(game')
<1>1. WellMade(game) /\ Alive(game) /\ Asked(game) /\ Ledger(game)
  BY DEF GameInv, Booked
<1>2. PICK card \in game.hand[p] \union {None} : game' = ResolveDefense(game, p, card)
  BY DEF Defend
<1>3. game.phase.type = "Defend" /\ game.phase.defender = p
  BY DEF Defend
<1>4. QED
  BY <1>1, <1>2, <1>3, DefenseBooks

\* An upgrade changes three piles of one hero and what it is owed.
LEMMA UpgradesBook ==
    ASSUME GameInv, Booked(game), NEW p \in Players, Upgrade(p)
    PROVE  Booked(game')
<1>1. /\ WellMade(game) /\ Alive(game) /\ Ledger(game) /\ ~Panicked(game) /\ ~IsOver(game)
      /\ game.phase.type = "LevelUp" /\ game.owed[p] > 0
      /\ \A q \in Players : game.played[q] = None /\ game.resolved[q] = {} /\ game.discard[q] = {}
  BY DEF GameInv, Booked, Banked, Asked, Upgrade, IsOver
<1>2. PICK out \in game.hand[p], take \in game.deck[p] :
        /\ ~Basic(out) /\ Catalog[take].color = Catalog[out].color
        /\ Catalog[take].tier = Catalog[out].tier + 1
        /\ game' = ContinueLevelUps(UpgradeCard(game, p, out, take))
  BY DEF Upgrade, UpgradeChoices
<1> DEFINE k == UpgradeCard(game, p, out, take)
<1>3. Ledger(k) /\ Changes(game, k, {"hand", "deck", "items", "owed"})
  BY <1>1, <1>2, LedgerUpgrade
<1>4. WellMade(k)
  BY <1>1, <1>2, UpgradeKeeps
<1>5. game' = ContinueLevelUps(k)
  BY <1>2
<1> HIDE DEF k
<1>6. /\ Alive(k) /\ ~IsOver(k) /\ ~Panicked(k)
      /\ \A q \in Players : k.resolved[q] = {} /\ k.discard[q] = {}
  BY <1>1, <1>3 DEF Alive, IsOver, Panicked, Changes, Fields
<1>7. QED
  BY <1>3, <1>4, <1>5, <1>6, LevelUpsBook

\* What holds of the game and its ledger between two actions.
BookInv == GameInv /\ Booked(game)

\* No `expect` fails, and the ledger balances: the cards of a hero are where they
\* should be, its coins fit a byte, its levels have been paid out.
THEOREM BooksBalance == Spec => []BookInv
<1>1. Init => BookInv
  BY GameInit, LedgerInit DEF BookInv
<1>2. BookInv /\ [Next]_game => BookInv'
  <2> SUFFICES ASSUME GameInv, Booked(game), [Next]_game PROVE GameInv' /\ Booked(game')
    BY DEF BookInv
  <2>1. CASE UNCHANGED game
    BY <2>1 DEF GameInv
  <2>2. ASSUME NEW p \in Players, Act(p) PROVE GameInv' /\ Booked(game')
    <3>1. Advanced(game, game')
      BY <2>2, GameStep
    <3>2. Booked(game')
      BY <2>2, PlaysBook, AskedBook, ActionsBook, DefendsBook, UpgradesBook DEF Act
    <3>3. QED
      BY <3>1, <3>2 DEF Advanced, GameInv
  <2>3. QED
    BY <2>1, <2>2 DEF Next, Stop
<1>3. QED
  BY <1>1, <1>2, PTL DEF Spec

\* Every level a hero has bought gave it an item or still owes it one; only the
\* last level gives the ultimate.
THEOREM LevelsArePaid == Spec => []LevelsPaidOut
<1>1. BookInv => LevelsPaidOut
  <2> SUFFICES ASSUME Ledger(game), NEW p \in Players
               PROVE  /\ Cardinality(game.items[p]) + game.owed[p]
                           = Min({game.level[p], MaxLevel - 1}) - 1
                      /\ game.ultimate[p] # {} <=> game.level[p] = MaxLevel
    BY DEF LevelsPaidOut, BookInv, Booked
  <2>1. Ultimates(p) # {}
    BY CatalogAssumption DEF Ultimates
  <2>2. Paid(game.level[p], game.owed[p], game.items[p], game.ultimate[p], p)
    BY DEF Ledger
  <2>3. QED
    BY <2>1, <2>2 DEF Paid
<1>2. QED
  BY <1>1, BooksBalance, PTL

\* No `expect` of the engine fails, and whoever is asked has something to answer:
\* the one to act has a played card, the hero that defends is on the board, a level
\* owed has a card to take.
THEOREM SomebodyCanAnswer == Spec => []NeverStuck
<1>1. BookInv => NeverStuck
  <2> SUFFICES ASSUME BookInv PROVE NeverStuck
    OBVIOUS
  <2>1. WellMade(game) /\ Asked(game) /\ Ledger(game) /\ Banked(game) /\ ~Panicked(game)
    BY DEF BookInv, GameInv, Booked
  <2>2. Actors = ActorsOf(game)
    BY DEF Actors, ActorsOf
  <2>3. game.phase.type = "Play" => \E p \in Players : Playing(p)
    BY <2>1 DEF Asked, Playing
  <2>4. game.phase.type \in {"ChooseActor", "Act", "Defend"} => Actors # {}
    BY <2>1, <2>2 DEF Asked
  <2>5. \A p \in Actors : game.played[p] # None
    BY <2>1, <2>2 DEF Asked, Left
  <2>6. game.phase.type = "Defend" => game.hero[game.phase.defender] # Nowhere
    BY <2>1 DEF Asked
  <2>7. ASSUME game.phase.type = "LevelUp"
        PROVE  UpgradeChoices(game, game.phase.player) # {}
    <3> DEFINE p == game.phase.player
               own == game.hand[p]
               tiered == {c \in own : ~Basic(c)}
               lowest == Min({Catalog[c].tier : c \in tiered})
    <3>1. p \in Players /\ game.played[p] = None /\ game.resolved[p] = {} /\ game.discard[p] = {}
      BY <2>1, <2>7 DEF Asked, Banked
    <3>2. Owned(game, p) = own
      BY <3>1 DEF Owned
    <3>3. game.owed[p] \in Nat \ {0} /\ game.level[p] \in 1..MaxLevel
      BY <2>1, <2>7, <3>1 DEF Banked, Ledger
    <3>4. /\ Books(own, game.deck[p], game.items[p], game.ultimate[p], p)
          /\ Paid(game.level[p], game.owed[p], game.items[p], game.ultimate[p], p)
      BY <2>1, <3>1, <3>2 DEF Ledger
    <3>5. Upgradable(own, game.deck[p])
      <4> HIDE DEF p, own
      <4> QED BY <3>1, <3>3, <3>4, AnUpgradeWaits
    <3>6. PICK out \in tiered, take \in game.deck[p] :
            /\ Catalog[out].tier = lowest
            /\ Catalog[take].color = Catalog[out].color
            /\ Catalog[take].tier = lowest + 1
      BY <3>5 DEF Upgradable
    <3>7. UpgradeChoices(game, p) =
            {choice \in tiered \X game.deck[p] :
               /\ Catalog[choice[1]].tier = lowest
               /\ Catalog[choice[2]].color = Catalog[choice[1]].color
               /\ Catalog[choice[2]].tier = lowest + 1}
      BY DEF UpgradeChoices
    <3> HIDE DEF p, tiered, lowest
    <3>8. <<out, take>> \in UpgradeChoices(game, p)
      BY <3>6, <3>7
    <3>9. QED
      BY <3>8 DEF p
  <2>8. QED
    BY <2>1, <2>3, <2>4, <2>5, <2>6, <2>7 DEF NeverStuck
<1>2. QED
  BY <1>1, BooksBalance, PTL

\* A hero owns as many cards as it started with, one of each colour.
LEMMA OwnsItsColors ==
    ASSUME NEW p \in Players, NEW own, NEW deck, NEW items, NEW ult,
           Books(own, deck, items, ult, p)
    PROVE  /\ {Catalog[c].color : c \in own}
                = {Catalog[c].color : c \in Basics(p)} \union ColorsOf(p)
           /\ Cardinality(own) = Cardinality(Basics(p)) + Cardinality(ColorsOf(p))
<1> DEFINE colored == own \intersect Colored(p)
<1>1. own = Basics(p) \union colored
  BY DEF Books
<1>2. \A c \in Colored(p) : ~Basic(c) /\ Catalog[c].color \in ColorsOf(p)
  BY DeckShape
<1>3. Basics(p) \intersect colored = {}
  BY <1>2 DEF Basics
<1>4. \A x \in ColorsOf(p) : \E c \in colored : Catalog[c].color = x
  BY DEF Books, Colored
<1>5. IsFiniteSet(Basics(p)) /\ IsFiniteSet(colored)
  <2>1. IsFiniteSet(Deck[p])
    BY DeckShape
  <2>2. Basics(p) \in SUBSET Deck[p] /\ colored \in SUBSET Deck[p]
    BY DEF Basics, Colored
  <2> HIDE DEF colored
  <2>3. QED
    BY <2>1, <2>2, FS_Subset
<1>6. \A c, d \in colored : Catalog[c].color = Catalog[d].color => c = d
  BY <1>2 DEF Books
<1>7. \A c \in colored : Catalog[c].color \in ColorsOf(p)
  BY <1>2
<1> HIDE DEF colored
<1>8. Cardinality(colored) = Cardinality(ColorsOf(p))
  BY <1>4, <1>5, <1>6, <1>7, OnePerColor
<1>9. Cardinality(Basics(p) \union colored) = Cardinality(Basics(p)) + Cardinality(colored)
  <2>1. Cardinality(Basics(p)) \in Nat /\ Cardinality(colored) \in Nat
    BY <1>5, FS_CardinalityType
  <2>2. Cardinality(Basics(p) \union colored)
          = Cardinality(Basics(p)) + Cardinality(colored) - Cardinality(Basics(p) \intersect colored)
    BY <1>5, FS_Union
  <2>3. Cardinality(Basics(p) \intersect colored) = 0
    BY <1>3, FS_EmptySet
  <2>4. QED
    BY <2>1, <2>2, <2>3
<1>10. {Catalog[c].color : c \in own} = {Catalog[c].color : c \in Basics(p)} \union ColorsOf(p)
  BY <1>1, <1>4, <1>7
<1>11. QED
  BY <1>1, <1>8, <1>9, <1>10

\* Through plays, defenses, defeats, retrievals and upgrades every card of a hero is
\* in exactly one place, and the hero always owns one card of each colour it
\* started with.
THEOREM CardsStayAccounted == Spec => []CardsAccounted
<1>1. BookInv => CardsAccounted
  <2> SUFFICES ASSUME BookInv, NEW p \in Players
               PROVE  LET piles == <<game.hand[p], {game.played[p]} \ {None}, game.resolved[p],
                                     game.discard[p], game.deck[p], game.items[p],
                                     game.ultimate[p]>>
                          Colors(S) == {Catalog[c].color : c \in S}
                      IN  /\ \A i, j \in DOMAIN piles : i # j => piles[i] \intersect piles[j] = {}
                          /\ UNION {piles[i] : i \in DOMAIN piles} = Deck[p]
                          /\ Colors(Owned(game, p)) = Colors(StartingHand(p))
                          /\ Cardinality(Owned(game, p)) = Cardinality(StartingHand(p))
    BY DEF CardsAccounted
  <2> DEFINE hand == game.hand[p]
             played == {game.played[p]} \ {None}
             resolved == game.resolved[p]
             discard == game.discard[p]
             deck == game.deck[p]
             items == game.items[p]
             ult == game.ultimate[p]
             own == Owned(game, p)
             piles == <<hand, played, resolved, discard, deck, items, ult>>
             Colors(S) == {Catalog[c].color : c \in S}
  <2>1. Ledger(game)
    BY DEF BookInv, Booked
  <2>2. Books(own, deck, items, ult, p) /\ Apart(hand, game.played[p], resolved, discard)
    BY <2>1 DEF Ledger
  <2>3. own = hand \union played \union resolved \union discard
    BY DEF Owned
  <2>4. /\ hand \intersect played = {} /\ hand \intersect resolved = {} /\ hand \intersect discard = {}
        /\ played \intersect resolved = {} /\ played \intersect discard = {}
        /\ resolved \intersect discard = {}
    BY <2>2 DEF Apart
  <2>5. /\ own \union deck \union items \union ult = Deck[p]
        /\ own \intersect deck = {} /\ own \intersect items = {} /\ own \intersect ult = {}
        /\ deck \intersect items = {} /\ deck \intersect ult = {} /\ items \intersect ult = {}
    BY <2>2 DEF Books
  <2>6. Books(StartingHand(p), Deck[p] \ StartingHand(p), {}, {}, p)
    BY StartBooks
  <2> HIDE DEF own
  <2>7. Colors(own) = Colors(StartingHand(p)) /\ Cardinality(own) = Cardinality(StartingHand(p))
    <3>1. /\ Colors(own) = Colors(Basics(p)) \union ColorsOf(p)
          /\ Cardinality(own) = Cardinality(Basics(p)) + Cardinality(ColorsOf(p))
      BY <2>2, OwnsItsColors
    <3>2. /\ Colors(StartingHand(p)) = Colors(Basics(p)) \union ColorsOf(p)
          /\ Cardinality(StartingHand(p)) = Cardinality(Basics(p)) + Cardinality(ColorsOf(p))
      BY <2>6, OwnsItsColors
    <3>3. QED
      BY <3>1, <3>2
  <2> HIDE DEF hand, played, resolved, discard, deck, items, ult
  <2>8. DOMAIN piles = 1..7
    OBVIOUS
  <2>9. /\ piles[1] = hand /\ piles[2] = played /\ piles[3] = resolved /\ piles[4] = discard
        /\ piles[5] = deck /\ piles[6] = items /\ piles[7] = ult
    OBVIOUS
  <2> HIDE DEF piles
  <2>10. \A i, j \in DOMAIN piles : i # j => piles[i] \intersect piles[j] = {}
    BY <2>3, <2>4, <2>5, <2>8, <2>9
  <2>11. UNION {piles[i] : i \in DOMAIN piles} = Deck[p]
    <3>1. UNION {piles[i] : i \in DOMAIN piles}
            = hand \union played \union resolved \union discard \union deck \union items \union ult
      BY <2>8, <2>9
    <3>2. QED
      BY <2>3, <2>5, <3>1
  <2>12. QED
    BY <2>7, <2>10, <2>11 DEF piles, hand, played, resolved, discard, deck, items, ult, own
<1>2. QED
  BY <1>1, BooksBalance, PTL

=============================================================================

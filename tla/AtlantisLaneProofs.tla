------------------------- MODULE AtlantisLaneProofs -------------------------
(***************************************************************************)
(* Proofs about the units on the board of atlantis and the length of its   *)
(* rounds, for every board, catalogue and number of players.               *)
(***************************************************************************)
EXTENDS AtlantisProofs

-----------------------------------------------------------------------------
(* Orders on hexes *)

\* The board lists its hexes in a strict total order.
LEMMA HexesInOrder ==
    ASSUME NEW h \in Hexes, NEW k \in Hexes
    PROVE  /\ ~HexLess(h, h) /\ (h # k => HexLess(h, k) \/ HexLess(k, h))
           /\ \A l \in Hexes : HexLess(h, k) /\ HexLess(k, l) => HexLess(h, l)
<1>1. /\ h \in Int \X Int /\ k \in Int \X Int /\ \A l \in Hexes : l \in Int \X Int
  BY BoardAssumption
<1>2. ~HexLess(h, h)
  BY <1>1 DEF HexLess
<1>3. h # k => HexLess(h, k) \/ HexLess(k, h)
  BY <1>1 DEF HexLess
<1>4. ASSUME NEW l \in Hexes, HexLess(h, k), HexLess(k, l) PROVE HexLess(h, l)
  BY <1>1, <1>4 DEF HexLess
<1>5. QED
  BY <1>2, <1>3, <1>4

Rank(S, h) == Cardinality({k \in S : HexLess(k, h)})

\* The ranks of a set of hexes are the numbers below its size, each taken once.
LEMMA RanksAreNumbers ==
    ASSUME NEW S, S \subseteq Hexes
    PROVE  /\ IsFiniteSet(S) /\ Cardinality(S) \in Nat
           /\ \A h \in S : Rank(S, h) \in 0..(Cardinality(S) - 1)
           /\ \A h, k \in S : Rank(S, h) = Rank(S, k) => h = k
           /\ \A n \in 0..(Cardinality(S) - 1) : \E h \in S : Rank(S, h) = n
<1> DEFINE Below(h) == {k \in S : HexLess(k, h)}
           c == Cardinality(S)
           f == [h \in S |-> Rank(S, h)]
<1>1. IsFiniteSet(S) /\ c \in Nat
  BY BoardAssumption, FS_Subset, FS_CardinalityType
<1>2. \A h \in S : Below(h) \subseteq S \ {h}
  BY HexesInOrder
<1>3. \A h \in S : IsFiniteSet(Below(h)) /\ Rank(S, h) \in Nat /\ Rank(S, h) < c
  <2> SUFFICES ASSUME NEW h \in S
               PROVE  IsFiniteSet(Below(h)) /\ Rank(S, h) \in Nat /\ Rank(S, h) < c
    OBVIOUS
  <2>1. IsFiniteSet(S \ {h}) /\ Cardinality(S \ {h}) = c - 1
    BY <1>1, FS_RemoveElement
  <2>2. Below(h) \in SUBSET (S \ {h})
    BY <1>2
  <2>3. Rank(S, h) = Cardinality(Below(h))
    BY DEF Rank
  <2> HIDE DEF Below, c
  <2>4. IsFiniteSet(Below(h)) /\ Cardinality(Below(h)) <= Cardinality(S \ {h})
    BY <2>1, <2>2, FS_Subset
  <2>5. Cardinality(Below(h)) \in Nat
    BY <2>4, FS_CardinalityType
  <2>6. QED
    BY <1>1, <2>1, <2>3, <2>4, <2>5
<1>4. \A h, k \in S : HexLess(h, k) => Rank(S, h) < Rank(S, k)
  <2> SUFFICES ASSUME NEW h \in S, NEW k \in S, HexLess(h, k) PROVE Rank(S, h) < Rank(S, k)
    OBVIOUS
  <2>1. Below(h) \in SUBSET Below(k) /\ h \in Below(k) /\ h \notin Below(h)
    BY HexesInOrder
  <2>2. Rank(S, h) = Cardinality(Below(h)) /\ Rank(S, k) = Cardinality(Below(k))
    BY DEF Rank
  <2> HIDE DEF Below
  <2>3. Cardinality(Below(h)) <= Cardinality(Below(k))
        /\ Cardinality(Below(h)) # Cardinality(Below(k))
    BY <1>3, <2>1, FS_Subset
  <2>4. QED
    BY <1>3, <2>2, <2>3
<1>5. \A h, k \in S : Rank(S, h) = Rank(S, k) => h = k
  <2> SUFFICES ASSUME NEW h \in S, NEW k \in S, Rank(S, h) = Rank(S, k), h # k PROVE FALSE
    OBVIOUS
  <2>1. HexLess(h, k) \/ HexLess(k, h)
    BY HexesInOrder
  <2>2. Rank(S, h) < Rank(S, k) \/ Rank(S, k) < Rank(S, h)
    BY <1>4, <2>1
  <2>3. Rank(S, h) \in Nat
    BY <1>3
  <2> HIDE DEF Below
  <2>4. QED
    BY <2>2, <2>3
<1>6. \A h \in S : Rank(S, h) \in 0..(c - 1)
  <2> SUFFICES ASSUME NEW h \in S PROVE Rank(S, h) \in 0..(c - 1)
    OBVIOUS
  <2>1. Rank(S, h) \in Nat /\ Rank(S, h) < c
    BY <1>3
  <2> HIDE DEF c, Below
  <2>2. QED
    BY <1>1, <2>1
<1>7. f \in Injection(S, 0..(c - 1))
  <2>1. f \in [S -> 0..(c - 1)]
    <3> HIDE DEF c
    <3> QED BY <1>6
  <2>2. \A h, k \in S : f[h] = f[k] => h = k
    BY <1>5
  <2> HIDE DEF f, c
  <2>3. QED
    BY <2>1, <2>2 DEF Injection, IsInjective
<1>8. IsFiniteSet(0..(c - 1)) /\ Cardinality(0..(c - 1)) = c
  <2> HIDE DEF c
  <2>1. QED
    BY <1>1, FS_Interval
<1>9. f \in Surjection(S, 0..(c - 1))
  <2> HIDE DEF f
  <2>1. QED
    BY <1>7, <1>8, FS_Injection
<1>10. \A n \in 0..(c - 1) : \E h \in S : Rank(S, h) = n
  BY <1>9 DEF Surjection
<1>11. QED
  BY <1>1, <1>5, <1>10, <1>6

\* The n-th hex is one of the set, each number gives another one, and each hex is
\* the n-th for some number.
LEMMA NthOfHexes ==
    ASSUME NEW S, S \subseteq Hexes
    PROVE  /\ \A n \in 1..Cardinality(S) : Nth(S, n) \in S
           /\ \A n, m \in 1..Cardinality(S) : Nth(S, n) = Nth(S, m) => n = m
           /\ \A h \in S : \E n \in 1..Cardinality(S) : Nth(S, n) = h
           /\ \A n \in 1..Cardinality(S) : Rank(S, Nth(S, n)) = n - 1
<1>1. /\ Cardinality(S) \in Nat
      /\ \A h \in S : Rank(S, h) \in 0..(Cardinality(S) - 1)
      /\ \A h, k \in S : Rank(S, h) = Rank(S, k) => h = k
      /\ \A n \in 0..(Cardinality(S) - 1) : \E h \in S : Rank(S, h) = n
  BY RanksAreNumbers
<1> DEFINE c == Cardinality(S)
<1> HIDE DEF c
<1>2. \A n \in 1..c : Nth(S, n) \in S /\ Rank(S, Nth(S, n)) = n - 1
  <2> SUFFICES ASSUME NEW n \in 1..c
               PROVE  Nth(S, n) \in S /\ Rank(S, Nth(S, n)) = n - 1
    OBVIOUS
  <2>1. n - 1 \in 0..(c - 1)
    BY <1>1 DEF c
  <2>2. \E h \in S : Rank(S, h) = n - 1
    BY <1>1, <2>1 DEF c
  <2>3. Nth(S, n) = CHOOSE h \in S : Rank(S, h) = n - 1
    BY DEF Nth, Rank
  <2>4. QED
    BY <2>2, <2>3
<1>3. \A n, m \in 1..c : Nth(S, n) = Nth(S, m) => n = m
  <2> SUFFICES ASSUME NEW n \in 1..c, NEW m \in 1..c, Nth(S, n) = Nth(S, m) PROVE n = m
    OBVIOUS
  <2>1. n - 1 = m - 1
    BY <1>2
  <2>2. QED
    BY <2>1, <1>1 DEF c
<1>4. \A h \in S : \E n \in 1..c : Nth(S, n) = h
  <2> SUFFICES ASSUME NEW h \in S PROVE \E n \in 1..c : Nth(S, n) = h
    OBVIOUS
  <2>1. Rank(S, h) \in 0..(c - 1)
    BY <1>1 DEF c
  <2>2. Rank(S, h) + 1 \in 1..c /\ (Rank(S, h) + 1) - 1 = Rank(S, h)
    BY <1>1, <2>1 DEF c
  <2>3. Nth(S, Rank(S, h) + 1) \in S /\ Rank(S, Nth(S, Rank(S, h) + 1)) = Rank(S, h)
    BY <1>2, <2>2
  <2>4. Nth(S, Rank(S, h) + 1) = h
    BY <1>1, <2>3
  <2>5. QED
    BY <2>2, <2>4
<1>5. QED
  BY <1>2, <1>3, <1>4 DEF c

\* A distance is a number.
LEMMA DistanceIsNat ==
    ASSUME NEW h \in Hexes, NEW k \in Hexes
    PROVE  Distance(h, k) \in Nat
<1>1. /\ h[1] \in Int /\ h[2] \in Int /\ k[1] \in Int /\ k[2] \in Int
  BY BoardAssumption
<1>2. QED
  BY <1>1 DEF Distance

\* The nearest of the free spaces is one of them.
LEMMA NearestIsFree ==
    ASSUME NEW from \in Hexes, NEW free, free \subseteq Hexes, free # {}
    PROVE  Nearest(from, free) \in free
<1> DEFINE D == {Distance(from, h) : h \in free}
           near == {h \in free : Distance(from, h) = Min(D)}
<1>1. D \subseteq Nat /\ D # {}
  BY DistanceIsNat
<1>2. Min(D) \in D /\ \A n \in D : Min(D) <= n
  <2> HIDE DEF D
  <2>1. QED
    BY <1>1, MinOfNats
<1>3. near # {} /\ near \subseteq Hexes
  BY <1>2
<1>4. PICK h \in near : Rank(near, h) = 0
  <2> HIDE DEF near
  <2>1. IsFiniteSet(near) /\ Cardinality(near) \in Nat
    BY <1>3, RanksAreNumbers
  <2>2. Cardinality(near) # 0
    BY <1>3, <2>1, FS_EmptySet
  <2>3. 0 \in 0..(Cardinality(near) - 1)
    BY <2>1, <2>2
  <2>4. QED
    BY <1>3, <2>3, RanksAreNumbers
<1>5. \A k \in near : ~HexLess(k, h)
  <2> HIDE DEF near
  <2>1. IsFiniteSet({k \in near : HexLess(k, h)})
    <3>1. {k \in near : HexLess(k, h)} \in SUBSET near
      OBVIOUS
    <3>2. IsFiniteSet(near)
      BY <1>3, RanksAreNumbers
    <3>3. QED
      BY <3>1, <3>2, FS_Subset
  <2>2. {k \in near : HexLess(k, h)} = {}
    BY <1>4, <2>1, FS_EmptySet DEF Rank
  <2>3. QED
    BY <2>2
<1>6. h \in free /\ \A k \in free : h = k \/ Nearer(from, h, k)
  <2>1. h \in free /\ Distance(from, h) = Min(D)
    OBVIOUS
  <2> SUFFICES ASSUME NEW k \in free, h # k PROVE Nearer(from, h, k)
    BY <2>1
  <2>2. Distance(from, h) \in Nat /\ Distance(from, k) \in Nat
    BY DistanceIsNat
  <2>3. Distance(from, h) <= Distance(from, k)
    BY <1>2, <2>1
  <2>4. CASE Distance(from, h) = Distance(from, k)
    <3>1. k \in near
      BY <2>1, <2>4
    <3>2. HexLess(h, k)
      BY <1>3, <1>5, <3>1, HexesInOrder
    <3>3. QED
      BY <2>4, <3>2 DEF Nearer
  <2>5. CASE Distance(from, h) # Distance(from, k)
    BY <2>2, <2>3, <2>5 DEF Nearer
  <2>6. QED
    BY <2>4, <2>5
<1>7. QED
  BY <1>6 DEF Nearest

-----------------------------------------------------------------------------
(* Recursion *)

\* Induction up to a bound: a set that has the successors of its members has all.
LEMMA ReachesAll ==
    ASSUME NEW n \in Nat, NEW S, 0 \in S, \A i \in 1..n : i - 1 \in S => i \in S
    PROVE  \A i \in 0..n : i \in S
<1> DEFINE B == {i \in 0..n : i \notin S}
<1>1. SUFFICES ASSUME B # {} PROVE FALSE
  OBVIOUS
<1>2. B \subseteq Nat
  OBVIOUS
<1>3. Min(B) \in B /\ \A i \in B : Min(B) <= i
  <2> HIDE DEF B
  <2>1. QED
    BY <1>1, <1>2, MinOfNats
<1>4. PICK m \in 0..n : m \notin S /\ \A i \in B : m <= i
  BY <1>3
<1>5. m \in 1..n /\ m - 1 \in 0..n
  BY <1>4
<1>6. m - 1 \in S
  <2>1. m - 1 \in B => m <= m - 1
    BY <1>4
  <2>2. m - 1 \notin B
    BY <1>5, <2>1
  <2>3. QED
    BY <1>5, <2>2
<1>7. QED
  BY <1>4, <1>5, <1>6

\* A function on an interval that starts at one value and goes on by a step.
Runs(f, n, T, start, step) ==
    f \in [0..n -> T] /\ f[0] = start /\ \A i \in 1..n : f[i] = step[<<i, f[i - 1]>>]

\* A start and a step define one.
LEMMA StepsDefine ==
    ASSUME NEW n \in Nat, NEW T, NEW start \in T, NEW step \in [(1..n) \X T -> T]
    PROVE  \E f : Runs(f, n, T, start, step)
<1> DEFINE Goes(f, k) == f[0] = start /\ \A i \in 1..k : f[i] = step[<<i, f[i - 1]>>]
           S == {k \in 0..n : \E f \in [0..k -> T] : Goes(f, k)}
<1>1. 0 \in S
  <2> DEFINE f == [i \in 0..0 |-> start]
  <2>1. f \in [0..0 -> T] /\ f[0] = start /\ 1..0 = {}
    OBVIOUS
  <2> HIDE DEF f
  <2>2. Goes(f, 0)
    BY <2>1
  <2>3. QED
    BY <2>1, <2>2
<1>2. ASSUME NEW k \in 1..n, k - 1 \in S PROVE k \in S
  <2>1. PICK f \in [0..(k - 1) -> T] : Goes(f, k - 1)
    BY <1>2
  <2> DEFINE g == [i \in 0..k |-> IF i = k THEN step[<<k, f[k - 1]>>] ELSE f[i]]
  <2>2. k - 1 \in 0..(k - 1) /\ \A i \in 0..k : i = k \/ i \in 0..(k - 1)
    OBVIOUS
  <2>3. step[<<k, f[k - 1]>>] \in T
    BY <2>2
  <2>4. g \in [0..k -> T]
    BY <2>2, <2>3
  <2>5. g[0] = start
    BY <2>1
  <2>6. ASSUME NEW i \in 1..k PROVE g[i] = step[<<i, g[i - 1]>>]
    <3>1. i - 1 \in 0..k /\ i - 1 # k /\ i \in 0..k
      OBVIOUS
    <3>2. g[i - 1] = f[i - 1]
      BY <3>1
    <3>3. CASE i = k
      BY <3>1, <3>2, <3>3
    <3>4. CASE i # k
      <4>1. i \in 1..(k - 1)
        BY <3>4
      <4>2. g[i] = f[i]
        BY <3>1, <3>4
      <4>3. QED
        BY <2>1, <3>2, <4>1, <4>2
    <3>5. QED
      BY <3>3, <3>4
  <2> HIDE DEF g
  <2>7. Goes(g, k)
    BY <2>5, <2>6
  <2> HIDE DEF Goes
  <2>8. QED
    BY <2>4, <2>7
<1>3. n \in S
  <2> HIDE DEF S
  <2>1. \A i \in 0..n : i \in S
    BY <1>1, <1>2, ReachesAll
  <2>2. QED
    BY <2>1
<1>4. QED
  BY <1>3 DEF Runs

-----------------------------------------------------------------------------
(* Minions that respawn *)

Minions == [team : Teams, kind : {"Melee", "Ranged", "Heavy"}, home : Hexes, at : Hexes \ Terrain]

\* What respawning brings into the battle zone: a minion of each spawn point, each on a
\* space of its own that was empty.
Fresh(g, new) ==
    /\ IsFiniteSet(new) /\ new \subseteq Minions
    /\ \A m \in new : m.at \in EmptySpaces(g, Lane[g.lane])
    /\ \A m, n \in new : m.at = n.at => m = n
    /\ \A h \in Homes(Lane[g.lane]) : \E m \in new : m.team = SpawnAt(h).team

LEMMA RespawnFills ==
    ASSUME NEW g, Cardinality(EmptySpaces(g, Lane[g.lane])) >= Cardinality(Homes(Lane[g.lane]))
    PROVE  Fresh(g, Respawned(g))
<1> DEFINE zone == Lane[g.lane]
           homes == Homes(zone)
           c == Cardinality(homes)
           Added(minions, s) ==
             LET free == EmptySpaces(g, zone) \ {m.at : m \in minions}
             IN  IF free = {} THEN minions
                 ELSE minions \union {[team |-> s.team, kind |-> s.kind, home |-> s.home,
                                       at |-> Nearest(s.home, free)]}
           Up(f) == [i \in 0..c |-> IF i = 0 THEN {} ELSE Added(f[i - 1], SpawnAt(Nth(homes, i)))]
           u == CHOOSE f : f = Up(f)
           step == [x \in (1..c) \X SUBSET Minions |-> Added(x[2], SpawnAt(Nth(homes, x[1])))]
           empty == EmptySpaces(g, zone)
           Spots(old) == {m.at : m \in old}
<1>1. Respawned(g) = u[c]
  BY DEF Respawned
<1>2. /\ homes \subseteq Hexes \ Terrain /\ c \in Nat
      /\ empty \subseteq Hexes \ Terrain /\ IsFiniteSet(empty) /\ Cardinality(empty) \in Nat
  <2>1. homes \subseteq Hexes \ Terrain
    BY BoardAssumption DEF Homes, SpacesIn
  <2>2. empty \subseteq Hexes \ Terrain
    BY DEF EmptySpaces, SpacesIn, Obstacles
  <2> HIDE DEF homes, empty
  <2>3. QED
    BY <2>1, <2>2, RanksAreNumbers
<1>3. \A h \in homes : /\ SpawnAt(h) \in Spawns /\ SpawnAt(h).home = h
                       /\ SpawnAt(h).team \in Teams
                       /\ SpawnAt(h).kind \in {"Melee", "Ranged", "Heavy"}
  <2> SUFFICES ASSUME NEW h \in homes
               PROVE  /\ SpawnAt(h) \in Spawns /\ SpawnAt(h).home = h
                      /\ SpawnAt(h).team \in Teams
                      /\ SpawnAt(h).kind \in {"Melee", "Ranged", "Heavy"}
    OBVIOUS
  <2>1. \E s \in Spawns : s.home = h
    BY DEF Homes
  <2>2. SpawnAt(h) \in Spawns /\ SpawnAt(h).home = h
    BY <2>1 DEF SpawnAt
  <2>3. QED
    BY <2>2, BoardAssumption
<1>4. /\ \A i \in 1..c : Nth(homes, i) \in homes
      /\ \A h \in homes : \E i \in 1..c : Nth(homes, i) = h
  <2> HIDE DEF homes
  <2>1. QED
    BY <1>2, NthOfHexes
<1> HIDE DEF homes, c, empty
<1>5. ASSUME NEW old \in SUBSET Minions, NEW h \in homes
      PROVE  /\ Added(old, SpawnAt(h)) \subseteq Minions
             /\ old \subseteq Added(old, SpawnAt(h))
             /\ empty \ Spots(old) # {} =>
                  \E m \in Minions : /\ m.team = SpawnAt(h).team /\ m.at \in empty \ Spots(old)
                                     /\ Added(old, SpawnAt(h)) = old \union {m}
  <2> DEFINE free == empty \ {m.at : m \in old}
             s == SpawnAt(h)
             m == [team |-> s.team, kind |-> s.kind, home |-> s.home, at |-> Nearest(s.home, free)]
  <2>1. free \subseteq Hexes \ Terrain
    BY <1>2
  <2>2. s.home \in Hexes /\ s.team \in Teams /\ s.kind \in {"Melee", "Ranged", "Heavy"}
    BY <1>2, <1>3
  <2>3. Added(old, s) = IF free = {} THEN old ELSE old \union {m}
    BY DEF empty
  <2> HIDE DEF s, free
  <2>4. free # {} => Nearest(s.home, free) \in free
    BY <2>1, <2>2, NearestIsFree
  <2>5. free # {} => m \in Minions /\ m.team = s.team /\ m.at \in free
    BY <2>1, <2>2, <2>4 DEF Minions
  <2> HIDE DEF m, Added
  <2>6. /\ Added(old, s) \subseteq Minions /\ old \subseteq Added(old, s)
        /\ free # {} => \E n \in Minions : /\ n.team = s.team /\ n.at \in free
                                            /\ Added(old, s) = old \union {n}
    BY <2>3, <2>5
  <2>7. QED
    BY <2>6 DEF free, s
<1> HIDE DEF Added
<1>6. PICK f \in [0..c -> SUBSET Minions] :
        f[0] = {} /\ \A i \in 1..c : f[i] = step[<<i, f[i - 1]>>]
  <2>1. step \in [(1..c) \X SUBSET Minions -> SUBSET Minions]
    BY <1>4, <1>5
  <2> DEFINE T == SUBSET Minions
  <2>2. {} \in T /\ step \in [(1..c) \X T -> T]
    BY <2>1
  <2> HIDE DEF step, T
  <2>3. \E f : Runs(f, c, T, {}, step)
    BY <1>2, <2>2, StepsDefine
  <2>4. QED
    BY <2>3 DEF T, Runs
<1>7. f = Up(f)
  <2>1. \A i \in 1..c : f[i] = Added(f[i - 1], SpawnAt(Nth(homes, i)))
    <3> SUFFICES ASSUME NEW i \in 1..c PROVE f[i] = Added(f[i - 1], SpawnAt(Nth(homes, i)))
      OBVIOUS
    <3>1. i - 1 \in 0..c /\ f[i - 1] \in SUBSET Minions
      BY <1>2
    <3>2. <<i, f[i - 1]>> \in (1..c) \X SUBSET Minions
      BY <3>1
    <3>3. QED
      BY <1>6, <3>2
  <2>2. \A i \in 0..c : i = 0 \/ i \in 1..c
    BY <1>2
  <2>3. QED
    BY <1>6, <2>1, <2>2
<1>8. u = Up(u)
  <2> HIDE DEF Up
  <2>1. QED
    BY <1>7
<1>9. /\ u[0] = {} /\ \A i \in 1..c : u[i] = Added(u[i - 1], SpawnAt(Nth(homes, i)))
  <2> HIDE DEF u
  <2>1. u[0] = {}
    <3>1. 0 \in 0..c
      BY <1>2
    <3>2. QED
      BY <1>8, <3>1
  <2>2. ASSUME NEW i \in 1..c PROVE u[i] = Added(u[i - 1], SpawnAt(Nth(homes, i)))
    <3>1. i \in 0..c /\ i # 0
      BY <1>2
    <3>2. QED
      BY <1>8, <3>1
  <2>3. QED
    BY <2>1, <2>2
<1> HIDE DEF u
<1> DEFINE Good(i) == /\ IsFiniteSet(u[i]) /\ u[i] \subseteq Minions
                      /\ IsFiniteSet(Spots(u[i])) /\ Cardinality(Spots(u[i])) <= i
                      /\ Spots(u[i]) \subseteq empty
                      /\ \A m, n \in u[i] : m.at = n.at => m = n
                      /\ \A j \in 1..i : \E m \in u[i] : m.team = SpawnAt(Nth(homes, j)).team
           S == {i \in 0..c : Good(i)}
<1>10. 0 \in S
  <2>1. Spots(u[0]) = {} /\ 1..0 = {}
    BY <1>9
  <2>2. Good(0)
    BY <1>9, <2>1, FS_EmptySet
  <2> HIDE DEF Good
  <2>3. QED
    BY <1>2, <2>2
<1>11. ASSUME NEW i \in 1..c, i - 1 \in S PROVE i \in S
  <2> DEFINE h == Nth(homes, i)
             old == u[i - 1]
  <2>1. Good(i - 1) /\ i \in Nat /\ i <= c
    BY <1>2, <1>11
  <2>2. h \in homes /\ u[i] = Added(old, SpawnAt(h)) /\ old \in SUBSET Minions
    BY <1>4, <1>9, <2>1
  <2>3. empty \ Spots(old) # {}
    <3>1. Cardinality(Spots(old)) \in Nat /\ Cardinality(Spots(old)) <= i - 1
      BY <2>1, FS_CardinalityType
    <3>2. Cardinality(empty) >= c
      BY DEF empty, c, homes
    <3>3. Spots(old) # empty
      <4> HIDE DEF Spots, old
      <4> QED BY <1>2, <2>1, <3>1, <3>2
    <3>4. Spots(old) \subseteq empty
      BY <2>1
    <3> HIDE DEF Spots, old
    <3>5. QED
      BY <3>3, <3>4
  <2>4. PICK m \in Minions : /\ m.team = SpawnAt(h).team /\ m.at \in empty \ Spots(old)
                             /\ u[i] = old \union {m}
    <3> HIDE DEF old, h, Spots
    <3> QED BY <1>5, <2>2, <2>3
  <2> HIDE DEF h
  <2>5. Spots(u[i]) = Spots(old) \union {m.at}
    BY <2>4
  <2>6. IsFiniteSet(u[i]) /\ u[i] \subseteq Minions
    BY <2>1, <2>4, FS_AddElement
  <2>7. IsFiniteSet(Spots(u[i])) /\ Cardinality(Spots(u[i])) <= i
    <3>1. /\ IsFiniteSet(Spots(old)) /\ Cardinality(Spots(old)) <= i - 1
      BY <2>1
    <3> HIDE DEF Spots, old
    <3>2. /\ Cardinality(Spots(old)) \in Nat /\ IsFiniteSet(Spots(old) \union {m.at})
          /\ Cardinality(Spots(old) \union {m.at}) = Cardinality(Spots(old)) \/
             Cardinality(Spots(old) \union {m.at}) = Cardinality(Spots(old)) + 1
      BY <3>1, FS_AddElement, FS_CardinalityType
    <3>3. QED
      BY <2>1, <2>5, <3>1, <3>2
  <2>8. Spots(u[i]) \subseteq empty
    <3>1. Spots(old) \subseteq empty
      BY <2>1
    <3> HIDE DEF Spots, old
    <3>2. QED
      BY <2>4, <2>5, <3>1
  <2>9. \A a, b \in u[i] : a.at = b.at => a = b
    <3>1. \A a, b \in old : a.at = b.at => a = b
      BY <2>1
    <3>2. \A a \in old : a.at # m.at
      BY <2>4
    <3>3. QED
      BY <2>4, <3>1, <3>2
  <2>10. \A j \in 1..i : \E a \in u[i] : a.team = SpawnAt(Nth(homes, j)).team
    <3> SUFFICES ASSUME NEW j \in 1..i PROVE \E a \in u[i] : a.team = SpawnAt(Nth(homes, j)).team
      OBVIOUS
    <3>1. CASE j = i
      BY <2>4, <3>1 DEF h
    <3>2. CASE j # i
      <4>1. j \in 1..(i - 1)
        BY <2>1, <3>2
      <4>2. \E a \in old : a.team = SpawnAt(Nth(homes, j)).team
        BY <2>1, <4>1
      <4>3. QED
        BY <2>4, <4>2
    <3>3. QED
      BY <3>1, <3>2
  <2>11. Good(i)
    BY <2>6, <2>7, <2>8, <2>9, <2>10
  <2> HIDE DEF Good
  <2>12. QED
    BY <1>2, <2>1, <2>11
<1>12. Good(c)
  <2> HIDE DEF Good
  <2>1. \A i \in 0..c : i \in S
    <3> HIDE DEF S
    <3> QED BY <1>2, <1>10, <1>11, ReachesAll
  <2>2. QED
    BY <1>2, <2>1
<1>13. \A m \in u[c] : m.at \in empty
  BY <1>12
<1>14. \A h \in homes : \E m \in u[c] : m.team = SpawnAt(h).team
  <2> SUFFICES ASSUME NEW h \in homes PROVE \E m \in u[c] : m.team = SpawnAt(h).team
    OBVIOUS
  <2>1. PICK i \in 1..c : Nth(homes, i) = h
    BY <1>4
  <2>2. QED
    BY <1>12, <2>1
<1>15. QED
  BY <1>1, <1>12, <1>13, <1>14 DEF Fresh, empty, homes

-----------------------------------------------------------------------------
(* Units on the board *)

\* A hero moves to spaces that are free.
LEMMA ReachableIsFree ==
    ASSUME NEW blocked, NEW from \in Hexes, NEW steps \in Nat
    PROVE  Reachable(blocked, from, steps) \subseteq Hexes \ blocked
<1> DEFINE Wider(old) == old \union
                           ((Hexes \intersect UNION {Neighbors(h) : h \in old}) \ blocked)
           Up(f) == [n \in 0..steps |-> IF n = 0 THEN {from} ELSE Wider(f[n - 1])]
           ring == CHOOSE f : f = Up(f)
           T == SUBSET Hexes
           step == [x \in (1..steps) \X T |-> Wider(x[2])]
<1>1. Reachable(blocked, from, steps) = ring[steps] \ {from}
  BY DEF Reachable
<1>2. \A old : Wider(old) \subseteq old \union (Hexes \ blocked)
  <2> TAKE old
  <2> DEFINE around == UNION {Neighbors(h) : h \in old}
  <2>1. Wider(old) = old \union ((Hexes \intersect around) \ blocked)
    OBVIOUS
  <2> HIDE DEF Wider, around
  <2>2. QED
    BY <2>1
<1> HIDE DEF Wider
<1>3. PICK f : Runs(f, steps, T, {from}, step)
  <2>1. {from} \in T /\ step \in [(1..steps) \X T -> T]
    <3>1. \A old \in T : Wider(old) \in T
      BY <1>2
    <3> HIDE DEF T
    <3>2. step \in [(1..steps) \X T -> T]
      BY <3>1
    <3>3. QED
      BY <3>2 DEF T
  <2> HIDE DEF T, step
  <2>2. QED
    BY <2>1, StepsDefine
<1>4. f = Up(f)
  <2>1. f \in [0..steps -> T] /\ f[0] = {from}
    BY <1>3 DEF Runs
  <2>2. \A n \in 1..steps : f[n] = Wider(f[n - 1])
    <3> SUFFICES ASSUME NEW n \in 1..steps PROVE f[n] = Wider(f[n - 1])
      OBVIOUS
    <3>1. n - 1 \in 0..steps /\ f[n - 1] \in T
      BY <2>1
    <3>2. <<n, f[n - 1]>> \in (1..steps) \X T
      BY <3>1
    <3>3. f[n] = step[<<n, f[n - 1]>>]
      BY <1>3 DEF Runs
    <3>4. QED
      BY <3>2, <3>3
  <2>3. \A n \in 0..steps : n = 0 \/ n \in 1..steps
    OBVIOUS
  <2>4. QED
    BY <2>1, <2>2, <2>3
<1>5. ring = Up(ring)
  <2> HIDE DEF Up
  <2>1. QED
    BY <1>4
<1> HIDE DEF ring
<1> DEFINE S == {n \in 0..steps : ring[n] \subseteq {from} \union (Hexes \ blocked)}
<1>6. 0 \in S
  BY <1>5
<1>7. ASSUME NEW n \in 1..steps, n - 1 \in S PROVE n \in S
  <2>1. ring[n] = Wider(ring[n - 1])
    <3>1. n \in 0..steps /\ n # 0
      OBVIOUS
    <3>2. QED
      BY <1>5, <3>1
  <2>2. ring[n] \subseteq {from} \union (Hexes \ blocked)
    BY <1>2, <1>7, <2>1
  <2>3. QED
    BY <2>2
<1>8. steps \in S
  <2> HIDE DEF S
  <2>1. \A n \in 0..steps : n \in S
    BY <1>6, <1>7, ReachesAll
  <2>2. QED
    BY <2>1
<1>9. QED
  BY <1>1, <1>8

\* The heroes are off the board or each on a space of its own; those that cannot move
\* stand at home.
HeroesPlaced(g) ==
    /\ g.hero \in [Players -> (Hexes \ Terrain) \union {Nowhere}]
    /\ \A p, q \in Players : g.hero[p] = g.hero[q] /\ g.hero[p] # Nowhere => p = q
    /\ \A p \in Players \ Roamers : g.hero[p] # Nowhere => ZoneOf[g.hero[p]] = Throne(Team[p])

\* The minions are in the battle zone, each on a space of its own that no hero is on.
MinionsPlaced(g) ==
    /\ IsFiniteSet(g.minions) /\ g.minions \subseteq Minions
    /\ \A m, n \in g.minions : m.at = n.at => m = n
    /\ \A m \in g.minions, p \in Players : m.at # g.hero[p]
    /\ ~IsOver(g) => \A m \in g.minions : ZoneOf[m.at] = Lane[g.lane]

Placed(g) == HeroesPlaced(g) /\ MinionsPlaced(g)

\* Both sides have minions in a battle that goes on.
Manned(g) == ~IsOver(g) => \A team \in Teams : \E m \in g.minions : m.team = team

\* The zones between the thrones are not the thrones.
LEMMA BetweenThrones ==
    ASSUME NEW i \in 2..(Len(Lane) - 1), NEW team \in Teams
    PROVE  Lane[i] # Throne(team)
<1>1. /\ Len(Lane) \in Nat /\ 1 \in 1..Len(Lane) /\ Len(Lane) \in 1..Len(Lane)
      /\ i \in 1..Len(Lane) /\ i # 1 /\ i # Len(Lane)
  BY LaneLength
<1>2. Throne(team) = Lane[1] \/ Throne(team) = Lane[Len(Lane)]
  BY DEF Throne, Last
<1>3. Lane[i] # Lane[1] /\ Lane[i] # Lane[Len(Lane)]
  BY <1>1, BoardAssumption
<1>4. QED
  BY <1>2, <1>3

\* Without minions the battle zone has an empty space for each of its spawn points:
\* only the heroes that can move can stand there.
LEMMA RoomToRespawn ==
    ASSUME NEW g, g.lane \in 2..(Len(Lane) - 1), g.minions = {}, HeroesPlaced(g)
    PROVE  Cardinality(EmptySpaces(g, Lane[g.lane])) >= Cardinality(Homes(Lane[g.lane]))
<1> DEFINE zone == Lane[g.lane]
           room == SpacesIn(zone) \ Terrain
           f == [p \in Roamers |-> g.hero[p]]
           H == {g.hero[p] : p \in Roamers}
           empty == EmptySpaces(g, zone)
<1>1. Cardinality(room) >= Cardinality(Homes(zone)) + Cardinality(Roamers)
  BY RoomAssumption
<1>2. room \ H \subseteq empty
  <2> SUFFICES ASSUME NEW h \in room \ H PROVE h \in empty
    OBVIOUS
  <2>1. h \in Hexes /\ ZoneOf[h] = zone /\ h \notin Terrain /\ h # Nowhere
    BY CatalogAssumption DEF SpacesIn
  <2>2. \A p \in Players : g.hero[p] # h
    <3> SUFFICES ASSUME NEW p \in Players, g.hero[p] = h PROVE FALSE
      OBVIOUS
    <3>1. p \notin Roamers
      OBVIOUS
    <3>2. zone = Throne(Team[p])
      BY <2>1, <3>1 DEF HeroesPlaced
    <3>3. Team[p] \in Teams
      BY CatalogAssumption
    <3>4. QED
      BY <3>2, <3>3, BetweenThrones
  <2>3. QED
    BY <2>1, <2>2 DEF EmptySpaces, Obstacles, SpacesIn
<1>3. /\ IsFiniteSet(room) /\ Cardinality(room) \in Nat
      /\ IsFiniteSet(empty) /\ Cardinality(empty) \in Nat
      /\ Cardinality(Homes(zone)) \in Nat
  <2>1. room \subseteq Hexes /\ empty \subseteq Hexes /\ Homes(zone) \subseteq Hexes
    BY DEF EmptySpaces, SpacesIn, Homes
  <2> HIDE DEF room, empty, zone
  <2>2. QED
    BY <2>1, RanksAreNumbers
<1>4. IsFiniteSet(Roamers) /\ Cardinality(Roamers) \in Nat
  <2>1. IsFiniteSet(Players) /\ Roamers \in SUBSET Players
    BY CatalogAssumption, FS_Interval DEF Players, Roamers
  <2>2. QED
    BY <2>1, FS_Subset, FS_CardinalityType
<1>5. IsFiniteSet(H) /\ Cardinality(H) \in Nat /\ Cardinality(H) <= Cardinality(Roamers)
  <2>1. f \in Surjection(Roamers, H)
    BY DEF Surjection
  <2> HIDE DEF f, H
  <2>2. QED
    BY <1>4, <2>1, FS_Surjection, FS_CardinalityType
<1> HIDE DEF room, H, empty, zone
<1>6. /\ Cardinality(room \ H) = Cardinality(room) - Cardinality(room \intersect H)
      /\ Cardinality(room \intersect H) <= Cardinality(H)
      /\ Cardinality(room \intersect H) \in Nat
  BY <1>3, <1>5, FS_Difference, FS_Intersection, FS_CardinalityType
<1>7. Cardinality(room \ H) <= Cardinality(empty)
  BY <1>2, <1>3, FS_Subset
<1>8. Cardinality(empty) >= Cardinality(Homes(zone))
  BY <1>1, <1>3, <1>4, <1>5, <1>6, <1>7
<1>9. QED
  BY <1>8 DEF empty, zone

\* Respawning mans a zone with nobody in it but heroes.
LEMMA RespawnPlaces ==
    ASSUME NEW g, DOMAIN g = Fields, g.lane \in 2..(Len(Lane) - 1), g.minions = {},
           HeroesPlaced(g)
    PROVE  LET h == RespawnMinions(g) IN
           Changes(g, h, {"minions"}) /\ Placed(h) /\ Manned(h)
<1> DEFINE h == RespawnMinions(g)
           new == Respawned(g)
           zone == Lane[g.lane]
<1>1. Fresh(g, new)
  BY RoomToRespawn, RespawnFills
<1>2. h.minions = new /\ Changes(g, h, {"minions"})
  BY DEF RespawnMinions, Fields, Changes
<1> HIDE DEF h, new
<1>3. h.hero = g.hero /\ h.lane = g.lane
  BY <1>2 DEF Changes, Fields
<1>4. \A k \in EmptySpaces(g, zone) : ZoneOf[k] = zone /\ \A p \in Players : k # g.hero[p]
  BY CatalogAssumption DEF EmptySpaces, SpacesIn, Obstacles
<1>5. MinionsPlaced(h)
  BY <1>1, <1>2, <1>3, <1>4 DEF MinionsPlaced, Fresh
<1>6. HeroesPlaced(h)
  BY <1>3 DEF HeroesPlaced
<1>7. Manned(h)
  <2> SUFFICES ASSUME NEW team \in Teams PROVE \E m \in new : m.team = team
    BY <1>2 DEF Manned
  <2>1. PICK s \in Spawns : s.team = team /\ ZoneOf[s.home] = zone
    BY BoardAssumption
  <2>2. s.home \in Homes(zone)
    BY <2>1, BoardAssumption DEF Homes, SpacesIn
  <2>3. SpawnAt(s.home) = s
    BY BoardAssumption DEF SpawnAt
  <2>4. QED
    BY <1>1, <2>1, <2>2, <2>3 DEF Fresh
<1>8. QED
  BY <1>2, <1>5, <1>6, <1>7 DEF Placed, h

-----------------------------------------------------------------------------
(* Pushes and battles *)

\* Minions have only left the board, and no heavy one before a lighter one of its side.
Culled(g, h) ==
    /\ h.minions \subseteq g.minions
    /\ \A m \in g.minions \ h.minions :
         m.kind = "Heavy" => \A n \in h.minions : n.team = m.team => n.kind = "Heavy"

\* What a method leaves of the units: everyone in place, and the minions as they were,
\* but for those culled, unless the lane was pushed.
Marches(g, h) == Placed(h) /\ Manned(h) /\ (h.lane = g.lane => Culled(g, h))

\* Units that stay where they are, in a game that goes on or has ended.
LEMMA StaysPlaced ==
    ASSUME NEW g, NEW h, Placed(g), Manned(g), h.hero = g.hero, h.minions = g.minions,
           h.lane = g.lane, IsOver(g) => IsOver(h)
    PROVE  Marches(g, h)
BY DEF Marches, Placed, HeroesPlaced, MinionsPlaced, Manned, Culled

\* What follows on units that stayed follows from where they were.
LEMMA MarchesOn ==
    ASSUME NEW g, NEW k, NEW h, k.minions = g.minions, k.lane = g.lane, Marches(k, h)
    PROVE  Marches(g, h)
BY DEF Marches, Culled

\* Fewer minions are in place as well.
LEMMA CulledPlaced ==
    ASSUME NEW g, NEW k, Placed(g), ~IsOver(g), k.hero = g.hero, k.lane = g.lane,
           k.minions \subseteq g.minions
    PROVE  Placed(k)
<1>1. IsFiniteSet(g.minions) /\ k.minions \in SUBSET g.minions
  BY DEF Placed, MinionsPlaced
<1>2. IsFiniteSet(k.minions)
  BY <1>1, FS_Subset
<1>3. QED
  BY <1>2 DEF Placed, HeroesPlaced, MinionsPlaced

\* A push that does not end the match leaves only the minions of the new zone.
LEMMA PushMarches ==
    ASSUME NEW g, NEW k, WellMade(k), Alive(k), ~IsOver(k), ~IsOver(g), Placed(g),
           k.hero = g.hero, k.lane = g.lane, Culled(g, k), NEW team \in Teams
    PROVE  Marches(g, PushLane(k, team))
<1> DEFINE next == Onward(k.lane, team)
           left == [k EXCEPT !.waves = @ - 1]
           stay == {m \in k.minions : ZoneOf[m.at] # Lane[k.lane]}
           moved == [left EXCEPT !.minions = stay, !.lane = next]
           on == RespawnMinions(moved)
           bad == [k EXCEPT !.phase = [type |-> "Panic"]]
           lost == Over(left, team, "won the last push")
           taken == Over(left, team, "captured the throne")
           h == PushLane(k, team)
<1>1. Placed(k)
  BY CulledPlaced DEF Culled
<1>2. DOMAIN k = Fields /\ k.waves \in Nat
  BY DEF WellMade
<1>3. h \in {bad, lost, taken, on}
  <2> HIDE DEF on, bad, lost, taken
  <2>1. QED
    BY DEF PushLane, Expect, Onward, on, bad, lost, taken
<1>4. /\ Changes(k, h, {"minions", "lane", "waves", "phase"}) /\ Pushes(k, h, team) /\ Alive(h)
      /\ IsOver(h) \/ h.phase = k.phase
  BY PushLanePushes
<1> HIDE DEF h
<1>5. h.hero = k.hero /\ h.waves = k.waves - 1
  BY <1>4 DEF Changes, Fields, Pushes
<1>6. bad.waves = k.waves
  BY <1>2 DEF Fields
<1>7. h # bad
  <2> HIDE DEF bad
  <2>1. QED
    BY <1>2, <1>5, <1>6
<1>8. CASE h \in {lost, taken}
  <2>1. /\ lost.minions = k.minions /\ lost.lane = k.lane /\ IsOver(lost)
        /\ taken.minions = k.minions /\ taken.lane = k.lane /\ IsOver(taken)
    BY <1>2 DEF Over, IsOver, Fields
  <2>2. h.minions = k.minions /\ h.lane = k.lane /\ IsOver(h)
    BY <1>8, <2>1
  <2>3. Placed(h) /\ Manned(h)
    BY <1>1, <1>5, <2>2 DEF Placed, HeroesPlaced, MinionsPlaced, Manned
  <2>4. QED
    BY <2>2, <2>3 DEF Marches, Culled, h
<1>9. CASE h = on
  <2>1. /\ DOMAIN moved = Fields /\ moved.minions = stay /\ moved.lane = next
        /\ moved.hero = k.hero /\ moved.phase = k.phase
    BY <1>2 DEF Fields
  <2>2. stay = {}
    BY <1>1 DEF Placed, MinionsPlaced
  <2>3. HeroesPlaced(moved)
    BY <1>1, <2>1 DEF Placed, HeroesPlaced
  <2> HIDE DEF moved, stay, next
  <2>4. on.lane = next /\ on.phase = k.phase
    BY <2>1 DEF RespawnMinions, Fields
  <2>5. next \in 2..(Len(Lane) - 1)
    BY <1>4, <1>9, <2>4 DEF Alive, IsOver
  <2>6. Placed(on) /\ Manned(on)
    BY <2>1, <2>2, <2>3, <2>5, RespawnPlaces
  <2>7. next # k.lane
    <3>1. k.lane \in Int
      BY LaneLength DEF WellMade
    <3>2. QED
      BY <3>1 DEF next, Onward
  <2> HIDE DEF on
  <2>8. QED
    BY <1>9, <2>4, <2>6, <2>7 DEF Marches, h
<1>10. QED
  BY <1>3, <1>7, <1>8, <1>9

\* The outnumbered side of a battle loses its heavy minions last.
LEMMA BattleMarches ==
    ASSUME NEW g, WellMade(g), Alive(g), ~IsOver(g), Placed(g), Manned(g)
    PROVE  Marches(g, MinionBattle(g))
<1> DEFINE count == [team \in Teams |-> Cardinality(MinionsOf(g, team))]
           loser == IF count["Red"] < count["Blue"] THEN "Red" ELSE "Blue"
           diff == count[Opponent(loser)] - count[loser]
           losers == MinionsOf(g, loser)
           Before(m) == {n \in losers : FallsBefore(n, m)}
           fallen == {m \in losers : Cardinality(Before(m)) < diff}
           gone == [g EXCEPT !.minions = @ \ fallen]
           h == MinionBattle(g)
<1>1. /\ loser \in Teams /\ Opponent(loser) \in Teams
      /\ losers = {m \in g.minions : m.team = loser}
      /\ IsFiniteSet(g.minions) /\ g.minions \subseteq Minions
  <2>1. losers = {m \in g.minions : m.team = loser}
    BY DEF MinionsOf, Placed, MinionsPlaced
  <2>2. QED
    BY <2>1 DEF Teams, Opponent, Placed, MinionsPlaced
<1>2. h = IF fallen # {} /\ MinionsOf(gone, loser) = {} THEN PushLane(gone, Opponent(loser))
          ELSE gone
  BY DEF MinionBattle
<1>3. diff \in Int
  <2>1. \A team \in Teams : count[team] \in Nat
    <3> SUFFICES ASSUME NEW team \in Teams PROVE Cardinality(MinionsOf(g, team)) \in Nat
      OBVIOUS
    <3>1. MinionsOf(g, team) \in SUBSET g.minions
      BY DEF MinionsOf
    <3>2. QED
      BY <1>1, <3>1, FS_Subset, FS_CardinalityType
  <2> HIDE DEF count, loser
  <2>2. QED
    BY <1>1, <2>1
<1> HIDE DEF h, loser, diff, losers
<1>4. \A m \in losers : IsFiniteSet(Before(m)) /\ Cardinality(Before(m)) \in Nat
  <2>1. IsFiniteSet(losers)
    <3>1. losers \in SUBSET g.minions
      BY <1>1
    <3>2. QED
      BY <1>1, <3>1, FS_Subset
  <2>2. \A m \in losers : Before(m) \in SUBSET losers
    OBVIOUS
  <2> HIDE DEF Before
  <2>3. QED
    BY <2>1, <2>2, FS_Subset, FS_CardinalityType
<1>5. ASSUME NEW m \in losers, NEW n \in losers, m.kind = "Heavy", n.kind # "Heavy"
      PROVE  Before(n) \subseteq Before(m)
  <2>1. m.kind \in {"Melee", "Ranged", "Heavy"} /\ n.kind \in {"Melee", "Ranged"}
    BY <1>1, <1>5 DEF Minions
  <2> SUFFICES ASSUME NEW x \in losers, FallsBefore(x, n) PROVE FallsBefore(x, m)
    OBVIOUS
  <2>2. x.kind \in {"Melee", "Ranged", "Heavy"}
    BY <1>1 DEF Minions
  <2>3. x.kind # "Heavy"
    BY <2>1, <2>2 DEF FallsBefore
  <2>4. QED
    BY <1>5, <2>2, <2>3 DEF FallsBefore
<1>6. Culled(g, gone)
  <2>1. gone.minions = g.minions \ fallen
    BY DEF WellMade, Fields
  <2> HIDE DEF gone
  <2> SUFFICES ASSUME NEW m \in fallen, m.kind = "Heavy", NEW n \in g.minions \ fallen,
                      n.team = m.team, n.kind # "Heavy"
               PROVE  FALSE
    BY <2>1 DEF Culled
  <2>2. m \in losers /\ n \in losers /\ Cardinality(Before(m)) < diff
    BY <1>1
  <2>3. Before(n) \in SUBSET Before(m)
    BY <1>5, <2>2
  <2> HIDE DEF Before
  <2>4. Cardinality(Before(n)) <= Cardinality(Before(m))
    BY <1>4, <2>2, <2>3, FS_Subset
  <2>5. Cardinality(Before(n)) < diff
    BY <1>3, <1>4, <2>2, <2>4
  <2>6. QED
    BY <2>2, <2>5
<1>7. /\ Changes(g, gone, {"minions"}) /\ gone.minions = g.minions \ fallen
      /\ gone.hero = g.hero /\ gone.lane = g.lane /\ gone.phase = g.phase
      /\ gone.waves = g.waves /\ gone.lives = g.lives
  BY DEF WellMade, Fields, Changes
<1> HIDE DEF gone, fallen
<1>8. WellMade(gone) /\ Alive(gone) /\ ~IsOver(gone) /\ Placed(gone)
  <2>1. WellMade(gone)
    BY <1>7, StaysWellMade DEF Changes, Fields, Made
  <2>2. Alive(gone) /\ ~IsOver(gone)
    BY <1>7 DEF Alive, IsOver
  <2>3. QED
    BY <1>7, <2>1, <2>2, CulledPlaced
<1>9. CASE fallen # {} /\ MinionsOf(gone, loser) = {}
  BY <1>1, <1>2, <1>6, <1>7, <1>8, <1>9, PushMarches DEF h
<1>10. CASE fallen = {} \/ MinionsOf(gone, loser) # {}
  <2>1. h = gone
    BY <1>2, <1>10
  <2>2. \A team \in Teams : \E m \in gone.minions : m.team = team
    <3> SUFFICES ASSUME NEW team \in Teams PROVE \E m \in gone.minions : m.team = team
      OBVIOUS
    <3>1. PICK m \in g.minions : m.team = team
      BY DEF Manned
    <3>2. CASE m \notin fallen
      BY <1>7, <3>1, <3>2
    <3>3. CASE m \in fallen
      <4>1. team = loser /\ MinionsOf(gone, loser) # {}
        BY <1>1, <1>10, <3>1, <3>3 DEF fallen
      <4>2. QED
        BY <4>1 DEF MinionsOf
    <3>4. QED
      BY <3>2, <3>3
  <2>3. Manned(gone)
    BY <2>2 DEF Manned
  <2>4. QED
    BY <1>6, <1>8, <2>1, <2>3 DEF Marches, h
<1>11. QED
  BY <1>9, <1>10

\* An attack takes a heavy minion only when no lighter one of its side stands.
LEMMA DefeatMarches ==
    ASSUME NEW g, WellMade(g), Alive(g), ~IsOver(g), Placed(g), Manned(g),
           NEW m \in g.minions, ~Immune(g, m), NEW attacker
    PROVE  Marches(g, DefeatMinion(g, m, attacker))
<1> DEFINE paid == IF attacker = None THEN g
                   ELSE [g EXCEPT !.coins[attacker] = U8(@ + Bounty(m.kind))]
           gone == [paid EXCEPT !.minions = @ \ {m}]
           h == DefeatMinion(g, m, attacker)
<1>1. Changes(g, paid, {"coins"})
  BY DEF WellMade, Fields, Changes
<1>2. h = IF MinionsOf(gone, m.team) = {} THEN PushLane(gone, Opponent(m.team)) ELSE gone
  BY DEF DefeatMinion, Expect
<1> HIDE DEF h, paid
<1>3. Changes(g, gone, {"coins", "minions"}) /\ gone.minions = g.minions \ {m}
  BY <1>1 DEF Fields, Changes
<1> HIDE DEF gone
<1>4. /\ gone.phase = g.phase /\ gone.lane = g.lane /\ gone.waves = g.waves
      /\ gone.lives = g.lives /\ gone.hero = g.hero
  BY <1>3 DEF Fields, Changes
<1>5. WellMade(gone) /\ Alive(gone) /\ ~IsOver(gone) /\ Placed(gone)
  <2>1. WellMade(gone)
    BY <1>3, StaysWellMade DEF Changes, Fields, Made
  <2>2. Alive(gone) /\ ~IsOver(gone)
    BY <1>4 DEF Alive, IsOver
  <2>3. QED
    BY <1>3, <1>4, <2>1, <2>2, CulledPlaced
<1>6. \A n \in g.minions : ZoneOf[n.at] = Lane[g.lane]
  BY DEF Placed, MinionsPlaced
<1>7. Culled(g, gone)
  BY <1>3, <1>6 DEF Culled, Immune, MinionsOf
<1>8. CASE MinionsOf(gone, m.team) = {}
  <2>1. Opponent(m.team) \in Teams
    BY DEF Opponent, Teams
  <2>2. QED
    BY <1>2, <1>4, <1>5, <1>7, <1>8, <2>1, PushMarches DEF h
<1>9. CASE MinionsOf(gone, m.team) # {}
  <2>1. Manned(gone)
    <3> SUFFICES ASSUME NEW team \in Teams PROVE \E n \in gone.minions : n.team = team
      BY DEF Manned
    <3>1. PICK n \in g.minions : n.team = team
      BY DEF Manned
    <3>2. CASE n # m
      BY <1>3, <3>1, <3>2
    <3>3. CASE n = m
      BY <1>9, <3>1, <3>3 DEF MinionsOf
    <3>4. QED
      BY <3>2, <3>3
  <2>2. QED
    BY <1>2, <1>5, <1>7, <1>9, <2>1 DEF Marches, h
<1>10. QED
  BY <1>8, <1>9

-----------------------------------------------------------------------------
(* The units through the turn machine *)

\* Levelling up and the end of a round leave the units alone.
LEMMA LevelUpsMarch ==
    ASSUME NEW g, DOMAIN g = Fields, ~IsOver(g)
    PROVE  LET h == ContinueLevelUps(g) IN
           h.hero = g.hero /\ h.minions = g.minions /\ h.lane = g.lane
<1> DEFINE owing == {p \in Players : g.owed[p] > 0}
           asked == [g EXCEPT !.phase = [type |-> "LevelUp", player |-> Min(owing)]]
           h == ContinueLevelUps(g)
<1>1. h = g \/ h = FinishRound(g) \/ h = asked
  BY DEF ContinueLevelUps
<1>2. Changes(g, FinishRound(g), {"coins", "leveled", "round", "turn", "phase"})
  BY DEF Fields, Changes, FinishRound
<1>3. Changes(g, asked, {"phase"})
  <2> HIDE DEF owing
  <2>1. QED
    BY DEF Fields, Changes
<1> HIDE DEF asked, h
<1>4. h.hero = g.hero /\ h.minions = g.minions /\ h.lane = g.lane
  BY <1>1, <1>2, <1>3 DEF Changes, Fields
<1>5. QED
  BY <1>4 DEF h

\* A round ends with a battle.
LEMMA RoundMarches ==
    ASSUME NEW g, WellMade(g), Alive(g), ~IsOver(g), ~Panicked(g), Placed(g), Manned(g)
    PROVE  Marches(g, EndRound(g))
<1> DEFINE battle == MinionBattle(g)
           back == Retrieve(battle)
           bought == BuyLevelUps(back)
           h == EndRound(g)
<1>1. WellMade(battle) /\ Alive(battle) /\ (IsOver(battle) \/ battle.phase = g.phase)
  BY BattlePushes
<1>2. Marches(g, battle)
  BY BattleMarches
<1>3. h = IF IsOver(battle) \/ Panicked(battle) THEN battle ELSE ContinueLevelUps(bought)
  BY DEF EndRound
<1> HIDE DEF battle, h
<1>4. CASE IsOver(battle)
  BY <1>2, <1>3, <1>4 DEF h
<1>5. CASE ~IsOver(battle)
  <2>1. ~Panicked(battle)
    BY <1>1, <1>5 DEF Panicked
  <2>2. WellMade(back) /\ Changes(battle, back, {"hand", "resolved", "discard"})
    BY <1>1, RetrieveKeeps
  <2> HIDE DEF back
  <2>3. WellMade(bought)
        /\ Changes(back, bought, {"coins", "level", "leveled", "owed", "deck", "ultimate"})
    BY <2>2, LevelUpsKeep
  <2> HIDE DEF bought
  <2>4. /\ bought.hero = battle.hero /\ bought.minions = battle.minions
        /\ bought.lane = battle.lane /\ bought.phase = battle.phase /\ DOMAIN bought = Fields
    BY <2>2, <2>3 DEF Changes, Fields
  <2>5. h = ContinueLevelUps(bought)
    BY <1>3, <1>5, <2>1
  <2>6. h.hero = battle.hero /\ h.minions = battle.minions /\ h.lane = battle.lane
    BY <1>5, <2>4, <2>5, LevelUpsMarch DEF IsOver
  <2>7. Placed(h) /\ Manned(h)
    BY <1>2, <1>5, <2>6 DEF Marches, Placed, HeroesPlaced, MinionsPlaced, Manned
  <2>8. QED
    BY <1>2, <2>6, <2>7 DEF Marches, Culled, h
<1>6. QED
  BY <1>4, <1>5

\* Only the end of a round moves minions.
LEMMA NextActorMarches ==
    ASSUME NEW g, WellMade(g), Alive(g), Placed(g), Manned(g)
    PROVE  Marches(g, NextActor(g))
<1> DEFINE unresolved == {p \in Players : g.played[p] # None}
           h == NextActor(g)
<1>1. CASE IsOver(g) \/ Panicked(g)
  <2>1. h = g
    BY <1>1 DEF NextActor
  <2>2. QED
    BY <2>1, StaysPlaced
<1>2. CASE ~IsOver(g) /\ ~Panicked(g) /\ unresolved # {}
  <2>1. PICK flip, phase : h = [[g EXCEPT !.flip = flip] EXCEPT !.phase = phase]
                           /\ phase.type \in {"Act", "ChooseActor"}
    <3> DEFINE tied == {p \in unresolved : \A q \in unresolved : Initiative(g, p) >= Initiative(g, q)}
               oneTeam == \A p, q \in tied : Team[p] = Team[q]
               candidates == IF oneTeam THEN tied ELSE {p \in tied : Team[p] = g.coin}
               flip == g.flip \/ ~oneTeam
               act == [type |-> "Act", player |-> CHOOSE p \in candidates : TRUE]
               choice == [type |-> "ChooseActor", candidates |-> candidates]
               phase == IF Cardinality(candidates) = 1 THEN act ELSE choice
    <3>1. h = [[g EXCEPT !.flip = flip] EXCEPT !.phase = phase]
      BY <1>2 DEF NextActor
    <3>2. phase.type \in {"Act", "ChooseActor"}
      OBVIOUS
    <3> HIDE DEF phase, flip, h
    <3>3. QED
      BY <3>1, <3>2
  <2>2. h.hero = g.hero /\ h.minions = g.minions /\ h.lane = g.lane
    BY <2>1 DEF WellMade, Fields
  <2> HIDE DEF h
  <2>3. QED
    BY <1>2, <2>2, StaysPlaced DEF h
<1>3. CASE ~IsOver(g) /\ ~Panicked(g) /\ unresolved = {}
  <2> DEFINE cleared == [g EXCEPT !.passed = [p \in Players |-> FALSE]]
             next == [cleared EXCEPT !.turn = @ + 1, !.phase = [type |-> "Play"]]
  <2>1. h = EndRound(cleared) \/ h = next
    BY <1>3 DEF NextActor, EndTurn
  <2>2. Changes(g, cleared, {"passed"}) /\ Changes(g, next, {"passed", "turn", "phase"})
    BY DEF WellMade, Fields, Changes
  <2> HIDE DEF h, cleared, next
  <2>3. CASE h = next
    <3>1. h.hero = g.hero /\ h.minions = g.minions /\ h.lane = g.lane
      BY <2>2, <2>3 DEF Changes, Fields
    <3>2. QED
      BY <1>3, <3>1, StaysPlaced DEF h
  <2>4. CASE h = EndRound(cleared)
    <3>1. /\ cleared.hero = g.hero /\ cleared.minions = g.minions /\ cleared.lane = g.lane
          /\ cleared.phase = g.phase /\ cleared.waves = g.waves /\ cleared.lives = g.lives
      BY <2>2 DEF Changes, Fields
    <3>2. WellMade(cleared)
      BY <2>2, StaysWellMade DEF Changes, Fields, Made
    <3>3. Alive(cleared) /\ ~IsOver(cleared) /\ ~Panicked(cleared)
      BY <1>3, <3>1 DEF Alive, IsOver, Panicked
    <3>4. Placed(cleared) /\ Manned(cleared)
      BY <1>3, <3>1, StaysPlaced DEF Marches
    <3>5. QED
      BY <2>4, <3>1, <3>2, <3>3, <3>4, RoundMarches, MarchesOn DEF h
  <2>5. QED
    BY <2>1, <2>3, <2>4
<1>4. QED
  BY <1>1, <1>2, <1>3

\* An action that ends leaves the units to the next player.
LEMMA FinishMarches ==
    ASSUME NEW g, WellMade(g), Alive(g), Placed(g), Manned(g), NEW p \in Players
    PROVE  Marches(g, FinishAction(g, p))
<1> DEFINE resolved == Resolve(g, p)
           flipped == [resolved EXCEPT !.flip = FALSE, !.coin = Opponent(@)]
           settled == IF g.flip THEN flipped ELSE resolved
           h == FinishAction(g, p)
<1>1. WellMade(resolved) /\ Changes(g, resolved, {"resolved", "played"})
  BY ResolveKeeps
<1>2. h = NextActor(settled)
  BY DEF FinishAction
<1> HIDE DEF resolved, h
<1>3. Changes(resolved, flipped, {"flip", "coin"}) /\ flipped.flip = FALSE /\ flipped.coin \in Teams
  BY <1>1 DEF WellMade, Fields, Changes, Opponent, Teams
<1> HIDE DEF flipped
<1>4. Changes(g, settled, {"resolved", "played", "flip", "coin"}) /\ WellMade(settled)
  <2>1. WellMade(flipped)
    BY <1>1, <1>3, CoinStaysWellMade
  <2>2. QED
    BY <1>1, <1>3, <2>1 DEF Changes
<1> HIDE DEF settled
<1>5. /\ settled.lane = g.lane /\ settled.waves = g.waves /\ settled.lives = g.lives
      /\ settled.phase = g.phase /\ settled.hero = g.hero /\ settled.minions = g.minions
  BY <1>4 DEF Changes, Fields
<1>6. Alive(settled) /\ Placed(settled) /\ Manned(settled)
  BY <1>5, StaysPlaced DEF Alive, IsOver, Marches
<1>7. QED
  BY <1>2, <1>4, <1>5, <1>6, NextActorMarches, MarchesOn DEF h

\* A play leaves the units alone, unless it ends a round nobody could play in.
LEMMA AfterPlayMarches ==
    ASSUME NEW g, WellMade(g), Alive(g), Placed(g), Manned(g)
    PROVE  Marches(g, AfterPlay(g))
<1>1. CASE \A p \in Players : g.played[p] # None \/ g.passed[p]
  BY <1>1, NextActorMarches DEF AfterPlay
<1>2. CASE ~ \A p \in Players : g.played[p] # None \/ g.passed[p]
  <2>1. AfterPlay(g) = g
    BY <1>2 DEF AfterPlay
  <2>2. QED
    BY <2>1, StaysPlaced
<1>3. QED
  BY <1>1, <1>2

\* A hero that falls leaves the board, and the minions where they are.
LEMMA DefeatHeroMarches ==
    ASSUME NEW g, WellMade(g), Alive(g), ~IsOver(g), Placed(g), Manned(g),
           NEW defender \in Players, NEW attacker \in Players, Team[defender] # Team[attacker]
    PROVE  LET h == DefeatHero(g, defender, attacker) IN
           Placed(h) /\ Manned(h) /\ h.minions = g.minions /\ h.lane = g.lane
<1> DEFINE team == Team[defender]
           away == [g EXCEPT !.hero[defender] = Nowhere]
           hero == [g.hero EXCEPT ![defender] = Nowhere]
           fallen == Resolve(away, defender)
           level == g.level[defender]
           Pay(p) == IF p = attacker THEN level
                     ELSE IF Team[p] = Team[attacker] THEN AssistCoins(level) ELSE 0
           left == Max({0, g.lives[team] - LowestTier(fallen, defender)})
           paid == [fallen EXCEPT !.coins = [p \in Players |-> U8(@[p] + Pay(p))],
                                  !.lives[team] = left]
           over == Over(paid, Team[attacker], "no lives left")
           h == DefeatHero(g, defender, attacker)
<1>1. WellMade(away) /\ away.hero = hero /\ Changes(g, away, {"hero"})
  <2>1. away.hero = hero /\ Changes(g, away, {"hero"})
    BY DEF WellMade, Fields, Changes
  <2> HIDE DEF away
  <2>2. QED
    BY <2>1, StaysWellMade DEF Changes, Fields, Made
<1> HIDE DEF away
<1>2. Changes(away, fallen, {"resolved", "played"})
  BY <1>1, ResolveKeeps
<1>3. h = IF left = 0 THEN over ELSE paid
  BY <1>1 DEF DefeatHero, away
<1> HIDE DEF fallen, h, left, team
<1>4. Changes(fallen, paid, {"coins", "lives"})
  BY <1>2 DEF Fields, Changes
<1> HIDE DEF paid
<1>5. Changes(paid, over, {"phase"})
  BY <1>4 DEF Over, Fields, Changes
<1> HIDE DEF over
<1>6. h.hero = hero /\ h.minions = g.minions /\ h.lane = g.lane
  BY <1>1, <1>2, <1>3, <1>4, <1>5 DEF Changes, Fields
<1>7. HeroesPlaced(h)
  BY <1>6, CatalogAssumption DEF Placed, HeroesPlaced
<1>8. MinionsPlaced(h)
  <2>1. \A m \in g.minions : m.at # Nowhere
    BY CatalogAssumption DEF Placed, MinionsPlaced, Minions
  <2>2. \A m \in g.minions, p \in Players : m.at # hero[p]
    BY <2>1 DEF Placed, HeroesPlaced, MinionsPlaced
  <2>3. QED
    BY <1>6, <2>2 DEF Placed, MinionsPlaced
<1>9. Manned(h)
  BY <1>6 DEF Manned
<1>10. QED
  BY <1>6, <1>7, <1>8, <1>9 DEF Placed, h

\* A defense leaves the minions to the end of the attack.
LEMMA DefenseMarches ==
    ASSUME NEW g, WellMade(g), Alive(g), Asked(g), Placed(g), Manned(g),
           NEW defender \in Players, g.phase.type = "Defend", g.phase.defender = defender,
           NEW card \in g.hand[defender] \union {None}
    PROVE  Marches(g, ResolveDefense(g, defender, card))
<1> DEFINE attacker == g.phase.attacker
           spending == [g EXCEPT !.hand[defender] = @ \ {card},
                                 !.discard[defender] = @ \union {card}]
           spent == IF card = None THEN g ELSE spending
           total == Max({0, Catalog[card].defense + ItemBonus(g, defender, "Defense")
                              + DefenseModifiers(g, defender)})
           holds == card # None /\ total >= g.phase.total
           fallen == DefeatHero(spent, defender, attacker)
           after == IF holds THEN spent ELSE fallen
           next == [after EXCEPT !.phase = [type |-> "Act", player |-> attacker]]
           h == ResolveDefense(g, defender, card)
<1>1. /\ attacker \in Players /\ Team[defender] # Team[attacker] /\ g.hero[defender] # Nowhere
      /\ ~IsOver(g)
  BY DEF Asked, ActorsOf, Left, IsOver
<1>2. h = IF IsOver(after) THEN after ELSE FinishAction(next, attacker)
  BY <1>1 DEF ResolveDefense, Expect
<1>3. WellMade(spent) /\ Changes(g, spent, {"hand", "discard"})
  <2>1. CASE card = None
    BY <2>1 DEF Changes, WellMade
  <2>2. CASE card # None
    BY <2>2, SpendKeeps
  <2>3. QED
    BY <2>1, <2>2
<1> HIDE DEF spent, h, holds, attacker
<1>4. /\ spent.lane = g.lane /\ spent.waves = g.waves /\ spent.lives = g.lives
      /\ spent.phase = g.phase /\ spent.hero = g.hero /\ spent.minions = g.minions
  BY <1>3 DEF Changes, Fields
<1>5. Alive(spent) /\ ~IsOver(spent) /\ Placed(spent) /\ Manned(spent)
  BY <1>1, <1>4, StaysPlaced DEF Alive, IsOver, Marches
<1>6. /\ WellMade(after) /\ Alive(after) /\ Placed(after) /\ Manned(after)
      /\ after.minions = g.minions /\ after.lane = g.lane
  <2>1. CASE holds
    BY <1>3, <1>4, <1>5, <2>1
  <2>2. CASE ~holds
    <3>1. after = fallen
      BY <2>2
    <3>2. WellMade(fallen) /\ Alive(fallen)
      BY <1>1, <1>3, <1>5, DefeatHeroCosts
    <3>3. /\ Placed(fallen) /\ Manned(fallen)
          /\ fallen.minions = spent.minions /\ fallen.lane = spent.lane
      BY <1>1, <1>3, <1>5, DefeatHeroMarches
    <3> HIDE DEF after, fallen
    <3>4. QED
      BY <1>4, <3>1, <3>2, <3>3
  <2>3. QED
    BY <2>1, <2>2
<1> HIDE DEF after
<1>7. CASE IsOver(after)
  <2>1. h = after
    BY <1>2, <1>7
  <2>2. QED
    BY <1>6, <2>1 DEF Marches, Culled, h
<1>8. CASE ~IsOver(after)
  <2>1. /\ Changes(after, next, {"phase"}) /\ next.phase.type = "Act"
    BY <1>6 DEF WellMade, Fields, Changes
  <2> HIDE DEF next
  <2>2. /\ next.lane = after.lane /\ next.waves = after.waves /\ next.lives = after.lives
        /\ next.hero = after.hero /\ next.minions = after.minions
    BY <2>1 DEF Changes, Fields
  <2>3. WellMade(next)
    BY <1>6, <2>1, StaysWellMade DEF Changes, Fields, Made
  <2>4. Alive(next)
    BY <1>6, <1>8, <2>1, <2>2 DEF Alive, IsOver
  <2>5. Placed(next) /\ Manned(next)
    BY <1>6, <1>8, <2>2, StaysPlaced DEF Marches
  <2>6. QED
    BY <1>1, <1>2, <1>6, <1>8, <2>2, <2>3, <2>4, <2>5, FinishMarches, MarchesOn DEF h
<1>9. QED
  BY <1>7, <1>8

-----------------------------------------------------------------------------
(* The units through the actions *)

\* A hero that comes to a free space, at home or because it can move.
LEMMA PlaceKeeps ==
    ASSUME NEW g, WellMade(g), Placed(g), NEW p \in Players, NEW at \in Hexes \ Obstacles(g),
           p \in Roamers \/ ZoneOf[at] = Throne(Team[p])
    PROVE  LET h == [g EXCEPT !.hero[p] = at] IN
           WellMade(h) /\ Changes(g, h, {"hero"}) /\ Placed(h)
<1> DEFINE hero == [g.hero EXCEPT ![p] = at]
           h == [g EXCEPT !.hero[p] = at]
<1>1. h.hero = hero /\ Changes(g, h, {"hero"})
  BY DEF WellMade, Fields, Changes
<1>2. /\ at \in Hexes \ Terrain /\ \A m \in g.minions : m.at # at
      /\ \A q \in Players : g.hero[q] # at
  BY CatalogAssumption DEF Obstacles
<1> HIDE DEF h
<1>3. WellMade(h)
  BY <1>1, StaysWellMade DEF Changes, Fields, Made
<1>4. h.minions = g.minions /\ h.lane = g.lane /\ h.phase = g.phase
  BY <1>1 DEF Changes, Fields
<1>5. HeroesPlaced(h)
  <2>1. hero \in [Players -> (Hexes \ Terrain) \union {Nowhere}]
    BY <1>2 DEF Placed, HeroesPlaced
  <2>2. \A q \in Players : hero[q] = IF q = p THEN at ELSE g.hero[q]
    BY DEF Placed, HeroesPlaced
  <2> HIDE DEF hero
  <2>3. QED
    BY <1>1, <1>2, <2>1, <2>2 DEF Placed, HeroesPlaced
<1>6. MinionsPlaced(h)
  <2>1. \A m \in g.minions, q \in Players : m.at # hero[q]
    BY <1>2 DEF Placed, HeroesPlaced, MinionsPlaced
  <2>2. QED
    BY <1>1, <1>4, <2>1 DEF Placed, MinionsPlaced, IsOver
<1>7. QED
  BY <1>1, <1>3, <1>5, <1>6 DEF Placed, h

\* A game whose units are in place between two actions.
UnitsInv == GameInv /\ Placed(game) /\ Manned(game)

\* Cards are played without moving a unit.
LEMMA PlaysMarch ==
    ASSUME UnitsInv, NEW p \in Players, PlayCard(p) \/ Pass(p)
    PROVE  Marches(game, game')
<1>1. /\ WellMade(game) /\ Alive(game) /\ Placed(game) /\ Manned(game) /\ ~IsOver(game)
  BY DEF UnitsInv, GameInv, PlayCard, Pass, Playing, IsOver
<1>2. PICK k : /\ WellMade(k) /\ Changes(game, k, {"hand", "played", "passed"})
               /\ game' = AfterPlay(k)
  <2>1. CASE Pass(p)
    <3> DEFINE k == [game EXCEPT !.passed[p] = TRUE]
    <3>1. Changes(game, k, {"passed"}) /\ game' = AfterPlay(k)
      BY <1>1, <2>1 DEF Pass, WellMade, Fields, Changes
    <3> HIDE DEF k
    <3>2. WellMade(k)
      BY <1>1, <3>1, StaysWellMade DEF Changes, Fields, Made
    <3>3. QED
      BY <3>1, <3>2 DEF Changes
  <2>2. CASE PlayCard(p)
    <3>1. PICK c \in game.hand[p] :
            game' = AfterPlay([game EXCEPT !.hand[p] = @ \ {c}, !.played[p] = c])
      BY <2>2 DEF PlayCard
    <3> DEFINE k == [game EXCEPT !.hand[p] = @ \ {c}, !.played[p] = c]
    <3>2. WellMade(k) /\ Changes(game, k, {"hand", "played"})
      BY <1>1, PlayKeeps
    <3>3. game' = AfterPlay(k)
      BY <3>1
    <3> HIDE DEF k
    <3>4. QED
      BY <3>2, <3>3 DEF Changes
  <2>3. QED
    BY <2>1, <2>2
<1>3. /\ k.lane = game.lane /\ k.waves = game.waves /\ k.lives = game.lives
      /\ k.phase = game.phase /\ k.hero = game.hero /\ k.minions = game.minions
  BY <1>2 DEF Changes, Fields
<1>4. Alive(k) /\ ~IsOver(k)
  BY <1>1, <1>3 DEF Alive, IsOver
<1>5. Placed(k) /\ Manned(k)
  BY <1>1, <1>3, StaysPlaced DEF Marches
<1>6. QED
  BY <1>2, <1>3, <1>4, <1>5, AfterPlayMarches, MarchesOn

\* A hero respawns on a free space of its throne.
LEMMA AskedMarch ==
    ASSUME UnitsInv, NEW p \in Players, ChooseActor(p) \/ Respawn(p) \/ AttackHero(p)
    PROVE  Marches(game, game')
<1>1. /\ WellMade(game) /\ Placed(game) /\ Manned(game) /\ ~IsOver(game) /\ Team[p] \in Teams
  BY CatalogAssumption
     DEF UnitsInv, GameInv, ChooseActor, Respawn, AttackHero, OnBoard, Acting, IsOver
<1>2. CASE ChooseActor(p) \/ AttackHero(p)
  <2>1. PICK phase : game' = [game EXCEPT !.phase = phase]
    BY <1>2 DEF ChooseActor, AttackHero
  <2>2. game'.hero = game.hero /\ game'.minions = game.minions /\ game'.lane = game.lane
    BY <1>1, <2>1 DEF WellMade, Fields
  <2>3. QED
    BY <1>1, <2>2, StaysPlaced
<1>3. CASE Respawn(p)
  <2>1. PICK h \in RespawnSpaces(game, Team[p]) : game' = [game EXCEPT !.hero[p] = h]
    BY <1>3 DEF Respawn, Place
  <2>2. h \in Hexes \ Obstacles(game) /\ ZoneOf[h] = Throne(Team[p])
    <3> DEFINE free == HeroSpawns[Team[p]] \ Obstacles(game)
    <3>1. CASE free # {}
      <4>1. h \in free
        BY <3>1 DEF RespawnSpaces
      <4>2. QED
        BY <1>1, <4>1, BoardAssumption DEF SpacesIn
    <3>2. CASE free = {}
      <4>1. h \in EmptySpaces(game, Throne(Team[p]))
        BY <3>2 DEF RespawnSpaces
      <4>2. QED
        BY <4>1 DEF EmptySpaces, SpacesIn
    <3>3. QED
      BY <3>1, <3>2
  <2>3. Changes(game, game', {"hero"}) /\ Placed(game')
    BY <1>1, <2>1, <2>2, PlaceKeeps
  <2>4. game'.minions = game.minions /\ game'.lane = game.lane /\ game'.phase = game.phase
    BY <2>3 DEF Changes, Fields
  <2>5. QED
    BY <1>1, <2>3, <2>4 DEF Marches, Manned, Culled
<1>4. QED
  BY <1>2, <1>3

\* A hero moves to a free space before its action ends.
LEMMA MovesMarch ==
    ASSUME UnitsInv, NEW p \in Players, Move(p) \/ FastTravel(p) \/ Hold(p)
    PROVE  Marches(game, game')
<1>1. /\ WellMade(game) /\ Alive(game) /\ Placed(game) /\ Manned(game) /\ ~IsOver(game)
  BY DEF UnitsInv, GameInv, Move, FastTravel, Hold, OnBoard, Acting, IsOver
<1>2. CASE Hold(p)
  BY <1>1, <1>2, FinishMarches DEF Hold
<1>3. CASE Move(p) \/ FastTravel(p)
  <2>1. p \in Roamers
    <3>1. game.played[p] \in Deck[p] /\ Catalog[game.played[p]].move # None
      BY <1>1, <1>3 DEF Move, FastTravel, OnBoard, Acting, Played, WellMade
    <3>2. QED
      BY <3>1 DEF Roamers
  <2>2. game.hero[p] \in Hexes
    BY <1>1, <1>3 DEF Move, FastTravel, OnBoard, Placed, HeroesPlaced
  <2>3. PICK h \in Hexes \ Obstacles(game) :
          game' = FinishAction([game EXCEPT !.hero[p] = h], p)
    <3>1. CASE Move(p)
      <4> DEFINE steps == Played(p).move + ItemBonus(game, p, "Movement")
      <4>1. PICK h \in Reachable(Obstacles(game), game.hero[p], steps) :
              game' = FinishAction([game EXCEPT !.hero[p] = h], p)
        BY <3>1 DEF Move, Place
      <4>2. steps \in Nat
        <5>1. Played(p).move \in Nat
          <6>1. game.played[p] \in Deck[p] /\ Played(p).move # None
            BY <1>1, <3>1 DEF Move, OnBoard, Acting, WellMade
          <6>2. QED
            BY <6>1, CatalogAssumption DEF Played
        <5>2. ItemBonus(game, p, "Movement") \in Nat
          BY <1>1, ItemBonusIsNat
        <5>3. QED
          BY <5>1, <5>2
      <4> HIDE DEF steps
      <4>3. h \in Hexes \ Obstacles(game)
        BY <2>2, <4>2, ReachableIsFree
      <4>4. QED
        BY <4>1, <4>3
    <3>2. CASE FastTravel(p)
      <4>1. PICK h \in FastTravelTargets(game, game.hero[p], Team[p]) :
              game' = FinishAction([game EXCEPT !.hero[p] = h], p)
        BY <3>2 DEF FastTravel, Place
      <4>2. h \in Hexes \ Obstacles(game)
        BY DEF FastTravelTargets, EmptySpaces, SpacesIn
      <4>3. QED
        BY <4>1, <4>2
    <3>3. QED
      BY <1>3, <3>1, <3>2
  <2> DEFINE k == [game EXCEPT !.hero[p] = h]
  <2>4. WellMade(k) /\ Changes(game, k, {"hero"}) /\ Placed(k)
    BY <1>1, <2>1, PlaceKeeps
  <2>5. game' = FinishAction(k, p)
    BY <2>3
  <2> HIDE DEF k
  <2>6. /\ k.lane = game.lane /\ k.waves = game.waves /\ k.lives = game.lives
        /\ k.phase = game.phase /\ k.minions = game.minions
    BY <2>4 DEF Changes, Fields
  <2>7. Alive(k) /\ Manned(k)
    BY <1>1, <2>6 DEF Alive, IsOver, Manned
  <2>8. QED
    BY <2>4, <2>5, <2>6, <2>7, FinishMarches, MarchesOn
<1>4. QED
  BY <1>2, <1>3

\* What an action makes of the units: in place, and the minions culled, unless the lane
\* was pushed once, or twice and back.
Fought(g, h) == Placed(h) /\ Manned(h) /\ (h.lane = g.lane /\ g.waves - h.waves < 2 => Culled(g, h))

\* An attack on a minion may push the lane, and so may the end of a round after it.
LEMMA AttackMarches ==
    ASSUME UnitsInv, NEW p \in Players, AttackMinion(p)
    PROVE  Fought(game, game')
<1>1. /\ WellMade(game) /\ Alive(game) /\ Placed(game) /\ Manned(game)
      /\ ~IsOver(game) /\ ~Panicked(game)
  BY DEF UnitsInv, GameInv, AttackMinion, OnBoard, Acting, IsOver, Panicked
<1>2. PICK m \in game.minions : /\ ~Immune(game, m)
                                /\ game' = FinishAction(DefeatMinion(game, m, p), p)
  BY DEF AttackMinion
<1> DEFINE k == DefeatMinion(game, m, p)
<1>3. /\ WellMade(k) /\ Alive(k) /\ Moves(game, k) /\ (IsOver(k) \/ k.phase = game.phase)
  BY <1>1, DefeatMinionPushes
<1>4. Marches(game, k)
  BY <1>1, <1>2, DefeatMarches
<1>5. game' = FinishAction(k, p)
  BY <1>2
<1> HIDE DEF k
<1>6. Marches(k, game')
  BY <1>3, <1>4, <1>5, FinishMarches DEF Marches
<1>7. Moves(k, game') /\ WellMade(game')
  <2>1. ~Panicked(k)
    BY <1>1, <1>3 DEF IsOver, Panicked
  <2>2. QED
    BY <1>3, <1>5, <2>1, FinishActionHands DEF HandedOn
<1>8. ASSUME game'.lane = game.lane, game.waves - game'.waves < 2
      PROVE  Culled(game, game')
  <2>1. game.waves \in Nat /\ k.waves \in Nat /\ game'.waves \in Nat
    BY <1>1, <1>3, <1>7 DEF WellMade
  <2>2. CASE k.lane = game.lane
    <3>1. Culled(game, k) /\ Culled(k, game')
      BY <1>4, <1>6, <1>8, <2>2 DEF Marches
    <3>2. QED
      BY <3>1 DEF Culled
  <2>3. CASE k.lane # game.lane
    <3>1. k.waves = game.waves - 1
      BY <1>3, <2>3 DEF Moves, Stays, Pushes
    <3>2. game'.waves = k.waves - 1
      BY <1>7, <1>8, <2>3 DEF Moves, Stays, Pushes
    <3>3. QED
      BY <1>8, <2>1, <3>1, <3>2
  <2>4. QED
    BY <2>2, <2>3
<1>9. QED
  BY <1>6, <1>8 DEF Marches, Fought

\* Upgrades leave the units alone.
LEMMA UpgradesMarch ==
    ASSUME UnitsInv, NEW p \in Players, Upgrade(p)
    PROVE  Marches(game, game')
<1>1. WellMade(game) /\ Placed(game) /\ Manned(game) /\ ~IsOver(game)
  BY DEF UnitsInv, GameInv, Upgrade, IsOver
<1>2. PICK out \in game.hand[p], take \in game.deck[p] :
        game' = ContinueLevelUps(UpgradeCard(game, p, out, take))
  BY DEF Upgrade, UpgradeChoices
<1> DEFINE k == UpgradeCard(game, p, out, take)
<1>3. \/ Panicked(k) /\ Changes(game, k, {"phase"})
      \/ Changes(game, k, {"hand", "deck", "items", "owed"})
  BY <1>1, UpgradeKeeps
<1>4. game' = ContinueLevelUps(k)
  BY <1>2
<1> HIDE DEF k
<1>5. /\ k.hero = game.hero /\ k.minions = game.minions /\ k.lane = game.lane
      /\ DOMAIN k = Fields /\ ~IsOver(k)
  BY <1>1, <1>3 DEF Changes, Fields, IsOver, Panicked
<1>6. /\ game'.hero = game.hero /\ game'.minions = game.minions /\ game'.lane = game.lane
  BY <1>4, <1>5, LevelUpsMarch
<1>7. QED
  BY <1>1, <1>6, StaysPlaced

\* Every action keeps the units in place.
LEMMA UnitsStep ==
    ASSUME UnitsInv, NEW p \in Players, Act(p)
    PROVE  Fought(game, game')
<1>1. Marches(game, game') => Fought(game, game')
  BY DEF Marches, Fought
<1>2. CASE Defend(p)
  <2>1. PICK card \in game.hand[p] \union {None} : game' = ResolveDefense(game, p, card)
    BY <1>2 DEF Defend
  <2>2. game.phase.type = "Defend" /\ game.phase.defender = p
    BY <1>2 DEF Defend
  <2>3. WellMade(game) /\ Alive(game) /\ Asked(game) /\ Placed(game) /\ Manned(game)
    BY DEF UnitsInv, GameInv
  <2>4. QED
    BY <1>1, <2>1, <2>2, <2>3, DefenseMarches
<1>3. CASE ~Defend(p)
  BY <1>1, <1>3, PlaysMarch, AskedMarch, MovesMarch, AttackMarches, UpgradesMarch DEF Act
<1>4. QED
  BY <1>2, <1>3

-----------------------------------------------------------------------------
(* The start of a game *)

\* The heroes of a team take seats of their own.
LEMMA SeatsAreTheirOwn ==
    ASSUME NEW team \in Teams
    PROVE  LET Seat(p) == Cardinality({q \in Mates(team) : q <= p}) IN
           /\ \A p \in Mates(team) : Seat(p) \in 1..Cardinality(HeroSpawns[team])
           /\ \A p, q \in Mates(team) : Seat(p) = Seat(q) => p = q
<1> DEFINE mates == Mates(team)
           Upto(p) == {q \in mates : q <= p}
           Seat(p) == Cardinality(Upto(p))
<1>1. mates \subseteq Int /\ IsFiniteSet(mates)
  <2>1. mates \in SUBSET Players /\ Players \subseteq Int
    BY DEF Players, Mates
  <2>2. IsFiniteSet(Players)
    BY CatalogAssumption, FS_Interval DEF Players
  <2> HIDE DEF mates
  <2>3. QED
    BY <2>1, <2>2, FS_Subset
<1>2. Cardinality(mates) \in Nat /\ Cardinality(mates) <= Cardinality(HeroSpawns[team])
      /\ Cardinality(HeroSpawns[team]) \in Nat
  <2>1. HeroSpawns[team] \subseteq Hexes
    BY BoardAssumption DEF SpacesIn
  <2>2. QED
    BY <1>1, <2>1, RanksAreNumbers, FS_CardinalityType, SeatAssumption
<1>3. \A p \in mates : Upto(p) \in SUBSET mates /\ p \in Upto(p)
  BY <1>1
<1>4. \A p, q \in mates : p < q => Upto(p) \in SUBSET Upto(q) /\ q \notin Upto(p)
  BY <1>1
<1> HIDE DEF mates, Upto
<1>5. \A p \in mates : IsFiniteSet(Upto(p)) /\ Seat(p) \in Nat /\ Seat(p) <= Cardinality(mates)
  BY <1>1, <1>3, FS_Subset, FS_CardinalityType
<1>6. \A p \in mates : Seat(p) # 0
  BY <1>3, <1>5, FS_EmptySet
<1>7. \A p, q \in mates : p < q => Seat(p) # Seat(q)
  BY <1>3, <1>4, <1>5, FS_Subset
<1>8. \A p \in mates : Seat(p) \in 1..Cardinality(HeroSpawns[team])
  <2> HIDE DEF Seat
  <2>1. QED
    BY <1>2, <1>5, <1>6
<1>9. \A p, q \in mates : Seat(p) = Seat(q) => p = q
  <2> HIDE DEF Seat
  <2>1. QED
    BY <1>1, <1>7
<1>10. QED
  BY <1>8, <1>9 DEF mates, Upto

\* Each hero starts on a spawn point of its team that no other hero starts on.
LEMMA HeroesStartApart ==
    /\ \A p \in Players : StartingHex(p) \in HeroSpawns[Team[p]]
    /\ \A p, q \in Players : StartingHex(p) = StartingHex(q) => p = q
<1> DEFINE Seat(p) == Cardinality({q \in Mates(Team[p]) : q <= p})
           c(p) == Cardinality(HeroSpawns[Team[p]])
           Place1(p) == IF Team[p] = "Red" THEN Seat(p) ELSE c(p) + 1 - Seat(p)
<1>1. \A p \in Players : /\ Team[p] \in Teams /\ p \in Mates(Team[p])
                         /\ HeroSpawns[Team[p]] \subseteq Hexes
                         /\ HeroSpawns[Team[p]] \subseteq SpacesIn(Throne(Team[p]))
  BY CatalogAssumption, BoardAssumption DEF Mates, SpacesIn
<1>2. \A p \in Players : Seat(p) \in 1..c(p) /\ c(p) \in Nat
  BY <1>1, SeatsAreTheirOwn, RanksAreNumbers
<1>3. \A p, q \in Players : Team[p] = Team[q] /\ Seat(p) = Seat(q) => p = q
  BY <1>1, SeatsAreTheirOwn
<1>4. \A p \in Players : StartingHex(p) = Nth(HeroSpawns[Team[p]], Place1(p))
  BY DEF StartingHex
<1> HIDE DEF Seat, c
<1>5. \A p \in Players : Place1(p) \in 1..c(p)
  BY <1>2
<1>6. \A p, q \in Players : Team[p] = Team[q] /\ Place1(p) = Place1(q) => p = q
  <2> SUFFICES ASSUME NEW p \in Players, NEW q \in Players, Team[p] = Team[q],
                      Place1(p) = Place1(q)
               PROVE  Seat(p) = Seat(q)
    BY <1>3
  <2>1. c(p) = c(q)
    BY DEF c
  <2>2. QED
    BY <1>2, <2>1
<1> HIDE DEF Place1
<1>7. \A p \in Players : StartingHex(p) \in HeroSpawns[Team[p]]
  BY <1>1, <1>4, <1>5, NthOfHexes DEF c
<1>8. ASSUME NEW p \in Players, NEW q \in Players, StartingHex(p) = StartingHex(q)
      PROVE  p = q
  <2>1. CASE Team[p] = Team[q]
    <3>1. c(p) = c(q)
      BY <2>1 DEF c
    <3>2. Place1(p) = Place1(q)
      BY <1>1, <1>4, <1>5, <1>8, <2>1, <3>1, NthOfHexes DEF c
    <3>3. QED
      BY <1>6, <2>1, <3>2
  <2>2. CASE Team[p] # Team[q]
    <3>1. Throne(Team[p]) = Throne(Team[q])
      BY <1>1, <1>7, <1>8 DEF SpacesIn
    <3>2. Lane[1] # Lane[Len(Lane)]
      <4>1. 1 \in 1..Len(Lane) /\ Len(Lane) \in 1..Len(Lane) /\ Len(Lane) # 1
        <5> DEFINE l == Len(Lane)
        <5>1. l \in Nat /\ l >= 3
          BY LaneLength
        <5> HIDE DEF l
        <5>2. 1 \in 1..l /\ l \in 1..l /\ l # 1
          BY <5>1
        <5>3. QED
          BY <5>2 DEF l
      <4>2. QED
        BY <4>1, BoardAssumption
    <3>3. QED
      BY <1>1, <2>2, <3>1, <3>2 DEF Throne, Last, Teams
  <2>3. QED
    BY <2>1, <2>2
<1>9. QED
  BY <1>7, <1>8

\* A new game has the heroes at home and both sides in the middle of the lane.
LEMMA UnitsInit ==
    ASSUME Init
    PROVE  UnitsInv
<1> DEFINE fresh(coin) ==
        [hero |-> [p \in Players |-> StartingHex(p)], minions |-> {},
         hand |-> [p \in Players |-> StartingHand(p)], played |-> [p \in Players |-> None],
         resolved |-> [p \in Players |-> {}], discard |-> [p \in Players |-> {}],
         deck |-> [p \in Players |-> Deck[p] \ StartingHand(p)],
         items |-> [p \in Players |-> {}], ultimate |-> [p \in Players |-> {}],
         coins |-> [p \in Players |-> 0], level |-> [p \in Players |-> 1],
         passed |-> [p \in Players |-> FALSE], leveled |-> [p \in Players |-> FALSE],
         owed |-> [p \in Players |-> 0], lane |-> (Len(Lane) + 1) \div 2, round |-> 1, turn |-> 1,
         waves |-> Waves, lives |-> [team \in Teams |-> Lives],
         coin |-> coin, flip |-> FALSE, phase |-> [type |-> "Play"]]
<1>1. PICK coin \in Teams : game = RespawnMinions(fresh(coin))
  BY DEF Init
<1> DEFINE g == fresh(coin)
<1>2. /\ DOMAIN g = Fields /\ g.minions = {} /\ g.hero = [p \in Players |-> StartingHex(p)]
      /\ g.lane = (Len(Lane) + 1) \div 2
  BY DEF Fields
<1> HIDE DEF g
<1>3. g.lane \in 2..(Len(Lane) - 1)
  BY <1>2, LaneLength
<1>4. \A p \in Players : HeroSpawns[Team[p]] \subseteq SpacesIn(Throne(Team[p])) \ Terrain
  BY CatalogAssumption, BoardAssumption
<1>5. HeroesPlaced(g)
  <2>1. \A p \in Players : /\ g.hero[p] \in Hexes \ Terrain
                           /\ ZoneOf[g.hero[p]] = Throne(Team[p])
    BY <1>2, <1>4, HeroesStartApart DEF SpacesIn
  <2>2. g.hero \in [Players -> (Hexes \ Terrain) \union {Nowhere}]
    BY <1>2, <2>1
  <2>3. QED
    BY <1>2, <2>1, <2>2, HeroesStartApart DEF HeroesPlaced
<1>6. Placed(game) /\ Manned(game)
  BY <1>1, <1>2, <1>3, <1>5, RespawnPlaces DEF g
<1>7. QED
  BY <1>6, GameInit DEF UnitsInv

\* The units stay in place, and the battle zone manned, through every action.
THEOREM UnitsInPlace == Spec => []UnitsInv
<1>1. Init => UnitsInv
  BY UnitsInit
<1>2. UnitsInv /\ [Next]_game => UnitsInv'
  <2> SUFFICES ASSUME UnitsInv, [Next]_game PROVE UnitsInv'
    OBVIOUS
  <2>1. CASE Stop \/ UNCHANGED game
    <3>1. game' = game
      BY <2>1 DEF Stop
    <3>2. QED
      BY <3>1 DEF UnitsInv, GameInv
  <2>2. CASE \E p \in Players : Act(p)
    <3>1. PICK p \in Players : Act(p)
      BY <2>2
    <3>2. Advanced(game, game')
      BY <3>1, GameStep DEF UnitsInv
    <3>3. Fought(game, game')
      BY <3>1, UnitsStep
    <3>4. QED
      BY <3>2, <3>3 DEF UnitsInv, GameInv, Advanced, Fought
  <2>3. QED
    BY <2>1, <2>2 DEF Next
<1>3. QED
  BY <1>1, <1>2, PTL DEF Spec

\* For any board with room for its minions, both sides hold the battle zone while the
\* game is on, and no two units ever share a space.
THEOREM LaneStaysHeld == Spec => []LaneHeld
<1>1. UnitsInv => LaneHeld
  <2> SUFFICES ASSUME UnitsInv PROVE LaneHeld
    OBVIOUS
  <2> USE DEF UnitsInv, Placed
  <2>1. ~IsOver(game) => \A m \in game.minions : ZoneOf[m.at] = Lane[game.lane]
    BY DEF MinionsPlaced
  <2>2. ~IsOver(game) => \A team \in Teams : MinionsOf(game, team) # {}
    BY <2>1 DEF Manned, MinionsOf
  <2>3. \A m, n \in game.minions : m.at = n.at => m = n
    BY DEF MinionsPlaced
  <2>4. \A p \in Players : game.hero[p] # Nowhere =>
          game.hero[p] \notin Terrain \union {m.at : m \in game.minions}
    BY DEF HeroesPlaced, MinionsPlaced
  <2>5. \A p, q \in Players :
          game.hero[p] # Nowhere /\ game.hero[p] = game.hero[q] => p = q
    BY DEF HeroesPlaced
  <2>6. QED
    BY <2>1, <2>2, <2>3, <2>4, <2>5 DEF LaneHeld
<1>2. QED
  BY <1>1, UnitsInPlace, PTL

\* A heavy minion is the last of its side to fall, whoever kills it, for any numbers of
\* minions and any order of attacks and battles.
THEOREM HeavyMinionsFallLast == Spec => HeavyFallsLast
<1> DEFINE A == \A m \in game.minions \ game'.minions :
                  m.kind = "Heavy" /\ game'.lane = game.lane /\ game.waves - game'.waves < 2 =>
                    \A n \in game'.minions : n.team = m.team => n.kind = "Heavy"
<1>1. UnitsInv /\ [Next]_game => [A]_game
  <2> SUFFICES ASSUME UnitsInv, Next PROVE A \/ UNCHANGED game
    OBVIOUS
  <2>1. CASE Stop
    BY <2>1 DEF Stop
  <2>2. CASE \E p \in Players : Act(p)
    <3>1. Fought(game, game')
      BY <2>2, UnitsStep
    <3>2. QED
      BY <3>1 DEF Fought, Culled
  <2>3. QED
    BY <2>1, <2>2 DEF Next
<1> HIDE DEF A
<1>2. Spec => [][A]_game
  BY <1>1, UnitsInPlace, PTL DEF Spec
<1>3. QED
  BY <1>2 DEF HeavyFallsLast, A

-----------------------------------------------------------------------------
(* Counting the actions left *)

Undecided(g) == {p \in Players : g.played[p] = None /\ ~g.passed[p]}
Levels(g) == {up \in Players \X (1..MaxLevel) : up[2] > g.level[up[1]] - g.owed[up[1]]}

\* What the turns to come allow, and what a turn does once the cards are played.
Rest(turn) == 5 * Seats * (TurnsPerRound - turn)
Due(g) == Rest(g.turn) + 4 * Cardinality(Left(g)) + Cardinality(Levels(g))

Plays(g) == IF g.phase.type = "Play" THEN 5 * Cardinality(Undecided(g)) ELSE 0
Spent(g) == CASE g.phase.type = "Act" -> IF g.hero[g.phase.player] = Nowhere THEN 1 ELSE 2
              [] g.phase.type = "Defend" -> 3
              [] OTHER -> 0

Timed(g) == /\ g.turn \in 1..TurnsPerRound /\ g.round \in Nat
            /\ g.passed \in [Players -> BOOLEAN]

\* The turns left in a round allow five actions to each seat.
LEMMA RestOfRound ==
    ASSUME NEW turn \in 1..TurnsPerRound
    PROVE  /\ Rest(turn) \in Nat
           /\ turn # TurnsPerRound =>
                turn + 1 \in 1..TurnsPerRound /\ Rest(turn) = Rest(turn + 1) + 5 * Seats
<1>1. Seats \in Nat /\ TurnsPerRound \in Nat
  BY CatalogAssumption
<1>2. PICK n \in Nat : n = TurnsPerRound - turn
  BY <1>1
<1>3. Rest(turn) = 5 * Seats * n
  BY <1>2 DEF Rest
<1>4. \A a, b \in Nat : 5 * a * b \in Nat
  OBVIOUS
<1>5. Rest(turn) \in Nat
  BY <1>1, <1>3, <1>4
<1>6. ASSUME turn # TurnsPerRound
      PROVE  turn + 1 \in 1..TurnsPerRound /\ Rest(turn) = Rest(turn + 1) + 5 * Seats
  <2>1. turn + 1 \in 1..TurnsPerRound /\ TurnsPerRound - (turn + 1) = n - 1
    BY <1>1, <1>2, <1>6
  <2>2. Rest(turn + 1) = 5 * Seats * (n - 1)
    BY <2>1 DEF Rest
  <2>3. \A a, b \in Nat : 5 * a * b = 5 * a * (b - 1) + 5 * a
    OBVIOUS
  <2>4. QED
    BY <1>1, <1>3, <2>1, <2>2, <2>3
<1>7. QED
  BY <1>5, <1>6

\* What is counted is finite.
LEMMA CountsAreNat ==
    ASSUME NEW g
    PROVE  /\ IsFiniteSet(Left(g)) /\ Cardinality(Left(g)) \in Nat
           /\ IsFiniteSet(Undecided(g)) /\ Cardinality(Undecided(g)) \in Nat
           /\ IsFiniteSet(Levels(g)) /\ Cardinality(Levels(g)) \in Nat
           /\ IsFiniteSet(Players) /\ Cardinality(Players) = Seats
<1>1. IsFiniteSet(Players) /\ Cardinality(Players) = Seats
  BY CatalogAssumption, FS_Interval DEF Players
<1>2. IsFiniteSet(Players \X (1..MaxLevel))
  <2>1. IsFiniteSet(1..MaxLevel)
    BY CatalogAssumption, FS_Interval
  <2>2. QED
    BY <1>1, <2>1, FS_Product
<1>3. /\ Left(g) \in SUBSET Players /\ Undecided(g) \in SUBSET Players
      /\ Levels(g) \in SUBSET (Players \X (1..MaxLevel))
  BY DEF Left, Undecided, Levels
<1>4. QED
  BY <1>1, <1>2, <1>3, FS_Subset, FS_CardinalityType

\* The bound, in its parts.
LEMMA StepsAre ==
    ASSUME NEW g, Timed(g)
    PROVE  /\ Due(g) \in Nat /\ Plays(g) \in Nat /\ Spent(g) \in 0..3
           /\ StepsLeft(g) = Due(g) + Plays(g) - Spent(g)
           /\ Left(g) # {} => Due(g) >= 4
<1> DEFINE a == Rest(g.turn)
           b == Plays(g)
           c == Cardinality(Left(g))
           d == Spent(g)
           e == Cardinality(Levels(g))
<1>1. a \in Nat /\ c \in Nat /\ e \in Nat
  BY RestOfRound, CountsAreNat DEF Timed
<1>2. b \in Nat
  BY CountsAreNat DEF Plays
<1>3. d \in 0..3
  BY DEF Spent
<1>4. StepsLeft(g) = a + b + 4 * c - d + e
  BY DEF StepsLeft, Rest, Plays, Undecided, Left, Spent, Levels
<1>5. Due(g) = a + 4 * c + e
  BY DEF Due
<1>6. Left(g) # {} => c # 0
  BY CountsAreNat, FS_EmptySet
<1> HIDE DEF a, b, c, d, e
<1>7. Due(g) \in Nat /\ b \in Nat /\ d \in 0..3 /\ StepsLeft(g) = Due(g) + b - d
      /\ (Left(g) # {} => Due(g) >= 4)
  BY <1>1, <1>2, <1>3, <1>4, <1>5, <1>6
<1>8. QED
  BY <1>7 DEF b, d

\* The round is over, or its end is at most n actions away.
Nears(h, round, n) ==
    Timed(h) /\ (IsOver(h) \/ h.round = round + 1 \/ StepsLeft(h) \in 0..n)

\* A game that counts what is due, and spends no more than what is left of a card.
LEMMA NearsDue ==
    ASSUME NEW h, Timed(h), Plays(h) = 0, Spent(h) = 0 \/ Left(h) # {}
    PROVE  Nears(h, h.round, Due(h))
<1>1. /\ Due(h) \in Nat /\ Spent(h) \in 0..3 /\ StepsLeft(h) = Due(h) + 0 - Spent(h)
      /\ (Left(h) # {} => Due(h) >= 4)
  BY StepsAre
<1>2. StepsLeft(h) \in 0..Due(h)
  BY <1>1
<1>3. QED
  BY <1>2 DEF Nears

\* Buying levels buys no more upgrades than the levels the hero has not yet been paid.
LEMMA LevelsBought ==
    ASSUME NEW g, WellMade(g), g.coins \in [Players -> 0..255],
           g.level \in [Players -> 1..MaxLevel], g.owed \in [Players -> Nat]
    PROVE  Cardinality(Levels(BuyLevelUps(g))) <= Cardinality(Levels(g))
<1> DEFINE h == BuyLevelUps(g)
<1>1. \A p \in Players : /\ h.level[p] = LevelFor(g, p)
                         /\ h.owed[p] = g.owed[p] + UpgradesFor(g, p)
  BY DEF BuyLevelUps, WellMade, Fields
<1>2. ASSUME NEW p \in Players
      PROVE  h.level[p] - h.owed[p] >= g.level[p] - g.owed[p] /\ h.level[p] - h.owed[p] \in Int
  <2>1. /\ LevelFor(g, p) \in g.level[p]..MaxLevel /\ g.level[p] \in 1..MaxLevel
        /\ g.owed[p] \in Nat /\ MaxLevel \in Nat
    BY LevelForFits, CatalogAssumption
  <2> DEFINE to == LevelFor(g, p)
             from == g.level[p]
             owed == g.owed[p]
  <2>2. Min({to, MaxLevel - 1}) = (IF to <= MaxLevel - 1 THEN to ELSE MaxLevel - 1)
        /\ Min({from, MaxLevel - 1}) = (IF from <= MaxLevel - 1 THEN from ELSE MaxLevel - 1)
    <3>1. to \in Int /\ from \in Int /\ MaxLevel - 1 \in Int
      BY <2>1
    <3> HIDE DEF to, from
    <3>2. QED
      BY <3>1, MinOfTwo
  <2>3. h.level[p] = to /\ h.owed[p] = owed + (Min({to, MaxLevel - 1}) - Min({from, MaxLevel - 1}))
    BY <1>1 DEF UpgradesFor
  <2> HIDE DEF h, to, from, owed
  <2>4. to \in from..MaxLevel /\ from \in 1..MaxLevel /\ owed \in Nat /\ MaxLevel \in Nat
    BY <2>1 DEF to, from, owed
  <2>5. to - (owed + (Min({to, MaxLevel - 1}) - Min({from, MaxLevel - 1}))) >= from - owed
        /\ to - (owed + (Min({to, MaxLevel - 1}) - Min({from, MaxLevel - 1}))) \in Int
    BY <2>2, <2>4
  <2>6. QED
    BY <2>3, <2>5 DEF from, owed
<1> HIDE DEF h
<1>3. Levels(h) \in SUBSET Levels(g)
  <2> SUFFICES ASSUME NEW p \in Players, NEW l \in 1..MaxLevel, l > h.level[p] - h.owed[p]
               PROVE  l > g.level[p] - g.owed[p]
    BY DEF Levels
  <2>1. /\ h.level[p] - h.owed[p] >= g.level[p] - g.owed[p] /\ h.level[p] - h.owed[p] \in Int
        /\ g.level[p] - g.owed[p] \in Int
    BY <1>2
  <2>2. QED
    BY <2>1
<1>4. QED
  BY <1>3, CountsAreNat, FS_Subset DEF h

-----------------------------------------------------------------------------
(* The turn machine brings the end of the round nearer *)

\* A level-up waits for the upgrades owed; without any the next round begins.
LEMMA LevelUpsNear ==
    ASSUME NEW g, DOMAIN g = Fields, Timed(g), ~IsOver(g), ~Panicked(g)
    PROVE  Nears(ContinueLevelUps(g), g.round, Due(g))
<1> DEFINE owing == {p \in Players : g.owed[p] > 0}
           asked == [g EXCEPT !.phase = [type |-> "LevelUp", player |-> Min(owing)]]
           h == ContinueLevelUps(g)
<1>1. h = FinishRound(g) \/ h = asked
  BY DEF ContinueLevelUps
<1>2. CASE h = FinishRound(g)
  <2>1. h.round = g.round + 1 /\ h.turn = 1 /\ h.passed = g.passed
    BY <1>2 DEF Fields, FinishRound
  <2> HIDE DEF h
  <2>2. Timed(h)
    BY <2>1, CatalogAssumption DEF Timed
  <2>3. QED
    BY <2>1, <2>2 DEF Nears, h
<1>3. CASE h = asked
  <2>1. Changes(g, asked, {"phase"}) /\ asked.phase.type = "LevelUp"
    <3> HIDE DEF owing
    <3>1. QED
      BY DEF Fields, Changes
  <2> HIDE DEF asked, h
  <2>2. /\ h.turn = g.turn /\ h.round = g.round /\ h.played = g.played /\ h.level = g.level
        /\ h.passed = g.passed /\ h.owed = g.owed /\ h.phase.type = "LevelUp"
    BY <1>3, <2>1 DEF Changes, Fields
  <2>3. Timed(h) /\ Plays(h) = 0 /\ Spent(h) = 0 /\ Due(h) = Due(g)
    BY <2>2 DEF Timed, Plays, Spent, Due, Left, Levels
  <2>4. QED
    BY <2>2, <2>3, NearsDue DEF h
<1>4. QED
  BY <1>1, <1>2, <1>3

\* What the end of a round needs of a game to count what is left.
Counted(g) == /\ WellMade(g) /\ Alive(g) /\ Timed(g) /\ ~Panicked(g)
              /\ g.coins \in [Players -> 0..255] /\ g.level \in [Players -> 1..MaxLevel]
              /\ g.owed \in [Players -> Nat]

\* The end of a round ends the match or the round, but for the upgrades it owes.
LEMMA RoundNears ==
    ASSUME NEW g, Counted(g), ~IsOver(g)
    PROVE  Nears(EndRound(g), g.round, Due(g))
<1> DEFINE battle == MinionBattle(g)
           back == Retrieve(battle)
           bought == BuyLevelUps(back)
           h == EndRound(g)
<1>1. /\ WellMade(battle) /\ Changes(g, battle, {"minions", "lane", "waves", "phase"})
      /\ IsOver(battle) \/ battle.phase = g.phase
  BY BattlePushes DEF Counted
<1>2. h = IF IsOver(battle) \/ Panicked(battle) THEN battle ELSE ContinueLevelUps(bought)
  BY DEF EndRound
<1> HIDE DEF battle, h
<1>3. battle.turn = g.turn /\ battle.round = g.round /\ battle.passed = g.passed
  BY <1>1 DEF Changes, Fields
<1>4. CASE IsOver(battle)
  <2>1. h = battle
    BY <1>2, <1>4
  <2>2. QED
    BY <1>3, <1>4, <2>1 DEF Nears, Timed, Counted, h
<1>5. CASE ~IsOver(battle)
  <2>1. ~Panicked(battle)
    BY <1>1, <1>5 DEF Panicked, Counted
  <2>2. WellMade(back) /\ Changes(battle, back, {"hand", "resolved", "discard"})
    BY <1>1, RetrieveKeeps
  <2> HIDE DEF back
  <2>3. /\ back.turn = g.turn /\ back.round = g.round /\ back.played = g.played
        /\ back.passed = g.passed /\ back.level = g.level /\ back.owed = g.owed /\ back.coins = g.coins
        /\ back.phase = battle.phase
    BY <1>1, <2>2 DEF Changes, Fields
  <2>4. Changes(back, bought, {"coins", "level", "leveled", "owed", "deck", "ultimate"})
    BY <2>2, LevelUpsKeep
  <2>5. Cardinality(Levels(bought)) <= Cardinality(Levels(back))
    BY <2>2, <2>3, LevelsBought DEF Counted
  <2> HIDE DEF bought
  <2>6. /\ bought.turn = g.turn /\ bought.round = g.round /\ bought.played = g.played
        /\ bought.passed = g.passed /\ bought.phase = battle.phase /\ DOMAIN bought = Fields
    BY <2>3, <2>4 DEF Changes, Fields
  <2>7. Timed(bought) /\ ~IsOver(bought) /\ ~Panicked(bought)
    BY <1>5, <2>1, <2>6 DEF Timed, IsOver, Panicked, Counted
  <2>8. Nears(h, g.round, Due(bought))
    BY <1>2, <1>5, <2>1, <2>6, <2>7, LevelUpsNear
  <2>9. Due(bought) <= Due(g) /\ Due(bought) \in Nat /\ Due(g) \in Nat
    <3>1. Left(bought) = Left(g) /\ Levels(back) = Levels(g)
      BY <2>3, <2>6 DEF Left, Levels
    <3> DEFINE a == Rest(g.turn)
               b == Cardinality(Left(g))
               c == Cardinality(Levels(g))
               d == Cardinality(Levels(bought))
    <3>2. Due(bought) = a + 4 * b + d /\ Due(g) = a + 4 * b + c
      BY <2>6, <3>1 DEF Due
    <3>3. a \in Nat /\ b \in Nat /\ c \in Nat /\ d \in Nat /\ d <= c
      BY <2>5, <3>1, RestOfRound, CountsAreNat DEF Counted, Timed
    <3> HIDE DEF a, b, c, d
    <3>4. QED
      BY <3>2, <3>3
  <2>10. QED
    BY <2>8, <2>9 DEF Nears, h
<1>6. QED
  BY <1>4, <1>5

\* The next to act spends no more than what is due for the cards that are left; without
\* cards, a new turn has five actions for each seat.
LEMMA NextActorNears ==
    ASSUME NEW g, Counted(g)
    PROVE  Nears(NextActor(g), g.round, Due(g))
<1> DEFINE unresolved == {p \in Players : g.played[p] # None}
           h == NextActor(g)
<1>1. CASE IsOver(g)
  <2>1. h = g
    BY <1>1 DEF NextActor
  <2>2. QED
    BY <1>1, <2>1 DEF Nears, Counted
<1>2. CASE ~IsOver(g) /\ unresolved # {}
  <2>1. PICK flip, phase : h = [[g EXCEPT !.flip = flip] EXCEPT !.phase = phase]
                           /\ phase.type \in {"Act", "ChooseActor"}
    <3> DEFINE tied == {p \in unresolved : \A q \in unresolved : Initiative(g, p) >= Initiative(g, q)}
               oneTeam == \A p, q \in tied : Team[p] = Team[q]
               candidates == IF oneTeam THEN tied ELSE {p \in tied : Team[p] = g.coin}
               flip == g.flip \/ ~oneTeam
               act == [type |-> "Act", player |-> CHOOSE p \in candidates : TRUE]
               choice == [type |-> "ChooseActor", candidates |-> candidates]
               phase == IF Cardinality(candidates) = 1 THEN act ELSE choice
    <3>1. h = [[g EXCEPT !.flip = flip] EXCEPT !.phase = phase]
      BY <1>2 DEF NextActor, Counted
    <3>2. phase.type \in {"Act", "ChooseActor"}
      OBVIOUS
    <3> HIDE DEF phase, flip, h
    <3>3. QED
      BY <3>1, <3>2
  <2>2. /\ h.turn = g.turn /\ h.round = g.round /\ h.played = g.played /\ h.level = g.level
        /\ h.owed = g.owed /\ h.passed = g.passed /\ h.phase.type \in {"Act", "ChooseActor"}
    BY <2>1 DEF WellMade, Fields, Counted
  <2> HIDE DEF h
  <2>3. Timed(h) /\ Plays(h) = 0 /\ Due(h) = Due(g) /\ Left(h) # {}
    BY <1>2, <2>2 DEF Timed, Plays, Due, Left, Levels, Counted
  <2>4. QED
    BY <2>2, <2>3, NearsDue DEF h
<1>3. CASE ~IsOver(g) /\ unresolved = {}
  <2> DEFINE cleared == [g EXCEPT !.passed = [p \in Players |-> FALSE]]
             next == [cleared EXCEPT !.turn = @ + 1, !.phase = [type |-> "Play"]]
  <2>1. h = IF g.turn = TurnsPerRound THEN EndRound(cleared) ELSE next
    BY <1>3 DEF NextActor, EndTurn, Counted
  <2>2. /\ Changes(g, cleared, {"passed"}) /\ Changes(g, next, {"passed", "turn", "phase"})
        /\ cleared.passed = [p \in Players |-> FALSE]
        /\ next.passed = [p \in Players |-> FALSE] /\ next.turn = g.turn + 1
        /\ next.phase.type = "Play"
    BY DEF WellMade, Fields, Changes, Counted
  <2> HIDE DEF h, cleared, next
  <2>3. CASE g.turn = TurnsPerRound
    <3>1. /\ cleared.lane = g.lane /\ cleared.phase = g.phase /\ cleared.waves = g.waves
          /\ cleared.lives = g.lives /\ cleared.turn = g.turn /\ cleared.round = g.round
          /\ cleared.coins = g.coins /\ cleared.level = g.level /\ cleared.owed = g.owed
          /\ cleared.played = g.played
      BY <2>2 DEF Changes, Fields
    <3>2. WellMade(cleared)
      BY <2>2, StaysWellMade DEF Changes, Fields, Made, Counted
    <3>3. Counted(cleared) /\ ~IsOver(cleared)
      <4>1. Timed(cleared)
        BY <2>2, <3>1 DEF Counted, Timed
      <4>2. ~IsOver(cleared) /\ ~Panicked(cleared) /\ Alive(cleared)
        BY <1>3, <3>1 DEF Counted, Alive, IsOver, Panicked
      <4>3. QED
        BY <3>1, <3>2, <4>1, <4>2 DEF Counted
    <3>4. Due(cleared) = Due(g)
      BY <3>1 DEF Due, Left, Levels
    <3>5. QED
      BY <2>1, <2>3, <3>1, <3>3, <3>4, RoundNears DEF h
  <2>4. CASE g.turn # TurnsPerRound
    <3>1. /\ h = next /\ h.played = g.played /\ h.level = g.level /\ h.owed = g.owed
          /\ h.round = g.round
      BY <2>1, <2>2, <2>4 DEF Changes, Fields
    <3>2. Left(h) = Left(g) /\ Levels(h) = Levels(g)
      BY <3>1 DEF Left, Levels
    <3>3. Undecided(h) = Players
      BY <1>3, <2>2, <3>1 DEF Undecided
    <3>4. /\ Timed(h) /\ Rest(g.turn) = Rest(h.turn) + 5 * Seats /\ Rest(h.turn) \in Nat
          /\ Seats \in Nat
      <4>1. /\ g.turn \in 1..TurnsPerRound /\ g.round \in Nat /\ h.turn = g.turn + 1
            /\ h.passed = [p \in Players |-> FALSE]
        BY <2>2, <3>1 DEF Timed, Counted
      <4>2. /\ h.turn \in 1..TurnsPerRound /\ Rest(g.turn) = Rest(h.turn) + 5 * Seats
            /\ Rest(h.turn) \in Nat /\ Seats \in Nat
        BY <2>4, <4>1, RestOfRound, CatalogAssumption
      <4>3. h.passed \in [Players -> BOOLEAN]
        BY <4>1
      <4>4. QED
        BY <3>1, <4>1, <4>2, <4>3 DEF Timed
    <3>5. Plays(h) = 5 * Seats /\ Spent(h) = 0
      BY <2>2, <3>1, <3>3, CountsAreNat DEF Plays, Spent
    <3>6. Due(g) = Due(h) + 5 * Seats
      <4> DEFINE b == Cardinality(Left(g))
                 c == Cardinality(Levels(g))
                 a == Rest(h.turn)
      <4>1. Due(h) = a + 4 * b + c /\ Due(g) = (a + 5 * Seats) + 4 * b + c
        BY <3>2, <3>4 DEF Due
      <4>2. a \in Nat /\ b \in Nat /\ c \in Nat
        BY <3>4, CountsAreNat
      <4> HIDE DEF a, b, c
      <4>3. QED
        BY <3>4, <4>1, <4>2
    <3>7. StepsLeft(h) \in 0..Due(g)
      BY <3>4, <3>5, <3>6, StepsAre
    <3>8. QED
      BY <3>4, <3>7 DEF Nears, h
  <2>5. QED
    BY <2>3, <2>4
<1>4. QED
  BY <1>1, <1>2, <1>3

\* An action that ends leaves what was due without its card.
LEMMA FinishNears ==
    ASSUME NEW g, Counted(g), NEW p \in Left(g)
    PROVE  Nears(FinishAction(g, p), g.round, Due(g) - 4)
<1> DEFINE resolved == Resolve(g, p)
           flipped == [resolved EXCEPT !.flip = FALSE, !.coin = Opponent(@)]
           settled == IF g.flip THEN flipped ELSE resolved
           h == FinishAction(g, p)
<1>1. p \in Players /\ WellMade(g)
  BY DEF Left, Counted
<1>2. /\ WellMade(resolved) /\ Changes(g, resolved, {"resolved", "played"})
      /\ resolved.played = [g.played EXCEPT ![p] = None]
  BY <1>1, ResolveKeeps
<1>3. h = NextActor(settled)
  BY DEF FinishAction
<1> HIDE DEF resolved, h
<1>4. Changes(resolved, flipped, {"flip", "coin"}) /\ flipped.flip = FALSE /\ flipped.coin \in Teams
  BY <1>2 DEF WellMade, Fields, Changes, Opponent, Teams
<1> HIDE DEF flipped
<1>5. Changes(g, settled, {"resolved", "played", "flip", "coin"}) /\ WellMade(settled)
  <2>1. WellMade(flipped)
    BY <1>2, <1>4, CoinStaysWellMade
  <2>2. QED
    BY <1>2, <1>4, <2>1 DEF Changes
<1>6. settled.played = [g.played EXCEPT ![p] = None]
  BY <1>2, <1>4 DEF Changes, Fields
<1> HIDE DEF settled
<1>7. /\ settled.lane = g.lane /\ settled.waves = g.waves /\ settled.lives = g.lives
      /\ settled.passed = g.passed /\ settled.phase = g.phase /\ settled.turn = g.turn /\ settled.round = g.round
      /\ settled.coins = g.coins /\ settled.level = g.level /\ settled.owed = g.owed
  BY <1>5 DEF Changes, Fields
<1>8. Counted(settled)
  BY <1>5, <1>7 DEF Counted, Alive, IsOver, Panicked, Timed
<1>9. Nears(h, g.round, Due(settled))
  BY <1>3, <1>7, <1>8, NextActorNears
<1>10. Left(settled) = Left(g) \ {p}
  BY <1>1, <1>6 DEF Left, WellMade
<1>11. Due(settled) = Due(g) - 4
  <2> DEFINE a == Rest(g.turn)
             b == Cardinality(Left(g))
             c == Cardinality(Levels(g))
  <2>1. Cardinality(Left(settled)) = b - 1
    BY <1>10, CountsAreNat, FS_RemoveElement
  <2>2. Due(settled) = a + 4 * (b - 1) + c /\ Due(g) = a + 4 * b + c
    BY <1>7, <2>1 DEF Due, Levels
  <2>3. a \in Nat /\ b \in Nat /\ c \in Nat
    BY RestOfRound, CountsAreNat DEF Counted, Timed
  <2> HIDE DEF a, b, c
  <2>4. QED
    BY <2>2, <2>3
<1>12. QED
  BY <1>9, <1>11 DEF h

-----------------------------------------------------------------------------
(* Every action brings the end of the round nearer *)

\* A larger bound holds as well.
LEMMA NearsMore ==
    ASSUME NEW h, NEW round, NEW n \in Int, NEW m \in Int, n <= m, Nears(h, round, n)
    PROVE  Nears(h, round, m)
<1>1. \A s : s \in 0..n => s \in 0..m
  OBVIOUS
<1>2. QED
  BY <1>1 DEF Nears

\* The books of a game are what is needed to count it.
LEMMA BooksCount ==
    ASSUME BookInv, Timed(game)
    PROVE  Counted(game)
BY DEF BookInv, GameInv, Booked, Ledger, Counted

\* A change of the piles and the places leaves a game that can be counted.
LEMMA StaysCounted ==
    ASSUME NEW g, NEW k, Counted(g), WellMade(k), k.passed \in [Players -> BOOLEAN],
           Changes(g, k, {"hero", "hand", "played", "resolved", "discard", "passed"})
    PROVE  /\ Counted(k) /\ k.turn = g.turn /\ k.round = g.round /\ k.phase = g.phase
           /\ Levels(k) = Levels(g)
<1>1. /\ k.lane = g.lane /\ k.waves = g.waves /\ k.lives = g.lives
      /\ k.phase = g.phase /\ k.turn = g.turn /\ k.round = g.round
      /\ k.coins = g.coins /\ k.level = g.level /\ k.owed = g.owed
  BY DEF Changes, Fields
<1>2. QED
  BY <1>1 DEF Counted, Alive, IsOver, Panicked, Timed, Levels

\* Whoever plays or passes has decided; a card played is due.
Decides(g, k, p) == /\ Counted(k) /\ k.round = g.round /\ k.phase = g.phase
                    /\ Undecided(k) = Undecided(g) \ {p}
                    /\ Due(k) \in {Due(g), Due(g) + 4}

\* Passing decides.
LEMMA PassDecides ==
    ASSUME NEW g, Counted(g), NEW p \in Players
    PROVE  Decides(g, [g EXCEPT !.passed[p] = TRUE], p)
<1> DEFINE k == [g EXCEPT !.passed[p] = TRUE]
<1>1. Changes(g, k, {"passed"}) /\ k.passed = [g.passed EXCEPT ![p] = TRUE]
  BY DEF WellMade, Fields, Changes, Counted
<1>2. g.passed \in [Players -> BOOLEAN]
  BY DEF Counted, Timed
<1> HIDE DEF k
<1>3. WellMade(k) /\ k.played = g.played
  BY <1>1, StaysWellMade DEF Changes, Fields, Made, Counted
<1>4. k.passed \in [Players -> BOOLEAN]
  BY <1>1, <1>2
<1>5. /\ Counted(k) /\ k.turn = g.turn /\ k.round = g.round /\ k.phase = g.phase
      /\ Levels(k) = Levels(g)
  <2>1. Changes(g, k, {"hero", "hand", "played", "resolved", "discard", "passed"})
    BY <1>1 DEF Changes
  <2>2. QED
    BY <1>3, <1>4, <2>1, StaysCounted
<1>6. Undecided(k) = Undecided(g) \ {p}
  BY <1>1, <1>2, <1>3 DEF Undecided
<1>7. Due(k) = Due(g)
  BY <1>3, <1>5 DEF Due, Left
<1>8. QED
  BY <1>5, <1>6, <1>7 DEF Decides, k

\* Playing a card decides, and the card is due.
LEMMA PlayDecides ==
    ASSUME NEW g, Counted(g), NEW p \in Players, g.played[p] = None, NEW c \in g.hand[p]
    PROVE  Decides(g, [g EXCEPT !.hand[p] = @ \ {c}, !.played[p] = c], p)
<1> DEFINE k == [g EXCEPT !.hand[p] = @ \ {c}, !.played[p] = c]
<1>1. WellMade(g) /\ g.passed \in [Players -> BOOLEAN]
  BY DEF Counted, Timed
<1>2. WellMade(k) /\ Changes(g, k, {"hand", "played"})
  BY <1>1, PlayKeeps
<1>3. k.played = [g.played EXCEPT ![p] = c]
  BY <1>1 DEF WellMade, Fields
<1>4. c # None /\ DOMAIN g.played = Players
  BY <1>1, NoneIsNoCard DEF WellMade
<1> HIDE DEF k
<1>5. k.passed = g.passed
  BY <1>2 DEF Changes, Fields
<1>6. /\ Counted(k) /\ k.turn = g.turn /\ k.round = g.round /\ k.phase = g.phase
      /\ Levels(k) = Levels(g)
  <2>1. Changes(g, k, {"hero", "hand", "played", "resolved", "discard", "passed"})
    BY <1>2 DEF Changes
  <2>2. QED
    BY <1>1, <1>2, <1>5, <2>1, StaysCounted
<1>7. Undecided(k) = Undecided(g) \ {p}
  BY <1>3, <1>4, <1>5 DEF Undecided
<1>8. Due(k) = Due(g) + 4
  <2>1. Left(k) = Left(g) \union {p} /\ p \notin Left(g)
    BY <1>3, <1>4 DEF Left
  <2> DEFINE a == Rest(g.turn)
             b == Cardinality(Left(g))
             e == Cardinality(Levels(g))
  <2>2. Cardinality(Left(k)) = b + 1
    BY <2>1, CountsAreNat, FS_AddElement
  <2>3. Due(k) = a + 4 * (b + 1) + e /\ Due(g) = a + 4 * b + e
    BY <1>6, <2>2 DEF Due
  <2>4. a \in Nat /\ b \in Nat /\ e \in Nat
    BY RestOfRound, CountsAreNat DEF Counted, Timed
  <2> HIDE DEF a, b, e
  <2>5. QED
    BY <2>3, <2>4
<1>9. QED
  BY <1>6, <1>7, <1>8 DEF Decides, k

\* A card played is due, and a player that has decided does not play again: together one
\* action less.
LEMMA PlaysNear ==
    ASSUME BookInv, Timed(game), NEW p \in Players, PlayCard(p) \/ Pass(p)
    PROVE  Nears(game', game.round, StepsLeft(game) - 1)
<1>1. Counted(game)
  BY BooksCount
<1>2. game.phase.type = "Play" /\ p \in Undecided(game)
  BY DEF PlayCard, Pass, Playing, Undecided
<1>3. PICK k : Decides(game, k, p) /\ game' = AfterPlay(k)
  <2>1. CASE Pass(p)
    BY <1>1, <2>1, PassDecides DEF Pass
  <2>2. CASE PlayCard(p)
    <3>1. PICK c \in game.hand[p] :
            game' = AfterPlay([game EXCEPT !.hand[p] = @ \ {c}, !.played[p] = c])
      BY <2>2 DEF PlayCard
    <3>2. game.played[p] = None
      BY <2>2 DEF PlayCard, Playing
    <3>3. Decides(game, [game EXCEPT !.hand[p] = @ \ {c}, !.played[p] = c], p)
      BY <1>1, <3>2, PlayDecides
    <3>4. QED
      BY <3>1, <3>3
  <2>3. QED
    BY <2>1, <2>2
<1> DEFINE u == Cardinality(Undecided(game))
           d == Due(game)
<1>4. u \in Nat \ {0} /\ Cardinality(Undecided(k)) = u - 1
  <2>1. Cardinality(Undecided(game) \ {p}) = u - 1 /\ u \in Nat /\ u # 0
    BY <1>2, CountsAreNat, FS_RemoveElement, FS_EmptySet
  <2>2. QED
    BY <1>3, <2>1 DEF Decides
<1>5. d \in Nat /\ StepsLeft(game) = d + 5 * u
  <2>1. Plays(game) = 5 * u /\ Spent(game) = 0
    BY <1>2 DEF Plays, Spent
  <2>2. d \in Nat /\ Plays(game) \in Nat /\ StepsLeft(game) = d + Plays(game) - Spent(game)
    BY StepsAre
  <2> HIDE DEF d, u
  <2>3. QED
    BY <1>4, <2>1, <2>2
<1>6. Due(k) \in {d, d + 4} /\ Counted(k) /\ k.round = game.round /\ k.phase = game.phase
  BY <1>3 DEF Decides
<1> HIDE DEF u, d
<1>7. CASE game' = NextActor(k)
  <2>1. Nears(game', game.round, Due(k))
    BY <1>6, <1>7, NextActorNears
  <2>2. Due(k) \in Int /\ StepsLeft(game) - 1 \in Int /\ Due(k) <= StepsLeft(game) - 1
    BY <1>4, <1>5, <1>6
  <2>3. QED
    BY <2>1, <2>2, NearsMore
<1>8. CASE game' = k
  <2>1. Plays(k) = 5 * (u - 1) /\ Spent(k) = 0
    BY <1>2, <1>4, <1>6 DEF Plays, Spent
  <2>2. StepsLeft(k) = Due(k) + Plays(k) - Spent(k) /\ Timed(k)
    BY <1>6, StepsAre DEF Counted
  <2>3. StepsLeft(k) \in 0..(StepsLeft(game) - 1)
    BY <1>4, <1>5, <1>6, <2>1, <2>2
  <2>4. QED
    BY <1>8, <2>2, <2>3 DEF Nears
<1>9. QED
  BY <1>3, <1>7, <1>8 DEF AfterPlay

\* One that is chosen, respawns or attacks a hero spends an action of its card.
LEMMA AskedNear ==
    ASSUME UnitsInv, BookInv, Timed(game), NEW p \in Players,
           ChooseActor(p) \/ Respawn(p) \/ AttackHero(p)
    PROVE  Nears(game', game.round, StepsLeft(game) - 1)
<1>1. WellMade(game) /\ game.hero \in [Players -> Hexes \union {Nowhere}]
  BY DEF UnitsInv, GameInv, Placed, HeroesPlaced
<1>2. Left(game) # {}
  <2>1. ActorsOf(game) \subseteq Left(game)
    BY DEF BookInv, GameInv, Asked
  <2>2. p \in ActorsOf(game)
    BY DEF ChooseActor, Respawn, AttackHero, OnBoard, Acting, ActorsOf
  <2>3. QED
    BY <2>1, <2>2
<1>3. /\ game'.turn = game.turn /\ game'.round = game.round /\ game'.passed = game.passed
      /\ game'.played = game.played /\ game'.level = game.level /\ game'.owed = game.owed
  BY <1>1 DEF ChooseActor, Respawn, AttackHero, Place, WellMade, Fields
<1>4. Plays(game) = 0 /\ Plays(game') = 0 /\ Spent(game') >= Spent(game) + 1
  <2>1. CASE ChooseActor(p)
    <3>1. game.phase.type = "ChooseActor" /\ game'.phase = [type |-> "Act", player |-> p]
      BY <1>1, <2>1 DEF ChooseActor, WellMade, Fields
    <3>2. Plays(game) = 0 /\ Plays(game') = 0 /\ Spent(game) = 0 /\ Spent(game') \in {1, 2}
      BY <3>1 DEF Plays, Spent
    <3>3. QED
      BY <3>2
  <2>2. CASE Respawn(p)
    <3>1. PICK h \in Hexes : game' = [game EXCEPT !.hero[p] = h]
      <4>1. PICK h \in RespawnSpaces(game, Team[p]) : game' = [game EXCEPT !.hero[p] = h]
        BY <2>2 DEF Respawn, Place
      <4>2. h \in Hexes
        BY CatalogAssumption, BoardAssumption DEF RespawnSpaces, EmptySpaces, SpacesIn
      <4>3. QED
        BY <4>1, <4>2
    <3>2. game'.phase = game.phase /\ game'.hero[p] = h /\ h # Nowhere
      BY <1>1, <3>1, CatalogAssumption DEF WellMade, Fields
    <3>3. /\ game.phase.type = "Act" /\ game.phase.player = p /\ game.hero[p] = Nowhere
      BY <2>2 DEF Respawn, Acting
    <3>4. Plays(game) = 0 /\ Plays(game') = 0 /\ Spent(game) = 1 /\ Spent(game') = 2
      BY <3>2, <3>3 DEF Plays, Spent
    <3>5. QED
      BY <3>4
  <2>3. CASE AttackHero(p)
    <3>1. /\ game.phase.type = "Act" /\ game.phase.player = p /\ game.hero[p] # Nowhere
          /\ game'.phase.type = "Defend"
      BY <1>1, <2>3 DEF AttackHero, OnBoard, Acting, WellMade, Fields
    <3>2. Plays(game) = 0 /\ Plays(game') = 0 /\ Spent(game) = 2 /\ Spent(game') = 3
      BY <3>1 DEF Plays, Spent
    <3>3. QED
      BY <3>2
  <2>4. QED
    BY <2>1, <2>2, <2>3
<1>5. Timed(game') /\ Due(game') = Due(game) /\ Left(game') = Left(game)
  BY <1>3 DEF Timed, Due, Left, Levels
<1>6. /\ Due(game) >= 4 /\ Due(game) \in Nat /\ Spent(game') \in 0..3 /\ Spent(game) \in 0..3
      /\ StepsLeft(game) = Due(game) + Plays(game) - Spent(game)
      /\ StepsLeft(game') = Due(game') + Plays(game') - Spent(game')
  BY <1>2, <1>5, StepsAre
<1>7. StepsLeft(game') \in 0..(StepsLeft(game) - 1)
  BY <1>4, <1>5, <1>6
<1>8. QED
  BY <1>5, <1>7 DEF Nears

\* An action in the Act or the Defend phase spends at most three before its card is gone.
LEMMA CardNears ==
    ASSUME NEW g, NEW h, Timed(g), g.phase.type \in {"Act", "Defend"}, NEW n \in Nat,
           n <= Due(g), Nears(h, g.round, n - 4)
    PROVE  Nears(h, g.round, StepsLeft(g) - 1)
<1>1. Due(g) \in Nat /\ Spent(g) \in 0..3 /\ StepsLeft(g) = Due(g) + Plays(g) - Spent(g)
  BY StepsAre
<1>2. Plays(g) = 0
  BY DEF Plays
<1>3. n - 4 \in Int /\ StepsLeft(g) - 1 \in Int /\ n - 4 <= StepsLeft(g) - 1
  BY <1>1, <1>2
<1>4. QED
  BY <1>3, NearsMore

\* Moving or holding ends the action.
LEMMA MovesNear ==
    ASSUME BookInv, Timed(game), NEW p \in Players, Move(p) \/ FastTravel(p) \/ Hold(p)
    PROVE  Nears(game', game.round, StepsLeft(game) - 1)
<1>1. Counted(game) /\ WellMade(game) /\ game.phase.type = "Act" /\ p \in Left(game)
  BY BooksCount DEF Counted, Move, FastTravel, Hold, OnBoard, Acting, Left
<1>2. PICK k : /\ Counted(k) /\ k.round = game.round /\ Left(k) = Left(game)
               /\ Due(k) = Due(game) /\ game' = FinishAction(k, p)
  <2>1. CASE Hold(p)
    BY <1>1, <2>1 DEF Hold
  <2>2. CASE Move(p) \/ FastTravel(p)
    <3>1. PICK h : game' = FinishAction([game EXCEPT !.hero[p] = h], p)
      BY <2>2 DEF Move, FastTravel, Place
    <3> DEFINE k == [game EXCEPT !.hero[p] = h]
    <3>2. Changes(game, k, {"hero"})
      BY <1>1 DEF Changes, WellMade, Fields
    <3>3. game' = FinishAction(k, p)
      BY <3>1
    <3> HIDE DEF k
    <3>4. WellMade(k) /\ k.passed = game.passed /\ k.played = game.played
      BY <1>1, <3>2, StaysWellMade DEF Changes, Fields, Made
    <3>5. Changes(game, k, {"hero", "hand", "played", "resolved", "discard", "passed"})
      BY <3>2 DEF Changes
    <3>6. /\ Counted(k) /\ k.turn = game.turn /\ k.round = game.round
          /\ Levels(k) = Levels(game)
      BY <1>1, <3>4, <3>5, StaysCounted DEF Timed
    <3>7. QED
      BY <3>3, <3>4, <3>6 DEF Due, Left
  <2>3. QED
    BY <2>1, <2>2
<1>3. Nears(game', game.round, Due(game) - 4)
  BY <1>1, <1>2, FinishNears
<1>4. Due(game) \in Nat /\ Due(game) <= Due(game)
  <2>1. Due(game) \in Nat
    BY StepsAre
  <2>2. QED
    BY <2>1
<1>5. game.phase.type \in {"Act", "Defend"}
  BY <1>1
<1>6. QED
  BY <1>3, <1>4, <1>5, CardNears

\* Coins and the push of a lane are not counted.
LEMMA AttackNears ==
    ASSUME BookInv, Timed(game), NEW p \in Players, AttackMinion(p)
    PROVE  Nears(game', game.round, StepsLeft(game) - 1)
<1>1. /\ Counted(game) /\ WellMade(game) /\ Alive(game) /\ Ledger(game) /\ ~IsOver(game)
      /\ ~Panicked(game) /\ game.phase.type = "Act" /\ p \in Left(game)
  <2>1. Counted(game) /\ WellMade(game) /\ Alive(game) /\ Ledger(game)
    BY BooksCount DEF BookInv, Booked, Counted
  <2>2. game.phase.type = "Act" /\ p \in Left(game)
    BY DEF AttackMinion, OnBoard, Acting, Left
  <2>3. QED
    BY <2>1, <2>2 DEF IsOver, Panicked
<1>2. PICK m \in game.minions : game' = FinishAction(DefeatMinion(game, m, p), p)
  BY DEF AttackMinion
<1> DEFINE k == DefeatMinion(game, m, p)
<1>3. /\ WellMade(k) /\ Alive(k) /\ (IsOver(k) \/ k.phase = game.phase)
      /\ Changes(game, k, {"coins", "minions", "lane", "waves", "phase"})
  BY <1>1, DefeatMinionPushes
<1>4. Ledger(k)
  BY <1>1, DefeatMinionBooks
<1>5. game' = FinishAction(k, p)
  BY <1>2
<1> HIDE DEF k
<1>6. /\ k.turn = game.turn /\ k.round = game.round /\ k.passed = game.passed
      /\ k.played = game.played /\ k.level = game.level /\ k.owed = game.owed
  BY <1>3 DEF Changes, Fields
<1>7. Counted(k)
  <2>1. ~Panicked(k)
    BY <1>1, <1>3 DEF IsOver, Panicked
  <2>2. QED
    BY <1>3, <1>4, <1>6, <2>1 DEF Counted, Timed, Ledger
<1>8. Left(k) = Left(game) /\ Due(k) = Due(game)
  BY <1>6 DEF Left, Levels, Due
<1>9. Nears(game', game.round, Due(game) - 4)
  BY <1>1, <1>5, <1>6, <1>7, <1>8, FinishNears
<1>10. Due(game) \in Nat
  BY StepsAre
<1>11. QED
  BY <1>1, <1>9, <1>10, CardNears

\* The fallen hero's card is resolved without it.
LEMMA DefeatHeroResolves ==
    ASSUME NEW g, WellMade(g), NEW defender \in Players, NEW attacker \in Players
    PROVE  LET h == DefeatHero(g, defender, attacker) IN
           /\ Changes(g, h, {"hero", "resolved", "played", "coins", "lives", "phase"})
           /\ h.played = [g.played EXCEPT ![defender] = None]
<1> DEFINE team == Team[defender]
           away == [g EXCEPT !.hero[defender] = Nowhere]
           fallen == Resolve(away, defender)
           level == g.level[defender]
           Pay(p) == IF p = attacker THEN level
                     ELSE IF Team[p] = Team[attacker] THEN AssistCoins(level) ELSE 0
           left == Max({0, g.lives[team] - LowestTier(fallen, defender)})
           paid == [fallen EXCEPT !.coins = [p \in Players |-> U8(@[p] + Pay(p))],
                                  !.lives[team] = left]
           over == Over(paid, Team[attacker], "no lives left")
           h == DefeatHero(g, defender, attacker)
<1>1. WellMade(away) /\ Changes(g, away, {"hero"})
  <2>1. Changes(g, away, {"hero"})
    BY DEF WellMade, Fields, Changes
  <2> HIDE DEF away
  <2>2. QED
    BY <2>1, StaysWellMade DEF Changes, Fields, Made
<1> HIDE DEF away
<1>2. /\ Changes(away, fallen, {"resolved", "played"})
      /\ fallen.played = [away.played EXCEPT ![defender] = None]
  BY <1>1, ResolveKeeps
<1>3. h = IF left = 0 THEN over ELSE paid
  BY <1>1 DEF DefeatHero, away
<1> HIDE DEF fallen, h, left, team
<1>4. Changes(fallen, paid, {"coins", "lives"})
  BY <1>2 DEF Fields, Changes
<1> HIDE DEF paid
<1>5. Changes(paid, over, {"phase"})
  BY <1>4 DEF Over, Fields, Changes
<1> HIDE DEF over
<1>6. /\ Changes(g, h, {"hero", "resolved", "played", "coins", "lives", "phase"})
      /\ h.played = [g.played EXCEPT ![defender] = None]
  BY <1>1, <1>2, <1>3, <1>4, <1>5 DEF Changes, Fields
<1>7. QED
  BY <1>6 DEF h

\* No more is due when no card more is left.
LEMMA DueFalls ==
    ASSUME NEW g, NEW k, Timed(g), k.turn = g.turn, Left(k) \subseteq Left(g), Levels(k) = Levels(g)
    PROVE  Due(k) \in Nat /\ Due(k) <= Due(g)
<1> DEFINE a == Rest(g.turn)
           b == Cardinality(Left(g))
           c == Cardinality(Left(k))
           e == Cardinality(Levels(g))
<1>1. c <= b
  BY CountsAreNat, FS_Subset
<1>2. a \in Nat /\ b \in Nat /\ c \in Nat /\ e \in Nat
  BY RestOfRound, CountsAreNat DEF Timed
<1>3. Due(g) = a + 4 * b + e /\ Due(k) = a + 4 * c + e
  BY DEF Due
<1> HIDE DEF a, b, c, e
<1>4. QED
  BY <1>1, <1>2, <1>3

\* Once the hero attacked has decided the attacker's card is resolved; if the hero falls,
\* so is its own.
LEMMA DefendsNear ==
    ASSUME BookInv, Timed(game), NEW p \in Players, Defend(p)
    PROVE  Nears(game', game.round, StepsLeft(game) - 1)
<1> DEFINE attacker == game.phase.attacker
<1>1. /\ Counted(game) /\ WellMade(game) /\ Alive(game) /\ Ledger(game) /\ Asked(game)
      /\ ~Panicked(game) /\ game.phase.type = "Defend" /\ game.phase.defender = p
  BY BooksCount DEF BookInv, GameInv, Booked, Defend
<1>2. /\ attacker \in Left(game) /\ attacker \in Players /\ Team[p] # Team[attacker]
      /\ game.hero[p] # Nowhere /\ ~IsOver(game)
  BY <1>1 DEF Asked, ActorsOf, Left, IsOver
<1>3. PICK card \in game.hand[p] \union {None} : game' = ResolveDefense(game, p, card)
  BY DEF Defend
<1> DEFINE spending == [game EXCEPT !.hand[p] = @ \ {card}, !.discard[p] = @ \union {card}]
           spent == IF card = None THEN game ELSE spending
           total == Max({0, Catalog[card].defense + ItemBonus(game, p, "Defense")
                              + DefenseModifiers(game, p)})
           holds == card # None /\ total >= game.phase.total
           fallen == DefeatHero(spent, p, attacker)
           after == IF holds THEN spent ELSE fallen
           next == [after EXCEPT !.phase = [type |-> "Act", player |-> attacker]]
<1>4. game' = IF IsOver(after) THEN after ELSE FinishAction(next, attacker)
  BY <1>2, <1>3 DEF ResolveDefense, Expect
<1>5. WellMade(spent) /\ Ledger(spent) /\ Changes(game, spent, {"hand", "discard"})
  <2>1. CASE card = None
    BY <1>1, <2>1 DEF Changes, WellMade
  <2>2. CASE card # None
    <3>1. card \in game.hand[p] /\ spent = spending
      BY <2>2
    <3>2. WellMade(spending) /\ Changes(game, spending, {"hand", "discard"})
      BY <1>1, <3>1, SpendKeeps
    <3>3. /\ spending.hand = [game.hand EXCEPT ![p] = @ \ {card}]
          /\ spending.discard = [game.discard EXCEPT ![p] = @ \union {card}]
      BY <1>1 DEF WellMade, Fields
    <3> HIDE DEF spending, spent
    <3>4. Ledger(spending)
      BY <1>1, <3>1, <3>2, <3>3, LedgerDiscard
    <3>5. QED
      BY <3>1, <3>2, <3>4
  <2>3. QED
    BY <2>1, <2>2
<1> HIDE DEF spent, holds, attacker
<1>6. /\ spent.lane = game.lane /\ spent.waves = game.waves /\ spent.lives = game.lives
      /\ spent.phase = game.phase
  BY <1>5 DEF Changes, Fields
<1>7. Alive(spent) /\ ~IsOver(spent) /\ ~Panicked(spent)
  BY <1>1, <1>2, <1>6 DEF Alive, IsOver, Panicked
<1>8. /\ WellMade(after) /\ Alive(after) /\ Ledger(after) /\ DOMAIN after = Fields
      /\ after.turn = game.turn /\ after.round = game.round /\ after.passed = game.passed
      /\ after.level = game.level /\ after.owed = game.owed
      /\ Left(after) \subseteq Left(game) /\ attacker \in Left(after)
  <2>1. /\ spent.turn = game.turn /\ spent.round = game.round /\ spent.passed = game.passed
        /\ spent.level = game.level /\ spent.owed = game.owed /\ spent.played = game.played
    BY <1>5 DEF Changes, Fields
  <2>2. CASE holds
    BY <1>2, <1>5, <1>7, <2>1, <2>2 DEF Left, WellMade
  <2>3. CASE ~holds
    <3>1. after = fallen
      BY <2>3
    <3>2. WellMade(fallen) /\ Alive(fallen)
      BY <1>2, <1>5, <1>7, DefeatHeroCosts
    <3>3. Ledger(fallen)
      BY <1>2, <1>5, DefeatHeroBooks
    <3>4. /\ Changes(spent, fallen, {"hero", "resolved", "played", "coins", "lives", "phase"})
          /\ fallen.played = [spent.played EXCEPT ![p] = None]
      BY <1>2, <1>5, DefeatHeroResolves
    <3> HIDE DEF after, fallen
    <3>5. /\ fallen.turn = game.turn /\ fallen.round = game.round
          /\ fallen.passed = game.passed /\ fallen.level = game.level /\ fallen.owed = game.owed
      BY <2>1, <3>4 DEF Changes, Fields
    <3>6. Left(fallen) \subseteq Left(game) /\ attacker \in Left(fallen)
      BY <1>1, <1>2, <2>1, <3>4 DEF Left, WellMade
    <3>7. QED
      BY <3>1, <3>2, <3>3, <3>5, <3>6 DEF WellMade
  <2>4. QED
    BY <2>2, <2>3
<1> HIDE DEF after
<1>9. CASE IsOver(after)
  BY <1>1, <1>4, <1>8, <1>9 DEF Nears, Timed, Counted
<1>10. CASE ~IsOver(after)
  <2>1. Changes(after, next, {"phase"}) /\ next.phase.type = "Act"
    BY <1>8 DEF Fields, Changes
  <2>2. game' = FinishAction(next, attacker)
    BY <1>4, <1>10
  <2> HIDE DEF next
  <2>3. /\ next.turn = game.turn /\ next.round = game.round /\ next.passed = game.passed
        /\ next.level = game.level /\ next.owed = game.owed /\ next.played = after.played
        /\ next.lane = after.lane /\ next.waves = after.waves /\ next.lives = after.lives
        /\ next.coins = after.coins
    BY <1>8, <2>1 DEF Changes, Fields
  <2>4. WellMade(next)
    BY <1>8, <2>1, StaysWellMade DEF Changes, Fields, Made
  <2>5. Alive(next) /\ ~Panicked(next)
    BY <1>8, <1>10, <2>1, <2>3 DEF Alive, IsOver, Panicked
  <2>6. Timed(next)
    BY <1>1, <2>3 DEF Timed, Counted
  <2>7. Counted(next)
    BY <1>8, <2>3, <2>4, <2>5, <2>6 DEF Counted, Ledger
  <2>8. Left(next) \subseteq Left(game) /\ attacker \in Left(next) /\ Levels(next) = Levels(game)
    BY <1>8, <2>3 DEF Left, Levels
  <2>9. Nears(game', game.round, Due(next) - 4)
    BY <2>2, <2>3, <2>7, <2>8, FinishNears
  <2>10. Due(next) \in Nat /\ Due(next) <= Due(game)
    BY <2>3, <2>8, DueFalls
  <2>11. QED
    BY <1>1, <2>9, <2>10, CardNears
<1>11. QED
  BY <1>9, <1>10

\* A hero is owed an upgrade only for a level it has, and none for the last.
LEMMA OwedFits ==
    ASSUME NEW g, WellMade(g), Ledger(g), NEW p \in Players
    PROVE  /\ g.owed[p] \in Nat /\ g.owed[p] < g.level[p] /\ g.owed[p] \in 0..(MaxLevel - 2)
           /\ g.level[p] \in 1..MaxLevel /\ MaxLevel \in Nat
<1> DEFINE n == Cardinality(g.items[p])
           level == g.level[p]
           owed == g.owed[p]
<1>1. level \in 1..MaxLevel /\ owed \in Nat /\ MaxLevel \in Nat
  BY CatalogAssumption DEF Ledger
<1>2. n \in Nat
  <2>1. IsFiniteSet(Deck[p]) /\ g.items[p] \subseteq Deck[p]
    BY CatalogAssumption DEF WellMade, Held
  <2>2. QED
    BY <2>1, FS_Subset, FS_CardinalityType
<1>3. n + owed = Min({level, MaxLevel - 1}) - 1
  BY DEF Ledger, Paid
<1>4. Min({level, MaxLevel - 1}) = IF level <= MaxLevel - 1 THEN level ELSE MaxLevel - 1
  <2>1. level \in Int /\ MaxLevel - 1 \in Int
    BY <1>1
  <2> HIDE DEF level
  <2>2. QED
    BY <2>1, MinOfTwo
<1> HIDE DEF n, level, owed
<1>5. owed \in Nat /\ owed < level /\ owed \in 0..(MaxLevel - 2) /\ level \in 1..MaxLevel
      /\ MaxLevel \in Nat
  BY <1>1, <1>2, <1>3, <1>4
<1>6. QED
  BY <1>5 DEF owed, level

\* An upgrade made is one less to make.
LEMMA UpgradesNear ==
    ASSUME BookInv, Timed(game), NEW p \in Players, Upgrade(p)
    PROVE  Nears(game', game.round, StepsLeft(game) - 1)
<1>1. /\ WellMade(game) /\ Ledger(game) /\ ~Panicked(game) /\ ~IsOver(game)
      /\ game.phase.type = "LevelUp" /\ game.owed[p] > 0
      /\ \A q \in Players : game.played[q] = None /\ game.resolved[q] = {} /\ game.discard[q] = {}
  BY DEF BookInv, GameInv, Booked, Banked, Asked, Upgrade, IsOver
<1>2. PICK out \in game.hand[p], take \in game.deck[p] :
        /\ ~Basic(out) /\ Catalog[take].color = Catalog[out].color
        /\ Catalog[take].tier = Catalog[out].tier + 1
        /\ game' = ContinueLevelUps(UpgradeCard(game, p, out, take))
  BY DEF Upgrade, UpgradeChoices
<1> DEFINE k == UpgradeCard(game, p, out, take)
<1>3. Changes(game, k, {"hand", "deck", "items", "owed"})
  BY <1>1, <1>2, LedgerUpgrade
<1>4. k.phase = game.phase
  BY <1>3 DEF Changes, Fields
<1>5. k.owed = [game.owed EXCEPT ![p] = @ - 1]
  <2> DEFINE siblings == {c \in game.deck[p] \ {take} :
                            /\ Catalog[c].color = Catalog[take].color
                            /\ Catalog[c].tier = Catalog[take].tier}
             sibling == CHOOSE c \in siblings : TRUE
             panic == [game EXCEPT !.phase = [type |-> "Panic"]]
             done == [game EXCEPT !.hand[p] = (@ \ {out}) \union {take},
                                  !.deck[p] = (@ \union {out}) \ {take, sibling},
                                  !.items[p] = @ \union {sibling},
                                  !.owed[p] = @ - 1]
  <2>1. k = IF siblings # {} THEN done ELSE panic
    BY DEF UpgradeCard, Expect
  <2>2. panic.phase.type = "Panic" /\ done.owed = [game.owed EXCEPT ![p] = @ - 1]
    BY <1>1 DEF WellMade, Fields
  <2> HIDE DEF k, siblings, panic, done
  <2>3. k = done
    BY <1>1, <1>4, <2>1, <2>2
  <2>4. QED
    BY <2>2, <2>3
<1>6. game' = ContinueLevelUps(k)
  BY <1>2
<1> HIDE DEF k
<1>7. /\ DOMAIN k = Fields /\ k.turn = game.turn /\ k.round = game.round
      /\ k.passed = game.passed /\ k.played = game.played /\ k.level = game.level
  BY <1>3 DEF Changes, Fields
<1>8. Nears(game', game.round, Due(k))
  <2>1. Timed(k) /\ ~IsOver(k) /\ ~Panicked(k)
    BY <1>1, <1>4, <1>7 DEF Timed, IsOver, Panicked
  <2>2. QED
    BY <1>6, <1>7, <2>1, LevelUpsNear
<1> DEFINE made == <<p, game.level[p] - game.owed[p] + 1>>
<1>9. made \in Levels(game) /\ Levels(k) \subseteq Levels(game) \ {made}
  <2>1. \A q \in Players : game.level[q] \in Int /\ game.owed[q] \in Int
    BY <1>1, OwedFits
  <2>2. /\ game.level[p] - game.owed[p] + 1 \in 1..MaxLevel
    BY <1>1, OwedFits
  <2>3. game.owed \in [Players -> Nat]
    BY <1>1 DEF Ledger
  <2>4. made \in Levels(game)
    BY <2>1, <2>2 DEF Levels
  <2>5. ASSUME NEW q \in Players, NEW l \in 1..MaxLevel, l > k.level[q] - k.owed[q]
        PROVE  l > game.level[q] - game.owed[q] /\ <<q, l>> # made
    BY <1>5, <1>7, <2>1, <2>3, <2>5
  <2> HIDE DEF made
  <2>6. QED
    BY <2>4, <2>5 DEF Levels
<1>10. Due(k) \in Nat /\ Due(game) \in Nat /\ Due(k) <= Due(game) - 1
  <2> DEFINE a == Rest(game.turn)
             b == Cardinality(Left(game))
             e == Cardinality(Levels(game))
             f == Cardinality(Levels(k))
  <2>1. f <= e - 1
    <3> HIDE DEF made
    <3>1. /\ IsFiniteSet(Levels(game) \ {made}) /\ Cardinality(Levels(game) \ {made}) = e - 1
      <4>1. IsFiniteSet(Levels(game))
        BY CountsAreNat
      <4>2. QED
        BY <1>9, <4>1, FS_RemoveElement
    <3>2. QED
      BY <1>9, <3>1, FS_Subset
  <2>2. Due(game) = a + 4 * b + e /\ Due(k) = a + 4 * b + f
    BY <1>7 DEF Due, Left
  <2>3. a \in Nat /\ b \in Nat /\ e \in Nat /\ f \in Nat
    BY RestOfRound, CountsAreNat DEF Timed
  <2> HIDE DEF a, b, e, f
  <2>4. QED
    BY <2>1, <2>2, <2>3
<1>11. StepsLeft(game) = Due(game)
  <2>1. Plays(game) = 0 /\ Spent(game) = 0
    BY <1>1 DEF Plays, Spent
  <2>2. QED
    BY <2>1, StepsAre
<1>12. Due(k) \in Int /\ StepsLeft(game) - 1 \in Int /\ Due(k) <= StepsLeft(game) - 1
  BY <1>10, <1>11
<1>13. QED
  BY <1>8, <1>12, NearsMore

\* A game whose actions can be counted.
RoundInv == UnitsInv /\ BookInv /\ Timed(game)

\* A game begins with its first round, its first turn and all of its waves.
LEMMA RoundInit ==
    ASSUME Init
    PROVE  Timed(game) /\ game.waves = Waves
<1> DEFINE fresh(coin) ==
        [hero |-> [p \in Players |-> StartingHex(p)], minions |-> {},
         hand |-> [p \in Players |-> StartingHand(p)], played |-> [p \in Players |-> None],
         resolved |-> [p \in Players |-> {}], discard |-> [p \in Players |-> {}],
         deck |-> [p \in Players |-> Deck[p] \ StartingHand(p)],
         items |-> [p \in Players |-> {}], ultimate |-> [p \in Players |-> {}],
         coins |-> [p \in Players |-> 0], level |-> [p \in Players |-> 1],
         passed |-> [p \in Players |-> FALSE], leveled |-> [p \in Players |-> FALSE],
         owed |-> [p \in Players |-> 0], lane |-> (Len(Lane) + 1) \div 2, round |-> 1, turn |-> 1,
         waves |-> Waves, lives |-> [team \in Teams |-> Lives],
         coin |-> coin, flip |-> FALSE, phase |-> [type |-> "Play"]]
<1>1. PICK coin \in Teams : game = RespawnMinions(fresh(coin))
  BY DEF Init
<1> DEFINE g == fresh(coin)
<1>2. /\ DOMAIN g = Fields /\ g.turn = 1 /\ g.round = 1 /\ g.waves = Waves
      /\ g.passed = [p \in Players |-> FALSE]
  BY DEF Fields
<1>3. game = RespawnMinions(g)
  BY <1>1
<1> HIDE DEF g
<1>4. /\ game.turn = 1 /\ game.round = 1 /\ game.waves = Waves
      /\ game.passed = [p \in Players |-> FALSE]
  BY <1>2, <1>3 DEF RespawnMinions, Fields
<1>5. game.turn \in 1..TurnsPerRound /\ game.round \in Nat
  BY <1>4, CatalogAssumption
<1>6. game.passed \in [Players -> BOOLEAN]
  BY <1>4
<1>7. QED
  BY <1>4, <1>5, <1>6 DEF Timed

\* Every action brings the end of the round nearer.
LEMMA RoundStep ==
    ASSUME RoundInv, NEW p \in Players, Act(p)
    PROVE  Nears(game', game.round, StepsLeft(game) - 1)
<1>1. UnitsInv /\ BookInv /\ Timed(game)
  BY DEF RoundInv
<1>2. QED
  BY <1>1, PlaysNear, AskedNear, MovesNear, AttackNears, DefendsNear, UpgradesNear DEF Act

\* The turn stays within the round and the round is a number, at every moment of the game
\* (turn and round of Game, game.rs).
THEOREM RoundsAreTimed == Spec => []RoundInv
<1> DEFINE T == Timed(game)
<1>1. Init => T
  BY RoundInit
<1>2. T /\ UnitsInv /\ BookInv /\ [Next]_game => T'
  <2> SUFFICES ASSUME T, UnitsInv, BookInv, [Next]_game
               PROVE  T'
    OBVIOUS
  <2>1. ASSUME NEW p \in Players, Act(p)
        PROVE  T'
    <3>1. Nears(game', game.round, StepsLeft(game) - 1)
      BY <2>1, RoundStep DEF RoundInv
    <3>2. Timed(game')
      BY <3>1 DEF Nears
    <3>3. QED
      BY <3>2
  <2>2. CASE UNCHANGED game
    BY <2>2
  <2>3. QED
    BY <2>1, <2>2 DEF Next, Stop
<1> HIDE DEF T
<1>3. Spec => []T
  BY <1>1, <1>2, UnitsInPlace, BooksBalance, PTL DEF Spec
<1>4. T /\ UnitsInv /\ BookInv => RoundInv
  BY DEF T, RoundInv
<1>5. QED
  BY <1>3, <1>4, UnitsInPlace, BooksBalance, PTL

\* Whatever the players do, every action ends the match or the round or leaves fewer actions
\* to its end: they cannot act, defend, respawn and upgrade for ever within one (apply and
\* the turn machine of game.rs and round.rs).
THEOREM RoundsComeToAnEnd == Spec => RoundsEnd
<1> DEFINE A == IsOver(game') \/ game'.round > game.round
                  \/ StepsLeft(game') \in 0..(StepsLeft(game) - 1)
<1>1. RoundInv /\ [Next]_game => [A]_game
  <2> SUFFICES ASSUME RoundInv, [Next]_game, ~UNCHANGED game
               PROVE  A
    OBVIOUS
  <2>1. PICK p \in Players : Act(p)
    BY DEF Next, Stop
  <2>2. Nears(game', game.round, StepsLeft(game) - 1) /\ game.round \in Nat
    BY <2>1, RoundStep DEF RoundInv, Timed
  <2>3. QED
    BY <2>2 DEF Nears
<1> HIDE DEF A
<1>2. Spec => [][A]_game
  BY <1>1, RoundsAreTimed, PTL DEF Spec
<1>3. QED
  BY <1>2 DEF RoundsEnd, A

-----------------------------------------------------------------------------
(* Types *)

\* No action gives a wave back.
LEMMA WavesFall ==
    ASSUME NEW g, NEW h, g.waves \in Nat, Advanced(g, h)
    PROVE  h.waves <= g.waves
<1>1. ASSUME NEW k, NEW l, k.waves \in Int, Moves(k, l)
      PROVE  l.waves \in Int /\ l.waves <= k.waves
  BY <1>1 DEF Moves, Stays, Pushes
<1>2. CASE Falls(g, h)
  <2>1. h.waves = g.waves \/ Moves(g, h)
    BY <1>2 DEF Falls
  <2>2. QED
    BY <1>1, <2>1
<1>3. CASE Twice(g, h)
  <2>1. PICK k : Moves(g, k) /\ Moves(k, h)
    BY <1>3 DEF Twice
  <2>2. k.waves \in Int /\ k.waves <= g.waves
    BY <1>1, <2>1
  <2>3. h.waves \in Int /\ h.waves <= k.waves
    BY <1>1, <2>1, <2>2
  <2>4. QED
    BY <2>2, <2>3
<1>4. QED
  BY <1>2, <1>3 DEF Advanced

\* For any board, catalog and length of the game its fields keep their types: coins fit their
\* byte, a hero is never owed more upgrades than its hand can go through, and the counters of
\* waves and lives never go below zero (the u8 fields of Game and Player, game.rs).
THEOREM TypesHold == Spec => []TypeOK
<1> DEFINE W == game.waves \in 0..Waves
<1>1. Waves \in Nat
  BY LengthAssumption
<1>2. Init => W
  BY <1>1, RoundInit
<1>3. W /\ UnitsInv /\ [Next]_game => W'
  <2> SUFFICES ASSUME W, UnitsInv, [Next]_game
               PROVE  W'
    OBVIOUS
  <2>1. ASSUME NEW p \in Players, Act(p)
        PROVE  W'
    <3>1. Advanced(game, game')
      BY <2>1, GameStep DEF UnitsInv
    <3>2. game'.waves \in Nat
      BY <3>1 DEF Advanced, WellMade
    <3>3. game'.waves <= game.waves
      BY <3>1, WavesFall
    <3>4. QED
      BY <1>1, <3>2, <3>3
  <2>2. CASE UNCHANGED game
    BY <2>2
  <2>3. QED
    BY <2>1, <2>2 DEF Next, Stop
<1> HIDE DEF W
<1>4. Spec => []W
  BY <1>2, <1>3, UnitsInPlace, PTL DEF Spec
<1>5. W /\ RoundInv => TypeOK
  <2> SUFFICES ASSUME W, RoundInv
               PROVE  TypeOK
    OBVIOUS
  <2>1. WellMade(game) /\ Ledger(game) /\ Placed(game) /\ Timed(game)
    BY DEF RoundInv, BookInv, GameInv, Booked, UnitsInv
  <2>2. game.hero \in [Players -> Places]
    BY <2>1 DEF Placed, HeroesPlaced, Places
  <2>3. \A m \in game.minions : m.team \in Teams /\ m.at \in Hexes \ Terrain
    BY <2>1 DEF Placed, MinionsPlaced, Minions
  <2>4. \A p \in Players : game.coins[p] \in 0..255 /\ game.level[p] \in 1..MaxLevel
    BY <2>1 DEF Ledger
  <2>5. game.owed \in [Players -> 0..(MaxLevel - 2)]
    <3>1. game.owed \in [Players -> Nat]
      BY <2>1 DEF Ledger
    <3>2. \A p \in Players : game.owed[p] \in 0..(MaxLevel - 2)
      BY <2>1, OwedFits
    <3>3. QED
      BY <3>1, <3>2
  <2>6. /\ game.lane \in 1..Len(Lane) /\ game.lives \in [Teams -> 0..Lives]
        /\ game.coin \in Teams
    BY <2>1 DEF WellMade
  <2>7. game.turn \in 1..TurnsPerRound
    BY <2>1 DEF Timed
  <2>8. QED
    BY <2>2, <2>3, <2>4, <2>5, <2>6, <2>7 DEF TypeOK, W
<1>6. QED
  BY <1>4, <1>5, RoundsAreTimed, PTL
=============================================================================

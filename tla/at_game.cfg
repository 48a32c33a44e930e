SPECIFICATION Spec
CONSTANTS
    None = None
    Nowhere = Nowhere
    Hexes <- MCHexes
    ZoneOf <- MCZoneOf
    Terrain = {}
    Lane <- MCLane
    HeroSpawns <- MCHeroSpawns
    Spawns <- MCSpawns
    Seats = 3
    Team <- MCTeam
    Catalog <- MCCatalog
    Deck <- MCDeck
    TurnsPerRound = 2
    MaxLevel = 3
    Waves = 3
    Lives = 3
    MaxRound = 3
INVARIANTS
    TypeOK
    NeverStuck
    CardsAccounted
    LevelsPaidOut
    TurnOrder
    LaneHeld
PROPERTIES
    HeavyFallsLast
    PlaysLaneWar
    RoundsEnd

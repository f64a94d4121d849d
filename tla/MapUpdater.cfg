SPECIFICATION FairSpec
CONSTANTS
    dungeon = dungeon
    raid = raid
    d1 = d1
    d2 = d2
    r1 = r1
    Map = {field, dungeon, raid}
    Instance = {d1, d2, r1}
    MapOf <- MCMapOf
    Worker = {w1, w2}
    NoMap = NoMap
    Capacity = 2
INVARIANTS
    PendingCount
    BarrierHolds
    RequestsAlive
    OneUpdatePerTick
PROPERTIES
    EveryMapUpdated
    ImplementsBarrier
    TickEnds
    ShutdownEnds

\* Two Stores append to two logs, dropped and created again meanwhile.
SPECIFICATION CacheSpec
CONSTANTS
    s1 = s1
    g1 = g1
    g2 = g2
    k1 = k1
    k2 = k2
    a = a
    b = b
    LogIDs = {a, b}
    Batches <- EachAlone
    Sessions = {s1}
    Stores = {k1, k2}
    Goroutines = {g1, g2}
    MaxOrdinal = 2
    Room = 1
    MaxGen = 2
VIEW Future
SYMMETRY Alike
INVARIANTS
    StatementNamesOwnTables
    LogHoldsItsOwn

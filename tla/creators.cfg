\* Two creators that may wait for one another, and a Drop beside them.
SPECIFICATION FairSpec
CONSTANTS
    s1 = s1
    s2 = s2
    s3 = s3
    a = a
    b = b
    LogIDs = {a, b}
    Batches <- BothOrders
    Sessions = {s1, s2}
    MaxOrdinal = 5
    Room = 4
    MaxGen = 2
INVARIANTS
    OrdinalInv
    TablesMatchRows
PROPERTIES
    NilMeansAllExist
    CreatorsReturn

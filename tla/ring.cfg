\* The ring turns twice under appends, trims, reclaims and reads.
SPECIFICATION Spec
CONSTANTS
    c1 = c1
    c2 = c2
    Calls = {c1, c2}
    Epochs = {1, 2}
    Batches = {1, 2}
    MaxSeqno = 3
    Trims = {1, 2}
    Limits = {1, 3}
    RotateAfter = 1
SYMMETRY Sessions
VIEW Future
INVARIANTS
    RingInv
    EpochsNeverFall
    EveryEntryOnce
    NoDeadlock
    TableLockInv
PROPERTIES
    ImplementsFencedLog
    ReadIsARun
    ReadMissesOnlyTrimmed

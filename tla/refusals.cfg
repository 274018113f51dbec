\* Every refusal and every argument check, two sessions.
SPECIFICATION Spec
CONSTANTS
    c1 = c1
    c2 = c2
    Calls = {c1, c2}
    Epochs = {1, 2}
    Batches = {0, 1, 2}
    MaxSeqno = 2
    Trims = {0, 1}
    Limits = {0}
    RotateAfter = 1
SYMMETRY Sessions
INVARIANTS
    TypeOK
    RowLockInv
    NilIsDurable
    LostWriterIsFenced
    RefusalOutranks
    FenceIsExplained

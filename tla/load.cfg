\* A run and its successor, every call of which may be lost or come late.
SPECIFICATION Spec
CONSTANTS
    w1 = w1
    w2 = w2
    Runs = {w1, w2}
    EpochOf <- GrowingEpochs
    Batch = 1
    Retain = 1
    Stride = 1
    MaxSeqno = 3
    MaxFills = 2
    RotateAfter = 1
CHECK_DEADLOCK FALSE
INVARIANTS
    NoGap
    AckIsForOwnBatch
    RetainedIsKept
    RunsDoNotInterleave

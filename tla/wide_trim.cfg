\* A trim to a seqno in the upper half of the word does nothing.
SPECIFICATION WidthSpec
CONSTANTS
    W = 4
    Epochs = {0, 1, 7, 8, 15}
    Batches = {1, 2}
    MaxLast = 4
    RotateAfter = 2
INVARIANTS
    TrimRemoves

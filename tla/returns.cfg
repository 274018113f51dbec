\* Every call ends, two sessions.
SPECIFICATION FairSpec
CONSTANTS
    c1 = c1
    c2 = c2
    Calls = {c1, c2}
    Epochs = {1}
    Batches = {1}
    MaxSeqno = 2
    Trims = {1}
    Limits = {1}
    RotateAfter = 1
PROPERTIES
    CallsReturn

\* A reclaim waits for the registry row longer than its lock_timeout.
SPECIFICATION Spec
CONSTANTS
    c1 = c1
    c2 = c2
    Calls = {c1, c2}
    Epochs = {1}
    Batches = {1}
    MaxSeqno = 1
    Trims = {1}
    Limits = {}
    RotateAfter = 1
SYMMETRY Sessions
INVARIANTS
    ReclaimIsBestEffort

\* A read loses a half of the ring between its two statements.
SPECIFICATION Spec
CONSTANTS
    c1 = c1
    c2 = c2
    Calls = {c1, c2}
    Epochs = {1}
    Batches = {1}
    MaxSeqno = 3
    Trims = {1, 2}
    Limits = {1}
    RotateAfter = 1
SYMMETRY Sessions
VIEW Future
PROPERTIES
    ShortReadMeansTheEnd

\* Two writers and the reporter; any call may fail and any log be lost.
SPECIFICATION FairSpec
CONSTANTS
    Writers = {w1, w2}
    Batch = 1
    MaxRows = 2
    MaxSlots = 2
    MaxReports = 1
CHECK_DEADLOCK FALSE
INVARIANTS
    TotalsAreExact
    FailuresAreCounted
    WindowsNeverWrap
    ErrorTellsWhatHappened
PROPERTIES
    RunEnds

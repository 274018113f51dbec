\* Chunks, words, the pacer, the histogram and the sizes, one at a time.
SPECIFICATION Spec
CONSTANTS
    MaxEntryChunk = 2
    ChunkBits = 3
    Lengths = {0, 1, 2, 3, 4, 5, 6, 7, 8, 9}
    MaxBatch = 2
    W = 4
    Epochs = {0, 1, 7, 8, 15}
    Batches = {1, 2}
    MaxLast = 4
    RotateAfter = 2
    Interval = 2
    Catchup = 3
    MaxTime = 13
    MaxSlots = 6
    Octaves = 6
    Quantiles = {50, 99, 100}
    Latencies <- Durations
    MaxSamples = 3
    MaxReadings = 2
    IntMax = 127
    Units = {1, 4}
    maxPayload = 8
    corpusMin = 8
    Numbers <- SomeNumbers
    Weights = {0, 1, 2, 127}
    NaN = NaN
    Absent = Absent
    MaxFields = 3
CHECK_DEADLOCK FALSE
INVARIANTS
    RoundTrip
    WordsAgree
    AnswersAreTrue
    EverySlotIsAccounted
    BurstIsBounded
    QuantilesNameTheSamples
    DrawnAsAsked
    PlanTellsTheLoad
PROPERTIES
    LogOfWords
    CancelEndsTheWait

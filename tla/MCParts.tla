-------------------------------- MODULE MCParts --------------------------------
(***************************************************************************)
(* The parts that have no caller beside them: chunks, words, the pacer, the *)
(* histogram and the sizes.  No two of them share a variable, so a run that *)
(* moves one of them and leaves the others where they start meets every     *)
(* state each of them can be in.                                            *)
(***************************************************************************)
EXTENDS Width, Pacer, Histogram, Sizes

VARIABLE part  \* the one that moves

vars == <<part, chunkVars, widthVars, pacerVars, histogramVars, sizesVars>>

\* A clock that stepped back, the values that are their own buckets, the first
\* of an octave, the last of one, and the largest.
Durations == {-1, 0, 3, 4, 8, 31, 32, 63}

\* A negative number, nothing, a row full, two rows with a unit, and one whose
\* product with a unit wraps to nothing.
SomeNumbers == {-1, 0, 2, 64}

\* Where the batch and the pacer of a run of another part start.
AtRest ==
    /\ part = "chunks" \/ payloads = <<<<>>>>
    /\ part = "pacer" \/ due = 0

Init ==
    /\ part \in {"chunks", "words", "pacer", "histogram", "sizes"}
    /\ ChunksInit /\ WidthInit /\ PacerInit /\ HistogramInit /\ SizesInit
    /\ AtRest

MoveChunks ==
    /\ part = "chunks" /\ ChunksNext
    /\ UNCHANGED <<part, widthVars, pacerVars, histogramVars, sizesVars>>

MoveWords ==
    /\ part = "words" /\ WidthNext
    /\ UNCHANGED <<part, chunkVars, pacerVars, histogramVars, sizesVars>>

Pacing(A) ==
    /\ part = "pacer" /\ A
    /\ UNCHANGED <<part, chunkVars, widthVars, histogramVars, sizesVars>>

MovePacer == Pacing(PacerNext)

MoveHistogram ==
    /\ part = "histogram" /\ HistogramNext
    /\ UNCHANGED <<part, chunkVars, widthVars, pacerVars, sizesVars>>

MoveSizes ==
    /\ part = "sizes" /\ SizesNext
    /\ UNCHANGED <<part, chunkVars, widthVars, pacerVars, histogramVars>>

Next == MoveChunks \/ MoveWords \/ MovePacer \/ MoveHistogram \/ MoveSizes

\* Fairness is the pacer's alone.
Spec == Init /\ [][Next]_vars /\ WF_vars(Pacing(PacerStep))

================================================================================

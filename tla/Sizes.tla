--------------------------------- MODULE Sizes ---------------------------------
(***************************************************************************)
(* The payload sizes of the load tool: parseSizes reads the classes of a    *)
(* -sizes flag, plan announces the load they ask for, and every entry's     *)
(* length is drawn from them and cut out of the corpus.                     *)
(*                                                                         *)
(* A field of the flag is what its parts parse as, and the integers keep    *)
(* the word of the code's int, scaled down with the units and the limits.   *)
(* From Chunks it has the bytes of a row and the rows an entry becomes.      *)
(***************************************************************************)
EXTENDS Chunks, Functions

CONSTANTS
    IntMax,         \* the largest int
    Units,          \* 1 and what k and m stand for
    maxPayload,     \* the most bytes of an entry
    corpusMin,      \* the least bytes of the corpus
    Numbers,        \* the numbers a size may be written with
    Weights,        \* the numbers a weight may be written with
    NaN,            \* a part that is no number, or one that does not fit an int
    Absent,         \* the weight of a class that has none
    MaxFields       \* bound: the classes of a flag

ASSUME SizesAssumption ==
    /\ IntMax \in Nat /\ Units \subseteq 1 .. IntMax /\ maxPayload \in 1 .. IntMax
    /\ corpusMin \in 1 .. IntMax
    /\ NaN \notin Int /\ Absent \notin Int /\ NaN # Absent
    /\ MaxFields \in Nat
    /\ Numbers \subseteq Int /\ \A n \in Numbers : n <= IntMax
    /\ Weights \subseteq Int /\ \A n \in Weights : n <= IntMax

VARIABLES
    outcome,   \* "parsing", "refused" or "parsed"
    fields,    \* the fields read so far
    classes,   \* the classes
    cum,       \* the running weight totals
    total,     \* the last of them
    entry      \* the entry drawn, as a window into the corpus

sizesVars == <<outcome, fields, classes, cum, total, entry>>

\* An int that overflows wraps.
word(n) == ((n + IntMax + 1) % (2 * IntMax + 2)) - IntMax - 1

\* No entry yet.
None == [off |-> 0, n |-> -1]

Field == [size : Numbers \union {NaN}, unit : Units, weight : Weights \union {NaN, Absent}]

\* Compared before the multiplication.
BytesAdmitted(f) == f.size <= maxPayload \div f.unit

parseBytesOK(f) == f.size # NaN /\ f.size >= 0 /\ BytesAdmitted(f)

parseBytes(f) == word(f.size * f.unit)

weightOf(f) == IF f.weight = Absent THEN 1 ELSE f.weight

weightOK(f) == f.weight # NaN /\ weightOf(f) > 0

-----------------------------------------------------------------------------
(* parseSizes, field by field. *)

ParseField(f) ==
    /\ outcome = "parsing" /\ Len(fields) < MaxFields
    /\ parseBytesOK(f) /\ weightOK(f)
    /\ LET sum == word(total + weightOf(f))
       IN  /\ total' = sum
           /\ cum' = Append(cum, sum)
           /\ classes' = Append(classes, [bytes |-> parseBytes(f), weight |-> weightOf(f)])
    /\ fields' = Append(fields, f)
    /\ UNCHANGED <<outcome, entry>>

\* An empty field is one whose size is no number.
RefuseField(f) ==
    /\ outcome = "parsing" /\ Len(fields) < MaxFields
    /\ ~parseBytesOK(f) \/ ~weightOK(f)
    /\ outcome' = "refused" /\ fields' = Append(fields, f)
    /\ UNCHANGED <<classes, cum, total, entry>>

\* A flag has a field, were it the empty one.
EndOfFlag ==
    /\ outcome = "parsing" /\ fields # <<>>
    /\ outcome' = "parsed"
    /\ UNCHANGED <<fields, classes, cum, total, entry>>

-----------------------------------------------------------------------------
(* What plan prints, as numerators over the total. *)

bytesTimesWeight == [i \in DOMAIN classes |-> classes[i].bytes * classes[i].weight]
mean == word(SumFunction(bytesTimesWeight))

\* Variant: a payload that fills a row is taken for one that needs two.
overChunkFull(bytes) == bytes >= MaxEntryChunk

overChunk(bytes) == bytes > MaxEntryChunk

weightIfOver ==
    [i \in DOMAIN classes |-> IF overChunk(classes[i].bytes) THEN classes[i].weight ELSE 0]
chunked == word(SumFunction(weightIfOver))

-----------------------------------------------------------------------------
(* The draws. *)

\* slices.BinarySearch: where x is or would be, by halving.
BinarySearch(s, x) ==
    LET find[r \in (0 .. Len(s)) \X (0 .. Len(s))] ==
            LET h == (r[1] + r[2]) \div 2
            IN  IF r[1] >= r[2] THEN r[1]
                ELSE IF s[h + 1] < x THEN find[<<h + 1, r[2]>>] ELSE find[<<r[1], h>>]
    IN  find[<<0, Len(s)>>]

\* Variant: the draw itself is searched for.
classDrawnAtOnce(k) == BinarySearch(cum, k) + 1

\* The class of draw k of 0 .. total - 1.
classDrawn(k) == BinarySearch(cum, k + 1) + 1

draw(k) == classes[classDrawn(k)].bytes

largest == Max({classes[i].bytes : i \in DOMAIN classes})

\* newCorpus.
corpusSize == Max({corpusMin, 2 * largest})

\* rnd.IntN has no draws of an interval that is empty: it panics, and the run
\* goes no further.
DrawEntry(k, off) ==
    /\ outcome = "parsed"
    /\ entry = None
    /\ entry' = [off |-> off, n |-> draw(k)]
    /\ UNCHANGED <<outcome, fields, classes, cum, total>>

SizesInit ==
    /\ outcome = "parsing" /\ fields = <<>>
    /\ classes = <<>> /\ cum = <<>> /\ total = 0
    /\ entry = None

SizesNext ==
    \/ \E f \in Field : ParseField(f) \/ RefuseField(f)
    \/ EndOfFlag
    \/ outcome = "parsed" /\ \E k \in 0 .. total - 1 :
           \E off \in 0 .. corpusSize - draw(k) : DrawEntry(k, off)

SizesSpec == SizesInit /\ [][SizesNext]_sizesVars

-----------------------------------------------------------------------------
\* The types.
SizesTypeOK ==
    /\ outcome \in {"parsing", "refused", "parsed"}
    /\ fields \in Seq(Field)
    /\ \A i \in DOMAIN classes : /\ classes[i].bytes \in 0 .. maxPayload
                                 /\ classes[i].weight \in 1 .. IntMax
    /\ cum \in Seq(-IntMax - 1 .. IntMax) /\ total \in -IntMax - 1 .. IntMax
    /\ entry.off \in Nat /\ entry.n \in -1 .. maxPayload

\* The weights of the flag add up to an int, and so do its bytes.
WeightsFit == SumFunction([i \in DOMAIN classes |-> classes[i].weight]) <= IntMax
BytesFit   == SumFunction(bytesTimesWeight) <= IntMax

\* The draws are what the flag asked for.  Each class is as long as its field
\* says in numbers that do not wrap, its entries have more places to start in the
\* corpus than they have bytes, and as long as the weights fit it is drawn in
\* proportion to its own, the search finding the first running total above the
\* draw.  Where they do not fit, a draw still finds a class.
DrawnAsAsked ==
    /\ SizesTypeOK
    /\ outcome = "parsed" =>
          \A i \in DOMAIN classes :
              /\ classes[i].bytes = fields[i].size * fields[i].unit
              /\ corpusSize - classes[i].bytes + 1 > classes[i].bytes
              /\ WeightsFit =>
                    Cardinality({k \in 0 .. total - 1 : classDrawn(k) = i}) = weightOf(fields[i])

\* What the plan announces is what the draws will ask of the database: the mean
\* entry and the share of entries an append cuts into several rows.
PlanTellsTheLoad ==
    outcome = "parsed" /\ WeightsFit =>
        /\ BytesFit => mean = SumFunction([k \in 0 .. total - 1 |-> draw(k)])
        /\ chunked = Cardinality({k \in 0 .. total - 1 : ChunkCount(draw(k)) > 1})

================================================================================

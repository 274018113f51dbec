------------------------------- MODULE Histogram -------------------------------
(***************************************************************************)
(* The latency histogram of the load tool: writers file samples in buckets  *)
(* while the reporter copies the buckets out one by one, subtracts the      *)
(* reading before and names quantiles of the difference.                    *)
(*                                                                         *)
(* Octaves is 64 in the code; nothing depends on it but the number of       *)
(* buckets.  A quantile is a ratio here, a float64 there.                   *)
(***************************************************************************)
EXTENDS Integers, Sequences, FiniteSetsExt, Functions

CONSTANTS
    Octaves,      \* the width of a microsecond count, in bits
    Quantiles,    \* the quantiles a line names, in hundredths
    Latencies,    \* the durations a call may take, in microseconds
    MaxSamples,   \* bound: samples filed
    MaxReadings   \* bound: lines printed

ASSUME OctavesAssumption == Octaves \in Nat /\ Octaves > 2
\* What the proofs use of the powers of two.
ASSUME PowersAssumption == /\ 2 ^ 0 = 1
                           /\ \A o \in 0 .. Octaves : 2 ^ o \in Nat /\ 2 ^ (o + 1) = 2 * 2 ^ o
ASSUME QuantilesAssumption == Quantiles \subseteq 0 .. 100
ASSUME LatenciesAssumption == Latencies \subseteq Int /\ \A d \in Latencies : d < 2 ^ Octaves
ASSUME HistogramBounds == MaxSamples \in Nat /\ MaxReadings \in Nat

VARIABLES
    buckets,    \* the counts
    reading,    \* the counts copied out so far, in order
    previous,   \* the reading before
    readings,   \* the readings completed
    waiting,    \* history: the samples no reading has caught, by microseconds
    window      \* history: the samples this reading has caught and the one before had not

histogramVars == <<buckets, reading, previous, readings, waiting, window>>

subBits  == 2
subCount == 2 ^ subBits
nBuckets == Octaves * subCount

Micros == 0 .. 2 ^ Octaves - 1

\* bits.Len64(us) - 1.
octaveOf(us) == CHOOSE o \in 0 .. Octaves - 1 : 2 ^ o <= us /\ us < 2 ^ (o + 1)

\* Variant: the octaves are counted from subBits, which leaves the values below
\* subCount to share their buckets.
bucketOfOverlapping(us) ==
    IF us < subCount
    THEN us
    ELSE LET o == octaveOf(us)
         IN  (o - subBits) * subCount + ((us \div 2 ^ (o - subBits)) % subCount)

bucketOf(us) ==
    IF us < subCount
    THEN us
    ELSE LET o == octaveOf(us)
         IN  (o - subBits + 1) * subCount + ((us \div 2 ^ (o - subBits)) % subCount)

\* The largest count that lands in bucket i.
bucketBound(i) ==
    IF i < subCount
    THEN i
    ELSE LET width == 2 ^ (i \div subCount - 1)
         IN  (subCount + (i % subCount)) * width + width - 1

\* The least index at which the counts up to it reach n; the counts do.
reaches(counts, n) ==
    Min({i \in DOMAIN counts : SumFunctionOnSet(counts, {j \in DOMAIN counts : j <= i}) >= n})

\* The rank of the q-th of n samples.
rankOf(q, n) == (q * (n - 1)) \div 100 + 1

\* The bound of the bucket the q-th sample falls in; counts[i] is bucket i - 1's.
quantile(counts, q) ==
    LET n == SumFunction(counts)
    IN  IF n = 0 THEN 0 ELSE bucketBound(reaches(counts, rankOf(q, n)) - 1)

\* The window between two readings.
sub(t, p) == [i \in DOMAIN t |-> t[i] - p[i]]

-----------------------------------------------------------------------------
\* The writers' side: one atomic addition.
observe(d) ==
    LET us == Max({d, 0})
    IN  /\ SumFunction(buckets) < MaxSamples
        /\ buckets' = [buckets EXCEPT ![bucketOf(us)] = @ + 1]
        /\ waiting' = [waiting EXCEPT ![us] = @ + 1]
        /\ UNCHANGED <<reading, previous, readings, window>>

\* The reporter's: snapshot loads the buckets one after the other, and catches of
\* each what has been filed in it by then.
Load ==
    /\ readings < MaxReadings /\ Len(reading) < nBuckets
    /\ LET i == Len(reading)
           caught(us) == IF bucketOf(us) = i THEN waiting[us] ELSE 0
       IN  /\ reading' = Append(reading, buckets[i])
           /\ window' = [us \in Micros |-> window[us] + caught(us)]
           /\ waiting' = [us \in Micros |-> waiting[us] - caught(us)]
    /\ UNCHANGED <<buckets, previous, readings>>

\* The line is printed, and the reading becomes the one before.
Report ==
    /\ Len(reading) = nBuckets
    /\ previous' = reading /\ reading' = <<>>
    /\ readings' = readings + 1
    /\ window' = [us \in Micros |-> 0]
    /\ UNCHANGED <<buckets, waiting>>

HistogramInit ==
    /\ buckets = [i \in 0 .. nBuckets - 1 |-> 0]
    /\ reading = <<>> /\ readings = 0
    /\ previous = [i \in 1 .. nBuckets |-> 0]
    /\ waiting = [us \in Micros |-> 0]
    /\ window = [us \in Micros |-> 0]

HistogramNext == (\E d \in Latencies : observe(d)) \/ Load \/ Report

HistogramSpec == HistogramInit /\ [][HistogramNext]_histogramVars

-----------------------------------------------------------------------------
\* The types.
HistogramTypeOK ==
    /\ buckets \in [0 .. nBuckets - 1 -> 0 .. MaxSamples]
    /\ Len(reading) <= nBuckets /\ Len(previous) = nBuckets
    /\ readings \in 0 .. MaxReadings
    /\ waiting \in [Micros -> 0 .. MaxSamples] /\ window \in [Micros -> 0 .. MaxSamples]

\* What a line says of its window is true of the samples the window caught, and
\* each is caught by one window: a quantile is the q-th of them in order or at
\* most a quarter above it, although the buckets moved while they were read.
QuantilesNameTheSamples ==
  /\ HistogramTypeOK
  /\ Len(reading) = nBuckets =>
        LET d == sub(reading, previous)
            n == SumFunction(window)
        IN  /\ SumFunction(d) = n
            /\ n > 0 => \A q \in Quantiles :
                   LET us == reaches(window, rankOf(q, n))
                   IN  /\ quantile(d, q) >= us
                       /\ 4 * (quantile(d, q) - us) <= us

===============================================================================

---------------------------- MODULE LoadRunProofs ----------------------------
(***************************************************************************)
(* Proofs about LoadRun, for any number of writers, slots and lines: what    *)
(* the totals and the windows of a run say although the counters are added   *)
(* to and read one by one, and what its error says.                          *)
(***************************************************************************)
EXTENDS LoadRun, FiniteSetTheorems, SequenceTheorems, TLAPS

FieldNames == {"appends", "entries", "rows", "failed"}

\* The fields, spelled out.
LEMMA FieldFacts ==
    /\ Len(Recorded) = 3 /\ DOMAIN Recorded = 1 .. 3
    /\ Recorded[1] = "appends" /\ Recorded[2] = "entries" /\ Recorded[3] = "rows"
    /\ Len(Fields) = 4 /\ (\A i \in 1 .. 4 : Fields[i] \in FieldNames)
    /\ DOMAIN Zero = FieldNames /\ Zero \in [FieldNames -> Nat]
    /\ \A f \in FieldNames : Zero[f] = 0
<1>1. /\ Len(Recorded) = 3 /\ DOMAIN Recorded = 1 .. 3
      /\ Recorded[1] = "appends" /\ Recorded[2] = "entries" /\ Recorded[3] = "rows"
  BY DEF Recorded
<1>2. Recorded \in Seq(FieldNames) /\ <<"failed">> \in Seq(FieldNames)
  BY DEF Recorded, FieldNames
<1>3. /\ Len(Fields) = 4 /\ DOMAIN Fields = 1 .. 4
      /\ Fields[1] = "appends" /\ Fields[2] = "entries"
      /\ Fields[3] = "rows" /\ Fields[4] = "failed"
  <2>. DEFINE tail == <<"failed">>
  <2>1. Len(tail) = 1 /\ tail[1] = "failed" /\ tail \in Seq(FieldNames)
    BY <1>2
  <2>2. \A s, t \in Seq(FieldNames) :
           /\ s \o t \in Seq(FieldNames) /\ Len(s \o t) = Len(s) + Len(t)
           /\ \A i \in 1 .. Len(s) + Len(t) :
                 (s \o t)[i] = IF i <= Len(s) THEN s[i] ELSE t[i - Len(s)]
    BY ConcatProperties
  <2>3. Fields = Recorded \o tail
    BY DEF Fields
  <2>. HIDE DEF tail
  <2>4. /\ Fields \in Seq(FieldNames) /\ Len(Fields) = Len(Recorded) + Len(tail)
        /\ \A i \in 1 .. Len(Recorded) + Len(tail) :
              Fields[i] = IF i <= Len(Recorded) THEN Recorded[i] ELSE tail[i - Len(Recorded)]
    BY <1>2, <2>1, <2>2, <2>3, Zenon
  <2>5. /\ Len(Fields) = 4
        /\ \A i \in 1 .. 4 : Fields[i] = IF i <= 3 THEN Recorded[i] ELSE tail[i - 3]
    BY <1>1, <2>1, <2>4
  <2>. QED
    BY <1>1, <2>1, <2>4, <2>5
<1>4. {Fields[i] : i \in DOMAIN Fields} = FieldNames
  BY <1>3 DEF FieldNames
<1>5. Zero = [f \in FieldNames |-> 0]
  BY <1>4 DEF Zero
<1>. QED
  BY <1>1, <1>3, <1>5 DEF FieldNames

\* The constants, and how many writers there are.
LEMMA RunFacts ==
    /\ Batch \in Nat \ {0} /\ MaxRows \in Nat /\ MaxSlots \in Nat /\ MaxReports \in Nat
    /\ Cardinality(Writers) \in Nat /\ IsFiniteSet(Writers)
BY RunBounds, WritersAssumption, FS_CardinalityType

\* The counters that record adds to.
RecordedNames == {"appends", "entries", "rows"}

\* What record adds is a number.
LEMMA AmountFacts ==
    \A f \in RecordedNames : \A r \in 0 .. MaxRows : Amount(f, r) \in Nat
BY RunFacts DEF RecordedNames, Amount

-----------------------------------------------------------------------------
(* Types. *)

\* A writer that records is at one of the fields.
RecordOK == \A w \in Writers : place[w] = "record" => sending[w].at \in 1 .. 3

WriterPlaces == {"unclaimed", "claimed", "slot", "append", "record", "failed", "resync", "trim",
                 "failing", "cancelling", "done"}

\* The type invariant, with the fields spelled out.
Typed ==
    /\ main \in {"claiming", "reading", "reporting", "waiting", "returned"}
    /\ result \in {"none", "nil", "error"}
    /\ place \in [Writers -> WriterPlaces]
    /\ left \in 0 .. MaxSlots
    /\ sending \in [Writers -> [rows : 0 .. MaxRows, at : 0 .. 3]]
    /\ cancelled \in BOOLEAN /\ failures \in 0 .. Cardinality(Writers)
    /\ counters \in [FieldNames -> Nat] /\ totals \in [FieldNames -> Nat]
    /\ truth \in [FieldNames -> Nat]
    /\ reading \in Seq(Nat) /\ previous \in Seq(Nat) /\ reports \in 0 .. MaxReports
    /\ lost \subseteq Writers

LEMMA TypesSpelled == Typed <=> TypeOK
BY FieldFacts DEF Typed, TypeOK, WriterPlaces

WellTyped == Typed /\ RecordOK

\* What one step of record adds.
LEMMA RecordStep ==
    ASSUME WellTyped, NEW w \in Writers, Record(w)
    PROVE  \E f \in RecordedNames :
              /\ f = Recorded[sending[w].at]
              /\ Amount(f, sending[w].rows) \in Nat
              /\ counters' = [counters EXCEPT ![f] = @ + Amount(f, sending[w].rows)]
<1>1. sending[w].at \in 1 .. 3 /\ sending[w].rows \in 0 .. MaxRows
  BY DEF WellTyped, Typed, RecordOK, Record
<1>2. Recorded[sending[w].at] \in RecordedNames
  BY <1>1, FieldFacts DEF RecordedNames
<1>. QED
  BY <1>1, <1>2, AmountFacts DEF Record

\* Adding to one counter adds to it and to no other.
LEMMA AddTo ==
    ASSUME NEW c \in [FieldNames -> Nat], NEW f \in FieldNames, NEW n \in Nat,
           NEW d, d = [c EXCEPT ![f] = @ + n]
    PROVE  /\ d \in [FieldNames -> Nat] /\ d[f] = c[f] + n
           /\ \A g \in FieldNames : c[g] <= d[g] /\ (g # f => d[g] = c[g])
<1>1. \A g \in FieldNames : c[g] \in Nat
  OBVIOUS
<1>2. d[f] = c[f] + n /\ \A g \in FieldNames : g # f => d[g] = c[g]
  OBVIOUS
<1>. QED
  BY <1>1, <1>2

\* Counters only grow.
LEMMA CountersGrow ==
    ASSUME WellTyped, [Next]_vars
    PROVE  counters' \in [FieldNames -> Nat] /\ \A f \in FieldNames : counters[f] <= counters'[f]
<1>0. counters \in [FieldNames -> Nat] /\ \A f \in FieldNames : counters[f] \in Nat
  BY DEF WellTyped, Typed
<1>1. ASSUME NEW w \in Writers, Record(w)
      PROVE  counters' \in [FieldNames -> Nat] /\ \A f \in FieldNames : counters[f] <= counters'[f]
  <2>1. PICK f \in RecordedNames :
              /\ Amount(f, sending[w].rows) \in Nat
              /\ counters' = [counters EXCEPT ![f] = @ + Amount(f, sending[w].rows)]
    BY <1>1, RecordStep
  <2>2. f \in FieldNames
    BY DEF FieldNames, RecordedNames
  <2>. QED
    BY <1>0, <2>1, <2>2, AddTo
<1>2. ASSUME NEW w \in Writers, File(w) \/ CallFails(w)
      PROVE  counters' \in [FieldNames -> Nat] /\ \A f \in FieldNames : counters[f] <= counters'[f]
  <2>1. PICK n \in {0, 1} : counters' = [counters EXCEPT !["failed"] = @ + n]
    BY <1>2 DEF File, CallFails, Note
  <2>2. "failed" \in FieldNames /\ n \in Nat
    BY DEF FieldNames
  <2>. QED
    BY <1>0, <2>1, <2>2, AddTo
<1>3. CASE counters' = counters
  BY <1>0, <1>3
<1>. QED
  BY <1>1, <1>2, <1>3 DEF Next, ClaimStep, WriterStep, MainStep, Claim, ClaimFails, Slot, EndOfRun,
     SendFailure, CancelRun, AppendOK, AppendFails, AppendTaken, LoseLog, CallOK, StartWriters, Stop,
     ReadField, PrintWindow, ReportEnds, Finish, ReportTick, vars

\* The history of what was appended and what failed stays a count.
LEMMA TruthTypes ==
    ASSUME WellTyped, NEW w \in Writers,
           AppendFails(w) \/ CallFails(w) \/ \E r \in Batch .. MaxRows : AppendOK(w, r)
    PROVE  truth' \in [FieldNames -> Nat]
<1>0. truth \in [FieldNames -> Nat] /\ DOMAIN truth = FieldNames
  BY DEF WellTyped, Typed
<1>1. CASE AppendFails(w) \/ CallFails(w)
  <2>1. PICK n \in {0, 1} : truth' = [truth EXCEPT !["failed"] = @ + n]
    BY <1>1 DEF AppendFails, CallFails
  <2>2. "failed" \in FieldNames /\ n \in Nat
    BY DEF FieldNames
  <2>. QED
    BY <1>0, <2>1, <2>2, AddTo
<1>2. ASSUME NEW r \in Batch .. MaxRows, AppendOK(w, r) PROVE truth' \in [FieldNames -> Nat]
  <2>1. truth' = [f \in FieldNames |-> truth[f] + (IF f = "failed" THEN 0 ELSE Amount(f, r))]
    BY <1>0, <1>2 DEF AppendOK
  <2>2. r \in 0 .. MaxRows
    BY RunFacts
  <2>3. \A f \in FieldNames : f # "failed" => Amount(f, r) \in Nat
    BY <2>2, AmountFacts DEF FieldNames, RecordedNames
  <2>4. \A f \in FieldNames : truth[f] \in Nat
    BY <1>0
  <2>5. \A f \in FieldNames : truth[f] + (IF f = "failed" THEN 0 ELSE Amount(f, r)) \in Nat
    BY <2>3, <2>4
  <2>. QED
    BY <2>1, <2>5
<1>. QED
  BY <1>1, <1>2

\* The types are inductive.
LEMMA TypeStep == WellTyped /\ [Next]_vars => WellTyped'
<1>. SUFFICES ASSUME WellTyped, [Next]_vars PROVE WellTyped'
  OBVIOUS
<1>. USE RunFacts DEF WellTyped, Typed, RecordOK, WriterPlaces, Goto, writing, report
<1>0. counters' \in [FieldNames -> Nat]
  BY CountersGrow
<1>1. ASSUME NEW w \in Writers, Claim(w) \/ EndOfRun(w) \/ AppendTaken(w) \/ CallOK(w)
                                  \/ CancelRun(w)
      PROVE  WellTyped'
  BY <1>0, <1>1 DEF Claim, EndOfRun, AppendTaken, CallOK, CancelRun
<1>2. ASSUME NEW w \in Writers, Slot(w) PROVE WellTyped'
  <2>1. left' \in 0 .. MaxSlots
    BY <1>2 DEF Slot
  <2>. QED
    BY <1>0, <1>2, <2>1 DEF Slot
<1>a. ASSUME NEW w \in Writers, SendFailure(w) PROVE WellTyped'
  <2>1. failures' \in 0 .. Cardinality(Writers)
    BY <1>a DEF SendFailure, failuresCap
  <2>. QED
    BY <1>0, <1>a, <2>1 DEF SendFailure
<1>3. ASSUME NEW w \in Writers, LoseLog(w) PROVE WellTyped'
  BY <1>0, <1>3 DEF LoseLog
<1>4. ASSUME NEW w \in Writers, AppendFails(w) \/ CallFails(w) PROVE WellTyped'
  BY <1>0, <1>4, TruthTypes DEF AppendFails, CallFails, Note
<1>e. ASSUME NEW w \in Writers, File(w) PROVE WellTyped'
  BY <1>0, <1>e DEF File, Note
<1>5. ASSUME NEW w \in Writers, NEW r \in Batch .. MaxRows, AppendOK(w, r) PROVE WellTyped'
  <2>1. truth' \in [FieldNames -> Nat] /\ r \in 0 .. MaxRows
    BY <1>5, TruthTypes
  <2>. QED
    BY <1>0, <1>5, <2>1 DEF AppendOK
<1>6. ASSUME NEW w \in Writers, Record(w) PROVE WellTyped'
  <2>1. sending[w].at \in 1 .. 3 /\ sending[w].rows \in 0 .. MaxRows
    BY <1>6 DEF Record
  <2>2. CASE /\ ~LastField(w)
             /\ sending' = [sending EXCEPT ![w].at = @ + 1] /\ UNCHANGED place
    <3>0. Len(Recorded) = 3
      BY FieldFacts
    <3>1. sending[w].at + 1 \in 1 .. 3
      BY <2>1, <2>2, <3>0 DEF LastField
    <3>2. /\ sending' \in [Writers -> [rows : 0 .. MaxRows, at : 0 .. 3]]
          /\ sending'[w].at = sending[w].at + 1
          /\ \A v \in Writers : v # w => sending'[v] = sending[v]
      <4>1. [sending[w] EXCEPT !.at = @ + 1] = [rows |-> sending[w].rows, at |-> sending[w].at + 1]
        OBVIOUS
      <4>2. sending' = [sending EXCEPT ![w] = [rows |-> sending[w].rows, at |-> sending[w].at + 1]]
        BY <2>2, <4>1
      <4>3. [rows |-> sending[w].rows, at |-> sending[w].at + 1] \in [rows : 0 .. MaxRows, at : 0 .. 3]
        BY <2>1, <3>1
      <4>. QED
        BY <4>2, <4>3
    <3>. QED
      BY <1>0, <1>6, <2>2, <3>1, <3>2 DEF Record
  <2>3. CASE /\ sending' = [sending EXCEPT ![w] = Idle]
             /\ \E p \in {"slot", "trim"} : Goto(w, p)
    <3>1. Idle \in [rows : 0 .. MaxRows, at : 0 .. 3]
      BY DEF Idle
    <3>. QED
      BY <1>0, <1>6, <2>3, <3>1 DEF Record
  <2>. QED
    BY <1>6, <2>2, <2>3 DEF Record
<1>7. CASE StartWriters
  BY <1>0, <1>7 DEF StartWriters
<1>8. CASE Stop \/ ReportEnds
  BY <1>0, <1>8 DEF Stop, ReportEnds
<1>d. CASE PrintWindow
  <2>1. reading' \in Seq(Nat) /\ previous' \in Seq(Nat)
    BY <1>d DEF PrintWindow
  <2>. QED
    BY <1>0, <1>d, <2>1 DEF PrintWindow
<1>b. CASE ReportTick
  <2>1. reports' \in 0 .. MaxReports
    BY <1>b DEF ReportTick
  <2>. QED
    BY <1>0, <1>b, <2>1 DEF ReportTick
<1>c. CASE Finish
  <2>1. totals' \in [FieldNames -> Nat] /\ result' \in {"none", "nil", "error"}
    BY <1>c DEF Finish
  <2>. QED
    BY <1>0, <1>c, <2>1 DEF Finish
<1>9. CASE ReadField
  <2>0. Len(reading) \in Nat
    OBVIOUS
  <2>1. counters[Fields[Len(reading) + 1]] \in Nat
    <3>0. Len(Fields) = 4
      BY FieldFacts
    <3>1. Len(reading) < 4
      BY <1>9, <3>0 DEF ReadField
    <3>2. Fields[Len(reading) + 1] \in FieldNames
      <4>. DEFINE n == Len(reading)
      <4>1. n \in Nat /\ n < 4
        BY <2>0, <3>1
      <4>. HIDE DEF n
      <4>2. n + 1 \in 1 .. 4
        BY <4>1
      <4>3. Fields[n + 1] \in FieldNames
        BY <4>2, FieldFacts
      <4>. QED
        BY <4>3 DEF n
    <3>. QED
      BY <3>2
  <2>. QED
    BY <1>0, <1>9, <2>1 DEF ReadField
<1>10. ASSUME NEW w \in Writers, ClaimFails(w) PROVE WellTyped'
  BY <1>0, <1>10 DEF ClaimFails
<1>11. CASE UNCHANGED vars
  BY <1>11 DEF vars
<1>. QED
  BY <1>1, <1>2, <1>3, <1>4, <1>5, <1>6, <1>7, <1>8, <1>9, <1>10, <1>11, <1>a,
     <1>b, <1>c, <1>d, <1>e
     DEF Next, ClaimStep, WriterStep, MainStep

\* The types hold of a run that has not begun.
LEMMA TypeInit == Init => WellTyped
<1>. SUFFICES ASSUME Init PROVE WellTyped
  OBVIOUS
<1>1. counters \in [FieldNames -> Nat] /\ totals \in [FieldNames -> Nat] /\ truth \in [FieldNames -> Nat]
  BY FieldFacts DEF Init
<1>2. sending \in [Writers -> [rows : 0 .. MaxRows, at : 0 .. 3]]
  BY RunFacts DEF Init, Idle
<1>3. left \in 0 .. MaxSlots /\ failures \in 0 .. Cardinality(Writers) /\ reports \in 0 .. MaxReports
  BY RunFacts DEF Init
<1>4. reading \in Seq(Nat) /\ previous \in Seq(Nat)
  BY DEF Init
<1>. QED
  BY <1>1, <1>2, <1>3, <1>4 DEF Init, WellTyped, Typed, RecordOK, WriterPlaces

-----------------------------------------------------------------------------
(* Readings and windows. *)

\* The counters only grow, so no reading, done or under way, is above them, and
\* the one under way is at least the one before.
WindowOK ==
    /\ Len(reading) <= 4 /\ Len(previous) <= 4
    /\ \A i \in 1 .. Len(reading) : reading[i] <= counters[Fields[i]]
    /\ \A i \in 1 .. Len(previous) : previous[i] <= counters[Fields[i]]
    /\ \A i \in 1 .. Len(reading) : i <= Len(previous) => previous[i] <= reading[i]

\* The readings are inductive on top of the types.
LEMMA WindowStep == WellTyped /\ WindowOK /\ [Next]_vars => WindowOK'
<1>. SUFFICES ASSUME WellTyped, WindowOK, [Next]_vars PROVE WindowOK'
  OBVIOUS
<1>0. /\ reading \in Seq(Nat) /\ previous \in Seq(Nat)
      /\ Len(reading) \in Nat /\ Len(previous) \in Nat
      /\ \A i \in 1 .. Len(reading) : reading[i] \in Nat
      /\ \A i \in 1 .. Len(previous) : previous[i] \in Nat
      /\ \A f \in FieldNames : counters[f] \in Nat
  BY DEF WellTyped, Typed
<1>1. /\ \A i \in 1 .. 4 : Fields[i] \in FieldNames
      /\ Len(Fields) = 4
  BY FieldFacts
<1>2. \A i \in 1 .. 4 : /\ counters[Fields[i]] <= counters'[Fields[i]]
                         /\ counters[Fields[i]] \in Nat /\ counters'[Fields[i]] \in Nat
  BY <1>0, <1>1, CountersGrow
<1>3. CASE UNCHANGED <<reading, previous>>
  <2>1. ASSUME NEW i \in 1 .. Len(reading) PROVE reading[i] <= counters'[Fields[i]]
    <3>1. i \in 1 .. 4 /\ reading[i] <= counters[Fields[i]] /\ reading[i] \in Nat
      BY <1>0 DEF WindowOK
    <3>. QED
      BY <1>2, <3>1
  <2>2. ASSUME NEW i \in 1 .. Len(previous) PROVE previous[i] <= counters'[Fields[i]]
    <3>1. i \in 1 .. 4 /\ previous[i] <= counters[Fields[i]] /\ previous[i] \in Nat
      BY <1>0 DEF WindowOK
    <3>. QED
      BY <1>2, <3>1
  <2>. QED
    BY <1>3, <2>1, <2>2 DEF WindowOK
<1>4. CASE ReadField
  <2>. DEFINE n == Len(reading) + 1
              x == counters[Fields[n]]
  <2>1. /\ n \in 1 .. 4 /\ x \in Nat /\ reading' = Append(reading, x)
        /\ UNCHANGED <<previous, counters>>
    BY <1>0, <1>1, <1>4 DEF ReadField
  <2>2. /\ Len(reading') = n /\ reading'[n] = x
        /\ \A i \in 1 .. Len(reading) : reading'[i] = reading[i]
    BY <1>0, <2>1
  <2>3. \A i \in 1 .. Len(reading') : i \in 1 .. Len(reading) \/ i = n
    BY <1>0, <2>2
  <2>4. n <= Len(previous) => previous[n] <= x
    BY <1>0, <2>1 DEF WindowOK
  <2>. HIDE DEF n
  <2>. QED
    BY <2>1, <2>2, <2>3, <2>4 DEF WindowOK
<1>5. CASE PrintWindow
  <2>1. previous' = reading /\ reading' = <<>> /\ counters' = counters /\ Len(reading') = 0
    BY <1>5 DEF PrintWindow
  <2>. QED
    BY <1>0, <2>1 DEF WindowOK
<1>. QED
  BY <1>3, <1>4, <1>5 DEF Next, ClaimStep, WriterStep, MainStep, Claim, ClaimFails, Slot, EndOfRun,
     Record, Note, AppendFails, File, CallFails, SendFailure, CancelRun, AppendOK, AppendTaken, LoseLog,
     CallOK, StartWriters, Stop, ReportEnds, Finish, ReportTick, vars, report

\* A line of the report never shows a negative window, which an unsigned counter
\* would print as a huge one (stats.go's sub): the reading under way is at least
\* the one before, though snapshot reads field by field beside the writers.
THEOREM WindowsNeverWrapCorrect == Spec => []WindowsNeverWrap
<1>1. WellTyped /\ WindowOK => WindowsNeverWrap
  <2>. SUFFICES ASSUME WellTyped, WindowOK PROVE WindowsNeverWrap
    OBVIOUS
  <2>1. DOMAIN reading = 1 .. Len(reading) /\ DOMAIN previous = 1 .. Len(previous)
    BY DEF WellTyped, Typed
  <2>2. Len(reading) \in Nat /\ Len(previous) \in Nat
    BY DEF WellTyped, Typed
  <2>3. \A i \in DOMAIN reading \intersect DOMAIN previous : reading[i] >= previous[i]
    BY <2>1, <2>2 DEF WindowOK, WellTyped, Typed
  <2>. QED
    BY <2>3, TypesSpelled DEF WindowsNeverWrap, WellTyped
<1>2. Init => WindowOK
  BY DEF Init, WindowOK
<1>. QED
  BY <1>1, <1>2, TypeInit, TypeStep, WindowStep, PTL DEF Spec
-----------------------------------------------------------------------------
(* The writers and drive. *)

\* Writers run between the claims and the end of drive, and at no other time.
PhaseOK ==
    /\ main = "claiming" =>
          /\ truth["appends"] = 0 /\ failures = 0 /\ lost = {}
          /\ \A w \in Writers : place[w] \in {"unclaimed", "claimed"}
    /\ main = "returned" => \A w \in Writers : place[w] \in {"unclaimed", "claimed", "done"}
    /\ main # "returned" => result = "none"

\* An error in the channel is that of a writer that lost its log, and every such
\* writer is about to send its error or has sent one.
LossOK ==
    /\ failures > 0 => lost # {}
    /\ \A w \in Writers : place[w] \in {"failing", "cancelling"} => w \in lost
    /\ \A w \in lost : place[w] \in {"failing", "cancelling", "done"}
                         /\ (place[w] # "failing" => failures > 0)
    /\ ErrorTellsWhatHappened

\* Phases and losses are inductive on top of the types.
LEMMA LossStep == WellTyped /\ PhaseOK /\ LossOK /\ [Next]_vars => PhaseOK' /\ LossOK'
<1>. SUFFICES ASSUME WellTyped, PhaseOK, LossOK, [Next]_vars PROVE PhaseOK' /\ LossOK'
  OBVIOUS
<1>0. place \in [Writers -> WriterPlaces] /\ failures \in Nat /\ lost \subseteq Writers
  BY RunFacts DEF WellTyped, Typed
<1>. USE <1>0 DEF PhaseOK, LossOK, ErrorTellsWhatHappened, Goto, writing, report
<1>1. ASSUME NEW w \in Writers, Claim(w) \/ ClaimFails(w) PROVE PhaseOK' /\ LossOK'
  BY <1>1 DEF Claim, ClaimFails
<1>2. ASSUME NEW w \in Writers, Slot(w) \/ EndOfRun(w) \/ AppendTaken(w) \/ CallOK(w)
      PROVE  PhaseOK' /\ LossOK'
  BY <1>2 DEF Slot, EndOfRun, AppendTaken, CallOK
<1>3. ASSUME NEW w \in Writers, Record(w) \/ AppendFails(w) \/ File(w) \/ CallFails(w)
                                  \/ \E r \in Batch .. MaxRows : AppendOK(w, r)
      PROVE  PhaseOK' /\ LossOK'
  <2>1. /\ place[w] \in {"record", "append", "failed", "resync", "trim"}
        /\ UNCHANGED <<main, result, failures, lost>>
        /\ \A v \in Writers : v # w => place'[v] = place[v]
        /\ place'[w] \in {"record", "failed", "slot", "trim"}
    BY <1>3 DEF Record, AppendFails, File, CallFails, AppendOK, Note
  <2>2. main \notin {"claiming", "returned"} /\ w \notin lost
    BY <2>1
  <2>. QED
    BY <2>1, <2>2
<1>4. ASSUME NEW w \in Writers, LoseLog(w) PROVE PhaseOK' /\ LossOK'
  BY <1>4 DEF LoseLog
<1>5. ASSUME NEW w \in Writers, SendFailure(w) PROVE PhaseOK' /\ LossOK'
  <2>1. failures' > 0 /\ w \in lost /\ UNCHANGED <<main, result, lost, truth>>
        /\ place[w] = "failing" /\ place' = [place EXCEPT ![w] = "cancelling"]
    BY <1>5 DEF SendFailure
  <2>. QED
    BY <2>1
<1>6. ASSUME NEW w \in Writers, CancelRun(w) PROVE PhaseOK' /\ LossOK'
  BY <1>6 DEF CancelRun
<1>7. CASE StartWriters
  BY <1>7 DEF StartWriters
<1>8. CASE Stop \/ ReadField \/ PrintWindow \/ ReportTick \/ ReportEnds
  <2>1. /\ UNCHANGED <<result, place, failures, truth, lost>>
        /\ \/ main \notin {"claiming", "returned"} /\ main' \notin {"claiming", "returned"}
           \/ main' = main
    BY <1>8 DEF Stop, ReadField, PrintWindow, ReportTick, ReportEnds
  <2>. QED
    BY <2>1
<1>9. CASE Finish
  <2>1. /\ UNCHANGED <<place, failures, truth, lost>> /\ main' = "returned"
        /\ \A w \in Writers : place[w] = "done"
        /\ result' = IF failures > 0 THEN "error" ELSE "nil"
    BY <1>9 DEF Finish, WritersDone
  <2>. QED
    BY <2>1
<1>10. CASE UNCHANGED vars
  BY <1>10 DEF vars
<1>. QED
  BY <1>1, <1>2, <1>3, <1>4, <1>5, <1>6, <1>7, <1>8, <1>9, <1>10
     DEF Next, ClaimStep, WriterStep, MainStep

LEMMA LossInit == Init => PhaseOK /\ LossOK
<1>1. "appends" \in FieldNames
  BY DEF FieldNames
<1>. QED
  BY <1>1, FieldFacts DEF Init, PhaseOK, LossOK, ErrorTellsWhatHappened

\* A run that lost a log returns an error, whichever writer lost it and however
\* many did (drive's failures channel); any other error is that of a run that has
\* appended nothing.
THEOREM ErrorTellsWhatHappenedCorrect == Spec => []ErrorTellsWhatHappened
<1>1. LossOK => ErrorTellsWhatHappened
  BY DEF LossOK
<1>. QED
  BY <1>1, TypeInit, LossInit, TypeStep, LossStep, PTL DEF Spec
-----------------------------------------------------------------------------
(* Totals. *)

\* Where record adds to field f.
Position(f) == CASE f = "appends" -> 1 [] f = "entries" -> 2 [] f = "rows" -> 3

\* What writer w has still to add to counter f, and all of it as a set of units:
\* the sum over the writers is its cardinality.
Owed(w, f) ==
    IF place[w] = "record" /\ sending[w].at <= Position(f)
    THEN Amount(f, sending[w].rows) ELSE 0
Debt(f) == {p \in Writers \X Nat : p[2] \in 1 .. Owed(p[1], f)}

\* What answered appends wrote is what was counted and what is owed.
DebtOK ==
    \A f \in RecordedNames :
        IsFiniteSet(Debt(f)) /\ truth[f] = counters[f] + Cardinality(Debt(f))

\* n units of a writer that owed nothing are n more.
LEMMA UnitsAdd ==
    ASSUME NEW A, IsFiniteSet(A), NEW w, NEW n \in Nat, \A i \in 1 .. n : <<w, i>> \notin A
    PROVE  /\ IsFiniteSet(A \union ({w} \X (1 .. n)))
           /\ Cardinality(A \union ({w} \X (1 .. n))) = Cardinality(A) + n
           /\ Cardinality(A) \in Nat
<1>. DEFINE U == {w} \X (1 .. n)
<1>1. IsFiniteSet(1 .. n) /\ Cardinality(1 .. n) = n
  BY FS_Interval
<1>2. IsFiniteSet({w}) /\ Cardinality({w}) = 1
  BY FS_Singleton
<1>3. IsFiniteSet(U) /\ Cardinality(U) = 1 * n
  BY <1>1, <1>2, FS_Product
<1>4. A \intersect U = {}
  OBVIOUS
<1>5. Cardinality(A \intersect U) = 0
  BY <1>4, FS_EmptySet
<1>6. Cardinality(A) \in Nat
  BY FS_CardinalityType
<1>. HIDE DEF U
<1>7. IsFiniteSet(A \union U) /\ Cardinality(A \union U) = Cardinality(A) + Cardinality(U) - 0
  BY <1>3, <1>5, FS_Union
<1>8. IsFiniteSet(A \union U) /\ Cardinality(A \union U) = Cardinality(A) + n
  BY <1>3, <1>6, <1>7
<1>. QED
  BY <1>6, <1>8 DEF U

\* What is owed is a number.
LEMMA OwedType ==
    ASSUME WellTyped PROVE \A w \in Writers : \A f \in RecordedNames : Owed(w, f) \in Nat
BY AmountFacts DEF WellTyped, Typed, Owed

\* What is owed when one writer comes to owe, or pays.
LEMMA DebtMoves ==
    ASSUME WellTyped, WellTyped', NEW f \in RecordedNames, IsFiniteSet(Debt(f)), NEW w \in Writers,
           \A v \in Writers : v # w => Owed(v, f)' = Owed(v, f)
    PROVE  /\ Cardinality(Debt(f)) \in Nat /\ IsFiniteSet(Debt(f)')
           /\ Cardinality(Debt(f)') \in Nat
           /\ Owed(w, f) = 0 => Cardinality(Debt(f)') = Cardinality(Debt(f)) + Owed(w, f)'
           /\ Owed(w, f)' = 0 => Cardinality(Debt(f)) = Cardinality(Debt(f)') + Owed(w, f)
           /\ Owed(w, f)' = Owed(w, f) => Cardinality(Debt(f)') = Cardinality(Debt(f))
<1>. DEFINE D == Debt(f)
            E == Debt(f)'
            n == Owed(w, f)
            m == Owed(w, f)'
            A == {p \in D : p[1] # w}
<1>1. n \in Nat /\ m \in Nat
  <2>1. m \in Nat
    BY AmountFacts DEF WellTyped, Typed, Owed
  <2>. QED
    BY <2>1, OwedType
<1>2. D = A \union ({w} \X (1 .. n))
  BY <1>1 DEF Debt
<1>3. E = A \union ({w} \X (1 .. m))
  BY <1>1 DEF Debt
<1>4. IsFiniteSet(A)
  BY FS_Subset
<1>5. (\A i \in 1 .. n : <<w, i>> \notin A) /\ (\A i \in 1 .. m : <<w, i>> \notin A)
  OBVIOUS
<1>. HIDE DEF A, D, E, n, m
<1>6. Cardinality(D) = Cardinality(A) + n /\ Cardinality(A) \in Nat
  BY <1>1, <1>2, <1>4, <1>5, UnitsAdd
<1>7. Cardinality(E) = Cardinality(A) + m /\ IsFiniteSet(E)
  BY <1>1, <1>3, <1>4, <1>5, UnitsAdd
<1>8. /\ Cardinality(D) \in Nat /\ IsFiniteSet(E) /\ Cardinality(E) \in Nat
      /\ n = 0 => Cardinality(E) = Cardinality(D) + m
      /\ m = 0 => Cardinality(D) = Cardinality(E) + n
      /\ m = n => Cardinality(E) = Cardinality(D)
  BY <1>1, <1>6, <1>7
<1>. QED
  BY <1>8 DEF D, E, n, m

\* Nothing is owed more or less by a step that records nothing.
LEMMA DebtStays ==
    ASSUME DebtOK, UNCHANGED <<counters, truth>>,
           \A f \in RecordedNames : \A v \in Writers : Owed(v, f)' = Owed(v, f)
    PROVE  DebtOK'
<1>1. \A f \in RecordedNames : Debt(f)' = Debt(f)
  BY DEF Debt
<1>. QED
  BY <1>1 DEF DebtOK

\* The account is inductive on top of the types.
LEMMA DebtStep == WellTyped /\ DebtOK /\ [Next]_vars => DebtOK'
<1>. SUFFICES ASSUME WellTyped, DebtOK, [Next]_vars PROVE DebtOK'
  OBVIOUS
<1>0. /\ WellTyped' /\ place \in [Writers -> WriterPlaces]
      /\ sending \in [Writers -> [rows : 0 .. MaxRows, at : 0 .. 3]]
      /\ counters \in [FieldNames -> Nat] /\ truth \in [FieldNames -> Nat]
      /\ RecordedNames \subseteq FieldNames /\ "failed" \in FieldNames
      /\ "failed" \notin RecordedNames
      /\ \A f \in FieldNames : counters[f] \in Nat /\ truth[f] \in Nat
      /\ \A f \in RecordedNames : Position(f) \in 1 .. 3
  <2>1. WellTyped'
    BY TypeStep
  <2>2. /\ place \in [Writers -> WriterPlaces]
        /\ sending \in [Writers -> [rows : 0 .. MaxRows, at : 0 .. 3]]
        /\ counters \in [FieldNames -> Nat] /\ truth \in [FieldNames -> Nat]
    BY DEF WellTyped, Typed
  <2>3. /\ RecordedNames \subseteq FieldNames /\ "failed" \in FieldNames
        /\ "failed" \notin RecordedNames
    BY DEF FieldNames, RecordedNames
  <2>4. \A f \in RecordedNames : Position(f) \in 1 .. 3
    BY DEF RecordedNames, Position
  <2>. QED
    BY <2>1, <2>2, <2>3, <2>4
<1>1. ASSUME NEW w \in Writers, NEW r \in Batch .. MaxRows, AppendOK(w, r) PROVE DebtOK'
  <2>1. /\ place[w] = "append" /\ place' = [place EXCEPT ![w] = "record"]
        /\ sending' = [sending EXCEPT ![w] = [rows |-> r, at |-> 1]] /\ counters' = counters
    BY <1>1 DEF AppendOK, Goto
  <2>2. truth' = [f \in FieldNames |-> truth[f] + (IF f = "failed" THEN 0 ELSE Amount(f, r))]
    <3>1. DOMAIN truth = FieldNames
      BY <1>0
    <3>. QED
      BY <1>1, <3>1 DEF AppendOK
  <2>3. ASSUME NEW f \in RecordedNames
        PROVE  IsFiniteSet(Debt(f)') /\ truth'[f] = counters'[f] + Cardinality(Debt(f)')
    <3>1. Owed(w, f) = 0 /\ Owed(w, f)' = Amount(f, r)
      BY <1>0, <2>1 DEF Owed
    <3>2. \A v \in Writers : v # w => Owed(v, f)' = Owed(v, f)
      BY <1>0, <2>1 DEF Owed
    <3>3. IsFiniteSet(Debt(f)) /\ truth[f] = counters[f] + Cardinality(Debt(f))
      BY DEF DebtOK
    <3>4. truth'[f] = truth[f] + Amount(f, r)
      BY <1>0, <2>2
    <3>5. /\ Cardinality(Debt(f)') = Cardinality(Debt(f)) + Amount(f, r)
          /\ IsFiniteSet(Debt(f)') /\ Cardinality(Debt(f)) \in Nat
      BY <1>0, <3>1, <3>2, <3>3, DebtMoves
    <3>6. Amount(f, r) \in Nat /\ counters[f] \in Nat
      <4>1. r \in 0 .. MaxRows
        BY RunFacts
      <4>. QED
        BY <1>0, <4>1, AmountFacts
    <3>. QED
      BY <2>1, <3>3, <3>4, <3>5, <3>6
  <2>. QED
    BY <2>3 DEF DebtOK
<1>2. ASSUME NEW w \in Writers, Record(w) PROVE DebtOK'
  <2>. DEFINE k == sending[w].at
              r == sending[w].rows
  <2>1. place[w] = "record" /\ k \in 1 .. 3 /\ r \in 0 .. MaxRows /\ truth' = truth
    BY <1>0, <1>2 DEF Record, WellTyped, RecordOK
  <2>2. PICK g \in RecordedNames :
              /\ g = Recorded[k] /\ Amount(g, r) \in Nat
              /\ counters' = [counters EXCEPT ![g] = @ + Amount(g, r)]
    BY <1>2, RecordStep
  <2>3. Position(g) = k /\ \A f \in RecordedNames : f # g => Position(f) # k
    BY <2>1, <2>2, FieldFacts DEF Position, RecordedNames
  <2>4. \/ k < 3 /\ place' = place /\ sending'[w].at = k + 1 /\ sending'[w].rows = r
        \/ k = 3 /\ place'[w] # "record"
    <3>0. Len(Recorded) = 3
      BY FieldFacts
    <3>1. CASE /\ ~LastField(w)
               /\ sending' = [sending EXCEPT ![w].at = @ + 1] /\ UNCHANGED place
      <4>1. sending[w] \in [rows : 0 .. MaxRows, at : 0 .. 3]
        BY <1>0
      <4>2. sending'[w] = [sending[w] EXCEPT !.at = @ + 1]
        BY <1>0, <3>1
      <4>3. sending'[w].at = k + 1 /\ sending'[w].rows = r
        BY <4>1, <4>2
      <4>. QED
        BY <2>1, <3>0, <3>1, <4>3 DEF LastField
    <3>2. CASE LastField(w) /\ \E p \in {"slot", "trim"} : Goto(w, p)
      BY <1>0, <3>0, <3>2 DEF LastField, Goto
    <3>. QED
      BY <1>2, <3>1, <3>2 DEF Record
  <2>5. \A v \in Writers : v # w => sending'[v] = sending[v] /\ place'[v] = place[v]
    BY <1>0, <1>2 DEF Record, Goto
  <2>6. \A f \in RecordedNames : \A v \in Writers : v # w => Owed(v, f)' = Owed(v, f)
    BY <2>5 DEF Owed
  <2>. HIDE DEF k, r
  <2>7. Owed(w, g) = Amount(g, r) /\ Owed(w, g)' = 0
    BY <2>1, <2>3, <2>4 DEF Owed, k, r
  <2>8. \A f \in RecordedNames : f # g => Owed(w, f)' = Owed(w, f)
    <3>1. ASSUME NEW f \in RecordedNames, f # g PROVE Owed(w, f)' = Owed(w, f)
      <4>1. Position(f) \in 1 .. 3 /\ Position(f) # k
        BY <1>0, <2>3, <3>1
      <4>2. k + 1 <= Position(f) <=> k <= Position(f)
        BY <2>1, <4>1
      <4>. QED
        BY <2>1, <2>4, <4>1, <4>2 DEF Owed, k, r
    <3>. QED
      BY <3>1
  <2>9. counters'[g] = counters[g] + Amount(g, r)
        /\ \A f \in FieldNames : f # g => counters'[f] = counters[f]
    BY <1>0, <2>2
  <2>10. ASSUME NEW f \in RecordedNames
         PROVE  IsFiniteSet(Debt(f)') /\ truth'[f] = counters'[f] + Cardinality(Debt(f)')
    <3>1. IsFiniteSet(Debt(f)) /\ truth[f] = counters[f] + Cardinality(Debt(f))
      BY DEF DebtOK
    <3>2. /\ Cardinality(Debt(f)) \in Nat /\ IsFiniteSet(Debt(f)')
          /\ Cardinality(Debt(f)') \in Nat
          /\ Owed(w, f)' = 0 => Cardinality(Debt(f)) = Cardinality(Debt(f)') + Owed(w, f)
          /\ Owed(w, f)' = Owed(w, f) => Cardinality(Debt(f)') = Cardinality(Debt(f))
      BY <1>0, <2>6, <3>1, DebtMoves
    <3>3. counters[f] \in Nat /\ f \in FieldNames
      BY <1>0
    <3>4. CASE f = g
      BY <2>1, <2>2, <2>7, <2>9, <3>1, <3>2, <3>3, <3>4
    <3>5. CASE f # g
      BY <2>1, <2>8, <2>9, <3>1, <3>2, <3>3, <3>5
    <3>. QED
      BY <3>4, <3>5
  <2>. QED
    BY <2>10 DEF DebtOK
<1>3. ASSUME NEW w \in Writers, AppendFails(w) \/ File(w) \/ CallFails(w) PROVE DebtOK'
  <2>1. PICK n \in {0, 1}, m \in {0, 1} :
           /\ counters' = [counters EXCEPT !["failed"] = @ + n]
           /\ truth' = [truth EXCEPT !["failed"] = @ + m]
    <3>1. CASE AppendFails(w)
      <4>1. counters' = [counters EXCEPT !["failed"] = @ + 0]
        BY <1>0, <3>1 DEF AppendFails
      <4>. QED
        BY <3>1, <4>1 DEF AppendFails
    <3>2. CASE File(w)
      <4>1. truth' = [truth EXCEPT !["failed"] = @ + 0]
        BY <1>0, <3>2 DEF File
      <4>. QED
        BY <3>2, <4>1 DEF File, Note
    <3>3. CASE CallFails(w)
      BY <3>3 DEF CallFails, Note
    <3>. QED
      BY <1>3, <3>1, <3>2, <3>3
  <2>2. /\ place[w] # "record" /\ sending' = sending
        /\ \E p \in {"slot", "failed"} : place' = [place EXCEPT ![w] = p]
    BY <1>3 DEF AppendFails, File, CallFails, Note, Goto
  <2>3. \A f \in RecordedNames : Debt(f)' = Debt(f)
    <3>1. \A f \in RecordedNames : \A v \in Writers : Owed(v, f)' = Owed(v, f)
      BY <1>0, <2>2 DEF Owed
    <3>. QED
      BY <3>1 DEF Debt
  <2>4. \A f \in RecordedNames : counters'[f] = counters[f] /\ truth'[f] = truth[f]
    BY <1>0, <2>1
  <2>. QED
    BY <2>3, <2>4 DEF DebtOK
<1>4. ASSUME NEW w \in Writers, Claim(w) \/ Slot(w) \/ EndOfRun(w) \/ AppendTaken(w) \/ CallOK(w)
                                  \/ LoseLog(w) \/ SendFailure(w) \/ CancelRun(w)
      PROVE  DebtOK'
  <2>1. /\ UNCHANGED <<counters, truth, sending>> /\ place[w] # "record"
        /\ \E p \in WriterPlaces \ {"record"} : place' = [place EXCEPT ![w] = p]
    BY <1>4 DEF Claim, Slot, EndOfRun, AppendTaken, CallOK, LoseLog, SendFailure, CancelRun,
       Goto, WriterPlaces
  <2>. QED
    BY <1>0, <2>1, DebtStays DEF Owed
<1>5. CASE StartWriters
  <2>1. /\ UNCHANGED <<counters, truth, sending>> /\ \A w \in Writers : place[w] = "claimed"
        /\ place' = [w \in Writers |-> "slot"]
    BY <1>5 DEF StartWriters
  <2>. QED
    BY <2>1, DebtStays DEF Owed
<1>6. CASE UNCHANGED <<counters, truth, sending, place>>
  BY <1>6, DebtStays DEF Owed
<1>. QED
  BY <1>1, <1>2, <1>3, <1>4, <1>5, <1>6 DEF Next, ClaimStep, WriterStep, MainStep, ClaimFails,
     Stop, ReadField, PrintWindow, ReportEnds, Finish, ReportTick, vars, writing

\* The errors the writers have been given and have not filed, as long as the run
\* goes on; once it has ended the gap between the two counts never widens.
Unfiled == {w \in Writers : place[w] = "failed"}
MissedOK ==
    /\ ~cancelled => truth["failed"] = counters["failed"] + Cardinality(Unfiled)
    /\ counters["failed"] <= truth["failed"]
    /\ truth["failed"] <= counters["failed"] + Cardinality(Writers)

\* Some of the writers are no more than all of them.
LEMMA FewerThanWriters ==
    ASSUME NEW S \in SUBSET Writers
    PROVE  IsFiniteSet(S) /\ Cardinality(S) \in Nat /\ Cardinality(S) <= Cardinality(Writers)
BY RunFacts, FS_Subset, FS_CardinalityType

\* What is missing from the errors is inductive on top of the types.
LEMMA MissedStep == WellTyped /\ MissedOK /\ [Next]_vars => MissedOK'
<1>. SUFFICES ASSUME WellTyped, MissedOK, [Next]_vars PROVE MissedOK'
  OBVIOUS
<1>. DEFINE c == counters["failed"]
            t == truth["failed"]
            N == Cardinality(Writers)
<1>0. /\ place \in [Writers -> WriterPlaces] /\ cancelled \in BOOLEAN
      /\ counters \in [FieldNames -> Nat] /\ truth \in [FieldNames -> Nat]
      /\ "failed" \in FieldNames /\ c \in Nat /\ t \in Nat /\ N \in Nat
  <2>1. "failed" \in FieldNames
    BY DEF FieldNames
  <2>. QED
    BY <2>1, RunFacts DEF WellTyped, Typed
<1>a. /\ IsFiniteSet(Unfiled) /\ Cardinality(Unfiled) \in Nat /\ Cardinality(Unfiled) <= N
      /\ IsFiniteSet(Unfiled') /\ Cardinality(Unfiled') \in Nat /\ Cardinality(Unfiled') <= N
  <2>1. Unfiled \in SUBSET Writers /\ Unfiled' \in SUBSET Writers
    BY DEF Unfiled
  <2>. QED
    BY <2>1, FewerThanWriters
<1>1. ASSUME NEW w \in Writers, AppendFails(w) PROVE MissedOK'
  <2>1. c' = c /\ t' = t + (IF cancelled THEN 0 ELSE 1) /\ cancelled' = cancelled
    BY <1>0, <1>1 DEF AppendFails
  <2>2. Unfiled' = Unfiled \union {w} /\ w \notin Unfiled
    BY <1>0, <1>1 DEF AppendFails, Goto, Unfiled
  <2>3. Cardinality(Unfiled') = Cardinality(Unfiled) + 1
    BY <1>a, <2>2, FS_AddElement
  <2>. QED
    BY <1>0, <1>a, <2>1, <2>3 DEF MissedOK
<1>2. ASSUME NEW w \in Writers, File(w) PROVE MissedOK'
  <2>1. c' = c + (IF cancelled THEN 0 ELSE 1) /\ t' = t /\ cancelled' = cancelled
    BY <1>0, <1>2 DEF File, Note
  <2>2. Unfiled' = Unfiled \ {w} /\ w \in Unfiled
    BY <1>0, <1>2 DEF File, Note, Goto, Unfiled
  <2>3. Cardinality(Unfiled') = Cardinality(Unfiled) - 1
    BY <1>a, <2>2, FS_RemoveElement
  <2>. QED
    BY <1>0, <1>a, <2>1, <2>3 DEF MissedOK
<1>3. ASSUME NEW w \in Writers, CallFails(w) PROVE MissedOK'
  <2>1. c' = c + 1 /\ t' = t + 1 /\ cancelled' = cancelled
    BY <1>0, <1>3 DEF CallFails, Note
  <2>2. Unfiled' = Unfiled
    BY <1>0, <1>3 DEF CallFails, Note, Goto, Unfiled
  <2>. QED
    BY <1>0, <1>a, <2>1, <2>2 DEF MissedOK
<1>4. CASE /\ c' = c /\ t' = t /\ Unfiled' = Unfiled
           /\ cancelled' = cancelled \/ cancelled' = TRUE
  BY <1>0, <1>a, <1>4 DEF MissedOK
<1>5. ASSUME NEW w \in Writers, Record(w) PROVE MissedOK'
  <2>1. PICK f \in RecordedNames :
              /\ Amount(f, sending[w].rows) \in Nat
              /\ counters' = [counters EXCEPT ![f] = @ + Amount(f, sending[w].rows)]
    BY <1>5, RecordStep
  <2>2. f # "failed"
    BY DEF RecordedNames
  <2>3. c' = c /\ t' = t /\ cancelled' = cancelled
    BY <1>0, <1>5, <2>1, <2>2 DEF Record
  <2>4. Unfiled' = Unfiled
    BY <1>0, <1>5 DEF Record, Goto, Unfiled
  <2>. QED
    BY <1>4, <2>3, <2>4
<1>6. ASSUME NEW w \in Writers, NEW r \in Batch .. MaxRows, AppendOK(w, r) PROVE MissedOK'
  <2>1. truth'["failed"] = truth["failed"] + 0
    BY <1>0, <1>6 DEF AppendOK
  <2>2. c' = c /\ t' = t /\ cancelled' = cancelled
    BY <1>0, <1>6, <2>1 DEF AppendOK
  <2>3. Unfiled' = Unfiled
    BY <1>0, <1>6 DEF AppendOK, Goto, Unfiled
  <2>. QED
    BY <1>4, <2>2, <2>3
<1>7. ASSUME NEW w \in Writers, Claim(w) \/ Slot(w) \/ EndOfRun(w) \/ AppendTaken(w) \/ CallOK(w)
                                  \/ LoseLog(w) \/ SendFailure(w) \/ CancelRun(w)
      PROVE  MissedOK'
  <2>1. /\ UNCHANGED <<counters, truth>> /\ place[w] # "failed"
        /\ cancelled' = cancelled \/ cancelled' = TRUE
        /\ \E p \in WriterPlaces \ {"failed"} : place' = [place EXCEPT ![w] = p]
    BY <1>7 DEF Claim, Slot, EndOfRun, AppendTaken, CallOK, LoseLog, SendFailure, CancelRun,
       Goto, WriterPlaces
  <2>2. Unfiled' = Unfiled
    BY <1>0, <2>1 DEF Unfiled
  <2>. QED
    BY <1>4, <2>1, <2>2
<1>8. CASE StartWriters
  <2>1. /\ UNCHANGED <<counters, truth, cancelled>> /\ \A w \in Writers : place[w] = "claimed"
        /\ place' = [w \in Writers |-> "slot"]
    BY <1>8 DEF StartWriters
  <2>2. Unfiled' = Unfiled
    BY <2>1 DEF Unfiled
  <2>. QED
    BY <1>4, <2>1, <2>2
<1>9. CASE UNCHANGED <<counters, truth, place>> /\ (cancelled' = cancelled \/ cancelled' = TRUE)
  <2>1. Unfiled' = Unfiled
    BY <1>9 DEF Unfiled
  <2>. QED
    BY <1>4, <1>9, <2>1
<1>. HIDE DEF c, t, N
<1>. QED
  BY <1>1, <1>2, <1>3, <1>5, <1>6, <1>7, <1>8, <1>9 DEF Next, ClaimStep, WriterStep, MainStep,
     ClaimFails, Stop, ReadField, PrintWindow, ReportEnds, Finish, ReportTick, vars, writing

\* The totals printed are the counters, once nobody owes them anything; a run
\* that does not come to its writers has nothing to print.
PrintedOK ==
    /\ main = "claiming" => \A f \in FieldNames : truth[f] = 0 /\ totals[f] = 0
    /\ main = "returned" =>
          /\ \A f \in RecordedNames : totals[f] = truth[f]
          /\ totals["failed"] <= truth["failed"]
          /\ truth["failed"] <= totals["failed"] + Cardinality(Writers)

\* What was printed stays true: nothing moves once drive has returned.
LEMMA PrintedStep ==
    WellTyped /\ PhaseOK /\ LossOK /\ DebtOK /\ MissedOK /\ PrintedOK /\ [Next]_vars => PrintedOK'
<1>. SUFFICES ASSUME WellTyped, PhaseOK, LossOK, DebtOK, MissedOK, PrintedOK, [Next]_vars
              PROVE  PrintedOK'
  OBVIOUS
<1>0. RecordedNames \subseteq FieldNames /\ "failed" \in FieldNames /\ Cardinality(Writers) \in Nat
  BY RunFacts DEF RecordedNames, FieldNames
<1>1. CASE Finish
  <2>1. /\ totals' = counters /\ truth' = truth /\ \A w \in Writers : place[w] = "done"
        /\ main' = "returned"
    BY <1>1 DEF Finish, WritersDone, writing
  <2>2. ASSUME NEW f \in RecordedNames PROVE totals'[f] = truth'[f]
    <3>1. Debt(f) = {}
      BY <2>1 DEF Debt, Owed
    <3>2. Cardinality(Debt(f)) = 0
      BY <3>1, FS_EmptySet
    <3>3. counters[f] \in Nat /\ truth[f] = counters[f] + Cardinality(Debt(f))
      BY DEF DebtOK, WellTyped, Typed, RecordedNames, FieldNames
    <3>. QED
      BY <2>1, <3>2, <3>3
  <2>. QED
    BY <2>1, <2>2 DEF MissedOK, PrintedOK
<1>2. CASE main = "returned"
  <2>1. \A w \in Writers : place[w] \in {"unclaimed", "claimed", "done"}
    BY <1>2 DEF PhaseOK
  <2>2. UNCHANGED <<main, totals, truth>>
    BY <1>2, <2>1 DEF Next, ClaimStep, WriterStep, MainStep, Claim, ClaimFails, Slot, EndOfRun,
       Record, Note, AppendFails, File, CallFails, SendFailure, CancelRun, AppendOK, AppendTaken,
       LoseLog, CallOK, StartWriters, Stop, ReadField, PrintWindow, ReportEnds, Finish,
       ReportTick, vars
  <2>. QED
    BY <1>2, <2>2 DEF PrintedOK
<1>3. ASSUME NEW w \in Writers, ClaimFails(w) PROVE PrintedOK'
  <2>1. main = "claiming" /\ main' = "returned" /\ UNCHANGED <<truth, totals>>
    BY <1>3 DEF ClaimFails, writing, report
  <2>. QED
    BY <1>0, <2>1 DEF PrintedOK
<1>4. CASE main # "returned" /\ ~Finish /\ \A w \in Writers : ~ClaimFails(w)
  <2>1. main' # "returned"
    BY <1>4 DEF Next, ClaimStep, WriterStep, MainStep, Claim, Slot, EndOfRun,
       Record, Note, AppendFails, File, CallFails, SendFailure, CancelRun, AppendOK, AppendTaken,
       LoseLog, CallOK, StartWriters, Stop, ReadField, PrintWindow, ReportEnds,
       ReportTick, vars
  <2>2. ASSUME main' = "claiming" PROVE main = "claiming" /\ UNCHANGED <<truth, totals>>
    <3>1. main = "claiming"
      BY <1>4, <2>2 DEF Next, ClaimStep, WriterStep, MainStep, Claim, Slot, EndOfRun,
         Record, Note, AppendFails, File, CallFails, SendFailure, CancelRun, AppendOK, AppendTaken,
         LoseLog, CallOK, StartWriters, Stop, ReadField, PrintWindow, ReportEnds,
         ReportTick, vars
    <3>2. \A w \in Writers : place[w] \in {"unclaimed", "claimed"}
      BY <3>1 DEF PhaseOK
    <3>. QED
      BY <1>4, <3>1, <3>2 DEF Next, ClaimStep, WriterStep, MainStep, Claim, Slot, EndOfRun,
         Record, Note, AppendFails, File, CallFails, SendFailure, CancelRun, AppendOK, AppendTaken,
         LoseLog, CallOK, StartWriters, Stop, ReadField, PrintWindow, ReportEnds,
         ReportTick, vars, writing, report
  <2>. QED
    BY <2>1, <2>2 DEF PrintedOK
<1>. QED
  BY <1>1, <1>2, <1>3, <1>4

\* The accounts of a run that has not begun are empty.
LEMMA AccountsInit == Init => DebtOK /\ MissedOK /\ PrintedOK
<1>. SUFFICES ASSUME Init PROVE DebtOK /\ MissedOK /\ PrintedOK
  OBVIOUS
<1>1. \A f \in RecordedNames : Debt(f) = {}
  BY DEF Init, Debt, Owed
<1>2. IsFiniteSet({}) /\ Cardinality({}) = 0
  BY FS_EmptySet
<1>3. \A f \in FieldNames : counters[f] = 0 /\ truth[f] = 0 /\ totals[f] = 0
  BY FieldFacts DEF Init
<1>4. RecordedNames \subseteq FieldNames /\ "failed" \in FieldNames
  BY DEF RecordedNames, FieldNames
<1>5. DebtOK
  BY <1>1, <1>2, <1>3, <1>4 DEF DebtOK
<1>6. Unfiled = {}
  BY DEF Init, Unfiled
<1>7. MissedOK
  BY <1>2, <1>3, <1>4, <1>6, RunFacts DEF MissedOK
<1>. QED
  BY <1>3, <1>5, <1>7 DEF Init, PrintedOK

\* No writer outlives the run (drive's wg.Wait), so the totals are what the
\* appends answered nil wrote, entry for entry and row for row, although record
\* adds field by field and any number of writers add at once.
THEOREM TotalsAreExactCorrect == Spec => []TotalsAreExact
<1>1. PhaseOK /\ PrintedOK => TotalsAreExact
  <2>1. \A i \in DOMAIN Recorded : Recorded[i] \in RecordedNames
    BY FieldFacts DEF RecordedNames
  <2>. QED
    BY <2>1 DEF PhaseOK, PrintedOK, TotalsAreExact
<1>. QED
  BY <1>1, AccountsInit, TypeInit, LossInit, TypeStep, LossStep, DebtStep, MissedStep,
     PrintedStep, PTL DEF Spec

\* Of an append that fails, the answer and the question whether the run has ended
\* are two moments (writer.append): the run's end is never counted as an error of
\* an append, and of the other errors at most one of each writer goes uncounted.
THEOREM FailuresAreCountedCorrect == Spec => []FailuresAreCounted
<1>1. PrintedOK => FailuresAreCounted
  BY DEF PrintedOK, FailuresAreCounted
<1>. QED
  BY <1>1, AccountsInit, TypeInit, LossInit, TypeStep, LossStep, DebtStep, MissedStep,
     PrintedStep, PTL DEF Spec

===============================================================================

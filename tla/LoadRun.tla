-------------------------------- MODULE LoadRun --------------------------------
(***************************************************************************)
(* One run of the load tool: drive and its writers, each a goroutine with a *)
(* log of its own, what they share (the context, the failures channel, the  *)
(* counters), and the reporter that reads the counters while they move.     *)
(*                                                                         *)
(* A writer's position in its log is LoadWriter's matter and the times of   *)
(* its slots are Pacer's: here a slot comes at any time and a call is       *)
(* answered anything.  Of the counters, three of record's five and the       *)
(* errors: bytes stands before rows and cut after it, and these, like the    *)
(* counters that are added to in one place each, are added to and read in    *)
(* the same way.                                                            *)
(***************************************************************************)
EXTENDS Integers, Sequences, FiniteSets

CONSTANTS
    Writers,     \* one per log (-logs)
    Batch,       \* entries per append (-batch)
    MaxRows,     \* bound: the rows a batch may become
    MaxSlots,    \* bound: the slots the writers take together
    MaxReports   \* bound: the lines printed before the totals

ASSUME WritersAssumption == IsFiniteSet(Writers)
ASSUME RunBounds == /\ Batch \in Nat \ {0} /\ MaxRows \in Nat
                    /\ MaxSlots \in Nat /\ MaxReports \in Nat

VARIABLES
    main,       \* where drive is
    result,     \* what it returned: "none", "nil" or "error"
    place,      \* place[w]: where writer w is
    left,       \* the slots still to be taken
    sending,    \* sending[w]: what record has still to add, and to which fields
    cancelled,  \* whether the run's context has ended
    failures,   \* the errors in the channel
    counters,   \* the counters, by field
    reading,    \* the fields of the reading under way, in order
    previous,   \* the reading before it
    reports,    \* the lines printed
    totals,     \* the last line
    truth,      \* history: what answered appends wrote, and the errors but the run's end
    lost        \* history: the writers that were told ErrFenced

writing == <<place, left, sending, failures, truth, lost>>
report  == <<reading, previous, reports, totals>>
vars    == <<main, result, place, left, sending, cancelled, failures, counters,
             reading, previous, reports, totals, truth, lost>>

\* The order record adds in, bytes and cut left out, and the order snapshot
\* reads in.
Recorded == <<"appends", "entries", "rows">>
Fields   == Recorded \o <<"failed">>
Zero     == [f \in {Fields[i] : i \in DOMAIN Fields} |-> 0]

\* A writer with nothing to record.
Idle == [rows |-> 0, at |-> 0]

\* What one batch of r rows adds.
Amount(f, r) == CASE f = "appends" -> 1 [] f = "entries" -> Batch [] f = "rows" -> r

Goto(w, p) == place' = [place EXCEPT ![w] = p]

-----------------------------------------------------------------------------
(* drive, up to the writers. *)

Claim(w) ==
    /\ main = "claiming" /\ place[w] = "unclaimed"
    /\ Goto(w, "claimed")
    /\ UNCHANGED <<main, result, left, sending, cancelled, failures, counters, report, truth, lost>>

ClaimFails(w) ==
    /\ main = "claiming" /\ place[w] = "unclaimed"
    /\ main' = "returned" /\ result' = "error"
    /\ UNCHANGED <<writing, cancelled, counters, report>>

\* The goroutines start, and report takes its first reading beside them.
StartWriters ==
    /\ main = "claiming" /\ \A w \in Writers : place[w] = "claimed"
    /\ main' = "reading"
    /\ place' = [w \in Writers |-> "slot"]
    /\ UNCHANGED <<result, left, sending, cancelled, failures, counters, report, truth, lost>>

\* A signal or the run's deadline.
Stop ==
    /\ main # "returned" /\ ~cancelled /\ cancelled' = TRUE
    /\ UNCHANGED <<main, result, writing, counters, report>>

-----------------------------------------------------------------------------
(* A writer. *)

\* A slot comes; together with the run's end it may still be taken.
Slot(w) ==
    /\ place[w] = "slot" /\ left > 0
    /\ left' = left - 1
    /\ Goto(w, "append")
    /\ UNCHANGED <<main, result, sending, cancelled, failures, counters, report, truth, lost>>

\* pace.wait returns the context's error, and run nil.
EndOfRun(w) ==
    /\ place[w] = "slot" /\ cancelled
    /\ Goto(w, "done")
    /\ UNCHANGED <<main, result, left, sending, cancelled, failures, counters, report, truth, lost>>

\* The append is answered nil, and its r rows are there to be recorded.
AppendOK(w, r) ==
    /\ place[w] = "append"
    /\ Goto(w, "record")
    /\ sending' = [sending EXCEPT ![w] = [rows |-> r, at |-> 1]]
    /\ truth' = [f \in DOMAIN truth |->
                    truth[f] + (IF f = "failed" THEN 0 ELSE Amount(f, r))]
    /\ UNCHANGED <<main, result, left, cancelled, failures, counters, report, lost>>

LastField(w) == sending[w].at = Len(Recorded)

\* record adds field by field, and a trim may be due after it.
Record(w) ==
    /\ place[w] = "record"
    /\ LET f == Recorded[sending[w].at]
       IN  counters' = [counters EXCEPT ![f] = @ + Amount(f, sending[w].rows)]
    /\ \/ /\ ~LastField(w)
          /\ sending' = [sending EXCEPT ![w].at = @ + 1] /\ UNCHANGED place
       \/ /\ LastField(w)
          /\ sending' = [sending EXCEPT ![w] = Idle]
          /\ \E p \in {"slot", "trim"} : Goto(w, p)
    /\ UNCHANGED <<main, result, left, cancelled, failures, report, truth, lost>>

\* note files n errors.
Note(w, n) ==
    /\ Goto(w, "slot")
    /\ counters' = [counters EXCEPT !["failed"] = @ + n]
    /\ UNCHANGED <<main, result, left, sending, cancelled, failures, report, lost>>

\* Append returns an error that is none of the three refusals: the call has
\* failed of itself as long as the run goes on.
AppendFails(w) ==
    /\ place[w] = "append" /\ Goto(w, "failed")
    /\ truth' = [truth EXCEPT !["failed"] = @ + (IF cancelled THEN 0 ELSE 1)]
    /\ UNCHANGED <<main, result, left, sending, cancelled, failures, counters, report, lost>>

\* Variant: the deadline an append inherited from the run is an error too.
FileAlways(w) == place[w] = "failed" /\ Note(w, 1) /\ UNCHANGED truth

\* The context is asked only now: the run may have ended since Append returned.
File(w) == place[w] = "failed" /\ Note(w, IF cancelled THEN 0 ELSE 1) /\ UNCHANGED truth

\* ErrAlreadyWritten, and ErrGap, are followed by a read.
AppendTaken(w) ==
    /\ place[w] = "append" /\ Goto(w, "resync")
    /\ UNCHANGED <<main, result, left, sending, cancelled, failures, counters, report, truth, lost>>

CallOK(w) ==
    /\ place[w] \in {"resync", "trim"} /\ Goto(w, "slot")
    /\ UNCHANGED <<main, result, left, sending, cancelled, failures, counters, report, truth, lost>>

\* A read or a trim that fails is an error, the run's end or not.
CallFails(w) ==
    /\ place[w] \in {"resync", "trim"} /\ Note(w, 1)
    /\ truth' = [truth EXCEPT !["failed"] = @ + 1]

\* ErrFenced ends the writer's run.
LoseLog(w) ==
    /\ place[w] = "append" /\ Goto(w, "failing")
    /\ lost' = lost \union {w}
    /\ UNCHANGED <<main, result, left, sending, cancelled, failures, counters, report, truth>>

\* Variant: the channel holds one error.
failuresCapOne == 1

\* The channel holds an error of every writer.
failuresCap == Cardinality(Writers)

\* The goroutine hands its error over, before wg.Done.
SendFailure(w) ==
    /\ place[w] = "failing" /\ failures < failuresCap
    /\ failures' = failures + 1
    /\ Goto(w, "cancelling")
    /\ UNCHANGED <<main, result, left, sending, cancelled, counters, report, truth, lost>>

\* And ends the run for the others.
CancelRun(w) ==
    /\ place[w] = "cancelling"
    /\ cancelled' = TRUE
    /\ Goto(w, "done")
    /\ UNCHANGED <<main, result, left, sending, failures, counters, report, truth, lost>>

-----------------------------------------------------------------------------
(* report, and the end of drive. *)

\* snapshot loads the fields one after the other.
ReadField ==
    /\ main = "reading" /\ Len(reading) < Len(Fields)
    /\ reading' = Append(reading, counters[Fields[Len(reading) + 1]])
    /\ UNCHANGED <<main, result, writing, cancelled, counters, previous, reports, totals>>

\* Variant: the counters are taken back once they are printed.
PrintWindowReset ==
    /\ main = "reading" /\ Len(reading) = Len(Fields)
    /\ previous' = reading /\ reading' = <<>>
    /\ main' = "reporting" /\ counters' = Zero
    /\ UNCHANGED <<result, writing, cancelled, reports, totals>>

\* The window since the reading before is printed.
PrintWindow ==
    /\ main = "reading" /\ Len(reading) = Len(Fields)
    /\ previous' = reading /\ reading' = <<>>
    /\ main' = "reporting"
    /\ UNCHANGED <<result, writing, cancelled, counters, reports, totals>>

\* The ticker fires, and it may do so together with the run's end.
ReportTick ==
    /\ main = "reporting" /\ reports < MaxReports
    /\ reports' = reports + 1
    /\ main' = "reading"
    /\ UNCHANGED <<result, writing, cancelled, counters, reading, previous, totals>>

ReportEnds ==
    /\ main = "reporting" /\ cancelled
    /\ main' = "waiting"
    /\ UNCHANGED <<result, writing, cancelled, counters, report>>

\* Variant: the writers are not waited for.
WritersDoneOne == \E w \in Writers : place[w] = "done"

\* Variant: a writer is done before it has handed its error over.
WritersDoneEarly == \A w \in Writers : place[w] \in {"failing", "cancelling", "done"}

\* wg.Wait returns.
WritersDone == \A w \in Writers : place[w] = "done"

\* The totals are printed, and the first failure is the run's.
Finish ==
    /\ main = "waiting" /\ WritersDone
    /\ totals' = counters
    /\ result' = IF failures > 0 THEN "error" ELSE "nil"
    /\ main' = "returned"
    /\ UNCHANGED <<writing, cancelled, counters, reading, previous, reports>>

-----------------------------------------------------------------------------
Init ==
    /\ main = "claiming" /\ result = "none"
    /\ place = [w \in Writers |-> "unclaimed"]
    /\ left = MaxSlots /\ sending = [w \in Writers |-> Idle]
    /\ cancelled = FALSE /\ failures = 0
    /\ counters = Zero /\ totals = Zero /\ truth = Zero
    /\ reading = <<>> /\ previous = <<>> /\ reports = 0
    /\ lost = {}

\* The steps a writer takes of itself, every call being answered in the end.
WriterStep(w) ==
    \/ EndOfRun(w) \/ Record(w) \/ SendFailure(w) \/ CancelRun(w)
    \/ (\E r \in Batch .. MaxRows : AppendOK(w, r))
    \/ AppendFails(w) \/ File(w) \/ AppendTaken(w) \/ LoseLog(w)
    \/ CallOK(w) \/ CallFails(w)

MainStep == ReadField \/ PrintWindow \/ ReportEnds \/ Finish

ClaimStep(w) == Claim(w) \/ ClaimFails(w)

Next ==
    \/ \E w \in Writers : ClaimStep(w) \/ Slot(w) \/ WriterStep(w)
    \/ StartWriters \/ Stop \/ MainStep \/ ReportTick

Spec == Init /\ [][Next]_vars

\* Goroutines run, calls return by their deadline, and a select whose two
\* channels are both ready does not pass over the same one for ever.
FairSpec ==
    /\ Spec
    /\ WF_vars(StartWriters) /\ WF_vars(MainStep) /\ SF_vars(ReportEnds)
    /\ \A w \in Writers : WF_vars(ClaimStep(w)) /\ WF_vars(WriterStep(w))

-----------------------------------------------------------------------------
\* The types.
TypeOK ==
    /\ main \in {"claiming", "reading", "reporting", "waiting", "returned"}
    /\ result \in {"none", "nil", "error"}
    /\ place \in [Writers -> {"unclaimed", "claimed", "slot", "append", "record", "failed",
                              "resync", "trim", "failing", "cancelling", "done"}]
    /\ left \in 0 .. MaxSlots
    /\ sending \in [Writers -> [rows : 0 .. MaxRows, at : 0 .. Len(Recorded)]]
    /\ cancelled \in BOOLEAN /\ failures \in 0 .. Cardinality(Writers)
    /\ \A c \in {counters, totals, truth} : c \in [DOMAIN Zero -> Nat]
    /\ reading \in Seq(Nat) /\ previous \in Seq(Nat) /\ reports \in 0 .. MaxReports
    /\ lost \subseteq Writers

\* No writer outlives the run, whose pool is then closed, so the totals are what
\* the appends answered nil wrote, entry for entry and row for row, also of a run
\* that lost its logs.  A batch that landed under a lost answer is in the log and
\* not in the totals, which count it as an ack or not at all.
TotalsAreExact ==
    main = "returned" =>
        /\ \A w \in Writers : place[w] \in {"unclaimed", "claimed", "done"}
        /\ \A i \in DOMAIN Recorded : totals[Recorded[i]] = truth[Recorded[i]]

\* The run's end is not an error of the appends it cuts off, and of the errors
\* that are none of its making at most one of each writer is missing: the call
\* had failed before the run ended, and the writer asked after it.
FailuresAreCounted ==
    main = "returned" =>
        /\ totals["failed"] <= truth["failed"]
        /\ truth["failed"] <= totals["failed"] + Cardinality(Writers)

\* A window is never negative, which as an unsigned number would be huge: a
\* reading that runs beside the writers is at least the one before it.
WindowsNeverWrap ==
    /\ TypeOK
    /\ \A i \in DOMAIN reading \intersect DOMAIN previous : reading[i] >= previous[i]

\* A run that lost a log returns an error, whichever writer lost it and however
\* many did; any other error is that of a run which has appended nothing.
ErrorTellsWhatHappened ==
    main = "returned" =>
        /\ result = "nil" => lost = {}
        /\ result = "error" => lost # {} \/ truth["appends"] = 0

\* A run that is stopped ends, and so does one that lost any of its logs.
RunEnds == (cancelled \/ lost # {}) ~> main = "returned"

===============================================================================

-------------------------------- MODULE Rules --------------------------------
(***************************************************************************)
(* The rules of the package that are pure functions of values: the ring's   *)
(* arithmetic on the registry row (ring.go), the checks made before a       *)
(* statement runs and the diagnoses made after one that matched no row      *)
(* (refuse.go).  An error is modelled by its identity, the value errors.Is  *)
(* tells apart, and "nil" is Go's nil error.                                *)
(***************************************************************************)
EXTENDS Integers

\* Entries one half may run to before the ring turns (rotateAfterEntries).
CONSTANT RotateAfter

ASSUME RotateAfterAssumption == RotateAfter \in Nat \ {0}

FirstSeqno == 1

-----------------------------------------------------------------------------
(* The ring. *)

\* The two halves of the ring.
Slots == {0, 1}

\* The registry row of one log, the ordinal left out: it only names the tables.
logState == [epoch : Nat, last_seqno : Nat, trim_upto : Nat,
             cur_slot : Slots, cur_lo : Nat, prev_hi : Nat]

prevSlot(st) == 1 - st.cur_slot

\* Variant: off by one, the last entry of the other half not counted.
prevEmptyEarly(st) == st.prev_hi > 0 /\ st.trim_upto >= st.cur_lo - 2

\* A trim has passed everything the other half holds; prev_hi = 0 says there
\* is no other half to empty.
prevEmpty(st) == st.prev_hi > 0 /\ st.trim_upto >= st.cur_lo - 1

ringFull(st) == st.last_seqno - st.cur_lo + 1 >= RotateAfter

canRotate(st) == st.prev_hi = 0 /\ ringFull(st)

\* Variant: the rotation is decided apart from the truncation.
reclaimStepsApart(st, mayTruncate) ==
    [truncate |-> mayTruncate /\ prevEmpty(st), rotate |-> ringFull(st)]

\* Both steps come from one answer: the rotation is decided on the state the
\* truncation leaves behind, so it never follows one that did not happen.
reclaimSteps(st, mayTruncate) ==
    LET truncate == mayTruncate /\ prevEmpty(st)
        after    == IF truncate THEN [st EXCEPT !.prev_hi = 0] ELSE st
    IN  [truncate |-> truncate, rotate |-> canRotate(after)]

-----------------------------------------------------------------------------
(* The checks and the refusals.  checkLogID has no counterpart: every id of *)
(* the model is one the package admits.                                     *)

\* Epoch zero is nobody's.
checkFence(epoch) == epoch # 0

\* Variant: an empty batch is let through.
checkAppendAnyCount(epoch, first, payloads) == epoch # 0 /\ first >= FirstSeqno

checkAppend(epoch, first, payloads) ==
    /\ epoch # 0
    /\ first >= FirstSeqno
    /\ payloads # 0

\* The last seqno of a batch, which checkAppend returns.
lastOf(first, payloads) == first + payloads - 1

\* A trim below the first seqno reaches no entry.
checkTrim(upTo) == upTo >= FirstSeqno

checkRead(limit) == limit > 0

\* A read below the first seqno is clamped to it rather than refused.
readStart(from) == IF from >= FirstSeqno THEN from ELSE FirstSeqno

fenceRefusal(held, epoch) == IF held > epoch THEN "ErrFenced" ELSE "nil"

\* Variant: ErrAlreadyWritten is asked before ErrFenced.
appendRefusalWrittenFirst(epoch, first, owner, written) ==
    IF written >= first                THEN "ErrAlreadyWritten"
    ELSE IF owner = 0 \/ owner # epoch THEN "ErrFenced"
    ELSE IF written < first - 1        THEN "ErrGap"
    ELSE "nil"

\* Variant: any epoch that has fenced the log may append to it.
appendRefusalAnyOwner(epoch, first, owner, written) ==
    IF owner = 0                  THEN "ErrFenced"
    ELSE IF written >= first      THEN "ErrAlreadyWritten"
    ELSE IF written < first - 1   THEN "ErrGap"
    ELSE "nil"

\* The order of the cases is the promise: ErrFenced outranks the rest.
appendRefusal(epoch, first, owner, written) ==
    IF owner = 0 \/ owner # epoch THEN "ErrFenced"
    ELSE IF written >= first      THEN "ErrAlreadyWritten"
    ELSE IF written < first - 1   THEN "ErrGap"
    ELSE "nil"

=============================================================================

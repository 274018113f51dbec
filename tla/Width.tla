-------------------------------- MODULE Width --------------------------------
(***************************************************************************)
(* Integers of the width the code gives them: a Seqno or an Epoch is an     *)
(* unsigned word, the registry's bigint a signed one, and a call converts   *)
(* between the two on its way to PostgreSQL and back.  One caller, any      *)
(* arguments the types admit; LogStore has the interleavings, with integers *)
(* that have no width.                                                      *)
(*                                                                         *)
(* Only arguments are large.  A log that long cannot be written, so the     *)
(* bound on its length is well below the top of the signed range.           *)
(***************************************************************************)
EXTENDS Rules, FiniteSets

CONSTANTS
    W,        \* the bits of a word
    Epochs,   \* the epochs calls are made with, words
    Batches,  \* the sizes of batches
    MaxLast   \* bound: the length of the log

ASSUME WidthAssumption == W \in Nat \ {0, 1, 2}
ASSUME LengthAssumption == Batches \subseteq Nat \ {0} /\ MaxLast \in 1 .. 2^(W - 2)
\* What the proofs use of 2^W, the provers having no theory of powers.
ASSUME PowersOfTwo == /\ 2^(W - 2) \in Nat \ {0, 1}
                      /\ 2^(W - 1) = 2 * 2^(W - 2) /\ 2^W = 2 * 2^(W - 1)
ASSUME EpochWords      == Epochs \subseteq 0 .. 2^W - 1

VARIABLES
    row,   \* the registry row
    rows,  \* the entry rows, of both halves
    call,  \* the last call and its arguments
    res,   \* its error
    got    \* the seqnos a read returned, the unsigned words of the bigints

widthVars == <<row, rows, call, res, got>>

-----------------------------------------------------------------------------
(* Words. *)

Uint == 0 .. 2^W - 1
Int64 == -(2^(W - 1)) .. 2^(W - 1) - 1

\* Go's int64(n) and uint64(n).
int64(n)  == IF n >= 2^(W - 1) THEN n - 2^W ELSE n
uint64(n) == n % 2^W

\* Variant: the 1 is on the other side of the comparison.
ringFullWordMoved(st) == uint64(st.last_seqno - st.cur_lo) >= RotateAfter - 1

\* ring.go on words: the subtraction wraps, and the + 1 brings it back.
ringFullWord(st) == uint64(uint64(st.last_seqno - st.cur_lo) + 1) >= RotateAfter

prevEmptyWord(st) == st.prev_hi > 0 /\ st.trim_upto >= uint64(st.cur_lo - 1)

-----------------------------------------------------------------------------
(* The calls. *)

Idle == [op |-> "none"]

\* The call c is answered e and the seqnos, when no other is being looked at.
Answer(c, e, seqnos) == call = Idle /\ call' = c /\ res' = e /\ got' = seqnos

\* The caller has seen the answer.
Return ==
    /\ call # Idle
    /\ call' = Idle /\ res' = "nil" /\ got' = {}
    /\ UNCHANGED <<row, rows>>

\* The UPDATE compares bigints, the diagnosis words.
Fence(epoch) ==
    /\ LET c == [op |-> "fence", epoch |-> epoch]
       IN  \/ ~checkFence(epoch) /\ Answer(c, "ErrZeroEpoch", {}) /\ UNCHANGED row
           \/ /\ checkFence(epoch) /\ row.epoch <= int64(epoch)
              /\ row' = [row EXCEPT !.epoch = int64(epoch)]
              /\ Answer(c, "nil", {})
           \/ /\ checkFence(epoch) /\ row.epoch > int64(epoch)
              /\ Answer(c, IF fenceRefusal(uint64(row.epoch), epoch) = "nil"
                           THEN "unexplained" ELSE "ErrFenced", {})
              /\ UNCHANGED row
    /\ UNCHANGED rows

\* Variant: the UPDATE tests that the batch ends above the log, not that it
\* starts at its end.
AppendMatchesEnd(epoch, first, last) ==
    row.epoch = int64(epoch) /\ row.last_seqno < int64(last)

\* The WHERE of the append statement.
AppendMatches(epoch, first, last) ==
    row.epoch = int64(epoch) /\ row.last_seqno = int64(uint64(first - 1))

\* The batch's last seqno wraps like the word it is.
AppendBatch(epoch, first, n) ==
    LET c    == [op |-> "append", epoch |-> epoch, first |-> first, n |-> n]
        last == uint64(first + n - 1)
        why  == appendRefusal(epoch, first, uint64(row.epoch), uint64(row.last_seqno))
    IN  \/ /\ ~checkAppend(epoch, first, n)
           /\ Answer(c, "malformed", {}) /\ UNCHANGED <<row, rows>>
        \/ /\ checkAppend(epoch, first, n) /\ AppendMatches(epoch, first, last)
           /\ row.last_seqno + n <= MaxLast
           /\ row' = [row EXCEPT !.last_seqno = int64(last)]
           /\ rows' = rows \union {[seqno   |-> int64(uint64(first + i)),
                                    epoch   |-> int64(epoch),
                                    payload |-> "bytes"] : i \in 0 .. n - 1}
           /\ Answer(c, "nil", {})
        \/ /\ checkAppend(epoch, first, n) /\ ~AppendMatches(epoch, first, last)
           /\ Answer(c, IF why = "nil" THEN "unexplained" ELSE why, {})
           /\ UNCHANGED <<row, rows>>

\* Variant: the watermark is not kept from moving back.
WatermarkAnywhere(n) == IF n <= row.last_seqno THEN n ELSE row.last_seqno

\* GREATEST(trim_upto, LEAST($1, last_seqno)), on bigints.
Watermark(n) ==
    LET clamped == IF n <= row.last_seqno THEN n ELSE row.last_seqno
    IN  IF row.trim_upto >= clamped THEN row.trim_upto ELSE clamped

\* reclaim on the row w, alone: which half is emptied, and whether the ring
\* turns.  It takes the rows of the half below cur_lo.
Reclaimed(w) ==
    LET truncate == prevEmptyWord(w)
        after    == IF truncate THEN [w EXCEPT !.prev_hi = 0] ELSE w
        rotate   == after.prev_hi = 0 /\ ringFullWord(after)
    IN  /\ rows' = IF truncate THEN {r \in rows : r.seqno >= w.cur_lo} ELSE rows
        /\ row' = IF rotate
                  THEN [after EXCEPT !.cur_slot = 1 - @, !.prev_hi = after.last_seqno,
                                     !.cur_lo = after.last_seqno + 1]
                  ELSE after

Trim(upTo) ==
    /\ \/ ~checkTrim(upTo) /\ UNCHANGED <<row, rows>>
       \/ checkTrim(upTo) /\ Reclaimed([row EXCEPT !.trim_upto = Watermark(int64(upTo))])
    /\ Answer([op |-> "trim", upTo |-> upTo], "nil", {})

\* The bounds of a read are words until they reach the query.
readLo(from) ==
    LET start == readStart(from)
    IN  IF start >= uint64(row.trim_upto + 1) THEN start ELSE uint64(row.trim_upto + 1)
readHi(from, limit) == uint64(uint64(readLo(from) + limit) - 1)

Readable(from, limit) ==
    {r.seqno : r \in {q \in rows : /\ int64(readLo(from)) <= q.seqno
                                   /\ q.seqno <= int64(readHi(from, limit))}}

ReadFrom(from, limit) ==
    /\ LET c == [op |-> "read", from |-> from, limit |-> limit]
       IN  \/ ~checkRead(limit) /\ Answer(c, "malformed", {})
           \/ checkRead(limit) /\ Answer(c, "nil", {uint64(n) : n \in Readable(from, limit)})
    /\ UNCHANGED <<row, rows>>

-----------------------------------------------------------------------------
WidthInit ==
    /\ row = [epoch |-> 0, last_seqno |-> 0, trim_upto |-> 0,
              cur_slot |-> 0, cur_lo |-> FirstSeqno, prev_hi |-> 0]
    /\ rows = {}
    /\ call = Idle /\ res = "nil" /\ got = {}

WidthNext ==
    \/ Return
    \/ \E epoch \in Epochs : Fence(epoch)
    \/ \E epoch \in Epochs, first \in Uint, n \in Batches : AppendBatch(epoch, first, n)
    \/ \E upTo \in Uint : Trim(upTo)
    \/ \E from \in Uint, limit \in Int64 : ReadFrom(from, limit)

WidthSpec == WidthInit /\ [][WidthNext]_widthVars

-----------------------------------------------------------------------------
\* Every number is a word, and none the registry keeps is negative.
WidthTypeOK ==
    /\ row \in logState /\ \A f \in DOMAIN row : row[f] \in Int64
    /\ \A r \in rows : r.seqno \in Int64
    /\ got \subseteq Uint

\* Whatever was passed in, the registry keeps words that are no negative bigints,
\* and on every row there is they wrap to what the integers say: ringFull on a
\* log nothing was appended to included.
WordsAgree ==
    /\ WidthTypeOK
    /\ ringFullWord(row) = ringFull(row) /\ prevEmptyWord(row) = prevEmpty(row)

\* An append is answered the truth about the log it met.
AppendIsTrue ==
    call.op = "append" /\ res # "malformed" =>
        \/ res = "nil" /\ row.last_seqno = call.first + call.n - 1 /\ row.epoch = call.epoch
        \/ res # "nil" /\ res = appendRefusal(call.epoch, call.first, row.epoch, row.last_seqno)

\* The entries a read with these arguments is to return: the first limit above
\* the watermark from there on.
Promised(from, limit) ==
    LET there == {n \in 1 .. row.last_seqno : n > row.trim_upto /\ n >= from}
    IN  {n \in there : Cardinality({k \in there : k < n}) < limit}

\* A read whose window ends below the top of the signed range returns what the
\* log holds there, and one whose window does not wrap nothing else, of what a
\* trim has passed or is below from.
ReadIsTrue ==
    LET end == readLo(call.from) + call.limit
    IN  call.op = "read" /\ res = "nil" =>
            /\ end <= 2^(W - 1) => got = Promised(call.from, call.limit)
            /\ end <= 2^W => got \subseteq Promised(call.from, call.limit)

\* A fence that took the log is told so, and a refused one that a higher epoch
\* has it.  An epoch in the upper half of the unsigned range, a negative bigint,
\* never takes it, and what its caller is told gives no reason.
FenceIsTrue ==
    call.op = "fence" /\ res # "ErrZeroEpoch" =>
        \/ res = "nil" /\ row.epoch = call.epoch
        \/ res = "ErrFenced" /\ row.epoch > call.epoch
        \/ res = "unexplained" /\ call.epoch >= 2^(W - 1)

\* Appends, fences and reads are answered the truth about the log they met,
\* whatever words they were made with: an append whose seqno or batch wraps is a
\* gap or an overlap and never goes in, the UPDATE of a fence and its diagnosis
\* disagree about no epoch below the upper half, and a read is exact unless its
\* window reaches into that half, and has no entry too many unless it wraps.
AnswersAreTrue == AppendIsTrue /\ FenceIsTrue /\ ReadIsTrue

\* Trim removes the entries at or below upTo.
TrimRemoves ==
    call.op = "trim" => \A n \in Readable(FirstSeqno, MaxLast) : n > call.upTo

\* Whatever words are passed, the log does what the contract says.
Log == INSTANCE FencedLog WITH
    Epochs   <- 1 .. 2^(W - 1) - 1,
    Payloads <- {"bytes"},
    MaxSeqno <- MaxLast,
    exists   <- TRUE,
    owner    <- row.epoch,
    last     <- row.last_seqno,
    low      <- row.trim_upto,
    entries  <- {r \in rows : r.seqno > row.trim_upto}

LogOfWords == [][Log!Next]_(Log!absVars)

=============================================================================

---------------------------- MODULE ContractProofs ----------------------------
(***************************************************************************)
(* Proofs about what LogStore's callers can rely on: the rows of the log,   *)
(* what a call is told, what a read returns, and that the store implements  *)
(* FencedLog.  The ring and the locks are LogStoreProofs'.                  *)
(***************************************************************************)
EXTENDS LogStoreProofs

\* What the ring's proof has established by the time a step is taken.
RingOK == TypeOK /\ RowLockInv /\ RingInv

-----------------------------------------------------------------------------
(* The rows of both halves. *)

\* The rows an append adds.
BatchRows(c) == {Batch(c)[i] : i \in 1 .. arg[c].count}

\* The log's rows are those of the current half and those of the other.
LEMMA RowsOfHalves ==
    ASSUME Types
    PROVE  Rows = {heap[row.cur_slot][i] : i \in 1 .. Len(heap[row.cur_slot])}
                    \union {heap[prevSlot(row)][i] : i \in 1 .. Len(heap[prevSlot(row)])}
<1>1. Slots = {row.cur_slot, prevSlot(row)}
  BY RingTypes DEF Slots
<1>. QED
  BY <1>1 DEF Rows

\* Every row is an entry with a seqno up to the log's end, in one place by its
\* seqno; and from the first row of the other half on no seqno is left out.
LEMMA RowsNumbered ==
    ASSUME Types, RingInv
    PROVE  /\ Rows \subseteq Entry
           /\ \A r \in Rows : 1 <= r.seqno /\ r.seqno <= row.last_seqno
           /\ \A r, q \in Rows : r.seqno = q.seqno => r = q
           /\ \E low \in Nat :
                /\ low <= row.trim_upto + 1
                /\ \A r \in Rows : low <= r.seqno
                /\ \A n \in low .. row.last_seqno : \E r \in Rows : r.seqno = n
<1>. DEFINE cur  == heap[row.cur_slot]
            prev == heap[prevSlot(row)]
            mid  == row.cur_lo
            end  == row.last_seqno
            low  == mid - Len(prev)
<1>1. /\ end \in Nat /\ mid \in Nat /\ row.trim_upto \in Nat
      /\ Len(cur) \in Nat /\ Len(prev) \in Nat /\ low \in Int
  BY RingTypes
<1>2. Len(cur) = end - mid + 1 /\ \A i \in 1 .. Len(cur) : cur[i].seqno = mid + i - 1
  BY Zenon DEF RingInv, CurHalf
<1>3. \A i \in 1 .. Len(prev) : prev[i].seqno = low + i - 1
  BY Zenon DEF RingInv, PrevHalf
<1>4. low <= row.trim_upto + 1 /\ 1 <= low
  BY Zenon DEF RingInv, PrevHalf, FirstSeqno
<1>5. Rows = {cur[i] : i \in 1 .. Len(cur)} \union {prev[i] : i \in 1 .. Len(prev)}
  BY RowsOfHalves
<1>6. cur \in Seq(Entry) /\ prev \in Seq(Entry)
  BY RingTypes
<1>7. Rows \subseteq Entry
  BY <1>5, <1>6
<1>8. low + Len(prev) = mid
  BY <1>1
<1>. HIDE DEF cur, prev, mid, end, low
<1>9. \A r \in Rows : \/ \E i \in 1 .. Len(cur) : r = cur[i] /\ r.seqno = mid + i - 1
                      \/ \E i \in 1 .. Len(prev) : r = prev[i] /\ r.seqno = low + i - 1
  BY <1>2, <1>3, <1>5, Zenon
<1>10. \A r \in Rows : low <= r.seqno /\ r.seqno <= end
  BY <1>1, <1>2, <1>4, <1>8, <1>9
<1>11. ASSUME NEW r \in Rows, NEW q \in Rows, r.seqno = q.seqno PROVE r = q
  <2>1. \A x \in Rows : x.seqno >= mid => \E i \in 1 .. Len(cur) : x = cur[i] /\ x.seqno = mid + i - 1
    BY <1>1, <1>8, <1>9
  <2>2. \A x \in Rows : ~(x.seqno >= mid) => \E i \in 1 .. Len(prev) : x = prev[i] /\ x.seqno = low + i - 1
    BY <1>1, <1>8, <1>9
  <2>3. CASE r.seqno >= mid
    <3>1. PICK i \in 1 .. Len(cur) : r = cur[i] /\ r.seqno = mid + i - 1
      BY <2>1, <2>3
    <3>2. PICK j \in 1 .. Len(cur) : q = cur[j] /\ q.seqno = mid + j - 1
      <4>1. q.seqno >= mid
        BY <1>11, <2>3
      <4>. QED
        BY <2>1, <4>1
    <3>3. i = j
      BY <1>1, <1>11, <3>1, <3>2
    <3>. QED
      BY <3>1, <3>2, <3>3
  <2>4. CASE ~(r.seqno >= mid)
    <3>1. PICK i \in 1 .. Len(prev) : r = prev[i] /\ r.seqno = low + i - 1
      BY <2>2, <2>4
    <3>2. PICK j \in 1 .. Len(prev) : q = prev[j] /\ q.seqno = low + j - 1
      <4>1. ~(q.seqno >= mid)
        BY <1>11, <2>4
      <4>. QED
        BY <2>2, <4>1
    <3>3. i = j
      BY <1>1, <1>11, <3>1, <3>2
    <3>. QED
      BY <3>1, <3>2, <3>3
  <2>. QED
    BY <2>3, <2>4
<1>12. ASSUME NEW n \in low .. end PROVE \E r \in Rows : r.seqno = n
  <2>1. CASE n >= mid
    <3>1. n - mid + 1 \in 1 .. Len(cur) /\ mid + (n - mid + 1) - 1 = n
      BY <1>1, <1>2, <2>1
    <3>2. cur[n - mid + 1] \in Rows /\ cur[n - mid + 1].seqno = mid + (n - mid + 1) - 1
      BY <1>2, <1>5, <3>1
    <3>. QED
      BY <3>1, <3>2
  <2>2. CASE n < mid
    <3>1. n - low + 1 \in 1 .. Len(prev) /\ low + (n - low + 1) - 1 = n
      BY <1>1, <1>8, <2>2
    <3>2. prev[n - low + 1] \in Rows /\ prev[n - low + 1].seqno = low + (n - low + 1) - 1
      BY <1>3, <1>5, <3>1
    <3>. QED
      BY <3>1, <3>2
  <2>. QED
    BY <1>1, <2>1, <2>2
<1>13. low \in Nat
  BY <1>1, <1>4
<1>14. \A r \in Rows : 1 <= r.seqno /\ r.seqno <= end
  <2>1. \A r \in Rows : r.seqno \in Int
    BY <1>7 DEF Entry
  <2>. QED
    BY <1>1, <1>4, <1>10, <2>1
<1>. QED
  BY <1>4, <1>7, <1>10, <1>11, <1>12, <1>13, <1>14 DEF end

\* The rows of a batch are its seqnos' entries under the caller's epoch.
LEMMA BatchRowsAre ==
    ASSUME Types, NEW c \in Calls
    PROVE  /\ BatchRows(c) = {[seqno |-> n, epoch |-> arg[c].epoch, payload |-> c] :
                                 n \in arg[c].first .. lastOf(arg[c].first, arg[c].count)}
           /\ BatchRows(c) \subseteq Entry
<1>1. arg[c].first \in Nat /\ arg[c].count \in Nat /\ arg[c].epoch \in Nat
  BY DEF Types, Arg
<1>. DEFINE first == arg[c].first
            count == arg[c].count
            E(n)  == [seqno |-> n, epoch |-> arg[c].epoch, payload |-> c]
<1>2. BatchRows(c) = {E(first + i - 1) : i \in 1 .. count}
  BY DEF BatchRows, Batch
<1>3. \A i \in 1 .. count : first + i - 1 \in first .. lastOf(first, count)
  BY <1>1 DEF lastOf
<1>4. \A n \in first .. lastOf(first, count) :
        n - first + 1 \in 1 .. count /\ n = first + (n - first + 1) - 1
  BY <1>1 DEF lastOf
<1>5. \A i \in 1 .. count : E(first + i - 1) \in Entry
  BY <1>1 DEF Entry
<1>6. BatchRows(c) \subseteq {E(n) : n \in first .. lastOf(first, count)}
  BY <1>2, <1>3
<1>7. ASSUME NEW n \in first .. lastOf(first, count) PROVE E(n) \in BatchRows(c)
  <2>1. PICK i \in 1 .. count : n = first + i - 1
    BY <1>4
  <2>. QED
    BY <1>2, <2>1
<1>. QED
  BY <1>2, <1>5, <1>6, <1>7

\* An append adds its batch to the rows, takes none away, and moves the end of
\* the log; owner and watermark stay.
LEMMA RowsAppend ==
    ASSUME Types, NEW c \in Calls, AppendMatches(c), AppendCommit(c)
    PROVE  /\ Rows' = Rows \union BatchRows(c)
           /\ row'.epoch = row.epoch /\ row'.trim_upto = row.trim_upto
           /\ row'.last_seqno = row.last_seqno + arg[c].count
           /\ arg[c].epoch = row.epoch /\ arg[c].first = row.last_seqno + 1
           /\ lastOf(arg[c].first, arg[c].count) = row.last_seqno + arg[c].count
           /\ arg' = arg /\ created' = created
<1>. DEFINE cur == heap[row.cur_slot]
            new == cur \o Batch(c)
<1>1. arg[c].first \in Nat /\ arg[c].count \in Nat
  BY DEF Types, Arg
<1>2. arg[c].epoch = row.epoch /\ arg[c].first = row.last_seqno + 1
  BY <1>1, RingTypes DEF AppendMatches
<1>3. lastOf(arg[c].first, arg[c].count) = row.last_seqno + arg[c].count
  BY <1>1, <1>2, RingTypes DEF lastOf
<1>4. /\ row'.epoch = row.epoch /\ row'.trim_upto = row.trim_upto
      /\ row'.last_seqno = row.last_seqno + arg[c].count /\ row'.cur_slot = row.cur_slot
  BY <1>3 DEF AppendCommit, Types, logState
<1>5. Slots = {row.cur_slot, prevSlot(row)} /\ row.cur_slot # prevSlot(row)
  BY RingTypes DEF Slots
<1>6. heap'[row.cur_slot] = new /\ heap'[prevSlot(row)] = heap[prevSlot(row)]
  BY RingTypes DEF AppendCommit, Types
<1>7. {new[i] : i \in 1 .. Len(new)} = {cur[i] : i \in 1 .. Len(cur)} \union BatchRows(c)
  <2>1. cur \in Seq(Entry) /\ Batch(c) \in Seq(Entry) /\ Len(Batch(c)) = arg[c].count
    BY RingTypes, BatchType
  <2>2. /\ Len(new) = Len(cur) + arg[c].count
        /\ \A i \in 1 .. Len(new) :
             new[i] = IF i <= Len(cur) THEN cur[i] ELSE Batch(c)[i - Len(cur)]
    <3>1. \A s, t \in Seq(Entry) :
            /\ Len(s \o t) = Len(s) + Len(t)
            /\ \A i \in 1 .. Len(s) + Len(t) :
                 (s \o t)[i] = IF i <= Len(s) THEN s[i] ELSE t[i - Len(s)]
      BY ConcatProperties
    <3>. QED
      BY <2>1, <3>1
  <2>3. Len(cur) \in Nat
    BY RingTypes
  <2>. HIDE DEF cur, new
  <2>4. \A i \in 1 .. Len(new) : new[i] \in {cur[j] : j \in 1 .. Len(cur)} \union BatchRows(c)
    <3>. SUFFICES ASSUME NEW i \in 1 .. Len(new)
                  PROVE  new[i] \in {cur[j] : j \in 1 .. Len(cur)} \union BatchRows(c)
      OBVIOUS
    <3>1. CASE i <= Len(cur)
      BY <2>2, <2>3, <3>1
    <3>2. CASE ~(i <= Len(cur))
      <4>1. i - Len(cur) \in 1 .. arg[c].count
        BY <1>1, <2>2, <2>3, <3>2
      <4>. QED
        BY <2>2, <3>2, <4>1 DEF BatchRows
    <3>. QED
      BY <3>1, <3>2
  <2>5. \A j \in 1 .. Len(cur) : j \in 1 .. Len(new) /\ new[j] = cur[j]
    BY <1>1, <2>2, <2>3
  <2>6. \A j \in 1 .. arg[c].count : /\ j + Len(cur) \in 1 .. Len(new)
                                     /\ new[j + Len(cur)] = Batch(c)[j]
    <3>. SUFFICES ASSUME NEW j \in 1 .. arg[c].count
                  PROVE  j + Len(cur) \in 1 .. Len(new) /\ new[j + Len(cur)] = Batch(c)[j]
      OBVIOUS
    <3>1. /\ j + Len(cur) \in 1 .. Len(new) /\ ~(j + Len(cur) <= Len(cur))
          /\ (j + Len(cur)) - Len(cur) = j
      BY <1>1, <2>2, <2>3
    <3>. QED
      BY <2>2, <3>1
  <2>. QED
    BY <2>4, <2>5, <2>6 DEF BatchRows
<1>8. Rows' = {heap'[row.cur_slot][i] : i \in 1 .. Len(heap'[row.cur_slot])}
                \union {heap'[prevSlot(row)][i] : i \in 1 .. Len(heap'[prevSlot(row)])}
  BY <1>5 DEF Rows
<1>9. Rows' = Rows \union BatchRows(c)
  BY <1>6, <1>7, <1>8, RowsOfHalves
<1>. QED
  BY <1>2, <1>3, <1>4, <1>9 DEF AppendCommit

\* A fence moves the owner and a trim the watermark, neither of them a row.
LEMMA RowsFenceTrim ==
    ASSUME Types, NEW c \in Calls, FenceCommit(c) \/ TrimCommit(c)
    PROVE  /\ Rows' = Rows /\ row'.last_seqno = row.last_seqno
           /\ created' = created /\ arg' = arg
           /\ FenceCommit(c) => row'.epoch = arg[c].epoch /\ row'.trim_upto = row.trim_upto
           /\ TrimCommit(c) => row'.epoch = row.epoch /\ row'.trim_upto = Watermark(c)
<1>1. row \in logState
  BY DEF Types
<1>2. CASE FenceCommit(c)
  <2>1. row' = [row EXCEPT !.epoch = arg[c].epoch] /\ ~TrimCommit(c)
    BY <1>2 DEF FenceCommit, TrimCommit
  <2>2. /\ row'.last_seqno = row.last_seqno /\ row'.epoch = arg[c].epoch
        /\ row'.trim_upto = row.trim_upto
    BY <1>1, <2>1 DEF logState
  <2>3. UNCHANGED <<created, heap, arg>>
    BY <1>2 DEF FenceCommit
  <2>. QED
    BY <2>1, <2>2, <2>3 DEF Rows
<1>3. CASE TrimCommit(c)
  <2>1. row' = [row EXCEPT !.trim_upto = Watermark(c)] /\ ~FenceCommit(c)
    BY <1>3 DEF FenceCommit, TrimCommit
  <2>2. /\ row'.last_seqno = row.last_seqno /\ row'.epoch = row.epoch
        /\ row'.trim_upto = Watermark(c)
    BY <1>1, <2>1 DEF logState
  <2>3. UNCHANGED <<created, heap, arg>>
    BY <1>3 DEF TrimCommit
  <2>. QED
    BY <2>1, <2>2, <2>3 DEF Rows
<1>. QED
  BY <1>2, <1>3

\* A reclaim takes away rows at or below the watermark only, and moves neither
\* the owner nor the bounds of the log.
LEMMA RowsReclaim ==
    ASSUME Types, RingInv, NEW c \in Calls, ReclaimCommit(c)
    PROVE  /\ Rows' \subseteq Rows
           /\ \A r \in Rows : r.seqno > row.trim_upto => r \in Rows'
           /\ row'.epoch = row.epoch /\ row'.trim_upto = row.trim_upto
           /\ row'.last_seqno = row.last_seqno
           /\ arg' = arg /\ created' = created
<1>. DEFINE do   == reclaimSteps(row, held[c] = Slots)
            prev == heap[prevSlot(row)]
            low  == row.cur_lo - Len(prev)
<1>1. /\ row'.epoch = row.epoch /\ row'.trim_upto = row.trim_upto
      /\ row'.last_seqno = row.last_seqno
  BY DEF ReclaimCommit, Types, logState
<1>2. Slots = {row.cur_slot, prevSlot(row)} /\ row.cur_slot # prevSlot(row)
  BY RingTypes DEF Slots
<1>3. CASE ~do.truncate
  <2>1. heap' = heap
    BY <1>3 DEF ReclaimCommit
  <2>. QED
    BY <1>1, <2>1 DEF Rows, ReclaimCommit
<1>4. CASE do.truncate
  <2>1. heap'[row.cur_slot] = heap[row.cur_slot] /\ heap'[prevSlot(row)] = <<>>
    BY <1>4, RingTypes DEF ReclaimCommit, Types
  <2>2. Rows' = {heap'[row.cur_slot][i] : i \in 1 .. Len(heap'[row.cur_slot])}
                  \union {heap'[prevSlot(row)][i] : i \in 1 .. Len(heap'[prevSlot(row)])}
    BY <1>2 DEF Rows
  <2>3. Rows' \subseteq Rows
    BY <2>1, <2>2, RowsOfHalves
  <2>4. row.trim_upto >= row.cur_lo - 1
    BY <1>4 DEF reclaimSteps, prevEmpty
  <2>5. \A i \in 1 .. Len(prev) : prev[i].seqno = low + i - 1
    BY Zenon DEF RingInv, PrevHalf
  <2>6. /\ row.cur_lo \in Nat /\ row.trim_upto \in Nat /\ Len(prev) \in Nat
        /\ low \in Int /\ low + Len(prev) = row.cur_lo
    BY RingTypes
  <2>. HIDE DEF prev, low
  <2>7. \A i \in 1 .. Len(prev) : ~(prev[i].seqno > row.trim_upto)
    BY <2>4, <2>5, <2>6
  <2>8. \A r \in Rows : r.seqno > row.trim_upto => r \in Rows'
    BY <2>1, <2>2, <2>7, RowsOfHalves DEF prev
  <2>. QED
    BY <1>1, <2>3, <2>8 DEF ReclaimCommit
<1>. QED
  BY <1>3, <1>4

-----------------------------------------------------------------------------
(* The owner and the bounds of the log only grow. *)

\* A log that has not been created is as CreateLogs would make it.
NewLog ==
    ~created =>
        /\ row = [epoch |-> 0, last_seqno |-> 0, trim_upto |-> 0,
                  cur_slot |-> 0, cur_lo |-> FirstSeqno, prev_hi |-> 0]
        /\ heap = [s \in Slots |-> <<>>]

\* A commit is of a log that is there.
LEMMA CommitsAfterCreate ==
    ASSUME TypeOK, RowLockInv, NEW c \in Calls,
           FenceCommit(c) \/ AppendCommit(c) \/ TrimCommit(c) \/ ReclaimCommit(c)
    PROVE  created
BY DEF FenceCommit, AppendCommit, TrimCommit, ReclaimCommit, RowLockInv, FenceMatches,
       TypeOK, CallOK, AppendPCs, TrimPCs, ReclaimPCs

\* A session's step leaves created alone.
LEMMA OnlyCreateCreates ==
    ASSUME Types, NEW c \in Calls, Call(c) \/ Step(c) \/ Failure(c)
    PROVE  created' = created
BY StepStays DEF Call, Fence, AppendBatch, Trim, ReadFrom, Start

\* Nothing touches a log before it is created.
LEMMA NewLogStep == TypeOK /\ RowLockInv /\ NewLog /\ [Next]_vars => NewLog'
<1>. SUFFICES ASSUME TypeOK, RowLockInv, NewLog, [Next]_vars PROVE NewLog'
  OBVIOUS
<1>1. CASE CreateLogs
  BY <1>1 DEF CreateLogs, NewLog
<1>2. ASSUME NEW c \in Calls, Call(c) \/ Step(c) \/ Failure(c) PROVE NewLog'
  <2>1. created' = created
    BY <1>2, OnlyCreateCreates DEF TypeOK
  <2>2. ~created => row' = row /\ heap' = heap
    BY <1>2, OnlyCommits, CommitsAfterCreate
  <2>. QED
    BY <2>1, <2>2 DEF NewLog
<1>3. CASE UNCHANGED vars
  BY <1>3 DEF vars, NewLog
<1>. QED
  BY <1>1, <1>2, <1>3 DEF Next

\* Everything a step does to the log, by the commit that does it.
LEMMA StepKinds ==
    ASSUME TypeOK, RowLockInv, NewLog, [Next]_vars
    PROVE  \/ UNCHANGED <<row, heap>> /\ (created => created')
           \/ \E c \in Calls :
                 \/ AppendCommit(c) /\ AppendMatches(c) /\ CallOK(c)
                 \/ FenceCommit(c) /\ FenceMatches(c) /\ CallOK(c)
                 \/ TrimCommit(c) \/ ReclaimCommit(c)
<1>1. CASE CreateLogs
  BY <1>1 DEF CreateLogs, NewLog
<1>2. ASSUME NEW c \in Calls, Call(c) \/ Step(c) \/ Failure(c)
      PROVE  \/ UNCHANGED <<row, heap>> /\ (created => created')
             \/ AppendCommit(c) /\ AppendMatches(c) /\ CallOK(c)
             \/ FenceCommit(c) /\ FenceMatches(c) /\ CallOK(c)
             \/ TrimCommit(c) \/ ReclaimCommit(c)
  <2>1. AppendCommit(c) => AppendMatches(c) /\ CallOK(c)
    BY DEF AppendCommit, RowLockInv, TypeOK
  <2>2. FenceCommit(c) => FenceMatches(c) /\ CallOK(c)
    BY DEF FenceCommit, RowLockInv, TypeOK
  <2>3. created' = created
    BY <1>2, OnlyCreateCreates DEF TypeOK
  <2>. QED
    BY <1>2, <2>1, <2>2, <2>3, OnlyCommits
<1>3. CASE UNCHANGED vars
  BY <1>3 DEF vars
<1>. QED
  BY <1>1, <1>2, <1>3 DEF Next

\* Ownership never goes back, the log never gets shorter and no trim is undone.
BoundsGrow ==
    /\ row.epoch <= row'.epoch /\ row.last_seqno <= row'.last_seqno
    /\ row.trim_upto <= row'.trim_upto /\ (created => created')

\* Each of the four commits moves its own bound, and forward.
LEMMA BoundsStep ==
    ASSUME RingOK, NewLog, [Next]_vars PROVE BoundsGrow
<1>. USE DEF RingOK, TypeOK
<1>1. row.epoch \in Nat /\ row.last_seqno \in Nat /\ row.trim_upto \in Nat
  BY RingTypes
<1>2. CASE UNCHANGED <<row, heap>> /\ (created => created')
  BY <1>1, <1>2 DEF BoundsGrow
<1>3. ASSUME NEW c \in Calls, AppendCommit(c), AppendMatches(c) PROVE BoundsGrow
  <2>1. arg[c].count \in Nat
    BY DEF Types, Arg
  <2>2. /\ row'.epoch = row.epoch /\ row'.trim_upto = row.trim_upto /\ created' = created
        /\ row'.last_seqno = row.last_seqno + arg[c].count
    BY <1>3, RowsAppend
  <2>. QED
    BY <1>1, <2>1, <2>2 DEF BoundsGrow
<1>4. ASSUME NEW c \in Calls, FenceCommit(c), FenceMatches(c) PROVE BoundsGrow
  <2>1. /\ row'.epoch = arg[c].epoch /\ row'.trim_upto = row.trim_upto
        /\ row'.last_seqno = row.last_seqno /\ created' = created
    BY <1>4, RowsFenceTrim
  <2>. QED
    BY <1>1, <1>4, <2>1 DEF BoundsGrow, FenceMatches
<1>5. ASSUME NEW c \in Calls, TrimCommit(c) PROVE BoundsGrow
  <2>1. /\ row'.epoch = row.epoch /\ row'.trim_upto = Watermark(c)
        /\ row'.last_seqno = row.last_seqno /\ created' = created
    BY <1>5, RowsFenceTrim
  <2>2. row.trim_upto <= Watermark(c)
    BY WatermarkType
  <2>. QED
    BY <1>1, <2>1, <2>2 DEF BoundsGrow
<1>6. ASSUME NEW c \in Calls, ReclaimCommit(c) PROVE BoundsGrow
  BY <1>1, <1>6, RowsReclaim DEF BoundsGrow
<1>. QED
  BY <1>2, <1>3, <1>4, <1>5, <1>6, StepKinds

\* The log, from before its creation on.
THEOREM NewLogCorrect == Spec => []NewLog
<1>1. Init => NewLog
  BY DEF Init, NewLog
<1>. QED
  BY <1>1, NewLogStep, TypeCorrect, RowLockCorrect, PTL DEF Spec

\* The ring's invariants together.
LEMMA RingAlways == Spec => []RingOK
BY TypeCorrect, RowLockCorrect, RingCorrect, PTL DEF RingOK

-----------------------------------------------------------------------------
(* Epochs along the log. *)

\* An append goes above every row there is, under the owner's epoch, and the
\* owner's epoch never falls below one that has written.
LEMMA EpochsStep == RingOK /\ NewLog /\ EpochsNeverFall /\ [Next]_vars => EpochsNeverFall'
<1>. SUFFICES ASSUME RingOK, NewLog, EpochsNeverFall, [Next]_vars PROVE EpochsNeverFall'
  OBVIOUS
<1>. USE DEF RingOK, TypeOK
<1>1. Rows \subseteq Entry /\ (\A r \in Rows : r.seqno <= row.last_seqno)
      /\ (\A r \in Rows : r.epoch \in Nat /\ r.seqno \in Nat)
  BY RowsNumbered DEF Entry
<1>2. row.epoch \in Nat /\ row.last_seqno \in Nat
  BY RingTypes
<1>3. ASSUME Rows' \subseteq Rows, row'.epoch = row.epoch PROVE EpochsNeverFall'
  BY <1>3 DEF EpochsNeverFall
<1>4. CASE UNCHANGED <<row, heap>>
  BY <1>3, <1>4 DEF Rows
<1>5. ASSUME NEW c \in Calls, AppendCommit(c), AppendMatches(c) PROVE EpochsNeverFall'
  <2>1. Rows' = Rows \union BatchRows(c) /\ row'.epoch = row.epoch
    BY <1>5, RowsAppend
  <2>2. \A r \in BatchRows(c) : r.epoch = row.epoch /\ r.seqno > row.last_seqno /\ r.seqno \in Nat
    <3>1. arg[c].first = row.last_seqno + 1 /\ arg[c].epoch = row.epoch
      BY <1>5, RowsAppend
    <3>2. arg[c].count \in Nat
      BY DEF Types, Arg
    <3>. QED
      BY <1>2, <3>1, <3>2, BatchRowsAre DEF lastOf
  <2>3. \A r \in Rows' : r.epoch <= row'.epoch
    BY <1>2, <2>1, <2>2 DEF EpochsNeverFall
  <2>4. ASSUME NEW r \in Rows', NEW q \in Rows', r.seqno <= q.seqno PROVE r.epoch <= q.epoch
    <3>1. CASE q \in BatchRows(c)
      BY <2>1, <2>2, <2>3, <3>1
    <3>2. CASE q \in Rows
      <4>1. r \in Rows
        BY <1>1, <1>2, <2>1, <2>2, <2>4, <3>2
      <4>. QED
        BY <2>4, <3>2, <4>1 DEF EpochsNeverFall
    <3>. QED
      BY <2>1, <3>1, <3>2
  <2>. QED
    BY <2>3, <2>4 DEF EpochsNeverFall
<1>6. ASSUME NEW c \in Calls, FenceCommit(c), FenceMatches(c) PROVE EpochsNeverFall'
  <2>1. Rows' = Rows /\ row'.epoch = arg[c].epoch
    BY <1>6, RowsFenceTrim
  <2>2. row.epoch <= arg[c].epoch /\ arg[c].epoch \in Nat
    BY <1>6 DEF FenceMatches, Types, Arg
  <2>. QED
    BY <1>1, <1>2, <2>1, <2>2 DEF EpochsNeverFall
<1>7. ASSUME NEW c \in Calls, TrimCommit(c) PROVE EpochsNeverFall'
  BY <1>3, <1>7, RowsFenceTrim
<1>8. ASSUME NEW c \in Calls, ReclaimCommit(c) PROVE EpochsNeverFall'
  BY <1>3, <1>8, RowsReclaim
<1>. QED
  BY <1>4, <1>5, <1>6, <1>7, <1>8, StepKinds

\* Epochs are non-decreasing along a log and none is above its owner's: no append
\* of a lower epoch lands after a fence, however many writers there are.
THEOREM EpochsCorrect == Spec => []EpochsNeverFall
<1>1. Init => EpochsNeverFall
  BY DEF Init, EpochsNeverFall, Rows
<1>. QED
  BY <1>1, EpochsStep, RingAlways, NewLogCorrect, PTL DEF Spec

-----------------------------------------------------------------------------
(* What a caller is told. *)

\* A session's step leaves what the others have seen and were told alone.
LEMMA AnswersFrame ==
    ASSUME Types, NEW c \in Calls, Call(c) \/ Step(c) \/ Failure(c),
           NEW d \in Calls, d # c
    PROVE  seen'[d] = seen[d] /\ res'[d] = res[d]
<1>. USE DEF Goto, Return, Types
<1>1. CASE Call(c)
  BY <1>1 DEF Call, Fence, AppendBatch, Trim, ReadFrom, Start
<1>2. CASE FenceScan(c) \/ FenceRow(c)
  BY <1>2 DEF FenceScan, FenceRow, FenceTest, MatchesNothing
<1>3. CASE AppendScan(c) \/ AppendRow(c)
  BY <1>3 DEF AppendScan, AppendRow, AppendTest, MatchesNothing
<1>4. CASE LockTable(c) \/ TrimRow(c) \/ ReclaimRow(c)
  BY <1>4 DEF LockTable, TrimRow, ReclaimRow
<1>5. CASE FenceCommit(c) \/ AppendCommit(c) \/ ReclaimCommit(c) \/ TrimCommit(c)
  BY <1>5 DEF FenceCommit, AppendCommit, ReclaimCommit, TrimCommit
<1>6. CASE FenceDiagnose(c) \/ AppendDiagnose(c) \/ ReadQuery(c) \/ ReclaimTimeout(c)
              \/ Failure(c)
  BY <1>6 DEF FenceDiagnose, AppendDiagnose, ReadQuery, ReclaimTimeout, Failure
<1>. QED
  BY <1>1, <1>2, <1>3, <1>4, <1>5, <1>6 DEF Step

\* How an append or a fence ends: refused by a check at its start, failed by the
\* driver, committed, or diagnosed; nothing else tells its caller anything.
LEMMA HowCallsEnd ==
    ASSUME TypeOK, NEW c \in Calls, Call(c) \/ Step(c) \/ Failure(c), pc'[c] = "idle"
    PROVE  /\ arg'[c].op = "append" =>
                \/ /\ res'[c] = "invalid" \/ res'[c] = "ErrFenced"
                   /\ seen'[c].refusal = "nil" /\ Call(c)
                \/ res'[c] = "driver" /\ seen'[c] = seen[c] /\ arg'[c] = arg[c]
                \/ AppendCommit(c) \/ AppendDiagnose(c)
           /\ arg'[c].op = "fence" =>
                \/ res'[c] \in {"invalid", "driver"}
                \/ FenceCommit(c) \/ FenceDiagnose(c)
<1>. USE DEF Goto, Return, Types, TypeOK
<1>1. CASE Call(c)
  <2>1. ASSUME NEW e \in Epochs \union {0}, Fence(c, e)
        PROVE  arg'[c].op = "fence" /\ res'[c] = "invalid"
    BY <2>1 DEF Fence, Start
  <2>2. ASSUME NEW e \in Epochs \union {0}, NEW first \in 0 .. MaxSeqno, NEW n \in Batches,
               AppendBatch(c, e, first, n)
        PROVE  /\ arg'[c].op = "append" /\ seen'[c].refusal = "nil"
               /\ res'[c] = "invalid" \/ res'[c] = "ErrFenced"
    BY <2>2 DEF AppendBatch, Start, appendRefusal
  <2>3. ASSUME NEW upTo \in Trims, Trim(c, upTo) PROVE arg'[c].op = "trim"
    BY <2>3 DEF Trim, Start
  <2>4. ASSUME NEW from \in 0 .. MaxSeqno, NEW limit \in Limits, ReadFrom(c, from, limit)
        PROVE  arg'[c].op = "read"
    BY <2>4 DEF ReadFrom, Start
  <2>. QED
    BY <1>1, <2>1, <2>2, <2>3, <2>4 DEF Call
<1>2. CASE FenceScan(c) \/ FenceRow(c) \/ AppendScan(c) \/ AppendRow(c)
  BY <1>2 DEF FenceScan, FenceRow, FenceTest, AppendScan, AppendRow, AppendTest, MatchesNothing
<1>3. CASE LockTable(c) \/ TrimRow(c) \/ ReclaimRow(c)
  BY <1>3 DEF LockTable, LockPCs, AfterLock, TrimRow, ReclaimRow
<1>4. CASE ReclaimCommit(c) \/ TrimCommit(c) \/ ReclaimTimeout(c)
  BY <1>4 DEF ReclaimCommit, TrimCommit, ReclaimTimeout, CallOK, TrimPCs, ReclaimPCs
<1>5. CASE ReadQuery(c)
  BY <1>5 DEF ReadQuery, CallOK, ReadPCs
<1>6. CASE Failure(c)
  BY <1>6 DEF Failure
<1>7. CASE FenceCommit(c) \/ FenceDiagnose(c)
  BY <1>7 DEF FenceCommit, FenceDiagnose, CallOK, FencePCs
<1>8. CASE AppendCommit(c) \/ AppendDiagnose(c)
  BY <1>8 DEF AppendCommit, AppendDiagnose, CallOK, AppendPCs
<1>. QED
  BY <1>1, <1>2, <1>3, <1>4, <1>5, <1>6, <1>7, <1>8 DEF Step

\* A row that is above the watermark after a step was not taken away by it.
LEMMA LiveRowsStay ==
    ASSUME RingOK, NewLog, [Next]_vars, NEW r \in Rows, r.seqno > row'.trim_upto
    PROVE  r \in Rows'
<1>. USE DEF RingOK, TypeOK
<1>1. CASE UNCHANGED <<row, heap>>
  BY <1>1 DEF Rows
<1>2. ASSUME NEW c \in Calls, AppendCommit(c), AppendMatches(c) PROVE r \in Rows'
  BY <1>2, RowsAppend
<1>3. ASSUME NEW c \in Calls, FenceCommit(c) \/ TrimCommit(c) PROVE r \in Rows'
  BY <1>3, RowsFenceTrim
<1>4. ASSUME NEW c \in Calls, ReclaimCommit(c) PROVE r \in Rows'
  BY <1>4, RowsReclaim
<1>. QED
  BY <1>1, <1>2, <1>3, <1>4, StepKinds

\* What NilIsDurable says of one session.
AppendDurable(c) ==
    Returned(c, "append") /\ res[c] = "nil" =>
        /\ lastOf(arg[c].first, arg[c].count) <= row.last_seqno
        /\ \A i \in 1 .. arg[c].count :
               Batch(c)[i].seqno > row.trim_upto => Batch(c)[i] \in Rows

FenceDurable(c) == Returned(c, "fence") /\ res[c] = "nil" => arg[c].epoch <= row.epoch

\* What is durable stays so while the session rests, whoever else commits.
LEMMA DurableRests ==
    ASSUME RingOK, NewLog, [Next]_vars, NEW c \in Calls, AppendDurable(c), FenceDurable(c),
           pc'[c] = pc[c], arg'[c] = arg[c], res'[c] = res[c]
    PROVE  AppendDurable(c)' /\ FenceDurable(c)'
<1>. USE DEF RingOK, TypeOK
<1>1. BoundsGrow
  BY BoundsStep
<1>2. row' \in logState
  BY TypeStep DEF Types
<1>3. /\ row.epoch \in Nat /\ row.last_seqno \in Nat /\ row.trim_upto \in Nat
      /\ row'.epoch \in Nat /\ row'.last_seqno \in Nat /\ row'.trim_upto \in Nat
  BY <1>2, RingTypes DEF logState
<1>4. arg[c].first \in Nat /\ arg[c].count \in Nat /\ arg[c].epoch \in Nat
  BY DEF Types, Arg
<1>5. AppendDurable(c)'
  <2>. SUFFICES ASSUME Returned(c, "append"), res[c] = "nil"
                PROVE  /\ lastOf(arg[c].first, arg[c].count) <= row'.last_seqno
                       /\ \A i \in 1 .. arg[c].count :
                            Batch(c)[i].seqno > row'.trim_upto => Batch(c)[i] \in Rows'
    BY DEF AppendDurable, Returned, Batch
  <2>1. lastOf(arg[c].first, arg[c].count) <= row'.last_seqno
    BY <1>1, <1>3, <1>4 DEF AppendDurable, BoundsGrow, lastOf
  <2>2. ASSUME NEW i \in 1 .. arg[c].count, Batch(c)[i].seqno > row'.trim_upto
        PROVE  Batch(c)[i] \in Rows'
    <3>1. Batch(c)[i].seqno \in Nat
      BY <1>4, BatchType
    <3>2. Batch(c)[i].seqno > row.trim_upto
      BY <1>1, <1>3, <2>2, <3>1 DEF BoundsGrow
    <3>3. Batch(c)[i] \in Rows
      BY <3>2 DEF AppendDurable
    <3>. QED
      BY <2>2, <3>3, LiveRowsStay
  <2>. QED
    BY <2>1, <2>2
<1>6. FenceDurable(c)'
  BY <1>1, <1>3, <1>4 DEF FenceDurable, Returned, BoundsGrow
<1>. QED
  BY <1>5, <1>6

\* A session is told nil by its own commit only, and what it committed is there.
LEMMA DurableStep == RingOK /\ NewLog /\ NilIsDurable /\ [Next]_vars => NilIsDurable'
<1>. SUFFICES ASSUME RingOK, NewLog, NilIsDurable, [Next]_vars PROVE NilIsDurable'
  OBVIOUS
<1>. USE DEF RingOK, TypeOK
<1>1. \A d \in Calls : AppendDurable(d) /\ FenceDurable(d)
  BY DEF NilIsDurable, AppendDurable, FenceDurable
<1>2. SUFFICES \A d \in Calls : AppendDurable(d)' /\ FenceDurable(d)'
  BY DEF NilIsDurable, AppendDurable, FenceDurable
<1>3. CASE CreateLogs \/ UNCHANGED vars
  BY <1>1, <1>3, DurableRests DEF CreateLogs, vars
<1>4. ASSUME NEW c \in Calls, Call(c) \/ Step(c) \/ Failure(c), NEW d \in Calls
      PROVE  AppendDurable(d)' /\ FenceDurable(d)'
  <2>1. CASE d # c
    BY <1>1, <1>4, <2>1, Frame, AnswersFrame, DurableRests
  <2>2. CASE d = c /\ AppendCommit(c)
    <3>1. AppendMatches(c)
      BY <2>2 DEF AppendCommit, RowLockInv
    <3>2. Rows' = Rows \union BatchRows(c) /\ arg' = arg
          /\ row'.last_seqno = lastOf(arg[c].first, arg[c].count)
      BY <2>2, <3>1, RowsAppend
    <3>3. arg[c].op = "append"
      BY <2>2 DEF AppendCommit, CallOK, AppendPCs
    <3>4. row.last_seqno \in Nat /\ row'.last_seqno \in Nat
      BY RingTypes, TypeStep DEF Types, logState
    <3>5. Batch(c)' = Batch(c)
      BY <3>2 DEF Batch
    <3>. QED
      BY <2>2, <3>2, <3>3, <3>4, <3>5 DEF AppendDurable, FenceDurable, Returned, BatchRows
  <2>3. CASE d = c /\ FenceCommit(c)
    <3>1. row'.epoch = arg[c].epoch /\ arg' = arg /\ arg[c].op = "fence" /\ arg[c].epoch \in Nat
      BY <2>3, RowsFenceTrim DEF FenceCommit, CallOK, FencePCs, Types, Arg
    <3>. QED
      BY <2>3, <3>1 DEF AppendDurable, FenceDurable, Returned
  <2>4. CASE d = c /\ ~AppendCommit(c) /\ ~FenceCommit(c)
    <3>1. CASE pc'[c] # "idle"
      BY <2>4, <3>1 DEF AppendDurable, FenceDurable, Returned
    <3>2. CASE pc'[c] = "idle"
      <4>1. AppendDiagnose(c) \/ FenceDiagnose(c) => res'[c] # "nil"
        BY DEF AppendDiagnose, FenceDiagnose, Return, Types
      <4>2. (arg'[c].op = "append" \/ arg'[c].op = "fence") => res'[c] # "nil"
        BY <1>4, <2>4, <3>2, <4>1, HowCallsEnd
      <4>. QED
        BY <2>4, <4>2 DEF AppendDurable, FenceDurable, Returned
    <3>. QED
      BY <3>1, <3>2
  <2>. QED
    BY <2>1, <2>2, <2>3, <2>4
<1>. QED
  BY <1>3, <1>4 DEF Next

\* A batch whose Append returned nil is in the log until a trim passes it, and a
\* Fence that returned nil holds, for any number of sessions.
THEOREM DurableCorrect == Spec => []NilIsDurable
<1>1. Init => NilIsDurable
  BY DEF Init, NilIsDurable, Returned
<1>. QED
  BY <1>1, DurableStep, RingAlways, NewLogCorrect, PTL DEF Spec

\* What a call under way has seen is still so, or has been outdone: the owner it
\* saw is at most today's, an append refused as already written still is, one
\* refused as fenced had another owner, and a fence that lost to a higher epoch
\* has lost for good.
SeenOK(c) ==
    /\ seen[c].owner <= row.epoch
    /\ pc[c] = "append.diagnose" =>
          /\ seen[c].refusal = "ErrAlreadyWritten" => arg[c].first <= row.last_seqno
          /\ seen[c].refusal = "ErrFenced" => seen[c].owner = 0 \/ seen[c].owner # arg[c].epoch
    /\ pc[c] = "fence.diagnose" =>
          \/ seen[c].refusal = "ErrNoSuchLog"
          \/ created /\ arg[c].epoch < row.epoch

\* The three promises about refusals, for one session.
ToldOK(c) ==
    /\ Returned(c, "append") /\ res[c] # "invalid" /\ seen[c].owner > arg[c].epoch
          => res[c] \in {"ErrFenced", "driver"}
    /\ Returned(c, "append") /\ IsRefusal(res[c]) /\ IsRefusal(seen[c].refusal)
                             /\ seen[c].owner >= arg[c].epoch
          => Outranks(res[c], seen[c].refusal)
    /\ Returned(c, "fence") /\ res[c] = "unexplained"
          => seen[c].refusal = "ErrNoSuchLog" /\ created

\* The inductive invariant behind them.
ToldInv == \A c \in Calls : SeenOK(c) /\ ToldOK(c)

\* What a session has seen and was told stays true while it takes no step.
LEMMA ToldRests ==
    ASSUME RingOK, NewLog, [Next]_vars, NEW c \in Calls, SeenOK(c), ToldOK(c),
           pc'[c] = pc[c], arg'[c] = arg[c], res'[c] = res[c], seen'[c] = seen[c]
    PROVE  SeenOK(c)' /\ ToldOK(c)'
<1>. USE DEF RingOK, TypeOK
<1>1. BoundsGrow
  BY BoundsStep
<1>2. row' \in logState
  BY TypeStep DEF Types
<1>3. /\ row.epoch \in Nat /\ row.last_seqno \in Nat
      /\ row'.epoch \in Nat /\ row'.last_seqno \in Nat
  BY <1>2, RingTypes DEF logState
<1>4. arg[c].first \in Nat /\ arg[c].epoch \in Nat /\ seen[c].owner \in Nat
  BY DEF Types, Arg, Seen
<1>5. SeenOK(c)'
  BY <1>1, <1>3, <1>4 DEF SeenOK, BoundsGrow
<1>6. ToldOK(c)'
  BY <1>1 DEF ToldOK, Returned, BoundsGrow
<1>. QED
  BY <1>5, <1>6

\* A session's own step: what it sees is the row as it is.
LEMMA SeenByOwnStep ==
    ASSUME RingOK, NewLog, [Next]_vars, NEW c \in Calls, SeenOK(c),
           Call(c) \/ Step(c) \/ Failure(c)
    PROVE  SeenOK(c)'
<1>. USE DEF RingOK, TypeOK, Goto, Return, Types
<1>1. BoundsGrow
  BY BoundsStep
<1>2. /\ row.epoch \in Nat /\ row.last_seqno \in Nat /\ row'.epoch \in Nat
      /\ arg[c].first \in Nat /\ arg[c].epoch \in Nat /\ seen[c].owner \in Nat
  BY RingTypes, TypeStep DEF logState, Arg, Seen
<1>3. ASSUME seen'[c] = seen[c], pc'[c] # "append.diagnose", pc'[c] # "fence.diagnose"
      PROVE  SeenOK(c)'
  BY <1>1, <1>2, <1>3 DEF SeenOK, BoundsGrow
<1>4. CASE Call(c)
  <2>1. /\ seen'[c] = [owner |-> row.epoch, refusal |-> "nil"] /\ row' = row
        /\ pc'[c] # "append.diagnose" /\ pc'[c] # "fence.diagnose"
    BY <1>4 DEF Call, Fence, AppendBatch, Trim, ReadFrom, Start
  <2>. QED
    BY <1>2, <2>1 DEF SeenOK
<1>5. CASE FenceScan(c) \/ FenceRow(c)
  <2>1. UNCHANGED <<created, row, arg>>
    BY <1>5 DEF FenceScan, FenceRow, FenceTest
  <2>2. CASE FenceMatches(c)
    BY <1>3, <1>5, <2>2 DEF FenceScan, FenceRow, FenceTest
  <2>3. CASE ~FenceMatches(c)
    <3>1. /\ seen'[c] = [owner |-> row.epoch, refusal |-> FenceAnswer(c)]
          /\ pc'[c] = "fence.diagnose"
      BY <1>5, <2>3 DEF FenceScan, FenceRow, FenceTest, MatchesNothing
    <3>2. created => arg[c].epoch < row.epoch
      BY <1>2, <2>3 DEF FenceMatches
    <3>3. ~created => FenceAnswer(c) = "ErrNoSuchLog"
      BY DEF FenceAnswer
    <3>. QED
      BY <1>2, <2>1, <3>1, <3>2, <3>3 DEF SeenOK
  <2>. QED
    BY <2>2, <2>3
<1>6. CASE AppendScan(c) \/ AppendRow(c)
  <2>1. UNCHANGED <<created, row, arg>>
    BY <1>6 DEF AppendScan, AppendRow, AppendTest
  <2>2. CASE AppendMatches(c)
    BY <1>3, <1>6, <2>2 DEF AppendScan, AppendRow, AppendTest
  <2>3. CASE ~AppendMatches(c)
    <3>1. /\ seen'[c] = [owner |-> row.epoch, refusal |-> AppendAnswer(c)]
          /\ pc'[c] = "append.diagnose"
      BY <1>6, <2>3 DEF AppendScan, AppendRow, AppendTest, MatchesNothing
    <3>2. AppendAnswer(c) = "ErrAlreadyWritten" => arg[c].first <= row.last_seqno
      BY <1>2 DEF AppendAnswer, appendRefusal
    <3>3. AppendAnswer(c) = "ErrFenced" => row.epoch = 0 \/ row.epoch # arg[c].epoch
      BY DEF AppendAnswer, appendRefusal
    <3>. QED
      BY <1>2, <2>1, <3>1, <3>2, <3>3 DEF SeenOK
  <2>. QED
    BY <2>2, <2>3
<1>7. CASE LockTable(c) \/ TrimRow(c) \/ ReclaimRow(c)
  BY <1>3, <1>7 DEF LockTable, LockPCs, AfterLock, TrimRow, ReclaimRow
<1>8. CASE FenceCommit(c) \/ AppendCommit(c) \/ ReclaimCommit(c) \/ TrimCommit(c)
  BY <1>3, <1>8 DEF FenceCommit, AppendCommit, ReclaimCommit, TrimCommit
<1>9. CASE FenceDiagnose(c) \/ AppendDiagnose(c) \/ ReadQuery(c) \/ ReclaimTimeout(c)
              \/ Failure(c)
  BY <1>3, <1>9 DEF FenceDiagnose, AppendDiagnose, ReadQuery, ReclaimTimeout, Failure
<1>. QED
  BY <1>4, <1>5, <1>6, <1>7, <1>8, <1>9 DEF Step

\* A session's own step: what it is told by the second read, or by its commit.
LEMMA ToldByOwnStep ==
    ASSUME RingOK, NEW c \in Calls, SeenOK(c), Call(c) \/ Step(c) \/ Failure(c)
    PROVE  ToldOK(c)'
<1>. USE DEF RingOK, TypeOK
<1>. SUFFICES ASSUME pc'[c] = "idle" PROVE ToldOK(c)'
  BY DEF ToldOK, Returned
<1>1. /\ row.epoch \in Nat /\ row.last_seqno \in Nat
      /\ arg[c].first \in Nat /\ arg[c].epoch \in Nat /\ seen[c].owner \in Nat
  BY RingTypes DEF Types, Arg, Seen
<1>2. ~IsRefusal("driver") /\ ~IsRefusal("nil") /\ ~IsRefusal("invalid")
      /\ ~IsRefusal("unexplained")
  BY DEF IsRefusal, Refusals
<1>3. CASE AppendCommit(c)
  <2>1. arg' = arg /\ seen' = seen /\ arg[c].op = "append" /\ res'[c] \in {"nil", "driver"}
    BY <1>3 DEF AppendCommit, CommitReplies, Return, CallOK, AppendPCs, Types
  <2>2. ~(seen[c].owner > arg[c].epoch)
    BY <1>1, <1>3 DEF AppendCommit, RowLockInv, AppendMatches, SeenOK
  <2>. QED
    BY <1>2, <2>1, <2>2 DEF ToldOK, Returned
<1>4. CASE AppendDiagnose(c)
  <2>1. /\ arg' = arg /\ seen' = seen /\ arg[c].op = "append" /\ arg[c].epoch # 0
        /\ res'[c] = IF AppendAnswer(c) = "nil" THEN "unexplained" ELSE AppendAnswer(c)
    BY <1>4, Constants DEF AppendDiagnose, Return, CallOK, AppendPCs, Types, ConstantFacts
  <2>2. /\ seen[c].refusal = "ErrAlreadyWritten" => arg[c].first <= row.last_seqno
        /\ seen[c].refusal = "ErrFenced" => seen[c].owner = 0 \/ seen[c].owner # arg[c].epoch
        /\ seen[c].owner <= row.epoch
    BY <1>4 DEF AppendDiagnose, SeenOK
  <2>3. row.epoch > arg[c].epoch => res'[c] = "ErrFenced"
    BY <1>1, <2>1 DEF AppendAnswer, appendRefusal
  <2>4. /\ Outranks("ErrFenced", "ErrFenced") /\ Outranks("ErrFenced", "ErrAlreadyWritten")
        /\ Outranks("ErrFenced", "ErrGap") /\ Outranks("ErrGap", "ErrGap")
        /\ Outranks("ErrAlreadyWritten", "ErrAlreadyWritten")
        /\ Outranks("ErrAlreadyWritten", "ErrGap")
    BY DEF Outranks, Refusals
  <2>5. \A r : IsRefusal(r) => r = "ErrFenced" \/ r = "ErrAlreadyWritten" \/ r = "ErrGap"
    BY DEF IsRefusal, Refusals
  <2>6. ASSUME IsRefusal(res'[c]), IsRefusal(seen[c].refusal), seen[c].owner >= arg[c].epoch
        PROVE  Outranks(res'[c], seen[c].refusal)
    <3>1. CASE row.epoch > arg[c].epoch
      BY <2>3, <2>4, <2>5, <2>6, <3>1
    <3>2. CASE ~(row.epoch > arg[c].epoch)
      <4>1. row.epoch = arg[c].epoch /\ seen[c].owner = arg[c].epoch
        BY <1>1, <2>2, <2>6, <3>2
      <4>2. seen[c].refusal # "ErrFenced"
        BY <2>1, <2>2, <4>1
      <4>3. seen[c].refusal = "ErrAlreadyWritten" => res'[c] = "ErrAlreadyWritten"
        BY <1>1, <2>1, <2>2, <4>1 DEF AppendAnswer, appendRefusal
      <4>. QED
        BY <2>4, <2>5, <2>6, <4>2, <4>3
    <3>. QED
      BY <3>1, <3>2
  <2>7. seen[c].owner > arg[c].epoch => res'[c] = "ErrFenced"
    BY <1>1, <2>2, <2>3
  <2>. QED
    BY <2>1, <2>6, <2>7 DEF ToldOK, Returned
<1>5. CASE FenceCommit(c)
  <2>1. arg' = arg /\ arg[c].op = "fence" /\ res'[c] # "unexplained"
    BY <1>5 DEF FenceCommit, CommitReplies, Return, CallOK, FencePCs, Types
  <2>. QED
    BY <2>1 DEF ToldOK, Returned
<1>6. CASE FenceDiagnose(c)
  <2>1. /\ arg' = arg /\ seen' = seen /\ created' = created /\ arg[c].op = "fence"
        /\ res'[c] = "unexplained" => FenceAnswer(c) = "nil" \/ FenceAnswer(c) = "unexplained"
    BY <1>6 DEF FenceDiagnose, Return, CallOK, FencePCs, Types
  <2>2. FenceAnswer(c) # "unexplained" /\ (FenceAnswer(c) = "nil" => created /\ ~(row.epoch > arg[c].epoch))
    BY DEF FenceAnswer, fenceRefusal
  <2>3. seen[c].refusal = "ErrNoSuchLog" \/ arg[c].epoch < row.epoch
    BY <1>6 DEF FenceDiagnose, SeenOK
  <2>. QED
    BY <1>1, <2>1, <2>2, <2>3 DEF ToldOK, Returned
<1>7. CASE ~AppendCommit(c) /\ ~AppendDiagnose(c) /\ ~FenceCommit(c) /\ ~FenceDiagnose(c)
  <2>1. arg'[c].op = "append" =>
           \/ res'[c] \in {"invalid", "ErrFenced"} /\ seen'[c].refusal = "nil"
           \/ res'[c] = "driver"
    BY <1>7, HowCallsEnd
  <2>2. arg'[c].op = "fence" => res'[c] # "unexplained"
    BY <1>7, HowCallsEnd
  <2>. QED
    BY <1>2, <2>1, <2>2 DEF ToldOK, Returned
<1>. QED
  BY <1>3, <1>4, <1>5, <1>6, <1>7

\* The invariant is inductive.
LEMMA ToldStep == RingOK /\ NewLog /\ ToldInv /\ [Next]_vars => ToldInv'
<1>. SUFFICES ASSUME RingOK, NewLog, ToldInv, [Next]_vars PROVE ToldInv'
  OBVIOUS
<1>1. CASE CreateLogs \/ UNCHANGED vars
  BY <1>1, ToldRests DEF CreateLogs, vars, ToldInv
<1>2. ASSUME NEW c \in Calls, Call(c) \/ Step(c) \/ Failure(c), NEW d \in Calls
      PROVE  SeenOK(d)' /\ ToldOK(d)'
  <2>1. CASE d = c
    BY <1>2, <2>1, SeenByOwnStep, ToldByOwnStep DEF ToldInv
  <2>2. CASE d # c
    BY <1>2, <2>2, Frame, AnswersFrame, ToldRests DEF ToldInv, RingOK, TypeOK
  <2>. QED
    BY <2>1, <2>2
<1>. QED
  BY <1>1, <1>2 DEF Next, ToldInv

\* The invariant of what callers have seen and were told.
THEOREM ToldCorrect == Spec => []ToldInv
<1>1. Init => ToldInv
  BY DEF Init, ToldInv, SeenOK, ToldOK, Returned
<1>. QED
  BY <1>1, ToldStep, RingAlways, NewLogCorrect, PTL DEF Spec

\* A writer that has lost the log to a higher epoch is told ErrFenced, never an
\* ack and never ErrAlreadyWritten, which it would take for one.
THEOREM LostWriterCorrect == Spec => []LostWriterIsFenced
<1>1. ToldInv => LostWriterIsFenced
  BY DEF ToldInv, ToldOK, LostWriterIsFenced
<1>. QED
  BY <1>1, ToldCorrect, PTL

\* appendRefused's second read never weakens a refusal of an epoch that had
\* fenced the log.
THEOREM RefusalCorrect == Spec => []RefusalOutranks
<1>1. ToldInv => RefusalOutranks
  BY DEF ToldInv, ToldOK, RefusalOutranks
<1>. QED
  BY <1>1, ToldCorrect, PTL

\* A fence that lost to a higher epoch is always told so.
THEOREM FenceExplained == Spec => []FenceIsExplained
<1>1. ToldInv => FenceIsExplained
  BY DEF ToldInv, ToldOK, FenceIsExplained
<1>. QED
  BY <1>1, ToldCorrect, PTL

-----------------------------------------------------------------------------
(* What a read returns. *)

\* Only the query of a read answers it with entries.
LEMMA AnsweredByQuery ==
    ASSUME TypeOK, [Next]_vars, NEW c \in Calls, Answers(c)
    PROVE  ReadQuery(c)
<1>1. ~CreateLogs /\ ~UNCHANGED vars
  BY DEF Answers, CreateLogs, vars
<1>2. PICK d \in Calls : Call(d) \/ Step(d) \/ Failure(d)
  BY <1>1 DEF Next
<1>3. d = c
  BY <1>2, Frame DEF Answers, TypeOK
<1>4. ~Call(c)
  BY DEF Answers, Call, Fence, AppendBatch, Trim, ReadFrom, Start
<1>5. ~Failure(c)
  BY DEF Answers, Failure, Return, TypeOK, Types
<1>. QED
  BY <1>2, <1>3, <1>4, <1>5
     DEF Answers, Step, LockTable, LockPCs, FenceScan, FenceRow, FenceTest, FenceCommit,
         FenceDiagnose, AppendScan, AppendRow, AppendTest, AppendCommit, AppendDiagnose,
         TrimRow, TrimCommit, ReclaimTimeout, ReclaimRow, ReclaimCommit

\* A query returns the rows of its window.
LEMMA QueryReturns ==
    ASSUME Types, NEW c \in Calls, ReadQuery(c)
    PROVE  got'[c] = {r \in Rows : /\ r.seqno >= arg[c].first
                                   /\ r.seqno <= arg[c].first + arg[c].count - 1}
BY DEF ReadQuery, Types

\* The rows between two rows of a window are rows of the window.
LEMMA RunStep ==
    ASSUME RingOK, [Next]_vars, NEW c \in Calls, Answers(c),
           NEW r \in got'[c], NEW q \in got'[c]
    PROVE  /\ r.seqno = q.seqno => r = q
           /\ \A n \in r.seqno .. q.seqno : \E x \in got'[c] : x.seqno = n
<1>. USE DEF RingOK, TypeOK
<1>1. got'[c] = {x \in Rows : /\ x.seqno >= arg[c].first
                              /\ x.seqno <= arg[c].first + arg[c].count - 1}
  BY AnsweredByQuery, QueryReturns
<1>2. r \in Rows /\ q \in Rows
  BY <1>1
<1>3. PICK low \in Nat :
        /\ \A x \in Rows : low <= x.seqno
        /\ \A n \in low .. row.last_seqno : \E x \in Rows : x.seqno = n
  BY RowsNumbered
<1>4. /\ arg[c].first \in Nat /\ arg[c].count \in Nat /\ row.last_seqno \in Nat
      /\ r.seqno \in Nat /\ q.seqno \in Nat
  BY <1>2, RingTypes, RowsNumbered DEF Types, Arg, Entry
<1>5. ASSUME NEW n \in r.seqno .. q.seqno PROVE \E x \in got'[c] : x.seqno = n
  <2>1. low <= r.seqno /\ q.seqno <= row.last_seqno
    BY <1>2, <1>3, RowsNumbered
  <2>2. n \in low .. row.last_seqno
    BY <1>4, <2>1
  <2>3. PICK x \in Rows : x.seqno = n
    BY <1>3, <2>2
  <2>4. n >= arg[c].first /\ n <= arg[c].first + arg[c].count - 1
    BY <1>1, <1>4
  <2>. QED
    BY <1>1, <2>3, <2>4
<1>. QED
  BY <1>2, <1>5, RowsNumbered

\* However the ring turned between a read's two statements, it returns one
\* unbroken run of the log.
THEOREM ReadIsARunCorrect == Spec => ReadIsARun
<1>1. RingOK /\ [Next]_vars =>
        [\A c \in Calls : Answers(c) =>
            \A r, q \in got'[c] :
                /\ r.seqno = q.seqno => r = q
                /\ \A n \in r.seqno .. q.seqno : \E x \in got'[c] : x.seqno = n]_vars
  BY RunStep
<1>. QED
  BY <1>1, RingAlways, PTL DEF Spec, ReadIsARun

\* A seqno of the window that the log holds has its row.
LEMMA MissesStep ==
    ASSUME RingOK, [Next]_vars, NEW c \in Calls, Answers(c)
    PROVE  {n \in Asked(c) : n < arg[c].first + arg[c].count} \subseteq Returns(c)
<1>. USE DEF RingOK, TypeOK
<1>1. got'[c] = {x \in Rows : /\ x.seqno >= arg[c].first
                              /\ x.seqno <= arg[c].first + arg[c].count - 1}
  BY AnsweredByQuery, QueryReturns
<1>2. PICK low \in Nat :
        /\ low <= row.trim_upto + 1
        /\ \A n \in low .. row.last_seqno : \E x \in Rows : x.seqno = n
  BY RowsNumbered
<1>3. /\ arg[c].first \in Nat /\ arg[c].count \in Nat /\ row.last_seqno \in Nat
      /\ row.trim_upto \in Nat
  BY RingTypes DEF Types, Arg
<1>4. ASSUME NEW n \in Asked(c), n < arg[c].first + arg[c].count PROVE n \in Returns(c)
  <2>1. n \in low .. row.last_seqno /\ n >= arg[c].first
    BY <1>2, <1>3 DEF Asked
  <2>2. PICK x \in Rows : x.seqno = n
    BY <1>2, <2>1
  <2>3. n <= arg[c].first + arg[c].count - 1
    BY <1>3, <1>4, <2>1
  <2>. QED
    BY <1>1, <2>1, <2>2, <2>3 DEF Returns
<1>. QED
  BY <1>4

\* All a read can miss of its window is what a trim took while it ran.
THEOREM ReadMissesOnlyTrimmedCorrect == Spec => ReadMissesOnlyTrimmed
<1>1. RingOK /\ [Next]_vars =>
        [\A c \in Calls : Answers(c) =>
            {n \in Asked(c) : n < arg[c].first + arg[c].count} \subseteq Returns(c)]_vars
  BY MissesStep
<1>. QED
  BY <1>1, RingAlways, PTL DEF Spec, ReadMissesOnlyTrimmed

-----------------------------------------------------------------------------
(* The promise. *)

\* The entries of the promise: the rows above the watermark.
Live == {r \in Rows : r.seqno > row.trim_upto}

\* An append is the promise's Grow by the batch, under the owner.
LEMMA AppendGrows ==
    ASSUME RingOK, NEW c \in Calls, AppendCommit(c), AppendMatches(c), CallOK(c)
    PROVE  Log!Grow(arg[c].count, c) /\ arg[c].count \in 1 .. MaxSeqno
<1>. USE DEF RingOK, TypeOK
<1>1. /\ arg[c].first \in Nat /\ arg[c].count \in Nat
      /\ row.last_seqno \in Nat /\ row.trim_upto \in Nat
  BY RingTypes DEF Types, Arg
<1>2. /\ created /\ arg[c].epoch \in Epochs /\ arg[c].first >= 1 /\ arg[c].count >= 1
      /\ lastOf(arg[c].first, arg[c].count) <= MaxSeqno
  BY DEF CallOK, AppendCommit, AppendPCs, FirstSeqno
<1>3. arg[c].count \in 1 .. MaxSeqno
  BY <1>1, <1>2, Constants DEF lastOf, ConstantFacts
<1>4. /\ Rows' = Rows \union BatchRows(c)
      /\ row'.epoch = row.epoch /\ row'.trim_upto = row.trim_upto
      /\ row'.last_seqno = row.last_seqno + arg[c].count
      /\ arg[c].epoch = row.epoch /\ arg[c].first = row.last_seqno + 1
      /\ lastOf(arg[c].first, arg[c].count) = row.last_seqno + arg[c].count
      /\ created' = created
  BY RowsAppend
<1>5. BatchRows(c) = {[seqno |-> n, epoch |-> row.epoch, payload |-> c] :
                         n \in row.last_seqno + 1 .. row.last_seqno + arg[c].count}
  BY <1>4, BatchRowsAre
<1>6. \A r \in BatchRows(c) : r.seqno > row.trim_upto
  BY <1>1, <1>5 DEF RingInv
<1>7. {r \in Rows' : r.seqno > row'.trim_upto} = Live \union BatchRows(c)
  BY <1>4, <1>6 DEF Live
<1>. QED
  BY <1>2, <1>3, <1>4, <1>5, <1>7 DEF Log!Grow, Log!Entries, Live

\* The store's steps, read through the mapping: a fence is Own, an append Grow, a
\* trim Cut, the creation Create, and everything else, a reclaim included,
\* changes nothing of the promise.
LEMMA ContractStep == RingOK /\ NewLog /\ [Next]_vars => [Log!Next]_(Log!absVars)
<1>. SUFFICES ASSUME RingOK, NewLog, [Next]_vars PROVE [Log!Next]_(Log!absVars)
  OBVIOUS
<1>. USE DEF RingOK, TypeOK
<1>0. /\ row.epoch \in Nat /\ row.last_seqno \in Nat /\ row.trim_upto \in Nat
      /\ \A r \in Rows : r.seqno \in Nat
  BY RingTypes, RowsNumbered DEF Entry
<1>1. CASE UNCHANGED <<row, heap>> /\ (created => created')
  <2>1. created \in BOOLEAN /\ created' \in BOOLEAN
    BY TypeStep DEF Types
  <2>2. Rows' = Rows
    BY <1>1 DEF Rows
  <2>3. CASE created' = created
    BY <1>1, <2>2, <2>3 DEF Log!absVars
  <2>4. CASE created' # created
    <3>1. ~created /\ created' = TRUE
      BY <1>1, <2>1, <2>4
    <3>2. Log!Create
      BY <1>1, <2>2, <3>1 DEF Log!Create
    <3>. QED
      BY <3>2 DEF Log!Next
  <2>. QED
    BY <2>3, <2>4
<1>2. ASSUME NEW c \in Calls, AppendCommit(c), AppendMatches(c), CallOK(c) PROVE Log!Next
  BY <1>2, AppendGrows DEF Log!Next
<1>3. ASSUME NEW c \in Calls, FenceCommit(c), FenceMatches(c), CallOK(c) PROVE Log!Next
  <2>1. /\ Rows' = Rows /\ row'.last_seqno = row.last_seqno /\ created' = created
        /\ row'.epoch = arg[c].epoch /\ row'.trim_upto = row.trim_upto
    BY <1>3, RowsFenceTrim
  <2>2. created /\ row.epoch <= arg[c].epoch /\ arg[c].epoch \in Epochs
    BY <1>3 DEF FenceMatches, CallOK, FenceCommit, FencePCs
  <2>3. Log!Own(arg[c].epoch)
    BY <2>1, <2>2 DEF Log!Own
  <2>. QED
    BY <2>2, <2>3 DEF Log!Next
<1>4. ASSUME NEW c \in Calls, TrimCommit(c) PROVE Log!Next
  <2>1. /\ Rows' = Rows /\ row'.last_seqno = row.last_seqno /\ created' = created
        /\ row'.epoch = row.epoch /\ row'.trim_upto = Watermark(c)
    BY <1>4, RowsFenceTrim
  <2>2. created
    BY <1>4, CommitsAfterCreate
  <2>3. Watermark(c) \in Nat /\ row.trim_upto <= Watermark(c) /\ Watermark(c) <= row.last_seqno
    BY WatermarkType DEF RingInv
  <2>4. PICK n \in 0 .. row.last_seqno : n = Watermark(c)
    BY <1>0, <2>3
  <2>5. {r \in Rows' : r.seqno > row'.trim_upto} = {r \in Live : r.seqno > n}
    BY <1>0, <2>1, <2>3, <2>4 DEF Live
  <2>6. Log!Cut(n)
    BY <2>1, <2>2, <2>3, <2>4, <2>5 DEF Log!Cut, Live
  <2>. QED
    BY <2>6 DEF Log!Next
<1>5. ASSUME NEW c \in Calls, ReclaimCommit(c) PROVE UNCHANGED Log!absVars
  <2>1. /\ Rows' \subseteq Rows /\ \A r \in Rows : r.seqno > row.trim_upto => r \in Rows'
        /\ row'.epoch = row.epoch /\ row'.trim_upto = row.trim_upto
        /\ row'.last_seqno = row.last_seqno /\ created' = created
    BY <1>5, RowsReclaim
  <2>2. {r \in Rows' : r.seqno > row'.trim_upto} = Live
    BY <2>1 DEF Live
  <2>. QED
    BY <2>1, <2>2 DEF Log!absVars, Live
<1>. QED
  BY <1>1, <1>2, <1>3, <1>4, <1>5, StepKinds

\* The store keeps its promise: every step of any number of sessions, wherever
\* they interleave or fail, is a step of FencedLog or changes nothing of it.
THEOREM ImplementsContract == Spec => ImplementsFencedLog
<1>1. Init => Log!Init
  BY DEF Init, Log!Init, Rows
<1>. QED
  BY <1>1, ContractStep, RingAlways, NewLogCorrect, PTL DEF Spec, ImplementsFencedLog, Log!Spec

===============================================================================

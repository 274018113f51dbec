---------------------------- MODULE LogStoreProofs ----------------------------
(***************************************************************************)
(* Proofs about LogStore, for any sessions, epochs, batches and bounds.     *)
(***************************************************************************)
EXTENDS LogStore, SequenceTheorems, TLAPS

ConstantFacts == /\ RotateAfter \in Nat \ {0}
                 /\ Epochs \subseteq Nat \ {0}
                 /\ Batches \subseteq Nat
                 /\ MaxSeqno \in Nat
                 /\ Trims \subseteq Nat
                 /\ Limits \subseteq Int

\* The assumptions on the constants, gathered for the steps below.
LEMMA Constants == ConstantFacts
BY RotateAfterAssumption, EpochsAssumption, BatchesAssumption,
   MaxSeqnoAssumption, TrimsAssumption, LimitsAssumption DEF ConstantFacts

\* The rows an append adds are a sequence of entries, one per payload.
LEMMA BatchType ==
    ASSUME Types, NEW c \in Calls
    PROVE  /\ Batch(c) \in Seq(Entry)
           /\ Len(Batch(c)) = arg[c].count
           /\ \A i \in 1 .. arg[c].count :
                 Batch(c)[i].seqno = arg[c].first + i - 1
<1>1. arg[c] \in Arg
  BY DEF Types
<1>2. arg[c].epoch \in Nat /\ arg[c].first \in Nat /\ arg[c].count \in Nat
  BY <1>1 DEF Arg
<1>3. \A i \in 1 .. arg[c].count :
        [seqno |-> arg[c].first + i - 1, epoch |-> arg[c].epoch, payload |-> c] \in Entry
  BY <1>2 DEF Entry
<1>4. Batch(c) \in [1 .. arg[c].count -> Entry]
  BY <1>3 DEF Batch
<1>5. Batch(c) \in Seq(Entry)
  BY <1>2, <1>4, SeqDef
<1>6. Len(Batch(c)) = arg[c].count
  BY <1>2, <1>4, <1>5, LenProperties
<1>. QED
  BY <1>5, <1>6 DEF Batch

-----------------------------------------------------------------------------
(* Types. *)

\* What a call's first step leaves behind is well typed.
LEMMA StartTypes ==
    ASSUME Types, NEW c \in Calls,
           NEW op \in Ops, NEW e \in Nat, NEW f \in Nat, NEW n \in Nat,
           NEW r \in Results, NEW p \in PCs, Start(c, op, e, f, n, r, p)
    PROVE  Types'
<1>1. row.epoch \in Nat
  BY DEF Types, logState
<1>2. [op |-> op, epoch |-> e, first |-> f, count |-> n] \in Arg
  BY DEF Arg
<1>3. [owner |-> row.epoch, refusal |-> "nil"] \in Seen
  BY <1>1 DEF Seen, Results
<1>. QED
  BY <1>2, <1>3 DEF Start, Goto, Types

\* ReadFrom's lower bound is a seqno.
LEMMA ReadLoType ==
    ASSUME Types, NEW from \in Nat PROVE readLo(from) \in Nat
BY DEF readLo, readStart, FirstSeqno, Types, logState

\* A call made keeps the types.
LEMMA CallTypes ==
    ASSUME Types, NEW c \in Calls, Call(c) PROVE Types'
<1>. USE Constants DEF ConstantFacts
<1>1. ASSUME NEW e \in Epochs \union {0}, Fence(c, e) PROVE Types'
  BY <1>1, StartTypes DEF Fence, Ops, Results, PCs, FencePCs
<1>2. ASSUME NEW e \in Epochs \union {0}, NEW first \in 0 .. MaxSeqno, NEW n \in Batches,
             AppendBatch(c, e, first, n)
      PROVE Types'
  <2>1. appendRefusal(e, first, 0, 0) \in Results
    BY DEF appendRefusal, Results
  <2>. QED
    BY <1>2, <2>1, StartTypes DEF AppendBatch, Ops, Results, PCs, AppendPCs
<1>3. ASSUME NEW upTo \in Trims, Trim(c, upTo) PROVE Types'
  BY <1>3, StartTypes DEF Trim, Ops, Results, PCs, TrimPCs
<1>4. ASSUME NEW from \in 0 .. MaxSeqno, NEW limit \in Limits, ReadFrom(c, from, limit)
      PROVE Types'
  <2>1. readLo(from) \in Nat
    BY ReadLoType
  <2>2. checkRead(limit) => limit \in Nat
    BY DEF checkRead
  <2>. QED
    BY <1>4, <2>1, <2>2, StartTypes DEF ReadFrom, Ops, Results, PCs, ReadPCs
<1>. QED
  BY <1>1, <1>2, <1>3, <1>4 DEF Call

\* The row and the tables stay well typed under a commit.
LEMMA AppendCommitTypes ==
    ASSUME Types, NEW c \in Calls, CallOK(c), AppendCommit(c)
    PROVE  row' \in logState /\ heap' \in [Slots -> Seq(Entry)]
<1>1. arg[c].first \in Nat /\ arg[c].count \in Nat
  BY DEF Types, Arg
<1>2. lastOf(arg[c].first, arg[c].count) \in Nat
  BY <1>1 DEF CallOK, AppendCommit, AppendPCs, lastOf, FirstSeqno
<1>3. row' \in logState
  BY <1>2 DEF AppendCommit, Types, logState
<1>4. row.cur_slot \in Slots /\ heap[row.cur_slot] \in Seq(Entry)
  BY DEF Types, logState
<1>5. heap[row.cur_slot] \o Batch(c) \in Seq(Entry)
  BY <1>4, BatchType
<1>. QED
  BY <1>3, <1>5 DEF AppendCommit, Types

\* Trim's GREATEST(trim_upto, LEAST($1, last_seqno)) is a seqno.
LEMMA WatermarkType ==
    ASSUME Types, NEW c \in Calls
    PROVE  /\ Watermark(c) \in Nat
           /\ row.trim_upto <= Watermark(c)
           /\ row.trim_upto <= row.last_seqno => Watermark(c) <= row.last_seqno
<1>1. arg[c].first \in Nat /\ row.last_seqno \in Nat /\ row.trim_upto \in Nat
  BY DEF Types, Arg, logState
<1>. QED
  BY <1>1 DEF Watermark

\* What reclaim writes to the row and leaves of the tables is well typed.
LEMMA ReclaimCommitTypes ==
    ASSUME Types, NEW c \in Calls, ReclaimCommit(c)
    PROVE  row' \in logState /\ heap' \in [Slots -> Seq(Entry)]
<1>1. row.cur_slot \in Slots /\ row.last_seqno \in Nat /\ row \in logState
  BY DEF Types, logState
<1>2. heap' \in [Slots -> Seq(Entry)]
  <2>1. heap' = heap \/ heap' = [heap EXCEPT ![prevSlot(row)] = <<>>]
    BY DEF ReclaimCommit
  <2>2. <<>> \in Seq(Entry) /\ heap \in [Slots -> Seq(Entry)]
    BY DEF Types
  <2>. QED
    BY <2>1, <2>2
<1>3. [row EXCEPT !.prev_hi = 0] \in logState
  BY <1>1 DEF logState
<1>4. \A st \in logState : [st EXCEPT !.cur_slot = 1 - @, !.prev_hi = row.last_seqno,
                                      !.cur_lo = row.last_seqno + 1] \in logState
  <2>. SUFFICES ASSUME NEW st \in logState
                PROVE  [st EXCEPT !.cur_slot = 1 - st.cur_slot, !.prev_hi = row.last_seqno,
                                  !.cur_lo = row.last_seqno + 1] \in logState
    OBVIOUS
  <2>1. 1 - st.cur_slot \in Slots
    BY DEF logState, Slots
  <2>2. \A a \in Slots, h, l \in Nat :
          [st EXCEPT !.cur_slot = a, !.prev_hi = h, !.cur_lo = l] \in logState
    BY DEF logState
  <2>3. row.last_seqno + 1 \in Nat
    BY <1>1
  <2>. QED
    BY <1>1, <2>1, <2>2, <2>3
<1>. QED
  BY <1>1, <1>2, <1>3, <1>4 DEF ReclaimCommit

\* A step of a call under way keeps the types.
LEMMA StepTypes ==
    ASSUME Types, NEW c \in Calls, CallOK(c), Step(c) PROVE Types'
<1>1. CASE LockTable(c)
  BY <1>1 DEF LockTable, Goto, AfterLock, LockPCs, NextTable, Types, Slots,
              PCs, AppendPCs, TrimPCs, ReclaimPCs, ReadPCs
<1>2. CASE FenceScan(c) \/ FenceRow(c)
  <2>1. FenceAnswer(c) \in Results /\ row.epoch \in Nat
    BY DEF FenceAnswer, fenceRefusal, Results, Types, logState
  <2>2. [owner |-> row.epoch, refusal |-> FenceAnswer(c)] \in Seen
    BY <2>1 DEF Seen
  <2>. QED
    BY <1>2, <2>2 DEF FenceScan, FenceRow, FenceTest, MatchesNothing, Goto,
                      ReleaseLocks, Types, PCs, FencePCs
<1>3. CASE AppendScan(c) \/ AppendRow(c)
  <2>1. AppendAnswer(c) \in Results /\ row.epoch \in Nat
    BY DEF AppendAnswer, appendRefusal, Results, Types, logState
  <2>2. [owner |-> row.epoch, refusal |-> AppendAnswer(c)] \in Seen
    BY <2>1 DEF Seen
  <2>. QED
    BY <1>3, <2>2 DEF AppendScan, AppendRow, AppendTest, MatchesNothing, Goto,
                      ReleaseLocks, Types, PCs, AppendPCs
<1>4. ASSUME NEW r \in Results, Return(c, r), row' \in logState,
             heap' \in [Slots -> Seq(Entry)], UNCHANGED <<created, arg, seen>>,
             got' \in [Calls -> SUBSET Entry]
      PROVE Types'
  BY <1>4 DEF Return, Goto, ReleaseLocks, Types, PCs
<1>5. CASE FenceCommit(c)
  <2>1. row' \in logState
    BY <1>5 DEF FenceCommit, Types, logState, Arg
  <2>. QED
    BY <1>4, <1>5, <2>1 DEF FenceCommit, CommitReplies, Results, Types
<1>6. CASE AppendCommit(c)
  BY <1>4, <1>6, AppendCommitTypes DEF AppendCommit, CommitReplies, Results, Types
<1>7. CASE FenceDiagnose(c)
  <2>1. FenceAnswer(c) \in Results
    BY DEF FenceAnswer, fenceRefusal, Results
  <2>. QED
    BY <1>4, <1>7, <2>1 DEF FenceDiagnose, Results, Types
<1>8. CASE AppendDiagnose(c)
  <2>1. AppendAnswer(c) \in Results
    BY DEF AppendAnswer, appendRefusal, Results
  <2>. QED
    BY <1>4, <1>8, <2>1 DEF AppendDiagnose, Results, Types
<1>9. CASE TrimRow(c) \/ ReclaimRow(c)
  BY <1>9 DEF TrimRow, ReclaimRow, Goto, Types, PCs, TrimPCs, ReclaimPCs
<1>10. CASE TrimCommit(c)
  <2>1. row' \in logState
    BY <1>10, WatermarkType DEF TrimCommit, Types, logState
  <2>2. CASE \E r \in {"nil", "driver"} : Return(c, r)
    BY <1>4, <1>10, <2>1, <2>2 DEF TrimCommit, Results, Types
  <2>3. CASE \E p \in ReclaimPCs : Goto(c, p) /\ UNCHANGED <<held, res>>
    BY <1>10, <2>1, <2>3 DEF TrimCommit, Goto, Types, PCs, TrimPCs, ReclaimPCs
  <2>. QED
    BY <1>10, <2>2, <2>3 DEF TrimCommit, ReclaimPCs
<1>11. CASE ReclaimTimeout(c)
  BY <1>4, <1>11 DEF ReclaimTimeout, Results, Types
<1>12. CASE ReclaimCommit(c)
  BY <1>4, <1>12, ReclaimCommitTypes DEF ReclaimCommit, CommitReplies, Results, Types
<1>13. CASE ReadQuery(c)
  <2>1. Rows \subseteq Entry
    BY DEF Rows, Types
  <2>2. got' \in [Calls -> SUBSET Entry]
    BY <1>13, <2>1 DEF ReadQuery, Types
  <2>. QED
    BY <1>4, <1>13, <2>2 DEF ReadQuery, Results, Types
<1>. QED
  BY <1>1, <1>2, <1>3, <1>5, <1>6, <1>7, <1>8, <1>9, <1>10, <1>11, <1>12, <1>13 DEF Step

\* A step of one session leaves the place, the arguments and the locks of the
\* others alone.
LEMMA Frame ==
    ASSUME Types, NEW c \in Calls, Call(c) \/ Step(c) \/ Failure(c),
           NEW d \in Calls, d # c
    PROVE  /\ created' = created
           /\ pc'[d] = pc[d] /\ arg'[d] = arg[d] /\ held'[d] = held[d]
<1>. USE DEF Goto, Return, ReleaseLocks, Types
<1>1. CASE Call(c)
  BY <1>1 DEF Call, Fence, AppendBatch, Trim, ReadFrom, Start
<1>2. CASE Failure(c)
  BY <1>2 DEF Failure
<1>3. CASE Step(c)
  <2>1. CASE LockTable(c)
    BY <2>1 DEF LockTable
  <2>2. CASE FenceScan(c) \/ FenceRow(c)
    BY <2>2 DEF FenceScan, FenceRow, FenceTest, MatchesNothing
  <2>3. CASE AppendScan(c) \/ AppendRow(c)
    BY <2>3 DEF AppendScan, AppendRow, AppendTest, MatchesNothing
  <2>4. CASE FenceCommit(c) \/ AppendCommit(c) \/ ReclaimCommit(c)
    BY <2>4 DEF FenceCommit, AppendCommit, ReclaimCommit
  <2>5. CASE FenceDiagnose(c) \/ AppendDiagnose(c) \/ ReadQuery(c) \/ ReclaimTimeout(c)
    BY <2>5 DEF FenceDiagnose, AppendDiagnose, ReadQuery, ReclaimTimeout
  <2>6. CASE TrimRow(c) \/ ReclaimRow(c)
    BY <2>6 DEF TrimRow, ReclaimRow
  <2>7. CASE TrimCommit(c)
    BY <2>7 DEF TrimCommit
  <2>. QED
    BY <1>3, <2>1, <2>2, <2>3, <2>4, <2>5, <2>6, <2>7 DEF Step
<1>. QED
  BY <1>1, <1>2, <1>3

\* A call under way stays in its own operation until it returns, and keeps its
\* arguments.
LEMMA StepStays ==
    ASSUME Types, NEW c \in Calls, Step(c) \/ Failure(c)
    PROVE  /\ arg' = arg /\ created' = created
           /\ \/ pc'[c] = "idle"
              \/ pc[c] \in AppendPCs /\ pc'[c] \in AppendPCs
              \/ pc[c] \in FencePCs /\ pc'[c] \in FencePCs
              \/ pc[c] \in TrimPCs /\ pc'[c] \in TrimPCs
              \/ pc[c] \in ReadPCs /\ pc'[c] \in ReadPCs
<1>. USE DEF Goto, Return, Types
<1>1. CASE LockTable(c)
  BY <1>1 DEF LockTable, LockPCs, AfterLock, AppendPCs, TrimPCs, ReclaimPCs, ReadPCs
<1>2. CASE FenceScan(c) \/ FenceRow(c)
  BY <1>2 DEF FenceScan, FenceRow, FenceTest, MatchesNothing, FencePCs
<1>3. CASE AppendScan(c) \/ AppendRow(c)
  BY <1>3 DEF AppendScan, AppendRow, AppendTest, MatchesNothing, AppendPCs
<1>4. CASE FenceCommit(c) \/ AppendCommit(c) \/ ReclaimCommit(c)
  BY <1>4 DEF FenceCommit, AppendCommit, ReclaimCommit
<1>5. CASE FenceDiagnose(c) \/ AppendDiagnose(c) \/ ReadQuery(c) \/ ReclaimTimeout(c)
              \/ Failure(c)
  BY <1>5 DEF FenceDiagnose, AppendDiagnose, ReadQuery, ReclaimTimeout, Failure
<1>6. CASE TrimRow(c) \/ ReclaimRow(c)
  BY <1>6 DEF TrimRow, ReclaimRow, TrimPCs, ReclaimPCs
<1>7. CASE TrimCommit(c)
  BY <1>7 DEF TrimCommit, TrimPCs, ReclaimPCs
<1>. QED
  BY <1>1, <1>2, <1>3, <1>4, <1>5, <1>6, <1>7 DEF Step

\* A call that goes on past its checks has arguments they admitted.
LEMMA CallAdmits ==
    ASSUME TypeOK, NEW c \in Calls, Call(c) PROVE CallOK(c)'
<1>. USE Constants DEF ConstantFacts, CallOK, AppendPCs, FencePCs, TrimPCs, ReclaimPCs,
                       ReadPCs, FirstSeqno, Types, TypeOK
<1>1. ASSUME NEW e \in Epochs \union {0}, Fence(c, e) PROVE CallOK(c)'
  BY <1>1 DEF Fence, Start, Goto, checkFence
<1>2. ASSUME NEW e \in Epochs \union {0}, NEW first \in 0 .. MaxSeqno, NEW n \in Batches,
             AppendBatch(c, e, first, n)
      PROVE CallOK(c)'
  BY <1>2 DEF AppendBatch, Start, Goto, checkAppend, known
<1>3. ASSUME NEW upTo \in Trims, Trim(c, upTo) PROVE CallOK(c)'
  BY <1>3 DEF Trim, Start, Goto, checkTrim
<1>4. ASSUME NEW from \in 0 .. MaxSeqno, NEW limit \in Limits, ReadFrom(c, from, limit)
      PROVE CallOK(c)'
  BY <1>4 DEF ReadFrom, Start, Goto, checkRead, found
<1>. QED
  BY <1>1, <1>2, <1>3, <1>4 DEF Call

\* The type invariant is inductive.
LEMMA TypeStep == TypeOK /\ [Next]_vars => TypeOK'
<1>. SUFFICES ASSUME TypeOK, [Next]_vars PROVE TypeOK'
  OBVIOUS
<1>1. CASE CreateLogs
  <2>1. Types'
    BY <1>1 DEF CreateLogs, TypeOK, Types, logState, Slots, FirstSeqno
  <2>. QED
    BY <1>1, <2>1 DEF CreateLogs, TypeOK, CallOK
<1>2. ASSUME NEW c \in Calls, Call(c) \/ Step(c) \/ Failure(c) PROVE TypeOK'
  <2>1. Types'
    <3>1. CASE Failure(c)
      BY <3>1 DEF Failure, Return, Goto, ReleaseLocks, TypeOK, Types, PCs, Results
    <3>. QED
      BY <1>2, <3>1, CallTypes, StepTypes DEF TypeOK
  <2>2. CallOK(c)'
    <3>1. CASE Call(c)
      BY <3>1, CallAdmits
    <3>2. CASE Step(c) \/ Failure(c)
      BY <3>2, StepStays DEF TypeOK, CallOK, AppendPCs, FencePCs, TrimPCs, ReclaimPCs, ReadPCs
    <3>. QED
      BY <1>2, <3>1, <3>2
  <2>3. ASSUME NEW d \in Calls, d # c PROVE CallOK(d)'
    BY <1>2, <2>3, Frame DEF TypeOK, CallOK
  <2>. QED
    BY <2>1, <2>2, <2>3 DEF TypeOK
<1>3. CASE UNCHANGED vars
  BY <1>3 DEF vars, TypeOK, Types, CallOK
<1>. QED
  BY <1>1, <1>2, <1>3 DEF Next

\* A database that has not been asked for the log yet is well typed.
LEMMA TypeInit == Init => TypeOK
<1>. SUFFICES ASSUME Init PROVE TypeOK
  OBVIOUS
<1>1. row \in logState /\ heap \in [Slots -> Seq(Entry)]
  BY DEF Init, logState, Slots, FirstSeqno
<1>2. arg \in [Calls -> Arg] /\ seen \in [Calls -> Seen]
  BY DEF Init, Arg, Ops, Seen, Results
<1>3. pc \in [Calls -> PCs] /\ held \in [Calls -> SUBSET Slots]
      /\ got \in [Calls -> SUBSET Entry] /\ res \in [Calls -> Results]
  BY DEF Init, PCs, Results
<1>4. \A c \in Calls : CallOK(c)
  BY DEF Init, CallOK, AppendPCs, FencePCs, TrimPCs, ReclaimPCs, ReadPCs
<1>. QED
  BY <1>1, <1>2, <1>3, <1>4 DEF Init, TypeOK, Types

\* Every variable keeps its type, and a call past its argument checks never runs
\* with arguments they refuse or on a log that is not there.
THEOREM TypeCorrect == Spec => []TypeOK
BY TypeInit, TypeStep, PTL DEF Spec

-----------------------------------------------------------------------------
(* The row lock. *)

\* A session's step changes the row only while it has it, and has it afterwards
\* only by taking it: with no other session on it and the predicate tested.
LEMMA RowTaken ==
    ASSUME Types, NEW c \in Calls, Call(c) \/ Step(c) \/ Failure(c)
    PROVE  /\ HoldsRow(c) \/ row' = row
           /\ HoldsRow(c)' => /\ row' = row
                              /\ \A d \in Calls : d # c => ~HoldsRow(d)
                              /\ pc'[c] = "append.write" => AppendMatches(c)
                              /\ pc'[c] = "fence.write" => FenceMatches(c)
                              /\ arg' = arg
<1>. USE DEF HoldsRow, WritePCs, Goto, Return, Types
<1>1. CASE Call(c)
  BY <1>1 DEF Call, Fence, AppendBatch, Trim, ReadFrom, Start
<1>2. CASE Failure(c) \/ FenceDiagnose(c) \/ AppendDiagnose(c) \/ ReadQuery(c)
              \/ ReclaimTimeout(c)
  BY <1>2 DEF Failure, FenceDiagnose, AppendDiagnose, ReadQuery, ReclaimTimeout
<1>3. CASE LockTable(c)
  BY <1>3 DEF LockTable, LockPCs, AfterLock
<1>4. CASE FenceScan(c)
  BY <1>4 DEF FenceScan, FenceTest, MatchesNothing
<1>5. CASE AppendScan(c)
  BY <1>5 DEF AppendScan, AppendTest, MatchesNothing
<1>6. CASE FenceRow(c)
  BY <1>6 DEF FenceRow, FenceTest, MatchesNothing, Blocked, WaitsFor, BlockedOnRow, RowPCs
<1>7. CASE AppendRow(c)
  BY <1>7 DEF AppendRow, AppendTest, MatchesNothing, Blocked, WaitsFor, BlockedOnRow, RowPCs
<1>8. CASE TrimRow(c) \/ ReclaimRow(c)
  BY <1>8 DEF TrimRow, ReclaimRow, Blocked, WaitsFor, BlockedOnRow, RowPCs
<1>9. CASE FenceCommit(c) \/ AppendCommit(c) \/ ReclaimCommit(c)
  BY <1>9 DEF FenceCommit, AppendCommit, ReclaimCommit
<1>10. CASE TrimCommit(c)
  BY <1>10 DEF TrimCommit
<1>. QED
  BY <1>1, <1>2, <1>3, <1>4, <1>5, <1>6, <1>7, <1>8, <1>9, <1>10 DEF Step

\* The row lock's invariant is inductive with the types: the session that has
\* the row is the only one whose commit could change what it tested.
LEMMA RowLockStep == TypeOK /\ RowLockInv /\ [Next]_vars => RowLockInv'
<1>. SUFFICES ASSUME TypeOK, RowLockInv, [Next]_vars PROVE RowLockInv'
  OBVIOUS
<1>1. CASE CreateLogs
  <2>1. \A c \in Calls : pc[c] # "append.write" /\ pc[c] # "fence.write"
    BY <1>1 DEF CreateLogs, TypeOK, CallOK, RowLockInv, FenceMatches, AppendPCs
  <2>. QED
    BY <1>1, <2>1 DEF CreateLogs, RowLockInv, HoldsRow
<1>2. ASSUME NEW c \in Calls, Call(c) \/ Step(c) \/ Failure(c) PROVE RowLockInv'
  <2>1. Types
    BY DEF TypeOK
  <2>2. \A d \in Calls : d # c => (HoldsRow(d)' <=> HoldsRow(d))
    BY <1>2, <2>1, Frame DEF HoldsRow
  <2>3. ASSUME NEW a \in Calls, NEW b \in Calls, HoldsRow(a)', HoldsRow(b)' PROVE a = b
    BY <1>2, <2>1, <2>2, <2>3, RowTaken DEF RowLockInv
  <2>4. created' = created
    BY <1>2, <2>1, StepStays DEF Call, Fence, AppendBatch, Trim, ReadFrom, Start
  <2>5. ASSUME NEW d \in Calls, pc'[d] = "append.write" PROVE AppendMatches(d)'
    <3>1. HoldsRow(d)'
      BY <2>5 DEF HoldsRow, WritePCs
    <3>2. CASE d = c
      BY <1>2, <2>1, <2>5, <3>1, <3>2, RowTaken DEF AppendMatches
    <3>3. CASE d # c
      <4>1. row' = row
        BY <1>2, <2>1, <2>2, <3>1, <3>3, RowTaken DEF RowLockInv
      <4>. QED
        BY <1>2, <2>1, <2>5, <3>3, <4>1, Frame DEF RowLockInv, AppendMatches
    <3>. QED
      BY <3>2, <3>3
  <2>6. ASSUME NEW d \in Calls, pc'[d] = "fence.write" PROVE FenceMatches(d)'
    <3>1. HoldsRow(d)'
      BY <2>6 DEF HoldsRow, WritePCs
    <3>2. CASE d = c
      BY <1>2, <2>1, <2>4, <2>6, <3>1, <3>2, RowTaken DEF FenceMatches
    <3>3. CASE d # c
      <4>1. row' = row
        BY <1>2, <2>1, <2>2, <3>1, <3>3, RowTaken DEF RowLockInv
      <4>. QED
        BY <1>2, <2>1, <2>4, <2>6, <3>3, <4>1, Frame DEF RowLockInv, FenceMatches
    <3>. QED
      BY <3>2, <3>3
  <2>. QED
    BY <2>3, <2>5, <2>6 DEF RowLockInv
<1>3. CASE UNCHANGED vars
  BY <1>3 DEF vars, RowLockInv, HoldsRow, AppendMatches, FenceMatches
<1>. QED
  BY <1>1, <1>2, <1>3 DEF Next

\* Between the test of a predicate under the row lock and the commit it admits,
\* no other session changes the row: appends and fences are atomic.
THEOREM RowLockCorrect == Spec => []RowLockInv
<1>1. Init => RowLockInv
  BY DEF Init, RowLockInv, HoldsRow, WritePCs
<1>. QED
  BY <1>1, RowLockStep, TypeCorrect, PTL DEF Spec

-----------------------------------------------------------------------------
(* The table locks, and the order of the locks. *)

\* A session's own step leaves it with the locks of its new place, and gives it a
\* table only if no conflicting session has that table.
LEMMA TablesStep ==
    ASSUME Types, NEW c \in Calls, TablesHeld(c), Call(c) \/ Step(c) \/ Failure(c)
    PROVE  /\ TablesHeld(c)'
           /\ \/ held'[c] \subseteq held[c] /\ (Exclusive(c)' => Exclusive(c) \/ held'[c] = {})
              \/ /\ Exclusive(c)' => Exclusive(c)
                 /\ \E t \in Slots :
                      /\ held'[c] = held[c] \union {t}
                      /\ \A d \in Calls : Conflict(c, d) => t \notin held[d]
<1>. USE DEF TablesHeld, Exclusive, LockPCs, ReclaimPCs, FencePCs, Goto, Return,
             ReleaseLocks, Types
<1>1. CASE Call(c)
  BY <1>1 DEF Call, Fence, AppendBatch, Trim, ReadFrom, Start
<1>2. CASE Failure(c) \/ FenceDiagnose(c) \/ AppendDiagnose(c) \/ ReadQuery(c)
              \/ ReclaimTimeout(c)
  BY <1>2 DEF Failure, FenceDiagnose, AppendDiagnose, ReadQuery, ReclaimTimeout
<1>3. CASE LockTable(c)
  <2>1. NextTable(c) \in Slots /\ held'[c] = held[c] \union {NextTable(c)}
    BY <1>3 DEF LockTable, NextTable, Slots
  <2>2. \A d \in Calls : Conflict(c, d) => NextTable(c) \notin held[d]
    BY <1>3 DEF LockTable, Blocked, WaitsFor, BlockedOnTable
  <2>3. TablesHeld(c)' /\ (Exclusive(c)' => Exclusive(c))
    BY <1>3, <2>1 DEF LockTable, AfterLock, NextTable, Slots
  <2>. QED
    BY <2>1, <2>2, <2>3
<1>4. CASE FenceScan(c) \/ FenceRow(c)
  BY <1>4 DEF FenceScan, FenceRow, FenceTest, MatchesNothing
<1>5. CASE AppendScan(c) \/ AppendRow(c)
  BY <1>5 DEF AppendScan, AppendRow, AppendTest, MatchesNothing
<1>6. CASE TrimRow(c) \/ ReclaimRow(c)
  BY <1>6 DEF TrimRow, ReclaimRow
<1>7. CASE FenceCommit(c) \/ AppendCommit(c) \/ ReclaimCommit(c)
  BY <1>7 DEF FenceCommit, AppendCommit, ReclaimCommit
<1>8. CASE TrimCommit(c)
  BY <1>8 DEF TrimCommit
<1>. QED
  BY <1>1, <1>2, <1>3, <1>4, <1>5, <1>6, <1>7, <1>8 DEF Step

\* The table locks' invariant is inductive with the types.
LEMMA TableLockStep == TypeOK /\ TableLockInv /\ [Next]_vars => TableLockInv'
<1>. SUFFICES ASSUME TypeOK, TableLockInv, [Next]_vars PROVE TableLockInv'
  OBVIOUS
<1>1. CASE CreateLogs \/ UNCHANGED vars
  BY <1>1 DEF CreateLogs, vars, TableLockInv, TablesHeld, Conflict, Exclusive
<1>2. ASSUME NEW c \in Calls, Call(c) \/ Step(c) \/ Failure(c) PROVE TableLockInv'
  <2>1. Types
    BY DEF TypeOK
  <2>2. ASSUME NEW d \in Calls, d # c
        PROVE  TablesHeld(d)' /\ held'[d] = held[d] /\ (Exclusive(d)' <=> Exclusive(d))
    BY <1>2, <2>1, <2>2, Frame DEF TableLockInv, TablesHeld, Exclusive
  <2>3. TablesHeld(c)'
    BY <1>2, <2>1, TablesStep DEF TableLockInv
  <2>4. ASSUME NEW d \in Calls, Conflict(c, d)' PROVE held'[c] \intersect held'[d] = {}
    <3>1. d # c /\ held'[d] = held[d] /\ (Exclusive(d)' <=> Exclusive(d))
      BY <2>2, <2>4 DEF Conflict
    <3>2. CASE held'[c] \subseteq held[c] /\ (Exclusive(c)' => Exclusive(c) \/ held'[c] = {})
      BY <2>4, <3>1, <3>2 DEF TableLockInv, Conflict
    <3>3. CASE /\ Exclusive(c)' => Exclusive(c)
               /\ \E t \in Slots :
                    /\ held'[c] = held[c] \union {t}
                    /\ \A e \in Calls : Conflict(c, e) => t \notin held[e]
      BY <2>4, <3>1, <3>3 DEF TableLockInv, Conflict
    <3>. QED
      BY <1>2, <2>1, <3>2, <3>3, TablesStep DEF TableLockInv
  <2>5. ASSUME NEW a \in Calls, NEW b \in Calls, Conflict(a, b)'
        PROVE held'[a] \intersect held'[b] = {}
    <3>1. CASE a = c
      BY <2>4, <2>5, <3>1
    <3>2. CASE b = c
      BY <2>4, <2>5, <3>2 DEF Conflict
    <3>3. CASE a # c /\ b # c
      BY <2>2, <2>5, <3>3 DEF TableLockInv, Conflict
    <3>. QED
      BY <3>1, <3>2, <3>3
  <2>. QED
    BY <2>2, <2>3, <2>5 DEF TableLockInv
<1>. QED
  BY <1>1, <1>2 DEF Next

\* Every call holds the tables its place in it says, and a reclaim never has a
\* table that an append or a read has.
THEOREM TableLockCorrect == Spec => []TableLockInv
<1>1. Init => TableLockInv
  BY DEF Init, TableLockInv, TablesHeld, LockPCs, FencePCs, Slots, Conflict, Exclusive, ReclaimPCs
<1>. QED
  BY <1>1, TableLockStep, TypeCorrect, PTL DEF Spec

\* The lock order is slot 0, slot 1, the row, and whoever is waited for waits, if
\* at all, for something later in that order: the row's holder for nothing, slot
\* 1's for the row, slot 0's for slot 1 or the row.
LEMMA LockOrder ==
    ASSUME TypeOK, TableLockInv PROVE NoDeadlock
<1>. SUFFICES ASSUME NEW S \in SUBSET Calls,
                     \A c \in S : \E d \in S : WaitsFor(c, d)
              PROVE  S = {}
  BY DEF NoDeadlock
<1>1. \A c \in S, d \in S : ~BlockedOnRow(c, d)
  <2>. SUFFICES ASSUME NEW c \in S, NEW d \in S, BlockedOnRow(c, d) PROVE FALSE
    OBVIOUS
  <2>. QED
    BY DEF BlockedOnRow, WaitsFor, BlockedOnTable, HoldsRow, WritePCs, LockPCs, RowPCs
<1>2. \A c \in S : pc[c] \in LockPCs /\ \E d \in S : NextTable(c) \in held[d]
  BY <1>1 DEF WaitsFor, BlockedOnTable
<1>3. \A c \in S : held[c] \in {{}, {0}}
  BY <1>2 DEF TableLockInv, TablesHeld
<1>4. \A c \in S : NextTable(c) = 0
  BY <1>2, <1>3 DEF NextTable
<1>5. \A c \in S : 0 \notin held[c]
  BY <1>4 DEF NextTable
<1>. QED
  BY <1>2, <1>4, <1>5

\* No set of sessions ever waits on itself: the lock order that reclaim calls
\* load-bearing excludes a deadlock for any number of sessions.
THEOREM DeadlockFree == Spec => []NoDeadlock
BY TypeCorrect, TableLockCorrect, LockOrder, PTL

-----------------------------------------------------------------------------
(* The ring. *)

\* A session that does not commit leaves the row and the tables alone.
LEMMA OnlyCommits ==
    ASSUME NEW c \in Calls, Call(c) \/ Step(c) \/ Failure(c),
           ~FenceCommit(c), ~AppendCommit(c), ~TrimCommit(c), ~ReclaimCommit(c)
    PROVE  row' = row /\ heap' = heap
BY DEF Call, Fence, AppendBatch, Trim, ReadFrom, Start, Step, Failure, LockTable,
       FenceScan, FenceRow, FenceTest, FenceDiagnose, AppendScan, AppendRow, AppendTest,
       AppendDiagnose, TrimRow, ReclaimTimeout, ReclaimRow, ReadQuery

\* The fields of the row, and the two halves, as the steps below use them.
LEMMA RingTypes ==
    ASSUME Types
    PROVE  /\ row.epoch \in Nat /\ row.last_seqno \in Nat /\ row.trim_upto \in Nat
           /\ row.cur_lo \in Nat /\ row.prev_hi \in Nat
           /\ row.cur_slot \in Slots /\ prevSlot(row) \in Slots
           /\ prevSlot(row) # row.cur_slot /\ 1 - prevSlot(row) = row.cur_slot
           /\ heap[row.cur_slot] \in Seq(Entry) /\ heap[prevSlot(row)] \in Seq(Entry)
           /\ Len(heap[row.cur_slot]) \in Nat /\ Len(heap[prevSlot(row)]) \in Nat
<1>1. row \in logState /\ heap \in [Slots -> Seq(Entry)]
  BY DEF Types
<1>2. row.cur_slot \in Slots /\ prevSlot(row) \in Slots /\ prevSlot(row) # row.cur_slot
      /\ 1 - prevSlot(row) = row.cur_slot
  BY <1>1 DEF logState, Slots, prevSlot
<1>. QED
  BY <1>1, <1>2 DEF logState

\* A fence moves nothing of the ring, and a trim only the watermark, which it
\* never puts past the end of the log.
LEMMA RingFenceTrim ==
    ASSUME Types, RingInv, NEW c \in Calls, FenceCommit(c) \/ TrimCommit(c)
    PROVE  RingInv'
<1>1. /\ row'.last_seqno = row.last_seqno /\ row'.cur_slot = row.cur_slot
      /\ row'.cur_lo = row.cur_lo /\ row'.prev_hi = row.prev_hi
      /\ row'.trim_upto = row.trim_upto \/ row'.trim_upto = Watermark(c)
      /\ heap' = heap
  BY DEF FenceCommit, TrimCommit, Types, logState
<1>2. /\ row'.trim_upto \in Nat /\ row.trim_upto <= row'.trim_upto
      /\ row'.trim_upto <= row'.last_seqno
  BY <1>1, WatermarkType, RingTypes DEF RingInv
<1>3. heap'[row'.cur_slot] = heap[row.cur_slot] /\ heap'[prevSlot(row)'] = heap[prevSlot(row)]
  BY <1>1 DEF prevSlot
<1>4. CurHalf'
  BY <1>1, <1>3 DEF RingInv, CurHalf
<1>5. PrevHalf'
  <2>. DEFINE low == row.cur_lo - Len(heap[prevSlot(row)])
  <2>1. low \in Int /\ row.trim_upto \in Nat
    BY RingTypes
  <2>2. low <= row.trim_upto + 1
    BY DEF RingInv, PrevHalf
  <2>3. low <= row'.trim_upto + 1
    BY <1>2, <2>1, <2>2
  <2>. QED
    BY <1>1, <1>3, <2>3 DEF RingInv, PrevHalf
<1>. QED
  BY <1>2, <1>4, <1>5 DEF RingInv

\* An append extends the current half at its end: the batch starts right above
\* the log's last seqno because the row still is what the append's test saw.
LEMMA RingAppend ==
    ASSUME Types, RingInv, NEW c \in Calls, CallOK(c), AppendMatches(c), AppendCommit(c)
    PROVE  RingInv'
<1>. DEFINE cur == heap[row.cur_slot]
            n   == arg[c].count
<1>1. arg[c].first \in Nat /\ n \in Nat /\ arg[c].first = row.last_seqno + 1
  BY RingTypes DEF Types, Arg, AppendMatches
<1>2. /\ row'.last_seqno = row.last_seqno + n /\ row'.cur_slot = row.cur_slot
      /\ row'.cur_lo = row.cur_lo /\ row'.prev_hi = row.prev_hi
      /\ row'.trim_upto = row.trim_upto
  BY <1>1, RingTypes DEF AppendCommit, Types, logState, lastOf
<1>3. heap'[row'.cur_slot] = cur \o Batch(c) /\ heap'[prevSlot(row)'] = heap[prevSlot(row)]
  <2>1. prevSlot(row)' = prevSlot(row)
    BY <1>2 DEF prevSlot
  <2>. QED
    BY <1>2, <2>1, RingTypes DEF AppendCommit, Types
<1>4. CurHalf'
  <2>. DEFINE new == cur \o Batch(c)
  <2>1. /\ Len(new) = Len(cur) + n
        /\ \A i \in 1 .. Len(new) :
             new[i] = IF i <= Len(cur) THEN cur[i] ELSE Batch(c)[i - Len(cur)]
    BY RingTypes, BatchType, ConcatProperties
  <2>2. Len(cur) = row.last_seqno - row.cur_lo + 1 /\ Len(cur) \in Nat
    BY RingTypes DEF RingInv, CurHalf
  <2>3. \A j \in Int : arg[c].first + (j - Len(cur)) - 1 = row.cur_lo + j - 1
    <3>1. arg[c].first \in Int /\ row.last_seqno \in Int /\ row.cur_lo \in Int
      BY <1>1, RingTypes
    <3>2. Len(cur) \in Int
      BY <2>2
    <3>3. arg[c].first - Len(cur) = row.cur_lo
      BY <1>1, <2>2, <3>1, <3>2
    <3>. HIDE DEF cur
    <3>. QED
      BY <3>1, <3>2, <3>3
  <2>4. ASSUME NEW i \in 1 .. Len(new) PROVE new[i].seqno = row.cur_lo + i - 1
    <3>1. CASE i <= Len(cur)
      BY <2>1, <2>2, <3>1 DEF RingInv, CurHalf
    <3>2. CASE i > Len(cur)
      <4>1. i - Len(cur) \in 1 .. n
        BY <1>1, <2>1, <2>2, <3>2
      <4>2. Batch(c)[i - Len(cur)].seqno = arg[c].first + (i - Len(cur)) - 1
        BY <4>1, BatchType
      <4>3. row.last_seqno \in Nat /\ row.cur_lo \in Nat /\ i \in Int
        BY RingTypes
      <4>4. arg[c].first + (i - Len(cur)) - 1 = row.cur_lo + i - 1
        BY <2>3, <4>3
      <4>. QED
        BY <2>1, <2>2, <3>2, <4>2, <4>4
    <3>. QED
      BY <2>2, <3>1, <3>2
  <2>5. Len(new) = row'.last_seqno - row'.cur_lo + 1
    <3>1. row.last_seqno \in Nat /\ row.cur_lo \in Nat
      BY RingTypes
    <3>. QED
      BY <1>1, <1>2, <2>1, <2>2, <3>1
  <2>. QED
    BY <1>2, <1>3, <2>4, <2>5 DEF CurHalf
<1>5. PrevHalf'
  BY <1>2, <1>3 DEF RingInv, PrevHalf, prevSlot
<1>6. row'.trim_upto <= row'.last_seqno
  BY <1>1, <1>2, RingTypes DEF RingInv
<1>. QED
  BY <1>4, <1>5, <1>6 DEF RingInv

\* A reclaim empties the other half only when the watermark has passed it, and
\* turns the ring only into an empty half.
LEMMA RingReclaim ==
    ASSUME Types, RingInv, NEW c \in Calls, ReclaimCommit(c)
    PROVE  RingInv'
<1>. DEFINE do   == reclaimSteps(row, held[c] = Slots)
            cur  == heap[row.cur_slot]
            prev == heap[prevSlot(row)]
            rest == IF do.truncate THEN <<>> ELSE prev
<1>1. /\ row.last_seqno \in Nat /\ row.cur_lo \in Nat /\ row.trim_upto \in Nat
      /\ row.prev_hi \in Nat /\ Len(cur) \in Nat /\ Len(prev) \in Nat
      /\ cur \in Seq(Entry) /\ prev \in Seq(Entry)
  BY RingTypes
<1>2. /\ Len(cur) = row.last_seqno - row.cur_lo + 1
      /\ \A i \in 1 .. Len(cur) : cur[i].seqno = row.cur_lo + i - 1
      /\ row.prev_hi = (IF prev = <<>> THEN 0 ELSE row.cur_lo - 1)
      /\ \A i \in 1 .. Len(prev) : prev[i].seqno = row.cur_lo - Len(prev) + i - 1
      /\ 1 <= row.cur_lo - Len(prev) /\ row.cur_lo - Len(prev) <= row.trim_upto + 1
      /\ row.trim_upto <= row.last_seqno
  BY DEF RingInv, CurHalf, PrevHalf, FirstSeqno
<1>3. do.truncate => row.trim_upto >= row.cur_lo - 1
  BY DEF reclaimSteps, prevEmpty
<1>4. heap'[row.cur_slot] = cur /\ heap'[prevSlot(row)] = rest
  BY RingTypes DEF ReclaimCommit, Types
<1>6. CASE do.rotate
  <2>1. row.last_seqno - row.cur_lo + 1 >= RotateAfter
    BY <1>6 DEF reclaimSteps, canRotate, ringFull, Types, logState
  <2>2. cur # <<>>
    BY <1>1, <1>2, <2>1, Constants DEF ConstantFacts
  <2>3. ~do.truncate => prev = <<>>
    <3>1. ~do.truncate => row.prev_hi = 0
      BY <1>6 DEF reclaimSteps, canRotate
    <3>2. prev # <<>> => Len(prev) > 0
      BY <1>1, EmptySeq
    <3>. QED
      BY <1>1, <1>2, <3>1, <3>2
  <2>4. rest = <<>> /\ row.cur_lo <= row.trim_upto + 1
    BY <1>1, <1>2, <1>3, <2>3
  <2>5. /\ row'.last_seqno = row.last_seqno /\ row'.trim_upto = row.trim_upto
        /\ row'.cur_slot = prevSlot(row) /\ row'.prev_hi = row.last_seqno
        /\ row'.cur_lo = row.last_seqno + 1
    BY <1>6 DEF ReclaimCommit, Types, logState, prevSlot
  <2>6. heap'[row'.cur_slot] = <<>> /\ heap'[prevSlot(row)'] = cur
    BY <1>4, <2>4, <2>5, RingTypes DEF prevSlot
  <2>7. CurHalf'
    BY <1>1, <2>5, <2>6 DEF CurHalf
  <2>8. PrevHalf'
    <3>1. row'.cur_lo - Len(cur) = row.cur_lo
      BY <1>1, <1>2, <2>5
    <3>2. 1 <= row.cur_lo
      BY <1>1, <1>2
    <3>3. row'.cur_lo - 1 = row.last_seqno
      BY <1>1, <2>5
    <3>. QED
      BY <1>2, <2>2, <2>4, <2>5, <2>6, <3>1, <3>2, <3>3 DEF PrevHalf, FirstSeqno
  <2>. QED
    BY <1>2, <2>5, <2>7, <2>8 DEF RingInv
<1>7. CASE ~do.rotate
  <2>1. /\ row'.last_seqno = row.last_seqno /\ row'.trim_upto = row.trim_upto
        /\ row'.cur_slot = row.cur_slot /\ row'.cur_lo = row.cur_lo
        /\ row'.prev_hi = IF do.truncate THEN 0 ELSE row.prev_hi
    BY <1>7 DEF ReclaimCommit, Types, logState
  <2>2. heap'[row'.cur_slot] = cur /\ heap'[prevSlot(row)'] = rest
    BY <1>4, <2>1 DEF prevSlot
  <2>3. CurHalf'
    BY <1>2, <2>1, <2>2 DEF CurHalf
  <2>4. PrevHalf'
    <3>1. CASE ~do.truncate
      BY <1>2, <2>1, <2>2, <3>1 DEF PrevHalf, FirstSeqno
    <3>2. CASE do.truncate
      <4>1. rest = <<>> /\ Len(rest) = 0 /\ row'.prev_hi = 0
        BY <2>1, <3>2
      <4>2. 1 <= row.cur_lo - 0 /\ row.cur_lo - 0 <= row.trim_upto + 1
        BY <1>1, <1>2, <1>3, <3>2
      <4>. QED
        BY <2>1, <2>2, <4>1, <4>2 DEF PrevHalf, FirstSeqno
    <3>. QED
      BY <3>1, <3>2
  <2>. QED
    BY <1>2, <2>1, <2>3, <2>4 DEF RingInv
<1>. QED
  BY <1>6, <1>7

\* The ring's invariant is inductive with the types and the row lock: of all the
\* steps only the commits of Append, Trim and reclaim touch the ring.
LEMMA RingStep == TypeOK /\ RowLockInv /\ RingInv /\ [Next]_vars => RingInv'
<1>. SUFFICES ASSUME TypeOK, RowLockInv, RingInv, [Next]_vars PROVE RingInv'
  OBVIOUS
<1>1. CASE CreateLogs
  BY <1>1 DEF CreateLogs, RingInv, CurHalf, PrevHalf, prevSlot, FirstSeqno, Slots
<1>2. ASSUME NEW c \in Calls, Call(c) \/ Step(c) \/ Failure(c) PROVE RingInv'
  <2>1. CASE FenceCommit(c) \/ TrimCommit(c)
    BY <2>1, RingFenceTrim DEF TypeOK
  <2>2. CASE AppendCommit(c)
    <3>1. AppendMatches(c)
      BY <2>2 DEF AppendCommit, RowLockInv
    <3>. QED
      BY <2>2, <3>1, RingAppend DEF TypeOK
  <2>3. CASE ReclaimCommit(c)
    BY <2>3, RingReclaim DEF TypeOK
  <2>4. CASE row' = row /\ heap' = heap
    BY <2>4 DEF RingInv, CurHalf, PrevHalf, prevSlot
  <2>. QED
    BY <1>2, <2>1, <2>2, <2>3, <2>4, OnlyCommits
<1>3. CASE UNCHANGED vars
  BY <1>3 DEF vars, RingInv, CurHalf, PrevHalf, prevSlot
<1>. QED
  BY <1>1, <1>2, <1>3 DEF Next

\* The registry row always says what the two tables hold: the current half runs
\* from cur_lo to the log's end, and the other ends below it and reaches down to
\* the watermark, whatever sessions interleave and wherever they fail.
THEOREM RingCorrect == Spec => []RingInv
<1>1. Init => RingInv
  BY DEF Init, RingInv, CurHalf, PrevHalf, prevSlot, FirstSeqno, Slots
<1>. QED
  BY <1>1, RingStep, TypeCorrect, RowLockCorrect, PTL DEF Spec

\* The two halves number their rows without an overlap, so a live seqno has one
\* place: in the current half from cur_lo up, in the other half below it.
LEMMA OncePerSeqno ==
    ASSUME Types, RingInv PROVE EveryEntryOnce
<1>. DEFINE cur  == heap[row.cur_slot]
            prev == heap[prevSlot(row)]
            mid  == row.cur_lo
            end  == row.last_seqno
            low  == mid - Len(prev)
<1>1. /\ end \in Nat /\ mid \in Nat /\ row.trim_upto \in Nat
      /\ Len(cur) \in Nat /\ Len(prev) \in Nat /\ low \in Int
  BY RingTypes
<1>2. /\ Len(cur) = end - mid + 1
      /\ \A i \in 1 .. Len(cur) : cur[i].seqno = mid + i - 1
      /\ \A i \in 1 .. Len(prev) : prev[i].seqno = low + i - 1
      /\ low <= row.trim_upto + 1 /\ low + Len(prev) = mid
  <2>1. Len(cur) = end - mid + 1 /\ \A i \in 1 .. Len(cur) : cur[i].seqno = mid + i - 1
    BY Zenon DEF RingInv, CurHalf
  <2>2. \A i \in 1 .. Len(prev) : prev[i].seqno = low + i - 1
    BY Zenon DEF RingInv, PrevHalf
  <2>3. low <= row.trim_upto + 1
    BY Zenon DEF RingInv, PrevHalf
  <2>4. low + Len(prev) = mid
    BY <1>1
  <2>. QED
    BY <2>1, <2>2, <2>3, <2>4
<1>3. Slots = {row.cur_slot, prevSlot(row)} /\ row.cur_slot # prevSlot(row)
  BY RingTypes DEF Slots
<1>. SUFFICES ASSUME NEW n \in row.trim_upto + 1 .. end
              PROVE  \E s \in Slots : \E i \in 1 .. Len(heap[s]) :
                       \A t \in Slots : \A j \in 1 .. Len(heap[t]) :
                         heap[t][j].seqno = n <=> <<t, j>> = <<s, i>>
  BY DEF EveryEntryOnce
<1>4. n \in Int /\ low <= n /\ n <= end
  BY <1>1, <1>2
<1>. HIDE DEF cur, prev, mid, end, low
<1>5. CASE n >= mid
  <2>1. n - mid + 1 \in 1 .. Len(cur)
    BY <1>1, <1>2, <1>4, <1>5
  <2>2. \A j \in 1 .. Len(cur) : cur[j].seqno = n <=> j = n - mid + 1
    BY <1>1, <1>2, <1>4
  <2>3. \A j \in 1 .. Len(prev) : prev[j].seqno # n
    BY <1>1, <1>2, <1>4, <1>5
  <2>4. ASSUME NEW t \in Slots, NEW j \in 1 .. Len(heap[t])
        PROVE  heap[t][j].seqno = n <=> t = row.cur_slot /\ j = n - mid + 1
    <3>1. CASE t = row.cur_slot
      BY <3>1, <2>2, Zenon DEF cur
    <3>2. CASE t = prevSlot(row)
      BY <3>2, <2>3, <1>3, Zenon DEF prev
    <3>. QED
      BY <3>1, <3>2, <1>3, Zenon
  <2>5. \A t \in Slots : \A j \in 1 .. Len(heap[t]) :
          heap[t][j].seqno = n <=> <<t, j>> = <<row.cur_slot, n - mid + 1>>
    BY <2>4
  <2>6. row.cur_slot \in Slots /\ n - mid + 1 \in 1 .. Len(heap[row.cur_slot])
    BY <1>3, <2>1, Zenon DEF cur
  <2>. QED
    BY <2>5, <2>6, Zenon
<1>6. CASE n < mid
  <2>1. n - low + 1 \in 1 .. Len(prev)
    BY <1>1, <1>2, <1>4, <1>6
  <2>2. ASSUME NEW j \in 1 .. Len(prev) PROVE prev[j].seqno = n <=> j = n - low + 1
    <3>1. prev[j].seqno = low + j - 1 /\ j \in Int
      BY <1>2
    <3>2. low + j - 1 = n <=> j = n - low + 1
      BY <1>1, <1>4, <3>1
    <3>. QED
      BY <3>1, <3>2
  <2>3. \A j \in 1 .. Len(cur) : cur[j].seqno # n
    BY <1>1, <1>2, <1>4, <1>6
  <2>4. ASSUME NEW t \in Slots, NEW j \in 1 .. Len(heap[t])
        PROVE  heap[t][j].seqno = n <=> t = prevSlot(row) /\ j = n - low + 1
    <3>1. CASE t = prevSlot(row)
      BY <3>1, <2>2, Zenon DEF prev
    <3>2. CASE t = row.cur_slot
      BY <3>2, <2>3, <1>3, Zenon DEF cur
    <3>. QED
      BY <3>1, <3>2, <1>3, Zenon
  <2>5. \A t \in Slots : \A j \in 1 .. Len(heap[t]) :
          heap[t][j].seqno = n <=> <<t, j>> = <<prevSlot(row), n - low + 1>>
    BY <2>4
  <2>6. prevSlot(row) \in Slots /\ n - low + 1 \in 1 .. Len(heap[prevSlot(row)])
    BY <1>3, <2>1, Zenon DEF prev
  <2>. QED
    BY <2>5, <2>6, Zenon
<1>7. n >= mid \/ n < mid
  BY <1>1, <1>4
<1>. QED
  BY <1>5, <1>6, <1>7, Zenon

\* Every entry above the watermark is in exactly one place of the ring, for any
\* number of sessions and any rotation threshold.
THEOREM NothingLostNothingDoubled == Spec => []EveryEntryOnce
BY TypeCorrect, RingCorrect, OncePerSeqno, PTL DEF TypeOK

===============================================================================

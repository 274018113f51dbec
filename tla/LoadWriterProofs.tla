--------------------------- MODULE LoadWriterProofs ---------------------------
(***************************************************************************)
(* Proofs about LoadWriter, for any number of runs, any epochs, batch,      *)
(* retained length and stride, and any calls lost or late.                  *)
(***************************************************************************)
EXTENDS LoadWriter, TLAPS

ConstantFacts == /\ EpochOf \in [Runs -> Nat \ {0}]
                 /\ Batch \in Nat \ {0} /\ Retain \in Nat /\ Stride \in Nat \ {0}
                 /\ MaxSeqno \in Nat /\ MaxFills \in Nat

\* The assumptions on the constants, gathered for the steps below.
LEMMA Constants == ConstantFacts
BY EpochOfAssumption, BatchAssumption, RetainAssumption, StrideAssumption,
   BoundsAssumption DEF ConstantFacts

-----------------------------------------------------------------------------
(* What the store does with a call. *)

\* A call as a run makes it.
Call == [op : CallPlaces, epoch : Nat, first : Nat, payload : Payload]

\* A run that trims has written more than it retains, so that its trim asks for
\* a seqno; a run that was told where the log ends was told a seqno; a run that
\* keeps its batch has drawn one; and no trim passes the end of the log.
TrimOK ==
    /\ low <= last
    /\ \A w \in Runs :
          /\ place[w] = "trim" => Retain < next[w]
          /\ place[w] \in {"locate", "resync"} /\ reply[w] = "nil" => answer[w] >= FirstSeqno
          /\ ~fresh[w] => fills[w] > 0

\* The types, as far as they are inductive.
WellTyped == TypeOK /\ TrimOK

\* The writer's calls are calls.
LEMMA RequestType ==
    ASSUME WellTyped, NEW w \in Runs, place[w] \in CallPlaces
    PROVE  /\ Request(w) \in Call
           /\ Request(w).op = place[w] /\ Request(w).epoch = EpochOf[w]
           /\ Request(w).payload = <<w, fills[w]>>
           /\ place[w] # "trim" => Request(w).first = next[w]
           /\ place[w] = "trim" => Request(w).first = next[w] - 1 - Retain
<1>. USE Constants DEF ConstantFacts
<1>1. next[w] \in Nat /\ EpochOf[w] \in Nat /\ <<w, fills[w]>> \in Payload
  BY DEF WellTyped, TypeOK, Payload
<1>2. place[w] = "trim" => next[w] - 1 - Retain \in Nat
  BY <1>1 DEF WellTyped, TrimOK
<1>. QED
  BY <1>1, <1>2 DEF Request, Call, upTo, written

\* Everything a call may do to the log, and what its caller would be told.
LEMMA ExecuteKinds ==
    ASSUME WellTyped, NEW r \in Call, NEW e \in Replies, Execute(r, e)
    PROVE  /\ exists' = exists
           /\ \/ /\ UNCHANGED log
                 /\ r.op = "claim" => e = "ErrFenced" /\ owner > r.epoch
                 /\ r.op = "append" =>
                      e # "nil" /\ e = appendRefusal(r.epoch, r.first, owner, last)
              \/ /\ r.op = "claim" /\ e = "nil" /\ owner <= r.epoch
                 /\ owner' = r.epoch /\ UNCHANGED <<last, low, entries>>
              \/ /\ r.op = "append" /\ e = "nil" /\ owner = r.epoch /\ last + 1 = r.first
                 /\ last' = last + Batch /\ UNCHANGED <<owner, low>>
                 /\ entries' = entries \union
                       {[seqno |-> n, epoch |-> owner, payload |-> r.payload] :
                           n \in last + 1 .. last + Batch}
              \/ /\ r.op = "trim" /\ e = "nil" /\ UNCHANGED <<owner, last>>
                 /\ low' = Watermark(r.first) /\ low <= low' /\ low' <= last
                 /\ entries' = {x \in entries : x.seqno > low'}
<1>. USE DEF WellTyped, TypeOK
<1>1. r.epoch \in Nat /\ r.first \in Nat
  BY DEF Call
<1>2. CASE r.op = "claim" /\ e = fenceRefusal(owner, r.epoch) /\ e # "nil" /\ UNCHANGED log
  BY <1>2 DEF fenceRefusal, log
<1>3. CASE r.op = "claim" /\ e = "nil" /\ Log!Own(r.epoch)
  BY <1>3 DEF Log!Own
<1>4. CASE r.op \in {"locate", "resync"} /\ e = "nil" /\ UNCHANGED log
  BY <1>4 DEF log
<1>5. CASE /\ r.op = "append" /\ e = appendRefusal(r.epoch, r.first, owner, last)
           /\ e # "nil" /\ UNCHANGED log
  BY <1>5 DEF log
<1>6. CASE /\ r.op = "append" /\ e = "nil"
           /\ appendRefusal(r.epoch, r.first, owner, last) = "nil"
           /\ Log!Grow(Batch, r.payload)
  <2>1. owner = r.epoch /\ ~(last >= r.first) /\ ~(last < r.first - 1)
    BY <1>6 DEF appendRefusal
  <2>2. last + 1 = r.first
    BY <1>1, <2>1
  <2>. QED
    BY <1>6, <2>1, <2>2 DEF Log!Grow, Log!Entries
<1>7. CASE r.op = "trim" /\ e = "nil" /\ Log!Cut(Watermark(r.first))
  BY <1>7 DEF Log!Cut
<1>. QED
  BY <1>2, <1>3, <1>4, <1>5, <1>6, <1>7 DEF Execute

\* A call keeps the log well typed, and its owner and its bounds only grow.
LEMMA ExecuteTypes ==
    ASSUME WellTyped, NEW r \in Call, NEW e \in Replies, Execute(r, e)
    PROVE  /\ exists' /\ owner' \in Nat /\ last' \in Nat /\ low' \in Nat
           /\ entries' \subseteq [seqno : Nat, epoch : Nat, payload : Payload]
           /\ owner <= owner' /\ last <= last' /\ low <= low' /\ low' <= last'
<1>. USE Constants DEF ConstantFacts
<1>1. /\ exists /\ owner \in Nat /\ last \in Nat /\ low \in Nat /\ low <= last
      /\ entries \subseteq [seqno : Nat, epoch : Nat, payload : Payload]
  BY DEF WellTyped, TypeOK, TrimOK
<1>2. r.epoch \in Nat /\ r.first \in Nat /\ r.payload \in Payload
  BY DEF Call
<1>3. exists'
  BY <1>1, ExecuteKinds
<1>4. CASE UNCHANGED log
  BY <1>1, <1>3, <1>4 DEF log
<1>5. CASE owner <= r.epoch /\ owner' = r.epoch /\ UNCHANGED <<last, low, entries>>
  BY <1>1, <1>2, <1>3, <1>5
<1>6. CASE /\ last' = last + Batch /\ UNCHANGED <<owner, low>>
           /\ entries' = entries \union
                 {[seqno |-> n, epoch |-> owner, payload |-> r.payload] :
                     n \in last + 1 .. last + Batch}
  <2>1. \A n \in last + 1 .. last + Batch :
          [seqno |-> n, epoch |-> owner, payload |-> r.payload]
             \in [seqno : Nat, epoch : Nat, payload : Payload]
    BY <1>1, <1>2
  <2>2. entries' \subseteq [seqno : Nat, epoch : Nat, payload : Payload]
    BY <1>1, <1>6, <2>1
  <2>. QED
    BY <1>1, <1>3, <1>6, <2>2
<1>7. CASE /\ UNCHANGED <<owner, last>>
           /\ low' = Watermark(r.first) /\ low <= low' /\ low' <= last
           /\ entries' = {x \in entries : x.seqno > low'}
  <2>1. Watermark(r.first) \in Nat
    BY <1>1, <1>2 DEF Watermark
  <2>. QED
    BY <1>1, <1>3, <1>7, <2>1
<1>. QED
  BY <1>4, <1>5, <1>6, <1>7, ExecuteKinds

-----------------------------------------------------------------------------
(* Types. *)

\* A writer's own step leaves the log alone.
LEMMA WriterLeavesLog ==
    ASSUME NEW w \in Runs,
           GiveUp(w) \/ Start(w) \/ Claimed(w) \/ Located(w) \/ Slot(w) \/ Appended(w)
             \/ Resynced(w) \/ Trimmed(w) \/ Stop(w)
    PROVE  UNCHANGED log
BY DEF GiveUp, Start, Claimed, Located, Slot, Appended, Resynced, Trimmed, Stop

\* The types are inductive, with what a trim needs.
LEMMA TypeStep == WellTyped /\ [Next]_vars => WellTyped'
<1>. SUFFICES ASSUME WellTyped, [Next]_vars PROVE WellTyped'
  OBVIOUS
<1>. USE Constants DEF ConstantFacts, CallPlaces
<1>1. ASSUME NEW w \in Runs, Serve(w) PROVE WellTyped'
  <2>1. PICK e \in Replies : Execute(Request(w), e) /\ reply' = [reply EXCEPT ![w] = e]
    BY <1>1 DEF Serve
  <2>2. /\ exists' /\ owner' \in Nat /\ last' \in Nat /\ low' \in Nat
        /\ entries' \subseteq [seqno : Nat, epoch : Nat, payload : Payload]
        /\ low' <= last'
    <3>1. Request(w) \in Call
      BY <1>1, RequestType DEF Serve
    <3>. QED
      BY <2>1, <3>1, ExecuteTypes
  <2>. QED
    BY <1>1, <2>1, <2>2 DEF Serve, WellTyped, TypeOK, TrimOK, FirstSeqno
<1>2. ASSUME NEW r \in late, Late(r) PROVE WellTyped'
  <2>1. PICK e \in Replies : Execute(r, e)
    BY <1>2 DEF Late
  <2>2. /\ exists' /\ owner' \in Nat /\ last' \in Nat /\ low' \in Nat
        /\ entries' \subseteq [seqno : Nat, epoch : Nat, payload : Payload]
        /\ low' <= last'
    <3>1. r \in Call
      BY DEF WellTyped, TypeOK, Call
    <3>. QED
      BY <2>1, <3>1, ExecuteTypes
  <2>. QED
    BY <1>2, <2>2 DEF Late, WellTyped, TypeOK, TrimOK
<1>3. ASSUME NEW w \in Runs, GiveUp(w) \/ Stop(w) PROVE WellTyped'
  <2>1. /\ exists' = exists /\ owner' = owner /\ last' = last /\ low' = low
        /\ entries' = entries
    BY <1>3, WriterLeavesLog DEF log
  <2>2. late' = late \/ (place[w] \in CallPlaces /\ late' = late \union {Request(w)})
    BY <1>3 DEF GiveUp, Stop
  <2>3. late' \subseteq Call
    BY <2>2, RequestType DEF WellTyped, TypeOK, Call
  <2>. QED
    BY <1>3, <2>1, <2>3
       DEF GiveUp, Stop, Goto, WellTyped, TypeOK, TrimOK, Replies, Places, Call
<1>4. ASSUME NEW w \in Runs, Start(w) \/ Claimed(w) PROVE WellTyped'
  BY <1>4, WriterLeavesLog
     DEF Start, Claimed, Goto, WellTyped, TypeOK, TrimOK, Replies, Places, log
<1>5. ASSUME NEW w \in Runs, Slot(w) PROVE WellTyped'
  <2>1. fills[w] \in 0 .. MaxFills /\ next[w] \in Nat /\ next[w] >= FirstSeqno
    BY <1>5 DEF Slot, WellTyped, TypeOK
  <2>2. CASE fresh[w] /\ fills[w] < MaxFills /\ fills' = [fills EXCEPT ![w] = @ + 1]
    <3>1. fills[w] + 1 \in 0 .. MaxFills /\ fills[w] + 1 > 0
      BY <2>1, <2>2
    <3>. QED
      BY <1>5, <2>1, <2>2, <3>1, WriterLeavesLog
         DEF Slot, Goto, WellTyped, TypeOK, TrimOK, Replies, Places, log
  <2>3. CASE ~fresh[w] /\ UNCHANGED fills
    BY <1>5, <2>1, <2>3, WriterLeavesLog
       DEF Slot, Goto, WellTyped, TypeOK, TrimOK, Replies, Places, log
  <2>. QED
    BY <1>5, <2>2, <2>3 DEF Slot
<1>6. ASSUME NEW w \in Runs, Appended(w) PROVE WellTyped'
  <2>1. /\ exists' = exists /\ owner' = owner /\ last' = last /\ low' = low
        /\ entries' = entries
    BY <1>6, WriterLeavesLog DEF log
  <2>2. next[w] \in Nat /\ next[w] + Batch \in Nat
    BY DEF WellTyped, TypeOK
  <2>3. CASE /\ reply[w] = "nil" /\ next' = [next EXCEPT ![w] = @ + Batch]
             /\ Goto(w, IF TrimDue(next'[w] - 1, trimmed[w]) THEN "trim" ELSE "slot")
    <3>1. next'[w] = next[w] + Batch
      BY <2>3 DEF WellTyped, TypeOK
    <3>2. TrimDue(next'[w] - 1, trimmed[w]) => Retain < next'[w]
      BY <2>2, <3>1 DEF TrimDue
    <3>. QED
      BY <1>6, <2>1, <2>2, <2>3, <3>1, <3>2
         DEF Appended, Answered, Goto, WellTyped, TypeOK, TrimOK, Replies, Places, FirstSeqno
  <2>4. CASE UNCHANGED next /\ \E p \in {"stopped", "resync", "slot"} : Goto(w, p)
    BY <1>6, <2>1, <2>2, <2>4
       DEF Appended, Answered, Goto, WellTyped, TypeOK, TrimOK, Replies, Places
  <2>. QED
    BY <1>6, <2>3, <2>4 DEF Appended
<1>a. ASSUME NEW w \in Runs, Located(w) \/ Resynced(w) PROVE WellTyped'
  <2>1. /\ exists' = exists /\ owner' = owner /\ last' = last /\ low' = low
        /\ entries' = entries
    BY <1>a, WriterLeavesLog DEF log
  <2>2. CASE /\ place[w] \in {"locate", "resync"} /\ reply[w] = "nil"
             /\ next' = [next EXCEPT ![w] = answer[w]] /\ Goto(w, "slot")
    BY <1>a, <2>1, <2>2 DEF Located, Resynced, Goto, WellTyped, TypeOK, TrimOK, Replies, Places
  <2>3. CASE next' = next /\ Goto(w, "stopped")
    BY <1>a, <2>1, <2>3 DEF Located, Resynced, Goto, WellTyped, TypeOK, TrimOK, Replies, Places
  <2>4. CASE place[w] = "resync" /\ next' = next /\ Goto(w, "slot")
    BY <1>a, <2>1, <2>4 DEF Located, Resynced, Goto, WellTyped, TypeOK, TrimOK, Replies, Places
  <2>. QED
    BY <1>a, <2>2, <2>3, <2>4 DEF Located, Resynced, Answered
<1>7. ASSUME NEW w \in Runs, Trimmed(w) PROVE WellTyped'
  <2>1. upTo(w) \in Nat
    BY <1>7 DEF Trimmed, Answered, upTo, written, WellTyped, TypeOK, TrimOK
  <2>. QED
    BY <1>7, <2>1, WriterLeavesLog
       DEF Trimmed, Answered, Goto, WellTyped, TypeOK, TrimOK, Replies, Places, log
<1>8. CASE UNCHANGED vars
  BY <1>8 DEF vars, WellTyped, TypeOK, TrimOK
<1>. QED
  BY <1>1, <1>2, <1>3, <1>4, <1>5, <1>6, <1>7, <1>8, <1>a DEF Next
-----------------------------------------------------------------------------
(* The mark never passes the end of the log. *)

\* No run's mark, and nothing a run was told, is above the seqno that follows the
\* log's last; an append that was answered leaves room for the mark to move; and
\* every trim, made or still to come, leaves the retained entries.
MarkOK ==
    /\ RetainedIsKept
    /\ \A r \in late : r.op = "trim" => r.first + Retain <= last
    /\ \A w \in Runs :
          /\ next[w] <= last + 1 /\ answer[w] <= last + 1 /\ reply[w] # "ErrGap"
          /\ place[w] = "append" /\ reply[w] = "nil" => next[w] + Batch <= last + 1

\* What a call does to the bounds of the log, and when it would be told ErrGap.
LEMMA ExecuteMarks ==
    ASSUME WellTyped, MarkOK, NEW r \in Call, NEW e \in Replies, Execute(r, e),
           r.op = "trim" => r.first + Retain <= last
    PROVE  /\ RetainedIsKept'
           /\ r.op = "append" /\ e = "nil" => r.first + Batch <= last' + 1
           /\ r.first <= last + 1 \/ r.op # "append" => e # "ErrGap"
<1>. USE Constants DEF ConstantFacts
<1>1. /\ owner \in Nat /\ last \in Nat /\ low \in Nat /\ low <= last
      /\ low > 0 => low + Retain <= last
  BY DEF WellTyped, TypeOK, TrimOK, MarkOK, RetainedIsKept
<1>2. r.epoch \in Nat /\ r.first \in Nat
  BY DEF Call
<1>3. RetainedIsKept'
  <2>1. CASE UNCHANGED <<last, low>>
    BY <1>1, <2>1 DEF RetainedIsKept
  <2>2. CASE last' = last + Batch /\ UNCHANGED low
    BY <1>1, <2>2 DEF RetainedIsKept
  <2>3. CASE r.op = "trim" /\ last' = last /\ low' = Watermark(r.first)
    BY <1>1, <1>2, <2>3 DEF RetainedIsKept, Watermark
  <2>. QED
    BY <2>1, <2>2, <2>3, ExecuteKinds DEF log
<1>4. r.op = "append" /\ e = "nil" => r.first + Batch <= last' + 1
  <2>. SUFFICES ASSUME r.op = "append", e = "nil" PROVE r.first + Batch <= last' + 1
    OBVIOUS
  <2>1. last + 1 = r.first /\ last' = last + Batch
    BY ExecuteKinds
  <2>. QED
    BY <1>1, <1>2, <2>1
<1>5. r.first <= last + 1 \/ r.op # "append" => e # "ErrGap"
  <2>1. r.op = "append" /\ e # "nil" => e = appendRefusal(r.epoch, r.first, owner, last)
    BY ExecuteKinds
  <2>2. r.op # "append" => e \in {"nil", "ErrFenced"}
    BY DEF Execute, fenceRefusal
  <2>. QED
    BY <1>1, <1>2, <2>1, <2>2 DEF appendRefusal
<1>. QED
  BY <1>3, <1>4, <1>5

\* The marks are inductive on top of the types.
LEMMA MarkStep == WellTyped /\ MarkOK /\ [Next]_vars => MarkOK'
<1>. SUFFICES ASSUME WellTyped, MarkOK, [Next]_vars PROVE MarkOK'
  OBVIOUS
<1>. USE Constants DEF ConstantFacts
<1>0. /\ last \in Nat /\ low \in Nat /\ next \in [Runs -> Nat] /\ answer \in [Runs -> Nat]
      /\ place \in [Runs -> Places] /\ reply \in [Runs -> Replies] /\ late \subseteq Call
      /\ \A r \in late : r.first \in Nat
      /\ \A w \in Runs : next[w] \in Nat /\ answer[w] \in Nat
  BY DEF WellTyped, TypeOK, Call
<1>1. ASSUME NEW w \in Runs, place[w] \in CallPlaces
      PROVE  /\ Request(w).op = "trim" => Request(w).first + Retain <= last
             /\ Request(w).op = "append" => Request(w).first = next[w]
             /\ Request(w).op = place[w] /\ Request(w) \in Call
  <2>1. next[w] <= last + 1
    BY DEF MarkOK
  <2>. QED
    BY <1>0, <1>1, <2>1, RequestType
<1>2. ASSUME NEW w \in Runs, Serve(w) PROVE MarkOK'
  <2>1. PICK e \in Replies : Execute(Request(w), e) /\ reply' = [reply EXCEPT ![w] = e]
    BY <1>2 DEF Serve
  <2>2. place[w] \in CallPlaces /\ answer' = [answer EXCEPT ![w] = last + 1]
        /\ UNCHANGED <<place, next, late>>
    BY <1>2 DEF Serve
  <2>3. last' \in Nat /\ last <= last'
    BY <1>1, <2>1, <2>2, ExecuteTypes
  <2>4. /\ RetainedIsKept' /\ e # "ErrGap"
        /\ place[w] = "append" /\ e = "nil" => next[w] + Batch <= last' + 1
    <3>1. next[w] <= last + 1
      BY DEF MarkOK
    <3>. QED
      BY <1>1, <2>1, <2>2, <3>1, ExecuteMarks
  <2>5. \A r \in late' : r.op = "trim" => r.first + Retain <= last'
    BY <1>0, <2>2, <2>3 DEF MarkOK
  <2>6. ASSUME NEW v \in Runs
        PROVE  /\ next'[v] <= last' + 1 /\ answer'[v] <= last' + 1 /\ reply'[v] # "ErrGap"
               /\ place'[v] = "append" /\ reply'[v] = "nil" => next'[v] + Batch <= last' + 1
    BY <1>0, <2>1, <2>2, <2>3, <2>4 DEF MarkOK
  <2>. QED
    BY <2>4, <2>5, <2>6 DEF MarkOK
<1>3. ASSUME NEW r \in late, Late(r) PROVE MarkOK'
  <2>1. PICK e \in Replies : Execute(r, e)
    BY <1>3 DEF Late
  <2>2. UNCHANGED <<place, next, reply, answer>> /\ late' \subseteq late
    BY <1>3 DEF Late
  <2>3. last' \in Nat /\ last <= last'
    BY <1>0, <2>1, ExecuteTypes
  <2>4. RetainedIsKept'
    BY <1>0, <2>1, ExecuteMarks DEF MarkOK
  <2>5. \A q \in late' : q.op = "trim" => q.first + Retain <= last'
    BY <1>0, <2>2, <2>3 DEF MarkOK
  <2>6. ASSUME NEW v \in Runs
        PROVE  /\ next'[v] <= last' + 1 /\ answer'[v] <= last' + 1 /\ reply'[v] # "ErrGap"
               /\ place'[v] = "append" /\ reply'[v] = "nil" => next'[v] + Batch <= last' + 1
    BY <1>0, <2>2, <2>3 DEF MarkOK
  <2>. QED
    BY <2>4, <2>5, <2>6 DEF MarkOK
<1>4. ASSUME NEW w \in Runs, GiveUp(w) \/ Stop(w) PROVE MarkOK'
  <2>1. last' = last /\ low' = low
    BY <1>4, WriterLeavesLog DEF log
  <2>2. late' = late \/ (place[w] \in CallPlaces /\ late' = late \union {Request(w)})
    BY <1>4 DEF GiveUp, Stop
  <2>3. \A q \in late' : q.op = "trim" => q.first + Retain <= last'
    BY <1>1, <2>1, <2>2 DEF MarkOK
  <2>. QED
    BY <1>0, <1>4, <2>1, <2>3 DEF GiveUp, Stop, Goto, MarkOK, RetainedIsKept
<1>5. ASSUME NEW w \in Runs, Start(w) \/ Claimed(w) \/ Slot(w) \/ Trimmed(w) PROVE MarkOK'
  <2>1. last' = last /\ low' = low
    BY <1>5, WriterLeavesLog DEF log
  <2>2. UNCHANGED <<next, answer, late>> /\ \E p \in Places : Goto(w, p)
    BY <1>5 DEF Start, Claimed, Slot, Trimmed, Places, CallPlaces
  <2>. QED
    BY <1>0, <2>1, <2>2 DEF Goto, MarkOK, RetainedIsKept
<1>6. ASSUME NEW w \in Runs, Located(w) \/ Resynced(w) PROVE MarkOK'
  <2>1. last' = last /\ low' = low
    BY <1>6, WriterLeavesLog DEF log
  <2>2. UNCHANGED <<answer, late>> /\ \E p \in Places : Goto(w, p)
    BY <1>6 DEF Located, Resynced, Places
  <2>3. next' = next \/ next' = [next EXCEPT ![w] = answer[w]]
    BY <1>6 DEF Located, Resynced
  <2>. QED
    BY <1>0, <2>1, <2>2, <2>3 DEF Goto, MarkOK, RetainedIsKept
<1>7. ASSUME NEW w \in Runs, Appended(w) PROVE MarkOK'
  <2>1. last' = last /\ low' = low
    BY <1>7, WriterLeavesLog DEF log
  <2>2. UNCHANGED <<answer, late>> /\ \E p \in Places : Goto(w, p)
    BY <1>7 DEF Appended, Places, CallPlaces
  <2>3. \/ next' = next
        \/ place[w] = "append" /\ reply[w] = "nil" /\ next' = [next EXCEPT ![w] = @ + Batch]
    BY <1>7 DEF Appended, Answered
  <2>. QED
    BY <1>0, <2>1, <2>2, <2>3 DEF Goto, MarkOK, RetainedIsKept
<1>8. CASE UNCHANGED vars
  BY <1>8 DEF vars, MarkOK, RetainedIsKept
<1>. QED
  BY <1>2, <1>3, <1>4, <1>5, <1>6, <1>7, <1>8 DEF Next

\* ErrGap never reaches a writer that appends in order (writer.go's append), and
\* the types are as declared: a run's mark is never above the log's end, whatever
\* became of its calls and whoever else writes.
THEOREM NoGapCorrect == Spec => []NoGap
<1>1. Init => WellTyped /\ MarkOK
  BY Constants DEF ConstantFacts, Init, WellTyped, TypeOK, TrimOK, MarkOK, RetainedIsKept,
     Places, Replies, FirstSeqno
<1>2. WellTyped /\ MarkOK => NoGap
  BY DEF WellTyped, MarkOK, NoGap
<1>. QED
  BY <1>1, <1>2, TypeStep, MarkStep, PTL DEF Spec

\* No trim, made in time or late, takes one of the entries -retain keeps.
THEOREM RetainedIsKeptCorrect == Spec => []RetainedIsKept
<1>1. Init => WellTyped /\ MarkOK
  BY Constants DEF ConstantFacts, Init, WellTyped, TypeOK, TrimOK, MarkOK, RetainedIsKept,
     Places, Replies, FirstSeqno
<1>2. WellTyped /\ MarkOK => RetainedIsKept
  BY DEF MarkOK
<1>. QED
  BY <1>1, <1>2, TypeStep, MarkStep, PTL DEF Spec
-----------------------------------------------------------------------------
(* The epochs of the entries follow the order of the log. *)

\* Every run claims at an epoch of its own, which is what fencing asks of whoever
\* hands epochs out, "strictly greater on each run" (main.go, parseFlags).
DistinctEpochs == \A v, w \in Runs : EpochOf[v] = EpochOf[w] => v = w

\* A call carries the epoch of the run that made it.
Signed(r) == r.epoch = EpochOf[r.payload[1]]

\* An entry lies in the log, carries its run's epoch and was owned when written.
EntryOK(x) == x.seqno <= last /\ Signed(x) /\ x.epoch <= owner

\* Entries and calls are signed, and epochs never fall along the log.
OrderOK ==
    /\ \A r \in late : Signed(r)
    /\ \A x \in entries : EntryOK(x)
    /\ \A x, y \in entries : x.seqno <= y.seqno => x.epoch <= y.epoch

\* What a signed call does to the order of the entries.
LEMMA ExecuteOrder ==
    ASSUME WellTyped, OrderOK, NEW r \in Call, NEW e \in Replies, Execute(r, e), Signed(r)
    PROVE  /\ \A x \in entries' : EntryOK(x)'
           /\ \A x, y \in entries' : x.seqno <= y.seqno => x.epoch <= y.epoch
<1>. USE Constants DEF ConstantFacts
<1>1. /\ owner \in Nat /\ last \in Nat /\ low \in Nat
      /\ owner' \in Nat /\ last' \in Nat /\ owner <= owner' /\ last <= last'
  BY ExecuteTypes DEF WellTyped, TypeOK
<1>2. \A x \in entries : x.seqno \in Nat /\ x.epoch \in Nat
  BY DEF WellTyped, TypeOK
<1>3. \A x \in entries : EntryOK(x)'
  BY <1>1, <1>2 DEF OrderOK, EntryOK, Signed
<1>4. CASE entries' \subseteq entries
  BY <1>3, <1>4 DEF OrderOK
<1>5. CASE /\ owner = r.epoch /\ last' = last + Batch /\ owner' = owner
           /\ entries' = entries \union
                 {[seqno |-> n, epoch |-> owner, payload |-> r.payload] :
                     n \in last + 1 .. last + Batch}
  <2>1. ASSUME NEW x \in entries', x \notin entries
        PROVE  /\ x.seqno \in Nat /\ last < x.seqno /\ x.seqno <= last + Batch
               /\ x.epoch = owner /\ x.payload = r.payload
    <3>1. PICK n \in last + 1 .. last + Batch :
              x = [seqno |-> n, epoch |-> owner, payload |-> r.payload]
      BY <1>5, <2>1
    <3>. QED
      BY <1>1, <3>1
  <2>2. ASSUME NEW x \in entries' PROVE EntryOK(x)'
    BY <1>1, <1>3, <1>5, <2>1 DEF EntryOK, Signed
  <2>3. ASSUME NEW x \in entries', NEW y \in entries', x.seqno <= y.seqno
        PROVE  x.epoch <= y.epoch
    <3>1. CASE x \in entries /\ y \in entries
      BY <2>3, <3>1 DEF OrderOK
    <3>2. CASE y \notin entries
      BY <1>1, <1>2, <2>1, <3>2 DEF OrderOK, EntryOK
    <3>3. CASE x \notin entries /\ y \in entries
      BY <1>1, <1>2, <2>1, <2>3, <3>3 DEF OrderOK, EntryOK
    <3>. QED
      BY <3>1, <3>2, <3>3
  <2>. QED
    BY <2>2, <2>3
<1>. QED
  BY <1>4, <1>5, ExecuteKinds DEF log

\* The calls of a run are signed.
LEMMA RequestSigned ==
    ASSUME WellTyped, NEW w \in Runs, place[w] \in CallPlaces
    PROVE  Signed(Request(w))
BY RequestType DEF Signed

\* What a step may add to the calls that come late.
LEMMA LateStep ==
    ASSUME [Next]_vars
    PROVE  \/ late' \subseteq late
           \/ \E w \in Runs : /\ place[w] \in CallPlaces /\ reply[w] = "none"
                              /\ GiveUp(w) \/ Stop(w)
                              /\ late' = late \union {Request(w)}
<1>1. ASSUME NEW w \in Runs, GiveUp(w) \/ Stop(w)
      PROVE  late' = late \/ /\ place[w] \in CallPlaces /\ reply[w] = "none"
                             /\ late' = late \union {Request(w)}
  BY <1>1 DEF GiveUp, Stop
<1>2. ASSUME NEW w \in Runs, Serve(w) \/ Start(w) \/ Claimed(w) \/ Located(w) \/ Slot(w)
                                \/ Appended(w) \/ Resynced(w) \/ Trimmed(w)
      PROVE  late' = late
  BY <1>2 DEF Serve, Start, Claimed, Located, Slot, Appended, Resynced, Trimmed
<1>3. ASSUME NEW r \in late, Late(r) PROVE late' \subseteq late
  BY <1>3 DEF Late
<1>. QED
  BY <1>1, <1>2, <1>3 DEF Next, vars

\* Every step either leaves the log alone or executes one call: a run's own, or
\* one that comes late.
LEMMA LogStep ==
    ASSUME WellTyped, [Next]_vars
    PROVE  \/ UNCHANGED log
           \/ \E w \in Runs : Serve(w)
           \/ \E r \in late : Late(r)
BY WriterLeavesLog DEF Next, vars, log

\* The order is inductive on top of the types.
LEMMA OrderStep == WellTyped /\ OrderOK /\ [Next]_vars => OrderOK'
<1>. SUFFICES ASSUME WellTyped, OrderOK, [Next]_vars PROVE OrderOK'
  OBVIOUS
<1>1. \A r \in late' : Signed(r)
  BY LateStep, RequestSigned DEF OrderOK
<1>2. CASE UNCHANGED log
  BY <1>1, <1>2 DEF OrderOK, EntryOK, Signed, log
<1>3. ASSUME NEW w \in Runs, Serve(w) PROVE OrderOK'
  <2>1. PICK e \in Replies : Execute(Request(w), e)
    BY <1>3 DEF Serve
  <2>2. Request(w) \in Call /\ Signed(Request(w))
    BY <1>3, RequestType, RequestSigned DEF Serve
  <2>. QED
    BY <1>1, <2>1, <2>2, ExecuteOrder DEF OrderOK, Signed
<1>4. ASSUME NEW r \in late, Late(r) PROVE OrderOK'
  <2>1. PICK e \in Replies : Execute(r, e)
    BY <1>4 DEF Late
  <2>2. r \in Call /\ Signed(r)
    BY DEF WellTyped, TypeOK, Call, OrderOK
  <2>. QED
    BY <1>1, <2>1, <2>2, ExecuteOrder DEF OrderOK, Signed
<1>. QED
  BY <1>2, <1>3, <1>4, LogStep

\* A log has one writer at a time, when no two runs share an epoch: once another
\* run's entry follows a run's, nothing of that run follows, by no late call.
THEOREM RunsDoNotInterleaveCorrect ==
    ASSUME DistinctEpochs PROVE Spec => []RunsDoNotInterleave
<1>1. Init => WellTyped /\ OrderOK
  BY Constants DEF ConstantFacts, Init, WellTyped, TypeOK, TrimOK, OrderOK, EntryOK, Signed,
     Places, Replies, FirstSeqno
<1>2. WellTyped /\ OrderOK => RunsDoNotInterleave
  <2>. SUFFICES ASSUME WellTyped, OrderOK, NEW r \in entries, NEW q \in entries,
                       NEW t \in entries, r.seqno < q.seqno, q.seqno < t.seqno,
                       r.payload[1] = t.payload[1]
                PROVE  q.payload[1] = r.payload[1]
    BY DEF RunsDoNotInterleave
  <2>1. \A x \in entries : x.seqno \in Nat /\ x.epoch \in Nat /\ x.payload[1] \in Runs
    BY DEF WellTyped, TypeOK, Payload
  <2>2. r.epoch <= q.epoch /\ q.epoch <= t.epoch
    BY <2>1 DEF OrderOK
  <2>3. /\ r.epoch = EpochOf[r.payload[1]] /\ q.epoch = EpochOf[q.payload[1]]
        /\ t.epoch = EpochOf[t.payload[1]]
    BY DEF OrderOK, EntryOK, Signed
  <2>4. q.epoch = r.epoch
    BY <2>1, <2>2, <2>3
  <2>. QED
    BY <2>1, <2>3, <2>4 DEF DistinctEpochs
<1>. QED
  BY <1>1, <1>2, TypeStep, OrderStep, PTL DEF Spec
-----------------------------------------------------------------------------
(* Whose batch an ack stands for. *)

\* Where a run that knows its mark may be.
Marked == {"slot", "append", "resync", "trim"}

\* A run past its claim has owned the log, and owner only grows.
HeldOK(w) ==
    place[w] \in {"locate"} \union Marked \/ (place[w] = "claim" /\ reply[w] = "nil") =>
        owner >= EpochOf[w]

\* An append of w still to come starts at the mark or below it; one that starts
\* at the mark carries the batch w has, and there is none once w is done with it.
LateOK(w) ==
    \A r \in late : r.op = "append" /\ r.payload[1] = w =>
        /\ place[w] \in Marked \union {"stopped"}
        /\ place[w] \in Marked =>
              r.first <= next[w] /\ (r.first = next[w] => r.payload = <<w, fills[w]>>)
        /\ place[w] \in {"slot", "trim"} /\ fresh[w] => r.first # next[w]

\* Run w's batch is at its mark, unless a trim has passed it.
AckOK(w) ==
    /\ place[w] = "append" /\ reply[w] = "ErrAlreadyWritten" =>
          /\ next[w] <= last
          /\ next[w] > low =>
                \E x \in entries : x.seqno = next[w] /\ x.payload = <<w, fills[w]>>
    /\ place[w] = "resync" =>
          next[w] <= last /\ ~fresh[w] /\ (reply[w] = "nil" => next[w] < answer[w])

\* While w owns the log, what it knows is so: what it was told is the end, its
\* mark is the end once a batch is done, and only its batch is above its mark.
OwnedOK(w) ==
    owner = EpochOf[w] =>
        /\ place[w] \in {"locate", "resync"} /\ reply[w] = "nil" => answer[w] = last + 1
        /\ place[w] \in {"slot", "trim"} /\ fresh[w] => next[w] = last + 1
        /\ place[w] = "append" /\ reply[w] = "nil" => next[w] + Batch = last + 1
        /\ place[w] \in Marked =>
              \A x \in entries : x.seqno >= next[w] => x.payload = <<w, fills[w]>>

\* Every seqno of the log has its entry.
Contiguous == \A n \in low + 1 .. last : \E x \in entries : x.seqno = n

RunOK(w) == HeldOK(w) /\ LateOK(w) /\ AckOK(w) /\ OwnedOK(w)

\* Run w itself does nothing, and no call of its own becomes late.
Idle(w) ==
    /\ place'[w] = place[w] /\ next'[w] = next[w] /\ fresh'[w] = fresh[w]
    /\ fills'[w] = fills[w] /\ reply'[w] = reply[w] /\ answer'[w] = answer[w]
    /\ \A r \in late' : r.payload[1] = w => r \in late

\* What an idle run relies on outlives every step that leaves the log alone.
LEMMA IdleRun ==
    ASSUME NEW w \in Runs, RunOK(w), Idle(w), UNCHANGED log
    PROVE  RunOK(w)'
<1>1. HeldOK(w)' /\ LateOK(w)'
  BY DEF RunOK, HeldOK, LateOK, Idle, log
<1>2. AckOK(w)'
  BY DEF RunOK, AckOK, Idle, log
<1>3. OwnedOK(w)'
  BY DEF RunOK, OwnedOK, Idle, log
<1>. QED
  BY <1>1, <1>2, <1>3 DEF RunOK

\* The types the steps below need, in one place.
Typed ==
    /\ owner \in Nat /\ last \in Nat /\ low \in Nat
    /\ owner' \in Nat /\ last' \in Nat /\ low' \in Nat
    /\ owner <= owner' /\ last <= last' /\ low <= low'
    /\ \A x \in entries : x.seqno \in Nat /\ x.seqno <= last
    /\ \A w \in Runs : next[w] \in Nat /\ answer[w] \in Nat /\ next[w] <= last + 1
    /\ Batch \in Nat \ {0} /\ EpochOf \in [Runs -> Nat]

LEMMA ExecuteTyped ==
    ASSUME WellTyped, MarkOK, OrderOK, NEW r \in Call, NEW e \in Replies, Execute(r, e)
    PROVE  Typed
<1>1. /\ owner' \in Nat /\ last' \in Nat /\ low' \in Nat
      /\ owner <= owner' /\ last <= last' /\ low <= low'
  BY ExecuteTypes
<1>2. /\ owner \in Nat /\ last \in Nat /\ low \in Nat
      /\ \A w \in Runs : next[w] \in Nat /\ answer[w] \in Nat
  BY DEF WellTyped, TypeOK
<1>3. \A x \in entries : x.seqno \in Nat /\ x.seqno <= last
  BY DEF WellTyped, TypeOK, OrderOK, EntryOK
<1>4. \A w \in Runs : next[w] <= last + 1
  BY DEF MarkOK
<1>. QED
  BY <1>1, <1>2, <1>3, <1>4, Constants DEF Typed, ConstantFacts

\* A call leaves no seqno of the log without its entry.
LEMMA ExecuteContiguous ==
    ASSUME WellTyped, MarkOK, OrderOK, Contiguous,
           NEW r \in Call, NEW e \in Replies, Execute(r, e)
    PROVE  Contiguous'
<1>. USE ExecuteTyped DEF Typed
<1>1. CASE UNCHANGED <<last, low, entries>>
  BY <1>1 DEF Contiguous
<1>2. CASE /\ last' = last + Batch /\ low' = low
           /\ entries' = entries \union
                 {[seqno |-> n, epoch |-> owner, payload |-> r.payload] :
                     n \in last + 1 .. last + Batch}
  <2>. SUFFICES ASSUME NEW n \in low' + 1 .. last'
                PROVE  \E x \in entries' : x.seqno = n
    BY DEF Contiguous
  <2>1. CASE n <= last
    BY <1>2, <2>1 DEF Contiguous
  <2>2. CASE n > last
    <3>1. n \in last + 1 .. last + Batch
      BY <1>2, <2>2
    <3>2. [seqno |-> n, epoch |-> owner, payload |-> r.payload] \in entries'
      BY <1>2, <3>1
    <3>. QED
      BY <3>2
  <2>. QED
    BY <2>1, <2>2
<1>3. CASE last' = last /\ entries' = {x \in entries : x.seqno > low'}
  <2>. SUFFICES ASSUME NEW n \in low' + 1 .. last'
                PROVE  \E x \in entries' : x.seqno = n
    BY DEF Contiguous
  <2>1. n \in low + 1 .. last /\ n > low'
    BY <1>3
  <2>2. PICK x \in entries : x.seqno = n
    BY <2>1 DEF Contiguous
  <2>. QED
    BY <1>3, <2>1, <2>2
<1>. QED
  BY <1>1, <1>2, <1>3, ExecuteKinds DEF log

\* What an idle run relies on outlives every call of another run, and its own
\* calls that come late: those append its batch at its mark, or nothing.
LEMMA IdleUnderCall ==
    ASSUME WellTyped, MarkOK, OrderOK, DistinctEpochs, NEW w \in Runs, RunOK(w), Idle(w),
           NEW r \in Call, Signed(r), NEW e \in Replies, Execute(r, e),
           r.payload[1] # w \/ r \in late
    PROVE  RunOK(w)'
<1>. USE ExecuteTyped DEF Typed
<1>1. r.epoch \in Nat /\ r.first \in Nat /\ r.payload[1] \in Runs
  BY DEF Call, Payload
<1>2. r.epoch = EpochOf[w] => r.payload[1] = w
  BY <1>1 DEF DistinctEpochs, Signed
<1>3. HeldOK(w)' /\ LateOK(w)'
  BY DEF RunOK, HeldOK, LateOK, Idle
<1>4. CASE UNCHANGED log
  BY <1>4, IdleRun
<1>5. CASE owner <= r.epoch /\ owner' = r.epoch /\ UNCHANGED <<last, low, entries>>
  <2>1. AckOK(w)'
    BY <1>5 DEF RunOK, AckOK, Idle
  <2>2. owner' = EpochOf[w] /\ place[w] \in {"locate"} \union Marked => owner = owner'
    BY <1>1, <1>5 DEF RunOK, HeldOK
  <2>3. OwnedOK(w)'
    BY <1>5, <2>2 DEF RunOK, OwnedOK, Idle, Marked
  <2>. QED
    BY <1>3, <2>1, <2>3 DEF RunOK
<1>6. CASE /\ r.op = "append" /\ owner = r.epoch /\ last + 1 = r.first
           /\ last' = last + Batch /\ UNCHANGED <<owner, low>>
           /\ entries' = entries \union
                 {[seqno |-> n, epoch |-> owner, payload |-> r.payload] :
                     n \in last + 1 .. last + Batch}
  <2>1. AckOK(w)'
    <3>1. next[w] <= last => next[w] <= last'
      BY <1>6
    <3>. QED
      BY <1>6, <3>1 DEF RunOK, AckOK, Idle
  <2>2. CASE r.payload[1] # w
    BY <1>2, <1>3, <1>6, <2>1, <2>2 DEF RunOK, OwnedOK
  <2>3. CASE r.payload[1] = w
    <3>1. /\ place[w] \in Marked \union {"stopped"}
          /\ place[w] \in Marked =>
                r.first <= next[w] /\ (r.first = next[w] => r.payload = <<w, fills[w]>>)
          /\ place[w] \in {"slot", "trim"} /\ fresh[w] => r.first # next[w]
      BY <1>6, <2>3 DEF RunOK, LateOK
    <3>2. place[w] \in Marked => next[w] = last + 1 /\ r.payload = <<w, fills[w]>>
      BY <1>1, <1>6, <3>1
    <3>3. ~(place[w] \in {"slot", "trim"} /\ fresh[w]) /\ place[w] # "locate"
      BY <1>6, <3>1, <3>2 DEF Marked
    <3>4. place[w] # "resync"
      BY <3>2 DEF RunOK, AckOK, Marked
    <3>5. owner = EpochOf[w]
      BY <1>6, <2>3 DEF Signed
    <3>6. ~(place[w] = "append" /\ reply[w] = "nil")
      BY <3>2, <3>5 DEF RunOK, OwnedOK, Marked
    <3>7. place[w] \in Marked =>
            \A x \in entries' : x.seqno >= next[w] => x.payload = <<w, fills[w]>>
      BY <1>6, <3>2, <3>5 DEF RunOK, OwnedOK
    <3>8. OwnedOK(w)'
      BY <3>3, <3>4, <3>6, <3>7 DEF OwnedOK, Idle
    <3>. QED
      BY <1>3, <2>1, <3>8 DEF RunOK
  <2>. QED
    BY <2>2, <2>3
<1>7. CASE UNCHANGED <<owner, last>> /\ entries' = {x \in entries : x.seqno > low'}
  <2>1. AckOK(w)'
    BY <1>7 DEF RunOK, AckOK, Idle
  <2>2. OwnedOK(w)'
    BY <1>7 DEF RunOK, OwnedOK, Idle
  <2>. QED
    BY <1>3, <2>1, <2>2 DEF RunOK
<1>. QED
  BY <1>4, <1>5, <1>6, <1>7, ExecuteKinds
\* The answer to a run's own call leaves the run with what it relies on.
LEMMA ServedRun ==
    ASSUME WellTyped, MarkOK, OrderOK, Contiguous, NEW w \in Runs, RunOK(w), Serve(w)
    PROVE  RunOK(w)'
<1>1. PICK e \in Replies : Execute(Request(w), e) /\ reply' = [reply EXCEPT ![w] = e]
  BY DEF Serve
<1>2. /\ Request(w) \in Call /\ Request(w).op = place[w] /\ Request(w).epoch = EpochOf[w]
      /\ Request(w).payload = <<w, fills[w]>>
      /\ place[w] # "trim" => Request(w).first = next[w]
  BY RequestType DEF Serve
<1>3. Typed
  BY <1>1, <1>2, ExecuteTyped
<1>. USE <1>3 DEF Typed
<1>4. /\ place' = place /\ next' = next /\ fresh' = fresh /\ fills' = fills /\ late' = late
      /\ reply'[w] = e /\ answer'[w] = last + 1
      /\ place[w] \in CallPlaces /\ reply[w] = "none"
  BY <1>1 DEF Serve, WellTyped, TypeOK
<1>5. LateOK(w)'
  BY <1>4 DEF RunOK, LateOK
<1>6. CASE place[w] = "claim"
  <2>1. e = "nil" => owner' = EpochOf[w]
    BY <1>1, <1>2, <1>6, ExecuteKinds
  <2>. QED
    BY <1>4, <1>5, <1>6, <2>1 DEF RunOK, HeldOK, AckOK, OwnedOK, Marked
<1>7. CASE place[w] \in {"locate", "resync"}
  <2>1. UNCHANGED log
    BY <1>1, <1>2, <1>7, ExecuteKinds
  <2>2. HeldOK(w)' /\ AckOK(w)'
    BY <1>4, <1>7, <2>1 DEF RunOK, HeldOK, AckOK, Marked, log
  <2>3. OwnedOK(w)'
    BY <1>4, <1>7, <2>1 DEF RunOK, OwnedOK, log
  <2>. QED
    BY <1>5, <2>2, <2>3 DEF RunOK
<1>8. CASE place[w] = "append"
  <2>1. HeldOK(w)'
    BY <1>4, <1>8 DEF RunOK, HeldOK, Marked
  <2>2. CASE UNCHANGED log /\ e # "nil" /\ e = appendRefusal(EpochOf[w], next[w], owner, last)
    <3>1. e = "ErrAlreadyWritten" => owner = EpochOf[w] /\ next[w] <= last
      BY <2>2 DEF appendRefusal
    <3>2. ASSUME e = "ErrAlreadyWritten", next[w] > low
          PROVE  \E x \in entries : x.seqno = next[w] /\ x.payload = <<w, fills[w]>>
      <4>1. next[w] \in low + 1 .. last
        BY <3>1, <3>2
      <4>2. PICK x \in entries : x.seqno = next[w]
        BY <4>1 DEF Contiguous
      <4>. QED
        BY <1>8, <3>1, <3>2, <4>2 DEF RunOK, OwnedOK, Marked
    <3>3. AckOK(w)'
      BY <1>4, <1>8, <2>2, <3>1, <3>2 DEF AckOK, log
    <3>4. OwnedOK(w)'
      BY <1>4, <1>8, <2>2 DEF RunOK, OwnedOK, log
    <3>. QED
      BY <1>5, <2>1, <3>3, <3>4 DEF RunOK
  <2>3. CASE /\ e = "nil" /\ owner = EpochOf[w] /\ last + 1 = next[w]
             /\ last' = last + Batch /\ UNCHANGED <<owner, low>>
             /\ entries' = entries \union
                   {[seqno |-> n, epoch |-> owner, payload |-> <<w, fills[w]>>] :
                       n \in last + 1 .. last + Batch}
    <3>1. AckOK(w)'
      BY <1>4, <1>8, <2>3 DEF AckOK
    <3>2. next[w] + Batch = last' + 1
      BY <2>3
    <3>3. \A x \in entries' : x.seqno >= next[w] => x.payload = <<w, fills[w]>>
      BY <2>3
    <3>4. OwnedOK(w)'
      BY <1>4, <1>8, <3>2, <3>3 DEF OwnedOK
    <3>. QED
      BY <1>5, <2>1, <3>1, <3>4 DEF RunOK
  <2>. QED
    BY <1>1, <1>2, <1>8, <2>2, <2>3, ExecuteKinds
<1>9. CASE place[w] = "trim"
  <2>1. UNCHANGED <<owner, last>> /\ entries' \subseteq entries
    BY <1>1, <1>2, <1>9, ExecuteKinds DEF log
  <2>. QED
    BY <1>4, <1>5, <1>9, <2>1 DEF RunOK, HeldOK, AckOK, OwnedOK, Marked
<1>. QED
  BY <1>4, <1>6, <1>7, <1>8, <1>9 DEF CallPlaces

\* A writer's own step takes it to a place whose facts it has.
LEMMA OwnStep ==
    ASSUME WellTyped, MarkOK, OrderOK, NEW w \in Runs, RunOK(w),
           GiveUp(w) \/ Start(w) \/ Claimed(w) \/ Located(w) \/ Slot(w) \/ Appended(w)
             \/ Resynced(w) \/ Trimmed(w) \/ Stop(w)
    PROVE  RunOK(w)'
<1>. USE Constants DEF ConstantFacts
<1>1. /\ owner' = owner /\ last' = last /\ low' = low /\ entries' = entries
  BY WriterLeavesLog DEF log
<1>2. /\ owner \in Nat /\ last \in Nat /\ low \in Nat /\ EpochOf[w] \in Nat
      /\ place \in [Runs -> Places] /\ reply \in [Runs -> Replies]
      /\ next \in [Runs -> Nat] /\ answer \in [Runs -> Nat] /\ next[w] \in Nat
      /\ fresh \in [Runs -> BOOLEAN] /\ fills \in [Runs -> 0 .. MaxFills]
      /\ answer[w] \in Nat /\ next[w] <= last + 1 /\ reply[w] # "ErrGap"
      /\ \A x \in entries : x.seqno \in Nat /\ x.seqno <= last
      /\ \A r \in late : r.first \in Nat
  BY DEF WellTyped, TypeOK, MarkOK, OrderOK, EntryOK
<1>3. CASE GiveUp(w)
  <2>1. /\ place' = place /\ next' = next /\ fresh' = fresh /\ fills' = fills
        /\ reply'[w] = "driver" /\ place[w] \in CallPlaces /\ answer' = answer
    BY <1>2, <1>3 DEF GiveUp
  <2>2. HeldOK(w)' /\ AckOK(w)' /\ OwnedOK(w)'
    BY <1>1, <2>1 DEF RunOK, HeldOK, AckOK, OwnedOK
  <2>3. late' = late \/ late' = late \union {Request(w)}
    BY <1>3 DEF GiveUp
  <2>4. LateOK(w)'
    BY <1>2, <2>1, <2>3, RequestType DEF RunOK, LateOK, Marked
  <2>. QED
    BY <2>2, <2>4 DEF RunOK
<1>4. CASE Start(w) \/ Claimed(w)
  <2>1. /\ next' = next /\ fresh' = fresh /\ fills' = fills /\ late' = late
        /\ place[w] \in {"start", "claim"} /\ reply'[w] = "none"
        /\ \/ place'[w] \in {"claim", "stopped"}
           \/ place[w] = "claim" /\ reply[w] = "nil" /\ place'[w] = "locate"
    BY <1>2, <1>4 DEF Start, Claimed, Answered, Goto
  <2>. QED
    BY <1>1, <2>1 DEF RunOK, HeldOK, LateOK, AckOK, OwnedOK, Marked
<1>5. CASE Located(w)
  <2>1. /\ fresh' = fresh /\ fills' = fills /\ late' = late
        /\ place[w] = "locate" /\ reply'[w] = "none"
        /\ \/ place'[w] = "stopped"
           \/ place'[w] = "slot" /\ reply[w] = "nil" /\ next'[w] = answer[w]
    BY <1>2, <1>5 DEF Located, Answered, Goto
  <2>. QED
    BY <1>1, <1>2, <2>1 DEF RunOK, HeldOK, LateOK, AckOK, OwnedOK, Marked
<1>6. CASE Slot(w)
  <2>1. /\ fresh' = fresh /\ next' = next /\ late' = late
        /\ place[w] = "slot" /\ place'[w] = "append" /\ reply'[w] = "none"
        /\ fresh[w] \/ fills' = fills
    BY <1>2, <1>6 DEF Slot, Goto
  <2>2. HeldOK(w)' /\ AckOK(w)'
    BY <1>1, <2>1 DEF RunOK, HeldOK, AckOK, Marked
  <2>3. LateOK(w)'
    BY <1>2, <2>1 DEF RunOK, LateOK, Marked
  <2>4. OwnedOK(w)'
    BY <1>1, <1>2, <2>1 DEF RunOK, OwnedOK, Marked
  <2>. QED
    BY <2>2, <2>3, <2>4 DEF RunOK
<1>7. CASE Appended(w)
  <2>1. /\ fills' = fills /\ late' = late /\ place[w] = "append" /\ reply'[w] = "none"
        /\ \/ /\ reply[w] = "nil" /\ fresh'[w] = TRUE /\ next'[w] = next[w] + Batch
              /\ place'[w] \in {"slot", "trim"}
           \/ place'[w] = "stopped"
           \/ /\ reply[w] = "ErrAlreadyWritten" /\ fresh'[w] = FALSE /\ next' = next
              /\ place'[w] = "resync"
           \/ fresh'[w] = FALSE /\ next' = next /\ place'[w] = "slot"
    BY <1>2, <1>7 DEF Appended, Answered, Goto
  <2>2. HeldOK(w)' /\ AckOK(w)'
    BY <1>1, <2>1 DEF RunOK, HeldOK, AckOK, Marked
  <2>3. LateOK(w)'
    BY <1>2, <2>1 DEF RunOK, LateOK, Marked
  <2>4. OwnedOK(w)'
    BY <1>1, <1>2, <2>1 DEF RunOK, OwnedOK, Marked
  <2>. QED
    BY <2>2, <2>3, <2>4 DEF RunOK
<1>8. CASE Resynced(w)
  <2>1. /\ fresh' = fresh /\ fills' = fills /\ late' = late
        /\ place[w] = "resync" /\ reply'[w] = "none" /\ place'[w] = "slot"
        /\ next' = next \/ (reply[w] = "nil" /\ next'[w] = answer[w])
    BY <1>2, <1>8 DEF Resynced, Answered, Goto
  <2>2. HeldOK(w)' /\ AckOK(w)'
    BY <1>1, <2>1 DEF RunOK, HeldOK, AckOK, Marked
  <2>3. LateOK(w)'
    BY <1>2, <2>1 DEF RunOK, LateOK, AckOK, Marked
  <2>4. OwnedOK(w)'
    BY <1>1, <1>2, <2>1 DEF RunOK, AckOK, OwnedOK, Marked
  <2>. QED
    BY <2>2, <2>3, <2>4 DEF RunOK
<1>9. CASE Trimmed(w)
  <2>1. /\ fresh' = fresh /\ fills' = fills /\ late' = late /\ next' = next
        /\ place[w] = "trim" /\ reply'[w] = "none" /\ place'[w] = "slot"
    BY <1>2, <1>9 DEF Trimmed, Answered, Goto
  <2>. QED
    BY <1>1, <2>1 DEF RunOK, HeldOK, LateOK, AckOK, OwnedOK, Marked
<1>10. CASE Stop(w)
  <2>1. place'[w] = "stopped"
    BY <1>2, <1>10 DEF Stop, Goto
  <2>. QED
    BY <1>1, <2>1 DEF RunOK, HeldOK, LateOK, AckOK, OwnedOK, Marked
<1>. QED
  BY <1>3, <1>4, <1>5, <1>6, <1>7, <1>8, <1>9, <1>10
\* All that the runs rely on, together.
RunsInv == WellTyped /\ MarkOK /\ OrderOK /\ Contiguous /\ \A w \in Runs : RunOK(w)

\* What the runs rely on is inductive, as long as no two share an epoch.
LEMMA RunsStep ==
    ASSUME DistinctEpochs PROVE RunsInv /\ [Next]_vars => RunsInv'
<1>. SUFFICES ASSUME RunsInv, [Next]_vars PROVE RunsInv'
  OBVIOUS
<1>0. /\ WellTyped /\ MarkOK /\ OrderOK /\ Contiguous /\ (\A w \in Runs : RunOK(w))
      /\ WellTyped' /\ MarkOK' /\ OrderOK'
  BY TypeStep, MarkStep, OrderStep DEF RunsInv
<1>1. SUFFICES Contiguous' /\ \A v \in Runs : RunOK(v)'
  BY <1>0 DEF RunsInv
<1>2. ASSUME NEW w \in Runs, NEW v \in Runs, v # w,
             Serve(w) \/ GiveUp(w) \/ Start(w) \/ Claimed(w) \/ Located(w) \/ Slot(w)
               \/ Appended(w) \/ Resynced(w) \/ Trimmed(w) \/ Stop(w)
      PROVE  Idle(v)
  <2>1. /\ place'[v] = place[v] /\ next'[v] = next[v] /\ fresh'[v] = fresh[v]
        /\ fills'[v] = fills[v] /\ reply'[v] = reply[v] /\ answer'[v] = answer[v]
    BY <1>0, <1>2 DEF WellTyped, TypeOK, Serve, GiveUp, Start, Claimed, Located, Slot,
       Appended, Resynced, Trimmed, Stop, Goto
  <2>2. late' = late \/ (place[w] \in CallPlaces /\ late' = late \union {Request(w)})
    BY <1>2 DEF Serve, GiveUp, Start, Claimed, Located, Slot, Appended, Resynced, Trimmed, Stop
  <2>3. place[w] \in CallPlaces => Request(w).payload[1] = w
    BY <1>0, RequestType
  <2>. QED
    BY <1>2, <2>1, <2>2, <2>3 DEF Idle
<1>3. ASSUME NEW w \in Runs, Serve(w) PROVE Contiguous' /\ \A v \in Runs : RunOK(v)'
  <2>1. PICK e \in Replies : Execute(Request(w), e)
    BY <1>3 DEF Serve
  <2>2. Request(w) \in Call /\ Signed(Request(w)) /\ Request(w).payload[1] = w
    BY <1>0, <1>3, RequestType, RequestSigned DEF Serve
  <2>3. ASSUME NEW v \in Runs PROVE RunOK(v)'
    BY <1>0, <1>2, <1>3, <2>1, <2>2, ServedRun, IdleUnderCall
  <2>. QED
    BY <1>0, <2>1, <2>2, <2>3, ExecuteContiguous
<1>4. ASSUME NEW r \in late, Late(r) PROVE Contiguous' /\ \A v \in Runs : RunOK(v)'
  <2>1. PICK e \in Replies : Execute(r, e)
    BY <1>4 DEF Late
  <2>2. r \in Call /\ Signed(r)
    BY <1>0 DEF WellTyped, TypeOK, Call, OrderOK
  <2>3. ASSUME NEW v \in Runs PROVE Idle(v)
    BY <1>4 DEF Late, Idle
  <2>. QED
    BY <1>0, <2>1, <2>2, <2>3, ExecuteContiguous, IdleUnderCall
<1>5. ASSUME NEW w \in Runs,
             GiveUp(w) \/ Start(w) \/ Claimed(w) \/ Located(w) \/ Slot(w) \/ Appended(w)
               \/ Resynced(w) \/ Trimmed(w) \/ Stop(w)
      PROVE  Contiguous' /\ \A v \in Runs : RunOK(v)'
  <2>1. UNCHANGED log
    BY <1>5, WriterLeavesLog
  <2>2. Contiguous'
    BY <1>0, <2>1 DEF Contiguous, log
  <2>3. ASSUME NEW v \in Runs PROVE RunOK(v)'
    <3>1. CASE v = w
      BY <1>0, <1>5, <3>1, OwnStep
    <3>2. CASE v # w
      <4>1. Idle(v)
        BY <1>2, <1>5, <3>2
      <4>. QED
        BY <1>0, <2>1, <4>1, IdleRun
    <3>. QED
      BY <3>1, <3>2
  <2>. QED
    BY <2>2, <2>3
<1>6. CASE UNCHANGED vars
  <2>1. UNCHANGED log /\ \A v \in Runs : Idle(v)
    BY <1>6 DEF vars, log, Idle
  <2>2. Contiguous'
    BY <1>0, <2>1 DEF Contiguous, log
  <2>. QED
    BY <1>0, <2>1, <2>2, IdleRun
<1>. QED
  BY <1>3, <1>4, <1>5, <1>6 DEF Next

\* ErrAlreadyWritten is an ack (writer.go's append): as long as no two runs share
\* an epoch, a run that is told it finds its own batch there, or a trim has
\* passed it since.
THEOREM AckIsForOwnBatchCorrect ==
    ASSUME DistinctEpochs PROVE Spec => []AckIsForOwnBatch
<1>1. Init => RunsInv
  <2>. SUFFICES ASSUME Init PROVE RunsInv
    OBVIOUS
  <2>1. WellTyped /\ MarkOK /\ OrderOK
    BY Constants DEF ConstantFacts, Init, WellTyped, TypeOK, TrimOK, MarkOK, RetainedIsKept,
       OrderOK, EntryOK, Signed, Places, Replies, FirstSeqno
  <2>2. Contiguous
    BY DEF Init, Contiguous
  <2>3. ASSUME NEW w \in Runs PROVE RunOK(w)
    BY DEF Init, RunOK, HeldOK, LateOK, AckOK, OwnedOK, Marked
  <2>. QED
    BY <2>1, <2>2, <2>3 DEF RunsInv
<1>2. RunsInv => AckIsForOwnBatch
  BY DEF RunsInv, RunOK, AckOK, AckIsForOwnBatch
<1>3. RunsInv /\ [Next]_vars => RunsInv'
  BY RunsStep
<1>. QED
  BY <1>1, <1>2, <1>3, PTL DEF Spec

===============================================================================

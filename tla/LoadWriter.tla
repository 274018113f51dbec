------------------------------ MODULE LoadWriter ------------------------------
(***************************************************************************)
(* The load generator's writer (cmd/pgnotch-load/writer.go): runs of the    *)
(* tool, one after or over the other, each claiming one log at its epoch,   *)
(* asking where it ends, and from there keeping the mark itself through     *)
(* answers, refusals and calls whose outcome it never learns.               *)
(*                                                                         *)
(* The store below is its promise, FencedLog, which LogStore implements: a  *)
(* call takes effect at one point between its start and its answer.  A call *)
(* given up on (its deadline, a broken connection, the death of the run) is *)
(* not thereby undone: it may have taken effect, or still do so later.      *)
(*                                                                         *)
(* Left out: the pacing (a slot may come at any time), payload bytes (a     *)
(* batch is named by its run and its number), and the counters of stats.go. *)
(***************************************************************************)
EXTENDS Rules

CONSTANTS
    Runs,      \* the runs of the tool
    EpochOf,   \* EpochOf[w]: the epoch of run w (-epoch, or the Unix time)
    Batch,     \* entries per append (-batch)
    Retain,    \* entries a log keeps (-retain), zero for all
    Stride,    \* how far the watermark moves at a time
    MaxSeqno,  \* bound: no append ends above this seqno
    MaxFills   \* bound: the batches one run draws

ASSUME EpochOfAssumption == EpochOf \in [Runs -> Nat \ {0}]
ASSUME BatchAssumption   == Batch \in Nat \ {0}
ASSUME RetainAssumption  == Retain \in Nat
ASSUME StrideAssumption  == Stride \in Nat \ {0}
ASSUME BoundsAssumption  == MaxSeqno \in Nat /\ MaxFills \in Nat

VARIABLES
    exists, owner, last, low, entries,  \* the log, as FencedLog has it
    place,    \* place[w]: the call run w is in, or where it is between calls
    next,     \* next[w]: where run w's next batch starts
    trimmed,  \* trimmed[w]: the seqno run w's last trim asked for
    fresh,    \* fresh[w]: whether run w draws a new batch at its next slot
    fills,    \* fills[w]: the batches run w has drawn, the last being its batch
    reply,    \* reply[w]: the answer to run w's call, "none" until there is one
    answer,   \* answer[w]: the seqno run w's last NextSeqno was answered
    late      \* the calls given up on that may still take effect

log  == <<exists, owner, last, low, entries>>
vars == <<exists, owner, last, low, entries, place, next, trimmed, fresh, fills,
          reply, answer, late>>

Log == INSTANCE FencedLog WITH Epochs   <- {EpochOf[w] : w \in Runs},
                               Payloads <- Runs \X (1 .. MaxFills)

-----------------------------------------------------------------------------
(* Calls. *)

CallPlaces == {"claim", "locate", "append", "resync", "trim"}
Places     == {"start", "slot", "stopped"} \union CallPlaces
Replies    == {"none", "nil", "driver", "ErrFenced", "ErrAlreadyWritten", "ErrGap"}

written(w) == next[w] - 1

\* Variant: the retained length is not left.
upToEnd(w) == written(w)

\* The seqno the writer's trim asks for.
upTo(w) == written(w) - Retain

\* The call of the place run w is in; first is Append's first and Trim's upTo.
Request(w) ==
    [op      |-> place[w],
     epoch   |-> EpochOf[w],
     first   |-> IF place[w] = "trim" THEN upTo(w) ELSE next[w],
     payload |-> <<w, fills[w]>>]

\* GREATEST(trim_upto, LEAST($1, last_seqno)), as LogStore's Watermark.
Watermark(n) ==
    LET clamped == IF n <= last THEN n ELSE last
    IN  IF low >= clamped THEN low ELSE clamped

\* Call r takes its effect on the log and its caller would be told e.
Execute(r, e) ==
    \/ r.op = "claim" /\ e = fenceRefusal(owner, r.epoch) /\ e # "nil" /\ UNCHANGED log
    \/ r.op = "claim" /\ e = "nil" /\ Log!Own(r.epoch)
    \/ r.op \in {"locate", "resync"} /\ e = "nil" /\ UNCHANGED log
    \/ /\ r.op = "append" /\ e = appendRefusal(r.epoch, r.first, owner, last)
       /\ e # "nil" /\ UNCHANGED log
    \/ /\ r.op = "append" /\ e = "nil"
       /\ appendRefusal(r.epoch, r.first, owner, last) = "nil"
       /\ Log!Grow(Batch, r.payload)
    \/ r.op = "trim" /\ e = "nil" /\ Log!Cut(Watermark(r.first))

\* The store answers the call run w is in.
Serve(w) ==
    /\ place[w] \in CallPlaces /\ reply[w] = "none"
    /\ \E e \in Replies : Execute(Request(w), e) /\ reply' = [reply EXCEPT ![w] = e]
    /\ answer' = [answer EXCEPT ![w] = last + 1]
    /\ UNCHANGED <<place, next, trimmed, fresh, fills, late>>

\* The call's deadline passes or its connection breaks, with no answer yet (it
\* may still take effect, or never) or with one that is lost.
GiveUp(w) ==
    /\ place[w] \in CallPlaces /\ reply[w] # "driver"
    /\ reply' = [reply EXCEPT ![w] = "driver"]
    /\ \/ UNCHANGED late
       \/ reply[w] = "none" /\ late' = late \union {Request(w)}
    /\ UNCHANGED <<log, place, next, trimmed, fresh, fills, answer>>

\* A call given up on takes its effect after all, and nobody hears of it.
Late(r) ==
    /\ \E e \in Replies : Execute(r, e)
    /\ late' = late \ {r}
    /\ UNCHANGED <<place, next, trimmed, fresh, fills, reply, answer>>

-----------------------------------------------------------------------------
(* The writer. *)

\* Run w goes on at p, where a call starts unanswered.
Goto(w, p) ==
    /\ place' = [place EXCEPT ![w] = p]
    /\ reply' = [reply EXCEPT ![w] = "none"]

Answered(w, p) == place[w] = p /\ reply[w] # "none"

\* drive: the claims come first, and a run that cannot make them fails.
Start(w) ==
    /\ place[w] = "start" /\ Goto(w, "claim")
    /\ UNCHANGED <<log, next, trimmed, fresh, fills, answer, late>>

Claimed(w) ==
    /\ Answered(w, "claim")
    /\ Goto(w, IF reply[w] = "nil" THEN "locate" ELSE "stopped")
    /\ UNCHANGED <<log, next, trimmed, fresh, fills, answer, late>>

Located(w) ==
    /\ Answered(w, "locate")
    /\ \/ reply[w] = "nil" /\ next' = [next EXCEPT ![w] = answer[w]] /\ Goto(w, "slot")
       \/ reply[w] # "nil" /\ UNCHANGED next /\ Goto(w, "stopped")
    /\ UNCHANGED <<log, trimmed, fresh, fills, answer, late>>

\* A slot comes: the batch is drawn anew only when the last one is done with.
Slot(w) ==
    /\ place[w] = "slot"
    /\ lastOf(next[w], Batch) <= MaxSeqno
    /\ \/ fresh[w] /\ fills[w] < MaxFills /\ fills' = [fills EXCEPT ![w] = @ + 1]
       \/ ~fresh[w] /\ UNCHANGED fills
    /\ Goto(w, "append")
    /\ UNCHANGED <<log, next, trimmed, fresh, answer, late>>

\* Whether trim has a call to make with n written and t trimmed.
TrimDue(n, t) == Retain > 0 /\ n > Retain /\ n - Retain >= t + Stride

\* Variant: the mark moves though the outcome is not known.
AppendedBlindly(w) ==
    /\ Answered(w, "append")
    /\ fresh' = [fresh EXCEPT ![w] = TRUE]
    /\ next' = [next EXCEPT ![w] = @ + Batch]
    /\ Goto(w, "slot")
    /\ UNCHANGED <<log, trimmed, fills, answer, late>>

\* append's switch on the answer, and the trim that follows a batch that is done.
Appended(w) ==
    /\ Answered(w, "append")
    /\ fresh' = [fresh EXCEPT ![w] = reply[w] = "nil"]
    /\ \/ /\ reply[w] = "nil"
          /\ next' = [next EXCEPT ![w] = @ + Batch]
          /\ Goto(w, IF TrimDue(next'[w] - 1, trimmed[w]) THEN "trim" ELSE "slot")
       \/ reply[w] = "ErrFenced" /\ UNCHANGED next /\ Goto(w, "stopped")
       \/ reply[w] \in {"ErrAlreadyWritten", "ErrGap"} /\ UNCHANGED next /\ Goto(w, "resync")
       \/ reply[w] = "driver" /\ UNCHANGED next /\ Goto(w, "slot")
    /\ UNCHANGED <<log, trimmed, fills, answer, late>>

\* A read that fails leaves the position alone.
Resynced(w) ==
    /\ Answered(w, "resync")
    /\ next' = IF reply[w] = "nil" THEN [next EXCEPT ![w] = answer[w]] ELSE next
    /\ Goto(w, "slot")
    /\ UNCHANGED <<log, trimmed, fresh, fills, answer, late>>

Trimmed(w) ==
    /\ Answered(w, "trim")
    /\ trimmed' = IF reply[w] = "nil" THEN [trimmed EXCEPT ![w] = upTo(w)] ELSE trimmed
    /\ Goto(w, "slot")
    /\ UNCHANGED <<log, next, fresh, fills, answer, late>>

\* The run is stopped at a slot, or killed anywhere with its call under way.
Stop(w) ==
    /\ place[w] # "stopped"
    /\ Goto(w, "stopped")
    /\ \/ UNCHANGED late
       \/ place[w] \in CallPlaces /\ reply[w] = "none" /\ late' = late \union {Request(w)}
    /\ UNCHANGED <<log, next, trimmed, fresh, fills, answer>>

-----------------------------------------------------------------------------
\* prepare has created the log before any run claims it.
Init ==
    /\ exists = TRUE
    /\ owner = 0 /\ last = 0 /\ low = 0 /\ entries = {}
    /\ place = [w \in Runs |-> "start"]
    /\ next = [w \in Runs |-> 0]
    /\ trimmed = [w \in Runs |-> 0]
    /\ fresh = [w \in Runs |-> TRUE]
    /\ fills = [w \in Runs |-> 0]
    /\ reply = [w \in Runs |-> "none"]
    /\ answer = [w \in Runs |-> 0]
    /\ late = {}

Next ==
    \/ \E w \in Runs :
          \/ Serve(w) \/ GiveUp(w)
          \/ Start(w) \/ Claimed(w) \/ Located(w)
          \/ Slot(w) \/ Appended(w) \/ Resynced(w) \/ Trimmed(w)
          \/ Stop(w)
    \/ \E r \in late : Late(r)

Spec == Init /\ [][Next]_vars

-----------------------------------------------------------------------------
Payload == Runs \X (0 .. MaxFills)

\* The type invariant; a run past its claim has a mark to append at.
TypeOK ==
    /\ exists /\ owner \in Nat /\ last \in Nat /\ low \in Nat
    /\ entries \subseteq [seqno : Nat, epoch : Nat, payload : Payload]
    /\ place \in [Runs -> Places]
    /\ next \in [Runs -> Nat] /\ trimmed \in [Runs -> Nat]
    /\ fresh \in [Runs -> BOOLEAN] /\ fills \in [Runs -> 0 .. MaxFills]
    /\ reply \in [Runs -> Replies] /\ answer \in [Runs -> Nat]
    /\ late \subseteq [op : CallPlaces, epoch : Nat, first : Nat, payload : Payload]
    /\ \A w \in Runs :
          /\ place[w] \in {"slot", "append", "resync", "trim"} => next[w] >= FirstSeqno
          /\ place[w] = "append" => fills[w] > 0

\* ErrGap is unreachable for a writer appending in order, whatever becomes of
\* its calls: its mark never passes the log's end.
NoGap == TypeOK /\ \A w \in Runs : reply[w] # "ErrGap"

\* ErrAlreadyWritten is an ack.  As long as no two runs share an epoch, a run
\* that is told it finds its own batch at that seqno, and never another run's,
\* unless a trim has passed it since.
AckIsForOwnBatch ==
    \A w \in Runs :
        place[w] = "append" /\ reply[w] = "ErrAlreadyWritten" /\ next[w] > low =>
            \E r \in entries : r.seqno = next[w] /\ r.payload = <<w, fills[w]>>

\* No trim, on time or late, takes one of the entries a run is told to retain.
RetainedIsKept == low > 0 => low + Retain <= last

\* A log has one writer at a time.  Once another run's entry follows a run's, no
\* further entry of that run follows, not even by a call that comes late.
RunsDoNotInterleave ==
    \A r, q, t \in entries :
        r.seqno < q.seqno /\ q.seqno < t.seqno /\ r.payload[1] = t.payload[1] =>
            q.payload[1] = r.payload[1]

\* A batch is in the log at one place: a replay is the same bytes at the same
\* seqno.
BatchLandsOnce ==
    \A r, q \in entries :
        r.payload = q.payload => r.seqno < q.seqno + Batch /\ q.seqno < r.seqno + Batch

===============================================================================

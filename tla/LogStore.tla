------------------------------- MODULE LogStore -------------------------------
(***************************************************************************)
(* One log of a pgnotch Store (store.go) and the sessions that call it.     *)
(*                                                                         *)
(* A session c runs one Store call at a time: Fence, Append, Trim with the  *)
(* reclaim it ends in, or ReadFrom.  A call is a chain of statements, and a *)
(* statement is cut where another session can come between: at each table   *)
(* lock, at the snapshot its predicate is first evaluated on, at the row    *)
(* lock under which READ COMMITTED evaluates it again, and at the commit.   *)
(* Sessions are of any number of Stores and processes: nothing a Store      *)
(* keeps in memory decides anything (its statement cache only names tables).*)
(*                                                                         *)
(* What PostgreSQL contributes is modelled by how this code uses it:        *)
(*  - an uncommitted transaction is invisible, so its writes happen at its  *)
(*    commit and before that it is only the locks it holds;                 *)
(*  - an UPDATE finds its row by its snapshot, a row whose snapshot version *)
(*    does not satisfy the WHERE is not waited for, and one that does is    *)
(*    locked, re-read and tested again;                                     *)
(*  - a statement locks the tables it names before it takes its snapshot;   *)
(*    only ACCESS EXCLUSIVE conflicts, with every mode used here;           *)
(*  - a broken connection, a cancelled context or a server crash rolls the  *)
(*    transaction back, or comes after the commit and loses only the reply. *)
(*                                                                         *)
(* Left out: chunks (an entry is one row here), payload bytes (a payload is *)
(* named by the session that sent it), the ordinal and the registration of  *)
(* several logs, and the width of the integers.                             *)
(***************************************************************************)
EXTENDS Rules, Sequences, FiniteSets

CONSTANTS
    Calls,     \* the sessions
    Epochs,    \* the epochs callers pass, zero apart
    Batches,   \* the batch sizes of appends
    MaxSeqno,  \* bound: no append ends above this seqno
    Trims,     \* the seqnos callers trim to
    Limits     \* the limits of reads

ASSUME EpochsAssumption  == Epochs \subseteq Nat \ {0}
ASSUME BatchesAssumption == Batches \subseteq Nat
ASSUME MaxSeqnoAssumption == MaxSeqno \in Nat
ASSUME TrimsAssumption   == Trims \subseteq Nat
ASSUME LimitsAssumption  == Limits \subseteq Int

VARIABLES
    created,  \* whether the registry has the log's row
    row,      \* that row, as last committed
    heap,     \* heap[s]: the committed rows of the ring's half s, as inserted
    pc,       \* pc[c]: where session c is in its call, "idle" between calls
    arg,      \* arg[c]: the call session c is running, or ran last
    held,     \* held[c]: the entry tables session c's transaction has locked
    seen,     \* seen[c]: history, what the version c's call last saw amounts to
    got,      \* got[c]: the entries session c's last read returned
    res       \* res[c]: the error session c's last call returned

vars == <<created, row, heap, pc, arg, held, seen, got, res>>

-----------------------------------------------------------------------------
(* Types. *)

Entry == [seqno : Nat, epoch : Nat, payload : Calls]

Ops == {"none", "fence", "append", "trim", "read"}

\* first is Append's first, Trim's upTo and the seqno a ReadFrom starts at;
\* count is a batch's length and a read's limit.
Arg == [op : Ops, epoch : Nat, first : Nat, count : Nat]

AppendPCs  == {"append.lock", "append.scan", "append.row", "append.write",
               "append.diagnose"}
FencePCs   == {"fence.scan", "fence.row", "fence.write", "fence.diagnose"}
ReclaimPCs == {"reclaim.lock", "reclaim.row", "reclaim.write"}
TrimPCs    == {"trim.row", "trim.write"} \union ReclaimPCs
ReadPCs    == {"read.lock", "read.query"}

PCs == {"idle"} \union AppendPCs \union FencePCs \union TrimPCs \union ReadPCs

\* "invalid" are the argument checks, "unexplained" the two errors that say
\* the row admits what it refused, "timeout" SQLSTATE 55P03 passed on, and
\* "driver" every other error of the driver: the outcome is not known.
Results == {"nil", "ErrFenced", "ErrAlreadyWritten", "ErrGap", "ErrNoSuchLog",
            "invalid", "unexplained", "timeout", "driver"}

\* The row's owner when the call began or its UPDATE was refused, and then the
\* refusal that version of the row amounts to.
Seen == [owner : Nat, refusal : Results]

Types ==
    /\ created \in BOOLEAN
    /\ row \in logState
    /\ heap \in [Slots -> Seq(Entry)]
    /\ pc \in [Calls -> PCs]
    /\ arg \in [Calls -> Arg]
    /\ held \in [Calls -> SUBSET Slots]
    /\ seen \in [Calls -> Seen]
    /\ got \in [Calls -> SUBSET Entry]
    /\ res \in [Calls -> Results]

-----------------------------------------------------------------------------
(* Locks.  A session's place in its call says which table locks it wants    *)
(* and whether it has the row.                                              *)

LockPCs  == {"append.lock", "reclaim.lock", "read.lock"}
RowPCs   == {"append.row", "fence.row", "trim.row", "reclaim.row"}
WritePCs == {"append.write", "fence.write", "trim.write", "reclaim.write"}

\* LOCK TABLE ... IN ACCESS EXCLUSIVE MODE is reclaim's alone; an append takes
\* ROW EXCLUSIVE and a read ACCESS SHARE, which do not conflict.
Exclusive(c) == pc[c] \in ReclaimPCs

Conflict(c, d) == c # d /\ (Exclusive(c) \/ Exclusive(d))

\* Where a call goes on once it has both tables.
AfterLock == [p \in LockPCs |->
                CASE p = "append.lock"  -> "append.scan"
                  [] p = "reclaim.lock" -> "reclaim.row"
                  [] p = "read.lock"    -> "read.query"]

\* Variant: a reclaim locks slot 1 first.
NextTableReversed(c) ==
    IF Exclusive(c) THEN (IF 1 \in held[c] THEN 0 ELSE 1)
                    ELSE (IF 0 \in held[c] THEN 1 ELSE 0)

\* Every statement that locks both tables locks them in slot order.
NextTable(c) == IF 0 \in held[c] THEN 1 ELSE 0

\* Variant: LOCK TABLE in a mode that lets reads through.
BlockedOnTableShared(c, d) ==
    pc[c] \in LockPCs \ {"read.lock"} /\ Conflict(c, d) /\ NextTable(c) \in held[d]

BlockedOnTable(c, d) ==
    pc[c] \in LockPCs /\ Conflict(c, d) /\ NextTable(c) \in held[d]

HoldsRow(c) == pc[c] \in WritePCs

BlockedOnRow(c, d) == pc[c] \in RowPCs /\ c # d /\ HoldsRow(d)

WaitsFor(c, d) == BlockedOnTable(c, d) \/ BlockedOnRow(c, d)

Blocked(c) == \E d \in Calls : WaitsFor(c, d)

\* Session c's call goes on at p; its transaction and its locks stay.
Goto(c, p) == pc' = [pc EXCEPT ![c] = p]

\* The transaction ends, committed or rolled back, and its locks go with it.
ReleaseLocks(c) == held' = [held EXCEPT ![c] = {}]

\* Session c's call returns r.
Return(c, r) ==
    /\ Goto(c, "idle")
    /\ ReleaseLocks(c)
    /\ res' = [res EXCEPT ![c] = r]

\* Session c starts a call: it returns r at once, or goes on at p.
Start(c, op, epoch, first, count, r, p) ==
    /\ pc[c] = "idle"
    /\ arg' = [arg EXCEPT ![c] = [op |-> op, epoch |-> epoch,
                                  first |-> first, count |-> count]]
    /\ seen' = [seen EXCEPT ![c] = [owner |-> row.epoch, refusal |-> "nil"]]
    /\ got' = [got EXCEPT ![c] = {}]
    /\ res' = [res EXCEPT ![c] = r]
    /\ Goto(c, p)
    /\ UNCHANGED <<created, row, heap, held>>

\* The statement of session c matched no row and is over; the call goes on to
\* ask why.
MatchesNothing(c, refusal, diagnose) ==
    /\ Goto(c, diagnose)
    /\ ReleaseLocks(c)
    /\ seen' = [seen EXCEPT ![c] = [owner |-> row.epoch, refusal |-> refusal]]

\* The next of the call's two table locks is granted.
LockTable(c) ==
    /\ pc[c] \in LockPCs
    /\ ~Blocked(c)
    /\ held' = [held EXCEPT ![c] = @ \union {NextTable(c)}]
    /\ \/ held'[c] # Slots /\ UNCHANGED pc
       \/ held'[c] = Slots /\ Goto(c, AfterLock[pc[c]])
    /\ UNCHANGED <<created, row, heap, arg, seen, got, res>>

\* What a caller is told of a committed statement: the reply, or that the
\* connection broke or the context ended before it came.
CommitReplies == {"nil", "driver"}

-----------------------------------------------------------------------------
(* CreateLogs, for this log: the row, and with it two empty tables. *)

CreateLogs ==
    /\ ~created
    /\ created' = TRUE
    /\ row' = [epoch |-> 0, last_seqno |-> 0, trim_upto |-> 0,
               cur_slot |-> 0, cur_lo |-> FirstSeqno, prev_hi |-> 0]
    /\ heap' = [s \in Slots |-> <<>>]
    /\ UNCHANGED <<pc, arg, held, seen, got, res>>

-----------------------------------------------------------------------------
(* Fence. *)

Fence(c, epoch) ==
    \/ /\ ~checkFence(epoch)
       /\ Start(c, "fence", epoch, 0, 0, "invalid", "idle")
    \/ /\ checkFence(epoch)
       /\ Start(c, "fence", epoch, 0, 0, "nil", "fence.scan")

\* Variant: < for <=, which is not idempotent per epoch.
FenceMatchesStrict(c) == created /\ row.epoch < arg[c].epoch

\* WHERE log_id = $1 AND epoch <= $2
FenceMatches(c) == created /\ row.epoch <= arg[c].epoch

\* Why a fence is refused, by the row as it now is.
FenceAnswer(c) ==
    IF ~created THEN "ErrNoSuchLog" ELSE fenceRefusal(row.epoch, arg[c].epoch)

\* The predicate on the snapshot, and again once the row is locked.
FenceTest(c, from, to) ==
    /\ pc[c] = from
    /\ ~Blocked(c)
    /\ \/ FenceMatches(c) /\ Goto(c, to) /\ UNCHANGED <<held, seen>>
       \/ ~FenceMatches(c) /\ MatchesNothing(c, FenceAnswer(c), "fence.diagnose")
    /\ UNCHANGED <<created, row, heap, arg, got, res>>

FenceScan(c) == FenceTest(c, "fence.scan", "fence.row")

\* Variant: the predicate is not tested again under the row lock.
FenceRowUntested(c) ==
    /\ pc[c] = "fence.row" /\ ~Blocked(c) /\ Goto(c, "fence.write")
    /\ UNCHANGED <<created, row, heap, arg, held, seen, got, res>>

FenceRow(c) == FenceTest(c, "fence.row", "fence.write")

FenceCommit(c) ==
    /\ pc[c] = "fence.write"
    /\ row' = [row EXCEPT !.epoch = arg[c].epoch]
    /\ \E r \in CommitReplies : Return(c, r)
    /\ UNCHANGED <<created, heap, arg, seen, got>>

\* fenceRefused: a second read says why.
FenceDiagnose(c) ==
    /\ pc[c] = "fence.diagnose"
    /\ Return(c, IF FenceAnswer(c) = "nil" THEN "unexplained" ELSE FenceAnswer(c))
    /\ UNCHANGED <<created, row, heap, arg, seen, got>>

-----------------------------------------------------------------------------
(* Append. *)

\* appendFor has a statement from the cache or by a look in the registry; the
\* cache never says otherwise than the registry, which no log ever leaves.
known == created

\* The argument checks, then the statement to run: a log that is not there is a
\* refusal of its own.
AppendBatch(c, epoch, first, count) ==
    /\ lastOf(first, count) <= MaxSeqno
    /\ \/ /\ ~checkAppend(epoch, first, count)
          /\ Start(c, "append", epoch, first, count, "invalid", "idle")
       \/ /\ checkAppend(epoch, first, count) /\ ~known
          /\ Start(c, "append", epoch, first, count,
                   appendRefusal(epoch, first, 0, 0), "idle")
       \/ /\ checkAppend(epoch, first, count) /\ known
          /\ Start(c, "append", epoch, first, count, "nil", "append.lock")

\* Variants: the owner is not asked for; the entry below the batch is not.
AppendMatchesAnyEpoch(c) == row.last_seqno = arg[c].first - 1
AppendMatchesAboveEnd(c) == row.epoch = arg[c].epoch /\ row.last_seqno < arg[c].first

\* WHERE log_id = $2 AND epoch = $3 AND last_seqno = $4
AppendMatches(c) ==
    row.epoch = arg[c].epoch /\ row.last_seqno = arg[c].first - 1

AppendAnswer(c) ==
    appendRefusal(arg[c].epoch, arg[c].first, row.epoch, row.last_seqno)

\* The predicate on the snapshot, and again once the row is locked.
AppendTest(c, from, to) ==
    /\ pc[c] = from
    /\ ~Blocked(c)
    /\ \/ AppendMatches(c) /\ Goto(c, to) /\ UNCHANGED <<held, seen>>
       \/ ~AppendMatches(c) /\ MatchesNothing(c, AppendAnswer(c), "append.diagnose")
    /\ UNCHANGED <<created, row, heap, arg, got, res>>

AppendScan(c) == AppendTest(c, "append.scan", "append.row")

\* Variant: the predicate is not tested again under the row lock.
AppendRowUntested(c) ==
    /\ pc[c] = "append.row" /\ ~Blocked(c) /\ Goto(c, "append.write")
    /\ UNCHANGED <<created, row, heap, arg, held, seen, got, res>>

AppendRow(c) == AppendTest(c, "append.row", "append.write")

Batch(c) == [i \in 1 .. arg[c].count |->
               [seqno |-> arg[c].first + i - 1, epoch |-> arg[c].epoch, payload |-> c]]

\* The claim and the rows it gave a slot to, in one statement.
AppendCommit(c) ==
    /\ pc[c] = "append.write"
    /\ row' = [row EXCEPT !.last_seqno = lastOf(arg[c].first, arg[c].count)]
    /\ heap' = [heap EXCEPT ![row.cur_slot] = @ \o Batch(c)]
    /\ \E r \in CommitReplies : Return(c, r)
    /\ UNCHANGED <<created, arg, seen, got>>

\* Variant: a refused append goes again by itself.
AppendDiagnoseRetries(c) ==
    /\ pc[c] = "append.diagnose"
    /\ Goto(c, "append.lock")
    /\ UNCHANGED <<created, row, heap, arg, held, seen, got, res>>

\* appendRefused: a second read says which of the three it was.
AppendDiagnose(c) ==
    /\ pc[c] = "append.diagnose"
    /\ Return(c, IF AppendAnswer(c) = "nil" THEN "unexplained" ELSE AppendAnswer(c))
    /\ UNCHANGED <<created, row, heap, arg, seen, got>>

-----------------------------------------------------------------------------
(* Trim, and the reclaim it ends in. *)

Trim(c, upTo) ==
    \/ /\ ~checkTrim(upTo) \/ ~created
       /\ Start(c, "trim", 0, upTo, 0, "nil", "idle")
    \/ /\ checkTrim(upTo) /\ created
       /\ Start(c, "trim", 0, upTo, 0, "nil", "trim.row")

TrimRow(c) ==
    /\ pc[c] = "trim.row"
    /\ ~Blocked(c)
    /\ Goto(c, "trim.write")
    /\ UNCHANGED <<created, row, heap, arg, held, seen, got, res>>

\* Variant: the watermark is not clamped to the tail.
WatermarkUnclamped(c) == IF row.trim_upto >= arg[c].first THEN row.trim_upto
                                                          ELSE arg[c].first

\* GREATEST(trim_upto, LEAST($1, last_seqno))
Watermark(c) ==
    LET clamped == IF arg[c].first <= row.last_seqno THEN arg[c].first
                                                     ELSE row.last_seqno
    IN  IF row.trim_upto >= clamped THEN row.trim_upto ELSE clamped

\* The watermark's UPDATE commits, and the row it returned is the gate of
\* reclaim: nothing to do, a truncation (which needs the tables locked), or a
\* rotation alone (which does not).
TrimCommit(c) ==
    /\ pc[c] = "trim.write"
    /\ row' = [row EXCEPT !.trim_upto = Watermark(c)]
    /\ LET want == reclaimSteps(row', TRUE)
       IN  \/ Return(c, "driver")
           \/ ~want.truncate /\ ~want.rotate /\ Return(c, "nil")
           \/ want.truncate /\ Goto(c, "reclaim.lock") /\ UNCHANGED <<held, res>>
           \/ ~want.truncate /\ want.rotate /\ Goto(c, "reclaim.row")
                /\ UNCHANGED <<held, res>>
    /\ UNCHANGED <<created, heap, arg, seen, got>>

\* lock_timeout ends a wait of reclaim's.  Only the wait for the tables is
\* errLockUnavailable, which Trim swallows; the row's passes 55P03 on.
ReclaimTimeout(c) ==
    /\ Blocked(c)
    /\ \/ pc[c] = "reclaim.lock" /\ Return(c, "nil")
       \/ pc[c] = "reclaim.row" /\ Return(c, "timeout")
    /\ UNCHANGED <<created, row, heap, arg, seen, got>>

ReclaimRow(c) ==
    /\ pc[c] = "reclaim.row"
    /\ ~Blocked(c)
    /\ Goto(c, "reclaim.write")
    /\ UNCHANGED <<created, row, heap, arg, held, seen, got, res>>

\* The row as it is under the lock decides, with what the locks held allow.
ReclaimCommit(c) ==
    LET do    == reclaimSteps(row, held[c] = Slots)
        after == IF do.truncate THEN [row EXCEPT !.prev_hi = 0] ELSE row
    IN  /\ pc[c] = "reclaim.write"
        /\ heap' = IF do.truncate THEN [heap EXCEPT ![prevSlot(row)] = <<>>] ELSE heap
        /\ row' = IF do.rotate
                  THEN [after EXCEPT !.cur_slot = 1 - @,
                                     !.prev_hi = row.last_seqno,
                                     !.cur_lo = row.last_seqno + 1]
                  ELSE after
        /\ \E r \in CommitReplies : Return(c, r)
        /\ UNCHANGED <<created, arg, seen, got>>

-----------------------------------------------------------------------------
(* ReadFrom. *)

\* The lower bound of the query: above the watermark, whatever rows are left.
readLo(from) == IF readStart(from) > row.trim_upto THEN readStart(from)
                                                   ELSE row.trim_upto + 1

\* readState has the row, or that there is none.
found == created

\* The argument check, then readState: a log that is not there reads as empty.
ReadFrom(c, from, limit) ==
    \/ /\ ~checkRead(limit)
       /\ Start(c, "read", 0, from, 0, "invalid", "idle")
    \/ /\ checkRead(limit) /\ ~found
       /\ Start(c, "read", 0, from, limit, "nil", "idle")
    \/ /\ checkRead(limit) /\ found
       /\ Start(c, "read", 0, readLo(from), limit, "nil", "read.lock")

\* The rows of both halves.
Rows == UNION {{heap[s][i] : i \in 1 .. Len(heap[s])} : s \in Slots}

\* The union of the halves BETWEEN lo AND hi.  ORDER BY seqno makes it a
\* sequence, which the set determines as long as no two rows share a seqno.
ReadQuery(c) ==
    /\ pc[c] = "read.query"
    /\ got' = [got EXCEPT ![c] =
                 {r \in Rows : /\ r.seqno >= arg[c].first
                               /\ r.seqno <= arg[c].first + arg[c].count - 1}]
    /\ Return(c, "nil")
    /\ UNCHANGED <<created, row, heap, arg, seen>>

-----------------------------------------------------------------------------
\* A broken connection, a cancelled context or a crash of the server ends a
\* call at any point before its commit, and the transaction is rolled back.
Failure(c) ==
    /\ pc[c] # "idle"
    /\ Return(c, "driver")
    /\ UNCHANGED <<created, row, heap, arg, seen, got>>

Init ==
    /\ created = FALSE
    /\ row = [epoch |-> 0, last_seqno |-> 0, trim_upto |-> 0,
              cur_slot |-> 0, cur_lo |-> FirstSeqno, prev_hi |-> 0]
    /\ heap = [s \in Slots |-> <<>>]
    /\ pc = [c \in Calls |-> "idle"]
    /\ arg = [c \in Calls |-> [op |-> "none", epoch |-> 0, first |-> 0, count |-> 0]]
    /\ held = [c \in Calls |-> {}]
    /\ seen = [c \in Calls |-> [owner |-> 0, refusal |-> "nil"]]
    /\ got = [c \in Calls |-> {}]
    /\ res = [c \in Calls |-> "nil"]

\* A caller makes a call.
Call(c) ==
    \/ \E e \in Epochs \union {0} : Fence(c, e)
    \/ \E e \in Epochs \union {0}, first \in 0 .. MaxSeqno, n \in Batches :
           AppendBatch(c, e, first, n)
    \/ \E upTo \in Trims : Trim(c, upTo)
    \/ \E from \in 0 .. MaxSeqno, limit \in Limits : ReadFrom(c, from, limit)

\* A call under way takes its next step.
Step(c) ==
    \/ LockTable(c)
    \/ FenceScan(c) \/ FenceRow(c) \/ FenceCommit(c) \/ FenceDiagnose(c)
    \/ AppendScan(c) \/ AppendRow(c) \/ AppendCommit(c) \/ AppendDiagnose(c)
    \/ TrimRow(c) \/ TrimCommit(c)
    \/ ReclaimTimeout(c) \/ ReclaimRow(c) \/ ReclaimCommit(c)
    \/ ReadQuery(c)

Next == CreateLogs \/ \E c \in Calls : Call(c) \/ Step(c) \/ Failure(c)

Spec == Init /\ [][Next]_vars

\* PostgreSQL grants a lock in the order of its wait queue, so a session that
\* can go on again and again does go on.
FairSpec == Spec /\ \A c \in Calls : SF_vars(Step(c))

-----------------------------------------------------------------------------
(* What a call under way may rely on. *)

\* A call past its checks runs with arguments they admitted, on a log that is
\* there: no statement after the first asks again.
CallOK(c) ==
    /\ pc[c] \in AppendPCs =>
          /\ created /\ arg[c].op = "append" /\ arg[c].epoch \in Epochs
          /\ arg[c].first >= FirstSeqno /\ arg[c].count >= 1
          /\ lastOf(arg[c].first, arg[c].count) <= MaxSeqno
    /\ pc[c] \in FencePCs => arg[c].op = "fence" /\ arg[c].epoch \in Epochs
    /\ pc[c] \in TrimPCs => created /\ arg[c].op = "trim" /\ arg[c].first >= FirstSeqno
    /\ pc[c] \in ReadPCs => created /\ arg[c].op = "read" /\ arg[c].count >= 1

\* The type invariant, which is inductive.
TypeOK == Types /\ \A c \in Calls : CallOK(c)

\* What a statement tested under the row lock is still so when it commits: one
\* session has the row at a time, so between its test and its commit no fence
\* moves the owner and no append moves the end of the log.
RowLockInv ==
    /\ \A c, d \in Calls : HoldsRow(c) /\ HoldsRow(d) => c = d
    /\ \A c \in Calls : pc[c] = "append.write" => AppendMatches(c)
    /\ \A c \in Calls : pc[c] = "fence.write" => FenceMatches(c)

\* A call holds the table locks its place in it says, slot 0 taken first.
TablesHeld(c) ==
    /\ pc[c] \in LockPCs => held[c] \in {{}, {0}}
    /\ pc[c] \in {"append.scan", "append.row", "append.write", "read.query"}
          => held[c] = Slots
    /\ pc[c] \in {"reclaim.row", "reclaim.write"} => held[c] \in {{}, Slots}
    /\ pc[c] \in {"idle", "append.diagnose", "trim.row", "trim.write"} \union FencePCs
          => held[c] = {}

\* Every call holds the tables its place says, and a reclaim that has a table
\* has it alone: it empties no half under an append or a read.
TableLockInv ==
    /\ \A c \in Calls : TablesHeld(c)
    /\ \A c, d \in Calls : Conflict(c, d) => held[c] \intersect held[d] = {}

-----------------------------------------------------------------------------
(* The ring and the log it holds. *)

\* The current half holds every entry from cur_lo to the log's end, once each
\* and in order: an append that was given a slot wrote there and nowhere else.
CurHalf ==
    LET cur == heap[row.cur_slot]
    IN  /\ Len(cur) = row.last_seqno - row.cur_lo + 1
        /\ \A i \in 1 .. Len(cur) : cur[i].seqno = row.cur_lo + i - 1

\* The other half ends right below cur_lo, reaches down to the watermark at
\* least, and is empty when prev_hi says that it is.
PrevHalf ==
    LET prev == heap[prevSlot(row)]
    IN  /\ row.prev_hi = (IF prev = <<>> THEN 0 ELSE row.cur_lo - 1)
        /\ \A i \in 1 .. Len(prev) : prev[i].seqno = row.cur_lo - Len(prev) + i - 1
        /\ FirstSeqno <= row.cur_lo - Len(prev)
        /\ row.cur_lo - Len(prev) <= row.trim_upto + 1

\* The ring's inductive invariant: ring.go's arithmetic on the registry row
\* always describes what the two tables hold.
RingInv == row.trim_upto <= row.last_seqno /\ CurHalf /\ PrevHalf

\* Every entry above the watermark is in exactly one place of the ring: no
\* interleaving of appends, trims and reclaims loses, doubles or overwrites one.
EveryEntryOnce ==
    \A n \in row.trim_upto + 1 .. row.last_seqno :
        \E s \in Slots : \E i \in 1 .. Len(heap[s]) :
            \A t \in Slots : \A j \in 1 .. Len(heap[t]) :
                heap[t][j].seqno = n <=> <<t, j>> = <<s, i>>

\* Epochs are non-decreasing along a log (log.go, Entry), and none is above the
\* owner's: no append of a lower epoch lands after a fence has committed.
EpochsNeverFall ==
    /\ \A r \in Rows : r.epoch <= row.epoch
    /\ \A r, q \in Rows : r.seqno <= q.seqno => r.epoch <= q.epoch

-----------------------------------------------------------------------------
(* What a caller is told. *)

\* Session c's last call was op and has returned.
Returned(c, op) == pc[c] = "idle" /\ arg[c].op = op

\* A batch whose Append returned nil is in the log through its last seqno, under
\* the caller's epoch and with the caller's payload, for as long as no trim
\* passes it; a Fence that returned nil holds against every lower epoch.
NilIsDurable ==
    \A c \in Calls :
        /\ Returned(c, "append") /\ res[c] = "nil" =>
              /\ lastOf(arg[c].first, arg[c].count) <= row.last_seqno
              /\ \A i \in 1 .. arg[c].count :
                     Batch(c)[i].seqno > row.trim_upto => Batch(c)[i] \in Rows
        /\ Returned(c, "fence") /\ res[c] = "nil" => arg[c].epoch <= row.epoch

\* A writer that had already lost the log to a higher epoch when it called, or
\* when its UPDATE was refused, is told ErrFenced and nothing else: never an ack,
\* and never ErrAlreadyWritten, which it would take for one.
LostWriterIsFenced ==
    \A c \in Calls :
        Returned(c, "append") /\ res[c] # "invalid" /\ seen[c].owner > arg[c].epoch
            => res[c] \in {"ErrFenced", "driver"}

\* The refusals of an append from the strongest down.
Refusals == <<"ErrFenced", "ErrAlreadyWritten", "ErrGap">>

Outranks(r, q) == \E i, j \in 1 .. 3 : i <= j /\ Refusals[i] = r /\ Refusals[j] = q

IsRefusal(r) == \E i \in 1 .. 3 : Refusals[i] = r

\* appendRefused's second read names the refusal of the UPDATE or one above it,
\* as long as the log had been fenced at the caller's epoch.
RefusalOutranks ==
    \A c \in Calls :
        Returned(c, "append") /\ IsRefusal(res[c]) /\ IsRefusal(seen[c].refusal)
                              /\ seen[c].owner >= arg[c].epoch
            => Outranks(res[c], seen[c].refusal)

\* A fence that could not be explained met a log that was created between the
\* UPDATE and the second read: a fence lost to a higher epoch is always named.
FenceIsExplained ==
    \A c \in Calls :
        Returned(c, "fence") /\ res[c] = "unexplained"
            => seen[c].refusal = "ErrNoSuchLog" /\ created

\* A Trim that moved the watermark is never failed by the reclamation it could
\* not do, which Trim calls best-effort.
ReclaimIsBestEffort ==
    \A c \in Calls : Returned(c, "trim") => res[c] # "timeout"

\* No set of sessions waits on itself: the tables are locked before the row and
\* in slot order, by appends, reads and reclaims alike.
NoDeadlock ==
    \A S \in SUBSET Calls :
        (\A c \in S : \E d \in S : WaitsFor(c, d)) => S = {}

-----------------------------------------------------------------------------
(* What a read returns. *)

\* The read of session c answers in this step.
Answers(c) == pc[c] = "read.query" /\ pc'[c] = "idle" /\ res'[c] = "nil"

\* The seqnos the log now holds that session c's read asked for, limit apart.
Asked(c) == {n \in row.trim_upto + 1 .. row.last_seqno : n >= arg[c].first}

\* The seqnos the read of session c returns in this step.
Returns(c) == {r.seqno : r \in got'[c]}

\* A read returns one unbroken run of the log, however the ring turned between
\* its two statements: no hole, no entry twice.
ReadIsARun ==
    [][\A c \in Calls : Answers(c) =>
         \A r, q \in got'[c] :
             /\ r.seqno = q.seqno => r = q
             /\ \A n \in r.seqno .. q.seqno : \E x \in got'[c] : x.seqno = n]_vars

\* All a read can miss of its window is what a trim took while it ran.
ReadMissesOnlyTrimmed ==
    [][\A c \in Calls : Answers(c) =>
         {n \in Asked(c) : n < arg[c].first + arg[c].count} \subseteq Returns(c)]_vars

\* Fewer than limit entries means the log ends there.
ShortReadMeansTheEnd ==
    [][\A c \in Calls : Answers(c) =>
         \/ Cardinality(got'[c]) = arg[c].count
         \/ Asked(c) \subseteq Returns(c)]_vars

-----------------------------------------------------------------------------
(* The promise, and that every call ends. *)

\* One log as its callers see it: the ring and the locks left out.
Log == INSTANCE FencedLog WITH
           Payloads <- Calls,
           exists   <- created,
           owner    <- row.epoch,
           last     <- row.last_seqno,
           low      <- row.trim_upto,
           entries  <- {r \in Rows : r.seqno > row.trim_upto}

\* Every step of the store is a step of the promise or changes nothing of it: a
\* reclaim is invisible, a refused call leaves no trace, a batch is atomic.
ImplementsFencedLog == Log!Spec

\* Every call returns.
CallsReturn == \A c \in Calls : pc[c] # "idle" ~> pc[c] = "idle"

=============================================================================

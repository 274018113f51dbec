# pgnotch in TLA+

pgnotch keeps append-only, fenced logs in stock PostgreSQL. This directory models
it: what a caller may rely on, how the store keeps it with one registry row, two
tables and PostgreSQL's locks per log, and how the repository's own writer uses it.
TLC checks the models on small instances; TLAPS proves the properties that carry
the most weight for every value of the constants.

## The system

| part | state it keeps | operations | hard because | correct when |
|---|---|---|---|---|
| ring arithmetic, `ring.go` | none (functions of the row) | `prevEmpty`, `ringFull`, `canRotate`, `reclaimSteps` | boundaries; a rotation decided apart from the truncation it needs | the row always says what the tables hold |
| checks and refusals, `refuse.go`, `log.go` | none | `check*`, `fenceRefusal`, `appendRefusal` | the order of the cases is a promise | a lost writer is never given an ack |
| fencing and appends, `store.go` | registry row (epoch, last_seqno), entry tables | `Fence`, `Append`, `fenceRefused`, `appendRefused` | predicates tested on a snapshot and again under the row lock; a diagnosis by a second read; replies lost after the commit | no seqno written twice, no append of a lower epoch after a fence, an ack is durable |
| trim and reclaim, `store.go` | watermark, current half, `cur_lo`, `prev_hi` | `Trim`, `reclaim` | four statements with other sessions between; lock order; lock timeouts; a crash at any of them | nothing above the watermark is ever lost, reclaim is invisible |
| reads, `store.go` | none | `ReadFrom`, `NextSeqno` | two statements, and the ring turns between them | a read is one run of the log, and misses only what was trimmed |
| creation and schema, `store.go`, `schema.go`, `migrations/` | registry, ordinals, tables, version table | `CreateLogs`, `Migrate`, `Open`, `Drop`, `Provider` | creators that wait for one another's rows; a Drop that lists first and drops later; ordinals that start again | all ids or none, no two logs on one table, no row without its tables |
| statement cache, `store.go` | `Store.appends` under a mutex | `appendFor`, `remember` | filled by goroutines between a look and a write; stale after a Drop | a statement names its own log's tables |
| integers, `store.go`, `ring.go` | none | conversions between uint64 and bigint | arguments in the upper half of the range, subtractions that wrap | the log does what the contract says for every argument |
| chunks, `store.go`, `writer.go` | none | `chunkArrays`, `chunksOf`, the loop of `ReadFrom`, `record` | int16 chunk numbers, empty payloads, whole multiples | what is read is what was written, and counted |
| load writer, `cmd/pgnotch-load/writer.go` | `next`, `trimmed`, the batch, `fresh` | `claim`, `locate`, `run`, `append`, `resync`, `trim` | every call may be lost, answered in vain, or carried out late | its mark never passes the log's end, an ack is for its own batch |
| load driver, `main.go`, `stats.go` | writers, the run's context, the failures channel, counters | `prepare`, `drive`, `report`, `record`, `note`, `snapshot` | failure of one writer ends all; totals read while writers end; readings of moving counters | the run returns, with the truth, and nobody left running |
| pacing, `rate.go` | due time | `schedule`, `wait` | late slots: repaid they are a burst, dropped they hide the rate | the rate is neither exceeded nor silently missed |
| histogram, `stats.go` | buckets | `observe`, `snapshot`, `bucketOf`, `quantile` | buckets copied while they move; the join of values and octaves | a quantile is that of the window's samples |
| sizes and corpus, `sizes.go` | classes, running totals, corpus | `parseSizes`, `draw`, `mean`, `chunked`, `payload` | overflow, off by one in the search | drawn as asked and as announced |

Sessions meet in PostgreSQL only: two Stores, or two processes, over one schema are
two writers of the same logs. So the model has sessions, each running one Store
call at a time, and the shared state is the database's.

## Modules

| module | what it is |
|---|---|
| `Rules` | the pure functions of `ring.go` and `refuse.go`, an error being the identity `errors.Is` tells apart |
| `FencedLog` | the contract (`doc.go`): one log with an owner, an end, a watermark and its entries; `Own`, `Grow`, `Cut` |
| `LogStore` | one log of a Store and the sessions that call it; extends `Rules`, implements `FencedLog` |
| `LogStoreProofs` | theorems about `LogStore`: types, locks, ring |
| `ContractProofs` | theorems about `LogStore`, on top of those: what callers are told and read, and that it implements `FencedLog` |
| `LoadWriter`, `LoadWriterProofs` | runs of the load tool over `FencedLog`, and the theorems about them |
| `Registry` | the schema: `Migrate`, `CreateLogs` of a batch, `Drop` and the down migration |
| `StatementCache` | Stores and their goroutines over `Registry`, which it extends: what `appendFor` and `remember` cache across a Drop |
| `RegistryProofs` | theorems about `Registry` and, on top of those, `StatementCache` |
| `Width` | one log with integers of the code's width, any words as arguments; extends `Rules`, implements `FencedLog` |
| `Chunks` | payloads to rows and back |
| `LoadRun`, `LoadRunProofs` | one run of the load tool: `drive`, its writers, the counters and the reporter |
| `Pacer` | a writer's schedule |
| `Histogram` | the latency histogram, filled and read |
| `Sizes` | the `-sizes` flag, its draws, plan and corpus; extends `Chunks` for the rows an entry becomes |
| `SumTheorems` | lemmas about sums over finite sets, which the next two use |
| `SizesProofs` | theorems about `Chunks` and `Sizes` |
| `PartsProofs` | theorems about `Pacer`, `Histogram` and `Width` |
| `MCLogStore`, `MCLoadWriter`, `MCRegistry`, `MCStatementCache` | symmetry, view and constants for TLC |
| `MCParts` | `Chunks`, `Width`, `Pacer`, `Histogram` and `Sizes` for TLC, one of them moving |

Definitions named as variants (`prevEmptyEarly`, `AppendRowUntested`, ...) are the code
as a plausible bug would have it: each property is checked to fail with one of them in
place, and no specification uses them.

### LogStore and the code

`row` is the registry row, `heap[s]` the rows of `pgnotch_entries_<ordinal>_<s>`, and
`created` whether the registry has the log. A call is cut where another session can
come between:

* `Fence`: the check and the snapshot test (`FenceScan`: a row whose snapshot version
  does not satisfy the WHERE is not waited for), the row lock and the test on the row
  as it now is (`FenceRow`), the commit (`FenceCommit`), or the second read
  (`FenceDiagnose`);
* `AppendBatch`: the checks and the look-up, both tables in slot order (`LockTable`),
  then as above. The claim and the rows are one statement, so one step
  (`AppendCommit`); the half is the one the row names under the lock;
* `Trim`: the row lock (`TrimRow`), the watermark's commit with the gate of `reclaim`
  (`TrimCommit`), then the tables if a truncation is wanted (`LockTable`), the row
  again (`ReclaimRow`) and the truncation and rotation that the row as it now is allows
  (`ReclaimCommit`). `ReclaimTimeout` is the 250 ms lock timeout: on the tables it is
  swallowed, on the row it is not;
* `ReadFrom`: the row, then the tables, then the query (`ReadQuery`).

PostgreSQL is modelled by how this code uses it (marked external in the map). An
uncommitted transaction is invisible, so its writes happen at its commit and until then
it is only its locks; ACCESS EXCLUSIVE conflicts with the other modes used, which do not
conflict with each other; READ COMMITTED re-evaluates an UPDATE's predicate on the row
it waited for. `Failure` is a broken connection, a cancelled context or a server crash
before the commit; after it the reply alone is lost (`CommitReplies`). A statement that
commits after its caller has given up is a session that is still running: nothing ties
the caller's next call to the same session.

`seen` is a history variable: the owner when the call began or when its UPDATE was
refused, and what that refusal would have been called. `got` and `res` are what the
caller is given.

### LoadWriter and the code

The store is its contract: a call takes effect at one point (`Serve`), which
`ImplementsFencedLog` justifies for the changes and `LostWriterIsFenced` and
`RefusalOutranks` for the answers. `GiveUp` is the call's deadline or a broken connection, and
what was given up on may still happen (`Late`), also after the run has died (`Stop`).
`Claimed`, `Located`, `Slot`, `Appended`, `Resynced` and `Trimmed` are the code between
two calls. The writers of one run have a log each and share only counters, so
the model has one log and several runs.

`RunsDoNotInterleave` says of two runs what fencing is for: once another run's entry
follows a run's, that run writes no more, not even by a call that comes late. It holds
for epochs that grow.

### Registry, StatementCache and the code

`CreateLogs` goes through its batch row by row (`InsertRow`): an id whose row another
transaction has inserted is waited for, and when that transaction rolls back the id is
this one's to insert. Every row tried draws an ordinal, which no rollback gives back;
an identity that has none left (`MaxOrdinal`) fails the statement, a bound no run meets.
Then the tables of the rows that went in (`CreateTables`), and one commit, of which the
caller may hear nothing. A creator holds a lock on the registry, so the DROP of
`DropTables` waits for it, and a creator that comes while a Drop is queued
(`LockRegistry`) waits behind it. `Drop` lists the tables in one statement and drops
them in another, with nothing held in between. The down migration (`Down`) does both in
one transaction, so from its listing on it shares the registry: creators may still come,
another Drop waits for it, and of two down migrations each waits for the other until
PostgreSQL fails one. A dropper is taken to get the locks of the entry tables with the
registry's: nobody in this module waits for those. `Migrate` makes a new registry, whose ordinals start at one, and
`gen` counts the registries. A wait cycle is PostgreSQL's to break
(`DeadlockDetected`), and `Rollback` is any other failure. goose's version table comes and
goes with the registry and is left out.

`StatementCache` adds Stores and goroutines. An append whose statement is cached goes
straight to it (`Begin`); any other, and every fence, asks the registry (`LookUp`), looks
under the read lock (`Remember`) and writes under the exclusive one (`StoreStatement`).
`held[o]` is what the tables of ordinal o hold, an entry being the log and the registry
it was meant for. `survived` and `disturbed` are histories of what `Drop`'s comment
asks callers not to do.

### Width, Chunks and the code

In `Width` a Seqno or Epoch is a word of `W` bits, the registry's columns signed words,
and `int64` and `uint64` the conversions of Go. One caller makes one call at a time, with
every word as every argument; `AppendMatches`, `Watermark`, `readLo` and `readHi` are the
expressions of the code in that arithmetic. A log is far shorter than half the range.
`Promised` is the reference for a read, `FencedLog` for the changes.

In `Chunks` a byte is its payload and its offset, so one out of place shows. `Scan` is an
iteration of `ReadFrom`'s loop over rows in the order the query asks for.

### LoadRun, Pacer, Histogram, Sizes and the code

`LoadRun` cuts `record` at every addition and `snapshot` at every load, since these are
separate atomics; a writer's calls are answered anything. Two of `record`'s five counters,
bytes and cut, are left out: they are added to and read as the other three. An append
that fails is two steps, its return (`AppendFails`) and the question whether the run has
ended (`File`), between which a signal or another writer may end it; a trim or a read that
fails is noted without that question (`CallFails`). `SendFailure` and `CancelRun`
are the two statements of the goroutine's failure path, `Finish` what `drive` does after
`wg.Wait`. `truth` and `lost` are histories: what the appends answered nil wrote, the
errors as each call returned them (of an append, only while the run went on), and the
writers told `ErrFenced`. A batch that landed under a lost answer is in the log and, as
`stats.go` says, not in the totals: `TotalsAreExact` is about answered appends.

`Pacer` has the clock tick whatever the writer does: an append takes any time and a
timer fires at its time or later. The bound on slots stops the issuing of slots and
nothing else, so `CancelEndsTheWait` asks of a writer at its bound, late for everything
it has left, that it end without one more slot: that is `wait`'s question before a slot
that is due. `Histogram` keeps the samples no reading has caught yet
(`waiting`) and those the reading under way has (`window`) as histories, against which a
line's quantiles are compared; a quantile is a ratio of integers here and a float64 in the
code. `Sizes` reads a flag field by field, a field being what its parts parse as, in ints
that wrap at a small `IntMax`; random numbers are any numbers.

## Runs

`load`, `run` and `parts` do not check deadlock: a run of the tool may end for good, a
batch is read to its end, the clock and the samples are bounded. All others do.

| run | bounds | shows |
|---|---|---|
| `ring` | 2 sessions, epochs 1-2, batches 1-2, seqnos to 3, trims to 1 and 2, limits 1 and 3, rotation at every entry | `RingInv`, `EveryEntryOnce`, `EpochsNeverFall`, `NoDeadlock`, `TableLockInv`, `ReadIsARun`, `ReadMissesOnlyTrimmed`, and the refinement `ImplementsFencedLog` |
| `refusals` | 2 sessions, epochs 1-2, batches 0-2, seqnos to 2, trims to 0 and 1 | `TypeOK`, `RowLockInv`, `NilIsDurable`, `LostWriterIsFenced`, `RefusalOutranks`, `FenceIsExplained`: what a caller is told, malformed arguments and a log created meanwhile included |
| `returns` | 2 sessions, every kind of call, seqnos to 2 | `CallsReturn` |
| `load` | 2 runs with growing epochs, batch 1, seqnos to 3, 2 batches a run | `NoGap`, `AckIsForOwnBatch`, `RetainedIsKept`, `RunsDoNotInterleave` |
| `creators` | 2 sessions, 2 ids in both orders, one twice and none, 2 registries, dropped either way | `OrdinalInv`, `TablesMatchRows`, `NilMeansAllExist`, `CreatorsReturn` |
| `cache` | 2 Stores, 2 goroutines, a session that creates and drops, 2 ids, 2 registries | `StatementNamesOwnTables`, `LogHoldsItsOwn` |
| `run` | 2 writers, 2 slots, batches of 1 or 2 rows, 1 line before the totals | `TotalsAreExact`, `FailuresAreCounted`, `WindowsNeverWrap`, `ErrorTellsWhatHappened`, `RunEnds` |
| `parts`, chunks | payloads of 0 to 9 bytes in batches of 2, chunks of 2 bytes numbered in 3 bits | `RoundTrip`, of which `ComesBackWhole` and `RecordAgrees` are the parts |
| `parts`, words | words of 4 bits, epochs 0, 1, 7, 8, 15, every seqno, trim and limit | `WordsAgree`, `AnswersAreTrue`, `LogOfWords` |
| `parts`, pacer | a slot every 2 ticks, 3 of catch-up, 13 ticks, 6 slots | `EverySlotIsAccounted`, `BurstIsBounded`, `CancelEndsTheWait` |
| `parts`, histogram | 6 octaves, 8 durations at their boundaries, 3 samples, 2 lines | `QuantilesNameTheSamples` |
| `parts`, sizes | 3 fields of 4 numbers, 2 units and 6 weights, malformed ones included and one, the largest int, whose sum with any other wraps | `DrawnAsAsked`, `PlanTellsTheLoad` |
| `short_read`, `best_effort`, `batch_once`, `wide_trim` | as small as shows it | violations, see Findings |

`parts` is one run of five independent modules. They share no variable; `part`, chosen in
the initial state, says which one moves, and the others stay where they start, so the
run meets exactly the states each of them has.

Why the bounds are enough to be interesting. Three seqnos with a rotation at every entry
turn the ring twice, so each half has been current, other, and emptied. Two epochs are
an owner and a successor. Two sessions give every pair of calls, each of them making
any number of calls while the other is in one. What the bounds cannot show, more
sessions (two waiters on one lock), longer logs, other thresholds, the theorems cover
for the properties they are about. `RotateAfter = 1` is the harshest threshold for the ring: it
may turn after every append. In `creators` two ids suffice for a circle of waits, and two
registries for tables listed in one and dropped in the other. In `run` two slots are
enough for two writers to lose their logs, or for one to trim while the other records.
In `parts` the width, the chunk numbers, the octaves and the largest int are scaled
down with every limit that is compared with them, and both sides of each boundary are
among the inputs.

Sessions are symmetric: nothing orders them, and a payload is the name of the session
that sent it. `Future`, the VIEW of some runs, leaves out the history variable, the
answers and the arguments of calls that have returned: no later step reads them and
neither does a property of those runs (the action properties on reads look only at what the
step itself returns). `returns` uses neither. `cache` has goroutines and Stores alike,
and its view leaves out how the creator's last call returned and, there being one
session, whether it drops by `Drop` or by the down migration. `creators`, `run` and
`parts` check liveness and use neither symmetry nor a view.

Fairness. `FairSpec` is strong fairness of each session's next step. PostgreSQL queues
waiters for a lock, and grants a lock in the order of its queue, so a session cannot be
passed over for ever; a lock that is free again and again is what SF speaks of, where weak
fairness would let a session starve that PostgreSQL does not. Callers are under no
obligation to call and failures are under none to happen, so no call is rescued by a
broken connection. The lock timeout is a step of the session like the others: it ends
a reclaim's wait only, and an append, a fence or a read has no timeout of its own to
return by.

`Registry` has the same: strong fairness of a session's next step, which stands for
PostgreSQL waking every waiter when a transaction ends and breaking every circle of waits.
That a Drop is not overtaken for ever is no fairness assumption but the lock queue
itself (`DropQueued`). `LoadRun` assumes weak fairness of goroutines, whose calls all
have a deadline and so return, and strong fairness of the reporter's `ctx.Done()` case: Go's
select chooses at random among ready cases, so it does not pass over one for ever. No
slot need ever come and nobody need stop the run. `Pacer` assumes weak fairness of the
writer's own steps, and neither that the clock moves nor that a timer fires. A timer that
fires together with the run's end may win Go's select, at most until the bound on slots is
met; the code has no such bound and its select chooses at random.

## Findings

* `short_read`. `ReadFrom` bounds its window by the watermark its first statement saw.
  A trim that truncates a half in between leaves the window short, even empty, though
  the log goes on, while the doc comment has a short read mean the end of the log.
* `best_effort`. `SET LOCAL lock_timeout` also covers reclaim's wait for the registry
  row, where 55P03 is not taken for `errLockUnavailable`: `Trim` reports a failure for
  a trim that has happened.
* `batch_once`. The load writer takes `ErrAlreadyWritten` for "not done", so a batch
  acked that way is sent again at the next seqno and is in the log twice.
* `wide_trim`. `Trim` takes an unsigned seqno and passes it on as `int64(upTo)`. From 2^63
  on it is negative, the watermark stays, and `Trim(math.MaxUint64)` removes nothing and
  returns nil.

Other places where the modules follow the code and a comment says a little more.
`ReadFrom` computes its window in unsigned words and passes both ends on as int64. A
`from` near 2^64 with a small limit is a window from a small negative number to a small
positive one, and the read returns entries below `from`; a `from` of 2 with the largest
limit ends at a negative number, and the read is empty though the log goes on.
`AnswersAreTrue` therefore asks that a read be exact where its window stays below the upper
half of the range, that it have no entry too many where its window does not wrap, and
nothing of one that wraps. It lets a fence at an epoch from 2^63 on, which never takes the
log, be refused without a reason. A payload of
more than 32768 chunks cannot be read back (`ComesBackWhole` asks that chunk numbers
fit). `appendRefused`'s second read can weaken a refusal, against its comment, for an
epoch nobody had fenced yet (`RefusalOutranks` asks that it had been). Overlapping
`CreateLogs` in opposite orders may fail one of the two with PostgreSQL's 40P01, though
both return and nothing is half created. Two runs of the load tool started within
one second share an epoch, and their entries interleave (`RunsDoNotInterleave` and
`AckIsForOwnBatch` are for distinct epochs). A log created between the two statements of a
Drop leaves tables behind that no registry names, and a Store that outlives a Drop may
append to a later log's tables: `Drop`'s comment asks callers to do neither, and
`TablesMatchRows`, `StatementNamesOwnTables` and `LogHoldsItsOwn` are about callers who
keep to it. A report line may show an
append's entries and not yet its rows; the next line has them. A trim or a resync that
the end of the run cuts off counts as an error, and an append that failed just before
the end may not be counted, one of each writer at most (`FailuresAreCounted`). The sum of the `-sizes` weights is not
checked: where it overflows, classes are not drawn in proportion to their weights, or the
first draw panics (`DrawnAsAsked` and `PlanTellsTheLoad` ask for `WeightsFit` where it matters).
The sum of bytes times weights behind the announced mean is not checked either (`BytesFit`).

## Proofs

Eight modules hold the proofs. They are for every value of the constants: any set of
sessions, runs, Stores, goroutines or writers (finite only where the code counts
them), any epochs, batches, trims and limits, any rotation threshold of at least one,
any interval and catch-up, any word of at least three bits, any chunk size, octaves,
units and limits. They rest on the named assumptions about constants in the modules
they are about, which TLC evaluates in every run that uses them. Three of those are
arithmetic the provers do not have: `PowersOfTwo` in `Width`, `ChunkNumbers` in `Chunks`
and `PowersAssumption` in `Histogram` state the powers of two a module uses as doublings.

Every safety property the passing runs check is a theorem. A theorem about `P` is named
in PROJECT.json with `P`.

### LogStoreProofs

* `TypeCorrect`: `TypeOK`, which is inductive. Besides the types it says that a call
  past its checks has the arguments they admit and that its log is there;
* `RowLockCorrect`: `RowLockInv`, inductive together with `TypeOK`. The session that
  holds the row is alone, so the predicate it tested is still true when it commits;
* `TableLockCorrect`: `TableLockInv`, inductive together with `TypeOK`;
* `DeadlockFree`: `NoDeadlock`, from `TableLockInv`. A session that waits for the row holds
  tables at most, one that holds the row waits for nothing, and tables are taken in slot
  order: so any set in which everybody waits for a member is empty (`LockOrder`);
* `RingCorrect`: `RingInv`, inductive together with `TypeOK` and `RowLockInv`.
  `EveryEntryOnce` alone is not inductive: that a truncation is harmless rests on which
  seqnos the other half holds, that a rotation is harmless on `prev_hi = 0` meaning an
  empty half, and that an append continues the current half on the row being what the
  append tested. `CurHalf` and `PrevHalf` say the first two, `RowLockInv` the third;
* `NothingLostNothingDoubled`: `EveryEntryOnce`, from `RingInv`.

### ContractProofs

First, every step of `LogStore` does one of a few things to the set of entries: nothing,
a new owner, a batch at the end, a cut at the start, or a truncation of what was cut
already. The later proofs go by these kinds rather than by action.

* `NewLogCorrect`: `NewLog`, that a log nobody has created is a new one. Without it
  creation could not be the contract's `Create`;
* `EpochsCorrect`: `EpochsNeverFall`, inductive given `RingInv`: a batch is above every
  entry there is and is written at the owner's epoch;
* `DurableCorrect`: `NilIsDurable`, which needs that a truncation removes only rows at or
  below the watermark, again `RingInv`;
* `ToldCorrect`: `ToldInv`, from which `LostWriterCorrect`, `RefusalCorrect` and
  `FenceExplained` follow. What callers are told is not inductive alone: `ToldInv` keeps
  what a call saw when it began and when its UPDATE was refused (`seen`) below the row as
  it now is, since epochs and ends only grow, so that the second read can only find a
  refusal as strong;
* `ReadIsARunCorrect`, `ReadMissesOnlyTrimmedCorrect`: action properties, from `RingInv`:
  the rows between two bounds in the two halves are consecutive wherever the ring has
  turned to since the first statement;
* `ImplementsContract`: the refinement. `Init` maps to `Init`, `FenceCommit` to `Own`,
  `AppendCommit` to `Grow`, `TrimCommit` to `Cut`, creation to `Create`, and `ReclaimCommit`
  and everything else to a stutter.

### LoadWriterProofs

* `NoGapCorrect`, `RetainedIsKeptCorrect`: from `MarkOK`. A run's `next`, and any end of the
  log it was told, is at most one above the end, and every trim, made or still to come
  late, leaves `Retain` entries;
* `RunsDoNotInterleaveCorrect`: from `OrderOK`, that epochs follow seqnos and no entry has an
  epoch above the owner's, with the hypothesis `DistinctEpochs`. `main.go` asks for it
  ("strictly greater on each run") and its clock in seconds does not quite give it, see
  Findings; where two runs share an epoch the conclusion is false;
* `AckIsForOwnBatchCorrect`: from `RunsInv`, under the same hypothesis. A writer told
  `ErrAlreadyWritten` must find its own batch at that seqno. That takes four facts about
  each run, `RunOK`: past its claim the owner is its epoch or a higher one (`HeldOK`); its
  late appends are at its mark or below it, and one at the mark carries the batch it has
  (`LateOK`); what it was told of the batch at its mark (`AckOK`); and while it owns the
  log, only its own batch is above its mark (`OwnedOK`). TLC checked them on the instance
  of `load` before they were proved.

### RegistryProofs

* `OrdinalInvCorrect`: from `RegistryInv`: rows, committed or not, have ordinals below
  the next and no two the same, and a session about to commit has made the tables of
  its rows;
* `TablesMatchRowsCorrect`: from `TablesOK`, which adds that a Drop under way has listed
  every table, unless a log was created since;
* `NilMeansAllExistCorrect`: an action property. `BatchOK` says that every id a creator has
  gone past is registered or its own to commit, which a Drop cannot undo because a
  creator holds its lock on the registry;
* `StatementNamesOwnTablesCorrect`, `LogHoldsItsOwnCorrect`: from `CacheInv`, `RegistryInv`
  with what every Store and goroutine holds. A goroutine between a look and a write may
  have been overtaken by a Drop, and then its Store is of an older registry.

### LoadRunProofs

* `WindowsNeverWrapCorrect`: every field of the previous reading, and of the reading under
  way, is at most its counter, and counters only grow;
* `ErrorTellsWhatHappenedCorrect`: a writer told `ErrFenced` has its error in the channel
  before it is done, and the channel has room for all;
* `TotalsAreExactCorrect`: from `DebtOK`, that for each counter what answered appends
  wrote is what was counted and what the writers still owe it. The debt is a set, a unit
  being a writer and a number, and its cardinality the sum. When `wg.Wait` returns nobody
  owes anything;
* `FailuresAreCountedCorrect`: from `MissedOK`. As long as the run goes on, the errors that
  are not counted yet are those of the writers between the two steps of a failing append;
  once it has ended a writer adds no more to them, and each has at most one.

### SumTheorems

What `SumFunctionOnSet` of the community modules computes. It is defined by recursion on
a set, and no theorem with an operator as a parameter can be used here, so induction is
by a least counterexample: a well-founded relation has a minimal element (`WFMin`) in
every set of naturals (`LeastNatural`) or of subsets of a finite set (`LeastSubset`) that
is not empty. `UnfoldUnique` says that way that the recursion has one solution, and
`SumOfParts` that the number of elements of a disjoint union is one: a sum of naturals is
a cardinality, of `UnitsOf`, and what is needed of sums (`SumSplits`, `SumSame`,
`SumGrows`, `SumOfOneMore`) follows from facts about finite sets.

### SizesProofs

* `RoundTripCorrect`: from `ChunksInv` (`ScanReads`). What the scan has put together is a prefix of the
  batch, the whole of the entries before the last and the first chunks of that, and the
  rows it has still to see are all the others, whose chunk numbers, as long as they fit,
  are in the order of the chunks (`At`).
  The rows of a batch (`RecordIsRight`) are a disjoint union of those of its payloads,
  of which there are `ChunkCount` each, and two exactly where a payload is cut;
* `DrawnAsAskedCorrect`: from `SizesInv`, in which the running totals are prefix sums of
  the weights as long as these add up to an int (`TotalsOK`). The search is a recursive
  function on spans, and that it finds the first running total above the draw goes by
  the length of the shortest span on which it would not (`SearchFinds`); for totals that
  have wrapped, and are in no order, it still finds a class. A class's draws are then
  the interval between two prefix sums (`DrawFacts`), as long as its weight;
* `PlanTellsTheLoadCorrect`: summed over classes or over draws, the units are the same set
  (`MeanOfDraws`, `ChunkedDraws`), and a sum that is an int is its own word.

### PartsProofs

`Pacer`:

* `EverySlotIsAccountedCorrect`: from `AccountOK`, which counts a sleeper's slot as taken
  and compares the slots taken with the intervals before the next due time; a restart
  adds at least the intervals it gives up on and loses at most one (`DivSum`);
* `BurstIsBoundedCorrect`: from `DueOK`, which bounds the next due time from below by every
  slot issued but the last, of which nothing is known until the next is looked at: an
  append may take any time and a timer may fire late.

`Histogram`:

* `QuantilesNameTheSamplesCorrect`: from `HistogramInv`. For a bucket the reading has
  passed, what it has gained since the reading before is what the window has caught in it;
  for one it has not, the window has nothing of it yet; and the rest of the bucket is
  waiting. So a complete reading counts the window by bucket (`Counts`). Buckets are in
  the order of their counts (`BucketsInOrder`), so the bucket at which the counts reach
  a rank is that of the sample of this rank (`ReachesTheSame`), and a bucket is at most a
  quarter of its least count wide (`BucketFacts`).

`Width`:

* `WordsAgreeCorrect`: from `WordInv`, the order of the row's numbers and that no entry
  above the watermark is missing. The one place that wraps, `last_seqno - cur_lo` on an
  empty half, comes back when one is added (`WrapsBack`);
* `AnswersAreTrueCorrect`, `LogOfWordsCorrect`: from `WordInv`. An append the statement matches
  starts at the log's end whatever its words are (`MatchFacts`), a fence the statement does
  not match has a higher owner or is negative (`FenceAnswers`), and a negative watermark is
  clamped to where it was. A window that reaches into the upper half and does not wrap has
  a negative end and finds nothing (`ReadWide`).

### Only model-checked

Liveness (`CallsReturn`, `CreatorsReturn`, `RunEnds`, `CancelEndsTheWait`): temporal
reasoning from fairness, and the ENABLED it speaks of, are out of the prover's reach.
The four violations are TLC's counterexamples.

## Not modelled

goose is a library, and of it only that a migration is one transaction matters here: its
version table and the options `Provider` passes are left out. `parseFlags`, `openPool` and
the text of the plan and report lines are input and output; what they are computed from
is in `Sizes`, `LoadRun` and `Histogram`. PostgreSQL's storage and costs are what
`cost_test.go` measures and no matter of correctness. The rounding of float64 in `quantile`
and `mean` is left out: both are ratios of integers here. The names of tables and the
quoting of identifiers are abstracted to ordinals.

## Plan

Done: the modules above with their runs, and the proofs of every safety property the runs
check. What would extend them:

1. Runs of `LogStore` with three sessions, should a change of the code give a lock a
   second kind of waiter; the theorems do not depend on their number.
2. The lock queue of `Registry` in `LogStore`, for an argument that `CallsReturn` needs
   no more of PostgreSQL than the order of its queues.
3. The float64 of `quantile` and `mean`, as intervals around the ratios used here.

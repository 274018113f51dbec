-------------------------------- MODULE Chunks --------------------------------
(***************************************************************************)
(* How a batch becomes entry rows and how a read puts them together again:  *)
(* chunksOf and chunkArrays on the way in, the loop of ReadFrom on the way  *)
(* out, and the rows the load tool counts for it.                           *)
(*                                                                         *)
(* A byte is where it came from, its payload and its offset, so that any    *)
(* byte out of place shows.  Chunk numbers are words of the width the       *)
(* smallint column has.  Rows with equal keys come in any order.            *)
(***************************************************************************)
EXTENDS Integers, Sequences, FiniteSets, FiniteSetsExt

CONSTANTS
    MaxEntryChunk,  \* the bytes one row carries
    ChunkBits,      \* the bits of a chunk number
    Lengths,        \* the lengths of payloads
    MaxBatch        \* bound: payloads to a batch

ASSUME ChunkAssumption == MaxEntryChunk \in Nat \ {0} /\ ChunkBits \in Nat \ {0}
\* What the proofs use of 2^ChunkBits, the provers having no theory of powers.
ASSUME ChunkNumbers == /\ 2^(ChunkBits - 1) \in Nat \ {0}
                       /\ 2^ChunkBits = 2 * 2^(ChunkBits - 1)
ASSUME LengthsAssumption == Lengths \subseteq Nat /\ MaxBatch \in Nat \ {0}

VARIABLES
    payloads,  \* the batch, a sequence of payloads
    todo,      \* the rows the read has still to scan
    entries,   \* the entries it has put together
    failed     \* whether it has given up

chunkVars == <<payloads, todo, entries, failed>>

\* The payload of length n at position i of its batch.
Payload(i, n) == [k \in 1 .. n |-> <<i, k>>]

-----------------------------------------------------------------------------
(* In. *)

\* The rows of a payload of n bytes: an empty payload has one.
ChunkCount(n) ==
    Max({1, (n + MaxEntryChunk - 1) \div MaxEntryChunk})

chunksOf(payload) ==
    IF Len(payload) <= MaxEntryChunk
    THEN <<payload>>
    ELSE [c \in 1 .. (Len(payload) + MaxEntryChunk - 1) \div MaxEntryChunk |->
             SubSeq(payload, (c - 1) * MaxEntryChunk + 1, Min({c * MaxEntryChunk, Len(payload)}))]

\* Variant: chunks are numbered from one.
int16FromOne(n) == n + 1

\* Go's int16(n), on a word of ChunkBits.
int16(n) ==
    LET word == n % 2^ChunkBits
    IN  IF word >= 2^(ChunkBits - 1) THEN word - 2^ChunkBits ELSE word

\* The rows of a batch that starts at seqno 1.
chunkArrays(batch) ==
    UNION {{[seqno |-> i, chunk |-> int16(c - 1), part |-> chunksOf(batch[i])[c]] :
               c \in DOMAIN chunksOf(batch[i])} : i \in DOMAIN batch}

\* What the load tool's record counts for the batch.
recordRows(batch) == SumFunction([i \in DOMAIN batch |-> ChunkCount(Len(batch[i]))])
recordCut(batch)  == Cardinality({i \in DOMAIN batch : ChunkCount(Len(batch[i])) > 1})

-----------------------------------------------------------------------------
(* Out. *)

\* ORDER BY seqno, chunk.
Before(r, q) == r.seqno < q.seqno \/ (r.seqno = q.seqno /\ r.chunk < q.chunk)

\* Row r belongs to the entry put together last.
Continues(r) == entries # <<>> /\ entries[Len(entries)].seqno = r.seqno

\* Row r comes next and starts an entry, or continues the one above it.
Scan(r) ==
    /\ ~failed /\ \A q \in todo : ~Before(q, r)
    /\ todo' = todo \ {r}
    /\ \/ /\ r.chunk = 0
          /\ entries' = Append(entries, [seqno |-> r.seqno, payload |-> r.part])
          /\ UNCHANGED failed
       \/ /\ r.chunk # 0 /\ Continues(r)
          /\ entries' = [entries EXCEPT ![Len(entries)].payload = @ \o r.part]
          /\ UNCHANGED failed
       \/ /\ r.chunk # 0 /\ ~Continues(r)
          /\ failed' = TRUE /\ UNCHANGED entries
    /\ UNCHANGED payloads

-----------------------------------------------------------------------------
\* Any batch, written whole.
ChunksInit ==
    /\ \E n \in 1 .. MaxBatch : \E length \in [1 .. n -> Lengths] :
          payloads = [i \in 1 .. n |-> Payload(i, length[i])]
    /\ todo = chunkArrays(payloads)
    /\ entries = <<>> /\ failed = FALSE

ChunksNext == \E r \in todo : Scan(r)

ChunksSpec == ChunksInit /\ [][ChunksNext]_chunkVars

-----------------------------------------------------------------------------
\* The chunk numbers of every payload fit their column.
Fits == \A i \in DOMAIN payloads : ChunkCount(Len(payloads[i])) <= 2^(ChunkBits - 1)

\* What the log holds of the batch once the read is through.
Whole == [i \in DOMAIN payloads |-> [seqno |-> i, payload |-> payloads[i]]]

\* Entries go in whole and come back whole, empty ones and exact multiples of
\* the chunk included, as long as the chunk numbers fit; and what the read has
\* so far is always the beginning of it.
ComesBackWhole ==
    Fits =>
        /\ ~failed
        /\ todo = {} => entries = Whole
        /\ \A i \in DOMAIN entries :
              /\ entries[i].seqno = i
              /\ \A k \in DOMAIN entries[i].payload : entries[i].payload[k] = payloads[i][k]
              /\ i < Len(entries) => Len(entries[i].payload) = Len(payloads[i])

\* The rows the load tool reports are the rows the batch became, and the
\* entries it reports as cut the ones of several rows.
RecordAgrees ==
    LET rows == chunkArrays(payloads)
    IN  /\ Cardinality(rows) = recordRows(payloads)
        /\ recordCut(payloads) =
              Cardinality({i \in DOMAIN payloads :
                  \E r, q \in rows : r.seqno = i /\ q.seqno = i /\ r # q})

\* What chunksOf makes of a batch is what the load tool counts for it, and what
\* ReadFrom puts together again.
RoundTrip == ComesBackWhole /\ RecordAgrees

===============================================================================

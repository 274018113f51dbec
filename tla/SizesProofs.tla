------------------------------ MODULE SizesProofs ------------------------------
(***************************************************************************)
(* Proofs about Chunks and Sizes, for every size of a chunk, width of a chunk*)
(* number and of an int, batch of payloads and -sizes flag: what a read puts*)
(* together is what went in, what the load tool counts of a batch is what is*)
(* stored of it, and what a flag asks for is what is announced and drawn.   *)
(***************************************************************************)
EXTENDS Sizes, SumTheorems, SequenceTheorems, TLAPS

(* Arithmetic. *)

LEMMA MaxOfTwo == \A a, b \in Int : Max({a, b}) = IF a >= b THEN a ELSE b
BY DEF Max

LEMMA MinOfTwo == \A a, b \in Int : Min({a, b}) = IF a <= b THEN a ELSE b
BY DEF Min

\* The bytes n full chunks hold.
Bytes(n) == n * MaxEntryChunk

LEMMA BytesStep ==
    /\ Bytes(0) = 0 /\ Bytes(1) = MaxEntryChunk
    /\ \A n \in Int : Bytes(n) \in Int /\ Bytes(n + 1) = Bytes(n) + MaxEntryChunk
BY ChunkAssumption DEF Bytes

LEMMA BytesOrder ==
    ASSUME NEW m \in Int, NEW n \in Int, m < n PROVE Bytes(m) + MaxEntryChunk <= Bytes(n)
BY ChunkAssumption DEF Bytes

LEMMA DivBytes ==
    \A a \in Nat : /\ a \div MaxEntryChunk \in Nat
                   /\ Bytes(a \div MaxEntryChunk) <= a
                   /\ a < Bytes(a \div MaxEntryChunk) + MaxEntryChunk
BY ChunkAssumption DEF Bytes

\* The chunks of n bytes hold them, and all of them but the last are full.
LEMMA CountFacts ==
    ASSUME NEW n \in Nat
    PROVE  LET k == ChunkCount(n)
           IN  /\ k \in Nat \ {0} /\ n <= Bytes(k)
               /\ k > 1 => Bytes(k - 1) < n
               /\ k > 1 <=> n > MaxEntryChunk
               /\ n > MaxEntryChunk => k = (n + MaxEntryChunk - 1) \div MaxEntryChunk
<1>. DEFINE q == (n + MaxEntryChunk - 1) \div MaxEntryChunk
            k == ChunkCount(n)
<1>0. MaxEntryChunk \in Nat \ {0} /\ n + MaxEntryChunk - 1 \in Nat
  BY ChunkAssumption
<1>1. /\ q \in Nat /\ Bytes(q) <= n + MaxEntryChunk - 1
      /\ n + MaxEntryChunk - 1 < Bytes(q) + MaxEntryChunk
  BY <1>0, DivBytes
<1>. HIDE DEF q
<1>2. k = IF 1 >= q THEN 1 ELSE q
  <2>1. ChunkCount(n) = Max({1, q})
    BY DEF ChunkCount, q
  <2>. QED
    BY <1>1, <2>1, MaxOfTwo
<1>. HIDE DEF k
<1>3. /\ Bytes(0) = 0 /\ Bytes(1) = MaxEntryChunk /\ Bytes(q) \in Int /\ Bytes(q - 1) \in Int
      /\ Bytes(q) = Bytes(q - 1) + MaxEntryChunk
  <2>1. q - 1 \in Int /\ (q - 1) + 1 = q
    BY <1>1
  <2>. QED
    BY <1>1, <2>1, BytesStep
<1>4. q > 1 <=> n > MaxEntryChunk
  <2>1. q > 1 => Bytes(1) + MaxEntryChunk <= Bytes(q)
    BY <1>1, BytesOrder
  <2>2. q < 1 => q = 0
    BY <1>1
  <2>. QED
    BY <1>0, <1>1, <1>3, <2>1, <2>2
<1>5. k \in Nat \ {0} /\ (k > 1 => k = q) /\ (k > 1 <=> q > 1) /\ (q <= 1 => k = 1)
  BY <1>1, <1>2
<1>6. n <= Bytes(k)
  <2>1. CASE q > 1
    BY <1>0, <1>1, <1>3, <1>5, <2>1
  <2>2. CASE ~(q > 1)
    BY <1>0, <1>1, <1>3, <1>4, <1>5, <2>2
  <2>. QED
    BY <2>1, <2>2
<1>7. k > 1 => Bytes(k - 1) < n
  BY <1>0, <1>1, <1>3, <1>5
<1>. QED
  BY <1>4, <1>5, <1>6, <1>7 DEF k, q

\* A chunk number that fits its column is its own word.
LEMMA NumberFits ==
    ASSUME NEW c \in Nat, c < 2^(ChunkBits - 1) PROVE int16(c) = c
<1>. DEFINE h == 2^(ChunkBits - 1)
<1>1. h \in Nat \ {0} /\ 2^ChunkBits = 2 * h
  BY ChunkNumbers
<1>. HIDE DEF h
<1>2. c < h
  BY DEF h
<1>3. \A k \in Nat \ {0} : \A n \in 0 .. k - 1 : n % k = n
  OBVIOUS
<1>4. c % (2 * h) = c
  BY <1>1, <1>2, <1>3
<1>. QED
  BY <1>1, <1>2, <1>4 DEF int16, h

-----------------------------------------------------------------------------
(* Bytes. *)

\* The bytes a .. b of payload i, and where chunk c of n bytes ends.
Piece(i, a, b) == [k \in 1 .. b - a |-> <<i, a + k>>]
Upto(c, n) == IF Bytes(c) <= n THEN Bytes(c) ELSE n

\* Where the chunks of a payload begin and end: each at the end of the one before.
LEMMA UptoFacts ==
    ASSUME NEW n \in Nat, NEW c \in 1 .. ChunkCount(n)
    PROVE  /\ Bytes(c - 1) \in Nat /\ Upto(c, n) \in Nat
           /\ Bytes(c - 1) <= Upto(c, n) /\ Upto(c, n) <= n
           /\ c > 1 => Upto(c - 1, n) = Bytes(c - 1)
           /\ c = 1 => Bytes(c - 1) = 0
           /\ c = ChunkCount(n) => Upto(c, n) = n
<1>0. /\ MaxEntryChunk \in Nat \ {0} /\ ChunkCount(n) \in Nat \ {0} /\ n <= Bytes(ChunkCount(n))
      /\ ChunkCount(n) > 1 => Bytes(ChunkCount(n) - 1) < n
  BY ChunkAssumption, CountFacts
<1>1. /\ c \in Int /\ c - 1 \in Int /\ Bytes(c) \in Int /\ Bytes(c - 1) \in Int
      /\ Bytes(c) = Bytes(c - 1) + MaxEntryChunk /\ Bytes(0) = 0
  <2>1. c \in Int /\ c - 1 \in Int /\ (c - 1) + 1 = c
    BY <1>0
  <2>2. Bytes(c) \in Int /\ Bytes(c - 1) \in Int /\ Bytes((c - 1) + 1) = Bytes(c - 1) + MaxEntryChunk
    BY <2>1, BytesStep
  <2>. QED
    BY <2>1, <2>2, BytesStep
<1>2. Bytes(c - 1) >= 0
  <2>1. CASE c = 1
    BY <1>1, <2>1
  <2>2. CASE c > 1
    <3>1. Bytes(0) + MaxEntryChunk <= Bytes(c - 1)
      BY <1>1, <2>2, BytesOrder
    <3>. QED
      BY <1>0, <1>1, <3>1
  <2>. QED
    BY <1>0, <2>1, <2>2
<1>3. Bytes(c - 1) <= n
  <2>1. CASE c = 1
    BY <1>1, <2>1
  <2>2. CASE c > 1
    <3>1. ChunkCount(n) - 1 \in Int /\ Bytes(ChunkCount(n) - 1) \in Int
      BY <1>0, BytesStep
    <3>2. c - 1 = ChunkCount(n) - 1 \/ c - 1 < ChunkCount(n) - 1
      BY <1>0
    <3>3. Bytes(c - 1) <= Bytes(ChunkCount(n) - 1)
      BY <1>0, <1>1, <3>1, <3>2, BytesOrder
    <3>. QED
      BY <1>0, <1>1, <2>2, <3>1, <3>3
  <2>. QED
    BY <1>0, <2>1, <2>2
<1>4. c = ChunkCount(n) => Upto(c, n) = n
  BY <1>0, <1>1 DEF Upto
<1>. QED
  BY <1>0, <1>1, <1>2, <1>3, <1>4 DEF Upto

\* A payload, as a sequence.
LEMMA PayloadFacts ==
    ASSUME NEW i \in Nat, NEW n \in Nat
    PROVE  /\ Payload(i, n) \in Seq(Nat \X Nat) /\ Len(Payload(i, n)) = n
           /\ DOMAIN Payload(i, n) = 1 .. n /\ \A k \in 1 .. n : Payload(i, n)[k] = <<i, k>>
BY DEF Payload

\* A piece, as a sequence; the first is a payload.
LEMMA PieceFacts ==
    ASSUME NEW i \in Nat, NEW a \in Nat, NEW b \in Nat, a <= b
    PROVE  /\ Piece(i, a, b) \in Seq(Nat \X Nat) /\ Len(Piece(i, a, b)) = b - a
           /\ \A k \in 1 .. b - a : Piece(i, a, b)[k] = <<i, a + k>>
           /\ a = 0 => Piece(i, a, b) = Payload(i, b)
BY DEF Piece, Payload

\* A piece, as it is cut out of a payload.
LEMMA CutFacts ==
    ASSUME NEW i \in Nat, NEW n \in Nat, NEW a \in Nat, NEW b \in Nat, a <= b, b <= n
    PROVE  SubSeq(Payload(i, n), a + 1, b) = Piece(i, a, b)
<1>. DEFINE p == Payload(i, n)
            s == SubSeq(p, a + 1, b)
            t == Piece(i, a, b)
<1>0. \A k \in 1 .. n : p[k] = <<i, k>>
  BY PayloadFacts
<1>. HIDE DEF p
<1>1. \A k \in a + 1 .. b : p[k] = <<i, k>> /\ p[k] \in Nat \X Nat
  BY <1>0
<1>2. a + 1 \in Int /\ b \in Int
  OBVIOUS
<1>3. /\ s \in Seq(Nat \X Nat) /\ Len(s) = IF a + 1 <= b THEN b - (a + 1) + 1 ELSE 0
      /\ \A k \in 1 .. b - (a + 1) + 1 : s[k] = p[(a + 1) + k - 1]
  BY <1>1, <1>2, SubSeqProperties
<1>4. /\ t \in Seq(Nat \X Nat) /\ Len(t) = b - a /\ \A k \in 1 .. b - a : t[k] = <<i, a + k>>
  BY PieceFacts
<1>. HIDE DEF s, t
<1>5. Len(s) = b - a
  BY <1>3
<1>6. ASSUME NEW k \in 1 .. b - a PROVE s[k] = t[k]
  <2>1. k \in 1 .. b - (a + 1) + 1 /\ (a + 1) + k - 1 = a + k /\ a + k \in a + 1 .. b
    OBVIOUS
  <2>2. s[k] = p[a + k]
    BY <1>3, <2>1
  <2>3. p[a + k] = <<i, a + k>>
    BY <1>1, <2>1
  <2>. QED
    BY <1>4, <2>2, <2>3
<1>7. s = t
  BY <1>3, <1>4, <1>5, <1>6, SeqEqual
<1>. QED
  BY <1>7 DEF s, t, p

\* What was read so far and the piece that follows it.
LEMMA Glue ==
    ASSUME NEW i \in Nat, NEW a \in Nat, NEW b \in Nat, a <= b
    PROVE  Payload(i, a) \o Piece(i, a, b) = Payload(i, b)
<1>. DEFINE s == Payload(i, a)
            t == Piece(i, a, b)
            u == Payload(i, b)
<1>1. /\ s \in Seq(Nat \X Nat) /\ Len(s) = a /\ \A k \in 1 .. a : s[k] = <<i, k>>
  BY PayloadFacts
<1>2. /\ t \in Seq(Nat \X Nat) /\ Len(t) = b - a /\ \A k \in 1 .. b - a : t[k] = <<i, a + k>>
  BY PieceFacts
<1>3. /\ u \in Seq(Nat \X Nat) /\ Len(u) = b /\ \A k \in 1 .. b : u[k] = <<i, k>>
  BY PayloadFacts
<1>. HIDE DEF s, t, u
<1>4. /\ s \o t \in Seq(Nat \X Nat) /\ Len(s \o t) = Len(s) + Len(t)
      /\ \A k \in 1 .. Len(s) + Len(t) :
            (s \o t)[k] = IF k <= Len(s) THEN s[k] ELSE t[k - Len(s)]
  BY <1>1, <1>2, ConcatProperties
<1>5. Len(s \o t) = b /\ \A k \in 1 .. b : (s \o t)[k] = u[k]
  <2>1. Len(s \o t) = b
    BY <1>1, <1>2, <1>4
  <2>2. ASSUME NEW k \in 1 .. b PROVE (s \o t)[k] = u[k]
    <3>a. Len(s) + Len(t) = b /\ Len(s) = a
      BY <1>1, <1>2
    <3>b. (s \o t)[k] = IF k <= Len(s) THEN s[k] ELSE t[k - Len(s)]
      BY <1>4, <3>a
    <3>0. u[k] = <<i, k>> /\ (s \o t)[k] = IF k <= a THEN s[k] ELSE t[k - a]
      BY <1>3, <3>a, <3>b
    <3>1. CASE k <= a
      <4>1. k \in 1 .. a
        BY <3>1
      <4>2. s[k] = <<i, k>>
        BY <1>1, <4>1
      <4>. QED
        BY <3>0, <3>1, <4>2
    <3>2. CASE ~(k <= a)
      <4>1. k - a \in 1 .. b - a /\ a + (k - a) = k
        BY <3>2
      <4>2. t[k - a] = <<i, a + (k - a)>>
        BY <1>2, <4>1
      <4>. QED
        BY <3>0, <3>2, <4>1, <4>2
    <3>. QED
      BY <3>1, <3>2
  <2>. QED
    BY <2>1, <2>2
<1>6. s \o t = u
  BY <1>3, <1>4, <1>5, SeqEqual
<1>. QED
  BY <1>6 DEF s, t, u

\* What chunksOf cuts a payload into.
LEMMA ChunksAre ==
    ASSUME NEW i \in Nat, NEW n \in Nat
    PROVE  /\ DOMAIN chunksOf(Payload(i, n)) = 1 .. ChunkCount(n)
           /\ \A c \in 1 .. ChunkCount(n) :
                 chunksOf(Payload(i, n))[c] = Piece(i, Bytes(c - 1), Upto(c, n))
<1>. DEFINE p == Payload(i, n)
<1>0. /\ MaxEntryChunk \in Nat \ {0} /\ p \in Seq(Nat \X Nat) /\ Len(p) = n
      /\ \A k \in 1 .. n : p[k] = <<i, k>>
  BY ChunkAssumption, PayloadFacts
<1>1. /\ ChunkCount(n) \in Nat \ {0} /\ (ChunkCount(n) > 1 <=> n > MaxEntryChunk)
      /\ n > MaxEntryChunk => ChunkCount(n) = (n + MaxEntryChunk - 1) \div MaxEntryChunk
  BY CountFacts
<1>2. p = Piece(i, 0, n)
  <2>1. 0 \in Nat /\ 0 <= n
    OBVIOUS
  <2>. QED
    BY <2>1, PieceFacts
<1>. HIDE DEF p
<1>3. CASE n <= MaxEntryChunk
  <2>1. ChunkCount(n) = 1
    BY <1>0, <1>1, <1>3
  <2>2. chunksOf(p) = <<p>>
    BY <1>0, <1>3 DEF chunksOf
  <2>3. Bytes(1 - 1) = 0 /\ Upto(1, n) = n
    <3>1. 1 \in 1 .. ChunkCount(n)
      BY <2>1
    <3>. QED
      BY <2>1, <3>1, UptoFacts
  <2>4. DOMAIN chunksOf(p) = 1 .. 1 /\ chunksOf(p)[1] = p
    BY <2>2
  <2>. QED
    BY <1>2, <2>1, <2>3, <2>4 DEF p
<1>4. CASE n > MaxEntryChunk
  <2>1. chunksOf(p) = [c \in 1 .. ChunkCount(n) |->
                          SubSeq(p, (c - 1) * MaxEntryChunk + 1, Min({c * MaxEntryChunk, n}))]
    <3>1. ~(Len(p) <= MaxEntryChunk)
      BY <1>0, <1>4
    <3>. QED
      BY <1>0, <1>1, <1>4, <3>1 DEF chunksOf
  <2>2. ASSUME NEW c \in 1 .. ChunkCount(n)
        PROVE  chunksOf(p)[c] = Piece(i, Bytes(c - 1), Upto(c, n))
    <3>. DEFINE a == Bytes(c - 1)
                b == Upto(c, n)
    <3>1. a \in Nat /\ b \in Nat /\ a <= b /\ b <= n
      BY UptoFacts
    <3>2. (c - 1) * MaxEntryChunk = a /\ Min({c * MaxEntryChunk, n}) = b
      <4>1. c \in Int /\ Bytes(c) \in Int /\ n \in Int
        BY <1>1, BytesStep
      <4>2. Min({Bytes(c), n}) = b
        BY <4>1, MinOfTwo DEF Upto
      <4>. QED
        BY <4>2 DEF Bytes
    <3>. HIDE DEF a, b
    <3>3. chunksOf(p)[c] = SubSeq(p, a + 1, b)
      BY <2>1, <3>2
    <3>4. SubSeq(p, a + 1, b) = Piece(i, a, b)
      BY <3>1, CutFacts DEF p
    <3>. QED
      BY <3>3, <3>4 DEF a, b
  <2>. QED
    BY <2>1, <2>2 DEF p
<1>. QED
  BY <1>0, <1>3, <1>4

-----------------------------------------------------------------------------
(* The rows of a batch. *)

\* The batch is one that ChunksInit chooses.
BatchOK ==
    /\ payloads \in Seq(Seq(Nat \X Nat))
    /\ \A i \in 1 .. Len(payloads) : payloads[i] = Payload(i, Len(payloads[i]))

\* The bytes and the chunks of payload i.
LenOf(i) == Len(payloads[i])
ChunksIn(i) == ChunkCount(LenOf(i))

\* Chunk c of payload i, whatever its number.
Cut(i, c) == Piece(i, Bytes(c - 1), Upto(c, LenOf(i)))

\* The row it becomes, and what that is if its number fits.
WordRow(i, c) == [seqno |-> i, chunk |-> int16(c - 1), part |-> Cut(i, c)]
Row(i, c) == [seqno |-> i, chunk |-> c - 1, part |-> Cut(i, c)]

LEMMA BatchFacts ==
    ASSUME BatchOK
    PROVE  /\ Len(payloads) \in Nat /\ DOMAIN payloads = 1 .. Len(payloads)
           /\ \A i \in 1 .. Len(payloads) :
                 /\ i \in Nat /\ LenOf(i) \in Nat /\ ChunksIn(i) \in Nat \ {0}
                 /\ payloads[i] = Payload(i, LenOf(i))
<1>1. Len(payloads) \in Nat /\ DOMAIN payloads = 1 .. Len(payloads)
  BY DEF BatchOK
<1>2. ASSUME NEW i \in 1 .. Len(payloads)
      PROVE  /\ i \in Nat /\ LenOf(i) \in Nat /\ ChunksIn(i) \in Nat \ {0}
             /\ payloads[i] = Payload(i, LenOf(i))
  <2>1. i \in Nat /\ payloads[i] \in Seq(Nat \X Nat)
    BY <1>1 DEF BatchOK
  <2>2. LenOf(i) \in Nat
    BY <2>1, LenProperties DEF LenOf
  <2>3. ChunksIn(i) \in Nat \ {0}
    BY <2>2, CountFacts DEF ChunksIn
  <2>. QED
    BY <2>1, <2>2, <2>3 DEF BatchOK, LenOf
<1>. QED
  BY <1>1, <1>2

\* The rows a batch becomes, with the words its chunk numbers become.
LEMMA RowsOfBatch ==
    ASSUME BatchOK
    PROVE  \A r : r \in chunkArrays(payloads) <=>
                     \E i \in 1 .. Len(payloads) : \E c \in 1 .. ChunksIn(i) : r = WordRow(i, c)
<1>1. ASSUME NEW i \in 1 .. Len(payloads)
      PROVE  /\ DOMAIN chunksOf(payloads[i]) = 1 .. ChunksIn(i)
             /\ \A c \in 1 .. ChunksIn(i) : chunksOf(payloads[i])[c] = Cut(i, c)
  <2>1. i \in Nat /\ LenOf(i) \in Nat /\ payloads[i] = Payload(i, LenOf(i))
    BY BatchFacts
  <2>2. /\ DOMAIN chunksOf(Payload(i, LenOf(i))) = 1 .. ChunkCount(LenOf(i))
        /\ \A c \in 1 .. ChunkCount(LenOf(i)) :
              chunksOf(Payload(i, LenOf(i)))[c] = Piece(i, Bytes(c - 1), Upto(c, LenOf(i)))
    BY <2>1, ChunksAre
  <2>. QED
    BY <2>1, <2>2 DEF ChunksIn, Cut
<1>2. DOMAIN payloads = 1 .. Len(payloads)
  BY BatchFacts
<1>3. \A r : r \in chunkArrays(payloads) <=>
               \E i \in DOMAIN payloads : \E c \in DOMAIN chunksOf(payloads[i]) :
                  r = [seqno |-> i, chunk |-> int16(c - 1), part |-> chunksOf(payloads[i])[c]]
  BY DEF chunkArrays
<1>4. ASSUME NEW i \in 1 .. Len(payloads), NEW c \in 1 .. ChunksIn(i)
      PROVE  [seqno |-> i, chunk |-> int16(c - 1), part |-> chunksOf(payloads[i])[c]] = WordRow(i, c)
  BY <1>1 DEF WordRow
<1>5. \A i \in 1 .. Len(payloads) : DOMAIN chunksOf(payloads[i]) = 1 .. ChunksIn(i)
  BY <1>1
<1>6. ASSUME NEW r, r \in chunkArrays(payloads)
      PROVE  \E i \in 1 .. Len(payloads) : \E c \in 1 .. ChunksIn(i) : r = WordRow(i, c)
  <2>1. PICK i \in DOMAIN payloads : \E c \in DOMAIN chunksOf(payloads[i]) :
                r = [seqno |-> i, chunk |-> int16(c - 1), part |-> chunksOf(payloads[i])[c]]
    BY <1>3, <1>6
  <2>2. PICK c \in DOMAIN chunksOf(payloads[i]) :
                r = [seqno |-> i, chunk |-> int16(c - 1), part |-> chunksOf(payloads[i])[c]]
    BY <2>1
  <2>3. i \in 1 .. Len(payloads) /\ c \in 1 .. ChunksIn(i)
    BY <1>2, <1>5
  <2>. QED
    BY <1>4, <2>2, <2>3
<1>7. ASSUME NEW i \in 1 .. Len(payloads), NEW c \in 1 .. ChunksIn(i)
      PROVE  WordRow(i, c) \in chunkArrays(payloads)
  BY <1>2, <1>3, <1>4, <1>5
<1>. QED
  BY <1>6, <1>7

\* The same where the numbers fit.
LEMMA RowsThatFit ==
    ASSUME BatchOK, Fits
    PROVE  \A r : r \in chunkArrays(payloads) <=>
                     \E i \in 1 .. Len(payloads) : \E c \in 1 .. ChunksIn(i) : r = Row(i, c)
<1>1. ASSUME NEW i \in 1 .. Len(payloads), NEW c \in 1 .. ChunksIn(i) PROVE int16(c - 1) = c - 1
  <2>1. ChunksIn(i) \in Nat /\ DOMAIN payloads = 1 .. Len(payloads) /\ 2^(ChunkBits - 1) \in Nat
    BY BatchFacts, ChunkNumbers
  <2>2. ChunksIn(i) <= 2^(ChunkBits - 1)
    BY <2>1 DEF Fits, ChunksIn, LenOf
  <2>3. c - 1 \in Nat /\ c - 1 < 2^(ChunkBits - 1)
    BY <2>1, <2>2
  <2>. QED
    BY <2>3, NumberFits
<1>2. \A i \in 1 .. Len(payloads) : \A c \in 1 .. ChunksIn(i) :
         WordRow(i, c) = Row(i, c)
  BY <1>1 DEF WordRow, Row
<1>. QED
  BY <1>2, RowsOfBatch

-----------------------------------------------------------------------------
(* The scan. *)

\* Where the scan is: at chunk c of entry e, or before the first.
Position(e, c) ==
    /\ e \in 0 .. Len(payloads) /\ c \in Nat
    /\ IF e = 0 THEN c = 0 ELSE c \in 1 .. ChunksIn(e)

\* What is still to come from there.
Left(e, c) == {r \in chunkArrays(payloads) : r.seqno > e \/ (r.seqno = e /\ r.chunk >= c)}

\* What has been put together until there.
Read(e, c) ==
    [i \in 1 .. e |-> [seqno |-> i, payload |-> IF i < e THEN payloads[i]
                                                ELSE Payload(i, Upto(c, LenOf(i)))]]

At(e, c) == Position(e, c) /\ todo = Left(e, c) /\ entries = Read(e, c)

\* As long as the numbers fit, the scan does not fail and is somewhere.
ScanOK == Fits => ~failed /\ \E e, c : At(e, c)

ChunksInv == BatchOK /\ ScanOK

\* At the last chunk of an entry the entry is whole, and the next row starts one.
LEMMA NextRow ==
    ASSUME BatchOK, Fits, NEW e, NEW c, Position(e, c), NEW r \in Left(e, c),
           \A q \in Left(e, c) : ~Before(q, r)
    PROVE  \/ /\ e > 0 /\ c < ChunksIn(e) /\ r = Row(e, c + 1)
           \/ /\ e < Len(payloads) /\ (e > 0 => c = ChunksIn(e)) /\ r = Row(e + 1, 1)
<1>0. /\ Len(payloads) \in Nat /\ e \in Nat /\ c \in Nat /\ e <= Len(payloads)
      /\ e > 0 => ChunksIn(e) \in Nat \ {0} /\ c \in 1 .. ChunksIn(e)
      /\ e = 0 => c = 0
  BY BatchFacts DEF Position
<1>1. PICK i \in 1 .. Len(payloads) : \E k \in 1 .. ChunksIn(i) : r = Row(i, k)
  BY RowsThatFit DEF Left
<1>2. PICK k \in 1 .. ChunksIn(i) : r = Row(i, k)
  BY <1>1
<1>3. /\ i \in Nat /\ k \in Nat \ {0} /\ ChunksIn(i) \in Nat \ {0}
      /\ r.seqno = i /\ r.chunk = k - 1 /\ (i > e \/ (i = e /\ k - 1 >= c))
  BY <1>0, <1>2, BatchFacts DEF Row, Left
<1>4. CASE e > 0 /\ c < ChunksIn(e)
  <2>1. e \in 1 .. Len(payloads) /\ c + 1 \in 1 .. ChunksIn(e)
    BY <1>0, <1>4
  <2>2. Row(e, c + 1) \in Left(e, c)
    <3>1. Row(e, c + 1) \in chunkArrays(payloads)
      BY <2>1, RowsThatFit
    <3>2. Row(e, c + 1).seqno = e /\ Row(e, c + 1).chunk = c
      BY <1>0 DEF Row
    <3>. QED
      BY <1>0, <3>1, <3>2 DEF Left
  <2>3. ~Before(Row(e, c + 1), r)
    BY <2>2
  <2>4. ~(e < i) /\ ~(e = i /\ c < k - 1)
    BY <1>0, <1>3, <2>3 DEF Before, Row
  <2>5. i = e /\ k = c + 1
    BY <1>0, <1>3, <2>4
  <2>. QED
    BY <1>2, <1>4, <2>5
<1>5. CASE ~(e > 0 /\ c < ChunksIn(e))
  <2>1. e > 0 => c = ChunksIn(e)
    BY <1>0, <1>5
  <2>2. i > e
    BY <1>0, <1>3, <2>1
  <2>3. e < Len(payloads) /\ e + 1 \in 1 .. Len(payloads)
    BY <1>0, <1>1, <1>3, <2>2
  <2>4. 1 \in 1 .. ChunksIn(e + 1)
    BY <2>3, BatchFacts
  <2>5. Row(e + 1, 1) \in Left(e, c)
    <3>1. Row(e + 1, 1) \in chunkArrays(payloads)
      BY <2>3, <2>4, RowsThatFit
    <3>2. Row(e + 1, 1).seqno = e + 1
      BY DEF Row
    <3>. QED
      BY <1>0, <3>1, <3>2 DEF Left
  <2>6. ~Before(Row(e + 1, 1), r)
    BY <2>5
  <2>7. ~(e + 1 < i) /\ ~(e + 1 = i /\ 0 < k - 1)
    BY <1>0, <1>3, <2>6 DEF Before, Row
  <2>8. i = e + 1 /\ k = 1
    BY <1>0, <1>3, <2>2, <2>7
  <2>. QED
    BY <1>2, <2>1, <2>3, <2>8
<1>. QED
  BY <1>4, <1>5

\* What is left without the row that comes next.
LEMMA LeftShrinks ==
    ASSUME BatchOK, Fits, NEW e, NEW c, Position(e, c)
    PROVE  /\ e > 0 /\ c < ChunksIn(e) => Left(e, c) \ {Row(e, c + 1)} = Left(e, c + 1)
           /\ e < Len(payloads) /\ (e > 0 => c = ChunksIn(e)) =>
                 Left(e, c) \ {Row(e + 1, 1)} = Left(e + 1, 1)
<1>0. /\ Len(payloads) \in Nat /\ e \in Nat /\ c \in Nat /\ e <= Len(payloads)
      /\ e > 0 => ChunksIn(e) \in Nat \ {0} /\ c \in 1 .. ChunksIn(e)
      /\ e = 0 => c = 0
  BY BatchFacts DEF Position
<1>1. ASSUME NEW r \in chunkArrays(payloads)
      PROVE  \E i \in 1 .. Len(payloads) : \E k \in 1 .. ChunksIn(i) :
                 /\ r = Row(i, k) /\ r.seqno = i /\ r.chunk = k - 1
                 /\ i \in Nat \ {0} /\ k \in Nat \ {0} /\ ChunksIn(i) \in Nat /\ k <= ChunksIn(i)
  <2>1. PICK i \in 1 .. Len(payloads) : \E k \in 1 .. ChunksIn(i) : r = Row(i, k)
    BY RowsThatFit
  <2>2. PICK k \in 1 .. ChunksIn(i) : r = Row(i, k)
    BY <2>1
  <2>3. r.seqno = i /\ r.chunk = k - 1
    BY <2>2 DEF Row
  <2>. QED
    BY <1>0, <2>2, <2>3, BatchFacts
<1>2. ASSUME e > 0, c < ChunksIn(e), NEW r \in chunkArrays(payloads)
      PROVE  r \in Left(e, c) /\ r # Row(e, c + 1) <=> r \in Left(e, c + 1)
  <2>1. PICK i \in 1 .. Len(payloads) : \E k \in 1 .. ChunksIn(i) :
                 /\ r = Row(i, k) /\ r.seqno = i /\ r.chunk = k - 1
                 /\ i \in Nat \ {0} /\ k \in Nat \ {0} /\ ChunksIn(i) \in Nat /\ k <= ChunksIn(i)
    BY <1>1
  <2>2. PICK k \in 1 .. ChunksIn(i) :
                 /\ r = Row(i, k) /\ r.seqno = i /\ r.chunk = k - 1
                 /\ i \in Nat \ {0} /\ k \in Nat \ {0} /\ ChunksIn(i) \in Nat /\ k <= ChunksIn(i)
    BY <2>1
  <2>3. r = Row(e, c + 1) <=> i = e /\ k = c + 1
    <3>1. Row(e, c + 1).seqno = e /\ Row(e, c + 1).chunk = c
      BY <1>0 DEF Row
    <3>. QED
      BY <1>0, <2>2, <3>1
  <2>4. /\ r \in Left(e, c) <=> i > e \/ (i = e /\ k - 1 >= c)
        /\ r \in Left(e, c + 1) <=> i > e \/ (i = e /\ k - 1 >= c + 1)
    BY <2>2 DEF Left
  <2>. QED
    BY <1>0, <2>2, <2>3, <2>4
<1>3. ASSUME e < Len(payloads), e > 0 => c = ChunksIn(e), NEW r \in chunkArrays(payloads)
      PROVE  r \in Left(e, c) /\ r # Row(e + 1, 1) <=> r \in Left(e + 1, 1)
  <2>1. PICK i \in 1 .. Len(payloads) : \E k \in 1 .. ChunksIn(i) :
                 /\ r = Row(i, k) /\ r.seqno = i /\ r.chunk = k - 1
                 /\ i \in Nat \ {0} /\ k \in Nat \ {0} /\ ChunksIn(i) \in Nat /\ k <= ChunksIn(i)
    BY <1>1
  <2>2. PICK k \in 1 .. ChunksIn(i) :
                 /\ r = Row(i, k) /\ r.seqno = i /\ r.chunk = k - 1
                 /\ i \in Nat \ {0} /\ k \in Nat \ {0} /\ ChunksIn(i) \in Nat /\ k <= ChunksIn(i)
    BY <2>1
  <2>3. r = Row(e + 1, 1) <=> i = e + 1 /\ k = 1
    <3>1. Row(e + 1, 1).seqno = e + 1 /\ Row(e + 1, 1).chunk = 0
      BY <1>0 DEF Row
    <3>. QED
      BY <1>0, <2>2, <3>1
  <2>4. /\ r \in Left(e, c) <=> i > e \/ (i = e /\ k - 1 >= c)
        /\ r \in Left(e + 1, 1) <=> i > e + 1 \/ (i = e + 1 /\ k - 1 >= 1)
    BY <2>2 DEF Left
  <2>5. ~(i = e /\ k - 1 >= c)
    BY <1>0, <1>3, <2>2
  <2>. QED
    BY <1>0, <2>2, <2>3, <2>4, <2>5
<1>4. \A a, b : Left(a, b) \subseteq chunkArrays(payloads)
  BY DEF Left
<1>. QED
  BY <1>2, <1>3, <1>4

\* What is put together with it.
LEMMA ReadGrows ==
    ASSUME BatchOK, NEW e, NEW c, Position(e, c)
    PROVE  /\ e > 0 /\ c < ChunksIn(e) =>
                 [Read(e, c) EXCEPT ![e].payload = @ \o Cut(e, c + 1)] = Read(e, c + 1)
           /\ e < Len(payloads) /\ (e > 0 => c = ChunksIn(e)) =>
                 Append(Read(e, c), [seqno |-> e + 1, payload |-> Cut(e + 1, 1)]) = Read(e + 1, 1)
<1>0. /\ Len(payloads) \in Nat /\ e \in Nat /\ c \in Nat /\ e <= Len(payloads)
      /\ e > 0 => ChunksIn(e) \in Nat \ {0} /\ c \in 1 .. ChunksIn(e)
      /\ e = 0 => c = 0
  BY BatchFacts DEF Position
<1>1. ASSUME e > 0, c < ChunksIn(e)
      PROVE  [Read(e, c) EXCEPT ![e].payload = @ \o Cut(e, c + 1)] = Read(e, c + 1)
  <2>1. e \in 1 .. Len(payloads) /\ e \in Nat /\ c + 1 \in 1 .. ChunksIn(e) /\ LenOf(e) \in Nat
    BY <1>0, <1>1, BatchFacts
  <2>2. /\ Bytes(c) \in Nat /\ Upto(c + 1, LenOf(e)) \in Nat /\ Bytes(c) <= Upto(c + 1, LenOf(e))
        /\ Upto(c, LenOf(e)) = Bytes(c)
    <3>1. (c + 1) - 1 = c /\ c + 1 > 1 /\ c + 1 \in 1 .. ChunkCount(LenOf(e))
      BY <1>0, <1>1, <2>1 DEF ChunksIn
    <3>. QED
      BY <2>1, <3>1, UptoFacts
  <2>3. Payload(e, Upto(c, LenOf(e))) \o Cut(e, c + 1) = Payload(e, Upto(c + 1, LenOf(e)))
    <3>1. Cut(e, c + 1) = Piece(e, Bytes(c), Upto(c + 1, LenOf(e)))
      BY <1>0 DEF Cut
    <3>. DEFINE a == Bytes(c)
                b == Upto(c + 1, LenOf(e))
    <3>2. e \in Nat /\ a \in Nat /\ b \in Nat /\ a <= b
      BY <2>1, <2>2
    <3>. HIDE DEF a, b
    <3>3. Payload(e, a) \o Piece(e, a, b) = Payload(e, b)
      BY <3>2, Glue
    <3>. QED
      BY <2>2, <3>1, <3>3, Zenon DEF a, b
  <2>4. Read(e, c)[e] = [seqno |-> e, payload |-> Payload(e, Upto(c, LenOf(e)))]
    BY <1>0, <1>1 DEF Read
  <2>. DEFINE s == Read(e, c)
              t == Read(e, c + 1)
  <2>5. /\ s = [i \in 1 .. e |-> s[i]] /\ t = [i \in 1 .. e |-> t[i]]
        /\ \A i \in 1 .. e : i # e => s[i] = t[i]
    BY <1>0 DEF Read
  <2>6. t[e] = [seqno |-> e, payload |-> Payload(e, Upto(c + 1, LenOf(e)))]
    BY <1>0, <1>1 DEF Read
  <2>7. [s[e] EXCEPT !.payload = @ \o Cut(e, c + 1)] = t[e]
    <3>. DEFINE a == Payload(e, Upto(c, LenOf(e)))
                b == Payload(e, Upto(c + 1, LenOf(e)))
    <3>1. s[e] = [seqno |-> e, payload |-> a] /\ t[e] = [seqno |-> e, payload |-> b]
      BY <2>4, <2>6
    <3>2. a \o Cut(e, c + 1) = b
      BY <2>3
    <3>. HIDE DEF a, b, s, t
    <3>3. s[e].payload = a /\ [s[e] EXCEPT !.payload = b] = t[e]
      BY <3>1
    <3>4. s[e].payload \o Cut(e, c + 1) = b
      BY <3>2, <3>3, Zenon
    <3>. QED
      BY <3>3, <3>4, Zenon
  <2>. HIDE DEF s, t
  <2>8. [s EXCEPT ![e] = t[e]] = t
    BY <2>5
  <2>9. [s EXCEPT ![e].payload = @ \o Cut(e, c + 1)] = t
    BY <2>7, <2>8
  <2>. QED
    BY <2>9 DEF s, t
<1>2. ASSUME e < Len(payloads), e > 0 => c = ChunksIn(e)
      PROVE  Append(Read(e, c), [seqno |-> e + 1, payload |-> Cut(e + 1, 1)]) = Read(e + 1, 1)
  <2>1. e + 1 \in 1 .. Len(payloads) /\ e + 1 \in Nat /\ LenOf(e + 1) \in Nat
    BY <1>0, <1>2, BatchFacts
  <2>2. Cut(e + 1, 1) = Payload(e + 1, Upto(1, LenOf(e + 1)))
    <3>1. 1 \in 1 .. ChunkCount(LenOf(e + 1))
      BY <2>1, BatchFacts DEF ChunksIn
    <3>2. Upto(1, LenOf(e + 1)) \in Nat /\ Bytes(1 - 1) = 0
      BY <2>1, <3>1, UptoFacts
    <3>3. 0 \in Nat /\ 0 <= Upto(1, LenOf(e + 1))
      BY <3>2
    <3>. QED
      BY <2>1, <3>2, <3>3, PieceFacts DEF Cut
  <2>3. e > 0 => Payload(e, Upto(c, LenOf(e))) = payloads[e]
    <3>1. SUFFICES ASSUME e > 0 PROVE Payload(e, Upto(c, LenOf(e))) = payloads[e]
      OBVIOUS
    <3>2. e \in 1 .. Len(payloads) /\ LenOf(e) \in Nat /\ payloads[e] = Payload(e, LenOf(e))
      BY <1>0, <3>1, BatchFacts
    <3>3. Upto(c, LenOf(e)) = LenOf(e)
      BY <1>0, <1>2, <3>1, <3>2, UptoFacts DEF ChunksIn
    <3>. QED
      BY <3>2, <3>3
  <2>. DEFINE s == Read(e, c)
              t == Read(e + 1, 1)
              x == [seqno |-> e + 1, payload |-> Cut(e + 1, 1)]
  <2>4. /\ Len(s) = e /\ s = [i \in 1 .. e |-> s[i]] /\ DOMAIN s = 1 .. e
        /\ DOMAIN t = 1 .. e + 1 /\ t = [i \in 1 .. e + 1 |-> t[i]]
    BY <1>0 DEF Read
  <2>5. \A i \in 1 .. e : s[i] = t[i]
    BY <1>0, <2>3 DEF Read
  <2>6. t[e + 1] = x
    BY <1>0, <2>2 DEF Read
  <2>. HIDE DEF s, t, x
  <2>7. Append(s, x) = t
    <3>. DEFINE V == {t[i] : i \in 1 .. e + 1}
    <3>1. \A i \in 1 .. e + 1 : t[i] \in V
      OBVIOUS
    <3>2. x \in V /\ \A i \in 1 .. e : s[i] \in V
      BY <1>0, <2>5, <2>6, <3>1
    <3>. HIDE DEF V
    <3>3. s \in Seq(V) /\ t \in Seq(V) /\ Len(t) = e + 1
      <4>1. s \in Seq(V)
        BY <1>0, <2>4, <3>2
      <4>2. e + 1 \in Nat
        BY <1>0
      <4>3. t \in Seq(V) /\ Len(t) = e + 1
        BY <2>4, <3>1, <4>2
      <4>. QED
        BY <4>1, <4>3
    <3>4. /\ Append(s, x) \in Seq(V) /\ Len(Append(s, x)) = e + 1
          /\ \A i \in 1 .. e : Append(s, x)[i] = s[i]
          /\ Append(s, x)[e + 1] = x
      <4>1. x \in V /\ Len(s) = e
        BY <2>4, <3>2
      <4>2. /\ Append(s, x) \in Seq(V) /\ Len(Append(s, x)) = Len(s) + 1
            /\ \A i \in 1 .. Len(s) : Append(s, x)[i] = s[i]
            /\ Append(s, x)[Len(s) + 1] = x
        BY <3>3, <4>1, AppendProperties
      <4>. QED
        BY <4>1, <4>2
    <3>5. \A i \in 1 .. e + 1 : Append(s, x)[i] = t[i]
      BY <1>0, <2>5, <2>6, <3>4
    <3>. QED
      BY <3>3, <3>4, <3>5, SeqEqual
  <2>. QED
    BY <2>7 DEF s, t, x
<1>. QED
  BY <1>1, <1>2

-----------------------------------------------------------------------------
(* The batch and the scan are as they should be. *)

LEMMA ChunksInitInv == ChunksInit => ChunksInv
<1>. SUFFICES ASSUME ChunksInit PROVE ChunksInv
  OBVIOUS
<1>1. PICK n \in 1 .. MaxBatch : \E length \in [1 .. n -> Lengths] :
         payloads = [i \in 1 .. n |-> Payload(i, length[i])]
  BY DEF ChunksInit
<1>2. PICK length \in [1 .. n -> Lengths] : payloads = [i \in 1 .. n |-> Payload(i, length[i])]
  BY <1>1
<1>3. n \in Nat /\ \A i \in 1 .. n : i \in Nat /\ length[i] \in Nat
  <2>1. MaxBatch \in Nat /\ Lengths \subseteq Nat
    BY LengthsAssumption
  <2>2. n \in Nat
    BY <2>1
  <2>3. \A i \in 1 .. n : length[i] \in Lengths
    OBVIOUS
  <2>4. \A i \in 1 .. n : length[i] \in Nat
    BY <2>1, <2>3, Zenon
  <2>5. \A i \in 1 .. n : i \in Nat
    BY <2>2
  <2>. QED
    BY <2>2, <2>4, <2>5
<1>4. \A i \in 1 .. n : /\ Payload(i, length[i]) \in Seq(Nat \X Nat)
                        /\ Len(Payload(i, length[i])) = length[i]
  BY <1>3, PayloadFacts
<1>5. BatchOK
  <2>1. payloads \in Seq(Seq(Nat \X Nat)) /\ Len(payloads) = n
    BY <1>2, <1>3, <1>4
  <2>2. \A i \in 1 .. n : payloads[i] = Payload(i, Len(payloads[i]))
    BY <1>2, <1>4
  <2>. QED
    BY <2>1, <2>2 DEF BatchOK
<1>6. Fits => ~failed /\ At(0, 0)
  <2>. SUFFICES ASSUME Fits PROVE ~failed /\ At(0, 0)
    OBVIOUS
  <2>1. Position(0, 0)
    BY <1>5, BatchFacts DEF Position
  <2>2. todo = Left(0, 0)
    <3>1. \A r \in chunkArrays(payloads) : r.seqno > 0
      BY <1>5, RowsThatFit, BatchFacts DEF Row
    <3>. QED
      BY <3>1 DEF Left, ChunksInit
  <2>3. entries = Read(0, 0)
    BY DEF Read, ChunksInit
  <2>. QED
    BY <2>1, <2>2, <2>3 DEF At, ChunksInit
<1>. QED
  BY <1>5, <1>6 DEF ChunksInv, ScanOK

LEMMA ChunksStepInv == ChunksInv /\ [ChunksNext]_chunkVars => ChunksInv'
<1>. SUFFICES ASSUME ChunksInv, [ChunksNext]_chunkVars PROVE ChunksInv'
  OBVIOUS
<1>1. payloads' = payloads
  BY DEF ChunksNext, Scan, chunkVars
<1>2. BatchOK /\ BatchOK'
  BY <1>1 DEF ChunksInv, BatchOK
<1>3. ASSUME Fits' PROVE ~failed' /\ \E e, c : At(e, c)'
  <2>1. Fits
    BY <1>1, <1>3 DEF Fits
  <2>2. ~failed
    BY <2>1 DEF ChunksInv, ScanOK
  <2>3. PICK e, c : At(e, c)
    BY <2>1 DEF ChunksInv, ScanOK
  <2>4. /\ \A a, b : Left(a, b)' = Left(a, b) /\ Read(a, b)' = Read(a, b)
        /\ \A a, b : Position(a, b)' <=> Position(a, b)
    BY <1>1 DEF Left, Read, Position, LenOf, ChunksIn
  <2>5. CASE UNCHANGED chunkVars
    BY <2>2, <2>3, <2>4, <2>5 DEF chunkVars, At
  <2>6. CASE ChunksNext
    <3>1. PICK r \in todo : Scan(r)
      BY <2>6 DEF ChunksNext
    <3>2. /\ Position(e, c) /\ todo = Left(e, c) /\ entries = Read(e, c)
          /\ r \in Left(e, c) /\ \A q \in Left(e, c) : ~Before(q, r)
      BY <2>3, <3>1 DEF At, Scan
    <3>3. /\ Len(payloads) \in Nat /\ e \in Nat /\ c \in Nat /\ e <= Len(payloads)
          /\ e > 0 => ChunksIn(e) \in Nat \ {0} /\ c \in 1 .. ChunksIn(e)
          /\ e = 0 => c = 0
      BY <1>2, <3>2, BatchFacts DEF Position
    <3>4. CASE e > 0 /\ c < ChunksIn(e) /\ r = Row(e, c + 1)
      <4>1. r.seqno = e /\ r.chunk = c /\ r.part = Cut(e, c + 1) /\ r.chunk # 0
        BY <3>3, <3>4 DEF Row
      <4>2. Len(entries) = e /\ entries # <<>> /\ entries[e].seqno = e
        BY <3>2, <3>3, <3>4 DEF Read
      <4>3. Continues(r)
        BY <4>1, <4>2 DEF Continues
      <4>4. /\ failed' = failed /\ todo' = todo \ {r}
            /\ entries' = [entries EXCEPT ![e].payload = @ \o Cut(e, c + 1)]
        BY <3>1, <4>1, <4>2, <4>3 DEF Scan
      <4>5. todo' = Left(e, c + 1) /\ entries' = Read(e, c + 1)
        BY <1>2, <2>1, <3>2, <3>4, <4>4, LeftShrinks, ReadGrows
      <4>6. Position(e, c + 1)
        BY <3>3, <3>4 DEF Position
      <4>7. At(e, c + 1)'
        BY <2>4, <4>5, <4>6 DEF At
      <4>. QED
        BY <2>2, <4>4, <4>7
    <3>5. CASE e < Len(payloads) /\ (e > 0 => c = ChunksIn(e)) /\ r = Row(e + 1, 1)
      <4>1. r.seqno = e + 1 /\ r.chunk = 0 /\ r.part = Cut(e + 1, 1)
        BY <3>3, <3>5 DEF Row
      <4>2. /\ failed' = failed /\ todo' = todo \ {r}
            /\ entries' = Append(entries, [seqno |-> e + 1, payload |-> Cut(e + 1, 1)])
        BY <3>1, <4>1 DEF Scan
      <4>3. todo' = Left(e + 1, 1) /\ entries' = Read(e + 1, 1)
        BY <1>2, <2>1, <3>2, <3>5, <4>2, LeftShrinks, ReadGrows
      <4>4. Position(e + 1, 1)
        <5>1. e + 1 \in 1 .. Len(payloads)
          BY <3>3, <3>5
        <5>2. ChunksIn(e + 1) \in Nat \ {0}
          BY <1>2, <5>1, BatchFacts
        <5>. QED
          BY <3>3, <5>1, <5>2 DEF Position
      <4>5. At(e + 1, 1)'
        BY <2>4, <4>3, <4>4 DEF At
      <4>. QED
        BY <2>2, <4>2, <4>5
    <3>. QED
      BY <1>2, <2>1, <3>2, <3>4, <3>5, NextRow
  <2>. QED
    BY <2>5, <2>6
<1>. QED
  BY <1>2, <1>3 DEF ChunksInv, ScanOK

\* Nothing is left only after the last chunk of the last entry, and until then
\* what has been read is the beginning of what went in.
LEMMA ScanReads == ChunksInv => ComesBackWhole
<1>. SUFFICES ASSUME ChunksInv, Fits
              PROVE  /\ ~failed
                     /\ todo = {} => entries = Whole
                     /\ \A i \in DOMAIN entries :
                           /\ entries[i].seqno = i
                           /\ \A k \in DOMAIN entries[i].payload :
                                 entries[i].payload[k] = payloads[i][k]
                           /\ i < Len(entries) => Len(entries[i].payload) = Len(payloads[i])
  BY DEF ComesBackWhole
<1>0. BatchOK /\ ~failed
  BY DEF ChunksInv, ScanOK
<1>1. PICK e, c : Position(e, c) /\ todo = Left(e, c) /\ entries = Read(e, c)
  BY DEF ChunksInv, ScanOK, At
<1>2. /\ Len(payloads) \in Nat /\ e \in Nat /\ c \in Nat /\ e <= Len(payloads)
      /\ e > 0 => ChunksIn(e) \in Nat \ {0} /\ c \in 1 .. ChunksIn(e)
      /\ e = 0 => c = 0
      /\ DOMAIN payloads = 1 .. Len(payloads)
  BY <1>0, <1>1, BatchFacts DEF Position
<1>3. Len(entries) = e /\ DOMAIN entries = 1 .. e
  BY <1>1, <1>2 DEF Read
<1>4. ASSUME todo = {} PROVE entries = Whole
  <2>1. e = Len(payloads)
    <3>0. e \in Nat /\ Len(payloads) \in Nat /\ e <= Len(payloads)
      BY <1>2
    <3>1. SUFFICES ASSUME e < Len(payloads) PROVE FALSE
      BY <3>0
    <3>2. e + 1 \in 1 .. Len(payloads)
      BY <1>2, <3>1
    <3>3. 1 \in 1 .. ChunksIn(e + 1)
      BY <1>0, <3>2, BatchFacts
    <3>4. Row(e + 1, 1) \in chunkArrays(payloads) /\ Row(e + 1, 1).seqno = e + 1
      BY <1>0, <3>2, <3>3, RowsThatFit DEF Row
    <3>. QED
      BY <1>1, <1>2, <1>4, <3>4 DEF Left
  <2>2. e > 0 => c = ChunksIn(e)
    <3>1. SUFFICES ASSUME e > 0, c < ChunksIn(e) PROVE FALSE
      BY <1>2
    <3>2. e \in 1 .. Len(payloads) /\ c + 1 \in 1 .. ChunksIn(e)
      BY <1>2, <3>1
    <3>3. /\ Row(e, c + 1) \in chunkArrays(payloads)
          /\ Row(e, c + 1).seqno = e /\ Row(e, c + 1).chunk = c
      BY <1>0, <1>2, <3>2, RowsThatFit DEF Row
    <3>. QED
      BY <1>1, <1>2, <1>4, <3>3 DEF Left
  <2>3. e > 0 => Payload(e, Upto(c, LenOf(e))) = payloads[e]
    <3>1. SUFFICES ASSUME e > 0 PROVE Payload(e, Upto(c, LenOf(e))) = payloads[e]
      OBVIOUS
    <3>2. e \in 1 .. Len(payloads) /\ LenOf(e) \in Nat /\ payloads[e] = Payload(e, LenOf(e))
      BY <1>0, <1>2, <3>1, BatchFacts
    <3>3. Upto(c, LenOf(e)) = LenOf(e)
      BY <1>2, <2>2, <3>1, <3>2, UptoFacts DEF ChunksIn
    <3>. QED
      BY <3>2, <3>3
  <2>4. \A i \in 1 .. e : entries[i] = [seqno |-> i, payload |-> payloads[i]]
    BY <1>1, <1>2, <2>3 DEF Read
  <2>5. entries = [i \in 1 .. e |-> entries[i]]
    BY <1>1 DEF Read
  <2>. QED
    BY <1>2, <2>1, <2>4, <2>5 DEF Whole
<1>5. ASSUME NEW i \in 1 .. e
      PROVE  /\ entries[i].seqno = i
             /\ \A k \in DOMAIN entries[i].payload : entries[i].payload[k] = payloads[i][k]
             /\ i < Len(entries) => Len(entries[i].payload) = Len(payloads[i])
  <2>1. /\ entries[i].seqno = i
        /\ i < e => entries[i].payload = payloads[i]
        /\ ~(i < e) => i = e /\ entries[i].payload = Payload(e, Upto(c, LenOf(e)))
    BY <1>1, <1>2 DEF Read
  <2>2. CASE i < e
    BY <1>3, <2>1, <2>2
  <2>3. CASE ~(i < e)
    <3>1. e \in 1 .. Len(payloads) /\ e \in Nat /\ LenOf(e) \in Nat /\ c \in 1 .. ChunkCount(LenOf(e))
      BY <1>0, <1>2, BatchFacts DEF ChunksIn
    <3>2. Upto(c, LenOf(e)) \in Nat /\ Upto(c, LenOf(e)) <= LenOf(e)
      BY <3>1, UptoFacts
    <3>3. /\ DOMAIN Payload(e, Upto(c, LenOf(e))) = 1 .. Upto(c, LenOf(e))
          /\ \A k \in 1 .. Upto(c, LenOf(e)) : Payload(e, Upto(c, LenOf(e)))[k] = <<e, k>>
      BY <3>1, <3>2, PayloadFacts
    <3>4. \A k \in 1 .. LenOf(e) : payloads[e][k] = <<e, k>>
      <4>1. payloads[e] = Payload(e, LenOf(e))
        BY <1>0, <3>1, BatchFacts
      <4>. QED
        BY <3>1, <4>1, PayloadFacts
    <3>5. \A k \in 1 .. Upto(c, LenOf(e)) : k \in 1 .. LenOf(e)
      BY <3>1, <3>2
    <3>. QED
      BY <1>3, <2>1, <2>3, <3>3, <3>4, <3>5
  <2>. QED
    BY <2>2, <2>3
<1>. QED
  BY <1>0, <1>3, <1>4, <1>5

-----------------------------------------------------------------------------
(* The rows the load tool counts. *)

\* No two chunks of a payload are the same row, even where their numbers are.
LEMMA RowsDiffer ==
    ASSUME BatchOK, NEW i \in 1 .. Len(payloads),
           NEW c \in 1 .. ChunksIn(i), NEW d \in 1 .. ChunksIn(i), c < d
    PROVE  WordRow(i, c) # WordRow(i, d)
<1>. DEFINE n == LenOf(i)
<1>0. /\ i \in Nat /\ n \in Nat /\ ChunksIn(i) \in Nat \ {0} /\ c \in Int /\ d \in Int
      /\ MaxEntryChunk \in Nat \ {0}
  BY BatchFacts, ChunkAssumption
<1>1. /\ Bytes(c - 1) \in Nat /\ Upto(c, n) \in Nat /\ Bytes(c - 1) <= Upto(c, n)
      /\ Bytes(d - 1) \in Nat /\ Upto(d, n) \in Nat /\ Bytes(d - 1) <= Upto(d, n)
  BY <1>0, UptoFacts DEF ChunksIn
<1>2. Bytes(c - 1) < Bytes(d - 1)
  <2>1. c - 1 \in Int /\ d - 1 \in Int /\ c - 1 < d - 1
    BY <1>0
  <2>2. Bytes(c - 1) + MaxEntryChunk <= Bytes(d - 1)
    BY <2>1, BytesOrder
  <2>. QED
    BY <1>0, <1>1, <2>2
<1>3. Bytes(d - 1) < Upto(d, n)
  <2>1. ChunksIn(i) > 1 /\ Bytes(ChunksIn(i) - 1) < n /\ ChunksIn(i) - 1 \in Int
    <3>1. ChunksIn(i) > 1 /\ ChunksIn(i) - 1 \in Int
      BY <1>0
    <3>2. ChunkCount(n) > 1 => Bytes(ChunkCount(n) - 1) < n
      BY <1>0, CountFacts
    <3>. QED
      BY <3>1, <3>2 DEF ChunksIn
  <2>2. Bytes(ChunksIn(i) - 1) \in Int /\ Bytes(d) \in Int /\ d - 1 \in Int
    BY <1>0, <2>1, BytesStep
  <2>3. d - 1 = ChunksIn(i) - 1 \/ d - 1 < ChunksIn(i) - 1
    BY <1>0
  <2>4. Bytes(d - 1) <= Bytes(ChunksIn(i) - 1)
    BY <1>0, <1>1, <2>1, <2>2, <2>3, BytesOrder, SMTT(30)
  <2>5. Bytes(d - 1) + MaxEntryChunk <= Bytes(d)
    BY <1>0, <2>2, BytesOrder
  <2>. QED
    BY <1>0, <1>1, <2>1, <2>2, <2>4, <2>5 DEF Upto
<1>4. /\ Len(Cut(i, d)) = Upto(d, n) - Bytes(d - 1)
      /\ \A k \in 1 .. Upto(d, n) - Bytes(d - 1) : Cut(i, d)[k] = <<i, Bytes(d - 1) + k>>
  BY <1>0, <1>1, PieceFacts DEF Cut
<1>5. /\ Len(Cut(i, c)) = Upto(c, n) - Bytes(c - 1)
      /\ \A k \in 1 .. Upto(c, n) - Bytes(c - 1) : Cut(i, c)[k] = <<i, Bytes(c - 1) + k>>
  BY <1>0, <1>1, PieceFacts DEF Cut
<1>. HIDE DEF n
<1>6. ASSUME Cut(i, c) = Cut(i, d) PROVE FALSE
  <2>1. 1 \in 1 .. Upto(d, n) - Bytes(d - 1) /\ 1 \in 1 .. Upto(c, n) - Bytes(c - 1)
    BY <1>1, <1>3, <1>4, <1>5, <1>6
  <2>2. Cut(i, d)[1] = <<i, Bytes(d - 1) + 1>> /\ Cut(i, c)[1] = <<i, Bytes(c - 1) + 1>>
    BY <1>4, <1>5, <2>1
  <2>3. Bytes(d - 1) + 1 = Bytes(c - 1) + 1
    BY <1>6, <2>2
  <2>. QED
    BY <1>1, <1>2, <2>3
<1>. QED
  BY <1>6 DEF WordRow

\* The rows of payload i are as many as the record counts.
LEMMA RowsOfPayload ==
    ASSUME BatchOK, NEW i \in 1 .. Len(payloads)
    PROVE  LET rows == {WordRow(i, c) : c \in 1 .. ChunksIn(i)}
           IN  IsFiniteSet(rows) /\ Cardinality(rows) = ChunksIn(i)
<1>. DEFINE rows == {WordRow(i, c) : c \in 1 .. ChunksIn(i)}
            m == [c \in 1 .. ChunksIn(i) |-> WordRow(i, c)]
<1>1. ChunksIn(i) \in Nat
  BY BatchFacts
<1>2. \A c, d \in 1 .. ChunksIn(i) : c # d => WordRow(i, c) # WordRow(i, d)
  <2>1. \A c, d \in 1 .. ChunksIn(i) : c # d => c < d \/ d < c
    BY <1>1
  <2>. QED
    BY <2>1, RowsDiffer
<1>3. m \in Bijection(1 .. ChunksIn(i), rows)
  BY <1>2 DEF Bijection, Injection, Surjection, IsInjective
<1>4. ExistsBijection(1 .. ChunksIn(i), rows)
  BY <1>3 DEF ExistsBijection
<1>. HIDE DEF rows
<1>5. IsFiniteSet(1 .. ChunksIn(i)) /\ Cardinality(1 .. ChunksIn(i)) = ChunksIn(i)
  BY <1>1, FS_Interval
<1>6. IsFiniteSet(rows) /\ Cardinality(rows) = ChunksIn(i)
  BY <1>4, <1>5, FS_Bijection
<1>. QED
  BY <1>6 DEF rows

LEMMA RecordIsRight == BatchOK => RecordAgrees
<1>. SUFFICES ASSUME BatchOK PROVE RecordAgrees
  OBVIOUS
<1>. DEFINE N == Len(payloads)
            rows == chunkArrays(payloads)
            X == [i \in 1 .. N |-> {WordRow(i, c) : c \in 1 .. ChunksIn(i)}]
            f == [i \in DOMAIN payloads |-> ChunkCount(Len(payloads[i]))]
<1>0. N \in Nat /\ DOMAIN payloads = 1 .. N /\ IsFiniteSet(1 .. N)
  BY BatchFacts, FS_Interval
<1>1. \A r : r \in rows <=> \E i \in 1 .. N : \E c \in 1 .. ChunksIn(i) : r = WordRow(i, c)
  BY RowsOfBatch
<1>. HIDE DEF N, rows
<1>2. \A i \in 1 .. N : IsFiniteSet(X[i]) /\ f[i] = Cardinality(X[i])
  <2>. SUFFICES ASSUME NEW i \in 1 .. N PROVE IsFiniteSet(X[i]) /\ f[i] = Cardinality(X[i])
    OBVIOUS
  <2>1. f[i] = ChunksIn(i)
    BY <1>0 DEF ChunksIn, LenOf
  <2>2. X[i] = {WordRow(i, c) : c \in 1 .. ChunksIn(i)}
    OBVIOUS
  <2>. QED
    BY <2>1, <2>2, RowsOfPayload DEF N
<1>3. \A i, j \in 1 .. N : i # j => X[i] \cap X[j] = {}
  <2>1. ASSUME NEW i \in 1 .. N, NEW r \in X[i] PROVE r.seqno = i
    BY DEF WordRow
  <2>. HIDE DEF X
  <2>. QED
    BY <2>1
<1>4. rows = UNION {X[i] : i \in 1 .. N}
  BY <1>1
<1>5. Cardinality(rows) = recordRows(payloads)
  <2>1. recordRows(payloads) = SumFunctionOnSet(f, 1 .. N)
    BY <1>0 DEF recordRows, SumFunction
  <2>. HIDE DEF X, f
  <2>. QED
    BY <1>0, <1>2, <1>3, <1>4, <2>1, SumOfSizes
<1>6. \A i \in 1 .. N : ChunkCount(Len(payloads[i])) > 1 <=>
                           \E r, q \in rows : r.seqno = i /\ q.seqno = i /\ r # q
  <2>. SUFFICES ASSUME NEW i \in 1 .. N
                PROVE  ChunksIn(i) > 1 <=> \E r, q \in rows : r.seqno = i /\ q.seqno = i /\ r # q
    BY DEF ChunksIn, LenOf
  <2>0. ChunksIn(i) \in Nat \ {0}
    BY BatchFacts DEF N
  <2>1. ASSUME ChunksIn(i) > 1 PROVE \E r, q \in rows : r.seqno = i /\ q.seqno = i /\ r # q
    <3>1. 1 \in 1 .. ChunksIn(i) /\ 2 \in 1 .. ChunksIn(i) /\ 1 < 2
      BY <2>0, <2>1
    <3>2. WordRow(i, 1) # WordRow(i, 2)
      BY <3>1, RowsDiffer DEF N
    <3>3. WordRow(i, 1) \in rows /\ WordRow(i, 2) \in rows
      BY <1>1, <3>1
    <3>4. WordRow(i, 1).seqno = i /\ WordRow(i, 2).seqno = i
      BY DEF WordRow
    <3>. QED
      BY <3>2, <3>3, <3>4
  <2>2. ASSUME NEW r \in rows, NEW q \in rows, r.seqno = i, q.seqno = i, r # q
        PROVE  ChunksIn(i) > 1
    <3>1. PICK c \in 1 .. ChunksIn(i) : r = WordRow(i, c)
      BY <1>1, <2>2 DEF WordRow
    <3>2. PICK d \in 1 .. ChunksIn(i) : q = WordRow(i, d)
      BY <1>1, <2>2 DEF WordRow
    <3>3. c # d
      BY <2>2, <3>1, <3>2
    <3>. QED
      BY <2>0, <3>3
  <2>. QED
    BY <2>1, <2>2
<1>7. recordCut(payloads) =
         Cardinality({i \in DOMAIN payloads : \E r, q \in rows : r.seqno = i /\ q.seqno = i /\ r # q})
  <2>1. {i \in DOMAIN payloads : ChunkCount(Len(payloads[i])) > 1} =
           {i \in DOMAIN payloads : \E r, q \in rows : r.seqno = i /\ q.seqno = i /\ r # q}
    BY <1>0, <1>6
  <2>. QED
    BY <2>1 DEF recordCut
<1>. QED
  BY <1>5, <1>7 DEF RecordAgrees, rows

\* RoundTrip holds of every behaviour: for any size of a chunk and any batch whose
\* chunk numbers fit the column, what ReadFrom puts together of the rows that
\* chunksOf made is what was appended; and what the load tool's record adds up is
\* what chunkArrays makes of any batch, whether or not they fit.
THEOREM RoundTripCorrect == ChunksSpec => []RoundTrip
<1>1. ChunksInv => RoundTrip
  BY ScanReads, RecordIsRight DEF ChunksInv, RoundTrip
<1>. QED
  BY ChunksInitInv, ChunksStepInv, <1>1, PTL DEF ChunksSpec

-----------------------------------------------------------------------------
(* The binary search. *)

\* Where a search may be, and one halving of it.
Spans(s) == (0 .. Len(s)) \X (0 .. Len(s))
Half(r) == (r[1] + r[2]) \div 2
Halve(s, x, g, r) ==
    IF r[1] >= r[2] THEN r[1]
    ELSE IF s[Half(r) + 1] < x THEN g[<<Half(r) + 1, r[2]>>] ELSE g[<<r[1], Half(r)>>]

\* A halving leaves a shorter span.
LEMMA HalfFacts ==
    ASSUME NEW s, Len(s) \in Nat, NEW r \in Spans(s), r[1] < r[2]
    PROVE  /\ r[1] \in Nat /\ r[2] \in Nat /\ r[2] <= Len(s)
           /\ Half(r) \in Nat /\ r[1] <= Half(r) /\ Half(r) < r[2]
           /\ <<Half(r) + 1, r[2]>> \in Spans(s) /\ <<r[1], Half(r)>> \in Spans(s)
<1>1. r[1] \in Nat /\ r[2] \in Nat /\ r[2] <= Len(s)
  BY DEF Spans
<1>2. Half(r) \in Nat /\ r[1] <= Half(r) /\ Half(r) < r[2]
  BY <1>1 DEF Half
<1>. QED
  BY <1>1, <1>2 DEF Spans

\* The search is a solution of its equation, if that has one.
LEMMA SearchHalves ==
    ASSUME NEW s, NEW x, NEW g, g = [r \in Spans(s) |-> Halve(s, x, g, r)]
    PROVE  \E f : BinarySearch(s, x) = f[<<0, Len(s)>>] /\ f = [r \in Spans(s) |-> Halve(s, x, f, r)]
<1>. DEFINE find == CHOOSE f : f = [r \in Spans(s) |-> Halve(s, x, f, r)]
<1>1. BinarySearch(s, x) = find[<<0, Len(s)>>]
  BY DEF BinarySearch, Spans, Halve, Half
<1>2. find = [r \in Spans(s) |-> Halve(s, x, find, r)]
  OBVIOUS
<1>. QED
  BY <1>1, <1>2

\* It is one up to spans of length m.
Solves(s, x, m, g) == \A r \in Spans(s) : r[2] - r[1] <= m => g[r] = Halve(s, x, g, r)

LEMMA SolvesMore ==
    ASSUME NEW s, Len(s) \in Nat, NEW x, NEW m \in Nat, NEW g, Solves(s, x, m, g)
    PROVE  \E f : Solves(s, x, m + 1, f)
<1>. DEFINE f == [r \in Spans(s) |-> Halve(s, x, g, r)]
<1>1. ASSUME NEW r \in Spans(s), r[2] - r[1] <= m PROVE f[r] = g[r]
  BY <1>1 DEF Solves
<1>2. ASSUME NEW r \in Spans(s), r[2] - r[1] <= m + 1 PROVE f[r] = Halve(s, x, f, r)
  <2>0. f[r] = Halve(s, x, g, r) /\ r[1] \in Nat /\ r[2] \in Nat
    BY DEF Spans
  <2>. HIDE DEF f
  <2>1. CASE r[1] >= r[2]
    BY <2>0, <2>1 DEF Halve
  <2>2. CASE r[1] < r[2]
    <3>1. /\ Half(r) \in Nat /\ r[1] <= Half(r) /\ Half(r) < r[2]
          /\ <<Half(r) + 1, r[2]>> \in Spans(s) /\ <<r[1], Half(r)>> \in Spans(s)
      BY <2>2, HalfFacts
    <3>2. r[2] - (Half(r) + 1) <= m /\ Half(r) - r[1] <= m
      BY <1>2, <2>0, <3>1
    <3>3. /\ f[<<Half(r) + 1, r[2]>>] = g[<<Half(r) + 1, r[2]>>]
          /\ f[<<r[1], Half(r)>>] = g[<<r[1], Half(r)>>]
      BY <1>1, <3>1, <3>2
    <3>. QED
      BY <2>0, <3>3 DEF Halve
  <2>. QED
    BY <2>0, <2>1, <2>2
<1>3. Solves(s, x, m + 1, f)
  BY <1>2 DEF Solves
<1>. QED
  BY <1>3

\* So it is one for every span there is.
LEMMA SearchEquation ==
    ASSUME NEW s, Len(s) \in Nat, NEW x
    PROVE  \E f : /\ BinarySearch(s, x) = f[<<0, Len(s)>>]
                  /\ \A r \in Spans(s) : f[r] = Halve(s, x, f, r)
<1>. DEFINE T == {m \in Nat : ~\E g : Solves(s, x, m, g)}
<1>1. T = {}
  <2>1. SUFFICES ASSUME T # {} PROVE FALSE
    OBVIOUS
  <2>2. T \subseteq Nat
    OBVIOUS
  <2>. HIDE DEF T
  <2>3. PICK n \in T : \A m \in T : n <= m
    BY <2>1, <2>2, LeastNatural
  <2>4. n \in Nat /\ ~\E g : Solves(s, x, n, g)
    BY DEF T
  <2>5. n # 0
    <3>. DEFINE g == [r \in Spans(s) |-> r[1]]
    <3>1. Solves(s, x, 0, g)
      BY DEF Solves, Halve, Spans
    <3>. QED
      BY <2>4, <3>1
  <2>6. n - 1 \in Nat /\ (n - 1) + 1 = n /\ n - 1 \notin T
    BY <2>2, <2>3, <2>4, <2>5
  <2>7. PICK g : Solves(s, x, n - 1, g)
    BY <2>6 DEF T
  <2>8. \E f : Solves(s, x, (n - 1) + 1, f)
    BY <2>6, <2>7, SolvesMore
  <2>. QED
    BY <2>4, <2>6, <2>8
<1>2. PICK g : Solves(s, x, Len(s), g)
  BY <1>1
<1>. HIDE DEF T
<1>3. \A r \in Spans(s) : g[r] = Halve(s, x, g, r)
  BY <1>2 DEF Solves, Spans
<1>. DEFINE f == [r \in Spans(s) |-> g[r]]
<1>4. ASSUME NEW r \in Spans(s) PROVE f[r] = Halve(s, x, f, r)
  <2>0. f[r] = Halve(s, x, g, r) /\ r[1] \in Nat /\ r[2] \in Nat
    BY <1>3 DEF Spans
  <2>1. CASE r[1] >= r[2]
    BY <2>0, <2>1 DEF Halve
  <2>2. CASE r[1] < r[2]
    <3>1. <<Half(r) + 1, r[2]>> \in Spans(s) /\ <<r[1], Half(r)>> \in Spans(s)
      BY <2>2, HalfFacts
    <3>2. /\ f[<<Half(r) + 1, r[2]>>] = g[<<Half(r) + 1, r[2]>>]
          /\ f[<<r[1], Half(r)>>] = g[<<r[1], Half(r)>>]
      BY <3>1
    <3>. HIDE DEF f
    <3>. QED
      BY <2>0, <3>2 DEF Halve
  <2>. QED
    BY <2>0, <2>1, <2>2
<1>5. f = [r \in Spans(s) |-> Halve(s, x, f, r)]
  BY <1>4
<1>. HIDE DEF f
<1>6. PICK h : BinarySearch(s, x) = h[<<0, Len(s)>>] /\ h = [r \in Spans(s) |-> Halve(s, x, h, r)]
  BY <1>5, SearchHalves
<1>7. \A r \in Spans(s) : h[r] = Halve(s, x, h, r)
  BY <1>6
<1>. QED
  BY <1>6, <1>7

\* What a search of span r finds: nothing below k is as large as x that it has
\* looked at, and k itself is, if it is in the span.
Found(s, x, r, k) ==
    /\ k \in r[1] .. r[2]
    /\ k = r[2] \/ s[k + 1] >= x
    /\ k = r[1] \/ s[k] < x

LEMMA SearchFinds ==
    ASSUME NEW s \in Seq(Int), NEW x \in Int
    PROVE  Found(s, x, <<0, Len(s)>>, BinarySearch(s, x))
<1>0. Len(s) \in Nat
  OBVIOUS
<1>1. PICK f : /\ BinarySearch(s, x) = f[<<0, Len(s)>>]
               /\ \A r \in Spans(s) : f[r] = Halve(s, x, f, r)
  BY <1>0, SearchEquation
<1>. DEFINE Bad(r) == r[1] <= r[2] /\ ~Found(s, x, r, f[r])
            T == {m \in Nat : \E r \in Spans(s) : r[2] - r[1] = m /\ Bad(r)}
<1>2. T = {}
  <2>1. SUFFICES ASSUME T # {} PROVE FALSE
    OBVIOUS
  <2>2. T \subseteq Nat
    OBVIOUS
  <2>. HIDE DEF T
  <2>3. PICK n \in T : \A m \in T : n <= m
    BY <2>1, <2>2, LeastNatural
  <2>4. PICK r \in Spans(s) : r[2] - r[1] = n /\ Bad(r)
    BY <2>3 DEF T
  <2>5. r[1] \in Nat /\ r[2] \in Nat /\ r[2] <= Len(s) /\ r[1] <= r[2]
    BY <1>0, <2>4 DEF Spans
  <2>6. \A q \in Spans(s) : q[1] \in Nat /\ q[2] \in Nat /\ q[1] <= q[2] /\ q[2] - q[1] < n
                              => Found(s, x, q, f[q])
    <3>. SUFFICES ASSUME NEW q \in Spans(s), q[1] \in Nat, q[2] \in Nat, q[1] <= q[2],
                         q[2] - q[1] < n, Bad(q)
                  PROVE  FALSE
      OBVIOUS
    <3>1. q[2] - q[1] \in Nat /\ q[2] - q[1] \in T
      BY DEF T
    <3>. QED
      BY <2>2, <2>3, <3>1
  <2>7. f[r] = Halve(s, x, f, r)
    BY <1>1
  <2>8. r[1] < r[2]
    <3>1. SUFFICES ASSUME r[1] = r[2] PROVE FALSE
      BY <2>5
    <3>2. f[r] = r[1]
      BY <2>5, <2>7, <3>1 DEF Halve
    <3>. QED
      BY <2>4, <2>5, <3>1, <3>2 DEF Found
  <2>. DEFINE h == Half(r)
  <2>9. /\ h \in Nat /\ r[1] <= h /\ h < r[2]
        /\ <<h + 1, r[2]>> \in Spans(s) /\ <<r[1], h>> \in Spans(s)
    BY <1>0, <2>8, HalfFacts
  <2>. HIDE DEF h, Bad
  <2>10. CASE s[h + 1] < x
    <3>. DEFINE q == <<h + 1, r[2]>>
    <3>1. f[r] = f[q]
      BY <2>5, <2>7, <2>8, <2>10 DEF Halve, h
    <3>2. q \in Spans(s) /\ q[1] = h + 1 /\ q[2] = r[2] /\ q[1] <= q[2] /\ q[2] - q[1] < n
      BY <2>4, <2>5, <2>9
    <3>. HIDE DEF q
    <3>3. Found(s, x, q, f[q])
      BY <2>5, <2>6, <2>9, <3>2, SMTT(30)
    <3>4. Found(s, x, r, f[r])
      BY <2>5, <2>9, <2>10, <3>1, <3>2, <3>3 DEF Found
    <3>. QED
      BY <2>4, <3>4 DEF Bad
  <2>11. CASE ~(s[h + 1] < x)
    <3>. DEFINE q == <<r[1], h>>
    <3>1. f[r] = f[q]
      BY <2>5, <2>7, <2>8, <2>11 DEF Halve, h
    <3>2. q \in Spans(s) /\ q[1] = r[1] /\ q[2] = h /\ q[1] <= q[2] /\ q[2] - q[1] < n
      BY <2>4, <2>5, <2>9
    <3>. HIDE DEF q
    <3>3. Found(s, x, q, f[q])
      BY <2>5, <2>6, <2>9, <3>2, SMTT(30)
    <3>4. s[h + 1] >= x
      <4>1. h + 1 \in 1 .. Len(s)
        BY <1>0, <2>5, <2>9
      <4>2. s[h + 1] \in Int
        BY <4>1
      <4>. QED
        BY <2>11, <4>2
    <3>5. Found(s, x, r, f[r])
      BY <2>5, <2>9, <3>1, <3>2, <3>3, <3>4 DEF Found
    <3>. QED
      BY <2>4, <3>5 DEF Bad
  <2>. QED
    BY <2>10, <2>11
<1>3. <<0, Len(s)>> \in Spans(s) /\ Len(s) - 0 \in Nat /\ 0 <= Len(s)
  BY <1>0 DEF Spans
<1>4. ~Bad(<<0, Len(s)>>)
  BY <1>2, <1>3
<1>. QED
  BY <1>1, <1>3, <1>4

-----------------------------------------------------------------------------
(* Numbers and fields. *)

\* A number that is an int is its own word, and every word is an int.
LEMMA WordFacts ==
    \A n \in Int : /\ word(n) \in -IntMax - 1 .. IntMax
                   /\ n \in -IntMax - 1 .. IntMax => word(n) = n
<1>. SUFFICES ASSUME NEW n \in Int
              PROVE  /\ word(n) \in -IntMax - 1 .. IntMax
                     /\ n \in -IntMax - 1 .. IntMax => word(n) = n
  OBVIOUS
<1>. DEFINE M == 2 * IntMax + 2
            a == n + IntMax + 1
<1>1. IntMax \in Nat /\ M \in Nat \ {0} /\ a \in Int
  BY SizesAssumption
<1>2. \A k \in Nat \ {0} : \A m \in Int : m % k \in 0 .. k - 1 /\ (m \in 0 .. k - 1 => m % k = m)
  OBVIOUS
<1>3. a % M \in 0 .. M - 1 /\ (a \in 0 .. M - 1 => a % M = a)
  BY <1>1, <1>2
<1>4. word(n) = (a % M) - IntMax - 1
  BY DEF word
<1>5. \A z \in 0 .. M - 1 : z - IntMax - 1 \in -IntMax - 1 .. IntMax
  BY <1>1
<1>6. n \in -IntMax - 1 .. IntMax => a \in 0 .. M - 1 /\ a - IntMax - 1 = n
  BY <1>1
<1>. HIDE DEF a, M
<1>. QED
  BY <1>3, <1>4, <1>5, <1>6

\* A size that is admitted does not wrap.
LEMMA FieldBytes ==
    ASSUME NEW f \in Field, parseBytesOK(f)
    PROVE  parseBytes(f) = f.size * f.unit /\ parseBytes(f) \in 0 .. maxPayload
<1>1. f.size \in Nat /\ f.unit \in Nat \ {0}
  <2>1. f.size \in Numbers /\ f.size >= 0 /\ f.unit \in Units
    BY DEF Field, parseBytesOK
  <2>2. f.size \in Int /\ f.unit \in 1 .. IntMax /\ IntMax \in Nat
    BY <2>1, SizesAssumption
  <2>. QED
    BY <2>1, <2>2
<1>2. maxPayload \in Nat /\ maxPayload <= IntMax /\ IntMax \in Nat
  BY SizesAssumption
<1>3. f.size <= maxPayload \div f.unit
  BY DEF parseBytesOK, BytesAdmitted
<1>4. \A a \in Nat, n \in Nat, u \in Nat \ {0} : n <= a \div u => n * u <= a /\ n * u \in Nat
  <2>. SUFFICES ASSUME NEW a \in Nat, NEW n \in Nat, NEW u \in Nat \ {0}, n <= a \div u
                PROVE  n * u <= a /\ n * u \in Nat
    OBVIOUS
  <2>. DEFINE q == a \div u
  <2>1. q \in Nat /\ u * q <= a
    OBVIOUS
  <2>. HIDE DEF q
  <2>2. n <= q
    BY DEF q
  <2>3. n * u <= q * u
    BY <2>1, <2>2
  <2>. QED
    BY <2>1, <2>3
<1>5. f.size * f.unit <= maxPayload /\ f.size * f.unit \in Nat
  BY <1>1, <1>2, <1>3, <1>4
<1>6. word(f.size * f.unit) = f.size * f.unit
  BY <1>2, <1>5, WordFacts
<1>. QED
  BY <1>2, <1>5, <1>6 DEF parseBytes

LEMMA FieldWeight ==
    ASSUME NEW f \in Field, weightOK(f) PROVE weightOf(f) \in 1 .. IntMax
<1>1. IntMax \in Nat /\ IntMax >= 1
  BY SizesAssumption
<1>2. CASE f.weight = Absent
  BY <1>1, <1>2 DEF weightOf
<1>3. CASE f.weight # Absent
  <2>1. f.weight \in Weights /\ weightOf(f) = f.weight /\ weightOf(f) > 0
    BY <1>3 DEF Field, weightOK, weightOf
  <2>2. f.weight \in Int /\ f.weight <= IntMax
    BY <2>1, SizesAssumption
  <2>. QED
    BY <1>1, <2>1, <2>2
<1>. QED
  BY <1>2, <1>3

-----------------------------------------------------------------------------
(* The invariant. *)

Class == [bytes : 0 .. maxPayload, weight : 1 .. IntMax]

\* The weights of classes cs, and what those of the first i add up to.
Weighed(cs) == [i \in DOMAIN cs |-> cs[i].weight]
Prefix(cs, i) == SumFunctionOnSet(Weighed(cs), 1 .. i)

\* What parseSizes has made of the fields it has read.
ParsedOK ==
    /\ classes \in Seq(Class) /\ cum \in Seq(-IntMax - 1 .. IntMax)
    /\ Len(cum) = Len(classes) /\ Len(classes) <= Len(fields)
    /\ \A i \in 1 .. Len(classes) : /\ classes[i].bytes = fields[i].size * fields[i].unit
                                    /\ classes[i].weight = weightOf(fields[i])
    /\ total = IF Len(cum) = 0 THEN 0 ELSE cum[Len(cum)]
    /\ outcome # "refused" => Len(fields) = Len(classes)
    /\ outcome = "parsed" => Len(classes) > 0

\* As long as the weights fit, the running totals are sums.
TotalsOK ==
    Prefix(classes, Len(classes)) <= IntMax =>
        \A i \in 1 .. Len(classes) : cum[i] = Prefix(classes, i)

SizesInv == SizesTypeOK /\ ParsedOK /\ TotalsOK

LEMMA WeighedFacts ==
    ASSUME NEW cs \in Seq(Class)
    PROVE  /\ Len(cs) \in Nat /\ DOMAIN cs = 1 .. Len(cs)
           /\ \A i \in 1 .. Len(cs) : /\ Weighed(cs)[i] = cs[i].weight
                                      /\ cs[i].weight \in Nat \ {0}
                                      /\ cs[i].bytes \in Nat
<1>1. Len(cs) \in Nat /\ DOMAIN cs = 1 .. Len(cs)
  OBVIOUS
<1>2. ASSUME NEW i \in 1 .. Len(cs)
      PROVE  /\ Weighed(cs)[i] = cs[i].weight
             /\ cs[i].weight \in Nat \ {0} /\ cs[i].bytes \in Nat
  <2>1. cs[i] \in Class /\ IntMax \in Nat /\ maxPayload \in Nat
    BY SizesAssumption
  <2>. QED
    BY <1>1, <2>1 DEF Class, Weighed
<1>. QED
  BY <1>1, <1>2

\* The sum of the first i weights, from that of the first i - 1.
LEMMA PrefixFacts ==
    ASSUME NEW cs \in Seq(Class)
    PROVE  /\ Prefix(cs, 0) = 0
           /\ \A i \in 0 .. Len(cs) : Prefix(cs, i) \in Nat
           /\ \A i \in 1 .. Len(cs) : Prefix(cs, i) = Prefix(cs, i - 1) + cs[i].weight
           /\ \A i, j \in 0 .. Len(cs) : i <= j => Prefix(cs, i) <= Prefix(cs, j)
<1>0. /\ Len(cs) \in Nat
      /\ \A i \in 1 .. Len(cs) : Weighed(cs)[i] = cs[i].weight /\ Weighed(cs)[i] \in Nat
  BY WeighedFacts
<1>1. Prefix(cs, 0) = 0
  <2>1. 1 .. 0 = {}
    OBVIOUS
  <2>. QED
    BY <2>1, SumOfNone DEF Prefix
<1>2. ASSUME NEW i \in 0 .. Len(cs)
      PROVE  IsFiniteSet(1 .. i) /\ \A j \in 1 .. i : Weighed(cs)[j] \in Nat
  BY <1>0, FS_Interval
<1>3. ASSUME NEW i \in 0 .. Len(cs) PROVE Prefix(cs, i) \in Nat
  BY <1>2, SumIsUnits DEF Prefix
<1>4. ASSUME NEW i \in 1 .. Len(cs) PROVE Prefix(cs, i) = Prefix(cs, i - 1) + cs[i].weight
  <2>. DEFINE A == 1 .. i - 1
              B == {i}
  <2>1. /\ IsFiniteSet(A) /\ IsFiniteSet(B) /\ A \cap B = {} /\ A \cup B = 1 .. i
        /\ \A j \in A \cup B : Weighed(cs)[j] \in Nat
    <3>0. 1 \in Int /\ i - 1 \in Int
      BY <1>0
    <3>1. IsFiniteSet(A) /\ IsFiniteSet(B)
      BY <3>0, FS_Interval, FS_Singleton
    <3>2. A \cap B = {} /\ A \cup B = 1 .. i
      BY <1>0
    <3>3. \A j \in 1 .. i : Weighed(cs)[j] \in Nat
      BY <1>0
    <3>. QED
      BY <3>1, <3>2, <3>3
  <2>2. Weighed(cs)[i] \in Nat /\ Weighed(cs)[i] = cs[i].weight
    BY <1>0
  <2>3. SumFunctionOnSet(Weighed(cs), B) = Weighed(cs)[i]
    BY <2>2, SumOfOne
  <2>4. Prefix(cs, i - 1) = SumFunctionOnSet(Weighed(cs), A)
    BY DEF Prefix
  <2>. HIDE DEF A, B
  <2>5. SumFunctionOnSet(Weighed(cs), A \cup B) = SumFunctionOnSet(Weighed(cs), A) + SumFunctionOnSet(Weighed(cs), B)
    BY <2>1, SumSplits
  <2>6. SumFunctionOnSet(Weighed(cs), A \cup B) = Prefix(cs, i)
    BY <2>1, Zenon DEF Prefix
  <2>. QED
    BY <2>2, <2>3, <2>4, <2>5, <2>6
<1>5. ASSUME NEW i \in 0 .. Len(cs), NEW j \in 0 .. Len(cs), i <= j
      PROVE  Prefix(cs, i) <= Prefix(cs, j)
  <2>1. 1 .. i \subseteq 1 .. j
    BY <1>0, <1>5
  <2>. QED
    BY <1>2, <2>1, SumGrows DEF Prefix
<1>. QED
  BY <1>1, <1>3, <1>4, <1>5

LEMMA FitFacts ==
    ASSUME classes \in Seq(Class) PROVE WeightsFit <=> Prefix(classes, Len(classes)) <= IntMax
<1>1. DOMAIN classes = 1 .. Len(classes)
  OBVIOUS
<1>. QED
  BY <1>1 DEF WeightsFit, Prefix, Weighed, SumFunction

\* The search finds a class for every draw, and the one whose running totals the
\* draw lies between.
LEMMA ClassDrawn ==
    ASSUME ParsedOK, NEW k \in 0 .. total - 1
    PROVE  /\ classDrawn(k) \in 1 .. Len(classes)
           /\ cum[classDrawn(k)] >= k + 1
           /\ classDrawn(k) > 1 => cum[classDrawn(k) - 1] < k + 1
<1>. DEFINE n == Len(classes)
            b == BinarySearch(cum, k + 1)
<1>0. /\ n \in Nat /\ Len(cum) = n /\ cum \in Seq(Int) /\ IntMax \in Nat
      /\ total = IF n = 0 THEN 0 ELSE cum[n]
  <2>1. IntMax \in Nat /\ -IntMax - 1 .. IntMax \subseteq Int
    BY SizesAssumption
  <2>2. cum \in Seq(Int)
    BY <2>1, SeqMonotonic DEF ParsedOK
  <2>. QED
    BY <2>1, <2>2 DEF ParsedOK
<1>1. /\ total \in Int /\ k \in Nat /\ k + 1 <= total /\ n > 0 /\ total = cum[n]
  <2>1. n > 0 => cum[n] \in Int
    BY <1>0
  <2>2. total \in Int
    BY <1>0, <2>1
  <2>3. k \in Nat /\ k + 1 <= total
    BY <2>2
  <2>. QED
    BY <1>0, <2>2, <2>3
<1>2. Found(cum, k + 1, <<0, n>>, b)
  <2>1. k + 1 \in Int
    BY <1>1
  <2>. QED
    BY <1>0, <2>1, SearchFinds
<1>. HIDE DEF n, b
<1>3. b \in 0 .. n /\ (b = n \/ cum[b + 1] >= k + 1) /\ (b = 0 \/ cum[b] < k + 1)
  BY <1>2 DEF Found
<1>4. b # n
  BY <1>0, <1>1, <1>3
<1>5. classDrawn(k) = b + 1
  BY DEF classDrawn, b
<1>6. b \in 0 .. n - 1 /\ b + 1 \in 1 .. n /\ (b + 1) - 1 = b /\ (b + 1 > 1 => b # 0)
  BY <1>0, <1>3, <1>4
<1>. QED
  BY <1>3, <1>4, <1>5, <1>6 DEF n

LEMMA SizesInitInv == SizesInit => SizesInv
<1>. SUFFICES ASSUME SizesInit PROVE SizesInv
  OBVIOUS
<1>1. IntMax \in Nat /\ maxPayload \in Nat
  BY SizesAssumption
<1>2. classes = <<>> /\ Len(classes) = 0 /\ cum = <<>> /\ Len(cum) = 0 /\ fields = <<>>
  BY DEF SizesInit
<1>3. SizesTypeOK
  BY <1>1 DEF SizesInit, SizesTypeOK, None
<1>4. ParsedOK
  BY <1>1 DEF SizesInit, ParsedOK
<1>5. TotalsOK
  BY <1>2 DEF TotalsOK
<1>. QED
  BY <1>3, <1>4, <1>5 DEF SizesInv

\* A class more leaves the sums before it as they were.
LEMMA PrefixAppend ==
    ASSUME NEW cs \in Seq(Class), NEW d \in Class
    PROVE  /\ \A i \in 0 .. Len(cs) : Prefix(Append(cs, d), i) = Prefix(cs, i)
           /\ Prefix(Append(cs, d), Len(cs) + 1) = Prefix(cs, Len(cs)) + d.weight
<1>. DEFINE ds == Append(cs, d)
<1>1. /\ ds \in Seq(Class) /\ Len(cs) \in Nat /\ Len(ds) = Len(cs) + 1
      /\ \A i \in 1 .. Len(cs) : ds[i] = cs[i]
      /\ ds[Len(cs) + 1] = d
  BY AppendProperties
<1>. HIDE DEF ds
<1>2. ASSUME NEW i \in 0 .. Len(cs) PROVE Prefix(ds, i) = Prefix(cs, i)
  <2>1. IsFiniteSet(1 .. i)
    BY <1>1, FS_Interval
  <2>2. \A j \in 1 .. i : Weighed(cs)[j] \in Nat /\ Weighed(ds)[j] = Weighed(cs)[j]
    <3>. SUFFICES ASSUME NEW j \in 1 .. i
                  PROVE  Weighed(cs)[j] \in Nat /\ Weighed(ds)[j] = Weighed(cs)[j]
      OBVIOUS
    <3>1. j \in 1 .. Len(cs) /\ j \in 1 .. Len(ds)
      BY <1>1
    <3>2. Weighed(cs)[j] = cs[j].weight /\ cs[j].weight \in Nat
      BY <3>1, WeighedFacts
    <3>3. Weighed(ds)[j] = ds[j].weight
      BY <1>1, <3>1, WeighedFacts
    <3>. QED
      BY <1>1, <3>1, <3>2, <3>3
  <2>. QED
    BY <2>1, <2>2, SumSame DEF Prefix
<1>3. Prefix(ds, Len(cs) + 1) = Prefix(ds, Len(cs)) + d.weight
  <2>1. Len(cs) + 1 \in 1 .. Len(ds) /\ (Len(cs) + 1) - 1 = Len(cs)
    BY <1>1
  <2>. QED
    BY <1>1, <2>1, PrefixFacts
<1>4. Prefix(ds, Len(cs)) = Prefix(cs, Len(cs))
  BY <1>1, <1>2
<1>. QED
  BY <1>2, <1>3, <1>4 DEF ds

LEMMA ParseFieldInv ==
    ASSUME SizesInv, NEW f \in Field, ParseField(f) PROVE SizesInv'
<1>. DEFINE C == [bytes |-> parseBytes(f), weight |-> weightOf(f)]
            w == weightOf(f)
            n == Len(classes)
            sum == word(total + w)
<1>1. /\ C \in Class /\ w \in 1 .. IntMax /\ parseBytes(f) = f.size * f.unit
      /\ IntMax \in Nat /\ maxPayload \in Nat
  BY FieldBytes, FieldWeight, SizesAssumption DEF ParseField, Class
<1>2. /\ classes \in Seq(Class) /\ cum \in Seq(-IntMax - 1 .. IntMax) /\ fields \in Seq(Field)
      /\ Len(cum) = n /\ Len(fields) = n /\ total \in -IntMax - 1 .. IntMax
      /\ n \in Nat
  BY DEF SizesInv, SizesTypeOK, ParsedOK, ParseField
<1>3. sum \in -IntMax - 1 .. IntMax /\ total + w \in Int
  <2>1. total + w \in Int
    BY <1>1, <1>2
  <2>. QED
    BY <2>1, WordFacts
<1>4. /\ classes' = Append(classes, C) /\ cum' = Append(cum, sum) /\ fields' = Append(fields, f)
      /\ total' = sum /\ outcome' = "parsing" /\ entry' = entry
  BY DEF ParseField
<1>. HIDE DEF C, w, sum
<1>5. /\ classes' \in Seq(Class) /\ Len(classes') = n + 1 /\ classes'[n + 1] = C
      /\ \A i \in 1 .. n : classes'[i] = classes[i]
  BY <1>1, <1>2, <1>4, AppendProperties
<1>6. /\ cum' \in Seq(-IntMax - 1 .. IntMax) /\ Len(cum') = n + 1 /\ cum'[n + 1] = sum
      /\ \A i \in 1 .. n : cum'[i] = cum[i]
  <2>. DEFINE R == -IntMax - 1 .. IntMax
  <2>1. cum \in Seq(R) /\ sum \in R
    BY <1>2, <1>3
  <2>. HIDE DEF R
  <2>2. /\ Append(cum, sum) \in Seq(R) /\ Len(Append(cum, sum)) = Len(cum) + 1
        /\ Append(cum, sum)[Len(cum) + 1] = sum
        /\ \A i \in 1 .. Len(cum) : Append(cum, sum)[i] = cum[i]
    BY <2>1, AppendProperties
  <2>. QED
    BY <1>2, <1>4, <2>2 DEF R
<1>7. /\ fields' \in Seq(Field) /\ Len(fields') = n + 1 /\ fields'[n + 1] = f
      /\ \A i \in 1 .. n : fields'[i] = fields[i]
  BY <1>2, <1>4, AppendProperties
<1>. HIDE DEF n
<1>8. SizesTypeOK'
  <2>1. \A i \in DOMAIN classes' : /\ classes'[i].bytes \in 0 .. maxPayload
                                   /\ classes'[i].weight \in 1 .. IntMax
    <3>1. ASSUME NEW i \in DOMAIN classes' PROVE classes'[i] \in Class
      BY <1>5, LenProperties
    <3>. QED
      BY <3>1 DEF Class
  <2>. QED
    BY <1>3, <1>4, <1>6, <1>7, <2>1 DEF SizesInv, SizesTypeOK
<1>9. ParsedOK'
  <2>1. ASSUME NEW i \in 1 .. n + 1
        PROVE  /\ classes'[i].bytes = fields'[i].size * fields'[i].unit
               /\ classes'[i].weight = weightOf(fields'[i])
    <3>1. CASE i = n + 1
      BY <1>1, <1>5, <1>7, <3>1 DEF C, w
    <3>2. CASE i \in 1 .. n
      <4>1. /\ classes[i].bytes = fields[i].size * fields[i].unit
            /\ classes[i].weight = weightOf(fields[i])
        BY <3>2 DEF SizesInv, ParsedOK, n
      <4>. QED
        BY <1>5, <1>7, <3>2, <4>1
    <3>. QED
      BY <1>2, <3>1, <3>2
  <2>. QED
    BY <1>2, <1>4, <1>5, <1>6, <1>7, <2>1 DEF ParsedOK
<1>10. TotalsOK'
  <2>1. /\ \A i \in 0 .. n : Prefix(classes', i) = Prefix(classes, i)
        /\ Prefix(classes', n + 1) = Prefix(classes, n) + w
    <3>1. C.weight = w
      BY DEF C, w
    <3>2. /\ \A i \in 0 .. Len(classes) : Prefix(Append(classes, C), i) = Prefix(classes, i)
          /\ Prefix(Append(classes, C), Len(classes) + 1) = Prefix(classes, Len(classes)) + C.weight
      BY <1>1, <1>2, PrefixAppend
    <3>. QED
      BY <1>4, <3>1, <3>2 DEF n
  <2>2. Prefix(classes, 0) = 0 /\ \A i \in 0 .. n : Prefix(classes, i) \in Nat
    BY <1>2, PrefixFacts DEF n
  <2>3. ASSUME Prefix(classes', n + 1) <= IntMax
        PROVE  \A i \in 1 .. n + 1 : cum'[i] = Prefix(classes', i)
    <3>1. Prefix(classes, n) \in Nat /\ Prefix(classes, n) <= IntMax
      BY <1>1, <1>2, <2>1, <2>2, <2>3
    <3>2. \A i \in 1 .. n : cum[i] = Prefix(classes, i)
      BY <3>1 DEF SizesInv, TotalsOK, n
    <3>3. total = Prefix(classes, n)
      <4>1. total = IF n = 0 THEN 0 ELSE cum[n]
        BY <1>2 DEF SizesInv, ParsedOK
      <4>. QED
        BY <1>2, <2>2, <3>2, <4>1
    <3>4. sum = Prefix(classes', n + 1)
      <4>1. total + w = Prefix(classes', n + 1) /\ total + w \in -IntMax - 1 .. IntMax
        BY <1>1, <1>2, <2>1, <2>3, <3>1, <3>3
      <4>. QED
        BY <1>3, <4>1, WordFacts DEF sum
    <3>5. ASSUME NEW i \in 1 .. n PROVE cum'[i] = Prefix(classes', i)
      BY <1>2, <1>6, <2>1, <3>2
    <3>. QED
      BY <1>2, <1>6, <3>4, <3>5
  <2>. QED
    BY <1>5, <2>3 DEF TotalsOK
<1>. QED
  BY <1>8, <1>9, <1>10 DEF SizesInv

\* The corpus is more than twice the largest class, and an entry fits it.
LEMMA CorpusFacts ==
    ASSUME ParsedOK, Len(classes) > 0
    PROVE  /\ corpusSize \in Nat \ {0}
           /\ \A i \in 1 .. Len(classes) : 2 * classes[i].bytes <= corpusSize
<1>. DEFINE T == {classes[i].bytes : i \in DOMAIN classes}
<1>1. /\ classes \in Seq(Class) /\ Len(classes) \in Nat /\ DOMAIN classes = 1 .. Len(classes)
      /\ maxPayload \in Nat /\ corpusMin \in Nat \ {0}
  BY SizesAssumption, LenProperties DEF ParsedOK
<1>2. \A i \in 1 .. Len(classes) : classes[i].bytes \in 0 .. maxPayload
  <2>1. ASSUME NEW i \in 1 .. Len(classes) PROVE classes[i] \in Class
    BY <1>1, ElementOfSeq
  <2>. QED
    BY <2>1 DEF Class
<1>3. T \subseteq 0 .. maxPayload /\ T # {} /\ \A i \in 1 .. Len(classes) : classes[i].bytes \in T
  <2>1. 1 \in 1 .. Len(classes)
    BY <1>1
  <2>. QED
    BY <1>1, <1>2, <2>1
<1>4. largest = Max(T)
  BY DEF largest
<1>. HIDE DEF T
<1>5. largest \in T /\ \A m \in T : m <= largest
  BY <1>1, <1>3, <1>4, GreatestNatural
<1>6. largest \in Nat /\ 2 * largest \in Int /\ corpusMin \in Int
  BY <1>1, <1>3, <1>5
<1>7. corpusSize = IF corpusMin >= 2 * largest THEN corpusMin ELSE 2 * largest
  BY <1>6, MaxOfTwo DEF corpusSize
<1>8. corpusSize \in Nat \ {0} /\ 2 * largest <= corpusSize
  BY <1>1, <1>6, <1>7
<1>9. \A i \in 1 .. Len(classes) : classes[i].bytes <= largest /\ classes[i].bytes \in Nat
  BY <1>1, <1>2, <1>3, <1>5
<1>. QED
  BY <1>6, <1>8, <1>9

LEMMA SizesStepInv == SizesInv /\ [SizesNext]_sizesVars => SizesInv'
<1>. SUFFICES ASSUME SizesInv, [SizesNext]_sizesVars PROVE SizesInv'
  OBVIOUS
<1>1. ASSUME NEW f \in Field, ParseField(f) PROVE SizesInv'
  BY <1>1, ParseFieldInv
<1>2. ASSUME NEW f \in Field, RefuseField(f) PROVE SizesInv'
  <2>1. /\ fields' = Append(fields, f) /\ outcome' = "refused"
        /\ UNCHANGED <<classes, cum, total, entry>>
    BY <1>2 DEF RefuseField
  <2>2. fields \in Seq(Field) /\ Len(classes) \in Nat /\ Len(fields) = Len(classes)
    BY <1>2 DEF SizesInv, SizesTypeOK, ParsedOK, RefuseField
  <2>3. /\ fields' \in Seq(Field) /\ Len(fields') = Len(fields) + 1
        /\ \A i \in 1 .. Len(fields) : fields'[i] = fields[i]
    BY <2>1, <2>2, AppendProperties
  <2>4. SizesTypeOK'
    BY <2>1, <2>3 DEF SizesInv, SizesTypeOK
  <2>5. ParsedOK'
    BY <2>1, <2>2, <2>3 DEF SizesInv, ParsedOK
  <2>6. TotalsOK'
    BY <2>1 DEF SizesInv, TotalsOK, Prefix, Weighed
  <2>. QED
    BY <2>4, <2>5, <2>6 DEF SizesInv
<1>3. CASE EndOfFlag
  <2>1. /\ outcome' = "parsed" /\ fields # <<>> /\ outcome = "parsing"
        /\ UNCHANGED <<fields, classes, cum, total, entry>>
    BY <1>3 DEF EndOfFlag
  <2>2. SizesTypeOK' /\ TotalsOK'
    BY <2>1 DEF SizesInv, SizesTypeOK, TotalsOK, Prefix, Weighed
  <2>3. Len(classes) > 0
    <3>1. fields \in Seq(Field) /\ Len(fields) = Len(classes)
      BY <2>1 DEF SizesInv, SizesTypeOK, ParsedOK
    <3>. QED
      BY <2>1, <3>1
  <2>4. ParsedOK'
    BY <2>1, <2>3 DEF SizesInv, ParsedOK
  <2>. QED
    BY <2>2, <2>4 DEF SizesInv
<1>4. ASSUME outcome = "parsed", NEW k \in 0 .. total - 1, NEW off \in 0 .. corpusSize - draw(k),
             DrawEntry(k, off)
      PROVE  SizesInv'
  <2>1. entry' = [off |-> off, n |-> draw(k)] /\ UNCHANGED <<outcome, fields, classes, cum, total>>
    BY <1>4 DEF DrawEntry
  <2>2. ParsedOK /\ Len(classes) > 0
    BY <1>4 DEF SizesInv, ParsedOK
  <2>3. classDrawn(k) \in 1 .. Len(classes)
    BY <2>2, ClassDrawn
  <2>4. draw(k) \in 0 .. maxPayload /\ maxPayload \in Nat
    <3>1. classes \in Seq(Class)
      BY <2>2 DEF ParsedOK
    <3>2. classes[classDrawn(k)] \in Class
      BY <2>3, <3>1, ElementOfSeq
    <3>. QED
      BY <3>2, SizesAssumption DEF draw, Class
  <2>5. corpusSize \in Nat
    BY <2>2, CorpusFacts
  <2>6. off \in Nat
    BY <2>4, <2>5
  <2>7. SizesTypeOK'
    BY <2>1, <2>4, <2>6 DEF SizesInv, SizesTypeOK
  <2>8. ParsedOK' /\ TotalsOK'
    BY <2>1 DEF SizesInv, ParsedOK, TotalsOK, Prefix, Weighed
  <2>. QED
    BY <2>7, <2>8 DEF SizesInv
<1>5. CASE UNCHANGED sizesVars
  BY <1>5 DEF SizesInv, SizesTypeOK, ParsedOK, TotalsOK, Prefix, Weighed, sizesVars
<1>. QED
  BY <1>1, <1>2, <1>3, <1>4, <1>5 DEF SizesNext

-----------------------------------------------------------------------------
(* The draws of a class. *)

\* The draws that class i has.
DrawsOf(i) == Prefix(classes, i - 1) .. Prefix(classes, i) - 1

\* As long as the weights fit, they are as many as its weight, no two classes
\* share one, and they are all there are.
LEMMA DrawFacts ==
    ASSUME ParsedOK, TotalsOK, WeightsFit, outcome = "parsed"
    PROVE  /\ total = Prefix(classes, Len(classes)) /\ total \in 0 .. IntMax
           /\ \A i \in 1 .. Len(classes) :
                 /\ DrawsOf(i) = {k \in 0 .. total - 1 : classDrawn(k) = i}
                 /\ IsFiniteSet(DrawsOf(i)) /\ Cardinality(DrawsOf(i)) = classes[i].weight
<1>. DEFINE n == Len(classes)
            P(i) == Prefix(classes, i)
<1>1. /\ classes \in Seq(Class) /\ n \in Nat /\ n > 0 /\ Len(cum) = n /\ total = cum[n]
      /\ IntMax \in Nat
  BY SizesAssumption DEF ParsedOK
<1>2. P(n) <= IntMax
  BY <1>1, FitFacts
<1>3. \A i \in 1 .. n : cum[i] = P(i)
  BY <1>2 DEF TotalsOK
<1>4. /\ P(0) = 0
      /\ \A i \in 0 .. n : P(i) \in Nat
      /\ \A i \in 1 .. n : P(i) = P(i - 1) + classes[i].weight
      /\ \A i, j \in 0 .. n : i <= j => P(i) <= P(j)
  BY <1>1, PrefixFacts
<1>5. \A i \in 1 .. n : classes[i].weight \in Nat \ {0}
  BY <1>1, WeighedFacts
<1>6. ASSUME NEW k \in 0 .. total - 1
      PROVE  /\ classDrawn(k) \in 1 .. n
             /\ cum[classDrawn(k)] >= k + 1
             /\ classDrawn(k) > 1 => cum[classDrawn(k) - 1] < k + 1
  BY ClassDrawn
<1>. HIDE DEF n, P
<1>7. total = P(n) /\ total \in 0 .. IntMax
  BY <1>1, <1>2, <1>3, <1>4
<1>8. ASSUME NEW i \in 1 .. n
      PROVE  P(i - 1) .. P(i) - 1 = {k \in 0 .. total - 1 : classDrawn(k) = i}
  <2>1. /\ i - 1 \in 0 .. n /\ i \in 0 .. n /\ P(i - 1) \in Nat /\ P(i) \in Nat /\ P(i) <= total
        /\ total \in Nat
    <3>1. i - 1 \in 0 .. n /\ i \in 0 .. n /\ n \in 0 .. n /\ i <= n
      BY <1>1
    <3>2. P(i - 1) \in Nat /\ P(i) \in Nat
      BY <1>4, <3>1
    <3>3. P(i) <= P(n)
      BY <1>4, <3>1
    <3>. QED
      BY <1>1, <1>7, <3>1, <3>2, <3>3
  <2>2. ASSUME NEW k \in 0 .. total - 1, classDrawn(k) = i PROVE k \in P(i - 1) .. P(i) - 1
    <3>1. P(i) >= k + 1
      BY <1>3, <1>6, <2>2
    <3>2. i > 1 => P(i - 1) < k + 1
      <4>1. i > 1 => i - 1 \in 1 .. n
        BY <1>1
      <4>2. i > 1 => cum[i - 1] < k + 1
        BY <1>6, <2>2
      <4>. QED
        BY <1>3, <4>1, <4>2
    <3>3. i = 1 => P(i - 1) = 0
      BY <1>4
    <3>4. i > 1 \/ i = 1
      BY <1>1
    <3>5. k \in Nat
      BY <2>1
    <3>. QED
      BY <2>1, <3>1, <3>2, <3>3, <3>4, <3>5
  <2>3. ASSUME NEW k \in P(i - 1) .. P(i) - 1 PROVE k \in 0 .. total - 1 /\ classDrawn(k) = i
    <3>1. k \in 0 .. total - 1 /\ k \in Nat /\ k + 1 <= P(i) /\ P(i - 1) <= k
      BY <2>1
    <3>. DEFINE j == classDrawn(k)
    <3>2. j \in 1 .. n /\ P(j) >= k + 1 /\ (j > 1 => cum[j - 1] < k + 1)
      BY <1>3, <1>6, <3>1
    <3>. HIDE DEF j
    <3>3. ~(j < i)
      <4>1. j < i => j \in 0 .. n /\ j <= i - 1
        BY <1>1, <3>2
      <4>2. j < i => P(j) <= P(i - 1) /\ P(j) \in Nat
        BY <1>4, <2>1, <4>1
      <4>. QED
        BY <2>1, <3>1, <3>2, <4>2
    <3>4. ~(j > i)
      <4>1. j > i => j > 1 /\ j - 1 \in 1 .. n /\ j - 1 \in 0 .. n /\ i <= j - 1
        BY <1>1, <3>2
      <4>2. j > i => P(j - 1) < k + 1 /\ P(i) <= P(j - 1) /\ P(j - 1) \in Nat
        BY <1>3, <1>4, <2>1, <3>2, <4>1
      <4>. QED
        BY <2>1, <3>1, <4>2
    <3>5. j = i
      BY <1>1, <3>2, <3>3, <3>4
    <3>. QED
      BY <3>1, <3>5 DEF j
  <2>. QED
    BY <2>2, <2>3
<1>9. ASSUME NEW i \in 1 .. n
      PROVE  /\ IsFiniteSet(P(i - 1) .. P(i) - 1)
             /\ Cardinality(P(i - 1) .. P(i) - 1) = classes[i].weight
  <2>. DEFINE a == P(i - 1)
              b == P(i) - 1
              w == classes[i].weight
  <2>1. a \in Int /\ b \in Int /\ w \in Nat \ {0} /\ b = a + w - 1
    <3>1. i - 1 \in 0 .. n /\ i \in 0 .. n
      BY <1>1
    <3>2. P(i - 1) \in Nat /\ P(i) \in Nat /\ P(i) = P(i - 1) + w
      BY <1>4, <3>1
    <3>. QED
      BY <1>5, <3>2
  <2>. HIDE DEF a, b, w
  <2>2. IsFiniteSet(a .. b) /\ Cardinality(a .. b) = IF a > b THEN 0 ELSE b - a + 1
    BY <2>1, FS_Interval
  <2>3. Cardinality(a .. b) = w
    BY <2>1, <2>2
  <2>. QED
    BY <2>2, <2>3 DEF a, b, w
<1>. QED
  BY <1>7, <1>8, <1>9 DEF DrawsOf, n, P

\* What parseSizes has made of a flag is drawn as the flag asked: sizes do not
\* wrap, every class has its weight in draws, and the corpus has room for each.
THEOREM DrawnAsAskedCorrect == SizesSpec => []DrawnAsAsked
<1>1. SizesInv => DrawnAsAsked
  <2>. SUFFICES ASSUME SizesInv PROVE DrawnAsAsked
    OBVIOUS
  <2>1. SizesTypeOK /\ ParsedOK /\ TotalsOK
    BY DEF SizesInv
  <2>2. ASSUME outcome = "parsed", NEW i \in DOMAIN classes
        PROVE  /\ classes[i].bytes = fields[i].size * fields[i].unit
               /\ corpusSize - classes[i].bytes + 1 > classes[i].bytes
               /\ WeightsFit =>
                     Cardinality({k \in 0 .. total - 1 : classDrawn(k) = i}) = weightOf(fields[i])
    <3>1. classes \in Seq(Class) /\ Len(classes) > 0 /\ DOMAIN classes = 1 .. Len(classes)
      BY <2>1, <2>2 DEF ParsedOK
    <3>2. i \in 1 .. Len(classes)
      BY <2>2, <3>1
    <3>3. /\ classes[i].bytes = fields[i].size * fields[i].unit
          /\ classes[i].weight = weightOf(fields[i])
      BY <2>1, <3>2 DEF ParsedOK
    <3>4. corpusSize \in Nat /\ 2 * classes[i].bytes <= corpusSize /\ classes[i].bytes \in Nat
      BY <2>1, <3>1, <3>2, CorpusFacts, WeighedFacts
    <3>5. corpusSize - classes[i].bytes + 1 > classes[i].bytes
      BY <3>4
    <3>6. ASSUME WeightsFit
          PROVE  Cardinality({k \in 0 .. total - 1 : classDrawn(k) = i}) = classes[i].weight
      BY <2>1, <2>2, <3>2, <3>6, DrawFacts
    <3>. QED
      BY <3>3, <3>5, <3>6
  <2>. QED
    BY <2>1, <2>2 DEF DrawnAsAsked
<1>. QED
  BY <1>1, SizesInitInv, SizesStepInv, PTL DEF SizesSpec

-----------------------------------------------------------------------------
(* The plan. *)

\* Summed over the classes or over the draws, the bytes are the same.
LEMMA MeanOfDraws ==
    ASSUME ParsedOK, TotalsOK, WeightsFit, outcome = "parsed"
    PROVE  /\ SumFunction(bytesTimesWeight) \in Nat
           /\ SumFunction(bytesTimesWeight) = SumFunction([k \in 0 .. total - 1 |-> draw(k)])
<1>. DEFINE n == Len(classes)
            K == 0 .. total - 1
            d == [k \in K |-> draw(k)]
            X == [i \in 1 .. n |-> DrawsOf(i) \X (1 .. classes[i].bytes)]
            U == UNION {X[i] : i \in 1 .. n}
<1>1. /\ classes \in Seq(Class) /\ n \in Nat /\ DOMAIN classes = 1 .. n
      /\ \A i \in 1 .. n : classes[i].weight \in Nat /\ classes[i].bytes \in Nat
  <2>1. classes \in Seq(Class)
    BY DEF ParsedOK
  <2>. QED
    BY <2>1, WeighedFacts
<1>2. /\ total \in Nat
      /\ \A i \in 1 .. n : /\ DrawsOf(i) = {k \in K : classDrawn(k) = i}
                           /\ IsFiniteSet(DrawsOf(i)) /\ Cardinality(DrawsOf(i)) = classes[i].weight
  <2>1. IntMax \in Nat /\ total \in 0 .. IntMax
    BY DrawFacts, SizesAssumption
  <2>2. total \in Nat
    BY <2>1
  <2>. QED
    BY <2>2, DrawFacts
<1>3. \A k \in K : classDrawn(k) \in 1 .. n /\ draw(k) = classes[classDrawn(k)].bytes
  BY ClassDrawn DEF draw
<1>. HIDE DEF n, K
<1>4. IsFiniteSet(1 .. n) /\ IsFiniteSet(K)
  BY <1>1, <1>2, FS_Interval DEF K
<1>5. ASSUME NEW i \in 1 .. n
      PROVE  IsFiniteSet(X[i]) /\ bytesTimesWeight[i] = Cardinality(X[i])
  <2>. DEFINE A == DrawsOf(i)
              b == classes[i].bytes
  <2>1. IsFiniteSet(A) /\ Cardinality(A) = classes[i].weight /\ classes[i].weight \in Nat /\ b \in Nat
    BY <1>1, <1>2
  <2>. HIDE DEF A, b
  <2>2. IsFiniteSet(1 .. b) /\ Cardinality(1 .. b) = b
    <3>1. 1 \in Int /\ b \in Int
      BY <2>1
    <3>2. IsFiniteSet(1 .. b) /\ Cardinality(1 .. b) = IF 1 > b THEN 0 ELSE b - 1 + 1
      BY <3>1, FS_Interval
    <3>. QED
      BY <2>1, <3>2
  <2>3. IsFiniteSet(A \X (1 .. b)) /\ Cardinality(A \X (1 .. b)) = Cardinality(A) * Cardinality(1 .. b)
    BY <2>1, <2>2, FS_Product
  <2>4. X[i] = A \X (1 .. b)
    BY DEF A, b
  <2>5. bytesTimesWeight[i] = b * classes[i].weight
    BY <1>1 DEF bytesTimesWeight, b
  <2>. HIDE DEF X
  <2>. QED
    BY <2>1, <2>2, <2>3, <2>4, <2>5
<1>6. \A i, j \in 1 .. n : i # j => X[i] \cap X[j] = {}
  <2>1. \A i, j \in 1 .. n : i # j => DrawsOf(i) \cap DrawsOf(j) = {}
    BY <1>2
  <2>. QED
    BY <2>1
<1>7. U = UnitsOf(d, K)
  <2>1. ASSUME NEW u \in U PROVE u \in UnitsOf(d, K)
    <3>1. PICK i \in 1 .. n : u \in DrawsOf(i) \X (1 .. classes[i].bytes)
      OBVIOUS
    <3>2. PICK k \in DrawsOf(i), m \in 1 .. classes[i].bytes : u = <<k, m>>
      BY <3>1
    <3>3. k \in K /\ classDrawn(k) = i
      BY <1>2, <3>1, <3>2
    <3>4. m \in 1 .. d[k]
      BY <1>3, <3>2, <3>3
    <3>. HIDE DEF d
    <3>. QED
      BY <3>2, <3>3, <3>4, UnitFacts
  <2>2. ASSUME NEW u \in UnitsOf(d, K) PROVE u \in U
    <3>1. PICK k \in K : \E m \in 1 .. d[k] : u = <<k, m>>
      <4>. HIDE DEF d
      <4>. QED
        BY UnitFacts
    <3>2. PICK m \in 1 .. d[k] : u = <<k, m>>
      BY <3>1
    <3>. DEFINE i == classDrawn(k)
    <3>3. i \in 1 .. n /\ d[k] = classes[i].bytes
      BY <1>3
    <3>4. k \in DrawsOf(i)
      BY <1>2, <3>3
    <3>5. u \in X[i]
      BY <3>2, <3>3, <3>4
    <3>. HIDE DEF i, X
    <3>. QED
      BY <3>3, <3>5
  <2>. HIDE DEF U
  <2>. QED
    BY <2>1, <2>2
<1>8. SumFunctionOnSet(bytesTimesWeight, 1 .. n) = Cardinality(U)
  <2>. DEFINE S == 1 .. n
              f == bytesTimesWeight
  <2>. HIDE DEF X
  <2>1. IsFiniteSet(S)
    BY <1>4
  <2>2. \A i \in S : IsFiniteSet(X[i]) /\ f[i] = Cardinality(X[i])
    BY <1>5
  <2>3. \A i, j \in S : i # j => X[i] \cap X[j] = {}
    BY <1>6
  <2>4. U = UNION {X[i] : i \in S}
    OBVIOUS
  <2>. HIDE DEF S, f, U
  <2>5. Cuts(f, S, X, U)
    BY <2>2, <2>3, <2>4 DEF Cuts
  <2>6. SumFunctionOnSet(f, S) = Cardinality(U)
    BY <2>1, <2>5, SumOfParts
  <2>. QED
    BY <2>6 DEF S, f
<1>9. \A k \in K : d[k] \in Nat
  BY <1>1, <1>3
<1>10. DOMAIN d = K /\ DOMAIN bytesTimesWeight = 1 .. n
  BY <1>1 DEF bytesTimesWeight
<1>11. d = [k \in 0 .. total - 1 |-> draw(k)]
  BY DEF K
<1>. HIDE DEF d, U
<1>12. SumFunctionOnSet(d, K) = Cardinality(UnitsOf(d, K)) /\ SumFunctionOnSet(d, K) \in Nat
  BY <1>4, <1>9, SumIsUnits
<1>13. SumFunction(d) = SumFunctionOnSet(d, K)
  BY <1>10 DEF SumFunction
<1>14. SumFunction(bytesTimesWeight) = SumFunctionOnSet(bytesTimesWeight, 1 .. n)
  BY <1>10 DEF SumFunction
<1>. QED
  BY <1>7, <1>8, <1>11, <1>12, <1>13, <1>14

\* And so are the entries an append cuts.
LEMMA ChunkedDraws ==
    ASSUME ParsedOK, TotalsOK, WeightsFit, outcome = "parsed"
    PROVE  /\ SumFunction(weightIfOver) \in 0 .. IntMax
           /\ SumFunction(weightIfOver) = Cardinality({k \in 0 .. total - 1 : ChunkCount(draw(k)) > 1})
<1>. DEFINE n == Len(classes)
            K == 0 .. total - 1
            X == [i \in 1 .. n |-> IF overChunk(classes[i].bytes) THEN DrawsOf(i) ELSE {}]
            U == UNION {X[i] : i \in 1 .. n}
            C == {k \in K : ChunkCount(draw(k)) > 1}
<1>1. /\ classes \in Seq(Class) /\ n \in Nat /\ DOMAIN classes = 1 .. n
      /\ \A i \in 1 .. n : classes[i].weight \in Nat /\ classes[i].bytes \in Nat
  <2>1. classes \in Seq(Class)
    BY DEF ParsedOK
  <2>. QED
    BY <2>1, WeighedFacts
<1>2. /\ total \in Nat /\ total <= IntMax /\ IntMax \in Nat
      /\ \A i \in 1 .. n : /\ DrawsOf(i) = {k \in K : classDrawn(k) = i}
                           /\ IsFiniteSet(DrawsOf(i)) /\ Cardinality(DrawsOf(i)) = classes[i].weight
  <2>1. IntMax \in Nat /\ total \in 0 .. IntMax
    BY DrawFacts, SizesAssumption
  <2>2. total \in Nat /\ total <= IntMax
    BY <2>1
  <2>. QED
    BY <2>1, <2>2, DrawFacts
<1>3. \A k \in K : classDrawn(k) \in 1 .. n /\ draw(k) = classes[classDrawn(k)].bytes
  BY ClassDrawn DEF draw
<1>. HIDE DEF n, K
<1>4. IsFiniteSet(1 .. n)
  BY <1>1, FS_Interval
<1>5. ASSUME NEW i \in 1 .. n
      PROVE  IsFiniteSet(X[i]) /\ weightIfOver[i] = Cardinality(X[i])
  <2>1. weightIfOver[i] = IF overChunk(classes[i].bytes) THEN classes[i].weight ELSE 0
    BY <1>1 DEF weightIfOver
  <2>2. CASE overChunk(classes[i].bytes)
    BY <1>2, <2>1, <2>2
  <2>3. CASE ~overChunk(classes[i].bytes)
    BY <2>1, <2>3, FS_EmptySet
  <2>. QED
    BY <2>2, <2>3
<1>6. \A i, j \in 1 .. n : i # j => X[i] \cap X[j] = {}
  <2>1. \A i, j \in 1 .. n : i # j => DrawsOf(i) \cap DrawsOf(j) = {}
    BY <1>2
  <2>. QED
    BY <2>1
<1>7. U = C
  <2>1. ASSUME NEW k \in K PROVE ChunkCount(draw(k)) > 1 <=> overChunk(classes[classDrawn(k)].bytes)
    <3>1. draw(k) \in Nat
      BY <1>1, <1>3
    <3>2. ChunkCount(draw(k)) > 1 <=> draw(k) > MaxEntryChunk
      BY <3>1, CountFacts
    <3>. QED
      BY <1>3, <3>2 DEF overChunk
  <2>2. ASSUME NEW k \in U PROVE k \in C
    <3>1. PICK i \in 1 .. n : k \in X[i]
      OBVIOUS
    <3>2. overChunk(classes[i].bytes) /\ k \in DrawsOf(i)
      BY <3>1
    <3>3. k \in K /\ classDrawn(k) = i
      BY <1>2, <3>2
    <3>. QED
      BY <2>1, <3>2, <3>3
  <2>3. ASSUME NEW k \in C PROVE k \in U
    <3>. DEFINE i == classDrawn(k)
    <3>1. k \in K /\ i \in 1 .. n /\ overChunk(classes[i].bytes)
      BY <1>3, <2>1
    <3>2. k \in DrawsOf(i)
      BY <1>2, <3>1
    <3>3. k \in X[i]
      BY <3>1, <3>2
    <3>. HIDE DEF i, X
    <3>. QED
      BY <3>1, <3>3
  <2>. HIDE DEF U, C
  <2>. QED
    BY <2>2, <2>3
<1>8. SumFunctionOnSet(weightIfOver, 1 .. n) = Cardinality(U)
  <2>. DEFINE S == 1 .. n
              f == weightIfOver
  <2>. HIDE DEF X
  <2>1. IsFiniteSet(S)
    BY <1>4
  <2>2. \A i \in S : IsFiniteSet(X[i]) /\ f[i] = Cardinality(X[i])
    BY <1>5
  <2>3. \A i, j \in S : i # j => X[i] \cap X[j] = {}
    BY <1>6
  <2>4. U = UNION {X[i] : i \in S}
    OBVIOUS
  <2>. HIDE DEF S, f, U
  <2>5. Cuts(f, S, X, U)
    BY <2>2, <2>3, <2>4 DEF Cuts
  <2>6. SumFunctionOnSet(f, S) = Cardinality(U)
    BY <2>1, <2>5, SumOfParts
  <2>. QED
    BY <2>6 DEF S, f
<1>9. SumFunction(weightIfOver) = SumFunctionOnSet(weightIfOver, 1 .. n)
  BY <1>1 DEF SumFunction, weightIfOver
<1>10. Cardinality(C) \in 0 .. IntMax
  <2>1. 0 \in Int /\ total - 1 \in Int
    BY <1>2
  <2>2. IsFiniteSet(K) /\ Cardinality(K) = IF 0 > total - 1 THEN 0 ELSE (total - 1) - 0 + 1
    BY <2>1, FS_Interval DEF K
  <2>3. Cardinality(K) = total
    BY <1>2, <2>2
  <2>4. C \subseteq K
    OBVIOUS
  <2>. HIDE DEF C
  <2>5. Cardinality(C) \in Nat /\ Cardinality(C) <= Cardinality(K)
    BY <2>2, <2>4, FS_Subset, FS_CardinalityType
  <2>. QED
    BY <1>2, <2>3, <2>5
<1>11. C = {k \in 0 .. total - 1 : ChunkCount(draw(k)) > 1}
  BY DEF K
<1>. HIDE DEF C, U
<1>. QED
  BY <1>7, <1>8, <1>9, <1>10, <1>11

\* What plan announces is what the draws ask: over the classes it sums the bytes
\* and the cut entries that the draws sum to one by one, and the numbers do not
\* wrap as long as the sums fit an int.
THEOREM PlanTellsTheLoadCorrect == SizesSpec => []PlanTellsTheLoad
<1>1. SizesInv => PlanTellsTheLoad
  <2>. SUFFICES ASSUME SizesInv, outcome = "parsed", WeightsFit
                PROVE  /\ BytesFit => mean = SumFunction([k \in 0 .. total - 1 |-> draw(k)])
                       /\ chunked = Cardinality({k \in 0 .. total - 1 : ChunkCount(draw(k)) > 1})
    BY DEF PlanTellsTheLoad
  <2>1. ParsedOK /\ TotalsOK /\ IntMax \in Nat
    BY SizesAssumption DEF SizesInv
  <2>2. BytesFit => mean = SumFunction(bytesTimesWeight)
    <3>. DEFINE s == SumFunction(bytesTimesWeight)
    <3>1. s \in Nat
      BY <2>1, MeanOfDraws
    <3>2. mean = word(s) /\ (BytesFit <=> s <= IntMax)
      BY DEF mean, BytesFit
    <3>. HIDE DEF s
    <3>3. s <= IntMax => s \in Int /\ s \in -IntMax - 1 .. IntMax
      BY <2>1, <3>1
    <3>4. s <= IntMax => word(s) = s
      BY <3>3, WordFacts
    <3>. QED
      BY <3>2, <3>4 DEF s
  <2>3. chunked = SumFunction(weightIfOver)
    <3>. DEFINE s == SumFunction(weightIfOver)
    <3>1. s \in 0 .. IntMax
      BY <2>1, ChunkedDraws
    <3>2. chunked = word(s)
      BY DEF chunked
    <3>. HIDE DEF s
    <3>3. s \in Int /\ s \in -IntMax - 1 .. IntMax
      BY <2>1, <3>1
    <3>. QED
      BY <3>2, <3>3, WordFacts DEF s
  <2>. QED
    BY <2>1, <2>2, <2>3, MeanOfDraws, ChunkedDraws
<1>. QED
  BY <1>1, SizesInitInv, SizesStepInv, PTL DEF SizesSpec

================================================================================

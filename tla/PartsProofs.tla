------------------------------ MODULE PartsProofs ------------------------------
(***************************************************************************)
(* Proofs about three parts that stand alone.  Pacer, for every interval,   *)
(* catch-up and length of the run: the slots a writer takes and gives up on *)
(* against the rate it was given, and how close together late slots may come.*)
(* Histogram, for every width of a microsecond count: what a line says of the*)
(* samples.  Width, for words of every width: whatever words a caller passes,*)
(* the registry's integers are the ones LogStore's arithmetic has, the answers*)
(* are true, and the log does what the contract says.                       *)
(***************************************************************************)
EXTENDS Pacer, Histogram, Width, SumTheorems, SequenceTheorems, TLAPS

-----------------------------------------------------------------------------
(* Pacer. *)

(* Arithmetic. *)

\* The time n intervals take.
Span(n) == n * Interval

\* One interval more.
LEMMA SpanStep ==
    /\ Span(0) = 0
    /\ \A n \in Int : Span(n) \in Int /\ Span(n + 1) = Span(n) + Interval
BY IntervalAssumption DEF Span

\* The longer time holds at least as many intervals.
LEMMA SpanOrder ==
    ASSUME NEW m \in Int, NEW n \in Int, m < n PROVE Span(m) + Interval <= Span(n)
BY IntervalAssumption DEF Span

LEMMA SpanSum == \A m, n \in Int : Span(m + n) = Span(m) + Span(n)
BY IntervalAssumption DEF Span

\* The intervals a time holds.
LEMMA DivSpan ==
    \A a \in Nat : /\ a \div Interval \in Nat
                   /\ Span(a \div Interval) <= a
                   /\ a < Span(a \div Interval) + Interval
BY IntervalAssumption DEF Span

\* How the whole intervals of two times add up.
LEMMA DivSum ==
    ASSUME NEW a \in Nat, NEW b \in Nat
    PROVE  /\ a \div Interval + b \div Interval <= (a + b) \div Interval
           /\ (a + b) \div Interval <= a \div Interval + b \div Interval + 1
<1>. DEFINE x == a \div Interval
            y == b \div Interval
            z == (a + b) \div Interval
<1>1. /\ x \in Nat /\ y \in Nat /\ z \in Nat
      /\ Span(x) <= a /\ a < Span(x) + Interval
      /\ Span(y) <= b /\ b < Span(y) + Interval
      /\ Span(z) <= a + b /\ a + b < Span(z) + Interval
  BY DivSpan
<1>. HIDE DEF x, y, z
<1>2. /\ Span(x + y) = Span(x) + Span(y) /\ Span(x + y + 1) = Span(x) + Span(y) + Interval
      /\ Span(x) \in Int /\ Span(y) \in Int /\ Span(z) \in Int
  BY <1>1, SpanSum, SpanStep
<1>3. x + y <= z
  <2>1. ~(z < x + y)
    BY <1>1, <1>2, SpanOrder, IntervalAssumption
  <2>. QED
    BY <1>1, <2>1
<1>4. z <= x + y + 1
  <2>1. ~(x + y + 1 < z)
    BY <1>1, <1>2, SpanOrder, IntervalAssumption
  <2>. QED
    BY <1>1, <2>1
<1>. QED
  BY <1>3, <1>4 DEF x, y, z

\* The same of one interval, and of a time that passed.
LEMMA DivNext == \A a \in Nat : (a + Interval) \div Interval = a \div Interval + 1
<1>. SUFFICES ASSUME NEW a \in Nat PROVE (a + Interval) \div Interval = a \div Interval + 1
  OBVIOUS
<1>. DEFINE x == a \div Interval
            z == (a + Interval) \div Interval
<1>1. /\ x \in Nat /\ z \in Nat /\ Span(x) <= a /\ a < Span(x) + Interval
      /\ Span(z) <= a + Interval /\ a + Interval < Span(z) + Interval
  <2>1. a + Interval \in Nat
    BY IntervalAssumption
  <2>. QED
    BY <2>1, DivSpan
<1>. HIDE DEF x, z
<1>2. /\ Span(x) \in Int /\ Span(x + 1) = Span(x) + Interval /\ Span(z) \in Int
  BY <1>1, SpanStep
<1>3. ~(z < x + 1) /\ ~(x + 1 < z)
  BY <1>1, <1>2, SpanOrder, IntervalAssumption
<1>. QED
  BY <1>1, <1>3 DEF x, z

LEMMA DivOrder == \A a, b \in Nat : a <= b => a \div Interval <= b \div Interval
<1>. SUFFICES ASSUME NEW a \in Nat, NEW b \in Nat, a <= b
              PROVE  a \div Interval <= b \div Interval
  OBVIOUS
<1>1. b - a \in Nat /\ a + (b - a) = b
  OBVIOUS
<1>2. a \div Interval + (b - a) \div Interval <= (a + (b - a)) \div Interval
  BY <1>1, DivSum
<1>3. a \div Interval \in Nat /\ (b - a) \div Interval \in Nat /\ b \div Interval \in Nat
  BY <1>1, DivSpan
<1>4. a \div Interval + (b - a) \div Interval <= b \div Interval
  BY <1>1, <1>2
<1>. QED
  BY <1>3, <1>4

-----------------------------------------------------------------------------
(* Types. *)

\* What schedule answers: the three ways it may go.
LEMMA ScheduleCases ==
    ASSUME NEW at \in Nat, NEW t \in Nat
    PROVE  LET plan == schedule(at, t)
           IN  \/ t < at /\ plan = Plan(at - t, at + Interval, 0)
               \/ t >= at /\ t - at <= Catchup /\ plan = Plan(0, at + Interval, 0)
               \/ /\ t >= at /\ t - at > Catchup
                  /\ plan = Plan(0, t + Interval, (t - at) \div Interval)
BY CatchupAssumption DEF schedule

\* The slot is still to come, is repaid, or is where the schedule restarts.
Asleep ==
    /\ now < due /\ due' = due + Interval /\ skipped' = skipped /\ restarts' = restarts
    /\ wake' = due /\ phase' = "sleeping" /\ issued' = issued
Repays ==
    /\ now >= due /\ now - due <= Catchup
    /\ due' = due + Interval /\ skipped' = skipped /\ restarts' = restarts /\ wake' = now
Restarts ==
    /\ now > due /\ now - due > Catchup
    /\ due' = now + Interval /\ skipped' = skipped + (now - due) \div Interval
    /\ restarts' = restarts + 1 /\ wake' = now
Taken ==
    \/ phase' = "ended" /\ issued' = issued
    \/ phase' = "busy" /\ issued' = Append(issued, now)

LEMMA WaitCases ==
    ASSUME PacerTypeOK, Wait
    PROVE  /\ phase = "ready" /\ now' = now /\ cancelled' = cancelled
           /\ Asleep \/ ((Repays \/ Restarts) /\ Taken)
<1>. DEFINE plan == schedule(due, now)
<1>1. now \in Nat /\ due \in Nat
  BY TimeAssumption DEF PacerTypeOK
<1>2. /\ phase = "ready" /\ now' = now /\ cancelled' = cancelled /\ due' = plan.next
      /\ skipped' = skipped + plan.skipped /\ wake' = now + plan.wait
      /\ restarts' = IF plan.next = due + Interval THEN restarts ELSE restarts + 1
      /\ \/ plan.wait > 0 /\ phase' = "sleeping" /\ issued' = issued
         \/ plan.wait = 0 /\ phase' = "ended" /\ issued' = issued
         \/ plan.wait = 0 /\ phase' = "busy" /\ issued' = Append(issued, now)
  BY DEF Wait, Follow, Issue
<1>3. skipped \in Nat
  BY DEF PacerTypeOK
<1>4. \/ now < due /\ plan = Plan(due - now, due + Interval, 0)
      \/ now >= due /\ now - due <= Catchup /\ plan = Plan(0, due + Interval, 0)
      \/ /\ now >= due /\ now - due > Catchup
         /\ plan = Plan(0, now + Interval, (now - due) \div Interval)
  BY <1>1, ScheduleCases
<1>. HIDE DEF plan
<1>5. CASE now < due /\ plan = Plan(due - now, due + Interval, 0)
  <2>1. plan.wait = due - now /\ plan.next = due + Interval /\ plan.skipped = 0
    BY <1>5 DEF Plan
  <2>. QED
    BY <1>1, <1>2, <1>3, <1>5, <2>1 DEF Asleep
<1>6. CASE now >= due /\ now - due <= Catchup /\ plan = Plan(0, due + Interval, 0)
  <2>1. plan.wait = 0 /\ plan.next = due + Interval /\ plan.skipped = 0
    BY <1>6 DEF Plan
  <2>. QED
    BY <1>1, <1>2, <1>3, <1>6, <2>1 DEF Repays, Taken
<1>7. CASE /\ now >= due /\ now - due > Catchup
           /\ plan = Plan(0, now + Interval, (now - due) \div Interval)
  <2>1. /\ plan.wait = 0 /\ plan.next = now + Interval
        /\ plan.skipped = (now - due) \div Interval
    BY <1>7 DEF Plan
  <2>2. now > due /\ now + Interval # due + Interval
    BY <1>1, <1>7, CatchupAssumption, IntervalAssumption
  <2>. QED
    BY <1>1, <1>2, <1>3, <1>7, <2>1, <2>2 DEF Restarts, Taken
<1>. QED
  BY <1>2, <1>4, <1>5, <1>6, <1>7

\* The types are inductive, as is that no slot was issued later than now.
TimesOK == \A i \in 1 .. Len(issued) : issued[i] \in Nat /\ issued[i] <= now

LEMMA PacerTypeInit == PacerInit => PacerTypeOK /\ TimesOK
<1>. SUFFICES ASSUME PacerInit PROVE PacerTypeOK /\ TimesOK
  OBVIOUS
<1>1. issued = <<>> /\ issued \in Seq(0 .. MaxTime) /\ Len(issued) = 0
  BY DEF PacerInit
<1>2. now \in 0 .. MaxTime /\ due \in Nat
  BY TimeAssumption, IntervalAssumption DEF PacerInit
<1>3. TimesOK
  BY <1>1 DEF TimesOK
<1>. QED
  BY <1>1, <1>2, <1>3 DEF PacerInit, PacerTypeOK

\* A slot issued now is the last, and the others keep their times.
LEMMA IssueFacts ==
    ASSUME PacerTypeOK, issued' = Append(issued, now)
    PROVE  /\ issued' \in Seq(0 .. MaxTime) /\ Len(issued) \in Nat
           /\ Len(issued') = Len(issued) + 1 /\ issued'[Len(issued) + 1] = now
           /\ \A i \in 1 .. Len(issued) : issued'[i] = issued[i]
<1>1. issued \in Seq(0 .. MaxTime) /\ now \in 0 .. MaxTime
  BY DEF PacerTypeOK
<1>. QED
  BY <1>1, AppendProperties, LenProperties

LEMMA PacerTypeStep ==
    PacerTypeOK /\ TimesOK /\ [PacerNext]_pacerVars => PacerTypeOK' /\ TimesOK'
<1>. SUFFICES ASSUME PacerTypeOK, TimesOK, [PacerNext]_pacerVars PROVE PacerTypeOK' /\ TimesOK'
  OBVIOUS
<1>0. /\ Interval \in Nat \ {0} /\ MaxTime \in Nat /\ now \in 0 .. MaxTime /\ due \in Nat
      /\ wake \in Nat /\ skipped \in Nat /\ restarts \in Nat /\ issued \in Seq(0 .. MaxTime)
      /\ cancelled \in BOOLEAN /\ Len(issued) \in Nat
  BY IntervalAssumption, TimeAssumption, LenProperties DEF PacerTypeOK
<1>1. ASSUME issued' = Append(issued, now), now' = now PROVE TimesOK'
  <2>1. /\ Len(issued') = Len(issued) + 1 /\ issued'[Len(issued) + 1] = now
        /\ \A i \in 1 .. Len(issued) : issued'[i] = issued[i]
    BY <1>1, IssueFacts
  <2>. QED
    BY <1>0, <1>1, <2>1 DEF TimesOK
<1>2. ASSUME issued' = issued, now' \in {now, now + 1} PROVE TimesOK'
  BY <1>0, <1>2 DEF TimesOK
<1>3. CASE Wait
  <2>1. /\ phase = "ready" /\ now' = now /\ cancelled' = cancelled
        /\ Asleep \/ ((Repays \/ Restarts) /\ Taken)
    BY <1>3, WaitCases
  <2>2. issued' = issued \/ issued' = Append(issued, now)
    BY <2>1 DEF Asleep, Taken
  <2>3. issued' \in Seq(0 .. MaxTime)
    BY <1>0, <2>2, IssueFacts
  <2>4. due' \in Nat /\ wake' \in Nat /\ skipped' \in Nat /\ restarts' \in Nat
    <3>1. CASE Restarts
      <4>1. now - due \in Nat
        BY <1>0, <3>1 DEF Restarts
      <4>2. (now - due) \div Interval \in Nat
        BY <4>1, DivSpan
      <4>. QED
        BY <1>0, <3>1, <4>2 DEF Restarts
    <3>. QED
      BY <1>0, <2>1, <3>1 DEF Asleep, Repays
  <2>5. /\ phase' \in {"ready", "sleeping", "busy", "ended"}
        /\ phase' = "sleeping" => wake' = due' - Interval
    BY <1>0, <2>1 DEF Asleep, Taken
  <2>6. TimesOK'
    BY <1>1, <1>2, <2>1, <2>2
  <2>. QED
    BY <1>0, <2>1, <2>3, <2>4, <2>5, <2>6 DEF PacerTypeOK
<1>4. CASE Fire
  <2>1. issued' = Append(issued, now) /\ now' = now /\ phase' = "busy"
        /\ UNCHANGED <<due, wake, skipped, restarts, cancelled>>
    BY <1>4 DEF Fire, Issue
  <2>2. issued' \in Seq(0 .. MaxTime)
    BY <2>1, IssueFacts
  <2>. QED
    BY <1>0, <1>1, <2>1, <2>2 DEF PacerTypeOK
<1>5. CASE WakeCancelled \/ Done
  BY <1>0, <1>2, <1>5 DEF WakeCancelled, Done, PacerTypeOK
<1>6. CASE Tick
  <2>1. now' \in 0 .. MaxTime /\ now' = now + 1
    BY <1>0, <1>6 DEF Tick
  <2>. QED
    BY <1>0, <1>2, <1>6, <2>1 DEF Tick, PacerTypeOK
<1>7. CASE Cancel \/ UNCHANGED pacerVars
  BY <1>0, <1>2, <1>7 DEF Cancel, pacerVars, PacerTypeOK
<1>. QED
  BY <1>3, <1>4, <1>5, <1>6, <1>7 DEF PacerNext

-----------------------------------------------------------------------------
(* The account of the slots. *)

\* The slots taken: a sleeper has taken the one it sleeps for.
SlotsTaken == Len(issued) + skipped + (IF phase = "sleeping" THEN 1 ELSE 0)

\* Up to the slot that is due next, none is counted twice, and the ones missing
\* are at most one for each restart; the slots counted were all planned by now.
\* Once the wait has ended, nothing is issued and the second half lapses.
AccountOK ==
    /\ SlotsTaken <= due \div Interval
    /\ phase # "ended" => due \div Interval <= SlotsTaken + restarts
    /\ Len(issued) + skipped <= now \div Interval + 1
    /\ phase = "sleeping" \/ phase = "busy" => due >= Interval

LEMMA AccountInit == PacerInit => AccountOK
<1>. SUFFICES ASSUME PacerInit PROVE AccountOK
  OBVIOUS
<1>1. SlotsTaken = 0 /\ Len(issued) + skipped = 0
  BY DEF PacerInit, SlotsTaken
<1>2. due \in Nat /\ due < Interval /\ now = 0
  BY IntervalAssumption DEF PacerInit
<1>3. due \div Interval = 0 /\ now \div Interval \in Nat
  <2>1. 0 \div Interval \in Nat
    BY DivSpan
  <2>2. due \div Interval \in Nat /\ Span(due \div Interval) <= due
    BY <1>2, DivSpan
  <2>3. ASSUME 0 < due \div Interval PROVE FALSE
    <3>1. Span(0) + Interval <= Span(due \div Interval)
      BY <2>2, <2>3, SpanOrder
    <3>2. Span(0) = 0 /\ Span(due \div Interval) \in Int
      BY <2>2, SpanStep
    <3>. QED
      BY <1>2, <2>2, <3>1, <3>2, IntervalAssumption
  <2>. QED
    BY <1>2, <2>1, <2>2, <2>3
<1>. QED
  BY <1>1, <1>2, <1>3 DEF PacerInit, AccountOK

LEMMA AccountStep ==
    PacerTypeOK /\ TimesOK /\ AccountOK /\ [PacerNext]_pacerVars => AccountOK'
<1>. SUFFICES ASSUME PacerTypeOK, TimesOK, AccountOK, [PacerNext]_pacerVars PROVE AccountOK'
  OBVIOUS
<1>0. /\ Interval \in Nat \ {0} /\ now \in Nat /\ due \in Nat /\ wake \in Nat
      /\ skipped \in Nat /\ restarts \in Nat /\ Len(issued) \in Nat
      /\ phase = "sleeping" => wake = due - Interval
      /\ now \div Interval \in Nat /\ due \div Interval \in Nat
      /\ (due + Interval) \div Interval = due \div Interval + 1
      /\ (now + Interval) \div Interval = now \div Interval + 1
  <2>1. /\ Interval \in Nat \ {0} /\ now \in Nat /\ due \in Nat /\ wake \in Nat
        /\ skipped \in Nat /\ restarts \in Nat /\ Len(issued) \in Nat
        /\ phase = "sleeping" => wake = due - Interval
    BY IntervalAssumption, TimeAssumption, LenProperties DEF PacerTypeOK
  <2>. QED
    BY <2>1, DivSpan, DivNext
<1>1. ASSUME issued' = Append(issued, now) PROVE Len(issued') = Len(issued) + 1
  BY <1>1, IssueFacts
<1>2. CASE Wait
  <2>1. /\ phase = "ready" /\ now' = now /\ cancelled' = cancelled
        /\ Asleep \/ ((Repays \/ Restarts) /\ Taken)
    BY <1>2, WaitCases
  <2>2. /\ Len(issued) + skipped <= due \div Interval
        /\ due \div Interval <= Len(issued) + skipped + restarts
        /\ Len(issued) + skipped <= now \div Interval + 1
    BY <1>0, <2>1 DEF AccountOK, SlotsTaken
  <2>3. CASE Asleep
    BY <1>0, <2>1, <2>2, <2>3 DEF Asleep, AccountOK, SlotsTaken
  <2>4. /\ due <= now => due \div Interval <= now \div Interval
    BY <1>0, DivOrder
  <2>5. ASSUME Taken PROVE \/ phase' = "ended" /\ Len(issued') = Len(issued)
                           \/ phase' = "busy" /\ Len(issued') = Len(issued) + 1
    BY <1>1, <2>5 DEF Taken
  <2>6. CASE Repays /\ Taken
    BY <1>0, <2>1, <2>2, <2>4, <2>5, <2>6 DEF Repays, AccountOK, SlotsTaken
  <2>7. CASE Restarts /\ Taken
    <3>. DEFINE gap == (now - due) \div Interval
    <3>1. now - due \in Nat /\ due + (now - due) = now
      BY <1>0, <2>7 DEF Restarts
    <3>2. gap \in Nat /\ due \div Interval + gap <= now \div Interval
          /\ now \div Interval <= due \div Interval + gap + 1
      BY <1>0, <3>1, DivSum, DivSpan
    <3>3. due' = now + Interval /\ skipped' = skipped + gap /\ restarts' = restarts + 1
      BY <2>7 DEF Restarts
    <3>. HIDE DEF gap
    <3>4. due' \div Interval = now \div Interval + 1
      BY <1>0, <3>3
    <3>. QED
      BY <1>0, <2>1, <2>2, <2>5, <2>7, <3>2, <3>3, <3>4 DEF AccountOK, SlotsTaken
  <2>. QED
    BY <2>1, <2>3, <2>6, <2>7
<1>3. CASE Fire
  <2>1. /\ Len(issued') = Len(issued) + 1 /\ phase = "sleeping" /\ phase' = "busy"
        /\ now' = now /\ now >= wake /\ UNCHANGED <<due, skipped, restarts>>
    BY <1>1, <1>3 DEF Fire, Issue
  <2>2. due \div Interval <= now \div Interval + 1
    <3>1. due <= now + Interval /\ now + Interval \in Nat
      BY <1>0, <2>1
    <3>2. due \div Interval <= (now + Interval) \div Interval
      BY <1>0, <3>1, DivOrder
    <3>. QED
      BY <1>0, <3>2
  <2>. QED
    BY <1>0, <2>1, <2>2 DEF AccountOK, SlotsTaken
<1>4. CASE WakeCancelled
  BY <1>0, <1>4 DEF WakeCancelled, AccountOK, SlotsTaken
<1>6. CASE Done
  BY <1>0, <1>6 DEF Done, AccountOK, SlotsTaken
<1>7. CASE Cancel \/ UNCHANGED pacerVars
  BY <1>0, <1>7 DEF Cancel, pacerVars, AccountOK, SlotsTaken
<1>5. CASE Tick
  <2>1. now \div Interval <= (now + 1) \div Interval /\ (now + 1) \div Interval \in Nat
    <3>1. now + 1 \in Nat /\ now <= now + 1
      BY <1>0
    <3>. QED
      BY <1>0, <3>1, DivOrder, DivSpan
  <2>. QED
    BY <1>0, <1>5, <2>1 DEF Tick, AccountOK, SlotsTaken
<1>. QED
  BY <1>2, <1>3, <1>4, <1>5, <1>6, <1>7 DEF PacerNext

\* However late a writer's slots come (wait and schedule, rate.go), what it has
\* issued and given up on is never more than the rate had planned, and what it has
\* neither issued nor reported when it takes a slot is at most one for each
\* restart, for every interval and catch-up.
THEOREM EverySlotIsAccountedCorrect == PacerSpec => []EverySlotIsAccounted
<1>1. PacerTypeOK /\ AccountOK => EverySlotIsAccounted
  <2>. SUFFICES ASSUME PacerTypeOK, AccountOK PROVE EverySlotIsAccounted
    OBVIOUS
  <2>1. /\ Len(issued) \in Nat /\ skipped \in Nat /\ restarts \in Nat /\ due \in Nat
        /\ Interval \in Nat
    BY IntervalAssumption, LenProperties DEF PacerTypeOK
  <2>2. ASSUME phase = "busy" PROVE Planned(due - Interval) <= Len(issued) + skipped + restarts
    <3>1. due - Interval \in Nat /\ (due - Interval) + Interval = due
      BY <2>1, <2>2 DEF AccountOK
    <3>2. due \div Interval = Planned(due - Interval)
      BY <3>1, DivNext DEF Planned
    <3>. QED
      BY <2>1, <2>2, <3>2 DEF AccountOK, SlotsTaken
  <2>. QED
    BY <2>2 DEF AccountOK, EverySlotIsAccounted, Planned
<1>. QED
  BY <1>1, PacerTypeInit, AccountInit, PacerTypeStep, AccountStep, PTL DEF PacerSpec

-----------------------------------------------------------------------------
(* Bursts. *)

\* The slot due next is no closer to a slot issued than the intervals between
\* them, less the catch-up.  Of the last slot issued nothing is known until the
\* next is looked at: an append may take any time, and a timer fire late.
DueOK ==
    /\ \A i \in 1 .. Len(issued) :
          i < Len(issued) => issued[i] + Span(Len(issued) - i) <= due + Catchup
    /\ phase = "sleeping" =>
          \A i \in 1 .. Len(issued) : issued[i] + Span(Len(issued) + 1 - i) <= due + Catchup

BurstOK ==
    \A i, j \in 1 .. Len(issued) : i < j => Span(j - i - 1) <= issued[j] - issued[i] + Catchup

\* A slot issued in time leaves the bounds.
LEMMA IssueStep ==
    ASSUME PacerTypeOK, TimesOK, BurstOK, issued' = Append(issued, now),
           \A i \in 1 .. Len(issued) : issued[i] + Span(Len(issued) - i) <= now + Catchup
    PROVE  BurstOK'
<1>1. /\ Len(issued) \in Nat /\ Len(issued') = Len(issued) + 1
      /\ issued'[Len(issued) + 1] = now
      /\ \A i \in 1 .. Len(issued) : issued'[i] = issued[i]
  BY IssueFacts
<1>2. now \in Nat /\ Catchup \in Nat /\ \A i \in 1 .. Len(issued) : issued[i] \in Nat
  BY TimeAssumption, CatchupAssumption DEF PacerTypeOK, TimesOK
<1>3. ASSUME NEW i \in 1 .. Len(issued), NEW j \in 1 .. Len(issued), i < j
      PROVE  Span(j - i - 1) <= issued'[j] - issued'[i] + Catchup
  BY <1>1, <1>3 DEF BurstOK
<1>4. ASSUME NEW i \in 1 .. Len(issued)
      PROVE  Span(Len(issued) + 1 - i - 1) <= now - issued'[i] + Catchup
  <2>1. Len(issued) + 1 - i - 1 = Len(issued) - i /\ Span(Len(issued) - i) \in Int
    BY <1>1, SpanStep
  <2>. QED
    BY <1>1, <1>2, <2>1
<1>. SUFFICES ASSUME NEW i \in 1 .. Len(issued'), NEW j \in 1 .. Len(issued'), i < j
              PROVE  Span(j - i - 1) <= issued'[j] - issued'[i] + Catchup
  BY DEF BurstOK
<1>5. i \in 1 .. Len(issued) /\ (j \in 1 .. Len(issued) \/ j = Len(issued) + 1)
  <2>1. i \in 1 .. Len(issued) + 1 /\ j \in 1 .. Len(issued) + 1 /\ i < j
    BY <1>1
  <2>. QED
    BY ONLY <1>1, <2>1
<1>. QED
  BY <1>1, <1>3, <1>4, <1>5

LEMMA BurstStep ==
    PacerTypeOK /\ TimesOK /\ DueOK /\ BurstOK /\ [PacerNext]_pacerVars => DueOK' /\ BurstOK'
<1>. SUFFICES ASSUME PacerTypeOK, TimesOK, DueOK, BurstOK, [PacerNext]_pacerVars
              PROVE  DueOK' /\ BurstOK'
  OBVIOUS
<1>. DEFINE L == Len(issued)
<1>0. /\ Interval \in Nat \ {0} /\ Catchup \in Nat /\ now \in Nat /\ due \in Nat /\ L \in Nat
      /\ phase = "sleeping" => wake = due - Interval
      /\ \A i \in 1 .. L : issued[i] \in Nat /\ issued[i] <= now
  BY IntervalAssumption, CatchupAssumption, TimeAssumption, LenProperties
     DEF PacerTypeOK, TimesOK
<1>1. \A i \in 1 .. L : /\ Span(L - i) \in Int /\ Span(L + 1 - i) = Span(L - i) + Interval
                        /\ i = L => Span(L - i) = 0
  <2>1. ASSUME NEW i \in 1 .. L
        PROVE  /\ Span(L - i) \in Int /\ Span(L + 1 - i) = Span(L - i) + Interval
               /\ i = L => Span(L - i) = 0
    <3>1. L - i \in Int /\ (L - i) + 1 = L + 1 - i /\ (i = L => L - i = 0)
      BY <1>0
    <3>2. Span(L - i) \in Int /\ Span((L - i) + 1) = Span(L - i) + Interval
      BY <3>1, SpanStep
    <3>. QED
      BY <3>1, <3>2, SpanStep
  <2>. QED
    BY <2>1
\* A slot issued now: what is then known of the slot after it.
<1>2. ASSUME issued' = Append(issued, now), phase' = "busy",
             \A i \in 1 .. L : issued[i] + Span(L + 1 - i) <= due' + Catchup
      PROVE  DueOK'
  <2>1. /\ Len(issued') = L + 1 /\ \A i \in 1 .. L : issued'[i] = issued[i]
    BY <1>2, IssueFacts
  <2>. QED
    BY <1>0, <1>2, <2>1 DEF DueOK
<1>3. CASE Wait
  <2>1. /\ phase = "ready" /\ now' = now
        /\ Asleep \/ ((Repays \/ Restarts) /\ Taken)
    BY <1>3, WaitCases
  <2>2. ASSUME NEW i \in 1 .. L
        PROVE  /\ issued[i] + Span(L + 1 - i) <= due' + Catchup
               /\ ~Asleep => issued[i] + Span(L - i) <= now + Catchup
               /\ due <= due' /\ due' \in Nat
    <3>1. issued[i] + Span(L - i) <= due + Catchup \/ (i = L /\ Span(L - i) = 0)
      BY <1>0, <1>1 DEF DueOK
    <3>2. /\ issued[i] \in Nat /\ issued[i] <= now /\ Span(L - i) \in Int
          /\ Span(L + 1 - i) = Span(L - i) + Interval
      BY <1>0, <1>1
    <3>3. CASE Asleep
      BY <1>0, <3>1, <3>2, <3>3 DEF Asleep
    <3>4. CASE Repays
      BY <1>0, <3>1, <3>2, <3>4 DEF Repays
    <3>5. CASE Restarts
      BY <1>0, <3>1, <3>2, <3>5, SMTT(30) DEF Restarts
    <3>. QED
      BY <2>1, <3>3, <3>4, <3>5
  <2>3. CASE Asleep
    <3>1. BurstOK' /\ issued' = issued
      BY <2>3 DEF Asleep, BurstOK
    <3>2. \A i \in 1 .. L : i < L => issued[i] + Span(L - i) <= due' + Catchup
      BY <1>0, <1>1, <2>2, SMTT(30) DEF DueOK
    <3>3. \A i \in 1 .. L : issued[i] + Span(L + 1 - i) <= due' + Catchup
      BY ONLY <2>2
    <3>. QED
      BY <3>1, <3>2, <3>3 DEF DueOK
  <2>4. CASE ~Asleep /\ phase' = "ended" /\ issued' = issued
    <3>1. BurstOK'
      BY <2>4 DEF BurstOK
    <3>2. \A i \in 1 .. L : i < L => issued[i] + Span(L - i) <= due' + Catchup
      BY <1>0, <1>1, <2>2, SMTT(30) DEF DueOK
    <3>. QED
      BY <2>4, <3>1, <3>2 DEF DueOK
  <2>5. CASE ~Asleep /\ phase' = "busy" /\ issued' = Append(issued, now)
    <3>1. DueOK'
      BY <1>2, <2>2, <2>5
    <3>2. \A i \in 1 .. Len(issued) : issued[i] + Span(Len(issued) - i) <= now + Catchup
      BY <2>2, <2>5
    <3>3. BurstOK'
      BY <2>5, <3>2, IssueStep
    <3>. QED
      BY <3>1, <3>3
  <2>. QED
    BY <2>1, <2>3, <2>4, <2>5 DEF Taken
<1>4. CASE Fire
  <2>1. /\ issued' = Append(issued, now) /\ phase = "sleeping" /\ phase' = "busy"
        /\ now >= wake /\ due' = due
    BY <1>4 DEF Fire, Issue
  <2>2. \A i \in 1 .. L : issued[i] + Span(L + 1 - i) <= due + Catchup
    BY <2>1 DEF DueOK
  <2>3. \A i \in 1 .. L : issued[i] + Span(L - i) <= now + Catchup
    BY <1>0, <1>1, <2>1, <2>2, SMTT(30)
  <2>. QED
    BY <1>2, <2>1, <2>2, <2>3, IssueStep
<1>5. CASE WakeCancelled \/ Done \/ Tick \/ Cancel \/ UNCHANGED pacerVars
  BY <1>5 DEF WakeCancelled, Done, Tick, Cancel, pacerVars, DueOK, BurstOK
<1>. QED
  BY <1>3, <1>4, <1>5 DEF PacerNext

\* Late slots are repaid without a burst (schedule's catch-up and its restart,
\* rate.go): in any stretch of any run there are at most as many slots as its
\* length and the catch-up hold, and two.
THEOREM BurstIsBoundedCorrect == PacerSpec => []BurstIsBounded
<1>1. PacerInit => DueOK /\ BurstOK
  BY DEF PacerInit, DueOK, BurstOK
<1>2. PacerTypeOK /\ BurstOK => BurstIsBounded
  <2>1. PacerTypeOK => DOMAIN issued = 1 .. Len(issued)
    BY LenProperties DEF PacerTypeOK
  <2>. QED
    BY <2>1 DEF BurstOK, BurstIsBounded, Span
<1>. QED
  BY <1>1, <1>2, PacerTypeInit, PacerTypeStep, BurstStep, PTL DEF PacerSpec

-----------------------------------------------------------------------------
(* Histogram. *)

(* Octaves. *)

LEMMA SubCountIs4 == subCount = 4 /\ subBits = 2 /\ nBuckets = Octaves * 4 /\ nBuckets \in Nat \ {0}
<1>1. 0 \in 0 .. Octaves /\ 1 \in 0 .. Octaves /\ Octaves \in Nat /\ Octaves > 2
  BY OctavesAssumption
<1>2. 2 ^ (0 + 1) = 2 * 2 ^ 0 /\ 2 ^ (1 + 1) = 2 * 2 ^ 1 /\ 2 ^ 0 = 1
  BY <1>1, PowersAssumption
<1>3. 2 ^ 2 = 4
  BY <1>2
<1>4. subCount = 4 /\ subBits = 2
  BY <1>3 DEF subCount, subBits
<1>. QED
  BY <1>1, <1>4 DEF nBuckets

\* The powers of two up to 2 ^ Octaves.
LEMMA Powers ==
    /\ \A o \in 0 .. Octaves : 2 ^ o \in Nat \ {0}
    /\ \A o, p \in 0 .. Octaves : o <= p => 2 ^ o <= 2 ^ p
<1>0. Octaves \in Nat /\ 2 ^ 0 = 1
  BY OctavesAssumption, PowersAssumption
<1>1. \A o \in 0 .. Octaves : 2 ^ o \in Nat /\ 2 ^ (o + 1) = 2 * 2 ^ o
  BY PowersAssumption
<1>2. \A o \in 0 .. Octaves : 2 ^ o # 0
  <2>. DEFINE T == {o \in 0 .. Octaves : 2 ^ o = 0}
  <2>1. SUFFICES ASSUME T # {} PROVE FALSE
    OBVIOUS
  <2>2. T \subseteq Nat
    OBVIOUS
  <2>. HIDE DEF T
  <2>3. PICK o \in T : \A m \in T : o <= m
    BY <2>1, <2>2, LeastNatural
  <2>4. o \in 0 .. Octaves /\ 2 ^ o = 0
    BY DEF T
  <2>5. o # 0
    <3>1. o = 0 => 2 ^ 0 = 0
      BY <2>4, Zenon
    <3>. QED
      BY <1>0, <3>1
  <2>6. o - 1 \in 0 .. Octaves /\ (o - 1) + 1 = o
    BY <1>0, <2>4, <2>5
  <2>7. 2 ^ (o - 1) \in Nat /\ 2 ^ o = 2 * 2 ^ (o - 1)
    BY <1>1, <2>6
  <2>8. 2 ^ (o - 1) = 0
    BY <2>4, <2>7
  <2>9. o - 1 \in T
    BY <2>6, <2>8 DEF T
  <2>. QED
    BY <2>3, <2>4, <2>9
<1>3. \A o, p \in 0 .. Octaves : o <= p => 2 ^ o <= 2 ^ p
  <2>. SUFFICES ASSUME NEW o \in 0 .. Octaves PROVE \A p \in 0 .. Octaves : o <= p => 2 ^ o <= 2 ^ p
    OBVIOUS
  <2>. DEFINE T == {p \in 0 .. Octaves : o <= p /\ ~(2 ^ o <= 2 ^ p)}
  <2>1. SUFFICES ASSUME T # {} PROVE FALSE
    OBVIOUS
  <2>2. T \subseteq Nat
    OBVIOUS
  <2>. HIDE DEF T
  <2>3. PICK p \in T : \A m \in T : p <= m
    BY <2>1, <2>2, LeastNatural
  <2>4. p \in 0 .. Octaves /\ o <= p /\ ~(2 ^ o <= 2 ^ p)
    BY DEF T
  <2>5. o # p
    <3>1. 2 ^ o \in Nat
      BY <1>1
    <3>. QED
      BY <2>4, <3>1
  <2>6. p - 1 \in 0 .. Octaves /\ (p - 1) + 1 = p /\ o <= p - 1
    BY <1>0, <2>4, <2>5
  <2>7. 2 ^ (p - 1) \in Nat /\ 2 ^ p = 2 * 2 ^ (p - 1) /\ 2 ^ o \in Nat
    BY <1>1, <2>6
  <2>8. ~(2 ^ o <= 2 ^ (p - 1))
    BY <2>4, <2>7
  <2>9. p - 1 \in T
    BY <2>6, <2>8 DEF T
  <2>. QED
    BY <2>3, <2>4, <2>9
<1>. QED
  BY <1>1, <1>2, <1>3

\* The octave of a count that is not below subCount, and the width w of a bucket
\* in it.
LEMMA OctaveFacts ==
    ASSUME NEW us \in Micros, us >= 4
    PROVE  LET o == octaveOf(us)
               w == 2 ^ (o - 2)
           IN  /\ o \in 2 .. Octaves - 1
               /\ w \in Nat \ {0} /\ 4 * w <= us /\ us < 8 * w
<1>. DEFINE T == {n \in 0 .. Octaves : us < 2 ^ n}
<1>0. /\ Octaves \in Nat /\ Octaves > 2 /\ us \in Nat /\ us < 2 ^ Octaves /\ 2 ^ Octaves \in Nat
      /\ 2 ^ 0 = 1
  <2>1. Octaves \in Nat /\ Octaves > 2 /\ Octaves \in 0 .. Octaves
    BY OctavesAssumption
  <2>2. 2 ^ Octaves \in Nat
    BY <2>1, PowersAssumption
  <2>. QED
    BY <2>1, <2>2, PowersAssumption DEF Micros
<1>1. Octaves \in T /\ T \subseteq Nat
  BY <1>0
<1>. HIDE DEF T
<1>2. PICK n \in T : \A m \in T : n <= m
  BY <1>1, LeastNatural
<1>3. n \in 0 .. Octaves /\ us < 2 ^ n
  BY DEF T
<1>4. n # 0
  <2>1. n = 0 => us < 2 ^ 0
    BY <1>3, Zenon
  <2>. QED
    BY <1>0, <2>1
<1>5. n - 1 \in 0 .. Octaves - 1 /\ n - 1 \in 0 .. Octaves /\ (n - 1) + 1 = n
  BY <1>0, <1>3, <1>4
<1>6. 2 ^ (n - 1) <= us
  <2>1. n - 1 \notin T
    BY <1>2, <1>3
  <2>2. ~(us < 2 ^ (n - 1)) /\ 2 ^ (n - 1) \in Nat
    BY <1>5, <2>1, PowersAssumption DEF T
  <2>. QED
    BY <1>0, <2>2
<1>. DEFINE o == octaveOf(us)
<1>7. o \in 0 .. Octaves - 1 /\ 2 ^ o <= us /\ us < 2 ^ (o + 1)
  <2>1. \E p \in 0 .. Octaves - 1 : 2 ^ p <= us /\ us < 2 ^ (p + 1)
    BY <1>3, <1>5, <1>6
  <2>. QED
    BY <2>1 DEF octaveOf
<1>. HIDE DEF o
<1>8. o \in 0 .. Octaves
  BY <1>0, <1>7
<1>9. 2 ^ 1 = 2 /\ 2 ^ 2 = 4
  <2>1. 0 \in 0 .. Octaves /\ 1 \in 0 .. Octaves
    BY <1>0
  <2>2. 2 ^ (0 + 1) = 2 * 2 ^ 0 /\ 2 ^ (1 + 1) = 2 * 2 ^ 1
    BY <2>1, PowersAssumption
  <2>. QED
    BY <1>0, <2>2
<1>10. o # 0 /\ o # 1
  <2>1. o # 0
    <3>1. o = 0 => us < 2 ^ (0 + 1)
      BY <1>7
    <3>. QED
      BY <1>0, <1>9, <3>1
  <2>2. o # 1
    <3>1. o = 1 => us < 2 ^ (1 + 1)
      BY <1>7
    <3>. QED
      BY <1>0, <1>9, <3>1
  <2>. QED
    BY <2>1, <2>2
<1>11. /\ o \in 2 .. Octaves - 1 /\ o - 2 \in 0 .. Octaves /\ o - 1 \in 0 .. Octaves
       /\ (o - 2) + 1 = o - 1 /\ (o - 1) + 1 = o
  BY <1>0, <1>7, <1>10
<1>. DEFINE w == 2 ^ (o - 2)
<1>12. w \in Nat \ {0} /\ 2 ^ (o - 1) = 2 * w
  BY <1>11, Powers, PowersAssumption
<1>13. 2 ^ o = 2 * 2 ^ (o - 1)
  BY <1>11, PowersAssumption
<1>14. 2 ^ (o + 1) = 2 * 2 ^ o
  BY <1>8, PowersAssumption
<1>. HIDE DEF w
<1>15. 2 ^ o = 4 * w /\ 2 ^ (o + 1) = 8 * w
  BY <1>12, <1>13, <1>14
<1>. QED
  BY <1>7, <1>11, <1>12, <1>15 DEF o, w

-----------------------------------------------------------------------------
(* Buckets. *)

\* The bucket of a count at or above subCount: q is which width the count is in.
LEMMA LargeBucket ==
    ASSUME NEW us \in Micros, us >= 4
    PROVE  \E o \in 2 .. Octaves - 1, q \in 4 .. 7 :
              LET w == 2 ^ (o - 2)
              IN  /\ o = octaveOf(us) /\ w \in Nat \ {0}
                  /\ q * w <= us /\ us < q * w + w /\ 4 * w <= us
                  /\ q = us \div w
                  /\ bucketOf(us) = 4 * (o - 2) + q
                  /\ bucketBound(bucketOf(us)) = q * w + w - 1
<1>. DEFINE o == octaveOf(us)
            w == 2 ^ (o - 2)
            q == us \div w
            i == 4 * (o - 2) + q
<1>0. us \in Nat /\ Octaves \in Nat
  BY OctavesAssumption DEF Micros
<1>1. o \in 2 .. Octaves - 1 /\ w \in Nat \ {0} /\ 4 * w <= us /\ us < 8 * w
  BY OctaveFacts
<1>2. o \in Nat /\ o - 2 \in Nat
  BY <1>0, <1>1
<1>. HIDE DEF o, w
<1>3. q \in Nat /\ q * w <= us /\ us < q * w + w
  <2>1. \A a \in Nat, b \in Nat \ {0} : /\ a \div b \in Nat
                                        /\ b * (a \div b) <= a
                                        /\ a < b * (a \div b) + b
    OBVIOUS
  <2>2. q \in Nat /\ w * q <= us /\ us < w * q + w
    BY <1>0, <1>1, <2>1
  <2>. HIDE DEF q
  <2>3. w * q = q * w
    BY <1>1, <2>2
  <2>. QED
    BY <2>2, <2>3
<1>. HIDE DEF q
<1>4. q \in 4 .. 7
  <2>1. ~(q <= 3)
    <3>1. SUFFICES ASSUME q <= 3 PROVE FALSE
      OBVIOUS
    <3>2. q * w + w <= 4 * w
      <4>1. q \in 0 .. 3
        BY <1>3, <3>1
      <4>2. q = 0 \/ q = 1 \/ q = 2 \/ q = 3
        BY <4>1
      <4>. QED
        BY <1>1, <4>2
    <3>3. q * w \in Nat
      BY <1>1, <1>3
    <3>. QED
      BY <1>0, <1>1, <1>3, <3>2, <3>3
  <2>2. ~(q >= 8)
    <3>1. SUFFICES ASSUME q >= 8 PROVE FALSE
      OBVIOUS
    <3>2. \A a \in Nat, b \in Nat : a >= 8 => a * b >= 8 * b
      <4>. SUFFICES ASSUME NEW a \in Nat, NEW b \in Nat, a >= 8 PROVE a * b >= 8 * b
        OBVIOUS
      <4>1. (a - 8) * b \in Nat
        <5>1. a - 8 \in Nat
          OBVIOUS
        <5>. QED
          BY <5>1
      <4>2. a * b = (a - 8) * b + 8 * b
        OBVIOUS
      <4>. QED
        BY <4>1, <4>2
    <3>3. q * w >= 8 * w
      BY <1>1, <1>3, <3>1, <3>2
    <3>4. q * w \in Nat
      BY <1>1, <1>3
    <3>. QED
      BY <1>0, <1>1, <1>3, <3>3, <3>4
  <2>. QED
    BY <1>3, <2>1, <2>2
<1>5. bucketOf(us) = i
  <2>1. q % 4 = q - 4
    BY <1>4
  <2>2. bucketOf(us) = (o - 2 + 1) * 4 + (q % 4)
    BY <1>0, SubCountIs4 DEF bucketOf, o, w, q
  <2>. QED
    BY <1>2, <1>4, <2>1, <2>2
<1>6. i \div 4 - 1 = o - 2 /\ i % 4 = q - 4 /\ i >= 4 /\ i \in Nat
  <2>. DEFINE k == o - 2
  <2>1. k \in Nat /\ i = 4 * k + q /\ q \in 4 .. 7
    BY <1>2, <1>4
  <2>. HIDE DEF k, i
  <2>2. i \div 4 = k + 1 /\ i % 4 = q - 4 /\ i >= 4 /\ i \in Nat
    BY <2>1
  <2>. QED
    BY <2>1, <2>2 DEF k
<1>7. bucketBound(i) = q * w + w - 1
  <2>1. bucketBound(i) = (4 + (i % 4)) * 2 ^ (i \div 4 - 1) + 2 ^ (i \div 4 - 1) - 1
    <3>. HIDE DEF i
    <3>1. ~(i < 4)
      BY <1>6
    <3>. QED
      BY <3>1, SubCountIs4 DEF bucketBound
  <2>2. bucketBound(i) = (4 + (q - 4)) * w + w - 1
    BY <1>6, <2>1 DEF w
  <2>3. 4 + (q - 4) = q
    BY <1>4
  <2>. QED
    BY <2>2, <2>3
<1>. HIDE DEF i
<1>8. bucketBound(bucketOf(us)) = q * w + w - 1
  BY <1>5, <1>7
<1>9. bucketOf(us) = 4 * (o - 2) + q
  BY <1>5 DEF i
<1>. QED
  BY <1>1, <1>3, <1>4, <1>8, <1>9 DEF o, w, q

\* The bucket of a count below subCount is the count.
LEMMA SmallBucket ==
    ASSUME NEW us \in Micros, us < 4
    PROVE  us \in 0 .. 3 /\ bucketOf(us) = us /\ bucketBound(bucketOf(us)) = us
<1>1. us \in 0 .. 3
  BY DEF Micros
<1>2. bucketOf(us) = us /\ bucketBound(us) = us
  BY SubCountIs4 DEF bucketOf, bucketBound
<1>. QED
  BY <1>1, <1>2

\* A count has a bucket, whose bound is at most a quarter above it.
LEMMA BucketFacts ==
    ASSUME NEW us \in Micros
    PROVE  /\ bucketOf(us) \in 0 .. nBuckets - 1
           /\ bucketBound(bucketOf(us)) \in Int
           /\ bucketBound(bucketOf(us)) >= us
           /\ 4 * (bucketBound(bucketOf(us)) - us) <= us
<1>0. us \in Nat /\ Octaves \in Nat /\ Octaves > 2 /\ nBuckets = Octaves * 4
  BY OctavesAssumption, SubCountIs4 DEF Micros
<1>1. CASE us < 4
  <2>1. us \in 0 .. 3 /\ bucketOf(us) = us /\ bucketBound(bucketOf(us)) = us
    BY <1>1, SmallBucket
  <2>. QED
    BY <1>0, <2>1
<1>2. CASE us >= 4
  <2>1. PICK o \in 2 .. Octaves - 1, q \in 4 .. 7 :
              LET w == 2 ^ (o - 2)
              IN  /\ o = octaveOf(us) /\ w \in Nat \ {0}
                  /\ q * w <= us /\ us < q * w + w /\ 4 * w <= us
                  /\ q = us \div w
                  /\ bucketOf(us) = 4 * (o - 2) + q
                  /\ bucketBound(bucketOf(us)) = q * w + w - 1
    BY <1>2, LargeBucket
  <2>. DEFINE w == 2 ^ (o - 2)
              x == q * w
              b == bucketBound(bucketOf(us))
  <2>2. /\ w \in Nat \ {0} /\ x <= us /\ us < x + w /\ 4 * w <= us
        /\ bucketOf(us) = 4 * (o - 2) + q /\ b = x + w - 1
    BY <2>1
  <2>3. x \in Nat
    BY <2>2
  <2>4. bucketOf(us) \in 0 .. nBuckets - 1
    <3>1. o \in Nat /\ q \in Nat /\ o >= 2 /\ o <= Octaves - 1 /\ q <= 7
      BY <1>0
    <3>. QED
      BY <1>0, <2>2, <3>1
  <2>. HIDE DEF w, x, b
  <2>5. b \in Int /\ b >= us /\ 4 * (b - us) <= us
    BY <1>0, <2>2, <2>3
  <2>. QED
    BY <2>4, <2>5 DEF b
<1>. QED
  BY <1>0, <1>1, <1>2

\* Buckets are in the order of their counts.
LEMMA BucketsInOrder ==
    ASSUME NEW us \in Micros, NEW vs \in Micros, us <= vs
    PROVE  bucketOf(us) <= bucketOf(vs)
<1>0. us \in Nat /\ vs \in Nat /\ Octaves \in Nat
  BY OctavesAssumption DEF Micros
<1>1. us < 4 => us \in 0 .. 3 /\ bucketOf(us) = us
  BY SmallBucket
<1>2. vs < 4 => vs \in 0 .. 3 /\ bucketOf(vs) = vs
  BY SmallBucket
<1>3. CASE vs < 4
  BY <1>0, <1>1, <1>2, <1>3
<1>4. CASE vs >= 4
  <2>1. PICK p \in 2 .. Octaves - 1, r \in 4 .. 7 :
              LET w == 2 ^ (p - 2)
              IN  /\ p = octaveOf(vs) /\ w \in Nat \ {0}
                  /\ r * w <= vs /\ vs < r * w + w /\ 4 * w <= vs
                  /\ r = vs \div w
                  /\ bucketOf(vs) = 4 * (p - 2) + r
                  /\ bucketBound(bucketOf(vs)) = r * w + w - 1
    BY <1>4, LargeBucket
  <2>. DEFINE wp == 2 ^ (p - 2)
  <2>2. /\ p \in Nat /\ p >= 2 /\ p \in 0 .. Octaves /\ r \in 4 .. 7 /\ wp \in Nat \ {0}
        /\ p - 2 \in 0 .. Octaves
        /\ r * wp <= vs /\ vs < r * wp + wp /\ bucketOf(vs) = 4 * (p - 2) + r
    BY <1>0, <2>1
  <2>3. CASE us < 4
    <3>1. bucketOf(us) \in 0 .. 3
      BY <1>1, <2>3
    <3>. QED
      BY <2>2, <3>1
  <2>4. CASE us >= 4
    <3>1. PICK o \in 2 .. Octaves - 1, q \in 4 .. 7 :
              LET w == 2 ^ (o - 2)
              IN  /\ o = octaveOf(us) /\ w \in Nat \ {0}
                  /\ q * w <= us /\ us < q * w + w /\ 4 * w <= us
                  /\ q = us \div w
                  /\ bucketOf(us) = 4 * (o - 2) + q
                  /\ bucketBound(bucketOf(us)) = q * w + w - 1
      BY <2>4, LargeBucket
    <3>. DEFINE wo == 2 ^ (o - 2)
    <3>2. /\ o \in Nat /\ o >= 2 /\ o \in 0 .. Octaves /\ q \in 4 .. 7 /\ wo \in Nat \ {0}
          /\ o - 2 \in 0 .. Octaves /\ o - 1 \in 0 .. Octaves /\ (o - 2) + 1 = o - 1
          /\ q * wo <= us /\ us < q * wo + wo /\ 4 * wo <= us /\ bucketOf(us) = 4 * (o - 2) + q
      BY <1>0, <3>1
    <3>3. CASE o < p
      BY <2>2, <3>2, <3>3
    <3>4. CASE o = p
      <4>1. wo = wp
        BY <3>4
      <4>. HIDE DEF wo, wp
      <4>2. ~(r < q)
        <5>1. SUFFICES ASSUME r < q PROVE FALSE
          OBVIOUS
        <5>2. r * wp + wp <= q * wo
          <6>1. \A a \in 4 .. 7, c \in 4 .. 7, z \in Nat : a < c => a * z + z <= c * z
            <7>. SUFFICES ASSUME NEW a \in 4 .. 7, NEW c \in 4 .. 7, NEW z \in Nat, a < c
                          PROVE  a * z + z <= c * z
              OBVIOUS
            <7>1. a = 4 \/ a = 5 \/ a = 6
              OBVIOUS
            <7>2. c = 5 \/ c = 6 \/ c = 7
              OBVIOUS
            <7>. QED
              BY <7>1, <7>2
          <6>. QED
            BY <2>2, <3>2, <4>1, <5>1, <6>1
        <5>3. r * wp \in Nat /\ q * wo \in Nat
          BY <2>2, <3>2
        <5>. QED
          BY <1>0, <2>2, <3>2, <5>2, <5>3
      <4>. QED
        BY <2>2, <3>2, <3>4, <4>2
    <3>5. CASE o > p
      <4>1. 2 * wp <= wo
        <5>1. p - 1 \in 0 .. Octaves /\ p - 1 <= o - 2 /\ (p - 2) + 1 = p - 1
          BY <1>0, <2>2, <3>2, <3>5
        <5>2. 2 ^ (p - 1) <= 2 ^ (o - 2)
          BY <3>2, <5>1, Powers
        <5>3. 2 ^ ((p - 2) + 1) = 2 * wp
          BY <2>2, PowersAssumption
        <5>. QED
          BY <5>1, <5>2, <5>3
      <4>. HIDE DEF wo, wp
      <4>2. r * wp + wp <= 8 * wp
        <5>1. r = 4 \/ r = 5 \/ r = 6 \/ r = 7
          BY <2>2
        <5>. QED
          BY <2>2, <5>1
      <4>3. r * wp \in Nat
        BY <2>2
      <4>. QED
        BY <1>0, <2>2, <3>2, <4>1, <4>2, <4>3
    <3>. QED
      BY <2>2, <3>2, <3>3, <3>4, <3>5
  <2>. QED
    BY <1>0, <2>3, <2>4
<1>. QED
  BY <1>0, <1>3, <1>4

-----------------------------------------------------------------------------
(* Counts of samples by bucket. *)

\* The counts of bucket b, and those of the buckets before it.
In(b) == {us \in Micros : bucketOf(us) = b}
Below(b) == {us \in Micros : bucketOf(us) < b}

LEMMA MicrosFacts ==
    /\ 2 ^ Octaves \in Nat \ {0} /\ Micros \subseteq Nat /\ IsFiniteSet(Micros)
    /\ \A b : IsFiniteSet(In(b)) /\ IsFiniteSet(Below(b))
<1>1. 2 ^ Octaves \in Nat \ {0}
  <2>1. Octaves \in 0 .. Octaves
    BY OctavesAssumption
  <2>. QED
    BY <2>1, Powers
<1>2. Micros \subseteq Nat /\ IsFiniteSet(Micros)
  <2>1. 0 \in Int /\ 2 ^ Octaves - 1 \in Int
    BY <1>1
  <2>. QED
    BY <2>1, FS_Interval DEF Micros
<1>3. ASSUME NEW b PROVE IsFiniteSet(In(b)) /\ IsFiniteSet(Below(b))
  BY <1>2, FS_Subset DEF In, Below
<1>. QED
  BY <1>1, <1>2, <1>3

\* d counts by bucket what f counts by microsecond.
Counts(d, f) ==
    /\ DOMAIN d = 1 .. nBuckets
    /\ f \in [Micros -> Nat]
    /\ \A i \in 1 .. nBuckets : d[i] = SumFunctionOnSet(f, In(i - 1))

\* So the first buckets of d have the samples that f has below their end.
LEMMA CountsBelow ==
    ASSUME NEW d, NEW f, Counts(d, f), NEW b \in 0 .. nBuckets
    PROVE  SumFunctionOnSet(d, 1 .. b) = SumFunctionOnSet(f, Below(b))
<1>. DEFINE S == 1 .. b
            X == [i \in S |-> UnitsOf(f, In(i - 1))]
            V == UnitsOf(f, Below(b))
<1>0. nBuckets \in Nat /\ b \in Nat /\ IsFiniteSet(S)
  <2>1. nBuckets \in Nat
    BY SubCountIs4
  <2>. QED
    BY <2>1, FS_Interval
<1>1. \A us \in Micros : f[us] \in Nat
  BY DEF Counts
<1>2. ASSUME NEW i \in S PROVE IsFiniteSet(X[i]) /\ d[i] = Cardinality(X[i])
  <2>. DEFINE M == In(i - 1)
  <2>1. IsFiniteSet(M) /\ \A us \in M : f[us] \in Nat
    BY <1>1, MicrosFacts DEF In
  <2>2. d[i] = SumFunctionOnSet(f, M)
    <3>1. i \in 1 .. nBuckets
      BY <1>0
    <3>. QED
      BY <3>1 DEF Counts
  <2>3. X[i] = UnitsOf(f, M)
    OBVIOUS
  <2>. HIDE DEF M, X
  <2>4. IsFiniteSet(UnitsOf(f, M)) /\ SumFunctionOnSet(f, M) = Cardinality(UnitsOf(f, M))
    BY <2>1, SumIsUnits
  <2>. QED
    BY <2>2, <2>3, <2>4
<1>3. ASSUME NEW i \in S, NEW j \in S, i # j PROVE X[i] \cap X[j] = {}
  <2>1. SUFFICES ASSUME NEW u, u \in UnitsOf(f, In(i - 1)), u \in UnitsOf(f, In(j - 1)) PROVE FALSE
    OBVIOUS
  <2>2. PICK us \in In(i - 1) : \E k \in 1 .. f[us] : u = <<us, k>>
    BY <2>1, UnitFacts
  <2>3. PICK vs \in In(j - 1) : \E m \in 1 .. f[vs] : u = <<vs, m>>
    BY <2>1, UnitFacts
  <2>4. us = vs /\ bucketOf(us) = i - 1 /\ bucketOf(vs) = j - 1
    BY <2>2, <2>3 DEF In
  <2>5. i - 1 # j - 1
    BY <1>0, <1>3
  <2>. QED
    BY <2>4, <2>5
<1>4. V = UNION {X[i] : i \in S}
  <2>1. ASSUME NEW u \in V PROVE \E i \in S : u \in X[i]
    <3>1. PICK us \in Below(b) : \E k \in 1 .. f[us] : u = <<us, k>>
      BY UnitFacts
    <3>2. us \in Micros /\ bucketOf(us) < b /\ bucketOf(us) \in 0 .. nBuckets - 1
      BY BucketFacts DEF Below
    <3>. DEFINE i == bucketOf(us) + 1
    <3>3. i \in S /\ i - 1 = bucketOf(us)
      BY <1>0, <3>2
    <3>4. us \in In(i - 1)
      BY <3>2, <3>3 DEF In
    <3>. HIDE DEF i
    <3>5. u \in UnitsOf(f, In(i - 1))
      BY <3>1, <3>4, UnitFacts
    <3>. QED
      BY <3>3, <3>5
  <2>2. ASSUME NEW i \in S, NEW u \in X[i] PROVE u \in V
    <3>1. PICK us \in In(i - 1) : \E k \in 1 .. f[us] : u = <<us, k>>
      BY UnitFacts
    <3>2. us \in Below(b)
      BY <1>0 DEF In, Below
    <3>. QED
      BY <3>1, <3>2, UnitFacts
  <2>. HIDE DEF V, X
  <2>. QED
    BY <2>1, <2>2
<1>. HIDE DEF S, X, V
<1>5. Cuts(d, S, X, V)
  BY <1>2, <1>3, <1>4 DEF Cuts
<1>6. SumFunctionOnSet(d, S) = Cardinality(V)
  BY <1>0, <1>5, SumOfParts
<1>7. SumFunctionOnSet(f, Below(b)) = Cardinality(V)
  <2>1. IsFiniteSet(Below(b)) /\ \A us \in Below(b) : f[us] \in Nat
    BY <1>1, MicrosFacts DEF Below
  <2>. QED
    BY <2>1, SumIsUnits DEF V
<1>. QED
  BY <1>6, <1>7 DEF S

\* All of them, in particular.
LEMMA CountsAll ==
    ASSUME NEW d, NEW f, Counts(d, f)
    PROVE  /\ SumFunction(d) = SumFunction(f) /\ SumFunction(f) \in Nat
           /\ SumFunction(f) = SumFunctionOnSet(f, Micros)
<1>1. nBuckets \in Nat /\ nBuckets \in 0 .. nBuckets
  BY SubCountIs4
<1>2. SumFunctionOnSet(d, 1 .. nBuckets) = SumFunctionOnSet(f, Below(nBuckets))
  BY <1>1, CountsBelow
<1>3. Below(nBuckets) = Micros
  <2>1. ASSUME NEW us \in Micros PROVE bucketOf(us) < nBuckets
    <3>1. bucketOf(us) \in 0 .. nBuckets - 1
      BY BucketFacts
    <3>. QED
      BY <1>1, <3>1
  <2>. QED
    BY <2>1 DEF Below
<1>4. /\ DOMAIN d = 1 .. nBuckets /\ DOMAIN f = Micros
      /\ \A us \in Micros : f[us] \in Nat
  BY DEF Counts
<1>5. SumFunctionOnSet(f, Micros) \in Nat
  BY <1>4, MicrosFacts, SumIsUnits
<1>. QED
  BY <1>2, <1>3, <1>4, <1>5 DEF SumFunction

-----------------------------------------------------------------------------
(* Quantiles. *)

\* The rank of a quantile is one of 1 .. n.
LEMMA RankFacts ==
    ASSUME NEW q \in 0 .. 100, NEW n \in Nat \ {0} PROVE rankOf(q, n) \in 1 .. n
<1>. DEFINE m == n - 1
            x == q * m
<1>1. m \in Nat /\ q \in Nat /\ q <= 100
  OBVIOUS
<1>2. x \in Nat
  BY <1>1
<1>3. x <= 100 * m
  <2>1. (100 - q) * m \in Nat
    <3>1. 100 - q \in Nat
      BY <1>1
    <3>. QED
      BY <1>1, <3>1
  <2>2. 100 * m = x + (100 - q) * m
    BY <1>1
  <2>. HIDE DEF x, m
  <2>. QED
    BY <1>1, <1>2, <2>1, <2>2
<1>4. rankOf(q, n) = x \div 100 + 1
  BY DEF rankOf
<1>. HIDE DEF x
<1>5. x \div 100 \in 0 .. m
  BY <1>1, <1>2, <1>3
<1>. QED
  BY <1>4, <1>5

\* The first r samples end at us, and in d at the bucket of us.
LEMMA ReachesTheSame ==
    ASSUME NEW d, NEW f, Counts(d, f), NEW r \in 1 .. SumFunction(f)
    PROVE  /\ reaches(f, r) \in Micros
           /\ reaches(d, r) = bucketOf(reaches(f, r)) + 1
<1>. DEFINE UpTo(u) == {v \in Micros : v <= u}
            F == {u \in Micros : SumFunctionOnSet(f, UpTo(u)) >= r}
            D == {i \in 1 .. nBuckets : SumFunctionOnSet(d, 1 .. i) >= r}
            us == reaches(f, r)
            b == bucketOf(us)
<1>0. /\ nBuckets \in Nat \ {0} /\ r \in Nat \ {0} /\ SumFunction(f) \in Nat
      /\ SumFunction(f) = SumFunctionOnSet(f, Micros) /\ r <= SumFunction(f)
  <2>1. SumFunction(f) \in Nat /\ SumFunction(f) = SumFunctionOnSet(f, Micros)
    BY CountsAll
  <2>. QED
    BY <2>1, SubCountIs4
<1>1. /\ DOMAIN f = Micros /\ DOMAIN d = 1 .. nBuckets
      /\ \A u \in Micros : f[u] \in Nat
  BY DEF Counts
<1>2. ASSUME NEW A, NEW B, A \subseteq B, B \subseteq Micros
      PROVE  /\ SumFunctionOnSet(f, A) <= SumFunctionOnSet(f, B)
             /\ SumFunctionOnSet(f, A) \in Nat /\ SumFunctionOnSet(f, B) \in Nat
  <2>1. IsFiniteSet(A) /\ IsFiniteSet(B)
    BY <1>2, MicrosFacts, FS_Subset
  <2>2. (\A i \in A : f[i] \in Nat) /\ (\A i \in B : f[i] \in Nat)
    BY <1>1, <1>2
  <2>3. SumFunctionOnSet(f, A) \in Nat /\ SumFunctionOnSet(f, B) \in Nat
    BY <2>1, <2>2, SumIsUnits
  <2>. QED
    BY <1>2, <2>1, <2>2, <2>3, SumGrows
<1>3. us = Min(F)
  BY <1>1 DEF reaches
<1>4. reaches(d, r) = Min(D)
  <2>1. ASSUME NEW i \in 1 .. nBuckets PROVE {j \in 1 .. nBuckets : j <= i} = 1 .. i
    BY <1>0
  <2>2. D = {i \in 1 .. nBuckets : SumFunctionOnSet(d, {j \in 1 .. nBuckets : j <= i}) >= r}
    BY <2>1
  <2>. QED
    BY <1>1, <2>2 DEF reaches
<1>5. F \subseteq Nat /\ F # {}
  <2>. DEFINE top == 2 ^ Octaves - 1
  <2>1. top \in Micros /\ UpTo(top) = Micros
    BY MicrosFacts DEF Micros
  <2>2. SumFunctionOnSet(f, UpTo(top)) >= r
    BY <1>0, <2>1
  <2>3. F \subseteq Nat
    BY MicrosFacts
  <2>. QED
    BY <2>1, <2>2, <2>3
<1>. HIDE DEF F, D, us
<1>6. us \in F /\ \A u \in F : us <= u
  BY <1>3, <1>5, MinNatural
<1>7. us \in Micros /\ us \in Nat /\ SumFunctionOnSet(f, UpTo(us)) >= r
  BY <1>6, MicrosFacts DEF F
<1>8. b \in 0 .. nBuckets - 1 /\ b + 1 \in 1 .. nBuckets /\ b + 1 \in 0 .. nBuckets
  <2>1. b \in 0 .. nBuckets - 1
    BY <1>7, BucketFacts
  <2>. QED
    BY <1>0, <2>1
<1>. HIDE DEF b
<1>9. b + 1 \in D
  <2>. DEFINE A == UpTo(us)
              B == Below(b + 1)
  <2>1. A \subseteq B
    <3>1. ASSUME NEW v \in A PROVE v \in B
      <4>1. v \in Micros /\ v <= us
        OBVIOUS
      <4>2. bucketOf(v) <= b /\ bucketOf(v) \in 0 .. nBuckets - 1
        BY <1>7, <4>1, BucketsInOrder, BucketFacts DEF b
      <4>3. bucketOf(v) < b + 1
        BY <1>0, <1>8, <4>2
      <4>. QED
        BY <4>1, <4>3 DEF Below
    <3>. QED
      BY <3>1
  <2>2. B \subseteq Micros
    BY DEF Below
  <2>. HIDE DEF A, B
  <2>3. /\ SumFunctionOnSet(f, A) <= SumFunctionOnSet(f, B)
        /\ SumFunctionOnSet(f, A) \in Nat /\ SumFunctionOnSet(f, B) \in Nat
    BY <1>2, <2>1, <2>2
  <2>4. SumFunctionOnSet(f, A) >= r
    BY <1>7 DEF A
  <2>5. SumFunctionOnSet(f, B) >= r
    BY <1>0, <2>3, <2>4
  <2>6. SumFunctionOnSet(d, 1 .. (b + 1)) = SumFunctionOnSet(f, B)
    BY <1>8, CountsBelow DEF B
  <2>. QED
    BY <1>8, <2>5, <2>6 DEF D
<1>10. ASSUME NEW i \in D PROVE b + 1 <= i
  <2>1. SUFFICES ASSUME i <= b PROVE FALSE
    BY <1>0, <1>8 DEF D
  <2>2. i \in 1 .. nBuckets /\ i \in 0 .. nBuckets /\ SumFunctionOnSet(d, 1 .. i) >= r
    BY <1>0 DEF D
  <2>3. ASSUME NEW v \in Below(i) PROVE v \in Micros /\ v < us
    <3>1. v \in Micros /\ v \in Nat /\ bucketOf(v) < i /\ bucketOf(v) \in 0 .. nBuckets - 1
      BY MicrosFacts, BucketFacts DEF Below
    <3>2. ~(us <= v)
      <4>1. us <= v => b <= bucketOf(v)
        BY <1>7, <3>1, BucketsInOrder DEF b
      <4>. QED
        BY <1>0, <1>8, <2>1, <2>2, <3>1, <4>1
    <3>. QED
      BY <1>7, <3>1, <3>2
  <2>4. SumFunctionOnSet(f, Below(i)) >= r
    BY <2>2, CountsBelow
  <2>5. us # 0
    <3>1. SUFFICES ASSUME us = 0 PROVE FALSE
      OBVIOUS
    <3>2. Below(i) = {}
      <4>1. \A v \in Below(i) : v \in Nat /\ v < 0
        BY <2>3, <3>1, MicrosFacts
      <4>. QED
        BY <4>1
    <3>3. SumFunctionOnSet(f, Below(i)) = 0
      BY <3>2, SumOfNone
    <3>. QED
      BY <1>0, <2>4, <3>3
  <2>6. us - 1 \in Micros /\ us - 1 \in Nat /\ us - 1 < us
    BY <1>7, <2>5, MicrosFacts DEF Micros
  <2>. DEFINE A == Below(i)
              B == UpTo(us - 1)
  <2>7. A \subseteq B /\ B \subseteq Micros
    <3>1. ASSUME NEW v \in A PROVE v \in B
      <4>1. v \in Micros /\ v \in Nat /\ v < us
        BY <2>3, MicrosFacts
      <4>2. v <= us - 1
        BY <1>7, <4>1
      <4>. QED
        BY <4>1, <4>2
    <3>. QED
      BY <3>1
  <2>8. ~(SumFunctionOnSet(f, B) >= r)
    <3>1. us - 1 \notin F
      BY <1>6, <1>7, <2>6
    <3>. QED
      BY <2>6, <3>1 DEF F
  <2>. HIDE DEF A, B
  <2>9. /\ SumFunctionOnSet(f, A) <= SumFunctionOnSet(f, B)
        /\ SumFunctionOnSet(f, A) \in Nat /\ SumFunctionOnSet(f, B) \in Nat
    BY <1>2, <2>7
  <2>10. SumFunctionOnSet(f, A) >= r
    BY <2>4 DEF A
  <2>. QED
    BY <1>0, <2>8, <2>9, <2>10
<1>11. Min(D) = b + 1
  <2>1. D \subseteq Nat /\ D # {}
    BY <1>9 DEF D
  <2>2. Min(D) \in D /\ \A m \in D : Min(D) <= m
    BY <2>1, MinNatural
  <2>3. Min(D) <= b + 1 /\ b + 1 <= Min(D) /\ Min(D) \in Nat /\ b + 1 \in Nat
    BY <1>9, <1>10, <2>1, <2>2
  <2>. QED
    BY <2>3
<1>. QED
  BY <1>4, <1>7, <1>11 DEF us, b

\* Read off the buckets, a quantile is the sample or at most a quarter above it.
LEMMA QuantileFacts ==
    ASSUME NEW d, NEW f, Counts(d, f), SumFunction(f) > 0, NEW q \in 0 .. 100
    PROVE  LET us == reaches(f, rankOf(q, SumFunction(f)))
           IN  quantile(d, q) >= us /\ 4 * (quantile(d, q) - us) <= us
<1>. DEFINE n == SumFunction(f)
            r == rankOf(q, n)
            us == reaches(f, r)
<1>1. n \in Nat \ {0} /\ SumFunction(d) = n
  BY CountsAll
<1>. HIDE DEF n
<1>2. r \in 1 .. n
  BY <1>1, RankFacts
<1>. HIDE DEF r
<1>3. us \in Micros /\ reaches(d, r) = bucketOf(us) + 1
  BY <1>2, ReachesTheSame DEF n
<1>. HIDE DEF us
<1>4. bucketOf(us) \in Int /\ bucketBound(bucketOf(us)) >= us /\ 4 * (bucketBound(bucketOf(us)) - us) <= us
  <2>1. nBuckets \in Nat
    BY SubCountIs4
  <2>. QED
    BY <1>3, <2>1, BucketFacts
<1>5. quantile(d, q) = bucketBound(reaches(d, r) - 1)
  BY <1>1 DEF quantile, r
<1>6. reaches(d, r) - 1 = bucketOf(us)
  BY <1>3, <1>4
<1>. QED
  BY <1>4, <1>5, <1>6 DEF us, r, n

-----------------------------------------------------------------------------
(* The invariant. *)

\* The types, with what the buckets add up to.
CountsOK ==
    /\ buckets \in [0 .. nBuckets - 1 -> Nat] /\ SumFunction(buckets) <= MaxSamples
    /\ reading \in Seq(Nat) /\ Len(reading) <= nBuckets
    /\ previous \in Seq(Nat) /\ Len(previous) = nBuckets
    /\ readings \in 0 .. MaxReadings /\ (Len(reading) > 0 => readings < MaxReadings)
    /\ waiting \in [Micros -> Nat] /\ window \in [Micros -> Nat]

\* What is in bucket b that no reading has caught.
Waiting(b) == SumFunctionOnSet(waiting, In(b))

\* A bucket that has been read has given the window what it gained, one that has
\* not has given it nothing, and the rest is waiting.
BucketOK(b) ==
    IF b < Len(reading)
    THEN /\ reading[b + 1] = previous[b + 1] + SumFunctionOnSet(window, In(b))
         /\ buckets[b] = reading[b + 1] + Waiting(b)
    ELSE /\ \A us \in In(b) : window[us] = 0
         /\ buckets[b] = previous[b + 1] + Waiting(b)

HistogramInv == CountsOK /\ \A b \in 0 .. nBuckets - 1 : BucketOK(b)

LEMMA HistogramInitInv == HistogramInit => HistogramInv
<1>. SUFFICES ASSUME HistogramInit PROVE HistogramInv
  OBVIOUS
<1>0. nBuckets \in Nat \ {0} /\ MaxSamples \in Nat /\ MaxReadings \in Nat
  BY SubCountIs4, HistogramBounds
<1>1. SumFunction(buckets) = 0
  <2>1. DOMAIN buckets = 0 .. nBuckets - 1 /\ \A b \in 0 .. nBuckets - 1 : buckets[b] = 0
    BY DEF HistogramInit
  <2>2. IsFiniteSet(0 .. nBuckets - 1)
    <3>1. 0 \in Int /\ nBuckets - 1 \in Int
      BY <1>0
    <3>. QED
      BY <3>1, FS_Interval
  <2>. QED
    BY <2>1, <2>2, SumOfZeros DEF SumFunction
<1>2. previous \in Seq(Nat) /\ Len(previous) = nBuckets /\ \A i \in 1 .. nBuckets : previous[i] = 0
  BY <1>0 DEF HistogramInit
<1>3. CountsOK
  BY <1>0, <1>1, <1>2 DEF HistogramInit, CountsOK
<1>4. ASSUME NEW b \in 0 .. nBuckets - 1 PROVE BucketOK(b)
  <2>1. Waiting(b) = 0
    <3>1. \A us \in In(b) : waiting[us] = 0
      BY DEF HistogramInit, In
    <3>. QED
      BY <3>1, MicrosFacts, SumOfZeros DEF Waiting
  <2>2. \A us \in In(b) : window[us] = 0
    BY DEF HistogramInit, In
  <2>3. Len(reading) = 0 /\ buckets[b] = 0 /\ b + 1 \in 1 .. nBuckets /\ ~(b < 0)
    BY <1>0 DEF HistogramInit
  <2>4. previous[b + 1] = 0
    BY <1>2, <2>3
  <2>. QED
    BY <2>1, <2>2, <2>3, <2>4 DEF BucketOK
<1>. QED
  BY <1>3, <1>4 DEF HistogramInv

\* The sum of naturals over the counts of a bucket.
LEMMA InFacts ==
    ASSUME NEW f \in [Micros -> Nat], NEW b
    PROVE  /\ IsFiniteSet(In(b)) /\ In(b) \subseteq Micros /\ \A us \in In(b) : f[us] \in Nat
           /\ SumFunctionOnSet(f, In(b)) \in Nat
<1>1. IsFiniteSet(In(b)) /\ In(b) \subseteq Micros /\ \A us \in In(b) : f[us] \in Nat
  BY MicrosFacts DEF In
<1>. QED
  BY <1>1, SumIsUnits

LEMMA ObserveInv ==
    ASSUME HistogramInv, NEW d \in Latencies, observe(d) PROVE HistogramInv'
<1>. DEFINE us == Max({d, 0})
            c == bucketOf(us)
            N == 0 .. nBuckets - 1
<1>0. nBuckets \in Nat \ {0} /\ MaxSamples \in Nat /\ IsFiniteSet(N)
  <2>1. nBuckets \in Nat \ {0} /\ MaxSamples \in Nat
    BY SubCountIs4, HistogramBounds
  <2>2. 0 \in Int /\ nBuckets - 1 \in Int
    BY <2>1
  <2>. QED
    BY <2>1, <2>2, FS_Interval
<1>1. us \in Micros
  <2>1. d \in Int /\ d < 2 ^ Octaves /\ 2 ^ Octaves \in Nat \ {0}
    BY LatenciesAssumption, MicrosFacts
  <2>2. us = IF d >= 0 THEN d ELSE 0
    BY <2>1 DEF Max
  <2>. QED
    BY <2>1, <2>2 DEF Micros
<1>. HIDE DEF us
<1>2. c \in N
  BY <1>1, BucketFacts
<1>. HIDE DEF c, N
<1>3. /\ SumFunction(buckets) < MaxSamples
      /\ buckets' = [buckets EXCEPT ![c] = @ + 1]
      /\ waiting' = [waiting EXCEPT ![us] = @ + 1]
      /\ UNCHANGED <<reading, previous, readings, window>>
  BY DEF observe, us, c
<1>4. buckets \in [N -> Nat] /\ waiting \in [Micros -> Nat] /\ CountsOK
  BY DEF HistogramInv, CountsOK, N
<1>5. /\ buckets' \in [N -> Nat] /\ buckets'[c] = buckets[c] + 1
      /\ \A b \in N \ {c} : buckets'[b] = buckets[b]
  BY <1>2, <1>3, <1>4
<1>6. /\ waiting' \in [Micros -> Nat] /\ waiting'[us] = waiting[us] + 1
      /\ \A v \in Micros \ {us} : waiting'[v] = waiting[v]
  BY <1>1, <1>3, <1>4
<1>7. SumFunction(buckets') <= MaxSamples
  <2>1. DOMAIN buckets = N /\ DOMAIN buckets' = N /\ \A b \in N : buckets[b] \in Nat
    BY <1>4, <1>5
  <2>2. SumFunctionOnSet(buckets', N) = SumFunctionOnSet(buckets, N) + 1
    BY <1>0, <1>2, <1>5, <2>1, SumOfOneMore
  <2>3. SumFunctionOnSet(buckets, N) \in Nat
    BY <1>0, <2>1, SumIsUnits
  <2>4. SumFunctionOnSet(buckets, N) < MaxSamples
    BY <1>3, <2>1 DEF SumFunction
  <2>5. SumFunctionOnSet(buckets', N) <= MaxSamples
    BY <1>0, <2>2, <2>3, <2>4
  <2>. QED
    BY <2>1, <2>5 DEF SumFunction
<1>8. CountsOK'
  BY <1>3, <1>4, <1>5, <1>6, <1>7 DEF CountsOK, N
<1>9. ASSUME NEW b \in N PROVE BucketOK(b)'
  <2>. DEFINE S == In(b)
  <2>0. BucketOK(b)
    BY DEF HistogramInv, N
  <2>1. /\ IsFiniteSet(S) /\ S \subseteq Micros /\ \A v \in S : waiting[v] \in Nat
        /\ SumFunctionOnSet(waiting, S) \in Nat
    BY <1>4, InFacts
  <2>2. us \in S <=> b = c
    BY <1>1 DEF In, c
  <2>. HIDE DEF S
  <2>3. b = c => SumFunctionOnSet(waiting', S) = SumFunctionOnSet(waiting, S) + 1
    <3>. SUFFICES ASSUME b = c PROVE SumFunctionOnSet(waiting', S) = SumFunctionOnSet(waiting, S) + 1
      OBVIOUS
    <3>1. us \in S /\ \A v \in S \ {us} : waiting'[v] = waiting[v]
      BY <1>6, <2>1, <2>2
    <3>. QED
      BY <1>6, <2>1, <3>1, SumOfOneMore
  <2>4. b # c => SumFunctionOnSet(waiting', S) = SumFunctionOnSet(waiting, S)
    <3>. SUFFICES ASSUME b # c PROVE SumFunctionOnSet(waiting', S) = SumFunctionOnSet(waiting, S)
      OBVIOUS
    <3>1. \A v \in S : waiting[v] \in Nat /\ waiting'[v] = waiting[v]
      BY <1>6, <2>1, <2>2
    <3>. QED
      BY <2>1, <3>1, SumSame
  <2>. DEFINE w  == SumFunctionOnSet(waiting, S)
              w2 == SumFunctionOnSet(waiting', S)
  <2>5. buckets'[b] = buckets[b] + (IF b = c THEN 1 ELSE 0) /\ buckets[b] \in Nat
    BY <1>4, <1>5
  <2>6. w2 = w + (IF b = c THEN 1 ELSE 0) /\ w \in Nat
    BY <2>1, <2>3, <2>4
  <2>. HIDE DEF w, w2
  <2>7. Waiting(b) = w /\ Waiting(b)' = w2
    BY DEF Waiting, w, w2, S
  <2>8. CASE b < Len(reading)
    <3>1. b + 1 \in 1 .. Len(reading)
      BY <1>0, <1>4, <2>8 DEF CountsOK, N
    <3>2. reading[b + 1] \in Nat
      BY <1>4, <3>1 DEF CountsOK
    <3>3. /\ reading[b + 1] = previous[b + 1] + SumFunctionOnSet(window, S)
          /\ buckets[b] = reading[b + 1] + w
      BY <2>0, <2>7, <2>8 DEF BucketOK, S
    <3>4. buckets'[b] = reading[b + 1] + w2
      BY <2>5, <2>6, <3>2, <3>3
    <3>. QED
      BY <1>3, <2>7, <2>8, <3>3, <3>4 DEF BucketOK, S
  <2>9. CASE ~(b < Len(reading))
    <3>1. b + 1 \in 1 .. Len(previous)
      BY <1>0, <1>4 DEF CountsOK, N
    <3>2. previous[b + 1] \in Nat
      BY <1>4, <3>1 DEF CountsOK
    <3>3. (\A v \in S : window[v] = 0) /\ buckets[b] = previous[b + 1] + w
      BY <2>0, <2>7, <2>9 DEF BucketOK, S
    <3>4. buckets'[b] = previous[b + 1] + w2
      BY <2>5, <2>6, <3>2, <3>3
    <3>. QED
      BY <1>3, <2>7, <2>9, <3>3, <3>4 DEF BucketOK, S
  <2>. QED
    BY <2>8, <2>9
<1>. QED
  BY <1>8, <1>9 DEF HistogramInv, N

LEMMA LoadInv == ASSUME HistogramInv, Load PROVE HistogramInv'
<1>. DEFINE N == 0 .. nBuckets - 1
            i == Len(reading)
            caught == [us \in Micros |-> IF bucketOf(us) = i THEN waiting[us] ELSE 0]
<1>0. nBuckets \in Nat \ {0}
  BY SubCountIs4
<1>1. /\ CountsOK /\ i \in Nat /\ i < nBuckets /\ readings < MaxReadings
      /\ reading' = Append(reading, buckets[i])
      /\ window' = [us \in Micros |-> window[us] + caught[us]]
      /\ waiting' = [us \in Micros |-> waiting[us] - caught[us]]
      /\ UNCHANGED <<buckets, previous, readings>>
  BY DEF HistogramInv, CountsOK, Load
<1>2. i \in N /\ buckets \in [N -> Nat] /\ buckets[i] \in Nat /\ reading \in Seq(Nat)
      /\ window \in [Micros -> Nat] /\ waiting \in [Micros -> Nat]
  BY <1>0, <1>1 DEF CountsOK
<1>3. /\ \A us \in In(i) : window'[us] = window[us] + waiting[us] /\ waiting'[us] = 0
      /\ \A us \in Micros \ In(i) : window'[us] = window[us] /\ waiting'[us] = waiting[us]
      /\ window' \in [Micros -> Nat] /\ waiting' \in [Micros -> Nat]
  <2>1. ASSUME NEW us \in Micros
        PROVE  /\ window[us] \in Nat /\ waiting[us] \in Nat
               /\ window'[us] = window[us] + (IF bucketOf(us) = i THEN waiting[us] ELSE 0)
               /\ waiting'[us] = waiting[us] - (IF bucketOf(us) = i THEN waiting[us] ELSE 0)
    BY <1>1, <1>2
  <2>2. ASSUME NEW us \in In(i)
        PROVE  window'[us] = window[us] + waiting[us] /\ waiting'[us] = 0
    BY <2>1 DEF In
  <2>3. ASSUME NEW us \in Micros \ In(i)
        PROVE  window'[us] = window[us] /\ waiting'[us] = waiting[us]
    BY <2>1 DEF In
  <2>4. ASSUME NEW us \in Micros PROVE window'[us] \in Nat /\ waiting'[us] \in Nat
    BY <2>1
  <2>5. /\ window' = [us \in Micros |-> window'[us]]
        /\ waiting' = [us \in Micros |-> waiting'[us]]
    BY <1>1
  <2>6. window' \in [Micros -> Nat] /\ waiting' \in [Micros -> Nat]
    BY <2>4, <2>5
  <2>. QED
    BY <2>2, <2>3, <2>6
<1>. HIDE DEF caught, N, i
<1>4. /\ reading' \in Seq(Nat) /\ Len(reading') = i + 1 /\ reading'[i + 1] = buckets[i]
      /\ \A k \in 1 .. i : reading'[k] = reading[k]
  BY <1>1, <1>2, AppendProperties DEF i
<1>5. CountsOK'
  <2>1. Len(reading') <= nBuckets
    BY <1>0, <1>1, <1>4
  <2>. QED
    BY <1>1, <1>3, <1>4, <2>1 DEF CountsOK
<1>6. ASSUME NEW b \in N PROVE BucketOK(b)'
  <2>0. BucketOK(b) /\ b \in Nat
    BY <1>0 DEF HistogramInv, N
  <2>. DEFINE S == In(b)
  <2>1. IsFiniteSet(S) /\ S \subseteq Micros /\ \A us \in S : window[us] \in Nat /\ waiting[us] \in Nat
    BY <1>2, InFacts
  <2>2. CASE b = i
    <3>1. \A us \in S : window[us] = 0
      BY <1>1, <2>0, <2>2 DEF BucketOK, i
    <3>2. buckets[i] = previous[i + 1] + SumFunctionOnSet(waiting, S)
      BY <1>1, <2>0, <2>2 DEF BucketOK, i, Waiting
    <3>3. \A us \in S : waiting[us] \in Nat /\ window'[us] = waiting[us] /\ waiting'[us] = 0
      BY <1>3, <2>1, <2>2, <3>1
    <3>. HIDE DEF S
    <3>4. SumFunctionOnSet(window', S) = SumFunctionOnSet(waiting, S)
      BY <2>1, <3>3, SumSame
    <3>5. SumFunctionOnSet(waiting', S) = 0
      BY <2>1, <3>3, SumOfZeros
    <3>6. buckets[i] = reading'[b + 1] + 0
      BY <1>2, <1>4, <2>2
    <3>7. reading'[b + 1] = previous'[b + 1] + SumFunctionOnSet(window', S)
      BY <1>1, <1>4, <2>2, <3>2, <3>4
    <3>8. buckets'[b] = reading'[b + 1] + SumFunctionOnSet(waiting', S)
      BY <1>1, <2>2, <3>5, <3>6
    <3>9. b < Len(reading')
      BY <1>1, <1>4, <2>2
    <3>. QED
      BY <3>7, <3>8, <3>9 DEF BucketOK, Waiting, S
  <2>3. CASE b # i
    <3>1. \A us \in S : window'[us] = window[us] /\ waiting'[us] = waiting[us]
      <4>1. ASSUME NEW us \in S PROVE us \in Micros \ In(i)
        BY <2>3 DEF In
      <4>. QED
        BY <1>3, <4>1
    <3>. HIDE DEF S
    <3>2. SumFunctionOnSet(window', S) = SumFunctionOnSet(window, S)
      BY <2>1, <3>1, SumSame
    <3>3. SumFunctionOnSet(waiting', S) = SumFunctionOnSet(waiting, S)
      BY <2>1, <3>1, SumSame
    <3>4. CASE b < i
      <4>1. b + 1 \in 1 .. i /\ b < Len(reading')
        BY <1>1, <1>4, <2>0, <3>4
      <4>2. /\ reading[b + 1] = previous[b + 1] + SumFunctionOnSet(window, S)
            /\ buckets[b] = reading[b + 1] + SumFunctionOnSet(waiting, S)
        BY <2>0, <3>4 DEF BucketOK, i, Waiting, S
      <4>3. reading'[b + 1] = reading[b + 1]
        BY <1>4, <4>1
      <4>4. /\ reading'[b + 1] = previous'[b + 1] + SumFunctionOnSet(window', S)
            /\ buckets'[b] = reading'[b + 1] + SumFunctionOnSet(waiting', S)
        BY <1>1, <3>2, <3>3, <4>2, <4>3
      <4>. QED
        BY <4>1, <4>4 DEF BucketOK, Waiting, S
    <3>5. CASE ~(b < i)
      <4>1. ~(b < Len(reading'))
        BY <1>1, <1>4, <2>0, <2>3, <3>5
      <4>2. /\ \A us \in S : window[us] = 0
            /\ buckets[b] = previous[b + 1] + SumFunctionOnSet(waiting, S)
        BY <2>0, <3>5 DEF BucketOK, i, Waiting, S
      <4>3. /\ \A us \in S : window'[us] = 0
            /\ buckets'[b] = previous'[b + 1] + SumFunctionOnSet(waiting', S)
        BY <1>1, <3>1, <3>3, <4>2
      <4>. QED
        BY <4>1, <4>3 DEF BucketOK, Waiting, S
    <3>. QED
      BY <3>4, <3>5
  <2>. QED
    BY <2>2, <2>3
<1>. QED
  BY <1>5, <1>6 DEF HistogramInv, N

LEMMA ReportInv == ASSUME HistogramInv, Report PROVE HistogramInv'
<1>0. nBuckets \in Nat \ {0} /\ MaxReadings \in Nat
  BY SubCountIs4, HistogramBounds
<1>1. /\ CountsOK /\ Len(reading) = nBuckets
      /\ previous' = reading /\ reading' = <<>> /\ readings' = readings + 1
      /\ window' = [us \in Micros |-> 0] /\ UNCHANGED <<buckets, waiting>>
  BY DEF HistogramInv, Report
<1>2. reading' \in Seq(Nat) /\ Len(reading') = 0
  BY <1>1
<1>3. CountsOK'
  <2>1. readings' \in 0 .. MaxReadings
    BY <1>0, <1>1 DEF CountsOK
  <2>2. window' \in [Micros -> Nat]
    BY <1>1
  <2>. QED
    BY <1>0, <1>1, <1>2, <2>1, <2>2 DEF CountsOK
<1>4. ASSUME NEW b \in 0 .. nBuckets - 1 PROVE BucketOK(b)'
  <2>1. b < Len(reading) /\ ~(b < Len(reading'))
    BY <1>0, <1>1, <1>2
  <2>2. buckets[b] = reading[b + 1] + Waiting(b)
    BY <2>1 DEF HistogramInv, BucketOK
  <2>3. Waiting(b)' = Waiting(b)
    BY <1>1 DEF Waiting
  <2>4. \A us \in In(b) : window'[us] = 0
    BY <1>1 DEF In
  <2>. QED
    BY <1>1, <2>1, <2>2, <2>3, <2>4 DEF BucketOK
<1>. QED
  BY <1>3, <1>4 DEF HistogramInv

LEMMA HistogramStepInv == HistogramInv /\ [HistogramNext]_histogramVars => HistogramInv'
<1>. SUFFICES ASSUME HistogramInv, [HistogramNext]_histogramVars PROVE HistogramInv'
  OBVIOUS
<1>1. ASSUME NEW d \in Latencies, observe(d) PROVE HistogramInv'
  BY <1>1, ObserveInv
<1>2. CASE Load
  BY <1>2, LoadInv
<1>3. CASE Report
  BY <1>3, ReportInv
<1>4. CASE UNCHANGED histogramVars
  BY <1>4 DEF HistogramInv, CountsOK, BucketOK, Waiting, histogramVars
<1>. QED
  BY <1>1, <1>2, <1>3, <1>4 DEF HistogramNext

\* No count is larger than the samples filed.
LEMMA HistogramTypes == HistogramInv => HistogramTypeOK
<1>. SUFFICES ASSUME HistogramInv PROVE HistogramTypeOK
  OBVIOUS
<1>. DEFINE N == 0 .. nBuckets - 1
<1>0. nBuckets \in Nat \ {0} /\ MaxSamples \in Nat /\ IsFiniteSet(N)
  <2>1. nBuckets \in Nat \ {0} /\ MaxSamples \in Nat
    BY SubCountIs4, HistogramBounds
  <2>2. 0 \in Int /\ nBuckets - 1 \in Int
    BY <2>1
  <2>. QED
    BY <2>1, <2>2, FS_Interval
<1>1. CountsOK /\ \A b \in N : BucketOK(b)
  BY DEF HistogramInv
<1>2. /\ DOMAIN buckets = N /\ \A b \in N : buckets[b] \in Nat
      /\ SumFunction(buckets) <= MaxSamples
  BY <1>1 DEF CountsOK
<1>. HIDE DEF N
<1>3. ASSUME NEW b \in N PROVE buckets[b] \in Nat /\ buckets[b] <= MaxSamples
  <2>1. buckets[b] <= SumFunctionOnSet(buckets, N) /\ SumFunctionOnSet(buckets, N) \in Nat
    BY <1>0, <1>2, TermInSum, SumIsUnits
  <2>2. SumFunctionOnSet(buckets, N) <= MaxSamples
    BY <1>2 DEF SumFunction
  <2>. QED
    BY <1>0, <1>2, <2>1, <2>2
<1>4. ASSUME NEW us \in Micros
      PROVE  waiting[us] \in 0 .. MaxSamples /\ window[us] \in 0 .. MaxSamples
  <2>. DEFINE b == bucketOf(us)
              S == In(b)
  <2>1. b \in N /\ us \in S /\ b \in Nat /\ b < nBuckets
    <3>1. b \in 0 .. nBuckets - 1
      BY BucketFacts
    <3>. QED
      BY <1>0, <3>1 DEF In, N
  <2>2. BucketOK(b) /\ buckets[b] \in Nat /\ buckets[b] <= MaxSamples
    BY <1>1, <1>3, <2>1
  <2>. DEFINE x == SumFunctionOnSet(waiting, S)
              y == SumFunctionOnSet(window, S)
  <2>3. waiting[us] \in Nat /\ waiting[us] <= x /\ x \in Nat
    <3>1. waiting \in [Micros -> Nat]
      BY <1>1 DEF CountsOK
    <3>2. IsFiniteSet(S) /\ (\A v \in S : waiting[v] \in Nat) /\ x \in Nat
      BY <3>1, InFacts
    <3>. HIDE DEF S
    <3>. QED
      BY <2>1, <3>2, TermInSum
  <2>4. window[us] \in Nat /\ window[us] <= y /\ y \in Nat
    <3>1. window \in [Micros -> Nat]
      BY <1>1 DEF CountsOK
    <3>2. IsFiniteSet(S) /\ (\A v \in S : window[v] \in Nat) /\ y \in Nat
      BY <3>1, InFacts
    <3>. HIDE DEF S
    <3>. QED
      BY <2>1, <3>2, TermInSum
  <2>5. Waiting(b) = x
    BY DEF Waiting
  <2>6. previous[b + 1] \in Nat
    <3>1. b + 1 \in 1 .. Len(previous)
      BY <1>0, <1>1, <2>1 DEF CountsOK
    <3>. QED
      BY <1>1, <3>1 DEF CountsOK
  <2>7. b < Len(reading) => reading[b + 1] = previous[b + 1] + y /\ buckets[b] = reading[b + 1] + x
    BY <2>2, <2>5 DEF BucketOK
  <2>8. ~(b < Len(reading)) => window[us] = 0 /\ buckets[b] = previous[b + 1] + x
    BY <2>1, <2>2, <2>5 DEF BucketOK
  <2>. DEFINE k == buckets[b]
              p == previous[b + 1]
              u == waiting[us]
              v == window[us]
  <2>9. /\ k \in Nat /\ k <= MaxSamples /\ p \in Nat
        /\ u \in Nat /\ u <= x /\ x \in Nat /\ v \in Nat /\ v <= y /\ y \in Nat
    BY <2>2, <2>3, <2>4, <2>6
  <2>10. k = (p + y) + x \/ (v = 0 /\ k = p + x)
    BY <2>7, <2>8
  <2>. HIDE DEF b, S, x, y, k, p, u, v
  <2>11. u \in 0 .. MaxSamples /\ v \in 0 .. MaxSamples
    BY <1>0, <2>9, <2>10
  <2>. QED
    BY <2>11 DEF u, v
<1>5. buckets \in [N -> 0 .. MaxSamples]
  <2>1. buckets \in [N -> Nat]
    BY <1>1 DEF CountsOK, N
  <2>. QED
    BY <1>0, <1>3, <2>1
<1>6. waiting \in [Micros -> 0 .. MaxSamples] /\ window \in [Micros -> 0 .. MaxSamples]
  <2>1. waiting \in [Micros -> Nat] /\ window \in [Micros -> Nat]
    BY <1>1 DEF CountsOK
  <2>. QED
    BY <1>4, <2>1
<1>. QED
  BY <1>1, <1>5, <1>6 DEF CountsOK, HistogramTypeOK, N

\* A complete reading counts the window by bucket.
LEMMA ReadingCounts ==
    ASSUME HistogramInv, Len(reading) = nBuckets PROVE Counts(sub(reading, previous), window)
<1>. DEFINE d == sub(reading, previous)
<1>0. nBuckets \in Nat \ {0}
  BY SubCountIs4
<1>1. /\ CountsOK /\ reading \in Seq(Nat) /\ DOMAIN reading = 1 .. nBuckets
      /\ window \in [Micros -> Nat]
  BY DEF HistogramInv, CountsOK
<1>2. ASSUME NEW i \in 1 .. nBuckets PROVE d[i] = SumFunctionOnSet(window, In(i - 1))
  <2>. DEFINE b == i - 1
              y == SumFunctionOnSet(window, In(b))
  <2>1. b \in 0 .. nBuckets - 1 /\ b < Len(reading) /\ b + 1 = i
    BY <1>0
  <2>2. reading[b + 1] = previous[b + 1] + y
    BY <2>1 DEF HistogramInv, BucketOK
  <2>3. y \in Nat
    BY <1>1, InFacts
  <2>4. previous[i] \in Nat
    BY <1>1 DEF CountsOK
  <2>5. d[i] = reading[i] - previous[i]
    BY <1>1 DEF sub
  <2>. HIDE DEF y, d
  <2>6. reading[i] = previous[i] + y
    BY <2>1, <2>2
  <2>7. d[i] = y
    BY <2>3, <2>4, <2>5, <2>6
  <2>. QED
    BY <2>7 DEF y
<1>3. DOMAIN d = 1 .. nBuckets
  BY <1>1 DEF sub
<1>. HIDE DEF d
<1>4. Counts(d, window)
  BY <1>1, <1>2, <1>3 DEF Counts
<1>. QED
  BY <1>4 DEF d

\* A line of the load tool names the samples of its window: the counts it prints
\* add up to them, and each quantile it prints is the sample of that rank or at
\* most a quarter above it, whatever writers filed while the buckets were read.
THEOREM QuantilesNameTheSamplesCorrect == HistogramSpec => []QuantilesNameTheSamples
<1>1. HistogramInv => QuantilesNameTheSamples
  <2>. SUFFICES ASSUME HistogramInv PROVE QuantilesNameTheSamples
    OBVIOUS
  <2>1. HistogramTypeOK
    BY HistogramTypes
  <2>2. ASSUME Len(reading) = nBuckets
        PROVE  LET d == sub(reading, previous)
                   n == SumFunction(window)
               IN  /\ SumFunction(d) = n
                   /\ n > 0 => \A q \in Quantiles :
                         LET us == reaches(window, rankOf(q, n))
                         IN  /\ quantile(d, q) >= us
                             /\ 4 * (quantile(d, q) - us) <= us
    <3>. DEFINE d == sub(reading, previous)
    <3>1. Counts(d, window)
      BY <2>2, ReadingCounts
    <3>. HIDE DEF d
    <3>2. SumFunction(d) = SumFunction(window)
      BY <3>1, CountsAll
    <3>3. ASSUME SumFunction(window) > 0, NEW q \in Quantiles
          PROVE  LET us == reaches(window, rankOf(q, SumFunction(window)))
                 IN  quantile(d, q) >= us /\ 4 * (quantile(d, q) - us) <= us
      <4>1. q \in 0 .. 100
        BY QuantilesAssumption
      <4>. QED
        BY <3>1, <3>3, <4>1, QuantileFacts
    <3>. QED
      BY <3>2, <3>3 DEF d
  <2>. QED
    BY <2>1, <2>2 DEF QuantilesNameTheSamples
<1>. QED
  BY <1>1, HistogramInitInv, HistogramStepInv, PTL DEF HistogramSpec

-----------------------------------------------------------------------------
(* Width. *)

(* Words. *)

\* The first number that is no bigint.
Half == 2^(W - 1)

LEMMA HalfFacts ==
    /\ Half \in Nat /\ Half >= 2 /\ 2^W = 2 * Half /\ 2^(W - 1) = Half
    /\ MaxLast \in Nat /\ MaxLast >= 1 /\ MaxLast < Half - 1 /\ MaxLast < Half
    /\ Batches \subseteq Nat \ {0} /\ Epochs \subseteq 0 .. 2 * Half - 1
    /\ RotateAfter \in Nat \ {0} /\ FirstSeqno = 1
BY PowersOfTwo, LengthAssumption, EpochWords, RotateAfterAssumption DEF Half, FirstSeqno

\* The conversions leave what is below Half alone, and a word that reads as no
\* negative bigint is below it.
LEMMA WordFacts ==
    /\ \A n \in 0 .. 2 * Half - 1 : uint64(n) = n
    /\ \A n \in Int : uint64(n) \in 0 .. 2 * Half - 1
    /\ \A n \in 0 .. Half - 1 : int64(n) = n
    /\ \A n \in 0 .. 2 * Half - 1 : int64(n) \in Int /\ (int64(n) >= 0 => int64(n) = n /\ n < Half)
    /\ \A n \in 0 .. 2 * Half - 1 : int64(n) <= n
<1>1. Half \in Nat /\ Half >= 2 /\ 2^W = 2 * Half /\ 2^(W - 1) = Half
  BY HalfFacts
<1>2. \A n : uint64(n) = n % (2 * Half)
  BY <1>1 DEF uint64
<1>3. \A n : int64(n) = IF n >= Half THEN n - 2 * Half ELSE n
  BY <1>1 DEF int64
<1>4. \A k \in Nat \ {0} : /\ \A n \in 0 .. k - 1 : n % k = n
                           /\ \A n \in Int : n % k \in 0 .. k - 1
  OBVIOUS
<1>5. 2 * Half \in Nat \ {0}
  BY <1>1
<1>6. /\ \A n \in 0 .. 2 * Half - 1 : uint64(n) = n
      /\ \A n \in Int : uint64(n) \in 0 .. 2 * Half - 1
  BY <1>2, <1>4, <1>5
<1>. QED
  BY <1>1, <1>3, <1>6

\* The subtraction that wraps comes back when one is added.
LEMMA WrapsBack ==
    ASSUME NEW n \in -1 .. Half - 1 PROVE uint64(uint64(n) + 1) = n + 1
<1>1. Half \in Nat /\ Half >= 2 /\ 2^W = 2 * Half
  BY HalfFacts
<1>2. CASE n = -1
  <2>1. \A k \in Nat \ {0} : (-1) % k = k - 1 /\ k % k = 0
    OBVIOUS
  <2>2. uint64(-1) = 2 * Half - 1 /\ uint64(2 * Half) = 0
    BY <1>1, <2>1 DEF uint64
  <2>. QED
    BY <1>1, <1>2, <2>2
<1>3. CASE n # -1
  <2>1. n \in 0 .. 2 * Half - 1 /\ n + 1 \in 0 .. 2 * Half - 1
    BY <1>1, <1>3
  <2>. QED
    BY <2>1, WordFacts
<1>. QED
  BY <1>2, <1>3
-----------------------------------------------------------------------------
(* The registry row. *)

\* The numbers of the row st, in the order the log's life puts them in.
NumbersOK(st) ==
    /\ st \in logState
    /\ st.epoch < Half /\ st.last_seqno <= MaxLast
    /\ st.trim_upto <= st.last_seqno
    /\ 1 <= st.cur_lo /\ st.cur_lo <= st.last_seqno + 1
    /\ st.prev_hi <= st.last_seqno

\* The entry rows are rows of the log, and none above the watermark is missing.
EntriesOK ==
    /\ \A r \in rows : r.seqno \in 1 .. row.last_seqno
    /\ \A n \in row.trim_upto + 1 .. row.last_seqno : \E r \in rows : r.seqno = n

\* The inductive invariant.
WordInv == NumbersOK(row) /\ EntriesOK /\ got \subseteq Uint

\* The row's numbers are bigints and words alike.
LEMMA RowFacts ==
    ASSUME NEW st, NumbersOK(st)
    PROVE  /\ st.epoch \in 0 .. Half - 1 /\ st.last_seqno \in 0 .. Half - 1
           /\ st.trim_upto \in 0 .. Half - 1 /\ st.cur_lo \in 1 .. Half
           /\ st.prev_hi \in 0 .. Half - 1 /\ st.cur_slot \in {0, 1}
           /\ uint64(st.epoch) = st.epoch /\ uint64(st.last_seqno) = st.last_seqno
           /\ uint64(st.trim_upto + 1) = st.trim_upto + 1
           /\ uint64(st.cur_lo - 1) = st.cur_lo - 1
           /\ st.trim_upto <= st.last_seqno /\ st.cur_lo <= st.last_seqno + 1
<1>1. Half \in Nat /\ Half >= 2 /\ MaxLast \in Nat /\ MaxLast < Half
  BY HalfFacts
<1>2. /\ st.epoch \in 0 .. Half - 1 /\ st.last_seqno \in 0 .. Half - 1
      /\ st.trim_upto \in 0 .. Half - 1 /\ st.cur_lo \in 1 .. Half
      /\ st.prev_hi \in 0 .. Half - 1 /\ st.cur_slot \in {0, 1}
      /\ st.trim_upto <= st.last_seqno /\ st.cur_lo <= st.last_seqno + 1
  BY <1>1 DEF NumbersOK, logState, Slots
<1>3. /\ st.epoch \in 0 .. 2 * Half - 1 /\ st.last_seqno \in 0 .. 2 * Half - 1
      /\ st.trim_upto + 1 \in 0 .. 2 * Half - 1 /\ st.cur_lo - 1 \in 0 .. 2 * Half - 1
  BY <1>1, <1>2
<1>. QED
  BY <1>2, <1>3, WordFacts

\* On such a row the arithmetic of ring.go is the integers'.
LEMMA RingFacts ==
    ASSUME NEW st, NumbersOK(st)
    PROVE  ringFullWord(st) = ringFull(st) /\ prevEmptyWord(st) = prevEmpty(st)
<1>1. st.last_seqno - st.cur_lo \in -1 .. Half - 1
  BY RowFacts, HalfFacts
<1>2. uint64(uint64(st.last_seqno - st.cur_lo) + 1) = st.last_seqno - st.cur_lo + 1
  BY <1>1, WrapsBack
<1>3. uint64(st.cur_lo - 1) = st.cur_lo - 1
  BY RowFacts
<1>. QED
  BY <1>2, <1>3 DEF ringFullWord, ringFull, prevEmptyWord, prevEmpty

LEMMA WordInit == WidthInit => WordInv
<1>. SUFFICES ASSUME WidthInit PROVE WordInv
  OBVIOUS
<1>1. row = [epoch |-> 0, last_seqno |-> 0, trim_upto |-> 0,
             cur_slot |-> 0, cur_lo |-> 1, prev_hi |-> 0]
  BY HalfFacts DEF WidthInit
<1>2. NumbersOK(row)
  BY <1>1, HalfFacts DEF NumbersOK, logState, Slots
<1>. QED
  BY <1>1, <1>2 DEF WidthInit, WordInv, EntriesOK

\* A fence that took: the epoch is a bigint, and all that changes.
LEMMA FenceFacts ==
    ASSUME NumbersOK(row), NEW epoch \in Epochs, Fence(epoch)
    PROVE  /\ rows' = rows
           /\ \/ row' = row
              \/ /\ epoch \in 1 .. Half - 1 /\ row.epoch <= epoch
                 /\ row' = [row EXCEPT !.epoch = epoch]
<1>1. epoch \in 0 .. 2 * Half - 1
  BY HalfFacts
<1>2. row.epoch \in 0 .. Half - 1
  BY RowFacts
<1>3. ASSUME checkFence(epoch), row.epoch <= int64(epoch)
      PROVE  int64(epoch) = epoch /\ epoch \in 1 .. Half - 1
  <2>1. int64(epoch) \in Int /\ (int64(epoch) >= 0 => int64(epoch) = epoch /\ epoch < Half)
    BY <1>1, WordFacts
  <2>. QED
    BY <1>1, <1>2, <1>3, <2>1, HalfFacts DEF checkFence
<1>. QED
  BY <1>3 DEF Fence

\* An append the statement matches starts at the log's end, whatever its words.
LEMMA MatchFacts ==
    ASSUME NumbersOK(row), NEW epoch \in Epochs, NEW first \in Uint, NEW n \in Batches, NEW last,
           checkAppend(epoch, first, n)
    PROVE  AppendMatches(epoch, first, last) <=>
               row.epoch = epoch /\ first = row.last_seqno + 1
<1>1. /\ epoch \in 0 .. 2 * Half - 1 /\ epoch # 0 /\ first \in 1 .. 2 * Half - 1
      /\ Half \in Nat /\ Half >= 2
  BY HalfFacts DEF checkAppend, Uint
<1>2. row.epoch \in 0 .. Half - 1 /\ row.last_seqno \in 0 .. Half - 1
  BY RowFacts
<1>3. row.epoch = int64(epoch) <=> row.epoch = epoch
  BY <1>1, <1>2, WordFacts
<1>4. first - 1 \in 0 .. 2 * Half - 1 /\ uint64(first - 1) = first - 1
  <2>1. first - 1 \in 0 .. 2 * Half - 1
    BY <1>1
  <2>. QED
    BY <2>1, WordFacts
<1>5. row.last_seqno = int64(first - 1) <=> row.last_seqno = first - 1
  BY <1>2, <1>4, WordFacts
<1>. QED
  BY <1>1, <1>2, <1>3, <1>4, <1>5 DEF AppendMatches

\* The rows a batch becomes.
NewRows(epoch, first, n) ==
    {[seqno |-> k, epoch |-> epoch, payload |-> "bytes"] : k \in first .. first + n - 1}

\* An append that goes in, and one that does not.
LEMMA AppendFacts ==
    ASSUME NumbersOK(row), NEW epoch \in Epochs, NEW first \in Uint, NEW n \in Batches,
           AppendBatch(epoch, first, n)
    PROVE  /\ call' = [op |-> "append", epoch |-> epoch, first |-> first, n |-> n] /\ got' = {}
           /\ \/ UNCHANGED <<row, rows>> /\ res' = "malformed"
              \/ /\ row.epoch = epoch /\ epoch # 0 /\ first = row.last_seqno + 1
                 /\ row.last_seqno + n <= MaxLast /\ res' = "nil"
                 /\ row' = [row EXCEPT !.last_seqno = row.last_seqno + n]
                 /\ rows' = rows \union NewRows(epoch, first, n)
              \/ /\ UNCHANGED <<row, rows>> /\ res' # "nil"
                 /\ res' = appendRefusal(epoch, first, row.epoch, row.last_seqno)
<1>. DEFINE last == uint64(first + n - 1)
            why  == appendRefusal(epoch, first, row.epoch, row.last_seqno)
<1>0. /\ n \in Nat \ {0} /\ Half \in Nat /\ Half >= 2 /\ MaxLast \in Nat /\ MaxLast < Half
      /\ epoch \in 0 .. 2 * Half - 1 /\ first \in 0 .. 2 * Half - 1
  BY HalfFacts DEF Uint
<1>1. /\ uint64(row.epoch) = row.epoch /\ uint64(row.last_seqno) = row.last_seqno
      /\ row.epoch \in 0 .. Half - 1 /\ row.last_seqno \in 0 .. Half - 1
  BY RowFacts
<1>2. call' = [op |-> "append", epoch |-> epoch, first |-> first, n |-> n] /\ got' = {}
  BY DEF AppendBatch, Answer
<1>3. CASE ~checkAppend(epoch, first, n)
  BY <1>2, <1>3 DEF AppendBatch, Answer
<1>4. CASE checkAppend(epoch, first, n) /\ AppendMatches(epoch, first, last)
  <2>1. row.epoch = epoch /\ epoch # 0 /\ first = row.last_seqno + 1
    BY <1>4, MatchFacts DEF checkAppend
  <2>2. /\ row.last_seqno + n <= MaxLast /\ res' = "nil"
        /\ row' = [row EXCEPT !.last_seqno = int64(last)]
        /\ rows' = rows \union {[seqno |-> int64(uint64(first + i)), epoch |-> int64(epoch),
                                 payload |-> "bytes"] : i \in 0 .. n - 1}
    BY <1>4 DEF AppendBatch, Answer
  <2>3. \A k \in 0 .. MaxLast : int64(uint64(k)) = k
    <3>1. \A k \in 0 .. MaxLast : k \in 0 .. 2 * Half - 1 /\ k \in 0 .. Half - 1
      BY <1>0
    <3>. QED
      BY <3>1, WordFacts
  <2>4. first + n - 1 = row.last_seqno + n /\ row.last_seqno + n \in 0 .. MaxLast
    BY <1>0, <1>1, <2>1, <2>2
  <2>5. int64(last) = row.last_seqno + n
    BY <2>3, <2>4
  <2>6. int64(epoch) = epoch
    BY <1>1, <2>1, WordFacts
  <2>7. \A i \in 0 .. n - 1 : first + i \in first .. first + n - 1 /\ int64(uint64(first + i)) = first + i
    BY <1>0, <1>1, <2>1, <2>2, <2>3
  <2>8. \A k \in first .. first + n - 1 : k - first \in 0 .. n - 1 /\ first + (k - first) = k
    BY <1>0
  <2>9. {[seqno |-> int64(uint64(first + i)), epoch |-> int64(epoch),
          payload |-> "bytes"] : i \in 0 .. n - 1} = NewRows(epoch, first, n)
    BY <2>6, <2>7, <2>8 DEF NewRows
  <2>. QED
    BY <1>2, <2>1, <2>2, <2>5, <2>9
<1>5. CASE checkAppend(epoch, first, n) /\ ~AppendMatches(epoch, first, last)
  <2>1. ~(row.epoch = epoch /\ first = row.last_seqno + 1) /\ epoch # 0 /\ first >= 1
    BY <1>5, MatchFacts, HalfFacts DEF checkAppend
  <2>2. why # "nil"
    BY <1>0, <1>1, <2>1 DEF appendRefusal
  <2>3. UNCHANGED <<row, rows>> /\ res' = IF why = "nil" THEN "unexplained" ELSE why
    BY <1>1, <1>5 DEF AppendBatch, Answer
  <2>. QED
    BY <1>2, <2>2, <2>3
<1>. QED
  BY <1>3, <1>4, <1>5

\* reclaim on a row in order leaves one in order, whose log is the same.
LEMMA ReclaimFacts ==
    ASSUME NEW w, NumbersOK(w), Reclaimed(w)
    PROVE  /\ NumbersOK(row') /\ row'.epoch = w.epoch /\ row'.last_seqno = w.last_seqno
           /\ row'.trim_upto = w.trim_upto
           /\ rows' \subseteq rows /\ \A r \in rows : r.seqno >= w.cur_lo => r \in rows'
           /\ rows' # rows => w.cur_lo <= w.trim_upto + 1
<1>. DEFINE truncate == prevEmptyWord(w)
            after == IF truncate THEN [w EXCEPT !.prev_hi = 0] ELSE w
            rotate == after.prev_hi = 0 /\ ringFullWord(after)
<1>1. /\ rows' = IF truncate THEN {r \in rows : r.seqno >= w.cur_lo} ELSE rows
      /\ row' = IF rotate
                THEN [after EXCEPT !.cur_slot = 1 - @, !.prev_hi = after.last_seqno,
                                   !.cur_lo = after.last_seqno + 1]
                ELSE after
  BY DEF Reclaimed
<1>2. truncate => w.cur_lo <= w.trim_upto + 1
  <2>1. uint64(w.cur_lo - 1) = w.cur_lo - 1 /\ w.cur_lo \in 1 .. Half /\ w.trim_upto \in 0 .. Half - 1
    BY RowFacts
  <2>. QED
    BY <2>1, HalfFacts DEF prevEmptyWord
<1>. HIDE DEF truncate
<1>3. /\ NumbersOK(after) /\ after.epoch = w.epoch /\ after.last_seqno = w.last_seqno
      /\ after.trim_upto = w.trim_upto
  <2>1. /\ w \in logState
        /\ [w EXCEPT !.prev_hi = 0] \in logState
        /\ [w EXCEPT !.prev_hi = 0].epoch = w.epoch
        /\ [w EXCEPT !.prev_hi = 0].last_seqno = w.last_seqno
        /\ [w EXCEPT !.prev_hi = 0].trim_upto = w.trim_upto
        /\ [w EXCEPT !.prev_hi = 0].cur_lo = w.cur_lo
        /\ [w EXCEPT !.prev_hi = 0].prev_hi = 0
        /\ w.last_seqno \in Nat
    BY DEF NumbersOK, logState
  <2>. QED
    BY <2>1 DEF NumbersOK
<1>. HIDE DEF after, rotate
<1>4. CASE rotate
  <2>. DEFINE turned == [after EXCEPT !.cur_slot = 1 - @, !.prev_hi = after.last_seqno,
                                      !.cur_lo = after.last_seqno + 1]
  <2>1. after \in logState /\ after.last_seqno \in Nat /\ 1 - after.cur_slot \in Slots
    BY <1>3 DEF NumbersOK, logState, Slots
  <2>2. /\ turned \in logState /\ turned.epoch = after.epoch
        /\ turned.last_seqno = after.last_seqno /\ turned.trim_upto = after.trim_upto
        /\ turned.cur_lo = after.last_seqno + 1 /\ turned.prev_hi = after.last_seqno
    <3>1. after.last_seqno + 1 \in Nat
      BY <2>1
    <3>. DEFINE a == 1 - after.cur_slot
                h == after.last_seqno
                l == after.last_seqno + 1
                q == [after EXCEPT !.cur_slot = a, !.prev_hi = h, !.cur_lo = l]
    <3>2. a \in Slots /\ h \in Nat /\ l \in Nat
      BY <2>1, <3>1
    <3>3. turned = q
      OBVIOUS
    <3>. HIDE DEF a, h, l, turned
    <3>4. /\ q \in logState /\ q.epoch = after.epoch /\ q.last_seqno = after.last_seqno
          /\ q.trim_upto = after.trim_upto /\ q.cur_lo = l /\ q.prev_hi = h
      BY <2>1, <3>2 DEF logState
    <3>. HIDE DEF q
    <3>. QED
      BY <3>3, <3>4 DEF h, l
  <2>3. row' = turned
    BY <1>1, <1>4
  <2>. HIDE DEF turned
  <2>4. NumbersOK(turned)
    BY <1>3, <2>1, <2>2 DEF NumbersOK
  <2>. QED
    BY <1>1, <1>2, <1>3, <2>2, <2>3, <2>4
<1>5. CASE ~rotate
  BY <1>1, <1>2, <1>3, <1>5
<1>. QED
  BY <1>4, <1>5

\* A trim moves the watermark towards the end of the log, never past it and never
\* back, and removes no entry above it.
LEMMA TrimFacts ==
    ASSUME NumbersOK(row), NEW upTo \in Uint, Trim(upTo)
    PROVE  /\ NumbersOK(row') /\ row'.epoch = row.epoch /\ row'.last_seqno = row.last_seqno
           /\ row.trim_upto <= row'.trim_upto
           /\ rows' \subseteq rows /\ \A r \in rows : r.seqno \in Int /\ r.seqno > row'.trim_upto => r \in rows'
<1>1. CASE UNCHANGED <<row, rows>>
  BY <1>1 DEF NumbersOK, logState
<1>. DEFINE m == Watermark(int64(upTo))
            w == [row EXCEPT !.trim_upto = m]
<1>2. CASE Reclaimed(w)
  <2>0. /\ row.trim_upto \in 0 .. Half - 1 /\ row.last_seqno \in 0 .. Half - 1
        /\ row.trim_upto <= row.last_seqno /\ Half \in Nat
    BY RowFacts, HalfFacts
  <2>1. int64(upTo) \in Int
    BY WordFacts, HalfFacts DEF Uint
  <2>2. m \in Nat /\ row.trim_upto <= m /\ m <= row.last_seqno
    BY <2>0, <2>1 DEF Watermark
  <2>. HIDE DEF m
  <2>3. row \in logState
    BY DEF NumbersOK
  <2>4. /\ w \in logState /\ w.trim_upto = m /\ w.epoch = row.epoch
        /\ w.last_seqno = row.last_seqno /\ w.cur_lo = row.cur_lo /\ w.prev_hi = row.prev_hi
    BY <2>2, <2>3 DEF logState
  <2>. HIDE DEF w
  <2>5. NumbersOK(w)
    BY <2>2, <2>4 DEF NumbersOK
  <2>6. /\ NumbersOK(row') /\ row'.epoch = w.epoch /\ row'.last_seqno = w.last_seqno
        /\ row'.trim_upto = w.trim_upto
        /\ rows' \subseteq rows /\ \A r \in rows : r.seqno >= w.cur_lo => r \in rows'
        /\ rows' # rows => w.cur_lo <= w.trim_upto + 1
    BY <1>2, <2>5, ReclaimFacts
  <2>7. w.cur_lo \in Nat
    BY <2>4 DEF logState
  <2>8. ASSUME NEW r \in rows, r.seqno \in Int, r.seqno > m PROVE r \in rows'
    BY <2>2, <2>4, <2>6, <2>7, <2>8
  <2>. QED
    BY <2>2, <2>4, <2>6, <2>8
<1>. QED
  BY <1>1, <1>2 DEF Trim

\* The row a fence or an append leaves.
LEMMA RowMoves ==
    ASSUME NumbersOK(row)
    PROVE  /\ \A e \in 0 .. Half - 1 :
                 LET st == [row EXCEPT !.epoch = e]
                 IN  /\ NumbersOK(st) /\ st.epoch = e /\ st.last_seqno = row.last_seqno
                     /\ st.trim_upto = row.trim_upto
           /\ \A k \in row.last_seqno .. MaxLast :
                 LET st == [row EXCEPT !.last_seqno = k]
                 IN  /\ NumbersOK(st) /\ st.epoch = row.epoch /\ st.last_seqno = k
                     /\ st.trim_upto = row.trim_upto
<1>0. /\ row \in logState /\ row.last_seqno \in Nat /\ row.trim_upto \in Nat /\ row.cur_lo \in Nat
      /\ row.prev_hi \in Nat /\ Half \in Nat /\ MaxLast \in Nat
  BY HalfFacts DEF NumbersOK, logState
<1>1. ASSUME NEW e \in 0 .. Half - 1
      PROVE  LET st == [row EXCEPT !.epoch = e]
             IN  /\ NumbersOK(st) /\ st.epoch = e /\ st.last_seqno = row.last_seqno
                 /\ st.trim_upto = row.trim_upto
  <2>. DEFINE st == [row EXCEPT !.epoch = e]
  <2>1. /\ st \in logState /\ st.epoch = e /\ st.last_seqno = row.last_seqno
        /\ st.trim_upto = row.trim_upto /\ st.cur_lo = row.cur_lo /\ st.prev_hi = row.prev_hi
        /\ e < Half
    BY <1>0 DEF logState
  <2>. HIDE DEF st
  <2>2. NumbersOK(st)
    BY <2>1 DEF NumbersOK
  <2>. QED
    BY <2>1, <2>2 DEF st
<1>2. ASSUME NEW k \in row.last_seqno .. MaxLast
      PROVE  LET st == [row EXCEPT !.last_seqno = k]
             IN  /\ NumbersOK(st) /\ st.epoch = row.epoch /\ st.last_seqno = k
                 /\ st.trim_upto = row.trim_upto
  <2>. DEFINE st == [row EXCEPT !.last_seqno = k]
  <2>1. /\ st \in logState /\ st.epoch = row.epoch /\ st.last_seqno = k
        /\ st.trim_upto = row.trim_upto /\ st.cur_lo = row.cur_lo /\ st.prev_hi = row.prev_hi
        /\ k \in Nat /\ row.last_seqno <= k /\ k <= MaxLast
    BY <1>0 DEF logState
  <2>. HIDE DEF st
  <2>2. NumbersOK(st)
    BY <1>0, <2>1 DEF NumbersOK
  <2>. QED
    BY <2>1, <2>2 DEF st
<1>. QED
  BY <1>1, <1>2

-----------------------------------------------------------------------------
(* The invariant. *)

\* A read changes nothing, and its answer is words.
LEMMA ReadFacts ==
    ASSUME NEW from \in Uint, NEW limit \in Int64, NumbersOK(row), EntriesOK, ReadFrom(from, limit)
    PROVE  /\ UNCHANGED <<row, rows>> /\ got' \subseteq Uint
           /\ call' = [op |-> "read", from |-> from, limit |-> limit]
           /\ \/ res' = "malformed"
              \/ limit > 0 /\ got' = {uint64(n) : n \in Readable(from, limit)}
<1>1. \A r \in rows : uint64(r.seqno) \in Uint
  <2>1. \A r \in rows : r.seqno \in Int
    BY DEF EntriesOK
  <2>. QED
    BY <2>1, WordFacts, HalfFacts DEF Uint
<1>2. \A n \in Readable(from, limit) : uint64(n) \in Uint
  BY <1>1 DEF Readable
<1>. QED
  BY <1>2 DEF ReadFrom, Answer, checkRead

LEMMA WordStep == WordInv /\ [WidthNext]_widthVars => WordInv'
<1>. SUFFICES ASSUME WordInv, [WidthNext]_widthVars PROVE WordInv'
  OBVIOUS
<1>0. /\ NumbersOK(row) /\ EntriesOK /\ got \subseteq Uint
      /\ row.last_seqno \in Nat /\ row.trim_upto \in Nat /\ MaxLast \in Nat
      /\ row.trim_upto <= row.last_seqno /\ row.last_seqno <= MaxLast
  BY HalfFacts DEF WordInv, NumbersOK, logState
<1>1. ASSUME NEW epoch \in Epochs, Fence(epoch) PROVE WordInv'
  <2>1. rows' = rows /\ got' = {}
    BY <1>0, <1>1, FenceFacts DEF Fence, Answer
  <2>2. /\ NumbersOK(row') /\ row'.last_seqno = row.last_seqno
        /\ row'.trim_upto = row.trim_upto
    <3>1. CASE row' = row
      BY <1>0, <3>1
    <3>2. CASE epoch \in 1 .. Half - 1 /\ row' = [row EXCEPT !.epoch = epoch]
      <4>1. epoch \in 0 .. Half - 1
        BY <3>2, HalfFacts
      <4>. QED
        BY <1>0, <3>2, <4>1, RowMoves
    <3>. QED
      BY <1>0, <1>1, <3>1, <3>2, FenceFacts
  <2>. QED
    BY <1>0, <2>1, <2>2 DEF WordInv, EntriesOK
<1>2. ASSUME NEW epoch \in Epochs, NEW first \in Uint, NEW n \in Batches,
             AppendBatch(epoch, first, n)
      PROVE  WordInv'
  <2>1. got' = {}
    BY <1>0, <1>2, AppendFacts
  <2>2. CASE UNCHANGED <<row, rows>>
    BY <1>0, <2>1, <2>2 DEF WordInv, EntriesOK
  <2>3. CASE /\ first = row.last_seqno + 1 /\ row.last_seqno + n <= MaxLast
             /\ row' = [row EXCEPT !.last_seqno = row.last_seqno + n]
             /\ rows' = rows \union NewRows(epoch, first, n)
    <3>1. n \in Nat \ {0} /\ row.last_seqno + n \in row.last_seqno .. MaxLast
      BY <1>0, <2>3, HalfFacts
    <3>2. /\ NumbersOK(row') /\ row'.last_seqno = row.last_seqno + n
          /\ row'.trim_upto = row.trim_upto
      BY <1>0, <2>3, <3>1, RowMoves
    <3>3. \A r \in NewRows(epoch, first, n) : r.seqno \in first .. first + n - 1
      BY DEF NewRows
    <3>4. ASSUME NEW k \in first .. first + n - 1
          PROVE  \E r \in NewRows(epoch, first, n) : r.seqno = k
      <4>. DEFINE r == [seqno |-> k, epoch |-> epoch, payload |-> "bytes"]
      <4>1. r \in NewRows(epoch, first, n)
        BY DEF NewRows
      <4>2. r.seqno = k
        OBVIOUS
      <4>. QED
        BY <4>1, <4>2
    <3>5. \A r \in rows' : r.seqno \in 1 .. row'.last_seqno
      BY <1>0, <2>3, <3>1, <3>2, <3>3 DEF EntriesOK
    <3>6. ASSUME NEW k \in row'.trim_upto + 1 .. row'.last_seqno
          PROVE  \E r \in rows' : r.seqno = k
      <4>1. CASE k <= row.last_seqno
        BY <1>0, <2>3, <3>1, <3>2, <4>1 DEF EntriesOK
      <4>2. CASE k > row.last_seqno
        BY <1>0, <2>3, <3>1, <3>2, <3>4, <4>2
      <4>. QED
        BY <1>0, <3>1, <3>2, <4>1, <4>2
    <3>. QED
      BY <2>1, <3>2, <3>5, <3>6 DEF WordInv, EntriesOK
  <2>. QED
    BY <1>0, <1>2, <2>2, <2>3, AppendFacts
<1>3. ASSUME NEW upTo \in Uint, Trim(upTo) PROVE WordInv'
  <2>1. /\ NumbersOK(row') /\ row'.last_seqno = row.last_seqno
        /\ row.trim_upto <= row'.trim_upto /\ rows' \subseteq rows
        /\ \A r \in rows : r.seqno \in Int /\ r.seqno > row'.trim_upto => r \in rows'
    BY <1>0, <1>3, TrimFacts
  <2>2. got' = {} /\ row'.trim_upto \in Nat
    BY <1>3, <2>1 DEF Trim, Answer, NumbersOK, logState
  <2>3. ASSUME NEW k \in row'.trim_upto + 1 .. row'.last_seqno
        PROVE  \E r \in rows' : r.seqno = k
    <3>1. k \in row.trim_upto + 1 .. row.last_seqno /\ k \in Int /\ k > row'.trim_upto
      BY <1>0, <2>1, <2>2
    <3>2. PICK r \in rows : r.seqno = k
      BY <1>0, <3>1 DEF EntriesOK
    <3>. QED
      BY <2>1, <3>1, <3>2
  <2>. QED
    BY <1>0, <2>1, <2>2, <2>3 DEF WordInv, EntriesOK
<1>4. ASSUME NEW from \in Uint, NEW limit \in Int64, ReadFrom(from, limit) PROVE WordInv'
  <2>1. UNCHANGED <<row, rows>> /\ got' \subseteq Uint
    BY <1>0, <1>4, ReadFacts
  <2>. QED
    BY <1>0, <2>1 DEF WordInv, EntriesOK
<1>5. CASE Return \/ UNCHANGED widthVars
  BY <1>0, <1>5 DEF Return, widthVars, WordInv, EntriesOK
<1>. QED
  BY <1>1, <1>2, <1>3, <1>4, <1>5 DEF WidthNext

\* Whatever words the callers pass (log.go, store.go), the registry keeps numbers
\* that are their own bigints and words, and ringFull and prevEmpty (ring.go)
\* wrap to what the integers say, for words of every width.
THEOREM WordsAgreeCorrect == WidthSpec => []WordsAgree
<1>1. WordInv => WordsAgree
  <2>. SUFFICES ASSUME WordInv PROVE WordsAgree
    OBVIOUS
  <2>1. NumbersOK(row) /\ EntriesOK /\ got \subseteq Uint
    BY DEF WordInv
  <2>2. /\ row.epoch \in Int64 /\ row.last_seqno \in Int64 /\ row.trim_upto \in Int64
        /\ row.prev_hi \in Int64 /\ row.cur_slot \in Int64 /\ row.cur_lo \in Int64
    <3>1. row.cur_lo <= Half - 1
      BY <2>1, RowFacts, HalfFacts DEF NumbersOK
    <3>2. Int64 = -Half .. Half - 1
      BY HalfFacts DEF Int64
    <3>. QED
      BY <2>1, <3>1, <3>2, RowFacts, HalfFacts, SMTT(30)
  <2>3. row \in logState /\ \A f \in DOMAIN row : row[f] \in Int64
    BY <2>1, <2>2 DEF NumbersOK, logState
  <2>4. \A r \in rows : r.seqno \in Int64
    <3>1. row.last_seqno \in 0 .. Half - 1 /\ Int64 = -Half .. Half - 1 /\ Half \in Nat
      BY <2>1, RowFacts, HalfFacts DEF Int64
    <3>. QED
      BY <2>1, <3>1 DEF EntriesOK
  <2>. QED
    BY <2>1, <2>3, <2>4, RingFacts DEF WordsAgree, WidthTypeOK
<1>. QED
  BY <1>1, WordInit, WordStep, PTL DEF WidthSpec

-----------------------------------------------------------------------------
(* The answers. *)

\* Where a read starts, as integers.
LEMMA LoFacts ==
    ASSUME NEW from \in Uint, NumbersOK(row)
    PROVE  /\ readLo(from) \in 1 .. 2 * Half - 1
           /\ \A n \in 1 .. row.last_seqno :
                 n >= readLo(from) <=> n > row.trim_upto /\ n >= from
<1>1. /\ row.trim_upto \in 0 .. Half - 1 /\ uint64(row.trim_upto + 1) = row.trim_upto + 1
      /\ row.last_seqno \in 0 .. Half - 1 /\ Half \in Nat /\ Half >= 2
      /\ from \in 0 .. 2 * Half - 1
  BY RowFacts, HalfFacts DEF Uint
<1>2. readLo(from) = IF readStart(from) >= row.trim_upto + 1
                     THEN readStart(from) ELSE row.trim_upto + 1
  BY <1>1 DEF readLo
<1>3. readStart(from) = IF from >= 1 THEN from ELSE 1
  BY HalfFacts DEF readStart
<1>. QED
  BY <1>1, <1>2, <1>3

\* A read whose window does not wrap finds the entries it is to return.
LEMMA ReadTrue ==
    ASSUME WordInv, NEW from \in Uint, NEW limit \in Int64, limit > 0,
           readLo(from) + limit <= Half
    PROVE  {uint64(n) : n \in Readable(from, limit)} = Promised(from, limit)
<1>. DEFINE lo == readLo(from)
            hi == lo + limit - 1
            there == {n \in 1 .. row.last_seqno : n > row.trim_upto /\ n >= from}
<1>0. NumbersOK(row) /\ EntriesOK /\ Half \in Nat /\ Half >= 2 /\ limit \in Int
      /\ row.last_seqno \in 0 .. Half - 1 /\ row.trim_upto \in 0 .. Half - 1
  <2>1. NumbersOK(row) /\ EntriesOK /\ Half \in Nat /\ Half >= 2
    BY HalfFacts DEF WordInv
  <2>2. Int64 = -Half .. Half - 1
    BY HalfFacts DEF Int64
  <2>. QED
    BY <2>1, <2>2, RowFacts
<1>1. lo \in 1 .. 2 * Half - 1
  BY <1>0, LoFacts
<1>2. there = {n \in 1 .. row.last_seqno : n >= lo}
  <2>1. \A n \in 1 .. row.last_seqno : n >= lo <=> n > row.trim_upto /\ n >= from
    BY <1>0, LoFacts
  <2>. QED
    BY <2>1
<1>. HIDE DEF lo
<1>3. /\ lo \in 0 .. Half - 1 /\ hi \in 0 .. Half - 1 /\ lo + limit \in 0 .. 2 * Half - 1
      /\ hi \in 0 .. 2 * Half - 1 /\ lo + limit - 1 = hi
  BY <1>0, <1>1 DEF lo
<1>4. int64(lo) = lo /\ int64(readHi(from, limit)) = hi
  <2>1. uint64(lo + limit) = lo + limit /\ uint64(hi) = hi
    BY <1>3, WordFacts
  <2>2. readHi(from, limit) = hi
    <3>1. readHi(from, limit) = uint64(uint64(lo + limit) - 1)
      BY DEF readHi, lo
    <3>2. uint64(lo + limit) - 1 = hi
      BY <1>0, <1>1, <2>1
    <3>. QED
      BY <2>1, <3>1, <3>2
  <2>. QED
    BY <1>3, <2>2, WordFacts
<1>5. Readable(from, limit) = {r.seqno : r \in {q \in rows : lo <= q.seqno /\ q.seqno <= hi}}
  BY <1>4 DEF Readable, lo
<1>. HIDE DEF hi
<1>6. \A n : n \in Readable(from, limit) <=> n \in 1 .. row.last_seqno /\ lo <= n /\ n <= hi
  <2>1. \A n \in Readable(from, limit) : n \in 1 .. row.last_seqno /\ lo <= n /\ n <= hi
    BY <1>0, <1>5 DEF EntriesOK
  <2>2. ASSUME NEW n \in 1 .. row.last_seqno, lo <= n, n <= hi PROVE n \in Readable(from, limit)
    <3>1. n > row.trim_upto
      BY <1>0, <2>2, LoFacts DEF lo
    <3>2. PICK r \in rows : r.seqno = n
      BY <1>0, <3>1 DEF EntriesOK
    <3>. QED
      BY <1>5, <2>2, <3>2
  <2>. QED
    BY <2>1, <2>2
<1>7. \A n \in Readable(from, limit) : uint64(n) = n
  <2>1. \A n \in 1 .. row.last_seqno : n \in 0 .. 2 * Half - 1
    BY <1>0
  <2>. QED
    BY <1>6, <2>1, WordFacts
<1>8. {uint64(n) : n \in Readable(from, limit)} = Readable(from, limit)
  BY <1>7
<1>9. ASSUME NEW n \in there PROVE Cardinality({k \in there : k < n}) < limit <=> n <= hi
  <2>0. /\ n \in 1 .. row.last_seqno /\ n >= lo
        /\ there = {k \in 1 .. row.last_seqno : k >= lo}
    BY <1>2
  <2>. HIDE DEF there
  <2>1. {k \in there : k < n} = lo .. n - 1
    BY <1>0, <1>1, <2>0
  <2>2. n \in Int /\ n >= lo
    BY <1>0, <2>0
  <2>3. Cardinality(lo .. n - 1) = n - lo
    <3>1. lo \in Int /\ n - 1 \in Int
      BY <1>3, <2>2
    <3>2. Cardinality(lo .. n - 1) = IF lo > n - 1 THEN 0 ELSE (n - 1) - lo + 1
      BY <3>1, FS_Interval
    <3>. QED
      BY <1>3, <2>2, <3>2
  <2>4. n - lo < limit <=> n <= hi
    BY <1>0, <1>3, <2>2 DEF hi
  <2>. QED
    BY <2>1, <2>3, <2>4
<1>10. Promised(from, limit) = {n \in there : Cardinality({k \in there : k < n}) < limit}
  BY DEF Promised
<1>11. Promised(from, limit) = {n \in there : n <= hi}
  <2>. HIDE DEF there
  <2>. QED
    BY <1>9, <1>10
<1>12. \A n : n \in Promised(from, limit) <=> n \in 1 .. row.last_seqno /\ lo <= n /\ n <= hi
  BY <1>0, <1>2, <1>3, <1>11
<1>. QED
  BY <1>6, <1>8, <1>12

\* A read whose window reaches into the upper half and does not wrap finds nothing.
LEMMA ReadWide ==
    ASSUME WordInv, NEW from \in Uint, NEW limit \in Int64, limit > 0,
           readLo(from) + limit > Half, readLo(from) + limit <= 2 * Half
    PROVE  {uint64(n) : n \in Readable(from, limit)} = {}
<1>. DEFINE lo == readLo(from)
            hi == lo + limit - 1
<1>0. NumbersOK(row) /\ EntriesOK /\ Half \in Nat /\ Half >= 2 /\ limit \in Int
      /\ row.last_seqno \in 0 .. Half - 1
  <2>1. NumbersOK(row) /\ EntriesOK /\ Half \in Nat /\ Half >= 2
    BY HalfFacts DEF WordInv
  <2>2. Int64 = -Half .. Half - 1
    BY HalfFacts DEF Int64
  <2>. QED
    BY <2>1, <2>2, RowFacts
<1>1. lo \in 1 .. 2 * Half - 1
  BY <1>0, LoFacts
<1>2. readHi(from, limit) = uint64(uint64(lo + limit) - 1) /\ lo + limit > Half /\ lo + limit <= 2 * Half
  BY DEF readHi
<1>. HIDE DEF lo
<1>3. hi \in Half .. 2 * Half - 1 /\ hi \in 0 .. 2 * Half - 1
  BY <1>0, <1>1, <1>2
<1>4. readHi(from, limit) = hi
  <2>1. CASE lo + limit < 2 * Half
    <3>1. lo + limit \in 0 .. 2 * Half - 1
      BY <1>0, <1>1, <2>1
    <3>2. uint64(lo + limit) = lo + limit /\ uint64(hi) = hi
      BY <1>3, <3>1, WordFacts
    <3>. QED
      BY <1>0, <1>1, <1>2, <3>2
  <2>2. CASE lo + limit = 2 * Half
    BY <1>0, <1>1, <1>2, <2>2, HalfFacts DEF uint64
  <2>. QED
    BY <1>0, <1>1, <1>2, <2>1, <2>2
<1>5. int64(hi) = hi - 2 * Half /\ int64(hi) < 0
  BY <1>0, <1>3, HalfFacts DEF int64
<1>6. ASSUME NEW q \in rows PROVE ~(q.seqno <= int64(readHi(from, limit)))
  <2>1. q.seqno \in 1 .. row.last_seqno
    BY <1>0 DEF EntriesOK
  <2>. QED
    BY <1>0, <1>3, <1>4, <1>5, <2>1
<1>7. Readable(from, limit) = {}
  BY <1>6 DEF Readable
<1>. QED
  BY <1>7

\* The UPDATE of a fence and its diagnosis agree below the upper half of the words.
LEMMA FenceAnswers ==
    ASSUME NumbersOK(row), NEW epoch \in Epochs, Fence(epoch)
    PROVE  \/ res' = "ErrZeroEpoch"
           \/ res' = "nil" /\ row'.epoch = epoch
           \/ res' = "ErrFenced" /\ row'.epoch > epoch
           \/ res' = "unexplained" /\ epoch >= 2^(W - 1)
<1>1. epoch \in 0 .. 2 * Half - 1 /\ Half \in Nat /\ 2^(W - 1) = Half
  BY HalfFacts
<1>2. row.epoch \in 0 .. Half - 1 /\ uint64(row.epoch) = row.epoch
  BY RowFacts
<1>3. /\ int64(epoch) \in Int /\ (int64(epoch) >= 0 => int64(epoch) = epoch /\ epoch < Half)
      /\ epoch < Half => int64(epoch) = epoch
  <2>1. epoch < Half => epoch \in 0 .. Half - 1
    BY <1>1
  <2>. QED
    BY <1>1, <2>1, WordFacts
<1>4. CASE row.epoch <= int64(epoch) /\ row' = [row EXCEPT !.epoch = int64(epoch)] /\ res' = "nil"
  <2>1. int64(epoch) = epoch /\ epoch \in 0 .. Half - 1
    BY <1>1, <1>2, <1>3, <1>4
  <2>2. row'.epoch = epoch
    BY <1>4, <2>1, RowMoves
  <2>. QED
    BY <1>4, <2>2
<1>5. CASE /\ row.epoch > int64(epoch) /\ row' = row
           /\ res' = IF row.epoch > epoch THEN "ErrFenced" ELSE "unexplained"
  <2>1. row.epoch > epoch \/ epoch >= Half
    BY <1>1, <1>2, <1>3, <1>5
  <2>. QED
    BY <1>1, <1>2, <1>5, <2>1
<1>6. CASE res' = "ErrZeroEpoch"
  BY <1>6
<1>. QED
  BY <1>2, <1>4, <1>5, <1>6 DEF Fence, Answer, fenceRefusal

\* Whatever words a caller passes, an append (Append, log.go) is answered the truth
\* about the row it met, one whose seqno or batch wraps being refused; the UPDATE
\* of a fence (Fence, store.go) and its diagnosis agree below the upper half of
\* the words, and above it a fence never takes the log; and a read (ReadFrom,
\* store.go) whose window stays below that half returns exactly the entries that
\* are there: for words of every width.
THEOREM AnswersAreTrueCorrect == WidthSpec => []AnswersAreTrue
<1>1. WidthInit => AnswersAreTrue
  BY DEF WidthInit, Idle, AnswersAreTrue, AppendIsTrue, FenceIsTrue, ReadIsTrue
<1>2. WordInv /\ AnswersAreTrue /\ [WidthNext]_widthVars => AnswersAreTrue'
  <2>. SUFFICES ASSUME WordInv, AnswersAreTrue, [WidthNext]_widthVars PROVE AnswersAreTrue'
    OBVIOUS
  <2>0. NumbersOK(row) /\ EntriesOK
    BY DEF WordInv
  <2>1. ASSUME call'.op \notin {"append", "fence", "read"} PROVE AnswersAreTrue'
    BY <2>1 DEF AnswersAreTrue, AppendIsTrue, FenceIsTrue, ReadIsTrue
  <2>2. ASSUME NEW epoch \in Epochs, NEW first \in Uint, NEW n \in Batches,
               AppendBatch(epoch, first, n)
        PROVE  AnswersAreTrue'
    <3>1. /\ call'.op = "append" /\ call'.epoch = epoch /\ call'.first = first /\ call'.n = n
          /\ \/ UNCHANGED <<row, rows>> /\ res' = "malformed"
             \/ /\ row.epoch = epoch /\ first = row.last_seqno + 1
                /\ row.last_seqno + n <= MaxLast /\ res' = "nil"
                /\ row' = [row EXCEPT !.last_seqno = row.last_seqno + n]
             \/ /\ UNCHANGED <<row, rows>> /\ res' # "nil"
                /\ res' = appendRefusal(epoch, first, row.epoch, row.last_seqno)
      BY <2>0, <2>2, AppendFacts
    <3>2. CASE /\ row.epoch = epoch /\ first = row.last_seqno + 1
               /\ row.last_seqno + n <= MaxLast /\ res' = "nil"
               /\ row' = [row EXCEPT !.last_seqno = row.last_seqno + n]
      <4>1. n \in Nat \ {0} /\ row.last_seqno \in Nat /\ row.last_seqno + n \in row.last_seqno .. MaxLast
        BY <2>0, <3>2, HalfFacts DEF NumbersOK, logState
      <4>2. row'.epoch = row.epoch /\ row'.last_seqno = row.last_seqno + n
        BY <2>0, <3>2, <4>1, RowMoves
      <4>3. row'.last_seqno = first + n - 1
        BY <3>2, <4>1, <4>2
      <4>. QED
        BY <3>1, <3>2, <4>2, <4>3 DEF AnswersAreTrue, AppendIsTrue, FenceIsTrue, ReadIsTrue
    <3>. QED
      BY <3>1, <3>2 DEF AnswersAreTrue, AppendIsTrue, FenceIsTrue, ReadIsTrue
  <2>3. ASSUME NEW from \in Uint, NEW limit \in Int64, ReadFrom(from, limit)
        PROVE  AnswersAreTrue'
    <3>1. /\ row' = row /\ call'.op = "read" /\ call'.from = from /\ call'.limit = limit
          /\ \/ res' = "malformed"
             \/ limit > 0 /\ got' = {uint64(n) : n \in Readable(from, limit)}
      BY <2>0, <2>3, ReadFacts
    <3>2. readLo(from)' = readLo(from) /\ Promised(from, limit)' = Promised(from, limit)
      BY <3>1 DEF readLo, Promised
    <3>3. ASSUME res' = "nil", readLo(from) + limit <= 2^(W - 1)
          PROVE  got' = Promised(from, limit)
      <4>1. limit > 0 /\ readLo(from) + limit <= Half
        BY <3>1, <3>3 DEF Half
      <4>. QED
        BY <3>1, <3>3, <4>1, ReadTrue
    <3>4. ASSUME res' = "nil", readLo(from) + limit <= 2^W
          PROVE  got' \subseteq Promised(from, limit)
      <4>1. limit > 0 /\ readLo(from) + limit <= 2 * Half
        BY <3>1, <3>4, HalfFacts DEF Half
      <4>2. CASE readLo(from) + limit <= 2^(W - 1)
        BY <3>3, <3>4, <4>2
      <4>3. CASE readLo(from) + limit > Half
        BY <3>1, <3>4, <4>1, <4>3, ReadWide
      <4>4. Half = 2^(W - 1) /\ Half \in Int /\ readLo(from) + limit \in Int
        <5>1. readLo(from) \in 1 .. 2 * Half - 1 /\ Half \in Nat
          BY <2>0, LoFacts, HalfFacts DEF WordInv
        <5>2. limit \in Int
          BY HalfFacts DEF Int64
        <5>. QED
          BY <5>1, <5>2 DEF Half
      <4>. QED
        BY <4>2, <4>3, <4>4
    <3>5. ReadIsTrue'
      BY <3>1, <3>2, <3>3, <3>4 DEF ReadIsTrue
    <3>. QED
      BY <3>1, <3>5 DEF AnswersAreTrue, AppendIsTrue, FenceIsTrue
  <2>4. ASSUME NEW epoch \in Epochs, Fence(epoch) PROVE AnswersAreTrue'
    <3>1. call'.op = "fence" /\ call'.epoch = epoch
      BY <2>4 DEF Fence, Answer
    <3>2. FenceIsTrue'
      BY <2>0, <2>4, <3>1, FenceAnswers DEF FenceIsTrue
    <3>. QED
      BY <3>1, <3>2 DEF AnswersAreTrue, AppendIsTrue, ReadIsTrue
  <2>5. ASSUME NEW upTo \in Uint, Trim(upTo) PROVE AnswersAreTrue'
    BY <2>1, <2>5 DEF Trim, Answer
  <2>6. CASE Return
    BY <2>1, <2>6 DEF Return, Idle
  <2>7. CASE UNCHANGED widthVars
    BY <2>7 DEF widthVars, AnswersAreTrue, AppendIsTrue, FenceIsTrue, ReadIsTrue, readLo, Promised
  <2>. QED
    BY <2>2, <2>3, <2>4, <2>5, <2>6, <2>7 DEF WidthNext
<1>. QED
  BY <1>1, <1>2, WordInit, WordStep, PTL DEF WidthSpec

-----------------------------------------------------------------------------
(* The contract. *)

\* Whatever words are passed, every step of a call is a step of the contract
\* (FencedLog) or leaves the log as it was: no seqno that wraps, and no epoch that
\* is negative as a bigint, opens a log, grows it elsewhere than at its end, or
\* cuts it past it.
THEOREM LogOfWordsCorrect == WidthSpec => LogOfWords
<1>1. WordInv /\ [WidthNext]_widthVars => [Log!Next]_(Log!absVars)
  <2>. SUFFICES ASSUME WordInv, [WidthNext]_widthVars PROVE [Log!Next]_(Log!absVars)
    OBVIOUS
  <2>. DEFINE held == {r \in rows : r.seqno > row.trim_upto}
  <2>0. /\ NumbersOK(row) /\ EntriesOK /\ row.last_seqno \in Nat /\ row.trim_upto \in Nat
        /\ row.trim_upto <= row.last_seqno /\ row.epoch \in 0 .. Half - 1
    BY RowFacts DEF WordInv, NumbersOK, logState
  <2>1. ASSUME UNCHANGED <<row, rows>> PROVE [Log!Next]_(Log!absVars)
    BY <2>1 DEF Log!absVars
  <2>2. ASSUME NEW epoch \in Epochs, Fence(epoch) PROVE [Log!Next]_(Log!absVars)
    <3>1. CASE UNCHANGED <<row, rows>>
      BY <2>1, <3>1
    <3>2. CASE /\ rows' = rows /\ epoch \in 1 .. Half - 1 /\ row.epoch <= epoch
               /\ row' = [row EXCEPT !.epoch = epoch]
      <4>1. epoch \in 0 .. Half - 1 /\ epoch \in 1 .. 2^(W - 1) - 1
        BY <3>2, HalfFacts
      <4>2. row'.epoch = epoch /\ row'.last_seqno = row.last_seqno /\ row'.trim_upto = row.trim_upto
        BY <2>0, <3>2, <4>1, RowMoves
      <4>3. Log!Own(epoch)
        BY <3>2, <4>2 DEF Log!Own
      <4>. QED
        BY <4>1, <4>3 DEF Log!Next
    <3>. QED
      BY <2>0, <2>2, <3>1, <3>2, FenceFacts
  <2>3. ASSUME NEW epoch \in Epochs, NEW first \in Uint, NEW n \in Batches,
               AppendBatch(epoch, first, n)
        PROVE  [Log!Next]_(Log!absVars)
    <3>1. CASE UNCHANGED <<row, rows>>
      BY <2>1, <3>1
    <3>2. CASE /\ row.epoch = epoch /\ epoch # 0 /\ first = row.last_seqno + 1
               /\ row.last_seqno + n <= MaxLast
               /\ row' = [row EXCEPT !.last_seqno = row.last_seqno + n]
               /\ rows' = rows \union NewRows(epoch, first, n)
      <4>1. /\ n \in Nat \ {0} /\ row.last_seqno + n \in row.last_seqno .. MaxLast
            /\ n \in 1 .. MaxLast /\ row.epoch \in 1 .. 2^(W - 1) - 1
        BY <2>0, <3>2, HalfFacts
      <4>2. /\ row'.epoch = row.epoch /\ row'.last_seqno = row.last_seqno + n
            /\ row'.trim_upto = row.trim_upto
        BY <2>0, <3>2, <4>1, RowMoves
      <4>3. first + n - 1 = row.last_seqno + n
        BY <2>0, <3>2, <4>1
      <4>4. NewRows(epoch, first, n) =
                Log!Entries(row.last_seqno + 1, row.last_seqno + n, row.epoch, "bytes")
        BY <3>2, <4>3 DEF NewRows, Log!Entries
      <4>5. \A r \in NewRows(epoch, first, n) : r.seqno > row.trim_upto
        BY <2>0, <3>2, <4>1 DEF NewRows
      <4>6. {r \in rows' : r.seqno > row'.trim_upto} = held \union NewRows(epoch, first, n)
        BY <3>2, <4>2, <4>5
      <4>7. Log!Grow(n, "bytes")
        BY <4>1, <4>2, <4>4, <4>6 DEF Log!Grow
      <4>. QED
        BY <4>1, <4>7 DEF Log!Next
    <3>. QED
      BY <2>0, <2>3, <3>1, <3>2, AppendFacts
  <2>4. ASSUME NEW upTo \in Uint, Trim(upTo) PROVE [Log!Next]_(Log!absVars)
    <3>1. /\ NumbersOK(row') /\ row'.epoch = row.epoch /\ row'.last_seqno = row.last_seqno
          /\ row.trim_upto <= row'.trim_upto /\ rows' \subseteq rows
          /\ \A r \in rows : r.seqno \in Int /\ r.seqno > row'.trim_upto => r \in rows'
      BY <2>0, <2>4, TrimFacts
    <3>2. PICK m \in 0 .. row.last_seqno : row'.trim_upto = m
      BY <2>0, <3>1 DEF NumbersOK, logState
    <3>3. \A r \in rows : r.seqno \in Int
      BY <2>0 DEF EntriesOK
    <3>4. {r \in rows' : r.seqno > row'.trim_upto} = {r \in held : r.seqno > m}
      BY <2>0, <3>1, <3>2, <3>3
    <3>5. Log!Cut(m)
      BY <3>1, <3>2, <3>4 DEF Log!Cut
    <3>. QED
      BY <3>2, <3>5 DEF Log!Next
  <2>5. ASSUME NEW from \in Uint, NEW limit \in Int64, ReadFrom(from, limit)
        PROVE  [Log!Next]_(Log!absVars)
    BY <2>1, <2>5 DEF ReadFrom
  <2>6. CASE Return \/ UNCHANGED widthVars
    BY <2>1, <2>6 DEF Return, widthVars
  <2>. QED
    BY <2>2, <2>3, <2>4, <2>5, <2>6 DEF WidthNext
<1>. QED
  BY <1>1, WordInit, WordStep, PTL DEF WidthSpec, LogOfWords

================================================================================

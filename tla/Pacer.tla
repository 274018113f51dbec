-------------------------------- MODULE Pacer --------------------------------
(***************************************************************************)
(* The schedule one writer of the load tool keeps (cmd/pgnotch-load/        *)
(* rate.go): when the next slot may run, which slots are given up on, and   *)
(* how the end of the run ends a wait.                                      *)
(*                                                                         *)
(* Time is a clock that ticks whatever the writer does: an append may take  *)
(* any time, and a timer fires at its time or later.                        *)
(***************************************************************************)
EXTENDS Integers, Sequences

CONSTANTS
    Interval,  \* the time between two slots
    Catchup,   \* how far behind a writer may fall and still catch up
    MaxTime,   \* bound: when the clock stops
    MaxSlots   \* bound: the slots a run issues

ASSUME IntervalAssumption == Interval \in Nat \ {0}
ASSUME CatchupAssumption  == Catchup \in Nat
ASSUME TimeAssumption     == MaxTime \in Nat /\ MaxSlots \in Nat

VARIABLES
    now,        \* the clock; the run started at zero
    due,        \* when the next slot is due
    phase,      \* "ready" to wait, "sleeping", "busy" with a slot, or "ended"
    wake,       \* when the sleeper's timer fires
    issued,     \* when each slot was issued, in order
    skipped,    \* the slots reported as given up on
    restarts,   \* history: how often the schedule restarted
    cancelled   \* whether the run's context has ended

pacerVars == <<now, due, phase, wake, issued, skipped, restarts, cancelled>>

-----------------------------------------------------------------------------
\* What schedule answers: how long to wait, when the slot after is due, and the
\* slots given up on.
Plan(wait, next, n) == [wait |-> wait, next |-> next, skipped |-> n]

\* Variant: a late slot is always repaid.
scheduleAlways(at, t) ==
    IF t < at THEN Plan(at - t, at + Interval, 0) ELSE Plan(0, at + Interval, 0)

\* Variant: what is given up on is not counted.
scheduleUncounted(at, t) ==
    IF t < at                 THEN Plan(at - t, at + Interval, 0)
    ELSE IF t - at <= Catchup THEN Plan(0, at + Interval, 0)
    ELSE Plan(0, t + Interval, 0)

\* The slot due at `at`, looked at at time t.  Behind by more than the catch-up,
\* the schedule restarts from now.
schedule(at, t) ==
    IF t < at                 THEN Plan(at - t, at + Interval, 0)
    ELSE IF t - at <= Catchup THEN Plan(0, at + Interval, 0)
    ELSE Plan(0, t + Interval, (t - at) \div Interval)

\* A slot is issued at the time t.  At the bound none is, and nothing else stops
\* there: a writer that ends has to end without one more slot.
Issue(t) ==
    /\ Len(issued) < MaxSlots
    /\ phase' = "busy" /\ issued' = Append(issued, t)

\* What schedule answers is taken over.
Follow(plan) ==
    /\ phase = "ready"
    /\ due' = plan.next
    /\ skipped' = skipped + plan.skipped
    /\ restarts' = IF plan.next = due + Interval THEN restarts ELSE restarts + 1
    /\ wake' = now + plan.wait
    /\ UNCHANGED <<now, cancelled>>

\* Variant: a slot that is due runs, whether or not the run has ended.
WaitBlindly ==
    LET plan == schedule(due, now)
    IN  /\ Follow(plan)
        /\ \/ plan.wait > 0 /\ phase' = "sleeping" /\ UNCHANGED issued
           \/ plan.wait = 0 /\ Issue(now)

\* wait: a slot that is due runs at once, unless the run has ended; for one that
\* is not, the writer sleeps.
Wait ==
    LET plan == schedule(due, now)
    IN  /\ Follow(plan)
        /\ \/ plan.wait > 0 /\ phase' = "sleeping" /\ UNCHANGED issued
           \/ plan.wait = 0 /\ cancelled /\ phase' = "ended" /\ UNCHANGED issued
           \/ plan.wait = 0 /\ ~cancelled /\ Issue(now)

\* The timer fires.
Fire ==
    /\ phase = "sleeping" /\ now >= wake
    /\ Issue(now)
    /\ UNCHANGED <<now, due, wake, skipped, restarts, cancelled>>

\* The run's end wakes the sleeper; it may come together with the timer.
WakeCancelled ==
    /\ phase = "sleeping" /\ cancelled
    /\ phase' = "ended"
    /\ UNCHANGED <<now, due, wake, issued, skipped, restarts, cancelled>>

\* The writer is done with its slot.
Done ==
    /\ phase = "busy"
    /\ phase' = "ready"
    /\ UNCHANGED <<now, due, wake, issued, skipped, restarts, cancelled>>

Tick ==
    /\ now < MaxTime
    /\ now' = now + 1
    /\ UNCHANGED <<due, phase, wake, issued, skipped, restarts, cancelled>>

Cancel ==
    /\ ~cancelled /\ cancelled' = TRUE
    /\ UNCHANGED <<now, due, phase, wake, issued, skipped, restarts>>

-----------------------------------------------------------------------------
PacerInit ==
    /\ now = 0 /\ due \in 0 .. Interval - 1
    /\ phase = "ready" /\ wake = 0
    /\ issued = <<>> /\ skipped = 0 /\ restarts = 0
    /\ cancelled = FALSE

PacerNext == Wait \/ Fire \/ WakeCancelled \/ Done \/ Tick \/ Cancel

PacerSpec == PacerInit /\ [][PacerNext]_pacerVars

\* The steps of the writer's own, which happen although the clock need not move.
PacerStep == Wait \/ WakeCancelled \/ Done

FairPacerSpec == PacerSpec /\ WF_pacerVars(PacerStep)

-----------------------------------------------------------------------------
\* The slots the rate has planned up to time t.
Planned(t) == t \div Interval + 1

\* The types; a sleeper sleeps until its slot is due.
PacerTypeOK ==
    /\ now \in 0 .. MaxTime /\ due \in Nat /\ wake \in Nat
    /\ phase \in {"ready", "sleeping", "busy", "ended"}
    /\ issued \in Seq(0 .. MaxTime) /\ skipped \in Nat /\ restarts \in Nat
    /\ cancelled \in BOOLEAN
    /\ phase = "sleeping" => wake = due - Interval

\* Repaying late slots is never a burst beyond the catch-up: in any stretch of
\* the run there are no more slots than its length and the catch-up hold, and
\* the one or two at its ends.
BurstIsBounded ==
    \A i, j \in DOMAIN issued :
        i < j => (j - i - 1) * Interval <= issued[j] - issued[i] + Catchup

\* However late its slots come, a writer accounts for the rate: what it has
\* issued and given up on never exceeds what was planned, and when a slot is
\* taken, every slot planned before it has been issued or reported, but for at
\* most one at each restart of the schedule, and those it may still repay.
EverySlotIsAccounted ==
    /\ PacerTypeOK
    /\ Len(issued) + skipped <= Planned(now)
    /\ phase = "busy" => Planned(due - Interval) <= Len(issued) + skipped + restarts

\* The end of the run ends every writer, one that is asleep while the clock stands
\* still and one that is late for every slot it has left, which never sleeps.
CancelEndsTheWait == cancelled ~> phase = "ended"

=============================================================================

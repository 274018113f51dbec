------------------------------ MODULE FencedLog ------------------------------
(***************************************************************************)
(* What the package promises of one log, with nothing of how it keeps it:   *)
(* no ring, no locks, no calls under way.  A log is owned by one epoch at a *)
(* time, grows at its end, and only under its owner; it is cut at its       *)
(* start.  The order of the steps is the order of the commits.              *)
(***************************************************************************)
EXTENDS Integers

CONSTANTS
    Epochs,    \* the epochs a log may be fenced at
    Payloads,  \* what an entry may hold
    MaxSeqno   \* bound: no entry is above this seqno

VARIABLES
    exists,   \* whether the log has been created
    owner,    \* the epoch that owns it, zero for nobody
    last,     \* the seqno of the last entry ever appended
    low,      \* the seqno of the last entry trimmed
    entries   \* the entries the log holds

absVars == <<exists, owner, last, low, entries>>

Entries(from, to, e, p) ==
    {[seqno |-> n, epoch |-> e, payload |-> p] : n \in from .. to}

Init ==
    /\ exists = FALSE
    /\ owner = 0 /\ last = 0 /\ low = 0
    /\ entries = {}

Create ==
    /\ ~exists
    /\ exists' = TRUE
    /\ UNCHANGED <<owner, last, low, entries>>

\* Ownership never goes back to a lower epoch, and is all a fence changes.
Own(e) ==
    /\ exists /\ owner <= e
    /\ owner' = e
    /\ UNCHANGED <<exists, last, low, entries>>

\* A batch goes to the end of the log, whole, under its owner.
Grow(n, p) ==
    /\ exists /\ owner \in Epochs
    /\ last' = last + n
    /\ entries' = entries \union Entries(last + 1, last + n, owner, p)
    /\ UNCHANGED <<exists, owner, low>>

\* Entries at or below n are gone; n is never past the end of the log.
Cut(n) ==
    /\ exists /\ low <= n /\ n <= last
    /\ low' = n
    /\ entries' = {r \in entries : r.seqno > n}
    /\ UNCHANGED <<exists, owner, last>>

Next ==
    \/ Create
    \/ \E e \in Epochs : Own(e)
    \/ \E n \in 1 .. MaxSeqno, p \in Payloads : Grow(n, p)
    \/ \E n \in 0 .. last : Cut(n)

Spec == Init /\ [][Next]_absVars

=============================================================================

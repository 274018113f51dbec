----------------------------- MODULE MCRegistry -----------------------------
(* Registry on small instances; the .cfg files give the constants. *)
EXTENDS Registry, TLC

CONSTANTS s1, s2, s3, a, b

\* Overlapping batches in opposite orders, one with an id twice, and no ids.
BothOrders == {<<a, b>>, <<b, a>>, <<a, a>>, <<>>}

\* Two batches that share an id.
Overlapping == {<<a>>, <<b, a>>}

SessionSymmetry == Permutations(Sessions)

=============================================================================

----------------------------- MODULE MCLoadWriter -----------------------------
(* LoadWriter on small instances; the .cfg files give the constants. *)
EXTENDS LoadWriter

CONSTANTS w1, w2

\* Unix seconds: strictly greater on each run.
GrowingEpochs == [w \in Runs |-> IF w = w1 THEN 1 ELSE 2]

===============================================================================

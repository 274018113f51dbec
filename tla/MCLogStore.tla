------------------------------ MODULE MCLogStore ------------------------------
(* LogStore on small instances; the .cfg files give the constants. *)
EXTENDS LogStore, TLC

\* Sessions are interchangeable: nothing compares or orders them.
Sessions == Permutations(Calls)

\* What the steps to come depend on: not the history variable, not what earlier
\* calls were told, and not the arguments of a call that has returned.  The view
\* of the runs whose properties read nothing else.
Future ==
    <<created, row, heap, pc, held,
      [c \in Calls |-> IF pc[c] = "idle" THEN <<>> ELSE <<arg[c]>>]>>

===============================================================================

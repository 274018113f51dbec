-------------------------- MODULE MCStatementCache --------------------------
(* StatementCache on a small instance; cache.cfg gives the constants. *)
EXTENDS StatementCache, TLC

CONSTANTS s1, g1, g2, k1, k2, a, b

\* Each id on its own: two logs whose ordinals swap when they are created again.
EachAlone == {<<a>>, <<b>>}

\* Goroutines are alike, and so are Stores.
Alike == Permutations(Goroutines) \union Permutations(Stores)

\* What no step and no property of this run tells apart: how a call returned, and,
\* for one session, whether it is Drop or Down that is to drop the registry.
SeenPlace(s) ==
    CASE Free(s)              -> "idle"
      [] place[s] = "down"    -> "drop"
      [] place[s] = "upgrade" -> "queued"
      [] OTHER                -> place[s]

Future == <<schema, [s \in Sessions |-> SeenPlace(s)],
            ids, at, mine, made, list, disturbed, cache>>

=============================================================================

---------------------------- MODULE StatementCache ----------------------------
(***************************************************************************)
(* The append statements a Store caches, one per log, each naming the log's *)
(* entry tables by the ordinal it was found to have, and the registry they   *)
(* are looked up in (Registry), which may be dropped and migrated again.     *)
(*                                                                         *)
(* Goroutines call Append and Fence on Stores that share the schema.  Epochs *)
(* and seqnos are LogStore's matter: here any log that has a row admits an   *)
(* append or refuses it.  An entry is the log it was meant for and the       *)
(* registry of that log, counted by gen.                                     *)
(***************************************************************************)
EXTENDS Registry

CONSTANTS
    Stores,     \* the Store variables of the programs over the schema
    Goroutines  \* what calls them

VARIABLES
    opened,    \* opened[k]: the gen Store k was opened in, zero for not yet
    appends,   \* appends[k][id]: the ordinal its cached statement names, or zero
    step,      \* step[g]: where goroutine g is in its call
    call,      \* call[g]: its call, the Store and the log
    sql,       \* sql[g]: the ordinal its statement names, or was found to have
    survived   \* history: an append ran on a Store opened before the last Migrate

cache     == <<opened, appends, step, call, sql, survived>>
cacheVars == <<gen, migrated, ordinal, nextOrdinal, tables, held, place, ids, at,
               mine, made, list, disturbed, opened, appends, step, call, sql, survived>>

Calls == [op : {"append", "fence"}, store : Stores, id : LogIDs]
Steps == {"idle", "lookup", "remember", "store", "append"}

NoCall == [op |-> "none"]

\* Goroutine g goes on with its call at p, with the ordinal o.
Go(g, p, o) ==
    /\ step' = [step EXCEPT ![g] = p]
    /\ sql' = [sql EXCEPT ![g] = o]
    /\ UNCHANGED call

\* Goroutine g's call returns.
Done(g) ==
    /\ step' = [step EXCEPT ![g] = "idle"]
    /\ sql' = [sql EXCEPT ![g] = 0]
    /\ call' = [call EXCEPT ![g] = NoCall]

\* What goroutine g's Store has cached for its log.
Cached(g) == appends[call[g].store][call[g].id]

-----------------------------------------------------------------------------
\* Variant: a Store is opened with what it had cached before.
OpenKept(k) ==
    /\ migrated /\ \A g \in Goroutines : step[g] # "idle" => call[g].store # k
    /\ opened' = [opened EXCEPT ![k] = gen]
    /\ UNCHANGED <<vars, appends, step, call, sql, survived>>

\* Open: a new Store, if the registry is there.
Open(k) ==
    /\ migrated /\ \A g \in Goroutines : step[g] # "idle" => call[g].store # k
    /\ opened' = [opened EXCEPT ![k] = gen]
    /\ appends' = [appends EXCEPT ![k] = None]
    /\ UNCHANGED <<vars, step, call, sql, survived>>

\* A call: an append whose statement is cached goes straight to it, any other
\* asks the registry.
Begin(g, c) ==
    /\ step[g] = "idle" /\ opened[c.store] # 0
    /\ call' = [call EXCEPT ![g] = c]
    /\ LET known == c.op = "append" /\ appends[c.store][c.id] # 0
       IN  /\ step' = [step EXCEPT ![g] = IF known THEN "append" ELSE "lookup"]
           /\ sql' = [sql EXCEPT ![g] = IF known THEN appends[c.store][c.id] ELSE 0]
    /\ UNCHANGED <<vars, opened, appends, survived>>

\* Variant: the ordinal of whatever log was created last.
FoundLast(id) == IF ordinal[id] = 0 THEN 0 ELSE nextOrdinal - 1

\* The ordinal a statement on the registry returns for id, zero for no row.
Found(id) == ordinal[id]

\* appendFor's SELECT, or Fence's UPDATE: no registry is an error and no row a
\* refusal, and both end the call.
LookUp(g) ==
    /\ step[g] = "lookup"
    /\ \/ (~migrated \/ Found(call[g].id) = 0) /\ Done(g)
       \/ migrated /\ Found(call[g].id) # 0 /\ Go(g, "remember", Found(call[g].id))
    /\ UNCHANGED <<vars, opened, appends, survived>>

\* remember's look under the read lock; the statement that is cached wins.
Remember(g) ==
    /\ step[g] = "remember"
    /\ \/ Cached(g) = 0 /\ Go(g, "store", sql[g])
       \/ Cached(g) # 0 /\ call[g].op = "append" /\ Go(g, "append", Cached(g))
       \/ Cached(g) # 0 /\ call[g].op = "fence" /\ Done(g)
    /\ UNCHANGED <<vars, opened, appends, survived>>

\* remember's write under the exclusive lock, whatever came between.
StoreStatement(g) ==
    /\ step[g] = "store"
    /\ appends' = [appends EXCEPT ![call[g].store][call[g].id] = sql[g]]
    /\ \/ call[g].op = "append" /\ Go(g, "append", sql[g])
       \/ call[g].op = "fence" /\ Done(g)
    /\ UNCHANGED <<vars, opened, survived>>

\* The append statement: the row of the log by its id, the rows into the tables
\* the text names.  Tables that are gone, and a log that is, refuse it.
ExecAppend(g) ==
    /\ step[g] = "append"
    /\ \/ UNCHANGED <<held, survived>>
       \/ /\ sql[g] \in tables /\ ordinal[call[g].id] # 0
          /\ held' = [held EXCEPT ![sql[g]] = @ \union {<<call[g].id, gen>>}]
          /\ survived' = (survived \/ opened[call[g].store] # gen)
    /\ Done(g)
    /\ UNCHANGED <<gen, migrated, ordinal, nextOrdinal, tables, session, disturbed,
                   opened, appends>>

-----------------------------------------------------------------------------
CacheInit ==
    /\ Init
    /\ opened = [k \in Stores |-> 0]
    /\ appends = [k \in Stores |-> None]
    /\ step = [g \in Goroutines |-> "idle"]
    /\ call = [g \in Goroutines |-> NoCall]
    /\ sql = [g \in Goroutines |-> 0]
    /\ survived = FALSE

CacheNext ==
    \/ Next /\ UNCHANGED cache
    \/ \E k \in Stores : Open(k)
    \/ \E g \in Goroutines :
          \/ \E c \in Calls : Begin(g, c)
          \/ LookUp(g) \/ Remember(g) \/ StoreStatement(g) \/ ExecAppend(g)

CacheSpec == CacheInit /\ [][CacheNext]_cacheVars

-----------------------------------------------------------------------------
\* The type invariant of the Stores and their callers.
CacheTypeOK ==
    /\ opened \in [Stores -> 0 .. MaxGen]
    /\ appends \in [Stores -> [LogIDs -> 0 .. MaxOrdinal]]
    /\ step \in [Goroutines -> Steps] /\ call \in [Goroutines -> Calls \union {NoCall}]
    /\ sql \in [Goroutines -> 0 .. MaxOrdinal] /\ survived \in BOOLEAN
    /\ held \in [Ordinals -> SUBSET (LogIDs \X (1 .. MaxGen))]
    /\ \A g \in Goroutines : step[g] \in {"remember", "store", "append"} =>
          sql[g] # 0 /\ call[g] \in Calls

\* Nothing invalidates a cached statement: whatever a Store opened over this
\* registry has cached for a log, or is about to, names that log's own tables.
StatementNamesOwnTables ==
    /\ CacheTypeOK
    /\ \A k \in Stores : opened[k] = gen /\ migrated =>
          \A id \in LogIDs : appends[k][id] \in {0, ordinal[id]}
    /\ \A g \in Goroutines :
          sql[g] # 0 /\ opened[call[g].store] = gen /\ migrated => sql[g] = ordinal[call[g].id]

\* If Drop found the schema quiet, and what used it opened again afterwards, a
\* log's tables hold what was appended to it since it was created, and nothing
\* else: a created log is empty though the ordinals start again.
LogHoldsItsOwn ==
    ~disturbed /\ ~survived =>
        \A id \in Registered : held[ordinal[id]] \subseteq {<<id, gen>>}

===============================================================================

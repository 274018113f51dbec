------------------------------- MODULE Registry -------------------------------
(***************************************************************************)
(* The schema and its registry of logs: Migrate, CreateLogs of a batch of   *)
(* ids, Drop and the down migration, called by sessions that share one      *)
(* PostgreSQL schema.                                                       *)
(*                                                                         *)
(* A log is its registry row, of which only the ordinal matters here, and   *)
(* the ring of tables the ordinal names, created and dropped together.      *)
(* What a transaction has not committed is invisible to the others, except  *)
(* that an inserted id makes them wait.  goose's version table comes and    *)
(* goes with the registry and is left out; goose runs a migration in one    *)
(* transaction, and a dropper has the entry tables' locks with the           *)
(* registry's.  A session waits on one lock at a time, and PostgreSQL      *)
(* fails one of those that wait in a circle.                                *)
(***************************************************************************)
EXTENDS Integers, Sequences

CONSTANTS
    LogIDs,      \* the ids, all of them admitted by checkLogID
    Batches,     \* the batches CreateLogs is called with, sequences of ids
    Sessions,    \* the callers
    MaxOrdinal,  \* bound: the ordinals one registry hands out
    Room,        \* bound: the ordinals that must be left for a call to start
    MaxGen       \* bound: how often the schema is migrated

ASSUME BatchesAssumption == Batches \subseteq Seq(LogIDs)
ASSUME RegistryBounds    == MaxOrdinal \in Nat /\ Room \in Nat /\ MaxGen \in Nat

VARIABLES
    gen,          \* how often the registry has been created
    migrated,     \* whether it is there
    ordinal,      \* ordinal[id]: the ordinal of its committed row, zero for no row
    nextOrdinal,  \* the identity's next value, which no rollback takes back
    tables,       \* the ordinals whose entry tables are there
    held,         \* held[o]: what the entry tables of ordinal o hold
    place,        \* place[s]: where session s is in its call, or how it returned
    ids,          \* ids[s]: the batch of its CreateLogs
    at,           \* at[s]: the position in the batch its INSERT has come to
    mine,         \* mine[s][id]: the ordinal of the row it has inserted, or zero
    made,         \* made[s]: the ordinals it has created tables for
    list,         \* list[s]: the tables its Drop or Down has listed, by ordinal
    disturbed     \* history: a log was created while one of them was under way

schema  == <<gen, migrated, ordinal, nextOrdinal, tables, held>>
session == <<place, ids, at, mine, made, list>>
vars    == <<gen, migrated, ordinal, nextOrdinal, tables, held,
             place, ids, at, mine, made, list, disturbed>>

Ordinals == 1 .. MaxOrdinal
None     == [id \in LogIDs |-> 0]
Creating == {"insert", "ddl", "commit"}
Queued   == {"queued", "upgrade"}
Sharing  == {"down", "upgrade"}
Dropping == {"drop"} \union Queued \union Sharing
Places   == {"idle", "nil", "err"} \union Creating \union Dropping

Registered == {id \in LogIDs : ordinal[id] # 0}
Inserted(s) == {id \in LogIDs : mine[s][id] # 0}

\* Whether session s may make a call.
Free(s) == place[s] \in {"idle", "nil", "err"}

\* Session s ends its transaction, if it has one, and returns r.
Return(s, r) ==
    /\ place' = [place EXCEPT ![s] = r]
    /\ ids'   = [ids EXCEPT ![s] = <<>>]
    /\ at'    = [at EXCEPT ![s] = 0]
    /\ mine'  = [mine EXCEPT ![s] = None]
    /\ made'  = [made EXCEPT ![s] = {}]
    /\ list'  = [list EXCEPT ![s] = {}]

-----------------------------------------------------------------------------
(* CreateLogs. *)

\* A DROP that waits for the registry's lock is served before whoever comes later.
DropQueued == \E s \in Sessions : place[s] \in Queued

\* The call begins, and its INSERT locks the registry against a Drop; behind one
\* that is queued it waits with nothing done yet.  No ids is nothing to do; no
\* registry is an error.
CreateLogs(s, batch) ==
    /\ Free(s)
    /\ \/ batch = <<>> /\ Return(s, "nil")
       \/ batch # <<>> /\ ~migrated /\ Return(s, "err")
       \/ /\ batch # <<>> /\ migrated /\ ~DropQueued
          /\ nextOrdinal + Room <= MaxOrdinal + 1
          /\ place' = [place EXCEPT ![s] = "insert"]
          /\ ids'   = [ids EXCEPT ![s] = batch]
          /\ at'    = [at EXCEPT ![s] = 1]
          /\ UNCHANGED <<mine, made, list>>
    /\ UNCHANGED <<schema, disturbed>>

\* The id session s's INSERT has come to.
Current(s) == ids[s][at[s]]

\* Session s waits for the transaction of t: t has inserted the same id, or has
\* the registry that s is to drop, as a creator or as another down migration.
WaitsFor(s, t) ==
    /\ s # t
    /\ \/ place[s] = "insert" /\ mine[t][Current(s)] # 0
       \/ place[s] \in Queued /\ place[t] \in Creating \union Sharing

\* Variant: a row that is not committed yet counts as a conflict.
MayInsertUnwaited(s) == place[s] = "insert"

\* The row of the current id can be decided on: nobody is about to insert it.
MayInsert(s) == place[s] = "insert" /\ \A t \in Sessions : ~WaitsFor(s, t)

\* The ids that are there for session s's ON CONFLICT, its own rows included.
Conflicts(s) == Registered \union UNION {Inserted(t) : t \in Sessions}

\* One row of the INSERT, in the batch's order.  Its ordinal is drawn whether
\* or not it goes in; an identity that has none left fails the statement.
InsertRow(s) ==
    /\ MayInsert(s) /\ nextOrdinal <= MaxOrdinal
    /\ nextOrdinal' = nextOrdinal + 1
    /\ mine' = IF Current(s) \in Conflicts(s)
               THEN mine
               ELSE [mine EXCEPT ![s][Current(s)] = nextOrdinal]
    /\ \/ at[s] < Len(ids[s]) /\ at' = [at EXCEPT ![s] = @ + 1] /\ UNCHANGED place
       \/ at[s] = Len(ids[s]) /\ place' = [place EXCEPT ![s] = "ddl"] /\ UNCHANGED at
    /\ UNCHANGED <<gen, migrated, ordinal, tables, held, ids, made, list, disturbed>>

\* Variant: the commit depends on there being tables to create.
CreateTablesOrStay(s) ==
    /\ place[s] = "ddl" /\ Inserted(s) # {}
    /\ made' = [made EXCEPT ![s] = {mine[s][id] : id \in Inserted(s)}]
    /\ place' = [place EXCEPT ![s] = "commit"]
    /\ UNCHANGED <<schema, ids, at, mine, list, disturbed>>

\* The tables of the rows that went in.
CreateTables(s) ==
    /\ place[s] = "ddl"
    /\ made' = [made EXCEPT ![s] = {mine[s][id] : id \in Inserted(s)}]
    /\ place' = [place EXCEPT ![s] = "commit"]
    /\ UNCHANGED <<schema, ids, at, mine, list, disturbed>>

\* Rows and tables appear together, whether or not the caller hears of it.  A
\* table that is there already is taken as it is (IF NOT EXISTS).
Commit(s) ==
    /\ place[s] = "commit"
    /\ ordinal' = [id \in LogIDs |-> IF id \in Inserted(s) THEN mine[s][id] ELSE ordinal[id]]
    /\ tables' = tables \union made[s]
    /\ disturbed' = (disturbed \/ \E t \in Sessions : place[t] \in Dropping)
    /\ \/ Return(s, "nil")
       \/ Return(s, "err")
    /\ UNCHANGED <<gen, migrated, nextOrdinal, held>>

\* Variant: a rollback gives the ordinals back.
RollbackOrdinals(s) ==
    /\ ~Free(s)
    /\ Return(s, "err")
    /\ nextOrdinal' = IF at[s] > 0 /\ nextOrdinal > at[s] THEN nextOrdinal - at[s] ELSE nextOrdinal
    /\ UNCHANGED <<gen, migrated, ordinal, tables, held, disturbed>>

\* A statement fails, the connection breaks or the context is cancelled.
Rollback(s) ==
    /\ ~Free(s)
    /\ Return(s, "err")
    /\ UNCHANGED <<schema, disturbed>>

\* The sessions of D wait for one another.
WaitCycle(D) == D # {} /\ \A s \in D : \E t \in D : WaitsFor(s, t)

\* PostgreSQL finds the circle and fails one of its members (40P01).
DeadlockDetected(s) ==
    /\ \E D \in SUBSET Sessions : s \in D /\ WaitCycle(D)
    /\ Return(s, "err")
    /\ UNCHANGED <<schema, disturbed>>

-----------------------------------------------------------------------------
(* Migrate, Drop and the down migration. *)

\* provider.Up: one migration, applied when it has not been.
Migrate ==
    /\ ~migrated /\ gen < MaxGen
    /\ migrated' = TRUE
    /\ gen' = gen + 1
    /\ nextOrdinal' = 1
    /\ UNCHANGED <<ordinal, tables, held, session, disturbed>>

\* The registry's rows are read, behind a DROP that is queued.
List(s, p) ==
    /\ Free(s) /\ (migrated => ~DropQueued)
    /\ list' = [list EXCEPT ![s] = {ordinal[id] : id \in Registered}]
    /\ place' = [place EXCEPT ![s] = p]
    /\ UNCHANGED <<schema, ids, at, mine, made, disturbed>>

\* entryTables: what the registry lists, and nothing when there is none.
Drop(s) == List(s, "drop")

\* The down migration needs the registry, and its one transaction keeps it from
\* the listing on: creators may come, but nobody else drops it.
Down(s) == migrated /\ List(s, "down")

\* The statement that drops the registry asks for its lock; of two down
\* migrations, each then waits for the other.
LockRegistry(s) ==
    /\ place[s] \in {"drop", "down"}
    /\ place' = [place EXCEPT ![s] = IF @ = "drop" THEN "queued" ELSE "upgrade"]
    /\ UNCHANGED <<schema, ids, at, mine, made, list, disturbed>>

\* Nobody but session s has the registry.
RegistryFree(s) == \A t \in Sessions \ {s} : place[t] \notin Creating \union Sharing

\* Variant: only the registry goes.
DropTablesRegistryOnly(s) ==
    /\ place[s] \in Queued /\ RegistryFree(s)
    /\ migrated' = FALSE /\ ordinal' = None
    /\ \/ Return(s, "nil")
       \/ Return(s, "err")
    /\ UNCHANGED <<gen, nextOrdinal, tables, held, disturbed>>

\* The listed tables and the registry go, in the one statement of Drop or the one
\* transaction of Down, once nobody else has the registry.
DropTables(s) ==
    /\ place[s] \in Queued /\ RegistryFree(s)
    /\ migrated' = FALSE /\ ordinal' = None
    /\ tables' = tables \ list[s]
    /\ held' = [o \in Ordinals |-> IF o \in list[s] THEN {} ELSE held[o]]
    /\ \/ Return(s, "nil")
       \/ Return(s, "err")
    /\ UNCHANGED <<gen, nextOrdinal, disturbed>>

-----------------------------------------------------------------------------
Init ==
    /\ gen = 0 /\ migrated = FALSE
    /\ ordinal = None /\ nextOrdinal = 1
    /\ tables = {} /\ held = [o \in Ordinals |-> {}]
    /\ place = [s \in Sessions |-> "idle"]
    /\ ids = [s \in Sessions |-> <<>>]
    /\ at = [s \in Sessions |-> 0]
    /\ mine = [s \in Sessions |-> None]
    /\ made = [s \in Sessions |-> {}]
    /\ list = [s \in Sessions |-> {}]
    /\ disturbed = FALSE

\* The steps a call takes of itself.
Proceed(s) ==
    \/ InsertRow(s) \/ CreateTables(s) \/ Commit(s) \/ DeadlockDetected(s)
    \/ LockRegistry(s) \/ DropTables(s)

Next ==
    \/ Migrate
    \/ \E s \in Sessions :
          \/ \E batch \in Batches : CreateLogs(s, batch)
          \/ Proceed(s)
          \/ Rollback(s)
          \/ Drop(s) \/ Down(s)

Spec == Init /\ [][Next]_vars

\* A statement that can go on again and again does go on: PostgreSQL wakes every
\* waiter when a transaction ends, and ends every circle of waits.
FairSpec == Spec /\ \A s \in Sessions : SF_vars(Proceed(s))

-----------------------------------------------------------------------------
\* The types; a creator under way keeps the registry in place.
TypeOK ==
    /\ gen \in 0 .. MaxGen /\ migrated \in BOOLEAN /\ disturbed \in BOOLEAN
    /\ ordinal \in [LogIDs -> 0 .. MaxOrdinal] /\ nextOrdinal \in 1 .. MaxOrdinal + 1
    /\ tables \subseteq Ordinals /\ DOMAIN held = Ordinals
    /\ place \in [Sessions -> Places] /\ ids \in [Sessions -> Batches \union {<<>>}]
    /\ at \in [Sessions -> Nat] /\ mine \in [Sessions -> [LogIDs -> 0 .. MaxOrdinal]]
    /\ made \in [Sessions -> SUBSET Ordinals] /\ list \in [Sessions -> SUBSET Ordinals]
    /\ \A s \in Sessions :
          /\ place[s] = "insert" => at[s] \in DOMAIN ids[s]
          /\ place[s] \in Creating => migrated

\* Two logs never share entry tables, also not one that is still being created,
\* and an id has one creator at a time: what ON CONFLICT's wait and an identity
\* that no rollback rewinds are for.  No row, pending or committed, outlives
\* its registry.
OrdinalInv ==
    LET Rows == {<<ordinal[id], id>> : id \in Registered}
                  \union UNION {{<<mine[s][id], id>> : id \in Inserted(s)} : s \in Sessions}
    IN  /\ TypeOK
        /\ \A r, q \in Rows : r[1] = q[1] \/ r[2] = q[2] => r = q
        /\ \A r \in Rows : r[1] < nextOrdinal /\ migrated
        /\ \A s, t \in Sessions : \A id \in Inserted(s) :
              ordinal[id] = 0 /\ (s = t \/ mine[t][id] = 0)

\* A registry row always has its tables, whoever creates and whoever drops
\* meanwhile, for they are one transaction; and Drop leaves no entry tables
\* behind that nothing could ever name again, unless a log was created between
\* its two statements, or those of the down migration.
TablesMatchRows ==
    /\ \A id \in Registered : ordinal[id] \in tables
    /\ ~disturbed => tables = {ordinal[id] : id \in Registered}

\* CreateLogs returns nil only when every id of its batch is there, those it
\* waited for included, whose creator may have rolled back; and a log that
\* exists keeps its tables, whoever creates it again, until the registry goes.
NilMeansAllExist ==
    [][/\ \A s \in Sessions : place[s] = "commit" /\ place'[s] = "nil" =>
             \A i \in DOMAIN ids[s] : ordinal'[ids[s][i]] # 0
       /\ \A id \in Registered : ordinal'[id] = ordinal[id] \/ ~migrated']_vars

\* Every CreateLogs returns, those that wait for another and those that wait
\* for one another included, and so does every Drop.
CreatorsReturn == \A s \in Sessions : ~Free(s) ~> Free(s)

===============================================================================

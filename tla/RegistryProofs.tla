---------------------------- MODULE RegistryProofs -----------------------------
(***************************************************************************)
(* Proofs about Registry and StatementCache, for any ids, batches, sessions,*)
(* Stores and goroutines: what the rows of committed and uncommitted creators*)
(* have to do with one another and with the entry tables, whoever drops and *)
(* migrates meanwhile; and on top of that what a cached statement names and *)
(* what the tables it names hold.                                           *)
(***************************************************************************)
EXTENDS StatementCache, TLAPS

\* The ordinals of the rows m, a session's or the registry's.
OrdinalsOf(m) == {m[id] : id \in {jd \in LogIDs : m[jd] # 0}}

\* A session that is not creating has inserted nothing, and only one about to
\* commit has created tables: those of its rows.
SessionOK ==
    \A s \in Sessions :
        /\ place[s] \notin Creating => mine[s] = None
        /\ made[s] = IF place[s] = "commit" THEN OrdinalsOf(mine[s]) ELSE {}

\* Ordinals are drawn once.  A row being inserted has no committed row of its
\* id, and no other row, committed or not, of its id or its ordinal.
RowsOK ==
    /\ \A id \in LogIDs : ordinal[id] < nextOrdinal /\ (ordinal[id] # 0 => migrated)
    /\ \A id, jd \in LogIDs : ordinal[id] # 0 /\ ordinal[id] = ordinal[jd] => id = jd
    /\ \A s \in Sessions : \A id \in LogIDs : mine[s][id] # 0 =>
          /\ mine[s][id] < nextOrdinal /\ ordinal[id] = 0
          /\ \A jd \in LogIDs : ordinal[jd] # mine[s][id]
          /\ \A t \in Sessions : \A jd \in LogIDs :
                /\ mine[t][jd] = mine[s][id] => t = s /\ jd = id
                /\ t # s => mine[t][id] = 0

\* The types and the rows: what is inductive of OrdinalInv.
RegistryInv == TypeOK /\ SessionOK /\ RowsOK

\* The batches are sequences of ids.
LEMMA BatchFacts ==
    /\ \A b \in Batches \union {<<>>} : b \in Seq(LogIDs)
    /\ MaxOrdinal \in Nat /\ Room \in Nat /\ MaxGen \in Nat
<1>1. <<>> \in Seq(LogIDs)
  OBVIOUS
<1>. QED
  BY <1>1, BatchesAssumption, RegistryBounds

\* None is a function that is zero everywhere.
LEMMA NoneFacts ==
    /\ None \in [LogIDs -> 0 .. MaxOrdinal] /\ \A id \in LogIDs : None[id] = 0
    /\ \A s \in Sessions : mine[s] = None => Inserted(s) = {}
BY BatchFacts DEF None, Inserted

\* Nobody creates while a DROP takes the registry.
LEMMA NobodyCreates ==
    ASSUME NEW s \in Sessions, DropTables(s)
    PROVE  \A t \in Sessions : place[t] \notin Creating
BY DEF DropTables, RegistryFree, Queued, Creating

\* The id an INSERT has come to is one of its batch.
LEMMA CurrentIsAnId ==
    ASSUME TypeOK, NEW s \in Sessions, place[s] = "insert"
    PROVE  Current(s) \in LogIDs /\ ids[s] \in Seq(LogIDs) /\ at[s] \in 1 .. Len(ids[s])
<1>1. ids[s] \in Seq(LogIDs) /\ at[s] \in DOMAIN ids[s]
  BY BatchFacts DEF TypeOK
<1>. QED
  BY <1>1 DEF Current

-----------------------------------------------------------------------------
(* Types. *)

\* The types of a step that returns from a call.
LEMMA ReturnTypes ==
    ASSUME TypeOK, NEW s \in Sessions, NEW r \in {"nil", "err"}, Return(s, r)
    PROVE  /\ place' \in [Sessions -> Places] /\ ids' \in [Sessions -> Batches \union {<<>>}]
           /\ at' \in [Sessions -> Nat] /\ mine' \in [Sessions -> [LogIDs -> 0 .. MaxOrdinal]]
           /\ made' \in [Sessions -> SUBSET Ordinals]
           /\ list' \in [Sessions -> SUBSET Ordinals]
           /\ place'[s] = r /\ mine'[s] = None /\ made'[s] = {} /\ at'[s] = 0 /\ ids'[s] = <<>>
           /\ \A t \in Sessions : t # s =>
                 /\ place'[t] = place[t] /\ ids'[t] = ids[t] /\ at'[t] = at[t]
                 /\ mine'[t] = mine[t] /\ made'[t] = made[t] /\ list'[t] = list[t]
BY NoneFacts DEF TypeOK, Return, Places, Creating

\* The types are inductive, with what the sessions have made.
LEMMA TypeStep == TypeOK /\ SessionOK /\ [Next]_vars => TypeOK' /\ SessionOK'
<1>. SUFFICES ASSUME TypeOK, SessionOK, [Next]_vars PROVE TypeOK' /\ SessionOK'
  OBVIOUS
<1>. USE BatchFacts
<1>1. ASSUME NEW s \in Sessions, NEW r \in {"nil", "err"}, Return(s, r),
             UNCHANGED <<schema, disturbed>>
      PROVE  TypeOK' /\ SessionOK'
  <2>1. TypeOK'
    BY <1>1, ReturnTypes DEF TypeOK, schema, Creating
  <2>2. SessionOK'
    BY <1>1, ReturnTypes DEF SessionOK, Creating
  <2>. QED
    BY <2>1, <2>2
<1>2. ASSUME NEW s \in Sessions, NEW batch \in Batches, CreateLogs(s, batch)
      PROVE  TypeOK' /\ SessionOK'
  <2>1. CASE /\ batch # <<>> /\ migrated /\ Free(s)
             /\ place' = [place EXCEPT ![s] = "insert"]
             /\ ids'   = [ids EXCEPT ![s] = batch]
             /\ at'    = [at EXCEPT ![s] = 1]
             /\ UNCHANGED <<mine, made, list>>
    <3>1. 1 \in DOMAIN batch
      BY <2>1
    <3>2. TypeOK'
      BY <1>2, <2>1, <3>1 DEF TypeOK, CreateLogs, schema, Places, Creating
    <3>3. SessionOK'
      BY <2>1 DEF TypeOK, SessionOK, Creating, Free
    <3>. QED
      BY <3>2, <3>3
  <2>. QED
    BY <1>1, <1>2, <2>1 DEF CreateLogs
<1>3. ASSUME NEW s \in Sessions, InsertRow(s) PROVE TypeOK' /\ SessionOK'
  <2>1. place[s] = "insert" /\ nextOrdinal \in 1 .. MaxOrdinal
    BY <1>3 DEF InsertRow, MayInsert, TypeOK
  <2>2. Current(s) \in LogIDs /\ ids[s] \in Seq(LogIDs) /\ at[s] \in 1 .. Len(ids[s])
    BY <2>1, CurrentIsAnId
  <2>3. mine' \in [Sessions -> [LogIDs -> 0 .. MaxOrdinal]]
    BY <1>3, <2>1, <2>2 DEF InsertRow, TypeOK
  <2>4. nextOrdinal' \in 1 .. MaxOrdinal + 1
    BY <1>3, <2>1 DEF InsertRow
  <2>5. \A t \in Sessions : t # s => mine'[t] = mine[t] /\ place'[t] = place[t] /\ at'[t] = at[t]
    BY <1>3, <2>1, <2>2 DEF InsertRow, TypeOK
  <2>6. /\ place'[s] \in {"insert", "ddl"} /\ (place'[s] = "insert" => at'[s] \in DOMAIN ids[s])
        /\ place' \in [Sessions -> Places] /\ at' \in [Sessions -> Nat]
    <3>1. CASE at[s] < Len(ids[s]) /\ at' = [at EXCEPT ![s] = @ + 1] /\ UNCHANGED place
      BY <2>1, <2>2, <3>1 DEF TypeOK
    <3>2. CASE /\ at[s] = Len(ids[s]) /\ place' = [place EXCEPT ![s] = "ddl"]
               /\ UNCHANGED at
      BY <2>1, <2>2, <3>2 DEF TypeOK, Places, Creating
    <3>. QED
      BY <1>3, <3>1, <3>2 DEF InsertRow
  <2>7. TypeOK'
    BY <1>3, <2>1, <2>3, <2>4, <2>5, <2>6 DEF InsertRow, TypeOK, Creating
  <2>8. SessionOK'
    BY <1>3, <2>1, <2>5, <2>6 DEF InsertRow, SessionOK, Creating
  <2>. QED
    BY <2>7, <2>8
<1>4. ASSUME NEW s \in Sessions, CreateTables(s) PROVE TypeOK' /\ SessionOK'
  <2>1. {mine[s][id] : id \in Inserted(s)} \in SUBSET Ordinals
    BY DEF TypeOK, Inserted, Ordinals
  <2>2. TypeOK'
    BY <1>4, <2>1 DEF CreateTables, TypeOK, schema, Places, Creating
  <2>3. SessionOK'
    <3>1. {mine[s][id] : id \in Inserted(s)} = OrdinalsOf(mine[s])
      BY DEF OrdinalsOf, Inserted
    <3>. QED
      BY <1>4, <3>1 DEF CreateTables, TypeOK, SessionOK, Creating
  <2>. QED
    BY <2>2, <2>3
<1>5. ASSUME NEW s \in Sessions, Commit(s) PROVE TypeOK' /\ SessionOK'
  <2>1. PICK r \in {"nil", "err"} : Return(s, r)
    BY <1>5 DEF Commit
  <2>2. ordinal' \in [LogIDs -> 0 .. MaxOrdinal] /\ tables' \subseteq Ordinals
    BY <1>5 DEF Commit, TypeOK
  <2>3. TypeOK'
    BY <1>5, <2>1, <2>2, ReturnTypes DEF Commit, TypeOK, Creating
  <2>4. SessionOK'
    BY <2>1, ReturnTypes DEF SessionOK, Creating
  <2>. QED
    BY <2>3, <2>4
<1>6. ASSUME NEW s \in Sessions, DropTables(s) PROVE TypeOK' /\ SessionOK'
  <2>1. PICK r \in {"nil", "err"} : Return(s, r)
    BY <1>6 DEF DropTables
  <2>2. \A t \in Sessions : place'[t] \notin Creating
    BY <1>6, <2>1, NobodyCreates, ReturnTypes DEF Creating
  <2>3. TypeOK'
    BY <1>6, <2>1, <2>2, ReturnTypes, NoneFacts DEF DropTables, TypeOK, Creating
  <2>4. SessionOK'
    BY <2>1, ReturnTypes DEF SessionOK, Creating
  <2>. QED
    BY <2>3, <2>4
<1>7. ASSUME NEW s \in Sessions, Rollback(s) \/ DeadlockDetected(s) PROVE TypeOK' /\ SessionOK'
  BY <1>1, <1>7 DEF Rollback, DeadlockDetected
<1>8. ASSUME NEW s \in Sessions, Drop(s) \/ Down(s) PROVE TypeOK' /\ SessionOK'
  <2>1. {ordinal[id] : id \in Registered} \in SUBSET Ordinals
    BY DEF TypeOK, Registered, Ordinals
  <2>2. TypeOK'
    BY <1>8, <2>1 DEF Drop, Down, List, TypeOK, schema, Places, Creating, Dropping, Queued, Sharing
  <2>3. SessionOK'
    BY <1>8 DEF Drop, Down, List, TypeOK, SessionOK, Creating, Free
  <2>. QED
    BY <2>2, <2>3
<1>9. ASSUME NEW s \in Sessions, LockRegistry(s) PROVE TypeOK' /\ SessionOK'
  <2>1. TypeOK'
    BY <1>9 DEF LockRegistry, TypeOK, schema, Places, Creating, Dropping, Queued, Sharing
  <2>2. SessionOK'
    BY <1>9 DEF LockRegistry, TypeOK, SessionOK, Creating
  <2>. QED
    BY <2>1, <2>2
<1>10. CASE Migrate
  BY <1>10 DEF Migrate, TypeOK, SessionOK, session, Creating
<1>11. CASE UNCHANGED vars
  BY <1>11 DEF vars, TypeOK, SessionOK
<1>. QED
  BY <1>2, <1>3, <1>4, <1>5, <1>6, <1>7, <1>8, <1>9, <1>10, <1>11 DEF Next, Proceed
-----------------------------------------------------------------------------
(* Rows. *)

\* A creator that commits: its rows become the registry's, and it has none left.
LEMMA CommitRows ==
    ASSUME RegistryInv, NEW s \in Sessions, Commit(s)
    PROVE  /\ nextOrdinal' = nextOrdinal /\ migrated' = migrated /\ migrated
           /\ \A id \in LogIDs :
                 ordinal'[id] = IF mine[s][id] # 0 THEN mine[s][id] ELSE ordinal[id]
           /\ \A t \in Sessions : mine'[t] = IF t = s THEN None ELSE mine[t]
<1>1. PICK r \in {"nil", "err"} : Return(s, r)
  BY DEF Commit
<1>2. \A t \in Sessions : mine'[t] = IF t = s THEN None ELSE mine[t]
  BY <1>1, ReturnTypes DEF RegistryInv
<1>3. migrated
  BY DEF Commit, RegistryInv, TypeOK, Creating
<1>. QED
  BY <1>2, <1>3 DEF Commit, Inserted

\* What a row of an INSERT does: it goes in with a fresh ordinal, or its id is
\* there already, committed or inserted by the same call.
LEMMA InsertedRow ==
    ASSUME RegistryInv, NEW s \in Sessions, InsertRow(s)
    PROVE  /\ Current(s) \in LogIDs /\ migrated /\ UNCHANGED <<migrated, ordinal>>
           /\ nextOrdinal' = nextOrdinal + 1 /\ nextOrdinal \in Nat \ {0}
           /\ \/ /\ mine' = mine
                 /\ ordinal[Current(s)] # 0 \/ mine[s][Current(s)] # 0
              \/ /\ ordinal[Current(s)] = 0
                 /\ \A t \in Sessions : mine[t][Current(s)] = 0
                 /\ \A t \in Sessions : \A id \in LogIDs :
                       mine'[t][id] = IF t = s /\ id = Current(s) THEN nextOrdinal
                                      ELSE mine[t][id]
<1>1. place[s] = "insert" /\ \A t \in Sessions : t # s => mine[t][Current(s)] = 0
  BY DEF InsertRow, MayInsert, WaitsFor
<1>2. /\ Current(s) \in LogIDs /\ migrated
      /\ mine \in [Sessions -> [LogIDs -> 0 .. MaxOrdinal]]
  BY <1>1, CurrentIsAnId DEF RegistryInv, TypeOK, Creating
<1>3. CASE Current(s) \in Conflicts(s)
  <2>1. ordinal[Current(s)] # 0 \/ \E t \in Sessions : mine[t][Current(s)] # 0
    BY <1>3 DEF Conflicts, Registered, Inserted
  <2>. QED
    BY <1>1, <1>2, <1>3, <2>1 DEF InsertRow, RegistryInv, TypeOK
<1>4. CASE Current(s) \notin Conflicts(s)
  <2>1. ordinal[Current(s)] = 0 /\ \A t \in Sessions : mine[t][Current(s)] = 0
    BY <1>2, <1>4 DEF Conflicts, Registered, Inserted
  <2>2. mine' = [mine EXCEPT ![s][Current(s)] = nextOrdinal]
    BY <1>4 DEF InsertRow
  <2>. QED
    BY <1>2, <2>1, <2>2 DEF InsertRow, RegistryInv, TypeOK
<1>. QED
  BY <1>3, <1>4

\* Every step that leaves the registry's rows and its identity alone takes a
\* session's rows back whole, or leaves them.
LEMMA RowsKept ==
    ASSUME RegistryInv, RowsOK, UNCHANGED <<migrated, ordinal, nextOrdinal>>,
           \A t \in Sessions : mine'[t] = mine[t] \/ mine'[t] = None
    PROVE  RowsOK'
<1>1. \A t \in Sessions : \A id \in LogIDs :
         mine'[t][id] # 0 => mine'[t][id] = mine[t][id]
  BY NoneFacts
<1>2. \A t \in Sessions : \A id \in LogIDs : mine[t][id] = 0 => mine'[t][id] = 0
  BY NoneFacts
<1>. QED
  BY <1>1, <1>2 DEF RowsOK

\* The rows are inductive on top of the types.
LEMMA RowsStep == RegistryInv /\ [Next]_vars => RowsOK'
<1>. SUFFICES ASSUME RegistryInv, [Next]_vars PROVE RowsOK'
  OBVIOUS
<1>0. /\ TypeOK /\ SessionOK /\ RowsOK
      /\ ordinal \in [LogIDs -> 0 .. MaxOrdinal] /\ nextOrdinal \in Nat \ {0}
      /\ mine \in [Sessions -> [LogIDs -> 0 .. MaxOrdinal]] /\ MaxOrdinal \in Nat
      /\ \A id \in LogIDs : ordinal[id] \in Nat
      /\ \A s \in Sessions : \A id \in LogIDs : mine[s][id] \in Nat
  BY BatchFacts DEF RegistryInv, TypeOK
<1>1. ASSUME NEW s \in Sessions, NEW r \in {"nil", "err"}, Return(s, r),
             UNCHANGED <<schema, disturbed>>
      PROVE  RowsOK'
  BY <1>0, <1>1, ReturnTypes, RowsKept DEF schema
<1>2. ASSUME NEW s \in Sessions, NEW batch \in Batches, CreateLogs(s, batch) PROVE RowsOK'
  <2>1. CASE UNCHANGED <<mine, schema>>
    BY <1>0, <2>1, RowsKept DEF schema
  <2>. QED
    BY <1>1, <1>2, <2>1 DEF CreateLogs
<1>3. ASSUME NEW s \in Sessions, InsertRow(s) PROVE RowsOK'
  <2>. DEFINE c == Current(s)
  <2>1. /\ c \in LogIDs /\ migrated /\ migrated' = migrated /\ ordinal' = ordinal
        /\ nextOrdinal' = nextOrdinal + 1
    BY <1>3, InsertedRow
  <2>2. CASE mine' = mine
    BY <1>0, <2>1, <2>2 DEF RowsOK
  <2>3. CASE /\ ordinal[c] = 0 /\ \A t \in Sessions : mine[t][c] = 0
             /\ \A t \in Sessions : \A id \in LogIDs :
                   mine'[t][id] = IF t = s /\ id = c THEN nextOrdinal ELSE mine[t][id]
    <3>. HIDE DEF c
    <3>1. \A id \in LogIDs : ordinal'[id] < nextOrdinal' /\ (ordinal'[id] # 0 => migrated')
      BY <1>0, <2>1 DEF RowsOK
    <3>2. \A id, jd \in LogIDs : ordinal'[id] # 0 /\ ordinal'[id] = ordinal'[jd] => id = jd
      BY <1>0, <2>1 DEF RowsOK
    <3>3. ASSUME NEW t \in Sessions, NEW id \in LogIDs, mine'[t][id] # 0
          PROVE  /\ mine'[t][id] < nextOrdinal' /\ ordinal'[id] = 0
                 /\ \A jd \in LogIDs : ordinal'[jd] # mine'[t][id]
      BY <1>0, <2>1, <2>3, <3>3 DEF RowsOK
    <3>4. ASSUME NEW t \in Sessions, NEW id \in LogIDs, mine'[t][id] # 0,
                 NEW u \in Sessions, NEW jd \in LogIDs
          PROVE  /\ mine'[u][jd] = mine'[t][id] => u = t /\ jd = id
                 /\ u # t => mine'[u][id] = 0
      BY <1>0, <2>1, <2>3, <3>4 DEF RowsOK
    <3>. QED
      BY <3>1, <3>2, <3>3, <3>4 DEF RowsOK
  <2>. QED
    BY <1>3, <2>2, <2>3, InsertedRow
<1>4. ASSUME NEW s \in Sessions, Commit(s) PROVE RowsOK'
  <2>1. /\ nextOrdinal' = nextOrdinal /\ migrated' = migrated /\ migrated
        /\ \A id \in LogIDs :
              ordinal'[id] = IF mine[s][id] # 0 THEN mine[s][id] ELSE ordinal[id]
        /\ \A t \in Sessions : \A id \in LogIDs :
              mine'[t][id] = IF t = s THEN 0 ELSE mine[t][id]
    BY <1>4, CommitRows, NoneFacts
  <2>2. \A id \in LogIDs : ordinal'[id] < nextOrdinal' /\ (ordinal'[id] # 0 => migrated')
    BY <1>0, <2>1 DEF RowsOK
  <2>3. \A id, jd \in LogIDs : ordinal'[id] # 0 /\ ordinal'[id] = ordinal'[jd] => id = jd
    BY <1>0, <2>1 DEF RowsOK
  <2>4. ASSUME NEW t \in Sessions, NEW id \in LogIDs, mine'[t][id] # 0
        PROVE  /\ mine'[t][id] < nextOrdinal' /\ ordinal'[id] = 0
               /\ \A jd \in LogIDs : ordinal'[jd] # mine'[t][id]
    BY <1>0, <2>1, <2>4 DEF RowsOK
  <2>5. ASSUME NEW t \in Sessions, NEW id \in LogIDs, mine'[t][id] # 0,
               NEW u \in Sessions, NEW jd \in LogIDs
        PROVE  /\ mine'[u][jd] = mine'[t][id] => u = t /\ jd = id
               /\ u # t => mine'[u][id] = 0
    BY <1>0, <2>1, <2>5 DEF RowsOK
  <2>. QED
    BY <2>2, <2>3, <2>4, <2>5 DEF RowsOK
<1>5. ASSUME NEW s \in Sessions, DropTables(s) PROVE RowsOK'
  <2>1. PICK r \in {"nil", "err"} : Return(s, r)
    BY <1>5 DEF DropTables
  <2>2. \A t \in Sessions : mine'[t] = None
    BY <1>0, <1>5, <2>1, NobodyCreates, ReturnTypes DEF SessionOK
  <2>3. ordinal' = None /\ nextOrdinal' = nextOrdinal
    BY <1>5 DEF DropTables
  <2>. QED
    BY <1>0, <2>2, <2>3, NoneFacts DEF RowsOK
<1>6. CASE Migrate
  <2>1. \A id \in LogIDs : ordinal[id] = 0
    BY <1>0, <1>6 DEF Migrate, RowsOK
  <2>2. \A s \in Sessions : mine[s] = None
    BY <1>0, <1>6 DEF Migrate, SessionOK, TypeOK
  <2>3. ordinal' = ordinal /\ mine' = mine /\ nextOrdinal' = 1
    BY <1>6 DEF Migrate, session
  <2>. QED
    BY <2>1, <2>2, <2>3, NoneFacts DEF RowsOK
<1>7. ASSUME NEW s \in Sessions, Rollback(s) \/ DeadlockDetected(s) PROVE RowsOK'
  BY <1>1, <1>7 DEF Rollback, DeadlockDetected
<1>8. ASSUME NEW s \in Sessions, CreateTables(s) \/ LockRegistry(s) \/ Drop(s) \/ Down(s) PROVE RowsOK'
  BY <1>0, <1>8, RowsKept DEF CreateTables, LockRegistry, Drop, Down, List, schema
<1>9. CASE UNCHANGED vars
  BY <1>0, <1>9, RowsKept DEF vars
<1>. QED
  BY <1>2, <1>3, <1>4, <1>5, <1>6, <1>7, <1>8, <1>9 DEF Next, Proceed

\* All of it holds of the empty schema.
LEMMA RegistryInit == Init => RegistryInv
<1>. SUFFICES ASSUME Init PROVE RegistryInv
  OBVIOUS
<1>1. TypeOK
  <2>1. /\ gen \in 0 .. MaxGen /\ migrated \in BOOLEAN /\ disturbed \in BOOLEAN
        /\ ordinal \in [LogIDs -> 0 .. MaxOrdinal] /\ nextOrdinal \in 1 .. MaxOrdinal + 1
        /\ tables \subseteq Ordinals /\ DOMAIN held = Ordinals
    <3>1. gen \in 0 .. MaxGen /\ nextOrdinal \in 1 .. MaxOrdinal + 1
      BY BatchFacts DEF Init
    <3>2. migrated \in BOOLEAN /\ disturbed \in BOOLEAN
      BY DEF Init
    <3>3. tables \subseteq Ordinals /\ DOMAIN held = Ordinals
      BY DEF Init
    <3>4. ordinal \in [LogIDs -> 0 .. MaxOrdinal]
      BY NoneFacts DEF Init
    <3>. QED
      BY <3>1, <3>2, <3>3, <3>4
  <2>2. /\ place \in [Sessions -> Places] /\ ids \in [Sessions -> Batches \union {<<>>}]
        /\ at \in [Sessions -> Nat]
        /\ made \in [Sessions -> SUBSET Ordinals] /\ list \in [Sessions -> SUBSET Ordinals]
    BY DEF Init, Places
  <2>3. mine \in [Sessions -> [LogIDs -> 0 .. MaxOrdinal]]
    BY NoneFacts DEF Init
  <2>4. \A s \in Sessions : place[s] \notin Creating
    BY DEF Init, Creating
  <2>. QED
    BY <2>1, <2>2, <2>3, <2>4 DEF TypeOK, Creating
<1>2. SessionOK
  BY DEF Init, SessionOK
<1>3. RowsOK
  BY NoneFacts DEF Init, RowsOK
<1>. QED
  BY <1>1, <1>2, <1>3 DEF RegistryInv

\* And it is inductive.
LEMMA RegistryStep == RegistryInv /\ [Next]_vars => RegistryInv'
BY TypeStep, RowsStep DEF RegistryInv

\* Two logs never share entry tables, a log still being created included, and an
\* id has one creator at a time (CreateLogs' INSERT ... ON CONFLICT DO NOTHING and
\* its identity column): no rollback, deadlock, Drop or Migrate undoes it.
THEOREM OrdinalInvCorrect == Spec => []OrdinalInv
<1>1. RegistryInv => OrdinalInv
  <2>. SUFFICES ASSUME RegistryInv PROVE OrdinalInv
    OBVIOUS
  <2>. DEFINE Rows == {<<ordinal[id], id>> : id \in Registered}
                  \union UNION {{<<mine[s][id], id>> : id \in Inserted(s)} : s \in Sessions}
  <2>1. ASSUME NEW r \in Rows
        PROVE  \/ \E id \in LogIDs : ordinal[id] # 0 /\ r = <<ordinal[id], id>>
               \/ \E s \in Sessions : \E id \in LogIDs :
                     mine[s][id] # 0 /\ r = <<mine[s][id], id>>
    BY DEF Registered, Inserted
  <2>2. \A s \in Sessions : \A id \in LogIDs : mine[s][id] # 0 => migrated
    BY NoneFacts DEF RegistryInv, SessionOK, TypeOK
  <2>3. ASSUME NEW r \in Rows PROVE r[1] < nextOrdinal /\ migrated
    BY <2>1, <2>2 DEF RegistryInv, RowsOK
  <2>4. ASSUME NEW r \in Rows, NEW q \in Rows, r[1] = q[1] \/ r[2] = q[2] PROVE r = q
    <3>. HIDE DEF Rows
    <3>1. CASE \E id \in LogIDs : ordinal[id] # 0 /\ r = <<ordinal[id], id>>
      BY <2>1, <2>4, <3>1 DEF RegistryInv, RowsOK
    <3>2. CASE \E s \in Sessions : \E id \in LogIDs :
                  mine[s][id] # 0 /\ r = <<mine[s][id], id>>
      BY <2>1, <2>4, <3>2 DEF RegistryInv, RowsOK
    <3>. QED
      BY <2>1, <3>1, <3>2
  <2>5. \A s, t \in Sessions : \A id \in Inserted(s) :
           ordinal[id] = 0 /\ (s = t \/ mine[t][id] = 0)
    BY DEF RegistryInv, RowsOK, Inserted
  <2>. QED
    BY <2>3, <2>4, <2>5 DEF OrdinalInv, RegistryInv
<1>. QED
  BY <1>1, RegistryInit, RegistryStep, PTL DEF Spec
-----------------------------------------------------------------------------
(* Tables. *)

\* Rows and tables agree, and a Drop under way has listed every table, unless a
\* log was created since.
TablesOK ==
    /\ \A id \in LogIDs : ordinal[id] # 0 => ordinal[id] \in tables
    /\ ~disturbed => tables = OrdinalsOf(ordinal)
    /\ \A s \in Sessions : place[s] \in Dropping /\ ~disturbed => tables \subseteq list[s]

\* A step that leaves rows, tables and history alone, and starts no Drop.
LEMMA TablesKept ==
    ASSUME TablesOK, UNCHANGED <<ordinal, tables, disturbed>>,
           \A t \in Sessions : place'[t] \in Dropping =>
               place[t] \in Dropping /\ list'[t] = list[t]
    PROVE  TablesOK'
BY DEF TablesOK, OrdinalsOf

\* The agreement is inductive on top of the rows.
LEMMA TablesStep == RegistryInv /\ TablesOK /\ [Next]_vars => TablesOK'
<1>. SUFFICES ASSUME RegistryInv, TablesOK, [Next]_vars PROVE TablesOK'
  OBVIOUS
<1>0. TypeOK /\ SessionOK /\ RowsOK
  BY DEF RegistryInv
<1>1. ASSUME NEW s \in Sessions, NEW r \in {"nil", "err"}, Return(s, r),
             UNCHANGED <<schema, disturbed>>
      PROVE  TablesOK'
  BY <1>0, <1>1, ReturnTypes, TablesKept DEF schema, Dropping, Queued, Sharing
<1>2. ASSUME NEW s \in Sessions, NEW batch \in Batches, CreateLogs(s, batch) PROVE TablesOK'
  <2>1. CASE /\ place' = [place EXCEPT ![s] = "insert"]
             /\ UNCHANGED <<list, schema, disturbed>>
    BY <1>0, <2>1, TablesKept DEF schema, Dropping, Queued, Sharing, TypeOK
  <2>. QED
    BY <1>1, <1>2, <2>1 DEF CreateLogs
<1>3. ASSUME NEW s \in Sessions, InsertRow(s) \/ CreateTables(s) PROVE TablesOK'
  <2>1. UNCHANGED <<ordinal, tables, disturbed, list>>
    BY <1>3 DEF InsertRow, CreateTables, schema
  <2>2. \E p \in Creating : place' = [place EXCEPT ![s] = p]
    BY <1>0, <1>3 DEF InsertRow, MayInsert, CreateTables, Creating, TypeOK
  <2>. QED
    BY <1>0, <2>1, <2>2, TablesKept DEF TypeOK, Creating, Dropping, Queued, Sharing
<1>4. ASSUME NEW s \in Sessions, Commit(s) PROVE TablesOK'
  <2>1. PICK r \in {"nil", "err"} : Return(s, r)
    BY <1>4 DEF Commit
  <2>2. \A id \in LogIDs :
           ordinal'[id] = IF mine[s][id] # 0 THEN mine[s][id] ELSE ordinal[id]
    BY <1>4, CommitRows
  <2>3. tables' = tables \union OrdinalsOf(mine[s])
    BY <1>0, <1>4 DEF Commit, SessionOK
  <2>4. \A id \in LogIDs : mine[s][id] # 0 => ordinal[id] = 0
    BY <1>0 DEF RowsOK
  <2>5. OrdinalsOf(ordinal)' = OrdinalsOf(ordinal) \union OrdinalsOf(mine[s])
    <3>1. ASSUME NEW o \in OrdinalsOf(ordinal)'
          PROVE  o \in OrdinalsOf(ordinal) \union OrdinalsOf(mine[s])
      <4>1. PICK id \in LogIDs : ordinal'[id] # 0 /\ o = ordinal'[id]
        BY <3>1 DEF OrdinalsOf
      <4>. QED
        BY <2>2, <4>1 DEF OrdinalsOf
    <3>2. ASSUME NEW o \in OrdinalsOf(mine[s]) PROVE o \in OrdinalsOf(ordinal)'
      <4>1. PICK id \in LogIDs : mine[s][id] # 0 /\ o = mine[s][id]
        BY <3>2 DEF OrdinalsOf
      <4>2. ordinal'[id] # 0 /\ o = ordinal'[id]
        BY <2>2, <4>1
      <4>. QED
        BY <4>2 DEF OrdinalsOf
    <3>3. ASSUME NEW o \in OrdinalsOf(ordinal) PROVE o \in OrdinalsOf(ordinal)'
      <4>1. PICK id \in LogIDs : ordinal[id] # 0 /\ o = ordinal[id]
        BY <3>3 DEF OrdinalsOf
      <4>2. ordinal'[id] # 0 /\ o = ordinal'[id]
        BY <2>2, <2>4, <4>1
      <4>. QED
        BY <4>2 DEF OrdinalsOf
    <3>. QED
      BY <3>1, <3>2, <3>3
  <2>6. ~disturbed' => ~disturbed /\ \A t \in Sessions : place[t] \notin Dropping
    BY <1>4 DEF Commit
  <2>7. \A id \in LogIDs : ordinal'[id] # 0 => ordinal'[id] \in tables'
    BY <2>2, <2>3 DEF TablesOK, OrdinalsOf
  <2>8. ~disturbed' => tables' = OrdinalsOf(ordinal)'
    BY <2>3, <2>5, <2>6 DEF TablesOK
  <2>9. \A t \in Sessions : place'[t] \in Dropping => place[t] \in Dropping
    BY <1>0, <2>1, ReturnTypes DEF Dropping, Queued, Sharing
  <2>. QED
    BY <2>6, <2>7, <2>8, <2>9 DEF TablesOK
<1>5. ASSUME NEW s \in Sessions, DropTables(s) PROVE TablesOK'
  <2>1. PICK r \in {"nil", "err"} : Return(s, r)
    BY <1>5 DEF DropTables
  <2>2. /\ ordinal' = None /\ tables' = tables \ list[s] /\ disturbed' = disturbed
        /\ place[s] \in Dropping
    BY <1>5 DEF DropTables, Dropping, Queued, Sharing
  <2>3. OrdinalsOf(ordinal)' = {}
    BY <2>2, NoneFacts DEF OrdinalsOf
  <2>4. ~disturbed => tables' = {}
    BY <2>2 DEF TablesOK
  <2>. QED
    BY <2>2, <2>3, <2>4, NoneFacts DEF TablesOK
<1>6. ASSUME NEW s \in Sessions, Drop(s) \/ Down(s) PROVE TablesOK'
  <2>1. /\ UNCHANGED <<ordinal, tables, disturbed>>
        /\ list' = [list EXCEPT ![s] = OrdinalsOf(ordinal)]
        /\ \E p \in Dropping : place' = [place EXCEPT ![s] = p]
    BY <1>6 DEF Drop, Down, List, schema, OrdinalsOf, Registered, Dropping, Sharing
  <2>2. OrdinalsOf(ordinal)' = OrdinalsOf(ordinal)
    BY <2>1 DEF OrdinalsOf
  <2>. QED
    BY <1>0, <2>1, <2>2 DEF TablesOK, TypeOK
<1>7. ASSUME NEW s \in Sessions, LockRegistry(s) PROVE TablesOK'
  BY <1>0, <1>7, TablesKept DEF LockRegistry, schema, Dropping, Queued, Sharing, TypeOK
<1>8. ASSUME NEW s \in Sessions, Rollback(s) \/ DeadlockDetected(s) PROVE TablesOK'
  BY <1>1, <1>8 DEF Rollback, DeadlockDetected
<1>9. CASE Migrate \/ UNCHANGED vars
  BY <1>9, TablesKept DEF Migrate, session, vars
<1>. QED
  BY <1>2, <1>3, <1>4, <1>5, <1>6, <1>7, <1>8, <1>9 DEF Next, Proceed

\* The empty schema has no rows and no tables.
LEMMA TablesInit == Init => TablesOK
<1>. SUFFICES ASSUME Init PROVE TablesOK
  OBVIOUS
<1>1. OrdinalsOf(ordinal) = {}
  BY NoneFacts DEF Init, OrdinalsOf
<1>. QED
  BY <1>1, NoneFacts DEF Init, TablesOK, Dropping, Queued, Sharing

\* A registry row always has its tables, and Drop (schema.go's entryTables and
\* its one DROP statement) leaves none behind unless a log was created between
\* its two statements.
THEOREM TablesMatchRowsCorrect == Spec => []TablesMatchRows
<1>1. TablesOK => TablesMatchRows
  BY DEF TablesOK, TablesMatchRows, OrdinalsOf, Registered
<1>2. Init => RegistryInv /\ TablesOK
  BY RegistryInit, TablesInit
<1>3. RegistryInv /\ TablesOK /\ [Next]_vars => RegistryInv' /\ TablesOK'
  BY RegistryStep, TablesStep
<1>. QED
  BY <1>1, <1>2, <1>3, PTL DEF Spec

-----------------------------------------------------------------------------
(* What nil says. *)

\* The ids an INSERT has passed are there, committed or inserted by the call.
BatchOK ==
    \A s \in Sessions : \A i \in DOMAIN ids[s] :
        place[s] \in {"ddl", "commit"} \/ (place[s] = "insert" /\ i < at[s]) =>
            ordinal[ids[s][i]] # 0 \/ mine[s][ids[s][i]] # 0

\* The ids of a session's batch.
LEMMA BatchIds ==
    ASSUME TypeOK, NEW s \in Sessions
    PROVE  ids[s] \in Seq(LogIDs) /\ \A i \in DOMAIN ids[s] : i \in Nat /\ ids[s][i] \in LogIDs
<1>1. ids[s] \in Seq(LogIDs)
  BY BatchFacts DEF TypeOK
<1>. QED
  BY <1>1

\* A row that is in the registry stays, with its ordinal, until the registry goes;
\* and a session that is creating keeps what is there for it.
LEMMA RowsStay ==
    ASSUME RegistryInv, [Next]_vars, NEW id \in LogIDs, ordinal[id] # 0
    PROVE  ordinal'[id] = ordinal[id] \/ (~migrated' /\ \A s \in Sessions : place[s] \notin Creating)
<1>1. ASSUME NEW s \in Sessions, Commit(s) PROVE ordinal'[id] = ordinal[id]
  BY <1>1, CommitRows DEF RegistryInv, RowsOK
<1>2. ASSUME NEW s \in Sessions, DropTables(s)
      PROVE  ~migrated' /\ \A t \in Sessions : place[t] \notin Creating
  BY <1>2, NobodyCreates DEF DropTables
<1>3. ASSUME NEW s \in Sessions,
             InsertRow(s) \/ CreateTables(s) \/ DeadlockDetected(s) \/ LockRegistry(s)
               \/ Rollback(s) \/ Drop(s) \/ Down(s) \/ \E batch \in Batches : CreateLogs(s, batch)
      PROVE  ordinal' = ordinal
  BY <1>3 DEF InsertRow, CreateTables, DeadlockDetected, LockRegistry, Rollback, Drop, Down, List,
     CreateLogs, schema
<1>4. CASE Migrate \/ UNCHANGED vars
  BY <1>4 DEF Migrate, vars
<1>. QED
  BY <1>1, <1>2, <1>3, <1>4 DEF Next, Proceed

\* What a session has inserted, and where it is, only it changes.
Untouched(t) ==
    place'[t] = place[t] /\ ids'[t] = ids[t] /\ at'[t] = at[t] /\ mine'[t] = mine[t]

\* The batches under way are inductive on top of the rows.
LEMMA BatchStep == RegistryInv /\ BatchOK /\ [Next]_vars => BatchOK'
<1>. SUFFICES ASSUME RegistryInv, BatchOK, [Next]_vars,
                     NEW s \in Sessions, NEW i \in DOMAIN ids'[s],
                     place'[s] \in {"ddl", "commit"} \/ (place'[s] = "insert" /\ i < at'[s])
              PROVE  ordinal'[ids'[s][i]] # 0 \/ mine'[s][ids'[s][i]] # 0
  BY DEF BatchOK
<1>0. TypeOK /\ SessionOK /\ RowsOK
  BY DEF RegistryInv
<1>1. ASSUME /\ ids'[s] = ids[s] /\ mine'[s] = mine[s] /\ place[s] \in Creating
             /\ place[s] \in {"ddl", "commit"} \/ (place[s] = "insert" /\ i < at[s])
      PROVE  ordinal'[ids'[s][i]] # 0 \/ mine'[s][ids'[s][i]] # 0
  <2>1. ids[s][i] \in LogIDs
    BY <1>0, <1>1, BatchIds
  <2>2. ordinal[ids[s][i]] # 0 \/ mine[s][ids[s][i]] # 0
    BY <1>1 DEF BatchOK
  <2>. QED
    BY <1>1, <2>1, <2>2, RowsStay
<1>2. ASSUME Untouched(s) PROVE ordinal'[ids'[s][i]] # 0 \/ mine'[s][ids'[s][i]] # 0
  BY <1>1, <1>2 DEF Untouched, Creating
<1>3. ASSUME NEW t \in Sessions, NEW r \in {"nil", "err"}, Return(t, r)
      PROVE  ordinal'[ids'[s][i]] # 0 \/ mine'[s][ids'[s][i]] # 0
  BY <1>0, <1>2, <1>3, ReturnTypes DEF Untouched
<1>4. ASSUME NEW t \in Sessions, InsertRow(t)
      PROVE  ordinal'[ids'[s][i]] # 0 \/ mine'[s][ids'[s][i]] # 0
  <2>1. place[t] = "insert" /\ ids' = ids
    BY <1>4 DEF InsertRow, MayInsert
  <2>2. /\ Current(t) \in LogIDs /\ ids[t] \in Seq(LogIDs) /\ at[t] \in 1 .. Len(ids[t])
    BY <1>0, <2>1, CurrentIsAnId
  <2>3. CASE t # s
    <3>1. Untouched(s)
      BY <1>0, <1>4, <2>2, <2>3 DEF InsertRow, TypeOK, Untouched
    <3>. QED
      BY <1>2, <3>1
  <2>4. CASE t = s
    <3>1. i \in Nat /\ ids[s][i] \in LogIDs /\ i \in 1 .. Len(ids[s])
      BY <1>0, <2>1, <2>2, <2>4, BatchIds
    <3>2. i <= at[s]
      <4>1. CASE at[s] < Len(ids[s]) /\ at' = [at EXCEPT ![s] = @ + 1] /\ UNCHANGED place
        BY <1>0, <2>1, <2>2, <2>4, <3>1, <4>1 DEF TypeOK
      <4>2. CASE at[s] = Len(ids[s])
        BY <3>1, <4>2
      <4>. QED
        BY <1>4, <2>4, <4>1, <4>2 DEF InsertRow
    <3>3. \A id \in LogIDs : mine[s][id] # 0 => mine'[s][id] # 0
      BY <1>4, <2>4, InsertedRow
    <3>4. ordinal' = ordinal
      BY <1>4, InsertedRow
    <3>5. CASE i < at[s]
      BY <2>1, <2>4, <3>1, <3>3, <3>4, <3>5 DEF BatchOK
    <3>6. CASE i = at[s]
      <4>1. ids[s][i] = Current(s)
        BY <3>6 DEF Current
      <4>2. ordinal[Current(s)] # 0 \/ mine'[s][Current(s)] # 0
        BY <1>4, <2>4, InsertedRow
      <4>. QED
        BY <2>1, <3>4, <4>1, <4>2
    <3>. QED
      BY <2>2, <2>4, <3>1, <3>2, <3>5, <3>6
  <2>. QED
    BY <2>3, <2>4
<1>5. ASSUME NEW t \in Sessions, CreateTables(t)
      PROVE  ordinal'[ids'[s][i]] # 0 \/ mine'[s][ids'[s][i]] # 0
  BY <1>0, <1>1, <1>2, <1>5 DEF CreateTables, TypeOK, Untouched, Creating
<1>6. ASSUME NEW t \in Sessions, NEW batch \in Batches, CreateLogs(t, batch)
      PROVE  ordinal'[ids'[s][i]] # 0 \/ mine'[s][ids'[s][i]] # 0
  <2>1. CASE /\ place' = [place EXCEPT ![t] = "insert"] /\ ids' = [ids EXCEPT ![t] = batch]
             /\ at' = [at EXCEPT ![t] = 1] /\ UNCHANGED <<mine, made, list>>
    <3>1. CASE t # s
      BY <1>0, <1>2, <2>1, <3>1 DEF TypeOK, Untouched
    <3>2. CASE t = s
      <4>1. i \in DOMAIN batch /\ batch \in Seq(LogIDs) /\ i < 1
        BY <1>0, <2>1, <3>2, BatchFacts DEF TypeOK
      <4>. QED
        BY <4>1
    <3>. QED
      BY <3>1, <3>2
  <2>. QED
    BY <1>3, <1>6, <2>1 DEF CreateLogs
<1>7. ASSUME NEW t \in Sessions, Drop(t) \/ Down(t) \/ LockRegistry(t)
      PROVE  ordinal'[ids'[s][i]] # 0 \/ mine'[s][ids'[s][i]] # 0
  <2>1. t # s /\ Untouched(s)
    BY <1>0, <1>7 DEF Drop, Down, List, LockRegistry, TypeOK, Untouched
  <2>. QED
    BY <1>2, <2>1
<1>8. CASE Migrate \/ UNCHANGED vars
  BY <1>2, <1>8 DEF Migrate, session, vars, Untouched
<1>. QED
  BY <1>3, <1>4, <1>5, <1>6, <1>7, <1>8
     DEF Next, Proceed, Commit, DropTables, DeadlockDetected, Rollback

\* CreateLogs returns nil only when every id of its batch is in the registry, those
\* it waited for included, whose creator may have rolled back; and no step but the
\* end of the registry takes a log's ordinal from it.
THEOREM NilMeansAllExistCorrect == Spec => NilMeansAllExist
<1>1. RegistryInv /\ BatchOK /\ [Next]_vars =>
        [/\ \A s \in Sessions : place[s] = "commit" /\ place'[s] = "nil" =>
               \A i \in DOMAIN ids[s] : ordinal'[ids[s][i]] # 0
         /\ \A id \in Registered : ordinal'[id] = ordinal[id] \/ ~migrated']_vars
  <2>. SUFFICES ASSUME RegistryInv, BatchOK, [Next]_vars
                PROVE  /\ \A s \in Sessions : place[s] = "commit" /\ place'[s] = "nil" =>
                             \A i \in DOMAIN ids[s] : ordinal'[ids[s][i]] # 0
                       /\ \A id \in Registered : ordinal'[id] = ordinal[id] \/ ~migrated'
    OBVIOUS
  <2>1. ASSUME NEW s \in Sessions, place[s] = "commit", place'[s] = "nil",
               NEW i \in DOMAIN ids[s]
        PROVE  ordinal'[ids[s][i]] # 0
    <3>0. TypeOK
      BY DEF RegistryInv
    <3>1. ASSUME NEW t \in Sessions, NEW r \in {"nil", "err"}, Return(t, r), t # s
          PROVE  FALSE
      BY <2>1, <3>0, <3>1, ReturnTypes
    <3>2. ASSUME NEW r \in {"err"}, Return(s, r) PROVE FALSE
      BY <2>1, <3>0, <3>2, ReturnTypes
    <3>3. ASSUME NEW t \in Sessions,
                 InsertRow(t) \/ CreateTables(t) \/ LockRegistry(t) \/ Drop(t) \/ Down(t)
          PROVE  FALSE
      BY <2>1, <3>0, <3>3 DEF InsertRow, CreateTables, LockRegistry, Drop, Down, List, TypeOK
    <3>4. ASSUME NEW t \in Sessions, NEW batch \in Batches, CreateLogs(t, batch) PROVE FALSE
      BY <2>1, <3>0, <3>1, <3>4 DEF CreateLogs, TypeOK, Free
    <3>5. ~Migrate /\ ~UNCHANGED vars
      BY <2>1 DEF Migrate, session, vars
    <3>6. ASSUME NEW t \in Sessions, Rollback(t) \/ DeadlockDetected(t) PROVE FALSE
      BY <3>1, <3>2, <3>6 DEF Rollback, DeadlockDetected
    <3>7. ASSUME NEW t \in Sessions, DropTables(t) PROVE FALSE
      BY <2>1, <3>7, NobodyCreates DEF Creating
    <3>8. Commit(s)
      <4>1. ASSUME NEW t \in Sessions, Commit(t) PROVE t = s
        BY <3>1, <4>1 DEF Commit
      <4>. QED
        BY <3>3, <3>4, <3>5, <3>6, <3>7, <4>1 DEF Next, Proceed
    <3>9. ids[s][i] \in LogIDs
      BY <3>0, BatchIds
    <3>10. ordinal[ids[s][i]] # 0 \/ mine[s][ids[s][i]] # 0
      BY <2>1 DEF BatchOK
    <3>. QED
      BY <3>8, <3>9, <3>10, CommitRows
  <2>2. \A id \in Registered : ordinal'[id] = ordinal[id] \/ ~migrated'
    BY RowsStay DEF Registered
  <2>. QED
    BY <2>1, <2>2
<1>2. Init => RegistryInv /\ BatchOK
  BY RegistryInit DEF Init, BatchOK
<1>3. RegistryInv /\ BatchOK /\ [Next]_vars => RegistryInv' /\ BatchOK'
  BY RegistryStep, BatchStep
<1>. QED
  BY <1>1, <1>2, <1>3, PTL DEF Spec, NilMeansAllExist

-----------------------------------------------------------------------------
(* The registry below the Stores. *)

\* All that was proved of the registry.
SchemaInv == RegistryInv /\ TablesOK

\* The registry keeps its invariant, whatever the Stores do: of it they change
\* only what the tables hold.
LEMMA SchemaStep == SchemaInv /\ [CacheNext]_cacheVars => SchemaInv'
<1>. SUFFICES ASSUME SchemaInv, [CacheNext]_cacheVars PROVE SchemaInv'
  OBVIOUS
<1>1. CASE [Next]_vars
  BY <1>1, RegistryStep, TablesStep DEF SchemaInv
<1>2. ASSUME NEW g \in Goroutines, ExecAppend(g) PROVE SchemaInv'
  <2>1. UNCHANGED <<gen, migrated, ordinal, nextOrdinal, tables, session, disturbed>>
    BY <1>2 DEF ExecAppend
  <2>2. DOMAIN held' = Ordinals
    BY <1>2 DEF ExecAppend, SchemaInv, RegistryInv, TypeOK
  <2>3. TypeOK'
    BY <2>1, <2>2 DEF SchemaInv, RegistryInv, TypeOK, session
  <2>4. SessionOK' /\ RowsOK'
    BY <2>1 DEF SchemaInv, RegistryInv, SessionOK, RowsOK, session
  <2>5. TablesOK'
    BY <2>1, TablesKept DEF SchemaInv, session
  <2>. QED
    BY <2>3, <2>4, <2>5 DEF SchemaInv, RegistryInv
<1>3. CASE UNCHANGED vars \/ UNCHANGED cacheVars
  BY <1>1, <1>3 DEF vars, cacheVars
<1>. QED
  BY <1>1, <1>2, <1>3 DEF CacheNext, Open, Begin, LookUp, Remember, StoreStatement

\* What a step of the registry does to its generation.
LEMMA GenStep ==
    ASSUME [Next]_vars
    PROVE  \/ gen' = gen /\ (migrated' => migrated)
           \/ ~migrated /\ gen < MaxGen /\ gen' = gen + 1 /\ migrated' /\ UNCHANGED <<ordinal, held>>
<1>1. CASE Migrate
  BY <1>1 DEF Migrate
<1>2. ASSUME NEW s \in Sessions,
             InsertRow(s) \/ CreateTables(s) \/ DeadlockDetected(s) \/ LockRegistry(s)
               \/ Rollback(s) \/ Drop(s) \/ Down(s) \/ Commit(s) \/ DropTables(s)
               \/ \E batch \in Batches : CreateLogs(s, batch)
      PROVE  gen' = gen /\ (migrated' => migrated)
  BY <1>2 DEF InsertRow, CreateTables, DeadlockDetected, LockRegistry, Rollback, Drop, Down, List,
     Commit, DropTables, CreateLogs, schema
<1>. QED
  BY <1>1, <1>2 DEF Next, Proceed, vars

\* What a step of the registry does to what the tables hold.
LEMMA HeldStep ==
    ASSUME [Next]_vars
    PROVE  \/ held' = held /\ tables \subseteq tables'
           \/ /\ \A id \in LogIDs : ordinal'[id] = 0
              /\ \E s \in Sessions :
                    /\ tables' = tables \ list[s]
                    /\ held' = [o \in Ordinals |-> IF o \in list[s] THEN {} ELSE held[o]]
<1>1. ASSUME NEW s \in Sessions, DropTables(s)
      PROVE  /\ \A id \in LogIDs : ordinal'[id] = 0
             /\ tables' = tables \ list[s]
             /\ held' = [o \in Ordinals |-> IF o \in list[s] THEN {} ELSE held[o]]
  BY <1>1, NoneFacts DEF DropTables
<1>2. ASSUME NEW s \in Sessions,
             InsertRow(s) \/ CreateTables(s) \/ DeadlockDetected(s) \/ LockRegistry(s)
               \/ Rollback(s) \/ Drop(s) \/ Down(s) \/ Commit(s)
               \/ \E batch \in Batches : CreateLogs(s, batch)
      PROVE  held' = held /\ tables \subseteq tables'
  BY <1>2 DEF InsertRow, CreateTables, DeadlockDetected, LockRegistry, Rollback, Drop, Down, List,
     Commit, CreateLogs, schema
<1>3. CASE Migrate \/ UNCHANGED vars
  BY <1>3 DEF Migrate, vars
<1>. QED
  BY <1>1, <1>2, <1>3 DEF Next, Proceed

-----------------------------------------------------------------------------
(* What the Stores have cached. *)

\* A Store was opened over this registry or an earlier one; a goroutine in a call
\* has a call, and has an ordinal from its lookup on.
CallsOK ==
    /\ CacheTypeOK
    /\ migrated => gen > 0
    /\ \A k \in Stores : opened[k] <= gen
    /\ \A g \in Goroutines :
          /\ step[g] # "idle" => call[g] \in Calls
          /\ sql[g] # 0 => step[g] \in {"remember", "store", "append"}

\* What goroutine g and Store k have of the registry they were opened over.
StoreOK(k) ==
    opened[k] = gen /\ migrated => \A id \in LogIDs : appends[k][id] \in {0, ordinal[id]}
GoroutineOK(g) ==
    sql[g] # 0 /\ opened[call[g].store] = gen /\ migrated => sql[g] = ordinal[call[g].id]

NamesOK == (\A k \in Stores : StoreOK(k)) /\ (\A g \in Goroutines : GoroutineOK(g))

\* Tables that are not there hold nothing, and those of a log hold its entries,
\* if no Store and no creator has outlived the registry it knew.
HoldsOK ==
    /\ \A o \in Ordinals : o \notin tables => held[o] = {}
    /\ ~disturbed /\ ~survived =>
          \A id \in LogIDs : ordinal[id] # 0 => held[ordinal[id]] \subseteq {<<id, gen>>}

CacheInv == SchemaInv /\ CallsOK /\ NamesOK /\ HoldsOK

\* The facts about types that the steps below share.
LEMMA CacheTypes ==
    ASSUME SchemaInv, CallsOK
    PROVE  /\ MaxGen \in Nat /\ MaxOrdinal \in Nat /\ gen \in 0 .. MaxGen
           /\ ordinal \in [LogIDs -> 0 .. MaxOrdinal] /\ tables \subseteq Ordinals
           /\ opened \in [Stores -> 0 .. MaxGen] /\ sql \in [Goroutines -> 0 .. MaxOrdinal]
           /\ appends \in [Stores -> [LogIDs -> 0 .. MaxOrdinal]]
           /\ step \in [Goroutines -> Steps] /\ call \in [Goroutines -> Calls \union {NoCall}]
           /\ \A g \in Goroutines : step[g] # "idle" =>
                 /\ call[g].store \in Stores /\ call[g].id \in LogIDs
                 /\ call[g].op \in {"append", "fence"}
           /\ \A id \in LogIDs : ordinal[id] # 0 => migrated /\ ordinal[id] \in tables
BY BatchFacts DEF SchemaInv, RegistryInv, TypeOK, RowsOK, TablesOK, CallsOK, CacheTypeOK, Calls

\* A step of the registry, beside which the Stores do nothing.
LEMMA RegistryMoves ==
    ASSUME CacheInv, Next, UNCHANGED cache
    PROVE  CallsOK' /\ NamesOK' /\ HoldsOK'
<1>. USE CacheTypes DEF CacheInv
<1>1. UNCHANGED <<opened, appends, step, call, sql, survived>>
  BY DEF cache
<1>2. gen' \in 0 .. MaxGen /\ gen <= gen' /\ (migrated' => gen' > 0)
  BY GenStep DEF CallsOK
<1>3. CallsOK'
  <2>1. held' \in [Ordinals -> SUBSET (LogIDs \X (1 .. MaxGen))]
    BY HeldStep DEF CallsOK, CacheTypeOK
  <2>2. CacheTypeOK'
    BY <1>1, <2>1 DEF CallsOK, CacheTypeOK
  <2>3. \A k \in Stores : opened'[k] <= gen'
    BY <1>1, <1>2 DEF CallsOK
  <2>. QED
    BY <1>1, <1>2, <2>2, <2>3 DEF CallsOK
<1>4. NamesOK'
  <2>1. \A id \in LogIDs : ordinal[id] # 0 /\ migrated' => ordinal'[id] = ordinal[id]
    BY RowsStay DEF SchemaInv
  <2>2. \A k \in Stores : opened[k] = gen' /\ migrated' => opened[k] = gen /\ migrated
    BY GenStep DEF CallsOK
  <2>3. ASSUME NEW k \in Stores PROVE StoreOK(k)'
    BY <1>1, <2>1, <2>2 DEF NamesOK, StoreOK
  <2>4. ASSUME NEW g \in Goroutines PROVE GoroutineOK(g)'
    <3>. SUFFICES ASSUME sql[g] # 0, opened[call[g].store] = gen', migrated'
                  PROVE  sql[g] = ordinal'[call[g].id]
      BY <1>1 DEF GoroutineOK
    <3>1. call[g].store \in Stores /\ call[g].id \in LogIDs
      BY DEF CallsOK
    <3>2. sql[g] = ordinal[call[g].id]
      BY <2>2, <3>1 DEF NamesOK, GoroutineOK
    <3>. QED
      BY <2>1, <3>1, <3>2
  <2>. QED
    BY <2>3, <2>4 DEF NamesOK
<1>5. HoldsOK'
  <2>1. \A o \in Ordinals : o \notin tables' => held'[o] = {}
    BY HeldStep DEF HoldsOK
  <2>2. ASSUME ~disturbed', ~survived', NEW id \in LogIDs, ordinal'[id] # 0
        PROVE  held'[ordinal'[id]] \subseteq {<<id, gen'>>}
    <3>1. held' = held
      BY <2>2, HeldStep
    <3>2. migrated' /\ SchemaInv'
      BY <2>2, SchemaStep DEF CacheNext, SchemaInv, RegistryInv, RowsOK
    <3>3. ~disturbed
      BY <2>2 DEF Next, Proceed, Migrate, CreateLogs, InsertRow, CreateTables, Commit,
         DeadlockDetected, LockRegistry, DropTables, Rollback, Drop, Down, List
    <3>4. CASE ordinal[id] # 0
      <4>1. ordinal'[id] = ordinal[id]
        BY <3>2, <3>4, RowsStay DEF SchemaInv
      <4>2. gen' = gen
        BY <3>4, GenStep
      <4>. QED
        BY <1>1, <2>2, <3>1, <3>3, <3>4, <4>1, <4>2 DEF HoldsOK
    <3>5. CASE ordinal[id] = 0
      <4>1. PICK s \in Sessions : Commit(s)
        <5>1. ASSUME NEW s \in Sessions, DropTables(s) PROVE FALSE
          BY <2>2, <5>1, NoneFacts DEF DropTables
        <5>. QED
          BY <2>2, <3>5, <5>1 DEF Next, Proceed, Migrate, CreateLogs, InsertRow,
             CreateTables, DeadlockDetected, LockRegistry, Rollback, Drop, Down, List, schema
      <4>2. ordinal'[id] = mine[s][id] /\ mine[s][id] # 0
        BY <2>2, <3>5, <4>1, CommitRows DEF SchemaInv
      <4>3. \A jd \in LogIDs : ordinal[jd] # mine[s][id]
        BY <4>2 DEF SchemaInv, RegistryInv, RowsOK
      <4>4. ordinal'[id] \notin tables
        BY <3>3, <4>2, <4>3 DEF SchemaInv, TablesOK, OrdinalsOf
      <4>5. ordinal'[id] \in Ordinals
        BY <4>2, BatchFacts DEF SchemaInv, RegistryInv, TypeOK, Ordinals
      <4>. QED
        BY <3>1, <4>4, <4>5 DEF HoldsOK
    <3>. QED
      BY <3>4, <3>5
  <2>. QED
    BY <2>1, <2>2 DEF HoldsOK
<1>. QED
  BY <1>3, <1>4, <1>5
\* A goroutine's step towards its append, that touches neither the registry nor
\* the caches, nor any other goroutine.
LEMMA GoroutineMoves ==
    ASSUME CacheInv, NEW g \in Goroutines, NEW p \in Steps, NEW o \in 0 .. MaxOrdinal,
           NEW c \in Calls \union {NoCall},
           UNCHANGED <<vars, opened, survived>>,
           step' = [step EXCEPT ![g] = p], sql' = [sql EXCEPT ![g] = o],
           call' = [call EXCEPT ![g] = c],
           p # "idle" => c \in Calls,
           o # 0 <=> p \in {"remember", "store", "append"},
           o # 0 /\ opened[c.store] = gen /\ migrated => o = ordinal[c.id],
           appends' \in [Stores -> [LogIDs -> 0 .. MaxOrdinal]],
           \A k \in Stores : StoreOK(k)'
    PROVE  CallsOK' /\ NamesOK' /\ HoldsOK'
<1>. USE CacheTypes DEF CacheInv
<1>1. UNCHANGED <<gen, migrated, ordinal, tables, held, disturbed, opened, survived>>
  BY DEF vars
<1>2. step'[g] = p /\ sql'[g] = o /\ call'[g] = c
  OBVIOUS
<1>3. \A f \in Goroutines : f # g => step'[f] = step[f] /\ sql'[f] = sql[f] /\ call'[f] = call[f]
  OBVIOUS
<1>4. CallsOK'
  <2>1. /\ step' \in [Goroutines -> Steps] /\ call' \in [Goroutines -> Calls \union {NoCall}]
        /\ sql' \in [Goroutines -> 0 .. MaxOrdinal]
    OBVIOUS
  <2>2. ASSUME NEW f \in Goroutines
        PROVE  /\ step'[f] \in {"remember", "store", "append"} => sql'[f] # 0 /\ call'[f] \in Calls
               /\ step'[f] # "idle" => call'[f] \in Calls
               /\ sql'[f] # 0 => step'[f] \in {"remember", "store", "append"}
    BY <1>2, <1>3 DEF CallsOK, CacheTypeOK
  <2>. QED
    BY <1>1, <2>1, <2>2 DEF CallsOK, CacheTypeOK
<1>5. NamesOK'
  <2>1. ASSUME NEW f \in Goroutines PROVE GoroutineOK(f)'
    BY <1>1, <1>2, <1>3 DEF NamesOK, GoroutineOK
  <2>. QED
    BY <2>1 DEF NamesOK
<1>6. HoldsOK'
  BY <1>1 DEF HoldsOK
<1>. QED
  BY <1>4, <1>5, <1>6

\* The Stores keep what they have when no cache changes.
LEMMA StoresKept ==
    ASSUME CacheInv, UNCHANGED <<vars, opened, appends>>
    PROVE  /\ appends' \in [Stores -> [LogIDs -> 0 .. MaxOrdinal]]
           /\ \A k \in Stores : StoreOK(k)'
BY CacheTypes DEF CacheInv, vars, NamesOK, StoreOK

\* Open: a Store with nothing cached, that no goroutine is using.
LEMMA OpenMoves ==
    ASSUME CacheInv, NEW k \in Stores, Open(k)
    PROVE  CallsOK' /\ NamesOK' /\ HoldsOK'
<1>. USE CacheTypes DEF CacheInv
<1>1. /\ UNCHANGED <<gen, migrated, ordinal, tables, held, disturbed, survived, step, call, sql>>
      /\ opened' = [opened EXCEPT ![k] = gen] /\ appends' = [appends EXCEPT ![k] = None]
      /\ \A g \in Goroutines : step[g] # "idle" => call[g].store # k
  BY DEF Open, vars
<1>2. CallsOK'
  <2>1. /\ opened' \in [Stores -> 0 .. MaxGen]
        /\ appends' \in [Stores -> [LogIDs -> 0 .. MaxOrdinal]]
    BY <1>1, NoneFacts
  <2>2. \A j \in Stores : opened'[j] <= gen
    BY <1>1 DEF CallsOK
  <2>. QED
    BY <1>1, <2>1, <2>2 DEF CallsOK, CacheTypeOK
<1>3. NamesOK'
  <2>1. ASSUME NEW j \in Stores PROVE StoreOK(j)'
    BY <1>1, NoneFacts DEF NamesOK, StoreOK
  <2>2. ASSUME NEW g \in Goroutines PROVE GoroutineOK(g)'
    <3>. SUFFICES ASSUME sql[g] # 0, opened'[call[g].store] = gen, migrated
                  PROVE  sql[g] = ordinal[call[g].id]
      BY <1>1 DEF GoroutineOK
    <3>1. call[g].store \in Stores /\ call[g].store # k
      BY <1>1 DEF CallsOK
    <3>. QED
      BY <1>1, <3>1 DEF NamesOK, GoroutineOK
  <2>. QED
    BY <2>1, <2>2 DEF NamesOK
<1>4. HoldsOK'
  BY <1>1 DEF HoldsOK
<1>. QED
  BY <1>2, <1>3, <1>4

\* An append that runs puts its entry where its statement says: into its own log,
\* if its Store was opened over this registry.
LEMMA AppendMoves ==
    ASSUME CacheInv, NEW g \in Goroutines, ExecAppend(g)
    PROVE  CallsOK' /\ NamesOK' /\ HoldsOK'
<1>. USE CacheTypes DEF CacheInv
<1>1. /\ UNCHANGED <<gen, migrated, ordinal, tables, disturbed, opened, appends>>
      /\ step[g] = "append"
      /\ step' = [step EXCEPT ![g] = "idle"] /\ sql' = [sql EXCEPT ![g] = 0]
      /\ call' = [call EXCEPT ![g] = NoCall]
  BY DEF ExecAppend, Done
<1>2. /\ call[g].store \in Stores /\ call[g].id \in LogIDs /\ sql[g] # 0
  BY <1>1 DEF CallsOK, CacheTypeOK
<1>. DEFINE id == call[g].id
<1>3. \/ held' = held /\ survived' = survived
      \/ /\ sql[g] \in tables /\ ordinal[id] # 0
         /\ held' = [held EXCEPT ![sql[g]] = @ \union {<<id, gen>>}]
         /\ survived' = (survived \/ opened[call[g].store] # gen)
  BY DEF ExecAppend
<1>4. CallsOK'
  <2>1. gen \in 0 .. MaxGen /\ (ordinal[id] # 0 => gen \in 1 .. MaxGen)
    BY <1>2 DEF CallsOK
  <2>2. held' \in [Ordinals -> SUBSET (LogIDs \X (1 .. MaxGen))]
    BY <1>2, <1>3, <2>1 DEF CallsOK, CacheTypeOK
  <2>3. survived' \in BOOLEAN
    BY <1>3 DEF CallsOK, CacheTypeOK
  <2>4. /\ step' \in [Goroutines -> Steps] /\ call' \in [Goroutines -> Calls \union {NoCall}]
        /\ sql' \in [Goroutines -> 0 .. MaxOrdinal]
    BY <1>1 DEF Steps
  <2>5. ASSUME NEW f \in Goroutines
        PROVE  /\ step'[f] \in {"remember", "store", "append"} => sql'[f] # 0 /\ call'[f] \in Calls
               /\ step'[f] # "idle" => call'[f] \in Calls
               /\ sql'[f] # 0 => step'[f] \in {"remember", "store", "append"}
    BY <1>1 DEF CallsOK, CacheTypeOK
  <2>. QED
    BY <1>1, <2>2, <2>3, <2>4, <2>5 DEF CallsOK, CacheTypeOK
<1>5. NamesOK'
  <2>1. \A f \in Goroutines : sql'[f] # 0 => sql'[f] = sql[f] /\ call'[f] = call[f]
    BY <1>1
  <2>. QED
    BY <1>1, <2>1 DEF NamesOK, StoreOK, GoroutineOK
<1>6. HoldsOK'
  <2>1. CASE held' = held /\ survived' = survived
    BY <1>1, <2>1 DEF HoldsOK
  <2>2. CASE /\ sql[g] \in tables /\ ordinal[id] # 0
             /\ held' = [held EXCEPT ![sql[g]] = @ \union {<<id, gen>>}]
             /\ survived' = (survived \/ opened[call[g].store] # gen)
    <3>1. held \in [Ordinals -> SUBSET (LogIDs \X (1 .. MaxGen))] /\ sql[g] \in Ordinals
      BY <2>2 DEF CallsOK, CacheTypeOK
    <3>2. \A o \in Ordinals : o \notin tables' => held'[o] = {}
      BY <1>1, <2>2, <3>1 DEF HoldsOK
    <3>3. ASSUME ~disturbed', ~survived', NEW jd \in LogIDs, ordinal'[jd] # 0
          PROVE  held'[ordinal'[jd]] \subseteq {<<jd, gen'>>}
      <4>1. ~disturbed /\ ~survived /\ opened[call[g].store] = gen /\ ordinal[jd] # 0
        BY <1>1, <2>2, <3>3
      <4>2. sql[g] = ordinal[id]
        BY <1>2, <2>2, <4>1 DEF NamesOK, GoroutineOK
      <4>3. held[ordinal[jd]] \subseteq {<<jd, gen>>} /\ ordinal[jd] \in Ordinals
        BY <4>1 DEF HoldsOK
      <4>4. ordinal[jd] = ordinal[id] => jd = id
        BY <1>2, <2>2 DEF SchemaInv, RegistryInv, RowsOK
      <4>5. CASE jd = id
        BY <1>1, <2>2, <3>1, <4>2, <4>3, <4>5
      <4>6. CASE jd # id
        BY <1>1, <2>2, <3>1, <4>2, <4>3, <4>4, <4>6
      <4>. QED
        BY <4>5, <4>6
    <3>. QED
      BY <3>2, <3>3 DEF HoldsOK
  <2>. QED
    BY <1>3, <2>1, <2>2
<1>. QED
  BY <1>4, <1>5, <1>6

\* All of it is inductive.
LEMMA CacheStep == CacheInv /\ [CacheNext]_cacheVars => CacheInv'
<1>. SUFFICES ASSUME CacheInv, [CacheNext]_cacheVars PROVE CacheInv'
  OBVIOUS
<1>. USE CacheTypes DEF CacheInv
<1>0. SchemaInv'
  BY SchemaStep
<1>1. ASSUME NEW g \in Goroutines, NEW c \in Calls, Begin(g, c)
      PROVE  CallsOK' /\ NamesOK' /\ HoldsOK'
  <2>1. c.store \in Stores /\ c.id \in LogIDs
    BY DEF Calls
  <2>2. CASE c.op = "append" /\ appends[c.store][c.id] # 0
    <3>1. opened[c.store] = gen /\ migrated => appends[c.store][c.id] = ordinal[c.id]
      BY <2>1, <2>2 DEF NamesOK, StoreOK
    <3>2. /\ step' = [step EXCEPT ![g] = "append"] /\ call' = [call EXCEPT ![g] = c]
          /\ sql' = [sql EXCEPT ![g] = appends[c.store][c.id]]
          /\ UNCHANGED <<vars, opened, appends, survived>>
      BY <1>1, <2>2 DEF Begin
    <3>3. "append" \in Steps /\ appends[c.store][c.id] \in 0 .. MaxOrdinal
      BY <2>1 DEF Steps
    <3>4. /\ appends' \in [Stores -> [LogIDs -> 0 .. MaxOrdinal]]
          /\ \A k \in Stores : StoreOK(k)'
      BY <3>2, StoresKept
    <3>. HIDE DEF CacheInv
    <3>. QED
      BY ONLY CacheInv, g \in Goroutines, c \in Calls, <2>2, <3>1, <3>2, <3>3, <3>4, GoroutineMoves
  <2>3. CASE ~(c.op = "append" /\ appends[c.store][c.id] # 0)
    <3>1. /\ step' = [step EXCEPT ![g] = "lookup"] /\ call' = [call EXCEPT ![g] = c]
          /\ sql' = [sql EXCEPT ![g] = 0] /\ UNCHANGED <<vars, opened, appends, survived>>
      BY <1>1, <2>3 DEF Begin
    <3>2. "lookup" \in Steps /\ 0 \in 0 .. MaxOrdinal
      BY DEF Steps
    <3>3. /\ appends' \in [Stores -> [LogIDs -> 0 .. MaxOrdinal]]
          /\ \A k \in Stores : StoreOK(k)'
      BY <3>1, StoresKept
    <3>. HIDE DEF CacheInv
    <3>. QED
      BY ONLY CacheInv, g \in Goroutines, c \in Calls, <3>1, <3>2, <3>3, GoroutineMoves
  <2>. QED
    BY <2>2, <2>3
<1>2. ASSUME NEW g \in Goroutines, Done(g), UNCHANGED <<vars, opened, survived>>,
             appends' \in [Stores -> [LogIDs -> 0 .. MaxOrdinal]],
             \A k \in Stores : StoreOK(k)'
      PROVE  CallsOK' /\ NamesOK' /\ HoldsOK'
  <2>1. "idle" \in Steps /\ 0 \in 0 .. MaxOrdinal
    BY DEF Steps
  <2>. HIDE DEF CacheInv
  <2>. QED
    BY ONLY CacheInv, g \in Goroutines, <1>2, <2>1, GoroutineMoves DEF Done
<1>3. ASSUME NEW g \in Goroutines, step[g] # "idle",
             NEW p \in {"remember", "store", "append"}, NEW o \in 1 .. MaxOrdinal, Go(g, p, o),
             opened[call[g].store] = gen /\ migrated => o = ordinal[call[g].id],
             UNCHANGED <<vars, opened, survived>>,
             appends' \in [Stores -> [LogIDs -> 0 .. MaxOrdinal]],
             \A k \in Stores : StoreOK(k)'
      PROVE  CallsOK' /\ NamesOK' /\ HoldsOK'
  <2>1. call' = [call EXCEPT ![g] = call[g]] /\ call[g] \in Calls
    BY <1>3 DEF Go, CallsOK
  <2>2. p \in Steps /\ p # "idle" /\ o \in 0 .. MaxOrdinal /\ o # 0
    BY DEF Steps
  <2>3. step' = [step EXCEPT ![g] = p] /\ sql' = [sql EXCEPT ![g] = o]
    BY <1>3 DEF Go
  <2>. HIDE DEF CacheInv
  <2>. QED
    BY ONLY CacheInv, g \in Goroutines, p \in {"remember", "store", "append"}, <1>3, <2>1, <2>2,
       <2>3, GoroutineMoves
<1>4. ASSUME NEW g \in Goroutines, LookUp(g) PROVE CallsOK' /\ NamesOK' /\ HoldsOK'
  <2>1. step[g] = "lookup" /\ UNCHANGED <<vars, opened, appends, survived>>
    BY <1>4 DEF LookUp
  <2>2. CASE Done(g)
    BY <1>2, <2>1, <2>2, StoresKept
  <2>3. CASE Found(call[g].id) # 0 /\ Go(g, "remember", Found(call[g].id))
    <3>1. ordinal[call[g].id] \in 1 .. MaxOrdinal
      BY <2>1, <2>3 DEF Found
    <3>. QED
      BY <1>3, <2>1, <2>3, <3>1, StoresKept DEF Found
  <2>. QED
    BY <1>4, <2>2, <2>3 DEF LookUp
<1>5. ASSUME NEW g \in Goroutines, Remember(g) PROVE CallsOK' /\ NamesOK' /\ HoldsOK'
  <2>1. /\ step[g] = "remember" /\ UNCHANGED <<vars, opened, appends, survived>>
        /\ sql[g] \in 1 .. MaxOrdinal /\ call[g].store \in Stores /\ call[g].id \in LogIDs
    BY <1>5 DEF Remember, CallsOK, CacheTypeOK
  <2>2. CASE Go(g, "store", sql[g])
    <3>1. opened[call[g].store] = gen /\ migrated => sql[g] = ordinal[call[g].id]
      BY <2>1 DEF NamesOK, GoroutineOK
    <3>. QED
      BY <1>3, <2>1, <2>2, <3>1, StoresKept
  <2>3. CASE Cached(g) # 0 /\ Go(g, "append", Cached(g))
    <3>1. Cached(g) \in 1 .. MaxOrdinal
      BY <2>1, <2>3 DEF Cached
    <3>2. opened[call[g].store] = gen /\ migrated => Cached(g) = ordinal[call[g].id]
      BY <2>1, <2>3 DEF NamesOK, StoreOK, Cached
    <3>. QED
      BY <1>3, <2>1, <2>3, <3>1, <3>2, StoresKept
  <2>4. CASE Done(g)
    BY <1>2, <2>1, <2>4, StoresKept
  <2>. QED
    BY <1>5, <2>2, <2>3, <2>4 DEF Remember
<1>6. ASSUME NEW g \in Goroutines, StoreStatement(g) PROVE CallsOK' /\ NamesOK' /\ HoldsOK'
  <2>1. /\ step[g] = "store" /\ UNCHANGED <<vars, opened, survived>>
        /\ sql[g] \in 1 .. MaxOrdinal /\ call[g].store \in Stores /\ call[g].id \in LogIDs
        /\ appends' = [appends EXCEPT ![call[g].store][call[g].id] = sql[g]]
    BY <1>6 DEF StoreStatement, CallsOK, CacheTypeOK
  <2>2. opened[call[g].store] = gen /\ migrated => sql[g] = ordinal[call[g].id]
    BY <2>1 DEF NamesOK, GoroutineOK
  <2>3. appends' \in [Stores -> [LogIDs -> 0 .. MaxOrdinal]]
    BY <2>1
  <2>4. ASSUME NEW k \in Stores PROVE StoreOK(k)'
    BY <2>1, <2>2 DEF NamesOK, StoreOK, vars
  <2>. QED
    BY <1>2, <1>3, <1>6, <2>1, <2>2, <2>3, <2>4 DEF StoreStatement
<1>7. ASSUME UNCHANGED cacheVars PROVE CallsOK' /\ NamesOK' /\ HoldsOK'
  BY <1>7 DEF cacheVars, CallsOK, CacheTypeOK, NamesOK, StoreOK, GoroutineOK, HoldsOK
<1>8. CallsOK' /\ NamesOK' /\ HoldsOK'
  BY <1>1, <1>4, <1>5, <1>6, <1>7, RegistryMoves, OpenMoves, AppendMoves DEF CacheNext
<1>. QED
  BY <1>0, <1>8

\* It holds of an empty schema and Stores that are not open yet.
LEMMA CacheInitially == CacheInit => CacheInv
<1>. SUFFICES ASSUME CacheInit PROVE CacheInv
  OBVIOUS
<1>1. SchemaInv
  BY RegistryInit, TablesInit DEF CacheInit, SchemaInv
<1>2. CallsOK
  <2>1. /\ opened \in [Stores -> 0 .. MaxGen] /\ gen = 0 /\ ~migrated
        /\ sql \in [Goroutines -> 0 .. MaxOrdinal]
    BY BatchFacts DEF CacheInit, Init
  <2>2. /\ appends \in [Stores -> [LogIDs -> 0 .. MaxOrdinal]] /\ survived \in BOOLEAN
        /\ held \in [Ordinals -> SUBSET (LogIDs \X (1 .. MaxGen))]
    BY NoneFacts DEF CacheInit, Init
  <2>3. step \in [Goroutines -> Steps] /\ call \in [Goroutines -> Calls \union {NoCall}]
    BY DEF CacheInit, Steps
  <2>4. /\ \A k \in Stores : opened[k] = 0
        /\ \A g \in Goroutines : step[g] = "idle" /\ sql[g] = 0
    BY DEF CacheInit
  <2>. QED
    BY <2>1, <2>2, <2>3, <2>4 DEF CallsOK, CacheTypeOK
<1>3. NamesOK
  BY DEF CacheInit, Init, NamesOK, StoreOK, GoroutineOK
<1>4. HoldsOK
  BY NoneFacts DEF CacheInit, Init, HoldsOK
<1>. QED
  BY <1>1, <1>2, <1>3, <1>4 DEF CacheInv

\* Nothing invalidates a cached append statement (store.go's remember), and nothing
\* needs to: what a Store opened over this registry has cached for a log, or is
\* about to cache or run, names that log's own tables.
THEOREM StatementNamesOwnTablesCorrect == CacheSpec => []StatementNamesOwnTables
<1>1. CacheInv => StatementNamesOwnTables
  BY DEF CacheInv, CallsOK, NamesOK, StoreOK, GoroutineOK, StatementNamesOwnTables
<1>. QED
  BY <1>1, CacheInitially, CacheStep, PTL DEF CacheSpec

\* A log's tables hold what was appended to it since it was created and nothing
\* else, if Drop found the schema quiet and its users opened again afterwards,
\* although the ordinals start again with every Migrate.
THEOREM LogHoldsItsOwnCorrect == CacheSpec => []LogHoldsItsOwn
<1>1. CacheInv => LogHoldsItsOwn
  BY DEF CacheInv, HoldsOK, LogHoldsItsOwn, Registered
<1>. QED
  BY <1>1, CacheInitially, CacheStep, PTL DEF CacheSpec

================================================================================

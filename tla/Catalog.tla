------------------------------ MODULE Catalog ------------------------------
(***************************************************************************)
(* Tables, their AUTO_INCREMENT sequences and their database, as MariaDB's *)
(* dictionary and as DuckDB's catalog know them.  ha_duckdb::create,       *)
(* delete_table, rename_table and truncate and duckdb_drop_database run    *)
(* their statements on the session's connection, in the transaction that   *)
(* duckdb_register_trx began; MariaDB commits it at the end of the         *)
(* statement, after its own dictionary has changed.                        *)
(*                                                                         *)
(* A sequence is named after its table.  MariaDB draws ids from the        *)
(* sequence of the table's present name, the default of the DuckDB column  *)
(* from the sequence it was created with.                                  *)
(***************************************************************************)
EXTENDS Integers, FiniteSets

CONSTANTS
    Names,      \* table names of the database
    Starts,     \* AUTO_INCREMENT start values of CREATE TABLE
    MaxId,      \* bound: no id is drawn past it
    MaxDdl,     \* bound on the DDL statements of a behaviour
    None

ASSUME BoundAssumption == MaxId \in Nat /\ MaxDdl \in Nat
ASSUME StartAssumption == Starts \subseteq 1 .. MaxId

VARIABLES
    db,         \* MariaDB has the database
    frm,        \* MariaDB's tables: "absent", "plain" or "auto"
    committed,  \* DuckDB's catalog, as committed
    work,       \* the catalog in the statement's transaction, None outside
    ddls,       \* number of DDL statements
    moved,      \* history: names a rename of an AUTO_INCREMENT table touched
    dups,       \* history: tables that got an id they already had
    lost,       \* history: DuckDB lost work the dictionary has kept
    dropping,   \* a DROP DATABASE is dropping the tables
    doomed      \* the statement's transaction can only be rolled back

catalogVars ==
    <<db, frm, committed, work, ddls, moved, dups, lost, dropping, doomed>>

(* A DuckDB catalog: schema tells whether the schema exists, tables maps a
   name to its rows (ids) and default sequence, sequences to the next value,
   0 without a sequence. *)
Catalogs ==
    [schema : BOOLEAN,
     tables : [Names -> [rows : SUBSET Nat, seq : Names \cup {None}, exists : BOOLEAN]],
     sequences : [Names -> Nat]]

ASSUME NoneAssumption == None \notin Names /\ None \notin Catalogs

Absent == [rows |-> {}, seq |-> None, exists |-> FALSE]

EmptyCatalog ==
    [schema |-> FALSE, tables |-> [t \in Names |-> Absent],
     sequences |-> [t \in Names |-> 0]]

Idle == work = None /\ ~lost

---------------------------------------------------------------------------
(* The statements on a catalog *)

(* Mutant: one sequence for the whole database. *)
CreateTranslateShared(cat, t, auto, start) ==
    LET s == CHOOSE n \in Names : TRUE
    IN [schema |-> TRUE,
        sequences |-> IF auto /\ cat.sequences[s] = 0
                      THEN [cat.sequences EXCEPT ![s] = start] ELSE cat.sequences,
        tables |-> [cat.tables EXCEPT ![t] =
                       [rows |-> {}, seq |-> IF auto THEN s ELSE None, exists |-> TRUE]]]

(* CREATE SCHEMA, CREATE SEQUENCE and CREATE TABLE, all IF NOT EXISTS. *)
CreateTranslate(cat, t, auto, start) ==
    [schema |-> TRUE,
     sequences |-> IF auto /\ cat.sequences[t] = 0
                   THEN [cat.sequences EXCEPT ![t] = start] ELSE cat.sequences,
     tables |-> IF cat.tables[t].exists THEN cat.tables
                ELSE [cat.tables EXCEPT ![t] =
                         [rows |-> {}, seq |-> IF auto THEN t ELSE None,
                          exists |-> TRUE]]]

(* DROP TABLE IF EXISTS. *)
DropTable(cat, t) == [cat EXCEPT !.tables[t] = Absent]

(* A sequence some column default uses cannot be dropped (external). *)
SequenceInUse(cat, t) ==
    cat.sequences[t] # 0 /\ \E u \in Names : cat.tables[u].seq = t

(* DROP SEQUENCE IF EXISTS, of the name derived from the table's. *)
DropSequence(cat, t) == [cat EXCEPT !.sequences[t] = 0]

(* ALTER TABLE ... RENAME TO: the column default keeps its sequence. *)
RenameTranslate(cat, t, u) ==
    [cat EXCEPT !.tables = [@ EXCEPT ![u] = cat.tables[t], ![t] = Absent]]

(* nextval(): the id, and the catalog afterwards. *)
NextVal(cat, s) == [cat EXCEPT !.sequences[s] = @ + 1]

---------------------------------------------------------------------------
(* The handler calls, each inside the transaction of its statement *)

StartDdl ==
    /\ Idle
    /\ ddls < MaxDdl
    /\ ddls' = ddls + 1
    /\ UNCHANGED doomed

(* ha_duckdb::create *)
create(t, auto, start) ==
    /\ StartDdl
    /\ db
    /\ frm[t] = "absent"
    /\ work' = CreateTranslate(committed, t, auto, start)
    /\ frm' = [frm EXCEPT ![t] = IF auto THEN "auto" ELSE "plain"]
    /\ UNCHANGED <<db, committed, moved, dups, lost, dropping>>

(* Mutant: the sequence is left to the next CREATE TABLE. *)
delete_tableKeepsSequence(t) ==
    /\ StartDdl
    /\ frm[t] # "absent"
    /\ work' = DropTable(committed, t)
    /\ frm' = [frm EXCEPT ![t] = "absent"]
    /\ UNCHANGED <<db, committed, moved, dups, lost, dropping>>

(* ha_duckdb::delete_table: the table, then its sequence. *)
delete_table(t) ==
    LET dropped == DropTable(committed, t)
    IN /\ StartDdl
       /\ frm[t] # "absent"
       /\ ~SequenceInUse(dropped, t)
       /\ work' = DropSequence(dropped, t)
       /\ frm' = [frm EXCEPT ![t] = "absent"]
       /\ UNCHANGED <<db, committed, moved, dups, lost, dropping>>

(* Mutant: no transaction around the two DROPs. *)
delete_tableFailsHalfway(t) ==
    /\ StartDdl
    /\ frm[t] # "absent"
    /\ SequenceInUse(DropTable(committed, t), t)
    /\ committed' = DropTable(committed, t)
    /\ UNCHANGED <<db, frm, work, moved, dups, lost, dropping>>

(* DROP SEQUENCE fails: delete_table returns an error, MariaDB keeps its
   definition and rolls the statement back, the dropped table included. *)
delete_tableFails(t) ==
    /\ StartDdl
    /\ frm[t] # "absent"
    /\ SequenceInUse(DropTable(committed, t), t)
    /\ UNCHANGED <<db, frm, committed, work, moved, dups, lost, dropping>>

(* ha_duckdb::rename_table, within the database. *)
rename_table(t, u) ==
    /\ StartDdl
    /\ frm[t] # "absent" /\ frm[u] = "absent"
    /\ committed.tables[t].exists /\ ~committed.tables[u].exists
    /\ work' = RenameTranslate(committed, t, u)
    /\ frm' = [frm EXCEPT ![u] = frm[t], ![t] = "absent"]
    /\ moved' = IF frm[t] = "auto" THEN moved \cup {t, u} ELSE moved
    /\ UNCHANGED <<db, committed, dups, lost, dropping>>

(* ha_duckdb::truncate: the sequence goes on. *)
truncate(t) ==
    /\ StartDdl
    /\ frm[t] # "absent"
    /\ committed.tables[t].exists
    /\ work' = [committed EXCEPT !.tables[t].rows = {}]
    /\ UNCHANGED <<db, frm, committed, moved, dups, lost, dropping>>

(* DuckDB fails a statement of create, rename_table or truncate, or a check
   refuses it: duckdb_rollback undoes what the handler had done. *)
HandlerFails ==
    /\ StartDdl
    /\ db
    /\ UNCHANGED <<db, frm, committed, work, moved, dups, lost, dropping>>

CreateDatabase ==
    /\ StartDdl
    /\ ~db
    /\ db' = TRUE
    /\ UNCHANGED <<frm, committed, work, moved, dups, lost, dropping>>

(* DROP DATABASE: MariaDB drops the tables one by one, in any order and all in
   the transaction the first of them begins, and the database at last. *)
StartDropDatabase ==
    /\ StartDdl
    /\ db
    /\ work' = committed
    /\ dropping' = TRUE
    /\ UNCHANGED <<db, frm, committed, moved, dups, lost>>

(* Mutant: the sequence of a table is left to the DROP SCHEMA. *)
DropNextKeepsSequence(t) ==
    /\ dropping
    /\ frm[t] # "absent"
    /\ work' = DropTable(work, t)
    /\ frm' = [frm EXCEPT ![t] = "absent"]
    /\ UNCHANGED <<db, committed, ddls, moved, dups, lost, dropping, doomed>>

(* ha_duckdb::delete_table on the next table. *)
DropNext(t) ==
    LET dropped == DropTable(work, t)
    IN /\ dropping
       /\ frm[t] # "absent"
       /\ ~SequenceInUse(dropped, t)
       /\ work' = DropSequence(dropped, t)
       /\ frm' = [frm EXCEPT ![t] = "absent"]
       /\ UNCHANGED <<db, committed, ddls, moved, dups, lost, dropping, doomed>>

(* delete_table fails on the next table: MariaDB goes on with the others,
   keeps the database and rolls the statement back. *)
DropNextFails(t) ==
    /\ dropping
    /\ frm[t] # "absent"
    /\ SequenceInUse(DropTable(work, t), t)
    /\ doomed' = TRUE
    /\ UNCHANGED <<db, frm, committed, work, ddls, moved, dups, lost, dropping>>

(* Something DROP SCHEMA without CASCADE would have to drop as well. *)
Occupied(cat) == \E t \in Names : cat.tables[t].exists \/ cat.sequences[t] # 0

(* duckdb_drop_database, once the tables are dropped: DROP SCHEMA IF EXISTS
   without CASCADE, in their transaction.  Nobody looks at its error, which
   may leave DuckDB's transaction unable to commit. *)
duckdb_drop_database ==
    /\ dropping
    /\ ~doomed
    /\ \A t \in Names : frm[t] = "absent"
    /\ db' = FALSE
    /\ dropping' = FALSE
    /\ \/ /\ Occupied(work)
          /\ doomed' \in BOOLEAN
          /\ UNCHANGED work
       \/ /\ ~Occupied(work)
          /\ work' = [work EXCEPT !.schema = FALSE]
          /\ UNCHANGED doomed
    /\ UNCHANGED <<frm, committed, ddls, moved, dups, lost>>

(* duckdb_commit at the end of the statement. *)
Commit ==
    /\ work # None
    /\ ~dropping /\ ~doomed
    /\ committed' = work
    /\ work' = None
    /\ UNCHANGED <<db, frm, ddls, moved, dups, lost, dropping, doomed>>

(* The statement's transaction is rolled back, because an error in it or
   duckdb_commit failed, or the server dies before duckdb_commit: DuckDB is
   back at the state before the statement, the dictionary is not. *)
CommitIsLost ==
    /\ work # None
    /\ work' = None
    /\ dropping' = FALSE
    /\ doomed' = FALSE
    /\ lost' = (work # committed)
    /\ UNCHANGED <<db, frm, committed, ddls, moved, dups>>

---------------------------------------------------------------------------
(* Rows with generated ids *)

(* One row of t with the next value of sequence s. *)
InsertFrom(t, s) ==
    LET id == committed.sequences[s]
    IN /\ id \in 1 .. MaxId
       /\ committed' = [NextVal(committed, s) EXCEPT !.tables[t].rows = @ \cup {id}]
       /\ dups' = IF id \in committed.tables[t].rows THEN dups \cup {t} ELSE dups
       /\ UNCHANGED <<db, frm, work, ddls, moved, lost, dropping, doomed>>

(* Mutant: MariaDB counts on its own. *)
write_rowOwnCounter(t) ==
    LET id == Cardinality(committed.tables[t].rows) + 1
    IN /\ Idle
       /\ frm[t] = "auto"
       /\ committed.tables[t].exists
       /\ id \in 1 .. MaxId
       /\ committed' = [committed EXCEPT !.tables[t].rows = @ \cup {id}]
       /\ dups' = IF id \in committed.tables[t].rows THEN dups \cup {t} ELSE dups
       /\ UNCHANGED <<db, frm, work, ddls, moved, lost, dropping, doomed>>

(* INSERT through MariaDB: reserve_autoinc_block names the sequence after the
   table (without one the INSERT is an error and nothing changes). *)
write_row(t) ==
    /\ Idle
    /\ frm[t] = "auto"
    /\ committed.tables[t].exists
    /\ InsertFrom(t, t)

(* INSERT through run_in_duckdb: the default of the column. *)
InsertInDuckdb(t) ==
    /\ Idle
    /\ committed.tables[t].seq # None
    /\ InsertFrom(t, committed.tables[t].seq)

CatalogInit ==
    /\ db = TRUE
    /\ frm = [t \in Names |-> "absent"]
    /\ committed = EmptyCatalog
    /\ work = None
    /\ ddls = 0
    /\ moved = {}
    /\ dups = {}
    /\ lost = FALSE
    /\ dropping = FALSE
    /\ doomed = FALSE

CatalogNext ==
    \/ \E t \in Names :
          \/ \E auto \in BOOLEAN, start \in Starts : create(t, auto, start)
          \/ delete_table(t)
          \/ delete_tableFails(t)
          \/ \E u \in Names : rename_table(t, u)
          \/ truncate(t)
          \/ DropNext(t)
          \/ DropNextFails(t)
          \/ write_row(t)
          \/ InsertInDuckdb(t)
    \/ HandlerFails
    \/ CreateDatabase
    \/ StartDropDatabase
    \/ duckdb_drop_database
    \/ Commit
    \/ CommitIsLost

CatalogSpec == CatalogInit /\ [][CatalogNext]_catalogVars

---------------------------------------------------------------------------

(* The dictionary and DuckDB's catalog name the same tables, and a column of
   DuckDB draws from a sequence exactly when MariaDB's is AUTO_INCREMENT.  The
   only way out is work that DuckDB lost after the dictionary changed: a COMMIT
   that failed, or a DROP DATABASE rolled back for a sequence in use. *)
DictionaryAgrees ==
    Idle => \A t \in Names :
        /\ committed.tables[t].exists <=> frm[t] # "absent"
        /\ committed.tables[t].seq # None <=> frm[t] = "auto"

(* MariaDB and the column default of an AUTO_INCREMENT table draw from one
   existing sequence, the one named after the table, unless the name took
   part in a rename. *)
OneCounterPerTable ==
    Idle => \A t \in Names \ moved :
        frm[t] = "auto" => committed.tables[t].seq = t /\ committed.sequences[t] # 0

(* CREATE SEQUENCE IF NOT EXISTS never finds the sequence of an earlier table
   of that name, so a new table starts at its own AUTO_INCREMENT value: only
   a rename leaves a sequence without its table. *)
NoOrphanSequence ==
    Idle => \A t \in Names \ moved : committed.sequences[t] # 0 => frm[t] = "auto"

(* Ids drawn by MariaDB and ids drawn by DuckDB-side writers never meet in a
   table whose name took part in no rename. *)
IdsUniqueUnlessRenamed == dups \subseteq moved

(* DROP DATABASE drops the schema, although DROP SCHEMA does not cascade and
   its error is ignored: no table or sequence is left to hold it, unless a
   rename stranded one. *)
DroppedDatabaseIsGone ==
    Idle /\ ~db /\ moved = {} => ~committed.schema

=============================================================================

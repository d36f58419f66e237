---------------------------- MODULE SessionConfig ----------------------------
(***************************************************************************)
(* The state a session keeps in its DuckDB connection: the current schema  *)
(* and the settings.  Before a statement whose text is forwarded to        *)
(* DuckDB, config_duckdb_env and config_duckdb_session bring the           *)
(* connection in line with the THD, comparing with values cached in the    *)
(* DuckdbThdContext and not with the connection.                           *)
(***************************************************************************)
EXTENDS FiniteSets

CONSTANTS
    Schemas,     \* databases
    NoSchema,    \* no current database; DuckDB's own schema "main"
    Settings,    \* TimeZone, default_collation, merge_join_threshold, ...
    Values,      \* values of the settings
    Default,     \* the default of the session variables
    Unset,       \* an empty cache entry
    Preset,      \* settings whose cache entry starts as Default
    Global       \* settings that all connections share in DuckDB

ASSUME SchemaAssumption == NoSchema \notin Schemas
ASSUME ValueAssumption == Default \in Values /\ Unset \notin Values
ASSUME PresetAssumption == Preset \subseteq Settings /\ Global \subseteq Settings

VARIABLES
    db,                \* thd->db
    want,              \* the session variables of the THD
    m_current_schema,  \* cached schema
    cached,            \* cached settings
    schema,            \* the connection's current schema
    value,             \* the connection's settings
    pending,           \* schemas of the mixed batches not yet flushed
    trx,               \* the connection's transaction
    foreign,           \* history: a USE that is not config_duckdb_env's, or a
                       \* failed one, came after its last successful one
    adrift             \* history: settings that a cache entry is there for
                       \* although this session's last SET failed, was
                       \* overtaken by another session's, or was never sent

vars == <<db, want, m_current_schema, cached, schema, value, pending, trx,
          foreign, adrift>>

caches == <<m_current_schema, cached>>

(* The type of the state. *)
TypeOK ==
    /\ db \in Schemas \cup {NoSchema}
    /\ want \in [Settings -> Values]
    /\ m_current_schema \in Schemas \cup {NoSchema}
    /\ cached \in [Settings -> Values \cup {Unset}]
    /\ schema \in Schemas \cup {NoSchema}
    /\ value \in [Settings -> Values]
    /\ pending \subseteq Schemas
    /\ trx \in {"none", "active", "aborted"}
    /\ foreign \in BOOLEAN
    /\ adrift \subseteq Settings

CachedInit == [s \in Settings |-> IF s \in Preset THEN Default ELSE Unset]

---------------------------------------------------------------------------
(* The client (external) *)

(* The client changes the current database. *)
ChangeDb(d) ==
    /\ db' = d
    /\ UNCHANGED <<want, caches, schema, value, pending, trx, foreign, adrift>>

(* The client sets a session variable. *)
SetVariable(s, v) ==
    /\ want' = [want EXCEPT ![s] = v]
    /\ UNCHANGED <<db, caches, schema, value, pending, trx, foreign, adrift>>

(* Another session's connection sets a setting that DuckDB keeps for the   *)
(* whole instance.                                                         *)
OtherSessionSets(s, v) ==
    /\ value' = [value EXCEPT ![s] = v]
    /\ adrift' = adrift \cup {s}
    /\ UNCHANGED <<db, want, caches, schema, pending, trx, foreign>>

---------------------------------------------------------------------------
(* config_duckdb_env and config_duckdb_session *)

(* Mutant: the schema is set only once. *)
EnvOnce == m_current_schema = NoSchema /\ db # NoSchema

(* The schema is to be set. *)
EnvChanged == db \notin {NoSchema, m_current_schema}

(* Mutant: a setting that goes back to its default is not sent. *)
ChangedFromDefault(s) == want[s] # cached[s] /\ want[s] # Default

(* The setting is to be sent. *)
SettingChanged(s) == want[s] # cached[s]

(* The cache is updated first; CREATE SCHEMA and USE, and each SET, may    *)
(* then fail, which in a transaction that DuckDB has aborted they all do,  *)
(* and that is only logged.                                                *)
prepare_thd_connection(s0, f0) ==
    LET changed == {s \in Settings : SettingChanged(s)} IN
    \E useFails \in BOOLEAN, failed \in SUBSET changed :
        /\ trx = "aborted" => useFails /\ failed = changed
        /\ m_current_schema' = IF EnvChanged THEN db ELSE m_current_schema
        /\ schema' = IF EnvChanged /\ ~useFails THEN db ELSE s0
        /\ foreign' = IF EnvChanged THEN useFails ELSE f0
        /\ cached' = [s \in Settings |-> IF s \in changed THEN want[s] ELSE cached[s]]
        /\ value' = [s \in Settings |-> IF s \in changed \ failed THEN want[s] ELSE value[s]]
        /\ adrift' = (adrift \ changed) \cup failed
        /\ UNCHANGED <<db, want>>

(* register_trx, and what becomes of the transaction: a statement that     *)
(* fails while it runs aborts it.                                          *)
Execute == trx' \in IF trx = "aborted" THEN {"aborted"} ELSE {"active", "aborted"}

(* A pushed-down SELECT; the text of the statement is sent as it is. *)
init_scan ==
    /\ prepare_thd_connection(schema, foreign)
    /\ Execute
    /\ UNCHANGED pending

(* The schema after flush_appenders, which runs USE for each mixed batch,  *)
(* in the order of the names.                                              *)
Flushed == IF pending = {} THEN {schema} ELSE pending

(* direct_update_rows and direct_delete_rows flush, configure the          *)
(* connection and send the text of the statement.                          *)
direct_rows ==
    /\ pending = {} \/ trx # "aborted"
    /\ \E s \in Flushed : prepare_thd_connection(s, foreign \/ pending # {})
    /\ Execute
    /\ pending' = {}

---------------------------------------------------------------------------
(* Statements that name their schema *)

(* A row of a mixed batch for a table of schema d. *)
append_row(d) ==
    /\ trx # "aborted"
    /\ trx' = "active"
    /\ pending' = pending \cup {d}
    /\ UNCHANGED <<db, want, caches, schema, value, foreign, adrift>>

(* A statement with qualified names (execute_dml, the query of rnd_init)   *)
(* fails in DuckDB.                                                        *)
StatementFails ==
    /\ trx' = "aborted"
    /\ UNCHANGED <<db, want, caches, schema, value, pending, foreign, adrift>>

(* rnd_init flushes the batch before its query. *)
rnd_init ==
    /\ pending = {} \/ trx # "aborted"
    /\ schema' \in Flushed
    /\ foreign' = (foreign \/ pending # {})
    /\ pending' = {}
    /\ Execute
    /\ UNCHANGED <<db, want, caches, value, adrift>>

(* flush_all fails midway and keeps the appenders. *)
FlushFails ==
    /\ pending # {} /\ trx # "aborted"
    /\ schema' \in {schema} \cup pending
    /\ foreign' = TRUE
    /\ trx' = "aborted"
    /\ UNCHANGED <<db, want, caches, value, pending, adrift>>

(* create, truncate and rename_table send USE with the schema of the table *)
(* first.  The server has committed before, and commits or rolls back      *)
(* after the statement.                                                    *)
UseSchema(d) ==
    /\ trx = "none"
    /\ schema' = d
    /\ foreign' = TRUE
    /\ UNCHANGED <<db, want, caches, value, pending, trx, adrift>>

duckdb_commit ==
    /\ trx = "active"
    /\ schema' \in Flushed
    /\ foreign' = (foreign \/ pending # {})
    /\ pending' = {}
    /\ trx' = "none"
    /\ UNCHANGED <<db, want, caches, value, adrift>>

(* The appenders are discarded; schema and settings of a DuckDB connection *)
(* are not part of the transaction.                                        *)
duckdb_rollback ==
    /\ trx # "none"
    /\ pending' = {}
    /\ trx' = "none"
    /\ UNCHANGED <<db, want, caches, schema, value, foreign, adrift>>

(* The client disconnects, and the next one finds a new context, with a    *)
(* connection of its own.  Its settings are DuckDB's: the preset cache     *)
(* entries stand for no SET.                                               *)
duckdb_close_connection ==
    /\ m_current_schema' = NoSchema /\ cached' = CachedInit
    /\ schema' = NoSchema /\ value' \in [Settings -> Values]
    /\ pending' = {} /\ trx' = "none"
    /\ foreign' = FALSE /\ adrift' = Preset
    /\ UNCHANGED <<db, want>>

Init ==
    /\ db \in Schemas \cup {NoSchema}
    /\ want \in [Settings -> Values]
    /\ m_current_schema = NoSchema /\ cached = CachedInit
    /\ schema = NoSchema /\ value \in [Settings -> Values]
    /\ pending = {} /\ trx = "none"
    /\ foreign = FALSE /\ adrift = Preset

Next ==
    \/ \E d \in Schemas : ChangeDb(d) \/ append_row(d) \/ UseSchema(d)
    \/ \E s \in Settings, v \in Values : SetVariable(s, v)
    \/ \E s \in Global, v \in Values : OtherSessionSets(s, v)
    \/ init_scan \/ direct_rows \/ StatementFails \/ rnd_init \/ FlushFails
    \/ duckdb_commit \/ duckdb_rollback \/ duckdb_close_connection

Spec == Init /\ [][Next]_vars

---------------------------------------------------------------------------
(* Properties *)

(* A statement whose text is sent to a transaction that DuckDB still       *)
(* executes.                                                               *)
Forwarded == (init_scan \/ direct_rows) /\ trx # "aborted"

(* A forwarded statement is resolved in the session's database unless      *)
(* another statement's USE, or a failed one, has come between: the cache   *)
(* of config_duckdb_env has no other way to go wrong.                      *)
SchemaStaleOnlyAfterUse ==
    [][Forwarded => (db # NoSchema /\ schema' # db => foreign')]_vars

(* A forwarded statement runs with the session's settings, in whatever     *)
(* order they were changed, but for those whose cache entry in             *)
(* config_duckdb_session stands for no successful SET of this session: its *)
(* last one failed or another session overtook it, or the entry is preset  *)
(* and the variable was never changed.                                     *)
SettingStaleOnlyIfAdrift ==
    [][Forwarded => \A s \in Settings : value'[s] # want[s] => s \in adrift']_vars
=============================================================================

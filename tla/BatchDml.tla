------------------------------ MODULE BatchDml ------------------------------
(***************************************************************************)
(* Row DML of one session: the row operations of ha_duckdb, the batch      *)
(* state and the appenders of its DuckdbThdContext, and the DuckDB         *)
(* transaction they end up in.                                             *)
(*                                                                         *)
(* A row operation is sent to DuckDB as an SQL statement (NOT_IN_BATCH),   *)
(* appended to the target table (IN_INSERT_ONLY_BATCH) or appended to a    *)
(* temporary table of row versions and delete markers (IN_MIX_BATCH) that  *)
(* a flush merges into the target.  DuckDB tables have no key constraint,  *)
(* so a table is a set of rows in which a key may occur more than once.    *)
(*                                                                         *)
(* Statement-level commit and rollback inside a multi-statement            *)
(* transaction return at once in the code and are stuttering steps here.   *)
(***************************************************************************)
EXTENDS Naturals

CONSTANTS
    Tables,      \* the DuckDB tables of the session
    Keys,        \* primary key values
    Vals,        \* values of the columns outside the primary key
    NoVal,       \* the NULLs of a delete marker
    NoPk,        \* the tables that have no primary key
    UniqueKeys,  \* the client never inserts a key that is in use
    AppendFaults,\* the duckdb appender may refuse a row
    RowNoMax,    \* largest value of the INT column #mdb_row_no
    MaxRows      \* bound on the rows one appender takes

ASSUME NoValAssumption == NoVal \notin Vals
ASSUME NoPkAssumption == NoPk \subseteq Tables
ASSUME SwitchesAssumption == UniqueKeys \in BOOLEAN /\ AppendFaults \in BOOLEAN
ASSUME BoundsAssumption == RowNoMax \in Nat /\ MaxRows \in Nat

VARIABLES
    dml_in_batch,  \* the global variable duckdb_dml_in_batch
    batch_state,   \* DuckdbThdContext::batch_state
    appenders,     \* DeltaAppenders::m_append_infos: table -> appender
    trx,           \* where the server is with the session's transaction
    aborted,       \* DuckDB has invalidated the transaction
    base,          \* the tables as the session's DuckDB transaction has them
    committed,     \* the tables as every other connection sees them
    reply          \* the operation the session was last answered

vars ==
    <<dml_in_batch, batch_state, appenders, trx, aborted, base, committed, reply>>

Error == <<"error">>

BatchStates ==
    {"UNDEFINED", "NOT_IN_BATCH", "IN_INSERT_ONLY_BATCH", "IN_MIX_BATCH"}

Row == Keys \X Vals

DeltaRow == [row_no : Nat, key : Keys, ver : Vals \cup {NoVal},
             delete_flag : BOOLEAN]

(* The fields of a DeltaAppender.  `incomplete` says that the duckdb       *)
(* appender holds the first columns of a row that was never ended, and     *)
(* `dropped` that a flush has dropped the temporary table.                 *)
Appender == [open : BOOLEAN, use_tmp_table : BOOLEAN, rows : SUBSET DeltaRow,
             row_count : Nat, has_insert : BOOLEAN, has_delete : BOOLEAN,
             incomplete : BOOLEAN, dropped : BOOLEAN]

(* The type of the state; `reply` only records what was answered. *)
TypeOK ==
    /\ dml_in_batch \in BOOLEAN
    /\ batch_state \in BatchStates
    /\ appenders \in [Tables -> Appender]
    /\ trx \in {"none", "active", "prepared", "failed"}
    /\ aborted \in BOOLEAN
    /\ base \in [Tables -> SUBSET Row]
    /\ committed \in [Tables -> SUBSET Row]

KeysOf(T) == {r[1] : r \in T}

Without(T, K) == {r \in T : r[1] \notin K}

---------------------------------------------------------------------------
(* DeltaAppender *)

NewAppender(use_tmp) ==
    [open |-> TRUE, use_tmp_table |-> use_tmp, rows |-> {}, row_count |-> 0,
     has_insert |-> FALSE, has_delete |-> FALSE, incomplete |-> FALSE,
     dropped |-> FALSE]

Closed == [NewAppender(FALSE) EXCEPT !.open = FALSE]

NoAppenders == [t \in Tables |-> Closed]

append_row_insert(a, k, v) ==
    [a EXCEPT !.row_count = @ + 1, !.has_insert = TRUE,
              !.rows = @ \cup {[row_no |-> a.row_count + 1, key |-> k,
                                ver |-> v, delete_flag |-> FALSE]}]

append_row_delete(a, k) ==
    [a EXCEPT !.row_count = @ + 1, !.has_delete = TRUE,
              !.rows = @ \cup {[row_no |-> a.row_count + 1, key |-> k,
                                ver |-> NoVal, delete_flag |-> TRUE]}]

(* Mutant: an UPDATE appends the new version without the delete marker. *)
UpdateWithoutMarker(a, old, k, v) == append_row_insert(a, k, v)

append_row_update(a, old, k, v) ==
    append_row_insert(append_row_delete(a, old), k, v)

(* The appender has room for n more rows. *)
RoomFor(a, n) ==
    /\ a.row_count + n <= MaxRows
    /\ a.use_tmp_table => a.row_count + n <= RowNoMax

RowsOf(D) == {<<d.key, d.ver>> : d \in D}

DeltaKeys(a) == {d.key : d \in a.rows}

(* Mutant: the query orders ascending. *)
EarliestRows(a) ==
    RowsOf({d \in a.rows :
              /\ \A e \in a.rows : e.key = d.key => e.row_no >= d.row_no
              /\ ~d.delete_flag})

(* The rows appendLatestRowsQuery selects: of each key the version with    *)
(* the greatest row number, unless that one is a delete marker.            *)
appendLatestRowsQuery(a) ==
    RowsOf({d \in a.rows :
              /\ \A e \in a.rows : e.key = d.key => e.row_no <= d.row_no
              /\ ~d.delete_flag})

(* The target table T after a flush of appender a that succeeds. *)
flush(a, T) ==
    IF ~a.use_tmp_table
    THEN T \cup RowsOf(a.rows)
    ELSE LET kept == IF a.has_delete THEN Without(T, DeltaKeys(a)) ELSE T
         IN  IF a.has_insert THEN kept \cup appendLatestRowsQuery(a) ELSE kept

(* The appender after that flush, until flush_all clears the map. *)
Flushed(a) == [a EXCEPT !.rows = {}, !.dropped = a.use_tmp_table]

(* A flush sends DuckDB at least one statement or chunk of rows. *)
FlushWrites(a) == a.use_tmp_table \/ a.rows # {}

CanFlush(a) ==
    /\ ~a.incomplete
    /\ ~a.dropped
    /\ aborted => ~FlushWrites(a)

Open == {t \in Tables : appenders[t].open}

(* What COMMIT would publish of table t. *)
View(t) == IF appenders[t].open THEN flush(appenders[t], base[t]) ELSE base[t]

---------------------------------------------------------------------------
(* DeltaAppenders::flush_all and DuckdbThdContext::flush_appenders *)

CanFlushAll == \A t \in Open : CanFlush(appenders[t])

FlushedBase == [t \in Tables |-> View(t)]

(* flush_appenders returns false: every appender is flushed and removed. *)
FlushAppenders ==
    /\ CanFlushAll
    /\ base' = FlushedBase
    /\ appenders' = NoAppenders
    /\ batch_state' = "UNDEFINED"
    /\ UNCHANGED aborted

(* Mutant: flush_all clears the map when it fails, too. *)
FlushAllFailsAndClears ==
    \E f \in Open : \E done \in SUBSET (Open \ {f}) :
        /\ \A t \in done : CanFlush(appenders[t])
        /\ ~CanFlush(appenders[f])
        /\ base' = [t \in Tables |-> IF t \in done THEN View(t) ELSE base[t]]
        /\ appenders' = NoAppenders
        /\ UNCHANGED <<batch_state, aborted>>

(* flush_all stops at appender f, after those of `done`.  It stops because *)
(* f cannot be flushed any more, or because DuckDB fails a statement of f, *)
(* which invalidates the transaction.  The map keeps all the appenders.    *)
FlushAllFails ==
    \E f \in Open : \E done \in SUBSET (Open \ {f}) :
        /\ \A t \in done : CanFlush(appenders[t])
        /\ \/ ~CanFlush(appenders[f]) /\ UNCHANGED aborted
           \/ CanFlush(appenders[f]) /\ FlushWrites(appenders[f]) /\ aborted' = TRUE
        /\ base' = [t \in Tables |-> IF t \in done THEN View(t) ELSE base[t]]
        /\ appenders' = [t \in Tables |-> IF t \in done THEN Flushed(appenders[t])
                                          ELSE appenders[t]]
        /\ UNCHANGED batch_state

---------------------------------------------------------------------------
(* ha_duckdb::write_row, update_row and delete_row *)

(* get_batch_state: an insert-only batch is flushed before the first       *)
(* UPDATE or DELETE, and the first row operation after a flush chooses the *)
(* kind of batch.                                                          *)
MustFlush(insert_only) == batch_state = "IN_INSERT_ONLY_BATCH" /\ ~insert_only

(* Mutant: every row operation looks at duckdb_dml_in_batch again. *)
BatchStateFromVariable(insert_only) ==
    IF ~dml_in_batch THEN "NOT_IN_BATCH"
    ELSE IF batch_state \in {"UNDEFINED", "NOT_IN_BATCH"} /\ insert_only
         THEN "IN_INSERT_ONLY_BATCH"
    ELSE IF ~insert_only THEN "IN_MIX_BATCH" ELSE batch_state

get_batch_state(insert_only) ==
    IF MustFlush(insert_only) \/ batch_state = "UNDEFINED"
    THEN IF ~dml_in_batch THEN "NOT_IN_BATCH"
         ELSE IF insert_only THEN "IN_INSERT_ONLY_BATCH" ELSE "IN_MIX_BATCH"
    ELSE batch_state

BaseFor(insert_only) == IF MustFlush(insert_only) THEN FlushedBase ELSE base

AppendersFor(insert_only) ==
    IF MustFlush(insert_only) THEN NoAppenders ELSE appenders

(* Mutant: the operation, not the batch, chooses the kind of appender. *)
AppenderByOperation(t, insert_only) ==
    LET a == AppendersFor(insert_only)[t]
    IN  IF a.open THEN a ELSE NewAppender(~insert_only)

(* An open appender is used as it is; a new one gets a temporary table     *)
(* unless the batch is insert-only.                                        *)
get_appender(t, insert_only) ==
    LET a == AppendersFor(insert_only)[t]
    IN  IF a.open THEN a
        ELSE NewAppender(get_batch_state(insert_only) # "IN_INSERT_ONLY_BATCH")

(* DeltaAppender::Initialize has nothing to do or succeeds: it needs a     *)
(* valid transaction, and a primary key for a temporary table.             *)
Initialized(t, insert_only) ==
    \/ AppendersFor(insert_only)[t].open
    \/ /\ ~aborted
       /\ get_appender(t, insert_only).use_tmp_table => t \notin NoPk

Ready == trx \in {"none", "active"}

(* The prologue of the three operations: duckdb_register_trx, then         *)
(* get_batch_state with the flush it may need.                             *)
Prologue(insert_only) ==
    /\ Ready
    /\ trx' = "active"
    /\ MustFlush(insert_only) => CanFlushAll
    /\ UNCHANGED <<dml_in_batch, committed>>

(* The row operation succeeds: T is its SQL statement's effect on table t  *)
(* and a the appender with its n rows.                                     *)
RowDone(t, insert_only, T, a, n) ==
    /\ Prologue(insert_only)
    /\ batch_state' = get_batch_state(insert_only)
    /\ UNCHANGED aborted
    /\ \/ /\ get_batch_state(insert_only) = "NOT_IN_BATCH"
          /\ ~aborted
          /\ base' = [BaseFor(insert_only) EXCEPT ![t] = T]
          /\ appenders' = AppendersFor(insert_only)
       \/ /\ get_batch_state(insert_only) # "NOT_IN_BATCH"
          /\ Initialized(t, insert_only)
          /\ ~insert_only => get_appender(t, insert_only).use_tmp_table
          /\ RoomFor(get_appender(t, insert_only), n)
          /\ base' = BaseFor(insert_only)
          /\ appenders' = [AppendersFor(insert_only) EXCEPT ![t] = a]

(* The client's side of the bargain: DuckDB checks no key, so it is the    *)
(* client that does not insert a key twice.                                *)
Unused(t, k) == UniqueKeys => k \notin KeysOf(View(t))

Used(t, k) == UniqueKeys => k \in KeysOf(View(t))

write_row(t, k, v) ==
    /\ Unused(t, k)
    /\ RowDone(t, TRUE, BaseFor(TRUE)[t] \cup {<<k, v>>},
               append_row_insert(get_appender(t, TRUE), k, v), 1)
    /\ reply' = <<"insert", t, k, v>>

(* UPDATE t SET ... WHERE key = old, on every row with that key. *)
SqlUpdate(T, old, k, v) ==
    IF old \in KeysOf(T) THEN Without(T, {old}) \cup {<<k, v>>} ELSE T

update_row(t, old, k, v) ==
    /\ Used(t, old)
    /\ k # old => Unused(t, k)
    /\ RowDone(t, FALSE, SqlUpdate(BaseFor(FALSE)[t], old, k, v),
               append_row_update(get_appender(t, FALSE), old, k, v), 2)
    /\ reply' = <<"update", t, old, k, v>>

delete_row(t, k) ==
    /\ Used(t, k)
    /\ RowDone(t, FALSE, Without(BaseFor(FALSE)[t], {k}),
               append_row_delete(get_appender(t, FALSE), k), 1)
    /\ reply' = <<"delete", t, {k}>>

(* A row operation ends in an error: the flush of get_batch_state fails,   *)
(* or the SQL statement of an operation outside a batch fails, which may   *)
(* invalidate the transaction.                                             *)
RowFails(insert_only) ==
    /\ reply' = Error
    /\ \/ /\ Ready
          /\ MustFlush(insert_only)
          /\ FlushAllFails
          /\ trx' = "active"
          /\ UNCHANGED <<dml_in_batch, committed>>
       \/ /\ Prologue(insert_only)
          /\ get_batch_state(insert_only) = "NOT_IN_BATCH"
          /\ batch_state' = "NOT_IN_BATCH"
          /\ base' = BaseFor(insert_only)
          /\ appenders' = AppendersFor(insert_only)
          /\ aborted' \in {aborted, TRUE}

(* EndRow of the duckdb appender spills a full chunk into the target table *)
(* (external: DuckDB does it on its own, within the transaction).          *)
Spill(t) ==
    /\ trx = "active"
    /\ ~aborted
    /\ appenders[t].open /\ ~appenders[t].use_tmp_table
    /\ appenders[t].rows # {} /\ ~appenders[t].incomplete
    /\ base' = [base EXCEPT ![t] = @ \cup RowsOf(appenders[t].rows)]
    /\ appenders' = [appenders EXCEPT ![t].rows = {}]
    /\ UNCHANGED <<dml_in_batch, batch_state, trx, aborted, committed, reply>>

---------------------------------------------------------------------------
(* Appends that fail.  The row operation then falls back to its SQL        *)
(* statement and leaves the batch, whatever the appenders still hold.      *)

(* An append that fails after the first column leaves an incomplete row; a *)
(* row number beyond RowNoMax fails on one of the last columns.            *)
Broken(a) ==
    {[a EXCEPT !.row_count = @ + 1, !.incomplete = x] :
        x \in {y \in BOOLEAN :
                 (a.use_tmp_table /\ a.row_count + 1 > RowNoMax) => y}}

FailedInsert(a) == {[b EXCEPT !.has_insert = TRUE] : b \in Broken(a)}

FailedDelete(a) ==
    IF a.use_tmp_table THEN {[b EXCEPT !.has_delete = TRUE] : b \in Broken(a)}
    ELSE {a}

FailedUpdate(a, old) ==
    FailedDelete(a) \cup
    (IF a.use_tmp_table /\ RoomFor(a, 1)
     THEN FailedInsert(append_row_delete(a, old)) ELSE {})

(* T and As are the statement's effect on table t and the appenders an     *)
(* append may leave behind; op is the answer if the statement succeeds.    *)
AppendFails(t, insert_only, T, As, op) ==
    /\ Prologue(insert_only)
    /\ get_batch_state(insert_only) # "NOT_IN_BATCH"
    /\ batch_state' = "NOT_IN_BATCH"
    /\ \/ /\ ~Initialized(t, insert_only)
          /\ appenders' = AppendersFor(insert_only)
       \/ /\ Initialized(t, insert_only) /\ AppendFaults
          /\ get_appender(t, insert_only).row_count < MaxRows
          /\ \E a \in As : appenders' = [AppendersFor(insert_only) EXCEPT ![t] = a]
    /\ \/ /\ ~aborted
          /\ base' = [BaseFor(insert_only) EXCEPT ![t] = T]
          /\ reply' = op
          /\ UNCHANGED aborted
       \/ /\ base' = BaseFor(insert_only)
          /\ reply' = Error
          /\ aborted' \in {aborted, TRUE}

write_row_append_fails(t, k, v) ==
    /\ Unused(t, k)
    /\ AppendFails(t, TRUE, BaseFor(TRUE)[t] \cup {<<k, v>>},
                   FailedInsert(get_appender(t, TRUE)), <<"insert", t, k, v>>)

update_row_append_fails(t, old, k, v) ==
    /\ Used(t, old)
    /\ k # old => Unused(t, k)
    /\ AppendFails(t, FALSE, SqlUpdate(BaseFor(FALSE)[t], old, k, v),
                   FailedUpdate(get_appender(t, FALSE), old),
                   <<"update", t, old, k, v>>)

delete_row_append_fails(t, k) ==
    /\ Used(t, k)
    /\ AppendFails(t, FALSE, Without(BaseFor(FALSE)[t], {k}),
                   FailedDelete(get_appender(t, FALSE)), <<"delete", t, {k}>>)

---------------------------------------------------------------------------
(* ha_duckdb::rnd_init, direct_delete_rows, direct_update_rows and         *)
(* delete_all_rows                                                         *)

(* external_lock has registered the transaction; the scan flushes all the  *)
(* appenders before it reads table t.                                      *)
rnd_init(t) ==
    /\ Ready /\ ~aborted
    /\ FlushAppenders
    /\ trx' = "active"
    /\ reply' = <<"scan", t, base'[t]>>
    /\ UNCHANGED <<dml_in_batch, committed>>

(* A forwarded statement flushes and then makes T of table t. *)
DirectDone(t, T) ==
    /\ Ready /\ ~aborted
    /\ CanFlushAll
    /\ base' = [FlushedBase EXCEPT ![t] = T]
    /\ appenders' = NoAppenders
    /\ batch_state' = "UNDEFINED"
    /\ trx' = "active"
    /\ UNCHANGED <<dml_in_batch, aborted, committed>>

direct_delete_rows(t, K) ==
    /\ DirectDone(t, Without(FlushedBase[t], K))
    /\ reply' = <<"delete", t, K>>

direct_update_rows(t, K, v) ==
    /\ DirectDone(t, Without(FlushedBase[t], K)
                       \cup {<<k, v>> : k \in K \cap KeysOf(FlushedBase[t])})
    /\ reply' = <<"update_set", t, K, v>>

(* One of the three ends in an error, in its flush or after it. *)
FlushThenFails ==
    /\ Ready
    /\ \/ FlushAllFails
       \/ /\ CanFlushAll
          /\ base' = FlushedBase
          /\ appenders' = NoAppenders
          /\ batch_state' = "UNDEFINED"
          /\ aborted' \in {aborted, TRUE}
    /\ trx' = "active"
    /\ reply' = Error
    /\ UNCHANGED <<dml_in_batch, committed>>

(* An operation is refused before it reaches the batch: by external_lock   *)
(* (a locking SELECT, an XA transaction), for an incomplete after-image or *)
(* an unsafe quote, or, once the transaction is registered, because no id  *)
(* can be drawn for the row.                                               *)
Rejected ==
    /\ Ready
    /\ \/ UNCHANGED <<trx, aborted>>
       \/ trx' = "active" /\ aborted' \in {aborted, TRUE}
    /\ reply' = Error
    /\ UNCHANGED <<dml_in_batch, batch_state, appenders, base, committed>>

(* The pending rows of t are discarded, then the table is emptied; DuckDB  *)
(* fails the DELETE of a table that exists only while it runs, which       *)
(* invalidates the transaction.                                            *)
delete_all_rows(t) ==
    /\ Ready
    /\ appenders' = [appenders EXCEPT ![t] = Closed]
    /\ \/ /\ ~aborted
          /\ base' = [base EXCEPT ![t] = {}]
          /\ reply' = <<"delete", t, Keys>>
          /\ UNCHANGED aborted
       \/ /\ aborted' = TRUE
          /\ reply' = Error
          /\ UNCHANGED base
    /\ trx' = "active"
    /\ UNCHANGED <<dml_in_batch, batch_state, committed>>

---------------------------------------------------------------------------
(* The handlerton's transaction callbacks *)

duckdb_prepare ==
    /\ trx = "active"
    /\ \/ FlushAppenders /\ trx' = "prepared" /\ UNCHANGED reply
       \/ FlushAllFails /\ trx' = "failed" /\ reply' = Error
    /\ UNCHANGED <<dml_in_batch, committed>>

(* Mutant: the batch state survives the rollback. *)
RollbackKeepsBatchState ==
    /\ appenders' = NoAppenders
    /\ base' = committed
    /\ aborted' = FALSE
    /\ trx' = "none"
    /\ UNCHANGED <<dml_in_batch, batch_state, committed>>

(* duckdb_trans_rollback: appenders first, then the DuckDB transaction. *)
TransRollback ==
    /\ appenders' = NoAppenders
    /\ base' = committed
    /\ batch_state' = "UNDEFINED"
    /\ aborted' = FALSE
    /\ trx' = "none"
    /\ UNCHANGED <<dml_in_batch, committed>>

(* The flush is repeated for a server that did not prepare.  A flush that  *)
(* fails and a COMMIT that DuckDB refuses are answered by a rollback.      *)
duckdb_commit ==
    /\ trx \in {"active", "prepared"}
    /\ \/ /\ CanFlushAll /\ ~aborted
          /\ base' = FlushedBase
          /\ committed' = FlushedBase
          /\ appenders' = NoAppenders
          /\ batch_state' = "UNDEFINED"
          /\ trx' = "none"
          /\ reply' = <<"commit">>
          /\ UNCHANGED <<dml_in_batch, aborted>>
       \/ TransRollback /\ reply' = Error

(* ROLLBACK, a failed prepare, a disconnect (the destructor of the         *)
(* context) and a crash of the server all end this way.                    *)
duckdb_rollback ==
    /\ trx # "none"
    /\ TransRollback
    /\ reply' = <<"rollback">>

SetDmlInBatch ==
    /\ dml_in_batch' = ~dml_in_batch
    /\ UNCHANGED <<batch_state, appenders, trx, aborted, base, committed, reply>>

---------------------------------------------------------------------------

Init ==
    /\ dml_in_batch = TRUE
    /\ batch_state = "UNDEFINED"
    /\ appenders = NoAppenders
    /\ trx = "none"
    /\ aborted = FALSE
    /\ base = [t \in Tables |-> {}]
    /\ committed = base
    /\ reply = <<"none">>

Next ==
    \/ \E t \in Tables, k \in Keys, v \in Vals : write_row(t, k, v)
    \/ \E t \in Tables, old, k \in Keys, v \in Vals : update_row(t, old, k, v)
    \/ \E t \in Tables, k \in Keys : delete_row(t, k)
    \/ \E insert_only \in BOOLEAN : RowFails(insert_only)
    \/ \E t \in Tables, k \in Keys, v \in Vals : write_row_append_fails(t, k, v)
    \/ \E t \in Tables, old, k \in Keys, v \in Vals :
          update_row_append_fails(t, old, k, v)
    \/ \E t \in Tables, k \in Keys : delete_row_append_fails(t, k)
    \/ \E t \in Tables : Spill(t)
    \/ \E t \in Tables : rnd_init(t)
    \/ \E t \in Tables, K \in SUBSET Keys : direct_delete_rows(t, K)
    \/ \E t \in Tables, K \in SUBSET Keys, v \in Vals : direct_update_rows(t, K, v)
    \/ FlushThenFails
    \/ Rejected
    \/ \E t \in Tables : delete_all_rows(t)
    \/ duckdb_prepare
    \/ duckdb_commit
    \/ duckdb_rollback
    \/ SetDmlInBatch

Spec == Init /\ [][Next]_vars

---------------------------------------------------------------------------
(* Properties *)

(* The batch state tells what is pending: nothing before the first row     *)
(* operation, appenders on the target tables in an insert-only batch, and  *)
(* appenders on temporary tables in a mixed one.  get_appender hands out   *)
(* an open appender without looking at its kind, so this is why            *)
(* append_row_delete never meets one without a temporary table.            *)
BatchStateMatchesAppenders ==
    /\ batch_state = "UNDEFINED" => Open = {}
    /\ batch_state = "IN_INSERT_ONLY_BATCH" =>
          \A t \in Open : ~appenders[t].use_tmp_table
    /\ batch_state = "IN_MIX_BATCH" =>
          \A t \in Open : appenders[t].use_tmp_table

(* Between transactions the context holds nothing of the last one: no      *)
(* appender, no batch state, no invalidated or unfinished DuckDB           *)
(* transaction, whichever way the last one ended.                          *)
IdleSessionIsClean ==
    trx = "none" =>
        /\ Open = {}
        /\ batch_state = "UNDEFINED"
        /\ ~aborted
        /\ base = committed

(* Unless an append has failed, a statement is sent to DuckDB only when no *)
(* appender holds rows: the two ways of writing never overtake each other. *)
DirectWritesFollowPending ==
    batch_state = "NOT_IN_BATCH" /\ ~aborted => Open = {}

(* As long as the client keeps its keys unique, no table holds a key       *)
(* twice, in what is committed and in what a COMMIT would publish: the     *)
(* deletes of a flush cover every key the flush inserts again.             *)
OneRowPerKey ==
    UniqueKeys => \A t \in Tables :
        /\ \A r, s \in committed[t] : r[1] = s[1] => r = s
        /\ ~aborted => \A r, s \in View(t) : r[1] = s[1] => r = s

(* update_row has appended its delete marker when the row version after it *)
(* is refused, and the UPDATE statement it falls back to fails as well:    *)
(* the marker stays, and the old row is deleted.                           *)
UpdateDeletesRow(t) ==
    \E old, k \in Keys, v \in Vals :
        /\ update_row_append_fails(t, old, k, v)
        /\ View(t)' = Without(View(t), {old})

(* An operation that reports an error, and leaves the transaction open and *)
(* valid, leaves every table as COMMIT would have published it before: in  *)
(* whichever of its flushes, appends or statements it failed, and although *)
(* a flush_all that stops half-way has moved the rows of some tables and   *)
(* not of others.  The client keeps its keys unique.  One operation is     *)
(* excepted: an UPDATE that fails twice, UpdateDeletesRow.                 *)
FailedStepKeepsView ==
    [][UniqueKeys /\ reply' = Error /\ trx' # "none" =>
         \/ aborted'
         \/ \A t \in Tables : View(t)' = View(t) \/ UpdateDeletesRow(t)]_vars

(* mysql-test/duckdb/t/mixed_dml.test, "delete followed by insert": a row  *)
(* that write_row has accepted is what COMMIT publishes for its key.       *)
WrittenRowIsKept ==
    [][\A t \in Tables, k \in Keys, v \in Vals :
         write_row(t, k, v) => <<k, v>> \in View(t)']_vars

(* The session's view of the tables: what COMMIT would publish, or, once   *)
(* DuckDB has invalidated the transaction, what a rollback will restore.   *)
SessionView == IF aborted THEN committed ELSE FlushedBase

Abstract == INSTANCE SessionTables WITH view <- SessionView, doomed <- aborted

(* Batching is invisible: whatever mix of appenders, temporary tables,     *)
(* flushes and plain statements the row operations go through, the session *)
(* has the keyed tables of SessionTables.                                  *)
ImplementsSessionTables == Abstract!Spec
=============================================================================

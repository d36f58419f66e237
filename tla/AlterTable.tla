----------------------------- MODULE AlterTable -----------------------------
(***************************************************************************)
(* ALTER TABLE on one DuckDB table.  MariaDB keeps the definition of the   *)
(* table (mdb) and DuckDB its columns (duck).  An ALTER that can run in    *)
(* place is translated by the convertors to DuckDB statements, executed in *)
(* one transaction of a connection of their own; any other ALTER builds a  *)
(* new table through ha_duckdb::create and copies the rows.                *)
(*                                                                         *)
(* Rows are written by position, so the two definitions must have the same *)
(* columns in the same order.                                              *)
(*                                                                         *)
(* A MariaDB column is [name, type, notnull, def, on_update, auto, odd]:   *)
(* def is NoDefault (NO_DEFAULT_VALUE_FLAG), Null, a literal, an           *)
(* expression or a sequence expression, odd a column that is invisible or  *)
(* of an unsupported character set.                                        *)
(***************************************************************************)
EXTENDS Integers, Sequences

CONSTANTS
    Definitions,         \* MariaDB tables to start with: [columns, pk]
    Alters,              \* ALTER statements: [drop, change, add, setdef,
                         \* add_pk, drop_pk, order]
    ColumnNames,
    Types,
    Literals,            \* default values
    SortKey,             \* what sortcmp compares of a literal
    Exprs,               \* default expressions without a sequence
    ConstantExprs,       \* the ones MariaDB folds into default_values
    SequenceExprs,       \* default expressions that draw from a sequence
    NoDefault,
    Null,
    MaxAlters            \* bound on the ALTERs that succeed

Defaults == {NoDefault, Null} \cup Literals \cup Exprs \cup SequenceExprs

Columns ==
    [name : ColumnNames, type : Types, notnull : BOOLEAN, def : Defaults,
     on_update : BOOLEAN, auto : BOOLEAN, odd : BOOLEAN]

(* No default is of two kinds. *)
ASSUME DefaultsAssumption ==
    /\ ConstantExprs \subseteq Exprs
    /\ NoDefault # Null
    /\ {NoDefault, Null} \cap (Literals \cup Exprs \cup SequenceExprs) = {}
    /\ Exprs \cap SequenceExprs = {} /\ Literals \cap (Exprs \cup SequenceExprs) = {}

ASSUME SortKeyAssumption == DOMAIN SortKey = Literals

ASSUME AltersAssumption ==
    \A a \in Alters :
        /\ a.change \in [DOMAIN a.change -> Columns]
        /\ a.add \in Seq(Columns)
        /\ a.setdef \in [DOMAIN a.setdef -> Defaults]
        /\ a.drop_pk \in BOOLEAN /\ a.order \in BOOLEAN

VARIABLES
    require_primary_key,
    mdb,       \* MariaDB's definition
    duck,      \* DuckDB's columns: [name, type, notnull, def]
    nulls,     \* names of the columns in which some row has NULL
    pending,   \* the definition MariaDB is about to install, or NoTable
    alters,    \* number of ALTERs that succeeded
    retyped,   \* history: columns whose type an in-place ALTER changed
    frozen,    \* history: columns added in place with a computed default, or
               \* whose DROP DEFAULT the handler did not see
    torn       \* history: a crash kept the old definition after the COMMIT

history == <<retyped, frozen>>

vars == <<require_primary_key, mdb, duck, nulls, pending, alters, history, torn>>

NoTable == [columns |-> <<>>, pk |-> {}]

ToSet(s) == {s[i] : i \in DOMAIN s}

(* The elements of a sequence that are in S, in their order. *)
Where(s, S) ==
    LET kept[i \in 0 .. Len(s)] ==
            IF i = 0 THEN <<>>
            ELSE IF s[i] \in S THEN Append(kept[i - 1], s[i]) ELSE kept[i - 1]
    IN kept[Len(s)]

Names(columns) == {columns[i].name : i \in DOMAIN columns}

Column(columns, n) == columns[CHOOSE i \in DOMAIN columns : columns[i].name = n]

(* The columns of a table have different names; those of the primary key are
   among them; NULL is the default of nullable columns only and these always
   have a default; an AUTO_INCREMENT column is a key without a default. *)
WellFormed(def) ==
    /\ def.columns # <<>>
    /\ \A i, j \in DOMAIN def.columns :
          def.columns[i].name = def.columns[j].name => i = j
    /\ def.pk \subseteq Names(def.columns)
    /\ \A i \in DOMAIN def.columns :
          LET c == def.columns[i]
          IN /\ c.def # IF c.notnull THEN Null ELSE NoDefault
             /\ c.auto => c.def = NoDefault /\ c.name \in def.pk

ASSUME DefinitionsAssumption ==
    \A def \in Definitions : def.columns \in Seq(Columns) /\ WellFormed(def)

---------------------------------------------------------------------------
(* The definition MariaDB computes for an ALTER (external) *)

(* A key column is NOT NULL and loses an implicit NULL default. *)
AsKey(c) ==
    [c EXCEPT !.notnull = TRUE, !.def = IF @ = Null THEN NoDefault ELSE @]

(* DROP DEFAULT leaves a nullable column DEFAULT NULL. *)
WithoutDefault(c) == [c EXCEPT !.def = IF c.notnull THEN NoDefault ELSE Null]

(* A column of the old table that stays, as it is in the new one. *)
AlteredColumn(c, a) ==
    LET base == IF c.name \in DOMAIN a.change THEN a.change[c.name] ELSE c
        def == IF c.name \in DOMAIN a.setdef
               THEN [base EXCEPT !.def = a.setdef[c.name]] ELSE base
    IN IF def.name \in a.add_pk THEN AsKey(def) ELSE def

KeptColumns(a) ==
    Where(mdb.columns, {c \in ToSet(mdb.columns) : c.name \notin a.drop})

AddedColumns(a) ==
    [i \in DOMAIN a.add |->
        IF a.add[i].name \in a.add_pk THEN AsKey(a.add[i]) ELSE a.add[i]]

(* Added columns come last, or first when the ALTER orders columns. *)
AlteredColumns(a) ==
    LET kept == [i \in DOMAIN KeptColumns(a) |-> AlteredColumn(KeptColumns(a)[i], a)]
    IN IF a.order THEN AddedColumns(a) \o kept ELSE kept \o AddedColumns(a)

(* The name a kept column has afterwards. *)
NewName(n, a) == IF n \in DOMAIN a.change THEN a.change[n].name ELSE n

Altered(a) ==
    [columns |-> AlteredColumns(a),
     pk |-> a.add_pk \cup IF a.drop_pk THEN {}
                          ELSE {NewName(n, a) : n \in mdb.pk \ a.drop}]

(* What the parser and mysql_prepare_alter_table accept. *)
Valid(a) ==
    /\ a.drop \cup DOMAIN a.change \cup DOMAIN a.setdef \subseteq Names(mdb.columns)
    /\ a.drop \cap (DOMAIN a.change \cup DOMAIN a.setdef) = {}
    /\ WellFormed(Altered(a))
    /\ a.add_pk # {} => mdb.pk \subseteq a.drop \/ a.drop_pk
    /\ a.drop_pk => mdb.pk # {}

---------------------------------------------------------------------------
(* DuckDB's ALTER TABLE statements (external) *)

Refused(columns, withNulls, s) ==
    \/ (s.op = "add") = (s.col \in Names(columns))
    \/ s.op = "rename" /\ s.arg \in Names(columns)
    \/ s.op = "set_not_null" /\ s.col \in withNulls

(* What a statement makes of the column it names. *)
Changed(c, s) ==
    CASE s.op = "rename" -> [c EXCEPT !.name = s.arg]
      [] s.op = "change_type" -> [c EXCEPT !.type = s.arg]
      [] s.op = "set_default" -> [c EXCEPT !.def = s.def]
      [] s.op = "set_not_null" -> [c EXCEPT !.notnull = TRUE]
      [] s.op = "drop_not_null" -> [c EXCEPT !.notnull = FALSE]

(* The columns after a statement; the empty sequence stands for an error. *)
Apply(columns, withNulls, s) ==
    IF columns = <<>> \/ Refused(columns, withNulls, s) THEN <<>>
    ELSE IF s.op = "add"
    THEN Append(columns, [name |-> s.col, type |-> s.arg, notnull |-> FALSE, def |-> s.def])
    ELSE IF s.op = "drop" THEN Where(columns, {c \in ToSet(columns) : c.name # s.col})
    ELSE [i \in DOMAIN columns |->
             IF columns[i].name = s.col THEN Changed(columns[i], s) ELSE columns[i]]

(* The columns with a NULL after a statement on a table with rows. *)
NullsAfter(withNulls, s) ==
    CASE s.op = "add" -> IF s.def = Null THEN withNulls \cup {s.col} ELSE withNulls
      [] s.op = "drop" -> withNulls \ {s.col}
      [] s.op = "rename" ->
           IF s.col \in withNulls THEN (withNulls \ {s.col}) \cup {s.arg} ELSE withNulls
      [] OTHER -> withNulls

(* A state is [columns, nulls]. *)
AfterStatement(t, s) ==
    [columns |-> Apply(t.columns, t.nulls, s), nulls |-> NullsAfter(t.nulls, s)]

Execute(statements, start) ==
    LET after[i \in 0 .. Len(statements)] ==
            IF i = 0 THEN start ELSE AfterStatement(after[i - 1], statements[i])
    IN after[Len(statements)]

---------------------------------------------------------------------------
(* Statement builders; DEFAULT NULL and no default are the same to DuckDB *)

append_stmt_column_add(c, def) ==
    [op |-> "add", col |-> c.name, arg |-> c.type, def |-> def]

append_stmt_column_drop(n) == [op |-> "drop", col |-> n, arg |-> n, def |-> Null]

append_stmt_column_rename(n, new) ==
    [op |-> "rename", col |-> n, arg |-> new, def |-> Null]

append_stmt_column_change_type(n, type) ==
    [op |-> "change_type", col |-> n, arg |-> type, def |-> Null]

append_stmt_column_set_default(n, def) ==
    [op |-> "set_default", col |-> n, arg |-> n, def |-> def]

append_stmt_column_drop_default(n) == append_stmt_column_set_default(n, Null)

append_stmt_column_set_not_null(n) ==
    [op |-> "set_not_null", col |-> n, arg |-> n, def |-> Null]

append_stmt_column_drop_not_null(n) ==
    [op |-> "drop_not_null", col |-> n, arg |-> n, def |-> Null]

---------------------------------------------------------------------------
(* FieldConvertor and CreateTableConvertor *)

(* check(): AUTO_INCREMENT only in CREATE TABLE, no invisible column, no
   character set DuckDB does not have. *)
FieldRejected(c, create) == c.odd \/ (c.auto /\ ~create)

(* The literal that default_values holds for a column. *)
Materialised(def) ==
    IF def \in ConstantExprs THEN <<"value of", def>>
    ELSE IF def \in Exprs \cup {NoDefault} THEN <<"implicit">> ELSE def

(* The default DuckDB gets when the text of an expression is forwarded: none
   for a sequence expression and for no default. *)
ForwardedDefault(def) ==
    IF def \in SequenceExprs \cup {NoDefault} THEN Null ELSE def

(* translate(): type, NOT NULL and default of a column of CREATE TABLE. *)
FieldTranslate(c) ==
    [name |-> c.name, type |-> c.type, notnull |-> c.notnull,
     def |-> IF c.auto THEN <<"nextval">> ELSE ForwardedDefault(c.def)]

append_column_definition(columns) ==
    [i \in DOMAIN columns |-> FieldTranslate(columns[i])]

(* CreateTableConvertor::check, create telling CREATE TABLE from the shadow
   table of a copying ALTER. *)
CreateRejected(def, create) ==
    \/ \E i \in DOMAIN def.columns : FieldRejected(def.columns[i], TRUE)
    \/ ~create /\ \E i \in DOMAIN def.columns : def.columns[i].auto
    \/ require_primary_key /\ def.pk = {}

---------------------------------------------------------------------------
(* The ALTER convertors *)

(* The default of ADD COLUMN: CURRENT_TIMESTAMP for ON UPDATE, otherwise the
   materialised one unless it draws from a sequence.  A NOT NULL column
   without a default gets the type's implicit one for a while. *)
AddedDefault(c) ==
    IF c.on_update THEN <<"now">>
    ELSE IF c.def \in SequenceExprs THEN Null
    ELSE IF c.def = NoDefault /\ ~c.notnull THEN Null
    ELSE Materialised(c.def)

NotNull(columns) == Where(columns, {c \in ToSet(columns) : c.notnull})

AddStatements(columns) ==
    [i \in DOMAIN columns |-> append_stmt_column_add(columns[i], AddedDefault(columns[i]))]

SetNotNullStatements(columns) ==
    [i \in DOMAIN columns |-> append_stmt_column_set_not_null(columns[i].name)]

DropDefaultStatements(columns) ==
    [i \in DOMAIN columns |-> append_stmt_column_drop_default(columns[i].name)]

(* Mutant: the temporary default stays. *)
AddColumnKeepsDefault(a) ==
    AddStatements(AddedColumns(a)) \o SetNotNullStatements(NotNull(AddedColumns(a)))

(* All columns are added, then set NOT NULL, then the temporary defaults go. *)
AddColumnTranslate(a) ==
    LET added == AddedColumns(a)
        filled == {c \in ToSet(added) : c.notnull /\ c.def = NoDefault}
    IN AddStatements(added)
       \o SetNotNullStatements(NotNull(added))
       \o DropDefaultStatements(Where(added, filled))

AddColumnRejected(a) == \E i \in DOMAIN a.add : FieldRejected(a.add[i], FALSE)

(* The columns to drop: the drop list when the server still has it, otherwise
   the old columns that are neither renamed nor found by name in the new
   table. *)
ColumnsToDrop(a, drop_list) ==
    Where(mdb.columns,
        {c \in ToSet(mdb.columns) :
            IF drop_list THEN c.name \in a.drop
            ELSE /\ c.name \notin DOMAIN a.change
                 /\ c.name \notin Names(AlteredColumns(a))})

DropColumnTranslate(a, drop_list) ==
    LET columns == ColumnsToDrop(a, drop_list)
    IN [i \in DOMAIN columns |-> append_stmt_column_drop(columns[i].name)]

DropColumnRejected(a, drop_list) ==
    /\ require_primary_key
    /\ \E c \in ToSet(ColumnsToDrop(a, drop_list)) : c.name \in mdb.pk

(* is_type_changed: not implemented, in-place ALTER never changes a type. *)
is_type_changed(old, new) == FALSE

(* The changed columns, each with its definition in the new table. *)
ChangedColumns(a) ==
    LET kept == Where(mdb.columns, {c \in ToSet(mdb.columns) : c.name \in DOMAIN a.change})
        new == AlteredColumns(a)
    IN [i \in DOMAIN kept |->
          [old |-> kept[i], new |-> Column(new, NewName(kept[i].name, a))]]

(* The default of a changed column is sent, unless it draws from the sequence
   it drew from before. *)
DefaultIsSent(p) ==
    p.new.def = NoDefault \/ p.new.def \notin SequenceExprs \/ p.new.def # p.old.def

ChangedDefault(p) ==
    IF p.new.def \in SequenceExprs \cup {NoDefault}
    THEN append_stmt_column_drop_default(p.new.name)
    ELSE append_stmt_column_set_default(p.new.name, p.new.def)

RenameStatements(changed) ==
    LET renamed == Where(changed, {p \in ToSet(changed) : p.old.name # p.new.name})
    IN [i \in DOMAIN renamed |->
          append_stmt_column_rename(renamed[i].old.name, renamed[i].new.name)]

TypeStatements(changed) ==
    LET retypes == Where(changed, {p \in ToSet(changed) : is_type_changed(p.old, p.new)})
    IN [i \in DOMAIN retypes |->
          append_stmt_column_change_type(retypes[i].new.name, retypes[i].new.type)]

DefaultStatements(changed) ==
    LET sent == Where(changed, {p \in ToSet(changed) : DefaultIsSent(p)})
    IN [i \in DOMAIN sent |-> ChangedDefault(sent[i])]

NullableStatements(changed) ==
    LET nullable == Where(changed, {p \in ToSet(changed) : p.old.notnull /\ ~p.new.notnull})
    IN [i \in DOMAIN nullable |-> append_stmt_column_drop_not_null(nullable[i].new.name)]

NotNullStatements(changed) ==
    LET notnull == Where(changed, {p \in ToSet(changed) : ~p.old.notnull /\ p.new.notnull})
    IN [i \in DOMAIN notnull |-> append_stmt_column_set_not_null(notnull[i].new.name)]

(* Renames first, then the types, then the defaults of all changed columns
   under their new names, then DROP NOT NULL, then SET NOT NULL. *)
ChangeColumnTranslate(a) ==
    LET changed == ChangedColumns(a)
    IN RenameStatements(changed) \o TypeStatements(changed) \o DefaultStatements(changed)
       \o NullableStatements(changed) \o NotNullStatements(changed)

ChangeColumnRejected(a) ==
    \E i \in DOMAIN ChangedColumns(a) : FieldRejected(ChangedColumns(a)[i].new, FALSE)

(* sortcmp, in the collation of system_charset_info: literals that differ in
   case, accents or trailing spaces only are equal (external). *)
sortcmp(v1, v2) == SortKey[v1] # SortKey[v2]

SameDefault(old, new) ==
    \/ old = new
    \/ old \in Literals /\ new \in Literals /\ ~sortcmp(old, new)

(* The kept columns whose default differs between the two definitions of the
   same name: changed text of an expression, changed value of a literal. *)
DefaultChanged(a) ==
    LET new == AlteredColumns(a)
    IN Where(new, {c \in ToSet(new) :
                     /\ c.name \in Names(mdb.columns)
                     /\ ~SameDefault(Column(mdb.columns, c.name).def, c.def)})

SetDefaultStatements(columns) ==
    [i \in DOMAIN columns |-> append_stmt_column_set_default(columns[i].name, columns[i].def)]

(* Dropped, NULL and sequence defaults first, then the values. *)
ChangeColumnDefaultTranslate(a) ==
    LET changed == DefaultChanged(a)
        dropped == {c \in ToSet(changed) : c.def \in {NoDefault, Null} \cup SequenceExprs}
    IN DropDefaultStatements(Where(changed, dropped))
       \o SetDefaultStatements(Where(changed, ToSet(changed) \ dropped))

PrimaryKeyTranslate(a) ==
    LET new == AlteredColumns(a)
    IN SetNotNullStatements(
         Where(new, {c \in ToSet(new) : c.name \in Altered(a).pk /\ c.notnull}))

---------------------------------------------------------------------------
(* ha_duckdb: in-place ALTER *)

(* check_if_supported_inplace_alter returns HA_ALTER_ERROR: the statement
   fails, it is not retried as a copy. *)
InplaceError(a) == ~a.order /\ require_primary_key /\ mdb.pk = {}

InplaceSupported(a) == ~a.order /\ ~(require_primary_key /\ mdb.pk = {})

(* The check() of each convertor the flags of the ALTER select. *)
ConvertorRejects(a, drop_list) ==
    \/ AddColumnRejected(a)
    \/ a.drop # {} /\ DropColumnRejected(a, drop_list)
    \/ ChangeColumnRejected(a)

(* The statements of all convertors, in the order they are created. *)
Statements(a, drop_list) ==
    AddColumnTranslate(a)
        \o (IF a.drop # {} THEN DropColumnTranslate(a, drop_list) ELSE <<>>)
        \o ChangeColumnTranslate(a)
        \o (IF DOMAIN a.setdef # {} THEN ChangeColumnDefaultTranslate(a) ELSE <<>>)
        \o (IF a.add_pk # {} THEN PrimaryKeyTranslate(a) ELSE <<>>)

(* The state a list of statements leads to from the table as it is. *)
Outcome(statements) == Execute(statements, [columns |-> duck, nulls |-> nulls])

Idle == pending = NoTable /\ ~torn

StartAlter(a) ==
    /\ alters < MaxAlters
    /\ Idle
    /\ Valid(a)

(* What the history variables record of an ALTER that succeeds in place. *)
RecordInplace(a) ==
    LET kept(S) == {NewName(n, a) : n \in S \ a.drop}
        changed == ToSet(ChangedColumns(a))
        redefined == {p.new.name : p \in {p \in changed : DefaultIsSent(p)}}
            \cup IF DOMAIN a.setdef = {} THEN {} ELSE Names(DefaultChanged(a))
        types == {n \in DOMAIN a.change :
                    a.change[n].type # Column(mdb.columns, n).type}
    IN /\ retyped' = kept(retyped) \cup kept(types)
       /\ frozen' = (kept(frozen) \ redefined)
             \cup {c.name : c \in {c \in ToSet(a.add) : c.on_update \/ c.def \in Exprs}}

(* commit_inplace_alter_table: the statements run in a transaction of their
   own, committed before MariaDB installs the new definition. *)
AlterInplace(a, drop_list) ==
    /\ StartAlter(a)
    /\ InplaceSupported(a)
    /\ ~ConvertorRejects(a, drop_list)
    /\ LET end == Outcome(Statements(a, drop_list))
       IN /\ end.columns # <<>>
          /\ duck' = end.columns
          /\ nulls' = end.nulls
    /\ pending' = Altered(a)
    /\ alters' = alters + 1
    /\ RecordInplace(a)
    /\ UNCHANGED <<require_primary_key, mdb, torn>>

(* Mutant: without BEGIN the statements before the error are kept. *)
AlterInplaceFailsPartly(a, drop_list) ==
    LET statements == Statements(a, drop_list)
    IN /\ StartAlter(a)
       /\ InplaceSupported(a)
       /\ ~ConvertorRejects(a, drop_list)
       /\ \E k \in 1 .. Len(statements) :
             /\ Outcome(SubSeq(statements, 1, k)).columns # <<>>
             /\ duck' = Outcome(SubSeq(statements, 1, k)).columns
       /\ UNCHANGED <<require_primary_key, mdb, nulls, pending, alters, history, torn>>

(* BEGIN, a statement or COMMIT fails: ROLLBACK, and the ALTER is an error. *)
AlterInplaceFails(a, drop_list) ==
    /\ StartAlter(a)
    /\ InplaceSupported(a)
    /\ ~ConvertorRejects(a, drop_list)
    /\ Statements(a, drop_list) # <<>>
    /\ UNCHANGED vars

(* The ALTER is refused before DuckDB sees a statement. *)
AlterRefused(a, drop_list) ==
    /\ StartAlter(a)
    /\ InplaceError(a) \/ (InplaceSupported(a) /\ ConvertorRejects(a, drop_list))
    /\ UNCHANGED vars

(* ALGORITHM=COPY, or an ALTER that in-place does not support: create() builds
   the new table, the server copies the rows and renames. *)
AlterCopy(a) ==
    LET new == Altered(a)
        kept == {n \in Names(mdb.columns) : n \notin a.drop}
    IN /\ StartAlter(a)
       /\ ~CreateRejected(new, FALSE)
       /\ \A n \in kept \cap nulls : ~Column(new.columns, NewName(n, a)).notnull
       /\ alters' = alters + 1
       /\ mdb' = new
       /\ duck' = append_column_definition(new.columns)
       /\ nulls' = {NewName(n, a) : n \in kept \cap nulls}
                      \cup {c.name : c \in {c \in ToSet(a.add) : c.def = Null}}
       /\ retyped' = {}
       /\ frozen' = {}
       /\ UNCHANGED <<require_primary_key, pending, torn>>

(* ALTER COLUMN DROP DEFAULT that the server carries out as a change of its own
   metadata, without calling the handler (external). *)
DropDefaultUnseen(n) ==
    /\ Idle
    /\ alters < MaxAlters
    /\ mdb' = [columns |-> [i \in DOMAIN mdb.columns |->
                               IF mdb.columns[i].name = n
                               THEN WithoutDefault(mdb.columns[i]) ELSE mdb.columns[i]],
               pk |-> mdb.pk]
    /\ alters' = alters + 1
    /\ frozen' = frozen \cup {n}
    /\ UNCHANGED <<require_primary_key, duck, nulls, pending, retyped, torn>>

(* MariaDB installs the definition once commit_inplace_alter_table is back. *)
InstallDefinition ==
    /\ pending # NoTable
    /\ mdb' = pending
    /\ pending' = NoTable
    /\ UNCHANGED <<require_primary_key, duck, nulls, alters, history, torn>>

(* The server dies between the COMMIT and the installation; its recovery ends
   with the old or with the new definition. *)
Crash ==
    /\ pending # NoTable
    /\ mdb' \in {mdb, pending}
    /\ torn' = (mdb' # pending)
    /\ pending' = NoTable
    /\ UNCHANGED <<require_primary_key, duck, nulls, alters, history>>

(* A row with NULL in a column that both sides let be NULL. *)
InsertNull(n) ==
    /\ Idle
    /\ n \in (Names(mdb.columns) \cap Names(duck)) \ nulls
    /\ ~Column(mdb.columns, n).notnull
    /\ ~Column(duck, n).notnull
    /\ nulls' = nulls \cup {n}
    /\ UNCHANGED <<require_primary_key, mdb, duck, pending, alters, history, torn>>

Init ==
    /\ require_primary_key \in BOOLEAN
    /\ mdb \in Definitions
    /\ ~CreateRejected(mdb, TRUE)
    /\ duck = append_column_definition(mdb.columns)
    /\ nulls = {}
    /\ pending = NoTable
    /\ alters = 0
    /\ retyped = {}
    /\ frozen = {}
    /\ torn = FALSE

Next ==
    \/ \E a \in Alters, drop_list \in BOOLEAN :
          \/ AlterInplace(a, drop_list)
          \/ AlterInplaceFails(a, drop_list)
          \/ AlterRefused(a, drop_list)
    \/ \E a \in Alters : AlterCopy(a)
    \/ \E n \in Names(mdb.columns) : InsertNull(n) \/ DropDefaultUnseen(n)
    \/ InstallDefinition
    \/ Crash

Spec == Init /\ [][Next]_vars

---------------------------------------------------------------------------

(* Rows are written and read by position: whenever the table is usable, and
   unless a crash tore the ALTER, DuckDB has the columns of MariaDB's
   definition, in its order and with its nullability, whatever mix of ADD,
   DROP, CHANGE, SET DEFAULT and keys went through the convertors.  The type
   is the defined one except where an in-place ALTER changed it. *)
ColumnsAgree ==
    Idle =>
      /\ Len(duck) = Len(mdb.columns)
      /\ \A i \in DOMAIN duck :
            /\ duck[i].name = mdb.columns[i].name
            /\ duck[i].notnull = mdb.columns[i].notnull
            /\ duck[i].name \notin retyped => duck[i].type = mdb.columns[i].type

(* A row that reaches DuckDB without passing MariaDB gets the default MariaDB
   would give: the text of an expression, a literal that the collation of
   sortcmp does not tell apart, none for a sequence default, and nothing is
   left of the temporary default that fills a new NOT NULL column.  Two kinds
   of columns keep an old default until the next change of it: those added in
   place with an expression or ON UPDATE, and those whose DROP DEFAULT the
   server did without the handler. *)
DefaultsAgree ==
    Idle => \A i \in DOMAIN duck :
        LET c == Column(mdb.columns, duck[i].name)
        IN c.name \notin frozen => SameDefault(duck[i].def, FieldTranslate(c).def)

=============================================================================

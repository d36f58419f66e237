--------------------------- MODULE SessionTables ---------------------------
(***************************************************************************)
(* What a MariaDB session is promised by the DuckDB engine: keyed tables,  *)
(* changed one row operation at a time, that become visible to everybody   *)
(* at COMMIT or not at all.  There are no batches here, no appenders and   *)
(* no temporary tables: module BatchDml has them and implements this one.  *)
(*                                                                         *)
(* A row is a pair of a primary key and the value of the other columns.    *)
(* `reply` is the interface: the operation the session was last answered,  *)
(* with its arguments, and the rows for a scan.                            *)
(***************************************************************************)

CONSTANTS
    Tables,  \* the DuckDB tables of the session
    Keys,    \* primary key values
    Vals     \* values of the columns outside the primary key

VARIABLES
    committed,  \* what every session sees: table -> set of rows
    view,       \* what this transaction has made of it
    doomed,     \* the transaction can only be rolled back
    reply       \* the last answer the session got

vars == <<committed, view, doomed, reply>>

Row == Keys \X Vals

KeysOf(T) == {r[1] : r \in T}

Without(T, K) == {r \in T : r[1] \notin K}

TypeOK ==
    /\ committed \in [Tables -> SUBSET Row]
    /\ view \in [Tables -> SUBSET Row]
    /\ doomed \in BOOLEAN

Init ==
    /\ committed = [t \in Tables |-> {}]
    /\ view = committed
    /\ doomed = FALSE
    /\ reply = <<"none">>

---------------------------------------------------------------------------

(* Replace table t of the view by T.  A doomed transaction may still accept *)
(* operations, to no effect.                                               *)
Change(t, T) ==
    /\ view' = IF doomed THEN view ELSE [view EXCEPT ![t] = T]
    /\ UNCHANGED <<committed, doomed>>

Unused(t, k) == doomed \/ k \notin KeysOf(view[t])

(* An INSERT brings a key the table does not hold. *)
Insert(t, k, v) ==
    /\ Unused(t, k)
    /\ Change(t, view[t] \cup {<<k, v>>})
    /\ reply' = <<"insert", t, k, v>>

(* An UPDATE of the row `old`, which may change the key to an unused one. *)
Update(t, old, k, v) ==
    /\ doomed \/ old \in KeysOf(view[t])
    /\ k # old => Unused(t, k)
    /\ Change(t, Without(view[t], {old}) \cup {<<k, v>>})
    /\ reply' = <<"update", t, old, k, v>>

(* DELETE of the rows whose key is in K, all keys for DELETE FROM t. *)
Delete(t, K) ==
    /\ Change(t, Without(view[t], K))
    /\ reply' = <<"delete", t, K>>

(* An UPDATE that sets the columns of the rows whose key is in K. *)
UpdateSet(t, K, v) ==
    /\ Change(t, Without(view[t], K) \cup {<<k, v>> : k \in K \cap KeysOf(view[t])})
    /\ reply' = <<"update_set", t, K, v>>

(* A scan reads the session's own writes. *)
Scan(t) ==
    /\ ~doomed
    /\ reply' = <<"scan", t, view[t]>>
    /\ UNCHANGED <<committed, view, doomed>>

(* An operation fails; the error may invalidate the transaction. *)
Fail ==
    /\ reply' = <<"error">>
    /\ UNCHANGED committed
    /\ \/ doomed' = TRUE /\ view' = committed
       \/ UNCHANGED <<view, doomed>>

Commit ==
    /\ ~doomed
    /\ committed' = view
    /\ reply' = <<"commit">>
    /\ UNCHANGED <<view, doomed>>

(* ROLLBACK, or a COMMIT that fails. *)
Rollback ==
    /\ view' = committed
    /\ doomed' = FALSE
    /\ reply' \in {<<"rollback">>, <<"error">>}
    /\ UNCHANGED committed

Next ==
    \/ \E t \in Tables, k \in Keys, v \in Vals : Insert(t, k, v)
    \/ \E t \in Tables, old, k \in Keys, v \in Vals : Update(t, old, k, v)
    \/ \E t \in Tables, K \in SUBSET Keys : Delete(t, K)
    \/ \E t \in Tables, K \in SUBSET Keys, v \in Vals : UpdateSet(t, K, v)
    \/ \E t \in Tables : Scan(t)
    \/ Fail
    \/ Commit
    \/ Rollback

Spec == Init /\ [][Next]_vars
=============================================================================

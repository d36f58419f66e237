--------------------------- MODULE BatchDmlProofs ---------------------------
(***************************************************************************)
(* Proofs about BatchDml, for any tables, keys, values and bounds and for  *)
(* every failure the module has.                                           *)
(***************************************************************************)
EXTENDS BatchDml, TLAPS

(* What an appender holds: a row version has a value of the table's type,  *)
(* and only a temporary table has delete markers.                          *)
RowsFit(a) ==
    \A d \in a.rows : /\ ~d.delete_flag => d.ver \in Vals
                      /\ d.delete_flag => a.use_tmp_table

GoodAppender == {a \in Appender : RowsFit(a)}

(* TypeOK is not inductive: a flush puts row versions into a table, and    *)
(* would put the NULLs of a delete marker there as well.                   *)
TypeInv ==
    /\ TypeOK
    /\ appenders \in [Tables -> GoodAppender]

(* BatchStateMatchesAppenders, of a batch state and a map of appenders. *)
Matches(bs, A) ==
    /\ bs = "UNDEFINED" => \A t \in Tables : ~A[t].open
    /\ bs = "IN_INSERT_ONLY_BATCH" =>
          \A t \in Tables : A[t].open => ~A[t].use_tmp_table
    /\ bs = "IN_MIX_BATCH" =>
          \A t \in Tables : A[t].open => A[t].use_tmp_table

(* The inductive invariant.  Its parts lean on each other: get_appender    *)
(* returns an open appender of the right kind because of the second, and   *)
(* the types of the tables depend on that kind.                            *)
BatchInv ==
    /\ TypeInv
    /\ BatchStateMatchesAppenders
    /\ IdleSessionIsClean

---------------------------------------------------------------------------
(* The operators on appenders *)

LEMMA NewAppenderType ==
    ASSUME NEW use_tmp \in BOOLEAN
    PROVE  NewAppender(use_tmp) \in GoodAppender /\ Closed \in GoodAppender
BY Zenon DEF NewAppender, Closed, GoodAppender, Appender, RowsFit, DeltaRow

LEMMA AppenderWithRows ==
    ASSUME NEW a \in Appender, NEW R \in SUBSET DeltaRow, NEW n \in Nat
    PROVE  /\ [a EXCEPT !.row_count = n, !.has_insert = TRUE, !.rows = R] \in Appender
           /\ [a EXCEPT !.row_count = n, !.has_delete = TRUE, !.rows = R] \in Appender
BY Zenon DEF Appender

LEMMA AppendInsertType ==
    ASSUME NEW a \in GoodAppender, NEW k \in Keys, NEW v \in Vals
    PROVE  /\ append_row_insert(a, k, v) \in GoodAppender
           /\ append_row_insert(a, k, v).open = a.open
           /\ append_row_insert(a, k, v).use_tmp_table = a.use_tmp_table
<1> DEFINE d == [row_no |-> a.row_count + 1, key |-> k, ver |-> v,
                 delete_flag |-> FALSE]
           b == append_row_insert(a, k, v)
<1>1. a \in Appender /\ RowsFit(a)
  BY Zenon DEF GoodAppender
<1>2. a.rows \cup {d} \in SUBSET DeltaRow /\ a.row_count + 1 \in Nat
  <2>1. a.rows \in SUBSET DeltaRow /\ a.row_count + 1 \in Nat
    BY <1>1 DEF Appender
  <2>2. d \in DeltaRow
    BY <2>1, Zenon DEF DeltaRow
  <2> QED
    BY <2>1, <2>2, Zenon
<1>3. b \in Appender
  BY <1>1, <1>2, AppenderWithRows, Zenon DEF append_row_insert
<1>4. /\ b.rows = a.rows \cup {d}
      /\ b.open = a.open
      /\ b.use_tmp_table = a.use_tmp_table
  BY <1>1, Zenon DEF append_row_insert, Appender
<1>5. ASSUME NEW e \in a.rows \cup {d}
      PROVE  /\ ~e.delete_flag => e.ver \in Vals
             /\ e.delete_flag => a.use_tmp_table
  BY <1>1 DEF RowsFit
<1> QED
  BY <1>3, <1>4, <1>5, Zenon DEF GoodAppender, RowsFit

LEMMA AppendDeleteType ==
    ASSUME NEW a \in GoodAppender, NEW k \in Keys, a.use_tmp_table
    PROVE  /\ append_row_delete(a, k) \in GoodAppender
           /\ append_row_delete(a, k).open = a.open
           /\ append_row_delete(a, k).use_tmp_table = a.use_tmp_table
<1> DEFINE d == [row_no |-> a.row_count + 1, key |-> k, ver |-> NoVal,
                 delete_flag |-> TRUE]
           b == append_row_delete(a, k)
<1>1. a \in Appender /\ RowsFit(a)
  BY Zenon DEF GoodAppender
<1>2. a.rows \cup {d} \in SUBSET DeltaRow /\ a.row_count + 1 \in Nat
  <2>1. a.rows \in SUBSET DeltaRow /\ a.row_count + 1 \in Nat
    BY <1>1 DEF Appender
  <2>2. d \in DeltaRow
    BY <2>1, Zenon DEF DeltaRow
  <2> QED
    BY <2>1, <2>2, Zenon
<1>3. b \in Appender
  BY <1>1, <1>2, AppenderWithRows, Zenon DEF append_row_delete
<1>4. /\ b.rows = a.rows \cup {d}
      /\ b.open = a.open
      /\ b.use_tmp_table = a.use_tmp_table
  BY <1>1, Zenon DEF append_row_delete, Appender
<1>5. ASSUME NEW e \in a.rows \cup {d}
      PROVE  /\ ~e.delete_flag => e.ver \in Vals
             /\ e.delete_flag => a.use_tmp_table
  BY <1>1 DEF RowsFit
<1> QED
  BY <1>3, <1>4, <1>5, Zenon DEF GoodAppender, RowsFit

LEMMA AppendUpdateType ==
    ASSUME NEW a \in GoodAppender, NEW old \in Keys, NEW k \in Keys,
           NEW v \in Vals, a.use_tmp_table
    PROVE  /\ append_row_update(a, old, k, v) \in GoodAppender
           /\ append_row_update(a, old, k, v).open = a.open
           /\ append_row_update(a, old, k, v).use_tmp_table = a.use_tmp_table
<1> DEFINE b == append_row_delete(a, old)
<1>1. b \in GoodAppender /\ b.open = a.open /\ b.use_tmp_table = a.use_tmp_table
  BY AppendDeleteType, Zenon
<1> HIDE DEF b
<1>2. /\ append_row_insert(b, k, v) \in GoodAppender
      /\ append_row_insert(b, k, v).open = b.open
      /\ append_row_insert(b, k, v).use_tmp_table = b.use_tmp_table
  BY <1>1, AppendInsertType, Zenon
<1>3. append_row_update(a, old, k, v) = append_row_insert(b, k, v)
  BY Zenon DEF append_row_update, b
<1> QED
  BY <1>1, <1>2, <1>3, Zenon

LEMMA FlushedType ==
    ASSUME NEW a \in GoodAppender
    PROVE  /\ Flushed(a) \in GoodAppender
           /\ Flushed(a).open = a.open
           /\ Flushed(a).use_tmp_table = a.use_tmp_table
BY Zenon DEF Flushed, GoodAppender, Appender, RowsFit

LEMMA WithoutType ==
    ASSUME NEW T \in SUBSET Row, NEW K
    PROVE  Without(T, K) \in SUBSET Row
BY Zenon DEF Without

LEMMA FlushType ==
    ASSUME NEW a \in GoodAppender, NEW T \in SUBSET Row
    PROVE  flush(a, T) \in SUBSET Row
<1>1. CASE ~a.use_tmp_table
  BY <1>1 DEF flush, RowsOf, GoodAppender, Appender, RowsFit, DeltaRow, Row
<1>2. CASE a.use_tmp_table
  <2>1. appendLatestRowsQuery(a) \in SUBSET Row
    BY DEF appendLatestRowsQuery, RowsOf, GoodAppender, Appender, RowsFit,
           DeltaRow, Row
  <2> QED
    BY <1>2, <2>1, WithoutType, Zenon DEF flush
<1> QED
  BY <1>1, <1>2, Zenon

---------------------------------------------------------------------------
(* The operators on the session's state *)

LEMMA MatchesAppenders ==
    /\ BatchStateMatchesAppenders <=> Matches(batch_state, appenders)
    /\ BatchStateMatchesAppenders' <=> Matches(batch_state', appenders')
BY Zenon DEF BatchStateMatchesAppenders, Matches, Open

LEMMA NoAppendersType ==
    /\ NoAppenders \in [Tables -> GoodAppender]
    /\ \A t \in Tables : ~NoAppenders[t].open
    /\ \A bs : Matches(bs, NoAppenders)
<1>1. Closed \in GoodAppender
  BY NewAppenderType, Zenon
<1>2. ~Closed.open
  BY Zenon DEF Closed, NewAppender
<1> QED
  BY <1>1, <1>2, Zenon DEF NoAppenders, Matches

LEMMA ViewType ==
    ASSUME TypeInv
    PROVE  /\ \A t \in Tables : View(t) \in SUBSET Row
           /\ FlushedBase \in [Tables -> SUBSET Row]
BY FlushType, Zenon DEF TypeInv, TypeOK, View, FlushedBase

(* A flush_all that fails keeps the appenders and their kinds. *)
LEMMA FlushAllFailsType ==
    ASSUME TypeInv, FlushAllFails
    PROVE  /\ base' \in [Tables -> SUBSET Row]
           /\ appenders' \in [Tables -> GoodAppender]
           /\ aborted' \in BOOLEAN
           /\ batch_state' = batch_state
           /\ \A t \in Tables :
                /\ appenders'[t].open = appenders[t].open
                /\ appenders'[t].use_tmp_table = appenders[t].use_tmp_table
<1>1. PICK done \in SUBSET Tables :
        /\ base' = [t \in Tables |-> IF t \in done THEN View(t) ELSE base[t]]
        /\ appenders' = [t \in Tables |-> IF t \in done THEN Flushed(appenders[t])
                                          ELSE appenders[t]]
        /\ aborted' = aborted \/ aborted' = TRUE
        /\ batch_state' = batch_state
  BY Zenon DEF FlushAllFails, Open
<1>2. base' \in [Tables -> SUBSET Row]
  BY <1>1, ViewType, Zenon DEF TypeInv, TypeOK
<1>3. \A t \in Tables : appenders[t] \in GoodAppender
  BY Zenon DEF TypeInv
<1>4. /\ appenders' \in [Tables -> GoodAppender]
      /\ \A t \in Tables :
           /\ appenders'[t].open = appenders[t].open
           /\ appenders'[t].use_tmp_table = appenders[t].use_tmp_table
  BY <1>1, <1>3, FlushedType, Zenon
<1> QED
  BY <1>1, <1>2, <1>4, Zenon DEF TypeInv, TypeOK

(* What a row operation works on once get_batch_state has returned. *)
LEMMA RowOperands ==
    ASSUME BatchInv, NEW t \in Tables, NEW insert_only \in BOOLEAN
    PROVE  /\ BaseFor(insert_only) \in [Tables -> SUBSET Row]
           /\ AppendersFor(insert_only) \in [Tables -> GoodAppender]
           /\ get_batch_state(insert_only) \in BatchStates \ {"UNDEFINED"}
           /\ Matches(get_batch_state(insert_only), AppendersFor(insert_only))
           /\ get_appender(t, insert_only) \in GoodAppender
           /\ get_appender(t, insert_only).open
<1>1. /\ BaseFor(insert_only) \in [Tables -> SUBSET Row]
      /\ AppendersFor(insert_only) \in [Tables -> GoodAppender]
  BY ViewType, NoAppendersType, Zenon
     DEF BatchInv, TypeInv, TypeOK, BaseFor, AppendersFor
<1>2. get_batch_state(insert_only) \in BatchStates \ {"UNDEFINED"}
  BY Zenon DEF BatchInv, TypeInv, TypeOK, get_batch_state, BatchStates
<1>3. Matches(get_batch_state(insert_only), AppendersFor(insert_only))
  <2>1. CASE MustFlush(insert_only)
    BY <2>1, NoAppendersType, Zenon DEF AppendersFor
  <2>2. CASE ~MustFlush(insert_only)
    BY <2>2, MatchesAppenders, Zenon
       DEF BatchInv, AppendersFor, get_batch_state, Matches
  <2> QED
    BY <2>1, <2>2, Zenon
<1>4. /\ get_appender(t, insert_only) \in GoodAppender
      /\ get_appender(t, insert_only).open
  <2>1. \A b \in BOOLEAN : NewAppender(b) \in GoodAppender /\ NewAppender(b).open
    BY NewAppenderType, Zenon DEF NewAppender
  <2> QED
    BY <1>1, <2>1, Zenon DEF get_appender
<1> QED
  BY <1>1, <1>2, <1>3, <1>4, Zenon

---------------------------------------------------------------------------
(* BatchInv is preserved, one lemma per kind of step *)

(* The facts a step has to establish, with the session not idle after it. *)
LEMMA BatchInvNotIdle ==
    ASSUME dml_in_batch' \in BOOLEAN, batch_state' \in BatchStates,
           appenders' \in [Tables -> GoodAppender],
           trx' \in {"active", "prepared", "failed"}, aborted' \in BOOLEAN,
           base' \in [Tables -> SUBSET Row],
           committed' \in [Tables -> SUBSET Row],
           Matches(batch_state', appenders')
    PROVE  BatchInv'
<1>1. appenders' \in [Tables -> Appender]
  BY Zenon DEF GoodAppender
<1> QED
  BY <1>1, MatchesAppenders, Zenon
     DEF BatchInv, TypeInv, TypeOK, IdleSessionIsClean

LEMMA RowDoneInv ==
    ASSUME BatchInv, NEW t \in Tables, NEW insert_only \in BOOLEAN,
           NEW T \in SUBSET Row, NEW a, NEW n,
           insert_only \/ get_appender(t, insert_only).use_tmp_table =>
               /\ a \in GoodAppender
               /\ a.use_tmp_table = get_appender(t, insert_only).use_tmp_table,
           RowDone(t, insert_only, T, a, n)
    PROVE  BatchInv'
<1> DEFINE bs == get_batch_state(insert_only)
           A == AppendersFor(insert_only)
<1>1. /\ BaseFor(insert_only) \in [Tables -> SUBSET Row]
      /\ A \in [Tables -> GoodAppender]
      /\ bs \in BatchStates \ {"UNDEFINED"}
      /\ Matches(bs, A)
  BY RowOperands, Zenon
<1>2. /\ dml_in_batch' \in BOOLEAN
      /\ batch_state' = bs
      /\ trx' = "active"
      /\ aborted' \in BOOLEAN
      /\ committed' \in [Tables -> SUBSET Row]
  BY Zenon DEF RowDone, Prologue, BatchInv, TypeInv, TypeOK
<1>3. base' \in [Tables -> SUBSET Row]
  BY <1>1, Zenon DEF RowDone
<1>4. CASE appenders' = A
  BY <1>1, <1>2, <1>3, <1>4, BatchInvNotIdle, Zenon
<1>5. CASE appenders' # A
  <2>1. /\ bs # "NOT_IN_BATCH"
        /\ appenders' = [A EXCEPT ![t] = a]
        /\ insert_only \/ get_appender(t, insert_only).use_tmp_table
    BY <1>5, Zenon DEF RowDone
  <2>2. a \in GoodAppender /\ a.use_tmp_table = get_appender(t, insert_only).use_tmp_table
    BY <2>1, Zenon
  <2>3. appenders' \in [Tables -> GoodAppender]
    BY <1>1, <2>1, <2>2, Zenon
  <2>4. a.use_tmp_table = (bs # "IN_INSERT_ONLY_BATCH")
    <3>1. CASE A[t].open
      <4>1. get_appender(t, insert_only) = A[t]
        BY <3>1, Zenon DEF get_appender
      <4>2. A[t].use_tmp_table \in BOOLEAN
        BY <1>1, Zenon DEF GoodAppender, Appender
      <4>3. bs \in {"IN_INSERT_ONLY_BATCH", "IN_MIX_BATCH"}
        BY <1>1, <2>1, Zenon DEF BatchStates
      <4>4. /\ bs = "IN_INSERT_ONLY_BATCH" => ~A[t].use_tmp_table
            /\ bs = "IN_MIX_BATCH" => A[t].use_tmp_table
        BY <1>1, <3>1, Zenon DEF Matches
      <4> QED
        BY <2>2, <4>1, <4>2, <4>3, <4>4, Zenon
    <3>2. CASE ~A[t].open
      BY <2>2, <3>2, Zenon DEF get_appender, NewAppender
    <3> QED
      BY <3>1, <3>2, Zenon
  <2>5. Matches(bs, appenders')
    BY <1>1, <2>1, <2>4, Zenon DEF Matches
  <2> QED
    BY <1>1, <1>2, <1>3, <2>3, <2>5, BatchInvNotIdle, Zenon
<1> QED
  BY <1>4, <1>5, Zenon

LEMMA FlushAllFailsInv ==
    ASSUME BatchInv, FlushAllFails, trx' \in {"active", "failed"},
           UNCHANGED <<dml_in_batch, committed>>
    PROVE  BatchInv'
<1>1. TypeInv
  BY Zenon DEF BatchInv
<1>2. /\ dml_in_batch' \in BOOLEAN
      /\ batch_state' \in BatchStates
      /\ committed' \in [Tables -> SUBSET Row]
  BY <1>1, FlushAllFailsType, Zenon DEF TypeInv, TypeOK
<1>3. Matches(batch_state', appenders')
  BY <1>1, FlushAllFailsType, MatchesAppenders, Zenon DEF BatchInv, Matches
<1> QED
  BY <1>1, <1>2, <1>3, FlushAllFailsType, BatchInvNotIdle, Zenon

(* The appenders are all flushed or discarded, the transaction goes on. *)
LEMMA FlushedInv ==
    ASSUME BatchInv, appenders' = NoAppenders, batch_state' \in BatchStates,
           trx' \in {"active", "prepared"}, aborted' \in BOOLEAN,
           base' \in [Tables -> SUBSET Row],
           UNCHANGED <<dml_in_batch, committed>>
    PROVE  BatchInv'
<1>1. /\ dml_in_batch' \in BOOLEAN
      /\ committed' \in [Tables -> SUBSET Row]
  BY Zenon DEF BatchInv, TypeInv, TypeOK
<1>2. /\ appenders' \in [Tables -> GoodAppender]
      /\ Matches(batch_state', appenders')
  BY NoAppendersType, Zenon
<1> QED
  BY <1>1, <1>2, BatchInvNotIdle, Zenon

(* The end of a transaction. *)
LEMMA EndedInv ==
    ASSUME BatchInv, appenders' = NoAppenders, batch_state' = "UNDEFINED",
           trx' = "none", aborted' = FALSE, dml_in_batch' = dml_in_batch,
           base' = committed', committed' \in [Tables -> SUBSET Row]
    PROVE  BatchInv'
<1>1. /\ dml_in_batch' \in BOOLEAN
      /\ batch_state' \in BatchStates
  BY Zenon DEF BatchInv, TypeInv, TypeOK, BatchStates
<1>2. /\ appenders' \in [Tables -> GoodAppender]
      /\ appenders' \in [Tables -> Appender]
      /\ Matches(batch_state', appenders')
      /\ \A t \in Tables : ~appenders'[t].open
  BY NoAppendersType, Zenon DEF GoodAppender
<1>3. IdleSessionIsClean'
  BY <1>2, Zenon DEF IdleSessionIsClean, Open
<1> QED
  BY <1>1, <1>2, <1>3, MatchesAppenders, Zenon DEF BatchInv, TypeInv, TypeOK

LEMMA BrokenType ==
    ASSUME NEW a \in GoodAppender, NEW b \in Broken(a)
    PROVE  /\ b \in GoodAppender
           /\ [b EXCEPT !.has_insert = TRUE] \in GoodAppender
           /\ [b EXCEPT !.has_delete = TRUE] \in GoodAppender
<1>1. PICK x \in BOOLEAN : b = [a EXCEPT !.row_count = @ + 1, !.incomplete = x]
  BY Zenon DEF Broken
<1>2. a \in Appender /\ RowsFit(a) /\ a.row_count + 1 \in Nat
  BY DEF GoodAppender, Appender
<1>3. ASSUME NEW n \in Nat
      PROVE  [a EXCEPT !.row_count = n, !.incomplete = x] \in Appender
  BY <1>2, Zenon DEF Appender
<1>4. b \in Appender
  BY <1>1, <1>2, <1>3, Zenon
<1>5. b.rows = a.rows /\ b.use_tmp_table = a.use_tmp_table
  BY <1>1, <1>2, Zenon DEF Appender
<1>6. /\ [b EXCEPT !.has_insert = TRUE] \in Appender
      /\ [b EXCEPT !.has_delete = TRUE] \in Appender
  BY <1>4, Zenon DEF Appender
<1>7. /\ [b EXCEPT !.has_insert = TRUE].rows = a.rows
      /\ [b EXCEPT !.has_insert = TRUE].use_tmp_table = a.use_tmp_table
      /\ [b EXCEPT !.has_delete = TRUE].rows = a.rows
      /\ [b EXCEPT !.has_delete = TRUE].use_tmp_table = a.use_tmp_table
  BY <1>4, <1>5, Zenon DEF Appender
<1> QED
  BY <1>2, <1>4, <1>5, <1>6, <1>7, Zenon DEF GoodAppender, RowsFit

LEMMA FailedAppendType ==
    ASSUME NEW a \in GoodAppender, NEW old \in Keys
    PROVE  /\ FailedInsert(a) \subseteq GoodAppender
           /\ FailedDelete(a) \subseteq GoodAppender
           /\ FailedUpdate(a, old) \subseteq GoodAppender
<1>1. \A c \in GoodAppender : FailedInsert(c) \subseteq GoodAppender
  BY BrokenType, Zenon DEF FailedInsert
<1>2. FailedDelete(a) \subseteq GoodAppender
  BY BrokenType, Zenon DEF FailedDelete
<1>3. FailedUpdate(a, old) \subseteq GoodAppender
  BY <1>1, <1>2, AppendDeleteType, Zenon DEF FailedUpdate
<1> QED
  BY <1>1, <1>2, <1>3, Zenon

LEMMA AppendFailsInv ==
    ASSUME BatchInv, NEW t \in Tables, NEW insert_only \in BOOLEAN,
           NEW T \in SUBSET Row, NEW As \in SUBSET GoodAppender, NEW op,
           AppendFails(t, insert_only, T, As, op)
    PROVE  BatchInv'
<1>1. /\ BaseFor(insert_only) \in [Tables -> SUBSET Row]
      /\ AppendersFor(insert_only) \in [Tables -> GoodAppender]
  BY RowOperands, Zenon
<1>2. /\ dml_in_batch' \in BOOLEAN
      /\ batch_state' = "NOT_IN_BATCH"
      /\ trx' = "active"
      /\ aborted' \in BOOLEAN
      /\ committed' \in [Tables -> SUBSET Row]
  BY Zenon DEF AppendFails, Prologue, BatchInv, TypeInv, TypeOK
<1>3. base' \in [Tables -> SUBSET Row]
  BY <1>1, Zenon DEF AppendFails
<1>4. appenders' \in [Tables -> GoodAppender]
  BY <1>1, Zenon DEF AppendFails
<1>5. batch_state' \in BatchStates /\ Matches(batch_state', appenders')
  BY <1>2, Zenon DEF Matches, BatchStates
<1> QED
  BY <1>2, <1>3, <1>4, <1>5, BatchInvNotIdle, Zenon

LEMMA RowFailsInv ==
    ASSUME BatchInv, NEW insert_only \in BOOLEAN, RowFails(insert_only)
    PROVE  BatchInv'
<1>1. CASE FlushAllFails /\ trx' = "active" /\ UNCHANGED <<dml_in_batch, committed>>
  BY <1>1, FlushAllFailsInv, Zenon
<1>2. CASE /\ Prologue(insert_only)
           /\ batch_state' = "NOT_IN_BATCH"
           /\ base' = BaseFor(insert_only)
           /\ appenders' = AppendersFor(insert_only)
           /\ aborted' \in {aborted, TRUE}
  <2>1. /\ BaseFor(insert_only) \in [Tables -> SUBSET Row]
        /\ AppendersFor(insert_only) \in [Tables -> GoodAppender]
    BY ViewType, NoAppendersType, Zenon
       DEF BatchInv, TypeInv, TypeOK, BaseFor, AppendersFor
  <2>2. /\ dml_in_batch' \in BOOLEAN
        /\ trx' = "active"
        /\ aborted' \in BOOLEAN
        /\ committed' \in [Tables -> SUBSET Row]
    BY <1>2, Zenon DEF Prologue, BatchInv, TypeInv, TypeOK
  <2>3. batch_state' \in BatchStates /\ Matches(batch_state', appenders')
    BY <1>2, Zenon DEF Matches, BatchStates
  <2> QED
    BY <1>2, <2>1, <2>2, <2>3, BatchInvNotIdle, Zenon
<1> QED
  BY <1>1, <1>2, Zenon DEF RowFails

LEMMA SpillInv ==
    ASSUME BatchInv, NEW t \in Tables, Spill(t)
    PROVE  BatchInv'
<1> DEFINE b == [appenders[t] EXCEPT !.rows = {}]
<1>1. appenders[t] \in GoodAppender /\ ~appenders[t].use_tmp_table
  BY Zenon DEF BatchInv, TypeInv, Spill
<1>2. RowsOf(appenders[t].rows) \in SUBSET Row
  BY <1>1 DEF RowsOf, GoodAppender, Appender, RowsFit, DeltaRow, Row
<1>3. base' \in [Tables -> SUBSET Row]
  BY <1>2, Zenon DEF BatchInv, TypeInv, TypeOK, Spill
<1>4. /\ b \in GoodAppender
      /\ b.open = appenders[t].open
      /\ b.use_tmp_table = appenders[t].use_tmp_table
  BY <1>1, Zenon DEF GoodAppender, Appender, RowsFit
<1>5. /\ appenders \in [Tables -> GoodAppender]
      /\ appenders' = [appenders EXCEPT ![t] = b]
  BY Zenon DEF BatchInv, TypeInv, Spill
<1>6. /\ appenders' \in [Tables -> GoodAppender]
      /\ \A u \in Tables : /\ appenders'[u].open = appenders[u].open
                           /\ appenders'[u].use_tmp_table = appenders[u].use_tmp_table
  BY <1>4, <1>5, Zenon
<1>7. Matches(batch_state', appenders')
  BY <1>6, MatchesAppenders, Zenon DEF BatchInv, Matches, Spill
<1>8. /\ dml_in_batch' \in BOOLEAN /\ batch_state' \in BatchStates
      /\ trx' = "active" /\ aborted' \in BOOLEAN
      /\ committed' \in [Tables -> SUBSET Row]
  BY Zenon DEF BatchInv, TypeInv, TypeOK, Spill
<1> QED
  BY <1>3, <1>6, <1>7, <1>8, BatchInvNotIdle, Zenon

LEMMA DeleteAllRowsInv ==
    ASSUME BatchInv, NEW t \in Tables, delete_all_rows(t)
    PROVE  BatchInv'
<1>1. Closed \in GoodAppender /\ ~Closed.open
  BY NewAppenderType, Zenon DEF Closed, NewAppender
<1>2. /\ appenders \in [Tables -> GoodAppender]
      /\ appenders' = [appenders EXCEPT ![t] = Closed]
  BY Zenon DEF BatchInv, TypeInv, delete_all_rows
<1>3. /\ appenders' \in [Tables -> GoodAppender]
      /\ \A u \in Tables : appenders'[u].open => appenders'[u] = appenders[u]
                                                  /\ appenders[u].open
  BY <1>1, <1>2, Zenon
<1>4. Matches(batch_state', appenders')
  BY <1>3, MatchesAppenders, Zenon DEF BatchInv, Matches, delete_all_rows
<1>5. /\ dml_in_batch' \in BOOLEAN /\ batch_state' \in BatchStates
      /\ trx' = "active" /\ aborted' \in BOOLEAN
      /\ base' \in [Tables -> SUBSET Row]
      /\ committed' \in [Tables -> SUBSET Row]
  BY Zenon DEF BatchInv, TypeInv, TypeOK, delete_all_rows
<1> QED
  BY <1>3, <1>4, <1>5, BatchInvNotIdle, Zenon

LEMMA WriteRowInv ==
    ASSUME BatchInv, NEW t \in Tables, NEW k \in Keys, NEW v \in Vals
    PROVE  /\ write_row(t, k, v) => BatchInv'
           /\ write_row_append_fails(t, k, v) => BatchInv'
<1> DEFINE T == BaseFor(TRUE)[t] \cup {<<k, v>>}
<1>1. T \in SUBSET Row /\ get_appender(t, TRUE) \in GoodAppender
  <2>1. /\ BaseFor(TRUE) \in [Tables -> SUBSET Row]
        /\ get_appender(t, TRUE) \in GoodAppender
    BY RowOperands, Zenon
  <2>2. <<k, v>> \in Row
    BY Zenon DEF Row
  <2> QED
    BY <2>1, <2>2, Zenon
<1>2. write_row(t, k, v) => BatchInv'
  BY <1>1, AppendInsertType, RowDoneInv, Zenon DEF write_row
<1>3. write_row_append_fails(t, k, v) => BatchInv'
  BY <1>1, FailedAppendType, AppendFailsInv, Zenon DEF write_row_append_fails
<1> QED
  BY <1>2, <1>3, Zenon

LEMMA UpdateRowInv ==
    ASSUME BatchInv, NEW t \in Tables, NEW old \in Keys, NEW k \in Keys,
           NEW v \in Vals
    PROVE  /\ update_row(t, old, k, v) => BatchInv'
           /\ update_row_append_fails(t, old, k, v) => BatchInv'
<1> DEFINE T == SqlUpdate(BaseFor(FALSE)[t], old, k, v)
<1>1. T \in SUBSET Row /\ get_appender(t, FALSE) \in GoodAppender
  <2>1. /\ BaseFor(FALSE) \in [Tables -> SUBSET Row]
        /\ get_appender(t, FALSE) \in GoodAppender
    BY RowOperands, Zenon
  <2>2. <<k, v>> \in Row /\ Without(BaseFor(FALSE)[t], {old}) \in SUBSET Row
    BY <2>1, WithoutType, Zenon DEF Row
  <2> QED
    BY <2>1, <2>2, Zenon DEF SqlUpdate
<1>2. update_row(t, old, k, v) => BatchInv'
  BY <1>1, AppendUpdateType, RowDoneInv, Zenon DEF update_row
<1>3. update_row_append_fails(t, old, k, v) => BatchInv'
  BY <1>1, FailedAppendType, AppendFailsInv, Zenon DEF update_row_append_fails
<1> QED
  BY <1>2, <1>3, Zenon

LEMMA DeleteRowInv ==
    ASSUME BatchInv, NEW t \in Tables, NEW k \in Keys
    PROVE  /\ delete_row(t, k) => BatchInv'
           /\ delete_row_append_fails(t, k) => BatchInv'
<1> DEFINE T == Without(BaseFor(FALSE)[t], {k})
<1>1. T \in SUBSET Row /\ get_appender(t, FALSE) \in GoodAppender
  BY RowOperands, WithoutType, Zenon
<1>2. delete_row(t, k) => BatchInv'
  BY <1>1, AppendDeleteType, RowDoneInv, Zenon DEF delete_row
<1>3. delete_row_append_fails(t, k) => BatchInv'
  BY <1>1, FailedAppendType, AppendFailsInv, Zenon DEF delete_row_append_fails
<1> QED
  BY <1>2, <1>3, Zenon

LEMMA ScanAndDirectInv ==
    ASSUME BatchInv
    PROVE  /\ \A t \in Tables : rnd_init(t) => BatchInv'
           /\ \A t \in Tables, K \in SUBSET Keys : direct_delete_rows(t, K) => BatchInv'
           /\ \A t \in Tables, K \in SUBSET Keys, v \in Vals :
                direct_update_rows(t, K, v) => BatchInv'
           /\ FlushThenFails => BatchInv'
<1>1. /\ FlushedBase \in [Tables -> SUBSET Row]
      /\ aborted \in BOOLEAN
      /\ "UNDEFINED" \in BatchStates
  BY ViewType, Zenon DEF BatchInv, TypeInv, TypeOK, BatchStates
<1>2. \A t \in Tables : rnd_init(t) => BatchInv'
  BY <1>1, FlushedInv, Zenon DEF rnd_init, FlushAppenders
<1>3. ASSUME NEW t \in Tables, NEW T \in SUBSET Row, DirectDone(t, T)
      PROVE  BatchInv'
  BY <1>1, <1>3, FlushedInv, Zenon DEF DirectDone
<1>4. \A t \in Tables, K \in SUBSET Keys : direct_delete_rows(t, K) => BatchInv'
  BY <1>1, <1>3, WithoutType, Zenon DEF direct_delete_rows
<1>5. ASSUME NEW t \in Tables, NEW K \in SUBSET Keys, NEW v \in Vals,
             direct_update_rows(t, K, v)
      PROVE  BatchInv'
  <2>1. Without(FlushedBase[t], K) \in SUBSET Row
    BY <1>1, WithoutType, Zenon
  <2>2. {<<k, v>> : k \in K \cap KeysOf(FlushedBase[t])} \in SUBSET Row
    BY DEF Row
  <2> QED
    BY <1>3, <1>5, <2>1, <2>2, Zenon DEF direct_update_rows
<1>6. FlushThenFails => BatchInv'
  <2>1. CASE FlushAllFails /\ trx' = "active" /\ UNCHANGED <<dml_in_batch, committed>>
    BY <2>1, FlushAllFailsInv, Zenon
  <2>2. CASE /\ base' = FlushedBase
             /\ appenders' = NoAppenders
             /\ batch_state' = "UNDEFINED"
             /\ aborted' \in {aborted, TRUE}
             /\ trx' = "active"
             /\ UNCHANGED <<dml_in_batch, committed>>
    BY <1>1, <2>2, FlushedInv, Zenon
  <2> QED
    BY <2>1, <2>2, Zenon DEF FlushThenFails
<1> QED
  BY <1>2, <1>4, <1>5, <1>6, Zenon

LEMMA TransactionInv ==
    ASSUME BatchInv
    PROVE  /\ duckdb_prepare => BatchInv'
           /\ duckdb_commit => BatchInv'
           /\ duckdb_rollback => BatchInv'
           /\ SetDmlInBatch => BatchInv'
           /\ Rejected => BatchInv'
<1>1. /\ FlushedBase \in [Tables -> SUBSET Row]
      /\ aborted \in BOOLEAN
      /\ committed \in [Tables -> SUBSET Row]
      /\ "UNDEFINED" \in BatchStates
  BY ViewType, Zenon DEF BatchInv, TypeInv, TypeOK, BatchStates
<1>2. duckdb_prepare => BatchInv'
  <2>1. CASE FlushAppenders /\ trx' = "prepared" /\ UNCHANGED <<dml_in_batch, committed>>
    BY <1>1, <2>1, FlushedInv, Zenon DEF FlushAppenders
  <2>2. CASE FlushAllFails /\ trx' = "failed" /\ UNCHANGED <<dml_in_batch, committed>>
    BY <2>2, FlushAllFailsInv, Zenon
  <2> QED
    BY <2>1, <2>2, Zenon DEF duckdb_prepare
<1>3. TransRollback => BatchInv'
  BY <1>1, EndedInv, Zenon DEF TransRollback
<1>4. duckdb_commit => BatchInv'
  BY <1>1, <1>3, EndedInv, Zenon DEF duckdb_commit
<1>5. duckdb_rollback => BatchInv'
  BY <1>3, Zenon DEF duckdb_rollback
<1>6. SetDmlInBatch => BatchInv'
  BY DEF SetDmlInBatch, BatchInv, TypeInv, TypeOK, BatchStateMatchesAppenders,
         IdleSessionIsClean, Open
<1>7. Rejected => BatchInv'
  <2> SUFFICES ASSUME Rejected PROVE BatchInv'
    BY Zenon
  <2>1. UNCHANGED <<dml_in_batch, batch_state, appenders, base, committed>>
    BY Zenon DEF Rejected
  <2>2. CASE UNCHANGED <<trx, aborted>>
    BY <2>1, <2>2, Zenon DEF BatchInv, TypeInv, TypeOK, BatchStateMatchesAppenders,
                      IdleSessionIsClean, Open
  <2>3. CASE trx' = "active" /\ aborted' \in {aborted, TRUE}
    <3>1. aborted' \in BOOLEAN
      BY <1>1, <2>3, Zenon
    <3>2. TypeInv'
      BY <2>1, <2>3, <3>1, Zenon DEF BatchInv, TypeInv, TypeOK
    <3> QED
      BY <2>1, <2>3, <3>2, Zenon DEF BatchInv, BatchStateMatchesAppenders,
                              IdleSessionIsClean, Open
  <2> QED
    BY <2>2, <2>3, Zenon DEF Rejected
<1> QED
  BY <1>2, <1>4, <1>5, <1>6, <1>7, Zenon

---------------------------------------------------------------------------

(* The initial state has it: no appender, no transaction, empty tables. *)
LEMMA InitBatchInv == Init => BatchInv
<1> SUFFICES ASSUME Init PROVE BatchInv
  BY Zenon
<1>1. TypeInv
  BY NoAppendersType, Zenon DEF Init, TypeInv, TypeOK, BatchStates, GoodAppender
<1>2. \A t \in Tables : ~appenders[t].open
  BY NoAppendersType, Zenon DEF Init
<1> QED
  BY <1>1, <1>2, Zenon
     DEF Init, BatchInv, BatchStateMatchesAppenders, IdleSessionIsClean, Open

(* Every step of the session keeps it. *)
LEMMA NextBatchInv == BatchInv /\ [Next]_vars => BatchInv'
<1> SUFFICES ASSUME BatchInv, [Next]_vars PROVE BatchInv'
  BY Zenon
<1>1. ASSUME NEW t \in Tables, NEW k \in Keys, NEW v \in Vals,
             write_row(t, k, v) \/ write_row_append_fails(t, k, v)
      PROVE  BatchInv'
  BY <1>1, WriteRowInv, Zenon
<1>2. ASSUME NEW t \in Tables, NEW old \in Keys, NEW k \in Keys, NEW v \in Vals,
             update_row(t, old, k, v) \/ update_row_append_fails(t, old, k, v)
      PROVE  BatchInv'
  BY <1>2, UpdateRowInv, Zenon
<1>3. ASSUME NEW t \in Tables, NEW k \in Keys,
             delete_row(t, k) \/ delete_row_append_fails(t, k)
      PROVE  BatchInv'
  BY <1>3, DeleteRowInv, Zenon
<1>4. ASSUME NEW insert_only \in BOOLEAN, RowFails(insert_only)
      PROVE  BatchInv'
  BY <1>4, RowFailsInv, Zenon
<1>5. ASSUME NEW t \in Tables, Spill(t) \/ delete_all_rows(t)
      PROVE  BatchInv'
  BY <1>5, SpillInv, DeleteAllRowsInv, Zenon
<1>6. ASSUME NEW t \in Tables, rnd_init(t)
      PROVE  BatchInv'
  BY <1>6, ScanAndDirectInv, Zenon
<1>7. ASSUME NEW t \in Tables, NEW K \in SUBSET Keys, direct_delete_rows(t, K)
      PROVE  BatchInv'
  BY <1>7, ScanAndDirectInv, Zenon
<1>8. ASSUME NEW t \in Tables, NEW K \in SUBSET Keys, NEW v \in Vals,
             direct_update_rows(t, K, v)
      PROVE  BatchInv'
  BY <1>8, ScanAndDirectInv, Zenon
<1>9. CASE FlushThenFails
  BY <1>9, ScanAndDirectInv, Zenon
<1>10. CASE \/ duckdb_prepare \/ duckdb_commit \/ duckdb_rollback
            \/ SetDmlInBatch \/ Rejected
  BY <1>10, TransactionInv, SMTT(30), Zenon
<1>11. CASE UNCHANGED vars
  BY <1>11, Zenon DEF vars, BatchInv, TypeInv, TypeOK, BatchStateMatchesAppenders,
               IdleSessionIsClean, Open
<1> QED
  BY <1>1, <1>2, <1>3, <1>4, <1>5, <1>6, <1>7, <1>8, <1>9, <1>10, <1>11, Zenon DEF Next

(* The inductive invariant holds in every state a session reaches. *)
THEOREM BatchInvariant == Spec => []BatchInv
BY InitBatchInv, NextBatchInv, PTL DEF Spec

(* Types are kept: in particular no delete marker ever becomes a row. *)
THEOREM TypeCorrect == Spec => []TypeOK
<1>1. BatchInv => TypeOK
  BY Zenon DEF BatchInv, TypeInv
<1> QED
  BY <1>1, BatchInvariant, PTL

(* The batch state always tells what is pending, so append_row_delete of   *)
(* DeltaAppender never runs into its "Delete requires a mixed batch".      *)
THEOREM BatchStateCorrect == Spec => []BatchStateMatchesAppenders
<1>1. BatchInv => BatchStateMatchesAppenders
  BY Zenon DEF BatchInv
<1> QED
  BY <1>1, BatchInvariant, PTL

(* Whichever way a transaction ends (duckdb_commit, a commit that fails,   *)
(* duckdb_rollback), nothing of it is left in the context.                 *)
THEOREM IdleSessionCorrect == Spec => []IdleSessionIsClean
<1>1. BatchInv => IdleSessionIsClean
  BY Zenon DEF BatchInv
<1> QED
  BY <1>1, BatchInvariant, PTL

---------------------------------------------------------------------------
(* What a flush leaves of the view *)

(* A flushed appender has nothing more to add to its table. *)
LEMMA FlushedIsEmpty ==
    ASSUME NEW a \in GoodAppender, NEW T
    PROVE  flush(Flushed(a), T) = T /\ Flushed(a).open = a.open
<1> DEFINE f == Flushed(a)
<1>1. f.rows = {} /\ f.open = a.open
  BY Zenon DEF Flushed, GoodAppender, Appender
<1> HIDE DEF f
<1>2. RowsOf(f.rows) = {} /\ DeltaKeys(f) = {} /\ appendLatestRowsQuery(f) = {}
  BY <1>1, Zenon DEF RowsOf, DeltaKeys, appendLatestRowsQuery
<1>3. Without(T, {}) = T
  BY Zenon DEF Without
<1>4. flush(f, T) = T
  BY <1>2, <1>3, Zenon DEF flush
<1> QED
  BY <1>1, <1>4, Zenon DEF f

(* A flush_all that stops half-way has moved rows from the appenders to    *)
(* the tables; what COMMIT would publish is the same.                      *)
LEMMA FlushAllFailsView ==
    ASSUME BatchInv, FlushAllFails
    PROVE  \A t \in Tables : View(t)' = View(t)
<1>1. PICK done \in SUBSET Open :
        /\ base' = [t \in Tables |-> IF t \in done THEN View(t) ELSE base[t]]
        /\ appenders' = [t \in Tables |-> IF t \in done THEN Flushed(appenders[t])
                                          ELSE appenders[t]]
  BY Zenon DEF FlushAllFails
<1> SUFFICES ASSUME NEW t \in Tables PROVE View(t)' = View(t)
  BY Zenon
<1>2. appenders[t] \in GoodAppender
  BY Zenon DEF BatchInv, TypeInv
<1>3. CASE t \in done
  <2>1. /\ appenders[t].open
        /\ base'[t] = View(t) /\ appenders'[t] = Flushed(appenders[t])
    BY <1>1, <1>3, Zenon DEF Open
  <2>2. /\ flush(appenders'[t], base'[t]) = View(t)
        /\ appenders'[t].open
    BY <1>2, <2>1, FlushedIsEmpty, SMTT(30), Zenon
  <2> QED
    BY <2>2, Zenon DEF View
<1>4. CASE t \notin done
  <2>1. base'[t] = base[t] /\ appenders'[t] = appenders[t]
    BY <1>1, <1>4, Zenon
  <2> QED
    BY <2>1, Zenon DEF View
<1> QED
  BY <1>3, <1>4, Zenon

LEMMA FlushedView ==
    ASSUME base' = FlushedBase, appenders' = NoAppenders
    PROVE  \A t \in Tables : View(t)' = View(t)
<1> SUFFICES ASSUME NEW t \in Tables PROVE View(t)' = View(t)
  BY Zenon
<1>1. ~appenders'[t].open
  BY NoAppendersType, Zenon
<1>2. base'[t] = View(t)
  BY Zenon DEF FlushedBase
<1> QED
  BY <1>1, <1>2, Zenon DEF View

---------------------------------------------------------------------------
(* BatchDml implements SessionTables: the session never notices whether its
   rows went through an appender, a temporary table or a statement.

   It holds for a client that keeps its keys unique, for tables with a primary
   key and for appenders that refuse no row.  The run batch_dml_fallback shows
   what happens when an append fails: the statement that replaces it overtakes
   the rows still pending. *)

(* What an appender a on table T has to satisfy for its flush to have the  *)
(* effect of its row operations, in their order.  The last conjunct is the *)
(* subtle one: a flush deletes no row of T before the batch has seen a     *)
(* delete marker, so until then no row of T may share a key with it.       *)
Ordered(a, T) ==
    /\ \A d \in a.rows : d.row_no <= a.row_count
    /\ ~a.has_insert => \A d \in a.rows : d.delete_flag
    /\ a.use_tmp_table /\ ~a.has_delete => KeysOf(T) \cap DeltaKeys(a) = {}

Sound(a, T) == ~a.incomplete /\ ~a.dropped /\ Ordered(a, T)

(* With BatchInv, the inductive invariant of the refinement. *)
PendingInv ==
    ~aborted => /\ batch_state = "NOT_IN_BATCH" => Open = {}
                /\ \A t \in Open : Sound(appenders[t], base[t])

---------------------------------------------------------------------------
(* What an append adds to the flush *)

LEMMA WithoutNone ==
    ASSUME NEW T, NEW K, KeysOf(T) \cap K = {}
    PROVE  Without(T, K) = T
BY Zenon DEF Without, KeysOf

(* The flush of an appender on a temporary table, by what it holds. *)
LEMMA MixedFlush ==
    ASSUME NEW a \in GoodAppender, NEW T, Ordered(a, T), a.use_tmp_table
    PROVE  flush(a, T) = Without(T, DeltaKeys(a)) \cup appendLatestRowsQuery(a)
<1>1. ~a.has_insert => appendLatestRowsQuery(a) = {}
  BY Zenon DEF Sound, Ordered, appendLatestRowsQuery, RowsOf
<1>2. ~a.has_delete => Without(T, DeltaKeys(a)) = T
  BY WithoutNone, Zenon DEF Sound, Ordered
<1> QED
  BY <1>1, <1>2, SMTT(30), Zenon DEF flush

(* A new row version or delete marker is the latest of its key. *)
LEMMA LatestRows ==
    ASSUME NEW a \in GoodAppender, NEW b \in GoodAppender, NEW d \in DeltaRow,
           \A e \in a.rows : e.row_no <= a.row_count,
           d.row_no = a.row_count + 1, b.rows = a.rows \cup {d}
    PROVE  /\ DeltaKeys(b) = DeltaKeys(a) \cup {d.key}
           /\ appendLatestRowsQuery(b) =
                Without(appendLatestRowsQuery(a), {d.key})
                  \cup (IF d.delete_flag THEN {} ELSE {<<d.key, d.ver>>})
<1>1. DeltaKeys(b) = DeltaKeys(a) \cup {d.key}
  BY Zenon DEF DeltaKeys
<1>2. /\ a.row_count \in Nat
      /\ \A e \in a.rows : e.row_no \in Nat /\ e.delete_flag \in BOOLEAN
      /\ d.delete_flag \in BOOLEAN
  BY Zenon DEF GoodAppender, Appender, DeltaRow
<1> DEFINE Latest(R) == {x \in R : /\ \A e \in R : e.key = x.key => e.row_no <= x.row_no
                                   /\ ~x.delete_flag}
<1>3. Latest(b.rows) = {x \in Latest(a.rows) : x.key # d.key}
                          \cup (IF d.delete_flag THEN {} ELSE {d})
  <2>1. ASSUME NEW x \in Latest(b.rows)
        PROVE  x \in {y \in Latest(a.rows) : y.key # d.key}
                        \cup (IF d.delete_flag THEN {} ELSE {d})
    BY <1>2
  <2>2. ASSUME NEW x \in Latest(a.rows), x.key # d.key
        PROVE  x \in Latest(b.rows)
    BY <1>2, <2>2, Zenon
  <2>3. ~d.delete_flag => d \in Latest(b.rows)
    BY <1>2
  <2> QED
    BY <2>1, <2>2, <2>3, SMTT(30), Zenon
<1>4. appendLatestRowsQuery(a) = RowsOf(Latest(a.rows))
  BY Zenon DEF appendLatestRowsQuery
<1>5. appendLatestRowsQuery(b) = RowsOf(Latest(b.rows))
  BY Zenon DEF appendLatestRowsQuery
<1> HIDE DEF Latest
<1>6. RowsOf({x \in Latest(a.rows) : x.key # d.key})
        = Without(RowsOf(Latest(a.rows)), {d.key})
  BY DEF RowsOf, Without
<1>7. RowsOf({d}) = {<<d.key, d.ver>>} /\ RowsOf({}) = {}
  BY Zenon DEF RowsOf
<1>8. \A P, Q : RowsOf(P \cup Q) = RowsOf(P) \cup RowsOf(Q)
  BY Zenon DEF RowsOf
<1> QED
  BY <1>1, <1>3, <1>4, <1>5, <1>6, <1>7, <1>8, SMTT(30), Zenon

(* append_row_insert of a key that is not in use adds the row. *)
LEMMA AppendInsertFlush ==
    ASSUME NEW a \in GoodAppender, NEW T, Sound(a, T),
           NEW k \in Keys, NEW v \in Vals, k \notin KeysOf(flush(a, T))
    PROVE  /\ flush(append_row_insert(a, k, v), T) = flush(a, T) \cup {<<k, v>>}
           /\ Sound(append_row_insert(a, k, v), T)
<1> DEFINE b == append_row_insert(a, k, v)
           d == [row_no |-> a.row_count + 1, key |-> k, ver |-> v, delete_flag |-> FALSE]
<1>1. /\ b \in GoodAppender
      /\ b.rows = a.rows \cup {d}
      /\ b.row_count = a.row_count + 1
      /\ b.has_insert = TRUE
      /\ b.has_delete = a.has_delete
      /\ b.use_tmp_table = a.use_tmp_table
      /\ ~b.incomplete /\ ~b.dropped
  <2>1. b \in GoodAppender
    BY AppendInsertType, Zenon
  <2>2. ~a.incomplete /\ ~a.dropped
    BY Zenon DEF Sound, Ordered
  <2>3. /\ b.rows = a.rows \cup {d}
        /\ b.row_count = a.row_count + 1
        /\ b.has_insert = TRUE
        /\ b.has_delete = a.has_delete
        /\ b.use_tmp_table = a.use_tmp_table
        /\ b.incomplete = a.incomplete /\ b.dropped = a.dropped
    BY Zenon DEF append_row_insert, GoodAppender, Appender
  <2> QED
    BY <2>1, <2>2, <2>3, Zenon
<1>2. /\ a.row_count \in Nat
      /\ a.rows \in SUBSET DeltaRow
      /\ a.has_delete \in BOOLEAN /\ a.use_tmp_table \in BOOLEAN
  BY Zenon DEF GoodAppender, Appender
<1>3. d \in DeltaRow
  BY <1>2 DEF DeltaRow
<1>4. d.row_no = a.row_count + 1 /\ d.key = k /\ d.ver = v /\ d.delete_flag = FALSE
  BY Zenon
<1> HIDE DEF b, d
<1>5. \A e \in a.rows : e.row_no <= a.row_count
  BY Zenon DEF Sound, Ordered
<1>6. \A e \in b.rows : e.row_no <= b.row_count
  <2>1. \A e \in a.rows : e.row_no \in Nat
    BY <1>2, SMTT(30), Zenon DEF DeltaRow
  <2> QED
    BY <1>1, <1>2, <1>4, <1>5, <2>1, SMTT(30), Zenon
<1>7. /\ DeltaKeys(b) = DeltaKeys(a) \cup {k}
      /\ appendLatestRowsQuery(b) = Without(appendLatestRowsQuery(a), {k}) \cup {<<k, v>>}
  BY <1>1, <1>3, <1>4, <1>5, LatestRows, SMTT(30), Zenon
<1>8. CASE ~a.use_tmp_table
  <2>1. flush(a, T) = T \cup RowsOf(a.rows) /\ flush(b, T) = T \cup RowsOf(b.rows)
    BY <1>1, <1>8, SMTT(30), Zenon DEF flush
  <2>2. RowsOf(b.rows) = RowsOf(a.rows) \cup {<<k, v>>}
    BY <1>1, <1>4, SMTT(30), Zenon DEF RowsOf
  <2>3. Sound(b, T)
    BY <1>1, <1>6, <1>8, Zenon DEF Sound, Ordered
  <2> QED
    BY <2>1, <2>2, <2>3, SMTT(30), Zenon DEF b
<1>9. CASE a.use_tmp_table
  <2>1. flush(a, T) = Without(T, DeltaKeys(a)) \cup appendLatestRowsQuery(a)
    BY <1>9, MixedFlush, Zenon DEF Sound
  <2>2. k \notin KeysOf(Without(T, DeltaKeys(a))) /\ k \notin KeysOf(appendLatestRowsQuery(a))
    BY <2>1, SMTT(30), Zenon DEF KeysOf
  <2>3. Sound(b, T)
    <3>1. ASSUME ~b.has_delete PROVE KeysOf(T) \cap DeltaKeys(b) = {}
      <4>1. KeysOf(T) \cap DeltaKeys(a) = {}
        BY <1>1, <1>9, <3>1, Zenon DEF Sound, Ordered
      <4>2. Without(T, DeltaKeys(a)) = T
        BY <4>1, WithoutNone, Zenon
      <4> QED
        BY <1>7, <2>2, <4>1, <4>2, SMTT(30), Zenon
    <3> QED
      BY <1>1, <1>6, <3>1, Zenon DEF Sound, Ordered
  <2>4. flush(b, T) = Without(T, DeltaKeys(b)) \cup appendLatestRowsQuery(b)
    BY <1>1, <1>9, <2>3, MixedFlush, Zenon DEF Sound
  <2>5. Without(T, DeltaKeys(b)) = Without(T, DeltaKeys(a))
    BY <1>7, <2>2, SMTT(30), Zenon DEF Without, KeysOf
  <2>6. Without(appendLatestRowsQuery(a), {k}) = appendLatestRowsQuery(a)
    BY <2>2, Zenon DEF Without, KeysOf
  <2> QED
    BY <1>7, <2>1, <2>3, <2>4, <2>5, <2>6, Zenon DEF b
<1> QED
  BY <1>2, <1>8, <1>9, Zenon

(* append_row_delete removes the key from the flush. *)
LEMMA AppendDeleteFlush ==
    ASSUME NEW a \in GoodAppender, NEW T, Ordered(a, T), a.use_tmp_table, NEW k \in Keys
    PROVE  /\ flush(append_row_delete(a, k), T) = Without(flush(a, T), {k})
           /\ Ordered(append_row_delete(a, k), T)
           /\ Sound(a, T) => Sound(append_row_delete(a, k), T)
<1> DEFINE b == append_row_delete(a, k)
           d == [row_no |-> a.row_count + 1, key |-> k, ver |-> NoVal, delete_flag |-> TRUE]
<1>1. /\ b \in GoodAppender
      /\ b.rows = a.rows \cup {d}
      /\ b.row_count = a.row_count + 1
      /\ b.has_insert = a.has_insert
      /\ b.has_delete = TRUE
      /\ b.use_tmp_table = a.use_tmp_table
      /\ b.incomplete = a.incomplete /\ b.dropped = a.dropped
  <2>1. b \in GoodAppender
    BY AppendDeleteType, Zenon
  <2>2. /\ b.rows = a.rows \cup {d}
        /\ b.row_count = a.row_count + 1
        /\ b.has_insert = a.has_insert
        /\ b.has_delete = TRUE
        /\ b.use_tmp_table = a.use_tmp_table
        /\ b.incomplete = a.incomplete /\ b.dropped = a.dropped
    BY Zenon DEF append_row_delete, GoodAppender, Appender
  <2> QED
    BY <2>1, <2>2, Zenon
<1>2. a.row_count \in Nat /\ a.rows \in SUBSET DeltaRow
  BY Zenon DEF GoodAppender, Appender
<1>3. d \in DeltaRow
  BY <1>2, SMTT(30), Zenon DEF DeltaRow
<1>4. d.row_no = a.row_count + 1 /\ d.key = k /\ d.delete_flag = TRUE
  BY Zenon
<1> HIDE DEF b, d
<1>5. \A e \in a.rows : e.row_no <= a.row_count
  BY Zenon DEF Sound, Ordered
<1>6. \A e \in b.rows : e.row_no <= b.row_count
  <2>1. \A e \in a.rows : e.row_no \in Nat
    BY <1>2, Zenon DEF DeltaRow
  <2> QED
    BY <1>1, <1>2, <1>4, <1>5, <2>1
<1>7. /\ DeltaKeys(b) = DeltaKeys(a) \cup {k}
      /\ appendLatestRowsQuery(b) = Without(appendLatestRowsQuery(a), {k})
  <2>1. /\ DeltaKeys(b) = DeltaKeys(a) \cup {d.key}
        /\ appendLatestRowsQuery(b) =
             Without(appendLatestRowsQuery(a), {d.key})
               \cup (IF d.delete_flag THEN {} ELSE {<<d.key, d.ver>>})
    BY <1>1, <1>3, <1>4, <1>5, LatestRows, Zenon
  <2> QED
    BY <1>4, <2>1, Zenon
<1>8. Ordered(b, T)
  BY <1>1, <1>4, <1>6, Zenon DEF Ordered
<1>9. /\ flush(a, T) = Without(T, DeltaKeys(a)) \cup appendLatestRowsQuery(a)
      /\ flush(b, T) = Without(T, DeltaKeys(b)) \cup appendLatestRowsQuery(b)
  BY <1>1, <1>8, MixedFlush, Zenon
<1>10. flush(b, T) = Without(flush(a, T), {k})
  <2>1. Without(T, DeltaKeys(b)) = Without(Without(T, DeltaKeys(a)), {k})
    BY <1>7, SMTT(30), Zenon DEF Without
  <2> QED
    BY <1>7, <1>9, <2>1, SMTT(30), Zenon DEF Without
<1>11. Sound(a, T) => Sound(b, T)
  BY <1>1, <1>8, Zenon DEF Sound
<1> QED
  BY <1>8, <1>10, <1>11, Zenon DEF b

(* append_row_update replaces the row, if the new key is not another row's. *)
LEMMA AppendUpdateFlush ==
    ASSUME NEW a \in GoodAppender, NEW T, Sound(a, T), a.use_tmp_table,
           NEW old \in Keys, NEW k \in Keys, NEW v \in Vals,
           k # old => k \notin KeysOf(flush(a, T))
    PROVE  /\ flush(append_row_update(a, old, k, v), T)
                = Without(flush(a, T), {old}) \cup {<<k, v>>}
           /\ Sound(append_row_update(a, old, k, v), T)
<1> DEFINE b == append_row_delete(a, old)
<1>1. /\ b \in GoodAppender
      /\ flush(b, T) = Without(flush(a, T), {old})
      /\ Sound(b, T)
  BY AppendDeleteType, AppendDeleteFlush, Zenon DEF Sound
<1>2. append_row_update(a, old, k, v) = append_row_insert(b, k, v)
  BY Zenon DEF append_row_update
<1> HIDE DEF b
<1>3. k \notin KeysOf(flush(b, T))
  BY <1>1, Zenon DEF KeysOf, Without
<1> QED
  BY <1>1, <1>2, <1>3, AppendInsertFlush, SMTT(30), Zenon

(* An appender just created has nothing to flush. *)
LEMMA NewAppenderFlush ==
    ASSUME NEW use_tmp \in BOOLEAN, NEW T
    PROVE  flush(NewAppender(use_tmp), T) = T /\ Sound(NewAppender(use_tmp), T)
<1> DEFINE a == NewAppender(use_tmp)
<1>1. /\ a.rows = {} /\ ~a.has_insert /\ ~a.has_delete
      /\ ~a.incomplete /\ ~a.dropped
  BY Zenon DEF NewAppender
<1> HIDE DEF a
<1>2. RowsOf(a.rows) = {} /\ DeltaKeys(a) = {}
  BY <1>1, SMTT(30), Zenon DEF RowsOf, DeltaKeys
<1>3. flush(a, T) = T
  BY <1>1, <1>2, SMTT(30), Zenon DEF flush
<1>4. Sound(a, T)
  BY <1>1, <1>2, Zenon DEF Sound, Ordered
<1> QED
  BY <1>3, <1>4, SMTT(30), Zenon DEF a

---------------------------------------------------------------------------
(* What an operation that fails leaves behind *)

(* What an appender a on table T is like when the client keeps its keys    *)
(* unique, failed appends and plain statements included: until the first   *)
(* delete marker every row version is a new row, of a key that T has not.  *)
(* That is why a failed append may set has_delete without having appended  *)
(* a marker: the flush then deletes the keys of the batch from T, and      *)
(* finds none.                                                             *)
Apart(a, T) ==
    /\ a.open \/ a.rows = {}
    /\ a.use_tmp_table =>
          /\ Ordered(a, T)
          /\ ~a.has_delete =>
                \A d, e \in a.rows : ~d.delete_flag /\ (d.key = e.key => d = e)

KeysInv == UniqueKeys => \A t \in Tables : Apart(appenders[t], base[t])

LEMMA EmptyIsApart ==
    ASSUME NEW a, NEW T, a.rows = {}
    PROVE  Apart(a, T)
<1>1. DeltaKeys(a) = {}
  BY Zenon DEF DeltaKeys
<1> QED
  BY <1>1, Zenon DEF Apart, Ordered

LEMMA ClosedIsApart ==
    ASSUME NEW T PROVE Apart(Closed, T) /\ \A t \in Tables : Apart(NoAppenders[t], T)
<1>1. Closed.rows = {} /\ \A t \in Tables : NoAppenders[t] = Closed
  BY Zenon DEF Closed, NewAppender, NoAppenders
<1>2. Apart(Closed, T)
  BY <1>1, EmptyIsApart, Zenon
<1> QED
  BY <1>1, <1>2, Zenon

(* The keys of the table and of the batch are all in use. *)
LEMMA KeysInUse ==
    ASSUME NEW a \in GoodAppender, NEW T, Apart(a, T), a.use_tmp_table, ~a.has_delete
    PROVE  DeltaKeys(a) \subseteq KeysOf(flush(a, T))
<1>1. flush(a, T) = Without(T, DeltaKeys(a)) \cup appendLatestRowsQuery(a)
  BY MixedFlush, Zenon DEF Apart
<1>2. ASSUME NEW d \in a.rows PROVE d.key \in KeysOf(flush(a, T))
  <2>1. ~d.delete_flag /\ \A e \in a.rows : e.key = d.key => e = d
    BY Zenon DEF Apart
  <2>2. d.row_no <= d.row_no
    <3>1. d.row_no \in Nat
      BY Zenon DEF GoodAppender, Appender, DeltaRow
    <3> QED
      BY ONLY <3>1, SMTT(30)
  <2>3. <<d.key, d.ver>> \in appendLatestRowsQuery(a)
    BY <2>1, <2>2, Zenon DEF appendLatestRowsQuery, RowsOf
  <2>4. <<d.key, d.ver>>[1] = d.key
    BY Zenon
  <2> QED
    BY <1>1, <2>3, <2>4, Zenon DEF KeysOf
<1> QED
  BY <1>2, Zenon DEF DeltaKeys

(* A statement that adds no key in use to the table leaves the batch apart. *)
LEMMA ApartBase ==
    ASSUME NEW a \in GoodAppender, NEW T, Apart(a, T), NEW S,
           \A r \in S : r[1] \in KeysOf(T) \/ r[1] \notin KeysOf(flush(a, T))
    PROVE  Apart(a, S)
<1>1. ASSUME a.use_tmp_table, ~a.has_delete PROVE KeysOf(S) \cap DeltaKeys(a) = {}
  <2>1. DeltaKeys(a) \subseteq KeysOf(flush(a, T))
    BY <1>1, KeysInUse, Zenon
  <2>2. KeysOf(T) \cap DeltaKeys(a) = {}
    BY <1>1, Zenon DEF Apart, Ordered
  <2> QED
    BY <2>1, <2>2, Zenon DEF KeysOf
<1> QED
  BY <1>1, Zenon DEF Apart, Ordered

LEMMA ApartInsert ==
    ASSUME NEW a \in GoodAppender, NEW T, Apart(a, T), a.open,
           NEW k \in Keys, NEW v \in Vals,
           a.has_delete \/ k \notin KeysOf(flush(a, T))
    PROVE  Apart(append_row_insert(a, k, v), T)
<1> DEFINE b == append_row_insert(a, k, v)
           d == [row_no |-> a.row_count + 1, key |-> k, ver |-> v, delete_flag |-> FALSE]
<1>1. /\ b.rows = a.rows \cup {d}
      /\ b.row_count = a.row_count + 1
      /\ b.has_insert = TRUE
      /\ b.has_delete = a.has_delete
      /\ b.use_tmp_table = a.use_tmp_table
      /\ b.open = a.open
  BY Zenon DEF append_row_insert, GoodAppender, Appender
<1>2. d.row_no = a.row_count + 1 /\ d.key = k /\ d.delete_flag = FALSE
  BY Zenon
<1>3. a.row_count \in Nat /\ \A e \in a.rows : e.row_no \in Nat
  BY Zenon DEF GoodAppender, Appender, DeltaRow
<1> HIDE DEF b, d
<1>4. ASSUME a.use_tmp_table PROVE \A e \in b.rows : e.row_no <= b.row_count
  <2>1. \A e \in a.rows : e.row_no <= a.row_count
    BY <1>4, Zenon DEF Apart, Ordered
  <2>2. ASSUME NEW m \in Nat, NEW n \in Nat, m <= n PROVE m <= n + 1 /\ n + 1 <= n + 1
    BY ONLY <2>2, SMTT(30)
  <2>3. a.row_count <= a.row_count
    BY ONLY <1>3, SMTT(30)
  <2> QED
    BY <1>1, <1>2, <1>3, <2>1, <2>2, <2>3, Zenon
<1>5. ASSUME a.use_tmp_table, ~a.has_delete
      PROVE  /\ KeysOf(T) \cap DeltaKeys(b) = {}
             /\ \A e, f \in b.rows : ~e.delete_flag /\ (e.key = f.key => e = f)
  <2>1. k \notin DeltaKeys(a)
    BY <1>5, KeysInUse, Zenon
  <2>2. k \notin KeysOf(T)
    <3>1. Without(T, DeltaKeys(a)) = T
      BY <1>5, WithoutNone, Zenon DEF Apart, Ordered
    <3>2. flush(a, T) = T \cup appendLatestRowsQuery(a)
      BY <1>5, <3>1, MixedFlush, Zenon DEF Apart
    <3> QED
      BY <1>5, <3>2, Zenon DEF KeysOf
  <2>3. DeltaKeys(b) = DeltaKeys(a) \cup {k}
    BY <1>1, <1>2, Zenon DEF DeltaKeys
  <2>4. KeysOf(T) \cap DeltaKeys(a) = {}
    BY <1>5, Zenon DEF Apart, Ordered
  <2>5. \A e, f \in a.rows : ~e.delete_flag /\ (e.key = f.key => e = f)
    BY <1>5, Zenon DEF Apart
  <2>6. \A e \in a.rows : e.key # k
    BY <2>1, Zenon DEF DeltaKeys
  <2> QED
    BY <1>1, <1>2, <2>2, <2>3, <2>4, <2>5, <2>6, Zenon
<1>6. Apart(b, T)
  BY <1>1, <1>4, <1>5, Zenon DEF Apart, Ordered
<1> QED
  BY <1>6, Zenon DEF b

(* A delete marker leaves nothing to keep apart. *)
LEMMA ApartDelete ==
    ASSUME NEW a \in GoodAppender, NEW T, Apart(a, T), a.open, NEW S, NEW k \in Keys
    PROVE  Apart(append_row_delete(a, k), S)
<1> DEFINE b == append_row_delete(a, k)
           d == [row_no |-> a.row_count + 1, key |-> k, ver |-> NoVal, delete_flag |-> TRUE]
<1>1. /\ b.rows = a.rows \cup {d}
      /\ b.row_count = a.row_count + 1
      /\ b.has_insert = a.has_insert
      /\ b.has_delete = TRUE
      /\ b.use_tmp_table = a.use_tmp_table
      /\ b.open = a.open
  BY Zenon DEF append_row_delete, GoodAppender, Appender
<1>2. d.row_no = a.row_count + 1 /\ d.delete_flag = TRUE
  BY Zenon
<1>3. a.row_count \in Nat /\ \A e \in a.rows : e.row_no \in Nat
  BY Zenon DEF GoodAppender, Appender, DeltaRow
<1> HIDE DEF b, d
<1>4. ASSUME a.use_tmp_table
      PROVE  /\ \A e \in b.rows : e.row_no <= b.row_count
             /\ ~b.has_insert => \A e \in b.rows : e.delete_flag
  <2>1. /\ \A e \in a.rows : e.row_no <= a.row_count
        /\ ~a.has_insert => \A e \in a.rows : e.delete_flag
    BY <1>4, Zenon DEF Apart, Ordered
  <2>2. ASSUME NEW m \in Nat, NEW n \in Nat, m <= n PROVE m <= n + 1 /\ n + 1 <= n + 1
    BY ONLY <2>2, SMTT(30)
  <2>3. a.row_count <= a.row_count
    BY ONLY <1>3, SMTT(30)
  <2> QED
    BY <1>1, <1>2, <1>3, <2>1, <2>2, <2>3, Zenon
<1>5. Apart(b, S)
  BY <1>1, <1>4, Zenon DEF Apart, Ordered
<1> QED
  BY <1>5, Zenon DEF b

(* An append that fails leaves the appender apart, and its flush as it was. *)
LEMMA ApartBroken ==
    ASSUME NEW a \in GoodAppender, NEW T, Apart(a, T), a.open, NEW c \in Broken(a), NEW b,
           \/ b = [c EXCEPT !.has_insert = TRUE]
           \/ b = [c EXCEPT !.has_delete = TRUE] /\ a.use_tmp_table
    PROVE  b.open /\ Apart(b, T) /\ flush(b, T) = flush(a, T)
<1>1. PICK x \in BOOLEAN : c = [a EXCEPT !.row_count = @ + 1, !.incomplete = x]
  BY Zenon DEF Broken
<1>2. /\ c.rows = a.rows
      /\ c.row_count = a.row_count + 1
      /\ c.has_insert = a.has_insert
      /\ c.has_delete = a.has_delete
      /\ c.use_tmp_table = a.use_tmp_table
      /\ c.open = a.open
      /\ c \in Appender
  <2>1. c \in Appender
    BY BrokenType, Zenon DEF GoodAppender
  <2>2. a \in Appender
    BY Zenon DEF GoodAppender
  <2>3. c.rows = a.rows /\ c.has_insert = a.has_insert /\ c.has_delete = a.has_delete
    BY <1>1, <2>2, Zenon DEF Appender
  <2>4. c.use_tmp_table = a.use_tmp_table /\ c.open = a.open
    BY <1>1, <2>2, Zenon DEF Appender
  <2>5. c.row_count = a.row_count + 1
    BY <1>1, <2>2, Zenon DEF Appender
  <2> QED
    BY <2>1, <2>3, <2>4, <2>5, Zenon
<1>3. /\ b.rows = a.rows
      /\ b.row_count = a.row_count + 1
      /\ a.has_insert => b.has_insert
      /\ a.has_delete => b.has_delete
      /\ b.use_tmp_table = a.use_tmp_table
      /\ b.open
  BY <1>2, Zenon DEF Appender
<1>4. b \in GoodAppender
  BY BrokenType, Zenon
<1>5. a.row_count \in Nat /\ \A e \in a.rows : e.row_no \in Nat
  BY Zenon DEF GoodAppender, Appender, DeltaRow
<1>6. DeltaKeys(b) = DeltaKeys(a) /\ appendLatestRowsQuery(b) = appendLatestRowsQuery(a)
  BY <1>3, Zenon DEF DeltaKeys, appendLatestRowsQuery
<1>7. ASSUME a.use_tmp_table PROVE Ordered(b, T)
  <2>1. Ordered(a, T)
    BY <1>7, Zenon DEF Apart
  <2>2. ASSUME NEW m \in Nat, NEW n \in Nat, m <= n PROVE m <= n + 1
    BY ONLY <2>2, SMTT(30)
  <2>3. \A e \in b.rows : e.row_no <= b.row_count
    BY <1>3, <1>5, <2>1, <2>2, Zenon DEF Ordered
  <2> QED
    BY <1>3, <1>6, <2>1, <2>3, Zenon DEF Ordered
<1>8. Apart(b, T)
  BY <1>3, <1>7, Zenon DEF Apart
<1>9. CASE a.use_tmp_table
  <2>1. /\ flush(a, T) = Without(T, DeltaKeys(a)) \cup appendLatestRowsQuery(a)
        /\ flush(b, T) = Without(T, DeltaKeys(b)) \cup appendLatestRowsQuery(b)
    BY <1>3, <1>4, <1>7, <1>9, MixedFlush, Zenon DEF Apart
  <2> QED
    BY <1>3, <1>6, <1>8, <2>1, Zenon
<1>10. CASE ~a.use_tmp_table
  <2>1. flush(a, T) = T \cup RowsOf(a.rows) /\ flush(b, T) = T \cup RowsOf(b.rows)
    BY <1>3, <1>10, Zenon DEF flush
  <2> QED
    BY <1>3, <1>8, <2>1, Zenon
<1> QED
  BY <1>9, <1>10, Zenon

LEMMA ApartFailed ==
    ASSUME NEW a \in GoodAppender, NEW T, Apart(a, T), a.open
    PROVE  /\ \A b \in FailedInsert(a) : b.open /\ Apart(b, T) /\ flush(b, T) = flush(a, T)
           /\ \A b \in FailedDelete(a) : b.open /\ Apart(b, T) /\ flush(b, T) = flush(a, T)
<1>1. ASSUME NEW b \in FailedInsert(a)
      PROVE  b.open /\ Apart(b, T) /\ flush(b, T) = flush(a, T)
  <2>1. PICK c \in Broken(a) : b = [c EXCEPT !.has_insert = TRUE]
    BY Zenon DEF FailedInsert
  <2> QED
    BY <2>1, ApartBroken, Zenon
<1>2. ASSUME NEW b \in FailedDelete(a)
      PROVE  b.open /\ Apart(b, T) /\ flush(b, T) = flush(a, T)
  <2>1. CASE a.use_tmp_table
    <3>1. PICK c \in Broken(a) : b = [c EXCEPT !.has_delete = TRUE]
      BY <2>1, Zenon DEF FailedDelete
    <3> QED
      BY <2>1, <3>1, ApartBroken, Zenon
  <2>2. CASE ~a.use_tmp_table
    BY <2>2, Zenon DEF FailedDelete
  <2> QED
    BY <2>1, <2>2, Zenon
<1> QED
  BY <1>1, <1>2, Zenon

(* An UPDATE that is refused after its delete marker deletes the row. *)
LEMMA ApartUpdateFailed ==
    ASSUME NEW a \in GoodAppender, NEW T, Apart(a, T), a.open, NEW old \in Keys,
           NEW b \in FailedUpdate(a, old)
    PROVE  /\ b.open /\ Apart(b, T)
           /\ flush(b, T) = flush(a, T) \/ flush(b, T) = Without(flush(a, T), {old})
<1>1. CASE b \in FailedDelete(a)
  BY <1>1, ApartFailed, Zenon
<1>2. CASE a.use_tmp_table /\ b \in FailedInsert(append_row_delete(a, old))
  <2> DEFINE c == append_row_delete(a, old)
  <2>1. c \in GoodAppender /\ c.open
    BY AppendDeleteType, <1>2, Zenon
  <2>2. Apart(c, T)
    BY ApartDelete, Zenon
  <2>3. flush(c, T) = Without(flush(a, T), {old})
    BY <1>2, AppendDeleteFlush, Zenon DEF Apart
  <2> HIDE DEF c
  <2>4. b \in FailedInsert(c)
    BY <1>2, Zenon DEF c
  <2>5. b.open /\ Apart(b, T) /\ flush(b, T) = flush(c, T)
    BY <2>1, <2>2, <2>4, ApartFailed, Zenon
  <2> QED
    BY <2>3, <2>5, Zenon
<1> QED
  BY <1>1, <1>2, Zenon DEF FailedUpdate

(* What a row operation works on once get_batch_state has returned. *)
LEMMA OperandsApart ==
    ASSUME BatchInv, KeysInv, UniqueKeys, NEW t \in Tables, NEW insert_only \in BOOLEAN
    PROVE  LET A == AppendersFor(insert_only)
               B == BaseFor(insert_only)
               g == get_appender(t, insert_only)
           IN  /\ \A u \in Tables : /\ A[u] \in GoodAppender
                                    /\ Apart(A[u], B[u])
                                    /\ View(u) = IF A[u].open THEN flush(A[u], B[u]) ELSE B[u]
               /\ g \in GoodAppender /\ g.open /\ Apart(g, B[t])
               /\ flush(g, B[t]) = View(t)
               /\ A[t].open => g = A[t]
<1> DEFINE A == AppendersFor(insert_only)
           B == BaseFor(insert_only)
           g == get_appender(t, insert_only)
<1>1. ASSUME NEW u \in Tables
      PROVE  Apart(A[u], B[u]) /\ View(u) = IF A[u].open THEN flush(A[u], B[u]) ELSE B[u]
  <2>1. CASE MustFlush(insert_only)
    <3>1. A[u] = NoAppenders[u] /\ ~A[u].open /\ B[u] = View(u)
      BY <2>1, NoAppendersType, Zenon DEF AppendersFor, BaseFor, FlushedBase
    <3> QED
      BY <3>1, ClosedIsApart, Zenon
  <2>2. CASE ~MustFlush(insert_only)
    BY <2>2, Zenon DEF AppendersFor, BaseFor, KeysInv, View
  <2> QED
    BY <2>1, <2>2, Zenon
<1>2. \A u \in Tables : A[u] \in GoodAppender
  BY RowOperands, Zenon
<1>3. g \in GoodAppender /\ g.open
  BY RowOperands, Zenon
<1>4. A[t].open => g = A[t]
  BY Zenon DEF get_appender
<1>5. Apart(g, B[t]) /\ flush(g, B[t]) = View(t)
  <2>1. CASE A[t].open
    BY <1>1, <1>4, <2>1, Zenon
  <2>2. CASE ~A[t].open
    <3>1. PICK b \in BOOLEAN : g = NewAppender(b)
      BY <2>2, Zenon DEF get_appender
    <3>2. B[t] = View(t)
      BY <1>1, <2>2, Zenon
    <3>3. flush(NewAppender(b), B[t]) = B[t] /\ NewAppender(b).rows = {}
      BY NewAppenderFlush, Zenon DEF NewAppender
    <3> QED
      BY <3>1, <3>2, <3>3, EmptyIsApart, Zenon
  <2> QED
    BY <2>1, <2>2, Zenon
<1> QED
  BY <1>1, <1>2, <1>3, <1>4, <1>5, Zenon

(* A statement's effect T on table t adds no key in use. *)
AddsUnused(t, insert_only, T) ==
    \A r \in T : \/ r[1] \in KeysOf(BaseFor(insert_only)[t])
                 \/ r[1] \notin KeysOf(View(t))

LEMMA StatementApart ==
    ASSUME BatchInv, KeysInv, UniqueKeys, NEW t \in Tables, NEW insert_only \in BOOLEAN,
           NEW T, AddsUnused(t, insert_only, T)
    PROVE  /\ Apart(get_appender(t, insert_only), T)
           /\ Apart(AppendersFor(insert_only)[t], T)
<1> DEFINE A == AppendersFor(insert_only)
           B == BaseFor(insert_only)
           g == get_appender(t, insert_only)
<1>1. /\ A[t] \in GoodAppender /\ Apart(A[t], B[t])
      /\ g \in GoodAppender /\ Apart(g, B[t])
      /\ flush(g, B[t]) = View(t)
      /\ A[t].open => g = A[t]
  BY OperandsApart, Zenon
<1>2. \A r \in T : r[1] \in KeysOf(B[t]) \/ r[1] \notin KeysOf(flush(g, B[t]))
  BY <1>1, Zenon DEF AddsUnused
<1> HIDE DEF A, B, g
<1>3. Apart(g, T)
  BY <1>1, <1>2, ApartBase, Zenon
<1>4. Apart(A[t], T)
  <2>1. CASE A[t].open
    BY <1>1, <1>3, <2>1, Zenon
  <2>2. CASE ~A[t].open
    <3>1. A[t].rows = {}
      BY <1>1, <2>2, Zenon DEF Apart
    <3> QED
      BY <3>1, EmptyIsApart, Zenon
  <2> QED
    BY <2>1, <2>2, Zenon
<1> QED
  BY <1>3, <1>4, Zenon DEF A, g

(* The three operations, when they succeed and when their append fails. *)
LEMMA RowDoneApart ==
    ASSUME BatchInv, KeysInv, UniqueKeys, NEW t \in Tables, NEW insert_only \in BOOLEAN,
           NEW T, NEW a, NEW n, RowDone(t, insert_only, T, a, n),
           AddsUnused(t, insert_only, T),
           insert_only \/ get_appender(t, insert_only).use_tmp_table =>
               Apart(a, BaseFor(insert_only)[t])
    PROVE  KeysInv'
<1> DEFINE A == AppendersFor(insert_only)
           B == BaseFor(insert_only)
<1>1. \A u \in Tables : Apart(A[u], B[u])
  BY OperandsApart, Zenon
<1>2. DOMAIN A = Tables /\ DOMAIN B = Tables
  BY RowOperands, Zenon
<1>3. Apart(A[t], T)
  BY StatementApart, Zenon
<1>4. \/ base' = [B EXCEPT ![t] = T] /\ appenders' = A
      \/ base' = B /\ appenders' = [A EXCEPT ![t] = a] /\ Apart(a, B[t])
  BY Zenon DEF RowDone
<1> HIDE DEF A, B
<1>5. \A u \in Tables : Apart(appenders'[u], base'[u])
  BY <1>1, <1>2, <1>3, <1>4, Zenon
<1> QED
  BY <1>5, Zenon DEF KeysInv

LEMMA AppendFailsApart ==
    ASSUME BatchInv, KeysInv, UniqueKeys, NEW t \in Tables, NEW insert_only \in BOOLEAN,
           NEW T, NEW As, NEW op, AppendFails(t, insert_only, T, As, op),
           AddsUnused(t, insert_only, T), op # Error,
           \A S : Apart(get_appender(t, insert_only), S) => \A a \in As : a.open /\ Apart(a, S)
    PROVE  /\ KeysInv'
           /\ reply' = Error =>
                /\ \A u \in Tables : u # t => View(u)' = View(u)
                /\ \/ View(t)' = View(t)
                   \/ \E a \in As : View(t)' = flush(a, BaseFor(insert_only)[t])
<1> DEFINE A == AppendersFor(insert_only)
           B == BaseFor(insert_only)
<1>1. \A u \in Tables : /\ Apart(A[u], B[u])
                        /\ View(u) = IF A[u].open THEN flush(A[u], B[u]) ELSE B[u]
  BY OperandsApart, Zenon
<1>2. DOMAIN A = Tables /\ DOMAIN B = Tables
  BY RowOperands, Zenon
<1>3. /\ Apart(A[t], T)
      /\ \A a \in As : a.open /\ Apart(a, T) /\ Apart(a, B[t])
  BY StatementApart, OperandsApart, Zenon
<1>4. /\ \/ appenders' = A
         \/ \E a \in As : appenders' = [A EXCEPT ![t] = a]
      /\ \/ base' = [B EXCEPT ![t] = T] /\ reply' = op
         \/ base' = B
  BY Zenon DEF AppendFails
<1> HIDE DEF A, B
<1>5. \A u \in Tables : Apart(appenders'[u], base'[u])
  <2>1. CASE appenders' = A
    BY <1>1, <1>2, <1>3, <1>4, <2>1, Zenon
  <2>2. ASSUME NEW a \in As, appenders' = [A EXCEPT ![t] = a]
        PROVE  \A u \in Tables : Apart(appenders'[u], base'[u])
    BY <1>1, <1>2, <1>3, <1>4, <2>2, Zenon
  <2> QED
    BY <1>4, <2>1, <2>2, Zenon
<1>6. KeysInv'
  BY <1>5, Zenon DEF KeysInv
<1>7. ASSUME reply' = Error
      PROVE  /\ \A u \in Tables : u # t => View(u)' = View(u)
             /\ \/ View(t)' = View(t)
                \/ \E a \in As : View(t)' = flush(a, B[t])
  <2>1. base' = B
    BY <1>4, <1>7, Zenon
  <2>2. CASE appenders' = A
    BY <1>1, <2>1, <2>2, Zenon DEF View
  <2>3. ASSUME NEW a \in As, appenders' = [A EXCEPT ![t] = a]
        PROVE  /\ \A u \in Tables : u # t => View(u)' = View(u)
               /\ View(t)' = flush(a, B[t])
    BY <1>1, <1>2, <1>3, <2>1, <2>3, Zenon DEF View
  <2> QED
    BY <1>4, <2>2, <2>3, Zenon
<1> QED
  BY <1>6, <1>7, Zenon DEF B

(* No answer of an operation that succeeds is an error. *)
LEMMA AnswersAreNoErrors ==
    ASSUME NEW a, NEW b, NEW c, NEW d
    PROVE  /\ <<"insert", a, b, c>> # Error
           /\ <<"update", a, b, c, d>> # Error
           /\ <<"delete", a, b>> # Error
           /\ <<"update_set", a, b, c>> # Error
BY ONLY SMTT(30) DEF Error

(* What the property says of a step. *)
KeepsView ==
    reply' = Error /\ trx' # "none" =>
        aborted' \/ \A t \in Tables : View(t)' = View(t) \/ UpdateDeletesRow(t)

LEMMA WriteRowApart ==
    ASSUME BatchInv, KeysInv, UniqueKeys, NEW t \in Tables, NEW k \in Keys, NEW v \in Vals,
           write_row(t, k, v) \/ write_row_append_fails(t, k, v)
    PROVE  KeysInv' /\ KeepsView
<1> DEFINE B == BaseFor(TRUE)
           g == get_appender(t, TRUE)
           T == B[t] \cup {<<k, v>>}
<1>1. /\ g \in GoodAppender /\ g.open /\ Apart(g, B[t])
      /\ flush(g, B[t]) = View(t)
  BY OperandsApart, Zenon
<1>2. k \notin KeysOf(View(t))
  BY Zenon DEF write_row, write_row_append_fails, Unused
<1>3. AddsUnused(t, TRUE, T)
  <2>1. <<k, v>>[1] = k
    BY Zenon
  <2>2. \A r \in B[t] : r[1] \in KeysOf(B[t])
    BY Zenon DEF KeysOf
  <2> QED
    BY <1>2, <2>1, <2>2, Zenon DEF AddsUnused
<1>4. CASE write_row(t, k, v)
  <2>1. Apart(append_row_insert(g, k, v), B[t])
    BY <1>1, <1>2, ApartInsert, Zenon
  <2>2. RowDone(t, TRUE, T, append_row_insert(g, k, v), 1)
    BY <1>4, Zenon DEF write_row
  <2>3. KeysInv'
    BY <1>3, <2>1, <2>2, RowDoneApart, Zenon
  <2>4. reply' # Error
    BY <1>4, AnswersAreNoErrors, Zenon DEF write_row
  <2> QED
    BY <2>3, <2>4, Zenon DEF KeepsView
<1>5. CASE write_row_append_fails(t, k, v)
  <2>1. AppendFails(t, TRUE, T, FailedInsert(g), <<"insert", t, k, v>>)
    BY <1>5, Zenon DEF write_row_append_fails
  <2>2. \A S : Apart(g, S) => \A a \in FailedInsert(g) : a.open /\ Apart(a, S)
    BY <1>1, ApartFailed, Zenon
  <2>3. <<"insert", t, k, v>> # Error
    BY AnswersAreNoErrors, Zenon
  <2>4. \A a \in FailedInsert(g) : flush(a, B[t]) = View(t)
    BY <1>1, ApartFailed, Zenon
  <2> HIDE DEF T, g
  <2>5. /\ KeysInv'
        /\ reply' = Error =>
             /\ \A u \in Tables : u # t => View(u)' = View(u)
             /\ \/ View(t)' = View(t)
                \/ \E a \in FailedInsert(g) : View(t)' = flush(a, B[t])
    BY <1>3, <2>1, <2>2, <2>3, AppendFailsApart, Zenon DEF g
  <2> QED
    BY <2>4, <2>5, Zenon DEF KeepsView
<1> QED
  BY <1>4, <1>5, Zenon

LEMMA UpdateRowApart ==
    ASSUME BatchInv, KeysInv, UniqueKeys, NEW t \in Tables, NEW old \in Keys,
           NEW k \in Keys, NEW v \in Vals,
           update_row(t, old, k, v) \/ update_row_append_fails(t, old, k, v)
    PROVE  KeysInv' /\ KeepsView
<1> DEFINE B == BaseFor(FALSE)
           g == get_appender(t, FALSE)
           T == SqlUpdate(B[t], old, k, v)
<1>1. /\ g \in GoodAppender /\ g.open /\ Apart(g, B[t])
      /\ flush(g, B[t]) = View(t)
  BY OperandsApart, Zenon
<1>2. k # old => k \notin KeysOf(View(t))
  BY Zenon DEF update_row, update_row_append_fails, Unused
<1>3. AddsUnused(t, FALSE, T)
  <2>1. \A r \in T : r \in B[t] \/ (r = <<k, v>> /\ old \in KeysOf(B[t]))
    BY Zenon DEF SqlUpdate, Without
  <2>2. <<k, v>>[1] = k
    BY Zenon
  <2>3. \A r \in B[t] : r[1] \in KeysOf(B[t])
    BY Zenon DEF KeysOf
  <2> HIDE DEF T
  <2> QED
    BY <1>2, <2>1, <2>2, <2>3, Zenon DEF AddsUnused
<1>4. CASE update_row(t, old, k, v)
  <2> DEFINE c == append_row_delete(g, old)
  <2>1. ASSUME g.use_tmp_table PROVE Apart(append_row_update(g, old, k, v), B[t])
    <3>1. c \in GoodAppender /\ c.open
      BY <1>1, <2>1, AppendDeleteType, Zenon
    <3>2. Apart(c, B[t])
      BY <1>1, ApartDelete, Zenon
    <3>3. c.has_delete
      BY <1>1, Zenon DEF append_row_delete, GoodAppender, Appender
    <3>4. append_row_update(g, old, k, v) = append_row_insert(c, k, v)
      BY Zenon DEF append_row_update
    <3> HIDE DEF c
    <3> QED
      BY <3>1, <3>2, <3>3, <3>4, ApartInsert, Zenon
  <2>2. RowDone(t, FALSE, T, append_row_update(g, old, k, v), 2)
    BY <1>4, Zenon DEF update_row
  <2>3. KeysInv'
    BY <1>3, <2>1, <2>2, RowDoneApart, Zenon
  <2>4. reply' # Error
    BY <1>4, AnswersAreNoErrors, Zenon DEF update_row
  <2> QED
    BY <2>3, <2>4, Zenon DEF KeepsView
<1>5. CASE update_row_append_fails(t, old, k, v)
  <2>1. AppendFails(t, FALSE, T, FailedUpdate(g, old), <<"update", t, old, k, v>>)
    BY <1>5, Zenon DEF update_row_append_fails
  <2>2. \A S : Apart(g, S) => \A a \in FailedUpdate(g, old) : a.open /\ Apart(a, S)
    BY <1>1, ApartUpdateFailed, Zenon
  <2>3. <<"update", t, old, k, v>> # Error
    BY AnswersAreNoErrors, Zenon
  <2>4. \A a \in FailedUpdate(g, old) :
          flush(a, B[t]) = View(t) \/ flush(a, B[t]) = Without(View(t), {old})
    <3> HIDE DEF B, g
    <3>1. ASSUME NEW a \in FailedUpdate(g, old)
          PROVE  \/ flush(a, B[t]) = flush(g, B[t])
                 \/ flush(a, B[t]) = Without(flush(g, B[t]), {old})
      BY <1>1, ApartUpdateFailed, Zenon
    <3> QED
      BY <1>1, <3>1, Zenon
  <2> HIDE DEF T, g
  <2>5. /\ KeysInv'
        /\ reply' = Error =>
             /\ \A u \in Tables : u # t => View(u)' = View(u)
             /\ \/ View(t)' = View(t)
                \/ \E a \in FailedUpdate(g, old) : View(t)' = flush(a, B[t])
    BY <1>3, <2>1, <2>2, <2>3, AppendFailsApart, Zenon DEF g
  <2>6. reply' = Error => View(t)' = View(t) \/ UpdateDeletesRow(t)
    BY <1>5, <2>4, <2>5, Zenon DEF UpdateDeletesRow
  <2> QED
    BY <2>5, <2>6, Zenon DEF KeepsView
<1> QED
  BY <1>4, <1>5, Zenon

LEMMA DeleteRowApart ==
    ASSUME BatchInv, KeysInv, UniqueKeys, NEW t \in Tables, NEW k \in Keys,
           delete_row(t, k) \/ delete_row_append_fails(t, k)
    PROVE  KeysInv' /\ KeepsView
<1> DEFINE B == BaseFor(FALSE)
           g == get_appender(t, FALSE)
           T == Without(B[t], {k})
<1>1. /\ g \in GoodAppender /\ g.open /\ Apart(g, B[t])
      /\ flush(g, B[t]) = View(t)
  BY OperandsApart, Zenon
<1>2. AddsUnused(t, FALSE, T)
  BY Zenon DEF AddsUnused, Without, KeysOf
<1>3. CASE delete_row(t, k)
  <2>1. Apart(append_row_delete(g, k), B[t])
    BY <1>1, ApartDelete, Zenon
  <2>2. RowDone(t, FALSE, T, append_row_delete(g, k), 1)
    BY <1>3, Zenon DEF delete_row
  <2>3. KeysInv'
    BY <1>2, <2>1, <2>2, RowDoneApart, Zenon
  <2>4. reply' # Error
    BY <1>3, AnswersAreNoErrors, Zenon DEF delete_row
  <2> QED
    BY <2>3, <2>4, Zenon DEF KeepsView
<1>4. CASE delete_row_append_fails(t, k)
  <2>1. AppendFails(t, FALSE, T, FailedDelete(g), <<"delete", t, {k}>>)
    BY <1>4, Zenon DEF delete_row_append_fails
  <2>2. \A S : Apart(g, S) => \A a \in FailedDelete(g) : a.open /\ Apart(a, S)
    BY <1>1, ApartFailed, Zenon
  <2>3. <<"delete", t, {k}>> # Error
    BY AnswersAreNoErrors, Zenon
  <2>4. \A a \in FailedDelete(g) : flush(a, B[t]) = View(t)
    BY <1>1, ApartFailed, Zenon
  <2> HIDE DEF T, g
  <2>5. /\ KeysInv'
        /\ reply' = Error =>
             /\ \A u \in Tables : u # t => View(u)' = View(u)
             /\ \/ View(t)' = View(t)
                \/ \E a \in FailedDelete(g) : View(t)' = flush(a, B[t])
    BY <1>2, <2>1, <2>2, <2>3, AppendFailsApart, Zenon DEF g
  <2> QED
    BY <2>4, <2>5, Zenon DEF KeepsView
<1> QED
  BY <1>3, <1>4, Zenon

LEMMA FlushAllFailsApart ==
    ASSUME BatchInv, KeysInv, UniqueKeys, FlushAllFails
    PROVE  KeysInv'
<1>1. PICK done \in SUBSET Open :
        /\ base' = [t \in Tables |-> IF t \in done THEN View(t) ELSE base[t]]
        /\ appenders' = [t \in Tables |-> IF t \in done THEN Flushed(appenders[t])
                                          ELSE appenders[t]]
  BY Zenon DEF FlushAllFails
<1>2. ASSUME NEW t \in Tables PROVE Apart(appenders'[t], base'[t])
  <2>1. CASE t \in done
    <3>1. appenders[t] \in GoodAppender
      BY Zenon DEF BatchInv, TypeInv
    <3>2. Flushed(appenders[t]).rows = {}
      BY <3>1, Zenon DEF Flushed, GoodAppender, Appender
    <3> QED
      BY <1>1, <2>1, <3>2, EmptyIsApart, Zenon
  <2>2. CASE t \notin done
    BY <1>1, <2>2, Zenon DEF KeysInv
  <2> QED
    BY <2>1, <2>2, Zenon
<1> QED
  BY <1>2, Zenon DEF KeysInv

(* Steps that flush or discard everything, and steps that touch nothing. *)
LEMMA WholeApart ==
    ASSUME BatchInv, KeysInv, UniqueKeys
    PROVE  /\ appenders' = NoAppenders => KeysInv'
           /\ UNCHANGED <<appenders, base>> =>
                KeysInv' /\ \A t \in Tables : View(t)' = View(t)
<1>1. appenders' = NoAppenders => KeysInv'
  BY ClosedIsApart, Zenon DEF KeysInv
<1>2. UNCHANGED <<appenders, base>> => KeysInv' /\ \A t \in Tables : View(t)' = View(t)
  BY Zenon DEF KeysInv, View
<1> QED
  BY <1>1, <1>2, Zenon

LEMMA SpillApart ==
    ASSUME BatchInv, KeysInv, UniqueKeys, NEW t \in Tables, Spill(t)
    PROVE  KeysInv' /\ \A u \in Tables : View(u)' = View(u)
<1> DEFINE a == appenders[t]
           b == [a EXCEPT !.rows = {}]
<1>1. /\ appenders \in [Tables -> GoodAppender] /\ base \in [Tables -> SUBSET Row]
      /\ a \in Appender
  BY Zenon DEF BatchInv, TypeInv, TypeOK, GoodAppender
<1>2. /\ a.open /\ ~a.use_tmp_table
      /\ base' = [base EXCEPT ![t] = base[t] \cup RowsOf(a.rows)]
      /\ appenders' = [appenders EXCEPT ![t] = b]
  BY Zenon DEF Spill
<1>3. b.open /\ ~b.use_tmp_table /\ b.rows = {}
  BY <1>1, <1>2, Zenon DEF Appender
<1>4. \A u \in Tables : /\ appenders'[u] = IF u = t THEN b ELSE appenders[u]
                        /\ base'[u] = IF u = t THEN base[t] \cup RowsOf(a.rows) ELSE base[u]
  BY <1>1, <1>2, Zenon
<1>5. flush(b, base[t] \cup RowsOf(a.rows)) = flush(a, base[t])
  <2>1. RowsOf({}) = {}
    BY Zenon DEF RowsOf
  <2> QED
    BY <1>2, <1>3, <2>1, Zenon DEF flush
<1> HIDE DEF a, b
<1>6. \A u \in Tables : Apart(appenders'[u], base'[u])
  BY <1>3, <1>4, EmptyIsApart, Zenon DEF KeysInv
<1>7. ASSUME NEW u \in Tables PROVE View(u)' = View(u)
  <2>1. CASE u = t
    BY <1>2, <1>3, <1>4, <1>5, <2>1, Zenon DEF View, a
  <2>2. CASE u # t
    BY <1>4, <2>2, Zenon DEF View
  <2> QED
    BY <2>1, <2>2, Zenon
<1> QED
  BY <1>6, <1>7, Zenon DEF KeysInv

(* Every step keeps the keys apart, and an error the view. *)
LEMMA NextApart ==
    ASSUME BatchInv, KeysInv, UniqueKeys, [Next]_vars
    PROVE  KeysInv' /\ KeepsView
<1>1. ASSUME NEW t \in Tables, NEW k \in Keys, NEW v \in Vals,
             write_row(t, k, v) \/ write_row_append_fails(t, k, v)
      PROVE  KeysInv' /\ KeepsView
  BY <1>1, WriteRowApart, Zenon
<1>2. ASSUME NEW t \in Tables, NEW old \in Keys, NEW k \in Keys, NEW v \in Vals,
             update_row(t, old, k, v) \/ update_row_append_fails(t, old, k, v)
      PROVE  KeysInv' /\ KeepsView
  BY <1>2, UpdateRowApart, Zenon
<1>3. ASSUME NEW t \in Tables, NEW k \in Keys,
             delete_row(t, k) \/ delete_row_append_fails(t, k)
      PROVE  KeysInv' /\ KeepsView
  BY <1>3, DeleteRowApart, Zenon
<1>4. ASSUME NEW insert_only \in BOOLEAN, RowFails(insert_only)
      PROVE  KeysInv' /\ KeepsView
  <2>1. \/ FlushAllFails
        \/ base' = FlushedBase /\ appenders' = NoAppenders
        \/ UNCHANGED <<appenders, base>>
    BY <1>4, Zenon DEF RowFails, BaseFor, AppendersFor
  <2>2. KeysInv'
    BY <2>1, FlushAllFailsApart, WholeApart, Zenon
  <2>3. \A t \in Tables : View(t)' = View(t)
    BY <2>1, FlushAllFailsView, FlushedView, WholeApart, Zenon
  <2> QED
    BY <2>2, <2>3, Zenon DEF KeepsView
<1>5. ASSUME NEW t \in Tables, Spill(t)
      PROVE  KeysInv' /\ KeepsView
  BY <1>5, SpillApart, Zenon DEF KeepsView
<1>6. ASSUME NEW t \in Tables, NEW K, NEW v,
             rnd_init(t) \/ direct_delete_rows(t, K) \/ direct_update_rows(t, K, v)
      PROVE  KeysInv' /\ KeepsView
  <2>1. appenders' = NoAppenders
    BY <1>6, Zenon DEF rnd_init, direct_delete_rows, direct_update_rows, DirectDone,
                       FlushAppenders
  <2>2. KeysInv'
    BY <2>1, WholeApart, Zenon
  <2>3. CASE rnd_init(t)
    <3>1. base' = FlushedBase
      BY <2>3, Zenon DEF rnd_init, FlushAppenders
    <3> QED
      BY <2>1, <2>2, <3>1, FlushedView, Zenon DEF KeepsView
  <2>4. CASE direct_delete_rows(t, K) \/ direct_update_rows(t, K, v)
    <3>1. reply' # Error
      BY <2>4, AnswersAreNoErrors, Zenon DEF direct_delete_rows, direct_update_rows
    <3> QED
      BY <2>2, <3>1, Zenon DEF KeepsView
  <2> QED
    BY <1>6, <2>3, <2>4, Zenon
<1>7. CASE FlushThenFails \/ duckdb_prepare
  <2>1. \/ FlushAllFails
        \/ base' = FlushedBase /\ appenders' = NoAppenders
    BY <1>7, Zenon DEF FlushThenFails, duckdb_prepare, FlushAppenders
  <2>2. KeysInv'
    BY <2>1, FlushAllFailsApart, WholeApart, Zenon
  <2>3. \A t \in Tables : View(t)' = View(t)
    BY <2>1, FlushAllFailsView, FlushedView, Zenon
  <2> QED
    BY <2>2, <2>3, Zenon DEF KeepsView
<1>8. ASSUME NEW t \in Tables, delete_all_rows(t)
      PROVE  KeysInv' /\ KeepsView
  <2>1. appenders \in [Tables -> GoodAppender] /\ base \in [Tables -> SUBSET Row]
    BY Zenon DEF BatchInv, TypeInv, TypeOK
  <2>2. \A u \in Tables : /\ appenders'[u] = IF u = t THEN Closed ELSE appenders[u]
                          /\ u # t => base'[u] = base[u]
    BY <1>8, <2>1, Zenon DEF delete_all_rows
  <2>3. \A u \in Tables : Apart(appenders'[u], base'[u])
    BY <2>2, ClosedIsApart, Zenon DEF KeysInv
  <2>4. aborted' = TRUE \/ reply' # Error
    BY <1>8, AnswersAreNoErrors, Zenon DEF delete_all_rows
  <2> QED
    BY <2>3, <2>4, Zenon DEF KeysInv, KeepsView
<1>9. CASE duckdb_commit \/ duckdb_rollback
  <2>1. appenders' = NoAppenders /\ trx' = "none"
    BY <1>9, Zenon DEF duckdb_commit, duckdb_rollback, TransRollback
  <2> QED
    BY <2>1, WholeApart, Zenon DEF KeepsView
<1>10. CASE SetDmlInBatch \/ Rejected \/ UNCHANGED vars
  <2>1. UNCHANGED <<appenders, base>>
    BY <1>10, Zenon DEF SetDmlInBatch, Rejected, vars
  <2> QED
    BY <2>1, WholeApart, Zenon DEF KeepsView
<1> QED
  BY <1>1, <1>2, <1>3, <1>4, <1>5, <1>6, <1>7, <1>8, <1>9, <1>10, Zenon DEF Next

(* An operation that reports an error and leaves the transaction open and  *)
(* valid has changed nothing of what COMMIT would publish, wherever it     *)
(* failed: in a flush that moved half of the appenders, in an append, or   *)
(* in the statement an append falls back to.  Only an UPDATE whose new row *)
(* version and whose statement are both refused deletes its old row.       *)
THEOREM ErrorsKeepView == Spec => FailedStepKeepsView
<1>1. Init => KeysInv
  BY ClosedIsApart, Zenon DEF Init, KeysInv
<1>2. BatchInv /\ KeysInv /\ [Next]_vars => KeysInv'
  BY NextApart, Zenon DEF KeysInv
<1>3. BatchInv /\ KeysInv /\ [Next]_vars =>
        [UniqueKeys /\ reply' = Error /\ trx' # "none" =>
           \/ aborted'
           \/ \A t \in Tables : View(t)' = View(t) \/ UpdateDeletesRow(t)]_vars
  BY NextApart, Zenon DEF KeepsView
<1> QED
  BY <1>1, <1>2, <1>3, BatchInvariant, PTL DEF Spec, FailedStepKeepsView

---------------------------------------------------------------------------
(* The session's view, step by step *)

ViewOf(a, T) == IF a.open THEN flush(a, T) ELSE T

(* The open appender a makes V of table T. *)
Yields(a, T, V) == a.open /\ flush(a, T) = V /\ Sound(a, T)

(* What a row operation works on once get_batch_state has returned: the    *)
(* flush it may have needed has not changed the view.                      *)
LEMMA RowOperandsView ==
    ASSUME BatchInv, PendingInv, ~aborted, NEW t \in Tables, NEW insert_only \in BOOLEAN
    PROVE  LET A == AppendersFor(insert_only)
               B == BaseFor(insert_only)
               a == get_appender(t, insert_only)
           IN  /\ \A u \in Tables : /\ ViewOf(A[u], B[u]) = View(u)
                                    /\ A[u].open => Sound(A[u], B[u])
               /\ get_batch_state(insert_only) = "NOT_IN_BATCH" =>
                     \A u \in Tables : ~A[u].open
               /\ flush(a, B[t]) = View(t)
               /\ Sound(a, B[t])
<1> DEFINE A == AppendersFor(insert_only)
           B == BaseFor(insert_only)
           a == get_appender(t, insert_only)
<1>1. ASSUME NEW u \in Tables
      PROVE  /\ ViewOf(A[u], B[u]) = View(u)
             /\ A[u].open => Sound(A[u], B[u])
  <2>1. CASE MustFlush(insert_only)
    <3>1. ~A[u].open /\ B[u] = View(u)
      BY <2>1, NoAppendersType, SMTT(30), Zenon DEF AppendersFor, BaseFor, FlushedBase
    <3> QED
      BY <3>1, Zenon DEF ViewOf
  <2>2. CASE ~MustFlush(insert_only)
    <3>1. A = appenders /\ B = base
      BY <2>2, Zenon DEF AppendersFor, BaseFor
    <3>2. appenders[u].open => Sound(appenders[u], base[u])
      BY Zenon DEF PendingInv, Open
    <3> QED
      BY <3>1, <3>2, Zenon DEF ViewOf, View
  <2> QED
    BY <2>1, <2>2, SMTT(30), Zenon
<1>2. ASSUME get_batch_state(insert_only) = "NOT_IN_BATCH", NEW u \in Tables
      PROVE  ~A[u].open
  <2>1. CASE MustFlush(insert_only)
    BY <2>1, NoAppendersType, Zenon DEF AppendersFor
  <2>2. CASE ~MustFlush(insert_only)
    <3>1. A = appenders /\ batch_state \in {"UNDEFINED", "NOT_IN_BATCH"}
      BY <1>2, <2>2, Zenon DEF AppendersFor, get_batch_state
    <3>2. Open = {}
      BY <3>1, SMTT(30), Zenon DEF BatchInv, BatchStateMatchesAppenders, PendingInv
    <3> QED
      BY <3>1, <3>2, Zenon DEF Open
  <2> QED
    BY <2>1, <2>2, Zenon
<1>3. flush(a, B[t]) = View(t) /\ Sound(a, B[t])
  <2>1. CASE A[t].open
    <3>1. a = A[t]
      BY <2>1, Zenon DEF get_appender
    <3> QED
      BY <1>1, <2>1, <3>1, Zenon DEF ViewOf
  <2>2. CASE ~A[t].open
    <3>1. PICK b \in BOOLEAN : a = NewAppender(b)
      BY <2>2, Zenon DEF get_appender
    <3>2. B[t] = View(t)
      BY <1>1, <2>2, Zenon DEF ViewOf
    <3>3. flush(NewAppender(b), B[t]) = B[t] /\ Sound(NewAppender(b), B[t])
      BY NewAppenderFlush, Zenon
    <3> QED
      BY <3>1, <3>2, <3>3, Zenon
  <2> QED
    BY <2>1, <2>2, SMTT(30), Zenon
<1> HIDE DEF A, B, a
<1>4. /\ \A u \in Tables : /\ ViewOf(A[u], B[u]) = View(u)
                           /\ A[u].open => Sound(A[u], B[u])
      /\ get_batch_state(insert_only) = "NOT_IN_BATCH" => \A u \in Tables : ~A[u].open
  BY <1>1, <1>2, Zenon
<1> QED
  BY <1>3, <1>4, Zenon DEF A, B, a

(* Both ways of doing a row operation make V of table t: the statement,    *)
(* whose effect is T, and the flush of the appender a.                     *)
Makes(t, insert_only, T, a, V) ==
    /\ get_batch_state(insert_only) = "NOT_IN_BATCH" => T = V
    /\ insert_only \/ get_appender(t, insert_only).use_tmp_table =>
          Yields(a, BaseFor(insert_only)[t], V)

(* So does the row operation, when it succeeds. *)
LEMMA RowDoneView ==
    ASSUME BatchInv, PendingInv, ~aborted, NEW t \in Tables, NEW insert_only \in BOOLEAN,
           NEW T, NEW a, NEW n, NEW V, RowDone(t, insert_only, T, a, n),
           Makes(t, insert_only, T, a, V)
    PROVE  PendingInv' /\ Abstract!Change(t, V)
<1> DEFINE A == AppendersFor(insert_only)
           B == BaseFor(insert_only)
           bs == get_batch_state(insert_only)
<1>1. /\ \A u \in Tables : ViewOf(A[u], B[u]) = View(u)
      /\ \A u \in Tables : A[u].open => Sound(A[u], B[u])
      /\ bs = "NOT_IN_BATCH" => \A u \in Tables : ~A[u].open
  BY RowOperandsView, Zenon
<1>2. DOMAIN A = Tables /\ DOMAIN B = Tables
  BY RowOperands, Zenon
<1>3. batch_state' = bs
  BY Zenon DEF RowDone
<1>4. ASSUME \A u \in Tables : View(u)' = IF u = t THEN V ELSE View(u)
      PROVE  Abstract!Change(t, V)
  <2>1. FlushedBase' = [FlushedBase EXCEPT ![t] = V]
    BY <1>4, Zenon DEF FlushedBase
  <2>2. committed' = committed /\ aborted' = aborted
    BY Zenon DEF RowDone, Prologue
  <2>3. SessionView = FlushedBase /\ SessionView' = FlushedBase'
    BY <2>2, Zenon DEF SessionView
  <2> QED
    BY <2>1, <2>2, <2>3, Zenon DEF Abstract!Change
<1>5. CASE /\ bs = "NOT_IN_BATCH"
           /\ base' = [B EXCEPT ![t] = T]
           /\ appenders' = A
  <2>1. \A u \in Tables : ~appenders'[u].open
    BY <1>1, <1>5, SMTT(30), Zenon
  <2>2. PendingInv'
    BY <2>1, SMTT(30), Zenon DEF PendingInv, Open
  <2>3. \A u \in Tables : View(u)' = base'[u] /\ B[u] = View(u)
    BY <1>1, <1>5, <2>1, Zenon DEF View, ViewOf
  <2>4. T = V
    BY <1>5, Zenon DEF Makes
  <2>5. \A u \in Tables : View(u)' = IF u = t THEN V ELSE View(u)
    BY <1>2, <1>5, <2>3, <2>4, Zenon
  <2> QED
    BY <1>4, <2>2, <2>5, SMTT(30), Zenon
<1>6. CASE /\ bs # "NOT_IN_BATCH"
           /\ insert_only \/ get_appender(t, insert_only).use_tmp_table
           /\ base' = B
           /\ appenders' = [A EXCEPT ![t] = a]
  <2>1. a.open /\ flush(a, B[t]) = V /\ Sound(a, B[t])
    BY <1>6, Zenon DEF Makes, Yields
  <2>2. \A u \in Tables : appenders'[u] = IF u = t THEN a ELSE A[u]
    BY <1>2, <1>6, SMTT(30), Zenon
  <2>3. ASSUME NEW u \in Tables
        PROVE  /\ appenders'[u].open => Sound(appenders'[u], base'[u])
               /\ ViewOf(appenders'[u], base'[u]) = IF u = t THEN V ELSE View(u)
    <3>1. CASE u = t
      BY <1>6, <2>1, <2>2, <3>1, SMTT(30), Zenon DEF ViewOf
    <3>2. CASE u # t
      BY <1>1, <1>6, <2>2, <3>2, SMTT(30), Zenon
    <3> QED
      BY <3>1, <3>2, SMTT(30), Zenon
  <2>4. PendingInv'
    BY <1>3, <1>6, <2>3, SMTT(30), Zenon DEF PendingInv, Open
  <2>5. \A u \in Tables : View(u)' = IF u = t THEN V ELSE View(u)
    BY <2>3, Zenon DEF View, ViewOf
  <2> QED
    BY <1>4, <2>4, <2>5, Zenon
<1> QED
  BY <1>5, <1>6, Zenon DEF RowDone

(* A step that leaves the transaction invalidated shows the session        *)
(* nothing: its view is what a rollback will restore.                      *)
LEMMA AbortedView ==
    ASSUME aborted', committed' = committed
    PROVE  PendingInv' /\ SessionView' = committed /\ (aborted => SessionView = committed)
BY Zenon DEF PendingInv, SessionView

LEMMA AbstractKeys ==
    ASSUME NEW T, NEW K
    PROVE  Abstract!KeysOf(T) = KeysOf(T) /\ Abstract!Without(T, K) = Without(T, K)
BY Zenon DEF Abstract!KeysOf, Abstract!Without, KeysOf, Without

(* A row operation that succeeds, as a step of SessionTables. *)
LEMMA RowDoneStep ==
    ASSUME BatchInv, PendingInv, NEW t \in Tables, NEW insert_only \in BOOLEAN,
           NEW T, NEW a, NEW n, NEW V, RowDone(t, insert_only, T, a, n),
           ~aborted => Makes(t, insert_only, T, a, V)
    PROVE  PendingInv' /\ Abstract!Change(t, V)
<1>1. committed' = committed /\ aborted' = aborted
  BY Zenon DEF RowDone, Prologue
<1>2. CASE aborted
  BY <1>1, <1>2, AbortedView, Zenon DEF Abstract!Change
<1>3. CASE ~aborted
  BY <1>3, RowDoneView, Zenon
<1> QED
  BY <1>2, <1>3, Zenon

LEMMA WriteRowStep ==
    ASSUME UniqueKeys, BatchInv, PendingInv, NEW t \in Tables, NEW k \in Keys,
           NEW v \in Vals, write_row(t, k, v)
    PROVE  PendingInv' /\ Abstract!Insert(t, k, v)
<1> DEFINE a == get_appender(t, TRUE)
           B == BaseFor(TRUE)
           V == View(t) \cup {<<k, v>>}
<1>1. /\ k \notin KeysOf(View(t))
      /\ RowDone(t, TRUE, B[t] \cup {<<k, v>>}, append_row_insert(a, k, v), 1)
      /\ reply' = <<"insert", t, k, v>>
  BY Zenon DEF write_row, Unused
<1>2. a \in GoodAppender /\ a.open
  BY RowOperands, Zenon
<1> HIDE DEF a, B
<1>3. ASSUME ~aborted
      PROVE  Makes(t, TRUE, B[t] \cup {<<k, v>>}, append_row_insert(a, k, v), V)
  <2>1. /\ ViewOf(AppendersFor(TRUE)[t], B[t]) = View(t)
        /\ get_batch_state(TRUE) = "NOT_IN_BATCH" => ~AppendersFor(TRUE)[t].open
        /\ flush(a, B[t]) = View(t)
        /\ Sound(a, B[t])
    BY <1>3, RowOperandsView, Zenon DEF a, B
  <2>2. get_batch_state(TRUE) = "NOT_IN_BATCH" => B[t] \cup {<<k, v>>} = V
    BY <2>1, Zenon DEF ViewOf
  <2>3. append_row_insert(a, k, v).open
    BY <1>2, AppendInsertType, Zenon
  <2>4. /\ flush(append_row_insert(a, k, v), B[t]) = flush(a, B[t]) \cup {<<k, v>>}
        /\ Sound(append_row_insert(a, k, v), B[t])
    BY <1>1, <1>2, <2>1, AppendInsertFlush, Zenon
  <2> QED
    BY <2>1, <2>2, <2>3, <2>4, Zenon DEF Makes, Yields, B
<1>4. PendingInv' /\ Abstract!Change(t, V)
  BY <1>1, <1>3, RowDoneStep, Zenon DEF B
<1>5. ~aborted => SessionView[t] = View(t)
  BY Zenon DEF SessionView, FlushedBase
<1>6. Abstract!Unused(t, k)
  BY <1>1, <1>5, AbstractKeys, Zenon DEF Abstract!Unused
<1>7. Abstract!Change(t, SessionView[t] \cup {<<k, v>>})
  BY <1>4, <1>5, Zenon DEF Abstract!Change
<1> QED
  BY <1>1, <1>4, <1>6, <1>7, Zenon DEF Abstract!Insert

LEMMA UpdateRowStep ==
    ASSUME UniqueKeys, BatchInv, PendingInv, NEW t \in Tables, NEW old \in Keys,
           NEW k \in Keys, NEW v \in Vals, update_row(t, old, k, v)
    PROVE  PendingInv' /\ Abstract!Update(t, old, k, v)
<1> DEFINE a == get_appender(t, FALSE)
           B == BaseFor(FALSE)
           T == SqlUpdate(B[t], old, k, v)
           V == Without(View(t), {old}) \cup {<<k, v>>}
<1>1. /\ old \in KeysOf(View(t))
      /\ k # old => k \notin KeysOf(View(t))
      /\ RowDone(t, FALSE, T, append_row_update(a, old, k, v), 2)
      /\ reply' = <<"update", t, old, k, v>>
  BY Zenon DEF update_row, Unused, Used
<1>2. a \in GoodAppender /\ a.open
  BY RowOperands, Zenon
<1> HIDE DEF a, B
<1>3. ASSUME ~aborted
      PROVE  Makes(t, FALSE, T, append_row_update(a, old, k, v), V)
  <2>1. /\ ViewOf(AppendersFor(FALSE)[t], B[t]) = View(t)
        /\ get_batch_state(FALSE) = "NOT_IN_BATCH" => ~AppendersFor(FALSE)[t].open
        /\ flush(a, B[t]) = View(t)
        /\ Sound(a, B[t])
    BY <1>3, RowOperandsView, Zenon DEF a, B
  <2>2. get_batch_state(FALSE) = "NOT_IN_BATCH" => T = V
    BY <1>1, <2>1, Zenon DEF ViewOf, SqlUpdate
  <2>3. ASSUME a.use_tmp_table
        PROVE  Yields(append_row_update(a, old, k, v), B[t], V)
    <3>1. append_row_update(a, old, k, v).open
      BY <1>2, <2>3, AppendUpdateType, Zenon
    <3>2. k # old => k \notin KeysOf(flush(a, B[t]))
      BY <1>1, <2>1, Zenon
    <3>3. /\ flush(append_row_update(a, old, k, v), B[t])
               = Without(flush(a, B[t]), {old}) \cup {<<k, v>>}
          /\ Sound(append_row_update(a, old, k, v), B[t])
      BY <1>2, <2>1, <2>3, <3>2, AppendUpdateFlush, Zenon
    <3> QED
      BY <2>1, <3>1, <3>3, Zenon DEF Yields
  <2> QED
    BY <2>2, <2>3, Zenon DEF Makes, B, a
<1>4. PendingInv' /\ Abstract!Change(t, V)
  BY <1>1, <1>3, RowDoneStep, Zenon
<1>5. ~aborted => SessionView[t] = View(t)
  BY Zenon DEF SessionView, FlushedBase
<1>6. /\ aborted \/ old \in Abstract!KeysOf(SessionView[t])
      /\ k # old => Abstract!Unused(t, k)
  BY <1>1, <1>5, AbstractKeys, Zenon DEF Abstract!Unused
<1>7. Abstract!Change(t, Abstract!Without(SessionView[t], {old}) \cup {<<k, v>>})
  BY <1>4, <1>5, AbstractKeys, Zenon DEF Abstract!Change
<1> QED
  BY <1>1, <1>4, <1>6, <1>7, Zenon DEF Abstract!Update

LEMMA DeleteRowStep ==
    ASSUME BatchInv, PendingInv, NEW t \in Tables, NEW k \in Keys, delete_row(t, k)
    PROVE  PendingInv' /\ Abstract!Delete(t, {k})
<1> DEFINE a == get_appender(t, FALSE)
           B == BaseFor(FALSE)
           V == Without(View(t), {k})
<1>1. /\ RowDone(t, FALSE, Without(B[t], {k}), append_row_delete(a, k), 1)
      /\ reply' = <<"delete", t, {k}>>
  BY Zenon DEF delete_row
<1>2. a \in GoodAppender /\ a.open
  BY RowOperands, Zenon
<1> HIDE DEF a, B
<1>3. ASSUME ~aborted
      PROVE  Makes(t, FALSE, Without(B[t], {k}), append_row_delete(a, k), V)
  <2>1. /\ ViewOf(AppendersFor(FALSE)[t], B[t]) = View(t)
        /\ get_batch_state(FALSE) = "NOT_IN_BATCH" => ~AppendersFor(FALSE)[t].open
        /\ flush(a, B[t]) = View(t)
        /\ Sound(a, B[t])
    BY <1>3, RowOperandsView, Zenon DEF a, B
  <2>2. get_batch_state(FALSE) = "NOT_IN_BATCH" => Without(B[t], {k}) = V
    BY <2>1, Zenon DEF ViewOf
  <2>3. ASSUME a.use_tmp_table
        PROVE  Yields(append_row_delete(a, k), B[t], V)
    <3>1. append_row_delete(a, k).open
      BY <1>2, <2>3, AppendDeleteType, Zenon
    <3>2. /\ flush(append_row_delete(a, k), B[t]) = Without(flush(a, B[t]), {k})
          /\ Sound(append_row_delete(a, k), B[t])
      BY <1>2, <2>1, <2>3, AppendDeleteFlush, Zenon DEF Sound
    <3> QED
      BY <2>1, <3>1, <3>2, Zenon DEF Yields
  <2> QED
    BY <2>2, <2>3, Zenon DEF Makes, B, a
<1>4. PendingInv' /\ Abstract!Change(t, V)
  BY <1>1, <1>3, RowDoneStep, Zenon
<1>5. ~aborted => SessionView[t] = View(t)
  BY Zenon DEF SessionView, FlushedBase
<1>6. Abstract!Change(t, Abstract!Without(SessionView[t], {k}))
  BY <1>4, <1>5, AbstractKeys, Zenon DEF Abstract!Change
<1> QED
  BY <1>1, <1>4, <1>6, Zenon DEF Abstract!Delete

---------------------------------------------------------------------------
(* Steps that fail, flush or end the transaction *)

(* The view does not change and the transaction stays valid. *)
LEMMA SameView ==
    ASSUME ~aborted, ~aborted', \A t \in Tables : View(t)' = View(t)
    PROVE  SessionView' = SessionView
<1>1. FlushedBase' = FlushedBase
  BY Zenon DEF FlushedBase
<1> QED
  BY <1>1, Zenon DEF SessionView

(* A step that reports an error is Fail of SessionTables when it leaves    *)
(* the view alone or invalidates the transaction.                          *)
LEMMA ErrorStep ==
    ASSUME BatchInv, reply' = Error, committed' = committed, aborted' \in {aborted, TRUE},
           aborted' \/ (PendingInv' /\ \A t \in Tables : View(t)' = View(t))
    PROVE  PendingInv' /\ Abstract!Fail
<1>1. aborted \in BOOLEAN
  BY Zenon DEF BatchInv, TypeInv, TypeOK
<1>2. CASE aborted'
  <2>1. aborted' = TRUE
    BY <1>1, <1>2, Zenon
  <2> QED
    BY <1>2, <2>1, AbortedView, Zenon DEF Abstract!Fail, Error
<1>3. CASE ~aborted'
  <2>1. aborted' = aborted
    BY <1>3, Zenon
  <2>2. ~aborted
    BY <1>3, <2>1, Zenon
  <2>3. SessionView' = SessionView
    BY <1>3, <2>2, SameView, Zenon
  <2> QED
    BY <1>3, <2>1, <2>3, Zenon DEF Abstract!Fail, Error
<1> QED
  BY <1>2, <1>3, SMTT(30), Zenon

(* After a flush of everything nothing is pending. *)
LEMMA NothingPending ==
    ASSUME appenders' = NoAppenders
    PROVE  PendingInv'
<1>1. Open' = {}
  BY NoAppendersType, Zenon DEF Open
<1> QED
  BY <1>1, Zenon DEF PendingInv

(* A flush_all can only fail by invalidating the transaction, because      *)
(* every pending appender can be flushed.                                  *)
LEMMA FlushAllFailsAborts ==
    ASSUME BatchInv, PendingInv, FlushAllFails
    PROVE  aborted' = TRUE
<1>1. PICK f \in Open : \/ ~CanFlush(appenders[f]) /\ UNCHANGED aborted
                        \/ aborted' = TRUE
  BY Zenon DEF FlushAllFails
<1>2. ~aborted => CanFlush(appenders[f])
  BY Zenon DEF PendingInv, Sound, CanFlush
<1>3. aborted \in BOOLEAN
  BY Zenon DEF BatchInv, TypeInv, TypeOK
<1> QED
  BY <1>1, <1>2, <1>3, Zenon

LEMMA RowFailsStep ==
    ASSUME BatchInv, PendingInv, NEW insert_only \in BOOLEAN, RowFails(insert_only)
    PROVE  PendingInv' /\ Abstract!Fail
<1>1. CASE FlushAllFails /\ committed' = committed /\ reply' = Error
  BY <1>1, FlushAllFailsAborts, ErrorStep, Zenon
<1>2. CASE /\ get_batch_state(insert_only) = "NOT_IN_BATCH"
           /\ base' = BaseFor(insert_only)
           /\ appenders' = AppendersFor(insert_only)
           /\ aborted' \in {aborted, TRUE}
           /\ committed' = committed /\ reply' = Error
  <2>1. ASSUME ~aborted'
        PROVE  PendingInv' /\ \A t \in Tables : View(t)' = View(t)
    <3>1. ~aborted
      BY <1>2, <2>1, Zenon
    <3>2. ASSUME NEW t \in Tables
          PROVE  ~appenders'[t].open /\ View(t)' = View(t)
      <4>1. /\ ViewOf(AppendersFor(insert_only)[t], BaseFor(insert_only)[t]) = View(t)
            /\ ~AppendersFor(insert_only)[t].open
        BY <1>2, <3>1, RowOperandsView, Zenon
      <4> QED
        BY <1>2, <4>1, Zenon DEF View, ViewOf
    <3>3. Open' = {}
      BY <3>2, Zenon DEF Open
    <3> QED
      BY <3>2, <3>3, Zenon DEF PendingInv
  <2> QED
    BY <1>2, <2>1, ErrorStep, Zenon
<1> QED
  BY <1>1, <1>2, Zenon DEF RowFails, Prologue

(* Where every table has a primary key and appenders refuse no row, an     *)
(* append only fails in a transaction that is already invalidated.         *)
LEMMA AppendFailsStep ==
    ASSUME ~AppendFaults, NoPk = {}, BatchInv, PendingInv, NEW t \in Tables,
           NEW insert_only \in BOOLEAN, NEW T, NEW As, NEW op,
           AppendFails(t, insert_only, T, As, op)
    PROVE  PendingInv' /\ Abstract!Fail
<1>1. /\ ~Initialized(t, insert_only)
      /\ committed' = committed
      /\ \/ ~aborted
         \/ reply' = Error /\ aborted' \in {aborted, TRUE}
  BY Zenon DEF AppendFails, Prologue
<1>2. aborted
  BY <1>1, Zenon DEF Initialized
<1> QED
  BY <1>1, <1>2, ErrorStep, Zenon

(* A full chunk only moves from the appender to the table. *)
LEMMA SpillStep ==
    ASSUME BatchInv, PendingInv, NEW t \in Tables, Spill(t)
    PROVE  PendingInv' /\ UNCHANGED Abstract!vars
<1> DEFINE a == appenders[t]
           b == [a EXCEPT !.rows = {}]
<1>1. /\ ~aborted /\ aborted' = aborted
      /\ a.open /\ ~a.use_tmp_table
      /\ base' = [base EXCEPT ![t] = @ \cup RowsOf(a.rows)]
      /\ appenders' = [appenders EXCEPT ![t] = b]
      /\ committed' = committed /\ reply' = reply /\ batch_state' = batch_state
  BY Zenon DEF Spill
<1>2. /\ appenders \in [Tables -> GoodAppender]
      /\ DOMAIN base = Tables
      /\ a \in GoodAppender
  BY Zenon DEF BatchInv, TypeInv, TypeOK
<1>3. /\ b.open = a.open /\ b.use_tmp_table = a.use_tmp_table /\ b.rows = {}
      /\ b.incomplete = a.incomplete /\ b.dropped = a.dropped
  BY <1>2, SMTT(30), Zenon DEF GoodAppender, Appender
<1> HIDE DEF a, b
<1>4. Sound(a, base[t])
  BY <1>1, SMTT(30), Zenon DEF PendingInv, Open, a
<1>5. Sound(b, base'[t])
  BY <1>1, <1>3, <1>4, Zenon DEF Sound, Ordered
<1>6. \A u \in Tables : /\ appenders'[u] = IF u = t THEN b ELSE appenders[u]
                        /\ base'[u] = IF u = t THEN base[t] \cup RowsOf(a.rows) ELSE base[u]
  BY <1>1, <1>2, Zenon
<1>7. \A u \in Tables : appenders'[u].open => Sound(appenders'[u], base'[u])
  <2> SUFFICES ASSUME NEW u \in Tables, appenders'[u].open
               PROVE  Sound(appenders'[u], base'[u])
    BY Zenon
  <2>1. CASE u = t
    BY <1>5, <1>6, <2>1, Zenon
  <2>2. CASE u # t
    BY <1>1, <1>6, <2>2, Zenon DEF PendingInv, Open
  <2> QED
    BY <2>1, <2>2, SMTT(30), Zenon
<1>8. \A u \in Tables : appenders'[u].open <=> appenders[u].open
  BY <1>1, <1>3, <1>6, ZenonT(30) DEF a
<1>9. PendingInv'
  BY <1>1, <1>7, <1>8, Zenon DEF PendingInv, Open
<1>10. \A u \in Tables : View(u)' = View(u)
  <2>1. flush(b, base'[t]) = flush(a, base[t])
    <3>1. flush(a, base[t]) = base[t] \cup RowsOf(a.rows)
      BY <1>1, SMTT(30), Zenon DEF flush
    <3>2. flush(b, base'[t]) = base'[t] \cup RowsOf({})
      BY <1>1, <1>3, SMTT(30), Zenon DEF flush
    <3>3. RowsOf({}) = {}
      BY Zenon DEF RowsOf
    <3> QED
      BY <1>6, <3>1, <3>2, <3>3, SMTT(30), Zenon
  <2> SUFFICES ASSUME NEW u \in Tables PROVE View(u)' = View(u)
    BY Zenon
  <2>2. CASE u = t
    BY <1>1, <1>3, <1>6, <2>1, <2>2, Zenon DEF View, a
  <2>3. CASE u # t
    BY <1>6, <2>3, Zenon DEF View
  <2> QED
    BY <2>2, <2>3, SMTT(30), Zenon
<1>11. SessionView' = SessionView
  BY <1>1, <1>10, SameView, Zenon
<1> QED
  BY <1>1, <1>9, <1>11, Zenon DEF Abstract!vars

LEMMA ScanStep ==
    ASSUME BatchInv, NEW t \in Tables, rnd_init(t)
    PROVE  PendingInv' /\ Abstract!Scan(t)
<1>1. /\ ~aborted /\ aborted' = aborted
      /\ base' = FlushedBase /\ appenders' = NoAppenders
      /\ reply' = <<"scan", t, base'[t]>>
      /\ committed' = committed
  BY Zenon DEF rnd_init, FlushAppenders
<1>2. PendingInv'
  BY <1>1, NothingPending, Zenon
<1>3. SessionView' = SessionView
  BY <1>1, FlushedView, SameView, Zenon
<1>4. base' = SessionView
  BY <1>1, Zenon DEF SessionView
<1> QED
  BY <1>1, <1>2, <1>3, <1>4, Zenon DEF Abstract!Scan

(* A forwarded statement makes T of what the flush has made of table t. *)
LEMMA DirectStep ==
    ASSUME NEW t \in Tables, NEW T, DirectDone(t, T)
    PROVE  PendingInv' /\ Abstract!Change(t, T) /\ SessionView = FlushedBase
<1>1. /\ ~aborted /\ aborted' = aborted
      /\ base' = [FlushedBase EXCEPT ![t] = T] /\ appenders' = NoAppenders
      /\ committed' = committed
  BY Zenon DEF DirectDone
<1>2. PendingInv'
  BY <1>1, NothingPending, Zenon
<1>3. SessionView = FlushedBase /\ SessionView' = FlushedBase'
  BY <1>1, Zenon DEF SessionView
<1>4. FlushedBase' = base'
  <2>1. \A u \in Tables : View(u)' = base'[u]
    BY <1>1, NoAppendersType, Zenon DEF View
  <2>2. FlushedBase' = [u \in Tables |-> base'[u]]
    BY <2>1, Zenon DEF FlushedBase
  <2>3. base' = [u \in Tables |-> base'[u]]
    BY <1>1, Zenon DEF FlushedBase
  <2> QED
    BY <2>2, <2>3, Zenon
<1> QED
  BY <1>1, <1>2, <1>3, <1>4, Zenon DEF Abstract!Change

LEMMA DirectDeleteStep ==
    ASSUME NEW t \in Tables, NEW K, direct_delete_rows(t, K)
    PROVE  PendingInv' /\ Abstract!Delete(t, K)
<1>1. /\ DirectDone(t, Without(FlushedBase[t], K))
      /\ reply' = <<"delete", t, K>>
  BY Zenon DEF direct_delete_rows
<1>2. /\ PendingInv'
      /\ Abstract!Change(t, Without(FlushedBase[t], K))
      /\ SessionView = FlushedBase
  BY <1>1, DirectStep, ZenonT(30)
<1> QED
  BY <1>1, <1>2, AbstractKeys, Zenon DEF Abstract!Delete

LEMMA DirectUpdateStep ==
    ASSUME NEW t \in Tables, NEW K, NEW v, direct_update_rows(t, K, v)
    PROVE  PendingInv' /\ Abstract!UpdateSet(t, K, v)
<1> DEFINE T == Without(FlushedBase[t], K)
                  \cup {<<k, v>> : k \in K \cap KeysOf(FlushedBase[t])}
<1>1. /\ DirectDone(t, T)
      /\ reply' = <<"update_set", t, K, v>>
  BY Zenon DEF direct_update_rows
<1>2. PendingInv' /\ Abstract!Change(t, T) /\ SessionView = FlushedBase
  BY <1>1, DirectStep, ZenonT(30)
<1>3. T = Abstract!Without(SessionView[t], K)
            \cup {<<k, v>> : k \in K \cap Abstract!KeysOf(SessionView[t])}
  BY <1>2, AbstractKeys, Zenon
<1> HIDE DEF T
<1> QED
  BY <1>1, <1>2, <1>3, Zenon DEF Abstract!UpdateSet

LEMMA DeleteAllRowsStep ==
    ASSUME BatchInv, PendingInv, NEW t \in Tables, delete_all_rows(t)
    PROVE  PendingInv' /\ (Abstract!Delete(t, Keys) \/ Abstract!Fail)
<1>1. /\ appenders' = [appenders EXCEPT ![t] = Closed]
      /\ committed' = committed /\ batch_state' = batch_state
  BY Zenon DEF delete_all_rows
<1>2. CASE aborted' = TRUE /\ reply' = Error
  BY <1>1, <1>2, ErrorStep, Zenon
<1>3. CASE /\ ~aborted /\ aborted' = aborted
           /\ base' = [base EXCEPT ![t] = {}]
           /\ reply' = <<"delete", t, Keys>>
  <2>1. DOMAIN appenders = Tables /\ DOMAIN base = Tables
    BY Zenon DEF BatchInv, TypeInv, TypeOK
  <2>2. ~Closed.open
    BY Zenon DEF Closed, NewAppender
  <2>3. /\ ~appenders'[t].open /\ base'[t] = {}
        /\ \A u \in Tables \ {t} : appenders'[u] = appenders[u] /\ base'[u] = base[u]
    BY <1>1, <1>3, <2>1, <2>2, SMTT(30), Zenon
  <2>4. PendingInv'
    BY <1>1, <1>3, <2>3, SMTT(30), Zenon DEF PendingInv, Open
  <2>5. \A u \in Tables : View(u)' = IF u = t THEN {} ELSE View(u)
    BY <2>3, Zenon DEF View
  <2>6. SessionView = FlushedBase /\ SessionView' = FlushedBase'
    BY <1>3, Zenon DEF SessionView
  <2>7. FlushedBase' = [FlushedBase EXCEPT ![t] = {}]
    BY <2>5, Zenon DEF FlushedBase
  <2>8. Abstract!Without(SessionView[t], Keys) = {}
    <3>1. SessionView[t] \in SUBSET Row
      BY <2>6, ViewType, Zenon DEF BatchInv
    <3> QED
      BY <3>1, Zenon DEF Abstract!Without, Row
  <2>9. Abstract!Change(t, {})
    BY <1>1, <1>3, <2>6, <2>7, Zenon DEF Abstract!Change
  <2> QED
    BY <1>3, <2>4, <2>8, <2>9, Zenon DEF Abstract!Delete
<1> QED
  BY <1>2, <1>3, Zenon DEF delete_all_rows

LEMMA FlushThenFailsStep ==
    ASSUME BatchInv, PendingInv, FlushThenFails
    PROVE  PendingInv' /\ Abstract!Fail
<1>1. reply' = Error /\ committed' = committed
  BY Zenon DEF FlushThenFails
<1>2. CASE FlushAllFails
  BY <1>1, <1>2, FlushAllFailsAborts, ErrorStep, Zenon
<1>3. CASE /\ base' = FlushedBase /\ appenders' = NoAppenders
           /\ aborted' \in {aborted, TRUE}
  BY <1>1, <1>3, NothingPending, FlushedView, ErrorStep, Zenon
<1> QED
  BY <1>2, <1>3, Zenon DEF FlushThenFails

LEMMA RejectedStep ==
    ASSUME BatchInv, PendingInv, Rejected
    PROVE  PendingInv' /\ Abstract!Fail
<1>1. /\ reply' = Error /\ committed' = committed
      /\ aborted' \in {aborted, TRUE}
      /\ UNCHANGED <<batch_state, appenders, base>>
  BY Zenon DEF Rejected
<1>2. \A t \in Tables : View(t)' = View(t)
  BY <1>1, Zenon DEF View
<1>3. ~aborted' => ~aborted
  BY <1>1, Zenon
<1>4. PendingInv'
  BY <1>1, <1>3, Zenon DEF PendingInv, Open
<1> QED
  BY <1>1, <1>2, <1>4, ErrorStep, Zenon

LEMMA PrepareStep ==
    ASSUME BatchInv, PendingInv, duckdb_prepare
    PROVE  PendingInv' /\ (Abstract!Fail \/ UNCHANGED Abstract!vars)
<1>1. committed' = committed
  BY Zenon DEF duckdb_prepare
<1>2. CASE FlushAllFails /\ reply' = Error
  BY <1>1, <1>2, FlushAllFailsAborts, ErrorStep, Zenon
<1>3. CASE FlushAppenders /\ UNCHANGED reply
  <2>1. base' = FlushedBase /\ appenders' = NoAppenders /\ aborted' = aborted
    BY <1>3, Zenon DEF FlushAppenders
  <2>2. PendingInv'
    BY <2>1, NothingPending, Zenon
  <2>3. SessionView' = SessionView
    <3>1. CASE aborted
      BY <1>1, <2>1, <3>1, AbortedView, Zenon
    <3>2. CASE ~aborted
      BY <2>1, <3>2, FlushedView, SameView, Zenon
    <3> QED
      BY <3>1, <3>2, Zenon
  <2> QED
    BY <1>1, <1>3, <2>1, <2>2, <2>3, Zenon DEF Abstract!vars
<1> QED
  BY <1>2, <1>3, Zenon DEF duckdb_prepare

(* Where no appender is left the view is the tables themselves. *)
LEMMA ViewIsBase ==
    ASSUME appenders' = NoAppenders, NEW T, DOMAIN T = Tables,
           T = [t \in Tables |-> T[t]], base' = T, ~aborted'
    PROVE  SessionView' = T
<1>1. \A t \in Tables : View(t)' = base'[t]
  BY NoAppendersType, Zenon DEF View
<1>2. FlushedBase' = [t \in Tables |-> base'[t]]
  BY <1>1, Zenon DEF FlushedBase
<1> QED
  BY <1>2, Zenon DEF SessionView

LEMMA RollbackStep ==
    ASSUME BatchInv, TransRollback, reply' \in {<<"rollback">>, Error}
    PROVE  PendingInv' /\ Abstract!Rollback
<1>1. /\ appenders' = NoAppenders /\ base' = committed
      /\ aborted' = FALSE /\ committed' = committed
  BY Zenon DEF TransRollback
<1>2. PendingInv'
  BY <1>1, NothingPending, Zenon
<1>3. committed \in [Tables -> SUBSET Row]
  BY Zenon DEF BatchInv, TypeInv, TypeOK
<1>4. DOMAIN committed = Tables /\ committed = [t \in Tables |-> committed[t]]
  BY <1>3, Zenon
<1>5. SessionView' = committed
  BY <1>1, <1>4, ViewIsBase, Zenon
<1> QED
  BY <1>1, <1>2, <1>5, Zenon DEF Abstract!Rollback, Error

LEMMA CommitStep ==
    ASSUME BatchInv, duckdb_commit
    PROVE  PendingInv' /\ (Abstract!Commit \/ Abstract!Rollback)
<1>1. CASE TransRollback /\ reply' = Error
  BY <1>1, RollbackStep, Zenon
<1>2. CASE /\ ~aborted /\ aborted' = aborted
           /\ base' = FlushedBase /\ committed' = FlushedBase
           /\ appenders' = NoAppenders
           /\ reply' = <<"commit">>
  <2>1. PendingInv'
    BY <1>2, NothingPending, Zenon
  <2>2. SessionView = FlushedBase
    BY <1>2, Zenon DEF SessionView
  <2>3. SessionView' = SessionView
    BY <1>2, FlushedView, SameView, Zenon
  <2> QED
    BY <1>2, <2>1, <2>2, <2>3, Zenon DEF Abstract!Commit
<1> QED
  BY <1>1, <1>2, Zenon DEF duckdb_commit

(* Steps that change nothing the session or the tables depend on. *)
LEMMA StutteringStep ==
    ASSUME PendingInv,
           UNCHANGED <<batch_state, appenders, aborted, base, committed, reply>>
    PROVE  PendingInv' /\ UNCHANGED Abstract!vars
<1>1. PendingInv'
  BY Zenon DEF PendingInv, Open
<1>2. \A t \in Tables : View(t)' = View(t)
  BY Zenon DEF View
<1>3. FlushedBase' = FlushedBase
  BY <1>2, Zenon DEF FlushedBase
<1>4. SessionView' = SessionView
  BY <1>3, Zenon DEF SessionView
<1> QED
  BY <1>1, <1>4, Zenon DEF Abstract!vars

(* Every step of the session is a step of SessionTables or leaves what it  *)
(* shows unchanged.                                                        *)
LEMMA NextStep ==
    ASSUME UniqueKeys, ~AppendFaults, NoPk = {}, BatchInv, PendingInv, [Next]_vars
    PROVE  PendingInv' /\ [Abstract!Next]_(Abstract!vars)
<1> DEFINE Simulated == PendingInv' /\ (Abstract!Next \/ UNCHANGED Abstract!vars)
<1>1. ASSUME NEW t \in Tables, NEW k \in Keys, NEW v \in Vals, write_row(t, k, v)
      PROVE  Simulated
  BY <1>1, WriteRowStep, Zenon DEF Abstract!Next
<1>2. ASSUME NEW t \in Tables, NEW old \in Keys, NEW k \in Keys, NEW v \in Vals,
             update_row(t, old, k, v)
      PROVE  Simulated
  BY <1>2, UpdateRowStep, Zenon DEF Abstract!Next
<1>3. ASSUME NEW t \in Tables, NEW k \in Keys, delete_row(t, k)
      PROVE  Simulated
  <2>1. {k} \in SUBSET Keys
    BY Zenon
  <2> QED
    BY <1>3, <2>1, DeleteRowStep, Zenon DEF Abstract!Next
<1>4. ASSUME PendingInv' /\ Abstract!Fail PROVE Simulated
  BY <1>4, Zenon DEF Abstract!Next
<1>5. ASSUME NEW insert_only \in BOOLEAN, RowFails(insert_only)
      PROVE  Simulated
  BY <1>4, <1>5, RowFailsStep, Zenon
<1>6. ASSUME NEW t \in Tables, NEW insert_only \in BOOLEAN, NEW T, NEW As, NEW op,
             AppendFails(t, insert_only, T, As, op)
      PROVE  Simulated
  BY <1>4, <1>6, AppendFailsStep, Zenon
<1>7. ASSUME NEW t \in Tables, Spill(t) \/ rnd_init(t) \/ delete_all_rows(t)
      PROVE  Simulated
  <2>1. CASE Spill(t)
    BY <2>1, SpillStep, Zenon
  <2>2. CASE rnd_init(t)
    BY <2>2, ScanStep, Zenon DEF Abstract!Next
  <2>3. CASE delete_all_rows(t)
    <3>1. Keys \in SUBSET Keys
      BY Zenon
    <3> QED
      BY <2>3, <3>1, DeleteAllRowsStep, Zenon DEF Abstract!Next
  <2> QED
    BY <1>7, <2>1, <2>2, <2>3, Zenon
<1>8. ASSUME NEW t \in Tables, NEW K \in SUBSET Keys, direct_delete_rows(t, K)
      PROVE  Simulated
  BY <1>8, DirectDeleteStep, Zenon DEF Abstract!Next
<1>9. ASSUME NEW t \in Tables, NEW K \in SUBSET Keys, NEW v \in Vals,
             direct_update_rows(t, K, v)
      PROVE  Simulated
  BY <1>9, DirectUpdateStep, Zenon DEF Abstract!Next
<1>10. ASSUME FlushThenFails \/ Rejected \/ duckdb_prepare PROVE Simulated
  <2>1. CASE FlushThenFails \/ Rejected
    BY <1>4, <2>1, FlushThenFailsStep, RejectedStep, Zenon
  <2>2. CASE duckdb_prepare
    BY <1>4, <2>2, PrepareStep, Zenon
  <2> QED
    BY <1>10, <2>1, <2>2, Zenon
<1>11. ASSUME duckdb_commit PROVE Simulated
  BY <1>11, CommitStep, Zenon DEF Abstract!Next
<1>12. ASSUME duckdb_rollback PROVE Simulated
  <2>1. TransRollback /\ reply' \in {<<"rollback">>, Error}
    BY <1>12, Zenon DEF duckdb_rollback
  <2> QED
    BY <2>1, RollbackStep, Zenon DEF Abstract!Next
<1>13. ASSUME SetDmlInBatch \/ UNCHANGED vars PROVE Simulated
  <2>1. UNCHANGED <<batch_state, appenders, aborted, base, committed, reply>>
    BY <1>13, Zenon DEF SetDmlInBatch, vars
  <2> QED
    BY <2>1, StutteringStep, Zenon
<1> HIDE DEF Simulated
<1>14. /\ \A t \in Tables, k \in Keys, v \in Vals :
             write_row_append_fails(t, k, v) => Simulated
       /\ \A t \in Tables, old, k \in Keys, v \in Vals :
             update_row_append_fails(t, old, k, v) => Simulated
       /\ \A t \in Tables, k \in Keys : delete_row_append_fails(t, k) => Simulated
  BY <1>6, Zenon DEF write_row_append_fails, update_row_append_fails,
                     delete_row_append_fails
<1>15. Next \/ UNCHANGED vars
  BY Zenon
<1>16. Simulated
  BY <1>1, <1>2, <1>3, <1>5, <1>7, <1>8, <1>9, <1>10, <1>11, <1>12, <1>13, <1>14,
     <1>15, Zenon DEF Next
<1> QED
  BY <1>16, Zenon DEF Simulated

LEMMA InitStep == Init => PendingInv /\ Abstract!Init
<1> SUFFICES ASSUME Init PROVE PendingInv /\ Abstract!Init
  BY Zenon
<1>1. \A t \in Tables : ~appenders[t].open
  BY NoAppendersType, Zenon DEF Init
<1>2. Open = {}
  BY <1>1, Zenon DEF Open
<1>3. \A t \in Tables : View(t) = {}
  BY <1>1, Zenon DEF View, Init
<1>4. FlushedBase = [t \in Tables |-> {}]
  BY <1>3, Zenon DEF FlushedBase
<1>5. SessionView = [t \in Tables |-> {}]
  BY <1>4, Zenon DEF SessionView, Init
<1> QED
  BY <1>2, <1>5, Zenon DEF Init, PendingInv, Abstract!Init

---------------------------------------------------------------------------

(* For a client that keeps its keys unique, tables that have a primary key *)
(* and appenders that refuse no row: write_row, update_row, delete_row,    *)
(* the forwarded statements and the scans act on the session's tables one  *)
(* operation at a time, whatever is batched, flushed or spilled meanwhile, *)
(* and duckdb_commit publishes their combined effect or none of it.        *)
THEOREM BatchingIsInvisible ==
    ASSUME UniqueKeys, ~AppendFaults, NoPk = {}
    PROVE  Spec => ImplementsSessionTables
<1>1. Init => PendingInv /\ Abstract!Init
  BY InitStep, Zenon
<1>2. BatchInv /\ PendingInv /\ [Next]_vars => PendingInv' /\ [Abstract!Next]_(Abstract!vars)
  BY NextStep, Zenon
<1> QED
  BY <1>1, <1>2, BatchInvariant, PTL DEF Spec, ImplementsSessionTables, Abstract!Spec

(* Every table has at most one row per key, in what is committed and in    *)
(* what a COMMIT would publish: SessionTables keeps it so, one operation   *)
(* at a time, and BatchDml implements SessionTables.                       *)
THEOREM KeysStayUnique ==
    ASSUME ~AppendFaults, NoPk = {}
    PROVE  Spec => []OneRowPerKey
<1>1. CASE ~UniqueKeys
  <2>1. OneRowPerKey
    BY <1>1, Zenon DEF OneRowPerKey
  <2> QED
    BY <2>1, PTL
<1>2. CASE UniqueKeys
  <2> DEFINE One(T) == \A r, s \in T : r[1] = s[1] => r = s
             Ones == \A t \in Tables : One(committed[t]) /\ One(SessionView[t])
  <2>1. Init => Ones
    BY InitStep, Zenon DEF Abstract!Init
  <2>2. BatchInv /\ Ones /\ [Abstract!Next]_(Abstract!vars) => Ones'
    <3> SUFFICES ASSUME BatchInv, Ones, [Abstract!Next]_(Abstract!vars) PROVE Ones'
      BY Zenon
    <3>1. DOMAIN SessionView = Tables
      BY Zenon DEF SessionView, FlushedBase, BatchInv, TypeInv, TypeOK
    <3>2. ASSUME NEW t \in Tables, NEW V, Abstract!Change(t, V), ~aborted => One(V)
          PROVE  Ones'
      <4>1. /\ committed' = committed
            /\ SessionView' = IF aborted THEN SessionView ELSE [SessionView EXCEPT ![t] = V]
        BY <3>2, Zenon DEF Abstract!Change
      <4>2. CASE aborted
        BY <4>1, <4>2, Zenon
      <4>3. CASE ~aborted
        <5>1. \A u \in Tables : SessionView'[u] = IF u = t THEN V ELSE SessionView[u]
          BY <3>1, <4>1, <4>3, SMTT(30), Zenon
        <5>2. One(V)
          BY <3>2, <4>3, SMTT(30), Zenon
        <5> HIDE DEF One
        <5> QED
          BY <4>1, <5>1, <5>2, Zenon
      <4> QED
        BY <4>2, <4>3, Zenon
    <3>3. ASSUME NEW t \in Tables, NEW k \in Keys, NEW v \in Vals, Abstract!Insert(t, k, v)
          PROVE  Ones'
      <4>1. /\ aborted \/ k \notin KeysOf(SessionView[t])
            /\ Abstract!Change(t, SessionView[t] \cup {<<k, v>>})
        BY <3>3, AbstractKeys, ZenonT(30) DEF Abstract!Insert, Abstract!Unused
      <4>2. ~aborted => One(SessionView[t] \cup {<<k, v>>})
        BY <4>1 DEF KeysOf
      <4> QED
        BY <3>2, <4>1, <4>2, Zenon
    <3>4. ASSUME NEW t \in Tables, NEW old \in Keys, NEW k \in Keys, NEW v \in Vals,
                 Abstract!Update(t, old, k, v)
          PROVE  Ones'
      <4>1. /\ k # old => aborted \/ k \notin KeysOf(SessionView[t])
            /\ Abstract!Change(t, Without(SessionView[t], {old}) \cup {<<k, v>>})
        BY <3>4, AbstractKeys, Zenon DEF Abstract!Update, Abstract!Unused
      <4>2. ~aborted => One(Without(SessionView[t], {old}) \cup {<<k, v>>})
        BY <4>1, SMTT(30), Zenon DEF KeysOf, Without
      <4> QED
        BY <3>2, <4>1, <4>2, Zenon
    <3>5. ASSUME NEW t \in Tables, NEW K \in SUBSET Keys, Abstract!Delete(t, K)
          PROVE  Ones'
      <4>1. Abstract!Change(t, Without(SessionView[t], K))
        BY <3>5, AbstractKeys, Zenon DEF Abstract!Delete
      <4>2. One(Without(SessionView[t], K))
        BY Zenon DEF Without
      <4> QED
        BY <3>2, <4>1, <4>2, Zenon
    <3>6. ASSUME NEW t \in Tables, NEW K \in SUBSET Keys, NEW v \in Vals,
                 Abstract!UpdateSet(t, K, v)
          PROVE  Ones'
      <4> DEFINE V == Without(SessionView[t], K)
                        \cup {<<k, v>> : k \in K \cap KeysOf(SessionView[t])}
      <4>1. Abstract!Change(t, V)
        <5>1. V = Abstract!Without(SessionView[t], K)
                    \cup {<<k, v>> : k \in K \cap Abstract!KeysOf(SessionView[t])}
          BY AbstractKeys, SMTT(30), Zenon
        <5> QED
          BY <3>6, <5>1, SMTT(30), Zenon DEF Abstract!UpdateSet
      <4>2. One(V)
        BY DEF Without
      <4> QED
        BY <3>2, <4>1, <4>2, SMTT(30), Zenon
    <3>7. CASE \/ \E t \in Tables : Abstract!Scan(t)
               \/ Abstract!Fail \/ Abstract!Commit \/ Abstract!Rollback
               \/ UNCHANGED Abstract!vars
      <4>1. /\ committed' \in {committed, SessionView}
            /\ SessionView' \in {committed, SessionView}
        BY <3>7, Zenon DEF Abstract!Scan, Abstract!Fail, Abstract!Commit,
                           Abstract!Rollback, Abstract!vars
      <4> QED
        BY <4>1, Zenon
    <3> HIDE DEF Ones
    <3> QED
      BY <3>3, <3>4, <3>5, <3>6, <3>7, SMTT(30), Zenon DEF Abstract!Next
  <2>3. Ones => OneRowPerKey
    BY Zenon DEF OneRowPerKey, SessionView, FlushedBase
  <2>4. BatchInv /\ PendingInv /\ [Next]_vars
          => PendingInv' /\ [Abstract!Next]_(Abstract!vars)
    BY <1>2, NextStep, Zenon
  <2>5. Init => PendingInv
    BY InitStep, Zenon
  <2> HIDE DEF Ones
  <2> QED
    BY <2>1, <2>2, <2>3, <2>4, <2>5, BatchInvariant, PTL DEF Spec
<1> QED
  BY <1>1, <1>2, Zenon

---------------------------------------------------------------------------
(* The order of statements and appenders, whatever keys the client uses *)

Whole(a) == ~a.incomplete /\ ~a.dropped

(* The inductive invariant: the appenders can all be flushed, so a flush   *)
(* that fails has invalidated the transaction.                             *)
OrderInv ==
    ~aborted => /\ batch_state = "NOT_IN_BATCH" => Open = {}
                /\ \A t \in Open : Whole(appenders[t])

LEMMA AppendIsWhole ==
    ASSUME NEW a \in GoodAppender, Whole(a), NEW old \in Keys, NEW k \in Keys, NEW v \in Vals
    PROVE  /\ Whole(append_row_insert(a, k, v))
           /\ Whole(append_row_delete(a, k))
           /\ a.use_tmp_table => Whole(append_row_update(a, old, k, v))
<1>1. \A c \in GoodAppender : Whole(c) => Whole(append_row_insert(c, k, v))
  BY Zenon DEF Whole, append_row_insert, GoodAppender, Appender
<1>2. \A j : Whole(append_row_delete(a, j))
  BY Zenon DEF Whole, append_row_delete, GoodAppender, Appender
<1>3. a.use_tmp_table => append_row_delete(a, old) \in GoodAppender
  BY AppendDeleteType, Zenon
<1> QED
  BY <1>1, <1>2, <1>3, Zenon DEF append_row_update

LEMMA RowDoneOrder ==
    ASSUME BatchInv, OrderInv, NEW t \in Tables, NEW insert_only \in BOOLEAN,
           NEW T, NEW a, NEW n, RowDone(t, insert_only, T, a, n),
           /\ Whole(get_appender(t, insert_only))
           /\ insert_only \/ get_appender(t, insert_only).use_tmp_table
           => Whole(a)
    PROVE  OrderInv'
<1> DEFINE A == AppendersFor(insert_only)
           bs == get_batch_state(insert_only)
           b == get_appender(t, insert_only)
<1> SUFFICES ASSUME ~aborted' PROVE OrderInv'
  BY Zenon DEF OrderInv
<1>1. ~aborted /\ batch_state' = bs
  BY Zenon DEF RowDone
<1>2. \A u \in Tables : A[u].open => Whole(A[u])
  <2>1. CASE MustFlush(insert_only)
    BY <2>1, NoAppendersType, Zenon DEF AppendersFor
  <2>2. CASE ~MustFlush(insert_only)
    BY <1>1, <2>2, Zenon DEF AppendersFor, OrderInv, Open
  <2> QED
    BY <2>1, <2>2, Zenon
<1>3. ASSUME bs = "NOT_IN_BATCH", NEW u \in Tables
      PROVE  ~A[u].open
  <2>1. CASE MustFlush(insert_only)
    BY <2>1, NoAppendersType, SMTT(30), Zenon DEF AppendersFor
  <2>2. CASE ~MustFlush(insert_only)
    <3>1. A = appenders /\ batch_state \in {"UNDEFINED", "NOT_IN_BATCH"}
      BY <1>3, <2>2, SMTT(30), Zenon DEF AppendersFor, get_batch_state
    <3>2. Open = {}
      BY <1>1, <3>1, SMTT(30), Zenon DEF BatchInv, BatchStateMatchesAppenders, OrderInv
    <3> QED
      BY <3>1, <3>2, Zenon DEF Open
  <2> QED
    BY <2>1, <2>2, SMTT(30), Zenon
<1>4. DOMAIN A = Tables
  BY RowOperands, Zenon
<1>5. CASE bs = "NOT_IN_BATCH" /\ appenders' = A
  <2>1. Open' = {}
    BY <1>3, <1>5, Zenon DEF Open
  <2> QED
    BY <2>1, Zenon DEF OrderInv
<1>6. CASE /\ bs # "NOT_IN_BATCH"
           /\ ~insert_only => b.use_tmp_table
           /\ appenders' = [A EXCEPT ![t] = a]
  <2>1. Whole(b)
    BY <1>2, Zenon DEF get_appender, NewAppender, Whole
  <2>2. Whole(a)
    BY <1>6, <2>1, Zenon
  <2>3. \A u \in Tables : appenders'[u] = IF u = t THEN a ELSE A[u]
    BY <1>4, <1>6, Zenon
  <2>4. \A u \in Tables : appenders'[u].open => Whole(appenders'[u])
    BY <1>2, <2>2, <2>3, Zenon
  <2> QED
    BY <1>1, <1>6, <2>4, Zenon DEF OrderInv, Open
<1> QED
  BY <1>5, <1>6, Zenon DEF RowDone

LEMMA NothingOpenOrder ==
    ASSUME appenders' = NoAppenders
    PROVE  OrderInv'
<1>1. Open' = {}
  BY NoAppendersType, Zenon DEF Open
<1> QED
  BY <1>1, Zenon DEF OrderInv

LEMMA FlushAllFailsOrder ==
    ASSUME BatchInv, OrderInv, FlushAllFails
    PROVE  OrderInv'
<1>1. PICK f \in Open : \/ ~CanFlush(appenders[f]) /\ UNCHANGED aborted
                        \/ aborted' = TRUE
  BY Zenon DEF FlushAllFails
<1>2. ~aborted => CanFlush(appenders[f])
  BY Zenon DEF OrderInv, Whole, CanFlush
<1>3. aborted \in BOOLEAN
  BY Zenon DEF BatchInv, TypeInv, TypeOK
<1>4. aborted' = TRUE
  BY <1>1, <1>2, <1>3, Zenon
<1> QED
  BY <1>4, Zenon DEF OrderInv

LEMMA NextOrder ==
    ASSUME ~AppendFaults, NoPk = {}, BatchInv, OrderInv, [Next]_vars
    PROVE  OrderInv'
<1>1. ASSUME NEW t \in Tables, NEW insert_only \in BOOLEAN
      PROVE  get_appender(t, insert_only) \in GoodAppender
  BY RowOperands, Zenon
<1>2. ASSUME NEW t \in Tables, NEW k \in Keys, NEW v \in Vals, write_row(t, k, v)
      PROVE  OrderInv'
  <2>1. Whole(get_appender(t, TRUE)) => Whole(append_row_insert(get_appender(t, TRUE), k, v))
    BY <1>1, AppendIsWhole, Zenon
  <2> QED
    BY <1>2, <2>1, RowDoneOrder, Zenon DEF write_row
<1>3. ASSUME NEW t \in Tables, NEW old \in Keys, NEW k \in Keys, NEW v \in Vals,
             update_row(t, old, k, v)
      PROVE  OrderInv'
  <2> DEFINE a == get_appender(t, FALSE)
  <2>1. Whole(a) /\ a.use_tmp_table => Whole(append_row_update(a, old, k, v))
    BY <1>1, AppendIsWhole, Zenon
  <2> QED
    BY <1>3, <2>1, RowDoneOrder, Zenon DEF update_row
<1>4. ASSUME NEW t \in Tables, NEW k \in Keys, delete_row(t, k)
      PROVE  OrderInv'
  <2> DEFINE a == get_appender(t, FALSE)
  <2>1. Whole(a) => Whole(append_row_delete(a, k))
    BY <1>1, Zenon DEF Whole, append_row_delete, GoodAppender, Appender
  <2> QED
    BY <1>4, <2>1, RowDoneOrder, Zenon DEF delete_row
<1>5. ASSUME UNCHANGED <<batch_state, appenders>>, aborted' \in {aborted, TRUE}
      PROVE  OrderInv'
  <2>1. ~aborted' => ~aborted
    BY <1>5, Zenon
  <2> QED
    BY <1>5, <2>1, Zenon DEF OrderInv, Open
<1>6. ASSUME NEW insert_only \in BOOLEAN, RowFails(insert_only)
      PROVE  OrderInv'
  <2>1. CASE FlushAllFails
    BY <2>1, FlushAllFailsOrder, Zenon
  <2>2. CASE /\ get_batch_state(insert_only) = "NOT_IN_BATCH"
             /\ batch_state' = "NOT_IN_BATCH"
             /\ appenders' = AppendersFor(insert_only)
             /\ aborted' \in {aborted, TRUE}
    <3>1. CASE MustFlush(insert_only)
      BY <2>2, <3>1, NothingOpenOrder, Zenon DEF AppendersFor
    <3>2. CASE ~MustFlush(insert_only)
      <4>1. appenders' = appenders /\ batch_state \in {"UNDEFINED", "NOT_IN_BATCH"}
        BY <2>2, <3>2, Zenon DEF AppendersFor, get_batch_state
      <4>2. ~aborted' => ~aborted
        BY <2>2, Zenon
      <4>3. ~aborted => Open = {}
        BY <4>1, Zenon DEF BatchInv, BatchStateMatchesAppenders, OrderInv
      <4>4. Open' = Open
        BY <4>1, Zenon DEF Open
      <4> QED
        BY <4>2, <4>3, <4>4, Zenon DEF OrderInv
    <3> QED
      BY <3>1, <3>2, Zenon
  <2> QED
    BY <1>6, <2>1, <2>2, Zenon DEF RowFails
<1>7. ASSUME NEW t \in Tables, NEW insert_only \in BOOLEAN, NEW T, NEW As, NEW op,
             AppendFails(t, insert_only, T, As, op)
      PROVE  OrderInv'
  <2>1. ~Initialized(t, insert_only)
    BY <1>7, Zenon DEF AppendFails
  <2>2. aborted
    BY <2>1, Zenon DEF Initialized
  <2>3. aborted'
    BY <1>7, <2>2, Zenon DEF AppendFails
  <2> QED
    BY <2>3, Zenon DEF OrderInv
<1>8. /\ \A t \in Tables, k \in Keys, v \in Vals :
            write_row_append_fails(t, k, v) => OrderInv'
      /\ \A t \in Tables, old, k \in Keys, v \in Vals :
            update_row_append_fails(t, old, k, v) => OrderInv'
      /\ \A t \in Tables, k \in Keys : delete_row_append_fails(t, k) => OrderInv'
  BY <1>7, Zenon DEF write_row_append_fails, update_row_append_fails,
                     delete_row_append_fails
<1>9. ASSUME NEW t \in Tables, Spill(t)
      PROVE  OrderInv'
  <2> DEFINE b == [appenders[t] EXCEPT !.rows = {}]
  <2>1. /\ ~aborted /\ batch_state' = batch_state /\ appenders[t].open
        /\ appenders' = [appenders EXCEPT ![t] = b]
    BY <1>9, Zenon DEF Spill
  <2>2. appenders \in [Tables -> GoodAppender]
    BY Zenon DEF BatchInv, TypeInv
  <2>3. /\ b.open = appenders[t].open
        /\ b.incomplete = appenders[t].incomplete /\ b.dropped = appenders[t].dropped
    BY <2>2, Zenon DEF GoodAppender, Appender
  <2> HIDE DEF b
  <2>4. \A u \in Tables : appenders'[u] = IF u = t THEN b ELSE appenders[u]
    BY <2>1, <2>2, Zenon
  <2>5. \A u \in Tables : appenders[u].open => Whole(appenders[u])
    BY <2>1, Zenon DEF OrderInv, Open
  <2>6. \A u \in Tables : appenders'[u].open => appenders[u].open /\ Whole(appenders'[u])
    BY <2>1, <2>3, <2>4, <2>5, Zenon DEF Whole
  <2> QED
    BY <2>1, <2>6, Zenon DEF OrderInv, Open
<1>10. ASSUME NEW t \in Tables, delete_all_rows(t)
       PROVE  OrderInv'
  <2>1. /\ appenders' = [appenders EXCEPT ![t] = Closed]
        /\ batch_state' = batch_state
        /\ ~aborted' => ~aborted
    BY <1>10, Zenon DEF delete_all_rows
  <2>2. DOMAIN appenders = Tables /\ ~Closed.open
    BY Zenon DEF BatchInv, TypeInv, TypeOK, Closed, NewAppender
  <2>3. \A u \in Tables : appenders'[u].open => /\ appenders[u].open
                                                 /\ appenders'[u] = appenders[u]
    BY <2>1, <2>2, Zenon
  <2> QED
    BY <2>1, <2>3, Zenon DEF OrderInv, Open
<1>11. /\ \A t \in Tables : rnd_init(t) => OrderInv'
       /\ \A t \in Tables, K \in SUBSET Keys : direct_delete_rows(t, K) => OrderInv'
       /\ \A t \in Tables, K \in SUBSET Keys, v \in Vals :
             direct_update_rows(t, K, v) => OrderInv'
  BY NothingOpenOrder, Zenon DEF rnd_init, direct_delete_rows, direct_update_rows,
                                 DirectDone, FlushAppenders
<1>12. CASE FlushThenFails \/ duckdb_prepare
  <2>1. appenders' = NoAppenders \/ FlushAllFails
    BY <1>12, Zenon DEF FlushThenFails, duckdb_prepare, FlushAppenders
  <2> QED
    BY <2>1, NothingOpenOrder, FlushAllFailsOrder, Zenon
<1>13. CASE duckdb_commit \/ duckdb_rollback
  <2>1. appenders' = NoAppenders
    BY <1>13, Zenon DEF duckdb_commit, duckdb_rollback, TransRollback
  <2> QED
    BY <2>1, NothingOpenOrder, Zenon
<1>14. CASE SetDmlInBatch \/ Rejected \/ UNCHANGED vars
  <2>1. UNCHANGED <<batch_state, appenders>> /\ aborted' \in {aborted, TRUE}
    BY <1>14, Zenon DEF SetDmlInBatch, Rejected, vars
  <2> QED
    BY <1>5, <2>1, Zenon
<1>15. Next \/ UNCHANGED vars
  BY Zenon
<1> QED
  BY <1>2, <1>3, <1>4, <1>6, <1>8, <1>9, <1>10, <1>11, <1>12, <1>13, <1>14, <1>15,
     ZenonT(30) DEF Next

(* A statement is sent to DuckDB only when no appender holds rows, so the  *)
(* two ways of writing never overtake each other, as long as no append     *)
(* fails: tables with a primary key, appenders that refuse no row.         *)
THEOREM StatementsFollowPending ==
    ASSUME ~AppendFaults, NoPk = {}
    PROVE  Spec => []DirectWritesFollowPending
<1>1. Init => OrderInv
  <2>1. Init => Open = {}
    BY NoAppendersType, Zenon DEF Init, Open
  <2> QED
    BY <2>1, Zenon DEF OrderInv
<1>2. BatchInv /\ OrderInv /\ [Next]_vars => OrderInv'
  BY NextOrder, Zenon
<1>3. OrderInv => DirectWritesFollowPending
  BY Zenon DEF OrderInv, DirectWritesFollowPending
<1> QED
  BY <1>1, <1>2, <1>3, BatchInvariant, PTL DEF Spec
=============================================================================

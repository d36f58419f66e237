----------------------------- MODULE CrossEngine -----------------------------
(***************************************************************************)
(* A SELECT that joins DuckDB tables with tables of other engines and is   *)
(* pushed down to DuckDB as text.  The select handler registers every      *)
(* external table of the statement, by its unqualified name, in a registry *)
(* of the session's thread; DuckDB, which does not know the name, asks the *)
(* replacement scan, binds the table function _mdb_scan (or                *)
(* _mdb_scan_direct) and pulls chunks from it.                             *)
(*                                                                         *)
(* A scan reads in one of two ways.  A fiber runs a synthetic SELECT, with *)
(* the registered WHERE, in a THD and a transaction of its own and yields  *)
(* whenever a chunk is full.  With duckdb_cross_engine_ryow the scan reads *)
(* the statement's own handler with ha_rnd_next.                           *)
(*                                                                         *)
(* A row is a value and a condition is the set of the values it accepts.   *)
(* A call of mdb_scan_function is one step: a scan has one thread          *)
(* (MaxThreads is 1), and the calls of different scans interleave.         *)
(***************************************************************************)
EXTENDS Integers, Sequences, FiniteSets

CONSTANTS
    Queries,        \* the statements: [unit, limit, has, selects]; a select is
                    \* [tables, where], tables a sequence of names and where
                    \* the condition on the table of each map bit
    Externals,      \* names of tables of other engines
    Committed,      \* their committed rows: [Externals -> Seq(value)]
    Own,            \* the rows the session's transaction sees
    Layout,         \* visible, trailing (invisible columns last) or mixed
    NoCond,         \* no condition
    NoTable,        \* a null TABLE*
    VectorSize,     \* STANDARD_VECTOR_SIZE
    MaxStatements   \* bound on the statements of a behaviour

ASSUME VectorAssumption == VectorSize \in Nat \ {0}
ASSUME BoundAssumption == MaxStatements \in Nat
ASSUME NullAssumption == NoTable \notin ((Nat \X Nat) \X Nat)

VARIABLES
    phase,      \* idle, created, stream, eof, failed or closing
    query,      \* the statement of the handler
    stmt,       \* its number; a TABLE is a reference of a statement
    ryow,       \* THDVAR(duckdb_cross_engine_ryow) when it started
    registry,   \* tls_external_tables, tls_external_where, tls_cross_engine_ryow
    scan,       \* the MdbScanGlobalState of every bound reference
    cursor,     \* the handler cursor of every TABLE of the statement
    thrown,     \* an exception left mdb_scan_function
    swallowed,  \* history: references whose scan ended on an error it hid
    skipped     \* history: the server once skipped end_scan

vars == <<phase, query, stmt, ryow, registry, scan, cursor, thrown, swallowed,
          skipped>>

history == <<swallowed, skipped>>
statement == <<query, stmt, ryow>>

---------------------------------------------------------------------------
(* The statement as the parser leaves it (external) *)

NoQuery == [unit |-> FALSE, limit |-> FALSE, has |-> {}, selects |-> <<>>]

Selects(q) == 1 .. Len(q.selects)

Refs(q) == UNION {{i} \X (1 .. Len(q.selects[i].tables)) : i \in Selects(q)}

Name(q, r) == q.selects[r[1]].tables[r[2]]

ASSUME QueriesAssumption ==
    \A q \in Queries :
        /\ q.unit \in BOOLEAN
        /\ Len(q.selects) \in Nat
        /\ \A i \in Selects(q) : Len(q.selects[i].tables) \in Nat

ExternalRefs(q) == {r \in Refs(q) : Name(q, r) \in Externals}

(* make_cond_for_table: the part of a select's WHERE on one map bit. *)
CondFor(q, i, bit) ==
    LET where == q.selects[i].where
    IN IF bit \in DOMAIN where THEN where[bit] ELSE NoCond

(* get_table_list() and the next_global chain from it: the references of a
   select and of every select after it. *)
GlobalTail(q, i) == {r \in Refs(q) : i <= r[1]}

IsRows(rows) == rows \in Seq({rows[i] : i \in DOMAIN rows})

ASSUME RowsAssumption ==
    \A n \in Externals : IsRows(Committed[n]) /\ IsRows(Own[n])

Accepts(cond, v) == cond = NoCond \/ v \in cond

(* What a condition keeps of the first i rows, and of all rows. *)
Kept(rows, cond) ==
    LET kept[i \in 0 .. Len(rows)] ==
            IF i = 0 THEN <<>>
            ELSE IF Accepts(cond, rows[i]) THEN Append(kept[i - 1], rows[i])
            ELSE kept[i - 1]
    IN kept

Keep(rows, cond) == Kept(rows, cond)[Len(rows)]

---------------------------------------------------------------------------
(* The thread-local registry *)

EmptyRegistry ==
    [tables |-> [n \in Externals |-> NoTable],
     where |-> [n \in Externals |-> NoCond],
     ryow |-> FALSE]

(* Whether a reference is registered: a table of another engine. *)
IsExternal(q, r) == Name(q, r) \in Externals

(* The rounds of the loop of register_tables_from_sel, over the first select
   or over every select of a UNION: select v[1] reaches reference v[2]. *)
Rounds(q) ==
    UNION {{i} \X GlobalTail(q, i) : i \in IF q.unit THEN Selects(q) ELSE {1}}

Before(u, v) ==
    \/ u[1] < v[1]
    \/ u[1] = v[1] /\ u[2][1] < v[2][1]
    \/ u[1] = v[1] /\ u[2][1] = v[2][1] /\ u[2][2] < v[2][2]

LastRound(V) == CHOOSE v \in V : \A u \in V : u = v \/ Before(u, v)

(* The rounds that call register_external_table for a name, and those that
   call register_external_where: the select has a condition on the
   reference's map bit. *)
TableRounds(q, n) == {v \in Rounds(q) : Name(q, v[2]) = n}

RoundCond(q, v) == CondFor(q, v[1], v[2][2])

WhereRounds(q, n) == {v \in TableRounds(q, n) : RoundCond(q, v) # NoCond}

(* The conditions after all rounds: the last one registered for a name. *)
RegisteredWhere(q, reg) ==
    [n \in Externals |->
        IF WhereRounds(q, n) = {} THEN reg.where[n]
        ELSE RoundCond(q, LastRound(WhereRounds(q, n)))]

(* Mutant: a name already registered keeps its entry. *)
RegisteredFirst(q, k, ry, reg) ==
    [tables |-> [n \in Externals |->
        IF TableRounds(q, n) = {} \/ reg.tables[n] # NoTable THEN reg.tables[n]
        ELSE <<LastRound(TableRounds(q, n))[2], k>>],
     where |-> RegisteredWhere(q, reg),
     ryow |-> ry]

(* The registry after all rounds.  A round overwrites the entry of its name,
   so that the last one decides. *)
Registered(q, k, ry, reg) ==
    [tables |-> [n \in Externals |->
        IF TableRounds(q, n) = {} THEN reg.tables[n]
        ELSE <<LastRound(TableRounds(q, n))[2], k>>],
     where |-> RegisteredWhere(q, reg),
     ryow |-> ry]

---------------------------------------------------------------------------
(* Which statements are pushed down *)

has_supported_field_layout(n, allow_trailing_invisible) ==
    \/ Layout[n] = "visible"
    \/ Layout[n] = "trailing" /\ allow_trailing_invisible

(* What makes the two handler constructors return null.  Only the SELECT
   handler looks for side effects, only the UNION handler for PREPARE. *)
Obstacles(q) ==
    {"command", "insert_target", "insert_clauses", "system_time",
     "invisible_field", "text", IF q.unit THEN "prepare" ELSE "side_effect"}

(* At least one DuckDB table, and every external table of a layout the scan
   can return. *)
CanPushdown(q, ry) ==
    /\ q.has \cap Obstacles(q) = {}
    /\ \E r \in Refs(q) : ~IsExternal(q, r)
    /\ \A r \in ExternalRefs(q) : has_supported_field_layout(Name(q, r), ~ry)

HasCrossEngine == ExternalRefs(query) # {}

---------------------------------------------------------------------------
(* The fiber of a scan *)

NoFiber ==
    [thd |-> "none", started |-> FALSE, active |-> FALSE, killed |-> FALSE,
     finished |-> FALSE, error |-> FALSE, sent |-> 0, buffer |-> <<>>,
     frees |-> 0]

(* FiberScanState::init: a stack and a background THD. *)
FiberInit == [NoFiber EXCEPT !.thd = "live"]

(* FiberScanState::init fails, and mdb_scan_function destroys the state.
   Without memory for a stack there is nothing to free.  Without a THD init
   frees the stack and leaves the pointer, and the destructor frees it again:
   frees counts the calls of free() on one stack. *)
FailedInit == {[NoFiber EXCEPT !.frees = n] : n \in {0, 2}}

(* The rows of the synthetic SELECT. *)
SyntheticRows(s) == Keep(Committed[Name(query, s.table[1])], s.where)

(* The synthetic SELECT ends with an error: fiber_scan_func cleans up the
   statement, sets error and finished and returns. *)
FiberAborted(f) ==
    [f EXCEPT !.started = TRUE, !.active = FALSE, !.finished = TRUE,
              !.error = TRUE, !.buffer = <<>>]

(* Mutant: the last, partly filled chunk is not handed over. *)
FiberResumeNoEof(f, rows) ==
    LET rest == SubSeq(rows, f.sent + 1, Len(rows))
    IN IF f.killed THEN FiberAborted(f)
       ELSE IF Len(rest) >= VectorSize
       THEN [f EXCEPT !.started = TRUE, !.active = TRUE,
                      !.sent = @ + VectorSize,
                      !.buffer = SubSeq(rest, 1, VectorSize)]
       ELSE [f EXCEPT !.started = TRUE, !.active = FALSE, !.finished = TRUE,
                      !.sent = Len(rows), !.buffer = <<>>]

(* The fiber runs from fiber_context_spawn or fiber_context_continue to its
   next yield (send_data filled a chunk) or to its return (send_eof kept the
   partial chunk).  After KILL_QUERY send_data returns -1. *)
FiberResume(f, rows) ==
    LET rest == SubSeq(rows, f.sent + 1, Len(rows))
    IN IF f.killed THEN FiberAborted(f)
       ELSE IF Len(rest) >= VectorSize
       THEN [f EXCEPT !.started = TRUE, !.active = TRUE,
                      !.sent = @ + VectorSize,
                      !.buffer = SubSeq(rest, 1, VectorSize)]
       ELSE [f EXCEPT !.started = TRUE, !.active = FALSE, !.finished = TRUE,
                      !.sent = Len(rows), !.buffer = rest]

---------------------------------------------------------------------------
(* mdb_scan_function *)

(* MdbScanBindData and MdbScanGlobalState as bind and init_global leave them;
   drained and delivered are DuckDB's side of the scan. *)
Bound(reg, name) ==
    [table |-> reg.tables[name], where |-> reg.where[name],
     direct |-> reg.ryow, scan_started |-> FALSE, rnd_inited |-> FALSE,
     finished |-> FALSE, fiber |-> NoFiber, delivered |-> <<>>,
     drained |-> FALSE]

(* The chunk goes to DuckDB, which stops calling at an empty one. *)
Deliver(s, chunk) ==
    [s EXCEPT !.delivered = @ \o chunk, !.drained = chunk = <<>>]

Pulls(r) ==
    /\ phase = "stream"
    /\ ~thrown
    /\ ~scan[r].drained

(* A finished scan returns an empty chunk. *)
ScanFinished(r) ==
    /\ Pulls(r)
    /\ scan[r].finished
    /\ scan' = [scan EXCEPT ![r] = Deliver(@, <<>>)]
    /\ UNCHANGED <<phase, statement, registry, cursor, thrown, history>>

(* FiberScanState::init fails: the scan ends as if the table were empty. *)
FiberInitFails(r) ==
    /\ Pulls(r)
    /\ ~scan[r].finished /\ ~scan[r].direct /\ ~scan[r].scan_started
    /\ \E f \in FailedInit :
          scan' = [scan EXCEPT ![r] =
                      Deliver([@ EXCEPT !.finished = TRUE, !.fiber = f], <<>>)]
    /\ swallowed' = swallowed \cup {r}
    /\ UNCHANGED <<phase, statement, registry, cursor, thrown, skipped>>

(* The fiber before a call: started lazily, its buffer reset. *)
FiberOf(s) == IF s.scan_started THEN s.fiber ELSE FiberInit

(* The fiber fills a chunk or ends; an empty chunk ends the scan, and so does
   a chunk after which the fiber has finished. *)
FiberChunk(r) ==
    /\ Pulls(r)
    /\ ~scan[r].finished /\ ~scan[r].direct
    /\ LET f == FiberResume(FiberOf(scan[r]), SyntheticRows(scan[r]))
       IN scan' = [scan EXCEPT ![r] =
             Deliver([@ EXCEPT !.scan_started = TRUE, !.fiber = f,
                               !.finished = f.finished \/ f.buffer = <<>>],
                     f.buffer)]
    /\ UNCHANGED <<phase, statement, registry, cursor, thrown, history>>

(* The synthetic SELECT fails while it runs (or send_data cannot convert a
   value): the scan is finished and throws. *)
FiberError(r) ==
    /\ Pulls(r)
    /\ ~scan[r].finished /\ ~scan[r].direct
    /\ scan' = [scan EXCEPT ![r].scan_started = TRUE, ![r].finished = TRUE,
                            ![r].fiber = FiberAborted(FiberOf(scan[r]))]
    /\ thrown' = TRUE
    /\ UNCHANGED <<phase, statement, registry, cursor, history>>

(* fiber_context_spawn or fiber_context_continue returns -1, where fibers are
   built on ucontext and swapcontext fails.  mdb_scan_function does not look
   at the result: the chunk is empty, and the scan ends as at the end of the
   table with the fiber still suspended. *)
FiberSwitchFails(r) ==
    /\ Pulls(r)
    /\ ~scan[r].finished /\ ~scan[r].direct
    /\ scan' = [scan EXCEPT ![r] =
          Deliver([@ EXCEPT !.scan_started = TRUE, !.finished = TRUE,
                            !.fiber = [FiberOf(scan[r]) EXCEPT !.started = TRUE,
                                                               !.buffer = <<>>]],
                  <<>>)]
    /\ swallowed' = swallowed \cup {r}
    /\ UNCHANGED <<phase, statement, registry, cursor, thrown, skipped>>

(* The handler cursor before ha_rnd_next: ha_rnd_init on the scan's first
   call puts it at the start, whoever else uses it. *)
CursorOf(s) ==
    IF s.rnd_inited THEN cursor[s.table[1]] ELSE [inited |-> TRUE, pos |-> 0]

(* ha_rnd_init fails: the scan ends as if the table were empty. *)
DirectInitFails(r) ==
    /\ Pulls(r)
    /\ ~scan[r].finished /\ scan[r].direct /\ ~scan[r].rnd_inited
    /\ scan' = [scan EXCEPT ![r] =
          Deliver([@ EXCEPT !.scan_started = TRUE, !.finished = TRUE], <<>>)]
    /\ swallowed' = swallowed \cup {r}
    /\ UNCHANGED <<phase, statement, registry, cursor, thrown, skipped>>

(* ha_rnd_next fills a chunk or meets the end of the table, where ha_rnd_end
   ends the handler scan.  On a cursor another scan has ended it fails, which
   is taken for the end of the table. *)
DirectChunk(r) ==
    /\ Pulls(r)
    /\ ~scan[r].finished /\ scan[r].direct
    /\ LET c == CursorOf(scan[r])
           rows == Own[Name(query, scan[r].table[1])]
           rest == IF c.inited THEN SubSeq(rows, c.pos + 1, Len(rows)) ELSE <<>>
           full == Len(rest) >= VectorSize
           chunk == IF full THEN SubSeq(rest, 1, VectorSize) ELSE rest
       IN /\ scan' = [scan EXCEPT ![r] =
                Deliver([@ EXCEPT !.scan_started = TRUE, !.rnd_inited = TRUE,
                                  !.finished = ~full], chunk)]
          /\ cursor' = [cursor EXCEPT ![scan[r].table[1]] =
                           [inited |-> full, pos |-> c.pos + Len(chunk)]]
    /\ UNCHANGED <<phase, statement, registry, thrown, history>>

(* Any other error of ha_rnd_next, after some rows of the chunk, ends the scan
   in the same way. *)
DirectError(r) ==
    /\ Pulls(r)
    /\ ~scan[r].finished /\ scan[r].direct
    /\ LET c == CursorOf(scan[r])
           rows == Own[Name(query, scan[r].table[1])]
       IN \E k \in 0 .. VectorSize - 1 :
             /\ c.inited /\ c.pos + k <= Len(rows)
             /\ scan' = [scan EXCEPT ![r] =
                   Deliver([@ EXCEPT !.scan_started = TRUE, !.rnd_inited = TRUE,
                                     !.finished = TRUE],
                           SubSeq(rows, c.pos + 1, c.pos + k))]
             /\ cursor' = [cursor EXCEPT ![scan[r].table[1]] =
                              [inited |-> FALSE, pos |-> c.pos + k]]
    /\ swallowed' = swallowed \cup {r}
    /\ UNCHANGED <<phase, statement, registry, thrown, skipped>>

(* A value that DuckDB cannot convert: the exception leaves the loop and the
   handler scan stays open. *)
DirectThrows(r) ==
    /\ Pulls(r)
    /\ ~scan[r].finished /\ scan[r].direct
    /\ LET c == CursorOf(scan[r])
           rows == Own[Name(query, scan[r].table[1])]
       IN /\ c.inited /\ c.pos < Len(rows)
          /\ cursor' = [cursor EXCEPT ![scan[r].table[1]] =
                           [c EXCEPT !.pos = @ + 1]]
    /\ scan' = [scan EXCEPT ![r].scan_started = TRUE, ![r].rnd_inited = TRUE]
    /\ thrown' = TRUE
    /\ UNCHANGED <<phase, statement, registry, history>>

mdb_scan_function(r) ==
    \/ ScanFinished(r)
    \/ FiberInitFails(r)
    \/ FiberChunk(r)
    \/ FiberError(r)
    \/ FiberSwitchFails(r)
    \/ DirectInitFails(r)
    \/ DirectChunk(r)
    \/ DirectError(r)
    \/ DirectThrows(r)

---------------------------------------------------------------------------
(* The select handler *)

(* The server creates a handler for a statement it may push down. *)
CreateHandler(q, ry) ==
    /\ phase = "idle"
    /\ stmt < MaxStatements
    /\ CanPushdown(q, ry)
    /\ phase' = "created"
    /\ query' = q
    /\ ryow' = ry
    /\ stmt' = stmt + 1
    /\ cursor' = [r \in ExternalRefs(q) |-> [inited |-> FALSE, pos |-> 0]]
    /\ UNCHANGED <<registry, scan, thrown, history>>

(* The registry after the first part of init_scan. *)
RegistryForScan ==
    IF HasCrossEngine THEN Registered(query, stmt, ryow, registry) ELSE registry

(* init_scan: registers the external tables and submits the text.  DuckDB
   binds every name it does not know with the replacement scan. *)
InitScan ==
    /\ phase = "created"
    /\ registry' = RegistryForScan
    /\ scan' = [r \in ExternalRefs(query) |->
                   Bound(RegistryForScan, Name(query, r))]
    /\ phase' = "stream"
    /\ UNCHANGED <<statement, cursor, thrown, swallowed, skipped>>

(* DuckDB rejects the text. *)
InitScanFails ==
    /\ phase = "created"
    /\ registry' = RegistryForScan
    /\ phase' = "failed"
    /\ UNCHANGED <<statement, scan, cursor, thrown, history>>

(* next_row meets the end of the stream: every scan is drained, or the plan
   has a LIMIT and needs no more rows. *)
NextRowEof ==
    /\ phase = "stream"
    /\ ~thrown
    /\ query.limit \/ \A r \in ExternalRefs(query) : scan[r].drained
    /\ phase' = "eof"
    /\ UNCHANGED <<statement, registry, scan, cursor, thrown, history>>

(* next_row reports an error of the stream; or the server stops between two
   rows, because of a KILL or of the client. *)
NextRowFails ==
    /\ phase = "stream"
    /\ phase' = "failed"
    /\ UNCHANGED <<statement, registry, scan, cursor, thrown, history>>

(* Mutant: only a statement that succeeded clears the registry. *)
EndScanKeeps ==
    /\ phase \in {"eof", "failed"}
    /\ registry' = IF HasCrossEngine /\ phase = "eof" THEN EmptyRegistry
                   ELSE registry
    /\ phase' = "closing"
    /\ UNCHANGED <<statement, scan, cursor, thrown, history>>

(* end_scan clears the registry and resets the stream. *)
EndScan ==
    /\ phase \in {"eof", "failed"}
    /\ registry' = IF HasCrossEngine THEN EmptyRegistry ELSE registry
    /\ phase' = "closing"
    /\ UNCHANGED <<statement, scan, cursor, thrown, history>>

(* select_handler::execute returns after init_scan without end_scan (it could
   not send the result's metadata); the handler's destructor drops the
   stream. *)
SkipEndScan ==
    /\ phase = "stream"
    /\ \A r \in ExternalRefs(query) : ~scan[r].scan_started /\ ~scan[r].finished
    /\ phase' = "closing"
    /\ skipped' = (skipped \/ HasCrossEngine)
    /\ UNCHANGED <<statement, registry, scan, cursor, thrown, swallowed>>

---------------------------------------------------------------------------
(* ~FiberScanState, when the stream drops its scans *)

Suspended(f) == f.thd = "live" /\ f.started /\ ~f.finished

(* Mutant: only the fibers of finished scans are resumed. *)
ResumeFinishedOnly(r) ==
    /\ phase = "closing"
    /\ Suspended(scan[r].fiber) /\ scan[r].finished
    /\ scan' = [scan EXCEPT ![r].fiber =
          FiberResume([@ EXCEPT !.killed = TRUE], SyntheticRows(scan[r]))]
    /\ UNCHANGED <<phase, statement, registry, cursor, thrown, history>>

(* One round of the destructor's loop: KILL_QUERY and resume. *)
ResumeKilled(r) ==
    /\ phase = "closing"
    /\ Suspended(scan[r].fiber)
    /\ scan' = [scan EXCEPT ![r].fiber =
          FiberResume([@ EXCEPT !.killed = TRUE], SyntheticRows(scan[r]))]
    /\ UNCHANGED <<phase, statement, registry, cursor, thrown, history>>

(* The THD and the stack go. *)
Freed(f) == [f EXCEPT !.thd = "destroyed", !.frees = @ + 1]

(* The loop ends because the fiber has returned, or is not entered because it
   never started. *)
DestroyFiber(r) ==
    /\ phase = "closing"
    /\ scan[r].fiber.thd = "live"
    /\ ~Suspended(scan[r].fiber)
    /\ scan' = [scan EXCEPT ![r].fiber = Freed(@)]
    /\ UNCHANGED <<phase, statement, registry, cursor, thrown, history>>

(* The loop ends because fiber_context_continue returns -1: the THD and the
   stack go under a fiber that is still suspended on them. *)
ResumeFails(r) ==
    /\ phase = "closing"
    /\ Suspended(scan[r].fiber)
    /\ scan' = [scan EXCEPT ![r].fiber = Freed(@)]
    /\ UNCHANGED <<phase, statement, registry, cursor, thrown, history>>

(* The server closes the statement's tables.  A direct scan has no
   destructor: a handler scan that is still open stays so. *)
CloseTables ==
    /\ phase = "closing"
    /\ \A r \in DOMAIN scan : scan[r].fiber.thd # "live"
    /\ phase' = "idle"
    /\ query' = NoQuery
    /\ ryow' = FALSE
    /\ swallowed' = {}
    /\ scan' = <<>>
    /\ cursor' = <<>>
    /\ thrown' = FALSE
    /\ UNCHANGED <<stmt, registry, skipped>>

---------------------------------------------------------------------------
Init ==
    /\ phase = "idle"
    /\ query = NoQuery
    /\ stmt = 0
    /\ ryow = FALSE
    /\ registry = EmptyRegistry
    /\ scan = <<>>
    /\ cursor = <<>>
    /\ thrown = FALSE
    /\ swallowed = {}
    /\ skipped = FALSE

Progress ==
    \/ InitScan
    \/ InitScanFails
    \/ \E r \in DOMAIN scan : mdb_scan_function(r)
    \/ NextRowEof
    \/ NextRowFails
    \/ EndScan
    \/ SkipEndScan
    \/ \E r \in DOMAIN scan : ResumeKilled(r) \/ DestroyFiber(r)
    \/ CloseTables

Next ==
    \/ \E q \in Queries, ry \in BOOLEAN : CreateHandler(q, ry)
    \/ \E r \in DOMAIN scan : ResumeFails(r)
    \/ Progress

Spec == Init /\ [][Next]_vars

(* DuckDB's executor and the server keep running a statement they started;
   nothing has to fail for it to end. *)
FairSpec == Spec /\ WF_vars(Progress)

---------------------------------------------------------------------------
(* Properties *)

(* The registry names tables of the running statement only: end_scan clears
   it however the statement ended, as long as the server called it. *)
RegistryNamesOpenTables ==
    \A n \in Externals :
        registry.tables[n] # NoTable /\ ~skipped =>
            phase # "idle" /\ registry.tables[n][2] = stmt

(* A reference of the statement is bound to a TABLE the statement opened for
   that name, whatever an earlier statement left in the registry. *)
BindsOwnTables ==
    \A r \in DOMAIN scan :
        /\ scan[r].table[2] = stmt
        /\ Name(query, scan[r].table[1]) = Name(query, r)

(* A statement that names no external table twice. *)
NamesOnce(q) ==
    \A r, p \in ExternalRefs(q) : Name(q, r) = Name(q, p) => r = p

(* The WHERE that a statement registers for each of its references is the
   reference's own condition. *)
FiltersOwn(q) ==
    \A r \in ExternalRefs(q) :
        RegisteredWhere(q, EmptyRegistry)[Name(q, r)] = CondFor(q, r[1], r[2])

(* The condition of the statement on a reference. *)
OwnCond(r) == CondFor(query, r[1], r[2])

(* The rows a reference stands for. *)
Expected(r) ==
    Keep((IF scan[r].direct THEN Own ELSE Committed)[Name(query, r)], OwnCond(r))

(* The rows the plan sees above the scan: with filter_pushdown DuckDB drops
   its own filter, without it the filter stays. *)
Seen(r) ==
    IF scan[r].direct THEN Keep(scan[r].delivered, OwnCond(r))
    ELSE scan[r].delivered

(* s is a prefix of t. *)
Starts(s, t) == Len(s) <= Len(t) /\ \A i \in 1 .. Len(s) : s[i] = t[i]

(* A statement sees of every external table the rows its condition selects,
   in order and once each, and at the end of a stream without error all of
   them: over chunks that the rows fill exactly or not, in both modes.
   Excepted are an error the scan hides and a WHERE left behind by a
   statement whose end_scan was skipped. *)
ResultsAreExact ==
    phase \in {"stream", "eof"} /\ ~skipped =>
        \A r \in DOMAIN scan :
            /\ Starts(Seen(r), Expected(r))
            /\ phase = "eof" /\ ~query.limit /\ r \notin swallowed
                   => Seen(r) = Expected(r)

(* Every statement ends, however many fibers it leaves suspended. *)
StatementEnds == phase # "idle" ~> phase = "idle"

(* No handler scan is left open when the statement's tables are closed:
   cross_engine_ryow_limit.test, "The handler scan started behind the server's
   back must still be finished, otherwise the table cannot be closed cleanly".
   mdb_scan_function calls ha_rnd_end only when ha_rnd_next fails, and the
   scan's state has no destructor. *)
HandlerScansAreEnded ==
    phase = "closing" => \A r \in DOMAIN cursor : ~cursor[r].inited

(* The WHERE a fiber runs is the statement's condition on that reference:
   README.md, "Derives a per-table predicate from the query's WHERE".  In a
   UNION the chain from the first select reaches the tables of the second, and
   what the first WHERE says of its own table with the same map bit is
   registered for them. *)
FilterIsOwn ==
    ~skipped => \A r \in DOMAIN scan : ~scan[r].direct => scan[r].where = OwnCond(r)

=============================================================================

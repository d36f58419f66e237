------------------------------ MODULE KillWindow ------------------------------
(***************************************************************************)
(* KILL QUERY and max_statement_time against a session that runs pushed-   *)
(* down SELECTs, commits and disconnects.  The killing threads reach       *)
(* DuckDB through DuckdbThdContext::interrupt(), which acts only in the    *)
(* window between begin_interruptible() and end_interruptible().  Each of  *)
(* the four methods runs under m_interrupt_mutex and is one step.          *)
(***************************************************************************)
EXTENDS Naturals

CONSTANTS
    Killers,     \* threads that call THD::awake() on the session
    NoKiller,    \* LOCK_thd_kill is free
    MaxStmts,    \* bound on the statements of the session
    MaxKills     \* bound on the kills

ASSUME KillerAssumption == NoKiller \notin Killers
ASSUME KillBoundsAssumption == MaxStmts \in Nat /\ MaxKills \in Nat

VARIABLES
    pc,          \* where the session's thread is
    stream,      \* ha_duckdb_select_handler::query_stream is set
    window,      \* DuckdbThdContext::m_interruptible
    interrupted, \* ClientContext's pending interrupt
    killed,      \* THD::killed
    ctx,         \* "none", "published" in the THD, "unpublished" or "deleted"
    kpc,         \* where each killing thread is
    holder,      \* holder of LOCK_thd_kill
    stmts,       \* statements started
    kills        \* kills started

killVars == <<pc, stream, window, interrupted, killed, ctx, kpc, holder, stmts, kills>>

session == <<stmts, kills, ctx, kpc, holder>>

Idle == "idle"

(* The session executes a pushed-down SELECT, from the start of its query  *)
(* to the end of the scan.                                                 *)
Running == {"submit", "submitted", "opened", "fetch"}

(* The session executes a query that must not be interrupted: the SET and  *)
(* USE statements before a SELECT, a COMMIT or an appender flush.          *)
Protected == {"config", "commit"}

(* The type of the state. *)
KillTypeOK ==
    /\ pc \in {Idle, "begin", "end_scan", "destroy", "close", "released", "ended"}
              \cup Running \cup Protected
    /\ stream \in BOOLEAN /\ window \in BOOLEAN
    /\ interrupted \in BOOLEAN /\ killed \in BOOLEAN
    /\ ctx \in {"none", "published", "unpublished", "deleted"}
    /\ kpc \in [Killers -> {Idle, "awake", "kill_query"}]
    /\ holder \in Killers \cup {NoKiller}
    /\ stmts \in Nat /\ kills \in Nat

---------------------------------------------------------------------------
(* The session: a SELECT *)

(* init_scan: get_thd_context, then the session setup, whose first query   *)
(* starts and drops a pending interrupt.  A text with an unsafe escape is  *)
(* refused before that.                                                    *)
select_init_scan ==
    /\ pc = Idle /\ stmts < MaxStmts /\ ctx \in {"none", "published"}
    /\ \/ pc' = "config" /\ interrupted' = FALSE
       \/ pc' = "end_scan" /\ interrupted' = interrupted
    /\ ctx' = "published"
    /\ stmts' = stmts + 1
    /\ UNCHANGED <<stream, window, killed, kpc, holder, kills>>

ConfigDone ==
    /\ pc = "config"
    /\ pc' = "begin"
    /\ UNCHANGED <<stream, window, interrupted, killed, session>>

begin_interruptible ==
    /\ pc = "begin"
    /\ interrupted' = FALSE
    /\ window' = TRUE
    /\ pc' = "submit"
    /\ UNCHANGED <<stream, killed, session>>

(* Connection::Submit: DuckDB drops a pending interrupt when the query     *)
(* starts; the submission may fail (external).                             *)
Submit ==
    /\ pc = "submit"
    /\ interrupted' = FALSE
    /\ stream' \in BOOLEAN
    /\ pc' = "submitted"
    /\ UNCHANGED <<window, killed, session>>

(* Mutant: a kill that came before the query started is not re-delivered. *)
NoRedelivery ==
    /\ pc = "submitted"
    /\ pc' = IF stream THEN "opened" ELSE "end_scan"
    /\ UNCHANGED <<stream, window, interrupted, killed, session>>

(* Mutant: the query is interrupted whether or not it was killed. *)
InterruptUnasked ==
    /\ pc = "submitted"
    /\ interrupted' = window
    /\ pc' = IF stream THEN "opened" ELSE "end_scan"
    /\ UNCHANGED <<stream, window, killed, session>>

(* interrupt_if_killed; without a stream init_scan returns an error, and   *)
(* select_handler::execute goes on with end_scan.                          *)
interrupt_if_killed ==
    /\ pc = "submitted"
    /\ interrupted' = (interrupted \/ (window /\ killed))
    /\ pc' = IF stream THEN "opened" ELSE "end_scan"
    /\ UNCHANGED <<stream, window, killed, session>>

(* select_handler::execute sends the metadata; when that fails it returns  *)
(* without end_scan, and the handler is destroyed (external).              *)
SendMetadata ==
    /\ pc = "opened"
    /\ pc' \in {"fetch", "destroy"}
    /\ UNCHANGED <<stream, window, interrupted, killed, session>>

(* next_row returns a row; the server sends it unless thd->killed. *)
next_row ==
    /\ pc = "fetch"
    /\ pc' = IF killed THEN "end_scan" ELSE "fetch"
    /\ UNCHANGED <<stream, window, interrupted, killed, session>>

(* next_row returns the end of the stream or an error of its own. *)
LastRow ==
    /\ pc = "fetch"
    /\ pc' = "end_scan"
    /\ UNCHANGED <<stream, window, interrupted, killed, session>>

(* Fetch notices the interrupt, and next_row fails. *)
Interrupted ==
    /\ pc = "fetch" /\ interrupted
    /\ pc' = "end_scan"
    /\ UNCHANGED <<stream, window, interrupted, killed, session>>

(* end_scan releases the stream and then closes the window. *)
end_scan ==
    /\ pc = "end_scan"
    /\ stream' = FALSE
    /\ pc' = "close"
    /\ UNCHANGED <<window, interrupted, killed, session>>

(* Mutant: the end of the scan leaves the window open. *)
WindowLeftOpen ==
    /\ pc \in {"close", "destroy"}
    /\ interrupted' = FALSE
    /\ pc' = "released"
    /\ UNCHANGED <<stream, window, killed, session>>

(* end_interruptible, from end_scan or from the handler's destructor, whose *)
(* body runs before the stream it owns is released.                        *)
end_interruptible ==
    /\ pc \in {"close", "destroy"}
    /\ window' = FALSE
    /\ interrupted' = FALSE
    /\ pc' = "released"
    /\ UNCHANGED <<stream, killed, session>>

(* The handler is gone with the stream it may still own. *)
HandlerDestroyed ==
    /\ pc = "released"
    /\ stream' = FALSE
    /\ pc' = "ended"
    /\ UNCHANGED <<window, interrupted, killed, session>>

---------------------------------------------------------------------------
(* The session: COMMIT, the end of a statement, and the disconnect *)

(* A COMMIT, with the appender flush before it, starts: at the end of the  *)
(* SELECT's transaction or as a statement of its own.                      *)
session_commit ==
    /\ \/ pc = "ended" /\ stmts' = stmts
       \/ pc = Idle /\ ctx = "published" /\ stmts < MaxStmts /\ stmts' = stmts + 1
    /\ interrupted' = FALSE
    /\ pc' = "commit"
    /\ UNCHANGED <<stream, window, killed, ctx, kpc, holder, kills>>

(* The statement ends, and the server resets thd->killed under             *)
(* LOCK_thd_kill (external).                                               *)
reset_killed ==
    /\ pc \in {"commit", "ended"}
    /\ holder = NoKiller
    /\ killed' = FALSE
    /\ pc' = Idle
    /\ UNCHANGED <<stream, window, interrupted, session>>

(* close_connection unpublishes the context, under LOCK_thd_data, ... *)
Unpublish ==
    /\ pc = Idle /\ ctx = "published"
    /\ \A k \in Killers : kpc[k] # "kill_query"
    /\ ctx' = "unpublished"
    /\ UNCHANGED <<pc, stream, window, interrupted, killed, kpc, holder, stmts, kills>>

(* Mutant: the context is deleted without having been unpublished. *)
DeletePublished ==
    /\ pc = Idle /\ ctx \in {"published", "unpublished"}
    /\ ctx' = "deleted"
    /\ UNCHANGED <<pc, stream, window, interrupted, killed, kpc, holder, stmts, kills>>

(* ... and then deletes it. *)
DeleteContext ==
    /\ pc = Idle /\ ctx = "unpublished"
    /\ ctx' = "deleted"
    /\ UNCHANGED <<pc, stream, window, interrupted, killed, kpc, holder, stmts, kills>>

---------------------------------------------------------------------------
(* A killing thread *)

(* THD::awake sets killed with LOCK_thd_kill held (external). *)
awake(k) ==
    /\ kpc[k] = Idle /\ holder = NoKiller /\ kills < MaxKills
    /\ holder' = k
    /\ killed' = TRUE
    /\ kills' = kills + 1
    /\ kpc' = [kpc EXCEPT ![k] = "awake"]
    /\ UNCHANGED <<pc, stream, window, interrupted, ctx, stmts>>

(* duckdb_kill_query reads the context with LOCK_thd_data held; without    *)
(* one there is nothing to do.                                             *)
duckdb_kill_query(k) ==
    /\ kpc[k] = "awake"
    /\ \/ /\ ctx = "published"
          /\ kpc' = [kpc EXCEPT ![k] = "kill_query"]
          /\ holder' = holder
       \/ /\ ctx # "published"
          /\ kpc' = [kpc EXCEPT ![k] = Idle]
          /\ holder' = NoKiller
    /\ UNCHANGED <<pc, stream, window, interrupted, killed, ctx, stmts, kills>>

interrupt(k) ==
    /\ kpc[k] = "kill_query"
    /\ interrupted' = (interrupted \/ window)
    /\ kpc' = [kpc EXCEPT ![k] = Idle]
    /\ holder' = NoKiller
    /\ UNCHANGED <<pc, stream, window, killed, ctx, stmts, kills>>

---------------------------------------------------------------------------

KillInit ==
    /\ pc = Idle
    /\ stream = FALSE /\ window = FALSE
    /\ interrupted = FALSE /\ killed = FALSE
    /\ ctx = "none"
    /\ kpc = [k \in Killers |-> Idle]
    /\ holder = NoKiller
    /\ stmts = 0 /\ kills = 0

Kill(k) == awake(k) \/ duckdb_kill_query(k) \/ interrupt(k)

(* The steps the session takes by itself once a statement has begun.  What *)
(* is missing is a row or the end of the stream: DuckDB may compute for    *)
(* ever.                                                                   *)
Proceed ==
    \/ ConfigDone \/ begin_interruptible \/ Submit \/ interrupt_if_killed
    \/ SendMetadata \/ Interrupted \/ end_scan \/ end_interruptible
    \/ HandlerDestroyed \/ reset_killed

KillNext ==
    \/ select_init_scan \/ Proceed \/ next_row \/ LastRow
    \/ session_commit \/ Unpublish \/ DeleteContext
    \/ \E k \in Killers : Kill(k)

KillSpec == KillInit /\ [][KillNext]_killVars

(* The session's thread and the killing threads run; no row is promised. *)
FairSpec ==
    /\ KillSpec
    /\ WF_killVars(Proceed)
    /\ \A k \in Killers : WF_killVars(duckdb_kill_query(k) \/ interrupt(k))

---------------------------------------------------------------------------
(* Properties *)

(* "COMMIT and appender flushes never see an interrupt" (duckdb_context.h), *)
(* and neither does the session setup before a SELECT, however late the    *)
(* kill of an earlier SELECT comes.                                        *)
CommitNeverInterrupted == pc \in Protected => ~interrupted

(* A SELECT is interrupted only if it has itself been killed: no interrupt *)
(* is left over from an earlier statement.                                 *)
OnlyKilledSelectIsInterrupted == pc \in Running /\ interrupted => killed

(* No kill is lost: when the SELECT waits for a chunk, a kill whose        *)
(* interrupt() has been made is pending in DuckDB, also if it came before  *)
(* the query was submitted.                                                *)
KillReachesQuery ==
    pc = "fetch" /\ killed /\ holder = NoKiller => interrupted

(* duckdb_kill_query never uses a context that close_connection has        *)
(* deleted.                                                                *)
KillUsesLiveContext ==
    \A k \in Killers : kpc[k] = "kill_query" => ctx = "published"

(* A killed SELECT ends, even one that would compute for ever. *)
KilledSelectEnds == (pc \in Running /\ killed) ~> pc = Idle
=============================================================================

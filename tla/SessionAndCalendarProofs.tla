---------------------- MODULE SessionAndCalendarProofs ----------------------
(***************************************************************************)
(* Proofs about two unrelated parts of the engine, each of which is small. *)
(*                                                                         *)
(* The state a session keeps in its DuckdbThdContext: the caches of        *)
(* config_duckdb_env and config_duckdb_session go wrong in the named ways  *)
(* only (SessionConfig), and a KILL interrupts the query it is meant for   *)
(* and nothing else (KillWindow), for any number of killing threads and    *)
(* any number of statements.                                               *)
(*                                                                         *)
(* The calendar functions for every day of the Gregorian calendar: the two *)
(* ways of counting days agree, and WEEK and YEARWEEK count weeks as their *)
(* documentation says, in every mode; ADDTIME and SUBTIME for every time   *)
(* of day and every interval (CalendarChecks).                             *)
(***************************************************************************)
EXTENDS SessionConfig, KillWindow, CalendarChecks, TLAPS

---------------------------------------------------------------------------
(* The cached configuration *)

(* The cached schema is the connection's, unless history says otherwise.   *)
SchemaInv == m_current_schema # NoSchema /\ ~foreign => schema = m_current_schema

(* So is every cached setting. *)
SettingInv ==
    \A s \in Settings : cached[s] # Unset /\ s \notin adrift => value[s] = cached[s]

(* The inductive invariant: the two properties speak of a step, and follow *)
(* from what holds of the caches before it.                                *)
ConfigInv ==
    /\ TypeOK
    /\ SchemaInv
    /\ SettingInv

(* Of a step that forwards a statement: the schema and the settings it     *)
(* runs with.                                                              *)
SchemaStep == db # NoSchema /\ schema' # db => foreign'

SettingStep == \A s \in Settings : value'[s] # want[s] => s \in adrift'

LEMMA InitConfigInv == Init => ConfigInv
<1> SUFFICES ASSUME Init PROVE ConfigInv
  BY Zenon
<1> USE SchemaAssumption, ValueAssumption, PresetAssumption DEF Init
<1>1. CachedInit \in [Settings -> Values \cup {Unset}]
  BY Zenon DEF CachedInit
<1>2. TypeOK
  BY <1>1, Zenon DEF TypeOK
<1>3. SchemaInv
  BY Zenon DEF SchemaInv
<1>4. SettingInv
  BY Zenon DEF SettingInv, CachedInit
<1> QED
  BY <1>2, <1>3, <1>4, Zenon DEF ConfigInv

(* The heart: what prepare_thd_connection makes of the caches, when the    *)
(* flush before it left the schema s0 and the history f0.                  *)
LEMMA PrepareConfigInv ==
    ASSUME ConfigInv,
           NEW s0 \in Schemas \cup {NoSchema}, NEW f0 \in BOOLEAN,
           m_current_schema # NoSchema /\ ~f0 => s0 = m_current_schema,
           prepare_thd_connection(s0, f0),
           trx' \in {"none", "active", "aborted"}, pending' \subseteq Schemas
    PROVE  ConfigInv' /\ SchemaStep /\ SettingStep
<1> USE SchemaAssumption, ValueAssumption DEF ConfigInv
<1> DEFINE changed == {s \in Settings : SettingChanged(s)}
<1>1. PICK useFails \in BOOLEAN, failed \in SUBSET changed :
         /\ m_current_schema' = IF EnvChanged THEN db ELSE m_current_schema
         /\ schema' = IF EnvChanged /\ ~useFails THEN db ELSE s0
         /\ foreign' = IF EnvChanged THEN useFails ELSE f0
         /\ cached' = [s \in Settings |-> IF s \in changed THEN want[s] ELSE cached[s]]
         /\ value' = [s \in Settings |-> IF s \in changed \ failed THEN want[s] ELSE value[s]]
         /\ adrift' = (adrift \ changed) \cup failed
         /\ db' = db /\ want' = want
  BY Zenon DEF prepare_thd_connection
<1>2. \A s \in Settings : s \notin changed => want[s] = cached[s]
  BY Zenon DEF SettingChanged
<1> HIDE DEF changed
<1>3. changed \subseteq Settings
  BY Zenon DEF changed
<1>4. TypeOK'
  <2>1. /\ m_current_schema' \in Schemas \cup {NoSchema}
        /\ schema' \in Schemas \cup {NoSchema}
        /\ foreign' \in BOOLEAN
    BY <1>1, Zenon DEF TypeOK
  <2>2. /\ cached' \in [Settings -> Values \cup {Unset}]
        /\ value' \in [Settings -> Values]
    BY <1>1, Zenon DEF TypeOK
  <2>3. adrift' \subseteq Settings
    BY <1>1, <1>3, Zenon DEF TypeOK
  <2> QED
    BY <1>1, <2>1, <2>2, <2>3, Zenon DEF TypeOK
<1>5. SchemaInv'
  BY <1>1, Zenon DEF SchemaInv
<1>6. ASSUME NEW s \in Settings
      PROVE  cached'[s] = want[s] /\ (s \notin adrift' /\ want[s] # Unset => value'[s] = want[s])
  <2>1. CASE s \in changed
    BY <2>1, <1>1, Zenon
  <2>2. CASE s \notin changed
    BY <2>2, <1>1, <1>2, Zenon DEF SettingInv
  <2> QED
    BY <2>1, <2>2, Zenon
<1>7. SettingInv'
  BY <1>6, Zenon DEF SettingInv
<1>8. SchemaStep
  BY <1>1, Zenon DEF SchemaStep, EnvChanged
<1>9. SettingStep
  <2>1. \A s \in Settings : want[s] # Unset
    BY Zenon DEF TypeOK
  <2> QED
    BY <1>6, <2>1, Zenon DEF SettingStep
<1> QED
  BY <1>4, <1>5, <1>7, <1>8, <1>9, Zenon

(* A forwarded statement keeps the invariant, and runs as the properties   *)
(* say.                                                                    *)
LEMMA ForwardedConfigInv ==
    ASSUME ConfigInv, init_scan \/ direct_rows
    PROVE  ConfigInv' /\ SchemaStep /\ SettingStep
<1> USE SchemaAssumption
<1>1. CASE init_scan
  <2>1. pending' \subseteq Schemas /\ trx' \in {"none", "active", "aborted"}
    BY <1>1, Zenon DEF init_scan, Execute, ConfigInv, TypeOK
  <2>2. prepare_thd_connection(schema, foreign)
    BY <1>1, Zenon DEF init_scan
  <2>3. /\ schema \in Schemas \cup {NoSchema} /\ foreign \in BOOLEAN
        /\ m_current_schema # NoSchema /\ ~foreign => schema = m_current_schema
    BY Zenon DEF ConfigInv, TypeOK, SchemaInv
  <2> QED
    BY <2>1, <2>2, <2>3, PrepareConfigInv, Zenon
<1>2. CASE direct_rows
  <2>1. pending' \subseteq Schemas /\ trx' \in {"none", "active", "aborted"}
    BY <1>2, Zenon DEF direct_rows, Execute, ConfigInv, TypeOK
  <2>2. PICK s0 \in Flushed : prepare_thd_connection(s0, foreign \/ pending # {})
    BY <1>2, Zenon DEF direct_rows
  <2>3. /\ s0 \in Schemas \cup {NoSchema} /\ (foreign \/ pending # {}) \in BOOLEAN
        /\ m_current_schema # NoSchema /\ ~(foreign \/ pending # {})
             => s0 = m_current_schema
    BY <2>2, Zenon DEF ConfigInv, TypeOK, SchemaInv, Flushed
  <2> QED
    BY <2>1, <2>2, <2>3, PrepareConfigInv, Zenon
<1> QED
  BY <1>1, <1>2, Zenon

LEMMA NextConfigInv == ConfigInv /\ [Next]_vars => ConfigInv'
<1> SUFFICES ASSUME ConfigInv, [Next]_vars PROVE ConfigInv'
  BY Zenon
<1> USE SchemaAssumption, ValueAssumption, PresetAssumption DEF caches
<1>1. CASE init_scan \/ direct_rows
  BY <1>1, ForwardedConfigInv, Zenon
<1>2. ASSUME NEW s \in Global, NEW v \in Values, OtherSessionSets(s, v)
      PROVE  ConfigInv'
  <2>1. value' \in [Settings -> Values] /\ adrift' \subseteq Settings
    BY <1>2, Zenon DEF OtherSessionSets, ConfigInv, TypeOK
  <2>2. \A r \in Settings : r \notin adrift' => r \notin adrift /\ value'[r] = value[r]
    BY <1>2, Zenon DEF OtherSessionSets, ConfigInv, TypeOK
  <2>3. UNCHANGED <<db, want, m_current_schema, cached, schema, pending, trx, foreign>>
    BY <1>2, Zenon DEF OtherSessionSets
  <2> QED
    BY <2>1, <2>2, <2>3, Zenon DEF ConfigInv, TypeOK, SchemaInv, SettingInv
<1>3. ASSUME NEW d \in Schemas,
             ChangeDb(d) \/ append_row(d) \/ UseSchema(d)
      PROVE  ConfigInv'
  BY <1>3, Zenon DEF ChangeDb, append_row, UseSchema, ConfigInv, TypeOK, SchemaInv,
              SettingInv
<1>4. ASSUME NEW s \in Settings, NEW v \in Values, SetVariable(s, v)
      PROVE  ConfigInv'
  BY <1>4, ZenonT(30) DEF SetVariable, ConfigInv, TypeOK, SchemaInv, SettingInv
<1>5. CASE StatementFails \/ FlushFails \/ duckdb_rollback
  BY <1>5, Zenon DEF StatementFails, FlushFails, duckdb_rollback, ConfigInv, TypeOK,
              SchemaInv, SettingInv
<1>6. CASE rnd_init \/ duckdb_commit
  <2>1. /\ schema' \in Schemas \cup {NoSchema} /\ foreign' \in BOOLEAN
        /\ m_current_schema # NoSchema /\ ~foreign' => schema' = m_current_schema
    BY <1>6, Zenon DEF rnd_init, duckdb_commit, Flushed, ConfigInv, TypeOK, SchemaInv
  <2>2. pending' \subseteq Schemas /\ trx' \in {"none", "active", "aborted"}
    BY <1>6, Zenon DEF rnd_init, duckdb_commit, Execute
  <2>3. UNCHANGED <<db, want, m_current_schema, cached, value, adrift>>
    BY <1>6, Zenon DEF rnd_init, duckdb_commit
  <2> QED
    BY <2>1, <2>2, <2>3, Zenon DEF ConfigInv, TypeOK, SchemaInv, SettingInv
<1>7. CASE duckdb_close_connection
  <2>1. CachedInit \in [Settings -> Values \cup {Unset}]
    BY Zenon DEF CachedInit
  <2>2. TypeOK'
    BY <1>7, <2>1, Zenon DEF duckdb_close_connection, ConfigInv, TypeOK
  <2>3. SchemaInv' /\ SettingInv'
    BY <1>7, Zenon DEF duckdb_close_connection, SchemaInv, SettingInv, CachedInit
  <2> QED
    BY <2>2, <2>3, Zenon DEF ConfigInv
<1>8. CASE UNCHANGED vars
  BY <1>8, ZenonT(30) DEF vars, ConfigInv, TypeOK, SchemaInv, SettingInv
<1> QED
  BY <1>1, <1>2, <1>3, <1>4, <1>5, <1>6, <1>7, <1>8, Zenon DEF Next

(* The inductive invariant holds throughout. *)
THEOREM ConfigInvariant == Spec => []ConfigInv
BY InitConfigInv, NextConfigInv, PTL DEF Spec

(* The schema cache of config_duckdb_env is wrong for a forwarded          *)
(* statement only after a foreign or a failed USE.                         *)
THEOREM SchemaCacheCorrect == Spec => SchemaStaleOnlyAfterUse
<1>1. ConfigInv /\ [Next]_vars => [Forwarded => SchemaStep]_vars
  BY ForwardedConfigInv, Zenon DEF Forwarded
<1> QED
  BY <1>1, ConfigInvariant, PTL DEF Spec, SchemaStaleOnlyAfterUse, SchemaStep

(* A setting that config_duckdb_session does not send is wrong for a       *)
(* forwarded statement only if no successful SET of this session stands    *)
(* behind its cache entry.                                                 *)
THEOREM SettingCacheCorrect == Spec => SettingStaleOnlyIfAdrift
<1>1. ConfigInv /\ [Next]_vars => [Forwarded => SettingStep]_vars
  BY ForwardedConfigInv, Zenon DEF Forwarded
<1> QED
  BY <1>1, ConfigInvariant, PTL DEF Spec, SettingStaleOnlyIfAdrift, SettingStep

---------------------------------------------------------------------------
(* The window in which a KILL may interrupt *)

(* The window is open while the query runs, and closed when no scan is     *)
(* under way.                                                              *)
WindowInv ==
    /\ pc \in Running => window
    /\ pc \notin Running \cup {"end_scan", "close", "destroy"} => ~window

(* An interrupt is pending only inside the window, and only of a kill.     *)
InterruptInv == interrupted => window /\ killed

(* The thread between awake() and the end of kill_query holds              *)
(* LOCK_thd_kill, and thd->killed is set all that time.                    *)
LockInv ==
    /\ \A k \in Killers : kpc[k] # Idle <=> holder = k
    /\ holder # NoKiller => killed

(* A session inside a statement has its context published, and a killing   *)
(* thread inside interrupt() keeps it so.                                  *)
ContextInv ==
    /\ pc # Idle => ctx = "published"
    /\ KillUsesLiveContext

(* From interrupt_if_killed on, a kill that has been made is pending.      *)
DeliveredInv ==
    pc \in {"opened", "fetch"} /\ killed /\ holder = NoKiller => interrupted

(* The inductive invariant.  CommitNeverInterrupted needs that the window  *)
(* is closed then; KillReachesQuery needs that a killing thread that finds *)
(* no context cannot meet a running SELECT.                                *)
KillInv ==
    /\ KillTypeOK
    /\ WindowInv
    /\ InterruptInv
    /\ LockInv
    /\ ContextInv
    /\ DeliveredInv

LEMMA InitKillInv == KillInit => KillInv
<1> SUFFICES ASSUME KillInit PROVE KillInv
  BY Zenon
<1> USE KillerAssumption DEF KillInit, Running, Protected, Idle
<1>1. KillTypeOK
  BY Zenon DEF KillTypeOK
<1>2. WindowInv /\ InterruptInv /\ DeliveredInv
  BY Zenon DEF WindowInv, InterruptInv, DeliveredInv
<1>3. LockInv
  BY Zenon DEF LockInv
<1>4. ContextInv
  BY Zenon DEF ContextInv, KillUsesLiveContext
<1> QED
  BY <1>1, <1>2, <1>3, <1>4, Zenon DEF KillInv

(* The steps of the session's thread leave the killing threads alone. *)
LEMMA SessionKillInv ==
    ASSUME KillInv,
           select_init_scan \/ Proceed \/ next_row \/ LastRow \/ session_commit
    PROVE  KillInv'
<1> USE DEF KillInv, Running, Protected, Idle, session
<1>1. KillTypeOK'
  <2>1. CASE select_init_scan \/ session_commit
    <3>1. interrupted' \in BOOLEAN
      BY <2>1, Zenon DEF KillTypeOK, select_init_scan, session_commit
    <3>2. stmts' \in Nat
      BY <2>1 DEF KillTypeOK, select_init_scan, session_commit
    <3> QED
      BY <2>1, <3>1, <3>2, Zenon DEF KillTypeOK, select_init_scan, session_commit
  <2>2. CASE \/ ConfigDone \/ begin_interruptible \/ SendMetadata \/ Interrupted
             \/ end_scan \/ end_interruptible \/ HandlerDestroyed
             \/ reset_killed \/ next_row \/ LastRow
    BY <2>2, ZenonT(30) DEF KillTypeOK, ConfigDone, begin_interruptible, SendMetadata,
                Interrupted, end_scan, end_interruptible, HandlerDestroyed,
                reset_killed, next_row, LastRow
  <2>3. CASE Submit
    BY <2>3, Zenon DEF KillTypeOK, Submit
  <2>4. CASE interrupt_if_killed
    <3>1. interrupted' \in BOOLEAN
      BY <2>4, Zenon DEF KillTypeOK, interrupt_if_killed
    <3> QED
      BY <2>4, <3>1, Zenon DEF KillTypeOK, interrupt_if_killed
  <2> QED
    BY <2>1, <2>2, <2>3, <2>4, SMTT(30), Zenon DEF Proceed
<1>2. WindowInv' /\ InterruptInv'
  BY DEF KillTypeOK, WindowInv, InterruptInv, Proceed, select_init_scan, ConfigDone,
         begin_interruptible, Submit, interrupt_if_killed, SendMetadata,
         Interrupted, end_scan, end_interruptible, HandlerDestroyed,
         reset_killed, next_row, LastRow, session_commit
<1>3. LockInv'
  BY Zenon DEF KillTypeOK, LockInv, Proceed, select_init_scan, ConfigDone,
         begin_interruptible, Submit, interrupt_if_killed, SendMetadata,
         Interrupted, end_scan, end_interruptible, HandlerDestroyed,
         reset_killed, next_row, LastRow, session_commit
<1>4. ContextInv'
  BY Zenon DEF KillTypeOK, ContextInv, KillUsesLiveContext, Proceed, select_init_scan, ConfigDone,
         begin_interruptible, Submit, interrupt_if_killed, SendMetadata,
         Interrupted, end_scan, end_interruptible, HandlerDestroyed,
         reset_killed, next_row, LastRow, session_commit
<1>5. DeliveredInv'
  BY Zenon DEF KillTypeOK, WindowInv, DeliveredInv, Proceed, select_init_scan, ConfigDone,
         begin_interruptible, Submit, interrupt_if_killed, SendMetadata,
         Interrupted, end_scan, end_interruptible, HandlerDestroyed,
         reset_killed, next_row, LastRow, session_commit
<1> QED
  BY <1>1, <1>2, <1>3, <1>4, <1>5, Zenon

(* The disconnect happens between statements. *)
LEMMA CloseKillInv ==
    ASSUME KillInv, Unpublish \/ DeleteContext
    PROVE  KillInv'
BY DEF KillInv, KillTypeOK, WindowInv, InterruptInv, LockInv, ContextInv,
       KillUsesLiveContext, DeliveredInv, Unpublish, DeleteContext, Running,
       Protected, Idle

(* awake() sets killed; the pending interrupt is owed until it lets go of  *)
(* LOCK_thd_kill.                                                          *)
LEMMA AwakeKillInv ==
    ASSUME KillInv, NEW k \in Killers, awake(k)
    PROVE  KillInv'
<1> USE KillerAssumption DEF KillInv, awake, Running, Protected, Idle
<1>1. KillTypeOK'
  BY DEF KillTypeOK
<1>2. WindowInv' /\ InterruptInv'
  BY Zenon DEF WindowInv, InterruptInv
<1>3. LockInv'
  BY Zenon DEF KillTypeOK, LockInv
<1>4. ContextInv'
  BY Zenon DEF KillTypeOK, ContextInv, KillUsesLiveContext
<1>5. DeliveredInv'
  BY Zenon DEF DeliveredInv
<1> QED
  BY <1>1, <1>2, <1>3, <1>4, <1>5, Zenon

(* kill_query finds the published context, or no statement is under way. *)
LEMMA KillQueryKillInv ==
    ASSUME KillInv, NEW k \in Killers, duckdb_kill_query(k)
    PROVE  KillInv'
<1> USE KillerAssumption DEF KillInv, duckdb_kill_query, Running, Protected, Idle
<1>1. KillTypeOK'
  BY ZenonT(30) DEF KillTypeOK
<1>2. WindowInv' /\ InterruptInv'
  BY Zenon DEF WindowInv, InterruptInv
<1>3. LockInv'
  BY Zenon DEF KillTypeOK, LockInv
<1>4. ContextInv'
  BY Zenon DEF KillTypeOK, ContextInv, KillUsesLiveContext
<1>5. DeliveredInv'
  BY Zenon DEF KillTypeOK, DeliveredInv, ContextInv, LockInv
<1> QED
  BY <1>1, <1>2, <1>3, <1>4, <1>5, Zenon

(* interrupt() pays what is owed: while the query runs the window is open. *)
LEMMA InterruptKillInv ==
    ASSUME KillInv, NEW k \in Killers, interrupt(k)
    PROVE  KillInv'
<1> USE KillerAssumption DEF KillInv, interrupt, Running, Protected, Idle
<1>1. KillTypeOK'
  BY Zenon DEF KillTypeOK
<1>2. WindowInv' /\ InterruptInv'
  BY Zenon DEF WindowInv, InterruptInv, LockInv, KillTypeOK
<1>3. LockInv'
  BY Zenon DEF KillTypeOK, LockInv
<1>4. ContextInv'
  BY Zenon DEF KillTypeOK, ContextInv, KillUsesLiveContext
<1>5. DeliveredInv'
  BY Zenon DEF KillTypeOK, DeliveredInv, WindowInv
<1> QED
  BY <1>1, <1>2, <1>3, <1>4, <1>5, Zenon

LEMMA NextKillInv == KillInv /\ [KillNext]_killVars => KillInv'
<1> SUFFICES ASSUME KillInv, [KillNext]_killVars PROVE KillInv'
  BY Zenon
<1>1. CASE UNCHANGED killVars
  BY <1>1, ZenonT(30) DEF killVars, KillInv, KillTypeOK, WindowInv, InterruptInv, LockInv,
              ContextInv, KillUsesLiveContext, DeliveredInv
<1> QED
  BY <1>1, SessionKillInv, CloseKillInv, AwakeKillInv, KillQueryKillInv,
     InterruptKillInv, SMTT(30), Zenon DEF KillNext, Kill

(* The inductive invariant holds throughout. *)
THEOREM KillInvariant == KillSpec => []KillInv
BY InitKillInv, NextKillInv, PTL DEF KillSpec

(* No COMMIT, appender flush or session setup is ever interrupted. *)
THEOREM CommitSafe == KillSpec => []CommitNeverInterrupted
<1>1. KillInv => CommitNeverInterrupted
  BY Zenon DEF KillInv, WindowInv, InterruptInv, CommitNeverInterrupted, Running, Protected
<1> QED
  BY <1>1, KillInvariant, PTL

(* An interrupt never outlives the statement it was meant for. *)
THEOREM InterruptIsOwn == KillSpec => []OnlyKilledSelectIsInterrupted
<1>1. KillInv => OnlyKilledSelectIsInterrupted
  BY Zenon DEF KillInv, InterruptInv, OnlyKilledSelectIsInterrupted
<1> QED
  BY <1>1, KillInvariant, PTL

(* begin_interruptible, interrupt_if_killed and interrupt together lose no *)
(* kill.                                                                   *)
THEOREM NoKillLost == KillSpec => []KillReachesQuery
<1>1. KillInv => KillReachesQuery
  BY Zenon DEF KillInv, DeliveredInv, KillReachesQuery
<1> QED
  BY <1>1, KillInvariant, PTL

(* The context a killing thread uses is not deleted under it. *)
THEOREM LiveContext == KillSpec => []KillUsesLiveContext
<1>1. KillInv => KillUsesLiveContext
  BY Zenon DEF KillInv, ContextInv
<1> QED
  BY <1>1, KillInvariant, PTL

---------------------------------------------------------------------------
(* Years *)

(* The leap days of the centuries, as the code and as the calendar count
   them. *)
LEMMA CenturyDays ==
    ASSUME NEW c \in Nat
    PROVE  ((c + 1) * 3) \div 4 = c - c \div 4
  OBVIOUS

LEMMA Hundreds ==
    ASSUME NEW y \in Nat
    PROVE  (y \div 100) \div 4 = y \div 400
  OBVIOUS

(* How the counts of leap days change from one year to the next. *)
LEMMA QuotientStep ==
    ASSUME NEW y \in Nat, y >= 1
    PROVE  /\ y \div 4 = (y - 1) \div 4 + IF y % 4 = 0 THEN 1 ELSE 0
           /\ y \div 100 = (y - 1) \div 100 + IF y % 100 = 0 THEN 1 ELSE 0
           /\ y \div 400 = (y - 1) \div 400 + IF y % 400 = 0 THEN 1 ELSE 0
           /\ y % 100 = 0 => y % 4 = 0
           /\ y % 400 = 0 => y % 100 = 0
  OBVIOUS

LEMMA YearStep ==
    ASSUME NEW y \in Nat, y >= 1
    PROVE  YearStart(y + 1) = YearStart(y) + DaysOfYear(y)
  BY QuotientStep DEF YearStart, DaysOfYear, Leap

---------------------------------------------------------------------------
(* Days *)

(* TO_DAYS gives the first day of the year 1 the number 366. *)
LEMMA EpochOffset ==
    DaysBeforeEpoch \in Int /\ MC_TO_DAYS_EPOCH_OFFSET = DaysBeforeEpoch + 366
  BY SMT, Zenon DEF DaysBeforeEpoch, MC_TO_DAYS_EPOCH_OFFSET

LEMMA LengthTypes ==
    ASSUME NEW y \in Nat, NEW m \in 1 .. 12
    PROVE  /\ DaysOfYear(y) \in {365, 366}
           /\ DaysOfMonth(y, m) \in 28 .. 31
           /\ MonthStart(y, m) \in Int
           /\ YearStart(y) \in Int
  BY DEF DaysOfYear, DaysOfMonth, MonthStart, YearStart

LEMMA MonthStep ==
    ASSUME NEW y \in Nat, NEW m \in 1 .. 12
    PROVE  MonthStart(y, m) + DaysOfMonth(y, m)
             = IF m = 12 THEN DaysOfYear(y) ELSE MonthStart(y, m + 1)
  BY DEF DaysOfYear, DaysOfMonth, MonthStart

LEMMA FirstMonth == ASSUME NEW y \in Nat PROVE MonthStart(y, 1) = 0
  BY DEF MonthStart

(* The day of the year is in the year. *)
LEMMA DayOfYear ==
    ASSUME NEW y \in Nat, NEW m \in 1 .. 12, NEW d \in 1 .. DaysOfMonth(y, m)
    PROVE  MonthStart(y, m) + d \in 1 .. DaysOfYear(y)
  BY DEF DaysOfYear, DaysOfMonth, MonthStart

(* The first days of the year are those of January. *)
LEMMA NewYearDays ==
    ASSUME NEW y \in Nat, NEW m \in 1 .. 12, NEW d \in 1 .. DaysOfMonth(y, m),
           NEW k \in 0 .. 28
    PROVE  m = 1 /\ d <= k <=> MonthStart(y, m) + d <= k
  BY DEF DaysOfMonth, MonthStart

(* mc_calc_daynr counts the days of the calendar. *)
LEMMA Daynr ==
    ASSUME NEW y \in Nat, y >= 1, NEW m \in 1 .. 12, NEW d \in Nat
    PROVE  mc_calc_daynr(y, m, d) = YearStart(y) + MonthStart(y, m) + d + 365
<1> DEFINE past == IF m <= 2 THEN y - 1 ELSE y
           months == IF m <= 2 THEN 0 ELSE (m * 4 + 23) \div 10
           leap == IF m > 2 /\ Leap(y) THEN 1 ELSE 0
<1>1. past \in Nat
  OBVIOUS
<1>2. mc_calc_daynr(y, m, d)
        = 365 * y + 31 * (m - 1) + d - months
            + past \div 4 - ((past \div 100 + 1) * 3) \div 4
  BY DEF mc_calc_daynr
<1>3. ((past \div 100 + 1) * 3) \div 4 = past \div 100 - past \div 400
  BY <1>1, CenturyDays, Hundreds
<1>4. 31 * (m - 1) - months = MonthStart(y, m) - leap
  BY DEF MonthStart
<1>5. past \div 4 - past \div 100 + past \div 400
        = (y - 1) \div 4 - (y - 1) \div 100 + (y - 1) \div 400
            + leap
  BY QuotientStep DEF Leap
<1>6. months \in Int /\ leap \in Int
  OBVIOUS
<1>7. MonthStart(y, m) \in Int
  BY LengthTypes, SMTT(30), Zenon
<1> HIDE DEF past, months, leap
<1> QED
  BY <1>1, <1>2, <1>3, <1>4, <1>5, <1>6, <1>7 DEF YearStart

(* The conversion of the next epoch day gives the next day of the calendar. *)
LEMMA NextDayOnCalendar ==
    ASSUME OnCalendar(day), NextDay
    PROVE  OnCalendar(day')
<1> DEFINE y == day.y
           m == day.m
           d == day.d
           monthEnds == d = DaysOfMonth(y, m)
           yearEnds == monthEnds /\ m = 12
<1>1. /\ y \in Nat /\ y >= 2 /\ m \in 1 .. 12 /\ d \in 1 .. DaysOfMonth(y, m)
      /\ day.doy = MonthStart(y, m) + d
      /\ day.epoch = YearStart(y) + day.doy - 1 - DaysBeforeEpoch
      /\ day.iso = ((day.epoch + DaysBeforeEpoch) % 7) + 1
  BY Zenon DEF OnCalendar
<1>2. /\ day'.y = IF yearEnds THEN y + 1 ELSE y
      /\ day'.m = IF yearEnds THEN 1 ELSE IF monthEnds THEN m + 1 ELSE m
      /\ day'.d = IF monthEnds THEN 1 ELSE d + 1
      /\ day'.doy = IF yearEnds THEN 1 ELSE day.doy + 1
      /\ day'.epoch = day.epoch + 1
      /\ day'.iso = (day.iso % 7) + 1
  BY Zenon DEF NextDay
<1> HIDE DEF y, m, d
<1>3. /\ DaysOfMonth(y, m) \in 28 .. 31 /\ MonthStart(y, m) \in Int /\ YearStart(y) \in Int
      /\ DaysOfYear(y) \in Int
  BY <1>1, LengthTypes
<1>4. day.epoch \in Int /\ day.doy \in Int
  BY <1>1, <1>3, EpochOffset, SMTT(30), Zenon
<1>5. day'.iso = ((day'.epoch + DaysBeforeEpoch) % 7) + 1
  BY <1>1, <1>2, <1>4, EpochOffset, SMTT(30), Zenon
<1>6. /\ day'.y \in Nat /\ day'.y >= 2
      /\ day'.m \in 1 .. 12
  BY <1>1, <1>2, SMTT(30), Zenon
<1>7. day'.d \in 1 .. DaysOfMonth(day'.y, day'.m)
  BY <1>1, <1>2, <1>3, <1>6, LengthTypes, SMTT(30), ZenonT(30)
<1>8. day'.doy = MonthStart(day'.y, day'.m) + day'.d
  BY <1>1, <1>2, <1>3, <1>4, MonthStep, FirstMonth
<1>9. day'.epoch = YearStart(day'.y) + day'.doy - 1 - DaysBeforeEpoch
  BY <1>1, <1>2, <1>3, <1>4, EpochOffset, MonthStep, YearStep
<1> QED
  BY <1>5, <1>6, <1>7, <1>8, <1>9, SMTT(30), Zenon DEF OnCalendar

(* What the code computes of a day of the calendar: its number, as TO_DAYS
   returns it, the number of the first of January, and the weekdays of both. *)
LEMMA DayFacts ==
    ASSUME NEW date, OnCalendar(date), NEW sunday \in BOOLEAN
    PROVE  /\ date.doy \in 1 .. DaysOfYear(date.y) /\ date.iso \in 1 .. 7
           /\ mc_calc_daynr(date.y, date.m, date.d) = to_days_date_func(date.epoch)
           /\ mc_calc_daynr(date.y, 1, 1) \in Int
           /\ mc_calc_daynr(date.y, date.m, date.d)
                = mc_calc_daynr(date.y, 1, 1) + date.doy - 1
           /\ mc_calc_weekday(mc_calc_daynr(date.y, date.m, date.d), sunday)
                = IF sunday THEN date.iso % 7 ELSE date.iso - 1
           /\ mc_calc_weekday(mc_calc_daynr(date.y, date.m, date.d), sunday)
                = (mc_calc_weekday(mc_calc_daynr(date.y, 1, 1), sunday) + date.doy - 1) % 7
           /\ mc_calc_weekday(mc_calc_daynr(date.y, 1, 1), sunday) \in 0 .. 6
<1> DEFINE y == date.y
           daynr == mc_calc_daynr(date.y, date.m, date.d)
           first == mc_calc_daynr(y, 1, 1)
<1>1. /\ y \in Nat /\ y >= 2 /\ date.m \in 1 .. 12 /\ date.d \in 1 .. DaysOfMonth(y, date.m)
      /\ date.doy = MonthStart(y, date.m) + date.d
      /\ date.epoch = YearStart(y) + date.doy - 1 - DaysBeforeEpoch
      /\ date.iso = ((date.epoch + DaysBeforeEpoch) % 7) + 1
  BY Zenon DEF OnCalendar
<1>2. YearStart(y) \in Int /\ MonthStart(y, date.m) \in Int /\ date.d \in Nat
      /\ MonthStart(y, 1) = 0 /\ DaysOfYear(y) \in Int
  BY <1>1, LengthTypes, FirstMonth
<1>3. date.doy \in 1 .. DaysOfYear(y)
  BY <1>1, DayOfYear, SMTT(30), Zenon
<1>4. daynr = YearStart(y) + MonthStart(y, date.m) + date.d + 365
  BY <1>1, <1>2, Daynr, SMTT(30), Zenon
<1>5. first = YearStart(y) + 0 + 1 + 365
  BY <1>1, <1>2, Daynr, SMTT(30), Zenon
<1> HIDE DEF daynr, first
<1>6. daynr = date.epoch + DaysBeforeEpoch + 366 /\ first \in Int /\ daynr = first + date.doy - 1
  BY <1>1, <1>2, <1>3, <1>4, <1>5, EpochOffset
<1>7. date.epoch \in Int /\ date.doy \in Int
  BY <1>1, <1>2, EpochOffset
<1>8. daynr = to_days_date_func(date.epoch)
  BY <1>6, <1>7, EpochOffset DEF to_days_date_func
<1>9. mc_calc_weekday(daynr, sunday) = IF sunday THEN date.iso % 7 ELSE date.iso - 1
  BY <1>1, <1>6, <1>7, EpochOffset DEF mc_calc_weekday
<1>10. /\ mc_calc_weekday(daynr, sunday) = (mc_calc_weekday(first, sunday) + date.doy - 1) % 7
       /\ mc_calc_weekday(first, sunday) \in 0 .. 6
  BY <1>6, <1>7, SMTT(30), Zenon DEF mc_calc_weekday
<1>11. date.iso \in 1 .. 7
  BY <1>1, <1>7, EpochOffset, SMTT(30), Zenon
<1> QED
  BY <1>3, <1>6, <1>8, <1>9, <1>10, <1>11, SMTT(30), Zenon DEF daynr, first

---------------------------------------------------------------------------
(* Weeks *)

(* The rule by which a week is counted in the year after: a year that begins
   on weekday w begins in a week of the year before. *)
Shift(fw, w) == IF fw THEN w # 0 ELSE w >= 4

(* The day of the year that decides for the week of the day doy, in a year that
   begins on weekday w. *)
Pivot(fw, w, doy) == doy - ((w + doy - 1) % 7) + IF fw THEN 0 ELSE 3

(* Days since the first week of a year that began off days ago, on weekday w. *)
Days(fw, w, off) == IF Shift(fw, w) THEN off - (7 - w) ELSE off + w

LEMMA ShiftedShifts ==
    ASSUME NEW b, NEW w
    PROVE  Shifted(b, w) <=> Shift(MC_WEEK_FIRST_WEEKDAY \in b, w)
  BY Zenon DEF Shifted, Shift

(* The week of the first of January: the code counts it in the year before,
   and notices when that would be its last week plus one. *)
LEMMA FirstWeek ==
    ASSUME NEW fw \in BOOLEAN, NEW w \in 0 .. 6, NEW prev \in {365, 366},
           NEW doy \in 1 .. 366, doy + w <= 7
    PROVE  LET back == (w + 53 * 7 - prev) % 7
               pivot == Pivot(fw, w, doy)
               days == Days(fw, back, doy - 1 + prev)
           IN /\ (back + prev) % 7 = w
              /\ pivot < 1 <=> Shift(fw, w)
              /\ pivot <= 4
              /\ Shift(fw, w) => days \div 7 = ((pivot + prev) - 1) \div 7
              /\ ~Shift(fw, w) => days >= 52 * 7
<1>1. (w + doy - 1) % 7 = w + doy - 1
  OBVIOUS
<1>2. Pivot(fw, w, doy) = 1 - w + IF fw THEN 0 ELSE 3
  BY <1>1 DEF Pivot
<1> DEFINE back == (w + 53 * 7 - prev) % 7
<1>3. back = IF prev = 365 THEN (w + 6) % 7 ELSE (w + 5) % 7
  OBVIOUS
<1>4. (back + prev) % 7 = w
  BY <1>3, SMTT(30), Zenon
<1>5. CASE fw
  BY <1>2, <1>3, <1>4, <1>5, SMTT(30), Zenon DEF Shift, Days
<1>6. CASE ~fw
  BY <1>2, <1>3, <1>4, <1>6 DEF Shift, Days
<1> QED
  BY <1>5, <1>6, ZenonT(30)

(* The other weeks: the code counts them in the year, and notices when a week
   is the first of the next. *)
CountedLater(fw, w, len, doy) ==
    LET pivot == Pivot(fw, w, doy)
        days == Days(fw, w, doy - 1)
    IN /\ pivot >= 1
       /\ days \div 7 = (pivot - 1) \div 7
       /\ pivot > len <=> days >= 52 * 7 /\ ~Shift(fw, (w + len) % 7)

YearLengths == {365, 366}

LEMMA LaterWeek ==
    ASSUME NEW fw \in BOOLEAN, NEW w \in 0 .. 6, NEW len \in YearLengths,
           NEW doy \in 1 .. len, doy + w > 7
    PROVE  CountedLater(fw, w, len, doy)
<1>1. CASE fw
  BY <1>1 DEF YearLengths, CountedLater, Shift, Days, Pivot
<1>2. CASE ~fw
  BY <1>2 DEF YearLengths, CountedLater, Shift, Days, Pivot
<1> QED
  BY <1>1, <1>2, SMTT(30), Zenon

LEMMA DaysInYear ==
    ASSUME NEW y \in Nat, y >= 1
    PROVE  mc_calc_days_in_year(y) = DaysOfYear(y)
  BY QuotientStep DEF mc_calc_days_in_year, DaysOfYear, Leap

(* mc_calc_week finds the week of a day and the year it is counted in. *)
LEMMA WeekIsCounted ==
    ASSUME OnCalendar(day), NEW b
    PROVE  mc_calc_week(day, b) = WeekOf(b)
<1> DEFINE y == day.y
           doy == day.doy
           sunday == MC_WEEK_MONDAY_FIRST \notin b
           fw == MC_WEEK_FIRST_WEEKDAY \in b
           yr == MC_WEEK_YEAR \in b
           daynr == mc_calc_daynr(y, day.m, day.d)
           first0 == mc_calc_daynr(y, 1, 1)
           w == mc_calc_weekday(first0, sunday)
           pivot == Pivot(fw, w, doy)
           firstWeek == day.m = 1 /\ day.d <= 7 - w
           year == IF firstWeek THEN y - 1 ELSE y
           prev == mc_calc_days_in_year(year)
           first == IF firstWeek THEN first0 - prev ELSE first0
           weekday == IF firstWeek THEN (w + 53 * 7 - prev) % 7 ELSE w
           days == Days(fw, weekday, daynr - first)
           next == (weekday + prev) % 7
<1>1. /\ y \in Nat /\ y >= 2 /\ day.m \in 1 .. 12 /\ day.d \in 1 .. DaysOfMonth(y, day.m)
      /\ doy = MonthStart(y, day.m) + day.d
  BY Zenon DEF OnCalendar
<1>2. sunday \in BOOLEAN /\ fw \in BOOLEAN /\ yr \in BOOLEAN
  OBVIOUS
<1>3. /\ doy \in 1 .. DaysOfYear(y) /\ first0 \in Int /\ daynr = first0 + doy - 1
      /\ w \in 0 .. 6
      /\ (w + doy - 1) % 7 = IF sunday THEN day.iso % 7 ELSE day.iso - 1
  BY <1>2, DayFacts, Zenon
<1> HIDE DEF y, doy, sunday, fw, yr, daynr, first0, w
<1>4. DaysOfYear(y) \in {365, 366} /\ DaysOfYear(y - 1) \in {365, 366}
  BY <1>1 DEF DaysOfYear
<1>5. mc_calc_days_in_year(y) = DaysOfYear(y) /\ mc_calc_days_in_year(y - 1) = DaysOfYear(y - 1)
  BY <1>1, DaysInYear, SMTT(30), Zenon
<1>6. firstWeek <=> doy + w <= 7
  <2> DEFINE k == 7 - w
  <2>1. k \in 0 .. 28
    BY <1>3
  <2>2. k \in Int /\ (doy <= k <=> doy + w <= 7) /\ (firstWeek <=> day.m = 1 /\ day.d <= k)
    BY <1>3, <1>4
  <2> HIDE DEF k, firstWeek
  <2>3. day.m = 1 /\ day.d <= k <=> MonthStart(y, day.m) + day.d <= k
    BY <1>1, <2>1, NewYearDays, Zenon
  <2> QED
    BY <1>1, <2>2, <2>3, Zenon
<1>7. WeekOf(b) = IF pivot < 1
                  THEN IF yr
                       THEN [week |-> ((pivot + DaysOfYear(y - 1)) - 1) \div 7 + 1, year |-> y - 1]
                       ELSE [week |-> 0, year |-> y]
                  ELSE IF pivot > DaysOfYear(y) /\ yr THEN [week |-> 1, year |-> y + 1]
                  ELSE [week |-> (pivot - 1) \div 7 + 1, year |-> y]
  <2>1. PivotOf(b) = pivot
    BY <1>3, Zenon DEF PivotOf, Pivot, sunday, fw, doy
  <2> HIDE DEF pivot
  <2> QED
    BY <2>1, Zenon DEF WeekOf, y, yr
<1>8. mc_calc_week(day, b)
        = IF firstWeek /\ ~yr /\ Shift(fw, w) THEN [week |-> 0, year |-> y]
          ELSE IF (firstWeek \/ yr) /\ days >= 52 * 7 /\ ~Shift(fw, next)
          THEN [week |-> 1, year |-> year + 1]
          ELSE [week |-> days \div 7 + 1, year |-> year]
  <2> DEFINE late == daynr - (first + 7 - weekday)
             early == daynr - (first - weekday)
  <2>1. prev \in {365, 366}
    BY <1>4, <1>5, SMTT(30), Zenon
  <2>2. daynr \in Int /\ first \in Int /\ weekday \in Int
    BY <1>3, <1>4, <2>1, SMTT(30), Zenon
  <2>3. late = daynr - first - (7 - weekday) /\ early = daynr - first + weekday
    BY <2>2
  <2>4. \A v : Shifted(b, v) <=> Shift(fw, v)
    BY ShiftedShifts, Zenon DEF fw
  <2>5. days = IF Shifted(b, weekday) THEN late ELSE early
    BY <2>3, <2>4, ZenonT(30) DEF Days
  <2>6. mc_calc_week(day, b)
          = IF firstWeek /\ ~yr /\ Shifted(b, w) THEN [week |-> 0, year |-> y]
            ELSE IF /\ firstWeek \/ yr
                    /\ (IF Shifted(b, weekday) THEN late ELSE early) >= 52 * 7
                    /\ ~Shifted(b, next)
            THEN [week |-> 1, year |-> year + 1]
            ELSE [week |-> (IF Shifted(b, weekday) THEN late ELSE early) \div 7 + 1,
                  year |-> year]
    BY Zenon DEF mc_calc_week, y, doy, yr, sunday, daynr, first0, w
  <2> HIDE DEF late, early, days, next, weekday, first, prev, year, firstWeek
  <2> QED
    BY <2>4, <2>5, <2>6, Zenon
<1> HIDE DEF pivot, firstWeek, days
<1>9. CASE firstWeek
  <2>1. /\ year = y - 1 /\ prev = DaysOfYear(y - 1)
        /\ days = Days(fw, (w + 53 * 7 - prev) % 7, doy - 1 + prev)
    BY <1>1, <1>3, <1>4, <1>5, <1>9, SMTT(30), Zenon DEF days
  <2>2. doy \in 1 .. 366 /\ doy + w <= 7
    BY <1>3, <1>4, <1>6, <1>9, SMTT(30), ZenonT(30)
  <2>3. /\ next = w
        /\ pivot < 1 <=> Shift(fw, w)
        /\ pivot <= 4
        /\ Shift(fw, w) => days \div 7 = ((pivot + prev) - 1) \div 7
        /\ ~Shift(fw, w) => days >= 52 * 7
    BY <1>2, <1>3, <1>4, <1>9, <2>1, <2>2, FirstWeek, SMTT(30), Zenon DEF pivot
  <2>4. pivot \in Int
    BY <1>2, <1>3, <1>4, SMTT(30), Zenon DEF pivot, Pivot
  <2>5. CASE Shift(fw, w)
    BY <1>7, <1>8, <1>9, <2>1, <2>3, <2>5, SMTT(30), Zenon
  <2>6. CASE ~Shift(fw, w)
    <3>1. WeekOf(b) = [week |-> 1, year |-> y]
      BY <1>4, <1>7, <2>3, <2>4, <2>6, SMTT(30), Zenon
    <3>2. mc_calc_week(day, b) = [week |-> 1, year |-> y]
      BY <1>1, <1>8, <1>9, <2>1, <2>3, <2>6, SMTT(30), Zenon
    <3> QED
      BY <3>1, <3>2, SMTT(30), Zenon
  <2> QED
    BY <2>5, <2>6, Zenon
<1>10. CASE ~firstWeek
  <2>1. /\ year = y /\ days = Days(fw, w, doy - 1)
        /\ next = (w + DaysOfYear(y)) % 7
    BY <1>1, <1>3, <1>4, <1>5, <1>10, SMTT(30), Zenon DEF days
  <2> HIDE DEF year, next
  <2>2. doy + w > 7
    BY <1>3, <1>4, <1>6, <1>10, SMTT(30), Zenon
  <2>3. /\ pivot >= 1
        /\ days \div 7 = (pivot - 1) \div 7
        /\ pivot > DaysOfYear(y) <=> days >= 52 * 7 /\ ~Shift(fw, next)
    <3>1. DaysOfYear(y) \in YearLengths
      BY <1>4, ZenonT(30) DEF YearLengths
    <3>2. CountedLater(fw, w, DaysOfYear(y), doy)
      BY <1>2, <1>3, <2>2, <3>1, LaterWeek, Zenon
    <3> QED
      BY <2>1, <3>2, Zenon DEF CountedLater, pivot
  <2>4. pivot \in Int
    BY <1>2, <1>3, <1>4 DEF pivot, Pivot
  <2> QED
    BY <1>7, <1>8, <1>10, <2>1, <2>3, <2>4, SMTT(30), Zenon
<1> QED
  BY <1>9, <1>10, SMTT(30), Zenon

(* mc_week_mode gives a mode the flags of the documented table. *)
LEMMA ModeFlags ==
    ASSUME NEW mode \in 0 .. 7
    PROVE  mc_week_mode(mode) = Behaviour(mode)
<1>1. mode % 8 = mode
  OBVIOUS
<1>2. \A f : f \in Flags(mode) <=> \/ f = 1 /\ mode \in {1, 3, 5, 7}
                                   \/ f = 2 /\ mode \in {2, 3, 6, 7}
                                   \/ f = 4 /\ mode \in {4, 5, 6, 7}
  BY DEF Flags
<1>3. \A f : f \in mc_week_mode(mode) <=> \/ f = 1 /\ mode \in {1, 3, 5, 7}
                                          \/ f = 2 /\ mode \in {2, 3, 6, 7}
                                          \/ f = 4 /\ mode \in {0, 2, 5, 7}
  BY <1>1, <1>2 DEF mc_week_mode, MC_WEEK_MONDAY_FIRST, MC_WEEK_FIRST_WEEKDAY
<1>4. \A f : f \in Behaviour(mode) <=> \/ f = 1 /\ mode \in {1, 3, 5, 7}
                                       \/ f = 2 /\ mode \in {2, 3, 6, 7}
                                       \/ f = 4 /\ mode \in {0, 2, 5, 7}
  BY Zenon DEF Behaviour, MC_WEEK_MONDAY_FIRST, MC_WEEK_YEAR, MC_WEEK_FIRST_WEEKDAY
<1>5. \A f : f \in mc_week_mode(mode) <=> f \in Behaviour(mode)
  BY <1>3, <1>4, Zenon
<1> QED
  BY <1>5, Zenon DEF mc_week_mode, Behaviour, Flags

LEMMA CalendarWeeks == OnCalendar(day) => WeeksAreCounted
<1> SUFFICES ASSUME OnCalendar(day) PROVE WeeksAreCounted
  BY Zenon
<1> DEFINE daynr == mc_calc_daynr(day.y, day.m, day.d)
<1>1. daynr = to_days_date_func(day.epoch)
  BY DayFacts, Zenon
<1>2. mc_calc_weekday(daynr, FALSE) = weekday_date_func(day.iso)
  BY DayFacts, Zenon DEF weekday_date_func
<1>3. mc_calc_weekday(daynr, TRUE) = dayofweek_date_func(day.iso) - 1
  <2>1. day.iso \in 1 .. 7 /\ mc_calc_weekday(daynr, TRUE) = day.iso % 7
    BY DayFacts, Zenon
  <2>2. dayofweek_date_func(day.iso) - 1 = day.iso % 7
    BY <2>1 DEF dayofweek_date_func
  <2> QED
    BY <2>1, <2>2, Zenon
<1>4. ASSUME NEW mode \in 0 .. 7
      PROVE  week_2arg_date_func(day, mode) = WeekOf(Behaviour(mode)).week
  BY ModeFlags, WeekIsCounted, Zenon DEF week_2arg_date_func
<1>5. ASSUME NEW mode \in 0 .. 7
      PROVE  LET yearWeek == WeekOf(Behaviour(mode) \cup {MC_WEEK_YEAR})
             IN yearweek_2arg_date_func(day, mode) = yearWeek.week + 100 * yearWeek.year
  <2> DEFINE yearWeek == WeekOf(Behaviour(mode) \cup {MC_WEEK_YEAR})
  <2>1. yearweek_2arg_date_func(day, mode) = yearWeek.week + yearWeek.year * 100
    BY ModeFlags, WeekIsCounted, ZenonT(30) DEF yearweek_2arg_date_func
  <2>2. yearWeek.year \in Int
    BY DEF OnCalendar, WeekOf
  <2> HIDE DEF yearWeek
  <2>3. yearWeek.year * 100 = 100 * yearWeek.year
    BY <2>2
  <2>4. yearweek_2arg_date_func(day, mode) = yearWeek.week + 100 * yearWeek.year
    BY <2>1, <2>3, Zenon
  <2> QED
    BY <2>4, Zenon DEF yearWeek
<1> QED
  BY <1>1, <1>2, <1>3, <1>4, <1>5, Zenon DEF WeeksAreCounted

(* WEEK and YEARWEEK agree with the calendar in every mode, and so do TO_DAYS,
   WEEKDAY and DAYOFWEEK, on every day that is reached from a day of the
   calendar, however far. *)
THEOREM WeeksAlwaysCounted == CalendarSpec => []WeeksAreCounted
<1>1. CalendarInit => OnCalendar(day)
  BY StartsAssumption, Zenon DEF CalendarInit
<1>2. OnCalendar(day) /\ [NextDay]_<<day, walked>> => OnCalendar(day)'
  <2> SUFFICES ASSUME OnCalendar(day), [NextDay]_<<day, walked>> PROVE OnCalendar(day')
    BY Zenon
  <2>1. CASE NextDay
    BY <2>1, NextDayOnCalendar, Zenon
  <2>2. CASE day' = day
    BY <2>2, Zenon
  <2> QED
    BY <2>1, <2>2, Zenon
<1> QED
  BY <1>1, <1>2, CalendarWeeks, PTL DEF CalendarSpec

---------------------------------------------------------------------------
(* Times *)

LEMMA Division ==
    ASSUME NEW n \in Nat \ {0}, NEW a \in Int
    PROVE  /\ a \div n \in Int /\ a % n \in 0 .. n - 1
           /\ a = n * (a \div n) + (a % n)
  OBVIOUS

(* Two times of day that differ by whole days are one. *)
LEMMA OneTime ==
    ASSUME NEW n \in Nat \ {0}, NEW s \in 0 .. n - 1, NEW t \in 0 .. n - 1,
           NEW k \in Int, s = t + n * k
    PROVE  s = t
<1>1. CASE k >= 1
  <2>1. n * k >= n
    BY <1>1
  <2> QED
    BY <2>1
<1>2. CASE k <= -1
  <2>1. n * k <= -n
    BY <1>2
  <2> QED
    BY <2>1
<1>3. CASE k = 0
  BY <1>3
<1> QED
  BY <1>1, <1>2, <1>3, SMTT(30), Zenon

LEMMA WholeDays ==
    ASSUME NEW n \in Nat \ {0}, NEW k \in Int
    PROVE  (n * k) % n = 0
<1> DEFINE a == n * k
           q == a \div n
<1>1. a \in Int
  OBVIOUS
<1>2. q \in Int /\ a % n \in 0 .. n - 1 /\ a = n * q + (a % n)
  BY <1>1, Division, Zenon
<1>3. a % n = 0 + n * (k - q)
  BY <1>2
<1> HIDE DEF a, q
<1>4. 0 \in 0 .. n - 1 /\ k - q \in Int
  BY <1>2
<1>5. a % n = 0
  BY <1>2, <1>3, <1>4, OneTime, SMTT(30), Zenon
<1> QED
  BY <1>5, Zenon DEF a

(* C's remainder differs from its dividend by whole days. *)
LEMMA RemFacts ==
    ASSUME NEW n \in Nat \ {0}, NEW r \in Int
    PROVE  /\ Rem(r, n) \in Int /\ -n < Rem(r, n) /\ Rem(r, n) < n
           /\ r >= 0 => Rem(r, n) >= 0
           /\ \E k \in Int : Rem(r, n) = r + n * k
<1>1. CASE r >= 0
  <2>1. r \div n \in Int /\ r % n \in 0 .. n - 1 /\ r = n * (r \div n) + (r % n)
    BY Division, Zenon
  <2>2. Rem(r, n) = r % n
    BY <1>1, Zenon DEF Rem
  <2>3. -(r \div n) \in Int /\ r % n = r + n * (-(r \div n))
    BY <2>1
  <2>4. \E k \in Int : Rem(r, n) = r + n * k
    BY <2>2, <2>3, Zenon
  <2>5. Rem(r, n) \in Int /\ -n < Rem(r, n) /\ Rem(r, n) < n /\ Rem(r, n) >= 0
    BY <2>1, <2>2
  <2> QED
    BY <2>4, <2>5, Zenon
<1>2. CASE ~(r >= 0)
  <2> DEFINE m == -r
  <2>1. m \in Int
    OBVIOUS
  <2>2. m \div n \in Int /\ m % n \in 0 .. n - 1 /\ m = n * (m \div n) + (m % n)
    BY <2>1, Division, Zenon
  <2>3. Rem(r, n) = -(m % n)
    BY <1>2, Zenon DEF Rem
  <2>4. -(m % n) = r + n * (m \div n)
    BY <2>2
  <2>5. \E k \in Int : Rem(r, n) = r + n * k
    BY <2>2, <2>3, <2>4, Zenon
  <2>6. Rem(r, n) \in Int /\ -n < Rem(r, n) /\ Rem(r, n) < n
    BY <2>2, <2>3
  <2> QED
    BY <1>2, <2>5, <2>6, Zenon
<1> QED
  BY <1>1, <1>2, Zenon

LEMMA WrapFacts ==
    ASSUME NEW r \in Int
    PROVE  WrapDay(r) \in 0 .. DayUs - 1 /\ \E k \in Int : WrapDay(r) = r + DayUs * k
<1>1. DayUs \in Nat \ {0}
  BY DayAssumption, Zenon
<1> DEFINE p == Rem(r, DayUs)
           q == Rem(p + DayUs, DayUs)
<1>2. p \in Int /\ -DayUs < p /\ \E i \in Int : p = r + DayUs * i
  BY <1>1, RemFacts, Zenon
<1>3. PICK i \in Int : p = r + DayUs * i
  BY <1>2, Zenon
<1> HIDE DEF p
<1>4. p + DayUs \in Int /\ p + DayUs >= 0
  BY <1>1, <1>2
<1>5. q \in Int /\ q < DayUs /\ q >= 0 /\ \E j \in Int : q = p + DayUs + DayUs * j
  BY <1>1, <1>4, RemFacts, Zenon
<1>6. PICK j \in Int : q = p + DayUs + DayUs * j
  BY <1>5, Zenon
<1> HIDE DEF q
<1>7. i + 1 + j \in Int /\ q = r + DayUs * (i + 1 + j)
  BY <1>1, <1>3, <1>6
<1>8. WrapDay(r) = q
  BY Zenon DEF WrapDay, p, q
<1> QED
  BY <1>1, <1>5, <1>7, <1>8

(* ADDTIME and SUBTIME: for every time of day and every interval the sum is a
   time of day, whole days from the sum of the two, and SUBTIME undoes
   ADDTIME. *)
THEOREM ClockAlwaysWraps == \A t \in 0 .. DayUs - 1, us \in Int : ClockWraps(t, us)
<1> SUFFICES ASSUME NEW t \in 0 .. DayUs - 1, NEW us \in Int PROVE ClockWraps(t, us)
  BY Zenon
<1>1. DayUs \in Nat \ {0}
  BY DayAssumption, Zenon
<1> DEFINE sum == WrapDay(t + us)
           back == WrapDay(sum - us)
<1>2. t \in Int /\ t + us \in Int
  BY <1>1
<1>3. sum \in 0 .. DayUs - 1 /\ \E k \in Int : sum = t + us + DayUs * k
  BY <1>2, WrapFacts, Zenon
<1>4. PICK k \in Int : sum = t + us + DayUs * k
  BY <1>3, Zenon
<1> HIDE DEF sum
<1>5. sum - us \in Int /\ sum - (t + us) = DayUs * k
  BY <1>1, <1>2, <1>3, <1>4, SMTT(30), Zenon
<1>6. back \in 0 .. DayUs - 1 /\ \E j \in Int : back = sum - us + DayUs * j
  BY <1>5, WrapFacts, SMTT(30), Zenon
<1>7. PICK j \in Int : back = sum - us + DayUs * j
  BY <1>6, SMTT(30), Zenon
<1> HIDE DEF back
<1>8. k + j \in Int /\ back = t + DayUs * (k + j)
  BY <1>1, <1>2, <1>3, <1>4, <1>7, SMTT(30), Zenon
<1>9. back = t
  BY <1>1, <1>6, <1>8, OneTime, SMTT(30), Zenon
<1>10. (sum - (t + us)) % DayUs = 0
  BY <1>1, <1>5, WholeDays, Zenon
<1> QED
  BY <1>3, <1>9, <1>10, Zenon DEF ClockWraps, addtime, subtime, sum, back

=============================================================================

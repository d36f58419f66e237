# A TLA+ model of the DuckDB storage engine for MariaDB

The engine (`src/`) is a MariaDB handler plugin around an embedded DuckDB. This
directory holds TLA+ modules for its parts, TLC configurations that check them
on small instances, and TLAPS proofs of their main invariants. `PROJECT.json`
maps every definition to the source lines it stands for, and lists runs,
mutants, findings, hazards and theorems.

## The system

| Part | Source | State it keeps | Modules |
|---|---|---|---|
| Row DML and transactions | `ha_duckdb.cc`, `runtime/delta_appender.*`, `runtime/duckdb_context.*` | batch state, one `DeltaAppender` per table, the DuckDB transaction | SessionTables, BatchDml |
| AUTO_INCREMENT | `ha_duckdb.cc`, `ha_duckdb.h` | `Duckdb_share::autoinc_range`, the refill mutex, a DuckDB sequence | AutoInc, Catalog |
| KILL | `runtime/duckdb_context.cc`, `runtime/duckdb_query.cc`, `ha_duckdb_pushdown.cc` | `m_interruptible`, the stream, DuckDB's pending interrupt | KillWindow |
| Session configuration | `runtime/duckdb_context.cc`, `runtime/duckdb_query.cc` | cached schema and settings; the connection's own | SessionConfig |
| Select pushdown, cross-engine scan | `ha_duckdb_pushdown.cc`, `runtime/cross_engine_scan.*`, `runtime/fiber_scan.*` | thread-local table registry, a fiber with its own THD per scan | CrossEngine |
| DDL | `ha_duckdb.cc`, `convertor/ddl_convertor.*` | DuckDB's catalog, sequences, MariaDB's dictionary | Catalog |
| ALTER TABLE | `ha_duckdb.cc`, `convertor/ddl_convertor.*` | DuckDB's columns, MariaDB's definition | AlterTable |
| SQL text scanner | `runtime/duckdb_query.cc`, `ha_duckdb_pushdown.cc` | none | SqlText |
| MySQL compatibility functions | `runtime/duckdb_mysql_compat.cc` | none | MysqlCalendar, MysqlCompat |
| Manager, global configuration, types | `runtime/duckdb_manager.*`, `runtime/duckdb_config.cc`, `common/` | the one DuckDB instance | not modelled |

All parts of a session meet in its `DuckdbThdContext`, which owns the DuckDB
connection. Sessions meet in the `Duckdb_share` of a table, in DuckDB itself,
and when one kills another.

## Modules

**SessionTables** is the abstract specification of the DML component: keyed
tables, a view per transaction, COMMIT or ROLLBACK. `doomed` stands for a
transaction that DuckDB has invalidated.

**BatchDml** is the code. `batch_state`, `appenders` and `dml_in_batch` are the
variables of those names; `base` is the session's DuckDB transaction,
`committed` what others see, `aborted` DuckDB's invalidation of a transaction
after a runtime error, `reply` the last answer. Each row operation is one
action for the path that succeeds, one for an append that fails and falls back
to SQL, and `RowFails` for the errors; `Rejected` is every operation refused
before it reaches the batch. An appender is a record with the fields
of `DeltaAppender`; `incomplete` and `dropped` record what the code leaves in
the duckdb appender after an error and in the catalog after a flush. A table is
a set of (key, value) rows, because DuckDB tables have no key constraint; exact
copies of a row are not counted. Statement-level commit and rollback inside a
multi-statement transaction return at once in the code and are stutters.
`Abstract` instantiates SessionTables with the refinement mapping: the view of a
transaction is what a flush of all its appenders would leave.

**AutoInc** has one action per step of `get_auto_increment` that another thread
can come between: the load, the CAS, the mutex, each `nextval` of the refill
query, the store. `nextval` is a writer inside DuckDB.

**KillWindow** follows a session through SELECT, COMMIT and disconnect, and
killing threads through `THD::awake`, `duckdb_kill_query` and `interrupt`. The
methods that lock `m_interrupt_mutex` are single steps.

**SessionConfig** compares the caches with the connection. USE and each SET may
fail by itself after its cache entry was written, another session may change a
setting that DuckDB keeps for the whole instance (`OtherSessionSets`), and a new
connection has any values: the preset cache entries say nothing about it.
`foreign` and `adrift` are history variables.

**CrossEngine** follows a pushed-down SELECT over tables of other engines:
`CanPushdown` is the choice of what is pushed down, `InitScan` the registration
of the external tables by name (`Registered` is the result of
the loop of `register_tables_from_sel` over the `next_global` chain: a round
overwrites what earlier ones registered for the name, so the last one in the
order `Before` decides) and DuckDB's binding
through the replacement scan, `mdb_scan_function` one pull of a chunk in either
mode, `EndScan` and `SkipEndScan` the two ways out, `ResumeKilled`,
`DestroyFiber` and `ResumeFails` the loop of `~FiberScanState` and its two
exits. A TABLE is a reference together
with the number of its statement, so that a pointer left in the registry is
told from the present one. A fiber is its contract: it runs from one yield to
the next, and a switch to it may fail where it is built on `swapcontext`
(`FiberSwitchFails`). `swallowed` and `skipped` are history variables.

**Catalog** has MariaDB's dictionary (`frm`), DuckDB's committed catalog and the
catalog inside the statement's transaction (`work`). The handler calls change
`work` and the dictionary, `Commit` publishes, `CommitIsLost` is a rollback, a
failing COMMIT or a crash before it. DROP DATABASE is one transaction of several
steps: `StartDropDatabase`, `DropNext` or `DropNextFails` for each table and
`duckdb_drop_database`, whose error nobody sees (`doomed`). Ids are drawn by name (`write_row`) or through the
column's default (`InsertInDuckdb`).

**AlterTable** has MariaDB's definition, DuckDB's columns and the statements
that the convertors of `ddl_convertor.cc` produce for an ALTER
(`AddColumnTranslate`, `DropColumnTranslate`, `ChangeColumnTranslate`, ...),
executed in order by `Outcome`. `check_if_supported_inplace_alter` decides
between the in-place path, the copying path and refusal. Between DuckDB's COMMIT
and the new definition the server may stop (`torn`). Defaults are compared as
the code does, by `sortcmp`: `SortKey` says which literals it takes for equal.
History variables record the known exceptions: columns whose type change the
in-place path does not send (`retyped`), and defaults that are frozen at their
value or that the server dropped without calling the handler (`frozen`).

**SqlText**, **MysqlCalendar** (dates and times) and **MysqlCompat** (strings,
digits, intervals) are pure functions; strings are sequences of bytes, as in the
code, and texts are sequences of **Characters**,
which are pairwise different (`CharactersAssumption`, `TokensAssumption`). **CalendarChecks**
enumerates dates, **TextChecks** texts and **FunctionChecks** numbers, strings
and both of the others, and they state what the functions should return, by
references written differently: a calendar that is walked day by day, a lexer
that reads one character at a time.
A word has `WordBits` bits and a second `FracDigits` digits, so that all values
of a word can be enumerated.

`MC*` modules give the instances. `*Proofs` modules hold the theorems:
SessionAndCalendarProofs those of KillWindow, SessionConfig and CalendarChecks
(whose specifications are `KillSpec`, `Spec` and `CalendarSpec`, so that one module
can extend all three), AutoIncAndCatalogProofs those of AutoInc and Catalog (`Spec`
and `CatalogSpec`), AlterColumnsProofs the lemmas that AlterTableProofs rests on,
TextProofs and KeywordProofs those of TextChecks, the others those of the module
they are named after. Operators marked "Mutant" in a module are
deliberate bugs; nothing in the specifications uses them.

External behaviour, modelled from how `src/` uses it: DuckDB invalidates a
transaction after a runtime error and refuses every later statement in it;
ROLLBACK does not fail; USE and SET are not transactional; DDL is, and a
sequence that a default uses cannot be dropped; DuckDB drops a pending interrupt
when a query starts, stops pulling a scan at an empty chunk, and applies no
filter of its own above a scan with filter pushdown; `THD::awake` holds
`LOCK_thd_kill`, and calls the engine with `LOCK_thd_data` held; the server's
metadata locks let one statement at a time change a definition.

## Runs

| Run | Shows | Bounds |
|---|---|---|
| `batch_dml` | with unique keys, batching is invisible: BatchDml implements SessionTables | 1 table, 2 keys, 2 values, 4 rows per appender: enough for insert, update, delete and re-insert of one key beside another, and for a key change |
| `batch_dml_faults` | with failing appends and flushes transactions end clean, and an operation that reports an error in a transaction that goes on changes nothing of what COMMIT publishes, but for one UPDATE (below) | 2 tables, one without primary key, so that a flush can stop between them; row numbers run out at 2; states that differ in the last reply only, which no action reads, are explored once |
| `auto_inc` | ids are unique, the server stays in its block, every call returns | 2 sessions, 2 calls each, a sequence of 5, 2 refill attempts (the code has 3), requests of 1 and 8 (8 * 2 overflows a word of 16) |
| `kill_window` | interrupts hit their SELECT and nothing else; a killed SELECT ends | 2 killing threads, 3 statements, 3 kills: a kill of each statement and one left over |
| `session_config` | the caches go wrong for the stated reasons only | 2 databases, 2 settings (one with a preset cache entry, one shared by all connections), unbounded behaviours |
| `cross_engine` | every reference is bound to its own table and sees exactly the rows of its condition; statements end | 3 statements of 8 shapes (join, LIMIT, UNION, refused ones), chunks of 2 over tables of 4, 5, 3 and no rows: chunks full exactly at the end, partly full and empty |
| `alter_table` | columns, nullability and defaults agree after any sequence of ALTERs | 2 ALTERs of up to 2 clauses of different kinds, on 3 definitions and 3 column names: a swap of names, an ADD of a dropped name; 3 literals, two of them equal for `sortcmp` |
| `catalog` | dictionary and catalog agree, one counter per table, no stranded sequence, unless renamed or a transaction is lost | 3 names, 5 DDL statements, ids up to 3: create, rename, create again, rename back, drop the table or the database |
| `functions` | scanner and functions agree with their references | 60 years of dates around 1900 and 2000, with every pair of first weekday and length of the year, in 8 modes; texts of up to 6 bytes over 11 alphabets, five of them with an escape letter of JSON and its control character; all words of 8 bits |

Three runs refute a statement of the documentation or of a test:

| Run | Statement | What happens |
|---|---|---|
| `batch_dml_fallback` | delete followed by insert keeps the insert | after a fallback to SQL, an older delete marker is flushed over the new row |
| `cross_engine_filters` | each external table is registered with its own predicate | in a UNION the first select's round goes on along `next_global` to the second select's table, which has the same table map bit, and registers what its own WHERE says of the first table; the fiber runs it |
| `cross_engine_cursor` | a handler scan is finished before its table is closed | a LIMIT drops a direct scan before `ha_rnd_next` reports the end, and nothing else calls `ha_rnd_end` |

Other places where the code does less than one may expect are exceptions that
the passing properties name, or inputs that the instances leave out:

- a mixed batch that inserts a key the table already holds, without a delete in
  the batch, leaves the key twice (`delta_appender.cc:528`); `batch_dml` assumes
  that clients insert free keys;
- an UPDATE whose new row version cannot be appended, and whose UPDATE statement
  then fails too, leaves its delete marker in the batch: it reports an error, and
  COMMIT deletes the row (`delta_appender.cc:143-151`). `FailedStepKeepsView`
  excepts it by name (`UpdateDeletesRow`);
- with batching on, a pushed-down SELECT does not see the batched rows of its own
  transaction; the tutorials say so (`docs/tutorials/owid-co2-emissions.md:110-112`,
  `nyc-taxi-trips.md:117-119`), and no property speaks of it;
- the destructor closes the interrupt window before the stream goes
  (`ha_duckdb_pushdown.cc:458`); nothing waits for rows in that state;
- the schema cache misses the USE of other statements (`SchemaStaleOnlyAfterUse`).
  A setting differs from the session variable when its SET failed after it was
  cached, when another session has changed a setting that DuckDB keeps for the
  instance (`disabled_optimizers`), or when its cache entry is preset and the
  variable never changed (`merge_join_threshold`, `duckdb_context.h:188`): that
  value is never sent (`SettingStaleOnlyIfAdrift`);
- a scan takes an error of the other engine for the end of the table
  (`swallowed`), and a skipped `end_scan` leaves its registry entries behind
  (`skipped`);
- when `create_background_thd` fails, `FiberScanState::init` frees the fiber's
  stack and the destructor frees it again (`fiber_scan.cc:188` and `243`); when a
  resume fails, the destructor frees the stack of a fiber that is still suspended
  (`222-224`). Both are modelled (`FailedInit`, `ResumeFails`), and no property
  depends on them;
- with `duckdb_cross_engine_ryow` two references of one table would share a
  handler cursor; the instances name a table once in that mode;
- an in-place ALTER does not send some type changes, and a column added with an
  expression keeps the value of that moment;
- SET DEFAULT 'ABC' over 'abc' sends nothing, because `sortcmp` takes the two for
  equal (`ddl_convertor.cc:1150`); `DefaultsAgree` compares as the code does;
- ALTER COLUMN DROP DEFAULT is translated if it reaches the handler, but the
  server may carry it out by itself. The documentation says that it is not
  propagated (`README.md:162`, `mysql-test/duckdb/disabled.def:1`), with the
  reason "MariaDB metadata-only, handler not called"
  (`docs/disabled-tests-plan.md:155`). `DropDefaultUnseen` is that case, and
  `DefaultsAgree` excepts its columns;
- DROP PRIMARY KEY is let through with `duckdb_require_primary_key` on:
  `check_if_supported_inplace_alter` looks at the old table's key only and
  `DropColumnConvertor::check` at dropped columns only.
  `mysql-test/duckdb/include/alter_duckdb_index.inc:76-82` expects
  ER_REQUIRES_PRIMARY_KEY; its test is disabled. AlterTable models the code, and
  no property speaks of the key;
- a rename leaves the AUTO_INCREMENT sequence under the old name (`moved`), and a
  DROP SCHEMA that fails for it can take the table drops of its transaction with
  it, after MariaDB has dropped the database (`lost`);
- LOCATE counts bytes where MariaDB counts characters, so the positions differ
  behind multi-byte characters, and LOCATE('', s, pos) is pos also past the end
  of s, where MariaDB returns 0 (`duckdb_mysql_compat.cc:961`);
- two quoted names that touch, in different quotes, are merged by the identifier
  rewriting (excluded by `IdentifiersKeepNames`); `find_in_code` knows no `#`
  comment, takes every `--` for one, and lets a backslash escape in both kinds of
  quotes whatever the sql_mode (`ha_duckdb_pushdown.cc:515`, `531`), so that with
  NO_BACKSLASH_ESCAPES, or in a double-quoted name with ANSI_QUOTES, a region may
  end later for it than for MariaDB. `KeywordsAreFoundInCode` speaks of every
  sql_mode and excludes such texts;
- `extract_source_query` passes its flag for backslash escapes to the scanner for
  every kind of quote (`ha_duckdb_pushdown.cc:262`), so a backslash before the
  quote that ends a name hides the end of the name. `SourceQueryIsTopLevel`
  excludes texts with a backslash in a name: a text of ten characters would
  violate it otherwise.

Deadlock checking is off where a bound on calls, statements or inputs runs out
(all but BatchDml and SessionConfig). Catalog and AlterTable also stop after a
lost COMMIT or a crash that leaves the two sides apart.

Fairness: `AutoInc!FairSpec` has weak fairness on each session's steps inside a
call, i.e. the operating system runs every runnable thread. `KillWindow!FairSpec`
has it for the session's own steps and the killing threads, and not for
`next_row` or `LastRow`: DuckDB may compute without end, and only the interrupt
ends it. `CrossEngine!FairSpec` has it for the steps of a statement that has
started, as a whole: the session's thread keeps running, and which scan DuckDB
pulls next is free.

## Proofs

All constants are arbitrary, subject to the named ASSUMEs of each module.

- **BatchDml**: `BatchInv` is the type invariant, `BatchStateMatchesAppenders`
  and `IdleSessionIsClean`. The proof has a step per action; what matters is
  that every path that leaves a transaction resets all four pieces of state,
  and that the kind of a new appender comes from the batch state.
  `FailedStepKeepsView` is proved for every action that can report an error. A
  flushed appender adds nothing to its table a second time (`FlushedIsEmpty`), so
  a flush that stops half-way leaves the view alone. A failed append may set
  `has_delete` without having appended a marker, so that the flush deletes the
  keys of the whole batch from the table; `KeysInv` says that it finds none: until
  the first marker every row of the batch has a key of its own that the table has
  not, if the client keeps its keys unique.
- **AutoInc**: uniqueness is not inductive. `IdInv` adds that the refill mutex
  is the refill (`MutexIsRefill`), that all ids claimed, cached or drawn lie
  below the sequence, and that the values of a refill in progress lie above the
  cached block and, unless there is a gap between them, belong to nobody else.
  So the claims made during the refill cannot touch them. `ServerStaysInBlock`
  rests on `BlockInv`: the division in `get_auto_increment` notices every
  overflow of `nb * increment`, so an accepted request claims at least that many
  ids, and the server's round-up skips less than one increment of them.
- **KillWindow**: `KillInv` adds where the window is open, that a pending
  interrupt implies an open window and a kill, who holds `LOCK_thd_kill`, that a
  session inside a statement has its context published, and that from
  `interrupt_if_killed` on a kill that was made is pending.
- **SessionConfig**: `ConfigInv` adds that cache and connection agree unless the
  history variables say otherwise; nothing is assumed of the values a connection
  starts with, or of which SETs fail together.
- **Catalog**: all five properties. They speak of the committed catalog between
  statements, where the dictionary is not yet ahead of it, so `CatalogInv` says
  the same of the transaction's catalog during a statement, and that the rows of
  a table lie below its counter. One lemma per statement (`CreateFits`,
  `DropFits`, ...) shows that it turns a catalog that fits the dictionary into
  one that fits the new dictionary; names touched by a rename are exempt from
  the part about counters.
- **AlterTable** (`AlterColumnsProofs`, `AlterTableProofs`): both
  properties, for any definition MariaDB accepts, any set of ALTERs and any
  number of them. `AlterInv` says that DuckDB fits MariaDB's definition while
  nothing is under way, and between the COMMIT and the installation the
  definition about to be installed. Where the types and defaults may differ
  (`retyped`, `frozen`) is part of it. The in-place path is the whole of the
  work. The list of statements is cut where one convertor ends and the next
  begins (`Phases`), and each part has a lemma that says what it does to the
  columns if no statement of it fails: `AddPart`, `DropPart`, `RenamePart` and so
  on; a part whose statements change columns in place is covered by `Updated`,
  for any set of columns and any one statement per column. Two arguments are not
  about one part. When the server has lost the drop list,
  `DropColumnConvertor` takes for dropped every old column that is neither
  changed nor found by name in the new table, which is wrong if the ALTER adds a
  column of a dropped name. `GoneIsDropped` shows that such an ALTER fails: its
  ADD COLUMN, or its RENAME COLUMN, meets the old column. And defaults agree up to
  `SameDefault`, which has to be carried along a chain of ALTERs (`SameChain`).
  The ASSUMEs say that a default is of one kind, that literals have sort keys,
  that ALTERs have their fields, and that the tables to start with are well
  formed.
- **BatchDml implements SessionTables** (`BatchDmlProofs`, second part). The mapping
  flushes the appenders in thought, so the proof needs that the flush of an
  appender with one more row is the flush without it, followed by that row
  operation (`AppendInsertFlush`, `AppendDeleteFlush`, ...). That is false of
  some appenders: a flush deletes nothing until the batch has seen a delete
  marker, so a row of the table with the key of a pending insert would survive
  beside it. `PendingInv` excludes them: row numbers are those given out, an
  appender without an insert holds only markers, and one without a delete shares
  no key with its table. The hypotheses are those of the run `batch_dml`: clients
  insert free keys (`UniqueKeys`; in a mixed batch the code relies on it), tables
  have a primary key and appends do not fail (`batch_dml_fallback` shows that the
  refinement is false otherwise). `KeysStayUnique` follows from the refinement;
  `StatementsFollowPending` from `OrderInv`.
- **CrossEngine**: all three safety properties of the passing run. `FiberInv`: a
  scan that is still pulled has a live fiber. `RegistryInv`: the registry
  is empty between statements and is what `Registered` makes of an empty one
  during them, and a reference is bound to the last reference of its name.
  `ReadInv`: a scan has delivered a prefix of its rows and its fiber or its
  cursor stands right behind it; without an error, a finished scan has delivered
  them all. `ExactResults` also needs that the rows a condition keeps of a
  prefix are a prefix of the rows it keeps (`KeptGrows`, `KeptOfPrefix`). It has
  two hypotheses on the statements. `NamesOnce`: two references of one name share a TABLE, hence
  in direct mode a cursor. `FiltersOwn`: the WHERE registered for a name is that
  of its reference; `JoinRegistersOwnFilters` proves it of all statements of one
  SELECT that name no external table twice, and `cross_engine_filters` shows a
  UNION for which it fails.
- **CalendarChecks** (`SessionAndCalendarProofs`). `WeeksAlwaysCounted`: the inductive
  invariant `OnCalendar` gives a day its day of the year, its distance from 1970
  and its weekday in closed form; `NextDayOnCalendar` shows that walking a day
  keeps it, `Daynr` that the code's formula counts the same days, and `FirstWeek`
  and `LaterWeek` follow the branches of `mc_calc_week`. Years start at 2, since
  the days of the year 1 may be in a week of the year 0, which the code, as the
  server, takes for a common one; that the starts of the calendars are days of
  the calendar (`StartsAssumption`) is evaluated by TLC. `ClockAlwaysWraps`:
  ADDTIME and SUBTIME, for every length of a day, time and interval.
- **TextChecks** (`TextProofs`, `KeywordProofs`). `QuotesAlwaysReadAlike`, for texts of every length
  and over every alphabet, in every SQL mode: a query that
  `mariadb_query_has_unsafe_quote_escape` lets through has its quoted regions and
  comments at the same places for a lexer that reads backslash escapes and for
  one that does not. The check jumps from region to region and the lexers read
  character by character, so the proof relates the two. `Begins` says that a
  lexer is in code and no comment is half open; `CommentRead` and `QuotedRead` say
  that from there a region of `scan_sql_region` is exactly what the lexer reads as
  one, for either kind of quote and with or without escapes. `Aligned`, the
  invariant of the check's loop, says that both lexers begin at its position, in
  the same state, and agree on everything before it; `CheckStep` carries it over one
  jump. A region in which the two dialects would end at different places is one
  where the two calls of `scan_sql_region` differ, and the check reports it.

  `KeywordsAlwaysFoundInCode` and `SourceQueryAlwaysTopLevel` (`KeywordProofs`) say
  what the searches built on the scanner find, again for every length, alphabet and
  sql_mode, with the exceptions that the properties name. `find_in_code` has one
  rule for backslashes; `PlainStringsRead` shows that without the excepted
  backslashes MariaDB's lexer reads the text by that rule in every mode. For
  `find_in_code` and `rfind_in_code` the invariant is again that the lexer begins
  at the search's position, and that no match in code lies between the start and
  it: `FindStep` carries it over one step of the loop, `FindReads` gives the first
  match and `LastReads` the last one before a limit. For `extract_source_query`
  the invariant is `Known`: as many more opening than closing parentheses of code
  lie before the position as `depth` says, and no SELECT or WITH outside
  parentheses does. `KnownAfterRegion` and `KnownAfterChar` carry it over a region
  and over a character. The parentheses are counted by cardinalities of sets in
  the property and one by one in the code; `CountSame` and `CountMore` relate the
  two.

What a recursive function computes is proved by a least counterexample: the
library's induction theorems take an operator and cannot be used, but that a
non-empty set of naturals has a least element (`Least`) takes a set. That such a
function exists at all, so that its defining equation can be used, is shown by
`JumpsExist` for every function whose value at a position is given or is its value
at a later position; the scanner's loops are of that form. `PathsExist` does the same
for a loop that carries a second value along, the last match or the depth.

Only model-checked: `StringFunctionsAgree`, `DigitsAreValue` and the parsing of
intervals in `TimesWrap`, whose references build their results by recursion over
sequences of characters or digits; `IdentifiersKeepNames`, which compares the
tokens of a text with those of a rewritten one;
and the liveness properties (fairness and ENABLED are beyond the prover).

## Not modelled

- The rewriting of MariaDB syntax in `init_scan` (ROLLUP, CONVERT, STRAIGHT_JOIN,
  hints, LIMIT): text to text, with DuckDB's parser as the only judge. The
  keyword search it is built on is in SqlText.
- OCT of 128-bit numbers, whose buffer size is computed in an unsigned type that
  wraps, and REGEXP, JSON_CONTAINS and the length functions, which call
  libraries of DuckDB.
- Type names, charsets, and the conversion of values between MariaDB fields and
  DuckDB vectors: tables and formats without state.
- The stack switching of `fiber_context.cc` (assembler) beyond its contract.
- The DuckDB instance manager and the global configuration callbacks: run once,
  or one SET on a connection of its own.
- Logging, status counters, EXPLAIN output, the binary log and the server's
  two-phase commit (the documentation states that the engine is not crash-safe),
  and DuckDB's internals.

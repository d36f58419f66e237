------------------------------ MODULE SqlText ------------------------------
(***************************************************************************)
(* The SQL text forwarded to DuckDB: the scanner of quoted and comment     *)
(* regions, the check that MariaDB and DuckDB see the same string          *)
(* literals, the rewriting of backtick identifiers, the search for         *)
(* keywords outside regions and the extraction of the query of             *)
(* INSERT ... SELECT.  A text is a sequence of characters; a word is one   *)
(* character.                                                              *)
(***************************************************************************)
EXTENDS Integers, Sequences, Characters

(* sql_mode: do backslashes escape, are double quotes for identifiers *)
SqlModes == [backslash_escapes : BOOLEAN, ansi_quotes : BOOLEAN]

Quotes == {Squote, Dquote, Btick}

At(sql, i, c) == i \in DOMAIN sql /\ sql[i] = c

(* The least position of a set, or a default. *)
LeastOr(S, default) ==
    IF S = {} THEN default ELSE CHOOSE i \in S : \A j \in S : i <= j

---------------------------------------------------------------------------
(* scan_sql_region: the kind of region that starts at a position, and the
   position after it *)

BlockComment(sql, start) ==
    LET close == LeastOr({j \in start + 2 .. Len(sql) - 1 :
                            sql[j] = Star /\ sql[j + 1] = Slash}, 0)
    IN IF close = 0 THEN [type |-> "UNTERMINATED", end |-> Len(sql) + 1]
       ELSE [type |-> "COMMENT", end |-> close + 2]

LineComment(sql, start) ==
    [type |-> "COMMENT",
     end |-> LeastOr({j \in start + 1 .. Len(sql) : sql[j] = Newline}, Len(sql)) + 1]

QuotedRegion(sql, start, backslash_escapes) ==
    LET close[i \in start + 1 .. Len(sql) + 2] ==
            IF i > Len(sql) THEN 0
            ELSE IF sql[i] = Backslash /\ backslash_escapes /\ i < Len(sql)
            THEN close[i + 2]
            ELSE IF sql[i] # sql[start] THEN close[i + 1]
            ELSE IF At(sql, i + 1, sql[start]) THEN close[i + 2]
            ELSE i
    IN IF close[start + 1] = 0 THEN [type |-> "UNTERMINATED", end |-> Len(sql) + 1]
       ELSE [type |-> "QUOTED", end |-> close[start + 1] + 1]

scan_sql_region(sql, start, backslash_escapes) ==
    IF start > Len(sql) THEN [type |-> "NONE", end |-> start]
    ELSE IF At(sql, start, Slash) /\ At(sql, start + 1, Star) THEN BlockComment(sql, start)
    ELSE IF \/ sql[start] = Hash
            \/ /\ At(sql, start, Dash) /\ At(sql, start + 1, Dash)
               /\ start + 2 > Len(sql) \/ sql[start + 2] \in {Space, Newline}
    THEN LineComment(sql, start)
    ELSE IF sql[start] \in Quotes THEN QuotedRegion(sql, start, backslash_escapes)
    ELSE [type |-> "NONE", end |-> start]

(* Mutant: only single-quoted literals are compared. *)
UnsafeQuoteEscapeSingle(sql, mode) ==
    LET unsafe[i \in 1 .. Len(sql) + 1] ==
            LET duckdb == scan_sql_region(sql, i, FALSE)
            IN IF i > Len(sql) THEN FALSE
               ELSE IF duckdb.type = "COMMENT" THEN unsafe[duckdb.end]
               ELSE IF sql[i] = Squote
               THEN \/ scan_sql_region(sql, i, TRUE) # duckdb
                    \/ unsafe[duckdb.end]
               ELSE IF duckdb.type = "NONE" THEN unsafe[i + 1]
               ELSE duckdb.type = "UNTERMINATED" \/ unsafe[duckdb.end]
    IN mode.backslash_escapes /\ unsafe[1]

(* Some string literal ends elsewhere when backslashes escape. *)
mariadb_query_has_unsafe_quote_escape(sql, mode) ==
    LET unsafe[i \in 1 .. Len(sql) + 1] ==
            LET duckdb == scan_sql_region(sql, i, FALSE)
            IN IF i > Len(sql) THEN FALSE
               ELSE IF duckdb.type = "COMMENT" THEN unsafe[duckdb.end]
               ELSE IF sql[i] = Squote \/ (sql[i] = Dquote /\ ~mode.ansi_quotes)
               THEN \/ scan_sql_region(sql, i, TRUE) # duckdb
                    \/ unsafe[duckdb.end]
               ELSE IF duckdb.type = "NONE" THEN unsafe[i + 1]
               ELSE duckdb.type = "UNTERMINATED" \/ unsafe[duckdb.end]
    IN mode.backslash_escapes /\ unsafe[1]

---------------------------------------------------------------------------
(* backticks_to_double_quotes *)

(* The inside of a backtick identifier, from i up to the closing quote. *)
RewriteIdentifier(sql, from, end) ==
    LET inside[i \in from .. end] ==
            IF i >= end - 1 THEN <<>>
            ELSE IF sql[i] = Btick /\ i + 2 < end /\ sql[i + 1] = Btick
            THEN <<Btick>> \o inside[i + 2]
            ELSE IF sql[i] = Dquote THEN <<Dquote, Dquote>> \o inside[i + 1]
            ELSE <<sql[i]>> \o inside[i + 1]
    IN <<Dquote>> \o inside[from] \o <<Dquote>>

(* Mutant: every backtick becomes a double quote. *)
backticks_to_double_quotesNaive(sql) ==
    [i \in DOMAIN sql |-> IF sql[i] = Btick THEN Dquote ELSE sql[i]]

backticks_to_double_quotes(sql) ==
    LET out[i \in 1 .. Len(sql) + 1] ==
            LET region == scan_sql_region(sql, i, FALSE)
            IN IF i > Len(sql) THEN <<>>
               ELSE IF region.type = "QUOTED" /\ sql[i] = Btick
               THEN RewriteIdentifier(sql, i + 1, region.end) \o out[region.end]
               ELSE IF region.type # "NONE"
               THEN SubSeq(sql, i, region.end - 1) \o out[region.end]
               ELSE <<sql[i]>> \o out[i + 1]
    IN out[1]

---------------------------------------------------------------------------
(* find_in_code, for a pattern of one character *)

(* The position after a quoted region whose quote is at i - 1; backslashes
   always escape, except in identifiers. *)
SkipQuoted(sql, from, quote) ==
    LET after[i \in from .. Len(sql) + 2] ==
            IF i > Len(sql) THEN i + 1
            ELSE IF sql[i] = Backslash /\ quote # Btick THEN after[i + 2]
            ELSE IF sql[i] # quote THEN after[i + 1]
            ELSE IF At(sql, i + 1, quote) THEN after[i + 2]
            ELSE i + 1
    IN after[from]

(* Every -- starts a comment, # does not. *)
SkipLine(sql, from) ==
    LeastOr({j \in from .. Len(sql) : sql[j] = Newline}, Len(sql) + 1)

SkipBlock(sql, from) ==
    LET close == LeastOr({j \in from .. Len(sql) - 1 :
                            sql[j] = Star /\ sql[j + 1] = Slash}, 0)
    IN IF close # 0 THEN close + 2 ELSE IF from >= Len(sql) THEN from ELSE Len(sql)

(* Mutant: regions are not skipped. *)
find_in_codeEverywhere(sql, pattern, start) ==
    LeastOr({j \in start .. Len(sql) : sql[j] = pattern}, 0)

(* The first match at or after start that is outside regions, or 0. *)
find_in_code(sql, pattern, start) ==
    LET find[i \in start .. Len(sql) + 3] ==
            IF i > Len(sql) THEN 0
            ELSE IF sql[i] \in Quotes THEN find[SkipQuoted(sql, i + 1, sql[i])]
            ELSE IF sql[i] = Dash /\ At(sql, i + 1, Dash) THEN find[SkipLine(sql, i + 2)]
            ELSE IF sql[i] = Slash /\ At(sql, i + 1, Star) THEN find[SkipBlock(sql, i + 2)]
            ELSE IF sql[i] = pattern THEN i
            ELSE find[i + 1]
    IN find[start]

(* The last match at or before a position, or 0; the loop's pos and last are
   the two components of p. *)
rfind_in_code(sql, pattern, before) ==
    LET last[p \in (1 .. Len(sql) + 1) \X (0 .. Len(sql))] ==
            LET next == find_in_code(sql, pattern, p[1])
            IN IF next = 0 \/ next > before THEN p[2] ELSE last[<<next + 1, next>>]
    IN last[<<1, 0>>]

---------------------------------------------------------------------------
(* extract_source_query: where the forwarded query starts, 0 if it cannot be
   forwarded *)

(* Mutant: parentheses are not counted. *)
extract_source_queryFlat(sql, strip_prefix, mode) ==
    IF strip_prefix THEN LeastOr({i \in DOMAIN sql : sql[i] = Select}, 0)
    ELSE IF At(sql, 1, Select) THEN 1 ELSE 0

extract_source_query(sql, strip_prefix, mode) ==
    LET scan[p \in (1 .. Len(sql) + 1) \X Nat] ==
            LET i == p[1]
                depth == p[2]
                region == scan_sql_region(sql, i, mode.backslash_escapes)
                refused == ~strip_prefix /\ depth = 0
            IN IF i > Len(sql) THEN 0
               ELSE IF sql[i] \in {Space, Newline} THEN scan[<<i + 1, depth>>]
               ELSE IF region.type = "UNTERMINATED" THEN 0
               ELSE IF region.type = "COMMENT" THEN scan[<<region.end, depth>>]
               ELSE IF region.type = "QUOTED"
               THEN IF refused THEN 0 ELSE scan[<<region.end, depth>>]
               ELSE IF sql[i] = Lparen
               THEN IF refused THEN 0 ELSE scan[<<i + 1, depth + 1>>]
               ELSE IF sql[i] = Rparen
               THEN IF depth = 0 THEN 0 ELSE scan[<<i + 1, depth - 1>>]
               ELSE IF sql[i] = Select /\ depth = 0
               THEN IF strip_prefix THEN i ELSE 1
               ELSE IF refused THEN 0
               ELSE scan[<<i + 1, depth>>]
    IN IF mariadb_query_has_unsafe_quote_escape(sql, mode) THEN 0 ELSE scan[<<1, 0>>]

=============================================================================

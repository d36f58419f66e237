----------------------------- MODULE TextChecks -----------------------------
(***************************************************************************)
(* The functions of SqlText against a lexer that reads one character at a  *)
(* time, on a text that grows by one character of an alphabet.             *)
(***************************************************************************)
EXTENDS SqlText, FiniteSets

CONSTANTS
    Alphabets,  \* each a set of characters
    MaxText     \* length of the longest text

VARIABLE text

TextInit == text = <<>>

GrowText ==
    /\ Len(text) < MaxText
    /\ \E alphabet \in Alphabets, c \in UNION Alphabets :
         /\ {text[i] : i \in DOMAIN text} \cup {c} \subseteq alphabet
         /\ text' = Append(text, c)

TextSpec == TextInit /\ [][GrowText]_text

---------------------------------------------------------------------------
(* References *)

(* The lexer between two characters: what it is in, the quote of the last
   quoted region, whether a backslash has just been read in one, where the
   present region or code began, and what the last character was. *)
LexerStart ==
    [mode |-> "code", quote |-> Word, escaped |-> FALSE, since |-> 0, class |-> "code"]

(* The lexer after the character at position i.  A backslash escapes in the
   quotes of escaping; a doubled quote closes a region and opens the next. *)
ReadChar(lexer, sql, i, escaping) ==
    LET c == sql[i]
        after(k, x) == i - k > lexer.since /\ sql[i - k] = x
        enter(mode, class) ==
            [lexer EXCEPT !.mode = mode, !.class = class, !.since = i, !.escaped = FALSE]
        stay(class) == [lexer EXCEPT !.class = class, !.escaped = FALSE]
    IN IF lexer.mode = "code"
       THEN IF c \in Quotes THEN [enter("quoted", "quoted") EXCEPT !.quote = c]
            ELSE IF c = Hash \/ (c = Space /\ after(1, Dash) /\ after(2, Dash))
            THEN enter("line", "comment")
            ELSE IF c = Star /\ after(1, Slash) THEN enter("block", "comment")
            ELSE stay("code")
       ELSE IF lexer.mode = "quoted"
       THEN IF lexer.escaped THEN stay("quoted")
            ELSE IF c = Backslash /\ lexer.quote \in escaping
            THEN [stay("quoted") EXCEPT !.escaped = TRUE]
            ELSE IF c = lexer.quote THEN enter("code", "quoted") ELSE stay("quoted")
       ELSE IF \/ lexer.mode = "line" /\ c = Newline
               \/ lexer.mode = "block" /\ c = Slash /\ after(1, Star)
       THEN enter("code", "comment") ELSE stay("comment")

(* The lexer after each number of characters. *)
Lexers(sql, escaping) ==
    LET read[i \in 0 .. Len(sql)] ==
            IF i = 0 THEN LexerStart ELSE ReadChar(read[i - 1], sql, i, escaping)
    IN read

(* The mode in which a text ends, and the positions of a character in code. *)
EndsIn(sql, escaping) == Lexers(sql, escaping)[Len(sql)].mode

InCode(sql, escaping, c) ==
    LET lexers == Lexers(sql, escaping)
    IN {i \in DOMAIN sql : sql[i] = c /\ lexers[i].class = "code"}

(* The quotes in which MariaDB lets a backslash escape. *)
Escaping(mode) ==
    IF ~mode.backslash_escapes THEN {}
    ELSE IF mode.ansi_quotes THEN {Squote} ELSE {Squote, Dquote}

(* The tokens of a text: names in backticks or double quotes, strings, and
   single characters.  merges: two names in different quotes touch. *)
TokenStart == [quote |-> Word, closed |-> Word, merges |-> FALSE, tokens |-> <<>>]

ReadToken(t, c) ==
    LET extend == [t.tokens EXCEPT ![Len(t.tokens)].text = Append(@, c)]
        kind == IF c = Squote THEN "string" ELSE "name"
    IN IF t.quote = Hash
       THEN [t EXCEPT !.tokens = extend, !.quote = IF c = Newline THEN Word ELSE Hash]
       ELSE IF t.quote # Word
       THEN IF c = t.quote THEN [t EXCEPT !.quote = Word, !.closed = c]
            ELSE [t EXCEPT !.tokens = extend]
       ELSE IF c \in Quotes /\ t.closed = c
       THEN [t EXCEPT !.quote = c, !.closed = Word, !.tokens = extend]
       ELSE [quote |-> IF c \in Quotes \cup {Hash} THEN c ELSE Word,
             closed |-> Word,
             merges |-> t.merges \/ {t.closed, c} = {Btick, Dquote},
             tokens |-> Append(t.tokens,
                          IF c \in Quotes THEN [kind |-> kind, text |-> <<>>]
                          ELSE [kind |-> "code", text |-> <<c>>])]

Tokens(sql) ==
    LET read[i \in 0 .. Len(sql)] ==
            IF i = 0 THEN TokenStart ELSE ReadToken(read[i - 1], sql[i])
    IN read[Len(sql)]

---------------------------------------------------------------------------
(* Properties *)

(* mariadb_query_has_unsafe_quote_escape: a query it lets through has its
   quoted regions and comments at the same places whether backslashes escape,
   as MariaDB read it, or not, as DuckDB will. *)
QuotesReadAlike ==
    \A mode \in SqlModes :
        LET mariadb == Lexers(text, Escaping(mode))
            duckdb == Lexers(text, {})
            end == Len(text)
        IN (mode.backslash_escapes /\ ~mariadb_query_has_unsafe_quote_escape(text, mode)) =>
             /\ \A i \in 0 .. end : mariadb[i].class = duckdb[i].class
             /\ (mariadb[end].mode = "quoted") = (duckdb[end].mode = "quoted")

(* backticks_to_double_quotes: the rewritten text has the same tokens, names
   with quotes in them and backticks in strings and comments included. *)
IdentifiersKeepNames ==
    LET before == Tokens(text)
        after == Tokens(backticks_to_double_quotes(text))
    IN (before.quote \notin Quotes /\ ~before.merges) => after.tokens = before.tokens

(* find_in_code and rfind_in_code: in every sql_mode the keyword found is the
   first, or the last, that MariaDB's lexer reads as code.  Three kinds of text
   the functions read differently are excluded: those with #, those with --
   that no blank follows, and those with a backslash between quotes where the
   sql_mode does not let it escape but the functions do. *)
KeywordsAreFoundInCode ==
    \A mode \in SqlModes :
        LET escaping == Escaping(mode)
            mariadb == Lexers(text, escaping)
            words == InCode(text, escaping, Word)
            read == /\ EndsIn(text, escaping) \notin {"quoted", "block"}
                    /\ \A i \in DOMAIN text : text[i] # Hash
                    /\ \A i \in 1 .. Len(text) - 2 :
                         (text[i] = Dash /\ text[i + 1] = Dash) => text[i + 2] \in {Space, Newline}
            plain == \A i \in DOMAIN text :
                (text[i] = Backslash /\ mariadb[i].class = "quoted") =>
                    mariadb[i].quote \in escaping \cup {Btick}
        IN (read /\ plain) =>
             /\ find_in_code(text, Word, 1) = LeastOr(words, 0)
             /\ \A last \in 1 .. Len(text) :
                  rfind_in_code(text, Word, last)
                    = LET upTo == {i \in words : i <= last}
                      IN IF upTo = {} THEN 0 ELSE CHOOSE i \in upTo : \A j \in upTo : j <= i

(* extract_source_query for INSERT ... SELECT: the forwarded text starts at
   the first SELECT or WITH that is code and not in parentheses.  Texts with a
   backslash in a name are excluded when backslashes escape: the function then
   reads escapes in names too. *)
SourceQueryIsTopLevel ==
    \A mode \in SqlModes :
        LET mariadb == Lexers(text, Escaping(mode))
            code(c) == InCode(text, Escaping(mode), c)
            opened(i) == Cardinality({j \in code(Lparen) : j < i})
            closed(i) == Cardinality({j \in code(Rparen) : j < i})
            top == {i \in code(Select) : opened(i) = closed(i)}
            start == extract_source_query(text, TRUE, mode)
            plainNames == \A i \in DOMAIN text :
                (text[i] = Backslash /\ mariadb[i].class = "quoted") =>
                    mariadb[i].quote \in Escaping(mode)
        IN ((mode.backslash_escapes => plainNames) /\ start # 0) => start = LeastOr(top, 0)

=============================================================================

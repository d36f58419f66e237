----------------------------- MODULE TextProofs -----------------------------
(***************************************************************************)
(* mariadb_query_has_unsafe_quote_escape for every query: what it lets     *)
(* through has the same quoted regions and comments for MariaDB, which     *)
(* reads backslash escapes, and for DuckDB, which does not.                *)
(*                                                                         *)
(* The check jumps from region to region (scan_sql_region); the two        *)
(* dialects are lexers that read one character at a time.  The proof       *)
(* follows the check: at every position it reaches both lexers are in code *)
(* and in the same state (Aligned), a region takes them to its end, and so *)
(* they agree on the whole text.  The recursive functions of SqlText have  *)
(* their defining equations because every jump goes forward (JumpsExist,   *)
(* PathsExist); those of the searches that KeywordProofs is about are here *)
(* too.                                                                    *)
(***************************************************************************)
EXTENDS TextChecks, TLAPS, WellFoundedInduction

---------------------------------------------------------------------------
(* Sets of numbers and recursive functions *)

(* A set of numbers that is not empty has a least one. *)
LEMMA Least ==
    ASSUME NEW T, T \subseteq Nat, T # {}
    PROVE  \E n \in T : \A m \in T : n <= m
<1>1. PICK n \in T : \A m \in T : ~(<<m, n>> \in OpToRel(<, Nat))
  BY WFMin, NatLessThanWellFounded, Zenon
<1>2. \A m \in T : ~(m < n)
  BY <1>1, Zenon DEF OpToRel
<1> QED
  BY <1>2

(* Induction from 0 up to n, for a set. *)
LEMMA UpTo ==
    ASSUME NEW n \in Nat, NEW G, 0 \in G, \A j \in 0 .. n - 1 : j \in G => j + 1 \in G
    PROVE  n \in G
<1> DEFINE T == {j \in 0 .. n : j \notin G}
<1> SUFFICES ASSUME T # {} PROVE FALSE
  OBVIOUS
<1>1. T \subseteq Nat
  OBVIOUS
<1>2. PICK k \in T : \A m \in T : k <= m
  BY <1>1, Least, Zenon
<1>3. k # 0 /\ k \in 0 .. n /\ k \notin G
  BY <1>2, Zenon
<1>4. k - 1 \in 0 .. n - 1 /\ k - 1 \notin T /\ k - 1 + 1 = k
  BY <1>2, <1>3
<1>5. k - 1 \in G
  BY <1>4
<1> QED
  BY <1>3, <1>4, <1>5, Zenon

(* find with its end position for "not found". *)
LEMMA LeastOrFacts ==
    ASSUME NEW S, S \subseteq Nat, NEW default
    PROVE  /\ S = {} => LeastOr(S, default) = default
           /\ S # {} => LeastOr(S, default) \in S /\ \A j \in S : LeastOr(S, default) <= j
<1>1. CASE S = {}
  BY <1>1, Zenon DEF LeastOr
<1>2. CASE S # {}
  <2>1. \E i \in S : \A j \in S : i <= j
    BY <1>2, Least, Zenon
  <2> QED
    BY <1>2, <2>1, Zenon DEF LeastOr
<1> QED
  BY <1>1, <1>2, Zenon

(* A function on a .. b whose value at a position is given, at the positions
   of Given, or is its value at a later position, exists. *)
Jumps(f, a, b, Given, v, J) ==
    \A i \in a .. b : f[i] = IF i \in Given THEN v[i] ELSE f[J[i]]

LEMMA JumpsExist ==
    ASSUME NEW a \in Int, NEW b \in Int, a <= b + 1, NEW V, NEW Given, NEW J,
           NEW v, \A i \in a .. b : i \in Given => v[i] \in V,
           \A i \in a .. b : i \notin Given => J[i] \in i + 1 .. b
    PROVE  \E f \in [a .. b -> V] : Jumps(f, a, b, Given, v, J)
<1> DEFINE n == b + 1 - a
           P(k) == \E f \in [b + 1 - k .. b -> V] : Jumps(f, b + 1 - k, b, Given, v, J)
           G == {k \in Nat : P(k)}
<1>1. 0 \in G
  <2> DEFINE f == [i \in b + 1 .. b |-> v[i]]
  <2>1. f \in [b + 1 - 0 .. b -> V] /\ Jumps(f, b + 1 - 0, b, Given, v, J)
    BY DEF Jumps
  <2> QED
    BY <2>1, Zenon
<1>2. ASSUME NEW k \in 0 .. n - 1, k \in G PROVE k + 1 \in G
  <2>1. PICK f \in [b + 1 - k .. b -> V] : Jumps(f, b + 1 - k, b, Given, v, J)
    BY <1>2, Zenon
  <2> DEFINE i == b - k
             g == [j \in i .. b |-> IF j = i THEN IF i \in Given THEN v[i] ELSE f[J[i]]
                                    ELSE f[j]]
  <2>2. i \in a .. b /\ i + 1 = b + 1 - k /\ i = b + 1 - (k + 1)
    BY <1>2
  <2>3. i \notin Given => J[i] \in i + 1 .. b
    BY <2>2, Zenon
  <2>4. g \in [i .. b -> V]
    BY <2>1, <2>2, <2>3
  <2>5. \A j \in i + 1 .. b : g[j] = f[j]
    BY <2>2
  <2>6. g[i] = IF i \in Given THEN v[i] ELSE f[J[i]]
    BY <2>2
  <2> HIDE DEF g
  <2>7. ASSUME NEW j \in i .. b PROVE g[j] = IF j \in Given THEN v[j] ELSE g[J[j]]
    <3>1. CASE j = i
      BY <3>1, <2>3, <2>5, <2>6, SMTT(30), Zenon
    <3>2. CASE j \in i + 1 .. b
      <4>1. f[j] = IF j \in Given THEN v[j] ELSE f[J[j]]
        BY <2>1, <2>2, <3>2, Zenon DEF Jumps
      <4>2. j \notin Given => J[j] \in i + 1 .. b
        BY <2>2, <3>2
      <4> QED
        BY <4>1, <4>2, <3>2, <2>5, Zenon
    <3> QED
      BY <3>1, <3>2, <2>2
  <2>8. Jumps(g, i, b, Given, v, J)
    BY <2>7, SMTT(30), ZenonT(30) DEF Jumps
  <2>9. P(k + 1)
    BY <2>2, <2>4, <2>8, Zenon
  <2> QED
    BY <2>9, SMTT(30), Zenon
<1>3. n \in Nat
  OBVIOUS
<1> HIDE DEF G
<1>4. n \in G
  BY <1>1, <1>2, <1>3, UpTo, Zenon
<1>5. b + 1 - n = a
  OBVIOUS
<1> QED
  BY <1>4, <1>5, Zenon DEF G

---------------------------------------------------------------------------
(* One character *)

(* What the proofs use of a sequence of characters. *)
IsText(sql) == Len(sql) \in Nat /\ DOMAIN sql = 1 .. Len(sql)

(* The states of a lexer. *)
Lexer ==
    [mode : {"code", "quoted", "line", "block"}, quote : Quotes \cup {Word},
     escaped : BOOLEAN, since : Nat, class : {"code", "quoted", "comment"}]

(* A character takes a lexer from state to state. *)
LEMMA ReadCharType ==
    ASSUME NEW lexer \in Lexer, NEW sql, NEW i \in Nat, NEW X
    PROVE  ReadChar(lexer, sql, i, X) \in Lexer
  BY Zenon DEF ReadChar, Lexer

(* The lexers of a text read one character after the other. *)
LEMMA LexersRead ==
    ASSUME NEW sql, IsText(sql), NEW X
    PROVE  /\ Lexers(sql, X)[0] = LexerStart
           /\ \A i \in 1 .. Len(sql) :
                Lexers(sql, X)[i] = ReadChar(Lexers(sql, X)[i - 1], sql, i, X)
           /\ \A i \in 0 .. Len(sql) : Lexers(sql, X)[i] \in Lexer
<1> DEFINE At0(f, i) == IF i = 0 THEN LexerStart ELSE ReadChar(f[i - 1], sql, i, X)
           Reads(f, n) == f = [i \in 0 .. n |-> At0(f, i)]
           N == Len(sql)
<1>1. N \in Nat
  BY Zenon DEF IsText
<1>2. ASSUME NEW n \in Nat, NEW g, Reads(g, n) PROVE \E h : Reads(h, n + 1)
  <2> DEFINE h == [i \in 0 .. n + 1 |-> IF i = n + 1 THEN At0(g, n + 1) ELSE g[i]]
  <2>1. \A i \in 0 .. n : g[i] = At0(g, i)
    BY <1>2, Zenon
  <2>2. \A i \in 0 .. n : h[i] = g[i]
    OBVIOUS
  <2>3. \A i \in 0 .. n + 1 : At0(h, i) = At0(g, i)
    BY <2>2
  <2>4. h[n + 1] = At0(g, n + 1)
    OBVIOUS
  <2>5. h = [i \in 0 .. n + 1 |-> h[i]]
    BY Zenon
  <2> HIDE DEF h, At0
  <2>6. \A i \in 0 .. n + 1 : h[i] = At0(h, i)
    BY <2>1, <2>2, <2>3, <2>4
  <2>7. Reads(h, n + 1)
    BY <2>5, <2>6, Zenon
  <2> QED
    BY <2>7, Zenon
<1>3. \E f : Reads(f, N)
  <2> DEFINE G == {n \in Nat : \E f : Reads(f, n)}
  <2>1. 0 \in G
    <3> DEFINE f == [i \in 0 .. 0 |-> LexerStart]
    <3>1. Reads(f, 0)
      OBVIOUS
    <3> QED
      BY <3>1, Zenon
  <2>2. \A n \in 0 .. N - 1 : n \in G => n + 1 \in G
    BY <1>2, SMTT(30), ZenonT(30)
  <2> HIDE DEF G
  <2>3. N \in G
    BY <1>1, <2>1, <2>2, UpTo, Zenon
  <2> QED
    BY <2>3, Zenon DEF G
<1> DEFINE L == CHOOSE f : Reads(f, N)
<1>4. Reads(L, N)
  BY <1>3, Zenon
<1>5. Lexers(sql, X) = L
  BY Zenon DEF Lexers
<1> HIDE DEF L
<1>6. L[0] = LexerStart
  BY <1>1, <1>4
<1>7. \A i \in 1 .. N : L[i] = ReadChar(L[i - 1], sql, i, X)
  BY <1>1, <1>4
<1>8. ASSUME NEW n \in 0 .. N PROVE L[n] \in Lexer
  <2> DEFINE G == {j \in Nat : j <= N => L[j] \in Lexer}
  <2>1. 0 \in G
    <3>1. LexerStart \in Lexer
      BY Zenon DEF LexerStart, Lexer
    <3> QED
      BY <1>6, <3>1, Zenon
  <2>2. ASSUME NEW j \in 0 .. n - 1, j \in G PROVE j + 1 \in G
    <3>1. j \in 0 .. N /\ j + 1 \in 1 .. N /\ j + 1 - 1 = j /\ L[j] \in Lexer
      BY <2>2, <1>1
    <3>2. L[j + 1] = ReadChar(L[j], sql, j + 1, X)
      BY <3>1, <1>7
    <3>3. L[j + 1] \in Lexer
      BY <3>1, <3>2, ReadCharType
    <3> QED
      BY <3>3
  <2> HIDE DEF G
  <2>3. n \in G
    BY <1>1, <2>1, <2>2, UpTo
  <2> QED
    BY <2>3, <1>1 DEF G
<1> QED
  BY <1>5, <1>6, <1>7, <1>8, Zenon

(* Where a comment opens with two characters or more. *)
Opens(sql, k) ==
    \/ At(sql, k, Slash) /\ At(sql, k + 1, Star)
    \/ At(sql, k, Dash) /\ At(sql, k + 1, Dash) /\ At(sql, k + 2, Space)

(* What the lexer makes of a character: in code, *)
LEMMA ReadHash ==
    ASSUME NEW lexer \in Lexer, lexer.mode = "code", NEW sql, NEW i \in Nat, NEW X,
           sql[i] = Hash
    PROVE  LET r == ReadChar(lexer, sql, i, X) IN r.mode = "line" /\ r.since = i
<1>1. sql[i] \notin Quotes
  BY CharactersAssumption, Zenon DEF Quotes
<1> QED
  BY <1>1, Zenon DEF ReadChar, Lexer

LEMMA ReadDashes ==
    ASSUME NEW lexer \in Lexer, lexer.mode = "code", NEW sql, NEW i \in Nat, NEW X,
           sql[i] = Space, i - 2 > lexer.since, sql[i - 1] = Dash, sql[i - 2] = Dash
    PROVE  LET r == ReadChar(lexer, sql, i, X) IN r.mode = "line" /\ r.since = i
<1>1. sql[i] \notin Quotes
  BY CharactersAssumption, Zenon DEF Quotes
<1>2. i - 1 > lexer.since
  BY DEF Lexer
<1> QED
  BY <1>1, <1>2, Zenon DEF ReadChar, Lexer

LEMMA ReadStar ==
    ASSUME NEW lexer \in Lexer, lexer.mode = "code", NEW sql, NEW i \in Nat, NEW X,
           sql[i] = Star, i - 1 > lexer.since, sql[i - 1] = Slash
    PROVE  LET r == ReadChar(lexer, sql, i, X) IN r.mode = "block" /\ r.since = i
<1>1. sql[i] \notin Quotes /\ sql[i] # Hash /\ sql[i] # Space
  BY CharactersAssumption, Zenon DEF Quotes
<1> QED
  BY <1>1, Zenon DEF ReadChar, Lexer

LEMMA ReadPlain ==
    ASSUME NEW lexer \in Lexer, lexer.mode = "code", NEW sql, IsText(sql),
           NEW i \in 1 .. Len(sql), NEW X,
           sql[i] \notin Quotes, sql[i] # Hash,
           \A k \in lexer.since + 1 .. i - 1 : ~Opens(sql, k)
    PROVE  LET r == ReadChar(lexer, sql, i, X) IN r.mode = "code" /\ r.since = lexer.since
<1>1. lexer.since \in Nat /\ i \in Nat /\ Len(sql) \in Nat /\ DOMAIN sql = 1 .. Len(sql)
  BY DEF Lexer, IsText
<1>2. ~(sql[i] = Space /\ i - 1 > lexer.since /\ sql[i - 1] = Dash
                       /\ i - 2 > lexer.since /\ sql[i - 2] = Dash)
  <2> SUFFICES ASSUME sql[i] = Space, i - 1 > lexer.since, sql[i - 1] = Dash,
                      i - 2 > lexer.since, sql[i - 2] = Dash
               PROVE FALSE
    BY Zenon
  <2>1. i - 2 \in lexer.since + 1 .. i - 1 /\ i - 2 + 1 = i - 1 /\ i - 2 + 2 = i
    BY <1>1
  <2>2. i - 2 \in DOMAIN sql /\ i - 1 \in DOMAIN sql /\ i \in DOMAIN sql
    BY <1>1
  <2>3. Opens(sql, i - 2)
    BY <2>1, <2>2, Zenon DEF Opens, At
  <2> QED
    BY <2>1, <2>3, Zenon
<1>3. ~(sql[i] = Star /\ i - 1 > lexer.since /\ sql[i - 1] = Slash)
  <2> SUFFICES ASSUME sql[i] = Star, i - 1 > lexer.since, sql[i - 1] = Slash
               PROVE FALSE
    BY Zenon
  <2>1. i - 1 \in lexer.since + 1 .. i - 1 /\ i - 1 + 1 = i
    BY <1>1
  <2>2. i - 1 \in DOMAIN sql /\ i \in DOMAIN sql
    BY <1>1
  <2>3. Opens(sql, i - 1)
    BY <2>1, <2>2, Zenon DEF Opens, At
  <2> QED
    BY <2>1, <2>3, Zenon
<1> QED
  BY <1>1, <1>2, <1>3, Zenon DEF ReadChar, Lexer

(* in a quoted region, *)
LEMMA ReadQuoted ==
    ASSUME NEW lexer \in Lexer, lexer.mode = "quoted", NEW sql, NEW i \in Nat, NEW X
    PROVE  LET r == ReadChar(lexer, sql, i, X)
               escapes == sql[i] = Backslash /\ lexer.quote \in X
               closes == ~lexer.escaped /\ ~escapes /\ sql[i] = lexer.quote
           IN /\ r.class = "quoted" /\ r.quote = lexer.quote
              /\ r.mode = IF closes THEN "code" ELSE "quoted"
              /\ r.escaped = (~lexer.escaped /\ escapes)
              /\ closes => r.since = i
  BY Zenon DEF ReadChar, Lexer

(* and in a comment. *)
LEMMA ReadComment ==
    ASSUME NEW lexer \in Lexer, lexer.mode \in {"line", "block"}, NEW sql, NEW i \in Nat, NEW X
    PROVE  LET r == ReadChar(lexer, sql, i, X)
               closes == \/ lexer.mode = "line" /\ sql[i] = Newline
                         \/ /\ lexer.mode = "block" /\ sql[i] = Slash
                            /\ i - 1 > lexer.since /\ sql[i - 1] = Star
           IN /\ closes => r.mode = "code" /\ r.since = i
              /\ ~closes => r.mode = lexer.mode /\ r.since = lexer.since
  BY Zenon DEF ReadChar, Lexer

(* Outside quoted regions it does not matter which quotes backslashes escape
   in. *)
LEMMA ReadAlike ==
    ASSUME NEW lexer, lexer.mode # "quoted", NEW sql, NEW i, NEW X, NEW Y
    PROVE  ReadChar(lexer, sql, i, X) = ReadChar(lexer, sql, i, Y)
  BY Zenon DEF ReadChar

(* The lexer is in code at position i, where the engine's scanner starts a
   region or goes on to the next character, and no comment has been begun. *)
Begins(L, sql, i) ==
    /\ L[i - 1].mode = "code" /\ L[i - 1].since \in 0 .. i - 1
    /\ \A k \in L[i - 1].since + 1 .. i - 1 : ~Opens(sql, k)

(* L reads the text. *)
Reads(L, sql, X) ==
    /\ \A i \in 0 .. Len(sql) : L[i] \in Lexer
    /\ \A i \in 1 .. Len(sql) : L[i] = ReadChar(L[i - 1], sql, i, X)

---------------------------------------------------------------------------
(* Code and comments *)

(* A character that starts nothing leaves the lexer in code. *)
LEMMA PlainRead ==
    ASSUME NEW sql, IsText(sql), NEW X, NEW L, Reads(L, sql, X),
           NEW i \in 1 .. Len(sql), Begins(L, sql, i),
           sql[i] \notin Quotes, sql[i] # Hash, ~Opens(sql, i)
    PROVE  Begins(L, sql, i + 1) /\ L[i].since = L[i - 1].since
<1>1. Len(sql) \in Nat /\ i - 1 \in 0 .. Len(sql) /\ L[i - 1] \in Lexer /\ i \in Nat
  BY DEF IsText, Reads
<1>2. L[i] = ReadChar(L[i - 1], sql, i, X)
  BY Zenon DEF Reads
<1>3. L[i].mode = "code" /\ L[i].since = L[i - 1].since
  BY <1>1, <1>2, ReadPlain DEF Begins
<1>4. i + 1 - 1 = i
  BY <1>1
<1>5. L[i - 1].since \in 0 .. i - 1 /\ \A k \in L[i - 1].since + 1 .. i - 1 : ~Opens(sql, k)
  BY Zenon DEF Begins
<1>6. L[i].since \in 0 .. i /\ \A k \in L[i].since + 1 .. i : ~Opens(sql, k)
  BY <1>1, <1>3, <1>5
<1> QED
  BY <1>3, <1>4, <1>6, SMTT(30), Zenon DEF Begins

---------------------------------------------------------------------------
(* Comments *)

(* A comment is closed by its newline, or by a star and a slash after it. *)
Closes(sql, mode, since, k) ==
    \/ mode = "line" /\ sql[k] = Newline
    \/ mode = "block" /\ sql[k] = Slash /\ k - 1 > since /\ sql[k - 1] = Star

(* A comment goes on until it is closed, *)
LEMMA CommentGoesOn ==
    ASSUME NEW sql, IsText(sql), NEW X, NEW L, Reads(L, sql, X),
           NEW p \in 1 .. Len(sql), L[p].mode \in {"line", "block"},
           NEW e \in p .. Len(sql),
           \A k \in p + 1 .. e : ~Closes(sql, L[p].mode, L[p].since, k)
    PROVE  \A k \in p .. e : L[k].mode = L[p].mode /\ L[k].since = L[p].since
<1> DEFINE G == {j \in Nat : p + j <= e => L[p + j].mode = L[p].mode /\ L[p + j].since = L[p].since}
<1>1. Len(sql) \in Nat /\ p \in Nat /\ e \in Nat
  BY DEF IsText
<1>2. 0 \in G
  BY <1>1
<1>3. ASSUME NEW j \in 0 .. e - p - 1, j \in G PROVE j + 1 \in G
  <2>1. /\ p + j \in 0 .. Len(sql) /\ p + j + 1 \in 1 .. Len(sql)
        /\ p + j + 1 - 1 = p + j /\ p + (j + 1) = p + j + 1
        /\ p + j + 1 \in p + 1 .. e
    BY <1>1, <1>3, SMTT(30), Zenon
  <2>2. L[p + j].mode = L[p].mode /\ L[p + j].since = L[p].since
    BY <1>1, <1>3
  <2>3. L[p + j] \in Lexer /\ L[p + j + 1] = ReadChar(L[p + j], sql, p + j + 1, X)
    BY <2>1 DEF Reads
  <2>4. ~Closes(sql, L[p].mode, L[p].since, p + j + 1)
    BY <2>1, SMTT(30), Zenon
  <2>5. p + j + 1 \in Nat
    BY <1>1, <2>1
  <2>6. L[p + j + 1].mode = L[p].mode /\ L[p + j + 1].since = L[p].since
    BY <2>2, <2>3, <2>4, <2>5, ReadComment, SMTT(30), ZenonT(30) DEF Closes
  <2> QED
    BY <2>1, <2>6, <1>3
<1> HIDE DEF G
<1>4. ASSUME NEW k \in p .. e PROVE L[k].mode = L[p].mode /\ L[k].since = L[p].since
  <2>1. k - p \in Nat /\ k - p <= e - p
    BY <1>1
  <2>2. \A j \in 0 .. (k - p) - 1 : j \in G => j + 1 \in G
    BY <1>1, <1>3, <2>1
  <2>3. k - p \in G
    BY <1>2, <2>1, <2>2, UpTo, Zenon
  <2>4. p + (k - p) = k /\ p + (k - p) <= e
    BY <1>1
  <2> QED
    BY <2>3, <2>4, Zenon DEF G
<1> QED
  BY <1>4, Zenon

(* and is then followed by code. *)
LEMMA CommentCloses ==
    ASSUME NEW sql, IsText(sql), NEW X, NEW L, Reads(L, sql, X),
           NEW p \in 1 .. Len(sql), L[p].mode \in {"line", "block"},
           NEW e \in p + 1 .. Len(sql),
           \A k \in p + 1 .. e - 1 : ~Closes(sql, L[p].mode, L[p].since, k),
           Closes(sql, L[p].mode, L[p].since, e)
    PROVE  Begins(L, sql, e + 1) /\ \A k \in p .. e - 1 : L[k].mode = L[p].mode
<1>1. /\ Len(sql) \in Nat /\ p \in Nat /\ e \in Nat
      /\ e - 1 \in p .. Len(sql) /\ e - 1 \in 0 .. Len(sql)
  BY DEF IsText
<1>2. \A k \in p .. e - 1 : L[k].mode = L[p].mode /\ L[k].since = L[p].since
  BY <1>1, CommentGoesOn
<1>3. L[e - 1].mode = L[p].mode /\ L[e - 1].since = L[p].since /\ L[e - 1] \in Lexer
  BY <1>1, <1>2 DEF Reads
<1>4. L[e] = ReadChar(L[e - 1], sql, e, X)
  BY <1>1 DEF Reads
<1>5. L[e].mode = "code" /\ L[e].since = e
  <2>1. L[e - 1].mode \in {"line", "block"} /\ Closes(sql, L[e - 1].mode, L[e - 1].since, e)
    BY <1>3, SMTT(30), Zenon
  <2> DEFINE r == ReadChar(L[e - 1], sql, e, X)
  <2>2. r.mode = "code" /\ r.since = e
    BY <1>1, <1>3, <2>1, ReadComment, SMTT(30), Zenon DEF Closes
  <2> QED
    BY <1>4, <2>2, Zenon
<1>6. (e + 1) - 1 = e /\ e \in 0 .. e /\ e + 1 .. e = {}
  BY <1>1, SMTT(30), Zenon
<1> QED
  BY <1>2, <1>5, <1>6, Zenon DEF Begins

(* The lexer is outside quoted regions from i - 1 up to e, where either code
   begins or the text has ended. *)
Passes(L, sql, i, e) ==
    /\ e \in i + 1 .. Len(sql) + 1
    /\ \A k \in i - 1 .. e - 2 : L[k].mode # "quoted"
    /\ \/ Begins(L, sql, e)
       \/ e = Len(sql) + 1 /\ L[e - 1].mode # "quoted"

(* From i up to e every character but those that open a comment is read
   outside code. *)
Skips(L, sql, i, e) ==
    \A k \in i .. e - 1 :
        sql[k] \in {Slash, Dash, Newline} \/ L[k].mode # "code" \/ L[k - 1].mode # "code"

(* A comment's characters are skipped from its opening on. *)
LEMMA CommentSkips ==
    ASSUME NEW L, NEW sql, NEW i \in Nat, NEW p \in Nat, NEW e \in Nat,
           \A k \in i .. p - 1 : sql[k] \in {Slash, Dash, Newline},
           \A k \in p .. e - 1 : L[k].mode # "code",
           e > p \/ L[p].mode # "code"
    PROVE  Skips(L, sql, i, e + 1)
<1> SUFFICES ASSUME NEW k \in i .. (e + 1) - 1
             PROVE  \/ sql[k] \in {Slash, Dash, Newline}
                    \/ L[k].mode # "code" \/ L[k - 1].mode # "code"
  BY Zenon DEF Skips
<1>1. CASE k < p
  BY <1>1
<1>2. CASE k >= p /\ k < e
  BY <1>2
<1>3. CASE k >= p /\ k = e
  <2>1. CASE p < e
    <3>1. k - 1 \in p .. e - 1
      BY <1>3, <2>1
    <3> QED
      BY <3>1, Zenon
  <2>2. CASE p = e
    BY <1>3, <2>2, SMTT(30), Zenon
  <2> QED
    BY <1>3, <2>1, <2>2
<1> QED
  BY <1>1, <1>2, <1>3, SMTT(30), Zenon

(* The scanner and the lexer end a comment up to the newline alike, *)
LEMMA LineRead ==
    ASSUME NEW sql, IsText(sql), NEW X, NEW L, Reads(L, sql, X),
           NEW i \in 1 .. Len(sql), NEW p \in i .. Len(sql),
           \A k \in i - 1 .. p - 1 : L[k].mode = "code",
           L[p].mode = "line",
           \A k \in i + 1 .. p : sql[k] # Newline,
           \A k \in i .. p - 1 : sql[k] \in {Slash, Dash, Newline}
    PROVE  LET end == LineComment(sql, i).end
           IN Passes(L, sql, i, end) /\ Skips(L, sql, i, end)
<1> DEFINE S == {j \in i + 1 .. Len(sql) : sql[j] = Newline}
           e == LeastOr(S, Len(sql))
<1> Len(sql) \in Nat /\ p \in Nat /\ i \in Nat /\ S \subseteq Nat /\ p \in 1 .. Len(sql)
  BY DEF IsText
<1>2. LineComment(sql, i).end = e + 1
  BY Zenon DEF LineComment
<1>3. CASE S = {}
  <2>1. e = Len(sql)
    BY <1>3, LeastOrFacts, Zenon
  <2>2. \A k \in p + 1 .. Len(sql) : ~Closes(sql, L[p].mode, L[p].since, k)
    BY <1>3 DEF Closes
  <2>3. Len(sql) \in p .. Len(sql)
    OBVIOUS
  <2>4. \A k \in p .. Len(sql) : L[k].mode = "line"
    <3>1. L[p].mode \in {"line", "block"}
      BY Zenon
    <3>2. \A k \in p .. Len(sql) : L[k].mode = L[p].mode /\ L[k].since = L[p].since
      <4>1. p \in 1 .. Len(sql)
        BY Zenon
      <4> QED
        BY <2>2, <2>3, <3>1, <4>1, CommentGoesOn, SMTT(30), ZenonT(30)
    <3> QED
      BY <3>2, Zenon
  <2>5. Len(sql) + 1 \in i + 1 .. Len(sql) + 1 /\ (Len(sql) + 1) - 1 = Len(sql)
    OBVIOUS
  <2>6. \A k \in i - 1 .. (Len(sql) + 1) - 2 : L[k].mode # "quoted"
    BY <2>4
  <2>7. L[(Len(sql) + 1) - 1].mode # "quoted"
    BY <2>3, <2>4, <2>5, Zenon
  <2>8. Passes(L, sql, i, Len(sql) + 1)
    BY <2>5, <2>6, <2>7, Zenon DEF Passes
  <2>9. Skips(L, sql, i, Len(sql) + 1)
    <3>1. \A k \in p .. Len(sql) - 1 : L[k].mode # "code"
      BY <2>4
    <3>2. L[p].mode # "code"
      BY Zenon
    <3> QED
      BY <3>1, <3>2, CommentSkips, Zenon
  <2> QED
    BY <1>2, <2>1, <2>8, <2>9, Zenon
<1>4. CASE S # {}
  <2>1. e \in S /\ \A j \in S : e <= j
    BY <1>4, LeastOrFacts, Zenon
  <2> HIDE DEF e
  <2>2. e \in p + 1 .. Len(sql) /\ sql[e] = Newline /\ e \in Nat
    BY <2>1
  <2>3. \A k \in p + 1 .. e - 1 : sql[k] # Newline
    BY <2>1, <2>2
  <2>4. \A k \in p + 1 .. e - 1 : ~Closes(sql, L[p].mode, L[p].since, k)
    BY <2>3, Zenon DEF Closes
  <2>5. Closes(sql, L[p].mode, L[p].since, e)
    BY <2>2, Zenon DEF Closes
  <2>6. Begins(L, sql, e + 1) /\ \A k \in p .. e - 1 : L[k].mode = "line"
    <3>1. p \in 1 .. Len(sql) /\ L[p].mode \in {"line", "block"}
      BY Zenon
    <3>2. e \in p + 1 .. Len(sql)
      BY <2>2, SMTT(30), Zenon
    <3>3. Begins(L, sql, e + 1) /\ \A k \in p .. e - 1 : L[k].mode = L[p].mode
      BY ONLY IsText(sql), Reads(L, sql, X), <2>4, <2>5, <3>1, <3>2, CommentCloses, SMTT(30), ZenonT(30)
    <3> QED
      BY <3>3, Zenon
  <2>7. \A k \in i - 1 .. (e + 1) - 2 : L[k].mode # "quoted"
    BY <2>2, <2>6, SMTT(30), ZenonT(30)
  <2>8. e + 1 \in i + 1 .. Len(sql) + 1
    BY <2>2
  <2>9. Passes(L, sql, i, e + 1)
    BY <2>6, <2>7, <2>8, Zenon DEF Passes
  <2>10. Skips(L, sql, i, e + 1)
    <3>1. \A k \in p .. e - 1 : L[k].mode # "code"
      BY <2>6, Zenon
    <3>2. e > p /\ e \in Nat
      BY <2>2
    <3> QED
      BY <3>1, <3>2, CommentSkips, SMTT(30), ZenonT(30)
  <2> QED
    BY <1>2, <2>9, <2>10, Zenon
<1> QED
  BY <1>3, <1>4, Zenon

(* and one between slashes and stars. *)
LEMMA BlockRead ==
    ASSUME NEW sql, IsText(sql), NEW X, NEW L, Reads(L, sql, X),
           NEW i \in 1 .. Len(sql), i + 1 \in 1 .. Len(sql),
           L[i - 1].mode = "code", L[i].mode = "code",
           L[i + 1].mode = "block", L[i + 1].since = i + 1,
           BlockComment(sql, i).type = "COMMENT", sql[i] = Slash
    PROVE  LET end == BlockComment(sql, i).end
           IN Passes(L, sql, i, end) /\ Skips(L, sql, i, end)
<1> DEFINE S == {j \in i + 2 .. Len(sql) - 1 : sql[j] = Star /\ sql[j + 1] = Slash}
           c == LeastOr(S, 0)
<1> Len(sql) \in Nat /\ i \in Nat /\ S \subseteq Nat
  BY SMTT(30) DEF IsText
<1>2. c # 0 /\ BlockComment(sql, i).end = c + 2
  BY Zenon DEF BlockComment
<1>3. S # {}
  BY <1>2, LeastOrFacts, Zenon
<1>4. c \in S /\ \A j \in S : c <= j
  BY <1>3, LeastOrFacts, Zenon
<1> HIDE DEF c
<1>5. c \in i + 2 .. Len(sql) - 1 /\ sql[c] = Star /\ sql[c + 1] = Slash /\ c \in Nat
  BY <1>4, SMTT(30), Zenon
<1>6. ASSUME NEW k \in i + 1 + 1 .. (c + 1) - 1, Closes(sql, "block", i + 1, k) PROVE FALSE
  <2>1. sql[k] = Slash /\ k - 1 > i + 1 /\ sql[k - 1] = Star /\ k - 1 + 1 = k
    BY <1>6, SMTT(30), Zenon DEF Closes
  <2>2. k - 1 \in S
    BY <1>5, <2>1
  <2> QED
    BY <1>4, <1>5, <2>2, SMTT(30), ZenonT(30)
<1>7. Closes(sql, "block", i + 1, c + 1)
  <2>1. (c + 1) - 1 = c /\ (c + 1) - 1 > i + 1
    BY <1>5, SMTT(30), ZenonT(30)
  <2> QED
    BY <1>5, <2>1, Zenon DEF Closes
<1>8. c + 1 \in i + 1 + 1 .. Len(sql)
  BY <1>5, SMTT(30), Zenon
<1>9. Begins(L, sql, c + 1 + 1) /\ \A k \in i + 1 .. (c + 1) - 1 : L[k].mode = "block"
  <2>1. L[i + 1].mode \in {"line", "block"}
    BY Zenon
  <2>2. /\ \A k \in i + 1 + 1 .. (c + 1) - 1 : ~Closes(sql, L[i + 1].mode, L[i + 1].since, k)
        /\ Closes(sql, L[i + 1].mode, L[i + 1].since, c + 1)
    BY <1>6, <1>7, SMTT(30), Zenon
  <2>3. Begins(L, sql, (c + 1) + 1) /\ \A k \in i + 1 .. (c + 1) - 1 : L[k].mode = L[i + 1].mode
    BY <1>8, <2>1, <2>2, CommentCloses, SMTT(30), ZenonT(30)
  <2> QED
    BY <2>3, Zenon
<1>10. c + 1 + 1 = c + 2 /\ c + 2 \in i + 1 .. Len(sql) + 1
  BY <1>5, SMTT(30), ZenonT(30)
<1>11. \A k \in i - 1 .. (c + 2) - 2 : L[k].mode # "quoted"
  BY <1>5, <1>9
<1>12. Begins(L, sql, c + 2)
  BY <1>9, <1>10, Zenon
<1>13. Passes(L, sql, i, c + 2)
  BY <1>10, <1>11, <1>12, Zenon DEF Passes
<1>14. Skips(L, sql, i, c + 2)
  <2>1. i + 1 \in Nat /\ c + 1 \in Nat /\ c + 1 > i + 1
    BY <1>5, SMTT(30), ZenonT(30)
  <2>2. \A k \in i .. (i + 1) - 1 : sql[k] \in {Slash, Dash, Newline}
    OBVIOUS
  <2>3. \A k \in i + 1 .. (c + 1) - 1 : L[k].mode # "code"
    BY <1>9, SMTT(30), Zenon
  <2>4. Skips(L, sql, i, c + 1 + 1)
    BY <2>1, <2>2, <2>3, CommentSkips, Zenon
  <2> QED
    BY <1>10, <2>4, SMTT(30), Zenon
<1> QED
  BY <1>2, <1>13, <1>14, Zenon

(* A slash, a dash or a newline never leaves code by itself. *)
LEMMA ReadOther ==
    ASSUME NEW sql, IsText(sql), NEW X, NEW L, Reads(L, sql, X),
           NEW i \in 1 .. Len(sql), L[i - 1].mode = "code",
           sql[i] \in {Slash, Dash, Newline}
    PROVE  L[i].mode = "code" /\ L[i].since = L[i - 1].since
<1>1. i - 1 \in 0 .. Len(sql) /\ i \in Nat
  BY DEF IsText
<1>2. L[i - 1] \in Lexer /\ L[i] = ReadChar(L[i - 1], sql, i, X)
  BY <1>1, Zenon DEF Reads
<1>3. sql[i] \notin Quotes /\ sql[i] # Hash /\ sql[i] # Space /\ sql[i] # Star
  BY CharactersAssumption, Zenon DEF Quotes
<1> QED
  BY <1>1, <1>2, <1>3, ZenonT(30) DEF ReadChar, Lexer

(* A comment that ends at once: two dashes with a newline or nothing after. *)
LEMMA ShortComment ==
    ASSUME NEW sql, IsText(sql), NEW X, NEW L, Reads(L, sql, X),
           NEW i \in 1 .. Len(sql), Begins(L, sql, i), i + 1 <= Len(sql),
           sql[i] = Dash, sql[i + 1] = Dash,
           i + 2 > Len(sql) \/ sql[i + 2] = Newline
    PROVE  LET end == LineComment(sql, i).end
           IN Passes(L, sql, i, end) /\ Skips(L, sql, i, end)
<1> DEFINE S == {j \in i + 1 .. Len(sql) : sql[j] = Newline}
           e == LeastOr(S, Len(sql))
           s == L[i - 1].since
<1> Len(sql) \in Nat /\ i \in Nat /\ S \subseteq Nat /\ i + 1 \in 1 .. Len(sql) /\ (i + 1) - 1 = i
  BY DEF IsText
<1>2. LineComment(sql, i).end = e + 1
  BY Zenon DEF LineComment
<1>3. L[i - 1].mode = "code" /\ s \in 0 .. i - 1 /\ \A k \in s + 1 .. i - 1 : ~Opens(sql, k)
  BY Zenon DEF Begins
<1>4. L[i].mode = "code" /\ L[i].since = s
  BY <1>3, ReadOther, SMTT(30), Zenon
<1>5. L[i + 1].mode = "code" /\ L[i + 1].since = s
  BY <1>4, ReadOther
<1>6. ~Opens(sql, i) /\ ~Opens(sql, i + 1)
  <2>1. Dash # Slash /\ Newline # Space /\ Newline # Dash
    BY CharactersAssumption, Zenon
  <2> QED
    BY <2>1, SMTT(30), Zenon DEF Opens, At, IsText
<1>7. CASE i + 2 > Len(sql)
  <2>1. Len(sql) = i + 1 /\ S = {}
    <3>1. Newline # Dash
      BY CharactersAssumption, Zenon
    <3> QED
      BY <1>7, <3>1, SMTT(30), Zenon
  <2>2. e + 1 = i + 2
    <3>1. e = Len(sql)
      BY <2>1, LeastOrFacts, Zenon
    <3> QED
      BY <2>1, <3>1
  <2>3. (i + 2) - 1 = i + 1 /\ i + 2 \in i + 1 .. Len(sql) + 1
    BY <2>1, SMTT(30), Zenon
  <2>4. s \in 0 .. i + 1 /\ \A k \in s + 1 .. i + 1 : ~Opens(sql, k)
    BY <1>3, <1>6, SMTT(30), ZenonT(30)
  <2>5. Begins(L, sql, i + 2)
    BY <1>5, <2>3, <2>4, SMTT(30), ZenonT(30) DEF Begins
  <2>6. \A k \in i - 1 .. (i + 2) - 2 : L[k].mode # "quoted"
    <3>1. \A k \in i - 1 .. (i + 2) - 2 : k = i - 1 \/ k = i
      OBVIOUS
    <3> QED
      BY <1>3, <1>4, <3>1, Zenon
  <2>7. Passes(L, sql, i, i + 2)
    BY <2>3, <2>5, <2>6, Zenon DEF Passes
  <2>8. Skips(L, sql, i, i + 2)
    <3>1. \A k \in i .. (i + 2) - 1 : sql[k] = Dash
      OBVIOUS
    <3> QED
      BY <3>1, Zenon DEF Skips
  <2> QED
    BY <1>2, <2>2, <2>7, <2>8, Zenon
<1>8. CASE i + 2 <= Len(sql) /\ sql[i + 2] = Newline
  <2>1. i + 2 \in S
    BY <1>8
  <2>2. \A j \in S : i + 2 <= j
    <3>1. Newline # Dash
      BY CharactersAssumption, Zenon
    <3> QED
      BY <3>1
  <2>3. e \in S /\ e <= i + 2
    BY <2>1, LeastOrFacts, ZenonT(30)
  <2>4. e + 1 = i + 3
    BY <2>2, <2>3
  <2>5. i + 2 \in 1 .. Len(sql) /\ (i + 2) - 1 = i + 1
    BY <1>8
  <2>6. L[i + 2].mode = "code" /\ L[i + 2].since = s
    BY <1>5, <1>8, <2>5, ReadOther
  <2>7. ~Opens(sql, i + 2)
    <3>1. Newline # Slash /\ Newline # Dash
      BY CharactersAssumption, Zenon
    <3> QED
      BY <1>8, <3>1, Zenon DEF Opens, At
  <2>8. (i + 3) - 1 = i + 2 /\ i + 3 \in i + 1 .. Len(sql) + 1
    BY <1>8, SMTT(30), Zenon
  <2>9. s \in 0 .. i + 2 /\ \A k \in s + 1 .. i + 2 : ~Opens(sql, k)
    BY <1>3, <1>6, <2>7, SMTT(30), ZenonT(30)
  <2>10. Begins(L, sql, i + 3)
    BY <2>6, <2>8, <2>9, Zenon DEF Begins
  <2>11. \A k \in i - 1 .. (i + 3) - 2 : L[k].mode # "quoted"
    <3>1. \A k \in i - 1 .. (i + 3) - 2 : k = i - 1 \/ k = i \/ k = i + 1
      OBVIOUS
    <3> QED
      BY <1>3, <1>4, <1>5, <3>1, SMTT(30), ZenonT(30)
  <2>12. Passes(L, sql, i, i + 3)
    BY <2>8, <2>10, <2>11, Zenon DEF Passes
  <2>13. Skips(L, sql, i, i + 3)
    <3>1. \A k \in i .. (i + 3) - 1 : sql[k] = Dash \/ sql[k] = Newline
      BY <1>8, SMTT(30), Zenon
    <3> QED
      BY <3>1, Zenon DEF Skips
  <2> QED
    BY <1>2, <2>4, <2>12, <2>13, Zenon
<1> QED
  BY <1>7, <1>8

(* A slash and a star open a comment. *)
LEMMA BlockOpens ==
    ASSUME NEW sql, IsText(sql), NEW X, NEW L, Reads(L, sql, X),
           NEW i \in 1 .. Len(sql), Begins(L, sql, i), i + 1 \in 1 .. Len(sql),
           sql[i] = Slash, sql[i + 1] = Star
    PROVE  /\ L[i].mode = "code" /\ L[i].since = L[i - 1].since
           /\ L[i + 1].mode = "block" /\ L[i + 1].since = i + 1
<1>1. Len(sql) \in Nat /\ i \in 0 .. Len(sql) /\ (i + 1) - 1 = i /\ i + 1 \in Nat
  BY DEF IsText
<1>2. L[i - 1].mode = "code" /\ L[i - 1].since \in 0 .. i - 1
  BY Zenon DEF Begins
<1>3. L[i].mode = "code" /\ L[i].since = L[i - 1].since
  BY <1>2, ReadOther
<1>4. L[i] \in Lexer /\ L[i + 1] = ReadChar(L[i], sql, i + 1, X)
  BY <1>1, SMTT(30), Zenon DEF Reads
<1>5. sql[(i + 1) - 1] = Slash /\ (i + 1) - 1 > L[i].since
  BY <1>1, <1>2, <1>3, SMTT(30), Zenon
<1> DEFINE r == ReadChar(L[i], sql, i + 1, X)
<1>6. r.mode = "block" /\ r.since = i + 1
  BY <1>1, <1>3, <1>4, <1>5, ReadStar, SMTT(30), Zenon
<1> QED
  BY <1>3, <1>4, <1>6, Zenon

(* Where the scanner sees a comment the lexer reads one, of the same length. *)
LEMMA CommentRead ==
    ASSUME NEW sql, IsText(sql), NEW X, NEW L, Reads(L, sql, X),
           NEW i \in 1 .. Len(sql), Begins(L, sql, i), NEW f,
           scan_sql_region(sql, i, f).type = "COMMENT", sql[i] \notin Quotes
    PROVE  LET end == scan_sql_region(sql, i, f).end
           IN Passes(L, sql, i, end) /\ Skips(L, sql, i, end)
<1> DEFINE region == scan_sql_region(sql, i, f)
           s == L[i - 1].since
           block == At(sql, i, Slash) /\ At(sql, i + 1, Star)
           dashes == /\ At(sql, i, Dash) /\ At(sql, i + 1, Dash)
                     /\ i + 2 > Len(sql) \/ sql[i + 2] \in {Space, Newline}
<1> Len(sql) \in Nat /\ i \in Nat /\ DOMAIN sql = 1 .. Len(sql) /\ i - 1 \in 0 .. Len(sql)
  BY SMTT(30) DEF IsText
<1>2. L[i - 1].mode = "code" /\ s \in 0 .. i - 1
  BY Zenon DEF Begins
<1>3. L[i - 1] \in Lexer /\ L[i] = ReadChar(L[i - 1], sql, i, X)
  BY Zenon DEF Reads
<1>4. CASE block
  <2>1. region = BlockComment(sql, i)
    BY <1>4, SMTT(30), Zenon DEF scan_sql_region
  <2>2. /\ i + 1 \in 1 .. Len(sql) /\ sql[i] = Slash /\ sql[i + 1] = Star
        /\ (i + 1) - 1 = i /\ i \in 0 .. Len(sql)
    BY <1>4, SMTT(30), Zenon DEF At
  <2>3. /\ L[i].mode = "code" /\ L[i].since = s
        /\ L[i + 1].mode = "block" /\ L[i + 1].since = i + 1
    BY ONLY IsText(sql), Reads(L, sql, X), i \in 1 .. Len(sql), Begins(L, sql, i), <2>2,
            BlockOpens, SMTT(30), Zenon
  <2>4. BlockComment(sql, i).type = "COMMENT"
    BY <2>1, SMTT(30), Zenon
  <2>5. Passes(L, sql, i, BlockComment(sql, i).end) /\ Skips(L, sql, i, BlockComment(sql, i).end)
    BY <1>2, <2>2, <2>3, <2>4, BlockRead, SMTT(30), ZenonT(30)
  <2> QED
    BY <2>1, <2>5, Zenon
<1>5. CASE ~block /\ sql[i] = Hash
  <2>1. region = LineComment(sql, i)
    BY <1>5, SMTT(30), Zenon DEF scan_sql_region
  <2>2. L[i].mode = "line"
    BY <1>2, <1>3, <1>5, ReadHash, SMTT(30), ZenonT(30)
  <2>3. i \in i .. Len(sql) /\ (\A k \in i - 1 .. i - 1 : L[k].mode = "code")
        /\ (\A k \in i + 1 .. i : sql[k] # Newline)
        /\ \A k \in i .. i - 1 : sql[k] \in {Slash, Dash, Newline}
    BY <1>2, SMTT(30), Zenon
  <2>4. Passes(L, sql, i, LineComment(sql, i).end) /\ Skips(L, sql, i, LineComment(sql, i).end)
    BY <2>2, <2>3, LineRead, SMTT(30), Zenon
  <2> QED
    BY <2>1, <2>4, Zenon
<1>6. CASE ~block /\ dashes
  <2>1. region = LineComment(sql, i)
    BY <1>6, SMTT(30), Zenon DEF scan_sql_region
  <2>2. i + 1 \in 1 .. Len(sql) /\ sql[i] = Dash /\ sql[i + 1] = Dash /\ (i + 1) - 1 = i
    BY <1>6, SMTT(30), Zenon DEF At
  <2>3. CASE i + 2 > Len(sql) \/ sql[i + 2] = Newline
    <3>1. i + 1 <= Len(sql)
      BY <2>2
    <3>2. Passes(L, sql, i, LineComment(sql, i).end) /\ Skips(L, sql, i, LineComment(sql, i).end)
      BY <2>2, <2>3, <3>1, ShortComment, SMTT(30), ZenonT(30)
    <3> QED
      BY <2>1, <3>2, Zenon
  <2>4. CASE i + 2 <= Len(sql) /\ sql[i + 2] = Space
    <3>1. /\ i + 2 \in 1 .. Len(sql) /\ i + 1 \in 0 .. Len(sql)
          /\ (i + 2) - 1 = i + 1 /\ (i + 2) - 2 = i
          /\ i + 2 \in Nat /\ i + 2 \in i .. Len(sql) /\ i > s
      BY <1>2, <2>2, <2>4, SMTT(30), ZenonT(30)
    <3>2. L[i].mode = "code" /\ L[i].since = s
      BY <1>2, <2>2, ReadOther, SMTT(30), ZenonT(30)
    <3>3. L[i + 1].mode = "code" /\ L[i + 1].since = s
      BY <2>2, <3>2, ReadOther, SMTT(30), Zenon
    <3>4. L[i + 1] \in Lexer /\ L[i + 2] = ReadChar(L[i + 1], sql, i + 2, X)
      BY <3>1, SMTT(30), ZenonT(30) DEF Reads
    <3>5. L[i + 2].mode = "line"
      <4>1. sql[(i + 2) - 1] = Dash /\ sql[(i + 2) - 2] = Dash /\ (i + 2) - 2 > L[i + 1].since
        BY <2>2, <3>1, <3>3, SMTT(30), Zenon
      <4> DEFINE r == ReadChar(L[i + 1], sql, i + 2, X)
      <4>2. r.mode = "line"
        BY <2>4, <3>1, <3>3, <3>4, <4>1, ReadDashes, SMTT(30), ZenonT(30)
      <4> QED
        BY <3>4, <4>2, Zenon
    <3>6. \A k \in i - 1 .. (i + 2) - 1 : L[k].mode = "code"
      BY <1>2, <3>2, <3>3, SMTT(30), ZenonT(30)
    <3>7. \A k \in i + 1 .. i + 2 : sql[k] # Newline
      <4>1. Newline # Dash /\ Newline # Space
        BY CharactersAssumption, SMTT(30), Zenon
      <4> QED
        BY <2>2, <2>4, <4>1, SMTT(30), Zenon
    <3>8. \A k \in i .. (i + 2) - 1 : sql[k] \in {Slash, Dash, Newline}
      BY <2>2, SMTT(30), Zenon
    <3>9. Passes(L, sql, i, LineComment(sql, i).end) /\ Skips(L, sql, i, LineComment(sql, i).end)
      BY <3>1, <3>5, <3>6, <3>7, <3>8, LineRead, SMTT(30), ZenonT(30)
    <3> QED
      BY <2>1, <3>9, Zenon
  <2> QED
    BY <1>6, <2>3, <2>4, SMTT(30), Zenon
<1>7. CASE ~block /\ sql[i] # Hash /\ ~dashes
  <2>1. region = [type |-> "NONE", end |-> i]
    BY <1>7, Zenon DEF scan_sql_region
  <2> QED
    BY <2>1, SMTT(30), Zenon
<1> QED
  BY <1>4, <1>5, <1>6, <1>7, Zenon

(* Where it sees none, none is opened. *)
LEMMA NoComment ==
    ASSUME NEW sql, IsText(sql), NEW i \in 1 .. Len(sql), NEW f,
           scan_sql_region(sql, i, f).type = "NONE", sql[i] \notin Quotes
    PROVE  sql[i] # Hash /\ ~Opens(sql, i)
<1>1. Len(sql) \in Nat /\ i \in Nat /\ DOMAIN sql = 1 .. Len(sql)
  BY DEF IsText
<1>2. ~(At(sql, i, Slash) /\ At(sql, i + 1, Star))
  BY <1>1, SMTT(30), Zenon DEF scan_sql_region, BlockComment
<1>3. sql[i] # Hash
  BY <1>1, <1>2, SMTT(30), Zenon DEF scan_sql_region, LineComment
<1>4. ~(At(sql, i, Dash) /\ At(sql, i + 1, Dash) /\ At(sql, i + 2, Space))
  BY <1>1, <1>2, SMTT(30), Zenon DEF scan_sql_region, LineComment, At
<1> QED
  BY <1>2, <1>3, <1>4, Zenon DEF Opens

---------------------------------------------------------------------------
(* Quoted regions *)

(* Where the region that starts at i is closed, seen from position k: the
   recursive function of QuotedRegion. *)
ClosedAt(close, sql, i, f, k) ==
    IF k > Len(sql) THEN 0
    ELSE IF sql[k] = Backslash /\ f /\ k < Len(sql) THEN close[k + 2]
    ELSE IF sql[k] # sql[i] THEN close[k + 1]
    ELSE IF At(sql, k + 1, sql[i]) THEN close[k + 2]
    ELSE k

(* It satisfies its equation. *)
CloseOf(close, sql, i, f) ==
    \A k \in i + 1 .. Len(sql) + 2 : close[k] = ClosedAt(close, sql, i, f, k)

(* The region that ends with the quote at c. *)
Region(sql, c) ==
    IF c = 0 THEN [type |-> "UNTERMINATED", end |-> Len(sql) + 1]
    ELSE [type |-> "QUOTED", end |-> c + 1]

(* The function of QuotedRegion exists: every case looks further right. *)
LEMMA CloseExists ==
    ASSUME NEW sql, IsText(sql), NEW i \in 1 .. Len(sql), NEW f \in BOOLEAN
    PROVE  \E close :
              /\ QuotedRegion(sql, i, f) = Region(sql, close[i + 1])
              /\ CloseOf(close, sql, i, f)
<1> DEFINE a == i + 1
           b == Len(sql) + 2
           two(k) == \/ sql[k] = Backslash /\ f /\ k < Len(sql)
                     \/ sql[k] = sql[i] /\ At(sql, k + 1, sql[i])
           Given == {k \in a .. b : k > Len(sql) \/ (sql[k] = sql[i] /\ ~two(k))}
           v == [k \in a .. b |-> IF k > Len(sql) THEN 0 ELSE k]
           J == [k \in a .. b |-> IF two(k) THEN k + 2 ELSE k + 1]
           P(g) == g = [k \in i + 1 .. Len(sql) + 2 |->
                          IF k > Len(sql) THEN 0
                          ELSE IF sql[k] = Backslash /\ f /\ k < Len(sql) THEN g[k + 2]
                          ELSE IF sql[k] # sql[i] THEN g[k + 1]
                          ELSE IF At(sql, k + 1, sql[i]) THEN g[k + 2]
                          ELSE k]
           close == CHOOSE g : P(g)
<1> Len(sql) \in Nat /\ i \in Nat /\ a \in Int /\ b \in Int /\ a <= b + 1
  BY DEF IsText
<1>2. \A k \in a .. b : k \in Given => v[k] \in Nat
  OBVIOUS
<1>3. \A k \in a .. b : k \notin Given => J[k] \in k + 1 .. b
  OBVIOUS
<1>4. PICK g \in [a .. b -> Nat] : Jumps(g, a, b, Given, v, J)
  <2> HIDE DEF a, b, Given, v, J
  <2> QED
    BY <1>2, <1>3, JumpsExist, Zenon
<1>5. P(g)
  <2>1. ASSUME NEW k \in a .. b
        PROVE  g[k] = ClosedAt(g, sql, i, f, k)
    <3>1. g[k] = IF k \in Given THEN v[k] ELSE g[J[k]]
      BY <1>4, SMTT(30), Zenon DEF Jumps
    <3> QED
      BY <3>1, SMTT(30), Zenon DEF ClosedAt
  <2>2. g = [k \in a .. b |-> g[k]]
    BY <1>4, Zenon
  <2>3. g = [k \in a .. b |-> ClosedAt(g, sql, i, f, k)]
    BY <2>1, <2>2, Zenon
  <2> QED
    BY <2>3, Zenon DEF ClosedAt
<1>6. P(close)
  BY <1>5, Zenon
<1>7. QuotedRegion(sql, i, f) = Region(sql, close[i + 1])
  BY Zenon DEF QuotedRegion, Region
<1> HIDE DEF close
<1>8. \A k \in i + 1 .. Len(sql) + 2 : close[k] = ClosedAt(close, sql, i, f, k)
  BY <1>6, ZenonT(30) DEF ClosedAt
<1> QED
  BY <1>7, <1>8, Zenon DEF CloseOf

(* The last character was in a region of the quote q. *)
QuotedBy(lexer, q) == lexer.class = "quoted" /\ lexer.quote = q

(* The lexer is in the quoted region that starts at i, before position p. *)
Inside(L, sql, i, p) ==
    /\ p \in i + 1 .. Len(sql) + 1
    /\ \A k \in i .. p - 1 : QuotedBy(L[k], sql[i])
    /\ L[p - 1].mode = "quoted" /\ L[p - 1].quote = sql[i]
    /\ p <= Len(sql) => ~L[p - 1].escaped

(* A quote in code opens a region, *)
LEMMA QuoteOpens ==
    ASSUME NEW sql, IsText(sql), NEW X, NEW L, Reads(L, sql, X),
           NEW k \in 1 .. Len(sql), L[k - 1].mode = "code", sql[k] \in Quotes
    PROVE  L[k].class = "quoted" /\ L[k].quote = sql[k] /\ L[k].mode = "quoted" /\ ~L[k].escaped
<1>1. k - 1 \in 0 .. Len(sql) /\ k \in Nat
  BY SMTT(30) DEF IsText
<1>2. L[k - 1] \in Lexer /\ L[k] = ReadChar(L[k - 1], sql, k, X)
  BY <1>1, SMTT(30), Zenon DEF Reads
<1> DEFINE r == ReadChar(L[k - 1], sql, k, X)
<1>3. r.class = "quoted" /\ r.quote = sql[k] /\ r.mode = "quoted" /\ r.escaped = FALSE
  BY <1>1, <1>2, SMTT(30), Zenon DEF ReadChar, Lexer
<1> QED
  BY <1>2, <1>3, SMTT(30), Zenon

(* in which an escaped character is nothing but a character. *)
LEMMA EscapedIsRead ==
    ASSUME NEW sql, IsText(sql), NEW X, NEW L, Reads(L, sql, X),
           NEW k \in 1 .. Len(sql), L[k - 1].mode = "quoted", L[k - 1].escaped
    PROVE  /\ L[k].class = "quoted" /\ L[k].quote = L[k - 1].quote
           /\ L[k].mode = "quoted" /\ ~L[k].escaped
<1>1. k - 1 \in 0 .. Len(sql) /\ k \in Nat
  BY SMTT(30) DEF IsText
<1>2. L[k - 1] \in Lexer /\ L[k] = ReadChar(L[k - 1], sql, k, X)
  BY <1>1, SMTT(30), Zenon DEF Reads
<1> DEFINE r == ReadChar(L[k - 1], sql, k, X)
<1>3. /\ r.class = "quoted" /\ r.quote = L[k - 1].quote
      /\ r.mode = "quoted" /\ r.escaped = FALSE
  BY <1>1, <1>2, SMTT(30), ZenonT(30) DEF ReadChar, Lexer
<1> QED
  BY <1>2, <1>3, Zenon

(* The lexer has read the last quote of that region, at p. *)
Left(L, sql, i, p) ==
    /\ L[p].mode = "code" /\ L[p].quote = sql[i] /\ L[p].escaped = FALSE
    /\ L[p].since = p /\ L[p].class = "quoted"

(* One step of the scanner in a region, and the characters the lexer reads
   for it: the closing quote, a character, or a pair of them. *)
LEMMA InsideStep ==
    ASSUME NEW sql, IsText(sql), NEW X, NEW L, Reads(L, sql, X),
           NEW i \in 1 .. Len(sql), sql[i] \in Quotes, NEW f \in BOOLEAN, f <=> sql[i] \in X,
           NEW close,
           CloseOf(close, sql, i, f),
           NEW p \in 1 .. Len(sql), Inside(L, sql, i, p)
    PROVE  \/ close[p] = p /\ Left(L, sql, i, p)
           \/ Inside(L, sql, i, p + 1) /\ close[p] = close[p + 1]
           \/ Inside(L, sql, i, p + 2) /\ close[p] = close[p + 2]
<1> DEFINE q == sql[i]
<1>1. p \in i + 1 .. Len(sql) + 1
  BY Zenon DEF Inside
<1> /\ Len(sql) \in Nat /\ i \in Nat /\ p \in Nat /\ DOMAIN sql = 1 .. Len(sql)
      /\ p - 1 \in 0 .. Len(sql) /\ p \in i + 1 .. Len(sql) /\ p \in 0 .. Len(sql)
      /\ (p + 1) - 1 = p /\ (p + 2) - 1 = p + 1
  BY <1>1, SMTT(30), Zenon DEF IsText
<1>2. /\ L[p - 1] \in Lexer /\ L[p] \in Lexer
      /\ L[p] = ReadChar(L[p - 1], sql, p, X)
  BY Zenon DEF Reads
<1>3. /\ L[p - 1].mode = "quoted" /\ L[p - 1].quote = q /\ ~L[p - 1].escaped
      /\ \A k \in i .. p - 1 : QuotedBy(L[k], sql[i])
  BY DEF Inside
<1>4. close[p] = ClosedAt(close, sql, i, f, p)
  BY SMTT(30) DEF CloseOf
<1>5. q # Backslash
  BY CharactersAssumption, SMTT(30), ZenonT(30) DEF Quotes
<1>6. /\ L[p].class = "quoted" /\ L[p].quote = q
      /\ L[p].escaped = (sql[p] = Backslash /\ f)
      /\ L[p].mode = IF sql[p] = q THEN "code" ELSE "quoted"
      /\ sql[p] = q => L[p].since = p
  <2> DEFINE r == ReadChar(L[p - 1], sql, p, X)
  <2>1. /\ r.class = "quoted" /\ r.quote = q
        /\ r.escaped = (sql[p] = Backslash /\ q \in X)
        /\ r.mode = IF ~(sql[p] = Backslash /\ q \in X) /\ sql[p] = q THEN "code" ELSE "quoted"
        /\ (~(sql[p] = Backslash /\ q \in X) /\ sql[p] = q) => r.since = p
    BY <1>2, <1>3, ReadQuoted, SMTT(30), Zenon
  <2> QED
    BY <1>2, <1>5, <2>1, SMTT(30), ZenonT(30)
<1>7. \A k \in i .. p : QuotedBy(L[k], sql[i])
  <2>1. \A k \in i .. p : k \in i .. p - 1 \/ k = p
    OBVIOUS
  <2> QED
    BY <1>3, <1>6, <2>1, Zenon DEF QuotedBy
<1>8. p + 1 <= Len(sql) => p + 2 \in i + 1 .. Len(sql) + 1
  BY SMTT(30)
<1>9. CASE sql[p] = Backslash /\ f /\ p < Len(sql)
  <2>1. close[p] = close[p + 2]
    BY <1>4, <1>9, SMTT(30), Zenon DEF ClosedAt
  <2>2. p + 1 <= Len(sql)
    BY <1>9, SMTT(30), Zenon
  <2>3. L[p].mode = "quoted" /\ L[p].escaped
    BY <1>5, <1>6, <1>9, ZenonT(30)
  <2>5. /\ L[p + 1].class = "quoted" /\ L[p + 1].quote = q
        /\ L[p + 1].mode = "quoted" /\ ~L[p + 1].escaped
    <3>1. p + 1 \in 1 .. Len(sql) /\ L[(p + 1) - 1].mode = "quoted" /\ L[(p + 1) - 1].escaped
      BY <2>2, <2>3, SMTT(30), Zenon
    <3>2. L[(p + 1) - 1].quote = q
      BY <1>6, Zenon
    <3> QED
      BY <3>1, <3>2, EscapedIsRead, SMTT(30), Zenon
  <2>6. \A k \in i .. (p + 2) - 1 : QuotedBy(L[k], sql[i])
    <3>1. \A k \in i .. (p + 2) - 1 : k \in i .. p \/ k = p + 1
      BY SMTT(30)
    <3> QED
      BY <1>7, <2>5, <3>1, Zenon DEF QuotedBy
  <2>7. Inside(L, sql, i, p + 2)
    BY <1>8, <2>2, <2>5, <2>6, SMTT(30), Zenon DEF Inside
  <2> QED
    BY <2>1, <2>7, SMTT(30), ZenonT(30)
<1>10. CASE ~(sql[p] = Backslash /\ f /\ p < Len(sql)) /\ sql[p] # q
  <2>1. close[p] = close[p + 1]
    BY <1>4, <1>10 DEF ClosedAt
  <2>2. L[p].mode = "quoted" /\ (p + 1 <= Len(sql) => ~L[p].escaped)
    <3>1. L[p].mode = "quoted"
      BY <1>6, <1>10, SMTT(30), Zenon
    <3>2. p + 1 <= Len(sql) => ~(sql[p] = Backslash /\ f)
      BY <1>10
    <3> QED
      BY <1>6, <3>1, <3>2, ZenonT(30)
  <2>3. p + 1 \in i + 1 .. Len(sql) + 1
    BY SMTT(30)
  <2>4. \A k \in i .. (p + 1) - 1 : QuotedBy(L[k], sql[i])
    BY <1>7, SMTT(30), Zenon
  <2>5. Inside(L, sql, i, p + 1)
    BY <1>6, <2>2, <2>3, <2>4, SMTT(30), Zenon DEF Inside
  <2> QED
    BY <2>1, <2>5, SMTT(30), Zenon
<1>11. CASE sql[p] = q /\ At(sql, p + 1, q)
  <2>1. close[p] = close[p + 2]
    BY <1>4, <1>5, <1>11, SMTT(30), Zenon DEF ClosedAt
  <2>2. p + 1 <= Len(sql) /\ sql[p + 1] = q
    BY <1>11, SMTT(30), Zenon DEF At
  <2>3. L[p].mode = "code" /\ sql[p + 1] \in Quotes
    BY <1>6, <1>11, <2>2, SMTT(30), ZenonT(30)
  <2>5. /\ L[p + 1].class = "quoted" /\ L[p + 1].quote = q
        /\ L[p + 1].mode = "quoted" /\ ~L[p + 1].escaped
    <3>1. p + 1 \in 1 .. Len(sql) /\ L[(p + 1) - 1].mode = "code"
      BY <2>2, <2>3, SMTT(30), ZenonT(30)
    <3> QED
      BY <2>2, <2>3, <3>1, QuoteOpens, SMTT(30), ZenonT(30)
  <2>6. \A k \in i .. (p + 2) - 1 : QuotedBy(L[k], sql[i])
    <3>1. \A k \in i .. (p + 2) - 1 : k \in i .. p \/ k = p + 1
      OBVIOUS
    <3> QED
      BY <1>7, <2>5, <3>1, Zenon DEF QuotedBy
  <2>7. Inside(L, sql, i, p + 2)
    BY <1>8, <2>2, <2>5, <2>6, SMTT(30), ZenonT(30) DEF Inside
  <2> QED
    BY <2>1, <2>7, Zenon
<1>12. CASE sql[p] = q /\ ~At(sql, p + 1, q)
  <2>1. close[p] = p
    BY <1>4, <1>5, <1>12, SMTT(30), ZenonT(30) DEF ClosedAt
  <2> QED
    BY <1>5, <1>6, <1>12, <2>1, ZenonT(30) DEF Left
<1> QED
  BY <1>9, <1>10, <1>11, <1>12, SMTT(30), Zenon

(* The lexer reads the characters of a region as quoted and is then in code,
   or the text ends in the region. *)
LexesAs(L, sql, i, r) ==
    /\ r.end \in i + 1 .. Len(sql) + 1
    /\ \A k \in i .. r.end - 1 : QuotedBy(L[k], sql[i])
    /\ \/ r.type = "QUOTED" /\ Left(L, sql, i, r.end - 1)
       \/ r.type = "UNTERMINATED" /\ r.end = Len(sql) + 1 /\ L[r.end - 1].mode = "quoted"

(* Where the scanner sees a quoted region the lexer reads one, of the same
   length, when both or neither let backslashes escape. *)
LEMMA QuotedRead ==
    ASSUME NEW sql, IsText(sql), NEW X, NEW L, Reads(L, sql, X),
           NEW i \in 1 .. Len(sql), sql[i] \in Quotes, NEW f \in BOOLEAN, f <=> sql[i] \in X,
           L[i - 1].mode = "code"
    PROVE  LexesAs(L, sql, i, QuotedRegion(sql, i, f))
<1>1. PICK close :
              /\ QuotedRegion(sql, i, f) = Region(sql, close[i + 1])
              /\ CloseOf(close, sql, i, f)
  BY CloseExists, SMTT(30), Zenon
<1> /\ Len(sql) \in Nat /\ i \in Nat /\ i - 1 \in 0 .. Len(sql) /\ (i + 1) - 1 = i
  BY SMTT(30) DEF IsText
<1>3. Inside(L, sql, i, i + 1)
  <2>3. L[i].mode = "quoted" /\ L[i].quote = sql[i] /\ ~L[i].escaped /\ L[i].class = "quoted"
    BY QuoteOpens, SMTT(30), Zenon
  <2>4. i + 1 \in i + 1 .. Len(sql) + 1 /\ \A k \in i .. i : QuotedBy(L[k], sql[i])
    BY <2>3, SMTT(30), Zenon DEF QuotedBy
  <2> QED
    BY <2>3, <2>4, SMTT(30), Zenon DEF Inside
(* The last position inside the region. *)
<1> DEFINE T == {n \in Nat : \E p \in i + 1 .. Len(sql) + 1 :
                    n = Len(sql) + 1 - p /\ Inside(L, sql, i, p) /\ close[p] = close[i + 1]}
<1>4. PICK p \in i + 1 .. Len(sql) + 1 :
         /\ Inside(L, sql, i, p) /\ close[p] = close[i + 1]
         /\ \A j \in i + 1 .. Len(sql) + 1 :
              Inside(L, sql, i, j) /\ close[j] = close[i + 1] => j <= p
  <2>1. Len(sql) + 1 - (i + 1) \in T
    BY <1>3, SMTT(30), Zenon
  <2>2. T \subseteq Nat /\ T # {}
    BY <2>1, SMTT(30), Zenon
  <2>3. PICK n \in T : \A m \in T : n <= m
    <3> HIDE DEF T
    <3> QED
      BY <2>2, Least, Zenon
  <2>4. PICK p \in i + 1 .. Len(sql) + 1 :
           n = Len(sql) + 1 - p /\ Inside(L, sql, i, p) /\ close[p] = close[i + 1]
    BY <2>3, SMTT(30), Zenon
  <2>5. ASSUME NEW j \in i + 1 .. Len(sql) + 1, Inside(L, sql, i, j), close[j] = close[i + 1]
        PROVE  j <= p
    <3>1. Len(sql) + 1 - j \in T
      BY <2>5
    <3>2. n <= Len(sql) + 1 - j
      BY <2>3, <3>1, ZenonT(30)
    <3> QED
      BY <2>4, <3>2, SMTT(30), Zenon
  <2> QED
    BY <2>4, <2>5, SMTT(30), Zenon
<1> HIDE DEF T
<1>5. CASE p = Len(sql) + 1
  <2>1. close[p] = 0
    <3>1. p \in i + 1 .. Len(sql) + 2 /\ p > Len(sql)
      BY <1>5
    <3>2. close[p] = ClosedAt(close, sql, i, f, p)
      BY <1>1, <3>1, Zenon DEF CloseOf
    <3> QED
      BY <3>1, <3>2, SMTT(30), Zenon DEF ClosedAt
  <2>2. Region(sql, close[i + 1]) = [type |-> "UNTERMINATED", end |-> p]
    BY <1>4, <1>5, <2>1, SMTT(30), ZenonT(30) DEF Region
  <2>3. L[p - 1].mode = "quoted" /\ \A k \in i .. p - 1 : QuotedBy(L[k], sql[i])
    BY <1>4, SMTT(30), Zenon DEF Inside
  <2> QED
    BY <1>1, <1>4, <1>5, <2>2, <2>3, SMTT(30), Zenon DEF LexesAs
<1>6. CASE p # Len(sql) + 1
  <2>1. p \in 1 .. Len(sql)
    BY <1>6, SMTT(30), Zenon
  <2>2. ~(Inside(L, sql, i, p + 1) /\ close[p] = close[p + 1])
    <3> SUFFICES ASSUME Inside(L, sql, i, p + 1), close[p] = close[p + 1] PROVE FALSE
      BY Zenon
    <3>1. p + 1 <= p
      BY <1>4, Zenon DEF Inside
    <3> QED
      BY <2>1, <3>1, SMTT(30), Zenon
  <2>3. ~(Inside(L, sql, i, p + 2) /\ close[p] = close[p + 2])
    <3> SUFFICES ASSUME Inside(L, sql, i, p + 2), close[p] = close[p + 2] PROVE FALSE
      BY Zenon
    <3>1. p + 2 <= p
      BY <1>4, ZenonT(30) DEF Inside
    <3> QED
      BY <2>1, <3>1, SMTT(30), Zenon
  <2>4. close[p] = p /\ Left(L, sql, i, p)
    <3>1. Inside(L, sql, i, p)
      BY <1>4, SMTT(30), Zenon
    <3>2. CloseOf(close, sql, i, f)
      BY <1>1, SMTT(30), Zenon
    <3>3. \/ close[p] = p /\ Left(L, sql, i, p)
          \/ Inside(L, sql, i, p + 1) /\ close[p] = close[p + 1]
          \/ Inside(L, sql, i, p + 2) /\ close[p] = close[p + 2]
      BY <2>1, <3>1, <3>2, InsideStep, SMTT(30), Zenon
    <3> QED
      BY <2>2, <2>3, <3>3, SMTT(30), Zenon
  <2>5. Region(sql, close[i + 1]) = [type |-> "QUOTED", end |-> p + 1]
    BY <1>4, <2>1, <2>4, SMTT(30), Zenon DEF Region
  <2>6. \A k \in i .. p : QuotedBy(L[k], sql[i])
    <3>1. \A k \in i .. p - 1 : QuotedBy(L[k], sql[i])
      BY <1>4, SMTT(30), Zenon DEF Inside
    <3> QED
      BY <2>1, <2>4, <3>1, SMTT(30), Zenon DEF Left, QuotedBy
  <2>7. (p + 1) - 1 = p /\ p + 1 \in i + 1 .. Len(sql) + 1
    BY <1>4, <2>1, SMTT(30), Zenon
  <2> DEFINE r == QuotedRegion(sql, i, f)
  <2>8. r.type = "QUOTED" /\ r.end = p + 1 /\ r.end - 1 = p
    BY <1>1, <2>5, <2>7, SMTT(30), Zenon
  <2> HIDE DEF r
  <2>9. LexesAs(L, sql, i, r)
    BY <2>4, <2>6, <2>7, <2>8, SMTT(30), Zenon DEF LexesAs
  <2> QED
    BY <2>9, SMTT(30), Zenon DEF r
<1> QED
  BY <1>5, <1>6, SMTT(30), ZenonT(30)

(* A region is closed inside the text or not at all. *)
LEMMA CloseBounds ==
    ASSUME NEW sql, IsText(sql), NEW i \in 1 .. Len(sql), NEW f \in BOOLEAN,
           NEW close, CloseOf(close, sql, i, f)
    PROVE  close[i + 1] \in {0} \cup i + 1 .. Len(sql)
<1> DEFINE V == {0} \cup i + 1 .. Len(sql)
           N == Len(sql)
           T == {n \in 0 .. N + 1 - i : close[N + 2 - n] \notin V}
<1> N \in Nat /\ i \in Nat /\ i <= N
  BY DEF IsText
<1> SUFFICES ASSUME close[i + 1] \notin V PROVE FALSE
  BY Zenon
<1>2. N + 1 - i \in T
  OBVIOUS
<1>3. T \subseteq Nat
  OBVIOUS
<1>4. PICK n \in T : \A m \in T : n <= m
  <2> HIDE DEF T
  <2> QED
    BY <1>2, <1>3, Least, Zenon
<1> DEFINE k == N + 2 - n
<1>5. k \in i + 1 .. N + 2 /\ n \in Nat /\ close[k] \notin V
  BY <1>4, SMTT(30), Zenon
<1>6. \A j \in k + 1 .. N + 2 : close[j] \in V
  <2> SUFFICES ASSUME NEW j \in k + 1 .. N + 2, close[j] \notin V PROVE FALSE
    BY Zenon
  <2>1. N + 2 - j \in 0 .. N + 1 - i /\ N + 2 - (N + 2 - j) = j /\ N + 2 - j < n
    BY <1>5, SMTT(30), Zenon
  <2>2. N + 2 - j \in T
    BY <2>1, Zenon
  <2>3. n <= N + 2 - j
    BY <1>4, <2>2, Zenon
  <2> HIDE DEF T
  <2> QED
    BY <1>5, <2>1, <2>3, SMTT(30), Zenon
<1>7. close[k] = ClosedAt(close, sql, i, f, k)
  BY <1>5, SMTT(30), Zenon DEF CloseOf
<1> HIDE DEF k, T
<1>8. CASE k > N
  BY <1>5, <1>7, <1>8, SMTT(30), Zenon DEF ClosedAt
<1>9. CASE k <= N
  <2>1. k + 1 \in k + 1 .. N + 2 /\ k + 2 \in k + 1 .. N + 2 /\ k \in V
    BY <1>5, <1>9, SMTT(30), Zenon
  <2>2. close[k + 1] \in V /\ close[k + 2] \in V
    BY <1>6, <2>1, SMTT(30), Zenon
  <2> QED
    BY <1>5, <1>7, <1>9, <2>1, <2>2, SMTT(30), Zenon DEF ClosedAt
<1> QED
  BY <1>5, <1>8, <1>9, SMTT(30), Zenon

---------------------------------------------------------------------------
(* Regions *)

(* The scanner at a quote, *)
LEMMA ScanQuote ==
    ASSUME NEW sql, IsText(sql), NEW i \in 1 .. Len(sql), NEW f \in BOOLEAN, sql[i] \in Quotes
    PROVE  /\ scan_sql_region(sql, i, f) = QuotedRegion(sql, i, f)
           /\ scan_sql_region(sql, i, f).type \in {"QUOTED", "UNTERMINATED"}
<1>1. Len(sql) \in Nat /\ i \in Nat /\ ~(i > Len(sql))
  BY SMTT(30) DEF IsText
<1>2. sql[i] # Slash /\ sql[i] # Hash /\ sql[i] # Dash
  BY CharactersAssumption, SMTT(30), Zenon DEF Quotes
<1>3. scan_sql_region(sql, i, f) = QuotedRegion(sql, i, f)
  BY <1>1, <1>2, SMTT(30), Zenon DEF scan_sql_region, At
<1>4. QuotedRegion(sql, i, f).type \in {"QUOTED", "UNTERMINATED"}
  <2>1. PICK close : QuotedRegion(sql, i, f) = Region(sql, close[i + 1])
    BY CloseExists, SMTT(30), ZenonT(30)
  <2> QED
    BY <2>1, SMTT(30), Zenon DEF Region
<1> QED
  BY <1>3, <1>4, SMTT(30), Zenon

(* and anywhere: it always advances. *)
LEMMA RegionEnd ==
    ASSUME NEW sql, IsText(sql), NEW i \in 1 .. Len(sql), NEW f \in BOOLEAN
    PROVE  LET r == scan_sql_region(sql, i, f)
           IN r.type # "NONE" => r.end \in i + 1 .. Len(sql) + 1
<1> Len(sql) \in Nat /\ i \in Nat /\ ~(i > Len(sql))
  BY DEF IsText
<1>2. BlockComment(sql, i).end \in i + 1 .. Len(sql) + 1
  <2> DEFINE S == {j \in i + 2 .. Len(sql) - 1 : sql[j] = Star /\ sql[j + 1] = Slash}
             c == LeastOr(S, 0)
  <2>1. S \subseteq Nat
    OBVIOUS
  <2>2. c = 0 \/ c \in S
    BY <2>1, LeastOrFacts, Zenon
  <2>3. BlockComment(sql, i).end = IF c = 0 THEN Len(sql) + 1 ELSE c + 2
    BY Zenon DEF BlockComment
  <2> HIDE DEF c
  <2> QED
    BY <2>2, <2>3
<1>3. LineComment(sql, i).end \in i + 1 .. Len(sql) + 1
  <2> DEFINE S == {j \in i + 1 .. Len(sql) : sql[j] = Newline}
             c == LeastOr(S, Len(sql))
  <2>1. S \subseteq Nat
    OBVIOUS
  <2>2. c = Len(sql) \/ c \in S
    BY <2>1, LeastOrFacts, Zenon
  <2>3. LineComment(sql, i).end = c + 1
    BY Zenon DEF LineComment
  <2> HIDE DEF c
  <2> QED
    BY <2>2, <2>3, SMTT(30), Zenon
<1>4. QuotedRegion(sql, i, f).end \in i + 1 .. Len(sql) + 1
  <2>1. PICK close : /\ QuotedRegion(sql, i, f) = Region(sql, close[i + 1])
                     /\ CloseOf(close, sql, i, f)
    BY CloseExists, Zenon
  <2>2. close[i + 1] \in {0} \cup i + 1 .. Len(sql)
    BY <2>1, CloseBounds, SMTT(30), Zenon
  <2> QED
    BY <2>1, <2>2, SMTT(30), Zenon DEF Region
<1> QED
  BY <1>2, <1>3, <1>4, SMTT(30), Zenon DEF scan_sql_region

---------------------------------------------------------------------------
(* Searches *)

(* A function on D whose value is given, at the elements of Given, or is its
   value at an element nearer to the end. *)
Paths(f, D, Given, v, J) ==
    \A d \in D : f[d] = IF d \in Given THEN v[d] ELSE f[J[d]]

(* It exists if the distance to the end is bounded. *)
LEMMA PathsExist ==
    ASSUME NEW D, NEW V, NEW Given, NEW v, NEW J, NEW m, NEW N \in Nat,
           \A d \in D : m[d] \in 0 .. N,
           \A d \in D : d \in Given => v[d] \in V,
           \A d \in D : d \notin Given => J[d] \in D /\ m[J[d]] < m[d]
    PROVE  \E f \in [D -> V] : Paths(f, D, Given, v, J)
<1> DEFINE E(n) == {d \in D : m[d] < n}
           P(n) == \E f \in [E(n) -> V] : Paths(f, E(n), Given, v, J)
           G == {n \in Nat : P(n)}
<1>1. 0 \in G
  <2>1. E(0) = {}
    OBVIOUS
  <2> DEFINE f == [d \in E(0) |-> v[d]]
  <2>2. f \in [E(0) -> V] /\ Paths(f, E(0), Given, v, J)
    BY <2>1, Zenon DEF Paths
  <2> QED
    BY <2>2, Zenon
<1>2. ASSUME NEW n \in 0 .. (N + 1) - 1, n \in G PROVE n + 1 \in G
  <2>1. PICK f \in [E(n) -> V] : Paths(f, E(n), Given, v, J)
    BY <1>2, Zenon
  <2> DEFINE g == [d \in E(n + 1) |-> IF d \in Given THEN v[d] ELSE f[J[d]]]
  <2>2. ASSUME NEW d \in E(n + 1), d \notin Given PROVE J[d] \in E(n)
    <3>1. d \in D /\ m[d] < n + 1 /\ m[d] \in 0 .. N
      BY <2>2, Zenon
    <3>2. J[d] \in D /\ m[J[d]] < m[d]
      BY <2>2, <3>1, Zenon
    <3>3. m[J[d]] \in 0 .. N
      BY <3>2, Zenon
    <3>4. m[J[d]] < n
      BY <1>2, <3>1, <3>2, <3>3
    <3> QED
      BY <3>2, <3>4, Zenon
  <2>3. E(n) \subseteq E(n + 1) /\ E(n + 1) \subseteq D
    <3>1. ASSUME NEW d \in D, m[d] < n PROVE m[d] < n + 1
      BY <1>2, <3>1
    <3> QED
      BY <3>1, Zenon
  <2> HIDE DEF E
  <2>4. g \in [E(n + 1) -> V]
    <3>1. ASSUME NEW d \in E(n + 1)
          PROVE  (IF d \in Given THEN v[d] ELSE f[J[d]]) \in V
      BY <2>1, <2>2, <2>3, Zenon
    <3> QED
      BY <3>1, Zenon
  <2>5. ASSUME NEW d \in E(n) PROVE g[d] = f[d]
    BY <2>1, <2>3, Zenon DEF Paths
  <2>6. ASSUME NEW d \in E(n + 1) PROVE g[d] = IF d \in Given THEN v[d] ELSE g[J[d]]
    <3>1. g[d] = IF d \in Given THEN v[d] ELSE f[J[d]]
      BY Zenon
    <3> HIDE DEF g
    <3> QED
      BY <2>2, <2>5, <3>1, Zenon
  <2> HIDE DEF g
  <2>7. Paths(g, E(n + 1), Given, v, J)
    BY <2>6, Zenon DEF Paths
  <2>8. P(n + 1)
    BY <2>4, <2>7, Zenon
  <2> HIDE DEF P
  <2> QED
    BY <2>8
<1> HIDE DEF G
<1>3. N + 1 \in G
  BY <1>1, <1>2, UpTo
<1>4. E(N + 1) = D
  <2>1. ASSUME NEW d \in D PROVE m[d] < N + 1
    <3>1. m[d] \in 0 .. N
      BY Zenon
    <3> QED
      BY <3>1
  <2> QED
    BY <2>1, Zenon
<1> HIDE DEF E
<1> QED
  BY <1>3, <1>4, Zenon DEF G

(* Its values are among those given. *)
LEMMA PathsRange ==
    ASSUME NEW D, NEW V, NEW Given, NEW v, NEW J, NEW m, NEW N \in Nat,
           \A d \in D : m[d] \in 0 .. N,
           \A d \in D : d \in Given => v[d] \in V,
           \A d \in D : d \notin Given => J[d] \in D /\ m[J[d]] < m[d],
           NEW f, Paths(f, D, Given, v, J)
    PROVE  \A d \in D : f[d] \in V
<1> DEFINE T == {n \in 0 .. N : \E d \in D : m[d] = n /\ f[d] \notin V}
<1> SUFFICES ASSUME NEW c \in D, f[c] \notin V PROVE FALSE
  BY Zenon
<1>1. m[c] \in T /\ T \subseteq Nat
  OBVIOUS
<1>2. PICK n \in T : \A k \in T : n <= k
  <2> HIDE DEF T
  <2> QED
    BY <1>1, Least, Zenon
<1>3. PICK d \in D : m[d] = n /\ f[d] \notin V
  BY <1>2, Zenon
<1>4. d \notin Given /\ f[d] = f[J[d]]
  BY <1>3, Zenon DEF Paths
<1>5. J[d] \in D /\ m[J[d]] < n /\ m[J[d]] \in 0 .. N /\ f[J[d]] \notin V
  BY <1>3, <1>4, Zenon
<1>6. m[J[d]] \in T
  BY <1>5, Zenon
<1> HIDE DEF T
<1> QED
  BY <1>1, <1>2, <1>5, <1>6

---------------------------------------------------------------------------
(* Where find_in_code goes on after a quoted region *)

(* The recursive function of SkipQuoted, for the region that starts at i. *)
AfterAt(after, sql, i, k) ==
    IF k > Len(sql) THEN k + 1
    ELSE IF sql[k] = Backslash /\ sql[i] # Btick THEN after[k + 2]
    ELSE IF sql[k] # sql[i] THEN after[k + 1]
    ELSE IF At(sql, k + 1, sql[i]) THEN after[k + 2]
    ELSE k + 1

AfterOf(after, sql, i) ==
    \A k \in i + 1 .. Len(sql) + 2 : after[k] = AfterAt(after, sql, i, k)

(* It exists, and it moves on. *)
LEMMA AfterExists ==
    ASSUME NEW sql, IsText(sql), NEW i \in 1 .. Len(sql)
    PROVE  \E after :
              /\ SkipQuoted(sql, i + 1, sql[i]) = after[i + 1]
              /\ AfterOf(after, sql, i)
              /\ after[i + 1] \in i + 2 .. Len(sql) + 3
<1> DEFINE b == Len(sql) + 2
           D == i + 1 .. b
           two(k) == \/ sql[k] = Backslash /\ sql[i] # Btick
                     \/ sql[k] = sql[i] /\ At(sql, k + 1, sql[i])
           Given == {k \in D : k > Len(sql) \/ (sql[k] = sql[i] /\ ~two(k))}
           v == [k \in D |-> k + 1]
           J == [k \in D |-> IF two(k) THEN k + 2 ELSE k + 1]
           m == [k \in D |-> b - k]
           V == i + 2 .. Len(sql) + 3
           P(g) == g = [k \in i + 1 .. Len(sql) + 2 |->
                          IF k > Len(sql) THEN k + 1
                          ELSE IF sql[k] = Backslash /\ sql[i] # Btick THEN g[k + 2]
                          ELSE IF sql[k] # sql[i] THEN g[k + 1]
                          ELSE IF At(sql, k + 1, sql[i]) THEN g[k + 2]
                          ELSE k + 1]
           after == CHOOSE g : P(g)
<1>1. Len(sql) \in Nat /\ i \in Nat /\ b \in Nat /\ i + 1 \in D
  BY DEF IsText
<1>2. \A k \in D : m[k] \in 0 .. b
  BY <1>1
<1>3. \A k \in D : k \in Given => v[k] \in V
  BY <1>1
<1>4. \A k \in D : k \notin Given => J[k] \in D /\ m[J[k]] < m[k]
  <2> SUFFICES ASSUME NEW k \in D, k \notin Given PROVE J[k] \in D /\ b - J[k] < b - k
    BY Zenon
  <2>1. k \in D /\ k + 1 \in D /\ k + 2 \in D
    BY <1>1
  <2> QED
    BY <1>1, <2>1
<1>5. ASSUME NEW g, NEW k \in D
      PROVE  AfterAt(g, sql, i, k) = IF k \in Given THEN v[k] ELSE g[J[k]]
  BY Zenon DEF AfterAt
<1>6. \E g : P(g)
  <2>1. PICK g \in [D -> V] : Paths(g, D, Given, v, J)
    <3> HIDE DEF b, D, Given, v, J, V, m
    <3> QED
      BY <1>1, <1>2, <1>3, <1>4, PathsExist, ZenonT(30)
  <2>2. g = [k \in D |-> g[k]]
    BY <2>1, Zenon
  <2>3. g = [k \in D |-> AfterAt(g, sql, i, k)]
    <3> HIDE DEF D, Given, v, J
    <3>1. \A k \in D : g[k] = AfterAt(g, sql, i, k)
      BY <1>5, <2>1, Zenon DEF Paths
    <3> QED
      BY <2>2, <3>1, Zenon
  <2>4. P(g)
    BY <2>3, Zenon DEF AfterAt
  <2> QED
    BY <2>4, Zenon
<1>7. P(after)
  BY <1>6, Zenon
<1>8. SkipQuoted(sql, i + 1, sql[i]) = after[i + 1]
  BY Zenon DEF SkipQuoted
<1> HIDE DEF after
<1>9. AfterOf(after, sql, i)
  BY <1>7, Zenon DEF AfterAt, AfterOf
<1>10. after[i + 1] \in V
  <2>1. Paths(after, D, Given, v, J)
    <3> HIDE DEF Given, v, J
    <3> QED
      BY <1>5, <1>9, Zenon DEF Paths, AfterOf
  <2> HIDE DEF b, D, Given, v, J, V, m
  <2>2. \A k \in D : after[k] \in V
    BY <1>1, <1>2, <1>3, <1>4, <2>1, PathsRange, ZenonT(30)
  <2> QED
    BY <1>1, <2>2, Zenon
<1> QED
  BY <1>8, <1>9, <1>10, Zenon

(* A quoted region ends for find_in_code where it ends for the scanner. *)
LEMMA SkipQuotedRegion ==
    ASSUME NEW sql, IsText(sql), NEW i \in 1 .. Len(sql), sql[i] \in Quotes,
           NEW f \in BOOLEAN, f <=> sql[i] # Btick,
           QuotedRegion(sql, i, f).type = "QUOTED"
    PROVE  SkipQuoted(sql, i + 1, sql[i]) = QuotedRegion(sql, i, f).end
<1> DEFINE b == Len(sql) + 2
<1>1. Len(sql) \in Nat /\ i \in Nat /\ b \in Nat
  BY DEF IsText
<1>2. PICK close : /\ QuotedRegion(sql, i, f) = Region(sql, close[i + 1])
                   /\ CloseOf(close, sql, i, f)
  BY CloseExists, Zenon
<1>3. PICK after : /\ SkipQuoted(sql, i + 1, sql[i]) = after[i + 1]
                   /\ AfterOf(after, sql, i)
  BY AfterExists, Zenon
<1> DEFINE Agree(k) == close[k] # 0 => after[k] = close[k] + 1
           G == {n \in Nat : \A k \in i + 1 .. b : k >= b - n => Agree(k)}
<1>4. ASSUME NEW k \in i + 1 .. b, \A j \in k + 1 .. b : Agree(j) PROVE Agree(k)
  <2>1. close[k] = ClosedAt(close, sql, i, f, k) /\ after[k] = AfterAt(after, sql, i, k)
    BY <1>2, <1>3, Zenon DEF CloseOf, AfterOf
  <2>2. CASE k > Len(sql)
    BY <2>1, <2>2, Zenon DEF ClosedAt
  <2>3. CASE k = Len(sql) /\ sql[k] = Backslash
    <3>1. sql[k] # sql[i]
      BY <2>3, CharactersAssumption, Zenon DEF Quotes
    <3>2. close[k] = close[k + 1] /\ k + 1 \in i + 1 .. b /\ k + 1 > Len(sql)
      BY <1>1, <2>1, <2>3, <3>1 DEF ClosedAt
    <3>3. close[k + 1] = ClosedAt(close, sql, i, f, k + 1)
      BY <1>2, <3>2, Zenon DEF CloseOf
    <3> QED
      BY <3>2, <3>3, Zenon DEF ClosedAt
  <2>4. CASE k <= Len(sql) /\ (k < Len(sql) \/ sql[k] # Backslash)
    <3>1. k + 1 \in k + 1 .. b /\ k + 2 \in k + 1 .. b
      BY <1>1, <2>4
    <3>2. Agree(k + 1) /\ Agree(k + 2)
      BY <1>4, <3>1, Zenon
    <3> QED
      BY <2>1, <2>4, <3>2, Zenon DEF ClosedAt, AfterAt
  <2> QED
    BY <1>1, <2>2, <2>3, <2>4
<1>5. 0 \in G
  <2> SUFFICES ASSUME NEW k \in i + 1 .. b, k >= b - 0 PROVE Agree(k)
    BY Zenon
  <2>1. \A j \in k + 1 .. b : Agree(j)
    BY <1>1
  <2> HIDE DEF Agree, b
  <2> QED
    BY <1>4, <2>1, Zenon
<1>6. ASSUME NEW n \in 0 .. b - 1, n \in G PROVE n + 1 \in G
  <2> SUFFICES ASSUME NEW k \in i + 1 .. b, k >= b - (n + 1) PROVE Agree(k)
    BY <1>6
  <2>1. \A j \in k + 1 .. b : j >= b - n /\ j \in i + 1 .. b
    BY <1>1
  <2> HIDE DEF Agree, b
  <2>2. \A j \in k + 1 .. b : Agree(j)
    BY <1>6, <2>1, Zenon
  <2> QED
    BY <1>4, <2>2, Zenon
<1>7. b \in G
  <2> HIDE DEF G, b
  <2> QED
    BY <1>1, <1>5, <1>6, UpTo, Zenon
<1>8. Agree(i + 1)
  <2>1. i + 1 \in i + 1 .. b /\ i + 1 >= b - b
    BY <1>1
  <2> HIDE DEF Agree, b
  <2> QED
    BY <1>7, <2>1, Zenon
<1>9. close[i + 1] # 0 /\ QuotedRegion(sql, i, f).end = close[i + 1] + 1
  BY <1>2 DEF Region
<1> QED
  BY <1>3, <1>8, <1>9, Zenon

---------------------------------------------------------------------------
(* find_in_code *)

(* Where the search goes on from a position that is no match. *)
Skip(sql, i) ==
    IF sql[i] \in Quotes THEN SkipQuoted(sql, i + 1, sql[i])
    ELSE IF sql[i] = Dash /\ At(sql, i + 1, Dash) THEN SkipLine(sql, i + 2)
    ELSE IF sql[i] = Slash /\ At(sql, i + 1, Star) THEN SkipBlock(sql, i + 2)
    ELSE i + 1

(* It moves on. *)
LEMMA SkipForward ==
    ASSUME NEW sql, IsText(sql), NEW i \in 1 .. Len(sql)
    PROVE  Skip(sql, i) \in i + 1 .. Len(sql) + 3
<1>1. Len(sql) \in Nat /\ i \in Nat /\ DOMAIN sql = 1 .. Len(sql)
  BY DEF IsText
<1>2. CASE sql[i] \in Quotes
  <2>1. SkipQuoted(sql, i + 1, sql[i]) \in i + 2 .. Len(sql) + 3
    BY AfterExists, Zenon
  <2>2. Skip(sql, i) = SkipQuoted(sql, i + 1, sql[i])
    BY <1>2, Zenon DEF Skip
  <2> QED
    BY <1>1, <2>1, <2>2
<1>3. CASE sql[i] \notin Quotes /\ sql[i] = Dash /\ At(sql, i + 1, Dash)
  <2> DEFINE S == {j \in i + 2 .. Len(sql) : sql[j] = Newline}
             e == LeastOr(S, Len(sql) + 1)
  <2>1. Skip(sql, i) = e
    BY <1>3, Zenon DEF Skip, SkipLine
  <2>2. S \subseteq Nat
    BY <1>1
  <2>3. S = {} => e = Len(sql) + 1
    BY <2>2, LeastOrFacts, Zenon
  <2>4. S # {} => e \in S
    BY <2>2, LeastOrFacts, Zenon
  <2> HIDE DEF e
  <2> QED
    BY <1>1, <2>1, <2>3, <2>4
<1>4. CASE /\ sql[i] \notin Quotes /\ ~(sql[i] = Dash /\ At(sql, i + 1, Dash))
           /\ sql[i] = Slash /\ At(sql, i + 1, Star)
  <2> DEFINE S == {j \in i + 2 .. Len(sql) - 1 : sql[j] = Star /\ sql[j + 1] = Slash}
             c == LeastOr(S, 0)
  <2>1. Skip(sql, i) = IF c # 0 THEN c + 2 ELSE IF i + 2 >= Len(sql) THEN i + 2 ELSE Len(sql)
    BY <1>4, Zenon DEF Skip, SkipBlock
  <2>2. S \subseteq Nat
    BY <1>1
  <2>3. S = {} => c = 0
    BY <2>2, LeastOrFacts, Zenon
  <2>4. S # {} => c \in S
    BY <2>2, LeastOrFacts, Zenon
  <2>5. i + 1 <= Len(sql)
    BY <1>1, <1>4 DEF At
  <2> HIDE DEF c
  <2> QED
    BY <1>1, <2>1, <2>3, <2>4, <2>5
<1>5. CASE /\ sql[i] \notin Quotes /\ ~(sql[i] = Dash /\ At(sql, i + 1, Dash))
           /\ ~(sql[i] = Slash /\ At(sql, i + 1, Star))
  <2>1. Skip(sql, i) = i + 1
    BY <1>5, Zenon DEF Skip
  <2> QED
    BY <1>1, <2>1
<1> QED
  BY <1>2, <1>3, <1>4, <1>5, Zenon

(* The recursive function of find_in_code, for the keyword. *)
FindAt(find, sql, i) ==
    IF i > Len(sql) THEN 0 ELSE IF sql[i] = Word THEN i ELSE find[Skip(sql, i)]

FindOf(find, sql, start) ==
    \A i \in start .. Len(sql) + 3 : find[i] = FindAt(find, sql, i)

LEMMA FindExists ==
    ASSUME NEW sql, IsText(sql), NEW start \in 1 .. Len(sql) + 1
    PROVE  \E find :
              /\ find_in_code(sql, Word, start) = find[start]
              /\ FindOf(find, sql, start)
              /\ find[start] \in {0} \cup start .. Len(sql)
<1> DEFINE b == Len(sql) + 3
           D == start .. b
           Given == {k \in D : k > Len(sql) \/ sql[k] = Word}
           v == [k \in D |-> IF k > Len(sql) THEN 0 ELSE k]
           J == [k \in D |-> Skip(sql, k)]
           m == [k \in D |-> b - k]
           V == {0} \cup start .. Len(sql)
           P(g) == g = [i \in start .. Len(sql) + 3 |->
                IF i > Len(sql) THEN 0
                ELSE IF sql[i] \in Quotes THEN g[SkipQuoted(sql, i + 1, sql[i])]
                ELSE IF sql[i] = Dash /\ At(sql, i + 1, Dash) THEN g[SkipLine(sql, i + 2)]
                ELSE IF sql[i] = Slash /\ At(sql, i + 1, Star) THEN g[SkipBlock(sql, i + 2)]
                ELSE IF sql[i] = Word THEN i
                ELSE g[i + 1]]
           find == CHOOSE g : P(g)
<1>1. Len(sql) \in Nat /\ start \in Nat /\ b \in Nat /\ start \in D
  BY DEF IsText
<1>2. \A k \in D : m[k] \in 0 .. b
  BY <1>1
<1>3. \A k \in D : k \in Given => v[k] \in V
  BY <1>1
<1>4. ASSUME NEW k \in D, k \notin Given PROVE J[k] \in D /\ m[J[k]] < m[k]
  <2>1. k \in 1 .. Len(sql)
    BY <1>1, <1>4
  <2>2. Skip(sql, k) \in k + 1 .. Len(sql) + 3
    BY <2>1, SkipForward, Zenon
  <2>3. J[k] = Skip(sql, k)
    BY Zenon
  <2>4. J[k] \in D /\ b - J[k] < b - k
    BY <1>1, <2>2, <2>3
  <2> QED
    BY <2>4, Zenon
<1>5. ASSUME NEW g, NEW k \in D
      PROVE  FindAt(g, sql, k) = IF k \in Given THEN v[k] ELSE g[J[k]]
  BY Zenon DEF FindAt
<1>6. ASSUME NEW g, NEW k \in D
      PROVE  FindAt(g, sql, k) =
                IF k > Len(sql) THEN 0
                ELSE IF sql[k] \in Quotes THEN g[SkipQuoted(sql, k + 1, sql[k])]
                ELSE IF sql[k] = Dash /\ At(sql, k + 1, Dash) THEN g[SkipLine(sql, k + 2)]
                ELSE IF sql[k] = Slash /\ At(sql, k + 1, Star) THEN g[SkipBlock(sql, k + 2)]
                ELSE IF sql[k] = Word THEN k
                ELSE g[k + 1]
  <2>1. Word \notin Quotes /\ Word # Dash /\ Word # Slash
    BY CharactersAssumption, Zenon DEF Quotes
  <2>2. CASE sql[k] = Word
    BY <2>1, <2>2, Zenon DEF FindAt
  <2>3. CASE sql[k] # Word
    BY <2>3, Zenon DEF FindAt, Skip
  <2> QED
    BY <2>2, <2>3, Zenon
<1>7. \E g : P(g)
  <2>1. PICK g \in [D -> V] : Paths(g, D, Given, v, J)
    <3> HIDE DEF b, D, Given, v, J, V, m
    <3> QED
      BY <1>1, <1>2, <1>3, <1>4, PathsExist, ZenonT(30)
  <2>2. g = [k \in D |-> g[k]]
    BY <2>1, Zenon
  <2>3. g = [k \in D |-> FindAt(g, sql, k)]
    <3> HIDE DEF D, Given, v, J
    <3>1. \A k \in D : g[k] = FindAt(g, sql, k)
      BY <1>5, <2>1, ZenonT(30) DEF Paths
    <3> QED
      BY <2>2, <3>1, Zenon
  <2>4. P(g)
    BY <1>6, <2>3, Zenon
  <2> QED
    BY <2>4, Zenon
<1>8. P(find)
  BY <1>7, Zenon
<1>9. find_in_code(sql, Word, start) = find[start]
  BY Zenon DEF find_in_code
<1> HIDE DEF find
<1>10. FindOf(find, sql, start)
  BY <1>6, <1>8, Zenon DEF FindOf
<1>11. find[start] \in V
  <2>1. Paths(find, D, Given, v, J)
    <3> HIDE DEF Given, v, J
    <3> QED
      BY <1>5, <1>10, Zenon DEF Paths, FindOf
  <2> HIDE DEF b, D, Given, v, J, V, m
  <2>2. \A k \in D : find[k] \in V
    BY <1>1, <1>2, <1>3, <1>4, <2>1, PathsRange, ZenonT(30)
  <2> QED
    BY <1>1, <2>2, Zenon
<1> QED
  BY <1>9, <1>10, <1>11, Zenon

---------------------------------------------------------------------------
(* rfind_in_code *)

(* The recursive function of rfind_in_code, for the keyword. *)
LastAt(last, sql, before, p) ==
    LET next == find_in_code(sql, Word, p[1])
    IN IF next = 0 \/ next > before THEN p[2] ELSE last[<<next + 1, next>>]

LastOf(last, sql, before) ==
    \A p \in (1 .. Len(sql) + 1) \X (0 .. Len(sql)) : last[p] = LastAt(last, sql, before, p)

LEMMA LastExists ==
    ASSUME NEW sql, IsText(sql), NEW before
    PROVE  \E last : rfind_in_code(sql, Word, before) = last[<<1, 0>>] /\ LastOf(last, sql, before)
<1> DEFINE D == (1 .. Len(sql) + 1) \X (0 .. Len(sql))
           next(p) == find_in_code(sql, Word, p[1])
           Given == {p \in D : next(p) = 0 \/ next(p) > before}
           v == [p \in D |-> p[2]]
           J == [p \in D |-> <<next(p) + 1, next(p)>>]
           m == [p \in D |-> (Len(sql) + 1) - p[1]]
           V == 0 .. Len(sql)
           P(g) == g = [p \in (1 .. Len(sql) + 1) \X (0 .. Len(sql)) |->
                          IF find_in_code(sql, Word, p[1]) = 0
                               \/ find_in_code(sql, Word, p[1]) > before
                          THEN p[2]
                          ELSE g[<<find_in_code(sql, Word, p[1]) + 1,
                                   find_in_code(sql, Word, p[1])>>]]
           last == CHOOSE g : P(g)
<1>1. Len(sql) \in Nat /\ Len(sql) + 1 \in Nat
  BY DEF IsText
<1>2. \A p \in D : p[1] \in 1 .. Len(sql) + 1 /\ p[2] \in 0 .. Len(sql)
  BY Zenon
<1>3. \A p \in D : m[p] \in 0 .. Len(sql) + 1
  <2> SUFFICES ASSUME NEW p \in D PROVE (Len(sql) + 1) - p[1] \in 0 .. Len(sql) + 1
    BY Zenon
  <2>1. p[1] \in 1 .. Len(sql) + 1
    BY <1>2, Zenon
  <2> QED
    BY <1>1, <2>1
<1>4. \A p \in D : p \in Given => v[p] \in V
  BY <1>2, Zenon
<1>5. ASSUME NEW p \in D, p \notin Given PROVE J[p] \in D /\ m[J[p]] < m[p]
  <2>1. p[1] \in 1 .. Len(sql) + 1
    BY <1>2, Zenon
  <2>2. find_in_code(sql, Word, p[1]) \in {0} \cup p[1] .. Len(sql)
    BY <2>1, FindExists, ZenonT(30)
  <2>3. next(p) # 0
    BY <1>5, Zenon
  <2>4. next(p) \in p[1] .. Len(sql) /\ J[p] = <<next(p) + 1, next(p)>>
    BY <2>2, <2>3, Zenon
  <2> HIDE DEF next
  <2>5. next(p) + 1 \in 1 .. Len(sql) + 1 /\ next(p) \in 0 .. Len(sql)
    BY <1>1, <2>1, <2>4
  <2>6. J[p] \in D /\ J[p][1] = next(p) + 1
    BY <2>4, <2>5, Zenon
  <2>7. m[J[p]] = (Len(sql) + 1) - (next(p) + 1) /\ m[p] = (Len(sql) + 1) - p[1]
    BY <2>6, Zenon
  <2>8. (Len(sql) + 1) - (next(p) + 1) < (Len(sql) + 1) - p[1]
    BY <1>1, <2>1, <2>4
  <2> QED
    BY <2>6, <2>7, <2>8, Zenon
<1>6. ASSUME NEW g, NEW p \in D
      PROVE  LastAt(g, sql, before, p) = IF p \in Given THEN v[p] ELSE g[J[p]]
  BY Zenon DEF LastAt
<1>7. \E g : P(g)
  <2>1. PICK g \in [D -> V] : Paths(g, D, Given, v, J)
    <3> HIDE DEF D, Given, v, J, V, m
    <3> QED
      BY <1>1, <1>3, <1>4, <1>5, PathsExist, ZenonT(30)
  <2>2. g = [p \in D |-> g[p]]
    BY <2>1, Zenon
  <2>3. g = [p \in D |-> LastAt(g, sql, before, p)]
    <3> HIDE DEF D, Given, v, J
    <3>1. \A p \in D : g[p] = LastAt(g, sql, before, p)
      BY <1>6, <2>1, ZenonT(30) DEF Paths
    <3> QED
      BY <2>2, <3>1, Zenon
  <2>4. P(g)
    BY <2>3, Zenon DEF LastAt
  <2> QED
    BY <2>4, Zenon
<1>8. P(last)
  BY <1>7, ZenonT(30)
<1>9. rfind_in_code(sql, Word, before) = last[<<1, 0>>]
  BY Zenon DEF rfind_in_code
<1> HIDE DEF last
<1>10. LastOf(last, sql, before)
  BY <1>8, Zenon DEF LastAt, LastOf
<1> QED
  BY <1>9, <1>10, Zenon

---------------------------------------------------------------------------
(* extract_source_query: the search *)

(* The scanner's verdicts. *)
LEMMA RegionTypes ==
    ASSUME NEW sql, IsText(sql), NEW i \in 1 .. Len(sql), NEW f \in BOOLEAN
    PROVE  scan_sql_region(sql, i, f).type \in {"NONE", "COMMENT", "QUOTED", "UNTERMINATED"}
<1>1. CASE sql[i] \in Quotes
  <2>1. scan_sql_region(sql, i, f).type \in {"QUOTED", "UNTERMINATED"}
    BY <1>1, ScanQuote, Zenon
  <2> QED
    BY <2>1, Zenon
<1>2. CASE sql[i] \notin Quotes
  <2>1. BlockComment(sql, i).type \in {"COMMENT", "UNTERMINATED"}
    BY Zenon DEF BlockComment
  <2>2. LineComment(sql, i).type = "COMMENT"
    BY Zenon DEF LineComment
  <2>3. \/ scan_sql_region(sql, i, f) \in {BlockComment(sql, i), LineComment(sql, i)}
        \/ scan_sql_region(sql, i, f).type = "NONE"
    BY <1>2, ZenonT(30) DEF scan_sql_region
  <2> QED
    BY <2>1, <2>2, <2>3, ZenonT(30)
<1> QED
  BY <1>1, <1>2, Zenon

Blank(sql, i) == sql[i] \in {Space, Newline}

(* The loop ends at i, *)
Halts(sql, f, i, depth) ==
    \/ i > Len(sql)
    \/ ~Blank(sql, i) /\ scan_sql_region(sql, i, f).type = "UNTERMINATED"
    \/ /\ ~Blank(sql, i) /\ scan_sql_region(sql, i, f).type = "NONE"
       /\ depth = 0 /\ sql[i] \in {Rparen, Select}

(* with this answer, *)
Answer(sql, f, i) ==
    IF i <= Len(sql) /\ ~Blank(sql, i) /\ scan_sql_region(sql, i, f).type = "NONE"
         /\ sql[i] = Select
    THEN i ELSE 0

(* or goes on here. *)
Depth(sql, i, depth) ==
    IF sql[i] = Lparen THEN depth + 1 ELSE IF sql[i] = Rparen THEN depth - 1 ELSE depth

Onward(sql, f, i, depth) ==
    IF Blank(sql, i) \/ scan_sql_region(sql, i, f).type = "NONE"
    THEN <<i + 1, Depth(sql, i, depth)>>
    ELSE <<scan_sql_region(sql, i, f).end, depth>>

ScanOf(scan, sql, f) ==
    \A i \in 1 .. Len(sql) + 1, depth \in Nat :
        scan[<<i, depth>>] = IF Halts(sql, f, i, depth) THEN Answer(sql, f, i)
                             ELSE scan[Onward(sql, f, i, depth)]

(* It goes on further right. *)
LEMMA OnwardMoves ==
    ASSUME NEW sql, IsText(sql), NEW f \in BOOLEAN,
           NEW i \in 1 .. Len(sql) + 1, NEW depth \in Nat, ~Halts(sql, f, i, depth)
    PROVE  /\ i \in 1 .. Len(sql)
           /\ \E e \in i + 1 .. Len(sql) + 1, h \in Nat : Onward(sql, f, i, depth) = <<e, h>>
<1>1. Len(sql) \in Nat /\ i \in 1 .. Len(sql)
  BY DEF IsText, Halts
<1> DEFINE r == scan_sql_region(sql, i, f)
<1>2. CASE Blank(sql, i) \/ r.type = "NONE"
  <2>1. Depth(sql, i, depth) \in Nat
    <3>1. sql[i] = Rparen => depth # 0
      <4>1. Blank(sql, i) => sql[i] # Rparen
        BY TokensAssumption, Zenon DEF Blank
      <4> QED
        BY <1>2, <4>1, Zenon DEF Halts
    <3> QED
      BY <3>1 DEF Depth
  <2>2. Onward(sql, f, i, depth) = <<i + 1, Depth(sql, i, depth)>>
    BY <1>2, Zenon DEF Onward
  <2>3. i + 1 \in i + 1 .. Len(sql) + 1
    BY <1>1
  <2> QED
    BY <1>1, <2>1, <2>2, <2>3, ZenonT(30)
<1>3. CASE ~(Blank(sql, i) \/ r.type = "NONE")
  <2>1. Onward(sql, f, i, depth) = <<r.end, depth>>
    BY <1>3, Zenon DEF Onward
  <2>2. r.end \in i + 1 .. Len(sql) + 1
    BY <1>1, <1>3, RegionEnd, ZenonT(30)
  <2> QED
    BY <1>1, <2>1, <2>2, Zenon
<1> QED
  BY <1>2, <1>3, Zenon

(* The recursive function of extract_source_query exists. *)
LEMMA ScanExists ==
    ASSUME NEW sql, IsText(sql), NEW mode \in SqlModes
    PROVE  \E scan :
              /\ extract_source_query(sql, TRUE, mode) =
                    IF mariadb_query_has_unsafe_quote_escape(sql, mode) THEN 0 ELSE scan[<<1, 0>>]
              /\ ScanOf(scan, sql, mode.backslash_escapes)
<1> DEFINE f == mode.backslash_escapes
           D == (1 .. Len(sql) + 1) \X Nat
           Given == {p \in D : Halts(sql, f, p[1], p[2])}
           v == [p \in D |-> Answer(sql, f, p[1])]
           J == [p \in D |-> Onward(sql, f, p[1], p[2])]
           m == [p \in D |-> (Len(sql) + 1) - p[1]]
           V == 0 .. Len(sql)
           Body(g, p) ==
               LET i == p[1]
                   depth == p[2]
                   region == scan_sql_region(sql, i, mode.backslash_escapes)
                   refused == ~TRUE /\ depth = 0
               IN IF i > Len(sql) THEN 0
                  ELSE IF sql[i] \in {Space, Newline} THEN g[<<i + 1, depth>>]
                  ELSE IF region.type = "UNTERMINATED" THEN 0
                  ELSE IF region.type = "COMMENT" THEN g[<<region.end, depth>>]
                  ELSE IF region.type = "QUOTED"
                  THEN IF refused THEN 0 ELSE g[<<region.end, depth>>]
                  ELSE IF sql[i] = Lparen
                  THEN IF refused THEN 0 ELSE g[<<i + 1, depth + 1>>]
                  ELSE IF sql[i] = Rparen
                  THEN IF depth = 0 THEN 0 ELSE g[<<i + 1, depth - 1>>]
                  ELSE IF sql[i] = Select /\ depth = 0
                  THEN IF TRUE THEN i ELSE 1
                  ELSE IF refused THEN 0
                  ELSE g[<<i + 1, depth>>]
           P(g) == g = [p \in (1 .. Len(sql) + 1) \X Nat |-> Body(g, p)]
           scan == CHOOSE g : P(g)
<1>1. Len(sql) \in Nat /\ Len(sql) + 1 \in Nat /\ f \in BOOLEAN
  BY DEF IsText, SqlModes
<1>2. \A p \in D : p[1] \in 1 .. Len(sql) + 1 /\ p[2] \in Nat /\ p = <<p[1], p[2]>>
  OBVIOUS
<1>3. \A p \in D : m[p] \in 0 .. Len(sql) + 1
  <2> SUFFICES ASSUME NEW p \in D PROVE (Len(sql) + 1) - p[1] \in 0 .. Len(sql) + 1
    BY Zenon
  <2>1. p[1] \in 1 .. Len(sql) + 1
    BY <1>2, Zenon
  <2> QED
    BY <1>1, <2>1
<1>4. \A p \in D : p \in Given => v[p] \in V
  <2> SUFFICES ASSUME NEW p \in D PROVE Answer(sql, f, p[1]) \in 0 .. Len(sql)
    BY Zenon
  <2>1. p[1] \in 1 .. Len(sql) + 1
    BY <1>2, Zenon
  <2> QED
    BY <1>1, <2>1 DEF Answer
<1>5. ASSUME NEW p \in D, p \notin Given PROVE J[p] \in D /\ m[J[p]] < m[p]
  <2>1. p[1] \in 1 .. Len(sql) + 1 /\ p[2] \in Nat /\ ~Halts(sql, f, p[1], p[2])
    BY <1>2, <1>5, Zenon
  <2> HIDE DEF f
  <2>2. PICK e \in p[1] + 1 .. Len(sql) + 1, h \in Nat : Onward(sql, f, p[1], p[2]) = <<e, h>>
    BY <1>1, <2>1, OnwardMoves
  <2>3. J[p] = <<e, h>>
    BY <2>2, Zenon
  <2>4. e \in 1 .. Len(sql) + 1 /\ (Len(sql) + 1) - e < (Len(sql) + 1) - p[1]
    BY <1>1, <2>1
  <2>5. J[p] \in D /\ J[p][1] = e
    BY <2>3, <2>4
  <2>6. m[J[p]] = (Len(sql) + 1) - e /\ m[p] = (Len(sql) + 1) - p[1]
    BY <2>5, Zenon
  <2> QED
    BY <2>4, <2>5, <2>6, ZenonT(30)
<1>6. ASSUME NEW g, NEW p \in D
      PROVE  Body(g, p) = IF p \in Given THEN v[p] ELSE g[J[p]]
  <2> DEFINE i == p[1]
             depth == p[2]
             type == scan_sql_region(sql, i, f).type
  <2>1. i \in 1 .. Len(sql) + 1 /\ depth \in Nat
    BY <1>2, Zenon
  <2>2. /\ Lparen \notin {Rparen, Select, Space, Newline} /\ Rparen \notin {Select, Space, Newline}
        /\ Select \notin {Space, Newline}
    BY TokensAssumption, ZenonT(60)
  <2>3. (p \in Given <=> Halts(sql, f, i, depth)) /\ v[p] = Answer(sql, f, i)
        /\ J[p] = Onward(sql, f, i, depth)
    BY Zenon
  <2>4. CASE i > Len(sql)
    <3>1. Body(g, p) = 0
      BY <2>4, Zenon
    <3>2. Halts(sql, f, i, depth) /\ Answer(sql, f, i) = 0
      BY <1>1, <2>1, <2>4 DEF Halts, Answer
    <3> HIDE DEF Body, Given, v, J
    <3> QED
      BY <2>3, <3>1, <3>2, ZenonT(30)
  <2>5. CASE ~(i > Len(sql)) /\ Blank(sql, i)
    <3>1. Body(g, p) = g[<<i + 1, depth>>]
      BY <2>5, ZenonT(30) DEF Blank
    <3>2. Depth(sql, i, depth) = depth
      BY <2>2, <2>5, Zenon DEF Depth, Blank
    <3>3. ~Halts(sql, f, i, depth) /\ Onward(sql, f, i, depth) = <<i + 1, depth>>
      BY <2>5, <3>2, ZenonT(30) DEF Halts, Onward
    <3> HIDE DEF Body, Given, v, J
    <3> QED
      BY <2>3, <3>1, <3>3, Zenon
  <2>6. CASE ~(i > Len(sql)) /\ ~Blank(sql, i) /\ type # "NONE"
    <3>1. i \in 1 .. Len(sql)
      BY <1>1, <2>1, <2>6
    <3>2. type \in {"NONE", "COMMENT", "QUOTED", "UNTERMINATED"}
      <4> HIDE DEF i, f
      <4> QED
        BY <1>1, <3>1, RegionTypes, Zenon
    <3>3. Body(g, p) = IF type = "UNTERMINATED" THEN 0
                       ELSE g[<<scan_sql_region(sql, i, f).end, depth>>]
      BY <2>6, <3>2, ZenonT(30) DEF Blank
    <3>4. /\ Halts(sql, f, i, depth) <=> type = "UNTERMINATED"
          /\ Answer(sql, f, i) = 0
          /\ Onward(sql, f, i, depth) = <<scan_sql_region(sql, i, f).end, depth>>
      BY <2>6, ZenonT(30) DEF Halts, Answer, Onward
    <3> HIDE DEF Body, Given, v, J
    <3> QED
      BY <2>3, <3>3, <3>4, Zenon
  <2>7. CASE ~(i > Len(sql)) /\ ~Blank(sql, i) /\ type = "NONE"
    <3>1. i <= Len(sql)
      BY <1>1, <2>1, <2>7
    <3>2. Body(g, p) = IF depth = 0 /\ sql[i] \in {Rparen, Select}
                       THEN (IF sql[i] = Select THEN i ELSE 0)
                       ELSE g[<<i + 1, Depth(sql, i, depth)>>]
      <4>1. /\ type # "UNTERMINATED" /\ type # "COMMENT" /\ type # "QUOTED"
        BY <2>7, Zenon
      <4>2. Body(g, p) = IF sql[i] = Lparen THEN g[<<i + 1, depth + 1>>]
                         ELSE IF sql[i] = Rparen
                         THEN IF depth = 0 THEN 0 ELSE g[<<i + 1, depth - 1>>]
                         ELSE IF sql[i] = Select /\ depth = 0 THEN i
                         ELSE g[<<i + 1, depth>>]
        BY <2>7, <4>1, ZenonT(30) DEF Blank
      <4> HIDE DEF Body
      <4> QED
        BY <2>2, <4>2, ZenonT(30) DEF Depth
    <3>3. /\ Halts(sql, f, i, depth) <=> depth = 0 /\ sql[i] \in {Rparen, Select}
          /\ Answer(sql, f, i) = IF sql[i] = Select THEN i ELSE 0
          /\ Onward(sql, f, i, depth) = <<i + 1, Depth(sql, i, depth)>>
      BY <2>7, <3>1, ZenonT(30) DEF Halts, Answer, Onward
    <3> HIDE DEF Body, Given, v, J
    <3> QED
      BY <2>3, <3>2, <3>3, ZenonT(30)
  <2> QED
    BY <2>4, <2>5, <2>6, <2>7, ZenonT(30)
<1>7. \E g : P(g)
  <2>1. PICK g \in [D -> V] : Paths(g, D, Given, v, J)
    <3> HIDE DEF D, Given, v, J, V, m
    <3> QED
      BY <1>1, <1>3, <1>4, <1>5, PathsExist, ZenonT(30)
  <2>2. g = [p \in D |-> g[p]]
    BY <2>1, Zenon
  <2>3. g = [p \in D |-> Body(g, p)]
    <3> HIDE DEF D, Given, v, J, Body
    <3>1. \A p \in D : g[p] = Body(g, p)
      BY <1>6, <2>1, ZenonT(30) DEF Paths
    <3> QED
      BY <2>2, <3>1, Zenon
  <2> QED
    BY <2>3, ZenonT(30)
<1>8. P(scan)
  BY <1>7, ZenonT(30)
<1>9. extract_source_query(sql, TRUE, mode) =
        IF mariadb_query_has_unsafe_quote_escape(sql, mode) THEN 0 ELSE scan[<<1, 0>>]
  BY Zenon DEF extract_source_query
<1> HIDE DEF scan
<1>10. ScanOf(scan, sql, f)
  <2> SUFFICES ASSUME NEW i \in 1 .. Len(sql) + 1, NEW depth \in Nat
               PROVE  scan[<<i, depth>>] = IF Halts(sql, f, i, depth) THEN Answer(sql, f, i)
                                           ELSE scan[Onward(sql, f, i, depth)]
    BY ZenonT(30) DEF ScanOf
  <2> DEFINE p == <<i, depth>>
  <2>1. p \in D /\ p[1] = i /\ p[2] = depth
    BY Zenon
  <2>2. (p \in Given <=> Halts(sql, f, i, depth)) /\ v[p] = Answer(sql, f, i)
        /\ J[p] = Onward(sql, f, i, depth)
    BY <2>1, Zenon
  <2> HIDE DEF p, D, Given, v, J, Body
  <2>3. scan[p] = Body(scan, p)
    BY <1>8, <2>1, Zenon DEF D
  <2>4. scan[p] = IF p \in Given THEN v[p] ELSE scan[J[p]]
    BY <1>6, <2>1, <2>3, ZenonT(30)
  <2> QED
    BY <2>2, <2>4, ZenonT(30) DEF p
<1> QED
  BY <1>9, <1>10, Zenon

---------------------------------------------------------------------------
(* The check of a query *)

(* A literal in which MariaDB lets backslashes escape starts at i. *)
Literal(sql, mode, i) == sql[i] = Squote \/ (sql[i] = Dquote /\ ~mode.ansi_quotes)

(* The rest of the query from i, as the check looks at it. *)
UnsafeAt(unsafe, sql, mode, i) ==
    LET duckdb == scan_sql_region(sql, i, FALSE)
    IN IF i > Len(sql) THEN FALSE
       ELSE IF duckdb.type = "COMMENT" THEN unsafe[duckdb.end]
       ELSE IF sql[i] = Squote \/ (sql[i] = Dquote /\ ~mode.ansi_quotes)
       THEN scan_sql_region(sql, i, TRUE) # duckdb \/ unsafe[duckdb.end]
       ELSE IF duckdb.type = "NONE" THEN unsafe[i + 1]
       ELSE duckdb.type = "UNTERMINATED" \/ unsafe[duckdb.end]

(* It satisfies its equation, *)
UnsafeOf(unsafe, sql, mode) ==
    \A i \in 1 .. Len(sql) + 1 : unsafe[i] = UnsafeAt(unsafe, sql, mode, i)

(* and exists. *)
LEMMA UnsafeExists ==
    ASSUME NEW sql, IsText(sql), NEW mode \in SqlModes
    PROVE  \E unsafe :
              /\ UnsafeOf(unsafe, sql, mode)
              /\ mariadb_query_has_unsafe_quote_escape(sql, mode)
                   = (mode.backslash_escapes /\ unsafe[1])
<1> DEFINE N == Len(sql)
           b == N + 1
           d(i) == scan_sql_region(sql, i, FALSE)
           G(i) == /\ d(i).type # "COMMENT"
                   /\ \/ Literal(sql, mode, i) /\ scan_sql_region(sql, i, TRUE) # d(i)
                      \/ ~Literal(sql, mode, i) /\ d(i).type = "UNTERMINATED"
           Given == {i \in 1 .. b : i > N \/ G(i)}
           v == [i \in 1 .. b |-> IF i > N THEN FALSE ELSE TRUE]
           J == [i \in 1 .. b |-> IF d(i).type = "NONE" THEN i + 1 ELSE d(i).end]
           P(g) == g = [i \in 1 .. Len(sql) + 1 |->
              IF i > Len(sql) THEN FALSE
              ELSE IF scan_sql_region(sql, i, FALSE).type = "COMMENT"
              THEN g[scan_sql_region(sql, i, FALSE).end]
              ELSE IF sql[i] = Squote \/ (sql[i] = Dquote /\ ~mode.ansi_quotes)
              THEN \/ scan_sql_region(sql, i, TRUE) # scan_sql_region(sql, i, FALSE)
                   \/ g[scan_sql_region(sql, i, FALSE).end]
              ELSE IF scan_sql_region(sql, i, FALSE).type = "NONE" THEN g[i + 1]
              ELSE \/ scan_sql_region(sql, i, FALSE).type = "UNTERMINATED"
                   \/ g[scan_sql_region(sql, i, FALSE).end]]
           unsafe == CHOOSE g : P(g)
<1> N \in Nat /\ 1 \in Int /\ b \in Int /\ 1 <= b + 1
  BY DEF IsText
<1>2. \A i \in 1 .. b : i \in Given => v[i] \in BOOLEAN
  BY Zenon
<1>3. ASSUME NEW i \in 1 .. b, i \notin Given PROVE J[i] \in i + 1 .. b
  <2>1. i \in 1 .. N
    <3>1. ~(i > N)
      <4> HIDE DEF G
      <4> QED
        BY <1>3, Zenon
    <3> QED
      BY <3>1
  <2>2. d(i).type # "NONE" => d(i).end \in i + 1 .. b
    BY <2>1, RegionEnd, Zenon
  <2>3. J[i] = IF d(i).type = "NONE" THEN i + 1 ELSE d(i).end
    BY Zenon
  <2> HIDE DEF J, d
  <2> QED
    BY <2>1, <2>2, <2>3, SMTT(30), ZenonT(30)
<1>4. PICK g \in [1 .. b -> BOOLEAN] : Jumps(g, 1, b, Given, v, J)
  <2> HIDE DEF b, Given, v, J
  <2> QED
    BY <1>2, <1>3, JumpsExist, Zenon
<1>5. P(g)
  <2>1. ASSUME NEW i \in 1 .. b PROVE g[i] = UnsafeAt(g, sql, mode, i)
    <3>1. g[i] = IF i \in Given THEN v[i] ELSE g[J[i]]
      BY <1>4, Zenon DEF Jumps
    <3>2. CASE i > N
      <4> HIDE DEF G
      <4>1. i \in Given /\ v[i] = FALSE
        BY <3>2, Zenon
      <4> QED
        BY <3>1, <3>2, <4>1, SMTT(30), Zenon DEF UnsafeAt
    <3>3. CASE i \in 1 .. N
      <4>1. i <= N /\ ~(i > N) /\ v[i] = TRUE
        BY <3>3, SMTT(30), Zenon
      <4>2. i \notin Given => J[i] \in 1 .. b
        <5> HIDE DEF Given, J
        <5>1. i \notin Given => J[i] \in i + 1 .. b
          BY <1>3, Zenon
        <5> QED
          BY <3>3, <5>1, SMTT(30), Zenon
      <4>3. i \notin Given => g[J[i]] \in BOOLEAN
        BY <1>4, <4>2, Zenon
      <4>4. J[i] = IF d(i).type = "NONE" THEN i + 1 ELSE d(i).end
        BY <3>3, Zenon
      <4>5. Literal(sql, mode, i) => d(i).type # "NONE"
        <5>1. Literal(sql, mode, i) => sql[i] \in Quotes
          BY Zenon DEF Literal, Quotes
        <5> QED
          BY <3>3, <5>1, ScanQuote, Zenon
      <4>6. i \in Given <=> /\ d(i).type # "COMMENT"
                            /\ \/ Literal(sql, mode, i) /\ scan_sql_region(sql, i, TRUE) # d(i)
                               \/ ~Literal(sql, mode, i) /\ d(i).type = "UNTERMINATED"
        <5>1. i \in Given <=> G(i)
          <6> HIDE DEF G
          <6> QED
            BY <4>1, SMTT(30), Zenon
        <5> QED
          BY <5>1, Zenon
      <4>7. UnsafeAt(g, sql, mode, i) =
               IF d(i).type = "COMMENT" THEN g[d(i).end]
               ELSE IF Literal(sql, mode, i)
               THEN scan_sql_region(sql, i, TRUE) # d(i) \/ g[d(i).end]
               ELSE IF d(i).type = "NONE" THEN g[i + 1]
               ELSE d(i).type = "UNTERMINATED" \/ g[d(i).end]
        BY <4>1, SMTT(30), Zenon DEF UnsafeAt, Literal
      <4> HIDE DEF d, Given, J, v
      <4> QED
        BY <3>1, <4>1, <4>3, <4>4, <4>5, <4>6, <4>7, ZenonT(30)
    <3> QED
      BY <3>2, <3>3
  <2>2. g = [i \in 1 .. b |-> g[i]]
    BY <1>4, Zenon
  <2>3. g = [i \in 1 .. b |-> UnsafeAt(g, sql, mode, i)]
    BY <2>1, <2>2, Zenon
  <2> QED
    BY <2>3, Zenon DEF UnsafeAt
<1>6. P(unsafe)
  BY <1>5, Zenon
<1>7. mariadb_query_has_unsafe_quote_escape(sql, mode) = (mode.backslash_escapes /\ unsafe[1])
  BY Zenon DEF mariadb_query_has_unsafe_quote_escape
<1> HIDE DEF unsafe
<1>8. UnsafeOf(unsafe, sql, mode)
  BY <1>6, Zenon DEF UnsafeOf, UnsafeAt
<1> QED
  BY <1>7, <1>8, SMTT(30), Zenon

---------------------------------------------------------------------------
(* The two readings of a query *)

(* Outside quoted regions two lexers that agree go on to agree. *)
LEMMA ReadTogether ==
    ASSUME NEW sql, IsText(sql), NEW X, NEW A, Reads(A, sql, X), NEW Y, NEW B, Reads(B, sql, Y),
           NEW i \in 1 .. Len(sql), NEW e \in i + 1 .. Len(sql) + 1,
           A[i - 1] = B[i - 1], \A k \in i - 1 .. e - 2 : A[k].mode # "quoted"
    PROVE  \A k \in i - 1 .. e - 1 : A[k] = B[k]
<1> DEFINE G == {j \in Nat : i - 1 + j <= e - 1 => A[i - 1 + j] = B[i - 1 + j]}
<1> Len(sql) \in Nat /\ i \in Nat /\ e \in Nat
  BY SMTT(30) DEF IsText
<1>2. 0 \in G
  BY SMTT(30)
<1>3. ASSUME NEW j \in 0 .. e - i - 1, j \in G PROVE j + 1 \in G
  <2> DEFINE k == i + j
  <2>1. /\ i - 1 + j = k - 1 /\ i - 1 + (j + 1) = k /\ k \in 1 .. Len(sql)
        /\ k - 1 \in i - 1 .. e - 2
    OBVIOUS
  <2>2. A[k - 1] = B[k - 1]
    BY <1>3, <2>1, SMTT(30), ZenonT(30)
  <2> HIDE DEF k
  <2>3. A[k] = ReadChar(A[k - 1], sql, k, X) /\ B[k] = ReadChar(A[k - 1], sql, k, Y)
    BY <2>1, <2>2, SMTT(30), Zenon DEF Reads
  <2>4. A[k - 1].mode # "quoted"
    BY <2>1, SMTT(30), ZenonT(30)
  <2>5. A[k] = B[k]
    BY <2>3, <2>4, ReadAlike, SMTT(30), ZenonT(30)
  <2> QED
    BY <1>3, <2>1, <2>5, SMTT(30), Zenon
<1> HIDE DEF G
<1>4. ASSUME NEW k \in i - 1 .. e - 1 PROVE A[k] = B[k]
  <2> DEFINE n == k - (i - 1)
  <2>1. n \in Nat /\ n <= e - i /\ i - 1 + n = k
    BY SMTT(30)
  <2>2. \A j \in 0 .. n - 1 : j \in G => j + 1 \in G
    BY <1>3, <2>1, SMTT(30), ZenonT(30)
  <2> HIDE DEF n
  <2>3. n \in G
    BY <1>2, <2>1, <2>2, UpTo, SMTT(30), ZenonT(30)
  <2> QED
    BY <2>1, <2>3, SMTT(30), Zenon DEF G
<1> QED
  BY <1>4, SMTT(30), Zenon

(* Up to position i the two lexers have seen the same regions; they are both
   in code. *)
Aligned(A, B, sql, i) ==
    /\ Begins(A, sql, i) /\ A[i - 1] = B[i - 1]
    /\ \A k \in 0 .. i - 1 : A[k].class = B[k].class

(* The lexers agree on the whole text. *)
Alike(A, B, sql) ==
    /\ \A k \in 0 .. Len(sql) : A[k].class = B[k].class
    /\ A[Len(sql)].mode = "quoted" <=> B[Len(sql)].mode = "quoted"

(* A comment keeps the lexers aligned, *)
LEMMA CommentAligned ==
    ASSUME NEW sql, IsText(sql), NEW X, NEW A, Reads(A, sql, X), NEW Y, NEW B, Reads(B, sql, Y),
           NEW i \in 1 .. Len(sql), Aligned(A, B, sql, i), NEW e, Passes(A, sql, i, e)
    PROVE  Aligned(A, B, sql, e) \/ Alike(A, B, sql)
<1> Len(sql) \in Nat /\ i \in Nat /\ e \in i + 1 .. Len(sql) + 1
  BY SMTT(30) DEF IsText, Passes
<1>2. \A k \in i - 1 .. e - 1 : A[k] = B[k]
  <2>1. A[i - 1] = B[i - 1] /\ \A k \in i - 1 .. e - 2 : A[k].mode # "quoted"
    BY Zenon DEF Aligned, Passes
  <2> QED
    BY <2>1, ReadTogether, SMTT(30), Zenon
<1>3. \A k \in 0 .. e - 1 : A[k].class = B[k].class
  <2>1. \A k \in 0 .. i - 1 : A[k].class = B[k].class
    BY Zenon DEF Aligned
  <2> QED
    BY <1>2, <2>1, SMTT(30), Zenon
<1>4. A[e - 1] = B[e - 1]
  BY <1>2, SMTT(30), Zenon
<1>5. CASE Begins(A, sql, e)
  BY <1>3, <1>4, <1>5, SMTT(30), ZenonT(30) DEF Aligned
<1>6. CASE e = Len(sql) + 1
  <2>1. e - 1 = Len(sql)
    BY <1>6, SMTT(30), ZenonT(30)
  <2> QED
    BY <1>3, <1>4, <2>1, SMTT(30), Zenon DEF Alike
<1> QED
  BY <1>5, <1>6, SMTT(30), ZenonT(30) DEF Passes

(* and so does a quoted region that is the same with escapes and without. *)
LEMMA QuotedAligned ==
    ASSUME NEW sql, IsText(sql), NEW X, NEW A, Reads(A, sql, X), NEW Y, NEW B, Reads(B, sql, Y),
           NEW i \in 1 .. Len(sql), Aligned(A, B, sql, i), sql[i] \in Quotes,
           NEW f \in BOOLEAN, f <=> sql[i] \in X, NEW g \in BOOLEAN, g <=> sql[i] \in Y,
           QuotedRegion(sql, i, f) = QuotedRegion(sql, i, g)
    PROVE  Aligned(A, B, sql, QuotedRegion(sql, i, f).end) \/ Alike(A, B, sql)
<1> DEFINE r == QuotedRegion(sql, i, f)
           e == r.end
<1> Len(sql) \in Nat /\ i \in Nat /\ A[i - 1].mode = "code" /\ B[i - 1].mode = "code"
  BY SMTT(30) DEF IsText, Aligned, Begins
<1>2. LexesAs(A, sql, i, r)
  BY QuotedRead, SMTT(30), Zenon
<1>3. LexesAs(B, sql, i, r)
  <2>1. LexesAs(B, sql, i, QuotedRegion(sql, i, g))
    BY QuotedRead, SMTT(30), ZenonT(30)
  <2> QED
    BY <2>1, SMTT(30), Zenon
<1> HIDE DEF r
<1>4. \A k \in 0 .. e - 1 : A[k].class = B[k].class
  <2>1. \A k \in 0 .. i - 1 : A[k].class = B[k].class
    BY Zenon DEF Aligned
  <2>2. \A k \in i .. e - 1 : A[k].class = B[k].class
    BY <1>2, <1>3, ZenonT(30) DEF LexesAs, QuotedBy
  <2>3. e \in i + 1 .. Len(sql) + 1
    BY <1>2, SMTT(30), ZenonT(30) DEF LexesAs
  <2> QED
    BY <2>1, <2>2, <2>3, SMTT(30), Zenon
<1>5. e - 1 \in 0 .. Len(sql) /\ e \in Nat
  BY <1>2, SMTT(30), ZenonT(30) DEF LexesAs
<1>6. CASE r.type = "QUOTED"
  <2>1. /\ A[e - 1].mode = "code" /\ A[e - 1].quote = sql[i] /\ A[e - 1].escaped = FALSE
        /\ A[e - 1].since = e - 1 /\ A[e - 1].class = "quoted"
    BY <1>2, <1>6, Zenon DEF LexesAs, Left
  <2>2. /\ B[e - 1].mode = "code" /\ B[e - 1].quote = sql[i] /\ B[e - 1].escaped = FALSE
        /\ B[e - 1].since = e - 1 /\ B[e - 1].class = "quoted"
    BY <1>3, <1>6, ZenonT(30) DEF LexesAs, Left
  <2>3. A[e - 1] \in Lexer /\ B[e - 1] \in Lexer
    BY <1>5, SMTT(30), ZenonT(30) DEF Reads
  <2>4. A[e - 1] = B[e - 1]
    BY <2>1, <2>2, <2>3, SMTT(30), Zenon DEF Lexer
  <2>5. Begins(A, sql, e)
    <3>1. e - 1 \in 0 .. e - 1 /\ (e - 1) + 1 .. e - 1 = {}
      BY <1>5, SMTT(30), ZenonT(30)
    <3> QED
      BY <2>1, <3>1, ZenonT(30) DEF Begins
  <2>6. Aligned(A, B, sql, e)
    BY <1>4, <2>4, <2>5, SMTT(30), ZenonT(30) DEF Aligned
  <2> QED
    BY <2>6, SMTT(30), Zenon DEF r
<1>7. CASE r.type # "QUOTED"
  <2>1. e - 1 = Len(sql) /\ A[e - 1].mode = "quoted" /\ B[e - 1].mode = "quoted"
    BY <1>2, <1>3, <1>7, SMTT(30), Zenon DEF LexesAs
  <2> QED
    BY <1>4, <2>1, SMTT(30), ZenonT(30) DEF Alike
<1> QED
  BY <1>6, <1>7, SMTT(30), Zenon

(* One step of the check, from a position where the lexers agree. *)
LEMMA CheckStep ==
    ASSUME NEW sql, IsText(sql), NEW mode \in SqlModes, mode.backslash_escapes,
           NEW A, Reads(A, sql, Escaping(mode)), NEW B, Reads(B, sql, {}),
           NEW unsafe, UnsafeOf(unsafe, sql, mode),
           NEW i \in 1 .. Len(sql), Aligned(A, B, sql, i), ~unsafe[i]
    PROVE  \/ Alike(A, B, sql)
           \/ \E e \in i + 1 .. Len(sql) + 1 : Aligned(A, B, sql, e) /\ ~unsafe[e]
<1> DEFINE d == scan_sql_region(sql, i, FALSE)
<1> Len(sql) \in Nat /\ i \in Nat /\ ~(i > Len(sql)) /\ i \in 1 .. Len(sql) + 1
  BY DEF IsText
<1>2. d.type # "NONE" => d.end \in i + 1 .. Len(sql) + 1
  BY RegionEnd, Zenon
<1>3. ~UnsafeAt(unsafe, sql, mode, i)
  BY Zenon DEF UnsafeOf
<1>4. CASE sql[i] \in Quotes
  <2>1. d = QuotedRegion(sql, i, FALSE) /\ d.type \in {"QUOTED", "UNTERMINATED"}
    BY <1>4, ScanQuote, Zenon
  <2>2. scan_sql_region(sql, i, TRUE) = QuotedRegion(sql, i, TRUE)
    BY <1>4, ScanQuote, ZenonT(30)
  <2>3. sql[i] \in Escaping(mode) <=> Literal(sql, mode, i)
    <3>1. Squote # Dquote
      BY CharactersAssumption, Zenon
    <3> QED
      BY <3>1, SMTT(30), Zenon DEF Escaping, Literal
  <2>4. d.end \in i + 1 .. Len(sql) + 1
    BY <1>2, <2>1, Zenon
  <2>5. ~(sql[i] \in {})
    BY Zenon
  <2>6. CASE Literal(sql, mode, i)
    <3>1. scan_sql_region(sql, i, TRUE) = d /\ ~unsafe[d.end]
      BY <1>3, <2>1, <2>6, Zenon DEF UnsafeAt, Literal
    <3>2. QuotedRegion(sql, i, TRUE) = QuotedRegion(sql, i, FALSE)
      BY <2>1, <2>2, <3>1, Zenon
    <3>3. Aligned(A, B, sql, QuotedRegion(sql, i, TRUE).end) \/ Alike(A, B, sql)
      <4> DEFINE f == TRUE
                 g == FALSE
      <4>1. /\ f \in BOOLEAN /\ (f <=> sql[i] \in Escaping(mode))
            /\ g \in BOOLEAN /\ (g <=> sql[i] \in {})
            /\ QuotedRegion(sql, i, f) = QuotedRegion(sql, i, g)
        <5>1. f \in BOOLEAN /\ g \in BOOLEAN
          BY Zenon
        <5>2. (f <=> sql[i] \in Escaping(mode)) /\ (g <=> sql[i] \in {})
          BY <2>3, <2>6, ZenonT(30)
        <5> QED
          BY <3>2, <5>1, <5>2, Zenon
      <4> HIDE DEF f, g
      <4>2. Aligned(A, B, sql, QuotedRegion(sql, i, f).end) \/ Alike(A, B, sql)
        BY <1>4, <4>1, QuotedAligned, SMTT(30), ZenonT(30)
      <4> QED
        BY <4>2, Zenon DEF f
    <3> QED
      BY <2>1, <2>4, <3>1, <3>2, <3>3, Zenon
  <2>7. CASE ~Literal(sql, mode, i)
    <3>1. d.type # "UNTERMINATED" /\ ~unsafe[d.end]
      BY <1>3, <2>1, <2>7, Zenon DEF UnsafeAt, Literal
    <3>2. Aligned(A, B, sql, QuotedRegion(sql, i, FALSE).end) \/ Alike(A, B, sql)
      <4> DEFINE f == FALSE
      <4>1. f \in BOOLEAN
        BY Zenon
      <4>2. (f <=> sql[i] \in Escaping(mode)) /\ (f <=> sql[i] \in {})
        BY <2>3, <2>7, Zenon
      <4> HIDE DEF f
      <4>3. Aligned(A, B, sql, QuotedRegion(sql, i, f).end) \/ Alike(A, B, sql)
        BY <1>4, <4>1, <4>2, QuotedAligned, SMTT(30), ZenonT(30)
      <4> QED
        BY <4>3, Zenon DEF f
    <3> QED
      BY <2>1, <2>4, <3>1, <3>2, Zenon
  <2> QED
    BY <2>6, <2>7, Zenon
<1>5. CASE sql[i] \notin Quotes /\ d.type = "COMMENT"
  <2>1. ~unsafe[d.end]
    BY <1>3, <1>5, Zenon DEF UnsafeAt
  <2>2. Begins(A, sql, i)
    BY Zenon DEF Aligned
  <2>3. Passes(A, sql, i, d.end)
    BY <1>5, <2>2, CommentRead, Zenon
  <2>4. Aligned(A, B, sql, d.end) \/ Alike(A, B, sql)
    BY <2>3, CommentAligned, Zenon
  <2> QED
    BY <1>2, <1>5, <2>1, <2>4, Zenon
<1>6. CASE sql[i] \notin Quotes /\ d.type = "NONE"
  <2>1. ~Literal(sql, mode, i)
    BY <1>6, SMTT(30), Zenon DEF Literal, Quotes
  <2>2. ~unsafe[i + 1]
    BY <1>3, <1>6, <2>1, Zenon DEF UnsafeAt, Literal
  <2>3. sql[i] # Hash /\ ~Opens(sql, i)
    BY <1>6, NoComment, Zenon
  <2>4. Begins(A, sql, i) /\ A[i - 1].mode # "quoted"
    BY Zenon DEF Aligned, Begins
  <2>5. Begins(A, sql, i + 1)
    BY <1>6, <2>3, <2>4, PlainRead, ZenonT(30)
  <2>6. \A k \in i - 1 .. (i + 1) - 2 : A[k].mode # "quoted"
    <3>1. \A k \in i - 1 .. (i + 1) - 2 : k = i - 1
      OBVIOUS
    <3> QED
      BY <2>4, <3>1, SMTT(30), ZenonT(30)
  <2>7. i + 1 \in i + 1 .. Len(sql) + 1
    OBVIOUS
  <2>8. Passes(A, sql, i, i + 1)
    BY <2>5, <2>6, <2>7, Zenon DEF Passes
  <2>9. Aligned(A, B, sql, i + 1) \/ Alike(A, B, sql)
    BY <2>8, CommentAligned, SMTT(30), Zenon
  <2> QED
    BY <2>2, <2>7, <2>9, SMTT(30), ZenonT(30)
<1>7. CASE sql[i] \notin Quotes /\ d.type \notin {"NONE", "COMMENT"}
  <2>1. ~Literal(sql, mode, i)
    BY <1>7, Zenon DEF Literal, Quotes
  <2>2. d.type # "UNTERMINATED"
    BY <1>3, <1>7, <2>1, ZenonT(30) DEF UnsafeAt, Literal
  <2>3. d.type \in {"NONE", "COMMENT", "UNTERMINATED"}
    BY <1>7, SMTT(30), ZenonT(30) DEF scan_sql_region, BlockComment, LineComment
  <2> QED
    BY <1>7, <2>2, <2>3, Zenon
<1> QED
  BY <1>4, <1>5, <1>6, <1>7, Zenon

(* A query that passes the check is read alike. *)
LEMMA SafeReadAlike ==
    ASSUME NEW sql, IsText(sql), NEW mode \in SqlModes, mode.backslash_escapes,
           ~mariadb_query_has_unsafe_quote_escape(sql, mode)
    PROVE  Alike(Lexers(sql, Escaping(mode)), Lexers(sql, {}), sql)
<1> DEFINE A == Lexers(sql, Escaping(mode))
           B == Lexers(sql, {})
           N == Len(sql)
<1> N \in Nat
  BY Zenon DEF IsText
<1>2. Reads(A, sql, Escaping(mode)) /\ A[0] = LexerStart
  BY LexersRead, SMTT(30), Zenon DEF Reads
<1>3. Reads(B, sql, {}) /\ B[0] = LexerStart
  BY LexersRead, Zenon DEF Reads
<1>4. PICK unsafe : UnsafeOf(unsafe, sql, mode) /\ ~unsafe[1]
  <2>1. PICK unsafe :
              /\ UnsafeOf(unsafe, sql, mode)
              /\ mariadb_query_has_unsafe_quote_escape(sql, mode)
                   = (mode.backslash_escapes /\ unsafe[1])
    BY UnsafeExists, SMTT(30), ZenonT(30)
  <2> QED
    BY <2>1, Zenon
<1> HIDE DEF A, B
<1>5. Aligned(A, B, sql, 1)
  <2>1. 1 - 1 = 0 /\ A[0].mode = "code" /\ A[0].since = 0 /\ A[0] = B[0]
    BY <1>2, <1>3, SMTT(30), ZenonT(30) DEF LexerStart
  <2>2. 0 \in 0 .. 0 /\ (0 + 1 .. 0 = {}) /\ \A k \in 0 .. 0 : A[k].class = B[k].class
    BY <2>1
  <2> QED
    BY <2>1, <2>2, SMTT(30), ZenonT(30) DEF Aligned, Begins
<1> DEFINE T == {n \in 0 .. N : Aligned(A, B, sql, N + 1 - n) /\ ~unsafe[N + 1 - n]}
<1>6. N \in T
  <2>1. N + 1 - N = 1 /\ N \in 0 .. N
    OBVIOUS
  <2> QED
    BY <1>4, <1>5, <2>1, SMTT(30), ZenonT(30)
<1>7. PICK n \in T : \A m \in T : n <= m
  <2>1. T \subseteq Nat
    BY SMTT(30)
  <2> HIDE DEF T
  <2> QED
    BY <1>6, <2>1, Least, Zenon
<1> DEFINE i == N + 1 - n
<1>8. i \in 1 .. N + 1 /\ Aligned(A, B, sql, i) /\ ~unsafe[i]
  BY <1>7
<1>9. CASE i = N + 1
  <2>1. i - 1 = N
    BY <1>9, SMTT(30), ZenonT(30)
  <2> QED
    BY <1>8, <2>1, Zenon DEF Aligned, Alike, A, B
<1>10. CASE i # N + 1
  <2>1. i \in 1 .. N
    BY <1>8, <1>10, SMTT(30), ZenonT(30)
  <2>2. ASSUME NEW e \in i + 1 .. N + 1, Aligned(A, B, sql, e), ~unsafe[e] PROVE FALSE
    <3>1. N + 1 - e \in 0 .. N /\ N + 1 - (N + 1 - e) = e /\ N + 1 - e < n
      BY <1>7, <2>1, SMTT(30), ZenonT(30)
    <3>2. N + 1 - e \in T
      BY <2>2, <3>1, SMTT(30), ZenonT(30)
    <3>3. n <= N + 1 - e
      BY <1>7, <3>2, SMTT(30), ZenonT(30)
    <3> HIDE DEF T
    <3>4. n \in Nat
      BY <1>7, SMTT(30), ZenonT(30) DEF T
    <3> QED
      BY <3>1, <3>3, <3>4, SMTT(30), ZenonT(30)
  <2> HIDE DEF i
  <2>3. Alike(A, B, sql)
    BY <1>2, <1>3, <1>4, <1>8, <2>1, <2>2, CheckStep, SMTT(30), ZenonT(30)
  <2> QED
    BY <2>3, SMTT(30), Zenon DEF A, B
<1> QED
  BY <1>9, <1>10, SMTT(30), ZenonT(30)

(* mariadb_query_has_unsafe_quote_escape: every query that it lets through,
   of any length and over any alphabet, has its quoted regions and comments at
   the same places for MariaDB and for DuckDB. *)
THEOREM QuotesAlwaysReadAlike == TextSpec => []QuotesReadAlike
<1> DEFINE TextInv == text \in Seq(UNION Alphabets)
<1>1. TextInit => TextInv
  BY SMTT(30) DEF TextInit
<1>2. TextInv /\ [GrowText]_text => TextInv'
  BY DEF GrowText
<1>3. TextInv => QuotesReadAlike
  <2> SUFFICES ASSUME TextInv, NEW mode \in SqlModes, mode.backslash_escapes,
                      ~mariadb_query_has_unsafe_quote_escape(text, mode)
               PROVE  /\ \A i \in 0 .. Len(text) :
                           Lexers(text, Escaping(mode))[i].class = Lexers(text, {})[i].class
                      /\ (Lexers(text, Escaping(mode))[Len(text)].mode = "quoted")
                           = (Lexers(text, {})[Len(text)].mode = "quoted")
    BY Zenon DEF QuotesReadAlike
  <2>1. IsText(text)
    BY SMTT(30) DEF IsText
  <2>2. Alike(Lexers(text, Escaping(mode)), Lexers(text, {}), text)
    BY <2>1, SafeReadAlike, Zenon
  <2> QED
    BY <2>2, Zenon DEF Alike
<1> QED
  BY <1>1, <1>2, <1>3, PTL DEF TextSpec

=============================================================================

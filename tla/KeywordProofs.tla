---------------------------- MODULE KeywordProofs ----------------------------
(***************************************************************************)
(* find_in_code and rfind_in_code for every text that they read as MariaDB *)
(* does: what they find is the first, or the last, keyword in code.  And   *)
(* extract_source_query for every statement: what is forwarded starts at   *)
(* the first SELECT or WITH outside parentheses, strings and comments.     *)
(*                                                                         *)
(* Both follow TextProofs: each step of a search skips what the lexer of   *)
(* MariaDB reads outside code, or one character of code.                   *)
(***************************************************************************)
EXTENDS TextProofs, FiniteSetTheorems

---------------------------------------------------------------------------
(* What is code *)

(* A character is code for the lexer if it is in code before and after it. *)
LEMMA CodeClass ==
    ASSUME NEW sql, IsText(sql), NEW X, NEW L, Reads(L, sql, X), NEW k \in 1 .. Len(sql)
    PROVE  L[k].class = "code" <=> L[k - 1].mode = "code" /\ L[k].mode = "code"
<1>1. k - 1 \in 0 .. Len(sql)
  BY DEF IsText
<1>2. L[k - 1] \in Lexer /\ L[k] = ReadChar(L[k - 1], sql, k, X)
  BY <1>1, Zenon DEF Reads
<1> QED
  BY <1>2, ZenonT(30) DEF ReadChar, Lexer

(* The characters of a comment that are code open it. *)
LEMMA SkipsCode ==
    ASSUME NEW sql, IsText(sql), NEW X, NEW L, Reads(L, sql, X),
           NEW i \in 1 .. Len(sql), NEW e \in 1 .. Len(sql) + 1, Skips(L, sql, i, e)
    PROVE  \A k \in i .. e - 1 : L[k].class = "code" => sql[k] \in {Slash, Dash, Newline}
<1> SUFFICES ASSUME NEW k \in i .. e - 1, L[k].class = "code"
             PROVE  sql[k] \in {Slash, Dash, Newline}
  BY Zenon
<1>1. k \in 1 .. Len(sql)
  BY DEF IsText
<1>2. L[k - 1].mode = "code" /\ L[k].mode = "code"
  BY <1>1, CodeClass, Zenon
<1> QED
  BY <1>2, Zenon DEF Skips

(* A character that starts nothing is code. *)
LEMMA PlainClass ==
    ASSUME NEW sql, IsText(sql), NEW X, NEW L, Reads(L, sql, X),
           NEW i \in 1 .. Len(sql), Begins(L, sql, i),
           sql[i] \notin Quotes, sql[i] # Hash, ~Opens(sql, i)
    PROVE  L[i].class = "code" /\ Begins(L, sql, i + 1)
<1>1. Begins(L, sql, i + 1)
  BY PlainRead, Zenon
<1>2. L[i].mode = "code" /\ L[i - 1].mode = "code"
  <2>1. (i + 1) - 1 = i
    BY DEF IsText
  <2> QED
    BY <1>1, <2>1, Zenon DEF Begins
<1> QED
  BY <1>1, <1>2, CodeClass, Zenon

(* After a quoted region the lexer is in code again, unless the text has
   ended; no character of the region is code. *)
LEMMA QuotedPassed ==
    ASSUME NEW sql, IsText(sql), NEW X, NEW L, Reads(L, sql, X),
           NEW i \in 1 .. Len(sql), NEW r, LexesAs(L, sql, i, r), r.type = "QUOTED"
    PROVE  /\ r.end \in i + 1 .. Len(sql) + 1 /\ Begins(L, sql, r.end)
           /\ \A k \in i .. r.end - 1 : L[k].class # "code"
<1>1. /\ r.end \in i + 1 .. Len(sql) + 1
      /\ \A k \in i .. r.end - 1 : L[k].class = "quoted"
      /\ Left(L, sql, i, r.end - 1)
  BY Zenon DEF LexesAs, QuotedBy
<1>2. r.end - 1 \in 0 .. r.end - 1 /\ (r.end - 1) + 1 .. r.end - 1 = {}
  BY <1>1 DEF IsText
<1>3. L[r.end - 1].mode = "code" /\ L[r.end - 1].since = r.end - 1
  BY <1>1, Zenon DEF Left
<1>4. Begins(L, sql, r.end)
  BY <1>2, <1>3, Zenon DEF Begins
<1> QED
  BY <1>1, <1>4, Zenon

---------------------------------------------------------------------------
(* find_in_code reads code *)

(* A keyword in code. *)
CodeWord(L, sql, k) == sql[k] = Word /\ L[k].class = "code"

(* The texts that find_in_code reads as MariaDB does. *)
Readable(L, sql) ==
    /\ L[Len(sql)].mode \notin {"quoted", "block"}
    /\ \A i \in 1 .. Len(sql) : sql[i] # Hash
    /\ \A i \in 1 .. Len(sql) - 2 :
         (sql[i] = Dash /\ sql[i + 1] = Dash) => sql[i + 2] \in {Space, Newline}

(* The search can go on at e instead of i: code begins there, or the text has
   ended, and no keyword is left out. *)
GoesOn(L, sql, find, i, e) ==
    /\ e \in i + 1 .. Len(sql) + 1
    /\ find[i] = find[e]
    /\ e = Len(sql) + 1 \/ Begins(L, sql, e)
    /\ \A k \in i .. e - 1 : ~CodeWord(L, sql, k)

(* A comment up to the newline: the search goes on at the newline, the scanner
   after it. *)
LEMMA LineSearched ==
    ASSUME NEW sql, IsText(sql), NEW i \in 1 .. Len(sql),
           sql[i] = Dash, At(sql, i + 1, Dash),
           NEW start \in 1 .. i, NEW find, FindOf(find, sql, start)
    PROVE  find[i] = find[LineComment(sql, i).end]
<1> DEFINE S == {j \in i + 1 .. Len(sql) : sql[j] = Newline}
           R == {j \in i + 2 .. Len(sql) : sql[j] = Newline}
           c == LeastOr(R, Len(sql) + 1)
           e == LeastOr(S, Len(sql))
<1>1. Len(sql) \in Nat /\ i \in Nat /\ start \in Nat /\ DOMAIN sql = 1 .. Len(sql)
  BY DEF IsText
<1>2. i + 1 <= Len(sql) /\ sql[i + 1] = Dash
  BY <1>1 DEF At
<1>3. /\ Dash \notin Quotes /\ Dash # Newline /\ Dash # Word
      /\ Newline \notin Quotes /\ Newline # Word /\ Newline # Slash
  BY CharactersAssumption, Zenon DEF Quotes
<1>4. S = R /\ S \subseteq Nat
  BY <1>1, <1>2, <1>3
<1>5. find[i] = find[c]
  <2>1. Skip(sql, i) = c
    BY <1>3, Zenon DEF Skip, SkipLine
  <2>2. i \in start .. Len(sql) + 3 /\ ~(i > Len(sql))
    BY <1>1
  <2> HIDE DEF c
  <2> QED
    BY <1>3, <2>1, <2>2, ZenonT(30) DEF FindOf, FindAt
<1>6. LineComment(sql, i).end = e + 1
  BY Zenon DEF LineComment
<1>7. CASE S = {}
  <2>1. c = Len(sql) + 1 /\ e = Len(sql)
    BY <1>4, <1>7, LeastOrFacts, ZenonT(30)
  <2> QED
    BY <1>5, <1>6, <2>1, ZenonT(30)
<1>8. CASE S # {}
  <2>1. c = e
    <3> HIDE DEF S, R
    <3>1. c = CHOOSE j \in R : \A k \in R : j <= k
      BY <1>4, <1>8, Zenon DEF LeastOr
    <3>2. e = CHOOSE j \in S : \A k \in S : j <= k
      BY <1>8, Zenon DEF LeastOr
    <3> QED
      BY <1>4, <3>1, <3>2, Zenon
  <2>2. e \in S
    BY <1>4, <1>8, LeastOrFacts, ZenonT(30)
  <2> HIDE DEF c, e
  <2>3. e \in start .. Len(sql) + 3 /\ e \in 1 .. Len(sql) /\ ~(e > Len(sql)) /\ sql[e] = Newline
    BY <1>1, <2>2
  <2>4. Skip(sql, e) = e + 1
    BY <1>3, <2>3, Zenon DEF Skip
  <2>5. find[e] = find[e + 1]
    BY <1>3, <2>3, <2>4, ZenonT(30) DEF FindOf, FindAt
  <2> QED
    BY <1>5, <1>6, <2>1, <2>5, ZenonT(30)
<1> QED
  BY <1>7, <1>8, Zenon

(* A comment between slashes and stars ends alike for both. *)
LEMMA BlockSearched ==
    ASSUME NEW sql, IsText(sql), NEW i \in 1 .. Len(sql),
           sql[i] = Slash, At(sql, i + 1, Star), BlockComment(sql, i).type = "COMMENT"
    PROVE  Skip(sql, i) = BlockComment(sql, i).end
<1> DEFINE c == LeastOr({j \in i + 2 .. Len(sql) - 1 : sql[j] = Star /\ sql[j + 1] = Slash}, 0)
<1>1. c # 0 /\ BlockComment(sql, i).end = c + 2
  BY Zenon DEF BlockComment
<1>2. Slash \notin Quotes /\ Slash # Dash
  BY CharactersAssumption, Zenon DEF Quotes
<1>3. Skip(sql, i) = SkipBlock(sql, i + 2)
  BY <1>2, Zenon DEF Skip
<1>4. SkipBlock(sql, i + 2) = c + 2
  BY <1>1, Zenon DEF SkipBlock
<1> QED
  BY <1>1, <1>3, <1>4, Zenon

(* One that is not closed is what the text ends in. *)
LEMMA BlockUnclosed ==
    ASSUME NEW sql, IsText(sql), NEW X, NEW L, Reads(L, sql, X),
           NEW i \in 1 .. Len(sql), Begins(L, sql, i),
           sql[i] = Slash, At(sql, i + 1, Star), BlockComment(sql, i).type # "COMMENT"
    PROVE  L[Len(sql)].mode = "block"
<1> DEFINE S == {j \in i + 2 .. Len(sql) - 1 : sql[j] = Star /\ sql[j + 1] = Slash}
           c == LeastOr(S, 0)
<1>1. Len(sql) \in Nat /\ i \in Nat /\ DOMAIN sql = 1 .. Len(sql) /\ S \subseteq Nat
  BY DEF IsText
<1>2. i + 1 \in 1 .. Len(sql) /\ sql[i + 1] = Star /\ Len(sql) \in i + 1 .. Len(sql)
  BY <1>1 DEF At
<1>3. c = 0
  BY Zenon DEF BlockComment
<1>4. S = {}
  <2>1. S # {} => c \in S
    BY <1>1, LeastOrFacts, ZenonT(30)
  <2> HIDE DEF c
  <2> QED
    BY <1>1, <1>3, <2>1
<1>5. L[i + 1].mode = "block" /\ L[i + 1].since = i + 1
  BY <1>2, BlockOpens
<1>6. ASSUME NEW k \in (i + 1) + 1 .. Len(sql)
      PROVE  ~Closes(sql, L[i + 1].mode, L[i + 1].since, k)
  <2> SUFFICES ASSUME sql[k] = Slash, k - 1 > i + 1, sql[k - 1] = Star PROVE FALSE
    BY <1>5, Zenon DEF Closes
  <2>1. k - 1 \in i + 2 .. Len(sql) - 1 /\ (k - 1) + 1 = k
    BY <1>1
  <2>2. k - 1 \in S
    BY <2>1, Zenon
  <2> QED
    BY <1>4, <2>2, Zenon
<1>7. \A k \in i + 1 .. Len(sql) : L[k].mode = L[i + 1].mode /\ L[k].since = L[i + 1].since
  BY <1>2, <1>5, <1>6, CommentGoesOn
<1> QED
  BY <1>2, <1>5, <1>7, Zenon

(* One step of the search, from a position that is no keyword. *)
LEMMA FindStep ==
    ASSUME NEW sql, IsText(sql), NEW L, Reads(L, sql, {Squote, Dquote}), Readable(L, sql),
           NEW i \in 1 .. Len(sql), Begins(L, sql, i), sql[i] # Word,
           NEW start \in 1 .. i, NEW find, FindOf(find, sql, start)
    PROVE  \E e : GoesOn(L, sql, find, i, e)
<1>1. Len(sql) \in Nat /\ i \in Nat /\ start \in Nat /\ DOMAIN sql = 1 .. Len(sql)
  BY DEF IsText
<1>2. find[i] = find[Skip(sql, i)]
  <2>1. i \in start .. Len(sql) + 3 /\ ~(i > Len(sql))
    BY <1>1
  <2> QED
    BY <2>1, Zenon DEF FindOf, FindAt
<1>3. L[Len(sql)].mode \notin {"quoted", "block"} /\ sql[i] # Hash
  BY Zenon DEF Readable
<1>4. Word \notin {Slash, Dash, Newline}
  BY CharactersAssumption, Zenon
<1>5. CASE sql[i] \in Quotes
  <2> DEFINE f == sql[i] # Btick
             r == QuotedRegion(sql, i, f)
  <2>1. f \in BOOLEAN /\ (f <=> sql[i] # Btick)
    BY Zenon
  <2>2. f <=> sql[i] \in {Squote, Dquote}
    BY <1>5, CharactersAssumption, ZenonT(30) DEF Quotes
  <2>3. L[i - 1].mode = "code"
    BY Zenon DEF Begins
  <2> HIDE DEF f
  <2>4. LexesAs(L, sql, i, r)
    BY <1>5, <2>1, <2>2, <2>3, QuotedRead, ZenonT(30)
  <2>5. r.type = "QUOTED"
    <3>1. r.type = "UNTERMINATED" => L[(Len(sql) + 1) - 1].mode = "quoted"
      BY <2>4, Zenon DEF LexesAs
    <3>2. (Len(sql) + 1) - 1 = Len(sql)
      BY <1>1
    <3>3. r.type \in {"QUOTED", "UNTERMINATED"}
      BY <2>4, Zenon DEF LexesAs
    <3> QED
      BY <1>3, <3>1, <3>2, <3>3, ZenonT(30)
  <2>6. SkipQuoted(sql, i + 1, sql[i]) = r.end
    BY <1>5, <2>1, <2>5, SkipQuotedRegion, ZenonT(30)
  <2> HIDE DEF r
  <2>7. /\ r.end \in i + 1 .. Len(sql) + 1 /\ Begins(L, sql, r.end)
        /\ \A k \in i .. r.end - 1 : L[k].class # "code"
    BY <2>4, <2>5, QuotedPassed, ZenonT(30)
  <2>8. Skip(sql, i) = r.end
    BY <1>5, <2>6, ZenonT(30) DEF Skip
  <2>9. GoesOn(L, sql, find, i, r.end)
    BY <1>2, <2>7, <2>8, Zenon DEF GoesOn, CodeWord
  <2> QED
    BY <2>9, Zenon
<1>6. ASSUME sql[i] \notin Quotes, NEW e, Passes(L, sql, i, e), Skips(L, sql, i, e),
             find[i] = find[e]
      PROVE  GoesOn(L, sql, find, i, e)
  <2>1. e \in i + 1 .. Len(sql) + 1 /\ (Begins(L, sql, e) \/ e = Len(sql) + 1)
    BY <1>6, Zenon DEF Passes
  <2>2. e \in 1 .. Len(sql) + 1
    BY <1>1, <2>1
  <2>3. \A k \in i .. e - 1 : L[k].class = "code" => sql[k] \in {Slash, Dash, Newline}
    BY <1>6, <2>2, SkipsCode, ZenonT(30)
  <2> QED
    BY <1>4, <1>6, <2>1, <2>3, ZenonT(30) DEF GoesOn, CodeWord
<1>7. CASE sql[i] = Dash /\ At(sql, i + 1, Dash)
  <2> DEFINE r == scan_sql_region(sql, i, FALSE)
  <2>1. sql[i] \notin Quotes /\ sql[i] # Slash
    BY <1>7, CharactersAssumption, Zenon DEF Quotes
  <2>2. i + 2 > Len(sql) \/ sql[i + 2] \in {Space, Newline}
    <3>1. CASE i + 2 <= Len(sql)
      <4>1. i \in 1 .. Len(sql) - 2
        BY <1>1, <3>1
      <4>2. sql[i + 1] = Dash
        BY <1>7, Zenon DEF At
      <4> QED
        BY <1>7, <4>1, <4>2, ZenonT(30) DEF Readable
    <3> QED
      BY <1>1, <3>1
  <2>3. r = LineComment(sql, i)
    <3>1. ~(i > Len(sql)) /\ i \in DOMAIN sql
      BY <1>1
    <3> QED
      BY <1>7, <2>1, <2>2, <3>1, ZenonT(30) DEF scan_sql_region, At
  <2> HIDE DEF r
  <2>4. r.type = "COMMENT" /\ r.end = LineComment(sql, i).end
    <3>1. LineComment(sql, i).type = "COMMENT"
      BY Zenon DEF LineComment
    <3> QED
      BY <2>3, <3>1, ZenonT(30)
  <2>5. Passes(L, sql, i, r.end) /\ Skips(L, sql, i, r.end)
    BY <2>1, <2>4, CommentRead, ZenonT(30) DEF r
  <2>6. find[i] = find[r.end]
    BY <1>7, <2>4, LineSearched
  <2>7. GoesOn(L, sql, find, i, r.end)
    BY <1>6, <2>1, <2>5, <2>6, Zenon
  <2> QED
    BY <2>7, Zenon
<1>8. CASE sql[i] = Slash /\ At(sql, i + 1, Star)
  <2> DEFINE r == scan_sql_region(sql, i, FALSE)
  <2>1. sql[i] \notin Quotes
    BY <1>8, CharactersAssumption, Zenon DEF Quotes
  <2>2. BlockComment(sql, i).type = "COMMENT"
    BY <1>3, <1>8, BlockUnclosed, ZenonT(30)
  <2>3. r = BlockComment(sql, i)
    BY <1>1, <1>8 DEF scan_sql_region, At
  <2> HIDE DEF r
  <2>4. Passes(L, sql, i, r.end) /\ Skips(L, sql, i, r.end)
    BY <2>1, <2>2, <2>3, CommentRead, ZenonT(30) DEF r
  <2>5. find[i] = find[r.end]
    BY <1>2, <1>8, <2>2, <2>3, BlockSearched, ZenonT(30)
  <2>6. GoesOn(L, sql, find, i, r.end)
    BY <1>6, <2>1, <2>4, <2>5, ZenonT(30)
  <2> QED
    BY <2>6, Zenon
<1>9. CASE /\ sql[i] \notin Quotes /\ ~(sql[i] = Dash /\ At(sql, i + 1, Dash))
           /\ ~(sql[i] = Slash /\ At(sql, i + 1, Star))
  <2>1. ~Opens(sql, i)
    BY <1>9, Zenon DEF Opens, At
  <2>2. Begins(L, sql, i + 1)
    BY <1>3, <1>9, <2>1, PlainRead, ZenonT(30)
  <2>3. Skip(sql, i) = i + 1
    BY <1>9, Zenon DEF Skip
  <2>4. i + 1 \in i + 1 .. Len(sql) + 1 /\ \A k \in i .. (i + 1) - 1 : k = i
    BY <1>1
  <2>5. GoesOn(L, sql, find, i, i + 1)
    BY <1>2, <2>2, <2>3, <2>4, ZenonT(30) DEF GoesOn, CodeWord
  <2> QED
    BY <2>5, Zenon
<1> QED
  BY <1>5, <1>7, <1>8, <1>9, Zenon

(* r is the first keyword in code from i on, or 0. *)
Finds(L, sql, i, r) ==
    \/ r = 0 /\ \A k \in i .. Len(sql) : ~CodeWord(L, sql, k)
    \/ /\ r \in i .. Len(sql) /\ CodeWord(L, sql, r) /\ Begins(L, sql, r + 1)
       /\ \A k \in i .. r - 1 : ~CodeWord(L, sql, k)

(* What find_in_code returns, where code begins. *)
LEMMA FindReads ==
    ASSUME NEW sql, IsText(sql), NEW L, Reads(L, sql, {Squote, Dquote}), Readable(L, sql),
           NEW start \in 1 .. Len(sql) + 1, start = Len(sql) + 1 \/ Begins(L, sql, start)
    PROVE  Finds(L, sql, start, find_in_code(sql, Word, start))
<1> DEFINE b == Len(sql) + 1
<1>1. Len(sql) \in Nat /\ start \in Nat /\ b \in Nat
  BY DEF IsText
<1>2. PICK find : /\ find_in_code(sql, Word, start) = find[start]
                  /\ FindOf(find, sql, start)
  BY FindExists, Zenon
<1> DEFINE Good(k) == (k = b \/ Begins(L, sql, k)) => Finds(L, sql, k, find[k])
           G == {n \in Nat : \A k \in start .. b : k >= b - n => Good(k)}
<1>3. ASSUME NEW k \in start .. b, \A j \in k + 1 .. b : Good(j) PROVE Good(k)
  <2>1. CASE k = b
    <3>1. find[k] = 0 /\ k .. Len(sql) = {}
      BY <1>1, <1>2, <2>1 DEF FindOf, FindAt
    <3> QED
      BY <3>1, Zenon DEF Finds
  <2>2. CASE k # b /\ Begins(L, sql, k) /\ sql[k] = Word
    <3>1. k \in start .. Len(sql) + 3 /\ k \in 1 .. Len(sql) /\ ~(k > Len(sql))
      BY <1>1, <2>2
    <3>2. find[k] = k
      BY <1>2, <2>2, <3>1, ZenonT(30) DEF FindOf, FindAt
    <3>3. sql[k] \notin Quotes /\ sql[k] # Hash /\ ~Opens(sql, k)
      BY <2>2, CharactersAssumption, Zenon DEF Quotes, Opens, At
    <3>4. L[k].class = "code" /\ Begins(L, sql, k + 1)
      BY <2>2, <3>1, <3>3, PlainClass, ZenonT(30)
    <3>5. k \in k .. Len(sql) /\ k .. k - 1 = {}
      BY <1>1, <3>1
    <3> QED
      BY <2>2, <3>2, <3>4, <3>5, Zenon DEF Finds, CodeWord
  <2>3. CASE k # b /\ Begins(L, sql, k) /\ sql[k] # Word
    <3>1. k \in 1 .. Len(sql) /\ start \in 1 .. k
      BY <1>1, <2>3
    <3>2. PICK e : GoesOn(L, sql, find, k, e)
      BY <1>2, <2>3, <3>1, FindStep, ZenonT(30)
    <3>3. /\ e \in k + 1 .. b /\ find[k] = find[e] /\ (e = b \/ Begins(L, sql, e))
          /\ \A j \in k .. e - 1 : ~CodeWord(L, sql, j)
      BY <3>2, Zenon DEF GoesOn
    <3>4. Finds(L, sql, e, find[e])
      BY <1>3, <3>3, ZenonT(30)
    <3>5. Finds(L, sql, k, find[e])
      BY <1>1, <3>1, <3>3, <3>4 DEF Finds
    <3> QED
      BY <3>3, <3>5, Zenon
  <2> QED
    BY <2>1, <2>2, <2>3, ZenonT(30)
<1> HIDE DEF Good
<1>4. 0 \in G
  <2> SUFFICES ASSUME NEW k \in start .. b, k >= b - 0 PROVE Good(k)
    BY Zenon
  <2>1. \A j \in k + 1 .. b : Good(j)
    BY <1>1
  <2> QED
    BY <1>3, <2>1, ZenonT(30)
<1>5. ASSUME NEW n \in 0 .. b - 1, n \in G PROVE n + 1 \in G
  <2> SUFFICES ASSUME NEW k \in start .. b, k >= b - (n + 1) PROVE Good(k)
    BY <1>5
  <2>1. \A j \in k + 1 .. b : j >= b - n /\ j \in start .. b
    BY <1>1
  <2>2. \A j \in k + 1 .. b : Good(j)
    BY <1>5, <2>1, Zenon
  <2> QED
    BY <1>3, <2>2, ZenonT(30)
<1>6. b \in G
  <2> HIDE DEF G, b
  <2> QED
    BY <1>1, <1>4, <1>5, UpTo, ZenonT(30)
<1>7. Good(start)
  <2>1. start \in start .. b /\ start >= b - b
    BY <1>1
  <2> QED
    BY <1>6, <2>1, ZenonT(30)
<1> QED
  BY <1>2, <1>7, Zenon DEF Good

---------------------------------------------------------------------------
(* rfind_in_code *)

(* n is a keyword in code up to before, or 0, and code begins after it. *)
Candidate(L, sql, before, n) ==
    /\ n \in 0 .. Len(sql) /\ (n = 0 \/ (CodeWord(L, sql, n) /\ n <= before))
    /\ Begins(L, sql, n + 1)

(* The lexer begins in code. *)
LEMMA CodeAtStart ==
    ASSUME NEW sql, NEW L, L[0] = LexerStart
    PROVE  Begins(L, sql, 1)
<1>1. 1 - 1 = 0 /\ LexerStart.mode = "code" /\ LexerStart.since = 0
  BY DEF LexerStart
<1> QED
  BY <1>1 DEF Begins

(* What rfind_in_code returns. *)
LEMMA LastReads ==
    ASSUME NEW sql, IsText(sql), NEW L, Reads(L, sql, {Squote, Dquote}), Readable(L, sql),
           L[0] = LexerStart, NEW before \in 1 .. Len(sql)
    PROVE  /\ Candidate(L, sql, before, rfind_in_code(sql, Word, before))
           /\ \A k \in rfind_in_code(sql, Word, before) + 1 .. before : ~CodeWord(L, sql, k)
<1> DEFINE b == Len(sql)
           Is(r) == /\ Candidate(L, sql, before, r)
                    /\ \A k \in r + 1 .. before : ~CodeWord(L, sql, k)
<1>1. Len(sql) \in Nat /\ b \in Nat /\ before \in Nat
  BY DEF IsText
<1>2. PICK last : /\ rfind_in_code(sql, Word, before) = last[<<1, 0>>]
                  /\ LastOf(last, sql, before)
  BY LastExists, Zenon
<1> DEFINE Good(n) == Candidate(L, sql, before, n) => Is(last[<<n + 1, n>>])
           G == {j \in Nat : \A n \in 0 .. b : n >= b - j => Good(n)}
<1>3. ASSUME NEW n \in 0 .. b, \A j \in n + 1 .. b : Good(j) PROVE Good(n)
  <2> SUFFICES ASSUME Candidate(L, sql, before, n) PROVE Is(last[<<n + 1, n>>])
    BY Zenon
  <2> DEFINE p == <<n + 1, n>>
             next == find_in_code(sql, Word, n + 1)
  <2>1. n + 1 \in 1 .. Len(sql) + 1 /\ n \in 0 .. Len(sql)
    BY <1>1
  <2>2. p \in (1 .. Len(sql) + 1) \X (0 .. Len(sql)) /\ p[1] = n + 1 /\ p[2] = n
    BY <2>1, ZenonT(30)
  <2>3. last[p] = LastAt(last, sql, before, p)
    BY <1>2, <2>2, ZenonT(30) DEF LastOf
  <2>4. last[p] = IF next = 0 \/ next > before THEN n ELSE last[<<next + 1, next>>]
    BY <2>2, <2>3, ZenonT(30) DEF LastAt
  <2>5. Begins(L, sql, n + 1)
    BY Zenon DEF Candidate
  <2>6. Finds(L, sql, n + 1, next)
    BY <2>1, <2>5, FindReads, ZenonT(30)
  <2> HIDE DEF next, p
  <2>7. CASE next = 0 \/ next > before
    <3>1. last[p] = n
      BY <2>4, <2>7, ZenonT(30)
    <3>2. \A k \in n + 1 .. before : ~CodeWord(L, sql, k)
      BY <1>1, <2>6, <2>7 DEF Finds
    <3> QED
      BY <3>1, <3>2, ZenonT(30) DEF p
  <2>8. CASE ~(next = 0 \/ next > before)
    <3>1. next \in n + 1 .. b /\ CodeWord(L, sql, next) /\ Begins(L, sql, next + 1)
      BY <2>6, <2>8, Zenon DEF Finds
    <3>2. next \in 0 .. Len(sql) /\ next <= before
      BY <1>1, <2>8, <3>1
    <3>3. Candidate(L, sql, before, next)
      BY <3>1, <3>2, ZenonT(30) DEF Candidate
    <3>4. Is(last[<<next + 1, next>>])
      BY <1>3, <3>1, <3>3, ZenonT(30)
    <3> QED
      BY <2>4, <2>8, <3>4, ZenonT(30) DEF p
  <2> QED
    BY <2>7, <2>8, ZenonT(30)
<1> HIDE DEF Good
<1>4. 0 \in G
  <2> SUFFICES ASSUME NEW n \in 0 .. b, n >= b - 0 PROVE Good(n)
    BY Zenon
  <2>1. \A j \in n + 1 .. b : Good(j)
    BY <1>1
  <2> QED
    BY <1>3, <2>1, Zenon
<1>5. ASSUME NEW m \in 0 .. b - 1, m \in G PROVE m + 1 \in G
  <2> SUFFICES ASSUME NEW n \in 0 .. b, n >= b - (m + 1) PROVE Good(n)
    BY <1>5
  <2>1. \A j \in n + 1 .. b : j >= b - m /\ j \in 0 .. b
    BY <1>1
  <2>2. \A j \in n + 1 .. b : Good(j)
    BY <1>5, <2>1, Zenon
  <2> QED
    BY <1>3, <2>2, Zenon
<1>6. b \in G
  <2> HIDE DEF G, b
  <2> QED
    BY <1>1, <1>4, <1>5, UpTo, ZenonT(30)
<1>7. Good(0)
  <2>1. 0 \in 0 .. b /\ 0 >= b - b
    BY <1>1
  <2> QED
    BY <1>6, <2>1, Zenon
<1>8. Candidate(L, sql, before, 0)
  BY <1>1, CodeAtStart DEF Candidate
<1>9. 0 + 1 = 1
  OBVIOUS
<1> QED
  BY <1>2, <1>7, <1>8, <1>9, ZenonT(30) DEF Good

(* The lexers of a text read it. *)
LEMMA LexersAre ==
    ASSUME NEW sql, IsText(sql), NEW X
    PROVE  Reads(Lexers(sql, X), sql, X) /\ Lexers(sql, X)[0] = LexerStart
  BY LexersRead, Zenon DEF Reads

(* Backslashes between quotes escape, or are in backticks. *)
PlainStrings(L, sql, X) ==
    \A i \in 1 .. Len(sql) :
        (sql[i] = Backslash /\ L[i].class = "quoted") => L[i].quote \in X \cup {Btick}

(* Then the text reads the same when backslashes escape in both quotes. *)
LEMMA PlainStringsRead ==
    ASSUME NEW sql, IsText(sql), NEW X, X \subseteq {Squote, Dquote},
           NEW L, Reads(L, sql, X), PlainStrings(L, sql, X)
    PROVE  Reads(L, sql, {Squote, Dquote})
<1> DEFINE Y == {Squote, Dquote}
<1>1. ASSUME NEW i \in 1 .. Len(sql) PROVE L[i] = ReadChar(L[i - 1], sql, i, Y)
  <2> DEFINE lexer == L[i - 1]
  <2>1. L[i] = ReadChar(lexer, sql, i, X)
    BY Zenon DEF Reads
  <2>2. lexer \in Lexer
    <3>1. i - 1 \in 0 .. Len(sql)
      BY DEF IsText
    <3> QED
      BY <3>1, Zenon DEF Reads
  <2> HIDE DEF lexer
  <2> SUFFICES ReadChar(lexer, sql, i, X) = ReadChar(lexer, sql, i, Y)
    BY <2>1, Zenon DEF lexer
  <2>3. CASE lexer.mode # "quoted"
    BY <2>3, Zenon DEF ReadChar
  <2>4. CASE lexer.mode = "quoted" /\ (lexer.escaped \/ sql[i] # Backslash)
    BY <2>4, Zenon DEF ReadChar
  <2>5. CASE lexer.mode = "quoted" /\ ~lexer.escaped /\ sql[i] = Backslash
    <3>1. L[i].class = "quoted" /\ L[i].quote = lexer.quote
      BY <2>1, <2>2, <2>5 DEF ReadChar, Lexer
    <3>2. lexer.quote \in X \cup {Btick}
      BY <2>5, <3>1, Zenon DEF PlainStrings
    <3>3. lexer.quote \in X <=> lexer.quote \in Y
      BY <3>2, CharactersAssumption, Zenon
    <3> QED
      BY <3>3, Zenon DEF ReadChar
  <2> QED
    BY <2>3, <2>4, <2>5, Zenon
<1> QED
  BY <1>1, Zenon DEF Reads

(* find_in_code and rfind_in_code: in every sql_mode and every text, of any
   length and over any alphabet, that has no #, no -- without a blank after it
   and no backslash between quotes where the sql_mode lets none escape, the
   keyword found is the first, or the last, that MariaDB's lexer reads as
   code. *)
THEOREM KeywordsAlwaysFoundInCode == TextSpec => []KeywordsAreFoundInCode
<1> DEFINE TextInv == text \in Seq(UNION Alphabets)
<1>1. TextInit => TextInv
  BY DEF TextInit
<1>2. TextInv /\ [GrowText]_text => TextInv'
  BY DEF GrowText
<1>3. TextInv => KeywordsAreFoundInCode
  <2> SUFFICES ASSUME TextInv, NEW mode \in SqlModes,
                      Readable(Lexers(text, Escaping(mode)), text),
                      PlainStrings(Lexers(text, Escaping(mode)), text, Escaping(mode))
               PROVE  LET words == InCode(text, Escaping(mode), Word)
                          upTo(last) == {i \in words : i <= last}
                      IN /\ find_in_code(text, Word, 1) = LeastOr(words, 0)
                         /\ \A last \in 1 .. Len(text) :
                              rfind_in_code(text, Word, last)
                                = IF upTo(last) = {} THEN 0
                                  ELSE CHOOSE i \in upTo(last) : \A j \in upTo(last) : j <= i
    <3>1. TextInv => DOMAIN text = 1 .. Len(text)
      OBVIOUS
    <3> QED
      BY <3>1, ZenonT(30) DEF KeywordsAreFoundInCode, Readable, EndsIn, PlainStrings
  <2> DEFINE X == Escaping(mode)
             L == Lexers(text, X)
             words == InCode(text, X, Word)
             upTo(last) == {i \in words : i <= last}
  <2>1. IsText(text)
    BY DEF IsText
  <2>2. words = {i \in 1 .. Len(text) : CodeWord(L, text, i)} /\ words \subseteq Nat
    BY <2>1 DEF IsText, InCode, CodeWord
  <2>3. Reads(L, text, {Squote, Dquote}) /\ L[0] = LexerStart
    <3>1. Reads(L, text, X) /\ L[0] = LexerStart
      BY <2>1, LexersAre, ZenonT(30)
    <3>2. X \subseteq {Squote, Dquote}
      BY Zenon DEF Escaping
    <3> QED
      BY <2>1, <3>1, <3>2, PlainStringsRead, ZenonT(30)
  <2> Readable(L, text)
    BY Zenon
  <2> HIDE DEF L, words
  <2>4. find_in_code(text, Word, 1) = LeastOr(words, 0)
    <3> DEFINE r == find_in_code(text, Word, 1)
    <3>1. 1 \in 1 .. Len(text) + 1 /\ Len(text) \in Nat
      BY <2>1 DEF IsText
    <3>2. Finds(L, text, 1, r)
      BY <2>1, <2>3, <3>1, CodeAtStart, FindReads, ZenonT(60)
    <3> HIDE DEF r
    <3>3. CASE r = 0
      <4>1. words = {}
        BY <2>2, <3>1, <3>2, <3>3 DEF Finds
      <4> QED
        BY <3>3, <4>1, Zenon DEF r, LeastOr
    <3>4. CASE r # 0
      <4>1. r \in words /\ \A j \in words : r <= j
        BY <2>2, <3>1, <3>2, <3>4 DEF Finds
      <4>2. LeastOr(words, 0) \in words /\ \A j \in words : LeastOr(words, 0) <= j
        BY <2>2, <4>1, LeastOrFacts, Zenon
      <4>3. r = LeastOr(words, 0)
        BY <2>2, <4>1, <4>2
      <4> QED
        BY <4>3, Zenon DEF r
    <3> QED
      BY <3>3, <3>4, Zenon
  <2>5. ASSUME NEW last \in 1 .. Len(text)
        PROVE  rfind_in_code(text, Word, last)
                 = IF upTo(last) = {} THEN 0
                   ELSE CHOOSE i \in upTo(last) : \A j \in upTo(last) : j <= i
    <3> DEFINE r == rfind_in_code(text, Word, last)
               T == upTo(last)
    <3>1. Len(text) \in Nat /\ last \in Nat /\ T \subseteq Nat
      BY <2>1, <2>2 DEF IsText
    <3>2. Candidate(L, text, last, r) /\ \A k \in r + 1 .. last : ~CodeWord(L, text, k)
      BY <2>1, <2>3, LastReads, Zenon
    <3> HIDE DEF r
    <3>3. r \in 0 .. Len(text) /\ (r = 0 \/ (CodeWord(L, text, r) /\ r <= last))
      BY <3>2, Zenon DEF Candidate
    <3>4. \A j \in T : j <= r
      <4> SUFFICES ASSUME NEW j \in T, ~(j <= r) PROVE FALSE
        BY Zenon
      <4>1. CodeWord(L, text, j) /\ j <= last /\ j \in Nat
        BY <2>2, Zenon
      <4>2. j \in r + 1 .. last
        BY <3>1, <3>3, <4>1
      <4> QED
        BY <3>2, <4>1, <4>2, ZenonT(30)
    <3>5. r = 0 => T = {}
      <4> SUFFICES ASSUME r = 0, NEW j \in T PROVE FALSE
        BY Zenon
      <4>1. j \in 1 .. Len(text)
        BY <2>2, Zenon
      <4> QED
        BY <3>4, <4>1
    <3>6. r # 0 => r \in T
      BY <2>2, <3>3
    <3> HIDE DEF T
    <3>7. CASE r = 0
      BY <3>5, <3>7, ZenonT(30) DEF r, T
    <3>8. CASE r # 0
      <4> DEFINE m == CHOOSE i \in T : \A j \in T : j <= i
      <4>1. m \in T /\ \A j \in T : j <= m
        BY <3>4, <3>6, <3>8, ZenonT(30)
      <4> HIDE DEF m
      <4>2. m = r /\ T # {}
        <5>1. r \in T
          BY <3>6, <3>8, Zenon
        <5>2. m <= r /\ r <= m /\ T # {}
          BY <3>4, <4>1, <5>1, ZenonT(30)
        <5>3. m \in Nat /\ r \in Nat
          BY <3>1, <4>1, <5>1, ZenonT(30)
        <5> QED
          BY <5>2, <5>3
      <4>3. r = IF T = {} THEN 0 ELSE m
        BY <4>2, Zenon
      <4> QED
        BY <4>3, Zenon DEF m, r, T
    <3> QED
      BY <3>7, <3>8, Zenon
  <2> QED
    BY <2>4, <2>5, Zenon DEF words
<1> QED
  BY <1>1, <1>2, <1>3, PTL DEF TextSpec

---------------------------------------------------------------------------
(* extract_source_query: the regions it skips *)

(* A quoted region without backslashes is the same with escapes and without. *)
LEMMA PlainRegion ==
    ASSUME NEW sql, IsText(sql), NEW i \in 1 .. Len(sql), sql[i] \in Quotes,
           \A j \in i + 1 .. QuotedRegion(sql, i, FALSE).end - 1 :
              j <= Len(sql) => sql[j] # Backslash
    PROVE  QuotedRegion(sql, i, TRUE) = QuotedRegion(sql, i, FALSE)
<1> DEFINE b == Len(sql) + 2
<1>1. Len(sql) \in Nat /\ i \in Nat /\ b \in Nat
  BY DEF IsText
<1>2. PICK bare : /\ QuotedRegion(sql, i, FALSE) = Region(sql, bare[i + 1])
                  /\ CloseOf(bare, sql, i, FALSE)
  BY CloseExists, Zenon
<1>3. PICK close : /\ QuotedRegion(sql, i, TRUE) = Region(sql, close[i + 1])
                   /\ CloseOf(close, sql, i, TRUE)
  BY CloseExists, Zenon
<1>4. sql[i] # Backslash
  BY CharactersAssumption, ZenonT(30) DEF Quotes
<1> DEFINE Clean(k) == \A j \in k .. Len(sql) : (bare[k] = 0 \/ j <= bare[k]) => sql[j] # Backslash
           Agree(k) == /\ bare[k] = 0 \/ (bare[k] \in Nat /\ bare[k] >= k)
                       /\ Clean(k) => close[k] = bare[k]
           G == {n \in Nat : \A k \in i + 1 .. b : k >= b - n => Agree(k)}
<1>5. ASSUME NEW k \in i + 1 .. b, \A j \in k + 1 .. b : Agree(j) PROVE Agree(k)
  <2>1. bare[k] = ClosedAt(bare, sql, i, FALSE, k) /\ close[k] = ClosedAt(close, sql, i, TRUE, k)
    BY <1>2, <1>3, ZenonT(60) DEF CloseOf
  <2>2. CASE k > Len(sql)
    BY <2>1, <2>2, Zenon DEF ClosedAt
  <2>3. CASE k <= Len(sql)
    <3>1. k + 1 \in k + 1 .. b /\ k + 2 \in k + 1 .. b /\ k \in Nat
      BY <1>1, <2>3
    <3>2. Agree(k + 1) /\ Agree(k + 2)
      BY <1>5, <3>1, Zenon
    <3>3. CASE sql[k] # sql[i]
      <4>1. bare[k] = bare[k + 1]
        BY <2>1, <2>3, <3>3 DEF ClosedAt
      <4>2. bare[k] = 0 \/ (bare[k] \in Nat /\ bare[k] >= k)
        BY <3>1, <3>2, <4>1
      <4>3. ASSUME Clean(k) PROVE close[k] = bare[k]
        <5>1. k \in k .. Len(sql) /\ k + 1 .. Len(sql) \subseteq k .. Len(sql)
          BY <1>1, <2>3, <3>1
        <5>2. sql[k] # Backslash
          BY <4>2, <4>3, <5>1, ZenonT(30)
        <5>3. Clean(k + 1)
          BY <4>1, <4>3, <5>1, ZenonT(30)
        <5>4. close[k] = close[k + 1]
          BY <2>1, <2>3, <3>3, <5>2 DEF ClosedAt
        <5> QED
          BY <3>2, <4>1, <5>3, <5>4, ZenonT(30)
      <4> QED
        BY <4>2, <4>3, ZenonT(30)
    <3>4. CASE sql[k] = sql[i] /\ At(sql, k + 1, sql[i])
      <4>1. bare[k] = bare[k + 2] /\ close[k] = close[k + 2]
        BY <1>4, <2>1, <2>3, <3>4 DEF ClosedAt
      <4>2. bare[k] = 0 \/ (bare[k] \in Nat /\ bare[k] >= k)
        BY <3>1, <3>2, <4>1
      <4>3. ASSUME Clean(k) PROVE Clean(k + 2)
        <5>1. k + 2 .. Len(sql) \subseteq k .. Len(sql)
          BY <1>1, <3>1
        <5> QED
          BY <4>1, <4>3, <5>1, ZenonT(30)
      <4> QED
        BY <3>2, <4>1, <4>2, <4>3, ZenonT(30)
    <3>5. CASE sql[k] = sql[i] /\ ~At(sql, k + 1, sql[i])
      BY <1>4, <2>1, <2>3, <3>1, <3>5 DEF ClosedAt
    <3> QED
      BY <3>3, <3>4, <3>5, ZenonT(30)
  <2> QED
    BY <1>1, <2>2, <2>3
<1> HIDE DEF Agree
<1>6. 0 \in G
  <2> SUFFICES ASSUME NEW k \in i + 1 .. b, k >= b - 0 PROVE Agree(k)
    BY ZenonT(30)
  <2>1. \A j \in k + 1 .. b : Agree(j)
    BY <1>1
  <2> QED
    BY <1>5, <2>1, ZenonT(30)
<1>7. ASSUME NEW n \in 0 .. b - 1, n \in G PROVE n + 1 \in G
  <2> SUFFICES ASSUME NEW k \in i + 1 .. b, k >= b - (n + 1) PROVE Agree(k)
    BY <1>7
  <2>1. \A j \in k + 1 .. b : j >= b - n /\ j \in i + 1 .. b
    BY <1>1
  <2>2. \A j \in k + 1 .. b : Agree(j)
    BY <1>7, <2>1, Zenon
  <2> QED
    BY <1>5, <2>2, ZenonT(30)
<1>8. b \in G
  <2> HIDE DEF G, b
  <2> QED
    BY <1>1, <1>6, <1>7, UpTo, ZenonT(30)
<1>9. Agree(i + 1)
  <2>1. i + 1 \in i + 1 .. b /\ i + 1 >= b - b
    BY <1>1
  <2> QED
    BY <1>8, <2>1, ZenonT(30)
<1>10. Clean(i + 1)
  <2> SUFFICES ASSUME NEW j \in i + 1 .. Len(sql), bare[i + 1] = 0 \/ j <= bare[i + 1]
               PROVE  sql[j] # Backslash
    BY Zenon
  <2> DEFINE e == QuotedRegion(sql, i, FALSE).end
  <2>1. e = IF bare[i + 1] = 0 THEN Len(sql) + 1 ELSE bare[i + 1] + 1
    <3>1. e = Region(sql, bare[i + 1]).end
      BY <1>2, Zenon
    <3> QED
      BY <3>1, Zenon DEF Region
  <2>2. bare[i + 1] = 0 \/ bare[i + 1] \in Nat
    BY <1>9, Zenon DEF Agree
  <2> HIDE DEF e
  <2>3. j \in i + 1 .. e - 1 /\ j <= Len(sql)
    BY <1>1, <2>1, <2>2
  <2> QED
    BY <2>3, Zenon DEF e
<1>11. close[i + 1] = bare[i + 1]
  BY <1>9, <1>10, ZenonT(30) DEF Agree
<1> QED
  BY <1>2, <1>3, <1>11, ZenonT(30)

(* No backslash is in a name, if the scanner lets them escape there. *)
PlainNames(L, sql, mode) ==
    mode.backslash_escapes =>
        \A i \in 1 .. Len(sql) :
            (sql[i] = Backslash /\ L[i].class = "quoted") => L[i].quote \in Escaping(mode)

(* Then a quoted region is for the scanner what it is for MariaDB. *)
LEMMA NamesRead ==
    ASSUME NEW sql, IsText(sql), NEW mode \in SqlModes,
           NEW L, Reads(L, sql, Escaping(mode)), PlainNames(L, sql, mode),
           NEW i \in 1 .. Len(sql), sql[i] \in Quotes, L[i - 1].mode = "code"
    PROVE  LexesAs(L, sql, i, QuotedRegion(sql, i, mode.backslash_escapes))
<1> DEFINE f == mode.backslash_escapes
           X == Escaping(mode)
<1>1. f \in BOOLEAN
  BY Zenon DEF SqlModes
<1>2. CASE f <=> sql[i] \in X
  <2> HIDE DEF f, X
  <2>1. LexesAs(L, sql, i, QuotedRegion(sql, i, f))
    <3>1. Reads(L, sql, X)
      BY Zenon DEF X
    <3> QED
      BY <1>1, <1>2, <3>1, QuotedRead, ZenonT(30)
  <2> QED
    BY <2>1, Zenon DEF f
<1>3. CASE ~(f <=> sql[i] \in X)
  <2>1. f = TRUE /\ sql[i] \notin X
    BY <1>1, <1>3, Zenon DEF Escaping
  <2>2. FALSE \in BOOLEAN /\ (FALSE <=> sql[i] \in X)
    BY <2>1, Zenon
  <2>3. LexesAs(L, sql, i, QuotedRegion(sql, i, FALSE))
    <3> HIDE DEF X, f
    <3>1. Reads(L, sql, X)
      BY Zenon DEF X
    <3> QED
      BY <2>2, <3>1, QuotedRead, Zenon
  <2> DEFINE e == QuotedRegion(sql, i, FALSE).end
  <2>4. e \in i + 1 .. Len(sql) + 1 /\ \A k \in i .. e - 1 : QuotedBy(L[k], sql[i])
    BY <2>3, Zenon DEF LexesAs
  <2> HIDE DEF e
  <2>5. \A j \in i + 1 .. e - 1 : j <= Len(sql) => sql[j] # Backslash
    <3> SUFFICES ASSUME NEW j \in i + 1 .. e - 1, sql[j] = Backslash PROVE FALSE
      BY Zenon
    <3>1. j \in i .. e - 1 /\ j \in 1 .. Len(sql)
      BY <2>4 DEF IsText
    <3>2. L[j].class = "quoted" /\ L[j].quote = sql[i]
      BY <2>4, <3>1, Zenon DEF QuotedBy
    <3>3. L[j].quote \in X
      BY <2>1, <3>1, <3>2, ZenonT(30) DEF PlainNames
    <3> QED
      BY <2>1, <3>2, <3>3, ZenonT(30)
  <2>6. QuotedRegion(sql, i, TRUE) = QuotedRegion(sql, i, FALSE)
    BY <2>5, PlainRegion, ZenonT(30) DEF e
  <2> QED
    BY <2>1, <2>3, <2>6, Zenon
<1> QED
  BY <1>2, <1>3, ZenonT(30)

---------------------------------------------------------------------------
(* extract_source_query: parentheses *)

(* A character in code. *)
CodeChar(L, sql, c, k) == sql[k] = c /\ L[k].class = "code"

(* The occurrences of a character in code before i, and how many they are. *)
Before(L, sql, c, i) == {j \in 1 .. Len(sql) : CodeChar(L, sql, c, j) /\ j < i}

Count(L, sql, c, i) == Cardinality(Before(L, sql, c, i))

LEMMA CountIsNat ==
    ASSUME NEW sql, IsText(sql), NEW L, NEW c, NEW i
    PROVE  IsFiniteSet(Before(L, sql, c, i)) /\ Count(L, sql, c, i) \in Nat
<1>1. IsFiniteSet(1 .. Len(sql))
  BY FS_Interval DEF IsText
<1>2. Before(L, sql, c, i) \in SUBSET (1 .. Len(sql))
  BY Zenon DEF Before
<1>3. IsFiniteSet(Before(L, sql, c, i))
  BY <1>1, <1>2, FS_Subset, ZenonT(30)
<1> QED
  BY <1>3, FS_CardinalityType, ZenonT(30) DEF Count

(* None of them is left out, *)
LEMMA CountSame ==
    ASSUME NEW sql, IsText(sql), NEW L, NEW c, NEW i \in 1 .. Len(sql),
           NEW e \in i + 1 .. Len(sql) + 1, \A k \in i .. e - 1 : ~CodeChar(L, sql, c, k)
    PROVE  Count(L, sql, c, e) = Count(L, sql, c, i)
<1>1. Len(sql) \in Nat
  BY Zenon DEF IsText
<1>2. ASSUME NEW j \in 1 .. Len(sql), CodeChar(L, sql, c, j) PROVE j < e <=> j < i
  BY <1>1, <1>2
<1>3. Before(L, sql, c, e) = Before(L, sql, c, i)
  BY <1>2, ZenonT(30) DEF Before
<1> QED
  BY <1>3, Zenon DEF Count

(* or one is added. *)
LEMMA CountMore ==
    ASSUME NEW sql, IsText(sql), NEW L, NEW c, NEW i \in 1 .. Len(sql), CodeChar(L, sql, c, i)
    PROVE  Count(L, sql, c, i + 1) = Count(L, sql, c, i) + 1
<1>1. Len(sql) \in Nat
  BY Zenon DEF IsText
<1>2. \A j \in 1 .. Len(sql) : j < i + 1 <=> (j < i \/ j = i)
  BY <1>1
<1>3. Before(L, sql, c, i + 1) = Before(L, sql, c, i) \cup {i}
  BY <1>2, Zenon DEF Before
<1>4. i \notin Before(L, sql, c, i)
  BY <1>1 DEF Before
<1>5. IsFiniteSet(Before(L, sql, c, i))
  BY CountIsNat, Zenon
<1>6. Cardinality(Before(L, sql, c, i) \cup {i}) = Cardinality(Before(L, sql, c, i)) + 1
  BY <1>4, <1>5, FS_AddElement, ZenonT(30)
<1> QED
  BY <1>3, <1>6, ZenonT(30) DEF Count

(* The SELECTs and WITHs outside parentheses. *)
Top(L, sql) ==
    {i \in 1 .. Len(sql) : /\ CodeChar(L, sql, Select, i)
                           /\ Count(L, sql, Lparen, i) = Count(L, sql, Rparen, i)}

(* What the loop knows at i: depth parentheses are open in the code before i,
   where the query has not begun. *)
Known(L, sql, i, depth) ==
    /\ Begins(L, sql, i)
    /\ Count(L, sql, Lparen, i) = Count(L, sql, Rparen, i) + depth
    /\ \A j \in Top(L, sql) : ~(j < i)

(* It knows it still after what is not code, *)
LEMMA KnownAfterRegion ==
    ASSUME NEW sql, IsText(sql), NEW L, NEW i \in 1 .. Len(sql), NEW depth \in Nat,
           Known(L, sql, i, depth), NEW e \in i + 1 .. Len(sql) + 1, Begins(L, sql, e),
           \A k \in i .. e - 1 : ~CodeChar(L, sql, Lparen, k),
           \A k \in i .. e - 1 : ~CodeChar(L, sql, Rparen, k),
           \A k \in i .. e - 1 : k \notin Top(L, sql)
    PROVE  Known(L, sql, e, depth)
<1>1. Count(L, sql, Lparen, e) = Count(L, sql, Lparen, i)
  BY CountSame
<1>2. Count(L, sql, Rparen, e) = Count(L, sql, Rparen, i)
  BY CountSame
<1>3. ASSUME NEW j \in Top(L, sql) PROVE ~(j < e)
  <2>1. ~(j < i) /\ j \in 1 .. Len(sql)
    BY Zenon DEF Known, Top
  <2>2. j \notin i .. e - 1
    BY Zenon
  <2> QED
    BY <2>1, <2>2 DEF IsText
<1> QED
  BY <1>1, <1>2, <1>3, ZenonT(30) DEF Known

(* and after a character of code. *)
LEMMA KnownAfterChar ==
    ASSUME NEW sql, IsText(sql), NEW L, NEW i \in 1 .. Len(sql), NEW depth \in Nat,
           Known(L, sql, i, depth), L[i].class = "code", Begins(L, sql, i + 1),
           sql[i] = Rparen => depth # 0, sql[i] = Select => depth # 0
    PROVE  Known(L, sql, i + 1, Depth(sql, i, depth))
<1> DEFINE o == Count(L, sql, Lparen, i)
           c == Count(L, sql, Rparen, i)
<1>1. Len(sql) \in Nat /\ i + 1 \in i + 1 .. Len(sql) + 1 /\ \A k \in i .. (i + 1) - 1 : k = i
  BY DEF IsText
<1>2. o \in Nat /\ c \in Nat /\ o = c + depth
  BY CountIsNat, Zenon DEF Known
<1>3. Lparen # Rparen
  BY TokensAssumption, Zenon
<1>4. Count(L, sql, Lparen, i + 1) = IF sql[i] = Lparen THEN o + 1 ELSE o
  <2>1. CASE sql[i] = Lparen
    BY <2>1, CountMore DEF CodeChar
  <2>2. CASE sql[i] # Lparen
    BY <1>1, <2>2, CountSame, ZenonT(30) DEF CodeChar
  <2> QED
    BY <2>1, <2>2, Zenon
<1>5. Count(L, sql, Rparen, i + 1) = IF sql[i] = Rparen THEN c + 1 ELSE c
  <2>1. CASE sql[i] = Rparen
    BY <2>1, CountMore DEF CodeChar
  <2>2. CASE sql[i] # Rparen
    BY <1>1, <2>2, CountSame, ZenonT(30) DEF CodeChar
  <2> QED
    BY <2>1, <2>2, ZenonT(30)
<1> DEFINE h == Depth(sql, i, depth)
<1>6. Count(L, sql, Lparen, i + 1) = Count(L, sql, Rparen, i + 1) + h
  <2> HIDE DEF o, c
  <2> QED
    BY <1>2, <1>3, <1>4, <1>5 DEF Depth
<1>7. i \notin Top(L, sql)
  <2> HIDE DEF o, c
  <2>1. sql[i] = Select => o # c
    BY <1>2
  <2> QED
    BY <2>1, ZenonT(30) DEF Top, CodeChar, o, c
<1>8. ASSUME NEW j \in Top(L, sql) PROVE ~(j < i + 1)
  <2>1. ~(j < i) /\ j \in 1 .. Len(sql)
    BY ZenonT(30) DEF Known, Top
  <2>2. j # i
    BY <1>7, ZenonT(30)
  <2> QED
    BY <1>1, <2>1, <2>2
<1> QED
  BY <1>6, <1>8, ZenonT(30) DEF Known

(* One step of the loop. *)
LEMMA SourceStep ==
    ASSUME NEW sql, IsText(sql), NEW mode \in SqlModes,
           NEW L, Reads(L, sql, Escaping(mode)), PlainNames(L, sql, mode),
           NEW i \in 1 .. Len(sql), NEW depth \in Nat, Known(L, sql, i, depth),
           NEW f, f = mode.backslash_escapes, ~Halts(sql, f, i, depth),
           NEW e \in i + 1 .. Len(sql) + 1, NEW h \in Nat, Onward(sql, f, i, depth) = <<e, h>>
    PROVE  e = Len(sql) + 1 \/ Known(L, sql, e, h)
<1> DEFINE r == scan_sql_region(sql, i, f)
           X == Escaping(mode)
<1>1. Len(sql) \in Nat /\ i \in Nat /\ f \in BOOLEAN /\ ~(i > Len(sql))
  BY DEF IsText, SqlModes
<1>2. Begins(L, sql, i) /\ L[i - 1].mode = "code" /\ Reads(L, sql, X)
  BY ZenonT(30) DEF Known, Begins
<1> HIDE DEF X
<1>3. /\ {Lparen, Rparen, Select} \cap {Slash, Dash, Newline} = {}
      /\ Space \notin Quotes /\ Newline \notin Quotes /\ Space # Hash /\ Newline # Hash
      /\ Space # Slash /\ Newline # Slash /\ Space # Dash /\ Newline # Dash
      /\ {Space, Newline} \cap {Lparen, Rparen, Select} = {}
  BY CharactersAssumption, TokensAssumption, ZenonT(30) DEF Quotes
<1>4. r.type \in {"NONE", "COMMENT", "QUOTED", "UNTERMINATED"}
  BY <1>1, RegionTypes, Zenon
<1>5. ASSUME sql[i] \notin Quotes, sql[i] # Hash, ~Opens(sql, i),
             sql[i] = Rparen => depth # 0, sql[i] = Select => depth # 0,
             Blank(sql, i) \/ r.type = "NONE"
      PROVE  Known(L, sql, e, h)
  <2>1. L[i].class = "code" /\ Begins(L, sql, i + 1)
    BY <1>2, <1>5, PlainClass, ZenonT(60)
  <2>2. Known(L, sql, i + 1, Depth(sql, i, depth))
    BY <1>5, <2>1, KnownAfterChar, ZenonT(60)
  <2>3. <<e, h>> = <<i + 1, Depth(sql, i, depth)>>
    BY <1>5, ZenonT(30) DEF Onward
  <2>4. e = i + 1 /\ h = Depth(sql, i, depth)
    BY <2>3, Zenon
  <2> QED
    BY <2>2, <2>4, ZenonT(60)
<1>6. CASE Blank(sql, i)
  <2>1. sql[i] \notin Quotes /\ sql[i] # Hash /\ sql[i] # Rparen /\ sql[i] # Select
        /\ sql[i] # Slash /\ sql[i] # Dash
    BY <1>3, <1>6, ZenonT(60) DEF Blank
  <2>2. ~Opens(sql, i)
    BY <2>1, Zenon DEF Opens, At
  <2> QED
    BY <1>5, <1>6, <2>1, <2>2, ZenonT(30)
<1>7. CASE ~Blank(sql, i) /\ r.type = "NONE"
  <2>1. sql[i] \notin Quotes
    <3>1. sql[i] \in Quotes => r.type \in {"QUOTED", "UNTERMINATED"}
      BY <1>1, ScanQuote, ZenonT(30)
    <3> QED
      BY <1>7, <3>1, Zenon
  <2>2. sql[i] # Hash /\ ~Opens(sql, i)
    BY <1>7, <2>1, NoComment, ZenonT(30)
  <2>3. (sql[i] = Rparen => depth # 0) /\ (sql[i] = Select => depth # 0)
    BY <1>7, ZenonT(30) DEF Halts
  <2> QED
    BY <1>5, <1>7, <2>1, <2>2, <2>3, Zenon
<1>8. CASE ~Blank(sql, i) /\ r.type # "NONE"
  <2>1. <<e, h>> = <<r.end, depth>>
    BY <1>8, ZenonT(30) DEF Onward
  <2>2. e = r.end /\ h = depth
    BY <2>1, Zenon
  <2>3. r.type \in {"COMMENT", "QUOTED"}
    BY <1>4, <1>8, ZenonT(30) DEF Halts
  <2>4. \/ e = Len(sql) + 1
        \/ /\ Begins(L, sql, e)
           /\ \A k \in i .. e - 1 : L[k].class = "code" => sql[k] \in {Slash, Dash, Newline}
    <3>1. CASE sql[i] \in Quotes
      <4>1. r = QuotedRegion(sql, i, f) /\ r.type \in {"QUOTED", "UNTERMINATED"}
        BY <1>1, <3>1, ScanQuote, ZenonT(30)
      <4>2. LexesAs(L, sql, i, QuotedRegion(sql, i, mode.backslash_escapes))
        BY <1>2, <3>1, NamesRead, ZenonT(60)
      <4>3. LexesAs(L, sql, i, r)
        BY <4>1, <4>2, ZenonT(30)
      <4>4. r.type = "QUOTED"
        BY <2>3, <4>1, ZenonT(30)
      <4> HIDE DEF r
      <4>5. Begins(L, sql, r.end) /\ \A k \in i .. r.end - 1 : L[k].class # "code"
        BY <1>2, <4>3, <4>4, QuotedPassed, ZenonT(60)
      <4> QED
        BY <2>2, <4>5, ZenonT(30)
    <3>2. CASE sql[i] \notin Quotes
      <4>1. r.type # "QUOTED"
        <5>1. ~(sql[i] \in Quotes)
          BY <3>2, ZenonT(30)
        <5>2. /\ BlockComment(sql, i).type # "QUOTED" /\ LineComment(sql, i).type # "QUOTED"
          BY Zenon DEF BlockComment, LineComment
        <5>3. r \in {BlockComment(sql, i), LineComment(sql, i)} \/ r.type = "NONE"
          BY <5>1, ZenonT(30) DEF scan_sql_region
        <5> QED
          BY <1>8, <5>2, <5>3, ZenonT(30)
      <4>2. r.type = "COMMENT"
        BY <2>3, <4>1, ZenonT(30)
      <4>3. Passes(L, sql, i, r.end) /\ Skips(L, sql, i, r.end)
        BY <1>2, <3>2, <4>2, CommentRead, ZenonT(30)
      <4> HIDE DEF r
      <4>4. Begins(L, sql, e) \/ e = Len(sql) + 1
        BY <2>2, <4>3, ZenonT(30) DEF Passes
      <4>5. e \in 1 .. Len(sql) + 1 /\ Skips(L, sql, i, e)
        BY <1>1, <2>2, <4>3
      <4>6. \A k \in i .. e - 1 : L[k].class = "code" => sql[k] \in {Slash, Dash, Newline}
        BY <1>2, <4>5, SkipsCode, ZenonT(60)
      <4> QED
        BY <4>4, <4>6, ZenonT(30)
    <3> QED
      BY <3>1, <3>2, ZenonT(30)
  <2> SUFFICES ASSUME Begins(L, sql, e),
                      \A k \in i .. e - 1 : L[k].class = "code" => sql[k] \in {Slash, Dash, Newline}
               PROVE  Known(L, sql, e, depth)
    BY <2>2, <2>4, ZenonT(60)
  <2>5. ASSUME NEW k \in i .. e - 1, NEW c \in {Lparen, Rparen, Select}
        PROVE  ~CodeChar(L, sql, c, k)
    BY <1>3, ZenonT(60) DEF CodeChar
  <2>6. /\ \A k \in i .. e - 1 : ~CodeChar(L, sql, Lparen, k)
        /\ \A k \in i .. e - 1 : ~CodeChar(L, sql, Rparen, k)
        /\ \A k \in i .. e - 1 : k \notin Top(L, sql)
    BY <2>5, ZenonT(30) DEF Top
  <2> QED
    BY <2>6, KnownAfterRegion, ZenonT(30)
<1> QED
  BY <1>6, <1>7, <1>8, ZenonT(30)

(* A query found at r is the first one outside parentheses. *)
First(L, sql, r) == r # 0 => r \in Top(L, sql) /\ \A j \in Top(L, sql) : r <= j

LEMMA SourceReads ==
    ASSUME NEW sql, IsText(sql), NEW mode \in SqlModes,
           NEW L, Reads(L, sql, Escaping(mode)), L[0] = LexerStart, PlainNames(L, sql, mode)
    PROVE  First(L, sql, extract_source_query(sql, TRUE, mode))
<1> DEFINE b == Len(sql) + 1
           f == mode.backslash_escapes
<1>1. Len(sql) \in Nat /\ b \in Nat /\ f \in BOOLEAN
  BY DEF IsText, SqlModes
<1>2. PICK scan :
         /\ extract_source_query(sql, TRUE, mode) =
               IF mariadb_query_has_unsafe_quote_escape(sql, mode) THEN 0 ELSE scan[<<1, 0>>]
         /\ ScanOf(scan, sql, f)
  BY ScanExists, ZenonT(60)
<1> HIDE DEF f
<1> DEFINE Good(i) == \A depth \in Nat :
                        (i = b \/ Known(L, sql, i, depth)) => First(L, sql, scan[<<i, depth>>])
           G == {n \in Nat : \A i \in 1 .. b : i >= b - n => Good(i)}
<1>3. ASSUME NEW i \in 1 .. b, \A j \in i + 1 .. b : Good(j) PROVE Good(i)
  <2> SUFFICES ASSUME NEW depth \in Nat, i = b \/ Known(L, sql, i, depth)
               PROVE  First(L, sql, scan[<<i, depth>>])
    BY Zenon
  <2>1. scan[<<i, depth>>] = IF Halts(sql, f, i, depth) THEN Answer(sql, f, i)
                             ELSE scan[Onward(sql, f, i, depth)]
    BY <1>2, ZenonT(30) DEF ScanOf
  <2>2. CASE i = b
    <3>1. Halts(sql, f, i, depth) /\ Answer(sql, f, i) = 0
      BY <1>1, <2>2 DEF Halts, Answer
    <3> QED
      BY <2>1, <3>1, ZenonT(30) DEF First
  <2>3. CASE i # b /\ Halts(sql, f, i, depth)
    <3>1. i \in 1 .. Len(sql) /\ ~(i > Len(sql))
      BY <1>1, <2>3
    <3>2. scan[<<i, depth>>] = Answer(sql, f, i)
      BY <2>1, <2>3, Zenon
    <3>3. CASE Answer(sql, f, i) = 0
      BY <3>2, <3>3, ZenonT(30) DEF First
    <3>4. CASE Answer(sql, f, i) # 0
      <4>1. Answer(sql, f, i) = i /\ sql[i] = Select /\ scan_sql_region(sql, i, f).type = "NONE"
        BY <3>4, ZenonT(30) DEF Answer
      <4>2. depth = 0
        BY <2>3, <3>1, <4>1, ZenonT(60) DEF Halts
      <4>3. sql[i] \notin Quotes
        BY <4>1, TokensAssumption, ZenonT(60) DEF Quotes
      <4>4. sql[i] # Hash /\ ~Opens(sql, i)
        BY <3>1, <4>1, <4>3, NoComment, ZenonT(30)
      <4>5. Known(L, sql, i, depth)
        BY <2>3, Zenon
      <4>6. L[i].class = "code"
        BY <3>1, <4>3, <4>4, <4>5, PlainClass, ZenonT(60) DEF Known
      <4>7. Count(L, sql, Lparen, i) = Count(L, sql, Rparen, i)
        <5>1. Count(L, sql, Lparen, i) \in Nat /\ Count(L, sql, Rparen, i) \in Nat
          BY CountIsNat, Zenon
        <5> QED
          BY <4>2, <4>5, <5>1 DEF Known
      <4>8. i \in Top(L, sql)
        BY <3>1, <4>1, <4>6, <4>7, ZenonT(30) DEF Top, CodeChar
      <4>9. ASSUME NEW j \in Top(L, sql) PROVE i <= j
        <5>1. ~(j < i) /\ j \in 1 .. Len(sql)
          BY <4>5, ZenonT(30) DEF Known, Top
        <5> QED
          BY <1>1, <3>1, <5>1
      <4> QED
        BY <3>2, <4>1, <4>8, <4>9, ZenonT(30) DEF First
    <3> QED
      BY <3>3, <3>4, Zenon
  <2>4. CASE i # b /\ ~Halts(sql, f, i, depth)
    <3>1. i \in 1 .. Len(sql) + 1
      BY Zenon
    <3>2. i \in 1 .. Len(sql) /\ \E e \in i + 1 .. Len(sql) + 1, h \in Nat :
                                    Onward(sql, f, i, depth) = <<e, h>>
      BY <1>1, <2>4, <3>1, OnwardMoves
    <3>3. PICK e \in i + 1 .. Len(sql) + 1, h \in Nat : Onward(sql, f, i, depth) = <<e, h>>
      BY <3>2, Zenon
    <3>4. Known(L, sql, i, depth)
      BY <2>4, Zenon
    <3>5. f = mode.backslash_escapes
      BY Zenon DEF f
    <3>6. e = Len(sql) + 1 \/ Known(L, sql, e, h)
      BY <2>4, <3>2, <3>3, <3>4, <3>5, SourceStep, ZenonT(30)
    <3>7. First(L, sql, scan[<<e, h>>])
      BY <1>3, <3>3, <3>6, ZenonT(60)
    <3> QED
      BY <2>1, <2>4, <3>3, <3>7, ZenonT(30)
  <2> QED
    BY <2>2, <2>3, <2>4, Zenon
<1> HIDE DEF Good
<1>4. 0 \in G
  <2> SUFFICES ASSUME NEW i \in 1 .. b, i >= b - 0 PROVE Good(i)
    BY Zenon
  <2>1. \A j \in i + 1 .. b : Good(j)
    BY <1>1
  <2> QED
    BY <1>3, <2>1, Zenon
<1>5. ASSUME NEW n \in 0 .. b - 1, n \in G PROVE n + 1 \in G
  <2> SUFFICES ASSUME NEW i \in 1 .. b, i >= b - (n + 1) PROVE Good(i)
    BY <1>5
  <2>1. \A j \in i + 1 .. b : j >= b - n /\ j \in 1 .. b
    BY <1>1
  <2>2. \A j \in i + 1 .. b : Good(j)
    BY <1>5, <2>1, ZenonT(30)
  <2> QED
    BY <1>3, <2>2, ZenonT(30)
<1>6. b \in G
  <2> HIDE DEF G, b
  <2> QED
    BY <1>1, <1>4, <1>5, UpTo, ZenonT(30)
<1>7. Good(1)
  <2>1. 1 \in 1 .. b /\ 1 >= b - b
    BY <1>1
  <2> QED
    BY <1>6, <2>1, ZenonT(30)
<1>8. Known(L, sql, 1, 0)
  <2>1. Begins(L, sql, 1)
    BY CodeAtStart, ZenonT(30)
  <2>2. \A c : Before(L, sql, c, 1) = {}
    BY <1>1 DEF Before
  <2>3. Count(L, sql, Lparen, 1) = 0 /\ Count(L, sql, Rparen, 1) = 0
    BY <2>2, FS_EmptySet, ZenonT(30) DEF Count
  <2>4. \A j \in Top(L, sql) : ~(j < 1)
    BY <1>1 DEF Top
  <2> QED
    BY <2>1, <2>3, <2>4 DEF Known
<1>9. First(L, sql, scan[<<1, 0>>])
  BY <1>7, <1>8, ZenonT(30) DEF Good
<1> QED
  BY <1>2, <1>9, ZenonT(30) DEF First

(* extract_source_query: for every INSERT ... SELECT, of any length and over
   any alphabet and in every sql_mode, that has no backslash in a name, the
   text forwarded to DuckDB starts at the first SELECT or WITH that MariaDB
   reads as code outside parentheses. *)
THEOREM SourceQueryAlwaysTopLevel == TextSpec => []SourceQueryIsTopLevel
<1> DEFINE TextInv == text \in Seq(UNION Alphabets)
<1>1. TextInit => TextInv
  BY DEF TextInit
<1>2. TextInv /\ [GrowText]_text => TextInv'
  BY DEF GrowText
<1>3. TextInv => SourceQueryIsTopLevel
  <2> SUFFICES ASSUME TextInv, NEW mode \in SqlModes,
                      PlainNames(Lexers(text, Escaping(mode)), text, mode),
                      extract_source_query(text, TRUE, mode) # 0
               PROVE  LET code(c) == InCode(text, Escaping(mode), c)
                          opened(i) == Cardinality({j \in code(Lparen) : j < i})
                          closed(i) == Cardinality({j \in code(Rparen) : j < i})
                          top == {i \in code(Select) : opened(i) = closed(i)}
                      IN extract_source_query(text, TRUE, mode) = LeastOr(top, 0)
    <3>1. TextInv => DOMAIN text = 1 .. Len(text)
      OBVIOUS
    <3> QED
      BY <3>1, ZenonT(30) DEF SourceQueryIsTopLevel, PlainNames
  <2> DEFINE L == Lexers(text, Escaping(mode))
             r == extract_source_query(text, TRUE, mode)
             code(c) == InCode(text, Escaping(mode), c)
             count(c, i) == Cardinality({j \in code(c) : j < i})
             top == {i \in code(Select) : count(Lparen, i) = count(Rparen, i)}
  <2>1. IsText(text)
    BY DEF IsText
  <2>2. Reads(L, text, Escaping(mode)) /\ L[0] = LexerStart
    BY <2>1, LexersAre, ZenonT(30)
  <2>3. First(L, text, r)
    BY <2>1, <2>2, SourceReads, ZenonT(60)
  <2>4. ASSUME NEW c PROVE code(c) = {j \in 1 .. Len(text) : CodeChar(L, text, c, j)}
    BY <2>1, Zenon DEF InCode, CodeChar, IsText
  <2> HIDE DEF L, code
  <2>5. ASSUME NEW c, NEW i PROVE {j \in code(c) : j < i} = Before(L, text, c, i)
    BY <2>4, Zenon DEF Before
  <2>6. \A i : count(Lparen, i) = Count(L, text, Lparen, i)
               /\ count(Rparen, i) = Count(L, text, Rparen, i)
    BY <2>5, Zenon DEF Count
  <2> HIDE DEF count
  <2>7. top = Top(L, text)
    BY <2>4, <2>6, ZenonT(30) DEF Top
  <2>8. top \subseteq Nat
    BY <2>7 DEF Top
  <2> HIDE DEF top, r
  <2>9. r \in top /\ \A j \in top : r <= j
    BY <2>3, <2>7, ZenonT(30) DEF First, r
  <2>10. LeastOr(top, 0) \in top /\ \A j \in top : LeastOr(top, 0) <= j
    BY <2>8, <2>9, LeastOrFacts, ZenonT(30)
  <2>11. r = LeastOr(top, 0)
    <3> DEFINE m == LeastOr(top, 0)
    <3>1. r \in Nat /\ m \in Nat /\ r <= m /\ m <= r
      BY <2>8, <2>9, <2>10, ZenonT(30)
    <3> HIDE DEF m
    <3>2. r = m
      BY ONLY <3>1, SMTT(30), Zenon
    <3> QED
      BY <3>2, ZenonT(30) DEF m
  <2> QED
    BY <2>11, Zenon DEF r, top, count, code
<1> QED
  BY <1>1, <1>2, <1>3, PTL DEF TextSpec

=============================================================================

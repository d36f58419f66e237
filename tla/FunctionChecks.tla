--------------------------- MODULE FunctionChecks ---------------------------
(***************************************************************************)
(* The compatibility functions of MysqlCompat against reference            *)
(* definitions, together with the checks of the calendar and of the SQL    *)
(* text.  The inputs grow step by step: a calendar that advances by a day, *)
(* a text that grows by one character, a number that is incremented.       *)
(***************************************************************************)
EXTENDS MysqlCompat, CalendarChecks, TextChecks

ASSUME InputAssumption == MaxDays \in Nat /\ MaxText \in Nat

VARIABLE number

vars == <<day, walked, text, number>>

(* The calendar at whose start texts and numbers are enumerated. *)
Origin == CHOOSE start \in Starts : TRUE

Init == CalendarInit /\ TextInit /\ number = 0

NextNumber ==
    /\ number < 2 ^ WordBits - 1
    /\ number' = number + 1

Next ==
    \/ text = <<>> /\ number = 0 /\ NextDay /\ UNCHANGED <<text, number>>
    \/ day = Origin /\ number = 0 /\ GrowText /\ UNCHANGED <<day, walked, number>>
    \/ day = Origin /\ text = <<>> /\ NextNumber /\ UNCHANGED <<day, walked, text>>

Spec == Init /\ [][Next]_vars

(* The states that enumerate numbers. *)
AtNumber == text = <<>> /\ walked = 0

---------------------------------------------------------------------------
(* References *)

Patterns ==
    {<<>>, <<Word>>, <<Word, Word>>, <<Word, Star>>}

Repeat(pat, k) == Seqs!FlattenSeq([i \in 1 .. k |-> pat])

Value(digits, base) == Seqs!FoldLeft(LAMBDA n, d : n * base + d, 0, digits)

TwoDigits(n) == <<(n \div 10) % 10, n % 10>>

(* A JSON string: quotes, backslashes and control characters are escaped. *)
JsonQuote(s) ==
    LET controls == {Control[c] : c \in DOMAIN Control}
        letter(x) == CHOOSE c \in DOMAIN Control : Control[c] = x
        quoted(x) == IF x \in {Dquote, Backslash} THEN <<Backslash, x>>
                     ELSE IF x \in controls THEN <<Backslash, letter(x)>> ELSE <<x>>
    IN <<Dquote>> \o Seqs!FlattenSeq([i \in DOMAIN s |-> quoted(s[i])]) \o <<Dquote>>

---------------------------------------------------------------------------
(* Properties *)

(* TRIM(LEADING/TRAILING pat FROM s): whole copies of the pattern are removed
   and none is left at that end; the empty pattern removes nothing. *)
Trims ==
    \A pat \in Patterns :
        LET r == rtrim_substr_func(text, pat)
            l == ltrim_substr_func(text, pat)
        IN IF pat = <<>> THEN r = text /\ l = text
           ELSE /\ \E k \in 0 .. Len(text) : text = r \o Repeat(pat, k)
                /\ \E k \in 0 .. Len(text) : text = Repeat(pat, k) \o l
                /\ ~Seqs!IsSuffix(pat, r) /\ ~Seqs!IsPrefix(pat, l)

(* LOCATE: the result is the first byte position, counted from 1 and not
   before the given one, at which the needle is in the string, or 0.  The
   empty needle is also found where it cannot be, past the end of the string
   (MariaDB says 0 there). *)
Locates ==
    \A needle \in Patterns, pos \in 0 .. MaxText + 2 :
        LET last == Len(text) - Len(needle) + 1
            found == {p \in pos .. last :
                        pos > 0 /\ SubSeq(text, p, p + Len(needle) - 1) = needle}
            past == needle = <<>> /\ pos > last
        IN /\ locate_3arg_func(needle, text, pos) = IF past THEN pos ELSE LeastOr(found, 0)
           /\ pos = 1 => locate_2arg_func(needle, text) = LeastOr(found, 0)

(* The string functions, on every text: LTRIM and RTRIM with a pattern (Trims),
   LOCATE by bytes (Locates), and JSON_UNQUOTE, which gives back the string
   that was quoted, its quotes, backslashes and control characters included. *)
StringFunctionsAgree ==
    /\ Trims
    /\ Locates
    /\ json_unquote(JsonQuote(text)) = text

(* HEX, OCT and BIN of a word and HEX and BIN of a double word: the digits
   have the value of the number, and the first one is not 0 unless it is 0. *)
DigitsAreValue ==
    AtNumber =>
    LET faithful(digits, base, n) ==
            /\ Value(digits, base) = n
            /\ Len(digits) > 1 => digits[1] # 0
    IN /\ faithful(HexIntegralOperator(number), 16, number)
       /\ faithful(OctIntegralOperator(number), 8, number)
       /\ faithful(BinaryIntegralOperator(number), 2, number)
       /\ \A upper \in {0, number}, lower \in {0, number, 2 ^ WordBits - 1} :
            LET n == upper * 2 ^ WordBits + lower
            IN /\ faithful(HexHugeIntOperator(upper, lower), 16, n)
               /\ faithful(BinaryHugeIntOperator(upper, lower), 2, n)

(* An interval 'D H:M:S.f' has the length it spells, whatever the number of
   digits of its fraction and with or without sign and days. *)
Intervals ==
    LET d == number % 4
        h == number % 24
        m == number % 60
        s == (7 * number) % 60
        fraction == TwoDigits(number % 100) \o <<5>>
    IN \A negative, withDays \in BOOLEAN, k \in 0 .. 3 :
        LET clock == TwoDigits(h) \o <<Colon>> \o TwoDigits(m) \o <<Colon>> \o TwoDigits(s)
            spelt == (IF negative THEN <<Dash>> ELSE <<>>)
                       \o (IF withDays THEN <<d, Space>> ELSE <<>>)
                       \o clock
                       \o (IF k = 0 THEN <<>> ELSE <<Dot>> \o SubSeq(fraction, 1, k))
            seconds == (IF withDays THEN d * 86400 ELSE 0) + h * 3600 + m * 60 + s
            units == seconds * 100
                       + (IF k >= 1 THEN 10 * fraction[1] ELSE 0)
                       + (IF k >= 2 THEN fraction[2] ELSE 0)
        IN FracDigits = 2 =>
             parse_mariadb_interval_us(spelt) = IF negative THEN -units ELSE units

(* ADDTIME and SUBTIME on TIME values: the interval has the length it spells
   (Intervals), the result is a time of day, the clock wraps at midnight in
   both directions and SUBTIME undoes ADDTIME. *)
TimesWrap ==
    AtNumber =>
    /\ Intervals
    /\ \A t \in 0 .. DayUs - 1, us \in {number, -number} : ClockWraps(t, us)

=============================================================================

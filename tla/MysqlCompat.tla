---------------------------- MODULE MysqlCompat ----------------------------
(***************************************************************************)
(* The scalar functions the engine registers in DuckDB so that a pushed    *)
(* down query computes what MariaDB would: those of MysqlCalendar, TRIM    *)
(* and LOCATE on substrings, HEX, OCT and BIN, JSON_UNQUOTE and the        *)
(* parsing of intervals.  A string is a sequence of bytes, as the code     *)
(* reads it, a string of digits a sequence of numbers.                     *)
(***************************************************************************)
EXTENDS MysqlCalendar, Sequences, FiniteSets, Characters

CONSTANTS
    WordBits,    \* bits of a machine word (64 in the code)
    FracDigits,  \* digits of a fraction of a second (6 in the code)
    Control      \* the control character each of the letters b f n r t escapes

ASSUME WordAssumption == WordBits \in Nat \ {0} /\ WordBits % 4 = 0
ASSUME FractionAssumption == FracDigits \in Nat \ {0}
ASSUME ControlAssumption == DOMAIN Control \cap {Dquote, Backslash, Slash} = {}

Seqs == INSTANCE SequencesExt

---------------------------------------------------------------------------
(* Strings *)

(* Mutant: the single-character branch for every pattern, DuckDB's meaning. *)
rtrim_substr_funcChars(s, pat) ==
    IF pat = <<>> THEN s
    ELSE LET kept == {i \in 1 .. Len(s) : s[i] \notin Seqs!ToSet(pat)}
         IN SubSeq(s, 1, IF kept = {} THEN 0 ELSE CHOOSE i \in kept : \A j \in kept : j <= i)

(* The pattern is removed from the end as often as it is there. *)
rtrim_substr_func(s, pat) ==
    LET length[n \in 0 .. Len(s)] ==
            IF n >= Len(pat) /\ SubSeq(s, n - Len(pat) + 1, n) = pat
            THEN length[n - Len(pat)] ELSE n
    IN IF pat = <<>> \/ Len(pat) > Len(s) THEN s ELSE SubSeq(s, 1, length[Len(s)])

ltrim_substr_func(s, pat) ==
    LET start[n \in 0 .. Len(s)] ==
            IF n + Len(pat) <= Len(s) /\ SubSeq(s, n + 1, n + Len(pat)) = pat
            THEN start[n + Len(pat)] ELSE n
    IN IF pat = <<>> \/ Len(pat) > Len(s) THEN s ELSE SubSeq(s, start[0] + 1, Len(s))

(* The least position from i on at which the needle is found, or 0. *)
FirstMatch(needle, haystack, i) ==
    LET last == Len(haystack) - Len(needle) + 1
        from[p \in i .. (last + 1)] ==
            IF p > last THEN 0
            ELSE IF SubSeq(haystack, p, p + Len(needle) - 1) = needle THEN p
            ELSE from[p + 1]
    IN IF i > last THEN 0 ELSE from[i]

locate_2arg_func(needle, haystack) ==
    IF needle = <<>> THEN 1
    ELSE IF Len(needle) > Len(haystack) THEN 0
    ELSE FirstMatch(needle, haystack, 1)

locate_3arg_func(needle, haystack, pos) ==
    IF pos < 1 THEN 0
    ELSE IF needle = <<>> THEN pos
    ELSE IF pos > Len(haystack) \/ Len(needle) > Len(haystack) - (pos - 1) THEN 0
    ELSE FirstMatch(needle, haystack, pos)

(* What a backslash and a character stand for; no escape is left as it is. *)
Unescaped(c) ==
    IF c \in {Dquote, Backslash, Slash} THEN <<c>>
    ELSE IF c \in DOMAIN Control THEN <<Control[c]>>
    ELSE <<Backslash, c>>

(* Quotes are stripped and escapes replaced; a backslash before the closing
   quote escapes nothing. *)
json_unquote(s) ==
    LET rest[i \in 2 .. (Len(s) + 1)] ==
            IF i >= Len(s) THEN <<>>
            ELSE IF s[i] = Backslash /\ i + 1 < Len(s) THEN Unescaped(s[i + 1]) \o rest[i + 2]
            ELSE <<s[i]>> \o rest[i + 1]
    IN IF Len(s) < 2 \/ s[1] # Dquote \/ s[Len(s)] # Dquote THEN s ELSE rest[2]

---------------------------------------------------------------------------
(* HEX, OCT and BIN: digits are numbers, the most significant first *)

(* CountZeros<T>::Leading for a type of the given width (external). *)
LeadingZeros(x, width) == width - Cardinality({i \in 0 .. (width - 1) : x >= 2 ^ i})

(* Groups of k bits of x, buffer_size of them. *)
WriteBytes(x, buffer_size, k) ==
    [i \in 1 .. buffer_size |-> (x \div (2 ^ (k * (buffer_size - i)))) % (2 ^ k)]

Zero == <<0>>

(* The buffer holds the significant bits, rounded up to whole digits. *)
IntegralOperator(x, k) ==
    LET bits == WordBits - LeadingZeros(x, WordBits)
        buffer_size == (bits + k - 1) \div k
    IN IF buffer_size = 0 THEN Zero ELSE WriteBytes(x, buffer_size, k)

HexIntegralOperator(x) == IntegralOperator(x, 4)

OctIntegralOperator(x) == IntegralOperator(x, 3)

BinaryIntegralOperator(x) == IntegralOperator(x, 1)

(* Two words: digits above the lower word come from the upper one. *)
WriteHugeIntBytes(upper, lower, buffer_size, k) ==
    [i \in 1 .. buffer_size |->
        LET offset == k * (buffer_size - i)
        IN IF offset >= WordBits
           THEN (upper \div (2 ^ (offset - WordBits))) % (2 ^ k)
           ELSE (lower \div (2 ^ offset)) % (2 ^ k)]

(* Mutant: the leading digit that is only partly zero is dropped. *)
HexHugeIntOperatorShort(upper, lower) ==
    LET zeros == LeadingZeros(upper * 2 ^ WordBits + lower, 2 * WordBits)
        buffer_size == WordBits \div 2 - (zeros + 3) \div 4
    IN IF buffer_size <= 0 THEN Zero ELSE WriteHugeIntBytes(upper, lower, buffer_size, 4)

HexHugeIntOperator(upper, lower) ==
    LET zeros == LeadingZeros(upper * 2 ^ WordBits + lower, 2 * WordBits)
        buffer_size == WordBits \div 2 - zeros \div 4
    IN IF buffer_size = 0 THEN Zero ELSE WriteHugeIntBytes(upper, lower, buffer_size, 4)

BinaryHugeIntOperator(upper, lower) ==
    LET zeros == LeadingZeros(upper * 2 ^ WordBits + lower, 2 * WordBits)
        buffer_size == 2 * WordBits - zeros
    IN IF buffer_size = 0 THEN Zero ELSE WriteHugeIntBytes(upper, lower, buffer_size, 1)

---------------------------------------------------------------------------
(* Intervals *)

Atoi(digits) == Seqs!FoldLeft(LAMBDA n, d : n * 10 + d, 0, digits)

(* The fraction is padded with zeros, and cut, to FracDigits digits. *)
ParseFraction(digits) ==
    Atoi([i \in 1 .. FracDigits |-> IF i <= Len(digits) THEN digits[i] ELSE 0])

(* 'D H:M:S.us': a minus sign, the days up to a blank, at most three numbers
   that colons separate, and the fraction after the first dot or the third
   separator.  Missing numbers are 0. *)
parse_mariadb_interval_us(s) ==
    LET neg == s # <<>> /\ s[1] = Dash
        body == IF neg THEN Tail(s) ELSE s
        space == Seqs!SelectInSeq(body, LAMBDA c : c = Space)
        days == Atoi(SubSeq(body, 1, space - 1))
        time == SubSeq(body, space + 1, Len(body))
        separators == {i \in DOMAIN time : time[i] \in {Colon, Dot}}
        cuts == {i \in separators : \/ time[i] = Dot
                                    \/ Cardinality({j \in separators : j <= i}) = 3}
        cut == IF cuts = {} THEN Len(time) + 1
               ELSE CHOOSE i \in cuts : \A j \in cuts : i <= j
        bounds == Seqs!SetToSortSeq({0, cut} \cup {i \in separators : i < cut}, <)
        part(k) == IF k < Len(bounds)
                   THEN Atoi(SubSeq(time, bounds[k] + 1, bounds[k + 1] - 1)) ELSE 0
        total == (days * 86400 + part(1) * 3600 + part(2) * 60 + part(3))
                    * 10 ^ FracDigits
                 + ParseFraction(SubSeq(time, cut + 1, Len(time)))
    IN IF neg THEN -total ELSE total

=============================================================================

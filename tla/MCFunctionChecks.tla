------------------------- MODULE MCFunctionChecks -------------------------
(***************************************************************************)
(* Calendars of thirty years around 1900, which is no leap year and has    *)
(* every pair of a first weekday and a length of the year, and around      *)
(* 2000, which is one; texts over eleven alphabets, five of them for the   *)
(* escapes of JSON.                                                        *)
(***************************************************************************)
EXTENDS FunctionChecks

CONSTANTS LetterB, LetterF, LetterN, LetterR, LetterT, Backspace, FormFeed, Return, Tab

MCControl ==
    [c \in {LetterB, LetterF, LetterN, LetterR, LetterT} |->
        CASE c = LetterB -> Backspace
          [] c = LetterF -> FormFeed
          [] c = LetterN -> Newline
          [] c = LetterR -> Return
          [] c = LetterT -> Tab]

MCStarts ==
    {[y |-> 1890, m |-> 1, d |-> 1, doy |-> 1, epoch |-> -29219, iso |-> 3],
     [y |-> 1996, m |-> 1, d |-> 1, doy |-> 1, epoch |-> 9496, iso |-> 1]}

MCAlphabets ==
    {{Squote, Dquote, Btick, Backslash, Word},
     {Squote, Btick, Hash, Newline, Word},
     {Squote, Dash, Space, Newline, Word},
     {Slash, Star, Btick, Word},
     {Squote, Lparen, Rparen, Select},
     {Squote, Btick, Backslash, Select}}
      \cup {{Dquote, Backslash, c, Control[c]} : c \in DOMAIN Control}

=============================================================================

---------------------------- MODULE Characters ----------------------------
(***************************************************************************)
(* The characters the engine's text functions tell apart.  Word stands for *)
(* every other word or character, Select for the words SELECT and WITH.    *)
(***************************************************************************)
CONSTANTS
    Squote, Dquote, Btick, Backslash,
    Dash, Slash, Star, Hash, Newline, Space,
    Lparen, Rparen, Colon, Dot, Select, Word

(* Those that delimit strings, names and comments are different. *)
ASSUME CharactersAssumption ==
    /\ Squote \notin {Dquote, Btick, Backslash, Dash, Slash, Star, Hash, Newline, Space, Word}
    /\ Dquote \notin {Btick, Backslash, Dash, Slash, Star, Hash, Newline, Space, Word}
    /\ Btick \notin {Backslash, Dash, Slash, Star, Hash, Newline, Space, Word}
    /\ Backslash \notin {Dash, Slash, Star, Hash, Newline, Space, Word}
    /\ Dash \notin {Slash, Star, Hash, Newline, Space, Word}
    /\ Slash \notin {Star, Hash, Newline, Space, Word}
    /\ Star \notin {Hash, Newline, Space, Word}
    /\ Hash \notin {Newline, Space, Word}
    /\ Newline \notin {Space, Word}
    /\ Space # Word

(* So are the parentheses and the words that begin a query. *)
ASSUME TokensAssumption ==
    /\ Lparen \notin {Rparen, Select} /\ Rparen # Select
    /\ {Lparen, Rparen, Select} \cap {Squote, Dquote, Btick, Backslash, Dash, Slash,
                                     Star, Hash, Newline, Space} = {}

=============================================================================

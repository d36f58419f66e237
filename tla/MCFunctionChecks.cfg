\* Inputs are enumerated up to their bounds, where the enumeration stops.
SPECIFICATION Spec
CHECK_DEADLOCK FALSE
CONSTANTS
    Squote = Squote
    Dquote = Dquote
    Btick = Btick
    Backslash = Backslash
    Dash = Dash
    Slash = Slash
    Star = Star
    Hash = Hash
    Newline = Newline
    Space = Space
    Lparen = Lparen
    Rparen = Rparen
    Colon = Colon
    Dot = Dot
    Select = Select
    Word = Word
    WordBits = 8
    FracDigits = 2
    LetterB = LetterB
    LetterF = LetterF
    LetterN = LetterN
    LetterR = LetterR
    LetterT = LetterT
    Backspace = Backspace
    FormFeed = FormFeed
    Return = Return
    Tab = Tab
    Control <- MCControl
    DayUs = 24
    Starts <- MCStarts
    MaxDays = 10957
    Alphabets <- MCAlphabets
    MaxText = 6
INVARIANTS
    WeeksAreCounted
    StringFunctionsAgree
    DigitsAreValue
    TimesWrap
    QuotesReadAlike
    IdentifiersKeepNames
    KeywordsAreFoundInCode
    SourceQueryIsTopLevel

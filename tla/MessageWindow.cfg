SPECIFICATION Spec
CONSTANTS
    Columns = 5
    Lines = 4
    ConsoleColumns = 4
    ConsoleLines = 2
    Char <- Chars
    Header <- Headers
    Text <- Texts
    ConsoleText <- ConsoleTexts
INVARIANTS
    TypeOK
    LastRowsShown
    WrapsAtWords
    EndsUnlessLongWord
CHECK_DEADLOCK FALSE

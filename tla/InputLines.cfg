SPECIFICATION Spec
CONSTANTS
    Capital <- ToUpper
    Command <- ShortCommands
    MaxToChars = 6
    MaxMsgChars = 1
    MaxWords = 3
    WordSize = 3
    NameSize = 2
    Byte <- Bytes
    Leftover <- Leftovers
INVARIANTS
    TypeOK
    CursorsAtLineEnds
    SentIsShown
    OverrunNeedsLongLine
PROPERTIES
    CommandIsWhatIsTyped
\* After an overrun nothing more is known.
CHECK_DEADLOCK FALSE

SPECIFICATION Spec
CONSTANTS
    MaxSize = 19
    NameLength = 4
    Name <- Names
    Text <- Texts
    Port <- BothSides
INVARIANTS
    TypeOK
    RoundTrip
    NeverAborts

SPECIFICATION Spec
CONSTANTS
    Uris <- TwoUris
    Texts <- TwoTexts
    DiagnosticsOf <- Report
    Plain <- AllPlain
    Hows <- AllHows
    Spoiled <- Spoilable
    MaxSent = 3
    MaxAhead = 2
    OutCap = 1
INVARIANTS Framing AnsweredOnce Fresh Exits
PROPERTY EveryAnswer
CHECK_DEADLOCK FALSE

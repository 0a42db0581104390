SPECIFICATION Spec
CONSTANTS
    Items <- AllItems
    Later <- SomeItems
    Foreign <- AllForeign
    Beyond = {0, 202}
    MaxItems = 2
    MaxReads = 2
    Listed = 256
INVARIANTS RoundTrip CutRejected SkipAgrees SkipsOne SameNumber
CHECK_DEADLOCK FALSE

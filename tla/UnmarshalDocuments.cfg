SPECIFICATION FairSpec
CONSTANTS
    Schema <- AllSchema
    Variants <- AllVariants
    TagKey = "type"
    LenKey <- AllLenKey
    FixedSize = 2
    Stray = "k"
    Mask <- AllMask
    MaxDepth = 3
    Documents <- AllDocuments
    MaxTokens = 21
INVARIANTS TypeOK StackBounded ExactAcceptance AcceptsWholeObject
PROPERTY Termination

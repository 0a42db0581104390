SPECIFICATION FairSpec
CONSTANTS
    Names <- AllNames
    Strings <- AllStrings
    Documents <- AllDocuments
    Root = "main"
    PathMax = 2
INVARIANTS OneDefinition NoCircle AcceptsExactly ReadsWhatIsWritten
PROPERTIES Kept Terminates

SPECIFICATION FairSpec
CONSTANTS
    Name <- Names
    Tables <- FilledTables
    Hashes <- AllHashes
INVARIANT LookupExact
PROPERTY GeneratorEnds
PROPERTY LookupEnds

SPECIFICATION Spec
CONSTANTS
    Byte = {a, b}
    NUL = NUL
    Space = Space
    Junk = Junk
    ShortCap = 2
    CapDelta = 1
    SizeMod = 256
    MaxData = 3
    MaxLength = 7
INVARIANTS NoOverrun Terminated
PROPERTY ImplementsByteString

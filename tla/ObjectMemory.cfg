SPECIFICATION Spec
CONSTANTS
    Objects = {x, y}
    Schemas <- AllSchemas
    MaxLen = 2
    FixedSize = 2
    MaxBlocks = 6
INVARIANTS NoDangling NoLeak CopyExact
SYMMETRY Symmetry
CHECK_DEADLOCK FALSE

CONSTANTS
    a = a
    b = b
    c = c
    Item <- Three
    Schemas <- ThreeSchemas
SPECIFICATION Spec
INVARIANTS DependenciesFirst WrittenOnce RefusesOnlyCircles
CHECK_DEADLOCK FALSE

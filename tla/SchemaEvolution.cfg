SPECIFICATION Spec
CONSTANTS
    Versions <- AllVersions
    ObjectsOf <- BothOf
    Cuts = {0, 1, 2, 3, 4, 5, 6, 7, 8, 9, 10, 11, 12, 13, 14}
    Beyond = {0, 192}
INVARIANTS SafeReads CutRejected Initialised
CHECK_DEADLOCK FALSE

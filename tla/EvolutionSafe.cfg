SPECIFICATION Spec
CONSTANTS
    Versions <- AllVersions
    ObjectsOf <- BothOf
    Cuts = {0}
    Beyond = {0}
INVARIANT SafeAlone
CHECK_DEADLOCK FALSE

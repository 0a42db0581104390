SPECIFICATION RoundTrip
CONSTANTS
    Schemas <- AllSchemas
    ObjectsOf <- AllObjects
    StructTypes <- AllStructs
    OneofTypes <- AllOneofs
    MaxDepth = 3
INVARIANTS WritesJson ReadsBack
CHECK_DEADLOCK FALSE

CONSTANTS
    k1 = k1
    k2 = k2
    k3 = k3
    k4 = k4
    Key <- Keys4
    Value = {v1, v2}
    Hashes <- FourHashes
    BucketCounts = {1, 2}
SPECIFICATION Spec
INVARIANT LoadBounded
PROPERTY ImplementsDictionary

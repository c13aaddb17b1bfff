SPECIFICATION Spec
CONSTANTS
    Key <- PlainKey
    Value = {v1, v2}
    Bucket <- MCBucket
    HashOf <- PlainHash
    PrefixOf <- PlainPrefix
INVARIANTS DelReturns
\* A crashed process stops.
CHECK_DEADLOCK FALSE

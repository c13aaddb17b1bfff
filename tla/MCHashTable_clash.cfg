SPECIFICATION Spec
CONSTANTS
    Key <- ClashKey
    Value = {v1, v2}
    Bucket <- MCBucket
    HashOf <- ClashHash
    PrefixOf <- ClashPrefix
INVARIANTS TypeOK ListInv ReadYourWrites
PROPERTIES BoundedInterference StaysReadable
\* A crashed process stops.
CHECK_DEADLOCK FALSE

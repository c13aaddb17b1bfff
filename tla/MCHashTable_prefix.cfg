SPECIFICATION Spec
CONSTANTS
    Key <- ClashKey
    Value = {v1, v2}
    Bucket <- MCBucket
    HashOf <- ClashHash
    PrefixOf <- ClashPrefix
PROPERTIES DictionarySpec
\* A crashed process stops.
CHECK_DEADLOCK FALSE

SPECIFICATION Spec
CONSTANTS
    Key <- PlainKey
    Value = {v1, v2}
    Bucket <- MCBucket
    HashOf <- PlainHash
    PrefixOf <- PlainPrefix
PROPERTIES DictionarySpec
\* A crashed process stops.
CHECK_DEADLOCK FALSE

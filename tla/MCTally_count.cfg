SPECIFICATION Spec
CONSTANTS
    Key <- MCKey
    Value <- MCChar
    Bucket <- MCBucket
    HashOf <- MCHash
    PrefixOf <- MCPrefix
    CharHalf = 4
    SizeMod = 65536
    N = 7
    Quorums <- MCQuorums
    MemoryFails = TRUE
INVARIANTS TypeOK QuorumOfPrefixes CountsBacked NoQuorumMissed
\* The loop ends.
CHECK_DEADLOCK FALSE

SPECIFICATION SpecClients
CONSTANTS
    c1 = c1  c2 = c2  c3 = c3
    s1 = s1  s2 = s2  s3 = s3
    Empty <- MCEmpty
    Dump <- MCDump
    Proc <- MCProc
    Op <- MCOp
    Scenarios <- MissingScenarios
    Server <- TwoServers
    Contact <- TwoContact
    Key <- MCKey
    Value <- MCValue
    StoredAs <- MCStoredAs
    Received <- MCReceived
    MAX_MSG_ELEM_SIZE = 4
    StoreBucket <- MCBucket
    StoreHash <- StoreHashes
    StorePrefix <- StorePrefixes
    VoteBucket <- MCBucket
    VoteHash <- VoteHashes
    VotePrefix <- VotePrefixes
    CharHalf = 128
    SizeMod = 16777216
PROPERTIES ReadsAnswered
\* Every program ends.
CHECK_DEADLOCK FALSE

SPECIFICATION SpecList
CONSTANTS
    a1 = a1  a2 = a2  a3 = a3
    Addr = {a1, a2, a3}
    Garbage = garbage
    MaxByte = 2
    MaxRest = 1
    MaxNodes = 3
    AnyArgs = any
    Malformed = malformed
    Programs <- MCPrograms
    Commands <- MCCommands
    Files <- MCFiles
    Lister = lister
    Stranger = stranger
    Nobody = nobody
    Sender <- MCSender
    ListFiles <- MCListFiles
    ListDigests <- MCListDigests
    Port <- MCPort
    MaxDup = 1
    MaxLookups = 1
    DEFAULT_N = 3
    DEFAULT_W = 2
    DEFAULT_R = 2
INVARIANTS ListTypeOK NearestServers StaysInArray ListReachesQuorums MarkedAnswered AliveListed LogOrder
PROPERTIES WalkReturns ListEnds WalkAdvances
\* The call ends.
CHECK_DEADLOCK FALSE

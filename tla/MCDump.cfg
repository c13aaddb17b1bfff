SPECIFICATION Spec
CONSTANTS
    String <- MCString
    Empty <- MCEmpty
    LenOf <- MCLenOf
    Decimal <- MCDecimal
    Scan <- MCScan
    Lists <- MCLists
    MaxMsg = 9
    SizeMod = 65536
    MaxDup = 1
    MaxSlow = 3
INVARIANTS TypeOK StaysInMessage PrintsStored PrintsAll
\* A dump ends.
CHECK_DEADLOCK FALSE

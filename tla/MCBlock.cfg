\* Up to 5 entries, restart intervals 0 (treated as 1), 2 and 3, a block size
\* that fills up at every entry count and one that never does.
CONSTANTS
    v1 = v1
    v2 = v2
    Byte = {0, 1}
    MaxKeyLen = 3
    Value <- MCValue
    ValueLen <- MCValueLen
    BlockSizes = {36, 1000}
    RestartIntervals = {0, 2, 3}
    MaxEntries = 5
    NoBlock = NoBlock
    NotFound = NotFound
SPECIFICATION Spec
\* The builder is consumed by finish.
CHECK_DEADLOCK FALSE
INVARIANTS
    TypeOK
    GetCorrect
    IterCorrect
    RestartsRegular
    SizeBound

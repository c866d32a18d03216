\* Up to 3 adds, one fault: a read that panics.
CONSTANTS
    small = small
    large = large
    Key <- MCKey
    EmptyKey = 0
    Value <- MCValue
    KeyLen <- MCKeyLen
    ValueLen <- MCValueLen
    SharedPrefix <- MCSharedPrefix
    Options <- MCOptions
    FilterLen = 9
    FstLen = 36
    FooterSize = 64
    MaxAdds = 3
    NoSegment = NoSegment
    NoFile = NoFile
    Unreadable = Unreadable
    MaxFaults = 1
    DamagedNumbers <- MCNumbers
    DamagedFilters <- MCFilters
    NotFound = NotFound
SPECIFICATION DamageSpec
\* finish consumes the writer.
CHECK_DEADLOCK FALSE
INVARIANTS
    NeverPanics

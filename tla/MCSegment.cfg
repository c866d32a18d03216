\* One writer, every sequence of up to 5 adds over 5 keys and 2 values, and
\* one fault anywhere in the segment it finished.
CONSTANTS
    small = small
    large = large
    Key <- MCKey
    EmptyKey = 0
    Value <- MCValue
    KeyLen <- MCKeyLen
    ValueLen <- MCValueLen
    SharedPrefix <- MCSharedPrefix
    Options <- MCOptions
    FilterLen = 9
    FstLen = 36
    FooterSize = 64
    MaxAdds = 5
    NoSegment = NoSegment
    NoFile = NoFile
    Unreadable = Unreadable
    MaxFaults = 1
    DamagedNumbers <- MCNumbers
    DamagedFilters <- MCFilters
    NotFound = NotFound
SPECIFICATION DamageSpec
\* finish consumes the writer.
CHECK_DEADLOCK FALSE
INVARIANTS
    TypeOK
    LookupCorrect
    IterCorrect
    SectionsTile
    FinishNeverFails
    BlockSizeBound
    MetaMatches
    WriterInvariant
    DamageNeverLies
    DamageContained

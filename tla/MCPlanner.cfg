\* Up to 2 row groups listed, with statistics for any of the columns.
CONSTANTS
    Base = 4
    Lead = {1}
    Trail = {2}
    MaxKind = 1
    MaxRel = 1
    Null = Null
    NoOutput = NoOutput
    Column = {"id", "age"}
    KeyColumn = "id"
    MaxAdds = 2
    File <- MCFile
    RowGroup <- MCRowGroup
    Value <- MCValue
    RowGroups <- MCRowGroups
    Encodings <- MCEncodings
    Queries <- MCQueries
    IndexKey <- MCIndexKey
    Location <- MCLocation
SPECIFICATION PlannerSpec
\* The index is finished once and files are not written afterwards.
CHECK_DEADLOCK FALSE
INVARIANTS
    PlannerTypeOK
    NoFalseNegative
    ManifestMatchesAdds
    PostingsKept
    PlanComplete

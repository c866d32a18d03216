\* One reader, one merger, 4 files: a base, pushes, a merge or reindex, and a
\* push on top of it, over 2 keys and 2 values; gets are fair.
CONSTANTS
    k1 = k1
    k2 = k2
    v1 = v1
    v2 = v2
    Key <- MCKey
    Value <- MCValue
    Deltas <- MCDeltas
    Bases <- MCBases
    Tombstone = Tombstone
    NoValue = NoValue
    NoObject = NoObject
    Reader = {r1}
    Pending = Pending
    StorageError = StorageError
    MaxDeltaCount = 2
    SegmentOverhead = 4
    MaxPath = 4
SPECIFICATION FairSpec
\* Files run out, and nothing is left to do.
CHECK_DEADLOCK FALSE
INVARIANTS
    TypeOK
    AnswerIsSnapshot
    ErrorMeansSuperseded
    MergedIsView
    ManifestLive
PROPERTIES
    MergeInvisible
    ImplementsAbstract
    GetReturns

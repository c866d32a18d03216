\* A base with one delta that deletes every key it has, then a merge.
CONSTANTS
    k1 = k1
    k2 = k2
    v1 = v1
    v2 = v2
    Key <- MCKey
    Value <- MCValue
    Deltas <- MCDeltas
    Bases <- MCBases
    Tombstone = Tombstone
    NoValue = NoValue
    NoObject = NoObject
    Reader = {r1}
    Pending = Pending
    StorageError = StorageError
    MaxDeltaCount = 2
    SegmentOverhead = 4
    MaxPath = 3
SPECIFICATION Spec
\* Files run out, and nothing is left to do.
CHECK_DEADLOCK FALSE
INVARIANTS
    MergeNeverCorrupt

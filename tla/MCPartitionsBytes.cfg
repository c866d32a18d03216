\* Keys that are not UTF-8 in the stream.
CONSTANTS
    Key <- MCKey
    Utf8 <- MCUtf8
    Lossy <- MCLossy
    Inputs <- MCInputs
    MaxLen = 4
    KeysPerPartition = {1, 2, 3}
    NotFound = NotFound
    NoAnswer = NoAnswer
SPECIFICATION Spec
\* An index whose builder refused a slice is never published.
CHECK_DEADLOCK FALSE
INVARIANTS
    LookupRight

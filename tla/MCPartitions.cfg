\* Every sorted stream of up to 4 keys out of 6, cut in every way, into
\* partitions of about 1, 2 or 3 keys.
CONSTANTS
    Key <- MCKey
    Utf8 <- MCUtf8
    Lossy <- MCLossy
    Inputs <- MCInputs
    MaxLen = 4
    KeysPerPartition = {1, 2, 3}
    NotFound = NotFound
    NoAnswer = NoAnswer
SPECIFICATION Spec
\* An index whose builder refused a slice is never published.
CHECK_DEADLOCK FALSE
INVARIANTS
    RoutingInvariant
    Utf8LookupRight

\* Every value of a small set of each type, cut anywhere or with one byte
\* changed, and every byte string of up to 6 bytes (4 for varints).
CONSTANTS
    Base = 4
    Lead = {1}
    Trail = {2}
    MaxKind = 1
    MaxRel = 1
    MaxGarbage = 6
    Group = 4
    MaxGroups = 3
    Limit = 32
    MaxVarint = 4
    Inputs <- MCInputs
    Garbage <- MCGarbage
    Pending = Pending
SPECIFICATION Spec
\* A value is read once.
CHECK_DEADLOCK FALSE
INVARIANTS
    RoundTripExactlyWhenFits
    CutRejected
    DecodeCanonical

\* A segment replaced under an open reader by another with the same block
\* boundaries.
CONSTANTS
    va = va
    vb = vb
    vc = vc
    Key <- MCKey
    Value = {va, vb, vc}
    Objects <- MCObjects
    Budgets <- MCBudgets
    Backends = {"local", "s3"}
    FooterSize = 64
    NotFound = NotFound
    NoObject = NoObject
    NoMeta = NoMeta
    Pending = Pending
SPECIFICATION Spec
INVARIANTS
    NotFoundIsReal

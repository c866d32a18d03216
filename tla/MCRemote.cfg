\* Both backends, four budgets, six segments that replace each other freely.
CONSTANTS
    va = va
    vb = vb
    vc = vc
    Key <- MCKey
    Value = {va, vb, vc}
    Objects <- MCObjects
    Budgets <- MCBudgets
    Backends = {"local", "s3"}
    FooterSize = 64
    NotFound = NotFound
    NoObject = NoObject
    NoMeta = NoMeta
    Pending = Pending
SPECIFICATION Spec
INVARIANTS
    TypeOK
    OpenCoherent
    UnmodifiedOpens
    TailTooSmallMeansRewritten
    UnmodifiedGetCorrect
    ValuesAreReal
    CorruptionMeansRewritten

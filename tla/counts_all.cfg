SPECIFICATION Spec
CONSTANTS
    NoComment = NoComment
    Comments = {c1, c2}
    Workers = {w1, w2}
    Ops <- AllOps
    MayAbort = TRUE
SYMMETRY Interchangeable
INVARIANTS TypeOK
PROPERTIES UndeletedOnlyByEdit

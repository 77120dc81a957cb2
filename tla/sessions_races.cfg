SPECIFICATION Spec
CONSTANTS
    NoUser = NoUser
    NoToken = NoToken
    Users = {ann}
    Tokens = {t1, t2, t3}
    Sessions = {s1, s2}
    Codes = {c1}
    Workers = {w1, w2}
    Ops <- EveryOp
    MayAbort = TRUE
SYMMETRY Interchangeable
INVARIANTS TypeOK SingleUseBounded FamiliesApart 
PROPERTIES NoRevival

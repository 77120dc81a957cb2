SPECIFICATION Spec
CONSTANTS
    NoUser = NoUser
    NoConv = NoConv
    Users = {ann, bob}
    Leaders = {ann, bob}
    Convs = {c1, c2}
    Workers = {w1, w2, w3}
    MaxMessages = 1
    Ops <- StartOps
SYMMETRY Interchangeable
INVARIANTS TypeOK ClosedHasCloser DirectBounded MessagesBetweenTwo LastIsOwn

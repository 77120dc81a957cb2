SPECIFICATION Spec
CONSTANTS
    NoUser = NoUser
    NoKind = NoKind
    Users = {ann, ben}
    Kinds = {prayer}
    DefaultKinds = {prayer}
    Workers = {w1, w2}
    MaxPerHour = 2
    HoursPerDay = 3
    QuietStart = 2
    QuietEnd = 1
    MaxAfter = 3
SYMMETRY Interchangeable
INVARIANTS TypeOK LimitOvershootBounded OptOutTakesEffect

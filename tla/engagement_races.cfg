SPECIFICATION Spec
CONSTANTS
    NoUser = NoUser
    NoItem = NoItem
    NoType = NoType
    NoReaction = NoReaction
    disc = disc
    pray = pray
    Users = {ann}
    Items = {disc, pray}
    Reactions = {r1, r2}
    Types = {like, heart}
    Workers = {w1, w2}
    KindOf <- OneOfEach
    Ops <- AllOps
    MayAbort = TRUE
SYMMETRY Interchangeable
INVARIANTS TypeOK NeverOvercounted ReactionsCounted FlagsTellReports

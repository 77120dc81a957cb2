SPECIFICATION Spec
CONSTANTS
    NoUser = NoUser
    NoItem = NoItem
    NoType = NoType
    NoReaction = NoReaction
    disc = disc
    pray = pray
    Users = {ann}
    Items = {disc, pray}
    Reactions = {r1, r2}
    Types = {like, heart}
    Workers = {w1}
    KindOf <- OneOfEach
    Ops <- OnlyReact
    MayAbort = FALSE
PROPERTIES TogglesOwnContent

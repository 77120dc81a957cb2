SPECIFICATION Spec
CONSTANTS
    NoUser = NoUser
    NoGroup = NoGroup
    NoId = NoId
    lea = lea
    ann = ann
    bob = bob
    Workers = {w1, w2}
    Users = {lea, ann, bob}
    Groups = {g1}
    Ids = {i1, i2}
    CanLead <- OneLeader
    Limits = {2}
    CoLists = {{}, {ann}}
    MaxLimit = 2
    Ops <- RacingOps
SYMMETRY WithMembers
INVARIANTS OvershootBounded 
PROPERTIES LeaderSeatKept LeaveStands ArchivedStands

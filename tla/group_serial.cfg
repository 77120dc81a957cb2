SPECIFICATION Spec
CONSTANTS
    NoUser = NoUser
    NoGroup = NoGroup
    NoId = NoId
    lea = lea
    ann = ann
    bob = bob
    Workers = {w1}
    Users = {lea, ann, bob}
    Groups = {g1}
    Ids = {i1}
    CanLead <- TwoLeaders
    Limits = {2, 3}
    CoLists = {{}, {ann}}
    MaxLimit = 3
    Ops <- AllOps
INVARIANTS TypeOK
PROPERTIES ApprovalFits SerialIsAtomic

SPECIFICATION Spec
CONSTANTS
    NoContent = NoContent
    NoView = NoView
    Contents = {c1}
    Kinds = {"prayer", "testimony", "scripture"}
    Workers = {w1, w2}
    Ops <- EveryOp
    MaxPrays = 1
    MayAbort = TRUE
INVARIANTS TypeOK FeedMirrors HidesOnlyByOverlap
PROPERTIES OnlyEditsUndo

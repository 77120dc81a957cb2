SPECIFICATION FairSpec
CONSTANTS
    NoComment = NoComment
    Comments = {c1, c2}
    Workers = {w1, w2}
    Ops <- Tidying
    MayAbort = FALSE
INVARIANTS CountCovers FeedNeverAhead
PROPERTIES CommentsCleaned

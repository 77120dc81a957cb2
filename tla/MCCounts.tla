------------------------------ MODULE MCCounts ------------------------------
EXTENDS ContentCounts, TLC

\* Workers are interchangeable, and so are comments.
Interchangeable == Permutations(Workers) \cup Permutations(Comments)

\* What happens in the instance with liveness.
Tidying == {"create", "comment", "deleteComment", "editComment", "pin", "flag", "destroy", "month"}

=============================================================================

------------------------------ MODULE MCSessions ------------------------------
EXTENDS Sessions, TLC

Interchangeable == Permutations(Workers) \cup Permutations(Tokens) \cup Permutations(Sessions)
EveryOp == AllOps \cup {"delete", "admin"}

=============================================================================

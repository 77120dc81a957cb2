------------------------------ MODULE MCPeople ------------------------------
EXTENDS People, TLC

\* Workers are interchangeable.
Interchangeable == Permutations(Workers)

=============================================================================

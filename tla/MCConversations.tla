--------------------------- MODULE MCConversations ---------------------------
EXTENDS Conversations, TLC

\* Workers, keys and users are interchangeable where every user leads a group.
Interchangeable == Permutations(Workers) \cup Permutations(Convs) \cup Permutations(Users)

\* An inquiry differs from a direct message in the kind of conversation only,
\* and an edit from a close or reopening in what the save leaves as it was.
StartOps == AllOps \ {"inquire", "edit"}

=============================================================================

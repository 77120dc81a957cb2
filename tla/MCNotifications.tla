--------------------------- MODULE MCNotifications ---------------------------
EXTENDS Notifications, TLC

Interchangeable == Permutations(Workers) \cup Permutations(Users)

=============================================================================

------------------------------- MODULE MCGroup -------------------------------
EXTENDS GroupSerial, TLC

CONSTANTS lea, ann, bob

\* One user may lead groups, or two.
OneLeader  == {lea}
TwoLeaders == {lea, ann}

\* Workers and row keys are interchangeable; so are the users who may not
\* lead, where no co-leader list names one of them.
Threads     == Permutations(Workers) \cup Permutations(Ids)
WithMembers == Threads \cup Permutations(Users \ {lea})

\* The endpoints of the instance with races: with one user who may lead there
\* is nobody to hand a group over to, and uploads stand for the stale saves of
\* edits.
RacingOps == {"create", "join", "leave", "approve", "photo", "destroy"}

=============================================================================

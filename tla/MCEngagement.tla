---------------------------- MODULE MCEngagement ----------------------------
EXTENDS Engagement, TLC

CONSTANTS disc, pray

OneOfEach == disc :> "discussion" @@ pray :> "prayer"
Interchangeable == Permutations(Workers) \cup Permutations(Users) \cup Permutations(Reactions)
                   \cup Permutations(Types)
OnlyReact == {"react"}

=============================================================================

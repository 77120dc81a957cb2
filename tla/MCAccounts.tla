----------------------------- MODULE MCAccounts -----------------------------
EXTENDS Accounts, TLC

\* Workers, primary keys, addresses and names are each interchangeable.
Interchangeable == Permutations(Workers) \cup Permutations(Accounts)
                   \cup Permutations(Emails) \cup Permutations(Names)

=============================================================================

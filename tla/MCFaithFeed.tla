---------------------------- MODULE MCFaithFeed ----------------------------
EXTENDS FaithFeed

EveryOp == AllOps \cup {"delete"}

=============================================================================

------------------------- MODULE MCSequenceManager -------------------------
EXTENDS SequenceManager, TLC

\* Requests and accounts are interchangeable.
Symmetry == Permutations(Channels) \cup Permutations(Accounts)
=============================================================================

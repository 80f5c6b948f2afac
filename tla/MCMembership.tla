---------------------------- MODULE MCMembership ----------------------------
EXTENDS Membership, TLC

\* Handlers are alike, and so are the people other than the creator.
Symmetry == Permutations(Handlers) \cup Permutations(People \ {Creator})

=============================================================================

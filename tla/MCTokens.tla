------------------------------ MODULE MCTokens ------------------------------
\* TLC instance of Tokens: identities are interchangeable.
EXTENDS Tokens, TLC

Symmetry == Permutations(Workers) \cup Permutations(AccessIds)
            \cup Permutations(RefreshIds)
=============================================================================

------------------------ MODULE MCRegisterProtection ------------------------
\* TLC instance of RegisterProtection: identities are interchangeable.
EXTENDS RegisterProtection, TLC

Symmetry == Permutations(Workers) \cup Permutations(IPs)
=============================================================================

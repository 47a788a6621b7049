----------------------------- MODULE MCVerifier -----------------------------
EXTENDS VerifierInv, TLC
Symmetry == Permutations(Workers) \union Permutations(Handoffs)
            \union Permutations(ResultIds) \union Permutations(Subjects)
=============================================================================

------------------------------ MODULE MCVault ------------------------------
EXTENDS Vault, TLC
CONSTANTS p, q, c, d
MCProcs == {p, q}
MCCreds == {c, d}
MCPassphrases == {"x", "y"}
Symmetry == Permutations(MCProcs) \union Permutations(MCCreds)
=============================================================================

------------------------------ MODULE MCFiles ------------------------------
EXTENDS Files, TLC
Perms == Permutations(Keygen) \cup Permutations(Writer) \cup Permutations(KeyPath)
=============================================================================

------------------------------ MODULE MCBackups ------------------------------
EXTENDS Backups, TLC

Symmetry == Permutations(Files) \cup Permutations(Inodes) \cup Permutations(Reqs)
=============================================================================

---------------------------- MODULE MCConfigRepos ----------------------------
EXTENDS ConfigRepos, TLC

CONSTANTS p1, p2

Symmetric == Permutations(Procs)
=============================================================================

---------------------------- MODULE MCStateFile ----------------------------
\* Devices and saving goroutines are interchangeable.
EXTENDS StateFile, TLC
Symmetric == Permutations(Devices) \cup Permutations(Savers)
=============================================================================

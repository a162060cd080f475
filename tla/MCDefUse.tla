------------------------------ MODULE MCDefUse ------------------------------
EXTENDS DefUse, TLC
Interchangeable == Permutations(Codes)
=============================================================================

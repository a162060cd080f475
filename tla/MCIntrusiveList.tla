-------------------------- MODULE MCIntrusiveList --------------------------
EXTENDS IntrusiveList, TLC
Interchangeable == Permutations(Nodes)
=============================================================================

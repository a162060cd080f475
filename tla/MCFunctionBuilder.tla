------------------------- MODULE MCFunctionBuilder -------------------------
EXTENDS FunctionBuilder, TLC
Interchangeable == Permutations(Labels)
=============================================================================

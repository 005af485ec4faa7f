----------------------------- MODULE MCDispatch -----------------------------
EXTENDS Dispatch, TLC
RequestSymmetry == Permutations(Requests)
=============================================================================

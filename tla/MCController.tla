---------------------------- MODULE MCController ----------------------------
EXTENDS Controller, TLC
Symm == Permutations(Keys) \cup Permutations(Requests) \cup Permutations(Builds)
=============================================================================

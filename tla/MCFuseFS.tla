------------------------------ MODULE MCFuseFS ------------------------------
(* A finite instance of FuseFS.                                            *)
EXTENDS FuseFS, TLC

CONSTANTS f1, f2

\* The files are interchangeable.
Symm == Permutations({f1, f2})
=============================================================================

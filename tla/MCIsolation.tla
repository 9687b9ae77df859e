---- MODULE MCIsolation ----
EXTENDS Isolation, TLC
Sym == Permutations(Keys) \cup Permutations(Boots)
====

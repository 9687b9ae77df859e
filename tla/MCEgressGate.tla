---------------------------- MODULE MCEgressGate ----------------------------
(* Small instances of the egress reload for TLC.                           *)
EXTENDS EgressGate, TLC

Symm == Permutations(Callers) \union Permutations(IPs)
=============================================================================

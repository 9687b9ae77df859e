----------------------------- MODULE MCSlotPool -----------------------------
(* Small instances of the slot pool for TLC.                               *)
EXTENDS SlotPool, TLC

Symm == Permutations(Tenants)
=============================================================================

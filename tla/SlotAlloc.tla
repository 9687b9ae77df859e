----------------------------- MODULE SlotAlloc -----------------------------
(***************************************************************************)
(* What createPacked relies on when it claims a network slot: an octet is  *)
(* lent to one tenant at a time, until the tenant returns it.  Where       *)
(* octets come from is left open; SlotPool says it for claimSlot and       *)
(* releaseSlot of internal/sandboxd.                                       *)
(***************************************************************************)
EXTENDS Naturals

CONSTANTS
  Tenants,
  Octets      \* the octets that may be lent, 0 not among them

VARIABLE holder   \* the octet each tenant holds, 0 for none

AllocInit == holder = [t \in Tenants |-> 0]

Acquire(t, o) ==
  /\ holder[t] = 0
  /\ o \in Octets
  /\ \A u \in Tenants : holder[u] # o
  /\ holder' = [holder EXCEPT ![t] = o]

Return(t) ==
  /\ holder[t] # 0
  /\ holder' = [holder EXCEPT ![t] = 0]

AllocNext == \E t \in Tenants : Acquire(t, holder'[t]) \/ Return(t)

Spec == AllocInit /\ [][AllocNext]_holder
=============================================================================

------------------------------ MODULE SlotPool ------------------------------
(***************************************************************************)
(* The network slots of a pack pod (internal/sandboxd/packed.go and        *)
(* prealloc.go).  A slot is a host octet n: the guest address 172.16.n.2   *)
(* and the netns, veth and firewall rules that go with it.                 *)
(*                                                                         *)
(* allocIP hands out octets from a LIFO of freed ones or a counter.  The   *)
(* preallocPool takes Target octets at boot and keeps them for the pod's   *)
(* lifetime: one worker provisions each once, claim pops a ready one, and  *)
(* release sends it back through resetCh to the worker, which flushes the  *)
(* old tenant's conntrack entries before it is ready again.                *)
(*                                                                         *)
(* A tenant is one run of createPacked and its teardown.                   *)
(***************************************************************************)
EXTENDS Naturals, Sequences, FiniteSets

CONSTANTS
  Tenants,           \* the sandboxes of a behaviour, each created once
  Target,            \* -prealloc-pool; 0 means no pool
  ProvisionMayFail,  \* may wiring a slot's network fail?
  FlushMayFail       \* may the best-effort conntrack flush fail?

ASSUME TargetAssumption == Target \in Nat
ASSUME FailAssumption == ProvisionMayFail \in BOOLEAN /\ FlushMayFail \in BOOLEAN

VARIABLES
  nextN,        \* packState.nextN, 2 once first used
  freed,        \* packState.freed, a stack
  ready,        \* preallocPool.ready, a stack
  inUse,        \* preallocPool.inUse
  resetCh,      \* preallocPool.resetCh, a channel of capacity Target
  provisioned,  \* the worker's local map
  started,      \* how many octets start() has sent
  wkPc,         \* where the worker is
  wkOctet,      \* its local variable octet
  tPc,          \* where each tenant is
  tOctet,       \* the octet it holds or held
  tPre,         \* does that octet belong to the pool?
  flows         \* conntrack entries: the tenant whose traffic made them, the octet

allocVars  == <<nextN, freed>>
poolVars   == <<ready, inUse, resetCh, started>>
workerVars == <<provisioned, wkPc, wkOctet>>
tenantVars == <<tPc, tOctet, tPre>>
vars == <<allocVars, poolVars, workerVars, tenantVars, flows>>

Elems(s) == {s[k] : k \in DOMAIN s}
Last(s)  == s[Len(s)]
Front(s) == SubSeq(s, 1, Len(s) - 1)

Init ==
  /\ nextN = 2
  /\ freed = <<>>
  /\ ready = <<>>
  /\ inUse = {}
  /\ resetCh = <<>>
  /\ provisioned = {}
  /\ started = 0
  /\ wkPc = "idle"
  /\ wkOctet = 0
  /\ tPc = [t \in Tenants |-> "idle"]
  /\ tOctet = [t \in Tenants |-> 0]
  /\ tPre = [t \in Tenants |-> FALSE]
  /\ flows = {}

-----------------------------------------------------------------------------
(* start, before bootComplete lets the first create through.  allocIP's    *)
(* stack is still empty, so the counter supplies the octets.               *)

StartSlot ==
  /\ started < Target
  /\ Len(resetCh) < Target
  /\ resetCh' = Append(resetCh, nextN)
  /\ nextN' = nextN + 1
  /\ started' = started + 1
  /\ UNCHANGED <<freed, ready, inUse, workerVars, tenantVars, flows>>

BootComplete == started = Target

(* The worker: one octet at a time, provisioned the first time, reset      *)
(* afterwards.                                                             *)
WorkerTake ==
  /\ wkPc = "idle"
  /\ resetCh # <<>>
  /\ wkOctet' = Head(resetCh)
  /\ resetCh' = Tail(resetCh)
  /\ wkPc' = IF Head(resetCh) \in provisioned THEN "reset" ELSE "provision"
  /\ UNCHANGED <<allocVars, ready, inUse, started, provisioned, tenantVars, flows>>

\* On an error the octet is left out of the pool for good.
Provision ==
  /\ wkPc = "provision"
  /\ \/ /\ provisioned' = provisioned \union {wkOctet}
        /\ wkPc' = "ready"
     \/ /\ ProvisionMayFail
        /\ wkPc' = "idle"
        /\ UNCHANGED provisioned
  /\ UNCHANGED <<allocVars, poolVars, wkOctet, tenantVars, flows>>

\* Faulty variant: the slot goes back without the conntrack flush.
Reset_NoFlush ==
  /\ wkPc = "reset"
  /\ wkPc' = "ready"
  /\ UNCHANGED <<allocVars, poolVars, provisioned, wkOctet, tenantVars, flows>>

\* Faulty variant: the worker resets the slot and forgets to list it.
Reset_Forgotten ==
  /\ wkPc = "reset"
  /\ flows' = {f \in flows : f[2] # wkOctet}
  /\ wkPc' = "idle"
  /\ UNCHANGED <<allocVars, poolVars, provisioned, wkOctet, tenantVars>>

Reset ==
  /\ wkPc = "reset"
  /\ \/ flows' = {f \in flows : f[2] # wkOctet}
     \/ FlushMayFail /\ UNCHANGED flows
  /\ wkPc' = "ready"
  /\ UNCHANGED <<allocVars, poolVars, provisioned, wkOctet, tenantVars>>

WorkerReady ==
  /\ wkPc = "ready"
  /\ ready' = Append(ready, wkOctet)
  /\ wkPc' = "idle"
  /\ UNCHANGED <<allocVars, inUse, resetCh, started, provisioned, wkOctet,
                 tenantVars, flows>>

\* The pod's context ends: the worker returns the next time it would wait.
WorkerExit ==
  /\ wkPc = "idle"
  /\ wkPc' = "exited"
  /\ UNCHANGED <<allocVars, poolVars, provisioned, wkOctet, tenantVars, flows>>

-----------------------------------------------------------------------------
(* claimSlot: the pool under its lock, then, on a miss, the allocator      *)
(* under another.                                                          *)

\* Faulty variant: the slot is read from the stack and never popped.
ClaimPool_NoPop(t) ==
  /\ BootComplete
  /\ tPc[t] = "idle"
  /\ ready # <<>>
  /\ inUse' = inUse \union {Last(ready)}
  /\ tOctet' = [tOctet EXCEPT ![t] = Last(ready)]
  /\ tPre' = [tPre EXCEPT ![t] = TRUE]
  /\ tPc' = [tPc EXCEPT ![t] = "held"]
  /\ UNCHANGED <<allocVars, ready, resetCh, started, workerVars, flows>>

ClaimPool(t) ==
  /\ BootComplete
  /\ tPc[t] = "idle"
  /\ ready # <<>>
  /\ ready' = Front(ready)
  /\ inUse' = inUse \union {Last(ready)}
  /\ tOctet' = [tOctet EXCEPT ![t] = Last(ready)]
  /\ tPre' = [tPre EXCEPT ![t] = TRUE]
  /\ tPc' = [tPc EXCEPT ![t] = "held"]
  /\ UNCHANGED <<allocVars, resetCh, started, workerVars, flows>>

ClaimMiss(t) ==
  /\ BootComplete
  /\ tPc[t] = "idle"
  /\ ready = <<>>
  /\ tPc' = [tPc EXCEPT ![t] = "missed"]
  /\ UNCHANGED <<allocVars, poolVars, workerVars, tOctet, tPre, flows>>

AllocIP(t) ==
  /\ tPc[t] = "missed"
  /\ \/ /\ freed # <<>>
        /\ tOctet' = [tOctet EXCEPT ![t] = Last(freed)]
        /\ freed' = Front(freed)
        /\ UNCHANGED nextN
     \/ /\ freed = <<>>
        /\ tOctet' = [tOctet EXCEPT ![t] = nextN]
        /\ nextN' = nextN + 1
        /\ UNCHANGED freed
  /\ tPre' = [tPre EXCEPT ![t] = FALSE]
  /\ tPc' = [tPc EXCEPT ![t] = "held"]
  /\ UNCHANGED <<poolVars, workerVars, flows>>

\* The tenant's traffic leaves conntrack entries for its source address.
Traffic(t) ==
  /\ tPc[t] = "held"
  /\ flows' = flows \union {<<t, tOctet[t]>>}
  /\ UNCHANGED <<allocVars, poolVars, workerVars, tenantVars>>

(* releaseSlot: a pool slot leaves inUse under the lock and is then sent   *)
(* to the worker; any other goes back on the allocator's stack.            *)
ReleaseSlot(t) ==
  /\ tPc[t] = "held" /\ tPre[t]
  /\ inUse' = inUse \ {tOctet[t]}
  /\ tPc' = [tPc EXCEPT ![t] = "releasing"]
  /\ UNCHANGED <<allocVars, ready, resetCh, started, workerVars, tOctet, tPre, flows>>

\* Faulty variant: a release asks for the slot twice.
ReleaseSend_Twice(t) ==
  /\ tPc[t] = "releasing"
  /\ Len(resetCh) < Target
  /\ resetCh' = Append(Append(resetCh, tOctet[t]), tOctet[t])
  /\ tPc' = [tPc EXCEPT ![t] = "released"]
  /\ UNCHANGED <<allocVars, ready, inUse, started, workerVars, tOctet, tPre, flows>>

ReleaseSend(t) ==
  /\ tPc[t] = "releasing"
  /\ Len(resetCh) < Target
  /\ resetCh' = Append(resetCh, tOctet[t])
  /\ tPc' = [tPc EXCEPT ![t] = "released"]
  /\ UNCHANGED <<allocVars, ready, inUse, started, workerVars, tOctet, tPre, flows>>

FreeIP(t) ==
  /\ tPc[t] = "held" /\ ~tPre[t]
  /\ freed' = Append(freed, tOctet[t])
  /\ tPc' = [tPc EXCEPT ![t] = "released"]
  /\ UNCHANGED <<nextN, poolVars, workerVars, tOctet, tPre, flows>>

-----------------------------------------------------------------------------
Worker == WorkerTake \/ Provision \/ Reset \/ WorkerReady

Next ==
  \/ StartSlot
  \/ Worker
  \/ WorkerExit
  \/ \E t \in Tenants : \/ ClaimPool(t)
                        \/ ClaimMiss(t)
                        \/ AllocIP(t)
                        \/ Traffic(t)
                        \/ ReleaseSlot(t)
                        \/ ReleaseSend(t)
                        \/ FreeIP(t)

Spec == Init /\ [][Next]_vars

(* The worker goroutine is never starved, and a release once begun ends.   *)
Fairness ==
  /\ WF_vars(Worker)
  /\ \A t \in Tenants : WF_vars(ReleaseSend(t))

FairSpec == Spec /\ Fairness

-----------------------------------------------------------------------------
Holds(t) == tPc[t] \in {"held", "releasing"}

TypeOK ==
  /\ nextN \in Nat
  /\ freed \in Seq(Nat)
  /\ ready \in Seq(Nat)
  /\ inUse \in SUBSET Nat
  /\ resetCh \in Seq(Nat)
  /\ provisioned \in SUBSET Nat
  /\ started \in 0..Target
  /\ wkPc \in {"idle", "provision", "reset", "ready", "exited"}
  /\ wkOctet \in Nat
  /\ tPc \in [Tenants -> {"idle", "missed", "held", "releasing", "released"}]
  /\ tOctet \in [Tenants -> Nat]
  /\ tPre \in [Tenants -> BOOLEAN]
  /\ flows \in SUBSET (Tenants \X Nat)

(* No two sandboxes share an octet, and with it an address, a netns and an *)
(* egress policy; nor is a held octet on offer anywhere else.              *)
SlotExclusive ==
  \A t \in Tenants : Holds(t) =>
    /\ \A u \in Tenants \ {t} : Holds(u) => tOctet[u] # tOctet[t]
    /\ tOctet[t] \notin Elems(ready) \union Elems(freed)

(* The pool's octets never reach the IP allocator, and the allocator's     *)
(* never reach the pool, through any sequence of claims and releases.      *)
PoolOwnsItsOctets ==
  /\ \A k \in DOMAIN freed : freed[k] >= Target + 2
  /\ \A k \in DOMAIN ready : ready[k] < Target + 2
  /\ \A t \in Tenants : Holds(t) => (tPre[t] <=> tOctet[t] < Target + 2)

(* A release never blocks the teardown on a full channel, not even after   *)
(* the worker has returned.                                                *)
ReleaseNeverBlocks == \A t \in Tenants : tPc[t] = "releasing" => Len(resetCh) < Target

(* As long as the flush works, a tenant of a pool slot inherits no         *)
(* conntrack entry of the slot's former tenants.                           *)
NoInheritedFlows ==
  FlushMayFail \/ \A t \in Tenants : (Holds(t) /\ tPre[t]) =>
    \A u \in Tenants \ {t} : <<u, tOctet[t]>> \notin flows

(* A released slot is on offer again in the end, unless the pod shuts down.*)
SlotComesBack ==
  \A t \in Tenants :
    (tPc[t] = "releasing") ~> (tOctet[t] \in Elems(ready) \/ wkPc = "exited")

-----------------------------------------------------------------------------
(* What the pool and the allocator together promise createPacked.          *)
holder == [t \in Tenants |-> IF tPc[t] \in {"held", "releasing"} THEN tOctet[t] ELSE 0]
Alloc  == INSTANCE SlotAlloc WITH Octets <- Nat \ {0}

(* claimSlot and releaseSlot, stack, counter, channel and worker included, *)
(* are an allocator that lends each octet to one sandbox at a time.        *)
ImplementsAlloc == Alloc!Spec

=============================================================================

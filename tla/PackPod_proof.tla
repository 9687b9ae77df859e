--------------------------- MODULE PackPod_proof ---------------------------
(***************************************************************************)
(* The safety invariants of PackPod, for any number of requests, keys,     *)
(* deletes and slots and for every world.                                  *)
(*                                                                         *)
(* What a sandbox owns is bound to where its create and its teardown are:  *)
(* the slot from ClaimSlot to TdReleaseSlot, the policy of the address     *)
(* from CreateSetEgress to TdClearEgress, the route from RouterRegister to *)
(* TdUnroute, the tree from Wire to TdClearTree, the map entry from        *)
(* Register to TdUnlist.  The intervals nest, and what is keyed by the     *)
(* address is owned within the time the slot is held, what is keyed by the *)
(* key within the time the key is taken: that is the inductive invariant.  *)
(***************************************************************************)
EXTENDS PackPod, TLAPS

TdBeforeUnroute == {"none", "waiting", "stopping", "dead", "drained", "flushed"}
TdBeforeClear   == TdBeforeUnroute \union {"unrouted"}
TdBeforeRelease == TdBeforeClear \union {"cleared"}
TdListed        == {"waiting", "stopping", "dead", "drained", "flushed", "unrouted", "cleared",
                    "released", "treeless"}
TdDrained       == {"drained", "flushed", "unrouted", "cleared", "released", "treeless",
                    "unlisted", "done"}

PcAnnounced == {"announced", "up", "gated", "ready", "done"}
PcLaunched  == PcAnnounced \union {"launched", "registered"}
PcRouted    == PcLaunched \union {"routed"}
PcPolicied  == PcRouted \union {"policied"}
PcClaimed   == PcPolicied \union {"claimed", "wired"}
PcUnlisted  == {"new", "admitted", "claimed", "wired", "policied", "routed", "launched"}
PcWired     == {"wired", "policied", "routed", "launched", "registered"}

\* The create has passed a point, and its teardown has not undone it.
Owns(r, from, until) == (pc[r] \in from \/ td[r] # "none") /\ td[r] \in until

\* Where create, teardown, workload and watcher of a request can be at once.
CtlInv ==
  /\ world \in Worlds
  /\ \A r \in Requests : r \notin world.requests => pc[r] = "idle"
  /\ \A r \in Requests : td[r] # "none" => pc[r] \in PcAnnounced \union {"failed"}
  /\ \A r \in Requests : pc[r] \in PcAnnounced => td[r] # "none"
  /\ \A r \in Requests : alive[r] => pc[r] \in PcLaunched \union {"failed"}
  /\ \A r \in Requests : alive[r] => td[r] \in {"none", "waiting", "stopping"}
  /\ \A r \in Requests : ready[r] => pc[r] \in {"ready", "done"}
  /\ \A r \in Requests : watcher[r] # "off" => pc[r] = "done"
  /\ world.applies = 0 => \A r \in Requests : queue[r] = 0 /\ watcher[r] # "got"

\* A slot is held by one request, from claimed on until it is released.
SlotInv ==
  /\ \A r \in Requests : pc[r] \in PcClaimed \/ td[r] # "none" => ip[r] \in Addrs
  /\ \A r \in Requests : Owns(r, PcClaimed, TdBeforeRelease) => holder[r] = ip[r]
  /\ \A r \in Requests : ~Owns(r, PcClaimed, TdBeforeRelease) => holder[r] = 0
  /\ \A q, r \in Requests : holder[q] = holder[r] /\ holder[q] # 0 => q = r

RouteInv == \A r \in Requests : Owns(r, PcRouted, TdBeforeUnroute) => router[ip[r]] = r

\* A tenant's first write, gen, is among the writes of its address, and the
\* writes since are its own.
GenInv ==
  \A r \in Requests : Owns(r, PcPolicied, TdBeforeClear) => gen[r] \in 1..Len(writes[ip[r]])

OwnInv ==
  NoStaleReconcile => \A r \in Requests : Owns(r, PcPolicied, TdBeforeClear) =>
    \A n \in gen[r]..Len(writes[ip[r]]) : writes[ip[r]][n] = r

BoundInv == \A a \in Addrs : enforced[a] <= Len(writes[a])

\* Past waitApplied that write, or a later one, is enforced.
GateInv ==
  ~world.reloadLapses => \A r \in Requests : pc[r] \in {"gated", "ready", "done"} =>
    cancelled[r] \/ gen[r] <= enforced[ip[r]]

PolicyInv == GenInv /\ OwnInv /\ BoundInv /\ GateInv

KeyInv ==
  /\ \A r \in Requests : td[r] \in TdListed => sandboxes[KeyOf[r]] = r
  /\ \A r \in Requests : pc[r] = "registered" => sandboxes[KeyOf[r]] = r
  /\ \A r \in Requests : pc[r] \in PcUnlisted => sandboxes[KeyOf[r]] = NoReq
  /\ \A q, r \in Requests : InFlight(q) /\ InFlight(r) /\ KeyOf[q] = KeyOf[r] => q = r
  /\ \A r \in Requests :
       pc[r] \in PcWired \/ td[r] \in TdListed \ {"treeless"} => tree[KeyOf[r]] = r

DurableInv ==
  /\ ~world.drainLapses => \A r \in Requests : td[r] \in TdDrained => r \in durable
  /\ \A d \in Deletes : dPc[d] \in {"waiting", "ok"} => dTarget[d] \in Requests
  /\ ~world.drainLapses => \A d \in Deletes : dPc[d] = "ok" => dTarget[d] \in durable

IInv == TypeOK /\ CtlInv /\ SlotInv /\ RouteInv /\ PolicyInv /\ KeyInv /\ DurableInv

-----------------------------------------------------------------------------
\* What WorldAssumption says of the world of a behaviour.
LEMMA WorldFacts ==
  ASSUME CtlInv
  PROVE  /\ KeyOf \in [Requests -> Keys] /\ world.requests \subseteq Requests
         /\ world.addrs \subseteq Addrs /\ world.applies \in Nat
  BY WorldAssumption DEF CtlInv, World, KeyOf

\* Requests that hold slots have different addresses.
LEMMA AddressesDiffer ==
  ASSUME SlotInv, NEW q \in Requests, NEW r \in Requests, q # r,
         Owns(q, PcClaimed, TdBeforeRelease) \/ Owns(q, PcPolicied, TdBeforeClear)
           \/ Owns(q, PcRouted, TdBeforeUnroute),
         Owns(r, PcClaimed, TdBeforeRelease)
  PROVE  ip[q] # ip[r]
  <1>1. Owns(q, PcClaimed, TdBeforeRelease)
    BY DEF Owns, PcRouted, PcPolicied, PcClaimed, TdBeforeClear, TdBeforeRelease
  <1>2. ip[r] \in Addrs /\ holder[q] = ip[q] /\ holder[r] = ip[r]
    BY <1>1 DEF SlotInv, Owns
  <1>. QED  BY <1>2, NameAssumption DEF SlotInv

\* A write to a policy.
LEMMA WriteFacts ==
  ASSUME TypeOK, NEW a \in Addrs, NEW w \in Requests \union {NoReq}, SetEgress(a, w)
  PROVE  /\ Len(writes[a]) \in Nat /\ Len(writes'[a]) = Len(writes[a]) + 1
         /\ writes'[a][Len(writes[a]) + 1] = w
         /\ \A n \in 1..Len(writes[a]) : writes'[a][n] = writes[a][n]
         /\ \A b \in Addrs : b # a => writes'[b] = writes[b]
         /\ \A b \in Addrs : Len(writes[b]) \in Nat /\ Len(writes'[b]) \in Nat
                              /\ Len(writes[b]) <= Len(writes'[b])
  <1>1. writes \in [Addrs -> Seq(Requests \union {NoReq})]
    BY DEF TypeOK
  <1>2. writes'[a] = Append(writes[a], w) /\ \A b \in Addrs : b # a => writes'[b] = writes[b]
    BY <1>1 DEF SetEgress
  <1>3. \A b \in Addrs : writes[b] \in Seq(Requests \union {NoReq}) /\ Len(writes[b]) \in Nat
    BY <1>1
  <1>4. /\ Len(writes'[a]) = Len(writes[a]) + 1 /\ writes'[a][Len(writes[a]) + 1] = w
        /\ \A n \in 1..Len(writes[a]) : writes'[a][n] = writes[a][n]
    BY <1>2, <1>3
  <1>. QED  BY <1>2, <1>3, <1>4

LEMMA GenGrows ==
  ASSUME TypeOK, GenInv, NEW a \in Addrs, NEW w \in Requests \union {NoReq}, SetEgress(a, w),
         UNCHANGED <<ip, gen>>,
         \A r \in Requests : pc[r] \in PcClaimed \/ td[r] # "none" => ip[r] \in Addrs,
         \A q \in Requests : Owns(q, PcPolicied, TdBeforeClear)' => Owns(q, PcPolicied, TdBeforeClear)
  PROVE  GenInv'
  <1>1. ASSUME NEW q \in Requests, Owns(q, PcPolicied, TdBeforeClear)'
        PROVE  gen[q] \in 1..Len(writes'[ip[q]])
    <2>1. Owns(q, PcPolicied, TdBeforeClear)
      BY <1>1
    <2>2. gen[q] \in 1..Len(writes[ip[q]]) /\ ip[q] \in Addrs
      BY <2>1 DEF GenInv, Owns, PcClaimed
    <2>3. Len(writes[ip[q]]) \in Nat /\ Len(writes'[ip[q]]) \in Nat
          /\ Len(writes[ip[q]]) <= Len(writes'[ip[q]])
      BY <2>2, WriteFacts
    <2>. QED  BY <2>2, <2>3
  <1>. QED  BY <1>1 DEF GenInv

\* Types.
LEMMA TypeStep ==
  ASSUME TypeOK, CtlInv, SlotInv, Next
  PROVE  TypeOK'
  <1>t. /\ KeyOf \in [Requests -> Keys] /\ world.addrs \subseteq Addrs /\ world.applies \in Nat
        /\ NoReq \notin Requests
        /\ \A r \in Requests : pc[r] \in PcClaimed \/ td[r] # "none" => ip[r] \in Addrs
    BY WorldFacts, NameAssumption DEF SlotInv
  <1>w. world' = world /\ KeyOf' = KeyOf
    BY DEF Next, KeyOf
  <1>0. CASE UNCHANGED <<world, pc, holder, ip, gen, cancelled, alive, ready, stopping, td, watcher, queue, applies, sandboxes, router, writes, enforced, tree, durable, dPc, dTarget, view>>
    BY <1>w, <1>0 DEF TypeOK, PcStates, TdStates
  <1>1. ASSUME NEW r \in Requests, Lookup(r) PROVE TypeOK'
    BY <1>t, <1>w, <1>1 DEF Lookup, Goto, sbVars, tdVars, applyVars, mapVars, netVars, delVars,
       TypeOK, PcStates, TdStates
  <1>2. ASSUME NEW r \in Requests, Admit(r) PROVE TypeOK'
    BY <1>t, <1>w, <1>2 DEF Admit, Step, Goto, sbVars, tdVars, applyVars, mapVars, netVars,
       delVars, TypeOK, PcStates, TdStates
  <1>3. ASSUME NEW r \in Requests, Abandon(r) PROVE TypeOK'
    BY <1>t, <1>w, <1>3 DEF Abandon, Step, Goto, sbVars, tdVars, applyVars, mapVars, netVars,
       delVars, TypeOK, PcStates, TdStates
  <1>4. ASSUME NEW r \in Requests, ClaimSlot(r) PROVE TypeOK'
    BY <1>t, <1>w, <1>4 DEF ClaimSlot, Step, Goto, sbVars, tdVars, applyVars, mapVars, netVars,
       delVars, Alloc!Acquire, TypeOK, PcStates, TdStates
  <1>5. ASSUME NEW r \in Requests, Wire(r) PROVE TypeOK'
    BY <1>t, <1>w, <1>5 DEF Wire, Step, Goto, sbVars, tdVars, applyVars, mapVars, netVars,
       delVars, TypeOK, PcStates, TdStates
  <1>6. ASSUME NEW r \in Requests, CreateSetEgress(r) PROVE TypeOK'
    <2>1. pc[r] = "wired" /\ SetEgress(ip[r], r) /\ ip[r] \in Addrs
      BY <1>t, <1>6 DEF CreateSetEgress, Step, PcClaimed
    <2>2. writes' \in [Addrs -> Seq(Requests \union {NoReq})] /\ Len(writes[ip[r]]) \in Nat
      BY <2>1 DEF SetEgress, TypeOK
    <2>3. gen' \in [Requests -> Nat]
      BY <2>2, <1>6 DEF CreateSetEgress, TypeOK
    <2>. QED
      BY <1>w, <2>2, <2>3, <1>6 DEF CreateSetEgress, Step, Goto, sbVars, tdVars, applyVars, mapVars,
         delVars, TypeOK, PcStates
  <1>7. ASSUME NEW r \in Requests, RouterRegister(r) PROVE TypeOK'
    BY <1>t, <1>w, <1>7 DEF RouterRegister, Step, Goto, sbVars, tdVars, applyVars, mapVars,
       delVars, TypeOK, PcStates, TdStates
  <1>8. ASSUME NEW r \in Requests, Launch(r) PROVE TypeOK'
    BY <1>t, <1>w, <1>8 DEF Launch, Step, Goto, tdVars, applyVars, mapVars, netVars, delVars,
       TypeOK, PcStates, TdStates
  <1>9. ASSUME NEW r \in Requests, FailEarly(r) PROVE TypeOK'
    BY <1>t, <1>w, <1>9 DEF FailEarly, Goto, tdVars, applyVars, mapVars, netVars, delVars,
       Alloc!Return, TypeOK, PcStates, TdStates
  <1>10. ASSUME NEW r \in Requests, Register(r) PROVE TypeOK'
    BY <1>t, <1>w, <1>10 DEF Register, Step, Goto, sbVars, tdVars, applyVars, netVars, delVars,
       TypeOK, PcStates, TdStates
  <1>11. ASSUME NEW r \in Requests, Announce(r) PROVE TypeOK'
    BY <1>t, <1>w, <1>11 DEF Announce, Step, Publish, Goto, sbVars, applyVars, netVars, delVars,
       TypeOK, PcStates, TdStates
  <1>12. ASSUME NEW r \in Requests, WaitReady(r) PROVE TypeOK'
    BY <1>t, <1>w, <1>12 DEF WaitReady, Goto, tdVars, applyVars, mapVars, netVars, delVars,
       TypeOK, PcStates, TdStates
  <1>13. ASSUME NEW r \in Requests, WaitApplied(r) PROVE TypeOK'
    BY <1>t, <1>w, <1>13 DEF WaitApplied, Step, Goto, sbVars, tdVars, applyVars, mapVars, netVars,
       delVars, TypeOK, PcStates, TdStates
  <1>14. ASSUME NEW r \in Requests, NotifyReady(r) PROVE TypeOK'
    BY <1>t, <1>w, <1>14 DEF NotifyReady, Step, Goto, tdVars, applyVars, mapVars, netVars,
       delVars, TypeOK, PcStates, TdStates
  <1>15. ASSUME NEW r \in Requests, FinishCreate(r) PROVE TypeOK'
    BY <1>t, <1>w, <1>15 DEF FinishCreate, Step, Publish, Goto, sbVars, tdVars, netVars, delVars,
       TypeOK, PcStates, TdStates
  <1>16. ASSUME NEW r \in Requests, AgentExit(r) PROVE TypeOK'
    BY <1>t, <1>w, <1>16 DEF AgentExit, createVars, tdVars, applyVars, mapVars, netVars, delVars,
       TypeOK, PcStates, TdStates
  <1>17. ASSUME NEW r \in Requests, Expire(r) PROVE TypeOK'
    BY <1>t, <1>w, <1>17 DEF Expire, createVars, tdVars, applyVars, mapVars, netVars, delVars,
       TypeOK, PcStates, TdStates
  <1>18. ASSUME NEW r \in Requests, TdWake(r) PROVE TypeOK'
    BY <1>t, <1>w, <1>18 DEF TdWake, TdStep, Publish, createVars, applyVars, netVars, delVars,
       TypeOK, PcStates, TdStates
  <1>19. ASSUME NEW r \in Requests, TdStopAgent(r) PROVE TypeOK'
    BY <1>t, <1>w, <1>19 DEF TdStopAgent, TdStep, createVars, applyVars, mapVars, netVars,
       delVars, TypeOK, PcStates, TdStates
  <1>20. ASSUME NEW r \in Requests, TdDrain(r) PROVE TypeOK'
    BY <1>t, <1>w, <1>20 DEF TdDrain, TdStep, createVars, sbVars, applyVars, mapVars, netVars,
       delVars, TypeOK, PcStates, TdStates
  <1>21. ASSUME NEW r \in Requests, TdFlushed(r) PROVE TypeOK'
    BY <1>t, <1>w, <1>21 DEF TdFlushed, TdStep, createVars, sbVars, applyVars, mapVars, netVars,
       delVars, TypeOK, PcStates, TdStates
  <1>22. ASSUME NEW r \in Requests, TdUnroute(r) PROVE TypeOK'
    BY <1>t, <1>w, <1>22 DEF TdUnroute, TdStep, createVars, sbVars, applyVars, mapVars, delVars,
       TypeOK, PcStates, TdStates
  <1>23. ASSUME NEW r \in Requests, TdClearEgress(r) PROVE TypeOK'
    BY <1>t, <1>w, <1>23 DEF TdClearEgress, TdStep, SetEgress, createVars, sbVars, applyVars,
       mapVars, delVars, TypeOK, PcStates, TdStates
  <1>24. ASSUME NEW r \in Requests, TdReleaseSlot(r) PROVE TypeOK'
    BY <1>t, <1>w, <1>24 DEF TdReleaseSlot, TdStep, createVars, sbVars, applyVars, mapVars,
       netVars, delVars, Alloc!Return, TypeOK, PcStates, TdStates
  <1>25. ASSUME NEW r \in Requests, TdClearTree(r) PROVE TypeOK'
    BY <1>t, <1>w, <1>25 DEF TdClearTree, TdStep, createVars, sbVars, applyVars, mapVars, netVars,
       delVars, TypeOK, PcStates, TdStates
  <1>26. ASSUME NEW r \in Requests, TdUnlist(r) PROVE TypeOK'
    BY <1>t, <1>w, <1>26 DEF TdUnlist, TdStep, createVars, sbVars, applyVars, netVars, delVars,
       TypeOK, PcStates, TdStates
  <1>27. ASSUME NEW r \in Requests, TdStopped(r) PROVE TypeOK'
    BY <1>t, <1>w, <1>27 DEF TdStopped, TdStep, Publish, createVars, sbVars, applyVars, netVars,
       delVars, TypeOK, PcStates, TdStates
  <1>28. ASSUME NEW d \in Deletes, NEW k \in Keys, Delete(d, k) PROVE TypeOK'
    BY <1>t, <1>w, <1>28 DEF Delete, createVars, tdVars, applyVars, mapVars, netVars, TypeOK,
       PcStates, TdStates
  <1>29. ASSUME NEW d \in Deletes, DeleteOk(d) PROVE TypeOK'
    BY <1>t, <1>w, <1>29 DEF DeleteOk, createVars, sbVars, tdVars, applyVars, mapVars, netVars,
       TypeOK, PcStates, TdStates
  <1>30. ASSUME NEW d \in Deletes, DeleteGivesUp(d) PROVE TypeOK'
    BY <1>t, <1>w, <1>30 DEF DeleteGivesUp, createVars, sbVars, tdVars, applyVars, mapVars,
       netVars, TypeOK, PcStates, TdStates
  <1>31. ASSUME NEW r \in Requests, ApplyConfig(r) PROVE TypeOK'
    BY <1>t, <1>w, <1>31 DEF ApplyConfig, createVars, sbVars, tdVars, mapVars, netVars, delVars,
       TypeOK, PcStates, TdStates
  <1>32. ASSUME NEW r \in Requests, WatcherTake(r) PROVE TypeOK'
    BY <1>t, <1>w, <1>32 DEF WatcherTake, createVars, sbVars, tdVars, mapVars, netVars, delVars,
       TypeOK, PcStates, TdStates
  <1>33. ASSUME NEW r \in Requests, WatcherExit(r) PROVE TypeOK'
    BY <1>t, <1>w, <1>33 DEF WatcherExit, createVars, sbVars, tdVars, mapVars, netVars, delVars,
       TypeOK, PcStates, TdStates
  <1>34. ASSUME NEW r \in Requests, WatcherReconcile(r) PROVE TypeOK'
    <2>1. SetEgress(ip[r], r) /\ ip[r] \in Addrs
      BY <1>t, <1>34 DEF WatcherReconcile, CtlInv, PcClaimed, PcPolicied, PcRouted, PcLaunched, PcAnnounced
    <2>2. writes' \in [Addrs -> Seq(Requests \union {NoReq})]
      BY <2>1 DEF SetEgress, TypeOK
    <2>. QED
      BY <1>w, <2>2, <1>34 DEF WatcherReconcile, createVars, sbVars, tdVars, mapVars, delVars, TypeOK
  <1>35. ASSUME NEW a \in Addrs, Reload(a) PROVE TypeOK'
    BY <1>t, <1>w, <1>35 DEF Reload, createVars, sbVars, tdVars, applyVars, mapVars, delVars,
       TypeOK, PcStates, TdStates
  <1>. QED  BY <1>0, <1>1, <1>2, <1>3, <1>4, <1>5, <1>6, <1>7, <1>8, <1>9, <1>10, <1>11, <1>12, <1>13,
       <1>14, <1>15, <1>16, <1>17, <1>18, <1>19, <1>20, <1>21, <1>22, <1>23, <1>24, <1>25, <1>26,
       <1>27, <1>28, <1>29, <1>30, <1>31, <1>32, <1>33, <1>34, <1>35 DEF Next, PodStep,
       CreateStep, Teardown, Watcher

\* Where create, teardown, workload and watcher can be at once.
LEMMA CtlStep ==
  ASSUME TypeOK, CtlInv, Next
  PROVE  CtlInv'
  <1>t. /\ pc \in [Requests -> PcStates] /\ td \in [Requests -> TdStates]
        /\ alive \in [Requests -> BOOLEAN] /\ ready \in [Requests -> BOOLEAN]
        /\ watcher \in [Requests -> {"off", "on", "got"}] /\ queue \in [Requests -> Nat]
        /\ applies \in Nat /\ world.applies \in Nat
    BY WorldFacts DEF TypeOK
  <1>w. world' = world /\ KeyOf' = KeyOf
    BY DEF Next, KeyOf
  <1>0. CASE UNCHANGED <<world, pc, td, alive, ready, watcher, queue>>
    BY <1>w, <1>0 DEF CtlInv, PcAnnounced, PcLaunched
  <1>1. ASSUME NEW r \in Requests, Lookup(r) PROVE CtlInv'
    BY <1>t, <1>w, <1>1 DEF Lookup, Goto, sbVars, tdVars, applyVars, mapVars, netVars, delVars,
       CtlInv, PcAnnounced, PcLaunched
  <1>2. ASSUME NEW r \in Requests, Admit(r) PROVE CtlInv'
    BY <1>t, <1>w, <1>2 DEF Admit, Step, Goto, sbVars, tdVars, applyVars, mapVars, netVars,
       delVars, CtlInv, PcAnnounced, PcLaunched
  <1>3. ASSUME NEW r \in Requests, Abandon(r) PROVE CtlInv'
    BY <1>t, <1>w, <1>3 DEF Abandon, Step, Goto, sbVars, tdVars, applyVars, mapVars, netVars,
       delVars, CtlInv, PcAnnounced, PcLaunched
  <1>4. ASSUME NEW r \in Requests, ClaimSlot(r) PROVE CtlInv'
    BY <1>t, <1>w, <1>4 DEF ClaimSlot, Step, Goto, sbVars, tdVars, applyVars, mapVars, netVars,
       delVars, Alloc!Acquire, CtlInv, PcAnnounced, PcLaunched
  <1>5. ASSUME NEW r \in Requests, Wire(r) PROVE CtlInv'
    BY <1>t, <1>w, <1>5 DEF Wire, Step, Goto, sbVars, tdVars, applyVars, mapVars, netVars,
       delVars, CtlInv, PcAnnounced, PcLaunched
  <1>6. ASSUME NEW r \in Requests, CreateSetEgress(r) PROVE CtlInv'
    BY <1>t, <1>w, <1>6 DEF CreateSetEgress, Step, SetEgress, Goto, sbVars, tdVars, applyVars,
       mapVars, delVars, CtlInv, PcAnnounced, PcLaunched
  <1>7. ASSUME NEW r \in Requests, RouterRegister(r) PROVE CtlInv'
    BY <1>t, <1>w, <1>7 DEF RouterRegister, Step, Goto, sbVars, tdVars, applyVars, mapVars,
       delVars, CtlInv, PcAnnounced, PcLaunched
  <1>8. ASSUME NEW r \in Requests, Launch(r) PROVE CtlInv'
    BY <1>t, <1>w, <1>8 DEF Launch, Step, Goto, tdVars, applyVars, mapVars, netVars, delVars,
       CtlInv, PcAnnounced, PcLaunched
  <1>9. ASSUME NEW r \in Requests, FailEarly(r) PROVE CtlInv'
    BY <1>t, <1>w, <1>9 DEF FailEarly, Goto, tdVars, applyVars, mapVars, netVars, delVars,
       Alloc!Return, CtlInv, PcAnnounced, PcLaunched
  <1>10. ASSUME NEW r \in Requests, Register(r) PROVE CtlInv'
    BY <1>t, <1>w, <1>10 DEF Register, Step, Goto, sbVars, tdVars, applyVars, netVars, delVars,
       CtlInv, PcAnnounced, PcLaunched
  <1>11. ASSUME NEW r \in Requests, Announce(r) PROVE CtlInv'
    BY <1>t, <1>w, <1>11 DEF Announce, Step, Publish, Goto, sbVars, applyVars, netVars, delVars,
       CtlInv, PcAnnounced, PcLaunched
  <1>12. ASSUME NEW r \in Requests, WaitReady(r) PROVE CtlInv'
    BY <1>t, <1>w, <1>12 DEF WaitReady, Goto, tdVars, applyVars, mapVars, netVars, delVars,
       CtlInv, PcAnnounced, PcLaunched
  <1>13. ASSUME NEW r \in Requests, WaitApplied(r) PROVE CtlInv'
    BY <1>t, <1>w, <1>13 DEF WaitApplied, Step, Goto, sbVars, tdVars, applyVars, mapVars, netVars,
       delVars, CtlInv, PcAnnounced, PcLaunched
  <1>14. ASSUME NEW r \in Requests, NotifyReady(r) PROVE CtlInv'
    BY <1>t, <1>w, <1>14 DEF NotifyReady, Step, Goto, tdVars, applyVars, mapVars, netVars,
       delVars, CtlInv, PcAnnounced, PcLaunched
  <1>15. ASSUME NEW r \in Requests, FinishCreate(r) PROVE CtlInv'
    BY <1>t, <1>w, <1>15 DEF FinishCreate, Step, Publish, Goto, sbVars, tdVars, netVars, delVars,
       CtlInv, PcAnnounced, PcLaunched
  <1>16. ASSUME NEW r \in Requests, AgentExit(r) PROVE CtlInv'
    BY <1>t, <1>w, <1>16 DEF AgentExit, createVars, tdVars, applyVars, mapVars, netVars, delVars,
       CtlInv, PcAnnounced, PcLaunched
  <1>17. ASSUME NEW r \in Requests, TdWake(r) PROVE CtlInv'
    BY <1>t, <1>w, <1>17 DEF TdWake, TdStep, Publish, createVars, applyVars, netVars, delVars,
       CtlInv, PcAnnounced, PcLaunched
  <1>18. ASSUME NEW r \in Requests, TdStopAgent(r) PROVE CtlInv'
    BY <1>t, <1>w, <1>18 DEF TdStopAgent, TdStep, createVars, applyVars, mapVars, netVars,
       delVars, CtlInv, PcAnnounced, PcLaunched
  <1>19. ASSUME NEW r \in Requests, TdDrain(r) PROVE CtlInv'
    BY <1>t, <1>w, <1>19 DEF TdDrain, TdStep, createVars, sbVars, applyVars, mapVars, netVars,
       delVars, CtlInv, PcAnnounced, PcLaunched
  <1>20. ASSUME NEW r \in Requests, TdFlushed(r) PROVE CtlInv'
    BY <1>t, <1>w, <1>20 DEF TdFlushed, TdStep, createVars, sbVars, applyVars, mapVars, netVars,
       delVars, CtlInv, PcAnnounced, PcLaunched
  <1>21. ASSUME NEW r \in Requests, TdUnroute(r) PROVE CtlInv'
    BY <1>t, <1>w, <1>21 DEF TdUnroute, TdStep, createVars, sbVars, applyVars, mapVars, delVars,
       CtlInv, PcAnnounced, PcLaunched
  <1>22. ASSUME NEW r \in Requests, TdClearEgress(r) PROVE CtlInv'
    BY <1>t, <1>w, <1>22 DEF TdClearEgress, TdStep, SetEgress, createVars, sbVars, applyVars,
       mapVars, delVars, CtlInv, PcAnnounced, PcLaunched
  <1>23. ASSUME NEW r \in Requests, TdReleaseSlot(r) PROVE CtlInv'
    BY <1>t, <1>w, <1>23 DEF TdReleaseSlot, TdStep, createVars, sbVars, applyVars, mapVars,
       netVars, delVars, Alloc!Return, CtlInv, PcAnnounced, PcLaunched
  <1>24. ASSUME NEW r \in Requests, TdClearTree(r) PROVE CtlInv'
    BY <1>t, <1>w, <1>24 DEF TdClearTree, TdStep, createVars, sbVars, applyVars, mapVars, netVars,
       delVars, CtlInv, PcAnnounced, PcLaunched
  <1>25. ASSUME NEW r \in Requests, TdUnlist(r) PROVE CtlInv'
    BY <1>t, <1>w, <1>25 DEF TdUnlist, TdStep, createVars, sbVars, applyVars, netVars, delVars,
       CtlInv, PcAnnounced, PcLaunched
  <1>26. ASSUME NEW r \in Requests, TdStopped(r) PROVE CtlInv'
    BY <1>t, <1>w, <1>26 DEF TdStopped, TdStep, Publish, createVars, sbVars, applyVars, netVars,
       delVars, CtlInv, PcAnnounced, PcLaunched
  <1>27. ASSUME NEW r \in Requests, ApplyConfig(r) PROVE CtlInv'
    BY <1>t, <1>w, <1>27 DEF ApplyConfig, createVars, sbVars, tdVars, mapVars, netVars, delVars,
       CtlInv, PcAnnounced, PcLaunched
  <1>28. ASSUME NEW r \in Requests, WatcherTake(r) PROVE CtlInv'
    BY <1>t, <1>w, <1>28 DEF WatcherTake, createVars, sbVars, tdVars, mapVars, netVars, delVars,
       CtlInv, PcAnnounced, PcLaunched
  <1>29. ASSUME NEW r \in Requests, WatcherExit(r) PROVE CtlInv'
    BY <1>t, <1>w, <1>29 DEF WatcherExit, createVars, sbVars, tdVars, mapVars, netVars, delVars,
       CtlInv, PcAnnounced, PcLaunched
  <1>30. ASSUME NEW r \in Requests, WatcherReconcile(r) PROVE CtlInv'
    BY <1>t, <1>w, <1>30 DEF WatcherReconcile, SetEgress, createVars, sbVars, tdVars, mapVars,
       delVars, CtlInv, PcAnnounced, PcLaunched
  <1>31. ASSUME NEW r \in Requests,
               Expire(r)
        PROVE  CtlInv'
    BY <1>w, <1>0, <1>31 DEF Expire, createVars, tdVars, applyVars, mapVars, netVars, delVars
  <1>32. ASSUME NEW d \in Deletes, NEW k \in Keys,
               Delete(d, k)
        PROVE  CtlInv'
    BY <1>w, <1>0, <1>32 DEF Delete, createVars, tdVars, applyVars, mapVars, netVars
  <1>33. ASSUME NEW d \in Deletes,
               DeleteOk(d) \/ DeleteGivesUp(d)
        PROVE  CtlInv'
    BY <1>w, <1>0, <1>33 DEF DeleteOk, createVars, sbVars, tdVars, applyVars, mapVars, netVars,
       DeleteGivesUp
  <1>34. ASSUME NEW a \in Addrs,
               Reload(a)
        PROVE  CtlInv'
    BY <1>w, <1>0, <1>34 DEF Reload, createVars, sbVars, tdVars, applyVars, mapVars, delVars
  <1>. QED  BY <1>0, <1>1, <1>2, <1>3, <1>4, <1>5, <1>6, <1>7, <1>8, <1>9, <1>10, <1>11, <1>12, <1>13,
       <1>14, <1>15, <1>16, <1>17, <1>18, <1>19, <1>20, <1>21, <1>22, <1>23, <1>24, <1>25, <1>26,
       <1>27, <1>28, <1>29, <1>30, <1>31, <1>32, <1>33, <1>34 DEF Next, PodStep, CreateStep,
       Teardown, Watcher

\* The slot.
LEMMA SlotStep ==
  ASSUME TypeOK, CtlInv, SlotInv, Next
  PROVE  SlotInv'
  <1>t. /\ pc \in [Requests -> PcStates] /\ td \in [Requests -> TdStates]
        /\ ip \in [Requests -> Addrs \union {0}] /\ holder \in [Requests -> Addrs \union {0}]
        /\ world.addrs \subseteq Addrs /\ 0 \notin Addrs
        /\ \A r \in Requests : td[r] # "none" => pc[r] \in PcAnnounced \union {"failed"}
    BY WorldFacts, NameAssumption DEF TypeOK, CtlInv
  <1>w. world' = world /\ KeyOf' = KeyOf
    BY DEF Next, KeyOf
  <1>0. CASE UNCHANGED <<pc, td, ip, holder>>
    BY <1>w, <1>0 DEF SlotInv, Owns, PcAnnounced, PcLaunched, PcRouted, PcPolicied, PcClaimed,
       TdBeforeUnroute, TdBeforeClear, TdBeforeRelease
  <1>1. ASSUME NEW r \in Requests, Lookup(r) PROVE SlotInv'
    BY <1>t, <1>w, <1>1 DEF Lookup, Goto, sbVars, tdVars, applyVars, mapVars, netVars, delVars,
       SlotInv, Owns, PcAnnounced, PcLaunched, PcRouted, PcPolicied, PcClaimed, TdBeforeUnroute,
       TdBeforeClear, TdBeforeRelease
  <1>2. ASSUME NEW r \in Requests, Admit(r) PROVE SlotInv'
    BY <1>t, <1>w, <1>2 DEF Admit, Step, Goto, sbVars, tdVars, applyVars, mapVars, netVars,
       delVars, SlotInv, Owns, PcAnnounced, PcLaunched, PcRouted, PcPolicied, PcClaimed,
       TdBeforeUnroute, TdBeforeClear, TdBeforeRelease
  <1>3. ASSUME NEW r \in Requests, Abandon(r) PROVE SlotInv'
    BY <1>t, <1>w, <1>3 DEF Abandon, Step, Goto, sbVars, tdVars, applyVars, mapVars, netVars,
       delVars, SlotInv, Owns, PcAnnounced, PcLaunched, PcRouted, PcPolicied, PcClaimed,
       TdBeforeUnroute, TdBeforeClear, TdBeforeRelease
  <1>4. ASSUME NEW r \in Requests, ClaimSlot(r) PROVE SlotInv'
    BY <1>t, <1>w, <1>4 DEF ClaimSlot, Step, Goto, sbVars, tdVars, applyVars, mapVars, netVars,
       delVars, Alloc!Acquire, SlotInv, Owns, PcAnnounced, PcLaunched, PcRouted, PcPolicied,
       PcClaimed, TdBeforeUnroute, TdBeforeClear, TdBeforeRelease
  <1>5. ASSUME NEW r \in Requests, Wire(r) PROVE SlotInv'
    BY <1>t, <1>w, <1>5 DEF Wire, Step, Goto, sbVars, tdVars, applyVars, mapVars, netVars,
       delVars, SlotInv, Owns, PcAnnounced, PcLaunched, PcRouted, PcPolicied, PcClaimed,
       TdBeforeUnroute, TdBeforeClear, TdBeforeRelease
  <1>6. ASSUME NEW r \in Requests, CreateSetEgress(r) PROVE SlotInv'
    BY <1>t, <1>w, <1>6 DEF CreateSetEgress, Step, SetEgress, Goto, sbVars, tdVars, applyVars,
       mapVars, delVars, SlotInv, Owns, PcAnnounced, PcLaunched, PcRouted, PcPolicied, PcClaimed,
       TdBeforeUnroute, TdBeforeClear, TdBeforeRelease
  <1>7. ASSUME NEW r \in Requests, RouterRegister(r) PROVE SlotInv'
    BY <1>t, <1>w, <1>7 DEF RouterRegister, Step, Goto, sbVars, tdVars, applyVars, mapVars,
       delVars, SlotInv, Owns, PcAnnounced, PcLaunched, PcRouted, PcPolicied, PcClaimed,
       TdBeforeUnroute, TdBeforeClear, TdBeforeRelease
  <1>8. ASSUME NEW r \in Requests, Launch(r) PROVE SlotInv'
    BY <1>t, <1>w, <1>8 DEF Launch, Step, Goto, tdVars, applyVars, mapVars, netVars, delVars,
       SlotInv, Owns, PcAnnounced, PcLaunched, PcRouted, PcPolicied, PcClaimed, TdBeforeUnroute,
       TdBeforeClear, TdBeforeRelease
  <1>9. ASSUME NEW r \in Requests, FailEarly(r) PROVE SlotInv'
    BY <1>t, <1>w, <1>9 DEF FailEarly, Goto, tdVars, applyVars, mapVars, netVars, delVars,
       Alloc!Return, SlotInv, Owns, PcAnnounced, PcLaunched, PcRouted, PcPolicied, PcClaimed,
       TdBeforeUnroute, TdBeforeClear, TdBeforeRelease
  <1>10. ASSUME NEW r \in Requests, Register(r) PROVE SlotInv'
    BY <1>t, <1>w, <1>10 DEF Register, Step, Goto, sbVars, tdVars, applyVars, netVars, delVars,
       SlotInv, Owns, PcAnnounced, PcLaunched, PcRouted, PcPolicied, PcClaimed, TdBeforeUnroute,
       TdBeforeClear, TdBeforeRelease
  <1>11. ASSUME NEW r \in Requests, Announce(r) PROVE SlotInv'
    BY <1>t, <1>w, <1>11 DEF Announce, Step, Publish, Goto, sbVars, applyVars, netVars, delVars,
       SlotInv, Owns, PcAnnounced, PcLaunched, PcRouted, PcPolicied, PcClaimed, TdBeforeUnroute,
       TdBeforeClear, TdBeforeRelease
  <1>12. ASSUME NEW r \in Requests, WaitReady(r) PROVE SlotInv'
    <2>1. PICK to \in {"up", "failed"} : pc' = [pc EXCEPT ![r] = to]
      BY <1>12 DEF WaitReady, Goto
    <2>2. pc[r] = "announced" /\ UNCHANGED <<td, ip, holder>>
      BY <1>12 DEF WaitReady, tdVars
    <2>3. td[r] # "none"
      BY <2>2 DEF CtlInv, PcAnnounced
    <2>. QED
      BY <1>t, <2>1, <2>2, <2>3 DEF SlotInv, Owns, PcAnnounced, PcLaunched, PcRouted, PcPolicied, PcClaimed
  <1>13. ASSUME NEW r \in Requests, WaitApplied(r) PROVE SlotInv'
    BY <1>t, <1>w, <1>13 DEF WaitApplied, Step, Goto, sbVars, tdVars, applyVars, mapVars, netVars,
       delVars, SlotInv, Owns, PcAnnounced, PcLaunched, PcRouted, PcPolicied, PcClaimed,
       TdBeforeUnroute, TdBeforeClear, TdBeforeRelease
  <1>14. ASSUME NEW r \in Requests, NotifyReady(r) PROVE SlotInv'
    BY <1>t, <1>w, <1>14 DEF NotifyReady, Step, Goto, tdVars, applyVars, mapVars, netVars,
       delVars, SlotInv, Owns, PcAnnounced, PcLaunched, PcRouted, PcPolicied, PcClaimed,
       TdBeforeUnroute, TdBeforeClear, TdBeforeRelease
  <1>15. ASSUME NEW r \in Requests, FinishCreate(r) PROVE SlotInv'
    BY <1>t, <1>w, <1>15 DEF FinishCreate, Step, Publish, Goto, sbVars, tdVars, netVars, delVars,
       SlotInv, Owns, PcAnnounced, PcLaunched, PcRouted, PcPolicied, PcClaimed, TdBeforeUnroute,
       TdBeforeClear, TdBeforeRelease
  <1>16. ASSUME NEW r \in Requests, TdWake(r) PROVE SlotInv'
    BY <1>t, <1>w, <1>16 DEF TdWake, TdStep, Publish, createVars, applyVars, netVars, delVars,
       SlotInv, Owns, PcAnnounced, PcLaunched, PcRouted, PcPolicied, PcClaimed, TdBeforeUnroute,
       TdBeforeClear, TdBeforeRelease
  <1>17. ASSUME NEW r \in Requests, TdStopAgent(r) PROVE SlotInv'
    BY <1>t, <1>w, <1>17 DEF TdStopAgent, TdStep, createVars, applyVars, mapVars, netVars,
       delVars, SlotInv, Owns, PcAnnounced, PcLaunched, PcRouted, PcPolicied, PcClaimed,
       TdBeforeUnroute, TdBeforeClear, TdBeforeRelease
  <1>18. ASSUME NEW r \in Requests, TdDrain(r) PROVE SlotInv'
    BY <1>t, <1>w, <1>18 DEF TdDrain, TdStep, createVars, sbVars, applyVars, mapVars, netVars,
       delVars, SlotInv, Owns, PcAnnounced, PcLaunched, PcRouted, PcPolicied, PcClaimed,
       TdBeforeUnroute, TdBeforeClear, TdBeforeRelease
  <1>19. ASSUME NEW r \in Requests, TdFlushed(r) PROVE SlotInv'
    BY <1>t, <1>w, <1>19 DEF TdFlushed, TdStep, createVars, sbVars, applyVars, mapVars, netVars,
       delVars, SlotInv, Owns, PcAnnounced, PcLaunched, PcRouted, PcPolicied, PcClaimed,
       TdBeforeUnroute, TdBeforeClear, TdBeforeRelease
  <1>20. ASSUME NEW r \in Requests, TdUnroute(r) PROVE SlotInv'
    BY <1>t, <1>w, <1>20 DEF TdUnroute, TdStep, createVars, sbVars, applyVars, mapVars, delVars,
       SlotInv, Owns, PcAnnounced, PcLaunched, PcRouted, PcPolicied, PcClaimed, TdBeforeUnroute,
       TdBeforeClear, TdBeforeRelease
  <1>21. ASSUME NEW r \in Requests, TdClearEgress(r) PROVE SlotInv'
    BY <1>t, <1>w, <1>21 DEF TdClearEgress, TdStep, SetEgress, createVars, sbVars, applyVars,
       mapVars, delVars, SlotInv, Owns, PcAnnounced, PcLaunched, PcRouted, PcPolicied, PcClaimed,
       TdBeforeUnroute, TdBeforeClear, TdBeforeRelease
  <1>22. ASSUME NEW r \in Requests, TdReleaseSlot(r) PROVE SlotInv'
    BY <1>t, <1>w, <1>22 DEF TdReleaseSlot, TdStep, createVars, sbVars, applyVars, mapVars,
       netVars, delVars, Alloc!Return, SlotInv, Owns, PcAnnounced, PcLaunched, PcRouted,
       PcPolicied, PcClaimed, TdBeforeUnroute, TdBeforeClear, TdBeforeRelease
  <1>23. ASSUME NEW r \in Requests, TdClearTree(r) PROVE SlotInv'
    BY <1>t, <1>w, <1>23 DEF TdClearTree, TdStep, createVars, sbVars, applyVars, mapVars, netVars,
       delVars, SlotInv, Owns, PcAnnounced, PcLaunched, PcRouted, PcPolicied, PcClaimed,
       TdBeforeUnroute, TdBeforeClear, TdBeforeRelease
  <1>24. ASSUME NEW r \in Requests, TdUnlist(r) PROVE SlotInv'
    BY <1>t, <1>w, <1>24 DEF TdUnlist, TdStep, createVars, sbVars, applyVars, netVars, delVars,
       SlotInv, Owns, PcAnnounced, PcLaunched, PcRouted, PcPolicied, PcClaimed, TdBeforeUnroute,
       TdBeforeClear, TdBeforeRelease
  <1>25. ASSUME NEW r \in Requests, TdStopped(r) PROVE SlotInv'
    BY <1>t, <1>w, <1>25 DEF TdStopped, TdStep, Publish, createVars, sbVars, applyVars, netVars,
       delVars, SlotInv, Owns, PcAnnounced, PcLaunched, PcRouted, PcPolicied, PcClaimed,
       TdBeforeUnroute, TdBeforeClear, TdBeforeRelease
  <1>26. ASSUME NEW r \in Requests,
               AgentExit(r) \/ Expire(r) \/ ApplyConfig(r) \/ WatcherTake(r) \/ WatcherExit(r)
               \/ WatcherReconcile(r)
        PROVE  SlotInv'
    BY <1>0, <1>26 DEF AgentExit, createVars, tdVars, applyVars, mapVars, netVars, delVars,
       Expire, ApplyConfig, sbVars, WatcherTake, WatcherExit, WatcherReconcile
  <1>27. ASSUME NEW d \in Deletes, NEW k \in Keys,
               Delete(d, k)
        PROVE  SlotInv'
    BY <1>0, <1>27 DEF Delete, createVars, tdVars, applyVars, mapVars, netVars
  <1>28. ASSUME NEW d \in Deletes,
               DeleteOk(d) \/ DeleteGivesUp(d)
        PROVE  SlotInv'
    BY <1>0, <1>28 DEF DeleteOk, createVars, sbVars, tdVars, applyVars, mapVars, netVars,
       DeleteGivesUp
  <1>29. ASSUME NEW a \in Addrs,
               Reload(a)
        PROVE  SlotInv'
    BY <1>0, <1>29 DEF Reload, createVars, sbVars, tdVars, applyVars, mapVars, delVars
  <1>. QED  BY <1>0, <1>1, <1>2, <1>3, <1>4, <1>5, <1>6, <1>7, <1>8, <1>9, <1>10, <1>11, <1>12, <1>13,
       <1>14, <1>15, <1>16, <1>17, <1>18, <1>19, <1>20, <1>21, <1>22, <1>23, <1>24, <1>25, <1>26,
       <1>27, <1>28, <1>29 DEF Next, PodStep, CreateStep, Teardown, Watcher

\* The route: two requests that have one hold their slots, so their addresses differ.
LEMMA RouteStep ==
  ASSUME TypeOK, CtlInv, SlotInv, RouteInv, Next
  PROVE  RouteInv'
  <1>t. /\ pc \in [Requests -> PcStates] /\ td \in [Requests -> TdStates]
        /\ ip \in [Requests -> Addrs \union {0}] /\ router \in [Addrs -> Requests \union {NoReq}]
        /\ \A r \in Requests : td[r] # "none" => pc[r] \in PcAnnounced \union {"failed"}
    BY DEF TypeOK, CtlInv
  <1>w. world' = world /\ KeyOf' = KeyOf
    BY DEF Next, KeyOf
  <1>0. CASE UNCHANGED <<pc, td, ip, router>>
    BY <1>w, <1>0 DEF RouteInv, SlotInv, Owns, PcAnnounced, PcLaunched, PcRouted, PcPolicied,
       PcClaimed, TdBeforeUnroute, TdBeforeClear, TdBeforeRelease
  <1>1. ASSUME NEW r \in Requests, Lookup(r) PROVE RouteInv'
    BY <1>t, <1>w, <1>1 DEF Lookup, Goto, sbVars, tdVars, applyVars, mapVars, netVars, delVars,
       RouteInv, SlotInv, Owns, PcAnnounced, PcLaunched, PcRouted, PcPolicied, PcClaimed,
       TdBeforeUnroute, TdBeforeClear, TdBeforeRelease
  <1>2. ASSUME NEW r \in Requests, Admit(r) PROVE RouteInv'
    BY <1>t, <1>w, <1>2 DEF Admit, Step, Goto, sbVars, tdVars, applyVars, mapVars, netVars,
       delVars, RouteInv, SlotInv, Owns, PcAnnounced, PcLaunched, PcRouted, PcPolicied, PcClaimed,
       TdBeforeUnroute, TdBeforeClear, TdBeforeRelease
  <1>3. ASSUME NEW r \in Requests, Abandon(r) PROVE RouteInv'
    BY <1>t, <1>w, <1>3 DEF Abandon, Step, Goto, sbVars, tdVars, applyVars, mapVars, netVars,
       delVars, RouteInv, SlotInv, Owns, PcAnnounced, PcLaunched, PcRouted, PcPolicied, PcClaimed,
       TdBeforeUnroute, TdBeforeClear, TdBeforeRelease
  <1>4. ASSUME NEW r \in Requests, ClaimSlot(r) PROVE RouteInv'
    BY <1>t, <1>w, <1>4 DEF ClaimSlot, Step, Goto, sbVars, tdVars, applyVars, mapVars, netVars,
       delVars, Alloc!Acquire, RouteInv, SlotInv, Owns, PcAnnounced, PcLaunched, PcRouted,
       PcPolicied, PcClaimed, TdBeforeUnroute, TdBeforeClear, TdBeforeRelease
  <1>5. ASSUME NEW r \in Requests, Wire(r) PROVE RouteInv'
    BY <1>t, <1>w, <1>5 DEF Wire, Step, Goto, sbVars, tdVars, applyVars, mapVars, netVars,
       delVars, RouteInv, SlotInv, Owns, PcAnnounced, PcLaunched, PcRouted, PcPolicied, PcClaimed,
       TdBeforeUnroute, TdBeforeClear, TdBeforeRelease
  <1>6. ASSUME NEW r \in Requests, CreateSetEgress(r) PROVE RouteInv'
    BY <1>t, <1>w, <1>6 DEF CreateSetEgress, Step, SetEgress, Goto, sbVars, tdVars, applyVars,
       mapVars, delVars, RouteInv, SlotInv, Owns, PcAnnounced, PcLaunched, PcRouted, PcPolicied,
       PcClaimed, TdBeforeUnroute, TdBeforeClear, TdBeforeRelease
  <1>7. ASSUME NEW r \in Requests, RouterRegister(r) PROVE RouteInv'
    <2>1. /\ pc[r] = "policied" /\ pc' = [pc EXCEPT ![r] = "routed"]
          /\ router' = [router EXCEPT ![ip[r]] = r] /\ UNCHANGED <<td, ip>>
      BY <1>7 DEF RouterRegister, Step, Goto, tdVars
    <2>2. td[r] = "none"
      BY <1>t, <2>1 DEF PcAnnounced
    <2>3. Owns(r, PcClaimed, TdBeforeRelease)
      BY <2>1, <2>2 DEF Owns, PcPolicied, PcClaimed, TdBeforeUnroute, TdBeforeClear, TdBeforeRelease
    <2>4. ASSUME NEW q \in Requests, Owns(q, PcRouted, TdBeforeUnroute)' PROVE router'[ip[q]] = q
      <3>1. CASE q = r
        BY <1>t, <2>1, <2>3, <3>1 DEF SlotInv, Owns
      <3>2. CASE q # r
        <4>1. Owns(q, PcRouted, TdBeforeUnroute)
          BY <1>t, <2>1, <2>4, <3>2 DEF Owns
        <4>2. ip[q] # ip[r]
          BY <2>3, <3>2, <4>1, AddressesDiffer
        <4>. QED  BY <1>t, <2>1, <4>1, <4>2 DEF RouteInv
      <3>. QED  BY <3>1, <3>2
    <2>. QED  BY <2>1, <2>4 DEF RouteInv
  <1>8. ASSUME NEW r \in Requests, Launch(r) PROVE RouteInv'
    BY <1>t, <1>w, <1>8 DEF Launch, Step, Goto, tdVars, applyVars, mapVars, netVars, delVars,
       RouteInv, SlotInv, Owns, PcAnnounced, PcLaunched, PcRouted, PcPolicied, PcClaimed,
       TdBeforeUnroute, TdBeforeClear, TdBeforeRelease
  <1>9. ASSUME NEW r \in Requests, FailEarly(r) PROVE RouteInv'
    BY <1>t, <1>w, <1>9 DEF FailEarly, Goto, tdVars, applyVars, mapVars, netVars, delVars,
       Alloc!Return, RouteInv, SlotInv, Owns, PcAnnounced, PcLaunched, PcRouted, PcPolicied,
       PcClaimed, TdBeforeUnroute, TdBeforeClear, TdBeforeRelease
  <1>10. ASSUME NEW r \in Requests, Register(r) PROVE RouteInv'
    BY <1>t, <1>w, <1>10 DEF Register, Step, Goto, sbVars, tdVars, applyVars, netVars, delVars,
       RouteInv, SlotInv, Owns, PcAnnounced, PcLaunched, PcRouted, PcPolicied, PcClaimed,
       TdBeforeUnroute, TdBeforeClear, TdBeforeRelease
  <1>11. ASSUME NEW r \in Requests, Announce(r) PROVE RouteInv'
    BY <1>t, <1>w, <1>11 DEF Announce, Step, Publish, Goto, sbVars, applyVars, netVars, delVars,
       RouteInv, SlotInv, Owns, PcAnnounced, PcLaunched, PcRouted, PcPolicied, PcClaimed,
       TdBeforeUnroute, TdBeforeClear, TdBeforeRelease
  <1>12. ASSUME NEW r \in Requests, WaitReady(r) PROVE RouteInv'
    BY <1>t, <1>w, <1>12 DEF WaitReady, Goto, tdVars, applyVars, mapVars, netVars, delVars,
       RouteInv, SlotInv, Owns, PcAnnounced, PcLaunched, PcRouted, PcPolicied, PcClaimed,
       TdBeforeUnroute, TdBeforeClear, TdBeforeRelease
  <1>13. ASSUME NEW r \in Requests, WaitApplied(r) PROVE RouteInv'
    BY <1>t, <1>w, <1>13 DEF WaitApplied, Step, Goto, sbVars, tdVars, applyVars, mapVars, netVars,
       delVars, RouteInv, SlotInv, Owns, PcAnnounced, PcLaunched, PcRouted, PcPolicied, PcClaimed,
       TdBeforeUnroute, TdBeforeClear, TdBeforeRelease
  <1>14. ASSUME NEW r \in Requests, NotifyReady(r) PROVE RouteInv'
    BY <1>t, <1>w, <1>14 DEF NotifyReady, Step, Goto, tdVars, applyVars, mapVars, netVars,
       delVars, RouteInv, SlotInv, Owns, PcAnnounced, PcLaunched, PcRouted, PcPolicied, PcClaimed,
       TdBeforeUnroute, TdBeforeClear, TdBeforeRelease
  <1>15. ASSUME NEW r \in Requests, FinishCreate(r) PROVE RouteInv'
    BY <1>t, <1>w, <1>15 DEF FinishCreate, Step, Publish, Goto, sbVars, tdVars, netVars, delVars,
       RouteInv, SlotInv, Owns, PcAnnounced, PcLaunched, PcRouted, PcPolicied, PcClaimed,
       TdBeforeUnroute, TdBeforeClear, TdBeforeRelease
  <1>16. ASSUME NEW r \in Requests, TdWake(r) PROVE RouteInv'
    BY <1>t, <1>w, <1>16 DEF TdWake, TdStep, Publish, createVars, applyVars, netVars, delVars,
       RouteInv, SlotInv, Owns, PcAnnounced, PcLaunched, PcRouted, PcPolicied, PcClaimed,
       TdBeforeUnroute, TdBeforeClear, TdBeforeRelease
  <1>17. ASSUME NEW r \in Requests, TdStopAgent(r) PROVE RouteInv'
    BY <1>t, <1>w, <1>17 DEF TdStopAgent, TdStep, createVars, applyVars, mapVars, netVars,
       delVars, RouteInv, SlotInv, Owns, PcAnnounced, PcLaunched, PcRouted, PcPolicied, PcClaimed,
       TdBeforeUnroute, TdBeforeClear, TdBeforeRelease
  <1>18. ASSUME NEW r \in Requests, TdDrain(r) PROVE RouteInv'
    BY <1>t, <1>w, <1>18 DEF TdDrain, TdStep, createVars, sbVars, applyVars, mapVars, netVars,
       delVars, RouteInv, SlotInv, Owns, PcAnnounced, PcLaunched, PcRouted, PcPolicied, PcClaimed,
       TdBeforeUnroute, TdBeforeClear, TdBeforeRelease
  <1>19. ASSUME NEW r \in Requests, TdFlushed(r) PROVE RouteInv'
    BY <1>t, <1>w, <1>19 DEF TdFlushed, TdStep, createVars, sbVars, applyVars, mapVars, netVars,
       delVars, RouteInv, SlotInv, Owns, PcAnnounced, PcLaunched, PcRouted, PcPolicied, PcClaimed,
       TdBeforeUnroute, TdBeforeClear, TdBeforeRelease
  <1>20. ASSUME NEW r \in Requests, TdUnroute(r) PROVE RouteInv'
    BY <1>t, <1>w, <1>20 DEF TdUnroute, TdStep, createVars, sbVars, applyVars, mapVars, delVars,
       RouteInv, SlotInv, Owns, PcAnnounced, PcLaunched, PcRouted, PcPolicied, PcClaimed,
       TdBeforeUnroute, TdBeforeClear, TdBeforeRelease
  <1>21. ASSUME NEW r \in Requests, TdClearEgress(r) PROVE RouteInv'
    BY <1>t, <1>w, <1>21 DEF TdClearEgress, TdStep, SetEgress, createVars, sbVars, applyVars,
       mapVars, delVars, RouteInv, SlotInv, Owns, PcAnnounced, PcLaunched, PcRouted, PcPolicied,
       PcClaimed, TdBeforeUnroute, TdBeforeClear, TdBeforeRelease
  <1>22. ASSUME NEW r \in Requests, TdReleaseSlot(r) PROVE RouteInv'
    BY <1>t, <1>w, <1>22 DEF TdReleaseSlot, TdStep, createVars, sbVars, applyVars, mapVars,
       netVars, delVars, Alloc!Return, RouteInv, SlotInv, Owns, PcAnnounced, PcLaunched, PcRouted,
       PcPolicied, PcClaimed, TdBeforeUnroute, TdBeforeClear, TdBeforeRelease
  <1>23. ASSUME NEW r \in Requests, TdClearTree(r) PROVE RouteInv'
    BY <1>t, <1>w, <1>23 DEF TdClearTree, TdStep, createVars, sbVars, applyVars, mapVars, netVars,
       delVars, RouteInv, SlotInv, Owns, PcAnnounced, PcLaunched, PcRouted, PcPolicied, PcClaimed,
       TdBeforeUnroute, TdBeforeClear, TdBeforeRelease
  <1>24. ASSUME NEW r \in Requests, TdUnlist(r) PROVE RouteInv'
    BY <1>t, <1>w, <1>24 DEF TdUnlist, TdStep, createVars, sbVars, applyVars, netVars, delVars,
       RouteInv, SlotInv, Owns, PcAnnounced, PcLaunched, PcRouted, PcPolicied, PcClaimed,
       TdBeforeUnroute, TdBeforeClear, TdBeforeRelease
  <1>25. ASSUME NEW r \in Requests, TdStopped(r) PROVE RouteInv'
    BY <1>t, <1>w, <1>25 DEF TdStopped, TdStep, Publish, createVars, sbVars, applyVars, netVars,
       delVars, RouteInv, SlotInv, Owns, PcAnnounced, PcLaunched, PcRouted, PcPolicied, PcClaimed,
       TdBeforeUnroute, TdBeforeClear, TdBeforeRelease
  <1>26. ASSUME NEW r \in Requests,
               AgentExit(r) \/ Expire(r) \/ ApplyConfig(r) \/ WatcherTake(r) \/ WatcherExit(r)
               \/ WatcherReconcile(r)
        PROVE  RouteInv'
    BY <1>0, <1>26 DEF AgentExit, createVars, tdVars, applyVars, mapVars, netVars, delVars,
       Expire, ApplyConfig, sbVars, WatcherTake, WatcherExit, WatcherReconcile
  <1>27. ASSUME NEW d \in Deletes, NEW k \in Keys,
               Delete(d, k)
        PROVE  RouteInv'
    BY <1>0, <1>27 DEF Delete, createVars, tdVars, applyVars, mapVars, netVars
  <1>28. ASSUME NEW d \in Deletes,
               DeleteOk(d) \/ DeleteGivesUp(d)
        PROVE  RouteInv'
    BY <1>0, <1>28 DEF DeleteOk, createVars, sbVars, tdVars, applyVars, mapVars, netVars,
       DeleteGivesUp
  <1>29. ASSUME NEW a \in Addrs,
               Reload(a)
        PROVE  RouteInv'
    BY <1>0, <1>29 DEF Reload, createVars, sbVars, tdVars, applyVars, mapVars, delVars
  <1>. QED  BY <1>0, <1>1, <1>2, <1>3, <1>4, <1>5, <1>6, <1>7, <1>8, <1>9, <1>10, <1>11, <1>12, <1>13,
       <1>14, <1>15, <1>16, <1>17, <1>18, <1>19, <1>20, <1>21, <1>22, <1>23, <1>24, <1>25, <1>26,
       <1>27, <1>28, <1>29 DEF Next, PodStep, CreateStep, Teardown, Watcher

\* The tenant's write is there: the writes of an address only grow.
LEMMA GenStep ==
  ASSUME TypeOK, CtlInv, SlotInv, GenInv, Next
  PROVE  GenInv'
  <1>t. /\ pc \in [Requests -> PcStates] /\ td \in [Requests -> TdStates]
        /\ ip \in [Requests -> Addrs \union {0}] /\ gen \in [Requests -> Nat]
        /\ \A r \in Requests : td[r] # "none" => pc[r] \in PcAnnounced \union {"failed"}
        /\ \A r \in Requests : pc[r] \in PcClaimed \/ td[r] # "none" => ip[r] \in Addrs
    BY DEF TypeOK, CtlInv, SlotInv
  <1>w. world' = world /\ KeyOf' = KeyOf
    BY DEF Next, KeyOf
  <1>0. CASE UNCHANGED <<pc, td, ip, gen, writes>>
    BY <1>w, <1>0 DEF GenInv, Owns, PcAnnounced, PcLaunched, PcRouted, PcPolicied, PcClaimed,
       TdBeforeUnroute, TdBeforeClear, TdBeforeRelease
  <1>1. ASSUME NEW r \in Requests, Lookup(r) PROVE GenInv'
    BY <1>t, <1>w, <1>1 DEF Lookup, Goto, sbVars, tdVars, applyVars, mapVars, netVars, delVars,
       GenInv, Owns, PcAnnounced, PcLaunched, PcRouted, PcPolicied, PcClaimed, TdBeforeUnroute,
       TdBeforeClear, TdBeforeRelease
  <1>2. ASSUME NEW r \in Requests, Admit(r) PROVE GenInv'
    BY <1>t, <1>w, <1>2 DEF Admit, Step, Goto, sbVars, tdVars, applyVars, mapVars, netVars,
       delVars, GenInv, Owns, PcAnnounced, PcLaunched, PcRouted, PcPolicied, PcClaimed,
       TdBeforeUnroute, TdBeforeClear, TdBeforeRelease
  <1>3. ASSUME NEW r \in Requests, Abandon(r) PROVE GenInv'
    BY <1>t, <1>w, <1>3 DEF Abandon, Step, Goto, sbVars, tdVars, applyVars, mapVars, netVars,
       delVars, GenInv, Owns, PcAnnounced, PcLaunched, PcRouted, PcPolicied, PcClaimed,
       TdBeforeUnroute, TdBeforeClear, TdBeforeRelease
  <1>4. ASSUME NEW r \in Requests, ClaimSlot(r) PROVE GenInv'
    BY <1>t, <1>w, <1>4 DEF ClaimSlot, Step, Goto, sbVars, tdVars, applyVars, mapVars, netVars,
       delVars, Alloc!Acquire, GenInv, Owns, PcAnnounced, PcLaunched, PcRouted, PcPolicied,
       PcClaimed, TdBeforeUnroute, TdBeforeClear, TdBeforeRelease
  <1>5. ASSUME NEW r \in Requests, Wire(r) PROVE GenInv'
    BY <1>t, <1>w, <1>5 DEF Wire, Step, Goto, sbVars, tdVars, applyVars, mapVars, netVars,
       delVars, GenInv, Owns, PcAnnounced, PcLaunched, PcRouted, PcPolicied, PcClaimed,
       TdBeforeUnroute, TdBeforeClear, TdBeforeRelease
  <1>6. ASSUME NEW r \in Requests, CreateSetEgress(r) PROVE GenInv'
    <2>0. /\ pc[r] = "wired" /\ pc' = [pc EXCEPT ![r] = "policied"] /\ UNCHANGED <<td, ip>>
          /\ gen' = [gen EXCEPT ![r] = Len(writes[ip[r]]) + 1] /\ SetEgress(ip[r], r)
      BY <1>6 DEF CreateSetEgress, Step, Goto, tdVars
    <2>1. ip[r] \in Addrs
      BY <1>t, <2>0 DEF PcClaimed
    <2>2. ASSUME NEW q \in Requests, Owns(q, PcPolicied, TdBeforeClear)'
          PROVE  gen'[q] \in 1..Len(writes'[ip[q]])
      <3>1. CASE q = r
        <4>1. gen'[q] = Len(writes[ip[r]]) + 1 /\ Len(writes[ip[r]]) \in Nat
              /\ Len(writes'[ip[r]]) = Len(writes[ip[r]]) + 1
          BY <1>t, <2>0, <2>1, <3>1, WriteFacts
        <4>. QED  BY <3>1, <4>1
      <3>2. CASE q # r
        <4>1. Owns(q, PcPolicied, TdBeforeClear) /\ gen'[q] = gen[q]
          BY <1>t, <2>0, <2>2, <3>2 DEF Owns
        <4>2. ip[q] \in Addrs
          BY <1>t, <4>1 DEF Owns, PcClaimed
        <4>3. Len(writes[ip[q]]) \in Nat /\ Len(writes'[ip[q]]) \in Nat
              /\ Len(writes[ip[q]]) <= Len(writes'[ip[q]])
          BY <2>0, <2>1, <4>2, WriteFacts
        <4>4. gen[q] \in 1..Len(writes[ip[q]])
          BY <4>1 DEF GenInv
        <4>. QED  BY <4>1, <4>3, <4>4
      <3>. QED  BY <3>1, <3>2
    <2>. QED  BY <2>0, <2>2 DEF GenInv
  <1>7. ASSUME NEW r \in Requests, RouterRegister(r) PROVE GenInv'
    BY <1>t, <1>w, <1>7 DEF RouterRegister, Step, Goto, sbVars, tdVars, applyVars, mapVars,
       delVars, GenInv, Owns, PcAnnounced, PcLaunched, PcRouted, PcPolicied, PcClaimed,
       TdBeforeUnroute, TdBeforeClear, TdBeforeRelease
  <1>8. ASSUME NEW r \in Requests, Launch(r) PROVE GenInv'
    BY <1>t, <1>w, <1>8 DEF Launch, Step, Goto, tdVars, applyVars, mapVars, netVars, delVars,
       GenInv, Owns, PcAnnounced, PcLaunched, PcRouted, PcPolicied, PcClaimed, TdBeforeUnroute,
       TdBeforeClear, TdBeforeRelease
  <1>9. ASSUME NEW r \in Requests, FailEarly(r) PROVE GenInv'
    BY <1>t, <1>w, <1>9 DEF FailEarly, Goto, tdVars, applyVars, mapVars, netVars, delVars,
       Alloc!Return, GenInv, Owns, PcAnnounced, PcLaunched, PcRouted, PcPolicied, PcClaimed,
       TdBeforeUnroute, TdBeforeClear, TdBeforeRelease
  <1>10. ASSUME NEW r \in Requests, Register(r) PROVE GenInv'
    BY <1>t, <1>w, <1>10 DEF Register, Step, Goto, sbVars, tdVars, applyVars, netVars, delVars,
       GenInv, Owns, PcAnnounced, PcLaunched, PcRouted, PcPolicied, PcClaimed, TdBeforeUnroute,
       TdBeforeClear, TdBeforeRelease
  <1>11. ASSUME NEW r \in Requests, Announce(r) PROVE GenInv'
    BY <1>t, <1>w, <1>11 DEF Announce, Step, Publish, Goto, sbVars, applyVars, netVars, delVars,
       GenInv, Owns, PcAnnounced, PcLaunched, PcRouted, PcPolicied, PcClaimed, TdBeforeUnroute,
       TdBeforeClear, TdBeforeRelease
  <1>12. ASSUME NEW r \in Requests, WaitReady(r) PROVE GenInv'
    BY <1>t, <1>w, <1>12 DEF WaitReady, Goto, tdVars, applyVars, mapVars, netVars, delVars,
       GenInv, Owns, PcAnnounced, PcLaunched, PcRouted, PcPolicied, PcClaimed, TdBeforeUnroute,
       TdBeforeClear, TdBeforeRelease
  <1>13. ASSUME NEW r \in Requests, WaitApplied(r) PROVE GenInv'
    BY <1>t, <1>w, <1>13 DEF WaitApplied, Step, Goto, sbVars, tdVars, applyVars, mapVars, netVars,
       delVars, GenInv, Owns, PcAnnounced, PcLaunched, PcRouted, PcPolicied, PcClaimed,
       TdBeforeUnroute, TdBeforeClear, TdBeforeRelease
  <1>14. ASSUME NEW r \in Requests, NotifyReady(r) PROVE GenInv'
    BY <1>t, <1>w, <1>14 DEF NotifyReady, Step, Goto, tdVars, applyVars, mapVars, netVars,
       delVars, GenInv, Owns, PcAnnounced, PcLaunched, PcRouted, PcPolicied, PcClaimed,
       TdBeforeUnroute, TdBeforeClear, TdBeforeRelease
  <1>15. ASSUME NEW r \in Requests, FinishCreate(r) PROVE GenInv'
    BY <1>t, <1>w, <1>15 DEF FinishCreate, Step, Publish, Goto, sbVars, tdVars, netVars, delVars,
       GenInv, Owns, PcAnnounced, PcLaunched, PcRouted, PcPolicied, PcClaimed, TdBeforeUnroute,
       TdBeforeClear, TdBeforeRelease
  <1>16. ASSUME NEW r \in Requests, TdWake(r) PROVE GenInv'
    BY <1>t, <1>w, <1>16 DEF TdWake, TdStep, Publish, createVars, applyVars, netVars, delVars,
       GenInv, Owns, PcAnnounced, PcLaunched, PcRouted, PcPolicied, PcClaimed, TdBeforeUnroute,
       TdBeforeClear, TdBeforeRelease
  <1>17. ASSUME NEW r \in Requests, TdStopAgent(r) PROVE GenInv'
    BY <1>t, <1>w, <1>17 DEF TdStopAgent, TdStep, createVars, applyVars, mapVars, netVars,
       delVars, GenInv, Owns, PcAnnounced, PcLaunched, PcRouted, PcPolicied, PcClaimed,
       TdBeforeUnroute, TdBeforeClear, TdBeforeRelease
  <1>18. ASSUME NEW r \in Requests, TdDrain(r) PROVE GenInv'
    BY <1>t, <1>w, <1>18 DEF TdDrain, TdStep, createVars, sbVars, applyVars, mapVars, netVars,
       delVars, GenInv, Owns, PcAnnounced, PcLaunched, PcRouted, PcPolicied, PcClaimed,
       TdBeforeUnroute, TdBeforeClear, TdBeforeRelease
  <1>19. ASSUME NEW r \in Requests, TdFlushed(r) PROVE GenInv'
    BY <1>t, <1>w, <1>19 DEF TdFlushed, TdStep, createVars, sbVars, applyVars, mapVars, netVars,
       delVars, GenInv, Owns, PcAnnounced, PcLaunched, PcRouted, PcPolicied, PcClaimed,
       TdBeforeUnroute, TdBeforeClear, TdBeforeRelease
  <1>20. ASSUME NEW r \in Requests, TdUnroute(r) PROVE GenInv'
    BY <1>t, <1>w, <1>20 DEF TdUnroute, TdStep, createVars, sbVars, applyVars, mapVars, delVars,
       GenInv, Owns, PcAnnounced, PcLaunched, PcRouted, PcPolicied, PcClaimed, TdBeforeUnroute,
       TdBeforeClear, TdBeforeRelease
  <1>21. ASSUME NEW r \in Requests, TdClearEgress(r) PROVE GenInv'
    <2>0. /\ td[r] = "unrouted" /\ td' = [td EXCEPT ![r] = "cleared"] /\ UNCHANGED <<pc, ip, gen>>
          /\ SetEgress(ip[r], NoReq)
      BY <1>21 DEF TdClearEgress, TdStep, createVars
    <2>1. ip[r] \in Addrs
      BY <1>t, <2>0
    <2>2. ASSUME NEW q \in Requests, Owns(q, PcPolicied, TdBeforeClear)' PROVE Owns(q, PcPolicied, TdBeforeClear)
      BY <1>t, <2>0, <2>2 DEF Owns, TdBeforeClear, TdBeforeUnroute
    <2>. QED  BY <1>t, <2>0, <2>1, <2>2, GenGrows
  <1>22. ASSUME NEW r \in Requests, TdReleaseSlot(r) PROVE GenInv'
    BY <1>t, <1>w, <1>22 DEF TdReleaseSlot, TdStep, createVars, sbVars, applyVars, mapVars,
       netVars, delVars, Alloc!Return, GenInv, Owns, PcAnnounced, PcLaunched, PcRouted,
       PcPolicied, PcClaimed, TdBeforeUnroute, TdBeforeClear, TdBeforeRelease
  <1>23. ASSUME NEW r \in Requests, TdClearTree(r) PROVE GenInv'
    BY <1>t, <1>w, <1>23 DEF TdClearTree, TdStep, createVars, sbVars, applyVars, mapVars, netVars,
       delVars, GenInv, Owns, PcAnnounced, PcLaunched, PcRouted, PcPolicied, PcClaimed,
       TdBeforeUnroute, TdBeforeClear, TdBeforeRelease
  <1>24. ASSUME NEW r \in Requests, TdUnlist(r) PROVE GenInv'
    BY <1>t, <1>w, <1>24 DEF TdUnlist, TdStep, createVars, sbVars, applyVars, netVars, delVars,
       GenInv, Owns, PcAnnounced, PcLaunched, PcRouted, PcPolicied, PcClaimed, TdBeforeUnroute,
       TdBeforeClear, TdBeforeRelease
  <1>25. ASSUME NEW r \in Requests, TdStopped(r) PROVE GenInv'
    BY <1>t, <1>w, <1>25 DEF TdStopped, TdStep, Publish, createVars, sbVars, applyVars, netVars,
       delVars, GenInv, Owns, PcAnnounced, PcLaunched, PcRouted, PcPolicied, PcClaimed,
       TdBeforeUnroute, TdBeforeClear, TdBeforeRelease
  <1>26. ASSUME NEW r \in Requests, WatcherReconcile(r) PROVE GenInv'
    <2>0. /\ watcher[r] = "got" /\ UNCHANGED <<pc, td, ip, gen>> /\ SetEgress(ip[r], r)
      BY <1>26 DEF WatcherReconcile, createVars, tdVars
    <2>1. ip[r] \in Addrs
      BY <1>t, <2>0 DEF CtlInv, PcClaimed, PcPolicied, PcRouted, PcLaunched, PcAnnounced
    <2>2. ASSUME NEW q \in Requests, Owns(q, PcPolicied, TdBeforeClear)' PROVE Owns(q, PcPolicied, TdBeforeClear)
      BY <2>0, <2>2 DEF Owns
    <2>. QED  BY <1>t, <2>0, <2>1, <2>2, GenGrows
  <1>27. ASSUME NEW r \in Requests,
               AgentExit(r) \/ Expire(r) \/ ApplyConfig(r) \/ WatcherTake(r) \/ WatcherExit(r)
        PROVE  GenInv'
    BY <1>0, <1>27 DEF AgentExit, createVars, tdVars, applyVars, mapVars, netVars, delVars,
       Expire, ApplyConfig, sbVars, WatcherTake, WatcherExit
  <1>28. ASSUME NEW d \in Deletes, NEW k \in Keys,
               Delete(d, k)
        PROVE  GenInv'
    BY <1>0, <1>28 DEF Delete, createVars, tdVars, applyVars, mapVars, netVars
  <1>29. ASSUME NEW d \in Deletes,
               DeleteOk(d) \/ DeleteGivesUp(d)
        PROVE  GenInv'
    BY <1>0, <1>29 DEF DeleteOk, createVars, sbVars, tdVars, applyVars, mapVars, netVars,
       DeleteGivesUp
  <1>30. ASSUME NEW a \in Addrs,
               Reload(a)
        PROVE  GenInv'
    BY <1>0, <1>30 DEF Reload, createVars, sbVars, tdVars, applyVars, mapVars, delVars
  <1>. QED  BY <1>0, <1>1, <1>2, <1>3, <1>4, <1>5, <1>6, <1>7, <1>8, <1>9, <1>10, <1>11, <1>12, <1>13,
       <1>14, <1>15, <1>16, <1>17, <1>18, <1>19, <1>20, <1>21, <1>22, <1>23, <1>24, <1>25, <1>26,
       <1>27, <1>28, <1>29, <1>30 DEF Next, PodStep, CreateStep, Teardown, Watcher

\* They are its own: another tenant's write goes to another address.
LEMMA OwnStep ==
  ASSUME TypeOK, CtlInv, SlotInv, GenInv, OwnInv, Next
  PROVE  OwnInv'
  <1>t. /\ pc \in [Requests -> PcStates] /\ td \in [Requests -> TdStates]
        /\ ip \in [Requests -> Addrs \union {0}] /\ gen \in [Requests -> Nat]
        /\ \A r \in Requests : td[r] # "none" => pc[r] \in PcAnnounced \union {"failed"}
        /\ \A r \in Requests : pc[r] \in PcClaimed \/ td[r] # "none" => ip[r] \in Addrs
    BY DEF TypeOK, CtlInv, SlotInv
  <1>w. world' = world /\ KeyOf' = KeyOf
    BY DEF Next, KeyOf
  <1>0. CASE UNCHANGED <<world, pc, td, ip, gen, writes>>
    BY <1>w, <1>0 DEF OwnInv, NoStaleReconcile, Owns, PcAnnounced, PcLaunched, PcRouted,
       PcPolicied, PcClaimed, TdBeforeUnroute, TdBeforeClear, TdBeforeRelease
  <1>1. ASSUME NEW r \in Requests, Lookup(r) PROVE OwnInv'
    BY <1>t, <1>w, <1>1 DEF Lookup, Goto, sbVars, tdVars, applyVars, mapVars, netVars, delVars,
       OwnInv, NoStaleReconcile, Owns, PcAnnounced, PcLaunched, PcRouted, PcPolicied, PcClaimed,
       TdBeforeUnroute, TdBeforeClear, TdBeforeRelease
  <1>2. ASSUME NEW r \in Requests, Admit(r) PROVE OwnInv'
    BY <1>t, <1>w, <1>2 DEF Admit, Step, Goto, sbVars, tdVars, applyVars, mapVars, netVars,
       delVars, OwnInv, NoStaleReconcile, Owns, PcAnnounced, PcLaunched, PcRouted, PcPolicied,
       PcClaimed, TdBeforeUnroute, TdBeforeClear, TdBeforeRelease
  <1>3. ASSUME NEW r \in Requests, Abandon(r) PROVE OwnInv'
    BY <1>t, <1>w, <1>3 DEF Abandon, Step, Goto, sbVars, tdVars, applyVars, mapVars, netVars,
       delVars, OwnInv, NoStaleReconcile, Owns, PcAnnounced, PcLaunched, PcRouted, PcPolicied,
       PcClaimed, TdBeforeUnroute, TdBeforeClear, TdBeforeRelease
  <1>4. ASSUME NEW r \in Requests, ClaimSlot(r) PROVE OwnInv'
    BY <1>t, <1>w, <1>4 DEF ClaimSlot, Step, Goto, sbVars, tdVars, applyVars, mapVars, netVars,
       delVars, Alloc!Acquire, OwnInv, NoStaleReconcile, Owns, PcAnnounced, PcLaunched, PcRouted,
       PcPolicied, PcClaimed, TdBeforeUnroute, TdBeforeClear, TdBeforeRelease
  <1>5. ASSUME NEW r \in Requests, Wire(r) PROVE OwnInv'
    BY <1>t, <1>w, <1>5 DEF Wire, Step, Goto, sbVars, tdVars, applyVars, mapVars, netVars,
       delVars, OwnInv, NoStaleReconcile, Owns, PcAnnounced, PcLaunched, PcRouted, PcPolicied,
       PcClaimed, TdBeforeUnroute, TdBeforeClear, TdBeforeRelease
  <1>6. ASSUME NEW r \in Requests, CreateSetEgress(r) PROVE OwnInv'
    <2>0. /\ pc[r] = "wired" /\ pc' = [pc EXCEPT ![r] = "policied"] /\ UNCHANGED <<td, ip>>
          /\ gen' = [gen EXCEPT ![r] = Len(writes[ip[r]]) + 1] /\ SetEgress(ip[r], r)
      BY <1>6 DEF CreateSetEgress, Step, Goto, tdVars
    <2>1. ip[r] \in Addrs /\ td[r] = "none"
      BY <1>t, <2>0 DEF PcClaimed, PcAnnounced
    <2>2. ASSUME NEW q \in Requests, Owns(q, PcPolicied, TdBeforeClear)', NoStaleReconcile
          PROVE  \A n \in gen'[q]..Len(writes'[ip[q]]) : writes'[ip[q]][n] = q
      <3>1. CASE q = r
        <4>1. /\ gen'[q] = Len(writes[ip[r]]) + 1 /\ Len(writes[ip[r]]) \in Nat
              /\ Len(writes'[ip[r]]) = Len(writes[ip[r]]) + 1
              /\ writes'[ip[r]][Len(writes[ip[r]]) + 1] = r
          BY <1>t, <2>0, <2>1, <3>1, WriteFacts
        <4>. QED  BY <3>1, <4>1
      <3>2. CASE q # r
        <4>1. Owns(q, PcPolicied, TdBeforeClear) /\ gen'[q] = gen[q]
          BY <1>t, <2>0, <2>2, <3>2 DEF Owns
        <4>2. ip[q] # ip[r] /\ ip[q] \in Addrs
          <5>1. Owns(r, PcClaimed, TdBeforeRelease)
            BY <2>0, <2>1 DEF Owns, PcClaimed, TdBeforeUnroute, TdBeforeClear, TdBeforeRelease
          <5>2. ip[q] \in Addrs
            BY <1>t, <4>1 DEF Owns, PcClaimed
          <5>. QED  BY <3>2, <4>1, <5>1, <5>2, AddressesDiffer
        <4>3. writes'[ip[q]] = writes[ip[q]]
          BY <2>0, <2>1, <4>2, WriteFacts
        <4>. QED  BY <2>2, <4>1, <4>3 DEF OwnInv
      <3>. QED  BY <3>1, <3>2
    <2>. QED  BY <1>w, <2>0, <2>2 DEF OwnInv, NoStaleReconcile
  <1>7. ASSUME NEW r \in Requests, RouterRegister(r) PROVE OwnInv'
    BY <1>t, <1>w, <1>7 DEF RouterRegister, Step, Goto, sbVars, tdVars, applyVars, mapVars,
       delVars, OwnInv, NoStaleReconcile, Owns, PcAnnounced, PcLaunched, PcRouted, PcPolicied,
       PcClaimed, TdBeforeUnroute, TdBeforeClear, TdBeforeRelease
  <1>8. ASSUME NEW r \in Requests, Launch(r) PROVE OwnInv'
    BY <1>t, <1>w, <1>8 DEF Launch, Step, Goto, tdVars, applyVars, mapVars, netVars, delVars,
       OwnInv, NoStaleReconcile, Owns, PcAnnounced, PcLaunched, PcRouted, PcPolicied, PcClaimed,
       TdBeforeUnroute, TdBeforeClear, TdBeforeRelease
  <1>9. ASSUME NEW r \in Requests, FailEarly(r) PROVE OwnInv'
    BY <1>t, <1>w, <1>9 DEF FailEarly, Goto, tdVars, applyVars, mapVars, netVars, delVars,
       Alloc!Return, OwnInv, NoStaleReconcile, Owns, PcAnnounced, PcLaunched, PcRouted,
       PcPolicied, PcClaimed, TdBeforeUnroute, TdBeforeClear, TdBeforeRelease
  <1>10. ASSUME NEW r \in Requests, Register(r) PROVE OwnInv'
    BY <1>t, <1>w, <1>10 DEF Register, Step, Goto, sbVars, tdVars, applyVars, netVars, delVars,
       OwnInv, NoStaleReconcile, Owns, PcAnnounced, PcLaunched, PcRouted, PcPolicied, PcClaimed,
       TdBeforeUnroute, TdBeforeClear, TdBeforeRelease
  <1>11. ASSUME NEW r \in Requests, Announce(r) PROVE OwnInv'
    BY <1>t, <1>w, <1>11 DEF Announce, Step, Publish, Goto, sbVars, applyVars, netVars, delVars,
       OwnInv, NoStaleReconcile, Owns, PcAnnounced, PcLaunched, PcRouted, PcPolicied, PcClaimed,
       TdBeforeUnroute, TdBeforeClear, TdBeforeRelease
  <1>12. ASSUME NEW r \in Requests, WaitReady(r) PROVE OwnInv'
    BY <1>t, <1>w, <1>12 DEF WaitReady, Goto, tdVars, applyVars, mapVars, netVars, delVars,
       OwnInv, NoStaleReconcile, Owns, PcAnnounced, PcLaunched, PcRouted, PcPolicied, PcClaimed,
       TdBeforeUnroute, TdBeforeClear, TdBeforeRelease
  <1>13. ASSUME NEW r \in Requests, WaitApplied(r) PROVE OwnInv'
    BY <1>t, <1>w, <1>13 DEF WaitApplied, Step, Goto, sbVars, tdVars, applyVars, mapVars, netVars,
       delVars, OwnInv, NoStaleReconcile, Owns, PcAnnounced, PcLaunched, PcRouted, PcPolicied,
       PcClaimed, TdBeforeUnroute, TdBeforeClear, TdBeforeRelease
  <1>14. ASSUME NEW r \in Requests, NotifyReady(r) PROVE OwnInv'
    BY <1>t, <1>w, <1>14 DEF NotifyReady, Step, Goto, tdVars, applyVars, mapVars, netVars,
       delVars, OwnInv, NoStaleReconcile, Owns, PcAnnounced, PcLaunched, PcRouted, PcPolicied,
       PcClaimed, TdBeforeUnroute, TdBeforeClear, TdBeforeRelease
  <1>15. ASSUME NEW r \in Requests, FinishCreate(r) PROVE OwnInv'
    BY <1>t, <1>w, <1>15 DEF FinishCreate, Step, Publish, Goto, sbVars, tdVars, netVars, delVars,
       OwnInv, NoStaleReconcile, Owns, PcAnnounced, PcLaunched, PcRouted, PcPolicied, PcClaimed,
       TdBeforeUnroute, TdBeforeClear, TdBeforeRelease
  <1>16. ASSUME NEW r \in Requests, TdWake(r) PROVE OwnInv'
    BY <1>t, <1>w, <1>16 DEF TdWake, TdStep, Publish, createVars, applyVars, netVars, delVars,
       OwnInv, NoStaleReconcile, Owns, PcAnnounced, PcLaunched, PcRouted, PcPolicied, PcClaimed,
       TdBeforeUnroute, TdBeforeClear, TdBeforeRelease
  <1>17. ASSUME NEW r \in Requests, TdStopAgent(r) PROVE OwnInv'
    BY <1>t, <1>w, <1>17 DEF TdStopAgent, TdStep, createVars, applyVars, mapVars, netVars,
       delVars, OwnInv, NoStaleReconcile, Owns, PcAnnounced, PcLaunched, PcRouted, PcPolicied,
       PcClaimed, TdBeforeUnroute, TdBeforeClear, TdBeforeRelease
  <1>18. ASSUME NEW r \in Requests, TdDrain(r) PROVE OwnInv'
    BY <1>t, <1>w, <1>18 DEF TdDrain, TdStep, createVars, sbVars, applyVars, mapVars, netVars,
       delVars, OwnInv, NoStaleReconcile, Owns, PcAnnounced, PcLaunched, PcRouted, PcPolicied,
       PcClaimed, TdBeforeUnroute, TdBeforeClear, TdBeforeRelease
  <1>19. ASSUME NEW r \in Requests, TdFlushed(r) PROVE OwnInv'
    BY <1>t, <1>w, <1>19 DEF TdFlushed, TdStep, createVars, sbVars, applyVars, mapVars, netVars,
       delVars, OwnInv, NoStaleReconcile, Owns, PcAnnounced, PcLaunched, PcRouted, PcPolicied,
       PcClaimed, TdBeforeUnroute, TdBeforeClear, TdBeforeRelease
  <1>20. ASSUME NEW r \in Requests, TdUnroute(r) PROVE OwnInv'
    BY <1>t, <1>w, <1>20 DEF TdUnroute, TdStep, createVars, sbVars, applyVars, mapVars, delVars,
       OwnInv, NoStaleReconcile, Owns, PcAnnounced, PcLaunched, PcRouted, PcPolicied, PcClaimed,
       TdBeforeUnroute, TdBeforeClear, TdBeforeRelease
  <1>21. ASSUME NEW r \in Requests, TdClearEgress(r) PROVE OwnInv'
    <2>0. /\ td[r] = "unrouted" /\ td' = [td EXCEPT ![r] = "cleared"] /\ UNCHANGED <<pc, ip, gen>>
          /\ SetEgress(ip[r], NoReq)
      BY <1>21 DEF TdClearEgress, TdStep, createVars
    <2>1. ip[r] \in Addrs
      BY <1>t, <2>0
    <2>2. ASSUME NEW q \in Requests, Owns(q, PcPolicied, TdBeforeClear)'
          PROVE  Owns(q, PcPolicied, TdBeforeClear) /\ writes'[ip[q]] = writes[ip[q]]
      <3>1. q # r /\ Owns(q, PcPolicied, TdBeforeClear)
        BY <1>t, <2>0, <2>2 DEF Owns, TdBeforeClear, TdBeforeUnroute
      <3>2. Owns(r, PcClaimed, TdBeforeRelease)
        BY <2>0 DEF Owns, TdBeforeClear, TdBeforeRelease
      <3>3. ip[q] # ip[r] /\ ip[q] \in Addrs
        BY <1>t, <3>1, <3>2, AddressesDiffer DEF Owns, PcClaimed
      <3>. QED  BY <2>0, <2>1, <3>1, <3>3, WriteFacts
    <2>. QED  BY <1>w, <2>0, <2>2 DEF OwnInv, NoStaleReconcile
  <1>22. ASSUME NEW r \in Requests, TdReleaseSlot(r) PROVE OwnInv'
    BY <1>t, <1>w, <1>22 DEF TdReleaseSlot, TdStep, createVars, sbVars, applyVars, mapVars,
       netVars, delVars, Alloc!Return, OwnInv, NoStaleReconcile, Owns, PcAnnounced, PcLaunched,
       PcRouted, PcPolicied, PcClaimed, TdBeforeUnroute, TdBeforeClear, TdBeforeRelease
  <1>23. ASSUME NEW r \in Requests, TdClearTree(r) PROVE OwnInv'
    BY <1>t, <1>w, <1>23 DEF TdClearTree, TdStep, createVars, sbVars, applyVars, mapVars, netVars,
       delVars, OwnInv, NoStaleReconcile, Owns, PcAnnounced, PcLaunched, PcRouted, PcPolicied,
       PcClaimed, TdBeforeUnroute, TdBeforeClear, TdBeforeRelease
  <1>24. ASSUME NEW r \in Requests, TdUnlist(r) PROVE OwnInv'
    BY <1>t, <1>w, <1>24 DEF TdUnlist, TdStep, createVars, sbVars, applyVars, netVars, delVars,
       OwnInv, NoStaleReconcile, Owns, PcAnnounced, PcLaunched, PcRouted, PcPolicied, PcClaimed,
       TdBeforeUnroute, TdBeforeClear, TdBeforeRelease
  <1>25. ASSUME NEW r \in Requests, TdStopped(r) PROVE OwnInv'
    BY <1>t, <1>w, <1>25 DEF TdStopped, TdStep, Publish, createVars, sbVars, applyVars, netVars,
       delVars, OwnInv, NoStaleReconcile, Owns, PcAnnounced, PcLaunched, PcRouted, PcPolicied,
       PcClaimed, TdBeforeUnroute, TdBeforeClear, TdBeforeRelease
  <1>26. ASSUME NEW r \in Requests, WatcherReconcile(r) PROVE OwnInv'
    <2>0. /\ watcher[r] = "got" /\ UNCHANGED <<pc, td, ip, gen>> /\ SetEgress(ip[r], r)
      BY <1>26 DEF WatcherReconcile, createVars, tdVars
    <2>1. ip[r] \in Addrs /\ r \in world.requests /\ world.applies # 0
      BY <1>t, <2>0 DEF CtlInv, PcClaimed, PcPolicied, PcRouted, PcLaunched, PcAnnounced
    <2>2. ASSUME NEW q \in Requests, Owns(q, PcPolicied, TdBeforeClear), NoStaleReconcile
          PROVE  \A n \in gen[q]..Len(writes'[ip[q]]) : writes'[ip[q]][n] = q
      <3>1. pc[q] # "idle"
        BY <1>t, <2>2 DEF Owns, PcAnnounced, PcLaunched, PcRouted, PcPolicied
      <3>2. q = r
        BY <2>1, <2>2, <3>1 DEF CtlInv, NoStaleReconcile
      <3>3. /\ gen[r] \in 1..Len(writes[ip[r]])
            /\ \A n \in gen[r]..Len(writes[ip[r]]) : writes[ip[r]][n] = r
        BY <2>2, <3>2 DEF GenInv, OwnInv
      <3>4. /\ Len(writes[ip[r]]) \in Nat /\ Len(writes'[ip[r]]) = Len(writes[ip[r]]) + 1
            /\ writes'[ip[r]][Len(writes[ip[r]]) + 1] = r
            /\ \A n \in 1..Len(writes[ip[r]]) : writes'[ip[r]][n] = writes[ip[r]][n]
        BY <2>0, <2>1, WriteFacts
      <3>5. ASSUME NEW n \in gen[r]..Len(writes'[ip[r]]) PROVE writes'[ip[r]][n] = r
        <4>1. CASE n = Len(writes[ip[r]]) + 1
          BY <3>4, <4>1
        <4>2. CASE n # Len(writes[ip[r]]) + 1
          <5>1. n \in gen[r]..Len(writes[ip[r]]) /\ n \in 1..Len(writes[ip[r]])
            BY <3>3, <3>4, <3>5, <4>2
          <5>. QED  BY <3>3, <3>4, <5>1
        <4>. QED  BY <4>1, <4>2
      <3>. QED  BY <3>2, <3>5
    <2>. QED  BY <1>w, <2>0, <2>2 DEF OwnInv, NoStaleReconcile, Owns
  <1>27. ASSUME NEW r \in Requests,
               AgentExit(r) \/ Expire(r) \/ ApplyConfig(r) \/ WatcherTake(r) \/ WatcherExit(r)
        PROVE  OwnInv'
    BY <1>w, <1>0, <1>27 DEF AgentExit, createVars, tdVars, applyVars, mapVars, netVars, delVars,
       Expire, ApplyConfig, sbVars, WatcherTake, WatcherExit
  <1>28. ASSUME NEW d \in Deletes, NEW k \in Keys,
               Delete(d, k)
        PROVE  OwnInv'
    BY <1>w, <1>0, <1>28 DEF Delete, createVars, tdVars, applyVars, mapVars, netVars
  <1>29. ASSUME NEW d \in Deletes,
               DeleteOk(d) \/ DeleteGivesUp(d)
        PROVE  OwnInv'
    BY <1>w, <1>0, <1>29 DEF DeleteOk, createVars, sbVars, tdVars, applyVars, mapVars, netVars,
       DeleteGivesUp
  <1>30. ASSUME NEW a \in Addrs,
               Reload(a)
        PROVE  OwnInv'
    BY <1>w, <1>0, <1>30 DEF Reload, createVars, sbVars, tdVars, applyVars, mapVars, delVars
  <1>. QED  BY <1>0, <1>1, <1>2, <1>3, <1>4, <1>5, <1>6, <1>7, <1>8, <1>9, <1>10, <1>11, <1>12, <1>13,
       <1>14, <1>15, <1>16, <1>17, <1>18, <1>19, <1>20, <1>21, <1>22, <1>23, <1>24, <1>25, <1>26,
       <1>27, <1>28, <1>29, <1>30 DEF Next, PodStep, CreateStep, Teardown, Watcher

\* The proxy enforces no write that was not made.
LEMMA BoundStep ==
  ASSUME TypeOK, CtlInv, SlotInv, BoundInv, Next
  PROVE  BoundInv'
  <1>t. /\ writes \in [Addrs -> Seq(Requests \union {NoReq})] /\ enforced \in [Addrs -> Nat]
        /\ \A r \in Requests : pc[r] \in PcClaimed \/ td[r] # "none" => ip[r] \in Addrs
    BY DEF TypeOK, SlotInv
  <1>w. world' = world /\ KeyOf' = KeyOf
    BY DEF Next, KeyOf
  <1>0. CASE UNCHANGED <<writes, enforced>>
    BY <1>w, <1>0 DEF BoundInv
  <1>1. ASSUME NEW r \in Requests, CreateSetEgress(r) PROVE BoundInv'
    <2>1. SetEgress(ip[r], r) /\ enforced' = enforced
      BY <1>1 DEF CreateSetEgress
    <2>2. ip[r] \in Addrs
      BY <1>t, <1>1 DEF CreateSetEgress, Step, PcClaimed
    <2>3. ASSUME NEW b \in Addrs PROVE enforced[b] <= Len(writes'[b])
      <3>1. Len(writes[b]) \in Nat /\ Len(writes'[b]) \in Nat /\ Len(writes[b]) <= Len(writes'[b])
        BY <2>1, <2>2, WriteFacts
      <3>. QED  BY <1>t, <3>1 DEF BoundInv
    <2>. QED  BY <2>1, <2>3 DEF BoundInv
  <1>2. ASSUME NEW r \in Requests, TdClearEgress(r) PROVE BoundInv'
    <2>1. SetEgress(ip[r], NoReq) /\ enforced' = enforced
      BY <1>2 DEF TdClearEgress
    <2>2. ip[r] \in Addrs
      BY <1>t, <1>2 DEF TdClearEgress, TdStep
    <2>3. ASSUME NEW b \in Addrs PROVE enforced[b] <= Len(writes'[b])
      <3>1. Len(writes[b]) \in Nat /\ Len(writes'[b]) \in Nat /\ Len(writes[b]) <= Len(writes'[b])
        BY <2>1, <2>2, WriteFacts
      <3>. QED  BY <1>t, <3>1 DEF BoundInv
    <2>. QED  BY <2>1, <2>3 DEF BoundInv
  <1>3. ASSUME NEW r \in Requests, WatcherReconcile(r) PROVE BoundInv'
    <2>1. SetEgress(ip[r], r) /\ enforced' = enforced
      BY <1>3 DEF WatcherReconcile
    <2>2. ip[r] \in Addrs
      BY <1>t, <1>3 DEF WatcherReconcile, CtlInv, PcClaimed, PcPolicied, PcRouted, PcLaunched,
         PcAnnounced
    <2>3. ASSUME NEW b \in Addrs PROVE enforced[b] <= Len(writes'[b])
      <3>1. Len(writes[b]) \in Nat /\ Len(writes'[b]) \in Nat /\ Len(writes[b]) <= Len(writes'[b])
        BY <2>1, <2>2, WriteFacts
      <3>. QED  BY <1>t, <3>1 DEF BoundInv
    <2>. QED  BY <2>1, <2>3 DEF BoundInv
  <1>4. ASSUME NEW a \in Addrs, Reload(a) PROVE BoundInv'
    <2>1. PICK n \in enforced[a] + 1 .. Len(writes[a]) : enforced' = [enforced EXCEPT ![a] = n]
      BY <1>4 DEF Reload
    <2>2. n <= Len(writes[a]) /\ writes' = writes
      BY <1>t, <2>1, <1>4 DEF Reload
    <2>. QED  BY <1>t, <2>1, <2>2 DEF BoundInv
  <1>5. ASSUME NEW r \in Requests,
               Lookup(r) \/ Admit(r) \/ Abandon(r) \/ ClaimSlot(r) \/ Wire(r)
               \/ RouterRegister(r) \/ Launch(r) \/ FailEarly(r) \/ Register(r) \/ Announce(r)
               \/ WaitReady(r) \/ WaitApplied(r) \/ NotifyReady(r) \/ FinishCreate(r)
               \/ AgentExit(r) \/ Expire(r) \/ TdWake(r) \/ TdStopAgent(r) \/ TdDrain(r)
               \/ TdFlushed(r) \/ TdUnroute(r) \/ TdReleaseSlot(r) \/ TdClearTree(r)
               \/ TdUnlist(r) \/ TdStopped(r) \/ ApplyConfig(r) \/ WatcherTake(r)
               \/ WatcherExit(r)
        PROVE  BoundInv'
    BY <1>0, <1>5 DEF Lookup, sbVars, tdVars, applyVars, mapVars, netVars, delVars, Admit,
       Abandon, ClaimSlot, Wire, RouterRegister, Launch, FailEarly, Register, Announce, WaitReady,
       WaitApplied, NotifyReady, FinishCreate, AgentExit, createVars, Expire, TdWake, TdStopAgent,
       TdDrain, TdFlushed, TdUnroute, TdReleaseSlot, TdClearTree, TdUnlist, TdStopped,
       ApplyConfig, WatcherTake, WatcherExit
  <1>6. ASSUME NEW d \in Deletes, NEW k \in Keys,
               Delete(d, k)
        PROVE  BoundInv'
    BY <1>0, <1>6 DEF Delete, createVars, tdVars, applyVars, mapVars, netVars
  <1>7. ASSUME NEW d \in Deletes,
               DeleteOk(d) \/ DeleteGivesUp(d)
        PROVE  BoundInv'
    BY <1>0, <1>7 DEF DeleteOk, createVars, sbVars, tdVars, applyVars, mapVars, netVars,
       DeleteGivesUp
  <1>. QED  BY <1>0, <1>1, <1>2, <1>3, <1>4, <1>5, <1>6, <1>7 DEF Next, PodStep, CreateStep, Teardown,
       Watcher

\* What is enforced only moves forward.
LEMMA GateStep ==
  ASSUME TypeOK, CtlInv, SlotInv, GateInv, Next
  PROVE  GateInv'
  <1>t. /\ pc \in [Requests -> PcStates] /\ td \in [Requests -> TdStates]
        /\ ip \in [Requests -> Addrs \union {0}] /\ gen \in [Requests -> Nat]
        /\ cancelled \in [Requests -> BOOLEAN] /\ enforced \in [Addrs -> Nat] /\ NoReq \notin Requests
        /\ \A r \in Requests : pc[r] \in PcClaimed => ip[r] \in Addrs
    BY NameAssumption DEF TypeOK, SlotInv
  <1>w. world' = world /\ KeyOf' = KeyOf
    BY DEF Next, KeyOf
  <1>0. CASE UNCHANGED <<world, pc, ip, gen, cancelled, enforced>>
    BY <1>w, <1>0 DEF GateInv
  <1>1. ASSUME NEW r \in Requests, Lookup(r) PROVE GateInv'
    BY <1>t, <1>w, <1>1 DEF Lookup, Goto, sbVars, tdVars, applyVars, mapVars, netVars, delVars,
       GateInv
  <1>2. ASSUME NEW r \in Requests, Admit(r) PROVE GateInv'
    BY <1>t, <1>w, <1>2 DEF Admit, Step, Goto, sbVars, tdVars, applyVars, mapVars, netVars,
       delVars, GateInv
  <1>3. ASSUME NEW r \in Requests, Abandon(r) PROVE GateInv'
    BY <1>t, <1>w, <1>3 DEF Abandon, Step, Goto, sbVars, tdVars, applyVars, mapVars, netVars,
       delVars, GateInv
  <1>4. ASSUME NEW r \in Requests, ClaimSlot(r) PROVE GateInv'
    BY <1>t, <1>w, <1>4 DEF ClaimSlot, Step, Goto, sbVars, tdVars, applyVars, mapVars, netVars,
       delVars, Alloc!Acquire, GateInv
  <1>5. ASSUME NEW r \in Requests, Wire(r) PROVE GateInv'
    BY <1>t, <1>w, <1>5 DEF Wire, Step, Goto, sbVars, tdVars, applyVars, mapVars, netVars,
       delVars, GateInv
  <1>6. ASSUME NEW r \in Requests, CreateSetEgress(r) PROVE GateInv'
    BY <1>t, <1>w, <1>6 DEF CreateSetEgress, Step, SetEgress, Goto, sbVars, tdVars, applyVars,
       mapVars, delVars, GateInv
  <1>7. ASSUME NEW r \in Requests, RouterRegister(r) PROVE GateInv'
    BY <1>t, <1>w, <1>7 DEF RouterRegister, Step, Goto, sbVars, tdVars, applyVars, mapVars,
       delVars, GateInv
  <1>8. ASSUME NEW r \in Requests, Launch(r) PROVE GateInv'
    BY <1>t, <1>w, <1>8 DEF Launch, Step, Goto, tdVars, applyVars, mapVars, netVars, delVars,
       GateInv
  <1>9. ASSUME NEW r \in Requests, FailEarly(r) PROVE GateInv'
    BY <1>t, <1>w, <1>9 DEF FailEarly, Goto, tdVars, applyVars, mapVars, netVars, delVars,
       Alloc!Return, GateInv
  <1>10. ASSUME NEW r \in Requests, Register(r) PROVE GateInv'
    BY <1>t, <1>w, <1>10 DEF Register, Step, Goto, sbVars, tdVars, applyVars, netVars, delVars,
       GateInv
  <1>11. ASSUME NEW r \in Requests, Announce(r) PROVE GateInv'
    BY <1>t, <1>w, <1>11 DEF Announce, Step, Publish, Goto, sbVars, applyVars, netVars, delVars,
       GateInv
  <1>12. ASSUME NEW r \in Requests, WaitReady(r) PROVE GateInv'
    BY <1>t, <1>w, <1>12 DEF WaitReady, Goto, tdVars, applyVars, mapVars, netVars, delVars,
       GateInv
  <1>13. ASSUME NEW r \in Requests, WaitApplied(r) PROVE GateInv'
    BY <1>t, <1>w, <1>13 DEF WaitApplied, Step, Goto, sbVars, tdVars, applyVars, mapVars, netVars,
       delVars, GateInv, Egress!Confirmable
  <1>14. ASSUME NEW r \in Requests, NotifyReady(r) PROVE GateInv'
    BY <1>t, <1>w, <1>14 DEF NotifyReady, Step, Goto, tdVars, applyVars, mapVars, netVars,
       delVars, GateInv
  <1>15. ASSUME NEW r \in Requests, FinishCreate(r) PROVE GateInv'
    BY <1>t, <1>w, <1>15 DEF FinishCreate, Step, Publish, Goto, sbVars, tdVars, netVars, delVars,
       GateInv
  <1>16. ASSUME NEW r \in Requests, Expire(r) PROVE GateInv'
    BY <1>t, <1>w, <1>16 DEF Expire, createVars, tdVars, applyVars, mapVars, netVars, delVars,
       GateInv
  <1>17. ASSUME NEW r \in Requests, TdWake(r) PROVE GateInv'
    BY <1>t, <1>w, <1>17 DEF TdWake, TdStep, Publish, createVars, applyVars, netVars, delVars,
       GateInv
  <1>18. ASSUME NEW d \in Deletes, NEW k \in Keys, Delete(d, k) PROVE GateInv'
    BY <1>t, <1>w, <1>18 DEF Delete, createVars, tdVars, applyVars, mapVars, netVars, GateInv
  <1>19. ASSUME NEW a \in Addrs, Reload(a) PROVE GateInv'
    <2>1. PICK n \in enforced[a] + 1 .. Len(writes[a]) : enforced' = [enforced EXCEPT ![a] = n]
      BY <1>19 DEF Reload
    <2>2. \A b \in Addrs : enforced[b] \in Nat /\ enforced'[b] \in Nat /\ enforced[b] <= enforced'[b]
      BY <1>t, <2>1
    <2>3. UNCHANGED <<pc, ip, gen, cancelled>>
      BY <1>19 DEF Reload, createVars, sbVars
    <2>4. ASSUME NEW q \in Requests, pc[q] \in {"gated", "ready", "done"}, gen[q] <= enforced[ip[q]]
          PROVE  gen[q] <= enforced'[ip[q]]
      <3>1. ip[q] \in Addrs /\ gen[q] \in Nat
        BY <1>t, <2>4 DEF PcClaimed, PcPolicied, PcRouted, PcLaunched, PcAnnounced
      <3>. QED  BY <2>2, <2>4, <3>1
    <2>. QED  BY <1>w, <2>3, <2>4 DEF GateInv
  <1>20. ASSUME NEW r \in Requests,
               AgentExit(r) \/ TdStopAgent(r) \/ TdDrain(r) \/ TdFlushed(r) \/ TdUnroute(r)
               \/ TdClearEgress(r) \/ TdReleaseSlot(r) \/ TdClearTree(r) \/ TdUnlist(r)
               \/ TdStopped(r) \/ ApplyConfig(r) \/ WatcherTake(r) \/ WatcherExit(r)
               \/ WatcherReconcile(r)
        PROVE  GateInv'
    BY <1>w, <1>0, <1>20 DEF AgentExit, createVars, tdVars, applyVars, mapVars, netVars, delVars,
       TdStopAgent, TdDrain, sbVars, TdFlushed, TdUnroute, TdClearEgress, TdReleaseSlot,
       TdClearTree, TdUnlist, TdStopped, ApplyConfig, WatcherTake, WatcherExit, WatcherReconcile
  <1>21. ASSUME NEW d \in Deletes,
               DeleteOk(d) \/ DeleteGivesUp(d)
        PROVE  GateInv'
    BY <1>w, <1>0, <1>21 DEF DeleteOk, createVars, sbVars, tdVars, applyVars, mapVars, netVars,
       DeleteGivesUp
  <1>. QED  BY <1>0, <1>1, <1>2, <1>3, <1>4, <1>5, <1>6, <1>7, <1>8, <1>9, <1>10, <1>11, <1>12, <1>13,
       <1>14, <1>15, <1>16, <1>17, <1>18, <1>19, <1>20, <1>21 DEF Next, PodStep, CreateStep,
       Teardown, Watcher

\* The key: one create at a time, and none before the former sandbox is unlisted.
LEMMA KeyStep ==
  ASSUME TypeOK, CtlInv, KeyInv, Next
  PROVE  KeyInv'
  <1>t. /\ pc \in [Requests -> PcStates] /\ td \in [Requests -> TdStates] /\ KeyOf \in [Requests -> Keys]
        /\ sandboxes \in [Keys -> Requests \union {NoReq}] /\ tree \in [Keys -> Requests \union {NoReq}]
        /\ NoReq \notin Requests
        /\ \A r \in Requests : td[r] # "none" => pc[r] \in PcAnnounced \union {"failed"}
        /\ \A r \in Requests : pc[r] \in PcAnnounced => td[r] # "none"
    BY WorldFacts, NameAssumption DEF TypeOK, CtlInv
  <1>w. world' = world /\ KeyOf' = KeyOf
    BY DEF Next, KeyOf
  <1>0. CASE UNCHANGED <<world, pc, td, sandboxes, tree>>
    BY <1>w, <1>0 DEF KeyInv, InFlight, Returned, PcAnnounced, PcUnlisted, PcWired, TdListed
  <1>1. ASSUME NEW r \in Requests, Lookup(r) PROVE KeyInv'
    BY <1>t, <1>w, <1>1 DEF Lookup, Goto, sbVars, tdVars, applyVars, mapVars, netVars, delVars,
       KeyInv, InFlight, Returned, PcAnnounced, PcUnlisted, PcWired, TdListed
  <1>2. ASSUME NEW r \in Requests, Admit(r) PROVE KeyInv'
    BY <1>t, <1>w, <1>2 DEF Admit, Step, Goto, sbVars, tdVars, applyVars, mapVars, netVars,
       delVars, KeyInv, InFlight, Returned, PcAnnounced, PcUnlisted, PcWired, TdListed
  <1>3. ASSUME NEW r \in Requests, Abandon(r) PROVE KeyInv'
    BY <1>t, <1>w, <1>3 DEF Abandon, Step, Goto, sbVars, tdVars, applyVars, mapVars, netVars,
       delVars, KeyInv, InFlight, Returned, PcAnnounced, PcUnlisted, PcWired, TdListed
  <1>4. ASSUME NEW r \in Requests, ClaimSlot(r) PROVE KeyInv'
    BY <1>t, <1>w, <1>4 DEF ClaimSlot, Step, Goto, sbVars, tdVars, applyVars, mapVars, netVars,
       delVars, Alloc!Acquire, KeyInv, InFlight, Returned, PcAnnounced, PcUnlisted, PcWired,
       TdListed
  <1>5. ASSUME NEW r \in Requests, Wire(r) PROVE KeyInv'
    BY <1>t, <1>w, <1>5 DEF Wire, Step, Goto, sbVars, tdVars, applyVars, mapVars, netVars,
       delVars, KeyInv, InFlight, Returned, PcAnnounced, PcUnlisted, PcWired, TdListed
  <1>6. ASSUME NEW r \in Requests, CreateSetEgress(r) PROVE KeyInv'
    BY <1>t, <1>w, <1>6 DEF CreateSetEgress, Step, SetEgress, Goto, sbVars, tdVars, applyVars,
       mapVars, delVars, KeyInv, InFlight, Returned, PcAnnounced, PcUnlisted, PcWired, TdListed
  <1>7. ASSUME NEW r \in Requests, RouterRegister(r) PROVE KeyInv'
    BY <1>t, <1>w, <1>7 DEF RouterRegister, Step, Goto, sbVars, tdVars, applyVars, mapVars,
       delVars, KeyInv, InFlight, Returned, PcAnnounced, PcUnlisted, PcWired, TdListed
  <1>8. ASSUME NEW r \in Requests, Launch(r) PROVE KeyInv'
    BY <1>t, <1>w, <1>8 DEF Launch, Step, Goto, tdVars, applyVars, mapVars, netVars, delVars,
       KeyInv, InFlight, Returned, PcAnnounced, PcUnlisted, PcWired, TdListed
  <1>9. ASSUME NEW r \in Requests, FailEarly(r) PROVE KeyInv'
    BY <1>t, <1>w, <1>9 DEF FailEarly, Goto, tdVars, applyVars, mapVars, netVars, delVars,
       Alloc!Return, KeyInv, InFlight, Returned, PcAnnounced, PcUnlisted, PcWired, TdListed
  <1>10. ASSUME NEW r \in Requests, Register(r) PROVE KeyInv'
    BY <1>t, <1>w, <1>10 DEF Register, Step, Goto, sbVars, tdVars, applyVars, netVars, delVars,
       KeyInv, InFlight, Returned, PcAnnounced, PcUnlisted, PcWired, TdListed
  <1>11. ASSUME NEW r \in Requests, Announce(r) PROVE KeyInv'
    BY <1>t, <1>w, <1>11 DEF Announce, Step, Publish, Goto, sbVars, applyVars, netVars, delVars,
       KeyInv, InFlight, Returned, PcAnnounced, PcUnlisted, PcWired, TdListed
  <1>12. ASSUME NEW r \in Requests, WaitReady(r) PROVE KeyInv'
    BY <1>t, <1>w, <1>12 DEF WaitReady, Goto, tdVars, applyVars, mapVars, netVars, delVars,
       KeyInv, InFlight, Returned, PcAnnounced, PcUnlisted, PcWired, TdListed
  <1>13. ASSUME NEW r \in Requests, WaitApplied(r) PROVE KeyInv'
    BY <1>t, <1>w, <1>13 DEF WaitApplied, Step, Goto, sbVars, tdVars, applyVars, mapVars, netVars,
       delVars, KeyInv, InFlight, Returned, PcAnnounced, PcUnlisted, PcWired, TdListed
  <1>14. ASSUME NEW r \in Requests, NotifyReady(r) PROVE KeyInv'
    BY <1>t, <1>w, <1>14 DEF NotifyReady, Step, Goto, tdVars, applyVars, mapVars, netVars,
       delVars, KeyInv, InFlight, Returned, PcAnnounced, PcUnlisted, PcWired, TdListed
  <1>15. ASSUME NEW r \in Requests, FinishCreate(r) PROVE KeyInv'
    BY <1>t, <1>w, <1>15 DEF FinishCreate, Step, Publish, Goto, sbVars, tdVars, netVars, delVars,
       KeyInv, InFlight, Returned, PcAnnounced, PcUnlisted, PcWired, TdListed
  <1>16. ASSUME NEW r \in Requests, TdWake(r) PROVE KeyInv'
    BY <1>t, <1>w, <1>16 DEF TdWake, TdStep, Publish, createVars, applyVars, netVars, delVars,
       KeyInv, InFlight, Returned, PcAnnounced, PcUnlisted, PcWired, TdListed
  <1>17. ASSUME NEW r \in Requests, TdStopAgent(r) PROVE KeyInv'
    BY <1>t, <1>w, <1>17 DEF TdStopAgent, TdStep, createVars, applyVars, mapVars, netVars,
       delVars, KeyInv, InFlight, Returned, PcAnnounced, PcUnlisted, PcWired, TdListed
  <1>18. ASSUME NEW r \in Requests, TdDrain(r) PROVE KeyInv'
    BY <1>t, <1>w, <1>18 DEF TdDrain, TdStep, createVars, sbVars, applyVars, mapVars, netVars,
       delVars, KeyInv, InFlight, Returned, PcAnnounced, PcUnlisted, PcWired, TdListed
  <1>19. ASSUME NEW r \in Requests, TdFlushed(r) PROVE KeyInv'
    BY <1>t, <1>w, <1>19 DEF TdFlushed, TdStep, createVars, sbVars, applyVars, mapVars, netVars,
       delVars, KeyInv, InFlight, Returned, PcAnnounced, PcUnlisted, PcWired, TdListed
  <1>20. ASSUME NEW r \in Requests, TdUnroute(r) PROVE KeyInv'
    BY <1>t, <1>w, <1>20 DEF TdUnroute, TdStep, createVars, sbVars, applyVars, mapVars, delVars,
       KeyInv, InFlight, Returned, PcAnnounced, PcUnlisted, PcWired, TdListed
  <1>21. ASSUME NEW r \in Requests, TdClearEgress(r) PROVE KeyInv'
    BY <1>t, <1>w, <1>21 DEF TdClearEgress, TdStep, SetEgress, createVars, sbVars, applyVars,
       mapVars, delVars, KeyInv, InFlight, Returned, PcAnnounced, PcUnlisted, PcWired, TdListed
  <1>22. ASSUME NEW r \in Requests, TdReleaseSlot(r) PROVE KeyInv'
    BY <1>t, <1>w, <1>22 DEF TdReleaseSlot, TdStep, createVars, sbVars, applyVars, mapVars,
       netVars, delVars, Alloc!Return, KeyInv, InFlight, Returned, PcAnnounced, PcUnlisted,
       PcWired, TdListed
  <1>23. ASSUME NEW r \in Requests, TdClearTree(r) PROVE KeyInv'
    BY <1>t, <1>w, <1>23 DEF TdClearTree, TdStep, createVars, sbVars, applyVars, mapVars, netVars,
       delVars, KeyInv, InFlight, Returned, PcAnnounced, PcUnlisted, PcWired, TdListed
  <1>24. ASSUME NEW r \in Requests, TdUnlist(r) PROVE KeyInv'
    BY <1>t, <1>w, <1>24 DEF TdUnlist, TdStep, createVars, sbVars, applyVars, netVars, delVars,
       KeyInv, InFlight, Returned, PcAnnounced, PcUnlisted, PcWired, TdListed
  <1>25. ASSUME NEW r \in Requests, TdStopped(r) PROVE KeyInv'
    BY <1>t, <1>w, <1>25 DEF TdStopped, TdStep, Publish, createVars, sbVars, applyVars, netVars,
       delVars, KeyInv, InFlight, Returned, PcAnnounced, PcUnlisted, PcWired, TdListed
  <1>26. ASSUME NEW r \in Requests,
               AgentExit(r) \/ Expire(r) \/ ApplyConfig(r) \/ WatcherTake(r) \/ WatcherExit(r)
               \/ WatcherReconcile(r)
        PROVE  KeyInv'
    BY <1>w, <1>0, <1>26 DEF AgentExit, createVars, tdVars, applyVars, mapVars, netVars, delVars,
       Expire, ApplyConfig, sbVars, WatcherTake, WatcherExit, WatcherReconcile
  <1>27. ASSUME NEW d \in Deletes, NEW k \in Keys,
               Delete(d, k)
        PROVE  KeyInv'
    BY <1>w, <1>0, <1>27 DEF Delete, createVars, tdVars, applyVars, mapVars, netVars
  <1>28. ASSUME NEW d \in Deletes,
               DeleteOk(d) \/ DeleteGivesUp(d)
        PROVE  KeyInv'
    BY <1>w, <1>0, <1>28 DEF DeleteOk, createVars, sbVars, tdVars, applyVars, mapVars, netVars,
       DeleteGivesUp
  <1>29. ASSUME NEW a \in Addrs,
               Reload(a)
        PROVE  KeyInv'
    BY <1>w, <1>0, <1>29 DEF Reload, createVars, sbVars, tdVars, applyVars, mapVars, delVars
  <1>. QED  BY <1>0, <1>1, <1>2, <1>3, <1>4, <1>5, <1>6, <1>7, <1>8, <1>9, <1>10, <1>11, <1>12, <1>13,
       <1>14, <1>15, <1>16, <1>17, <1>18, <1>19, <1>20, <1>21, <1>22, <1>23, <1>24, <1>25, <1>26,
       <1>27, <1>28, <1>29 DEF Next, PodStep, CreateStep, Teardown, Watcher

\* The delete barrier.
LEMMA DurableStep ==
  ASSUME TypeOK, CtlInv, DurableInv, Next
  PROVE  DurableInv'
  <1>t. /\ td \in [Requests -> TdStates] /\ durable \subseteq Requests /\ NoReq \notin Requests
        /\ dPc \in [Deletes -> {"idle", "waiting", "ok", "gaveUp", "notFound"}]
        /\ dTarget \in [Deletes -> Requests \union {NoReq}]
        /\ sandboxes \in [Keys -> Requests \union {NoReq}]
    BY NameAssumption DEF TypeOK
  <1>w. world' = world /\ KeyOf' = KeyOf
    BY DEF Next, KeyOf
  <1>0. CASE UNCHANGED <<world, td, durable, dPc, dTarget>>
    BY <1>w, <1>0 DEF DurableInv, TdDrained
  <1>1. ASSUME NEW r \in Requests, Announce(r) PROVE DurableInv'
    BY <1>t, <1>w, <1>1 DEF Announce, Step, Publish, Goto, sbVars, applyVars, netVars, delVars,
       DurableInv, TdDrained
  <1>2. ASSUME NEW r \in Requests, TdWake(r) PROVE DurableInv'
    BY <1>t, <1>w, <1>2 DEF TdWake, TdStep, Publish, createVars, applyVars, netVars, delVars,
       DurableInv, TdDrained
  <1>3. ASSUME NEW r \in Requests, TdStopAgent(r) PROVE DurableInv'
    BY <1>t, <1>w, <1>3 DEF TdStopAgent, TdStep, createVars, applyVars, mapVars, netVars, delVars,
       DurableInv, TdDrained
  <1>4. ASSUME NEW r \in Requests, TdDrain(r) PROVE DurableInv'
    BY <1>t, <1>w, <1>4 DEF TdDrain, TdStep, createVars, sbVars, applyVars, mapVars, netVars,
       delVars, DurableInv, TdDrained
  <1>5. ASSUME NEW r \in Requests, TdFlushed(r) PROVE DurableInv'
    BY <1>t, <1>w, <1>5 DEF TdFlushed, TdStep, createVars, sbVars, applyVars, mapVars, netVars,
       delVars, DurableInv, TdDrained
  <1>6. ASSUME NEW r \in Requests, TdUnroute(r) PROVE DurableInv'
    BY <1>t, <1>w, <1>6 DEF TdUnroute, TdStep, createVars, sbVars, applyVars, mapVars, delVars,
       DurableInv, TdDrained
  <1>7. ASSUME NEW r \in Requests, TdClearEgress(r) PROVE DurableInv'
    BY <1>t, <1>w, <1>7 DEF TdClearEgress, TdStep, SetEgress, createVars, sbVars, applyVars,
       mapVars, delVars, DurableInv, TdDrained
  <1>8. ASSUME NEW r \in Requests, TdReleaseSlot(r) PROVE DurableInv'
    BY <1>t, <1>w, <1>8 DEF TdReleaseSlot, TdStep, createVars, sbVars, applyVars, mapVars,
       netVars, delVars, Alloc!Return, DurableInv, TdDrained
  <1>9. ASSUME NEW r \in Requests, TdClearTree(r) PROVE DurableInv'
    BY <1>t, <1>w, <1>9 DEF TdClearTree, TdStep, createVars, sbVars, applyVars, mapVars, netVars,
       delVars, DurableInv, TdDrained
  <1>10. ASSUME NEW r \in Requests, TdUnlist(r) PROVE DurableInv'
    BY <1>t, <1>w, <1>10 DEF TdUnlist, TdStep, createVars, sbVars, applyVars, netVars, delVars,
       DurableInv, TdDrained
  <1>11. ASSUME NEW r \in Requests, TdStopped(r) PROVE DurableInv'
    BY <1>t, <1>w, <1>11 DEF TdStopped, TdStep, Publish, createVars, sbVars, applyVars, netVars,
       delVars, DurableInv, TdDrained
  <1>12. ASSUME NEW d \in Deletes, NEW k \in Keys, Delete(d, k) PROVE DurableInv'
    BY <1>t, <1>w, <1>12 DEF Delete, createVars, tdVars, applyVars, mapVars, netVars, DurableInv,
       TdDrained
  <1>13. ASSUME NEW d \in Deletes, DeleteOk(d) PROVE DurableInv'
    BY <1>t, <1>w, <1>13 DEF DeleteOk, createVars, sbVars, tdVars, applyVars, mapVars, netVars,
       DurableInv, TdDrained, Flushed
  <1>14. ASSUME NEW d \in Deletes, DeleteGivesUp(d) PROVE DurableInv'
    BY <1>t, <1>w, <1>14 DEF DeleteGivesUp, createVars, sbVars, tdVars, applyVars, mapVars,
       netVars, DurableInv, TdDrained
  <1>15. ASSUME NEW r \in Requests,
               Lookup(r) \/ Admit(r) \/ Abandon(r) \/ ClaimSlot(r) \/ Wire(r)
               \/ CreateSetEgress(r) \/ RouterRegister(r) \/ Launch(r) \/ FailEarly(r)
               \/ Register(r) \/ WaitReady(r) \/ WaitApplied(r) \/ NotifyReady(r)
               \/ FinishCreate(r) \/ AgentExit(r) \/ Expire(r) \/ ApplyConfig(r)
               \/ WatcherTake(r) \/ WatcherExit(r) \/ WatcherReconcile(r)
        PROVE  DurableInv'
    BY <1>w, <1>0, <1>15 DEF Lookup, sbVars, tdVars, applyVars, mapVars, netVars, delVars, Admit,
       Abandon, ClaimSlot, Wire, CreateSetEgress, RouterRegister, Launch, FailEarly, Register,
       WaitReady, WaitApplied, NotifyReady, FinishCreate, AgentExit, createVars, Expire,
       ApplyConfig, WatcherTake, WatcherExit, WatcherReconcile
  <1>16. ASSUME NEW a \in Addrs,
               Reload(a)
        PROVE  DurableInv'
    BY <1>w, <1>0, <1>16 DEF Reload, createVars, sbVars, tdVars, applyVars, mapVars, delVars
  <1>. QED  BY <1>0, <1>1, <1>2, <1>3, <1>4, <1>5, <1>6, <1>7, <1>8, <1>9, <1>10, <1>11, <1>12, <1>13,
       <1>14, <1>15, <1>16 DEF Next, PodStep, CreateStep, Teardown, Watcher

-----------------------------------------------------------------------------
LEMMA InitInv == Init => IInv
  <1>. SUFFICES ASSUME Init PROVE IInv
    OBVIOUS
  <1>1. world \in Worlds /\ KeyOf \in [Requests -> Keys] /\ world.applies \in Nat
    BY WorldAssumption DEF Init, World, KeyOf
  <1>2. holder = [r \in Requests |-> 0]
    BY DEF Init, Alloc!AllocInit
  <1>3. TypeOK
    BY <1>1, <1>2 DEF Init, TypeOK, PcStates, TdStates
  <1>4. CtlInv
    BY <1>1 DEF Init, CtlInv, PcAnnounced
  <1>5. \A r \in Requests : /\ ~Owns(r, PcClaimed, TdBeforeRelease)
                            /\ ~Owns(r, PcPolicied, TdBeforeClear)
                            /\ ~Owns(r, PcRouted, TdBeforeUnroute)
    BY DEF Init, Owns, PcClaimed, PcPolicied, PcRouted, PcLaunched, PcAnnounced
  <1>6. SlotInv
    BY <1>2, <1>5 DEF Init, SlotInv, PcClaimed, PcPolicied, PcRouted, PcLaunched, PcAnnounced
  <1>7. RouteInv /\ GenInv /\ OwnInv
    BY <1>5 DEF RouteInv, GenInv, OwnInv
  <1>8. BoundInv
    BY DEF Init, BoundInv
  <1>9. GateInv
    BY DEF Init, GateInv
  <1>10. KeyInv
    BY DEF Init, KeyInv, InFlight, PcUnlisted, PcWired, TdListed
  <1>11. DurableInv
    BY DEF Init, DurableInv, TdDrained
  <1>. QED  BY <1>3, <1>4, <1>6, <1>7, <1>8, <1>9, <1>10, <1>11 DEF IInv, PolicyInv

LEMMA StepInv == IInv /\ [Next]_vars => IInv'
  <1>1. ASSUME IInv, Next PROVE IInv'
    BY <1>1, TypeStep, CtlStep, SlotStep, RouteStep, GenStep, OwnStep, BoundStep, GateStep, KeyStep,
       DurableStep DEF IInv, PolicyInv
  <1>2. ASSUME IInv, UNCHANGED vars PROVE IInv'
    <2>1. /\ UNCHANGED <<world, pc, ip, gen, holder, cancelled, alive, ready, stopping, td, durable>>
          /\ UNCHANGED <<watcher, queue, applies, sandboxes, view, router, writes, enforced, tree>>
          /\ UNCHANGED <<dPc, dTarget, KeyOf>>
      BY <1>2 DEF vars, podVars, createVars, sbVars, tdVars, applyVars, mapVars, netVars, delVars, KeyOf
    <2>2. TypeOK' /\ CtlInv' /\ KeyInv' /\ DurableInv'
      BY <1>2, <2>1 DEF IInv, TypeOK, CtlInv, KeyInv, InFlight, DurableInv
    <2>3. SlotInv' /\ RouteInv' /\ PolicyInv'
      BY <1>2, <2>1 DEF IInv, SlotInv, RouteInv, PolicyInv, GenInv, OwnInv, BoundInv, GateInv, Owns,
         NoStaleReconcile
    <2>. QED  BY <2>2, <2>3 DEF IInv
  <1>. QED  BY <1>1, <1>2

LEMMA Inductive == Spec => []IInv
  BY InitInv, StepInv, PTL DEF Spec

(* Every step of the pod keeps its state well formed.                      *)
THEOREM TypeCorrect == Spec => []TypeOK
  <1>1. IInv => TypeOK
    BY DEF IInv
  <1>. QED  BY <1>1, Inductive, PTL

\* A running workload's address is its own, in every respect.
LEMMA ServingOwns ==
  ASSUME IInv, NEW r \in Requests, Serving(r)
  PROVE  Owns(r, PcRouted, TdBeforeUnroute) /\ Owns(r, PcPolicied, TdBeforeClear) /\ ip[r] \in Addrs
  <1>1. pc[r] \in PcLaunched /\ td[r] \in {"none", "waiting", "stopping"}
    BY DEF IInv, CtlInv, Serving
  <1>. QED
    BY <1>1 DEF IInv, SlotInv, Owns, PcRouted, PcPolicied, PcClaimed, TdBeforeUnroute, TdBeforeClear

(* packed.go:791: whatever creates, failures and teardowns overlap, the    *)
(* audit route of a running workload's address is its own, and so is the   *)
(* policy stored for it where no stale watcher can write.                  *)
THEOREM AddressOwnedHolds == Spec => []AddressOwned
  <1>1. IInv => AddressOwned
    <2>. SUFFICES ASSUME IInv, NEW r \in Requests, Serving(r)
                  PROVE  router[ip[r]] = r /\ (NoStaleReconcile => StoredFor(ip[r]) = r)
      BY DEF AddressOwned
    <2>1. router[ip[r]] = r
      BY ServingOwns DEF IInv, RouteInv
    <2>2. ASSUME NoStaleReconcile PROVE StoredFor(ip[r]) = r
      <3>1. /\ gen[r] \in 1..Len(writes[ip[r]]) /\ ip[r] \in Addrs
            /\ \A n \in gen[r]..Len(writes[ip[r]]) : writes[ip[r]][n] = r
        BY <2>2, ServingOwns DEF IInv, PolicyInv, GenInv, OwnInv
      <3>2. writes[ip[r]] \in Seq(Requests \union {NoReq}) /\ Len(writes[ip[r]]) \in Nat
        BY <3>1 DEF IInv, TypeOK
      <3>3. writes[ip[r]] # <<>> /\ Len(writes[ip[r]]) \in gen[r]..Len(writes[ip[r]])
        BY <3>1, <3>2
      <3>. QED  BY <3>1, <3>3 DEF StoredFor
    <2>. QED  BY <2>1, <2>2
  <1>. QED  BY <1>1, Inductive, PTL

(* packed.go:878: a sandbox that answers requests has its own policy       *)
(* enforced, behind any number of coalesced reloads and after whatever the *)
(* address's former tenants wrote.                                         *)
THEOREM ReadyMeansEnforcedHolds == Spec => []ReadyMeansEnforced
  <1>1. IInv => ReadyMeansEnforced
    <2>. SUFFICES ASSUME IInv, ~world.reloadLapses, NoStaleReconcile, NEW r \in Requests,
                         ready[r], alive[r], ~cancelled[r]
                  PROVE  EnforcedFor(ip[r]) = r
      BY DEF ReadyMeansEnforced
    <2>1. pc[r] \in {"ready", "done"} /\ Serving(r)
      BY DEF IInv, CtlInv, Serving
    <2>2. gen[r] <= enforced[ip[r]]
      BY <2>1 DEF IInv, PolicyInv, GateInv
    <2>3. /\ gen[r] \in 1..Len(writes[ip[r]]) /\ ip[r] \in Addrs
          /\ \A n \in gen[r]..Len(writes[ip[r]]) : writes[ip[r]][n] = r
      BY <2>1, ServingOwns DEF IInv, PolicyInv, GenInv, OwnInv
    <2>4. /\ enforced[ip[r]] \in Nat /\ enforced[ip[r]] <= Len(writes[ip[r]])
          /\ Len(writes[ip[r]]) \in Nat
      BY <2>3 DEF IInv, TypeOK, PolicyInv, BoundInv
    <2>5. enforced[ip[r]] # 0 /\ enforced[ip[r]] \in gen[r]..Len(writes[ip[r]])
      BY <2>2, <2>3, <2>4
    <2>. QED  BY <2>3, <2>5 DEF EnforcedFor
  <1>. QED  BY <1>1, Inductive, PTL

(* packed.go:805, supervisor.go:128: a key's running sandbox keeps its     *)
(* entry and its workspace tree, whatever the teardown of the key's former *)
(* sandbox still does.                                                     *)
THEOREM KeyOwnedHolds == Spec => []KeyOwned
  <1>1. IInv => KeyOwned
    <2>. SUFFICES ASSUME IInv, NEW r \in Requests, Serving(r), td[r] # "none"
                  PROVE  sandboxes[KeyOf[r]] = r /\ tree[KeyOf[r]] = r
      BY DEF KeyOwned
    <2>1. td[r] \in {"waiting", "stopping"}
      BY DEF IInv, CtlInv, Serving
    <2>. QED  BY <2>1 DEF IInv, KeyInv, TdListed
  <1>. QED  BY <1>1, Inductive, PTL

(* packed.go:778, supervisor.go:167: a DELETE that returns means the       *)
(* shutdown snapshot is durable, where nothing cuts the drain short.       *)
THEOREM DurableDeleteHolds == Spec => []DurableDelete
  <1>1. IInv => DurableDelete
    BY DEF IInv, DurableInv, DurableDelete
  <1>. QED  BY <1>1, Inductive, PTL

-----------------------------------------------------------------------------
(* What the pod relies on: it uses slots the way SlotAlloc lends them, and *)
(* policies the way EgressPromise keeps them, so that SlotPool and         *)
(* EgressGate may be put in their place.                                   *)

(* packed.go:397, :794: the pod's claims and releases are those of         *)
(* SlotAlloc: no slot is returned twice, or by a sandbox without one.      *)
THEOREM UsesSlots == Spec => Alloc!Spec
  <1>1. Init => Alloc!AllocInit
    BY DEF Init
  <1>2. ASSUME IInv, [Next]_vars PROVE [Alloc!AllocNext]_holder
    <2>1. holder \in [Requests -> Addrs \union {0}] /\ Addrs \subseteq Nat \ {0}
      BY <1>2, NameAssumption DEF IInv, TypeOK
    <2>2. ASSUME NEW r \in Requests, ClaimSlot(r) PROVE Alloc!AllocNext
      <3>1. PICK a \in world.addrs : Alloc!Acquire(r, a)
        BY <2>2 DEF ClaimSlot
      <3>2. holder'[r] = a
        BY <2>1, <3>1 DEF Alloc!Acquire
      <3>. QED  BY <3>1, <3>2 DEF Alloc!AllocNext
    <2>3. ASSUME NEW r \in Requests, FailEarly(r) \/ TdReleaseSlot(r) PROVE Alloc!AllocNext
      BY <2>3 DEF FailEarly, TdReleaseSlot, Alloc!AllocNext
    <2>4. CASE UNCHANGED holder
      BY <2>4
    <2>5. ASSUME NEW r \in Requests,
               Lookup(r) \/ Admit(r) \/ Abandon(r) \/ Wire(r) \/ CreateSetEgress(r)
               \/ RouterRegister(r) \/ Launch(r) \/ Register(r) \/ Announce(r) \/ WaitReady(r)
               \/ WaitApplied(r) \/ NotifyReady(r) \/ FinishCreate(r) \/ AgentExit(r)
               \/ Expire(r) \/ TdWake(r) \/ TdStopAgent(r) \/ TdDrain(r) \/ TdFlushed(r)
               \/ TdUnroute(r) \/ TdClearEgress(r) \/ TdClearTree(r) \/ TdUnlist(r)
               \/ TdStopped(r) \/ ApplyConfig(r) \/ WatcherTake(r) \/ WatcherExit(r)
               \/ WatcherReconcile(r)
          PROVE  UNCHANGED holder
      BY <2>5 DEF Lookup, sbVars, tdVars, applyVars, mapVars, netVars, delVars, Admit, Abandon,
         Wire, CreateSetEgress, RouterRegister, Launch, Register, Announce, WaitReady,
         WaitApplied, NotifyReady, FinishCreate, AgentExit, createVars, Expire, TdWake,
         TdStopAgent, TdDrain, TdFlushed, TdUnroute, TdClearEgress, TdClearTree, TdUnlist,
         TdStopped, ApplyConfig, WatcherTake, WatcherExit, WatcherReconcile
    <2>6. ASSUME NEW d \in Deletes, NEW k \in Keys,
               Delete(d, k)
          PROVE  UNCHANGED holder
      BY <2>6 DEF Delete, createVars, tdVars, applyVars, mapVars, netVars
    <2>7. ASSUME NEW d \in Deletes,
               DeleteOk(d) \/ DeleteGivesUp(d)
          PROVE  UNCHANGED holder
      BY <2>7 DEF DeleteOk, createVars, sbVars, tdVars, applyVars, mapVars, netVars, DeleteGivesUp
    <2>8. ASSUME NEW a \in Addrs,
               Reload(a)
          PROVE  UNCHANGED holder
      BY <2>8 DEF Reload, createVars, sbVars, tdVars, applyVars, mapVars, delVars
    <2>9. ASSUME UNCHANGED vars PROVE UNCHANGED holder
      BY <2>9 DEF vars, podVars, createVars, sbVars, tdVars, applyVars, mapVars, netVars, delVars
    <2>. QED
      BY <1>2, <2>2, <2>3, <2>5, <2>6, <2>7, <2>8, <2>9 DEF Next, PodStep, CreateStep, Teardown,
         Watcher
  <1>. QED  BY <1>1, <1>2, Inductive, PTL DEF Spec, Alloc!Spec

(* packed.go:275, :241: every policy the pod writes is one Store, every    *)
(* reload one Install of EgressPromise; the enforced write never moves     *)
(* back and never ahead of what was written.                               *)
THEOREM UsesPolicies == Spec => Egress!Spec
  <1>1. Init => Egress!PromiseInit
    BY DEF Init, Egress!PromiseInit
  <1>2. ASSUME IInv, [Next]_vars PROVE [Egress!PromiseNext]_(Egress!promiseVars)
    <2>1. writes \in [Addrs -> Seq(Requests \union {NoReq})] /\ enforced \in [Addrs -> Nat]
      BY <1>2 DEF IInv, TypeOK
    <2>2. ASSUME NEW a \in Addrs, NEW w \in Requests \union {NoReq}, SetEgress(a, w),
                 UNCHANGED enforced
          PROVE  Egress!PromiseNext
      <3>1. [b \in Addrs |-> Len(writes'[b])]
              = [[b \in Addrs |-> Len(writes[b])] EXCEPT ![a] = Len(writes[a]) + 1]
        <4>1. /\ Len(writes'[a]) = Len(writes[a]) + 1
              /\ \A b \in Addrs : b # a => writes'[b] = writes[b]
          BY <1>2, <2>2, WriteFacts DEF IInv
        <4>. QED  BY <4>1
      <3>. QED  BY <2>2, <3>1 DEF Egress!PromiseNext, Egress!Store
    <2>3. ASSUME NEW a \in Addrs, Reload(a) PROVE Egress!PromiseNext
      <3>1. PICK n \in enforced[a] + 1 .. Len(writes[a]) : enforced' = [enforced EXCEPT ![a] = n]
        BY <2>3 DEF Reload
      <3>2. \A b \in Addrs : Len(writes[b]) \in Nat /\ enforced[b] \in Nat
        BY <2>1
      <3>3. n \in Nat /\ enforced[a] <= n /\ n <= Len(writes[a])
        BY <3>1, <3>2
      <3>4. enforced' \in [Addrs -> Nat]
        BY <2>1, <3>1, <3>3
      <3>5. \A b \in Addrs : enforced[b] <= enforced'[b] /\ enforced'[b] <= Len(writes[b])
        <4>1. \A b \in Addrs : enforced[b] <= Len(writes[b])
          BY <1>2 DEF IInv, PolicyInv, BoundInv
        <4>. QED  BY <2>1, <3>1, <3>2, <3>3, <4>1
      <3>6. writes' = writes
        BY <2>3 DEF Reload
      <3>. QED  BY <3>4, <3>5, <3>6 DEF Egress!PromiseNext, Egress!Install
    <2>4. ASSUME UNCHANGED <<writes, enforced>> PROVE UNCHANGED Egress!promiseVars
      BY <2>4 DEF Egress!promiseVars
    <2>5. ASSUME NEW r \in Requests, CreateSetEgress(r) \/ TdClearEgress(r) \/ WatcherReconcile(r)
          PROVE  Egress!PromiseNext
      <3>1. ip[r] \in Addrs
        BY <1>2, <2>5 DEF CreateSetEgress, TdClearEgress, WatcherReconcile, Step, TdStep, IInv, CtlInv,
           SlotInv, PcClaimed, PcPolicied, PcRouted, PcLaunched, PcAnnounced
      <3>2. PICK w \in Requests \union {NoReq} : SetEgress(ip[r], w) /\ UNCHANGED enforced
        BY <2>5 DEF CreateSetEgress, TdClearEgress, WatcherReconcile
      <3>. QED  BY <2>2, <3>1, <3>2
    <2>6. ASSUME NEW r \in Requests,
               Lookup(r) \/ Admit(r) \/ Abandon(r) \/ ClaimSlot(r) \/ Wire(r)
               \/ RouterRegister(r) \/ Launch(r) \/ FailEarly(r) \/ Register(r) \/ Announce(r)
               \/ WaitReady(r) \/ WaitApplied(r) \/ NotifyReady(r) \/ FinishCreate(r)
               \/ AgentExit(r) \/ Expire(r) \/ TdWake(r) \/ TdStopAgent(r) \/ TdDrain(r)
               \/ TdFlushed(r) \/ TdUnroute(r) \/ TdReleaseSlot(r) \/ TdClearTree(r)
               \/ TdUnlist(r) \/ TdStopped(r) \/ ApplyConfig(r) \/ WatcherTake(r)
               \/ WatcherExit(r)
          PROVE  UNCHANGED <<writes, enforced>>
      BY <2>6 DEF Lookup, sbVars, tdVars, applyVars, mapVars, netVars, delVars, Admit, Abandon,
         ClaimSlot, Wire, RouterRegister, Launch, FailEarly, Register, Announce, WaitReady,
         WaitApplied, NotifyReady, FinishCreate, AgentExit, createVars, Expire, TdWake,
         TdStopAgent, TdDrain, TdFlushed, TdUnroute, TdReleaseSlot, TdClearTree, TdUnlist,
         TdStopped, ApplyConfig, WatcherTake, WatcherExit
    <2>7. ASSUME NEW d \in Deletes, NEW k \in Keys,
               Delete(d, k)
          PROVE  UNCHANGED <<writes, enforced>>
      BY <2>7 DEF Delete, createVars, tdVars, applyVars, mapVars, netVars
    <2>8. ASSUME NEW d \in Deletes,
               DeleteOk(d) \/ DeleteGivesUp(d)
          PROVE  UNCHANGED <<writes, enforced>>
      BY <2>8 DEF DeleteOk, createVars, sbVars, tdVars, applyVars, mapVars, netVars, DeleteGivesUp
    <2>9. ASSUME UNCHANGED vars PROVE UNCHANGED <<writes, enforced>>
      BY <2>9 DEF vars, podVars, createVars, sbVars, tdVars, applyVars, mapVars, netVars, delVars
    <2>. QED
      BY <1>2, <2>3, <2>4, <2>5, <2>6, <2>7, <2>8, <2>9 DEF Next, PodStep, CreateStep, Teardown,
         Watcher
  <1>. QED  BY <1>1, <1>2, Inductive, PTL DEF Spec, Egress!Spec

=============================================================================

------------------------------ MODULE PackPod ------------------------------
(***************************************************************************)
(* The life of the sandboxes of one pack pod (internal/sandboxd): Create   *)
(* and createPacked, the teardown goroutine, Delete, and the goroutine     *)
(* that reconciles a config apply, run concurrently over the state the     *)
(* sandboxes share: the supervisor's map, the network slots (SlotAlloc),   *)
(* the audit router, the per-source egress policies (EgressPromise), the   *)
(* per-key workspace trees and the pod's lifecycle events.                 *)
(*                                                                         *)
(* A request is one POST of a key and the sandbox it may bring up.  A      *)
(* policy is named by the request whose config it comes from.              *)
(***************************************************************************)
EXTENDS Naturals, Sequences, FiniteSets

CONSTANTS
  Requests,  \* creates
  Keys,
  Deletes,   \* deletes
  Addrs,     \* slots of the pod, positive numbers
  NoReq,     \* "no request"
  Worlds     \* the settings a behaviour may have, see World

\* Who acts in a behaviour, on how many slots, and what may go wrong in it.
World ==
  [key : [Requests -> Keys],       \* the key each request names
   requests : SUBSET Requests,     \* the creates that are made
   deletes : SUBSET Deletes,       \* the deletes that are made
   addrs : SUBSET Addrs,           \* the slots the pod can hand out
   launches : Nat,                 \* -max-concurrent-launches
   applies : Nat,                  \* bound on the config applies
   createFails : BOOLEAN,          \* may a step of createPacked fail?
   reloadLapses : BOOLEAN,         \* may waitApplied time out?
   drainLapses : BOOLEAN]          \* may the capture or the oplog drain be cut short?

ASSUME NameAssumption  == NoReq \notin Requests /\ Addrs \subseteq Nat \ {0}
ASSUME WorldAssumption == Worlds \subseteq World

VARIABLES
  world,      \* the setting of this behaviour, which no step changes
  pc,         \* where each create is
  holder,     \* the slot each request holds, 0 for none
  ip,         \* its local copy of the slot's address, kept after the release
  gen,        \* egressGen: the number of its write to the slot's policy
  cancelled,  \* has its sbCtx been cancelled?
  alive,      \* is its workload process running?
  ready,      \* Sandbox.readyCh closed
  stopping,   \* Sandbox.stopping
  td,         \* where its teardown goroutine is
  watcher,    \* where its config watcher is
  queue,      \* config.apply events in the watcher's channel
  applies,    \* config applies so far
  sandboxes,  \* supervisor.sandboxes, .cancels and .snapFlushed
  router,     \* proxyRouter.m: whose broker gets a source's audit events
  writes,     \* the policies written for each source, in order
  enforced,   \* which of them sbxproxy enforces, 0 for none
  tree,       \* whose workspaces are mounted under /run/sandboxd/<key>
  durable,    \* requests whose shutdown snapshot reached the remote backend
  dPc,        \* where each delete is
  dTarget,    \* the sandbox it found
  view        \* the last PodEvent published for each key

createVars == <<pc, ip, gen>>
sbVars     == <<cancelled, alive, ready, stopping>>
tdVars     == <<td, durable>>
applyVars  == <<watcher, queue, applies>>
mapVars    == <<sandboxes, view>>
netVars    == <<router, writes, enforced>>
delVars    == <<dPc, dTarget>>
podVars == <<createVars, holder, sbVars, tdVars, applyVars, mapVars, netVars, tree, delVars>>
vars == <<world, podVars>>

Alloc  == INSTANCE SlotAlloc WITH Tenants <- Requests, Octets <- Addrs
Egress == INSTANCE EgressPromise WITH
            IPs <- Addrs, stored <- [a \in Addrs |-> Len(writes[a])], acked <- {}

KeyOf == world.key

Init ==
  /\ world \in Worlds
  /\ pc = [r \in Requests |-> "idle"]
  /\ Alloc!AllocInit
  /\ ip = [r \in Requests |-> 0]
  /\ gen = [r \in Requests |-> 0]
  /\ cancelled = [r \in Requests |-> FALSE]
  /\ alive = [r \in Requests |-> FALSE]
  /\ ready = [r \in Requests |-> FALSE]
  /\ stopping = [r \in Requests |-> FALSE]
  /\ td = [r \in Requests |-> "none"]
  /\ watcher = [r \in Requests |-> "off"]
  /\ queue = [r \in Requests |-> 0]
  /\ applies = 0
  /\ sandboxes = [k \in Keys |-> NoReq]
  /\ router = [a \in Addrs |-> NoReq]
  /\ writes = [a \in Addrs |-> <<>>]
  /\ enforced = [a \in Addrs |-> 0]
  /\ tree = [k \in Keys |-> NoReq]
  /\ durable = {}
  /\ dPc = [d \in Deletes |-> "idle"]
  /\ dTarget = [d \in Deletes |-> NoReq]
  /\ view = [k \in Keys |-> "none"]

Goto(r, to) == pc' = [pc EXCEPT ![r] = to]
Step(r, from, to) == pc[r] = from /\ Goto(r, to)
Publish(r, status) == view' = [view EXCEPT ![KeyOf[r]] = status]
SetEgress(a, who) == writes' = [writes EXCEPT ![a] = Append(writes[a], who)]

Returned  == {"existing", "done", "failed"}
Queued    == {"idle", "new"}
InFlight(r) == pc[r] \notin Returned \union {"idle"}
Launching == {r \in Requests : pc[r] \notin Returned \union Queued}

-----------------------------------------------------------------------------
(* CreateSandbox and supervisor.Create.  A key already in the map is       *)
(* answered with its sandbox.  The controller's keyedMutex lets one create *)
(* of a key through at a time.                                             *)
Lookup(r) ==
  /\ pc[r] = "idle" /\ r \in world.requests
  /\ \A q \in Requests : KeyOf[q] = KeyOf[r] => ~InFlight(q)
  /\ \/ sandboxes[KeyOf[r]] # NoReq /\ Goto(r, "existing")
     \/ sandboxes[KeyOf[r]] = NoReq /\ Goto(r, "new")
  /\ UNCHANGED <<ip, gen, holder, sbVars, tdVars, applyVars, mapVars, netVars, tree, delVars>>

\* The launch semaphore, held until createPacked returns.
Admit(r) ==
  /\ Step(r, "new", "admitted")
  /\ Cardinality(Launching) < world.launches
  /\ UNCHANGED <<ip, gen, holder, sbVars, tdVars, applyVars, mapVars, netVars, tree, delVars>>

\* The request is cancelled while it queues for the semaphore.
Abandon(r) ==
  /\ world.createFails
  /\ Step(r, "new", "failed")
  /\ UNCHANGED <<ip, gen, holder, sbVars, tdVars, applyVars, mapVars, netVars, tree, delVars>>

ClaimSlot(r) ==
  /\ Step(r, "admitted", "claimed")
  /\ \E a \in world.addrs : Alloc!Acquire(r, a) /\ ip' = [ip EXCEPT ![r] = a]
  /\ UNCHANGED <<gen, sbVars, tdVars, applyVars, mapVars, netVars, tree, delVars>>

\* Root, CA, workspaces under /run/sandboxd/<key>, netns and redirect.
Wire(r) ==
  /\ Step(r, "claimed", "wired")
  /\ tree' = [tree EXCEPT ![KeyOf[r]] = r]
  /\ UNCHANGED <<ip, gen, holder, sbVars, tdVars, applyVars, mapVars, netVars, delVars>>

CreateSetEgress(r) ==
  /\ Step(r, "wired", "policied")
  /\ SetEgress(ip[r], r)
  /\ gen' = [gen EXCEPT ![r] = Len(writes[ip[r]]) + 1]
  /\ UNCHANGED <<ip, holder, sbVars, tdVars, applyVars, mapVars, router, enforced, tree, delVars>>

RouterRegister(r) ==
  /\ Step(r, "policied", "routed")
  /\ router' = [router EXCEPT ![ip[r]] = r]
  /\ UNCHANGED <<ip, gen, holder, sbVars, tdVars, applyVars, mapVars, writes, enforced, tree, delVars>>

Launch(r) ==
  /\ Step(r, "routed", "launched")
  /\ alive' = [alive EXCEPT ![r] = TRUE]
  /\ UNCHANGED <<ip, gen, holder, cancelled, ready, stopping, tdVars, applyVars, mapVars, netVars,
                 tree, delVars>>

\* Any step up to here may fail: the context is cancelled and the slot goes
\* back at once.  What the create wrote under the address or the key stays,
\* and a VM that failed to resume is signalled, not waited for.
FailEarly(r) ==
  /\ world.createFails
  /\ pc[r] \in {"claimed", "policied", "routed", "launched"}
  /\ Goto(r, "failed")
  /\ cancelled' = [cancelled EXCEPT ![r] = TRUE]
  /\ Alloc!Return(r)
  /\ UNCHANGED <<ip, gen, alive, ready, stopping, tdVars, applyVars, mapVars, netVars, tree, delVars>>

Register(r) ==
  /\ Step(r, "launched", "registered")
  /\ sandboxes' = [sandboxes EXCEPT ![KeyOf[r]] = r]
  /\ UNCHANGED <<ip, gen, holder, sbVars, tdVars, applyVars, view, netVars, tree, delVars>>

\* The starting event, then the teardown goroutine begins to wait.
Announce(r) ==
  /\ Step(r, "registered", "announced")
  /\ Publish(r, "starting")
  /\ td' = [td EXCEPT ![r] = "waiting"]
  /\ UNCHANGED <<ip, gen, holder, sbVars, durable, applyVars, sandboxes, netVars, tree, delVars>>

\* WaitReady or ApplyResumeState.  From here a failure leaves the cleaning up
\* to the teardown goroutine.
WaitReady(r) ==
  /\ pc[r] = "announced"
  /\ \/ Goto(r, "up") /\ UNCHANGED cancelled
     \/ /\ world.createFails \/ cancelled[r]
        /\ Goto(r, "failed")
        /\ cancelled' = [cancelled EXCEPT ![r] = TRUE]
  /\ UNCHANGED <<ip, gen, holder, alive, ready, stopping, tdVars, applyVars, mapVars, netVars, tree,
                 delVars>>

\* Faulty variant: readiness does not wait for the reload.
WaitApplied_Skip(r) ==
  /\ Step(r, "up", "gated")
  /\ UNCHANGED <<ip, gen, holder, sbVars, tdVars, applyVars, mapVars, netVars, tree, delVars>>

WaitApplied(r) ==
  /\ Step(r, "up", "gated")
  /\ Egress!Confirmable(ip[r], gen[r]) \/ cancelled[r] \/ world.reloadLapses
  /\ UNCHANGED <<ip, gen, holder, sbVars, tdVars, applyVars, mapVars, netVars, tree, delVars>>

NotifyReady(r) ==
  /\ Step(r, "gated", "ready")
  /\ ready' = [ready EXCEPT ![r] = TRUE]
  /\ UNCHANGED <<ip, gen, holder, cancelled, alive, stopping, tdVars, applyVars, mapVars, netVars,
                 tree, delVars>>

\* The running event, the config watcher's subscription, and the return.
FinishCreate(r) ==
  /\ Step(r, "ready", "done")
  /\ Publish(r, "running")
  /\ watcher' = [watcher EXCEPT ![r] = "on"]
  /\ UNCHANGED <<ip, gen, holder, sbVars, tdVars, queue, applies, sandboxes, netVars, tree, delVars>>

-----------------------------------------------------------------------------
(* The workload exits by itself, or after a failed create was signalled.   *)
AgentExit(r) ==
  /\ alive[r]
  /\ alive' = [alive EXCEPT ![r] = FALSE]
  /\ UNCHANGED <<createVars, holder, cancelled, ready, stopping, tdVars, applyVars, mapVars,
                 netVars, tree, delVars>>

(* Lifetime.Run: the TTL elapses without activity.                         *)
Expire(r) ==
  /\ td[r] = "waiting" /\ ~cancelled[r]
  /\ cancelled' = [cancelled EXCEPT ![r] = TRUE]
  /\ UNCHANGED <<createVars, holder, alive, ready, stopping, tdVars, applyVars, mapVars, netVars,
                 tree, delVars>>

(* The teardown goroutine, one action per step another goroutine can see.  *)
TdStep(r, from, to) == td[r] = from /\ td' = [td EXCEPT ![r] = to]

\* Faulty variant: only a cancel wakes the goroutine, not the agent's exit.
TdWake_OnCancel(r) ==
  /\ TdStep(r, "waiting", "stopping")
  /\ cancelled[r]
  /\ stopping' = [stopping EXCEPT ![r] = TRUE]
  /\ Publish(r, "stopping")
  /\ UNCHANGED <<createVars, holder, cancelled, alive, ready, durable, applyVars, sandboxes,
                 netVars, tree, delVars>>

TdWake(r) ==
  /\ TdStep(r, "waiting", "stopping")
  /\ cancelled[r] \/ ~alive[r]
  /\ cancelled' = [cancelled EXCEPT ![r] = TRUE]
  /\ stopping' = [stopping EXCEPT ![r] = TRUE]
  /\ Publish(r, "stopping")
  /\ UNCHANGED <<createVars, holder, alive, ready, durable, applyVars, sandboxes, netVars, tree,
                 delVars>>

\* FlushAgent, StopAgent, stopWorkload, Wait.
TdStopAgent(r) ==
  /\ TdStep(r, "stopping", "dead")
  /\ alive' = [alive EXCEPT ![r] = FALSE]
  /\ UNCHANGED <<createVars, holder, cancelled, ready, stopping, durable, applyVars, mapVars,
                 netVars, tree, delVars>>

\* Faulty variant: the barrier is released before the oplog has drained.
TdDrain_Later(r) ==
  /\ TdStep(r, "dead", "drained")
  /\ UNCHANGED <<createVars, holder, sbVars, durable, applyVars, mapVars, netVars, tree, delVars>>

\* CaptureSnapshot writes through the FUSE drive, stopAll unmounts each
\* workspace and waits for its oplog; errors and timeouts are only logged.
TdDrain(r) ==
  /\ TdStep(r, "dead", "drained")
  /\ \/ durable' = durable \union {r}
     \/ world.drainLapses /\ UNCHANGED durable
  /\ UNCHANGED <<createVars, holder, sbVars, applyVars, mapVars, netVars, tree, delVars>>

\* Faulty variant: the slot goes back before the address is cleaned up.
TdFlushed_ReleaseEarly(r) ==
  /\ TdStep(r, "drained", "flushed")
  /\ Alloc!Return(r)
  /\ UNCHANGED <<createVars, sbVars, durable, applyVars, mapVars, netVars, tree, delVars>>

TdFlushed(r) ==
  /\ TdStep(r, "drained", "flushed")
  /\ UNCHANGED <<createVars, holder, sbVars, durable, applyVars, mapVars, netVars, tree, delVars>>

TdUnroute(r) ==
  /\ TdStep(r, "flushed", "unrouted")
  /\ router' = [router EXCEPT ![ip[r]] = NoReq]
  /\ UNCHANGED <<createVars, holder, sbVars, durable, applyVars, mapVars, writes, enforced, tree,
                 delVars>>

TdClearEgress(r) ==
  /\ TdStep(r, "unrouted", "cleared")
  /\ SetEgress(ip[r], NoReq)
  /\ UNCHANGED <<createVars, holder, sbVars, durable, applyVars, mapVars, router, enforced, tree,
                 delVars>>

\* Faulty variant: the key is free again before its tree is removed.
TdReleaseSlot_UnlistFirst(r) ==
  /\ TdStep(r, "cleared", "released")
  /\ Alloc!Return(r)
  /\ sandboxes' = [sandboxes EXCEPT ![KeyOf[r]] = NoReq]
  /\ UNCHANGED <<createVars, sbVars, durable, applyVars, view, netVars, tree, delVars>>

TdReleaseSlot(r) ==
  /\ TdStep(r, "cleared", "released")
  /\ Alloc!Return(r)
  /\ UNCHANGED <<createVars, sbVars, durable, applyVars, mapVars, netVars, tree, delVars>>

\* clearStaleMount removes the key's whole tree, whoever's it is by now.
TdClearTree(r) ==
  /\ TdStep(r, "released", "treeless")
  /\ tree' = [tree EXCEPT ![KeyOf[r]] = NoReq]
  /\ UNCHANGED <<createVars, holder, sbVars, durable, applyVars, mapVars, netVars, delVars>>

\* So does the map entry.
TdUnlist(r) ==
  /\ TdStep(r, "treeless", "unlisted")
  /\ sandboxes' = [sandboxes EXCEPT ![KeyOf[r]] = NoReq]
  /\ UNCHANGED <<createVars, holder, sbVars, durable, applyVars, view, netVars, tree, delVars>>

TdStopped(r) ==
  /\ TdStep(r, "unlisted", "done")
  /\ Publish(r, "stopped")
  /\ UNCHANGED <<createVars, holder, sbVars, durable, applyVars, sandboxes, netVars, tree, delVars>>

-----------------------------------------------------------------------------
(* supervisor.Delete: look the key up, cancel, wait for the barrier.       *)
Delete(d, k) ==
  /\ dPc[d] = "idle" /\ d \in world.deletes
  /\ \/ /\ sandboxes[k] = NoReq
        /\ dPc' = [dPc EXCEPT ![d] = "notFound"]
        /\ UNCHANGED <<dTarget, cancelled, stopping>>
     \/ /\ sandboxes[k] # NoReq
        /\ dPc' = [dPc EXCEPT ![d] = "waiting"]
        /\ dTarget' = [dTarget EXCEPT ![d] = sandboxes[k]]
        /\ stopping' = [stopping EXCEPT ![sandboxes[k]] = TRUE]
        /\ cancelled' = [cancelled EXCEPT ![sandboxes[k]] = TRUE]
  /\ UNCHANGED <<createVars, holder, alive, ready, tdVars, applyVars, mapVars, netVars, tree>>

\* snapFlushed is closed from the step after the drain on.
Flushed(r) == td[r] \in {"flushed", "unrouted", "cleared", "released", "treeless", "unlisted",
                         "done"}

DeleteOk(d) ==
  /\ dPc[d] = "waiting"
  /\ Flushed(dTarget[d])
  /\ dPc' = [dPc EXCEPT ![d] = "ok"]
  /\ UNCHANGED <<createVars, holder, sbVars, tdVars, applyVars, mapVars, netVars, tree, dTarget>>

DeleteGivesUp(d) ==
  /\ dPc[d] = "waiting"
  /\ dPc' = [dPc EXCEPT ![d] = "gaveUp"]
  /\ UNCHANGED <<createVars, holder, sbVars, tdVars, applyVars, mapVars, netVars, tree, dTarget>>

-----------------------------------------------------------------------------
(* A config apply publishes config.apply on the sandbox's broker; the      *)
(* watcher, if it has subscribed, rewrites the sandbox's egress policy.    *)
ApplyConfig(r) ==
  /\ applies < world.applies
  /\ sandboxes[KeyOf[r]] = r
  /\ applies' = applies + 1
  /\ queue' = IF watcher[r] = "off" THEN queue ELSE [queue EXCEPT ![r] = queue[r] + 1]
  /\ UNCHANGED <<createVars, holder, sbVars, tdVars, watcher, mapVars, netVars, tree, delVars>>

\* With an event ready and sbCtx done, select takes either branch.
WatcherTake(r) ==
  /\ watcher[r] = "on" /\ queue[r] > 0
  /\ watcher' = [watcher EXCEPT ![r] = "got"]
  /\ queue' = [queue EXCEPT ![r] = queue[r] - 1]
  /\ UNCHANGED <<createVars, holder, sbVars, tdVars, applies, mapVars, netVars, tree, delVars>>

WatcherExit(r) ==
  /\ watcher[r] = "on" /\ cancelled[r]
  /\ watcher' = [watcher EXCEPT ![r] = "off"]
  /\ UNCHANGED <<createVars, holder, sbVars, tdVars, queue, applies, mapVars, netVars, tree,
                 delVars>>

\* The policy goes to the address the watcher captured, whoever holds it now.
WatcherReconcile(r) ==
  /\ watcher[r] = "got"
  /\ watcher' = [watcher EXCEPT ![r] = "on"]
  /\ SetEgress(ip[r], r)
  /\ UNCHANGED <<createVars, holder, sbVars, tdVars, queue, applies, mapVars, router, enforced,
                 tree, delVars>>

(* The reload pipeline enforces a newer write of one source, as Install of *)
(* EgressPromise allows.                                                   *)
Reload(a) ==
  /\ \E n \in enforced[a] + 1 .. Len(writes[a]) : enforced' = [enforced EXCEPT ![a] = n]
  /\ UNCHANGED <<createVars, holder, sbVars, tdVars, applyVars, mapVars, router, writes, tree,
                 delVars>>

-----------------------------------------------------------------------------
CreateStep(r) ==
  \/ Admit(r) \/ ClaimSlot(r) \/ Wire(r) \/ CreateSetEgress(r) \/ RouterRegister(r)
  \/ Launch(r) \/ Register(r) \/ Announce(r) \/ WaitReady(r) \/ WaitApplied(r)
  \/ NotifyReady(r) \/ FinishCreate(r)

Teardown(r) ==
  \/ TdWake(r) \/ TdStopAgent(r) \/ TdDrain(r) \/ TdFlushed(r) \/ TdUnroute(r)
  \/ TdClearEgress(r) \/ TdReleaseSlot(r) \/ TdClearTree(r) \/ TdUnlist(r) \/ TdStopped(r)

Watcher(r) == WatcherTake(r) \/ WatcherExit(r) \/ WatcherReconcile(r)

PodStep ==
  \/ \E r \in Requests : \/ Lookup(r)
                         \/ CreateStep(r)
                         \/ Abandon(r)
                         \/ FailEarly(r)
                         \/ AgentExit(r)
                         \/ Expire(r)
                         \/ Teardown(r)
                         \/ ApplyConfig(r)
                         \/ Watcher(r)
  \/ \E d \in Deletes : (\E k \in Keys : Delete(d, k)) \/ DeleteOk(d) \/ DeleteGivesUp(d)
  \/ \E a \in Addrs : Reload(a)

Next == PodStep /\ UNCHANGED world

Spec == Init /\ [][Next]_vars

\* A guest that died before it was ready need not report ready.
CreateProgress(r) == CreateStep(r) /\ (pc[r] = "announced" => alive[r] \/ cancelled[r])

(* The goroutines of the pod are scheduled, a guest that lives comes up or *)
(* fails, a reload lands.  Nobody need create, delete, apply, expire, exit, *)
(* cancel a request or give up.  Every goroutine of a behaviour takes a    *)
(* bounded number of steps, so that fairness to the pod as a whole is      *)
(* fairness to each.                                                       *)
PodRuns ==
  \/ \E r \in Requests : CreateProgress(r) \/ Teardown(r) \/ Watcher(r)
  \/ \E d \in Deletes : DeleteOk(d)
  \/ \E a \in Addrs : Reload(a)

Fairness == WF_podVars(PodRuns)

FairSpec == Spec /\ Fairness

-----------------------------------------------------------------------------
PcStates == {"idle", "existing", "new", "admitted", "claimed", "wired", "policied", "routed",
             "launched", "registered", "announced", "up", "gated", "ready", "done", "failed"}
TdStates == {"none", "waiting", "stopping", "dead", "drained", "flushed", "unrouted", "cleared",
             "released", "treeless", "unlisted", "done"}

TypeOK ==
  /\ pc \in [Requests -> PcStates]
  /\ holder \in [Requests -> Addrs \union {0}]
  /\ ip \in [Requests -> Addrs \union {0}]
  /\ gen \in [Requests -> Nat]
  /\ cancelled \in [Requests -> BOOLEAN]
  /\ alive \in [Requests -> BOOLEAN]
  /\ ready \in [Requests -> BOOLEAN]
  /\ stopping \in [Requests -> BOOLEAN]
  /\ td \in [Requests -> TdStates]
  /\ watcher \in [Requests -> {"off", "on", "got"}]
  /\ queue \in [Requests -> Nat]
  /\ applies \in 0..world.applies
  /\ sandboxes \in [Keys -> Requests \union {NoReq}]
  /\ router \in [Addrs -> Requests \union {NoReq}]
  /\ writes \in [Addrs -> Seq(Requests \union {NoReq})]
  /\ enforced \in [Addrs -> Nat]
  /\ tree \in [Keys -> Requests \union {NoReq}]
  /\ durable \subseteq Requests
  /\ dPc \in [Deletes -> {"idle", "waiting", "ok", "gaveUp", "notFound"}]
  /\ dTarget \in [Deletes -> Requests \union {NoReq}]
  /\ view \in [Keys -> {"none", "starting", "running", "stopping", "stopped"}]

\* A workload that runs and whose create has not given it up.
Serving(r) == alive[r] /\ pc[r] # "failed"

\* Whose policy is stored, and whose is enforced, for an address.
StoredFor(a)   == IF writes[a] = <<>> THEN NoReq ELSE writes[a][Len(writes[a])]
EnforcedFor(a) == IF enforced[a] = 0 THEN NoReq ELSE writes[a][enforced[a]]

\* No watcher can be at work for the former sandbox of an address: there are
\* no config applies, or only one sandbox.  WatcherReconcile writes to the
\* address it captured, so that where both may happen it can strike a policy
\* of the next tenant.
NoStaleReconcile == world.applies = 0 \/ \A q, r \in world.requests : q = r

(* Whatever creates, failures and teardowns overlap, the audit events of a *)
(* running workload go to its own stream and, but for a config apply still *)
(* being reconciled for the address's former sandbox, the policy stored    *)
(* for its address is its own: no other sandbox's teardown or failure      *)
(* takes either away, and no two workloads share an address.               *)
AddressOwned ==
  \A r \in Requests : Serving(r) =>
    router[ip[r]] = r /\ (NoStaleReconcile => StoredFor(ip[r]) = r)

(* A sandbox that answers requests has its own policy enforced, unless it  *)
(* is being cancelled; where waitApplied cannot run out of time, and where *)
(* no config apply is still being reconciled for the address's former      *)
(* sandbox.                                                                *)
ReadyMeansEnforced ==
  (~world.reloadLapses /\ NoStaleReconcile) =>
    \A r \in Requests : (ready[r] /\ alive[r] /\ ~cancelled[r]) => EnforcedFor(ip[r]) = r

(* With creates of a key in order, a key's running sandbox is the one the  *)
(* map names, and its workspace tree is not removed by the teardown of the *)
(* key's former sandbox.                                                   *)
KeyOwned ==
  \A r \in Requests : (Serving(r) /\ td[r] # "none") =>
    sandboxes[KeyOf[r]] = r /\ tree[KeyOf[r]] = r

(* A DELETE that returns means the shutdown snapshot is durable, where the *)
(* capture and the drain cannot run out of time.                           *)
DurableDelete ==
  ~world.drainLapses => \A d \in Deletes : dPc[d] = "ok" => dTarget[d] \in durable

\* Every slot is held: a create that claims one has to wait here.
Full == \A a \in world.addrs : \E q \in Requests : holder[q] = a

\* Of a sandbox that was cancelled, has expired or whose workload has exited,
\* nothing is left: slot, workload and key are given back.
TornDown(r) == td[r] = "done" /\ holder[r] = 0 /\ ~alive[r] /\ sandboxes[KeyOf[r]] # r

\* No teardown is owed or under way, no create is in progress but for want of
\* a slot, and no delete waits.
Settled ==
  /\ \A r \in Requests :
       \/ td[r] = "none"
       \/ td[r] = "waiting" /\ alive[r] /\ ~cancelled[r]
       \/ TornDown(r)
  /\ \A r \in Requests : InFlight(r) => Full
  /\ \A d \in Deletes : dPc[d] # "waiting"

(* Whatever dies, lapses or is cancelled, and in whatever order, the pod   *)
(* settles: every teardown gives everything back; every create is          *)
(* answered, also one whose workload dies or is cancelled before it is     *)
(* ready and one that queues for the launch semaphore; and every DELETE    *)
(* returns, also when the snapshot fails.                                  *)
Progress == []<>Settled

=============================================================================

---------------------------- MODULE Apply_proof ----------------------------
(***************************************************************************)
(* Proofs about the two ends of a config apply: the store and its watcher  *)
(* (ConfigApply), the workspaces the watcher's reconcile exports to a      *)
(* microVM and attaches in its guest (GuestControl), and the 9p session    *)
(* behind each attached workspace (NineProxy).                             *)
(*                                                                         *)
(* ConfigApply, for any number of requests, any configs and filters, any   *)
(* channel capacity and any number of other events.  Apply's TryLock keeps *)
(* the store still while a request is between its diff and its write       *)
(* (LockInv).  The watcher converges because whenever what is in force is  *)
(* not the stored config, its last turn failed or something that makes the *)
(* watcher read the store again is still to come (OwedInv).                *)
(*                                                                         *)
(* GuestControl, for any set of mounts, any number of exports and faults.  *)
(* A reconcile holds what it copied until its attach has ended (TurnInv),  *)
(* an export's server is there or on the list of the attach that binds     *)
(* (PortInv, BindInv), and what is mounted but should not be, or is dead,  *)
(* is owed an umount or a reconnect (MountInv): so nothing is left undone  *)
(* when the attach is acked (AttachedInv).                                 *)
(***************************************************************************)
EXTENDS ConfigApply, GuestControl, NineProxy, FiniteSetTheorems, TLAPS

\* The requests inside Apply are the lock's holders; there is one at most.
LockInv ==
  /\ applyMu = {r \in Requests : pc[r] = "locked"}
  /\ \A r, s \in Requests : pc[r] = "locked" /\ pc[s] = "locked" => r = s
  /\ \A r \in Requests : pc[r] = "locked" => base[r] = store

\* A config has been stored and its config.apply event not yet published.
Unannounced == \E r \in Requests : pc[r] \in {"applied", "filtered"}

\* The watcher has a config.apply event to take.
Queued == \E i \in DOMAIN chan : chan[i] = "config.apply"

OwedInv ==
  \/ Unannounced \/ missed \/ Queued
  \/ watch = "woken"
  \/ watch = "read" /\ wcfg = store.run
  \/ watch = "egress" /\ wcfg = store.run /\ live.egress = store.run
  \/ InForce /\ watch \in {"none", "idle"}

IInv == TypeOK /\ LockInv /\ OwedInv

-----------------------------------------------------------------------------
(* Types.                                                                  *)

LEMMA FreezeType ==
  ASSUME NEW c \in StoredConfigs, NEW d \in StoredConfigs, NEW s \in BOOLEAN
  PROVE  freezeImmutable(c, d, s) \in StoredConfigs
  <1>. DEFINE i == IF c.image # NoImage THEN c.image ELSE d.image
              b == IF s THEN c.boot ELSE d.boot
  <1>1. i \in Images \union {NoImage} /\ b \in Boots
    BY DEF StoredConfigs
  <1>2. freezeImmutable(c, d, s) = [d EXCEPT !.image = i, !.boot = b]
    BY DEF freezeImmutable
  <1>. HIDE DEF i, b
  <1>. QED  BY <1>1, <1>2 DEF StoredConfigs

LEMMA PublishType ==
  ASSUME TypeOK, NEW k \in Kinds, Publish(k)
  PROVE  chan' \in Seq(Kinds) /\ Len(chan') <= SubDepth /\ missed' \in BOOLEAN
  <1>1. chan' \in Seq(Kinds) /\ Len(chan') <= SubDepth
    BY DepthAssumption DEF TypeOK, Publish, Delivers
  <1>2. missed' \in BOOLEAN
    BY DEF TypeOK, Publish, Delivers
  <1>. QED  BY <1>1, <1>2

LEMMA InitInv == Init => IInv
  <1>. SUFFICES ASSUME Init PROVE IInv
    OBVIOUS
  <1>1. Config0 \in StoredConfigs
    BY PartAssumption DEF Config0, StoredConfigs
  <1>2. TypeOK
    <2>1. started \in BOOLEAN /\ missed \in BOOLEAN
      BY PartAssumption DEF Init
    <2>2. others \in 0..MaxOther /\ chan \in Seq(Kinds) /\ Len(chan) <= SubDepth
      BY DepthAssumption DEF Init
    <2>3. live \in [egress : Runs, fs : Runs \union {Partly}]
      BY PartAssumption DEF Init
    <2>. QED  BY <1>1, <2>1, <2>2, <2>3, PartAssumption DEF Init, TypeOK
  <1>3. LockInv
    BY DEF Init, LockInv
  <1>4. OwedInv
    BY DEF Init, OwedInv, InForce, Config0
  <1>. QED  BY <1>2, <1>3, <1>4 DEF IInv

LEMMA TypeStep ==
  ASSUME TypeOK, [Next]_vars
  PROVE  TypeOK'
  <1>. USE DEF TypeOK, reqVars, watchVars
  <1>1. ASSUME NEW r \in Requests, NEW d \in Configs, ReadCurrent(r, d) PROVE TypeOK'
    <2>1. d \in StoredConfigs
      BY DEF Configs, StoredConfigs
    <2>. QED  BY <1>1, <2>1 DEF ReadCurrent
  <1>2. ASSUME NEW r \in Requests, Freeze(r) PROVE TypeOK'
    <2>1. desired' \in [Requests -> StoredConfigs]
      BY <1>2, FreezeType DEF Freeze
    <2>. QED  BY <1>2, <2>1 DEF Freeze
  <1>3. ASSUME NEW r \in Requests, TryLock(r) PROVE TypeOK'
    BY <1>3 DEF TryLock
  <1>4. ASSUME NEW r \in Requests, Conflict(r) PROVE TypeOK'
    BY <1>4 DEF Conflict
  <1>5. ASSUME NEW r \in Requests, Commit(r) PROVE TypeOK'
    BY <1>5 DEF Commit
  <1>6. ASSUME NEW r \in Requests, SetFilter(r) PROVE TypeOK'
    <2>1. desired[r].events \in SUBSET Kinds
      <3>1. desired[r] \in StoredConfigs
        OBVIOUS
      <3>. QED  BY <3>1, EventAssumption DEF StoredConfigs
    <2>. QED  BY <1>6, <2>1 DEF SetFilter
  <1>7. ASSUME NEW r \in Requests, PublishApply(r) \/ PublishChanged(r) PROVE TypeOK'
    <2>1. chan' \in Seq(Kinds) /\ Len(chan') <= SubDepth /\ missed' \in BOOLEAN
      BY <1>7, PublishType DEF PublishApply, PublishChanged, Kinds
    <2>. QED  BY <1>7, <2>1 DEF PublishApply, PublishChanged
  <1>8. CASE OtherEvent
    <2>1. chan' \in Seq(Kinds) /\ Len(chan') <= SubDepth /\ missed' \in BOOLEAN
      BY <1>8, PublishType DEF OtherEvent, Kinds
    <2>2. others' \in 0..MaxOther
      BY <1>8, DepthAssumption DEF OtherEvent
    <2>. QED  BY <1>8, <2>1, <2>2 DEF OtherEvent
  <1>9. CASE SetStarted \/ WatchSubscribe
    BY <1>9 DEF SetStarted, WatchSubscribe
  <1>10. CASE WatchTake
    <2>1. Tail(chan) \in Seq(Kinds) /\ Len(Tail(chan)) <= SubDepth
      BY <1>10, DepthAssumption DEF WatchTake
    <2>. QED  BY <1>10, <2>1 DEF WatchTake
  <1>11. CASE WatchGet
    <2>1. store.run \in Runs
      BY DEF StoredConfigs
    <2>. QED  BY <1>11, <2>1 DEF WatchGet
  <1>12. CASE WatchSetEgress \/ WatchGetFails
    BY <1>12 DEF WatchSetEgress, WatchGetFails
  <1>13. CASE WatchReconcile
    BY <1>13 DEF WatchReconcile
  <1>14. CASE UNCHANGED vars
    BY <1>14 DEF vars
  <1>. QED
    BY <1>1, <1>2, <1>3, <1>4, <1>5, <1>6, <1>7, <1>8, <1>9, <1>10, <1>11, <1>12, <1>13, <1>14
       DEF Next, Apply, Watcher, Done

-----------------------------------------------------------------------------
(* The apply lock.                                                         *)

LEMMA LockStep ==
  ASSUME TypeOK, LockInv, [Next]_vars
  PROVE  LockInv'
  <1>. USE DEF LockInv, reqVars
  <1>0. pc \in [Requests -> {"new", "read", "frozen", "locked", "applied", "filtered",
                             "published", "done", "conflict"}]
        /\ base \in [Requests -> StoredConfigs]
    BY DEF TypeOK
  <1>1. ASSUME NEW r \in Requests, NEW d \in Configs, ReadCurrent(r, d) PROVE LockInv'
    BY <1>0, <1>1 DEF ReadCurrent
  <1>2. ASSUME NEW r \in Requests, Freeze(r) \/ Conflict(r) PROVE LockInv'
    BY <1>0, <1>2 DEF Freeze, Conflict
  <1>3. ASSUME NEW r \in Requests, TryLock(r) PROVE LockInv'
    BY <1>0, <1>3 DEF TryLock
  <1>4. ASSUME NEW r \in Requests, Commit(r) PROVE LockInv'
    BY <1>0, <1>4 DEF Commit
  <1>5. ASSUME NEW r \in Requests, SetFilter(r) \/ PublishApply(r) \/ PublishChanged(r)
        PROVE  LockInv'
    BY <1>0, <1>5 DEF SetFilter, PublishApply, PublishChanged
  <1>6. CASE OtherEvent \/ SetStarted \/ WatchSubscribe \/ Watcher \/ Done \/ UNCHANGED vars
    BY <1>6 DEF OtherEvent, SetStarted, WatchSubscribe, Watcher, WatchTake, WatchGet,
                WatchGetFails, WatchSetEgress, WatchReconcile, Done, vars
  <1>. HIDE DEF LockInv
  <1>. QED  BY <1>1, <1>2, <1>3, <1>4, <1>5, <1>6 DEF Next, Apply

-----------------------------------------------------------------------------
(* The watcher.                                                            *)

LEMMA PublishQueues ==
  ASSUME TypeOK, NEW k \in Kinds, Publish(k)
  PROVE  /\ Queued => Queued'
         /\ k = "config.apply" => missed' \/ Queued'
         /\ k # "config.apply" => missed' = missed
  <1>0. chan \in Seq(Kinds) /\ Len(chan) \in Nat
    BY DEF TypeOK
  <1>1. chan' = chan \/ chan' = Append(chan, k)
    BY DEF Publish
  <1>2. Queued => Queued'
    <2>1. CASE chan' = chan
      BY <2>1 DEF Queued
    <2>2. CASE chan' = Append(chan, k)
      <3>1. \A i \in DOMAIN chan : i \in DOMAIN chan' /\ chan'[i] = chan[i]
        BY <1>0, <2>2
      <3>. QED  BY <3>1 DEF Queued
    <2>. QED  BY <1>1, <2>1, <2>2
  <1>3. ASSUME k = "config.apply" PROVE missed' \/ Queued'
    <2>1. CASE Delivers(k)
      <3>1. chan' = Append(chan, k)
        BY <2>1 DEF Publish
      <3>2. Len(chan) + 1 \in DOMAIN chan' /\ chan'[Len(chan) + 1] = k
        BY <1>0, <3>1
      <3>. QED  BY <1>3, <3>2 DEF Queued
    <2>2. CASE ~Delivers(k)
      BY <1>3, <2>2 DEF Publish
    <2>. QED  BY <2>1, <2>2
  <1>4. k # "config.apply" => missed' = missed
    BY DEF Publish
  <1>. QED  BY <1>2, <1>3, <1>4

LEMMA OwedStep ==
  ASSUME TypeOK, OwedInv, [Next]_vars
  PROVE  OwedInv'
  <1>. USE DEF reqVars, watchVars
  <1>0. /\ pc \in [Requests -> {"new", "read", "frozen", "locked", "applied", "filtered",
                                "published", "done", "conflict"}]
        /\ chan \in Seq(Kinds) /\ live \in [egress : Runs, fs : Runs \union {Partly}]
    BY DEF TypeOK
  \* A step that leaves the store, the watcher and its channel alone.
  <1>a. ASSUME UNCHANGED <<store, watchVars, chan, missed>>, Unannounced => Unannounced'
        PROVE  OwedInv'
    BY <1>a DEF OwedInv, InForce, Queued
  <1>1. ASSUME NEW r \in Requests, NEW d \in Configs, ReadCurrent(r, d) PROVE OwedInv'
    BY <1>0, <1>1, <1>a DEF ReadCurrent, Unannounced
  <1>2. ASSUME NEW r \in Requests, Freeze(r) \/ TryLock(r) \/ Conflict(r) PROVE OwedInv'
    BY <1>0, <1>2, <1>a DEF Freeze, TryLock, Conflict, Unannounced
  <1>3. ASSUME NEW r \in Requests, Commit(r) PROVE OwedInv'
    <2>1. Unannounced'
      BY <1>0, <1>3 DEF Commit, Unannounced
    <2>. QED  BY <2>1 DEF OwedInv
  <1>4. ASSUME NEW r \in Requests, SetFilter(r) PROVE OwedInv'
    <2>1. Unannounced'
      BY <1>0, <1>4 DEF SetFilter, Unannounced
    <2>. QED  BY <2>1 DEF OwedInv
  <1>5. ASSUME NEW r \in Requests, PublishApply(r) PROVE OwedInv'
    <2>1. missed' \/ Queued'
      BY <1>5, PublishQueues DEF PublishApply, Kinds
    <2>. QED  BY <2>1 DEF OwedInv
  <1>6. ASSUME Publish("other"), UNCHANGED <<store, watchVars>>, Unannounced => Unannounced'
        PROVE  OwedInv'
    <2>1. (Queued => Queued') /\ missed' = missed
      BY <1>6, PublishQueues DEF Kinds
    <2>. QED  BY <1>6, <2>1 DEF OwedInv, InForce
  <1>7. ASSUME NEW r \in Requests, PublishChanged(r) PROVE OwedInv'
    <2>1. Unannounced => Unannounced'
      BY <1>0, <1>7 DEF PublishChanged, Unannounced
    <2>. QED  BY <1>6, <1>7, <2>1 DEF PublishChanged
  <1>8. CASE OtherEvent
    BY <1>6, <1>8 DEF OtherEvent, Unannounced
  <1>9. CASE SetStarted \/ Done \/ UNCHANGED vars
    BY <1>9, <1>a DEF SetStarted, Done, vars, Unannounced
  <1>10. CASE WatchSubscribe
    BY <1>10 DEF WatchSubscribe, OwedInv, Unannounced, InForce, Queued
  <1>11. CASE WatchTake
    <2>1. chan # <<>> /\ chan' = Tail(chan) /\ UNCHANGED <<store, live, failure, missed, pc>>
            /\ watch = "idle" /\ watch' = IF Head(chan) = "config.apply" THEN "woken" ELSE "idle"
      BY <1>11 DEF WatchTake
    <2>2. CASE Head(chan) = "config.apply"
      BY <2>1, <2>2 DEF OwedInv
    <2>3. CASE Head(chan) # "config.apply"
      <3>1. Queued => Queued'
        <4>. SUFFICES ASSUME NEW i \in DOMAIN chan, chan[i] = "config.apply" PROVE Queued'
          BY DEF Queued
        <4>1. i # 1 /\ i - 1 \in DOMAIN chan' /\ chan'[i - 1] = chan[i]
          BY <1>0, <2>1, <2>3
        <4>. QED  BY <4>1 DEF Queued
      <3>. QED  BY <2>1, <2>3, <3>1 DEF OwedInv, Unannounced, InForce
    <2>. QED  BY <2>2, <2>3
  <1>12. CASE WatchGet
    BY <1>12 DEF WatchGet, OwedInv, Unannounced, Queued
  <1>13. CASE WatchSetEgress
    BY <1>0, <1>13 DEF WatchSetEgress, OwedInv, Unannounced, Queued, InForce
  <1>14. CASE WatchReconcile
    BY <1>0, <1>14 DEF WatchReconcile, OwedInv, Unannounced, Queued, InForce
  <1>15. CASE WatchGetFails
    BY <1>15 DEF WatchGetFails, OwedInv, Unannounced, Queued, InForce
  <1>. QED
    BY <1>1, <1>2, <1>3, <1>4, <1>5, <1>7, <1>8, <1>9, <1>10, <1>11, <1>12, <1>13, <1>14, <1>15
       DEF Next, Apply, Watcher

-----------------------------------------------------------------------------
LEMMA StepInv == IInv /\ [Next]_vars => IInv'
  BY TypeStep, LockStep, OwedStep DEF IInv

(* Every variable keeps its type, and the watcher's channel its capacity.  *)
THEOREM TypeCorrect == Spec => []TypeOK
  <1>1. IInv => TypeOK
    BY DEF IInv
  <1>. QED  BY <1>1, InitInv, StepInv, PTL DEF Spec

(* config_store.go: the changes an apply reports are the changes it makes, *)
(* because the store cannot move while its lock is held.                   *)
THEOREM ChangesExactHolds == Spec => []ChangesExact
  <1>1. IInv => ChangesExact
    BY DEF IInv, LockInv, ChangesExact
  <1>. QED  BY <1>1, InitInv, StepInv, PTL DEF Spec

(* The watcher of createPacked: once it has handled the last config.apply  *)
(* event it was given, what is in force is what is stored, up to what its  *)
(* last turn failed to do.                                                 *)
THEOREM ReconciledHolds == Spec => []ReconciledToStore
  <1>1. IInv => ReconciledToStore
    <2>. SUFFICES ASSUME IInv, Settled, ~missed
                  PROVE  InForce
      BY DEF ReconciledToStore
    <2>1. ~Unannounced /\ ~Queued
      BY DEF Settled, Unannounced, Queued
    <2>. QED  BY <2>1 DEF IInv, OwedInv, Settled
  <1>. QED  BY <1>1, InitInv, StepInv, PTL DEF Spec

-----------------------------------------------------------------------------
(* GuestControl.                                                           *)

CallRec ==
  [pc : {"control", "attach", "wait"}, env : BOOLEAN, entry : BOOLEAN,
   unmounts : SUBSET Mounts, fuse : [Mounts -> Nat], sync : BOOLEAN]

AttachRec ==
  [pc : {"bind", "serve", "rpc"}, todo : SUBSET (Mounts \X Nat), fuse : [Mounts -> Nat],
   reconnect : BOOLEAN]

HandlerRec ==
  [id : Nat, kind : {"mount", "reconnect", "umount"},
   step : {"eth0", "next", "mount", "reconnect", "umount"}, todo : SUBSET Mounts, at : SUBSET Mounts,
   fuse : [Mounts -> Nat], entry : BOOLEAN]

GuestTypeOK ==
  /\ {packed, haveSnapshot, dirty, attached, guestEnv} \subseteq BOOLEAN
  /\ vm \in {"off", "up", "gone"}
  /\ fuse \in [Mounts -> Nat] /\ fuseCancel \in [Mounts -> Nat]
  /\ nextFusePort \in Nat \ {0}
  /\ listening \subseteq Nat /\ pendingUnmount \subseteq Mounts
  /\ call \in CallRec \union {NoCall}
  /\ attach \subseteq AttachRec
  /\ depth \in [Mounts -> Nat]
  /\ wsProxies \in [Mounts -> {"none", "live", "dead"}]
  /\ fileMounts \subseteq Mounts
  /\ guestAddr \in {"baked", "flushed", "added", "own"}
  /\ launched \in {0, 1} /\ faults \in Nat
  /\ behind \subseteq HandlerRec /\ crossed \in BOOLEAN /\ orphans \subseteq Mounts

\* The override runs in a guest that has its own address; a cold boot has it
\* from the start, and a resumed guest has it after its first apply.
AddrInv ==
  /\ launched = 1 \/ ~haveSnapshot => guestAddr = "own"
  /\ call # NoCall /\ guestAddr # "own" => call.sync

\* One reconcile is under way: it holds what it copied, which nobody changes,
\* and its attach starts when its control phase is through.
TurnInv ==
  /\ \A a, b \in attach : a = b
  /\ call.pc \in {"control", "attach"} => attach = {} /\ call.fuse = fuse
  /\ call.pc = "control" => call.unmounts = pendingUnmount
  /\ \A a \in attach : a.fuse = fuse /\ (call # NoCall => call.pc = "wait" /\ a.reconnect)
  /\ call.pc = "attach" \/ attach # {} => pendingUnmount = {} /\ guestAddr = "own"
  /\ call # NoCall \/ attach # {} => vm = "up" /\ ~attached /\ ~dirty
  /\ dirty => ~attached

\* A VM that has not started has nothing mounted and owes no umount.
OffInv ==
  vm = "off" =>
    /\ pendingUnmount = {} /\ ~attached /\ ~dirty /\ (haveSnapshot => guestAddr # "own")
    /\ \A m \in Mounts : depth[m] = 0 /\ wsProxies[m] = "none"

\* An export has a port of its own, and its server, once there, listens on it.
PortInv ==
  /\ \A m \in Mounts : fuse[m] < nextFusePort
  /\ \A m, n \in Mounts : fuse[m] # 0 /\ fuse[m] = fuse[n] => m = n
  /\ \A m \in Mounts : fuseCancel[m] # 0 => fuseCancel[m] = fuse[m] /\ fuse[m] \in listening

\* An attach that binds has every unserved export on its list.
BindInv ==
  /\ \A a \in attach : a.pc = "serve" =>
       /\ \A m \in Mounts : fuse[m] # 0 /\ fuseCancel[m] = 0 => <<m, fuse[m]>> \in a.todo
       /\ \A p \in a.todo : p[2] = fuse[p[1]] /\ p[2] # 0
  /\ \A a \in attach : a.pc = "rpc" =>
       \A m \in Mounts : fuse[m] # 0 => fuseCancel[m] # 0

\* The workspaces of a resumed guest have not been reconnected yet.
ToReconnect ==
  \/ guestAddr # "own"
  \/ call # NoCall /\ call.sync
  \/ \E a \in attach : a.reconnect

\* Until a handler left behind gets in the way, a path is mounted once, over a
\* proxy; what is mounted and not exported is to be unmounted and a dead
\* connection to be replaced, unless only the snapshot knew the path.
MountInv ==
  ~crossed =>
    /\ \A m \in Mounts : depth[m] = IF wsProxies[m] = "none" THEN 0 ELSE 1
    /\ \A m \in Mounts : wsProxies[m] # "none" /\ fuse[m] = 0 => m \in pendingUnmount \cup orphans
    /\ \A m \in Mounts :
         vm = "up" /\ wsProxies[m] = "dead" => m \in pendingUnmount \cup orphans \/ ToReconnect

\* What an acked apply leaves behind lasts until the next reconcile begins.
AttachedInv ==
  attached =>
    /\ pendingUnmount = {} /\ guestAddr = "own"
    /\ \A m \in Mounts : fuse[m] # 0 => fuseCancel[m] # 0
    /\ ~crossed => \A m \in Mounts \ orphans : fuse[m] # 0 => wsProxies[m] = "live" /\ m \in fileMounts

GuestInv ==
  /\ GuestTypeOK /\ AddrInv /\ TurnInv /\ OffInv /\ PortInv /\ BindInv /\ MountInv
  /\ AttachedInv

-----------------------------------------------------------------------------
LEMMA CallFacts ==
  ASSUME call \in CallRec \union {NoCall}
  PROVE  (call = NoCall <=> call.pc = "none") /\ (call # NoCall => call \in CallRec)
  BY DEF CallRec, NoCall

(* Types.                                                                  *)

\* What handleControl leaves of the guest's state.
GuestEffect(reip, S) ==
  /\ guestEnv' \in BOOLEAN /\ fileMounts' = fileMounts
  /\ guestAddr' \in {"baked", "flushed", "added", "own"}
  /\ launched' \in {0, 1} /\ (launched' # launched => reip)
  /\ reip \/ guestAddr = "own" => guestAddr' = "own"
  /\ depth' \in [Mounts -> Nat] /\ wsProxies' \in [Mounts -> {"none", "live", "dead"}]
  /\ \A m \in Mounts :
       IF reip /\ m \in S /\ depth[m] > 0
       THEN depth'[m] = depth[m] - 1 /\ wsProxies'[m] = "none"
       ELSE depth'[m] = depth[m] /\ wsProxies'[m] = wsProxies[m]

LEMMA HandleControlType ==
  ASSUME GuestTypeOK, call \in CallRec, NEW reip \in BOOLEAN, NEW S \in SUBSET Mounts,
         HandleControl(reip, S)
  PROVE  GuestEffect(reip, S)
  <1>1. /\ guestEnv' \in BOOLEAN /\ fileMounts' = fileMounts
        /\ guestAddr' \in {"baked", "flushed", "added", "own"}
        /\ launched' \in {0, 1} /\ (launched' # launched => reip)
        /\ reip \/ guestAddr = "own" => guestAddr' = "own"
    BY DEF HandleControl, ApplyWorkloadEnv, ReconfigureEth0, StartResumeWorkload, GuestTypeOK,
           CallRec
  <1>2. CASE reip
    BY <1>1, <1>2 DEF HandleControl, Unmounted, ProxyAfterUnmount, Mounted, GuestTypeOK, GuestEffect
  <1>3. CASE ~reip
    BY <1>1, <1>3 DEF HandleControl, GuestTypeOK, GuestEffect
  <1>. QED  BY <1>2, <1>3

\* A handler left behind is one more handler.
LEMMA LeavesType ==
  ASSUME GuestTypeOK, NEW kind \in {"mount", "reconnect", "umount"}, NEW step \in {"eth0", "next"},
         NEW S \in SUBSET Mounts, NEW f \in [Mounts -> Nat], NEW entry \in BOOLEAN,
         LeavesBehind(Handler(kind, step, S, f, entry))
  PROVE  behind' \subseteq HandlerRec
  <1>1. Handler(kind, step, S, f, entry) \in HandlerRec
    <2>1. [m \in Mounts |-> IF m \in S THEN f[m] ELSE 0] \in [Mounts -> Nat]
      OBVIOUS
    <2>. QED  BY <2>1 DEF Handler, HandlerRec, GuestTypeOK
  <1>. QED  BY <1>1 DEF LeavesBehind, GuestTypeOK

LEMMA GuestTypeStep ==
  ASSUME GuestTypeOK, [GuestNext]_guestVars
  PROVE  GuestTypeOK'
  <1>t. /\ call = NoCall <=> call.pc = "none"
        /\ NoCall.pc = "none" /\ (call # NoCall => call \in CallRec)
        /\ \A a \in attach : a \in AttachRec
    BY CallFacts DEF GuestTypeOK, NoCall
  <1>1. ASSUME NEW m \in Mounts, ExportWorkspace(m) PROVE GuestTypeOK'
    <2>1. fuse' \in [Mounts -> Nat] /\ nextFusePort' \in Nat \ {0}
      BY <1>1 DEF ExportWorkspace, GuestTypeOK
    <2>2. listening' \subseteq Nat /\ fuseCancel' \in [Mounts -> Nat]
      BY <1>1 DEF ExportWorkspace, GuestTypeOK
    <2>3. dirty' \in BOOLEAN /\ attached' \in BOOLEAN
      BY <1>1 DEF ExportWorkspace
    <2>. QED
      BY <1>1, <2>1, <2>2, <2>3 DEF ExportWorkspace, inGuest, GuestTypeOK
  <1>2. ASSUME NEW m \in Mounts, UnexportWorkspace(m) PROVE GuestTypeOK'
    BY <1>t, <1>2 DEF UnexportWorkspace, ReconcileMay, GuestTypeOK
  <1>3. ASSUME ColdBoot PROVE GuestTypeOK'
    <2>1. faults' \in Nat
      <3>1. PICK ok \in SUBSET Exported : faults' = faults + Cardinality(Exported \ ok)
        BY <1>3 DEF ColdBoot
      <3>2. Cardinality(Exported \ ok) \in Nat
        BY GuestConstants, FS_Subset, FS_CardinalityType DEF Exported
      <3>. QED  BY <3>1, <3>2 DEF GuestTypeOK
    <2>2. listening' \subseteq Nat /\ fileMounts' \subseteq Mounts /\ attached' \in BOOLEAN
      BY <1>3 DEF ColdBoot, Exported, GuestTypeOK
    <2>3. depth' \in [Mounts -> Nat] /\ wsProxies' \in [Mounts -> {"none", "live", "dead"}]
      BY <1>3 DEF ColdBoot
    <2>. QED
      BY <1>3, <2>1, <2>2, <2>3 DEF ColdBoot, GuestTypeOK
  <1>4. ASSUME BootFails PROVE GuestTypeOK'
    BY <1>t, <1>4 DEF BootFails, hostVars, inGuest, GuestTypeOK
  <1>5. ASSUME ResumeVM PROVE GuestTypeOK'
    BY <1>t, <1>5 DEF ResumeVM, hostVars, Exported, GuestTypeOK
  <1>6. ASSUME ApplyResumeState PROVE GuestTypeOK'
    <2>1. call' \in CallRec
      BY <1>6 DEF ApplyResumeState, CallRec, GuestTypeOK
    <2>. QED
      BY <1>6, <2>1 DEF ApplyResumeState, hostVars, inGuest, GuestTypeOK
  <1>7. ASSUME StartAttach PROVE GuestTypeOK'
    <2>1. call \in CallRec
      BY <1>t, <1>7 DEF StartAttach
    <2>2. attach' \subseteq AttachRec /\ attached' \in BOOLEAN
      <3>1. [pc |-> "bind", todo |-> {}, fuse |-> call.fuse, reconnect |-> call.sync] \in AttachRec
        BY <2>1 DEF CallRec, AttachRec
      <3>. QED
        BY <1>7, <3>1 DEF StartAttach, GuestTypeOK
    <2>3. call' \in CallRec \union {NoCall}
      BY <1>7, <2>1 DEF StartAttach, CallRec
    <2>. QED
      BY <1>7, <2>2, <2>3 DEF StartAttach, hostVars, inGuest, GuestTypeOK
  <1>8. ASSUME ControlAcked PROVE GuestTypeOK'
    <2>1. call \in CallRec
      BY <1>t, <1>8 DEF ControlAcked
    <2>2. call' \in CallRec
      BY <1>8, <2>1 DEF ControlAcked, CallRec
    <2>3. GuestEffect(TRUE, call.unmounts)
      BY <1>8, <2>1, HandleControlType DEF ControlAcked, CallRec
    <2>. QED
      BY <1>8, <2>2, <2>3 DEF ControlAcked, GuestEffect, GuestTypeOK
  <1>9. ASSUME ControlFails PROVE GuestTypeOK'
    <2>1. call \in CallRec
      BY <1>t, <1>9 DEF ControlFails
    <2>2. CASE UNCHANGED inGuest
      BY <1>9, <2>2 DEF ControlFails, inGuest, hostVars, GuestTypeOK
    <2>3. ASSUME NEW reip \in BOOLEAN, NEW S \in SUBSET call.unmounts, HandleControl(reip, S),
                 LeavesBehind(Handler("umount", IF reip THEN "next" ELSE "eth0",
                                      call.unmounts \ S, call.fuse, call.entry)),
                 UNCHANGED <<crossed, orphans>>
          PROVE  GuestTypeOK'
      <3>1. GuestEffect(reip, S)
        BY <2>1, <2>3, HandleControlType DEF CallRec
      <3>2. behind' \subseteq HandlerRec
        <4>1. /\ (IF reip THEN "next" ELSE "eth0") \in {"eth0", "next"}
              /\ call.unmounts \ S \in SUBSET Mounts /\ call.fuse \in [Mounts -> Nat] /\ call.entry \in BOOLEAN
          BY <2>1 DEF CallRec
        <4>. QED  BY <2>3, <4>1, LeavesType
      <3>. QED
        BY <1>9, <2>3, <3>1, <3>2 DEF ControlFails, GuestEffect, hostVars, GuestTypeOK
    <2>. QED  BY <1>9, <2>2, <2>3 DEF ControlFails
  <1>10. ASSUME NEW a \in attach, BindCollect(a) PROVE GuestTypeOK'
    <2>1. {<<m, fuse[m]>> : m \in Unserved} \in SUBSET (Mounts \X Nat)
      BY DEF Unserved, Exported, GuestTypeOK
    <2>2. attach' \subseteq AttachRec
      BY <1>t, <1>10, <2>1 DEF BindCollect, AttachRec, GuestTypeOK
    <2>. QED
      BY <1>10, <2>2 DEF BindCollect, hostVars, inGuest, GuestTypeOK
  <1>11. ASSUME NEW a \in attach, ServeFuse(a) PROVE GuestTypeOK'
    <2>1. PICK p \in a.todo :
             /\ listening' = listening \union {p[2]}
             /\ fuseCancel' = [fuseCancel EXCEPT ![p[1]] = p[2]]
             /\ attach' = (attach \ {a}) \union
                  {[a EXCEPT !.pc = IF a.todo = {p} THEN "rpc" ELSE "serve", !.todo = @ \ {p}]}
      BY <1>11 DEF ServeFuse
    <2>2. a \in AttachRec /\ p \in Mounts \X Nat
      BY <1>t DEF AttachRec
    <2>3. attach' \subseteq AttachRec
      <3>1. ASSUME NEW s \in {"rpc", "serve"}
            PROVE  [a EXCEPT !.pc = s, !.todo = @ \ {p}] \in AttachRec
        BY <2>2 DEF AttachRec
      <3>. QED  BY <2>1, <3>1 DEF GuestTypeOK
    <2>4. listening' \subseteq Nat /\ fuseCancel' \in [Mounts -> Nat]
      BY <2>1, <2>2 DEF GuestTypeOK
    <2>. QED
      BY <1>11, <2>3, <2>4 DEF ServeFuse, inGuest, GuestTypeOK
  <1>12. ASSUME NEW a \in attach, ServeFails(a) PROVE GuestTypeOK'
    BY <1>t, <1>12 DEF ServeFails, CallReturns, hostVars, inGuest, GuestTypeOK
  <1>13. ASSUME NEW a \in attach, AttachAcked(a) PROVE GuestTypeOK'
    BY <1>t, <1>13 DEF AttachAcked, AttachRPC, MountWorkspaces, MountWorkspaceProxied,
       ReconnectWorkspaces, AddFileWorkspaceMount, Mounted, CallReturns, hostVars, GuestTypeOK
  <1>14. ASSUME NEW a \in attach, AttachFails(a) PROVE GuestTypeOK'
    <2>1. PICK S \in SUBSET Mounts :
            /\ AttachRPC(a, S)
            /\ LeavesBehind(Handler(IF a.reconnect THEN "reconnect" ELSE "mount", "next",
                                    {m \in Mounts : a.fuse[m] # 0} \ S, a.fuse, FALSE))
      BY <1>14 DEF AttachFails
    <2>2. behind' \subseteq HandlerRec
      <3>1. /\ (IF a.reconnect THEN "reconnect" ELSE "mount") \in {"mount", "reconnect", "umount"}
            /\ {m \in Mounts : a.fuse[m] # 0} \ S \in SUBSET Mounts /\ a.fuse \in [Mounts -> Nat]
        BY <1>t DEF AttachRec
      <3>. QED  BY <2>1, <3>1, LeavesType
    <2>3. depth' \in [Mounts -> Nat] /\ wsProxies' \in [Mounts -> {"none", "live", "dead"}]
          /\ fileMounts' \subseteq Mounts /\ UNCHANGED <<guestEnv, guestAddr, launched>>
      BY <2>1 DEF AttachRPC, MountWorkspaces, MountWorkspaceProxied,
         ReconnectWorkspaces, AddFileWorkspaceMount, Mounted, GuestTypeOK
    <2>. QED  BY <1>14, <2>2, <2>3 DEF AttachFails, hostVars, GuestTypeOK
  <1>15. ASSUME VMExit PROVE GuestTypeOK'
    BY <1>t, <1>15 DEF VMExit, hostVars, inGuest, GuestTypeOK
  <1>17. ASSUME NEW h \in behind, HandlerEth0(h) PROVE GuestTypeOK'
    <2>1. [h EXCEPT !.step = "next"] \in HandlerRec
      BY DEF GuestTypeOK, HandlerRec
    <2>2. behind' \subseteq HandlerRec
      BY <1>17, <2>1 DEF HandlerEth0, Going, GuestTypeOK
    <2>3. guestAddr' \in {"baked", "flushed", "added", "own"} /\ launched' \in {0, 1} /\ crossed' \in BOOLEAN
      BY <1>17 DEF HandlerEth0, ReconfigureEth0, StartResumeWorkload, GuestTypeOK
    <2>. QED  BY <1>17, <2>2, <2>3 DEF HandlerEth0, hostVars, GuestTypeOK
  <1>18. ASSUME NEW h \in behind, HandlerChecks(h) PROVE GuestTypeOK'
    <2>1. ASSUME NEW st \in {"next", "mount", "reconnect", "umount"}, NEW S \in SUBSET Mounts, NEW m \in h.todo
          PROVE  [h EXCEPT !.step = st, !.todo = @ \ {m}, !.at = S] \in HandlerRec
      BY DEF GuestTypeOK, HandlerRec
    <2>2. h.todo \subseteq Mounts /\ h.kind \in {"mount", "reconnect", "umount"}
      BY DEF GuestTypeOK, HandlerRec
    <2>3. PICK m \in h.todo, st \in {"next", "mount", "reconnect", "umount"}, S \in SUBSET Mounts :
            /\ behind' = Going(h, [h EXCEPT !.step = st, !.todo = @ \ {m}, !.at = S])
            /\ fileMounts' = IF h.kind = "umount" THEN fileMounts ELSE fileMounts \cup {m}
      <3>. DEFINE step(m) == CASE h.kind = "umount" -> IF Mounted(m) THEN "umount" ELSE "next"
                               [] h.kind = "mount" -> IF Mounted(m) THEN "next" ELSE "mount"
                               [] h.kind = "reconnect" -> IF wsProxies[m] = "none" THEN "mount" ELSE "reconnect"
      <3>1. PICK m \in h.todo :
              /\ behind' = Going(h, [h EXCEPT !.step = step(m), !.todo = @ \ {m},
                                              !.at = IF step(m) = "next" THEN {} ELSE {m}])
              /\ fileMounts' = IF h.kind = "umount" THEN fileMounts ELSE fileMounts \cup {m}
        BY <1>18 DEF HandlerChecks
      <3>2. step(m) \in {"next", "mount", "reconnect", "umount"}
        BY <2>2
      <3>. HIDE DEF step
      <3>3. (IF step(m) = "next" THEN {} ELSE {m}) \in SUBSET Mounts
        BY <2>2
      <3>. QED  BY <3>1, <3>2, <3>3
    <2>4. behind' \subseteq HandlerRec
      <3>1. [h EXCEPT !.step = st, !.todo = @ \ {m}, !.at = S] \in HandlerRec
        BY <2>1
      <3>. QED  BY <2>3, <3>1 DEF Going, GuestTypeOK
    <2>5. fileMounts' \subseteq Mounts
      BY <2>2, <2>3 DEF GuestTypeOK
    <2>. QED  BY <1>18, <2>4, <2>5 DEF HandlerChecks, hostVars, GuestTypeOK
  <1>19. ASSUME NEW h \in behind, HandlerActs(h) PROVE GuestTypeOK'
    <2>1. [h EXCEPT !.step = "next", !.at = {}] \in HandlerRec
      BY DEF GuestTypeOK, HandlerRec
    <2>2. behind' \subseteq HandlerRec
      BY <1>19, <2>1 DEF HandlerActs, Going, GuestTypeOK
    <2>3. depth' \in [Mounts -> Nat] /\ wsProxies' \in [Mounts -> {"none", "live", "dead"}]
      BY <1>19 DEF HandlerActs, Unmounted, ProxyAfterUnmount, Mounted, GuestTypeOK
    <2>. QED  BY <1>19, <2>2, <2>3 DEF HandlerActs, hostVars, GuestTypeOK
  <1>16. CASE UNCHANGED guestVars
    BY <1>16 DEF guestVars, GuestTypeOK
  <1>. QED
    BY <1>1, <1>2, <1>3, <1>4, <1>5, <1>6, <1>7, <1>8, <1>9, <1>10, <1>11, <1>12, <1>13, <1>14,
       <1>15, <1>16, <1>17, <1>18, <1>19 DEF GuestNext

\* The override is started by a handler that has set the address before.
LEMMA AddrStep ==
  ASSUME GuestTypeOK, AddrInv, GuestTypeOK', [GuestNext]_guestVars
  PROVE  AddrInv'
  <1>t. /\ call = NoCall <=> call.pc = "none"
        /\ NoCall.pc = "none" /\ (call # NoCall => call \in CallRec)
        /\ \A a \in attach : a \in AttachRec
    BY CallFacts DEF GuestTypeOK, NoCall
  <1>1. ASSUME NEW m \in Mounts, ExportWorkspace(m) PROVE AddrInv'
    BY <1>t, <1>1 DEF ExportWorkspace, ReconcileMay, inGuest, GuestTypeOK, AddrInv
  <1>2. ASSUME NEW m \in Mounts, UnexportWorkspace(m) PROVE AddrInv'
    BY <1>t, <1>2 DEF UnexportWorkspace, ReconcileMay, GuestTypeOK, AddrInv
  <1>3. ASSUME ColdBoot PROVE AddrInv'
    BY <1>t, <1>3 DEF ColdBoot, Exported, GuestTypeOK, AddrInv
  <1>4. ASSUME BootFails PROVE AddrInv'
    BY <1>t, <1>4 DEF BootFails, hostVars, inGuest, GuestTypeOK, AddrInv
  <1>5. ASSUME ResumeVM PROVE AddrInv'
    BY <1>t, <1>5 DEF ResumeVM, hostVars, Exported, GuestTypeOK, AddrInv
  <1>6. ASSUME ApplyResumeState PROVE AddrInv'
    BY <1>t, <1>6 DEF ApplyResumeState, hostVars, inGuest, GuestTypeOK, AddrInv
  <1>7. ASSUME StartAttach PROVE AddrInv'
    BY <1>t, <1>7 DEF StartAttach, hostVars, inGuest, GuestTypeOK, AddrInv
  <1>8. ASSUME ControlAcked PROVE AddrInv'
    BY <1>t, <1>8 DEF ControlAcked, HandleControl, ApplyWorkloadEnv, ReconfigureEth0,
       StartResumeWorkload, Unmounted, ProxyAfterUnmount, Mounted, GuestTypeOK, AddrInv
  <1>9. ASSUME ControlFails PROVE AddrInv'
    BY <1>t, <1>9 DEF ControlFails, HandleControl, ApplyWorkloadEnv, ReconfigureEth0,
       StartResumeWorkload, Unmounted, ProxyAfterUnmount, Mounted, inGuest, hostVars,
       GuestTypeOK, AddrInv
  <1>10. ASSUME NEW a \in attach, BindCollect(a) PROVE AddrInv'
    BY <1>t, <1>10 DEF BindCollect, Unserved, Exported, hostVars, inGuest, GuestTypeOK, AddrInv
  <1>11. ASSUME NEW a \in attach, ServeFuse(a) PROVE AddrInv'
    BY <1>t, <1>11 DEF ServeFuse, inGuest, GuestTypeOK, AddrInv
  <1>12. ASSUME NEW a \in attach, ServeFails(a) PROVE AddrInv'
    BY <1>t, <1>12 DEF ServeFails, CallReturns, hostVars, inGuest, GuestTypeOK, AddrInv
  <1>13. ASSUME NEW a \in attach, AttachAcked(a) PROVE AddrInv'
    BY <1>t, <1>13 DEF AttachAcked, AttachRPC, MountWorkspaces, MountWorkspaceProxied,
       ReconnectWorkspaces, AddFileWorkspaceMount, Mounted, CallReturns, hostVars, GuestTypeOK,
       AddrInv
  <1>14. ASSUME NEW a \in attach, AttachFails(a) PROVE AddrInv'
    BY <1>t, <1>14 DEF AttachFails, AttachRPC, MountWorkspaces, MountWorkspaceProxied,
       ReconnectWorkspaces, AddFileWorkspaceMount, Mounted, hostVars, GuestTypeOK, AddrInv
  <1>15. ASSUME VMExit PROVE AddrInv'
    BY <1>t, <1>15 DEF VMExit, hostVars, inGuest, GuestTypeOK, AddrInv
  <1>17. ASSUME NEW h \in behind, HandlerEth0(h) PROVE AddrInv'
    BY <1>t, <1>17 DEF HandlerEth0, ReconfigureEth0, StartResumeWorkload, hostVars, GuestTypeOK, AddrInv
  <1>18. ASSUME NEW h \in behind, HandlerChecks(h) PROVE AddrInv'
    BY <1>t, <1>18 DEF HandlerChecks, hostVars, GuestTypeOK, AddrInv
  <1>19. ASSUME NEW h \in behind, HandlerActs(h) PROVE AddrInv'
    BY <1>t, <1>19 DEF HandlerActs, hostVars, GuestTypeOK, AddrInv
  <1>16. CASE UNCHANGED guestVars
    BY <1>16 DEF guestVars, GuestTypeOK, AddrInv
  <1>. QED
    BY <1>1, <1>2, <1>3, <1>4, <1>5, <1>6, <1>7, <1>8, <1>9, <1>10, <1>11, <1>12, <1>13, <1>14,
       <1>15, <1>16, <1>17, <1>18, <1>19 DEF GuestNext

\* Reconciles follow one another: what one has copied stays as it was.
LEMMA TurnStep ==
  ASSUME ~Overlap, GuestTypeOK, AddrInv, TurnInv, OffInv, GuestTypeOK', [GuestNext]_guestVars
  PROVE  TurnInv'
  <1>t. /\ call = NoCall <=> call.pc = "none"
        /\ NoCall.pc = "none" /\ (call # NoCall => call \in CallRec)
        /\ \A a \in attach : a \in AttachRec
    BY CallFacts DEF GuestTypeOK, NoCall
  <1>1. ASSUME NEW m \in Mounts, ExportWorkspace(m) PROVE TurnInv'
    BY <1>t, <1>1 DEF ExportWorkspace, ReconcileMay, inGuest, GuestTypeOK, TurnInv, OffInv
  <1>2. ASSUME NEW m \in Mounts, UnexportWorkspace(m) PROVE TurnInv'
    BY <1>t, <1>2 DEF UnexportWorkspace, ReconcileMay, GuestTypeOK, TurnInv, OffInv
  <1>3. ASSUME ColdBoot PROVE TurnInv'
    BY <1>t, <1>3 DEF ColdBoot, Exported, GuestTypeOK, TurnInv, OffInv
  <1>4. ASSUME BootFails PROVE TurnInv'
    BY <1>t, <1>4 DEF BootFails, hostVars, inGuest, GuestTypeOK, TurnInv, OffInv
  <1>5. ASSUME ResumeVM PROVE TurnInv'
    BY <1>t, <1>5 DEF ResumeVM, hostVars, Exported, GuestTypeOK, TurnInv, OffInv
  <1>6. ASSUME ApplyResumeState PROVE TurnInv'
    <2>1. /\ call'.pc \in {"control", "attach"} /\ call'.fuse = fuse
          /\ call'.unmounts = pendingUnmount /\ attach = {}
          /\ call'.pc = "attach" => pendingUnmount = {} /\ ~haveSnapshot
      BY <1>6 DEF ApplyResumeState
    <2>. QED
      BY <1>t, <1>6, <2>1 DEF ApplyResumeState, hostVars, inGuest, GuestTypeOK, AddrInv, TurnInv
  <1>7. ASSUME StartAttach PROVE TurnInv'
    <2>1. call \in CallRec /\ call # NoCall /\ attach = {} /\ call.fuse = fuse
      BY <1>t, <1>7 DEF StartAttach, TurnInv
    <2>2. CASE \A m \in Mounts : call.fuse[m] = 0
      <3>1. call.fuse = [m \in Mounts |-> 0]
        BY <2>1, <2>2 DEF CallRec
      <3>2. attached' = TRUE /\ attach' = {} /\ call' = NoCall
        BY <1>7, <2>1, <2>2, <3>1 DEF StartAttach
      <3>. QED
        BY <1>t, <1>7, <2>1, <3>2 DEF StartAttach, hostVars, inGuest, TurnInv
    <2>3. CASE \E m \in Mounts : call.fuse[m] # 0
      <3>1. call.fuse # [m \in Mounts |-> 0]
        BY <2>3
      <3>2. /\ attach' = {[pc |-> "bind", todo |-> {}, fuse |-> fuse, reconnect |-> call.sync]}
            /\ attached' = attached
            /\ call' = IF call.sync THEN [call EXCEPT !.pc = "wait"] ELSE NoCall
        BY <1>7, <2>1, <2>3, <3>1 DEF StartAttach
      <3>3. call' # NoCall => call'.pc = "wait" /\ call.sync
        BY <2>1, <3>2 DEF CallRec
      <3>. QED
        BY <1>t, <1>7, <2>1, <3>2, <3>3 DEF StartAttach, hostVars, inGuest, TurnInv
    <2>. QED  BY <2>2, <2>3
  <1>8. ASSUME ControlAcked PROVE TurnInv'
    BY <1>t, <1>8 DEF ControlAcked, HandleControl, ApplyWorkloadEnv, ReconfigureEth0,
       StartResumeWorkload, Unmounted, ProxyAfterUnmount, Mounted, GuestTypeOK, TurnInv, OffInv
  <1>9. ASSUME ControlFails PROVE TurnInv'
    BY <1>t, <1>9 DEF ControlFails, HandleControl, ApplyWorkloadEnv, ReconfigureEth0,
       StartResumeWorkload, Unmounted, ProxyAfterUnmount, Mounted, inGuest, hostVars,
       GuestTypeOK, TurnInv, OffInv
  <1>10. ASSUME NEW a \in attach, BindCollect(a) PROVE TurnInv'
    <2>1. attach = {a}
      BY <1>10 DEF TurnInv
    <2>. DEFINE b == [a EXCEPT !.pc = IF Unserved = {} THEN "rpc" ELSE "serve",
                              !.todo = {<<m, fuse[m]>> : m \in Unserved}]
    <2>3. attach' = {b}
      BY <1>10, <2>1 DEF BindCollect
    <2>4. a \in AttachRec
      BY <1>t
    <2>5. b.fuse = a.fuse /\ b.reconnect = a.reconnect
      BY <2>4 DEF AttachRec
    <2>. HIDE DEF b
    <2>. QED
      BY <1>t, <1>10, <2>1, <2>3, <2>5 DEF BindCollect, hostVars, inGuest, TurnInv
  <1>11. ASSUME NEW a \in attach, ServeFuse(a) PROVE TurnInv'
    <2>1. attach = {a}
      BY <1>11 DEF TurnInv
    <2>2. PICK p \in a.todo :
             attach' = (attach \ {a}) \union
               {[a EXCEPT !.pc = IF a.todo = {p} THEN "rpc" ELSE "serve", !.todo = @ \ {p}]}
      BY <1>11 DEF ServeFuse
    <2>. DEFINE b == [a EXCEPT !.pc = IF a.todo = {p} THEN "rpc" ELSE "serve", !.todo = @ \ {p}]
    <2>3. attach' = {b}
      BY <2>1, <2>2
    <2>4. a \in AttachRec
      BY <1>t
    <2>5. b.fuse = a.fuse /\ b.reconnect = a.reconnect
      BY <2>4 DEF AttachRec
    <2>. HIDE DEF b
    <2>. QED
      BY <1>t, <1>11, <2>1, <2>3, <2>5 DEF ServeFuse, inGuest, TurnInv
  <1>12. ASSUME NEW a \in attach, ServeFails(a) PROVE TurnInv'
    <2>1. attach = {a}
      BY <1>12 DEF TurnInv
    <2>. QED
      BY <1>t, <1>12, <2>1 DEF ServeFails, CallReturns, hostVars, inGuest, TurnInv
  <1>13. ASSUME NEW a \in attach, AttachAcked(a) PROVE TurnInv'
    <2>1. attach = {a}
      BY <1>13 DEF TurnInv
    <2>2. UNCHANGED <<guestAddr, pendingUnmount, vm, dirty>> /\ attach' = {}
      BY <1>13, <2>1 DEF AttachAcked, AttachRPC, hostVars
    <2>3. call' = NoCall
      BY <1>t, <1>13, <2>1 DEF AttachAcked, CallReturns, TurnInv
    <2>. QED
      BY <1>t, <1>13, <2>1, <2>2, <2>3 DEF TurnInv
  <1>14. ASSUME NEW a \in attach, AttachFails(a) PROVE TurnInv'
    BY <1>t, <1>14 DEF AttachFails, AttachRPC, MountWorkspaces, MountWorkspaceProxied,
       ReconnectWorkspaces, AddFileWorkspaceMount, Mounted, hostVars, GuestTypeOK, TurnInv, OffInv
  <1>15. ASSUME VMExit PROVE TurnInv'
    BY <1>t, <1>15 DEF VMExit, hostVars, inGuest, GuestTypeOK, TurnInv, OffInv
  <1>17. ASSUME NEW h \in behind, HandlerEth0(h) PROVE TurnInv'
    BY <1>t, <1>17 DEF HandlerEth0, ReconfigureEth0, StartResumeWorkload, hostVars, GuestTypeOK, TurnInv
  <1>18. ASSUME NEW h \in behind, HandlerChecks(h) PROVE TurnInv'
    BY <1>t, <1>18 DEF HandlerChecks, hostVars, GuestTypeOK, TurnInv
  <1>19. ASSUME NEW h \in behind, HandlerActs(h) PROVE TurnInv'
    BY <1>t, <1>19 DEF HandlerActs, hostVars, GuestTypeOK, TurnInv
  <1>16. CASE UNCHANGED guestVars
    BY <1>16 DEF guestVars, GuestTypeOK, TurnInv, OffInv
  <1>. QED
    BY <1>1, <1>2, <1>3, <1>4, <1>5, <1>6, <1>7, <1>8, <1>9, <1>10, <1>11, <1>12, <1>13, <1>14,
       <1>15, <1>16, <1>17, <1>18, <1>19 DEF GuestNext

\* Nothing is mounted before the VM starts.
LEMMA OffStep ==
  ASSUME ~Overlap, GuestTypeOK, TurnInv, OffInv, [GuestNext]_guestVars
  PROVE  OffInv'
  <1>t. /\ call = NoCall <=> call.pc = "none"
        /\ NoCall.pc = "none" /\ (call # NoCall => call \in CallRec)
        /\ \A a \in attach : a \in AttachRec
    BY CallFacts DEF GuestTypeOK, NoCall
  <1>1. ASSUME NEW m \in Mounts, ExportWorkspace(m) PROVE OffInv'
    BY <1>t, <1>1 DEF ExportWorkspace, ReconcileMay, inGuest, GuestTypeOK, TurnInv, OffInv
  <1>2. ASSUME NEW m \in Mounts, UnexportWorkspace(m) PROVE OffInv'
    BY <1>t, <1>2 DEF UnexportWorkspace, ReconcileMay, GuestTypeOK, TurnInv, OffInv
  <1>3. ASSUME ColdBoot PROVE OffInv'
    BY <1>t, <1>3 DEF ColdBoot, Exported, GuestTypeOK, TurnInv, OffInv
  <1>4. ASSUME BootFails PROVE OffInv'
    BY <1>t, <1>4 DEF BootFails, hostVars, inGuest, GuestTypeOK, TurnInv, OffInv
  <1>5. ASSUME ResumeVM PROVE OffInv'
    BY <1>t, <1>5 DEF ResumeVM, hostVars, Exported, GuestTypeOK, TurnInv, OffInv
  <1>6. ASSUME ApplyResumeState PROVE OffInv'
    BY <1>t, <1>6 DEF ApplyResumeState, hostVars, inGuest, GuestTypeOK, TurnInv, OffInv
  <1>7. ASSUME StartAttach PROVE OffInv'
    BY <1>t, <1>7 DEF StartAttach, hostVars, inGuest, GuestTypeOK, TurnInv, OffInv
  <1>8. ASSUME ControlAcked PROVE OffInv'
    BY <1>t, <1>8 DEF ControlAcked, HandleControl, ApplyWorkloadEnv, ReconfigureEth0,
       StartResumeWorkload, Unmounted, ProxyAfterUnmount, Mounted, GuestTypeOK, TurnInv, OffInv
  <1>9. ASSUME ControlFails PROVE OffInv'
    BY <1>t, <1>9 DEF ControlFails, HandleControl, ApplyWorkloadEnv, ReconfigureEth0,
       StartResumeWorkload, Unmounted, ProxyAfterUnmount, Mounted, inGuest, hostVars,
       GuestTypeOK, TurnInv, OffInv
  <1>10. ASSUME NEW a \in attach, BindCollect(a) PROVE OffInv'
    BY <1>t, <1>10 DEF BindCollect, Unserved, Exported, hostVars, inGuest, GuestTypeOK, TurnInv,
       OffInv
  <1>11. ASSUME NEW a \in attach, ServeFuse(a) PROVE OffInv'
    BY <1>t, <1>11 DEF ServeFuse, inGuest, GuestTypeOK, TurnInv, OffInv
  <1>12. ASSUME NEW a \in attach, ServeFails(a) PROVE OffInv'
    BY <1>t, <1>12 DEF ServeFails, CallReturns, hostVars, inGuest, GuestTypeOK, TurnInv, OffInv
  <1>13. ASSUME NEW a \in attach, AttachAcked(a) PROVE OffInv'
    BY <1>t, <1>13 DEF AttachAcked, AttachRPC, MountWorkspaces, MountWorkspaceProxied,
       ReconnectWorkspaces, AddFileWorkspaceMount, Mounted, CallReturns, hostVars, GuestTypeOK,
       TurnInv, OffInv
  <1>14. ASSUME NEW a \in attach, AttachFails(a) PROVE OffInv'
    BY <1>t, <1>14 DEF AttachFails, AttachRPC, MountWorkspaces, MountWorkspaceProxied,
       ReconnectWorkspaces, AddFileWorkspaceMount, Mounted, hostVars, GuestTypeOK, TurnInv, OffInv
  <1>15. ASSUME VMExit PROVE OffInv'
    BY <1>t, <1>15 DEF VMExit, hostVars, inGuest, GuestTypeOK, TurnInv, OffInv
  <1>17. ASSUME NEW h \in behind, HandlerEth0(h) PROVE OffInv'
    BY <1>t, <1>17 DEF HandlerEth0, ReconfigureEth0, StartResumeWorkload, hostVars, GuestTypeOK, OffInv
  <1>18. ASSUME NEW h \in behind, HandlerChecks(h) PROVE OffInv'
    BY <1>t, <1>18 DEF HandlerChecks, hostVars, GuestTypeOK, OffInv
  <1>19. ASSUME NEW h \in behind, HandlerActs(h) PROVE OffInv'
    BY <1>t, <1>19 DEF HandlerActs, hostVars, GuestTypeOK, OffInv
  <1>16. CASE UNCHANGED guestVars
    BY <1>16 DEF guestVars, GuestTypeOK, TurnInv, OffInv
  <1>. QED
    BY <1>1, <1>2, <1>3, <1>4, <1>5, <1>6, <1>7, <1>8, <1>9, <1>10, <1>11, <1>12, <1>13, <1>14,
       <1>15, <1>16, <1>17, <1>18, <1>19 DEF GuestNext

\* Ports are taken once, so no server is stopped with another export's.
LEMMA PortStep ==
  ASSUME ~Overlap, GuestTypeOK, TurnInv, PortInv, BindInv, [GuestNext]_guestVars
  PROVE  PortInv'
  <1>t. /\ call = NoCall <=> call.pc = "none"
        /\ NoCall.pc = "none" /\ (call # NoCall => call \in CallRec)
        /\ \A a \in attach : a \in AttachRec
    BY CallFacts DEF GuestTypeOK, NoCall
  <1>1. ASSUME NEW m \in Mounts, ExportWorkspace(m) PROVE PortInv'
    BY <1>t, <1>1 DEF ExportWorkspace, ReconcileMay, inGuest, GuestTypeOK, PortInv
  <1>2. ASSUME NEW m \in Mounts, UnexportWorkspace(m) PROVE PortInv'
    BY <1>t, <1>2 DEF UnexportWorkspace, ReconcileMay, GuestTypeOK, PortInv
  <1>3. ASSUME ColdBoot PROVE PortInv'
    BY <1>t, <1>3 DEF ColdBoot, Exported, GuestTypeOK, PortInv
  <1>4. ASSUME BootFails PROVE PortInv'
    BY <1>t, <1>4 DEF BootFails, hostVars, inGuest, GuestTypeOK, PortInv
  <1>5. ASSUME ResumeVM PROVE PortInv'
    BY <1>t, <1>5 DEF ResumeVM, hostVars, Exported, GuestTypeOK, PortInv
  <1>6. ASSUME ApplyResumeState PROVE PortInv'
    BY <1>t, <1>6 DEF ApplyResumeState, hostVars, inGuest, GuestTypeOK, PortInv
  <1>7. ASSUME StartAttach PROVE PortInv'
    BY <1>t, <1>7 DEF StartAttach, hostVars, inGuest, GuestTypeOK, PortInv
  <1>8. ASSUME ControlAcked PROVE PortInv'
    BY <1>t, <1>8 DEF ControlAcked, HandleControl, ApplyWorkloadEnv, ReconfigureEth0,
       StartResumeWorkload, Unmounted, ProxyAfterUnmount, Mounted, GuestTypeOK, PortInv
  <1>9. ASSUME ControlFails PROVE PortInv'
    BY <1>t, <1>9 DEF ControlFails, HandleControl, ApplyWorkloadEnv, ReconfigureEth0,
       StartResumeWorkload, Unmounted, ProxyAfterUnmount, Mounted, inGuest, hostVars,
       GuestTypeOK, PortInv
  <1>10. ASSUME NEW a \in attach, BindCollect(a) PROVE PortInv'
    BY <1>t, <1>10 DEF BindCollect, Unserved, Exported, hostVars, inGuest, GuestTypeOK, PortInv
  <1>11. ASSUME NEW a \in attach, ServeFuse(a) PROVE PortInv'
    <2>1. PICK p \in a.todo :
             listening' = listening \union {p[2]} /\ fuseCancel' = [fuseCancel EXCEPT ![p[1]] = p[2]]
      BY <1>11 DEF ServeFuse
    <2>2. p[1] \in Mounts /\ p[2] = fuse[p[1]]
      BY <1>t, <1>11 DEF ServeFuse, BindInv, AttachRec
    <2>. QED
      BY <1>11, <2>1, <2>2 DEF ServeFuse, GuestTypeOK, PortInv
  <1>12. ASSUME NEW a \in attach, ServeFails(a) PROVE PortInv'
    BY <1>t, <1>12 DEF ServeFails, CallReturns, hostVars, inGuest, GuestTypeOK, PortInv
  <1>13. ASSUME NEW a \in attach, AttachAcked(a) PROVE PortInv'
    BY <1>t, <1>13 DEF AttachAcked, AttachRPC, MountWorkspaces, MountWorkspaceProxied,
       ReconnectWorkspaces, AddFileWorkspaceMount, Mounted, CallReturns, hostVars, GuestTypeOK,
       PortInv
  <1>14. ASSUME NEW a \in attach, AttachFails(a) PROVE PortInv'
    BY <1>t, <1>14 DEF AttachFails, AttachRPC, MountWorkspaces, MountWorkspaceProxied,
       ReconnectWorkspaces, AddFileWorkspaceMount, Mounted, hostVars, GuestTypeOK, PortInv
  <1>15. ASSUME VMExit PROVE PortInv'
    BY <1>t, <1>15 DEF VMExit, hostVars, inGuest, GuestTypeOK, PortInv
  <1>17. ASSUME NEW h \in behind, HandlerEth0(h) PROVE PortInv'
    BY <1>t, <1>17 DEF HandlerEth0, ReconfigureEth0, StartResumeWorkload, hostVars, GuestTypeOK, PortInv
  <1>18. ASSUME NEW h \in behind, HandlerChecks(h) PROVE PortInv'
    BY <1>t, <1>18 DEF HandlerChecks, hostVars, GuestTypeOK, PortInv
  <1>19. ASSUME NEW h \in behind, HandlerActs(h) PROVE PortInv'
    BY <1>t, <1>19 DEF HandlerActs, hostVars, GuestTypeOK, PortInv
  <1>16. CASE UNCHANGED guestVars
    BY <1>16 DEF guestVars, GuestTypeOK, PortInv
  <1>. QED
    BY <1>1, <1>2, <1>3, <1>4, <1>5, <1>6, <1>7, <1>8, <1>9, <1>10, <1>11, <1>12, <1>13, <1>14,
       <1>15, <1>16, <1>17, <1>18, <1>19 DEF GuestNext

\* The list an attach has taken stays complete, since no export comes or goes.
LEMMA BindStep ==
  ASSUME ~Overlap, GuestTypeOK, TurnInv, BindInv, GuestTypeOK', [GuestNext]_guestVars
  PROVE  BindInv'
  <1>t. /\ call = NoCall <=> call.pc = "none"
        /\ NoCall.pc = "none" /\ (call # NoCall => call \in CallRec)
        /\ \A a \in attach : a \in AttachRec
    BY CallFacts DEF GuestTypeOK, NoCall
  <1>1. ASSUME NEW m \in Mounts, ExportWorkspace(m) PROVE BindInv'
    BY <1>t, <1>1 DEF ExportWorkspace, ReconcileMay, inGuest, GuestTypeOK, TurnInv, BindInv
  <1>2. ASSUME NEW m \in Mounts, UnexportWorkspace(m) PROVE BindInv'
    BY <1>t, <1>2 DEF UnexportWorkspace, ReconcileMay, GuestTypeOK, TurnInv, BindInv
  <1>3. ASSUME ColdBoot PROVE BindInv'
    BY <1>t, <1>3 DEF ColdBoot, Exported, GuestTypeOK, TurnInv, BindInv
  <1>4. ASSUME BootFails PROVE BindInv'
    BY <1>t, <1>4 DEF BootFails, hostVars, inGuest, GuestTypeOK, TurnInv, BindInv
  <1>5. ASSUME ResumeVM PROVE BindInv'
    BY <1>t, <1>5 DEF ResumeVM, hostVars, Exported, GuestTypeOK, TurnInv, BindInv
  <1>6. ASSUME ApplyResumeState PROVE BindInv'
    BY <1>t, <1>6 DEF ApplyResumeState, hostVars, inGuest, GuestTypeOK, TurnInv, BindInv
  <1>7. ASSUME StartAttach PROVE BindInv'
    BY <1>t, <1>7 DEF StartAttach, hostVars, inGuest, GuestTypeOK, TurnInv, BindInv
  <1>8. ASSUME ControlAcked PROVE BindInv'
    BY <1>t, <1>8 DEF ControlAcked, HandleControl, ApplyWorkloadEnv, ReconfigureEth0,
       StartResumeWorkload, Unmounted, ProxyAfterUnmount, Mounted, GuestTypeOK, TurnInv, BindInv
  <1>9. ASSUME ControlFails PROVE BindInv'
    BY <1>t, <1>9 DEF ControlFails, HandleControl, ApplyWorkloadEnv, ReconfigureEth0,
       StartResumeWorkload, Unmounted, ProxyAfterUnmount, Mounted, inGuest, hostVars,
       GuestTypeOK, TurnInv, BindInv
  <1>10. ASSUME NEW a \in attach, BindCollect(a) PROVE BindInv'
    <2>1. attach = {a}
      BY <1>10 DEF TurnInv
    <2>. DEFINE b == [a EXCEPT !.pc = IF Unserved = {} THEN "rpc" ELSE "serve",
                              !.todo = {<<m, fuse[m]>> : m \in Unserved}]
    <2>3. attach' = {b}
      BY <1>10, <2>1 DEF BindCollect
    <2>4. a \in AttachRec
      BY <1>t
    <2>5. /\ b.todo = {<<m, fuse[m]>> : m \in Unserved}
          /\ b.pc = IF Unserved = {} THEN "rpc" ELSE "serve"
      BY <2>4 DEF AttachRec
    <2>6. UNCHANGED <<fuse, fuseCancel>>
      BY <1>10 DEF BindCollect, hostVars
    <2>. HIDE DEF b
    <2>. QED
      BY <2>3, <2>5, <2>6 DEF Unserved, Exported, BindInv
  <1>11. ASSUME NEW a \in attach, ServeFuse(a) PROVE BindInv'
    <2>1. attach = {a}
      BY <1>11 DEF TurnInv
    <2>2. PICK p \in a.todo :
             /\ fuseCancel' = [fuseCancel EXCEPT ![p[1]] = p[2]]
             /\ attach' = (attach \ {a}) \union
                  {[a EXCEPT !.pc = IF a.todo = {p} THEN "rpc" ELSE "serve", !.todo = @ \ {p}]}
      BY <1>11 DEF ServeFuse
    <2>3. a \in AttachRec /\ p \in Mounts \X Nat /\ a.pc = "serve"
      BY <1>t, <1>11 DEF ServeFuse, AttachRec
    <2>4. p[1] \in Mounts /\ p = <<p[1], p[2]>> /\ p[2] = fuse[p[1]] /\ p[2] # 0
      BY <1>11, <2>3 DEF BindInv
    <2>. DEFINE b == [a EXCEPT !.pc = IF a.todo = {p} THEN "rpc" ELSE "serve", !.todo = @ \ {p}]
    <2>5. /\ attach' = {b} /\ b.todo = a.todo \ {p}
          /\ b.pc = IF a.todo = {p} THEN "rpc" ELSE "serve"
      BY <2>1, <2>2, <2>3 DEF AttachRec
    <2>6. /\ fuse' = fuse /\ fuseCancel'[p[1]] # 0
          /\ \A m \in Mounts : m # p[1] => fuseCancel'[m] = fuseCancel[m]
      BY <1>11, <2>2, <2>4 DEF ServeFuse, GuestTypeOK
    <2>7. \A m \in Mounts : fuse[m] # 0 /\ fuseCancel'[m] = 0 => <<m, fuse[m]>> \in a.todo \ {p}
      BY <2>3, <2>4, <2>6 DEF BindInv
    <2>8. \A q \in a.todo : q[2] = fuse[q[1]] /\ q[2] # 0
      BY <2>3 DEF BindInv
    <2>. HIDE DEF b
    <2>. QED
      BY <2>5, <2>6, <2>7, <2>8 DEF BindInv
  <1>12. ASSUME NEW a \in attach, ServeFails(a) PROVE BindInv'
    BY <1>t, <1>12 DEF ServeFails, CallReturns, hostVars, inGuest, GuestTypeOK, TurnInv, BindInv
  <1>13. ASSUME NEW a \in attach, AttachAcked(a) PROVE BindInv'
    BY <1>t, <1>13 DEF AttachAcked, AttachRPC, MountWorkspaces, MountWorkspaceProxied,
       ReconnectWorkspaces, AddFileWorkspaceMount, Mounted, CallReturns, hostVars, GuestTypeOK,
       TurnInv, BindInv
  <1>14. ASSUME NEW a \in attach, AttachFails(a) PROVE BindInv'
    BY <1>t, <1>14 DEF AttachFails, AttachRPC, MountWorkspaces, MountWorkspaceProxied,
       ReconnectWorkspaces, AddFileWorkspaceMount, Mounted, hostVars, GuestTypeOK, TurnInv,
       BindInv
  <1>15. ASSUME VMExit PROVE BindInv'
    BY <1>t, <1>15 DEF VMExit, hostVars, inGuest, GuestTypeOK, TurnInv, BindInv
  <1>17. ASSUME NEW h \in behind, HandlerEth0(h) PROVE BindInv'
    BY <1>t, <1>17 DEF HandlerEth0, ReconfigureEth0, StartResumeWorkload, hostVars, GuestTypeOK, BindInv
  <1>18. ASSUME NEW h \in behind, HandlerChecks(h) PROVE BindInv'
    BY <1>t, <1>18 DEF HandlerChecks, hostVars, GuestTypeOK, BindInv
  <1>19. ASSUME NEW h \in behind, HandlerActs(h) PROVE BindInv'
    BY <1>t, <1>19 DEF HandlerActs, hostVars, GuestTypeOK, BindInv
  <1>16. CASE UNCHANGED guestVars
    BY <1>16 DEF guestVars, GuestTypeOK, TurnInv, BindInv
  <1>. QED
    BY <1>1, <1>2, <1>3, <1>4, <1>5, <1>6, <1>7, <1>8, <1>9, <1>10, <1>11, <1>12, <1>13, <1>14,
       <1>15, <1>16, <1>17, <1>18, <1>19 DEF GuestNext

\* Whatever part of a request took effect, a path is mounted once, and what is
\* mounted without need is still owed an umount or a reconnect.
LEMMA MountStep ==
  ASSUME ~Overlap, GuestTypeOK, AddrInv, TurnInv, OffInv, PortInv, BindInv, MountInv, AttachedInv,
         GuestTypeOK', TurnInv', [GuestNext]_guestVars
  PROVE  MountInv'
  <1>t. /\ call = NoCall <=> call.pc = "none"
        /\ NoCall.pc = "none" /\ (call # NoCall => call \in CallRec)
        /\ \A a \in attach : a \in AttachRec
    BY CallFacts DEF GuestTypeOK, NoCall
  <1>1. ASSUME NEW m \in Mounts, ExportWorkspace(m) PROVE MountInv'
    BY <1>t, <1>1 DEF ExportWorkspace, ReconcileMay, inGuest, GuestTypeOK, TurnInv, OffInv,
       MountInv, ToReconnect
  <1>2. ASSUME NEW m \in Mounts, UnexportWorkspace(m) PROVE MountInv'
    BY <1>t, <1>2 DEF UnexportWorkspace, ReconcileMay, GuestTypeOK, TurnInv, OffInv, MountInv,
       ToReconnect
  <1>3. ASSUME ColdBoot PROVE MountInv'
    BY <1>t, <1>3 DEF ColdBoot, Exported, GuestTypeOK, TurnInv, OffInv, MountInv, ToReconnect
  <1>4. ASSUME BootFails PROVE MountInv'
    BY <1>t, <1>4 DEF BootFails, hostVars, inGuest, GuestTypeOK, TurnInv, OffInv, MountInv,
       ToReconnect
  <1>5. ASSUME ResumeVM PROVE MountInv'
    BY <1>t, <1>5 DEF ResumeVM, hostVars, Exported, GuestTypeOK, TurnInv, OffInv, MountInv,
       ToReconnect
  <1>6. ASSUME ApplyResumeState PROVE MountInv'
    BY <1>t, <1>6 DEF ApplyResumeState, hostVars, inGuest, GuestTypeOK, TurnInv, OffInv,
       MountInv, ToReconnect
  <1>7. ASSUME StartAttach PROVE MountInv'
    <2>1. call \in CallRec /\ attach = {} /\ call.fuse = fuse /\ pendingUnmount = {}
      BY <1>t, <1>7 DEF StartAttach, TurnInv
    <2>2. UNCHANGED <<fuse, pendingUnmount, depth, wsProxies, guestAddr, vm, crossed, orphans>>
      BY <1>7 DEF StartAttach, hostVars, inGuest
    <2>3. ASSUME ~crossed, NEW m \in Mounts, wsProxies[m] = "dead", vm = "up", m \notin orphans
          PROVE  ToReconnect'
      <3>1. fuse[m] # 0 /\ (call.sync \/ guestAddr # "own")
        BY <2>1, <2>3, <1>t DEF MountInv, ToReconnect
      <3>2. [pc |-> "bind", todo |-> {}, fuse |-> call.fuse, reconnect |-> call.sync] \in attach'
        BY <1>7, <2>1, <3>1 DEF StartAttach
      <3>. QED  BY <2>2, <3>1, <3>2 DEF ToReconnect
    <2>. QED
      BY <2>2, <2>3 DEF MountInv
  <1>8. ASSUME ControlAcked PROVE MountInv'
    <2>1. call \in CallRec /\ call.unmounts = pendingUnmount
      BY <1>t, <1>8 DEF ControlAcked, TurnInv
    <2>2. GuestEffect(TRUE, call.unmounts)
      BY <1>8, <2>1, HandleControlType DEF ControlAcked, CallRec
    <2>3. UNCHANGED <<fuse, vm>> /\ pendingUnmount' = {} /\ call'.sync = call.sync /\ call' # NoCall
      BY <1>t, <1>8, <2>1 DEF ControlAcked, CallRec
    <2>6. crossed' = crossed /\ orphans' = orphans \ pendingUnmount
      BY <1>8, <2>1 DEF ControlAcked
    <2>4. ASSUME ~crossed, NEW m \in Mounts
          PROVE  /\ depth'[m] = IF wsProxies'[m] = "none" THEN 0 ELSE 1
                 /\ wsProxies'[m] # "none" => (fuse[m] # 0 \/ m \in orphans') /\ m \notin pendingUnmount
                 /\ wsProxies'[m] = "dead" => wsProxies[m] = "dead" /\ m \notin pendingUnmount
                 /\ wsProxies'[m] # "none" /\ m \in orphans => m \in orphans'
      BY <2>1, <2>2, <2>4, <2>6 DEF GuestEffect, MountInv, GuestTypeOK
    <2>5. ToReconnect => call.sync
      BY <1>t, <1>8 DEF ToReconnect, AddrInv, TurnInv, ControlAcked
    <2>7. ASSUME ~crossed, vm = "up", NEW m \in Mounts, wsProxies'[m] = "dead", m \notin orphans'
          PROVE  call.sync
      <3>1. wsProxies[m] = "dead" /\ m \notin pendingUnmount /\ m \notin orphans
        BY <2>4, <2>7
      <3>2. ToReconnect
        BY <2>7, <3>1 DEF MountInv
      <3>. QED  BY <2>5, <3>2
    <2>. QED
      BY <2>3, <2>4, <2>6, <2>7 DEF MountInv, ToReconnect
  <1>9. ASSUME ControlFails PROVE MountInv'
    <2>1. call \in CallRec /\ call.unmounts = pendingUnmount /\ attach = {} /\ call # NoCall
      BY <1>t, <1>9 DEF ControlFails, TurnInv
    <2>2. UNCHANGED <<fuse, vm, pendingUnmount, call, attach>>
      BY <1>9 DEF ControlFails, hostVars
    <2>3. ToReconnect => ToReconnect'
      BY <2>1, <2>2 DEF ToReconnect, AddrInv
    <2>4. CASE UNCHANGED inGuest
      BY <2>2, <2>3, <2>4 DEF inGuest, MountInv
    <2>5. ASSUME NEW reip \in BOOLEAN, NEW S \in SUBSET call.unmounts, HandleControl(reip, S),
                 UNCHANGED <<crossed, orphans>>
          PROVE  MountInv'
      <3>1. GuestEffect(reip, S)
        BY <2>1, <2>5, HandleControlType DEF CallRec
      <3>. QED
        BY <2>2, <2>3, <2>5, <3>1 DEF GuestEffect, MountInv, GuestTypeOK
    <2>. QED  BY <1>9, <2>4, <2>5 DEF ControlFails
  <1>10. ASSUME NEW a \in attach, BindCollect(a) PROVE MountInv'
    <2>. DEFINE b == [a EXCEPT !.pc = IF Unserved = {} THEN "rpc" ELSE "serve",
                              !.todo = {<<m, fuse[m]>> : m \in Unserved}]
    <2>1. attach = {a} /\ attach' = {b} /\ a \in AttachRec
      BY <1>t, <1>10 DEF BindCollect, TurnInv
    <2>2. b.reconnect = a.reconnect
      BY <2>1 DEF AttachRec
    <2>. HIDE DEF b
    <2>3. ToReconnect' <=> ToReconnect
      BY <1>10, <2>1, <2>2 DEF BindCollect, inGuest, ToReconnect
    <2>. QED
      BY <1>10, <2>3 DEF BindCollect, hostVars, inGuest, MountInv
  <1>11. ASSUME NEW a \in attach, ServeFuse(a) PROVE MountInv'
    <2>1. PICK p \in a.todo :
             attach' = (attach \ {a}) \union
               {[a EXCEPT !.pc = IF a.todo = {p} THEN "rpc" ELSE "serve", !.todo = @ \ {p}]}
      BY <1>11 DEF ServeFuse
    <2>. DEFINE b == [a EXCEPT !.pc = IF a.todo = {p} THEN "rpc" ELSE "serve", !.todo = @ \ {p}]
    <2>2. attach = {a} /\ attach' = {b} /\ a \in AttachRec
      BY <1>t, <2>1 DEF TurnInv
    <2>3. b.reconnect = a.reconnect
      BY <2>2 DEF AttachRec
    <2>. HIDE DEF b
    <2>4. ToReconnect' <=> ToReconnect
      BY <1>11, <2>2, <2>3 DEF ServeFuse, inGuest, ToReconnect
    <2>. QED
      BY <1>11, <2>4 DEF ServeFuse, inGuest, MountInv
  <1>12. ASSUME NEW a \in attach, ServeFails(a) PROVE MountInv'
    BY <1>t, <1>12 DEF ServeFails, CallReturns, hostVars, inGuest, GuestTypeOK, TurnInv, OffInv,
       MountInv, ToReconnect
  <1>13. ASSUME NEW a \in attach, AttachAcked(a) PROVE MountInv'
    BY <1>t, <1>13 DEF AttachAcked, AttachRPC, MountWorkspaces, MountWorkspaceProxied,
       ReconnectWorkspaces, AddFileWorkspaceMount, Mounted, CallReturns, hostVars, GuestTypeOK,
       TurnInv, OffInv, MountInv, ToReconnect
  <1>14. ASSUME NEW a \in attach, AttachFails(a) PROVE MountInv'
    BY <1>t, <1>14 DEF AttachFails, AttachRPC, MountWorkspaces, MountWorkspaceProxied,
       ReconnectWorkspaces, AddFileWorkspaceMount, Mounted, hostVars, GuestTypeOK, TurnInv,
       OffInv, MountInv, ToReconnect
  <1>15. ASSUME VMExit PROVE MountInv'
    BY <1>t, <1>15 DEF VMExit, hostVars, inGuest, GuestTypeOK, TurnInv, OffInv, MountInv,
       ToReconnect
  <1>17. ASSUME NEW h \in behind, HandlerEth0(h) PROVE MountInv'
    BY <1>t, <1>17 DEF HandlerEth0, ReconfigureEth0, StartResumeWorkload, hostVars, GuestTypeOK, MountInv, ToReconnect, Exported
  <1>18. ASSUME NEW h \in behind, HandlerChecks(h) PROVE MountInv'
    BY <1>t, <1>18 DEF HandlerChecks, hostVars, GuestTypeOK, MountInv, ToReconnect, Exported
  <1>19. ASSUME NEW h \in behind, HandlerActs(h) PROVE MountInv'
    BY <1>t, <1>19 DEF HandlerActs, hostVars, GuestTypeOK, MountInv, ToReconnect, Exported
  <1>16. CASE UNCHANGED guestVars
    BY <1>16 DEF guestVars, GuestTypeOK, TurnInv, OffInv, MountInv, ToReconnect
  <1>. QED
    BY <1>1, <1>2, <1>3, <1>4, <1>5, <1>6, <1>7, <1>8, <1>9, <1>10, <1>11, <1>12, <1>13, <1>14,
       <1>15, <1>16, <1>17, <1>18, <1>19 DEF GuestNext

\* An acked attach leaves every export live; nothing disturbs it until then.
LEMMA AttachedStep ==
  ASSUME ~Overlap, GuestTypeOK, AddrInv, TurnInv, OffInv, PortInv, BindInv, MountInv, AttachedInv,
         GuestTypeOK', TurnInv', [GuestNext]_guestVars
  PROVE  AttachedInv'
  <1>t. /\ call = NoCall <=> call.pc = "none"
        /\ NoCall.pc = "none" /\ (call # NoCall => call \in CallRec)
        /\ \A a \in attach : a \in AttachRec
    BY CallFacts DEF GuestTypeOK, NoCall
  <1>1. ASSUME NEW m \in Mounts, ExportWorkspace(m) PROVE AttachedInv'
    BY <1>t, <1>1 DEF ExportWorkspace, ReconcileMay, inGuest, GuestTypeOK, TurnInv, AttachedInv
  <1>2. ASSUME NEW m \in Mounts, UnexportWorkspace(m) PROVE AttachedInv'
    BY <1>t, <1>2 DEF UnexportWorkspace, ReconcileMay, GuestTypeOK, TurnInv, AttachedInv
  <1>3. ASSUME ColdBoot PROVE AttachedInv'
    <2>1. fuse' = fuse /\ guestAddr' = "own" /\ pendingUnmount' = {} /\ fuseCancel' = fuse
      BY <1>3 DEF ColdBoot, OffInv, AddrInv
    <2>2. ASSUME attached', NEW m \in Mounts, fuse[m] # 0
          PROVE  wsProxies'[m] = "live" /\ m \in fileMounts'
      BY <1>3, <2>2 DEF ColdBoot, Exported
    <2>. QED
      BY <2>1, <2>2 DEF AttachedInv
  <1>4. ASSUME BootFails PROVE AttachedInv'
    BY <1>t, <1>4 DEF BootFails, hostVars, inGuest, GuestTypeOK, TurnInv, AttachedInv
  <1>5. ASSUME ResumeVM PROVE AttachedInv'
    BY <1>t, <1>5 DEF ResumeVM, hostVars, Exported, GuestTypeOK, TurnInv, AttachedInv
  <1>6. ASSUME ApplyResumeState PROVE AttachedInv'
    BY <1>t, <1>6 DEF ApplyResumeState, hostVars, inGuest, GuestTypeOK, TurnInv, AttachedInv
  <1>7. ASSUME StartAttach PROVE AttachedInv'
    BY <1>t, <1>7 DEF StartAttach, hostVars, inGuest, GuestTypeOK, TurnInv, AttachedInv
  <1>8. ASSUME ControlAcked PROVE AttachedInv'
    BY <1>t, <1>8 DEF ControlAcked, HandleControl, ApplyWorkloadEnv, ReconfigureEth0,
       StartResumeWorkload, Unmounted, ProxyAfterUnmount, Mounted, GuestTypeOK, TurnInv,
       AttachedInv
  <1>9. ASSUME ControlFails PROVE AttachedInv'
    BY <1>t, <1>9 DEF ControlFails, HandleControl, ApplyWorkloadEnv, ReconfigureEth0,
       StartResumeWorkload, Unmounted, ProxyAfterUnmount, Mounted, inGuest, hostVars,
       GuestTypeOK, TurnInv, AttachedInv
  <1>10. ASSUME NEW a \in attach, BindCollect(a) PROVE AttachedInv'
    BY <1>t, <1>10 DEF BindCollect, Unserved, Exported, hostVars, inGuest, GuestTypeOK, TurnInv,
       AttachedInv
  <1>11. ASSUME NEW a \in attach, ServeFuse(a) PROVE AttachedInv'
    BY <1>t, <1>11 DEF ServeFuse, inGuest, GuestTypeOK, TurnInv, AttachedInv
  <1>12. ASSUME NEW a \in attach, ServeFails(a) PROVE AttachedInv'
    BY <1>t, <1>12 DEF ServeFails, CallReturns, hostVars, inGuest, GuestTypeOK, TurnInv,
       AttachedInv
  <1>13. ASSUME NEW a \in attach, AttachAcked(a) PROVE AttachedInv'
    <2>1. /\ attach = {a} /\ a.fuse = fuse /\ pendingUnmount = {} /\ guestAddr = "own" /\ vm = "up"
          /\ \A m \in Mounts : fuse[m] # 0 => fuseCancel[m] # 0
      BY <1>13 DEF AttachAcked, TurnInv, BindInv
    <2>2. UNCHANGED <<fuse, fuseCancel, pendingUnmount, guestAddr, crossed, orphans>>
      BY <1>13 DEF AttachAcked, AttachRPC, hostVars
    <2>3. \A m \in Mounts : fuse[m] # 0 => m \in fileMounts'
      BY <1>13, <2>1 DEF AttachAcked, AttachRPC, MountWorkspaces, ReconnectWorkspaces,
         AddFileWorkspaceMount
    <2>4. ASSUME ~crossed, NEW m \in Mounts \ orphans, fuse[m] # 0 PROVE wsProxies'[m] = "live"
      <3>1. CASE a.reconnect
        BY <1>13, <2>1, <2>4, <3>1 DEF AttachAcked, AttachRPC, ReconnectWorkspaces
      <3>2. CASE ~a.reconnect
        <4>1. call = NoCall /\ ~ToReconnect
          BY <2>1, <3>2 DEF TurnInv, ToReconnect
        <4>2. wsProxies[m] # "dead"
          BY <2>1, <2>4, <4>1 DEF MountInv
        <4>3. wsProxies'[m] = IF ~Mounted(m) THEN "live" ELSE wsProxies[m]
          BY <1>13, <2>1, <2>4, <3>2 DEF AttachAcked, AttachRPC, MountWorkspaces, MountWorkspaceProxied
        <4>. QED  BY <2>4, <4>2, <4>3 DEF Mounted, MountInv, GuestTypeOK
      <3>. QED  BY <3>1, <3>2
    <2>. QED
      BY <2>1, <2>2, <2>3, <2>4 DEF AttachedInv
  <1>14. ASSUME NEW a \in attach, AttachFails(a) PROVE AttachedInv'
    BY <1>t, <1>14 DEF AttachFails, AttachRPC, MountWorkspaces, MountWorkspaceProxied,
       ReconnectWorkspaces, AddFileWorkspaceMount, Mounted, hostVars, GuestTypeOK, TurnInv,
       AttachedInv
  <1>15. ASSUME VMExit PROVE AttachedInv'
    BY <1>t, <1>15 DEF VMExit, hostVars, inGuest, GuestTypeOK, TurnInv, AttachedInv
  <1>17. ASSUME NEW h \in behind, HandlerEth0(h) PROVE AttachedInv'
    BY <1>t, <1>17 DEF HandlerEth0, ReconfigureEth0, StartResumeWorkload, hostVars, GuestTypeOK, AttachedInv
  <1>18. ASSUME NEW h \in behind, HandlerChecks(h) PROVE AttachedInv'
    BY <1>t, <1>18 DEF HandlerChecks, hostVars, GuestTypeOK, AttachedInv
  <1>19. ASSUME NEW h \in behind, HandlerActs(h) PROVE AttachedInv'
    BY <1>t, <1>19 DEF HandlerActs, hostVars, GuestTypeOK, AttachedInv
  <1>16. CASE UNCHANGED guestVars
    BY <1>16 DEF guestVars, GuestTypeOK, TurnInv, AttachedInv
  <1>. QED
    BY <1>1, <1>2, <1>3, <1>4, <1>5, <1>6, <1>7, <1>8, <1>9, <1>10, <1>11, <1>12, <1>13, <1>14,
       <1>15, <1>16, <1>17, <1>18, <1>19 DEF GuestNext

\* A sandbox starts with nothing exported.
LEMMA GuestInitInv == GuestInit => GuestInv
  <1>. SUFFICES ASSUME GuestInit PROVE GuestInv
    OBVIOUS
  <1>1. GuestTypeOK
    <2>1. /\ fuse \in [Mounts -> Nat] /\ fuseCancel \in [Mounts -> Nat] /\ depth \in [Mounts -> Nat]
          /\ wsProxies \in [Mounts -> {"none", "live", "dead"}]
      BY DEF GuestInit
    <2>2. {packed, haveSnapshot, dirty, attached, guestEnv} \subseteq BOOLEAN
      BY Zenon DEF GuestInit
    <2>3. /\ listening \subseteq Nat /\ pendingUnmount \subseteq Mounts /\ attach \subseteq AttachRec
          /\ fileMounts \subseteq Mounts /\ nextFusePort \in Nat \ {0}
          /\ guestAddr \in {"baked", "flushed", "added", "own"} /\ launched \in {0, 1}
          /\ faults \in Nat /\ vm = "off" /\ call = NoCall
          /\ behind \subseteq HandlerRec /\ orphans \subseteq Mounts
      BY DEF GuestInit
    <2>4. crossed \in BOOLEAN
      BY DEF GuestInit
    <2>. QED  BY <2>1, <2>2, <2>3, <2>4 DEF GuestTypeOK
  <1>2. NoCall.pc = "none"
    BY DEF NoCall
  <1>3. AddrInv /\ TurnInv /\ OffInv
    BY <1>2 DEF GuestInit, AddrInv, TurnInv, OffInv
  <1>4. PortInv /\ BindInv /\ MountInv /\ AttachedInv
    BY DEF GuestInit, PortInv, BindInv, MountInv, AttachedInv, OffInv
  <1>. QED  BY <1>1, <1>3, <1>4 DEF GuestInv

(* No part of GuestControl's state leaves its type, whether reconciles     *)
(* overlap or not.                                                         *)
THEOREM GuestTypeCorrect == GuestSpec => []GuestTypeOK
  <1>1. GuestInit => GuestTypeOK
    BY GuestInitInv DEF GuestInv
  <1>. QED  BY <1>1, GuestTypeStep, PTL DEF GuestSpec

(* An apply that was acked leaves every exported workspace mounted exactly *)
(* once, over a live connection to its own listener, and nothing else,     *)
(* whatever was lost, repeated or applied in part on the way, if           *)
(* reconciles do not overlap an attach of the last one, up to a workspace  *)
(* only the snapshot knew and until a handler of an attempt given up acts  *)
(* beside its retry; and the override is launched at most once, in a guest *)
(* that has its own address.                                               *)
THEOREM WorkspacesAttachedHolds ==
  ASSUME ~Overlap
  PROVE  GuestSpec => []WorkspacesAttached
  <1>1. GuestInit => GuestInv
    BY GuestInitInv
  <1>2. ASSUME GuestInv, [GuestNext]_guestVars PROVE GuestInv'
    <2>1. GuestTypeOK' /\ AddrInv'
      BY <1>2, GuestTypeStep, AddrStep DEF GuestInv
    <2>2. TurnInv' /\ OffInv'
      BY <1>2, <2>1, TurnStep, OffStep DEF GuestInv
    <2>3. PortInv' /\ BindInv'
      BY <1>2, <2>1, PortStep, BindStep DEF GuestInv
    <2>4. MountInv' /\ AttachedInv'
      BY <1>2, <2>1, <2>2, MountStep, AttachedStep DEF GuestInv
    <2>. QED  BY <2>1, <2>2, <2>3, <2>4 DEF GuestInv
  <1>3. GuestInv => WorkspacesAttached
    BY DEF GuestInv, WorkspacesAttached, AtRest, Exported, GuestTypeOK, AddrInv, PortInv, MountInv,
       AttachedInv
  <1>. QED  BY <1>1, <1>2, <1>3, PTL DEF GuestSpec


-----------------------------------------------------------------------------
(***************************************************************************)
(* NineProxy: for any set of fids and names, any finite set of tags, any    *)
(* number of requests, deaths and reconnects.                              *)
(*                                                                         *)
(* Requests pass through the proxy in one line: the socketpair, the pump   *)
(* that has observed one, the connection to the server, the replies coming *)
(* back, the pump that holds one.  Ids grow along it (PipeInv, RequestsInv,*)
(* RepliesInv), and a reconnect puts what was sent and not answered back   *)
(* in its place (CoverInv).  What has been answered is therefore always a  *)
(* prefix of what was asked (PrefixInv, HeldInv), so an Rflush never       *)
(* settles a request that is still under way.  No two requests in flight   *)
(* concern one fid (KernelInv): the tables of the kernel, the proxy and    *)
(* the server differ only by the replies under way (FidsInv, ServerInv),   *)
(* and by the fids of Txattrwalk, which Session does not track (Tracked).  *)
(* All of it is claimed until a reconnect comes between the read of a      *)
(* reply and its observation (twice).                                      *)
(***************************************************************************)

Waits(t) == ktag[t] # Free
Sent(t) == pending[t] # Free
Holding == hpump # Free
HTag == hpump.msg.tag
Current == kpump # Free /\ kpump.obsGen = hostGen
Live == host /\ conn.alive

\* The fid a request changes.
Touch(r) ==
  CASE r.typ = "attach" -> {Root}
    [] r.typ \in {"walk", "xattrwalk"} -> {r.new}
    [] r.typ \in {"lopen", "lcreate", "clunk", "remove"} -> {r.fid}
    [] OTHER -> {}

WellFormed(r) ==
  /\ r.typ = "attach" => r.fid = Root
  /\ r.typ \in {"walk", "xattrwalk"} => r.fid # Free /\ r.new # Free
  /\ r.typ \notin {"walk", "xattrwalk"} => r.new = Free
  /\ r.typ \in {"lopen", "lcreate", "clunk", "remove", "opaque"} => r.fid \in Fids
  /\ r.typ = "lcreate" => r.name # Free
  /\ r.typ = "flush" => r.fid = Free /\ r.old # Free
  /\ r.typ # "flush" => r.old = Free

\* What is walked or opened is a file or a directory, and the fid of a
\* Txattrwalk was free.
FromPath(r) ==
  /\ r.typ \in {"walk", "xattrwalk", "lopen", "lcreate"} => kfid[r.fid].path # Xattr
  /\ r.typ = "xattrwalk" => kfid[r.new] = Free

\* What the kernel waits for: requests on fids it holds, no two of which
\* concern one fid, and flushes younger than what they cancel.
KernelInv ==
  /\ \A t \in Tags : Waits(t) => WellFormed(ktag[t]) /\ ktag[t].id <= nextId /\ ktag[t].old # t
  /\ \A t \in Tags : Waits(t) /\ ktag[t].typ \notin {"attach", "flush"} => kfid[ktag[t].fid] # Free
  /\ \A t \in Tags : Waits(t) /\ ktag[t].typ = "attach" => kfid[Root] = Free
  /\ \A t \in Tags : Waits(t) => FromPath(ktag[t])
  /\ \A t, u \in Tags : Waits(t) /\ Waits(u) /\ t # u =>
       /\ ktag[t].id # ktag[u].id
       /\ ktag[u].fid \notin Touch(ktag[t]) /\ ktag[u].new \notin Touch(ktag[t])
       /\ ktag[t].old = u => ktag[u].id < ktag[t].id

\* The way in: what is in the socketpair is younger than what was observed,
\* and the pump holds the youngest of that.
PipeInv ==
  /\ \A t \in Tags : Sent(t) => pending[t] = ktag[t]
  /\ \A i \in DOMAIN k2p : ktag[k2p[i].tag] = k2p[i].req /\ ~Sent(k2p[i].tag)
  /\ \A i, j \in DOMAIN k2p : i < j => k2p[i].req.id < k2p[j].req.id
  /\ \A t \in Tags, i \in DOMAIN k2p : Sent(t) => pending[t].id < k2p[i].req.id
  /\ kpump # Free => kpump.obsGen <= hostGen
  /\ Current => /\ pending[kpump.msg.tag] = kpump.msg.req
                /\ \A t \in Tags : Sent(t) => pending[t].id <= kpump.msg.req.id

\* The reply in the pump is that of the oldest request.
HeldInv ==
  Holding =>
    /\ Waits(HTag) /\ ktag[HTag].id = hpump.msg.id
    /\ Sent(HTag) <=> ~hpump.observed
    /\ \A i \in DOMAIN k2p : k2p[i].tag # HTag
    /\ \A u \in Tags : Waits(u) /\ u # HTag => ktag[u].id > hpump.msg.id
    /\ Current => kpump.msg.tag # HTag

\* What a connection carries was sent and is not answered, oldest first.
RequestsInv ==
  /\ ~conn.alive => conn.c2s = <<>>
  /\ \A i \in DOMAIN conn.c2s : pending[conn.c2s[i].tag] = conn.c2s[i].req
  /\ \A i, j \in DOMAIN conn.c2s : i < j => conn.c2s[i].req.id < conn.c2s[j].req.id
  /\ Current => \A i \in DOMAIN conn.c2s : conn.c2s[i].req.id < kpump.msg.req.id
  /\ Holding => \A i \in DOMAIN conn.c2s : hpump.msg.id < conn.c2s[i].req.id
RepliesInv ==
  /\ ~host => ~conn.alive /\ conn.s2c = <<>>
  /\ \A i \in DOMAIN conn.s2c : Sent(conn.s2c[i].tag) /\ pending[conn.s2c[i].tag].id = conn.s2c[i].id
  /\ \A i, j \in DOMAIN conn.s2c : i < j => conn.s2c[i].id < conn.s2c[j].id
  /\ \A i \in DOMAIN conn.s2c, j \in DOMAIN conn.c2s : conn.s2c[i].id < conn.c2s[j].req.id
  /\ Current => \A i \in DOMAIN conn.s2c : conn.s2c[i].id < kpump.msg.req.id
  /\ Holding => \A i \in DOMAIN conn.s2c : hpump.msg.id < conn.s2c[i].id

\* Nothing older than an answered request is unanswered.
PrefixInv ==
  \A i \in DOMAIN conn.s2c : \A u \in Tags : Waits(u) /\ ktag[u].id < conn.s2c[i].id =>
    (Holding /\ HTag = u) \/ \E j \in DOMAIN conn.s2c : j < i /\ conn.s2c[j].tag = u

\* Every request is somewhere.
CoverInv ==
  /\ \A t \in Tags : Waits(t) =>
       Sent(t) \/ (Holding /\ HTag = t) \/ \E i \in DOMAIN k2p : k2p[i].tag = t
  /\ Live => \A t \in Tags : Sent(t) =>
       \/ Current /\ kpump.msg.tag = t
       \/ \E i \in DOMAIN conn.c2s : conn.c2s[i].tag = t
       \/ \E i \in DOMAIN conn.s2c : conn.s2c[i].tag = t
       \/ Holding /\ HTag = t

\* The proxy's table is what it tracks of the kernel's with the observed
\* reply applied, and the server's has the replies on their way applied too;
\* the server may not know a fid of Txattrwalk.
IsReply(y) == (\E i \in DOMAIN conn.s2c : y = conn.s2c[i]) \/ (Holding /\ y = hpump.msg)
Tracked(tab) ==
  [f \in AllFids |-> IF tab[f] # Free /\ tab[f].path = Xattr THEN Free ELSE tab[f]]
Match(a, b) == a = b \/ (a = Free /\ b # Free /\ b.path = Xattr)
FidsInv ==
  fids = Tracked(IF Holding /\ hpump.observed THEN Applied(kfid, ktag[HTag], hpump.msg.ok) ELSE kfid)
ServerInv ==
  Live => \A f \in AllFids :
    /\ (\A y \in NineReply : IsReply(y) => f \notin Touch(ktag[y.tag])) => Match(conn.sfids[f], kfid[f])
    /\ \A y \in NineReply : IsReply(y) /\ f \in Touch(ktag[y.tag]) =>
          Match(conn.sfids[f], Applied(kfid, ktag[y.tag], y.ok)[f])

\* What an attach gives the root's fid, and nothing takes away.
RootEntry == [path |-> Root, open |-> FALSE]
AttachInv == fids[Root] \in {Free, RootEntry} /\ (haveAttach => fids[Root] # Free)

OpenInv == /\ KernelInv /\ PipeInv /\ HeldInv /\ RequestsInv /\ RepliesInv /\ PrefixInv
           /\ CoverInv /\ FidsInv /\ ServerInv
ClosedInv == closed => ~host /\ hpump = Free /\ kpump = Free
NineInv == NineTypeOK /\ ClosedInv /\ AttachInv /\ (~closed /\ ~twice => OpenInv)

-----------------------------------------------------------------------------
(* Types. *)

LEMMA NineFacts ==
  ASSUME NineTypeOK
  PROVE  /\ \A t \in Tags : Waits(t) => ktag[t] \in NineReq /\ ktag[t].id \in Nat
         /\ \A t \in Tags : Sent(t) => pending[t] \in NineReq /\ pending[t].id \in Nat
         /\ Holding => hpump \in HostPump /\ hpump.msg \in NineReply /\ HTag \in Tags
                       /\ hpump.msg.id \in Nat /\ hpump.msg.ok \in BOOLEAN
         /\ kpump # Free => kpump \in KernelPump /\ kpump.msg \in NineMsg /\ kpump.msg.tag \in Tags
                            /\ kpump.msg.req \in NineReq /\ kpump.msg.req.id \in Nat
                            /\ kpump.obsGen \in Nat
         /\ \A i \in DOMAIN k2p : k2p[i] \in NineMsg /\ k2p[i].tag \in Tags
                                  /\ k2p[i].req \in NineReq /\ k2p[i].req.id \in Nat
         /\ \A i \in DOMAIN conn.c2s : conn.c2s[i] \in NineMsg /\ conn.c2s[i].tag \in Tags
                                       /\ conn.c2s[i].req \in NineReq /\ conn.c2s[i].req.id \in Nat
         /\ \A i \in DOMAIN conn.s2c : conn.s2c[i] \in NineReply /\ conn.s2c[i].tag \in Tags
                                       /\ conn.s2c[i].id \in Nat
         /\ Free \notin NineReq
  <1>1. /\ \A t \in Tags : Waits(t) => ktag[t] \in NineReq
        /\ \A t \in Tags : Sent(t) => pending[t] \in NineReq
        /\ Holding => hpump \in HostPump
        /\ kpump # Free => kpump \in KernelPump
    BY DEF NineTypeOK, Waits, Sent, Holding
  <1>2. \A r \in NineReq : r.id \in Nat
    BY DEF NineReq
  <1>3. \A m \in NineMsg : m.tag \in Tags /\ m.req \in NineReq
    BY DEF NineMsg
  <1>4. \A y \in NineReply : y.tag \in Tags /\ y.id \in Nat /\ y.ok \in BOOLEAN
    BY DEF NineReply
  <1>5. \A p \in HostPump : p.msg \in NineReply
    BY DEF HostPump
  <1>6. \A p \in KernelPump : p.msg \in NineMsg /\ p.obsGen \in Nat
    BY DEF KernelPump
  <1>7. k2p \in Seq(NineMsg) /\ conn.c2s \in Seq(NineMsg) /\ conn.s2c \in Seq(NineReply)
    BY DEF NineTypeOK
  <1>8. /\ \A i \in DOMAIN k2p : k2p[i] \in NineMsg
        /\ \A i \in DOMAIN conn.c2s : conn.c2s[i] \in NineMsg
        /\ \A i \in DOMAIN conn.s2c : conn.s2c[i] \in NineReply
    BY <1>7
  <1>. QED  BY <1>1, <1>2, <1>3, <1>4, <1>5, <1>6, <1>8, FreeAssumption DEF HTag

LEMMA SeqAppend ==
  ASSUME NEW S, NEW q \in Seq(S), NEW e \in S
  PROVE  /\ Append(q, e) \in Seq(S) /\ Len(q) \in Nat /\ DOMAIN q = 1..Len(q)
         /\ DOMAIN Append(q, e) = 1..(Len(q) + 1)
         /\ Append(q, e)[Len(q) + 1] = e
         /\ \A i \in DOMAIN q : i \in DOMAIN Append(q, e) /\ Append(q, e)[i] = q[i] /\ i < Len(q) + 1
         /\ \A i \in DOMAIN Append(q, e) : i \in DOMAIN q \/ i = Len(q) + 1
  <1>1. DOMAIN Append(q, e) = 1..(Len(q) + 1) /\ Len(q) \in Nat /\ DOMAIN q = 1..Len(q)
    OBVIOUS
  <1>. QED  BY <1>1

LEMMA SeqConcat ==
  ASSUME NEW S, NEW p \in Seq(S), NEW q \in Seq(S)
  PROVE  /\ DOMAIN (p \o q) = 1..(Len(p) + Len(q)) /\ Len(p) \in Nat /\ Len(q) \in Nat
         /\ DOMAIN p = 1..Len(p) /\ DOMAIN q = 1..Len(q)
         /\ \A i \in 1..(Len(p) + Len(q)) : (p \o q)[i] = IF i <= Len(p) THEN p[i] ELSE q[i - Len(p)]
  <1>1. Len(p) \in Nat /\ Len(q) \in Nat /\ DOMAIN p = 1..Len(p) /\ DOMAIN q = 1..Len(q)
    OBVIOUS
  <1>2. DOMAIN (p \o q) = 1..(Len(p) + Len(q))
    OBVIOUS
  <1>3. \A i \in 1..(Len(p) + Len(q)) : (p \o q)[i] = IF i <= Len(p) THEN p[i] ELSE q[i - Len(p)]
    OBVIOUS
  <1>. QED  BY <1>1, <1>2, <1>3

LEMMA SeqTail ==
  ASSUME NEW S, NEW q \in Seq(S), q # <<>>
  PROVE  /\ Tail(q) \in Seq(S) /\ Head(q) \in S /\ Head(q) = q[1] /\ 1 \in DOMAIN q
         /\ DOMAIN q \subseteq Nat
         /\ \A i \in DOMAIN Tail(q) : i \in Nat /\ i > 0 /\ i + 1 \in DOMAIN q /\ Tail(q)[i] = q[i + 1]
         /\ \A i \in DOMAIN q : i = 1 \/ (i - 1 \in DOMAIN Tail(q) /\ Tail(q)[i - 1] = q[i] /\ i > 1)
  <1>1. /\ DOMAIN q = 1..Len(q) /\ Len(q) \in Nat /\ Len(q) > 0 /\ DOMAIN Tail(q) = 1..(Len(q) - 1)
        /\ \A i \in 1..(Len(q) - 1) : Tail(q)[i] = q[i + 1]
    OBVIOUS
  <1>. QED  BY <1>1

-----------------------------------------------------------------------------
(* Requests and tables. *)

\* What the kernel may ask, by type.
Asked(r) ==
  /\ r \in NineReq /\ r.id = nextId + 1 /\ WellFormed(r)
  /\ r.typ = "attach" => kfid[Root] = Free /\ Root \notin Busy
  /\ r.typ \in {"walk", "xattrwalk"} =>
       /\ r.fid \in AllFids /\ kfid[r.fid] # Free /\ (r.fid = Root \/ r.fid \notin Busy)
       /\ r.new \notin Busy
  /\ FromPath(r)
  /\ r.typ \in {"lopen", "lcreate", "clunk", "remove", "opaque"} =>
       kfid[r.fid] # Free /\ r.fid \notin Busy
  /\ r.typ = "flush" => r.old \in Tags /\ Waits(r.old)

LEMMA RequestFacts ==
  ASSUME nextId \in Nat, NEW typ \in ReqTypes, NEW fid \in AllFids \cup {Free}, NEW new \in Fids \cup {Free},
         NEW name \in Names \cup {Free}, NEW old \in Tags \cup {Free},
         typ \in OnFid => fid \in Fids, typ \in {"walk", "xattrwalk"} => fid \in AllFids, typ = "lcreate" => name \in Names
  PROVE  LET r == Request(typ, fid, new, name, old)
         IN  /\ r \in NineReq /\ r.id = nextId + 1 /\ r.typ = typ /\ r.fid = fid
             /\ r.new = new /\ r.name = name /\ r.old = old
  BY DEF Request, NineReq

LEMMA AskedRequests ==
  ASSUME NineTypeOK, NEW r \in KernelRequests
  PROVE  Asked(r)
  <1>. DEFINE A == {Request("attach", Root, Free, Free, Free) : f \in {g \in {Root} : kfid[g] = Free /\ g \notin Busy}}
              W == {Request("walk", p[1], p[2], p[3], Free) :
                      p \in {q \in AllFids \X Fids \X (Names \cup {Free}) :
                               /\ q[1] = Root \/ q[1] \notin Busy
                               /\ OfPath(q[1])
                               /\ q[3] # Free => kfid[q[1]].path = Root
                               /\ kfid[q[2]] = Free /\ q[2] \notin Busy}}
              E == {Request("xattrwalk", p[1], p[2], Free, Free) :
                      p \in {q \in AllFids \X Fids :
                               /\ q[1] = Root \/ q[1] \notin Busy
                               /\ OfPath(q[1])
                               /\ kfid[q[2]] = Free /\ q[2] \notin Busy}}
              O == {Request("lopen", f, Free, Free, Free) : f \in {g \in Fids : Idle(g) /\ OfPath(g) /\ ~kfid[g].open}}
              C == {Request("lcreate", p[1], Free, p[2], Free) :
                      p \in {q \in Fids \X Names :
                               Idle(q[1]) /\ kfid[q[1]].path = Root /\ ~kfid[q[1]].open}}
              X == {Request(typ, f, Free, Free, Free) :
                      typ \in {"clunk", "remove", "opaque"}, f \in {g \in Fids : Idle(g)}}
              F == {Request("flush", Free, Free, Free, t) :
                      t \in {u \in Tags : /\ ktag[u] # Free /\ ktag[u].typ # "flush"
                                          /\ \A v \in Tags : ktag[v] # Free => ktag[v].old # u}}
  <1>1. r \in A \/ r \in W \/ r \in E \/ r \in O \/ r \in C \/ r \in X \/ r \in F
    BY DEF KernelRequests
  <1>2. nextId \in Nat /\ Root \in AllFids /\ Fids \subseteq AllFids /\ Free \notin AllFids
        /\ Free \notin Names /\ Free \notin Tags /\ Free \notin Fids /\ Root # Xattr
        /\ OnFid = {"lopen", "lcreate", "clunk", "remove", "opaque"}
    BY NineConstants DEF NineTypeOK, AllFids, OnFid
  <1>3. CASE r \in A
    <2>1. r = Request("attach", Root, Free, Free, Free) /\ kfid[Root] = Free /\ Root \notin Busy
      BY <1>3
    <2>2. r \in NineReq /\ r.id = nextId + 1 /\ r.typ = "attach" /\ r.fid = Root
             /\ r.new = Free /\ r.name = Free /\ r.old = Free
      BY <2>1, <1>2, RequestFacts DEF ReqTypes
    <2>. QED  BY <2>1, <2>2 DEF Asked, WellFormed, FromPath
  <1>4. CASE r \in W
    <2>1. PICK a \in AllFids, b \in Fids, c \in Names \cup {Free} :
            /\ r = Request("walk", a, b, c, Free) /\ (a = Root \/ a \notin Busy) /\ kfid[a] # Free
            /\ kfid[a].path # Xattr /\ b \notin Busy
      BY <1>4 DEF OfPath
    <2>2. r \in NineReq /\ r.id = nextId + 1 /\ r.typ = "walk" /\ r.fid = a
             /\ r.new = b /\ r.name = c /\ r.old = Free
      BY <2>1, <1>2, RequestFacts DEF ReqTypes
    <2>. QED  BY <2>1, <2>2, <1>2 DEF Asked, WellFormed, FromPath
  <1>9. CASE r \in E
    <2>1. PICK a \in AllFids, b \in Fids :
            /\ r = Request("xattrwalk", a, b, Free, Free) /\ (a = Root \/ a \notin Busy) /\ kfid[a] # Free
            /\ kfid[a].path # Xattr /\ b \notin Busy /\ kfid[b] = Free
      BY <1>9 DEF OfPath
    <2>2. r \in NineReq /\ r.id = nextId + 1 /\ r.typ = "xattrwalk" /\ r.fid = a
             /\ r.new = b /\ r.name = Free /\ r.old = Free
      BY <2>1, <1>2, RequestFacts DEF ReqTypes
    <2>. QED  BY <2>1, <2>2, <1>2 DEF Asked, WellFormed, FromPath
  <1>5. CASE r \in O
    <2>1. PICK f \in Fids : r = Request("lopen", f, Free, Free, Free) /\ Idle(f) /\ kfid[f].path # Xattr
      BY <1>5 DEF OfPath
    <2>2. r \in NineReq /\ r.id = nextId + 1 /\ r.typ = "lopen" /\ r.fid = f
             /\ r.new = Free /\ r.name = Free /\ r.old = Free
      BY <2>1, <1>2, RequestFacts DEF ReqTypes
    <2>. QED  BY <2>1, <2>2 DEF Asked, WellFormed, Idle, FromPath
  <1>6. CASE r \in C
    <2>1. PICK f \in Fids, c \in Names :
            r = Request("lcreate", f, Free, c, Free) /\ Idle(f) /\ kfid[f].path # Xattr
      BY <1>6, <1>2
    <2>2. r \in NineReq /\ r.id = nextId + 1 /\ r.typ = "lcreate" /\ r.fid = f
             /\ r.new = Free /\ r.name = c /\ r.old = Free
      BY <2>1, <1>2, RequestFacts DEF ReqTypes
    <2>. QED  BY <2>1, <2>2, <1>2 DEF Asked, WellFormed, Idle, FromPath
  <1>7. CASE r \in X
    <2>1. PICK typ \in {"clunk", "remove", "opaque"}, f \in Fids :
            r = Request(typ, f, Free, Free, Free) /\ Idle(f)
      BY <1>7
    <2>2. r \in NineReq /\ r.id = nextId + 1 /\ r.typ = typ /\ r.fid = f
             /\ r.new = Free /\ r.name = Free /\ r.old = Free
      BY <2>1, <1>2, RequestFacts DEF ReqTypes
    <2>. QED  BY <2>1, <2>2 DEF Asked, WellFormed, Idle, FromPath
  <1>8. CASE r \in F
    <2>1. PICK t \in Tags : r = Request("flush", Free, Free, Free, t) /\ ktag[t] # Free
      BY <1>8
    <2>2. r \in NineReq /\ r.id = nextId + 1 /\ r.typ = "flush" /\ r.fid = Free
             /\ r.new = Free /\ r.name = Free /\ r.old = t
      BY <2>1, <1>2, RequestFacts DEF ReqTypes
    <2>. QED  BY <2>1, <2>2, <1>2 DEF Asked, WellFormed, Waits, FromPath
  <1>. QED  BY <1>1, <1>3, <1>4, <1>9, <1>5, <1>6, <1>7, <1>8

LEMMA TouchFacts ==
  ASSUME NEW r \in NineReq, WellFormed(r)
  PROVE  /\ Touch(r) \subseteq AllFids /\ Touch(r) \subseteq {r.fid, r.new}
         /\ Root \in Touch(r) => r.typ = "attach"
         /\ r.typ = "flush" => Touch(r) = {}
         /\ \A f \in Touch(r) : r.fid \in AllFids
  <1>1. r.typ \in ReqTypes /\ r.fid \in AllFids \cup {Free} /\ r.new \in Fids \cup {Free}
    BY DEF NineReq
  <1>2. Root \notin Fids /\ Root # Free /\ AllFids = Fids \cup {Root} /\ Free \notin Fids
    BY NineConstants DEF AllFids
  <1>. QED  BY <1>1, <1>2 DEF Touch, WellFormed, ReqTypes

\* One entry of a table replaced.
LEMMA PutFacts ==
  ASSUME NEW tab \in Table, NEW f \in AllFids, NEW e
  PROVE  /\ e \in FidEntry \cup {Free} => [tab EXCEPT ![f] = e] \in Table
         /\ [tab EXCEPT ![f] = e][f] = e
         /\ \A g \in AllFids : g # f => [tab EXCEPT ![f] = e][g] = tab[g]
  BY DEF Table

\* A reply changes the one fid its request touches, from the entries of the
\* fids the request names.
LEMMA AppliedFacts ==
  ASSUME NEW r \in NineReq, WellFormed(r), NEW tab \in Table, NEW ok \in BOOLEAN
  PROVE  /\ Applied(tab, r, ok) \in Table
         /\ \A f \in AllFids : f \notin Touch(r) => Applied(tab, r, ok)[f] = tab[f]
         /\ \A other \in Table : (\A f \in AllFids : f \in Touch(r) \cup {r.fid} => other[f] = tab[f]) =>
              \A f \in Touch(r) : Applied(other, r, ok)[f] = Applied(tab, r, ok)[f]
  <1>1. r.typ \in ReqTypes /\ r.fid \in AllFids \cup {Free} /\ r.new \in Fids \cup {Free}
        /\ r.name \in Names \cup {Free}
    BY DEF NineReq
  <1>2. Root \in AllFids /\ Root \in Paths /\ Fids \subseteq AllFids /\ Names \subseteq Paths
        /\ Free \notin AllFids /\ Xattr \in Paths
    BY NineConstants DEF AllFids, Paths
  <1>3. \A p \in Paths, o \in BOOLEAN : [path |-> p, open |-> o] \in FidEntry
    BY DEF FidEntry
  <1>4. \A x \in FidEntry : x.path \in Paths /\ [x EXCEPT !.open = TRUE] \in FidEntry
    BY DEF FidEntry
  <1>5. \A f \in AllFids : tab[f] \in FidEntry \cup {Free}
    BY DEF Table
  <1>. DEFINE Goal == /\ Applied(tab, r, ok) \in Table
                      /\ \A f \in AllFids : f \notin Touch(r) => Applied(tab, r, ok)[f] = tab[f]
                      /\ \A other \in Table : (\A f \in AllFids : f \in Touch(r) \cup {r.fid} => other[f] = tab[f]) =>
                           \A f \in Touch(r) : Applied(other, r, ok)[f] = Applied(tab, r, ok)[f]
  <1>6. CASE r.typ \in {"opaque", "flush"} \/ (~ok /\ r.typ \notin {"clunk", "remove"})
    <2>1. \A o \in Table : Applied(o, r, ok) = o
      BY <1>6 DEF Applied
    <2>2. Touch(r) \subseteq AllFids
      BY TouchFacts
    <2>. QED  BY <2>1, <2>2
  <1>13. CASE r.typ \in {"walk", "lopen", "lcreate"} /\ tab[r.fid] = Free
    <2>1. r.fid \in AllFids /\ Touch(r) \subseteq AllFids
      BY <1>1, <1>2, <1>13, TouchFacts DEF WellFormed
    <2>2. \A o \in Table : o[r.fid] = tab[r.fid] => Applied(o, r, ok) = o
      BY <1>13 DEF Applied
    <2>. QED  BY <2>1, <2>2
  <1>7. ASSUME NEW f \in AllFids, NEW e \in FidEntry \cup {Free}, Touch(r) = {f}, r.fid \in AllFids,
               \A o \in Table : o[f] = tab[f] /\ o[r.fid] = tab[r.fid] => Applied(o, r, ok) = [o EXCEPT ![f] = e]
        PROVE  Goal
    <2>1. Applied(tab, r, ok) = [tab EXCEPT ![f] = e]
      BY <1>7
    <2>2. ASSUME NEW other \in Table, \A g \in AllFids : g \in Touch(r) \cup {r.fid} => other[g] = tab[g]
          PROVE  Applied(other, r, ok)[f] = e
      BY <1>7, <2>2, PutFacts
    <2>3. Applied(tab, r, ok) \in Table /\ Applied(tab, r, ok)[f] = e
          /\ \A g \in AllFids : g # f => Applied(tab, r, ok)[g] = tab[g]
      <3>. DEFINE new == [tab EXCEPT ![f] = e]
      <3>1. new \in Table /\ new[f] = e /\ \A g \in AllFids : g # f => new[g] = tab[g]
        BY PutFacts
      <3>. HIDE DEF new
      <3>2. Applied(tab, r, ok) = new
        BY <2>1 DEF new
      <3>. QED  BY <3>1, <3>2
    <2>. QED  BY <2>2, <2>3, <1>7
  <1>8. CASE r.typ = "attach" /\ ok
    <2>. DEFINE e == [path |-> Root, open |-> FALSE]
    <2>1. Touch(r) = {Root} /\ r.fid \in AllFids /\ e \in FidEntry
      BY <1>8, <1>2, <1>3 DEF Touch, WellFormed
    <2>2. \A o \in Table : Applied(o, r, ok) = [o EXCEPT ![Root] = e]
      BY <1>8 DEF Applied
    <2>. HIDE DEF e
    <2>. QED  BY <2>1, <2>2, <1>2, <1>7
  <1>9. CASE r.typ = "walk" /\ ok /\ tab[r.fid] # Free
    <2>. DEFINE e(o) == [path |-> IF r.name = Free THEN o[r.fid].path ELSE r.name, open |-> FALSE]
    <2>1. Touch(r) = {r.new} /\ r.new \in AllFids /\ r.fid \in AllFids
      BY <1>1, <1>2, <1>9 DEF Touch, WellFormed
    <2>2. \A o \in Table : o[r.fid] = tab[r.fid] => Applied(o, r, ok) = [o EXCEPT ![r.new] = e(o)]
      BY <1>9 DEF Applied
    <2>3. tab[r.fid] \in FidEntry
      BY <2>1, <1>5, <1>9
    <2>4. (IF r.name = Free THEN tab[r.fid].path ELSE r.name) \in Paths
      BY <2>3, <1>1, <1>2, <1>4
    <2>5. e(tab) \in FidEntry
      BY <2>4, <1>3
    <2>6. \A o \in Table : o[r.fid] = tab[r.fid] => e(o) = e(tab)
      OBVIOUS
    <2>. HIDE DEF e
    <2>7. \A o \in Table : o[r.new] = tab[r.new] /\ o[r.fid] = tab[r.fid] => Applied(o, r, ok) = [o EXCEPT ![r.new] = e(tab)]
      BY <2>2, <2>6
    <2>. QED  BY <2>1, <2>5, <2>7, <1>7
  <1>10. CASE r.typ = "lopen" /\ ok /\ tab[r.fid] # Free
    <2>. DEFINE e(o) == [o[r.fid] EXCEPT !.open = TRUE]
    <2>1. Touch(r) = {r.fid} /\ r.fid \in AllFids
      BY <1>2, <1>10 DEF Touch, WellFormed
    <2>2. \A o \in Table : o[r.fid] = tab[r.fid] => Applied(o, r, ok) = [o EXCEPT ![r.fid] = e(o)]
      BY <1>10 DEF Applied
    <2>3. e(tab) \in FidEntry
      BY <2>1, <1>4, <1>5, <1>10
    <2>4. \A o \in Table : o[r.fid] = tab[r.fid] => e(o) = e(tab)
      OBVIOUS
    <2>. HIDE DEF e
    <2>5. \A o \in Table : o[r.fid] = tab[r.fid] /\ o[r.fid] = tab[r.fid] => Applied(o, r, ok) = [o EXCEPT ![r.fid] = e(tab)]
      BY <2>2, <2>4
    <2>. QED  BY <2>1, <2>3, <2>5, <1>7
  <1>11. CASE r.typ = "lcreate" /\ ok /\ tab[r.fid] # Free
    <2>1. Touch(r) = {r.fid} /\ r.fid \in AllFids /\ r.name \in Paths
      BY <1>1, <1>2, <1>11 DEF Touch, WellFormed
    <2>2. \A o \in Table : o[r.fid] = tab[r.fid] =>
            Applied(o, r, ok) = [o EXCEPT ![r.fid] = [path |-> r.name, open |-> TRUE]]
      BY <1>11 DEF Applied
    <2>3. [path |-> r.name, open |-> TRUE] \in FidEntry
      BY <2>1, <1>3
    <2>. QED  BY <2>1, <2>2, <2>3, <1>7
  <1>12. CASE r.typ \in {"clunk", "remove"}
    <2>1. Touch(r) = {r.fid} /\ r.fid \in AllFids
      BY <1>2, <1>12 DEF Touch, WellFormed
    <2>2. \A o \in Table : Applied(o, r, ok) = [o EXCEPT ![r.fid] = Free]
      BY <1>12 DEF Applied
    <2>. QED  BY <2>1, <2>2, <1>7
  <1>14. CASE r.typ = "xattrwalk" /\ ok
    <2>. DEFINE e == [path |-> Xattr, open |-> FALSE]
    <2>1. Touch(r) = {r.new} /\ r.new \in AllFids /\ r.fid \in AllFids /\ e \in FidEntry
      BY <1>1, <1>2, <1>3, <1>14 DEF Touch, WellFormed
    <2>2. \A o \in Table : Applied(o, r, ok) = [o EXCEPT ![r.new] = e]
      BY <1>14 DEF Applied
    <2>. HIDE DEF e
    <2>. QED  BY <2>1, <2>2, <1>7
  <1>. QED  BY <1>1, <1>6, <1>8, <1>9, <1>10, <1>11, <1>12, <1>13, <1>14 DEF ReqTypes

LEMMA AppliedAgrees ==
  ASSUME NEW r \in NineReq, WellFormed(r), NEW tab \in Table, NEW ok \in BOOLEAN,
         NEW other \in Table, \A f \in AllFids : f \in Touch(r) \cup {r.fid} => other[f] = tab[f]
  PROVE  \A f \in Touch(r) : Applied(other, r, ok)[f] = Applied(tab, r, ok)[f]
  BY AppliedFacts

LEMMA RootEntryFacts ==
  RootEntry \in FidEntry /\ RootEntry # Free /\ RootEntry.path = Root /\ ~RootEntry.open /\ Root # Xattr
  <1>1. RootEntry \in FidEntry /\ RootEntry.path = Root /\ ~RootEntry.open
    BY DEF RootEntry, FidEntry, Paths
  <1>. QED  BY <1>1, FreeAssumption, NineConstants

\* The types alone: whatever a reply is taken to answer, a table stays one,
\* and only an attach changes the root.
LEMMA AppliedType ==
  ASSUME NEW r \in NineReq, NEW tab \in Table, NEW ok \in BOOLEAN
  PROVE  /\ Applied(tab, r, ok) \in Table
         /\ Applied(tab, r, ok)[Root] = IF r.typ = "attach" /\ ok THEN RootEntry ELSE tab[Root]
  <1>1. /\ r.typ \in ReqTypes /\ r.fid \in AllFids \cup {Free} /\ r.new \in Fids \cup {Free}
        /\ r.name \in Names \cup {Free}
        /\ r.typ \in {"lopen", "lcreate", "clunk", "remove"} => r.fid \in Fids
        /\ r.typ = "lcreate" => r.name \in Names
        /\ r.typ = "walk" => r.fid \in AllFids
    BY DEF NineReq, OnFid
  <1>2. /\ Root \in AllFids /\ Root \in Paths /\ Xattr \in Paths /\ Names \subseteq Paths
        /\ Fids \subseteq AllFids /\ Root \notin Fids /\ Free \notin AllFids
    BY NineConstants DEF AllFids, Paths
  <1>3. /\ \A q \in Paths, o \in BOOLEAN : [path |-> q, open |-> o] \in FidEntry
        /\ \A x \in FidEntry : x.path \in Paths /\ [x EXCEPT !.open = TRUE] \in FidEntry
    BY DEF FidEntry
  <1>4. \A f \in AllFids : tab[f] \in FidEntry \cup {Free}
    BY DEF Table
  <1>5. ASSUME NEW f \in Fids \cup {Free}, NEW e, f \in Fids => e \in FidEntry \cup {Free}
        PROVE  [tab EXCEPT ![f] = e] \in Table /\ [tab EXCEPT ![f] = e][Root] = tab[Root]
    BY <1>2, <1>5 DEF Table
  <1>6. CASE r.typ = "attach" /\ ok
    <2>1. Applied(tab, r, ok) = [tab EXCEPT ![Root] = RootEntry] /\ RootEntry \in FidEntry
      BY <1>2, <1>3, <1>6 DEF Applied, RootEntry
    <2>. QED  BY <2>1, <1>2, <1>6, PutFacts
  <1>7. CASE r.typ = "walk" /\ ok /\ tab[r.fid] # Free
    <2>. DEFINE e == [path |-> IF r.name = Free THEN tab[r.fid].path ELSE r.name, open |-> FALSE]
    <2>1. Applied(tab, r, ok) = [tab EXCEPT ![r.new] = e]
      BY <1>7 DEF Applied
    <2>2. tab[r.fid] \in FidEntry
      BY <1>1, <1>4, <1>7
    <2>3. e \in FidEntry
      BY <2>2, <1>1, <1>2, <1>3
    <2>. QED  BY <2>1, <2>3, <1>1, <1>5, <1>7
  <1>8. CASE r.typ = "lopen" /\ ok /\ tab[r.fid] # Free
    <2>1. Applied(tab, r, ok) = [tab EXCEPT ![r.fid] = [tab[r.fid] EXCEPT !.open = TRUE]]
      BY <1>8 DEF Applied
    <2>2. [tab[r.fid] EXCEPT !.open = TRUE] \in FidEntry /\ r.fid \in Fids
      BY <1>1, <1>2, <1>3, <1>4, <1>8
    <2>. QED  BY <2>1, <2>2, <1>5, <1>8
  <1>9. CASE r.typ = "lcreate" /\ ok /\ tab[r.fid] # Free
    BY <1>1, <1>2, <1>3, <1>5, <1>9 DEF Applied
  <1>10. CASE r.typ = "xattrwalk" /\ ok
    BY <1>1, <1>2, <1>3, <1>5, <1>10 DEF Applied
  <1>11. CASE r.typ \in {"clunk", "remove"}
    BY <1>1, <1>5, <1>11 DEF Applied
  <1>12. CASE /\ ~(r.typ = "attach" /\ ok) /\ ~(r.typ \in {"walk", "lopen", "lcreate"} /\ ok /\ tab[r.fid] # Free)
              /\ ~(r.typ = "xattrwalk" /\ ok) /\ r.typ \notin {"clunk", "remove"}
    BY <1>12 DEF Applied
  <1>. QED  BY <1>6, <1>7, <1>8, <1>9, <1>10, <1>11, <1>12

\* What the proxy tracks of a table.
LEMMA TrackedFacts ==
  ASSUME NEW tab \in Table
  PROVE  /\ Tracked(tab) \in Table
         /\ \A f \in AllFids : /\ Match(Tracked(tab)[f], tab[f])
                               /\ tab[f] # Free /\ tab[f].path # Xattr => Tracked(tab)[f] = tab[f]
                               /\ tab[f] = Free => Tracked(tab)[f] = Free
         /\ \A o \in Table, f \in AllFids : o[f] = tab[f] => Tracked(o)[f] = Tracked(tab)[f]
  BY DEF Tracked, Table, Match

\* Session follows what it tracks.
LEMMA TrackedApplied ==
  ASSUME NEW r \in NineReq, WellFormed(r), NEW tab \in Table, NEW ok \in BOOLEAN,
         r.typ \notin {"attach", "flush"} => tab[r.fid] # Free,
         r.typ \in {"walk", "xattrwalk", "lopen", "lcreate"} => tab[r.fid].path # Xattr,
         r.typ = "xattrwalk" => tab[r.new] = Free
  PROVE  Tracked(Applied(tab, r, ok)) =
           IF r.typ = "xattrwalk" THEN Tracked(tab) ELSE Applied(Tracked(tab), r, ok)
  <1>. DEFINE new == Applied(tab, r, ok)
              s == Tracked(tab)
              res == IF r.typ = "xattrwalk" THEN s ELSE Applied(s, r, ok)
  <1>1. new \in Table /\ s \in Table
    BY AppliedFacts, TrackedFacts
  <1>2. Tracked(new) \in Table /\ Applied(s, r, ok) \in Table
    BY <1>1, TrackedFacts, AppliedFacts
  <1>. HIDE DEF new, s
  <1>3. r.typ \in ReqTypes /\ r.fid \in AllFids \cup {Free} /\ r.new \in Fids \cup {Free}
        /\ r.name \in Names \cup {Free}
    BY DEF NineReq
  <1>4. Root \in AllFids /\ Fids \subseteq AllFids /\ Xattr \notin Names /\ Xattr # Root /\ Free \notin FidEntry
        /\ Free \notin Names
    BY NineConstants, FreeAssumption DEF AllFids
  <1>5. \A f \in AllFids : tab[f] \in FidEntry \cup {Free}
    BY DEF Table
  <1>6. ASSUME NEW f \in AllFids PROVE Tracked(new)[f] = res[f]
    <2>1. CASE f \notin Touch(r)
      <3>1. new[f] = tab[f] /\ Applied(s, r, ok)[f] = s[f]
        BY <1>1, <2>1, AppliedFacts DEF new
      <3>2. Tracked(new)[f] = s[f]
        BY <3>1, <1>1, TrackedFacts DEF s
      <3>. QED  BY <3>1, <3>2
    <2>2. CASE f \in Touch(r) /\ ~ok /\ r.typ \notin {"clunk", "remove"}
      <3>1. new = tab /\ Applied(s, r, ok) = s
        BY <2>2 DEF Applied, new
      <3>. QED  BY <3>1 DEF s
    <2>3. CASE f \in Touch(r) /\ r.typ \in {"clunk", "remove"}
      <3>1. f = r.fid /\ new = [tab EXCEPT ![f] = Free] /\ Applied(s, r, ok) = [s EXCEPT ![f] = Free]
        BY <2>3 DEF Touch, Applied, new
      <3>2. new[f] = Free /\ Applied(s, r, ok)[f] = Free
        BY <3>1, <1>1, PutFacts
      <3>. QED  BY <3>2, <1>1, <2>3, TrackedFacts
    <2>4. CASE f \in Touch(r) /\ ok /\ r.typ = "attach"
      <3>1. f = Root /\ new = [tab EXCEPT ![f] = RootEntry] /\ Applied(s, r, ok) = [s EXCEPT ![f] = RootEntry]
        BY <2>4 DEF Touch, Applied, RootEntry, new
      <3>2. new[f] = RootEntry /\ Applied(s, r, ok)[f] = RootEntry
        BY <3>1, <1>1, PutFacts
      <3>3. RootEntry # Free /\ RootEntry.path # Xattr
        BY RootEntryFacts, <1>4 DEF RootEntry
      <3>4. Tracked(new)[f] = new[f]
        BY <3>2, <3>3 DEF Tracked
      <3>5. res[f] = Applied(s, r, ok)[f]
        BY <2>4
      <3>. QED  BY <3>2, <3>4, <3>5
    <2>5. CASE f \in Touch(r) /\ ok /\ r.typ = "xattrwalk"
      <3>. DEFINE e == [path |-> Xattr, open |-> FALSE]
      <3>1. f = r.new /\ new = [tab EXCEPT ![f] = e]
        BY <2>5 DEF Touch, Applied, new
      <3>2. e \in FidEntry /\ e.path = Xattr
        BY DEF FidEntry, Paths
      <3>. HIDE DEF e
      <3>5. new[f] = e /\ e # Free
        BY <3>1, <3>2, <1>4, PutFacts
      <3>3. Tracked(new)[f] = Free
        BY <3>2, <3>5, <1>1 DEF Tracked
      <3>4. s[f] = Free
        BY <3>1, <2>5, TrackedFacts DEF s
      <3>. QED  BY <3>3, <3>4, <2>5
    <2>6. CASE f \in Touch(r) /\ ok /\ r.typ \in {"walk", "lopen", "lcreate"}
      <3>1. r.fid \in AllFids /\ tab[r.fid] # Free /\ s[r.fid] = tab[r.fid] /\ tab[r.fid] \in FidEntry
        <4>1. r.fid \in AllFids
          BY <2>6, <1>3, <1>4 DEF WellFormed
        <4>. QED  BY <4>1, <2>6, <1>5, TrackedFacts DEF s
      <3>2. ASSUME NEW e \in FidEntry, e.path # Xattr, new = [tab EXCEPT ![f] = e],
                   Applied(s, r, ok) = [s EXCEPT ![f] = e]
            PROVE  Tracked(new)[f] = res[f]
        <4>1. new[f] = e /\ Applied(s, r, ok)[f] = e /\ e # Free
          BY <3>2, <1>1, <1>4, PutFacts
        <4>2. Tracked(new)[f] = new[f]
          BY <4>1, <3>2 DEF Tracked
        <4>3. res[f] = Applied(s, r, ok)[f]
          BY <2>6
        <4>. QED  BY <4>1, <4>2, <4>3
      <3>3. CASE r.typ = "walk"
        <4>. DEFINE e == [path |-> IF r.name = Free THEN tab[r.fid].path ELSE r.name, open |-> FALSE]
        <4>1. new = [tab EXCEPT ![f] = e] /\ Applied(s, r, ok) = [s EXCEPT ![f] = e]
          BY <2>6, <3>1, <3>3 DEF Touch, Applied, new
        <4>2. e.path # Xattr /\ e \in FidEntry
          BY <3>1, <3>3, <1>3, <1>4 DEF FidEntry, Paths
        <4>. HIDE DEF e
        <4>. QED  BY <4>1, <4>2, <3>2
      <3>4. CASE r.typ = "lopen"
        <4>. DEFINE e == [tab[r.fid] EXCEPT !.open = TRUE]
        <4>1. new = [tab EXCEPT ![f] = e] /\ Applied(s, r, ok) = [s EXCEPT ![f] = e]
          BY <2>6, <3>1, <3>4 DEF Touch, Applied, new
        <4>2. e.path # Xattr /\ e \in FidEntry
          BY <3>1, <3>4 DEF FidEntry
        <4>. HIDE DEF e
        <4>. QED  BY <4>1, <4>2, <3>2
      <3>5. CASE r.typ = "lcreate"
        <4>. DEFINE e == [path |-> r.name, open |-> TRUE]
        <4>1. new = [tab EXCEPT ![f] = e] /\ Applied(s, r, ok) = [s EXCEPT ![f] = e]
          BY <2>6, <3>1, <3>5 DEF Touch, Applied, new
        <4>2. e.path # Xattr /\ e \in FidEntry
          BY <3>5, <1>3, <1>4 DEF FidEntry, Paths, WellFormed
        <4>. HIDE DEF e
        <4>. QED  BY <4>1, <4>2, <3>2
      <3>. QED  BY <2>6, <3>3, <3>4, <3>5
    <2>7. Touch(r) # {} => r.typ \in {"attach", "walk", "xattrwalk", "lopen", "lcreate", "clunk", "remove"}
      BY DEF Touch
    <2>. QED  BY <2>1, <2>2, <2>3, <2>4, <2>5, <2>6, <2>7
  <1>7. res \in Table
    BY <1>1, <1>2
  <1>8. Tracked(new) = res
    BY <1>2, <1>6, <1>7 DEF Table
  <1>. QED  BY <1>8 DEF new, s

\* A server that may not know a fid of Txattrwalk keeps up with the kernel.
LEMMA MatchApplied ==
  ASSUME NEW r \in NineReq, WellFormed(r), NEW tab \in Table, NEW other \in Table, NEW ok \in BOOLEAN,
         NEW known \in BOOLEAN,
         known <=> (r.fid = Free \/ r.typ = "attach" \/ other[r.fid] # Free), ~known => ~ok,
         r.typ \notin {"attach", "flush"} => tab[r.fid] # Free,
         r.typ \in {"walk", "xattrwalk", "lopen", "lcreate"} => tab[r.fid].path # Xattr,
         \A f \in AllFids : f \in Touch(r) \cup {r.fid} => Match(other[f], tab[f])
  PROVE  \A f \in Touch(r) :
           Match((IF known THEN Applied(other, r, ok) ELSE other)[f], Applied(tab, r, ok)[f])
  <1>. SUFFICES ASSUME NEW f \in Touch(r)
                PROVE  Match((IF known THEN Applied(other, r, ok) ELSE other)[f], Applied(tab, r, ok)[f])
    OBVIOUS
  <1>1. r.fid \in AllFids /\ f \in AllFids /\ Touch(r) \subseteq AllFids
    BY TouchFacts
  <1>2. r.typ \in {"attach", "walk", "xattrwalk", "lopen", "lcreate", "clunk", "remove"}
    BY DEF Touch
  <1>3. CASE r.typ \in {"clunk", "remove"}
    <2>1. f = r.fid /\ Applied(tab, r, ok) = [tab EXCEPT ![f] = Free] /\ Applied(other, r, ok) = [other EXCEPT ![f] = Free]
      BY <1>3 DEF Touch, Applied
    <2>2. Applied(tab, r, ok)[f] = Free /\ Applied(other, r, ok)[f] = Free
      BY <2>1, <1>1, PutFacts
    <2>3. ~known => other[f] = Free
      BY <2>1
    <2>. QED  BY <2>2, <2>3 DEF Match
  <1>4. CASE ~ok /\ r.typ \notin {"clunk", "remove"}
    <2>1. Applied(tab, r, ok) = tab /\ Applied(other, r, ok) = other
      BY <1>4 DEF Applied
    <2>. QED  BY <2>1, <1>1
  <1>5. CASE ok /\ r.typ = "attach"
    <2>1. f = Root /\ Applied(tab, r, ok) = [tab EXCEPT ![f] = RootEntry] /\ Applied(other, r, ok) = [other EXCEPT ![f] = RootEntry]
      BY <1>5 DEF Touch, Applied, RootEntry
    <2>. QED  BY <2>1, <1>1, <1>5, PutFacts DEF Match
  <1>6. CASE ok /\ r.typ \in {"walk", "xattrwalk", "lopen", "lcreate"}
    <2>1. other[r.fid] = tab[r.fid] /\ known /\ tab[r.fid] # Free
      BY <1>1, <1>6 DEF Match
    <2>2. ASSUME NEW e, Applied(tab, r, ok) = [tab EXCEPT ![f] = e], Applied(other, r, ok) = [other EXCEPT ![f] = e]
          PROVE  Match(Applied(other, r, ok)[f], Applied(tab, r, ok)[f])
      BY <2>2, <1>1, PutFacts DEF Match
    <2>3. \E e : Applied(tab, r, ok) = [tab EXCEPT ![f] = e] /\ Applied(other, r, ok) = [other EXCEPT ![f] = e]
      <3>1. CASE r.typ = "walk"
        BY <3>1, <2>1, <1>6 DEF Applied, Touch
      <3>2. CASE r.typ = "xattrwalk"
        BY <3>2, <2>1, <1>6 DEF Applied, Touch
      <3>3. CASE r.typ = "lopen"
        BY <3>3, <2>1, <1>6 DEF Applied, Touch
      <3>4. CASE r.typ = "lcreate"
        BY <3>4, <2>1, <1>6 DEF Applied, Touch
      <3>. QED  BY <3>1, <3>2, <3>3, <3>4, <1>6
    <2>. QED  BY <2>1, <2>2, <2>3
  <1>. QED  BY <1>2, <1>3, <1>4, <1>5, <1>6

\* What a replay leaves on the new server: a table, and once attached the
\* very table of the session.
LEMMA ReplayFacts ==
  ASSUME NineTypeOK, AttachInv
  PROVE  Replay(fids) \in Table /\ (haveAttach => Replay(fids) = fids)
  <1>1. fids \in Table /\ Root \in AllFids
    BY DEF NineTypeOK, AllFids
  <1>2. \A f \in AllFids : fids[f] \in FidEntry \cup {Free}
    BY <1>1 DEF Table
  <1>3. /\ \A x \in FidEntry : x.path \in Paths /\ x.open \in BOOLEAN /\ x = [path |-> x.path, open |-> x.open]
        /\ Root \in Paths /\ Free \notin FidEntry
    BY FreeAssumption DEF FidEntry, Paths
  <1>4. ASSUME NEW f \in AllFids
        PROVE  /\ Replay(fids)[f] \in FidEntry \cup {Free}
               /\ haveAttach => Replay(fids)[f] = fids[f]
    <2>1. CASE f = Root
      <3>1. Rewalked(fids)[f] = RootEntry
        BY <2>1, <1>1 DEF Rewalked, Reattached, RootEntry
      <3>2. fids[f] # Free => ~fids[f].open
        BY <2>1 DEF AttachInv, RootEntry
      <3>3. Replay(fids)[f] = RootEntry
        BY <3>1, <3>2, <1>1, <2>1 DEF Replay
      <3>. QED  BY <3>3, <2>1, <1>3 DEF AttachInv, RootEntry, FidEntry
    <2>2. CASE f # Root /\ fids[f] = Free
      <3>1. Rewalked(fids)[f] = Free
        BY <2>2 DEF Rewalked, Reattached
      <3>. QED  BY <3>1, <2>2 DEF Replay
    <2>3. CASE f # Root /\ fids[f] # Free
      <3>. DEFINE x == fids[f]
      <3>1. x \in FidEntry
        BY <2>3, <1>2
      <3>2. Rewalked(fids)[f] = [path |-> x.path, open |-> FALSE]
        BY <2>3 DEF Rewalked
      <3>3. Replay(fids)[f] = [path |-> x.path, open |-> x.open]
        <4>. DEFINE w == [path |-> x.path, open |-> FALSE]
        <4>1. [w EXCEPT !.open = TRUE] = [path |-> x.path, open |-> TRUE]
          <5>. DEFINE e == [w EXCEPT !.open = TRUE]
          <5>1. w \in FidEntry /\ w.path = x.path
            BY <3>1, <1>3 DEF FidEntry
          <5>. HIDE DEF w
          <5>2. e \in FidEntry /\ e.path = x.path /\ e.open = TRUE
            BY <5>1 DEF FidEntry
          <5>. HIDE DEF e
          <5>3. e = [path |-> e.path, open |-> e.open]
            BY <5>2, <1>3
          <5>4. e = [path |-> x.path, open |-> TRUE]
            BY <5>2, <5>3
          <5>. QED  BY <5>4 DEF e
        <4>4. Replay(fids)[f] =
                IF x.open THEN [Rewalked(fids)[f] EXCEPT !.open = TRUE] ELSE Rewalked(fids)[f]
          BY <2>3 DEF Replay
        <4>5. Rewalked(fids)[f] = w
          BY <3>2
        <4>. HIDE DEF w
        <4>2. Replay(fids)[f] = IF x.open THEN [path |-> x.path, open |-> TRUE] ELSE w
          BY <4>1, <4>4, <4>5
        <4>3. x.open \in BOOLEAN
          BY <3>1, <1>3
        <4>. QED  BY <4>2, <4>3 DEF w
      <3>. QED  BY <3>1, <3>3, <1>3
    <2>. QED  BY <2>1, <2>2, <2>3
  <1>5. Replay(fids) = [f \in AllFids |-> Replay(fids)[f]]
    BY DEF Replay
  <1>. QED  BY <1>1, <1>4, <1>5 DEF Table

-----------------------------------------------------------------------------
(* Steps that only lose something: the pump lets a message go that is not  *)
(* of this generation, a connection dies.                                  *)

LEMMA ConnFacts ==
  ASSUME NineTypeOK
  PROVE  /\ conn.alive \in BOOLEAN /\ conn.c2s \in Seq(NineMsg) /\ conn.s2c \in Seq(NineReply)
         /\ conn.sfids \in Table /\ k2p \in Seq(NineMsg)
  BY DEF NineTypeOK

\* Parts of the invariant that a step leaves alone.
LEMMA KernelSame ==
  ASSUME KernelInv, UNCHANGED <<kfid, ktag, nextId>>
  PROVE  KernelInv'
  BY DEF KernelInv, Waits, FromPath

LEMMA FidsSame ==
  ASSUME FidsInv, UNCHANGED <<kfid, ktag, fids, hpump>>
  PROVE  FidsInv'
  BY DEF FidsInv, Holding, HTag

\* What the server's table is compared with.
LEMMA ServerSame ==
  ASSUME ServerInv, UNCHANGED <<kfid, ktag>>, Live' => Live /\ conn'.sfids = conn.sfids,
         Live' => \A y \in NineReply : IsReply(y)' <=> IsReply(y)
  PROVE  ServerInv'
  BY DEF ServerInv

PumpKept ==
  /\ Current' => Current /\ kpump'.msg = kpump.msg
  /\ kpump' # Free => kpump'.obsGen <= hostGen'
  /\ Live' => Live /\ (Current => Current')

ConnKept ==
  \/ conn' = conn /\ host' = host
  \/ /\ ~conn'.alive /\ conn'.c2s = <<>>
     /\ ~host' => conn'.s2c = <<>>
     /\ DOMAIN conn'.s2c \subseteq DOMAIN conn.s2c
     /\ \A i \in DOMAIN conn'.s2c : conn'.s2c[i] = conn.s2c[i]
     /\ \A i \in DOMAIN conn'.s2c, j \in DOMAIN conn.s2c : j < i => j \in DOMAIN conn'.s2c

LEMMA QuietStep ==
  ASSUME NineTypeOK, OpenInv, PumpKept, ConnKept,
         UNCHANGED <<kfid, ktag, k2p, fids, pending, hpump, nextId>>
  PROVE  OpenInv'
  <1>. USE DEF OpenInv
  <1>1. KernelInv'
    BY KernelSame
  <1>2. PipeInv'
    BY DEF PipeInv, PumpKept, Sent
  <1>3. HeldInv'
    BY DEF HeldInv, PumpKept, Sent, Waits, Holding, HTag
  <1>4. RequestsInv'
    <2>1. CASE conn' = conn
      BY <2>1 DEF RequestsInv, PumpKept, Holding
    <2>2. CASE conn'.c2s = <<>>
      BY <2>2 DEF RequestsInv
    <2>. QED  BY <2>1, <2>2 DEF ConnKept
  <1>5. RepliesInv'
    <2>1. CASE conn' = conn /\ host' = host
      BY <2>1 DEF RepliesInv, PumpKept, Holding, Sent
    <2>2. CASE ~(conn' = conn /\ host' = host)
      <3>1. /\ ~conn'.alive /\ conn'.c2s = <<>> /\ (~host' => conn'.s2c = <<>>)
            /\ \A i \in DOMAIN conn'.s2c : i \in DOMAIN conn.s2c /\ conn'.s2c[i] = conn.s2c[i]
        BY <2>2 DEF ConnKept
      <3>. QED  BY <3>1 DEF RepliesInv, PumpKept, Holding, Sent
    <2>. QED  BY <2>1, <2>2
  <1>6. PrefixInv'
    <2>1. CASE conn' = conn
      BY <2>1 DEF PrefixInv, Holding, HTag, Waits
    <2>2. CASE conn' # conn
      <3>1. /\ \A i \in DOMAIN conn'.s2c : i \in DOMAIN conn.s2c /\ conn'.s2c[i] = conn.s2c[i]
            /\ \A i \in DOMAIN conn'.s2c, j \in DOMAIN conn.s2c : j < i => j \in DOMAIN conn'.s2c
        BY <2>2 DEF ConnKept
      <3>2. (Holding' <=> Holding) /\ HTag' = HTag /\ ktag' = ktag
        BY DEF Holding, HTag
      <3>3. ASSUME NEW i \in DOMAIN conn'.s2c, NEW u \in Tags, ktag[u] # Free, ktag[u].id < conn'.s2c[i].id
            PROVE  (Holding /\ HTag = u) \/ \E j \in DOMAIN conn'.s2c : j < i /\ conn'.s2c[j].tag = u
        <4>1. (Holding /\ HTag = u) \/ \E j \in DOMAIN conn.s2c : j < i /\ conn.s2c[j].tag = u
          BY <3>1, <3>3 DEF PrefixInv, Waits
        <4>. QED  BY <4>1, <3>1
      <3>. QED  BY <3>2, <3>3 DEF PrefixInv, Waits
    <2>. QED  BY <2>1, <2>2
  <1>7. CoverInv'
    <2>1. \A t \in Tags : Waits(t)' =>
            Sent(t)' \/ (Holding' /\ HTag' = t) \/ \E i \in DOMAIN k2p' : k2p'[i].tag = t
      BY DEF CoverInv, Waits, Sent, Holding, HTag
    <2>2. ASSUME Live', NEW t \in Tags, Sent(t)'
          PROVE  \/ Current' /\ kpump'.msg.tag = t
                 \/ \E i \in DOMAIN conn'.c2s : conn'.c2s[i].tag = t
                 \/ \E i \in DOMAIN conn'.s2c : conn'.s2c[i].tag = t
                 \/ Holding' /\ HTag' = t
      <3>1. conn' = conn /\ Live /\ Sent(t) /\ (Holding' <=> Holding) /\ HTag' = HTag
        BY <2>2 DEF ConnKept, Live, PumpKept, Sent, Holding, HTag
      <3>2. Current => Current' /\ kpump'.msg = kpump.msg
        BY <2>2 DEF PumpKept
      <3>. QED  BY <3>1, <3>2 DEF CoverInv
    <2>. QED  BY <2>1, <2>2 DEF CoverInv
  <1>8. FidsInv'
    BY FidsSame
  <1>9. ServerInv'
    <2>1. Live' => Live /\ conn' = conn
      BY DEF ConnKept, Live, PumpKept
    <2>. QED  BY <2>1, ServerSame DEF IsReply, Holding
  <1>. QED  BY <1>1, <1>2, <1>3, <1>4, <1>5, <1>6, <1>7, <1>8, <1>9

\* The write that reaches the server.
Lands ==
  /\ HostWrite /\ hostGen = kpump.obsGen /\ Live
  /\ kpump' = Free /\ host' = host /\ conn' = [conn EXCEPT !.c2s = Append(@, kpump.msg)]

LEMMA QuietActions ==
  ASSUME NineTypeOK, OpenInv,
         \/ WriteHost \/ HostReadError \/ ConnDies \/ ReconnectFails
         \/ (HostWrite /\ ~Lands) \/ UNCHANGED nineVars
  PROVE  OpenInv'
  <1>1. kpump # Free => kpump \in KernelPump /\ kpump.obsGen \in Nat /\ kpump.obsGen <= hostGen
    BY NineFacts DEF OpenInv, PipeInv
  <1>2. conn \in [alive : BOOLEAN, c2s : Seq(NineMsg), s2c : Seq(NineReply), sfids : Table]
    BY DEF NineTypeOK
  <1>3. ASSUME NEW w \in BOOLEAN, kpump # Free
        PROVE  LET p == [kpump EXCEPT !.writing = w] IN p # Free /\ p.msg = kpump.msg /\ p.obsGen = kpump.obsGen
    <2>1. [kpump EXCEPT !.writing = w] \in KernelPump
      BY <1>1, <1>3 DEF KernelPump
    <2>. QED  BY <2>1, <1>1, <1>3, FreeAssumption DEF KernelPump
  <1>4. ASSUME MarkHostDead PROVE ConnKept /\ ~Live'
    <2>1. conn'.alive = FALSE /\ conn'.c2s = <<>> /\ conn'.s2c = <<>> /\ ~host'
      BY <1>2, <1>4 DEF MarkHostDead
    <2>. QED  BY <2>1 DEF ConnKept, Live
  <1>5. CASE WriteHost
    <2>1. PumpKept
      <3>1. CASE kpump' = Free /\ hostGen # kpump.obsGen
        BY <3>1, <1>5 DEF WriteHost, PumpKept, Current, Live
      <3>2. CASE kpump' = [kpump EXCEPT !.writing = TRUE]
        BY <3>2, <1>5, <1>1, <1>3 DEF WriteHost, PumpKept, Current, Live
      <3>. QED  BY <3>1, <3>2, <1>5 DEF WriteHost
    <2>. QED  BY <2>1, <1>5, QuietStep DEF WriteHost, ConnKept
  <1>6. CASE HostReadError
    <2>1. PumpKept
      BY <1>6, <1>4, <1>1 DEF HostReadError, PumpKept, Current
    <2>. QED  BY <2>1, <1>4, <1>6, QuietStep DEF HostReadError
  <1>7. CASE ConnDies
    <2>1. PICK k \in 0..Len(conn.s2c) :
            conn' = [conn EXCEPT !.alive = FALSE, !.c2s = <<>>, !.s2c = SubSeq(conn.s2c, 1, k)]
      BY <1>7, <1>2 DEF ConnDies
    <2>. DEFINE q == SubSeq(conn.s2c, 1, k)
    <2>2. conn'.alive = FALSE /\ conn'.c2s = <<>> /\ conn'.s2c = q
      BY <1>2, <2>1
    <2>3. /\ DOMAIN conn.s2c = 1..Len(conn.s2c) /\ DOMAIN q = 1..k
          /\ \A i \in 1..k : q[i] = conn.s2c[i]
          /\ Len(conn.s2c) \in Nat /\ k \in Nat /\ k <= Len(conn.s2c)
      BY <1>2
    <2>. HIDE DEF q
    <2>4. ConnKept
      <3>1. host'
        BY <1>7 DEF ConnDies
      <3>2. DOMAIN q \subseteq DOMAIN conn.s2c
        BY <2>3
      <3>3. \A i \in DOMAIN q, j \in DOMAIN conn.s2c : j < i => j \in DOMAIN q
        BY <2>3
      <3>. QED  BY <2>2, <2>3, <3>1, <3>2, <3>3 DEF ConnKept
    <2>5. PumpKept
      BY <2>2, <1>1, <1>7 DEF PumpKept, Current, Live, ConnDies
    <2>. QED  BY <2>4, <2>5, <1>7, QuietStep DEF ConnDies
  <1>8. CASE ReconnectFails \/ UNCHANGED nineVars
    <2>1. UNCHANGED <<kfid, ktag, k2p, fids, pending, host, hostGen, kpump, hpump, conn, nextId>>
      BY <1>8 DEF ReconnectFails, nineVars
    <2>2. PumpKept /\ ConnKept
      BY <2>1, <1>1 DEF PumpKept, ConnKept, Current, Live
    <2>. QED  BY <2>1, <2>2, QuietStep
  <1>9. CASE HostWrite /\ ~Lands
    <2>1. UNCHANGED <<kfid, ktag, k2p, fids, pending, hpump, nextId, hostGen>> /\ kpump # Free
      BY <1>9 DEF HostWrite
    <2>2. CASE hostGen = kpump.obsGen /\ host /\ ~conn.alive /\ kpump' = Free /\ host' = host /\ conn' = conn
      <3>1. PumpKept /\ ConnKept
        BY <2>1, <2>2 DEF PumpKept, ConnKept, Current, Live
      <3>. QED  BY <2>1, <3>1, QuietStep
    <2>3. CASE hostGen = kpump.obsGen /\ ~Live /\ kpump' = [kpump EXCEPT !.writing = FALSE] /\ MarkHostDead
      <3>1. PumpKept
        BY <2>1, <2>3, <1>1, <1>3, <1>4 DEF PumpKept, Current
      <3>. QED  BY <2>1, <2>3, <3>1, <1>4, QuietStep
    <2>4. CASE hostGen # kpump.obsGen /\ kpump' = [kpump EXCEPT !.writing = FALSE] /\ host' = host /\ conn' = conn
      <3>1. PumpKept /\ ConnKept
        BY <2>1, <2>4, <1>1, <1>3 DEF PumpKept, ConnKept, Current, Live
      <3>. QED  BY <2>1, <3>1, QuietStep
    <2>. QED  BY <2>2, <2>3, <2>4, <1>9 DEF HostWrite, Lands, Live
  <1>. QED  BY <1>5, <1>6, <1>7, <1>8, <1>9

-----------------------------------------------------------------------------
(* The way in. *)

\* A tag nothing waits on is nowhere in the proxy.
LEMMA IdleTag ==
  ASSUME NineTypeOK, OpenInv, NEW t \in Tags, ~Waits(t)
  PROVE  /\ ~Sent(t) /\ \A i \in DOMAIN k2p : k2p[i].tag # t
         /\ Holding => HTag # t
         /\ \A i \in DOMAIN conn.s2c : conn.s2c[i].tag # t
  <1>1. ~Sent(t)
    BY DEF OpenInv, PipeInv, Sent, Waits
  <1>2. \A i \in DOMAIN k2p : k2p[i].tag # t
    BY NineFacts DEF OpenInv, PipeInv, Waits
  <1>. QED  BY <1>1, <1>2 DEF OpenInv, HeldInv, RepliesInv

\* The tag of a reply is one that is waited on.
LEMMA ReplyTags ==
  ASSUME NineTypeOK, OpenInv, NEW y \in NineReply, IsReply(y)
  PROVE  y.tag \in Tags /\ Waits(y.tag) /\ ktag[y.tag].id = y.id
  <1>1. CASE Holding /\ y = hpump.msg
    BY <1>1, NineFacts DEF OpenInv, HeldInv, HTag
  <1>2. CASE \E i \in DOMAIN conn.s2c : y = conn.s2c[i]
    <2>1. PICK i \in DOMAIN conn.s2c : y = conn.s2c[i]
      BY <1>2
    <2>2. Sent(y.tag) /\ pending[y.tag].id = y.id /\ y.tag \in Tags
      BY <2>1, NineFacts DEF OpenInv, RepliesInv
    <2>. QED  BY <2>2 DEF OpenInv, PipeInv, Sent, Waits
  <1>. QED  BY <1>1, <1>2 DEF IsReply

LEMMA KernelSendStep ==
  ASSUME NineTypeOK, OpenInv, NEW t \in Tags, KernelSend(t)
  PROVE  OpenInv'
  <1>1. PICK r \in KernelRequests :
          /\ r.old # t /\ ktag' = [ktag EXCEPT ![t] = r]
          /\ k2p' = Append(k2p, [tag |-> t, req |-> r])
    BY DEF KernelSend
  <1>2. Asked(r) /\ TagFree(t) /\ ~Waits(t) /\ nextId' = nextId + 1 /\ nextId \in Nat
    BY AskedRequests DEF KernelSend, TagFree, Waits, NineTypeOK
  <1>3. r \in NineReq /\ r # Free /\ r.id = nextId + 1 /\ WellFormed(r)
    BY <1>2, FreeAssumption DEF Asked
  <1>4. ktag'[t] = r /\ \A u \in Tags : u # t => ktag'[u] = ktag[u]
    BY <1>1 DEF NineTypeOK
  <1>5. UNCHANGED <<kfid, fids, pending, host, hostGen, kpump, hpump, conn>>
    BY DEF KernelSend
  <1>6. \A u \in Tags : (Waits(u)' <=> Waits(u) \/ u = t) /\ (Sent(u)' <=> Sent(u))
    BY <1>3, <1>4, <1>5 DEF Waits, Sent
  <1>7. (Holding' <=> Holding) /\ HTag' = HTag /\ (Current' <=> Current) /\ (Live' <=> Live)
    BY <1>5 DEF Holding, HTag, Current, Live
  <1>8. \A u \in Tags : Waits(u) => ktag[u] \in NineReq /\ ktag[u].id \in Nat /\ ktag[u].id <= nextId /\ WellFormed(ktag[u])
    BY NineFacts DEF OpenInv, KernelInv
  <1>9. \A u \in Tags : Sent(u) => Waits(u) /\ pending[u] = ktag[u]
    BY DEF OpenInv, PipeInv, Sent, Waits
  <1>10. KernelInv'
    <2>1. \A u \in Tags : Waits(u) => ktag[u].fid \in Busy /\ ktag[u].new \in Busy
      BY DEF Busy, Waits
    <2>2. ASSUME NEW u \in Tags, Waits(u)
          PROVE  /\ ktag[u].fid \notin Touch(r) /\ ktag[u].new \notin Touch(r)
                 /\ r.fid \notin Touch(ktag[u]) /\ r.new \notin Touch(ktag[u])
                 /\ ktag[u].old # t
      <3>1. \A f \in Touch(r) : f \notin Busy
        BY <1>2 DEF Asked, Touch
      <3>2. /\ Touch(ktag[u]) \subseteq Busy /\ Touch(ktag[u]) \subseteq AllFids
            /\ Root \in Touch(ktag[u]) => kfid[Root] = Free
        BY <2>1, <2>2, <1>8, TouchFacts DEF OpenInv, KernelInv
      <3>3. Free \notin AllFids
        BY NineConstants DEF AllFids
      <3>4. r.fid \notin Touch(ktag[u])
        BY <3>2, <3>3, <1>2, <1>3 DEF Asked, WellFormed, NineReq, ReqTypes
      <3>5. r.new \notin Touch(ktag[u])
        BY <3>2, <3>3, <1>2, <1>3 DEF Asked, WellFormed
      <3>. QED  BY <3>1, <3>4, <3>5, <2>1, <2>2, <1>2 DEF TagFree, Waits
    <2>3. \A u \in Tags : Waits(u)' => WellFormed(ktag'[u]) /\ ktag'[u].id <= nextId' /\ ktag'[u].old # u
      BY <1>1, <1>2, <1>3, <1>4, <1>6, <1>8 DEF OpenInv, KernelInv
    <2>4. \A u \in Tags : Waits(u)' /\ ktag'[u].typ \notin {"attach", "flush"} => kfid'[ktag'[u].fid] # Free
      <3>1. r.typ \notin {"attach", "flush"} => kfid[r.fid] # Free
        BY <1>2, <1>3 DEF Asked, NineReq, ReqTypes
      <3>. QED  BY <3>1, <1>4, <1>5, <1>6 DEF OpenInv, KernelInv
    <2>5. \A u \in Tags : Waits(u)' /\ ktag'[u].typ = "attach" => kfid'[Root] = Free
      BY <1>2, <1>4, <1>5, <1>6 DEF OpenInv, KernelInv, Asked
    <2>7. \A u \in Tags : Waits(u)' => FromPath(ktag[u])'
      BY <1>2, <1>4, <1>5, <1>6 DEF OpenInv, KernelInv, Asked, FromPath
    <2>6. ASSUME NEW u \in Tags, NEW v \in Tags, Waits(u)', Waits(v)', u # v
          PROVE  /\ ktag'[u].id # ktag'[v].id
                 /\ ktag'[v].fid \notin Touch(ktag'[u]) /\ ktag'[v].new \notin Touch(ktag'[u])
                 /\ ktag'[u].old = v => ktag'[v].id < ktag'[u].id
      <3>1. CASE u = t
        BY <3>1, <2>2, <2>6, <1>2, <1>3, <1>4, <1>6, <1>8
      <3>2. CASE v = t
        BY <3>2, <2>2, <2>6, <1>2, <1>3, <1>4, <1>6, <1>8
      <3>3. CASE u # t /\ v # t
        BY <3>3, <2>6, <1>4, <1>6 DEF OpenInv, KernelInv
      <3>. QED  BY <3>1, <3>2, <3>3
    <2>. QED  BY <2>3, <2>4, <2>5, <2>6, <2>7 DEF KernelInv
  <1>. DEFINE m == [tag |-> t, req |-> r]
  <1>11. /\ m \in NineMsg /\ m.tag = t /\ m.req = r
    BY <1>3 DEF NineMsg
  <1>12. PICK n \in Nat : /\ DOMAIN k2p' = DOMAIN k2p \cup {n} /\ k2p'[n] = m
                          /\ \A i \in DOMAIN k2p : i < n /\ k2p'[i] = k2p[i] /\ i \in Nat
    <2>1. k2p \in Seq(NineMsg) /\ Len(k2p) \in Nat
      BY ConnFacts
    <2>2. k2p' = Append(k2p, m)
      BY <1>1
    <2>. HIDE DEF m
    <2>3. /\ DOMAIN k2p' = DOMAIN k2p \cup {Len(k2p) + 1} /\ k2p'[Len(k2p) + 1] = m
          /\ \A i \in DOMAIN k2p : i < Len(k2p) + 1 /\ k2p'[i] = k2p[i] /\ i \in Nat
      BY <2>1, <2>2, <1>11, SeqAppend
    <2>. QED  BY <2>1, <2>3
  <1>. HIDE DEF m
  <1>13. \A i \in DOMAIN k2p : k2p[i].tag \in Tags /\ k2p[i].tag # t /\ ktag[k2p[i].tag] = k2p[i].req
                               /\ Waits(k2p[i].tag) /\ k2p[i].req.id \in Nat /\ k2p[i].req.id <= nextId
    BY <1>2, <1>8, IdleTag, NineFacts DEF OpenInv, PipeInv, Waits
  <1>14. PipeInv'
    <2>1. \A u \in Tags : Sent(u)' => pending'[u] = ktag'[u]
      BY <1>2, <1>4, <1>5, <1>6, <1>9, IdleTag
    <2>2. \A i \in DOMAIN k2p' : ktag'[k2p'[i].tag] = k2p'[i].req /\ pending'[k2p'[i].tag] = Free
      BY <1>2, <1>4, <1>5, <1>6, <1>11, <1>12, <1>13, IdleTag DEF OpenInv, PipeInv, Sent
    <2>3. \A i, j \in DOMAIN k2p' : i < j => k2p'[i].req.id < k2p'[j].req.id
      BY <1>2, <1>3, <1>11, <1>12, <1>13 DEF OpenInv, PipeInv
    <2>4. \A u \in Tags, i \in DOMAIN k2p' : Sent(u)' => pending'[u].id < k2p'[i].req.id
      BY <1>2, <1>3, <1>5, <1>6, <1>8, <1>9, <1>11, <1>12 DEF OpenInv, PipeInv
    <2>5. kpump' # Free => kpump'.obsGen <= hostGen'
      BY <1>5 DEF OpenInv, PipeInv
    <2>6. Current' => /\ pending'[kpump'.msg.tag] = kpump'.msg.req
                      /\ \A u \in Tags : Sent(u)' => pending'[u].id <= kpump'.msg.req.id
      BY <1>5, <1>6, <1>7 DEF OpenInv, PipeInv
    <2>. QED  BY <2>1, <2>2, <2>3, <2>4, <2>5, <2>6 DEF PipeInv, Sent
  <1>15. HeldInv'
    <2>1. SUFFICES ASSUME Holding
                   PROVE  /\ Waits(HTag)' /\ ktag'[HTag].id = hpump.msg.id
                          /\ Sent(HTag)' <=> ~hpump.observed
                          /\ \A i \in DOMAIN k2p' : k2p'[i].tag # HTag
                          /\ \A u \in Tags : Waits(u)' /\ u # HTag => ktag'[u].id > hpump.msg.id
                          /\ Current => kpump.msg.tag # HTag
      BY <1>5, <1>7 DEF HeldInv
    <2>2. HTag \in Tags /\ HTag # t /\ Waits(HTag) /\ ktag[HTag].id = hpump.msg.id /\ hpump.msg.id <= nextId
          /\ hpump.msg.id \in Nat
      BY <2>1, <1>2, <1>8, IdleTag, NineFacts DEF OpenInv, HeldInv
    <2>3. Waits(HTag)' /\ ktag'[HTag].id = hpump.msg.id /\ (Sent(HTag)' <=> ~hpump.observed)
      BY <2>1, <2>2, <1>4, <1>6, <1>7 DEF OpenInv, HeldInv
    <2>4. \A i \in DOMAIN k2p' : k2p'[i].tag # HTag
      BY <2>1, <2>2, <1>11, <1>12 DEF OpenInv, HeldInv
    <2>5. \A u \in Tags : Waits(u)' /\ u # HTag => ktag'[u].id > hpump.msg.id
      BY <2>1, <2>2, <1>2, <1>3, <1>4, <1>6 DEF OpenInv, HeldInv
    <2>. QED  BY <2>1, <2>3, <2>4, <2>5 DEF OpenInv, HeldInv
  <1>16. RequestsInv' /\ RepliesInv'
    BY <1>5, <1>7 DEF OpenInv, RequestsInv, RepliesInv, Sent
  <1>17. PrefixInv'
    <2>1. \A i \in DOMAIN conn.s2c : conn.s2c[i].id \in Nat /\ conn.s2c[i].id <= nextId
      BY <1>8, <1>9, NineFacts DEF OpenInv, RepliesInv
    <2>. QED  BY <2>1, <1>2, <1>3, <1>4, <1>5, <1>6, <1>7 DEF OpenInv, PrefixInv
  <1>18. CoverInv'
    <2>1. \A u \in Tags : Waits(u)' =>
            Sent(u)' \/ (Holding' /\ HTag' = u) \/ \E i \in DOMAIN k2p' : k2p'[i].tag = u
      BY <1>6, <1>7, <1>11, <1>12 DEF OpenInv, CoverInv
    <2>. QED  BY <2>1, <1>5, <1>6, <1>7 DEF OpenInv, CoverInv
  <1>19. FidsInv'
    <2>1. Holding => ktag'[HTag] = ktag[HTag]
      BY <1>2, <1>4, IdleTag, NineFacts
    <2>. QED  BY <2>1, <1>5, <1>7 DEF OpenInv, FidsInv
  <1>20. ServerInv'
    <2>1. \A y \in NineReply : (IsReply(y)' <=> IsReply(y)) /\ (IsReply(y) => ktag'[y.tag] = ktag[y.tag])
      BY <1>2, <1>4, <1>5, <1>7, ReplyTags DEF IsReply
    <2>2. ServerInv /\ kfid' = kfid /\ conn' = conn
      BY <1>5 DEF OpenInv
    <2>. QED  BY <2>1, <2>2, <1>7 DEF ServerInv
  <1>. QED  BY <1>10, <1>14, <1>15, <1>16, <1>17, <1>18, <1>19, <1>20 DEF OpenInv

LEMMA KernelToHostStep ==
  ASSUME NineTypeOK, OpenInv, KernelToHost
  PROVE  OpenInv'
  <1>. DEFINE m == Head(k2p)
  <1>1. /\ m \in NineMsg /\ m = k2p[1] /\ 1 \in DOMAIN k2p
        /\ \A i \in DOMAIN k2p' : i \in Nat /\ i > 0 /\ i + 1 \in DOMAIN k2p /\ k2p'[i] = k2p[i + 1]
        /\ \A i \in DOMAIN k2p : i \in Nat /\ (i = 1 \/ (i - 1 \in DOMAIN k2p' /\ k2p'[i - 1] = k2p[i]))
    BY ConnFacts, SeqTail DEF KernelToHost
  <1>2. /\ kpump = Free /\ kpump' = [msg |-> m, obsGen |-> hostGen, writing |-> FALSE]
        /\ pending' = [pending EXCEPT ![m.tag] = m.req]
        /\ UNCHANGED <<kfid, ktag, fids, host, hostGen, hpump, conn, nextId>>
    BY DEF KernelToHost, ObserveClient
  <1>. HIDE DEF m
  <1>3. m.tag \in Tags /\ m.req \in NineReq /\ m.req.id \in Nat /\ m.req # Free /\ hostGen \in Nat
    BY <1>1, NineFacts DEF NineTypeOK
  <1>4. kpump'.msg = m /\ kpump'.obsGen = hostGen /\ kpump' # Free
    <2>1. kpump' \in KernelPump
      BY <1>1, <1>2, <1>3 DEF KernelPump
    <2>. QED  BY <2>1, <1>2, FreeAssumption
  <1>5. ktag[m.tag] = m.req /\ ~Sent(m.tag) /\ Waits(m.tag)
    BY <1>1, <1>3 DEF OpenInv, PipeInv, Waits
  <1>6. pending'[m.tag] = m.req /\ \A u \in Tags : u # m.tag => pending'[u] = pending[u]
    BY <1>2, <1>3 DEF NineTypeOK
  <1>7. \A u \in Tags : (Waits(u)' <=> Waits(u)) /\ (Sent(u)' <=> Sent(u) \/ u = m.tag)
    BY <1>2, <1>3, <1>6 DEF Waits, Sent
  <1>8. /\ (Holding' <=> Holding) /\ HTag' = HTag /\ Current' /\ ~Current /\ (Live' <=> Live)
    BY <1>2, <1>4 DEF Holding, HTag, Current, Live
  <1>9. \A i \in DOMAIN k2p : k2p[i].tag \in Tags /\ k2p[i].req.id \in Nat /\ (i # 1 => m.req.id < k2p[i].req.id)
                              /\ ktag[k2p[i].tag] = k2p[i].req /\ ~Sent(k2p[i].tag)
    <2>1. \A i \in DOMAIN k2p : i # 1 => 1 < i
      <3>1. DOMAIN k2p = 1..Len(k2p)
        BY ConnFacts
      <3>. QED  BY <3>1, <1>1
    <2>. QED  BY <2>1, <1>1, NineFacts DEF OpenInv, PipeInv
  <1>10. \A i \in DOMAIN k2p' : /\ i \in Nat /\ i + 1 \in DOMAIN k2p /\ k2p'[i] = k2p[i + 1]
                                /\ m.req.id < k2p'[i].req.id /\ k2p'[i].tag \in Tags /\ k2p'[i].req.id \in Nat
                                /\ ktag[k2p'[i].tag] = k2p'[i].req /\ k2p'[i].tag # m.tag
                                /\ ~Sent(k2p'[i].tag)
    <2>1. ASSUME NEW i \in DOMAIN k2p'
          PROVE  i \in Nat /\ i + 1 \in DOMAIN k2p /\ i + 1 # 1 /\ k2p'[i] = k2p[i + 1]
      BY <2>1, <1>1
    <2>. QED  BY <2>1, <1>9, <1>5
  <1>11. \A u \in Tags : Sent(u) => pending[u].id \in Nat /\ pending[u].id < m.req.id
    BY <1>1, NineFacts DEF OpenInv, PipeInv
  <1>12. KernelInv'
    BY <1>2, KernelSame DEF OpenInv
  <1>13. PipeInv'
    <2>1. \A u \in Tags : Sent(u)' => pending'[u] = ktag'[u]
      BY <1>2, <1>5, <1>6, <1>7 DEF OpenInv, PipeInv
    <2>2. \A i \in DOMAIN k2p' : ktag'[k2p'[i].tag] = k2p'[i].req /\ pending'[k2p'[i].tag] = Free
      BY <1>2, <1>6, <1>10 DEF Sent
    <2>3. ASSUME NEW i \in DOMAIN k2p', NEW j \in DOMAIN k2p', i < j
          PROVE  k2p'[i].req.id < k2p'[j].req.id
      <3>1. i + 1 \in DOMAIN k2p /\ j + 1 \in DOMAIN k2p /\ i + 1 < j + 1
        BY <1>10, <2>3
      <3>. QED  BY <3>1, <1>10 DEF OpenInv, PipeInv
    <2>4. \A u \in Tags, i \in DOMAIN k2p' : Sent(u)' => pending'[u].id < k2p'[i].req.id
      BY <1>3, <1>6, <1>7, <1>10, <1>11
    <2>5. kpump'.obsGen <= hostGen'
      BY <1>2, <1>3, <1>4
    <2>6. /\ pending'[kpump'.msg.tag] = kpump'.msg.req
          /\ \A u \in Tags : Sent(u)' => pending'[u].id <= kpump'.msg.req.id
      BY <1>3, <1>4, <1>6, <1>7, <1>11
    <2>. QED  BY <2>1, <2>2, <2>3, <2>4, <2>5, <2>6 DEF PipeInv, Sent
  <1>14. HeldInv'
    <2>1. SUFFICES ASSUME Holding
                   PROVE  /\ Waits(HTag) /\ ktag[HTag].id = hpump.msg.id
                          /\ Sent(HTag)' <=> ~hpump.observed
                          /\ \A i \in DOMAIN k2p' : k2p'[i].tag # HTag
                          /\ \A u \in Tags : Waits(u) /\ u # HTag => ktag[u].id > hpump.msg.id
                          /\ m.tag # HTag
      BY <1>2, <1>4, <1>7, <1>8 DEF HeldInv, Waits
    <2>2. HTag \in Tags /\ m.tag # HTag /\ \A i \in DOMAIN k2p : k2p[i].tag # HTag
      BY <2>1, <1>1, NineFacts DEF OpenInv, HeldInv
    <2>3. \A i \in DOMAIN k2p' : k2p'[i].tag # HTag
      BY <2>2, <1>10
    <2>. QED  BY <2>1, <2>2, <2>3, <1>7, <1>8 DEF OpenInv, HeldInv
  <1>15. \A u \in Tags : Sent(u) => u # m.tag /\ pending'[u] = pending[u]
    BY <1>5, <1>6
  <1>16. RequestsInv'
    <2>1. \A i \in DOMAIN conn.c2s : /\ conn.c2s[i].tag \in Tags /\ pending[conn.c2s[i].tag] = conn.c2s[i].req
                                     /\ Sent(conn.c2s[i].tag)
      BY NineFacts DEF OpenInv, RequestsInv, Sent
    <2>2. \A i \in DOMAIN conn.c2s : conn.c2s[i].req.id < m.req.id
      BY <2>1, <1>11
    <2>3. \A i \in DOMAIN conn.c2s : pending'[conn.c2s[i].tag] = conn.c2s[i].req
      BY <2>1, <1>15
    <2>. QED  BY <2>2, <2>3, <1>2, <1>4, <1>8 DEF OpenInv, RequestsInv
  <1>17. RepliesInv'
    <2>1. \A i \in DOMAIN conn.s2c : /\ conn.s2c[i].tag \in Tags /\ pending[conn.s2c[i].tag].id = conn.s2c[i].id
                                     /\ Sent(conn.s2c[i].tag)
      BY NineFacts DEF OpenInv, RepliesInv
    <2>2. \A i \in DOMAIN conn.s2c : conn.s2c[i].id < m.req.id
      BY <2>1, <1>11
    <2>3. \A i \in DOMAIN conn.s2c : pending'[conn.s2c[i].tag] # Free /\ pending'[conn.s2c[i].tag].id = conn.s2c[i].id
      BY <2>1, <1>15 DEF Sent
    <2>. QED  BY <2>2, <2>3, <1>2, <1>4, <1>8 DEF OpenInv, RepliesInv, Sent
  <1>18. PrefixInv'
    BY <1>2, <1>8 DEF OpenInv, PrefixInv, Waits
  <1>19. CoverInv'
    <2>1. ASSUME NEW u \in Tags, Waits(u)
          PROVE  Sent(u)' \/ (Holding /\ HTag = u) \/ \E i \in DOMAIN k2p' : k2p'[i].tag = u
      BY <2>1, <1>1, <1>7 DEF OpenInv, CoverInv
    <2>2. ASSUME Live, NEW u \in Tags, Sent(u)'
          PROVE  \/ m.tag = u
                 \/ \E i \in DOMAIN conn.c2s : conn.c2s[i].tag = u
                 \/ \E i \in DOMAIN conn.s2c : conn.s2c[i].tag = u
                 \/ Holding /\ HTag = u
      BY <2>2, <1>7, <1>8 DEF OpenInv, CoverInv
    <2>. QED  BY <2>1, <2>2, <1>2, <1>4, <1>7, <1>8 DEF CoverInv
  <1>20. FidsInv'
    BY <1>2, FidsSame DEF OpenInv
  <1>21. ServerInv'
    BY <1>2, ServerSame DEF OpenInv, IsReply, Holding, Live
  <1>. QED  BY <1>12, <1>13, <1>14, <1>16, <1>17, <1>18, <1>19, <1>20, <1>21 DEF OpenInv

LEMMA LandsStep ==
  ASSUME NineTypeOK, OpenInv, Lands
  PROVE  OpenInv'
  <1>. DEFINE m == kpump.msg
  <1>1. /\ Current /\ Live /\ Live' /\ kpump # Free /\ kpump' = Free /\ ~Current'
        /\ conn' = [conn EXCEPT !.c2s = Append(conn.c2s, m)]
        /\ UNCHANGED <<kfid, ktag, k2p, fids, pending, hostGen, hpump, nextId, host>>
    BY DEF Lands, HostWrite, Current, Live, NineTypeOK
  <1>2. m \in NineMsg /\ m.tag \in Tags /\ m.req \in NineReq /\ m.req.id \in Nat
    BY <1>1, NineFacts
  <1>. HIDE DEF m
  <1>3. conn'.c2s = Append(conn.c2s, m) /\ UNCHANGED <<conn.alive, conn.s2c, conn.sfids>>
    BY <1>1 DEF NineTypeOK
  <1>4. PICK n \in Nat : /\ DOMAIN conn'.c2s = DOMAIN conn.c2s \cup {n} /\ conn'.c2s[n] = m
                         /\ \A i \in DOMAIN conn.c2s : i < n /\ conn'.c2s[i] = conn.c2s[i] /\ i \in Nat
    <2>1. conn.c2s \in Seq(NineMsg) /\ Len(conn.c2s) \in Nat
      BY ConnFacts
    <2>2. /\ DOMAIN conn'.c2s = DOMAIN conn.c2s \cup {Len(conn.c2s) + 1} /\ conn'.c2s[Len(conn.c2s) + 1] = m
          /\ \A i \in DOMAIN conn.c2s : i < Len(conn.c2s) + 1 /\ conn'.c2s[i] = conn.c2s[i] /\ i \in Nat
      BY <2>1, <1>2, <1>3, SeqAppend
    <2>. QED  BY <2>1, <2>2
  <1>5. \A u \in Tags : (Waits(u)' <=> Waits(u)) /\ (Sent(u)' <=> Sent(u))
    BY <1>1 DEF Waits, Sent
  <1>6. (Holding' <=> Holding) /\ HTag' = HTag
    BY <1>1 DEF Holding, HTag
  <1>7. pending[m.tag] = m.req /\ Sent(m.tag) /\ ktag[m.tag] = m.req
    BY <1>1, <1>2, NineFacts DEF OpenInv, PipeInv, m, Sent
  <1>8. KernelInv'
    BY <1>1, KernelSame DEF OpenInv
  <1>9. PipeInv'
    BY <1>1 DEF OpenInv, PipeInv, Sent
  <1>10. HeldInv'
    BY <1>1 DEF OpenInv, HeldInv, Sent, Waits, Holding, HTag
  <1>11. RequestsInv'
    <2>1. \A i \in DOMAIN conn.c2s : conn.c2s[i].req.id < m.req.id /\ conn.c2s[i].req.id \in Nat
      BY <1>1, NineFacts DEF OpenInv, RequestsInv, m
    <2>2. \A i \in DOMAIN conn'.c2s : pending[conn'.c2s[i].tag] = conn'.c2s[i].req
      BY <1>4, <1>7 DEF OpenInv, RequestsInv
    <2>3. \A i, j \in DOMAIN conn'.c2s : i < j => conn'.c2s[i].req.id < conn'.c2s[j].req.id
      BY <2>1, <1>4 DEF OpenInv, RequestsInv
    <2>4. Holding => hpump.msg.id < m.req.id
      <3>1. Holding => HTag # m.tag /\ ktag[m.tag].id > hpump.msg.id /\ hpump.msg.id \in Nat
        BY <1>1, <1>2, <1>7, NineFacts DEF OpenInv, HeldInv, m, Waits
      <3>. QED  BY <3>1, <1>2, <1>7
    <2>5. Holding => \A i \in DOMAIN conn'.c2s : hpump.msg.id < conn'.c2s[i].req.id
      BY <2>4, <1>4 DEF OpenInv, RequestsInv
    <2>. QED  BY <2>2, <2>3, <2>5, <1>1, <1>6 DEF RequestsInv, Live
  <1>12. RepliesInv'
    <2>1. \A i \in DOMAIN conn.s2c : conn.s2c[i].id < m.req.id
      BY <1>1 DEF OpenInv, RepliesInv, m
    <2>2. \A i \in DOMAIN conn.s2c, j \in DOMAIN conn'.c2s : conn.s2c[i].id < conn'.c2s[j].req.id
      BY <2>1, <1>4 DEF OpenInv, RepliesInv
    <2>. QED  BY <2>2, <1>1, <1>3, <1>6 DEF OpenInv, RepliesInv, Sent, Live
  <1>13. PrefixInv'
    BY <1>1, <1>3, <1>5, <1>6 DEF OpenInv, PrefixInv
  <1>14. CoverInv'
    <2>1. ASSUME NEW u \in Tags, Sent(u)
          PROVE  \/ \E i \in DOMAIN conn'.c2s : conn'.c2s[i].tag = u
                 \/ \E i \in DOMAIN conn.s2c : conn.s2c[i].tag = u
                 \/ Holding /\ HTag = u
      BY <2>1, <1>1, <1>4 DEF OpenInv, CoverInv, m
    <2>. QED  BY <2>1, <1>1, <1>3, <1>5, <1>6 DEF OpenInv, CoverInv
  <1>15. FidsInv'
    BY <1>1, FidsSame DEF OpenInv
  <1>16. ServerInv'
    BY <1>1, <1>3, ServerSame DEF OpenInv, IsReply, Holding
  <1>. QED  BY <1>8, <1>9, <1>10, <1>11, <1>12, <1>13, <1>14, <1>15, <1>16 DEF OpenInv

-----------------------------------------------------------------------------
(* The way back. *)

LEMMA HostReadStep ==
  ASSUME NineTypeOK, OpenInv, HostRead
  PROVE  OpenInv'
  <1>. DEFINE y0 == Head(conn.s2c)
  <1>1. /\ hpump = Free /\ host /\ conn.s2c # <<>> /\ hpump' = [msg |-> y0, observed |-> FALSE]
        /\ conn' = [conn EXCEPT !.s2c = Tail(conn.s2c)]
        /\ UNCHANGED <<kfid, ktag, k2p, fids, pending, host, hostGen, kpump, nextId>>
    BY DEF HostRead, NineTypeOK
  <1>2. conn'.s2c = Tail(conn.s2c) /\ UNCHANGED <<conn.alive, conn.c2s, conn.sfids>>
    BY <1>1 DEF NineTypeOK
  <1>3. /\ y0 \in NineReply /\ y0 = conn.s2c[1] /\ 1 \in DOMAIN conn.s2c
        /\ \A i \in DOMAIN conn'.s2c : i \in Nat /\ i > 0 /\ i + 1 \in DOMAIN conn.s2c /\ conn'.s2c[i] = conn.s2c[i + 1]
        /\ \A i \in DOMAIN conn.s2c : i \in Nat /\ (i = 1 \/ (i - 1 \in DOMAIN conn'.s2c /\ conn'.s2c[i - 1] = conn.s2c[i] /\ i > 1))
    BY <1>1, <1>2, ConnFacts, SeqTail
  <1>. HIDE DEF y0
  <1>4. y0.tag \in Tags /\ y0.id \in Nat
    BY <1>3, NineFacts
  <1>5. hpump' # Free /\ hpump'.msg = y0 /\ ~hpump'.observed
    <2>1. hpump' \in HostPump
      BY <1>1, <1>3 DEF HostPump
    <2>. QED  BY <2>1, <1>1, FreeAssumption
  <1>6. Holding' /\ HTag' = y0.tag /\ ~Holding /\ (Current' <=> Current) /\ (Live' <=> Live)
    BY <1>1, <1>2, <1>5 DEF Holding, HTag, Current, Live
  <1>7. \A u \in Tags : (Waits(u)' <=> Waits(u)) /\ (Sent(u)' <=> Sent(u))
    BY <1>1 DEF Waits, Sent
  <1>8. Sent(y0.tag) /\ pending[y0.tag].id = y0.id /\ pending[y0.tag] = ktag[y0.tag] /\ Waits(y0.tag)
    <2>1. Sent(y0.tag) /\ pending[y0.tag].id = y0.id
      BY <1>3 DEF OpenInv, RepliesInv
    <2>. QED  BY <2>1, <1>4 DEF OpenInv, PipeInv, Sent, Waits
  <1>9. \A i \in DOMAIN conn'.s2c : /\ conn'.s2c[i].id \in Nat /\ y0.id < conn'.s2c[i].id
                                    /\ i + 1 \in DOMAIN conn.s2c /\ conn'.s2c[i] = conn.s2c[i + 1] /\ i \in Nat
    <2>1. ASSUME NEW i \in DOMAIN conn'.s2c
          PROVE  i \in Nat /\ 1 < i + 1 /\ i + 1 \in DOMAIN conn.s2c /\ conn'.s2c[i] = conn.s2c[i + 1]
      BY <2>1, <1>3
    <2>. QED  BY <2>1, <1>3, NineFacts DEF OpenInv, RepliesInv
  <1>10. KernelInv'
    BY <1>1, KernelSame DEF OpenInv
  <1>11. PipeInv'
    BY <1>1, <1>6 DEF OpenInv, PipeInv, Sent
  <1>12. HeldInv'
    <2>1. \A i \in DOMAIN k2p : k2p[i].tag # y0.tag
      BY <1>8 DEF OpenInv, PipeInv
    <2>2. ASSUME NEW u \in Tags, Waits(u), u # y0.tag
          PROVE  ktag[u].id > y0.id
      <3>1. ktag[u].id # y0.id /\ ktag[u].id \in Nat
        BY <2>2, <1>4, <1>8, NineFacts DEF OpenInv, KernelInv
      <3>2. ASSUME ktag[u].id < y0.id PROVE FALSE
        <4>1. \E j \in DOMAIN conn.s2c : j < 1 /\ conn.s2c[j].tag = u
          BY <3>2, <2>2, <1>3, <1>6 DEF OpenInv, PrefixInv
        <4>2. \A j \in DOMAIN conn.s2c : ~(j < 1)
          BY <1>3
        <4>. QED  BY <4>1, <4>2
      <3>. QED  BY <3>1, <3>2, <1>4
    <2>3. Current => kpump.msg.tag # y0.tag
      <3>1. Current => /\ pending[kpump.msg.tag] = kpump.msg.req /\ kpump.msg.req.id \in Nat
                       /\ y0.id < kpump.msg.req.id
        BY <1>3, NineFacts DEF OpenInv, PipeInv, RepliesInv, Current
      <3>. QED  BY <3>1, <1>4, <1>8
    <2>. QED  BY <2>1, <2>2, <2>3, <1>1, <1>4, <1>5, <1>6, <1>7, <1>8 DEF HeldInv
  <1>13. RequestsInv'
    <2>1. \A i \in DOMAIN conn.c2s : y0.id < conn.c2s[i].req.id
      BY <1>3 DEF OpenInv, RepliesInv
    <2>. QED  BY <2>1, <1>1, <1>2, <1>5, <1>6 DEF OpenInv, RequestsInv
  <1>14. RepliesInv'
    <2>1. \A i, j \in DOMAIN conn'.s2c : i < j => conn'.s2c[i].id < conn'.s2c[j].id
      <3>1. ASSUME NEW i \in DOMAIN conn'.s2c, NEW j \in DOMAIN conn'.s2c, i < j
            PROVE  i + 1 \in DOMAIN conn.s2c /\ j + 1 \in DOMAIN conn.s2c /\ i + 1 < j + 1
        BY <3>1, <1>9
      <3>. QED  BY <3>1, <1>9 DEF OpenInv, RepliesInv
    <2>2. \A i \in DOMAIN conn'.s2c : Sent(conn.s2c[i + 1].tag) /\ pending[conn'.s2c[i].tag].id = conn'.s2c[i].id
      BY <1>9 DEF OpenInv, RepliesInv
    <2>3. \A i \in DOMAIN conn'.s2c, j \in DOMAIN conn.c2s : conn'.s2c[i].id < conn.c2s[j].req.id
      BY <1>9 DEF OpenInv, RepliesInv
    <2>4. Current => \A i \in DOMAIN conn'.s2c : conn'.s2c[i].id < kpump.msg.req.id
      BY <1>9 DEF OpenInv, RepliesInv
    <2>. QED  BY <2>1, <2>2, <2>3, <2>4, <1>1, <1>2, <1>5, <1>6, <1>9 DEF RepliesInv, Sent
  <1>15. PrefixInv'
    <2>1. ASSUME NEW i \in DOMAIN conn'.s2c, NEW u \in Tags, Waits(u), ktag[u].id < conn'.s2c[i].id
          PROVE  y0.tag = u \/ \E j \in DOMAIN conn'.s2c : j < i /\ conn'.s2c[j].tag = u
      <3>1. PICK j \in DOMAIN conn.s2c : j < i + 1 /\ conn.s2c[j].tag = u
        BY <2>1, <1>6, <1>9 DEF OpenInv, PrefixInv
      <3>2. CASE j = 1
        BY <3>1, <3>2, <1>3
      <3>3. CASE j # 1
        <4>1. j - 1 \in DOMAIN conn'.s2c /\ conn'.s2c[j - 1].tag = u /\ j - 1 < i
          BY <3>1, <3>3, <1>3, <1>9
        <4>. QED  BY <4>1
      <3>. QED  BY <3>2, <3>3
    <2>. QED  BY <2>1, <1>1, <1>6, <1>7 DEF PrefixInv
  <1>16. CoverInv'
    <2>1. ASSUME Live, NEW u \in Tags, Sent(u)
          PROVE  \/ Current /\ kpump.msg.tag = u
                 \/ \E i \in DOMAIN conn.c2s : conn.c2s[i].tag = u
                 \/ \E i \in DOMAIN conn'.s2c : conn'.s2c[i].tag = u
                 \/ y0.tag = u
      BY <2>1, <1>3, <1>6 DEF OpenInv, CoverInv
    <2>. QED  BY <2>1, <1>1, <1>2, <1>6, <1>7 DEF OpenInv, CoverInv
  <1>17. FidsInv'
    BY <1>1, <1>5, <1>6 DEF OpenInv, FidsInv
  <1>18. ServerInv'
    <2>1. \A y \in NineReply : IsReply(y)' <=> IsReply(y)
      <3>1. ASSUME NEW y \in NineReply, IsReply(y) PROVE IsReply(y)'
        BY <3>1, <1>3, <1>5, <1>6 DEF IsReply
      <3>2. ASSUME NEW y \in NineReply, IsReply(y)' PROVE IsReply(y)
        BY <3>2, <1>3, <1>5, <1>6, <1>9 DEF IsReply
      <3>. QED  BY <3>1, <3>2
    <2>. QED  BY <2>1, <1>1, <1>2, <1>6, ServerSame DEF OpenInv
  <1>. QED  BY <1>10, <1>11, <1>12, <1>13, <1>14, <1>15, <1>16, <1>17, <1>18 DEF OpenInv

\* The held reply: its request is well formed and may be applied, and what a
\* flush cancelled is gone already.
LEMMA HeldFacts ==
  ASSUME NineTypeOK, OpenInv, Holding
  PROVE  /\ HTag \in Tags /\ Waits(HTag) /\ ktag[HTag] \in NineReq /\ WellFormed(ktag[HTag])
         /\ ktag[HTag].id = hpump.msg.id /\ hpump.msg.id \in Nat /\ hpump.msg.ok \in BOOLEAN /\ hpump.msg \in NineReply
         /\ ktag[HTag].typ \notin {"attach", "flush"} => kfid[ktag[HTag].fid] # Free
         /\ FromPath(ktag[HTag])
         /\ \A u \in Tags : u # HTag /\ u = ktag[HTag].old => ~Waits(u) /\ ~Sent(u)
  <1>1. /\ HTag \in Tags /\ Waits(HTag) /\ ktag[HTag] \in NineReq /\ WellFormed(ktag[HTag])
        /\ ktag[HTag].id = hpump.msg.id /\ hpump.msg.id \in Nat /\ hpump.msg.ok \in BOOLEAN /\ hpump.msg \in NineReply
        /\ ktag[HTag].typ \notin {"attach", "flush"} => kfid[ktag[HTag].fid] # Free
        /\ FromPath(ktag[HTag])
    BY NineFacts DEF OpenInv, HeldInv, KernelInv
  <1>2. ASSUME NEW u \in Tags, u # HTag, u = ktag[HTag].old, Waits(u) PROVE FALSE
    <2>1. ktag[u].id < ktag[HTag].id /\ ktag[u].id > hpump.msg.id /\ ktag[u].id \in Nat
      BY <1>1, <1>2, NineFacts DEF OpenInv, HeldInv, KernelInv
    <2>. QED  BY <2>1, <1>1
  <1>. QED  BY <1>1, <1>2, IdleTag

LEMMA HostObserveStep ==
  ASSUME NineTypeOK, OpenInv, HostObserve
  PROVE  OpenInv' /\ fids' = Tracked(Applied(kfid, ktag[HTag], hpump.msg.ok)) /\ pending' = [pending EXCEPT ![HTag] = Free]
  <1>1. Holding /\ ~hpump.observed /\ hpump' = [hpump EXCEPT !.observed = TRUE] /\ hpump \in HostPump
        /\ UNCHANGED <<kfid, ktag, k2p, host, hostGen, kpump, conn, nextId>>
    BY NineFacts DEF HostObserve, Holding
  <1>2. hpump' # Free /\ hpump'.msg = hpump.msg /\ hpump'.observed
    <2>1. hpump' \in HostPump
      BY <1>1 DEF HostPump
    <2>. QED  BY <2>1, <1>1, FreeAssumption DEF HostPump
  <1>3. Holding' /\ HTag' = HTag /\ (Current' <=> Current) /\ (Live' <=> Live)
    BY <1>1, <1>2 DEF Holding, HTag, Current, Live
  <1>4. /\ HTag \in Tags /\ Waits(HTag) /\ Sent(HTag) /\ pending[HTag] = ktag[HTag] /\ fids = Tracked(kfid)
        /\ ktag[HTag].typ \notin {"attach", "flush"} => kfid[ktag[HTag].fid] # Free
        /\ hpump.msg.ok \in BOOLEAN
    BY <1>1, HeldFacts DEF OpenInv, HeldInv, PipeInv, FidsInv
  <1>5. fids' = Tracked(Applied(kfid, ktag[HTag], hpump.msg.ok))
    <2>1. fids' = IF ktag[HTag].typ = "xattrwalk" THEN Tracked(kfid)
                  ELSE Applied(Tracked(kfid), ktag[HTag], hpump.msg.ok)
      BY <1>4 DEF HostObserve, ObserveServer, HTag, Sent
    <2>2. ktag[HTag] \in NineReq /\ WellFormed(ktag[HTag]) /\ FromPath(ktag[HTag]) /\ kfid \in Table
      BY <1>1, HeldFacts DEF NineTypeOK
    <2>. QED  BY <2>1, <2>2, <1>4, TrackedApplied DEF FromPath
  <1>6. pending' = [pending EXCEPT ![HTag] = Free]
    <2>1. pending' = [u \in Tags |->
             IF u = HTag \/ (ktag[HTag].typ = "flush" /\ u = ktag[HTag].old) THEN Free ELSE pending[u]]
      BY <1>4 DEF HostObserve, ObserveServer, HTag, Sent
    <2>2. \A u \in Tags : u # HTag /\ u = ktag[HTag].old => pending[u] = Free
      BY <1>1, HeldFacts DEF Sent
    <2>3. pending \in [Tags -> NineReq \cup {Free}]
      BY DEF NineTypeOK
    <2>. QED  BY <2>1, <2>2, <2>3, <1>4
  <1>7. pending'[HTag] = Free /\ \A u \in Tags : u # HTag => pending'[u] = pending[u]
    BY <1>4, <1>6 DEF NineTypeOK
  <1>8. \A u \in Tags : (Waits(u)' <=> Waits(u)) /\ (Sent(u)' <=> Sent(u) /\ u # HTag)
    BY <1>1, <1>7 DEF Waits, Sent
  <1>9. KernelInv'
    BY <1>1, KernelSame DEF OpenInv
  <1>10. Current => kpump.msg.tag # HTag /\ kpump.msg.tag \in Tags
    BY <1>1, NineFacts DEF OpenInv, HeldInv, Current
  <1>11. PipeInv'
    <2>1. \A i \in DOMAIN k2p : k2p[i].tag # HTag /\ k2p[i].tag \in Tags
      BY <1>1, NineFacts DEF OpenInv, HeldInv
    <2>2. \A i \in DOMAIN k2p : ktag[k2p[i].tag] = k2p[i].req /\ pending'[k2p[i].tag] = Free
      BY <2>1, <1>7 DEF OpenInv, PipeInv, Sent
    <2>3. \A u \in Tags : Sent(u)' => pending'[u] = ktag[u] /\ pending'[u] = pending[u] /\ Sent(u)
      BY <1>7, <1>8 DEF OpenInv, PipeInv
    <2>4. Current => pending'[kpump.msg.tag] = kpump.msg.req
      BY <1>7, <1>10 DEF OpenInv, PipeInv
    <2>. QED  BY <2>2, <2>3, <2>4, <1>1, <1>3 DEF OpenInv, PipeInv, Sent
  <1>12. HeldInv'
    BY <1>1, <1>2, <1>3, <1>4, <1>8 DEF OpenInv, HeldInv
  <1>13. RequestsInv'
    <2>1. \A i \in DOMAIN conn.c2s : conn.c2s[i].tag # HTag /\ conn.c2s[i].tag \in Tags
      <3>1. \A i \in DOMAIN conn.c2s : /\ conn.c2s[i].tag \in Tags /\ conn.c2s[i].req.id \in Nat
                                       /\ hpump.msg.id < conn.c2s[i].req.id /\ pending[conn.c2s[i].tag] = conn.c2s[i].req
        BY <1>1, NineFacts DEF OpenInv, RequestsInv
      <3>. QED  BY <3>1, <1>1, <1>4, HeldFacts
    <2>2. \A i \in DOMAIN conn.c2s : pending'[conn.c2s[i].tag] = conn.c2s[i].req
      BY <2>1, <1>7 DEF OpenInv, RequestsInv
    <2>. QED  BY <2>2, <1>1, <1>2, <1>3 DEF OpenInv, RequestsInv
  <1>14. RepliesInv'
    <2>1. \A i \in DOMAIN conn.s2c : conn.s2c[i].tag # HTag /\ conn.s2c[i].tag \in Tags
      <3>1. \A i \in DOMAIN conn.s2c : /\ conn.s2c[i].tag \in Tags /\ conn.s2c[i].id \in Nat
                                       /\ hpump.msg.id < conn.s2c[i].id /\ pending[conn.s2c[i].tag].id = conn.s2c[i].id
        BY <1>1, NineFacts DEF OpenInv, RepliesInv
      <3>. QED  BY <3>1, <1>1, <1>4, HeldFacts
    <2>2. \A i \in DOMAIN conn.s2c : pending'[conn.s2c[i].tag] # Free /\ pending'[conn.s2c[i].tag].id = conn.s2c[i].id
      BY <2>1, <1>7 DEF OpenInv, RepliesInv, Sent
    <2>. QED  BY <2>2, <1>1, <1>2, <1>3 DEF OpenInv, RepliesInv, Sent
  <1>15. PrefixInv'
    BY <1>1, <1>3, <1>8 DEF OpenInv, PrefixInv
  <1>16. CoverInv'
    BY <1>1, <1>3, <1>8 DEF OpenInv, CoverInv
  <1>17. FidsInv'
    BY <1>1, <1>2, <1>3, <1>5 DEF FidsInv
  <1>18. ServerInv'
    <2>1. \A y \in NineReply : IsReply(y)' <=> IsReply(y)
      BY <1>1, <1>2, <1>3 DEF IsReply
    <2>. QED  BY <2>1, <1>1, <1>3, ServerSame DEF OpenInv
  <1>. QED  BY <1>5, <1>6, <1>9, <1>11, <1>12, <1>13, <1>14, <1>15, <1>16, <1>17, <1>18 DEF OpenInv

\* No two waiting requests concern one fid.
LEMMA NoConflict ==
  ASSUME NineTypeOK, OpenInv, NEW t \in Tags, NEW u \in Tags, Waits(t), Waits(u), t # u
  PROVE  /\ ktag[t] \in NineReq /\ WellFormed(ktag[t])
         /\ ktag[u].fid \notin Touch(ktag[t])
         /\ \A f \in Touch(ktag[u]) : f \notin Touch(ktag[t]) /\ f \in AllFids
         /\ ktag[t].id # ktag[u].id
  <1>1. /\ ktag[t] \in NineReq /\ WellFormed(ktag[t]) /\ ktag[u] \in NineReq /\ WellFormed(ktag[u])
        /\ ktag[u].fid \notin Touch(ktag[t]) /\ ktag[u].new \notin Touch(ktag[t])
        /\ ktag[t].id # ktag[u].id
    BY NineFacts DEF OpenInv, KernelInv
  <1>2. Touch(ktag[u]) \subseteq {ktag[u].fid, ktag[u].new} /\ Touch(ktag[u]) \subseteq AllFids
    BY <1>1, TouchFacts
  <1>. QED  BY <1>1, <1>2

LEMMA KernelDeliverStep ==
  ASSUME NineTypeOK, OpenInv, KernelDeliver
  PROVE  OpenInv' /\ kfid' \in Table /\ ktag' = [ktag EXCEPT ![HTag] = Free]
  <1>. DEFINE r == ktag[HTag]
              ok == hpump.msg.ok
  <1>1. /\ Holding /\ hpump.observed /\ hpump' = Free /\ kfid' = Applied(kfid, r, ok)
        /\ UNCHANGED <<k2p, fids, pending, host, hostGen, kpump, conn, nextId>>
        /\ ktag' = [u \in Tags |-> IF u = HTag \/ (r.typ = "flush" /\ u = r.old) THEN Free ELSE ktag[u]]
    <2>1. Holding /\ Waits(HTag)
      BY HeldFacts DEF KernelDeliver, Holding
    <2>. QED  BY <2>1 DEF KernelDeliver, Holding, HTag, Waits
  <1>2. /\ HTag \in Tags /\ Waits(HTag) /\ r \in NineReq /\ WellFormed(r) /\ ok \in BOOLEAN
        /\ r.typ \notin {"attach", "flush"} => kfid[r.fid] # Free
        /\ \A u \in Tags : u # HTag /\ u = r.old => ktag[u] = Free
        /\ kfid \in Table
    BY <1>1, HeldFacts DEF Waits, NineTypeOK
  <1>3. ktag' = [ktag EXCEPT ![HTag] = Free]
    <2>1. ktag \in [Tags -> NineReq \cup {Free}]
      BY DEF NineTypeOK
    <2>. QED  BY <2>1, <1>1, <1>2
  <1>4. ktag'[HTag] = Free /\ \A u \in Tags : u # HTag => ktag'[u] = ktag[u]
    BY <1>2, <1>3 DEF NineTypeOK
  <1>. HIDE DEF r, ok
  <1>5. kfid' \in Table /\ \A f \in AllFids : f \notin Touch(r) => kfid'[f] = kfid[f]
    BY <1>1, <1>2, AppliedFacts
  <1>6. \A u \in Tags : (Waits(u)' <=> Waits(u) /\ u # HTag) /\ (Sent(u)' <=> Sent(u)) /\ (Sent(u) => u # HTag)
    BY <1>1, <1>2, <1>4 DEF Waits, Sent, OpenInv, HeldInv
  <1>7. ~Holding' /\ (Current' <=> Current) /\ (Live' <=> Live)
    BY <1>1 DEF Holding, Current, Live
  <1>8. \A u \in Tags : Waits(u)' => /\ Waits(u) /\ u # HTag /\ ktag'[u] = ktag[u] /\ ktag[u] \in NineReq
                                     /\ WellFormed(ktag[u]) /\ ktag[u].fid \notin Touch(r)
                                     /\ \A f \in Touch(ktag[u]) : f \notin Touch(r) /\ f \in AllFids
    <2>1. ASSUME NEW u \in Tags, Waits(u), u # HTag
          PROVE  /\ ktag[u] \in NineReq /\ WellFormed(ktag[u]) /\ ktag[u].fid \notin Touch(r)
                 /\ \A f \in Touch(ktag[u]) : f \notin Touch(r) /\ f \in AllFids
      BY <2>1, <1>2, NoConflict DEF r
    <2>. QED  BY <2>1, <1>4, <1>6
  <1>9. KernelInv'
    <2>1. ASSUME NEW u \in Tags, Waits(u)', ktag'[u].typ \notin {"attach", "flush"}
          PROVE  kfid'[ktag'[u].fid] # Free
      <3>1. ktag[u].fid \in AllFids
        BY <2>1, <1>8, NineConstants DEF WellFormed, NineReq, ReqTypes, AllFids
      <3>2. kfid[ktag[u].fid] # Free
        BY <2>1, <1>8 DEF OpenInv, KernelInv
      <3>. QED  BY <2>1, <3>1, <3>2, <1>5, <1>8
    <2>5. ASSUME NEW u \in Tags, Waits(u)' PROVE FromPath(ktag[u])'
      <3>1. FromPath(ktag[u]) /\ ktag'[u] = ktag[u] /\ ktag[u].fid \notin Touch(r)
        BY <2>5, <1>8 DEF OpenInv, KernelInv
      <3>2. ktag[u].typ \in {"walk", "xattrwalk", "lopen", "lcreate"} => ktag[u].fid \in AllFids
        BY <2>5, <1>8, NineConstants DEF WellFormed, NineReq, AllFids
      <3>3. ktag[u].typ = "xattrwalk" => ktag[u].new \in AllFids /\ ktag[u].new \notin Touch(r)
        BY <2>5, <1>8 DEF Touch
      <3>. QED  BY <3>1, <3>2, <3>3, <1>5 DEF FromPath
    <2>2. ASSUME NEW u \in Tags, Waits(u)', ktag'[u].typ = "attach"
          PROVE  kfid'[Root] = Free
      <3>1. Root \in AllFids /\ Root = ktag[u].fid
        BY <2>2, <1>8 DEF WellFormed, AllFids
      <3>2. kfid[Root] = Free
        BY <2>2, <1>8 DEF OpenInv, KernelInv
      <3>. QED  BY <2>2, <3>1, <3>2, <1>5, <1>8
    <2>3. \A u \in Tags : Waits(u)' => WellFormed(ktag'[u]) /\ ktag'[u].id <= nextId' /\ ktag'[u].old # u
      BY <1>1, <1>8 DEF OpenInv, KernelInv
    <2>4. \A u, v \in Tags : Waits(u)' /\ Waits(v)' /\ u # v =>
            /\ ktag'[u].id # ktag'[v].id
            /\ ktag'[v].fid \notin Touch(ktag'[u]) /\ ktag'[v].new \notin Touch(ktag'[u])
            /\ ktag'[u].old = v => ktag'[v].id < ktag'[u].id
      BY <1>8 DEF OpenInv, KernelInv
    <2>. QED  BY <2>1, <2>2, <2>3, <2>4, <2>5 DEF KernelInv
  <1>10. \A i \in DOMAIN k2p : k2p[i].tag \in Tags /\ k2p[i].tag # HTag
    BY <1>1, NineFacts DEF OpenInv, HeldInv
  <1>11. PipeInv'
    <2>1. \A u \in Tags : Sent(u)' => pending'[u] = ktag'[u]
      BY <1>1, <1>4, <1>6 DEF OpenInv, PipeInv
    <2>2. \A i \in DOMAIN k2p : ktag'[k2p[i].tag] = k2p[i].req
      BY <1>4, <1>10 DEF OpenInv, PipeInv
    <2>. QED  BY <2>1, <2>2, <1>1, <1>7 DEF OpenInv, PipeInv, Sent
  <1>12. HeldInv'
    BY <1>7 DEF HeldInv
  <1>13. RequestsInv' /\ RepliesInv'
    BY <1>1, <1>7 DEF OpenInv, RequestsInv, RepliesInv, Sent
  <1>14. PrefixInv'
    BY <1>1, <1>7, <1>8 DEF OpenInv, PrefixInv
  <1>15. CoverInv'
    <2>1. \A u \in Tags : Waits(u)' => Sent(u)' \/ \E i \in DOMAIN k2p : k2p[i].tag = u
      BY <1>6 DEF OpenInv, CoverInv
    <2>2. Live => \A u \in Tags : Sent(u) =>
            \/ Current /\ kpump.msg.tag = u
            \/ \E i \in DOMAIN conn.c2s : conn.c2s[i].tag = u
            \/ \E i \in DOMAIN conn.s2c : conn.s2c[i].tag = u
      BY <1>6 DEF OpenInv, CoverInv
    <2>. QED  BY <2>1, <2>2, <1>1, <1>6, <1>7 DEF CoverInv
  <1>16. FidsInv'
    BY <1>1, <1>7 DEF OpenInv, FidsInv, r, ok
  <1>17. ServerInv'
    <2>1. SUFFICES ASSUME Live, NEW f \in AllFids
                   PROVE  /\ (\A y \in NineReply : IsReply(y)' => f \notin Touch(ktag'[y.tag])) => Match(conn.sfids[f], kfid'[f])
                          /\ \A y \in NineReply : IsReply(y)' /\ f \in Touch(ktag'[y.tag]) =>
                               Match(conn.sfids[f], Applied(kfid', ktag'[y.tag], y.ok)[f])
      BY <1>1, <1>7 DEF ServerInv
    <2>2. hpump.msg \in NineReply /\ IsReply(hpump.msg) /\ hpump.msg.tag = HTag
      BY <1>1, HeldFacts DEF IsReply, HTag
    <2>3. \A y \in NineReply : IsReply(y)' =>
             IsReply(y) /\ y.tag \in Tags /\ y.tag # HTag /\ Waits(y.tag) /\ ktag'[y.tag] = ktag[y.tag] /\ y.ok \in BOOLEAN
      <3>1. ASSUME NEW y \in NineReply, NEW i \in DOMAIN conn.s2c, y = conn.s2c[i]
            PROVE  y.tag \in Tags /\ Sent(y.tag) /\ IsReply(y)
        BY <3>1, NineFacts DEF OpenInv, RepliesInv, IsReply
      <3>2. \A y \in NineReply : y.ok \in BOOLEAN
        BY DEF NineReply
      <3>3. \A u \in Tags : Sent(u) => Waits(u)
        BY DEF OpenInv, PipeInv, Sent, Waits
      <3>4. \A y \in NineReply : IsReply(y)' => \E i \in DOMAIN conn.s2c : y = conn.s2c[i]
        BY <1>1, <1>7 DEF IsReply
      <3>. QED  BY <3>1, <3>2, <3>3, <3>4, <1>4, <1>6
    <2>4. \A y \in NineReply : IsReply(y) /\ y # hpump.msg => IsReply(y)'
      BY <1>1 DEF IsReply
    <2>5. CASE f \in Touch(r)
      <3>1. Match(conn.sfids[f], kfid'[f])
        BY <2>1, <2>2, <2>5, <1>1 DEF OpenInv, ServerInv, r, ok
      <3>2. \A y \in NineReply : IsReply(y)' => f \notin Touch(ktag'[y.tag])
        BY <2>3, <2>5, <1>4, <1>6, <1>8
      <3>. QED  BY <3>1, <3>2
    <2>6. CASE f \notin Touch(r)
      <3>1. kfid'[f] = kfid[f]
        BY <2>6, <1>5
      <3>2. (\A y \in NineReply : IsReply(y)' => f \notin Touch(ktag'[y.tag])) => Match(conn.sfids[f], kfid'[f])
        <4>1. SUFFICES ASSUME \A y \in NineReply : IsReply(y)' => f \notin Touch(ktag'[y.tag])
                       PROVE  Match(conn.sfids[f], kfid[f])
          BY <3>1
        <4>2. \A y \in NineReply : IsReply(y) => f \notin Touch(ktag[y.tag])
          BY <4>1, <2>2, <2>3, <2>4, <2>6 DEF r
        <4>. QED  BY <4>2, <2>1 DEF OpenInv, ServerInv
      <3>3. ASSUME NEW y \in NineReply, IsReply(y)', f \in Touch(ktag'[y.tag])
            PROVE  Match(conn.sfids[f], Applied(kfid', ktag'[y.tag], y.ok)[f])
        <4>. DEFINE p == ktag[y.tag]
        <4>1. /\ IsReply(y) /\ y.tag \in Tags /\ ktag'[y.tag] = p /\ f \in Touch(p) /\ y.ok \in BOOLEAN /\ Waits(y.tag)
              /\ p \in NineReq /\ WellFormed(p) /\ p.fid \notin Touch(r) /\ \A g \in Touch(p) : g \notin Touch(r)
          BY <3>3, <2>3, <1>6, <1>8
        <4>2. Match(conn.sfids[f], Applied(kfid, p, y.ok)[f])
          BY <4>1, <2>1 DEF OpenInv, ServerInv
        <4>4. \A g \in AllFids : g \in Touch(p) \cup {p.fid} => kfid'[g] = kfid[g]
          BY <4>1, <1>5
        <4>. HIDE DEF p
        <4>5. Applied(kfid', p, y.ok)[f] = Applied(kfid, p, y.ok)[f]
          BY <4>1, <4>4, <1>2, <1>5, AppliedAgrees
        <4>. QED  BY <4>1, <4>2, <4>5
      <3>. QED  BY <3>2, <3>3
    <2>. QED  BY <2>5, <2>6
  <1>. QED  BY <1>3, <1>5, <1>9, <1>11, <1>12, <1>13, <1>14, <1>15, <1>16, <1>17 DEF OpenInv

-----------------------------------------------------------------------------
(* The server, and Reconnect. *)

LEMMA ServerAnswerStep ==
  ASSUME NineTypeOK, OpenInv, ServerAnswer
  PROVE  OpenInv' /\ conn' \in [alive : BOOLEAN, c2s : Seq(NineMsg), s2c : Seq(NineReply), sfids : Table]
  <1>. DEFINE m == Head(conn.c2s)
              r == m.req
              known == r.fid = Free \/ r.typ = "attach" \/ conn.sfids[r.fid] # Free
  <1>1. /\ host /\ conn.alive /\ conn.c2s # <<>>
        /\ UNCHANGED <<kfid, ktag, k2p, fids, pending, host, hostGen, kpump, hpump, nextId>>
    BY DEF ServerAnswer
  <1>2. PICK ok \in BOOLEAN :
          /\ ~known => ~ok
          /\ conn' = [conn EXCEPT !.c2s = Tail(conn.c2s),
                                  !.s2c = Append(conn.s2c, [tag |-> m.tag, id |-> r.id, ok |-> ok]),
                                  !.sfids = IF known THEN Applied(conn.sfids, r, ok) ELSE conn.sfids]
    BY DEF ServerAnswer, NineTypeOK
  <1>. DEFINE y0 == [tag |-> m.tag, id |-> r.id, ok |-> ok]
  <1>3. /\ conn \in [alive : BOOLEAN, c2s : Seq(NineMsg), s2c : Seq(NineReply), sfids : Table]
        /\ conn.c2s \in Seq(NineMsg) /\ conn.s2c \in Seq(NineReply) /\ conn.sfids \in Table /\ kfid \in Table
    BY DEF NineTypeOK
  <1>4. /\ conn'.alive = conn.alive /\ conn'.c2s = Tail(conn.c2s) /\ conn'.s2c = Append(conn.s2c, y0)
        /\ conn'.sfids = IF known THEN Applied(conn.sfids, r, ok) ELSE conn.sfids
    BY <1>2, <1>3
  <1>5. /\ m \in NineMsg /\ m = conn.c2s[1] /\ 1 \in DOMAIN conn.c2s
        /\ \A i \in DOMAIN conn'.c2s : i \in Nat /\ i > 0 /\ i + 1 \in DOMAIN conn.c2s /\ conn'.c2s[i] = conn.c2s[i + 1]
        /\ \A i \in DOMAIN conn.c2s : i \in Nat /\ (i = 1 \/ (i - 1 \in DOMAIN conn'.c2s /\ conn'.c2s[i - 1] = conn.c2s[i] /\ i > 1))
        /\ Tail(conn.c2s) \in Seq(NineMsg)
    BY <1>1, <1>3, <1>4, SeqTail
  <1>6. m.tag \in Tags /\ r \in NineReq /\ r.id \in Nat /\ y0 \in NineReply
        /\ y0.tag = m.tag /\ y0.id = r.id /\ y0.ok = ok
    BY <1>5, NineFacts DEF NineReply
  <1>. HIDE DEF y0
  <1>7. PICK n \in Nat : /\ DOMAIN conn'.s2c = DOMAIN conn.s2c \cup {n} /\ conn'.s2c[n] = y0
                         /\ \A i \in DOMAIN conn.s2c : i < n /\ conn'.s2c[i] = conn.s2c[i] /\ i \in Nat
    <2>1. Len(conn.s2c) \in Nat
      BY <1>3
    <2>2. /\ DOMAIN conn'.s2c = DOMAIN conn.s2c \cup {Len(conn.s2c) + 1} /\ conn'.s2c[Len(conn.s2c) + 1] = y0
          /\ \A i \in DOMAIN conn.s2c : i < Len(conn.s2c) + 1 /\ conn'.s2c[i] = conn.s2c[i] /\ i \in Nat
      BY <2>1, <1>3, <1>4, <1>6, SeqAppend
    <2>. QED  BY <2>1, <2>2
  <1>. HIDE DEF m
  <1>8. pending[m.tag] = r /\ Sent(m.tag) /\ ktag[m.tag] = r /\ Waits(m.tag) /\ WellFormed(r) /\ r # Free
    <2>1. pending[m.tag] = r /\ r # Free
      BY <1>5, <1>6, FreeAssumption DEF OpenInv, RequestsInv
    <2>2. Sent(m.tag) /\ ktag[m.tag] = r /\ Waits(m.tag)
      BY <2>1, <1>6 DEF OpenInv, PipeInv, Sent, Waits
    <2>. QED  BY <2>1, <2>2, <1>6 DEF OpenInv, KernelInv
  <1>9. \A u \in Tags : (Waits(u)' <=> Waits(u)) /\ (Sent(u)' <=> Sent(u))
    BY <1>1 DEF Waits, Sent
  <1>10. (Holding' <=> Holding) /\ HTag' = HTag /\ (Current' <=> Current) /\ Live /\ Live'
    BY <1>1, <1>4 DEF Holding, HTag, Current, Live
  <1>11. \A i \in DOMAIN conn'.c2s : /\ i \in Nat /\ i + 1 \in DOMAIN conn.c2s /\ conn'.c2s[i] = conn.c2s[i + 1]
                                     /\ r.id < conn'.c2s[i].req.id /\ conn'.c2s[i].req.id \in Nat
    <2>1. ASSUME NEW i \in DOMAIN conn'.c2s
          PROVE  i \in Nat /\ 1 < i + 1 /\ i + 1 \in DOMAIN conn.c2s /\ conn'.c2s[i] = conn.c2s[i + 1]
      BY <2>1, <1>5
    <2>. QED  BY <2>1, <1>5, NineFacts DEF OpenInv, RequestsInv
  <1>. HIDE DEF r, known
  <1>12. KernelInv'
    BY <1>1, KernelSame DEF OpenInv
  <1>13. PipeInv'
    BY <1>1, <1>10 DEF OpenInv, PipeInv, Sent
  <1>14. HeldInv'
    BY <1>1, <1>10 DEF OpenInv, HeldInv, Sent, Waits
  <1>15. \A i \in DOMAIN conn.s2c : conn.s2c[i].id \in Nat /\ conn.s2c[i].id < r.id
    BY <1>5, NineFacts DEF OpenInv, RepliesInv, r
  <1>16. (Holding => hpump.msg.id < r.id) /\ (Current => r.id < kpump.msg.req.id /\ kpump.msg.req.id \in Nat)
    BY <1>5, NineFacts DEF OpenInv, RequestsInv, r, Current
  <1>17. RequestsInv'
    <2>1. \A i, j \in DOMAIN conn'.c2s : i < j => conn'.c2s[i].req.id < conn'.c2s[j].req.id
      <3>1. ASSUME NEW i \in DOMAIN conn'.c2s, NEW j \in DOMAIN conn'.c2s, i < j
            PROVE  i + 1 \in DOMAIN conn.c2s /\ j + 1 \in DOMAIN conn.c2s /\ i + 1 < j + 1
        BY <3>1, <1>11
      <3>. QED  BY <3>1, <1>11 DEF OpenInv, RequestsInv
    <2>2. \A i \in DOMAIN conn'.c2s : pending[conn'.c2s[i].tag] = conn'.c2s[i].req
      BY <1>11 DEF OpenInv, RequestsInv
    <2>3. Current => \A i \in DOMAIN conn'.c2s : conn'.c2s[i].req.id < kpump.msg.req.id
      BY <1>11 DEF OpenInv, RequestsInv
    <2>4. Holding => \A i \in DOMAIN conn'.c2s : hpump.msg.id < conn'.c2s[i].req.id
      BY <1>11 DEF OpenInv, RequestsInv
    <2>. QED  BY <2>1, <2>2, <2>3, <2>4, <1>1, <1>4, <1>10 DEF RequestsInv
  <1>18. RepliesInv'
    <2>1. \A i \in DOMAIN conn'.s2c : pending[conn'.s2c[i].tag] # Free /\ pending[conn'.s2c[i].tag].id = conn'.s2c[i].id
      BY <1>6, <1>7, <1>8 DEF OpenInv, RepliesInv, Sent
    <2>2. \A i, j \in DOMAIN conn'.s2c : i < j => conn'.s2c[i].id < conn'.s2c[j].id
      BY <1>6, <1>7, <1>15 DEF OpenInv, RepliesInv
    <2>3. \A i \in DOMAIN conn'.s2c, j \in DOMAIN conn'.c2s : conn'.s2c[i].id < conn'.c2s[j].req.id
      BY <1>6, <1>7, <1>11 DEF OpenInv, RepliesInv
    <2>4. Current => \A i \in DOMAIN conn'.s2c : conn'.s2c[i].id < kpump.msg.req.id
      BY <1>6, <1>7, <1>16 DEF OpenInv, RepliesInv
    <2>5. Holding => \A i \in DOMAIN conn'.s2c : hpump.msg.id < conn'.s2c[i].id
      BY <1>6, <1>7, <1>16 DEF OpenInv, RepliesInv
    <2>. QED  BY <2>1, <2>2, <2>3, <2>4, <2>5, <1>1, <1>10 DEF RepliesInv, Sent
  <1>19. PrefixInv'
    <2>1. ASSUME NEW u \in Tags, Waits(u), ktag[u].id < r.id
          PROVE  (Holding /\ HTag = u) \/ \E j \in DOMAIN conn.s2c : conn.s2c[j].tag = u
      <3>1. ktag[u].id \in Nat
        BY <2>1, NineFacts
      <3>2. \A i \in DOMAIN k2p : k2p[i].tag # u
        <4>1. \A i \in DOMAIN k2p : r.id < k2p[i].req.id /\ k2p[i].req.id \in Nat /\ ktag[k2p[i].tag] = k2p[i].req
          BY <1>6, <1>8, NineFacts DEF OpenInv, PipeInv
        <4>. QED  BY <4>1, <2>1, <3>1, <1>6
      <3>3. Sent(u) => pending[u] = ktag[u]
        BY DEF OpenInv, PipeInv
      <3>4. Current => (Sent(u) => kpump.msg.tag # u)
        <4>1. Current => pending[kpump.msg.tag] = kpump.msg.req
          BY DEF OpenInv, PipeInv
        <4>. QED  BY <4>1, <2>1, <3>1, <3>3, <1>6, <1>16
      <3>5. Sent(u) => \A i \in DOMAIN conn.c2s : conn.c2s[i].tag # u
        <4>1. \A i \in DOMAIN conn.c2s : pending[conn.c2s[i].tag] = conn.c2s[i].req /\ conn.c2s[i].req.id \in Nat
                                         /\ (i = 1 \/ r.id < conn.c2s[i].req.id)
          <5>1. \A i \in DOMAIN conn.c2s : i = 1 \/ 1 < i
            BY <1>5
          <5>. QED  BY <5>1, <1>5, NineFacts DEF OpenInv, RequestsInv, r
        <4>. QED  BY <4>1, <2>1, <3>1, <3>3, <1>5, <1>6 DEF r
      <3>. QED  BY <2>1, <3>2, <3>4, <3>5, <1>10 DEF OpenInv, CoverInv
    <2>2. ASSUME NEW i \in DOMAIN conn'.s2c, NEW u \in Tags, Waits(u), ktag[u].id < conn'.s2c[i].id
          PROVE  (Holding /\ HTag = u) \/ \E j \in DOMAIN conn'.s2c : j < i /\ conn'.s2c[j].tag = u
      <3>1. CASE i = n
        BY <3>1, <2>1, <2>2, <1>6, <1>7
      <3>2. CASE i \in DOMAIN conn.s2c
        BY <3>2, <2>2, <1>7 DEF OpenInv, PrefixInv
      <3>. QED  BY <3>1, <3>2, <2>2, <1>7
    <2>. QED  BY <2>2, <1>1, <1>9, <1>10 DEF PrefixInv
  <1>20. CoverInv'
    <2>1. ASSUME NEW u \in Tags, Sent(u)
          PROVE  \/ Current /\ kpump.msg.tag = u
                 \/ \E i \in DOMAIN conn'.c2s : conn'.c2s[i].tag = u
                 \/ \E i \in DOMAIN conn'.s2c : conn'.s2c[i].tag = u
                 \/ Holding /\ HTag = u
      <3>1. ASSUME NEW i \in DOMAIN conn.c2s, conn.c2s[i].tag = u
            PROVE  \/ \E j \in DOMAIN conn'.c2s : conn'.c2s[j].tag = u
                   \/ \E j \in DOMAIN conn'.s2c : conn'.s2c[j].tag = u
        BY <3>1, <1>5, <1>6, <1>7
      <3>. QED  BY <3>1, <2>1, <1>7, <1>10 DEF OpenInv, CoverInv
    <2>. QED  BY <2>1, <1>1, <1>9, <1>10 DEF OpenInv, CoverInv
  <1>21. FidsInv'
    BY <1>1, FidsSame DEF OpenInv
  <1>22. \A y \in NineReply : (IsReply(y)' <=> IsReply(y) \/ y = y0)
                              /\ (IsReply(y) => y.tag \in Tags /\ y.tag # m.tag /\ Waits(y.tag) /\ y.ok \in BOOLEAN)
    <2>1. \A y \in NineReply : IsReply(y)' <=> IsReply(y) \/ y = y0
      BY <1>1, <1>7, <1>10 DEF IsReply
    <2>2. \A y \in NineReply : IsReply(y) => y.id < r.id
      BY <1>15, <1>16 DEF IsReply
    <2>3. \A y \in NineReply : y.ok \in BOOLEAN /\ y.id \in Nat
      BY DEF NineReply
    <2>. QED  BY <2>1, <2>2, <2>3, <1>6, <1>8, ReplyTags
  <1>23. \A y \in NineReply : IsReply(y) => /\ r.fid \notin Touch(ktag[y.tag])
                                            /\ \A f \in Touch(r) : f \notin Touch(ktag[y.tag])
    <2>1. ASSUME NEW y \in NineReply, IsReply(y)
          PROVE  r.fid \notin Touch(ktag[y.tag]) /\ \A f \in Touch(r) : f \notin Touch(ktag[y.tag])
      <3>1. y.tag \in Tags /\ y.tag # m.tag /\ Waits(y.tag)
        BY <2>1, <1>22
      <3>. QED  BY <3>1, <1>6, <1>8, NoConflict
    <2>. QED  BY <2>1
  <1>24. \A f \in AllFids : f \in Touch(r) \cup {r.fid} => Match(conn.sfids[f], kfid[f])
    BY <1>10, <1>23 DEF OpenInv, ServerInv
  <1>25. (r.typ \notin {"attach", "flush"} => kfid[r.fid] # Free) /\ FromPath(r)
    BY <1>6, <1>8 DEF OpenInv, KernelInv
  <1>26. /\ conn'.sfids \in Table
         /\ \A f \in AllFids : f \notin Touch(r) => conn'.sfids[f] = conn.sfids[f]
         /\ \A f \in Touch(r) : Match(conn'.sfids[f], Applied(kfid, r, ok)[f])
    <2>1. /\ Applied(conn.sfids, r, ok) \in Table
          /\ \A f \in AllFids : f \notin Touch(r) => Applied(conn.sfids, r, ok)[f] = conn.sfids[f]
      BY <1>3, <1>6, <1>8, AppliedFacts
    <2>2. \A f \in Touch(r) : Match((IF known THEN Applied(conn.sfids, r, ok) ELSE conn.sfids)[f], Applied(kfid, r, ok)[f])
      <3>1. known \in BOOLEAN /\ (known <=> (r.fid = Free \/ r.typ = "attach" \/ conn.sfids[r.fid] # Free))
        BY DEF known
      <3>2. ~known => ~ok
        BY <1>2
      <3>3. r.typ \in {"walk", "xattrwalk", "lopen", "lcreate"} => kfid[r.fid].path # Xattr
        BY <1>25 DEF FromPath
      <3>. QED  BY <3>1, <3>2, <3>3, <1>3, <1>6, <1>8, <1>24, <1>25, MatchApplied
    <2>. QED  BY <2>1, <2>2, <1>3, <1>4
  <1>27. ServerInv'
    <2>1. SUFFICES ASSUME NEW f \in AllFids
                   PROVE  /\ (\A y \in NineReply : IsReply(y)' => f \notin Touch(ktag[y.tag])) => Match(conn'.sfids[f], kfid[f])
                          /\ \A y \in NineReply : IsReply(y)' /\ f \in Touch(ktag[y.tag]) =>
                               Match(conn'.sfids[f], Applied(kfid, ktag[y.tag], y.ok)[f])
      BY <1>1 DEF ServerInv
    <2>2. ktag[y0.tag] = r /\ y0.ok = ok /\ y0 \in NineReply
      BY <1>6, <1>8
    <2>3. CASE f \in Touch(r)
      BY <2>2, <2>3, <1>22, <1>23, <1>26
    <2>4. CASE f \notin Touch(r)
      <3>1. conn'.sfids[f] = conn.sfids[f]
        BY <2>4, <1>26
      <3>. QED  BY <3>1, <2>2, <2>4, <1>10, <1>22 DEF OpenInv, ServerInv
    <2>. QED  BY <2>3, <2>4
  <1>28. conn' \in [alive : BOOLEAN, c2s : Seq(NineMsg), s2c : Seq(NineReply), sfids : Table]
    <2>1. conn'.s2c \in Seq(NineReply)
      BY <1>3, <1>4, <1>6, SeqAppend
    <2>. DEFINE c == Tail(conn.c2s)
                q == Append(conn.s2c, y0)
                s == IF known THEN Applied(conn.sfids, r, ok) ELSE conn.sfids
    <2>2. c \in Seq(NineMsg) /\ q \in Seq(NineReply) /\ s \in Table
      BY <2>1, <1>4, <1>5, <1>26
    <2>3. conn' = [conn EXCEPT !.c2s = c, !.s2c = q, !.sfids = s]
      BY <1>2 DEF y0, r
    <2>. HIDE DEF c, q, s
    <2>. QED  BY <2>2, <2>3, <1>3
  <1>. QED  BY <1>12, <1>13, <1>14, <1>17, <1>18, <1>19, <1>20, <1>21, <1>27, <1>28 DEF OpenInv

LEMMA ResendFacts ==
  ASSUME NineTypeOK, NEW q \in ResendOutstanding
  PROVE  /\ q \in Seq(NineMsg)
         /\ \A i \in DOMAIN q : q[i].tag \in Tags /\ Sent(q[i].tag) /\ pending[q[i].tag] = q[i].req
         /\ \A t \in Tags : Sent(t) => \E i \in DOMAIN q : q[i].tag = t
         /\ \A i, j \in DOMAIN q : i < j => q[i].req.id < q[j].req.id
  <1>. DEFINE S == {u \in Tags : pending[u] # Free}
              msg(u) == [tag |-> u, req |-> pending[u]]
  <1>1. IsFiniteSet(S)
    BY NineConstants, FS_Subset
  <1>2. Unanswered = {msg(u) : u \in S}
    BY DEF Unanswered
  <1>3. IsFiniteSet(Unanswered)
    <2>. DEFINE f == [u \in S |-> msg(u)]
    <2>1. f \in Surjection(S, Unanswered)
      BY <1>2 DEF Surjection
    <2>. HIDE DEF f
    <2>. QED  BY <2>1, <1>1, FS_Surjection
  <1>4. Cardinality(Unanswered) \in Nat
    BY <1>3, FS_CardinalityType
  <1>5. ASSUME NEW m \in Unanswered
        PROVE  m \in NineMsg /\ m.tag \in Tags /\ Sent(m.tag) /\ pending[m.tag] = m.req
    <2>1. PICK u \in Tags : pending[u] # Free /\ m = [tag |-> u, req |-> pending[u]]
      BY <1>5 DEF Unanswered
    <2>2. pending[u] \in NineReq
      BY <2>1, NineFacts DEF Sent
    <2>. QED  BY <2>1, <2>2 DEF NineMsg, Sent
  <1>6. /\ q \in [1..Cardinality(Unanswered) -> Unanswered]
        /\ \A m \in Unanswered : \E i \in DOMAIN q : q[i] = m
        /\ \A i, j \in DOMAIN q : i < j => q[i].req.id < q[j].req.id
    BY DEF ResendOutstanding
  <1>7. q \in Seq(NineMsg) /\ \A i \in DOMAIN q : q[i] \in Unanswered
    <2>1. q \in [1..Cardinality(Unanswered) -> NineMsg]
      BY <1>5, <1>6
    <2>. QED  BY <2>1, <1>4, <1>6
  <1>8. ASSUME NEW t \in Tags, Sent(t) PROVE \E i \in DOMAIN q : q[i].tag = t
    <2>1. [tag |-> t, req |-> pending[t]] \in Unanswered
      BY <1>8 DEF Unanswered, Sent
    <2>2. PICK i \in DOMAIN q : q[i] = [tag |-> t, req |-> pending[t]]
      BY <2>1, <1>6
    <2>. QED  BY <2>2
  <1>. QED  BY <1>5, <1>6, <1>7, <1>8

LEMMA ReconnectStep ==
  ASSUME NineTypeOK, AttachInv, OpenInv, Reconnect, ~twice'
  PROVE  OpenInv'
  <1>1. PICK q \in ResendOutstanding : conn' = [FreshConn EXCEPT !.sfids = Replay(fids), !.c2s = q]
    BY DEF Reconnect
  <1>2. /\ hpump # Free => hpump.observed
        /\ host' /\ hostGen' = hostGen + 1
        /\ UNCHANGED <<kfid, ktag, k2p, fids, pending, kpump, hpump, nextId>>
    BY DEF Reconnect
  <1>3. fids \in Table /\ kfid \in Table /\ hostGen \in Nat
    BY DEF NineTypeOK
  <1>4. Replay(fids) = fids
    BY ReplayFacts DEF Reconnect
  <1>5. conn' = [alive |-> TRUE, c2s |-> q, s2c |-> <<>>, sfids |-> fids]
    BY <1>1, <1>4 DEF FreshConn
  <1>6. conn'.alive /\ conn'.c2s = q /\ conn'.s2c = <<>> /\ conn'.sfids = fids
    BY <1>5
  <1>7. ~Current' /\ (Holding' <=> Holding) /\ HTag' = HTag
    <2>1. kpump # Free => kpump.obsGen \in Nat /\ kpump.obsGen <= hostGen
      BY NineFacts DEF OpenInv, PipeInv
    <2>. QED  BY <2>1, <1>2, <1>3 DEF Current, Holding, HTag
  <1>8. KernelInv'
    BY <1>2, KernelSame DEF OpenInv
  <1>9. PipeInv'
    <2>1. kpump # Free => kpump.obsGen <= hostGen + 1
      <3>1. kpump # Free => kpump.obsGen \in Nat /\ kpump.obsGen <= hostGen
        BY NineFacts DEF OpenInv, PipeInv
      <3>. QED  BY <3>1, <1>3
    <2>. QED  BY <2>1, <1>2, <1>7 DEF OpenInv, PipeInv, Sent
  <1>10. HeldInv'
    BY <1>2, <1>7 DEF OpenInv, HeldInv, Sent, Waits
  <1>11. Holding => hpump.observed /\ ~Sent(HTag) /\ HTag \in Tags
    BY <1>2, NineFacts DEF OpenInv, HeldInv, Holding
  <1>12. RequestsInv'
    <2>1. ASSUME Holding, NEW i \in DOMAIN q PROVE hpump.msg.id < q[i].req.id
      <3>1. q[i].tag \in Tags /\ q[i].tag # HTag /\ Sent(q[i].tag) /\ pending[q[i].tag] = q[i].req
        BY <2>1, <1>11, ResendFacts
      <3>2. Waits(q[i].tag) /\ ktag[q[i].tag] = q[i].req
        BY <3>1 DEF OpenInv, PipeInv, Sent, Waits
      <3>3. ktag[q[i].tag].id > hpump.msg.id /\ hpump.msg.id \in Nat /\ ktag[q[i].tag].id \in Nat
        BY <2>1, <3>1, <3>2, NineFacts DEF OpenInv, HeldInv
      <3>. QED  BY <3>2, <3>3
    <2>2. \A i \in DOMAIN q : pending[q[i].tag] = q[i].req
      BY ResendFacts
    <2>3. \A i, j \in DOMAIN q : i < j => q[i].req.id < q[j].req.id
      BY ResendFacts
    <2>. QED  BY <2>1, <2>2, <2>3, <1>2, <1>6, <1>7 DEF RequestsInv
  <1>13. RepliesInv' /\ PrefixInv'
    BY <1>2, <1>6 DEF RepliesInv, PrefixInv
  <1>14. CoverInv'
    <2>1. \A t \in Tags : Waits(t)' =>
            Sent(t)' \/ (Holding' /\ HTag' = t) \/ \E i \in DOMAIN k2p' : k2p'[i].tag = t
      BY <1>2, <1>7 DEF OpenInv, CoverInv, Waits, Sent
    <2>2. \A t \in Tags : Sent(t)' => \E i \in DOMAIN conn'.c2s : conn'.c2s[i].tag = t
      BY <1>2, <1>6, ResendFacts DEF Sent
    <2>. QED  BY <2>1, <2>2 DEF CoverInv
  <1>15. FidsInv'
    BY <1>2, FidsSame DEF OpenInv
  <1>16. ServerInv'
    <2>1. \A y \in NineReply : IsReply(y)' <=> Holding /\ y = hpump.msg
      BY <1>2, <1>6, <1>7 DEF IsReply
    <2>2. CASE ~Holding
      <3>1. \A f \in AllFids : Match(fids[f], kfid[f])
        BY <2>2, <1>3, TrackedFacts DEF OpenInv, FidsInv
      <3>. QED  BY <3>1, <2>1, <2>2, <1>2, <1>6 DEF ServerInv
    <2>3. CASE Holding
      <3>. DEFINE new == Applied(kfid, ktag[HTag], hpump.msg.ok)
      <3>1. fids = Tracked(new) /\ hpump.msg \in NineReply
        BY <2>3, <1>11, HeldFacts DEF OpenInv, FidsInv
      <3>2. new \in Table /\ \A f \in AllFids : f \notin Touch(ktag[HTag]) => new[f] = kfid[f]
        BY <2>3, <1>3, HeldFacts, AppliedFacts
      <3>3. \A f \in AllFids : Match(fids[f], new[f])
        BY <3>1, <3>2, TrackedFacts
      <3>. QED  BY <3>1, <3>2, <3>3, <2>1, <2>3, <1>2, <1>6 DEF ServerInv, HTag
    <2>. QED  BY <2>2, <2>3
  <1>. QED  BY <1>8, <1>9, <1>10, <1>12, <1>13, <1>14, <1>15, <1>16 DEF OpenInv

-----------------------------------------------------------------------------
(* The invariant. *)

LEMMA NineInitInv ==
  NineInit => NineInv
  <1>. SUFFICES ASSUME NineInit PROVE NineInv
    OBVIOUS
  <1>. USE DEF NineInit
  <1>. DEFINE empty == [f \in AllFids |-> Free]
  <1>1. empty \in Table
    BY DEF Table
  <1>2. conn = [alive |-> TRUE, c2s |-> <<>>, s2c |-> <<>>, sfids |-> empty]
    BY DEF FreshConn
  <1>3. NineTypeOK
    <2>1. conn \in [alive : BOOLEAN, c2s : Seq(NineMsg), s2c : Seq(NineReply), sfids : Table]
      <3>1. <<>> \in Seq(NineMsg) /\ <<>> \in Seq(NineReply)
        OBVIOUS
      <3>. HIDE DEF empty, NineInit
      <3>. QED  BY <3>1, <1>1, <1>2
    <2>2. kfid \in Table /\ fids \in Table
      BY <1>1
    <2>3. ktag \in [Tags -> NineReq \cup {Free}] /\ pending \in [Tags -> NineReq \cup {Free}]
      OBVIOUS
    <2>4. k2p \in Seq(NineMsg)
      OBVIOUS
    <2>5. /\ haveAttach \in BOOLEAN /\ host \in BOOLEAN /\ closed \in BOOLEAN /\ twice \in BOOLEAN
          /\ hostGen \in Nat /\ nextId \in Nat /\ deaths \in Nat /\ reconns \in Nat
          /\ kpump \in KernelPump \cup {Free} /\ hpump \in HostPump \cup {Free}
      OBVIOUS
    <2>. HIDE DEF NineInit
    <2>. QED  BY <2>1, <2>2, <2>3, <2>4, <2>5 DEF NineTypeOK
  <1>4. conn.alive /\ conn.c2s = <<>> /\ conn.s2c = <<>> /\ conn.sfids = kfid
    BY <1>2
  <1>5. \A t \in Tags : ~Waits(t) /\ ~Sent(t)
    BY DEF Waits, Sent
  <1>6. ~Holding /\ ~Current
    BY DEF Holding, Current
  <1>7. KernelInv /\ PipeInv /\ HeldInv /\ CoverInv
    BY <1>5, <1>6 DEF KernelInv, PipeInv, HeldInv, CoverInv
  <1>10. FidsInv
    BY <1>6 DEF FidsInv, Tracked
  <1>11. AttachInv
    BY DEF AttachInv, AllFids
  <1>8. RequestsInv /\ RepliesInv /\ PrefixInv
    BY <1>4, <1>6 DEF RequestsInv, RepliesInv, PrefixInv
  <1>9. ServerInv
    BY <1>4, <1>6 DEF ServerInv, IsReply, Match
  <1>. QED  BY <1>3, <1>7, <1>8, <1>9, <1>10, <1>11 DEF NineInv, OpenInv, ClosedInv

\* What each step leaves of the types.
LEMMA NineTypeStep ==
  ASSUME NineTypeOK, AttachInv, [NineNext]_nineVars
  PROVE  NineTypeOK' /\ AttachInv'
  <1>. DEFINE CT == [alive : BOOLEAN, c2s : Seq(NineMsg), s2c : Seq(NineReply), sfids : Table]
  <1>1. /\ conn \in CT /\ k2p \in Seq(NineMsg) /\ hostGen \in Nat /\ nextId \in Nat
        /\ ktag \in [Tags -> NineReq \cup {Free}] /\ pending \in [Tags -> NineReq \cup {Free}]
        /\ kfid \in Table /\ fids \in Table
        /\ deaths \in Nat /\ reconns \in Nat
    BY DEF NineTypeOK
  <1>2. \A p \in KernelPump, w \in BOOLEAN : [p EXCEPT !.writing = w] \in KernelPump
    BY DEF KernelPump
  <1>3. <<>> \in Seq(NineMsg) /\ <<>> \in Seq(NineReply)
    OBVIOUS
  <1>4. [conn EXCEPT !.alive = FALSE, !.c2s = <<>>, !.s2c = <<>>] \in CT
    BY <1>1, <1>3
  <1>5. CASE \E t \in Tags : KernelSend(t)
    <2>1. PICK t \in Tags, r \in KernelRequests :
            /\ ktag' = [ktag EXCEPT ![t] = r] /\ k2p' = Append(k2p, [tag |-> t, req |-> r])
            /\ nextId' = nextId + 1
            /\ UNCHANGED <<kfid, fids, pending, haveAttach, host, hostGen, kpump, hpump, conn, deaths, reconns, closed, twice>>
      BY <1>5 DEF KernelSend
    <2>2. r \in NineReq
      BY AskedRequests DEF Asked
    <2>. DEFINE m == [tag |-> t, req |-> r]
    <2>3. m \in NineMsg
      BY <2>2 DEF NineMsg
    <2>4. k2p' \in Seq(NineMsg)
      <3>1. k2p' = Append(k2p, m)
        BY <2>1
      <3>. HIDE DEF m
      <3>. QED  BY <3>1, <2>3, <1>1
    <2>5. ktag' \in [Tags -> NineReq \cup {Free}]
      BY <2>1, <2>2, <1>1
    <2>. QED  BY <2>1, <2>4, <2>5, <1>1 DEF NineTypeOK, AttachInv
  <1>6. CASE KernelToHost
    <2>1. Head(k2p) \in NineMsg /\ Tail(k2p) \in Seq(NineMsg)
      BY <1>1, <1>6 DEF KernelToHost
    <2>2. Head(k2p).tag \in Tags /\ Head(k2p).req \in NineReq
      BY <2>1 DEF NineMsg
    <2>3. kpump' \in KernelPump
      BY <2>1, <1>1, <1>6 DEF KernelToHost, KernelPump
    <2>4. pending' \in [Tags -> NineReq \cup {Free}]
      BY <2>2, <1>1, <1>6 DEF KernelToHost, ObserveClient
    <2>. QED  BY <2>1, <2>3, <2>4, <1>6 DEF KernelToHost, NineTypeOK, AttachInv
  <1>7. CASE WriteHost
    <2>1. kpump' \in KernelPump \cup {Free}
      BY <1>2, <1>7, NineFacts DEF WriteHost
    <2>. QED  BY <2>1, <1>7 DEF WriteHost, NineTypeOK, AttachInv
  <1>8. CASE HostWrite
    <2>1. kpump \in KernelPump /\ kpump.msg \in NineMsg
      BY <1>8, NineFacts DEF HostWrite
    <2>2. kpump' \in KernelPump \cup {Free}
      BY <1>2, <1>8, <2>1 DEF HostWrite
    <2>3. Append(conn.c2s, kpump.msg) \in Seq(NineMsg)
      BY <1>1, <2>1
    <2>4. [conn EXCEPT !.c2s = Append(conn.c2s, kpump.msg)] \in CT
      BY <1>1, <2>3
    <2>5. conn' \in CT /\ host' \in BOOLEAN
      BY <1>1, <1>4, <1>8, <2>4 DEF HostWrite, MarkHostDead, NineTypeOK, AttachInv
    <2>. QED  BY <2>2, <2>5, <1>8 DEF HostWrite, NineTypeOK, AttachInv
  <1>9. CASE HostRead
    <2>1. Head(conn.s2c) \in NineReply /\ Tail(conn.s2c) \in Seq(NineReply)
      BY <1>1, <1>9 DEF HostRead
    <2>2. hpump' \in HostPump
      BY <2>1, <1>9 DEF HostRead, HostPump
    <2>3. conn' \in CT
      BY <2>1, <1>1, <1>9 DEF HostRead
    <2>. QED  BY <2>2, <2>3, <1>9 DEF HostRead, NineTypeOK, AttachInv
  <1>10. CASE HostReadError
    BY <1>4, <1>10 DEF HostReadError, MarkHostDead, NineTypeOK, AttachInv
  <1>11. CASE HostObserve
    <2>. DEFINE u0 == hpump.msg.tag
                ok == hpump.msg.ok
    <2>1. hpump \in HostPump /\ u0 \in Tags /\ ok \in BOOLEAN
      BY <1>11, NineFacts DEF HostObserve, Holding, HTag
    <2>2. fids' \in Table /\ AttachInv' /\ haveAttach' \in BOOLEAN /\ pending' \in [Tags -> NineReq \cup {Free}]
      <3>1. CASE pending[u0] = Free
        BY <3>1, <1>1, <1>11 DEF HostObserve, ObserveServer, AttachInv, NineTypeOK
      <3>2. CASE pending[u0] # Free
        <4>. DEFINE r == pending[u0]
        <4>1. r \in NineReq
          BY <3>2, <2>1, <1>1
        <4>2. /\ fids' = IF r.typ = "xattrwalk" THEN fids ELSE Applied(fids, r, ok)
              /\ haveAttach' = (haveAttach \/ (r.typ = "attach" /\ ok))
              /\ pending' = [u \in Tags |-> IF u = u0 \/ (r.typ = "flush" /\ u = r.old) THEN Free ELSE pending[u]]
          BY <3>2, <1>11 DEF HostObserve, ObserveServer
        <4>. HIDE DEF r, u0, ok
        <4>3. /\ Applied(fids, r, ok) \in Table
              /\ Applied(fids, r, ok)[Root] = IF r.typ = "attach" /\ ok THEN RootEntry ELSE fids[Root]
          BY <4>1, <2>1, <1>1, AppliedType
        <4>4. RootEntry # Free
          BY RootEntryFacts
        <4>5. pending' \in [Tags -> NineReq \cup {Free}]
          BY <4>2, <1>1
        <4>. QED  BY <4>2, <4>3, <4>4, <4>5, <1>1 DEF AttachInv, NineTypeOK
      <3>. QED  BY <3>1, <3>2
    <2>4. hpump' \in HostPump
      BY <2>1, <1>11 DEF HostObserve, HostPump
    <2>. QED  BY <2>2, <2>4, <1>11 DEF HostObserve, NineTypeOK
  <1>12. CASE KernelDeliver
    <2>. DEFINE u0 == hpump.msg.tag
                ok == hpump.msg.ok
                r == ktag[u0]
    <2>1. u0 \in Tags /\ ok \in BOOLEAN
      BY <1>12, NineFacts DEF KernelDeliver, Holding, HTag
    <2>2. kfid' \in Table /\ ktag' \in [Tags -> NineReq \cup {Free}]
      <3>1. CASE r = Free
        BY <3>1, <1>1, <1>12 DEF KernelDeliver
      <3>2. CASE r # Free
        <4>1. /\ r \in NineReq /\ kfid' = Applied(kfid, r, ok)
              /\ ktag' = [u \in Tags |-> IF u = u0 \/ (r.typ = "flush" /\ u = r.old) THEN Free ELSE ktag[u]]
          BY <3>2, <2>1, <1>1, <1>12 DEF KernelDeliver
        <4>. HIDE DEF r, u0, ok
        <4>. QED  BY <4>1, <2>1, <1>1, AppliedType
      <3>. QED  BY <3>1, <3>2
    <2>. QED  BY <2>2, <1>12 DEF KernelDeliver, NineTypeOK, AttachInv
  <1>13. CASE ServerAnswer
    <2>. DEFINE m == Head(conn.c2s)
    <2>1. PICK ok \in BOOLEAN, known \in BOOLEAN :
            conn' = [conn EXCEPT !.c2s = Tail(conn.c2s),
                                 !.s2c = Append(conn.s2c, [tag |-> m.tag, id |-> m.req.id, ok |-> ok]),
                                 !.sfids = IF known THEN Applied(conn.sfids, m.req, ok) ELSE conn.sfids]
      <3>. DEFINE known == m.req.fid = Free \/ m.req.typ = "attach" \/ conn.sfids[m.req.fid] # Free
      <3>1. \E ok \in BOOLEAN :
              conn' = [conn EXCEPT !.c2s = Tail(conn.c2s),
                                   !.s2c = Append(conn.s2c, [tag |-> m.tag, id |-> m.req.id, ok |-> ok]),
                                   !.sfids = IF known THEN Applied(conn.sfids, m.req, ok) ELSE conn.sfids]
        BY <1>13 DEF ServerAnswer, NineTypeOK
      <3>2. known \in BOOLEAN
        OBVIOUS
      <3>. HIDE DEF known
      <3>. QED  BY <3>1, <3>2
    <2>2. m \in NineMsg /\ Tail(conn.c2s) \in Seq(NineMsg)
      BY <1>1, <1>13 DEF ServerAnswer
    <2>3. m.tag \in Tags /\ m.req \in NineReq /\ m.req.id \in Nat
      BY <2>2 DEF NineMsg, NineReq
    <2>. HIDE DEF m
    <2>. DEFINE y == [tag |-> m.tag, id |-> m.req.id, ok |-> ok]
                s == IF known THEN Applied(conn.sfids, m.req, ok) ELSE conn.sfids
    <2>4. y \in NineReply /\ s \in Table
      BY <2>3, <1>1, AppliedType DEF NineReply
    <2>5. conn' = [conn EXCEPT !.c2s = Tail(conn.c2s), !.s2c = Append(conn.s2c, y), !.sfids = s]
      BY <2>1
    <2>. HIDE DEF y, s
    <2>6. Append(conn.s2c, y) \in Seq(NineReply)
      BY <2>4, <1>1
    <2>7. conn' \in CT
      BY <2>2, <2>4, <2>5, <2>6, <1>1
    <2>. QED  BY <2>7, <1>13 DEF ServerAnswer, NineTypeOK, AttachInv
  <1>14. CASE ConnDies
    <2>1. PICK k \in 0..Len(conn.s2c) :
            conn' = [conn EXCEPT !.alive = FALSE, !.c2s = <<>>, !.s2c = SubSeq(conn.s2c, 1, k)]
      BY <1>14, <1>1 DEF ConnDies
    <2>2. SubSeq(conn.s2c, 1, k) \in Seq(NineReply)
      <3>1. conn.s2c \in Seq(NineReply)
        BY <1>1
      <3>. QED  BY <3>1, <2>1
    <2>3. conn' \in CT
      BY <2>1, <2>2, <1>1, <1>3
    <2>. QED  BY <2>3, <1>1, <1>14 DEF ConnDies, NineTypeOK, AttachInv
  <1>15. CASE Reconnect
    <2>1. conn' \in CT
      <3>1. PICK q \in ResendOutstanding : conn' = [FreshConn EXCEPT !.sfids = Replay(fids), !.c2s = q]
        BY <1>15 DEF Reconnect
      <3>2. q \in Seq(NineMsg)
        BY ResendFacts
      <3>3. Replay(fids) \in Table
        BY ReplayFacts
      <3>4. conn' = [alive |-> TRUE, c2s |-> q, s2c |-> <<>>, sfids |-> Replay(fids)]
        BY <3>1 DEF FreshConn
      <3>. QED  BY <3>2, <3>3, <3>4, <1>3
    <2>2. hostGen' \in Nat /\ reconns' \in Nat /\ host' \in BOOLEAN /\ twice' \in BOOLEAN
          /\ UNCHANGED <<kfid, ktag, k2p, fids, pending, haveAttach, kpump, hpump, nextId, deaths, closed>>
      BY <1>1, <1>15 DEF Reconnect
    <2>. HIDE DEF CT
    <2>3. conn' \in CT /\ NineTypeOK
      BY <2>1
    <2>. QED  BY <2>2, <2>3 DEF NineTypeOK, CT, AttachInv
  <1>16. CASE ReconnectFails
    BY <1>1, <1>16 DEF ReconnectFails, NineTypeOK, AttachInv
  <1>17. CASE Close
    BY <1>1, <1>4, <1>17 DEF Close, NineTypeOK, AttachInv
  <1>18. CASE UNCHANGED nineVars
    BY <1>18 DEF nineVars, NineTypeOK, AttachInv
  <1>. QED  BY <1>5, <1>6, <1>7, <1>8, <1>9, <1>10, <1>11, <1>12, <1>13, <1>14, <1>15, <1>16, <1>17, <1>18
            DEF NineNext

LEMMA NineStep ==
  NineInv /\ [NineNext]_nineVars => NineInv'
  <1>. SUFFICES ASSUME NineInv, [NineNext]_nineVars PROVE NineInv'
    OBVIOUS
  <1>1. NineTypeOK' /\ AttachInv'
    BY NineTypeStep DEF NineInv
  <1>2. CASE closed
    <2>1. UNCHANGED nineVars
      <3>1. ~NineNext
        BY <1>2 DEF NineInv, ClosedInv, NineNext, KernelSend, KernelToHost, WriteHost, HostWrite, HostRead,
                    HostReadError, HostObserve, KernelDeliver, ServerAnswer, ConnDies, Reconnect, ReconnectFails, Close
      <3>. QED  BY <3>1
    <2>. QED  BY <2>1, <1>1, <1>2 DEF nineVars, NineInv, ClosedInv
  <1>3. CASE ~closed /\ Close
    BY <1>1, <1>3 DEF Close, NineInv, ClosedInv
  <1>4. CASE ~closed /\ ~Close
    <2>3. twice => twice'
      <3>1. CASE Reconnect
        BY <3>1 DEF Reconnect
      <3>2. CASE ~Reconnect
        BY <3>2, <1>4 DEF NineNext, nineVars, KernelSend, KernelToHost, WriteHost, HostWrite, HostRead,
                  HostReadError, HostObserve, KernelDeliver, ServerAnswer, ConnDies, ReconnectFails
      <3>. QED  BY <3>1, <3>2
    <2>1. ~closed'
      BY <1>4 DEF NineNext, nineVars, KernelSend, KernelToHost, WriteHost, HostWrite, HostRead,
                  HostReadError, HostObserve, KernelDeliver, ServerAnswer, ConnDies, Reconnect, ReconnectFails
    <2>2. ASSUME ~twice' PROVE OpenInv'
      <3>1. NineTypeOK /\ AttachInv /\ OpenInv
        BY <1>4, <2>2, <2>3 DEF NineInv
      <3>. QED  BY <3>1, <2>2, <1>4, QuietActions, KernelSendStep, KernelToHostStep, LandsStep, HostReadStep,
                   HostObserveStep, KernelDeliverStep, ServerAnswerStep, ReconnectStep DEF NineNext
    <2>. QED  BY <1>1, <2>1, <2>2 DEF NineInv, ClosedInv
  <1>. QED  BY <1>2, <1>3, <1>4

\* The inductive invariant of the proxy: the requests in flight keep their
\* order through the pumps, the connections and the replays of Reconnect, and
\* the three tables of fids differ by the replies under way.
THEOREM NineInvariance ==
  NineSpec => []NineInv
  <1>. QED  BY NineInitInv, NineStep, PTL DEF NineSpec

\* Type correctness of the proxy: the tables Session keeps, the pumps and the
\* connection hold what the code's types allow.
THEOREM NineTypeCorrect ==
  NineSpec => []NineTypeOK
  <1>1. NineInv => NineTypeOK
    BY DEF NineInv
  <1>. QED  BY <1>1, NineInvariance, PTL

LEMMA SurvivesInv ==
  NineInv => SessionSurvives
  <1>. SUFFICES ASSUME NineInv PROVE SessionSurvives
    OBVIOUS
  <1>1. CASE ~Live \/ twice
    BY <1>1 DEF SessionSurvives, AnswersAwaited, FidsResolve, NothingForgotten, Live
  <1>2. CASE Live /\ ~twice
    <2>1. NineTypeOK /\ OpenInv
      BY <1>2 DEF NineInv, ClosedInv, Live
    <2>2. /\ \A t \in Tags : Sent(t) => Waits(t) /\ pending[t] = ktag[t]
          /\ \A i \in DOMAIN conn.c2s : /\ conn.c2s[i].tag \in Tags /\ Waits(conn.c2s[i].tag)
                                        /\ ktag[conn.c2s[i].tag] = conn.c2s[i].req /\ conn.c2s[i].req.id \in Nat
          /\ \A i \in DOMAIN conn.s2c : /\ conn.s2c[i].tag \in Tags /\ Waits(conn.s2c[i].tag)
                                        /\ ktag[conn.s2c[i].tag].id = conn.s2c[i].id /\ conn.s2c[i].id \in Nat
      <3>1. \A t \in Tags : Sent(t) => Waits(t) /\ pending[t] = ktag[t]
        BY <2>1 DEF OpenInv, PipeInv, Sent, Waits
      <3>2. \A i \in DOMAIN conn.c2s : conn.c2s[i].tag \in Tags /\ Sent(conn.c2s[i].tag)
                /\ pending[conn.c2s[i].tag] = conn.c2s[i].req /\ conn.c2s[i].req.id \in Nat
        BY <2>1, NineFacts DEF OpenInv, RequestsInv, Sent
      <3>3. \A i \in DOMAIN conn.s2c : conn.s2c[i].tag \in Tags /\ Sent(conn.s2c[i].tag)
                /\ pending[conn.s2c[i].tag].id = conn.s2c[i].id /\ conn.s2c[i].id \in Nat
        BY <2>1, NineFacts DEF OpenInv, RepliesInv
      <3>. QED  BY <3>1, <3>2, <3>3
    <2>3. AnswersAwaited
      <3>. DEFINE a == [i \in DOMAIN conn.s2c |-> [tag |-> conn.s2c[i].tag, id |-> conn.s2c[i].id]]
                  b == [i \in DOMAIN conn.c2s |-> [tag |-> conn.c2s[i].tag, id |-> conn.c2s[i].req.id]]
                  q == a \o b
                  E == [tag : Tags, id : Nat]
      <3>1. a \in Seq(E) /\ b \in Seq(E) /\ Len(a) = Len(conn.s2c) /\ Len(b) = Len(conn.c2s)
        <4>1. conn.s2c \in Seq(NineReply) /\ conn.c2s \in Seq(NineMsg)
          BY <2>1, ConnFacts
        <4>2. DOMAIN conn.s2c = 1..Len(conn.s2c) /\ DOMAIN conn.c2s = 1..Len(conn.c2s)
              /\ Len(conn.s2c) \in Nat /\ Len(conn.c2s) \in Nat
          BY <4>1
        <4>3. a \in [1..Len(conn.s2c) -> E] /\ b \in [1..Len(conn.c2s) -> E]
          BY <4>2, <2>2
        <4>. QED  BY <4>2, <4>3
      <3>2. /\ DOMAIN a = DOMAIN conn.s2c /\ \A i \in DOMAIN a : a[i].tag = conn.s2c[i].tag /\ a[i].id = conn.s2c[i].id
            /\ DOMAIN b = DOMAIN conn.c2s /\ \A i \in DOMAIN b : b[i].tag = conn.c2s[i].tag /\ b[i].id = conn.c2s[i].req.id
        OBVIOUS
      <3>. HIDE DEF a, b, E
      <3>3. /\ DOMAIN q = 1..(Len(a) + Len(b)) /\ Len(a) \in Nat /\ Len(b) \in Nat
            /\ DOMAIN a = 1..Len(a) /\ DOMAIN b = 1..Len(b)
            /\ \A i \in 1..(Len(a) + Len(b)) : q[i] = IF i <= Len(a) THEN a[i] ELSE b[i - Len(a)]
        BY <3>1, SeqConcat
      <3>. HIDE DEF q
      <3>4. \A i \in DOMAIN q : /\ i \in DOMAIN a => q[i] = a[i]
                                /\ i \notin DOMAIN a => i - Len(a) \in DOMAIN b /\ q[i] = b[i - Len(a)] /\ i \in Nat /\ i > Len(a)
        <4>1. ASSUME NEW i \in DOMAIN q, i \in DOMAIN a PROVE q[i] = a[i]
          BY <4>1, <3>3
        <4>2. ASSUME NEW i \in DOMAIN q, i \notin DOMAIN a
              PROVE  i \in Nat /\ i > Len(a) /\ i - Len(a) \in DOMAIN b /\ q[i] = b[i - Len(a)]
          BY <4>2, <3>3
        <4>. QED  BY <4>1, <4>2
      <3>5. \A i \in DOMAIN q : ktag[q[i].tag] # Free /\ ktag[q[i].tag].id = q[i].id
        <4>1. \A i \in DOMAIN a : ktag[a[i].tag] # Free /\ ktag[a[i].tag].id = a[i].id
          BY <3>2, <2>2 DEF Waits
        <4>2. \A i \in DOMAIN b : ktag[b[i].tag] # Free /\ ktag[b[i].tag].id = b[i].id
          BY <3>2, <2>2 DEF Waits
        <4>. QED  BY <4>1, <4>2, <3>4
      <3>6. ASSUME NEW i \in DOMAIN q, NEW j \in DOMAIN q, i < j PROVE q[i].id < q[j].id
        <4>1. CASE i \in DOMAIN a /\ j \in DOMAIN a
          BY <4>1, <3>6, <3>2, <3>4, <2>1 DEF OpenInv, RepliesInv
        <4>2. CASE i \in DOMAIN a /\ j \notin DOMAIN a
          BY <4>2, <3>6, <3>2, <3>4, <2>1 DEF OpenInv, RepliesInv
        <4>3. CASE i \notin DOMAIN a /\ j \notin DOMAIN a
          <5>1. i - Len(a) \in DOMAIN b /\ j - Len(a) \in DOMAIN b /\ i - Len(a) < j - Len(a)
            BY <4>3, <3>6, <3>3, <3>4
          <5>. QED  BY <5>1, <4>3, <3>2, <3>4, <2>1 DEF OpenInv, RequestsInv
        <4>4. CASE i \notin DOMAIN a /\ j \in DOMAIN a
          BY <4>4, <3>6, <3>3, <3>4
        <4>. QED  BY <4>1, <4>2, <4>3, <4>4
      <3>7. \A i \in DOMAIN q : q[i].id \in Nat /\ i \in Nat
        <4>1. \A i \in DOMAIN q : i \in Nat
          BY <3>3
        <4>2. (\A i \in DOMAIN a : a[i].id \in Nat) /\ (\A i \in DOMAIN b : b[i].id \in Nat)
          BY <3>2, <2>2
        <4>. QED  BY <4>1, <4>2, <3>4
      <3>8. \A i, j \in DOMAIN q : i # j => q[i].id # q[j].id
        <4>1. ASSUME NEW i \in DOMAIN q, NEW j \in DOMAIN q, i # j PROVE q[i].id # q[j].id
          BY <4>1, <3>6, <3>7
        <4>. QED  BY <4>1
      <3>. QED  BY <3>5, <3>8 DEF AnswersAwaited, a, b, q
    <2>4. FidsResolve
      <3>1. ASSUME NEW i \in DOMAIN conn.c2s, conn.c2s[i].req.fid # Free, conn.c2s[i].req.typ # "attach"
            PROVE  Match(conn.sfids[conn.c2s[i].req.fid], kfid[conn.c2s[i].req.fid])
        <4>. DEFINE r == conn.c2s[i].req
                    t == conn.c2s[i].tag
        <4>1. t \in Tags /\ Waits(t) /\ ktag[t] = r /\ r \in NineReq /\ r.id \in Nat
          BY <2>1, <2>2, NineFacts
        <4>2. r.fid \in AllFids
          BY <3>1, <4>1 DEF NineReq
        <4>3. ASSUME NEW y \in NineReply, IsReply(y) PROVE r.fid \notin Touch(ktag[y.tag])
          <5>1. y.id < r.id
            BY <2>1, <4>3 DEF IsReply, OpenInv, RepliesInv, RequestsInv
          <5>2. y.tag \in Tags /\ Waits(y.tag) /\ ktag[y.tag].id = y.id
            BY <2>1, <4>3, ReplyTags
          <5>3. y.tag # t
            BY <5>1, <5>2, <4>1
          <5>. QED  BY <5>2, <5>3, <4>1, <2>1, NoConflict
        <4>. QED  BY <4>2, <4>3, <2>1, <1>2 DEF OpenInv, ServerInv
      <3>. QED  BY <3>1 DEF FidsResolve, Match
    <2>5. NothingForgotten
      <3>1. ASSUME NEW t \in Tags, Waits(t)
            PROVE  \/ \E i \in DOMAIN k2p : k2p[i].tag = t
                   \/ kpump # Free /\ kpump.msg.tag = t
                   \/ \E i \in DOMAIN conn.c2s : conn.c2s[i].tag = t
                   \/ \E i \in DOMAIN conn.s2c : conn.s2c[i].tag = t
                   \/ hpump # Free /\ hpump.msg.tag = t
        BY <3>1, <2>1, <1>2 DEF OpenInv, CoverInv, Current, Holding, HTag
      <3>. QED  BY <3>1 DEF NothingForgotten, Waits
    <2>. QED  BY <2>3, <2>4, <2>5 DEF SessionSurvives
  <1>. QED  BY <1>1, <1>2

\* However often the host server is replaced under the guest's mount, until a
\* reconnect comes between the read of a reply and its observation: a live
\* server holds each request the kernel waits for at most once, under the
\* kernel's tag, resolves its fid to what the kernel means by it (a fid of
\* Txattrwalk it may not know), and no request the kernel waits for is lost (observe, writeHost, markHostDead,
\* Reconnect, Replay and ResendOutstanding, in any interleaving).
THEOREM SessionSurvivesHolds ==
  NineSpec => []SessionSurvives
  <1>. QED  BY SurvivesInv, NineInvariance, PTL
=============================================================================

---------------------------- MODULE GuestControl ----------------------------
(***************************************************************************)
(* Workspaces of a microVM: the host half exports them and drives control  *)
(* RPCs (src/internal/isolation/microvm.go), the guest half applies them   *)
(* (src/cmd/sbxguest/main_linux.go).                                       *)
(*                                                                         *)
(* A control RPC is re-driven until the guest acks it, so one request is   *)
(* applied in part, in full with its answer lost, or twice; the guest      *)
(* serves every connection in a goroutine of its own, so the handler of an *)
(* attempt the host has given up on may go on beside the next one.         *)
(* Workspaces are mounted by a goroutine of their own after the call that  *)
(* added them has returned.                                                *)
(***************************************************************************)
EXTENDS Naturals, FiniteSets

CONSTANTS
    Mounts,      \* guest mount paths
    Overlap,     \* may a reconcile run while an attach is still going on?
    MaxExports,  \* bound: exports (each takes a fresh port)
    MaxFaults,   \* bound: lost answers, attempts given up, refused steps, failed mounts
    MaxBehind    \* bound: handlers of attempts given up, at work at the same time

ASSUME GuestConstants ==
    /\ Mounts # {} /\ IsFiniteSet(Mounts) /\ Overlap \in BOOLEAN
    /\ MaxExports \in Nat /\ MaxFaults \in Nat /\ MaxBehind \in Nat

VARIABLES
    packed,        \* the VM has a netns of its own (m.netnsName)
    haveSnapshot,  \* the VM resumes a snapshot
    vm,            \* "off", "up" or "gone"
    fuse,          \* m.fuse: the port of each exported mount, 0 when not exported
    nextFusePort,
    fuseCancel,    \* m.fuseCancel: the port whose server the mount's cancel stops, 0
    listening,     \* ports with a 9p listener
    pendingUnmount,
    dirty,         \* the reconcile changed the exports and has not applied them
    call,          \* the ApplyResumeState in progress
    attach,        \* bindAndAttach calls in progress
    attached,      \* the last apply's attach was acked
    depth,         \* guest: 9p mounts stacked on each path
    wsProxies,     \* guest: the proxy of each path: "none", "live" or "dead"
    fileMounts,    \* guest: paths the file API routes to the 9p mounts
    guestEnv,      \* guest: the workload environment is applied
    guestAddr,     \* guest: eth0 is "baked", "flushed", "added" or "own"
    launched,      \* guest: times the entrypoint override was started
    behind,        \* guest: handlers of attempts the host has given up on
    crossed,       \* history: such a handler changed a mount or the address
    orphans,       \* workspaces the snapshot had mounted and the resumed config lacked,
                   \* until they are unmounted
    faults

guestVars == <<packed, haveSnapshot, vm, fuse, nextFusePort, fuseCancel,
               listening, pendingUnmount, dirty, call, attach, attached, depth,
               wsProxies, fileMounts, guestEnv, guestAddr, launched, behind,
               crossed, orphans, faults>>

hostVars == <<fuse, nextFusePort, fuseCancel, listening, pendingUnmount>>
inGuest == <<depth, wsProxies, fileMounts, guestEnv, guestAddr, launched, behind,
             crossed, orphans>>

NoCall == [pc |-> "none"]
Exported == {m \in Mounts : fuse[m] # 0}
Mounted(m) == depth[m] > 0

\* A sandbox starts with some workspaces exported and its VM not yet running:
\* a cold boot finds no mount in the guest, a resume finds the ones that were
\* mounted when the snapshot was taken, their connections dead.
GuestInit ==
    /\ packed \in BOOLEAN
    /\ haveSnapshot \in BOOLEAN
    /\ vm = "off"
    /\ fuse = [m \in Mounts |-> 0]
    /\ nextFusePort = 1
    /\ fuseCancel = [m \in Mounts |-> 0]
    /\ listening = {}
    /\ pendingUnmount = {}
    /\ dirty = FALSE
    /\ call = NoCall
    /\ attach = {}
    /\ attached = FALSE
    /\ depth = [m \in Mounts |-> 0]
    /\ wsProxies = [m \in Mounts |-> "none"]
    /\ fileMounts = {}
    /\ guestEnv = FALSE
    /\ guestAddr = IF haveSnapshot THEN "baked" ELSE "own"
    /\ launched = 0
    /\ behind = {}
    /\ crossed = FALSE
    /\ orphans = {}
    /\ faults = 0

-----------------------------------------------------------------------------
(* The host half.                                                          *)

\* A reconcile runs one step at a time and, unless Overlap, only when the
\* attach of the previous one has ended.
ReconcileMay == vm # "gone" /\ call = NoCall /\ (Overlap \/ attach = {})

\* ExportWorkspace: record the mount and a fresh port; a VM in the pod's own
\* netns serves it at once, a packed one when its netns is up.
ExportWorkspace(m) ==
    /\ ReconcileMay
    /\ fuse[m] = 0
    /\ nextFusePort <= MaxExports
    /\ fuse' = [fuse EXCEPT ![m] = nextFusePort]
    /\ nextFusePort' = nextFusePort + 1
    /\ IF packed
       THEN UNCHANGED <<fuseCancel, listening>>
       ELSE /\ fuseCancel' = [fuseCancel EXCEPT ![m] = nextFusePort]
            /\ listening' = listening \cup {nextFusePort}
    /\ dirty' = (vm = "up")
    /\ attached' = FALSE
    /\ UNCHANGED <<packed, haveSnapshot, vm, pendingUnmount, call, attach, faults>>
    /\ UNCHANGED inGuest

\* UnexportWorkspace: stop the server, drop the entry, queue the guest umount.
UnexportWorkspace(m) ==
    /\ ReconcileMay
    /\ vm = "up"
    /\ fuse[m] # 0
    /\ listening' = listening \ {fuseCancel[m]}
    /\ fuseCancel' = [fuseCancel EXCEPT ![m] = 0]
    /\ fuse' = [fuse EXCEPT ![m] = 0]
    /\ pendingUnmount' = pendingUnmount \cup {m}
    /\ wsProxies' = IF wsProxies[m] = "live" THEN [wsProxies EXCEPT ![m] = "dead"] ELSE wsProxies
    /\ dirty' = TRUE
    /\ attached' = FALSE
    /\ UNCHANGED <<packed, haveSnapshot, vm, nextFusePort, call, attach, depth,
                   fileMounts, guestEnv, guestAddr, launched, behind, crossed,
                   orphans, faults>>

\* The exports bindWorkspaceListeners finds without a server.
Unserved == {m \in Exported : fuseCancel[m] = 0}

\* A cold boot: BindWorkspaces, then the guest's bootstrap and main mount what
\* the params drive lists, each mount best-effort, and apply the environment.
ColdBoot ==
    /\ ~haveSnapshot
    /\ vm = "off"
    /\ vm' = "up"
    /\ fuseCancel' = fuse
    /\ listening' = {fuse[m] : m \in Exported}
    /\ \E ok \in SUBSET Exported :
         /\ faults + Cardinality(Exported \ ok) <= MaxFaults
         /\ faults' = faults + Cardinality(Exported \ ok)
         /\ depth' = [m \in Mounts |-> IF m \in ok THEN 1 ELSE 0]
         /\ wsProxies' = [m \in Mounts |-> IF m \in ok THEN "live" ELSE "none"]
         /\ attached' = (ok = Exported)
    /\ fileMounts' = Exported
    /\ guestEnv' = TRUE
    /\ UNCHANGED <<packed, haveSnapshot, fuse, nextFusePort, pendingUnmount,
                   dirty, call, attach, guestAddr, launched, behind, crossed, orphans>>

\* bootstrap fails on a step that is not best-effort (the metadata drive, the
\* overlay root, the network): the agent exits and the guest with it.
BootFails ==
    /\ ~haveSnapshot
    /\ vm = "off"
    /\ faults < MaxFaults
    /\ faults' = faults + 1
    /\ vm' = "gone"
    /\ UNCHANGED <<packed, haveSnapshot, dirty, call, attach, attached>>
    /\ UNCHANGED hostVars /\ UNCHANGED inGuest

\* A resume: the guest comes back with the workspaces the snapshot had
\* mounted, their host connections gone, whether the config it resumes with
\* has them or not; the state it lacks is applied next.
ResumeVM ==
    /\ haveSnapshot
    /\ vm = "off"
    /\ vm' = "up"
    /\ \E baked \in SUBSET Mounts :
         /\ orphans' = baked \ Exported
         /\ depth' = [m \in Mounts |-> IF m \in baked THEN 1 ELSE 0]
         /\ wsProxies' = [m \in Mounts |-> IF m \in baked THEN "dead" ELSE "none"]
         /\ fileMounts' = baked
    /\ dirty' = TRUE
    /\ UNCHANGED <<packed, haveSnapshot, call, attach, attached, guestEnv,
                   guestAddr, launched, behind, crossed, faults>>
    /\ UNCHANGED hostVars

\* ApplyResumeState, its first critical section: the exports and the queued
\* unmounts are copied, and the control phase runs if there is anything to
\* send or the VM was resumed. The first call after a resume attaches
\* synchronously and may carry an entrypoint override.
ApplyResumeState ==
    /\ vm = "up" /\ dirty
    /\ call = NoCall
    /\ Overlap \/ attach = {}
    /\ \E env, entry \in BOOLEAN :
         LET first == haveSnapshot /\ guestAddr # "own"
             send == env \/ pendingUnmount # {} \/ entry \/ haveSnapshot IN
         /\ entry => first
         /\ call' = [pc |-> IF send THEN "control" ELSE "attach",
                     env |-> env, entry |-> entry, unmounts |-> pendingUnmount,
                     fuse |-> fuse, sync |-> first]
    /\ dirty' = FALSE
    /\ UNCHANGED <<packed, haveSnapshot, vm, attach, attached, faults>>
    /\ UNCHANGED hostVars /\ UNCHANGED inGuest

\* After the ack (or without a control phase) the workspaces are attached,
\* inline on the first call and by a goroutine later.
StartAttach ==
    /\ call.pc = "attach"
    /\ LET want == {m \in Mounts : call.fuse[m] # 0} IN
         IF want = {}
         THEN attached' = TRUE /\ UNCHANGED attach
         ELSE /\ attach' = attach \cup {[pc |-> "bind", todo |-> {}, fuse |-> call.fuse,
                                         reconnect |-> call.sync]}
              /\ UNCHANGED attached
    /\ call' = IF call.sync /\ call.fuse # [m \in Mounts |-> 0]
               THEN [call EXCEPT !.pc = "wait"] ELSE NoCall
    /\ UNCHANGED <<packed, haveSnapshot, vm, dirty, faults>>
    /\ UNCHANGED hostVars /\ UNCHANGED inGuest

-----------------------------------------------------------------------------
(* The guest half: one control RPC as handleControl applies it.            *)

\* unmountWorkspaces: one umount of each path that is a 9p mount; the proxy
\* ends when the kernel closes its transport.
Unmounted(d, S) == [m \in Mounts |-> IF m \in S /\ d[m] > 0 THEN d[m] - 1 ELSE d[m]]

ProxyAfterUnmount(S) ==
    [m \in Mounts |-> IF m \in S /\ Mounted(m) THEN "none" ELSE wsProxies[m]]

\* startResumeWorkload launches the override once per agent lifetime.
StartResumeWorkload(entry) ==
    launched' = IF entry /\ launched = 0 THEN 1 ELSE launched

\* applyWorkloadEnv, idempotent.
ApplyWorkloadEnv(env) == guestEnv' = (guestEnv \/ env)

\* reconfigureEth0: what is already right is left alone; else the old address
\* is flushed, the own one added, then route and resolver; an error stops it.
ReconfigureEth0(ok) ==
    IF ok \/ guestAddr = "own"
    THEN guestAddr' = "own"
    ELSE guestAddr' \in {guestAddr, "flushed", "added"}

\* handleControl on the request of the control phase: the environment, then
\* eth0 (on failure nothing after it happens and the answer is not OK), then
\* the override, then the unmounts.
HandleControl(reip, S) ==
    /\ ApplyWorkloadEnv(call.env)
    /\ ReconfigureEth0(reip)
    /\ IF reip
       THEN /\ StartResumeWorkload(call.entry)
            /\ depth' = Unmounted(depth, S)
            /\ wsProxies' = ProxyAfterUnmount(S)
       ELSE UNCHANGED <<launched, depth, wsProxies>>
    /\ UNCHANGED fileMounts

\* A handler that is still at work when the host gives its attempt up
\* (controlAttemptTimeout): what it has yet to do, and how far it is.
Handler(kind, step, S, f, entry) ==
    [id |-> faults, kind |-> kind, step |-> step, todo |-> S, at |-> {},
     fuse |-> [m \in Mounts |-> IF m \in S THEN f[m] ELSE 0], entry |-> entry]

\* The handler of the attempt that fails has ended, or it goes on as h.
LeavesBehind(h) ==
    \/ UNCHANGED behind
    \/ /\ h.step = "eth0" \/ h.todo # {}
       /\ Cardinality(behind) < MaxBehind
       /\ behind' = behind \cup {h}

\* applyControlRetry with applyResumeOnce: the attempt is acked.
ControlAcked ==
    /\ vm = "up"
    /\ call.pc = "control"
    /\ HandleControl(TRUE, call.unmounts)
    /\ pendingUnmount' = pendingUnmount \ call.unmounts   \* clearPendingUnmount
    /\ call' = [call EXCEPT !.pc = "attach"]
    /\ orphans' = orphans \ call.unmounts
    /\ UNCHANGED <<packed, haveSnapshot, vm, fuse, nextFusePort, fuseCancel,
                   listening, dirty, attach, attached, behind, crossed, faults>>

\* The attempt fails and is re-driven: it never reached the guest; the guest
\* applied it only in part and said so, or the answer was lost; or its handler
\* is left behind at eth0 or among the unmounts.
ControlFails ==
    /\ vm = "up"
    /\ call.pc = "control"
    /\ faults < MaxFaults
    /\ \/ UNCHANGED inGuest
       \/ \E reip \in BOOLEAN, S \in SUBSET call.unmounts :
            /\ HandleControl(reip, S)
            /\ LeavesBehind(Handler("umount", IF reip THEN "next" ELSE "eth0",
                                    call.unmounts \ S, call.fuse, call.entry))
            /\ UNCHANGED <<crossed, orphans>>
    /\ faults' = faults + 1
    /\ UNCHANGED <<packed, haveSnapshot, vm, dirty, call, attach, attached>>
    /\ UNCHANGED hostVars

\* mountWorkspaceProxied: a proxy to the host listener, then mount(2) over it;
\* a failure of either takes the other back.
MountWorkspaceProxied(S) ==
    /\ depth' = [m \in Mounts |-> IF m \in S THEN depth[m] + 1 ELSE depth[m]]
    /\ wsProxies' = [m \in Mounts |-> IF m \in S THEN "live" ELSE wsProxies[m]]

\* addFileWorkspaceMount, for every entry of the request.
AddFileWorkspaceMount(f) == fileMounts' = fileMounts \cup {m \in Mounts : f[m] # 0}

\* Mutant: the is9pMounted check is missing.
MountWorkspaces_Stacks(f, S) ==
    /\ MountWorkspaceProxied(S)
    /\ AddFileWorkspaceMount(f)

\* mountWorkspaces: a path already mounted is skipped; the others are mounted
\* over a fresh proxy if their port answers.
MountWorkspaces(f, S) ==
    /\ MountWorkspaceProxied({m \in S : ~Mounted(m)})
    /\ AddFileWorkspaceMount(f)

\* reconnectWorkspaces: a path with a proxy gets its host connection
\* replaced; one without is mounted afresh.
ReconnectWorkspaces(f, S) ==
    /\ depth' = [m \in Mounts |->
          IF m \in S /\ wsProxies[m] = "none" THEN depth[m] + 1 ELSE depth[m]]
    /\ wsProxies' = [m \in Mounts |-> IF m \in S THEN "live" ELSE wsProxies[m]]
    /\ AddFileWorkspaceMount(f)

\* Whether the guest can bring path m of request f to the wanted state: its
\* port answers, or there is nothing to do.
Reachable(a, m) ==
    \/ a.fuse[m] \in listening
    \/ ~a.reconnect /\ Mounted(m)

-----------------------------------------------------------------------------
(* bindAndAttach.                                                          *)

\* bindWorkspaceListeners collects the unserved exports under the lock.
BindCollect(a) ==
    /\ vm = "up"
    /\ a.pc = "bind"
    /\ attach' = (attach \ {a}) \cup
         {[a EXCEPT !.pc = IF Unserved = {} THEN "rpc" ELSE "serve",
                    !.todo = {<<m, fuse[m]>> : m \in Unserved}]}
    /\ UNCHANGED <<packed, haveSnapshot, vm, dirty, call, attached, faults>>
    /\ UNCHANGED hostVars /\ UNCHANGED inGuest

\* serveFuse listens and records the cancel function, one export at a time.
ServeFuse(a) ==
    /\ vm = "up"
    /\ a.pc = "serve"
    /\ \E p \in a.todo :
         /\ p[2] \notin listening
         /\ listening' = listening \cup {p[2]}
         /\ fuseCancel' = [fuseCancel EXCEPT ![p[1]] = p[2]]
         /\ attach' = (attach \ {a}) \cup
              {[a EXCEPT !.pc = IF a.todo = {p} THEN "rpc" ELSE "serve", !.todo = @ \ {p}]}
    /\ UNCHANGED <<packed, haveSnapshot, vm, fuse, nextFusePort, pendingUnmount,
                   dirty, call, attached, faults>>
    /\ UNCHANGED inGuest

\* The call that waited for a synchronous attach returns with it.
CallReturns(a) == IF a.reconnect THEN call' = NoCall ELSE UNCHANGED call

\* listenTCPInNetns fails: the attach ends with an error that is only logged,
\* or fails the initial apply and with it the sandbox.
ServeFails(a) ==
    /\ vm = "up"
    /\ a.pc = "serve"
    /\ \/ faults < MaxFaults /\ faults' = faults + 1
       \/ (\E p \in a.todo : p[2] \in listening) /\ UNCHANGED faults
    /\ attach' = attach \ {a}
    /\ CallReturns(a)
    /\ vm' = IF a.reconnect THEN "gone" ELSE vm
    /\ UNCHANGED <<packed, haveSnapshot, dirty, attached>>
    /\ UNCHANGED hostVars /\ UNCHANGED inGuest

\* The workspace RPC: the guest works through the list and mounts or
\* reconnects some of it. Nothing but a handler left behind can come between
\* its check of a path and its mount, and that one's steps are its own.
AttachRPC(a, S) ==
    /\ IF a.reconnect THEN ReconnectWorkspaces(a.fuse, S) ELSE MountWorkspaces(a.fuse, S)
    /\ UNCHANGED <<guestEnv, guestAddr, launched>>

AttachAcked(a) ==
    /\ vm = "up"
    /\ a.pc = "rpc"
    /\ LET want == {m \in Mounts : a.fuse[m] # 0} IN
         /\ \A m \in want : Reachable(a, m)
         /\ AttachRPC(a, want)
    /\ attach' = attach \ {a}
    /\ attached' = TRUE
    /\ CallReturns(a)
    /\ UNCHANGED <<packed, haveSnapshot, vm, dirty, behind, crossed, orphans, faults>>
    /\ UNCHANGED hostVars

\* The attempt fails and is re-driven, after any part of it took effect; the
\* rest may be left to a handler that goes on with it.
AttachFails(a) ==
    /\ vm = "up"
    /\ a.pc = "rpc"
    /\ faults < MaxFaults
    /\ \E S \in SUBSET {m \in Mounts : a.fuse[m] # 0 /\ Reachable(a, m)} :
         /\ AttachRPC(a, S)
         /\ LeavesBehind(Handler(IF a.reconnect THEN "reconnect" ELSE "mount", "next",
                                 {m \in Mounts : a.fuse[m] # 0} \ S, a.fuse, FALSE))
    /\ faults' = faults + 1
    /\ UNCHANGED <<packed, haveSnapshot, vm, dirty, call, attach, attached, crossed, orphans>>
    /\ UNCHANGED hostVars

-----------------------------------------------------------------------------
(* Handlers left behind: each check of theirs and what follows from it are *)
(* steps of their own.                                                     *)

\* The handlers once h has become next; one with nothing left to do ends.
Going(h, next) ==
    (behind \ {h}) \cup (IF next.step = "next" /\ next.todo = {} THEN {} ELSE {next})

\* reconfigureEth0 and what handleControl does before the unmounts; an error
\* ends the handler.
HandlerEth0(h) ==
    /\ vm = "up"
    /\ h.step = "eth0"
    /\ \E ok \in BOOLEAN :
         /\ ReconfigureEth0(ok)
         /\ IF ok
            THEN StartResumeWorkload(h.entry) /\ behind' = Going(h, [h EXCEPT !.step = "next"])
            ELSE UNCHANGED launched /\ behind' = behind \ {h}
    /\ crossed' = (crossed \/ guestAddr' # guestAddr)
    /\ UNCHANGED <<packed, haveSnapshot, vm, dirty, call, attach, attached, depth,
                   wsProxies, fileMounts, guestEnv, orphans, faults>>
    /\ UNCHANGED hostVars

\* The next path of the list: is9pMounted (or the map of proxies) says whether
\* there is anything to do.
HandlerChecks(h) ==
    /\ vm = "up"
    /\ h.step = "next"
    /\ \E m \in h.todo :
         LET step == CASE h.kind = "umount" -> IF Mounted(m) THEN "umount" ELSE "next"
                       [] h.kind = "mount" -> IF Mounted(m) THEN "next" ELSE "mount"
                       [] h.kind = "reconnect" -> IF wsProxies[m] = "none" THEN "mount" ELSE "reconnect" IN
         /\ behind' = Going(h, [h EXCEPT !.step = step, !.todo = @ \ {m},
                                         !.at = IF step = "next" THEN {} ELSE {m}])
         /\ fileMounts' = IF h.kind = "umount" THEN fileMounts ELSE fileMounts \cup {m}
    /\ UNCHANGED <<packed, haveSnapshot, vm, dirty, call, attach, attached, depth,
                   wsProxies, guestEnv, guestAddr, launched, crossed, orphans, faults>>
    /\ UNCHANGED hostVars

\* umount(2), or a dial of the host and then mount(2) or the proxy's Reconnect;
\* a port nobody listens on any more is an error, and the list goes on.
HandlerActs(h) ==
    /\ vm = "up"
    /\ h.step \in {"umount", "mount", "reconnect"}
    /\ \E m \in h.at :
         IF h.step = "umount"
         THEN depth' = Unmounted(depth, {m}) /\ wsProxies' = ProxyAfterUnmount({m})
         ELSE IF h.fuse[m] \notin listening
         THEN UNCHANGED <<depth, wsProxies>>
         ELSE /\ depth' = IF h.step = "mount" THEN [depth EXCEPT ![m] = @ + 1] ELSE depth
              /\ wsProxies' = [wsProxies EXCEPT ![m] = "live"]
    /\ behind' = Going(h, [h EXCEPT !.step = "next", !.at = {}])
    /\ crossed' = TRUE
    /\ UNCHANGED <<packed, haveSnapshot, vm, dirty, call, attach, attached,
                   fileMounts, guestEnv, guestAddr, launched, orphans, faults>>
    /\ UNCHANGED hostVars

-----------------------------------------------------------------------------

\* The workload (or the override) exits and powers the guest off, or the VMM
\* dies: the context of every call is cancelled.
VMExit ==
    /\ vm = "up"
    /\ vm' = "gone"
    /\ call' = NoCall
    /\ attach' = {}
    /\ behind' = {}
    /\ UNCHANGED <<packed, haveSnapshot, dirty, attached, faults, depth, wsProxies, fileMounts,
                   guestEnv, guestAddr, launched, crossed, orphans>>
    /\ UNCHANGED hostVars

GuestNext ==
    \/ \E m \in Mounts : ExportWorkspace(m) \/ UnexportWorkspace(m)
    \/ ColdBoot
    \/ BootFails
    \/ ResumeVM
    \/ ApplyResumeState
    \/ StartAttach
    \/ ControlAcked
    \/ ControlFails
    \/ \E a \in attach : BindCollect(a) \/ ServeFuse(a) \/ ServeFails(a)
    \/ \E a \in attach : AttachAcked(a) \/ AttachFails(a)
    \/ \E h \in behind : HandlerEth0(h) \/ HandlerChecks(h) \/ HandlerActs(h)
    \/ VMExit

GuestSpec == GuestInit /\ [][GuestNext]_guestVars

-----------------------------------------------------------------------------
\* Nothing is being applied and nothing waits to be.
AtRest == vm = "up" /\ ~dirty /\ call = NoCall /\ attach = {} /\ attached

\* Once an apply has been acked, whatever was lost, repeated or applied in
\* part on the way: every exported workspace is mounted exactly once in the
\* guest, over a live connection to a bound listener, nothing else is
\* mounted and no umount is owed, up to a workspace only the snapshot knew and
\* until a handler of an attempt given up mounts or unmounts something beside
\* its retry; and the override was launched at most once and only in a guest
\* that has taken its own address.
WorkspacesAttached ==
    /\ AtRest =>
         /\ pendingUnmount = {}
         /\ \A m \in Exported : fuseCancel[m] = fuse[m] /\ fuse[m] \in listening
    /\ AtRest /\ ~crossed =>
         \A m \in Mounts \ orphans :
              /\ depth[m] = IF m \in Exported THEN 1 ELSE 0
              /\ m \in Exported => wsProxies[m] = "live" /\ m \in fileMounts
    /\ launched <= 1
    /\ launched = 1 => guestAddr = "own"
=============================================================================

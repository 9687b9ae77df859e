---------------------------- MODULE MountControl ----------------------------
(***************************************************************************)
(* The workspaces of one key: the mount manager of each sandbox the key    *)
(* has had (internal/sandboxd/mounts.go, reconciler.go), the control       *)
(* channel to the pod's one sbxfuse process (fusecontrol.go), and that     *)
(* process's command loop (cmd/sbxfuse/main.go).                           *)
(*                                                                         *)
(* Sandboxes of the key follow one another and use the same host paths.    *)
(* Two actors work for each: the reconciler (createPacked, then the config *)
(* watcher) and the teardown.  A desired config gives each path the        *)
(* version of its ACL, 0 for a path that is not in it.                     *)
(***************************************************************************)
EXTENDS Integers, Sequences

CONSTANTS
  Paths,       \* host mount points of the key's workspaces
  MaxBox,      \* bound on the sandboxes of the key
  MaxAcl,      \* ACL versions
  MaxApplies,  \* bound on the reconciles of a sandbox after the first
  Worlds       \* the settings a behaviour may have, see World

\* The bounds of a behaviour, and what may go wrong in it.
World ==
  [paths : SUBSET Paths, boxes : 1..MaxBox, acls : 1..MaxAcl, applies : 0..MaxApplies,
   lapse : BOOLEAN,        \* may a bounded wait for a drain ack run out?
   createFails : BOOLEAN,  \* may a create fail after its workspaces are up?
   overtaken : BOOLEAN]    \* may a teardown overtake a reconcile under way?

ASSUME BoundAssumption == 
  {MaxBox, MaxAcl} \subseteq Nat \ {0} /\ MaxApplies \in Nat /\ Paths # {}
ASSUME WorldAssumption == Worlds \subseteq World

VARIABLES
  world,     \* the setting of this behaviour, which no step changes
  phase,     \* of each sandbox: new, creating, up, ending, gone, failed
  applies,   \* reconciles each sandbox's watcher has run
  live,      \* mountManager.live
  want,      \* the desired config of the reconcile under way, or the last
  todo,      \* per actor, the paths still to remove, keep and add
  pc, at,    \* where each actor is, and the path it is at
  failing,   \* is its unmount that of a start that failed?
  acked,     \* has the channel its Unmount waits on been closed?
  target,    \* what its unmount command hit: Unseen, None or a server
  waiters,   \* fuseControl.waiters: path -> actor, or NoActor
  reg,       \* sharedFuseTranslator.mounts: path -> sandbox, or 0
  aclFile,   \* the ACL file of each path, 0 when there is none
  cmds,      \* the command pipe
  acks,      \* the drain acks on the event stream
  mounts,    \* sbxfuse's map: path -> server, or None
  servers,   \* the servers started: path, sandbox, ACL, state
  stack      \* the FUSE mounts at each path, the visible one last

mgrVars  == <<phase, applies, live, want, todo>>
actVars  == <<pc, at, failing>>
fuseVars == <<mounts, servers, stack>>
mountVars == <<mgrVars, actVars, acked, target, waiters, reg, aclFile, cmds, acks, fuseVars>>
vars == <<world, mountVars>>

Boxes  == 1..MaxBox
Actors == Boxes \X {"rec", "td"}
Rec(b) == <<b, "rec">>
Td(b)  == <<b, "td">>
NoActor == <<0, "none">>
None    == 0
Unseen  == -1
Nothing == [remove |-> {}, keep |-> {}, add |-> {}]

Init ==
  /\ world \in Worlds
  /\ phase = [b \in Boxes |-> "new"]
  /\ applies = [b \in Boxes |-> 0]
  /\ live = [b \in Boxes |-> {}]
  /\ want = [b \in Boxes |-> [p \in Paths |-> 0]]
  /\ todo = [a \in Actors |-> Nothing]
  /\ pc = [a \in Actors |-> "idle"]
  /\ at = [a \in Actors |-> CHOOSE p \in Paths : TRUE]
  /\ failing = [a \in Actors |-> FALSE]
  /\ acked = [a \in Actors |-> FALSE]
  /\ target = [a \in Actors |-> None]
  /\ waiters = [p \in Paths |-> NoActor]
  /\ reg = [p \in Paths |-> 0]
  /\ aclFile = [p \in Paths |-> 0]
  /\ cmds = <<>> /\ acks = <<>>
  /\ mounts = [p \in Paths |-> None]
  /\ servers = <<>>
  /\ stack = [p \in Paths |-> <<>>]

-----------------------------------------------------------------------------
(* Reconcile: plan against the live set, then stop, re-ACL and start.      *)

planFsReconcile(b, d) ==
  [remove |-> {p \in live[b] : d[p] = 0},
   keep   |-> {p \in live[b] : d[p] # 0},
   add    |-> {p \in Paths \ live[b] : d[p] # 0}]

Begin(b, d) ==
  /\ pc[Rec(b)] = "idle"
  /\ want' = [want EXCEPT ![b] = d]
  /\ todo' = [todo EXCEPT ![Rec(b)] = planFsReconcile(b, d)]
  /\ pc' = [pc EXCEPT ![Rec(b)] = "work"]
  /\ UNCHANGED <<live, at, failing, acked, target, waiters, reg, aclFile, cmds, acks, fuseVars>>

\* createPacked; the key is free once the sandbox before has gone.
CreatePacked(b, d) ==
  /\ b <= world.boxes /\ phase[b] = "new"
  /\ b > 1 => phase[b - 1] \in {"gone", "failed"}
  /\ phase' = [phase EXCEPT ![b] = "creating"]
  /\ Begin(b, d)
  /\ UNCHANGED applies

\* The config watcher, which may take an event after the sandbox was ended.
Reapply(b, d) ==
  /\ phase[b] = "up" \/ (world.overtaken /\ phase[b] \in {"ending", "gone"})
  /\ applies[b] < world.applies
  /\ applies' = [applies EXCEPT ![b] = applies[b] + 1]
  /\ Begin(b, d)
  /\ UNCHANGED phase

\* Steps that make a create fail are left out when the setting rules them out.
MayFail(b) == world.createFails \/ phase[b] # "creating"

\* The reconcile is through.  A create with a mount missing, or failing later
\* on, is given up as it stands; otherwise the sandbox is up.
Finish(b, ok) ==
  /\ pc[Rec(b)] = "work" /\ todo[Rec(b)] = Nothing
  /\ pc' = [pc EXCEPT ![Rec(b)] = "idle"]
  /\ \/ phase[b] = "creating" /\ ok /\ live[b] = {p \in Paths : want[b][p] # 0}
        /\ phase' = [phase EXCEPT ![b] = "up"]
     \/ phase[b] = "creating" /\ ~ok /\ MayFail(b)
        /\ phase' = [phase EXCEPT ![b] = "failed"]
     \/ phase[b] # "creating" /\ ok /\ UNCHANGED phase
  /\ UNCHANGED <<applies, live, want, todo, at, failing, acked, target, waiters, reg, aclFile, cmds,
                 acks, fuseVars>>

\* reACL: rewrite the file, tell sbxfuse to read it; nothing if it is not live.
ReACL(b, p) ==
  /\ pc[Rec(b)] = "work" /\ todo[Rec(b)].remove = {}
  /\ p \in todo[Rec(b)].keep
  /\ todo' = [todo EXCEPT ![Rec(b)].keep = @ \ {p}]
  /\ \/ /\ p \in live[b]
        /\ aclFile' = [aclFile EXCEPT ![p] = want[b][p]]
        /\ cmds' = Append(cmds, [op |-> "reacl", path |-> p, by |-> Rec(b)])
     \/ p \notin live[b] /\ UNCHANGED <<aclFile, cmds>>
  /\ UNCHANGED <<phase, applies, live, want, actVars, acked, target, waiters, reg, acks, fuseVars>>

\* start: write the ACLs, register with the translator, issue the mount.
StartMount(b, p) ==
  /\ pc[Rec(b)] = "work" /\ todo[Rec(b)].remove = {} /\ todo[Rec(b)].keep = {}
  /\ p \in todo[Rec(b)].add
  /\ todo' = [todo EXCEPT ![Rec(b)].add = @ \ {p}]
  /\ aclFile' = [aclFile EXCEPT ![p] = want[b][p]]
  /\ reg' = [reg EXCEPT ![p] = b]
  /\ cmds' = Append(cmds, [op |-> "mount", path |-> p, by |-> Rec(b)])
  /\ pc' = [pc EXCEPT ![Rec(b)] = "waitMount"]
  /\ at' = [at EXCEPT ![Rec(b)] = p]
  /\ UNCHANGED <<phase, applies, live, want, failing, acked, target, waiters, acks, fuseVars>>

\* waitForMountReady sees a FUSE mount before the sandbox is cancelled.
MountSeen(b) ==
  /\ pc[Rec(b)] = "waitMount" /\ stack[at[Rec(b)]] # <<>>
  /\ phase[b] \notin {"ending", "gone"}
  /\ pc' = [pc EXCEPT ![Rec(b)] = "export"]
  /\ UNCHANGED <<mgrVars, at, failing, acked, target, waiters, reg, aclFile, cmds, acks, fuseVars>>

\* The workspace is exported to the workload and recorded as live.
Exported(b) ==
  /\ pc[Rec(b)] = "export"
  /\ live' = [live EXCEPT ![b] = live[b] \union {at[Rec(b)]}]
  /\ pc' = [pc EXCEPT ![Rec(b)] = "work"]
  /\ UNCHANGED <<phase, applies, want, todo, at, failing, acked, target, waiters, reg, aclFile, cmds,
                 acks, fuseVars>>

\* Either gives up, on a timeout or an error: the mount is taken back.
MountFailed(b) ==
  /\ pc[Rec(b)] \in {"waitMount", "export"} /\ MayFail(b)
  /\ pc' = [pc EXCEPT ![Rec(b)] = "unmount"]
  /\ failing' = [failing EXCEPT ![Rec(b)] = TRUE]
  /\ UNCHANGED <<mgrVars, at, acked, target, waiters, reg, aclFile, cmds, acks, fuseVars>>

-----------------------------------------------------------------------------
(* stop and stopAll.  The live entry is removed first, so that a path is   *)
(* stopped once.                                                           *)

StopPath(a, p) ==
  LET b == a[1] IN
  /\ pc[a] = "work" /\ p \in todo[a].remove
  /\ todo' = [todo EXCEPT ![a].remove = @ \ {p}]
  /\ \/ /\ p \in live[b]
        /\ live' = [live EXCEPT ![b] = live[b] \ {p}]
        /\ pc' = [pc EXCEPT ![a] = "unmount"]
        /\ at' = [at EXCEPT ![a] = p]
        /\ failing' = [failing EXCEPT ![a] = FALSE]
     \/ p \notin live[b] /\ UNCHANGED <<live, actVars>>
  /\ UNCHANGED <<phase, applies, want, acked, target, waiters, reg, aclFile, cmds, acks, fuseVars>>

\* fuseControl.Unmount: register the waiter, then send.
SendUnmount(a) ==
  /\ pc[a] = "unmount"
  /\ waiters' = [waiters EXCEPT ![at[a]] = a]
  /\ acked' = [acked EXCEPT ![a] = FALSE]
  /\ target' = [target EXCEPT ![a] = Unseen]
  /\ cmds' = Append(cmds, [op |-> "unmount", path |-> at[a], by |-> a])
  /\ pc' = [pc EXCEPT ![a] = "wait"]
  /\ UNCHANGED <<mgrVars, at, failing, reg, aclFile, acks, fuseVars>>

Acked(a) ==
  /\ pc[a] = "wait" /\ acked[a]
  /\ pc' = [pc EXCEPT ![a] = "unregister"]
  /\ UNCHANGED <<mgrVars, at, failing, acked, target, waiters, reg, aclFile, cmds, acks, fuseVars>>

\* unmountAckTimeout: clearWaiter, and go on.
AckLapses(a) ==
  /\ world.lapse
  /\ pc[a] = "wait"
  /\ waiters' = [waiters EXCEPT ![at[a]] = NoActor]
  /\ pc' = [pc EXCEPT ![a] = "unregister"]
  /\ UNCHANGED <<mgrVars, at, failing, acked, target, reg, aclFile, cmds, acks, fuseVars>>

\* stop also removes the ACL file; a failed start leaves it.
Unregister(a) ==
  /\ pc[a] = "unregister"
  /\ reg' = [reg EXCEPT ![at[a]] = 0]
  /\ aclFile' = IF failing[a] THEN aclFile ELSE [aclFile EXCEPT ![at[a]] = 0]
  /\ pc' = [pc EXCEPT ![a] = "work"]
  /\ UNCHANGED <<mgrVars, at, failing, acked, target, waiters, cmds, acks, fuseVars>>

\* The sandbox is cancelled: DELETE, TTL or the workload's exit.
End(b) ==
  /\ phase[b] = "up"
  /\ world.overtaken \/ pc[Rec(b)] = "idle"
  /\ phase' = [phase EXCEPT ![b] = "ending"]
  /\ UNCHANGED <<applies, live, want, todo, actVars, acked, target, waiters, reg, aclFile, cmds, acks,
                 fuseVars>>

StopAll(b) ==
  /\ phase[b] = "ending" /\ pc[Td(b)] = "idle"
  /\ todo' = [todo EXCEPT ![Td(b)].remove = live[b]]
  /\ pc' = [pc EXCEPT ![Td(b)] = "work"]
  /\ UNCHANGED <<phase, applies, live, want, at, failing, acked, target, waiters, reg, aclFile, cmds,
                 acks, fuseVars>>

\* clearStaleMount(keyRoot) detaches what is left; then the key is free.
ClearTree(b) ==
  /\ phase[b] = "ending" /\ pc[Td(b)] = "work" /\ todo[Td(b)] = Nothing
  /\ stack' = [p \in Paths |-> <<>>]
  /\ aclFile' = [p \in Paths |-> 0]
  /\ pc' = [pc EXCEPT ![Td(b)] = "idle"]
  /\ phase' = [phase EXCEPT ![b] = "gone"]
  /\ UNCHANGED <<applies, live, want, todo, at, failing, acked, target, waiters, reg, cmds, acks,
                 mounts, servers>>

\* onEvent: an ack releases whoever waits on its path.
TakeAck ==
  LET p == Head(acks) IN
  /\ acks # <<>>
  /\ acks' = Tail(acks)
  /\ acked' = IF waiters[p] = NoActor THEN acked ELSE [acked EXCEPT ![waiters[p]] = TRUE]
  /\ waiters' = [waiters EXCEPT ![p] = NoActor]
  /\ UNCHANGED <<mgrVars, actVars, target, reg, aclFile, cmds, fuseVars>>

-----------------------------------------------------------------------------
(* sbxfuse.                                                                *)

\* The mount command; it fails without an ACL file, or on a bad backend.
CmdMount ==
  LET c == Head(cmds) IN
  /\ cmds # <<>> /\ c.op = "mount"
  /\ cmds' = Tail(cmds)
  /\ \/ /\ aclFile[c.path] # 0
        /\ servers' = Append(servers, [path |-> c.path, box |-> c.by[1], acl |-> aclFile[c.path],
                                       st |-> "serving"])
        /\ mounts' = [mounts EXCEPT ![c.path] = Len(servers) + 1]
        /\ stack' = [stack EXCEPT ![c.path] = Append(@, Len(servers) + 1)]
     \/ MayFail(c.by[1]) /\ UNCHANGED fuseVars
  /\ UNCHANGED <<mgrVars, actVars, acked, target, waiters, reg, aclFile, acks>>

\* Faulty variant: the ack does not wait for the drain.
CmdUnmount_AckNow ==
  LET c == Head(cmds)
      i == mounts[c.path] IN
  /\ cmds # <<>> /\ c.op = "unmount"
  /\ cmds' = Tail(cmds)
  /\ mounts' = [mounts EXCEPT ![c.path] = None]
  /\ target' = [target EXCEPT ![c.by] = i]
  /\ servers' = IF i = None THEN servers ELSE [servers EXCEPT ![i].st = "cancelled"]
  /\ acks' = Append(acks, c.path)
  /\ UNCHANGED <<mgrVars, actVars, acked, waiters, reg, aclFile, stack>>

\* Faulty variant: a path that is not mounted is not acknowledged.
CmdUnmount_OnlyKnown ==
  LET c == Head(cmds)
      i == mounts[c.path] IN
  /\ cmds # <<>> /\ c.op = "unmount"
  /\ cmds' = Tail(cmds)
  /\ mounts' = [mounts EXCEPT ![c.path] = None]
  /\ target' = [target EXCEPT ![c.by] = i]
  /\ servers' = IF i = None THEN servers ELSE [servers EXCEPT ![i].st = "cancelled"]
  /\ UNCHANGED <<mgrVars, actVars, acked, waiters, reg, aclFile, acks, stack>>

\* The server is cancelled, and acknowledged when it has drained; a path that
\* is not mounted is acknowledged at once.
CmdUnmount ==
  LET c == Head(cmds)
      i == mounts[c.path] IN
  /\ cmds # <<>> /\ c.op = "unmount"
  /\ cmds' = Tail(cmds)
  /\ mounts' = [mounts EXCEPT ![c.path] = None]
  /\ target' = [target EXCEPT ![c.by] = i]
  /\ \/ /\ i # None
        /\ servers' = [servers EXCEPT ![i].st = "cancelled"]
        /\ UNCHANGED acks
     \/ /\ i = None
        /\ acks' = Append(acks, c.path)
        /\ UNCHANGED servers
  /\ UNCHANGED <<mgrVars, actVars, acked, waiters, reg, aclFile, stack>>

\* Faulty variant: reacl does nothing.
CmdReACL_Ignore ==
  /\ cmds # <<>> /\ Head(cmds).op = "reacl"
  /\ cmds' = Tail(cmds)
  /\ UNCHANGED <<mgrVars, actVars, acked, target, waiters, reg, aclFile, acks, fuseVars>>

\* reacl: unknown mounts and unreadable files leave the rules as they are.
CmdReACL ==
  LET p == Head(cmds).path IN
  /\ cmds # <<>> /\ Head(cmds).op = "reacl"
  /\ cmds' = Tail(cmds)
  /\ servers' = IF mounts[p] = None \/ aclFile[p] = 0 THEN servers
                ELSE [servers EXCEPT ![mounts[p]].acl = aclFile[p]]
  /\ UNCHANGED <<mgrVars, actVars, acked, target, waiters, reg, aclFile, acks, mounts, stack>>

\* Server.Unmount of a cancelled server detaches the mount visible at its path.
Detach(i) ==
  LET p == servers[i].path IN
  /\ servers[i].st = "cancelled"
  /\ servers' = [servers EXCEPT ![i].st = "draining"]
  /\ stack' = [stack EXCEPT ![p] = IF @ = <<>> THEN @ ELSE SubSeq(@, 1, Len(@) - 1)]
  /\ UNCHANGED <<mgrVars, actVars, acked, target, waiters, reg, aclFile, cmds, acks, mounts>>

\* The oplog has drained and Serve has returned; the ack is written.
Drained(i) ==
  /\ servers[i].st = "draining"
  /\ servers' = [servers EXCEPT ![i].st = "done"]
  /\ acks' = Append(acks, servers[i].path)
  /\ UNCHANGED <<mgrVars, actVars, acked, target, waiters, reg, aclFile, cmds, mounts, stack>>

-----------------------------------------------------------------------------
Configs == {d \in [Paths -> 0..world.acls] : \A p \in Paths \ world.paths : d[p] = 0}

RecStep(b) ==
  \/ \E ok \in BOOLEAN : Finish(b, ok)
  \/ \E p \in Paths : ReACL(b, p) \/ StartMount(b, p)
  \/ MountSeen(b) \/ Exported(b) \/ MountFailed(b)

Unmounting(a) ==
  \/ \E p \in Paths : StopPath(a, p)
  \/ SendUnmount(a) \/ Acked(a) \/ Unregister(a)

Sbxfuse == CmdMount \/ CmdUnmount \/ CmdReACL \/ \E i \in DOMAIN servers : Detach(i) \/ Drained(i)

MountStep ==
  \/ \E b \in Boxes, d \in Configs : CreatePacked(b, d) \/ Reapply(b, d)
  \/ \E b \in Boxes : RecStep(b) \/ End(b) \/ StopAll(b) \/ ClearTree(b)
  \/ \E a \in Actors : Unmounting(a) \/ AckLapses(a)
  \/ TakeAck
  \/ Sbxfuse

Next == MountStep /\ UNCHANGED world

Spec == Init /\ [][Next]_vars

(* The pod's goroutines and sbxfuse run; whether a sandbox ends, or a      *)
(* config is applied, is up to its users.  The timeout of an Unmount is    *)
(* relied on only where another Unmount of the path took its place.        *)
PodRuns ==
  \/ \E b \in Boxes : RecStep(b) \/ StopAll(b) \/ ClearTree(b)
  \/ \E a \in Actors : Unmounting(a) \/ (waiters[at[a]] # a /\ AckLapses(a))
  \/ TakeAck
  \/ Sbxfuse

Fairness == WF_mountVars(PodRuns)

FairSpec == Spec /\ Fairness

-----------------------------------------------------------------------------
Phases  == {"new", "creating", "up", "ending", "gone", "failed"}
PcStates == {"idle", "work", "waitMount", "export", "unmount", "wait", "unregister"}
TodoRec == [remove : SUBSET Paths, keep : SUBSET Paths, add : SUBSET Paths]
CmdRec  == [op : {"mount", "unmount", "reacl"}, path : Paths, by : Actors]
SrvRec  == [path : Paths, box : Boxes, acl : 1..MaxAcl,
            st : {"serving", "cancelled", "draining", "done"}]

(* The state is well formed: managers, actors, waiters and sbxfuse refer to *)
(* paths, sandboxes and servers that exist.                                *)
TypeOK ==
  /\ phase \in [Boxes -> Phases]
  /\ applies \in [Boxes -> 0..MaxApplies]
  /\ live \in [Boxes -> SUBSET Paths]
  /\ want \in [Boxes -> [Paths -> 0..MaxAcl]]
  /\ todo \in [Actors -> TodoRec]
  /\ pc \in [Actors -> PcStates]
  /\ at \in [Actors -> Paths]
  /\ failing \in [Actors -> BOOLEAN] /\ acked \in [Actors -> BOOLEAN]
  /\ target \in [Actors -> {Unseen, None} \union DOMAIN servers]
  /\ waiters \in [Paths -> Actors \union {NoActor}]
  /\ reg \in [Paths -> {0} \union Boxes]
  /\ aclFile \in [Paths -> 0..MaxAcl]
  /\ cmds \in Seq(CmdRec)
  /\ acks \in Seq(Paths)
  /\ servers \in Seq(SrvRec)
  /\ mounts \in [Paths -> {None} \union DOMAIN servers]
  /\ stack \in [Paths -> Seq(DOMAIN servers)]

(* An Unmount released by an ack finds its own server drained: the ack is  *)
(* not that of an earlier unmount of the same path.  So after a teardown   *)
(* nothing of the sandbox is left in the shared sbxfuse: its servers have  *)
(* drained and its audit routes are gone.  Where no ack runs late and no   *)
(* teardown overtakes a reconcile.                                         *)
AckMeansDrained ==
  (~world.lapse /\ ~world.overtaken) =>
    /\ \A a \in Actors : (pc[a] = "wait" /\ acked[a]) =>
         /\ target[a] # Unseen
         /\ target[a] # None => servers[target[a]].st = "done"
    /\ \A b \in Boxes : phase[b] = "gone" =>
         /\ \A i \in DOMAIN servers : servers[i].box = b => servers[i].st = "done"
         /\ \A p \in Paths : reg[p] # b

Served(b, p) ==
  /\ mounts[p] # None /\ reg[p] = b
  /\ servers[mounts[p]].box = b /\ servers[mounts[p]].st = "serving"
  /\ stack[p] # <<>> /\ stack[p][Len(stack[p])] = mounts[p]

(* A live workspace of a running sandbox is served by the server that was  *)
(* started for it, which is the mount visible at the path, and its audit   *)
(* events go to this sandbox: no stop or start of another takes it away.   *)
(* Once a reconcile is through and sbxfuse has read its commands, it       *)
(* enforces the ACL version of the last config.  Where no create fails, no *)
(* ack runs late and no teardown overtakes a reconcile.                    *)
WorkspaceServed ==
  (~world.lapse /\ ~world.createFails /\ ~world.overtaken) =>
    \A b \in Boxes : \A p \in live[b] : phase[b] = "up" =>
      /\ Served(b, p)
      /\ (pc[Rec(b)] = "idle" /\ cmds = <<>>) => servers[mounts[p]].acl = want[b][p]

(* Every reconcile and every teardown comes to its end: an unmount is      *)
(* acknowledged, also one whose mount is unknown or was unmounted by a     *)
(* command that timed out.                                                 *)
ActorsFinish == []<>(\A a \in Actors : pc[a] = "idle")

=============================================================================

---------------------------- MODULE Mount_proof ----------------------------
(***************************************************************************)
(* The safety invariants of the workspace mounts: first of the control     *)
(* channel (MountControl), for any number of sandboxes of the key,         *)
(* workspaces, ACL versions and config applies; then of the filesystem of  *)
(* one mount (FuseFS), for any number of files, writes, calls and failing  *)
(* replays.                                                                *)
(*                                                                         *)
(* MountControl.  Without late acks and overtaking teardowns (Calm) one    *)
(* actor works at a time, and an unmount it waits for is a single token    *)
(* that travels from the command pipe through the server it hit to the ack *)
(* stream: this is why an ack that names only a path is the right one.     *)
(* The rest of the invariant says who a serving server belongs to, while   *)
(* the command that starts it, or stops it, is still in the pipe.          *)
(***************************************************************************)
EXTENDS MountControl, FuseFS, FiniteSetTheorems, TLAPS

Calm == ~world.lapse /\ ~world.overtaken
Busy == {"creating", "up", "ending"}

TypeInv == TypeOK /\ world \in Worlds

\* Sandboxes of the key follow one another, and the two actors of one do.
TurnInv ==
  /\ \A b, c \in Boxes : c < b /\ phase[b] # "new" => phase[c] \in {"gone", "failed"}
  /\ \A b \in Boxes : phase[b] \notin {"creating", "up"} => pc[Rec(b)] = "idle"
  /\ \A b \in Boxes : phase[b] # "ending" => pc[Td(b)] = "idle"
  /\ \A b \in Boxes : phase[b] \in {"new", "gone"} => live[b] = {}

\* The actor has a path under way that is not, or no longer, live.
Away(a) == pc[a] \in {"waitMount", "export", "unmount", "wait", "unregister"}

\* What is planned for a path agrees with whether it is live.
PlanInv ==
  /\ \A b \in Boxes : todo[Rec(b)].add \intersect live[b] = {}
  /\ \A b \in Boxes : todo[Rec(b)].remove \union todo[Rec(b)].keep \subseteq live[b]
  /\ \A b \in Boxes : todo[Rec(b)].keep \intersect todo[Rec(b)].remove = {}
  /\ \A b \in Boxes : pc[Rec(b)] = "idle" => todo[Rec(b)] = Nothing
  /\ \A b \in Boxes : pc[Td(b)] # "idle" => live[b] = todo[Td(b)].remove
  /\ \A b \in Boxes : pc[Td(b)] \notin {"waitMount", "export"}
  /\ \A b \in Boxes : todo[Td(b)].keep = {} /\ todo[Td(b)].add = {}
  /\ \A a \in Actors : Away(a) => at[a] \notin live[a[1]] /\ at[a] \notin todo[a].add

\* An unmount that has been sent and not been acknowledged.
Waiting(a) == pc[a] = "wait" /\ ~acked[a]

\* It is one token: a command, the last in the pipe; then a server that goes
\* down; then an ack.
CmdToken ==
  \A k \in DOMAIN cmds : cmds[k].op = "unmount" =>
    /\ k = Len(cmds) /\ Waiting(cmds[k].by)
    /\ target[cmds[k].by] = Unseen /\ at[cmds[k].by] = cmds[k].path

ServerToken ==
  \A i \in DOMAIN servers : servers[i].st \in {"cancelled", "draining"} =>
    \E a \in Actors :
      /\ Waiting(a) /\ target[a] = i /\ at[a] = servers[i].path
      /\ servers[i].box = a[1] \/ phase[servers[i].box] = "failed"

AckToken ==
  \A k \in DOMAIN acks :
    /\ Len(acks) = 1
    /\ \E a \in Actors :
         /\ Waiting(a) /\ at[a] = acks[k] /\ target[a] # Unseen
         /\ target[a] # None => servers[target[a]].st = "done"

WaiterInv == \A a \in Actors : Waiting(a) => waiters[at[a]] = a

AckedInv ==
  \A a \in Actors : pc[a] = "wait" /\ acked[a] =>
    target[a] # Unseen /\ (target[a] # None => servers[target[a]].st = "done")

TokenInv == CmdToken /\ ServerToken /\ AckToken /\ WaiterInv /\ AckedInv

\* The path is between the start of its mount and the unmount command.
InHand(b, p) ==
  \E a \in Actors :
    /\ a[1] = b /\ at[a] = p
    /\ pc[a] \in {"waitMount", "export", "unmount"} \/ (pc[a] = "wait" /\ target[a] = Unseen)

\* A sandbox that may have a server at the path.
MayServe(b, p) == p \in live[b] \/ InHand(b, p)

MountCmd(k, p) == cmds[k].op = "mount" /\ cmds[k].path = p

\* What sbxfuse has for a path is a serving server of it.
MapInv ==
  \A p \in Paths : mounts[p] # None =>
    servers[mounts[p]].path = p /\ servers[mounts[p]].st = "serving"

\* A serving server is the one sbxfuse has for its path, and the sandbox it
\* was started for knows of it, unless its create has failed.
OwnerInv ==
  \A i \in DOMAIN servers :
    servers[i].st = "serving" /\ phase[servers[i].box] # "failed" =>
      /\ mounts[servers[i].path] = i
      /\ MayServe(servers[i].box, servers[i].path)
      /\ \A k \in DOMAIN cmds : ~MountCmd(k, servers[i].path)

\* So does the sandbox of a mount command.
CmdOwner ==
  \A k \in DOMAIN cmds : cmds[k].op = "mount" =>
    phase[cmds[k].by[1]] = "failed" \/ MayServe(cmds[k].by[1], cmds[k].path)

\* The sandboxes' mounts of a path are in the order of the sandboxes.
CmdOrder ==
  \A k, l \in DOMAIN cmds :
    (k < l /\ cmds[k].op = "mount" /\ cmds[l].op = "mount" /\ cmds[k].path = cmds[l].path) =>
      cmds[k].by[1] < cmds[l].by[1]

\* A path routed to a sandbox is live there, or under way.
RegInv ==
  \A p \in Paths : \A b \in Boxes : reg[p] = b /\ phase[b] # "failed" =>
    p \in live[b] \/ \E a \in Actors : a[1] = b /\ at[a] = p /\ Away(a)

\* A sandbox that is gone has no server left.
GoneInv ==
  \A i \in DOMAIN servers : phase[servers[i].box] = "gone" => servers[i].st = "done"

ServerInv == MapInv /\ OwnerInv /\ CmdOwner /\ CmdOrder /\ RegInv /\ GoneInv

CalmInv == TurnInv /\ PlanInv /\ TokenInv /\ ServerInv

-----------------------------------------------------------------------------
(* Where, besides, no create fails.                                        *)

Attached(i) == servers[i].st \in {"serving", "cancelled"}

\* What is mounted at a path is the one server attached there.
StackInv ==
  /\ \A b \in Boxes : phase[b] # "failed"
  /\ \A i \in DOMAIN servers : Attached(i) => stack[servers[i].path] = <<i>>
  /\ \A p \in Paths : stack[p] # <<>> => \E i \in DOMAIN servers : Attached(i) /\ servers[i].path = p

\* A live path, and one that waitForMountReady has seen, is served and routed.
LiveInv ==
  /\ \A b \in Boxes : \A p \in live[b] : mounts[p] # None /\ reg[p] = b
  /\ \A b \in Boxes : pc[Rec(b)] = "export" => mounts[at[Rec(b)]] # None
  /\ \A b \in Boxes : pc[Rec(b)] \in {"waitMount", "export"} => reg[at[Rec(b)]] = b

\* The ACL file of a live path has the version last wanted, unless it is still
\* to be written or the path is to be stopped.
WantInv ==
  /\ \A b \in Boxes : \A p \in todo[Rec(b)].keep \union todo[Rec(b)].add : want[b][p] # 0
  /\ \A b \in Boxes : \A p \in live[b] :
       \/ aclFile[p] = want[b][p]
       \/ p \in todo[Rec(b)].keep \union todo[Rec(b)].remove
  /\ \A b \in Boxes : pc[Rec(b)] \in {"waitMount", "export"} =>
       aclFile[at[Rec(b)]] = want[b][at[Rec(b)]]

\* A serving server has read its ACL file, or is still to read it.
ReadInv ==
  \A i \in DOMAIN servers : servers[i].st = "serving" =>
    /\ aclFile[servers[i].path] # 0
    /\ \/ servers[i].acl = aclFile[servers[i].path]
       \/ \E k \in DOMAIN cmds : cmds[k].op = "reacl" /\ cmds[k].path = servers[i].path

ServedInv == StackInv /\ LiveInv /\ WantInv /\ ReadInv

IInv == TypeInv /\ (Calm => CalmInv) /\ (Calm /\ ~world.createFails => ServedInv)

-----------------------------------------------------------------------------
(* Actors and boxes.                                                       *)

LEMMA ActorFacts ==
  /\ \A b \in Boxes : /\ Rec(b) \in Actors /\ Td(b) \in Actors /\ Rec(b)[1] = b /\ Td(b)[1] = b
                      /\ Rec(b) # Td(b)
  /\ \A a \in Actors : a[1] \in Boxes /\ (a = Rec(a[1]) \/ a = Td(a[1]))
  /\ NoActor \notin Actors /\ Boxes \subseteq Nat /\ 0 \notin Boxes
  BY BoundAssumption DEF Actors, Rec, Td, NoActor, Boxes

LEMMA WorldFacts ==
  ASSUME TypeInv
  PROVE  /\ world.paths \subseteq Paths /\ world.boxes \in Boxes
         /\ world.acls \in 1..MaxAcl /\ world.applies \in 0..MaxApplies
  BY WorldAssumption DEF TypeInv, World, Boxes

LEMMA OneBusy ==
  ASSUME TurnInv, NEW b \in Boxes, NEW c \in Boxes, phase[b] \in Busy, phase[c] \in Busy
  PROVE  b = c
  <1>1. b \in Nat /\ c \in Nat
    BY ActorFacts
  <1>2. ~(b < c) /\ ~(c < b)
    BY DEF TurnInv, Busy
  <1>. QED  BY <1>1, <1>2

LEMMA ActiveBusy ==
  ASSUME TypeInv, TurnInv, NEW a \in Actors, pc[a] # "idle"
  PROVE  phase[a[1]] \in Busy
  <1>1. a[1] \in Boxes /\ (a = Rec(a[1]) \/ a = Td(a[1]))
    BY ActorFacts
  <1>2. CASE a = Rec(a[1])
    BY <1>1, <1>2 DEF TurnInv, Busy
  <1>3. CASE a = Td(a[1])
    BY <1>1, <1>3 DEF TurnInv, Busy
  <1>. QED  BY <1>1, <1>2, <1>3

LEMMA OneActor ==
  ASSUME TypeInv, TurnInv, NEW a \in Actors, NEW c \in Actors, pc[a] # "idle", pc[c] # "idle"
  PROVE  a = c
  <1>1. a[1] = c[1]
    BY ActiveBusy, OneBusy, ActorFacts
  <1>2. ~(pc[Rec(a[1])] # "idle" /\ pc[Td(a[1])] # "idle")
    BY ActorFacts DEF TurnInv
  <1>. QED  BY <1>1, <1>2, ActorFacts

\* Nothing is under way but what the one active actor does.
LEMMA MayServeBusy ==
  ASSUME TypeInv, TurnInv, NEW b \in Boxes, NEW p \in Paths, MayServe(b, p), phase[b] # "failed"
  PROVE  phase[b] \in Busy
  <1>1. CASE p \in live[b]
    BY <1>1 DEF TurnInv, Busy, TypeInv, TypeOK, Phases
  <1>2. CASE InHand(b, p)
    BY <1>2, ActiveBusy DEF InHand
  <1>. QED  BY <1>1, <1>2 DEF MayServe

-----------------------------------------------------------------------------
(* The pipe and the servers.                                               *)

LEMMA CmdFacts ==
  ASSUME TypeInv
  PROVE  \A k \in DOMAIN cmds : cmds[k].by \in Actors /\ cmds[k].path \in Paths
  <1>1. \A k \in DOMAIN cmds : cmds[k] \in CmdRec
    BY DEF TypeInv, TypeOK
  <1>. QED  BY <1>1 DEF CmdRec

LEMMA SrvFacts ==
  ASSUME TypeInv
  PROVE  \A i \in DOMAIN servers : servers[i].path \in Paths /\ servers[i].box \in Boxes
  <1>1. \A i \in DOMAIN servers : servers[i] \in SrvRec
    BY DEF TypeInv, TypeOK
  <1>. QED  BY <1>1 DEF SrvRec

LEMMA CmdAppend ==
  ASSUME TypeInv, NEW c \in CmdRec, cmds' = Append(cmds, c)
  PROVE  /\ cmds' \in Seq(CmdRec) /\ Len(cmds) \in Nat /\ Len(cmds') = Len(cmds) + 1
         /\ DOMAIN cmds = 1..Len(cmds) /\ DOMAIN cmds' = 1..(Len(cmds) + 1)
         /\ cmds'[Len(cmds) + 1] = c
         /\ \A k \in DOMAIN cmds : k \in DOMAIN cmds' /\ cmds'[k] = cmds[k]
         /\ \A k \in DOMAIN cmds' : k # Len(cmds) + 1 => k \in DOMAIN cmds /\ cmds'[k] = cmds[k]
  <1>1. cmds \in Seq(CmdRec)
    BY DEF TypeInv, TypeOK
  <1>2. /\ cmds' \in Seq(CmdRec) /\ Len(cmds) \in Nat /\ Len(cmds') = Len(cmds) + 1
        /\ DOMAIN cmds = 1..Len(cmds) /\ DOMAIN cmds' = 1..(Len(cmds) + 1)
        /\ cmds'[Len(cmds) + 1] = c /\ \A k \in 1..Len(cmds) : cmds'[k] = cmds[k]
    BY <1>1
  <1>. QED  BY <1>2

LEMMA CmdTail ==
  ASSUME TypeInv, cmds # <<>>, cmds' = Tail(cmds)
  PROVE  /\ cmds' \in Seq(CmdRec) /\ Len(cmds) \in Nat /\ Len(cmds') = Len(cmds) - 1
         /\ DOMAIN cmds = 1..Len(cmds) /\ DOMAIN cmds' = 1..(Len(cmds) - 1)
         /\ 1 \in DOMAIN cmds /\ Head(cmds) = cmds[1] /\ cmds[1] \in CmdRec
         /\ \A k \in DOMAIN cmds' : k + 1 \in DOMAIN cmds /\ cmds'[k] = cmds[k + 1]
         /\ \A k \in DOMAIN cmds : k # 1 => k - 1 \in DOMAIN cmds' /\ cmds'[k - 1] = cmds[k]
  <1>1. cmds \in Seq(CmdRec) /\ Len(cmds) \in Nat /\ Len(cmds) # 0 /\ DOMAIN cmds = 1..Len(cmds)
    BY DEF TypeInv, TypeOK
  <1>2. /\ cmds' \in Seq(CmdRec) /\ Len(cmds') = Len(cmds) - 1 /\ DOMAIN cmds' = 1..(Len(cmds) - 1)
        /\ \A k \in 1..(Len(cmds) - 1) : cmds'[k] = cmds[k + 1]
    BY <1>1
  <1>3. Head(cmds) = cmds[1] /\ 1 \in 1..Len(cmds) /\ cmds[1] \in CmdRec
    BY <1>1
  <1>4. \A k \in 1..Len(cmds) : k # 1 => k - 1 \in 1..(Len(cmds) - 1) /\ cmds'[k - 1] = cmds[k]
    BY <1>1, <1>2
  <1>5. \A k \in 1..(Len(cmds) - 1) : k + 1 \in 1..Len(cmds)
    BY <1>1
  <1>. QED  BY <1>1, <1>2, <1>3, <1>4, <1>5

LEMMA SrvSet ==
  ASSUME TypeInv, NEW i \in DOMAIN servers, NEW s \in {"serving", "cancelled", "draining", "done"},
         servers' = [servers EXCEPT ![i].st = s]
  PROVE  /\ servers' \in Seq(SrvRec) /\ DOMAIN servers' = DOMAIN servers
         /\ servers'[i].st = s /\ servers'[i].path = servers[i].path
         /\ servers'[i].box = servers[i].box /\ servers'[i].acl = servers[i].acl
         /\ \A j \in DOMAIN servers : j # i => servers'[j] = servers[j]
         /\ \A j \in DOMAIN servers : /\ servers'[j].path = servers[j].path
                                      /\ servers'[j].box = servers[j].box
  <1>1. servers \in Seq(SrvRec) /\ servers[i] \in SrvRec
    BY DEF TypeInv, TypeOK
  <1>2. [servers[i] EXCEPT !.st = s] \in SrvRec
    BY <1>1 DEF SrvRec
  <1>3. servers' = [servers EXCEPT ![i] = [servers[i] EXCEPT !.st = s]]
    OBVIOUS
  <1>4. servers' \in Seq(SrvRec) /\ DOMAIN servers' = DOMAIN servers
    BY <1>1, <1>2, <1>3
  <1>5. /\ servers'[i].st = s /\ servers'[i].path = servers[i].path
        /\ servers'[i].box = servers[i].box /\ servers'[i].acl = servers[i].acl
    BY <1>1, <1>3 DEF SrvRec
  <1>6. \A j \in DOMAIN servers : j # i => servers'[j] = servers[j]
    BY <1>3
  <1>. QED  BY <1>4, <1>5, <1>6

LEMMA SrvReACL ==
  ASSUME TypeInv, CmdReACL
  PROVE  /\ servers' \in Seq(SrvRec) /\ DOMAIN servers' = DOMAIN servers
         /\ \A j \in DOMAIN servers : /\ servers'[j].path = servers[j].path
                                      /\ servers'[j].box = servers[j].box
                                      /\ servers'[j].st = servers[j].st
         /\ \A j \in DOMAIN servers :
              IF j = mounts[Head(cmds).path] /\ aclFile[Head(cmds).path] # 0
              THEN servers'[j].acl = aclFile[Head(cmds).path] ELSE servers'[j] = servers[j]
  <1>. DEFINE p == Head(cmds).path
  <1>1. servers \in Seq(SrvRec) /\ \A j \in DOMAIN servers : servers[j] \in SrvRec
    BY DEF TypeInv, TypeOK
  <1>2. p \in Paths
    <2>1. cmds \in Seq(CmdRec) /\ cmds # <<>>
      BY DEF TypeInv, TypeOK, CmdReACL
    <2>2. Head(cmds) \in CmdRec
      BY <2>1
    <2>. QED  BY <2>2 DEF CmdRec
  <1>3. mounts[p] \in {None} \union DOMAIN servers /\ aclFile[p] \in 0..MaxAcl
    BY <1>2 DEF TypeInv, TypeOK
  <1>4. servers' = IF mounts[p] = None \/ aclFile[p] = 0 THEN servers
                   ELSE [servers EXCEPT ![mounts[p]].acl = aclFile[p]]
    BY DEF CmdReACL
  <1>5. None \notin DOMAIN servers
    BY <1>1 DEF None
  <1>. HIDE DEF p
  <1>6. CASE mounts[p] = None \/ aclFile[p] = 0
    BY <1>1, <1>4, <1>5, <1>6 DEF p
  <1>7. CASE ~(mounts[p] = None \/ aclFile[p] = 0)
    <2>1. PICK i \in DOMAIN servers : i = mounts[p]
      BY <1>3, <1>7
    <2>2. PICK v \in 1..MaxAcl : v = aclFile[p]
      BY <1>3, <1>7, BoundAssumption
    <2>3. servers' = [servers EXCEPT ![i] = [servers[i] EXCEPT !.acl = v]]
      BY <1>4, <1>7, <2>1, <2>2
    <2>4. [servers[i] EXCEPT !.acl = v] \in SrvRec
      BY <1>1, <2>1, <2>2 DEF SrvRec
    <2>5. servers' \in Seq(SrvRec) /\ DOMAIN servers' = DOMAIN servers
      BY <1>1, <2>3, <2>4
    <2>6. /\ servers'[i].acl = v /\ servers'[i].path = servers[i].path
          /\ servers'[i].box = servers[i].box /\ servers'[i].st = servers[i].st
      BY <1>1, <2>3 DEF SrvRec
    <2>7. \A j \in DOMAIN servers : j # i => servers'[j] = servers[j]
      BY <2>3
    <2>. QED  BY <1>7, <2>1, <2>2, <2>5, <2>6, <2>7 DEF p
  <1>. QED  BY <1>6, <1>7

\* The mount command: sbxfuse refuses it, or a server is started.
LEMMA SrvMount ==
  ASSUME TypeInv, CmdMount
  PROVE  /\ cmds # <<>> /\ Head(cmds) = cmds[1] /\ cmds[1].op = "mount" /\ cmds' = Tail(cmds)
         /\ cmds[1].path \in Paths /\ cmds[1].by \in Actors
         /\ \/ UNCHANGED fuseVars /\ MayFail(cmds[1].by[1])
            \/ \E s \in SrvRec :
                 /\ servers' = Append(servers, s) /\ aclFile[s.path] # 0
                 /\ s.path = cmds[1].path /\ s.box = cmds[1].by[1] /\ s.st = "serving"
                 /\ s.acl = aclFile[s.path]
                 /\ mounts' = [mounts EXCEPT ![s.path] = Len(servers) + 1]
                 /\ stack' = [stack EXCEPT ![s.path] = Append(stack[s.path], Len(servers) + 1)]
  <1>1. cmds # <<>> /\ Head(cmds).op = "mount" /\ cmds' = Tail(cmds)
    BY DEF CmdMount
  <1>2. Head(cmds) = cmds[1] /\ cmds[1].path \in Paths /\ cmds[1].by \in Actors
    BY <1>1, CmdTail, CmdFacts
  <1>. DEFINE c == cmds[1]
              s == [path |-> c.path, box |-> c.by[1], acl |-> aclFile[c.path], st |-> "serving"]
  <1>3. ASSUME aclFile[c.path] # 0 PROVE s \in SrvRec
    <2>1. c.by[1] \in Boxes
      BY <1>2, ActorFacts
    <2>2. aclFile[c.path] \in 1..MaxAcl
      BY <1>2, <1>3, BoundAssumption DEF TypeInv, TypeOK
    <2>. QED  BY <1>2, <2>1, <2>2 DEF SrvRec
  <1>4. CASE /\ aclFile[c.path] # 0
             /\ servers' = Append(servers, s)
             /\ mounts' = [mounts EXCEPT ![c.path] = Len(servers) + 1]
             /\ stack' = [stack EXCEPT ![c.path] = Append(@, Len(servers) + 1)]
    <2>1. s \in SrvRec
      BY <1>3, <1>4
    <2>2. s.path = c.path /\ s.box = c.by[1] /\ s.st = "serving" /\ s.acl = aclFile[c.path]
      OBVIOUS
    <2>. HIDE DEF s
    <2>. QED  BY <1>1, <1>2, <1>4, <2>1, <2>2
  <1>5. CASE UNCHANGED fuseVars /\ MayFail(c.by[1])
    BY <1>1, <1>2, <1>5
  <1>. QED  BY <1>2, <1>4, <1>5 DEF CmdMount

LEMMA SrvAppend ==
  ASSUME TypeInv, NEW s \in SrvRec, servers' = Append(servers, s)
  PROVE  /\ servers' \in Seq(SrvRec) /\ Len(servers) \in Nat
         /\ DOMAIN servers = 1..Len(servers) /\ DOMAIN servers' = 1..(Len(servers) + 1)
         /\ Len(servers) + 1 \in DOMAIN servers' /\ Len(servers) + 1 \notin DOMAIN servers
         /\ servers'[Len(servers) + 1] = s
         /\ \A j \in DOMAIN servers : j \in DOMAIN servers' /\ servers'[j] = servers[j]
         /\ \A j \in DOMAIN servers' : j # Len(servers) + 1 => j \in DOMAIN servers
  <1>1. servers \in Seq(SrvRec)
    BY DEF TypeInv, TypeOK
  <1>2. /\ servers' \in Seq(SrvRec) /\ Len(servers) \in Nat
        /\ DOMAIN servers = 1..Len(servers) /\ DOMAIN servers' = 1..(Len(servers) + 1)
        /\ servers'[Len(servers) + 1] = s /\ \A j \in 1..Len(servers) : servers'[j] = servers[j]
    BY <1>1
  <1>. QED  BY <1>2

-----------------------------------------------------------------------------
\* Turns.
LEMMA TurnStep ==
  ASSUME TypeInv, Calm, TurnInv, PlanInv, Next
  PROVE  TurnInv'
  <1>t. /\ phase \in [Boxes -> Phases]
        /\ pc \in [Actors -> PcStates]
        /\ live \in [Boxes -> SUBSET Paths]
        /\ todo \in [Actors -> TodoRec]
    BY DEF TypeInv, TypeOK
  <1>w. world' = world
    BY DEF Next
  <1>a. /\ \A b \in Boxes : /\ Rec(b) \in Actors /\ Td(b) \in Actors /\ Rec(b)[1] = b
                            /\ Td(b)[1] = b /\ Rec(b) # Td(b)
        /\ \A a \in Actors : a[1] \in Boxes /\ (a = Rec(a[1]) \/ a = Td(a[1]))
        /\ Boxes \subseteq Nat
    BY ActorFacts
  <1>0. CASE UNCHANGED <<phase, pc, live>>
    BY <1>0 DEF TurnInv
  <1>1. ASSUME NEW b \in Boxes, NEW d \in Configs, CreatePacked(b, d) PROVE TurnInv'
    <2>0. /\ phase[b] = "new" /\ pc[Rec(b)] = "idle" /\ (b > 1 => phase[b - 1] \in {"gone", "failed"})
          /\ phase' = [phase EXCEPT ![b] = "creating"] /\ pc' = [pc EXCEPT ![Rec(b)] = "work"]
          /\ live' = live
      BY <1>1 DEF CreatePacked, Begin
    <2>1. \A u, v \in Boxes : v < u /\ phase'[u] # "new" => phase'[v] \in {"gone", "failed"}
      <3>1. ASSUME NEW v \in Boxes, v < b PROVE phase[v] \in {"gone", "failed"}
        <4>1. b - 1 \in Boxes /\ phase[b - 1] \in {"gone", "failed"}
          <5>1. b > 1 /\ b - 1 \in Boxes
            BY <3>1, BoundAssumption DEF Boxes
          <5>. QED  BY <2>0, <5>1
        <4>2. CASE v = b - 1
          BY <4>1, <4>2
        <4>3. CASE v # b - 1
          <5>1. v < b - 1
            BY <1>a, <3>1, <4>3
          <5>. QED  BY <4>1, <5>1 DEF TurnInv
        <4>. QED  BY <4>2, <4>3
      <3>2. ASSUME NEW u \in Boxes, b < u PROVE phase[u] = "new"
        BY <2>0, <3>2 DEF TurnInv
      <3>3. \A v \in Boxes : ~(v < v)
        BY <1>a
      <3>. QED  BY <1>t, <2>0, <3>1, <3>2, <3>3 DEF TurnInv
    <2>2. \A u \in Boxes : phase'[u] \notin {"creating", "up"} => pc'[Rec(u)] = "idle"
      BY <1>t, <1>a, <2>0 DEF TurnInv
    <2>3. \A u \in Boxes : phase'[u] # "ending" => pc'[Td(u)] = "idle"
      BY <1>t, <1>a, <2>0 DEF TurnInv
    <2>4. \A u \in Boxes : phase'[u] \in {"new", "gone"} => live'[u] = {}
      BY <1>t, <1>a, <2>0 DEF TurnInv, PlanInv, Nothing
    <2>. QED  BY <2>1, <2>2, <2>3, <2>4 DEF TurnInv
  <1>2. ASSUME NEW b \in Boxes, NEW d \in Configs, Reapply(b, d) PROVE TurnInv'
    <2>0. /\ phase[b] = "up" /\ pc' = [pc EXCEPT ![Rec(b)] = "work"]
          /\ phase' = phase /\ live' = live
      BY <1>2 DEF Reapply, Begin, Calm
    <2>1. \A u, v \in Boxes : v < u /\ phase'[u] # "new" => phase'[v] \in {"gone", "failed"}
      BY <1>t, <1>a, <2>0 DEF TurnInv
    <2>2. \A u \in Boxes : phase'[u] \notin {"creating", "up"} => pc'[Rec(u)] = "idle"
      BY <1>t, <1>a, <2>0 DEF TurnInv
    <2>3. \A u \in Boxes : phase'[u] # "ending" => pc'[Td(u)] = "idle"
      BY <1>t, <1>a, <2>0 DEF TurnInv
    <2>4. \A u \in Boxes : phase'[u] \in {"new", "gone"} => live'[u] = {}
      BY <1>t, <1>a, <2>0 DEF TurnInv, PlanInv, Nothing
    <2>. QED  BY <2>1, <2>2, <2>3, <2>4 DEF TurnInv
  <1>3. ASSUME NEW b \in Boxes, NEW ok \in BOOLEAN, Finish(b, ok) PROVE TurnInv'
    <2>0. /\ phase[b] \in {"creating", "up"} /\ pc' = [pc EXCEPT ![Rec(b)] = "idle"] /\ live' = live
          /\ phase' = phase \/ phase' = [phase EXCEPT ![b] = "up"]
               \/ phase' = [phase EXCEPT ![b] = "failed"]
      BY <1>3 DEF Finish, TurnInv
    <2>1. \A u, v \in Boxes : v < u /\ phase'[u] # "new" => phase'[v] \in {"gone", "failed"}
      BY <1>t, <1>a, <2>0 DEF TurnInv
    <2>2. \A u \in Boxes : phase'[u] \notin {"creating", "up"} => pc'[Rec(u)] = "idle"
      BY <1>t, <1>a, <2>0 DEF TurnInv
    <2>3. \A u \in Boxes : phase'[u] # "ending" => pc'[Td(u)] = "idle"
      BY <1>t, <1>a, <2>0 DEF TurnInv
    <2>4. \A u \in Boxes : phase'[u] \in {"new", "gone"} => live'[u] = {}
      BY <1>t, <1>a, <2>0 DEF TurnInv, PlanInv, Nothing
    <2>. QED  BY <2>1, <2>2, <2>3, <2>4 DEF TurnInv
  <1>4. ASSUME NEW b \in Boxes, NEW p \in Paths, StartMount(b, p) PROVE TurnInv'
    BY <1>t, <1>w, <1>a, <1>4 DEF StartMount, fuseVars, TurnInv
  <1>5. ASSUME NEW b \in Boxes, MountSeen(b) PROVE TurnInv'
    BY <1>t, <1>w, <1>a, <1>5 DEF MountSeen, mgrVars, fuseVars, TurnInv
  <1>6. ASSUME NEW b \in Boxes, Exported(b) PROVE TurnInv'
    BY <1>t, <1>w, <1>a, <1>6 DEF Exported, fuseVars, TurnInv
  <1>7. ASSUME NEW b \in Boxes, MountFailed(b) PROVE TurnInv'
    BY <1>t, <1>w, <1>a, <1>7 DEF MountFailed, MayFail, mgrVars, fuseVars, TurnInv
  <1>8. ASSUME NEW a \in Actors, NEW p \in Paths, StopPath(a, p) PROVE TurnInv'
    BY <1>t, <1>w, <1>a, <1>8 DEF StopPath, actVars, fuseVars, TurnInv
  <1>9. ASSUME NEW a \in Actors, SendUnmount(a) PROVE TurnInv'
    BY <1>t, <1>w, <1>a, <1>9 DEF SendUnmount, mgrVars, fuseVars, TurnInv
  <1>10. ASSUME NEW a \in Actors, Acked(a) PROVE TurnInv'
    BY <1>t, <1>w, <1>a, <1>10 DEF Acked, mgrVars, fuseVars, TurnInv
  <1>11. ASSUME NEW a \in Actors, Unregister(a) PROVE TurnInv'
    BY <1>t, <1>w, <1>a, <1>11 DEF Unregister, mgrVars, fuseVars, TurnInv
  <1>12. ASSUME NEW b \in Boxes, End(b) PROVE TurnInv'
    <2>0. /\ phase[b] = "up" /\ pc[Rec(b)] = "idle" /\ phase' = [phase EXCEPT ![b] = "ending"]
          /\ pc' = pc /\ live' = live
      BY <1>12 DEF End, Calm, actVars
    <2>1. \A u, v \in Boxes : v < u /\ phase'[u] # "new" => phase'[v] \in {"gone", "failed"}
      BY <1>t, <1>a, <2>0 DEF TurnInv
    <2>2. \A u \in Boxes : phase'[u] \notin {"creating", "up"} => pc'[Rec(u)] = "idle"
      BY <1>t, <1>a, <2>0 DEF TurnInv
    <2>3. \A u \in Boxes : phase'[u] # "ending" => pc'[Td(u)] = "idle"
      BY <1>t, <1>a, <2>0 DEF TurnInv
    <2>4. \A u \in Boxes : phase'[u] \in {"new", "gone"} => live'[u] = {}
      BY <1>t, <1>a, <2>0 DEF TurnInv, PlanInv, Nothing
    <2>. QED  BY <2>1, <2>2, <2>3, <2>4 DEF TurnInv
  <1>13. ASSUME NEW b \in Boxes, StopAll(b) PROVE TurnInv'
    BY <1>t, <1>w, <1>a, <1>13 DEF StopAll, fuseVars, TurnInv
  <1>14. ASSUME NEW b \in Boxes, ClearTree(b) PROVE TurnInv'
    <2>0. /\ phase[b] = "ending" /\ pc[Td(b)] = "work" /\ todo[Td(b)] = Nothing
          /\ phase' = [phase EXCEPT ![b] = "gone"] /\ pc' = [pc EXCEPT ![Td(b)] = "idle"]
          /\ live' = live
      BY <1>14 DEF ClearTree
    <2>1. \A u, v \in Boxes : v < u /\ phase'[u] # "new" => phase'[v] \in {"gone", "failed"}
      BY <1>t, <1>a, <2>0 DEF TurnInv
    <2>2. \A u \in Boxes : phase'[u] \notin {"creating", "up"} => pc'[Rec(u)] = "idle"
      BY <1>t, <1>a, <2>0 DEF TurnInv
    <2>3. \A u \in Boxes : phase'[u] # "ending" => pc'[Td(u)] = "idle"
      BY <1>t, <1>a, <2>0 DEF TurnInv
    <2>4. \A u \in Boxes : phase'[u] \in {"new", "gone"} => live'[u] = {}
      BY <1>t, <1>a, <2>0 DEF TurnInv, PlanInv, Nothing
    <2>. QED  BY <2>1, <2>2, <2>3, <2>4 DEF TurnInv
  <1>15. ASSUME NEW b \in Boxes, NEW p \in Paths,
               ReACL(b, p)
        PROVE  TurnInv'
    BY <1>0, <1>15 DEF ReACL, actVars, fuseVars
  <1>16. ASSUME TakeAck \/ CmdMount \/ CmdUnmount \/ CmdReACL PROVE TurnInv'
    BY <1>0, <1>16 DEF TakeAck, mgrVars, actVars, fuseVars, CmdMount, CmdUnmount, CmdReACL
  <1>17. ASSUME NEW i \in DOMAIN servers,
               Detach(i) \/ Drained(i)
        PROVE  TurnInv'
    BY <1>0, <1>17 DEF Detach, mgrVars, actVars, Drained
  <1>. QED
    BY <1>0, <1>1, <1>2, <1>3, <1>4, <1>5, <1>6, <1>7, <1>8, <1>9, <1>10, <1>11, <1>12, <1>13,
       <1>14, <1>15, <1>16, <1>17 DEF Calm, AckLapses, Next, MountStep, RecStep, Unmounting,
       Sbxfuse

\* Plans.
LEMMA PlanStep ==
  ASSUME TypeInv, Calm, TurnInv, PlanInv, Next
  PROVE  PlanInv'
  <1>t. /\ phase \in [Boxes -> Phases]
        /\ pc \in [Actors -> PcStates]
        /\ live \in [Boxes -> SUBSET Paths]
        /\ todo \in [Actors -> TodoRec]
        /\ at \in [Actors -> Paths]
    BY DEF TypeInv, TypeOK
  <1>w. world' = world
    BY DEF Next
  <1>a. /\ \A b \in Boxes : /\ Rec(b) \in Actors /\ Td(b) \in Actors /\ Rec(b)[1] = b
                            /\ Td(b)[1] = b /\ Rec(b) # Td(b)
        /\ \A a \in Actors : a[1] \in Boxes /\ (a = Rec(a[1]) \/ a = Td(a[1]))
        /\ Boxes \subseteq Nat
    BY ActorFacts
  <1>0. CASE UNCHANGED <<todo, live, pc, at>>
    BY <1>0 DEF PlanInv, Away, TodoRec, Nothing
  <1>1. ASSUME NEW b \in Boxes, NEW d \in Configs, CreatePacked(b, d) PROVE PlanInv'
    BY <1>t, <1>w, <1>a, <1>1 DEF CreatePacked, Begin, planFsReconcile, fuseVars, PlanInv, Away,
       TodoRec, Nothing
  <1>2. ASSUME NEW b \in Boxes, NEW d \in Configs, Reapply(b, d) PROVE PlanInv'
    BY <1>t, <1>w, <1>a, <1>2 DEF Reapply, Begin, planFsReconcile, fuseVars, PlanInv, Away,
       TodoRec, Nothing
  <1>3. ASSUME NEW b \in Boxes, NEW ok \in BOOLEAN, Finish(b, ok) PROVE PlanInv'
    BY <1>t, <1>w, <1>a, <1>3 DEF Finish, MayFail, fuseVars, PlanInv, Away, TodoRec, Nothing
  <1>4. ASSUME NEW b \in Boxes, NEW p \in Paths, ReACL(b, p) PROVE PlanInv'
    BY <1>t, <1>w, <1>a, <1>4 DEF ReACL, actVars, fuseVars, PlanInv, Away, TodoRec, Nothing
  <1>5. ASSUME NEW b \in Boxes, NEW p \in Paths, StartMount(b, p) PROVE PlanInv'
    BY <1>t, <1>w, <1>a, <1>5 DEF StartMount, fuseVars, PlanInv, Away, TodoRec, Nothing
  <1>6. ASSUME NEW b \in Boxes, MountSeen(b) PROVE PlanInv'
    BY <1>t, <1>w, <1>a, <1>6 DEF MountSeen, mgrVars, fuseVars, PlanInv, Away, TodoRec, Nothing
  <1>7. ASSUME NEW b \in Boxes, Exported(b) PROVE PlanInv'
    <2>0. /\ pc[Rec(b)] = "export" /\ pc' = [pc EXCEPT ![Rec(b)] = "work"]
          /\ live' = [live EXCEPT ![b] = live[b] \union {at[Rec(b)]}] /\ todo' = todo /\ at' = at
      BY <1>7 DEF Exported
    <2>1. pc[Td(b)] = "idle" /\ at[Rec(b)] \notin todo[Rec(b)].add
      BY <1>a, <2>0 DEF TurnInv, PlanInv, Away
    <2>2. \A u \in Boxes : u # b => live'[u] = live[u]
      BY <1>t, <2>0
    <2>3. live'[b] = live[b] \union {at[Rec(b)]}
      BY <1>t, <2>0
    <2>4. \A u \in Boxes : /\ todo'[Rec(u)].add \intersect live'[u] = {}
                            /\ todo'[Rec(u)].remove \union todo'[Rec(u)].keep \subseteq live'[u]
      BY <2>0, <2>1, <2>2, <2>3 DEF PlanInv
    <2>5. \A u \in Boxes : pc'[Td(u)] # "idle" => live'[u] = todo'[Td(u)].remove
      BY <1>t, <1>a, <2>0, <2>1, <2>2 DEF PlanInv
    <2>6. \A c \in Actors : Away(c)' => at'[c] \notin live'[c[1]] /\ at'[c] \notin todo'[c].add
      <3>1. ASSUME NEW c \in Actors, Away(c)' PROVE Away(c) /\ c[1] # b
        BY <1>t, <1>a, <2>0, <2>1, <3>1 DEF Away
      <3>. QED  BY <1>a, <2>0, <2>2, <3>1 DEF PlanInv
    <2>7. /\ pc'[Rec(b)] = "work"
          /\ \A c \in Actors : c # Rec(b) => pc'[c] = pc[c]
      BY <1>t, <1>a, <2>0
    <2>8. \A u \in Boxes : /\ todo'[Rec(u)].keep \intersect todo'[Rec(u)].remove = {}
                            /\ todo'[Td(u)].keep = {} /\ todo'[Td(u)].add = {}
      BY <2>0 DEF PlanInv
    <2>9. \A u \in Boxes : pc'[Rec(u)] = "idle" => todo'[Rec(u)] = Nothing
      BY <1>a, <2>0, <2>7 DEF PlanInv
    <2>10. \A u \in Boxes : pc'[Td(u)] \notin {"waitMount", "export"}
      BY <1>a, <2>7 DEF PlanInv
    <2>. QED  BY <2>4, <2>5, <2>6, <2>8, <2>9, <2>10 DEF PlanInv
  <1>8. ASSUME NEW b \in Boxes, MountFailed(b) PROVE PlanInv'
    BY <1>t, <1>w, <1>a, <1>8 DEF MountFailed, MayFail, mgrVars, fuseVars, PlanInv, Away, TodoRec,
       Nothing
  <1>9. ASSUME NEW a \in Actors, NEW p \in Paths, StopPath(a, p) PROVE PlanInv'
    <2>. DEFINE b == a[1]
    <2>0. /\ pc[a] = "work" /\ p \in todo[a].remove /\ todo' = [todo EXCEPT ![a].remove = todo[a].remove \ {p}]
          /\ b \in Boxes /\ (a = Rec(b) \/ a = Td(b))
      BY <1>a, <1>9 DEF StopPath
    <2>1. p \in live[b]
      BY <2>0 DEF PlanInv
    <2>2. /\ live' = [live EXCEPT ![b] = live[b] \ {p}] /\ pc' = [pc EXCEPT ![a] = "unmount"]
          /\ at' = [at EXCEPT ![a] = p]
      BY <2>1, <1>9 DEF StopPath
    <2>3. ASSUME NEW c \in Actors, c # a, c[1] = b PROVE pc[c] = "idle"
      BY <1>a, <2>0, <2>3 DEF TurnInv
    <2>4. /\ todo'[a].remove = todo[a].remove \ {p} /\ todo'[a].keep = todo[a].keep
          /\ todo'[a].add = todo[a].add /\ \A c \in Actors : c # a => todo'[c] = todo[c]
      BY <1>t, <2>0 DEF TodoRec
    <2>5. /\ live'[b] = live[b] \ {p} /\ \A u \in Boxes : u # b => live'[u] = live[u]
          /\ pc'[a] = "unmount" /\ at'[a] = p
          /\ \A c \in Actors : c # a => pc'[c] = pc[c] /\ at'[c] = at[c]
      BY <1>t, <2>0, <2>2
    <2>. HIDE DEF b
    <2>6. \A u \in Boxes : u # b => Rec(u) # a /\ Td(u) # a
      BY <1>a, <2>0
    <2>7. \A u \in Boxes : /\ todo'[Rec(u)].add \intersect live'[u] = {}
                            /\ todo'[Rec(u)].keep \intersect todo'[Rec(u)].remove = {}
      BY <1>a, <2>0, <2>4, <2>5, <2>6 DEF PlanInv
    <2>8. \A u \in Boxes : todo'[Rec(u)].remove \union todo'[Rec(u)].keep \subseteq live'[u]
      <3>1. CASE a = Rec(b)
        BY <1>a, <2>0, <2>4, <2>5, <2>6, <3>1 DEF PlanInv
      <3>2. CASE a = Td(b)
        <4>1. Rec(b) # a /\ pc[Rec(b)] = "idle"
          BY <1>a, <2>0, <3>2 DEF TurnInv
        <4>2. todo'[Rec(b)] = Nothing
          BY <1>a, <2>0, <2>4, <4>1 DEF PlanInv
        <4>. QED  BY <1>a, <2>0, <2>4, <2>5, <2>6, <4>2 DEF PlanInv, Nothing
      <3>. QED  BY <2>0, <3>1, <3>2
    <2>9. \A u \in Boxes : pc'[Rec(u)] = "idle" => todo'[Rec(u)] = Nothing
      BY <1>a, <2>0, <2>4, <2>5 DEF PlanInv
    <2>10. \A u \in Boxes : pc'[Td(u)] # "idle" => live'[u] = todo'[Td(u)].remove
      <3>1. CASE a = Rec(b)
        <4>1. pc[Td(b)] = "idle" /\ Td(b) # a
          BY <1>a, <2>0, <3>1 DEF TurnInv
        <4>. QED  BY <1>a, <2>0, <2>4, <2>5, <2>6, <4>1 DEF PlanInv
      <3>2. CASE a = Td(b)
        <4>1. live[b] = todo[a].remove
          BY <2>0, <3>2 DEF PlanInv
        <4>2. live'[b] = todo'[Td(b)].remove
          BY <2>4, <2>5, <3>2, <4>1
        <4>3. \A u \in Boxes : u # b => pc'[Td(u)] = pc[Td(u)] /\ todo'[Td(u)] = todo[Td(u)]
          BY <1>a, <2>4, <2>5, <2>6
        <4>. QED  BY <2>5, <4>2, <4>3 DEF PlanInv
      <3>. QED  BY <2>0, <3>1, <3>2
    <2>11. \A u \in Boxes : /\ pc'[Td(u)] \notin {"waitMount", "export"}
                             /\ todo'[Td(u)].keep = {} /\ todo'[Td(u)].add = {}
      BY <1>a, <2>4, <2>5 DEF PlanInv
    <2>12. \A c \in Actors : Away(c)' => at'[c] \notin live'[c[1]] /\ at'[c] \notin todo'[c].add
      <3>1. p \notin todo'[a].add
        <4>1. CASE a = Rec(b)
          BY <2>0, <2>1, <2>4, <4>1 DEF PlanInv
        <4>2. CASE a = Td(b)
          BY <2>0, <2>4, <4>2 DEF PlanInv
        <4>. QED  BY <2>0, <4>1, <4>2
      <3>2. ASSUME NEW c \in Actors, c # a, Away(c)' PROVE Away(c) /\ c[1] # b
        BY <2>0, <2>3, <2>5, <3>2 DEF Away, b
      <3>3. ASSUME NEW c \in Actors, c # a, Away(c)' PROVE at'[c] \notin live'[c[1]] /\ at'[c] \notin todo'[c].add
        BY <1>a, <2>4, <2>5, <3>2, <3>3 DEF PlanInv
      <3>4. at'[a] \notin live'[a[1]] /\ at'[a] \notin todo'[a].add
        BY <2>5, <3>1 DEF b
      <3>. QED  BY <3>3, <3>4
    <2>. QED  BY <2>7, <2>8, <2>9, <2>10, <2>11, <2>12 DEF PlanInv
  <1>10. ASSUME NEW a \in Actors, SendUnmount(a) PROVE PlanInv'
    BY <1>t, <1>w, <1>a, <1>10 DEF SendUnmount, mgrVars, fuseVars, PlanInv, Away, TodoRec, Nothing
  <1>11. ASSUME NEW a \in Actors, Acked(a) PROVE PlanInv'
    BY <1>t, <1>w, <1>a, <1>11 DEF Acked, mgrVars, fuseVars, PlanInv, Away, TodoRec, Nothing
  <1>12. ASSUME NEW a \in Actors, Unregister(a) PROVE PlanInv'
    BY <1>t, <1>w, <1>a, <1>12 DEF Unregister, mgrVars, fuseVars, PlanInv, Away, TodoRec, Nothing
  <1>13. ASSUME NEW b \in Boxes, StopAll(b) PROVE PlanInv'
    BY <1>t, <1>w, <1>a, <1>13 DEF StopAll, fuseVars, PlanInv, Away, TodoRec, Nothing
  <1>14. ASSUME NEW b \in Boxes, ClearTree(b) PROVE PlanInv'
    BY <1>t, <1>w, <1>a, <1>14 DEF ClearTree, PlanInv, Away, TodoRec, Nothing
  <1>15. ASSUME NEW b \in Boxes,
               End(b)
        PROVE  PlanInv'
    BY <1>0, <1>15 DEF End, actVars, fuseVars
  <1>16. ASSUME TakeAck \/ CmdMount \/ CmdUnmount \/ CmdReACL PROVE PlanInv'
    BY <1>0, <1>16 DEF TakeAck, mgrVars, actVars, fuseVars, CmdMount, CmdUnmount, CmdReACL
  <1>17. ASSUME NEW i \in DOMAIN servers,
               Detach(i) \/ Drained(i)
        PROVE  PlanInv'
    BY <1>0, <1>17 DEF Detach, mgrVars, actVars, Drained
  <1>. QED
    BY <1>0, <1>1, <1>2, <1>3, <1>4, <1>5, <1>6, <1>7, <1>8, <1>9, <1>10, <1>11, <1>12, <1>13,
       <1>14, <1>15, <1>16, <1>17 DEF Calm, AckLapses, Next, MountStep, RecStep, Unmounting,
       Sbxfuse

\* While the active actor waits for no ack, no token is under way.
LEMMA Quiet ==
  ASSUME TypeInv, CalmInv, NEW a \in Actors, pc[a] # "idle", ~Waiting(a)
  PROVE  /\ \A k \in DOMAIN cmds : cmds[k].op # "unmount"
         /\ \A i \in DOMAIN servers : servers[i].st \notin {"cancelled", "draining"}
         /\ acks = <<>>
  <1>1. \A c \in Actors : ~Waiting(c)
    BY OneActor DEF Waiting, CalmInv
  <1>2. \A k \in DOMAIN cmds : cmds[k].by \in Actors
    BY CmdFacts
  <1>3. DOMAIN acks = {}
    BY <1>1 DEF CalmInv, TokenInv, AckToken
  <1>4. acks \in Seq(Paths)
    BY DEF TypeInv, TypeOK
  <1>. QED  BY <1>1, <1>2, <1>3, <1>4 DEF CalmInv, TokenInv, CmdToken, ServerToken

\* An ack is the only token.
LEMMA AckAlone ==
  ASSUME TypeInv, CalmInv, acks # <<>>
  PROVE  \E a \in Actors :
           /\ Waiting(a) /\ acks = <<at[a]>> /\ target[a] # Unseen
           /\ target[a] # None => servers[target[a]].st = "done"
           /\ waiters[at[a]] = a
           /\ \A c \in Actors : Waiting(c) => c = a
           /\ \A k \in DOMAIN cmds : cmds[k].op # "unmount"
           /\ \A i \in DOMAIN servers : servers[i].st \notin {"cancelled", "draining"}
  <1>1. acks \in Seq(Paths) /\ Len(acks) # 0 /\ 1 \in DOMAIN acks
    BY DEF TypeInv, TypeOK
  <1>2. PICK a \in Actors : /\ Waiting(a) /\ at[a] = acks[1] /\ target[a] # Unseen
                            /\ target[a] # None => servers[target[a]].st = "done"
    BY <1>1 DEF CalmInv, TokenInv, AckToken
  <1>3. acks = <<at[a]>>
    <2>1. Len(acks) = 1
      BY <1>1 DEF CalmInv, TokenInv, AckToken
    <2>. QED  BY <1>1, <1>2, <2>1
  <1>4. \A c \in Actors : Waiting(c) => c = a
    BY <1>2, OneActor DEF Waiting, CalmInv
  <1>5. \A k \in DOMAIN cmds : cmds[k].by \in Actors
    BY CmdFacts
  <1>6. \A k \in DOMAIN cmds : cmds[k].op # "unmount"
    BY <1>2, <1>4, <1>5 DEF CalmInv, TokenInv, CmdToken
  <1>7. \A i \in DOMAIN servers : servers[i].st \notin {"cancelled", "draining"}
    <2>1. ASSUME NEW i \in DOMAIN servers, servers[i].st \in {"cancelled", "draining"} PROVE FALSE
      <3>1. PICK c \in Actors : Waiting(c) /\ target[c] = i
        BY <2>1 DEF CalmInv, TokenInv, ServerToken
      <3>2. i # None
        BY DEF TypeInv, TypeOK, None
      <3>. QED  BY <1>2, <1>4, <2>1, <3>1, <3>2
    <2>. QED  BY <2>1
  <1>. QED  BY <1>2, <1>3, <1>4, <1>6, <1>7 DEF CalmInv, TokenInv, WaiterInv

\* An unmount command is the only token, and the last command.
LEMMA CmdAlone ==
  ASSUME TypeInv, CalmInv, cmds # <<>>, Head(cmds).op = "unmount"
  PROVE  /\ cmds = <<Head(cmds)>> /\ Tail(cmds) = <<>> /\ acks = <<>>
         /\ Head(cmds).by \in Actors /\ Waiting(Head(cmds).by) /\ target[Head(cmds).by] = Unseen
         /\ at[Head(cmds).by] = Head(cmds).path /\ Head(cmds).path \in Paths
         /\ \A c \in Actors : Waiting(c) => c = Head(cmds).by
         /\ \A i \in DOMAIN servers : servers[i].st \notin {"cancelled", "draining"}
  <1>1. /\ cmds \in Seq(CmdRec) /\ 1 \in DOMAIN cmds /\ Head(cmds) = cmds[1] /\ cmds[1] \in CmdRec
    BY DEF TypeInv, TypeOK
  <1>2. PICK a \in Actors : a = cmds[1].by
    BY <1>1 DEF CmdRec
  <1>3. Waiting(a) /\ target[a] = Unseen /\ at[a] = cmds[1].path /\ Len(cmds) = 1
    BY <1>1, <1>2 DEF CalmInv, TokenInv, CmdToken
  <1>4. cmds = <<Head(cmds)>> /\ Tail(cmds) = <<>>
    <2>1. cmds = <<cmds[1]>>
      BY <1>1, <1>3
    <2>2. Tail(cmds) = <<>>
      <3>. DEFINE s == Tail(cmds)
      <3>1. s \in Seq(CmdRec) /\ Len(s) = 0
        BY <1>1, <1>3
      <3>. HIDE DEF s
      <3>2. s = <<>>
        BY <3>1
      <3>. QED  BY <3>2 DEF s
    <2>. QED  BY <1>1, <2>1, <2>2
  <1>5. \A c \in Actors : Waiting(c) => c = a
    BY <1>3, OneActor DEF Waiting, CalmInv
  <1>6. acks = <<>>
    BY <1>3, <1>5, AckAlone
  <1>7. \A i \in DOMAIN servers : servers[i].st \notin {"cancelled", "draining"}
    <2>1. ASSUME NEW i \in DOMAIN servers, servers[i].st \in {"cancelled", "draining"} PROVE FALSE
      <3>1. PICK c \in Actors : Waiting(c) /\ target[c] = i
        BY <2>1 DEF CalmInv, TokenInv, ServerToken
      <3>2. i # Unseen
        BY DEF TypeInv, TypeOK, Unseen
      <3>. QED  BY <1>3, <1>5, <3>1, <3>2
    <2>. QED  BY <2>1
  <1>8. cmds[1].path \in Paths
    BY <1>1 DEF CmdRec
  <1>. QED  BY <1>1, <1>2, <1>3, <1>4, <1>5, <1>6, <1>7, <1>8

\* A server that goes down is the only token.
LEMMA ServerAlone ==
  ASSUME TypeInv, CalmInv, NEW i \in DOMAIN servers, servers[i].st \in {"cancelled", "draining"}
  PROVE  \E a \in Actors :
           /\ Waiting(a) /\ target[a] = i /\ at[a] = servers[i].path /\ i # Unseen /\ i # None
           /\ servers[i].box = a[1] \/ phase[servers[i].box] = "failed"
           /\ \A c \in Actors : Waiting(c) => c = a
           /\ \A k \in DOMAIN cmds : cmds[k].op # "unmount"
           /\ \A j \in DOMAIN servers : j # i => servers[j].st \notin {"cancelled", "draining"}
           /\ acks = <<>>
  <1>1. PICK a \in Actors : /\ Waiting(a) /\ target[a] = i /\ at[a] = servers[i].path
                            /\ servers[i].box = a[1] \/ phase[servers[i].box] = "failed"
    BY DEF CalmInv, TokenInv, ServerToken
  <1>2. i # Unseen /\ i # None
    BY DEF TypeInv, TypeOK, None, Unseen
  <1>3. \A c \in Actors : Waiting(c) => c = a
    BY <1>1, OneActor DEF Waiting, CalmInv
  <1>4. \A k \in DOMAIN cmds : cmds[k].by \in Actors
    BY CmdFacts
  <1>5. \A k \in DOMAIN cmds : cmds[k].op # "unmount"
    BY <1>1, <1>2, <1>3, <1>4 DEF CalmInv, TokenInv, CmdToken
  <1>6. acks = <<>>
    BY AckAlone
  <1>7. \A j \in DOMAIN servers : j # i => servers[j].st \notin {"cancelled", "draining"}
    BY <1>1, <1>3 DEF CalmInv, TokenInv, ServerToken
  <1>. QED  BY <1>1, <1>2, <1>3, <1>5, <1>6, <1>7

\* The token in the pipe.
LEMMA CmdTokenStep ==
  ASSUME TypeInv, Calm, CalmInv, Next
  PROVE  CmdToken'
  <1>t. /\ cmds \in Seq(CmdRec)
        /\ pc \in [Actors -> PcStates]
        /\ acked \in [Actors -> BOOLEAN]
        /\ target \in [Actors -> {Unseen, None} \union DOMAIN servers]
        /\ at \in [Actors -> Paths]
    BY DEF TypeInv, TypeOK
  <1>w. world' = world
    BY DEF Next
  <1>a. /\ \A b \in Boxes : /\ Rec(b) \in Actors /\ Td(b) \in Actors /\ Rec(b)[1] = b
                            /\ Td(b)[1] = b /\ Rec(b) # Td(b)
        /\ \A a \in Actors : a[1] \in Boxes /\ (a = Rec(a[1]) \/ a = Td(a[1]))
        /\ Boxes \subseteq Nat
    BY ActorFacts
  <1>c. \A k \in DOMAIN cmds : cmds[k].by \in Actors /\ cmds[k].path \in Paths
    BY CmdFacts
  <1>i. CmdToken /\ TurnInv /\ PlanInv
    BY DEF CalmInv, TokenInv
  <1>0. CASE UNCHANGED <<cmds, pc, acked, target, at>>
    BY <1>0, <1>i DEF CmdToken, Waiting
  <1>1. ASSUME NEW b \in Boxes, NEW d \in Configs, CreatePacked(b, d) PROVE CmdToken'
    BY <1>t, <1>w, <1>a, <1>c, <1>i, <1>1 DEF CreatePacked, Begin, planFsReconcile, fuseVars, CmdToken,
       Waiting
  <1>2. ASSUME NEW b \in Boxes, NEW d \in Configs, Reapply(b, d) PROVE CmdToken'
    BY <1>t, <1>w, <1>a, <1>c, <1>i, <1>2 DEF Reapply, Begin, planFsReconcile, fuseVars, CmdToken,
       Waiting
  <1>3. ASSUME NEW b \in Boxes, NEW ok \in BOOLEAN, Finish(b, ok) PROVE CmdToken'
    BY <1>t, <1>w, <1>a, <1>c, <1>i, <1>3 DEF Finish, MayFail, fuseVars, CmdToken, Waiting
  <1>4. ASSUME NEW b \in Boxes, NEW p \in Paths, ReACL(b, p) PROVE CmdToken'
    <2>1. \A k \in DOMAIN cmds : cmds[k].op # "unmount"
      BY <1>a, <1>4, Quiet DEF ReACL, Waiting
    <2>2. CASE cmds' = cmds
      BY <2>1, <2>2 DEF CmdToken
    <2>3. CASE cmds' = Append(cmds, [op |-> "reacl", path |-> p, by |-> Rec(b)])
      <3>1. [op |-> "reacl", path |-> p, by |-> Rec(b)] \in CmdRec
        BY <1>a DEF CmdRec
      <3>2. \A k \in DOMAIN cmds' : cmds'[k].op # "unmount"
        BY <2>1, <2>3, <3>1, CmdAppend
      <3>. QED  BY <3>2 DEF CmdToken
    <2>. QED  BY <2>2, <2>3, <1>4 DEF ReACL
  <1>5. ASSUME NEW b \in Boxes, NEW p \in Paths, StartMount(b, p) PROVE CmdToken'
    <2>1. \A k \in DOMAIN cmds : cmds[k].op # "unmount"
      BY <1>a, <1>5, Quiet DEF StartMount, Waiting
    <2>2. [op |-> "mount", path |-> p, by |-> Rec(b)] \in CmdRec
      BY <1>a DEF CmdRec
    <2>3. \A k \in DOMAIN cmds' : cmds'[k].op # "unmount"
      BY <2>1, <2>2, <1>5, CmdAppend DEF StartMount
    <2>. QED  BY <2>3 DEF CmdToken
  <1>6. ASSUME NEW b \in Boxes, MountSeen(b) PROVE CmdToken'
    BY <1>t, <1>w, <1>a, <1>c, <1>i, <1>6 DEF MountSeen, mgrVars, fuseVars, CmdToken, Waiting
  <1>7. ASSUME NEW b \in Boxes, Exported(b) PROVE CmdToken'
    BY <1>t, <1>w, <1>a, <1>c, <1>i, <1>7 DEF Exported, fuseVars, CmdToken, Waiting
  <1>8. ASSUME NEW b \in Boxes, MountFailed(b) PROVE CmdToken'
    BY <1>t, <1>w, <1>a, <1>c, <1>i, <1>8 DEF MountFailed, MayFail, mgrVars, fuseVars, CmdToken,
       Waiting
  <1>9. ASSUME NEW a \in Actors, NEW p \in Paths, StopPath(a, p) PROVE CmdToken'
    BY <1>t, <1>w, <1>a, <1>c, <1>i, <1>9 DEF StopPath, actVars, fuseVars, CmdToken, Waiting
  <1>10. ASSUME NEW a \in Actors, SendUnmount(a) PROVE CmdToken'
    <2>1. \A k \in DOMAIN cmds : cmds[k].op # "unmount"
      BY <1>a, <1>10, Quiet DEF SendUnmount, Waiting
    <2>2. [op |-> "unmount", path |-> at[a], by |-> a] \in CmdRec
      BY <1>t DEF CmdRec
    <2>3. cmds' = Append(cmds, [op |-> "unmount", path |-> at[a], by |-> a])
      BY <1>10 DEF SendUnmount
    <2>4. \A k \in DOMAIN cmds' : cmds'[k].op = "unmount" =>
            k = Len(cmds') /\ cmds'[k] = [op |-> "unmount", path |-> at[a], by |-> a]
      BY <2>1, <2>2, <2>3, CmdAppend
    <2>5. Waiting(a)' /\ target'[a] = Unseen /\ at'[a] = at[a]
      BY <1>t, <1>10 DEF SendUnmount, Waiting
    <2>. QED  BY <2>4, <2>5 DEF CmdToken
  <1>11. ASSUME NEW a \in Actors, Acked(a) PROVE CmdToken'
    BY <1>t, <1>w, <1>a, <1>c, <1>i, <1>11 DEF Acked, mgrVars, fuseVars, CmdToken, Waiting
  <1>12. ASSUME NEW a \in Actors, Unregister(a) PROVE CmdToken'
    BY <1>t, <1>w, <1>a, <1>c, <1>i, <1>12 DEF Unregister, mgrVars, fuseVars, CmdToken, Waiting
  <1>13. ASSUME NEW b \in Boxes, StopAll(b) PROVE CmdToken'
    BY <1>t, <1>w, <1>a, <1>c, <1>i, <1>13 DEF StopAll, fuseVars, CmdToken, Waiting
  <1>14. ASSUME NEW b \in Boxes, ClearTree(b) PROVE CmdToken'
    BY <1>t, <1>w, <1>a, <1>c, <1>i, <1>14 DEF ClearTree, CmdToken, Waiting
  <1>15. ASSUME TakeAck PROVE CmdToken'
    <2>1. cmds' = cmds /\ \A k \in DOMAIN cmds : cmds[k].op # "unmount"
      BY <1>15, AckAlone DEF TakeAck
    <2>. QED  BY <2>1 DEF CmdToken
  <1>16. ASSUME CmdMount PROVE CmdToken'
    <2>1. cmds # <<>> /\ cmds' = Tail(cmds) /\ Head(cmds).op # "unmount" /\ UNCHANGED <<pc, acked, target, at>>
      BY <1>16 DEF CmdMount, mgrVars, actVars
    <2>2. ASSUME NEW k \in DOMAIN cmds', cmds'[k].op = "unmount"
          PROVE  k = Len(cmds') /\ Waiting(cmds'[k].by) /\ target[cmds'[k].by] = Unseen /\ at[cmds'[k].by] = cmds'[k].path
      <3>1. /\ k + 1 \in DOMAIN cmds /\ cmds'[k] = cmds[k + 1] /\ Len(cmds') = Len(cmds) - 1 /\ k \in Nat
            /\ Len(cmds) \in Nat
        BY <2>1, CmdTail
      <3>. QED  BY <2>2, <3>1 DEF CalmInv, TokenInv, CmdToken
    <2>. QED  BY <2>1, <2>2 DEF CmdToken, Waiting
  <1>17. ASSUME CmdUnmount PROVE CmdToken'
    <2>1. cmds' = <<>>
      BY <1>17, CmdAlone DEF CmdUnmount
    <2>. QED  BY <2>1 DEF CmdToken
  <1>18. ASSUME CmdReACL PROVE CmdToken'
    <2>1. cmds # <<>> /\ cmds' = Tail(cmds) /\ Head(cmds).op # "unmount" /\ UNCHANGED <<pc, acked, target, at>>
      BY <1>18 DEF CmdReACL, mgrVars, actVars
    <2>2. ASSUME NEW k \in DOMAIN cmds', cmds'[k].op = "unmount"
          PROVE  k = Len(cmds') /\ Waiting(cmds'[k].by) /\ target[cmds'[k].by] = Unseen /\ at[cmds'[k].by] = cmds'[k].path
      <3>1. /\ k + 1 \in DOMAIN cmds /\ cmds'[k] = cmds[k + 1] /\ Len(cmds') = Len(cmds) - 1 /\ k \in Nat
            /\ Len(cmds) \in Nat
        BY <2>1, CmdTail
      <3>. QED  BY <2>2, <3>1 DEF CalmInv, TokenInv, CmdToken
    <2>. QED  BY <2>1, <2>2 DEF CmdToken, Waiting
  <1>19. ASSUME NEW b \in Boxes,
               End(b)
        PROVE  CmdToken'
    BY <1>0, <1>19 DEF End, actVars, fuseVars
  <1>20. ASSUME NEW i \in DOMAIN servers,
               Detach(i) \/ Drained(i)
        PROVE  CmdToken'
    BY <1>0, <1>20 DEF Detach, mgrVars, actVars, Drained
  <1>. QED
    BY <1>0, <1>1, <1>2, <1>3, <1>4, <1>5, <1>6, <1>7, <1>8, <1>9, <1>10, <1>11, <1>12, <1>13,
       <1>14, <1>15, <1>16, <1>17, <1>18, <1>19, <1>20 DEF Calm, AckLapses, Next, MountStep,
       RecStep, Unmounting, Sbxfuse

\* The token in a server.
LEMMA ServerTokenStep ==
  ASSUME TypeInv, Calm, CalmInv, Next
  PROVE  ServerToken'
  <1>t. /\ servers \in Seq(SrvRec)
        /\ pc \in [Actors -> PcStates]
        /\ acked \in [Actors -> BOOLEAN]
        /\ target \in [Actors -> {Unseen, None} \union DOMAIN servers]
        /\ at \in [Actors -> Paths]
        /\ phase \in [Boxes -> Phases]
    BY DEF TypeInv, TypeOK
  <1>w. world' = world
    BY DEF Next
  <1>a. /\ \A b \in Boxes : /\ Rec(b) \in Actors /\ Td(b) \in Actors /\ Rec(b)[1] = b
                            /\ Td(b)[1] = b /\ Rec(b) # Td(b)
        /\ \A a \in Actors : a[1] \in Boxes /\ (a = Rec(a[1]) \/ a = Td(a[1]))
        /\ Boxes \subseteq Nat
    BY ActorFacts
  <1>s. \A i \in DOMAIN servers : servers[i].path \in Paths /\ servers[i].box \in Boxes
    BY SrvFacts
  <1>i. CmdToken /\ ServerToken /\ AckToken /\ WaiterInv /\ AckedInv /\ TurnInv /\ PlanInv
    BY DEF CalmInv, TokenInv
  <1>0. CASE UNCHANGED <<servers, pc, acked, target, at, phase>>
    BY <1>0, <1>i DEF ServerToken, Waiting
  <1>1. ASSUME NEW b \in Boxes, NEW d \in Configs, CreatePacked(b, d) PROVE ServerToken'
    BY <1>t, <1>w, <1>a, <1>s, <1>i, <1>1 DEF CreatePacked, Begin, planFsReconcile, fuseVars,
       ServerToken, Waiting
  <1>2. ASSUME NEW b \in Boxes, NEW d \in Configs, Reapply(b, d) PROVE ServerToken'
    BY <1>t, <1>w, <1>a, <1>s, <1>i, <1>2 DEF Reapply, Begin, planFsReconcile, fuseVars,
       ServerToken, Waiting
  <1>3. ASSUME NEW b \in Boxes, NEW ok \in BOOLEAN, Finish(b, ok) PROVE ServerToken'
    <2>1. servers' = servers /\ \A i \in DOMAIN servers : servers[i].st \notin {"cancelled", "draining"}
      BY <1>a, <1>3, Quiet DEF Finish, Waiting, fuseVars
    <2>. QED  BY <2>1 DEF ServerToken
  <1>4. ASSUME NEW b \in Boxes, NEW p \in Paths, StartMount(b, p) PROVE ServerToken'
    <2>1. servers' = servers /\ \A i \in DOMAIN servers : servers[i].st \notin {"cancelled", "draining"}
      BY <1>a, <1>4, Quiet DEF StartMount, Waiting, fuseVars
    <2>. QED  BY <2>1 DEF ServerToken
  <1>5. ASSUME NEW b \in Boxes, MountSeen(b) PROVE ServerToken'
    <2>1. servers' = servers /\ \A i \in DOMAIN servers : servers[i].st \notin {"cancelled", "draining"}
      BY <1>a, <1>5, Quiet DEF MountSeen, Waiting, fuseVars
    <2>. QED  BY <2>1 DEF ServerToken
  <1>6. ASSUME NEW b \in Boxes, Exported(b) PROVE ServerToken'
    <2>1. servers' = servers /\ \A i \in DOMAIN servers : servers[i].st \notin {"cancelled", "draining"}
      BY <1>a, <1>6, Quiet DEF Exported, Waiting, fuseVars
    <2>. QED  BY <2>1 DEF ServerToken
  <1>7. ASSUME NEW b \in Boxes, MountFailed(b) PROVE ServerToken'
    <2>1. servers' = servers /\ \A i \in DOMAIN servers : servers[i].st \notin {"cancelled", "draining"}
      BY <1>a, <1>7, Quiet DEF MountFailed, Waiting, fuseVars
    <2>. QED  BY <2>1 DEF ServerToken
  <1>8. ASSUME NEW a \in Actors, NEW p \in Paths, StopPath(a, p) PROVE ServerToken'
    <2>1. servers' = servers /\ \A i \in DOMAIN servers : servers[i].st \notin {"cancelled", "draining"}
      BY <1>a, <1>8, Quiet DEF StopPath, Waiting, fuseVars
    <2>. QED  BY <2>1 DEF ServerToken
  <1>9. ASSUME NEW a \in Actors, SendUnmount(a) PROVE ServerToken'
    <2>1. servers' = servers /\ \A i \in DOMAIN servers : servers[i].st \notin {"cancelled", "draining"}
      BY <1>9, Quiet DEF SendUnmount, Waiting, fuseVars
    <2>. QED  BY <2>1 DEF ServerToken
  <1>10. ASSUME NEW a \in Actors, Acked(a) PROVE ServerToken'
    <2>1. servers' = servers /\ \A i \in DOMAIN servers : servers[i].st \notin {"cancelled", "draining"}
      BY <1>a, <1>10, Quiet DEF Acked, Waiting, fuseVars
    <2>. QED  BY <2>1 DEF ServerToken
  <1>11. ASSUME NEW a \in Actors, Unregister(a) PROVE ServerToken'
    <2>1. servers' = servers /\ \A i \in DOMAIN servers : servers[i].st \notin {"cancelled", "draining"}
      BY <1>a, <1>11, Quiet DEF Unregister, Waiting, fuseVars
    <2>. QED  BY <2>1 DEF ServerToken
  <1>12. ASSUME NEW b \in Boxes, End(b) PROVE ServerToken'
    BY <1>t, <1>w, <1>a, <1>s, <1>i, <1>12 DEF End, actVars, fuseVars, ServerToken, Waiting
  <1>13. ASSUME NEW b \in Boxes, StopAll(b) PROVE ServerToken'
    BY <1>t, <1>w, <1>a, <1>s, <1>i, <1>13 DEF StopAll, fuseVars, ServerToken, Waiting
  <1>14. ASSUME NEW b \in Boxes, ClearTree(b) PROVE ServerToken'
    BY <1>t, <1>w, <1>a, <1>s, <1>i, <1>14 DEF ClearTree, ServerToken, Waiting
  <1>15. ASSUME TakeAck PROVE ServerToken'
    <2>1. servers' = servers /\ \A i \in DOMAIN servers : servers[i].st \notin {"cancelled", "draining"}
      BY <1>15, AckAlone DEF TakeAck, fuseVars
    <2>. QED  BY <2>1 DEF ServerToken
  <1>16. ASSUME CmdMount PROVE ServerToken'
    <2>0. UNCHANGED <<pc, acked, target, at, phase>>
      BY <1>16 DEF CmdMount, actVars, mgrVars
    <2>1. CASE servers' = servers
      BY <1>i, <2>0, <2>1 DEF ServerToken, Waiting
    <2>2. CASE \E s \in SrvRec : servers' = Append(servers, s) /\ s.st = "serving"
      <3>1. \A i \in DOMAIN servers' : servers'[i].st # "serving" => i \in DOMAIN servers /\ servers'[i] = servers[i]
        BY <2>2, SrvAppend
      <3>2. ASSUME NEW i \in DOMAIN servers', servers'[i].st \in {"cancelled", "draining"}
            PROVE  i \in DOMAIN servers /\ servers'[i] = servers[i]
        BY <3>1, <3>2
      <3>. QED  BY <1>i, <2>0, <3>2 DEF ServerToken, Waiting
    <2>. QED  BY <2>1, <2>2, <1>16, SrvMount DEF fuseVars
  <1>17. ASSUME CmdUnmount PROVE ServerToken'
    <2>0. UNCHANGED <<pc, acked, at, phase>>
      BY <1>17 DEF CmdUnmount, actVars, mgrVars
    <2>1. PICK a \in Actors : /\ a = Head(cmds).by /\ Waiting(a) /\ at[a] = Head(cmds).path
                              /\ Head(cmds).path \in Paths
                              /\ \A j \in DOMAIN servers : servers[j].st \notin {"cancelled", "draining"}
      BY <1>17, CmdAlone DEF CmdUnmount
    <2>2. target' = [target EXCEPT ![a] = mounts[at[a]]] /\ Waiting(a)' /\ at'[a] = at[a]
      BY <2>0, <2>1, <1>17 DEF CmdUnmount, Waiting
    <2>3. CASE servers' = servers
      BY <2>1, <2>3 DEF ServerToken
    <2>4. CASE mounts[at[a]] # None /\ servers' = [servers EXCEPT ![mounts[at[a]]].st = "cancelled"]
      <3>1. PICK i \in DOMAIN servers : i = mounts[at[a]]
        BY <2>1, <2>4 DEF TypeInv, TypeOK
      <3>2. servers[i].path = at[a] /\ servers[i].st = "serving"
        BY <2>1, <2>4, <3>1 DEF CalmInv, ServerInv, MapInv
      <3>3. servers[i].box = a[1] \/ phase[servers[i].box] = "failed"
        <4>1. SUFFICES ASSUME phase[servers[i].box] # "failed" PROVE servers[i].box = a[1]
          OBVIOUS
        <4>2. MayServe(servers[i].box, servers[i].path) /\ servers[i].box \in Boxes /\ servers[i].path \in Paths
          BY <3>2, <4>1, SrvFacts DEF CalmInv, ServerInv, OwnerInv
        <4>3. phase[servers[i].box] \in Busy /\ phase[a[1]] \in Busy
          BY <2>1, <4>1, <4>2, MayServeBusy, ActiveBusy DEF CalmInv, Waiting
        <4>. QED  BY <1>a, <4>2, <4>3, OneBusy DEF CalmInv
      <3>4. /\ DOMAIN servers' = DOMAIN servers /\ servers'[i].path = servers[i].path
            /\ servers'[i].box = servers[i].box
            /\ \A j \in DOMAIN servers : j # i => servers'[j] = servers[j]
        <4>1. servers' = [servers EXCEPT ![i].st = "cancelled"]
          BY <2>4, <3>1
        <4>. QED  BY <4>1, SrvSet
      <3>5. target'[a] = i
        BY <1>t, <2>2, <3>1
      <3>. QED  BY <2>0, <2>1, <2>2, <3>2, <3>3, <3>4, <3>5 DEF ServerToken
    <2>. QED  BY <2>1, <2>3, <2>4, <1>17 DEF CmdUnmount
  <1>18. ASSUME CmdReACL PROVE ServerToken'
    <2>0. UNCHANGED <<pc, acked, target, at, phase>>
      BY <1>18 DEF CmdReACL, actVars, mgrVars
    <2>1. /\ DOMAIN servers' = DOMAIN servers
          /\ \A j \in DOMAIN servers : /\ servers'[j].path = servers[j].path
                                       /\ servers'[j].box = servers[j].box
                                       /\ servers'[j].st = servers[j].st
      BY <1>18, SrvReACL
    <2>. QED  BY <1>i, <2>0, <2>1 DEF ServerToken, Waiting
  <1>19. ASSUME NEW i \in DOMAIN servers, Detach(i) PROVE ServerToken'
    <2>0. UNCHANGED <<pc, acked, target, at, phase>>
      BY <1>19 DEF Detach, actVars, mgrVars
    <2>1. servers[i].st = "cancelled" /\ servers' = [servers EXCEPT ![i].st = "draining"]
      BY <1>19 DEF Detach
    <2>2. PICK a \in Actors :
            /\ Waiting(a) /\ target[a] = i /\ at[a] = servers[i].path
            /\ servers[i].box = a[1] \/ phase[servers[i].box] = "failed"
            /\ \A j \in DOMAIN servers : j # i => servers[j].st \notin {"cancelled", "draining"}
      BY <2>1, ServerAlone
    <2>3. /\ DOMAIN servers' = DOMAIN servers /\ servers'[i].path = servers[i].path
          /\ servers'[i].box = servers[i].box /\ servers'[i].st = "draining"
          /\ \A j \in DOMAIN servers : j # i => servers'[j] = servers[j]
      BY <2>1, SrvSet
    <2>. QED  BY <2>0, <2>2, <2>3 DEF ServerToken, Waiting
  <1>20. ASSUME NEW i \in DOMAIN servers, Drained(i) PROVE ServerToken'
    <2>0. UNCHANGED <<pc, acked, target, at, phase>>
      BY <1>20 DEF Drained, actVars, mgrVars
    <2>1. servers[i].st = "draining" /\ servers' = [servers EXCEPT ![i].st = "done"]
      BY <1>20 DEF Drained
    <2>2. PICK a \in Actors :
            /\ Waiting(a) /\ target[a] = i /\ at[a] = servers[i].path
            /\ servers[i].box = a[1] \/ phase[servers[i].box] = "failed"
            /\ \A j \in DOMAIN servers : j # i => servers[j].st \notin {"cancelled", "draining"}
      BY <2>1, ServerAlone
    <2>3. /\ DOMAIN servers' = DOMAIN servers /\ servers'[i].path = servers[i].path
          /\ servers'[i].box = servers[i].box /\ servers'[i].st = "done"
          /\ \A j \in DOMAIN servers : j # i => servers'[j] = servers[j]
      BY <2>1, SrvSet
    <2>. QED  BY <2>0, <2>2, <2>3 DEF ServerToken, Waiting
  <1>21. ASSUME NEW b \in Boxes, NEW p \in Paths,
               ReACL(b, p)
        PROVE  ServerToken'
    BY <1>0, <1>21 DEF ReACL, actVars, fuseVars
  <1>. QED
    BY <1>0, <1>1, <1>2, <1>3, <1>4, <1>5, <1>6, <1>7, <1>8, <1>9, <1>10, <1>11, <1>12, <1>13,
       <1>14, <1>15, <1>16, <1>17, <1>18, <1>19, <1>20, <1>21 DEF Calm, AckLapses, Next,
       MountStep, RecStep, Unmounting, Sbxfuse

\* The token on the event stream.
LEMMA AckTokenStep ==
  ASSUME TypeInv, Calm, CalmInv, Next
  PROVE  AckToken'
  <1>t. /\ acks \in Seq(Paths)
        /\ servers \in Seq(SrvRec)
        /\ pc \in [Actors -> PcStates]
        /\ acked \in [Actors -> BOOLEAN]
        /\ target \in [Actors -> {Unseen, None} \union DOMAIN servers]
        /\ at \in [Actors -> Paths]
    BY DEF TypeInv, TypeOK
  <1>w. world' = world
    BY DEF Next
  <1>a. /\ \A b \in Boxes : /\ Rec(b) \in Actors /\ Td(b) \in Actors /\ Rec(b)[1] = b
                            /\ Td(b)[1] = b /\ Rec(b) # Td(b)
        /\ \A a \in Actors : a[1] \in Boxes /\ (a = Rec(a[1]) \/ a = Td(a[1]))
        /\ Boxes \subseteq Nat
    BY ActorFacts
  <1>i. CmdToken /\ ServerToken /\ AckToken /\ WaiterInv /\ AckedInv /\ TurnInv /\ PlanInv
    BY DEF CalmInv, TokenInv
  <1>0. CASE UNCHANGED <<acks, servers, pc, acked, target, at>>
    BY <1>0, <1>i DEF AckToken, Waiting
  <1>1. ASSUME NEW b \in Boxes, NEW d \in Configs, CreatePacked(b, d) PROVE AckToken'
    BY <1>t, <1>w, <1>a, <1>i, <1>1 DEF CreatePacked, Begin, planFsReconcile, fuseVars, AckToken,
       Waiting
  <1>2. ASSUME NEW b \in Boxes, NEW d \in Configs, Reapply(b, d) PROVE AckToken'
    BY <1>t, <1>w, <1>a, <1>i, <1>2 DEF Reapply, Begin, planFsReconcile, fuseVars, AckToken,
       Waiting
  <1>3. ASSUME NEW b \in Boxes, NEW ok \in BOOLEAN, Finish(b, ok) PROVE AckToken'
    BY <1>t, <1>w, <1>a, <1>i, <1>3 DEF Finish, MayFail, fuseVars, AckToken, Waiting
  <1>4. ASSUME NEW b \in Boxes, NEW p \in Paths, StartMount(b, p) PROVE AckToken'
    BY <1>t, <1>w, <1>a, <1>i, <1>4 DEF StartMount, fuseVars, AckToken, Waiting
  <1>5. ASSUME NEW b \in Boxes, MountSeen(b) PROVE AckToken'
    BY <1>t, <1>w, <1>a, <1>i, <1>5 DEF MountSeen, mgrVars, fuseVars, AckToken, Waiting
  <1>6. ASSUME NEW b \in Boxes, Exported(b) PROVE AckToken'
    BY <1>t, <1>w, <1>a, <1>i, <1>6 DEF Exported, fuseVars, AckToken, Waiting
  <1>7. ASSUME NEW b \in Boxes, MountFailed(b) PROVE AckToken'
    BY <1>t, <1>w, <1>a, <1>i, <1>7 DEF MountFailed, MayFail, mgrVars, fuseVars, AckToken, Waiting
  <1>8. ASSUME NEW a \in Actors, NEW p \in Paths, StopPath(a, p) PROVE AckToken'
    BY <1>t, <1>w, <1>a, <1>i, <1>8 DEF StopPath, actVars, fuseVars, AckToken, Waiting
  <1>9. ASSUME NEW a \in Actors, SendUnmount(a) PROVE AckToken'
    <2>1. acks' = <<>>
      BY <1>9, Quiet DEF SendUnmount, Waiting
    <2>. QED  BY <2>1 DEF AckToken
  <1>10. ASSUME NEW a \in Actors, Acked(a) PROVE AckToken'
    BY <1>t, <1>w, <1>a, <1>i, <1>10 DEF Acked, mgrVars, fuseVars, AckToken, Waiting
  <1>11. ASSUME NEW a \in Actors, Unregister(a) PROVE AckToken'
    BY <1>t, <1>w, <1>a, <1>i, <1>11 DEF Unregister, mgrVars, fuseVars, AckToken, Waiting
  <1>12. ASSUME NEW b \in Boxes, StopAll(b) PROVE AckToken'
    BY <1>t, <1>w, <1>a, <1>i, <1>12 DEF StopAll, fuseVars, AckToken, Waiting
  <1>13. ASSUME NEW b \in Boxes, ClearTree(b) PROVE AckToken'
    BY <1>t, <1>w, <1>a, <1>i, <1>13 DEF ClearTree, AckToken, Waiting
  <1>14. ASSUME TakeAck PROVE AckToken'
    <2>1. PICK x : acks = <<x>>
      BY <1>14, AckAlone DEF TakeAck
    <2>2. acks' = <<>>
      BY <2>1, <1>14 DEF TakeAck
    <2>. QED  BY <2>2 DEF AckToken
  <1>15. ASSUME CmdMount PROVE AckToken'
    <2>0. UNCHANGED <<pc, acked, target, at, acks>>
      BY <1>15 DEF CmdMount, actVars
    <2>1. \A j \in DOMAIN servers : servers'[j] = servers[j]
      BY <1>15, SrvMount, SrvAppend DEF fuseVars
    <2>. QED  BY <1>t, <1>i, <2>0, <2>1 DEF AckToken, Waiting
  <1>16. ASSUME CmdUnmount PROVE AckToken'
    <2>0. UNCHANGED <<pc, acked, at>>
      BY <1>16 DEF CmdUnmount, actVars
    <2>1. PICK a \in Actors : a = Head(cmds).by /\ Waiting(a) /\ at[a] = Head(cmds).path
      BY <1>16, CmdAlone DEF CmdUnmount
    <2>2. acks = <<>> /\ (acks' = acks \/ (acks' = Append(acks, at[a]) /\ mounts[at[a]] = None))
      BY <2>1, <1>16, CmdAlone DEF CmdUnmount
    <2>3. CASE acks' = acks
      BY <2>2, <2>3 DEF AckToken
    <2>4. CASE acks' = Append(acks, at[a]) /\ mounts[at[a]] = None
      <3>1. acks' = <<at[a]>>
        BY <2>2, <2>4
      <3>2. target'[a] = None /\ None # Unseen /\ Waiting(a)' /\ at'[a] = at[a]
        BY <1>t, <2>0, <2>1, <2>4, <1>16 DEF CmdUnmount, Waiting, None, Unseen
      <3>. QED  BY <3>1, <3>2 DEF AckToken
    <2>. QED  BY <2>2, <2>3, <2>4
  <1>17. ASSUME CmdReACL PROVE AckToken'
    <2>0. UNCHANGED <<pc, acked, target, at, acks>>
      BY <1>17 DEF CmdReACL, actVars
    <2>1. \A j \in DOMAIN servers : servers'[j].st = servers[j].st
      BY <1>17, SrvReACL
    <2>. QED  BY <1>t, <1>i, <2>0, <2>1 DEF AckToken, Waiting
  <1>18. ASSUME NEW i \in DOMAIN servers, Detach(i) PROVE AckToken'
    <2>1. acks' = <<>>
      BY <1>18, ServerAlone DEF Detach
    <2>. QED  BY <2>1 DEF AckToken
  <1>19. ASSUME NEW i \in DOMAIN servers, Drained(i) PROVE AckToken'
    <2>0. UNCHANGED <<pc, acked, target, at>> /\ servers[i].st = "draining"
          /\ servers' = [servers EXCEPT ![i].st = "done"] /\ acks' = Append(acks, servers[i].path)
      BY <1>19 DEF Drained, actVars
    <2>1. PICK a \in Actors : Waiting(a) /\ target[a] = i /\ at[a] = servers[i].path /\ i # Unseen /\ acks = <<>>
      BY <2>0, ServerAlone
    <2>2. servers'[i].st = "done"
      BY <2>0, SrvSet
    <2>3. acks' = <<at[a]>>
      BY <2>0, <2>1
    <2>. QED  BY <2>0, <2>1, <2>2, <2>3 DEF AckToken, Waiting
  <1>20. ASSUME NEW b \in Boxes, NEW p \in Paths,
               ReACL(b, p)
        PROVE  AckToken'
    BY <1>0, <1>20 DEF ReACL, actVars, fuseVars
  <1>21. ASSUME NEW b \in Boxes,
               End(b)
        PROVE  AckToken'
    BY <1>0, <1>21 DEF End, actVars, fuseVars
  <1>. QED
    BY <1>0, <1>1, <1>2, <1>3, <1>4, <1>5, <1>6, <1>7, <1>8, <1>9, <1>10, <1>11, <1>12, <1>13,
       <1>14, <1>15, <1>16, <1>17, <1>18, <1>19, <1>20, <1>21 DEF Calm, AckLapses, Next,
       MountStep, RecStep, Unmounting, Sbxfuse

\* The waiter is registered.
LEMMA WaiterStep ==
  ASSUME TypeInv, Calm, CalmInv, Next
  PROVE  WaiterInv'
  <1>t. /\ pc \in [Actors -> PcStates]
        /\ acked \in [Actors -> BOOLEAN]
        /\ at \in [Actors -> Paths]
        /\ waiters \in [Paths -> Actors \union {NoActor}]
    BY DEF TypeInv, TypeOK
  <1>w. world' = world
    BY DEF Next
  <1>a. /\ \A b \in Boxes : /\ Rec(b) \in Actors /\ Td(b) \in Actors /\ Rec(b)[1] = b
                            /\ Td(b)[1] = b /\ Rec(b) # Td(b)
        /\ \A a \in Actors : a[1] \in Boxes /\ (a = Rec(a[1]) \/ a = Td(a[1]))
        /\ Boxes \subseteq Nat
    BY ActorFacts
  <1>o. \A a, c \in Actors : pc[a] # "idle" /\ pc[c] # "idle" => a = c
    BY OneActor DEF CalmInv
  <1>i. CmdToken /\ ServerToken /\ AckToken /\ WaiterInv /\ AckedInv /\ TurnInv /\ PlanInv
    BY DEF CalmInv, TokenInv
  <1>0. CASE UNCHANGED <<pc, acked, at, waiters>>
    BY <1>0, <1>i DEF WaiterInv, Waiting
  <1>1. ASSUME NEW b \in Boxes, NEW d \in Configs, CreatePacked(b, d) PROVE WaiterInv'
    BY <1>t, <1>w, <1>a, <1>o, <1>i, <1>1 DEF CreatePacked, Begin, planFsReconcile, fuseVars, WaiterInv,
       Waiting
  <1>2. ASSUME NEW b \in Boxes, NEW d \in Configs, Reapply(b, d) PROVE WaiterInv'
    BY <1>t, <1>w, <1>a, <1>o, <1>i, <1>2 DEF Reapply, Begin, planFsReconcile, fuseVars,
       WaiterInv, Waiting
  <1>3. ASSUME NEW b \in Boxes, NEW ok \in BOOLEAN, Finish(b, ok) PROVE WaiterInv'
    BY <1>t, <1>w, <1>a, <1>o, <1>i, <1>3 DEF Finish, MayFail, fuseVars, WaiterInv, Waiting
  <1>4. ASSUME NEW b \in Boxes, NEW p \in Paths, StartMount(b, p) PROVE WaiterInv'
    BY <1>t, <1>w, <1>a, <1>o, <1>i, <1>4 DEF StartMount, fuseVars, WaiterInv, Waiting
  <1>5. ASSUME NEW b \in Boxes, MountSeen(b) PROVE WaiterInv'
    BY <1>t, <1>w, <1>a, <1>o, <1>i, <1>5 DEF MountSeen, mgrVars, fuseVars, WaiterInv, Waiting
  <1>6. ASSUME NEW b \in Boxes, Exported(b) PROVE WaiterInv'
    BY <1>t, <1>w, <1>a, <1>o, <1>i, <1>6 DEF Exported, fuseVars, WaiterInv, Waiting
  <1>7. ASSUME NEW b \in Boxes, MountFailed(b) PROVE WaiterInv'
    BY <1>t, <1>w, <1>a, <1>o, <1>i, <1>7 DEF MountFailed, MayFail, mgrVars, fuseVars, WaiterInv,
       Waiting
  <1>8. ASSUME NEW a \in Actors, NEW p \in Paths, StopPath(a, p) PROVE WaiterInv'
    BY <1>t, <1>w, <1>a, <1>o, <1>i, <1>8 DEF StopPath, actVars, fuseVars, WaiterInv, Waiting
  <1>9. ASSUME NEW a \in Actors, SendUnmount(a) PROVE WaiterInv'
    BY <1>t, <1>w, <1>a, <1>o, <1>i, <1>9 DEF SendUnmount, mgrVars, fuseVars, WaiterInv, Waiting
  <1>10. ASSUME NEW a \in Actors, Acked(a) PROVE WaiterInv'
    BY <1>t, <1>w, <1>a, <1>o, <1>i, <1>10 DEF Acked, mgrVars, fuseVars, WaiterInv, Waiting
  <1>11. ASSUME NEW a \in Actors, Unregister(a) PROVE WaiterInv'
    BY <1>t, <1>w, <1>a, <1>o, <1>i, <1>11 DEF Unregister, mgrVars, fuseVars, WaiterInv, Waiting
  <1>12. ASSUME NEW b \in Boxes, StopAll(b) PROVE WaiterInv'
    BY <1>t, <1>w, <1>a, <1>o, <1>i, <1>12 DEF StopAll, fuseVars, WaiterInv, Waiting
  <1>13. ASSUME NEW b \in Boxes, ClearTree(b) PROVE WaiterInv'
    BY <1>t, <1>w, <1>a, <1>o, <1>i, <1>13 DEF ClearTree, WaiterInv, Waiting
  <1>14. ASSUME TakeAck PROVE WaiterInv'
    <2>1. PICK a \in Actors : /\ acks = <<at[a]>> /\ waiters[at[a]] = a
                              /\ \A c \in Actors : Waiting(c) => c = a
      BY <1>14, AckAlone DEF TakeAck
    <2>2. Head(acks) = at[a] /\ a # NoActor
      BY <2>1, ActorFacts
    <2>3. acked' = [acked EXCEPT ![a] = TRUE] /\ pc' = pc /\ at' = at
      BY <2>1, <2>2, <1>14 DEF TakeAck, actVars
    <2>4. \A c \in Actors : ~Waiting(c)'
      BY <1>t, <2>1, <2>3 DEF Waiting
    <2>. QED  BY <2>4 DEF WaiterInv
  <1>15. ASSUME NEW b \in Boxes, NEW p \in Paths,
               ReACL(b, p)
        PROVE  WaiterInv'
    BY <1>0, <1>15 DEF ReACL, actVars, fuseVars
  <1>16. ASSUME NEW b \in Boxes,
               End(b)
        PROVE  WaiterInv'
    BY <1>0, <1>16 DEF End, actVars, fuseVars
  <1>17. ASSUME CmdMount \/ CmdUnmount \/ CmdReACL PROVE WaiterInv'
    BY <1>0, <1>17 DEF CmdMount, mgrVars, actVars, fuseVars, CmdUnmount, CmdReACL
  <1>18. ASSUME NEW i \in DOMAIN servers,
               Detach(i) \/ Drained(i)
        PROVE  WaiterInv'
    BY <1>0, <1>18 DEF Detach, mgrVars, actVars, Drained
  <1>. QED
    BY <1>0, <1>1, <1>2, <1>3, <1>4, <1>5, <1>6, <1>7, <1>8, <1>9, <1>10, <1>11, <1>12, <1>13,
       <1>14, <1>15, <1>16, <1>17, <1>18 DEF Calm, AckLapses, Next, MountStep, RecStep,
       Unmounting, Sbxfuse

\* The ack was the right one.
LEMMA AckedStep ==
  ASSUME TypeInv, Calm, CalmInv, Next
  PROVE  AckedInv'
  <1>t. /\ pc \in [Actors -> PcStates]
        /\ acked \in [Actors -> BOOLEAN]
        /\ target \in [Actors -> {Unseen, None} \union DOMAIN servers]
        /\ servers \in Seq(SrvRec)
    BY DEF TypeInv, TypeOK
  <1>w. world' = world
    BY DEF Next
  <1>a. /\ \A b \in Boxes : /\ Rec(b) \in Actors /\ Td(b) \in Actors /\ Rec(b)[1] = b
                            /\ Td(b)[1] = b /\ Rec(b) # Td(b)
        /\ \A a \in Actors : a[1] \in Boxes /\ (a = Rec(a[1]) \/ a = Td(a[1]))
        /\ Boxes \subseteq Nat
    BY ActorFacts
  <1>o. \A a, c \in Actors : pc[a] # "idle" /\ pc[c] # "idle" => a = c
    BY OneActor DEF CalmInv
  <1>i. CmdToken /\ ServerToken /\ AckToken /\ WaiterInv /\ AckedInv /\ TurnInv /\ PlanInv
    BY DEF CalmInv, TokenInv
  <1>0. CASE UNCHANGED <<pc, acked, target, servers>>
    BY <1>0, <1>i DEF AckedInv
  <1>1. ASSUME NEW b \in Boxes, NEW d \in Configs, CreatePacked(b, d) PROVE AckedInv'
    BY <1>t, <1>w, <1>a, <1>o, <1>i, <1>1 DEF CreatePacked, Begin, planFsReconcile, fuseVars, AckedInv
  <1>2. ASSUME NEW b \in Boxes, NEW d \in Configs, Reapply(b, d) PROVE AckedInv'
    BY <1>t, <1>w, <1>a, <1>o, <1>i, <1>2 DEF Reapply, Begin, planFsReconcile, fuseVars, AckedInv
  <1>3. ASSUME NEW b \in Boxes, NEW ok \in BOOLEAN, Finish(b, ok) PROVE AckedInv'
    BY <1>t, <1>w, <1>a, <1>o, <1>i, <1>3 DEF Finish, MayFail, fuseVars, AckedInv
  <1>4. ASSUME NEW b \in Boxes, NEW p \in Paths, StartMount(b, p) PROVE AckedInv'
    BY <1>t, <1>w, <1>a, <1>o, <1>i, <1>4 DEF StartMount, fuseVars, AckedInv
  <1>5. ASSUME NEW b \in Boxes, MountSeen(b) PROVE AckedInv'
    BY <1>t, <1>w, <1>a, <1>o, <1>i, <1>5 DEF MountSeen, mgrVars, fuseVars, AckedInv
  <1>6. ASSUME NEW b \in Boxes, Exported(b) PROVE AckedInv'
    BY <1>t, <1>w, <1>a, <1>o, <1>i, <1>6 DEF Exported, fuseVars, AckedInv
  <1>7. ASSUME NEW b \in Boxes, MountFailed(b) PROVE AckedInv'
    BY <1>t, <1>w, <1>a, <1>o, <1>i, <1>7 DEF MountFailed, MayFail, mgrVars, fuseVars, AckedInv
  <1>8. ASSUME NEW a \in Actors, NEW p \in Paths, StopPath(a, p) PROVE AckedInv'
    BY <1>t, <1>w, <1>a, <1>o, <1>i, <1>8 DEF StopPath, actVars, fuseVars, AckedInv
  <1>9. ASSUME NEW a \in Actors, SendUnmount(a) PROVE AckedInv'
    BY <1>t, <1>w, <1>a, <1>o, <1>i, <1>9 DEF SendUnmount, mgrVars, fuseVars, AckedInv
  <1>10. ASSUME NEW a \in Actors, Acked(a) PROVE AckedInv'
    BY <1>t, <1>w, <1>a, <1>o, <1>i, <1>10 DEF Acked, mgrVars, fuseVars, AckedInv
  <1>11. ASSUME NEW a \in Actors, Unregister(a) PROVE AckedInv'
    BY <1>t, <1>w, <1>a, <1>o, <1>i, <1>11 DEF Unregister, mgrVars, fuseVars, AckedInv
  <1>12. ASSUME NEW b \in Boxes, StopAll(b) PROVE AckedInv'
    BY <1>t, <1>w, <1>a, <1>o, <1>i, <1>12 DEF StopAll, fuseVars, AckedInv
  <1>13. ASSUME NEW b \in Boxes, ClearTree(b) PROVE AckedInv'
    BY <1>t, <1>w, <1>a, <1>o, <1>i, <1>13 DEF ClearTree, AckedInv
  <1>14. ASSUME TakeAck PROVE AckedInv'
    <2>1. PICK a \in Actors : /\ Waiting(a) /\ acks = <<at[a]>> /\ waiters[at[a]] = a
                              /\ target[a] # Unseen /\ (target[a] # None => servers[target[a]].st = "done")
      BY <1>14, AckAlone DEF TakeAck
    <2>2. Head(acks) = at[a] /\ a # NoActor
      BY <2>1, ActorFacts
    <2>3. acked' = [acked EXCEPT ![a] = TRUE] /\ UNCHANGED <<pc, target, servers>>
      BY <2>1, <2>2, <1>14 DEF TakeAck, actVars, fuseVars
    <2>. QED  BY <1>t, <1>i, <2>1, <2>3 DEF AckedInv
  <1>15. ASSUME CmdMount PROVE AckedInv'
    <2>0. UNCHANGED <<pc, acked, target>>
      BY <1>15 DEF CmdMount, actVars
    <2>1. \A j \in DOMAIN servers : servers'[j] = servers[j]
      BY <1>15, SrvMount, SrvAppend DEF fuseVars
    <2>. QED  BY <1>t, <1>i, <2>0, <2>1 DEF AckedInv
  <1>16. ASSUME CmdUnmount PROVE AckedInv'
    <2>1. UNCHANGED <<pc, acked>> /\ Waiting(Head(cmds).by) /\ Head(cmds).by \in Actors
      BY <1>16, CmdAlone DEF CmdUnmount, actVars
    <2>2. \A c \in Actors : ~(pc[c] = "wait" /\ acked[c])
      BY <1>o, <2>1 DEF Waiting
    <2>. QED  BY <2>1, <2>2 DEF AckedInv
  <1>17. ASSUME CmdReACL PROVE AckedInv'
    <2>0. UNCHANGED <<pc, acked, target>>
      BY <1>17 DEF CmdReACL, actVars
    <2>1. \A j \in DOMAIN servers : servers'[j].st = servers[j].st
      BY <1>17, SrvReACL
    <2>. QED  BY <1>t, <1>i, <2>0, <2>1 DEF AckedInv
  <1>18. ASSUME NEW i \in DOMAIN servers, Detach(i) PROVE AckedInv'
    <2>0. UNCHANGED <<pc, acked, target>> /\ servers[i].st \in {"cancelled", "draining"}
      BY <1>18 DEF Detach, actVars
    <2>1. PICK a \in Actors : Waiting(a)
      BY <2>0, ServerAlone
    <2>2. \A c \in Actors : ~(pc[c] = "wait" /\ acked[c])
      BY <1>o, <2>1 DEF Waiting
    <2>. QED  BY <2>0, <2>2 DEF AckedInv
  <1>19. ASSUME NEW i \in DOMAIN servers, Drained(i) PROVE AckedInv'
    <2>0. UNCHANGED <<pc, acked, target>> /\ servers[i].st \in {"cancelled", "draining"}
      BY <1>19 DEF Drained, actVars
    <2>1. PICK a \in Actors : Waiting(a)
      BY <2>0, ServerAlone
    <2>2. \A c \in Actors : ~(pc[c] = "wait" /\ acked[c])
      BY <1>o, <2>1 DEF Waiting
    <2>. QED  BY <2>0, <2>2 DEF AckedInv
  <1>20. ASSUME NEW b \in Boxes, NEW p \in Paths,
               ReACL(b, p)
        PROVE  AckedInv'
    BY <1>0, <1>20 DEF ReACL, actVars, fuseVars
  <1>21. ASSUME NEW b \in Boxes,
               End(b)
        PROVE  AckedInv'
    BY <1>0, <1>21 DEF End, actVars, fuseVars
  <1>. QED
    BY <1>0, <1>1, <1>2, <1>3, <1>4, <1>5, <1>6, <1>7, <1>8, <1>9, <1>10, <1>11, <1>12, <1>13,
       <1>14, <1>15, <1>16, <1>17, <1>18, <1>19, <1>20, <1>21 DEF Calm, AckLapses, Next,
       MountStep, RecStep, Unmounting, Sbxfuse

-----------------------------------------------------------------------------
(* Who a server belongs to.                                                *)

\* The path that is about to be started has no sandbox that serves it.
LEMMA NotServed ==
  ASSUME TypeInv, CalmInv, NEW b \in Boxes, NEW p \in Paths, StartMount(b, p),
         NEW c \in Boxes, phase[c] # "failed"
  PROVE  ~MayServe(c, p)
  <1>1. Rec(b) \in Actors /\ Rec(b)[1] = b /\ pc[Rec(b)] = "work" /\ p \in todo[Rec(b)].add
    BY ActorFacts DEF StartMount
  <1>2. SUFFICES ASSUME MayServe(c, p) PROVE FALSE
    OBVIOUS
  <1>3. c = b
    BY <1>1, <1>2, MayServeBusy, ActiveBusy, OneBusy DEF CalmInv
  <1>4. p \notin live[b]
    BY <1>1 DEF CalmInv, PlanInv
  <1>5. ~InHand(b, p)
    <2>1. ASSUME NEW a \in Actors, pc[a] # "idle" PROVE pc[a] = "work"
      BY <1>1, <2>1, OneActor DEF CalmInv
    <2>. QED  BY <2>1 DEF InHand
  <1>. QED  BY <1>2, <1>3, <1>4, <1>5 DEF MayServe

\* While an unmount that has been read is on its way, and for one who is about
\* to unregister, the path is not served.
LEMMA NotInHand ==
  ASSUME TypeInv, CalmInv, NEW a \in Actors, Away(a),
         pc[a] = "unregister" \/ (pc[a] = "wait" /\ target[a] # Unseen),
         NEW c \in Boxes, phase[c] # "failed"
  PROVE  ~MayServe(c, at[a])
  <1>1. a[1] \in Boxes /\ at[a] \in Paths
    BY ActorFacts DEF TypeInv, TypeOK
  <1>2. SUFFICES ASSUME MayServe(c, at[a]) PROVE FALSE
    OBVIOUS
  <1>3. c = a[1]
    BY <1>1, <1>2, MayServeBusy, ActiveBusy, OneBusy DEF CalmInv
  <1>4. at[a] \notin live[c]
    BY <1>3 DEF CalmInv, PlanInv
  <1>5. ~InHand(c, at[a])
    <2>1. ASSUME NEW d \in Actors, pc[d] # "idle" PROVE d = a
      BY <2>1, OneActor DEF CalmInv
    <2>. QED  BY <2>1 DEF InHand
  <1>. QED  BY <1>2, <1>4, <1>5 DEF MayServe

\* A failed create stays failed.
LEMMA FailedStays ==
  ASSUME TypeInv, Calm, NEW x \in Boxes, phase[x] = "failed", Next
  PROVE  (phase[x] = "failed")'
  <1>t. /\ phase \in [Boxes -> Phases]
    BY DEF TypeInv, TypeOK
  <1>w. world' = world
    BY DEF Next
  <1>0. CASE UNCHANGED <<phase>>
    BY <1>0
  <1>1. ASSUME NEW b \in Boxes, NEW d \in Configs, CreatePacked(b, d) PROVE (phase[x] = "failed")'
    BY <1>t, <1>w, <1>1 DEF CreatePacked, Begin, planFsReconcile, fuseVars
  <1>2. ASSUME NEW b \in Boxes, NEW ok \in BOOLEAN, Finish(b, ok) PROVE (phase[x] = "failed")'
    BY <1>t, <1>w, <1>2 DEF Finish, MayFail, fuseVars
  <1>3. ASSUME NEW b \in Boxes, End(b) PROVE (phase[x] = "failed")'
    BY <1>t, <1>w, <1>3 DEF End, actVars, fuseVars
  <1>4. ASSUME NEW b \in Boxes, ClearTree(b) PROVE (phase[x] = "failed")'
    BY <1>t, <1>w, <1>4 DEF ClearTree
  <1>5. ASSUME NEW b \in Boxes, NEW d \in Configs,
               Reapply(b, d)
        PROVE  (phase[x] = "failed")'
    BY <1>0, <1>5 DEF Reapply, Begin, fuseVars
  <1>6. ASSUME NEW b \in Boxes, NEW p \in Paths,
               ReACL(b, p) \/ StartMount(b, p)
        PROVE  (phase[x] = "failed")'
    BY <1>0, <1>6 DEF ReACL, actVars, fuseVars, StartMount
  <1>7. ASSUME NEW b \in Boxes,
               MountSeen(b) \/ Exported(b) \/ MountFailed(b) \/ StopAll(b)
        PROVE  (phase[x] = "failed")'
    BY <1>0, <1>7 DEF MountSeen, mgrVars, fuseVars, Exported, MountFailed, StopAll
  <1>8. ASSUME NEW a \in Actors, NEW p \in Paths,
               StopPath(a, p)
        PROVE  (phase[x] = "failed")'
    BY <1>0, <1>8 DEF StopPath, actVars, fuseVars
  <1>9. ASSUME NEW a \in Actors,
               SendUnmount(a) \/ Acked(a) \/ Unregister(a)
        PROVE  (phase[x] = "failed")'
    BY <1>0, <1>9 DEF SendUnmount, mgrVars, fuseVars, Acked, Unregister
  <1>10. ASSUME TakeAck \/ CmdMount \/ CmdUnmount \/ CmdReACL PROVE (phase[x] = "failed")'
    BY <1>0, <1>10 DEF TakeAck, mgrVars, actVars, fuseVars, CmdMount, CmdUnmount, CmdReACL
  <1>11. ASSUME NEW i \in DOMAIN servers,
               Detach(i) \/ Drained(i)
        PROVE  (phase[x] = "failed")'
    BY <1>0, <1>11 DEF Detach, mgrVars, actVars, Drained
  <1>. QED
    BY <1>0, <1>1, <1>2, <1>3, <1>4, <1>5, <1>6, <1>7, <1>8, <1>9, <1>10, <1>11 DEF Calm,
       AckLapses, Next, MountStep, RecStep, Unmounting, Sbxfuse

\* A sandbox stops serving a path only when sbxfuse reads its unmount.
LEMMA MayServeStep ==
  ASSUME TypeInv, Calm, CalmInv, NEW x \in Boxes, NEW q \in Paths, MayServe(x, q),
         mounts'[q] # None \/ cmds' # <<>>, Next
  PROVE  MayServe(x, q)'
  <1>t. /\ live \in [Boxes -> SUBSET Paths]
        /\ pc \in [Actors -> PcStates]
        /\ at \in [Actors -> Paths]
        /\ target \in [Actors -> {Unseen, None} \union DOMAIN servers]
    BY DEF TypeInv, TypeOK
  <1>w. world' = world
    BY DEF Next
  <1>a. /\ \A b \in Boxes : /\ Rec(b) \in Actors /\ Td(b) \in Actors /\ Rec(b)[1] = b
                            /\ Td(b)[1] = b /\ Rec(b) # Td(b)
        /\ \A a \in Actors : a[1] \in Boxes /\ (a = Rec(a[1]) \/ a = Td(a[1]))
        /\ Boxes \subseteq Nat
    BY ActorFacts
  <1>o. \A a, c \in Actors : pc[a] # "idle" /\ pc[c] # "idle" => a = c
    BY OneActor DEF CalmInv
  <1>i. TurnInv /\ PlanInv /\ AckedInv
    BY DEF CalmInv, TokenInv
  <1>0. CASE UNCHANGED <<live, pc, at, target>>
    BY <1>0 DEF MayServe, InHand
  <1>1. ASSUME NEW b \in Boxes, NEW d \in Configs, CreatePacked(b, d) PROVE MayServe(x, q)'
    BY <1>t, <1>w, <1>a, <1>o, <1>i, <1>1 DEF CreatePacked, Begin, planFsReconcile, fuseVars, MayServe,
       InHand
  <1>2. ASSUME NEW b \in Boxes, NEW d \in Configs, Reapply(b, d) PROVE MayServe(x, q)'
    BY <1>t, <1>w, <1>a, <1>o, <1>i, <1>2 DEF Reapply, Begin, planFsReconcile, fuseVars, MayServe,
       InHand
  <1>3. ASSUME NEW b \in Boxes, NEW ok \in BOOLEAN, Finish(b, ok) PROVE MayServe(x, q)'
    BY <1>t, <1>w, <1>a, <1>o, <1>i, <1>3 DEF Finish, MayFail, fuseVars, MayServe, InHand
  <1>4. ASSUME NEW b \in Boxes, NEW p \in Paths, StartMount(b, p) PROVE MayServe(x, q)'
    BY <1>t, <1>w, <1>a, <1>o, <1>i, <1>4 DEF StartMount, fuseVars, MayServe, InHand
  <1>5. ASSUME NEW b \in Boxes, MountSeen(b) PROVE MayServe(x, q)'
    BY <1>t, <1>w, <1>a, <1>o, <1>i, <1>5 DEF MountSeen, mgrVars, fuseVars, MayServe, InHand
  <1>6. ASSUME NEW b \in Boxes, Exported(b) PROVE MayServe(x, q)'
    BY <1>t, <1>w, <1>a, <1>o, <1>i, <1>6 DEF Exported, fuseVars, MayServe, InHand
  <1>7. ASSUME NEW b \in Boxes, MountFailed(b) PROVE MayServe(x, q)'
    BY <1>t, <1>w, <1>a, <1>o, <1>i, <1>7 DEF MountFailed, MayFail, mgrVars, fuseVars, MayServe,
       InHand
  <1>8. ASSUME NEW a \in Actors, NEW p \in Paths, StopPath(a, p) PROVE MayServe(x, q)'
    BY <1>t, <1>w, <1>a, <1>o, <1>i, <1>8 DEF StopPath, actVars, fuseVars, MayServe, InHand
  <1>9. ASSUME NEW a \in Actors, SendUnmount(a) PROVE MayServe(x, q)'
    BY <1>t, <1>w, <1>a, <1>o, <1>i, <1>9 DEF SendUnmount, mgrVars, fuseVars, MayServe, InHand
  <1>10. ASSUME NEW a \in Actors, Acked(a) PROVE MayServe(x, q)'
    <2>1. pc[a] = "wait" /\ target[a] # Unseen /\ UNCHANGED <<live, at, target>>
      BY <1>i, <1>10 DEF Acked, AckedInv, mgrVars
    <2>2. \A c \in Actors : c # a => pc'[c] = pc[c]
      BY <1>10 DEF Acked
    <2>. QED  BY <2>1, <2>2 DEF MayServe, InHand
  <1>11. ASSUME NEW a \in Actors, Unregister(a) PROVE MayServe(x, q)'
    BY <1>t, <1>w, <1>a, <1>o, <1>i, <1>11 DEF Unregister, mgrVars, fuseVars, MayServe, InHand
  <1>12. ASSUME NEW b \in Boxes, StopAll(b) PROVE MayServe(x, q)'
    BY <1>t, <1>w, <1>a, <1>o, <1>i, <1>12 DEF StopAll, fuseVars, MayServe, InHand
  <1>13. ASSUME NEW b \in Boxes, ClearTree(b) PROVE MayServe(x, q)'
    BY <1>t, <1>w, <1>a, <1>o, <1>i, <1>13 DEF ClearTree, MayServe, InHand
  <1>14. ASSUME CmdUnmount PROVE MayServe(x, q)'
    <2>0. Head(cmds).by \in Actors /\ at[Head(cmds).by] = Head(cmds).path /\ cmds' = <<>>
      BY <1>14, CmdAlone DEF CmdUnmount
    <2>1. at[Head(cmds).by] # q
      BY <2>0, <1>14 DEF CmdUnmount, TypeInv, TypeOK
    <2>2. UNCHANGED <<live, pc, at>> /\ \A a \in Actors : a # Head(cmds).by => target'[a] = target[a]
      BY <1>t, <1>14 DEF CmdUnmount, mgrVars, actVars
    <2>. QED  BY <2>1, <2>2 DEF MayServe, InHand
  <1>15. ASSUME NEW b \in Boxes, NEW p \in Paths,
               ReACL(b, p)
        PROVE  MayServe(x, q)'
    BY <1>0, <1>15 DEF ReACL, actVars, fuseVars
  <1>16. ASSUME NEW b \in Boxes,
               End(b)
        PROVE  MayServe(x, q)'
    BY <1>0, <1>16 DEF End, actVars, fuseVars
  <1>17. ASSUME TakeAck \/ CmdMount \/ CmdReACL PROVE MayServe(x, q)'
    BY <1>0, <1>17 DEF TakeAck, mgrVars, actVars, fuseVars, CmdMount, CmdReACL
  <1>18. ASSUME NEW i \in DOMAIN servers,
               Detach(i) \/ Drained(i)
        PROVE  MayServe(x, q)'
    BY <1>0, <1>18 DEF Detach, mgrVars, actVars, Drained
  <1>. QED
    BY <1>0, <1>1, <1>2, <1>3, <1>4, <1>5, <1>6, <1>7, <1>8, <1>9, <1>10, <1>11, <1>12, <1>13,
       <1>14, <1>15, <1>16, <1>17, <1>18 DEF Calm, AckLapses, Next, MountStep, RecStep,
       Unmounting, Sbxfuse

LEMMA MapStep ==
  ASSUME TypeInv, Calm, CalmInv, Next
  PROVE  MapInv'
  <1>t. /\ mounts \in [Paths -> {None} \union DOMAIN servers]
        /\ servers \in Seq(SrvRec)
    BY DEF TypeInv, TypeOK
  <1>w. world' = world
    BY DEF Next
  <1>i. TurnInv /\ PlanInv /\ MapInv /\ OwnerInv /\ CmdOwner /\ CmdOrder /\ RegInv /\ GoneInv
    BY DEF CalmInv, ServerInv
  <1>0. CASE UNCHANGED <<mounts, servers>>
    BY <1>0, <1>i DEF MapInv
  <1>1. ASSUME CmdMount PROVE MapInv'
    <2>1. CASE servers' = servers /\ mounts' = mounts
      BY <1>i, <2>1 DEF MapInv
    <2>2. CASE \E s \in SrvRec : /\ servers' = Append(servers, s) /\ s.st = "serving"
                                 /\ mounts' = [mounts EXCEPT ![s.path] = Len(servers) + 1]
      <3>1. PICK s \in SrvRec : /\ servers' = Append(servers, s) /\ s.st = "serving"
                                /\ mounts' = [mounts EXCEPT ![s.path] = Len(servers) + 1]
        BY <2>2
      <3>2. /\ servers'[Len(servers) + 1] = s /\ Len(servers) + 1 \notin DOMAIN servers
            /\ \A j \in DOMAIN servers : servers'[j] = servers[j]
        BY <3>1, SrvAppend
      <3>. QED  BY <1>t, <1>i, <3>1, <3>2 DEF MapInv
    <2>. QED  BY <2>1, <2>2, <1>1, SrvMount DEF fuseVars
  <1>2. ASSUME CmdUnmount PROVE MapInv'
    <2>. DEFINE p == Head(cmds).path
    <2>1. p \in Paths /\ mounts' = [mounts EXCEPT ![p] = None]
      BY <1>2, CmdAlone DEF CmdUnmount
    <2>2. CASE servers' = servers
      BY <1>t, <1>i, <2>1, <2>2 DEF MapInv
    <2>3. CASE mounts[p] # None /\ servers' = [servers EXCEPT ![mounts[p]].st = "cancelled"]
      <3>1. PICK i \in DOMAIN servers : i = mounts[p]
        BY <1>t, <2>1, <2>3
      <3>2. servers' = [servers EXCEPT ![i].st = "cancelled"]
        BY <2>3, <3>1
      <3>3. \A j \in DOMAIN servers : j # i => servers'[j] = servers[j]
        BY <3>2, SrvSet
      <3>4. \A q \in Paths : q # p /\ mounts[q] # None => mounts[q] # i
        BY <1>i, <2>1, <2>3, <3>1 DEF MapInv
      <3>. QED  BY <1>t, <1>i, <2>1, <3>3, <3>4 DEF MapInv
    <2>. QED  BY <2>2, <2>3, <1>2 DEF CmdUnmount
  <1>3. ASSUME CmdReACL PROVE MapInv'
    <2>1. mounts' = mounts /\ \A j \in DOMAIN servers : /\ servers'[j].path = servers[j].path
                                                        /\ servers'[j].st = servers[j].st
      BY <1>3, SrvReACL DEF CmdReACL
    <2>. QED  BY <1>t, <1>i, <2>1 DEF MapInv
  <1>4. ASSUME NEW i \in DOMAIN servers, Detach(i) PROVE MapInv'
    <2>1. mounts' = mounts /\ \A j \in DOMAIN servers : j # i => servers'[j] = servers[j]
      BY <1>4, SrvSet DEF Detach
    <2>2. \A q \in Paths : mounts[q] # None => mounts[q] # i
      BY <1>i, <1>4 DEF MapInv, Detach
    <2>. QED  BY <1>t, <1>i, <2>1, <2>2 DEF MapInv
  <1>5. ASSUME NEW i \in DOMAIN servers, Drained(i) PROVE MapInv'
    <2>1. mounts' = mounts /\ \A j \in DOMAIN servers : j # i => servers'[j] = servers[j]
      BY <1>5, SrvSet DEF Drained
    <2>2. \A q \in Paths : mounts[q] # None => mounts[q] # i
      BY <1>i, <1>5 DEF MapInv, Drained
    <2>. QED  BY <1>t, <1>i, <2>1, <2>2 DEF MapInv
  <1>6. ASSUME NEW b \in Boxes, NEW d \in Configs,
               CreatePacked(b, d) \/ Reapply(b, d)
        PROVE  MapInv'
    BY <1>0, <1>6 DEF CreatePacked, Begin, fuseVars, Reapply
  <1>7. ASSUME NEW b \in Boxes, NEW ok \in BOOLEAN,
               Finish(b, ok)
        PROVE  MapInv'
    BY <1>0, <1>7 DEF Finish, fuseVars
  <1>8. ASSUME NEW b \in Boxes, NEW p \in Paths,
               ReACL(b, p) \/ StartMount(b, p)
        PROVE  MapInv'
    BY <1>0, <1>8 DEF ReACL, actVars, fuseVars, StartMount
  <1>9. ASSUME NEW b \in Boxes,
               MountSeen(b) \/ Exported(b) \/ MountFailed(b) \/ End(b) \/ StopAll(b)
               \/ ClearTree(b)
        PROVE  MapInv'
    BY <1>0, <1>9 DEF MountSeen, mgrVars, fuseVars, Exported, MountFailed, End, actVars, StopAll,
       ClearTree
  <1>10. ASSUME NEW a \in Actors, NEW p \in Paths,
               StopPath(a, p)
        PROVE  MapInv'
    BY <1>0, <1>10 DEF StopPath, actVars, fuseVars
  <1>11. ASSUME NEW a \in Actors,
               SendUnmount(a) \/ Acked(a) \/ Unregister(a)
        PROVE  MapInv'
    BY <1>0, <1>11 DEF SendUnmount, mgrVars, fuseVars, Acked, Unregister
  <1>12. ASSUME TakeAck PROVE MapInv'
    BY <1>0, <1>12 DEF TakeAck, mgrVars, actVars, fuseVars
  <1>. QED
    BY <1>0, <1>1, <1>2, <1>3, <1>4, <1>5, <1>6, <1>7, <1>8, <1>9, <1>10, <1>11, <1>12 DEF Calm,
       AckLapses, Next, MountStep, RecStep, Unmounting, Sbxfuse

\* A server keeps its place while no mount of its path is sent or read.
LEMMA OwnerKept ==
  ASSUME TypeInv, Calm, CalmInv, Next,
         NEW j \in DOMAIN servers, NEW y \in Boxes, NEW q \in Paths,
         servers[j].st = "serving", servers[j].box = y, servers[j].path = q,
         phase'[y] # "failed", mounts'[q] = mounts[q],
         \A k \in DOMAIN cmds' : MountCmd(k, q)' => \E l \in DOMAIN cmds : MountCmd(l, q)
  PROVE  mounts'[q] = j /\ MayServe(y, q)' /\ \A k \in DOMAIN cmds' : ~MountCmd(k, q)'
  <1>1. phase[y] # "failed"
    BY FailedStays
  <1>2. mounts[q] = j /\ MayServe(y, q) /\ \A k \in DOMAIN cmds : ~MountCmd(k, q)
    BY <1>1 DEF CalmInv, ServerInv, OwnerInv
  <1>3. j # None
    BY DEF TypeInv, TypeOK, None
  <1>4. MayServe(y, q)'
    BY <1>2, <1>3, MayServeStep
  <1>. QED  BY <1>2, <1>4

\* The same for all servers, when none starts.
LEMMA OwnersKept ==
  ASSUME TypeInv, Calm, CalmInv, Next, DOMAIN servers' = DOMAIN servers,
         \A j \in DOMAIN servers :
           /\ servers'[j].path = servers[j].path /\ servers'[j].box = servers[j].box
           /\ servers'[j].st = "serving" => servers[j].st = "serving",
         \A j \in DOMAIN servers, q \in Paths :
           servers'[j].st = "serving" /\ phase'[servers[j].box] # "failed" /\ servers[j].path = q =>
             /\ mounts'[q] = mounts[q]
             /\ \A k \in DOMAIN cmds' : MountCmd(k, q)' => \E l \in DOMAIN cmds : MountCmd(l, q)
  PROVE  OwnerInv'
  <1>1. \A j \in DOMAIN servers' : servers'[j].path \in Paths /\ servers'[j].box \in Boxes
    BY SrvFacts
  <1>2. SUFFICES ASSUME NEW j \in DOMAIN servers', NEW y \in Boxes, NEW q \in Paths,
                        servers'[j].st = "serving", servers'[j].box = y, servers'[j].path = q,
                        phase'[y] # "failed"
                 PROVE  mounts'[q] = j /\ MayServe(y, q)' /\ \A k \in DOMAIN cmds' : ~MountCmd(k, q)'
    BY <1>1 DEF OwnerInv, MayServe, InHand, MountCmd
  <1>3. j \in DOMAIN servers /\ servers[j].st = "serving" /\ servers[j].box = y /\ servers[j].path = q
    BY <1>2
  <1>4. /\ mounts'[q] = mounts[q]
        /\ \A k \in DOMAIN cmds' : MountCmd(k, q)' => \E l \in DOMAIN cmds : MountCmd(l, q)
    BY <1>2, <1>3
  <1>. QED  BY <1>2, <1>3, <1>4, OwnerKept

\* The sandbox of a mount command that is read has not failed: no later one has
\* a mount of the path in the pipe.
LEMMA MountAlone ==
  ASSUME TypeInv, CalmInv, cmds # <<>>, cmds[1].op = "mount", phase[cmds[1].by[1]] # "failed",
         NEW k \in DOMAIN cmds, k # 1
  PROVE  ~MountCmd(k, cmds[1].path)
  <1>. DEFINE c == cmds[1].by[1]
              e == cmds[k].by[1]
  <1>1. 1 \in DOMAIN cmds /\ k \in Nat /\ 1 < k
    BY DEF TypeInv, TypeOK
  <1>2. /\ c \in Boxes /\ e \in Boxes /\ cmds[1].path \in Paths /\ cmds[k].path \in Paths
    BY <1>1, CmdFacts, ActorFacts
  <1>3. SUFFICES ASSUME MountCmd(k, cmds[1].path) PROVE FALSE
    OBVIOUS
  <1>4. c < e
    BY <1>1, <1>3 DEF CalmInv, ServerInv, CmdOrder, MountCmd
  <1>5. phase[c] \in Busy
    BY <1>1, <1>2, MayServeBusy DEF CalmInv, ServerInv, CmdOwner
  <1>6. phase[e] = "failed" \/ phase[e] \in Busy
    BY <1>2, <1>3, MayServeBusy DEF CalmInv, ServerInv, CmdOwner, MountCmd
  <1>. HIDE DEF c, e
  <1>7. phase[c] \in {"gone", "failed"}
    BY <1>2, <1>4, <1>6 DEF CalmInv, TurnInv, Busy
  <1>. QED  BY <1>5, <1>7 DEF Busy

LEMMA OwnerStep ==
  ASSUME TypeInv, Calm, CalmInv, Next
  PROVE  OwnerInv'
  <1>t. /\ servers \in Seq(SrvRec)
        /\ mounts \in [Paths -> {None} \union DOMAIN servers]
        /\ cmds \in Seq(CmdRec)
        /\ at \in [Actors -> Paths]
        /\ phase \in [Boxes -> Phases]
    BY DEF TypeInv, TypeOK
  <1>w. world' = world
    BY DEF Next
  <1>a. /\ \A b \in Boxes : /\ Rec(b) \in Actors /\ Td(b) \in Actors /\ Rec(b)[1] = b
                            /\ Td(b)[1] = b /\ Rec(b) # Td(b)
        /\ \A a \in Actors : a[1] \in Boxes /\ (a = Rec(a[1]) \/ a = Td(a[1]))
        /\ Boxes \subseteq Nat
    BY ActorFacts
  <1>s. \A i \in DOMAIN servers : servers[i].path \in Paths /\ servers[i].box \in Boxes
    BY SrvFacts
  <1>i. TurnInv /\ PlanInv /\ MapInv /\ OwnerInv /\ CmdOwner /\ CmdOrder /\ RegInv /\ GoneInv
    BY DEF CalmInv, ServerInv
  <1>m. \A x \in Boxes, q \in Paths : MayServe(x, q) /\ (mounts'[q] # None \/ cmds' # <<>>) =>
          MayServe(x, q)'
    BY MayServeStep
  <1>f. \A x \in Boxes : phase'[x] # "failed" => phase[x] # "failed"
    BY FailedStays
  <1>n. None \notin DOMAIN servers
    BY <1>t DEF None
  <1>0. CASE UNCHANGED <<servers, mounts, cmds>>
    BY <1>0, OwnersKept DEF MountCmd
  <1>1. ASSUME NEW b \in Boxes, NEW p \in Paths, ReACL(b, p) PROVE OwnerInv'
    <2>1. UNCHANGED <<servers, mounts>>
      BY <1>1 DEF ReACL, fuseVars
    <2>2. [op |-> "reacl", path |-> p, by |-> Rec(b)] \in CmdRec
      BY <1>a DEF CmdRec
    <2>3. \A k \in DOMAIN cmds' : cmds'[k].op = "mount" => k \in DOMAIN cmds /\ cmds'[k] = cmds[k]
      BY <2>2, <1>1, CmdAppend DEF ReACL
    <2>. QED  BY <2>1, <2>3, OwnersKept DEF MountCmd
  <1>2. ASSUME NEW b \in Boxes, NEW p \in Paths, StartMount(b, p) PROVE OwnerInv'
    <2>1. UNCHANGED <<servers, mounts>>
      BY <1>2 DEF StartMount, fuseVars
    <2>2. [op |-> "mount", path |-> p, by |-> Rec(b)] \in CmdRec
      BY <1>a DEF CmdRec
    <2>3. \A k \in DOMAIN cmds' : \/ k \in DOMAIN cmds /\ cmds'[k] = cmds[k]
                                  \/ cmds'[k].path = p
      BY <2>2, <1>2, CmdAppend DEF StartMount
    <2>4. \A j \in DOMAIN servers : servers[j].st = "serving" /\ phase'[servers[j].box] # "failed" =>
            servers[j].path # p
      BY <1>i, <1>f, <1>s, <1>2, NotServed DEF OwnerInv
    <2>. QED  BY <2>1, <2>3, <2>4, OwnersKept DEF MountCmd
  <1>3. ASSUME NEW a \in Actors, SendUnmount(a) PROVE OwnerInv'
    <2>1. UNCHANGED <<servers, mounts>>
      BY <1>3 DEF SendUnmount, fuseVars
    <2>2. [op |-> "unmount", path |-> at[a], by |-> a] \in CmdRec
      BY <1>t DEF CmdRec
    <2>3. \A k \in DOMAIN cmds' : cmds'[k].op = "mount" => k \in DOMAIN cmds /\ cmds'[k] = cmds[k]
      BY <2>2, <1>3, CmdAppend DEF SendUnmount
    <2>. QED  BY <2>1, <2>3, OwnersKept DEF MountCmd
  <1>4. ASSUME CmdMount PROVE OwnerInv'
    <2>1. /\ cmds # <<>> /\ cmds[1].op = "mount" /\ cmds' = Tail(cmds)
          /\ cmds[1].path \in Paths /\ cmds[1].by[1] \in Boxes
      BY <1>a, <1>4, SrvMount
    <2>2. 1 \in DOMAIN cmds /\ \A k \in DOMAIN cmds' : k + 1 \in DOMAIN cmds /\ cmds'[k] = cmds[k + 1] /\ k + 1 # 1
      BY <2>1, CmdTail
    <2>3. CASE UNCHANGED fuseVars
      BY <2>2, <2>3, OwnersKept DEF MountCmd, fuseVars
    <2>4. CASE ~UNCHANGED fuseVars
      <3>1. PICK s \in SrvRec :
              /\ servers' = Append(servers, s) /\ s.path = cmds[1].path /\ s.box = cmds[1].by[1]
              /\ mounts' = [mounts EXCEPT ![s.path] = Len(servers) + 1]
        BY <2>4, <1>4, SrvMount
      <3>2. PICK n \in DOMAIN servers' :
              /\ n = Len(servers) + 1 /\ servers'[n] = s /\ mounts' = [mounts EXCEPT ![s.path] = n]
              /\ \A j \in DOMAIN servers : servers'[j] = servers[j]
              /\ \A j \in DOMAIN servers' : j # n => j \in DOMAIN servers
        BY <3>1, SrvAppend
      <3>3. n # None
        BY <1>t, <3>2 DEF None
      <3>4. \A j \in DOMAIN servers' : servers'[j].path \in Paths /\ servers'[j].box \in Boxes
        BY <1>s, <2>1, <3>1, <3>2
      <3>5. SUFFICES ASSUME NEW j \in DOMAIN servers', NEW y \in Boxes, NEW q \in Paths,
                            servers'[j].st = "serving", servers'[j].box = y, servers'[j].path = q,
                            phase'[y] # "failed"
                     PROVE  /\ mounts'[q] = j /\ MayServe(y, q)'
                            /\ \A k \in DOMAIN cmds' : ~MountCmd(k, q)'
        BY <3>4 DEF OwnerInv, MayServe, InHand, MountCmd
      <3>6. CASE j = n
        <4>1. mounts'[q] = n /\ phase[y] # "failed" /\ s.path = q /\ s.box = y
          BY <1>t, <1>f, <3>1, <3>2, <3>5, <3>6
        <4>2. MayServe(y, q)
          BY <1>i, <2>1, <2>2, <3>1, <4>1 DEF CmdOwner
        <4>3. MayServe(y, q)'
          BY <1>m, <3>3, <4>1, <4>2
        <4>4. \A k \in DOMAIN cmds : k # 1 => ~MountCmd(k, q)
          BY <2>1, <3>1, <4>1, MountAlone
        <4>5. \A k \in DOMAIN cmds' : ~MountCmd(k, q)'
          BY <2>2, <4>4 DEF MountCmd
        <4>. QED  BY <3>6, <4>1, <4>3, <4>5
      <3>7. CASE j # n
        <4>1. /\ j \in DOMAIN servers /\ servers[j].path = q /\ servers[j].box = y
              /\ servers[j].st = "serving"
          BY <3>2, <3>5, <3>7
        <4>2. q # s.path
          BY <1>i, <1>f, <2>1, <2>2, <3>1, <3>5, <4>1 DEF OwnerInv, MountCmd
        <4>3. /\ mounts'[q] = mounts[q]
              /\ \A k \in DOMAIN cmds' : MountCmd(k, q)' => \E l \in DOMAIN cmds : MountCmd(l, q)
          BY <1>t, <2>2, <3>2, <4>2 DEF MountCmd
        <4>. QED  BY <3>5, <4>1, <4>3, OwnerKept
      <3>. QED  BY <3>6, <3>7
    <2>. QED  BY <2>3, <2>4
  <1>5. ASSUME CmdUnmount PROVE OwnerInv'
    <2>. DEFINE p == Head(cmds).path
    <2>1. p \in Paths /\ mounts' = [mounts EXCEPT ![p] = None] /\ cmds' = <<>>
      BY <1>5, CmdAlone DEF CmdUnmount
    <2>2. /\ DOMAIN servers' = DOMAIN servers
          /\ \A j \in DOMAIN servers : /\ servers'[j].path = servers[j].path
                                       /\ servers'[j].box = servers[j].box
                                       /\ servers'[j].st = "serving" => /\ servers[j].st = "serving"
                                                                        /\ mounts[p] # j
      <3>1. CASE servers' = servers /\ mounts[p] = None
        BY <1>n, <3>1
      <3>2. CASE mounts[p] # None /\ servers' = [servers EXCEPT ![mounts[p]].st = "cancelled"]
        <4>1. PICK i \in DOMAIN servers : i = mounts[p]
          BY <1>t, <2>1, <3>2
        <4>2. servers' = [servers EXCEPT ![i].st = "cancelled"]
          BY <3>2, <4>1
        <4>3. /\ DOMAIN servers' = DOMAIN servers /\ servers'[i].st = "cancelled"
              /\ \A j \in DOMAIN servers : /\ servers'[j].path = servers[j].path
                                           /\ servers'[j].box = servers[j].box
                                           /\ j # i => servers'[j] = servers[j]
          BY <4>2, SrvSet
        <4>. QED  BY <4>1, <4>3
      <3>. QED  BY <3>1, <3>2, <1>5 DEF CmdUnmount
    <2>3. \A k \in DOMAIN cmds' : FALSE
      BY <2>1
    <2>4. \A j \in DOMAIN servers : servers'[j].st = "serving" /\ phase'[servers[j].box] # "failed" =>
            servers[j].path # p
      BY <1>i, <1>f, <1>s, <2>2 DEF OwnerInv
    <2>5. \A q \in Paths : q # p => mounts'[q] = mounts[q]
      BY <1>t, <2>1
    <2>. HIDE DEF p
    <2>. QED  BY <1>s, <2>2, <2>3, <2>4, <2>5, OwnersKept
  <1>6. ASSUME CmdReACL PROVE OwnerInv'
    <2>1. /\ mounts' = mounts /\ DOMAIN servers' = DOMAIN servers
          /\ \A j \in DOMAIN servers : /\ servers'[j].path = servers[j].path
                                       /\ servers'[j].box = servers[j].box
                                       /\ servers'[j].st = servers[j].st
      BY <1>6, SrvReACL DEF CmdReACL
    <2>2. \A k \in DOMAIN cmds' : k + 1 \in DOMAIN cmds /\ cmds'[k] = cmds[k + 1]
      BY <1>6, CmdTail DEF CmdReACL
    <2>. QED  BY <2>1, <2>2, OwnersKept DEF MountCmd
  <1>7. ASSUME NEW i \in DOMAIN servers, Detach(i) PROVE OwnerInv'
    <2>1. UNCHANGED <<mounts, cmds>> /\ DOMAIN servers' = DOMAIN servers /\ servers'[i].st # "serving"
          /\ \A j \in DOMAIN servers : /\ servers'[j].path = servers[j].path
                                       /\ servers'[j].box = servers[j].box
                                       /\ j # i => servers'[j] = servers[j]
      BY <1>7, SrvSet DEF Detach
    <2>. QED  BY <2>1, OwnersKept DEF MountCmd
  <1>8. ASSUME NEW i \in DOMAIN servers, Drained(i) PROVE OwnerInv'
    <2>1. UNCHANGED <<mounts, cmds>> /\ DOMAIN servers' = DOMAIN servers /\ servers'[i].st # "serving"
          /\ \A j \in DOMAIN servers : /\ servers'[j].path = servers[j].path
                                       /\ servers'[j].box = servers[j].box
                                       /\ j # i => servers'[j] = servers[j]
      BY <1>8, SrvSet DEF Drained
    <2>. QED  BY <2>1, OwnersKept DEF MountCmd
  <1>9. ASSUME NEW b \in Boxes, NEW d \in Configs,
               CreatePacked(b, d) \/ Reapply(b, d)
        PROVE  OwnerInv'
    BY <1>0, <1>9 DEF CreatePacked, Begin, fuseVars, Reapply
  <1>10. ASSUME NEW b \in Boxes, NEW ok \in BOOLEAN,
               Finish(b, ok)
        PROVE  OwnerInv'
    BY <1>0, <1>10 DEF Finish, fuseVars
  <1>11. ASSUME NEW b \in Boxes,
               MountSeen(b) \/ Exported(b) \/ MountFailed(b) \/ End(b) \/ StopAll(b)
               \/ ClearTree(b)
        PROVE  OwnerInv'
    BY <1>0, <1>11 DEF MountSeen, mgrVars, fuseVars, Exported, MountFailed, End, actVars, StopAll,
       ClearTree
  <1>12. ASSUME NEW a \in Actors, NEW p \in Paths,
               StopPath(a, p)
        PROVE  OwnerInv'
    BY <1>0, <1>12 DEF StopPath, actVars, fuseVars
  <1>13. ASSUME NEW a \in Actors,
               Acked(a) \/ Unregister(a)
        PROVE  OwnerInv'
    BY <1>0, <1>13 DEF Acked, mgrVars, fuseVars, Unregister
  <1>14. ASSUME TakeAck PROVE OwnerInv'
    BY <1>0, <1>14 DEF TakeAck, mgrVars, actVars, fuseVars
  <1>. QED
    BY <1>0, <1>1, <1>2, <1>3, <1>4, <1>5, <1>6, <1>7, <1>8, <1>9, <1>10, <1>11, <1>12, <1>13,
       <1>14 DEF Calm, AckLapses, Next, MountStep, RecStep, Unmounting, Sbxfuse

LEMMA CmdOwnerStep ==
  ASSUME TypeInv, Calm, CalmInv, Next
  PROVE  CmdOwner'
  <1>t. /\ cmds \in Seq(CmdRec)
        /\ at \in [Actors -> Paths]
        /\ pc \in [Actors -> PcStates]
    BY DEF TypeInv, TypeOK
  <1>w. world' = world
    BY DEF Next
  <1>a. /\ \A b \in Boxes : /\ Rec(b) \in Actors /\ Td(b) \in Actors /\ Rec(b)[1] = b
                            /\ Td(b)[1] = b /\ Rec(b) # Td(b)
        /\ \A a \in Actors : a[1] \in Boxes /\ (a = Rec(a[1]) \/ a = Td(a[1]))
        /\ Boxes \subseteq Nat
    BY ActorFacts
  <1>c. \A k \in DOMAIN cmds : cmds[k].by \in Actors /\ cmds[k].path \in Paths
    BY CmdFacts
  <1>i. TurnInv /\ PlanInv /\ MapInv /\ OwnerInv /\ CmdOwner /\ CmdOrder /\ RegInv /\ GoneInv
    BY DEF CalmInv, ServerInv
  <1>m. \A x \in Boxes, q \in Paths : MayServe(x, q) /\ (mounts'[q] # None \/ cmds' # <<>>) =>
          MayServe(x, q)'
    BY MayServeStep
  <1>f. \A x \in Boxes : phase'[x] # "failed" => phase[x] # "failed"
    BY FailedStays
  <1>0. CASE UNCHANGED <<cmds>>
    <2>1. \A k \in DOMAIN cmds : cmds[k].by[1] \in Boxes /\ cmds[k].path \in Paths /\ cmds # <<>>
      BY <1>a, <1>c, <1>t
    <2>9. SUFFICES ASSUME NEW k \in DOMAIN cmds', cmds'[k].op = "mount", NEW y \in Boxes, NEW q \in Paths,
                          cmds'[k].by[1] = y, cmds'[k].path = q, phase'[y] # "failed"
                   PROVE  MayServe(y, q)'
      BY <1>0, <2>1 DEF CmdOwner, MayServe, InHand
    <2>2. phase[y] # "failed" /\ k \in DOMAIN cmds /\ cmds[k] = cmds'[k] /\ cmds' # <<>>
      BY <1>0, <1>f, <2>1, <2>9
    <2>3. MayServe(y, q)
      BY <1>i, <2>2, <2>9 DEF CmdOwner
    <2>. QED  BY <1>m, <2>2, <2>3
  <1>1. ASSUME NEW b \in Boxes, NEW p \in Paths, ReACL(b, p) PROVE CmdOwner'
    <2>1. [op |-> "reacl", path |-> p, by |-> Rec(b)] \in CmdRec
      BY <1>a, <1>t DEF CmdRec
    <2>2. \A k \in DOMAIN cmds' : cmds'[k].op = "mount" =>
            /\ k \in DOMAIN cmds /\ cmds'[k] = cmds[k] /\ cmds' # <<>>
            /\ cmds[k].by[1] \in Boxes /\ cmds[k].path \in Paths
      BY <1>a, <1>c, <1>t, <2>1, <1>1, CmdAppend DEF ReACL
    <2>9. SUFFICES ASSUME NEW k \in DOMAIN cmds', cmds'[k].op = "mount", NEW y \in Boxes, NEW q \in Paths,
                          cmds'[k].by[1] = y, cmds'[k].path = q, phase'[y] # "failed"
                   PROVE  MayServe(y, q)'
      BY <2>2 DEF CmdOwner, MayServe, InHand
    <2>3. phase[y] # "failed" /\ k \in DOMAIN cmds /\ cmds[k] = cmds'[k] /\ cmds' # <<>>
      BY <1>f, <2>2, <2>9
    <2>4. MayServe(y, q)
      BY <1>i, <2>3, <2>9 DEF CmdOwner
    <2>. QED  BY <1>m, <2>3, <2>4
  <1>2. ASSUME NEW b \in Boxes, NEW p \in Paths, StartMount(b, p) PROVE CmdOwner'
    <2>1. [op |-> "mount", path |-> p, by |-> Rec(b)] \in CmdRec
      BY <1>a DEF CmdRec
    <2>2. \A k \in DOMAIN cmds' :
            \/ k \in DOMAIN cmds /\ cmds'[k] = cmds[k] /\ cmds[k].by[1] \in Boxes /\ cmds[k].path \in Paths
            \/ cmds'[k].by[1] = b /\ cmds'[k].path = p
      BY <1>a, <1>c, <2>1, <1>2, CmdAppend DEF StartMount
    <2>3. cmds' # <<>>
      BY <1>t, <2>1, <1>2, CmdAppend DEF StartMount
    <2>9. SUFFICES ASSUME NEW k \in DOMAIN cmds', cmds'[k].op = "mount", NEW y \in Boxes, NEW q \in Paths,
                          cmds'[k].by[1] = y, cmds'[k].path = q, phase'[y] # "failed"
                   PROVE  MayServe(y, q)'
      BY <2>2 DEF CmdOwner, MayServe, InHand
    <2>4. CASE k \in DOMAIN cmds /\ cmds[k] = cmds'[k]
      <3>1. MayServe(y, q)
        BY <1>i, <1>f, <2>4, <2>9 DEF CmdOwner
      <3>. QED  BY <1>m, <2>3, <3>1
    <2>5. CASE y = b /\ q = p
      <3>1. at'[Rec(b)] = p /\ pc'[Rec(b)] = "waitMount"
        BY <1>a, <1>t, <1>2 DEF StartMount
      <3>. QED  BY <1>a, <2>5, <3>1 DEF MayServe, InHand
    <2>. QED  BY <2>2, <2>4, <2>5, <2>9
  <1>3. ASSUME NEW a \in Actors, SendUnmount(a) PROVE CmdOwner'
    <2>1. [op |-> "unmount", path |-> at[a], by |-> a] \in CmdRec
      BY <1>a, <1>t DEF CmdRec
    <2>2. \A k \in DOMAIN cmds' : cmds'[k].op = "mount" =>
            /\ k \in DOMAIN cmds /\ cmds'[k] = cmds[k] /\ cmds' # <<>>
            /\ cmds[k].by[1] \in Boxes /\ cmds[k].path \in Paths
      BY <1>a, <1>c, <1>t, <2>1, <1>3, CmdAppend DEF SendUnmount
    <2>9. SUFFICES ASSUME NEW k \in DOMAIN cmds', cmds'[k].op = "mount", NEW y \in Boxes, NEW q \in Paths,
                          cmds'[k].by[1] = y, cmds'[k].path = q, phase'[y] # "failed"
                   PROVE  MayServe(y, q)'
      BY <2>2 DEF CmdOwner, MayServe, InHand
    <2>3. phase[y] # "failed" /\ k \in DOMAIN cmds /\ cmds[k] = cmds'[k] /\ cmds' # <<>>
      BY <1>f, <2>2, <2>9
    <2>4. MayServe(y, q)
      BY <1>i, <2>3, <2>9 DEF CmdOwner
    <2>. QED  BY <1>m, <2>3, <2>4
  <1>4. ASSUME CmdMount PROVE CmdOwner'
    <2>1. \A k \in DOMAIN cmds' : /\ k + 1 \in DOMAIN cmds /\ cmds'[k] = cmds[k + 1] /\ cmds' # <<>>
                                  /\ cmds'[k].by[1] \in Boxes /\ cmds'[k].path \in Paths
      BY <1>a, <1>c, <1>t, <1>4, CmdTail DEF CmdMount
    <2>9. SUFFICES ASSUME NEW k \in DOMAIN cmds', cmds'[k].op = "mount", NEW y \in Boxes, NEW q \in Paths,
                          cmds'[k].by[1] = y, cmds'[k].path = q, phase'[y] # "failed"
                   PROVE  MayServe(y, q)'
      BY <2>1 DEF CmdOwner, MayServe, InHand
    <2>2. MayServe(y, q)
      BY <1>i, <1>f, <2>1, <2>9 DEF CmdOwner
    <2>. QED  BY <1>m, <2>1, <2>2
  <1>5. ASSUME CmdUnmount PROVE CmdOwner'
    <2>1. cmds' = <<>>
      BY <1>5, CmdAlone DEF CmdUnmount
    <2>. QED  BY <2>1 DEF CmdOwner
  <1>6. ASSUME CmdReACL PROVE CmdOwner'
    <2>1. \A k \in DOMAIN cmds' : /\ k + 1 \in DOMAIN cmds /\ cmds'[k] = cmds[k + 1] /\ cmds' # <<>>
                                  /\ cmds'[k].by[1] \in Boxes /\ cmds'[k].path \in Paths
      BY <1>a, <1>c, <1>t, <1>6, CmdTail DEF CmdReACL
    <2>9. SUFFICES ASSUME NEW k \in DOMAIN cmds', cmds'[k].op = "mount", NEW y \in Boxes, NEW q \in Paths,
                          cmds'[k].by[1] = y, cmds'[k].path = q, phase'[y] # "failed"
                   PROVE  MayServe(y, q)'
      BY <2>1 DEF CmdOwner, MayServe, InHand
    <2>2. MayServe(y, q)
      BY <1>i, <1>f, <2>1, <2>9 DEF CmdOwner
    <2>. QED  BY <1>m, <2>1, <2>2
  <1>7. ASSUME NEW b \in Boxes, NEW d \in Configs,
               CreatePacked(b, d) \/ Reapply(b, d)
        PROVE  CmdOwner'
    BY <1>0, <1>7 DEF CreatePacked, Begin, fuseVars, Reapply
  <1>8. ASSUME NEW b \in Boxes, NEW ok \in BOOLEAN,
               Finish(b, ok)
        PROVE  CmdOwner'
    BY <1>0, <1>8 DEF Finish, fuseVars
  <1>9. ASSUME NEW b \in Boxes,
               MountSeen(b) \/ Exported(b) \/ MountFailed(b) \/ End(b) \/ StopAll(b)
               \/ ClearTree(b)
        PROVE  CmdOwner'
    BY <1>0, <1>9 DEF MountSeen, mgrVars, fuseVars, Exported, MountFailed, End, actVars, StopAll,
       ClearTree
  <1>10. ASSUME NEW a \in Actors, NEW p \in Paths,
               StopPath(a, p)
        PROVE  CmdOwner'
    BY <1>0, <1>10 DEF StopPath, actVars, fuseVars
  <1>11. ASSUME NEW a \in Actors,
               Acked(a) \/ Unregister(a)
        PROVE  CmdOwner'
    BY <1>0, <1>11 DEF Acked, mgrVars, fuseVars, Unregister
  <1>12. ASSUME TakeAck PROVE CmdOwner'
    BY <1>0, <1>12 DEF TakeAck, mgrVars, actVars, fuseVars
  <1>13. ASSUME NEW i \in DOMAIN servers,
               Detach(i) \/ Drained(i)
        PROVE  CmdOwner'
    BY <1>0, <1>13 DEF Detach, mgrVars, actVars, Drained
  <1>. QED
    BY <1>0, <1>1, <1>2, <1>3, <1>4, <1>5, <1>6, <1>7, <1>8, <1>9, <1>10, <1>11, <1>12, <1>13 DEF
       Calm, AckLapses, Next, MountStep, RecStep, Unmounting, Sbxfuse

LEMMA CmdOrderStep ==
  ASSUME TypeInv, Calm, CalmInv, Next
  PROVE  CmdOrder'
  <1>t. /\ cmds \in Seq(CmdRec)
        /\ at \in [Actors -> Paths]
    BY DEF TypeInv, TypeOK
  <1>w. world' = world
    BY DEF Next
  <1>a. /\ \A b \in Boxes : /\ Rec(b) \in Actors /\ Td(b) \in Actors /\ Rec(b)[1] = b
                            /\ Td(b)[1] = b /\ Rec(b) # Td(b)
        /\ \A a \in Actors : a[1] \in Boxes /\ (a = Rec(a[1]) \/ a = Td(a[1]))
        /\ Boxes \subseteq Nat
    BY ActorFacts
  <1>c. \A k \in DOMAIN cmds : cmds[k].by \in Actors /\ cmds[k].path \in Paths
    BY CmdFacts
  <1>i. TurnInv /\ PlanInv /\ MapInv /\ OwnerInv /\ CmdOwner /\ CmdOrder /\ RegInv /\ GoneInv
    BY DEF CalmInv, ServerInv
  <1>0. CASE UNCHANGED <<cmds>>
    BY <1>0, <1>i DEF CmdOrder
  <1>1. ASSUME NEW b \in Boxes, NEW p \in Paths, ReACL(b, p) PROVE CmdOrder'
    <2>1. [op |-> "reacl", path |-> p, by |-> Rec(b)] \in CmdRec
      BY <1>a, <1>t DEF CmdRec
    <2>2. \A k \in DOMAIN cmds' : cmds'[k].op = "mount" => k \in DOMAIN cmds /\ cmds'[k] = cmds[k]
      BY <2>1, <1>1, CmdAppend DEF ReACL
    <2>. QED  BY <1>i, <2>2 DEF CmdOrder
  <1>2. ASSUME NEW b \in Boxes, NEW p \in Paths, StartMount(b, p) PROVE CmdOrder'
    <2>1. [op |-> "mount", path |-> p, by |-> Rec(b)] \in CmdRec
      BY <1>a DEF CmdRec
    <2>2. /\ \A k \in DOMAIN cmds' : k \in Nat /\ k =< Len(cmds) + 1 /\ Len(cmds) \in Nat
          /\ \A k \in DOMAIN cmds' : k # Len(cmds) + 1 => k \in DOMAIN cmds /\ cmds'[k] = cmds[k]
          /\ cmds'[Len(cmds) + 1].path = p /\ cmds'[Len(cmds) + 1].by[1] = b
      BY <1>a, <2>1, <1>2, CmdAppend DEF StartMount
    <2>3. phase[b] \in Busy
      BY <1>a, <1>i, <1>2, ActiveBusy DEF StartMount
    <2>4. \A k \in DOMAIN cmds : cmds[k].op = "mount" /\ cmds[k].path = p => cmds[k].by[1] < b
      <3>1. SUFFICES ASSUME NEW k \in DOMAIN cmds, cmds[k].op = "mount", cmds[k].path = p,
                            NEW y \in Boxes, y = cmds[k].by[1]
                     PROVE  y < b
        BY <1>a, <1>c
      <3>2. phase[y] = "failed"
        BY <1>i, <3>1, <1>2, NotServed DEF CmdOwner
      <3>3. ~(b < y) /\ b # y
        BY <1>i, <2>3, <3>2 DEF TurnInv, Busy
      <3>. QED  BY <1>a, <3>3
    <2>5. \A k, l \in DOMAIN cmds' : k < l => k # Len(cmds) + 1
      BY <2>2
    <2>. QED  BY <1>i, <2>2, <2>4, <2>5 DEF CmdOrder
  <1>3. ASSUME NEW a \in Actors, SendUnmount(a) PROVE CmdOrder'
    <2>1. [op |-> "unmount", path |-> at[a], by |-> a] \in CmdRec
      BY <1>a, <1>t DEF CmdRec
    <2>2. \A k \in DOMAIN cmds' : cmds'[k].op = "mount" => k \in DOMAIN cmds /\ cmds'[k] = cmds[k]
      BY <2>1, <1>3, CmdAppend DEF SendUnmount
    <2>. QED  BY <1>i, <2>2 DEF CmdOrder
  <1>4. ASSUME CmdMount PROVE CmdOrder'
    <2>1. \A k \in DOMAIN cmds' : k + 1 \in DOMAIN cmds /\ cmds'[k] = cmds[k + 1] /\ k \in Nat
      BY <1>4, CmdTail DEF CmdMount
    <2>2. \A k, l \in DOMAIN cmds' : k < l => k + 1 < l + 1
      BY <2>1
    <2>. QED  BY <1>i, <2>1, <2>2 DEF CmdOrder
  <1>5. ASSUME CmdUnmount PROVE CmdOrder'
    <2>1. cmds' = <<>>
      BY <1>5, CmdAlone DEF CmdUnmount
    <2>. QED  BY <2>1 DEF CmdOrder
  <1>6. ASSUME CmdReACL PROVE CmdOrder'
    <2>1. \A k \in DOMAIN cmds' : k + 1 \in DOMAIN cmds /\ cmds'[k] = cmds[k + 1] /\ k \in Nat
      BY <1>6, CmdTail DEF CmdReACL
    <2>2. \A k, l \in DOMAIN cmds' : k < l => k + 1 < l + 1
      BY <2>1
    <2>. QED  BY <1>i, <2>1, <2>2 DEF CmdOrder
  <1>7. ASSUME NEW b \in Boxes, NEW d \in Configs,
               CreatePacked(b, d) \/ Reapply(b, d)
        PROVE  CmdOrder'
    BY <1>0, <1>7 DEF CreatePacked, Begin, fuseVars, Reapply
  <1>8. ASSUME NEW b \in Boxes, NEW ok \in BOOLEAN,
               Finish(b, ok)
        PROVE  CmdOrder'
    BY <1>0, <1>8 DEF Finish, fuseVars
  <1>9. ASSUME NEW b \in Boxes,
               MountSeen(b) \/ Exported(b) \/ MountFailed(b) \/ End(b) \/ StopAll(b)
               \/ ClearTree(b)
        PROVE  CmdOrder'
    BY <1>0, <1>9 DEF MountSeen, mgrVars, fuseVars, Exported, MountFailed, End, actVars, StopAll,
       ClearTree
  <1>10. ASSUME NEW a \in Actors, NEW p \in Paths,
               StopPath(a, p)
        PROVE  CmdOrder'
    BY <1>0, <1>10 DEF StopPath, actVars, fuseVars
  <1>11. ASSUME NEW a \in Actors,
               Acked(a) \/ Unregister(a)
        PROVE  CmdOrder'
    BY <1>0, <1>11 DEF Acked, mgrVars, fuseVars, Unregister
  <1>12. ASSUME TakeAck PROVE CmdOrder'
    BY <1>0, <1>12 DEF TakeAck, mgrVars, actVars, fuseVars
  <1>13. ASSUME NEW i \in DOMAIN servers,
               Detach(i) \/ Drained(i)
        PROVE  CmdOrder'
    BY <1>0, <1>13 DEF Detach, mgrVars, actVars, Drained
  <1>. QED
    BY <1>0, <1>1, <1>2, <1>3, <1>4, <1>5, <1>6, <1>7, <1>8, <1>9, <1>10, <1>11, <1>12, <1>13 DEF
       Calm, AckLapses, Next, MountStep, RecStep, Unmounting, Sbxfuse

LEMMA RegStep ==
  ASSUME TypeInv, Calm, CalmInv, Next
  PROVE  RegInv'
  <1>t. /\ reg \in [Paths -> {0} \union Boxes]
        /\ live \in [Boxes -> SUBSET Paths]
        /\ at \in [Actors -> Paths]
        /\ pc \in [Actors -> PcStates]
        /\ todo \in [Actors -> TodoRec]
    BY DEF TypeInv, TypeOK
  <1>w. world' = world
    BY DEF Next
  <1>a. /\ \A b \in Boxes : /\ Rec(b) \in Actors /\ Td(b) \in Actors /\ Rec(b)[1] = b
                            /\ Td(b)[1] = b /\ Rec(b) # Td(b)
        /\ \A a \in Actors : a[1] \in Boxes /\ (a = Rec(a[1]) \/ a = Td(a[1]))
        /\ Boxes \subseteq Nat
    BY ActorFacts
  <1>f. \A x \in Boxes : phase'[x] # "failed" => phase[x] # "failed"
    BY FailedStays
  <1>i. TurnInv /\ PlanInv /\ MapInv /\ OwnerInv /\ CmdOwner /\ CmdOrder /\ RegInv /\ GoneInv
    BY DEF CalmInv, ServerInv
  <1>0. CASE UNCHANGED <<reg, live, at, pc>>
    BY <1>0, <1>i, <1>f DEF RegInv, Away
  <1>1. ASSUME NEW b \in Boxes, NEW d \in Configs, CreatePacked(b, d) PROVE RegInv'
    BY <1>t, <1>w, <1>a, <1>f, <1>i, <1>1 DEF CreatePacked, Begin, planFsReconcile, fuseVars, RegInv,
       Away
  <1>2. ASSUME NEW b \in Boxes, NEW d \in Configs, Reapply(b, d) PROVE RegInv'
    BY <1>t, <1>w, <1>a, <1>f, <1>i, <1>2 DEF Reapply, Begin, planFsReconcile, fuseVars, RegInv,
       Away
  <1>3. ASSUME NEW b \in Boxes, NEW ok \in BOOLEAN, Finish(b, ok) PROVE RegInv'
    <2>1. /\ UNCHANGED <<reg, live, at>> /\ Rec(b) \in Actors /\ pc[Rec(b)] = "work" /\ pc'[Rec(b)] = "idle"
          /\ \A c \in Actors : c # Rec(b) => pc'[c] = pc[c]
      BY <1>a, <1>t, <1>3 DEF Finish, mgrVars
    <2>2. \A c \in Actors : Away(c) => Away(c)'
      BY <2>1 DEF Away
    <2>. QED  BY <1>f, <1>i, <2>1, <2>2 DEF RegInv
  <1>4. ASSUME NEW b \in Boxes, NEW p \in Paths, StartMount(b, p) PROVE RegInv'
    <2>1. /\ live' = live /\ Rec(b) \in Actors /\ Rec(b)[1] = b /\ pc[Rec(b)] = "work" /\ pc'[Rec(b)] = "waitMount"
          /\ at'[Rec(b)] = p /\ \A c \in Actors : c # Rec(b) => pc'[c] = pc[c] /\ at'[c] = at[c]
          /\ \A q \in Paths : q # p => reg'[q] = reg[q]
          /\ reg'[p] = b
      BY <1>a, <1>t, <1>4 DEF StartMount
    <2>2. \A c \in Actors : Away(c) => Away(c)' /\ at'[c] = at[c]
      BY <2>1 DEF Away
    <2>3. Away(Rec(b))'
      BY <2>1 DEF Away
    <2>. QED  BY <1>f, <1>i, <2>1, <2>2, <2>3 DEF RegInv
  <1>5. ASSUME NEW b \in Boxes, MountSeen(b) PROVE RegInv'
    BY <1>t, <1>w, <1>a, <1>f, <1>i, <1>5 DEF MountSeen, mgrVars, fuseVars, RegInv, Away
  <1>6. ASSUME NEW b \in Boxes, Exported(b) PROVE RegInv'
    BY <1>t, <1>w, <1>a, <1>f, <1>i, <1>6 DEF Exported, fuseVars, RegInv, Away
  <1>7. ASSUME NEW b \in Boxes, MountFailed(b) PROVE RegInv'
    BY <1>t, <1>w, <1>a, <1>f, <1>i, <1>7 DEF MountFailed, MayFail, mgrVars, fuseVars, RegInv,
       Away
  <1>8. ASSUME NEW a \in Actors, NEW p \in Paths, StopPath(a, p) PROVE RegInv'
    BY <1>t, <1>w, <1>a, <1>f, <1>i, <1>8 DEF StopPath, actVars, fuseVars, RegInv, Away
  <1>9. ASSUME NEW a \in Actors, SendUnmount(a) PROVE RegInv'
    BY <1>t, <1>w, <1>a, <1>f, <1>i, <1>9 DEF SendUnmount, mgrVars, fuseVars, RegInv, Away
  <1>10. ASSUME NEW a \in Actors, Acked(a) PROVE RegInv'
    <2>1. /\ UNCHANGED <<reg, live, at>> /\ a \in Actors /\ pc[a] = "wait" /\ pc'[a] = "unregister"
          /\ \A c \in Actors : c # a => pc'[c] = pc[c]
      BY <1>a, <1>t, <1>10 DEF Acked, mgrVars
    <2>2. \A c \in Actors : Away(c) => Away(c)'
      BY <2>1 DEF Away
    <2>. QED  BY <1>f, <1>i, <2>1, <2>2 DEF RegInv
  <1>11. ASSUME NEW a \in Actors, Unregister(a) PROVE RegInv'
    <2>1. /\ UNCHANGED <<live, at>> /\ \A c \in Actors : c # a => pc'[c] = pc[c]
          /\ \A q \in Paths : q # at[a] => reg'[q] = reg[q]
          /\ reg'[at[a]] = 0 /\ 0 \notin Boxes
      BY <1>a, <1>t, <1>11, ActorFacts DEF Unregister, mgrVars
    <2>2. \A c \in Actors : c # a => (Away(c) => Away(c)')
      BY <2>1 DEF Away
    <2>. QED  BY <1>f, <1>i, <2>1, <2>2 DEF RegInv
  <1>12. ASSUME NEW b \in Boxes, StopAll(b) PROVE RegInv'
    <2>1. /\ UNCHANGED <<reg, live, at>> /\ Td(b) \in Actors /\ pc[Td(b)] = "idle" /\ pc'[Td(b)] = "work"
          /\ \A c \in Actors : c # Td(b) => pc'[c] = pc[c]
      BY <1>a, <1>t, <1>12 DEF StopAll, mgrVars
    <2>2. \A c \in Actors : Away(c) => Away(c)'
      BY <2>1 DEF Away
    <2>. QED  BY <1>f, <1>i, <2>1, <2>2 DEF RegInv
  <1>13. ASSUME NEW b \in Boxes, ClearTree(b) PROVE RegInv'
    BY <1>t, <1>w, <1>a, <1>f, <1>i, <1>13 DEF ClearTree, RegInv, Away
  <1>14. ASSUME NEW b \in Boxes, NEW p \in Paths,
               ReACL(b, p)
        PROVE  RegInv'
    BY <1>0, <1>14 DEF ReACL, actVars, fuseVars
  <1>15. ASSUME NEW b \in Boxes,
               End(b)
        PROVE  RegInv'
    BY <1>0, <1>15 DEF End, actVars, fuseVars
  <1>16. ASSUME TakeAck \/ CmdMount \/ CmdUnmount \/ CmdReACL PROVE RegInv'
    BY <1>0, <1>16 DEF TakeAck, mgrVars, actVars, fuseVars, CmdMount, CmdUnmount, CmdReACL
  <1>17. ASSUME NEW i \in DOMAIN servers,
               Detach(i) \/ Drained(i)
        PROVE  RegInv'
    BY <1>0, <1>17 DEF Detach, mgrVars, actVars, Drained
  <1>. QED
    BY <1>0, <1>1, <1>2, <1>3, <1>4, <1>5, <1>6, <1>7, <1>8, <1>9, <1>10, <1>11, <1>12, <1>13,
       <1>14, <1>15, <1>16, <1>17 DEF Calm, AckLapses, Next, MountStep, RecStep, Unmounting,
       Sbxfuse

\* When the tree is cleared, every server that is not of a failed create has
\* drained, and nothing is live.
LEMMA AllDown ==
  ASSUME TypeInv, CalmInv, NEW b \in Boxes, ClearTree(b)
  PROVE  /\ \A c \in Boxes : phase[c] # "failed" => live[c] = {}
         /\ \A i \in DOMAIN servers : phase[servers[i].box] # "failed" => servers[i].st = "done"
  <1>1. /\ Td(b) \in Actors /\ Td(b)[1] = b /\ pc[Td(b)] = "work" /\ phase[b] = "ending"
        /\ todo[Td(b)] = Nothing
    BY ActorFacts DEF ClearTree
  <1>2. live[b] = {}
    BY <1>1 DEF CalmInv, PlanInv, Nothing
  <1>3. ASSUME NEW c \in Boxes, phase[c] # "failed" PROVE live[c] = {}
    <2>1. SUFFICES ASSUME NEW p \in Paths, p \in live[c] PROVE FALSE
      BY DEF TypeInv, TypeOK
    <2>2. MayServe(c, p)
      BY <2>1 DEF MayServe
    <2>3. phase[c] \in Busy /\ phase[b] \in Busy
      BY <1>1, <1>3, <2>2, MayServeBusy DEF CalmInv, Busy
    <2>. QED  BY <1>2, <2>1, <2>3, OneBusy DEF CalmInv
  <1>4. \A a \in Actors : pc[a] \in {"idle", "work"}
    BY <1>1, OneActor DEF CalmInv
  <1>5. ASSUME NEW i \in DOMAIN servers, phase[servers[i].box] # "failed" PROVE servers[i].st = "done"
    <2>1. servers[i].path \in Paths /\ servers[i].box \in Boxes
      BY SrvFacts
    <2>2. servers[i].st \notin {"cancelled", "draining"}
      BY <1>1, Quiet DEF Waiting
    <2>3. servers[i].st # "serving"
      <3>1. ~MayServe(servers[i].box, servers[i].path)
        BY <1>3, <1>4, <1>5, <2>1 DEF MayServe, InHand
      <3>. QED  BY <1>5, <3>1 DEF CalmInv, ServerInv, OwnerInv
    <2>4. servers[i] \in SrvRec
      BY DEF TypeInv, TypeOK
    <2>. QED  BY <2>2, <2>3, <2>4 DEF SrvRec
  <1>. QED  BY <1>3, <1>5

LEMMA GoneStep ==
  ASSUME TypeInv, Calm, CalmInv, Next
  PROVE  GoneInv'
  <1>t. /\ servers \in Seq(SrvRec)
        /\ phase \in [Boxes -> Phases]
    BY DEF TypeInv, TypeOK
  <1>w. world' = world
    BY DEF Next
  <1>a. /\ \A b \in Boxes : /\ Rec(b) \in Actors /\ Td(b) \in Actors /\ Rec(b)[1] = b
                            /\ Td(b)[1] = b /\ Rec(b) # Td(b)
        /\ \A a \in Actors : a[1] \in Boxes /\ (a = Rec(a[1]) \/ a = Td(a[1]))
        /\ Boxes \subseteq Nat
    BY ActorFacts
  <1>s. \A i \in DOMAIN servers : servers[i].path \in Paths /\ servers[i].box \in Boxes
    BY SrvFacts
  <1>i. TurnInv /\ PlanInv /\ MapInv /\ OwnerInv /\ CmdOwner /\ CmdOrder /\ RegInv /\ GoneInv
    BY DEF CalmInv, ServerInv
  <1>0. CASE UNCHANGED <<servers, phase>>
    BY <1>0, <1>i DEF GoneInv
  <1>1. ASSUME NEW b \in Boxes, NEW d \in Configs, CreatePacked(b, d) PROVE GoneInv'
    BY <1>t, <1>w, <1>a, <1>s, <1>i, <1>1 DEF CreatePacked, Begin, planFsReconcile, fuseVars, GoneInv
  <1>2. ASSUME NEW b \in Boxes, NEW ok \in BOOLEAN, Finish(b, ok) PROVE GoneInv'
    BY <1>t, <1>w, <1>a, <1>s, <1>i, <1>2 DEF Finish, MayFail, fuseVars, GoneInv
  <1>3. ASSUME NEW b \in Boxes, End(b) PROVE GoneInv'
    BY <1>t, <1>w, <1>a, <1>s, <1>i, <1>3 DEF End, actVars, fuseVars, GoneInv
  <1>4. ASSUME NEW b \in Boxes, ClearTree(b) PROVE GoneInv'
    <2>1. servers' = servers /\ phase' = [phase EXCEPT ![b] = "gone"] /\ phase[b] = "ending"
      BY <1>4 DEF ClearTree
    <2>2. \A i \in DOMAIN servers : servers[i].box = b => servers[i].st = "done"
      BY <2>1, <1>4, AllDown
    <2>. QED  BY <1>t, <1>i, <1>s, <2>1, <2>2 DEF GoneInv
  <1>5. ASSUME CmdMount PROVE GoneInv'
    <2>1. UNCHANGED phase /\ cmds # <<>> /\ cmds[1].op = "mount" /\ cmds[1].by[1] \in Boxes /\ cmds[1].path \in Paths
      BY <1>a, <1>5, SrvMount DEF CmdMount, mgrVars
    <2>2. 1 \in DOMAIN cmds
      BY <2>1 DEF TypeInv, TypeOK
    <2>3. phase[cmds[1].by[1]] # "gone"
      BY <1>i, <2>1, <2>2, MayServeBusy DEF CmdOwner, Busy
    <2>4. \A j \in DOMAIN servers' : \/ j \in DOMAIN servers /\ servers'[j] = servers[j]
                                     \/ servers'[j].box = cmds[1].by[1]
      BY <1>5, SrvMount, SrvAppend DEF fuseVars
    <2>. QED  BY <1>i, <2>1, <2>3, <2>4 DEF GoneInv
  <1>6. ASSUME CmdUnmount PROVE GoneInv'
    <2>. DEFINE p == Head(cmds).path
    <2>1. p \in Paths /\ phase' = phase
      BY <1>6, CmdAlone DEF CmdUnmount, mgrVars
    <2>2. CASE servers' = servers
      BY <1>i, <2>1, <2>2 DEF GoneInv
    <2>3. CASE mounts[p] # None /\ servers' = [servers EXCEPT ![mounts[p]].st = "cancelled"]
      <3>1. PICK i \in DOMAIN servers : i = mounts[p]
        BY <2>1, <2>3 DEF TypeInv, TypeOK
      <3>2. servers[i].st # "done" /\ servers' = [servers EXCEPT ![i].st = "cancelled"]
        BY <1>i, <2>1, <2>3, <3>1 DEF MapInv
      <3>3. /\ DOMAIN servers' = DOMAIN servers
            /\ \A j \in DOMAIN servers : servers'[j].box = servers[j].box /\ (j # i => servers'[j] = servers[j])
        BY <3>2, SrvSet
      <3>. QED  BY <1>i, <2>1, <3>2, <3>3 DEF GoneInv
    <2>. QED  BY <2>2, <2>3, <1>6 DEF CmdUnmount
  <1>7. ASSUME CmdReACL PROVE GoneInv'
    <2>1. /\ phase' = phase /\ DOMAIN servers' = DOMAIN servers
          /\ \A j \in DOMAIN servers : servers'[j].box = servers[j].box /\ servers'[j].st = servers[j].st
      BY <1>7, SrvReACL DEF CmdReACL, mgrVars
    <2>. QED  BY <1>i, <2>1 DEF GoneInv
  <1>8. ASSUME NEW i \in DOMAIN servers, Detach(i) PROVE GoneInv'
    <2>1. /\ phase' = phase /\ servers[i].st # "done" /\ DOMAIN servers' = DOMAIN servers
          /\ \A j \in DOMAIN servers : servers'[j].box = servers[j].box /\ (j # i => servers'[j] = servers[j])
      BY <1>8, SrvSet DEF Detach, mgrVars
    <2>. QED  BY <1>i, <2>1 DEF GoneInv
  <1>9. ASSUME NEW i \in DOMAIN servers, Drained(i) PROVE GoneInv'
    <2>1. /\ phase' = phase /\ servers[i].st # "done" /\ DOMAIN servers' = DOMAIN servers
          /\ \A j \in DOMAIN servers : servers'[j].box = servers[j].box /\ (j # i => servers'[j] = servers[j])
      BY <1>9, SrvSet DEF Drained, mgrVars
    <2>. QED  BY <1>i, <2>1 DEF GoneInv
  <1>10. ASSUME NEW b \in Boxes, NEW d \in Configs,
               Reapply(b, d)
        PROVE  GoneInv'
    BY <1>0, <1>10 DEF Reapply, Begin, fuseVars
  <1>11. ASSUME NEW b \in Boxes, NEW p \in Paths,
               ReACL(b, p) \/ StartMount(b, p)
        PROVE  GoneInv'
    BY <1>0, <1>11 DEF ReACL, actVars, fuseVars, StartMount
  <1>12. ASSUME NEW b \in Boxes,
               MountSeen(b) \/ Exported(b) \/ MountFailed(b) \/ StopAll(b)
        PROVE  GoneInv'
    BY <1>0, <1>12 DEF MountSeen, mgrVars, fuseVars, Exported, MountFailed, StopAll
  <1>13. ASSUME NEW a \in Actors, NEW p \in Paths,
               StopPath(a, p)
        PROVE  GoneInv'
    BY <1>0, <1>13 DEF StopPath, actVars, fuseVars
  <1>14. ASSUME NEW a \in Actors,
               SendUnmount(a) \/ Acked(a) \/ Unregister(a)
        PROVE  GoneInv'
    BY <1>0, <1>14 DEF SendUnmount, mgrVars, fuseVars, Acked, Unregister
  <1>15. ASSUME TakeAck PROVE GoneInv'
    BY <1>0, <1>15 DEF TakeAck, mgrVars, actVars, fuseVars
  <1>. QED
    BY <1>0, <1>1, <1>2, <1>3, <1>4, <1>5, <1>6, <1>7, <1>8, <1>9, <1>10, <1>11, <1>12, <1>13,
       <1>14, <1>15 DEF Calm, AckLapses, Next, MountStep, RecStep, Unmounting, Sbxfuse

-----------------------------------------------------------------------------
(* Where no create fails: what is mounted and served, and with which ACLs. *)

\* A serving server is the one of a sandbox that knows of it.
LEMMA Serving ==
  ASSUME TypeInv, CalmInv, ServedInv, NEW i \in DOMAIN servers, servers[i].st = "serving"
  PROVE  /\ servers[i].path \in Paths /\ servers[i].box \in Boxes /\ i # None
         /\ phase[servers[i].box] # "failed" /\ mounts[servers[i].path] = i
         /\ MayServe(servers[i].box, servers[i].path)
         /\ \A k \in DOMAIN cmds : ~MountCmd(k, servers[i].path)
  <1>1. servers[i].path \in Paths /\ servers[i].box \in Boxes /\ i # None
    BY SrvFacts DEF TypeInv, TypeOK, None
  <1>2. phase[servers[i].box] # "failed"
    BY <1>1 DEF ServedInv, StackInv
  <1>. QED  BY <1>1, <1>2 DEF CalmInv, ServerInv, OwnerInv

\* Only the sandbox of the one active actor has a live path.
LEMMA LiveOne ==
  ASSUME TypeInv, CalmInv, ServedInv, NEW a \in Actors, pc[a] # "idle",
         NEW c \in Boxes, c # a[1]
  PROVE  live[c] = {}
  <1>1. a[1] \in Boxes /\ phase[a[1]] \in Busy
    BY ActorFacts, ActiveBusy DEF CalmInv
  <1>2. phase[c] \notin Busy /\ phase[c] # "failed"
    BY <1>1, OneBusy DEF CalmInv, ServedInv, StackInv
  <1>3. phase[c] \in {"new", "gone"}
    BY <1>2 DEF TypeInv, TypeOK, Phases, Busy
  <1>. QED  BY <1>3 DEF CalmInv, TurnInv

\* Nothing is attached where a mount command is about to mount.
LEMMA MountPointFree ==
  ASSUME TypeInv, CalmInv, ServedInv, cmds # <<>>, cmds[1].op = "mount",
         NEW i \in DOMAIN servers, Attached(i)
  PROVE  servers[i].path # cmds[1].path
  <1>1. 1 \in DOMAIN cmds
    BY DEF TypeInv, TypeOK
  <1>2. CASE servers[i].st = "serving"
    BY <1>1, <1>2, Serving DEF MountCmd
  <1>3. CASE servers[i].st = "cancelled"
    <2>1. PICK a \in Actors : Waiting(a) /\ target[a] = i /\ at[a] = servers[i].path /\ i # Unseen
      BY <1>3, ServerAlone
    <2>2. cmds[1].by[1] \in Boxes
      BY <1>1, CmdFacts, ActorFacts
    <2>3. phase[cmds[1].by[1]] # "failed"
      BY <2>2 DEF ServedInv, StackInv
    <2>4. MayServe(cmds[1].by[1], cmds[1].path)
      BY <1>1, <2>3 DEF CalmInv, ServerInv, CmdOwner
    <2>5. ~MayServe(cmds[1].by[1], at[a])
      BY <2>1, <2>2, <2>3, NotInHand DEF Waiting, Away
    <2>. QED  BY <2>1, <2>4, <2>5
  <1>. QED  BY <1>2, <1>3 DEF Attached

LEMMA StackStep ==
  ASSUME TypeInv, Calm, CalmInv, ~world.createFails, ServedInv, Next
  PROVE  StackInv'
  <1>t. /\ phase \in [Boxes -> Phases]
        /\ servers \in Seq(SrvRec)
        /\ stack \in [Paths -> Seq(DOMAIN servers)]
    BY DEF TypeInv, TypeOK
  <1>w. world' = world
    BY DEF Next
  <1>s. \A i \in DOMAIN servers : servers[i].path \in Paths /\ servers[i].box \in Boxes
    BY SrvFacts
  <1>p. \A b \in Boxes : phase[b] # "failed"
    BY DEF ServedInv, StackInv
  <1>i. TurnInv /\ PlanInv /\ TokenInv /\ MapInv /\ OwnerInv /\ CmdOwner /\ StackInv /\ LiveInv /\ WantInv /\ ReadInv
    BY DEF CalmInv, ServerInv, ServedInv
  <1>0. CASE UNCHANGED <<phase, servers, stack>>
    BY <1>0, <1>i DEF StackInv, Attached
  <1>1. ASSUME NEW b \in Boxes, NEW d \in Configs, CreatePacked(b, d) PROVE StackInv'
    <2>1. UNCHANGED <<servers, stack>> /\ \A c \in Boxes : phase'[c] # "failed"
      BY <1>t, <1>p, <1>1 DEF CreatePacked, Begin, fuseVars, mgrVars
    <2>. QED  BY <1>i, <2>1 DEF StackInv, Attached
  <1>2. ASSUME NEW b \in Boxes, NEW ok \in BOOLEAN, Finish(b, ok) PROVE StackInv'
    <2>1. UNCHANGED <<servers, stack>> /\ \A c \in Boxes : phase'[c] # "failed"
      BY <1>t, <1>p, <1>w, <1>2 DEF Finish, MayFail, fuseVars
    <2>. QED  BY <1>i, <2>1 DEF StackInv, Attached
  <1>3. ASSUME NEW b \in Boxes, End(b) PROVE StackInv'
    <2>1. UNCHANGED <<servers, stack>> /\ \A c \in Boxes : phase'[c] # "failed"
      BY <1>t, <1>p, <1>3 DEF End, Begin, fuseVars, mgrVars
    <2>. QED  BY <1>i, <2>1 DEF StackInv, Attached
  <1>4. ASSUME NEW b \in Boxes, ClearTree(b) PROVE StackInv'
    <2>1. UNCHANGED servers /\ stack' = [p \in Paths |-> <<>>] /\ \A c \in Boxes : phase'[c] # "failed"
      BY <1>t, <1>p, <1>4 DEF ClearTree
    <2>2. \A i \in DOMAIN servers : servers[i].st = "done"
      BY <1>p, <1>s, <1>4, AllDown
    <2>. QED  BY <2>1, <2>2 DEF StackInv, Attached
  <1>5. ASSUME CmdMount PROVE StackInv'
    <2>1. /\ phase' = phase /\ cmds # <<>> /\ cmds[1].op = "mount" /\ cmds[1].path \in Paths
      BY <1>5, SrvMount DEF CmdMount, mgrVars
    <2>2. CASE UNCHANGED <<servers, stack>>
      BY <1>i, <2>1, <2>2 DEF StackInv, Attached
    <2>3. CASE ~UNCHANGED fuseVars
      <3>1. PICK s \in SrvRec :
              /\ servers' = Append(servers, s) /\ s.path = cmds[1].path /\ s.st = "serving"
              /\ stack' = [stack EXCEPT ![s.path] = Append(stack[s.path], Len(servers) + 1)]
        BY <2>3, <1>5, SrvMount
      <3>2. PICK n \in DOMAIN servers' :
              /\ n = Len(servers) + 1 /\ servers'[n] = s
              /\ \A j \in DOMAIN servers : j \in DOMAIN servers' /\ servers'[j] = servers[j]
              /\ \A j \in DOMAIN servers' : j # n => j \in DOMAIN servers
        BY <3>1, SrvAppend
      <3>3. \A j \in DOMAIN servers : Attached(j) => servers[j].path # s.path
        BY <2>1, <3>1, MountPointFree
      <3>4. stack[s.path] = <<>>
        BY <1>i, <2>1, <3>1, <3>3 DEF StackInv
      <3>5. stack'[s.path] = <<n>> /\ \A q \in Paths : q # s.path => stack'[q] = stack[q]
        BY <1>t, <2>1, <3>1, <3>2, <3>4
      <3>6. \A j \in DOMAIN servers' : Attached(j)' => stack'[servers'[j].path] = <<j>>
        <4>1. ASSUME NEW j \in DOMAIN servers', Attached(j)', j # n
              PROVE  stack'[servers'[j].path] = <<j>>
          <5>1. j \in DOMAIN servers /\ servers'[j] = servers[j] /\ Attached(j)
            BY <3>2, <4>1 DEF Attached
          <5>2. servers[j].path # s.path /\ servers[j].path \in Paths /\ stack[servers[j].path] = <<j>>
            BY <1>i, <1>s, <3>3, <5>1 DEF StackInv
          <5>. QED  BY <3>5, <5>1, <5>2
        <4>. QED  BY <3>2, <3>5, <4>1
      <3>7. \A q \in Paths : stack'[q] # <<>> => \E j \in DOMAIN servers' : Attached(j)' /\ servers'[j].path = q
        <4>1. ASSUME NEW q \in Paths, stack'[q] # <<>>, q # s.path
              PROVE  \E j \in DOMAIN servers' : Attached(j)' /\ servers'[j].path = q
          <5>1. PICK j \in DOMAIN servers : Attached(j) /\ servers[j].path = q
            BY <1>i, <3>5, <4>1 DEF StackInv
          <5>. QED  BY <3>2, <5>1 DEF Attached
        <4>2. Attached(n)'
          BY <3>1, <3>2 DEF Attached
        <4>. QED  BY <3>2, <4>1, <4>2
      <3>. QED  BY <1>p, <2>1, <3>6, <3>7 DEF StackInv
    <2>. QED  BY <2>2, <2>3 DEF fuseVars
  <1>6. ASSUME CmdUnmount PROVE StackInv'
    <2>. DEFINE p == Head(cmds).path
    <2>1. p \in Paths /\ UNCHANGED <<phase, stack>>
      BY <1>6, CmdAlone DEF CmdUnmount, mgrVars
    <2>2. CASE servers' = servers
      BY <1>i, <2>1, <2>2 DEF StackInv, Attached
    <2>3. CASE mounts[p] # None /\ servers' = [servers EXCEPT ![mounts[p]].st = "cancelled"]
      <3>1. PICK i \in DOMAIN servers : i = mounts[p]
        BY <2>1, <2>3 DEF TypeInv, TypeOK
      <3>2. servers[i].st = "serving" /\ servers' = [servers EXCEPT ![i].st = "cancelled"]
        BY <1>i, <2>1, <2>3, <3>1 DEF MapInv
      <3>3. /\ DOMAIN servers' = DOMAIN servers /\ servers'[i].st = "cancelled"
            /\ \A j \in DOMAIN servers : servers'[j].path = servers[j].path /\ (j # i => servers'[j] = servers[j])
        BY <3>2, SrvSet
      <3>4. \A j \in DOMAIN servers : (servers'[j].st \in {"serving", "cancelled"}) <=>
                                      (servers[j].st \in {"serving", "cancelled"})
        BY <3>2, <3>3
      <3>5. \A j \in DOMAIN servers' : Attached(j)' => stack'[servers'[j].path] = <<j>>
        BY <1>i, <2>1, <3>3, <3>4 DEF StackInv, Attached
      <3>6. \A q \in Paths : stack'[q] # <<>> => \E j \in DOMAIN servers' : Attached(j)' /\ servers'[j].path = q
        BY <1>i, <2>1, <3>3, <3>4 DEF StackInv, Attached
      <3>. QED  BY <1>p, <2>1, <3>5, <3>6 DEF StackInv
    <2>. QED  BY <2>2, <2>3, <1>6 DEF CmdUnmount
  <1>7. ASSUME CmdReACL PROVE StackInv'
    <2>1. /\ UNCHANGED <<phase, stack>> /\ DOMAIN servers' = DOMAIN servers
          /\ \A j \in DOMAIN servers : servers'[j].path = servers[j].path /\ servers'[j].st = servers[j].st
      BY <1>7, SrvReACL DEF CmdReACL, mgrVars
    <2>. QED  BY <1>i, <2>1 DEF StackInv, Attached
  <1>8. ASSUME NEW i \in DOMAIN servers, Detach(i) PROVE StackInv'
    <2>0. PICK p \in Paths : p = servers[i].path
      BY <1>s
    <2>1. /\ servers[i].st = "cancelled" /\ servers' = [servers EXCEPT ![i].st = "draining"] /\ phase' = phase
          /\ stack' = [stack EXCEPT ![p] = IF stack[p] = <<>> THEN stack[p]
                                           ELSE SubSeq(stack[p], 1, Len(stack[p]) - 1)]
      BY <2>0, <1>8 DEF Detach, mgrVars
    <2>2. stack[p] = <<i>>
      BY <1>i, <2>0, <2>1 DEF StackInv, Attached
    <2>3. stack'[p] = <<>> /\ \A q \in Paths : q # p => stack'[q] = stack[q]
      <3>1. SubSeq(<<i>>, 1, Len(<<i>>) - 1) = <<>>
        OBVIOUS
      <3>. QED  BY <1>t, <2>1, <2>2, <3>1
    <2>4. /\ DOMAIN servers' = DOMAIN servers /\ servers'[i].st = "draining"
          /\ \A j \in DOMAIN servers : servers'[j].path = servers[j].path /\ (j # i => servers'[j] = servers[j])
      BY <2>1, SrvSet
    <2>5. \A j \in DOMAIN servers : Attached(j)' <=> (Attached(j) /\ j # i)
      BY <2>4 DEF Attached
    <2>6. \A j \in DOMAIN servers : Attached(j) /\ j # i => servers[j].path # p
      BY <1>i, <2>2 DEF StackInv
    <2>7. \A j \in DOMAIN servers' : Attached(j)' => stack'[servers'[j].path] = <<j>>
      <3>1. ASSUME NEW j \in DOMAIN servers', Attached(j)' PROVE stack'[servers'[j].path] = <<j>>
        <4>1. j \in DOMAIN servers /\ Attached(j) /\ j # i /\ servers'[j].path = servers[j].path
          BY <2>4, <2>5, <3>1
        <4>2. servers[j].path # p /\ servers[j].path \in Paths /\ stack[servers[j].path] = <<j>>
          BY <1>i, <1>s, <2>6, <4>1 DEF StackInv
        <4>. QED  BY <2>3, <4>1, <4>2
      <3>. QED  BY <3>1
    <2>8. \A q \in Paths : stack'[q] # <<>> => \E j \in DOMAIN servers' : Attached(j)' /\ servers'[j].path = q
      BY <1>i, <2>0, <2>3, <2>4, <2>5 DEF StackInv
    <2>. QED  BY <1>p, <2>1, <2>7, <2>8 DEF StackInv
  <1>9. ASSUME NEW i \in DOMAIN servers, Drained(i) PROVE StackInv'
    <2>1. /\ servers[i].st = "draining" /\ UNCHANGED <<phase, stack>>
          /\ servers' = [servers EXCEPT ![i].st = "done"]
      BY <1>9 DEF Drained, mgrVars
    <2>2. /\ DOMAIN servers' = DOMAIN servers /\ servers'[i].st = "done"
          /\ \A j \in DOMAIN servers : servers'[j].path = servers[j].path /\ (j # i => servers'[j] = servers[j])
      BY <2>1, SrvSet
    <2>3. \A j \in DOMAIN servers : (servers'[j].st \in {"serving", "cancelled"}) <=>
                                    (servers[j].st \in {"serving", "cancelled"})
      BY <2>1, <2>2
    <2>. QED  BY <1>i, <2>1, <2>2, <2>3 DEF StackInv, Attached
  <1>10. ASSUME NEW b \in Boxes, NEW d \in Configs,
               Reapply(b, d)
        PROVE  StackInv'
    BY <1>0, <1>10 DEF Reapply, Begin, fuseVars
  <1>11. ASSUME NEW b \in Boxes, NEW p \in Paths,
               ReACL(b, p) \/ StartMount(b, p)
        PROVE  StackInv'
    BY <1>0, <1>11 DEF ReACL, actVars, fuseVars, StartMount
  <1>12. ASSUME NEW b \in Boxes,
               MountSeen(b) \/ Exported(b) \/ MountFailed(b) \/ StopAll(b)
        PROVE  StackInv'
    BY <1>0, <1>12 DEF MountSeen, mgrVars, fuseVars, Exported, MountFailed, StopAll
  <1>13. ASSUME NEW a \in Actors, NEW p \in Paths,
               StopPath(a, p)
        PROVE  StackInv'
    BY <1>0, <1>13 DEF StopPath, actVars, fuseVars
  <1>14. ASSUME NEW a \in Actors,
               SendUnmount(a) \/ Acked(a) \/ Unregister(a)
        PROVE  StackInv'
    BY <1>0, <1>14 DEF SendUnmount, mgrVars, fuseVars, Acked, Unregister
  <1>15. ASSUME TakeAck PROVE StackInv'
    BY <1>0, <1>15 DEF TakeAck, mgrVars, actVars, fuseVars
  <1>. QED
    BY <1>0, <1>1, <1>2, <1>3, <1>4, <1>5, <1>6, <1>7, <1>8, <1>9, <1>10, <1>11, <1>12, <1>13,
       <1>14, <1>15 DEF Calm, AckLapses, Next, MountStep, RecStep, Unmounting, Sbxfuse

LEMMA LiveStep ==
  ASSUME TypeInv, Calm, CalmInv, ~world.createFails, ServedInv, Next
  PROVE  LiveInv'
  <1>t. /\ live \in [Boxes -> SUBSET Paths]
        /\ mounts \in [Paths -> {None} \union DOMAIN servers]
        /\ reg \in [Paths -> {0} \union Boxes]
        /\ pc \in [Actors -> PcStates]
        /\ at \in [Actors -> Paths]
    BY DEF TypeInv, TypeOK
  <1>w. world' = world
    BY DEF Next
  <1>a. /\ \A b \in Boxes : /\ Rec(b) \in Actors /\ Td(b) \in Actors /\ Rec(b)[1] = b
                            /\ Td(b)[1] = b /\ Rec(b) # Td(b)
        /\ \A a \in Actors : a[1] \in Boxes /\ (a = Rec(a[1]) \/ a = Td(a[1]))
        /\ Boxes \subseteq Nat
    BY ActorFacts
  <1>o. \A a, c \in Actors : pc[a] # "idle" /\ pc[c] # "idle" => a = c
    BY OneActor DEF CalmInv
  <1>i. TurnInv /\ PlanInv /\ TokenInv /\ MapInv /\ OwnerInv /\ CmdOwner /\ StackInv /\ LiveInv /\ WantInv /\ ReadInv
    BY DEF CalmInv, ServerInv, ServedInv
  <1>0. CASE UNCHANGED <<live, mounts, reg, pc, at>>
    BY <1>0, <1>i DEF LiveInv
  <1>1. ASSUME NEW b \in Boxes, NEW d \in Configs, CreatePacked(b, d) PROVE LiveInv'
    BY <1>t, <1>w, <1>a, <1>o, <1>i, <1>1 DEF CreatePacked, Begin, planFsReconcile, fuseVars, LiveInv
  <1>2. ASSUME NEW b \in Boxes, NEW d \in Configs, Reapply(b, d) PROVE LiveInv'
    BY <1>t, <1>w, <1>a, <1>o, <1>i, <1>2 DEF Reapply, Begin, planFsReconcile, fuseVars, LiveInv
  <1>3. ASSUME NEW b \in Boxes, NEW ok \in BOOLEAN, Finish(b, ok) PROVE LiveInv'
    BY <1>t, <1>w, <1>a, <1>o, <1>i, <1>3 DEF Finish, MayFail, fuseVars, LiveInv
  <1>4. ASSUME NEW b \in Boxes, NEW p \in Paths, StartMount(b, p) PROVE LiveInv'
    <2>1. /\ UNCHANGED <<live, mounts>> /\ Rec(b) \in Actors /\ pc[Rec(b)] = "work"
          /\ pc'[Rec(b)] = "waitMount" /\ at'[Rec(b)] = p /\ reg'[p] = b
          /\ \A q \in Paths : q # p => reg'[q] = reg[q]
          /\ \A c \in Actors : c # Rec(b) => pc'[c] = pc[c] /\ at'[c] = at[c]
      BY <1>a, <1>t, <1>4 DEF StartMount, fuseVars
    <2>2. \A c \in Boxes : p \notin live[c]
      <3>1. p \notin live[b]
        BY <1>i, <1>4 DEF PlanInv, StartMount
      <3>2. \A c \in Boxes : c # b => live[c] = {}
        BY <1>a, <2>1, LiveOne
      <3>. QED  BY <3>1, <3>2
    <2>3. \A c \in Actors : pc[c] # "idle" => c = Rec(b)
      BY <1>o, <2>1
    <2>4. \A c \in Boxes : \A q \in live'[c] : mounts'[q] # None /\ reg'[q] = c
      BY <1>t, <1>i, <2>1, <2>2 DEF LiveInv
    <2>5. \A c \in Boxes : c # b => pc'[Rec(c)] = "idle"
      BY <1>a, <2>1, <2>3
    <2>. QED  BY <2>1, <2>4, <2>5 DEF LiveInv
  <1>5. ASSUME NEW b \in Boxes, MountSeen(b) PROVE LiveInv'
    <2>1. /\ UNCHANGED <<live, mounts, reg, at>> /\ Rec(b) \in Actors /\ pc[Rec(b)] = "waitMount"
          /\ pc'[Rec(b)] = "export" /\ stack[at[Rec(b)]] # <<>> /\ at[Rec(b)] \in Paths
          /\ \A c \in Actors : c # Rec(b) => pc'[c] = pc[c]
      BY <1>a, <1>t, <1>5 DEF MountSeen, fuseVars, mgrVars
    <2>2. PICK i \in DOMAIN servers : Attached(i) /\ servers[i].path = at[Rec(b)]
      BY <1>i, <2>1 DEF StackInv
    <2>3. servers[i].st = "serving"
      BY <2>1, <2>2, Quiet DEF Waiting, Attached
    <2>4. mounts[at[Rec(b)]] # None
      BY <2>2, <2>3, Serving
    <2>5. \A c \in Boxes : pc'[Rec(c)] \in {"waitMount", "export"} => pc[Rec(c)] \in {"waitMount", "export"}
      BY <1>a, <2>1
    <2>6. \A c \in Boxes : pc'[Rec(c)] = "export" => c = b \/ pc[Rec(c)] = "export"
      BY <1>a, <2>1
    <2>. QED  BY <1>i, <2>1, <2>4, <2>5, <2>6 DEF LiveInv
  <1>6. ASSUME NEW b \in Boxes, Exported(b) PROVE LiveInv'
    BY <1>t, <1>w, <1>a, <1>o, <1>i, <1>6 DEF Exported, fuseVars, LiveInv
  <1>7. ASSUME NEW b \in Boxes, MountFailed(b) PROVE LiveInv'
    BY <1>t, <1>w, <1>a, <1>o, <1>i, <1>7 DEF MountFailed, MayFail, mgrVars, fuseVars, LiveInv
  <1>8. ASSUME NEW a \in Actors, NEW p \in Paths, StopPath(a, p) PROVE LiveInv'
    BY <1>t, <1>w, <1>a, <1>o, <1>i, <1>8 DEF StopPath, actVars, fuseVars, LiveInv
  <1>9. ASSUME NEW a \in Actors, SendUnmount(a) PROVE LiveInv'
    BY <1>t, <1>w, <1>a, <1>o, <1>i, <1>9 DEF SendUnmount, mgrVars, fuseVars, LiveInv
  <1>10. ASSUME NEW a \in Actors, Acked(a) PROVE LiveInv'
    BY <1>t, <1>w, <1>a, <1>o, <1>i, <1>10 DEF Acked, mgrVars, fuseVars, LiveInv
  <1>11. ASSUME NEW a \in Actors, Unregister(a) PROVE LiveInv'
    <2>1. /\ UNCHANGED <<live, mounts, at>> /\ pc[a] = "unregister" /\ pc'[a] = "work"
          /\ \A q \in Paths : q # at[a] => reg'[q] = reg[q]
          /\ \A c \in Actors : c # a => pc'[c] = pc[c]
      BY <1>t, <1>11 DEF Unregister, fuseVars, mgrVars
    <2>2. \A c \in Boxes : at[a] \notin live[c]
      BY <1>a, <1>i, <2>1, LiveOne DEF PlanInv, Away
    <2>3. \A c \in Actors : pc'[c] \in {"idle", "work"}
      BY <1>o, <2>1
    <2>4. \A c \in Boxes : \A q \in live'[c] : mounts'[q] # None /\ reg'[q] = c
      BY <1>t, <1>i, <2>1, <2>2 DEF LiveInv
    <2>. QED  BY <1>a, <2>3, <2>4 DEF LiveInv
  <1>12. ASSUME NEW b \in Boxes, StopAll(b) PROVE LiveInv'
    BY <1>t, <1>w, <1>a, <1>o, <1>i, <1>12 DEF StopAll, fuseVars, LiveInv
  <1>13. ASSUME NEW b \in Boxes, ClearTree(b) PROVE LiveInv'
    BY <1>t, <1>w, <1>a, <1>o, <1>i, <1>13 DEF ClearTree, LiveInv
  <1>14. ASSUME CmdMount PROVE LiveInv'
    <2>1. UNCHANGED <<live, reg, pc, at>>
      BY <1>14 DEF CmdMount, mgrVars, actVars
    <2>2. \A q \in Paths : mounts[q] # None => mounts'[q] # None
      <3>1. CASE mounts' = mounts
        BY <3>1
      <3>2. CASE \E q \in Paths : mounts' = [mounts EXCEPT ![q] = Len(servers) + 1]
        <4>1. Len(servers) + 1 # None
          BY DEF TypeInv, TypeOK, None
        <4>. QED  BY <1>t, <3>2, <4>1
      <3>. QED  BY <3>1, <3>2, <1>14, SrvMount DEF fuseVars
    <2>. QED  BY <1>a, <1>t, <1>i, <2>1, <2>2 DEF LiveInv
  <1>15. ASSUME CmdUnmount PROVE LiveInv'
    <2>1. PICK a \in Actors : Waiting(a) /\ at[a] = Head(cmds).path
      BY <1>15, CmdAlone DEF CmdUnmount
    <2>2. UNCHANGED <<live, reg, pc, at>> /\ \A q \in Paths : q # at[a] => mounts'[q] = mounts[q]
      BY <1>t, <2>1, <1>15 DEF CmdUnmount, mgrVars, actVars
    <2>3. \A c \in Boxes : at[a] \notin live[c]
      BY <1>a, <1>i, <2>1, LiveOne DEF PlanInv, Away, Waiting
    <2>4. \A c \in Actors : pc[c] # "export"
      BY <1>o, <2>1 DEF Waiting
    <2>. QED  BY <1>a, <1>t, <1>i, <2>2, <2>3, <2>4 DEF LiveInv
  <1>16. ASSUME NEW b \in Boxes, NEW p \in Paths,
               ReACL(b, p)
        PROVE  LiveInv'
    BY <1>0, <1>16 DEF ReACL, actVars, fuseVars
  <1>17. ASSUME NEW b \in Boxes,
               End(b)
        PROVE  LiveInv'
    BY <1>0, <1>17 DEF End, actVars, fuseVars
  <1>18. ASSUME TakeAck \/ CmdReACL PROVE LiveInv'
    BY <1>0, <1>18 DEF TakeAck, mgrVars, actVars, fuseVars, CmdReACL
  <1>19. ASSUME NEW i \in DOMAIN servers,
               Detach(i) \/ Drained(i)
        PROVE  LiveInv'
    BY <1>0, <1>19 DEF Detach, mgrVars, actVars, Drained
  <1>. QED
    BY <1>0, <1>1, <1>2, <1>3, <1>4, <1>5, <1>6, <1>7, <1>8, <1>9, <1>10, <1>11, <1>12, <1>13,
       <1>14, <1>15, <1>16, <1>17, <1>18, <1>19 DEF Calm, AckLapses, Next, MountStep, RecStep,
       Unmounting, Sbxfuse

LEMMA WantStep ==
  ASSUME TypeInv, Calm, CalmInv, ~world.createFails, ServedInv, Next
  PROVE  WantInv'
  <1>t. /\ todo \in [Actors -> TodoRec]
        /\ want \in [Boxes -> [Paths -> 0..MaxAcl]]
        /\ live \in [Boxes -> SUBSET Paths]
        /\ pc \in [Actors -> PcStates]
        /\ at \in [Actors -> Paths]
        /\ aclFile \in [Paths -> 0..MaxAcl]
    BY DEF TypeInv, TypeOK
  <1>w. world' = world
    BY DEF Next
  <1>a. /\ \A b \in Boxes : /\ Rec(b) \in Actors /\ Td(b) \in Actors /\ Rec(b)[1] = b
                            /\ Td(b)[1] = b /\ Rec(b) # Td(b)
        /\ \A a \in Actors : a[1] \in Boxes /\ (a = Rec(a[1]) \/ a = Td(a[1]))
        /\ Boxes \subseteq Nat
    BY ActorFacts
  <1>o. \A a, c \in Actors : pc[a] # "idle" /\ pc[c] # "idle" => a = c
    BY OneActor DEF CalmInv
  <1>p. \A b \in Boxes : phase[b] # "failed"
    BY DEF ServedInv, StackInv
  <1>i. TurnInv /\ PlanInv /\ TokenInv /\ MapInv /\ OwnerInv /\ CmdOwner /\ StackInv /\ LiveInv /\ WantInv /\ ReadInv
    BY DEF CalmInv, ServerInv, ServedInv
  <1>0. CASE UNCHANGED <<todo, want, live, pc, at, aclFile>>
    BY <1>0, <1>i DEF WantInv
  <1>1. ASSUME NEW b \in Boxes, NEW d \in Configs, CreatePacked(b, d) PROVE WantInv'
    BY <1>t, <1>w, <1>a, <1>o, <1>p, <1>i, <1>1 DEF CreatePacked, Begin, planFsReconcile, fuseVars,
       WantInv
  <1>2. ASSUME NEW b \in Boxes, NEW d \in Configs, Reapply(b, d) PROVE WantInv'
    BY <1>t, <1>w, <1>a, <1>o, <1>p, <1>i, <1>2 DEF Reapply, Begin, planFsReconcile, fuseVars,
       WantInv
  <1>3. ASSUME NEW b \in Boxes, NEW ok \in BOOLEAN, Finish(b, ok) PROVE WantInv'
    <2>1. /\ UNCHANGED <<todo, want, live, at, aclFile>> /\ pc'[Rec(b)] = "idle"
          /\ \A c \in Actors : c # Rec(b) => pc'[c] = pc[c]
      BY <1>a, <1>t, <1>3 DEF Finish
    <2>2. \A c \in Boxes : pc'[Rec(c)] \in {"waitMount", "export"} => pc[Rec(c)] \in {"waitMount", "export"}
      BY <1>a, <2>1
    <2>. QED  BY <1>i, <2>1, <2>2 DEF WantInv
  <1>4. ASSUME NEW b \in Boxes, NEW p \in Paths, ReACL(b, p) PROVE WantInv'
    <2>1. /\ UNCHANGED <<want, live, at, pc>> /\ Rec(b) \in Actors /\ pc[Rec(b)] = "work"
          /\ p \in todo[Rec(b)].keep /\ todo[Rec(b)].keep \subseteq live[b]
      BY <1>a, <1>i, <1>4 DEF ReACL, actVars, PlanInv
    <2>2. /\ todo'[Rec(b)].keep = todo[Rec(b)].keep \ {p} /\ todo'[Rec(b)].add = todo[Rec(b)].add
          /\ todo'[Rec(b)].remove = todo[Rec(b)].remove
          /\ \A c \in Actors : c # Rec(b) => todo'[c] = todo[c]
      BY <1>t, <2>1, <1>4 DEF ReACL, TodoRec
    <2>3. aclFile'[p] = want[b][p] /\ \A q \in Paths : q # p => aclFile'[q] = aclFile[q]
      BY <1>t, <2>1, <1>4 DEF ReACL
    <2>4. \A c \in Boxes : c # b => live[c] = {} /\ Rec(c) # Rec(b)
      BY <1>a, <2>1, LiveOne
    <2>5. \A c \in Boxes : pc[Rec(c)] \notin {"waitMount", "export"}
      BY <1>a, <1>o, <2>1
    <2>6. \A c \in Boxes : \A q \in todo'[Rec(c)].keep \union todo'[Rec(c)].add : want'[c][q] # 0
      BY <1>a, <1>i, <2>1, <2>2 DEF WantInv
    <2>7. ASSUME NEW q \in live[b]
          PROVE  aclFile'[q] = want[b][q] \/ q \in todo'[Rec(b)].keep \union todo'[Rec(b)].remove
      <3>1. q \in Paths /\ (aclFile[q] = want[b][q] \/ q \in todo[Rec(b)].keep \union todo[Rec(b)].remove)
        BY <1>t, <1>i DEF WantInv
      <3>. QED  BY <2>2, <2>3, <3>1
    <2>. QED  BY <2>1, <2>4, <2>5, <2>6, <2>7 DEF WantInv
  <1>5. ASSUME NEW b \in Boxes, NEW p \in Paths, StartMount(b, p) PROVE WantInv'
    <2>1. /\ UNCHANGED <<want, live>> /\ Rec(b) \in Actors /\ pc[Rec(b)] = "work"
          /\ at'[Rec(b)] = p /\ \A c \in Actors : c # Rec(b) => pc'[c] = pc[c] /\ at'[c] = at[c]
      BY <1>a, <1>t, <1>5 DEF StartMount
    <2>2. /\ todo'[Rec(b)].keep = todo[Rec(b)].keep /\ todo'[Rec(b)].add \subseteq todo[Rec(b)].add
          /\ todo'[Rec(b)].remove = todo[Rec(b)].remove
          /\ \A c \in Actors : c # Rec(b) => todo'[c] = todo[c]
      BY <1>t, <2>1, <1>5 DEF StartMount, TodoRec
    <2>3. aclFile'[p] = want[b][p] /\ \A q \in Paths : q # p => aclFile'[q] = aclFile[q]
      BY <1>t, <1>5 DEF StartMount
    <2>4. \A c \in Boxes : c # b => live[c] = {} /\ Rec(c) # Rec(b)
      BY <1>a, <2>1, LiveOne
    <2>5. p \notin live[b]
      BY <1>i, <1>5 DEF PlanInv, StartMount
    <2>6. \A c \in Boxes : c # b => pc'[Rec(c)] = "idle"
      BY <1>a, <1>o, <2>1, <2>4
    <2>7. \A c \in Boxes : \A q \in todo'[Rec(c)].keep \union todo'[Rec(c)].add : want'[c][q] # 0
      BY <1>a, <1>i, <2>1, <2>2 DEF WantInv
    <2>8. \A c \in Boxes : \A q \in live[c] :
            aclFile'[q] = want[c][q] \/ q \in todo'[Rec(c)].keep \union todo'[Rec(c)].remove
      BY <1>t, <1>i, <2>2, <2>3, <2>4, <2>5 DEF WantInv
    <2>. QED  BY <2>1, <2>3, <2>6, <2>7, <2>8 DEF WantInv
  <1>6. ASSUME NEW b \in Boxes, MountSeen(b) PROVE WantInv'
    <2>1. /\ UNCHANGED <<todo, want, live, at, aclFile>> /\ pc[Rec(b)] = "waitMount"
          /\ \A c \in Actors : c # Rec(b) => pc'[c] = pc[c]
      BY <1>a, <1>t, <1>6 DEF MountSeen, mgrVars
    <2>2. \A c \in Boxes : pc'[Rec(c)] \in {"waitMount", "export"} => pc[Rec(c)] \in {"waitMount", "export"}
      BY <1>a, <2>1
    <2>. QED  BY <1>i, <2>1, <2>2 DEF WantInv
  <1>7. ASSUME NEW b \in Boxes, Exported(b) PROVE WantInv'
    <2>1. /\ UNCHANGED <<todo, want, at, aclFile>> /\ pc[Rec(b)] = "export" /\ pc'[Rec(b)] = "work"
          /\ live'[b] = live[b] \union {at[Rec(b)]} /\ \A c \in Boxes : c # b => live'[c] = live[c]
          /\ \A c \in Actors : c # Rec(b) => pc'[c] = pc[c]
      BY <1>a, <1>t, <1>7 DEF Exported
    <2>2. aclFile[at[Rec(b)]] = want[b][at[Rec(b)]]
      BY <1>i, <2>1 DEF WantInv
    <2>3. \A c \in Boxes : \A q \in live'[c] :
            aclFile[q] = want[c][q] \/ q \in todo[Rec(c)].keep \union todo[Rec(c)].remove
      BY <1>i, <2>1, <2>2 DEF WantInv
    <2>. QED  BY <1>a, <1>i, <2>1, <2>3 DEF WantInv
  <1>8. ASSUME NEW b \in Boxes, MountFailed(b) PROVE WantInv'
    <2>1. /\ UNCHANGED <<want, live, at, aclFile>> /\ pc'[Rec(b)] \notin {"waitMount", "export"}
          /\ \A c \in Actors : c # Rec(b) => pc'[c] = pc[c]
          /\ \A c \in Boxes : todo'[Rec(c)] = todo[Rec(c)]
      BY <1>a, <1>t, <1>8 DEF MountFailed, mgrVars
    <2>2. \A c \in Boxes : pc'[Rec(c)] \in {"waitMount", "export"} => pc[Rec(c)] \in {"waitMount", "export"}
      BY <1>a, <2>1
    <2>. QED  BY <1>i, <2>1, <2>2 DEF WantInv
  <1>9. ASSUME NEW a \in Actors, NEW p \in Paths, StopPath(a, p) PROVE WantInv'
    <2>1. /\ UNCHANGED <<want, aclFile>> /\ pc[a] = "work" /\ pc'[a] \in {"work", "unmount"}
          /\ \A c \in Actors : c # a => todo'[c] = todo[c] /\ pc'[c] = pc[c]
          /\ todo'[a].keep = todo[a].keep /\ todo'[a].add = todo[a].add
          /\ todo'[a].remove = todo[a].remove \ {p}
      BY <1>t, <1>9 DEF StopPath, actVars, TodoRec
    <2>2. live'[a[1]] = live[a[1]] \ {p} /\ \A c \in Boxes : c # a[1] => live'[c] = live[c]
      BY <1>a, <1>t, <1>9 DEF StopPath
    <2>3. \A c \in Actors : pc'[c] \notin {"waitMount", "export"}
      BY <1>o, <2>1
    <2>4. \A c \in Boxes : \A q \in todo'[Rec(c)].keep \union todo'[Rec(c)].add : want'[c][q] # 0
      BY <1>a, <1>i, <2>1 DEF WantInv
    <2>5. \A c \in Boxes : c # a[1] => live[c] = {}
      BY <2>1, LiveOne
    <2>6. ASSUME NEW q \in live'[a[1]]
          PROVE  aclFile[q] = want[a[1]][q] \/ q \in todo'[Rec(a[1])].keep \union todo'[Rec(a[1])].remove
      <3>1. /\ q \in live[a[1]] /\ q # p
            /\ aclFile[q] = want[a[1]][q] \/ q \in todo[Rec(a[1])].keep \union todo[Rec(a[1])].remove
        BY <1>a, <1>i, <2>2 DEF WantInv
      <3>. QED  BY <1>a, <2>1, <3>1
    <2>. QED  BY <1>a, <2>1, <2>2, <2>3, <2>4, <2>5, <2>6 DEF WantInv
  <1>10. ASSUME NEW a \in Actors, SendUnmount(a) PROVE WantInv'
    <2>1. /\ UNCHANGED <<want, live, at, aclFile>> /\ pc'[a] \notin {"waitMount", "export"}
          /\ \A c \in Actors : c # a => pc'[c] = pc[c]
          /\ \A c \in Boxes : todo'[Rec(c)] = todo[Rec(c)]
      BY <1>a, <1>t, <1>10 DEF SendUnmount, mgrVars
    <2>2. \A c \in Boxes : pc'[Rec(c)] \in {"waitMount", "export"} => pc[Rec(c)] \in {"waitMount", "export"}
      BY <1>a, <2>1
    <2>. QED  BY <1>i, <2>1, <2>2 DEF WantInv
  <1>11. ASSUME NEW a \in Actors, Acked(a) PROVE WantInv'
    <2>1. /\ UNCHANGED <<want, live, at, aclFile>> /\ pc'[a] \notin {"waitMount", "export"}
          /\ \A c \in Actors : c # a => pc'[c] = pc[c]
          /\ \A c \in Boxes : todo'[Rec(c)] = todo[Rec(c)]
      BY <1>a, <1>t, <1>11 DEF Acked, mgrVars
    <2>2. \A c \in Boxes : pc'[Rec(c)] \in {"waitMount", "export"} => pc[Rec(c)] \in {"waitMount", "export"}
      BY <1>a, <2>1
    <2>. QED  BY <1>i, <2>1, <2>2 DEF WantInv
  <1>12. ASSUME NEW a \in Actors, Unregister(a) PROVE WantInv'
    <2>1. /\ UNCHANGED <<todo, want, live, at>> /\ pc[a] = "unregister" /\ pc'[a] = "work"
          /\ \A q \in Paths : q # at[a] => aclFile'[q] = aclFile[q]
          /\ \A c \in Actors : c # a => pc'[c] = pc[c]
      BY <1>t, <1>12 DEF Unregister, mgrVars
    <2>2. \A c \in Boxes : at[a] \notin live[c]
      BY <1>a, <1>i, <2>1, LiveOne DEF PlanInv, Away
    <2>3. \A c \in Actors : pc'[c] \in {"idle", "work"}
      BY <1>o, <2>1
    <2>4. \A c \in Boxes : \A q \in live[c] :
            aclFile'[q] = want[c][q] \/ q \in todo[Rec(c)].keep \union todo[Rec(c)].remove
      BY <1>t, <1>i, <2>1, <2>2 DEF WantInv
    <2>. QED  BY <1>a, <1>i, <2>1, <2>3, <2>4 DEF WantInv
  <1>13. ASSUME NEW b \in Boxes, StopAll(b) PROVE WantInv'
    <2>1. /\ UNCHANGED <<want, live, at, aclFile>> /\ pc'[Td(b)] \notin {"waitMount", "export"}
          /\ \A c \in Actors : c # Td(b) => pc'[c] = pc[c]
          /\ \A c \in Boxes : todo'[Rec(c)] = todo[Rec(c)]
      BY <1>a, <1>t, <1>13 DEF StopAll, mgrVars
    <2>2. \A c \in Boxes : pc'[Rec(c)] \in {"waitMount", "export"} => pc[Rec(c)] \in {"waitMount", "export"}
      BY <1>a, <2>1
    <2>. QED  BY <1>i, <2>1, <2>2 DEF WantInv
  <1>14. ASSUME NEW b \in Boxes, ClearTree(b) PROVE WantInv'
    <2>1. /\ UNCHANGED <<todo, want, live, at>> /\ Td(b) \in Actors /\ pc[Td(b)] = "work" /\ pc'[Td(b)] = "idle"
          /\ \A c \in Actors : c # Td(b) => pc'[c] = pc[c]
      BY <1>a, <1>t, <1>14 DEF ClearTree
    <2>2. \A c \in Boxes : live[c] = {}
      BY <1>p, <1>14, AllDown
    <2>3. \A c \in Actors : pc'[c] = "idle"
      BY <1>o, <2>1
    <2>. QED  BY <1>a, <1>i, <2>1, <2>2, <2>3 DEF WantInv
  <1>15. ASSUME NEW b \in Boxes,
               End(b)
        PROVE  WantInv'
    BY <1>0, <1>15 DEF End, actVars, fuseVars
  <1>16. ASSUME TakeAck \/ CmdMount \/ CmdUnmount \/ CmdReACL PROVE WantInv'
    BY <1>0, <1>16 DEF TakeAck, mgrVars, actVars, fuseVars, CmdMount, CmdUnmount, CmdReACL
  <1>17. ASSUME NEW i \in DOMAIN servers,
               Detach(i) \/ Drained(i)
        PROVE  WantInv'
    BY <1>0, <1>17 DEF Detach, mgrVars, actVars, Drained
  <1>. QED
    BY <1>0, <1>1, <1>2, <1>3, <1>4, <1>5, <1>6, <1>7, <1>8, <1>9, <1>10, <1>11, <1>12, <1>13,
       <1>14, <1>15, <1>16, <1>17 DEF Calm, AckLapses, Next, MountStep, RecStep, Unmounting,
       Sbxfuse

LEMMA ReadStep ==
  ASSUME TypeInv, Calm, CalmInv, ~world.createFails, ServedInv, Next
  PROVE  ReadInv'
  <1>t. /\ servers \in Seq(SrvRec)
        /\ aclFile \in [Paths -> 0..MaxAcl]
        /\ cmds \in Seq(CmdRec)
        /\ at \in [Actors -> Paths]
    BY DEF TypeInv, TypeOK
  <1>w. world' = world
    BY DEF Next
  <1>a. /\ \A b \in Boxes : /\ Rec(b) \in Actors /\ Td(b) \in Actors /\ Rec(b)[1] = b
                            /\ Td(b)[1] = b /\ Rec(b) # Td(b)
        /\ \A a \in Actors : a[1] \in Boxes /\ (a = Rec(a[1]) \/ a = Td(a[1]))
        /\ Boxes \subseteq Nat
    BY ActorFacts
  <1>s. \A i \in DOMAIN servers : servers[i].path \in Paths /\ servers[i].box \in Boxes
    BY SrvFacts
  <1>p. \A b \in Boxes : phase[b] # "failed"
    BY DEF ServedInv, StackInv
  <1>i. TurnInv /\ PlanInv /\ TokenInv /\ MapInv /\ OwnerInv /\ CmdOwner /\ StackInv /\ LiveInv /\ WantInv /\ ReadInv
    BY DEF CalmInv, ServerInv, ServedInv
  <1>0. CASE UNCHANGED <<servers, aclFile, cmds>>
    BY <1>0, <1>i DEF ReadInv
  <1>1. ASSUME NEW b \in Boxes, NEW p \in Paths, ReACL(b, p) PROVE ReadInv'
    <2>0. [op |-> "reacl", path |-> p, by |-> Rec(b)] \in CmdRec /\ p \in live[b] /\ want[b][p] # 0
      BY <1>a, <1>i, <1>1 DEF CmdRec, ReACL, PlanInv, WantInv
    <2>1. /\ \A k \in DOMAIN cmds : k \in DOMAIN cmds' /\ cmds'[k] = cmds[k]
          /\ Len(cmds) + 1 \in DOMAIN cmds' /\ cmds'[Len(cmds) + 1] = [op |-> "reacl", path |-> p, by |-> Rec(b)]
      BY <2>0, <1>1, CmdAppend DEF ReACL
    <2>2. /\ servers' = servers /\ aclFile'[p] = want[b][p]
          /\ \A q \in Paths : q # p => aclFile'[q] = aclFile[q]
      BY <1>t, <2>0, <1>1 DEF ReACL, fuseVars
    <2>9. ASSUME NEW j \in DOMAIN servers, servers[j].st = "serving",
                 aclFile'[servers[j].path] = aclFile[servers[j].path]
          PROVE  /\ aclFile'[servers[j].path] # 0
                 /\ \/ servers[j].acl = aclFile'[servers[j].path]
                    \/ \E k \in DOMAIN cmds' : cmds'[k].op = "reacl" /\ cmds'[k].path = servers[j].path
      BY <1>i, <2>1, <2>9 DEF ReadInv
    <2>3. ASSUME NEW j \in DOMAIN servers, servers[j].path = p
          PROVE  /\ aclFile'[servers[j].path] # 0
                 /\ \E k \in DOMAIN cmds' : cmds'[k].op = "reacl" /\ cmds'[k].path = servers[j].path
      BY <2>0, <2>1, <2>2, <2>3
    <2>. QED  BY <1>s, <2>2, <2>3, <2>9 DEF ReadInv
  <1>2. ASSUME NEW b \in Boxes, NEW p \in Paths, StartMount(b, p) PROVE ReadInv'
    <2>0. [op |-> "mount", path |-> p, by |-> Rec(b)] \in CmdRec
      BY <1>a DEF CmdRec
    <2>1. \A k \in DOMAIN cmds : k \in DOMAIN cmds' /\ cmds'[k] = cmds[k]
      BY <2>0, <1>2, CmdAppend DEF StartMount
    <2>2. servers' = servers /\ \A q \in Paths : q # p => aclFile'[q] = aclFile[q]
      BY <1>t, <1>2 DEF StartMount, fuseVars
    <2>3. \A j \in DOMAIN servers : servers[j].st = "serving" => servers[j].path # p
      BY <1>2, Serving, NotServed
    <2>9. ASSUME NEW j \in DOMAIN servers, servers[j].st = "serving",
                 aclFile'[servers[j].path] = aclFile[servers[j].path]
          PROVE  /\ aclFile'[servers[j].path] # 0
                 /\ \/ servers[j].acl = aclFile'[servers[j].path]
                    \/ \E k \in DOMAIN cmds' : cmds'[k].op = "reacl" /\ cmds'[k].path = servers[j].path
      BY <1>i, <2>1, <2>9 DEF ReadInv
    <2>. QED  BY <1>s, <2>2, <2>3, <2>9 DEF ReadInv
  <1>3. ASSUME NEW a \in Actors, SendUnmount(a) PROVE ReadInv'
    <2>0. [op |-> "unmount", path |-> at[a], by |-> a] \in CmdRec
      BY <1>t DEF CmdRec
    <2>1. \A k \in DOMAIN cmds : k \in DOMAIN cmds' /\ cmds'[k] = cmds[k]
      BY <2>0, <1>3, CmdAppend DEF SendUnmount
    <2>2. servers' = servers /\ aclFile' = aclFile
      BY <1>3 DEF SendUnmount, fuseVars
    <2>9. ASSUME NEW j \in DOMAIN servers, servers[j].st = "serving",
                 aclFile'[servers[j].path] = aclFile[servers[j].path]
          PROVE  /\ aclFile'[servers[j].path] # 0
                 /\ \/ servers[j].acl = aclFile'[servers[j].path]
                    \/ \E k \in DOMAIN cmds' : cmds'[k].op = "reacl" /\ cmds'[k].path = servers[j].path
      BY <1>i, <2>1, <2>9 DEF ReadInv
    <2>. QED  BY <2>2, <2>9 DEF ReadInv
  <1>4. ASSUME NEW a \in Actors, Unregister(a) PROVE ReadInv'
    <2>1. UNCHANGED <<servers, cmds>> /\ \A q \in Paths : q # at[a] => aclFile'[q] = aclFile[q]
      BY <1>t, <1>4 DEF Unregister, fuseVars
    <2>2. \A j \in DOMAIN servers : servers[j].st = "serving" => servers[j].path # at[a]
      <3>1. pc[a] = "unregister" /\ Away(a)
        BY <1>4 DEF Unregister, Away
      <3>. QED  BY <3>1, Serving, NotInHand
    <2>9. ASSUME NEW j \in DOMAIN servers, servers[j].st = "serving",
                 aclFile'[servers[j].path] = aclFile[servers[j].path]
          PROVE  /\ aclFile'[servers[j].path] # 0
                 /\ \/ servers[j].acl = aclFile'[servers[j].path]
                    \/ \E k \in DOMAIN cmds' : cmds'[k].op = "reacl" /\ cmds'[k].path = servers[j].path
      BY <1>i, <2>1, <2>9 DEF ReadInv
    <2>. QED  BY <1>s, <2>1, <2>2, <2>9 DEF ReadInv
  <1>5. ASSUME NEW b \in Boxes, ClearTree(b) PROVE ReadInv'
    <2>1. servers' = servers /\ \A i \in DOMAIN servers : servers[i].st = "done"
      BY <1>p, <1>s, <1>5, AllDown DEF ClearTree
    <2>. QED  BY <2>1 DEF ReadInv
  <1>6. ASSUME CmdMount PROVE ReadInv'
    <2>0. /\ cmds # <<>> /\ cmds[1].op = "mount" /\ cmds' = Tail(cmds) /\ aclFile' = aclFile
      BY <1>6, SrvMount DEF CmdMount
    <2>1. \A k \in DOMAIN cmds : cmds[k].op = "reacl" => k - 1 \in DOMAIN cmds' /\ cmds'[k - 1] = cmds[k]
      BY <2>0, CmdTail
    <2>9. ASSUME NEW j \in DOMAIN servers, servers[j].st = "serving",
                 aclFile'[servers[j].path] = aclFile[servers[j].path]
          PROVE  /\ aclFile'[servers[j].path] # 0
                 /\ \/ servers[j].acl = aclFile'[servers[j].path]
                    \/ \E k \in DOMAIN cmds' : cmds'[k].op = "reacl" /\ cmds'[k].path = servers[j].path
      BY <1>i, <2>1, <2>9 DEF ReadInv
    <2>2. CASE servers' = servers
      BY <2>0, <2>2, <2>9 DEF ReadInv
    <2>3. CASE \E s \in SrvRec : servers' = Append(servers, s) /\ s.acl = aclFile[s.path] /\ aclFile[s.path] # 0
      <3>1. PICK s \in SrvRec : servers' = Append(servers, s) /\ s.acl = aclFile[s.path] /\ aclFile[s.path] # 0
        BY <2>3
      <3>2. \A j \in DOMAIN servers' : (j \in DOMAIN servers /\ servers'[j] = servers[j]) \/ servers'[j] = s
        BY <3>1, SrvAppend
      <3>. QED  BY <2>0, <2>9, <3>1, <3>2 DEF ReadInv
    <2>. QED  BY <2>2, <2>3, <1>6, SrvMount DEF fuseVars
  <1>7. ASSUME CmdUnmount PROVE ReadInv'
    <2>. DEFINE p == Head(cmds).path
    <2>0. p \in Paths /\ aclFile' = aclFile /\ cmds' = <<>> /\ cmds # <<>> /\ cmds' = Tail(cmds) /\ Head(cmds).op = "unmount"
      BY <1>7, CmdAlone DEF CmdUnmount
    <2>1. \A k \in DOMAIN cmds : cmds[k].op # "reacl"
      <3>1. /\ Len(cmds) \in Nat /\ Len(cmds') = Len(cmds) - 1 /\ DOMAIN cmds = 1..Len(cmds)
            /\ Head(cmds) = cmds[1]
        BY <2>0, CmdTail
      <3>2. Len(cmds') = 0
        BY <2>0
      <3>3. \A k \in DOMAIN cmds : k = 1
        BY <3>1, <3>2
      <3>. QED  BY <2>0, <3>1, <3>3
    <2>2. CASE servers' = servers
      BY <1>i, <2>0, <2>1, <2>2 DEF ReadInv
    <2>3. CASE mounts[p] # None /\ servers' = [servers EXCEPT ![mounts[p]].st = "cancelled"]
      <3>1. PICK i \in DOMAIN servers : i = mounts[p]
        BY <2>0, <2>3 DEF TypeInv, TypeOK
      <3>2. servers' = [servers EXCEPT ![i].st = "cancelled"]
        BY <2>3, <3>1
      <3>3. /\ DOMAIN servers' = DOMAIN servers /\ servers'[i].st = "cancelled"
            /\ \A j \in DOMAIN servers : j # i => servers'[j] = servers[j]
        BY <3>2, SrvSet
      <3>. QED  BY <1>i, <2>0, <2>1, <3>3 DEF ReadInv
    <2>. QED  BY <2>2, <2>3, <1>7 DEF CmdUnmount
  <1>8. ASSUME CmdReACL PROVE ReadInv'
    <2>0. /\ cmds # <<>> /\ cmds' = Tail(cmds) /\ aclFile' = aclFile /\ mounts' = mounts
      BY <1>8 DEF CmdReACL
    <2>1. /\ Head(cmds) = cmds[1]
          /\ \A k \in DOMAIN cmds : k # 1 => k - 1 \in DOMAIN cmds' /\ cmds'[k - 1] = cmds[k]
      BY <2>0, CmdTail
    <2>2. /\ DOMAIN servers' = DOMAIN servers
          /\ \A j \in DOMAIN servers : /\ servers'[j].path = servers[j].path
                                       /\ servers'[j].st = servers[j].st
                                       /\ \/ servers'[j].acl = servers[j].acl
                                          \/ j = mounts[Head(cmds).path]
          /\ \A j \in DOMAIN servers : j = mounts[Head(cmds).path] /\ aclFile[Head(cmds).path] # 0 =>
               servers'[j].acl = aclFile[Head(cmds).path]
      BY <1>8, SrvReACL
    <2>3. ASSUME NEW j \in DOMAIN servers, servers[j].st = "serving"
          PROVE  /\ aclFile[servers[j].path] # 0
                 /\ \/ servers'[j].acl = aclFile[servers[j].path]
                    \/ \E k \in DOMAIN cmds' : cmds'[k].op = "reacl" /\ cmds'[k].path = servers[j].path
      <3>1. mounts[servers[j].path] = j /\ j # None /\ aclFile[servers[j].path] # 0
        BY <1>i, <2>3, Serving DEF ReadInv
      <3>2. CASE servers[j].path = Head(cmds).path
        BY <2>2, <3>1, <3>2
      <3>3. CASE servers[j].path # Head(cmds).path
        <4>1. j # mounts[Head(cmds).path]
          <5>1. Head(cmds).path \in Paths
            BY <2>0, <2>1, CmdTail DEF CmdRec
          <5>. QED  BY <1>i, <3>1, <3>3, <5>1 DEF MapInv
        <4>2. servers'[j].acl = servers[j].acl
          BY <2>2, <4>1
        <4>3. \A k \in DOMAIN cmds : cmds[k].path = servers[j].path => k # 1
          BY <2>1, <3>3
        <4>. QED  BY <1>i, <2>1, <2>3, <3>1, <4>2, <4>3 DEF ReadInv
      <3>. QED  BY <3>2, <3>3
    <2>. QED  BY <2>0, <2>2, <2>3 DEF ReadInv
  <1>9. ASSUME NEW i \in DOMAIN servers, Detach(i) PROVE ReadInv'
    <2>1. /\ UNCHANGED <<aclFile, cmds>> /\ DOMAIN servers' = DOMAIN servers /\ servers'[i].st # "serving"
          /\ \A j \in DOMAIN servers : j # i => servers'[j] = servers[j]
      BY <1>9, SrvSet DEF Detach
    <2>. QED  BY <1>i, <2>1 DEF ReadInv
  <1>10. ASSUME NEW i \in DOMAIN servers, Drained(i) PROVE ReadInv'
    <2>1. /\ UNCHANGED <<aclFile, cmds>> /\ DOMAIN servers' = DOMAIN servers /\ servers'[i].st # "serving"
          /\ \A j \in DOMAIN servers : j # i => servers'[j] = servers[j]
      BY <1>10, SrvSet DEF Drained
    <2>. QED  BY <1>i, <2>1 DEF ReadInv
  <1>11. ASSUME NEW b \in Boxes, NEW d \in Configs,
               CreatePacked(b, d) \/ Reapply(b, d)
        PROVE  ReadInv'
    BY <1>0, <1>11 DEF CreatePacked, Begin, fuseVars, Reapply
  <1>12. ASSUME NEW b \in Boxes, NEW ok \in BOOLEAN,
               Finish(b, ok)
        PROVE  ReadInv'
    BY <1>0, <1>12 DEF Finish, fuseVars
  <1>13. ASSUME NEW b \in Boxes,
               MountSeen(b) \/ Exported(b) \/ MountFailed(b) \/ End(b) \/ StopAll(b)
        PROVE  ReadInv'
    BY <1>0, <1>13 DEF MountSeen, mgrVars, fuseVars, Exported, MountFailed, End, actVars, StopAll
  <1>14. ASSUME NEW a \in Actors, NEW p \in Paths,
               StopPath(a, p)
        PROVE  ReadInv'
    BY <1>0, <1>14 DEF StopPath, actVars, fuseVars
  <1>15. ASSUME NEW a \in Actors,
               Acked(a)
        PROVE  ReadInv'
    BY <1>0, <1>15 DEF Acked, mgrVars, fuseVars
  <1>16. ASSUME TakeAck PROVE ReadInv'
    BY <1>0, <1>16 DEF TakeAck, mgrVars, actVars, fuseVars
  <1>. QED
    BY <1>0, <1>1, <1>2, <1>3, <1>4, <1>5, <1>6, <1>7, <1>8, <1>9, <1>10, <1>11, <1>12, <1>13,
       <1>14, <1>15, <1>16 DEF Calm, AckLapses, Next, MountStep, RecStep, Unmounting, Sbxfuse

-----------------------------------------------------------------------------
(* The invariant and the theorems.                                         *)

\* The type invariant, in every world.
LEMMA TypeStep ==
  ASSUME TypeInv, Next
  PROVE  TypeInv'
  <1>t. /\ phase \in [Boxes -> Phases]
        /\ applies \in [Boxes -> 0..MaxApplies]
        /\ live \in [Boxes -> SUBSET Paths]
        /\ want \in [Boxes -> [Paths -> 0..MaxAcl]]
        /\ todo \in [Actors -> TodoRec]
        /\ pc \in [Actors -> PcStates]
        /\ at \in [Actors -> Paths]
        /\ failing \in [Actors -> BOOLEAN]
        /\ acked \in [Actors -> BOOLEAN]
        /\ target \in [Actors -> {Unseen, None} \union DOMAIN servers]
        /\ waiters \in [Paths -> Actors \union {NoActor}]
        /\ reg \in [Paths -> {0} \union Boxes]
        /\ aclFile \in [Paths -> 0..MaxAcl]
        /\ cmds \in Seq(CmdRec)
        /\ acks \in Seq(Paths)
        /\ servers \in Seq(SrvRec)
        /\ mounts \in [Paths -> {None} \union DOMAIN servers]
        /\ stack \in [Paths -> Seq(DOMAIN servers)]
    BY DEF TypeInv, TypeOK
  <1>w. world' = world
    BY DEF Next
  <1>a. /\ \A b \in Boxes : /\ Rec(b) \in Actors /\ Td(b) \in Actors /\ Rec(b)[1] = b
                            /\ Td(b)[1] = b /\ Rec(b) # Td(b)
        /\ \A a \in Actors : a[1] \in Boxes /\ (a = Rec(a[1]) \/ a = Td(a[1]))
        /\ Boxes \subseteq Nat
    BY ActorFacts
  <1>s. \A i \in DOMAIN servers : servers[i].path \in Paths /\ servers[i].box \in Boxes
    BY SrvFacts
  <1>v. world.acls \in 1..MaxAcl /\ world.applies \in 0..MaxApplies
    BY WorldFacts
  <1>0. CASE UNCHANGED <<phase, applies, live, want, todo, pc, at, failing, acked, target, waiters, reg, aclFile, cmds, acks, servers, mounts, stack>>
    BY <1>0, <1>t, <1>w DEF TypeInv, TypeOK
  <1>1. ASSUME NEW b \in Boxes, NEW d \in Configs, CreatePacked(b, d) PROVE TypeInv'
    <2>1. phase' \in [Boxes -> Phases]
      BY <1>a, <1>t, <1>1 DEF CreatePacked, Begin, fuseVars, Phases
    <2>2. want' \in [Boxes -> [Paths -> 0..MaxAcl]]
      <3>1. d \in [Paths -> 0..MaxAcl]
        BY <1>v, BoundAssumption DEF Configs
      <3>. QED  BY <1>t, <3>1, <1>1 DEF CreatePacked, Begin
    <2>3. todo' \in [Actors -> TodoRec]
      <3>1. planFsReconcile(b, d) \in TodoRec
        BY <1>t DEF planFsReconcile, TodoRec
      <3>. QED  BY <1>a, <1>t, <3>1, <1>1 DEF CreatePacked, Begin
    <2>4. pc' \in [Actors -> PcStates]
      BY <1>a, <1>t, <1>1 DEF CreatePacked, Begin, fuseVars, PcStates
    <2>. QED  BY <1>t, <1>w, <2>1, <2>2, <2>3, <2>4, <1>1 DEF CreatePacked, Begin, fuseVars, TypeInv, TypeOK
  <1>2. ASSUME NEW b \in Boxes, NEW d \in Configs, Reapply(b, d) PROVE TypeInv'
    <2>1. applies' \in [Boxes -> 0..MaxApplies]
      <3>1. applies[b] + 1 \in 0..MaxApplies
        BY <1>v, <1>t, <1>2, BoundAssumption DEF Reapply
      <3>. QED  BY <1>t, <3>1, <1>2 DEF Reapply
    <2>2. want' \in [Boxes -> [Paths -> 0..MaxAcl]]
      <3>1. d \in [Paths -> 0..MaxAcl]
        BY <1>v, BoundAssumption DEF Configs
      <3>. QED  BY <1>t, <3>1, <1>2 DEF Reapply, Begin
    <2>3. todo' \in [Actors -> TodoRec]
      <3>1. planFsReconcile(b, d) \in TodoRec
        BY <1>t DEF planFsReconcile, TodoRec
      <3>. QED  BY <1>a, <1>t, <3>1, <1>2 DEF Reapply, Begin
    <2>4. pc' \in [Actors -> PcStates]
      BY <1>a, <1>t, <1>2 DEF Reapply, Begin, fuseVars, PcStates
    <2>. QED  BY <1>t, <1>w, <2>1, <2>2, <2>3, <2>4, <1>2 DEF Reapply, Begin, fuseVars, TypeInv, TypeOK
  <1>3. ASSUME NEW b \in Boxes, NEW ok \in BOOLEAN, Finish(b, ok) PROVE TypeInv'
    <2>1. pc' \in [Actors -> PcStates]
      BY <1>a, <1>t, <1>3 DEF Finish, MayFail, fuseVars, PcStates
    <2>2. phase' \in [Boxes -> Phases]
      BY <1>a, <1>t, <1>3 DEF Finish, MayFail, fuseVars, Phases
    <2>. QED  BY <1>t, <1>w, <2>1, <2>2, <1>3 DEF Finish, fuseVars, TypeInv, TypeOK
  <1>4. ASSUME NEW b \in Boxes, NEW p \in Paths, ReACL(b, p) PROVE TypeInv'
    <2>1. todo' \in [Actors -> TodoRec]
      <3>1. todo[Rec(b)] \in TodoRec
        BY <1>a, <1>t
      <3>2. [todo[Rec(b)] EXCEPT !.keep = todo[Rec(b)].keep \ {p}] \in TodoRec
        BY <1>a, <1>t, <3>1 DEF TodoRec
      <3>3. todo' = [todo EXCEPT ![Rec(b)] = [todo[Rec(b)] EXCEPT !.keep = todo[Rec(b)].keep \ {p}]]
        BY <1>4 DEF ReACL
      <3>. QED  BY <1>a, <1>t, <3>2, <3>3
    <2>2. aclFile' \in [Paths -> 0..MaxAcl]
      <3>1. want[b][p] \in 0..MaxAcl
        BY <1>t
      <3>. QED  BY <1>t, <3>1, <1>4 DEF ReACL
    <2>3. cmds' \in Seq(CmdRec)
      <3>1. [op |-> "reacl", path |-> p, by |-> Rec(b)] \in CmdRec
        BY <1>a, <1>t DEF CmdRec
      <3>. QED  BY <1>t, <3>1, <1>4, CmdAppend DEF ReACL
    <2>. QED  BY <1>t, <1>w, <2>1, <2>2, <2>3, <1>4 DEF ReACL, actVars, fuseVars, TypeInv, TypeOK
  <1>5. ASSUME NEW b \in Boxes, NEW p \in Paths, StartMount(b, p) PROVE TypeInv'
    <2>1. todo' \in [Actors -> TodoRec]
      <3>1. todo[Rec(b)] \in TodoRec
        BY <1>a, <1>t
      <3>2. [todo[Rec(b)] EXCEPT !.add = todo[Rec(b)].add \ {p}] \in TodoRec
        BY <1>a, <1>t, <3>1 DEF TodoRec
      <3>3. todo' = [todo EXCEPT ![Rec(b)] = [todo[Rec(b)] EXCEPT !.add = todo[Rec(b)].add \ {p}]]
        BY <1>5 DEF StartMount
      <3>. QED  BY <1>a, <1>t, <3>2, <3>3
    <2>2. aclFile' \in [Paths -> 0..MaxAcl]
      <3>1. want[b][p] \in 0..MaxAcl
        BY <1>t
      <3>. QED  BY <1>t, <3>1, <1>5 DEF StartMount
    <2>3. reg' \in [Paths -> {0} \union Boxes]
      BY <1>a, <1>t, <1>5 DEF StartMount, fuseVars
    <2>4. cmds' \in Seq(CmdRec)
      <3>1. [op |-> "mount", path |-> p, by |-> Rec(b)] \in CmdRec
        BY <1>a, <1>t DEF CmdRec
      <3>. QED  BY <1>t, <3>1, <1>5, CmdAppend DEF StartMount
    <2>5. pc' \in [Actors -> PcStates]
      BY <1>a, <1>t, <1>5 DEF StartMount, fuseVars, PcStates
    <2>6. at' \in [Actors -> Paths]
      BY <1>a, <1>t, <1>5 DEF StartMount, fuseVars
    <2>. QED  BY <1>t, <1>w, <2>1, <2>2, <2>3, <2>4, <2>5, <2>6, <1>5 DEF StartMount, fuseVars, TypeInv, TypeOK
  <1>6. ASSUME NEW b \in Boxes, MountSeen(b) PROVE TypeInv'
    <2>1. pc' \in [Actors -> PcStates]
      BY <1>a, <1>t, <1>6 DEF MountSeen, mgrVars, fuseVars, PcStates
    <2>. QED  BY <1>t, <1>w, <2>1, <1>6 DEF MountSeen, mgrVars, fuseVars, TypeInv, TypeOK
  <1>7. ASSUME NEW b \in Boxes, Exported(b) PROVE TypeInv'
    <2>1. live' \in [Boxes -> SUBSET Paths]
      <3>1. live[b] \union {at[Rec(b)]} \in SUBSET Paths
        BY <1>a, <1>t
      <3>. QED  BY <1>t, <3>1, <1>7 DEF Exported
    <2>2. pc' \in [Actors -> PcStates]
      BY <1>a, <1>t, <1>7 DEF Exported, fuseVars, PcStates
    <2>. QED  BY <1>t, <1>w, <2>1, <2>2, <1>7 DEF Exported, fuseVars, TypeInv, TypeOK
  <1>8. ASSUME NEW b \in Boxes, MountFailed(b) PROVE TypeInv'
    <2>1. pc' \in [Actors -> PcStates]
      BY <1>a, <1>t, <1>8 DEF MountFailed, MayFail, mgrVars, fuseVars, PcStates
    <2>2. failing' \in [Actors -> BOOLEAN]
      BY <1>a, <1>t, <1>8 DEF MountFailed, MayFail, mgrVars, fuseVars
    <2>. QED  BY <1>t, <1>w, <2>1, <2>2, <1>8 DEF MountFailed, mgrVars, fuseVars, TypeInv, TypeOK
  <1>9. ASSUME NEW a \in Actors, NEW p \in Paths, StopPath(a, p) PROVE TypeInv'
    <2>1. todo' \in [Actors -> TodoRec]
      <3>1. todo[a] \in TodoRec
        BY <1>a, <1>t
      <3>2. [todo[a] EXCEPT !.remove = todo[a].remove \ {p}] \in TodoRec
        BY <1>a, <1>t, <3>1 DEF TodoRec
      <3>3. todo' = [todo EXCEPT ![a] = [todo[a] EXCEPT !.remove = todo[a].remove \ {p}]]
        BY <1>9 DEF StopPath
      <3>. QED  BY <1>a, <1>t, <3>2, <3>3
    <2>2. live' \in [Boxes -> SUBSET Paths]
      <3>1. a[1] \in Boxes /\ live[a[1]] \ {p} \in SUBSET Paths
        BY <1>a, <1>t
      <3>. QED  BY <1>t, <3>1, <1>9 DEF StopPath
    <2>3. pc' \in [Actors -> PcStates]
      BY <1>a, <1>t, <1>9 DEF StopPath, actVars, fuseVars, PcStates
    <2>4. at' \in [Actors -> Paths]
      BY <1>t, <1>9 DEF StopPath, actVars
    <2>5. failing' \in [Actors -> BOOLEAN]
      BY <1>a, <1>t, <1>9 DEF StopPath, actVars, fuseVars
    <2>. QED  BY <1>t, <1>w, <2>1, <2>2, <2>3, <2>4, <2>5, <1>9 DEF StopPath, actVars, fuseVars, TypeInv,
       TypeOK
  <1>10. ASSUME NEW a \in Actors, SendUnmount(a) PROVE TypeInv'
    <2>1. waiters' \in [Paths -> Actors \union {NoActor}]
      BY <1>a, <1>t, <1>10 DEF SendUnmount, mgrVars, fuseVars
    <2>2. acked' \in [Actors -> BOOLEAN]
      BY <1>a, <1>t, <1>10 DEF SendUnmount, mgrVars, fuseVars
    <2>3. target' \in [Actors -> {Unseen, None} \union DOMAIN servers']
      BY <1>a, <1>t, <1>10 DEF SendUnmount, mgrVars, fuseVars
    <2>4. cmds' \in Seq(CmdRec)
      <3>1. [op |-> "unmount", path |-> at[a], by |-> a] \in CmdRec
        BY <1>a, <1>t DEF CmdRec
      <3>. QED  BY <1>t, <3>1, <1>10, CmdAppend DEF SendUnmount
    <2>5. pc' \in [Actors -> PcStates]
      BY <1>a, <1>t, <1>10 DEF SendUnmount, mgrVars, fuseVars, PcStates
    <2>. QED  BY <1>t, <1>w, <2>1, <2>2, <2>3, <2>4, <2>5, <1>10 DEF SendUnmount, mgrVars, fuseVars, TypeInv,
       TypeOK
  <1>11. ASSUME NEW a \in Actors, Acked(a) PROVE TypeInv'
    <2>1. pc' \in [Actors -> PcStates]
      BY <1>a, <1>t, <1>11 DEF Acked, mgrVars, fuseVars, PcStates
    <2>. QED  BY <1>t, <1>w, <2>1, <1>11 DEF Acked, mgrVars, fuseVars, TypeInv, TypeOK
  <1>12. ASSUME NEW a \in Actors, AckLapses(a) PROVE TypeInv'
    <2>1. waiters' \in [Paths -> Actors \union {NoActor}]
      BY <1>a, <1>t, <1>12 DEF AckLapses, mgrVars, fuseVars
    <2>2. pc' \in [Actors -> PcStates]
      BY <1>a, <1>t, <1>12 DEF AckLapses, mgrVars, fuseVars, PcStates
    <2>. QED  BY <1>t, <1>w, <2>1, <2>2, <1>12 DEF AckLapses, mgrVars, fuseVars, TypeInv, TypeOK
  <1>13. ASSUME NEW a \in Actors, Unregister(a) PROVE TypeInv'
    <2>1. reg' \in [Paths -> {0} \union Boxes]
      BY <1>a, <1>t, <1>13 DEF Unregister, mgrVars, fuseVars
    <2>2. aclFile' \in [Paths -> 0..MaxAcl]
      <3>1. 0 \in 0..MaxAcl
        BY BoundAssumption
      <3>. QED  BY <1>t, <3>1, <1>13 DEF Unregister
    <2>3. pc' \in [Actors -> PcStates]
      BY <1>a, <1>t, <1>13 DEF Unregister, mgrVars, fuseVars, PcStates
    <2>. QED  BY <1>t, <1>w, <2>1, <2>2, <2>3, <1>13 DEF Unregister, mgrVars, fuseVars, TypeInv, TypeOK
  <1>14. ASSUME NEW b \in Boxes, End(b) PROVE TypeInv'
    <2>1. phase' \in [Boxes -> Phases]
      BY <1>a, <1>t, <1>14 DEF End, actVars, fuseVars, Phases
    <2>. QED  BY <1>t, <1>w, <2>1, <1>14 DEF End, actVars, fuseVars, TypeInv, TypeOK
  <1>15. ASSUME NEW b \in Boxes, StopAll(b) PROVE TypeInv'
    <2>1. todo' \in [Actors -> TodoRec]
      <3>1. todo[Td(b)] \in TodoRec
        BY <1>a, <1>t
      <3>2. [todo[Td(b)] EXCEPT !.remove = live[b]] \in TodoRec
        BY <1>a, <1>t, <3>1 DEF TodoRec
      <3>3. todo' = [todo EXCEPT ![Td(b)] = [todo[Td(b)] EXCEPT !.remove = live[b]]]
        BY <1>15 DEF StopAll
      <3>. QED  BY <1>a, <1>t, <3>2, <3>3
    <2>2. pc' \in [Actors -> PcStates]
      BY <1>a, <1>t, <1>15 DEF StopAll, fuseVars, PcStates
    <2>. QED  BY <1>t, <1>w, <2>1, <2>2, <1>15 DEF StopAll, fuseVars, TypeInv, TypeOK
  <1>16. ASSUME NEW b \in Boxes, ClearTree(b) PROVE TypeInv'
    <2>1. stack' \in [Paths -> Seq(DOMAIN servers')]
      BY <1>16 DEF ClearTree
    <2>2. aclFile' \in [Paths -> 0..MaxAcl]
      <3>1. 0 \in 0..MaxAcl
        BY BoundAssumption
      <3>. QED  BY <1>t, <3>1, <1>16 DEF ClearTree
    <2>3. pc' \in [Actors -> PcStates]
      BY <1>a, <1>t, <1>16 DEF ClearTree, PcStates
    <2>4. phase' \in [Boxes -> Phases]
      BY <1>a, <1>t, <1>16 DEF ClearTree, Phases
    <2>. QED  BY <1>t, <1>w, <2>1, <2>2, <2>3, <2>4, <1>16 DEF ClearTree, TypeInv, TypeOK
  <1>17. ASSUME TakeAck PROVE TypeInv'
    <2>1. Head(acks) \in Paths /\ acks' \in Seq(Paths)
      BY <1>t, <1>17 DEF TakeAck
    <2>2. PICK p \in Paths : p = Head(acks)
      BY <2>1
    <2>3. acked' \in [Actors -> BOOLEAN]
      BY <1>t, <2>2, <1>17 DEF TakeAck
    <2>4. waiters' \in [Paths -> Actors \union {NoActor}]
      BY <1>t, <2>2, <1>17 DEF TakeAck
    <2>. QED  BY <1>t, <1>w, <2>1, <2>3, <2>4, <1>17 DEF TakeAck, TypeInv, TypeOK, mgrVars, actVars, fuseVars
  <1>18. ASSUME CmdMount PROVE TypeInv'
    <2>1. cmds' \in Seq(CmdRec)
      BY <1>18, CmdTail DEF CmdMount
    <2>2. CASE UNCHANGED fuseVars
      BY <1>t, <1>w, <2>1, <2>2, <1>18 DEF CmdMount, TypeInv, TypeOK, mgrVars, actVars, fuseVars
    <2>3. CASE ~UNCHANGED fuseVars
      <3>1. PICK s \in SrvRec :
              /\ servers' = Append(servers, s) /\ s.path = cmds[1].path
              /\ mounts' = [mounts EXCEPT ![s.path] = Len(servers) + 1]
              /\ stack' = [stack EXCEPT ![s.path] = Append(stack[s.path], Len(servers) + 1)]
        BY <2>3, <1>18, SrvMount
      <3>2. /\ servers' \in Seq(SrvRec) /\ DOMAIN servers \subseteq DOMAIN servers'
            /\ Len(servers) + 1 \in DOMAIN servers'
        BY <3>1, SrvAppend
      <3>3. s.path \in Paths
        BY DEF SrvRec
      <3>4. mounts' \in [Paths -> {None} \union DOMAIN servers']
        BY <1>t, <3>1, <3>2, <3>3
      <3>5. stack' \in [Paths -> Seq(DOMAIN servers')]
        <4>1. \A q \in Paths : stack[q] \in Seq(DOMAIN servers')
          BY <1>t, <3>2
        <4>2. Append(stack[s.path], Len(servers) + 1) \in Seq(DOMAIN servers')
          BY <3>2, <3>3, <4>1
        <4>. QED  BY <1>t, <3>1, <3>3, <4>1, <4>2
      <3>6. target' \in [Actors -> {Unseen, None} \union DOMAIN servers']
        BY <1>t, <3>2, <1>18 DEF CmdMount
      <3>. QED  BY <1>t, <1>w, <2>1, <3>2, <3>4, <3>5, <3>6, <1>18 DEF CmdMount, TypeInv, TypeOK, mgrVars, actVars
    <2>. QED  BY <2>2, <2>3
  <1>19. ASSUME CmdUnmount PROVE TypeInv'
    <2>1. /\ cmds' \in Seq(CmdRec) /\ Head(cmds) \in CmdRec
      BY <1>19, CmdTail DEF CmdUnmount
    <2>2. PICK c \in CmdRec : c = Head(cmds)
      BY <2>1
    <2>3. c.path \in Paths /\ c.by \in Actors
      BY DEF CmdRec
    <2>4. servers' \in Seq(SrvRec) /\ DOMAIN servers' = DOMAIN servers
      <3>1. CASE servers' = servers
        BY <1>t, <3>1
      <3>2. CASE mounts[c.path] # None /\ servers' = [servers EXCEPT ![mounts[c.path]].st = "cancelled"]
        <4>1. PICK i \in DOMAIN servers : i = mounts[c.path]
          BY <1>t, <2>3, <3>2
        <4>2. servers' = [servers EXCEPT ![i].st = "cancelled"]
          BY <3>2, <4>1
        <4>. QED  BY <4>2, SrvSet
      <3>. QED  BY <2>2, <3>1, <3>2, <1>19 DEF CmdUnmount
    <2>5. acks' \in Seq(Paths)
      <3>1. Append(acks, c.path) \in Seq(Paths)
        BY <1>t, <2>3
      <3>. QED  BY <1>t, <2>2, <3>1, <1>19 DEF CmdUnmount
    <2>6. mounts' \in [Paths -> {None} \union DOMAIN servers']
      BY <1>t, <2>2, <2>3, <2>4, <1>19 DEF CmdUnmount
    <2>7. target' \in [Actors -> {Unseen, None} \union DOMAIN servers']
      BY <1>t, <2>2, <2>3, <2>4, <1>19 DEF CmdUnmount
    <2>. QED  BY <1>t, <1>w, <2>1, <2>4, <2>5, <2>6, <2>7, <1>19 DEF CmdUnmount, TypeInv, TypeOK, mgrVars, actVars
  <1>20. ASSUME CmdReACL PROVE TypeInv'
    <2>1. servers' \in Seq(SrvRec) /\ DOMAIN servers' = DOMAIN servers
      BY <1>20, SrvReACL
    <2>2. cmds' \in Seq(CmdRec)
      BY <1>20, CmdTail DEF CmdReACL
    <2>. QED  BY <1>t, <1>w, <2>1, <2>2, <1>20 DEF CmdReACL, mgrVars, actVars, TypeInv, TypeOK
  <1>21. ASSUME NEW i \in DOMAIN servers, Detach(i) PROVE TypeInv'
    <2>1. servers' \in Seq(SrvRec) /\ DOMAIN servers' = DOMAIN servers
      BY <1>21, SrvSet DEF Detach
    <2>2. stack' \in [Paths -> Seq(DOMAIN servers')]
      <3>1. PICK q \in Paths : q = servers[i].path
        BY <1>s
      <3>2. stack[q] \in Seq(DOMAIN servers) /\ (stack[q] # <<>> => SubSeq(stack[q], 1, Len(stack[q]) - 1) \in Seq(DOMAIN servers))
        BY <1>t
      <3>. QED  BY <1>t, <2>1, <3>1, <3>2, <1>21 DEF Detach
    <2>. QED  BY <1>t, <1>w, <2>1, <2>2, <1>21 DEF Detach, mgrVars, actVars, TypeInv, TypeOK
  <1>22. ASSUME NEW i \in DOMAIN servers, Drained(i) PROVE TypeInv'
    <2>1. servers' \in Seq(SrvRec) /\ DOMAIN servers' = DOMAIN servers
      BY <1>22, SrvSet DEF Drained
    <2>2. acks' \in Seq(Paths)
      BY <1>a, <1>t, <1>22, <2>1, <1>s DEF Drained, mgrVars, actVars
    <2>. QED  BY <1>t, <1>w, <2>1, <2>2, <1>22 DEF Drained, mgrVars, actVars, TypeInv, TypeOK
  <1>. QED
    BY <1>0, <1>1, <1>2, <1>3, <1>4, <1>5, <1>6, <1>7, <1>8, <1>9, <1>10, <1>11, <1>12, <1>13,
       <1>14, <1>15, <1>16, <1>17, <1>18, <1>19, <1>20, <1>21, <1>22 DEF Next, MountStep, RecStep,
       Unmounting, Sbxfuse

LEMMA InitInv ==
  ASSUME Init
  PROVE  IInv
  <1>0. 0 \in 0..MaxAcl /\ 0 \in 0..MaxApplies /\ (CHOOSE p \in Paths : TRUE) \in Paths
    BY BoundAssumption
  <1>1. TypeInv
    <2>1. world \in Worlds /\ cmds \in Seq(CmdRec) /\ acks \in Seq(Paths) /\ servers \in Seq(SrvRec)
      BY DEF Init
    <2>2. /\ phase \in [Boxes -> Phases] /\ pc \in [Actors -> PcStates]
          /\ live \in [Boxes -> SUBSET Paths] /\ todo \in [Actors -> TodoRec]
      BY DEF Init, Phases, PcStates, Nothing, TodoRec
    <2>3. /\ applies \in [Boxes -> 0..MaxApplies] /\ want \in [Boxes -> [Paths -> 0..MaxAcl]]
          /\ aclFile \in [Paths -> 0..MaxAcl] /\ at \in [Actors -> Paths]
      BY <1>0 DEF Init
    <2>4. /\ failing \in [Actors -> BOOLEAN] /\ acked \in [Actors -> BOOLEAN]
          /\ target \in [Actors -> {Unseen, None} \union DOMAIN servers]
          /\ waiters \in [Paths -> Actors \union {NoActor}] /\ reg \in [Paths -> {0} \union Boxes]
          /\ mounts \in [Paths -> {None} \union DOMAIN servers]
          /\ stack \in [Paths -> Seq(DOMAIN servers)]
      BY DEF Init
    <2>. QED  BY <2>1, <2>2, <2>3, <2>4 DEF TypeInv, TypeOK
  <1>2. /\ DOMAIN cmds = {} /\ DOMAIN acks = {} /\ DOMAIN servers = {}
        /\ \A b \in Boxes : phase[b] = "new" /\ live[b] = {}
        /\ \A a \in Actors : pc[a] = "idle" /\ todo[a] = Nothing
        /\ \A p \in Paths : mounts[p] = None /\ stack[p] = <<>> /\ reg[p] = 0
    BY DEF Init
  <1>3. TurnInv /\ PlanInv
    <2>1. TurnInv
      BY <1>2, ActorFacts DEF TurnInv
    <2>2. \A a \in Actors : todo[a].remove = {} /\ todo[a].keep = {} /\ todo[a].add = {}
      BY <1>2 DEF Nothing
    <2>3. PlanInv
      BY <1>2, <2>2, ActorFacts DEF PlanInv, Away
    <2>. QED  BY <2>1, <2>3
  <1>4. TokenInv
    BY <1>2 DEF TokenInv, CmdToken, ServerToken, AckToken, WaiterInv, AckedInv, Waiting
  <1>5. ServerInv
    BY <1>2, ActorFacts DEF ServerInv, MapInv, OwnerInv, CmdOwner, CmdOrder, RegInv, GoneInv
  <1>6. ServedInv
    BY <1>2, ActorFacts DEF ServedInv, StackInv, LiveInv, WantInv, ReadInv, Nothing
  <1>. QED  BY <1>1, <1>3, <1>4, <1>5, <1>6 DEF IInv, CalmInv

LEMMA StepInv ==
  ASSUME IInv, [Next]_vars
  PROVE  IInv'
  <1>1. CASE Next
    <2>1. TypeInv' /\ world' = world
      BY <1>1, TypeStep DEF IInv, Next
    <2>2. ASSUME Calm PROVE CalmInv'
      <3>1. TypeInv /\ CalmInv /\ TurnInv /\ PlanInv
        BY <2>2 DEF IInv, CalmInv
      <3>2. TurnInv' /\ PlanInv'
        BY <1>1, <2>2, <3>1, TurnStep, PlanStep
      <3>3. TokenInv'
        BY <1>1, <2>2, <3>1, CmdTokenStep, ServerTokenStep, AckTokenStep, WaiterStep, AckedStep
        DEF TokenInv
      <3>4. ServerInv'
        BY <1>1, <2>2, <3>1, MapStep, OwnerStep, CmdOwnerStep, CmdOrderStep, RegStep, GoneStep
        DEF ServerInv
      <3>. QED  BY <3>2, <3>3, <3>4 DEF CalmInv
    <2>3. ASSUME Calm, ~world.createFails PROVE ServedInv'
      <3>1. TypeInv /\ CalmInv /\ ServedInv
        BY <2>3 DEF IInv
      <3>. QED  BY <1>1, <2>3, <3>1, StackStep, LiveStep, WantStep, ReadStep DEF ServedInv
    <2>4. Calm' <=> Calm
      BY <2>1 DEF Calm
    <2>. QED  BY <2>1, <2>2, <2>3, <2>4 DEF IInv
  <1>2. CASE UNCHANGED vars
    <2>1. /\ UNCHANGED <<world, phase, applies, live, want, todo, pc, at, failing>>
          /\ UNCHANGED <<acked, target, waiters, reg, aclFile, cmds, acks, mounts, servers, stack>>
      BY <1>2 DEF vars, mountVars, mgrVars, actVars, fuseVars
    <2>2. TypeInv' <=> TypeInv
      BY <2>1 DEF TypeInv, TypeOK
    <2>3. (TurnInv /\ PlanInv)' <=> (TurnInv /\ PlanInv)
      BY <2>1 DEF TurnInv, PlanInv, Away
    <2>4. TokenInv' <=> TokenInv
      BY <2>1 DEF TokenInv, CmdToken, ServerToken, AckToken, WaiterInv, AckedInv, Waiting
    <2>5. ServerInv' <=> ServerInv
      BY <2>1 DEF ServerInv, MapInv, OwnerInv, CmdOwner, CmdOrder, RegInv, GoneInv, MayServe, InHand,
         MountCmd, Away
    <2>6. ServedInv' <=> ServedInv
      BY <2>1 DEF ServedInv, StackInv, LiveInv, WantInv, ReadInv, Attached
    <2>7. (Calm' <=> Calm) /\ world' = world
      BY <2>1 DEF Calm
    <2>. QED  BY <2>2, <2>3, <2>4, <2>5, <2>6, <2>7 DEF IInv, CalmInv
  <1>. QED  BY <1>1, <1>2

LEMMA Invariance == Spec => []IInv
  <1>. QED  BY InitInv, StepInv, PTL DEF Spec

(* Managers, waiters and sbxfuse refer to paths, sandboxes and servers that *)
(* exist, also where acks are late and teardowns overtake reconciles.      *)
THEOREM TypeCorrect == Spec => []TypeOK
  <1>1. IInv => TypeOK
    BY DEF IInv, TypeInv
  <1>. QED  BY <1>1, Invariance, PTL

(* fusecontrol.go:129, :169: an Unmount released by an ack, which names     *)
(* only a path, finds its own server drained; and a sandbox that is gone   *)
(* has left nothing in the shared sbxfuse.                                 *)
THEOREM AckMeansDrainedHolds == Spec => []AckMeansDrained
  <1>1. ASSUME IInv, Calm PROVE AckMeansDrained
    <2>1. TypeInv /\ AckedInv /\ GoneInv /\ RegInv /\ TurnInv
      BY <1>1 DEF IInv, CalmInv, TokenInv, ServerInv
    <2>2. \A a \in Actors : (pc[a] = "wait" /\ acked[a]) =>
            /\ target[a] # Unseen
            /\ target[a] # None => servers[target[a]].st = "done"
      BY <2>1 DEF AckedInv
    <2>3. ASSUME NEW b \in Boxes, phase[b] = "gone", NEW p \in Paths PROVE reg[p] # b
      <3>1. live[b] = {} /\ pc[Rec(b)] = "idle" /\ pc[Td(b)] = "idle"
        BY <2>1, <2>3 DEF TurnInv
      <3>2. \A a \in Actors : a[1] = b => ~Away(a)
        BY <3>1, ActorFacts DEF Away
      <3>. QED  BY <2>1, <2>3, <3>1, <3>2 DEF RegInv
    <2>. QED  BY <2>1, <2>2, <2>3 DEF AckMeansDrained, GoneInv
  <1>2. IInv => AckMeansDrained
    BY <1>1 DEF AckMeansDrained, Calm
  <1>. QED  BY <1>2, Invariance, PTL

(* mounts.go:224, run.go:587: a live workspace of a running sandbox is      *)
(* served by its own server, the mount seen at the path and routed to the  *)
(* sandbox, with the ACLs of the last config once the reconcile is through *)
(* and sbxfuse has read its commands.                                      *)
THEOREM WorkspaceServedHolds == Spec => []WorkspaceServed
  <1>1. ASSUME IInv, Calm, ~world.createFails, NEW b \in Boxes, NEW p \in live[b], phase[b] = "up"
        PROVE  /\ Served(b, p)
               /\ (pc[Rec(b)] = "idle" /\ cmds = <<>>) => servers[mounts[p]].acl = want[b][p]
    <2>1. TypeInv /\ CalmInv /\ ServedInv /\ p \in Paths
      BY <1>1 DEF IInv, TypeInv, TypeOK
    <2>2. mounts[p] # None /\ reg[p] = b
      BY <2>1 DEF ServedInv, LiveInv
    <2>3. PICK i \in DOMAIN servers : i = mounts[p]
      BY <2>1, <2>2 DEF TypeInv, TypeOK
    <2>4. servers[i].path = p /\ servers[i].st = "serving"
      BY <2>1, <2>2, <2>3 DEF CalmInv, ServerInv, MapInv
    <2>5. servers[i].box \in Boxes /\ phase[servers[i].box] # "failed" /\ MayServe(servers[i].box, p)
      BY <2>1, <2>3, <2>4, Serving
    <2>6. servers[i].box = b
      <3>1. phase[servers[i].box] \in Busy /\ phase[b] \in Busy
        BY <1>1, <2>1, <2>5, MayServeBusy DEF CalmInv, Busy
      <3>. QED  BY <2>1, <2>5, <3>1, OneBusy DEF CalmInv
    <2>7. stack[p] = <<i>>
      BY <2>1, <2>3, <2>4 DEF ServedInv, StackInv, Attached
    <2>8. Served(b, p)
      BY <2>2, <2>3, <2>4, <2>6, <2>7 DEF Served
    <2>9. ASSUME pc[Rec(b)] = "idle", cmds = <<>> PROVE servers[mounts[p]].acl = want[b][p]
      <3>1. DOMAIN cmds = {} /\ todo[Rec(b)] = Nothing
        BY <2>1, <2>9 DEF CalmInv, PlanInv
      <3>2. servers[i].acl = aclFile[p]
        BY <2>1, <2>3, <2>4, <3>1 DEF ServedInv, ReadInv
      <3>3. aclFile[p] = want[b][p]
        BY <2>1, <3>1 DEF ServedInv, WantInv, Nothing
      <3>. QED  BY <2>3, <3>2, <3>3
    <2>. QED  BY <2>8, <2>9
  <1>2. IInv => WorkspaceServed
    BY <1>1 DEF WorkspaceServed, Calm
  <1>. QED  BY <1>2, Invariance, PTL



-----------------------------------------------------------------------------
(***************************************************************************)
(* FuseFS: for any number of files, writes, calls and failing replays.     *)
(*                                                                         *)
(* What a path owes the store is read off the order in which its           *)
(* operations will reach it.  A delete or a link fixes what the store is   *)
(* left with; a put sends what the buffer holds when its turn comes.  So   *)
(* either the last delete or link of a path leaves what the agent should   *)
(* find there (the store already has it, when none is outstanding), or the *)
(* buffer has it and a put is still owed that no delete or link follows.   *)
(***************************************************************************)

\* What the replay under way and the queue hold, in the order they reach the
\* store: place 0 is the replay, the others are those of the queue.
Places == {i \in 0..Len(queue) : i = 0 => cur # <<>>}
OpAt(i) == IF i = 0 THEN Cur ELSE queue[i]

\* A delete or a link of the path, and what it leaves at the store.
Ends(i, p) == OpAt(i).op \in {"del", "link"} /\ OpAt(i).p = p
Leaves(e) == IF e.op = "del" THEN Absent ELSE Link
LastWord(i, p) == \A j \in Places : j > i => ~Ends(j, p)

\* A put of the path that has not read the buffer yet.
WillPut(i, p) == OpAt(i).op = "put" /\ OpAt(i).p = p /\ (i = 0 => sent = Absent)

Silent(p) == \A i \in Places : ~Ends(i, p)
Final(p, v) == \E i \in Places : Ends(i, p) /\ LastWord(i, p) /\ Leaves(OpAt(i)) = v
PutComes(p) == \E i \in Places : WillPut(i, p) /\ LastWord(i, p)

ReplayInv ==
  /\ Len(cur) <= 1 /\ sent \in Nat \cup {Absent}
  /\ sent # Absent => cur # <<>> /\ Cur.op = "put"

\* Both paths of a move that is outstanding have met a race.
PlainEntry(e) == IF e.op = "move" THEN Names(e) \subseteq excused ELSE e.q = e.p
EntryInv == \A i \in Places : PlainEntry(OpAt(i))

\* An unflushed write has its handle open; an unmount leaves nothing parked.
CloseInv ==
  /\ written \subseteq open \cup excused
  /\ mode # "serving" => pending = {} /\ open = {}
  /\ mode = "done" => /\ cur = <<>> /\ firing \subseteq excused
                      /\ \A i \in Places : OpAt(i).p \in excused

\* Between the put and the eviction the store has what was sent.
SentInv == sent # Absent => Cur.p \in excused \/ remote[Cur.p] = sent

\* The buffer has the agent's version of a path, or nothing.
BufferInv == \A p \in Files : p \notin excused \cup bare => buf[p] \in {Absent, seen[p]}

Landed(p) == (remote[p] = seen[p] /\ Silent(p)) \/ Final(p, seen[p])
Owed(p) ==
  /\ IsFile(buf[p]) /\ buf[p] = seen[p]
  /\ p \in written \cup pending \cup firing \/ PutComes(p)
LandInv == \A p \in Files : p \notin excused \cup bare => Landed(p) \/ Owed(p)

\* An Open that is fetching has a file's content, once it has it.
FetchInv == fetches \subseteq [p : Files, trunc : BOOLEAN, got : Nat \cup {Miss}]

FuseInv == /\ FuseTypeOK /\ ReplayInv /\ EntryInv /\ DirtyBalanced
           /\ CloseInv /\ SentInv /\ BufferInv /\ LandInv

-----------------------------------------------------------------------------
(* Counting the operations of a path. *)

LEMMA EntryFacts ==
  ASSUME NEW op \in Ops, NEW p \in Files, NEW q \in Files
  PROVE  /\ Entry(op, p, q) \in Entries
         /\ Entry(op, p, q).op = op /\ Entry(op, p, q).p = p /\ Entry(op, p, q).q = q
         /\ Names(Entry(op, p, q)) = IF op = "move" THEN {p, q} ELSE {p}
  BY DEF Entry, Entries, Names

LEMMA PutFacts ==
  ASSUME NEW x \in Files
  PROVE  /\ Entry("put", x, x) \in Entries
         /\ Entry("put", x, x).op = "put" /\ Entry("put", x, x).p = x /\ Entry("put", x, x).q = x
         /\ Names(Entry("put", x, x)) = {x}
  BY EntryFacts DEF Ops

LEMMA CountFacts ==
  ASSUME NEW s \in Seq(Entries), NEW p
  PROVE  /\ Count(s, p) \in Nat
         /\ IsFiniteSet({i \in DOMAIN s : p \in Names(s[i])})
         /\ Count(s, p) = 0 <=> \A i \in DOMAIN s : p \notin Names(s[i])
  <1> DEFINE S == {i \in DOMAIN s : p \in Names(s[i])}
  <1>1. DOMAIN s = 1..Len(s) /\ Len(s) \in Nat
    OBVIOUS
  <1>2. IsFiniteSet(1..Len(s))
    BY <1>1, FS_Interval
  <1>3. IsFiniteSet(S)
    BY <1>1, <1>2, FS_Subset
  <1>4. Cardinality(S) \in Nat /\ (Cardinality(S) = 0 <=> S = {})
    BY <1>3, FS_CardinalityType, FS_EmptySet
  <1> QED
    BY <1>3, <1>4 DEF Count

LEMMA CountConcat ==
  ASSUME NEW s \in Seq(Entries), NEW t \in Seq(Entries), NEW p
  PROVE  Count(s \o t, p) = Count(s, p) + Count(t, p)
  <1> DEFINE A == {i \in DOMAIN s : p \in Names(s[i])}
             B == {i \in DOMAIN t : p \in Names(t[i])}
             C == {i \in DOMAIN (s \o t) : p \in Names((s \o t)[i])}
             D == {i + Len(s) : i \in B}
             f == [i \in B |-> i + Len(s)]
  <1>1. /\ DOMAIN s = 1..Len(s) /\ DOMAIN t = 1..Len(t)
        /\ DOMAIN (s \o t) = 1..(Len(s) + Len(t))
        /\ Len(s) \in Nat /\ Len(t) \in Nat
        /\ \A i \in 1..Len(s) : (s \o t)[i] = s[i]
        /\ \A i \in 1..Len(t) : (s \o t)[i + Len(s)] = t[i]
    OBVIOUS
  <1>2. C = A \cup D
    <2>1. ASSUME NEW i \in C PROVE i \in A \cup D
      <3>1. CASE i <= Len(s)
        BY <3>1, <1>1
      <3>2. CASE i > Len(s)
        <4>1. i - Len(s) \in 1..Len(t) /\ (i - Len(s)) + Len(s) = i
          BY <3>2, <1>1
        <4>2. (s \o t)[i] = t[i - Len(s)]
          BY <4>1, <1>1
        <4>3. i - Len(s) \in B
          BY <4>1, <4>2, <1>1
        <4> QED BY <4>1, <4>3
      <3> QED BY <3>1, <3>2, <1>1
    <2>2. A \subseteq C
      BY <1>1
    <2>3. D \subseteq C
      BY <1>1
    <2> QED BY <2>1, <2>2, <2>3
  <1>3. A \cap D = {}
    BY <1>1
  <1>4. f \in Bijection(B, D)
    BY <1>1 DEF Bijection, Injection, Surjection, IsInjective
  <1>5. IsFiniteSet(A) /\ IsFiniteSet(B)
    BY CountFacts
  <1>6. IsFiniteSet(D) /\ Cardinality(D) = Cardinality(B)
    BY <1>4, <1>5, FS_Bijection DEF ExistsBijection
  <1>7. Count(s, p) = Cardinality(A) /\ Count(t, p) = Cardinality(B) /\ Count(s \o t, p) = Cardinality(C)
    BY DEF Count
  <1> HIDE DEF A, B, C, D
  <1>8. Cardinality(C) = Cardinality(A) + Cardinality(D) - Cardinality({})
    BY <1>2, <1>3, <1>5, <1>6, FS_Union
  <1>9. Cardinality(A) \in Nat /\ Cardinality(D) \in Nat /\ Cardinality({}) = 0
    BY <1>5, <1>6, FS_CardinalityType, FS_EmptySet
  <1> QED
    BY <1>6, <1>8, <1>9, <1>7

LEMMA CountFew ==
  ASSUME NEW e \in Entries, NEW p
  PROVE  /\ Count(<< >>, p) = 0
         /\ Count(<<e>>, p) = One(p \in Names(e))
  <1>1. Count(<< >>, p) = 0
    <2>1. {i \in DOMAIN << >> : p \in Names(<< >>[i])} = {}
      OBVIOUS
    <2> QED BY <2>1, FS_EmptySet DEF Count
  <1>2. CASE p \in Names(e)
    <2>1. {i \in DOMAIN <<e>> : p \in Names(<<e>>[i])} = {1}
      BY <1>2
    <2>2. Cardinality({1}) = 1
      BY FS_Singleton
    <2> QED BY <2>1, <2>2, <1>1, <1>2 DEF Count, One
  <1>3. CASE p \notin Names(e)
    <2>1. {i \in DOMAIN <<e>> : p \in Names(<<e>>[i])} = {}
      BY <1>3
    <2> QED BY <2>1, <1>1, <1>3, FS_EmptySet DEF Count, One
  <1> QED BY <1>2, <1>3

LEMMA CountAppend ==
  ASSUME NEW s \in Seq(Entries), NEW e \in Entries, NEW p
  PROVE  Count(Append(s, e), p) = Count(s, p) + One(p \in Names(e))
  <1>1. Append(s, e) = s \o <<e>> /\ <<e>> \in Seq(Entries)
    OBVIOUS
  <1>2. Count(s \o <<e>>, p) = Count(s, p) + Count(<<e>>, p)
    BY <1>1, CountConcat
  <1> QED BY <1>1, <1>2, CountFew

LEMMA CountTail ==
  ASSUME NEW s \in Seq(Entries), s # << >>, NEW p
  PROVE  /\ Head(s) \in Entries /\ Tail(s) \in Seq(Entries)
         /\ Count(s, p) = Count(<<Head(s)>>, p) + Count(Tail(s), p)
  <1>1. Head(s) \in Entries /\ Tail(s) \in Seq(Entries) /\ s = <<Head(s)>> \o Tail(s)
        /\ <<Head(s)>> \in Seq(Entries)
    OBVIOUS
  <1>2. Count(<<Head(s)>> \o Tail(s), p) = Count(<<Head(s)>>, p) + Count(Tail(s), p)
    BY <1>1, CountConcat
  <1> QED BY <1>1, <1>2

\* The parked puts, as the shutdown drain takes them.
LEMMA ParkedPuts ==
  ASSUME NEW P \in SUBSET Files, NEW s,
         LET parked == {Entry("put", x, x) : x \in P}
         IN  s \in Bijection(1..Cardinality(parked), parked)
  PROVE  /\ s \in Seq(Entries)
         /\ \A i \in 1..Len(s) : \E x \in P : s[i] = Entry("put", x, x)
         /\ \A x \in P : \E i \in 1..Len(s) : s[i] = Entry("put", x, x)
         /\ \A p \in Files : Count(s, p) = One(p \in P)
  <1> DEFINE S == {Entry("put", x, x) : x \in P}
             g == [x \in P |-> Entry("put", x, x)]
             n == Cardinality(S)
  <1>1. IsFiniteSet(S)
    <2>1. IsFiniteSet(P)
      BY FuseAssumption, FS_Subset
    <2>2. \A x, y \in P : Entry("put", x, x) = Entry("put", y, y) => x = y
      BY EntryFacts DEF Ops
    <2>3. g \in Bijection(P, S)
      BY <2>2 DEF Bijection, Injection, Surjection, IsInjective
    <2> QED BY <2>1, <2>3, FS_Bijection DEF ExistsBijection
  <1>2. n \in Nat
    BY <1>1, FS_CardinalityType
  <1>3. s \in [1..n -> S] /\ IsInjective(s)
    BY DEF Bijection, Injection
  <1>5. s \in Surjection(1..n, S)
    BY DEF Bijection
  <1>6. S \subseteq Entries
    BY EntryFacts DEF Ops
  <1>7. s \in Seq(Entries) /\ Len(s) = n /\ DOMAIN s = 1..n
    <2>1. s \in [1..n -> Entries]
      BY <1>3, <1>6
    <2> HIDE DEF S, n
    <2> QED BY <2>1, <1>2
  <1>8. \A i \in 1..n : \E x \in P : s[i] = Entry("put", x, x)
    BY <1>3
  <1>9. \A x \in P : \E i \in 1..n : s[i] = Entry("put", x, x)
    BY <1>5 DEF Surjection
  <1>10. ASSUME NEW p \in Files PROVE Count(s, p) = One(p \in P)
    <2>1. \A i \in 1..n : p \in Names(s[i]) <=> s[i] = Entry("put", p, p)
      BY <1>8, PutFacts
    <2>2. CASE p \in P
      <3>1. PICK i \in 1..n : s[i] = Entry("put", p, p)
        BY <1>9, <2>2
      <3>2. \A j \in 1..n : s[j] = Entry("put", p, p) => j = i
        BY <1>3, <3>1 DEF IsInjective
      <3>3. {j \in DOMAIN s : p \in Names(s[j])} = {i}
        BY <1>7, <2>1, <3>1, <3>2
      <3> QED BY <2>2, <3>3, FS_Singleton DEF Count, One
    <2>3. CASE p \notin P
      <3>1. \A i \in 1..n : p \notin Names(s[i])
        <4> SUFFICES ASSUME NEW i \in 1..n, p \in Names(s[i]) PROVE FALSE
          OBVIOUS
        <4>1. PICK x \in P : s[i] = Entry("put", x, x)
          BY <1>8
        <4>2. Names(s[i]) = {x}
          BY <4>1, PutFacts
        <4> QED BY <4>2, <2>3
      <3>2. {j \in DOMAIN s : p \in Names(s[j])} = {}
        BY <1>7, <3>1
      <3> QED BY <2>3, <3>2, FS_EmptySet DEF Count, One
    <2> QED BY <2>2, <2>3
  <1> QED BY <1>7, <1>8, <1>9, <1>10

-----------------------------------------------------------------------------
(* What a step on the log does to the order of a path's operations. *)

LEMMA PlaceFacts ==
  ASSUME FuseTypeOK
  PROVE  /\ Places \subseteq Nat /\ Len(queue) \in Nat
         /\ \A i \in Places : OpAt(i) \in Entries /\ OpAt(i).p \in Names(OpAt(i)) /\ OpAt(i).p \in Files
         /\ \A i \in Places : i # 0 => i \in 1..Len(queue) /\ OpAt(i) = queue[i]
         /\ \A i \in 1..Len(queue) : i \in Places /\ i # 0 /\ OpAt(i) = queue[i] /\ queue[i] \in Entries
         /\ 0 \in Places <=> cur # << >>
         /\ OpAt(0) = Cur /\ (cur # << >> => Cur \in Entries)
  <1>1. queue \in Seq(Entries) /\ cur \in Seq(Entries)
    BY DEF FuseTypeOK
  <1>2. cur # << >> => Cur \in Entries
    BY <1>1 DEF Cur
  <1>3. \A e \in Entries : e.p \in Names(e) /\ e.p \in Files
    BY DEF Entries, Names
  <1> QED BY <1>1, <1>2, <1>3 DEF Places, OpAt

LEMMA LogSame ==
  ASSUME UNCHANGED <<queue, cur, sent>>
  PROVE  /\ Places' = Places
         /\ \A i : OpAt(i)' = OpAt(i)
         /\ \A p : Silent(p)' <=> Silent(p)
         /\ \A p, v : Final(p, v)' <=> Final(p, v)
         /\ \A p : PutComes(p)' <=> PutComes(p)
  BY DEF Places, OpAt, Cur, Silent, Final, PutComes, WillPut, LastWord, Ends

LEMMA LogSent ==
  ASSUME UNCHANGED <<queue, cur>>, cur # << >>
  PROVE  /\ Places' = Places
         /\ \A i : OpAt(i)' = OpAt(i)
         /\ \A p : Silent(p)' <=> Silent(p)
         /\ \A p, v : Final(p, v)' <=> Final(p, v)
         /\ \A p : p # Cur.p => (PutComes(p) => PutComes(p)')
  <1>1. Places' = Places /\ \A i : OpAt(i)' = OpAt(i)
    BY DEF Places, OpAt, Cur
  <1>2. \A i, p : Ends(i, p)' <=> Ends(i, p)
    BY <1>1 DEF Ends
  <1>3. \A i, p : LastWord(i, p)' <=> LastWord(i, p)
    BY <1>1, <1>2 DEF LastWord
  <1>4. \A i, p : p # Cur.p => (WillPut(i, p) => WillPut(i, p)')
    BY <1>1 DEF WillPut, OpAt
  <1> QED BY <1>1, <1>2, <1>3, <1>4 DEF Silent, Final, PutComes

LEMMA LogAppend ==
  ASSUME FuseTypeOK, NEW s \in Seq(Entries), queue' = queue \o s, UNCHANGED <<cur, sent>>
  PROVE  /\ Places' = Places \cup ((Len(queue) + 1)..(Len(queue) + Len(s)))
         /\ \A i \in Places : OpAt(i)' = OpAt(i)
         /\ \A i \in Places' \ Places : \E k \in 1..Len(s) : OpAt(i)' = s[k]
         /\ \A p : (\A k \in 1..Len(s) : ~(s[k].op \in {"del", "link"} /\ s[k].p = p)) =>
              /\ Silent(p) => Silent(p)'
              /\ \A v : Final(p, v) => Final(p, v)'
              /\ PutComes(p) => PutComes(p)'
         /\ s # << >> => LET e == s[Len(s)] IN
              /\ e.op \in {"del", "link"} => Final(e.p, Leaves(e))'
              /\ e.op = "put" => PutComes(e.p)'
  <1> DEFINE n == Len(queue)
  <1>1. /\ n \in Nat /\ Len(s) \in Nat /\ Len(queue') = n + Len(s)
        /\ \A i \in 1..n : queue'[i] = queue[i]
        /\ \A k \in 1..Len(s) : queue'[n + k] = s[k]
        /\ \A i \in 1..(n + Len(s)) : i > n => i - n \in 1..Len(s) /\ i = n + (i - n)
    BY DEF FuseTypeOK
  <1>2. Places' = Places \cup ((n + 1)..(n + Len(s)))
    BY <1>1 DEF Places
  <1>3. \A i \in Places : OpAt(i)' = OpAt(i) /\ i \in Nat /\ i <= n /\ i \in Places'
    BY <1>1, <1>2 DEF Places, OpAt, Cur
  <1>4. \A k \in 1..Len(s), i \in Nat : i = n + k => OpAt(i)' = s[k] /\ i \in Places'
    BY <1>1, <1>2 DEF OpAt
  <1>5. \A i \in Places' \ Places : i > n /\ \E k \in 1..Len(s) : i = n + k /\ OpAt(i)' = s[k]
    <2> SUFFICES ASSUME NEW i \in Places' \ Places
                 PROVE  i > n /\ \E k \in 1..Len(s) : i = n + k /\ OpAt(i)' = s[k]
      OBVIOUS
    <2>1. i \in (n + 1)..(n + Len(s))
      BY <1>2
    <2>2. i > n /\ i \in Nat /\ i - n \in 1..Len(s) /\ i = n + (i - n)
      BY <2>1, <1>1
    <2> QED BY <2>2, <1>4
  <1>6. \A i \in Places : \A p : (Ends(i, p)' <=> Ends(i, p)) /\ (WillPut(i, p)' <=> WillPut(i, p))
    BY <1>3 DEF Ends, WillPut
  <1>7. ASSUME NEW p, \A k \in 1..Len(s) : ~(s[k].op \in {"del", "link"} /\ s[k].p = p)
        PROVE  /\ Silent(p) => Silent(p)'
               /\ \A v : Final(p, v) => Final(p, v)'
               /\ PutComes(p) => PutComes(p)'
    <2>1. \A i \in Places' \ Places : ~Ends(i, p)'
      BY <1>5, <1>7 DEF Ends
    <2>2. \A i \in Places : LastWord(i, p) => LastWord(i, p)'
      BY <1>6, <2>1 DEF LastWord
    <2> QED BY <1>3, <1>6, <2>1, <2>2 DEF Silent, Final, PutComes
  <1>8. ASSUME s # << >>
        PROVE  LET e == s[Len(s)] IN
                 /\ e.op \in {"del", "link"} => Final(e.p, Leaves(e))'
                 /\ e.op = "put" => PutComes(e.p)'
    <2>1. Len(s) \in 1..Len(s) /\ s[Len(s)] \in Entries
      BY <1>8
    <2>2. PICK m \in Nat : m = n + Len(s)
      BY <1>1
    <2>3. m \in Places' /\ OpAt(m)' = s[Len(s)] /\ m # 0
      BY <1>1, <1>4, <2>1, <2>2
    <2>4. \A j \in Places' : ~(j > m)
      BY <1>1, <1>2, <1>3, <2>2
    <2>5. \A p : LastWord(m, p)'
      BY <2>4 DEF LastWord
    <2> QED BY <2>3, <2>5 DEF Final, PutComes, Ends, WillPut
  <1> QED BY <1>2, <1>3, <1>5, <1>7, <1>8

LEMMA LogTake ==
  ASSUME FuseTypeOK, ReplayInv, cur = << >>, queue # << >>,
         cur' = <<Head(queue)>>, queue' = Tail(queue), UNCHANGED sent
  PROVE  /\ \A i \in Places' : i + 1 \in Places /\ OpAt(i)' = OpAt(i + 1)
         /\ \A p : Silent(p) => Silent(p)'
         /\ \A p, v : Final(p, v) => Final(p, v)'
         /\ \A p : PutComes(p) => PutComes(p)'
  <1>1. /\ Len(queue) \in Nat /\ Len(queue) > 0 /\ Len(queue') = Len(queue) - 1
        /\ \A i \in 1..(Len(queue) - 1) : queue'[i] = queue[i + 1]
        /\ Head(queue) = queue[1]
    BY DEF FuseTypeOK
  <1>2. cur' # << >> /\ Cur' = queue[1] /\ sent = Absent
    BY <1>1 DEF Cur, ReplayInv
  <1>3. Places' = 0..(Len(queue) - 1) /\ Places = 1..Len(queue)
    BY <1>1, <1>2 DEF Places
  <1>4. \A i \in Places' : i \in Nat /\ i + 1 \in Places /\ OpAt(i)' = OpAt(i + 1)
    BY <1>1, <1>2, <1>3 DEF OpAt
  <1>5. \A i \in Places : i \in Nat /\ i - 1 \in Places' /\ (i - 1) + 1 = i /\ i # 0 /\ OpAt(i - 1)' = OpAt(i)
    BY <1>1, <1>3, <1>4
  <1>6. \A i \in Places : \A p : /\ Ends(i - 1, p)' <=> Ends(i, p)
                                 /\ WillPut(i, p) => WillPut(i - 1, p)'
    BY <1>2, <1>5 DEF Ends, WillPut
  <1>7. \A i \in Places' : \A p : Ends(i, p)' <=> Ends(i + 1, p)
    BY <1>4 DEF Ends
  <1>8. \A i \in Places : \A p : LastWord(i, p) => LastWord(i - 1, p)'
    <2> SUFFICES ASSUME NEW i \in Places, NEW p, LastWord(i, p), NEW j \in Places', j > i - 1
                 PROVE  ~Ends(j, p)'
      BY DEF LastWord
    <2>1. j + 1 \in Places /\ j + 1 > i
      BY <1>4, <1>5
    <2> QED BY <2>1, <1>7 DEF LastWord
  <1> QED BY <1>4, <1>5, <1>6, <1>7, <1>8 DEF Silent, Final, PutComes

LEMMA LogFinish ==
  ASSUME FuseTypeOK, cur # << >>, cur' = << >>, queue' = queue
  PROVE  /\ \A i \in Places' : i \in Places /\ OpAt(i)' = OpAt(i)
         /\ \A p : Silent(p) => Silent(p)'
         /\ \A p, v : Final(p, v) =>
              Final(p, v)' \/ (Silent(p)' /\ Ends(0, p) /\ v = Leaves(Cur))
         /\ \A p : PutComes(p) => PutComes(p)' \/ (Silent(p)' /\ WillPut(0, p))
  <1>1. /\ Places' = 1..Len(queue) /\ Places = 0..Len(queue) /\ Len(queue) \in Nat
        /\ \A i \in Places' : i \in Places /\ i # 0 /\ OpAt(i)' = OpAt(i)
        /\ \A i \in Places : i # 0 => i \in Places'
    BY DEF FuseTypeOK, Places, OpAt
  <1>2. \A i \in Places' : \A p : /\ Ends(i, p)' <=> Ends(i, p)
                                  /\ WillPut(i, p) => WillPut(i, p)'
                                  /\ LastWord(i, p) => LastWord(i, p)'
    BY <1>1 DEF Ends, WillPut, LastWord
  <1>3. \A p : LastWord(0, p) => Silent(p)'
    BY <1>1, <1>2 DEF LastWord, Silent
  <1>4. OpAt(0) = Cur
    BY DEF OpAt
  <1> QED BY <1>1, <1>2, <1>3, <1>4 DEF Silent, Final, PutComes

LEMMA LogPrepend ==
  ASSUME FuseTypeOK, NEW P \in SUBSET Files, NEW s \in Seq(Entries),
         \A i \in 1..Len(s) : \E x \in P : s[i] = Entry("put", x, x),
         \A x \in P : \E i \in 1..Len(s) : s[i] = Entry("put", x, x),
         queue' = s \o queue, UNCHANGED <<cur, sent>>
  PROVE  /\ \A i \in Places' : \/ \E j \in Places : OpAt(i)' = OpAt(j)
                               \/ \E x \in P : OpAt(i)' = Entry("put", x, x)
         /\ \A p : Silent(p) => Silent(p)'
         /\ \A p, v : Final(p, v) => Final(p, v)'
         /\ \A p : PutComes(p) => PutComes(p)'
         /\ \A p \in P : p \notin QueueNames => PutComes(p)'
  <1> DEFINE k == Len(s)
             Up(i) == IF i = 0 THEN 0 ELSE i + k
  <1>1. /\ Len(queue) \in Nat /\ k \in Nat /\ Len(queue') = k + Len(queue)
        /\ \A i \in 1..k : queue'[i] = s[i]
        /\ \A i \in 1..Len(queue) : queue'[i + k] = queue[i]
        /\ \A i \in 1..(k + Len(queue)) : i > k => i - k \in 1..Len(queue) /\ (i - k) + k = i
    BY DEF FuseTypeOK
  <1>2. \A i \in Places : i \in Nat /\ Up(i) \in Places' /\ OpAt(Up(i))' = OpAt(i) /\ (Up(i) = 0 <=> i = 0)
    BY <1>1 DEF Places, OpAt, Cur
  <1>3. \A i \in Places' : i \in Nat /\ (i \in 1..k \/ \E j \in Places : i = Up(j))
    <2>0. Places' \subseteq Nat
      BY <1>1 DEF Places
    <2> SUFFICES ASSUME NEW i \in Places', i \notin 1..k PROVE \E j \in Places : i = Up(j)
      BY <2>0
    <2>1. CASE i = 0
      BY <2>1 DEF Places
    <2>2. CASE i # 0
      <3>1. i - k \in 1..Len(queue) /\ (i - k) + k = i
        BY <1>1, <2>2 DEF Places
      <3>2. i - k \in Places
        BY <3>1, <1>1 DEF Places
      <3> QED BY <3>1, <3>2
    <2> QED BY <2>1, <2>2
  <1>4. \A i \in 1..k : OpAt(i)' = s[i] /\ i \in Places' /\ \E x \in P : OpAt(i)' = Entry("put", x, x)
    BY <1>1 DEF Places, OpAt
  <1>5. \A i \in 1..k : \A p : ~Ends(i, p)'
    <2> SUFFICES ASSUME NEW i \in 1..k, NEW p PROVE ~Ends(i, p)'
      OBVIOUS
    <2>1. PICK x \in P : OpAt(i)' = Entry("put", x, x)
      BY <1>4
    <2>2. Entry("put", x, x).op = "put"
      BY PutFacts
    <2> QED BY <2>1, <2>2 DEF Ends
  <1>6. \A i, j \in Places : Up(i) > Up(j) <=> i > j
    BY <1>1, <1>2
  <1> HIDE DEF Up
  <1>7. \A i \in Places : \A p : /\ Ends(Up(i), p)' <=> Ends(i, p)
                                 /\ WillPut(Up(i), p)' <=> WillPut(i, p)
    BY <1>2 DEF Ends, WillPut
  <1>8. \A i \in Places : \A p : LastWord(i, p) => LastWord(Up(i), p)'
    BY <1>2, <1>3, <1>5, <1>6, <1>7 DEF LastWord
  <1>9. ASSUME NEW p \in P, p \notin QueueNames PROVE PutComes(p)'
    <2>1. PICK i \in 1..k : s[i] = Entry("put", p, p)
      OBVIOUS
    <2>2. WillPut(i, p)' /\ i \in Places' /\ i # 0 /\ i \in Nat
      <3>1. OpAt(i)' = Entry("put", p, p) /\ i \in Places' /\ i # 0 /\ i \in Nat
        <4>1. OpAt(i)' = s[i] /\ i \in Places'
          BY <1>4
        <4>2. i # 0 /\ i \in Nat
          BY <1>1
        <4> QED BY <2>1, <4>1, <4>2
      <3>2. Entry("put", p, p).op = "put" /\ Entry("put", p, p).p = p
        BY PutFacts
      <3> QED BY <3>1, <3>2 DEF WillPut
    <2>3. ASSUME NEW j \in Places', j > i, Ends(j, p)' PROVE FALSE
      <3>1. PICK m \in Places : j = Up(m)
        BY <1>3, <1>5, <2>3
      <3>2. m # 0
        BY <1>2, <2>2, <2>3, <3>1
      <3>3. Ends(m, p) /\ m \in 1..Len(queue) /\ OpAt(m) = queue[m] /\ OpAt(m).p \in Names(OpAt(m))
        BY <1>7, <2>3, <3>1, <3>2, PlaceFacts
      <3>4. p \in Names(queue[m]) /\ m \in DOMAIN queue
        BY <3>3 DEF Ends, FuseTypeOK
      <3> QED BY <3>4, <1>9 DEF QueueNames
    <2>4. LastWord(i, p)'
      BY <2>3 DEF LastWord
    <2> QED BY <2>2, <2>4 DEF PutComes
  <1>10. \A i \in Places' : \/ \E j \in Places : OpAt(i)' = OpAt(j)
                            \/ \E x \in P : OpAt(i)' = Entry("put", x, x)
    BY <1>2, <1>3, <1>4
  <1>11. \A p : Silent(p) => Silent(p)'
    BY <1>3, <1>5, <1>7 DEF Silent
  <1>12. \A p, v : Final(p, v) => Final(p, v)'
    BY <1>2, <1>7, <1>8 DEF Final
  <1>13. \A p : PutComes(p) => PutComes(p)'
    BY <1>2, <1>7, <1>8 DEF PutComes
  <1> QED BY <1>9, <1>10, <1>11, <1>12, <1>13

\* A path that is not dirty has nothing parked, queued or in flight.
LEMMA CleanPath ==
  ASSUME FuseInv, NEW p \in Files, ~IsDirty(p)
  PROVE  /\ p \notin pending /\ p \notin firing
         /\ \A i \in Places : p \notin Names(OpAt(i)) /\ OpAt(i).p # p
         /\ Silent(p) /\ ~PutComes(p) /\ \A v : ~Final(p, v)
         /\ cur # << >> => Cur.p # p
  <1>1. /\ Count(queue, p) \in Nat /\ Count(cur, p) \in Nat /\ Count(dead, p) \in Nat
    BY CountFacts DEF FuseInv, FuseTypeOK
  <1>2. dirty[p] = 0
    BY DEF IsDirty, FuseInv, FuseTypeOK
  <1>3. dirty[p] = (IF p \in pending THEN 1 ELSE 0) + (IF p \in firing THEN 1 ELSE 0)
                   + Count(queue, p) + Count(cur, p) + Count(dead, p)
    BY DEF FuseInv, DirtyBalanced, One
  <1>6. p \notin pending /\ p \notin firing
    BY <1>1, <1>2, <1>3
  <1>4. 0 = 0 + 0 + Count(queue, p) + Count(cur, p) + Count(dead, p)
    BY <1>2, <1>3, <1>6
  <1>5. Count(queue, p) = 0 /\ Count(cur, p) = 0
    BY <1>1, <1>4
  <1>7. /\ \A i \in DOMAIN queue : p \notin Names(queue[i])
        /\ \A i \in DOMAIN cur : p \notin Names(cur[i])
    BY <1>5, CountFacts DEF FuseInv, FuseTypeOK
  <1>8. cur # << >> => p \notin Names(Cur)
    BY <1>7 DEF Cur, FuseInv, FuseTypeOK
  <1>9. \A i \in Places : p \notin Names(OpAt(i)) /\ OpAt(i).p # p
    <2> SUFFICES ASSUME NEW i \in Places PROVE p \notin Names(OpAt(i)) /\ OpAt(i).p # p
      OBVIOUS
    <2>1. FuseTypeOK /\ DOMAIN queue = 1..Len(queue)
      BY DEF FuseInv, FuseTypeOK
    <2>2. OpAt(i).p \in Names(OpAt(i)) /\ (i # 0 => i \in 1..Len(queue) /\ OpAt(i) = queue[i])
          /\ (0 \in Places <=> cur # << >>) /\ OpAt(0) = Cur
      BY <2>1, PlaceFacts
    <2> QED BY <1>7, <1>8, <2>1, <2>2
  <1>10. \A i \in Places : ~Ends(i, p) /\ ~WillPut(i, p)
    BY <1>9 DEF Ends, WillPut
  <1> QED BY <1>6, <1>9, <1>10, PlaceFacts DEF Silent, Final, PutComes, FuseInv

-----------------------------------------------------------------------------
(* Steps that leave the log alone. *)

LEMMA InvFacts ==
  ASSUME FuseInv
  PROVE  /\ FuseTypeOK /\ ReplayInv /\ EntryInv /\ DirtyBalanced
         /\ CloseInv /\ SentInv /\ BufferInv /\ LandInv
  BY DEF FuseInv

\* A path whose files, history and debts a step keeps.
LEMMA LandKept ==
  ASSUME FuseInv, NEW r \in Files, r \notin excused \cup bare,
         remote'[r] = remote[r], seen'[r] = seen[r], buf'[r] = buf[r],
         Silent(r) => Silent(r)', \A v : Final(r, v) => Final(r, v)',
         (r \in written \cup pending \cup firing \/ PutComes(r)) =>
            (r \in (written \cup pending \cup firing)' \/ PutComes(r)')
  PROVE  (Landed(r) \/ Owed(r))'
  <1>1. Landed(r) \/ Owed(r)
    BY DEF FuseInv, LandInv
  <1>2. CASE Landed(r)
    BY <1>2 DEF Landed
  <1>3. CASE Owed(r)
    BY <1>3 DEF Owed
  <1> QED BY <1>1, <1>2, <1>3

LEMMA FileStep ==
  ASSUME FuseInv, UNCHANGED <<queue, dirty, pending, firing, cur, sent, dead>>,
         excused \subseteq excused',
         \A r \in Files : r \notin excused' => remote'[r] = remote[r] \/ ~IsDirty(r)
  PROVE  /\ ReplayInv' /\ EntryInv' /\ DirtyBalanced' /\ SentInv'
         /\ Places' = Places /\ \A i : OpAt(i)' = OpAt(i)
         /\ \A r : Silent(r) => Silent(r)'
         /\ \A r, v : Final(r, v) => Final(r, v)'
         /\ \A r : PutComes(r) => PutComes(r)'
  <1>1. /\ Places' = Places /\ \A i : OpAt(i)' = OpAt(i)
        /\ \A r : Silent(r) => Silent(r)'
        /\ \A r, v : Final(r, v) => Final(r, v)'
        /\ \A r : PutComes(r) => PutComes(r)'
    BY LogSame
  <1>2. ReplayInv'
    BY InvFacts DEF ReplayInv, Cur
  <1>3. EntryInv'
    BY <1>1, InvFacts DEF EntryInv, PlainEntry
  <1>4. DirtyBalanced'
    BY InvFacts DEF DirtyBalanced, Count, One
  <1>5. SentInv'
    <2> SUFFICES ASSUME sent # Absent, Cur.p \notin excused' PROVE remote'[Cur.p] = sent
      BY DEF SentInv, Cur
    <2>1. cur # << >> /\ Cur \in Entries /\ Cur.p \in Files
      BY InvFacts, PlaceFacts DEF ReplayInv, Entries
    <2>2. remote[Cur.p] = sent
      BY InvFacts DEF SentInv
    <2>3. IsDirty(Cur.p)
      BY <2>1, CleanPath
    <2> QED BY <2>1, <2>2, <2>3
  <1> QED BY <1>1, <1>2, <1>3, <1>4, <1>5

\* A clean path with no unflushed write is at the store as the agent left it.
LEMMA CleanLanded ==
  ASSUME FuseInv, NEW p \in Files, ~IsDirty(p), p \notin excused \cup bare,
         p \notin written \/ buf[p] = Absent
  PROVE  remote[p] = seen[p] /\ Silent(p)
  <1>1. Landed(p) \/ Owed(p)
    BY DEF FuseInv, LandInv
  <1>2. ~Owed(p)
    <2>1. p \notin pending \cup firing /\ ~PutComes(p)
      BY CleanPath
    <2>2. Absent \notin Nat
      BY FuseAssumption
    <2> QED BY <2>1, <2>2 DEF Owed, IsFile
  <1> QED BY <1>1, <1>2, CleanPath DEF Landed

\* The cache and the bounds are not part of the invariant.
LEMMA CacheStep ==
  ASSUME FuseInv, FuseTypeOK',
         UNCHANGED <<async, buf, remote, open, written, pending, firing, queue, dirty, cur, sent,
                     dead, mode, seen, bare, excused>>
  PROVE  FuseInv'
  <1>1. /\ ReplayInv' /\ EntryInv' /\ DirtyBalanced' /\ SentInv'
        /\ Places' = Places /\ \A i : OpAt(i)' = OpAt(i)
        /\ \A r : Silent(r) => Silent(r)'
        /\ \A r, v : Final(r, v) => Final(r, v)'
        /\ \A r : PutComes(r) => PutComes(r)'
    BY FileStep
  <1>2. CloseInv' /\ BufferInv'
    BY <1>1, InvFacts DEF CloseInv, BufferInv
  <1>3. LandInv'
    BY <1>1, LandKept DEF LandInv
  <1> QED BY <1>1, <1>2, <1>3 DEF FuseInv

LEMMA CreateStep ==
  ASSUME FuseInv, NEW p \in Files, Create(p)
  PROVE  FuseInv'
  <1> USE InvFacts
  <1>1. FuseTypeOK'
    <2>1. /\ UNCHANGED <<remote, written, pending, queue, dirty, cur, dead, firing, mode, async, excused, writes, reads>>
          /\ ops' = ops + 1 /\ (open' = open \/ open' = open \cup {p}) /\ bare' = bare \cup {p}
          /\ buf' = [buf EXCEPT ![p] = 0]
          /\ seen' = [seen EXCEPT ![p] = 0]
      BY DEF Create, Acting, handlerRest, upVars
    <2>2. /\ buf' \in [Files -> Nat \cup {Absent, Dir, Link}]
          /\ seen' \in [Files -> Nat \cup {Absent, Dir, Link}]
          /\ open' \subseteq Files /\ bare' \subseteq Files /\ ops' \in Nat
      BY <2>1 DEF FuseTypeOK
    <2> QED BY <2>1, <2>2 DEF FuseTypeOK
  <1>2. /\ ReplayInv' /\ EntryInv' /\ DirtyBalanced' /\ SentInv'
        /\ Places' = Places /\ \A i : OpAt(i)' = OpAt(i)
        /\ \A r : Silent(r) => Silent(r)'
        /\ \A r, v : Final(r, v) => Final(r, v)'
        /\ \A r : PutComes(r) => PutComes(r)'
    <2>1. UNCHANGED <<queue, dirty, pending, firing, cur, sent, dead>> /\ excused \subseteq excused'
      BY DEF Create, Acting, handlerRest, upVars
    <2>2. \A r \in Files : r \notin excused' => remote'[r] = remote[r] \/ ~IsDirty(r)
      BY DEF Create, Acting, handlerRest, upVars, FuseTypeOK
    <2> QED BY <2>1, <2>2, FileStep
  <1>3. CloseInv'
    BY <1>2 DEF CloseInv, Create, Acting, handlerRest, upVars
  <1>4. BufferInv'
    BY DEF BufferInv, FuseTypeOK, Create, Acting, handlerRest, upVars
  <1>5. LandInv'
    <2> SUFFICES ASSUME NEW r \in Files, r \notin (excused \cup bare)'
                 PROVE  (Landed(r) \/ Owed(r))'
      BY DEF LandInv
    <2>1. CASE ~(r = p)
      <3>1. /\ r \notin excused \cup bare /\ remote'[r] = remote[r] /\ seen'[r] = seen[r]
            /\ buf'[r] = buf[r]
            /\ r \in written \cup pending \cup firing => r \in (written \cup pending \cup firing)'
        BY <2>1 DEF FuseTypeOK, Create, Acting, handlerRest, upVars
      <3> QED BY <3>1, <1>2, LandKept
    <2>2. CASE r = p
      BY <2>2 DEF Create, Acting, handlerRest, upVars
    <2> QED BY <2>1, <2>2
  <1> QED BY <1>1, <1>2, <1>3, <1>4, <1>5 DEF FuseInv

LEMMA TruncateStep ==
  ASSUME FuseInv, NEW p \in Files, Truncate(p)
  PROVE  FuseInv'
  <1> USE InvFacts
  <1>1. FuseTypeOK'
    <2>1. /\ UNCHANGED <<remote, written, pending, queue, dirty, cur, dead, firing, mode, async, excused, writes, reads>>
          /\ ops' = ops + 1 /\ (open' = open \/ open' = open \cup {p}) /\ bare' = bare \cup {p}
          /\ buf' = [buf EXCEPT ![p] = 0]
          /\ seen' = [seen EXCEPT ![p] = 0]
      BY DEF Truncate, Acting, handlerRest, upVars, Invalidate
    <2>2. /\ buf' \in [Files -> Nat \cup {Absent, Dir, Link}]
          /\ seen' \in [Files -> Nat \cup {Absent, Dir, Link}]
          /\ open' \subseteq Files /\ bare' \subseteq Files /\ ops' \in Nat
      BY <2>1 DEF FuseTypeOK
    <2> QED BY <2>1, <2>2 DEF FuseTypeOK
  <1>2. /\ ReplayInv' /\ EntryInv' /\ DirtyBalanced' /\ SentInv'
        /\ Places' = Places /\ \A i : OpAt(i)' = OpAt(i)
        /\ \A r : Silent(r) => Silent(r)'
        /\ \A r, v : Final(r, v) => Final(r, v)'
        /\ \A r : PutComes(r) => PutComes(r)'
    <2>1. UNCHANGED <<queue, dirty, pending, firing, cur, sent, dead>> /\ excused \subseteq excused'
      BY DEF Truncate, Acting, handlerRest, upVars, Invalidate
    <2>2. \A r \in Files : r \notin excused' => remote'[r] = remote[r] \/ ~IsDirty(r)
      BY DEF Truncate, Acting, handlerRest, upVars, Invalidate, FuseTypeOK
    <2> QED BY <2>1, <2>2, FileStep
  <1>3. CloseInv'
    BY <1>2 DEF CloseInv, Truncate, Acting, handlerRest, upVars, Invalidate
  <1>4. BufferInv'
    BY DEF BufferInv, FuseTypeOK, Truncate, Acting, handlerRest, upVars, Invalidate
  <1>5. LandInv'
    <2> SUFFICES ASSUME NEW r \in Files, r \notin (excused \cup bare)'
                 PROVE  (Landed(r) \/ Owed(r))'
      BY DEF LandInv
    <2>1. CASE ~(r = p)
      <3>1. /\ r \notin excused \cup bare /\ remote'[r] = remote[r] /\ seen'[r] = seen[r]
            /\ buf'[r] = buf[r]
            /\ r \in written \cup pending \cup firing => r \in (written \cup pending \cup firing)'
        BY <2>1 DEF FuseTypeOK, Truncate, Acting, handlerRest, upVars, Invalidate
      <3> QED BY <3>1, <1>2, LandKept
    <2>2. CASE r = p
      BY <2>2 DEF Truncate, Acting, handlerRest, upVars, Invalidate
    <2> QED BY <2>1, <2>2
  <1> QED BY <1>1, <1>2, <1>3, <1>4, <1>5 DEF FuseInv

LEMMA MkdirStep ==
  ASSUME FuseInv, NEW p \in Files, Mkdir(p)
  PROVE  FuseInv'
  <1> USE InvFacts
  <1>1. FuseTypeOK'
    <2>1. /\ UNCHANGED <<remote, written, pending, queue, dirty, cur, dead, firing, mode, async, excused, writes, reads>>
          /\ ops' = ops + 1 /\ (open' = open \/ open' = open \cup {p}) /\ bare' = bare \cup {p}
          /\ buf' = [buf EXCEPT ![p] = Dir]
          /\ seen' = [seen EXCEPT ![p] = Dir]
      BY DEF Mkdir, Acting, handlerRest, upVars
    <2>2. /\ buf' \in [Files -> Nat \cup {Absent, Dir, Link}]
          /\ seen' \in [Files -> Nat \cup {Absent, Dir, Link}]
          /\ open' \subseteq Files /\ bare' \subseteq Files /\ ops' \in Nat
      BY <2>1 DEF FuseTypeOK
    <2> QED BY <2>1, <2>2 DEF FuseTypeOK
  <1>2. /\ ReplayInv' /\ EntryInv' /\ DirtyBalanced' /\ SentInv'
        /\ Places' = Places /\ \A i : OpAt(i)' = OpAt(i)
        /\ \A r : Silent(r) => Silent(r)'
        /\ \A r, v : Final(r, v) => Final(r, v)'
        /\ \A r : PutComes(r) => PutComes(r)'
    <2>1. UNCHANGED <<queue, dirty, pending, firing, cur, sent, dead>> /\ excused \subseteq excused'
      BY DEF Mkdir, Acting, handlerRest, upVars
    <2>2. \A r \in Files : r \notin excused' => remote'[r] = remote[r] \/ ~IsDirty(r)
      BY DEF Mkdir, Acting, handlerRest, upVars, FuseTypeOK
    <2> QED BY <2>1, <2>2, FileStep
  <1>3. CloseInv'
    BY <1>2 DEF CloseInv, Mkdir, Acting, handlerRest, upVars
  <1>4. BufferInv'
    BY DEF BufferInv, FuseTypeOK, Mkdir, Acting, handlerRest, upVars
  <1>5. LandInv'
    <2> SUFFICES ASSUME NEW r \in Files, r \notin (excused \cup bare)'
                 PROVE  (Landed(r) \/ Owed(r))'
      BY DEF LandInv
    <2>1. CASE ~(r = p)
      <3>1. /\ r \notin excused \cup bare /\ remote'[r] = remote[r] /\ seen'[r] = seen[r]
            /\ buf'[r] = buf[r]
            /\ r \in written \cup pending \cup firing => r \in (written \cup pending \cup firing)'
        BY <2>1 DEF FuseTypeOK, Mkdir, Acting, handlerRest, upVars
      <3> QED BY <3>1, <1>2, LandKept
    <2>2. CASE r = p
      BY <2>2 DEF Mkdir, Acting, handlerRest, upVars
    <2> QED BY <2>1, <2>2
  <1> QED BY <1>1, <1>2, <1>3, <1>4, <1>5 DEF FuseInv

LEMMA WriteStep ==
  ASSUME FuseInv, NEW p \in Files, Write(p)
  PROVE  FuseInv'
  <1> USE InvFacts
  <1>1. FuseTypeOK'
    BY DEF FuseTypeOK, Write, Invalidate, logVars, upVars
  <1>2. /\ ReplayInv' /\ EntryInv' /\ DirtyBalanced' /\ SentInv'
        /\ Places' = Places /\ \A i : OpAt(i)' = OpAt(i)
        /\ \A r : Silent(r) => Silent(r)'
        /\ \A r, v : Final(r, v) => Final(r, v)'
        /\ \A r : PutComes(r) => PutComes(r)'
    <2>1. UNCHANGED <<queue, dirty, pending, firing, cur, sent, dead>> /\ excused \subseteq excused'
      BY DEF Write, Invalidate, logVars, upVars
    <2>2. \A r \in Files : r \notin excused' => remote'[r] = remote[r] \/ ~IsDirty(r)
      BY DEF Write, Invalidate, logVars, upVars, FuseTypeOK
    <2> QED BY <2>1, <2>2, FileStep
  <1>3. CloseInv'
    BY <1>2 DEF CloseInv, Write, Invalidate, logVars, upVars
  <1>4. BufferInv'
    BY DEF BufferInv, FuseTypeOK, Write, Invalidate, logVars, upVars
  <1>5. LandInv'
    <2> SUFFICES ASSUME NEW r \in Files, r \notin (excused \cup bare)'
                 PROVE  (Landed(r) \/ Owed(r))'
      BY DEF LandInv
    <2>1. CASE ~(r = p)
      <3>1. /\ r \notin excused \cup bare /\ remote'[r] = remote[r] /\ seen'[r] = seen[r]
            /\ buf'[r] = buf[r]
            /\ r \in written \cup pending \cup firing => r \in (written \cup pending \cup firing)'
        BY <2>1 DEF FuseTypeOK, Write, Invalidate, logVars, upVars
      <3> QED BY <3>1, <1>2, LandKept
    <2>2. CASE r = p
      <3>1. buf'[p] = writes + 1 /\ seen'[p] = writes + 1 /\ writes + 1 \in Nat /\ p \in written'
        BY DEF FuseTypeOK, Write, Invalidate, logVars, upVars
      <3> QED BY <2>2, <3>1 DEF Owed, IsFile
    <2> QED BY <2>1, <2>2
  <1> QED BY <1>1, <1>2, <1>3, <1>4, <1>5 DEF FuseInv

LEMMA ReadlinkStep ==
  ASSUME FuseInv, NEW p \in Files, Readlink(p)
  PROVE  FuseInv'
  <1> USE InvFacts
  <1>1. FuseTypeOK'
    BY DEF FuseTypeOK, Readlink, logVars, upVars, cacheVars, ghosts, bounds
  <1>2. /\ ReplayInv' /\ EntryInv' /\ DirtyBalanced' /\ SentInv'
        /\ Places' = Places /\ \A i : OpAt(i)' = OpAt(i)
        /\ \A r : Silent(r) => Silent(r)'
        /\ \A r, v : Final(r, v) => Final(r, v)'
        /\ \A r : PutComes(r) => PutComes(r)'
    <2>1. UNCHANGED <<queue, dirty, pending, firing, cur, sent, dead>> /\ excused \subseteq excused'
      BY DEF Readlink, logVars, upVars, cacheVars, ghosts, bounds
    <2>2. \A r \in Files : r \notin excused' => remote'[r] = remote[r] \/ ~IsDirty(r)
      BY DEF Readlink, logVars, upVars, cacheVars, ghosts, bounds, FuseTypeOK
    <2> QED BY <2>1, <2>2, FileStep
  <1>3. CloseInv'
    BY <1>2 DEF CloseInv, Readlink, logVars, upVars, cacheVars, ghosts, bounds
  <1>4. BufferInv'
    BY DEF BufferInv, FuseTypeOK, Readlink, logVars, upVars, cacheVars, ghosts, bounds
  <1>5. LandInv'
    <2> SUFFICES ASSUME NEW r \in Files, r \notin (excused \cup bare)'
                 PROVE  (Landed(r) \/ Owed(r))'
      BY DEF LandInv
    <2>1. CASE ~(r = p)
      <3>1. /\ r \notin excused \cup bare /\ remote'[r] = remote[r] /\ seen'[r] = seen[r]
            /\ buf'[r] = buf[r]
            /\ r \in written \cup pending \cup firing => r \in (written \cup pending \cup firing)'
        BY <2>1 DEF FuseTypeOK, Readlink, logVars, upVars, cacheVars, ghosts, bounds
      <3> QED BY <3>1, <1>2, LandKept
    <2>2. CASE r = p
      <3>1. UNCHANGED <<remote, seen, excused, bare>> /\ buf[p] = Absent
        BY DEF Readlink, logVars, upVars, cacheVars, ghosts, bounds
      <3>2. ~Owed(p)
        BY <3>1, FuseAssumption DEF Owed, IsFile
      <3>3. Landed(p)
        BY <2>2, <3>1, <3>2 DEF LandInv
      <3> QED BY <1>2, <2>2, <3>1, <3>3 DEF Landed
    <2> QED BY <2>1, <2>2
  <1> QED BY <1>1, <1>2, <1>3, <1>4, <1>5 DEF FuseInv

\* A handle more changes nothing that is owed.
LEMMA HandleStep ==
  ASSUME FuseInv, FuseTypeOK', open \subseteq open', mode # "serving" => open' = open,
         UNCHANGED <<async, buf, remote, written, pending, firing, queue, dirty, cur, sent,
                     dead, mode, seen, bare, excused>>
  PROVE  FuseInv'
  <1>1. /\ ReplayInv' /\ EntryInv' /\ DirtyBalanced' /\ SentInv'
        /\ Places' = Places /\ \A i : OpAt(i)' = OpAt(i)
        /\ \A r : Silent(r) => Silent(r)'
        /\ \A r, v : Final(r, v) => Final(r, v)'
        /\ \A r : PutComes(r) => PutComes(r)'
    BY FileStep
  <1>2. CloseInv' /\ BufferInv'
    BY <1>1, InvFacts DEF CloseInv, BufferInv
  <1>3. LandInv'
    BY <1>1, LandKept DEF LandInv
  <1> QED BY <1>1, <1>2, <1>3 DEF FuseInv

LEMMA OpenStep ==
  ASSUME FuseInv, NEW p \in Files, NEW trunc \in BOOLEAN, Open(p, trunc)
  PROVE  FuseInv'
  <1>1. FuseTypeOK /\ mode = "serving" /\ open' \in {open, open \cup {p}} /\ reads' \in {reads, reads + 1}
        /\ UNCHANGED <<async, buf, remote, written, pending, firing, queue, dirty, cur, sent,
                       dead, mode, seen, bare, excused, writes, ops>>
    BY InvFacts DEF Open, Reading, logVars, upVars, ghosts
  <1>2. FuseTypeOK'
    BY <1>1 DEF FuseTypeOK
  <1> QED BY <1>1, <1>2, HandleStep

LEMMA FetchStep ==
  ASSUME FuseInv, FetchInv, NEW f \in fetches, Fetch(f)
  PROVE  FuseInv'
  <1>1. f.p \in Files
    BY DEF FetchInv
  <1>2. FuseTypeOK /\ open' \in {open, open \cup {f.p}} /\ (mode # "serving" => open' = open)
        /\ UNCHANGED <<async, buf, remote, written, pending, firing, queue, dirty, cur, sent,
                       dead, mode, seen, bare, excused, writes, ops, reads>>
    BY InvFacts DEF Fetch, logVars, upVars, ghosts, bounds
  <1>3. FuseTypeOK'
    BY <1>1, <1>2 DEF FuseTypeOK
  <1> QED BY <1>2, <1>3, HandleStep

LEMMA FetchLandStep ==
  ASSUME FuseInv, FetchInv, NEW f \in fetches, FetchLand(f)
  PROVE  FuseInv'
  <1> USE InvFacts
  <1>a. f.p \in Files /\ f.got \in Nat
    BY DEF FetchInv, FetchLand
  <1>b. /\ buf' = [buf EXCEPT ![f.p] = f.got]
        /\ open' \in {open, open \cup {f.p}} /\ (mode # "serving" => open' = open)
        /\ excused' = IF f.got # seen[f.p] /\ f.p \notin bare THEN excused \cup {f.p} ELSE excused
        /\ UNCHANGED <<remote, written, pending, firing, queue, dirty, async, cur, sent, dead, mode, seen, bare,
                       writes, ops, reads>>
    BY DEF FetchLand, logVars, upVars, bounds
  <1>1. FuseTypeOK'
    BY <1>a, <1>b DEF FuseTypeOK
  <1>2. /\ ReplayInv' /\ EntryInv' /\ DirtyBalanced' /\ SentInv'
        /\ Places' = Places /\ \A i : OpAt(i)' = OpAt(i)
        /\ \A r : Silent(r) => Silent(r)'
        /\ \A r, v : Final(r, v) => Final(r, v)'
        /\ \A r : PutComes(r) => PutComes(r)'
    BY <1>b, FileStep
  <1>3. CloseInv'
    BY <1>b, <1>2 DEF CloseInv
  <1>4. BufferInv'
    <2> SUFFICES ASSUME NEW r \in Files, r \notin (excused \cup bare)' PROVE buf'[r] \in {Absent, seen'[r]}
      BY DEF BufferInv
    <2>1. CASE r = f.p
      BY <1>a, <1>b, <2>1 DEF FuseTypeOK
    <2>2. CASE r # f.p
      BY <1>a, <1>b, <2>2 DEF BufferInv, FuseTypeOK
    <2> QED BY <2>1, <2>2
  <1>5. LandInv'
    <2> SUFFICES ASSUME NEW r \in Files, r \notin (excused \cup bare)'
                 PROVE  (Landed(r) \/ Owed(r))'
      BY DEF LandInv
    <2>1. r \notin excused \cup bare
      BY <1>b
    <2>2. CASE r # f.p
      <3>1. buf'[r] = buf[r]
        BY <1>a, <1>b, <2>2 DEF FuseTypeOK
      <3> QED BY <1>b, <1>2, <2>1, <3>1, LandKept
    <2>3. CASE r = f.p
      <3>1. buf'[r] = seen[r] /\ IsFile(buf'[r])
        BY <1>a, <1>b, <2>3 DEF FuseTypeOK, IsFile
      <3>2. Landed(r) \/ Owed(r)
        BY <2>1 DEF LandInv
      <3>3. CASE Landed(r)
        BY <1>b, <1>2, <3>3 DEF Landed
      <3>4. CASE Owed(r)
        BY <1>b, <1>2, <3>1, <3>4 DEF Owed
      <3> QED BY <3>2, <3>3, <3>4
    <2> QED BY <2>2, <2>3
  <1> QED BY <1>1, <1>2, <1>3, <1>4, <1>5 DEF FuseInv

LEMMA RemoveCleanStep ==
  ASSUME FuseInv, NEW p \in Files, Remove(p), ~IsDirty(p)
  PROVE  FuseInv'
  <1> USE InvFacts
  <1>1. FuseTypeOK'
    <2>1. /\ UNCHANGED <<open, written, pending, queue, dirty, cur, dead, firing, mode, async, excused, writes, reads>>
          /\ ops' = ops + 1 /\ buf' = [buf EXCEPT ![p] = Absent] /\ remote' = [remote EXCEPT ![p] = Absent]
          /\ seen' = [seen EXCEPT ![p] = Absent] /\ bare' = bare \ {p}
      BY DEF Remove, Acting, Invalidate, logVars, upVars
    <2> QED BY <2>1 DEF FuseTypeOK
  <1>2. /\ ReplayInv' /\ EntryInv' /\ DirtyBalanced' /\ SentInv'
        /\ Places' = Places /\ \A i : OpAt(i)' = OpAt(i)
        /\ \A r : Silent(r) => Silent(r)'
        /\ \A r, v : Final(r, v) => Final(r, v)'
        /\ \A r : PutComes(r) => PutComes(r)'
    <2>1. UNCHANGED <<queue, dirty, pending, firing, cur, sent, dead>> /\ excused \subseteq excused'
      BY DEF Remove, Acting, Invalidate, logVars, upVars
    <2>2. \A r \in Files : r \notin excused' => remote'[r] = remote[r] \/ ~IsDirty(r)
      BY DEF Remove, Acting, Invalidate, logVars, upVars, FuseTypeOK
    <2> QED BY <2>1, <2>2, FileStep
  <1>3. CloseInv'
    BY <1>2 DEF CloseInv, Remove, Acting, Invalidate, logVars, upVars
  <1>4. BufferInv'
    BY DEF BufferInv, FuseTypeOK, Remove, Acting, Invalidate, logVars, upVars
  <1>5. LandInv'
    <2> SUFFICES ASSUME NEW r \in Files, r \notin (excused \cup bare)'
                 PROVE  (Landed(r) \/ Owed(r))'
      BY DEF LandInv
    <2>1. CASE ~(r = p)
      <3>1. /\ r \notin excused \cup bare /\ remote'[r] = remote[r] /\ seen'[r] = seen[r]
            /\ buf'[r] = buf[r]
            /\ r \in written \cup pending \cup firing => r \in (written \cup pending \cup firing)'
        BY <2>1 DEF FuseTypeOK, Remove, Acting, Invalidate, logVars, upVars
      <3> QED BY <3>1, <1>2, LandKept
    <2>2. CASE r = p
      <3>1. remote'[p] = Absent /\ seen'[p] = Absent
        BY DEF FuseTypeOK, Remove, Acting, Invalidate, logVars, upVars
      <3>2. Silent(p)
        BY CleanPath
      <3> QED BY <1>2, <2>2, <3>1, <3>2 DEF Landed
    <2> QED BY <2>1, <2>2
  <1> QED BY <1>1, <1>2, <1>3, <1>4, <1>5 DEF FuseInv

LEMMA RenameCleanStep ==
  ASSUME FuseInv, NEW p \in Files, NEW q \in Files, Rename(p, q), ~IsDirty(p)
  PROVE  FuseInv'
  <1> USE InvFacts
  <1> DEFINE calm == buf[p] = Absent /\ buf[q] = Absent /\ ~IsDirty(q) /\ p \notin excused \cup written
  <1>a. /\ UNCHANGED <<written, pending, queue, dirty, cur, sent, dead, firing, mode, async, writes, reads>>
        /\ p # q /\ ops' = ops + 1
        /\ mode = "serving"
        /\ excused' = IF calm THEN excused ELSE excused \cup {p, q}
        /\ remote' = [remote EXCEPT ![q] = remote[p], ![p] = Absent]
        /\ seen' = [seen EXCEPT ![q] = seen[p], ![p] = Absent]
        /\ bare' = (bare \ {p, q}) \cup (IF p \in bare THEN {q} ELSE {})
        /\ buf' = IF buf[p] # Absent THEN [buf EXCEPT ![q] = buf[p], ![p] = Absent] ELSE buf
        /\ open' = IF p \in open THEN (open \ {p}) \cup {q} ELSE open
    BY DEF Rename, Renames, Acting, Invalidate, logVars, upVars
  <1>1. FuseTypeOK'
    <2>1. buf' \in [Files -> Nat \cup {Absent, Dir, Link}]
      BY <1>a DEF FuseTypeOK
    <2>2. remote' \in [Files -> Nat \cup {Absent, Link}]
      BY <1>a DEF FuseTypeOK
    <2>3. seen' \in [Files -> Nat \cup {Absent, Dir, Link}]
      BY <1>a DEF FuseTypeOK
    <2>4. open' \subseteq Files /\ bare' \subseteq Files /\ excused' \subseteq Files
      BY <1>a DEF FuseTypeOK
    <2>5. UNCHANGED <<written, pending, queue, dirty, cur, dead, firing, mode, async, writes, reads>> /\ ops' = ops + 1
      BY <1>a
    <2> QED BY <2>1, <2>2, <2>3, <2>4, <2>5 DEF FuseTypeOK
  <1>2. /\ ReplayInv' /\ EntryInv' /\ DirtyBalanced' /\ SentInv'
        /\ Places' = Places /\ \A i : OpAt(i)' = OpAt(i)
        /\ \A r : Silent(r) => Silent(r)'
        /\ \A r, v : Final(r, v) => Final(r, v)'
        /\ \A r : PutComes(r) => PutComes(r)'
    <2>1. UNCHANGED <<queue, dirty, pending, firing, cur, sent, dead>> /\ excused \subseteq excused'
      BY DEF Rename, Renames, Acting, Invalidate, logVars, upVars
    <2>2. \A r \in Files : r \notin excused' => remote'[r] = remote[r] \/ ~IsDirty(r)
      BY DEF Rename, Renames, Acting, Invalidate, logVars, upVars, FuseTypeOK
    <2> QED BY <2>1, <2>2, FileStep
  <1>3. CloseInv'
    BY <1>2, <1>a DEF CloseInv
  <1>4. BufferInv'
    BY <1>a DEF BufferInv, FuseTypeOK
  <1>5. LandInv'
    <2> SUFFICES ASSUME NEW r \in Files, r \notin (excused \cup bare)'
                 PROVE  (Landed(r) \/ Owed(r))'
      BY DEF LandInv
    <2>1. CASE r \notin {p, q}
      <3>1. /\ r \notin excused \cup bare /\ remote'[r] = remote[r] /\ seen'[r] = seen[r]
            /\ buf'[r] = buf[r]
        BY <1>a, <2>1 DEF FuseTypeOK
      <3> QED BY <3>1, <1>2, <1>a, LandKept
    <2>2. CASE r = p
      <3>1. Silent(p) /\ remote'[p] = Absent /\ seen'[p] = Absent
        BY <1>a, CleanPath DEF FuseTypeOK
      <3> QED BY <1>2, <2>2, <3>1 DEF Landed
    <2>3. CASE r = q
      <3>1. calm /\ p \notin bare
        BY <1>a, <2>3
      <3>2. remote[p] = seen[p]
        BY <3>1, CleanLanded
      <3>3. Silent(q) /\ remote'[q] = seen'[q]
        BY <1>a, <3>1, <3>2, CleanPath DEF FuseTypeOK
      <3> QED BY <1>2, <2>3, <3>3 DEF Landed
    <2> QED BY <2>1, <2>2, <2>3
  <1> QED BY <1>1, <1>2, <1>3, <1>4, <1>5 DEF FuseInv

LEMMA RenameFailsStep ==
  ASSUME FuseInv, NEW p \in Files, NEW q \in Files, RenameFails(p, q)
  PROVE  FuseInv'
  <1> USE InvFacts
  <1>1. FuseTypeOK'
    BY DEF FuseTypeOK, RenameFails, Renames, Acting, Invalidate, logVars, upVars
  <1>2. /\ ReplayInv' /\ EntryInv' /\ DirtyBalanced' /\ SentInv'
        /\ Places' = Places /\ \A i : OpAt(i)' = OpAt(i)
        /\ \A r : Silent(r) => Silent(r)'
        /\ \A r, v : Final(r, v) => Final(r, v)'
        /\ \A r : PutComes(r) => PutComes(r)'
    <2>1. UNCHANGED <<queue, dirty, pending, firing, cur, sent, dead>> /\ excused \subseteq excused'
      BY DEF RenameFails, Renames, Acting, Invalidate, logVars, upVars
    <2>2. \A r \in Files : r \notin excused' => remote'[r] = remote[r] \/ ~IsDirty(r)
      BY DEF RenameFails, Renames, Acting, Invalidate, logVars, upVars, FuseTypeOK
    <2> QED BY <2>1, <2>2, FileStep
  <1>3. CloseInv'
    BY <1>2 DEF CloseInv, RenameFails, Renames, Acting, Invalidate, logVars, upVars
  <1>4. BufferInv'
    BY DEF BufferInv, FuseTypeOK, RenameFails, Renames, Acting, Invalidate, logVars, upVars
  <1>5. LandInv'
    <2> SUFFICES ASSUME NEW r \in Files, r \notin (excused \cup bare)'
                 PROVE  (Landed(r) \/ Owed(r))'
      BY DEF LandInv
    <2>1. CASE ~(r \in {p, q})
      <3>1. /\ r \notin excused \cup bare /\ remote'[r] = remote[r] /\ seen'[r] = seen[r]
            /\ buf'[r] = buf[r]
            /\ r \in written \cup pending \cup firing => r \in (written \cup pending \cup firing)'
        BY <2>1 DEF FuseTypeOK, RenameFails, Renames, Acting, Invalidate, logVars, upVars
      <3> QED BY <3>1, <1>2, LandKept
    <2>2. CASE r \in {p, q}
      BY <2>2 DEF RenameFails, Renames, Acting, Invalidate, logVars, upVars
    <2> QED BY <2>1, <2>2
  <1> QED BY <1>1, <1>2, <1>3, <1>4, <1>5 DEF FuseInv

\* The drain ends, with what it does not wait for excused.
LEMMA DrainEnds ==
  ASSUME FuseInv, mode = "draining", mode' = "done", cur = << >>,
         excused' = excused \cup firing \cup QueueNames,
         UNCHANGED <<async, buf, remote, open, written, pending, firing, queue, dirty, cur, sent,
                     dead, seen, bare, writes, ops, reads>>
  PROVE  FuseInv'
  <1> USE InvFacts
  <1>0. QueueNames \subseteq Files /\ \A i \in DOMAIN queue : queue[i].p \in QueueNames
    <2>1. \A i \in DOMAIN queue : queue[i] \in Entries
      BY DEF FuseTypeOK
    <2>2. \A e \in Entries : e.p \in Names(e) /\ Names(e) \subseteq Files
      BY DEF Names, Entries
    <2> QED BY <2>1, <2>2 DEF QueueNames
  <1>1. FuseTypeOK'
    BY <1>0 DEF FuseTypeOK
  <1>2. /\ ReplayInv' /\ EntryInv' /\ DirtyBalanced' /\ SentInv'
        /\ Places' = Places /\ \A i : OpAt(i)' = OpAt(i)
        /\ \A r : Silent(r) => Silent(r)'
        /\ \A r, v : Final(r, v) => Final(r, v)'
        /\ \A r : PutComes(r) => PutComes(r)'
    BY FileStep
  <1>3. CloseInv'
    <2>1. \A i \in Places : OpAt(i).p \in QueueNames
      <3>1. DOMAIN queue = 1..Len(queue) /\ Len(queue) \in Nat
        BY DEF FuseTypeOK
      <3> QED BY <1>0, <3>1 DEF Places, OpAt
    <2> QED BY <1>2, <2>1 DEF CloseInv
  <1>4. BufferInv'
    BY DEF BufferInv
  <1>5. LandInv'
    <2> SUFFICES ASSUME NEW r \in Files, r \notin (excused \cup bare)'
                 PROVE  (Landed(r) \/ Owed(r))'
      BY DEF LandInv
    <2> QED BY <1>2, LandKept
  <1> QED BY <1>1, <1>2, <1>3, <1>4, <1>5 DEF FuseInv

LEMMA DrainDoneStep ==
  ASSUME FuseInv, DrainDone
  PROVE  FuseInv'
  <1>1. QueueNames = {}
    BY DEF DrainDone, QueueNames
  <1> QED BY <1>1, DrainEnds DEF DrainDone, logVars, upVars, bounds

LEMMA DrainTimeoutStep ==
  ASSUME FuseInv, DrainTimeout
  PROVE  FuseInv'
  BY DrainEnds DEF DrainTimeout, logVars, upVars, bounds

-----------------------------------------------------------------------------
(* Steps on the log. *)

LEMMA OneLong ==
  ASSUME NEW s \in Seq(Entries), s # << >>, Len(s) <= 1
  PROVE  s = <<s[1]>> /\ s[1] \in Entries
  <1>1. Len(s) \in Nat /\ Len(s) # 0
    OBVIOUS
  <1>2. PICK n \in Nat : n = Len(s)
    BY <1>1
  <1>3. n # 0 /\ n <= 1
    BY <1>1, <1>2
  <1>4. n = 1
    BY <1>3
  <1>5. Len(s) = 1 /\ s[1] \in Entries
    BY <1>2, <1>4
  <1>6. s = [i \in 1..1 |-> s[i]]
    BY <1>5
  <1>7. <<s[1]>> = [i \in 1..1 |-> s[i]]
    OBVIOUS
  <1> QED BY <1>5, <1>6, <1>7

LEMMA CountsNat ==
  ASSUME FuseTypeOK, NEW r \in Files
  PROVE  /\ Count(queue, r) \in Nat /\ Count(cur, r) \in Nat /\ Count(dead, r) \in Nat
         /\ dirty[r] \in Nat
  BY CountFacts DEF FuseTypeOK

\* The dirty count of a path, with the conditions written out.
LEMMA Balance ==
  ASSUME FuseInv, NEW r \in Files
  PROVE  dirty[r] = (IF r \in pending THEN 1 ELSE 0) + (IF r \in firing THEN 1 ELSE 0)
                    + Count(queue, r) + Count(cur, r) + Count(dead, r)
  BY DEF FuseInv, DirtyBalanced, One

LEMMA EnqueueFacts ==
  ASSUME FuseTypeOK, NEW e \in Entries, Enqueue(e)
  PROVE  \E s \in Seq(Entries) :
           /\ queue' = queue \o s /\ s # << >> /\ s[Len(s)] = e
           /\ \A k \in 1..Len(s) : s[k] = e \/ \E x \in Forced(e) : s[k] = Entry("put", x, x)
           /\ \A r \in Files : Count(s, r) = One(r \in Forced(e)) + One(r \in Names(e))
  <1> DEFINE F == Forced(e)
             n == Cardinality(F)
             first == [i \in 1..n |-> IF i = 1 /\ e.p \in pending THEN Entry("put", e.p, e.p)
                                                                  ELSE Entry("put", e.q, e.q)]
  <1>1. /\ e.p \in Files /\ e.q \in Files /\ F \subseteq {e.p, e.q} \cap pending
        /\ Names(e) \subseteq {e.p, e.q}
    BY DEF Entries, Forced, Names
  <1>2. queue' = Append(queue \o first, e)
    BY DEF Enqueue
  <1>3. /\ Entry("put", e.p, e.p) \in Entries /\ Names(Entry("put", e.p, e.p)) = {e.p}
        /\ Entry("put", e.q, e.q) \in Entries /\ Names(Entry("put", e.q, e.q)) = {e.q}
    BY <1>1, PutFacts
  <1>4. /\ first \in Seq(Entries)
        /\ \A k \in 1..Len(first) : \E x \in F : first[k] = Entry("put", x, x)
        /\ \A r \in Files : Count(first, r) = One(r \in F)
    <2> HIDE DEF F
    <2>1. CASE F = {}
      <3>1. n = 0
        BY <2>1, FS_EmptySet
      <3>2. first \in Seq(Entries) /\ Len(first) = 0 /\ DOMAIN first = {}
        BY <3>1, <1>3
      <3>3. \A r \in Files : Count(first, r) = 0
        BY <3>2, CountFacts
      <3> HIDE DEF first, n
      <3>4. \A k \in 1..Len(first) : \E x \in F : first[k] = Entry("put", x, x)
        BY <3>2
      <3> QED BY <2>1, <3>2, <3>3, <3>4 DEF One
    <2>2. ASSUME NEW x, F = {x}
          PROVE  /\ first \in Seq(Entries)
                 /\ \A k \in 1..Len(first) : \E y \in F : first[k] = Entry("put", y, y)
                 /\ \A r \in Files : Count(first, r) = One(r \in F)
      <3>1. n = 1
        BY <2>2, FS_Singleton
      <3>2. (x = e.p /\ e.p \in pending) \/ (x = e.q /\ e.p \notin pending)
        <4>1. x \in pending /\ (x = e.p \/ x = e.q)
          BY <2>2, <1>1
        <4>2. e.p \in pending => e.p \in F \/ F = {} \/ x = e.p
          BY <4>1, <2>2 DEF F, Forced, Names
        <4> QED BY <4>1, <4>2, <2>2
      <3>3. first = <<Entry("put", x, x)>>
        BY <3>1, <3>2
      <3>4. Entry("put", x, x) \in Entries /\ Names(Entry("put", x, x)) = {x}
        BY <1>3, <3>2
      <3>5. \A r \in Files : Count(<<Entry("put", x, x)>>, r) = One(r \in Names(Entry("put", x, x)))
        BY <3>4, CountFew
      <3> HIDE DEF first
      <3>6. first \in Seq(Entries) /\ Len(first) = 1 /\ first[1] = Entry("put", x, x)
        BY <3>3, <3>4
      <3> QED BY <2>2, <3>3, <3>4, <3>5, <3>6
    <2>3. CASE F = {e.p, e.q} /\ e.p # e.q
      <3>1. n = 2
        <4>1. Cardinality({e.p} \cup {e.q}) = Cardinality({e.p}) + 1 /\ Cardinality({e.p}) = 1
          BY <2>3, FS_Singleton, FS_AddElement
        <4>2. F = {e.p} \cup {e.q}
          BY <2>3
        <4> QED BY <4>1, <4>2
      <3>2. e.p \in pending
        BY <1>1, <2>3
      <3>3. first = <<Entry("put", e.p, e.p), Entry("put", e.q, e.q)>>
        BY <3>1, <3>2
      <3> HIDE DEF first, n
      <3>4. /\ <<Entry("put", e.p, e.p)>> \in Seq(Entries) /\ <<Entry("put", e.q, e.q)>> \in Seq(Entries)
            /\ first = <<Entry("put", e.p, e.p)>> \o <<Entry("put", e.q, e.q)>>
            /\ first \in Seq(Entries) /\ Len(first) = 2
            /\ first[1] = Entry("put", e.p, e.p) /\ first[2] = Entry("put", e.q, e.q)
        BY <1>3, <3>3
      <3>5. ASSUME NEW r \in Files PROVE Count(first, r) = One(r \in F)
        <4>1. Count(first, r) = Count(<<Entry("put", e.p, e.p)>>, r) + Count(<<Entry("put", e.q, e.q)>>, r)
          <5> DEFINE a == <<Entry("put", e.p, e.p)>>
                     b == <<Entry("put", e.q, e.q)>>
          <5>1. a \in Seq(Entries) /\ b \in Seq(Entries) /\ first = a \o b
            BY <3>4
          <5> HIDE DEF a, b
          <5>2. Count(a \o b, r) = Count(a, r) + Count(b, r)
            BY <5>1, CountConcat
          <5> QED BY <5>1, <5>2 DEF a, b
        <4>2. /\ Count(<<Entry("put", e.p, e.p)>>, r) = One(r \in {e.p})
              /\ Count(<<Entry("put", e.q, e.q)>>, r) = One(r \in {e.q})
          BY <1>3, CountFew
        <4> QED BY <4>1, <4>2, <2>3 DEF One
      <3> QED BY <2>3, <3>4, <3>5
    <2>4. F = {} \/ (\E x : F = {x}) \/ (F = {e.p, e.q} /\ e.p # e.q)
      BY <1>1
    <2> QED BY <2>1, <2>2, <2>3, <2>4
  <1> DEFINE s == Append(first, e)
  <1> HIDE DEF first, F
  <1>5. s \in Seq(Entries) /\ s # << >> /\ s[Len(s)] = e
    BY <1>4
  <1>6. queue' = queue \o s
    <2>1. queue \in Seq(Entries)
      BY DEF FuseTypeOK
    <2>2. Append(queue \o first, e) = queue \o Append(first, e)
      BY <2>1, <1>4
    <2> QED BY <2>2, <1>2
  <1>7. \A k \in 1..Len(s) : s[k] = e \/ \E x \in F : s[k] = Entry("put", x, x)
    BY <1>4
  <1>8. \A r \in Files : Count(s, r) = One(r \in F) + One(r \in Names(e))
    BY <1>4, CountAppend
  <1> HIDE DEF s
  <1> QED BY <1>5, <1>6, <1>7, <1>8 DEF F

LEMMA EnqueueStep ==
  ASSUME FuseInv, NEW e \in Entries, Enqueue(e), UNCHANGED <<cur, sent, dead>>,
         excused \subseteq excused', PlainEntry(e)'
  PROVE  /\ ReplayInv' /\ EntryInv' /\ DirtyBalanced'
         /\ queue' \in Seq(Entries) /\ dirty' \in [Files -> Nat] /\ UNCHANGED firing
         /\ pending' \subseteq pending /\ pending \ pending' \subseteq Names(e)
         /\ \A r \in Files \ Names(e) :
              /\ Silent(r) => Silent(r)'
              /\ \A v : Final(r, v) => Final(r, v)'
              /\ PutComes(r) => PutComes(r)'
         /\ e.op \in {"del", "link"} => Final(e.p, Leaves(e))'
  <1> USE InvFacts
  <1>1. /\ pending' = pending \ Forced(e) /\ dirty' = MarkDirty(e) /\ UNCHANGED firing
        /\ Forced(e) \subseteq Names(e) \cap pending /\ e.p \in Names(e)
    BY DEF Enqueue, Forced, Names
  <1>2. PICK s \in Seq(Entries) :
           /\ queue' = queue \o s /\ s # << >> /\ s[Len(s)] = e
           /\ \A k \in 1..Len(s) : s[k] = e \/ \E x \in Forced(e) : s[k] = Entry("put", x, x)
           /\ \A r \in Files : Count(s, r) = One(r \in Forced(e)) + One(r \in Names(e))
    BY EnqueueFacts
  <1>3. /\ \A i \in Places : OpAt(i)' = OpAt(i)
        /\ \A i \in Places' \ Places : \E k \in 1..Len(s) : OpAt(i)' = s[k]
        /\ \A p : (\A k \in 1..Len(s) : ~(s[k].op \in {"del", "link"} /\ s[k].p = p)) =>
              /\ Silent(p) => Silent(p)'
              /\ \A v : Final(p, v) => Final(p, v)'
              /\ PutComes(p) => PutComes(p)'
        /\ e.op \in {"del", "link"} => Final(e.p, Leaves(e))'
    BY <1>2, LogAppend
  <1>4. \A x \in Forced(e) : x \in Files /\ Entry("put", x, x).op = "put" /\ Entry("put", x, x).q = Entry("put", x, x).p
    BY <1>1, PutFacts DEF FuseTypeOK
  <1>5. EntryInv'
    <2> SUFFICES ASSUME NEW i \in Places' PROVE PlainEntry(OpAt(i))'
      BY DEF EntryInv
    <2>1. CASE i \in Places
      BY <1>3, <2>1 DEF EntryInv, PlainEntry
    <2>2. CASE i \notin Places
      <3>1. PICK k \in 1..Len(s) : OpAt(i)' = s[k]
        BY <1>3, <2>2
      <3>2. CASE s[k] = e
        BY <3>1, <3>2 DEF PlainEntry
      <3>3. CASE \E x \in Forced(e) : s[k] = Entry("put", x, x)
        BY <1>4, <3>1, <3>3 DEF PlainEntry
      <3> QED BY <1>2, <3>2, <3>3
    <2> QED BY <2>1, <2>2
  <1>6. DirtyBalanced'
    <2> SUFFICES ASSUME NEW r \in Files
                 PROVE  dirty'[r] = One(r \in pending') + One(r \in firing') + Count(queue', r)
                                    + Count(cur', r) + Count(dead', r)
      BY DEF DirtyBalanced, Count
    <2>1. Count(queue', r) = Count(queue, r) + (IF r \in Forced(e) THEN 1 ELSE 0) + (IF r \in Names(e) THEN 1 ELSE 0)
      <3>1. Count(queue', r) = Count(queue, r) + Count(s, r)
        BY <1>2, CountConcat DEF FuseTypeOK
      <3>2. Count(s, r) = (IF r \in Forced(e) THEN 1 ELSE 0) + (IF r \in Names(e) THEN 1 ELSE 0)
        BY <1>2 DEF One
      <3> QED BY <3>1, <3>2, CountsNat
    <2>2. dirty'[r] = dirty[r] + (IF r \in Names(e) THEN 1 ELSE 0)
      BY <1>1, CountsNat DEF MarkDirty
    <2>3. /\ dirty[r] = (IF r \in pending THEN 1 ELSE 0) + (IF r \in firing THEN 1 ELSE 0)
                        + Count(queue, r) + Count(cur, r) + Count(dead, r)
          /\ Count(queue, r) \in Nat /\ Count(cur, r) \in Nat /\ Count(dead, r) \in Nat /\ dirty[r] \in Nat
      BY Balance, CountsNat
    <2>4. UNCHANGED <<cur, dead, firing>> /\ pending' = pending \ Forced(e)
      BY <1>1
    <2>5. CASE r \in Forced(e)
      <3>1. r \in Names(e) /\ r \in pending /\ r \notin pending'
        BY <1>1, <2>5
      <3>2. /\ dirty'[r] = dirty[r] + 1 /\ Count(queue', r) = Count(queue, r) + 1 + 1
            /\ dirty[r] = 1 + (IF r \in firing THEN 1 ELSE 0) + Count(queue, r) + Count(cur, r) + Count(dead, r)
            /\ One(r \in pending') = 0
        BY <2>1, <2>2, <2>3, <2>5, <3>1 DEF One
      <3>3. Count(cur', r) = Count(cur, r) /\ Count(dead', r) = Count(dead, r)
        BY <2>4
      <3>4. PICK f \in Nat : f = IF r \in firing THEN 1 ELSE 0
        OBVIOUS
      <3>5. One(r \in firing') = f /\ dirty[r] = 1 + f + Count(queue, r) + Count(cur, r) + Count(dead, r)
        BY <2>4, <3>2, <3>4 DEF One
      <3> QED BY <2>3, <3>2, <3>3, <3>5
    <2>6. CASE r \notin Forced(e)
      <3>1. r \in pending' <=> r \in pending
        BY <2>4, <2>6
      <3> QED BY <2>1, <2>2, <2>3, <2>4, <2>6, <3>1 DEF One
    <2> QED BY <2>5, <2>6
  <1>7. ReplayInv'
    BY DEF ReplayInv, Cur
  <1>8. queue' \in Seq(Entries) /\ dirty' \in [Files -> Nat]
    BY <1>1, <1>2 DEF FuseTypeOK, MarkDirty
  <1>9. ASSUME NEW r \in Files \ Names(e), NEW k \in 1..Len(s), s[k].op \in {"del", "link"}, s[k].p = r
        PROVE  FALSE
    BY <1>1, <1>2, <1>4, <1>9
  <1> QED BY <1>1, <1>3, <1>5, <1>6, <1>7, <1>8, <1>9

\* The uploader is through with an entry.
LEMMA FinishStep ==
  ASSUME FuseInv, cur # << >>, NEW c \in BOOLEAN, Replayed(c),
         UNCHANGED <<queue, pending, firing>>, excused \subseteq excused'
  PROVE  /\ ReplayInv' /\ EntryInv' /\ DirtyBalanced' /\ SentInv'
         /\ cur' \in Seq(Entries) /\ dead' \in Seq(Entries) /\ dirty' \in [Files -> Nat]
         /\ mode # "done"
         /\ \A i \in Places' : i \in Places /\ OpAt(i)' = OpAt(i)
         /\ \A p : Silent(p) => Silent(p)'
         /\ \A p, v : Final(p, v) =>
              Final(p, v)' \/ (Silent(p)' /\ Ends(0, p) /\ v = Leaves(Cur))
         /\ \A p : PutComes(p) => PutComes(p)' \/ (Silent(p)' /\ WillPut(0, p))
  <1> USE InvFacts
  <1>1. /\ cur' = << >> /\ sent' = Absent
        /\ dirty' = IF c THEN MarkClean(Cur) ELSE dirty
        /\ dead' = IF c THEN dead ELSE Append(dead, Cur)
    BY DEF Replayed
  <1>2. /\ \A i \in Places' : i \in Places /\ OpAt(i)' = OpAt(i)
        /\ \A p : Silent(p) => Silent(p)'
        /\ \A p, v : Final(p, v) =>
              Final(p, v)' \/ (Silent(p)' /\ Ends(0, p) /\ v = Leaves(Cur))
        /\ \A p : PutComes(p) => PutComes(p)' \/ (Silent(p)' /\ WillPut(0, p))
    BY <1>1, LogFinish
  <1>3. Cur \in Entries /\ cur = <<Cur>>
    <2>1. cur \in Seq(Entries) /\ Len(cur) <= 1
      BY DEF FuseTypeOK, ReplayInv
    <2> QED BY <2>1, OneLong DEF Cur
  <1>4. ReplayInv' /\ SentInv'
    BY <1>1 DEF ReplayInv, SentInv
  <1>5. EntryInv'
    BY <1>2 DEF EntryInv, PlainEntry
  <1>6. cur' \in Seq(Entries) /\ dead' \in Seq(Entries) /\ dirty' \in [Files -> Nat]
    BY <1>1, <1>3 DEF FuseTypeOK, MarkClean
  <1>7. DirtyBalanced'
    <2> SUFFICES ASSUME NEW r \in Files
                 PROVE  dirty'[r] = One(r \in pending') + One(r \in firing') + Count(queue', r)
                                    + Count(cur', r) + Count(dead', r)
      BY DEF DirtyBalanced, Count
    <2>1. Count(cur, r) = (IF r \in Names(Cur) THEN 1 ELSE 0) /\ Count(cur', r) = 0
      BY <1>1, <1>3, CountFew DEF One
    <2>2. Count(dead', r) = IF c THEN Count(dead, r) ELSE Count(dead, r) + (IF r \in Names(Cur) THEN 1 ELSE 0)
      BY <1>1, <1>3, CountAppend DEF FuseTypeOK, One
    <2>3. dirty'[r] = IF c /\ r \in Names(Cur) THEN dirty[r] - 1 ELSE dirty[r]
      <3>1. r \in Names(Cur) => dirty[r] > 0
        BY <2>1, Balance, CountsNat
      <3> QED BY <1>1, <3>1 DEF MarkClean, FuseTypeOK
    <2> QED BY <2>1, <2>2, <2>3, Balance, CountsNat DEF One
  <1> QED BY <1>2, <1>4, <1>5, <1>6, <1>7 DEF CloseInv

LEMMA FlushStep ==
  ASSUME FuseInv, NEW p \in Files, NEW last \in BOOLEAN, Flush(p, last)
  PROVE  FuseInv'
  <1> USE InvFacts
  <1>1. /\ UNCHANGED <<buf, remote, queue, firing, cur, sent, dead, async, mode, seen, bare, excused, writes, ops, reads>>
        /\ mode = "serving" /\ p \in open
        /\ open' = IF last THEN open \ {p} ELSE open
        /\ written' = written \ {p} /\ pending \subseteq pending'
        /\ pending' = IF p \in written THEN pending \cup {p} ELSE pending
        /\ dirty' = IF p \in written /\ p \notin pending THEN MarkDirty(Entry("put", p, p)) ELSE dirty
    BY DEF Flush, DebouncePut, upVars, cacheVars, ghosts, bounds, logVars
  <1>2. \A r \in Files : dirty'[r] = IF r = p /\ p \in written /\ p \notin pending THEN dirty[r] + 1 ELSE dirty[r]
    BY <1>1, PutFacts DEF MarkDirty, FuseTypeOK
  <1>3. FuseTypeOK'
    <2>1. dirty' \in [Files -> Nat]
      BY <1>1 DEF FuseTypeOK, MarkDirty
    <2> QED BY <1>1, <2>1 DEF FuseTypeOK
  <1>4. /\ Places' = Places /\ \A i : OpAt(i)' = OpAt(i)
        /\ \A r : Silent(r) => Silent(r)'
        /\ \A r, v : Final(r, v) => Final(r, v)'
        /\ \A r : PutComes(r) => PutComes(r)'
    BY <1>1, LogSame
  <1>5. ReplayInv' /\ EntryInv' /\ SentInv'
    BY <1>1, <1>4 DEF ReplayInv, EntryInv, PlainEntry, SentInv, Cur
  <1>6. DirtyBalanced'
    <2> SUFFICES ASSUME NEW r \in Files
                 PROVE  dirty'[r] = One(r \in pending') + One(r \in firing') + Count(queue', r)
                                    + Count(cur', r) + Count(dead', r)
      BY DEF DirtyBalanced, Count
    <2> QED BY <1>1, <1>2, Balance, CountsNat DEF One
  <1>7. CloseInv' /\ BufferInv'
    BY <1>1 DEF CloseInv, BufferInv
  <1>8. LandInv'
    <2> SUFFICES ASSUME NEW r \in Files, r \notin (excused \cup bare)'
                 PROVE  (Landed(r) \/ Owed(r))'
      BY DEF LandInv
    <2> QED BY <1>1, <1>4, LandKept
  <1> QED BY <1>3, <1>5, <1>6, <1>7, <1>8 DEF FuseInv

LEMMA FireTakeStep ==
  ASSUME FuseInv, NEW p \in Files, FireTake(p)
  PROVE  FuseInv'
  <1> USE InvFacts
  <1>1. /\ UNCHANGED <<buf, remote, open, written, queue, dirty, cur, sent, dead, async, mode, seen, bare, excused, writes, ops, reads>>
        /\ p \in pending /\ p \notin firing
        /\ pending' = pending \ {p} /\ firing' = firing \cup {p}
    BY DEF FireTake, upVars, cacheVars, ghosts, bounds, logVars
  <1>3. FuseTypeOK'
    BY <1>1 DEF FuseTypeOK
  <1>4. /\ Places' = Places /\ \A i : OpAt(i)' = OpAt(i)
        /\ \A r : Silent(r) => Silent(r)'
        /\ \A r, v : Final(r, v) => Final(r, v)'
        /\ \A r : PutComes(r) => PutComes(r)'
    BY <1>1, LogSame
  <1>5. ReplayInv' /\ EntryInv' /\ SentInv'
    BY <1>1, <1>4 DEF ReplayInv, EntryInv, PlainEntry, SentInv, Cur
  <1>6. DirtyBalanced'
    <2> SUFFICES ASSUME NEW r \in Files
                 PROVE  dirty'[r] = One(r \in pending') + One(r \in firing') + Count(queue', r)
                                    + Count(cur', r) + Count(dead', r)
      BY DEF DirtyBalanced, Count
    <2> QED BY <1>1, Balance, CountsNat DEF One
  <1>7. CloseInv' /\ BufferInv'
    BY <1>1, <1>4 DEF CloseInv, BufferInv
  <1>8. LandInv'
    <2> SUFFICES ASSUME NEW r \in Files, r \notin (excused \cup bare)'
                 PROVE  (Landed(r) \/ Owed(r))'
      BY DEF LandInv
    <2> QED BY <1>1, <1>4, LandKept
  <1> QED BY <1>3, <1>5, <1>6, <1>7, <1>8 DEF FuseInv

LEMMA FireSendStep ==
  ASSUME FuseInv, NEW p \in Files, FireSend(p)
  PROVE  FuseInv'
  <1> USE InvFacts
  <1> DEFINE e == Entry("put", p, p)
  <1>1. /\ UNCHANGED <<buf, remote, open, written, pending, dirty, cur, sent, dead, async, mode, seen, bare, excused, writes, ops, reads>>
        /\ p \in firing /\ firing' = firing \ {p} /\ queue' = Append(queue, e)
    BY DEF FireSend, upVars, cacheVars, ghosts, bounds, logVars
  <1>a. FuseTypeOK /\ queue \in Seq(Entries) /\ e \in Entries /\ <<e>> \in Seq(Entries) /\ queue' = queue \o <<e>>
        /\ e.op = "put" /\ e.p = p /\ e.q = p /\ Names(e) = {p}
    <2>1. e \in Entries /\ e.op = "put" /\ e.p = p /\ e.q = p /\ Names(e) = {p}
      BY PutFacts
    <2>2. FuseTypeOK /\ queue \in Seq(Entries) /\ queue' = Append(queue, e)
      BY <1>1 DEF FuseTypeOK
    <2> HIDE DEF e
    <2> QED BY <2>1, <2>2
  <1>b. /\ \A i \in Places : OpAt(i)' = OpAt(i)
        /\ \A i \in Places' \ Places : OpAt(i)' = e
        /\ \A r : Silent(r) => Silent(r)'
        /\ \A r, v : Final(r, v) => Final(r, v)'
        /\ \A r : PutComes(r) => PutComes(r)'
        /\ PutComes(p)'
    <2> DEFINE s == <<e>>
    <2>1. s \in Seq(Entries) /\ s # << >> /\ Len(s) = 1 /\ \A k \in 1..Len(s) : s[k] = e
      BY <1>a
    <2>2. queue' = queue \o s /\ UNCHANGED <<cur, sent>>
      BY <1>1, <1>a
    <2> HIDE DEF s, e
    <2> QED BY <1>a, <2>1, <2>2, LogAppend
  <1>c. \A r \in Files : Count(queue', r) = Count(queue, r) + (IF r = p THEN 1 ELSE 0)
    BY <1>1, <1>a, CountAppend DEF One
  <1> HIDE DEF e
  <1>3. FuseTypeOK'
    BY <1>1, <1>a DEF FuseTypeOK
  <1>5. ReplayInv' /\ SentInv'
    BY <1>1 DEF ReplayInv, SentInv, Cur
  <1>4. EntryInv'
    BY <1>1, <1>a, <1>b DEF EntryInv, PlainEntry
  <1>6. DirtyBalanced'
    <2> SUFFICES ASSUME NEW r \in Files
                 PROVE  dirty'[r] = One(r \in pending') + One(r \in firing') + Count(queue', r)
                                    + Count(cur', r) + Count(dead', r)
      BY DEF DirtyBalanced, Count
    <2>1. CASE r = p
      BY <1>1, <1>c, <2>1, Balance, CountsNat DEF One
    <2>2. CASE r # p
      BY <1>1, <1>c, <2>2, Balance, CountsNat DEF One
    <2> QED BY <2>1, <2>2
  <1>7. CloseInv' /\ BufferInv'
    BY <1>1, <1>a, <1>b DEF CloseInv, BufferInv
  <1>8. LandInv'
    <2> SUFFICES ASSUME NEW r \in Files, r \notin (excused \cup bare)'
                 PROVE  (Landed(r) \/ Owed(r))'
      BY DEF LandInv
    <2> QED BY <1>1, <1>b, LandKept
  <1> QED BY <1>3, <1>4, <1>5, <1>6, <1>7, <1>8 DEF FuseInv

LEMMA RemoveDirtyStep ==
  ASSUME FuseInv, NEW p \in Files, Remove(p), IsDirty(p)
  PROVE  FuseInv'
  <1> USE InvFacts
  <1> DEFINE e == Entry("del", p, p)
  <1>1. /\ UNCHANGED <<remote, open, written, cur, sent, dead, async, mode, excused, writes, reads>>
        /\ mode = "serving" /\ ops' = ops + 1 /\ Enqueue(e)
        /\ buf' = [buf EXCEPT ![p] = Absent] /\ seen' = [seen EXCEPT ![p] = Absent] /\ bare' = bare \ {p}
    BY DEF Remove, Acting, upVars, cacheVars, ghosts, bounds, logVars
  <1>a. e \in Entries /\ e.op = "del" /\ e.p = p /\ e.q = p /\ Names(e) = {p} /\ Leaves(e) = Absent
    BY EntryFacts DEF Ops, Leaves
  <1>2. /\ ReplayInv' /\ EntryInv' /\ DirtyBalanced'
        /\ queue' \in Seq(Entries) /\ dirty' \in [Files -> Nat] /\ UNCHANGED firing
        /\ pending' \subseteq pending /\ pending \ pending' \subseteq Names(e)
        /\ \A r \in Files \ Names(e) :
             /\ Silent(r) => Silent(r)'
             /\ \A v : Final(r, v) => Final(r, v)'
             /\ PutComes(r) => PutComes(r)'
        /\ e.op \in {"del", "link"} => Final(e.p, Leaves(e))'
    <2>1. PlainEntry(e)' /\ excused \subseteq excused'
      BY <1>1, <1>a DEF PlainEntry
    <2> HIDE DEF e
    <2> QED BY <1>1, <1>a, <2>1, EnqueueStep
  <1> HIDE DEF e
  <1>3. FuseTypeOK'
    <2>1. /\ buf' \in [Files -> Nat \cup {Absent, Dir, Link}]
          /\ seen' \in [Files -> Nat \cup {Absent, Dir, Link}]
          /\ bare' \subseteq Files /\ pending' \subseteq Files /\ ops' \in Nat
      BY <1>1, <1>2 DEF FuseTypeOK
    <2>2. /\ UNCHANGED <<remote, open, written, cur, dead, async, mode, excused, writes, reads, firing>>
          /\ queue' \in Seq(Entries) /\ dirty' \in [Files -> Nat]
      BY <1>1, <1>2
    <2> QED BY <2>1, <2>2 DEF FuseTypeOK
  <1>4. SentInv' /\ CloseInv'
    BY <1>1, <1>2 DEF SentInv, CloseInv, Cur
  <1>5. BufferInv'
    BY <1>1 DEF BufferInv, FuseTypeOK
  <1>6. LandInv'
    <2> SUFFICES ASSUME NEW r \in Files, r \notin (excused \cup bare)'
                 PROVE  (Landed(r) \/ Owed(r))'
      BY DEF LandInv
    <2>1. CASE r = p
      <3>1. Final(p, Absent)' /\ seen'[p] = Absent
        BY <1>1, <1>2, <1>a DEF FuseTypeOK
      <3> QED BY <2>1, <3>1 DEF Landed
    <2>2. CASE r # p
      <3>1. /\ r \notin excused \cup bare /\ remote'[r] = remote[r] /\ seen'[r] = seen[r] /\ buf'[r] = buf[r]
        BY <1>1, <2>2 DEF FuseTypeOK
      <3>2. r \in Files \ Names(e)
        BY <1>a, <2>2
      <3>3. r \in written \cup pending \cup firing => r \in (written \cup pending \cup firing)'
        BY <1>1, <1>2, <3>2
      <3> QED BY <1>2, <3>1, <3>2, <3>3, LandKept
    <2> QED BY <2>1, <2>2
  <1> QED BY <1>2, <1>3, <1>4, <1>5, <1>6 DEF FuseInv

LEMMA SymlinkStep ==
  ASSUME FuseInv, NEW p \in Files, Symlink(p)
  PROVE  FuseInv'
  <1> USE InvFacts
  <1> DEFINE e == Entry("link", p, p)
  <1>1. /\ UNCHANGED <<remote, open, written, cur, sent, dead, async, mode, excused, writes, reads>>
        /\ mode = "serving" /\ ops' = ops + 1 /\ Enqueue(e)
        /\ buf' = [buf EXCEPT ![p] = Link] /\ seen' = [seen EXCEPT ![p] = Link] /\ bare' = bare \ {p}
    BY DEF Symlink, Acting, upVars, cacheVars, ghosts, bounds, logVars
  <1>a. e \in Entries /\ e.op = "link" /\ e.p = p /\ e.q = p /\ Names(e) = {p} /\ Leaves(e) = Link
    BY EntryFacts DEF Ops, Leaves
  <1>2. /\ ReplayInv' /\ EntryInv' /\ DirtyBalanced'
        /\ queue' \in Seq(Entries) /\ dirty' \in [Files -> Nat] /\ UNCHANGED firing
        /\ pending' \subseteq pending /\ pending \ pending' \subseteq Names(e)
        /\ \A r \in Files \ Names(e) :
             /\ Silent(r) => Silent(r)'
             /\ \A v : Final(r, v) => Final(r, v)'
             /\ PutComes(r) => PutComes(r)'
        /\ e.op \in {"del", "link"} => Final(e.p, Leaves(e))'
    <2>1. PlainEntry(e)' /\ excused \subseteq excused'
      BY <1>1, <1>a DEF PlainEntry
    <2> HIDE DEF e
    <2> QED BY <1>1, <1>a, <2>1, EnqueueStep
  <1> HIDE DEF e
  <1>3. FuseTypeOK'
    <2>1. /\ buf' \in [Files -> Nat \cup {Absent, Dir, Link}]
          /\ seen' \in [Files -> Nat \cup {Absent, Dir, Link}]
          /\ bare' \subseteq Files /\ pending' \subseteq Files /\ ops' \in Nat
      BY <1>1, <1>2 DEF FuseTypeOK
    <2>2. /\ UNCHANGED <<remote, open, written, cur, dead, async, mode, excused, writes, reads, firing>>
          /\ queue' \in Seq(Entries) /\ dirty' \in [Files -> Nat]
      BY <1>1, <1>2
    <2> QED BY <2>1, <2>2 DEF FuseTypeOK
  <1>4. SentInv' /\ CloseInv'
    BY <1>1, <1>2 DEF SentInv, CloseInv, Cur
  <1>5. BufferInv'
    BY <1>1 DEF BufferInv, FuseTypeOK
  <1>6. LandInv'
    <2> SUFFICES ASSUME NEW r \in Files, r \notin (excused \cup bare)'
                 PROVE  (Landed(r) \/ Owed(r))'
      BY DEF LandInv
    <2>1. CASE r = p
      <3>1. Final(p, Link)' /\ seen'[p] = Link
        BY <1>1, <1>2, <1>a DEF FuseTypeOK
      <3> QED BY <2>1, <3>1 DEF Landed
    <2>2. CASE r # p
      <3>1. /\ r \notin excused \cup bare /\ remote'[r] = remote[r] /\ seen'[r] = seen[r] /\ buf'[r] = buf[r]
        BY <1>1, <2>2 DEF FuseTypeOK
      <3>2. r \in Files \ Names(e)
        BY <1>a, <2>2
      <3>3. r \in written \cup pending \cup firing => r \in (written \cup pending \cup firing)'
        BY <1>1, <1>2, <3>2
      <3> QED BY <1>2, <3>1, <3>2, <3>3, LandKept
    <2> QED BY <2>1, <2>2
  <1> QED BY <1>2, <1>3, <1>4, <1>5, <1>6 DEF FuseInv

LEMMA RenameMoveStep ==
  ASSUME FuseInv, NEW p \in Files, NEW q \in Files, Rename(p, q), IsDirty(p),
         ~(buf[p] # Absent /\ p \in pending)
  PROVE  FuseInv'
  <1> USE InvFacts
  <1> DEFINE e == Entry("move", p, q)
  <1>1. /\ UNCHANGED <<remote, written, cur, sent, dead, firing, mode, async, writes, reads>>
        /\ p # q /\ ops' = ops + 1 /\ mode = "serving"
        /\ excused' = excused \cup {p, q}
        /\ seen' = [seen EXCEPT ![q] = seen[p], ![p] = Absent]
        /\ bare' = (bare \ {p, q}) \cup (IF p \in bare THEN {q} ELSE {})
        /\ buf' = IF buf[p] # Absent THEN [buf EXCEPT ![q] = buf[p], ![p] = Absent] ELSE buf
        /\ open' = IF p \in open THEN (open \ {p}) \cup {q} ELSE open
        /\ IsFile(seen[p])
        /\ Enqueue(e)
    BY DEF Rename, Renames, SafeSave, Acting, Enqueue, upVars, cacheVars, ghosts, bounds, logVars
  <1>a. e \in Entries /\ e.op = "move" /\ e.p = p /\ e.q = q /\ Names(e) = {p, q}
    BY EntryFacts DEF Ops
  <1>2. /\ ReplayInv' /\ EntryInv' /\ DirtyBalanced'
        /\ queue' \in Seq(Entries) /\ dirty' \in [Files -> Nat] /\ UNCHANGED firing
        /\ pending' \subseteq pending /\ pending \ pending' \subseteq Names(e)
        /\ \A r \in Files \ Names(e) :
             /\ Silent(r) => Silent(r)'
             /\ \A v : Final(r, v) => Final(r, v)'
             /\ PutComes(r) => PutComes(r)'
        /\ e.op \in {"del", "link"} => Final(e.p, Leaves(e))'
    <2>1. PlainEntry(e)' /\ excused \subseteq excused'
      BY <1>1, <1>a DEF PlainEntry, Names
    <2> HIDE DEF e
    <2> QED BY <1>1, <1>a, <2>1, EnqueueStep
  <1> HIDE DEF e
  <1>3. FuseTypeOK'
    <2>1. buf' \in [Files -> Nat \cup {Absent, Dir, Link}]
      BY <1>1 DEF FuseTypeOK
    <2>3. seen' \in [Files -> Nat \cup {Absent, Dir, Link}]
      BY <1>1 DEF FuseTypeOK
    <2>4. open' \subseteq Files /\ bare' \subseteq Files /\ excused' \subseteq Files
      BY <1>1 DEF FuseTypeOK
    <2>5. /\ UNCHANGED <<remote, written, cur, dead, firing, mode, async, writes, reads>>
          /\ ops' \in Nat
      BY <1>1 DEF FuseTypeOK
    <2>6. dirty' \in [Files -> Nat] /\ queue' \in Seq(Entries) /\ pending' \subseteq Files
      BY <1>2 DEF FuseTypeOK
    <2> QED BY <2>1, <2>3, <2>4, <2>5, <2>6 DEF FuseTypeOK
  <1>4. SentInv' /\ CloseInv'
    BY <1>1, <1>2 DEF SentInv, CloseInv, Cur
  <1>5. BufferInv'
    BY <1>1 DEF BufferInv, FuseTypeOK
  <1>6. LandInv'
    <2> SUFFICES ASSUME NEW r \in Files, r \notin (excused \cup bare)'
                 PROVE  (Landed(r) \/ Owed(r))'
      BY DEF LandInv
    <2>1. /\ r \notin excused \cup bare /\ r \notin {p, q} /\ remote'[r] = remote[r]
          /\ seen'[r] = seen[r] /\ buf'[r] = buf[r]
      BY <1>1 DEF FuseTypeOK
    <2>2. r \in Files \ Names(e)
      BY <1>a, <2>1
    <2>3. r \in written \cup pending \cup firing => r \in (written \cup pending \cup firing)'
      BY <1>1, <1>2, <2>2
    <2> QED BY <1>2, <2>1, <2>2, <2>3, LandKept
  <1> QED BY <1>2, <1>3, <1>4, <1>5, <1>6 DEF FuseInv

LEMMA RenameRedirectStep ==
  ASSUME FuseInv, NEW p \in Files, NEW q \in Files, Rename(p, q), IsDirty(p),
         buf[p] # Absent, p \in pending
  PROVE  FuseInv'
  <1> USE InvFacts
  <1> DEFINE e == Entry("put", q, q)
  <1>1. /\ UNCHANGED <<remote, written, cur, sent, dead, firing, mode, async, writes, reads>>
        /\ p # q /\ ops' = ops + 1 /\ mode = "serving"
        /\ excused' = IF SafeSave(p, q) THEN excused ELSE excused \cup {p, q}
        /\ seen' = [seen EXCEPT ![q] = seen[p], ![p] = Absent]
        /\ bare' = (bare \ {p, q}) \cup (IF p \in bare THEN {q} ELSE {})
        /\ buf' = IF buf[p] # Absent THEN [buf EXCEPT ![q] = buf[p], ![p] = Absent] ELSE buf
        /\ open' = IF p \in open THEN (open \ {p}) \cup {q} ELSE open
        /\ IsFile(seen[p])
        /\ pending' = pending \ {p, q} /\ queue' = Append(queue, e)
        /\ dirty' = [dirty EXCEPT ![p] = IF @ > 0 THEN @ - 1 ELSE @,
                                 ![q] = IF q \in pending THEN @ ELSE @ + 1]
    BY DEF Rename, Renames, RedirectPut, Acting, upVars, cacheVars, ghosts, bounds, logVars
  <1>a. FuseTypeOK /\ queue \in Seq(Entries) /\ e \in Entries /\ <<e>> \in Seq(Entries) /\ queue' = queue \o <<e>>
        /\ e.op = "put" /\ e.p = q /\ e.q = q /\ Names(e) = {q}
    <2>1. e \in Entries /\ e.op = "put" /\ e.p = q /\ e.q = q /\ Names(e) = {q}
      BY PutFacts
    <2>2. FuseTypeOK /\ queue \in Seq(Entries) /\ queue' = Append(queue, e)
      BY <1>1 DEF FuseTypeOK
    <2> HIDE DEF e
    <2> QED BY <2>1, <2>2
  <1>b. /\ \A i \in Places : OpAt(i)' = OpAt(i)
        /\ \A i \in Places' \ Places : OpAt(i)' = e
        /\ \A r : Silent(r) => Silent(r)'
        /\ \A r, v : Final(r, v) => Final(r, v)'
        /\ \A r : PutComes(r) => PutComes(r)'
        /\ PutComes(q)'
    <2> DEFINE s == <<e>>
    <2>1. s \in Seq(Entries) /\ s # << >> /\ Len(s) = 1 /\ \A k \in 1..Len(s) : s[k] = e
      BY <1>a
    <2>2. queue' = queue \o s /\ UNCHANGED <<cur, sent>>
      BY <1>1, <1>a
    <2> HIDE DEF s, e
    <2> QED BY <1>a, <2>1, <2>2, LogAppend
  <1>c. \A r \in Files : Count(queue', r) = Count(queue, r) + (IF r = q THEN 1 ELSE 0)
    BY <1>1, <1>a, CountAppend DEF One
  <1> HIDE DEF e
  <1>3. FuseTypeOK'
    <2>1. buf' \in [Files -> Nat \cup {Absent, Dir, Link}]
      BY <1>1 DEF FuseTypeOK
    <2>3. seen' \in [Files -> Nat \cup {Absent, Dir, Link}]
      BY <1>1 DEF FuseTypeOK
    <2>4. open' \subseteq Files /\ bare' \subseteq Files /\ excused' \subseteq Files
      BY <1>1 DEF FuseTypeOK
    <2>5. /\ UNCHANGED <<remote, written, cur, dead, firing, mode, async, writes, reads>>
          /\ ops' \in Nat
      BY <1>1 DEF FuseTypeOK
    <2>6. dirty' \in [Files -> Nat] /\ queue' \in Seq(Entries) /\ pending' \subseteq Files
      BY <1>1, <1>a DEF FuseTypeOK
    <2> QED BY <2>1, <2>3, <2>4, <2>5, <2>6 DEF FuseTypeOK
  <1>4. SentInv' /\ ReplayInv'
    BY <1>1 DEF SentInv, ReplayInv, Cur
  <1>5. EntryInv'
    BY <1>1, <1>a, <1>b DEF EntryInv, PlainEntry
  <1>6. CloseInv'
    BY <1>1 DEF CloseInv, SafeSave
  <1>7. DirtyBalanced'
    <2> SUFFICES ASSUME NEW r \in Files
                 PROVE  dirty'[r] = One(r \in pending') + One(r \in firing') + Count(queue', r)
                                    + Count(cur', r) + Count(dead', r)
      BY DEF DirtyBalanced, Count
    <2>1. dirty[p] > 0
      BY DEF IsDirty
    <2>2. dirty'[r] = IF r = p THEN dirty[r] - 1 ELSE IF r = q /\ q \notin pending THEN dirty[r] + 1 ELSE dirty[r]
      BY <1>1, <2>1 DEF FuseTypeOK
    <2>6. /\ UNCHANGED <<firing, cur, dead>> /\ pending' = pending \ {p, q} /\ p # q
          /\ Count(queue', r) = Count(queue, r) + (IF r = q THEN 1 ELSE 0)
      BY <1>1, <1>c
    <2>7. /\ dirty[r] = (IF r \in pending THEN 1 ELSE 0) + (IF r \in firing THEN 1 ELSE 0)
                        + Count(queue, r) + Count(cur, r) + Count(dead, r)
          /\ Count(queue, r) \in Nat /\ Count(cur, r) \in Nat /\ Count(dead, r) \in Nat /\ dirty[r] \in Nat
      BY Balance, CountsNat
    <2>3. CASE r = p
      BY <2>2, <2>3, <2>6, <2>7 DEF One
    <2>4. CASE r = q
      BY <2>2, <2>4, <2>6, <2>7 DEF One
    <2>5. CASE r \notin {p, q}
      BY <2>2, <2>5, <2>6, <2>7 DEF One
    <2> QED BY <2>3, <2>4, <2>5
  <1>8. ASSUME SafeSave(p, q)
        PROVE  p \notin excused /\ Silent(p) /\ remote[p] = Absent
    <2>1. p \notin excused /\ p \notin QueueNames /\ remote[p] = Absent /\ (cur # << >> => Cur.p # p)
      BY <1>8 DEF SafeSave
    <2>2. ASSUME NEW i \in Places, Ends(i, p) PROVE FALSE
      <3>1. OpAt(i).p = p /\ OpAt(i).p \in Names(OpAt(i))
        BY <2>2, PlaceFacts DEF Ends
      <3>2. i # 0
        BY <2>1, <3>1, PlaceFacts
      <3>3. i \in DOMAIN queue /\ p \in Names(queue[i])
        BY <3>1, <3>2, PlaceFacts DEF FuseTypeOK
      <3> QED BY <2>1, <3>3 DEF QueueNames
    <2> QED BY <2>1, <2>2 DEF Silent
  <1>9. BufferInv'
    <2> SUFFICES ASSUME NEW r \in Files, r \notin (excused \cup bare)' PROVE buf'[r] \in {Absent, seen'[r]}
      BY DEF BufferInv
    <2>1. CASE r \notin {p, q}
      BY <1>1, <2>1 DEF BufferInv, FuseTypeOK
    <2>2. CASE r = p
      BY <1>1, <2>2 DEF FuseTypeOK
    <2>3. CASE r = q
      <3>1. p \notin excused \cup bare
        BY <1>1, <1>8, <2>3
      <3> QED BY <1>1, <2>3, <3>1 DEF BufferInv, FuseTypeOK
    <2> QED BY <2>1, <2>2, <2>3
  <1>10. LandInv'
    <2> SUFFICES ASSUME NEW r \in Files, r \notin (excused \cup bare)'
                 PROVE  (Landed(r) \/ Owed(r))'
      BY DEF LandInv
    <2>1. CASE r \notin {p, q}
      <3>1. /\ r \notin excused \cup bare /\ remote'[r] = remote[r] /\ seen'[r] = seen[r] /\ buf'[r] = buf[r]
            /\ r \in written \cup pending \cup firing => r \in (written \cup pending \cup firing)'
        BY <1>1, <2>1 DEF FuseTypeOK
      <3> QED BY <3>1, <1>b, LandKept
    <2>2. CASE r = p
      <3>1. Silent(p) /\ remote[p] = Absent
        BY <1>1, <1>8, <2>2
      <3>2. remote'[p] = Absent /\ seen'[p] = Absent
        BY <1>1, <3>1 DEF FuseTypeOK
      <3> QED BY <1>b, <2>2, <3>1, <3>2 DEF Landed
    <2>3. CASE r = q
      <3>1. p \notin excused \cup bare
        BY <1>1, <1>8, <2>3
      <3>2. buf[p] = seen[p]
        BY <3>1 DEF BufferInv
      <3>3. buf'[q] = seen[p] /\ seen'[q] = seen[p]
        BY <1>1, <3>2 DEF FuseTypeOK
      <3> QED BY <1>1, <1>b, <2>3, <3>3 DEF Owed
    <2> QED BY <2>1, <2>2, <2>3
  <1> QED BY <1>3, <1>4, <1>5, <1>6, <1>7, <1>9, <1>10 DEF FuseInv

LEMMA UploadTakeStep ==
  ASSUME FuseInv, UploadTake
  PROVE  FuseInv'
  <1> USE InvFacts
  <1>1. /\ UNCHANGED <<buf, remote, open, written, pending, firing, dirty, sent, dead, async, mode, seen, bare, excused, writes, ops, reads>>
        /\ mode # "done" /\ cur = << >> /\ queue # << >> /\ cur' = <<Head(queue)>> /\ queue' = Tail(queue)
    BY DEF UploadTake, upVars, cacheVars, ghosts, bounds, logVars
  <1>2. sent = Absent
    BY <1>1 DEF ReplayInv
  <1>3. /\ Head(queue) \in Entries /\ Tail(queue) \in Seq(Entries)
        /\ \A r : Count(queue, r) = Count(<<Head(queue)>>, r) + Count(Tail(queue), r)
    BY <1>1, CountTail DEF FuseTypeOK
  <1>4. FuseTypeOK'
    BY <1>1, <1>3 DEF FuseTypeOK
  <1>5. /\ \A i \in Places' : i + 1 \in Places /\ OpAt(i)' = OpAt(i + 1)
        /\ \A p : Silent(p) => Silent(p)'
        /\ \A p, v : Final(p, v) => Final(p, v)'
        /\ \A p : PutComes(p) => PutComes(p)'
    BY <1>1, LogTake
  <1>6. ReplayInv' /\ SentInv'
    BY <1>1, <1>2, <1>3 DEF ReplayInv, SentInv
  <1>7. EntryInv'
    BY <1>1, <1>5 DEF EntryInv, PlainEntry
  <1>8. DirtyBalanced'
    <2> SUFFICES ASSUME NEW r \in Files
                 PROVE  dirty'[r] = One(r \in pending') + One(r \in firing') + Count(queue', r)
                                    + Count(cur', r) + Count(dead', r)
      BY DEF DirtyBalanced, Count
    <2>1. Count(queue, r) = Count(cur', r) + Count(queue', r) /\ Count(cur, r) = 0 /\ UNCHANGED dead
      BY <1>1, <1>3, CountFew
    <2>2. Count(cur', r) \in Nat /\ Count(queue', r) \in Nat
      BY <1>4, CountFacts DEF FuseTypeOK
    <2> QED BY <1>1, <2>1, <2>2, Balance, CountsNat DEF One
  <1>9. CloseInv' /\ BufferInv'
    BY <1>1 DEF CloseInv, BufferInv
  <1>10. LandInv'
    <2> SUFFICES ASSUME NEW r \in Files, r \notin (excused \cup bare)'
                 PROVE  (Landed(r) \/ Owed(r))'
      BY DEF LandInv
    <2> QED BY <1>1, <1>5, LandKept
  <1> QED BY <1>4, <1>6, <1>7, <1>8, <1>9, <1>10 DEF FuseInv

LEMMA UploadPutStep ==
  ASSUME FuseInv, UploadPut
  PROVE  FuseInv'
  <1> USE InvFacts
  <1> DEFINE p == Cur.p
  <1>1. /\ UNCHANGED <<buf, open, written, pending, firing, queue, dirty, cur, dead, async, mode, seen, bare, excused, writes, ops, reads>>
        /\ cur # << >> /\ Cur.op = "put" /\ sent = Absent /\ buf[p] \in Nat
        /\ remote' = [remote EXCEPT ![p] = buf[p]] /\ sent' = buf[p]
    BY DEF UploadPut, IsFile, upVars, cacheVars, ghosts, bounds, logVars
  <1>2. Cur \in Entries /\ p \in Files /\ UNCHANGED Cur /\ 0 \in Places /\ OpAt(0) = Cur
    BY <1>1, PlaceFacts DEF Entries, Cur
  <1>3. FuseTypeOK'
    <2>1. remote' \in [Files -> Nat \cup {Absent, Link}]
      BY <1>1, <1>2 DEF FuseTypeOK
    <2> QED BY <1>1, <2>1 DEF FuseTypeOK
  <1>4. /\ Places' = Places /\ \A i : OpAt(i)' = OpAt(i)
        /\ \A r : Silent(r) => Silent(r)'
        /\ \A r, v : Final(r, v) => Final(r, v)'
        /\ \A r : r # p => (PutComes(r) => PutComes(r)')
    BY <1>1, LogSent
  <1>5. ReplayInv' /\ SentInv' /\ EntryInv'
    BY <1>1, <1>2, <1>4 DEF ReplayInv, SentInv, EntryInv, PlainEntry, FuseTypeOK
  <1>6. DirtyBalanced'
    BY <1>1 DEF DirtyBalanced, Count, One
  <1>7. CloseInv' /\ BufferInv'
    BY <1>1, <1>4 DEF CloseInv, BufferInv
  <1>8. LandInv'
    <2> SUFFICES ASSUME NEW r \in Files, r \notin (excused \cup bare)'
                 PROVE  (Landed(r) \/ Owed(r))'
      BY DEF LandInv
    <2>1. CASE r # p
      <3>1. remote'[r] = remote[r]
        BY <1>1, <2>1 DEF FuseTypeOK
      <3> QED BY <1>1, <1>4, <2>1, <3>1, LandKept
    <2>2. CASE r = p
      <3>1. buf[p] = seen[p] /\ remote'[p] = buf[p] /\ seen'[p] = seen[p]
        BY <1>1, <1>2, <2>2, FuseAssumption DEF BufferInv, FuseTypeOK
      <3>2. Silent(p) \/ Final(p, seen[p]) \/ p \in written \cup pending \cup firing \/ PutComes(p)
        BY <1>1, <1>2, <2>2 DEF LandInv, Landed, Owed
      <3>3. CASE Silent(p)
        BY <1>4, <2>2, <3>1, <3>3 DEF Landed
      <3>4. CASE Final(p, seen[p])
        BY <1>4, <2>2, <3>1, <3>4 DEF Landed
      <3>5. CASE p \in written \cup pending \cup firing
        BY <1>1, <2>2, <3>1, <3>5 DEF Owed, IsFile
      <3>6. CASE PutComes(p)
        <4>1. PICK i \in Places : WillPut(i, p) /\ LastWord(i, p)
          BY <3>6 DEF PutComes
        <4>2. CASE i # 0
          <5>1. WillPut(i, p)' /\ LastWord(i, p)' /\ i \in Places'
            BY <1>1, <1>2, <1>4, <4>1, <4>2 DEF WillPut, LastWord, Ends
          <5>2. PutComes(r)'
            BY <1>2, <2>2, <5>1 DEF PutComes
          <5> QED BY <1>1, <1>2, <2>2, <3>1, <5>2 DEF Owed, IsFile
        <4>3. CASE i = 0
          <5>1. ~Ends(0, p)
            BY <1>1, <1>2 DEF Ends
          <5>2. Silent(p)
            BY <4>1, <4>3, <5>1, PlaceFacts DEF LastWord, Silent
          <5> QED BY <1>4, <2>2, <3>1, <5>2 DEF Landed
        <4> QED BY <4>2, <4>3
      <3> QED BY <3>2, <3>3, <3>4, <3>5, <3>6
    <2> QED BY <2>1, <2>2
  <1> QED BY <1>3, <1>5, <1>6, <1>7, <1>8 DEF FuseInv

LEMMA UploadSkipStep ==
  ASSUME FuseInv, UploadSkip
  PROVE  FuseInv'
  <1> USE InvFacts
  <1>1. /\ UNCHANGED <<buf, remote, excused, open, written, pending, firing, queue, async, mode, seen, bare, writes, ops, reads>>
        /\ cur # << >> /\ Cur.op = "put" /\ sent = Absent /\ buf[Cur.p] \in {Absent, Link} /\ Replayed(TRUE)
    BY DEF UploadSkip, upVars, cacheVars, ghosts, bounds, logVars
  <1>2. /\ ReplayInv' /\ EntryInv' /\ DirtyBalanced' /\ SentInv'
        /\ cur' \in Seq(Entries) /\ dead' \in Seq(Entries) /\ dirty' \in [Files -> Nat]
        /\ mode # "done"
        /\ \A r : Silent(r) => Silent(r)'
        /\ \A r, v : Final(r, v) => Final(r, v)' \/ (Silent(r)' /\ Ends(0, r) /\ v = Leaves(Cur))
        /\ \A r : PutComes(r) => PutComes(r)' \/ (Silent(r)' /\ WillPut(0, r))
    BY <1>1, FinishStep
  <1>3. Cur \in Entries /\ Cur.p \in Files /\ OpAt(0) = Cur /\ 0 \in Places
    BY <1>1, PlaceFacts DEF Entries
  <1>4. FuseTypeOK'
    BY <1>1, <1>2 DEF FuseTypeOK
  <1>5. CloseInv' /\ BufferInv'
    BY <1>1, <1>2 DEF CloseInv, BufferInv
  <1>6. LandInv'
    <2> SUFFICES ASSUME NEW r \in Files, r \notin (excused \cup bare)'
                 PROVE  (Landed(r) \/ Owed(r))'
      BY DEF LandInv
    <2>1. ~Ends(0, r)
      BY <1>1, <1>3 DEF Ends
    <2>2. CASE Owed(r)
      <3>1. r # Cur.p
        BY <1>1, <2>2, FuseAssumption DEF Owed, IsFile
      <3>2. ~WillPut(0, r)
        BY <1>3, <3>1 DEF WillPut
      <3> QED BY <1>1, <1>2, <2>2, <3>2 DEF Owed
    <2>3. CASE Landed(r)
      BY <1>1, <1>2, <2>1, <2>3 DEF Landed
    <2> QED BY <1>1, <2>2, <2>3 DEF LandInv
  <1> QED BY <1>2, <1>4, <1>5, <1>6 DEF FuseInv

LEMMA UploadFailStep ==
  ASSUME FuseInv, UploadFail
  PROVE  FuseInv'
  <1> USE InvFacts
  <1>1. /\ UNCHANGED <<buf, remote, open, written, pending, firing, queue, async, mode, seen, bare, writes, ops, reads>>
        /\ cur # << >> /\ excused' = excused \cup Names(Cur) /\ Replayed(FALSE)
    BY DEF UploadFail, upVars, cacheVars, ghosts, bounds, logVars
  <1>2. /\ ReplayInv' /\ EntryInv' /\ DirtyBalanced' /\ SentInv'
        /\ cur' \in Seq(Entries) /\ dead' \in Seq(Entries) /\ dirty' \in [Files -> Nat]
        /\ mode # "done"
        /\ \A r : Silent(r) => Silent(r)'
        /\ \A r, v : Final(r, v) => Final(r, v)' \/ (Silent(r)' /\ Ends(0, r) /\ v = Leaves(Cur))
        /\ \A r : PutComes(r) => PutComes(r)' \/ (Silent(r)' /\ WillPut(0, r))
    BY <1>1, FinishStep
  <1>3. Cur \in Entries /\ Cur.p \in Files /\ OpAt(0) = Cur /\ 0 \in Places
    BY <1>1, PlaceFacts DEF Entries
  <1>4. FuseTypeOK'
    BY <1>1, <1>2, <1>3 DEF FuseTypeOK, Names, Entries
  <1>5. CloseInv' /\ BufferInv'
    BY <1>1, <1>2 DEF CloseInv, BufferInv
  <1>6. LandInv'
    <2> SUFFICES ASSUME NEW r \in Files, r \notin (excused \cup bare)'
                 PROVE  (Landed(r) \/ Owed(r))'
      BY DEF LandInv
    <2>1. Cur.p # r
      BY <1>1, <1>3 DEF Names
    <2>2. ~Ends(0, r) /\ ~WillPut(0, r)
      BY <1>3, <2>1 DEF Ends, WillPut
    <2> QED BY <1>1, <1>2, <2>2, LandKept
  <1> QED BY <1>2, <1>4, <1>5, <1>6 DEF FuseInv

LEMMA UploadOtherStep ==
  ASSUME FuseInv, UploadOther
  PROVE  FuseInv'
  <1> USE InvFacts
  <1>1. /\ UNCHANGED <<buf, excused, open, written, pending, firing, queue, async, mode, seen, bare, writes, ops, reads>>
        /\ cur # << >> /\ Replayed(TRUE)
        /\ \/ Cur.op = "del" /\ remote' = [remote EXCEPT ![Cur.p] = Absent]
           \/ Cur.op = "move" /\ remote' = [remote EXCEPT ![Cur.q] = remote[Cur.p], ![Cur.p] = Absent]
           \/ Cur.op = "link" /\ remote' = [remote EXCEPT ![Cur.p] = Link]
    BY DEF UploadOther, upVars, cacheVars, ghosts, bounds, logVars
  <1>2. /\ ReplayInv' /\ EntryInv' /\ DirtyBalanced' /\ SentInv'
        /\ cur' \in Seq(Entries) /\ dead' \in Seq(Entries) /\ dirty' \in [Files -> Nat]
        /\ mode # "done"
        /\ \A r : Silent(r) => Silent(r)'
        /\ \A r, v : Final(r, v) => Final(r, v)' \/ (Silent(r)' /\ Ends(0, r) /\ v = Leaves(Cur))
        /\ \A r : PutComes(r) => PutComes(r)' \/ (Silent(r)' /\ WillPut(0, r))
    BY <1>1, FinishStep
  <1>3. Cur \in Entries /\ Cur.p \in Files /\ OpAt(0) = Cur /\ 0 \in Places
    BY <1>1, PlaceFacts DEF Entries
  <1>a. Cur.q \in Files
    BY <1>3 DEF Entries
  <1>4. FuseTypeOK'
    <2>1. remote' \in [Files -> Nat \cup {Absent, Link}]
      <3>1. remote \in [Files -> Nat \cup {Absent, Link}] /\ Cur.p \in Files /\ Cur.q \in Files
        BY <1>3, <1>a DEF FuseTypeOK
      <3>2. CASE remote' = [remote EXCEPT ![Cur.q] = remote[Cur.p], ![Cur.p] = Absent]
        BY <3>1, <3>2
      <3>3. CASE remote' = [remote EXCEPT ![Cur.p] = Absent] \/ remote' = [remote EXCEPT ![Cur.p] = Link]
        BY <3>1, <3>3
      <3> QED BY <1>1, <3>2, <3>3
    <2> QED BY <1>1, <1>2, <2>1 DEF FuseTypeOK
  <1>5. CloseInv' /\ BufferInv'
    BY <1>1, <1>2 DEF CloseInv, BufferInv
  <1>6. LandInv'
    <2> SUFFICES ASSUME NEW r \in Files, r \notin (excused \cup bare)'
                 PROVE  (Landed(r) \/ Owed(r))'
      BY DEF LandInv
    <2>1. ~WillPut(0, r)
      BY <1>1, <1>3 DEF WillPut
    <2>2. r \notin excused \cup bare /\ (Landed(r) \/ Owed(r))
      BY <1>1 DEF LandInv
    <2>3. CASE Owed(r)
      BY <1>1, <1>2, <2>1, <2>3 DEF Owed
    <2>4. CASE Ends(0, r) /\ ~Owed(r)
      <3>1. ~Silent(r)
        BY <1>3, <2>4 DEF Silent
      <3>2. Final(r, seen[r])
        BY <2>2, <2>4, <3>1 DEF Landed
      <3>3. r = Cur.p /\ remote'[r] = Leaves(Cur)
        BY <1>1, <1>3, <2>4 DEF Ends, Leaves, FuseTypeOK
      <3> QED BY <1>1, <1>2, <3>2, <3>3 DEF Landed
    <2>5. CASE ~Ends(0, r) /\ ~Owed(r)
      <3>1. remote'[r] = remote[r]
        <4>1. CASE Cur.op = "move"
          <5>1. Cur.p \in excused /\ Cur.q \in excused
            BY <1>3, <4>1 DEF EntryInv, PlainEntry, Names
          <5> QED BY <1>1, <2>2, <4>1, <5>1 DEF FuseTypeOK
        <4>2. CASE Cur.op # "move"
          BY <1>1, <1>3, <2>5, <4>2 DEF Ends, FuseTypeOK
        <4> QED BY <4>1, <4>2
      <3> QED BY <1>1, <1>2, <2>2, <2>5, <3>1 DEF Landed
    <2> QED BY <2>3, <2>4, <2>5
  <1> QED BY <1>2, <1>4, <1>5, <1>6 DEF FuseInv

LEMMA UploadEvictStep ==
  ASSUME FuseInv, UploadEvict
  PROVE  FuseInv'
  <1> USE InvFacts
  <1> DEFINE p == Cur.p
  <1>1. /\ UNCHANGED <<remote, open, written, pending, firing, queue, async, mode, seen, bare, writes, ops, reads>>
        /\ cur # << >> /\ sent # Absent /\ Cur.op = "put" /\ Replayed(TRUE)
        /\ buf' = IF async THEN buf ELSE [buf EXCEPT ![p] = Absent]
        /\ excused' = IF ~async /\ (buf[p] # sent \/ p \in QueueNames) THEN excused \cup {p} ELSE excused
        /\ excused \subseteq excused'
    BY DEF UploadEvict, ReplayInv, upVars, cacheVars, ghosts, bounds, logVars
  <1>2. /\ ReplayInv' /\ EntryInv' /\ DirtyBalanced' /\ SentInv'
        /\ cur' \in Seq(Entries) /\ dead' \in Seq(Entries) /\ dirty' \in [Files -> Nat]
        /\ mode # "done"
        /\ \A r : Silent(r) => Silent(r)'
        /\ \A r, v : Final(r, v) => Final(r, v)' \/ (Silent(r)' /\ Ends(0, r) /\ v = Leaves(Cur))
        /\ \A r : PutComes(r) => PutComes(r)' \/ (Silent(r)' /\ WillPut(0, r))
    BY <1>1, FinishStep
  <1>3. Cur \in Entries /\ Cur.p \in Files /\ OpAt(0) = Cur /\ 0 \in Places
    BY <1>1, PlaceFacts DEF Entries
  <1>4. FuseTypeOK'
    <2>1. buf' \in [Files -> Nat \cup {Absent, Dir, Link}] /\ excused' \subseteq Files
      BY <1>1, <1>3 DEF FuseTypeOK
    <2> QED BY <1>1, <1>2, <2>1 DEF FuseTypeOK
  <1>5. CloseInv' /\ BufferInv'
    <2>1. CloseInv'
      BY <1>1, <1>2 DEF CloseInv
    <2>2. BufferInv'
      BY <1>1, <1>3 DEF BufferInv, FuseTypeOK
    <2> QED BY <2>1, <2>2
  <1>6. LandInv'
    <2> SUFFICES ASSUME NEW r \in Files, r \notin (excused \cup bare)'
                 PROVE  (Landed(r) \/ Owed(r))'
      BY DEF LandInv
    <2>1. ~WillPut(0, r) /\ ~Ends(0, r)
      BY <1>1, <1>3 DEF WillPut, Ends
    <2>2. r \notin excused \cup bare
      BY <1>1
    <2>3. CASE buf'[r] = buf[r]
      BY <1>1, <1>2, <2>1, <2>2, <2>3, LandKept
    <2>4. CASE buf'[r] # buf[r]
      <3>1. r = p /\ buf[p] = sent /\ p \notin QueueNames /\ remote[p] = sent
        BY <1>1, <1>3, <2>2, <2>4 DEF FuseTypeOK, SentInv
      <3>2. ASSUME NEW i \in Places, Ends(i, p) PROVE FALSE
        <4>1. i # 0
          BY <2>1, <3>1, <3>2
        <4>2. i \in DOMAIN queue /\ p \in Names(queue[i])
          BY <3>2, <4>1, PlaceFacts DEF Ends, FuseTypeOK
        <4> QED BY <3>1, <4>2 DEF QueueNames
      <3>3. Silent(p)
        BY <3>2 DEF Silent
      <3>4. seen[p] = sent
        <4>1. buf[p] \in {Absent, seen[p]}
          BY <1>3, <2>2, <3>1 DEF BufferInv
        <4> QED BY <1>1, <3>1, <4>1
      <3> QED BY <1>1, <1>2, <3>1, <3>3, <3>4 DEF Landed
    <2> QED BY <2>3, <2>4
  <1> QED BY <1>2, <1>4, <1>5, <1>6 DEF FuseInv

LEMMA CancelStep ==
  ASSUME FuseInv, Cancel
  PROVE  FuseInv'
  <1> USE InvFacts
  <1> DEFINE parked == {Entry("put", x, x) : x \in pending}
  <1>1. PICK s \in Bijection(1..Cardinality(parked), parked) : queue' = s \o queue
    BY DEF Cancel
  <1>2. /\ UNCHANGED <<buf, remote, written, firing, dirty, cur, sent, dead, async, seen, bare, writes, ops, reads>>
        /\ mode = "serving" /\ mode' = "draining" /\ pending' = {} /\ open' = {}
        /\ excused' = excused \cup open \cup (pending \cap QueueNames)
    BY DEF Cancel, upVars, cacheVars, ghosts, bounds, logVars
  <1>3. pending \in SUBSET Files
    BY DEF FuseTypeOK
  <1>4. /\ s \in Seq(Entries)
        /\ \A i \in 1..Len(s) : \E x \in pending : s[i] = Entry("put", x, x)
        /\ \A x \in pending : \E i \in 1..Len(s) : s[i] = Entry("put", x, x)
        /\ \A r \in Files : Count(s, r) = One(r \in pending)
    BY <1>1, <1>3, ParkedPuts
  <1> HIDE DEF parked
  <1>5. /\ \A i \in Places' : \/ \E j \in Places : OpAt(i)' = OpAt(j)
                              \/ \E x \in pending : OpAt(i)' = Entry("put", x, x)
        /\ \A r : Silent(r) => Silent(r)'
        /\ \A r, v : Final(r, v) => Final(r, v)'
        /\ \A r : PutComes(r) => PutComes(r)'
        /\ \A r \in pending : r \notin QueueNames => PutComes(r)'
    BY <1>1, <1>2, <1>3, <1>4, LogPrepend
  <1>6. FuseTypeOK'
    <2>1. queue' \in Seq(Entries)
      BY <1>1, <1>4 DEF FuseTypeOK
    <2>2. excused' \subseteq Files
      BY <1>2 DEF FuseTypeOK
    <2> QED BY <1>2, <2>1, <2>2 DEF FuseTypeOK
  <1>7. ReplayInv' /\ SentInv'
    BY <1>2 DEF ReplayInv, SentInv, Cur
  <1>8. EntryInv'
    <2>1. \A x \in pending : Entry("put", x, x).op = "put" /\ Entry("put", x, x).p = Entry("put", x, x).q
      BY <1>3, PutFacts
    <2> QED BY <1>2, <1>5, <2>1 DEF EntryInv, PlainEntry
  <1>9. DirtyBalanced'
    <2> SUFFICES ASSUME NEW r \in Files
                 PROVE  dirty'[r] = One(r \in pending') + One(r \in firing') + Count(queue', r)
                                    + Count(cur', r) + Count(dead', r)
      BY DEF DirtyBalanced, Count
    <2>1. Count(queue', r) = Count(s, r) + Count(queue, r)
      BY <1>1, <1>4, CountConcat DEF FuseTypeOK
    <2>2. Count(s, r) = IF r \in pending THEN 1 ELSE 0
      BY <1>4 DEF One
    <2> QED BY <1>2, <2>1, <2>2, Balance, CountsNat DEF One
  <1>10. CloseInv' /\ BufferInv'
    BY <1>2 DEF CloseInv, BufferInv
  <1>11. LandInv'
    <2> SUFFICES ASSUME NEW r \in Files, r \notin (excused \cup bare)'
                 PROVE  (Landed(r) \/ Owed(r))'
      BY DEF LandInv
    <2>1. r \notin excused \cup bare /\ (r \in pending => r \notin QueueNames)
      BY <1>2
    <2> QED BY <1>2, <1>5, <2>1, LandKept
  <1> QED BY <1>6, <1>7, <1>8, <1>9, <1>10, <1>11 DEF FuseInv

-----------------------------------------------------------------------------
LEMMA FuseInitInv ==
  ASSUME FuseInit
  PROVE  FuseInv
  <1> USE DEF FuseInit
  <1>1. FuseTypeOK
    BY FuseAssumption DEF FuseTypeOK
  <1>2. Places = {}
    BY DEF Places
  <1>3. DirtyBalanced
    <2>1. ASSUME NEW p \in Files PROVE Count(<< >>, p) = 0
      BY <2>1, PutFacts, CountFew
    <2> QED BY <2>1 DEF DirtyBalanced, One
  <1>4. ReplayInv /\ EntryInv /\ CloseInv /\ SentInv /\ BufferInv
    BY <1>2 DEF ReplayInv, EntryInv, CloseInv, SentInv, BufferInv
  <1>5. LandInv
    BY <1>2 DEF LandInv, Landed, Silent
  <1> QED BY <1>1, <1>3, <1>4, <1>5 DEF FuseInv

\* Only Open and the two steps of a fetch change what is being fetched.
LEMMA FetchStepInv ==
  ASSUME FuseInv, FetchInv, [FuseNext]_fsVars
  PROVE  FetchInv'
  <1>1. CASE UNCHANGED fetches
    BY <1>1 DEF FetchInv
  <1>2. ASSUME NEW p \in Files, NEW t \in BOOLEAN, Open(p, t) PROVE FetchInv'
    BY <1>2 DEF Open, FetchInv
  <1>3. ASSUME NEW f \in fetches, Fetch(f) PROVE FetchInv'
    <2>1. f \in [p : Files, trunc : BOOLEAN, got : Nat \cup {Miss}]
      BY DEF FetchInv
    <2>2. IsFile(remote[f.p]) => [f EXCEPT !.got = IF f.trunc THEN 0 ELSE remote[f.p]]
                                   \in [p : Files, trunc : BOOLEAN, got : Nat \cup {Miss}]
      BY <2>1 DEF IsFile
    <2> QED BY <1>3, <2>2 DEF Fetch, FetchInv
  <1>4. ASSUME NEW f \in fetches, FetchLand(f) PROVE FetchInv'
    BY <1>4 DEF FetchLand, FetchInv
  <1>5. ASSUME NEW p \in Files, Handler(p) PROVE UNCHANGED fetches \/ \E t \in BOOLEAN : Open(p, t)
    BY <1>5 DEF Handler, Lookup, Attr, Create, Write, Truncate, Remove, Mkdir, Symlink, Readlink, Flush,
                Rename, RenameFails, handlerRest, cacheVars
  <1>6. ASSUME NEW p \in Files, FireTake(p) \/ FireSend(p) \/ RefreshDone(p) PROVE UNCHANGED fetches
    BY <1>6 DEF FireTake, FireSend, RefreshDone, cacheVars
  <1>7. CASE ReadDirAll \/ Uploader \/ Cancel \/ DrainDone \/ DrainTimeout
    BY <1>1, <1>7 DEF ReadDirAll, Uploader, UploadTake, UploadSkip, UploadPut, UploadEvict, UploadOther,
                      UploadFail, Cancel, DrainDone, DrainTimeout, cacheVars
  <1>8. CASE UNCHANGED fsVars
    BY <1>1, <1>8 DEF fsVars
  <1> QED BY <1>1, <1>2, <1>3, <1>4, <1>5, <1>6, <1>7, <1>8 DEF FuseNext

LEMMA FuseStepInv ==
  ASSUME FuseInv, FetchInv, [FuseNext]_fsVars
  PROVE  FuseInv'
  <1> USE InvFacts
  <1>1. CASE UNCHANGED fsVars
    BY <1>1, CacheStep DEF fsVars, FuseTypeOK
  <1>2. ASSUME NEW p \in Files, Handler(p) PROVE FuseInv'
    <2>1. CASE Lookup(p)
      BY <2>1, CacheStep DEF Lookup, Reading, readRest, upVars, cacheVars, ghosts, bounds, logVars, FuseTypeOK
    <2>2. CASE Attr(p)
      BY <2>2, CacheStep DEF Attr, Reading, readRest, upVars, cacheVars, ghosts, bounds, logVars, FuseTypeOK
    <2>3. CASE Create(p) \/ Write(p) \/ Truncate(p) \/ Mkdir(p) \/ Symlink(p) \/ Readlink(p)
      BY <2>3, CreateStep, WriteStep, TruncateStep, MkdirStep, SymlinkStep, ReadlinkStep
    <2>4. CASE Remove(p)
      BY <2>4, RemoveCleanStep, RemoveDirtyStep
    <2>5. CASE \E t \in BOOLEAN : Open(p, t) \/ Flush(p, t)
      BY <2>5, OpenStep, FlushStep
    <2>6. CASE \E q \in Files : Rename(p, q) \/ RenameFails(p, q)
      BY <2>6, RenameCleanStep, RenameMoveStep, RenameRedirectStep, RenameFailsStep
    <2> QED BY <1>2, <2>1, <2>2, <2>3, <2>4, <2>5, <2>6 DEF Handler
  <1>3. ASSUME NEW p \in Files, RefreshDone(p) PROVE FuseInv'
    BY <1>3, CacheStep DEF RefreshDone, readRest, upVars, cacheVars, ghosts, bounds, logVars, FuseTypeOK
  <1>4. CASE ReadDirAll
    BY <1>4, CacheStep DEF ReadDirAll, Reading, readRest, upVars, cacheVars, ghosts, bounds, logVars, FuseTypeOK
  <1>5. CASE Uploader
    BY <1>5, UploadTakeStep, UploadSkipStep, UploadPutStep, UploadEvictStep, UploadOtherStep,
       UploadFailStep DEF Uploader
  <1>6. CASE (\E p \in Files : FireTake(p) \/ FireSend(p)) \/ Cancel \/ DrainDone \/ DrainTimeout
    BY <1>6, FireTakeStep, FireSendStep, CancelStep, DrainDoneStep, DrainTimeoutStep
  <1>7. CASE \E f \in fetches : Fetch(f) \/ FetchLand(f)
    BY <1>7, FetchStep, FetchLandStep
  <1> QED BY <1>1, <1>2, <1>3, <1>4, <1>5, <1>6, <1>7 DEF FuseNext

\* The inductive invariant of the mount holds in every reachable state.
THEOREM FuseInvariance == FuseSpec => [](FuseInv /\ FetchInv)
  <1>1. FuseInit => FuseInv /\ FetchInv
    BY FuseInitInv DEF FuseInit, FetchInv
  <1>2. FuseInv /\ FetchInv /\ [FuseNext]_fsVars => FuseInv' /\ FetchInv'
    BY FuseStepInv, FetchStepInv
  <1> QED BY <1>1, <1>2, PTL DEF FuseSpec

\* Buffer, store, log and history keep their types.
THEOREM FuseTypeCorrect == FuseSpec => []FuseTypeOK
  <1>1. FuseInv => FuseTypeOK
    BY DEF FuseInv
  <1> QED BY <1>1, FuseInvariance, PTL

\* The dirty count of a path is the number of its operations that are parked,
\* on their way to the queue, queued, in flight or dead (markDirty, markClean,
\* the coalescing window and the redirect of a parked put).
THEOREM DirtyBalancedHolds == FuseSpec => []DirtyBalanced
  <1>1. FuseInv => DirtyBalanced
    BY DEF FuseInv
  <1> QED BY <1>1, FuseInvariance, PTL

\* A path with no operation outstanding and no unflushed write is at the store
\* as the agent left it, unless it was never written since it was made or met a
\* race recorded in excused.
THEOREM UploadsLandHolds == FuseSpec => []UploadsLand
  <1>1. FuseInv => UploadsLand
    <2> SUFFICES ASSUME FuseInv, NEW p \in Files, dirty[p] = 0, p \notin written \cup bare \cup excused
                 PROVE  remote[p] = seen[p]
      BY DEF UploadsLand
    <2> QED BY CleanLanded DEF IsDirty
  <1> QED BY <1>1, FuseInvariance, PTL

\* When the drain of an unmount is over nothing that was closed before it is
\* owed to the store.
THEOREM DrainedMeansStoredHolds == FuseSpec => []DrainedMeansStored
  <1>1. FuseInv => DrainedMeansStored
    <2> SUFFICES ASSUME FuseInv, mode = "done", NEW p \in Files, p \notin bare \cup excused
                 PROVE  remote[p] = seen[p]
      BY DEF DrainedMeansStored
    <2> USE InvFacts
    <2>1. p \notin written \cup pending \cup firing
      BY DEF CloseInv
    <2>2. \A i \in Places : OpAt(i).p # p
      BY DEF CloseInv
    <2>3. ~PutComes(p) /\ ~Final(p, seen[p])
      BY <2>2 DEF PutComes, Final, WillPut, Ends
    <2> QED BY <2>1, <2>3 DEF LandInv, Landed, Owed
  <1> QED BY <1>1, FuseInvariance, PTL

=============================================================================

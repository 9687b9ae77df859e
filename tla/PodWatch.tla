------------------------------ MODULE PodWatch ------------------------------
(* How the controller learns of the sandboxes inside a pack pod: the pod's   *)
(* lifecycle broker (sandboxd/lifecycle.go), its GET /v1/events stream       *)
(* (handlers.StreamPodEvents) and the controller's reader of it              *)
(* (docker_runtime.go: eventsPacked, streamPodEvents, readPodEventStream;    *)
(* k8s_runtime.go runs the same reader over its cached pod list).            *)
(*                                                                           *)
(* One pod is followed: streams of different pods share nothing but the      *)
(* output channel. A consumer keeps, per key, the last status it was sent.   *)
EXTENDS Naturals, Sequences, FiniteSets, Functions

CONSTANTS
  PodKeys,   \* the keys of the sandboxes the pod may run
  ChanCap,   \* size of a subscriber's channel, 64 in lifecycle.go
  WireCap, OutCap, MaxCreates, MaxDrops

ASSUME WatchAssumption ==
  /\ IsFiniteSet(PodKeys)
  /\ {ChanCap, WireCap, OutCap} \subseteq Nat \ {0}
  /\ {MaxCreates, MaxDrops} \subseteq Nat

VARIABLES
  alive, reachable,  \* the pod's process; the network to it
  sb,        \* supervisor.sandboxes: key -> status, or "none"
  creator,   \* createPacked's progress for the key
  teardown,  \* the teardown goroutine's progress
  owes,      \* transitions that goroutines of sandboxes already unlisted have yet to publish
  sub,       \* the events handler: "none", "subscribed", "streaming"
  ch,        \* its subscriber channel
  wire,      \* what it has written and the reader has not scanned
  pc,        \* streamPodEvents: where the goroutine is
  hosted, pending, down,  \* its locals
  listed,    \* the pod is in the list of running pods last read
  followed,  \* the pod is in eventsPacked's conns
  old,       \* streamPodEvents goroutines cancelled with errPackPodGone: [pending, hosted]
  out,       \* the events channel
  view,      \* the consumer's last status per key
  astray,    \* history: keys whose last transition the reader was never sent
  lost,      \* history: keys whose Destroy was abandoned half way
  left, creates, drops

pod == <<alive, reachable, sb, creator, teardown, owes>>
server == <<sub, ch, wire>>
reader == <<pc, hosted, pending, down>>
bounds == <<creates, drops>>
watchVars == <<pod, server, reader, listed, followed, old, out, view, astray, lost, left, bounds>>

\* What is published after the sandbox may have been unlisted.
Late == {"running", "stopped"}
Ups == {"starting", "running"}

WatchInit ==
  /\ alive = TRUE /\ reachable = TRUE
  /\ sb = [k \in PodKeys |-> "none"]
  /\ creator = [k \in PodKeys |-> "idle"] /\ teardown = [k \in PodKeys |-> "idle"]
  /\ owes = [k \in PodKeys |-> [s \in Late |-> 0]]
  /\ sub = "none" /\ ch = <<>> /\ wire = <<>>
  /\ pc = "none" /\ hosted = {} /\ pending = <<>> /\ down = FALSE
  /\ listed = FALSE /\ followed = FALSE /\ old = <<>>
  /\ out = <<>> /\ view = [k \in PodKeys |-> "none"]
  /\ astray = {} /\ lost = {}
  /\ left = FALSE /\ creates = 0 /\ drops = 0

MapPodStatus_NoRunning(s) ==
  CASE s = "starting" -> "start" [] s = "running" -> "unknown"
    [] s = "stopping" -> "stop"  [] s = "stopped" -> "destroy"

(* mapPodStatus *)
MapPodStatus(s) ==
  CASE s \in {"starting", "running"} -> "start"
    [] s = "stopping" -> "stop"
    [] s = "stopped" -> "destroy"

\* What a pod reports of a sandbox, and what the controller sends on.
Statuses == {"starting", "running", "stopping", "stopped"}
Actions == {"start", "stop", "destroy"}

KeysOf(q) == {q[i][1] : i \in DOMAIN q}

\* The keys of what the stream has not sent on yet.
UnderWay == KeysOf(ch) \cup KeysOf(wire) \cup (IF pending = <<>> THEN {} ELSE {pending[1]})

-----------------------------------------------------------------------------
(* The pod. *)

(* lifecycleBroker.publish: a full channel drops the transition. A transition *)
(* that nobody is subscribed to, or that is not true of the sandbox the key   *)
(* has by then, leaves the reader astray.                                     *)
Publish(k, s) ==
  IF sub # "none" /\ Len(ch) < ChanCap
    THEN /\ ch' = Append(ch, <<k, s>>)
         /\ astray' = IF s \in Ups <=> sb[k] \in Ups THEN astray \ {k} ELSE astray \cup {k}
    ELSE /\ astray' = astray \cup {k}
         /\ UNCHANGED ch

(* Once the consumer has left, what the pod does is nobody's concern. *)
Up == alive /\ ~left

CreatePacked(k) ==
  /\ Up /\ sb[k] = "none"
  /\ creates < MaxCreates /\ creates' = creates + 1
  /\ sb' = [sb EXCEPT ![k] = "starting"]
  /\ creator' = [creator EXCEPT ![k] = "starting"]
  /\ UNCHANGED <<alive, reachable, teardown, owes, server, reader, listed, followed, old, out, view,
                 astray, lost, left, drops>>

PublishStarting(k) ==
  /\ Up /\ creator[k] = "starting"
  /\ Publish(k, "starting")
  /\ creator' = [creator EXCEPT ![k] = "booting"]
  /\ UNCHANGED <<alive, reachable, sb, teardown, owes, sub, wire, reader, listed, followed, old, out, view,
                 lost, left, bounds>>

(* SetStarted: Status reports stopping first. *)
Ready(k) ==
  /\ Up /\ creator[k] = "booting"
  /\ sb' = IF sb[k] = "starting" THEN [sb EXCEPT ![k] = "running"] ELSE sb
  /\ creator' = [creator EXCEPT ![k] = "ready"]
  /\ UNCHANGED <<alive, reachable, teardown, owes, server, reader, listed, followed, old, out, view,
                 astray, lost, left, bounds>>

PublishRunning(k) ==
  /\ Up /\ creator[k] = "ready"
  /\ Publish(k, "running")
  /\ creator' = [creator EXCEPT ![k] = "idle"]
  /\ UNCHANGED <<alive, reachable, sb, teardown, owes, sub, wire, reader, listed, followed, old, out, view,
                 lost, left, bounds>>

(* A delete, an expiry, a workload that exits, or a boot that fails. *)
Stop(k) ==
  /\ Up /\ sb[k] \in {"starting", "running"} /\ creator[k] # "starting"
  /\ sb' = [sb EXCEPT ![k] = "stopping"]
  /\ teardown' = [teardown EXCEPT ![k] = "stopping"]
  /\ creator' \in {creator, [creator EXCEPT ![k] = IF @ = "booting" THEN "idle" ELSE @]}
  /\ UNCHANGED <<alive, reachable, owes, server, reader, listed, followed, old, out, view,
                 astray, lost, left, bounds>>

PublishStopping(k) ==
  /\ Up /\ teardown[k] = "stopping"
  /\ Publish(k, "stopping")
  /\ teardown' = [teardown EXCEPT ![k] = "freeing"]
  /\ UNCHANGED <<alive, reachable, sb, creator, owes, sub, wire, reader, listed, followed, old, out, view,
                 lost, left, bounds>>

(* The key is free as soon as it is unlisted: a new create of it runs beside    *)
(* what the old one's goroutines have still to publish, the teardown that it   *)
(* stopped, a create that was already past its wait that it runs.              *)
Forget(k) ==
  /\ Up /\ teardown[k] = "freeing"
  /\ sb' = [sb EXCEPT ![k] = "none"]
  /\ teardown' = [teardown EXCEPT ![k] = "idle"]
  /\ creator' = [creator EXCEPT ![k] = "idle"]
  /\ \E n \in CASE creator[k] = "ready" -> {1} [] creator[k] = "booting" -> {0, 1} [] OTHER -> {0} :
       owes' = [owes EXCEPT ![k] = [running |-> @.running + n, stopped |-> @.stopped + 1]]
  /\ UNCHANGED <<alive, reachable, server, reader, listed, followed, old, out, view,
                 astray, lost, left, bounds>>

PublishLate(k, s) ==
  /\ Up /\ owes[k][s] > 0
  /\ Publish(k, s)
  /\ owes' = [owes EXCEPT ![k][s] = @ - 1]
  /\ UNCHANGED <<alive, reachable, sb, creator, teardown, sub, wire, reader, listed, followed, old, out, view,
                 lost, left, bounds>>

PodDies ==
  /\ Up /\ alive' = FALSE
  /\ sb' = [k \in PodKeys |-> "none"]
  /\ creator' = [k \in PodKeys |-> "idle"] /\ teardown' = [k \in PodKeys |-> "idle"]
  /\ owes' = [k \in PodKeys |-> [s \in Late |-> 0]]
  /\ sub' = "none" /\ ch' = <<>>
  /\ UNCHANGED <<reachable, wire, reader, listed, followed, old, out, view, astray, lost, left, bounds>>

(* The network to the pod goes away for a while, or docker ps fails: MaxDrops  *)
(* bounds the two together.                                                    *)
Partition ==
  /\ ~left /\ reachable /\ drops < MaxDrops /\ drops' = drops + 1
  /\ reachable' = FALSE
  /\ UNCHANGED <<alive, sb, creator, teardown, owes, server, reader, listed, followed, old, out, view,
                 astray, lost, left, creates>>

Heal ==
  /\ ~left /\ ~reachable /\ reachable' = TRUE
  /\ UNCHANGED <<alive, sb, creator, teardown, owes, server, reader, listed, followed, old, out, view,
                 astray, lost, left, bounds>>

-----------------------------------------------------------------------------
(* StreamPodEvents: subscribe, snapshot (List iterates a map, so its frames   *)
(* come in any order), then transitions.                                      *)

Snapshot ==
  /\ Up /\ sub = "subscribed"
  /\ LET here == {k \in PodKeys : sb[k] # "none"}
         found == {<<k, sb[k]>> : k \in here}
     IN /\ \E frames \in Bijection(1..Cardinality(found), found) : wire' = wire \o frames
        /\ astray' = astray \ (here \ KeysOf(ch))
  /\ sub' = "streaming"
  /\ UNCHANGED <<pod, ch, reader, listed, followed, old, out, view, lost, left, bounds>>

Forward ==
  /\ Up /\ sub = "streaming" /\ ch # <<>> /\ Len(wire) < WireCap
  /\ wire' = Append(wire, Head(ch)) /\ ch' = Tail(ch)
  /\ UNCHANGED <<pod, sub, reader, listed, followed, old, out, view, astray, lost, left, bounds>>

-----------------------------------------------------------------------------
(* streamPodEvents and readPodEventStream. The pod's stream carries no id     *)
(* lines, so a reconnect resumes nothing: it starts over with a snapshot.     *)

Connect ==
  /\ pc = "connect" /\ ~left /\ alive /\ reachable
  /\ sub' = "subscribed" /\ ch' = <<>> /\ wire' = <<>>
  /\ pc' = "read"
  /\ UNCHANGED <<pod, hosted, pending, down, listed, followed, old, out, view, astray, lost, left, bounds>>

(* The connect fails; once it has failed for podStreamDeadAfter, the pod is   *)
(* presumed dead.                                                             *)
ConnectFails ==
  /\ pc = "connect" /\ ~left /\ ~(alive /\ reachable)
  /\ down' = TRUE
  /\ \/ pc' = "backoff"
     \/ down /\ pc' = "destroying"
  /\ UNCHANGED <<pod, server, hosted, pending, listed, followed, old, out, view, astray, lost, left, bounds>>

Backoff ==
  /\ pc = "backoff" /\ ~left
  /\ pc' = "connect"
  /\ UNCHANGED <<pod, server, hosted, pending, down, listed, followed, old, out, view, astray, lost, left, bounds>>

Scan ==
  /\ pc = "read" /\ ~left /\ wire # <<>>
  /\ LET k == Head(wire)[1]
         s == MapPodStatus(Head(wire)[2])
     IN /\ hosted' = CASE s = "start" -> hosted \cup {k}
                       [] s = "destroy" -> hosted \ {k}
                       [] OTHER -> hosted
        /\ IF s = "unknown" THEN UNCHANGED <<pending, pc>>
           ELSE pending' = <<k, s>> /\ pc' = "send"
  /\ wire' = Tail(wire)
  /\ UNCHANGED <<pod, sub, ch, down, listed, followed, old, out, view, astray, lost, left, bounds>>

Send ==
  /\ pc = "send" /\ Len(out) < OutCap
  /\ out' = Append(out, pending)
  /\ pending' = <<>> /\ pc' = "read"
  /\ UNCHANGED <<pod, server, hosted, down, listed, followed, old, view, astray, lost, left, bounds>>

(* The consumer has left: the select of the send picks the cancelled context. *)
SendAbandoned ==
  /\ pc = "send" /\ left
  /\ lost' = IF pending[2] = "destroy" THEN lost \cup {pending[1]} ELSE lost
  /\ pending' = <<>> /\ pc' = "ended"
  /\ sub' = "none" /\ ch' = <<>> /\ wire' = <<>>
  /\ UNCHANGED <<pod, hosted, down, listed, followed, old, out, view, astray, left, bounds>>

(* The connection ends: cleanly, which counts as having been up, or with an   *)
(* error, which is measured from the last failure that was not cleared. What  *)
(* was under way is not sent again.                                           *)
Break ==
  /\ pc = "read" /\ ~left
  /\ ~(alive /\ reachable)
  /\ astray' = astray \cup KeysOf(ch) \cup KeysOf(wire)
  /\ sub' = "none" /\ ch' = <<>> /\ wire' = <<>>
  /\ \/ pc' = "backoff" /\ down' = FALSE
     \/ pc' = "backoff" /\ down' = TRUE
     \/ down /\ pc' = "destroying" /\ UNCHANGED down
  /\ UNCHANGED <<pod, hosted, pending, listed, followed, old, out, view, lost, left, bounds>>

StreamCancelled ==
  /\ pc \in {"connect", "backoff", "read"} /\ left
  /\ pc' = "ended"
  /\ sub' = "none" /\ ch' = <<>> /\ wire' = <<>>
  /\ UNCHANGED <<pod, hosted, pending, down, listed, followed, old, out, view, astray, lost, left, bounds>>

(* emitPodDestroyed *)
EmitDestroyed ==
  /\ pc = "destroying"
  /\ \/ \E k \in hosted :
          /\ ~left /\ Len(out) < OutCap
          /\ out' = Append(out, <<k, "destroy">>)
          /\ hosted' = hosted \ {k}
          /\ UNCHANGED pc
     \/ /\ hosted = {} \/ left
        /\ pc' = "ended"
        /\ UNCHANGED <<hosted, out>>
  /\ UNCHANGED <<pod, server, pending, down, listed, followed, old, view, astray, lost, left, bounds>>

(* A goroutine whose pod left discovery, whatever its successor does: the send  *)
(* that was under way, if the select still picks it, then the destroys.        *)
Misled(k, s) ==
  IF (s = "start" <=> sb[k] \in Ups) \/ k \in UnderWay THEN astray ELSE astray \cup {k}

OldSends(i) ==
  /\ old[i].pending # <<>> /\ Len(out) < OutCap
  /\ out' = Append(out, old[i].pending)
  /\ astray' = Misled(old[i].pending[1], old[i].pending[2])
  /\ old' = [old EXCEPT ![i].pending = <<>>]
  /\ UNCHANGED <<pod, server, reader, listed, followed, view, lost, left, bounds>>

OldAbandons(i) ==
  /\ old[i].pending # <<>>
  /\ lost' = IF old[i].pending[2] = "destroy" THEN lost \cup {old[i].pending[1]} ELSE lost
  /\ old' = [old EXCEPT ![i].pending = <<>>]
  /\ UNCHANGED <<pod, server, reader, listed, followed, out, view, astray, left, bounds>>

OldDestroys(i) ==
  /\ ~left /\ old[i].pending = <<>> /\ Len(out) < OutCap
  /\ \E k \in old[i].hosted :
       /\ out' = Append(out, <<k, "destroy">>)
       /\ astray' = Misled(k, "destroy")
       /\ old' = [old EXCEPT ![i].hosted = @ \ {k}]
  /\ UNCHANGED <<pod, server, reader, listed, followed, view, lost, left, bounds>>

-----------------------------------------------------------------------------
(* eventsPacked's discovery loop, and the consumer. *)

(* packPodIDs, and the pack cache's poller: the pods that are running. *)
Refresh ==
  /\ ~left /\ listed # alive /\ listed' = alive
  /\ UNCHANGED <<pod, server, reader, followed, old, out, view, astray, lost, left, bounds>>

(* docker ps fails: the error is logged, and the loop goes on with no pods. *)
RefreshFails ==
  /\ ~left /\ listed /\ drops < MaxDrops
  /\ listed' = FALSE /\ drops' = drops + 1
  /\ UNCHANGED <<pod, server, reader, followed, old, out, view, astray, lost, left, creates>>

(* The two runtimes run the same loop, over docker ps and over the cache. *)
Follow ==
  /\ ~left /\ listed /\ ~followed
  /\ followed' = TRUE /\ pc' = "connect"
  /\ UNCHANGED <<pod, listed, server, hosted, pending, down, old, out, view, astray, lost, left, bounds>>

Unfollowed ==
  /\ pc' = "none" /\ hosted' = {} /\ pending' = <<>> /\ down' = FALSE
  /\ sub' = "none" /\ ch' = <<>> /\ wire' = <<>>

Drop_Silent ==
  /\ ~left /\ ~listed /\ followed
  /\ followed' = FALSE /\ Unfollowed
  /\ UNCHANGED <<pod, listed, old, out, view, astray, lost, left, bounds>>

(* The goroutine is cancelled because its pod left discovery, and takes the pod's *)
(* sandboxes with it; what it had not sent on is not sent again.                  *)
Drop ==
  /\ ~left /\ ~listed /\ followed
  /\ followed' = FALSE /\ Unfollowed
  /\ old' = Append(old, [pending |-> pending, hosted |-> hosted])
  /\ astray' = IF pc \in {"destroying", "ended"} THEN PodKeys
               ELSE astray \cup UnderWay
  /\ UNCHANGED <<pod, listed, out, view, lost, left, bounds>>

Consume ==
  /\ ~left /\ out # <<>>
  /\ view' = [view EXCEPT ![Head(out)[1]] = Head(out)[2]]
  /\ out' = Tail(out)
  /\ UNCHANGED <<pod, server, reader, listed, followed, old, astray, lost, left, bounds>>

Leave ==
  /\ ~left /\ left' = TRUE
  /\ UNCHANGED <<pod, server, reader, listed, followed, old, out, view, astray, lost, bounds>>

PodStep ==
  \/ \E k \in PodKeys :
       \/ CreatePacked(k) \/ PublishStarting(k) \/ Ready(k) \/ PublishRunning(k)
       \/ Stop(k) \/ PublishStopping(k) \/ Forget(k) \/ \E s \in Late : PublishLate(k, s)
  \/ PodDies \/ Partition \/ Heal

Reader ==
  \/ Connect \/ ConnectFails \/ Backoff \/ Scan \/ Send \/ SendAbandoned
  \/ Break \/ StreamCancelled \/ EmitDestroyed

OldReader == \E i \in DOMAIN old : OldSends(i) \/ OldAbandons(i) \/ OldDestroys(i)

WatchNext ==
  \/ PodStep \/ Snapshot \/ Forward \/ Reader \/ OldReader
  \/ Refresh \/ RefreshFails \/ Follow \/ Drop \/ Consume \/ Leave

(* The reader's loop, the discovery ticker and the consumer keep running; a   *)
(* read on a dead pod's connection ends. Nothing is assumed of the pod.       *)
WatchSpec ==
  /\ WatchInit /\ [][WatchNext]_watchVars
  /\ WF_watchVars(Reader) /\ WF_watchVars(OldReader) /\ WF_watchVars(Refresh) /\ WF_watchVars(Follow) /\ WF_watchVars(Drop)
  /\ WF_watchVars(Consume) /\ WF_watchVars(Break)

-----------------------------------------------------------------------------
WatchTypeOK ==
  /\ {alive, reachable, listed, followed, down, left} \subseteq BOOLEAN
  /\ sb \in [PodKeys -> {"none", "starting", "running", "stopping"}]
  /\ creator \in [PodKeys -> {"idle", "starting", "booting", "ready"}]
  /\ teardown \in [PodKeys -> {"idle", "stopping", "freeing"}]
  /\ owes \in [PodKeys -> [Late -> Nat]]
  /\ sub \in {"none", "subscribed", "streaming"}
  /\ ch \in Seq(PodKeys \X Statuses) /\ Len(ch) <= ChanCap
  /\ wire \in Seq(PodKeys \X Statuses) /\ Len(wire) <= WireCap + Cardinality(PodKeys)
  /\ pc \in {"none", "connect", "backoff", "read", "send", "destroying", "ended"}
  /\ pending \in (PodKeys \X Actions) \cup {<<>>}
  /\ old \in Seq([pending : (PodKeys \X Actions) \cup {<<>>}, hosted : SUBSET PodKeys])
  /\ out \in Seq(PodKeys \X Actions) /\ Len(out) <= OutCap
  /\ view \in [PodKeys -> Actions \cup {"none"}]
  /\ hosted \subseteq PodKeys /\ astray \subseteq PodKeys /\ lost \subseteq PodKeys
  /\ creates \in Nat /\ drops \in Nat

(* docker_runtime.go:1035: when a pod has died, every sandbox the consumer    *)
(* was told is up is eventually reported destroyed. The exception is a Destroy   *)
(* the reader had already taken out of hosted when its context was cancelled. *)
DeadPodCleared ==
  \A k \in PodKeys : ~alive ~> (left \/ k \in lost \/ view[k] # "start")

CaughtUp ==
  /\ alive /\ ~left /\ sub = "streaming" /\ pc = "read"
  /\ ch = <<>> /\ wire = <<>> /\ out = <<>>
  /\ \A k \in PodKeys : creator[k] # "starting" /\ teardown[k] # "stopping"

(* handlers.go:88, docker_runtime.go:1150: once the stream has caught up, the *)
(* consumer holds exactly the pod's sandboxes up, whatever interleaving of    *)
(* subscription, snapshot, transitions, reconnects and failed listings led    *)
(* there, except for keys that are astray: the last word on them was dropped, *)
(* fell into a gap, or came from a sandbox or a stream that another had       *)
(* already replaced.                                                          *)
Converged ==
  CaughtUp => \A k \in PodKeys \ astray : view[k] = "start" <=> sb[k] \in Ups
=============================================================================

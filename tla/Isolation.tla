----------------------------- MODULE Isolation -----------------------------
(* The isolation backends (internal/isolation): one boot is the life of one   *)
(* microvm or container object, from New to UnmountRoot, as createPacked and  *)
(* its teardown goroutine drive it. The snapshot action (handlers.Snapshot,   *)
(* SnapshotLive) runs beside them.                                            *)
(*                                                                            *)
(* A directory is named by the key it belongs to, or by the boot it was made  *)
(* for when the client named no key. The content of an overlay is the number  *)
(* of the last guest write it holds; page is the last write in the guest's    *)
(* memory, its page cache included, and belief the last one it knows to be on *)
(* its disk.                                                                  *)
EXTENDS Integers, FiniteSets

CONSTANTS
  Boots, Keys,    \* snapshot.vm.key values
  Octets, Pooled, \* network slots, and those the prealloc pool wired ahead
  MaxActive,      \* bound on the boots alive at once
  MaxWrites, MaxCalls, MaxFaults

ASSUME IsolationAssumption ==
  /\ Boots \cap Keys = {} /\ "none" \notin Boots \cup Keys /\ Pooled \subseteq Octets
  /\ {MaxActive, MaxWrites, MaxCalls, MaxFaults} \subseteq Nat

VARIABLES
  kind,     \* the pod's backend: isolation.Detect
  vm,       \* the backend object of each boot, its VMM and its guest
  disk,     \* the files of each directory
  tar,      \* the files snapshot: the write it holds, or None
  net,      \* what is installed for each slot: namespace, links, rules
  call,     \* the snapshot action under way
  reported, \* keys whose last snapshot was answered captured
  dirty,    \* keys whose overlay was written since their snapshot
  crossed,  \* history: a VM was resumed onto drives that are another one's
  writes, calls, faults

vars == <<kind, vm, disk, tar, net, call, reported, dirty, crossed, writes, calls, faults>>

None == -1
Torn == -2
Empty == [ovl |-> None, prm |-> FALSE, snap |-> "none", mem |-> None, page |-> None]
Dirs == Keys \cup Boots

(* baseSnapshotReady *)
SnapshotReady(d) ==
  disk[d].ovl # None /\ disk[d].prm /\ disk[d].snap # "none" /\ disk[d].mem # None

NoVM == [pc |-> "idle", oct |-> 0, home |-> "none", eph |-> FALSE, have |-> FALSE,
         vmm |-> "off", dev |-> "none", belief |-> None, page |-> None, stray |-> FALSE, sound |-> FALSE]
NoCall == [pc |-> "idle", b |-> "none", dir |-> "none", files |-> FALSE, img |-> None,
           at |-> None, page |-> None, late |-> FALSE]

Init ==
  /\ kind \in {"microvm", "container"}
  /\ vm = [b \in Boots |-> NoVM]
  /\ disk = [d \in Dirs |-> Empty]
  /\ tar = None
  /\ net = [o \in Octets |-> {}]
  /\ call = NoCall
  /\ reported = {} /\ dirty = {} /\ crossed = FALSE
  /\ writes = 0 /\ calls = 0 /\ faults = 0

Active(b) == vm[b].pc \notin {"idle", "gone", "aborted"}

(* The drives a boot may open: its state dir, and where its VMM has them. *)
Uses(b) == IF Active(b) THEN {vm[b].home, vm[b].dev} ELSE {}
(* The single-owner rule the snapshot action and ResumeAgent document: a key  *)
(* is not given to a second sandbox while a first one runs on it or is being  *)
(* captured into or out of it.                                                *)
Unowned(k, b) ==
  /\ \A c \in Boots \ {b} : k \notin Uses(c)
  /\ call.b \in Boots \ {b} => k \notin {call.dir, vm[call.b].home}

Goto(b, l) == vm' = [vm EXCEPT ![b].pc = l]

(* Whether a step of b fails: a bounded number of them do. *)
Fails == faults < MaxFaults /\ faults' = faults + 1
Holds == UNCHANGED faults

(* createPacked's early returns: the slot is released and sbCtx cancelled,    *)
(* but the root stays.                                                        *)
Abort(b) == vm' = [vm EXCEPT ![b] = [NoVM EXCEPT !.pc = "aborted", !.oct = vm[b].oct]]

(* The teardown is over; a snapshot action still at work keeps the object.    *)
Ended(b) == vm' = [vm EXCEPT ![b] =
                     [(IF call.b = b THEN @ ELSE NoVM) EXCEPT !.pc = "gone", !.oct = 0]]

-----------------------------------------------------------------------------
(* vmStateDir: the directory of the key the config names, else a fresh one.   *)
StateDirs(b) == {b} \cup {k \in Keys : Unowned(k, b)}

(* isolation.New for a slot no live boot has. *)
Starts(b, o, d, resume) ==
  /\ vm[b].pc = "idle"
  /\ Cardinality({c \in Boots : Active(c)}) < MaxActive
  /\ \A c \in Boots : Active(c) => vm[c].oct # o
  /\ vm' = [vm EXCEPT ![b] =
              [@ EXCEPT !.pc = "new", !.oct = o, !.home = d, !.eph = (d = b), !.have = resume]]
  /\ UNCHANGED <<kind, disk, tar, net, call, reported, dirty, crossed, writes, calls, faults>>

(* newMicroVM decides here whether this boot will resume. *)
NewMicroVM(b, o, d) ==
  /\ kind = "microvm" /\ d \in StateDirs(b)
  /\ Starts(b, o, d, SnapshotReady(d))

(* newContainer: its root, scratch and overlay are under the sandbox's own key. *)
NewContainer(b, o) ==
  kind = "container" /\ Starts(b, o, b, FALSE)

(* buildEmptyExt4 *)
BuildEmptyExt4(d) == [disk EXCEPT ![d].ovl = 0]

(* A resume reopens the overlay that is there; a cold boot makes a new one. *)
MountRoot(b) ==
  /\ kind = "microvm" /\ vm[b].pc = "new"
  /\ \/ Holds /\ vm[b].have /\ Goto(b, "rooted") /\ UNCHANGED disk
     \/ Holds /\ ~vm[b].have /\ Goto(b, "rooted") /\ disk' = BuildEmptyExt4(vm[b].home)
     \/ Fails /\ ~vm[b].have /\ Abort(b) /\ UNCHANGED disk
  /\ UNCHANGED <<kind, tar, net, call, reported, dirty, crossed, writes, calls>>

(* runc.MountOverlay: a tmpfs for the upper layer, then the overlay on it.    *)
MountOverlay(b) ==
  /\ kind = "container" /\ vm[b].pc = "new"
  /\ \/ Holds /\ Goto(b, "rooted") /\ disk' = [disk EXCEPT ![vm[b].home].ovl = 0]
     \/ Fails /\ Abort(b) /\ UNCHANGED disk
  /\ UNCHANGED <<kind, tar, net, call, reported, dirty, crossed, writes, calls>>

(* withOverlayMount works on the image where the backend object has it. *)
Mountable(d) == disk[d].ovl # None

(* snapshot.Restore into the upper layer. *)
Unpacked(d) == [disk EXCEPT ![d].ovl = tar]

(* mountManager.maybeRestore, when the config names a files key: never over a *)
(* resumed overlay; a failed restore starts fresh.                            *)
MaybeRestore(b) ==
  /\ vm[b].pc = "rooted"
  /\ Goto(b, "restored")
  /\ \/ Holds /\ UNCHANGED disk
     \/ /\ Holds /\ ~vm[b].have /\ tar # None /\ Mountable(vm[b].home)
        /\ disk' = Unpacked(vm[b].home)
  /\ UNCHANGED <<kind, tar, net, call, reported, dirty, crossed, writes, calls>>

-----------------------------------------------------------------------------
(* The slot's network. *)

\* "no6": there is no IPv6 to drop, or so the kernel said.
AllParts == IF kind = "microvm" THEN {"links", "tap", "snat", "dnat"} ELSE {"links", "dnat", "fwd"}
Wired(o) ==
  \/ o \in Pooled
  \/ AllParts \subseteq net[o] /\ (kind = "microvm" => net[o] \cap {"drop6", "no6"} # {})

(* teardownPackedNetMicrovm; teardownPackedNet leaves the DNAT rule behind.   *)
Leftover == IF kind = "container" THEN {"dnat"} ELSE {}
Cleared(o) == [net EXCEPT ![o] = @ \cap Leftover]

(* RedirectEgress: a slot of the pool is used as it is; another one is first  *)
(* cleared of what an earlier boot may have left in it.                       *)
RedirectEgress(b) ==
  /\ vm[b].pc = "restored"
  /\ IF vm[b].oct \in Pooled
       THEN Goto(b, "wired") /\ UNCHANGED net
       ELSE Goto(b, "links") /\ net' = Cleared(vm[b].oct)
  /\ UNCHANGED <<kind, disk, tar, call, reported, dirty, crossed, writes, calls, faults>>

Adds(b, parts) == net' = [net EXCEPT ![vm[b].oct] = @ \cup parts]

(* One step of the set-up installs its part, or fails and ends the boot. *)
Installs(b, part, next) ==
  /\ vm[b].pc = part
  /\ \/ Holds /\ Goto(b, next) /\ Adds(b, {part})
     \/ Fails /\ Abort(b) /\ UNCHANGED net
  /\ UNCHANGED <<kind, disk, tar, call, reported, dirty, crossed, writes, calls>>

(* wirePackedLinks: the namespace, which must not exist yet, and its veth. *)
WirePackedLinks(b) ==
  /\ vm[b].pc = "links" /\ "links" \notin net[vm[b].oct]
  /\ Installs(b, "links", IF kind = "microvm" THEN "tap" ELSE "dnat")

AddTap(b) == Installs(b, "tap", "snat")
LoadNetnsRules(b) == Installs(b, "snat", "dnat")

(* A failure that says "not supported" is taken for a kernel without IPv6.    *)
LoadNetnsRules6(b) ==
  /\ vm[b].pc = "drop6"
  /\ \/ Holds /\ Goto(b, "sink") /\ Adds(b, {"drop6"})
     \/ Fails /\ Goto(b, "sink") /\ Adds(b, {"no6"})
     \/ Fails /\ Abort(b) /\ UNCHANGED net
  /\ UNCHANGED <<kind, disk, tar, call, reported, dirty, crossed, writes, calls>>

LoadPodRules_BestEffort(b) ==
  /\ kind = "microvm" /\ vm[b].pc = "dnat" /\ Goto(b, "drop6")
  /\ \/ Holds /\ Adds(b, {"dnat"})
     \/ Fails /\ UNCHANGED net
  /\ UNCHANGED <<kind, disk, tar, call, reported, dirty, crossed, writes, calls>>

(* In the pod's namespace, appended to the rules of the other sandboxes. *)
LoadPodRules(b) == kind = "microvm" /\ Installs(b, "dnat", "drop6")

(* Two tables in one restore, the first loaded when the second fails; then    *)
(* route_localnet, which may fail too.                                        *)
LoadContainerPodRules(b) ==
  /\ kind = "container" /\ vm[b].pc = "dnat"
  /\ \/ Holds /\ Goto(b, "wired") /\ Adds(b, {"dnat", "fwd"})
     \/ Fails /\ Abort(b) /\ \E parts \in {{}, {"dnat"}, {"dnat", "fwd"}} : Adds(b, parts)
  /\ UNCHANGED <<kind, disk, tar, call, reported, dirty, crossed, writes, calls>>

(* The DNS sink inside the namespace. *)
ListenUDPInNetns(b) ==
  /\ vm[b].pc = "sink"
  /\ \/ Holds /\ Goto(b, "wired")
     \/ Fails /\ Abort(b)
  /\ UNCHANGED <<kind, disk, tar, net, call, reported, dirty, crossed, writes, calls>>

-----------------------------------------------------------------------------
(* LaunchAgent, ResumeAgent and ResumeReady *)

(* buildParamsDrive: the metadata drive is written anew. *)
BuildParamsDrive(d) == [disk EXCEPT ![d].prm = TRUE]

(* The workload runs on drive d; its memory holds write p, and knows w to be  *)
(* on the drive.                                                              *)
Runs(b, d, w, p, sound) ==
  vm' = [vm EXCEPT ![b] = [@ EXCEPT !.pc = "booting", !.vmm = "running", !.dev = d,
                                    !.belief = w, !.page = p, !.sound = sound]]

(* A cold boot writes the metadata drive and the config, and spawns the VMM.  *)
LaunchAgent(b) ==
  /\ kind = "microvm" /\ vm[b].pc = "wired" /\ ~vm[b].have
  /\ \/ Holds /\ Goto(b, "spawned") /\ disk' = BuildParamsDrive(vm[b].home)
     \/ Fails /\ Abort(b) /\ UNCHANGED disk
  /\ UNCHANGED <<kind, tar, net, call, reported, dirty, crossed, writes, calls>>

(* The VMM of a resume is spawned without a config. *)
ResumeAgent(b) ==
  /\ vm[b].pc = "wired" /\ vm[b].have
  /\ \/ Holds /\ Goto(b, "loading")
     \/ Fails /\ Abort(b)
  /\ UNCHANGED <<kind, disk, tar, net, call, reported, dirty, crossed, writes, calls>>

(* MaybeRunNSExec: the child enters the slot's namespace before it becomes    *)
(* the VMM, and dies if there is none.                                        *)
NSExec(b) ==
  /\ vm[b].pc = "spawned"
  /\ IF vm[b].oct \in Pooled \/ "links" \in net[vm[b].oct]
       THEN Runs(b, vm[b].home, disk[vm[b].home].ovl, disk[vm[b].home].ovl, TRUE)
       ELSE Goto(b, "booting")
  /\ UNCHANGED <<kind, disk, tar, net, call, reported, dirty, crossed, writes, calls, faults>>

(* The bundle, the ready fifo and `runc run`. *)
LaunchContainer(b) ==
  /\ kind = "container" /\ vm[b].pc = "wired"
  /\ \/ Holds /\ Runs(b, vm[b].home, disk[vm[b].home].ovl, disk[vm[b].home].ovl, TRUE)
     \/ Fails /\ Abort(b)
  /\ UNCHANGED <<kind, disk, tar, net, call, reported, dirty, crossed, writes, calls>>

(* LoadSnapshotWithBackend: the VMM reopens the drives at the paths the       *)
(* snapshot recorded.                                                         *)
Loadable(d) == SnapshotReady(d) /\ Mountable(disk[d].snap)

ResumeReady(b) ==
  /\ vm[b].pc = "loading"
  /\ LET d == vm[b].home
     IN \/ /\ Loadable(d) /\ Holds
           /\ Runs(b, disk[d].snap, disk[d].mem, disk[d].page, d \in reported \ dirty)
           /\ crossed' = (crossed \/ ~Unowned(disk[d].snap, b))
        \/ Loadable(d) /\ Fails /\ Abort(b) /\ UNCHANGED crossed
        \/ ~Loadable(d) /\ Holds /\ Abort(b) /\ UNCHANGED crossed
  /\ UNCHANGED <<kind, disk, tar, net, call, reported, dirty, writes, calls>>

(* WaitReady, or the first control RPC of ApplyResumeState. *)
BecomesReady(b) ==
  /\ vm[b].pc = "booting" /\ vm[b].vmm = "running"
  /\ Goto(b, "up")
  /\ UNCHANGED <<kind, disk, tar, net, call, reported, dirty, crossed, writes, calls, faults>>

(* The content w is on the drive, and the workload knows it to be.            *)
OnDrive(b, w) ==
  /\ disk' = [disk EXCEPT ![vm[b].dev].ovl = w]
  /\ vm' = [vm EXCEPT ![b].belief = w, ![b].page = w]
  /\ dirty' = dirty \cup ({vm[b].dev} \cap Keys)

(* A guest's write is in its page cache; a container's in its upper layer.    *)
GuestWrite(b) ==
  /\ vm[b].vmm = "running" /\ writes < MaxWrites
  /\ writes' = writes + 1
  /\ IF kind = "microvm"
       THEN vm' = [vm EXCEPT ![b].page = writes'] /\ UNCHANGED <<disk, dirty>>
       ELSE OnDrive(b, writes')
  /\ call' = IF call.b = b /\ call.pc \in {"flush", "pause"} THEN [call EXCEPT !.late = TRUE] ELSE call
  /\ UNCHANGED <<kind, tar, net, reported, crossed, calls, faults>>

(* The guest writes its page cache back, of its own accord or for a sync.     *)
WriteBack(b) ==
  /\ kind = "microvm" /\ vm[b].vmm = "running" /\ vm[b].page # vm[b].belief
  /\ OnDrive(b, vm[b].page)
  /\ UNCHANGED <<kind, tar, net, call, reported, crossed, writes, calls, faults>>

-----------------------------------------------------------------------------
(* The teardown goroutine. *)

(* Delete, TTL or pod shutdown; or the workload exits on its own. Its memory  *)
(* and its open drives go with it.                                            *)
StopAgent(b) ==
  /\ vm[b].pc \in {"booting", "up"}
  /\ vm' = [vm EXCEPT ![b] = [@ EXCEPT !.pc = "down", !.vmm = "off", !.belief = None, !.page = None, !.dev = "none"]]
  /\ UNCHANGED <<kind, disk, tar, net, call, reported, dirty, crossed, writes, calls, faults>>

(* snapshot.Capture writes a temp file and renames it over the old tarball,   *)
(* so a failure leaves that one.                                              *)
Capture(img) ==
  \/ Holds /\ tar' = img
  \/ Fails /\ UNCHANGED tar

(* CaptureSnapshot, when the config asks for write_on_shutdown. *)
CaptureSnapshot(b) ==
  /\ vm[b].pc = "down"
  /\ Goto(b, "captured")
  /\ \/ Holds /\ UNCHANGED tar
     \/ Mountable(vm[b].home) /\ Capture(disk[vm[b].home].ovl)
  /\ UNCHANGED <<kind, disk, net, call, reported, dirty, crossed, writes, calls>>

UnmountRoot_All(b) ==
  /\ vm[b].pc = "captured"
  /\ Ended(b)
  /\ net' = IF vm[b].oct \in Pooled THEN net ELSE Cleared(vm[b].oct)
  /\ disk' = [disk EXCEPT ![vm[b].home] = Empty]
  /\ UNCHANGED <<kind, tar, call, reported, dirty, crossed, writes, calls, faults>>

(* Only a directory the client did not name goes with its VM. *)
UnmountRoot(b) ==
  /\ vm[b].pc = "captured"
  /\ Ended(b)
  /\ net' = IF vm[b].oct \in Pooled THEN net ELSE Cleared(vm[b].oct)
  /\ disk' = IF vm[b].eph THEN [disk EXCEPT ![vm[b].home] = Empty] ELSE disk
  /\ UNCHANGED <<kind, tar, call, reported, dirty, crossed, writes, calls, faults>>

-----------------------------------------------------------------------------
(* The snapshot action. *)

Capturing == {"copy", "patch", "create", "adopt", "files"}
At(l) == call.pc = l
B == call.b
Moving == call.dir # "none" /\ call.dir # vm[B].home
CallTo(l) == call' = [call EXCEPT !.pc = l]

(* The request: a guest is flushed before it is captured (late: it wrote      *)
(* between the flush and the pause).                                          *)
Snapshot(b, d, f) ==
  /\ At("idle") /\ calls < MaxCalls
  /\ vm[b].pc = "up"
  /\ d # "none" \/ f
  /\ d # "none" => Unowned(d, b)
  /\ calls' = calls + 1
  /\ reported' = reported \ {d}
  /\ call' = [pc |-> IF kind = "microvm" THEN "flush" ELSE "tar", b |-> b,
              dir |-> IF kind = "microvm" THEN d ELSE "none", files |-> f,
              img |-> IF kind = "container" /\ f THEN disk[vm[b].home].ovl ELSE None,
              at |-> None, page |-> None, late |-> FALSE]
  /\ UNCHANGED <<kind, vm, disk, tar, net, dirty, crossed, writes, faults>>

FlushAgent_Async ==
  /\ At("flush")
  /\ vm[B].vmm = "running" /\ Holds /\ CallTo("pause")
  /\ UNCHANGED <<kind, vm, disk, tar, net, reported, dirty, crossed, writes, calls>>

(* FlushAgent: a sync in the guest returns when what was written before it is *)
(* on the drive. A failed one is the request's answer.                        *)
FlushAgent ==
  /\ At("flush")
  /\ \/ /\ vm[B].vmm = "running" /\ Holds /\ CallTo("pause")
        /\ call.late \/ vm[B].page = vm[B].belief
     \/ Fails /\ call' = NoCall
     \/ vm[B].vmm = "off" /\ Holds /\ call' = NoCall
  /\ UNCHANGED <<kind, vm, disk, tar, net, reported, dirty, crossed, writes, calls>>

(* The instant every part of the capture is to be of: what the guest knows to *)
(* be on its disk, as far as that is the disk it has, and what its memory     *)
(* holds, which the VM part captures.                                         *)
CaptureFrom ==
  call' = [call EXCEPT
    !.pc = IF call.dir = "none" THEN "files" ELSE IF Moving THEN "copy" ELSE "create",
    !.at = IF vm[B].sound /\ ~vm[B].stray THEN vm[B].belief ELSE None,
    !.page = vm[B].page]

(* client.Pause; a VMM that is gone refuses it, as it does every call below. *)
Pause ==
  /\ At("pause")
  /\ \/ /\ vm[B].vmm = "running" /\ Holds
        /\ vm' = [vm EXCEPT ![B].vmm = "paused"]
        /\ CaptureFrom
     \/ /\ vm[B].vmm = "off" /\ Holds
        /\ call' = NoCall /\ UNCHANGED vm
  /\ UNCHANGED <<kind, disk, tar, net, reported, dirty, crossed, writes, calls>>

(* A failure before the resume that SnapshotLive defers. *)
Failed(l) == Fails /\ CallTo(l)

Relocate_IfMissing ==
  /\ At("copy")
  /\ LET old == disk[vm[B].home]
     IN \/ /\ old.ovl # None /\ Holds /\ CallTo("patch")
           /\ disk' = IF disk[call.dir].ovl # None THEN disk
                   ELSE [disk EXCEPT ![call.dir].ovl = old.ovl, ![call.dir].prm = old.prm]
           /\ dirty' = dirty \cup {call.dir}
        \/ /\ old.ovl # None /\ Failed("resume")
           /\ disk' = [disk EXCEPT ![call.dir].ovl = Torn]
           /\ dirty' = dirty \cup {call.dir}
        \/ /\ old.ovl = None /\ Holds /\ CallTo("resume")
           /\ UNCHANGED <<disk, dirty>>
  /\ UNCHANGED <<kind, vm, tar, net, reported, crossed, writes, calls>>

(* cowOrCopy of the overlay and of the metadata drive. *)
Relocate ==
  /\ At("copy")
  /\ LET old == disk[vm[B].home]
     IN \/ /\ old.ovl # None /\ Holds /\ CallTo("patch")
           /\ disk' = [disk EXCEPT ![call.dir].ovl = old.ovl, ![call.dir].prm = old.prm]
           /\ dirty' = dirty \cup {call.dir}
        \/ /\ old.ovl # None /\ Failed("resume")
           /\ disk' = [disk EXCEPT ![call.dir].ovl = Torn]
           /\ dirty' = dirty \cup {call.dir}
        \/ /\ old.ovl = None /\ Holds /\ CallTo("resume")
           /\ UNCHANGED <<disk, dirty>>
  /\ UNCHANGED <<kind, vm, tar, net, reported, crossed, writes, calls>>

(* client.PatchDrive, for the overlay and then for the metadata drive. *)
PatchDrive ==
  /\ At("patch")
  /\ \/ /\ vm[B].vmm # "off" /\ Holds /\ CallTo("create")
        /\ vm' = [vm EXCEPT ![B].dev = call.dir]
     \/ /\ vm[B].vmm # "off" /\ Failed("resume")
        /\ vm' \in {vm, [vm EXCEPT ![B].dev = call.dir, ![B].stray = TRUE]}
     \/ vm[B].vmm = "off" /\ Holds /\ CallTo("resume") /\ UNCHANGED vm
  /\ UNCHANGED <<kind, disk, tar, net, reported, dirty, crossed, writes, calls>>

(* client.CreateSnapshot: the VMM, which must be paused, records where its    *)
(* drives are.                                                                *)
CreateSnapshot ==
  /\ At("create")
  /\ \/ /\ vm[B].vmm = "paused" /\ Holds
        /\ disk' = [disk EXCEPT ![call.dir].snap = vm[B].dev,
                                ![call.dir].mem = vm[B].belief, ![call.dir].page = vm[B].page]
        /\ dirty' = dirty \ {call.dir}
        /\ CallTo("adopt") /\ UNCHANGED vm
     \/ /\ vm[B].vmm = "paused" /\ Failed("resume")
        /\ disk' \in {disk, [disk EXCEPT ![call.dir].mem = Torn]}
        /\ vm' = [vm EXCEPT ![B].stray = @ \/ Moving]
        /\ UNCHANGED dirty
     \/ vm[B].vmm # "paused" /\ Holds /\ CallTo("resume") /\ UNCHANGED <<vm, disk, dirty>>
  /\ UNCHANGED <<kind, tar, net, reported, crossed, writes, calls>>

(* The VM now lives in the named directory; an ephemeral one it came from is  *)
(* removed. A VM resumed from a snapshot written past, or whose drives an     *)
(* earlier, failed relocation left elsewhere,                                 *)
(* makes no promise of its key.                                               *)
Adopt ==
  /\ At("adopt")
  /\ CallTo(IF call.files THEN "files" ELSE "resume")
  /\ reported' = IF vm[B].sound /\ ~vm[B].stray THEN reported \cup {call.dir} ELSE reported
  /\ IF Moving
       THEN /\ disk' = IF vm[B].eph THEN [disk EXCEPT ![vm[B].home] = Empty] ELSE disk
            /\ vm' = [vm EXCEPT ![B].home = call.dir, ![B].eph = FALSE]
       ELSE UNCHANGED <<vm, disk>>
  /\ UNCHANGED <<kind, tar, net, dirty, crossed, writes, calls, faults>>

(* The copy of the overlay the tarball is made from. *)
CopyOverlay ==
  /\ At("files")
  /\ \/ /\ Holds /\ CallTo("resume") /\ disk[vm[B].home].ovl = None
     \/ /\ Holds /\ disk[vm[B].home].ovl # None
        /\ call' = [call EXCEPT !.pc = "resume", !.img = disk[vm[B].home].ovl]
     \/ Failed("resume")
  /\ UNCHANGED <<kind, vm, disk, tar, net, reported, dirty, crossed, writes, calls>>

(* restore, deferred: it runs on every path, and ignores the request's        *)
(* cancellation.                                                              *)
Resume ==
  /\ At("resume")
  /\ call' = IF call.img = None THEN NoCall ELSE [call EXCEPT !.pc = "tar"]
  /\ vm' = IF vm[B].vmm = "paused" THEN [vm EXCEPT ![B].vmm = "running"] ELSE vm
  /\ UNCHANGED <<kind, disk, tar, net, reported, dirty, crossed, writes, calls, faults>>

(* The action takes no lock: another request for the files of the same guest, *)
(* which pauses and resumes it too, resumes it under this capture. A guest    *)
(* that ran while it was being captured is astray.                            *)
OtherResumes ==
  /\ call.pc \in Capturing /\ vm[B].vmm = "paused" /\ Fails /\ calls < MaxCalls
  /\ calls' = calls + 1
  /\ vm' = [vm EXCEPT ![B].vmm = "running", ![B].stray = TRUE]
  /\ call' = [call EXCEPT !.at = None]
  /\ UNCHANGED <<kind, disk, tar, net, reported, dirty, crossed, writes>>

(* snapshot.Capture into filesDst. *)
CaptureFiles ==
  /\ At("tar")
  /\ call' = NoCall
  /\ IF call.img = None THEN Holds /\ UNCHANGED tar ELSE Capture(call.img)
  /\ UNCHANGED <<kind, vm, disk, net, reported, dirty, crossed, writes, calls>>

-----------------------------------------------------------------------------
Network(b) ==
  \/ RedirectEgress(b) \/ WirePackedLinks(b) \/ AddTap(b) \/ LoadNetnsRules(b)
  \/ LoadPodRules(b) \/ LoadContainerPodRules(b) \/ LoadNetnsRules6(b) \/ ListenUDPInNetns(b)

Boot(b) ==
  \/ MountRoot(b) \/ MountOverlay(b) \/ MaybeRestore(b) \/ Network(b)
  \/ LaunchAgent(b) \/ LaunchContainer(b) \/ NSExec(b)
  \/ ResumeAgent(b) \/ ResumeReady(b) \/ BecomesReady(b)

Teardown(b) == CaptureSnapshot(b) \/ UnmountRoot(b)

SnapshotLive ==
  \/ FlushAgent \/ Pause \/ Relocate \/ PatchDrive \/ CreateSnapshot \/ Adopt
  \/ CopyOverlay \/ Resume \/ CaptureFiles \/ OtherResumes

Next ==
  \/ \E b \in Boots :
       \/ \E o \in Octets, d \in Dirs : NewMicroVM(b, o, d)
       \/ \E o \in Octets : NewContainer(b, o)
       \/ Boot(b) \/ GuestWrite(b) \/ WriteBack(b) \/ StopAgent(b) \/ Teardown(b)
       \/ \E d \in Keys \cup {"none"}, f \in BOOLEAN : Snapshot(b, d, f)
  \/ SnapshotLive

Spec == Init /\ [][Next]_vars

-----------------------------------------------------------------------------
(* The content of an image: a write, nothing, or half a copy. *)
Content == Nat \cup {None, Torn}
BootSteps == {"new", "rooted", "restored", "links", "tap", "snat", "dnat", "drop6", "sink",
              "wired", "spawned", "loading"}
VMPcs == BootSteps \cup {"idle", "booting", "up", "down", "captured", "gone", "aborted"}
VMRec == [pc : VMPcs,
          oct : Octets \cup {0}, home : Dirs \cup {"none"}, eph : BOOLEAN, have : BOOLEAN,
          vmm : {"off", "running", "paused"}, dev : Dirs \cup {"none"}, belief : Content,
          page : Content, stray : BOOLEAN, sound : BOOLEAN]
DiskRec == [ovl : Content, prm : BOOLEAN, snap : Dirs \cup {"none"}, mem : Content, page : Content]
CallPcs == Capturing \cup {"idle", "flush", "pause", "resume", "tar"}
CallRec == [pc : CallPcs, b : Boots \cup {"none"},
            dir : Keys \cup {"none"}, files : BOOLEAN, img : Content, at : Content,
            page : Content, late : BOOLEAN]
Parts == {"links", "tap", "snat", "dnat", "fwd", "drop6", "no6"}

TypeOK ==
  /\ kind \in {"microvm", "container"} /\ crossed \in BOOLEAN
  /\ vm \in [Boots -> VMRec] /\ disk \in [Dirs -> DiskRec] /\ call \in CallRec
  /\ tar \in Content /\ net \in [Octets -> SUBSET Parts]
  /\ reported \subseteq Keys /\ dirty \subseteq Keys
  /\ {writes, calls, faults} \subseteq Nat

-----------------------------------------------------------------------------
(* microvm.go:797 and :1240: a guest that was booted cold, or resumed from a  *)
(* snapshot nobody wrote past, always runs on the disk its memory knows,      *)
(* through pauses, relocations, failed captures and re-keying. (A VM is       *)
(* excepted once a relocation of it failed after the repoint: the next one    *)
(* copies the old overlay over the one in use; and once another request       *)
(* resumed it under a capture. All are excepted once                          *)
(* `crossed`: such a VM captured where it is records the drives of the other  *)
(* key, microvm.go:788, and a resume of that snapshot, :1265, opens them      *)
(* although another sandbox may have taken that key by then: two VMs on one   *)
(* overlay.)                                                                  *)
DeviceMatchesMemory ==
  \A b \in Boots :
    vm[b].vmm # "off" /\ vm[b].sound /\ ~vm[b].stray /\ ~crossed
    => disk[vm[b].dev].ovl = vm[b].belief

(* microvm.go:307 and :393: a key whose snapshot was answered captured stays  *)
(* complete and names its own drives, and, unless drives were `crossed` (see  *)
(* above), holds memory and disk of one instant until its owner writes on;    *)
(* neither the end of the VM that made it nor a capture elsewhere takes it    *)
(* away.                                                                      *)
CapturedStaysResumable ==
  \A k \in reported :
    /\ SnapshotReady(k)
    /\ disk[k].snap = k
    /\ k \notin dirty /\ ~crossed => disk[k].ovl = disk[k].mem

(* isolation.go:339: the files part and the VM part of one answer are of one  *)
(* instant, also when the call has just moved the guest's drives: the files   *)
(* are what the captured memory knows to be on its disk, and, when the guest  *)
(* wrote nothing between the request's flush and its pause, all it has        *)
(* written. Excepted are answers that another request's resume cut into, and  *)
(* two VMs that share one overlay (`crossed`).                                *)
FilesOfTheInstant ==
  call.img # None /\ call.at # None /\ ~crossed
  => call.img = call.at /\ (~call.late => call.img = call.page)

(* microvm.go:395, container.go:150: a workload runs only behind a complete   *)
(* set of redirections, whatever an aborted boot left in its slot (IPv6 is    *)
(* dropped, or the kernel says that there is none), and a boot that was torn  *)
(* down leaves neither its rules, but for a container's DNAT rule, nor an     *)
(* unnamed state dir.                                                         *)
Confined ==
  /\ \A b \in Boots :
       /\ vm[b].vmm # "off" => Wired(vm[b].oct)
       /\ vm[b].pc = "gone" => disk[b] = Empty
  /\ \A o \in Octets \ Pooled :
       net[o] \ Leftover # {} => \E b \in Boots : vm[b].oct = o /\ vm[b].pc \notin {"idle", "gone"}
=============================================================================

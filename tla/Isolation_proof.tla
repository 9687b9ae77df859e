-------------------------- MODULE Isolation_proof --------------------------
(***************************************************************************)
(* The safety invariants of Isolation, for any numbers of boots, keys,     *)
(* slots, writes, snapshot calls and failures.                             *)
(***************************************************************************)
EXTENDS Isolation, TLAPS

\* The object of b is in use: by its boot, or by a snapshot call that outlives it.
Held(b) == Active(b) \/ call.b = b
Own(b) == Keys \union {b}

\* Where a boot, its drives and its call can be.
BootInv ==
  \A b \in Boots :
    /\ vm[b].pc = "idle" => vm[b] = NoVM
    /\ Held(b) => vm[b].home \in Own(b) /\ (vm[b].eph <=> vm[b].home = b)
    /\ Active(b) => vm[b].oct \in Octets
    /\ vm[b].dev \in Own(b) \union {"none"}
    /\ vm[b].pc \in BootSteps => vm[b].vmm = "off" /\ vm[b].dev = "none"
    /\ vm[b].vmm # "off" => vm[b].pc \in {"booting", "up"} /\ vm[b].dev # "none"
    /\ vm[b].vmm # "off" /\ vm[b].dev = b => vm[b].home = b
    /\ vm[b].pc \in {"tap", "snat", "drop6", "sink", "spawned", "loading"} => kind = "microvm"
    /\ vm[b].pc = "spawned" => ~vm[b].have
    /\ vm[b].have => kind = "microvm"

\* What a snapshot call is at, and that its guest stands still meanwhile, or is astray.
CallInv ==
  /\ call.pc = "idle" <=> call.b = "none"
  /\ call.pc = "idle" => call = NoCall
  /\ call.b # "none" => vm[call.b].pc \in {"up", "down", "captured", "gone"}
  /\ call.pc \notin {"idle", "tar"} => kind = "microvm"
  /\ call.pc \in {"copy", "patch", "create", "adopt"} => call.dir \in Keys
  /\ call.pc \in {"copy", "patch"} => call.dir # vm[B].home
  /\ call.pc \in Capturing \union {"resume"} /\ vm[B].vmm = "running" => vm[B].stray /\ call.at = None
  /\ call.pc \in Capturing \union {"flush", "pause"} => call.img = None
  /\ \A b \in Boots : vm[b].vmm = "paused" => call.b = b /\ call.pc \in Capturing \union {"resume"}
  /\ call.pc \in {"create", "adopt"} /\ vm[B].vmm # "off" /\ Moving => vm[B].dev = call.dir

\* No two have one state directory, nor the one a call captures into.
HomeInv ==
  \A c \in Boots : Active(c) =>
    /\ \A b \in Boots \ {c} : Held(b) => vm[b].home # vm[c].home
    /\ call.b # "none" /\ call.b # c => call.dir # vm[c].home

\* Nor does one have a drive in the directory of another, until a stray snapshot is resumed.
DriveInv ==
  ~crossed =>
    \A c \in Boots : Active(c) /\ vm[c].dev # "none" =>
      /\ \A b \in Boots \ {c} : Active(b) => vm[c].dev \notin {vm[b].home, vm[b].dev}
      /\ call.b # "none" /\ call.b # c => vm[c].dev \notin {call.dir, vm[call.b].home}

\* A sound VM that is not astray has its drives at home, or where its call has just put them.
DevInv ==
  \A b \in Boots : vm[b].vmm # "off" /\ vm[b].sound /\ ~vm[b].stray =>
    vm[b].dev = IF call.b = b /\ call.pc \in {"create", "adopt"} THEN call.dir ELSE vm[b].home

\* The files a boot has made by the time it needs them.
BuiltAt(b) ==
  /\ vm[b].pc \in BootSteps \ {"new"} /\ ~vm[b].have => disk[vm[b].home].ovl # None
  /\ \/ vm[b].pc \in {"spawned", "booting", "up", "down", "captured"}
     \/ call.b = b /\ vm[b].pc = "gone" /\ vm[b].home # b
     => disk[vm[b].home].ovl # None /\ (kind = "microvm" => disk[vm[b].home].prm)
  /\ vm[b].vmm # "off" => vm[b].belief # None
BuiltInv == \A b \in Boots : BuiltAt(b)

\* A directory the client did not name lives with its boot, unless that was aborted.
UnnamedInv ==
  \A b \in Boots : disk[b] # Empty => vm[b].pc = "aborted" \/ (Active(b) /\ vm[b].home = b)

\* The files a call has made.
MadeInv ==
  /\ call.pc \in {"patch", "create", "adopt"} => disk[call.dir].ovl # None /\ disk[call.dir].prm
  /\ call.pc = "adopt" => disk[call.dir].snap # "none" /\ disk[call.dir].mem # None

\* A snapshot records drives of a named directory.
SnapInv == \A d \in Dirs : disk[d].snap \in Keys \union {"none"}

DiskInv == BuiltInv /\ UnnamedInv /\ MadeInv /\ SnapInv

\* A key that is not resumed is not reported; nor is one that is being captured into.
ColdBoots == \A b \in Boots : vm[b].pc \in BootSteps /\ ~vm[b].have => vm[b].home \notin reported
ColdTarget ==
  call.pc \in {"flush", "pause", "copy", "patch", "create", "adopt"} => call.dir \notin reported

\* A reported key is complete and names its own drives, and so does one about to be reported.
Kept == \A k \in reported : SnapshotReady(k) /\ disk[k].snap = k
Fresh == call.pc = "adopt" /\ vm[B].sound /\ ~vm[B].stray => disk[call.dir].snap = call.dir

ColdInv == ColdBoots /\ ColdTarget /\ Kept /\ Fresh

\* The instant a call captures is the last write its guest knows, and what it copies is of it.
AtBelief ==
  call.pc \in Capturing /\ vm[B].sound /\ ~vm[B].stray =>
    call.at # None /\ (vm[B].vmm # "off" => call.at = vm[B].belief)
OvlAt ==
  call.at # None /\ ~crossed =>
    /\ call.pc \in {"copy", "files"} => disk[vm[B].home].ovl \in {call.at, None}
    /\ call.pc \in {"patch", "create", "adopt"} => disk[call.dir].ovl = call.at
MemAt == call.pc = "adopt" /\ vm[B].sound /\ ~vm[B].stray => disk[call.dir].mem = call.at

InstantInv == AtBelief /\ OvlAt /\ MemAt

\* The files are of that instant.
FilesAt == call.img # None /\ call.at # None /\ ~crossed => call.img = call.at

\* Unless the guest wrote after its flush, all it wrote is on its drive when it is paused.
FlushInv ==
  /\ call.pc = "pause" /\ ~call.late /\ vm[B].vmm = "running" => vm[B].page = vm[B].belief
  /\ call.at # None /\ ~call.late => call.page = call.at
\* A guest, and a snapshot, has a memory.
PageInv ==
  /\ \A b \in Boots : vm[b].vmm # "off" => vm[b].page # None
  /\ \A d \in Dirs : disk[d].snap # "none" => disk[d].page # None

\* Memory and disk of a reported key are of one instant, until its owner writes on.
OneInstant == ~crossed => \A k \in reported \ dirty : disk[k].ovl = disk[k].mem

\* What is wired for a slot outside the pool, at each step of the set-up.
Done(l) ==
  CASE l = "links" -> {}
    [] l = "tap" -> {"links"}
    [] l = "snat" -> {"links", "tap"}
    [] l = "dnat" -> IF kind = "microvm" THEN {"links", "tap", "snat"} ELSE {"links"}
    [] l = "drop6" -> {"links", "tap", "snat", "dnat"}
    [] OTHER -> AllParts

Early == {"new", "rooted", "restored"}
Setup == {"links", "tap", "snat", "dnat", "drop6", "sink"}
Full == {"wired", "spawned", "loading", "booting", "up", "down", "captured"}

NetAt(b) ==
  /\ \A c \in Boots : b # c /\ Active(b) /\ Active(c) => vm[b].oct # vm[c].oct
  /\ vm[b].pc \in Setup \union Full /\ vm[b].oct \notin Pooled =>
       /\ Done(vm[b].pc) \subseteq net[vm[b].oct]
       /\ kind = "microvm" /\ vm[b].pc \in {"sink"} \union Full => net[vm[b].oct] \cap {"drop6", "no6"} # {}
  /\ vm[b].pc \in Setup => vm[b].oct \notin Pooled
NetKept ==
  \A o \in Octets \ Pooled :
    net[o] \ Leftover # {} => \E b \in Boots : vm[b].oct = o /\ vm[b].pc \notin {"idle", "gone"}
NetInv == (\A b \in Boots : NetAt(b)) /\ NetKept

IInv ==
  /\ TypeOK /\ BootInv /\ CallInv /\ HomeInv /\ DriveInv /\ DevInv /\ DiskInv /\ ColdInv
  /\ InstantInv /\ NetInv
  /\ DeviceMatchesMemory /\ OneInstant /\ FilesAt /\ FlushInv /\ PageInv

-----------------------------------------------------------------------------
(* The kinds of steps. What a step does is said field by field, in the form   *)
(* the proofs below need it in; each action of Isolation is of one kind.      *)

Others(b) == \A c \in Boots : c # b => vm'[c] = vm[c]
Place(b) == /\ vm'[b].oct = vm[b].oct /\ vm'[b].home = vm[b].home
            /\ vm'[b].eph = vm[b].eph /\ vm'[b].have = vm[b].have
Drive(b) == /\ vm'[b].dev = vm[b].dev /\ vm'[b].belief = vm[b].belief
            /\ vm'[b].stray = vm[b].stray /\ vm'[b].sound = vm[b].sound
            /\ vm'[b].page = vm[b].page
Steps(b, l) == Others(b) /\ Place(b) /\ Drive(b) /\ vm'[b].vmm = vm[b].vmm /\ vm'[b].pc = l
OnlyDir(d) == \A e \in Dirs : e # d => disk'[e] = disk[e]
promises == <<reported, dirty, crossed>>

Born(b) ==
  /\ vm[b].pc = "idle" /\ Others(b) /\ vm'[b].pc = "new"
  /\ vm'[b].oct \in Octets /\ \A c \in Boots : Active(c) => vm[c].oct # vm'[b].oct
  /\ vm'[b].home \in Own(b) /\ (vm'[b].eph <=> vm'[b].home = b)
  /\ vm'[b].home = b \/ Unowned(vm'[b].home, b)
  /\ vm'[b].have => kind = "microvm"
  /\ ~vm'[b].have => vm'[b].home \notin Keys \/ ~SnapshotReady(vm'[b].home)
  /\ vm'[b].vmm = "off" /\ vm'[b].dev = "none"
  /\ UNCHANGED <<disk, net, call>> /\ UNCHANGED promises

Prepares(b) ==
  /\ vm[b].pc \in BootSteps /\ vm'[b].pc \in BootSteps \ {"new"} /\ Steps(b, vm'[b].pc)
  /\ OnlyDir(vm[b].home)
  /\ disk'[vm[b].home].snap = disk[vm[b].home].snap /\ disk'[vm[b].home].page = disk[vm[b].home].page /\ disk'[vm[b].home].mem = disk[vm[b].home].mem
  /\ \/ disk'[vm[b].home].ovl = disk[vm[b].home].ovl /\ (vm[b].pc = "new" => vm[b].have)
     \/ disk'[vm[b].home].ovl # None /\ ~vm[b].have
  /\ disk[vm[b].home].prm => disk'[vm[b].home].prm
  /\ vm'[b].pc = "spawned" => disk'[vm[b].home].prm /\ ~vm[b].have
  /\ vm'[b].pc \in {"tap", "snat", "drop6", "sink", "spawned", "loading"} => kind = "microvm"
  /\ UNCHANGED call /\ UNCHANGED promises

Aborts(b) ==
  /\ vm[b].pc \in BootSteps /\ Others(b) /\ vm'[b].pc = "aborted" /\ vm'[b].oct = vm[b].oct
  /\ vm'[b].vmm = "off" /\ vm'[b].dev = "none" /\ ~vm'[b].have
  /\ UNCHANGED <<disk, call>> /\ UNCHANGED promises

Launches(b) ==
  /\ vm[b].pc \in BootSteps \ {"new"} /\ Others(b) /\ Place(b)
  /\ vm'[b].pc = "booting" /\ vm'[b].vmm = "running" /\ vm'[b].stray = vm[b].stray
  /\ UNCHANGED <<disk, net, call, reported, dirty>>
  /\ \/ /\ ~vm[b].have /\ (kind = "microvm" => vm[b].pc = "spawned") /\ UNCHANGED crossed
        /\ vm'[b].dev = vm[b].home /\ vm'[b].belief = disk[vm[b].home].ovl
        /\ vm'[b].page = disk[vm[b].home].ovl
     \/ /\ vm[b].pc = "loading" /\ Loadable(vm[b].home)
        /\ vm'[b].dev = disk[vm[b].home].snap /\ vm'[b].belief = disk[vm[b].home].mem
        /\ vm'[b].page = disk[vm[b].home].page
        /\ vm'[b].sound => vm[b].home \in reported \ dirty
        /\ ~crossed' => ~crossed /\ Unowned(disk[vm[b].home].snap, b)

Ages(b) ==
  /\ Others(b) /\ Place(b) /\ Drive(b) /\ vm'[b].vmm = vm[b].vmm
  /\ \/ /\ vm[b].pc = "spawned" /\ vm'[b].pc = "booting"
        /\ vm[b].oct \notin Pooled /\ "links" \notin net[vm[b].oct]
     \/ vm[b].pc = "booting" /\ vm'[b].pc = "up"
     \/ vm[b].pc = "down" /\ vm'[b].pc = "captured"
  /\ UNCHANGED <<disk, net, call>> /\ UNCHANGED promises

Stops(b) ==
  /\ Others(b) /\ Place(b) /\ vm[b].pc \in {"booting", "up"} /\ vm'[b].pc = "down"
  /\ vm'[b].vmm = "off" /\ vm'[b].dev = "none"
  /\ vm'[b].stray = vm[b].stray /\ vm'[b].sound = vm[b].sound
  /\ UNCHANGED <<disk, net, call>> /\ UNCHANGED promises

Ends(b) ==
  /\ vm[b].pc = "captured" /\ Others(b) /\ vm'[b].pc = "gone" /\ vm'[b].oct = 0
  /\ IF call.b = b
     THEN /\ vm'[b].home = vm[b].home /\ vm'[b].eph = vm[b].eph /\ vm'[b].have = vm[b].have
          /\ Drive(b) /\ vm'[b].vmm = vm[b].vmm
     ELSE vm'[b].vmm = "off" /\ vm'[b].dev = "none" /\ ~vm'[b].have
  /\ OnlyDir(vm[b].home) /\ disk'[vm[b].home] = IF vm[b].eph THEN Empty ELSE disk[vm[b].home]
  /\ UNCHANGED call /\ UNCHANGED promises

Writes(b) ==
  /\ vm[b].vmm = "running" /\ Others(b) /\ Place(b)
  /\ vm'[b].pc = vm[b].pc /\ vm'[b].vmm = vm[b].vmm /\ vm'[b].dev = vm[b].dev
  /\ vm'[b].stray = vm[b].stray /\ vm'[b].sound = vm[b].sound
  /\ vm'[b].belief # None /\ vm'[b].page = vm'[b].belief
  /\ disk'[vm[b].dev].ovl = vm'[b].belief /\ OnlyDir(vm[b].dev)
  /\ disk'[vm[b].dev].prm = disk[vm[b].dev].prm /\ disk'[vm[b].dev].snap = disk[vm[b].dev].snap /\ disk'[vm[b].dev].page = disk[vm[b].dev].page
  /\ disk'[vm[b].dev].mem = disk[vm[b].dev].mem
  /\ dirty \subseteq dirty' /\ (vm[b].dev \in Keys => vm[b].dev \in dirty')
  /\ UNCHANGED <<net, call, reported, crossed>>

Dirties(b) ==
  /\ vm[b].vmm = "running" /\ Others(b) /\ Place(b)
  /\ vm'[b].pc = vm[b].pc /\ vm'[b].vmm = vm[b].vmm /\ vm'[b].dev = vm[b].dev
  /\ vm'[b].stray = vm[b].stray /\ vm'[b].sound = vm[b].sound
  /\ vm'[b].belief = vm[b].belief /\ vm'[b].page # None
  /\ call'.pc = call.pc /\ call'.b = call.b /\ call'.dir = call.dir /\ call'.files = call.files
  /\ call'.img = call.img /\ call'.at = call.at /\ call'.page = call.page
  /\ IF call.b = b /\ call.pc \in {"flush", "pause"} THEN call'.late ELSE call' = call
  /\ UNCHANGED <<disk, net>> /\ UNCHANGED promises

CallKeeps == /\ call'.b = call.b /\ call'.dir = call.dir /\ call'.files = call.files
             /\ call'.late = call.late

Asks(b) ==
  /\ call.pc = "idle" /\ call'.b = b /\ vm[b].pc = "up"
  /\ IF kind = "microvm" THEN call'.pc = "flush" /\ call'.img = None
                         ELSE call'.pc = "tar" /\ call'.dir = "none"
  /\ call'.dir = "none" \/ (call'.dir \in Keys /\ Unowned(call'.dir, b))
  /\ call'.at = None /\ reported' \subseteq reported /\ call'.dir \notin reported'
  /\ UNCHANGED <<vm, disk, net, dirty, crossed>>

Flushes ==
  /\ call.pc = "flush" /\ UNCHANGED <<vm, disk, net>> /\ UNCHANGED promises
  /\ \/ /\ CallKeeps /\ call'.img = call.img /\ call'.at = call.at /\ call'.page = call.page
        /\ call'.pc = "pause" /\ (call.late \/ vm[B].page = vm[B].belief)
     \/ call' = NoCall

Pauses ==
  /\ call.pc = "pause" /\ UNCHANGED <<disk, net>> /\ UNCHANGED promises
  /\ \/ /\ vm[B].vmm = "running" /\ Others(B) /\ Place(B) /\ Drive(B)
        /\ vm'[B].pc = vm[B].pc /\ vm'[B].vmm = "paused"
        /\ CallKeeps /\ call'.img = call.img
        /\ call'.pc = IF call.dir = "none" THEN "files" ELSE IF Moving THEN "copy" ELSE "create"
        /\ call'.at = IF vm[B].sound /\ ~vm[B].stray THEN vm[B].belief ELSE None
        /\ call'.page = vm[B].page
     \/ UNCHANGED vm /\ call' = NoCall

Copies ==
  /\ call.pc = "copy" /\ CallKeeps /\ call'.img = call.img /\ call'.at = call.at /\ call'.page = call.page
  /\ OnlyDir(call.dir) /\ disk'[call.dir].snap = disk[call.dir].snap /\ disk'[call.dir].page = disk[call.dir].page
  /\ disk'[call.dir].mem = disk[call.dir].mem
  /\ \/ /\ call'.pc = "patch" /\ disk[vm[B].home].ovl # None
        /\ disk'[call.dir].ovl = disk[vm[B].home].ovl /\ disk'[call.dir].prm = disk[vm[B].home].prm
     \/ /\ call'.pc = "resume" /\ disk'[call.dir].ovl \in {disk[call.dir].ovl, Torn}
        /\ disk'[call.dir].prm = disk[call.dir].prm
  /\ dirty \subseteq dirty'
  /\ UNCHANGED <<vm, net, reported, crossed>>

Repoints ==
  /\ call.pc = "patch" /\ CallKeeps /\ call'.img = call.img /\ call'.at = call.at /\ call'.page = call.page
  /\ Others(B) /\ Place(B) /\ vm'[B].pc = vm[B].pc /\ vm'[B].vmm = vm[B].vmm
  /\ vm'[B].belief = vm[B].belief /\ vm'[B].page = vm[B].page
  /\ vm'[B].sound = vm[B].sound
  /\ \/ /\ call'.pc = "create" /\ vm[B].vmm # "off" /\ vm'[B].dev = call.dir
        /\ vm'[B].stray = vm[B].stray
     \/ call'.pc = "resume" /\ vm'[B].dev = vm[B].dev /\ vm'[B].stray = vm[B].stray
     \/ call'.pc = "resume" /\ vm[B].vmm # "off" /\ vm'[B].dev = call.dir /\ vm'[B].stray
  /\ UNCHANGED <<disk, net>> /\ UNCHANGED promises

Captures ==
  /\ call.pc = "create" /\ CallKeeps /\ call'.img = call.img /\ call'.at = call.at /\ call'.page = call.page
  /\ Others(B) /\ Place(B) /\ vm'[B].pc = vm[B].pc /\ vm'[B].vmm = vm[B].vmm
  /\ vm'[B].dev = vm[B].dev /\ vm'[B].belief = vm[B].belief /\ vm'[B].page = vm[B].page
  /\ vm'[B].sound = vm[B].sound
  /\ OnlyDir(call.dir) /\ disk'[call.dir].ovl = disk[call.dir].ovl
  /\ disk'[call.dir].prm = disk[call.dir].prm
  /\ \/ /\ call'.pc = "adopt" /\ vm[B].vmm = "paused" /\ vm'[B].stray = vm[B].stray
        /\ disk'[call.dir].snap = vm[B].dev /\ disk'[call.dir].mem = vm[B].belief
        /\ disk'[call.dir].page = vm[B].page
     \/ /\ call'.pc = "resume" /\ (vm[B].stray => vm'[B].stray)
        /\ vm[B].vmm # "off" /\ Moving => vm'[B].stray
        /\ disk'[call.dir].snap = disk[call.dir].snap /\ disk'[call.dir].page = disk[call.dir].page
        /\ disk'[call.dir].mem \in {disk[call.dir].mem, Torn}
  /\ dirty \ {call.dir} \subseteq dirty'
  /\ UNCHANGED <<net, reported, crossed>>

Adopts ==
  /\ call.pc = "adopt" /\ CallKeeps /\ call'.img = call.img /\ call'.at = call.at /\ call'.page = call.page
  /\ call'.pc \in {"files", "resume"}
  /\ reported' = IF vm[B].sound /\ ~vm[B].stray THEN reported \union {call.dir} ELSE reported
  /\ Others(B) /\ Drive(B) /\ vm'[B].pc = vm[B].pc /\ vm'[B].vmm = vm[B].vmm
  /\ vm'[B].oct = vm[B].oct /\ vm'[B].have = vm[B].have
  /\ vm'[B].home = call.dir /\ ~vm'[B].eph
  /\ \/ disk' = disk /\ (vm[B].eph => vm[B].home = call.dir)
     \/ vm[B].eph /\ vm[B].home # call.dir /\ OnlyDir(vm[B].home) /\ disk'[vm[B].home] = Empty
  /\ UNCHANGED <<net, dirty, crossed>>

TakesFiles ==
  /\ call.pc = "files" /\ CallKeeps /\ call'.at = call.at /\ call'.page = call.page /\ call'.pc = "resume"
  /\ call'.img = call.img \/ (call'.img = disk[vm[B].home].ovl /\ call'.img # None)
  /\ UNCHANGED <<vm, disk, net>> /\ UNCHANGED promises

Resumes ==
  /\ call.pc = "resume" /\ Others(B) /\ Place(B) /\ Drive(B) /\ vm'[B].pc = vm[B].pc
  /\ vm'[B].vmm = IF vm[B].vmm = "paused" THEN "running" ELSE vm[B].vmm
  /\ \/ call' = NoCall
     \/ CallKeeps /\ call'.pc = "tar" /\ call'.img = call.img /\ call'.at = call.at /\ call'.page = call.page
  /\ UNCHANGED <<disk, net>> /\ UNCHANGED promises

Laps ==
  /\ call.pc \in Capturing /\ vm[B].vmm = "paused"
  /\ Others(B) /\ Place(B) /\ vm'[B].pc = vm[B].pc /\ vm'[B].vmm = "running"
  /\ vm'[B].dev = vm[B].dev /\ vm'[B].belief = vm[B].belief /\ vm'[B].page = vm[B].page
  /\ vm'[B].sound = vm[B].sound /\ vm'[B].stray
  /\ CallKeeps /\ call'.pc = call.pc /\ call'.img = call.img /\ call'.at = None
  /\ call'.page = call.page
  /\ UNCHANGED <<disk, net>> /\ UNCHANGED promises

Tars ==
  /\ call.pc = "tar" /\ call' = NoCall
  /\ UNCHANGED <<vm, disk, net>> /\ UNCHANGED promises

CallStep ==
  \/ Flushes \/ Pauses \/ Copies \/ Repoints \/ Captures \/ Adopts \/ TakesFiles \/ Resumes
  \/ Tars \/ Laps
Step ==
  /\ kind' = kind
  /\ \/ \E b \in Boots :
          \/ Born(b) \/ Prepares(b) \/ Aborts(b) \/ Launches(b) \/ Ages(b) \/ Ends(b) \/ Writes(b)
          \/ Asks(b) \/ Dirties(b) \/ Stops(b)
     \/ CallStep

-----------------------------------------------------------------------------
(* What the building blocks of the actions do to the records they change.     *)

\* Moving on to another step changes nothing else of the boot.
LEMMA GotoEffect ==
  ASSUME TypeOK, NEW b \in Boots, NEW l, Goto(b, l)
  PROVE  /\ Steps(b, l)
         /\ l \in VMPcs => vm' \in [Boots -> VMRec]
  <1>1. vm \in [Boots -> VMRec]
    BY DEF TypeOK
  <1>2. vm' = [vm EXCEPT ![b].pc = l]
    BY DEF Goto
  <1>3. vm[b] \in VMRec /\ vm'[b] = [vm[b] EXCEPT !.pc = l]
    BY <1>1, <1>2
  <1>4. Steps(b, l)
    BY <1>1, <1>2, <1>3 DEF Steps, Others, Place, Drive, VMRec
  <1>5. ASSUME l \in VMPcs PROVE vm' \in [Boots -> VMRec]
    BY <1>1, <1>2, <1>3, <1>5 DEF VMRec, VMPcs
  <1>. QED
    BY <1>4, <1>5 DEF Steps

\* An aborted boot leaves the object, and keeps the name of its slot.
LEMMA AbortEffect ==
  ASSUME TypeOK, NEW b \in Boots, Abort(b)
  PROVE  /\ Others(b) /\ vm'[b].pc = "aborted" /\ vm'[b].oct = vm[b].oct
         /\ vm'[b].vmm = "off" /\ vm'[b].dev = "none" /\ ~vm'[b].have
         /\ vm' \in [Boots -> VMRec]
  <1>1. vm \in [Boots -> VMRec]
    BY DEF TypeOK
  <1>2. vm[b] \in VMRec /\ vm'[b] = [NoVM EXCEPT !.pc = "aborted", !.oct = vm[b].oct]
    BY <1>1 DEF Abort
  <1>3. vm'[b] \in VMRec
    BY <1>2 DEF VMRec, VMPcs, NoVM, Content, None
  <1>. QED
    BY <1>1, <1>2, <1>3 DEF Abort, Others, NoVM

\* A launched workload runs on the drive it was given.
LEMMA RunsEffect ==
  ASSUME TypeOK, NEW b \in Boots, NEW d \in Dirs, NEW w \in Content, NEW q \in Content,
         NEW s \in BOOLEAN, Runs(b, d, w, q, s)
  PROVE  /\ Others(b) /\ Place(b) /\ vm'[b].stray = vm[b].stray
         /\ vm'[b].pc = "booting" /\ vm'[b].vmm = "running"
         /\ vm'[b].dev = d /\ vm'[b].belief = w /\ vm'[b].page = q /\ vm'[b].sound = s
         /\ vm' \in [Boots -> VMRec]
  <1>1. vm \in [Boots -> VMRec]
    BY DEF TypeOK
  <1>2. /\ vm[b] \in VMRec
        /\ vm'[b] = [vm[b] EXCEPT !.pc = "booting", !.vmm = "running", !.dev = d,
                                  !.belief = w, !.page = q, !.sound = s]
    BY <1>1 DEF Runs
  <1>3. vm'[b] \in VMRec
    BY <1>2 DEF VMRec, VMPcs
  <1>. QED
    BY <1>1, <1>2, <1>3 DEF Runs, Others, Place, VMRec

\* A call that moves on keeps everything else.
LEMMA CallToEffect ==
  ASSUME TypeOK, NEW l, CallTo(l)
  PROVE  /\ CallKeeps /\ call'.pc = l /\ call'.img = call.img /\ call'.at = call.at /\ call'.page = call.page
         /\ l \in CallPcs => call' \in CallRec
  BY DEF TypeOK, CallTo, CallRec, CallPcs, CallKeeps

\* A boot under way has a directory; so has the VM a call is about.
LEMMA HomeOf ==
  ASSUME TypeOK, BootInv, NEW b \in Boots, Held(b)
  PROVE  /\ vm[b] \in VMRec /\ vm[b].home \in Dirs
         /\ disk[vm[b].home] \in DiskRec /\ disk[vm[b].home].ovl \in Content
  BY DEF TypeOK, BootInv, Own, Dirs, DiskRec

LEMMA CallOf ==
  ASSUME TypeOK, BootInv, CallInv, call.pc # "idle"
  PROVE  /\ B \in Boots /\ vm[B] \in VMRec /\ vm[B].home \in Dirs /\ Held(B)
         /\ disk[vm[B].home] \in DiskRec /\ vm[B].pc \in {"up", "down", "captured", "gone"}
  <1>1. B \in Boots
    BY DEF TypeOK, CallInv, CallRec, B
  <1>2. Held(B)
    BY DEF Held, B
  <1>. QED
    BY <1>1, <1>2, HomeOf DEF CallInv, B

\* Only the boots that are alive have a slot and a directory.
LEMMA StepsActive ==
  ASSUME NEW b \in Boots, vm[b].pc \in VMPcs \ {"idle", "gone", "aborted"}
  PROVE  Active(b) /\ Held(b)
  BY DEF Active, Held

\* Writing an overlay, or the metadata drive, leaves the rest of the directory.
LEMMA OvlEffect ==
  ASSUME TypeOK, NEW d \in Dirs, NEW w \in Content, disk' = [disk EXCEPT ![d].ovl = w]
  PROVE  /\ OnlyDir(d) /\ disk' \in [Dirs -> DiskRec] /\ disk'[d].ovl = w
         /\ disk'[d].prm = disk[d].prm /\ disk'[d].snap = disk[d].snap /\ disk'[d].page = disk[d].page /\ disk'[d].mem = disk[d].mem
  <1>1. disk \in [Dirs -> DiskRec] /\ disk[d] \in DiskRec /\ disk'[d] = [disk[d] EXCEPT !.ovl = w]
    BY DEF TypeOK
  <1>2. disk'[d] \in DiskRec
    BY <1>1 DEF DiskRec
  <1>. QED
    BY <1>1, <1>2 DEF OnlyDir, DiskRec

LEMMA PrmEffect ==
  ASSUME TypeOK, NEW d \in Dirs, disk' = [disk EXCEPT ![d].prm = TRUE]
  PROVE  /\ OnlyDir(d) /\ disk' \in [Dirs -> DiskRec] /\ disk'[d].prm
         /\ disk'[d].ovl = disk[d].ovl /\ disk'[d].snap = disk[d].snap /\ disk'[d].page = disk[d].page /\ disk'[d].mem = disk[d].mem
  <1>1. disk \in [Dirs -> DiskRec] /\ disk[d] \in DiskRec /\ disk'[d] = [disk[d] EXCEPT !.prm = TRUE]
    BY DEF TypeOK
  <1>2. disk'[d] \in DiskRec
    BY <1>1 DEF DiskRec
  <1>. QED
    BY <1>1, <1>2 DEF OnlyDir, DiskRec

\* The counters and the parts of the state most steps leave alone.
LEMMA FaultsType ==
  ASSUME TypeOK, Fails \/ Holds
  PROVE  faults' \in Nat
  BY DEF TypeOK, Fails, Holds

-----------------------------------------------------------------------------
(* Each action keeps the types, and is a step of one of the kinds.            *)

LEMMA StartsKind ==
  ASSUME TypeOK, BootInv, NEW b \in Boots, NEW o \in Octets, NEW d \in Own(b), NEW r \in BOOLEAN,
         Starts(b, o, d, r), d = b \/ Unowned(d, b), r => kind = "microvm",
         ~r => d \notin Keys \/ ~SnapshotReady(d)
  PROVE  TypeOK' /\ Born(b) /\ kind' = kind
  <1>1. vm \in [Boots -> VMRec] /\ vm[b] = NoVM
    BY DEF TypeOK, BootInv, Starts
  <1>2. PICK e \in BOOLEAN : /\ e <=> d = b
                             /\ vm'[b] = [NoVM EXCEPT !.pc = "new", !.oct = o, !.home = d,
                                                      !.eph = e, !.have = r]
    <2>1. vm'[b] = [NoVM EXCEPT !.pc = "new", !.oct = o, !.home = d, !.eph = (d = b), !.have = r]
      BY <1>1 DEF Starts
    <2>2. CASE d = b
      <3>1. (d = b) = TRUE
        BY <2>2
      <3>. QED
        BY <2>1, <2>2, <3>1
    <2>3. CASE d # b
      <3>1. (d = b) = FALSE
        BY <2>3
      <3>. QED
        BY <2>1, <2>3, <3>1
    <2>. QED
      BY <2>2, <2>3
  <1>3. /\ vm'[b] = [pc |-> "new", oct |-> o, home |-> d, eph |-> e, have |-> r, vmm |-> "off",
                     dev |-> "none", belief |-> None, page |-> None, stray |-> FALSE, sound |-> FALSE]
        /\ vm'[b] \in VMRec
    <2>1. vm'[b] = [pc |-> "new", oct |-> o, home |-> d, eph |-> e, have |-> r, vmm |-> "off",
                    dev |-> "none", belief |-> None, page |-> None, stray |-> FALSE, sound |-> FALSE]
      BY <1>2 DEF NoVM
    <2>2. "new" \in VMPcs /\ d \in Dirs /\ None \in Content
      BY DEF VMPcs, BootSteps, Own, Dirs, Content
    <2>. QED
      BY <2>1, <2>2 DEF VMRec
  <1>4. vm' \in [Boots -> VMRec] /\ Others(b)
    BY <1>1, <1>3 DEF Starts, Others
  <1>5. TypeOK'
    BY <1>4 DEF TypeOK, Starts
  <1>6. /\ vm'[b].pc = "new" /\ vm'[b].oct = o /\ vm'[b].home = d /\ vm'[b].eph = e
        /\ vm'[b].have = r /\ vm'[b].vmm = "off" /\ vm'[b].dev = "none"
    BY <1>3
  <1>7. vm'[b].eph <=> vm'[b].home = b
    BY <1>2, <1>6
  <1>8. (vm'[b].have => kind = "microvm") /\ (~vm'[b].have => d \notin Keys \/ ~SnapshotReady(d))
    BY <1>6
  <1>. QED
    BY <1>4, <1>5, <1>6, <1>7, <1>8 DEF Starts, Born, promises

LEMMA NewKind ==
  ASSUME TypeOK, BootInv, NEW b \in Boots, NEW o \in Octets,
         NewContainer(b, o) \/ \E d \in Dirs : NewMicroVM(b, o, d)
  PROVE  TypeOK' /\ Born(b) /\ kind' = kind
  <1>1. ASSUME NewContainer(b, o) PROVE TypeOK' /\ Born(b) /\ kind' = kind
    BY <1>1, StartsKind, IsolationAssumption DEF NewContainer, Own
  <1>2. ASSUME NEW d \in Dirs, NewMicroVM(b, o, d) PROVE TypeOK' /\ Born(b) /\ kind' = kind
    <2>1. d \in Own(b) /\ (d = b \/ Unowned(d, b))
      BY <1>2 DEF NewMicroVM, StateDirs, Own
    <2>2. SnapshotReady(d) \in BOOLEAN
      BY DEF SnapshotReady, TypeOK, DiskRec
    <2>. QED
      BY <1>2, <2>1, <2>2, StartsKind DEF NewMicroVM
  <1>. QED
    BY <1>1, <1>2

LEMMA RootKind ==
  ASSUME TypeOK, BootInv, NEW b \in Boots, MountRoot(b) \/ MountOverlay(b) \/ MaybeRestore(b)
  PROVE  TypeOK' /\ (Prepares(b) \/ Aborts(b)) /\ kind' = kind
  <1>1. vm[b].pc \in {"new", "rooted"} /\ Active(b) /\ Held(b)
    BY DEF MountRoot, MountOverlay, MaybeRestore, Active, Held
  <1>2. vm[b].home \in Dirs /\ disk[vm[b].home] \in DiskRec
    BY <1>1, HomeOf
  <1>3. /\ UNCHANGED <<kind, tar, net, call, reported, dirty, crossed, writes, calls>>
        /\ Fails \/ Holds
    BY DEF MountRoot, MountOverlay, MaybeRestore
  <1>4. CASE Goto(b, "rooted") \/ Goto(b, "restored")
    <2>1. PICK l \in {"rooted", "restored"} : Goto(b, l)
      BY <1>4
    <2>3. vm' \in [Boots -> VMRec] /\ Steps(b, l)
      BY <2>1, GotoEffect DEF VMPcs, BootSteps
    <2>4. \/ UNCHANGED disk /\ (vm[b].pc = "new" => vm[b].have)
          \/ ~vm[b].have /\ \E w \in Content \ {None} : disk' = [disk EXCEPT ![vm[b].home].ovl = w]
      <3>0. 0 \in Content \ {None} /\ (tar # None => tar \in Content \ {None})
        BY DEF Content, None, TypeOK
      <3>1. kind = "container" => ~vm[b].have
        BY DEF BootInv
      <3>2. ~Abort(b)
        BY <2>3, <2>1, AbortEffect DEF Steps
      <3>. QED
        BY <3>0, <3>1, <3>2, <1>1 DEF MountRoot, MountOverlay, MaybeRestore, BuildEmptyExt4, Unpacked
    <2>5. CASE UNCHANGED disk /\ (vm[b].pc = "new" => vm[b].have)
      <3>1. TypeOK'
        BY <2>5, <2>3, <1>3, FaultsType DEF TypeOK
      <3>2. Prepares(b)
        BY <2>5, <2>3, <1>1, <1>3 DEF Prepares, Steps, OnlyDir, BootSteps, promises
      <3>. QED
        BY <3>1, <3>2, <1>3
    <2>6. CASE ~vm[b].have /\ \E w \in Content \ {None} : disk' = [disk EXCEPT ![vm[b].home].ovl = w]
      <3>0. PICK w \in Content \ {None} : disk' = [disk EXCEPT ![vm[b].home].ovl = w]
        BY <2>6
      <3>1. /\ OnlyDir(vm[b].home) /\ disk' \in [Dirs -> DiskRec] /\ disk'[vm[b].home].ovl = w
            /\ disk'[vm[b].home].prm = disk[vm[b].home].prm
            /\ disk'[vm[b].home].snap = disk[vm[b].home].snap /\ disk'[vm[b].home].page = disk[vm[b].home].page
            /\ disk'[vm[b].home].mem = disk[vm[b].home].mem
        BY <3>0, <1>2, OvlEffect
      <3>2. TypeOK'
        BY <3>1, <2>3, <1>3, FaultsType DEF TypeOK
      <3>3. Prepares(b)
        BY <3>1, <2>6, <2>3, <1>1, <1>3 DEF Prepares, Steps, BootSteps, promises
      <3>. QED
        BY <3>2, <3>3, <1>3
    <2>. QED
      BY <2>4, <2>5, <2>6
  <1>5. CASE Abort(b) /\ UNCHANGED disk
    <2>1. Aborts(b) /\ vm' \in [Boots -> VMRec]
      BY <1>5, <1>1, <1>3, AbortEffect DEF Aborts, BootSteps, promises
    <2>. QED
      BY <2>1, <1>3, <1>5, FaultsType DEF TypeOK
  <1>. QED
    BY <1>4, <1>5 DEF MountRoot, MountOverlay, MaybeRestore


LEMMA NetKind ==
  ASSUME TypeOK, BootInv, NEW b \in Boots, Network(b)
  PROVE  TypeOK' /\ (Prepares(b) \/ Aborts(b)) /\ kind' = kind
  <1> USE DEF Installs, Adds
  <1>1. /\ UNCHANGED <<kind, disk, tar, call, reported, dirty, crossed, writes, calls>>
        /\ vm[b].pc \in {"restored", "links", "tap", "snat", "dnat", "drop6", "sink"}
    BY DEF Network, RedirectEgress, WirePackedLinks, AddTap, LoadNetnsRules, LoadPodRules,
           LoadContainerPodRules, LoadNetnsRules6, ListenUDPInNetns
  <1>2. faults' \in Nat
    BY DEF Network, RedirectEgress, WirePackedLinks, AddTap, LoadNetnsRules, LoadPodRules,
           LoadContainerPodRules, LoadNetnsRules6, ListenUDPInNetns, Holds, Fails, TypeOK
  <1>3. net' \in [Octets -> SUBSET Parts]
    BY DEF Network, RedirectEgress, WirePackedLinks, AddTap, LoadNetnsRules, LoadPodRules,
           LoadContainerPodRules, LoadNetnsRules6, ListenUDPInNetns, TypeOK, Parts, Cleared, Leftover
  <1>4. \/ \E l \in {"links", "tap", "snat", "dnat", "drop6", "sink", "wired"} :
             Goto(b, l) /\ (l \in {"tap", "snat", "drop6", "sink"} => kind = "microvm")
        \/ Abort(b)
    BY DEF Network, RedirectEgress, WirePackedLinks, AddTap, LoadNetnsRules, LoadPodRules,
           LoadContainerPodRules, LoadNetnsRules6, ListenUDPInNetns, BootInv
  <1>5. ASSUME NEW l \in {"links", "tap", "snat", "dnat", "drop6", "sink", "wired"}, Goto(b, l),
               l \in {"tap", "snat", "drop6", "sink"} => kind = "microvm"
        PROVE  TypeOK' /\ Prepares(b)
    <2>1. vm' \in [Boots -> VMRec] /\ Steps(b, l)
      BY <1>5, GotoEffect DEF VMPcs, BootSteps
    <2>2. TypeOK'
      BY <2>1, <1>1, <1>2, <1>3 DEF TypeOK
    <2>3. Prepares(b)
      BY <2>1, <1>1, <1>5 DEF Prepares, Steps, OnlyDir, BootSteps, promises
    <2>. QED
      BY <2>2, <2>3
  <1>6. ASSUME Abort(b) PROVE TypeOK' /\ Aborts(b)
    <2>1. Aborts(b) /\ vm' \in [Boots -> VMRec]
      BY <1>6, <1>1, AbortEffect DEF Aborts, BootSteps, promises
    <2>. QED
      BY <2>1, <1>1, <1>2, <1>3 DEF TypeOK
  <1>. QED
    BY <1>1, <1>4, <1>5, <1>6

LEMMA SpawnKind ==
  ASSUME TypeOK, BootInv, NEW b \in Boots, LaunchAgent(b) \/ ResumeAgent(b)
  PROVE  TypeOK' /\ (Prepares(b) \/ Aborts(b)) /\ kind' = kind
  <1>1. vm[b].pc = "wired" /\ Active(b) /\ Held(b)
    BY DEF LaunchAgent, ResumeAgent, Active, Held
  <1>2. vm[b].home \in Dirs /\ disk[vm[b].home] \in DiskRec
    BY <1>1, HomeOf
  <1>3. /\ UNCHANGED <<kind, tar, net, call, reported, dirty, crossed, writes, calls>>
        /\ Fails \/ Holds
    BY DEF LaunchAgent, ResumeAgent
  <1>4. CASE Goto(b, "spawned") /\ ~vm[b].have /\ kind = "microvm"
             /\ disk' = [disk EXCEPT ![vm[b].home].prm = TRUE]
    <2>1. vm' \in [Boots -> VMRec] /\ Steps(b, "spawned")
      BY <1>4, GotoEffect DEF VMPcs, BootSteps
    <2>2. /\ OnlyDir(vm[b].home) /\ disk' \in [Dirs -> DiskRec] /\ disk'[vm[b].home].prm
          /\ disk'[vm[b].home].ovl = disk[vm[b].home].ovl
          /\ disk'[vm[b].home].snap = disk[vm[b].home].snap /\ disk'[vm[b].home].page = disk[vm[b].home].page
          /\ disk'[vm[b].home].mem = disk[vm[b].home].mem
      BY <1>2, <1>4, PrmEffect
    <2>3. TypeOK'
      BY <2>1, <2>2, <1>3, FaultsType DEF TypeOK
    <2>4. Prepares(b)
      BY <2>1, <2>2, <1>1, <1>3, <1>4 DEF Prepares, Steps, BootSteps, promises
    <2>. QED
      BY <2>3, <2>4, <1>3
  <1>5. CASE Goto(b, "loading") /\ vm[b].have /\ UNCHANGED disk
    <2>1. vm' \in [Boots -> VMRec] /\ Steps(b, "loading")
      BY <1>5, GotoEffect DEF VMPcs, BootSteps
    <2>2. TypeOK'
      BY <2>1, <1>5, <1>3, FaultsType DEF TypeOK
    <2>3. kind = "microvm"
      BY <1>5 DEF BootInv
    <2>4. Prepares(b)
      BY <2>1, <2>3, <1>1, <1>3, <1>5 DEF Prepares, Steps, OnlyDir, BootSteps, promises
    <2>. QED
      BY <2>2, <2>4, <1>3
  <1>6. CASE Abort(b) /\ UNCHANGED disk
    <2>1. Aborts(b) /\ vm' \in [Boots -> VMRec]
      BY <1>6, <1>1, <1>3, AbortEffect DEF Aborts, BootSteps, promises
    <2>. QED
      BY <2>1, <1>3, <1>6, FaultsType DEF TypeOK
  <1>. QED
    BY <1>4, <1>5, <1>6 DEF LaunchAgent, ResumeAgent, BuildParamsDrive

LEMMA LaunchKind ==
  ASSUME TypeOK, BootInv, NEW b \in Boots, NSExec(b) \/ LaunchContainer(b)
  PROVE  TypeOK' /\ (Launches(b) \/ Ages(b) \/ Aborts(b)) /\ kind' = kind
  <1>1. vm[b].pc \in {"wired", "spawned"} /\ Active(b) /\ Held(b)
    BY DEF NSExec, LaunchContainer, Active, Held
  <1>2. vm[b].home \in Dirs /\ disk[vm[b].home].ovl \in Content
    BY <1>1, HomeOf
  <1>3. /\ UNCHANGED <<kind, disk, tar, net, call, reported, dirty, crossed, writes, calls>>
        /\ Fails \/ Holds
    BY DEF NSExec, LaunchContainer, Holds
  <1>4. ~vm[b].have /\ (kind = "microvm" => vm[b].pc = "spawned")
    BY DEF NSExec, LaunchContainer, BootInv
  <1>5. CASE Runs(b, vm[b].home, disk[vm[b].home].ovl, disk[vm[b].home].ovl, TRUE)
    <2>1. /\ Others(b) /\ Place(b) /\ vm'[b].stray = vm[b].stray
          /\ vm'[b].pc = "booting" /\ vm'[b].vmm = "running"
          /\ vm'[b].dev = vm[b].home /\ vm'[b].belief = disk[vm[b].home].ovl
          /\ vm'[b].page = disk[vm[b].home].ovl
          /\ vm' \in [Boots -> VMRec]
      <3> DEFINE w == disk[vm[b].home].ovl
      <3>1. w \in Content /\ TRUE \in BOOLEAN /\ Runs(b, vm[b].home, w, w, TRUE)
        BY <1>2, <1>5
      <3> HIDE DEF w
      <3>2. /\ Others(b) /\ Place(b) /\ vm'[b].stray = vm[b].stray
            /\ vm'[b].pc = "booting" /\ vm'[b].vmm = "running"
            /\ vm'[b].dev = vm[b].home /\ vm'[b].belief = w /\ vm'[b].page = w
            /\ vm' \in [Boots -> VMRec]
        BY <1>2, <3>1, RunsEffect
      <3>. QED
        BY <3>2 DEF w
    <2>2. TypeOK'
      BY <2>1, <1>3, FaultsType DEF TypeOK
    <2>3. Launches(b)
      BY <2>1, <1>1, <1>3, <1>4 DEF Launches, BootSteps
    <2>. QED
      BY <2>2, <2>3, <1>3
  <1>6. CASE /\ vm[b].pc = "spawned" /\ Goto(b, "booting")
             /\ vm[b].oct \notin Pooled /\ "links" \notin net[vm[b].oct]
    <2>1. vm' \in [Boots -> VMRec] /\ Steps(b, "booting")
      BY <1>6, GotoEffect DEF VMPcs
    <2>2. TypeOK'
      BY <2>1, <1>3, FaultsType DEF TypeOK
    <2>3. Ages(b)
      BY <2>1, <1>3, <1>6 DEF Ages, Steps, promises
    <2>. QED
      BY <2>2, <2>3, <1>3
  <1>7. CASE Abort(b)
    <2>1. Aborts(b) /\ vm' \in [Boots -> VMRec]
      BY <1>7, <1>1, <1>3, AbortEffect DEF Aborts, BootSteps, promises
    <2>. QED
      BY <2>1, <1>3, FaultsType DEF TypeOK
  <1>. QED
    BY <1>5, <1>6, <1>7 DEF NSExec, LaunchContainer

LEMMA ResumeKind ==
  ASSUME TypeOK, BootInv, NEW b \in Boots, ResumeReady(b)
  PROVE  TypeOK' /\ (Launches(b) \/ Aborts(b)) /\ kind' = kind
  <1> DEFINE d == vm[b].home
  <1>1. vm[b].pc = "loading" /\ Active(b) /\ Held(b)
    BY DEF ResumeReady, Active, Held
  <1>2. d \in Dirs /\ disk[d] \in DiskRec
    BY <1>1, HomeOf
  <1>3. /\ UNCHANGED <<kind, disk, tar, net, call, reported, dirty, writes, calls>>
        /\ Fails \/ Holds
    BY DEF ResumeReady
  <1>4. CASE /\ Loadable(d) /\ Runs(b, disk[d].snap, disk[d].mem, disk[d].page, d \in reported \ dirty)
             /\ crossed' = (crossed \/ ~Unowned(disk[d].snap, b))
    <2>1. PICK s \in BOOLEAN : (s => d \in reported \ dirty) /\ Runs(b, disk[d].snap, disk[d].mem, disk[d].page, s)
      <3>1. CASE d \in reported \ dirty
        <4>1. (d \in reported \ dirty) = TRUE
          BY <3>1
        <4>. QED
          BY <1>4, <3>1, <4>1
      <3>2. CASE d \notin reported \ dirty
        <4>1. (d \in reported \ dirty) = FALSE
          BY <3>2
        <4>. QED
          BY <1>4, <3>2, <4>1
      <3>. QED
        BY <3>1, <3>2
    <2>2. disk[d].snap \in Dirs /\ disk[d].mem \in Content /\ disk[d].page \in Content
      BY <1>2, <1>4 DEF Loadable, SnapshotReady, DiskRec
    <2>3. /\ Others(b) /\ Place(b) /\ vm'[b].stray = vm[b].stray
          /\ vm'[b].pc = "booting" /\ vm'[b].vmm = "running"
          /\ vm'[b].dev = disk[d].snap /\ vm'[b].belief = disk[d].mem /\ vm'[b].page = disk[d].page
          /\ vm'[b].sound = s
          /\ vm' \in [Boots -> VMRec]
      BY <2>1, <2>2, RunsEffect
    <2>4. crossed' \in BOOLEAN /\ (~crossed' => ~crossed /\ Unowned(disk[d].snap, b))
      BY <1>4
    <2>5. TypeOK'
      BY <2>3, <2>4, <1>3, FaultsType DEF TypeOK
    <2>6. vm'[b].sound => d \in reported \ dirty
      BY <2>1, <2>3
    <2>7. Launches(b)
      BY <2>3, <2>4, <2>6, <1>1, <1>3, <1>4 DEF Launches, BootSteps
    <2>. QED
      BY <2>5, <2>7, <1>3
  <1>5. CASE Abort(b) /\ UNCHANGED crossed
    <2>1. Aborts(b) /\ vm' \in [Boots -> VMRec]
      BY <1>5, <1>1, <1>3, AbortEffect DEF Aborts, BootSteps, promises
    <2>. QED
      BY <2>1, <1>3, <1>5, FaultsType DEF TypeOK
  <1>. QED
    BY <1>4, <1>5 DEF ResumeReady

LEMMA AgesKind ==
  ASSUME TypeOK, BootInv, NEW b \in Boots, BecomesReady(b) \/ StopAgent(b) \/ CaptureSnapshot(b)
  PROVE  TypeOK' /\ (Ages(b) \/ Stops(b)) /\ kind' = kind
  <1>1. /\ UNCHANGED <<kind, disk, net, call, reported, dirty, crossed, writes, calls>>
        /\ Fails \/ Holds
    BY DEF BecomesReady, StopAgent, CaptureSnapshot, Capture, Holds
  <1>2. ASSUME BecomesReady(b) PROVE Ages(b) /\ tar' \in Content /\ vm' \in [Boots -> VMRec]
    <2>1. vm' \in [Boots -> VMRec] /\ Steps(b, "up")
      BY <1>2, GotoEffect DEF BecomesReady, VMPcs
    <2>. QED
      BY <2>1, <1>1, <1>2 DEF BecomesReady, Ages, Steps, promises, TypeOK
  <1>3. ASSUME StopAgent(b) PROVE Stops(b) /\ tar' \in Content /\ vm' \in [Boots -> VMRec]
    <2>1. vm \in [Boots -> VMRec] /\ vm[b] \in VMRec
      BY DEF TypeOK
    <2>2. vm'[b] = [vm[b] EXCEPT !.pc = "down", !.vmm = "off", !.belief = None, !.page = None,
                                 !.dev = "none"]
      BY <2>1, <1>3 DEF StopAgent
    <2>3. vm'[b] \in VMRec
      BY <2>1, <2>2 DEF VMRec, VMPcs, Content
    <2>4. vm' \in [Boots -> VMRec] /\ Others(b)
      BY <2>1, <2>3, <1>3 DEF StopAgent, Others
    <2>5. /\ Place(b) /\ vm'[b].pc = "down" /\ vm'[b].vmm = "off" /\ vm'[b].dev = "none"
          /\ vm'[b].stray = vm[b].stray /\ vm'[b].sound = vm[b].sound
      BY <2>1, <2>2 DEF VMRec, Place
    <2>. QED
      BY <2>4, <2>5, <1>1, <1>3 DEF StopAgent, Stops, promises, TypeOK
  <1>4. ASSUME CaptureSnapshot(b) PROVE Ages(b) /\ tar' \in Content /\ vm' \in [Boots -> VMRec]
    <2>1. vm' \in [Boots -> VMRec] /\ Steps(b, "captured")
      BY <1>4, GotoEffect DEF CaptureSnapshot, VMPcs
    <2>2. disk[vm[b].home].ovl \in Content
      BY <1>4, HomeOf DEF CaptureSnapshot, Held, Active
    <2>. QED
      BY <2>1, <2>2, <1>1, <1>4 DEF CaptureSnapshot, Capture, Ages, Steps, promises, TypeOK
  <1>5. (Ages(b) \/ Stops(b)) /\ tar' \in Content /\ vm' \in [Boots -> VMRec]
    BY <1>2, <1>3, <1>4
  <1>. QED
    BY <1>1, <1>5, FaultsType DEF TypeOK

LEMMA EndsKind ==
  ASSUME TypeOK, BootInv, NEW b \in Boots, UnmountRoot(b)
  PROVE  TypeOK' /\ Ends(b) /\ kind' = kind
  <1>1. vm[b].pc = "captured" /\ Active(b) /\ Held(b)
    BY DEF UnmountRoot, Active, Held
  <1>2. vm \in [Boots -> VMRec] /\ vm[b] \in VMRec /\ vm[b].home \in Dirs
    BY <1>1, HomeOf DEF TypeOK
  <1>3. UNCHANGED <<kind, tar, call, reported, dirty, crossed, writes, calls, faults>>
    BY DEF UnmountRoot
  <1>4. Others(b) /\ (vm'[b] \in VMRec => vm' \in [Boots -> VMRec])
    BY <1>2 DEF UnmountRoot, Ended, Others
  <1>5. /\ vm'[b] \in VMRec /\ vm'[b].pc = "gone" /\ vm'[b].oct = 0
        /\ IF call.b = b
           THEN /\ vm'[b].home = vm[b].home /\ vm'[b].eph = vm[b].eph /\ vm'[b].have = vm[b].have
                /\ Drive(b) /\ vm'[b].vmm = vm[b].vmm
           ELSE vm'[b].vmm = "off" /\ vm'[b].dev = "none" /\ ~vm'[b].have
    <2>1. CASE call.b = b
      <3>1. vm'[b] = [vm[b] EXCEPT !.pc = "gone", !.oct = 0]
        BY <2>1, <1>2 DEF UnmountRoot, Ended
      <3>. QED
        BY <2>1, <3>1, <1>2 DEF VMRec, VMPcs, Drive
    <2>2. CASE call.b # b
      <3>1. vm'[b] = [NoVM EXCEPT !.pc = "gone", !.oct = 0]
        BY <2>2, <1>2 DEF UnmountRoot, Ended
      <3>2. vm'[b] \in VMRec
        BY <3>1 DEF VMRec, VMPcs, NoVM, Content, None
      <3>. QED
        BY <2>2, <3>1, <3>2 DEF NoVM
    <2>. QED
      BY <2>1, <2>2
  <1>6. /\ OnlyDir(vm[b].home) /\ disk' \in [Dirs -> DiskRec]
        /\ disk'[vm[b].home] = IF vm[b].eph THEN Empty ELSE disk[vm[b].home]
    <2>1. Empty \in DiskRec
      BY DEF Empty, DiskRec, Content, None
    <2>2. CASE vm[b].eph
      BY <2>1, <2>2, <1>2 DEF UnmountRoot, OnlyDir, TypeOK
    <2>3. CASE ~vm[b].eph
      BY <2>3, <1>2 DEF UnmountRoot, OnlyDir, TypeOK
    <2>. QED
      BY <2>2, <2>3
  <1>7. net' \in [Octets -> SUBSET Parts]
    BY DEF UnmountRoot, Cleared, TypeOK, Parts
  <1>8. TypeOK'
    BY <1>3, <1>4, <1>5, <1>6, <1>7 DEF TypeOK
  <1>. QED
    BY <1>1, <1>3, <1>4, <1>5, <1>6, <1>8 DEF Ends, promises

LEMMA OnDriveKind ==
  ASSUME TypeOK, BootInv, NEW b \in Boots, NEW w \in Content \ {None}, vm[b].vmm = "running",
         OnDrive(b, w), UNCHANGED <<kind, tar, net, call, reported, crossed, calls, faults>>,
         writes' \in Nat
  PROVE  TypeOK' /\ Writes(b)
  <1>1. vm[b].dev \in Dirs /\ vm[b] \in VMRec /\ vm \in [Boots -> VMRec]
    BY DEF BootInv, TypeOK, Own, Dirs
  <1>3. /\ OnlyDir(vm[b].dev) /\ disk' \in [Dirs -> DiskRec] /\ disk'[vm[b].dev].ovl = w
        /\ disk'[vm[b].dev].prm = disk[vm[b].dev].prm
        /\ disk'[vm[b].dev].snap = disk[vm[b].dev].snap
        /\ disk'[vm[b].dev].mem = disk[vm[b].dev].mem
        /\ disk'[vm[b].dev].page = disk[vm[b].dev].page
    BY <1>1, OvlEffect DEF OnDrive
  <1>4. vm'[b] = [vm[b] EXCEPT !.belief = w, !.page = w]
    BY <1>1 DEF OnDrive
  <1>5. vm' \in [Boots -> VMRec] /\ Others(b)
    BY <1>1, <1>4 DEF OnDrive, Others, VMRec
  <1>6. /\ Place(b) /\ vm'[b].pc = vm[b].pc /\ vm'[b].vmm = vm[b].vmm /\ vm'[b].dev = vm[b].dev
        /\ vm'[b].stray = vm[b].stray /\ vm'[b].sound = vm[b].sound /\ vm'[b].belief = w
        /\ vm'[b].page = w
    BY <1>1, <1>4 DEF VMRec, Place
  <1>7. /\ dirty' \subseteq Keys /\ dirty \subseteq dirty'
        /\ vm[b].dev \in Keys => vm[b].dev \in dirty'
    BY DEF OnDrive, TypeOK
  <1>9. TypeOK'
    BY <1>3, <1>5, <1>7 DEF TypeOK
  <1>. QED
    BY <1>1, <1>3, <1>5, <1>6, <1>7, <1>9 DEF Writes

LEMMA WritesKind ==
  ASSUME TypeOK, BootInv, CallInv, PageInv, NEW b \in Boots, GuestWrite(b) \/ WriteBack(b)
  PROVE  TypeOK' /\ (Writes(b) \/ Dirties(b)) /\ kind' = kind
  <1>1. vm[b].vmm = "running" /\ vm[b] \in VMRec /\ vm \in [Boots -> VMRec] /\ call \in CallRec
    BY DEF GuestWrite, WriteBack, TypeOK
  <1>2. CASE WriteBack(b)
    <2>1. vm[b].page \in Content \ {None}
      BY <1>1 DEF VMRec, PageInv
    <2>. QED
      BY <1>1, <1>2, <2>1, OnDriveKind DEF WriteBack, TypeOK
  <1>3. CASE GuestWrite(b) /\ kind # "microvm"
    <2>1. writes' \in Nat /\ writes' \in Content \ {None}
      BY <1>3 DEF GuestWrite, TypeOK, Content, None
    <2>2. call' = call
      BY <1>3 DEF GuestWrite, CallInv
    <2>3. OnDrive(b, writes') /\ UNCHANGED <<kind, tar, net, reported, crossed, calls, faults>>
      BY <1>3 DEF GuestWrite
    <2>. QED
      BY <1>1, <2>1, <2>2, <2>3, OnDriveKind
  <1>4. CASE GuestWrite(b) /\ kind = "microvm"
    <2>1. writes' \in Nat /\ writes' \in Content \ {None}
      BY <1>4 DEF GuestWrite, TypeOK, Content, None
    <2>2. vm' = [vm EXCEPT ![b].page = writes'] /\ vm'[b] = [vm[b] EXCEPT !.page = writes']
      BY <1>1, <1>4 DEF GuestWrite
    <2>3. vm' \in [Boots -> VMRec] /\ Others(b)
      BY <1>1, <2>1, <2>2 DEF Others, VMRec
    <2>4. /\ Place(b) /\ vm'[b].pc = vm[b].pc /\ vm'[b].vmm = vm[b].vmm /\ vm'[b].dev = vm[b].dev
          /\ vm'[b].stray = vm[b].stray /\ vm'[b].sound = vm[b].sound
          /\ vm'[b].belief = vm[b].belief /\ vm'[b].page # None
      BY <1>1, <2>1, <2>2 DEF VMRec, Place
    <2>5. UNCHANGED <<kind, disk, dirty, tar, net, reported, crossed, calls, faults>>
      BY <1>4 DEF GuestWrite
    <2>6. call' = IF call.b = b /\ call.pc \in {"flush", "pause"} THEN [call EXCEPT !.late = TRUE] ELSE call
      BY <1>4 DEF GuestWrite
    <2>7. /\ call'.pc = call.pc /\ call'.b = call.b /\ call'.dir = call.dir /\ call'.files = call.files
          /\ call'.img = call.img /\ call'.at = call.at /\ call'.page = call.page
          /\ IF call.b = b /\ call.pc \in {"flush", "pause"} THEN call'.late ELSE call' = call
          /\ call' \in CallRec
      BY <1>1, <2>6 DEF CallRec
    <2>8. TypeOK'
      BY <2>1, <2>3, <2>5, <2>7 DEF TypeOK
    <2>. QED
      BY <1>1, <2>3, <2>4, <2>5, <2>7, <2>8 DEF Dirties, promises
  <1>. QED
    BY <1>2, <1>3, <1>4

LEMMA AsksKind ==
  ASSUME TypeOK, BootInv, NEW b \in Boots, NEW d \in Keys \union {"none"}, NEW f \in BOOLEAN,
         Snapshot(b, d, f)
  PROVE  TypeOK' /\ Asks(b) /\ kind' = kind
  <1>1. vm[b].pc = "up" /\ disk[vm[b].home].ovl \in Content
    BY HomeOf DEF Snapshot, Active, Held
  <1>2. /\ call'.pc = (IF kind = "microvm" THEN "flush" ELSE "tar") /\ call'.b = b
        /\ call'.dir = (IF kind = "microvm" THEN d ELSE "none") /\ call'.files = f
        /\ call'.img = (IF kind = "container" /\ f THEN disk[vm[b].home].ovl ELSE None)
        /\ call'.at = None
    BY DEF Snapshot
  <1>3. call' \in CallRec
    BY <1>1 DEF Snapshot, CallRec, CallPcs, Content, None
  <1>4. UNCHANGED <<kind, vm, disk, tar, net, dirty, crossed, writes, faults>>
    BY DEF Snapshot
  <1>5. TypeOK'
    BY <1>3, <1>4 DEF TypeOK, Snapshot
  <1>6. IF kind = "microvm" THEN call'.pc = "flush" /\ call'.img = None
                            ELSE call'.pc = "tar" /\ call'.dir = "none"
    BY <1>2 DEF TypeOK
  <1>7. call'.dir = "none" \/ (call'.dir \in Keys /\ Unowned(call'.dir, b))
    BY <1>2 DEF Snapshot
  <1>8. reported' \subseteq reported /\ call'.dir \notin reported'
    BY <1>2, IsolationAssumption DEF Snapshot, TypeOK
  <1>. QED
    BY <1>1, <1>2, <1>4, <1>5, <1>6, <1>7, <1>8 DEF Asks, Snapshot, At

\* No call: what idle, and the end of every call, leave.
LEMMA NoCallType == NoCall \in CallRec
  BY DEF NoCall, CallRec, CallPcs, Content, None

LEMMA FlushesKind ==
  ASSUME TypeOK, BootInv, CallInv, FlushAgent
  PROVE  TypeOK' /\ Flushes /\ kind' = kind
  <1>1. /\ At("flush") /\ (Fails \/ Holds)
        /\ UNCHANGED <<kind, vm, disk, tar, net, reported, dirty, crossed, writes, calls>>
    BY DEF FlushAgent
  <1>2. CASE CallTo("pause") /\ (call.late \/ vm[B].page = vm[B].belief)
    <2>1. /\ CallKeeps /\ call'.pc = "pause" /\ call'.img = call.img /\ call'.at = call.at
          /\ call'.page = call.page /\ call' \in CallRec
      BY <1>2, CallToEffect DEF CallPcs
    <2>. QED
      BY <1>1, <1>2, <2>1, FaultsType DEF Flushes, At, promises, TypeOK
  <1>3. CASE call' = NoCall
    BY <1>1, <1>3, NoCallType, FaultsType DEF Flushes, At, promises, TypeOK
  <1>. QED
    BY <1>2, <1>3 DEF FlushAgent

LEMMA LapsKind ==
  ASSUME TypeOK, BootInv, CallInv, OtherResumes
  PROVE  TypeOK' /\ Laps /\ kind' = kind
  <1>1. /\ call.pc \in Capturing /\ vm[B].vmm = "paused" /\ Fails
        /\ UNCHANGED <<kind, disk, tar, net, reported, dirty, crossed, writes>> /\ calls' \in Nat
    BY DEF OtherResumes, TypeOK
  <1>2. B \in Boots /\ vm[B] \in VMRec /\ vm \in [Boots -> VMRec] /\ call \in CallRec
    BY <1>1, CallOf DEF Capturing, TypeOK
  <1>3. /\ vm' = [vm EXCEPT ![B].vmm = "running", ![B].stray = TRUE]
        /\ vm'[B] = [vm[B] EXCEPT !.vmm = "running", !.stray = TRUE]
    BY <1>2 DEF OtherResumes
  <1>4. vm' \in [Boots -> VMRec] /\ Others(B)
    BY <1>2, <1>3 DEF Others, VMRec
  <1>5. /\ Place(B) /\ vm'[B].pc = vm[B].pc /\ vm'[B].vmm = "running"
        /\ vm'[B].dev = vm[B].dev /\ vm'[B].belief = vm[B].belief /\ vm'[B].page = vm[B].page
        /\ vm'[B].sound = vm[B].sound /\ vm'[B].stray
    BY <1>2, <1>3 DEF VMRec, Place
  <1>6. /\ CallKeeps /\ call'.pc = call.pc /\ call'.img = call.img /\ call'.at = None
        /\ call'.page = call.page /\ call' \in CallRec
    BY <1>2 DEF OtherResumes, CallKeeps, CallRec, Content
  <1>7. TypeOK'
    BY <1>1, <1>4, <1>6, FaultsType DEF TypeOK
  <1>. QED
    BY <1>1, <1>4, <1>5, <1>6, <1>7 DEF Laps, promises

LEMMA PausesKind ==
  ASSUME TypeOK, BootInv, CallInv, Pause
  PROVE  TypeOK' /\ Pauses /\ kind' = kind
  <1>1. At("pause") /\ B \in Boots /\ vm[B] \in VMRec /\ vm \in [Boots -> VMRec] /\ call \in CallRec
    BY CallOf DEF Pause, At, TypeOK
  <1>2. UNCHANGED <<kind, disk, tar, net, reported, dirty, crossed, writes, calls>> /\ Holds
    BY DEF Pause
  <1>3. CASE vm[B].vmm = "running" /\ vm' = [vm EXCEPT ![B].vmm = "paused"] /\ CaptureFrom
    <2>1. vm'[B] = [vm[B] EXCEPT !.vmm = "paused"]
      BY <1>1, <1>3
    <2>2. vm' \in [Boots -> VMRec] /\ Others(B)
      BY <1>1, <1>3, <2>1 DEF Others, VMRec
    <2>3. Place(B) /\ Drive(B) /\ vm'[B].pc = vm[B].pc /\ vm'[B].vmm = "paused"
      BY <1>1, <2>1 DEF VMRec, Place, Drive
    <2>4. /\ CallKeeps /\ call'.img = call.img
          /\ call'.pc = IF call.dir = "none" THEN "files" ELSE IF Moving THEN "copy" ELSE "create"
          /\ call'.at = IF vm[B].sound /\ ~vm[B].stray THEN vm[B].belief ELSE None
          /\ call'.page = vm[B].page
      BY <1>1, <1>3 DEF CaptureFrom, CallKeeps, CallRec
    <2>5. vm[B].belief \in Content /\ None \in Content /\ vm[B].page \in Content
      BY <1>1 DEF VMRec, Content
    <2>6. call'.pc \in CallPcs /\ call'.at \in Content
      BY <2>4, <2>5 DEF CallPcs, Capturing
    <2>7. call' \in CallRec
      BY <1>1, <1>3, <2>4, <2>5, <2>6 DEF CaptureFrom, CallRec
    <2>8. TypeOK'
      BY <2>2, <2>7, <1>2 DEF TypeOK, Holds
    <2>. QED
      BY <1>1, <1>2, <1>3, <2>2, <2>3, <2>4, <2>8 DEF Pauses, At, promises
  <1>4. CASE call' = NoCall /\ UNCHANGED vm
    BY <1>1, <1>2, <1>4, NoCallType DEF Pauses, At, promises, TypeOK, Holds
  <1>. QED
    BY <1>3, <1>4 DEF Pause

LEMMA CopiesKind ==
  ASSUME TypeOK, BootInv, CallInv, Relocate
  PROVE  TypeOK' /\ Copies /\ kind' = kind
  <1> DEFINE old == disk[vm[B].home]
             d == call.dir
  <1>1. At("copy") /\ d \in Keys /\ d \in Dirs /\ old \in DiskRec /\ disk[d] \in DiskRec
    BY CallOf DEF Relocate, At, CallInv, Dirs, TypeOK
  <1>2. UNCHANGED <<kind, vm, tar, net, reported, crossed, writes, calls>> /\ (Fails \/ Holds)
    BY DEF Relocate, Failed
  <1>3. CASE /\ old.ovl # None /\ CallTo("patch") /\ dirty' = dirty \union {d}
             /\ disk' = [disk EXCEPT ![d].ovl = old.ovl, ![d].prm = old.prm]
    <2>1. disk'[d] = [disk[d] EXCEPT !.ovl = old.ovl, !.prm = old.prm]
      BY <1>1, <1>3 DEF TypeOK
    <2>2. /\ disk'[d] \in DiskRec /\ disk'[d].ovl = old.ovl /\ disk'[d].prm = old.prm
          /\ disk'[d].snap = disk[d].snap /\ disk'[d].page = disk[d].page /\ disk'[d].mem = disk[d].mem
      BY <1>1, <2>1 DEF DiskRec
    <2>3. OnlyDir(d) /\ disk' \in [Dirs -> DiskRec]
      BY <1>1, <1>3, <2>2 DEF TypeOK, OnlyDir
    <2>4. /\ CallKeeps /\ call'.pc = "patch" /\ call'.img = call.img /\ call'.at = call.at /\ call'.page = call.page
          /\ call' \in CallRec
      BY <1>3, CallToEffect DEF CallPcs, Capturing
    <2>5. TypeOK'
      BY <1>1, <1>2, <1>3, <2>3, <2>4, FaultsType DEF TypeOK
    <2>. QED
      BY <1>1, <1>2, <1>3, <2>2, <2>3, <2>4, <2>5 DEF Copies, At
  <1>4. CASE /\ CallTo("resume") /\ dirty' = dirty \union {d}
             /\ disk' = [disk EXCEPT ![d].ovl = Torn]
    <2>1. Torn \in Content
      BY DEF Content
    <2>2. /\ OnlyDir(d) /\ disk' \in [Dirs -> DiskRec] /\ disk'[d].ovl = Torn
          /\ disk'[d].prm = disk[d].prm /\ disk'[d].snap = disk[d].snap /\ disk'[d].page = disk[d].page /\ disk'[d].mem = disk[d].mem
      BY <1>1, <1>4, <2>1, OvlEffect
    <2>4. /\ CallKeeps /\ call'.pc = "resume" /\ call'.img = call.img /\ call'.at = call.at /\ call'.page = call.page
          /\ call' \in CallRec
      BY <1>4, CallToEffect DEF CallPcs
    <2>5. TypeOK'
      BY <1>1, <1>2, <1>4, <2>2, <2>4, FaultsType DEF TypeOK
    <2>. QED
      BY <1>1, <1>2, <1>4, <2>2, <2>4, <2>5 DEF Copies, At
  <1>5. CASE CallTo("resume") /\ UNCHANGED <<disk, dirty>>
    <2>4. /\ CallKeeps /\ call'.pc = "resume" /\ call'.img = call.img /\ call'.at = call.at /\ call'.page = call.page
          /\ call' \in CallRec
      BY <1>5, CallToEffect DEF CallPcs
    <2>5. TypeOK'
      BY <1>1, <1>2, <1>5, <2>4, FaultsType DEF TypeOK
    <2>. QED
      BY <1>1, <1>2, <1>5, <2>4, <2>5 DEF Copies, At, OnlyDir
  <1>. QED
    BY <1>3, <1>4, <1>5 DEF Relocate, Failed

LEMMA RepointsKind ==
  ASSUME TypeOK, BootInv, CallInv, PatchDrive
  PROVE  TypeOK' /\ Repoints /\ kind' = kind
  <1>1. /\ At("patch") /\ B \in Boots /\ vm[B] \in VMRec /\ vm \in [Boots -> VMRec]
        /\ call.dir \in Dirs
    BY CallOf DEF PatchDrive, At, CallInv, Dirs, TypeOK
  <1>2. UNCHANGED <<kind, disk, tar, net, reported, dirty, crossed, writes, calls>> /\ (Fails \/ Holds)
    BY DEF PatchDrive, Failed
  <1>3. PICK l \in {"create", "resume"} : CallTo(l)
    BY DEF PatchDrive, Failed
  <1>4. /\ CallKeeps /\ call'.pc = l /\ call'.img = call.img /\ call'.at = call.at /\ call'.page = call.page
        /\ call' \in CallRec
    BY <1>3, CallToEffect DEF CallPcs, Capturing
  <1>5. CASE vm[B].vmm # "off" /\ CallTo("create") /\ vm' = [vm EXCEPT ![B].dev = call.dir]
    <2>1. vm'[B] = [vm[B] EXCEPT !.dev = call.dir] /\ l = "create"
      BY <1>1, <1>4, <1>5, CallToEffect
    <2>2. vm' \in [Boots -> VMRec] /\ Others(B)
      BY <1>1, <1>5, <2>1 DEF Others, VMRec
    <2>3. /\ Place(B) /\ vm'[B].pc = vm[B].pc /\ vm'[B].vmm = vm[B].vmm /\ vm'[B].dev = call.dir
          /\ vm'[B].belief = vm[B].belief /\ vm'[B].page = vm[B].page
          /\ vm'[B].sound = vm[B].sound
          /\ vm'[B].stray = vm[B].stray
      BY <1>1, <2>1 DEF VMRec, Place
    <2>. QED
      BY <1>1, <1>2, <1>4, <1>5, <2>1, <2>2, <2>3, FaultsType DEF Repoints, At, promises, TypeOK
  <1>6. CASE /\ vm[B].vmm # "off" /\ CallTo("resume")
             /\ vm' = [vm EXCEPT ![B].dev = call.dir, ![B].stray = TRUE]
    <2>1. vm'[B] = [vm[B] EXCEPT !.dev = call.dir, !.stray = TRUE] /\ l = "resume"
      BY <1>1, <1>4, <1>6, CallToEffect
    <2>2. vm' \in [Boots -> VMRec] /\ Others(B)
      BY <1>1, <1>6, <2>1 DEF Others, VMRec
    <2>3. /\ Place(B) /\ vm'[B].pc = vm[B].pc /\ vm'[B].vmm = vm[B].vmm /\ vm'[B].dev = call.dir
          /\ vm'[B].belief = vm[B].belief /\ vm'[B].page = vm[B].page
          /\ vm'[B].sound = vm[B].sound /\ vm'[B].stray
      BY <1>1, <2>1 DEF VMRec, Place
    <2>. QED
      BY <1>1, <1>2, <1>4, <1>6, <2>1, <2>2, <2>3, FaultsType DEF Repoints, At, promises, TypeOK
  <1>7. CASE CallTo("resume") /\ UNCHANGED vm
    <2>1. l = "resume"
      BY <1>4, <1>7, CallToEffect
    <2>. QED
      BY <1>1, <1>2, <1>4, <1>7, <2>1, FaultsType
         DEF Repoints, At, promises, TypeOK, Others, Place
  <1>. QED
    BY <1>5, <1>6, <1>7 DEF PatchDrive, Failed

LEMMA CapturesKind ==
  ASSUME TypeOK, BootInv, CallInv, CreateSnapshot
  PROVE  TypeOK' /\ Captures /\ kind' = kind
  <1> DEFINE d == call.dir
  <1>1. /\ At("create") /\ B \in Boots /\ vm[B] \in VMRec /\ vm \in [Boots -> VMRec]
        /\ d \in Dirs /\ disk[d] \in DiskRec /\ disk \in [Dirs -> DiskRec]
    BY CallOf DEF CreateSnapshot, At, CallInv, Dirs, TypeOK
  <1>2. UNCHANGED <<kind, tar, net, reported, crossed, writes, calls>> /\ (Fails \/ Holds)
    BY DEF CreateSnapshot, Failed
  <1>3. CASE /\ vm[B].vmm = "paused" /\ CallTo("adopt") /\ UNCHANGED vm /\ dirty' = dirty \ {d}
             /\ disk' = [disk EXCEPT ![d].snap = vm[B].dev, ![d].mem = vm[B].belief, ![d].page = vm[B].page]
    <2>1. disk'[d] = [disk[d] EXCEPT !.snap = vm[B].dev, !.mem = vm[B].belief, !.page = vm[B].page]
      BY <1>1, <1>3
    <2>2. /\ disk'[d] \in DiskRec /\ disk'[d].snap = vm[B].dev /\ disk'[d].mem = vm[B].belief
          /\ disk'[d].page = vm[B].page
          /\ disk'[d].ovl = disk[d].ovl /\ disk'[d].prm = disk[d].prm
      BY <1>1, <2>1 DEF DiskRec, VMRec
    <2>3. OnlyDir(d) /\ disk' \in [Dirs -> DiskRec]
      BY <1>1, <1>3, <2>2 DEF OnlyDir
    <2>4. /\ CallKeeps /\ call'.pc = "adopt" /\ call'.img = call.img /\ call'.at = call.at /\ call'.page = call.page
          /\ call' \in CallRec
      BY <1>3, CallToEffect DEF CallPcs, Capturing
    <2>5. TypeOK'
      BY <1>1, <1>2, <1>3, <2>3, <2>4, FaultsType DEF TypeOK
    <2>. QED
      BY <1>1, <1>2, <1>3, <2>2, <2>3, <2>4, <2>5 DEF Captures, At, Others, Place
  <1>4. CASE /\ CallTo("resume") /\ UNCHANGED dirty
             /\ disk' \in {disk, [disk EXCEPT ![d].mem = Torn]}
             /\ vm' = [vm EXCEPT ![B].stray = @ \/ Moving]
    <2>1. /\ disk'[d] \in DiskRec /\ disk'[d].mem \in {disk[d].mem, Torn}
          /\ disk'[d].ovl = disk[d].ovl /\ disk'[d].prm = disk[d].prm /\ disk'[d].snap = disk[d].snap /\ disk'[d].page = disk[d].page
          /\ OnlyDir(d) /\ disk' \in [Dirs -> DiskRec]
      <3>1. CASE disk' = disk
        BY <1>1, <3>1 DEF OnlyDir
      <3>2. CASE disk' = [disk EXCEPT ![d].mem = Torn]
        <4>1. disk'[d] = [disk[d] EXCEPT !.mem = Torn]
          BY <1>1, <3>2
        <4>2. /\ disk'[d] \in DiskRec /\ disk'[d].mem = Torn
              /\ disk'[d].ovl = disk[d].ovl /\ disk'[d].prm = disk[d].prm /\ disk'[d].snap = disk[d].snap /\ disk'[d].page = disk[d].page
          BY <1>1, <4>1 DEF DiskRec, Content
        <4>. QED
          BY <1>1, <3>2, <4>2 DEF OnlyDir
      <3>. QED
        BY <1>4, <3>1, <3>2
    <2>2. PICK s \in BOOLEAN : (s <=> vm[B].stray \/ Moving) /\ vm'[B] = [vm[B] EXCEPT !.stray = s]
      <3>1. vm'[B] = [vm[B] EXCEPT !.stray = (vm[B].stray \/ Moving)]
        BY <1>1, <1>4
      <3>2. (vm[B].stray \/ Moving) \in BOOLEAN
        BY Zenon
      <3>. QED
        BY <3>1, <3>2, Zenon
    <2>3. /\ vm'[B] \in VMRec /\ vm'[B].stray = s /\ Place(B) /\ vm'[B].pc = vm[B].pc
          /\ vm'[B].vmm = vm[B].vmm /\ vm'[B].dev = vm[B].dev /\ vm'[B].belief = vm[B].belief
          /\ vm'[B].page = vm[B].page
          /\ vm'[B].sound = vm[B].sound
      BY <1>1, <2>2 DEF VMRec, Place
    <2>4. vm' \in [Boots -> VMRec] /\ Others(B)
      BY <1>1, <1>4, <2>3 DEF Others
    <2>5. /\ CallKeeps /\ call'.pc = "resume" /\ call'.img = call.img /\ call'.at = call.at /\ call'.page = call.page
          /\ call' \in CallRec
      BY <1>4, CallToEffect DEF CallPcs
    <2>6. TypeOK'
      BY <1>2, <1>4, <2>1, <2>4, <2>5, FaultsType DEF TypeOK
    <2>7. (vm[B].stray => vm'[B].stray) /\ (Moving => vm'[B].stray)
      BY <2>2, <2>3
    <2>. QED
      BY <1>1, <1>2, <1>4, <2>1, <2>3, <2>4, <2>5, <2>6, <2>7 DEF Captures, At
  <1>5. CASE vm[B].vmm # "paused" /\ CallTo("resume") /\ UNCHANGED <<vm, disk, dirty>>
    <2>4. /\ CallKeeps /\ call'.pc = "resume" /\ call'.img = call.img /\ call'.at = call.at /\ call'.page = call.page
          /\ call' \in CallRec
      BY <1>5, CallToEffect DEF CallPcs
    <2>5. TypeOK'
      BY <1>1, <1>2, <1>5, <2>4, FaultsType DEF TypeOK
    <2>6. vm[B].vmm # "off" => vm[B].stray
      BY <1>1, <1>5 DEF CallInv, Capturing, At, VMRec
    <2>. QED
      BY <1>1, <1>2, <1>5, <2>4, <2>5, <2>6 DEF Captures, At, OnlyDir, Others, Place
  <1>. QED
    BY <1>3, <1>4, <1>5 DEF CreateSnapshot, Failed

LEMMA AdoptsKind ==
  ASSUME TypeOK, BootInv, CallInv, Adopt
  PROVE  TypeOK' /\ Adopts /\ kind' = kind
  <1> DEFINE d == call.dir
  <1>1. /\ At("adopt") /\ B \in Boots /\ vm[B] \in VMRec /\ vm \in [Boots -> VMRec]
        /\ d \in Keys /\ d \in Dirs /\ vm[B].home \in Dirs /\ disk \in [Dirs -> DiskRec]
    BY CallOf DEF Adopt, At, CallInv, Dirs, TypeOK
  <1>2. UNCHANGED <<kind, tar, net, dirty, crossed, writes, calls, faults>>
    BY DEF Adopt
  <1>3. PICK l \in {"files", "resume"} : CallTo(l)
    BY DEF Adopt
  <1>4. /\ CallKeeps /\ call'.pc = l /\ call'.img = call.img /\ call'.at = call.at /\ call'.page = call.page
        /\ call' \in CallRec
    BY <1>3, CallToEffect DEF CallPcs, Capturing
  <1>5. /\ reported' = IF vm[B].sound /\ ~vm[B].stray THEN reported \union {d} ELSE reported
        /\ reported' \subseteq Keys
    BY <1>1 DEF Adopt, TypeOK
  <1>6. d # "none" /\ (Moving <=> d # vm[B].home) /\ (vm[B].eph => vm[B].home \notin Keys)
    BY <1>1, CallOf, IsolationAssumption DEF Moving, BootInv, At
  <1>7. CASE Moving
    <2>1. /\ vm' = [vm EXCEPT ![B].home = d, ![B].eph = FALSE]
          /\ disk' = IF vm[B].eph THEN [disk EXCEPT ![vm[B].home] = Empty] ELSE disk
      BY <1>7 DEF Adopt
    <2>2. vm'[B] = [vm[B] EXCEPT !.home = d, !.eph = FALSE]
      BY <1>1, <2>1
    <2>3. /\ Drive(B) /\ vm'[B].pc = vm[B].pc /\ vm'[B].vmm = vm[B].vmm
          /\ vm'[B].oct = vm[B].oct /\ vm'[B].have = vm[B].have
          /\ vm'[B].home = d /\ ~vm'[B].eph /\ vm'[B] \in VMRec
      BY <1>1, <2>2 DEF VMRec, Drive
    <2>4. vm' \in [Boots -> VMRec] /\ Others(B)
      BY <1>1, <2>1, <2>3 DEF Others
    <2>5. /\ disk' \in [Dirs -> DiskRec]
          /\ \/ disk' = disk /\ (vm[B].eph => vm[B].home = d)
             \/ vm[B].eph /\ vm[B].home # d /\ OnlyDir(vm[B].home) /\ disk'[vm[B].home] = Empty
      <3>1. Empty \in DiskRec
        BY DEF Empty, DiskRec, Content, None
      <3>2. CASE vm[B].eph
        BY <1>1, <1>6, <1>7, <2>1, <3>1, <3>2 DEF OnlyDir
      <3>3. CASE ~vm[B].eph
        BY <1>1, <2>1, <3>3
      <3>. QED
        BY <3>2, <3>3
    <2>6. TypeOK'
      BY <1>2, <1>4, <1>5, <2>4, <2>5 DEF TypeOK
    <2>. QED
      BY <1>1, <1>2, <1>4, <1>5, <2>3, <2>4, <2>5, <2>6 DEF Adopts, At
  <1>8. CASE ~Moving
    <2>1. UNCHANGED <<vm, disk>> /\ vm[B].home = d /\ ~vm[B].eph
      BY <1>1, <1>6, <1>8 DEF Adopt
    <2>2. TypeOK'
      BY <1>2, <1>4, <1>5, <2>1 DEF TypeOK
    <2>. QED
      BY <1>1, <1>2, <1>4, <1>5, <2>1, <2>2 DEF Adopts, At, Others, Drive
  <1>. QED
    BY <1>7, <1>8

LEMMA FilesKind ==
  ASSUME TypeOK, BootInv, CallInv, CopyOverlay
  PROVE  TypeOK' /\ TakesFiles /\ kind' = kind
  <1>1. At("files") /\ call \in CallRec /\ disk[vm[B].home].ovl \in Content
    BY CallOf DEF CopyOverlay, At, TypeOK, DiskRec
  <1>2. UNCHANGED <<kind, vm, disk, tar, net, reported, dirty, crossed, writes, calls>>
        /\ (Fails \/ Holds)
    BY DEF CopyOverlay, Failed
  <1>3. CASE CallTo("resume")
    <2>1. /\ CallKeeps /\ call'.pc = "resume" /\ call'.img = call.img /\ call'.at = call.at /\ call'.page = call.page
          /\ call' \in CallRec
      BY <1>3, CallToEffect DEF CallPcs
    <2>. QED
      BY <1>1, <1>2, <2>1, FaultsType DEF TakesFiles, At, promises, TypeOK
  <1>4. CASE /\ disk[vm[B].home].ovl # None
             /\ call' = [call EXCEPT !.pc = "resume", !.img = disk[vm[B].home].ovl]
    <2>1. /\ CallKeeps /\ call'.pc = "resume" /\ call'.img = disk[vm[B].home].ovl
          /\ call'.at = call.at /\ call'.page = call.page /\ call' \in CallRec
      BY <1>1, <1>4 DEF CallKeeps, CallRec, CallPcs
    <2>. QED
      BY <1>1, <1>2, <1>4, <2>1, FaultsType DEF TakesFiles, At, promises, TypeOK
  <1>. QED
    BY <1>3, <1>4 DEF CopyOverlay, Failed

LEMMA ResumesKind ==
  ASSUME TypeOK, BootInv, CallInv, Resume
  PROVE  TypeOK' /\ Resumes /\ kind' = kind
  <1>1. At("resume") /\ B \in Boots /\ vm[B] \in VMRec /\ vm \in [Boots -> VMRec] /\ call \in CallRec
    BY CallOf DEF Resume, At, TypeOK
  <1>2. UNCHANGED <<kind, disk, tar, net, reported, dirty, crossed, writes, calls, faults>>
    BY DEF Resume
  <1>3. /\ call' \in CallRec
        /\ \/ call' = NoCall
           \/ CallKeeps /\ call'.pc = "tar" /\ call'.img = call.img /\ call'.at = call.at /\ call'.page = call.page
    BY <1>1, NoCallType DEF Resume, CallKeeps, CallRec, CallPcs
  <1>4. /\ vm' \in [Boots -> VMRec] /\ Others(B) /\ Place(B) /\ Drive(B) /\ vm'[B].pc = vm[B].pc
        /\ vm'[B].vmm = IF vm[B].vmm = "paused" THEN "running" ELSE vm[B].vmm
    <2>1. CASE vm[B].vmm = "paused"
      <3>1. vm' = [vm EXCEPT ![B].vmm = "running"] /\ vm'[B] = [vm[B] EXCEPT !.vmm = "running"]
        BY <1>1, <2>1 DEF Resume
      <3>2. /\ vm'[B] \in VMRec /\ Place(B) /\ Drive(B) /\ vm'[B].pc = vm[B].pc
            /\ vm'[B].vmm = "running"
        BY <1>1, <3>1 DEF VMRec, Place, Drive
      <3>. QED
        BY <1>1, <2>1, <3>1, <3>2 DEF Others
    <2>2. CASE vm[B].vmm # "paused"
      BY <1>1, <2>2 DEF Resume, Others, Place, Drive
    <2>. QED
      BY <2>1, <2>2
  <1>. QED
    BY <1>1, <1>2, <1>3, <1>4 DEF Resumes, At, promises, TypeOK

LEMMA TarsKind ==
  ASSUME TypeOK, CaptureFiles
  PROVE  TypeOK' /\ Tars /\ kind' = kind
  <1>1. /\ At("tar") /\ call' = NoCall /\ (Fails \/ Holds)
        /\ UNCHANGED <<kind, vm, disk, net, reported, dirty, crossed, writes, calls>>
    BY DEF CaptureFiles, Capture
  <1>2. tar' \in Content
    BY DEF CaptureFiles, Capture, TypeOK, CallRec
  <1>. QED
    BY <1>1, <1>2, NoCallType, FaultsType DEF Tars, At, promises, TypeOK

\* Every action is a step of one of the kinds, and keeps the types.
LEMMA NextIsStep ==
  ASSUME TypeOK, BootInv, CallInv, PageInv, Next
  PROVE  TypeOK' /\ Step
  <1>1. ASSUME NEW b \in Boots,
               \/ \E o \in Octets, d \in Dirs : NewMicroVM(b, o, d)
               \/ \E o \in Octets : NewContainer(b, o)
        PROVE  TypeOK' /\ Step
    BY <1>1, NewKind DEF Step
  <1>2. ASSUME NEW b \in Boots, Boot(b) PROVE TypeOK' /\ Step
    <2>1. TypeOK' /\ kind' = kind /\ (Prepares(b) \/ Aborts(b) \/ Launches(b) \/ Ages(b) \/ Stops(b))
      BY <1>2, RootKind, NetKind, SpawnKind, LaunchKind, ResumeKind, AgesKind DEF Boot
    <2>. QED
      BY <2>1 DEF Step
  <1>3. ASSUME NEW b \in Boots, GuestWrite(b) \/ WriteBack(b) \/ StopAgent(b) \/ Teardown(b)
        PROVE  TypeOK' /\ Step
    BY <1>3, WritesKind, AgesKind, EndsKind DEF Teardown, Step
  <1>4. ASSUME NEW b \in Boots, NEW d \in Keys \union {"none"}, NEW f \in BOOLEAN, Snapshot(b, d, f)
        PROVE  TypeOK' /\ Step
    BY <1>4, AsksKind DEF Step
  <1>5. ASSUME SnapshotLive PROVE TypeOK' /\ Step
    BY <1>5, FlushesKind, LapsKind, PausesKind, CopiesKind, RepointsKind, CapturesKind, AdoptsKind, FilesKind, ResumesKind,
       TarsKind DEF SnapshotLive, Step, CallStep
  <1>. QED
    BY <1>1, <1>2, <1>3, <1>4, <1>5 DEF Next

-----------------------------------------------------------------------------
(* The invariant, part by part.                                               *)

\* The records of the boots stay in order.
LEMMA BootStep ==
  ASSUME TypeOK, BootInv, CallInv, SnapInv, TypeOK', Step
  PROVE  BootInv'
  <1>t. /\ vm \in [Boots -> VMRec] /\ call \in CallRec /\ "none" \notin Boots /\ Boots \cap Keys = {}
        /\ vm' \in [Boots -> VMRec] /\ call' \in CallRec
    BY IsolationAssumption DEF TypeOK
  <1>s. \A d \in Dirs : disk[d].snap \in Keys \union {"none"}
    BY DEF SnapInv
  <1>k. kind' = kind
    BY DEF Step
  <1>1. ASSUME NEW b \in Boots, Born(b) PROVE BootInv'
    BY IsolationAssumption, <1>t, <1>s, <1>k, <1>1 DEF Born, Others, promises, BootInv, Held,
       Active, Own, BootSteps, NoVM, CallInv, Moving, B
  <1>2. ASSUME NEW b \in Boots, Prepares(b) PROVE BootInv'
    BY IsolationAssumption, <1>t, <1>s, <1>k, <1>2 DEF Prepares, Steps, OnlyDir, promises, Others,
       Place, Drive, BootInv, Held, Active, Own, BootSteps, NoVM, CallInv, Moving, B
  <1>3. ASSUME NEW b \in Boots, Aborts(b) PROVE BootInv'
    BY IsolationAssumption, <1>t, <1>s, <1>k, <1>3 DEF Aborts, Others, promises, BootInv, Held,
       Active, Own, BootSteps, NoVM, CallInv, Moving, B
  <1>4. ASSUME NEW b \in Boots, Launches(b) PROVE BootInv'
    <2>1. vm[b].home \in Dirs
      BY <1>4, HomeOf DEF Launches, BootSteps, Held, Active
    <2>2. vm'[b].dev \in Own(b) /\ vm'[b].dev # "none" /\ (vm'[b].dev = b => vm[b].home = b)
      BY <2>1, <1>t, <1>s, <1>4, IsolationAssumption
         DEF Launches, Loadable, SnapshotReady, Own, BootInv, Held, Active, BootSteps
    <2>. QED
      BY <1>t, <1>k, <1>4, <2>2 DEF Launches, Others, Place, BootInv, Held, Active, Own, BootSteps, NoVM
  <1>5. ASSUME NEW b \in Boots, Ages(b) PROVE BootInv'
    BY IsolationAssumption, <1>t, <1>s, <1>k, <1>5 DEF Ages, Others, Place, Drive, promises,
       BootInv, Held, Active, Own, BootSteps, NoVM, CallInv, Moving, B
  <1>6. ASSUME NEW b \in Boots, Ends(b) PROVE BootInv'
    BY IsolationAssumption, <1>t, <1>s, <1>k, <1>6 DEF Ends, Others, Drive, OnlyDir, promises,
       BootInv, Held, Active, Own, BootSteps, NoVM, CallInv, Moving, B
  <1>7. ASSUME NEW b \in Boots, Writes(b) PROVE BootInv'
    BY IsolationAssumption, <1>t, <1>s, <1>k, <1>7 DEF Writes, Others, Place, OnlyDir, BootInv,
       Held, Active, Own, BootSteps, NoVM, CallInv, Moving, B
  <1>8. ASSUME NEW b \in Boots, Asks(b) PROVE BootInv'
    BY IsolationAssumption, <1>t, <1>s, <1>k, <1>8 DEF Asks, BootInv, Held, Active, Own,
       BootSteps, NoVM, CallInv, Moving, B
  <1>9. ASSUME Pauses PROVE BootInv'
    BY IsolationAssumption, <1>t, <1>s, <1>k, <1>9 DEF Pauses, Others, Place, Drive, promises,
       CallKeeps, BootInv, Held, Active, Own, BootSteps, NoVM, CallInv, Moving, B, NoCall
  <1>10. ASSUME Copies PROVE BootInv'
    BY IsolationAssumption, <1>t, <1>s, <1>k, <1>10 DEF Copies, OnlyDir, CallKeeps, BootInv, Held,
       Active, Own, BootSteps, NoVM, CallInv, Moving, B
  <1>11. ASSUME Repoints PROVE BootInv'
    BY IsolationAssumption, <1>t, <1>s, <1>k, <1>11 DEF Repoints, Others, Place, promises,
       CallKeeps, BootInv, Held, Active, Own, BootSteps, NoVM, CallInv, Moving, B
  <1>12. ASSUME Captures PROVE BootInv'
    BY IsolationAssumption, <1>t, <1>s, <1>k, <1>12 DEF Captures, Others, Place, OnlyDir,
       CallKeeps, BootInv, Held, Active, Own, BootSteps, NoVM, CallInv, Moving, B
  <1>13. ASSUME Adopts PROVE BootInv'
    BY IsolationAssumption, <1>t, <1>s, <1>k, <1>13 DEF Adopts, Others, Drive, OnlyDir, CallKeeps,
       BootInv, Held, Active, Own, BootSteps, NoVM, CallInv, Moving, B
  <1>14. ASSUME TakesFiles PROVE BootInv'
    BY IsolationAssumption, <1>t, <1>s, <1>k, <1>14 DEF TakesFiles, promises, CallKeeps, BootInv,
       Held, Active, Own, BootSteps, NoVM, CallInv, Moving, B
  <1>15. ASSUME Resumes PROVE BootInv'
    BY IsolationAssumption, <1>t, <1>s, <1>k, <1>15 DEF Resumes, Others, Place, Drive, promises,
       CallKeeps, BootInv, Held, Active, Own, BootSteps, NoVM, CallInv, Moving, B, NoCall
  <1>16. ASSUME Tars PROVE BootInv'
    BY IsolationAssumption, <1>t, <1>s, <1>k, <1>16 DEF Tars, promises, BootInv, Held, Active,
       Own, BootSteps, NoVM, CallInv, Moving, B, NoCall
  <1>17. ASSUME Flushes PROVE BootInv'
    BY IsolationAssumption, <1>t, <1>s, <1>k, <1>17 DEF Flushes, Others, Place, Drive, promises,
       CallKeeps, BootInv, Held, Active, Own, BootSteps, NoVM, CallInv, Moving, B, NoCall
  <1>18. ASSUME Laps PROVE BootInv'
    BY IsolationAssumption, <1>t, <1>s, <1>k, <1>18 DEF Laps, Others, Place, Drive, promises,
       CallKeeps, BootInv, Held, Active, Own, BootSteps, NoVM, CallInv, Moving, B, NoCall,
       Capturing
  <1>19. ASSUME NEW b \in Boots, Dirties(b) PROVE BootInv'
    BY IsolationAssumption, <1>t, <1>s, <1>k, <1>19 DEF Dirties, Others, Place, OnlyDir, BootInv,
       Held, Active, Own, BootSteps, NoVM, CallInv, Moving, B, promises
  <1>20. ASSUME NEW b \in Boots, Stops(b) PROVE BootInv'
    BY IsolationAssumption, <1>t, <1>s, <1>k, <1>20 DEF Stops, Others, Place, Drive, promises,
       BootInv, Held, Active, Own, BootSteps, NoVM, CallInv, Moving, B
  <1>. QED
    BY <1>1, <1>2, <1>3, <1>4, <1>5, <1>6, <1>7, <1>8, <1>9, <1>10, <1>11, <1>12, <1>13, <1>14,
       <1>15, <1>16, <1>17, <1>18, <1>19, <1>20 DEF Step, CallStep

\* A call stays in order, and its guest stands still.
LEMMA CallStepInv ==
  ASSUME TypeOK, BootInv, CallInv, TypeOK', Step
  PROVE  CallInv'
  <1>t. /\ vm \in [Boots -> VMRec] /\ call \in CallRec /\ "none" \notin Boots /\ Boots \cap Keys = {}
        /\ vm' \in [Boots -> VMRec] /\ call' \in CallRec
        /\ call.b \in Boots \union {"none"} /\ call.dir \in Keys \union {"none"}
    BY IsolationAssumption DEF TypeOK, CallRec
  <1>k. kind' = kind
    BY DEF Step
  <1>1. ASSUME NEW b \in Boots, Born(b) PROVE CallInv'
    BY <1>t, <1>k, <1>1 DEF Born, Others, promises, CallInv, BootInv, Capturing, CallRec, Moving,
       B
  <1>2. ASSUME NEW b \in Boots, Prepares(b) PROVE CallInv'
    BY <1>t, <1>k, <1>2 DEF Prepares, Steps, OnlyDir, promises, Others, Place, Drive, CallInv,
       BootInv, Capturing, CallRec, Moving, B, BootSteps
  <1>3. ASSUME NEW b \in Boots, Aborts(b) PROVE CallInv'
    BY <1>t, <1>k, <1>3 DEF Aborts, Others, promises, CallInv, BootInv, Capturing, CallRec,
       Moving, B, BootSteps
  <1>4. ASSUME NEW b \in Boots, Launches(b) PROVE CallInv'
    BY <1>t, <1>k, <1>4 DEF Launches, Others, Place, CallInv, BootInv, Capturing, CallRec, Moving,
       B, BootSteps
  <1>5. ASSUME NEW b \in Boots, Ages(b) PROVE CallInv'
    BY <1>t, <1>k, <1>5 DEF Ages, Others, Place, Drive, promises, CallInv, BootInv, Capturing,
       CallRec, Moving, B
  <1>6. ASSUME NEW b \in Boots, Ends(b) PROVE CallInv'
    BY <1>t, <1>k, <1>6 DEF Ends, Others, Drive, OnlyDir, promises, CallInv, BootInv, Capturing,
       CallRec, Moving, B
  <1>7. ASSUME NEW b \in Boots, Writes(b) PROVE CallInv'
    BY <1>t, <1>k, <1>7 DEF Writes, Others, Place, OnlyDir, CallInv, BootInv, Capturing, CallRec,
       Moving, B
  <1>8. ASSUME NEW b \in Boots, Asks(b) PROVE CallInv'
    BY <1>t, <1>k, <1>8 DEF Asks, CallInv, BootInv, Capturing, CallRec, Moving, B
  <1>9. ASSUME Pauses PROVE CallInv'
    BY <1>t, <1>k, <1>9 DEF Pauses, Others, Place, Drive, promises, CallKeeps, CallInv, BootInv,
       Capturing, CallRec, Moving, B, NoCall
  <1>10. ASSUME Copies PROVE CallInv'
    BY <1>t, <1>k, <1>10 DEF Copies, OnlyDir, CallKeeps, CallInv, BootInv, Capturing, CallRec,
       Moving, B
  <1>11. ASSUME Repoints PROVE CallInv'
    BY <1>t, <1>k, <1>11 DEF Repoints, Others, Place, promises, CallKeeps, CallInv, BootInv,
       Capturing, CallRec, Moving, B
  <1>12. ASSUME Captures PROVE CallInv'
    BY <1>t, <1>k, <1>12 DEF Captures, Others, Place, OnlyDir, CallKeeps, CallInv, BootInv,
       Capturing, CallRec, Moving, B
  <1>13. ASSUME Adopts PROVE CallInv'
    BY <1>t, <1>k, <1>13 DEF Adopts, Others, Drive, OnlyDir, CallKeeps, CallInv, BootInv,
       Capturing, CallRec, Moving, B
  <1>14. ASSUME TakesFiles PROVE CallInv'
    BY <1>t, <1>k, <1>14 DEF TakesFiles, promises, CallKeeps, CallInv, BootInv, Capturing,
       CallRec, Moving, B
  <1>15. ASSUME Resumes PROVE CallInv'
    BY <1>t, <1>k, <1>15 DEF Resumes, Others, Place, Drive, promises, CallKeeps, CallInv, BootInv,
       Capturing, CallRec, Moving, B, NoCall
  <1>16. ASSUME Tars PROVE CallInv'
    BY <1>t, <1>k, <1>16 DEF Tars, promises, CallInv, BootInv, Capturing, CallRec, Moving, B,
       NoCall
  <1>17. ASSUME Flushes PROVE CallInv'
    BY <1>t, <1>k, <1>17 DEF Flushes, Others, Place, Drive, promises, CallKeeps, CallInv, BootInv,
       Capturing, CallRec, Moving, B, NoCall
  <1>18. ASSUME Laps PROVE CallInv'
    BY <1>t, <1>k, <1>18 DEF Laps, Others, Place, Drive, promises, CallKeeps, CallInv, BootInv,
       Capturing, CallRec, Moving, B, NoCall
  <1>19. ASSUME NEW b \in Boots, Dirties(b) PROVE CallInv'
    BY <1>t, <1>k, <1>19 DEF Dirties, Others, Place, OnlyDir, CallInv, BootInv, Capturing,
       CallRec, Moving, B, promises
  <1>20. ASSUME NEW b \in Boots, Stops(b) PROVE CallInv'
    BY <1>t, <1>k, <1>20 DEF Stops, Others, Place, Drive, promises, CallInv, BootInv, Capturing,
       CallRec, Moving, B
  <1>. QED
    BY <1>1, <1>2, <1>3, <1>4, <1>5, <1>6, <1>7, <1>8, <1>9, <1>10, <1>11, <1>12, <1>13, <1>14,
       <1>15, <1>16, <1>17, <1>18, <1>19, <1>20 DEF Step, CallStep

\* No directory gets a second owner.
LEMMA HomeStep ==
  ASSUME TypeOK, BootInv, CallInv, HomeInv, TypeOK', Step
  PROVE  HomeInv'
  <1>t. /\ vm \in [Boots -> VMRec] /\ call \in CallRec /\ "none" \notin Boots /\ Boots \cap Keys = {}
        /\ vm' \in [Boots -> VMRec] /\ call' \in CallRec
        /\ call.b \in Boots \union {"none"} /\ call.dir \in Keys \union {"none"}
    BY IsolationAssumption DEF TypeOK, CallRec
  <1>o. \A c \in Boots : Held(c) => vm[c].home \in Keys \union {c} /\ vm[c].home # "none"
    BY IsolationAssumption DEF BootInv, Own
  <1>k. kind' = kind
    BY DEF Step
  <1>1. ASSUME NEW b \in Boots, Born(b) PROVE HomeInv'
    <2>1. call.b # b /\ ~Held(b)
      BY <1>t, <1>1 DEF Born, CallInv, Held, Active
    <2>2. ASSUME NEW c \in Boots, c # b, Held(c) PROVE vm[c].home # vm'[b].home
      BY <1>t, <1>o, <1>1, <2>1, <2>2 DEF Born, Unowned, Uses, Held
    <2>3. call.b # "none" => call.dir # vm'[b].home
      BY <1>t, <1>1, <2>1, IsolationAssumption DEF Born, Unowned, CallRec
    <2>. QED
      BY <1>t, <1>1, <2>1, <2>2, <2>3 DEF Born, Others, HomeInv, Held, Active
  <1>2. ASSUME NEW b \in Boots, Prepares(b) PROVE HomeInv'
    BY IsolationAssumption, <1>t, <1>o, <1>k, <1>2 DEF Prepares, Steps, OnlyDir, promises, Others,
       Place, Drive, HomeInv, Held, Active, Uses, Unowned, BootSteps, B
  <1>3. ASSUME NEW b \in Boots, Aborts(b) PROVE HomeInv'
    BY IsolationAssumption, <1>t, <1>o, <1>k, <1>3 DEF Aborts, Others, promises, HomeInv, Held,
       Active, Uses, Unowned, BootSteps, B, CallInv
  <1>4. ASSUME NEW b \in Boots, Launches(b) PROVE HomeInv'
    BY IsolationAssumption, <1>t, <1>o, <1>k, <1>4 DEF Launches, Others, Place, HomeInv, Held,
       Active, Uses, Unowned, BootSteps, B
  <1>5. ASSUME NEW b \in Boots, Ages(b) PROVE HomeInv'
    BY IsolationAssumption, <1>t, <1>o, <1>k, <1>5 DEF Ages, Others, Place, Drive, promises,
       HomeInv, Held, Active, Uses, Unowned, BootSteps, B
  <1>6. ASSUME NEW b \in Boots, Ends(b) PROVE HomeInv'
    BY IsolationAssumption, <1>t, <1>o, <1>k, <1>6 DEF Ends, Others, Drive, OnlyDir, promises,
       HomeInv, Held, Active, Uses, Unowned, BootSteps, B
  <1>7. ASSUME NEW b \in Boots, Writes(b) PROVE HomeInv'
    BY IsolationAssumption, <1>t, <1>o, <1>k, <1>7 DEF Writes, Others, Place, OnlyDir, HomeInv,
       Held, Active, Uses, Unowned, BootSteps, B
  <1>8. ASSUME NEW b \in Boots, Asks(b) PROVE HomeInv'
    <2>1. ASSUME NEW c \in Boots, c # b, Active(c) PROVE call'.dir # vm[c].home
      BY <1>o, <1>8, <2>1 DEF Asks, Unowned, Uses, Held
    <2>2. Active(b) /\ call.b = "none"
      BY <1>8 DEF Asks, Active, CallInv
    <2>. QED
      BY <1>t, <1>8, <2>1, <2>2 DEF Asks, HomeInv, Held, Active
  <1>9. ASSUME Pauses PROVE HomeInv'
    BY IsolationAssumption, <1>t, <1>o, <1>k, <1>9 DEF Pauses, Others, Place, Drive, promises,
       CallKeeps, HomeInv, Held, Active, Uses, Unowned, BootSteps, B, NoCall
  <1>10. ASSUME Copies PROVE HomeInv'
    BY IsolationAssumption, <1>t, <1>o, <1>k, <1>10 DEF Copies, OnlyDir, CallKeeps, HomeInv, Held,
       Active, Uses, Unowned, BootSteps, B
  <1>11. ASSUME Repoints PROVE HomeInv'
    BY IsolationAssumption, <1>t, <1>o, <1>k, <1>11 DEF Repoints, Others, Place, promises,
       CallKeeps, HomeInv, Held, Active, Uses, Unowned, BootSteps, B
  <1>12. ASSUME Captures PROVE HomeInv'
    BY IsolationAssumption, <1>t, <1>o, <1>k, <1>12 DEF Captures, Others, Place, OnlyDir,
       CallKeeps, HomeInv, Held, Active, Uses, Unowned, BootSteps, B
  <1>13. ASSUME Adopts PROVE HomeInv'
    BY IsolationAssumption, <1>t, <1>o, <1>k, <1>13 DEF Adopts, Others, Drive, OnlyDir, CallKeeps,
       HomeInv, Held, Active, Uses, Unowned, BootSteps, B
  <1>14. ASSUME TakesFiles PROVE HomeInv'
    BY IsolationAssumption, <1>t, <1>o, <1>k, <1>14 DEF TakesFiles, promises, CallKeeps, HomeInv,
       Held, Active, Uses, Unowned, BootSteps, B
  <1>15. ASSUME Resumes PROVE HomeInv'
    BY IsolationAssumption, <1>t, <1>o, <1>k, <1>15 DEF Resumes, Others, Place, Drive, promises,
       CallKeeps, HomeInv, Held, Active, Uses, Unowned, BootSteps, B, NoCall
  <1>16. ASSUME Tars PROVE HomeInv'
    BY IsolationAssumption, <1>t, <1>o, <1>k, <1>16 DEF Tars, promises, HomeInv, Held, Active,
       Uses, Unowned, BootSteps, B, NoCall
  <1>17. ASSUME Flushes PROVE HomeInv'
    BY IsolationAssumption, <1>t, <1>o, <1>k, <1>17 DEF Flushes, Others, Place, Drive, promises,
       CallKeeps, HomeInv, Held, Active, Uses, Unowned, BootSteps, B, NoCall
  <1>18. ASSUME Laps PROVE HomeInv'
    BY IsolationAssumption, <1>t, <1>o, <1>k, <1>18 DEF Laps, Others, Place, Drive, promises,
       CallKeeps, HomeInv, Held, Active, Uses, Unowned, BootSteps, B, NoCall, Capturing
  <1>19. ASSUME NEW b \in Boots, Dirties(b) PROVE HomeInv'
    BY IsolationAssumption, <1>t, <1>o, <1>k, <1>19 DEF Dirties, Others, Place, OnlyDir, HomeInv,
       Held, Active, Uses, Unowned, BootSteps, B, promises
  <1>20. ASSUME NEW b \in Boots, Stops(b) PROVE HomeInv'
    BY IsolationAssumption, <1>t, <1>o, <1>k, <1>20 DEF Stops, Others, Place, Drive, promises,
       HomeInv, Held, Active, Uses, Unowned, BootSteps, B
  <1>. QED
    BY <1>1, <1>2, <1>3, <1>4, <1>5, <1>6, <1>7, <1>8, <1>9, <1>10, <1>11, <1>12, <1>13, <1>14,
       <1>15, <1>16, <1>17, <1>18, <1>19, <1>20 DEF Step, CallStep

\* No drive gets a second user, unless a stray snapshot is resumed.
LEMMA DriveStep ==
  ASSUME TypeOK, BootInv, CallInv, HomeInv, DriveInv, TypeOK', Step
  PROVE  DriveInv'
  <1>t. /\ vm \in [Boots -> VMRec] /\ call \in CallRec /\ "none" \notin Boots /\ Boots \cap Keys = {}
        /\ vm' \in [Boots -> VMRec] /\ call' \in CallRec
        /\ call.b \in Boots \union {"none"} /\ call.dir \in Keys \union {"none"}
    BY IsolationAssumption DEF TypeOK, CallRec
  <1>o. \A c \in Boots : /\ vm[c].dev \in Keys \union {c, "none"}
                         /\ Active(c) => vm[c].home # "none"
    BY IsolationAssumption DEF BootInv, Own, Held
  <1>k. kind' = kind
    BY DEF Step
  <1>1. ASSUME NEW b \in Boots, Born(b) PROVE DriveInv'
    <2>1. call.b # b
      BY <1>t, <1>1 DEF Born, CallInv
    <2>2. ASSUME NEW c \in Boots, c # b, Active(c), vm[c].dev # "none" PROVE vm[c].dev # vm'[b].home
      BY <1>t, <1>o, <1>1, <2>2 DEF Born, Unowned, Uses
    <2>. QED
      BY <1>t, <1>1, <2>1, <2>2 DEF Born, Others, DriveInv, Active, promises
  <1>2. ASSUME NEW b \in Boots, Prepares(b) PROVE DriveInv'
    BY <1>t, <1>o, <1>k, <1>2 DEF Prepares, Steps, OnlyDir, promises, Others, Place, Drive,
       DriveInv, Active, BootSteps, B
  <1>3. ASSUME NEW b \in Boots, Aborts(b) PROVE DriveInv'
    BY <1>t, <1>o, <1>k, <1>3 DEF Aborts, Others, promises, DriveInv, Active, BootSteps, B,
       CallInv
  <1>4. ASSUME NEW b \in Boots, Launches(b) PROVE DriveInv'
    <2>1. call.b # b /\ Active(b)
      BY <1>t, <1>4 DEF Launches, BootSteps, CallInv, Active
    <2>2. ASSUME ~crossed', NEW c \in Boots, c # b, Active(c)
          PROVE  vm'[b].dev \notin {vm[c].home, vm[c].dev}
      <3>1. CASE vm'[b].dev = vm[b].home /\ ~crossed
        <4>1. vm[c].home # vm[b].home
          BY <2>1, <2>2 DEF HomeInv, Held
        <4>2. vm[c].dev # vm[b].home
          BY <1>o, <2>1, <2>2, <3>1 DEF DriveInv
        <4>. QED
          BY <3>1, <4>1, <4>2
      <3>2. CASE Unowned(vm'[b].dev, b)
        BY <2>2, <3>2 DEF Unowned, Uses
      <3>. QED
        BY <1>4, <2>2, <3>1, <3>2 DEF Launches
    <2>3. ASSUME ~crossed', call.b # "none" PROVE vm'[b].dev \notin {call.dir, vm[call.b].home}
      BY <1>t, <1>4, <2>1, <2>3 DEF Launches, Unowned, HomeInv, Held, CallRec
    <2>. QED
      BY <1>t, <1>4, <2>1, <2>2, <2>3 DEF Launches, Others, Place, DriveInv, Active
  <1>5. ASSUME NEW b \in Boots, Ages(b) PROVE DriveInv'
    BY <1>t, <1>o, <1>k, <1>5 DEF Ages, Others, Place, Drive, promises, DriveInv, Active,
       BootSteps, B
  <1>6. ASSUME NEW b \in Boots, Ends(b) PROVE DriveInv'
    BY <1>t, <1>o, <1>k, <1>6 DEF Ends, Others, Drive, OnlyDir, promises, DriveInv, Active,
       BootSteps, B
  <1>7. ASSUME NEW b \in Boots, Writes(b) PROVE DriveInv'
    BY <1>t, <1>o, <1>k, <1>7 DEF Writes, Others, Place, OnlyDir, DriveInv, Active, BootSteps, B
  <1>8. ASSUME NEW b \in Boots, Asks(b) PROVE DriveInv'
    <2>1. Active(b) /\ call.b = "none" /\ crossed' = crossed /\ vm' = vm
      BY <1>8 DEF Asks, Active, CallInv
    <2>2. ASSUME NEW c \in Boots, c # b, Active(c), vm[c].dev # "none" PROVE call'.dir # vm[c].dev
      BY <1>8, <2>2 DEF Asks, Unowned, Uses
    <2>. QED
      BY <1>t, <1>8, <2>1, <2>2 DEF Asks, DriveInv, Active
  <1>9. ASSUME Pauses PROVE DriveInv'
    BY <1>t, <1>o, <1>k, <1>9 DEF Pauses, Others, Place, Drive, promises, CallKeeps, DriveInv,
       Active, BootSteps, B, NoCall
  <1>10. ASSUME Copies PROVE DriveInv'
    BY <1>t, <1>o, <1>k, <1>10 DEF Copies, OnlyDir, CallKeeps, DriveInv, Active, BootSteps, B
  <1>11. ASSUME Repoints PROVE DriveInv'
    <2>1. B \in Boots /\ call.b = B /\ call'.b = B /\ call'.dir = call.dir /\ ~(crossed' # crossed)
      BY <1>11, CallOf DEF Repoints, CallKeeps, promises, B
    <2>2. vm'[B].dev # vm[B].dev => vm'[B].dev = call.dir /\ Active(B)
      BY <1>11, <2>1 DEF Repoints, BootInv, Active
    <2>3. ASSUME ~crossed, NEW c \in Boots, c # B, Active(c) PROVE call.dir \notin {vm[c].home, vm[c].dev}
      BY <1>t, <2>1, <2>3, <1>11, IsolationAssumption DEF HomeInv, DriveInv, CallInv, Repoints
    <2>. QED
      BY <1>t, <1>11, <2>1, <2>2, <2>3 DEF Repoints, Others, Place, DriveInv, Active, promises
  <1>12. ASSUME Captures PROVE DriveInv'
    BY <1>t, <1>o, <1>k, <1>12 DEF Captures, Others, Place, OnlyDir, CallKeeps, DriveInv, Active,
       BootSteps, B
  <1>13. ASSUME Adopts PROVE DriveInv'
    BY <1>t, <1>o, <1>k, <1>13 DEF Adopts, Others, Drive, OnlyDir, CallKeeps, DriveInv, Active,
       BootSteps, B, HomeInv, CallInv
  <1>14. ASSUME TakesFiles PROVE DriveInv'
    BY <1>t, <1>o, <1>k, <1>14 DEF TakesFiles, promises, CallKeeps, DriveInv, Active, BootSteps, B
  <1>15. ASSUME Resumes PROVE DriveInv'
    BY <1>t, <1>o, <1>k, <1>15 DEF Resumes, Others, Place, Drive, promises, CallKeeps, DriveInv,
       Active, BootSteps, B, NoCall
  <1>16. ASSUME Tars PROVE DriveInv'
    BY <1>t, <1>o, <1>k, <1>16 DEF Tars, promises, DriveInv, Active, BootSteps, B, NoCall
  <1>17. ASSUME Flushes PROVE DriveInv'
    BY <1>t, <1>o, <1>k, <1>17 DEF Flushes, Others, Place, Drive, promises, CallKeeps, DriveInv,
       Active, BootSteps, B, NoCall
  <1>18. ASSUME Laps PROVE DriveInv'
    BY <1>t, <1>o, <1>k, <1>18 DEF Laps, Others, Place, Drive, promises, CallKeeps, DriveInv,
       Active, BootSteps, B, NoCall, Capturing
  <1>19. ASSUME NEW b \in Boots, Dirties(b) PROVE DriveInv'
    BY <1>t, <1>o, <1>k, <1>19 DEF Dirties, Others, Place, OnlyDir, DriveInv, Active, BootSteps,
       B, promises
  <1>20. ASSUME NEW b \in Boots, Stops(b) PROVE DriveInv'
    BY <1>t, <1>o, <1>k, <1>20 DEF Stops, Others, Place, Drive, promises, DriveInv, Active,
       BootSteps, B
  <1>. QED
    BY <1>1, <1>2, <1>3, <1>4, <1>5, <1>6, <1>7, <1>8, <1>9, <1>10, <1>11, <1>12, <1>13, <1>14,
       <1>15, <1>16, <1>17, <1>18, <1>19, <1>20 DEF Step, CallStep

\* The drives of a sound VM are at home.
LEMMA DevStep ==
  ASSUME TypeOK, BootInv, CallInv, Kept, DevInv, TypeOK', Step
  PROVE  DevInv'
  <1>t. /\ vm \in [Boots -> VMRec] /\ call \in CallRec /\ "none" \notin Boots /\ Boots \cap Keys = {}
        /\ vm' \in [Boots -> VMRec] /\ call' \in CallRec
        /\ call.b \in Boots \union {"none"} /\ call.dir \in Keys \union {"none"}
    BY IsolationAssumption DEF TypeOK, CallRec
  <1>k. kind' = kind
    BY DEF Step
  <1>1. ASSUME NEW b \in Boots, Born(b) PROVE DevInv'
    BY CallOf, <1>t, <1>k, <1>1 DEF Born, Others, promises, DevInv, CallInv, Capturing, B
  <1>2. ASSUME NEW b \in Boots, Prepares(b) PROVE DevInv'
    BY CallOf, <1>t, <1>k, <1>2 DEF Prepares, Steps, OnlyDir, promises, Others, Place, Drive,
       DevInv, CallInv, Capturing, B, BootInv, BootSteps
  <1>3. ASSUME NEW b \in Boots, Aborts(b) PROVE DevInv'
    BY CallOf, <1>t, <1>k, <1>3 DEF Aborts, Others, promises, DevInv, CallInv, Capturing, B
  <1>4. ASSUME NEW b \in Boots, Launches(b) PROVE DevInv'
    BY CallOf, <1>t, <1>k, <1>4 DEF Launches, Others, Place, DevInv, CallInv, Capturing, B, Kept,
       BootSteps, BootInv
  <1>5. ASSUME NEW b \in Boots, Ages(b) PROVE DevInv'
    BY CallOf, <1>t, <1>k, <1>5 DEF Ages, Others, Place, Drive, promises, DevInv, CallInv,
       Capturing, B, BootInv, BootSteps
  <1>6. ASSUME NEW b \in Boots, Ends(b) PROVE DevInv'
    BY CallOf, <1>t, <1>k, <1>6 DEF Ends, Others, Drive, OnlyDir, promises, DevInv, CallInv,
       Capturing, B
  <1>7. ASSUME NEW b \in Boots, Writes(b) PROVE DevInv'
    BY CallOf, <1>t, <1>k, <1>7 DEF Writes, Others, Place, OnlyDir, DevInv, CallInv, Capturing, B
  <1>8. ASSUME NEW b \in Boots, Asks(b) PROVE DevInv'
    BY CallOf, <1>t, <1>k, <1>8 DEF Asks, DevInv, CallInv, Capturing, B
  <1>9. ASSUME Pauses PROVE DevInv'
    BY CallOf, <1>t, <1>k, <1>9 DEF Pauses, Others, Place, Drive, promises, CallKeeps, DevInv,
       CallInv, Capturing, B, Moving, NoCall
  <1>10. ASSUME Copies PROVE DevInv'
    BY CallOf, <1>t, <1>k, <1>10 DEF Copies, OnlyDir, CallKeeps, DevInv, CallInv, Capturing, B
  <1>11. ASSUME Repoints PROVE DevInv'
    BY CallOf, <1>t, <1>k, <1>11 DEF Repoints, Others, Place, promises, CallKeeps, DevInv,
       CallInv, Capturing, B
  <1>12. ASSUME Captures PROVE DevInv'
    BY CallOf, <1>t, <1>k, <1>12, IsolationAssumption DEF Captures, Others, Place, OnlyDir,
       CallKeeps, DevInv, CallInv, Capturing, B, Moving
  <1>13. ASSUME Adopts PROVE DevInv'
    BY CallOf, <1>t, <1>k, <1>13 DEF Adopts, Others, Drive, OnlyDir, CallKeeps, DevInv, CallInv,
       Capturing, B
  <1>14. ASSUME TakesFiles PROVE DevInv'
    BY CallOf, <1>t, <1>k, <1>14 DEF TakesFiles, promises, CallKeeps, DevInv, CallInv, Capturing,
       B
  <1>15. ASSUME Resumes PROVE DevInv'
    BY CallOf, <1>t, <1>k, <1>15 DEF Resumes, Others, Place, Drive, promises, CallKeeps, DevInv,
       CallInv, Capturing, B, NoCall
  <1>16. ASSUME Tars PROVE DevInv'
    BY CallOf, <1>t, <1>k, <1>16 DEF Tars, promises, DevInv, CallInv, Capturing, B, NoCall
  <1>17. ASSUME Flushes PROVE DevInv'
    BY CallOf, <1>t, <1>k, <1>17 DEF Flushes, Others, Place, Drive, promises, CallKeeps, DevInv,
       CallInv, Capturing, B, NoCall
  <1>18. ASSUME Laps PROVE DevInv'
    BY CallOf, <1>t, <1>k, <1>18 DEF Laps, Others, Place, Drive, promises, CallKeeps, DevInv,
       CallInv, Capturing, B, NoCall
  <1>19. ASSUME NEW b \in Boots, Dirties(b) PROVE DevInv'
    BY CallOf, <1>t, <1>k, <1>19 DEF Dirties, Others, Place, OnlyDir, DevInv, CallInv, Capturing,
       B, promises
  <1>20. ASSUME NEW b \in Boots, Stops(b) PROVE DevInv'
    BY CallOf, <1>t, <1>k, <1>20 DEF Stops, Others, Place, Drive, promises, DevInv, CallInv,
       Capturing, B, BootInv, BootSteps
  <1>. QED
    BY <1>1, <1>2, <1>3, <1>4, <1>5, <1>6, <1>7, <1>8, <1>9, <1>10, <1>11, <1>12, <1>13, <1>14,
       <1>15, <1>16, <1>17, <1>18, <1>19, <1>20 DEF Step, CallStep

\* A VM with drives in an unnamed directory is not captured in place.
LEMMA SnapStep ==
  ASSUME TypeOK, BootInv, CallInv, SnapInv, TypeOK', Step
  PROVE  SnapInv'
  <1>t. /\ vm \in [Boots -> VMRec] /\ call \in CallRec /\ "none" \notin Boots /\ Boots \cap Keys = {}
        /\ vm' \in [Boots -> VMRec] /\ call' \in CallRec
        /\ call.b \in Boots \union {"none"} /\ call.dir \in Keys \union {"none"}
    BY IsolationAssumption DEF TypeOK, CallRec
  <1>d. /\ disk \in [Dirs -> DiskRec] /\ disk' \in [Dirs -> DiskRec] /\ Keys \subseteq Dirs /\ Boots \subseteq Dirs
        /\ \A c \in Boots : Held(c) => vm[c].home \in Dirs /\ vm[c].home \in Keys \union {c}
    BY DEF TypeOK, BootInv, Own, Dirs
  <1>k. kind' = kind
    BY DEF Step
  <1>1. ASSUME NEW b \in Boots, Born(b) PROVE SnapInv'
    BY <1>t, <1>d, <1>k, <1>1 DEF Born, Others, promises, SnapInv, B
  <1>2. ASSUME NEW b \in Boots, Prepares(b) PROVE SnapInv'
    BY <1>t, <1>d, <1>k, <1>2 DEF Prepares, Steps, OnlyDir, promises, Others, Place, Drive,
       SnapInv, B
  <1>3. ASSUME NEW b \in Boots, Aborts(b) PROVE SnapInv'
    BY <1>t, <1>d, <1>k, <1>3 DEF Aborts, Others, promises, SnapInv, B
  <1>4. ASSUME NEW b \in Boots, Launches(b) PROVE SnapInv'
    BY <1>t, <1>d, <1>k, <1>4 DEF Launches, Others, Place, SnapInv, B
  <1>5. ASSUME NEW b \in Boots, Ages(b) PROVE SnapInv'
    BY <1>t, <1>d, <1>k, <1>5 DEF Ages, Others, Place, Drive, promises, SnapInv, B
  <1>6. ASSUME NEW b \in Boots, Ends(b) PROVE SnapInv'
    BY <1>t, <1>d, <1>k, <1>6 DEF Ends, Others, Drive, OnlyDir, promises, SnapInv, B, Empty
  <1>7. ASSUME NEW b \in Boots, Writes(b) PROVE SnapInv'
    BY <1>t, <1>d, <1>k, <1>7 DEF Writes, Others, Place, OnlyDir, SnapInv, B
  <1>8. ASSUME NEW b \in Boots, Asks(b) PROVE SnapInv'
    BY <1>t, <1>d, <1>k, <1>8 DEF Asks, SnapInv, B
  <1>9. ASSUME Pauses PROVE SnapInv'
    BY <1>t, <1>d, <1>k, <1>9 DEF Pauses, Others, Place, Drive, promises, CallKeeps, SnapInv, B
  <1>10. ASSUME Copies PROVE SnapInv'
    BY <1>t, <1>d, <1>k, <1>10 DEF Copies, OnlyDir, CallKeeps, SnapInv, B
  <1>11. ASSUME Repoints PROVE SnapInv'
    BY <1>t, <1>d, <1>k, <1>11 DEF Repoints, Others, Place, promises, CallKeeps, SnapInv, B
  <1>12. ASSUME Captures PROVE SnapInv'
    <2>1. B \in Boots /\ call.dir \in Keys /\ call.dir # "none"
      BY <1>12, CallOf, IsolationAssumption DEF Captures, CallInv
    <2>2. vm[B].vmm = "paused" => vm[B].dev \in Keys
      BY <1>t, <2>1, <1>12 DEF BootInv, CallInv, Captures, Moving, Own
    <2>. QED
      BY <1>d, <1>12, <2>1, <2>2 DEF Captures, OnlyDir, SnapInv
  <1>13. ASSUME Adopts PROVE SnapInv'
    BY <1>t, <1>d, <1>k, <1>13 DEF Adopts, Others, Drive, OnlyDir, CallKeeps, SnapInv, B, Empty
  <1>14. ASSUME TakesFiles PROVE SnapInv'
    BY <1>t, <1>d, <1>k, <1>14 DEF TakesFiles, promises, CallKeeps, SnapInv, B
  <1>15. ASSUME Resumes PROVE SnapInv'
    BY <1>t, <1>d, <1>k, <1>15 DEF Resumes, Others, Place, Drive, promises, CallKeeps, SnapInv, B
  <1>16. ASSUME Tars PROVE SnapInv'
    BY <1>t, <1>d, <1>k, <1>16 DEF Tars, promises, SnapInv, B
  <1>17. ASSUME Flushes PROVE SnapInv'
    BY <1>t, <1>d, <1>k, <1>17 DEF Flushes, Others, Place, Drive, promises, CallKeeps, SnapInv, B,
       NoCall
  <1>18. ASSUME Laps PROVE SnapInv'
    BY <1>t, <1>d, <1>k, <1>18 DEF Laps, Others, Place, Drive, promises, CallKeeps, SnapInv, B,
       Capturing
  <1>19. ASSUME NEW b \in Boots, Dirties(b) PROVE SnapInv'
    BY <1>t, <1>d, <1>k, <1>19 DEF Dirties, Others, Place, OnlyDir, SnapInv, B, promises
  <1>20. ASSUME NEW b \in Boots, Stops(b) PROVE SnapInv'
    BY <1>t, <1>d, <1>k, <1>20 DEF Stops, Others, Place, Drive, promises, SnapInv, B
  <1>. QED
    BY <1>1, <1>2, <1>3, <1>4, <1>5, <1>6, <1>7, <1>8, <1>9, <1>10, <1>11, <1>12, <1>13, <1>14,
       <1>15, <1>16, <1>17, <1>18, <1>19, <1>20 DEF Step, CallStep

\* An unnamed directory does not outlive its boot.
LEMMA UnnamedStep ==
  ASSUME TypeOK, BootInv, CallInv, UnnamedInv, TypeOK', Step
  PROVE  UnnamedInv'
  <1>t. /\ vm \in [Boots -> VMRec] /\ call \in CallRec /\ "none" \notin Boots /\ Boots \cap Keys = {}
        /\ vm' \in [Boots -> VMRec] /\ call' \in CallRec
        /\ call.b \in Boots \union {"none"} /\ call.dir \in Keys \union {"none"}
    BY IsolationAssumption DEF TypeOK, CallRec
  <1>d. /\ disk \in [Dirs -> DiskRec] /\ disk' \in [Dirs -> DiskRec] /\ Keys \subseteq Dirs /\ Boots \subseteq Dirs
        /\ \A c \in Boots : Held(c) => vm[c].home \in Dirs /\ vm[c].home \in Keys \union {c}
    BY DEF TypeOK, BootInv, Own, Dirs
  <1>k. kind' = kind
    BY DEF Step
  <1>1. ASSUME NEW b \in Boots, Born(b) PROVE UnnamedInv'
    BY CallOf, <1>t, <1>d, <1>k, <1>1 DEF Born, Others, promises, UnnamedInv, Active, BootSteps
  <1>2. ASSUME NEW b \in Boots, Prepares(b) PROVE UnnamedInv'
    BY CallOf, <1>t, <1>d, <1>k, <1>2 DEF Prepares, Steps, OnlyDir, promises, Others, Place,
       Drive, UnnamedInv, Active, BootSteps, BootInv, Held, Own, CallInv
  <1>3. ASSUME NEW b \in Boots, Aborts(b) PROVE UnnamedInv'
    BY CallOf, <1>t, <1>d, <1>k, <1>3 DEF Aborts, Others, promises, UnnamedInv, Active, BootSteps,
       BootInv, Held, Own, CallInv
  <1>4. ASSUME NEW b \in Boots, Launches(b) PROVE UnnamedInv'
    BY CallOf, <1>t, <1>d, <1>k, <1>4 DEF Launches, Others, Place, UnnamedInv, Active, BootSteps
  <1>5. ASSUME NEW b \in Boots, Ages(b) PROVE UnnamedInv'
    BY CallOf, <1>t, <1>d, <1>k, <1>5 DEF Ages, Others, Place, Drive, promises, UnnamedInv,
       Active, BootSteps
  <1>6. ASSUME NEW b \in Boots, Ends(b) PROVE UnnamedInv'
    BY CallOf, <1>t, <1>d, <1>k, <1>6 DEF Ends, Others, Drive, OnlyDir, promises, UnnamedInv,
       Active, BootSteps, BootInv, Held, Own, CallInv
  <1>7. ASSUME NEW b \in Boots, Writes(b) PROVE UnnamedInv'
    BY CallOf, <1>t, <1>d, <1>k, <1>7 DEF Writes, Others, Place, OnlyDir, UnnamedInv, Active,
       BootSteps, BootInv, Held, Own, CallInv
  <1>8. ASSUME NEW b \in Boots, Asks(b) PROVE UnnamedInv'
    BY CallOf, <1>t, <1>d, <1>k, <1>8 DEF Asks, UnnamedInv, Active, BootSteps
  <1>9. ASSUME Pauses PROVE UnnamedInv'
    BY CallOf, <1>t, <1>d, <1>k, <1>9 DEF Pauses, Others, Place, Drive, promises, CallKeeps,
       UnnamedInv, Active, BootSteps
  <1>10. ASSUME Copies PROVE UnnamedInv'
    BY CallOf, <1>t, <1>d, <1>k, <1>10 DEF Copies, OnlyDir, CallKeeps, UnnamedInv, Active,
       BootSteps, BootInv, Held, Own, CallInv
  <1>11. ASSUME Repoints PROVE UnnamedInv'
    BY CallOf, <1>t, <1>d, <1>k, <1>11 DEF Repoints, Others, Place, promises, CallKeeps,
       UnnamedInv, Active, BootSteps
  <1>12. ASSUME Captures PROVE UnnamedInv'
    BY CallOf, <1>t, <1>d, <1>k, <1>12 DEF Captures, Others, Place, OnlyDir, CallKeeps,
       UnnamedInv, Active, BootSteps, BootInv, Held, Own, CallInv
  <1>13. ASSUME Adopts PROVE UnnamedInv'
    BY CallOf, <1>t, <1>d, <1>k, <1>13 DEF Adopts, Others, Drive, OnlyDir, CallKeeps, UnnamedInv,
       Active, BootSteps, BootInv, Held, Own, CallInv
  <1>14. ASSUME TakesFiles PROVE UnnamedInv'
    BY CallOf, <1>t, <1>d, <1>k, <1>14 DEF TakesFiles, promises, CallKeeps, UnnamedInv, Active,
       BootSteps
  <1>15. ASSUME Resumes PROVE UnnamedInv'
    BY CallOf, <1>t, <1>d, <1>k, <1>15 DEF Resumes, Others, Place, Drive, promises, CallKeeps,
       UnnamedInv, Active, BootSteps
  <1>16. ASSUME Tars PROVE UnnamedInv'
    BY CallOf, <1>t, <1>d, <1>k, <1>16 DEF Tars, promises, UnnamedInv, Active, BootSteps
  <1>17. ASSUME Flushes PROVE UnnamedInv'
    BY CallOf, <1>t, <1>d, <1>k, <1>17 DEF Flushes, Others, Place, Drive, promises, CallKeeps,
       UnnamedInv, Active, BootSteps, NoCall
  <1>18. ASSUME Laps PROVE UnnamedInv'
    BY CallOf, <1>t, <1>d, <1>k, <1>18 DEF Laps, Others, Place, Drive, promises, CallKeeps,
       UnnamedInv, Active, BootSteps, Capturing
  <1>19. ASSUME NEW b \in Boots, Dirties(b) PROVE UnnamedInv'
    BY CallOf, <1>t, <1>d, <1>k, <1>19 DEF Dirties, Others, Place, OnlyDir, UnnamedInv, Active,
       BootSteps, BootInv, Held, Own, CallInv, promises
  <1>20. ASSUME NEW b \in Boots, Stops(b) PROVE UnnamedInv'
    BY CallOf, <1>t, <1>d, <1>k, <1>20 DEF Stops, Others, Place, Drive, promises, UnnamedInv,
       Active, BootSteps
  <1>. QED
    BY <1>1, <1>2, <1>3, <1>4, <1>5, <1>6, <1>7, <1>8, <1>9, <1>10, <1>11, <1>12, <1>13, <1>14,
       <1>15, <1>16, <1>17, <1>18, <1>19, <1>20 DEF Step, CallStep

\* A boot and its call find the files they need.
LEMMA BuiltStep ==
  ASSUME TypeOK, BootInv, CallInv, HomeInv, BuiltInv, MadeInv, TypeOK', Step
  PROVE  BuiltInv'
  <1>t. /\ vm \in [Boots -> VMRec] /\ call \in CallRec /\ "none" \notin Boots /\ Boots \cap Keys = {}
        /\ vm' \in [Boots -> VMRec] /\ call' \in CallRec
        /\ call.b \in Boots \union {"none"} /\ call.dir \in Keys \union {"none"}
    BY IsolationAssumption DEF TypeOK, CallRec
  <1>d. /\ disk \in [Dirs -> DiskRec] /\ disk' \in [Dirs -> DiskRec] /\ Keys \subseteq Dirs /\ Boots \subseteq Dirs
        /\ \A c \in Boots : Held(c) => vm[c].home \in Dirs /\ vm[c].home \in Keys \union {c}
    BY DEF TypeOK, BootInv, Own, Dirs
  <1>k. kind' = kind
    BY DEF Step
  <1>1. ASSUME NEW b \in Boots, Born(b) PROVE BuiltInv'
    BY CallOf, <1>t, <1>d, <1>k, <1>1 DEF Born, Others, promises, BuiltInv, BuiltAt, Held, Active,
       BootSteps, B
  <1>2. ASSUME NEW b \in Boots, Prepares(b) PROVE BuiltInv'
    BY CallOf, <1>t, <1>d, <1>k, <1>2 DEF Prepares, Steps, OnlyDir, promises, Others, Place,
       Drive, BuiltInv, BuiltAt, Held, Active, BootSteps, B, HomeInv, CallInv
  <1>3. ASSUME NEW b \in Boots, Aborts(b) PROVE BuiltInv'
    BY CallOf, <1>t, <1>d, <1>k, <1>3 DEF Aborts, Others, promises, BuiltInv, BuiltAt, Held,
       Active, BootSteps, B
  <1>4. ASSUME NEW b \in Boots, Launches(b) PROVE BuiltInv'
    BY CallOf, <1>t, <1>d, <1>k, <1>4, HomeOf DEF Launches, Others, Place, BuiltInv, BuiltAt,
       Held, Active, BootSteps, B, Loadable, SnapshotReady
  <1>5. ASSUME NEW b \in Boots, Ages(b) PROVE BuiltInv'
    BY CallOf, <1>t, <1>d, <1>k, <1>5 DEF Ages, Others, Place, Drive, promises, BuiltInv, BuiltAt,
       Held, Active, BootSteps, B
  <1>6. ASSUME NEW b \in Boots, Ends(b) PROVE BuiltInv'
    <2>1. Held(b) /\ (vm[b].eph <=> vm[b].home = b)
      BY <1>6 DEF Ends, Held, Active, BootInv
    <2>2. ASSUME NEW c \in Boots, Held(c), c # b \/ vm[c].home # c PROVE disk'[vm[c].home] = disk[vm[c].home]
      BY <1>t, <1>d, <1>6, <2>1, <2>2 DEF Ends, OnlyDir
    <2>3. ASSUME NEW c \in Boots, c # b PROVE BuiltAt(c)'
      BY <1>k, <1>6, <2>2, <2>3 DEF Ends, Others, promises, BuiltInv, BuiltAt, Held, Active, BootSteps
    <2>4. BuiltAt(b)'
      BY <1>k, <1>6, <2>2 DEF Ends, Drive, promises, BuiltInv, BuiltAt, Held, Active, BootSteps, BootInv
    <2>. QED
      BY <2>3, <2>4 DEF BuiltInv
  <1>7. ASSUME NEW b \in Boots, Writes(b) PROVE BuiltInv'
    <2>1. \A d \in Dirs : (disk[d].ovl # None => disk'[d].ovl # None) /\ disk'[d].prm = disk[d].prm
                          /\ disk'[d].snap = disk[d].snap /\ disk'[d].page = disk[d].page /\ disk'[d].mem = disk[d].mem
      BY <1>d, <1>7 DEF Writes, OnlyDir, None
    <2>2. vm'[b].belief # None
      BY <1>7 DEF Writes, None
    <2>3. ASSUME NEW c \in Boots PROVE BuiltAt(c)'
      <3>1. /\ vm'[c].pc = vm[c].pc /\ vm'[c].home = vm[c].home /\ vm'[c].have = vm[c].have
            /\ vm'[c].vmm = vm[c].vmm /\ (c # b => vm'[c] = vm[c]) /\ call' = call
        BY <1>7 DEF Writes, Others, Place
      <3>2. Held(c) => vm[c].home \in Dirs
        BY <1>d
      <3>. QED
        BY <1>k, <2>1, <2>2, <3>1, <3>2 DEF BuiltInv, BuiltAt, Held, Active, BootSteps
    <2>. QED
      BY <2>3 DEF BuiltInv
  <1>8. ASSUME NEW b \in Boots, Asks(b) PROVE BuiltInv'
    BY CallOf, <1>t, <1>d, <1>k, <1>8 DEF Asks, BuiltInv, BuiltAt, Held, Active, BootSteps, B
  <1>9. ASSUME Pauses PROVE BuiltInv'
    BY CallOf, <1>t, <1>d, <1>k, <1>9 DEF Pauses, Others, Place, Drive, promises, CallKeeps,
       BuiltInv, BuiltAt, Held, Active, BootSteps, B, NoCall
  <1>10. ASSUME Copies PROVE BuiltInv'
    BY CallOf, <1>t, <1>d, <1>k, <1>10 DEF Copies, OnlyDir, CallKeeps, BuiltInv, BuiltAt, Held,
       Active, BootSteps, B, HomeInv, CallInv
  <1>11. ASSUME Repoints PROVE BuiltInv'
    BY CallOf, <1>t, <1>d, <1>k, <1>11 DEF Repoints, Others, Place, promises, CallKeeps, BuiltInv,
       BuiltAt, Held, Active, BootSteps, B
  <1>12. ASSUME Captures PROVE BuiltInv'
    BY CallOf, <1>t, <1>d, <1>k, <1>12 DEF Captures, Others, Place, OnlyDir, CallKeeps, BuiltInv,
       BuiltAt, Held, Active, BootSteps, B, HomeInv, CallInv
  <1>13. ASSUME Adopts PROVE BuiltInv'
    BY CallOf, <1>t, <1>d, <1>k, <1>13 DEF Adopts, Others, Drive, OnlyDir, CallKeeps, BuiltInv,
       BuiltAt, Held, Active, BootSteps, B, HomeInv, CallInv, MadeInv
  <1>14. ASSUME TakesFiles PROVE BuiltInv'
    BY CallOf, <1>t, <1>d, <1>k, <1>14 DEF TakesFiles, promises, CallKeeps, BuiltInv, BuiltAt,
       Held, Active, BootSteps, B
  <1>15. ASSUME Resumes PROVE BuiltInv'
    BY CallOf, <1>t, <1>d, <1>k, <1>15 DEF Resumes, Others, Place, Drive, promises, CallKeeps,
       BuiltInv, BuiltAt, Held, Active, BootSteps, B, NoCall
  <1>16. ASSUME Tars PROVE BuiltInv'
    BY CallOf, <1>t, <1>d, <1>k, <1>16 DEF Tars, promises, BuiltInv, BuiltAt, Held, Active,
       BootSteps, B, NoCall
  <1>17. ASSUME Flushes PROVE BuiltInv'
    BY CallOf, <1>t, <1>d, <1>k, <1>17 DEF Flushes, Others, Place, Drive, promises, CallKeeps,
       BuiltInv, BuiltAt, Held, Active, BootSteps, B, NoCall
  <1>18. ASSUME Laps PROVE BuiltInv'
    BY CallOf, <1>t, <1>d, <1>k, <1>18 DEF Laps, Others, Place, Drive, promises, CallKeeps,
       BuiltInv, BuiltAt, Held, Active, BootSteps, B, NoCall, Capturing
  <1>19. ASSUME NEW b \in Boots, Dirties(b) PROVE BuiltInv'
    BY CallOf, <1>t, <1>d, <1>k, <1>19 DEF Dirties, Others, Place, promises, BuiltInv, BuiltAt,
       Held, Active, BootSteps, B
  <1>20. ASSUME NEW b \in Boots, Stops(b) PROVE BuiltInv'
    BY CallOf, <1>t, <1>d, <1>k, <1>20 DEF Stops, Others, Place, Drive, promises, BuiltInv,
       BuiltAt, Held, Active, BootSteps, B
  <1>. QED
    BY <1>1, <1>2, <1>3, <1>4, <1>5, <1>6, <1>7, <1>8, <1>9, <1>10, <1>11, <1>12, <1>13, <1>14,
       <1>15, <1>16, <1>17, <1>18, <1>19, <1>20 DEF Step, CallStep

\* The directory a call captures into keeps what the call made.
LEMMA MadeStep ==
  ASSUME TypeOK, BootInv, CallInv, HomeInv, UnnamedInv, BuiltInv, MadeInv, TypeOK', Step
  PROVE  MadeInv'
  <1>t. /\ vm \in [Boots -> VMRec] /\ call \in CallRec /\ "none" \notin Boots /\ Boots \cap Keys = {}
        /\ vm' \in [Boots -> VMRec] /\ call' \in CallRec
        /\ call.b \in Boots \union {"none"} /\ call.dir \in Keys \union {"none"}
    BY IsolationAssumption DEF TypeOK, CallRec
  <1>d. /\ disk \in [Dirs -> DiskRec] /\ disk' \in [Dirs -> DiskRec] /\ Keys \subseteq Dirs /\ Boots \subseteq Dirs
        /\ \A c \in Boots : Held(c) => vm[c].home \in Dirs /\ vm[c].home \in Keys \union {c}
    BY DEF TypeOK, BootInv, Own, Dirs
  <1>c. call.pc \in {"patch", "create", "adopt"} => call.b \in Boots /\ call.dir \in Keys
    BY <1>t, CallOf DEF CallInv, B
  <1>k. kind' = kind
    BY DEF Step
  <1>1. ASSUME NEW b \in Boots, Born(b) PROVE MadeInv'
    BY <1>t, <1>d, <1>c, <1>k, <1>1 DEF Born, Others, promises, MadeInv, B
  <1>2. ASSUME NEW b \in Boots, Prepares(b) PROVE MadeInv'
    <2>1. ASSUME call.pc \in {"patch", "create", "adopt"} PROVE call.dir # vm[b].home
      BY <1>t, <1>c, <1>2, <2>1 DEF Prepares, BootSteps, Active, HomeInv, CallInv
    <2>. QED
      BY <1>c, <1>d, <1>2, <2>1 DEF Prepares, OnlyDir, MadeInv
  <1>3. ASSUME NEW b \in Boots, Aborts(b) PROVE MadeInv'
    BY <1>t, <1>d, <1>c, <1>k, <1>3 DEF Aborts, Others, promises, MadeInv, B
  <1>4. ASSUME NEW b \in Boots, Launches(b) PROVE MadeInv'
    BY <1>t, <1>d, <1>c, <1>k, <1>4 DEF Launches, Others, Place, MadeInv, B
  <1>5. ASSUME NEW b \in Boots, Ages(b) PROVE MadeInv'
    BY <1>t, <1>d, <1>c, <1>k, <1>5 DEF Ages, Others, Place, Drive, promises, MadeInv, B
  <1>6. ASSUME NEW b \in Boots, Ends(b) PROVE MadeInv'
    <2>1. vm[b].eph => vm[b].home \notin Keys
      BY <1>t, <1>6 DEF Ends, Held, Active, BootInv
    <2>. QED
      BY <1>c, <1>d, <1>6, <2>1 DEF Ends, OnlyDir, MadeInv
  <1>7. ASSUME NEW b \in Boots, Writes(b) PROVE MadeInv'
    <2>1. \A d \in Dirs : (disk[d].ovl # None => disk'[d].ovl # None) /\ disk'[d].prm = disk[d].prm
                          /\ disk'[d].snap = disk[d].snap /\ disk'[d].page = disk[d].page /\ disk'[d].mem = disk[d].mem
      BY <1>d, <1>7 DEF Writes, OnlyDir, None
    <2>. QED
      BY <1>c, <1>d, <1>7, <2>1 DEF Writes, MadeInv
  <1>8. ASSUME NEW b \in Boots, Asks(b) PROVE MadeInv'
    BY <1>t, <1>d, <1>c, <1>k, <1>8 DEF Asks, MadeInv, B
  <1>9. ASSUME Pauses PROVE MadeInv'
    <2>1. CASE call'.pc = "create" /\ call'.dir = call.dir /\ ~Moving /\ call.dir # "none" /\ vm[B].vmm = "running"
      <3>1. B \in Boots /\ vm[B].home = call.dir /\ vm[B].pc \in {"booting", "up"} /\ kind = "microvm"
        BY <1>9, <2>1, CallOf DEF Pauses, Moving, BootInv, CallInv
      <3>. QED
        BY <1>9, <2>1, <3>1 DEF Pauses, BuiltInv, BuiltAt, MadeInv
    <2>2. CASE call'.pc \notin {"patch", "create", "adopt"}
      BY <2>2 DEF MadeInv
    <2>. QED
      BY <1>9, <2>1, <2>2 DEF Pauses, NoCall, CallKeeps
  <1>10. ASSUME Copies PROVE MadeInv'
    <2>1. CASE call'.pc = "patch"
      <3>1. B \in Boots /\ vm[B].home \in Dirs /\ call.b = B /\ kind = "microvm" /\ call.dir \in Keys
        BY <1>10, CallOf DEF Copies, CallInv, B
      <3>2. disk[vm[B].home].ovl # None
        BY <1>10, <2>1 DEF Copies
      <3>3. ~(vm[B].pc = "gone" /\ vm[B].home = B)
        BY <3>1, <3>2 DEF UnnamedInv, Empty, Active
      <3>4. disk[vm[B].home].prm
        BY <1>10, <3>1, <3>3, CallOf DEF Copies, BuiltInv, BuiltAt
      <3>. QED
        BY <1>10, <2>1, <3>1, <3>2, <3>4 DEF Copies, CallKeeps, MadeInv
    <2>2. CASE call'.pc # "patch"
      BY <1>10, <2>2 DEF Copies, MadeInv
    <2>. QED
      BY <2>1, <2>2
  <1>11. ASSUME Repoints PROVE MadeInv'
    BY <1>t, <1>d, <1>c, <1>k, <1>11 DEF Repoints, Others, Place, promises, CallKeeps, MadeInv, B
  <1>12. ASSUME Captures PROVE MadeInv'
    <2>1. CASE call'.pc = "adopt"
      <3>1. B \in Boots /\ vm[B].vmm = "paused" /\ vm[B].belief # None /\ vm[B].dev # "none"
        BY <1>12, <2>1, CallOf DEF Captures, BuiltInv, BuiltAt, BootInv
      <3>. QED
        BY <1>12, <1>c, <2>1, <3>1 DEF Captures, CallKeeps, MadeInv
    <2>2. CASE call'.pc # "adopt"
      BY <1>12, <2>2 DEF Captures, MadeInv
    <2>. QED
      BY <2>1, <2>2
  <1>13. ASSUME Adopts PROVE MadeInv'
    BY <1>t, <1>d, <1>c, <1>k, <1>13 DEF Adopts, Others, Drive, OnlyDir, CallKeeps, MadeInv, B
  <1>14. ASSUME TakesFiles PROVE MadeInv'
    BY <1>t, <1>d, <1>c, <1>k, <1>14 DEF TakesFiles, promises, CallKeeps, MadeInv, B
  <1>15. ASSUME Resumes PROVE MadeInv'
    BY <1>t, <1>d, <1>c, <1>k, <1>15 DEF Resumes, Others, Place, Drive, promises, CallKeeps,
       MadeInv, B, NoCall
  <1>16. ASSUME Tars PROVE MadeInv'
    BY <1>t, <1>d, <1>c, <1>k, <1>16 DEF Tars, promises, MadeInv, B, NoCall
  <1>17. ASSUME Flushes PROVE MadeInv'
    BY <1>t, <1>d, <1>c, <1>k, <1>17 DEF Flushes, Others, Place, Drive, promises, CallKeeps,
       MadeInv, B, NoCall
  <1>18. ASSUME Laps PROVE MadeInv'
    BY <1>t, <1>d, <1>c, <1>k, <1>18 DEF Laps, Others, Place, Drive, promises, CallKeeps, MadeInv,
       B, NoCall, Capturing
  <1>19. ASSUME NEW b \in Boots, Dirties(b) PROVE MadeInv'
    BY <1>t, <1>k, <1>19 DEF Dirties, MadeInv, promises, Others, Place
  <1>20. ASSUME NEW b \in Boots, Stops(b) PROVE MadeInv'
    BY <1>t, <1>d, <1>c, <1>k, <1>20 DEF Stops, Others, Place, Drive, promises, MadeInv, B
  <1>. QED
    BY <1>1, <1>2, <1>3, <1>4, <1>5, <1>6, <1>7, <1>8, <1>9, <1>10, <1>11, <1>12, <1>13, <1>14,
       <1>15, <1>16, <1>17, <1>18, <1>19, <1>20 DEF Step, CallStep

\* Nobody boots cold on a key that was reported.
LEMMA ColdBootsStep ==
  ASSUME TypeOK, BootInv, CallInv, HomeInv, Kept, ColdBoots, TypeOK', Step
  PROVE  ColdBoots'
  <1>t. /\ vm \in [Boots -> VMRec] /\ call \in CallRec /\ "none" \notin Boots /\ Boots \cap Keys = {}
        /\ vm' \in [Boots -> VMRec] /\ call' \in CallRec
        /\ call.b \in Boots \union {"none"} /\ call.dir \in Keys \union {"none"}
    BY IsolationAssumption DEF TypeOK, CallRec
  <1>d. /\ disk \in [Dirs -> DiskRec] /\ disk' \in [Dirs -> DiskRec] /\ Keys \subseteq Dirs /\ Boots \subseteq Dirs
        /\ \A c \in Boots : Held(c) => vm[c].home \in Dirs /\ vm[c].home \in Keys \union {c}
    BY DEF TypeOK, BootInv, Own, Dirs
  <1>r. reported \subseteq Keys /\ (\A k \in reported : k \in Dirs) /\ reported' \subseteq Keys
    BY DEF TypeOK, Dirs
  <1>e. \A c \in Boots : Held(c) /\ vm[c].eph => vm[c].home \notin Keys
    BY <1>t DEF BootInv
  <1>k. kind' = kind
    BY DEF Step
  <1>1. ASSUME NEW b \in Boots, Born(b) PROVE ColdBoots'
    BY <1>t, <1>d, <1>r, <1>e, <1>k, <1>1 DEF Born, Others, promises, ColdBoots, BootSteps, B,
       Kept
  <1>2. ASSUME NEW b \in Boots, Prepares(b) PROVE ColdBoots'
    BY <1>t, <1>d, <1>r, <1>e, <1>k, <1>2 DEF Prepares, Steps, OnlyDir, promises, Others, Place,
       Drive, ColdBoots, BootSteps, B
  <1>3. ASSUME NEW b \in Boots, Aborts(b) PROVE ColdBoots'
    BY <1>t, <1>d, <1>r, <1>e, <1>k, <1>3 DEF Aborts, Others, promises, ColdBoots, BootSteps, B
  <1>4. ASSUME NEW b \in Boots, Launches(b) PROVE ColdBoots'
    BY <1>t, <1>d, <1>r, <1>e, <1>k, <1>4 DEF Launches, Others, Place, ColdBoots, BootSteps, B
  <1>5. ASSUME NEW b \in Boots, Ages(b) PROVE ColdBoots'
    BY <1>t, <1>d, <1>r, <1>e, <1>k, <1>5 DEF Ages, Others, Place, Drive, promises, ColdBoots,
       BootSteps, B
  <1>6. ASSUME NEW b \in Boots, Ends(b) PROVE ColdBoots'
    BY <1>t, <1>d, <1>r, <1>e, <1>k, <1>6 DEF Ends, Others, Drive, OnlyDir, promises, ColdBoots,
       BootSteps, B
  <1>7. ASSUME NEW b \in Boots, Writes(b) PROVE ColdBoots'
    BY <1>t, <1>d, <1>r, <1>e, <1>k, <1>7 DEF Writes, Others, Place, OnlyDir, ColdBoots,
       BootSteps, B
  <1>8. ASSUME NEW b \in Boots, Asks(b) PROVE ColdBoots'
    BY <1>t, <1>d, <1>r, <1>e, <1>k, <1>8 DEF Asks, ColdBoots, BootSteps, B
  <1>9. ASSUME Pauses PROVE ColdBoots'
    BY <1>t, <1>d, <1>r, <1>e, <1>k, <1>9 DEF Pauses, Others, Place, Drive, promises, CallKeeps,
       ColdBoots, BootSteps, B, NoCall
  <1>10. ASSUME Copies PROVE ColdBoots'
    BY <1>t, <1>d, <1>r, <1>e, <1>k, <1>10 DEF Copies, OnlyDir, CallKeeps, ColdBoots, BootSteps, B
  <1>11. ASSUME Repoints PROVE ColdBoots'
    BY <1>t, <1>d, <1>r, <1>e, <1>k, <1>11 DEF Repoints, Others, Place, promises, CallKeeps,
       ColdBoots, BootSteps, B
  <1>12. ASSUME Captures PROVE ColdBoots'
    BY <1>t, <1>d, <1>r, <1>e, <1>k, <1>12 DEF Captures, Others, Place, OnlyDir, CallKeeps,
       ColdBoots, BootSteps, B
  <1>13. ASSUME Adopts PROVE ColdBoots'
    BY <1>t, <1>d, <1>r, <1>e, <1>k, <1>13, CallOf DEF Adopts, Others, Drive, OnlyDir, CallKeeps,
       ColdBoots, BootSteps, B, HomeInv, Active, CallInv
  <1>14. ASSUME TakesFiles PROVE ColdBoots'
    BY <1>t, <1>d, <1>r, <1>e, <1>k, <1>14 DEF TakesFiles, promises, CallKeeps, ColdBoots,
       BootSteps, B
  <1>15. ASSUME Resumes PROVE ColdBoots'
    BY <1>t, <1>d, <1>r, <1>e, <1>k, <1>15 DEF Resumes, Others, Place, Drive, promises, CallKeeps,
       ColdBoots, BootSteps, B, NoCall
  <1>16. ASSUME Tars PROVE ColdBoots'
    BY <1>t, <1>d, <1>r, <1>e, <1>k, <1>16 DEF Tars, promises, ColdBoots, BootSteps, B, NoCall
  <1>17. ASSUME Flushes PROVE ColdBoots'
    BY <1>t, <1>d, <1>r, <1>e, <1>k, <1>17 DEF Flushes, Others, Place, Drive, promises, CallKeeps,
       ColdBoots, BootSteps, B, NoCall
  <1>18. ASSUME Laps PROVE ColdBoots'
    BY <1>t, <1>d, <1>r, <1>e, <1>k, <1>18 DEF Laps, Others, Place, Drive, promises, CallKeeps,
       ColdBoots, BootSteps, B, NoCall, Capturing
  <1>19. ASSUME NEW b \in Boots, Dirties(b) PROVE ColdBoots'
    BY <1>t, <1>d, <1>r, <1>e, <1>k, <1>19 DEF Dirties, Others, Place, OnlyDir, ColdBoots,
       BootSteps, B, promises
  <1>20. ASSUME NEW b \in Boots, Stops(b) PROVE ColdBoots'
    BY <1>t, <1>d, <1>r, <1>e, <1>k, <1>20 DEF Stops, Others, Place, Drive, promises, ColdBoots,
       BootSteps, B
  <1>. QED
    BY <1>1, <1>2, <1>3, <1>4, <1>5, <1>6, <1>7, <1>8, <1>9, <1>10, <1>11, <1>12, <1>13, <1>14,
       <1>15, <1>16, <1>17, <1>18, <1>19, <1>20 DEF Step, CallStep

\* A key that is being captured into is not reported.
LEMMA ColdTargetStep ==
  ASSUME TypeOK, BootInv, CallInv, ColdTarget, TypeOK', Step
  PROVE  ColdTarget'
  <1>t. /\ vm \in [Boots -> VMRec] /\ call \in CallRec /\ "none" \notin Boots /\ Boots \cap Keys = {}
        /\ vm' \in [Boots -> VMRec] /\ call' \in CallRec
        /\ call.b \in Boots \union {"none"} /\ call.dir \in Keys \union {"none"}
    BY IsolationAssumption DEF TypeOK, CallRec
  <1>d. /\ disk \in [Dirs -> DiskRec] /\ disk' \in [Dirs -> DiskRec] /\ Keys \subseteq Dirs /\ Boots \subseteq Dirs
        /\ \A c \in Boots : Held(c) => vm[c].home \in Dirs /\ vm[c].home \in Keys \union {c}
    BY DEF TypeOK, BootInv, Own, Dirs
  <1>r. reported \subseteq Keys /\ (\A k \in reported : k \in Dirs) /\ reported' \subseteq Keys
    BY DEF TypeOK, Dirs
  <1>e. \A c \in Boots : Held(c) /\ vm[c].eph => vm[c].home \notin Keys
    BY <1>t DEF BootInv
  <1>k. kind' = kind
    BY DEF Step
  <1>1. ASSUME NEW b \in Boots, Born(b) PROVE ColdTarget'
    BY <1>t, <1>d, <1>r, <1>e, <1>k, <1>1 DEF Born, Others, promises, ColdTarget
  <1>2. ASSUME NEW b \in Boots, Prepares(b) PROVE ColdTarget'
    BY <1>t, <1>d, <1>r, <1>e, <1>k, <1>2 DEF Prepares, Steps, OnlyDir, promises, Others, Place,
       Drive, ColdTarget
  <1>3. ASSUME NEW b \in Boots, Aborts(b) PROVE ColdTarget'
    BY <1>t, <1>d, <1>r, <1>e, <1>k, <1>3 DEF Aborts, Others, promises, ColdTarget
  <1>4. ASSUME NEW b \in Boots, Launches(b) PROVE ColdTarget'
    BY <1>t, <1>d, <1>r, <1>e, <1>k, <1>4 DEF Launches, Others, Place, ColdTarget
  <1>5. ASSUME NEW b \in Boots, Ages(b) PROVE ColdTarget'
    BY <1>t, <1>d, <1>r, <1>e, <1>k, <1>5 DEF Ages, Others, Place, Drive, promises, ColdTarget
  <1>6. ASSUME NEW b \in Boots, Ends(b) PROVE ColdTarget'
    BY <1>t, <1>d, <1>r, <1>e, <1>k, <1>6 DEF Ends, Others, Drive, OnlyDir, promises, ColdTarget
  <1>7. ASSUME NEW b \in Boots, Writes(b) PROVE ColdTarget'
    BY <1>t, <1>d, <1>r, <1>e, <1>k, <1>7 DEF Writes, Others, Place, OnlyDir, ColdTarget
  <1>8. ASSUME NEW b \in Boots, Asks(b) PROVE ColdTarget'
    BY <1>t, <1>d, <1>r, <1>e, <1>k, <1>8 DEF Asks, ColdTarget
  <1>9. ASSUME Pauses PROVE ColdTarget'
    BY <1>t, <1>d, <1>r, <1>e, <1>k, <1>9 DEF Pauses, Others, Place, Drive, promises, CallKeeps,
       ColdTarget, NoCall
  <1>10. ASSUME Copies PROVE ColdTarget'
    BY <1>t, <1>d, <1>r, <1>e, <1>k, <1>10 DEF Copies, OnlyDir, CallKeeps, ColdTarget
  <1>11. ASSUME Repoints PROVE ColdTarget'
    BY <1>t, <1>d, <1>r, <1>e, <1>k, <1>11 DEF Repoints, Others, Place, promises, CallKeeps,
       ColdTarget
  <1>12. ASSUME Captures PROVE ColdTarget'
    BY <1>t, <1>d, <1>r, <1>e, <1>k, <1>12 DEF Captures, Others, Place, OnlyDir, CallKeeps,
       ColdTarget
  <1>13. ASSUME Adopts PROVE ColdTarget'
    BY <1>t, <1>d, <1>r, <1>e, <1>k, <1>13 DEF Adopts, Others, Drive, OnlyDir, CallKeeps,
       ColdTarget
  <1>14. ASSUME TakesFiles PROVE ColdTarget'
    BY <1>t, <1>d, <1>r, <1>e, <1>k, <1>14 DEF TakesFiles, promises, CallKeeps, ColdTarget
  <1>15. ASSUME Resumes PROVE ColdTarget'
    BY <1>t, <1>d, <1>r, <1>e, <1>k, <1>15 DEF Resumes, Others, Place, Drive, promises, CallKeeps,
       ColdTarget, NoCall
  <1>16. ASSUME Tars PROVE ColdTarget'
    BY <1>t, <1>d, <1>r, <1>e, <1>k, <1>16 DEF Tars, promises, ColdTarget, NoCall
  <1>17. ASSUME Flushes PROVE ColdTarget'
    BY <1>t, <1>d, <1>r, <1>e, <1>k, <1>17 DEF Flushes, Others, Place, Drive, promises, CallKeeps,
       ColdTarget, NoCall
  <1>18. ASSUME Laps PROVE ColdTarget'
    BY <1>t, <1>d, <1>r, <1>e, <1>k, <1>18 DEF Laps, Others, Place, Drive, promises, CallKeeps,
       ColdTarget, NoCall, Capturing
  <1>19. ASSUME NEW b \in Boots, Dirties(b) PROVE ColdTarget'
    BY <1>t, <1>d, <1>r, <1>e, <1>k, <1>19 DEF Dirties, Others, Place, OnlyDir, ColdTarget,
       promises
  <1>20. ASSUME NEW b \in Boots, Stops(b) PROVE ColdTarget'
    BY <1>t, <1>d, <1>r, <1>e, <1>k, <1>20 DEF Stops, Others, Place, Drive, promises, ColdTarget
  <1>. QED
    BY <1>1, <1>2, <1>3, <1>4, <1>5, <1>6, <1>7, <1>8, <1>9, <1>10, <1>11, <1>12, <1>13, <1>14,
       <1>15, <1>16, <1>17, <1>18, <1>19, <1>20 DEF Step, CallStep

\* A key that was reported stays complete.
LEMMA KeptStep ==
  ASSUME TypeOK, BootInv, CallInv, MadeInv, ColdTarget, Fresh, Kept, TypeOK', Step
  PROVE  Kept'
  <1>t. /\ vm \in [Boots -> VMRec] /\ call \in CallRec /\ "none" \notin Boots /\ Boots \cap Keys = {}
        /\ vm' \in [Boots -> VMRec] /\ call' \in CallRec
        /\ call.b \in Boots \union {"none"} /\ call.dir \in Keys \union {"none"}
    BY IsolationAssumption DEF TypeOK, CallRec
  <1>d. /\ disk \in [Dirs -> DiskRec] /\ disk' \in [Dirs -> DiskRec] /\ Keys \subseteq Dirs /\ Boots \subseteq Dirs
        /\ \A c \in Boots : Held(c) => vm[c].home \in Dirs /\ vm[c].home \in Keys \union {c}
    BY DEF TypeOK, BootInv, Own, Dirs
  <1>r. reported \subseteq Keys /\ (\A k \in reported : k \in Dirs) /\ reported' \subseteq Keys
    BY DEF TypeOK, Dirs
  <1>e. \A c \in Boots : Held(c) /\ vm[c].eph => vm[c].home \notin Keys
    BY <1>t DEF BootInv
  <1>k. kind' = kind
    BY DEF Step
  <1>1. ASSUME NEW b \in Boots, Born(b) PROVE Kept'
    BY <1>t, <1>d, <1>r, <1>e, <1>k, <1>1 DEF Born, Others, promises, Kept, SnapshotReady
  <1>2. ASSUME NEW b \in Boots, Prepares(b) PROVE Kept'
    BY <1>t, <1>d, <1>r, <1>e, <1>k, <1>2 DEF Prepares, Steps, OnlyDir, promises, Others, Place,
       Drive, Kept, SnapshotReady
  <1>3. ASSUME NEW b \in Boots, Aborts(b) PROVE Kept'
    BY <1>t, <1>d, <1>r, <1>e, <1>k, <1>3 DEF Aborts, Others, promises, Kept, SnapshotReady
  <1>4. ASSUME NEW b \in Boots, Launches(b) PROVE Kept'
    BY <1>t, <1>d, <1>r, <1>e, <1>k, <1>4 DEF Launches, Others, Place, Kept, SnapshotReady
  <1>5. ASSUME NEW b \in Boots, Ages(b) PROVE Kept'
    BY <1>t, <1>d, <1>r, <1>e, <1>k, <1>5 DEF Ages, Others, Place, Drive, promises, Kept,
       SnapshotReady
  <1>6. ASSUME NEW b \in Boots, Ends(b) PROVE Kept'
    BY <1>t, <1>d, <1>r, <1>e, <1>k, <1>6 DEF Ends, Others, Drive, OnlyDir, promises, Kept,
       SnapshotReady, Held, Active
  <1>7. ASSUME NEW b \in Boots, Writes(b) PROVE Kept'
    BY <1>t, <1>d, <1>r, <1>e, <1>k, <1>7 DEF Writes, Others, Place, OnlyDir, Kept, SnapshotReady,
       None
  <1>8. ASSUME NEW b \in Boots, Asks(b) PROVE Kept'
    BY <1>t, <1>d, <1>r, <1>e, <1>k, <1>8 DEF Asks, Kept, SnapshotReady
  <1>9. ASSUME Pauses PROVE Kept'
    BY <1>t, <1>d, <1>r, <1>e, <1>k, <1>9 DEF Pauses, Others, Place, Drive, promises, CallKeeps,
       Kept, SnapshotReady, NoCall
  <1>10. ASSUME Copies PROVE Kept'
    BY <1>t, <1>d, <1>r, <1>e, <1>k, <1>10 DEF Copies, OnlyDir, CallKeeps, Kept, SnapshotReady,
       ColdTarget
  <1>11. ASSUME Repoints PROVE Kept'
    BY <1>t, <1>d, <1>r, <1>e, <1>k, <1>11 DEF Repoints, Others, Place, promises, CallKeeps, Kept,
       SnapshotReady
  <1>12. ASSUME Captures PROVE Kept'
    BY <1>t, <1>d, <1>r, <1>e, <1>k, <1>12 DEF Captures, Others, Place, OnlyDir, CallKeeps, Kept,
       SnapshotReady, ColdTarget
  <1>13. ASSUME Adopts PROVE Kept'
    BY <1>t, <1>d, <1>r, <1>e, <1>k, <1>13, CallOf DEF Adopts, Others, Drive, OnlyDir, CallKeeps,
       Kept, SnapshotReady, MadeInv, Fresh
  <1>14. ASSUME TakesFiles PROVE Kept'
    BY <1>t, <1>d, <1>r, <1>e, <1>k, <1>14 DEF TakesFiles, promises, CallKeeps, Kept,
       SnapshotReady
  <1>15. ASSUME Resumes PROVE Kept'
    BY <1>t, <1>d, <1>r, <1>e, <1>k, <1>15 DEF Resumes, Others, Place, Drive, promises, CallKeeps,
       Kept, SnapshotReady, NoCall
  <1>16. ASSUME Tars PROVE Kept'
    BY <1>t, <1>d, <1>r, <1>e, <1>k, <1>16 DEF Tars, promises, Kept, SnapshotReady, NoCall
  <1>17. ASSUME Flushes PROVE Kept'
    BY <1>t, <1>d, <1>r, <1>e, <1>k, <1>17 DEF Flushes, Others, Place, Drive, promises, CallKeeps,
       Kept, SnapshotReady, NoCall
  <1>18. ASSUME Laps PROVE Kept'
    BY <1>t, <1>d, <1>r, <1>e, <1>k, <1>18 DEF Laps, Others, Place, Drive, promises, CallKeeps,
       Kept, SnapshotReady, NoCall, Capturing
  <1>19. ASSUME NEW b \in Boots, Dirties(b) PROVE Kept'
    BY <1>t, <1>d, <1>r, <1>e, <1>k, <1>19 DEF Dirties, Others, Place, OnlyDir, Kept,
       SnapshotReady, None, promises
  <1>20. ASSUME NEW b \in Boots, Stops(b) PROVE Kept'
    BY <1>t, <1>d, <1>r, <1>e, <1>k, <1>20 DEF Stops, Others, Place, Drive, promises, Kept,
       SnapshotReady
  <1>. QED
    BY <1>1, <1>2, <1>3, <1>4, <1>5, <1>6, <1>7, <1>8, <1>9, <1>10, <1>11, <1>12, <1>13, <1>14,
       <1>15, <1>16, <1>17, <1>18, <1>19, <1>20 DEF Step, CallStep

\* A key about to be reported names its own drives.
LEMMA FreshStep ==
  ASSUME TypeOK, BootInv, CallInv, DevInv, Fresh, TypeOK', Step
  PROVE  Fresh'
  <1>t. /\ vm \in [Boots -> VMRec] /\ call \in CallRec /\ "none" \notin Boots /\ Boots \cap Keys = {}
        /\ vm' \in [Boots -> VMRec] /\ call' \in CallRec
        /\ call.b \in Boots \union {"none"} /\ call.dir \in Keys \union {"none"}
    BY IsolationAssumption DEF TypeOK, CallRec
  <1>d. /\ disk \in [Dirs -> DiskRec] /\ disk' \in [Dirs -> DiskRec] /\ Keys \subseteq Dirs /\ Boots \subseteq Dirs
        /\ \A c \in Boots : Held(c) => vm[c].home \in Dirs /\ vm[c].home \in Keys \union {c}
    BY DEF TypeOK, BootInv, Own, Dirs
  <1>r. reported \subseteq Keys /\ (\A k \in reported : k \in Dirs) /\ reported' \subseteq Keys
    BY DEF TypeOK, Dirs
  <1>e. \A c \in Boots : Held(c) /\ vm[c].eph => vm[c].home \notin Keys
    BY <1>t DEF BootInv
  <1>c. call.pc = "adopt" => call.b \in Boots /\ call.dir \in Keys /\ vm[call.b].pc \in {"up", "down", "captured", "gone"}
    BY <1>t, CallOf DEF CallInv, B
  <1>k. kind' = kind
    BY DEF Step
  <1>1. ASSUME NEW b \in Boots, Born(b) PROVE Fresh'
    BY <1>t, <1>d, <1>r, <1>e, <1>c, <1>k, <1>1 DEF Born, Others, promises, Fresh, B
  <1>2. ASSUME NEW b \in Boots, Prepares(b) PROVE Fresh'
    BY <1>t, <1>d, <1>r, <1>e, <1>c, <1>k, <1>2 DEF Prepares, Steps, OnlyDir, promises, Others,
       Place, Drive, Fresh, B, BootSteps
  <1>3. ASSUME NEW b \in Boots, Aborts(b) PROVE Fresh'
    BY <1>t, <1>d, <1>r, <1>e, <1>c, <1>k, <1>3 DEF Aborts, Others, promises, Fresh, B, BootSteps
  <1>4. ASSUME NEW b \in Boots, Launches(b) PROVE Fresh'
    BY <1>t, <1>d, <1>r, <1>e, <1>c, <1>k, <1>4 DEF Launches, Others, Place, Fresh, B, BootSteps
  <1>5. ASSUME NEW b \in Boots, Ages(b) PROVE Fresh'
    BY <1>t, <1>d, <1>r, <1>e, <1>c, <1>k, <1>5 DEF Ages, Others, Place, Drive, promises, Fresh, B
  <1>6. ASSUME NEW b \in Boots, Ends(b) PROVE Fresh'
    BY <1>t, <1>d, <1>r, <1>e, <1>c, <1>k, <1>6 DEF Ends, Others, Drive, OnlyDir, promises, Fresh,
       B, Held, Active
  <1>7. ASSUME NEW b \in Boots, Writes(b) PROVE Fresh'
    BY <1>t, <1>d, <1>r, <1>e, <1>c, <1>k, <1>7 DEF Writes, Others, Place, OnlyDir, Fresh, B
  <1>8. ASSUME NEW b \in Boots, Asks(b) PROVE Fresh'
    BY <1>t, <1>d, <1>r, <1>e, <1>c, <1>k, <1>8 DEF Asks, Fresh, B
  <1>9. ASSUME Pauses PROVE Fresh'
    BY <1>t, <1>d, <1>r, <1>e, <1>c, <1>k, <1>9 DEF Pauses, Others, Place, Drive, promises,
       CallKeeps, Fresh, B, NoCall
  <1>10. ASSUME Copies PROVE Fresh'
    BY <1>t, <1>d, <1>r, <1>e, <1>c, <1>k, <1>10 DEF Copies, OnlyDir, CallKeeps, Fresh, B
  <1>11. ASSUME Repoints PROVE Fresh'
    BY <1>t, <1>d, <1>r, <1>e, <1>c, <1>k, <1>11 DEF Repoints, Others, Place, promises, CallKeeps,
       Fresh, B
  <1>12. ASSUME Captures PROVE Fresh'
    BY <1>t, <1>d, <1>r, <1>e, <1>c, <1>k, <1>12, CallOf DEF Captures, Others, Place, OnlyDir,
       CallKeeps, Fresh, B, DevInv
  <1>13. ASSUME Adopts PROVE Fresh'
    BY <1>t, <1>d, <1>r, <1>e, <1>c, <1>k, <1>13 DEF Adopts, Others, Drive, OnlyDir, CallKeeps,
       Fresh, B
  <1>14. ASSUME TakesFiles PROVE Fresh'
    BY <1>t, <1>d, <1>r, <1>e, <1>c, <1>k, <1>14 DEF TakesFiles, promises, CallKeeps, Fresh, B
  <1>15. ASSUME Resumes PROVE Fresh'
    BY <1>t, <1>d, <1>r, <1>e, <1>c, <1>k, <1>15 DEF Resumes, Others, Place, Drive, promises,
       CallKeeps, Fresh, B, NoCall
  <1>16. ASSUME Tars PROVE Fresh'
    BY <1>t, <1>d, <1>r, <1>e, <1>c, <1>k, <1>16 DEF Tars, promises, Fresh, B, NoCall
  <1>17. ASSUME Flushes PROVE Fresh'
    BY <1>t, <1>d, <1>r, <1>e, <1>c, <1>k, <1>17 DEF Flushes, Others, Place, Drive, promises,
       CallKeeps, Fresh, B, NoCall
  <1>18. ASSUME Laps PROVE Fresh'
    BY <1>t, <1>d, <1>r, <1>e, <1>c, <1>k, <1>18 DEF Laps, Others, Place, Drive, promises,
       CallKeeps, Fresh, B, NoCall, Capturing
  <1>19. ASSUME NEW b \in Boots, Dirties(b) PROVE Fresh'
    BY <1>t, <1>d, <1>r, <1>e, <1>c, <1>k, <1>19 DEF Dirties, Others, Place, OnlyDir, Fresh, B,
       promises
  <1>20. ASSUME NEW b \in Boots, Stops(b) PROVE Fresh'
    BY <1>t, <1>d, <1>r, <1>e, <1>c, <1>k, <1>20 DEF Stops, Others, Place, Drive, promises, Fresh,
       B
  <1>. QED
    BY <1>1, <1>2, <1>3, <1>4, <1>5, <1>6, <1>7, <1>8, <1>9, <1>10, <1>11, <1>12, <1>13, <1>14,
       <1>15, <1>16, <1>17, <1>18, <1>19, <1>20 DEF Step, CallStep

\* The guest's last write does not change while it is captured.
LEMMA AtStep ==
  ASSUME TypeOK, BootInv, CallInv, BuiltInv, AtBelief, TypeOK', Step
  PROVE  AtBelief'
  <1>t. /\ vm \in [Boots -> VMRec] /\ call \in CallRec /\ "none" \notin Boots /\ Boots \cap Keys = {}
        /\ vm' \in [Boots -> VMRec] /\ call' \in CallRec
        /\ call.b \in Boots \union {"none"} /\ call.dir \in Keys \union {"none"}
    BY IsolationAssumption DEF TypeOK, CallRec
  <1>d. /\ disk \in [Dirs -> DiskRec] /\ disk' \in [Dirs -> DiskRec] /\ Keys \subseteq Dirs /\ Boots \subseteq Dirs
        /\ \A c \in Boots : Held(c) => vm[c].home \in Dirs /\ vm[c].home \in Keys \union {c}
    BY DEF TypeOK, BootInv, Own, Dirs
  <1>r. reported \subseteq Keys /\ (\A k \in reported : k \in Dirs) /\ reported' \subseteq Keys
    BY DEF TypeOK, Dirs
  <1>e. \A c \in Boots : Held(c) /\ vm[c].eph => vm[c].home \notin Keys
    BY <1>t DEF BootInv
  <1>c. /\ call.pc \in Capturing => call.b \in Boots /\ vm[call.b].pc \in {"up", "down", "captured", "gone"}
        /\ call.pc \in {"copy", "patch", "create", "adopt"} => call.dir \in Keys
    BY <1>t, CallOf DEF CallInv, B, Capturing
  <1>k. kind' = kind
    BY DEF Step
  <1>1. ASSUME NEW b \in Boots, Born(b) PROVE AtBelief'
    BY <1>t, <1>d, <1>r, <1>e, <1>c, <1>k, <1>1 DEF Born, Others, promises, AtBelief, Capturing, B
  <1>2. ASSUME NEW b \in Boots, Prepares(b) PROVE AtBelief'
    BY <1>t, <1>d, <1>r, <1>e, <1>c, <1>k, <1>2 DEF Prepares, Steps, OnlyDir, promises, Others,
       Place, Drive, AtBelief, Capturing, B, BootSteps
  <1>3. ASSUME NEW b \in Boots, Aborts(b) PROVE AtBelief'
    BY <1>t, <1>d, <1>r, <1>e, <1>c, <1>k, <1>3 DEF Aborts, Others, promises, AtBelief, Capturing,
       B, BootSteps
  <1>4. ASSUME NEW b \in Boots, Launches(b) PROVE AtBelief'
    BY <1>t, <1>d, <1>r, <1>e, <1>c, <1>k, <1>4 DEF Launches, Others, Place, AtBelief, Capturing,
       B, BootSteps
  <1>5. ASSUME NEW b \in Boots, Ages(b) PROVE AtBelief'
    BY <1>t, <1>d, <1>r, <1>e, <1>c, <1>k, <1>5 DEF Ages, Others, Place, Drive, promises,
       AtBelief, Capturing, B
  <1>6. ASSUME NEW b \in Boots, Ends(b) PROVE AtBelief'
    BY <1>t, <1>d, <1>r, <1>e, <1>c, <1>k, <1>6 DEF Ends, Others, Drive, OnlyDir, promises,
       AtBelief, Capturing, B
  <1>7. ASSUME NEW b \in Boots, Writes(b) PROVE AtBelief'
    BY <1>t, <1>d, <1>r, <1>e, <1>c, <1>k, <1>7 DEF Writes, Others, Place, OnlyDir, AtBelief,
       Capturing, B, CallInv
  <1>8. ASSUME NEW b \in Boots, Asks(b) PROVE AtBelief'
    BY <1>t, <1>d, <1>r, <1>e, <1>c, <1>k, <1>8 DEF Asks, AtBelief, Capturing, B
  <1>9. ASSUME Pauses PROVE AtBelief'
    BY <1>t, <1>d, <1>r, <1>e, <1>c, <1>k, <1>9, CallOf DEF Pauses, Others, Place, Drive,
       promises, CallKeeps, AtBelief, Capturing, B, BuiltInv, BuiltAt, NoCall
  <1>10. ASSUME Copies PROVE AtBelief'
    BY <1>t, <1>d, <1>r, <1>e, <1>c, <1>k, <1>10 DEF Copies, OnlyDir, CallKeeps, AtBelief,
       Capturing, B
  <1>11. ASSUME Repoints PROVE AtBelief'
    BY <1>t, <1>d, <1>r, <1>e, <1>c, <1>k, <1>11 DEF Repoints, Others, Place, promises, CallKeeps,
       AtBelief, Capturing, B
  <1>12. ASSUME Captures PROVE AtBelief'
    BY <1>t, <1>d, <1>r, <1>e, <1>c, <1>k, <1>12 DEF Captures, Others, Place, OnlyDir, CallKeeps,
       AtBelief, Capturing, B
  <1>13. ASSUME Adopts PROVE AtBelief'
    BY <1>t, <1>d, <1>r, <1>e, <1>c, <1>k, <1>13 DEF Adopts, Others, Drive, OnlyDir, CallKeeps,
       AtBelief, Capturing, B
  <1>14. ASSUME TakesFiles PROVE AtBelief'
    BY <1>t, <1>d, <1>r, <1>e, <1>c, <1>k, <1>14 DEF TakesFiles, promises, CallKeeps, AtBelief,
       Capturing, B
  <1>15. ASSUME Resumes PROVE AtBelief'
    BY <1>t, <1>d, <1>r, <1>e, <1>c, <1>k, <1>15 DEF Resumes, Others, Place, Drive, promises,
       CallKeeps, AtBelief, Capturing, B, NoCall
  <1>16. ASSUME Tars PROVE AtBelief'
    BY <1>t, <1>d, <1>r, <1>e, <1>c, <1>k, <1>16 DEF Tars, promises, AtBelief, Capturing, B,
       NoCall
  <1>17. ASSUME Flushes PROVE AtBelief'
    BY <1>t, <1>d, <1>r, <1>e, <1>c, <1>k, <1>17 DEF Flushes, Others, Place, Drive, promises,
       CallKeeps, AtBelief, Capturing, B, NoCall
  <1>18. ASSUME Laps PROVE AtBelief'
    BY <1>t, <1>d, <1>r, <1>e, <1>c, <1>k, <1>18 DEF Laps, Others, Place, Drive, promises,
       CallKeeps, AtBelief, Capturing, B, NoCall
  <1>19. ASSUME NEW b \in Boots, Dirties(b) PROVE AtBelief'
    BY <1>t, <1>d, <1>r, <1>e, <1>c, <1>k, <1>19 DEF Dirties, Others, Place, OnlyDir, AtBelief,
       Capturing, B, CallInv, promises
  <1>20. ASSUME NEW b \in Boots, Stops(b) PROVE AtBelief'
    BY <1>t, <1>d, <1>r, <1>e, <1>c, <1>k, <1>20 DEF Stops, Others, Place, Drive, promises,
       AtBelief, Capturing, B
  <1>. QED
    BY <1>1, <1>2, <1>3, <1>4, <1>5, <1>6, <1>7, <1>8, <1>9, <1>10, <1>11, <1>12, <1>13, <1>14,
       <1>15, <1>16, <1>17, <1>18, <1>19, <1>20 DEF Step, CallStep

\* The overlay that is captured is of that instant, on either side of a relocation.
LEMMA OvlStep ==
  ASSUME TypeOK, BootInv, CallInv, HomeInv, DriveInv, DevInv, BuiltInv, DeviceMatchesMemory, OvlAt, TypeOK', Step
  PROVE  OvlAt'
  <1>t. /\ vm \in [Boots -> VMRec] /\ call \in CallRec /\ "none" \notin Boots /\ Boots \cap Keys = {}
        /\ vm' \in [Boots -> VMRec] /\ call' \in CallRec
        /\ call.b \in Boots \union {"none"} /\ call.dir \in Keys \union {"none"}
    BY IsolationAssumption DEF TypeOK, CallRec
  <1>d. /\ disk \in [Dirs -> DiskRec] /\ disk' \in [Dirs -> DiskRec] /\ Keys \subseteq Dirs /\ Boots \subseteq Dirs
        /\ \A c \in Boots : Held(c) => vm[c].home \in Dirs /\ vm[c].home \in Keys \union {c}
    BY DEF TypeOK, BootInv, Own, Dirs
  <1>r. reported \subseteq Keys /\ (\A k \in reported : k \in Dirs) /\ reported' \subseteq Keys
    BY DEF TypeOK, Dirs
  <1>e. \A c \in Boots : Held(c) /\ vm[c].eph => vm[c].home \notin Keys
    BY <1>t DEF BootInv
  <1>c. /\ call.pc \in Capturing => call.b \in Boots /\ vm[call.b].pc \in {"up", "down", "captured", "gone"}
        /\ call.pc \in {"copy", "patch", "create", "adopt"} => call.dir \in Keys
    BY <1>t, CallOf DEF CallInv, B, Capturing
  <1>k. kind' = kind
    BY DEF Step
  <1>1. ASSUME NEW b \in Boots, Born(b) PROVE OvlAt'
    BY <1>t, <1>d, <1>r, <1>e, <1>c, <1>k, <1>1 DEF Born, Others, promises, OvlAt, Capturing, B
  <1>2. ASSUME NEW b \in Boots, Prepares(b) PROVE OvlAt'
    <2>1. ASSUME call.pc \in Capturing PROVE call.b # b /\ vm[b].home \notin {call.dir, vm[call.b].home}
      BY <1>t, <1>c, <1>2, <2>1 DEF Prepares, BootSteps, HomeInv, Held, Active
    <2>2. ASSUME call.pc \in Capturing PROVE vm[call.b].home \in Dirs
      BY <1>c, <1>d, <2>2 DEF Held
    <2>. QED
      BY <1>c, <1>d, <1>2, <2>1, <2>2 DEF Prepares, Steps, Others, OnlyDir, promises, OvlAt, B, Capturing
  <1>3. ASSUME NEW b \in Boots, Aborts(b) PROVE OvlAt'
    BY <1>t, <1>d, <1>r, <1>e, <1>c, <1>k, <1>3 DEF Aborts, Others, promises, OvlAt, Capturing, B,
       BootSteps
  <1>4. ASSUME NEW b \in Boots, Launches(b) PROVE OvlAt'
    BY <1>t, <1>d, <1>r, <1>e, <1>c, <1>k, <1>4 DEF Launches, Others, Place, OvlAt, Capturing, B,
       BootSteps
  <1>5. ASSUME NEW b \in Boots, Ages(b) PROVE OvlAt'
    BY <1>t, <1>d, <1>r, <1>e, <1>c, <1>k, <1>5 DEF Ages, Others, Place, Drive, promises, OvlAt,
       Capturing, B
  <1>6. ASSUME NEW b \in Boots, Ends(b) PROVE OvlAt'
    <2>1. Held(b)
      BY <1>6 DEF Ends, Held, Active
    <2>2. call.pc \in {"patch", "create", "adopt"} => disk'[call.dir] = disk[call.dir]
      BY <1>c, <1>d, <1>e, <1>6, <2>1 DEF Ends, OnlyDir
    <2>3. ASSUME call.pc \in {"copy", "files"}
          PROVE  /\ vm'[call.b].home = vm[call.b].home
                 /\ disk'[vm[call.b].home].ovl \in {disk[vm[call.b].home].ovl, None}
      <3>1. call.b \in Boots /\ vm[call.b].home \in Dirs
        BY <1>c, <1>d, <2>3 DEF Capturing, Held
      <3>. QED
        BY <1>d, <1>6, <3>1 DEF Ends, Others, OnlyDir, Empty
    <2>. QED
      BY <1>6, <2>2, <2>3 DEF Ends, promises, OvlAt, B
  <1>7. ASSUME NEW b \in Boots, Writes(b) PROVE OvlAt'
    <2>1. ASSUME call.pc \in Capturing, call.at # None, ~crossed
          PROVE  call.b # b /\ vm[b].dev \notin {call.dir, vm[call.b].home}
      <3>1. call.b # b /\ call.b # "none" /\ Active(b) /\ vm[b].dev # "none"
        BY <1>t, <1>c, <1>7, <2>1 DEF Writes, CallInv, BootInv, Active, B
      <3>. QED
        BY <2>1, <3>1 DEF DriveInv
    <2>2. ASSUME call.pc \in Capturing PROVE vm[call.b].home \in Dirs
      BY <1>c, <1>d, <2>2 DEF Held
    <2>. QED
      BY <1>c, <1>d, <1>7, <2>1, <2>2 DEF Writes, Others, OnlyDir, OvlAt, B, Capturing
  <1>8. ASSUME NEW b \in Boots, Asks(b) PROVE OvlAt'
    BY <1>t, <1>d, <1>r, <1>e, <1>c, <1>k, <1>8 DEF Asks, OvlAt, Capturing, B
  <1>9. ASSUME Pauses PROVE OvlAt'
    <2>1. CASE vm[B].vmm = "running" /\ call'.at # None /\ ~crossed
      <3>1. B \in Boots /\ call.b = B /\ vm[B].sound /\ ~vm[B].stray /\ call'.at = vm[B].belief
        BY <1>9, <2>1, CallOf DEF Pauses, NoCall, B
      <3>2. vm[B].dev = vm[B].home /\ disk[vm[B].dev].ovl = vm[B].belief
        BY <1>9, <2>1, <3>1 DEF Pauses, DevInv, DeviceMatchesMemory
      <3>3. CASE call' = NoCall
        BY <2>1, <3>3 DEF NoCall
      <3>4. CASE /\ CallKeeps /\ vm'[B].home = vm[B].home
                 /\ call'.pc = IF call.dir = "none" THEN "files" ELSE IF Moving THEN "copy" ELSE "create"
        BY <1>9, <3>1, <3>2, <3>4 DEF Pauses, CallKeeps, OvlAt, Moving, B
      <3>. QED
        BY <1>9, <3>3, <3>4 DEF Pauses, Place
    <2>2. CASE ~(call'.at # None /\ ~crossed)
      BY <1>9, <2>2 DEF Pauses, OvlAt, promises
    <2>3. CASE call' = NoCall
      BY <2>3 DEF OvlAt, NoCall
    <2>. QED
      BY <1>9, <2>1, <2>2, <2>3 DEF Pauses
  <1>10. ASSUME Copies PROVE OvlAt'
    BY <1>t, <1>d, <1>r, <1>e, <1>c, <1>k, <1>10 DEF Copies, OnlyDir, CallKeeps, OvlAt, Capturing,
       B
  <1>11. ASSUME Repoints PROVE OvlAt'
    BY <1>t, <1>d, <1>r, <1>e, <1>c, <1>k, <1>11 DEF Repoints, Others, Place, promises, CallKeeps,
       OvlAt, Capturing, B
  <1>12. ASSUME Captures PROVE OvlAt'
    BY <1>t, <1>d, <1>r, <1>e, <1>c, <1>k, <1>12 DEF Captures, Others, Place, OnlyDir, CallKeeps,
       OvlAt, Capturing, B
  <1>13. ASSUME Adopts PROVE OvlAt'
    BY <1>t, <1>d, <1>r, <1>e, <1>c, <1>k, <1>13 DEF Adopts, Others, Drive, OnlyDir, CallKeeps,
       OvlAt, Capturing, B
  <1>14. ASSUME TakesFiles PROVE OvlAt'
    BY <1>t, <1>d, <1>r, <1>e, <1>c, <1>k, <1>14 DEF TakesFiles, promises, CallKeeps, OvlAt,
       Capturing, B
  <1>15. ASSUME Resumes PROVE OvlAt'
    BY <1>t, <1>d, <1>r, <1>e, <1>c, <1>k, <1>15 DEF Resumes, Others, Place, Drive, promises,
       CallKeeps, OvlAt, Capturing, B, NoCall
  <1>16. ASSUME Tars PROVE OvlAt'
    BY <1>t, <1>d, <1>r, <1>e, <1>c, <1>k, <1>16 DEF Tars, promises, OvlAt, Capturing, B, NoCall
  <1>17. ASSUME Flushes PROVE OvlAt'
    BY <1>t, <1>d, <1>r, <1>e, <1>c, <1>k, <1>17 DEF Flushes, Others, Place, Drive, promises,
       CallKeeps, OvlAt, Capturing, B, NoCall
  <1>18. ASSUME Laps PROVE OvlAt'
    BY <1>t, <1>d, <1>r, <1>e, <1>c, <1>k, <1>18 DEF Laps, Others, Place, Drive, promises,
       CallKeeps, OvlAt, Capturing, B, NoCall
  <1>19. ASSUME NEW b \in Boots, Dirties(b) PROVE OvlAt'
    BY <1>t, <1>d, <1>r, <1>e, <1>c, <1>k, <1>19 DEF Dirties, Others, Place, promises, OvlAt,
       Capturing, B
  <1>20. ASSUME NEW b \in Boots, Stops(b) PROVE OvlAt'
    BY <1>t, <1>d, <1>r, <1>e, <1>c, <1>k, <1>20 DEF Stops, Others, Place, Drive, promises, OvlAt,
       Capturing, B
  <1>. QED
    BY <1>1, <1>2, <1>3, <1>4, <1>5, <1>6, <1>7, <1>8, <1>9, <1>10, <1>11, <1>12, <1>13, <1>14,
       <1>15, <1>16, <1>17, <1>18, <1>19, <1>20 DEF Step, CallStep

\* So is the memory.
LEMMA MemStep ==
  ASSUME TypeOK, BootInv, CallInv, AtBelief, MemAt, TypeOK', Step
  PROVE  MemAt'
  <1>t. /\ vm \in [Boots -> VMRec] /\ call \in CallRec /\ "none" \notin Boots /\ Boots \cap Keys = {}
        /\ vm' \in [Boots -> VMRec] /\ call' \in CallRec
        /\ call.b \in Boots \union {"none"} /\ call.dir \in Keys \union {"none"}
    BY IsolationAssumption DEF TypeOK, CallRec
  <1>d. /\ disk \in [Dirs -> DiskRec] /\ disk' \in [Dirs -> DiskRec] /\ Keys \subseteq Dirs /\ Boots \subseteq Dirs
        /\ \A c \in Boots : Held(c) => vm[c].home \in Dirs /\ vm[c].home \in Keys \union {c}
    BY DEF TypeOK, BootInv, Own, Dirs
  <1>r. reported \subseteq Keys /\ (\A k \in reported : k \in Dirs) /\ reported' \subseteq Keys
    BY DEF TypeOK, Dirs
  <1>e. \A c \in Boots : Held(c) /\ vm[c].eph => vm[c].home \notin Keys
    BY <1>t DEF BootInv
  <1>c. /\ call.pc \in Capturing => call.b \in Boots /\ vm[call.b].pc \in {"up", "down", "captured", "gone"}
        /\ call.pc \in {"copy", "patch", "create", "adopt"} => call.dir \in Keys
    BY <1>t, CallOf DEF CallInv, B, Capturing
  <1>k. kind' = kind
    BY DEF Step
  <1>1. ASSUME NEW b \in Boots, Born(b) PROVE MemAt'
    BY <1>t, <1>d, <1>r, <1>e, <1>c, <1>k, <1>1 DEF Born, Others, promises, MemAt, Capturing, B
  <1>2. ASSUME NEW b \in Boots, Prepares(b) PROVE MemAt'
    BY <1>t, <1>d, <1>r, <1>e, <1>c, <1>k, <1>2 DEF Prepares, Steps, OnlyDir, promises, Others,
       Place, Drive, MemAt, Capturing, B, BootSteps
  <1>3. ASSUME NEW b \in Boots, Aborts(b) PROVE MemAt'
    BY <1>t, <1>d, <1>r, <1>e, <1>c, <1>k, <1>3 DEF Aborts, Others, promises, MemAt, Capturing, B,
       BootSteps
  <1>4. ASSUME NEW b \in Boots, Launches(b) PROVE MemAt'
    BY <1>t, <1>d, <1>r, <1>e, <1>c, <1>k, <1>4 DEF Launches, Others, Place, MemAt, Capturing, B,
       BootSteps
  <1>5. ASSUME NEW b \in Boots, Ages(b) PROVE MemAt'
    BY <1>t, <1>d, <1>r, <1>e, <1>c, <1>k, <1>5 DEF Ages, Others, Place, Drive, promises, MemAt,
       Capturing, B
  <1>6. ASSUME NEW b \in Boots, Ends(b) PROVE MemAt'
    BY <1>t, <1>d, <1>r, <1>e, <1>c, <1>k, <1>6 DEF Ends, Others, Drive, OnlyDir, promises, MemAt,
       Capturing, B, Held, Active
  <1>7. ASSUME NEW b \in Boots, Writes(b) PROVE MemAt'
    BY <1>t, <1>d, <1>r, <1>e, <1>c, <1>k, <1>7 DEF Writes, Others, Place, OnlyDir, MemAt,
       Capturing, B
  <1>8. ASSUME NEW b \in Boots, Asks(b) PROVE MemAt'
    BY <1>t, <1>d, <1>r, <1>e, <1>c, <1>k, <1>8 DEF Asks, MemAt, Capturing, B
  <1>9. ASSUME Pauses PROVE MemAt'
    BY <1>t, <1>d, <1>r, <1>e, <1>c, <1>k, <1>9 DEF Pauses, Others, Place, Drive, promises,
       CallKeeps, MemAt, Capturing, B, NoCall
  <1>10. ASSUME Copies PROVE MemAt'
    BY <1>t, <1>d, <1>r, <1>e, <1>c, <1>k, <1>10 DEF Copies, OnlyDir, CallKeeps, MemAt, Capturing,
       B
  <1>11. ASSUME Repoints PROVE MemAt'
    BY <1>t, <1>d, <1>r, <1>e, <1>c, <1>k, <1>11 DEF Repoints, Others, Place, promises, CallKeeps,
       MemAt, Capturing, B
  <1>12. ASSUME Captures PROVE MemAt'
    BY <1>t, <1>d, <1>r, <1>e, <1>c, <1>k, <1>12 DEF Captures, Others, Place, OnlyDir, CallKeeps,
       MemAt, Capturing, B, AtBelief
  <1>13. ASSUME Adopts PROVE MemAt'
    BY <1>t, <1>d, <1>r, <1>e, <1>c, <1>k, <1>13 DEF Adopts, Others, Drive, OnlyDir, CallKeeps,
       MemAt, Capturing, B
  <1>14. ASSUME TakesFiles PROVE MemAt'
    BY <1>t, <1>d, <1>r, <1>e, <1>c, <1>k, <1>14 DEF TakesFiles, promises, CallKeeps, MemAt,
       Capturing, B
  <1>15. ASSUME Resumes PROVE MemAt'
    BY <1>t, <1>d, <1>r, <1>e, <1>c, <1>k, <1>15 DEF Resumes, Others, Place, Drive, promises,
       CallKeeps, MemAt, Capturing, B, NoCall
  <1>16. ASSUME Tars PROVE MemAt'
    BY <1>t, <1>d, <1>r, <1>e, <1>c, <1>k, <1>16 DEF Tars, promises, MemAt, Capturing, B, NoCall
  <1>17. ASSUME Flushes PROVE MemAt'
    BY <1>t, <1>d, <1>r, <1>e, <1>c, <1>k, <1>17 DEF Flushes, Others, Place, Drive, promises,
       CallKeeps, MemAt, Capturing, B, NoCall
  <1>18. ASSUME Laps PROVE MemAt'
    BY <1>t, <1>d, <1>r, <1>e, <1>c, <1>k, <1>18 DEF Laps, Others, Place, Drive, promises,
       CallKeeps, MemAt, Capturing, B, NoCall
  <1>19. ASSUME NEW b \in Boots, Dirties(b) PROVE MemAt'
    BY <1>t, <1>d, <1>r, <1>e, <1>c, <1>k, <1>19 DEF Dirties, Others, Place, OnlyDir, MemAt,
       Capturing, B, promises
  <1>20. ASSUME NEW b \in Boots, Stops(b) PROVE MemAt'
    BY <1>t, <1>d, <1>r, <1>e, <1>c, <1>k, <1>20 DEF Stops, Others, Place, Drive, promises, MemAt,
       Capturing, B
  <1>. QED
    BY <1>1, <1>2, <1>3, <1>4, <1>5, <1>6, <1>7, <1>8, <1>9, <1>10, <1>11, <1>12, <1>13, <1>14,
       <1>15, <1>16, <1>17, <1>18, <1>19, <1>20 DEF Step, CallStep

\* Nobody else writes the drive of a running guest.
LEMMA DeviceStep ==
  ASSUME TypeOK, BootInv, CallInv, HomeInv, DriveInv, DevInv, Kept, InstantInv, OneInstant, DeviceMatchesMemory, TypeOK', Step
  PROVE  DeviceMatchesMemory'
  <1>t. /\ vm \in [Boots -> VMRec] /\ call \in CallRec /\ "none" \notin Boots /\ Boots \cap Keys = {}
        /\ vm' \in [Boots -> VMRec] /\ call' \in CallRec
        /\ call.b \in Boots \union {"none"} /\ call.dir \in Keys \union {"none"}
    BY IsolationAssumption DEF TypeOK, CallRec
  <1>d. /\ disk \in [Dirs -> DiskRec] /\ disk' \in [Dirs -> DiskRec] /\ Keys \subseteq Dirs /\ Boots \subseteq Dirs
        /\ \A c \in Boots : Held(c) => vm[c].home \in Dirs /\ vm[c].home \in Keys \union {c}
    BY DEF TypeOK, BootInv, Own, Dirs
  <1>r. reported \subseteq Keys /\ (\A k \in reported : k \in Dirs) /\ reported' \subseteq Keys
    BY DEF TypeOK, Dirs
  <1>e. \A c \in Boots : Held(c) /\ vm[c].eph => vm[c].home \notin Keys
    BY <1>t DEF BootInv
  <1>c. /\ call.pc \in Capturing => call.b \in Boots /\ vm[call.b].pc \in {"up", "down", "captured", "gone"}
        /\ call.pc \in {"copy", "patch", "create", "adopt"} => call.dir \in Keys
    BY <1>t, CallOf DEF CallInv, B, Capturing
  <1>v. \A c \in Boots : vm[c].vmm # "off" =>
          /\ Active(c) /\ vm[c].pc \in {"booting", "up"}
          /\ vm[c].dev \in Dirs /\ vm[c].dev # "none" /\ vm[c].dev \in Keys \union {c}
    BY DEF BootInv, Active, Own, Dirs
  <1>k. kind' = kind
    BY DEF Step
  <1>1. ASSUME NEW b \in Boots, Born(b) PROVE DeviceMatchesMemory'
    BY <1>t, <1>d, <1>r, <1>e, <1>c, <1>v, <1>k, <1>1 DEF Born, Others, promises,
       DeviceMatchesMemory, B
  <1>2. ASSUME NEW b \in Boots, Prepares(b) PROVE DeviceMatchesMemory'
    <2>1. Active(b) /\ vm[b].vmm = "off" /\ vm'[b].vmm = "off"
      BY <1>2 DEF Prepares, Steps, BootSteps, Active, BootInv
    <2>2. ASSUME ~crossed, NEW c \in Boots, vm[c].vmm # "off" PROVE disk'[vm[c].dev] = disk[vm[c].dev]
      BY <1>v, <1>2, <2>1, <2>2 DEF DriveInv, Prepares, OnlyDir
    <2>. QED
      BY <1>2, <2>1, <2>2 DEF Prepares, Steps, Others, promises, DeviceMatchesMemory
  <1>3. ASSUME NEW b \in Boots, Aborts(b) PROVE DeviceMatchesMemory'
    BY <1>t, <1>d, <1>r, <1>e, <1>c, <1>v, <1>k, <1>3 DEF Aborts, Others, promises,
       DeviceMatchesMemory, B
  <1>4. ASSUME NEW b \in Boots, Launches(b) PROVE DeviceMatchesMemory'
    <2>1. ASSUME vm'[b].sound, ~crossed' PROVE disk[vm'[b].dev].ovl = vm'[b].belief
      <3>1. CASE vm[b].pc = "loading" /\ vm'[b].dev = disk[vm[b].home].snap
                 /\ vm'[b].belief = disk[vm[b].home].mem /\ vm[b].home \in reported \ dirty /\ ~crossed
        BY <3>1 DEF Kept, OneInstant
      <3>2. CASE vm'[b].dev = vm[b].home /\ vm'[b].belief = disk[vm[b].home].ovl
        BY <3>2
      <3>. QED
        BY <1>4, <2>1, <3>1, <3>2 DEF Launches
    <2>2. crossed => crossed'
      BY <1>4 DEF Launches
    <2>. QED
      BY <1>4, <2>1, <2>2 DEF Launches, Others, DeviceMatchesMemory
  <1>5. ASSUME NEW b \in Boots, Ages(b) PROVE DeviceMatchesMemory'
    BY <1>t, <1>d, <1>r, <1>e, <1>c, <1>v, <1>k, <1>5 DEF Ages, Others, Place, Drive, promises,
       DeviceMatchesMemory, B
  <1>6. ASSUME NEW b \in Boots, Ends(b) PROVE DeviceMatchesMemory'
    <2>1. Held(b) /\ vm[b].vmm = "off" /\ vm'[b].vmm = "off" /\ (vm[b].eph => vm[b].home = b)
      BY <1>6 DEF Ends, Held, Active, BootInv
    <2>2. ASSUME NEW c \in Boots, vm[c].vmm # "off" PROVE disk'[vm[c].dev] = disk[vm[c].dev]
      BY <1>t, <1>v, <1>6, <2>1, <2>2 DEF Ends, OnlyDir
    <2>. QED
      BY <1>6, <2>1, <2>2 DEF Ends, Others, promises, DeviceMatchesMemory
  <1>7. ASSUME NEW b \in Boots, Writes(b) PROVE DeviceMatchesMemory'
    <2>1. ASSUME ~crossed, NEW c \in Boots, c # b, vm[c].vmm # "off"
          PROVE  disk'[vm[c].dev] = disk[vm[c].dev]
      BY <1>v, <1>7, <2>1 DEF DriveInv, Writes, OnlyDir
    <2>. QED
      BY <1>7, <2>1 DEF Writes, Others, DeviceMatchesMemory
  <1>8. ASSUME NEW b \in Boots, Asks(b) PROVE DeviceMatchesMemory'
    BY <1>t, <1>d, <1>r, <1>e, <1>c, <1>v, <1>k, <1>8 DEF Asks, DeviceMatchesMemory, B
  <1>9. ASSUME Pauses PROVE DeviceMatchesMemory'
    BY <1>t, <1>d, <1>r, <1>e, <1>c, <1>v, <1>k, <1>9 DEF Pauses, Others, Place, Drive, promises,
       CallKeeps, DeviceMatchesMemory, B, NoCall
  <1>10. ASSUME Copies PROVE DeviceMatchesMemory'
    <2>1. B \in Boots /\ call.b = B /\ call.b # "none" /\ call.dir # vm[B].home
      BY <1>t, <1>10, CallOf DEF Copies, CallInv, B
    <2>2. ASSUME ~crossed, NEW c \in Boots, vm[c].vmm # "off", vm[c].sound, ~vm[c].stray
          PROVE  disk'[vm[c].dev] = disk[vm[c].dev]
      <3>1. vm[c].dev # call.dir
        BY <1>v, <1>10, <2>1, <2>2 DEF DriveInv, DevInv, Copies
      <3>. QED
        BY <1>v, <1>10, <2>2, <3>1 DEF Copies, OnlyDir
    <2>. QED
      BY <1>10, <2>2 DEF Copies, DeviceMatchesMemory
  <1>11. ASSUME Repoints PROVE DeviceMatchesMemory'
    <2>1. B \in Boots
      BY <1>11, CallOf DEF Repoints
    <2>2. ASSUME vm'[B].vmm # "off", vm'[B].sound, ~vm'[B].stray, ~crossed
          PROVE  disk[vm'[B].dev].ovl = vm'[B].belief
      <3>1. CASE vm'[B].dev = vm[B].dev /\ vm'[B].stray = vm[B].stray
        BY <1>11, <2>1, <2>2, <3>1 DEF Repoints, DeviceMatchesMemory
      <3>2. CASE vm'[B].dev = call.dir /\ vm'[B].stray = vm[B].stray
        <4>1. call.at = vm[B].belief /\ call.at # None
          BY <1>11, <2>2, <3>2 DEF Repoints, InstantInv, AtBelief, Capturing
        <4>2. disk[call.dir].ovl = call.at
          BY <1>11, <2>2, <4>1 DEF Repoints, InstantInv, OvlAt
        <4>. QED
          BY <1>11, <3>2, <4>1, <4>2 DEF Repoints
      <3>. QED
        BY <1>11, <2>2, <3>1, <3>2 DEF Repoints
    <2>. QED
      BY <1>11, <2>1, <2>2 DEF Repoints, Others, promises, DeviceMatchesMemory
  <1>12. ASSUME Captures PROVE DeviceMatchesMemory'
    <2>1. B \in Boots /\ (vm[B].stray => vm'[B].stray)
      BY <1>12, CallOf DEF Captures
    <2>2. \A d \in Dirs : disk'[d].ovl = disk[d].ovl
      BY <1>12 DEF Captures, OnlyDir
    <2>. QED
      BY <1>v, <1>12, <2>1, <2>2 DEF Captures, Others, DeviceMatchesMemory
  <1>13. ASSUME Adopts PROVE DeviceMatchesMemory'
    <2>1. B \in Boots /\ call.b = B /\ Held(B)
      BY <1>13, CallOf DEF Adopts, B
    <2>2. vm[B].eph => vm[B].home = B
      BY <2>1 DEF BootInv
    <2>3. ASSUME NEW c \in Boots, vm[c].vmm # "off", vm[c].sound, ~vm[c].stray
          PROVE  disk'[vm[c].dev] = disk[vm[c].dev]
      <3>1. CASE c = B
        <4>1. vm[c].dev = call.dir
          BY <1>13, <2>1, <2>3, <3>1 DEF DevInv, Adopts
        <4>. QED
          BY <1>v, <1>13, <2>1, <2>3, <3>1, <4>1 DEF Adopts, OnlyDir
      <3>2. CASE c # B
        BY <1>t, <1>v, <1>13, <2>1, <2>2, <2>3, <3>2 DEF Adopts, OnlyDir
      <3>. QED
        BY <3>1, <3>2
    <2>. QED
      BY <1>13, <2>1, <2>3 DEF Adopts, Others, Drive, DeviceMatchesMemory
  <1>14. ASSUME TakesFiles PROVE DeviceMatchesMemory'
    BY <1>t, <1>d, <1>r, <1>e, <1>c, <1>v, <1>k, <1>14 DEF TakesFiles, promises, CallKeeps,
       DeviceMatchesMemory, B
  <1>15. ASSUME Resumes PROVE DeviceMatchesMemory'
    BY <1>t, <1>d, <1>r, <1>e, <1>c, <1>v, <1>k, <1>15 DEF Resumes, Others, Place, Drive,
       promises, CallKeeps, DeviceMatchesMemory, B, NoCall
  <1>16. ASSUME Tars PROVE DeviceMatchesMemory'
    BY <1>t, <1>d, <1>r, <1>e, <1>c, <1>v, <1>k, <1>16 DEF Tars, promises, DeviceMatchesMemory, B,
       NoCall
  <1>17. ASSUME Flushes PROVE DeviceMatchesMemory'
    BY <1>t, <1>d, <1>r, <1>e, <1>c, <1>v, <1>k, <1>17 DEF Flushes, Others, Place, Drive,
       promises, CallKeeps, DeviceMatchesMemory, B, NoCall
  <1>18. ASSUME Laps PROVE DeviceMatchesMemory'
    BY <1>t, <1>d, <1>r, <1>e, <1>c, <1>v, <1>k, <1>18 DEF Laps, Others, Place, Drive, promises,
       CallKeeps, DeviceMatchesMemory, B, NoCall, Capturing
  <1>19. ASSUME NEW b \in Boots, Dirties(b) PROVE DeviceMatchesMemory'
    BY <1>t, <1>k, <1>19 DEF Dirties, DeviceMatchesMemory, promises, Others, Place
  <1>20. ASSUME NEW b \in Boots, Stops(b) PROVE DeviceMatchesMemory'
    BY <1>t, <1>d, <1>r, <1>e, <1>c, <1>v, <1>k, <1>20 DEF Stops, Others, Place, Drive, promises,
       DeviceMatchesMemory, B
  <1>. QED
    BY <1>1, <1>2, <1>3, <1>4, <1>5, <1>6, <1>7, <1>8, <1>9, <1>10, <1>11, <1>12, <1>13, <1>14,
       <1>15, <1>16, <1>17, <1>18, <1>19, <1>20 DEF Step, CallStep

\* Nobody else writes the directory of a reported key.
LEMMA OneInstantStep ==
  ASSUME TypeOK, BootInv, CallInv, ColdInv, InstantInv, OneInstant, TypeOK', Step
  PROVE  OneInstant'
  <1>t. /\ vm \in [Boots -> VMRec] /\ call \in CallRec /\ "none" \notin Boots /\ Boots \cap Keys = {}
        /\ vm' \in [Boots -> VMRec] /\ call' \in CallRec
        /\ call.b \in Boots \union {"none"} /\ call.dir \in Keys \union {"none"}
    BY IsolationAssumption DEF TypeOK, CallRec
  <1>d. /\ disk \in [Dirs -> DiskRec] /\ disk' \in [Dirs -> DiskRec] /\ Keys \subseteq Dirs /\ Boots \subseteq Dirs
        /\ \A c \in Boots : Held(c) => vm[c].home \in Dirs /\ vm[c].home \in Keys \union {c}
    BY DEF TypeOK, BootInv, Own, Dirs
  <1>r. reported \subseteq Keys /\ (\A k \in reported : k \in Dirs) /\ reported' \subseteq Keys
    BY DEF TypeOK, Dirs
  <1>e. \A c \in Boots : Held(c) /\ vm[c].eph => vm[c].home \notin Keys
    BY <1>t DEF BootInv
  <1>c. /\ call.pc \in Capturing => call.b \in Boots /\ vm[call.b].pc \in {"up", "down", "captured", "gone"}
        /\ call.pc \in {"copy", "patch", "create", "adopt"} => call.dir \in Keys
    BY <1>t, CallOf DEF CallInv, B, Capturing
  <1>k. kind' = kind
    BY DEF Step
  <1>1. ASSUME NEW b \in Boots, Born(b) PROVE OneInstant'
    BY <1>t, <1>d, <1>r, <1>e, <1>c, <1>k, <1>1 DEF Born, Others, promises, OneInstant
  <1>2. ASSUME NEW b \in Boots, Prepares(b) PROVE OneInstant'
    BY <1>t, <1>d, <1>r, <1>e, <1>c, <1>k, <1>2 DEF Prepares, Steps, OnlyDir, promises, Others,
       Place, Drive, OneInstant, ColdInv, ColdBoots
  <1>3. ASSUME NEW b \in Boots, Aborts(b) PROVE OneInstant'
    BY <1>t, <1>d, <1>r, <1>e, <1>c, <1>k, <1>3 DEF Aborts, Others, promises, OneInstant
  <1>4. ASSUME NEW b \in Boots, Launches(b) PROVE OneInstant'
    BY <1>t, <1>d, <1>r, <1>e, <1>c, <1>k, <1>4 DEF Launches, Others, Place, OneInstant
  <1>5. ASSUME NEW b \in Boots, Ages(b) PROVE OneInstant'
    BY <1>t, <1>d, <1>r, <1>e, <1>c, <1>k, <1>5 DEF Ages, Others, Place, Drive, promises,
       OneInstant
  <1>6. ASSUME NEW b \in Boots, Ends(b) PROVE OneInstant'
    BY <1>t, <1>d, <1>r, <1>e, <1>c, <1>k, <1>6 DEF Ends, Others, Drive, OnlyDir, promises,
       OneInstant, Held, Active
  <1>7. ASSUME NEW b \in Boots, Writes(b) PROVE OneInstant'
    BY <1>t, <1>d, <1>r, <1>e, <1>c, <1>k, <1>7 DEF Writes, Others, Place, OnlyDir, OneInstant
  <1>8. ASSUME NEW b \in Boots, Asks(b) PROVE OneInstant'
    BY <1>t, <1>d, <1>r, <1>e, <1>c, <1>k, <1>8 DEF Asks, OneInstant
  <1>9. ASSUME Pauses PROVE OneInstant'
    BY <1>t, <1>d, <1>r, <1>e, <1>c, <1>k, <1>9 DEF Pauses, Others, Place, Drive, promises,
       CallKeeps, OneInstant, NoCall
  <1>10. ASSUME Copies PROVE OneInstant'
    BY <1>t, <1>d, <1>r, <1>e, <1>c, <1>k, <1>10 DEF Copies, OnlyDir, CallKeeps, OneInstant,
       ColdInv, ColdTarget
  <1>11. ASSUME Repoints PROVE OneInstant'
    BY <1>t, <1>d, <1>r, <1>e, <1>c, <1>k, <1>11 DEF Repoints, Others, Place, promises, CallKeeps,
       OneInstant
  <1>12. ASSUME Captures PROVE OneInstant'
    BY <1>t, <1>d, <1>r, <1>e, <1>c, <1>k, <1>12 DEF Captures, Others, Place, OnlyDir, CallKeeps,
       OneInstant, ColdInv, ColdTarget
  <1>13. ASSUME Adopts PROVE OneInstant'
    <2>1. B \in Boots /\ call.b = B /\ Held(B) /\ call.dir \in Keys /\ (vm[B].eph => vm[B].home \notin Keys)
      BY <1>c, <1>e, <1>13, CallOf DEF Adopts, B
    <2>2. \A k \in Keys : disk'[k] = disk[k]
      BY <1>d, <1>13, <2>1 DEF Adopts, OnlyDir
    <2>3. ASSUME vm[B].sound, ~vm[B].stray, ~crossed PROVE disk[call.dir].ovl = disk[call.dir].mem
      BY <1>13, <2>3 DEF Adopts, InstantInv, AtBelief, OvlAt, MemAt, Capturing
    <2>. QED
      BY <1>r, <1>13, <2>1, <2>2, <2>3 DEF Adopts, OneInstant
  <1>14. ASSUME TakesFiles PROVE OneInstant'
    BY <1>t, <1>d, <1>r, <1>e, <1>c, <1>k, <1>14 DEF TakesFiles, promises, CallKeeps, OneInstant
  <1>15. ASSUME Resumes PROVE OneInstant'
    BY <1>t, <1>d, <1>r, <1>e, <1>c, <1>k, <1>15 DEF Resumes, Others, Place, Drive, promises,
       CallKeeps, OneInstant, NoCall
  <1>16. ASSUME Tars PROVE OneInstant'
    BY <1>t, <1>d, <1>r, <1>e, <1>c, <1>k, <1>16 DEF Tars, promises, OneInstant, NoCall
  <1>17. ASSUME Flushes PROVE OneInstant'
    BY <1>t, <1>d, <1>r, <1>e, <1>c, <1>k, <1>17 DEF Flushes, Others, Place, Drive, promises,
       CallKeeps, OneInstant, NoCall
  <1>18. ASSUME Laps PROVE OneInstant'
    BY <1>t, <1>d, <1>r, <1>e, <1>c, <1>k, <1>18 DEF Laps, Others, Place, Drive, promises,
       CallKeeps, OneInstant, NoCall, Capturing
  <1>19. ASSUME NEW b \in Boots, Dirties(b) PROVE OneInstant'
    BY <1>t, <1>d, <1>r, <1>e, <1>c, <1>k, <1>19 DEF Dirties, Others, Place, OnlyDir, OneInstant,
       promises
  <1>20. ASSUME NEW b \in Boots, Stops(b) PROVE OneInstant'
    BY <1>t, <1>d, <1>r, <1>e, <1>c, <1>k, <1>20 DEF Stops, Others, Place, Drive, promises,
       OneInstant
  <1>. QED
    BY <1>1, <1>2, <1>3, <1>4, <1>5, <1>6, <1>7, <1>8, <1>9, <1>10, <1>11, <1>12, <1>13, <1>14,
       <1>15, <1>16, <1>17, <1>18, <1>19, <1>20 DEF Step, CallStep

\* The copy the tarball is made from is of the instant.
LEMMA FilesStep ==
  ASSUME TypeOK, CallInv, OvlAt, FilesAt, TypeOK', Step
  PROVE  FilesAt'
  <1>k. kind' = kind
    BY DEF Step
  <1>1. ASSUME NEW b \in Boots, Born(b) PROVE FilesAt'
    BY <1>k, <1>1 DEF Born, Others, promises, FilesAt
  <1>2. ASSUME NEW b \in Boots, Prepares(b) PROVE FilesAt'
    BY <1>k, <1>2 DEF Prepares, Steps, OnlyDir, promises, Others, Place, Drive, FilesAt
  <1>3. ASSUME NEW b \in Boots, Aborts(b) PROVE FilesAt'
    BY <1>k, <1>3 DEF Aborts, Others, promises, FilesAt
  <1>4. ASSUME NEW b \in Boots, Launches(b) PROVE FilesAt'
    BY <1>k, <1>4 DEF Launches, Others, Place, FilesAt
  <1>5. ASSUME NEW b \in Boots, Ages(b) PROVE FilesAt'
    BY <1>k, <1>5 DEF Ages, Others, Place, Drive, promises, FilesAt
  <1>6. ASSUME NEW b \in Boots, Ends(b) PROVE FilesAt'
    BY <1>k, <1>6 DEF Ends, Others, Drive, OnlyDir, promises, FilesAt
  <1>7. ASSUME NEW b \in Boots, Writes(b) PROVE FilesAt'
    BY <1>k, <1>7 DEF Writes, Others, Place, OnlyDir, FilesAt
  <1>8. ASSUME NEW b \in Boots, Asks(b) PROVE FilesAt'
    BY <1>k, <1>8 DEF Asks, FilesAt
  <1>9. ASSUME Pauses PROVE FilesAt'
    BY <1>k, <1>9 DEF Pauses, Others, Place, Drive, promises, CallKeeps, FilesAt,
       CallInv, Capturing, NoCall
  <1>10. ASSUME Copies PROVE FilesAt'
    BY <1>k, <1>10 DEF Copies, OnlyDir, CallKeeps, FilesAt
  <1>11. ASSUME Repoints PROVE FilesAt'
    BY <1>k, <1>11 DEF Repoints, Others, Place, promises, CallKeeps, FilesAt
  <1>12. ASSUME Captures PROVE FilesAt'
    BY <1>k, <1>12 DEF Captures, Others, Place, OnlyDir, CallKeeps, FilesAt
  <1>13. ASSUME Adopts PROVE FilesAt'
    BY <1>k, <1>13 DEF Adopts, Others, Drive, OnlyDir, CallKeeps, FilesAt
  <1>14. ASSUME TakesFiles PROVE FilesAt'
    BY <1>k, <1>14 DEF TakesFiles, promises, CallKeeps, FilesAt, OvlAt
  <1>15. ASSUME Resumes PROVE FilesAt'
    BY <1>k, <1>15 DEF Resumes, Others, Place, Drive, promises, CallKeeps, FilesAt,
       NoCall
  <1>16. ASSUME Tars PROVE FilesAt'
    BY <1>k, <1>16 DEF Tars, promises, FilesAt, NoCall
  <1>17. ASSUME Flushes PROVE FilesAt'
    BY <1>k, <1>17 DEF Flushes, Others, Place, Drive, promises, CallKeeps, FilesAt,
       NoCall
  <1>18. ASSUME Laps PROVE FilesAt'
    BY <1>k, <1>18 DEF Laps, Others, Place, Drive, promises, CallKeeps, FilesAt, NoCall,
       Capturing
  <1>19. ASSUME NEW b \in Boots, Dirties(b) PROVE FilesAt'
    BY <1>k, <1>19 DEF Dirties, Others, Place, FilesAt, promises
  <1>20. ASSUME NEW b \in Boots, Stops(b) PROVE FilesAt'
    BY <1>k, <1>20 DEF Stops, Others, Place, Drive, promises, FilesAt
  <1>. QED
    BY <1>1, <1>2, <1>3, <1>4, <1>5, <1>6, <1>7, <1>8, <1>9, <1>10, <1>11, <1>12, <1>13, <1>14,
       <1>15, <1>16, <1>17, <1>18, <1>19, <1>20 DEF Step, CallStep

\* What the guest wrote before its flush is on the drive when it is paused.
LEMMA FlushStep ==
  ASSUME TypeOK, CallInv, FlushInv, TypeOK', Step
  PROVE  FlushInv'
  <1>t. /\ vm \in [Boots -> VMRec] /\ vm' \in [Boots -> VMRec] /\ "none" \notin Boots
        /\ call.b \in Boots \union {"none"}
    BY IsolationAssumption DEF TypeOK, CallRec
  <1>1. ASSUME NEW b \in Boots, Born(b) PROVE FlushInv'
    BY <1>t, <1>1 DEF Born, Others, Drive, CallKeeps, promises, FlushInv, CallInv, B, NoCall,
       BootSteps, Capturing
  <1>2. ASSUME NEW b \in Boots, Prepares(b) PROVE FlushInv'
    BY <1>t, <1>2 DEF Prepares, Steps, Others, Drive, CallKeeps, promises, FlushInv, CallInv, B,
       NoCall, BootSteps, Capturing
  <1>3. ASSUME NEW b \in Boots, Aborts(b) PROVE FlushInv'
    BY <1>t, <1>3 DEF Aborts, Others, Drive, CallKeeps, promises, FlushInv, CallInv, B, NoCall,
       BootSteps, Capturing
  <1>4. ASSUME NEW b \in Boots, Launches(b) PROVE FlushInv'
    BY <1>t, <1>4 DEF Launches, Others, Drive, CallKeeps, promises, FlushInv, CallInv, B, NoCall,
       BootSteps, Capturing
  <1>5. ASSUME NEW b \in Boots, Ages(b) PROVE FlushInv'
    BY <1>t, <1>5 DEF Ages, Others, Drive, CallKeeps, promises, FlushInv, CallInv, B, NoCall,
       BootSteps, Capturing
  <1>6. ASSUME NEW b \in Boots, Ends(b) PROVE FlushInv'
    BY <1>t, <1>6 DEF Ends, Others, Drive, CallKeeps, promises, FlushInv, CallInv, B, NoCall,
       BootSteps, Capturing
  <1>7. ASSUME NEW b \in Boots, Writes(b) PROVE FlushInv'
    BY <1>t, <1>7 DEF Writes, Others, Drive, CallKeeps, promises, FlushInv, CallInv, B, NoCall,
       BootSteps, Capturing
  <1>8. ASSUME NEW b \in Boots, Asks(b) PROVE FlushInv'
    BY <1>t, <1>8 DEF Asks, Others, Drive, CallKeeps, promises, FlushInv, CallInv, B, NoCall,
       BootSteps, Capturing
  <1>9. ASSUME Pauses PROVE FlushInv'
    BY <1>t, <1>9 DEF Pauses, Others, Drive, CallKeeps, promises, FlushInv, CallInv, B, NoCall,
       BootSteps, Capturing
  <1>10. ASSUME Copies PROVE FlushInv'
    BY <1>t, <1>10 DEF Copies, Others, Drive, CallKeeps, promises, FlushInv, CallInv, B, NoCall,
       BootSteps, Capturing
  <1>11. ASSUME Repoints PROVE FlushInv'
    BY <1>t, <1>11 DEF Repoints, Others, Drive, CallKeeps, promises, FlushInv, CallInv, B, NoCall,
       BootSteps, Capturing
  <1>12. ASSUME Captures PROVE FlushInv'
    BY <1>t, <1>12 DEF Captures, Others, Drive, CallKeeps, promises, FlushInv, CallInv, B, NoCall,
       BootSteps, Capturing
  <1>13. ASSUME Adopts PROVE FlushInv'
    BY <1>t, <1>13 DEF Adopts, Others, Drive, CallKeeps, promises, FlushInv, CallInv, B, NoCall,
       BootSteps, Capturing
  <1>14. ASSUME TakesFiles PROVE FlushInv'
    BY <1>t, <1>14 DEF TakesFiles, Others, Drive, CallKeeps, promises, FlushInv, CallInv, B,
       NoCall, BootSteps, Capturing
  <1>15. ASSUME Resumes PROVE FlushInv'
    BY <1>t, <1>15 DEF Resumes, Others, Drive, CallKeeps, promises, FlushInv, CallInv, B, NoCall,
       BootSteps, Capturing
  <1>16. ASSUME Tars PROVE FlushInv'
    BY <1>t, <1>16 DEF Tars, Others, Drive, CallKeeps, promises, FlushInv, CallInv, B, NoCall,
       BootSteps, Capturing
  <1>17. ASSUME Flushes PROVE FlushInv'
    BY <1>t, <1>17 DEF Flushes, Others, Drive, CallKeeps, promises, FlushInv, CallInv, B, NoCall,
       BootSteps, Capturing
  <1>18. ASSUME Laps PROVE FlushInv'
    BY <1>t, <1>18 DEF Laps, Others, Drive, CallKeeps, promises, FlushInv, CallInv, B, NoCall,
       BootSteps, Capturing
  <1>19. ASSUME NEW b \in Boots, Dirties(b) PROVE FlushInv'
    BY <1>t, <1>19 DEF Dirties, Others, Drive, CallKeeps, promises, FlushInv, CallInv, B, NoCall,
       BootSteps, Capturing
  <1>20. ASSUME NEW b \in Boots, Stops(b) PROVE FlushInv'
    BY <1>t, <1>20 DEF Stops, Others, Drive, CallKeeps, promises, FlushInv, CallInv, B, NoCall,
       BootSteps, Capturing
  <1>. QED
    BY <1>1, <1>2, <1>3, <1>4, <1>5, <1>6, <1>7, <1>8, <1>9, <1>10, <1>11, <1>12, <1>13, <1>14,
       <1>15, <1>16, <1>17, <1>18, <1>19, <1>20 DEF Step, CallStep

\* A guest that runs, and a snapshot of one, has a memory.
LEMMA PageStep ==
  ASSUME TypeOK, BootInv, CallInv, BuiltInv, PageInv, TypeOK', Step
  PROVE  PageInv'
  <1>t. /\ vm \in [Boots -> VMRec] /\ vm' \in [Boots -> VMRec] /\ disk \in [Dirs -> DiskRec]
        /\ disk' \in [Dirs -> DiskRec] /\ Empty.snap = "none"
        /\ \A b \in Boots : Held(b) => vm[b].home \in Dirs
    BY HomeOf DEF TypeOK, Empty
  <1>1. ASSUME NEW b \in Boots, Born(b) PROVE PageInv'
    BY <1>t, <1>1 DEF Born, Others, Drive, OnlyDir, promises, PageInv, Held, Active, BootSteps
  <1>2. ASSUME NEW b \in Boots, Prepares(b) PROVE PageInv'
    BY <1>t, <1>2 DEF Prepares, Steps, Others, Drive, OnlyDir, promises, PageInv, Held, Active,
       BootSteps
  <1>3. ASSUME NEW b \in Boots, Aborts(b) PROVE PageInv'
    BY <1>t, <1>3 DEF Aborts, Others, Drive, OnlyDir, promises, PageInv, Held, Active, BootSteps
  <1>4. ASSUME NEW b \in Boots, Launches(b) PROVE PageInv'
    BY <1>t, <1>4 DEF Launches, Others, Drive, OnlyDir, promises, PageInv, Held, Active,
       BootSteps, BuiltInv, BuiltAt, Loadable, SnapshotReady
  <1>5. ASSUME NEW b \in Boots, Ages(b) PROVE PageInv'
    BY <1>t, <1>5 DEF Ages, Others, Drive, OnlyDir, promises, PageInv, Held, Active, BootSteps
  <1>6. ASSUME NEW b \in Boots, Ends(b) PROVE PageInv'
    BY <1>t, <1>6 DEF Ends, Others, Drive, OnlyDir, promises, PageInv, Held, Active, BootSteps
  <1>7. ASSUME NEW b \in Boots, Writes(b) PROVE PageInv'
    BY <1>t, <1>7 DEF Writes, Others, Drive, OnlyDir, promises, PageInv, Held, Active, BootSteps,
       BootInv, Own, Dirs
  <1>8. ASSUME NEW b \in Boots, Asks(b) PROVE PageInv'
    BY <1>t, <1>8 DEF Asks, Others, Drive, OnlyDir, promises, PageInv, Held, Active, BootSteps
  <1>9. ASSUME Pauses PROVE PageInv'
    BY <1>t, CallOf, <1>9 DEF Pauses, Others, Drive, OnlyDir, promises, PageInv, Held, Active,
       BootSteps
  <1>10. ASSUME Copies PROVE PageInv'
    BY <1>t, CallOf, <1>10 DEF Copies, Others, Drive, OnlyDir, promises, PageInv, Held, Active,
       BootSteps, CallInv, Dirs
  <1>11. ASSUME Repoints PROVE PageInv'
    BY <1>t, CallOf, <1>11 DEF Repoints, Others, Drive, OnlyDir, promises, PageInv, Held, Active,
       BootSteps
  <1>12. ASSUME Captures PROVE PageInv'
    BY <1>t, CallOf, <1>12 DEF Captures, Others, Drive, OnlyDir, promises, PageInv, Held, Active,
       BootSteps, CallInv, Dirs
  <1>13. ASSUME Adopts PROVE PageInv'
    BY <1>t, CallOf, <1>13 DEF Adopts, Others, Drive, OnlyDir, promises, PageInv, Held, Active,
       BootSteps
  <1>14. ASSUME TakesFiles PROVE PageInv'
    BY <1>t, <1>14 DEF TakesFiles, Others, Drive, OnlyDir, promises, PageInv, Held, Active,
       BootSteps
  <1>15. ASSUME Resumes PROVE PageInv'
    BY <1>t, CallOf, <1>15 DEF Resumes, Others, Drive, OnlyDir, promises, PageInv, Held, Active,
       BootSteps
  <1>16. ASSUME Tars PROVE PageInv'
    BY <1>t, <1>16 DEF Tars, Others, Drive, OnlyDir, promises, PageInv, Held, Active, BootSteps
  <1>17. ASSUME Flushes PROVE PageInv'
    BY <1>t, <1>17 DEF Flushes, Others, Drive, OnlyDir, promises, PageInv, Held, Active, BootSteps
  <1>18. ASSUME Laps PROVE PageInv'
    BY <1>t, CallOf, <1>18 DEF Laps, Others, Drive, OnlyDir, promises, PageInv, Held, Active,
       BootSteps, Capturing
  <1>19. ASSUME NEW b \in Boots, Dirties(b) PROVE PageInv'
    BY <1>t, <1>19 DEF Dirties, Others, Drive, OnlyDir, promises, PageInv, Held, Active, BootSteps
  <1>20. ASSUME NEW b \in Boots, Stops(b) PROVE PageInv'
    BY <1>t, <1>20 DEF Stops, Others, Drive, OnlyDir, promises, PageInv, Held, Active, BootSteps
  <1>. QED
    BY <1>1, <1>2, <1>3, <1>4, <1>5, <1>6, <1>7, <1>8, <1>9, <1>10, <1>11, <1>12, <1>13, <1>14,
       <1>15, <1>16, <1>17, <1>18, <1>19, <1>20 DEF Step, CallStep

\* A step that installs nothing, and of which the set-up does not depend.
LEMMA NetCalm ==
  ASSUME TypeOK, NetInv, kind' = kind, net' = net, NEW b \in Boots, Others(b), vm'[b].oct = vm[b].oct,
         \/ vm'[b].pc = vm[b].pc
         \/ vm[b].pc \in Early /\ vm'[b].pc \in Early
         \/ vm[b].pc \in Full /\ vm'[b].pc \in Full
         \/ vm[b].pc = "sink" /\ vm'[b].pc = "wired"
         \/ vm[b].pc = "restored" /\ vm'[b].pc = "wired" /\ vm[b].oct \in Pooled
         \/ vm[b].pc \in BootSteps /\ vm'[b].pc = "aborted"
  PROVE  NetInv'
  <1>1. \A l : Done(l)' = Done(l)
    BY DEF Done, AllParts
  <1>2. /\ Active(b)' => Active(b)
        /\ \A c \in Boots : c # b => Active(c)' = Active(c)
    BY DEF Others, Active, Early, Full, BootSteps
  <1>3. \A c \in Boots : vm'[c].oct = vm[c].oct
    BY DEF Others
  <1>4. ASSUME NEW c \in Boots PROVE NetAt(c)'
    <2>1. \A e \in Boots : c # e /\ Active(c)' /\ Active(e)' => vm'[c].oct # vm'[e].oct
      BY <1>2, <1>3 DEF NetInv, NetAt
    <2>2. CASE c # b
      BY <1>1, <2>1, <2>2 DEF NetInv, NetAt, Others
    <2>3. CASE c = b
      <3>1. vm[b].pc \in Full \union {"sink"} => Done(vm[b].pc) = AllParts
        BY DEF Done, Full
      <3>2. vm'[b].pc \in Full => Done(vm'[b].pc) = AllParts
        BY DEF Done, Full
      <3>. QED
        BY <1>1, <2>1, <2>3, <3>1, <3>2 DEF NetInv, NetAt, Early, Setup, Full, BootSteps
    <2>. QED
      BY <2>2, <2>3
  <1>5. NetKept'
    <2>1. \A c \in Boots : vm[c].pc \notin {"idle", "gone"} => vm'[c].pc \notin {"idle", "gone"}
      BY DEF Others, Early, Full, BootSteps
    <2>. QED
      BY <1>3, <2>1 DEF NetInv, NetKept, Leftover
  <1>. QED
    BY <1>4, <1>5 DEF NetInv

\* A step that changes what is installed for the slot of its boot.
LEMMA NetSets ==
  ASSUME TypeOK, BootInv, NetInv, kind' = kind, NEW b \in Boots, Active(b),
         Others(b), vm'[b].oct = vm[b].oct, vm'[b].pc \in Setup \union {"wired", "aborted"},
         vm[b].oct \notin Pooled, \A o \in Octets : o # vm[b].oct => net'[o] = net[o],
         vm'[b].pc # "aborted" => Done(vm'[b].pc) \subseteq net'[vm[b].oct],
         kind = "microvm" /\ vm'[b].pc \in {"sink", "wired"} => net'[vm[b].oct] \cap {"drop6", "no6"} # {}
  PROVE  NetInv'
  <1>1. \A l : Done(l)' = Done(l)
    BY DEF Done, AllParts
  <1>2. vm[b].oct \in Octets
    BY DEF BootInv
  <1>3. /\ \A c \in Boots : c # b => Active(c)' = Active(c)
        /\ \A c \in Boots : vm'[c].oct = vm[c].oct
    BY DEF Others, Active
  <1>4. ASSUME NEW c \in Boots, c # b PROVE NetAt(c)'
    <2>1. \A e \in Boots : c # e /\ Active(c)' /\ Active(e)' => vm'[c].oct # vm'[e].oct
      BY <1>3, <1>4 DEF NetInv, NetAt
    <2>2. ASSUME vm[c].pc \in Setup \union Full
          PROVE  vm[c].oct \in Octets /\ vm[c].oct # vm[b].oct
      BY <1>4, <2>2 DEF BootInv, NetInv, NetAt, Active, Setup, Full
    <2>. QED
      BY <1>1, <1>4, <2>1, <2>2 DEF NetInv, NetAt, Others
  <1>5. NetAt(b)'
    <2>1. \A e \in Boots : b # e /\ Active(e)' => vm'[b].oct # vm'[e].oct
      BY <1>3 DEF NetInv, NetAt
    <2>. QED
      BY <1>1, <2>1 DEF NetAt, Setup, Full
  <1>6. NetKept'
    <2>1. \A c \in Boots : vm[c].pc \notin {"idle", "gone"} => vm'[c].pc \notin {"idle", "gone"}
      BY DEF Others, Setup
    <2>2. vm'[b].pc \notin {"idle", "gone"}
      BY DEF Setup
    <2>3. Leftover' = Leftover
      BY DEF Leftover
    <2>. QED
      BY <1>3, <2>1, <2>2, <2>3 DEF NetInv, NetKept
  <1>. QED
    BY <1>4, <1>5, <1>6 DEF NetInv

\* What the set-up adds for its boot, and that it is still missing before.
LEMMA AddsEffect ==
  ASSUME TypeOK, BootInv, NetInv, NEW b \in Boots, vm[b].pc \in Setup, NEW parts, Adds(b, parts)
  PROVE  /\ Active(b) /\ vm[b].oct \in Octets \ Pooled
         /\ Done(vm[b].pc) \union parts \subseteq net'[vm[b].oct]
         /\ \A o \in Octets : o # vm[b].oct => net'[o] = net[o]
  <1>1. Active(b) /\ vm[b].oct \in Octets \ Pooled /\ Done(vm[b].pc) \subseteq net[vm[b].oct]
    BY DEF Setup, Active, BootInv, NetInv, NetAt
  <1>. QED
    BY <1>1 DEF Adds, TypeOK

\* A step of the set-up that installs its part.
LEMMA NetInstalls ==
  ASSUME TypeOK, BootInv, NetInv, kind' = kind, NEW b \in Boots,
         NEW part \in Setup, NEW next \in Setup \ {"sink"}, Installs(b, part, next),
         Done(next) \subseteq Done(part) \union {part}
  PROVE  NetInv'
  <1>1. CASE Abort(b) /\ UNCHANGED net
    <2>1. Others(b) /\ vm'[b].pc = "aborted" /\ vm'[b].oct = vm[b].oct
      BY <1>1, AbortEffect
    <2>2. vm[b].pc \in BootSteps
      BY DEF Installs, Setup, BootSteps
    <2>. QED
      BY <1>1, <2>1, <2>2, NetCalm
  <1>2. CASE Goto(b, next) /\ Adds(b, {part})
    <2>1. Others(b) /\ vm'[b].pc = next /\ vm'[b].oct = vm[b].oct
      BY <1>2, GotoEffect DEF Steps, Place
    <2>2. vm[b].pc = part
      BY DEF Installs
    <2>3. /\ Active(b) /\ vm[b].oct \in Octets \ Pooled
          /\ Done(next) \subseteq net'[vm[b].oct]
          /\ \A o \in Octets : o # vm[b].oct => net'[o] = net[o]
      BY <1>2, <2>2, AddsEffect
    <2>4. vm'[b].pc \in Setup \ {"sink"} /\ vm'[b].pc \notin {"sink", "wired", "aborted"}
      BY <2>1 DEF Setup
    <2>. QED
      BY <2>1, <2>3, <2>4, NetSets
  <1>. QED
    BY <1>1, <1>2 DEF Installs

LEMMA NetworkNet ==
  ASSUME TypeOK, BootInv, NetInv, kind' = kind, NEW b \in Boots, Network(b)
  PROVE  NetInv'
  <1>1. ASSUME WirePackedLinks(b) PROVE NetInv'
    <2>1. PICK l \in {"tap", "dnat"} : Installs(b, "links", l) /\ (l = "tap" <=> kind = "microvm")
      BY <1>1 DEF WirePackedLinks
    <2>2. Done(l) \subseteq Done("links") \union {"links"}
      BY <2>1 DEF Done
    <2>. QED
      BY <2>1, <2>2, NetInstalls DEF Setup
  <1>2. ASSUME AddTap(b) PROVE NetInv'
    <2>1. Done("snat") \subseteq Done("tap") \union {"tap"}
      BY DEF Done
    <2>. QED
      BY <1>2, <2>1, NetInstalls DEF AddTap, Setup
  <1>3. ASSUME LoadNetnsRules(b) PROVE NetInv'
    <2>1. kind = "microvm"
      BY <1>3 DEF LoadNetnsRules, Installs, BootInv
    <2>2. Done("dnat") \subseteq Done("snat") \union {"snat"}
      BY <2>1 DEF Done
    <2>. QED
      BY <1>3, <2>2, NetInstalls DEF LoadNetnsRules, Setup
  <1>4. ASSUME LoadPodRules(b) PROVE NetInv'
    <2>1. Done("drop6") \subseteq Done("dnat") \union {"dnat"}
      BY <1>4 DEF LoadPodRules, Done
    <2>. QED
      BY <1>4, <2>1, NetInstalls DEF LoadPodRules, Setup
  <1>5. ASSUME LoadContainerPodRules(b) PROVE NetInv'
    <2>0. vm[b].pc = "dnat" /\ vm[b].pc \in Setup /\ kind = "container"
      BY <1>5 DEF LoadContainerPodRules, Setup
    <2>1. CASE Goto(b, "wired") /\ Adds(b, {"dnat", "fwd"})
      <3>1. Others(b) /\ vm'[b].pc = "wired" /\ vm'[b].oct = vm[b].oct
        BY <2>1, GotoEffect DEF Steps, Place
      <3>2. /\ Active(b) /\ vm[b].oct \in Octets \ Pooled
            /\ Done("dnat") \union {"dnat", "fwd"} \subseteq net'[vm[b].oct]
            /\ \A o \in Octets : o # vm[b].oct => net'[o] = net[o]
        BY <2>0, <2>1, AddsEffect
      <3>3. Done("wired") \subseteq Done("dnat") \union {"dnat", "fwd"}
        BY <2>0 DEF Done, AllParts
      <3>. QED
        BY <2>0, <3>1, <3>2, <3>3, NetSets
    <2>2. ASSUME Abort(b), NEW parts \in {{}, {"dnat"}, {"dnat", "fwd"}}, Adds(b, parts) PROVE NetInv'
      <3>1. Others(b) /\ vm'[b].pc = "aborted" /\ vm'[b].oct = vm[b].oct
        BY <2>2, AbortEffect
      <3>2. /\ Active(b) /\ vm[b].oct \in Octets \ Pooled
            /\ \A o \in Octets : o # vm[b].oct => net'[o] = net[o]
        BY <2>0, <2>2, AddsEffect
      <3>. QED
        BY <3>1, <3>2, NetSets
    <2>. QED
      BY <1>5, <2>1, <2>2 DEF LoadContainerPodRules
  <1>6. ASSUME LoadNetnsRules6(b) PROVE NetInv'
    <2>0. vm[b].pc = "drop6" /\ vm[b].pc \in Setup /\ kind = "microvm"
      BY <1>6 DEF LoadNetnsRules6, BootInv, Setup
    <2>1. ASSUME NEW part \in {"drop6", "no6"}, Goto(b, "sink"), Adds(b, {part}) PROVE NetInv'
      <3>1. Others(b) /\ vm'[b].pc = "sink" /\ vm'[b].oct = vm[b].oct
        BY <2>1, GotoEffect DEF Steps, Place
      <3>2. /\ Active(b) /\ vm[b].oct \in Octets \ Pooled
            /\ Done("drop6") \union {part} \subseteq net'[vm[b].oct]
            /\ \A o \in Octets : o # vm[b].oct => net'[o] = net[o]
        BY <2>0, <2>1, AddsEffect
      <3>3. Done("sink") \subseteq Done("drop6")
        BY <2>0 DEF Done, AllParts
      <3>4. net'[vm[b].oct] \cap {"drop6", "no6"} # {}
        BY <3>2
      <3>. QED
        BY <3>1, <3>2, <3>3, <3>4, NetSets DEF Setup
    <2>2. CASE Abort(b) /\ UNCHANGED net
      BY <2>0, <2>2, AbortEffect, NetCalm DEF BootSteps
    <2>. QED
      BY <1>6, <2>1, <2>2 DEF LoadNetnsRules6
  <1>7. ASSUME ListenUDPInNetns(b) PROVE NetInv'
    <2>1. CASE Goto(b, "wired")
      <3>1. Others(b) /\ vm'[b].oct = vm[b].oct /\ vm'[b].pc = "wired"
        BY <2>1, GotoEffect DEF Steps, Place
      <3>. QED
        BY <1>7, <3>1, NetCalm DEF ListenUDPInNetns, Full
    <2>2. CASE Abort(b)
      BY <1>7, <2>2, AbortEffect, NetCalm DEF ListenUDPInNetns, BootSteps
    <2>. QED
      BY <1>7, <2>1, <2>2 DEF ListenUDPInNetns
  <1>8. ASSUME RedirectEgress(b) PROVE NetInv'
    <2>1. CASE vm[b].oct \in Pooled
      <3>1. Others(b) /\ vm'[b].oct = vm[b].oct /\ vm'[b].pc = "wired" /\ net' = net
        BY <1>8, <2>1, GotoEffect DEF RedirectEgress, Steps, Place
      <3>. QED
        BY <1>8, <2>1, <3>1, NetCalm DEF RedirectEgress
    <2>2. CASE vm[b].oct \notin Pooled
      <3>1. /\ Others(b) /\ vm'[b].oct = vm[b].oct /\ vm'[b].pc = "links" /\ net' = Cleared(vm[b].oct)
        BY <1>8, <2>2, GotoEffect DEF RedirectEgress, Steps, Place
      <3>2. vm[b].pc = "restored" /\ Active(b) /\ vm[b].oct \in Octets
        BY <1>8 DEF RedirectEgress, Active, BootInv
      <3>3. \A o \in Octets : o # vm[b].oct => net'[o] = net[o]
        BY <3>1, <3>2 DEF TypeOK, Cleared
      <3>4. Done("links") = {}
        BY DEF Done
      <3>. QED
        BY <2>2, <3>1, <3>2, <3>3, <3>4, NetSets DEF Setup
    <2>. QED
      BY <2>1, <2>2
  <1>. QED
    BY <1>1, <1>2, <1>3, <1>4, <1>5, <1>6, <1>7, <1>8 DEF Network

\* The network of each slot, over all steps.
LEMMA NetStep ==
  ASSUME TypeOK, BootInv, CallInv, PageInv, NetInv, TypeOK', Next
  PROVE  NetInv'
  <1>k. kind' = kind
    BY NextIsStep DEF Step
  <1>1. ASSUME NEW b \in Boots, Born(b) PROVE NetInv'
    <2>1. ~Active(b) /\ Others(b) /\ vm'[b].pc = "new" /\ net' = net
      BY <1>1 DEF Born, Active
    <2>2. (\A l : Done(l)' = Done(l)) /\ \A c \in Boots : c # b => Active(c)' = Active(c)
      BY <1>k, <2>1 DEF Done, AllParts, Others, Active
    <2>3. ASSUME NEW c \in Boots PROVE NetAt(c)'
      <3>1. \A e \in Boots : c # e /\ Active(c)' /\ Active(e)' => vm'[c].oct # vm'[e].oct
        BY <1>1, <2>1, <2>2 DEF Born, NetInv, NetAt, Others
      <3>. QED
        BY <1>k, <2>1, <2>2, <3>1 DEF NetInv, NetAt, Others, Setup, Full, Leftover
    <2>4. NetKept'
      BY <1>1, <1>k, <2>1 DEF Born, NetInv, NetKept, Others, Leftover
    <2>. QED
      BY <2>3, <2>4 DEF NetInv
  <1>2. ASSUME NEW b \in Boots, MountRoot(b) \/ MountOverlay(b) \/ MaybeRestore(b) PROVE NetInv'
    <2>1. net' = net /\ vm[b].pc \in {"new", "rooted"}
          /\ (Goto(b, "rooted") \/ Goto(b, "restored") \/ Abort(b))
      BY <1>2 DEF MountRoot, MountOverlay, MaybeRestore
    <2>2. /\ Others(b) /\ vm'[b].oct = vm[b].oct
          /\ vm'[b].pc \in {"rooted", "restored", "aborted"}
      BY <2>1, GotoEffect, AbortEffect DEF Steps, Place
    <2>. QED
      BY <1>k, <2>1, <2>2, NetCalm DEF Early, BootSteps
  <1>3. ASSUME NEW b \in Boots, LaunchAgent(b) \/ ResumeAgent(b) PROVE NetInv'
    <2>1. net' = net /\ vm[b].pc = "wired"
          /\ (Goto(b, "spawned") \/ Goto(b, "loading") \/ Abort(b))
      BY <1>3 DEF LaunchAgent, ResumeAgent
    <2>2. /\ Others(b) /\ vm'[b].oct = vm[b].oct
          /\ vm'[b].pc \in {"spawned", "loading", "aborted"}
      BY <2>1, GotoEffect, AbortEffect DEF Steps, Place
    <2>. QED
      BY <1>k, <2>1, <2>2, NetCalm DEF Full, BootSteps
  <1>4. ASSUME NEW b \in Boots, Aborts(b), net' = net PROVE NetInv'
    BY <1>k, <1>4, NetCalm DEF Aborts
  <1>5. ASSUME NEW b \in Boots, NSExec(b) \/ LaunchContainer(b) \/ ResumeReady(b), Launches(b)
        PROVE  NetInv'
    <2>1. vm[b].pc \in Full
      BY <1>5 DEF NSExec, LaunchContainer, ResumeReady, Full
    <2>. QED
      BY <1>k, <1>5, <2>1, NetCalm DEF Launches, Place, Full
  <1>6. ASSUME NEW b \in Boots, Ages(b) PROVE NetInv'
    BY <1>k, <1>6, NetCalm DEF Ages, Place, Full
  <1>7. ASSUME NEW b \in Boots, UnmountRoot(b) PROVE NetInv'
    <2>1. /\ Others(b) /\ vm'[b].pc = "gone" /\ vm[b].pc = "captured" /\ Active(b)
          /\ net' = IF vm[b].oct \in Pooled THEN net ELSE Cleared(vm[b].oct)
      BY <1>7, EndsKind DEF Ends, UnmountRoot, Active
    <2>2. /\ vm[b].oct \in Octets
          /\ \A o \in Octets : o # vm[b].oct => net'[o] = net[o]
          /\ vm[b].oct \notin Pooled => net'[vm[b].oct] \ Leftover = {}
      BY <2>1 DEF BootInv, TypeOK, Cleared
    <2>3. /\ \A l : Done(l)' = Done(l)
          /\ ~Active(b)' /\ \A c \in Boots : c # b => Active(c)' = Active(c)
      BY <1>k, <2>1 DEF Done, AllParts, Others, Active
    <2>4. ASSUME NEW c \in Boots, c # b PROVE NetAt(c)'
      <3>1. \A e \in Boots : c # e /\ Active(c)' /\ Active(e)' => vm'[c].oct # vm'[e].oct
        BY <2>1, <2>3, <2>4 DEF NetInv, NetAt, Others
      <3>2. ASSUME vm[c].pc \in Setup \union Full
            PROVE  vm[c].oct \in Octets /\ vm[c].oct # vm[b].oct
        BY <2>1, <2>4, <3>2 DEF BootInv, NetInv, NetAt, Active, Setup, Full
      <3>. QED
        BY <1>k, <2>1, <2>2, <2>3, <2>4, <3>1, <3>2 DEF NetInv, NetAt, Others, Leftover
    <2>5. NetAt(b)'
      BY <2>1, <2>3 DEF NetAt, Setup, Full
    <2>6. NetKept'
      BY <1>k, <2>1, <2>2 DEF NetInv, NetKept, Others, Leftover
    <2>. QED
      BY <2>4, <2>5, <2>6 DEF NetInv
  <1>8. ASSUME NEW b \in Boots, Writes(b) \/ Dirties(b) \/ Stops(b) PROVE NetInv'
    BY <1>k, <1>8, NetCalm DEF Writes, Dirties, Stops, Place, Full
  <1>9. ASSUME net' = net, vm' = vm PROVE NetInv'
    BY <1>k, <1>9 DEF NetInv, NetAt, NetKept, Done, AllParts, Active, Leftover
  <1>10. ASSUME CallStep PROVE NetInv'
    <2>1. net' = net
      BY <1>10 DEF CallStep, Pauses, Copies, Repoints, Captures, Adopts, TakesFiles, Resumes, Tars,
         Flushes, Laps
    <2>2. B \in Boots
      BY <1>10, CallOf
         DEF CallStep, Pauses, Copies, Repoints, Captures, Adopts, TakesFiles, Resumes, Tars, Flushes,
             Laps, Capturing
    <2>3. vm' = vm \/ (Others(B) /\ vm'[B].oct = vm[B].oct /\ vm'[B].pc = vm[B].pc)
      BY <1>10, <2>2 DEF CallStep, Pauses, Copies, Repoints, Captures, Adopts, TakesFiles, Resumes,
         Tars, Flushes, Laps, Place
    <2>. QED
      BY <1>k, <1>9, <2>1, <2>2, <2>3, NetCalm
  <1>11. ASSUME NEW b \in Boots, Boot(b) PROVE NetInv'
    <2>1. ASSUME NSExec(b) \/ LaunchContainer(b) PROVE NetInv'
      BY <2>1, <1>4, <1>5, <1>6, LaunchKind DEF NSExec, LaunchContainer
    <2>2. ASSUME ResumeReady(b) PROVE NetInv'
      BY <2>2, <1>4, <1>5, ResumeKind DEF ResumeReady
    <2>3. ASSUME BecomesReady(b) PROVE NetInv'
      BY <2>3, <1>6, <1>8, AgesKind
    <2>. QED
      BY <1>k, <1>2, <1>3, <1>11, <2>1, <2>2, <2>3, NetworkNet DEF Boot
  <1>12. ASSUME NEW b \in Boots, StopAgent(b) \/ Teardown(b) \/ GuestWrite(b) \/ WriteBack(b)
         PROVE  NetInv'
    BY <1>6, <1>7, <1>8, <1>12, AgesKind, WritesKind DEF Teardown
  <1>13. ASSUME NEW b \in Boots,
                \/ \E o \in Octets, d \in Dirs : NewMicroVM(b, o, d)
                \/ \E o \in Octets : NewContainer(b, o)
         PROVE  NetInv'
    BY <1>1, <1>13, NewKind
  <1>14. ASSUME NEW b \in Boots, NEW d \in Keys \union {"none"}, NEW f \in BOOLEAN, Snapshot(b, d, f)
         PROVE  NetInv'
    BY <1>9, <1>14 DEF Snapshot
  <1>15. ASSUME SnapshotLive PROVE NetInv'
    BY <1>10, <1>15, FlushesKind, LapsKind, PausesKind, CopiesKind, RepointsKind, CapturesKind, AdoptsKind, FilesKind,
       ResumesKind, TarsKind DEF SnapshotLive, CallStep
  <1>. QED
    BY <1>11, <1>12, <1>13, <1>14, <1>15 DEF Next

-----------------------------------------------------------------------------
LEMMA InitInv == Init => IInv
  <1> SUFFICES ASSUME Init PROVE IInv
    OBVIOUS
  <1>1. NoVM \in VMRec /\ Empty \in DiskRec
    BY DEF NoVM, VMRec, VMPcs, Empty, DiskRec, Content, None
  <1>2. TypeOK
    <2>1. vm \in [Boots -> VMRec] /\ disk \in [Dirs -> DiskRec] /\ call \in CallRec
      BY <1>1, NoCallType DEF Init
    <2>2. net \in [Octets -> SUBSET Parts] /\ tar \in Content /\ crossed \in BOOLEAN
      BY DEF Init, Content
    <2>. QED
      BY <2>1, <2>2 DEF Init, TypeOK
  <1>3. /\ \A b \in Boots : /\ vm[b] = NoVM /\ vm[b].pc = "idle" /\ vm[b].vmm = "off" /\ ~Active(b)
                           /\ vm[b].dev = "none" /\ ~vm[b].have
        /\ call.pc = "idle" /\ call.b = "none" /\ call.at = None /\ call.img = None /\ reported = {}
    <2>1. \A b \in Boots : vm[b] = NoVM
      BY DEF Init
    <2>2. NoVM.pc = "idle" /\ NoVM.vmm = "off" /\ NoVM.dev = "none" /\ ~NoVM.have
      BY DEF NoVM
    <2>3. call.pc = "idle" /\ call.b = "none" /\ call.at = None /\ call.img = None /\ reported = {}
      BY DEF Init, NoCall
    <2>. QED
      BY <2>1, <2>2, <2>3 DEF Active
  <1>4. BootInv
    BY <1>3, IsolationAssumption DEF BootInv, Held, BootSteps
  <1>5. CallInv
    BY <1>3 DEF CallInv, Init, Capturing
  <1>6. HomeInv /\ DriveInv /\ DevInv
    BY <1>3 DEF HomeInv, DriveInv, DevInv
  <1>7. DiskInv
    BY <1>3, IsolationAssumption
       DEF DiskInv, BuiltInv, BuiltAt, UnnamedInv, MadeInv, SnapInv, Init, BootSteps, Dirs, Empty
  <1>8. ColdInv /\ InstantInv /\ OneInstant
    BY <1>3 DEF ColdInv, ColdBoots, ColdTarget, Kept, Fresh, InstantInv, AtBelief, OvlAt, MemAt,
       OneInstant, Capturing, BootSteps
  <1>9. NetInv
    BY <1>3 DEF NetInv, NetAt, NetKept, Init, Setup, Full
  <1>10. DeviceMatchesMemory /\ FilesAt /\ FlushInv
    BY <1>3 DEF DeviceMatchesMemory, FilesAt, FlushInv
  <1>11. PageInv
    BY <1>3 DEF PageInv, Init, Empty
  <1>. QED
    BY <1>2, <1>4, <1>5, <1>6, <1>7, <1>8, <1>9, <1>10, <1>11 DEF IInv

LEMMA StutterInv == IInv /\ UNCHANGED vars => IInv'
  <1> SUFFICES ASSUME IInv, UNCHANGED vars PROVE IInv'
    OBVIOUS
  <1> USE DEF IInv, vars, Active, Held, SnapshotReady, Done, AllParts
  <1>1. (TypeOK /\ BootInv /\ CallInv /\ HomeInv /\ DriveInv /\ DevInv)'
    BY DEF TypeOK, BootInv, CallInv, HomeInv, DriveInv, DevInv, Moving, B
  <1>2. (DiskInv /\ OneInstant)'
    BY DEF DiskInv, BuiltInv, BuiltAt, UnnamedInv, MadeInv, SnapInv, OneInstant
  <1>3. (ColdInv /\ InstantInv)'
    BY DEF ColdInv, ColdBoots, ColdTarget, Kept, Fresh, InstantInv, AtBelief, OvlAt, MemAt, Moving, B
  <1>4. NetInv'
    BY DEF NetInv, NetAt, NetKept, Leftover
  <1>5. (DeviceMatchesMemory /\ FilesAt /\ FlushInv /\ PageInv)'
    BY DEF DeviceMatchesMemory, FilesAt, FlushInv, PageInv, B
  <1>. QED
    BY <1>1, <1>2, <1>3, <1>4, <1>5

LEMMA NextInv == IInv /\ Next => IInv'
  <1> SUFFICES ASSUME IInv, Next PROVE IInv'
    OBVIOUS
  <1> USE DEF IInv, DiskInv, ColdInv
  <1>1. TypeOK' /\ Step
    BY NextIsStep
  <1>2. BootInv' /\ CallInv' /\ HomeInv'
    BY <1>1, BootStep, CallStepInv, HomeStep
  <1>3. DriveInv' /\ DevInv'
    BY <1>1, DriveStep, DevStep
  <1>4. BuiltInv' /\ UnnamedInv' /\ MadeInv' /\ SnapInv'
    BY <1>1, BuiltStep, UnnamedStep, MadeStep, SnapStep
  <1>5. ColdBoots' /\ ColdTarget' /\ Kept' /\ Fresh'
    BY <1>1, ColdBootsStep, ColdTargetStep, KeptStep, FreshStep
  <1>6. InstantInv'
    BY <1>1, AtStep, OvlStep, MemStep DEF InstantInv
  <1>7. DeviceMatchesMemory' /\ OneInstant'
    BY <1>1, DeviceStep, OneInstantStep
  <1>8. FilesAt' /\ FlushInv' /\ PageInv'
    BY <1>1, FilesStep, FlushStep, PageStep DEF InstantInv
  <1>9. NetInv'
    BY <1>1, NetStep
  <1>. QED
    BY <1>1, <1>2, <1>3, <1>4, <1>5, <1>6, <1>7, <1>8, <1>9

\* The inductive invariant holds of every boot, teardown and snapshot call of the backends.
THEOREM Invariance == Spec => []IInv
  BY InitInv, StutterInv, NextInv, PTL DEF Spec

\* microvm.go, container.go: the records of the backend objects, their directories, the slots and the
\* snapshot call keep their types.
THEOREM TypeCorrect == Spec => []TypeOK
  <1>1. IInv => TypeOK
    BY DEF IInv
  <1>. QED
    BY <1>1, Invariance, PTL

\* microvm.go:797 and :1240: for any number of boots, keys, failures and captures, a guest that was
\* booted cold, or resumed from a snapshot nobody wrote past, runs on the disk its memory knows (until a
\* relocation of its own failed half way, or a snapshot such a VM left was resumed).
THEOREM GuestOnItsDisk == Spec => []DeviceMatchesMemory
  <1>1. IInv => DeviceMatchesMemory
    BY DEF IInv
  <1>. QED
    BY <1>1, Invariance, PTL

\* microvm.go:307 and :393: a key whose snapshot was answered captured stays complete and names its own
\* drives whoever else boots, relocates or ends, and its memory and disk are of one instant until its
\* owner writes on.
THEOREM CapturesKept == Spec => []CapturedStaysResumable
  <1>1. IInv => CapturedStaysResumable
    BY DEF IInv, ColdInv, Kept, OneInstant, CapturedStaysResumable
  <1>. QED
    BY <1>1, Invariance, PTL

\* isolation.go:339: the files of one answer are what the captured memory knows to be on its disk, before
\* and after a relocation and beside any other boot, and all that memory holds when the guest wrote
\* nothing after its flush (until another request resumes the guest under the capture).
THEOREM OneAnswerOneInstant == Spec => []FilesOfTheInstant
  <1>1. IInv => FilesOfTheInstant
    BY DEF IInv, FilesAt, FlushInv, FilesOfTheInstant
  <1>. QED
    BY <1>1, Invariance, PTL

\* microvm.go:395, container.go:150: no workload runs before the set-up of its slot is complete, whatever
\* an aborted boot left there (IPv6 dropped, or said not to be there), and a boot that was torn down
\* leaves neither rules, a container's DNAT rule apart, nor an unnamed state directory.
THEOREM AlwaysConfined == Spec => []Confined
  <1>1. ASSUME IInv PROVE Confined
    <2>1. ASSUME NEW b \in Boots, vm[b].vmm # "off" PROVE Wired(vm[b].oct)
      <3>1. vm[b].pc \in {"booting", "up"}
        BY <1>1, <2>1 DEF IInv, BootInv
      <3>2. vm[b].oct \notin Pooled =>
              /\ AllParts \subseteq net[vm[b].oct]
              /\ kind = "microvm" => net[vm[b].oct] \cap {"drop6", "no6"} # {}
        BY <1>1, <3>1 DEF IInv, NetInv, NetAt, Setup, Full, Done
      <3>. QED
        BY <3>2 DEF Wired
    <2>2. ASSUME NEW b \in Boots, vm[b].pc = "gone" PROVE disk[b] = Empty
      BY <1>1, <2>2 DEF IInv, DiskInv, UnnamedInv, Active
    <2>3. NetKept
      BY <1>1 DEF IInv, NetInv
    <2>. QED
      BY <2>1, <2>2, <2>3 DEF Confined, NetKept
  <1>. QED
    BY <1>1, Invariance, PTL

=============================================================================

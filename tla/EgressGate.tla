----------------------------- MODULE EgressGate -----------------------------
(***************************************************************************)
(* The coalesced egress reload between sandboxd and the pod's one shared   *)
(* sbxproxy (internal/sandboxd/packed.go, cmd/sbxproxy/main.go).           *)
(*                                                                         *)
(* setEgress stores a source's policy in an in-memory map, bumps a         *)
(* generation and wakes one reloader goroutine.  The reloader reads the    *)
(* newest generation, snapshots the map, renames a fresh rules file into   *)
(* place and SIGHUPs sbxproxy, which re-reads the file, installs it and    *)
(* echoes the file's generation.  waitApplied releases a caller once the   *)
(* echoed generation has reached its own.                                  *)
(*                                                                         *)
(* A policy (rules plus deny-wait) is an element of Policies; each stored  *)
(* value also carries "ver", the number of times its source was written:   *)
(* a history stamp that tells which write a copy of the map comes from.    *)
(***************************************************************************)
EXTENDS Naturals, Sequences, FiniteSets

CONSTANTS
  Callers,      \* the setEgress calls of a behaviour, each made at most once
  IPs,          \* workload source addresses
  Policies,     \* what a config can allow one source
  NoRules,      \* the source has no entry in the map
  NoIP,         \* the address of a call not yet made
  IOMayFail     \* may the file write, the signal or the read fail?

ASSUME IOMayFailAssumption == IOMayFail \in BOOLEAN

VARIABLES
  egress,       \* packState.egress and .denyWait: what each source should get
  desired,      \* egressGate.desired
  applied,      \* egressGate.applied
  wake,         \* is a token in egressGate.wake, a channel of capacity one?
  callPc,       \* where each setEgress/waitApplied call is
  callIP,       \* its source
  callVer,      \* the write it made to egress
  callGen,      \* the generation bumpDesired returned it, 0 before
  relPc,        \* where runEgressReloader is
  relGen,       \* its local variable gen
  relSnap,      \* its local copy of the map
  dropped,      \* has a reload been dropped on an error, which is only logged?
  file,         \* the rules file: a generation and the map it was taken from
  hup,          \* is a SIGHUP pending at sbxproxy?
  prxPc,        \* where sbxproxy's SIGHUP loop is
  prxFile,      \* what its readRules returned
  liveWait,     \* sbxproxy's installed deny-wait map
  live,         \* sbxproxy's installed rules: what is enforced
  echoes        \* generations written to the events fd, not yet read

callVars == <<callPc, callIP, callVer, callGen>>
relVars  == <<relPc, relGen, relSnap, dropped>>
prxVars  == <<hup, prxPc, prxFile, liveWait, live>>
gateVars == <<egress, desired, applied, wake, callVars, relVars, file,
              prxVars, echoes>>

Entry == [ver : Nat, pol : Policies \union {NoRules}]
Map   == [IPs -> Entry]
File  == [gen : Nat, map : Map]

EmptyMap == [i \in IPs |-> [ver |-> 0, pol |-> NoRules]]

GateInit ==
  /\ egress = EmptyMap
  /\ desired = 0
  /\ applied = 0
  /\ wake = FALSE
  /\ callPc = [c \in Callers |-> "idle"]
  /\ callIP = [c \in Callers |-> NoIP]
  /\ callVer = [c \in Callers |-> 0]
  /\ callGen = [c \in Callers |-> 0]
  /\ relPc = "idle"
  /\ relGen = 0
  /\ relSnap = EmptyMap
  /\ dropped = FALSE
  /\ file = [gen |-> 0, map |-> EmptyMap]
  /\ hup = FALSE
  /\ prxPc = "idle"
  /\ prxFile = [gen |-> 0, map |-> EmptyMap]
  /\ liveWait = EmptyMap
  /\ live = EmptyMap
  /\ echoes = <<>>

-----------------------------------------------------------------------------
(* setEgress: the map entry changes under p.mu, then the generation under  *)
(* g.mu, then the wake token: three steps other goroutines can fall        *)
(* between.  pol = NoRules is the teardown's clearing call.                *)

StoreEgress(c, ip, pol) ==
  /\ callPc[c] = "idle"
  /\ egress' = [egress EXCEPT ![ip] = [ver |-> egress[ip].ver + 1, pol |-> pol]]
  /\ callPc' = [callPc EXCEPT ![c] = "stored"]
  /\ callIP' = [callIP EXCEPT ![c] = ip]
  /\ callVer' = [callVer EXCEPT ![c] = egress[ip].ver + 1]
  /\ UNCHANGED <<desired, applied, wake, callGen, relVars, file, prxVars, echoes>>

BumpDesired(c) ==
  /\ callPc[c] = "stored"
  /\ desired' = desired + 1
  /\ callGen' = [callGen EXCEPT ![c] = desired + 1]
  /\ callPc' = [callPc EXCEPT ![c] = "bumped"]
  /\ UNCHANGED <<egress, applied, wake, callIP, callVer, relVars, file, prxVars,
                 echoes>>

\* Faulty variant: the token is dropped while the reloader is busy.
Signal_OnlyIfIdle(c) ==
  /\ callPc[c] = "bumped"
  /\ wake' = (wake \/ relPc = "idle")
  /\ callPc' = [callPc EXCEPT ![c] = "signalled"]
  /\ UNCHANGED <<egress, desired, applied, callIP, callVer, callGen, relVars,
                 file, prxVars, echoes>>

Signal(c) ==
  /\ callPc[c] = "bumped"
  /\ wake' = TRUE
  /\ callPc' = [callPc EXCEPT ![c] = "signalled"]
  /\ UNCHANGED <<egress, desired, applied, callIP, callVer, callGen, relVars,
                 file, prxVars, echoes>>

(* waitApplied: released by the echo, or by its timeout or its context.    *)

WaitApplied(c) ==
  /\ callPc[c] = "signalled"
  /\ applied >= callGen[c]
  /\ callPc' = [callPc EXCEPT ![c] = "acked"]
  /\ UNCHANGED <<egress, desired, applied, wake, callIP, callVer, callGen,
                 relVars, file, prxVars, echoes>>

WaitGaveUp(c) ==
  /\ callPc[c] = "signalled"
  /\ callPc' = [callPc EXCEPT ![c] = "gaveUp"]
  /\ UNCHANGED <<egress, desired, applied, wake, callIP, callVer, callGen,
                 relVars, file, prxVars, echoes>>

-----------------------------------------------------------------------------
(* runEgressReloader: the only writer of the rules file.                   *)

ReloaderWake ==
  /\ relPc = "idle" /\ wake
  /\ wake' = FALSE
  /\ relPc' = "woken"
  /\ UNCHANGED <<egress, desired, applied, callVars, relGen, relSnap, dropped, file,
                 prxVars, echoes>>

CurrentDesired ==
  /\ relPc = "woken"
  /\ relGen' = desired
  /\ relPc' = "gen"
  /\ UNCHANGED <<egress, desired, applied, wake, callVars, relSnap, dropped, file,
                 prxVars, echoes>>

ReloaderSnapshot ==
  /\ relPc = "gen"
  /\ relSnap' = egress
  /\ relPc' = "snap"
  /\ UNCHANGED <<egress, desired, applied, wake, callVars, relGen, dropped, file, prxVars,
                 echoes>>

\* Faulty variant: the generation is read when the file is written, after the
\* map was copied, so it may name changes the copy does not hold.
WriteRules_LateGen ==
  /\ relPc = "snap"
  /\ file' = [gen |-> desired, map |-> relSnap]
  /\ relPc' = "written"
  /\ UNCHANGED <<egress, desired, applied, wake, callVars, relGen, relSnap, dropped,
                 prxVars, echoes>>

\* writeJSON renames a temporary file into place, so a reader sees the old
\* rules or the new ones.  On an error the pass is dropped and not retried.
WriteRules ==
  /\ relPc = "snap"
  /\ \/ /\ file' = [gen |-> relGen, map |-> relSnap]
        /\ relPc' = "written"
        /\ UNCHANGED dropped
     \/ /\ IOMayFail
        /\ relPc' = "idle"
        /\ dropped' = TRUE
        /\ UNCHANGED file
  /\ UNCHANGED <<egress, desired, applied, wake, callVars, relGen, relSnap,
                 prxVars, echoes>>

KillHup ==
  /\ relPc = "written"
  /\ \/ hup' = TRUE /\ UNCHANGED dropped
     \/ IOMayFail /\ dropped' = TRUE /\ UNCHANGED hup
  /\ relPc' = "idle"
  /\ UNCHANGED <<egress, desired, applied, wake, callVars, relGen, relSnap, file,
                 prxPc, prxFile, liveWait, live, echoes>>

-----------------------------------------------------------------------------
(* sbxproxy's SIGHUP loop.  Pending signals coalesce in a channel of one.  *)

ReadRules ==
  /\ prxPc = "idle" /\ hup
  /\ hup' = FALSE
  /\ \/ /\ prxFile' = file
        /\ prxPc' = "read"
        /\ UNCHANGED dropped
     \/ /\ IOMayFail
        /\ dropped' = TRUE
        /\ UNCHANGED <<prxFile, prxPc>>
  /\ UNCHANGED <<egress, desired, applied, wake, callVars, relPc, relGen, relSnap, file,
                 liveWait, live, echoes>>

InstallDenyWait ==
  /\ prxPc = "read"
  /\ liveWait' = prxFile.map
  /\ prxPc' = "waits"
  /\ UNCHANGED <<egress, desired, applied, wake, callVars, relVars, file, hup,
                 prxFile, live, echoes>>

InstallRules ==
  /\ prxPc = "waits"
  /\ live' = prxFile.map
  /\ prxPc' = "rules"
  /\ UNCHANGED <<egress, desired, applied, wake, callVars, relVars, file, hup,
                 prxFile, liveWait, echoes>>

EmitControl ==
  /\ prxPc = "rules"
  /\ echoes' = IF prxFile.gen > 0 THEN Append(echoes, prxFile.gen) ELSE echoes
  /\ prxPc' = "idle"
  /\ UNCHANGED <<egress, desired, applied, wake, callVars, relVars, file, hup,
                 prxFile, liveWait, live>>

\* sandboxd's events-fd reader peels the echo off and advances the gate.
MarkApplied ==
  /\ echoes # <<>>
  /\ echoes' = Tail(echoes)
  /\ applied' = IF Head(echoes) > applied THEN Head(echoes) ELSE applied
  /\ UNCHANGED <<egress, desired, wake, callVars, relVars, file, prxVars>>

-----------------------------------------------------------------------------
Reload == \/ ReloaderWake
          \/ CurrentDesired
          \/ ReloaderSnapshot
          \/ WriteRules
          \/ KillHup
          \/ ReadRules
          \/ InstallDenyWait
          \/ InstallRules
          \/ EmitControl
          \/ MarkApplied

Next ==
  \/ \E c \in Callers, ip \in IPs, pol \in Policies \union {NoRules} :
       StoreEgress(c, ip, pol)
  \/ \E c \in Callers : \/ BumpDesired(c)
                        \/ Signal(c)
                        \/ WaitApplied(c)
                        \/ WaitGaveUp(c)
  \/ Reload

Spec == GateInit /\ [][Next]_gateVars

(* Every goroutine that can run does: a call once begun goes on, the       *)
(* reloader, the SIGHUP loop and the events reader never stop.             *)
Fairness ==
  /\ \A c \in Callers : WF_gateVars(BumpDesired(c)) /\ WF_gateVars(Signal(c))
  /\ WF_gateVars(ReloaderWake)
  /\ WF_gateVars(CurrentDesired)
  /\ WF_gateVars(ReloaderSnapshot)
  /\ WF_gateVars(WriteRules)
  /\ WF_gateVars(KillHup)
  /\ WF_gateVars(ReadRules)
  /\ WF_gateVars(InstallDenyWait)
  /\ WF_gateVars(InstallRules)
  /\ WF_gateVars(EmitControl)
  /\ WF_gateVars(MarkApplied)

FairSpec == Spec /\ Fairness

-----------------------------------------------------------------------------
CallStates == {"idle", "stored", "bumped", "signalled", "acked", "gaveUp"}
RelStates  == {"idle", "woken", "gen", "snap", "written"}
PrxStates  == {"idle", "read", "waits", "rules"}

TypeOK ==
  /\ egress \in Map
  /\ desired \in Nat
  /\ applied \in Nat
  /\ wake \in BOOLEAN
  /\ callPc \in [Callers -> CallStates]
  /\ callIP \in [Callers -> IPs \union {NoIP}]
  /\ callVer \in [Callers -> Nat]
  /\ callGen \in [Callers -> Nat]
  /\ relPc \in RelStates
  /\ relGen \in Nat
  /\ relSnap \in Map
  /\ dropped \in BOOLEAN
  /\ file \in File
  /\ hup \in BOOLEAN
  /\ prxPc \in PrxStates
  /\ prxFile \in File
  /\ liveWait \in Map
  /\ live \in Map
  /\ echoes \in Seq(Nat)

\* Does a copy m of the map hold every write whose generation is at most g?
Covers(m, g) ==
  \A c \in Callers : (callGen[c] # 0 /\ callGen[c] <= g)
                       => m[callIP[c]].ver >= callVer[c]

(* A caller waitApplied released by the echo finds its policy, or a newer  *)
(* one for the same source, enforced by sbxproxy: createPacked marks a     *)
(* sandbox ready on the strength of this, whatever was coalesced.          *)
AckedRulesAreLive ==
  \A c \in Callers : callPc[c] = "acked" => live[callIP[c]].ver >= callVer[c]

(* The generation the gate has accepted is backed by enforced rules, and   *)
(* so is every echo still in flight: no ack runs ahead of its content.     *)
AckNeverAheadOfRules ==
  /\ Covers(live, applied)
  /\ \A k \in DOMAIN echoes : Covers(live, echoes[k])

(* A waiter woken by newly installed rules never meets an older grace      *)
(* period: the SIGHUP loop installs the deny-waits before the rules.       *)
WaitsNotOlderThanRules == \A i \in IPs : liveWait[i].ver >= live[i].ver

(* Enforced rules never go back to an older write, and the applied         *)
(* generation never decreases, whatever is reloaded, dropped or echoed.    *)
NoRollback ==
  [][/\ applied' >= applied
     /\ \A i \in IPs : live'[i].ver >= live[i].ver]_gateVars

(* No wake-up is lost: each write is enforced, itself or superseded, in    *)
(* the end, unless an I/O error has made the pod drop a reload.            *)
EventuallyLive ==
  \A i \in IPs, v \in 1..Cardinality(Callers) :
    (egress[i].ver = v) ~> (live[i].ver >= v \/ dropped)

-----------------------------------------------------------------------------
(* The number of the write to each source's policy that a map holds, and   *)
(* the writes whose caller the echo released.                              *)
storedVer == [i \in IPs |-> egress[i].ver]
liveVer   == [i \in IPs |-> live[i].ver]
ackedSet  == {<<callIP[c], callVer[c]>> : c \in {d \in Callers : callPc[d] = "acked"}}

Promise == INSTANCE EgressPromise WITH
             stored <- storedVer, enforced <- liveVer, acked <- ackedSet

(* Coalescing, files, signals and echoes included, the reload pipeline is  *)
(* a policy store that enforces writes in order and confirms a write only  *)
(* when it is enforced.                                                    *)
ImplementsPromise == Promise!Spec

=============================================================================

---------------------------- MODULE Egress_proof ----------------------------
(***************************************************************************)
(* Proofs about the egress path, from the pod's policy to the proxy's      *)
(* verdict, for any callers, sources, policies, flows and patterns.        *)
(*                                                                         *)
(* EgressGate.  The invariant follows one copy of the map through the      *)
(* pipeline: the in-memory map, the reloader's snapshot, the file, what    *)
(* sbxproxy read, what it enforces.  Each copy covers the generation that  *)
(* travels with it (GenInv), and each is at least as new as the next       *)
(* (Ordered), so installing a copy never takes a write back.               *)
(*                                                                         *)
(* EgressRules.  A pattern means that the text can be cut into one piece   *)
(* per element (Cuts).  The matchers are recursive functions of positions; *)
(* each is shown to be solved by its equation, by recursion on a rank, and *)
(* to say what the cuts say, by induction on that rank.  The greedy walk   *)
(* says more than it is asked: WalkMeans also counts the cuts it would     *)
(* find by letting the last star take more.                                *)
(*                                                                         *)
(* SbxProxy.  A flow that was let in holds the rule that did it, a verdict *)
(* of a list in force since its check began (Grants); FlowInv carries that *)
(* rule to the first write, and says why a sleeping flow may sleep.        *)
(*                                                                         *)
(* The audit.  AuditInv says where in its exchange the newest context of a *)
(* flow is (being checked, announced, answered) and that all earlier ones  *)
(* are settled.  HoldInv says what the connection of a flow still owes and *)
(* that no other flow and no stack has it, StackInv that a stack holds     *)
(* drained connections of its own key.  The sink's table and the WebSocket *)
(* assembler have invariants of their own (DnsInv, WsInv).                 *)
(***************************************************************************)
EXTENDS EgressGate, SbxProxy, FiniteSetTheorems, SequenceTheorems, WellFoundedInduction, TLAPS

\* m is at least as new as n for every source.
Newer(m, n) == \A i \in IPs : m[i].ver >= n[i].ver

\* What a call holds: its source once it has stored, a generation once bumped.
CallInv ==
  \A c \in Callers :
    /\ callPc[c] \in {"idle", "stored"} <=> callGen[c] = 0
    /\ callPc[c] # "idle" => callIP[c] \in IPs
    /\ callPc[c] # "idle" => callVer[c] > 0 /\ egress[callIP[c]].ver >= callVer[c]
    /\ callGen[c] <= desired
    /\ callPc[c] = "acked" => callGen[c] <= applied

\* No generation in the pipeline is ahead of desired.
GenBound ==
  /\ applied <= desired
  /\ relGen <= desired
  /\ file.gen <= desired
  /\ prxFile.gen <= desired
  /\ \A k \in DOMAIN echoes : echoes[k] <= desired

\* Each stage of the pipeline is at least as new as the one it feeds.
Ordered ==
  /\ Newer(egress, relSnap)
  /\ Newer(relSnap, file.map)
  /\ Newer(file.map, prxFile.map)
  /\ Newer(prxFile.map, liveWait)
  /\ Newer(liveWait, live)
  /\ prxPc \in {"waits", "rules"} => liveWait = prxFile.map
  /\ prxPc = "rules" => live = prxFile.map

\* Each copy covers the generation it is labelled with.
GenInv ==
  /\ relPc = "snap" => Covers(relSnap, relGen)
  /\ Covers(file.map, file.gen)
  /\ Covers(prxFile.map, prxFile.gen)
  /\ Covers(live, applied)
  /\ \A k \in DOMAIN echoes : Covers(live, echoes[k])

IInv == TypeOK /\ CallInv /\ GenBound /\ Ordered /\ GenInv

-----------------------------------------------------------------------------
LEMMA InitIInv == GateInit => IInv
  <1>. SUFFICES ASSUME GateInit PROVE IInv
    OBVIOUS
  <1>0. EmptyMap \in Map /\ [gen |-> 0, map |-> EmptyMap] \in File
    BY DEF EmptyMap, Map, Entry, File
  <1>1. TypeOK
    <2>1. callPc \in [Callers -> CallStates] /\ relPc \in RelStates /\ prxPc \in PrxStates
      BY DEF GateInit, CallStates, RelStates, PrxStates
    <2>2. callIP \in [Callers -> IPs \union {NoIP}] /\ callVer \in [Callers -> Nat]
          /\ callGen \in [Callers -> Nat] /\ relGen \in Nat /\ desired \in Nat /\ applied \in Nat
      BY DEF GateInit
    <2>3. wake \in BOOLEAN /\ hup \in BOOLEAN /\ dropped \in BOOLEAN
      BY Zenon DEF GateInit
    <2>4. echoes \in Seq(Nat)
      BY DEF GateInit
    <2>5. egress \in Map /\ relSnap \in Map /\ file \in File /\ prxFile \in File
          /\ liveWait \in Map /\ live \in Map
      BY <1>0 DEF GateInit
    <2>. QED  BY <2>1, <2>2, <2>3, <2>4, <2>5, Zenon DEF TypeOK
  <1>2. CallInv /\ GenBound /\ Ordered /\ GenInv
    BY DEF GateInit, CallInv, GenBound, Ordered, Newer, GenInv, Covers, EmptyMap
  <1>. QED  BY <1>1, <1>2 DEF IInv

\* No step breaks the types.
LEMMA TypeStep == TypeOK /\ CallInv /\ [Next]_gateVars => TypeOK'
  <1>. SUFFICES ASSUME TypeOK, CallInv, [Next]_gateVars PROVE TypeOK'
    OBVIOUS
  <1>. USE DEF TypeOK
  <1>1. ASSUME NEW c \in Callers, NEW ip \in IPs,
               NEW pol \in Policies \union {NoRules}, StoreEgress(c, ip, pol)
        PROVE  TypeOK'
    <2>1. egress' \in Map /\ callVer' \in [Callers -> Nat]
      BY <1>1 DEF StoreEgress, Map, Entry
    <2>. QED  BY <1>1, <2>1 DEF StoreEgress, CallStates, relVars, prxVars
  <1>2. ASSUME NEW c \in Callers,
               BumpDesired(c) \/ Signal(c) \/ WaitApplied(c) \/ WaitGaveUp(c)
        PROVE  TypeOK'
    <2>1. CASE BumpDesired(c)
      BY <2>1 DEF BumpDesired, CallStates, relVars, prxVars
    <2>2. CASE Signal(c)
      <3>1. wake' \in BOOLEAN
        BY <2>2, Zenon DEF Signal
      <3>. QED  BY <2>2, <3>1 DEF Signal, CallStates, relVars, prxVars
    <2>3. CASE WaitApplied(c) \/ WaitGaveUp(c)
      BY <2>3 DEF WaitApplied, WaitGaveUp, CallStates, relVars, prxVars
    <2>. QED  BY <1>2, <2>1, <2>2, <2>3
  <1>3. CASE ReloaderWake \/ CurrentDesired \/ ReloaderSnapshot \/ KillHup
    BY <1>3 DEF ReloaderWake, CurrentDesired, ReloaderSnapshot, KillHup, RelStates,
       callVars, relVars, prxVars
  <1>4. CASE WriteRules
    <2>1. file' \in File
      BY <1>4 DEF WriteRules, File
    <2>. QED  BY <1>4, <2>1 DEF WriteRules, RelStates, callVars, prxVars
  <1>5. CASE ReadRules
    BY <1>5 DEF ReadRules, PrxStates, callVars, relVars
  <1>6. CASE InstallDenyWait \/ InstallRules
    BY <1>6 DEF InstallDenyWait, InstallRules, PrxStates, File, callVars, relVars
  <1>7. CASE EmitControl
    BY <1>7 DEF EmitControl, PrxStates, File, callVars, relVars
  <1>8. CASE MarkApplied
    BY <1>8 DEF MarkApplied, callVars, relVars, prxVars
  <1>9. CASE UNCHANGED gateVars
    BY <1>9 DEF gateVars, callVars, relVars, prxVars
  <1>. QED  BY <1>1, <1>2, <1>3, <1>4, <1>5, <1>6, <1>7, <1>8, <1>9 DEF Next, Reload

\* What a call holds survives every step.
LEMMA CallStep == IInv /\ [Next]_gateVars => CallInv'
  <1>. SUFFICES ASSUME IInv, [Next]_gateVars PROVE CallInv'
    OBVIOUS
  <1>. USE DEF IInv, TypeOK, CallInv
  <1>1. ASSUME NEW c \in Callers, NEW ip \in IPs,
               NEW pol \in Policies \union {NoRules}, StoreEgress(c, ip, pol)
        PROVE  CallInv'
    <2>1. \A i \in IPs : egress'[i].ver >= egress[i].ver
      BY <1>1 DEF StoreEgress, Map, Entry
    <2>2. /\ egress'[ip].ver = egress[ip].ver + 1
          /\ \A i \in IPs : egress[i].ver \in Nat /\ egress'[i].ver \in Nat
      BY <1>1 DEF StoreEgress, Map, Entry
    <2>3. SUFFICES ASSUME NEW d \in Callers
                   PROVE  /\ callPc'[d] \in {"idle", "stored"} <=> callGen'[d] = 0
                          /\ callPc'[d] # "idle" => callIP'[d] \in IPs
                          /\ callPc'[d] # "idle" => callVer'[d] > 0
                          /\ callPc'[d] # "idle" => egress'[callIP'[d]].ver >= callVer'[d]
                          /\ callGen'[d] <= desired'
                          /\ callPc'[d] = "acked" => callGen'[d] <= applied'
      OBVIOUS
    <2>4. CASE d = c
      BY <1>1, <2>2, <2>4 DEF StoreEgress
    <2>5. CASE d # c
      <3>1. callPc'[d] = callPc[d] /\ callIP'[d] = callIP[d] /\ callVer'[d] = callVer[d]
            /\ callGen' = callGen /\ desired' = desired /\ applied' = applied
        BY <1>1, <2>5 DEF StoreEgress
      <3>2. ASSUME callPc[d] # "idle" PROVE egress'[callIP[d]].ver >= callVer[d]
        <4>1. callIP[d] \in IPs /\ egress[callIP[d]].ver >= callVer[d]
          BY <3>2
        <4>2. callVer[d] \in Nat
          OBVIOUS
        <4>. QED  BY <2>1, <2>2, <4>1, <4>2
      <3>. QED  BY <3>1, <3>2
    <2>. QED  BY <2>4, <2>5
  <1>2. ASSUME NEW c \in Callers,
               BumpDesired(c) \/ Signal(c) \/ WaitApplied(c) \/ WaitGaveUp(c)
        PROVE  CallInv'
    <2>1. CASE BumpDesired(c)
      BY <2>1 DEF BumpDesired
    <2>2. CASE Signal(c) \/ WaitApplied(c) \/ WaitGaveUp(c)
      BY <2>2 DEF Signal, WaitApplied, WaitGaveUp
    <2>. QED  BY <1>2, <2>1, <2>2
  <1>3. CASE MarkApplied
    <2>1. applied' >= applied /\ applied' \in Nat
      BY <1>3 DEF MarkApplied
    <2>. QED  BY <1>3, <2>1 DEF MarkApplied, callVars
  <1>4. CASE (Reload /\ ~MarkApplied) \/ UNCHANGED gateVars
    <2>1. UNCHANGED <<egress, desired, applied, callVars>>
      BY <1>4 DEF Reload, gateVars, ReloaderWake, CurrentDesired, ReloaderSnapshot, WriteRules,
         KillHup, ReadRules, InstallDenyWait, InstallRules, EmitControl
    <2>. QED  BY <2>1 DEF callVars
  <1>. QED  BY <1>1, <1>2, <1>3, <1>4 DEF Next

\* No generation overtakes desired.
LEMMA BoundStep == IInv /\ [Next]_gateVars => GenBound'
  <1>. SUFFICES ASSUME IInv, [Next]_gateVars PROVE GenBound'
    OBVIOUS
  <1>. USE DEF IInv, TypeOK, GenBound, File
  <1>1. CASE EmitControl
    <2>1. /\ UNCHANGED <<desired, applied, relVars, file, prxFile>>
          /\ \A k \in DOMAIN echoes' : echoes'[k] <= desired
      BY <1>1 DEF EmitControl
    <2>. QED  BY <2>1 DEF relVars
  <1>2. CASE MarkApplied
    <2>1. Head(echoes) = echoes[1] /\ 1 \in DOMAIN echoes
      BY <1>2 DEF MarkApplied
    <2>2. \A k \in DOMAIN echoes' : echoes'[k] = echoes[k+1] /\ k+1 \in DOMAIN echoes
      BY <1>2 DEF MarkApplied
    <2>. QED  BY <1>2, <2>1, <2>2 DEF MarkApplied, relVars, prxVars
  <1>3. ASSUME NEW c \in Callers, BumpDesired(c) PROVE GenBound'
    BY <1>3 DEF BumpDesired, relVars, prxVars
  <1>4. CASE (Reload /\ ~EmitControl /\ ~MarkApplied) \/ UNCHANGED gateVars
    <2>1. UNCHANGED <<desired, applied, echoes>>
      BY <1>4 DEF Reload, gateVars, ReloaderWake, CurrentDesired, ReloaderSnapshot, WriteRules,
         KillHup, ReadRules, InstallDenyWait, InstallRules
    <2>2. relGen' <= desired
      BY <1>4 DEF Reload, gateVars, ReloaderWake, CurrentDesired, ReloaderSnapshot,
         WriteRules, KillHup, ReadRules, InstallDenyWait, InstallRules, relVars
    <2>3. file'.gen <= desired
      <3>2. CASE WriteRules
        BY <3>2 DEF WriteRules
      <3>1. CASE ~WriteRules
        BY <1>4, <3>1 DEF Reload, gateVars, ReloaderWake, CurrentDesired, ReloaderSnapshot,
           KillHup, ReadRules, InstallDenyWait, InstallRules
      <3>. QED  BY <3>1, <3>2
    <2>4. prxFile'.gen <= desired
      BY <1>4 DEF Reload, gateVars, ReloaderWake, CurrentDesired, ReloaderSnapshot,
         WriteRules, KillHup, ReadRules, InstallDenyWait, InstallRules, prxVars
    <2>. QED  BY <2>1, <2>2, <2>3, <2>4
  <1>5. ASSUME NEW c \in Callers,
               \/ Signal(c) \/ WaitApplied(c) \/ WaitGaveUp(c)
               \/ \E ip \in IPs, pol \in Policies \union {NoRules} : StoreEgress(c, ip, pol)
        PROVE  GenBound'
    <2>1. UNCHANGED <<desired, applied, echoes, relVars, file, prxVars>>
      BY <1>5 DEF Signal, WaitApplied, WaitGaveUp, StoreEgress
    <2>. QED  BY <2>1 DEF relVars, prxVars
  <1>. QED  BY <1>1, <1>2, <1>3, <1>4, <1>5 DEF Next

\* Versions are numbers that can be compared, in every map of the state.
LEMMA VerNat == ASSUME NEW m \in Map PROVE \A i \in IPs : m[i].ver \in Nat
  BY DEF Map, Entry

LEMMA NewerTrans ==
  ASSUME NEW m \in Map, NEW n \in Map, NEW o \in Map, Newer(m, n), Newer(n, o)
  PROVE  Newer(m, o)
  BY VerNat DEF Newer

LEMMA NewerRefl == ASSUME NEW m \in Map PROVE Newer(m, m)
  BY VerNat DEF Newer

\* A newer copy covers what an older one covers.
LEMMA CoversNewer ==
  ASSUME TypeOK, CallInv, NEW m \in Map, NEW n \in Map, NEW g \in Nat,
         Newer(m, n), Covers(n, g)
  PROVE  Covers(m, g)
  <1>. SUFFICES ASSUME NEW c \in Callers, callGen[c] # 0, callGen[c] <= g
                PROVE  m[callIP[c]].ver >= callVer[c]
    BY DEF Covers
  <1>1. callIP[c] \in IPs
    BY DEF CallInv
  <1>2. n[callIP[c]].ver >= callVer[c] /\ m[callIP[c]].ver >= n[callIP[c]].ver
    BY <1>1 DEF Covers, Newer
  <1>. QED  BY <1>1, <1>2, VerNat DEF TypeOK

\* The pipeline stays in order.
LEMMA OrderStep == IInv /\ [Next]_gateVars => Ordered'
  <1>. SUFFICES ASSUME IInv, [Next]_gateVars PROVE Ordered'
    OBVIOUS
  <1>0. /\ egress \in Map /\ relSnap \in Map /\ file.map \in Map /\ prxFile.map \in Map
        /\ liveWait \in Map /\ live \in Map
    BY DEF IInv, TypeOK, File
  <1>. USE DEF IInv, Ordered
  <1>1. ASSUME NEW c \in Callers, NEW ip \in IPs,
               NEW pol \in Policies \union {NoRules}, StoreEgress(c, ip, pol)
        PROVE  Ordered'
    <2>1. egress' \in Map /\ Newer(egress', egress)
      BY <1>0, <1>1 DEF StoreEgress, Map, Entry, Newer
    <2>2. Newer(egress', relSnap)
      BY <1>0, <2>1, NewerTrans
    <2>. QED  BY <1>1, <2>2 DEF StoreEgress, relVars, prxVars, Newer
  <1>2. ASSUME NEW c \in Callers,
               BumpDesired(c) \/ Signal(c) \/ WaitApplied(c) \/ WaitGaveUp(c)
        PROVE  Ordered'
    <2>1. UNCHANGED <<egress, relVars, file, prxVars>>
      BY <1>2 DEF BumpDesired, Signal, WaitApplied, WaitGaveUp
    <2>. QED  BY <2>1 DEF relVars, prxVars, Newer
  <1>3. CASE ReloaderWake \/ CurrentDesired \/ KillHup \/ EmitControl \/ MarkApplied
             \/ UNCHANGED gateVars
    <2>1. UNCHANGED <<egress, relSnap, file, prxFile, liveWait, live>>
      BY <1>3 DEF ReloaderWake, CurrentDesired, KillHup, EmitControl, MarkApplied, gateVars,
         relVars, prxVars
    <2>2. prxPc' = prxPc \/ prxPc' = "idle"
      BY <1>3 DEF ReloaderWake, CurrentDesired, KillHup, EmitControl, MarkApplied, gateVars,
         prxVars
    <2>. QED  BY <2>1, <2>2 DEF Newer
  <1>4. CASE ReloaderSnapshot
    <2>1. Newer(egress, egress) /\ Newer(egress, file.map)
      BY <1>0, NewerRefl, NewerTrans
    <2>. QED  BY <1>4, <2>1 DEF ReloaderSnapshot, prxVars, Newer
  <1>5. CASE WriteRules
    <2>1. Newer(relSnap, relSnap) /\ Newer(relSnap, prxFile.map)
      BY <1>0, NewerRefl, NewerTrans
    <2>2. file' = file \/ file'.map = relSnap
      BY <1>5 DEF WriteRules
    <2>3. Newer(relSnap, file'.map) /\ Newer(file'.map, prxFile.map)
      BY <2>1, <2>2
    <2>. QED  BY <1>5, <2>3 DEF WriteRules, prxVars, Newer
  <1>6. CASE ReadRules
    <2>1. Newer(file.map, file.map) /\ Newer(file.map, liveWait)
      BY <1>0, NewerRefl, NewerTrans
    <2>2. Newer(file.map, prxFile'.map) /\ Newer(prxFile'.map, liveWait)
      BY <1>6, <2>1 DEF ReadRules
    <2>3. prxPc' \in {"idle", "read"}
      BY <1>6 DEF ReadRules
    <2>. QED  BY <1>6, <2>2, <2>3 DEF ReadRules, relVars, Newer
  <1>7. CASE InstallDenyWait
    <2>1. Newer(prxFile.map, prxFile.map) /\ Newer(prxFile.map, live)
      BY <1>0, NewerRefl, NewerTrans
    <2>. QED  BY <1>7, <2>1 DEF InstallDenyWait, relVars, Newer
  <1>8. CASE InstallRules
    <2>1. Newer(prxFile.map, prxFile.map)
      BY <1>0, NewerRefl
    <2>. QED  BY <1>8, <2>1 DEF InstallRules, relVars, Newer
  <1>. QED  BY <1>1, <1>2, <1>3, <1>4, <1>5, <1>6, <1>7, <1>8 DEF Next, Reload

\* Covers(m, g) as the next state's calls would have it.
CoversNext(m, g) ==
  \A c \in Callers : (callGen'[c] # 0 /\ callGen'[c] <= g)
                       => m[callIP'[c]].ver >= callVer'[c]

\* A new call's generation is above every generation in the pipeline, so no
\* step makes a copy cover less.
LEMMA CoversKept ==
  ASSUME IInv, [Next]_gateVars, NEW m, NEW g \in Nat, g <= desired, Covers(m, g)
  PROVE  CoversNext(m, g)
  <1>. USE DEF IInv, TypeOK, CallInv, Covers, CoversNext
  <1>1. ASSUME NEW c \in Callers, NEW ip \in IPs,
               NEW pol \in Policies \union {NoRules}, StoreEgress(c, ip, pol)
        PROVE  CoversNext(m, g)
    <2>1. callGen' = callGen /\ callGen[c] = 0
      BY <1>1 DEF StoreEgress
    <2>2. \A d \in Callers \ {c} : callIP'[d] = callIP[d] /\ callVer'[d] = callVer[d]
      BY <1>1 DEF StoreEgress
    <2>. QED  BY <2>1, <2>2
  <1>2. ASSUME NEW c \in Callers, BumpDesired(c) PROVE CoversNext(m, g)
    BY <1>2 DEF BumpDesired
  <1>3. ASSUME UNCHANGED <<callIP, callVer, callGen>> PROVE CoversNext(m, g)
    BY <1>3
  <1>4. ASSUME NEW c \in Callers, Signal(c) \/ WaitApplied(c) \/ WaitGaveUp(c)
        PROVE  UNCHANGED <<callIP, callVer, callGen>>
    BY <1>4 DEF Signal, WaitApplied, WaitGaveUp
  <1>5. ASSUME Reload \/ UNCHANGED gateVars PROVE UNCHANGED <<callIP, callVer, callGen>>
    BY <1>5 DEF Reload, gateVars, callVars, ReloaderWake, CurrentDesired, ReloaderSnapshot,
       WriteRules, KillHup, ReadRules, InstallDenyWait, InstallRules, EmitControl,
       MarkApplied
  <1>. QED  BY <1>1, <1>2, <1>3, <1>4, <1>5 DEF Next

\* Every copy still covers its generation after a step.
LEMMA GenStep == IInv /\ [Next]_gateVars => GenInv'
  <1>. SUFFICES ASSUME IInv, [Next]_gateVars PROVE GenInv'
    OBVIOUS
  <1>0. /\ egress \in Map /\ relSnap \in Map /\ file.map \in Map /\ prxFile.map \in Map
        /\ liveWait \in Map /\ live \in Map
        /\ relGen \in Nat /\ file.gen \in Nat /\ prxFile.gen \in Nat /\ applied \in Nat
        /\ desired \in Nat /\ echoes \in Seq(Nat)
    BY DEF IInv, TypeOK, File
  <1>1. ASSUME NEW m, NEW g \in Nat, g <= desired, Covers(m, g) PROVE CoversNext(m, g)
    BY <1>1, CoversKept
  <1>2. relPc' = "snap" => Covers(relSnap', relGen') /\ relGen' \in Nat /\ relGen' <= desired
    <2>1. CASE ReloaderSnapshot
      <3>1. Covers(egress, relGen)
        BY DEF IInv, CallInv, Covers
      <3>. QED  BY <1>0, <2>1, <3>1 DEF ReloaderSnapshot, IInv, GenBound
    <2>2. CASE ~ReloaderSnapshot
      <3>1. relPc' = "snap" => relPc = "snap" /\ relSnap' = relSnap /\ relGen' = relGen
        BY <2>2 DEF Next, Reload, gateVars, relVars, StoreEgress, BumpDesired, Signal, WaitApplied,
           WaitGaveUp, ReloaderWake, CurrentDesired, WriteRules, KillHup, ReadRules,
           InstallDenyWait, InstallRules, EmitControl, MarkApplied
      <3>. QED  BY <1>0, <3>1 DEF IInv, GenInv, GenBound
    <2>. QED  BY <2>1, <2>2
  <1>3. Covers(file'.map, file'.gen) /\ file'.gen \in Nat /\ file'.gen <= desired
    <2>1. \/ file' = file
          \/ relPc = "snap" /\ file'.map = relSnap /\ file'.gen = relGen
      BY DEF Next, Reload, gateVars, StoreEgress, BumpDesired, Signal, WaitApplied, WaitGaveUp,
         ReloaderWake, CurrentDesired, ReloaderSnapshot, WriteRules, KillHup, ReadRules,
         InstallDenyWait, InstallRules, EmitControl, MarkApplied
    <2>. QED  BY <1>0, <2>1 DEF IInv, GenInv, GenBound
  <1>4. Covers(prxFile'.map, prxFile'.gen) /\ prxFile'.gen \in Nat /\ prxFile'.gen <= desired
    <2>1. prxFile' = prxFile \/ prxFile' = file
      BY DEF Next, Reload, gateVars, prxVars, StoreEgress, BumpDesired, Signal, WaitApplied,
         WaitGaveUp, ReloaderWake, CurrentDesired, ReloaderSnapshot, WriteRules, KillHup,
         ReadRules, InstallDenyWait, InstallRules, EmitControl, MarkApplied
    <2>. QED  BY <1>0, <2>1 DEF IInv, GenInv, GenBound
  <1>5. live' \in Map /\ Newer(live', live)
    <2>1. live' = live \/ live' = prxFile.map
      BY DEF Next, Reload, gateVars, prxVars, StoreEgress, BumpDesired, Signal, WaitApplied,
         WaitGaveUp, ReloaderWake, CurrentDesired, ReloaderSnapshot, WriteRules, KillHup,
         ReadRules, InstallDenyWait, InstallRules, EmitControl, MarkApplied
    <2>2. Newer(prxFile.map, live) /\ Newer(live, live)
      BY <1>0, NewerRefl, NewerTrans DEF IInv, Ordered
    <2>. QED  BY <1>0, <2>1, <2>2
  <1>6. \A g \in Nat : Covers(live, g) => Covers(live', g)
    BY <1>0, <1>5, CoversNewer DEF IInv
  <1>7. Covers(live, applied') /\ applied' \in Nat /\ applied' <= desired
    <2>1. applied' = applied \/ (echoes # <<>> /\ applied' = echoes[1])
      BY <1>0 DEF Next, Reload, gateVars, StoreEgress, BumpDesired, Signal, WaitApplied,
         WaitGaveUp, ReloaderWake, CurrentDesired, ReloaderSnapshot, WriteRules, KillHup,
         ReadRules, InstallDenyWait, InstallRules, EmitControl, MarkApplied
    <2>2. echoes # <<>> => 1 \in DOMAIN echoes /\ echoes[1] \in Nat
      BY <1>0
    <2>. QED  BY <1>0, <2>1, <2>2 DEF IInv, GenInv, GenBound
  <1>8. \A k \in DOMAIN echoes' : Covers(live, echoes'[k]) /\ echoes'[k] \in Nat
                                   /\ echoes'[k] <= desired
    <2>1. CASE EmitControl
      <3>1. Covers(live, prxFile.gen)
        BY <2>1 DEF EmitControl, IInv, GenInv, Ordered
      <3>2. \A k \in DOMAIN echoes' : echoes'[k] = prxFile.gen
                                       \/ (k \in DOMAIN echoes /\ echoes'[k] = echoes[k])
        BY <1>0, <2>1 DEF EmitControl
      <3>. QED  BY <1>0, <3>1, <3>2 DEF IInv, GenInv, GenBound
    <2>2. CASE MarkApplied
      <3>1. \A k \in DOMAIN echoes' : k+1 \in DOMAIN echoes /\ echoes'[k] = echoes[k+1]
        BY <1>0, <2>2 DEF MarkApplied
      <3>. QED  BY <1>0, <3>1 DEF IInv, GenInv, GenBound
    <2>3. CASE ~EmitControl /\ ~MarkApplied
      <3>1. echoes' = echoes
        BY <2>3 DEF Next, Reload, gateVars, StoreEgress, BumpDesired, Signal, WaitApplied,
           WaitGaveUp, ReloaderWake, CurrentDesired, ReloaderSnapshot, WriteRules, KillHup,
           ReadRules, InstallDenyWait, InstallRules
      <3>. QED  BY <1>0, <3>1 DEF IInv, GenInv, GenBound
    <2>. QED  BY <2>1, <2>2, <2>3
  <1>9. /\ relPc' = "snap" => CoversNext(relSnap', relGen')
        /\ CoversNext(file'.map, file'.gen)
        /\ CoversNext(prxFile'.map, prxFile'.gen)
        /\ CoversNext(live', applied')
        /\ \A k \in DOMAIN echoes' : CoversNext(live', echoes'[k])
    BY <1>1, <1>2, <1>3, <1>4, <1>6, <1>7, <1>8
  <1>. QED  BY <1>9 DEF GenInv, Covers, CoversNext

LEMMA IInvStep == IInv /\ [Next]_gateVars => IInv'
  BY TypeStep, CallStep, BoundStep, OrderStep, GenStep DEF IInv

-----------------------------------------------------------------------------
\* The inductive invariant holds of every behaviour of the reload pipeline.
THEOREM Inductive == Spec => []IInv
  BY InitIInv, IInvStep, PTL DEF Spec

\* Type correctness of the reload pipeline.
THEOREM TypeCorrect == Spec => []TypeOK
  <1>1. IInv => TypeOK
    BY DEF IInv
  <1>. QED  BY <1>1, Inductive, PTL

\* No ack runs ahead of its content: whatever markApplied has accepted, and
\* whatever is still on the events fd, is already enforced by sbxproxy.
THEOREM AckSound == Spec => []AckNeverAheadOfRules
  <1>1. IInv => AckNeverAheadOfRules
    BY DEF IInv, GenInv, AckNeverAheadOfRules
  <1>. QED  BY <1>1, Inductive, PTL

\* A setEgress/waitApplied caller released by the echo has its rules, or a
\* newer write of the same source, enforced.
THEOREM AckedCallersServed == Spec => []AckedRulesAreLive
  <1>1. IInv => AckedRulesAreLive
    <2>. SUFFICES ASSUME IInv, NEW c \in Callers, callPc[c] = "acked"
                  PROVE  live[callIP[c]].ver >= callVer[c]
      BY DEF AckedRulesAreLive
    <2>1. callGen[c] # 0 /\ callGen[c] <= applied
      BY DEF IInv, CallInv
    <2>. QED  BY <2>1 DEF IInv, GenInv, Covers
  <1>. QED  BY <1>1, Inductive, PTL

\* The deny-waits sbxproxy holds are never older than its rules.
THEOREM WaitsFresh == Spec => []WaitsNotOlderThanRules
  <1>1. IInv => WaitsNotOlderThanRules
    BY DEF IInv, Ordered, Newer, WaitsNotOlderThanRules
  <1>. QED  BY <1>1, Inductive, PTL

\* Enforced rules and the applied generation only move forward.
THEOREM ForwardOnly == Spec => NoRollback
  <1>1. IInv /\ [Next]_gateVars =>
          [/\ applied' >= applied
           /\ \A i \in IPs : live'[i].ver >= live[i].ver]_gateVars
    <2>. SUFFICES ASSUME IInv, Next
                  PROVE  applied' >= applied /\ \A i \in IPs : live'[i].ver >= live[i].ver
      OBVIOUS
    <2>1. applied' >= applied
      BY DEF IInv, TypeOK, Next, Reload, StoreEgress, BumpDesired, Signal, WaitApplied,
         WaitGaveUp, ReloaderWake, CurrentDesired, ReloaderSnapshot, WriteRules, KillHup,
         ReadRules, InstallDenyWait, InstallRules, EmitControl, MarkApplied
    <2>2. live' = live \/ live' = prxFile.map
      BY DEF Next, Reload, prxVars, StoreEgress, BumpDesired, Signal, WaitApplied,
         WaitGaveUp, ReloaderWake, CurrentDesired, ReloaderSnapshot, WriteRules, KillHup,
         ReadRules, InstallDenyWait, InstallRules, EmitControl, MarkApplied
    <2>3. Newer(prxFile.map, live) /\ Newer(live, live)
      <3>1. prxFile.map \in Map /\ liveWait \in Map /\ live \in Map
        BY DEF IInv, TypeOK, File
      <3>. QED  BY <3>1, NewerRefl, NewerTrans DEF IInv, Ordered
    <2>. QED  BY <2>1, <2>2, <2>3 DEF Newer
  <1>. QED  BY <1>1, Inductive, PTL DEF Spec, NoRollback

-----------------------------------------------------------------------------
(* The refinement.  A step maps to a store, an install or an ack of        *)
(* EgressPromise, or leaves its three variables alone.                     *)

\* The confirmed writes only change when a call is released by the echo.
LEMMA AckedKept ==
  ASSUME callIP' = callIP, callVer' = callVer, callPc \in [Callers -> CallStates],
         \A d \in Callers : callPc'[d] = "acked" <=> callPc[d] = "acked"
  PROVE  ackedSet' = ackedSet
  BY DEF ackedSet

\* Which step of the abstract specification each step is.
LEMMA StepImplements ==
  IInv /\ IInv' /\ [Next]_gateVars => [Promise!PromiseNext]_(Promise!promiseVars)
  <1>. SUFFICES ASSUME IInv, IInv', [Next]_gateVars
                PROVE  [Promise!PromiseNext]_(Promise!promiseVars)
    OBVIOUS
  <1>. USE DEF Promise!promiseVars
  <1>0. callPc \in [Callers -> CallStates] /\ callVer \in [Callers -> Nat]
        /\ callIP \in [Callers -> IPs \union {NoIP}]
    BY DEF IInv, TypeOK
  <1>1. ASSUME NEW c \in Callers, NEW ip \in IPs,
               NEW pol \in Policies \union {NoRules}, StoreEgress(c, ip, pol)
        PROVE  Promise!Store(ip)
    <2>1. storedVer' = [storedVer EXCEPT ![ip] = storedVer[ip] + 1]
      BY <1>1 DEF StoreEgress, storedVer, IInv, TypeOK, Map
    <2>2. liveVer' = liveVer
      BY <1>1 DEF StoreEgress, liveVer, prxVars
    <2>3. ackedSet' = ackedSet
      <3>1. \A d \in Callers : callPc'[d] = "acked" <=> callPc[d] = "acked"
        BY <1>0, <1>1 DEF StoreEgress
      <3>2. \A d \in Callers : callPc[d] = "acked"
              => callIP'[d] = callIP[d] /\ callVer'[d] = callVer[d]
        BY <1>0, <1>1 DEF StoreEgress
      <3>. QED  BY <3>1, <3>2 DEF ackedSet
    <2>. QED  BY <2>1, <2>2, <2>3 DEF Promise!Store
  <1>2. ASSUME NEW c \in Callers, WaitApplied(c)
        PROVE  \E i \in IPs : \E v \in 1..storedVer[i] : Promise!Ack(i, v)
    <2>1. callIP[c] \in IPs /\ callVer[c] \in 1..storedVer[callIP[c]]
      BY <1>0, <1>2 DEF WaitApplied, IInv, CallInv, TypeOK, Map, Entry, storedVer
    <2>2. liveVer[callIP[c]] >= callVer[c]
      <3>1. callGen[c] # 0 /\ callGen[c] <= applied
        BY <1>2 DEF WaitApplied, IInv, CallInv, TypeOK
      <3>. QED  BY <2>1, <3>1 DEF IInv, GenInv, Covers, liveVer
    <2>3. ackedSet' = ackedSet \union {<<callIP[c], callVer[c]>>}
      <3>1. callIP' = callIP /\ callVer' = callVer
        BY <1>2 DEF WaitApplied
      <3>2. \A d \in Callers : callPc'[d] = "acked" <=> (callPc[d] = "acked" \/ d = c)
        BY <1>0, <1>2 DEF WaitApplied
      <3>. QED  BY <3>1, <3>2 DEF ackedSet
    <2>4. storedVer' = storedVer /\ liveVer' = liveVer
      BY <1>2 DEF WaitApplied, storedVer, liveVer, prxVars
    <2>5. Promise!Ack(callIP[c], callVer[c])
      BY <2>2, <2>3, <2>4 DEF Promise!Ack, Promise!Confirmable
    <2>. QED  BY <2>1, <2>5
  <1>3. CASE InstallRules
    <2>1. storedVer' = storedVer
      BY <1>3 DEF InstallRules, storedVer
    <2>2. ackedSet' = ackedSet
      BY <1>3, <1>0, AckedKept DEF InstallRules, callVars
    <2>3. \A i \in IPs : /\ liveVer[i] \in Nat /\ liveVer'[i] \in Nat
                         /\ liveVer[i] <= liveVer'[i] /\ liveVer'[i] <= storedVer[i]
      <3>1. /\ egress \in Map /\ relSnap \in Map /\ file.map \in Map /\ prxFile.map \in Map
            /\ liveWait \in Map /\ live \in Map
        BY DEF IInv, TypeOK, File
      <3>2. Newer(prxFile.map, live) /\ Newer(egress, prxFile.map)
        BY <3>1, NewerTrans DEF IInv, Ordered
      <3>3. live' = prxFile.map
        BY <1>3 DEF InstallRules
      <3>. QED  BY <3>1, <3>2, <3>3, VerNat DEF Newer, liveVer, storedVer
    <2>4. liveVer' \in [IPs -> Nat]
      BY <2>3 DEF liveVer
    <2>. QED  BY <2>1, <2>2, <2>3, <2>4 DEF Promise!Install, Promise!PromiseNext
  <1>4. ASSUME NEW c \in Callers, BumpDesired(c) \/ Signal(c) \/ WaitGaveUp(c)
        PROVE  UNCHANGED <<storedVer, liveVer, ackedSet>>
    <2>1. storedVer' = storedVer /\ liveVer' = liveVer
      BY <1>4 DEF BumpDesired, Signal, WaitGaveUp, storedVer, liveVer, prxVars
    <2>2. ackedSet' = ackedSet
      BY <1>4, <1>0, AckedKept DEF BumpDesired, Signal, WaitGaveUp
    <2>. QED  BY <2>1, <2>2
  <1>5. CASE \/ ReloaderWake \/ CurrentDesired \/ ReloaderSnapshot \/ WriteRules \/ KillHup
             \/ ReadRules \/ InstallDenyWait \/ EmitControl \/ MarkApplied
             \/ UNCHANGED gateVars
    <2>1. egress' = egress /\ live' = live /\ callPc' = callPc /\ callIP' = callIP
          /\ callVer' = callVer
      BY <1>5 DEF ReloaderWake, CurrentDesired, ReloaderSnapshot, WriteRules, KillHup,
         ReadRules, InstallDenyWait, EmitControl, MarkApplied, gateVars, callVars, prxVars
    <2>2. storedVer' = storedVer /\ liveVer' = liveVer
      BY <2>1 DEF storedVer, liveVer
    <2>3. ackedSet' = ackedSet
      BY <2>1, <1>0, AckedKept
    <2>. QED  BY <2>2, <2>3
  <1>. QED
    BY <1>1, <1>2, <1>3, <1>4, <1>5 DEF Next, Reload, Promise!PromiseNext

\* The reload pipeline implements the policy store createPacked relies on.
THEOREM Refinement == Spec => ImplementsPromise
  <1>1. GateInit => Promise!PromiseInit
    <2>. SUFFICES ASSUME GateInit PROVE Promise!PromiseInit
      OBVIOUS
    <2>1. storedVer = [i \in IPs |-> 0] /\ liveVer = [i \in IPs |-> 0]
      BY DEF GateInit, EmptyMap, storedVer, liveVer
    <2>2. ackedSet = {}
      BY DEF GateInit, ackedSet
    <2>. QED  BY <2>1, <2>2 DEF Promise!PromiseInit
  <1>. QED
    BY <1>1, StepImplements, Inductive, PTL DEF Spec, ImplementsPromise, Promise!Spec

-----------------------------------------------------------------------------

\* A nonempty set of numbers has a least element.
LEMMA LeastNat ==
  ASSUME NEW T, T \subseteq Nat, T # {}
  PROVE  \E m \in T : \A x \in T : m <= x
  <1>1. PICK m \in T : \A x \in T : <<x, m>> \notin OpToRel(<, Nat)
    BY NatLessThanWellFounded, WFMin
  <1>2. \A x \in T : ~(x < m)
    BY <1>1 DEF OpToRel
  <1>. QED  BY <1>2

\* The text from position s on can be cut into one piece for each of the pattern
\* elements p .. K: any piece for an element of W, else one item, a pair in F.
IsCut(cut, K, N, W, F, p, s) ==
  /\ cut \in [p .. K + 1 -> 0 .. N]
  /\ cut[p] = s - 1 /\ cut[K + 1] = N
  /\ \A i \in p .. K :
       /\ i \in W => cut[i] <= cut[i + 1]
       /\ i \notin W => cut[i + 1] = cut[i] + 1 /\ <<i, cut[i + 1]>> \in F

\* Some cut does.
Cuts(K, N, W, F, p, s) == \E cut : IsCut(cut, K, N, W, F, p, s)

\* Past the pattern's end nothing of the text may be left.
LEMMA CutsEnd ==
  ASSUME NEW K \in Nat, NEW N \in Nat, NEW W, NEW F, NEW s \in 1 .. N + 1
  PROVE  Cuts(K, N, W, F, K + 1, s) <=> s = N + 1
  <1>1. ASSUME s = N + 1
        PROVE  Cuts(K, N, W, F, K + 1, s)
    <2>1. IsCut([i \in K + 1 .. K + 1 |-> N], K, N, W, F, K + 1, s)
      BY <1>1 DEF IsCut
    <2>. QED  BY <2>1 DEF Cuts
  <1>2. ASSUME Cuts(K, N, W, F, K + 1, s)
        PROVE  s = N + 1
    BY <1>2 DEF Cuts, IsCut
  <1>. QED  BY <1>1, <1>2

\* A wildcard takes any piece of the text.
LEMMA CutsWild ==
  ASSUME NEW K \in Nat, NEW N \in Nat, NEW W, NEW F, NEW p \in 1 .. K, NEW s \in 1 .. N + 1,
         p \in W
  PROVE  Cuts(K, N, W, F, p, s) <=> \E j \in s .. N + 1 : Cuts(K, N, W, F, p + 1, j)
  <1>1. ASSUME Cuts(K, N, W, F, p, s)
        PROVE  \E j \in s .. N + 1 : Cuts(K, N, W, F, p + 1, j)
    <2>1. PICK cut : IsCut(cut, K, N, W, F, p, s)
      BY <1>1 DEF Cuts
    <2>. DEFINE d == [i \in p + 1 .. K + 1 |-> cut[i]]
    <2>2. cut[p + 1] \in s - 1 .. N
      <3>1. p \in p .. K + 1 /\ p + 1 \in p .. K + 1 /\ p \in p .. K
        OBVIOUS
      <3>2. cut[p] \in 0 .. N /\ cut[p + 1] \in 0 .. N /\ cut[p] = s - 1 /\ cut[p] <= cut[p + 1]
        BY <2>1, <3>1 DEF IsCut
      <3>. QED  BY <3>2
    <2>3. d \in [p + 1 .. K + 1 -> 0 .. N]
      BY <2>1 DEF IsCut
    <2>4. d[p + 1] = cut[p + 1] /\ d[K + 1] = N
      BY <2>1 DEF IsCut
    <2>5. \A i \in p + 1 .. K : d[i] = cut[i] /\ d[i + 1] = cut[i + 1]
      OBVIOUS
    <2>6. \A i \in p + 1 .. K :
                  /\ i \in W => d[i] <= d[i + 1]
                  /\ i \notin W => d[i + 1] = d[i] + 1 /\ <<i, d[i + 1]>> \in F
      BY <2>1, <2>5 DEF IsCut
    <2>. HIDE DEF d
    <2>7. Cuts(K, N, W, F, p + 1, cut[p + 1] + 1)
      BY <2>2, <2>3, <2>4, <2>6 DEF Cuts, IsCut
    <2>. QED  BY <2>2, <2>7
  <1>2. ASSUME NEW j \in s .. N + 1, Cuts(K, N, W, F, p + 1, j)
        PROVE  Cuts(K, N, W, F, p, s)
    <2>1. PICK cut : IsCut(cut, K, N, W, F, p + 1, j)
      BY <1>2 DEF Cuts
    <2>. DEFINE d == [i \in p .. K + 1 |-> IF i = p THEN s - 1 ELSE cut[i]]
    <2>3. d \in [p .. K + 1 -> 0 .. N]
      BY <2>1 DEF IsCut
    <2>4. d[p] = s - 1 /\ d[p + 1] = j - 1 /\ d[K + 1] = N
      BY <2>1 DEF IsCut
    <2>5. \A i \in p + 1 .. K : d[i] = cut[i] /\ d[i + 1] = cut[i + 1]
      OBVIOUS
    <2>. HIDE DEF d
    <2>6. \A i \in p .. K :
                  /\ i \in W => d[i] <= d[i + 1]
                  /\ i \notin W => d[i + 1] = d[i] + 1 /\ <<i, d[i + 1]>> \in F
      <3>1. d[p] <= d[p + 1]
        BY <2>4
      <3>2. \A i \in p .. K : i = p \/ i \in p + 1 .. K
        OBVIOUS
      <3>. QED  BY <2>1, <2>5, <3>1, <3>2 DEF IsCut
    <2>. QED  BY <2>3, <2>4, <2>6 DEF Cuts, IsCut
  <1>. QED  BY <1>1, <1>2

\* Any other element takes the next item, which must fit it.
LEMMA CutsItem ==
  ASSUME NEW K \in Nat, NEW N \in Nat, NEW W, NEW F, NEW p \in 1 .. K, NEW s \in 1 .. N + 1,
         p \notin W
  PROVE  Cuts(K, N, W, F, p, s) <=> s <= N /\ <<p, s>> \in F /\ Cuts(K, N, W, F, p + 1, s + 1)
  <1>1. ASSUME Cuts(K, N, W, F, p, s)
        PROVE  s <= N /\ <<p, s>> \in F /\ Cuts(K, N, W, F, p + 1, s + 1)
    <2>1. PICK cut : IsCut(cut, K, N, W, F, p, s)
      BY <1>1 DEF Cuts
    <2>. DEFINE d == [i \in p + 1 .. K + 1 |-> cut[i]]
    <2>2. cut[p + 1] = s /\ s <= N /\ <<p, s>> \in F
      <3>1. p \in p .. K + 1 /\ p + 1 \in p .. K + 1 /\ p \in p .. K
        OBVIOUS
      <3>2. /\ cut[p] \in 0 .. N /\ cut[p + 1] \in 0 .. N /\ cut[p] = s - 1
            /\ cut[p + 1] = cut[p] + 1 /\ <<p, cut[p + 1]>> \in F
        BY <2>1, <3>1 DEF IsCut
      <3>. QED  BY <3>2
    <2>3. d \in [p + 1 .. K + 1 -> 0 .. N]
      BY <2>1 DEF IsCut
    <2>4. d[p + 1] = s /\ d[K + 1] = N
      BY <2>1, <2>2 DEF IsCut
    <2>5. \A i \in p + 1 .. K : d[i] = cut[i] /\ d[i + 1] = cut[i + 1]
      OBVIOUS
    <2>6. \A i \in p + 1 .. K :
                  /\ i \in W => d[i] <= d[i + 1]
                  /\ i \notin W => d[i + 1] = d[i] + 1 /\ <<i, d[i + 1]>> \in F
      BY <2>1, <2>5 DEF IsCut
    <2>. HIDE DEF d
    <2>7. Cuts(K, N, W, F, p + 1, s + 1)
      BY <2>2, <2>3, <2>4, <2>6 DEF Cuts, IsCut
    <2>. QED  BY <2>2, <2>7
  <1>2. ASSUME s <= N, <<p, s>> \in F, Cuts(K, N, W, F, p + 1, s + 1)
        PROVE  Cuts(K, N, W, F, p, s)
    <2>1. PICK cut : IsCut(cut, K, N, W, F, p + 1, s + 1)
      BY <1>2 DEF Cuts
    <2>. DEFINE d == [i \in p .. K + 1 |-> IF i = p THEN s - 1 ELSE cut[i]]
    <2>3. d \in [p .. K + 1 -> 0 .. N]
      BY <2>1 DEF IsCut
    <2>4. d[p] = s - 1 /\ d[p + 1] = s /\ d[K + 1] = N
      BY <2>1 DEF IsCut
    <2>5. \A i \in p + 1 .. K : d[i] = cut[i] /\ d[i + 1] = cut[i + 1]
      OBVIOUS
    <2>. HIDE DEF d
    <2>6. \A i \in p .. K :
                  /\ i \in W => d[i] <= d[i + 1]
                  /\ i \notin W => d[i + 1] = d[i] + 1 /\ <<i, d[i + 1]>> \in F
      <3>1. d[p + 1] = d[p] + 1 /\ <<p, d[p + 1]>> \in F
        BY <2>4, <1>2
      <3>2. \A i \in p .. K : i = p \/ i \in p + 1 .. K
        OBVIOUS
      <3>. QED  BY <2>1, <2>5, <3>1, <3>2 DEF IsCut
    <2>. QED  BY <2>3, <2>4, <2>6 DEF Cuts, IsCut
  <1>. QED  BY <1>1, <1>2

\* Induction on a rank: a function that is right about an element when it is
\* right about all those of smaller rank is right about every element.
RightBelow(S, rank, M, g, x) == \A y \in S : rank[y] < rank[x] => g[y] = (y \in M)
\* ... at every element.
RightStep(S, rank, M, g) == \A x \in S : RightBelow(S, rank, M, g, x) => g[x] = (x \in M)

\* Induction on a rank, from the least rank at which the function is wrong.
LEMMA RankInduction ==
  ASSUME NEW S, NEW rank \in [S -> Nat], NEW M, NEW g, RightStep(S, rank, M, g)
  PROVE  \A x \in S : g[x] = (x \in M)
  <1>. DEFINE T == {n \in Nat : \E x \in S : rank[x] = n /\ g[x] # (x \in M)}
  <1>1. T = {}
    <2>. SUFFICES ASSUME T # {} PROVE FALSE
      OBVIOUS
    <2>1. PICK n \in T : \A m \in T : n <= m
      BY LeastNat
    <2>2. PICK x \in S : rank[x] = n /\ g[x] # (x \in M)
      BY <2>1
    <2>3. RightBelow(S, rank, M, g, x)
      BY <2>1, <2>2 DEF RightBelow
    <2>. QED  BY <2>2, <2>3 DEF RightStep
  <1>. QED  BY <1>1

\* The wildcards of a path pattern, and the segments its other elements fit.
DeepWild(pat) == {i \in 1 .. Len(pat) : pat[i] = <<"*", "*">>}
\* The pairs of a pattern element and a segment it fits.
SegFits(pat, seg) ==
  {y \in (1 .. Len(pat)) \X (1 .. Len(seg)) : matchSegment(pat[y[1]], seg[y[2]])}
\* The pairs of positions the matchers recurse on.
Positions(K, N) == (1 .. K + 1) \X (1 .. N + 1)

\* A path matches a pattern exactly when it can be cut to it.
LEMMA SegmentsCut ==
  ASSUME NEW pat, NEW seg, Len(pat) \in Nat, Len(seg) \in Nat
  PROVE  matchSegments(pat, seg)
           <=> Cuts(Len(pat), Len(seg), DeepWild(pat), SegFits(pat, seg), 1, 1)
  <1>. DEFINE K == Len(pat)
              N == Len(seg)
              C(p, s) == Cuts(K, N, DeepWild(pat), SegFits(pat, seg), p, s)
              S == Positions(K, N)
              M == {x \in S : C(x[1], x[2])}
              rank == [x \in S |-> K + 1 - x[1]]
              B(f, p, s) == IF p > K THEN s > N
                     ELSE IF pat[p] = <<"*", "*">>
                       THEN \E j \in s .. N + 1 : f[<<p + 1, j>>]
                       ELSE /\ s <= N
                            /\ matchSegment(pat[p], seg[s])
                            /\ f[<<p + 1, s + 1>>]
              R(f) == f = [x \in S |-> B(f, x[1], x[2])]
              g == CHOOSE f : R(f)
              h == [x \in S |-> x \in M]
  <1>1. matchSegments(pat, seg) = g[<<1, 1>>]
    BY DEF matchSegments, Positions
  <1>r. rank \in [S -> Nat]
    BY DEF Positions
  <1>m. \A p \in 1 .. K + 1, s \in 1 .. N + 1 :
           <<p, s>> \in S /\ (<<p, s>> \in M <=> C(p, s)) /\ rank[<<p, s>>] = K + 1 - p
    BY DEF Positions
  <1>e. \A s \in 1 .. N + 1 : C(K + 1, s) <=> s = N + 1
    BY CutsEnd
  <1>w. \A p \in 1 .. K, s \in 1 .. N + 1 :
           pat[p] = <<"*", "*">> => (C(p, s) <=> \E j \in s .. N + 1 : C(p + 1, j))
    BY CutsWild DEF DeepWild
  <1>i. \A p \in 1 .. K, s \in 1 .. N + 1 :
           pat[p] # <<"*", "*">> =>
             (C(p, s) <=> s <= N /\ matchSegment(pat[p], seg[s]) /\ C(p + 1, s + 1))
    <2>. TAKE p \in 1 .. K, s \in 1 .. N + 1
    <2>. HAVE pat[p] # <<"*", "*">>
    <2>1. C(p, s) <=> s <= N /\ <<p, s>> \in SegFits(pat, seg) /\ C(p + 1, s + 1)
      BY CutsItem DEF DeepWild
    <2>2. s <= N => (<<p, s>> \in SegFits(pat, seg) <=> matchSegment(pat[p], seg[s]))
      BY DEF SegFits
    <2>. QED  BY <2>1, <2>2
  <1>. HIDE DEF M, rank, h, C, S
  <1>2. ASSUME NEW f, NEW p \in 1 .. K + 1, NEW s \in 1 .. N + 1,
               RightBelow(S, rank, M, f, <<p, s>>)
        PROVE  B(f, p, s) <=> (<<p, s>> \in M)
    <2>0. ASSUME p <= K, NEW j \in 1 .. N + 1
          PROVE  f[<<p + 1, j>>] <=> C(p + 1, j)
      <3>1. p + 1 \in 1 .. K + 1 /\ K + 1 - (p + 1) < K + 1 - p
        BY <2>0
      <3>2. /\ <<p + 1, j>> \in S /\ rank[<<p + 1, j>>] = K + 1 - (p + 1)
            /\ rank[<<p, s>>] = K + 1 - p
            /\ <<p + 1, j>> \in M <=> C(p + 1, j)
        BY <3>1, <1>m
      <3>3. f[<<p + 1, j>>] = (<<p + 1, j>> \in M)
        BY <1>2, <3>1, <3>2 DEF RightBelow
      <3>. QED  BY <3>2, <3>3
    <2>m. <<p, s>> \in M <=> C(p, s)
      BY <1>m
    <2>1. CASE p = K + 1
      BY <2>1, <2>m, <1>e
    <2>2. CASE p \in 1 .. K /\ pat[p] = <<"*", "*">>
      <3>1. \A j \in s .. N + 1 : f[<<p + 1, j>>] <=> C(p + 1, j)
        BY <2>0, <2>2
      <3>2. B(f, p, s) <=> \E j \in s .. N + 1 : f[<<p + 1, j>>]
        BY <2>2
      <3>3. C(p, s) <=> \E j \in s .. N + 1 : C(p + 1, j)
        BY <2>2, <1>w
      <3>. HIDE DEF B
      <3>. QED  BY <2>m, <3>1, <3>2, <3>3
    <2>3. CASE p \in 1 .. K /\ pat[p] # <<"*", "*">>
      <3>1. s <= N => (f[<<p + 1, s + 1>>] <=> C(p + 1, s + 1))
        BY <2>0, <2>3
      <3>. QED  BY <2>3, <2>m, <1>i, <3>1
    <2>. QED  BY <2>1, <2>2, <2>3
  <1>b. ASSUME NEW f, NEW p \in 1 .. K + 1, NEW s \in 1 .. N + 1
        PROVE  B(f, p, s) \in BOOLEAN
    <2>1. CASE p > K
      <3>1. B(f, p, s) = (s > N)
        BY <2>1
      <3>. HIDE DEF B
      <3>. QED  BY <3>1
    <2>2. CASE ~(p > K) /\ pat[p] = <<"*", "*">>
      <3>1. B(f, p, s) = (\E j \in s .. N + 1 : f[<<p + 1, j>>])
        BY <2>2
      <3>. HIDE DEF B
      <3>. QED  BY <3>1
    <2>3. CASE ~(p > K) /\ pat[p] # <<"*", "*">>
      <3>1. B(f, p, s) = (s <= N /\ matchSegment(pat[p], seg[s]) /\ f[<<p + 1, s + 1>>])
        BY <2>3
      <3>. HIDE DEF B
      <3>. QED  BY <3>1
    <2>. QED  BY <2>1, <2>2, <2>3
  <1>. HIDE DEF B
  <1>3. ASSUME NEW f, NEW x \in S, RightBelow(S, rank, M, f, x)
        PROVE  B(f, x[1], x[2]) = (x \in M)
    <2>1. x[1] \in 1 .. K + 1 /\ x[2] \in 1 .. N + 1 /\ x = <<x[1], x[2]>>
      BY DEF S, Positions
    <2>2. B(f, x[1], x[2]) <=> x \in M
      BY <1>2, <1>3, <2>1
    <2>. QED  BY <1>b, <2>1, <2>2
  <1>4. \A x \in S : h[x] = (x \in M)
    BY DEF h
  <1>5. R(h)
    <2>1. \A x \in S : B(h, x[1], x[2]) = (x \in M)
      BY <1>3, <1>4 DEF RightBelow
    <2>. QED  BY <2>1 DEF h
  <1>. HIDE DEF R
  <1>6. R(g)
    BY <1>5
  <1>. HIDE DEF g
  <1>7. \A x \in S : g[x] = B(g, x[1], x[2])
    BY <1>6 DEF R
  <1>8. \A x \in S : g[x] = (x \in M)
    <2>1. RightStep(S, rank, M, g)
      BY <1>3, <1>7 DEF RightStep
    <2>. QED  BY <1>r, <2>1, RankInduction
  <1>9. <<1, 1>> \in S /\ (<<1, 1>> \in M <=> C(1, 1))
    BY <1>m
  <1>10. g[<<1, 1>>] <=> C(1, 1)
    BY <1>8, <1>9
  <1>11. matchSegments(pat, seg) <=> C(1, 1)
    BY <1>1, <1>10
  <1>. QED  BY <1>11 DEF C

\* The n items from s on fit the n elements from p on.
RunFits(F, p, s, n) == \A k \in 0 .. n - 1 : <<p + k, s + k>> \in F

\* A run of elements that are no wildcards takes exactly as many items.
LEMMA CutsRun ==
  ASSUME NEW K \in Nat, NEW N \in Nat, NEW W, NEW F, NEW p \in 1 .. K + 1, NEW s \in 1 .. N + 1,
         NEW n \in 0 .. K + 1 - p, \A k \in p .. p + n - 1 : k \notin W
  PROVE  Cuts(K, N, W, F, p, s)
           <=> s + n <= N + 1 /\ RunFits(F, p, s, n) /\ Cuts(K, N, W, F, p + n, s + n)
  <1>. DEFINE C(q, t) == Cuts(K, N, W, F, q, t)
              E(m) == C(p, s) <=> s + m <= N + 1 /\ RunFits(F, p, s, m) /\ C(p + m, s + m)
              T == {m \in 0 .. n : ~E(m)}
  <1>1. E(0)
    BY DEF RunFits
  <1>2. ASSUME NEW m \in 1 .. n, E(m - 1)
        PROVE  E(m)
    <2>. DEFINE q == p + m - 1
                t == s + m - 1
    <2>1. q \in 1 .. K /\ q \notin W /\ p + (m - 1) = q /\ s + (m - 1) = t /\ p + m = q + 1 /\ s + m = t + 1
      OBVIOUS
    <2>2. t <= N + 1 => (C(q, t) <=> t <= N /\ <<q, t>> \in F /\ C(q + 1, t + 1))
      <3>. HAVE t <= N + 1
      <3>1. t \in 1 .. N + 1
        OBVIOUS
      <3>. HIDE DEF q, t
      <3>. QED  BY <2>1, <3>1, CutsItem
    <2>3. RunFits(F, p, s, m) <=> RunFits(F, p, s, m - 1) /\ <<q, t>> \in F
      <3>1. \A k \in 0 .. m - 1 : k \in 0 .. (m - 1) - 1 \/ k = m - 1
        OBVIOUS
      <3>2. m - 1 \in 0 .. m - 1 /\ \A k \in 0 .. (m - 1) - 1 : k \in 0 .. m - 1
        OBVIOUS
      <3>. HIDE DEF q, t
      <3>. QED  BY <2>1, <3>1, <3>2 DEF RunFits
    <2>4. C(p, s) <=> t <= N + 1 /\ RunFits(F, p, s, m - 1) /\ C(q, t)
      BY <1>2, <2>1
    <2>5. (t <= N) <=> (s + m <= N + 1)
      OBVIOUS
    <2>6. t <= N => t <= N + 1
      OBVIOUS
    <2>7. C(p + m, s + m) <=> C(q + 1, t + 1)
      BY <2>1
    <2>. HIDE DEF q, t, C
    <2>. QED  BY <2>2, <2>3, <2>4, <2>5, <2>6, <2>7
  <1>. HIDE DEF E
  <1>3. T = {}
    <2>. SUFFICES ASSUME T # {} PROVE FALSE
      OBVIOUS
    <2>0. T \subseteq Nat
      OBVIOUS
    <2>1. PICK m \in T : \A x \in T : m <= x
      <3>. HIDE DEF T
      <3>. QED  BY <2>0, LeastNat
    <2>2. m # 0
      BY <1>1, <2>1
    <2>3. m - 1 \in 0 .. n /\ m - 1 \notin T /\ m \in 1 .. n
      BY <2>1, <2>2
    <2>. QED  BY <1>2, <2>1, <2>3
  <1>4. E(n)
    BY <1>3
  <1>. QED  BY <1>4 DEF E

\* The wildcards of a text pattern, and the characters its other elements fit.
TextWild(pat) == {i \in 1 .. Len(pat) : pat[i] = "*"}
\* The pairs of a pattern character and a text character equal to it.
TextFits(pat, text) == {y \in (1 .. Len(pat)) \X (1 .. Len(text)) : pat[y[1]] = text[y[2]]}

\* SameRun compares a run of the pattern with the text.
LEMMA RunIsSame ==
  ASSUME NEW pat, NEW text, Len(pat) \in Nat, Len(text) \in Nat,
         NEW p \in 1 .. Len(pat) + 1, NEW s \in 1 .. Len(text) + 1, NEW n \in 0 .. Len(pat) + 1 - p
  PROVE  SameRun(pat, p, text, s, n)
           <=> s + n <= Len(text) + 1 /\ RunFits(TextFits(pat, text), p, s, n)
  <1>1. ASSUME s + n <= Len(text) + 1, NEW k \in 0 .. n - 1
        PROVE  <<p + k, s + k>> \in TextFits(pat, text) <=> pat[p + k] = text[s + k]
    <2>1. p + k \in 1 .. Len(pat) /\ s + k \in 1 .. Len(text)
      BY <1>1
    <2>. QED  BY <2>1 DEF TextFits
  <1>. QED  BY <1>1 DEF SameRun, RunFits

\* A host matches a pattern exactly when it can be cut to it.
LEMMA GlobCut ==
  ASSUME NEW pat, NEW text, Len(pat) \in Nat, Len(text) \in Nat
  PROVE  globMatch(pat, text)
           <=> Cuts(Len(pat), Len(text), TextWild(pat), TextFits(pat, text), 1, 1)
  <1>. DEFINE K == Len(pat)
              N == Len(text)
              W == TextWild(pat)
              F == TextFits(pat, text)
              C(p, s) == Cuts(K, N, W, F, p, s)
              S == Positions(K, N)
              M == {x \in S : C(x[1], x[2])}
              rank == [x \in S |-> K + 1 - x[1]]
              Stars(p) == {k \in p .. K : pat[k] = "*"}
              First(p) == CHOOSE k \in Stars(p) : \A m \in Stars(p) : k <= m
              Same(p, s, n) == SameRun(pat, p, text, s, n)
              B(f, p, s) == IF Stars(p) = {}
                 THEN /\ K - p = N - s
                      /\ Same(p, s, K + 1 - p)
                 ELSE /\ Same(p, s, First(p) - p)
                      /\ \E j \in s + First(p) - p .. N + 1 : f[<<First(p) + 1, j>>]
              R(f) == f = [x \in S |-> B(f, x[1], x[2])]
              g == CHOOSE f : R(f)
              h == [x \in S |-> x \in M]
  <1>1. globMatch(pat, text) = g[<<1, 1>>]
    BY DEF globMatch, Positions
  <1>r. rank \in [S -> Nat]
    BY DEF Positions
  <1>m. \A p \in 1 .. K + 1, s \in 1 .. N + 1 :
           <<p, s>> \in S /\ (<<p, s>> \in M <=> C(p, s)) /\ rank[<<p, s>>] = K + 1 - p
    BY DEF Positions
  <1>f. ASSUME NEW p \in 1 .. K + 1, Stars(p) # {}
        PROVE  /\ First(p) \in p .. K /\ pat[First(p)] = "*"
               /\ \A k \in p .. p + (First(p) - p) - 1 : k \notin W
    <2>1. PICK i \in Stars(p) : \A m \in Stars(p) : i <= m
      <3>1. Stars(p) \subseteq Nat
        OBVIOUS
      <3>. QED  BY <1>f, <3>1, LeastNat
    <2>2. First(p) \in Stars(p) /\ \A m \in Stars(p) : First(p) <= m
      BY <2>1
    <2>. HIDE DEF First
    <2>. QED  BY <2>2 DEF TextWild
  <1>e. ASSUME NEW p \in 1 .. K + 1, NEW s \in 1 .. N + 1, Stars(p) = {}
        PROVE  C(p, s) <=> K - p = N - s /\ Same(p, s, K + 1 - p)
    <2>1. K + 1 - p \in 0 .. K + 1 - p /\ p + (K + 1 - p) = K + 1
      OBVIOUS
    <2>2. \A k \in p .. p + (K + 1 - p) - 1 : k \notin W
      BY <1>e DEF TextWild
    <2>3. C(p, s) <=> s + (K + 1 - p) <= N + 1 /\ RunFits(F, p, s, K + 1 - p) /\ C(p + (K + 1 - p), s + (K + 1 - p))
      BY <2>1, <2>2, CutsRun
    <2>4. Same(p, s, K + 1 - p) <=> s + (K + 1 - p) <= N + 1 /\ RunFits(F, p, s, K + 1 - p)
      BY <2>1, RunIsSame
    <2>5. s + (K + 1 - p) <= N + 1 => (C(K + 1, s + (K + 1 - p)) <=> s + (K + 1 - p) = N + 1)
      <3>. HAVE s + (K + 1 - p) <= N + 1
      <3>1. s + (K + 1 - p) \in 1 .. N + 1
        OBVIOUS
      <3>. QED  BY <3>1, CutsEnd
    <2>6. (s + (K + 1 - p) = N + 1) <=> (K - p = N - s)
      OBVIOUS
    <2>. HIDE DEF C, Same, K, N, W, F
    <2>. QED  BY <2>1, <2>3, <2>4, <2>5, <2>6
  <1>s. ASSUME NEW p \in 1 .. K + 1, NEW s \in 1 .. N + 1, NEW i \in p .. K, pat[i] = "*",
               \A k \in p .. p + (i - p) - 1 : k \notin W
        PROVE  C(p, s) <=> Same(p, s, i - p) /\ \E j \in s + i - p .. N + 1 : C(i + 1, j)
    <2>1. i - p \in 0 .. K + 1 - p /\ p + (i - p) = i
      OBVIOUS
    <2>3. C(p, s) <=> s + (i - p) <= N + 1 /\ RunFits(F, p, s, i - p) /\ C(p + (i - p), s + (i - p))
      BY <1>s, <2>1, CutsRun
    <2>4. Same(p, s, i - p) <=> s + (i - p) <= N + 1 /\ RunFits(F, p, s, i - p)
      BY <2>1, RunIsSame
    <2>5. s + (i - p) <= N + 1 => (C(i, s + (i - p)) <=> \E j \in s + (i - p) .. N + 1 : C(i + 1, j))
      <3>. HAVE s + (i - p) <= N + 1
      <3>1. s + (i - p) \in 1 .. N + 1 /\ i \in 1 .. K
        OBVIOUS
      <3>2. i \in W
        BY <1>s, <3>1 DEF TextWild
      <3>. QED  BY <3>1, <3>2, CutsWild
    <2>6. s + (i - p) = s + i - p
      OBVIOUS
    <2>. HIDE DEF C, Same, K, N, W, F
    <2>. QED  BY <2>1, <2>3, <2>4, <2>5, <2>6
  <1>. HIDE DEF M, rank, h, C, S, Same, First
  <1>2. ASSUME NEW f, NEW p \in 1 .. K + 1, NEW s \in 1 .. N + 1,
               RightBelow(S, rank, M, f, <<p, s>>)
        PROVE  (B(f, p, s) <=> <<p, s>> \in M) /\ B(f, p, s) \in BOOLEAN
    <2>m. <<p, s>> \in M <=> C(p, s)
      BY <1>m
    <2>1. CASE Stars(p) = {}
      <3>1. B(f, p, s) = (K - p = N - s /\ Same(p, s, K + 1 - p))
        BY <2>1
      <3>2. C(p, s) <=> K - p = N - s /\ Same(p, s, K + 1 - p)
        BY <2>1, <1>e
      <3>. HIDE DEF B
      <3>. QED  BY <3>1, <3>2, <2>m
    <2>2. CASE Stars(p) # {}
      <3>. DEFINE i == First(p)
      <3>1. /\ i \in p .. K /\ pat[i] = "*"
            /\ \A k \in p .. p + (i - p) - 1 : k \notin W
        BY <1>f, <2>2
      <3>2. B(f, p, s) = (Same(p, s, i - p) /\ \E j \in s + i - p .. N + 1 : f[<<i + 1, j>>])
        BY <2>2
      <3>. HIDE DEF i, B
      <3>3. C(p, s) <=> Same(p, s, i - p) /\ \E j \in s + i - p .. N + 1 : C(i + 1, j)
        BY <3>1, <1>s
      <3>4. ASSUME NEW j \in s + i - p .. N + 1
            PROVE  f[<<i + 1, j>>] <=> C(i + 1, j)
        <4>1. i + 1 \in 1 .. K + 1 /\ j \in 1 .. N + 1 /\ K + 1 - (i + 1) < K + 1 - p
          BY <3>1
        <4>2. /\ <<i + 1, j>> \in S /\ rank[<<i + 1, j>>] = K + 1 - (i + 1)
              /\ rank[<<p, s>>] = K + 1 - p
              /\ <<i + 1, j>> \in M <=> C(i + 1, j)
          BY <4>1, <1>m
        <4>3. f[<<i + 1, j>>] = (<<i + 1, j>> \in M)
          BY <1>2, <4>1, <4>2 DEF RightBelow
        <4>. QED  BY <4>2, <4>3
      <3>. QED  BY <3>2, <3>3, <3>4, <2>m
    <2>. QED  BY <2>1, <2>2
  <1>. HIDE DEF B
  <1>3. ASSUME NEW f, NEW x \in S, RightBelow(S, rank, M, f, x)
        PROVE  B(f, x[1], x[2]) = (x \in M)
    <2>1. x[1] \in 1 .. K + 1 /\ x[2] \in 1 .. N + 1 /\ x = <<x[1], x[2]>>
      BY DEF S, Positions
    <2>. QED  BY <1>2, <1>3, <2>1
  <1>4. \A x \in S : h[x] = (x \in M)
    BY DEF h
  <1>5. R(h)
    <2>1. \A x \in S : B(h, x[1], x[2]) = (x \in M)
      BY <1>3, <1>4 DEF RightBelow
    <2>. QED  BY <2>1 DEF h
  <1>. HIDE DEF R
  <1>6. R(g)
    BY <1>5
  <1>. HIDE DEF g
  <1>7. \A x \in S : g[x] = B(g, x[1], x[2])
    BY <1>6 DEF R
  <1>8. \A x \in S : g[x] = (x \in M)
    <2>1. RightStep(S, rank, M, g)
      BY <1>3, <1>7 DEF RightStep
    <2>. QED  BY <1>r, <2>1, RankInduction
  <1>9. <<1, 1>> \in S /\ (<<1, 1>> \in M <=> C(1, 1))
    BY <1>m
  <1>10. g[<<1, 1>>] <=> C(1, 1)
    BY <1>8, <1>9
  <1>11. globMatch(pat, text) <=> C(1, 1)
    BY <1>1, <1>10
  <1>. QED  BY <1>11 DEF C

\* X and Y have the same elements of rank below n.
AgreeBelow(S, rank, X, Y, n) == \A y \in S : rank[y] < n => (y \in X <=> y \in Y)

\* Whether Step[X] has x depends only on the elements of X of smaller rank.
StepLocal(S, rank, Step) ==
  /\ rank \in [S -> Nat] /\ Step \in [SUBSET S -> SUBSET S]
  /\ \A X, Y \in SUBSET S, x \in S :
       AgreeBelow(S, rank, X, Y, rank[x]) => (x \in Step[X] <=> x \in Step[Y])

\* The recursive definition given by Step has a solution.
HasFixedPoint(S, Step) == \E M \in SUBSET S : Step[M] = M

\* Recursion on a rank: a step that looks only at smaller ranks has a fixed point.
LEMMA RankRecursion ==
  ASSUME NEW S, NEW rank, NEW Step, StepLocal(S, rank, Step)
  PROVE  HasFixedPoint(S, Step)
  <1>. rank \in [S -> Nat] /\ Step \in [SUBSET S -> SUBSET S]
    BY DEF StepLocal
  <1>. DEFINE Good(n, X) == X \in SUBSET S /\ AgreeBelow(S, rank, X, Step[X], n)
  <1>1. \A n \in Nat : \E X : Good(n, X)
    <2>. DEFINE T == {n \in Nat : ~\E X : Good(n, X)}
    <2>1. Good(0, {})
      BY DEF AgreeBelow
    <2>2. ASSUME NEW n \in Nat, NEW X, Good(n, X)
          PROVE  Good(n + 1, Step[X])
      <3>1. Step[X] \in SUBSET S
        BY <2>2
      <3>2. ASSUME NEW y \in S, rank[y] < n + 1
            PROVE  y \in Step[X] <=> y \in Step[Step[X]]
        <4>1. AgreeBelow(S, rank, X, Step[X], rank[y])
          BY <2>2, <3>2 DEF AgreeBelow
        <4>. QED  BY <2>2, <3>1, <4>1 DEF StepLocal
      <3>. QED  BY <3>1, <3>2 DEF AgreeBelow
    <2>. HIDE DEF Good
    <2>3. T = {}
      <3>. SUFFICES ASSUME T # {} PROVE FALSE
        OBVIOUS
      <3>1. T \subseteq Nat
        OBVIOUS
      <3>2. PICK n \in T : \A x \in T : n <= x
        BY <3>1, LeastNat
      <3>3. n # 0
        BY <2>1, <3>2
      <3>4. n - 1 \in Nat /\ n - 1 \notin T /\ (n - 1) + 1 = n
        BY <3>2, <3>3
      <3>5. PICK X : Good(n - 1, X)
        BY <3>4
      <3>6. Good(n, Step[X])
        BY <2>2, <3>4, <3>5
      <3>. QED  BY <3>2, <3>6
    <2>. QED  BY <2>3
  <1>2. ASSUME NEW n \in Nat, NEW m \in Nat, n <= m, NEW X, NEW Y, Good(n, X), Good(m, Y)
        PROVE  AgreeBelow(S, rank, X, Y, n)
    <2>. DEFINE T == {k \in Nat : \E y \in S : rank[y] = k /\ k < n /\ ~(y \in X <=> y \in Y)}
    <2>1. T = {}
      <3>. SUFFICES ASSUME T # {} PROVE FALSE
        OBVIOUS
      <3>1. T \subseteq Nat
        OBVIOUS
      <3>2. PICK k \in T : \A x \in T : k <= x
        BY <3>1, LeastNat
      <3>3. PICK y \in S : rank[y] = k /\ k < n /\ ~(y \in X <=> y \in Y)
        BY <3>2
      <3>4. AgreeBelow(S, rank, X, Y, rank[y])
        BY <3>2, <3>3 DEF AgreeBelow
      <3>5. y \in Step[X] <=> y \in Step[Y]
        BY <1>2, <3>4 DEF StepLocal
      <3>6. (y \in X <=> y \in Step[X]) /\ (y \in Y <=> y \in Step[Y])
        BY <1>2, <3>3 DEF AgreeBelow
      <3>. QED  BY <3>3, <3>5, <3>6
    <2>. QED  BY <2>1 DEF AgreeBelow
  <1>. DEFINE A(n) == CHOOSE X : Good(n, X)
              M == {x \in S : x \in A(rank[x] + 1)}
  <1>3. \A n \in Nat : Good(n, A(n))
    BY <1>1
  <1>. HIDE DEF A
  <1>4. ASSUME NEW n \in Nat
        PROVE  AgreeBelow(S, rank, M, A(n), n)
    <2>. SUFFICES ASSUME NEW y \in S, rank[y] < n
                  PROVE  y \in A(rank[y] + 1) <=> y \in A(n)
      BY DEF AgreeBelow
    <2>1. rank[y] \in Nat /\ rank[y] + 1 \in Nat /\ rank[y] + 1 <= n /\ rank[y] < rank[y] + 1
      OBVIOUS
    <2>2. Good(rank[y] + 1, A(rank[y] + 1)) /\ Good(n, A(n))
      BY <1>3, <2>1
    <2>3. AgreeBelow(S, rank, A(rank[y] + 1), A(n), rank[y] + 1)
      <3>. HIDE DEF Good
      <3>. QED  BY <1>2, <2>1, <2>2
    <2>. QED  BY <2>1, <2>3 DEF AgreeBelow
  <1>5. M \in SUBSET S
    OBVIOUS
  <1>6. ASSUME NEW x \in S
        PROVE  x \in Step[M] <=> x \in M
    <2>. DEFINE n == rank[x] + 1
    <2>1. n \in Nat /\ rank[x] \in Nat /\ rank[x] < n
      OBVIOUS
    <2>2. Good(n, A(n)) /\ AgreeBelow(S, rank, M, A(n), n)
      BY <1>3, <1>4, <2>1
    <2>3. AgreeBelow(S, rank, M, A(n), rank[x])
      BY <2>1, <2>2 DEF AgreeBelow
    <2>4. A(n) \in SUBSET S /\ AgreeBelow(S, rank, A(n), Step[A(n)], n)
      BY <2>2
    <2>5. x \in Step[M] <=> x \in Step[A(n)]
      <3>. HIDE DEF M, n
      <3>. QED  BY <1>5, <2>3, <2>4 DEF StepLocal
    <2>6. x \in A(n) <=> x \in Step[A(n)]
      BY <2>1, <2>4 DEF AgreeBelow
    <2>. QED  BY <2>5, <2>6
  <1>. HIDE DEF M
  <1>7. Step[M] \in SUBSET S
    BY <1>5
  <1>8. Step[M] = M
    BY <1>5, <1>6, <1>7
  <1>. QED  BY <1>5, <1>8 DEF HasFixedPoint

\* Nothing is left of the text: what is left of the pattern must be wildcards.
LEMMA CutsNothing ==
  ASSUME NEW K \in Nat, NEW N \in Nat, NEW W, NEW F, NEW p \in 1 .. K + 1
  PROVE  Cuts(K, N, W, F, p, N + 1) <=> \A k \in p .. K : k \in W
  <1>. DEFINE C(q) == Cuts(K, N, W, F, q, N + 1)
              E(q) == C(q) <=> \A k \in q .. K : k \in W
              T == {n \in Nat : n <= K /\ ~E(K + 1 - n)}
  <1>0. N + 1 \in 1 .. N + 1
    OBVIOUS
  <1>1. E(K + 1)
    BY <1>0, CutsEnd
  <1>2. ASSUME NEW q \in 1 .. K, E(q + 1)
        PROVE  E(q)
    <2>1. CASE q \in W
      <3>1. C(q) <=> \E j \in N + 1 .. N + 1 : Cuts(K, N, W, F, q + 1, j)
        BY <1>0, <2>1, CutsWild
      <3>2. C(q) <=> C(q + 1)
        BY <3>1
      <3>3. \A k \in q .. K : k = q \/ k \in q + 1 .. K
        OBVIOUS
      <3>. HIDE DEF C
      <3>. QED  BY <1>2, <2>1, <3>2, <3>3
    <2>2. CASE q \notin W
      <3>0. C(q) <=> N + 1 <= N /\ <<q, N + 1>> \in F /\ Cuts(K, N, W, F, q + 1, N + 1 + 1)
        BY <1>0, <2>2, CutsItem
      <3>1. ~C(q)
        BY <3>0
      <3>. QED  BY <2>2, <3>1
    <2>. QED  BY <2>1, <2>2
  <1>. HIDE DEF E
  <1>3. T = {}
    <2>. SUFFICES ASSUME T # {} PROVE FALSE
      OBVIOUS
    <2>0. T \subseteq Nat
      OBVIOUS
    <2>1. PICK n \in T : \A x \in T : n <= x
      BY <2>0, LeastNat
    <2>2. n # 0
      BY <1>1, <2>1
    <2>3. n - 1 \in Nat /\ n - 1 \notin T /\ n - 1 <= K /\ K + 1 - n \in 1 .. K
      BY <2>1, <2>2
    <2>4. E(K + 1 - (n - 1))
      BY <2>3
    <2>5. K + 1 - (n - 1) = (K + 1 - n) + 1
      BY <2>3
    <2>. QED  BY <1>2, <2>1, <2>3, <2>4, <2>5
  <1>4. K + 1 - p \in Nat /\ K + 1 - p <= K /\ K + 1 - (K + 1 - p) = p
    OBVIOUS
  <1>5. E(p)
    BY <1>3, <1>4
  <1>. QED  BY <1>5 DEF E

\* What the walk says in a state: the rest of the segment can be cut to the rest
\* of the pattern, or to what follows the last "*" from a later position on.
WalkMeans(pat, seg, p, s, star, matched) ==
  LET C(q, t) == Cuts(Len(pat), Len(seg), TextWild(pat), TextFits(pat, seg), q, t)
  IN  C(p, s) \/ (star # 0 /\ \E j \in matched + 1 .. Len(seg) + 1 : C(star + 1, j))

\* Since the last "*" the walk took one item per element.
WalkInv(pat, p, s, star, matched) ==
  star # 0 => /\ s = matched + (p - star - 1) /\ matched >= 1
              /\ \A k \in star + 1 .. p - 1 : k \notin TextWild(pat)

\* One turn of the walk, calling f for the next.
WalkTurn(f, pat, seg, p, s, star, matched) ==
  IF s > Len(seg)
    THEN \A k \in p .. Len(pat) : pat[k] = "*"
    ELSE \/ /\ p <= Len(pat) /\ pat[p] = "*"
            /\ f[<<p + 1, s, p, s>>]
         \/ /\ p <= Len(pat) /\ pat[p] # "*" /\ pat[p] = seg[s]
            /\ f[<<p + 1, s + 1, star, matched>>]
         \/ /\ p > Len(pat) \/ (pat[p] # "*" /\ pat[p] # seg[s])
            /\ star # 0
            /\ f[<<star + 1, matched + 1, star, matched + 1>>]

\* The turns left: first by where the last star ends, then by the pattern.
WalkRank(K, N) == [x \in (1 .. K + 1) \X (1 .. N + 1) \X (0 .. K) \X (0 .. N + 1) |->
                     (N + 1 - x[4]) * (K + 2) + (K + 1 - x[1])]

\* A smaller first component outweighs any second one below k.
LEMMA Lexicographic ==
  ASSUME NEW k \in Nat, NEW a \in Nat, NEW b \in Nat, a < b
  PROVE  a * k \in Nat /\ b * k \in Nat /\ a * k + k <= b * k
  <1>1. PICK d \in Nat : b = a + 1 + d
    <2>1. b - a - 1 \in Nat /\ b = a + 1 + (b - a - 1)
      OBVIOUS
    <2>. QED  BY <2>1
  <1>2. b * k = a * k + k + d * k
    BY <1>1
  <1>3. d * k \in Nat /\ a * k \in Nat /\ b * k \in Nat
    OBVIOUS
  <1>. QED  BY <1>2, <1>3

\* Every turn is the last or leads to a state of the walk with fewer turns left.
LEMMA WalkNext ==
  ASSUME NEW K \in Nat, NEW N \in Nat,
         NEW p \in 1 .. K + 1, NEW s \in 1 .. N, NEW star \in 0 .. K, NEW matched \in 0 .. N + 1,
         star < p, matched <= s
  PROVE  LET x == <<p, s, star, matched>>
             y1 == <<p + 1, s, p, s>>
             y2 == <<p + 1, s + 1, star, matched>>
             y3 == <<star + 1, matched + 1, star, matched + 1>>
             r == WalkRank(K, N)
         IN  /\ p <= K => r[y1] < r[x] /\ r[y2] < r[x]
             /\ r[y3] < r[x]
  <1>. DEFINE m(j) == (N + 1 - j) * (K + 2)
  <1>1. matched + 1 \in 0 .. N + 1 /\ s \in 0 .. N + 1 /\ matched < N + 1
    OBVIOUS
  <1>2. \A j \in 0 .. N + 1 : m(j) \in Nat
    <2>. TAKE j \in 0 .. N + 1
    <2>1. N + 1 - j \in Nat /\ K + 2 \in Nat
      OBVIOUS
    <2>. QED  BY <2>1, Lexicographic
  <1>3. m(matched + 1) + (K + 2) <= m(matched)
    <2>1. N + 1 - (matched + 1) \in Nat /\ N + 1 - matched \in Nat /\ K + 2 \in Nat
          /\ N + 1 - (matched + 1) < N + 1 - matched
      OBVIOUS
    <2>. QED  BY <2>1, Lexicographic
  <1>4. m(s) <= m(matched)
    <2>1. CASE s = matched
      <3>1. m(s) = m(matched)
        BY <2>1
      <3>. QED  BY <1>1, <1>2, <3>1
    <2>2. CASE matched < s
      <3>1. N + 1 - s \in Nat /\ N + 1 - matched \in Nat /\ K + 2 \in Nat
            /\ N + 1 - s < N + 1 - matched
        BY <2>2
      <3>2. m(s) + (K + 2) <= m(matched)
        BY <3>1, Lexicographic
      <3>. QED  BY <1>1, <1>2, <3>2
    <2>. QED  BY <2>1, <2>2
  <1>5. WalkRank(K, N)[<<p, s, star, matched>>] = m(matched) + (K + 1 - p)
    BY DEF WalkRank
  <1>6. p <= K => WalkRank(K, N)[<<p + 1, s, p, s>>] = m(s) + (K + 1 - (p + 1))
    <2>. HAVE p <= K
    <2>1. p + 1 \in 1 .. K + 1 /\ s \in 1 .. N + 1 /\ p \in 0 .. K /\ s \in 0 .. N + 1
      OBVIOUS
    <2>. QED  BY <2>1 DEF WalkRank
  <1>7. p <= K => WalkRank(K, N)[<<p + 1, s + 1, star, matched>>] = m(matched) + (K + 1 - (p + 1))
    <2>. HAVE p <= K
    <2>1. p + 1 \in 1 .. K + 1 /\ s + 1 \in 1 .. N + 1
      OBVIOUS
    <2>. QED  BY <2>1 DEF WalkRank
  <1>8. WalkRank(K, N)[<<star + 1, matched + 1, star, matched + 1>>]
          = m(matched + 1) + (K + 1 - (star + 1))
    <2>1. star + 1 \in 1 .. K + 1 /\ matched + 1 \in 1 .. N + 1 /\ matched + 1 \in 0 .. N + 1
      OBVIOUS
    <2>. QED  BY <2>1 DEF WalkRank
  <1>9. m(matched) \in Nat /\ m(s) \in Nat /\ m(matched + 1) \in Nat
    BY <1>1, <1>2
  <1>. HIDE DEF m
  <1>. QED  BY <1>3, <1>4, <1>5, <1>6, <1>7, <1>8, <1>9

\* What a state of the walk consists of.
LEMMA WalkStateFacts ==
  ASSUME NEW pat, NEW seg, Len(pat) \in Nat, Len(seg) \in Nat
  PROVE  /\ \A x \in WalkStates(pat, seg) :
              /\ x = <<x[1], x[2], x[3], x[4]>>
              /\ x[1] \in 1 .. Len(pat) + 1 /\ x[2] \in 1 .. Len(seg) + 1
              /\ x[3] \in 0 .. Len(pat) /\ x[4] \in 0 .. Len(seg) + 1
              /\ x[3] < x[1] /\ x[4] <= x[2]
         /\ \A p \in 1 .. Len(pat) + 1, s \in 1 .. Len(seg) + 1,
               star \in 0 .. Len(pat), matched \in 0 .. Len(seg) + 1 :
              star < p /\ matched <= s => <<p, s, star, matched>> \in WalkStates(pat, seg)
  <1>. DEFINE P == (1 .. Len(pat) + 1) \X (1 .. Len(seg) + 1) \X (0 .. Len(pat)) \X (0 .. Len(seg) + 1)
  <1>1. \A x \in P : /\ x = <<x[1], x[2], x[3], x[4]>>
                     /\ x[1] \in 1 .. Len(pat) + 1 /\ x[2] \in 1 .. Len(seg) + 1
                     /\ x[3] \in 0 .. Len(pat) /\ x[4] \in 0 .. Len(seg) + 1
    OBVIOUS
  <1>2. \A p \in 1 .. Len(pat) + 1, s \in 1 .. Len(seg) + 1,
               star \in 0 .. Len(pat), matched \in 0 .. Len(seg) + 1 :
          LET x == <<p, s, star, matched>>
          IN  x \in P /\ x[1] = p /\ x[2] = s /\ x[3] = star /\ x[4] = matched
    OBVIOUS
  <1>3. WalkStates(pat, seg) = {x \in P : x[3] < x[1] /\ x[4] <= x[2]}
    BY DEF WalkStates
  <1>. HIDE DEF P
  <1>4. \A x \in WalkStates(pat, seg) : x \in P /\ x[3] < x[1] /\ x[4] <= x[2]
    BY <1>3
  <1>5. \A x \in P : x[3] < x[1] /\ x[4] <= x[2] => x \in WalkStates(pat, seg)
    BY <1>3
  <1>6. ASSUME NEW p \in 1 .. Len(pat) + 1, NEW s \in 1 .. Len(seg) + 1,
               NEW star \in 0 .. Len(pat), NEW matched \in 0 .. Len(seg) + 1,
               star < p, matched <= s
        PROVE  <<p, s, star, matched>> \in WalkStates(pat, seg)
    <2>. DEFINE x == <<p, s, star, matched>>
    <2>1. x \in P /\ x[1] = p /\ x[2] = s /\ x[3] = star /\ x[4] = matched
      BY <1>2
    <2>. HIDE DEF x
    <2>2. x \in WalkStates(pat, seg)
      BY <1>5, <1>6, <2>1
    <2>. QED  BY <2>2 DEF x
  <1>. QED  BY <1>1, <1>4, <1>6

\* The states a turn leads to.
LEMMA WalkStays ==
  ASSUME NEW pat, NEW seg, Len(pat) \in Nat, Len(seg) \in Nat,
         NEW p, NEW s, NEW star, NEW matched,
         <<p, s, star, matched>> \in WalkStates(pat, seg), s <= Len(seg)
  PROVE  LET S == WalkStates(pat, seg)
             x == <<p, s, star, matched>>
             r == WalkRank(Len(pat), Len(seg))
             y1 == <<p + 1, s, p, s>>
             y2 == <<p + 1, s + 1, star, matched>>
             y3 == <<star + 1, matched + 1, star, matched + 1>>
         IN  /\ p <= Len(pat) => y1 \in S /\ r[y1] < r[x] /\ y2 \in S /\ r[y2] < r[x]
             /\ y3 \in S /\ r[y3] < r[x]
  <1>. DEFINE K == Len(pat)
              N == Len(seg)
              x == <<p, s, star, matched>>
  <1>0. x[1] = p /\ x[2] = s /\ x[3] = star /\ x[4] = matched
    OBVIOUS
  <1>1. /\ p \in 1 .. K + 1 /\ s \in 1 .. N /\ star \in 0 .. K /\ matched \in 0 .. N + 1
        /\ star < p /\ matched <= s
    <2>. HIDE DEF x
    <2>1. x \in WalkStates(pat, seg)
      BY DEF x
    <2>2. /\ x[1] \in 1 .. Len(pat) + 1 /\ x[2] \in 1 .. Len(seg) + 1
          /\ x[3] \in 0 .. Len(pat) /\ x[4] \in 0 .. Len(seg) + 1
          /\ x[3] < x[1] /\ x[4] <= x[2]
      BY <2>1, WalkStateFacts
    <2>. QED  BY <1>0, <2>2
  <1>2. p <= K => <<p + 1, s, p, s>> \in WalkStates(pat, seg)
    <2>. HAVE p <= K
    <2>1. /\ p + 1 \in 1 .. K + 1 /\ s \in 1 .. N + 1 /\ p \in 0 .. K /\ s \in 0 .. N + 1
          /\ p < p + 1 /\ s <= s
      BY <1>1
    <2>. QED  BY <2>1, WalkStateFacts
  <1>3. p <= K => <<p + 1, s + 1, star, matched>> \in WalkStates(pat, seg)
    <2>. HAVE p <= K
    <2>1. /\ p + 1 \in 1 .. K + 1 /\ s + 1 \in 1 .. N + 1 /\ star < p + 1 /\ matched <= s + 1
      BY <1>1
    <2>. QED  BY <1>1, <2>1, WalkStateFacts
  <1>4. <<star + 1, matched + 1, star, matched + 1>> \in WalkStates(pat, seg)
    <2>1. /\ star + 1 \in 1 .. K + 1 /\ matched + 1 \in 1 .. N + 1 /\ matched + 1 \in 0 .. N + 1
          /\ star < star + 1 /\ matched + 1 <= matched + 1
      BY <1>1
    <2>. QED  BY <1>1, <2>1, WalkStateFacts
  <1>. QED  BY <1>1, <1>2, <1>3, <1>4, WalkNext

\* A turn asks its continuation only about states with fewer turns left.
LEMMA WalkTurnLocal ==
  ASSUME NEW pat, NEW seg, Len(pat) \in Nat, Len(seg) \in Nat, NEW f, NEW g,
         NEW p, NEW s, NEW star, NEW matched,
         <<p, s, star, matched>> \in WalkStates(pat, seg),
         NEW r, r = WalkRank(Len(pat), Len(seg)),
         \A y \in WalkStates(pat, seg) : r[y] < r[<<p, s, star, matched>>] => f[y] = g[y]
  PROVE  /\ WalkTurn(f, pat, seg, p, s, star, matched) = WalkTurn(g, pat, seg, p, s, star, matched)
         /\ WalkTurn(f, pat, seg, p, s, star, matched) \in BOOLEAN
  <1>. DEFINE K == Len(pat)
              N == Len(seg)
              x == <<p, s, star, matched>>
  <1>0. x[1] = p /\ x[2] = s
    OBVIOUS
  <1>1. p \in 1 .. K + 1 /\ s \in 1 .. N + 1
    <2>. HIDE DEF x
    <2>1. x \in WalkStates(pat, seg)
      BY DEF x
    <2>. QED  BY <1>0, <2>1, WalkStateFacts
  <1>2. CASE s > N
    BY <1>2 DEF WalkTurn
  <1>3. CASE s <= N
    <2>1. /\ p <= K => /\ f[<<p + 1, s, p, s>>] = g[<<p + 1, s, p, s>>]
                       /\ f[<<p + 1, s + 1, star, matched>>] = g[<<p + 1, s + 1, star, matched>>]
          /\ f[<<star + 1, matched + 1, star, matched + 1>>]
               = g[<<star + 1, matched + 1, star, matched + 1>>]
      BY <1>3, WalkStays
    <2>2. ~(s > N)
      BY <1>1, <1>3
    <2>. QED  BY <2>1, <2>2 DEF WalkTurn
  <1>. QED  BY <1>1, <1>2, <1>3

\* A cut that starts after the last "*", later than the walk's, goes through the
\* walk's position in the pattern later than the walk does.
LEMMA LaterCut ==
  ASSUME NEW K \in Nat, NEW N \in Nat, NEW W, NEW F,
         NEW p \in 1 .. K + 1, NEW s \in 1 .. N + 1, NEW star \in 1 .. K, NEW matched \in 1 .. N + 1,
         star < p, s = matched + (p - star - 1), \A k \in star + 1 .. p - 1 : k \notin W,
         NEW j \in matched + 1 .. N + 1, Cuts(K, N, W, F, star + 1, j)
  PROVE  \E t \in s + 1 .. N + 1 : Cuts(K, N, W, F, p, t)
  <1>. DEFINE n == p - star - 1
  <1>1. n \in 0 .. K + 1 - (star + 1) /\ star + 1 \in 1 .. K + 1 /\ j \in 1 .. N + 1
    OBVIOUS
  <1>2. \A k \in star + 1 .. (star + 1) + n - 1 : k \notin W
    OBVIOUS
  <1>3. (star + 1) + n = p /\ j + n >= s + 1
    OBVIOUS
  <1>. HIDE DEF n
  <1>4. j + n <= N + 1 /\ Cuts(K, N, W, F, (star + 1) + n, j + n)
    BY <1>1, <1>2, CutsRun
  <1>5. j + n \in s + 1 .. N + 1
    BY <1>1, <1>3, <1>4
  <1>. QED  BY <1>3, <1>4, <1>5

\* A turn of the walk is right when the turns it calls are right.
LEMMA WalkTurnMeans ==
  ASSUME NEW pat, NEW seg, Len(pat) \in Nat, Len(seg) \in Nat, NEW f,
         NEW p \in 1 .. Len(pat) + 1, NEW s \in 1 .. Len(seg) + 1,
         NEW star \in 0 .. Len(pat), NEW matched \in 0 .. Len(seg) + 1,
         star < p, matched <= s, WalkInv(pat, p, s, star, matched),
         s <= Len(seg) /\ p <= Len(pat) /\ WalkInv(pat, p + 1, s, p, s) =>
           (f[<<p + 1, s, p, s>>] <=> WalkMeans(pat, seg, p + 1, s, p, s)),
         s <= Len(seg) /\ p <= Len(pat) /\ WalkInv(pat, p + 1, s + 1, star, matched) =>
           (f[<<p + 1, s + 1, star, matched>>] <=> WalkMeans(pat, seg, p + 1, s + 1, star, matched)),
         s <= Len(seg) /\ WalkInv(pat, star + 1, matched + 1, star, matched + 1) =>
           (f[<<star + 1, matched + 1, star, matched + 1>>]
              <=> WalkMeans(pat, seg, star + 1, matched + 1, star, matched + 1))
  PROVE  WalkTurn(f, pat, seg, p, s, star, matched) <=> WalkMeans(pat, seg, p, s, star, matched)
  <1>. DEFINE K == Len(pat)
              N == Len(seg)
              W == TextWild(pat)
              F == TextFits(pat, seg)
              C(q, t) == Cuts(K, N, W, F, q, t)
              Later == star # 0 /\ \E j \in matched + 1 .. N + 1 : C(star + 1, j)
  <1>m. WalkMeans(pat, seg, p, s, star, matched) <=> C(p, s) \/ Later
    BY DEF WalkMeans
  <1>w. \A q \in 1 .. K : q \in W <=> pat[q] = "*"
    BY DEF TextWild
  <1>l. Later => \E t \in s + 1 .. N + 1 : C(p, t)
    <2>. HAVE Later
    <2>1. PICK j \in matched + 1 .. N + 1 : C(star + 1, j)
      OBVIOUS
    <2>2. /\ star \in 1 .. K /\ matched \in 1 .. N + 1 /\ s = matched + (p - star - 1)
          /\ \A k \in star + 1 .. p - 1 : k \notin W
      <3>1. star # 0
        OBVIOUS
      <3>2. /\ s = matched + (p - star - 1) /\ matched >= 1
            /\ \A k \in star + 1 .. p - 1 : k \notin TextWild(pat)
        BY <3>1 DEF WalkInv
      <3>. HIDE DEF Later
      <3>. QED  BY <3>1, <3>2
    <2>. HIDE DEF W, F
    <2>. QED  BY <2>1, <2>2, LaterCut
  <1>. HIDE DEF W, F, Later
  <1>1. CASE s = N + 1
    <2>1. ~Later
      BY <1>1, <1>l
    <2>2. C(p, s) <=> \A k \in p .. K : k \in W
      BY <1>1, CutsNothing
    <2>3. WalkTurn(f, pat, seg, p, s, star, matched) <=> \A k \in p .. K : pat[k] = "*"
      BY <1>1 DEF WalkTurn
    <2>. QED  BY <1>m, <1>w, <2>1, <2>2, <2>3
  <1>2. CASE s \in 1 .. N /\ p \in 1 .. K /\ pat[p] = "*"
    <2>1. C(p, s) <=> \E j \in s .. N + 1 : C(p + 1, j)
      BY <1>2, <1>w, CutsWild
    <2>2. Later => C(p, s)
      <3>. HAVE Later
      <3>1. PICK t \in s + 1 .. N + 1 : C(p, t)
        BY <1>l
      <3>2. PICK j \in t .. N + 1 : C(p + 1, j)
        BY <1>2, <1>w, <3>1, CutsWild
      <3>. QED  BY <2>1, <3>1, <3>2
    <2>3. WalkInv(pat, p + 1, s, p, s)
      BY <1>2 DEF WalkInv
    <2>4. WalkMeans(pat, seg, p + 1, s, p, s) <=> C(p + 1, s) \/ \E j \in s + 1 .. N + 1 : C(p + 1, j)
      BY <1>2 DEF WalkMeans, W, F
    <2>5. WalkTurn(f, pat, seg, p, s, star, matched) <=> f[<<p + 1, s, p, s>>]
      BY <1>2 DEF WalkTurn
    <2>6. (\E j \in s .. N + 1 : C(p + 1, j)) <=> C(p + 1, s) \/ \E j \in s + 1 .. N + 1 : C(p + 1, j)
      <3>. HIDE DEF C
      <3>1. \A j \in s .. N + 1 : j = s \/ j \in s + 1 .. N + 1
        OBVIOUS
      <3>2. s \in s .. N + 1 /\ \A j \in s + 1 .. N + 1 : j \in s .. N + 1
        BY <1>2
      <3>. QED  BY <3>1, <3>2
    <2>7. f[<<p + 1, s, p, s>>] <=> WalkMeans(pat, seg, p + 1, s, p, s)
      BY <1>2, <2>3
    <2>. HIDE DEF C
    <2>. QED  BY <1>m, <2>1, <2>2, <2>4, <2>5, <2>6, <2>7
  <1>3. CASE s \in 1 .. N /\ p \in 1 .. K /\ pat[p] # "*" /\ pat[p] = seg[s]
    <2>0. <<p, s>> \in F
      BY <1>3 DEF F, TextFits
    <2>1. C(p, s) <=> C(p + 1, s + 1)
      BY <1>3, <1>w, <2>0, CutsItem
    <2>2. WalkInv(pat, p + 1, s + 1, star, matched)
      <3>. SUFFICES ASSUME star # 0
                    PROVE  /\ s + 1 = matched + (p + 1 - star - 1) /\ matched >= 1
                           /\ \A k \in star + 1 .. p + 1 - 1 : k \notin W
        BY DEF WalkInv, W
      <3>1. /\ s = matched + (p - star - 1) /\ matched >= 1
            /\ \A k \in star + 1 .. p - 1 : k \notin W
        BY DEF WalkInv, W
      <3>2. \A k \in star + 1 .. p + 1 - 1 : k \in star + 1 .. p - 1 \/ k = p
        OBVIOUS
      <3>3. p \notin W
        BY <1>3, <1>w
      <3>4. s + 1 = matched + (p + 1 - star - 1)
        BY <3>1
      <3>. QED  BY <3>1, <3>2, <3>3, <3>4
    <2>3. WalkMeans(pat, seg, p + 1, s + 1, star, matched) <=> C(p + 1, s + 1) \/ Later
      BY DEF WalkMeans, Later, W, F
    <2>4. WalkTurn(f, pat, seg, p, s, star, matched) <=> f[<<p + 1, s + 1, star, matched>>]
      BY <1>3 DEF WalkTurn
    <2>5. f[<<p + 1, s + 1, star, matched>>] <=> WalkMeans(pat, seg, p + 1, s + 1, star, matched)
      BY <1>3, <2>2
    <2>. HIDE DEF C
    <2>. QED  BY <1>m, <2>1, <2>3, <2>4, <2>5
  <1>4. CASE s \in 1 .. N /\ (p = K + 1 \/ (p \in 1 .. K /\ pat[p] # "*" /\ pat[p] # seg[s]))
    <2>1. ~C(p, s)
      <3>1. CASE p = K + 1
        <4>1. C(K + 1, s) <=> s = N + 1
          BY <1>4, CutsEnd
        <4>. QED  BY <1>4, <3>1, <4>1
      <3>2. CASE p \in 1 .. K /\ pat[p] # "*" /\ pat[p] # seg[s]
        <4>1. <<p, s>> \notin F
          BY <3>2 DEF F, TextFits
        <4>. QED  BY <3>2, <1>w, <4>1, CutsItem
      <3>. QED  BY <1>4, <3>1, <3>2
    <2>2. WalkInv(pat, star + 1, matched + 1, star, matched + 1)
      BY DEF WalkInv
    <2>3. WalkMeans(pat, seg, star + 1, matched + 1, star, matched + 1)
            <=> C(star + 1, matched + 1)
                 \/ (star # 0 /\ \E j \in matched + 1 + 1 .. N + 1 : C(star + 1, j))
      BY DEF WalkMeans, W, F
    <2>4. star # 0 => (Later <=> C(star + 1, matched + 1)
                                  \/ \E j \in matched + 1 + 1 .. N + 1 : C(star + 1, j))
      <3>. HIDE DEF C
      <3>1. \A j \in matched + 1 .. N + 1 : j = matched + 1 \/ j \in matched + 1 + 1 .. N + 1
        OBVIOUS
      <3>2. /\ matched + 1 \in matched + 1 .. N + 1
            /\ \A j \in matched + 1 + 1 .. N + 1 : j \in matched + 1 .. N + 1
        BY <1>4
      <3>. QED  BY <3>1, <3>2 DEF Later
    <2>5. WalkTurn(f, pat, seg, p, s, star, matched)
            <=> star # 0 /\ f[<<star + 1, matched + 1, star, matched + 1>>]
      BY <1>4 DEF WalkTurn
    <2>6. f[<<star + 1, matched + 1, star, matched + 1>>]
            <=> WalkMeans(pat, seg, star + 1, matched + 1, star, matched + 1)
      BY <1>4, <2>2
    <2>7. star = 0 => ~Later
      BY DEF Later
    <2>. HIDE DEF C
    <2>. QED  BY <1>m, <2>1, <2>3, <2>4, <2>5, <2>6, <2>7
  <1>. QED  BY <1>1, <1>2, <1>3, <1>4

\* The walk decides whether the segment can be cut to the pattern.
LEMMA WalkCut ==
  ASSUME NEW pat, NEW seg, Len(pat) \in Nat, Len(seg) \in Nat
  PROVE  Walk(pat, seg)
           <=> Cuts(Len(pat), Len(seg), TextWild(pat), TextFits(pat, seg), 1, 1)
  <1>. DEFINE K == Len(pat)
              N == Len(seg)
              S == WalkStates(pat, seg)
              r == WalkRank(K, N)
              rank == [x \in S |-> r[x]]
              B(f, x) == WalkTurn(f, pat, seg, x[1], x[2], x[3], x[4])
              R(f) == f = [x \in S |-> B(f, x)]
              g == CHOOSE f : R(f)
              V(x) == WalkMeans(pat, seg, x[1], x[2], x[3], x[4])
              I(x) == WalkInv(pat, x[1], x[2], x[3], x[4])
  <1>1. Walk(pat, seg) = g[<<1, 1, 0, 0>>]
    BY DEF Walk, WalkTurn
  <1>2. \A x \in S : r[x] \in Nat
    <2>. SUFFICES ASSUME NEW x \in S PROVE r[x] \in Nat
      OBVIOUS
    <2>1. /\ x \in (1 .. K + 1) \X (1 .. N + 1) \X (0 .. K) \X (0 .. N + 1)
          /\ x[1] \in 1 .. K + 1 /\ x[4] \in 0 .. N + 1
      BY DEF WalkStates
    <2>2. r[x] = (N + 1 - x[4]) * (K + 2) + (K + 1 - x[1])
      BY <2>1 DEF WalkRank
    <2>3. N + 1 - x[4] \in Nat /\ K + 2 \in Nat /\ K + 1 - x[1] \in Nat
      BY <2>1
    <2>4. (N + 1 - x[4]) * (K + 2) \in Nat
      BY <2>3
    <2>. QED  BY <2>2, <2>3, <2>4
  <1>. HIDE DEF S, r, B
  <1>3. rank \in [S -> Nat] /\ \A x \in S : rank[x] = r[x]
    BY <1>2
  <1>. HIDE DEF rank
  <1>4. ASSUME NEW x \in S, NEW f, NEW e, \A y \in S : rank[y] < rank[x] => f[y] = e[y]
        PROVE  B(f, x) = B(e, x) /\ B(f, x) \in BOOLEAN
    <2>1. x = <<x[1], x[2], x[3], x[4]>>
      BY WalkStateFacts DEF S
    <2>2. \A y \in S : r[y] < r[x] => f[y] = e[y]
      BY <1>3, <1>4
    <2>3. <<x[1], x[2], x[3], x[4]>> \in WalkStates(pat, seg)
      BY <2>1 DEF S
    <2>4. \A y \in WalkStates(pat, seg) : r[y] < r[<<x[1], x[2], x[3], x[4]>>] => f[y] = e[y]
      BY <2>1, <2>2 DEF S
    <2>5. r = WalkRank(Len(pat), Len(seg))
      BY DEF r
    <2>. QED  BY <2>3, <2>4, <2>5, WalkTurnLocal DEF B
  <1>. DEFINE Char(X) == [y \in S |-> y \in X]
              Step == [X \in SUBSET S |-> {x \in S : B(Char(X), x)}]
  <1>5. HasFixedPoint(S, Step)
    <2>1. Step \in [SUBSET S -> SUBSET S]
      OBVIOUS
    <2>2. ASSUME NEW X \in SUBSET S, NEW Y \in SUBSET S, NEW x \in S,
                 AgreeBelow(S, rank, X, Y, rank[x])
          PROVE  x \in Step[X] <=> x \in Step[Y]
      <3>1. \A y \in S : rank[y] < rank[x] => Char(X)[y] = Char(Y)[y]
        BY <2>2 DEF AgreeBelow
      <3>2. B(Char(X), x) = B(Char(Y), x)
        <4>. HIDE DEF Char
        <4>. QED  BY <3>1, <1>4
      <3>. HIDE DEF Char
      <3>. QED  BY <3>2
    <2>3. StepLocal(S, rank, Step)
      <3>. HIDE DEF Step
      <3>. QED  BY <1>3, <2>1, <2>2 DEF StepLocal
    <2>. HIDE DEF Step
    <2>. QED  BY <2>3, RankRecursion
  <1>6. PICK M \in SUBSET S : Step[M] = M
    <2>. HIDE DEF Step
    <2>. QED  BY <1>5 DEF HasFixedPoint
  <1>7. R(Char(M))
    <2>1. ASSUME NEW x \in S
          PROVE  (x \in M) = B(Char(M), x)
      <3>1. x \in M <=> B(Char(M), x)
        <4>. HIDE DEF Char
        <4>. QED  BY <1>6
      <3>2. B(Char(M), x) \in BOOLEAN
        <4>. HIDE DEF Char
        <4>. QED  BY <1>4
      <3>. HIDE DEF Char
      <3>. QED  BY <3>1, <3>2
    <2>. QED  BY <2>1
  <1>. HIDE DEF R, Char, Step
  <1>8. R(g)
    BY <1>7
  <1>. HIDE DEF g
  <1>9. \A x \in S : g[x] = B(g, x)
    BY <1>8 DEF R
  <1>. DEFINE Q == {x \in S : I(x)}
              L == {x \in Q : V(x)}
              q == [x \in Q |-> rank[x]]
  <1>10. q \in [Q -> Nat] /\ \A x \in Q : q[x] = rank[x]
    BY <1>3
  <1>11. ASSUME NEW x \in Q, RightBelow(Q, q, L, g, x)
         PROVE  g[x] = (x \in L)
    <2>. DEFINE p == x[1]
                s == x[2]
                star == x[3]
                matched == x[4]
    <2>1. /\ x = <<p, s, star, matched>>
          /\ p \in 1 .. K + 1 /\ s \in 1 .. N + 1 /\ star \in 0 .. K /\ matched \in 0 .. N + 1
          /\ star < p /\ matched <= s
      BY WalkStateFacts DEF S
    <2>2. ASSUME NEW y \in S, I(y), r[y] < r[x]
          PROVE  g[y] <=> V(y)
      <3>. HIDE DEF I, V
      <3>1. y \in Q /\ q[y] < q[x]
        BY <1>3, <1>10, <2>2
      <3>. HIDE DEF q
      <3>. QED  BY <1>11, <3>1 DEF RightBelow
    <2>3. <<p, s, star, matched>> \in WalkStates(pat, seg)
      BY <2>1 DEF S
    <2>4. ASSUME NEW a, NEW b, NEW c, NEW d, <<a, b, c, d>> \in S, r[<<a, b, c, d>>] < r[x],
                 WalkInv(pat, a, b, c, d)
          PROVE  g[<<a, b, c, d>>] <=> WalkMeans(pat, seg, a, b, c, d)
      <3>. DEFINE y == <<a, b, c, d>>
      <3>1. y[1] = a /\ y[2] = b /\ y[3] = c /\ y[4] = d
        OBVIOUS
      <3>2. y \in S /\ r[y] < r[x]
        BY <2>4
      <3>. HIDE DEF y
      <3>3. I(y)
        BY <2>4, <3>1
      <3>4. g[y] <=> V(y)
        BY <2>2, <3>2, <3>3
      <3>5. g[y] <=> WalkMeans(pat, seg, a, b, c, d)
        BY <3>1, <3>4
      <3>. QED  BY <3>5 DEF y
    <2>. HIDE DEF p, s, star, matched
    <2>5. s <= N => /\ p <= K => /\ <<p + 1, s, p, s>> \in S
                                 /\ r[<<p + 1, s, p, s>>] < r[x]
                                 /\ <<p + 1, s + 1, star, matched>> \in S
                                 /\ r[<<p + 1, s + 1, star, matched>>] < r[x]
                    /\ <<star + 1, matched + 1, star, matched + 1>> \in S
                    /\ r[<<star + 1, matched + 1, star, matched + 1>>] < r[x]
      BY <2>1, <2>3, WalkStays DEF S, r
    <2>6. WalkInv(pat, p, s, star, matched)
      BY DEF p, s, star, matched
    <2>7. WalkTurn(g, pat, seg, p, s, star, matched) <=> WalkMeans(pat, seg, p, s, star, matched)
      BY <2>1, <2>4, <2>5, <2>6, WalkTurnMeans
    <2>8. B(g, x) <=> V(x)
      BY <2>7 DEF B, p, s, star, matched
    <2>9. B(g, x) \in BOOLEAN
      BY <1>4
    <2>. HIDE DEF V
    <2>10. x \in L <=> B(g, x)
      BY <2>8
    <2>. HIDE DEF L
    <2>. QED  BY <1>9, <2>9, <2>10
  <1>12. \A x \in Q : g[x] = (x \in L)
    <2>. HIDE DEF Q, L, q
    <2>1. RightStep(Q, q, L, g)
      BY <1>11 DEF RightStep
    <2>. QED  BY <1>10, <2>1, RankInduction
  <1>. DEFINE x0 == <<1, 1, 0, 0>>
  <1>13. x0[1] = 1 /\ x0[2] = 1 /\ x0[3] = 0 /\ x0[4] = 0
    OBVIOUS
  <1>14. x0 \in S
    <2>1. 1 \in 1 .. K + 1 /\ 1 \in 1 .. N + 1 /\ 0 \in 0 .. K /\ 0 \in 0 .. N + 1 /\ 0 < 1 /\ 0 <= 1
      OBVIOUS
    <2>. QED  BY <2>1, WalkStateFacts DEF S
  <1>15. V(x0) <=> Cuts(K, N, TextWild(pat), TextFits(pat, seg), 1, 1)
    BY DEF WalkMeans
  <1>16. I(x0)
    BY DEF WalkInv
  <1>. HIDE DEF V, I, x0
  <1>17. g[x0] <=> V(x0)
    BY <1>12, <1>14, <1>16
  <1>18. Walk(pat, seg) = g[x0]
    BY <1>1 DEF x0
  <1>. QED  BY <1>15, <1>17, <1>18

\* What a pattern means is that the text can be cut to it.
LEMMA SpellsTextCut ==
  ASSUME NEW A, NEW pat \in Seq(A), NEW text \in Seq(A)
  PROVE  SpellsText(pat, text)
           <=> Cuts(Len(pat), Len(text), TextWild(pat), TextFits(pat, text), 1, 1)
  <1>. DEFINE K == Len(pat)
              N == Len(text)
  <1>0. K \in Nat /\ N \in Nat /\ DOMAIN pat = 1 .. K
    OBVIOUS
  <1>1. SpellsText(pat, text) <=>
          \E cut \in [1 .. K + 1 -> 0 .. N] :
             /\ cut[1] = 0 /\ cut[K + 1] = N
             /\ \A i \in 1 .. K :
                  IF pat[i] = "*" THEN cut[i] <= cut[i + 1]
                                  ELSE cut[i + 1] = cut[i] + 1 /\ pat[i] = text[cut[i + 1]]
    BY <1>0 DEF SpellsText, Spells
  <1>2. ASSUME NEW cut \in [1 .. K + 1 -> 0 .. N], NEW i \in 1 .. K
        PROVE  (IF pat[i] = "*" THEN cut[i] <= cut[i + 1]
                                ELSE cut[i + 1] = cut[i] + 1 /\ pat[i] = text[cut[i + 1]])
               <=> /\ i \in TextWild(pat) => cut[i] <= cut[i + 1]
                   /\ i \notin TextWild(pat) =>
                        cut[i + 1] = cut[i] + 1 /\ <<i, cut[i + 1]>> \in TextFits(pat, text)
    <2>1. i \in TextWild(pat) <=> pat[i] = "*"
      BY DEF TextWild
    <2>2. i \in 1 .. K + 1 /\ i + 1 \in 1 .. K + 1
      OBVIOUS
    <2>3. cut[i] \in 0 .. N /\ cut[i + 1] \in 0 .. N
      BY <2>2
    <2>4. cut[i + 1] = cut[i] + 1 => cut[i + 1] \in 1 .. N
      BY <2>3
    <2>5. cut[i + 1] \in 1 .. N => (<<i, cut[i + 1]>> \in TextFits(pat, text) <=> pat[i] = text[cut[i + 1]])
      BY DEF TextFits
    <2>. QED  BY <2>1, <2>4, <2>5
  <1>3. Cuts(K, N, TextWild(pat), TextFits(pat, text), 1, 1) <=>
          \E cut \in [1 .. K + 1 -> 0 .. N] :
             /\ cut[1] = 0 /\ cut[K + 1] = N
             /\ \A i \in 1 .. K :
                  /\ i \in TextWild(pat) => cut[i] <= cut[i + 1]
                  /\ i \notin TextWild(pat) =>
                        cut[i + 1] = cut[i] + 1 /\ <<i, cut[i + 1]>> \in TextFits(pat, text)
    BY DEF Cuts, IsCut
  <1>. QED  BY <1>1, <1>2, <1>3

\* A segment matches a pattern exactly when it can be cut to it.
LEMMA MatchSegmentCut ==
  ASSUME NEW A, NEW pat \in Seq(A), NEW seg \in Seq(A)
  PROVE  matchSegment(pat, seg)
           <=> Cuts(Len(pat), Len(seg), TextWild(pat), TextFits(pat, seg), 1, 1)
  <1>. DEFINE K == Len(pat)
              N == Len(seg)
              C(q, t) == Cuts(K, N, TextWild(pat), TextFits(pat, seg), q, t)
  <1>0. K \in Nat /\ N \in Nat /\ DOMAIN pat = 1 .. K /\ DOMAIN seg = 1 .. N
    OBVIOUS
  <1>1. CASE \A i \in DOMAIN pat : pat[i] # "*"
    <2>1. matchSegment(pat, seg) <=> pat = seg
      BY <1>1 DEF matchSegment
    <2>2. \A k \in 1 .. 1 + K - 1 : k \notin TextWild(pat)
      BY <1>0, <1>1 DEF TextWild
    <2>3. K \in 0 .. K + 1 - 1 /\ 1 \in 1 .. K + 1 /\ 1 \in 1 .. N + 1
      BY <1>0
    <2>4. C(1, 1) <=> 1 + K <= N + 1 /\ RunFits(TextFits(pat, seg), 1, 1, K) /\ C(1 + K, 1 + K)
      BY <1>0, <2>2, <2>3, CutsRun
    <2>5. 1 + K <= N + 1 => (C(1 + K, 1 + K) <=> 1 + K = N + 1)
      <3>. HAVE 1 + K <= N + 1
      <3>1. 1 + K \in 1 .. N + 1 /\ 1 + K = K + 1
        BY <1>0
      <3>. QED  BY <1>0, <3>1, CutsEnd
    <2>6. C(1, 1) <=> K = N /\ RunFits(TextFits(pat, seg), 1, 1, K)
      <3>. HIDE DEF C, K, N
      <3>1. 1 + K = N + 1 <=> K = N
        BY <1>0
      <3>2. 1 + K = N + 1 => 1 + K <= N + 1
        BY <1>0
      <3>. QED  BY <2>4, <2>5, <3>1, <3>2
    <2>7. K = N => (RunFits(TextFits(pat, seg), 1, 1, K) <=> \A i \in 1 .. K : pat[i] = seg[i])
      <3>. HAVE K = N
      <3>1. \A i \in 1 .. K : <<i, i>> \in TextFits(pat, seg) <=> pat[i] = seg[i]
        BY <1>0 DEF TextFits
      <3>2. \A k \in 0 .. K - 1 : 1 + k \in 1 .. K
        BY <1>0
      <3>3. \A i \in 1 .. K : i - 1 \in 0 .. K - 1 /\ 1 + (i - 1) = i
        BY <1>0
      <3>4. RunFits(TextFits(pat, seg), 1, 1, K) <=> \A i \in 1 .. K : <<i, i>> \in TextFits(pat, seg)
        BY <3>2, <3>3 DEF RunFits
      <3>. QED  BY <3>1, <3>4
    <2>8. pat = seg <=> K = N /\ \A i \in 1 .. K : pat[i] = seg[i]
      BY <1>0, SeqEqual
    <2>. QED  BY <2>1, <2>6, <2>7, <2>8
  <1>2. CASE ~(\A i \in DOMAIN pat : pat[i] # "*")
    <2>1. matchSegment(pat, seg) <=> Walk(pat, seg)
      BY <1>2 DEF matchSegment
    <2>. QED  BY <1>0, <2>1, WalkCut
  <1>. QED  BY <1>1, <1>2

\* What a path pattern means is that the path can be cut to it.
LEMMA SpellsPathCut ==
  ASSUME NEW A, NEW pat \in Seq(Seq(A)), NEW path \in Seq(Seq(A))
  PROVE  SpellsPath(pat, path)
           <=> Cuts(Len(pat), Len(path), DeepWild(pat), SegFits(pat, path), 1, 1)
  <1>. DEFINE K == Len(pat)
              N == Len(path)
  <1>0. K \in Nat /\ N \in Nat /\ DOMAIN pat = 1 .. K
    OBVIOUS
  <1>1. SpellsPath(pat, path) <=>
          \E cut \in [1 .. K + 1 -> 0 .. N] :
             /\ cut[1] = 0 /\ cut[K + 1] = N
             /\ \A i \in 1 .. K :
                  IF pat[i] = <<"*", "*">> THEN cut[i] <= cut[i + 1]
                     ELSE cut[i + 1] = cut[i] + 1 /\ SpellsText(pat[i], path[cut[i + 1]])
    BY <1>0 DEF SpellsPath, Spells
  <1>2. ASSUME NEW cut \in [1 .. K + 1 -> 0 .. N], NEW i \in 1 .. K
        PROVE  (IF pat[i] = <<"*", "*">> THEN cut[i] <= cut[i + 1]
                   ELSE cut[i + 1] = cut[i] + 1 /\ SpellsText(pat[i], path[cut[i + 1]]))
               <=> /\ i \in DeepWild(pat) => cut[i] <= cut[i + 1]
                   /\ i \notin DeepWild(pat) =>
                        cut[i + 1] = cut[i] + 1 /\ <<i, cut[i + 1]>> \in SegFits(pat, path)
    <2>1. i \in DeepWild(pat) <=> pat[i] = <<"*", "*">>
      BY DEF DeepWild
    <2>2. i \in 1 .. K + 1 /\ i + 1 \in 1 .. K + 1
      OBVIOUS
    <2>3. cut[i] \in 0 .. N /\ cut[i + 1] \in 0 .. N
      BY <2>2
    <2>4. cut[i + 1] = cut[i] + 1 => cut[i + 1] \in 1 .. N
      BY <2>3
    <2>5. cut[i + 1] \in 1 .. N =>
             (<<i, cut[i + 1]>> \in SegFits(pat, path) <=> SpellsText(pat[i], path[cut[i + 1]]))
      <3>. HAVE cut[i + 1] \in 1 .. N
      <3>1. pat[i] \in Seq(A) /\ path[cut[i + 1]] \in Seq(A)
        BY <1>0
      <3>2. matchSegment(pat[i], path[cut[i + 1]]) <=> SpellsText(pat[i], path[cut[i + 1]])
        BY <3>1, SpellsTextCut, MatchSegmentCut
      <3>. QED  BY <3>2 DEF SegFits
    <2>. QED  BY <2>1, <2>4, <2>5
  <1>3. Cuts(K, N, DeepWild(pat), SegFits(pat, path), 1, 1) <=>
          \E cut \in [1 .. K + 1 -> 0 .. N] :
             /\ cut[1] = 0 /\ cut[K + 1] = N
             /\ \A i \in 1 .. K :
                  /\ i \in DeepWild(pat) => cut[i] <= cut[i + 1]
                  /\ i \notin DeepWild(pat) =>
                        cut[i + 1] = cut[i] + 1 /\ <<i, cut[i + 1]>> \in SegFits(pat, path)
    BY DEF Cuts, IsCut
  <1>. QED  BY <1>1, <1>2, <1>3

\* The matchers of the code decide exactly what the patterns mean, for every
\* pattern and every text over any alphabet (globMatch, matchSegment,
\* matchSegments).
THEOREM MatchersMean ==
  ASSUME NEW A
  PROVE  /\ \A pat, text \in Seq(A) :
              /\ globMatch(pat, text) <=> SpellsText(pat, text)
              /\ matchSegment(pat, text) <=> SpellsText(pat, text)
         /\ \A pat, path \in Seq(Seq(A)) : matchSegments(pat, path) <=> SpellsPath(pat, path)
  <1>1. ASSUME NEW pat \in Seq(A), NEW text \in Seq(A)
        PROVE  /\ globMatch(pat, text) <=> SpellsText(pat, text)
               /\ matchSegment(pat, text) <=> SpellsText(pat, text)
    <2>1. Len(pat) \in Nat /\ Len(text) \in Nat
      OBVIOUS
    <2>. QED  BY <2>1, GlobCut, MatchSegmentCut, SpellsTextCut
  <1>2. ASSUME NEW pat \in Seq(Seq(A)), NEW path \in Seq(Seq(A))
        PROVE  matchSegments(pat, path) <=> SpellsPath(pat, path)
    <2>1. Len(pat) \in Nat /\ Len(path) \in Nat
      OBVIOUS
    <2>. QED  BY <2>1, SegmentsCut, SpellsPathCut
  <1>. QED  BY <1>1, <1>2

-----------------------------------------------------------------------------

\* The question posed is one of the questions.
AskInv == ask = Nil \/ ask \in Questions

\* globMatch, matchSegment and matchSegments agree with what their patterns mean
\* on every pattern and text they can be asked.
THEOREM MatchersExactAlways == SbxSpec => []MatchersExact
  <1>1. SbxInit => AskInv
    BY DEF SbxInit, AskInv
  <1>2. AskInv /\ [SbxNext]_allVars => AskInv'
    <2>. SUFFICES ASSUME AskInv, [SbxNext]_allVars PROVE AskInv'
      OBVIOUS
    <2>1. ask' = ask \/ ask' \in Questions
      BY DEF SbxNext, allVars, Ask
    <2>. QED  BY <2>1 DEF AskInv
  <1>3. AskInv => MatchersExact
    <2>. SUFFICES ASSUME AskInv, ask # Nil PROVE MatchersExact
      BY DEF MatchersExact
    <2>1. ask \in Questions
      BY DEF AskInv
    <2>2. CASE ask.kind = "path"
      <3>1. ask.pat \in Seq(Seq(STRING)) /\ ask.text \in Seq(Seq(STRING))
        BY <2>1, <2>2, QuestionsAssumption DEF Texts
      <3>2. matchSegments(ask.pat, ask.text) <=> SpellsPath(ask.pat, ask.text)
        BY <3>1, MatchersMean
      <3>. QED  BY <3>2, <2>2 DEF MatchersExact
    <2>3. CASE ask.kind # "path"
      <3>1. ask.pat \in Seq(STRING) /\ ask.text \in Seq(STRING)
        BY <2>1, <2>3, QuestionsAssumption DEF Texts
      <3>2. /\ matchSegment(ask.pat, ask.text) <=> SpellsText(ask.pat, ask.text)
            /\ globMatch(ask.pat, ask.text) <=> SpellsText(ask.pat, ask.text)
        BY <3>1, MatchersMean
      <3>. QED  BY <3>2, <2>3 DEF MatchersExact
    <2>. QED  BY <2>2, <2>3
  <1>. QED  BY <1>1, <1>2, <1>3, PTL DEF SbxSpec

-----------------------------------------------------------------------------
\* Rule r fits a request, by the meaning of its patterns (what Says looks for).
RuleFits(r, method, host, port, path) ==
  /\ host # <<>> /\ SpellsText(r.host, host)
  /\ r.ports = {} \/ port \in r.ports
  /\ IF path = NoPath
       THEN r.access = "allow" \/ r.paths = {}
       ELSE /\ r.methods = {} \/ \E m \in r.methods : Fold(m) = Fold(method)
            /\ r.paths = {} \/ \E g \in r.paths : SpellsPath(g, path)

\* The rules of list that fit and come before every other one that does.
LEMMA SaysFirst ==
  ASSUME NEW list, NEW method, NEW host, NEW port, NEW path, NEW r
  PROVE  r \in Says(list, method, host, port, path) <=>
           \E k \in DOMAIN list :
              /\ r = list[k]
              /\ RuleFits(list[k], method, host, port, path)
              /\ \A j \in 1 .. k - 1 : ~RuleFits(list[j], method, host, port, path)
  BY DEF Says, RuleFits

\* Nothing but the empty text is spelled by the empty pattern.
LEMMA EmptySpells ==
  ASSUME NEW A, NEW text \in Seq(A), SpellsText(<<>>, text)
  PROVE  text = <<>>
  <1>1. \E cut \in [1 .. Len(<<>>) + 1 -> 0 .. Len(text)] :
           cut[1] = 0 /\ cut[Len(<<>>) + 1] = Len(text)
    BY DEF SpellsText, Spells
  <1>2. Len(<<>>) + 1 = 1
    OBVIOUS
  <1>3. Len(text) = 0
    BY <1>1, <1>2
  <1>. QED  BY <1>3

\* A rule decides a request exactly when it fits it.
LEMMA FitsDecides ==
  ASSUME NEW r, IsRule(r), NEW method, NEW host \in Texts, NEW port, NEW path \in Seq(Texts)
  PROVE  RuleFits(r, method, host, port, path)
           <=> host # <<>> /\ Decides(r, method, host, port, path)
  <1>1. r.host \in Texts /\ r.paths \subseteq Seq(Texts) /\ r.access \in {"allow", "deny"}
    BY DEF IsRule
  <1>2. host # <<>> => (SpellsText(r.host, host) <=> matchHost(r.host, host))
    <2>. HAVE host # <<>>
    <2>1. globMatch(r.host, host) <=> SpellsText(r.host, host)
      BY <1>1, MatchersMean DEF Texts
    <2>2. r.host = <<>> => ~SpellsText(r.host, host)
      BY EmptySpells DEF Texts
    <2>. QED  BY <2>1, <2>2 DEF matchHost
  <1>3. \A g \in r.paths : matchSegments(g, path) <=> SpellsPath(g, path)
    <2>. TAKE g \in r.paths
    <2>1. g \in Seq(Seq(STRING)) /\ path \in Seq(Seq(STRING))
      BY <1>1 DEF Texts
    <2>. QED  BY <2>1, MatchersMean
  <1>4. (r.paths = {} \/ \E g \in r.paths : SpellsPath(g, path)) <=> matchPath(r.paths, path)
    BY <1>3 DEF matchPath
  <1>5. (r.methods = {} \/ \E m \in r.methods : Fold(m) = Fold(method))
           <=> matchMethod(r.methods, method)
    BY DEF matchMethod
  <1>6. (r.ports = {} \/ port \in r.ports) <=> matchPort(r.ports, port)
    BY DEF matchPort
  <1>7. (r.access = "allow" \/ r.paths = {}) <=> ~(r.access = "deny" /\ r.paths # {})
    BY <1>1
  <1>. QED  BY <1>2, <1>4, <1>5, <1>6, <1>7 DEF RuleFits, Decides

\* A list of rules says what MatchEgress returns: the same rule, or none.
LEMMA SaysMatch ==
  ASSUME NEW list, IsRuleList(list),
         NEW method, NEW host \in Texts, NEW port, NEW path \in Seq(Texts)
  PROVE  LET m == MatchEgress(list, method, host, port, path)
         IN  /\ m # Nil => m \in Says(list, method, host, port, path)
             /\ \A r \in Says(list, method, host, port, path) : r = m /\ IsRule(r)
  <1>. DEFINE m == MatchEgress(list, method, host, port, path)
              D(i) == Decides(list[i], method, host, port, path)
              hits == {i \in DOMAIN list : D(i)}
              F(i) == RuleFits(list[i], method, host, port, path)
  <1>1. DOMAIN list = 1 .. Len(list) /\ Len(list) \in Nat
    BY DEF IsRuleList
  <1>2. \A i \in DOMAIN list : IsRule(list[i]) /\ list[i] # Nil
    BY DEF IsRuleList, IsRule
  <1>3. ASSUME NEW i \in DOMAIN list PROVE F(i) <=> host # <<>> /\ D(i)
    BY <1>2, FitsDecides
  <1>4. m = IF host = <<>> \/ hits = {} THEN Nil
            ELSE list[CHOOSE i \in hits : \A k \in hits : i <= k]
    BY DEF MatchEgress
  <1>. HIDE DEF D, F, m
  <1>5. ASSUME host # <<>>, NEW k \in hits, \A j \in hits : k <= j
        PROVE  m = list[k]
    <2>1. (CHOOSE i \in hits : \A j \in hits : i <= j) = k
      <3>1. \A i \in hits : (\A j \in hits : i <= j) => i = k
        BY <1>1, <1>5
      <3>. QED  BY <3>1, <1>5
    <2>. QED  BY <2>1, <1>4, <1>5
  <1>6. m # Nil => m \in Says(list, method, host, port, path)
    <2>. HAVE m # Nil
    <2>1. host # <<>> /\ hits # {}
      BY <1>4
    <2>0. hits \subseteq Nat
      BY <1>1
    <2>2. PICK k \in hits : \A j \in hits : k <= j
      <3>. HIDE DEF hits
      <3>. QED  BY <2>0, <2>1, LeastNat
    <2>3. m = list[k]
      BY <1>5, <2>1, <2>2
    <2>4. F(k)
      BY <1>3, <2>1
    <2>5. \A j \in 1 .. k - 1 : ~F(j)
      BY <1>1, <1>3, <2>2
    <2>. QED  BY <2>3, <2>4, <2>5, SaysFirst DEF F
  <1>7. ASSUME NEW r \in Says(list, method, host, port, path) PROVE r = m /\ IsRule(r)
    <2>1. PICK k \in DOMAIN list : r = list[k] /\ F(k) /\ \A j \in 1 .. k - 1 : ~F(j)
      BY SaysFirst DEF F
    <2>2. host # <<>> /\ k \in hits
      BY <2>1, <1>3
    <2>3. \A j \in hits : k <= j
      BY <2>1, <2>2, <1>1, <1>3
    <2>4. m = list[k]
      BY <1>5, <2>2, <2>3
    <2>. QED  BY <2>1, <2>4, <1>2
  <1>. QED  BY <1>6, <1>7 DEF m

\* The fields of a flow's state.
FlowFields == {"pc", "stage", "ac", "rule", "ch", "up", "events", "shown", "out", "sent", "got"}

\* The places of a flow that was let in and has sent nothing yet.
LetIn == {"granted", "raw", "inner", "serving", "splice", "hijack", "get", "probe", "dial", "write"}

\* The allow rules with which one of lists decides request q at path.
Grants(q, lists, path) ==
  {r \in {MatchEgress(l, q.method, q.host, q.port, path) : l \in lists} :
      r # Nil /\ r.access = "allow"}

\* The path a check made at stage is about.
PathAt(q, stage) == IF stage = "request" THEN q.path ELSE NoPath

\* What was sent had its grant among lists.
SentInv(w, q, sent, lists) ==
  /\ sent \in {"none", "request", "opaque", "host"}
  /\ sent = "request" => Grants(q, lists, q.path) # {}
  /\ sent = "opaque"  => \E r \in Grants(q, lists, NoPath) : r.paths = {} /\ r.methods = {}
  /\ sent = "host"    => \E r \in Grants(q, lists, NoPath) :
                            q.entry = "tls" /\ w.ca /\ ~w.passAll => r.pass

\* A flow with request q in state s, checked against lists, while list is the
\* rules of its source, c the channel and re the reload in progress.
FlowInv(w, q, s, lists, list, c, re) ==
  /\ DOMAIN s = FlowFields
  /\ s.ch \in Nat /\ s.ch <= c
  /\ \A l \in lists : IsRuleList(l)
  /\ s.pc \in Checking => list \in lists
  /\ s.pc \in {"new"} \cup Checking \cup LetIn => s.sent = "none"
  /\ s.stage = "connect" => q.entry = "connect"
  /\ s.pc \in {"raw", "inner", "serving", "splice"} => s.stage = "hello"
  /\ s.pc = "hijack" => s.stage = "connect"
  /\ s.pc \in {"get", "probe", "dial", "write"} => s.stage = "request"
  /\ s.pc \in LetIn => s.rule \in Grants(q, lists, PathAt(q, s.stage))
  /\ s.pc = "raw" => ~(w.ca /\ ~s.rule.pass /\ ~w.passAll)
  /\ s.pc = "splice" => s.rule.paths = {} /\ s.rule.methods = {}
  /\ s.pc = "wait" /\ s.ch = c /\ (re # Nil => re.pc = "rules")
       => Grants(q, {list}, PathAt(q, s.stage)) = {}
  /\ SentInv(w, q, s.sent, lists)

\* The types of the proxy's state, as far as mediation depends on them.
ProxyShape ==
  /\ world \in Worlds
  /\ IsPolicy(rules)
  /\ chan \in Nat
  /\ reload # Nil => \E r \in Reloads, pc \in {"rules", "notify"} :
                        reload = [pc |-> pc, policy |-> r.policy]
  /\ flow = [f \in Flows |-> flow[f]]
  /\ since = [f \in Flows |-> since[f]]

\* The inductive invariant of mediation.
ProxyInv ==
  /\ ProxyShape
  /\ \A f \in Flows :
       FlowInv(world, Req(f), flow[f], since[f], rulesForSource(Req(f).src), chan, reload)
-----------------------------------------------------------------------------
\* The bucket of a source holds a list of rules.
LEMMA BucketList ==
  ASSUME NEW map, IsPolicy(map), NEW src
  PROVE  IsRuleList(Bucket(map, src, <<>>))
  <1>1. CASE src \in DOMAIN map
    BY <1>1 DEF Bucket, IsPolicy
  <1>2. CASE src \notin DOMAIN map /\ AllSrc \in DOMAIN map
    BY <1>2 DEF Bucket, IsPolicy
  <1>3. CASE src \notin DOMAIN map /\ AllSrc \notin DOMAIN map
    <2>1. Bucket(map, src, <<>>) = <<>>
      BY <1>3 DEF Bucket
    <2>2. DOMAIN <<>> = {} /\ <<>> \in Seq({})
      OBVIOUS
    <2>3. {<<>>[i] : i \in DOMAIN <<>>} = {}
      BY <2>2
    <2>. QED  BY <2>1, <2>2, <2>3 DEF IsRuleList
  <1>. QED  BY <1>1, <1>2, <1>3

\* A grant of some lists is one of more lists.
LEMMA GrantsGrow ==
  ASSUME NEW q, NEW lists, NEW more, lists \subseteq more, NEW path
  PROVE  Grants(q, lists, path) \subseteq Grants(q, more, path)
  BY DEF Grants

\* Match finds the grant of the source's current rules, if there is one.
LEMMA MatchGrants ==
  ASSUME NEW f
  PROVE  LET now == Grants(Req(f), {rulesForSource(Req(f).src)}, PathAt(Req(f), flow[f].stage))
         IN  /\ Match(f) # Nil => Match(f) \in now
             /\ Match(f) = Nil => now = {}
  BY DEF Match, Grants, PathAt

\* A flow's step leaves the other flows' invariants alone.
LEMMA FlowSteps ==
  ASSUME ProxyInv, NEW f \in Flows, UNCHANGED <<world, policyVars>>,
         NEW t, flow' = [flow EXCEPT ![f] = t],
         NEW ls, since' = [since EXCEPT ![f] = ls],
         FlowInv(world, Req(f), t, ls, rulesForSource(Req(f).src), chan, reload)
  PROVE  ProxyInv'
  <1>1. /\ flow'[f] = t /\ since'[f] = ls
        /\ \A g \in Flows \ {f} : flow'[g] = flow[g] /\ since'[g] = since[g]
        /\ flow' = [g \in Flows |-> flow'[g]] /\ since' = [g \in Flows |-> since'[g]]
    BY DEF ProxyInv, ProxyShape
  <1>2. world' = world /\ rules' = rules /\ chan' = chan /\ reload' = reload
    BY DEF policyVars
  <1>3. \A g : Req(g)' = Req(g) /\ rulesForSource(Req(g).src)' = rulesForSource(Req(g).src)
    BY <1>2 DEF Req, rulesForSource
  <1>4. ProxyShape'
    BY <1>1, <1>2 DEF ProxyInv, ProxyShape
  <1>5. \A g \in Flows :
          FlowInv(world, Req(g), flow'[g], since'[g], rulesForSource(Req(g).src), chan, reload)
    BY <1>1 DEF ProxyInv
  <1>. QED  BY <1>2, <1>3, <1>4, <1>5 DEF ProxyInv

\* Flow f goes on with the fields of r.
Became(f, r) ==
  \E t : /\ flow' = [flow EXCEPT ![f] = t] /\ DOMAIN t = FlowFields
         /\ \A k \in {"pc", "stage", "rule", "ch", "sent"} :
               t[k] = IF k \in DOMAIN r THEN r[k] ELSE flow[f][k]

\* Move changes the fields it names.
LEMMA MoveBecomes ==
  ASSUME ProxyInv, NEW f \in Flows, NEW r, Move(f, r)
  PROVE  Became(f, r)
  <1>. DEFINE t == With(flow[f], r)
  <1>1. DOMAIN flow[f] = FlowFields
    BY DEF ProxyInv, FlowInv
  <1>2. flow' = [flow EXCEPT ![f] = t]
    BY DEF Move, ProxyInv, ProxyShape
  <1>3. DOMAIN t = FlowFields /\ \A k \in FlowFields : t[k] = IF k \in DOMAIN r THEN r[k] ELSE flow[f][k]
    BY <1>1 DEF With
  <1>4. {"pc", "stage", "rule", "ch", "sent"} \subseteq FlowFields
    BY DEF FlowFields
  <1>. HIDE DEF t
  <1>5. \A k \in {"pc", "stage", "rule", "ch", "sent"} :
               t[k] = IF k \in DOMAIN r THEN r[k] ELSE flow[f][k]
    BY <1>3, <1>4
  <1>. QED  BY <1>2, <1>3, <1>5 DEF Became

\* Log changes the fields it names and the events.
LEMMA LogBecomes ==
  ASSUME ProxyInv, NEW f \in Flows, NEW evs, NEW r, Log(f, evs, r)
  PROVE  Became(f, r)
  <1>. DEFINE e == [events |-> audit(f, flow[f].ac, evs)]
              u == With(flow[f], r)
              t == With(u, e)
  <1>1. DOMAIN flow[f] = FlowFields
    BY DEF ProxyInv, FlowInv
  <1>2. flow' = [flow EXCEPT ![f] = t]
    BY DEF Log, ProxyInv, ProxyShape
  <1>3. DOMAIN u = FlowFields /\ \A k \in FlowFields : u[k] = IF k \in DOMAIN r THEN r[k] ELSE flow[f][k]
    BY <1>1 DEF With
  <1>4. DOMAIN e = {"events"}
    OBVIOUS
  <1>. HIDE DEF u, e
  <1>5. DOMAIN t = FlowFields /\ \A k \in FlowFields : k # "events" => t[k] = u[k]
    BY <1>3, <1>4 DEF With
  <1>6. {"pc", "stage", "rule", "ch", "sent"} \subseteq FlowFields \ {"events"}
    BY DEF FlowFields
  <1>. HIDE DEF t
  <1>7. \A k \in {"pc", "stage", "rule", "ch", "sent"} :
               t[k] = IF k \in DOMAIN r THEN r[k] ELSE flow[f][k]
    BY <1>3, <1>5, <1>6
  <1>. QED  BY <1>2, <1>5, <1>7 DEF Became

\* The steps that keep since, from what they do to the flow's own state.
LEMMA BecameSteps ==
  ASSUME ProxyInv, NEW f \in Flows, UNCHANGED <<world, policyVars, since>>,
         NEW r, Became(f, r),
         \A t : /\ DOMAIN t = FlowFields
                /\ \A k \in {"pc", "stage", "rule", "ch", "sent"} :
                     t[k] = IF k \in DOMAIN r THEN r[k] ELSE flow[f][k]
                => FlowInv(world, Req(f), t, since[f], rulesForSource(Req(f).src), chan, reload)
  PROVE  ProxyInv'
  <1>1. PICK t : /\ flow' = [flow EXCEPT ![f] = t] /\ DOMAIN t = FlowFields
                 /\ \A k \in {"pc", "stage", "rule", "ch", "sent"} :
                       t[k] = IF k \in DOMAIN r THEN r[k] ELSE flow[f][k]
    BY DEF Became
  <1>2. FlowInv(world, Req(f), t, since[f], rulesForSource(Req(f).src), chan, reload)
    BY <1>1
  <1>3. since' = [since EXCEPT ![f] = since[f]]
    BY DEF ProxyInv, ProxyShape
  <1>. QED  BY <1>1, <1>2, <1>3, FlowSteps

\* The places of a flow that is past its checks and its first write.
Over == {"done", "tunnel", "read", "body", "put"}

\* A flow that is over, or goes on with what it already sent, stays authorised.
LEMMA Ends ==
  ASSUME ProxyInv, NEW f \in Flows, UNCHANGED <<world, policyVars, since>>,
         NEW r, Became(f, r), DOMAIN r \cap {"stage", "ch", "sent"} = {},
         (IF "pc" \in DOMAIN r THEN r["pc"] ELSE flow[f].pc) \in Over
  PROVE  ProxyInv'
  <1>. DEFINE P == FlowInv(world, Req(f), flow[f], since[f], rulesForSource(Req(f).src), chan, reload)
  <1>1. P
    BY DEF ProxyInv
  <1>2. ASSUME NEW t, DOMAIN t = FlowFields,
               \A k \in {"pc", "stage", "rule", "ch", "sent"} :
                  t[k] = IF k \in DOMAIN r THEN r[k] ELSE flow[f][k]
        PROVE  FlowInv(world, Req(f), t, since[f], rulesForSource(Req(f).src), chan, reload)
    <2>1. t.stage = flow[f].stage /\ t.ch = flow[f].ch /\ t.sent = flow[f].sent /\ t.pc \in Over
      BY <1>2
    <2>. QED  BY <1>1, <1>2, <2>1 DEF FlowInv, Over, Checking, LetIn
  <1>. QED  BY <1>2, BecameSteps

\* A check begins: the rules of now are the ones it is made with.
LEMMA Begins ==
  ASSUME ProxyInv, NEW f \in Flows, UNCHANGED <<world, policyVars>>,
         NEW stage, Begin(f, stage), flow[f].pc \in {"new", "inner"},
         stage = "connect" => Req(f).entry = "connect"
  PROVE  ProxyInv'
  <1>. DEFINE now == rulesForSource(Req(f).src)
              r == [pc |-> "match", stage |-> stage, ac |-> flow[f].ac + 1]
  <1>1. FlowInv(world, Req(f), flow[f], since[f], now, chan, reload)
    BY DEF ProxyInv
  <1>2. IsRuleList(now)
    BY BucketList DEF ProxyInv, ProxyShape, rulesForSource
  <1>3. Became(f, r)
    BY MoveBecomes DEF Begin
  <1>4. PICK t : /\ flow' = [flow EXCEPT ![f] = t] /\ DOMAIN t = FlowFields
                 /\ \A k \in {"pc", "stage", "rule", "ch", "sent"} :
                       t[k] = IF k \in DOMAIN r THEN r[k] ELSE flow[f][k]
    BY <1>3 DEF Became
  <1>5. t.pc = "match" /\ t.stage = stage /\ t.ch = flow[f].ch /\ t.sent = flow[f].sent
    BY <1>4
  <1>6. flow[f].sent = "none"
    BY <1>1 DEF FlowInv, LetIn
  <1>7. SentInv(world, Req(f), "none", {now})
    BY DEF SentInv
  <1>8. FlowInv(world, Req(f), t, {now}, now, chan, reload)
    <2>. HIDE DEF now
    <2>. QED  BY <1>1, <1>2, <1>4, <1>5, <1>6, <1>7 DEF FlowInv, Checking, LetIn
  <1>9. since' = [since EXCEPT ![f] = {now}]
    BY DEF Begin
  <1>. QED  BY <1>4, <1>8, <1>9, FlowSteps

\* A check goes on without a verdict.
LEMMA GoesOn ==
  ASSUME ProxyInv, NEW f \in Flows, UNCHANGED <<world, policyVars, since>>,
         flow[f].pc \in Checking,
         NEW r, Became(f, r), DOMAIN r \cap {"stage", "sent", "rule"} = {},
         "pc" \in DOMAIN r, r["pc"] \in Checking,
         "ch" \in DOMAIN r => r["ch"] = chan,
         r["pc"] = "wait" => Match(f) = Nil
  PROVE  ProxyInv'
  <1>. DEFINE now == rulesForSource(Req(f).src)
  <1>1. FlowInv(world, Req(f), flow[f], since[f], now, chan, reload)
    BY DEF ProxyInv
  <1>2. ASSUME NEW t, DOMAIN t = FlowFields,
               \A k \in {"pc", "stage", "rule", "ch", "sent"} :
                  t[k] = IF k \in DOMAIN r THEN r[k] ELSE flow[f][k]
        PROVE  FlowInv(world, Req(f), t, since[f], now, chan, reload)
    <2>1. /\ t.stage = flow[f].stage /\ t.sent = flow[f].sent /\ t.pc \in Checking
          /\ t.ch \in {flow[f].ch, chan}
          /\ t.pc = "wait" => Match(f) = Nil
      BY <1>2
    <2>2. chan \in Nat /\ t.ch \in Nat /\ t.ch <= chan
      BY <1>1, <2>1 DEF ProxyInv, ProxyShape, FlowInv
    <2>3. t.pc = "wait" => Grants(Req(f), {now}, PathAt(Req(f), t.stage)) = {}
      BY <2>1, MatchGrants
    <2>. HIDE DEF now
    <2>. QED  BY <1>1, <1>2, <2>1, <2>2, <2>3 DEF FlowInv, Checking, LetIn
  <1>. HIDE DEF now
  <1>. QED  BY <1>2, BecameSteps DEF now

\* A check grants: the rule found decides under the rules of now.
LEMMA LetsIn ==
  ASSUME ProxyInv, NEW f \in Flows, UNCHANGED <<world, policyVars, since>>,
         flow[f].pc \in Checking, Match(f) # Nil, Granted(f)
  PROVE  ProxyInv'
  <1>. DEFINE now == rulesForSource(Req(f).src)
              r == [pc |-> "granted", rule |-> Match(f)]
  <1>1. FlowInv(world, Req(f), flow[f], since[f], now, chan, reload)
    BY DEF ProxyInv
  <1>2. Became(f, r)
    BY MoveBecomes DEF Granted
  <1>3. Match(f) \in Grants(Req(f), since[f], PathAt(Req(f), flow[f].stage))
    <2>1. {now} \subseteq since[f]
      BY <1>1 DEF FlowInv
    <2>. QED  BY <2>1, MatchGrants, GrantsGrow
  <1>4. ASSUME NEW t, DOMAIN t = FlowFields,
               \A k \in {"pc", "stage", "rule", "ch", "sent"} :
                  t[k] = IF k \in DOMAIN r THEN r[k] ELSE flow[f][k]
        PROVE  FlowInv(world, Req(f), t, since[f], now, chan, reload)
    <2>1. /\ t.pc = "granted" /\ t.rule = Match(f)
          /\ t.stage = flow[f].stage /\ t.sent = flow[f].sent /\ t.ch = flow[f].ch
      BY <1>4
    <2>. HIDE DEF now
    <2>. QED  BY <1>1, <1>3, <1>4, <2>1 DEF FlowInv, Checking, LetIn
  <1>. HIDE DEF r, now
  <1>. QED  BY <1>2, <1>4, BecameSteps DEF now

\* A flow that was let in moves on, before its first write, keeping its rule.
LEMMA StaysIn ==
  ASSUME ProxyInv, NEW f \in Flows, UNCHANGED <<world, policyVars, since>>,
         flow[f].pc \in LetIn,
         NEW r, Became(f, r), DOMAIN r \cap {"stage", "sent", "rule", "ch"} = {},
         "pc" \in DOMAIN r, r["pc"] \in LetIn,
         r["pc"] \in {"raw", "inner", "serving", "splice"} => flow[f].stage = "hello",
         r["pc"] = "hijack" => flow[f].stage = "connect",
         r["pc"] \in {"get", "probe", "dial", "write"} => flow[f].stage = "request",
         r["pc"] = "raw" => ~Intercepts(f),
         r["pc"] = "splice" => flow[f].rule.paths = {} /\ flow[f].rule.methods = {}
  PROVE  ProxyInv'
  <1>. DEFINE now == rulesForSource(Req(f).src)
  <1>1. FlowInv(world, Req(f), flow[f], since[f], now, chan, reload)
    BY DEF ProxyInv
  <1>2. ASSUME NEW t, DOMAIN t = FlowFields,
               \A k \in {"pc", "stage", "rule", "ch", "sent"} :
                  t[k] = IF k \in DOMAIN r THEN r[k] ELSE flow[f][k]
        PROVE  FlowInv(world, Req(f), t, since[f], now, chan, reload)
    <2>1. /\ t.stage = flow[f].stage /\ t.sent = flow[f].sent
          /\ t.ch = flow[f].ch /\ t.rule = flow[f].rule /\ t.pc = r["pc"]
      BY <1>2
    <2>. HIDE DEF now
    <2>. QED  BY <1>1, <1>2, <2>1 DEF FlowInv, Checking, LetIn, Intercepts
  <1>. HIDE DEF now
  <1>. QED  BY <1>2, BecameSteps DEF now

\* The first write of a flow that was let in.
LEMMA Sends ==
  ASSUME ProxyInv, NEW f \in Flows, UNCHANGED <<world, policyVars, since>>,
         flow[f].pc \in LetIn,
         NEW r, Became(f, r), DOMAIN r \cap {"rule", "ch"} = {},
         "pc" \in DOMAIN r, r["pc"] \in Over, "sent" \in DOMAIN r,
         "stage" \in DOMAIN r => r["stage"] # "connect",
         SentInv(world, Req(f), r["sent"], since[f])
  PROVE  ProxyInv'
  <1>. DEFINE now == rulesForSource(Req(f).src)
  <1>1. FlowInv(world, Req(f), flow[f], since[f], now, chan, reload)
    BY DEF ProxyInv
  <1>2. ASSUME NEW t, DOMAIN t = FlowFields,
               \A k \in {"pc", "stage", "rule", "ch", "sent"} :
                  t[k] = IF k \in DOMAIN r THEN r[k] ELSE flow[f][k]
        PROVE  FlowInv(world, Req(f), t, since[f], now, chan, reload)
    <2>1. /\ t.stage = "connect" => flow[f].stage = "connect"
          /\ t.sent = r["sent"] /\ t.ch = flow[f].ch /\ t.pc \in Over
      BY <1>2
    <2>. HIDE DEF now
    <2>. QED  BY <1>1, <1>2, <2>1 DEF FlowInv, Checking, LetIn, Over
  <1>. HIDE DEF now
  <1>. QED  BY <1>2, BecameSteps DEF now

\* The value of FlowInv that ProxyInv gives a flow.
LEMMA OwnInv ==
  ASSUME ProxyInv, NEW f \in Flows
  PROVE  FlowInv(world, Req(f), flow[f], since[f], rulesForSource(Req(f).src), chan, reload)
  BY DEF ProxyInv

\* Arrivals begin a check or end the flow.
LEMMA ArrivalKeeps ==
  ASSUME ProxyInv, NEW f \in Flows, Arrival(f)
  PROVE  ProxyInv'
  <1>. DEFINE gone == [pc |-> "done"]
              refused == [pc |-> "done", ac |-> flow[f].ac + 1,
                          events |-> audit(f, flow[f].ac + 1, deny)]
  <1>1. CASE DropDirect(f) \/ BadRequest(f)
    <2>1. Became(f, gone) /\ UNCHANGED <<world, policyVars, since>>
      BY <1>1, MoveBecomes DEF DropDirect, BadRequest
    <2>. QED  BY <2>1, Ends DEF Over
  <1>2. CASE UNCHANGED <<world, policyVars, since>> /\ DenyFresh(f)
    <2>1. Became(f, refused)
      BY <1>2, MoveBecomes DEF DenyFresh
    <2>. QED  BY <1>2, <2>1, Ends DEF Over
  <1>3. CASE handleTransparent(f)
    BY <1>2, <1>3 DEF handleTransparent
  <1>4. CASE acceptHTTP(f)
    BY <1>4, Begins DEF acceptHTTP, At
  <1>5. CASE acceptHost(f)
    <2>. DEFINE stage == IF Req(f).entry = "tls" THEN "hello" ELSE "connect"
    <2>1. Begin(f, stage) /\ (stage = "connect" => Req(f).entry = "connect")
      BY <1>5 DEF acceptHost
    <2>2. flow[f].pc = "new" /\ UNCHANGED <<world, policyVars>>
      BY <1>5 DEF acceptHost, At
    <2>. HIDE DEF stage
    <2>. QED  BY <2>1, <2>2, Begins
  <1>6. CASE handleInnerH2(f)
    <2>1. CASE Req(f).ws
      BY <1>2, <1>6, <2>1 DEF handleInnerH2
    <2>2. CASE ~Req(f).ws
      BY <1>6, <2>2, Begins DEF handleInnerH2, At
    <2>. QED  BY <2>1, <2>2
  <1>. QED  BY <1>1, <1>3, <1>4, <1>5, <1>6 DEF Arrival

\* The steps of a check.
LEMMA CheckKeeps ==
  ASSUME ProxyInv, NEW f \in Flows, Check(f)
  PROVE  ProxyInv'
  <1>. DEFINE to(p) == [pc |-> p]
  <1>0. UNCHANGED <<world, policyVars, since>>
    BY DEF Check, FirstMatch, Grace, policyChan, Rematch, Wake, GiveUp
  <1>1. CASE FirstMatch(f)
    <2>1. CASE Match(f) # Nil /\ Granted(f)
      BY <1>0, <1>1, <2>1, LetsIn DEF FirstMatch, At, Checking
    <2>2. CASE Match(f) = Nil /\ Move(f, to("grace"))
      <3>1. Became(f, to("grace")) /\ flow[f].pc = "match"
        BY <1>1, <2>2, MoveBecomes DEF FirstMatch, At
      <3>. QED  BY <1>0, <3>1, GoesOn DEF Checking
    <2>. QED  BY <1>1, <2>1, <2>2 DEF FirstMatch
  <1>2. CASE Grace(f)
    <2>1. CASE Log(f, deny, to("done"))
      <3>1. Became(f, to("done"))
        BY <2>1, LogBecomes
      <3>. QED  BY <1>0, <3>1, Ends DEF Over
    <2>2. CASE Log(f, <<denyRequest>>, to("capture"))
      <3>1. Became(f, to("capture")) /\ flow[f].pc = "grace"
        BY <1>2, <2>2, LogBecomes DEF Grace, At
      <3>. QED  BY <1>0, <3>1, GoesOn DEF Checking
    <2>. QED  BY <1>2, <2>1, <2>2 DEF Grace
  <1>3. CASE policyChan(f)
    <2>. DEFINE r == [pc |-> "rematch", ch |-> chan]
    <2>1. Became(f, r) /\ flow[f].pc = "capture"
      BY <1>3, MoveBecomes DEF policyChan, At
    <2>. QED  BY <1>0, <2>1, GoesOn DEF Checking
  <1>4. CASE Rematch(f)
    <2>1. CASE Match(f) # Nil /\ Granted(f)
      BY <1>0, <1>4, <2>1, LetsIn DEF Rematch, At, Checking
    <2>2. CASE Match(f) = Nil /\ Move(f, to("wait"))
      <3>1. Became(f, to("wait")) /\ flow[f].pc = "rematch"
        BY <1>4, <2>2, MoveBecomes DEF Rematch, At
      <3>. QED  BY <1>0, <2>2, <3>1, GoesOn DEF Checking
    <2>. QED  BY <1>4, <2>1, <2>2 DEF Rematch
  <1>5. CASE Wake(f)
    <2>1. Became(f, to("capture")) /\ flow[f].pc = "wait"
      BY <1>5, MoveBecomes DEF Wake, At
    <2>. QED  BY <1>0, <2>1, GoesOn DEF Checking
  <1>6. CASE GiveUp(f)
    <2>1. Became(f, to("done"))
      BY <1>6, LogBecomes DEF GiveUp
    <2>. QED  BY <1>0, <2>1, Ends DEF Over
  <1>. QED  BY <1>1, <1>2, <1>3, <1>4, <1>5, <1>6 DEF Check

\* The steps of an allowed connection.
LEMMA TunnelKeeps ==
  ASSUME ProxyInv, NEW f \in Flows, Tunnel(f)
  PROVE  ProxyInv'
  <1>. DEFINE to(p) == [pc |-> p]
              closing == [pc |-> "done", up |-> Nil]
              refused == [pc |-> "done", ac |-> flow[f].ac + 1,
                          events |-> audit(f, flow[f].ac + 1, deny)]
              now == rulesForSource(Req(f).src)
  <1>0. FlowInv(world, Req(f), flow[f], since[f], now, chan, reload)
    BY OwnInv
  <1>. HIDE DEF now
  <1>r. CASE UNCHANGED <<world, policyVars, since>> /\ DenyFresh(f)
    <2>1. Became(f, refused)
      BY <1>r, MoveBecomes DEF DenyFresh
    <2>. QED  BY <1>r, <2>1, Ends DEF Over
  <1>1. CASE handleTransparentTLS(f)
    <2>. DEFINE p == IF Intercepts(f) THEN "inner" ELSE "raw"
    <2>1. Became(f, to(p)) /\ flow[f].pc = "granted" /\ flow[f].stage = "hello"
      BY <1>1, MoveBecomes DEF handleTransparentTLS, At
    <2>2. UNCHANGED <<world, policyVars, since>>
      BY <1>1 DEF handleTransparentTLS
    <2>3. p \in {"inner", "raw"} /\ (p = "raw" => ~Intercepts(f))
      OBVIOUS
    <2>. HIDE DEF p
    <2>. QED  BY <2>1, <2>2, <2>3, StaysIn DEF LetIn
  <1>2. CASE rawForwardTLS(f)
    <2>0. UNCHANGED <<world, policyVars, since>> /\ flow[f].pc = "raw"
      BY <1>2 DEF rawForwardTLS, At
    <2>1. CASE DenyFresh(f)
      BY <1>r, <2>0, <2>1
    <2>2. CASE \E c \in Conns : Move(f, [pc |-> "tunnel", up |-> c, sent |-> "host"])
      <3>1. PICK c \in Conns : Move(f, [pc |-> "tunnel", up |-> c, sent |-> "host"])
        BY <2>2
      <3>. DEFINE r == [pc |-> "tunnel", up |-> c, sent |-> "host"]
      <3>2. Became(f, r)
        BY <3>1, MoveBecomes
      <3>3. SentInv(world, Req(f), "host", since[f])
        BY <1>0, <2>0 DEF FlowInv, SentInv, LetIn, PathAt
      <3>. QED  BY <2>0, <3>2, <3>3, Sends DEF LetIn, Over
    <2>. QED  BY <1>2, <2>1, <2>2 DEF rawForwardTLS
  <1>3. CASE interceptTLS(f)
    <2>0. UNCHANGED <<world, policyVars>> /\ flow[f].pc = "inner" /\ flow[f].stage = "hello"
      BY <1>0, <1>3 DEF interceptTLS, At, FlowInv
    <2>1. CASE DenyFresh(f) /\ UNCHANGED since
      BY <1>r, <2>0, <2>1
    <2>2. CASE Move(f, to("serving")) /\ UNCHANGED since
      <3>1. Became(f, to("serving"))
        BY <2>2, MoveBecomes
      <3>. QED  BY <2>0, <2>2, <3>1, StaysIn DEF LetIn
    <2>3. CASE Move(f, to("done")) /\ UNCHANGED since
      <3>1. Became(f, to("done"))
        BY <2>3, MoveBecomes
      <3>. QED  BY <2>0, <2>3, <3>1, Ends DEF Over
    <2>4. CASE /\ flow[f].rule.paths = {} /\ flow[f].rule.methods = {}
               /\ Move(f, to("splice")) /\ UNCHANGED since
      <3>1. Became(f, to("splice"))
        BY <2>4, MoveBecomes
      <3>. QED  BY <2>0, <2>4, <3>1, StaysIn DEF LetIn
    <2>5. CASE Begin(f, "request")
      BY <2>0, <2>5, Begins
    <2>. QED  BY <1>3, <2>1, <2>2, <2>3, <2>4, <2>5 DEF interceptTLS
  <1>4. CASE closeH2(f)
    <2>1. Became(f, to("done")) /\ UNCHANGED <<world, policyVars, since>>
      BY <1>4, MoveBecomes DEF closeH2
    <2>. QED  BY <2>1, Ends DEF Over
  <1>5. CASE spliceTLS(f)
    <2>0. UNCHANGED <<world, policyVars, since>> /\ flow[f].pc = "splice"
      BY <1>5 DEF spliceTLS, At
    <2>1. CASE DenyFresh(f)
      BY <1>r, <2>0, <2>1
    <2>2. ASSUME NEW c \in Conns,
                 Move(f, [pc |-> "tunnel", up |-> c, sent |-> "opaque", stage |-> "splice",
                          ac |-> flow[f].ac + 1,
                          events |-> audit(f, flow[f].ac + 1, <<allow, response>>)])
          PROVE  ProxyInv'
      <3>. DEFINE r == [pc |-> "tunnel", up |-> c, sent |-> "opaque", stage |-> "splice",
                        ac |-> flow[f].ac + 1,
                        events |-> audit(f, flow[f].ac + 1, <<allow, response>>)]
      <3>2. Became(f, r)
        BY <2>2, MoveBecomes
      <3>3. SentInv(world, Req(f), "opaque", since[f])
        BY <1>0, <2>0 DEF FlowInv, SentInv, LetIn, PathAt
      <3>. QED  BY <2>0, <3>2, <3>3, Sends DEF LetIn, Over
    <2>. QED  BY <1>5, <2>1, <2>2 DEF spliceTLS
  <1>6. CASE handleConnect(f)
    <2>0. /\ UNCHANGED <<world, policyVars, since>>
          /\ flow[f].pc = "granted" /\ flow[f].stage = "connect"
      BY <1>6 DEF handleConnect, At
    <2>1. CASE Log(f, deny, to("done"))
      <3>1. Became(f, to("done"))
        BY <2>1, LogBecomes
      <3>. QED  BY <2>0, <3>1, Ends DEF Over
    <2>2. ASSUME NEW c \in Conns, Log(f, <<allow>>, [pc |-> "hijack", up |-> c])
          PROVE  ProxyInv'
      <3>. DEFINE r == [pc |-> "hijack", up |-> c]
      <3>1. Became(f, r)
        BY <2>2, LogBecomes
      <3>. QED  BY <2>0, <3>1, StaysIn DEF LetIn
    <2>. QED  BY <1>6, <2>1, <2>2 DEF handleConnect
  <1>7. CASE hijack(f)
    <2>0. UNCHANGED <<world, policyVars, since>> /\ flow[f].pc = "hijack"
      BY <1>7 DEF hijack, At
    <2>1. CASE Log(f, <<responseError>>, closing)
      <3>1. Became(f, closing)
        BY <2>1, LogBecomes
      <3>. QED  BY <2>0, <3>1, Ends DEF Over
    <2>2. CASE Move(f, [pc |-> "tunnel", sent |-> "host"])
      <3>. DEFINE r == [pc |-> "tunnel", sent |-> "host"]
      <3>1. Became(f, r)
        BY <2>2, MoveBecomes
      <3>2. SentInv(world, Req(f), "host", since[f])
        BY <1>0, <2>0 DEF FlowInv, SentInv, LetIn, PathAt
      <3>. QED  BY <2>0, <3>1, <3>2, Sends DEF LetIn, Over
    <2>. QED  BY <1>7, <2>1, <2>2 DEF hijack
  <1>8. CASE endTunnel(f)
    <2>1. Log(f, <<response>>, closing) \/ Move(f, closing)
      BY <1>8 DEF endTunnel
    <2>2. Became(f, closing)
      BY <2>1, LogBecomes, MoveBecomes
    <2>3. UNCHANGED <<world, policyVars, since>>
      BY <1>8 DEF endTunnel
    <2>. QED  BY <2>2, <2>3, Ends DEF Over
  <1>. QED  BY <1>1, <1>2, <1>3, <1>4, <1>5, <1>6, <1>7, <1>8 DEF Tunnel

\* The steps of an allowed request.
LEMMA RequestKeeps ==
  ASSUME ProxyInv, NEW f \in Flows, Request(f)
  PROVE  ProxyInv'
  <1>. DEFINE to(p) == [pc |-> p]
              closing == [pc |-> "done", up |-> Nil]
              now == rulesForSource(Req(f).src)
  <1>0. FlowInv(world, Req(f), flow[f], since[f], now, chan, reload)
    BY OwnInv
  <1>. HIDE DEF now
  <1>u. UNCHANGED <<world, policyVars, since>>
    BY DEF Request, handleHTTP, applyRequestRule, get, connAlive, dialUpstream,
           writeUpstreamRequest, forwardHTTP, handleWebSocket, forwardH2Upstream,
           chunkForward, finish, put
  <1>f. CASE Fail(f)
    <2>1. Became(f, closing)
      BY <1>f, LogBecomes DEF Fail
    <2>. QED  BY <1>u, <2>1, Ends DEF Over
  <1>a. ASSUME NEW p \in {"tunnel", "body"}, Answered(f, p)
        PROVE  ProxyInv'
    <2>. DEFINE r == [pc |-> p, got |-> Head(conns[flow[f].up].owed)]
    <2>1. Became(f, r)
      BY <1>a, LogBecomes DEF Answered
    <2>. QED  BY <1>u, <2>1, Ends DEF Over
  <1>1. CASE handleHTTP(f)
    <2>0. flow[f].pc = "granted" /\ flow[f].stage = "request"
      BY <1>1 DEF handleHTTP, At
    <2>1. \E out : Log(f, <<allow>>, [pc |-> "dial", out |-> out, shown |-> out])
      BY <1>1 DEF handleHTTP
    <2>2. PICK out : Log(f, <<allow>>, [pc |-> "dial", out |-> out, shown |-> out])
      BY <2>1
    <2>. DEFINE r == [pc |-> "dial", out |-> out, shown |-> out]
    <2>3. Became(f, r)
      BY <2>2, LogBecomes
    <2>. QED  BY <1>u, <2>0, <2>3, StaysIn DEF LetIn
  <1>2. CASE applyRequestRule(f)
    <2>0. flow[f].pc = "granted" /\ flow[f].stage = "request"
      BY <1>2 DEF applyRequestRule, At
    <2>1. \E p \in {"get", "dial"} : \E out, told :
             Log(f, <<allow>>, [pc |-> p, out |-> out, shown |-> told])
      <3>. DEFINE rule == flow[f].rule
                  over == applyOverride(Agent(f), rule.over)
                  p == IF Pooled(f) THEN "get" ELSE "dial"
                  out == runOverrideScript(over, rule.script, Req(f).large)
                  told == [over EXCEPT !.body = Req(f).body]
      <3>1. Log(f, <<allow>>, [pc |-> p, out |-> out, shown |-> told])
        BY <1>2 DEF applyRequestRule
      <3>2. p \in {"get", "dial"}
        OBVIOUS
      <3>. HIDE DEF p, out, told
      <3>. QED  BY <3>1, <3>2
    <2>2. PICK p \in {"get", "dial"} : \E out, told :
             Log(f, <<allow>>, [pc |-> p, out |-> out, shown |-> told])
      BY <2>1
    <2>4. PICK out, told : Log(f, <<allow>>, [pc |-> p, out |-> out, shown |-> told])
      BY <2>2
    <2>. DEFINE r == [pc |-> p, out |-> out, shown |-> told]
    <2>3. Became(f, r)
      BY <2>4, LogBecomes
    <2>. QED  BY <1>u, <2>0, <2>3, StaysIn DEF LetIn
  <1>3. CASE get(f)
    <2>0. flow[f].pc = "get" /\ flow[f].stage = "request"
      BY <1>0, <1>3 DEF get, At, FlowInv
    <2>1. Move(f, to("dial")) \/ \E c : Move(f, [pc |-> "probe", up |-> c])
      BY <1>3 DEF get
    <2>2. CASE Move(f, to("dial"))
      <3>1. Became(f, to("dial"))
        BY <2>2, MoveBecomes
      <3>. QED  BY <1>u, <2>0, <3>1, StaysIn DEF LetIn
    <2>3. ASSUME NEW c, Move(f, [pc |-> "probe", up |-> c])
          PROVE  ProxyInv'
      <3>. DEFINE r == [pc |-> "probe", up |-> c]
      <3>1. Became(f, r)
        BY <2>3, MoveBecomes
      <3>. QED  BY <1>u, <2>0, <3>1, StaysIn DEF LetIn
    <2>. QED  BY <2>1, <2>2, <2>3
  <1>4. CASE connAlive(f)
    <2>0. flow[f].pc = "probe" /\ flow[f].stage = "request"
      BY <1>0, <1>4 DEF connAlive, At, FlowInv
    <2>1. Move(f, to("write")) \/ Move(f, [pc |-> "get", up |-> Nil])
      BY <1>4 DEF connAlive
    <2>2. CASE Move(f, to("write"))
      <3>1. Became(f, to("write"))
        BY <2>2, MoveBecomes
      <3>. QED  BY <1>u, <2>0, <3>1, StaysIn DEF LetIn
    <2>3. CASE Move(f, [pc |-> "get", up |-> Nil])
      <3>. DEFINE r == [pc |-> "get", up |-> Nil]
      <3>1. Became(f, r)
        BY <2>3, MoveBecomes
      <3>. QED  BY <1>u, <2>0, <3>1, StaysIn DEF LetIn
    <2>. QED  BY <2>1, <2>2, <2>3
  <1>5. CASE dialUpstream(f)
    <2>0. flow[f].pc = "dial" /\ flow[f].stage = "request"
      BY <1>0, <1>5 DEF dialUpstream, At, FlowInv
    <2>1. CASE Log(f, <<responseError>>, to("done"))
      <3>1. Became(f, to("done"))
        BY <2>1, LogBecomes
      <3>. QED  BY <1>u, <3>1, Ends DEF Over
    <2>2. ASSUME NEW c \in Conns, Move(f, [pc |-> "write", up |-> c])
          PROVE  ProxyInv'
      <3>. DEFINE r == [pc |-> "write", up |-> c]
      <3>1. Became(f, r)
        BY <2>2, MoveBecomes
      <3>. QED  BY <1>u, <2>0, <3>1, StaysIn DEF LetIn
    <2>. QED  BY <1>5, <2>1, <2>2 DEF dialUpstream
  <1>6. CASE writeUpstreamRequest(f)
    <2>0. flow[f].pc = "write" /\ flow[f].stage = "request"
      BY <1>0, <1>6 DEF writeUpstreamRequest, At, FlowInv
    <2>1. CASE Move(f, [pc |-> "read", sent |-> "request"])
      <3>. DEFINE r == [pc |-> "read", sent |-> "request"]
      <3>1. Became(f, r)
        BY <2>1, MoveBecomes
      <3>2. SentInv(world, Req(f), "request", since[f])
        BY <1>0, <2>0 DEF FlowInv, SentInv, LetIn, PathAt
      <3>. QED  BY <1>u, <2>0, <3>1, <3>2, Sends DEF LetIn, Over
    <2>. QED  BY <1>6, <1>f, <2>1 DEF writeUpstreamRequest
  <1>7. CASE forwardHTTP(f) \/ handleWebSocket(f) \/ forwardH2Upstream(f)
    BY <1>7, <1>f, <1>a DEF forwardHTTP, handleWebSocket, forwardH2Upstream
  <1>8. CASE chunkForward(f)
    <2>. DEFINE r == [got |-> flow[f].got]
    <2>1. Became(f, r) /\ flow[f].pc \in {"body", "tunnel"}
      BY <1>8, LogBecomes DEF chunkForward, At
    <2>. QED  BY <1>u, <2>1, Ends DEF Over
  <1>9. CASE finish(f)
    <2>1. Move(f, to("put")) \/ Move(f, closing)
      BY <1>9 DEF finish
    <2>2. Became(f, to("put")) \/ Became(f, closing)
      BY <2>1, MoveBecomes
    <2>. QED  BY <1>u, <2>2, Ends DEF Over
  <1>10. CASE put(f)
    <2>1. Became(f, closing)
      BY <1>10, MoveBecomes DEF put
    <2>. QED  BY <1>u, <2>1, Ends DEF Over
  <1>. QED
    BY <1>1, <1>2, <1>3, <1>4, <1>5, <1>6, <1>7, <1>8, <1>9, <1>10 DEF Request

\* A flow that keeps its state keeps its invariant when a reload moves on.
LEMMA ReloadKeeps ==
  ASSUME ProxyInv, SetDenyWaitBySource \/ SetRulesBySource \/ notifyPolicyChange
  PROVE  ProxyInv'
  <1>1. CASE SetDenyWaitBySource
    <2>1. /\ reload = Nil /\ UNCHANGED <<world, rules, chan, flow, since>>
          /\ \E r \in Reloads : reload' = [pc |-> "rules", policy |-> r.policy]
      BY <1>1 DEF SetDenyWaitBySource
    <2>2. ProxyShape'
      BY <2>1 DEF ProxyInv, ProxyShape
    <2>3. ASSUME NEW f \in Flows
          PROVE  FlowInv(world, Req(f), flow[f], since[f], rulesForSource(Req(f).src), chan, reload)'
      <3>1. FlowInv(world, Req(f), flow[f], since[f], rulesForSource(Req(f).src), chan, reload)
        BY OwnInv
      <3>2. Req(f)' = Req(f) /\ rulesForSource(Req(f).src)' = rulesForSource(Req(f).src)
        BY <2>1 DEF Req, rulesForSource
      <3>. QED  BY <2>1, <3>1, <3>2 DEF FlowInv
    <2>. QED  BY <2>2, <2>3 DEF ProxyInv
  <1>2. CASE SetRulesBySource
    <2>1. /\ reload # Nil /\ reload.pc = "rules" /\ rules' = reload.policy
          /\ reload' = [reload EXCEPT !.pc = "notify"]
          /\ UNCHANGED <<world, chan, flow>>
          /\ since' = [f \in Flows |-> IF flow[f].pc \in Checking
                          THEN since[f] \cup {Bucket(reload.policy, Req(f).src, <<>>)}
                          ELSE since[f]]
      BY <1>2 DEF SetRulesBySource
    <2>2. PICK r \in Reloads : reload = [pc |-> "rules", policy |-> r.policy]
      BY <2>1 DEF ProxyInv, ProxyShape
    <2>3. reload' = [pc |-> "notify", policy |-> r.policy] /\ reload' # Nil /\ reload'.pc = "notify"
      BY <2>1, <2>2, ReloadsAssumption
    <2>4. IsPolicy(rules')
      BY <2>1, <2>2, ReloadsAssumption
    <2>5. ProxyShape'
      BY <2>1, <2>3, <2>4 DEF ProxyInv, ProxyShape
    <2>6. ASSUME NEW f \in Flows
          PROVE  FlowInv(world, Req(f), flow[f], since[f], rulesForSource(Req(f).src), chan, reload)'
      <3>. DEFINE now == rulesForSource(Req(f).src)
                  next == Bucket(rules', Req(f).src, <<>>)
      <3>1. FlowInv(world, Req(f), flow[f], since[f], now, chan, reload)
        BY OwnInv
      <3>2. Req(f)' = Req(f) /\ rulesForSource(Req(f).src)' = next
        BY <2>1 DEF Req, rulesForSource
      <3>3. since'[f] = IF flow[f].pc \in Checking THEN since[f] \cup {next} ELSE since[f]
        BY <2>1
      <3>4. IsRuleList(next)
        BY <2>4, BucketList
      <3>5. FlowInv(world, Req(f), flow[f], since'[f], next, chan, reload')
        <4>. HIDE DEF now, next
        <4>1. CASE flow[f].pc \in Checking
          <5>1. flow[f].sent = "none" /\ SentInv(world, Req(f), "none", since'[f])
            BY <3>1, <4>1 DEF FlowInv, SentInv
          <5>. QED  BY <3>1, <3>3, <3>4, <2>3, <4>1, <5>1 DEF FlowInv, Checking, LetIn
        <4>2. CASE flow[f].pc \notin Checking
          BY <3>1, <3>3, <4>2 DEF FlowInv, Checking
        <4>. QED  BY <4>1, <4>2
      <3>. QED  BY <2>1, <3>2, <3>5
    <2>. QED  BY <2>5, <2>6 DEF ProxyInv
  <1>3. CASE notifyPolicyChange
    <2>1. chan' = chan + 1 /\ reload' = Nil /\ UNCHANGED <<world, rules, flow, since>>
      BY <1>3 DEF notifyPolicyChange
    <2>2. chan \in Nat /\ chan' \in Nat
      BY <2>1 DEF ProxyInv, ProxyShape
    <2>3. ProxyShape'
      BY <2>1, <2>2 DEF ProxyInv, ProxyShape
    <2>4. ASSUME NEW f \in Flows
          PROVE  FlowInv(world, Req(f), flow[f], since[f], rulesForSource(Req(f).src), chan, reload)'
      <3>1. FlowInv(world, Req(f), flow[f], since[f], rulesForSource(Req(f).src), chan, reload)
        BY OwnInv
      <3>2. Req(f)' = Req(f) /\ rulesForSource(Req(f).src)' = rulesForSource(Req(f).src)
        BY <2>1 DEF Req, rulesForSource
      <3>3. flow[f].ch \in Nat /\ flow[f].ch <= chan + 1 /\ flow[f].ch # chan + 1
        BY <3>1, <2>2 DEF FlowInv
      <3>. QED  BY <2>1, <3>1, <3>2, <3>3 DEF FlowInv
    <2>. QED  BY <2>3, <2>4 DEF ProxyInv
  <1>. QED  BY <1>1, <1>2, <1>3

\* Steps that touch neither flows nor policy.
LEMMA OthersKeep ==
  ASSUME ProxyInv, UNCHANGED <<world, rules, chan, reload, flow, since>>
  PROVE  ProxyInv'
  <1>1. ProxyShape'
    BY DEF ProxyInv, ProxyShape
  <1>2. \A f \in Flows :
          FlowInv(world, Req(f), flow[f], since[f], rulesForSource(Req(f).src), chan, reload)'
    BY DEF ProxyInv, Req, rulesForSource
  <1>. QED  BY <1>1, <1>2 DEF ProxyInv

\* Every step of the proxy keeps the invariant.
LEMMA ProxyInvNext ==
  ASSUME ProxyInv, [SbxNext]_allVars
  PROVE  ProxyInv'
  <1>1. CASE UNCHANGED proxyVars
    BY <1>1, OthersKeep DEF proxyVars
  <1>2. CASE \E f \in Flows : Arrival(f) \/ Check(f) \/ Tunnel(f) \/ Request(f)
    BY <1>2, ArrivalKeeps, CheckKeeps, TunnelKeeps, RequestKeeps
  <1>3. CASE SetDenyWaitBySource \/ SetRulesBySource \/ notifyPolicyChange
    BY <1>3, ReloadKeeps
  <1>4. CASE \E c \in Conns : PeerCloses(c) \/ PeerSpeaks(c)
    BY <1>4, OthersKeep DEF PeerCloses, PeerSpeaks, policyVars
  <1>5. CASE UNCHANGED allVars
    BY <1>1, <1>5 DEF allVars
  <1>. QED  BY <1>1, <1>2, <1>3, <1>4, <1>5 DEF SbxNext, ProxyNext

\* The proxy starts with it.
LEMMA ProxyInvInit ==
  ASSUME SbxInit
  PROVE  ProxyInv
  <1>1. ProxyInit
    BY DEF SbxInit
  <1>2. ProxyShape
    BY <1>1, WorldsAssumption DEF ProxyInit, ProxyShape
  <1>3. ASSUME NEW f \in Flows
        PROVE  FlowInv(world, Req(f), flow[f], since[f], rulesForSource(Req(f).src), chan, reload)
    <2>1. /\ flow[f] = [pc |-> "new", stage |-> "none", ac |-> 0, rule |-> Nil, ch |-> 0, up |-> Nil,
                        events |-> <<>>, shown |-> Nil, out |-> Nil, sent |-> "none", got |-> Nil]
          /\ since[f] = {} /\ chan = 0
      BY <1>1 DEF ProxyInit
    <2>2. SentInv(world, Req(f), "none", since[f])
      BY DEF SentInv
    <2>3. DOMAIN flow[f] = FlowFields
      BY <2>1 DEF FlowFields
    <2>. QED  BY <2>1, <2>2, <2>3 DEF FlowInv, Checking, LetIn
  <1>. QED  BY <1>2, <1>3 DEF ProxyInv

\* A grant is what some list says.
LEMMA GrantSays ==
  ASSUME NEW q, q.host \in Texts, NEW lists, \A l \in lists : IsRuleList(l),
         NEW path \in Seq(Texts), NEW r \in Grants(q, lists, path)
  PROVE  r \in {x \in UNION {Says(l, q.method, q.host, q.port, path) : l \in lists} :
                   x.access = "allow"}
  <1>1. PICK l \in lists : /\ r = MatchEgress(l, q.method, q.host, q.port, path)
                           /\ r # Nil /\ r.access = "allow"
    BY DEF Grants
  <1>2. r \in Says(l, q.method, q.host, q.port, path)
    BY <1>1, SaysMatch
  <1>. QED  BY <1>1, <1>2

\* The invariant says what mediation is.
LEMMA ProxyInvMediates ==
  ASSUME ProxyInv
  PROVE  EgressMediated
  <1>. SUFFICES ASSUME NEW f \in Flows PROVE Authorised(f) /\ HeldOnlyIfDenied(f)
    BY DEF EgressMediated
  <1>. DEFINE q == Req(f)
              now == rulesForSource(q.src)
              by(path) == {r \in UNION {Says(l, q.method, q.host, q.port, path) : l \in since[f]} :
                              r.access = "allow"}
  <1>1. FlowInv(world, q, flow[f], since[f], now, chan, reload)
    BY OwnInv
  <1>2. q.host \in Texts /\ q.path \in Seq(Texts) /\ NoPath \in Seq(Texts)
    BY WorldsAssumption DEF ProxyInv, ProxyShape, Req, NoPath
  <1>3. \A l \in since[f] : IsRuleList(l)
    BY <1>1 DEF FlowInv
  <1>4. SentInv(world, q, flow[f].sent, since[f])
    BY <1>1 DEF FlowInv
  <1>5. Authorised(f)
    <2>1. \A r \in Grants(q, since[f], q.path) : r \in by(q.path)
      BY <1>2, <1>3, GrantSays
    <2>2. \A r \in Grants(q, since[f], NoPath) : r \in by(NoPath)
      BY <1>2, <1>3, GrantSays
    <2>3. Authorised(f) <=>
            CASE flow[f].sent = "none"    -> TRUE
              [] flow[f].sent = "request" -> by(q.path) # {}
              [] flow[f].sent = "opaque"  -> \E r \in by(NoPath) : r.paths = {} /\ r.methods = {}
              [] flow[f].sent = "host"    -> \E r \in by(NoPath) :
                     q.entry = "tls" /\ world.ca /\ ~world.passAll => r.pass
      BY DEF Authorised
    <2>. HIDE DEF by, q
    <2>4. flow[f].sent \in {"none", "request", "opaque", "host"}
      BY <1>4 DEF SentInv
    <2>5. flow[f].sent = "request" => by(q.path) # {}
      BY <1>4, <2>1 DEF SentInv
    <2>6. flow[f].sent = "opaque" => \E r \in by(NoPath) : r.paths = {} /\ r.methods = {}
      BY <1>4, <2>2 DEF SentInv
    <2>7. flow[f].sent = "host" =>
             \E r \in by(NoPath) : q.entry = "tls" /\ world.ca /\ ~world.passAll => r.pass
      BY <1>4, <2>2 DEF SentInv
    <2>. QED  BY <2>3, <2>4, <2>5, <2>6, <2>7
  <1>6. HeldOnlyIfDenied(f)
    <2>. DEFINE path == PathAt(q, flow[f].stage)
    <2>. SUFFICES ASSUME Asleep(f), NEW r \in Says(now, q.method, q.host, q.port, path)
                  PROVE  r.access = "deny"
      BY DEF HeldOnlyIfDenied, PathAt, Host
    <2>1. Grants(q, {now}, path) = {}
      BY <1>1 DEF Asleep, At, FlowInv
    <2>2. path \in Seq(Texts)
      BY <1>2 DEF PathAt
    <2>3. IsRuleList(now)
      BY BucketList DEF ProxyInv, ProxyShape, rulesForSource
    <2>. HIDE DEF q, now, path
    <2>4. r = MatchEgress(now, q.method, q.host, q.port, path) /\ IsRule(r)
      BY <1>2, <2>2, <2>3, SaysMatch
    <2>5. r.access # "allow"
      BY <2>1, <2>4 DEF Grants, IsRule
    <2>. QED  BY <2>4, <2>5 DEF IsRule
  <1>. QED  BY <1>5, <1>6

\* Nothing leaves the proxy unauthorised and no wakeup of a held request is lost,
\* in every behaviour of sbxproxy.
THEOREM EgressMediatedAlways == SbxSpec => []EgressMediated
  <1>1. SbxInit => ProxyInv
    BY ProxyInvInit
  <1>2. ProxyInv /\ [SbxNext]_allVars => ProxyInv'
    BY ProxyInvNext
  <1>3. ProxyInv => EgressMediated
    BY ProxyInvMediates
  <1>. QED  BY <1>1, <1>2, <1>3, PTL DEF SbxSpec

-----------------------------------------------------------------------------

\* Every entry of the dedupe table that is inside its window is of a name shown
\* inside it, and every name answered was shown.
DnsInv ==
  /\ IsFiniteSet(DOMAIN seen) /\ Cardinality(DOMAIN seen) <= MaxEntries
  /\ replies \in [Names -> SUBSET {Sink, "nodata"}]
  /\ \A n \in DOMAIN seen : seen[n] => n \in DOMAIN shown /\ shown[n]
  /\ \A n \in Names \ {NoName} : replies[n] # {} => n \in DOMAIN shown

\* What shouldAudit leaves: a table within its bound whose new windows are the
\* name's own, and a name that is not emitted is inside its window.
LEMMA ShouldAudit ==
  ASSUME DnsInv, NEW name
  PROVE  LET d == shouldAudit(name)
         IN  /\ IsFiniteSet(DOMAIN d.seen) /\ Cardinality(DOMAIN d.seen) <= MaxEntries
             /\ \A n \in DOMAIN d.seen :
                  d.seen[n] => (n \in DOMAIN seen /\ seen[n]) \/ (n = name /\ d.emit)
             /\ ~d.emit => name \in DOMAIN seen /\ seen[name]
  <1>. DEFINE old == DOMAIN seen
              full == Cardinality(old) >= MaxEntries
              kept == IF full THEN [n \in {m \in old : seen[m]} |-> TRUE] ELSE seen
              d == shouldAudit(name)
  <1>0. /\ IsFiniteSet(old) /\ Cardinality(old) \in Nat /\ Cardinality(old) <= MaxEntries
        /\ MaxEntries \in Nat
    BY FS_CardinalityType, MaxEntriesAssumption DEF DnsInv
  <1>1. /\ DOMAIN kept \subseteq old
        /\ \A n \in DOMAIN kept : kept[n] => seen[n]
        /\ ~full => DOMAIN kept = old
    <2>1. CASE full
      <3>1. kept = [n \in {m \in old : seen[m]} |-> TRUE]
        BY <2>1
      <3>. QED  BY <2>1, <3>1
    <2>2. CASE ~full
      BY <2>2
    <2>. QED  BY <2>1, <2>2
  <1>2. IsFiniteSet(DOMAIN kept) /\ Cardinality(DOMAIN kept) \in Nat /\ Cardinality(DOMAIN kept) <= MaxEntries
    <2>1. IsFiniteSet(DOMAIN kept) /\ Cardinality(DOMAIN kept) <= Cardinality(old)
      BY <1>0, <1>1, FS_Subset
    <2>. QED  BY <1>0, <2>1, FS_CardinalityType
  <1>3. CASE name \in old /\ seen[name]
    <2>1. d = [emit |-> FALSE, seen |-> seen]
      BY <1>3 DEF shouldAudit
    <2>. QED  BY <1>0, <1>3, <2>1
  <1>4. CASE (name \in old => ~seen[name]) /\ Cardinality(DOMAIN kept) >= MaxEntries
    <2>1. d = [emit |-> TRUE, seen |-> kept]
      BY <1>4 DEF shouldAudit
    <2>. HIDE DEF kept
    <2>. QED  BY <1>1, <1>2, <2>1
  <1>5. CASE (name \in old => ~seen[name]) /\ ~(Cardinality(DOMAIN kept) >= MaxEntries)
    <2>1. d = [emit |-> TRUE, seen |-> Mark(kept, name)]
      BY <1>5 DEF shouldAudit
    <2>. HIDE DEF kept
    <2>2. DOMAIN Mark(kept, name) = DOMAIN kept \cup {name}
      BY DEF Mark
    <2>3. \A n \in DOMAIN kept \cup {name} : Mark(kept, name)[n] => n = name \/ (n \in DOMAIN kept /\ kept[n])
      BY DEF Mark
    <2>4. /\ IsFiniteSet(DOMAIN kept \cup {name})
          /\ Cardinality(DOMAIN kept \cup {name}) <= Cardinality(DOMAIN kept) + 1
      BY <1>2, FS_AddElement
    <2>5. Cardinality(DOMAIN kept \cup {name}) <= MaxEntries
      BY <1>0, <1>2, <1>5, <2>4, FS_CardinalityType
    <2>. QED  BY <1>1, <2>1, <2>2, <2>3, <2>4, <2>5
  <1>. QED  BY <1>3, <1>4, <1>5

\* Every step of the sink keeps DnsInv.
LEMMA DnsInvNext ==
  ASSUME DnsInv, DnsNext \/ UNCHANGED dnsVars
  PROVE  DnsInv'
  <1>1. ASSUME NEW name \in Names, NEW qtype,
               IF name = NoName THEN UNCHANGED <<seen, shown>> ELSE auditDNS(name),
               replies' = [replies EXCEPT ![name] = @ \cup {buildSinkResponse(qtype)}]
        PROVE  DnsInv'
    <2>1. /\ replies' \in [Names -> SUBSET {Sink, "nodata"}]
          /\ \A n \in Names : n # name => replies'[n] = replies[n]
      BY <1>1 DEF DnsInv, buildSinkResponse
    <2>2. CASE name = NoName
      BY <1>1, <2>1, <2>2 DEF DnsInv
    <2>3. CASE name # NoName
      <3>. DEFINE d == shouldAudit(name)
      <3>1. seen' = d.seen /\ shown' = IF d.emit THEN Mark(shown, name) ELSE shown
        BY <1>1, <2>3 DEF auditDNS
      <3>2. /\ IsFiniteSet(DOMAIN d.seen) /\ Cardinality(DOMAIN d.seen) <= MaxEntries
            /\ \A n \in DOMAIN d.seen :
                 d.seen[n] => (n \in DOMAIN seen /\ seen[n]) \/ (n = name /\ d.emit)
            /\ ~d.emit => name \in DOMAIN seen /\ seen[name]
        BY ShouldAudit
      <3>. HIDE DEF d
      <3>3. /\ DOMAIN shown \subseteq DOMAIN shown'
            /\ \A n \in DOMAIN shown : shown[n] => shown'[n]
            /\ d.emit => name \in DOMAIN shown' /\ shown'[name]
        BY <3>1 DEF Mark
      <3>4. \A n \in DOMAIN seen' : seen'[n] => n \in DOMAIN shown' /\ shown'[n]
        BY <3>1, <3>2, <3>3 DEF DnsInv
      <3>5. name \in DOMAIN shown'
        BY <3>2, <3>3 DEF DnsInv
      <3>6. \A n \in Names \ {NoName} : replies'[n] # {} => n \in DOMAIN shown'
        BY <2>1, <3>3, <3>5 DEF DnsInv
      <3>. QED  BY <2>1, <3>1, <3>2, <3>4, <3>6 DEF DnsInv
    <2>. QED  BY <2>2, <2>3
  <1>2. ASSUME NEW name \in DOMAIN shown,
               shown' = [shown EXCEPT ![name] = FALSE],
               seen' = [n \in DOMAIN seen |-> IF n = name THEN FALSE ELSE seen[n]],
               UNCHANGED replies
        PROVE  DnsInv'
    <2>1. DOMAIN seen' = DOMAIN seen /\ DOMAIN shown' = DOMAIN shown
      BY <1>2
    <2>2. \A n \in DOMAIN seen' : seen'[n] => n \in DOMAIN shown' /\ shown'[n]
      BY <1>2, <2>1 DEF DnsInv
    <2>. QED  BY <1>2, <2>1, <2>2 DEF DnsInv
  <1>3. CASE UNCHANGED dnsVars
    BY <1>3 DEF DnsInv, dnsVars
  <1>. QED  BY <1>1, <1>2, <1>3 DEF DnsNext, serveSinkUDP, parseQName, WindowPasses

\* The sink starts with it.
LEMMA DnsInvInit ==
  ASSUME DnsInit
  PROVE  DnsInv
  <1>1. DOMAIN seen = {}
    BY DEF DnsInit
  <1>2. IsFiniteSet({}) /\ Cardinality({}) = 0
    BY FS_EmptySet
  <1>3. \A n \in Names : replies[n] = {}
    BY DEF DnsInit
  <1>4. replies \in [Names -> SUBSET {Sink, "nodata"}]
    BY DEF DnsInit
  <1>. QED  BY <1>1, <1>2, <1>3, <1>4, MaxEntriesAssumption DEF DnsInv

\* The sink's invariant says what is shown.
LEMMA DnsInvShows ==
  ASSUME DnsInv
  PROVE  LookupsShown
  <1>1. UNION {replies[n] : n \in Names} \subseteq {Sink, "nodata"}
    BY DEF DnsInv
  <1>. QED  BY <1>1 DEF DnsInv, LookupsShown

\* What an event of a message, or of a control frame, shows.
Shows(body, item) ==
  item # <<"control">> =>
    IF item[1] = "text" /\ Len(item[2]) <= AuditLimit THEN body = item[2] ELSE body[1] = item[1]

Kinds  == {"text", "binary", Idle}
Units  == {"u", "v"}
Bodies == {<<"control">>} \cup Seq(Units) \cup ({"text", "binary"} \X Nat)
Items  == {<<"control">>} \cup ({"text", "binary"} \X Seq(Units))

Asms   == [op : Kinds, buf : Seq(Units), overflow : BOOLEAN]
Msgs   == [op : Kinds, all : Seq(Units)]

\* A message in flight is buffered whole, or is known to be beyond the limit.
Buffers(a, op, all) ==
  /\ a.op = op
  /\ op # Idle => IF a.overflow THEN Len(all) > AuditLimit
                                ELSE a.buf = all /\ Len(all) <= AuditLimit

\* The inductive invariant of the WebSocket audit.
WsInv ==
  /\ asm \in Asms /\ msg \in Msgs
  /\ Buffers(asm, msg.op, msg.all)
  /\ emitted \in Seq(Bodies) /\ due \in Seq(Items)
  /\ Len(emitted) = Len(due)
  /\ \A i \in 1 .. Len(due) : Shows(emitted[i], due[i])

\* append keeps a message buffered whole or known to be too long.
LEMMA AppendBuffers ==
  ASSUME NEW a \in Asms, NEW op \in {"text", "binary"}, NEW all \in Seq(Units),
         Buffers(a, op, all), NEW payload \in Seq(Units)
  PROVE  append(a, payload) \in Asms /\ Buffers(append(a, payload), op, all \o payload)
  <1>. DEFINE m == append(a, payload)
  <1>1. /\ AuditLimit \in Nat /\ op # Idle
        /\ Len(all \o payload) = Len(all) + Len(payload) /\ Len(payload) \in Nat /\ Len(all) \in Nat
    BY FramesAssumption
  <1>2. /\ a.op = op /\ a.op \in Kinds /\ a.buf \in Seq(Units) /\ a.overflow \in BOOLEAN
        /\ a.overflow => Len(all) > AuditLimit
        /\ ~a.overflow => a.buf = all /\ Len(all) <= AuditLimit
    BY <1>1 DEF Buffers, Asms
  <1>3. CASE a.overflow \/ Len(a.buf) + Len(payload) > AuditLimit
    <2>1. m = [a EXCEPT !.overflow = TRUE]
      BY <1>3 DEF append
    <2>2. m \in Asms
      BY <2>1 DEF Asms
    <2>3. m.op = op /\ m.overflow = TRUE
      BY <1>2, <2>1 DEF Asms
    <2>4. Len(all \o payload) > AuditLimit
      BY <1>1, <1>2, <1>3
    <2>. QED  BY <2>2, <2>3, <2>4 DEF Buffers
  <1>4. CASE ~a.overflow /\ ~(Len(a.buf) + Len(payload) > AuditLimit)
    <2>1. m = [a EXCEPT !.buf = a.buf \o payload]
      BY <1>4 DEF append
    <2>0. a.buf \o payload \in Seq(Units)
      BY <1>2
    <2>2. m \in Asms
      <3>. HIDE DEF m
      <3>. QED  BY <1>2, <2>0, <2>1 DEF Asms
    <2>3. m.op = op /\ m.overflow = a.overflow /\ m.buf = all \o payload
      BY <1>2, <1>4, <2>1 DEF Asms
    <2>4. Len(all \o payload) <= AuditLimit
      BY <1>1, <1>2, <1>4
    <2>. QED  BY <1>4, <2>2, <2>3, <2>4 DEF Buffers
  <1>. QED  BY <1>3, <1>4

\* A size is an event of its own.
LEMMA SizeBody ==
  ASSUME NEW k \in {"text", "binary"}, NEW n \in Nat
  PROVE  Size(k, n) \in Bodies /\ Size(k, n) # <<>> /\ Size(k, n)[1] = k
  BY DEF Size, Bodies

\* A body shows the message <<kind, whole>>, and is empty only for an empty text.
BodyOf(b, kind, whole) ==
  /\ b \in Bodies /\ Shows(b, <<kind, whole>>)
  /\ b = <<>> <=> kind = "text" /\ whole = <<>>

\* A size is the body of what is not a text within the limit.
LEMMA SizeShows ==
  ASSUME NEW k \in {"text", "binary"}, NEW n \in Nat, NEW whole \in Seq(Units),
         k = "binary" \/ Len(whole) > AuditLimit
  PROVE  BodyOf(Size(k, n), k, whole)
  <1>1. Size(k, n) \in Bodies /\ Size(k, n) # <<>> /\ Size(k, n)[1] = k
    BY SizeBody
  <1>2. Len(whole) \in Nat /\ AuditLimit \in Nat
    BY FramesAssumption
  <1>3. k = "text" => whole # <<>> /\ ~(Len(whole) <= AuditLimit)
    BY <1>2
  <1>4. <<k, whole>>[1] = k /\ <<k, whole>>[2] = whole
    OBVIOUS
  <1>. QED  BY <1>1, <1>3, <1>4 DEF BodyOf, Shows

\* A text within the limit is its own body.
LEMMA TextShows ==
  ASSUME NEW whole \in Seq(Units), Len(whole) <= AuditLimit
  PROVE  BodyOf(whole, "text", whole)
  BY DEF BodyOf, Shows, Bodies

\* What a frame leaves: the rest of a message buffered, or a complete one shown.
Assembled(r, fin, kind, whole) ==
  /\ r.asm \in Asms
  /\ ~fin => r.body = <<>> /\ Buffers(r.asm, kind, whole)
  /\ fin => r.asm.op = Idle /\ \E b : r.body = <<b>> /\ BodyOf(b, kind, whole)

\* The first frame of a message, or its only one.
LEMMA FirstFrame ==
  ASSUME WsInv, NEW op \in {"text", "binary"}, NEW fin \in BOOLEAN,
         NEW payload \in Seq(Units), msg.op = Idle, Len(payload) > AuditLimit => fin
  PROVE  Assembled(assemble(op, fin, payload), fin, op, payload)
  <1>. DEFINE r == assemble(op, fin, payload)
  <1>. SUFFICES Assembled(r, fin, op, payload)
    OBVIOUS
  <1>0. /\ AuditLimit \in Nat /\ Idle \notin {"text", "binary"} /\ op # "continuation"
        /\ asm \in Asms /\ asm.op = Idle /\ Len(payload) \in Nat
    BY FramesAssumption DEF WsInv, Buffers
  <1>1. CASE Len(payload) > AuditLimit
    <2>1. r = [asm |-> asm, body |-> <<Size(op, Len(payload))>>]
      BY <1>0, <1>1 DEF assemble
    <2>2. BodyOf(Size(op, Len(payload)), op, payload)
      BY <1>0, <1>1, SizeShows
    <2>. HIDE DEF r
    <2>. QED  BY <1>0, <1>1, <2>1, <2>2 DEF Assembled
  <1>2. CASE Len(payload) <= AuditLimit /\ fin
    <2>1. r = [asm |-> asm, body |-> <<render(op, payload)>>]
      BY <1>0, <1>2 DEF assemble
    <2>2. BodyOf(render(op, payload), op, payload)
      <3>1. CASE op = "text"
        BY <1>2, <3>1, TextShows DEF render
      <3>2. CASE op = "binary"
        <4>1. render(op, payload) = Size(op, Len(payload))
          BY <3>2 DEF render
        <4>. QED  BY <1>0, <3>2, <4>1, SizeShows
      <3>. QED  BY <3>1, <3>2
    <2>. HIDE DEF r
    <2>. QED  BY <1>0, <1>2, <2>1, <2>2 DEF Assembled
  <1>3. CASE Len(payload) <= AuditLimit /\ ~fin
    <2>. DEFINE a0 == [op |-> op, buf |-> <<>>, overflow |-> FALSE]
    <2>1. r = [asm |-> append(a0, payload), body |-> <<>>]
      BY <1>0, <1>3 DEF assemble
    <2>2. <<>> \in Seq(Units) /\ Len(<<>>) = 0 /\ <<>> \o payload = payload
      OBVIOUS
    <2>3. a0 \in Asms
      BY <2>2 DEF Asms, Kinds
    <2>4. Buffers(a0, op, <<>>)
      BY <1>0, <2>2 DEF Buffers
    <2>. HIDE DEF a0
    <2>5. append(a0, payload) \in Asms /\ Buffers(append(a0, payload), op, <<>> \o payload)
      BY <2>2, <2>3, <2>4, AppendBuffers
    <2>. HIDE DEF r
    <2>. QED  BY <1>3, <2>1, <2>2, <2>5 DEF Assembled
  <1>. QED  BY <1>0, <1>1, <1>2, <1>3

\* A continuation of the message in flight.
LEMMA NextFrame ==
  ASSUME WsInv, NEW fin \in BOOLEAN, NEW payload \in Seq(Units), msg.op # Idle
  PROVE  Assembled(assemble("continuation", fin, payload), fin, msg.op, msg.all \o payload)
  <1>. DEFINE r     == assemble("continuation", fin, payload)
              whole == msg.all \o payload
              kind  == msg.op
              more  == append(asm, payload)
  <1>. SUFFICES Assembled(r, fin, kind, whole)
    OBVIOUS
  <1>0. /\ AuditLimit \in Nat /\ asm \in Asms /\ asm.op = kind /\ asm.op # Idle
        /\ kind \in {"text", "binary"} /\ msg.all \in Seq(Units) /\ Buffers(asm, kind, msg.all)
    BY FramesAssumption DEF WsInv, Buffers, Kinds, Msgs
  <1>1. whole \in Seq(Units) /\ Len(whole) \in Nat
    BY <1>0
  <1>2. more \in Asms /\ Buffers(more, kind, whole)
    <2>. HIDE DEF kind
    <2>. QED  BY <1>0, AppendBuffers
  <1>3. CASE ~fin
    <2>1. r = [asm |-> more, body |-> <<>>]
      BY <1>0, <1>3 DEF assemble
    <2>. HIDE DEF r, more, whole, kind
    <2>. QED  BY <1>2, <1>3, <2>1 DEF Assembled
  <1>4. CASE fin
    <2>. DEFINE b == IF more.overflow THEN Size(more.op, Len(more.buf)) ELSE render(more.op, more.buf)
                a2 == [more EXCEPT !.op = Idle]
    <2>1. r = [asm |-> a2, body |-> <<b>>]
      BY <1>0, <1>4 DEF assemble
    <2>. HIDE DEF r, more, whole, kind
    <2>2. a2 \in Asms /\ a2.op = Idle
      BY <1>2 DEF Asms, Kinds
    <2>3. more.op = kind /\ more.buf \in Seq(Units) /\ Len(more.buf) \in Nat
      BY <1>2 DEF Buffers, Asms
    <2>4. BodyOf(b, kind, whole)
      <3>1. kind # Idle
        BY <1>0
      <3>2. CASE more.overflow
        <4>1. b = Size(kind, Len(more.buf)) /\ Len(whole) > AuditLimit
          BY <1>2, <2>3, <3>1, <3>2 DEF Buffers
        <4>. HIDE DEF b
        <4>. QED  BY <1>0, <1>1, <2>3, <4>1, SizeShows
      <3>3. CASE ~more.overflow /\ kind = "text"
        <4>1. b = whole /\ Len(whole) <= AuditLimit
          BY <1>2, <2>3, <3>1, <3>3 DEF Buffers, render
        <4>. HIDE DEF b
        <4>. QED  BY <1>1, <3>3, <4>1, TextShows
      <3>4. CASE ~more.overflow /\ kind = "binary"
        <4>1. b = Size(kind, Len(more.buf))
          BY <2>3, <3>4 DEF render
        <4>. HIDE DEF b
        <4>. QED  BY <1>0, <1>1, <2>3, <3>4, <4>1, SizeShows
      <3>. QED  BY <1>0, <3>2, <3>3, <3>4
    <2>. HIDE DEF b, a2
    <2>. QED  BY <1>4, <2>1, <2>2, <2>4 DEF Assembled
  <1>. QED  BY <1>3, <1>4

\* One more event for one more item.
LEMMA OneMore ==
  ASSUME NEW es \in Seq(Bodies), NEW ds \in Seq(Items), Len(es) = Len(ds),
         \A i \in 1 .. Len(ds) : Shows(es[i], ds[i]),
         NEW b \in Bodies, NEW x \in Items, Shows(b, x)
  PROVE  /\ Append(es, b) \in Seq(Bodies) /\ Append(ds, x) \in Seq(Items)
         /\ Len(Append(es, b)) = Len(Append(ds, x))
         /\ \A i \in 1 .. Len(Append(ds, x)) : Shows(Append(es, b)[i], Append(ds, x)[i])
  <1>1. Append(es, b) \in Seq(Bodies) /\ Append(ds, x) \in Seq(Items)
    OBVIOUS
  <1>2. Len(Append(es, b)) = Len(es) + 1 /\ Len(Append(ds, x)) = Len(ds) + 1
    OBVIOUS
  <1>3. ASSUME NEW i \in 1 .. Len(ds) + 1
        PROVE  Shows(Append(es, b)[i], Append(ds, x)[i])
    <2>1. CASE i \in 1 .. Len(ds)
      <3>1. Append(es, b)[i] = es[i] /\ Append(ds, x)[i] = ds[i]
        BY <2>1
      <3>. QED  BY <2>1, <3>1
    <2>2. CASE i = Len(ds) + 1
      <3>1. Append(es, b)[i] = b /\ Append(ds, x)[i] = x
        BY <2>2
      <3>. QED  BY <3>1
    <2>. QED  BY <2>1, <2>2
  <1>. QED  BY <1>1, <1>2, <1>3

\* Every step of the assembler keeps WsInv.
LEMMA WsInvNext ==
  ASSUME WsInv, WsNext \/ UNCHANGED wsVars
  PROVE  WsInv'
  <1>0. /\ emitted \in Seq(Bodies) /\ due \in Seq(Items) /\ Len(emitted) = Len(due)
        /\ \A i \in 1 .. Len(due) : Shows(emitted[i], due[i])
    BY DEF WsInv
  <1>. DEFINE idleMsg == [op |-> Idle, all |-> <<>>]
  <1>i. idleMsg \in Msgs /\ idleMsg.op = Idle
    BY DEF Kinds, Msgs
  <1>1. ASSUME NEW op \in {"text", "binary", "continuation"}, NEW fin \in BOOLEAN,
               NEW n \in 0 .. AuditLimit + 1,
               LET payload == [i \in 1 .. n |-> Unit(passed)]
                   whole   == (IF op = "continuation" THEN msg.all ELSE <<>>) \o payload
                   kind    == IF op = "continuation" THEN msg.op ELSE op
               IN  /\ (op = "continuation") = (msg.op # Idle)
                   /\ n > AuditLimit => fin /\ op # "continuation"
                   /\ asm' = assemble(op, fin, payload).asm
                   /\ emitted' = emitted \o NonEmpty(assemble(op, fin, payload).body)
                   /\ msg' = IF fin THEN [op |-> Idle, all |-> <<>>] ELSE [op |-> kind, all |-> whole]
                   /\ due' = IF fin /\ (kind # "text" \/ whole # <<>>)
                               THEN Append(due, <<kind, whole>>) ELSE due
        PROVE  WsInv'
    <2>. DEFINE payload == [i \in 1 .. n |-> Unit(passed)]
                r     == assemble(op, fin, payload)
                whole == (IF op = "continuation" THEN msg.all ELSE <<>>) \o payload
                kind  == IF op = "continuation" THEN msg.op ELSE op
    <2>0. AuditLimit \in Nat /\ n \in Nat
      BY FramesAssumption
    <2>1. payload \in Seq(Units) /\ Len(payload) = n
      <3>1. Unit(passed) \in Units
        BY DEF Unit, Units
      <3>. QED  BY <2>0, <3>1
    <2>2. /\ op = "continuation" <=> msg.op # Idle
          /\ Len(payload) > AuditLimit => fin /\ op # "continuation"
          /\ asm' = r.asm /\ emitted' = emitted \o NonEmpty(r.body)
          /\ msg' = IF fin THEN [op |-> Idle, all |-> <<>>] ELSE [op |-> kind, all |-> whole]
          /\ due' = IF fin /\ (kind # "text" \/ whole # <<>>)
                      THEN Append(due, <<kind, whole>>) ELSE due
      BY <1>1, <2>1
    <2>. HIDE DEF payload
    <2>3. /\ kind \in {"text", "binary"} /\ whole \in Seq(Units)
          /\ Assembled(r, fin, kind, whole)
      <3>1. CASE op = "continuation"
        <4>1. kind = msg.op /\ whole = msg.all \o payload /\ msg.op # Idle
          BY <2>2, <3>1
        <4>2. msg.op \in {"text", "binary"} /\ msg.all \in Seq(Units)
          BY <4>1 DEF WsInv, Msgs, Kinds
        <4>3. Assembled(r, fin, msg.op, msg.all \o payload)
          BY <2>1, <3>1, <4>1, NextFrame
        <4>4. msg.all \o payload \in Seq(Units)
          BY <2>1, <4>2
        <4>. HIDE DEF kind, whole, r
        <4>. QED  BY <4>1, <4>2, <4>3, <4>4
      <3>2. CASE op # "continuation"
        <4>1. kind = op /\ whole = payload /\ msg.op = Idle
          BY <2>1, <2>2, <3>2
        <4>2. op \in {"text", "binary"} /\ (Len(payload) > AuditLimit => fin)
          BY <2>2, <3>2
        <4>3. Assembled(r, fin, op, payload)
          BY <2>1, <4>1, <4>2, FirstFrame
        <4>. HIDE DEF kind, whole, r
        <4>. QED  BY <2>1, <4>1, <4>2, <4>3
      <3>. QED  BY <3>1, <3>2
    <2>. HIDE DEF r, whole, kind
    <2>4. CASE ~fin
      <3>1. r.body = <<>> /\ Buffers(r.asm, kind, whole) /\ r.asm \in Asms
        BY <2>3, <2>4 DEF Assembled
      <3>2. emitted' = emitted /\ due' = due /\ msg' = [op |-> kind, all |-> whole]
        BY <1>0, <2>2, <2>4, <3>1 DEF NonEmpty
      <3>3. msg' \in Msgs /\ Buffers(asm', msg'.op, msg'.all)
        BY <2>2, <2>3, <3>1, <3>2 DEF Kinds, Msgs
      <3>. QED  BY <1>0, <2>2, <3>1, <3>2, <3>3 DEF WsInv
    <2>5. CASE fin
      <3>1. /\ r.asm \in Asms /\ r.asm.op = Idle
            /\ \E b : r.body = <<b>> /\ BodyOf(b, kind, whole)
        BY <2>3, <2>5 DEF Assembled
      <3>2. PICK b : r.body = <<b>> /\ BodyOf(b, kind, whole)
        BY <3>1
      <3>3. msg' = idleMsg
        BY <2>2, <2>5
      <3>4. Buffers(asm', msg'.op, msg'.all) /\ msg' \in Msgs /\ asm' \in Asms
        BY <2>2, <3>1, <3>3, <1>i DEF Buffers
      <3>5. b \in Bodies /\ Shows(b, <<kind, whole>>) /\ (b = <<>> <=> kind = "text" /\ whole = <<>>)
        BY <3>2 DEF BodyOf
      <3>6. CASE b = <<>>
        <4>1. NonEmpty(r.body) = <<>>
          BY <3>2, <3>6 DEF NonEmpty
        <4>2. emitted \o <<>> = emitted
          BY <1>0
        <4>3. emitted' = emitted /\ due' = due
          BY <2>2, <3>5, <3>6, <4>1, <4>2
        <4>. QED  BY <1>0, <3>4, <4>3 DEF WsInv
      <3>7. CASE b # <<>>
        <4>1. NonEmpty(r.body) = <<b>>
          <5>1. <<b>> # <<>> /\ <<b>> # << <<>> >>
            BY <3>7
          <5>. QED  BY <3>2, <5>1 DEF NonEmpty
        <4>2. emitted \o <<b>> = Append(emitted, b)
          BY <1>0, <3>5
        <4>3. emitted' = Append(emitted, b) /\ due' = Append(due, <<kind, whole>>)
          BY <2>2, <2>5, <3>5, <3>7, <4>1, <4>2
        <4>4. <<kind, whole>> \in Items
          BY <2>3 DEF Items
        <4>5. /\ emitted' \in Seq(Bodies) /\ due' \in Seq(Items) /\ Len(emitted') = Len(due')
              /\ \A i \in 1 .. Len(due') : Shows(emitted'[i], due'[i])
          BY <1>0, <3>5, <4>3, <4>4, OneMore
        <4>. QED  BY <3>4, <4>5 DEF WsInv
      <3>. QED  BY <3>6, <3>7
    <2>. QED  BY <2>4, <2>5
  <1>2. CASE ControlFrame
    <2>1. emitted' = Append(emitted, <<"control">>) /\ due' = Append(due, <<"control">>) /\ UNCHANGED <<asm, msg>>
      BY <1>2 DEF ControlFrame
    <2>2. <<"control">> \in Bodies /\ <<"control">> \in Items /\ Shows(<<"control">>, <<"control">>)
      BY DEF Bodies, Items, Shows
    <2>3. /\ emitted' \in Seq(Bodies) /\ due' \in Seq(Items) /\ Len(emitted') = Len(due')
          /\ \A i \in 1 .. Len(due') : Shows(emitted'[i], due'[i])
      BY <1>0, <2>1, <2>2, OneMore
    <2>. QED  BY <2>1, <2>3 DEF WsInv
  <1>3. CASE Forward
    <2>1. asm' = [asm EXCEPT !.op = Idle] /\ msg' = idleMsg /\ UNCHANGED <<emitted, due>>
      BY <1>3 DEF Forward
    <2>2. asm' \in Asms /\ asm'.op = Idle
      BY <2>1 DEF WsInv, Kinds, Asms
    <2>3. Buffers(asm', msg'.op, msg'.all)
      BY <1>i, <2>1, <2>2 DEF Buffers
    <2>. QED  BY <1>i, <2>1, <2>2, <2>3 DEF WsInv
  <1>4. CASE UNCHANGED wsVars
    BY <1>4 DEF WsInv, wsVars
  <1>. QED  BY <1>1, <1>2, <1>3, <1>4 DEF WsNext, DataFrame

\* The assembler starts with it.
LEMMA WsInvInit ==
  ASSUME WsInit
  PROVE  WsInv
  <1>1. asm \in Asms /\ msg \in Msgs
    BY DEF WsInit, Asms, Msgs, Kinds
  <1>2. Buffers(asm, msg.op, msg.all)
    BY DEF WsInit, Buffers
  <1>. QED  BY <1>1, <1>2 DEF WsInit, WsInv

\* It says that messages are shown once and whole.
LEMMA WsInvShows ==
  ASSUME WsInv
  PROVE  MessagesShown
  <1>1. DOMAIN due = 1 .. Len(due)
    BY DEF WsInv
  <1>. QED  BY <1>1 DEF WsInv, MessagesShown, Shows

\* Audit events: a context, a phase and a verdict.
Events == Nat \X {"request", "response", "chunk"} \X {"allow", "deny", "error"}

\* The events of context a, and the responses among them.
Own(evs, a)   == {i \in DOMAIN evs : evs[i][1] = a}
Reply(evs, a) == {i \in Own(evs, a) : evs[i][2] = "response"}

\* Context a of a list of events is in order: Paired, but for its last conjunct.
InOrder(evs, a) ==
  /\ \A i, k \in Reply(evs, a) : i = k
  /\ \A i \in Own(evs, a) : evs[i][2] = "chunk" =>
        \E k \in Reply(evs, a) : k < i /\ evs[k][3] = "allow"
  /\ \A k \in Reply(evs, a) : \A i \in Own(evs, a) :
       /\ evs[i][2] = "request" => i < k
       /\ i < k /\ (\A j \in Own(evs, a) : j <= i \/ j >= k)
            => (evs[i][3] = "deny" <=> evs[k][3] = "deny")

\* Nothing but denials announced; an allowed request announced last; answered.
Quiet(evs, a) == \A i \in Own(evs, a) : evs[i][2] = "request" /\ evs[i][3] = "deny"
Asked(evs, a) ==
  /\ \A i \in Own(evs, a) : evs[i][2] = "request"
  /\ \E i \in Own(evs, a) : evs[i][3] = "allow" /\ \A j \in Own(evs, a) : j <= i
Allowed(evs, a) == \E k \in Reply(evs, a) : evs[k][3] = "allow"

\* Some request was announced as allowed.
HasAllow(evs) == \E i \in DOMAIN evs : evs[i][2] = "request" /\ evs[i][3] = "allow"

\* One event more.
LEMMA OneEvent ==
  ASSUME NEW evs \in Seq(Events), NEW e \in Events
  PROVE  LET n == Len(evs) + 1
             new == Append(evs, e)
         IN  /\ new \in Seq(Events) /\ n \in Nat
             /\ DOMAIN new = DOMAIN evs \cup {n}
             /\ DOMAIN evs \subseteq Nat /\ \A i \in DOMAIN evs : i < n /\ new[i] = evs[i]
             /\ new[n] = e
             /\ \A a : a # e[1] => Own(new, a) = Own(evs, a)
             /\ Own(new, e[1]) = Own(evs, e[1]) \cup {n}
  <1>. DEFINE n == Len(evs) + 1
              new == Append(evs, e)
  <1>1. /\ new \in Seq(Events) /\ n \in Nat
        /\ DOMAIN evs = 1 .. Len(evs) /\ DOMAIN new = 1 .. n /\ Len(evs) \in Nat
        /\ \A i \in 1 .. Len(evs) : new[i] = evs[i]
        /\ new[n] = e
    OBVIOUS
  <1>. HIDE DEF new
  <1>2. DOMAIN new = DOMAIN evs \cup {n} /\ DOMAIN evs \subseteq Nat /\ \A i \in DOMAIN evs : i < n
    BY <1>1
  <1>. HIDE DEF n
  <1>3. ASSUME NEW a, a # e[1]
        PROVE  Own(new, a) = Own(evs, a)
    BY <1>1, <1>2, <1>3 DEF Own
  <1>4. Own(new, e[1]) = Own(evs, e[1]) \cup {n}
    BY <1>1, <1>2 DEF Own
  <1>. QED  BY <1>1, <1>2, <1>3, <1>4 DEF n, new

\* The other contexts do not change.
LEMMA OtherContext ==
  ASSUME NEW evs \in Seq(Events), NEW e \in Events, NEW a, a # e[1]
  PROVE  LET new == Append(evs, e)
         IN  /\ Own(new, a) = Own(evs, a) /\ Reply(new, a) = Reply(evs, a)
             /\ InOrder(evs, a) => InOrder(new, a)
  <1>. DEFINE new == Append(evs, e)
  <1>1. Own(new, a) = Own(evs, a) /\ \A i \in Own(evs, a) : new[i] = evs[i]
    BY OneEvent DEF Own
  <1>. HIDE DEF new
  <1>2. Reply(new, a) = Reply(evs, a) /\ \A i \in Reply(evs, a) : i \in Own(evs, a)
    BY <1>1 DEF Reply
  <1>3. InOrder(evs, a) => InOrder(new, a)
    BY <1>1, <1>2 DEF InOrder
  <1>. QED  BY <1>1, <1>2, <1>3 DEF new

\* A denial is announced, an allowed request is announced, ...
LEMMA Announces ==
  ASSUME NEW evs \in Seq(Events), NEW a \in Nat, Quiet(evs, a), NEW v \in {"allow", "deny"}
  PROVE  LET new == Append(evs, <<a, "request", v>>)
         IN  /\ InOrder(new, a)
             /\ v = "deny" => Quiet(new, a)
             /\ v = "allow" => Asked(new, a)
  <1>. DEFINE e == <<a, "request", v>>
              n == Len(evs) + 1
              new == Append(evs, e)
  <1>0. e \in Events /\ e[1] = a /\ e[2] = "request" /\ e[3] = v
    BY DEF Events
  <1>. HIDE DEF e
  <1>1. /\ Own(new, a) = Own(evs, a) \cup {n} /\ n \in Nat
        /\ \A i \in Own(evs, a) : i \in Nat /\ i < n /\ new[i] = evs[i]
        /\ new[n] = e
    BY <1>0, OneEvent DEF Own
  <1>. HIDE DEF n, new
  <1>2. \A i \in Own(new, a) : new[i][2] = "request"
    BY <1>0, <1>1 DEF Quiet
  <1>3. Reply(new, a) = {}
    BY <1>2 DEF Reply
  <1>4. InOrder(new, a)
    BY <1>2, <1>3 DEF InOrder
  <1>5. v = "deny" => Quiet(new, a)
    BY <1>0, <1>1 DEF Quiet
  <1>6. v = "allow" => Asked(new, a)
    <2>1. \A j \in Own(new, a) : j <= n
      BY <1>1
    <2>2. n \in Own(new, a) /\ new[n][3] = v
      BY <1>0, <1>1
    <2>. QED  BY <1>2, <2>1, <2>2 DEF Asked
  <1>. QED  BY <1>4, <1>5, <1>6 DEF new, e

\* ... the answer follows, a denial's to denials and another's to an allowed
\* request, ...
LEMMA Answers ==
  ASSUME NEW evs \in Seq(Events), NEW a \in Nat, NEW v \in {"allow", "deny", "error"},
         IF v = "deny" THEN Quiet(evs, a) ELSE Asked(evs, a)
  PROVE  LET new == Append(evs, <<a, "response", v>>)
         IN  /\ InOrder(new, a) /\ Reply(new, a) # {}
             /\ v = "allow" => Allowed(new, a)
  <1>. DEFINE e == <<a, "response", v>>
              n == Len(evs) + 1
              new == Append(evs, e)
  <1>0. e \in Events /\ e[1] = a /\ e[2] = "response" /\ e[3] = v
    BY DEF Events
  <1>. HIDE DEF e
  <1>1. /\ Own(new, a) = Own(evs, a) \cup {n} /\ n \in Nat
        /\ \A i \in Own(evs, a) : i \in Nat /\ i < n /\ new[i] = evs[i]
        /\ new[n] = e
    BY <1>0, OneEvent DEF Own
  <1>. HIDE DEF n, new
  <1>2. \A i \in Own(evs, a) : evs[i][2] = "request"
    BY DEF Quiet, Asked
  <1>3. Reply(new, a) = {n}
    BY <1>0, <1>1, <1>2 DEF Reply
  <1>4. \A i \in Own(new, a) : new[i][2] # "chunk"
    BY <1>0, <1>1, <1>2
  <1>5. \A i \in Own(new, a) : new[i][2] = "request" => i < n
    BY <1>0, <1>1
  <1>6. ASSUME NEW i \in Own(new, a), i < n, \A j \in Own(new, a) : j <= i \/ j >= n
        PROVE  new[i][3] = "deny" <=> new[n][3] = "deny"
    <2>1. i \in Own(evs, a) /\ new[i] = evs[i]
      BY <1>1, <1>6
    <2>2. CASE v = "deny"
      BY <1>0, <1>1, <2>1, <2>2 DEF Quiet
    <2>3. CASE v # "deny"
      <3>1. PICK k \in Own(evs, a) : evs[k][3] = "allow" /\ \A j \in Own(evs, a) : j <= k
        BY <2>3 DEF Asked
      <3>2. k = i
        BY <1>1, <1>6, <2>1, <3>1
      <3>. QED  BY <1>0, <1>1, <2>1, <2>3, <3>1, <3>2
    <2>. QED  BY <2>2, <2>3
  <1>7. InOrder(new, a)
    BY <1>3, <1>4, <1>5, <1>6 DEF InOrder
  <1>8. v = "allow" => Allowed(new, a)
    BY <1>0, <1>1, <1>3 DEF Allowed
  <1>. QED  BY <1>3, <1>7, <1>8 DEF new, e

\* ... and chunks follow an allowed answer.
LEMMA Chunks ==
  ASSUME NEW evs \in Seq(Events), NEW a \in Nat, InOrder(evs, a), Allowed(evs, a)
  PROVE  LET new == Append(evs, <<a, "chunk", "allow">>)
         IN  InOrder(new, a) /\ Allowed(new, a)
  <1>. DEFINE e == <<a, "chunk", "allow">>
              n == Len(evs) + 1
              new == Append(evs, e)
  <1>0. e \in Events /\ e[1] = a /\ e[2] = "chunk" /\ e[3] = "allow"
    BY DEF Events
  <1>. HIDE DEF e
  <1>1. /\ Own(new, a) = Own(evs, a) \cup {n} /\ n \in Nat
        /\ \A i \in Own(evs, a) : i \in Nat /\ i < n /\ new[i] = evs[i]
        /\ new[n] = e
    BY <1>0, OneEvent DEF Own
  <1>. HIDE DEF n, new
  <1>2. Reply(new, a) = Reply(evs, a)
    BY <1>0, <1>1 DEF Reply
  <1>3. \A k \in Reply(evs, a) : k \in Own(evs, a)
    BY DEF Reply
  <1>4. Allowed(new, a)
    BY <1>1, <1>2, <1>3 DEF Allowed
  <1>5. \A i, k \in Reply(new, a) : i = k
    BY <1>2 DEF InOrder
  <1>6. \A i \in Own(new, a) : new[i][2] = "chunk" =>
           \E k \in Reply(new, a) : k < i /\ new[k][3] = "allow"
    <2>. SUFFICES ASSUME NEW i \in Own(new, a), new[i][2] = "chunk"
                  PROVE  \E k \in Reply(new, a) : k < i /\ new[k][3] = "allow"
      OBVIOUS
    <2>1. CASE i = n
      <3>1. PICK k \in Reply(evs, a) : evs[k][3] = "allow"
        BY DEF Allowed
      <3>. QED  BY <1>1, <1>2, <1>3, <2>1, <3>1
    <2>2. CASE i # n
      <3>1. i \in Own(evs, a) /\ evs[i][2] = "chunk"
        BY <1>1, <2>2
      <3>2. PICK k \in Reply(evs, a) : k < i /\ evs[k][3] = "allow"
        BY <3>1 DEF InOrder
      <3>. QED  BY <1>1, <1>2, <1>3, <3>2
    <2>. QED  BY <2>1, <2>2
  <1>7. ASSUME NEW k \in Reply(new, a), NEW i \in Own(new, a)
        PROVE  /\ new[i][2] = "request" => i < k
               /\ i < k /\ (\A j \in Own(new, a) : j <= i \/ j >= k)
                    => (new[i][3] = "deny" <=> new[k][3] = "deny")
    <2>0. k \in Reply(evs, a) /\ k \in Own(evs, a) /\ new[k] = evs[k]
      BY <1>1, <1>2, <1>3
    <2>1. CASE i = n
      <3>1. new[i][2] = "chunk" /\ k < i /\ k \in Nat /\ i \in Nat
        BY <1>0, <1>1, <2>0, <2>1
      <3>2. ~(i < k)
        BY <3>1
      <3>. QED  BY <3>1, <3>2
    <2>2. CASE i # n
      <3>1. i \in Own(evs, a) /\ new[i] = evs[i]
        BY <1>1, <2>2
      <3>2. Own(evs, a) \subseteq Own(new, a)
        BY <1>1
      <3>. QED  BY <2>0, <3>1, <3>2 DEF InOrder
    <2>. QED  BY <2>1, <2>2
  <1>8. InOrder(new, a)
    BY <1>5, <1>6, <1>7 DEF InOrder
  <1>. QED  BY <1>4, <1>8 DEF new, e

\* A context with no events yet.
LEMMA FreshContext ==
  ASSUME NEW evs, NEW a, Own(evs, a) = {}
  PROVE  Quiet(evs, a) /\ InOrder(evs, a)
  <1>1. Reply(evs, a) = {}
    BY DEF Reply
  <1>. QED  BY <1>1 DEF Quiet, InOrder

\* What was announced stays announced.
LEMMA AllowStays ==
  ASSUME NEW evs \in Seq(Events), NEW e \in Events
  PROVE  HasAllow(evs) => HasAllow(Append(evs, e))
  <1>1. \A i \in DOMAIN evs : i \in DOMAIN Append(evs, e) /\ Append(evs, e)[i] = evs[i]
    BY OneEvent
  <1>. QED  BY <1>1 DEF HasAllow

\* The places of a flow: being checked, let into its TLS connection, waiting for
\* an answer to what it announced, passing the answer on, holding a connection.
InCheck(s) == s.pc \in Checking \cup {"granted"}
Inside(s)  == s.pc \in {"raw", "inner", "serving", "splice"}
Asking(s)  == \/ s.pc \in {"hijack", "get", "probe", "dial", "write", "read"}
              \/ s.pc = "tunnel" /\ s.stage = "connect"
Telling(s) == s.pc = "body" \/ (s.pc = "tunnel" /\ s.stage = "request")
Holding    == {"hijack", "probe", "write", "read", "body", "put", "tunnel"}

\* The events of n contexts, each in order.
Sound(evs, n) ==
  /\ n \in Nat /\ evs \in Seq(Events)
  /\ \A i \in DOMAIN evs : evs[i][1] \in 1 .. n
  /\ \A a \in 1 .. n : InOrder(evs, a)

\* Context a is answered, empty, or the host-level one of a connection let in.
Settled(q, rule, evs, a) ==
  Own(evs, a) = {} \/ Reply(evs, a) # {} \/ (q.entry = "tls" /\ a = 1 /\ rule # Nil)

\* What a flow sent after announcing it.
MustAnnounce(q, sent) == sent \in {"request", "opaque"} \/ (sent = "host" /\ q.entry = "connect")

\* The audit events of a flow with request q in state s.
AuditInv(q, s) ==
  /\ Sound(s.events, s.ac)
  /\ \A a \in 1 .. s.ac :
        Settled(q, s.rule, s.events, a) \/ (a = s.ac /\ (InCheck(s) \/ Asking(s)))
  /\ s.pc = "new" => s.ac = 0
  /\ InCheck(s) => s.ac > 0 /\ Quiet(s.events, s.ac)
  /\ Asking(s)  => s.ac > 0 /\ Asked(s.events, s.ac)
  /\ Telling(s) => s.ac > 0 /\ Allowed(s.events, s.ac)
  /\ (InCheck(s) /\ s.stage = "hello") \/ Inside(s) => s.ac = 1 /\ q.entry = "tls" /\ s.stage = "hello"
  /\ s.pc = "read" => s.stage = "request"
  /\ MustAnnounce(q, s.sent) => HasAllow(s.events)
  /\ q.entry = "explicit" => s.shown = s.out

\* The idle connections.
Idlers == {c \in Conns : InPool(c)}

\* Flow f and the connection it holds: opened for its key, free of earlier
\* responses when it writes, and owing its own response from then on.
HoldInv(f) ==
  LET s == flow[f]
      c == s.up
  IN  /\ s.got \in {Nil, f}
      /\ IF s.pc \notin Holding THEN c = Nil
         ELSE /\ c \in Conns /\ conns[c].st # "free" /\ conns[c].key = keyFor(f)
              /\ c \notin Idlers
              /\ \A g \in Flows : flow[g].up = c => g = f
              /\ s.pc = "probe" => conns[c].owed \in {<<>>, <<Stray>>}
              /\ s.pc \in {"write", "put"} => conns[c].owed = <<>>
              /\ s.pc \in {"read", "body"} => conns[c].owed = <<f>>

\* The open connections, each in the pool or with a flow.
ConnFields == {"st", "key", "src", "owed"}
ConnsInv ==
  /\ conns = [c \in Conns |-> conns[c]]
  /\ \A c \in Conns : conns[c].st # "free" =>
       /\ DOMAIN conns[c] = ConnFields
       /\ world.shared \/ conns[c].src = conns[c].key.src
       /\ c \in Idlers \/ \E f \in Flows : flow[f].up = c
\* The stack of key k: drained connections, each in one place.
StackInv(k, stack) ==
  /\ stack \in Seq(Conns) /\ Len(stack) <= MaxIdlePer
  /\ \A i \in DOMAIN stack :
       /\ conns[stack[i]].st # "free" /\ conns[stack[i]].key = k
       /\ conns[stack[i]].owed \in {<<>>, <<Stray>>}
       /\ \A j \in DOMAIN stack : stack[i] = stack[j] => i = j
\* The connections and every stack.
PoolShape == ConnsInv /\ \A k \in DOMAIN idle : StackInv(k, idle[k])
-----------------------------------------------------------------------------
\* One event more in a context that exists.
LEMMA SoundGrows ==
  ASSUME NEW evs, NEW n, Sound(evs, n), NEW e \in Events, e[1] \in 1 .. n,
         InOrder(Append(evs, e), e[1])
  PROVE  Sound(Append(evs, e), n)
  <1>. DEFINE new == Append(evs, e)
  <1>1. evs \in Seq(Events) /\ n \in Nat
    BY DEF Sound
  <1>2. /\ new \in Seq(Events) /\ DOMAIN new = DOMAIN evs \cup {Len(evs) + 1}
        /\ new[Len(evs) + 1] = e /\ \A i \in DOMAIN evs : new[i] = evs[i]
    BY <1>1, OneEvent
  <1>3. \A a \in 1 .. n : a # e[1] => InOrder(new, a)
    BY <1>1, OtherContext DEF Sound
  <1>. HIDE DEF new
  <1>4. \A i \in DOMAIN new : new[i][1] \in 1 .. n
    BY <1>2 DEF Sound
  <1>5. \A a \in 1 .. n : InOrder(new, a)
    BY <1>3 DEF new
  <1>. QED  BY <1>1, <1>2, <1>4, <1>5 DEF Sound, new

\* A context more.
LEMMA SoundOpens ==
  ASSUME NEW evs, NEW n, Sound(evs, n)
  PROVE  Sound(evs, n + 1) /\ Own(evs, n + 1) = {} /\ Quiet(evs, n + 1)
  <1>1. evs \in Seq(Events) /\ n \in Nat /\ n + 1 \in Nat /\ 1 .. n \subseteq 1 .. n + 1
    BY DEF Sound
  <1>2. Own(evs, n + 1) = {}
    BY <1>1 DEF Sound, Own
  <1>3. Quiet(evs, n + 1) /\ InOrder(evs, n + 1)
    BY <1>2, FreshContext
  <1>4. \A a \in 1 .. n + 1 : a \in 1 .. n \/ a = n + 1
    BY <1>1
  <1>. QED  BY <1>1, <1>2, <1>3, <1>4 DEF Sound

\* What is settled stays settled when another context grows.
LEMMA SettledElsewhere ==
  ASSUME NEW q, NEW rule, NEW evs \in Seq(Events), NEW e \in Events, NEW a, a # e[1],
         Settled(q, rule, evs, a)
  PROVE  Settled(q, rule, Append(evs, e), a)
  BY OtherContext DEF Settled

-----------------------------------------------------------------------------
\* The steps of a flow, from state s to state t: it moves on without an event, ...
LEMMA AuditMoves ==
  ASSUME NEW q, NEW s, NEW t, AuditInv(q, s),
         t.events = s.events, t.ac = s.ac, t.pc # "new",
         s.rule # Nil => t.rule # Nil,
         InCheck(t)  => InCheck(s) /\ t.stage = s.stage,
         Inside(t)   => t.stage = s.stage /\ (Inside(s) \/ (InCheck(s) /\ s.stage = "hello")),
         Asking(t)   => Asking(s),
         Telling(t)  => Telling(s),
         InCheck(s)  => InCheck(t) \/ (Inside(t) /\ t.rule # Nil),
         Asking(s)   => Asking(t),
         t.pc = "read" => t.stage = "request",
         MustAnnounce(q, t.sent) => MustAnnounce(q, s.sent) \/ Asking(s),
         (t.shown = s.shown /\ t.out = s.out) \/ t.shown = t.out
  PROVE  AuditInv(q, t)
  <1>1. MustAnnounce(q, t.sent) => HasAllow(t.events)
    <2>1. CASE Asking(s)
      <3>1. \E i \in Own(s.events, s.ac) : s.events[i][2] = "request" /\ s.events[i][3] = "allow"
        BY <2>1 DEF AuditInv, Asked
      <3>. QED  BY <3>1 DEF HasAllow, Own
    <2>2. CASE ~Asking(s)
      BY <2>2 DEF AuditInv
    <2>. QED  BY <2>1, <2>2
  <1>2. \A a \in 1 .. t.ac :
          Settled(q, t.rule, t.events, a) \/ (a = t.ac /\ (InCheck(t) \/ Asking(t)))
    <2>. TAKE a \in 1 .. t.ac
    <2>1. Settled(q, s.rule, s.events, a) => Settled(q, t.rule, t.events, a)
      BY DEF Settled
    <2>2. CASE InCheck(s) /\ ~InCheck(t) /\ a = s.ac
      <3>1. q.entry = "tls" /\ a = 1 /\ t.rule # Nil
        BY <2>2 DEF AuditInv
      <3>. QED  BY <3>1 DEF Settled
    <2>. QED  BY <2>1, <2>2 DEF AuditInv
  <1>3. (InCheck(t) /\ t.stage = "hello") \/ Inside(t) => t.ac = 1 /\ q.entry = "tls" /\ t.stage = "hello"
    BY DEF AuditInv
  <1>. QED  BY <1>1, <1>2, <1>3 DEF AuditInv

\* ... opens a context and begins a check, ...
LEMMA AuditBegins ==
  ASSUME NEW q, NEW s, NEW t, AuditInv(q, s), ~InCheck(s), ~Asking(s),
         t.events = s.events, t.ac = s.ac + 1, t.rule = s.rule, t.pc = "match",
         t.stage = "hello" => s.pc = "new" /\ q.entry = "tls",
         t.sent = s.sent, t.shown = s.shown, t.out = s.out
  PROVE  AuditInv(q, t)
  <1>1. /\ Sound(t.events, t.ac) /\ Own(t.events, t.ac) = {} /\ Quiet(t.events, t.ac)
        /\ s.ac \in Nat
    BY SoundOpens DEF AuditInv, Sound
  <1>2. t.ac > 0 /\ \A a \in 1 .. t.ac : a \in 1 .. s.ac \/ a = t.ac
    BY <1>1
  <1>3. InCheck(t) /\ ~Inside(t) /\ ~Asking(t) /\ ~Telling(t)
    BY DEF InCheck, Inside, Asking, Telling, Checking
  <1>4. \A a \in 1 .. t.ac : Settled(q, t.rule, t.events, a) \/ a = t.ac
    BY <1>2 DEF AuditInv
  <1>5. t.stage = "hello" => t.ac = 1 /\ q.entry = "tls"
    BY DEF AuditInv
  <1>. QED  BY <1>1, <1>2, <1>3, <1>4, <1>5 DEF AuditInv

\* ... logs an event of its current context, which is then settled or not, ...
LEMMA AuditLogs ==
  ASSUME NEW q, NEW s, NEW t, AuditInv(q, s), NEW p, NEW v,
         <<s.ac, p, v>> \in Events, s.ac > 0,
         t.events = Append(s.events, <<s.ac, p, v>>), t.ac = s.ac, t.pc \notin {"new", "read"},
         t.rule = s.rule,
         MustAnnounce(q, t.sent) => MustAnnounce(q, s.sent) \/ HasAllow(t.events),
         (t.shown = s.shown /\ t.out = s.out) \/ t.shown = t.out \/ q.entry # "explicit",
         InOrder(t.events, t.ac), ~Inside(t),
         InCheck(t) => InCheck(s) /\ t.stage = s.stage /\ Quiet(t.events, t.ac),
         Asking(t)  => Asked(t.events, t.ac),
         Telling(t) => Allowed(t.events, t.ac),
         InCheck(t) \/ Asking(t) \/ Reply(t.events, t.ac) # {}
  PROVE  AuditInv(q, t)
  <1>. DEFINE e == <<s.ac, p, v>>
  <1>0. e \in Events /\ e[1] = s.ac
    BY DEF Events
  <1>1. s.events \in Seq(Events) /\ s.ac \in Nat /\ s.ac \in 1 .. s.ac
    BY DEF AuditInv, Sound
  <1>. HIDE DEF e
  <1>2. t.events = Append(s.events, e)
    BY DEF e
  <1>3. Sound(t.events, t.ac)
    BY <1>0, <1>1, <1>2, SoundGrows DEF AuditInv
  <1>4. ASSUME NEW a \in 1 .. t.ac
        PROVE  Settled(q, t.rule, t.events, a) \/ (a = t.ac /\ (InCheck(t) \/ Asking(t)))
    <2>1. CASE a = t.ac
      BY <2>1 DEF Settled
    <2>2. CASE a # t.ac
      <3>1. Settled(q, s.rule, s.events, a)
        BY <2>2 DEF AuditInv
      <3>. QED  BY <1>0, <1>1, <1>2, <2>2, <3>1, SettledElsewhere
    <2>. QED  BY <2>1, <2>2
  <1>5. HasAllow(s.events) => HasAllow(t.events)
    BY <1>0, <1>1, <1>2, AllowStays
  <1>6. InCheck(t) /\ t.stage = "hello" => t.ac = 1 /\ q.entry = "tls"
    BY DEF AuditInv
  <1>. QED  BY <1>3, <1>4, <1>5, <1>6 DEF AuditInv

\* ... announces a denial and goes on waiting, or an allowed request, ...
LEMMA AuditAnnounces ==
  ASSUME NEW q, NEW s, NEW t, AuditInv(q, s), InCheck(s), NEW v \in {"allow", "deny"},
         t.events = Append(s.events, <<s.ac, "request", v>>), t.ac = s.ac,
         t.rule = s.rule, t.stage = s.stage, t.sent = s.sent,
         (t.shown = s.shown /\ t.out = s.out) \/ t.shown = t.out \/ q.entry # "explicit",
         IF v = "deny" THEN t.pc = "capture" ELSE t.pc \in {"hijack", "get", "dial"}
  PROVE  AuditInv(q, t)
  <1>1. s.events \in Seq(Events) /\ s.ac \in Nat /\ s.ac > 0 /\ Quiet(s.events, s.ac)
    BY DEF AuditInv, Sound
  <1>2. /\ InOrder(t.events, s.ac)
        /\ v = "deny" => Quiet(t.events, s.ac)
        /\ v = "allow" => Asked(t.events, s.ac)
    BY <1>1, Announces
  <1>3. <<s.ac, "request", v>> \in Events
    BY <1>1 DEF Events
  <1>4. /\ ~Inside(t) /\ ~Telling(t) /\ t.pc \notin {"new", "read"}
        /\ InCheck(t) <=> v = "deny"
        /\ Asking(t) <=> v = "allow"
    BY DEF Inside, Telling, InCheck, Asking, Checking
  <1>. QED  BY <1>1, <1>2, <1>3, <1>4, AuditLogs

\* ... has its answer, ...
LEMMA AuditAnswers ==
  ASSUME NEW q, NEW s, NEW t, AuditInv(q, s), NEW v \in {"allow", "deny", "error"},
         IF v = "deny" THEN InCheck(s) ELSE Asking(s),
         t.events = Append(s.events, <<s.ac, "response", v>>), t.ac = s.ac, t.rule = s.rule,
         MustAnnounce(q, t.sent) => MustAnnounce(q, s.sent) \/ Asking(s),
         (t.shown = s.shown /\ t.out = s.out),
         t.pc \in {"done", "body", "tunnel"}, t.pc = "tunnel" => t.stage # "connect",
         t.pc # "done" => v = "allow"
  PROVE  AuditInv(q, t)
  <1>1. s.events \in Seq(Events) /\ s.ac \in Nat /\ s.ac > 0
    BY DEF AuditInv, Sound
  <1>2. IF v = "deny" THEN Quiet(s.events, s.ac) ELSE Asked(s.events, s.ac)
    BY DEF AuditInv
  <1>3. InOrder(t.events, s.ac) /\ Reply(t.events, s.ac) # {} /\ (v = "allow" => Allowed(t.events, s.ac))
    BY <1>1, <1>2, Answers
  <1>4. <<s.ac, "response", v>> \in Events
    BY <1>1 DEF Events
  <1>5. /\ ~Inside(t) /\ ~InCheck(t) /\ ~Asking(t) /\ (Telling(t) => v = "allow")
        /\ t.pc \notin {"new", "read"}
    BY DEF Inside, Telling, InCheck, Asking, Checking
  <1>6. Asking(s) => HasAllow(t.events)
    <2>1. Asking(s) => HasAllow(s.events)
      BY DEF AuditInv, Asked, HasAllow, Own
    <2>. QED  BY <1>1, <1>4, <2>1, AllowStays
  <1>. QED  BY <1>1, <1>3, <1>4, <1>5, <1>6, AuditLogs

\* ... passes a chunk of it on, ...
LEMMA AuditChunks ==
  ASSUME NEW q, NEW s, NEW t, AuditInv(q, s), Telling(s),
         t.events = Append(s.events, <<s.ac, "chunk", "allow">>), t.ac = s.ac, t.rule = s.rule,
         t.pc = s.pc, t.stage = s.stage, t.sent = s.sent, t.shown = s.shown, t.out = s.out
  PROVE  AuditInv(q, t)
  <1>1. s.events \in Seq(Events) /\ s.ac \in Nat /\ s.ac > 0 /\ s.ac \in 1 .. s.ac
    BY DEF AuditInv, Sound
  <1>2. InOrder(s.events, s.ac) /\ Allowed(s.events, s.ac)
    BY <1>1 DEF AuditInv, Sound
  <1>3. InOrder(t.events, s.ac) /\ Allowed(t.events, s.ac)
    BY <1>1, <1>2, Chunks
  <1>4. Reply(t.events, s.ac) # {}
    BY <1>3 DEF Allowed
  <1>5. <<s.ac, "chunk", "allow">> \in Events
    BY <1>1 DEF Events
  <1>6. ~Inside(t) /\ ~InCheck(t) /\ ~Asking(t) /\ t.pc \notin {"new", "read"}
    BY DEF Inside, Telling, InCheck, Asking, Checking
  <1>. QED  BY <1>1, <1>3, <1>4, <1>5, <1>6, AuditLogs

\* ... is refused at once, ...
LEMMA AuditDenies ==
  ASSUME NEW q, NEW s, NEW t, AuditInv(q, s), InCheck(s),
         t.events = Append(Append(s.events, <<s.ac, "request", "deny">>), <<s.ac, "response", "deny">>),
         t.ac = s.ac, t.rule = s.rule, t.pc = "done",
         t.sent = s.sent, t.shown = s.shown, t.out = s.out
  PROVE  AuditInv(q, t)
  <1>. DEFINE u == [pc |-> "capture", stage |-> s.stage, ac |-> s.ac, rule |-> s.rule,
                    events |-> Append(s.events, <<s.ac, "request", "deny">>),
                    sent |-> s.sent, shown |-> s.shown, out |-> s.out]
  <1>1. /\ u.pc = "capture" /\ u.stage = s.stage /\ u.ac = s.ac /\ u.rule = s.rule
        /\ u.events = Append(s.events, <<s.ac, "request", "deny">>)
        /\ u.sent = s.sent /\ u.shown = s.shown /\ u.out = s.out
    OBVIOUS
  <1>. HIDE DEF u
  <1>2. AuditInv(q, u)
    BY <1>1, AuditAnnounces
  <1>3. InCheck(u)
    BY <1>1 DEF InCheck, Checking
  <1>. QED  BY <1>1, <1>2, <1>3, AuditAnswers

\* ... or opens a context for a request and its answer together.
LEMMA AuditBoth ==
  ASSUME NEW q, NEW s, NEW t, AuditInv(q, s), ~InCheck(s), ~Asking(s), NEW v \in {"allow", "deny"},
         t.events = Append(Append(s.events, <<s.ac + 1, "request", v>>), <<s.ac + 1, "response", v>>),
         t.ac = s.ac + 1, t.rule = s.rule, t.shown = s.shown, t.out = s.out,
         IF v = "deny" THEN t.pc = "done" /\ t.sent = s.sent
                       ELSE t.pc = "tunnel" /\ t.stage = "splice"
  PROVE  AuditInv(q, t)
  <1>. DEFINE b == [pc |-> "match", stage |-> "none", ac |-> s.ac + 1, rule |-> s.rule,
                    events |-> s.events, sent |-> s.sent, shown |-> s.shown, out |-> s.out]
              u == [pc |-> IF v = "deny" THEN "capture" ELSE "dial", stage |-> "none",
                    ac |-> s.ac + 1, rule |-> s.rule,
                    events |-> Append(s.events, <<s.ac + 1, "request", v>>),
                    sent |-> s.sent, shown |-> s.shown, out |-> s.out]
  <1>1. /\ b.pc = "match" /\ b.stage = "none" /\ b.ac = s.ac + 1 /\ b.rule = s.rule
        /\ b.events = s.events /\ b.sent = s.sent /\ b.shown = s.shown /\ b.out = s.out
    OBVIOUS
  <1>2. /\ IF v = "deny" THEN u.pc = "capture" ELSE u.pc = "dial"
        /\ u.stage = "none" /\ u.ac = s.ac + 1 /\ u.rule = s.rule
        /\ u.events = Append(s.events, <<s.ac + 1, "request", v>>)
        /\ u.sent = s.sent /\ u.shown = s.shown /\ u.out = s.out
    OBVIOUS
  <1>. HIDE DEF b, u
  <1>3. AuditInv(q, b)
    BY <1>1, AuditBegins
  <1>4. InCheck(b)
    BY <1>1 DEF InCheck, Checking
  <1>5. AuditInv(q, u)
    BY <1>1, <1>2, <1>3, <1>4, AuditAnnounces
  <1>6. IF v = "deny" THEN InCheck(u) ELSE Asking(u)
    BY <1>2 DEF InCheck, Asking, Checking
  <1>. QED  BY <1>2, <1>5, <1>6, AuditAnswers

\* The audit invariant of every flow.
AuditsInv == \A f \in Flows : AuditInv(Req(f), flow[f])

\* Only flow f takes a step.
Alone(f) == world' = world /\ \A g \in Flows \ {f} : flow'[g] = flow[g]

\* The fields of flow f after a step: those of r, or the ones it had.
Fields(f, r) ==
  \A k \in FlowFields : flow'[f][k] = IF k \in DOMAIN r THEN r[k] ELSE flow[f][k]

\* Move changes the fields it names, ...
LEMMA MoveFields ==
  ASSUME ProxyInv, NEW f \in Flows, NEW r, Move(f, r)
  PROVE  Fields(f, r) /\ \A g \in Flows \ {f} : flow'[g] = flow[g]
  <1>. DEFINE t == With(flow[f], r)
  <1>1. DOMAIN flow[f] = FlowFields
    BY DEF ProxyInv, FlowInv
  <1>2. flow'[f] = t /\ \A g \in Flows \ {f} : flow'[g] = flow[g]
    BY DEF Move, ProxyInv, ProxyShape
  <1>3. \A k \in FlowFields : t[k] = IF k \in DOMAIN r THEN r[k] ELSE flow[f][k]
    BY <1>1 DEF With
  <1>. HIDE DEF t
  <1>. QED  BY <1>2, <1>3 DEF Fields

\* ... and Log the events too.
LEMMA LogFields ==
  ASSUME ProxyInv, NEW f \in Flows, NEW evs, NEW r, Log(f, evs, r)
  PROVE  /\ \A k \in FlowFields \ {"events"} :
              flow'[f][k] = IF k \in DOMAIN r THEN r[k] ELSE flow[f][k]
         /\ flow'[f].events = audit(f, flow[f].ac, evs)
         /\ \A g \in Flows \ {f} : flow'[g] = flow[g]
  <1>. DEFINE new == audit(f, flow[f].ac, evs)
              e == [events |-> new]
              u == With(flow[f], r)
              t == With(u, e)
  <1>1. DOMAIN flow[f] = FlowFields
    BY DEF ProxyInv, FlowInv
  <1>2. flow'[f] = t /\ \A g \in Flows \ {f} : flow'[g] = flow[g]
    BY DEF Log, ProxyInv, ProxyShape
  <1>3. DOMAIN u = FlowFields /\ \A k \in FlowFields : u[k] = IF k \in DOMAIN r THEN r[k] ELSE flow[f][k]
    BY <1>1 DEF With
  <1>. HIDE DEF new
  <1>4. DOMAIN e = {"events"} /\ e["events"] = new
    OBVIOUS
  <1>5. "events" \in FlowFields
    BY DEF FlowFields
  <1>. HIDE DEF u, e
  <1>6. (\A k \in FlowFields : k # "events" => t[k] = u[k]) /\ t["events"] = new
    BY <1>3, <1>4, <1>5 DEF With
  <1>. HIDE DEF t
  <1>. QED  BY <1>2, <1>3, <1>6 DEF new

\* Events added one after the other.
LEMMA AppendsConcat ==
  ASSUME NEW A, NEW evs \in Seq(A), NEW x, NEW y, NEW both, both = <<x, y>>
  PROVE  evs \o both = Append(Append(evs, x), y)
  <1>. DEFINE T == A \cup {x, y}
  <1>1. evs \in Seq(T) /\ x \in T /\ y \in T /\ <<x>> \in Seq(T) /\ <<y>> \in Seq(T)
    OBVIOUS
  <1>. HIDE DEF T
  <1>2. evs \o <<x>> = Append(evs, x) /\ Append(evs, x) \in Seq(T)
    BY <1>1, AppendIsConcat, AppendProperties
  <1>3. Append(evs, x) \o <<y>> = Append(Append(evs, x), y)
    BY <1>1, <1>2, AppendIsConcat
  <1>4. (evs \o <<x>>) \o <<y>> = evs \o (<<x>> \o <<y>>)
    BY <1>1, ConcatAssociative
  <1>5. <<x>> \o <<y>> = <<x, y>>
    <2>1. /\ <<x>> \o <<y>> \in Seq(T) /\ Len(<<x>> \o <<y>>) = Len(<<x>>) + Len(<<y>>)
          /\ \A i \in 1 .. Len(<<x>>) + Len(<<y>>) :
               (<<x>> \o <<y>>)[i] = IF i <= Len(<<x>>) THEN <<x>>[i] ELSE <<y>>[i - Len(<<x>>)]
      BY <1>1, ConcatProperties
    <2>2. <<x, y>> \in Seq(T) /\ Len(<<x, y>>) = 2 /\ Len(<<x>>) = 1 /\ Len(<<y>>) = 1
      BY <1>1
    <2>. DEFINE z == <<x>> \o <<y>>
    <2>3. \A i \in 1 .. 2 : z[i] = <<x, y>>[i]
      <3>1. z[1] = x
        <4>1. 1 \in 1 .. Len(<<x>>) + Len(<<y>>) /\ 1 <= Len(<<x>>) /\ <<x>>[1] = x
          BY <2>2
        <4>. QED  BY <2>1, <4>1
      <3>2. z[2] = y
        <4>1. 2 \in 1 .. Len(<<x>>) + Len(<<y>>) /\ ~(2 <= Len(<<x>>)) /\ 2 - Len(<<x>>) = 1 /\ <<y>>[1] = y
          BY <2>2
        <4>. QED  BY <2>1, <4>1
      <3>3. <<x, y>>[1] = x /\ <<x, y>>[2] = y
        OBVIOUS
      <3>. HIDE DEF z
      <3>4. \A i \in 1 .. 2 : i = 1 \/ i = 2
        OBVIOUS
      <3>. QED  BY <3>1, <3>2, <3>3, <3>4
    <2>4. z \in Seq(T) /\ Len(z) = Len(<<x, y>>) /\ Len(z) = 2
      BY <2>1, <2>2
    <2>. HIDE DEF z
    <2>5. z = <<x, y>>
      BY <2>2, <2>3, <2>4, SeqEqual
    <2>. QED  BY <2>5 DEF z
  <1>. QED  BY <1>2, <1>3, <1>4, <1>5

\* One event.
LEMMA AuditOne ==
  ASSUME NEW f, flow[f].events \in Seq(Events), NEW a, NEW p, NEW v
  PROVE  audit(f, a, <<<<p, v>>>>) = Append(flow[f].events, <<a, p, v>>)
  <1>. DEFINE one == [i \in DOMAIN <<<<p, v>>>> |-> <<a, <<<<p, v>>>>[i][1], <<<<p, v>>>>[i][2]>>]
  <1>1. DOMAIN <<<<p, v>>>> = 1 .. 1
    OBVIOUS
  <1>2. one = <<<<a, p, v>>>>
    <2>1. DOMAIN one = 1 .. 1 /\ one[1] = <<a, p, v>>
      BY <1>1
    <2>. QED  BY <2>1, <1>1
  <1>3. audit(f, a, <<<<p, v>>>>) = flow[f].events \o one
    BY DEF audit
  <1>. HIDE DEF one
  <1>4. \A x : flow[f].events \o <<x>> = Append(flow[f].events, x)
    OBVIOUS
  <1>. QED  BY <1>2, <1>3, <1>4

\* A request with its answer.
LEMMA AuditTwo ==
  ASSUME NEW f, flow[f].events \in Seq(Events), NEW a, NEW p, NEW v, NEW p2, NEW v2
  PROVE  audit(f, a, <<<<p, v>>, <<p2, v2>>>>)
           = Append(Append(flow[f].events, <<a, p, v>>), <<a, p2, v2>>)
  <1>. DEFINE evs == <<<<p, v>>, <<p2, v2>>>>
              both == [i \in DOMAIN evs |-> <<a, evs[i][1], evs[i][2]>>]
  <1>1. DOMAIN evs = 1 .. 2
    OBVIOUS
  <1>2. both = <<<<a, p, v>>, <<a, p2, v2>>>>
    <2>1. DOMAIN both = 1 .. 2 /\ both[1] = <<a, p, v>> /\ both[2] = <<a, p2, v2>>
      BY <1>1
    <2>. QED  BY <2>1, <1>1
  <1>3. audit(f, a, evs) = flow[f].events \o both
    BY DEF audit
  <1>. HIDE DEF both, evs
  <1>. DEFINE x == <<a, p, v>>
              y == <<a, p2, v2>>
              was == flow[f].events
  <1>4. both = <<x, y>> /\ was \in Seq(Events) /\ audit(f, a, evs) = was \o both
    BY <1>2, <1>3
  <1>. HIDE DEF x, y, was
  <1>5. was \o both = Append(Append(was, x), y)
    BY <1>4, AppendsConcat
  <1>6. audit(f, a, evs) = Append(Append(was, x), y)
    BY <1>4, <1>5
  <1>. QED  BY <1>6 DEF evs, x, y, was

\* A flow's step leaves the other flows' audits alone.
LEMMA AuditSteps ==
  ASSUME AuditsInv, NEW f \in Flows, Alone(f), AuditInv(Req(f), flow'[f])
  PROVE  AuditsInv'
  <1>1. \A g : Req(g)' = Req(g)
    BY DEF Alone, Req
  <1>2. \A g \in Flows : AuditInv(Req(g), flow'[g])
    BY DEF AuditsInv, Alone
  <1>. QED  BY <1>1, <1>2 DEF AuditsInv

\* The audit invariant of a flow, and of its events.
LEMMA OwnAudit ==
  ASSUME AuditsInv, NEW f \in Flows
  PROVE  AuditInv(Req(f), flow[f]) /\ flow[f].events \in Seq(Events) /\ flow[f].ac \in Nat
  BY DEF AuditsInv, AuditInv, Sound

\* A move that changes no audited field but the place, ...
LEMMA MovesOnly ==
  ASSUME ProxyInv, NEW f \in Flows, NEW r, Move(f, r), world' = world,
         "pc" \in DOMAIN r, DOMAIN r \subseteq {"pc", "up", "ch"}
  PROVE  /\ Alone(f)
         /\ flow'[f].pc = r["pc"] /\ flow'[f].stage = flow[f].stage /\ flow'[f].ac = flow[f].ac
         /\ flow'[f].rule = flow[f].rule /\ flow'[f].events = flow[f].events
         /\ flow'[f].sent = flow[f].sent /\ flow'[f].shown = flow[f].shown
         /\ flow'[f].out = flow[f].out
  <1>1. Fields(f, r) /\ Alone(f)
    BY MoveFields DEF Alone
  <1>2. /\ "pc" \in FlowFields
        /\ \A k \in {"stage", "ac", "rule", "events", "sent", "shown", "out"} :
              k \in FlowFields /\ k \notin DOMAIN r
    BY DEF FlowFields
  <1>3. \A k \in {"stage", "ac", "rule", "events", "sent", "shown", "out"} :
           flow'[f][k] = flow[f][k]
    BY <1>1, <1>2 DEF Fields
  <1>. QED  BY <1>1, <1>2, <1>3 DEF Fields

\* ... and a log that changes none but the place and the events.
LEMMA LogsOnly ==
  ASSUME ProxyInv, NEW f \in Flows, NEW evs, NEW r, Log(f, evs, r), world' = world,
         DOMAIN r \subseteq {"pc", "up", "got"}
  PROVE  /\ Alone(f)
         /\ flow'[f].pc = IF "pc" \in DOMAIN r THEN r["pc"] ELSE flow[f].pc
         /\ flow'[f].events = audit(f, flow[f].ac, evs)
         /\ flow'[f].stage = flow[f].stage /\ flow'[f].ac = flow[f].ac
         /\ flow'[f].rule = flow[f].rule
         /\ flow'[f].sent = flow[f].sent /\ flow'[f].shown = flow[f].shown
         /\ flow'[f].out = flow[f].out
  <1>1. /\ \A k \in FlowFields \ {"events"} :
             flow'[f][k] = IF k \in DOMAIN r THEN r[k] ELSE flow[f][k]
        /\ flow'[f].events = audit(f, flow[f].ac, evs)
        /\ Alone(f)
    BY LogFields DEF Alone
  <1>2. /\ "pc" \in FlowFields \ {"events"}
        /\ \A k \in {"stage", "ac", "rule", "sent", "shown", "out"} :
              k \in FlowFields \ {"events"} /\ k \notin DOMAIN r
    BY DEF FlowFields
  <1>3. \A k \in {"stage", "ac", "rule", "sent", "shown", "out"} : flow'[f][k] = flow[f][k]
    BY <1>1, <1>2
  <1>. QED  BY <1>1, <1>2, <1>3

\* A context that is opened and refused.
LEMMA DenyFreshAudits ==
  ASSUME ProxyInv, AuditsInv, NEW f \in Flows, world' = world, DenyFresh(f),
         ~InCheck(flow[f]), ~Asking(flow[f])
  PROVE  AuditsInv'
  <1>. DEFINE s == flow[f]
              t == flow'[f]
              r == [pc |-> "done", ac |-> flow[f].ac + 1, events |-> audit(f, flow[f].ac + 1, deny)]
  <1>0. AuditInv(Req(f), s) /\ s.events \in Seq(Events)
    BY OwnAudit
  <1>1. Fields(f, r) /\ Alone(f)
    BY MoveFields DEF DenyFresh, Alone
  <1>2. /\ t.pc = "done" /\ t.ac = s.ac + 1 /\ t.events = audit(f, flow[f].ac + 1, deny)
        /\ t.rule = s.rule /\ t.sent = s.sent /\ t.shown = s.shown /\ t.out = s.out
    BY <1>1 DEF Fields, FlowFields
  <1>3. t.events = Append(Append(s.events, <<s.ac + 1, "request", "deny">>),
                          <<s.ac + 1, "response", "deny">>)
    BY <1>0, <1>2, AuditTwo DEF deny, denyRequest, denyResponse
  <1>. HIDE DEF s, t
  <1>4. AuditInv(Req(f), t)
    BY <1>0, <1>2, <1>3, AuditBoth DEF s
  <1>. QED  BY <1>1, <1>4, AuditSteps DEF t

\* A context that is opened for a check.
LEMMA BeginAudits ==
  ASSUME ProxyInv, AuditsInv, NEW f \in Flows, world' = world, NEW stage, Begin(f, stage),
         ~InCheck(flow[f]), ~Asking(flow[f]),
         stage = "hello" => flow[f].pc = "new" /\ Req(f).entry = "tls"
  PROVE  AuditsInv'
  <1>. DEFINE s == flow[f]
              t == flow'[f]
              r == [pc |-> "match", stage |-> stage, ac |-> flow[f].ac + 1]
  <1>0. AuditInv(Req(f), s)
    BY OwnAudit
  <1>1. Fields(f, r) /\ Alone(f)
    BY MoveFields DEF Begin, Alone
  <1>2. /\ t.pc = "match" /\ t.ac = s.ac + 1 /\ t.stage = stage /\ t.events = s.events
        /\ t.rule = s.rule /\ t.sent = s.sent /\ t.shown = s.shown /\ t.out = s.out
    BY <1>1 DEF Fields, FlowFields
  <1>. HIDE DEF s, t
  <1>3. AuditInv(Req(f), t)
    BY <1>0, <1>2, AuditBegins DEF s
  <1>. QED  BY <1>1, <1>3, AuditSteps DEF t

\* A flow that stays in its phase, or leaves one that is settled.
LEMMA MoveAudits ==
  ASSUME ProxyInv, AuditsInv, NEW f \in Flows, world' = world,
         NEW r, Move(f, r), "pc" \in DOMAIN r, DOMAIN r \subseteq {"pc", "up", "ch"},
         \/ flow[f].pc \in Checking /\ r["pc"] \in Checking
         \/ /\ flow[f].pc \in {"hijack", "get", "probe", "dial", "write", "read"}
            /\ r["pc"] \in {"get", "probe", "dial", "write"}
         \/ /\ ~InCheck(flow[f]) /\ ~Asking(flow[f])
            /\ \/ r["pc"] \in {"done", "put"}
               \/ Inside(flow[f]) /\ r["pc"] \in {"serving", "splice"}
         \/ /\ flow[f].pc = "granted" /\ flow[f].stage = "hello" /\ flow[f].rule # Nil
            /\ r["pc"] \in {"raw", "inner"}
  PROVE  AuditsInv'
  <1>. DEFINE s == flow[f]
              t == flow'[f]
  <1>0. AuditInv(Req(f), s)
    BY OwnAudit
  <1>1. /\ Alone(f)
        /\ t.pc = r["pc"] /\ t.ac = s.ac /\ t.stage = s.stage /\ t.events = s.events
        /\ t.rule = s.rule /\ t.sent = s.sent /\ t.shown = s.shown /\ t.out = s.out
    BY MovesOnly
  <1>. HIDE DEF s, t
  <1>2. AuditInv(Req(f), t)
    <2>1. CASE s.pc \in Checking /\ t.pc \in Checking
      <3>1. /\ InCheck(s) /\ InCheck(t) /\ t.pc \notin {"new", "read"}
            /\ ~Inside(t) /\ ~Asking(t) /\ ~Telling(t) /\ ~Asking(s)
        BY <2>1 DEF InCheck, Inside, Asking, Telling, Checking
      <3>. QED  BY <1>0, <1>1, <3>1, AuditMoves
    <2>2. CASE /\ s.pc \in {"hijack", "get", "probe", "dial", "write", "read"}
               /\ t.pc \in {"get", "probe", "dial", "write"}
      <3>1. /\ Asking(s) /\ Asking(t) /\ t.pc \notin {"new", "read"}
            /\ ~Inside(t) /\ ~InCheck(t) /\ ~Telling(t) /\ ~InCheck(s)
        BY <2>2 DEF InCheck, Inside, Asking, Telling, Checking
      <3>. QED  BY <1>0, <1>1, <3>1, AuditMoves
    <2>3. CASE ~InCheck(s) /\ ~Asking(s) /\ t.pc \in {"done", "put"}
      <3>1. t.pc \notin {"new", "read"} /\ ~Inside(t) /\ ~InCheck(t) /\ ~Telling(t) /\ ~Asking(t)
        BY <2>3 DEF InCheck, Inside, Asking, Telling, Checking
      <3>. QED  BY <1>0, <1>1, <2>3, <3>1, AuditMoves
    <2>4. CASE ~InCheck(s) /\ ~Asking(s) /\ Inside(s) /\ t.pc \in {"serving", "splice"}
      <3>1. t.pc \notin {"new", "read"} /\ Inside(t) /\ ~InCheck(t) /\ ~Telling(t) /\ ~Asking(t)
        BY <2>4 DEF InCheck, Inside, Asking, Telling, Checking
      <3>. QED  BY <1>0, <1>1, <2>4, <3>1, AuditMoves
    <2>5. CASE s.pc = "granted" /\ s.stage = "hello" /\ s.rule # Nil /\ t.pc \in {"raw", "inner"}
      <3>1. /\ t.pc \notin {"new", "read"} /\ Inside(t) /\ ~InCheck(t) /\ ~Telling(t) /\ ~Asking(t)
            /\ InCheck(s) /\ ~Asking(s)
        BY <2>5 DEF InCheck, Inside, Asking, Telling, Checking
      <3>. QED  BY <1>0, <1>1, <2>5, <3>1, AuditMoves
    <2>. QED  BY <1>1, <2>1, <2>2, <2>3, <2>4, <2>5 DEF s
  <1>. QED  BY <1>1, <1>2, AuditSteps DEF t

\* A flow that has its answer, and ends or passes it on.
LEMMA AnswerAudits ==
  ASSUME ProxyInv, AuditsInv, NEW f \in Flows, world' = world,
         NEW v \in {"allow", "deny", "error"},
         NEW r, Log(f, <<<<"response", v>>>>, r), "pc" \in DOMAIN r,
         DOMAIN r \subseteq {"pc", "up", "got"},
         IF v = "deny" THEN InCheck(flow[f]) ELSE Asking(flow[f]),
         \/ r["pc"] = "done"
         \/ r["pc"] \in {"body", "tunnel"} /\ v = "allow" /\ flow[f].stage = "request"
  PROVE  AuditsInv'
  <1>. DEFINE s == flow[f]
              t == flow'[f]
  <1>0. AuditInv(Req(f), s) /\ s.events \in Seq(Events)
    BY OwnAudit
  <1>1. /\ Alone(f)
        /\ t.pc = r["pc"] /\ t.ac = s.ac /\ t.stage = s.stage
        /\ t.events = audit(f, flow[f].ac, <<<<"response", v>>>>)
        /\ t.rule = s.rule /\ t.sent = s.sent /\ t.shown = s.shown /\ t.out = s.out
    BY LogsOnly
  <1>2. t.events = Append(s.events, <<s.ac, "response", v>>)
    BY <1>0, <1>1, AuditOne
  <1>. HIDE DEF s, t
  <1>3. /\ IF v = "deny" THEN InCheck(s) ELSE Asking(s)
        /\ t.pc = "done" \/ (t.pc \in {"body", "tunnel"} /\ v = "allow" /\ t.stage = "request")
    BY <1>1 DEF s
  <1>4. /\ t.pc \in {"done", "body", "tunnel"} /\ (t.pc = "tunnel" => t.stage # "connect")
        /\ t.pc # "done" => v = "allow"
    BY <1>3
  <1>5. AuditInv(Req(f), t)
    BY <1>0, <1>1, <1>2, <1>3, <1>4, AuditAnswers
  <1>. QED  BY <1>1, <1>5, AuditSteps DEF t

\* A flow that is refused at once.
LEMMA DenyAudits ==
  ASSUME ProxyInv, AuditsInv, NEW f \in Flows, world' = world,
         Log(f, deny, [pc |-> "done"]), InCheck(flow[f])
  PROVE  AuditsInv'
  <1>. DEFINE s == flow[f]
              t == flow'[f]
              r == [pc |-> "done"]
  <1>0. AuditInv(Req(f), s) /\ s.events \in Seq(Events)
    BY OwnAudit
  <1>1. /\ Alone(f)
        /\ t.pc = "done" /\ t.ac = s.ac /\ t.stage = s.stage
        /\ t.events = audit(f, flow[f].ac, deny)
        /\ t.rule = s.rule /\ t.sent = s.sent /\ t.shown = s.shown /\ t.out = s.out
    <2>1. Log(f, deny, r) /\ DOMAIN r = {"pc"} /\ r["pc"] = "done"
      OBVIOUS
    <2>. HIDE DEF r
    <2>. QED  BY <2>1, LogsOnly
  <1>2. t.events = Append(Append(s.events, <<s.ac, "request", "deny">>), <<s.ac, "response", "deny">>)
    <2>1. audit(f, flow[f].ac, deny)
            = Append(Append(s.events, <<s.ac, "request", "deny">>), <<s.ac, "response", "deny">>)
      BY <1>0, AuditTwo DEF deny, denyRequest, denyResponse
    <2>. QED  BY <1>1, <2>1
  <1>. HIDE DEF s, t
  <1>3. InCheck(s)
    BY DEF s
  <1>4. AuditInv(Req(f), t)
    BY <1>0, <1>1, <1>2, <1>3, AuditDenies
  <1>. QED  BY <1>1, <1>4, AuditSteps DEF t

\* Arrivals open a context, or end the flow unaudited.
LEMMA ArrivalAudits ==
  ASSUME ProxyInv, AuditsInv, NEW f \in Flows, Arrival(f)
  PROVE  AuditsInv'
  <1>0. /\ flow[f].pc = "new" /\ world' = world
        /\ ~InCheck(flow[f]) /\ ~Asking(flow[f])
    BY DEF Arrival, DropDirect, handleTransparent, acceptHTTP, BadRequest, acceptHost,
           handleInnerH2, At, InCheck, Asking, Checking
  <1>1. CASE DropDirect(f) \/ BadRequest(f)
    <2>. DEFINE r == [pc |-> "done"]
    <2>1. Move(f, r) /\ DOMAIN r = {"pc"} /\ r["pc"] = "done"
      BY <1>1 DEF DropDirect, BadRequest
    <2>. HIDE DEF r
    <2>. QED  BY <1>0, <2>1, MoveAudits
  <1>2. CASE handleTransparent(f)
    BY <1>0, <1>2, DenyFreshAudits DEF handleTransparent
  <1>3. CASE acceptHTTP(f)
    BY <1>0, <1>3, BeginAudits DEF acceptHTTP
  <1>4. CASE acceptHost(f)
    <2>. DEFINE stage == IF Req(f).entry = "tls" THEN "hello" ELSE "connect"
    <2>1. Begin(f, stage) /\ (stage = "hello" => Req(f).entry = "tls")
      BY <1>4 DEF acceptHost
    <2>. HIDE DEF stage
    <2>. QED  BY <1>0, <2>1, BeginAudits
  <1>5. CASE handleInnerH2(f)
    <2>1. DenyFresh(f) \/ Begin(f, "request")
      BY <1>5 DEF handleInnerH2
    <2>. QED  BY <1>0, <2>1, DenyFreshAudits, BeginAudits
  <1>. QED  BY <1>1, <1>2, <1>3, <1>4, <1>5 DEF Arrival

\* A check that grants keeps what it announced.
LEMMA GrantAudits ==
  ASSUME ProxyInv, AuditsInv, NEW f \in Flows, world' = world,
         flow[f].pc \in Checking, Match(f) # Nil, Granted(f)
  PROVE  AuditsInv'
  <1>. DEFINE s == flow[f]
              t == flow'[f]
              r == [pc |-> "granted", rule |-> Match(f)]
  <1>0. AuditInv(Req(f), s)
    BY OwnAudit
  <1>1. Fields(f, r) /\ Alone(f)
    BY MoveFields DEF Granted, Alone
  <1>2. /\ t.pc = "granted" /\ t.ac = s.ac /\ t.stage = s.stage /\ t.events = s.events
        /\ t.rule # Nil /\ t.sent = s.sent /\ t.shown = s.shown /\ t.out = s.out
    BY <1>1 DEF Fields, FlowFields
  <1>3. /\ InCheck(s) /\ InCheck(t) /\ ~Inside(t) /\ ~Asking(t) /\ ~Telling(t) /\ ~Asking(s)
        /\ t.pc \notin {"new", "read"}
    BY <1>2 DEF InCheck, Inside, Asking, Telling, Checking
  <1>. HIDE DEF s, t
  <1>4. AuditInv(Req(f), t)
    BY <1>0, <1>2, <1>3, AuditMoves
  <1>. QED  BY <1>1, <1>4, AuditSteps DEF t

\* The steps of a check.
LEMMA CheckAudits ==
  ASSUME ProxyInv, AuditsInv, NEW f \in Flows, Check(f)
  PROVE  AuditsInv'
  <1>0. /\ flow[f].pc \in Checking /\ world' = world /\ InCheck(flow[f])
    BY DEF Check, FirstMatch, Grace, policyChan, Rematch, Wake, GiveUp, At, InCheck, Checking
  <1>1. ASSUME NEW p \in Checking, Move(f, [pc |-> p])
        PROVE  AuditsInv'
    <2>. DEFINE r == [pc |-> p]
    <2>1. Move(f, r) /\ DOMAIN r = {"pc"} /\ r["pc"] \in Checking
      BY <1>1
    <2>. HIDE DEF r
    <2>. QED  BY <1>0, <2>1, MoveAudits
  <1>2. CASE FirstMatch(f)
    BY <1>0, <1>1, <1>2, GrantAudits DEF FirstMatch, Checking
  <1>3. CASE Rematch(f)
    BY <1>0, <1>1, <1>3, GrantAudits DEF Rematch, Checking
  <1>4. CASE Wake(f)
    BY <1>1, <1>4 DEF Wake, Checking
  <1>5. CASE policyChan(f)
    <2>. DEFINE r == [pc |-> "rematch", ch |-> chan]
    <2>1. Move(f, r) /\ DOMAIN r = {"pc", "ch"} /\ r["pc"] \in Checking
      BY <1>5 DEF policyChan, Checking
    <2>. HIDE DEF r
    <2>. QED  BY <1>0, <2>1, MoveAudits
  <1>6. CASE GiveUp(f)
    <2>. DEFINE r == [pc |-> "done"]
    <2>1. Log(f, <<<<"response", "deny">>>>, r) /\ DOMAIN r = {"pc"} /\ r["pc"] = "done"
      BY <1>6 DEF GiveUp, denyResponse
    <2>. HIDE DEF r
    <2>. QED  BY <1>0, <2>1, AnswerAudits
  <1>7. CASE Grace(f)
    <2>1. CASE Log(f, deny, [pc |-> "done"])
      BY <1>0, <2>1, DenyAudits
    <2>2. CASE Log(f, <<denyRequest>>, [pc |-> "capture"])
      <3>. DEFINE s == flow[f]
                  t == flow'[f]
                  r == [pc |-> "capture"]
      <3>0. AuditInv(Req(f), s) /\ s.events \in Seq(Events)
        BY OwnAudit
      <3>1. Log(f, <<<<"request", "deny">>>>, r) /\ DOMAIN r = {"pc"} /\ r["pc"] = "capture"
        BY <2>2 DEF denyRequest
      <3>. HIDE DEF r
      <3>2. /\ Alone(f)
            /\ t.pc = "capture" /\ t.ac = s.ac /\ t.stage = s.stage
            /\ t.events = audit(f, flow[f].ac, <<<<"request", "deny">>>>)
            /\ t.rule = s.rule /\ t.sent = s.sent /\ t.shown = s.shown /\ t.out = s.out
        BY <1>0, <3>1, LogsOnly
      <3>3. t.events = Append(s.events, <<s.ac, "request", "deny">>)
        BY <3>0, <3>2, AuditOne
      <3>. HIDE DEF s, t
      <3>4. AuditInv(Req(f), t)
        BY <1>0, <3>0, <3>2, <3>3, AuditAnnounces DEF s
      <3>. QED  BY <3>2, <3>4, AuditSteps DEF t
    <2>. QED  BY <1>7, <2>1, <2>2 DEF Grace
  <1>. QED  BY <1>2, <1>3, <1>4, <1>5, <1>6, <1>7 DEF Check

\* The steps of an allowed connection.
LEMMA TunnelAudits ==
  ASSUME ProxyInv, AuditsInv, NEW f \in Flows, Tunnel(f)
  PROVE  AuditsInv'
  <1>. DEFINE s == flow[f]
              t == flow'[f]
              now == rulesForSource(Req(f).src)
  <1>0. /\ AuditInv(Req(f), s) /\ s.events \in Seq(Events)
        /\ FlowInv(world, Req(f), s, since[f], now, chan, reload)
    BY OwnAudit, OwnInv
  <1>. HIDE DEF now
  <1>w. world' = world
    BY DEF Tunnel, handleTransparentTLS, rawForwardTLS, interceptTLS, closeH2, spliceTLS,
           handleConnect, hijack, endTunnel
  <1>i. Inside(s) => ~InCheck(s) /\ ~Asking(s)
    BY DEF InCheck, Inside, Asking, Checking
  <1>m. ASSUME NEW p, Move(f, [pc |-> p]), Inside(s), p \in {"done", "serving", "splice"}
        PROVE  AuditsInv'
    <2>. DEFINE r == [pc |-> p]
    <2>1. Move(f, r) /\ DOMAIN r = {"pc"} /\ r["pc"] = p
      BY <1>m
    <2>. HIDE DEF r
    <2>. QED  BY <1>w, <1>i, <1>m, <2>1, MoveAudits
  <1>1. CASE handleTransparentTLS(f)
    <2>. DEFINE p == IF Intercepts(f) THEN "inner" ELSE "raw"
                r == [pc |-> p]
    <2>1. s.pc = "granted" /\ s.stage = "hello"
      BY <1>1 DEF handleTransparentTLS, At
    <2>2. s.rule # Nil
      BY <1>0, <2>1 DEF FlowInv, LetIn, Grants
    <2>3. Move(f, r) /\ DOMAIN r = {"pc"} /\ r["pc"] = p /\ p \in {"raw", "inner"}
      BY <1>1 DEF handleTransparentTLS
    <2>. HIDE DEF r, p
    <2>. QED  BY <1>w, <2>1, <2>2, <2>3, MoveAudits
  <1>2. CASE rawForwardTLS(f)
    <2>0. Inside(s) /\ s.pc = "raw"
      BY <1>2 DEF rawForwardTLS, At, Inside
    <2>1. CASE DenyFresh(f)
      BY <1>w, <1>i, <2>0, <2>1, DenyFreshAudits
    <2>2. ASSUME NEW c \in Conns, Move(f, [pc |-> "tunnel", up |-> c, sent |-> "host"])
          PROVE  AuditsInv'
      <3>. DEFINE r == [pc |-> "tunnel", up |-> c, sent |-> "host"]
      <3>1. Fields(f, r) /\ Alone(f)
        BY <1>w, <2>2, MoveFields DEF Alone
      <3>2. /\ t.pc = "tunnel" /\ t.ac = s.ac /\ t.stage = s.stage /\ t.events = s.events
            /\ t.rule = s.rule /\ t.sent = "host" /\ t.shown = s.shown /\ t.out = s.out
        BY <3>1 DEF Fields, FlowFields
      <3>3. t.stage = "hello" /\ Req(f).entry = "tls"
        BY <1>0, <2>0, <3>2 DEF AuditInv
      <3>4. ~InCheck(t) /\ ~Inside(t) /\ ~Asking(t) /\ ~Telling(t) /\ t.pc \notin {"new", "read"}
        BY <3>2, <3>3 DEF InCheck, Inside, Asking, Telling, Checking
      <3>5. ~MustAnnounce(Req(f), t.sent)
        BY <3>2, <3>3 DEF MustAnnounce
      <3>. HIDE DEF s, t
      <3>6. AuditInv(Req(f), t)
        BY <1>0, <1>i, <2>0, <3>2, <3>4, <3>5, AuditMoves
      <3>. QED  BY <3>1, <3>6, AuditSteps DEF t
    <2>. QED  BY <1>2, <2>1, <2>2 DEF rawForwardTLS
  <1>3. CASE interceptTLS(f)
    <2>0. Inside(s) /\ s.pc = "inner"
      BY <1>3 DEF interceptTLS, At, Inside
    <2>1. \/ DenyFresh(f) \/ Begin(f, "request")
          \/ \E p \in {"done", "serving", "splice"} : Move(f, [pc |-> p])
      BY <1>3 DEF interceptTLS
    <2>. QED  BY <1>w, <1>i, <1>m, <2>0, <2>1, DenyFreshAudits, BeginAudits
  <1>4. CASE closeH2(f)
    BY <1>4, <1>m DEF closeH2, At, Inside
  <1>5. CASE spliceTLS(f)
    <2>0. Inside(s) /\ s.pc = "splice"
      BY <1>5 DEF spliceTLS, At, Inside
    <2>1. CASE DenyFresh(f)
      BY <1>w, <1>i, <2>0, <2>1, DenyFreshAudits
    <2>2. ASSUME NEW c \in Conns,
                 Move(f, [pc |-> "tunnel", up |-> c, sent |-> "opaque", stage |-> "splice",
                          ac |-> flow[f].ac + 1,
                          events |-> audit(f, flow[f].ac + 1, <<allow, response>>)])
          PROVE  AuditsInv'
      <3>. DEFINE new == audit(f, flow[f].ac + 1, <<allow, response>>)
                  n == flow[f].ac + 1
                  r == [pc |-> "tunnel", up |-> c, sent |-> "opaque", stage |-> "splice",
                        ac |-> n, events |-> new]
      <3>1. Fields(f, r) /\ Alone(f) /\ n = s.ac + 1
        BY <1>w, <2>2, MoveFields DEF Alone
      <3>. HIDE DEF new, n
      <3>0. /\ DOMAIN r = {"pc", "up", "sent", "stage", "ac", "events"}
            /\ r["pc"] = "tunnel" /\ r["stage"] = "splice" /\ r["ac"] = n /\ r["events"] = new
        OBVIOUS
      <3>. HIDE DEF r
      <3>2. /\ t.pc = "tunnel" /\ t.ac = n /\ t.stage = "splice" /\ t.events = new
            /\ t.rule = s.rule /\ t.shown = s.shown /\ t.out = s.out
        <4>1. \A k \in {"pc", "stage", "ac", "events"} : k \in FlowFields /\ t[k] = r[k]
          BY <3>0, <3>1 DEF Fields, FlowFields
        <4>2. \A k \in {"rule", "shown", "out"} : k \in FlowFields /\ k \notin DOMAIN r /\ t[k] = s[k]
          BY <3>0, <3>1 DEF Fields, FlowFields
        <4>. QED  BY <3>0, <4>1, <4>2
      <3>3. new = Append(Append(s.events, <<n, "request", "allow">>), <<n, "response", "allow">>)
        <4>1. new = audit(f, n, <<<<"request", "allow">>, <<"response", "allow">>>>)
          BY DEF allow, response, new, n
        <4>. QED  BY <1>0, <4>1, AuditTwo
      <3>. HIDE DEF s, t
      <3>4. AuditInv(Req(f), t)
        BY <1>0, <1>i, <2>0, <3>1, <3>2, <3>3, AuditBoth
      <3>. QED  BY <3>1, <3>4, AuditSteps DEF t
    <2>. QED  BY <1>5, <2>1, <2>2 DEF spliceTLS
  <1>6. CASE handleConnect(f)
    <2>0. InCheck(s) /\ s.pc = "granted" /\ s.stage = "connect"
      BY <1>6 DEF handleConnect, At, InCheck
    <2>1. CASE Log(f, deny, [pc |-> "done"])
      BY <1>w, <2>0, <2>1, DenyAudits
    <2>2. ASSUME NEW c \in Conns, Log(f, <<allow>>, [pc |-> "hijack", up |-> c])
          PROVE  AuditsInv'
      <3>. DEFINE r == [pc |-> "hijack", up |-> c]
      <3>1. Log(f, <<<<"request", "allow">>>>, r) /\ DOMAIN r = {"pc", "up"} /\ r["pc"] = "hijack"
        BY <2>2 DEF allow
      <3>. HIDE DEF r
      <3>2. /\ Alone(f)
            /\ t.pc = "hijack" /\ t.ac = s.ac /\ t.stage = s.stage
            /\ t.events = audit(f, flow[f].ac, <<<<"request", "allow">>>>)
            /\ t.rule = s.rule /\ t.sent = s.sent /\ t.shown = s.shown /\ t.out = s.out
        BY <1>w, <3>1, LogsOnly
      <3>3. t.events = Append(s.events, <<s.ac, "request", "allow">>)
        BY <1>0, <3>2, AuditOne
      <3>. HIDE DEF s, t
      <3>4. AuditInv(Req(f), t)
        BY <1>0, <2>0, <3>2, <3>3, AuditAnnounces
      <3>. QED  BY <3>2, <3>4, AuditSteps DEF t
    <2>. QED  BY <1>6, <2>1, <2>2 DEF handleConnect
  <1>7. CASE hijack(f)
    <2>0. Asking(s) /\ s.pc = "hijack" /\ s.stage = "connect"
      BY <1>0, <1>7 DEF hijack, At, Asking, FlowInv
    <2>1. CASE Log(f, <<responseError>>, [pc |-> "done", up |-> Nil])
      <3>. DEFINE r == [pc |-> "done", up |-> Nil]
      <3>1. Log(f, <<<<"response", "error">>>>, r) /\ DOMAIN r = {"pc", "up"} /\ r["pc"] = "done"
        BY <2>1 DEF responseError
      <3>. HIDE DEF r
      <3>. QED  BY <1>w, <2>0, <3>1, AnswerAudits
    <2>2. CASE Move(f, [pc |-> "tunnel", sent |-> "host"])
      <3>. DEFINE r == [pc |-> "tunnel", sent |-> "host"]
      <3>1. Fields(f, r) /\ Alone(f)
        BY <1>w, <2>2, MoveFields DEF Alone
      <3>2. /\ t.pc = "tunnel" /\ t.ac = s.ac /\ t.stage = s.stage /\ t.events = s.events
            /\ t.rule = s.rule /\ t.shown = s.shown /\ t.out = s.out
        BY <3>1 DEF Fields, FlowFields
      <3>3. /\ ~InCheck(t) /\ ~Inside(t) /\ Asking(t) /\ ~Telling(t) /\ t.pc \notin {"new", "read"} /\ ~InCheck(s)
        BY <2>0, <3>2 DEF InCheck, Inside, Asking, Telling, Checking
      <3>. HIDE DEF s, t
      <3>4. AuditInv(Req(f), t)
        BY <1>0, <2>0, <3>2, <3>3, AuditMoves
      <3>. QED  BY <3>1, <3>4, AuditSteps DEF t
    <2>. QED  BY <1>7, <2>1, <2>2 DEF hijack
  <1>8. CASE endTunnel(f)
    <2>. DEFINE r == [pc |-> "done", up |-> Nil]
    <2>0. s.pc = "tunnel" /\ DOMAIN r = {"pc", "up"} /\ r["pc"] = "done"
      BY <1>8 DEF endTunnel, At
    <2>1. IF s.stage = "connect" THEN Log(f, <<<<"response", "allow">>>>, r) ELSE Move(f, r)
      BY <1>8 DEF endTunnel, response
    <2>. HIDE DEF r
    <2>2. CASE s.stage = "connect"
      <3>1. Asking(s)
        BY <2>0, <2>2 DEF Asking
      <3>. QED  BY <1>w, <2>0, <2>1, <2>2, <3>1, AnswerAudits
    <2>3. CASE s.stage # "connect"
      <3>1. ~InCheck(s) /\ ~Asking(s)
        BY <2>0, <2>3 DEF InCheck, Asking, Checking
      <3>. QED  BY <1>w, <2>0, <2>1, <2>3, <3>1, MoveAudits
    <2>. QED  BY <2>2, <2>3
  <1>. QED  BY <1>1, <1>2, <1>3, <1>4, <1>5, <1>6, <1>7, <1>8 DEF Tunnel

\* An allowed request is announced, with what is said of it.
LEMMA AnnounceAudits ==
  ASSUME ProxyInv, AuditsInv, NEW f \in Flows, world' = world,
         NEW p \in {"get", "dial"}, NEW out, NEW told,
         Log(f, <<allow>>, [pc |-> p, out |-> out, shown |-> told]),
         flow[f].pc = "granted", out = told \/ Req(f).entry # "explicit"
  PROVE  AuditsInv'
  <1>. DEFINE s == flow[f]
              t == flow'[f]
              r == [pc |-> p, out |-> out, shown |-> told]
  <1>0. AuditInv(Req(f), s) /\ s.events \in Seq(Events)
    BY OwnAudit
  <1>1. /\ \A k \in FlowFields \ {"events"} : t[k] = IF k \in DOMAIN r THEN r[k] ELSE s[k]
        /\ t.events = audit(f, flow[f].ac, <<<<"request", "allow">>>>)
        /\ Alone(f)
    BY LogFields DEF Alone, allow
  <1>2. /\ DOMAIN r = {"pc", "out", "shown"}
        /\ r["pc"] = p /\ r["out"] = out /\ r["shown"] = told
    OBVIOUS
  <1>. HIDE DEF r
  <1>3. /\ t.pc = p /\ t.out = out /\ t.shown = told
        /\ t.ac = s.ac /\ t.stage = s.stage /\ t.rule = s.rule /\ t.sent = s.sent
    <2>1. \A k \in {"pc", "out", "shown"} : t[k] = r[k]
      BY <1>1, <1>2 DEF FlowFields
    <2>2. \A k \in {"ac", "stage", "rule", "sent"} : k \in FlowFields \ {"events"} /\ k \notin DOMAIN r
      BY <1>2 DEF FlowFields
    <2>3. \A k \in {"ac", "stage", "rule", "sent"} : t[k] = s[k]
      BY <1>1, <2>2
    <2>. QED  BY <1>2, <2>1, <2>3
  <1>4. t.events = Append(s.events, <<s.ac, "request", "allow">>)
    BY <1>0, <1>1, AuditOne
  <1>5. InCheck(s)
    BY DEF InCheck
  <1>. HIDE DEF s, t
  <1>6. AuditInv(Req(f), t)
    BY <1>0, <1>3, <1>4, <1>5, AuditAnnounces
  <1>. QED  BY <1>1, <1>6, AuditSteps DEF t

\* The steps of an allowed request.
LEMMA RequestAudits ==
  ASSUME ProxyInv, AuditsInv, NEW f \in Flows, Request(f)
  PROVE  AuditsInv'
  <1>. DEFINE s == flow[f]
              t == flow'[f]
              closing == [pc |-> "done", up |-> Nil]
              Asks == {"get", "probe", "dial", "write", "read"}
              now == rulesForSource(Req(f).src)
  <1>0. /\ AuditInv(Req(f), s) /\ s.events \in Seq(Events)
        /\ FlowInv(world, Req(f), s, since[f], now, chan, reload)
    BY OwnAudit, OwnInv
  <1>. HIDE DEF now
  <1>w. world' = world
    BY DEF Request, handleHTTP, applyRequestRule, get, connAlive, dialUpstream,
           writeUpstreamRequest, forwardHTTP, handleWebSocket, forwardH2Upstream,
           chunkForward, finish, put
  <1>q. s.pc \in Asks => Asking(s)
    BY DEF Asking
  <1>f. ASSUME Fail(f), s.pc \in Asks
        PROVE  AuditsInv'
    <2>. DEFINE r == closing
    <2>1. Log(f, <<<<"response", "error">>>>, r) /\ DOMAIN r = {"pc", "up"} /\ r["pc"] = "done"
      BY <1>f DEF Fail, responseError
    <2>. HIDE DEF r
    <2>. QED  BY <1>w, <1>q, <1>f, <2>1, AnswerAudits
  <1>a. ASSUME NEW p \in {"tunnel", "body"}, Answered(f, p), s.pc = "read"
        PROVE  AuditsInv'
    <2>. DEFINE owed == Head(conns[flow[f].up].owed)
                r == [pc |-> p, got |-> owed]
    <2>1. Log(f, <<<<"response", "allow">>>>, r)
      BY <1>a DEF Answered, response
    <2>. HIDE DEF owed
    <2>2. DOMAIN r = {"pc", "got"} /\ r["pc"] = p
      OBVIOUS
    <2>. HIDE DEF r
    <2>3. s.stage = "request"
      BY <1>0, <1>a DEF AuditInv
    <2>. QED  BY <1>w, <1>q, <1>a, <2>1, <2>2, <2>3, AnswerAudits
  <1>m. ASSUME NEW r, Move(f, r), "pc" \in DOMAIN r, DOMAIN r \subseteq {"pc", "up", "ch"},
               s.pc \in Asks /\ r["pc"] \in Asks \ {"read"}
        PROVE  AuditsInv'
    BY <1>w, <1>m, MoveAudits
  <1>1. CASE handleHTTP(f)
    <2>1. \E out : Log(f, <<allow>>, [pc |-> "dial", out |-> out, shown |-> out])
      BY <1>1 DEF handleHTTP
    <2>2. s.pc = "granted"
      BY <1>1 DEF handleHTTP, At
    <2>. QED  BY <1>w, <2>1, <2>2, AnnounceAudits
  <1>2. CASE applyRequestRule(f)
    <2>. DEFINE rule == flow[f].rule
                over == applyOverride(Agent(f), rule.over)
                p == IF Pooled(f) THEN "get" ELSE "dial"
                out == runOverrideScript(over, rule.script, Req(f).large)
                told == [over EXCEPT !.body = Req(f).body]
    <2>1. Log(f, <<allow>>, [pc |-> p, out |-> out, shown |-> told])
      BY <1>2 DEF applyRequestRule
    <2>2. p \in {"get", "dial"} /\ s.pc = "granted" /\ Req(f).entry # "explicit"
      BY <1>2 DEF applyRequestRule, At
    <2>. HIDE DEF p, out, told
    <2>. QED  BY <1>w, <2>1, <2>2, AnnounceAudits
  <1>3. CASE get(f)
    <2>0. s.pc = "get"
      BY <1>3 DEF get, At
    <2>1. Move(f, [pc |-> "dial"]) \/ \E c : Move(f, [pc |-> "probe", up |-> c])
      BY <1>3 DEF get
    <2>2. CASE Move(f, [pc |-> "dial"])
      BY <1>m, <2>0, <2>2
    <2>3. ASSUME NEW c, Move(f, [pc |-> "probe", up |-> c])
          PROVE  AuditsInv'
      <3>. DEFINE r == [pc |-> "probe", up |-> c]
      <3>1. Move(f, r) /\ DOMAIN r = {"pc", "up"} /\ r["pc"] = "probe"
        BY <2>3
      <3>. HIDE DEF r
      <3>. QED  BY <1>m, <2>0, <3>1
    <2>. QED  BY <2>1, <2>2, <2>3
  <1>4. CASE connAlive(f)
    <2>0. s.pc = "probe"
      BY <1>4 DEF connAlive, At
    <2>1. Move(f, [pc |-> "write"]) \/ Move(f, [pc |-> "get", up |-> Nil])
      BY <1>4 DEF connAlive
    <2>. QED  BY <1>m, <2>0, <2>1
  <1>5. CASE dialUpstream(f)
    <2>0. s.pc = "dial"
      BY <1>5 DEF dialUpstream, At
    <2>1. CASE Log(f, <<responseError>>, [pc |-> "done"])
      <3>. DEFINE r == [pc |-> "done"]
      <3>1. Log(f, <<<<"response", "error">>>>, r) /\ DOMAIN r = {"pc"} /\ r["pc"] = "done"
        BY <2>1 DEF responseError
      <3>. HIDE DEF r
      <3>. QED  BY <1>w, <1>q, <2>0, <3>1, AnswerAudits
    <2>2. ASSUME NEW c \in Conns, Move(f, [pc |-> "write", up |-> c])
          PROVE  AuditsInv'
      <3>. DEFINE r == [pc |-> "write", up |-> c]
      <3>1. Move(f, r) /\ DOMAIN r = {"pc", "up"} /\ r["pc"] = "write"
        BY <2>2
      <3>. HIDE DEF r
      <3>. QED  BY <1>m, <2>0, <3>1
    <2>. QED  BY <1>5, <2>1, <2>2 DEF dialUpstream
  <1>6. CASE writeUpstreamRequest(f)
    <2>0. s.pc = "write"
      BY <1>6 DEF writeUpstreamRequest, At
    <2>1. CASE Move(f, [pc |-> "read", sent |-> "request"])
      <3>. DEFINE r == [pc |-> "read", sent |-> "request"]
      <3>1. Fields(f, r) /\ Alone(f)
        BY <1>w, <2>1, MoveFields DEF Alone
      <3>2. /\ t.pc = "read" /\ t.ac = s.ac /\ t.stage = s.stage /\ t.events = s.events
            /\ t.rule = s.rule /\ t.shown = s.shown /\ t.out = s.out
        BY <3>1 DEF Fields, FlowFields
      <3>5. s.stage = "request"
        BY <1>0, <2>0 DEF FlowInv
      <3>3. /\ ~InCheck(t) /\ ~Inside(t) /\ Asking(t) /\ ~Telling(t) /\ t.pc # "new"
            /\ Asking(s) /\ ~InCheck(s)
        BY <2>0, <3>2 DEF InCheck, Inside, Asking, Telling, Checking
      <3>. HIDE DEF s, t
      <3>4. AuditInv(Req(f), t)
        BY <1>0, <2>0, <3>2, <3>3, <3>5, AuditMoves
      <3>. QED  BY <3>1, <3>4, AuditSteps DEF t
    <2>. QED  BY <1>6, <1>f, <2>0, <2>1 DEF writeUpstreamRequest
  <1>7. CASE forwardHTTP(f) \/ handleWebSocket(f) \/ forwardH2Upstream(f)
    <2>1. s.pc = "read" /\ (Fail(f) \/ Answered(f, "tunnel") \/ Answered(f, "body"))
      BY <1>7 DEF forwardHTTP, handleWebSocket, forwardH2Upstream, At
    <2>. QED  BY <1>f, <1>a, <2>1
  <1>8. CASE chunkForward(f)
    <2>. DEFINE was == flow[f].got
                r == [got |-> was]
    <2>1. Log(f, <<<<"chunk", "allow">>>>, r) /\ Telling(s)
      BY <1>8 DEF chunkForward, streamChunk, Telling, At
    <2>. HIDE DEF was
    <2>2. DOMAIN r = {"got"}
      OBVIOUS
    <2>. HIDE DEF r
    <2>3. /\ Alone(f)
          /\ t.pc = s.pc /\ t.ac = s.ac /\ t.stage = s.stage
          /\ t.events = audit(f, flow[f].ac, <<<<"chunk", "allow">>>>)
          /\ t.rule = s.rule /\ t.sent = s.sent /\ t.shown = s.shown /\ t.out = s.out
      BY <1>w, <2>1, <2>2, LogsOnly
    <2>4. t.events = Append(s.events, <<s.ac, "chunk", "allow">>)
      BY <1>0, <2>3, AuditOne
    <2>. HIDE DEF s, t
    <2>5. AuditInv(Req(f), t)
      BY <1>0, <2>1, <2>3, <2>4, AuditChunks
    <2>. QED  BY <2>3, <2>5, AuditSteps DEF t
  <1>9. CASE finish(f) \/ put(f)
    <2>0. ~InCheck(s) /\ ~Asking(s)
      BY <1>9 DEF finish, put, At, InCheck, Asking, Checking
    <2>1. Move(f, [pc |-> "put"]) \/ Move(f, closing)
      BY <1>9 DEF finish, put
    <2>2. ASSUME NEW r, Move(f, r), "pc" \in DOMAIN r, DOMAIN r \subseteq {"pc", "up", "ch"},
                 r["pc"] \in {"done", "put"}
          PROVE  AuditsInv'
      BY <1>w, <2>0, <2>2, MoveAudits
    <2>. QED  BY <2>1, <2>2
  <1>. QED  BY <1>1, <1>2, <1>3, <1>4, <1>5, <1>6, <1>7, <1>8, <1>9 DEF Request

\* The pool invariant.
PoolInv == PoolShape /\ \A f \in Flows : HoldInv(f)

\* A key belongs to the request and the rule of a flow.
LEMMA KeyStays ==
  ASSUME NEW f, world' = world, flow'[f].rule = flow[f].rule
  PROVE  keyFor(f)' = keyFor(f)
  BY DEF keyFor, dialAddr, origDst, TlsHost, Host, Req, dialTarget, upstreamAddr

\* What HoldInv says of a flow that holds a connection, and of one that does not.
LEMMA Holds ==
  ASSUME PoolInv, NEW f \in Flows
  PROVE  LET s == flow[f]
             c == s.up
         IN  /\ s.got \in {Nil, f}
             /\ s.pc \notin Holding => c = Nil
             /\ s.pc \in Holding <=> c # Nil
             /\ s.pc \in Holding =>
                  /\ c \in Conns /\ conns[c].st # "free" /\ conns[c].key = keyFor(f)
                  /\ c \notin Idlers
                  /\ \A g \in Flows : flow[g].up = c => g = f
                  /\ s.pc = "probe" => conns[c].owed \in {<<>>, <<Stray>>}
                  /\ s.pc \in {"write", "put"} => conns[c].owed = <<>>
                  /\ s.pc \in {"read", "body"} => conns[c].owed = <<f>>
  BY PoolAssumption DEF PoolInv, HoldInv

\* A step of flow f that leaves the connections of the others alone.
LEMMA OthersHold ==
  ASSUME PoolInv, NEW f \in Flows, Alone(f),
         \A g \in Flows \ {f} : flow[g].up \in Conns =>
            /\ conns'[flow[g].up] = conns[flow[g].up]
            /\ flow[g].up \in Idlers' => flow[g].up \in Idlers
            /\ flow'[f].up # flow[g].up
  PROVE  \A g \in Flows \ {f} : HoldInv(g)'
  <1>. SUFFICES ASSUME NEW g \in Flows \ {f} PROVE HoldInv(g)'
    OBVIOUS
  <1>1. HoldInv(g) /\ flow'[g] = flow[g] /\ world' = world
    BY DEF PoolInv, Alone
  <1>2. keyFor(g)' = keyFor(g)
    BY <1>1, KeyStays
  <1>3. CASE flow[g].pc \notin Holding
    BY <1>1, <1>3 DEF HoldInv
  <1>4. CASE flow[g].pc \in Holding
    <2>. DEFINE c == flow[g].up
    <2>1. c \in Conns /\ c \notin Idlers /\ \A h \in Flows : flow[h].up = c => h = g
      BY <1>1, <1>4 DEF HoldInv
    <2>2. conns'[c] = conns[c] /\ c \notin Idlers' /\ flow'[f].up # c
      BY <2>1
    <2>3. \A h \in Flows : flow'[h].up = c => h = g
      BY <2>1, <2>2 DEF Alone
    <2>. QED  BY <1>1, <1>2, <1>4, <2>1, <2>2, <2>3 DEF HoldInv
  <1>. QED  BY <1>3, <1>4

\* What is in the pool depends on the stacks alone.
LEMMA SamePool ==
  ASSUME idle' = idle
  PROVE  Idlers' = Idlers
  BY DEF Idlers, InPool

\* One connection changes, and the stacks do not.
LEMMA ShapeKept ==
  ASSUME PoolShape, world' = world, idle' = idle, NEW c \in Conns, NEW d,
         conns' = [conns EXCEPT ![c] = d],
         c \in Idlers => d.st # "free" /\ d.key = conns[c].key /\ d.owed \in {<<>>, <<Stray>>},
         d.st # "free" =>
            /\ DOMAIN d = ConnFields
            /\ world.shared \/ d.src = d.key.src
            /\ c \in Idlers \/ \E f \in Flows : flow'[f].up = c,
         \A b \in Conns \ {c} :
            (\E f \in Flows : flow[f].up = b) => \E f \in Flows : flow'[f].up = b
  PROVE  PoolShape'
  <1>1. /\ conns' = [b \in Conns |-> conns'[b]] /\ conns'[c] = d
        /\ \A b \in Conns \ {c} : conns'[b] = conns[b]
    BY DEF PoolShape, ConnsInv
  <1>2. Idlers' = Idlers
    BY SamePool
  <1>3. ASSUME NEW b \in Conns, conns'[b].st # "free"
        PROVE  /\ DOMAIN conns'[b] = ConnFields
               /\ world'.shared \/ conns'[b].src = conns'[b].key.src
               /\ b \in Idlers' \/ \E f \in Flows : flow'[f].up = b
    <2>1. CASE b = c
      BY <1>1, <1>2, <1>3, <2>1
    <2>2. CASE b # c
      BY <1>1, <1>2, <1>3, <2>2 DEF PoolShape, ConnsInv
    <2>. QED  BY <2>1, <2>2
  <1>4. ASSUME NEW k \in DOMAIN idle'
        PROVE  StackInv(k, idle[k])'
    <2>0. StackInv(k, idle[k]) /\ idle'[k] = idle[k]
      BY DEF PoolShape
    <2>1. ASSUME NEW i \in DOMAIN idle[k]
          PROVE  /\ conns'[idle[k][i]].st # "free" /\ conns'[idle[k][i]].key = k
                 /\ conns'[idle[k][i]].owed \in {<<>>, <<Stray>>}
      <3>0. idle[k][i] \in Conns
        BY <2>0 DEF StackInv
      <3>1. CASE idle[k][i] = c
        <4>1. c \in Idlers
          BY <3>1 DEF Idlers, InPool
        <4>. QED  BY <1>1, <2>0, <3>1, <4>1 DEF StackInv
      <3>2. CASE idle[k][i] # c
        BY <1>1, <2>0, <3>0, <3>2 DEF StackInv
      <3>. QED  BY <3>1, <3>2
    <2>. QED  BY <2>0, <2>1 DEF StackInv
  <1>5. ConnsInv'
    BY <1>1, <1>3 DEF ConnsInv
  <1>. QED  BY <1>4, <1>5 DEF PoolShape

-----------------------------------------------------------------------------
\* A flow goes on with the connection it has, or without one.
LEMMA PoolStays ==
  ASSUME PoolInv, NEW f \in Flows, Alone(f), conns' = conns, idle' = idle,
         flow'[f].up = flow[f].up, flow'[f].got \in {Nil, f},
         flow'[f].pc \in Holding <=> flow[f].pc \in Holding,
         flow'[f].pc \in Holding => flow'[f].rule = flow[f].rule,
         flow'[f].pc = "probe" => flow[f].pc = "probe",
         flow'[f].pc \in {"write", "put"} => conns[flow[f].up].owed = <<>>,
         flow'[f].pc \in {"read", "body"} => conns[flow[f].up].owed = <<f>>
  PROVE  PoolInv'
  <1>. DEFINE c == flow[f].up
  <1>0. Idlers' = Idlers
    BY SamePool
  <1>1. \A g \in Flows : flow'[g].up = flow[g].up
    BY DEF Alone
  <1>2. \A g \in Flows \ {f} : flow[g].up \in Conns => flow[g].up # c
    <2>. SUFFICES ASSUME NEW g \in Flows \ {f}, flow[g].up \in Conns, flow[g].up = c PROVE FALSE
      OBVIOUS
    <2>. QED  BY Holds, PoolAssumption
  <1>3. \A g \in Flows \ {f} : HoldInv(g)'
    BY <1>0, <1>2, OthersHold
  <1>4. HoldInv(f)'
    <2>1. CASE flow'[f].pc \notin Holding
      <3>1. flow'[f].up = Nil
        BY <2>1, Holds
      <3>. QED  BY <2>1, <3>1 DEF HoldInv
    <2>2. CASE flow'[f].pc \in Holding
      <3>1. /\ c \in Conns /\ conns[c].st # "free" /\ conns[c].key = keyFor(f)
            /\ c \notin Idlers
            /\ \A g \in Flows : flow[g].up = c => g = f
            /\ flow[f].pc = "probe" => conns[c].owed \in {<<>>, <<Stray>>}
        BY <2>2, Holds
      <3>2. keyFor(f)' = keyFor(f)
        BY <2>2, KeyStays DEF Alone
      <3>. QED  BY <1>0, <1>1, <2>2, <3>1, <3>2 DEF HoldInv
    <2>. QED  BY <2>1, <2>2
  <1>5. PoolShape'
    <2>0. PoolShape /\ world' = world
      BY DEF PoolInv, Alone
    <2>1. ASSUME NEW b \in Conns, conns[b].st # "free"
          PROVE  b \in Idlers' \/ \E g \in Flows : flow'[g].up = b
      BY <1>0, <1>1, <2>0, <2>1 DEF PoolShape, ConnsInv
    <2>2. ConnsInv'
      BY <2>0, <2>1 DEF PoolShape, ConnsInv
    <2>3. ASSUME NEW k \in DOMAIN idle' PROVE StackInv(k, idle[k])'
      BY <2>0 DEF PoolShape, StackInv
    <2>. QED  BY <2>2, <2>3 DEF PoolShape
  <1>. QED  BY <1>3, <1>4, <1>5 DEF PoolInv

\* An idle connection is open, and in the stack of its own key.
LEMMA IdleOpen ==
  ASSUME PoolShape, NEW c \in Idlers
  PROVE  /\ c \in Conns /\ conns[c].st # "free" /\ conns[c].owed \in {<<>>, <<Stray>>}
         /\ conns[c].key \in DOMAIN idle
         /\ \E i \in DOMAIN idle[conns[c].key] : idle[conns[c].key][i] = c
  <1>1. PICK k \in DOMAIN idle : \E i \in DOMAIN idle[k] : idle[k][i] = c
    BY DEF Idlers, InPool
  <1>2. StackInv(k, idle[k])
    BY DEF PoolShape
  <1>3. c \in Conns
    BY DEF Idlers
  <1>. QED  BY <1>1, <1>2, <1>3 DEF StackInv

\* Two flows hold two connections.
LEMMA HeldApart ==
  ASSUME PoolInv, NEW f \in Flows, NEW g \in Flows \ {f}, flow[g].up \in Conns
  PROVE  flow[g].up # flow[f].up /\ conns[flow[g].up].st # "free" /\ flow[g].up \notin Idlers
  <1>1. flow[g].pc \in Holding
    BY Holds, PoolAssumption
  <1>. QED  BY <1>1, Holds

\* A dial.
LEMMA PoolDials ==
  ASSUME PoolInv, NEW f \in Flows, Alone(f), flow[f].pc \notin Holding,
         NEW c \in Conns, Dialled(f, c), flow'[f].up = c,
         flow'[f].pc \in {"tunnel", "hijack", "write"},
         flow'[f].rule = flow[f].rule, flow'[f].got = flow[f].got
  PROVE  PoolInv'
  <1>. DEFINE d == Fresh(f)
  <1>0. PoolShape /\ conns[c].st = "free" /\ conns' = [conns EXCEPT ![c] = d] /\ idle' = idle
    BY DEF PoolInv, Dialled
  <1>1. /\ d.st = "live" /\ d.key = keyFor(f) /\ d.src = Req(f).src /\ d.owed = <<>>
        /\ DOMAIN d = ConnFields
    BY DEF Fresh, ConnFields
  <1>. HIDE DEF d
  <1>2. world.shared \/ d.src = d.key.src
    <2>1. keyFor(f).src = IF world.shared THEN "" ELSE Req(f).src
      BY DEF keyFor
    <2>. QED  BY <1>1, <2>1
  <1>3. c \notin Idlers /\ Idlers' = Idlers
    BY <1>0, IdleOpen, SamePool
  <1>4. conns'[c] = d /\ \A b \in Conns \ {c} : conns'[b] = conns[b]
    BY <1>0 DEF PoolShape, ConnsInv
  <1>5. \A g \in Flows \ {f} : flow[g].up \in Conns => flow[g].up # c
    BY <1>0, HeldApart
  <1>6. flow[f].up = Nil /\ flow[f].got \in {Nil, f}
    BY Holds
  <1>7. \A g \in Flows \ {f} : flow'[g] = flow[g]
    BY DEF Alone
  <1>8. PoolShape'
    <2>1. ASSUME NEW b \in Conns \ {c}, \E g \in Flows : flow[g].up = b
          PROVE  \E g \in Flows : flow'[g].up = b
      <3>1. PICK g \in Flows : flow[g].up = b
        BY <2>1
      <3>2. g # f
        BY <1>6, <3>1, PoolAssumption
      <3>. QED  BY <1>7, <3>1, <3>2
    <2>. QED  BY <1>0, <1>1, <1>2, <1>3, <2>1, ShapeKept DEF Alone
  <1>9. \A g \in Flows \ {f} : HoldInv(g)'
    BY <1>3, <1>4, <1>5, OthersHold
  <1>10. HoldInv(f)'
    <2>1. keyFor(f)' = keyFor(f)
      BY KeyStays DEF Alone
    <2>2. \A g \in Flows : flow'[g].up = c => g = f
      BY <1>5, <1>7
    <2>3. flow'[f].pc \in Holding
      BY DEF Holding
    <2>. QED  BY <1>1, <1>3, <1>4, <1>6, <2>1, <2>2, <2>3 DEF HoldInv
  <1>. QED  BY <1>8, <1>9, <1>10 DEF PoolInv

\* A flow closes its connection.
LEMMA PoolCloses ==
  ASSUME PoolInv, NEW f \in Flows, Alone(f), flow[f].pc \in Holding, CloseUp(f),
         flow'[f].up = Nil, flow'[f].pc \notin Holding, flow'[f].got = flow[f].got
  PROVE  PoolInv'
  <1>. DEFINE c == flow[f].up
              d == Free
  <1>1. /\ c \in Conns /\ c \notin Idlers /\ flow[f].got \in {Nil, f}
        /\ \A g \in Flows : flow[g].up = c => g = f
    BY Holds
  <1>2. PoolShape /\ conns' = [conns EXCEPT ![c] = d] /\ idle' = idle
    BY <1>1, PoolAssumption DEF PoolInv, CloseUp
  <1>3. d.st = "free"
    BY DEF Free
  <1>. HIDE DEF d
  <1>4. Idlers' = Idlers
    BY <1>2, SamePool
  <1>5. conns'[c] = d /\ \A b \in Conns \ {c} : conns'[b] = conns[b]
    BY <1>1, <1>2 DEF PoolShape, ConnsInv
  <1>6. \A g \in Flows \ {f} : flow'[g] = flow[g]
    BY DEF Alone
  <1>7. PoolShape'
    <2>1. ASSUME NEW b \in Conns \ {c}, \E g \in Flows : flow[g].up = b
          PROVE  \E g \in Flows : flow'[g].up = b
      BY <1>6, <2>1
    <2>. HIDE DEF c
    <2>. QED  BY <1>1, <1>2, <1>3, <2>1, ShapeKept DEF Alone
  <1>8. \A g \in Flows \ {f} : HoldInv(g)'
    <2>1. ASSUME NEW g \in Flows \ {f}, flow[g].up \in Conns
          PROVE  /\ conns'[flow[g].up] = conns[flow[g].up]
                 /\ flow[g].up \in Idlers' => flow[g].up \in Idlers
                 /\ flow'[f].up # flow[g].up
      BY <1>1, <1>4, <1>5, <2>1, PoolAssumption
    <2>. QED  BY <2>1, OthersHold
  <1>9. HoldInv(f)'
    BY <1>1 DEF HoldInv
  <1>. QED  BY <1>7, <1>8, <1>9 DEF PoolInv

\* A request is written, or its response drained.
LEMMA PoolOwes ==
  ASSUME PoolInv, NEW f \in Flows, Alone(f), flow[f].pc \in Holding, idle' = idle,
         NEW d, conns' = [conns EXCEPT ![flow[f].up] = d],
         DOMAIN d = ConnFields, d.st = conns[flow[f].up].st,
         d.key = conns[flow[f].up].key, d.src = conns[flow[f].up].src,
         flow'[f].up = flow[f].up, flow'[f].rule = flow[f].rule, flow'[f].got = flow[f].got,
         \/ flow'[f].pc = "read" /\ d.owed = <<f>>
         \/ flow'[f].pc = "put" /\ d.owed = <<>>
  PROVE  PoolInv'
  <1>. DEFINE c == flow[f].up
  <1>1. /\ c \in Conns /\ c \notin Idlers /\ flow[f].got \in {Nil, f}
        /\ conns[c].st # "free" /\ conns[c].key = keyFor(f)
        /\ \A g \in Flows : flow[g].up = c => g = f
    BY Holds
  <1>2. PoolShape /\ Idlers' = Idlers
    BY SamePool DEF PoolInv
  <1>3. conns'[c] = d /\ \A b \in Conns \ {c} : conns'[b] = conns[b]
    BY <1>1, <1>2 DEF PoolShape, ConnsInv
  <1>4. \A g \in Flows : flow'[g].up = flow[g].up
    BY DEF Alone
  <1>5. PoolShape'
    <2>1. world.shared \/ d.src = d.key.src
      BY <1>1, <1>2 DEF PoolShape, ConnsInv
    <2>2. \E g \in Flows : flow'[g].up = c
      BY <1>4
    <2>3. \A b \in Conns \ {c} :
            (\E g \in Flows : flow[g].up = b) => \E g \in Flows : flow'[g].up = b
      BY <1>4
    <2>4. conns' = [conns EXCEPT ![c] = d] /\ world' = world
      BY DEF Alone
    <2>. HIDE DEF c
    <2>. QED  BY <1>1, <1>2, <2>1, <2>2, <2>3, <2>4, ShapeKept
  <1>6. \A g \in Flows \ {f} : HoldInv(g)'
    <2>1. ASSUME NEW g \in Flows \ {f}, flow[g].up \in Conns
          PROVE  /\ conns'[flow[g].up] = conns[flow[g].up]
                 /\ flow[g].up \in Idlers' => flow[g].up \in Idlers
                 /\ flow'[f].up # flow[g].up
      BY <1>1, <1>2, <1>3, <2>1
    <2>. QED  BY <2>1, OthersHold
  <1>7. HoldInv(f)'
    <2>1. keyFor(f)' = keyFor(f)
      BY KeyStays DEF Alone
    <2>2. flow'[f].pc \in Holding
      BY DEF Holding
    <2>. QED  BY <1>1, <1>2, <1>3, <1>4, <2>1, <2>2 DEF HoldInv
  <1>. QED  BY <1>5, <1>6, <1>7 DEF PoolInv

\* The stack of a key is in order, whether the pool has one or not.
LEMMA StackShape ==
  ASSUME PoolShape, NEW k
  PROVE  /\ StackInv(k, Stack(k))
         /\ \A c \in Conns : c \in Idlers /\ conns[c].key = k <=> \E i \in DOMAIN Stack(k) : Stack(k)[i] = c
  <1>1. CASE k \in DOMAIN idle
    <2>1. Stack(k) = idle[k] /\ StackInv(k, idle[k])
      BY <1>1 DEF Stack, PoolShape
    <2>2. ASSUME NEW c \in Conns
          PROVE  c \in Idlers /\ conns[c].key = k <=> \E i \in DOMAIN idle[k] : idle[k][i] = c
      <3>1. ASSUME NEW i \in DOMAIN idle[k], idle[k][i] = c PROVE c \in Idlers /\ conns[c].key = k
        BY <1>1, <2>1, <3>1 DEF Idlers, InPool, StackInv
      <3>. QED  BY <3>1, IdleOpen
    <2>. QED  BY <2>1, <2>2
  <1>2. CASE k \notin DOMAIN idle
    <2>1. Stack(k) = <<>>
      BY <1>2 DEF Stack
    <2>2. <<>> \in Seq(Conns) /\ Len(<<>>) = 0 /\ DOMAIN <<>> = {}
      OBVIOUS
    <2>3. StackInv(k, <<>>)
      BY <2>2, PoolAssumption DEF StackInv
    <2>4. \A c \in Idlers : conns[c].key # k
      BY <1>2, IdleOpen
    <2>. QED  BY <2>1, <2>2, <2>3, <2>4
  <1>. QED  BY <1>1, <1>2

\* A key gets a new stack: the other stacks stay.
LEMMA StackSet ==
  ASSUME PoolShape, NEW k, NEW new, StackInv(k, new),
         conns' = conns, idle' = SetStack(k, new)
  PROVE  /\ \A j \in DOMAIN idle' : StackInv(j, idle[j])'
         /\ \A c \in Conns : c \in Idlers' <=>
              \/ c \in Idlers /\ conns[c].key # k
              \/ \E i \in DOMAIN new : new[i] = c
  <1>1. /\ DOMAIN idle' = DOMAIN idle \cup {k} /\ idle'[k] = new
        /\ \A j \in DOMAIN idle \ {k} : idle'[j] = idle[j]
    BY DEF SetStack
  <1>2. ASSUME NEW j \in DOMAIN idle'
        PROVE  StackInv(j, idle[j])' /\ StackInv(j, idle'[j])
    <2>1. StackInv(j, idle'[j])
      BY <1>1, <1>2 DEF PoolShape
    <2>. QED  BY <2>1 DEF StackInv
  <1>3. ASSUME NEW c \in Conns
        PROVE  c \in Idlers' <=> \/ c \in Idlers /\ conns[c].key # k
                                 \/ \E i \in DOMAIN new : new[i] = c
    <2>1. c \in Idlers' <=> \E j \in DOMAIN idle' : \E i \in DOMAIN idle'[j] : idle'[j][i] = c
      BY DEF Idlers, InPool
    <2>2. ASSUME NEW j \in DOMAIN idle', NEW i \in DOMAIN idle'[j], idle'[j][i] = c, j # k
          PROVE  c \in Idlers /\ conns[c].key # k
      <3>1. j \in DOMAIN idle /\ idle'[j] = idle[j]
        BY <1>1, <2>2
      <3>2. c \in Idlers
        BY <2>2, <3>1 DEF Idlers, InPool
      <3>3. conns[c].key = j
        BY <1>2, <2>2 DEF StackInv
      <3>. QED  BY <2>2, <3>2, <3>3
    <2>3. ASSUME c \in Idlers, conns[c].key # k
          PROVE  c \in Idlers'
      <3>1. conns[c].key \in DOMAIN idle /\ \E i \in DOMAIN idle[conns[c].key] : idle[conns[c].key][i] = c
        BY <2>3, IdleOpen
      <3>. QED  BY <1>1, <2>1, <2>3, <3>1
    <2>4. (\E i \in DOMAIN new : new[i] = c) => c \in Idlers'
      BY <1>1, <2>1
    <2>. QED  BY <1>1, <2>1, <2>2, <2>3, <2>4
  <1>. QED  BY <1>2, <1>3

\* A flow takes the newest idle connection of its key.
LEMMA PoolPops ==
  ASSUME PoolInv, NEW f \in Flows, Alone(f), flow[f].pc \notin Holding,
         conns' = conns, Stack(keyFor(f)) # <<>>,
         idle' = SetStack(keyFor(f), SubSeq(Stack(keyFor(f)), 1, Len(Stack(keyFor(f))) - 1)),
         flow'[f].up = Stack(keyFor(f))[Len(Stack(keyFor(f)))],
         flow'[f].pc = "probe", flow'[f].rule = flow[f].rule, flow'[f].got = flow[f].got
  PROVE  PoolInv'
  <1>. DEFINE k == keyFor(f)
              stack == Stack(k)
              n == Len(stack)
              c == stack[n]
              new == SubSeq(stack, 1, n - 1)
  <1>0. PoolShape
    BY DEF PoolInv
  <1>1. /\ StackInv(k, stack)
        /\ \A b \in Conns : b \in Idlers /\ conns[b].key = k <=> \E i \in DOMAIN stack : stack[i] = b
    <2>. HIDE DEF k
    <2>. QED  BY <1>0, StackShape
  <1>g. idle' = SetStack(k, new) /\ flow'[f].up = c /\ stack # <<>>
    OBVIOUS
  <1>. HIDE DEF stack, k
  <1>2. /\ stack \in Seq(Conns) /\ n \in Nat /\ n > 0 /\ n \in DOMAIN stack /\ DOMAIN stack = 1 .. n
        /\ n <= MaxIdlePer
    BY <1>1, <1>g DEF StackInv
  <1>3. /\ new \in Seq(Conns) /\ Len(new) = n - 1 /\ DOMAIN new = 1 .. n - 1
        /\ \A i \in 1 .. n - 1 : new[i] = stack[i]
    BY <1>2
  <1>. HIDE DEF new, n
  <1>4. StackInv(k, new)
    <2>1. \A i \in DOMAIN new : i \in DOMAIN stack /\ new[i] = stack[i]
      BY <1>2, <1>3
    <2>2. Len(new) <= MaxIdlePer
      BY <1>2, <1>3, PoolAssumption
    <2>. QED  BY <1>1, <1>3, <2>1, <2>2 DEF StackInv
  <1>5. /\ c \in Conns /\ conns[c].st # "free" /\ conns[c].key = k
        /\ conns[c].owed \in {<<>>, <<Stray>>} /\ c \in Idlers
    BY <1>1, <1>2 DEF StackInv
  <1>6. /\ \A j \in DOMAIN idle' : StackInv(j, idle[j])'
        /\ \A b \in Conns : b \in Idlers' <=> \/ b \in Idlers /\ conns[b].key # k
                                              \/ \E i \in DOMAIN new : new[i] = b
    BY <1>0, <1>4, <1>g, StackSet
  <1>7. \A i \in DOMAIN new : new[i] # c
    <2>. SUFFICES ASSUME NEW i \in DOMAIN new, new[i] = c PROVE FALSE
      OBVIOUS
    <2>1. i \in DOMAIN stack /\ stack[i] = stack[n] /\ i # n
      BY <1>2, <1>3
    <2>. QED  BY <1>1, <1>2, <2>1 DEF StackInv
  <1>8. \A i \in DOMAIN new : i \in DOMAIN stack /\ new[i] = stack[i] /\ new[i] \in Conns
    BY <1>2, <1>3
  <1>9. c \notin Idlers'
    BY <1>5, <1>6, <1>7
  <1>10. \A b \in Conns : b \in Idlers' => b \in Idlers
    BY <1>1, <1>6, <1>8
  <1>11. \A b \in Conns \ {c} : b \in Idlers => b \in Idlers'
    <2>. SUFFICES ASSUME NEW b \in Conns \ {c}, b \in Idlers, conns[b].key = k
                  PROVE  b \in Idlers'
      BY <1>6
    <2>1. PICK i \in DOMAIN stack : stack[i] = b
      BY <1>1
    <2>2. i \in 1 .. n - 1
      BY <1>2, <2>1
    <2>. QED  BY <1>3, <1>6, <2>1, <2>2
  <1>. HIDE DEF c
  <1>12. flow[f].up = Nil /\ flow[f].got \in {Nil, f} /\ \A g \in Flows \ {f} : flow'[g] = flow[g]
    BY Holds DEF Alone
  <1>13. \A g \in Flows \ {f} : flow[g].up \in Conns => flow[g].up # c
    BY <1>5, HeldApart
  <1>14. \A g \in Flows \ {f} : HoldInv(g)'
    BY <1>10, <1>13, <1>g, OthersHold
  <1>15. HoldInv(f)'
    <2>1. keyFor(f)' = k
      BY KeyStays DEF Alone, k
    <2>2. \A g \in Flows : flow'[g].up = c => g = f
      BY <1>5, <1>12, <1>13
    <2>. QED  BY <1>5, <1>9, <1>12, <1>g, <2>1, <2>2 DEF HoldInv, Holding
  <1>16. ConnsInv'
    <2>0. ConnsInv /\ world' = world
      BY <1>0 DEF PoolShape, Alone
    <2>1. ASSUME NEW b \in Conns, conns[b].st # "free"
          PROVE  b \in Idlers' \/ \E g \in Flows : flow'[g].up = b
      <3>1. CASE b = c
        BY <1>g, <3>1
      <3>2. CASE b # c /\ b \in Idlers
        BY <1>11, <3>2
      <3>3. CASE \E g \in Flows : flow[g].up = b
        <4>1. PICK g \in Flows : flow[g].up = b
          BY <3>3
        <4>2. g # f
          BY <1>12, <4>1, PoolAssumption
        <4>. QED  BY <1>12, <4>1, <4>2
      <3>. QED  BY <2>0, <2>1, <3>1, <3>2, <3>3 DEF ConnsInv
    <2>. QED  BY <2>0, <2>1 DEF ConnsInv
  <1>. QED  BY <1>6, <1>14, <1>15, <1>16 DEF PoolInv, PoolShape

\* A flow gives its connection back.
LEMMA PoolPushes ==
  ASSUME PoolInv, NEW f \in Flows, Alone(f), flow[f].pc = "put", conns' = conns,
         Len(Stack(keyFor(f))) < MaxIdlePer,
         idle' = SetStack(keyFor(f), Append(Stack(keyFor(f)), flow[f].up)),
         flow'[f].up = Nil, flow'[f].pc \notin Holding, flow'[f].got = flow[f].got
  PROVE  PoolInv'
  <1>. DEFINE k == keyFor(f)
              stack == Stack(k)
              n == Len(stack)
              c == flow[f].up
              new == Append(stack, c)
  <1>0. PoolShape
    BY DEF PoolInv
  <1>1. /\ StackInv(k, stack)
        /\ \A b \in Conns : b \in Idlers /\ conns[b].key = k <=> \E i \in DOMAIN stack : stack[i] = b
    <2>. HIDE DEF k
    <2>. QED  BY <1>0, StackShape
  <1>g. idle' = SetStack(k, new) /\ n < MaxIdlePer
    OBVIOUS
  <1>2. /\ c \in Conns /\ c \notin Idlers /\ flow[f].got \in {Nil, f}
        /\ conns[c].st # "free" /\ conns[c].key = k /\ conns[c].owed = <<>>
        /\ \A g \in Flows : flow[g].up = c => g = f
    BY Holds DEF Holding
  <1>. HIDE DEF stack, k, c
  <1>3. stack \in Seq(Conns) /\ n \in Nat /\ DOMAIN stack = 1 .. n
    BY <1>1 DEF StackInv
  <1>4. /\ new \in Seq(Conns) /\ Len(new) = n + 1 /\ DOMAIN new = 1 .. n + 1
        /\ new[n + 1] = c /\ \A i \in 1 .. n : new[i] = stack[i]
    BY <1>2, <1>3
  <1>. HIDE DEF new, n
  <1>5. \A i \in DOMAIN new : (i \in DOMAIN stack /\ new[i] = stack[i]) \/ (i = n + 1 /\ new[i] = c)
    BY <1>3, <1>4
  <1>6. \A i \in DOMAIN stack : stack[i] # c
    BY <1>1, <1>2
  <1>7. StackInv(k, new)
    <2>1. Len(new) <= MaxIdlePer
      BY <1>3, <1>4, <1>g, PoolAssumption
    <2>2. ASSUME NEW i \in DOMAIN new
          PROVE  /\ conns[new[i]].st # "free" /\ conns[new[i]].key = k
                 /\ conns[new[i]].owed \in {<<>>, <<Stray>>}
      BY <1>1, <1>2, <1>5 DEF StackInv
    <2>3. ASSUME NEW i \in DOMAIN new, NEW j \in DOMAIN new, new[i] = new[j]
          PROVE  i = j
      BY <1>1, <1>5, <1>6, <2>3 DEF StackInv
    <2>. QED  BY <1>4, <2>1, <2>2, <2>3 DEF StackInv
  <1>8. /\ \A j \in DOMAIN idle' : StackInv(j, idle[j])'
        /\ \A b \in Conns : b \in Idlers' <=> \/ b \in Idlers /\ conns[b].key # k
                                              \/ \E i \in DOMAIN new : new[i] = b
    BY <1>0, <1>7, <1>g, StackSet
  <1>9. c \in Idlers'
    BY <1>2, <1>3, <1>4, <1>8
  <1>10. \A b \in Conns \ {c} : b \in Idlers' => b \in Idlers
    BY <1>1, <1>5, <1>8
  <1>11. \A b \in Conns : b \in Idlers => b \in Idlers'
    <2>. SUFFICES ASSUME NEW b \in Conns, b \in Idlers, conns[b].key = k
                  PROVE  b \in Idlers'
      BY <1>8
    <2>1. PICK i \in DOMAIN stack : stack[i] = b
      BY <1>1
    <2>2. i \in DOMAIN new /\ new[i] = b
      BY <1>3, <1>4, <2>1
    <2>. QED  BY <1>8, <2>2
  <1>12. \A g \in Flows \ {f} : flow'[g] = flow[g] /\ flow[g].up # c
    BY <1>2 DEF Alone
  <1>13. \A g \in Flows \ {f} : HoldInv(g)'
    <2>1. ASSUME NEW g \in Flows \ {f}, flow[g].up \in Conns
          PROVE  /\ conns'[flow[g].up] = conns[flow[g].up]
                 /\ flow[g].up \in Idlers' => flow[g].up \in Idlers
                 /\ flow'[f].up # flow[g].up
      BY <1>10, <1>12, <2>1, PoolAssumption
    <2>. QED  BY <2>1, OthersHold
  <1>14. HoldInv(f)'
    BY <1>2 DEF HoldInv
  <1>15. ConnsInv'
    <2>0. ConnsInv /\ world' = world
      BY <1>0 DEF PoolShape, Alone
    <2>1. ASSUME NEW b \in Conns, conns[b].st # "free"
          PROVE  b \in Idlers' \/ \E g \in Flows : flow'[g].up = b
      <3>1. CASE b = c
        BY <1>9, <3>1
      <3>2. CASE b \in Idlers
        BY <1>11, <3>2
      <3>3. CASE b # c /\ \E g \in Flows : flow[g].up = b
        <4>1. PICK g \in Flows : flow[g].up = b
          BY <3>3
        <4>2. g # f
          BY <3>3, <4>1 DEF c
        <4>. QED  BY <1>12, <4>1, <4>2
      <3>. QED  BY <2>0, <2>1, <3>1, <3>2, <3>3 DEF ConnsInv
    <2>. QED  BY <2>0, <2>1 DEF ConnsInv
  <1>. QED  BY <1>8, <1>13, <1>14, <1>15 DEF PoolInv, PoolShape

\* An upstream closes a connection, or writes to an idle one.
LEMMA PeersKeepPool ==
  ASSUME PoolInv, NEW c \in Conns, PeerCloses(c) \/ PeerSpeaks(c)
  PROVE  PoolInv'
  <1>0. PoolShape /\ UNCHANGED <<world, flow, idle>> /\ conns[c].st = "live"
    BY DEF PoolInv, PeerCloses, PeerSpeaks
  <1>1. DOMAIN conns[c] = ConnFields /\ (world.shared \/ conns[c].src = conns[c].key.src)
        /\ (c \in Idlers \/ \E f \in Flows : flow[f].up = c)
    BY <1>0 DEF PoolShape, ConnsInv
  <1>2. ASSUME NEW d, conns' = [conns EXCEPT ![c] = d], DOMAIN d = ConnFields, d.st # "free",
               d.key = conns[c].key, d.src = conns[c].src,
               d.owed = conns[c].owed \/ (c \in Idlers /\ d.owed = <<Stray>>)
        PROVE  PoolInv'
    <2>1. conns'[c] = d /\ Idlers' = Idlers /\ \A b \in Conns \ {c} : conns'[b] = conns[b]
      BY <1>0, <1>2, SamePool DEF PoolShape, ConnsInv
    <2>2. c \in Idlers => d.owed \in {<<>>, <<Stray>>}
      BY <1>0, <1>2, IdleOpen
    <2>3. PoolShape'
      BY <1>0, <1>1, <1>2, <2>2, ShapeKept
    <2>4. ASSUME NEW g \in Flows PROVE HoldInv(g)'
      <3>1. HoldInv(g)
        BY DEF PoolInv
      <3>2. keyFor(g)' = keyFor(g)
        BY <1>0, KeyStays
      <3>3. CASE flow[g].up = c
        BY <1>0, <1>2, <2>1, <3>1, <3>2, <3>3, PoolAssumption DEF HoldInv
      <3>4. CASE flow[g].up # c
        BY <1>0, <2>1, <3>1, <3>2, <3>4 DEF HoldInv
      <3>. QED  BY <3>3, <3>4
    <2>. QED  BY <2>3, <2>4 DEF PoolInv
  <1>3. conns = [b \in Conns |-> conns[b]]
    BY <1>0 DEF PoolShape, ConnsInv
  <1>4. CASE PeerCloses(c)
    <2>. DEFINE d == [conns[c] EXCEPT !.st = "dead"]
    <2>1. conns' = [conns EXCEPT ![c] = d]
      BY <1>3, <1>4 DEF PeerCloses
    <2>2. DOMAIN d = ConnFields /\ d.st = "dead" /\ d.key = conns[c].key /\ d.src = conns[c].src
          /\ d.owed = conns[c].owed
      BY <1>1 DEF ConnFields
    <2>. HIDE DEF d
    <2>. QED  BY <1>2, <2>1, <2>2
  <1>5. CASE PeerSpeaks(c)
    <2>. DEFINE d == [conns[c] EXCEPT !.owed = <<Stray>>]
    <2>1. conns' = [conns EXCEPT ![c] = d] /\ c \in Idlers
      BY <1>3, <1>5 DEF PeerSpeaks, Idlers
    <2>2. DOMAIN d = ConnFields /\ d.st = conns[c].st /\ d.key = conns[c].key
          /\ d.src = conns[c].src /\ d.owed = <<Stray>>
      BY <1>1 DEF ConnFields
    <2>. HIDE DEF d
    <2>. QED  BY <1>0, <1>2, <2>1, <2>2
  <1>. QED  BY <1>4, <1>5

\* Flow f takes a step that gives it the fields of r.
Steps(f, r) == Move(f, r) \/ \E evs : Log(f, evs, r)

\* What the pool sees of such a step.
LEMMA StepFields ==
  ASSUME ProxyInv, NEW f \in Flows, NEW r, Steps(f, r), world' = world
  PROVE  /\ Alone(f)
         /\ \A k \in {"pc", "up", "got", "rule"} :
              flow'[f][k] = IF k \in DOMAIN r THEN r[k] ELSE flow[f][k]
  <1>1. {"pc", "up", "got", "rule"} \subseteq FlowFields \ {"events"}
    BY DEF FlowFields
  <1>2. CASE Move(f, r)
    BY <1>1, <1>2, MoveFields DEF Fields, Alone
  <1>3. ASSUME NEW evs, Log(f, evs, r)
        PROVE  /\ Alone(f)
               /\ \A k \in {"pc", "up", "got", "rule"} :
                    flow'[f][k] = IF k \in DOMAIN r THEN r[k] ELSE flow[f][k]
    BY <1>1, <1>3, LogFields DEF Alone
  <1>. QED  BY <1>2, <1>3 DEF Steps

\* A flow that holds nothing moves to a place where it holds nothing.
LEMMA PoolQuiet ==
  ASSUME ProxyInv, PoolInv, NEW f \in Flows, NEW r, Steps(f, r), world' = world,
         conns' = conns, idle' = idle, flow[f].pc \notin Holding,
         "pc" \in DOMAIN r, r["pc"] \notin Holding, "up" \notin DOMAIN r, "got" \notin DOMAIN r
  PROVE  PoolInv'
  <1>1. /\ Alone(f) /\ flow'[f].pc \notin Holding
        /\ flow'[f].up = flow[f].up /\ flow'[f].got = flow[f].got
    BY StepFields
  <1>2. flow[f].got \in {Nil, f}
    BY Holds
  <1>3. flow'[f].pc \notin {"probe", "write", "put", "read", "body"}
    BY <1>1 DEF Holding
  <1>. QED  BY <1>1, <1>2, <1>3, PoolStays

\* A denial in a fresh context, and the start of a check.
LEMMA FreshPool ==
  ASSUME ProxyInv, PoolInv, NEW f \in Flows, world' = world, conns' = conns, idle' = idle,
         flow[f].pc \notin Holding, NEW stage, DenyFresh(f) \/ Begin(f, stage)
  PROVE  PoolInv'
  <1>1. CASE DenyFresh(f)
    <2>. DEFINE r == [pc |-> "done", ac |-> flow[f].ac + 1, events |-> audit(f, flow[f].ac + 1, deny)]
    <2>1. Steps(f, r) /\ DOMAIN r = {"pc", "ac", "events"} /\ r["pc"] = "done"
      BY <1>1 DEF DenyFresh, Steps
    <2>2. "done" \notin Holding
      BY DEF Holding
    <2>. HIDE DEF r
    <2>. QED  BY <2>1, <2>2, PoolQuiet
  <1>2. CASE Begin(f, stage)
    <2>. DEFINE r == [pc |-> "match", stage |-> stage, ac |-> flow[f].ac + 1]
    <2>1. Steps(f, r) /\ DOMAIN r = {"pc", "stage", "ac"} /\ r["pc"] = "match"
      BY <1>2 DEF Begin, Steps
    <2>2. "match" \notin Holding
      BY DEF Holding
    <2>. HIDE DEF r
    <2>. QED  BY <2>1, <2>2, PoolQuiet
  <1>. QED  BY <1>1, <1>2

\* A change of place alone.
LEMMA PlacePool ==
  ASSUME ProxyInv, PoolInv, NEW f \in Flows, world' = world, conns' = conns, idle' = idle,
         flow[f].pc \notin Holding, NEW p, p \notin Holding, Steps(f, [pc |-> p])
  PROVE  PoolInv'
  <1>. DEFINE r == [pc |-> p]
  <1>1. Steps(f, r) /\ DOMAIN r = {"pc"} /\ r["pc"] = p
    OBVIOUS
  <1>. HIDE DEF r
  <1>. QED  BY <1>1, PoolQuiet

\* Arrivals hold no connection.
LEMMA ArrivalPool ==
  ASSUME ProxyInv, PoolInv, NEW f \in Flows, Arrival(f)
  PROVE  PoolInv'
  <1>0. flow[f].pc \notin Holding /\ "done" \notin Holding
        /\ world' = world /\ conns' = conns /\ idle' = idle
    BY DEF Arrival, DropDirect, handleTransparent, acceptHTTP, BadRequest, acceptHost,
           handleInnerH2, At, Holding, poolVars
  <1>1. CASE DropDirect(f) \/ BadRequest(f)
    <2>1. Steps(f, [pc |-> "done"])
      BY <1>1 DEF DropDirect, BadRequest, Steps
    <2>. QED  BY <1>0, <2>1, PlacePool
  <1>2. CASE handleTransparent(f) \/ acceptHTTP(f) \/ acceptHost(f) \/ handleInnerH2(f)
    <2>1. DenyFresh(f) \/ \E stage : Begin(f, stage)
      BY <1>2 DEF handleTransparent, acceptHTTP, acceptHost, handleInnerH2
    <2>. QED  BY <1>0, <2>1, FreshPool
  <1>. QED  BY <1>1, <1>2 DEF Arrival

\* Neither does a flow that is being checked.
LEMMA CheckPool ==
  ASSUME ProxyInv, PoolInv, NEW f \in Flows, Check(f)
  PROVE  PoolInv'
  <1>0. flow[f].pc \notin Holding /\ world' = world /\ conns' = conns /\ idle' = idle
    BY DEF Check, FirstMatch, Grace, policyChan, Rematch, Wake, GiveUp, At, Holding, poolVars
  <1>1. CASE Granted(f)
    <2>. DEFINE r == [pc |-> "granted", rule |-> Match(f)]
    <2>1. Steps(f, r) /\ DOMAIN r = {"pc", "rule"} /\ r["pc"] = "granted"
      BY <1>1 DEF Granted, Steps
    <2>2. "granted" \notin Holding
      BY DEF Holding
    <2>. HIDE DEF r
    <2>. QED  BY <1>0, <2>1, <2>2, PoolQuiet
  <1>2. CASE policyChan(f)
    <2>. DEFINE r == [pc |-> "rematch", ch |-> chan]
    <2>1. Steps(f, r) /\ DOMAIN r = {"pc", "ch"} /\ r["pc"] = "rematch"
      BY <1>2 DEF policyChan, Steps
    <2>2. "rematch" \notin Holding
      BY DEF Holding
    <2>. HIDE DEF r
    <2>. QED  BY <1>0, <2>1, <2>2, PoolQuiet
  <1>3. ASSUME NEW p \in {"grace", "done", "capture", "wait"}, Steps(f, [pc |-> p])
        PROVE  PoolInv'
    <2>1. p \notin Holding
      BY DEF Holding
    <2>. QED  BY <1>0, <1>3, <2>1, PlacePool
  <1>4. CASE FirstMatch(f) \/ Grace(f) \/ Rematch(f) \/ Wake(f) \/ GiveUp(f)
    <2>1. Granted(f) \/ \E p \in {"grace", "done", "capture", "wait"} : Steps(f, [pc |-> p])
      BY <1>4 DEF FirstMatch, Grace, Rematch, Wake, GiveUp, Steps
    <2>. QED  BY <1>1, <1>3, <2>1
  <1>. QED  BY <1>2, <1>4 DEF Check

\* A dial that a flow without a connection makes.
LEMMA StepDials ==
  ASSUME ProxyInv, PoolInv, NEW f \in Flows, NEW r, Steps(f, r), world' = world,
         flow[f].pc \notin Holding, NEW c \in Conns, Dialled(f, c),
         {"pc", "up"} \subseteq DOMAIN r, "got" \notin DOMAIN r, "rule" \notin DOMAIN r,
         r["up"] = c, r["pc"] \in {"tunnel", "hijack", "write"}
  PROVE  PoolInv'
  <1>1. /\ Alone(f) /\ flow'[f].pc = r["pc"] /\ flow'[f].up = c
        /\ flow'[f].got = flow[f].got /\ flow'[f].rule = flow[f].rule
    BY StepFields
  <1>. QED  BY <1>1, PoolDials

\* A flow that lets its connection go.
LEMMA StepCloses ==
  ASSUME ProxyInv, PoolInv, NEW f \in Flows, world' = world, flow[f].pc \in Holding, CloseUp(f),
         NEW p, p \notin Holding, Steps(f, [pc |-> p, up |-> Nil])
  PROVE  PoolInv'
  <1>. DEFINE r == [pc |-> p, up |-> Nil]
  <1>1. Steps(f, r) /\ DOMAIN r = {"pc", "up"} /\ r["pc"] = p /\ r["up"] = Nil
    OBVIOUS
  <1>. HIDE DEF r
  <1>2. Alone(f) /\ flow'[f].pc = p /\ flow'[f].up = Nil /\ flow'[f].got = flow[f].got
    BY <1>1, StepFields
  <1>. QED  BY <1>2, PoolCloses

\* The steps of an allowed connection.
LEMMA TunnelPool ==
  ASSUME ProxyInv, PoolInv, NEW f \in Flows, Tunnel(f)
  PROVE  PoolInv'
  <1>w. world' = world
    BY DEF Tunnel, handleTransparentTLS, rawForwardTLS, interceptTLS, closeH2, spliceTLS,
           handleConnect, hijack, endTunnel
  <1>h. {"granted", "raw", "inner", "serving", "splice", "done"} \cap Holding = {}
        /\ {"hijack", "tunnel"} \subseteq Holding
    BY DEF Holding
  <1>1. ASSUME UNCHANGED poolVars, flow[f].pc \in {"granted", "raw", "inner", "serving", "splice"},
               \/ DenyFresh(f) \/ Begin(f, "request")
               \/ \E p \in {"raw", "inner", "serving", "splice", "done"} : Steps(f, [pc |-> p])
        PROVE  PoolInv'
    <2>1. conns' = conns /\ idle' = idle /\ flow[f].pc \notin Holding
      BY <1>1, <1>h DEF poolVars
    <2>2. CASE DenyFresh(f) \/ Begin(f, "request")
      BY <1>w, <2>1, <2>2, FreshPool
    <2>3. ASSUME NEW p \in {"raw", "inner", "serving", "splice", "done"}, Steps(f, [pc |-> p])
          PROVE  PoolInv'
      BY <1>w, <1>h, <2>1, <2>3, PlacePool
    <2>. QED  BY <1>1, <2>2, <2>3
  <1>2. ASSUME NEW c \in Conns, Dialled(f, c), flow[f].pc \in {"granted", "raw", "splice"},
               NEW r, Steps(f, r), {"pc", "up"} \subseteq DOMAIN r, r["up"] = c,
               r["pc"] \in {"tunnel", "hijack"}, "got" \notin DOMAIN r, "rule" \notin DOMAIN r
        PROVE  PoolInv'
    BY <1>w, <1>h, <1>2, StepDials
  <1>3. CASE handleTransparentTLS(f)
    BY <1>1, <1>3 DEF handleTransparentTLS, At, Steps
  <1>4. CASE rawForwardTLS(f)
    <2>0. flow[f].pc = "raw"
      BY <1>4 DEF rawForwardTLS, At
    <2>1. CASE DenyFresh(f) /\ UNCHANGED poolVars
      BY <1>1, <2>0, <2>1
    <2>2. ASSUME NEW c \in Conns, Dialled(f, c), Move(f, [pc |-> "tunnel", up |-> c, sent |-> "host"])
          PROVE  PoolInv'
      <3>. DEFINE r == [pc |-> "tunnel", up |-> c, sent |-> "host"]
      <3>1. Steps(f, r) /\ DOMAIN r = {"pc", "up", "sent"} /\ r["pc"] = "tunnel" /\ r["up"] = c
        BY <2>2 DEF Steps
      <3>. HIDE DEF r
      <3>. QED  BY <1>2, <2>0, <2>2, <3>1
    <2>. QED  BY <1>4, <2>1, <2>2 DEF rawForwardTLS
  <1>5. CASE interceptTLS(f)
    <2>1. flow[f].pc = "inner" /\ UNCHANGED poolVars
      BY <1>5 DEF interceptTLS, At
    <2>2. \/ DenyFresh(f) \/ Begin(f, "request")
          \/ Steps(f, [pc |-> "serving"]) \/ Steps(f, [pc |-> "done"]) \/ Steps(f, [pc |-> "splice"])
      BY <1>5 DEF interceptTLS, Steps
    <2>. QED  BY <1>1, <2>1, <2>2
  <1>6. CASE closeH2(f)
    BY <1>1, <1>6 DEF closeH2, At, Steps
  <1>7. CASE spliceTLS(f)
    <2>0. flow[f].pc = "splice"
      BY <1>7 DEF spliceTLS, At
    <2>1. CASE DenyFresh(f) /\ UNCHANGED poolVars
      BY <1>1, <2>0, <2>1
    <2>2. ASSUME NEW c \in Conns, Dialled(f, c),
                 Move(f, [pc |-> "tunnel", up |-> c, sent |-> "opaque", stage |-> "splice",
                          ac |-> flow[f].ac + 1,
                          events |-> audit(f, flow[f].ac + 1, <<allow, response>>)])
          PROVE  PoolInv'
      <3>. DEFINE r == [pc |-> "tunnel", up |-> c, sent |-> "opaque", stage |-> "splice",
                        ac |-> flow[f].ac + 1,
                        events |-> audit(f, flow[f].ac + 1, <<allow, response>>)]
      <3>1. Steps(f, r) /\ r["pc"] = "tunnel" /\ r["up"] = c
            /\ DOMAIN r = {"pc", "up", "sent", "stage", "ac", "events"}
        BY <2>2 DEF Steps
      <3>. HIDE DEF r
      <3>. QED  BY <1>2, <2>0, <2>2, <3>1
    <2>. QED  BY <1>7, <2>1, <2>2 DEF spliceTLS
  <1>8. CASE handleConnect(f)
    <2>0. flow[f].pc = "granted"
      BY <1>8 DEF handleConnect, At
    <2>1. CASE Log(f, deny, [pc |-> "done"]) /\ UNCHANGED poolVars
      BY <1>1, <2>0, <2>1 DEF Steps
    <2>2. ASSUME NEW c \in Conns, Dialled(f, c), Log(f, <<allow>>, [pc |-> "hijack", up |-> c])
          PROVE  PoolInv'
      <3>. DEFINE r == [pc |-> "hijack", up |-> c]
      <3>1. Steps(f, r) /\ DOMAIN r = {"pc", "up"} /\ r["pc"] = "hijack" /\ r["up"] = c
        BY <2>2 DEF Steps
      <3>. HIDE DEF r
      <3>. QED  BY <1>2, <2>0, <2>2, <3>1
    <2>. QED  BY <1>8, <2>1, <2>2 DEF handleConnect
  <1>9. CASE hijack(f)
    <2>0. flow[f].pc = "hijack"
      BY <1>9 DEF hijack, At
    <2>1. CASE Log(f, <<responseError>>, [pc |-> "done", up |-> Nil]) /\ CloseUp(f)
      <3>1. Steps(f, [pc |-> "done", up |-> Nil])
        BY <2>1 DEF Steps
      <3>. QED  BY <1>w, <1>h, <2>0, <2>1, <3>1, StepCloses
    <2>2. CASE Move(f, [pc |-> "tunnel", sent |-> "host"]) /\ UNCHANGED poolVars
      <3>. DEFINE r == [pc |-> "tunnel", sent |-> "host"]
      <3>1. Steps(f, r) /\ DOMAIN r = {"pc", "sent"} /\ r["pc"] = "tunnel"
        BY <2>2 DEF Steps
      <3>. HIDE DEF r
      <3>2. /\ Alone(f) /\ flow'[f].pc = "tunnel" /\ flow'[f].up = flow[f].up
            /\ flow'[f].rule = flow[f].rule /\ flow'[f].got = flow[f].got
        BY <1>w, <3>1, StepFields
      <3>3. flow[f].got \in {Nil, f}
        BY Holds
      <3>. QED  BY <1>h, <2>0, <2>2, <3>2, <3>3, PoolStays DEF poolVars
    <2>. QED  BY <1>9, <2>1, <2>2 DEF hijack
  <1>10. CASE endTunnel(f)
    <2>0. flow[f].pc = "tunnel" /\ CloseUp(f)
      BY <1>10 DEF endTunnel, At
    <2>1. Steps(f, [pc |-> "done", up |-> Nil])
      BY <1>10 DEF endTunnel, Steps
    <2>. QED  BY <1>w, <1>h, <2>0, <2>1, StepCloses
  <1>. QED
    BY <1>3, <1>4, <1>5, <1>6, <1>7, <1>8, <1>9, <1>10 DEF Tunnel

\* The response a flow is still owed changes, and nothing else of its connection.
LEMMA OwedFields ==
  ASSUME PoolInv, NEW c \in Conns, conns[c].st # "free", NEW o,
         conns' = [conns EXCEPT ![c].owed = o]
  PROVE  LET d == [conns[c] EXCEPT !.owed = o]
         IN  /\ conns' = [conns EXCEPT ![c] = d] /\ DOMAIN d = ConnFields
             /\ d.st = conns[c].st /\ d.key = conns[c].key /\ d.src = conns[c].src /\ d.owed = o
  <1>1. conns = [b \in Conns |-> conns[b]] /\ DOMAIN conns[c] = ConnFields
    BY DEF PoolInv, PoolShape, ConnsInv
  <1>. QED  BY <1>1 DEF ConnFields

\* The steps of an allowed request.
LEMMA RequestPool ==
  ASSUME ProxyInv, PoolInv, NEW f \in Flows, Request(f)
  PROVE  PoolInv'
  <1>. DEFINE c == flow[f].up
  <1>w. world' = world
    BY DEF Request, handleHTTP, applyRequestRule, get, connAlive, dialUpstream,
           writeUpstreamRequest, forwardHTTP, handleWebSocket, forwardH2Upstream,
           chunkForward, finish, put
  <1>h. /\ {"granted", "get", "dial", "done"} \cap Holding = {}
        /\ {"probe", "write", "read", "body", "put", "tunnel"} \subseteq Holding
    BY DEF Holding
  <1>o. /\ flow[f].got \in {Nil, f}
        /\ flow[f].pc \in Holding => c \in Conns /\ conns[c].st # "free"
        /\ flow[f].pc = "probe" => conns[c].owed \in {<<>>, <<Stray>>}
        /\ flow[f].pc \in {"write", "put"} => conns[c].owed = <<>>
        /\ flow[f].pc \in {"read", "body"} => conns[c].owed = <<f>>
    BY <1>h, Holds
  <1>c. ASSUME CloseUp(f), flow[f].pc \in Holding, NEW p \in {"done", "get"},
               Steps(f, [pc |-> p, up |-> Nil])
        PROVE  PoolInv'
    BY <1>w, <1>h, <1>c, StepCloses
  <1>f. CASE Fail(f) /\ flow[f].pc \in Holding
    BY <1>c, <1>f DEF Fail, Steps
  <1>a. ASSUME NEW p \in {"tunnel", "body"}, Answered(f, p), flow[f].pc = "read"
        PROVE  PoolInv'
    <2>. DEFINE r == [pc |-> p, got |-> Head(conns[c].owed)]
    <2>1. Steps(f, r) /\ DOMAIN r = {"pc", "got"} /\ r["pc"] = p /\ r["got"] = Head(conns[c].owed)
      BY <1>a DEF Answered, Steps
    <2>2. conns[c].owed = <<f>> /\ Head(<<f>>) = f
      BY <1>a, <1>o
    <2>. HIDE DEF r
    <2>3. /\ Alone(f) /\ flow'[f].pc = p /\ flow'[f].got = f
          /\ flow'[f].up = c /\ flow'[f].rule = flow[f].rule
      BY <1>w, <2>1, <2>2, StepFields
    <2>4. conns' = conns /\ idle' = idle
      BY <1>a DEF Answered, poolVars
    <2>. QED  BY <1>a, <1>h, <2>2, <2>3, <2>4, PoolStays
  <1>1. CASE handleHTTP(f) \/ applyRequestRule(f)
    <2>0. flow[f].pc = "granted" /\ conns' = conns /\ idle' = idle
      BY <1>1 DEF handleHTTP, applyRequestRule, At, poolVars
    <2>1. \E p \in {"get", "dial"} : \E out, told :
             Steps(f, [pc |-> p, out |-> out, shown |-> told])
      BY <1>1 DEF handleHTTP, applyRequestRule, Steps
    <2>2. PICK p \in {"get", "dial"} : \E out, told :
             Steps(f, [pc |-> p, out |-> out, shown |-> told])
      BY <2>1
    <2>3. PICK out, told : Steps(f, [pc |-> p, out |-> out, shown |-> told])
      BY <2>2
    <2>. DEFINE r == [pc |-> p, out |-> out, shown |-> told]
    <2>4. Steps(f, r) /\ DOMAIN r = {"pc", "out", "shown"} /\ r["pc"] = p
      BY <2>3
    <2>. HIDE DEF r
    <2>. QED  BY <1>w, <1>h, <2>0, <2>4, PoolQuiet
  <1>2. CASE get(f)
    <2>0. flow[f].pc = "get" /\ flow[f].pc \notin Holding /\ conns' = conns
      BY <1>2, <1>h DEF get, At
    <2>. DEFINE stack == Stack(keyFor(f))
    <2>1. CASE Move(f, [pc |-> "dial"]) /\ UNCHANGED idle
      <3>1. Steps(f, [pc |-> "dial"])
        BY <2>1 DEF Steps
      <3>. QED  BY <1>w, <1>h, <2>0, <2>1, <3>1, PlacePool
    <2>2. CASE /\ stack # <<>>
               /\ Move(f, [pc |-> "probe", up |-> stack[Len(stack)]])
               /\ idle' = SetStack(keyFor(f), SubSeq(stack, 1, Len(stack) - 1))
      <3>. DEFINE r == [pc |-> "probe", up |-> stack[Len(stack)]]
      <3>1. Steps(f, r) /\ DOMAIN r = {"pc", "up"} /\ r["pc"] = "probe" /\ r["up"] = stack[Len(stack)]
        BY <2>2 DEF Steps
      <3>. HIDE DEF r
      <3>2. /\ Alone(f) /\ flow'[f].pc = "probe" /\ flow'[f].up = stack[Len(stack)]
            /\ flow'[f].rule = flow[f].rule /\ flow'[f].got = flow[f].got
        BY <1>w, <3>1, StepFields
      <3>. QED  BY <2>0, <2>2, <3>2, PoolPops
    <2>. QED  BY <1>2, <2>1, <2>2 DEF get
  <1>3. CASE connAlive(f)
    <2>0. flow[f].pc = "probe"
      BY <1>3 DEF connAlive, At
    <2>1. CASE /\ conns[c].owed # <<>> => Head(conns[c].owed) # Stray
               /\ Move(f, [pc |-> "write"]) /\ UNCHANGED poolVars
      <3>. DEFINE r == [pc |-> "write"]
      <3>1. Steps(f, r) /\ DOMAIN r = {"pc"} /\ r["pc"] = "write"
        BY <2>1 DEF Steps
      <3>. HIDE DEF r
      <3>2. /\ Alone(f) /\ flow'[f].pc = "write" /\ flow'[f].up = c
            /\ flow'[f].rule = flow[f].rule /\ flow'[f].got = flow[f].got
        BY <1>w, <3>1, StepFields
      <3>3. conns[c].owed = <<>>
        BY <1>o, <2>0, <2>1
      <3>. QED  BY <1>h, <1>o, <2>0, <2>1, <3>2, <3>3, PoolStays DEF poolVars
    <2>2. CASE Move(f, [pc |-> "get", up |-> Nil]) /\ CloseUp(f)
      BY <1>c, <1>h, <2>0, <2>2 DEF Steps
    <2>. QED  BY <1>3, <2>1, <2>2 DEF connAlive
  <1>4. CASE dialUpstream(f)
    <2>0. flow[f].pc = "dial" /\ flow[f].pc \notin Holding
      BY <1>4, <1>h DEF dialUpstream, At
    <2>1. CASE Log(f, <<responseError>>, [pc |-> "done"]) /\ UNCHANGED poolVars
      <3>1. Steps(f, [pc |-> "done"]) /\ conns' = conns /\ idle' = idle
        BY <2>1 DEF Steps, poolVars
      <3>. QED  BY <1>w, <1>h, <2>0, <3>1, PlacePool
    <2>2. ASSUME NEW b \in Conns, Dialled(f, b), Move(f, [pc |-> "write", up |-> b])
          PROVE  PoolInv'
      <3>. DEFINE r == [pc |-> "write", up |-> b]
      <3>1. Steps(f, r) /\ DOMAIN r = {"pc", "up"} /\ r["pc"] = "write" /\ r["up"] = b
        BY <2>2 DEF Steps
      <3>. HIDE DEF r
      <3>. QED  BY <1>w, <2>0, <2>2, <3>1, StepDials
    <2>. QED  BY <1>4, <2>1, <2>2 DEF dialUpstream
  <1>5. CASE writeUpstreamRequest(f)
    <2>0. flow[f].pc = "write" /\ flow[f].pc \in Holding
      BY <1>5, <1>h DEF writeUpstreamRequest, At
    <2>1. CASE /\ conns' = [conns EXCEPT ![c].owed = Append(@, f)]
               /\ Move(f, [pc |-> "read", sent |-> "request"])
               /\ idle' = idle
      <3>. DEFINE r == [pc |-> "read", sent |-> "request"]
                  d == [conns[c] EXCEPT !.owed = <<f>>]
      <3>1. Steps(f, r) /\ DOMAIN r = {"pc", "sent"} /\ r["pc"] = "read"
        BY <2>1 DEF Steps
      <3>2. conns[c].owed = <<>> /\ c \in Conns /\ conns[c].st # "free" /\ Append(<<>>, f) = <<f>>
        BY <1>o, <2>0
      <3>3. conns' = [conns EXCEPT ![c].owed = <<f>>]
        BY <2>1, <3>2
      <3>4. /\ conns' = [conns EXCEPT ![c] = d] /\ DOMAIN d = ConnFields
            /\ d.st = conns[c].st /\ d.key = conns[c].key /\ d.src = conns[c].src /\ d.owed = <<f>>
        BY <3>2, <3>3, OwedFields
      <3>. HIDE DEF r, d
      <3>5. /\ Alone(f) /\ flow'[f].pc = "read" /\ flow'[f].up = c
            /\ flow'[f].rule = flow[f].rule /\ flow'[f].got = flow[f].got
        BY <1>w, <3>1, StepFields
      <3>. QED  BY <2>0, <2>1, <3>4, <3>5, PoolOwes
    <2>. QED  BY <1>5, <1>f, <2>0, <2>1 DEF writeUpstreamRequest
  <1>6. CASE forwardHTTP(f) \/ handleWebSocket(f) \/ forwardH2Upstream(f)
    <2>1. flow[f].pc = "read" /\ (Fail(f) \/ Answered(f, "tunnel") \/ Answered(f, "body"))
      BY <1>6 DEF forwardHTTP, handleWebSocket, forwardH2Upstream, At
    <2>. QED  BY <1>f, <1>a, <1>h, <2>1
  <1>7. CASE chunkForward(f)
    <2>. DEFINE r == [got |-> flow[f].got]
    <2>1. /\ Steps(f, r) /\ DOMAIN r = {"got"} /\ r["got"] = flow[f].got
          /\ flow[f].pc \in {"body", "tunnel"} /\ conns' = conns /\ idle' = idle
      BY <1>7 DEF chunkForward, Steps, At, poolVars
    <2>. HIDE DEF r
    <2>2. /\ Alone(f) /\ flow'[f].pc = flow[f].pc /\ flow'[f].up = c
          /\ flow'[f].rule = flow[f].rule /\ flow'[f].got = flow[f].got
      BY <1>w, <2>1, StepFields
    <2>. QED  BY <1>h, <1>o, <2>1, <2>2, PoolStays
  <1>8. CASE finish(f)
    <2>0. flow[f].pc = "body" /\ flow[f].pc \in Holding
      BY <1>8, <1>h DEF finish, At
    <2>1. CASE /\ conns' = [conns EXCEPT ![c].owed = Tail(@)]
               /\ Move(f, [pc |-> "put"]) /\ idle' = idle
      <3>. DEFINE r == [pc |-> "put"]
                  d == [conns[c] EXCEPT !.owed = <<>>]
      <3>1. Steps(f, r) /\ DOMAIN r = {"pc"} /\ r["pc"] = "put"
        BY <2>1 DEF Steps
      <3>2. conns[c].owed = <<f>> /\ c \in Conns /\ conns[c].st # "free"
        BY <1>o, <2>0
      <3>3. Tail(<<f>>) = <<>>
        OBVIOUS
      <3>4. conns' = [conns EXCEPT ![c].owed = <<>>]
        BY <2>1, <3>2, <3>3
      <3>5. /\ conns' = [conns EXCEPT ![c] = d] /\ DOMAIN d = ConnFields
            /\ d.st = conns[c].st /\ d.key = conns[c].key /\ d.src = conns[c].src /\ d.owed = <<>>
        BY <3>2, <3>4, OwedFields
      <3>. HIDE DEF r, d
      <3>6. /\ Alone(f) /\ flow'[f].pc = "put" /\ flow'[f].up = c
            /\ flow'[f].rule = flow[f].rule /\ flow'[f].got = flow[f].got
        BY <1>w, <3>1, StepFields
      <3>. QED  BY <2>0, <2>1, <3>5, <3>6, PoolOwes
    <2>2. CASE Move(f, [pc |-> "done", up |-> Nil]) /\ CloseUp(f)
      BY <1>c, <2>0, <2>2 DEF Steps
    <2>. QED  BY <1>8, <2>1, <2>2 DEF finish
  <1>9. CASE put(f)
    <2>0. flow[f].pc = "put" /\ flow[f].pc \in Holding /\ Steps(f, [pc |-> "done", up |-> Nil])
      BY <1>9, <1>h DEF put, At, Steps
    <2>1. CASE CloseUp(f)
      BY <1>c, <2>0, <2>1
    <2>2. CASE /\ Len(Stack(keyFor(f))) < MaxIdlePer
               /\ idle' = SetStack(keyFor(f), Append(Stack(keyFor(f)), c))
               /\ conns' = conns
      <3>. DEFINE r == [pc |-> "done", up |-> Nil]
      <3>1. Steps(f, r) /\ DOMAIN r = {"pc", "up"} /\ r["pc"] = "done" /\ r["up"] = Nil
        BY <2>0
      <3>. HIDE DEF r
      <3>2. Alone(f) /\ flow'[f].pc = "done" /\ flow'[f].up = Nil /\ flow'[f].got = flow[f].got
        BY <1>w, <3>1, StepFields
      <3>. QED  BY <1>h, <2>0, <2>2, <3>2, PoolPushes
    <2>. QED  BY <1>9, <2>1, <2>2 DEF put
  <1>. QED
    BY <1>1, <1>2, <1>3, <1>4, <1>5, <1>6, <1>7, <1>8, <1>9 DEF Request

\* A step that leaves the flows alone leaves their events alone, ...
LEMMA AuditsSame ==
  ASSUME AuditsInv, UNCHANGED <<world, flow>>
  PROVE  AuditsInv'
  BY DEF AuditsInv, Req

\* ... and one that leaves the connections alone too, the pool.
LEMMA PoolSame ==
  ASSUME PoolInv, UNCHANGED <<world, flow, conns, idle>>
  PROVE  PoolInv'
  <1>1. Idlers' = Idlers
    BY SamePool
  <1>2. ConnsInv'
    BY <1>1 DEF PoolInv, PoolShape, ConnsInv
  <1>3. \A k \in DOMAIN idle' : StackInv(k, idle[k])'
    BY DEF PoolInv, PoolShape, StackInv
  <1>4. ASSUME NEW f \in Flows PROVE HoldInv(f)'
    <2>1. HoldInv(f) /\ keyFor(f)' = keyFor(f)
      BY KeyStays DEF PoolInv
    <2>. QED  BY <1>1, <2>1 DEF HoldInv
  <1>. QED  BY <1>2, <1>3, <1>4 DEF PoolInv, PoolShape

\* What makes the audit exact: the events, the connections, the lookups and the
\* messages, beside what is known of the checks.
ExactInv == ProxyInv /\ AuditsInv /\ PoolInv /\ DnsInv /\ WsInv

\* Every step of sbxproxy keeps it.
LEMMA ExactInvNext ==
  ASSUME ExactInv, [SbxNext]_allVars
  PROVE  ExactInv'
  <1>0. ProxyInv /\ AuditsInv /\ PoolInv /\ DnsInv /\ WsInv
    BY DEF ExactInv
  <1>1. ProxyInv'
    BY <1>0, ProxyInvNext
  <1>2. DnsInv'
    <2>1. DnsNext \/ UNCHANGED dnsVars
      BY DEF SbxNext, allVars
    <2>. QED  BY <1>0, <2>1, DnsInvNext
  <1>3. WsInv'
    <2>1. WsNext \/ UNCHANGED wsVars
      BY DEF SbxNext, allVars
    <2>. QED  BY <1>0, <2>1, WsInvNext
  <1>4. AuditsInv' /\ PoolInv'
    <2>1. CASE UNCHANGED proxyVars
      BY <1>0, <2>1, AuditsSame, PoolSame DEF proxyVars
    <2>2. ASSUME NEW f \in Flows, Arrival(f) \/ Check(f) \/ Tunnel(f) \/ Request(f)
          PROVE  AuditsInv' /\ PoolInv'
      BY <1>0, <2>2, ArrivalAudits, CheckAudits, TunnelAudits, RequestAudits,
         ArrivalPool, CheckPool, TunnelPool, RequestPool
    <2>3. CASE SetDenyWaitBySource \/ SetRulesBySource \/ notifyPolicyChange
      BY <1>0, <2>3, AuditsSame, PoolSame
         DEF SetDenyWaitBySource, SetRulesBySource, notifyPolicyChange, poolVars
    <2>4. ASSUME NEW c \in Conns, PeerCloses(c) \/ PeerSpeaks(c)
          PROVE  AuditsInv' /\ PoolInv'
      <3>1. AuditsInv'
        BY <1>0, <2>4, AuditsSame DEF PeerCloses, PeerSpeaks
      <3>. QED  BY <1>0, <2>4, <3>1, PeersKeepPool
    <2>5. UNCHANGED proxyVars \/ ProxyNext
      BY DEF SbxNext, allVars
    <2>. QED  BY <2>1, <2>2, <2>3, <2>4, <2>5 DEF ProxyNext
  <1>. QED  BY <1>1, <1>2, <1>3, <1>4 DEF ExactInv

\* sbxproxy starts with it.
LEMMA ExactInvInit ==
  ASSUME SbxInit
  PROVE  ExactInv
  <1>1. ProxyInit /\ DnsInv /\ WsInv /\ ProxyInv
    BY DnsInvInit, WsInvInit, ProxyInvInit DEF SbxInit
  <1>2. ASSUME NEW f \in Flows
        PROVE  flow[f] = [pc |-> "new", stage |-> "none", ac |-> 0, rule |-> Nil, ch |-> 0, up |-> Nil,
                          events |-> <<>>, shown |-> Nil, out |-> Nil, sent |-> "none", got |-> Nil]
    BY <1>1 DEF ProxyInit
  <1>3. AuditsInv
    <2>. SUFFICES ASSUME NEW f \in Flows PROVE AuditInv(Req(f), flow[f])
      BY DEF AuditsInv
    <2>. DEFINE s == flow[f]
    <2>1. /\ s.pc = "new" /\ s.stage = "none" /\ s.ac = 0 /\ s.rule = Nil /\ s.events = <<>>
          /\ s.shown = Nil /\ s.out = Nil /\ s.sent = "none"
      BY <1>2
    <2>2. /\ ~InCheck(s) /\ ~Asking(s) /\ ~Telling(s) /\ ~Inside(s)
          /\ ~MustAnnounce(Req(f), s.sent)
      BY <2>1 DEF InCheck, Checking, Asking, Telling, Inside, MustAnnounce
    <2>. HIDE DEF s
    <2>3. 1 .. s.ac = {} /\ DOMAIN s.events = {}
      BY <2>1
    <2>4. Sound(s.events, s.ac)
      BY <2>1, <2>3 DEF Sound
    <2>. QED  BY <2>1, <2>2, <2>3, <2>4 DEF AuditInv, s
  <1>4. PoolInv
    <2>1. /\ conns = [c \in Conns |-> Free] /\ DOMAIN idle = {} /\ Free.st = "free"
      BY <1>1 DEF ProxyInit, Free
    <2>2. PoolShape
      BY <2>1 DEF PoolShape, ConnsInv
    <2>3. ASSUME NEW f \in Flows PROVE HoldInv(f)
      <3>1. flow[f].pc = "new" /\ flow[f].up = Nil /\ flow[f].got = Nil
        BY <1>2
      <3>. QED  BY <3>1 DEF HoldInv, Holding
    <2>. QED  BY <2>2, <2>3 DEF PoolInv
  <1>. QED  BY <1>1, <1>3, <1>4 DEF ExactInv

\* What the invariants say of the pool, of a flow's connection and of its events.
LEMMA PoolInvBounds ==
  ASSUME PoolInv
  PROVE  PoolBounded
  <1>1. PoolShape
    BY DEF PoolInv
  <1>2. ASSUME NEW k \in DOMAIN idle
        PROVE  /\ Len(idle[k]) <= MaxIdlePer
               /\ \A i \in DOMAIN idle[k] :
                    /\ conns[idle[k][i]].st # "free" /\ conns[idle[k][i]].key = k
                    /\ \A j \in DOMAIN idle[k] : idle[k][i] = idle[k][j] => i = j
    BY <1>1 DEF PoolShape, StackInv
  <1>3. \A c \in Conns : conns[c].st # "free" => InPool(c) \/ \E f \in Flows : flow[f].up = c
    BY <1>1 DEF PoolShape, ConnsInv, Idlers
  <1>. QED  BY <1>2, <1>3 DEF PoolBounded

\* A connection serves one flow at a time, the one it was opened for.
LEMMA PoolInvExclusive ==
  ASSUME PoolInv, NEW f \in Flows
  PROVE  ConnExclusive(f)
  <1>. DEFINE c == flow[f].up
  <1>1. flow[f].got \in {Nil, f} /\ (flow[f].pc \in Holding <=> c # Nil)
    BY Holds
  <1>2. ASSUME c # Nil
        PROVE  /\ c \in Conns /\ conns[c].st # "free" /\ conns[c].key = keyFor(f)
               /\ c \notin Idlers /\ \A g \in Flows : flow[g].up = c => g = f
    BY <1>1, <1>2, Holds
  <1>3. ASSUME c # Nil PROVE ~InPool(c)
    BY <1>2, <1>3 DEF Idlers
  <1>4. ASSUME c # Nil PROVE world.shared \/ conns[c].src = Req(f).src
    <2>1. world.shared \/ conns[c].src = conns[c].key.src
      BY <1>2, <1>4 DEF PoolInv, PoolShape, ConnsInv
    <2>2. ~world.shared => keyFor(f).src = Req(f).src
      BY DEF keyFor
    <2>. QED  BY <1>2, <1>4, <2>1, <2>2
  <1>. QED  BY <1>1, <1>2, <1>3, <1>4 DEF ConnExclusive

\* Events are announced and paired.
LEMMA AuditsInvPairs ==
  ASSUME AuditsInv, NEW f \in Flows
  PROVE  Announced(f) /\ \A a \in 1 .. flow[f].ac : Paired(f, a)
  <1>. DEFINE s == flow[f]
  <1>0. AuditInv(Req(f), s)
    BY OwnAudit
  <1>1. Announced(f)
    BY <1>0 DEF Announced, AuditInv, MustAnnounce, HasAllow
  <1>2. ASSUME NEW a \in 1 .. s.ac PROVE Paired(f, a)
    <2>1. InOrder(s.events, a)
      BY <1>0, <1>2 DEF AuditInv, Sound
    <2>2. At(f, "done") => Settled(Req(f), s.rule, s.events, a)
      BY <1>0, <1>2 DEF AuditInv, At, InCheck, Checking, Asking
    <2>. DEFINE own == {i \in DOMAIN s.events : s.events[i][1] = a}
                reply == {i \in own : s.events[i][2] = "response"}
    <2>3. own = Own(s.events, a) /\ reply = Reply(s.events, a)
      BY DEF Own, Reply
    <2>4. At(f, "done") /\ ~(Req(f).entry = "tls" /\ a = 1 /\ s.rule # Nil)
            => own = {} \/ reply # {}
      BY <2>2, <2>3 DEF Settled
    <2>5. /\ \A i, k \in reply : i = k
          /\ \A i \in own : s.events[i][2] = "chunk" =>
                \E k \in reply : k < i /\ s.events[k][3] = "allow"
          /\ \A k \in reply : \A i \in own :
               /\ s.events[i][2] = "request" => i < k
               /\ i < k /\ (\A j \in own : j <= i \/ j >= k)
                    => (s.events[i][3] = "deny" <=> s.events[k][3] = "deny")
      BY <2>1, <2>3 DEF InOrder
    <2>. QED  BY <2>4, <2>5 DEF Paired
  <1>. QED  BY <1>1, <1>2

\* The audit stream of sbxproxy is exact, in every behaviour: exchanges are
\* audited as one request and one response on connections that are never shared,
\* mixed up or leaked, lookups are shown in their window, and WebSocket messages
\* once and never in part.
THEOREM AuditExactAlways == SbxSpec => []AuditExact
  <1>1. SbxInit => ExactInv
    BY ExactInvInit
  <1>2. ExactInv /\ [SbxNext]_allVars => ExactInv'
    BY ExactInvNext
  <1>3. ASSUME ExactInv PROVE AuditExact
    <2>1. ProxyInv /\ AuditsInv /\ PoolInv /\ DnsInv /\ WsInv
      BY <1>3 DEF ExactInv
    <2>2. ExchangesExact
      BY <2>1, PoolInvBounds, PoolInvExclusive, AuditsInvPairs DEF ExchangesExact
    <2>3. LookupsShown /\ MessagesShown
      BY <2>1, DnsInvShows, WsInvShows
    <2>. QED  BY <2>2, <2>3 DEF AuditExact
  <1>. QED  BY <1>1, <1>2, <1>3, PTL DEF SbxSpec
=============================================================================

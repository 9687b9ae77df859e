--------------------------- MODULE SlotPool_proof ---------------------------
(***************************************************************************)
(* Proofs about SlotPool for any number of tenants and any pool size.      *)
(*                                                                         *)
(* Every octet handed out so far is in one place: the allocator's stack,   *)
(* the ready stack, the reset channel, the worker's hands or a tenant's    *)
(* (Distinct), and octets below Target + 2 stay in the pool's places, the  *)
(* others out of them (Ranges).  From that the channel can never be full   *)
(* while a tenant still holds one of the pool's octets.                    *)
(***************************************************************************)
EXTENDS SlotPool, FiniteSetTheorems, TLAPS

Inj(s) == \A j, k \in DOMAIN s : s[j] = s[k] => j = k

\* The octet in the worker's hands.
WorkerHas == IF wkPc \in {"provision", "reset", "ready"} THEN {wkOctet} ELSE {}

\* Until start() has returned no create runs and the stack is empty.
BootInv ==
  /\ nextN >= started + 2
  /\ started < Target => /\ nextN = started + 2
                         /\ freed = <<>>
                         /\ \A t \in Tenants : tPc[t] = "idle"

\* The pool's octets are the first Target ones; the allocator's lie above.
Ranges ==
  /\ \A o \in Elems(freed) : Target + 2 <= o /\ o < nextN
  /\ \A o \in Elems(ready) \union Elems(resetCh) \union WorkerHas :
       2 <= o /\ o < started + 2
  /\ \A t \in Tenants : Holds(t) =>
       /\ tPre[t] => 2 <= tOctet[t] /\ tOctet[t] < Target + 2
       /\ ~tPre[t] => Target + 2 <= tOctet[t] /\ tOctet[t] < nextN

\* Each octet is in one place, once.
Distinct ==
  /\ Inj(freed) /\ Inj(ready) /\ Inj(resetCh)
  /\ Elems(ready) \cap Elems(resetCh) = {}
  /\ WorkerHas \cap (Elems(ready) \union Elems(resetCh)) = {}
  /\ \A t \in Tenants : Holds(t) =>
       tOctet[t] \notin Elems(freed) \union Elems(ready) \union Elems(resetCh) \union WorkerHas
  /\ \A t, u \in Tenants : (Holds(t) /\ Holds(u) /\ t # u) => tOctet[t] # tOctet[u]
  /\ \A t \in Tenants : tPc[t] = "releasing" => tPre[t]

\* What is on offer is provisioned and carries no tenant's conntrack entries.
FlowInv ==
  /\ Elems(ready) \subseteq provisioned
  /\ wkPc = "provision" => wkOctet \notin provisioned
  /\ wkPc \in {"reset", "ready"} => wkOctet \in provisioned
  /\ \A t \in Tenants : Holds(t) /\ tPre[t] => tOctet[t] \in provisioned
  /\ \A f \in flows : f[2] < Target + 2 => f[2] \in provisioned
  /\ FlushMayFail \/
       /\ \A f \in flows : f[2] \notin Elems(ready)
       /\ wkPc = "ready" => \A f \in flows : f[2] # wkOctet
       /\ \A t \in Tenants : (Holds(t) /\ tPre[t]) =>
            \A f \in flows : f[2] = tOctet[t] => f[1] = t

IInv == TypeOK /\ BootInv /\ Ranges /\ Distinct /\ FlowInv

-----------------------------------------------------------------------------
(* How the elements of a sequence change when it is pushed, popped or      *)
(* received from.                                                          *)

LEMMA ElemsAppend ==
  ASSUME NEW s \in Seq(Nat), NEW x \in Nat
  PROVE  /\ Append(s, x) \in Seq(Nat)
         /\ Elems(Append(s, x)) = Elems(s) \union {x}
         /\ Inj(s) /\ x \notin Elems(s) => Inj(Append(s, x))
  <1>1. /\ DOMAIN Append(s, x) = 1..(Len(s) + 1) /\ DOMAIN s = 1..Len(s) /\ Len(s) \in Nat
        /\ \A k \in 1..Len(s) : Append(s, x)[k] = s[k]
        /\ Append(s, x)[Len(s) + 1] = x
    OBVIOUS
  <1>2. Elems(Append(s, x)) = Elems(s) \union {x}
    <2>1. ASSUME NEW y \in Elems(Append(s, x)) PROVE y \in Elems(s) \union {x}
      <3>1. PICK k \in DOMAIN Append(s, x) : y = Append(s, x)[k]
        BY DEF Elems
      <3>2. k \in 1..Len(s) \/ k = Len(s) + 1
        BY <1>1
      <3>. QED  BY <1>1, <3>1, <3>2 DEF Elems
    <2>2. ASSUME NEW y \in Elems(s) \union {x} PROVE y \in Elems(Append(s, x))
      <3>1. CASE y = x
        <4>1. Len(s) + 1 \in DOMAIN Append(s, x)
          BY <1>1
        <4>. QED  BY <1>1, <3>1, <4>1 DEF Elems
      <3>2. CASE y \in Elems(s)
        <4>1. PICK k \in DOMAIN s : y = s[k]
          BY <3>2 DEF Elems
        <4>2. k \in DOMAIN Append(s, x) /\ Append(s, x)[k] = s[k]
          BY <1>1
        <4>. QED  BY <4>1, <4>2 DEF Elems
      <3>. QED  BY <3>1, <3>2
    <2>. QED  BY <2>1, <2>2
  <1>3. ASSUME Inj(s), x \notin Elems(s) PROVE Inj(Append(s, x))
    <2>. SUFFICES ASSUME NEW j \in DOMAIN Append(s, x), NEW k \in DOMAIN Append(s, x),
                         Append(s, x)[j] = Append(s, x)[k]
                  PROVE  j = k
      BY DEF Inj
    <2>1. \A i \in 1..Len(s) : s[i] # x
      BY <1>1, <1>3 DEF Elems
    <2>. QED  BY <1>1, <1>3, <2>1 DEF Inj
  <1>. QED  BY <1>2, <1>3

LEMMA ElemsTail ==
  ASSUME NEW s \in Seq(Nat), s # <<>>, Inj(s)
  PROVE  /\ Tail(s) \in Seq(Nat) /\ Head(s) \in Nat /\ Head(s) \in Elems(s)
         /\ Elems(Tail(s)) = Elems(s) \ {Head(s)}
         /\ Inj(Tail(s))
  <1>1. /\ DOMAIN Tail(s) = 1..(Len(s) - 1) /\ DOMAIN s = 1..Len(s) /\ Len(s) \in Nat \ {0}
        /\ \A k \in 1..(Len(s) - 1) : Tail(s)[k] = s[k + 1]
        /\ Head(s) = s[1] /\ Tail(s) \in Seq(Nat)
    OBVIOUS
  <1>2. Head(s) \in Elems(s) /\ Head(s) \in Nat
    BY <1>1 DEF Elems
  <1>3. Elems(Tail(s)) = Elems(s) \ {Head(s)}
    <2>1. ASSUME NEW y \in Elems(Tail(s)) PROVE y \in Elems(s) \ {Head(s)}
      <3>1. PICK k \in DOMAIN Tail(s) : y = Tail(s)[k]
        BY DEF Elems
      <3>2. k + 1 \in DOMAIN s /\ y = s[k + 1] /\ k + 1 # 1 /\ 1 \in DOMAIN s
        BY <1>1, <3>1
      <3>. QED  BY <1>1, <3>2 DEF Elems, Inj
    <2>2. ASSUME NEW y \in Elems(s) \ {Head(s)} PROVE y \in Elems(Tail(s))
      <3>1. PICK k \in DOMAIN s : y = s[k]
        BY DEF Elems
      <3>2. k - 1 \in DOMAIN Tail(s) /\ Tail(s)[k - 1] = s[k]
        BY <1>1, <3>1
      <3>. QED  BY <3>1, <3>2 DEF Elems
    <2>. QED  BY <2>1, <2>2
  <1>4. Inj(Tail(s))
    <2>. SUFFICES ASSUME NEW j \in DOMAIN Tail(s), NEW k \in DOMAIN Tail(s), Tail(s)[j] = Tail(s)[k]
                  PROVE  j = k
      BY DEF Inj
    <2>1. s[j + 1] = s[k + 1] /\ j + 1 \in DOMAIN s /\ k + 1 \in DOMAIN s
      BY <1>1
    <2>2. j + 1 = k + 1
      BY <2>1 DEF Inj
    <2>. QED  BY <1>1, <2>2
  <1>. QED  BY <1>1, <1>2, <1>3, <1>4

LEMMA ElemsFront ==
  ASSUME NEW s \in Seq(Nat), s # <<>>, Inj(s)
  PROVE  /\ Front(s) \in Seq(Nat) /\ Last(s) \in Nat /\ Last(s) \in Elems(s)
         /\ Elems(Front(s)) = Elems(s) \ {Last(s)}
         /\ Inj(Front(s))
  <1>1. /\ DOMAIN Front(s) = 1..(Len(s) - 1) /\ DOMAIN s = 1..Len(s) /\ Len(s) \in Nat \ {0}
        /\ \A k \in 1..(Len(s) - 1) : Front(s)[k] = s[k]
        /\ Last(s) = s[Len(s)] /\ Front(s) \in Seq(Nat)
    BY DEF Front, Last
  <1>2. Last(s) \in Elems(s) /\ Last(s) \in Nat
    BY <1>1 DEF Elems
  <1>3. Elems(Front(s)) = Elems(s) \ {Last(s)}
    <2>1. ASSUME NEW y \in Elems(Front(s)) PROVE y \in Elems(s) \ {Last(s)}
      <3>1. PICK k \in DOMAIN Front(s) : y = Front(s)[k]
        BY DEF Elems
      <3>2. k \in DOMAIN s /\ y = s[k] /\ k # Len(s) /\ Len(s) \in DOMAIN s
        BY <1>1, <3>1
      <3>. QED  BY <1>1, <3>2 DEF Elems, Inj
    <2>2. ASSUME NEW y \in Elems(s) \ {Last(s)} PROVE y \in Elems(Front(s))
      <3>1. PICK k \in DOMAIN s : y = s[k]
        BY DEF Elems
      <3>2. k \in DOMAIN Front(s) /\ Front(s)[k] = s[k]
        BY <1>1, <3>1
      <3>. QED  BY <3>1, <3>2 DEF Elems
    <2>. QED  BY <2>1, <2>2
  <1>4. Inj(Front(s))
    <2>. SUFFICES ASSUME NEW j \in DOMAIN Front(s), NEW k \in DOMAIN Front(s), Front(s)[j] = Front(s)[k]
                  PROVE  j = k
      BY DEF Inj
    <2>1. j \in 1..(Len(s) - 1) /\ k \in 1..(Len(s) - 1)
      BY <1>1
    <2>2. Front(s)[j] = s[j] /\ Front(s)[k] = s[k]
      BY <1>1, <2>1
    <2>3. s[j] = s[k]
      BY <2>2, Zenon
    <2>4. j \in DOMAIN s /\ k \in DOMAIN s
      BY <1>1, <2>1
    <2>. QED  BY <2>3, <2>4 DEF Inj
  <1>. QED  BY <1>1, <1>2, <1>3, <1>4

\* A duplicate-free sequence of pool octets that misses one of them is short.
LEMMA ChannelHasRoom ==
  ASSUME NEW s \in Seq(Nat), Inj(s), NEW x \in 2..(Target + 1),
         \A o \in Elems(s) : o \in 2..(Target + 1) /\ o # x
  PROVE  Len(s) < Target
  <1>. DEFINE P == (2..(Target + 1)) \ {x}
  <1>0. Target \in Nat /\ Target >= 1
    BY TargetAssumption
  <1>1. IsFiniteSet(2..(Target + 1)) /\ Cardinality(2..(Target + 1)) = Target
    BY <1>0, FS_Interval
  <1>2. IsFiniteSet(P) /\ Cardinality(P) = Target - 1
    <2>1. x \in 2..(Target + 1)
      OBVIOUS
    <2>. HIDE DEF P
    <2>2. IsFiniteSet((2..(Target + 1)) \ {x})
          /\ Cardinality((2..(Target + 1)) \ {x}) = Cardinality(2..(Target + 1)) - 1
      BY <1>1, <2>1, FS_RemoveElement
    <2>. QED  BY <1>1, <2>2 DEF P
  <1>3. Len(s) \in Nat /\ DOMAIN s = 1..Len(s)
    OBVIOUS
  <1>4. IsFiniteSet(1..Len(s)) /\ Cardinality(1..Len(s)) = Len(s)
    <2>1. 1 \in Int /\ Len(s) \in Int
      BY <1>3
    <2>2. IsFiniteSet(1..Len(s))
          /\ Cardinality(1..Len(s)) = IF 1 > Len(s) THEN 0 ELSE Len(s) - 1 + 1
      BY <2>1, FS_Interval
    <2>. QED  BY <1>3, <2>2
  <1>5. s \in [1..Len(s) -> P]
    BY <1>3 DEF Elems
  <1>6. SUFFICES ASSUME Len(s) >= Target PROVE FALSE
    BY <1>0, <1>3
  <1>7. Cardinality(P) < Cardinality(1..Len(s))
    BY <1>0, <1>2, <1>3, <1>4, <1>6
  <1>8. \E j, k \in 1..Len(s) : j # k /\ s[j] = s[k]
    BY <1>2, <1>4, <1>5, <1>7, FS_PigeonHole
  <1>. QED  BY <1>3, <1>8 DEF Inj

-----------------------------------------------------------------------------
(* One step per action. Set facts about the sequences come from the     *)
(* lemmas above; the rest is sets and arithmetic.                          *)

LEMMA StepStart ==
  ASSUME IInv, StartSlot
  PROVE  IInv'
  <1>0. nextN \in Nat /\ nextN = started + 2 /\ started \in Nat /\ started' \in Nat
    BY TargetAssumption DEF IInv, TypeOK, BootInv, StartSlot
  <1>1. nextN \notin Elems(resetCh)
    BY <1>0 DEF IInv, Ranges
  <1>2. resetCh' \in Seq(Nat) /\ Elems(resetCh') = Elems(resetCh) \union {nextN} /\ Inj(resetCh')
    BY <1>0, <1>1, ElemsAppend DEF IInv, TypeOK, Distinct, StartSlot
  <1>T. TypeOK'
    BY <1>0, <1>1, <1>2, TargetAssumption DEF IInv, StartSlot, allocVars, poolVars, workerVars,
       tenantVars, TypeOK
  <1>B. BootInv'
    BY <1>0, <1>1, <1>2, TargetAssumption DEF IInv, StartSlot, allocVars, poolVars, workerVars,
       tenantVars, TypeOK, BootInv, BootComplete
  <1>R. Ranges'
    <2>1. UNCHANGED <<freed, ready, wkPc, wkOctet, tPc, tOctet, tPre>>
      BY DEF StartSlot, allocVars, poolVars, workerVars, tenantVars
    <2>2. \A t \in Tenants : ~Holds(t)
      BY DEF IInv, BootInv, StartSlot, Holds
    <2>3. freed = <<>>
      BY DEF IInv, BootInv, StartSlot
    <2>4. Elems(freed') = {}
      BY <2>1, <2>3 DEF Elems
    <2>5. \A o \in Elems(ready) \union Elems(resetCh) \union WorkerHas : 2 <= o /\ o < started + 2 /\ o \in Nat
      BY DEF IInv, Ranges, TypeOK, Elems, WorkerHas
    <2>6. WorkerHas' = WorkerHas /\ ready' = ready
      BY <2>1 DEF WorkerHas
    <2>7. started' = started + 1
      BY DEF StartSlot
    <2>8. ASSUME NEW o \in Elems(ready') \union Elems(resetCh') \union WorkerHas'
          PROVE  2 <= o /\ o < started' + 2
      <3>1. o \in Elems(ready) \union Elems(resetCh) \union WorkerHas \/ o = nextN
        BY <1>2, <2>6
      <3>. QED  BY <1>0, <2>5, <2>7, <3>1
    <2>9. \A t \in Tenants : ~Holds(t)'
      BY <2>1, <2>2 DEF Holds
    <2>. QED  BY <2>4, <2>8, <2>9 DEF Ranges
  <1>D. Distinct'
    BY <1>0, <1>1, <1>2, TargetAssumption DEF IInv, StartSlot, allocVars, poolVars, workerVars,
       tenantVars, TypeOK, BootInv, Ranges, Distinct, WorkerHas, Holds, BootComplete
  <1>F. FlowInv'
    BY <1>0, <1>1, <1>2, TargetAssumption DEF IInv, StartSlot, allocVars, poolVars, workerVars,
       tenantVars, TypeOK, BootInv, Ranges, Distinct, FlowInv, WorkerHas, Holds, BootComplete
  <1>. QED  BY <1>T, <1>B, <1>R, <1>D, <1>F DEF IInv

LEMMA StepTake ==
  ASSUME IInv, WorkerTake
  PROVE  IInv'
  <1>1. /\ resetCh' \in Seq(Nat) /\ Head(resetCh) \in Nat /\ Head(resetCh) \in Elems(resetCh)
        /\ Elems(resetCh') = Elems(resetCh) \ {Head(resetCh)} /\ Inj(resetCh')
    BY ElemsTail DEF IInv, TypeOK, Distinct, WorkerTake
  <1>T. TypeOK'
    BY <1>1, TargetAssumption DEF IInv, WorkerTake, allocVars, poolVars, workerVars, tenantVars,
       TypeOK
  <1>B. BootInv'
    BY <1>1, TargetAssumption DEF IInv, WorkerTake, allocVars, poolVars, workerVars, tenantVars,
       TypeOK, BootInv, BootComplete
  <1>R. Ranges'
    BY <1>1, TargetAssumption DEF IInv, WorkerTake, allocVars, poolVars, workerVars, tenantVars,
       TypeOK, BootInv, Ranges, WorkerHas, Holds, BootComplete
  <1>D. Distinct'
    BY <1>1, TargetAssumption DEF IInv, WorkerTake, allocVars, poolVars, workerVars, tenantVars,
       TypeOK, BootInv, Ranges, Distinct, WorkerHas, Holds, BootComplete
  <1>F. FlowInv'
    BY <1>1, TargetAssumption DEF IInv, WorkerTake, allocVars, poolVars, workerVars, tenantVars,
       TypeOK, BootInv, Ranges, Distinct, FlowInv, WorkerHas, Holds, BootComplete
  <1>. QED  BY <1>T, <1>B, <1>R, <1>D, <1>F DEF IInv

LEMMA StepProvision ==
  ASSUME IInv, Provision
  PROVE  IInv'
  <1>T. TypeOK'
    BY TargetAssumption DEF IInv, Provision, allocVars, poolVars, workerVars, tenantVars, TypeOK
  <1>B. BootInv'
    BY TargetAssumption DEF IInv, Provision, allocVars, poolVars, workerVars, tenantVars,
       TypeOK, BootInv, BootComplete
  <1>R. Ranges'
    BY TargetAssumption DEF IInv, Provision, allocVars, poolVars, workerVars, tenantVars,
       TypeOK, BootInv, Ranges, WorkerHas, Holds, BootComplete
  <1>D. Distinct'
    BY TargetAssumption DEF IInv, Provision, allocVars, poolVars, workerVars, tenantVars,
       TypeOK, BootInv, Ranges, Distinct, WorkerHas, Holds, BootComplete
  <1>F. FlowInv'
    BY TargetAssumption DEF IInv, Provision, allocVars, poolVars, workerVars, tenantVars,
       TypeOK, BootInv, Ranges, Distinct, FlowInv, WorkerHas, Holds, BootComplete
  <1>. QED  BY <1>T, <1>B, <1>R, <1>D, <1>F DEF IInv

LEMMA StepReset ==
  ASSUME IInv, Reset
  PROVE  IInv'
  <1>T. TypeOK'
    BY TargetAssumption DEF IInv, Reset, allocVars, poolVars, workerVars, tenantVars, TypeOK
  <1>B. BootInv'
    BY TargetAssumption DEF IInv, Reset, allocVars, poolVars, workerVars, tenantVars, TypeOK,
       BootInv, BootComplete
  <1>R. Ranges'
    BY TargetAssumption DEF IInv, Reset, allocVars, poolVars, workerVars, tenantVars, TypeOK,
       BootInv, Ranges, WorkerHas, Holds, BootComplete
  <1>D. Distinct'
    BY TargetAssumption DEF IInv, Reset, allocVars, poolVars, workerVars, tenantVars, TypeOK,
       BootInv, Ranges, Distinct, WorkerHas, Holds, BootComplete
  <1>F. FlowInv'
    BY TargetAssumption DEF IInv, Reset, allocVars, poolVars, workerVars, tenantVars, TypeOK,
       BootInv, Ranges, Distinct, FlowInv, WorkerHas, Holds, BootComplete
  <1>. QED  BY <1>T, <1>B, <1>R, <1>D, <1>F DEF IInv

LEMMA StepReady ==
  ASSUME IInv, WorkerReady
  PROVE  IInv'
  <1>1. ready' \in Seq(Nat) /\ Elems(ready') = Elems(ready) \union {wkOctet} /\ Inj(ready')
    BY ElemsAppend DEF IInv, TypeOK, Distinct, WorkerHas, WorkerReady
  <1>T. TypeOK'
    BY <1>1, TargetAssumption DEF IInv, WorkerReady, allocVars, poolVars, workerVars,
       tenantVars, TypeOK
  <1>B. BootInv'
    BY <1>1, TargetAssumption DEF IInv, WorkerReady, allocVars, poolVars, workerVars,
       tenantVars, TypeOK, BootInv, BootComplete
  <1>R. Ranges'
    BY <1>1, TargetAssumption DEF IInv, WorkerReady, allocVars, poolVars, workerVars,
       tenantVars, TypeOK, BootInv, Ranges, WorkerHas, Holds, BootComplete
  <1>D. Distinct'
    BY <1>1, TargetAssumption DEF IInv, WorkerReady, allocVars, poolVars, workerVars,
       tenantVars, TypeOK, BootInv, Ranges, Distinct, WorkerHas, Holds, BootComplete
  <1>F. FlowInv'
    BY <1>1, TargetAssumption DEF IInv, WorkerReady, allocVars, poolVars, workerVars,
       tenantVars, TypeOK, BootInv, Ranges, Distinct, FlowInv, WorkerHas, Holds, BootComplete
  <1>. QED  BY <1>T, <1>B, <1>R, <1>D, <1>F DEF IInv

LEMMA StepExit ==
  ASSUME IInv, WorkerExit
  PROVE  IInv'
  <1>T. TypeOK'
    BY TargetAssumption DEF IInv, WorkerExit, allocVars, poolVars, workerVars, tenantVars, TypeOK
  <1>B. BootInv'
    BY TargetAssumption DEF IInv, WorkerExit, allocVars, poolVars, workerVars, tenantVars,
       TypeOK, BootInv, BootComplete
  <1>R. Ranges'
    BY TargetAssumption DEF IInv, WorkerExit, allocVars, poolVars, workerVars, tenantVars,
       TypeOK, BootInv, Ranges, WorkerHas, Holds, BootComplete
  <1>D. Distinct'
    BY TargetAssumption DEF IInv, WorkerExit, allocVars, poolVars, workerVars, tenantVars,
       TypeOK, BootInv, Ranges, Distinct, WorkerHas, Holds, BootComplete
  <1>F. FlowInv'
    BY TargetAssumption DEF IInv, WorkerExit, allocVars, poolVars, workerVars, tenantVars,
       TypeOK, BootInv, Ranges, Distinct, FlowInv, WorkerHas, Holds, BootComplete
  <1>. QED  BY <1>T, <1>B, <1>R, <1>D, <1>F DEF IInv

LEMMA StepClaimPool ==
  ASSUME IInv, NEW t0 \in Tenants, ClaimPool(t0)
  PROVE  IInv'
  <1>1. /\ ready' \in Seq(Nat) /\ Last(ready) \in Nat /\ Last(ready) \in Elems(ready)
        /\ Elems(ready') = Elems(ready) \ {Last(ready)} /\ Inj(ready')
    BY ElemsFront DEF IInv, TypeOK, Distinct, ClaimPool
  <1>T. TypeOK'
    BY <1>1, TargetAssumption DEF IInv, ClaimPool, allocVars, poolVars, workerVars, tenantVars,
       TypeOK
  <1>B. BootInv'
    BY <1>1, TargetAssumption DEF IInv, ClaimPool, allocVars, poolVars, workerVars, tenantVars,
       TypeOK, BootInv, BootComplete
  <1>R. Ranges'
    BY <1>1, TargetAssumption DEF IInv, ClaimPool, allocVars, poolVars, workerVars, tenantVars,
       TypeOK, BootInv, Ranges, WorkerHas, Holds, BootComplete
  <1>D. Distinct'
    BY <1>1, TargetAssumption DEF IInv, ClaimPool, allocVars, poolVars, workerVars, tenantVars,
       TypeOK, BootInv, Ranges, Distinct, WorkerHas, Holds, BootComplete
  <1>F. FlowInv'
    BY <1>1, TargetAssumption DEF IInv, ClaimPool, allocVars, poolVars, workerVars, tenantVars,
       TypeOK, BootInv, Ranges, Distinct, FlowInv, WorkerHas, Holds, BootComplete
  <1>. QED  BY <1>T, <1>B, <1>R, <1>D, <1>F DEF IInv

LEMMA StepClaimMiss ==
  ASSUME IInv, NEW t0 \in Tenants, ClaimMiss(t0)
  PROVE  IInv'
  <1>T. TypeOK'
    BY TargetAssumption DEF IInv, ClaimMiss, allocVars, poolVars, workerVars, tenantVars, TypeOK
  <1>B. BootInv'
    BY TargetAssumption DEF IInv, ClaimMiss, allocVars, poolVars, workerVars, tenantVars,
       TypeOK, BootInv, BootComplete
  <1>R. Ranges'
    BY TargetAssumption DEF IInv, ClaimMiss, allocVars, poolVars, workerVars, tenantVars,
       TypeOK, BootInv, Ranges, WorkerHas, Holds, BootComplete
  <1>D. Distinct'
    BY TargetAssumption DEF IInv, ClaimMiss, allocVars, poolVars, workerVars, tenantVars,
       TypeOK, BootInv, Ranges, Distinct, WorkerHas, Holds, BootComplete
  <1>F. FlowInv'
    BY TargetAssumption DEF IInv, ClaimMiss, allocVars, poolVars, workerVars, tenantVars,
       TypeOK, BootInv, Ranges, Distinct, FlowInv, WorkerHas, Holds, BootComplete
  <1>. QED  BY <1>T, <1>B, <1>R, <1>D, <1>F DEF IInv

LEMMA StepTraffic ==
  ASSUME IInv, NEW t0 \in Tenants, Traffic(t0)
  PROVE  IInv'
  <1>T. TypeOK'
    BY TargetAssumption DEF IInv, Traffic, allocVars, poolVars, workerVars, tenantVars, TypeOK
  <1>B. BootInv'
    BY TargetAssumption DEF IInv, Traffic, allocVars, poolVars, workerVars, tenantVars, TypeOK,
       BootInv, BootComplete
  <1>R. Ranges'
    BY TargetAssumption DEF IInv, Traffic, allocVars, poolVars, workerVars, tenantVars, TypeOK,
       BootInv, Ranges, WorkerHas, Holds, BootComplete
  <1>D. Distinct'
    BY TargetAssumption DEF IInv, Traffic, allocVars, poolVars, workerVars, tenantVars, TypeOK,
       BootInv, Ranges, Distinct, WorkerHas, Holds, BootComplete
  <1>F. FlowInv'
    BY TargetAssumption DEF IInv, Traffic, allocVars, poolVars, workerVars, tenantVars, TypeOK,
       BootInv, Ranges, Distinct, FlowInv, WorkerHas, Holds, BootComplete
  <1>. QED  BY <1>T, <1>B, <1>R, <1>D, <1>F DEF IInv

LEMMA StepReleaseSlot ==
  ASSUME IInv, NEW t0 \in Tenants, ReleaseSlot(t0)
  PROVE  IInv'
  <1>T. TypeOK'
    BY TargetAssumption DEF IInv, ReleaseSlot, allocVars, poolVars, workerVars, tenantVars, TypeOK
  <1>B. BootInv'
    BY TargetAssumption DEF IInv, ReleaseSlot, allocVars, poolVars, workerVars, tenantVars,
       TypeOK, BootInv, BootComplete
  <1>R. Ranges'
    BY TargetAssumption DEF IInv, ReleaseSlot, allocVars, poolVars, workerVars, tenantVars,
       TypeOK, BootInv, Ranges, WorkerHas, Holds, BootComplete
  <1>D. Distinct'
    BY TargetAssumption DEF IInv, ReleaseSlot, allocVars, poolVars, workerVars, tenantVars,
       TypeOK, BootInv, Ranges, Distinct, WorkerHas, Holds, BootComplete
  <1>F. FlowInv'
    BY TargetAssumption DEF IInv, ReleaseSlot, allocVars, poolVars, workerVars, tenantVars,
       TypeOK, BootInv, Ranges, Distinct, FlowInv, WorkerHas, Holds, BootComplete
  <1>. QED  BY <1>T, <1>B, <1>R, <1>D, <1>F DEF IInv

LEMMA StepReleaseSend ==
  ASSUME IInv, NEW t0 \in Tenants, ReleaseSend(t0)
  PROVE  IInv'
  <1>1. resetCh' \in Seq(Nat) /\ Elems(resetCh') = Elems(resetCh) \union {tOctet[t0]} /\ Inj(resetCh')
    BY ElemsAppend DEF IInv, TypeOK, Distinct, Holds, ReleaseSend
  <1>2. 2 <= tOctet[t0] /\ tOctet[t0] < started + 2
    BY TargetAssumption DEF IInv, TypeOK, BootInv, Ranges, Distinct, Holds, ReleaseSend
  <1>T. TypeOK'
    BY <1>1, <1>2, TargetAssumption DEF IInv, ReleaseSend, allocVars, poolVars, workerVars,
       tenantVars, TypeOK
  <1>B. BootInv'
    BY <1>1, <1>2, TargetAssumption DEF IInv, ReleaseSend, allocVars, poolVars, workerVars,
       tenantVars, TypeOK, BootInv, BootComplete
  <1>R. Ranges'
    BY <1>1, <1>2, TargetAssumption DEF IInv, ReleaseSend, allocVars, poolVars, workerVars,
       tenantVars, TypeOK, BootInv, Ranges, WorkerHas, Holds, BootComplete
  <1>D. Distinct'
    BY <1>1, <1>2, TargetAssumption DEF IInv, ReleaseSend, allocVars, poolVars, workerVars,
       tenantVars, TypeOK, BootInv, Ranges, Distinct, WorkerHas, Holds, BootComplete
  <1>F. FlowInv'
    BY <1>1, <1>2, TargetAssumption DEF IInv, ReleaseSend, allocVars, poolVars, workerVars,
       tenantVars, TypeOK, BootInv, Ranges, Distinct, FlowInv, WorkerHas, Holds, BootComplete
  <1>. QED  BY <1>T, <1>B, <1>R, <1>D, <1>F DEF IInv

LEMMA StepFreeIP ==
  ASSUME IInv, NEW t0 \in Tenants, FreeIP(t0)
  PROVE  IInv'
  <1>1. freed' \in Seq(Nat) /\ Elems(freed') = Elems(freed) \union {tOctet[t0]} /\ Inj(freed')
    BY ElemsAppend DEF IInv, TypeOK, Distinct, Holds, FreeIP
  <1>T. TypeOK'
    BY <1>1, TargetAssumption DEF IInv, FreeIP, allocVars, poolVars, workerVars, tenantVars,
       TypeOK
  <1>B. BootInv'
    BY <1>1, TargetAssumption DEF IInv, FreeIP, allocVars, poolVars, workerVars, tenantVars,
       TypeOK, BootInv, BootComplete
  <1>R. Ranges'
    BY <1>1, TargetAssumption DEF IInv, FreeIP, allocVars, poolVars, workerVars, tenantVars,
       TypeOK, BootInv, Ranges, WorkerHas, Holds, BootComplete
  <1>D. Distinct'
    BY <1>1, TargetAssumption DEF IInv, FreeIP, allocVars, poolVars, workerVars, tenantVars,
       TypeOK, BootInv, Ranges, Distinct, WorkerHas, Holds, BootComplete
  <1>F. FlowInv'
    BY <1>1, TargetAssumption DEF IInv, FreeIP, allocVars, poolVars, workerVars, tenantVars,
       TypeOK, BootInv, Ranges, Distinct, FlowInv, WorkerHas, Holds, BootComplete
  <1>. QED  BY <1>T, <1>B, <1>R, <1>D, <1>F DEF IInv

LEMMA StepAllocFreed ==
  ASSUME IInv, NEW t0 \in Tenants, AllocIP(t0), freed # <<>>
  PROVE  IInv'
  <1>1. /\ freed' \in Seq(Nat) /\ Last(freed) \in Nat /\ Last(freed) \in Elems(freed)
        /\ Elems(freed') = Elems(freed) \ {Last(freed)} /\ Inj(freed')
    BY ElemsFront DEF IInv, TypeOK, Distinct, AllocIP
  <1>2. /\ tOctet' = [tOctet EXCEPT ![t0] = Last(freed)] /\ tPre' = [tPre EXCEPT ![t0] = FALSE]
        /\ tPc' = [tPc EXCEPT ![t0] = "held"] /\ tPc[t0] = "missed"
        /\ UNCHANGED <<nextN, poolVars, workerVars, flows>>
    BY DEF AllocIP
  <1>T. TypeOK'
    BY <1>1, <1>2, TargetAssumption DEF IInv, AllocIP, allocVars, poolVars, workerVars,
       tenantVars, TypeOK
  <1>B. BootInv'
    BY <1>1, <1>2, TargetAssumption DEF IInv, AllocIP, allocVars, poolVars, workerVars,
       tenantVars, TypeOK, BootInv, BootComplete
  <1>R. Ranges'
    BY <1>1, <1>2, TargetAssumption DEF IInv, AllocIP, allocVars, poolVars, workerVars,
       tenantVars, TypeOK, BootInv, Ranges, WorkerHas, Holds, BootComplete
  <1>D. Distinct'
    BY <1>1, <1>2, TargetAssumption DEF IInv, AllocIP, allocVars, poolVars, workerVars,
       tenantVars, TypeOK, BootInv, Ranges, Distinct, WorkerHas, Holds, BootComplete
  <1>F. FlowInv'
    BY <1>1, <1>2, TargetAssumption DEF IInv, AllocIP, allocVars, poolVars, workerVars,
       tenantVars, TypeOK, BootInv, Ranges, Distinct, FlowInv, WorkerHas, Holds, BootComplete
  <1>. QED  BY <1>T, <1>B, <1>R, <1>D, <1>F DEF IInv

LEMMA StepAllocNext ==
  ASSUME IInv, NEW t0 \in Tenants, AllocIP(t0), freed = <<>>
  PROVE  IInv'
  <1>1. /\ tOctet' = [tOctet EXCEPT ![t0] = nextN] /\ tPre' = [tPre EXCEPT ![t0] = FALSE]
        /\ tPc' = [tPc EXCEPT ![t0] = "held"] /\ tPc[t0] = "missed"
        /\ nextN' = nextN + 1 /\ UNCHANGED <<freed, poolVars, workerVars, flows>>
    BY DEF AllocIP
  <1>2. nextN \in Nat /\ nextN >= Target + 2 /\ nextN # Target + 1
    BY <1>1, TargetAssumption DEF IInv, TypeOK, BootInv
  <1>T. TypeOK'
    BY <1>1, <1>2, TargetAssumption DEF IInv, AllocIP, allocVars, poolVars, workerVars,
       tenantVars, TypeOK
  <1>B. BootInv'
    BY <1>1, <1>2, TargetAssumption DEF IInv, AllocIP, allocVars, poolVars, workerVars,
       tenantVars, TypeOK, BootInv, BootComplete
  <1>R. Ranges'
    <2>1. Elems(freed') = {}
      BY <1>1 DEF Elems
    <2>2. UNCHANGED <<ready, resetCh, started, wkPc, wkOctet>>
      BY <1>1 DEF poolVars, workerVars
    <2>3. WorkerHas' = WorkerHas
      BY <2>2 DEF WorkerHas
    <2>4. ASSUME NEW t \in Tenants, Holds(t)'
          PROVE  /\ tPre'[t] => 2 <= tOctet'[t] /\ tOctet'[t] < Target + 2
                 /\ ~tPre'[t] => Target + 2 <= tOctet'[t] /\ tOctet'[t] < nextN'
      <3>1. CASE t = t0
        <4>1. tOctet'[t] = nextN /\ ~tPre'[t]
          BY <1>1, <3>1 DEF IInv, TypeOK
        <4>. QED  BY <1>1, <1>2, <4>1
      <3>2. CASE t # t0
        <4>1. tOctet'[t] = tOctet[t] /\ tPre'[t] = tPre[t] /\ tPc'[t] = tPc[t]
          BY <1>1, <3>2 DEF IInv, TypeOK
        <4>2. Holds(t) /\ tOctet[t] \in Nat
          BY <2>4, <4>1 DEF Holds, IInv, TypeOK
        <4>3. tPre[t] => 2 <= tOctet[t] /\ tOctet[t] < Target + 2
          BY <4>2 DEF IInv, Ranges
        <4>4. ~tPre[t] => Target + 2 <= tOctet[t] /\ tOctet[t] < nextN
          BY <4>2 DEF IInv, Ranges
        <4>5. tOctet[t] < nextN => tOctet[t] < nextN'
          BY <1>1, <1>2, <4>2
        <4>6. CASE tPre[t]
          BY <4>1, <4>3, <4>6
        <4>7. CASE ~tPre[t]
          BY <4>1, <4>4, <4>5, <4>7
        <4>. QED  BY <4>6, <4>7
      <3>. QED  BY <3>1, <3>2
    <2>. QED  BY <2>1, <2>2, <2>3, <2>4 DEF IInv, Ranges
  <1>D. Distinct'
    BY <1>1, <1>2, TargetAssumption DEF IInv, AllocIP, allocVars, poolVars, workerVars,
       tenantVars, TypeOK, BootInv, Ranges, Distinct, WorkerHas, Holds, BootComplete
  <1>F. FlowInv'
    BY <1>1, <1>2, TargetAssumption DEF IInv, AllocIP, allocVars, poolVars, workerVars,
       tenantVars, TypeOK, BootInv, Ranges, Distinct, FlowInv, WorkerHas, Holds, BootComplete
  <1>. QED  BY <1>T, <1>B, <1>R, <1>D, <1>F DEF IInv

LEMMA IInvInit == Init => IInv
  <1>. SUFFICES ASSUME Init PROVE IInv
    OBVIOUS
  <1>1. Elems(<<>>) = {} /\ Inj(<<>>) /\ <<>> \in Seq(Nat)
    BY DEF Elems, Inj
  <1>2. tPre \in [Tenants -> BOOLEAN] /\ tPc \in [Tenants -> {"idle", "missed", "held", "releasing", "released"}]
    BY Zenon DEF Init
  <1>3. TypeOK
    BY <1>1, <1>2, TargetAssumption DEF Init, TypeOK
  <1>4. WorkerHas = {} /\ \A t \in Tenants : ~Holds(t) /\ tPc[t] # "releasing"
    BY DEF Init, WorkerHas, Holds
  <1>5. BootInv
    BY TargetAssumption DEF Init, BootInv
  <1>6. Ranges
    BY <1>1, <1>4 DEF Init, Ranges
  <1>7. Distinct
    BY <1>1, <1>4 DEF Init, Distinct
  <1>8. FlowInv
    BY <1>1, <1>4 DEF Init, FlowInv
  <1>. QED  BY <1>3, <1>5, <1>6, <1>7, <1>8 DEF IInv

LEMMA IInvStep == IInv /\ [Next]_vars => IInv'
  <1>. SUFFICES ASSUME IInv, [Next]_vars PROVE IInv'
    OBVIOUS
  <1>1. ASSUME NEW t \in Tenants, AllocIP(t) PROVE IInv'
    BY <1>1, StepAllocFreed, StepAllocNext
  <1>2. CASE UNCHANGED vars
    <2>1. UNCHANGED <<nextN, freed, ready, inUse, resetCh, provisioned, started, wkPc, wkOctet, tPc, tOctet, tPre, flows>>
      BY <1>2 DEF vars, allocVars, poolVars, workerVars, tenantVars
    <2>2. TypeOK' /\ BootInv'
      BY <2>1 DEF IInv, TypeOK, BootInv
    <2>3. WorkerHas' = WorkerHas /\ \A t \in Tenants : Holds(t)' = Holds(t)
      BY <2>1 DEF WorkerHas, Holds
    <2>4. Ranges'
      BY <2>1, <2>3 DEF IInv, Ranges
    <2>5. Distinct'
      BY <2>1, <2>3 DEF IInv, Distinct
    <2>6. FlowInv'
      BY <2>1, <2>3 DEF IInv, FlowInv
    <2>. QED  BY <2>2, <2>4, <2>5, <2>6 DEF IInv
  <1>. QED  BY <1>1, <1>2, StepStart, StepTake, StepProvision, StepReset, StepReady, StepExit,
     StepClaimPool, StepClaimMiss, StepTraffic, StepReleaseSlot, StepReleaseSend, StepFreeIP DEF
     Next, Worker

-----------------------------------------------------------------------------
\* The inductive invariant holds of every behaviour of the slot pool.
THEOREM Inductive == Spec => []IInv
  BY IInvInit, IInvStep, PTL DEF Spec

\* Type correctness of the allocator, the pool and its worker.
THEOREM TypeCorrect == Spec => []TypeOK
  <1>1. IInv => TypeOK
    BY DEF IInv
  <1>. QED  BY <1>1, Inductive, PTL

\* claimSlot never gives two live sandboxes one octet, and never leaves a
\* held octet where another claim could take it.
THEOREM Exclusive == Spec => []SlotExclusive
  <1>1. IInv => SlotExclusive
    BY DEF IInv, Distinct, SlotExclusive
  <1>. QED  BY <1>1, Inductive, PTL

\* The pool keeps its octets and the allocator its own.
THEOREM PoolClosed == Spec => []PoolOwnsItsOctets
  <1>1. IInv => PoolOwnsItsOctets
    <2>. SUFFICES ASSUME IInv PROVE PoolOwnsItsOctets
      OBVIOUS
    <2>1. \A k \in DOMAIN freed : freed[k] >= Target + 2
      BY DEF IInv, Ranges, Elems
    <2>2. \A k \in DOMAIN ready : ready[k] < Target + 2
      <3>. SUFFICES ASSUME NEW k \in DOMAIN ready PROVE ready[k] < Target + 2
        OBVIOUS
      <3>1. ready[k] \in Elems(ready) /\ ready[k] \in Nat
        BY DEF Elems, IInv, TypeOK
      <3>2. ready[k] < started + 2 /\ started <= Target /\ started \in Nat
        BY <3>1, TargetAssumption DEF IInv, Ranges, TypeOK
      <3>. QED  BY <3>1, <3>2, TargetAssumption
    <2>3. ASSUME NEW t \in Tenants, Holds(t) PROVE tPre[t] <=> tOctet[t] < Target + 2
      <3>1. tOctet[t] \in Nat
        BY DEF IInv, TypeOK
      <3>2. CASE tPre[t]
        <4>1. tOctet[t] < Target + 2
          BY <2>3, <3>2 DEF IInv, Ranges
        <4>. QED  BY <3>2, <4>1
      <3>3. CASE ~tPre[t]
        <4>1. Target + 2 <= tOctet[t]
          BY <2>3, <3>3 DEF IInv, Ranges
        <4>2. ~(tOctet[t] < Target + 2)
          BY <3>1, <4>1, TargetAssumption
        <4>. QED  BY <3>3, <4>2
      <3>. QED  BY <3>2, <3>3
    <2>. QED  BY <2>1, <2>2, <2>3 DEF PoolOwnsItsOctets
  <1>. QED  BY <1>1, Inductive, PTL

\* A teardown's send on resetCh never finds the channel full: the releasing
\* tenant's octet is one of Target, and the channel holds none twice.
THEOREM NeverBlocks == Spec => []ReleaseNeverBlocks
  <1>1. IInv => ReleaseNeverBlocks
    <2>. SUFFICES ASSUME IInv, NEW t \in Tenants, tPc[t] = "releasing"
                  PROVE  Len(resetCh) < Target
      BY DEF ReleaseNeverBlocks
    <2>1. Holds(t) /\ tPre[t]
      BY DEF Holds, IInv, Distinct
    <2>2. 2 <= tOctet[t] /\ tOctet[t] < Target + 2
      BY <2>1 DEF IInv, Ranges
    <2>3. tOctet[t] \in 2..(Target + 1)
      BY <2>2, TargetAssumption DEF IInv, TypeOK
    <2>4. ASSUME NEW o \in Elems(resetCh) PROVE o \in 2..(Target + 1) /\ o # tOctet[t]
      <3>1. o \in Nat /\ 2 <= o /\ o < started + 2
        BY DEF IInv, TypeOK, Elems, Ranges
      <3>2. o # tOctet[t]
        BY <2>1 DEF IInv, Distinct
      <3>3. started \in Nat /\ started <= Target
        BY TargetAssumption DEF IInv, TypeOK
      <3>. QED  BY <3>1, <3>2, <3>3, TargetAssumption
    <2>5. resetCh \in Seq(Nat) /\ Inj(resetCh)
      BY DEF IInv, TypeOK, Distinct
    <2>. QED  BY <2>3, <2>4, <2>5, ChannelHasRoom
  <1>. QED  BY <1>1, Inductive, PTL

\* While the conntrack flush works, no tenant of a pool slot inherits an
\* earlier tenant's entries.
THEOREM CleanSlots == Spec => []NoInheritedFlows
  <1>1. IInv => NoInheritedFlows
    <2>. SUFFICES ASSUME IInv, ~FlushMayFail, NEW t \in Tenants, Holds(t), tPre[t],
                         NEW u \in Tenants \ {t}, <<u, tOctet[t]>> \in flows
                  PROVE  FALSE
      BY DEF NoInheritedFlows
    <2>1. \A f \in flows : f[2] = tOctet[t] => f[1] = t
      BY DEF IInv, FlowInv
    <2>2. <<u, tOctet[t]>>[2] = tOctet[t] /\ <<u, tOctet[t]>>[1] = u
      OBVIOUS
    <2>. QED  BY <2>1, <2>2
  <1>. QED  BY <1>1, Inductive, PTL

\* claimSlot and releaseSlot implement the abstract allocator.
THEOREM Refinement == Spec => ImplementsAlloc
  <1>1. Init => Alloc!AllocInit
    BY DEF Init, Alloc!AllocInit, holder, Holds
  <1>2. IInv /\ IInv' /\ [Next]_vars => [Alloc!AllocNext]_holder
    <2>. SUFFICES ASSUME IInv, IInv', [Next]_vars, holder' # holder
                  PROVE  Alloc!AllocNext
      OBVIOUS
    <2>0. /\ holder = [t \in Tenants |-> IF Holds(t) THEN tOctet[t] ELSE 0]
          /\ holder' = [t \in Tenants |-> IF Holds(t)' THEN tOctet'[t] ELSE 0]
      BY DEF holder, Holds
    <2>1. ASSUME NEW t \in Tenants, ClaimPool(t) \/ AllocIP(t) PROVE Alloc!AllocNext
      <3>1. /\ ~Holds(t) /\ Holds(t)'
            /\ \A u \in Tenants \ {t} : Holds(u)' = Holds(u) /\ tOctet'[u] = tOctet[u]
        BY <2>1 DEF ClaimPool, AllocIP, Holds, IInv, TypeOK
      <3>2. holder' = [holder EXCEPT ![t] = tOctet'[t]]
        BY <2>0, <3>1
      <3>3. holder[t] = 0 /\ holder'[t] = tOctet'[t]
        BY <2>0, <3>1
      <3>4. tOctet'[t] \in Nat \ {0}
        <4>1. tOctet'[t] \in Nat
          BY DEF IInv, TypeOK
        <4>2. CASE tPre'[t]
          <5>1. 2 <= tOctet'[t]
            BY <3>1, <4>2 DEF IInv, Ranges
          <5>. QED  BY <4>1, <5>1
        <4>3. CASE ~tPre'[t]
          <5>1. Target + 2 <= tOctet'[t]
            BY <3>1, <4>3 DEF IInv, Ranges
          <5>. QED  BY <4>1, <5>1, TargetAssumption
        <4>. QED  BY <4>2, <4>3
      <3>5. ASSUME NEW u \in Tenants PROVE holder[u] # tOctet'[t]
        <4>1. CASE u = t
          BY <3>3, <3>4, <4>1
        <4>2. CASE u # t /\ Holds(u)
          <5>1. Holds(u)' /\ holder[u] = tOctet'[u]
            BY <2>0, <3>1, <4>2
          <5>. QED  BY <3>1, <4>2, <5>1 DEF IInv, Distinct
        <4>3. CASE u # t /\ ~Holds(u)
          BY <2>0, <3>4, <4>3
        <4>. QED  BY <4>1, <4>2, <4>3
      <3>6. Alloc!Acquire(t, holder'[t])
        BY <3>2, <3>3, <3>4, <3>5 DEF Alloc!Acquire
      <3>. QED  BY <3>6 DEF Alloc!AllocNext
    <2>2. ASSUME NEW t \in Tenants, ReleaseSend(t) \/ FreeIP(t) PROVE Alloc!AllocNext
      <3>1. /\ Holds(t) /\ ~Holds(t)'
            /\ \A u \in Tenants \ {t} : Holds(u)' = Holds(u) /\ tOctet'[u] = tOctet[u]
        BY <2>2 DEF ReleaseSend, FreeIP, Holds, IInv, TypeOK
      <3>2. holder' = [holder EXCEPT ![t] = 0]
        BY <2>0, <3>1
      <3>3. holder[t] # 0
        BY <2>0, <3>1, <3>2
      <3>4. Alloc!Return(t)
        BY <3>2, <3>3 DEF Alloc!Return
      <3>. QED  BY <3>4 DEF Alloc!AllocNext
    <2>3. ASSUME \/ UNCHANGED vars \/ StartSlot \/ Worker \/ WorkerExit
                 \/ \E t \in Tenants : ClaimMiss(t) \/ Traffic(t) \/ ReleaseSlot(t)
          PROVE  FALSE
      <3>1. tOctet' = tOctet /\ \A t \in Tenants : Holds(t)' = Holds(t)
        <4>1. CASE UNCHANGED vars \/ StartSlot \/ Worker \/ WorkerExit
          <5>1. UNCHANGED <<tPc, tOctet>>
            BY <4>1 DEF vars, StartSlot, Worker, WorkerTake, Provision, Reset, WorkerReady,
               WorkerExit, tenantVars
          <5>. QED  BY <5>1 DEF Holds
        <4>2. ASSUME NEW t \in Tenants, ClaimMiss(t) \/ Traffic(t) \/ ReleaseSlot(t)
              PROVE  tOctet' = tOctet /\ \A u \in Tenants : Holds(u)' = Holds(u)
          BY <4>2 DEF ClaimMiss, Traffic, ReleaseSlot, tenantVars, Holds, IInv, TypeOK
        <4>. QED  BY <2>3, <4>1, <4>2
      <3>. QED  BY <2>0, <3>1
    <2>. QED  BY <2>1, <2>2, <2>3 DEF Next
  <1>. QED  BY <1>1, <1>2, Inductive, PTL DEF Spec, ImplementsAlloc, Alloc!Spec
=============================================================================

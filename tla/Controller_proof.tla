-------------------------- MODULE Controller_proof --------------------------
(***************************************************************************)
(* Proofs about Controller for any number of requests, keys and builds and *)
(* any number of faults, rebuilds and concurrent requests; those about     *)
(* PodWatch follow them.                                                   *)
(*                                                                         *)
(* The keyed mutex is correct because a lock's reference count is exactly  *)
(* the number of requests that point at it (LockInv): a lock is thrown     *)
(* away only when nobody else can reach it.  Supersession is safe because  *)
(* a goroutine stops only a container whose creation time it has compared  *)
(* with that of its own pod (SupInv), and complete because two running     *)
(* pods of one image always have a goroutine that will retire the older    *)
(* one (PairInv).                                                          *)
(***************************************************************************)
EXTENDS Controller, PodWatch, FiniteSetTheorems, TLAPS

Active(r) == req[r].pc \notin {"idle", "done"}

\* The requests that point at lock l.
Users(l) == {r \in Requests : req[r].lock = l}

\* A request that is under way shares its key's lock with every other one.
LockInv ==
  /\ \A r \in Requests : Active(r) =>
       req[r].key \in Keys /\ req[r].lock \in Requests /\ locks[req[r].key] = req[r].lock
  /\ \A r \in Requests : ~Active(r) => req[r].lock = Nobody
  /\ \A r \in Requests : req[r].pc = "idle" =>
       (\A s \in Requests : req[s].lock # r) /\ (\A k \in Keys : locks[k] # r)
  /\ \A l \in Requests : IsFiniteSet(Users(l)) /\ refs[l] = Cardinality(Users(l))
  /\ \A r \in Requests : Working(r) => holder[req[r].lock] = r

\* A packed request has read its build by the time it names the pod.
NameInv ==
  \A r \in Requests :
    /\ req[r].pc = "clear" => ~req[r].packed
    /\ req[r].pc \in {"state", "podlabel", "rm", "create", "boot", "rmfailed"} /\ req[r].packed
         => req[r].build \in Builds

\* The request has issued its docker create, or never will.
Past(r) == req[r].pc \in {"boot", "rmfailed", "post", "unlock", "reclaim", "done"}

\* The request's container has been started, or the request has failed.
Settled(r) == req[r].pc \in {"post", "unlock", "reclaim", "done"}

\* Each container is the work of one request and has a creation time of its own.
ContInv ==
  /\ \A n \in Names : Exists(n) =>
       /\ cont[n].id \in Requests /\ Past(cont[n].id)
       /\ 1 <= cont[n].born /\ cont[n].born <= clock
  /\ \A n, m \in Names : Exists(n) /\ Exists(m) /\ n # m =>
       cont[n].id # cont[m].id /\ cont[n].born # cont[m].born

\* What a goroutine is about to stop is older than the pod it keeps.
SupOK(r) ==
  /\ sup[r].pc # "none" => Settled(r)
  /\ sup[r].pc = "age" => sup[r].keep \in Names
  /\ sup[r].pc \in {"list", "loop", "stop", "rm"} => sup[r].born <= clock
  /\ sup[r].pc \in {"stop", "rm"} =>
       /\ sup[r].seen \in Requests /\ Past(sup[r].seen)
       /\ sup[r].cur \in Names
       /\ \A n \in Names : Exists(n) /\ cont[n].id = sup[r].seen =>
            cont[n].born < sup[r].born

SupInv == \A r \in Requests : SupOK(r)

\* Goroutine r will retire the pod of build o, which is older than that of y.
Doom(r, o, y) ==
  \/ Retires(r, Pod(o), Pod(y))
  \/ /\ sup[r].pc \in {"loop", "stop", "rm"} /\ Pod(o) \in sup[r].todo
     /\ cont[Pod(o)].born < sup[r].born

PairInv ==
  \A o, y \in Builds :
    Running(Pod(o)) /\ Running(Pod(y)) /\ cont[Pod(o)].born < cont[Pod(y)].born
      /\ cont[Pod(o)].id \notin spared
      => \E r \in Requests : Doom(r, o, y)

IInv == TypeOK /\ LockInv /\ NameInv /\ ContInv /\ SupInv /\ YoungestSurvives /\ PairInv

-----------------------------------------------------------------------------
(* The names of pods and of the keys' own containers.                      *)

LEMMA NamesFacts ==
  /\ \A b \in Builds : Pod(b) \in Names
  /\ \A k \in Keys : Own(k) \in Names
  /\ \A b, c \in Builds : Pod(b) = Pod(c) => b = c
  /\ \A b \in Builds, k \in Keys : Pod(b) # Own(k)
  /\ <<>> \notin Names
  BY DEF Names, Pod, Own

\* The request that is at work has a container name to work on.
LEMMA NameOfIn ==
  ASSUME TypeOK, LockInv, NameInv, NEW r \in Requests,
         req[r].pc \in {"clear", "state", "podlabel", "rm", "create", "boot", "rmfailed"}
  PROVE  /\ Own(Key(r)) \in Names
         /\ req[r].pc # "clear" => NameOf(r) \in Names
  <1>1. Key(r) \in Keys
    BY DEF LockInv, Active, Key
  <1>. QED  BY <1>1, NamesFacts DEF NameOf, NameInv

LEMMA NobodyFact == Nobody \notin Requests /\ Nobody \notin Keys /\ Nobody \notin Builds
  BY ControllerAssumption DEF Nobody

LEMMA TypeInit == Init => TypeOK
  <1>. SUFFICES ASSUME Init PROVE TypeOK
    OBVIOUS
  <1>1. NoReq \in ReqRec /\ NoCont \in ContRec /\ NoSup \in SupRec
    BY DEF NoReq, NoCont, NoSup, ReqRec, ContRec, SupRec, ReqStates, SupStates, Answers
  <1>2. robbed \in BOOLEAN /\ spared = {}
    BY DEF Init
  <1>. QED  BY <1>1, <1>2 DEF Init, TypeOK

(* What the requests, docker and the goroutines write keeps its type.      *)

LEMMA ReqType ==
  ASSUME req \in [Requests -> ReqRec], NEW r \in Requests
  PROVE  /\ \A p \in ReqStates : Goto(r, p) => req' \in [Requests -> ReqRec]
         /\ \A a \in Answers : Answer(r, a) => req' \in [Requests -> ReqRec]
         /\ \A q \in ReqRec : req' = [req EXCEPT ![r] = q] => req' \in [Requests -> ReqRec]
  <1>1. ASSUME NEW q \in ReqRec, NEW p \in ReqStates, NEW a \in Answers
        PROVE  [q EXCEPT !.pc = p] \in ReqRec /\ [q EXCEPT !.pc = p, !.answer = a] \in ReqRec
    BY DEF ReqRec
  <1>2. "unlock" \in ReqStates
    BY DEF ReqStates
  <1>3. ASSUME NEW p \in ReqStates, Goto(r, p) PROVE req' \in [Requests -> ReqRec]
    <2>1. "none" \in Answers
      BY DEF Answers
    <2>. QED  BY <1>1, <1>3, <2>1 DEF Goto
  <1>4. ASSUME NEW a \in Answers, Answer(r, a) PROVE req' \in [Requests -> ReqRec]
    BY <1>1, <1>2, <1>4 DEF Answer
  <1>. QED  BY <1>3, <1>4

LEMMA RemovedType ==
  ASSUME cont \in [Names -> ContRec], inside \in [Requests -> SUBSET Keys],
         NEW n \in Names, Removed(n)
  PROVE  cont' \in [Names -> ContRec] /\ inside' \in [Requests -> SUBSET Keys]
  <1>1. NoCont \in ContRec
    BY DEF NoCont, ContRec
  <1>. QED  BY <1>1 DEF Removed

LEMMA StoppedType ==
  ASSUME cont \in [Names -> ContRec], inside \in [Requests -> SUBSET Keys], NEW n \in Names,
         NEW b \in BOOLEAN
  PROVE  /\ [cont EXCEPT ![n].running = b] \in [Names -> ContRec]
         /\ [inside EXCEPT ![cont[n].id] = {}] \in [Requests -> SUBSET Keys]
  <1>1. ASSUME NEW c \in ContRec PROVE [c EXCEPT !.running = b] \in ContRec
    BY DEF ContRec
  <1>. QED  BY <1>1

LEMMA ReqUpdates ==
  ASSUME NEW q \in ReqRec, NEW p \in ReqStates
  PROVE  /\ \A k \in Keys, f \in BOOLEAN, l \in Requests :
              [q EXCEPT !.pc = p, !.key = k, !.packed = f, !.lock = l] \in ReqRec
         /\ \A a \in Answers, l \in Requests :
              [q EXCEPT !.pc = p, !.answer = a, !.host = l] \in ReqRec
         /\ \A b \in Builds \cup {Nobody} : [q EXCEPT !.pc = p, !.build = b] \in ReqRec
         /\ \A l \in Requests : [q EXCEPT !.pc = p, !.host = l] \in ReqRec
  BY DEF ReqRec

LEMMA SpareType ==
  ASSUME TypeOK, NEW names \in SUBSET Names, NEW born, Spare(names, born)
  PROVE  spared' \subseteq Requests \cup {Nobody}
  BY DEF TypeOK, ContRec, Spare

LEMMA SupUpdates ==
  ASSUME NEW g \in SupRec, NEW n \in Names, NEW i \in Requests \cup {Nobody}
  PROVE  /\ [g EXCEPT !.pc = "stop", !.cur = n, !.seen = i] \in SupRec
         /\ \A b \in Nat : [g EXCEPT !.pc = "list", !.born = b] \in SupRec
         /\ \A t \in SUBSET Names : [g EXCEPT !.pc = "loop", !.todo = t] \in SupRec
         /\ [g EXCEPT !.todo = @ \ {n}] \in SupRec
         /\ [g EXCEPT !.pc = "rm"] \in SupRec
         /\ [g EXCEPT !.pc = "loop", !.todo = @ \ {n}, !.cur = <<>>, !.seen = Nobody] \in SupRec
  BY DEF SupRec, SupStates

LEMMA TypeStep ==
  ASSUME TypeOK, LockInv, NameInv, ContInv, SupInv, [Next]_vars
  PROVE  TypeOK'
  <1>. USE DEF TypeOK, At, keyed, docker, world, history
  <1>1. ASSUME NEW r \in Requests, Lock(r) PROVE TypeOK'
    <2>0. PICK p \in BOOLEAN, k \in Keys :
            LET l == IF locks[k] = Nobody THEN r ELSE locks[k]
            IN /\ locks' = [locks EXCEPT ![k] = l]
               /\ refs' = [refs EXCEPT ![l] = @ + 1]
               /\ req' = [req EXCEPT ![r].pc = "wait", ![r].key = k, ![r].packed = p, ![r].lock = l]
      BY <1>1 DEF Lock
    <2>. DEFINE l == IF locks[k] = Nobody THEN r ELSE locks[k]
    <2>1. /\ locks' = [locks EXCEPT ![k] = l]
          /\ refs' = [refs EXCEPT ![l] = @ + 1]
          /\ req' = [req EXCEPT ![r].pc = "wait", ![r].key = k, ![r].packed = p, ![r].lock = l]
          /\ l \in Requests
      BY <2>0
    <2>. HIDE DEF l
    <2>2. [req[r] EXCEPT !.pc = "wait", !.key = k, !.packed = p, !.lock = l] \in ReqRec
      BY <2>1, ReqUpdates DEF ReqStates
    <2>3. req' \in [Requests -> ReqRec]
      BY <2>1, <2>2
    <2>. QED  BY <1>1, <2>1, <2>3 DEF Lock
  <1>2. ASSUME NEW r \in Requests, Acquire(r) PROVE TypeOK'
    <2>1. req' \in [Requests -> ReqRec]
      BY <1>2, ReqType DEF Acquire, ReqStates
    <2>. QED  BY <1>2, <2>1 DEF Acquire
  <1>3. ASSUME NEW r \in Requests, Unlock(r) PROVE TypeOK'
    <2>1. req' \in [Requests -> ReqRec]
      BY <1>3, ReqType DEF Unlock, ReqStates
    <2>. QED  BY <1>3, <2>1 DEF Unlock
  <1>4. ASSUME NEW r \in Requests, Reclaim(r) PROVE TypeOK'
    <2>1. req' \in [Requests -> ReqRec]
      <3>1. [NoReq EXCEPT !.pc = "done"] \in ReqRec
        BY DEF NoReq, ReqRec, ReqStates, Answers
      <3>. QED  BY <1>4, <3>1, ReqType DEF Reclaim
    <2>2. refs' \in [Requests -> Nat]
      <3>1. req[r].lock \in Requests /\ r \in Users(req[r].lock)
        BY <1>4 DEF Reclaim, LockInv, Active, Users
      <3>2. refs[req[r].lock] # 0
        BY <3>1, FS_EmptySet DEF LockInv
      <3>. QED  BY <1>4, <3>1, <3>2 DEF Reclaim
    <2>. QED  BY <1>4, <2>1, <2>2 DEF Reclaim
  <1>5. ASSUME NEW r \in Requests, Lookup(r) PROVE TypeOK'
    <2>1. req' \in [Requests -> ReqRec]
      <3>1. CASE Running(Own(Key(r)))
        <4>1. cont[Own(Key(r))].id \in Requests
          BY <1>5, <3>1, NamesFacts DEF Lookup, Running, ContInv, LockInv, Active, Key
        <4>2. [req[r] EXCEPT !.pc = "unlock", !.answer = "found",
                             !.host = cont[Own(Key(r))].id] \in ReqRec
          BY <4>1, ReqUpdates DEF ReqStates, Answers
        <4>. QED  BY <1>5, <3>1, <4>2 DEF Lookup
      <3>2. CASE ~Running(Own(Key(r)))
        <4>. DEFINE to == IF req[r].packed THEN "state" ELSE "clear"
                    b == IF req[r].packed THEN tag ELSE req[r].build
        <4>1. [req[r] EXCEPT !.pc = to, !.build = b] \in ReqRec
          <5>1. to \in ReqStates
            BY DEF ReqStates
          <5>2. b \in Builds \cup {Nobody}
            BY DEF ReqRec
          <5>. HIDE DEF to, b
          <5>. QED  BY <5>1, <5>2, ReqUpdates
        <4>2. req' = [req EXCEPT ![r].pc = to, ![r].build = b]
          BY <1>5, <3>2 DEF Lookup
        <4>. HIDE DEF to, b
        <4>. QED  BY <4>1, <4>2
      <3>. QED  BY <3>1, <3>2
    <2>. QED  BY <1>5, <2>1 DEF Lookup
  <1>6. ASSUME NEW r \in Requests, ClearOwn(r) PROVE TypeOK'
    <2>1. req' \in [Requests -> ReqRec]
      BY <1>6, ReqType DEF ClearOwn, ReqStates
    <2>2. cont' \in [Names -> ContRec] /\ inside' \in [Requests -> SUBSET Keys]
      BY <1>6, NameOfIn, RemovedType DEF ClearOwn
    <2>. QED  BY <1>6, <2>1, <2>2 DEF ClearOwn
  <1>7. ASSUME NEW r \in Requests, PodState(r) PROVE TypeOK'
    <2>1. req' \in [Requests -> ReqRec]
      BY <1>7, ReqType DEF PodState, ReqStates
    <2>. QED  BY <1>7, <2>1 DEF PodState
  <1>8. ASSUME NEW r \in Requests, PodLabel(r) PROVE TypeOK'
    <2>1. req' \in [Requests -> ReqRec]
      <3>1. CASE Exists(NameOf(r))
        <4>1. cont[NameOf(r)].id \in Requests
          BY <1>8, <3>1, NameOfIn DEF PodLabel, ContInv
        <4>2. [req[r] EXCEPT !.pc = "post", !.host = cont[NameOf(r)].id] \in ReqRec
          BY <4>1, ReqUpdates DEF ReqStates
        <4>. QED  BY <1>8, <3>1, <4>2 DEF PodLabel
      <3>2. CASE ~Exists(NameOf(r))
        BY <1>8, <3>2, ReqType DEF PodLabel, Answers
      <3>. QED  BY <3>1, <3>2
    <2>. QED  BY <1>8, <2>1 DEF PodLabel
  <1>9. ASSUME NEW r \in Requests, RemoveStale(r) PROVE TypeOK'
    <2>1. req' \in [Requests -> ReqRec]
      BY <1>9, ReqType DEF RemoveStale, ReqStates
    <2>2. cont' \in [Names -> ContRec] /\ inside' \in [Requests -> SUBSET Keys]
      BY <1>9, NameOfIn, RemovedType DEF RemoveStale
    <2>. QED  BY <1>9, <2>1, <2>2 DEF RemoveStale
  <1>10. ASSUME NEW r \in Requests, Create(r) PROVE TypeOK'
    <2>1. req' \in [Requests -> ReqRec]
      BY <1>10, ReqType DEF Create, ReqStates, Answers
    <2>2. cont' \in [Names -> ContRec] /\ inside' = inside /\ clock' \in Nat
      <3>. DEFINE c == [id |-> r, running |-> FALSE, born |-> clock + 1]
      <3>1. c \in ContRec
        BY DEF ContRec
      <3>2. CASE Exists(NameOf(r))
        BY <1>10, <3>2 DEF Create
      <3>3. CASE ~Exists(NameOf(r))
        <4>1. cont' = [cont EXCEPT ![NameOf(r)] = c] /\ inside' = inside /\ clock' = clock + 1
          BY <1>10, <3>3 DEF Create
        <4>. HIDE DEF c
        <4>2. cont' \in [Names -> ContRec]
          BY <3>1, <4>1
        <4>. QED  BY <4>1, <4>2
      <3>. QED  BY <3>2, <3>3
    <2>3. faults' \in Nat
      BY <1>10 DEF Create, Fault
    <2>. QED  BY <1>10, <2>1, <2>2, <2>3 DEF Create
  <1>11. ASSUME NEW r \in Requests, StartContainer(r) PROVE TypeOK'
    <2>1. req' \in [Requests -> ReqRec]
      <3>1. [req[r] EXCEPT !.pc = "post", !.host = r] \in ReqRec
        BY ReqUpdates DEF ReqStates
      <3>. QED  BY <1>11, <3>1 DEF StartContainer
    <2>2. cont' \in [Names -> ContRec]
      BY <1>11, StoppedType, NameOfIn DEF StartContainer
    <2>3. sup' \in [Requests -> SupRec]
      <3>1. [NoSup EXCEPT !.pc = "age", !.keep = NameOf(r)] \in SupRec
        BY <1>11, NameOfIn DEF StartContainer, NoSup, SupRec, SupStates
      <3>. QED  BY <1>11, <3>1 DEF StartContainer
    <2>4. spared' \subseteq Requests \cup {Nobody}
      BY <1>11, NameOfIn DEF StartContainer, ContRec
    <2>. QED  BY <1>11, <2>1, <2>2, <2>3, <2>4 DEF StartContainer
  <1>12. ASSUME NEW r \in Requests, StartFails(r) PROVE TypeOK'
    <2>1. req' \in [Requests -> ReqRec]
      BY <1>12, ReqType DEF StartFails, ReqStates
    <2>. QED  BY <1>12, <2>1 DEF StartFails, Fault
  <1>13. ASSUME NEW r \in Requests, RemoveFailed(r) PROVE TypeOK'
    <2>1. req' \in [Requests -> ReqRec]
      BY <1>13, ReqType DEF RemoveFailed, Answers
    <2>2. cont' \in [Names -> ContRec] /\ inside' \in [Requests -> SUBSET Keys]
      BY <1>13, NameOfIn, RemovedType DEF RemoveFailed
    <2>. QED  BY <1>13, <2>1, <2>2 DEF RemoveFailed
  <1>14. ASSUME NEW r \in Requests, Post(r) PROVE TypeOK'
    <2>1. req' \in [Requests -> ReqRec]
      BY <1>14, ReqType DEF Post, Answers
    <2>2. inside' \in [Requests -> SUBSET Keys]
      <3>1. Key(r) \in Keys
        BY <1>14 DEF Post, LockInv, Active, Key
      <3>. QED  BY <1>14, <3>1 DEF Post
    <2>3. faults' \in Nat
      BY <1>14 DEF Post, Fault
    <2>. QED  BY <1>14, <2>1, <2>2, <2>3 DEF Post
  <1>15. ASSUME NEW r \in Requests, PostFails(r) PROVE TypeOK'
    <2>1. req' \in [Requests -> ReqRec]
      BY <1>15, ReqType DEF PostFails, Answers
    <2>. QED  BY <1>15, <2>1 DEF PostFails, Fault
  <1>16. ASSUME NEW r \in Requests, Fails(r) PROVE TypeOK'
    <2>1. req' \in [Requests -> ReqRec]
      BY <1>16, ReqType DEF Fails, Answers
    <2>. QED  BY <1>16, <2>1 DEF Fails, Fault
  <1>a. AllPods \in SUBSET Names
    BY NamesFacts DEF AllPods
  <1>b. NoSup \in SupRec
    BY DEF NoSup, SupRec, SupStates
  <1>17. ASSUME NEW r \in Requests, SupAge(r) PROVE TypeOK'
    <2>1. CASE /\ Exists(sup[r].keep)
               /\ sup' = [sup EXCEPT ![r].pc = "list", ![r].born = cont[sup[r].keep].born]
               /\ UNCHANGED <<spared, faults>>
      <3>1. cont[sup[r].keep].born \in Nat
        BY <1>17 DEF SupAge, SupInv, SupOK, ContRec
      <3>2. [sup[r] EXCEPT !.pc = "list", !.born = cont[sup[r].keep].born] \in SupRec
        <4>1. sup[r].keep \in Names
          BY <1>17 DEF SupAge, SupInv, SupOK
        <4>. QED  BY <3>1, <4>1, SupUpdates
      <3>. QED  BY <1>17, <2>1, <3>2 DEF SupAge
    <2>2. CASE sup' = [sup EXCEPT ![r] = NoSup] /\ Fault /\ Spare(AllPods, cont[sup[r].keep].born)
      <3>1. spared' \subseteq Requests \cup {Nobody} /\ faults' \in Nat
        BY <1>a, <2>2, SpareType DEF Fault, TypeOK
      <3>. QED  BY <1>17, <1>b, <2>2, <3>1 DEF SupAge
    <2>3. CASE sup' = [sup EXCEPT ![r] = NoSup] /\ UNCHANGED <<spared, faults>>
      BY <1>17, <1>b, <2>3 DEF SupAge
    <2>. QED  BY <1>17, <2>1, <2>2, <2>3 DEF SupAge
  <1>18. ASSUME NEW r \in Requests, SupList(r) PROVE TypeOK'
    <2>. DEFINE todo == {n \in AllPods : Running(n)} \ {sup[r].keep}
    <2>1. CASE sup' = [sup EXCEPT ![r].pc = "loop", ![r].todo = todo] /\ UNCHANGED <<spared, faults>>
      <3>1. todo \in SUBSET Names
        BY <1>a
      <3>. HIDE DEF todo
      <3>2. [sup[r] EXCEPT !.pc = "loop", !.todo = todo] \in SupRec
        <4>1. ASSUME NEW g \in SupRec, NEW t \in SUBSET Names
              PROVE  [g EXCEPT !.pc = "loop", !.todo = t] \in SupRec
          BY <4>1 DEF SupRec, SupStates
        <4>. QED  BY <3>1, <4>1
      <3>3. sup' \in [Requests -> SupRec]
        BY <2>1, <3>2
      <3>. QED  BY <1>18, <2>1, <3>3 DEF SupList
    <2>2. CASE Fault /\ Spare(AllPods, sup[r].born) /\ sup' = [sup EXCEPT ![r] = NoSup]
      <3>1. spared' \subseteq Requests \cup {Nobody} /\ faults' \in Nat
        BY <1>a, <2>2, SpareType DEF Fault, TypeOK
      <3>. QED  BY <1>18, <1>b, <2>2, <3>1 DEF SupList
    <2>. QED  BY <1>18, <2>1, <2>2 DEF SupList
  <1>19. ASSUME NEW r \in Requests, SupCheck(r) PROVE TypeOK'
    <2>1. PICK n \in sup[r].todo :
            \/ /\ sup' = IF Exists(n) /\ cont[n].born < sup[r].born
                     THEN [sup EXCEPT ![r].pc = "stop", ![r].cur = n, ![r].seen = cont[n].id]
                     ELSE [sup EXCEPT ![r].todo = @ \ {n}]
               /\ UNCHANGED <<spared, faults>>
            \/ /\ Fault /\ Spare({n}, sup[r].born)
               /\ sup' = [sup EXCEPT ![r].todo = @ \ {n}]
      BY <1>19 DEF SupCheck
    <2>2. n \in Names
      BY DEF SupRec
    <2>3. [sup[r] EXCEPT !.pc = "stop", !.cur = n, !.seen = cont[n].id] \in SupRec
      <3>1. cont[n].id \in Requests \cup {Nobody}
        BY <2>2 DEF ContRec
      <3>. QED  BY <2>2, <3>1, SupUpdates
    <2>4. [sup[r] EXCEPT !.todo = @ \ {n}] \in SupRec
      BY <2>2, SupUpdates
    <2>5. sup' \in [Requests -> SupRec]
      BY <2>1, <2>3, <2>4
    <2>6. spared' \subseteq Requests \cup {Nobody} /\ faults' \in Nat
      <3>1. CASE UNCHANGED <<spared, faults>>
        BY <3>1 DEF TypeOK
      <3>2. CASE Fault /\ Spare({n}, sup[r].born)
        <4>1. {n} \in SUBSET Names
          BY <2>2
        <4>. QED  BY <3>2, <4>1, SpareType DEF Fault, TypeOK
      <3>. QED  BY <2>1, <3>1, <3>2
    <2>. QED  BY <1>19, <2>5, <2>6 DEF SupCheck
  <1>20. ASSUME NEW r \in Requests, SupStop(r) PROVE TypeOK'
    <2>1. sup' \in [Requests -> SupRec]
      <3>1. [sup[r] EXCEPT !.pc = "rm"] \in SupRec
        <4>1. sup[r].cur \in Names
          BY <1>20 DEF SupStop, SupInv, SupOK
        <4>. QED  BY <4>1, SupUpdates
      <3>. QED  BY <1>20, <3>1 DEF SupStop
    <2>2. cont' \in [Names -> ContRec] /\ inside' \in [Requests -> SUBSET Keys]
      <3>1. sup[r].cur \in Names
        BY <1>20 DEF SupStop, SupInv, SupOK
      <3>. QED  BY <1>20, <3>1, StoppedType DEF SupStop
    <2>3. robbed' \in BOOLEAN
      BY <1>20 DEF SupStop, Taken
    <2>. QED  BY <1>20, <2>1, <2>2, <2>3 DEF SupStop
  <1>21. ASSUME NEW r \in Requests, SupRemove(r) PROVE TypeOK'
    <2>1. sup' \in [Requests -> SupRec]
      <3>1. [sup[r] EXCEPT !.pc = "loop", !.todo = @ \ {sup[r].cur}, !.cur = <<>>,
                           !.seen = Nobody] \in SupRec
        <4>1. sup[r].cur \in Names
          BY <1>21 DEF SupRemove, SupInv, SupOK
        <4>. QED  BY <4>1, SupUpdates
      <3>. QED  BY <1>21, <3>1 DEF SupRemove
    <2>2. cont' \in [Names -> ContRec] /\ inside' \in [Requests -> SUBSET Keys]
      BY <1>21, RemovedType DEF SupRemove, SupInv, SupOK
    <2>3. robbed' \in BOOLEAN
      BY <1>21 DEF SupRemove, Taken
    <2>4. spared' \subseteq Requests \cup {Nobody} /\ faults' \in Nat
      <3>1. CASE UNCHANGED <<spared, faults>>
        BY <3>1 DEF TypeOK
      <3>2. CASE Fault /\ Spare({sup[r].cur}, sup[r].born)
        <4>1. {sup[r].cur} \in SUBSET Names
          BY <1>21 DEF SupRemove, SupInv, SupOK
        <4>. QED  BY <3>2, <4>1, SpareType DEF Fault, TypeOK
      <3>. QED  BY <1>21, <3>1, <3>2 DEF SupRemove
    <2>. QED  BY <1>21, <2>1, <2>2, <2>3, <2>4 DEF SupRemove
  <1>22. ASSUME NEW r \in Requests, SupEnds(r) PROVE TypeOK'
    <2>1. NoSup \in SupRec
      BY DEF NoSup, SupRec, SupStates
    <2>2. spared' \subseteq Requests \cup {Nobody}
      <3>1. sup[r].todo \in SUBSET Names
        BY DEF SupRec
      <3>2. CASE Spare(sup[r].todo, sup[r].born)
        BY <3>1, <3>2, SpareType DEF TypeOK
      <3>. QED  BY <1>22, <3>2 DEF SupEnds
    <2>3. faults' \in Nat
      BY <1>22 DEF SupEnds, Fault
    <2>. QED  BY <1>22, <2>1, <2>2, <2>3 DEF SupEnds
  <1>23. CASE Retag
    BY <1>23 DEF Retag
  <1>24. ASSUME NEW n \in Names, Crash(n) PROVE TypeOK'
    <2>1. cont' \in [Names -> ContRec] /\ inside' \in [Requests -> SUBSET Keys]
      BY <1>24, StoppedType DEF Crash
    <2>. QED  BY <1>24, <2>1 DEF Crash, Fault
  <1>25. CASE UNCHANGED vars
    BY <1>25 DEF vars
  <1>. QED
    BY <1>1, <1>2, <1>3, <1>4, <1>5, <1>6, <1>7, <1>8, <1>9, <1>10, <1>11, <1>12, <1>13, <1>14,
       <1>15, <1>16, <1>17, <1>18, <1>19, <1>20, <1>21, <1>22, <1>23, <1>24, <1>25
       DEF Next, Request, Supersede

-----------------------------------------------------------------------------
(* The keyed mutex.                                                         *)

\* A step that leaves the keyed mutex alone: requests at most move on at work.
Inside ==
  /\ UNCHANGED keyed
  /\ \A s \in Requests : req'[s].key = req[s].key /\ req'[s].lock = req[s].lock
  /\ \A s \in Requests : req'[s].pc = req[s].pc \/ (Working(s) /\ Working(s)')

LEMMA LockInit == Init => LockInv
  <1>. SUFFICES ASSUME Init PROVE LockInv
    OBVIOUS
  <1>1. \A l \in Requests : Users(l) = {} /\ refs[l] = 0
    BY NobodyFact DEF Init, Users, NoReq
  <1>2. \A l \in Requests : IsFiniteSet(Users(l)) /\ refs[l] = Cardinality(Users(l))
    BY <1>1, FS_EmptySet
  <1>3. \A r \in Requests : req[r] = NoReq
    BY DEF Init
  <1>. QED  BY <1>2, <1>3, NobodyFact DEF Init, LockInv, Active, Working, NoReq

LEMMA LockInside ==
  ASSUME LockInv, Inside
  PROVE  LockInv'
  <1>. USE DEF Inside, keyed
  <1>1. \A l \in Requests : Users(l)' = Users(l)
    BY DEF Users
  <1>2. \A r \in Requests : /\ Active(r)' = Active(r)
                            /\ Working(r)' = Working(r)
                            /\ (req'[r].pc = "idle") = (req[r].pc = "idle")
    BY DEF Active, Working
  <1>3. (\A l \in Requests : IsFiniteSet(Users(l)) /\ refs[l] = Cardinality(Users(l)))'
    BY <1>1 DEF LockInv
  <1>4. (\A r \in Requests : Active(r) =>
           req[r].key \in Keys /\ req[r].lock \in Requests /\ locks[req[r].key] = req[r].lock)'
    BY <1>2 DEF LockInv
  <1>5. (\A r \in Requests : ~Active(r) => req[r].lock = Nobody)'
    BY <1>2 DEF LockInv
  <1>6. (\A r \in Requests : req[r].pc = "idle" =>
           (\A s \in Requests : req[s].lock # r) /\ (\A k \in Keys : locks[k] # r))'
    BY <1>2 DEF LockInv
  <1>7. (\A r \in Requests : Working(r) => holder[req[r].lock] = r)'
    BY <1>2 DEF LockInv
  <1>. QED  BY <1>3, <1>4, <1>5, <1>6, <1>7 DEF LockInv

\* Everything a request does between taking the lock and giving it back.
LEMMA InsideStep ==
  ASSUME TypeOK, LockInv, NEW r \in Requests,
         \/ Lookup(r) \/ ClearOwn(r) \/ PodState(r) \/ PodLabel(r) \/ RemoveStale(r)
         \/ Create(r) \/ StartContainer(r) \/ StartFails(r) \/ RemoveFailed(r)
         \/ Post(r) \/ PostFails(r) \/ Fails(r)
  PROVE  Inside
  <1>0. req \in [Requests -> ReqRec] /\ \A s \in Requests : req[s] \in ReqRec
    BY DEF TypeOK
  <1>. USE <1>0 DEF Inside, At, Goto, Answer, Working, ReqRec
  <1>1. CASE Lookup(r)
    BY <1>1 DEF Lookup
  <1>2. CASE ClearOwn(r)
    BY <1>2 DEF ClearOwn
  <1>3. CASE PodState(r)
    BY <1>3 DEF PodState
  <1>4. CASE PodLabel(r)
    BY <1>4 DEF PodLabel
  <1>5. CASE RemoveStale(r)
    BY <1>5 DEF RemoveStale
  <1>6. CASE Create(r)
    BY <1>6 DEF Create
  <1>7. CASE StartContainer(r)
    BY <1>7 DEF StartContainer
  <1>8. CASE StartFails(r)
    BY <1>8 DEF StartFails
  <1>9. CASE RemoveFailed(r)
    BY <1>9 DEF RemoveFailed
  <1>10. CASE Post(r)
    BY <1>10 DEF Post
  <1>11. CASE PostFails(r)
    BY <1>11 DEF PostFails
  <1>12. CASE Fails(r)
    BY <1>12 DEF Fails
  <1>. QED  BY <1>1, <1>2, <1>3, <1>4, <1>5, <1>6, <1>7, <1>8, <1>9, <1>10, <1>11, <1>12

LEMMA LockStep ==
  ASSUME TypeOK, LockInv, [Next]_vars
  PROVE  LockInv'
  <1>. USE DEF At, keyed, docker, world, history
  <1>0. /\ locks \in [Keys -> Requests \cup {Nobody}] /\ refs \in [Requests -> Nat]
        /\ holder \in [Requests -> Requests \cup {Nobody}]
        /\ req \in [Requests -> ReqRec] /\ \A s \in Requests : req[s] \in ReqRec
    BY DEF TypeOK
  <1>1. ASSUME NEW r \in Requests, Lock(r) PROVE LockInv'
    <2>0. PICK p \in BOOLEAN, k \in Keys :
            LET l == IF locks[k] = Nobody THEN r ELSE locks[k]
            IN /\ locks' = [locks EXCEPT ![k] = l]
               /\ refs' = [refs EXCEPT ![l] = @ + 1]
               /\ req' = [req EXCEPT ![r].pc = "wait", ![r].key = k, ![r].packed = p, ![r].lock = l]
      BY <1>1 DEF Lock
    <2>a. PICK l \in Requests : l = IF locks[k] = Nobody THEN r ELSE locks[k]
      BY <1>0
    <2>1. /\ locks' = [locks EXCEPT ![k] = l]
          /\ refs' = [refs EXCEPT ![l] = @ + 1]
          /\ (locks[k] = Nobody => l = r) /\ (locks[k] # Nobody => l = locks[k])
          /\ \A s \in Requests : s # r => req'[s] = req[s]
          /\ req'[r].pc = "wait" /\ req'[r].key = k /\ req'[r].lock = l
      BY <1>0, <2>0, <2>a DEF ReqRec
    <2>2. holder' = holder /\ req[r].pc = "idle" /\ req[r].lock = Nobody
      BY <1>1 DEF Lock, LockInv, Active
    <2>3. \A s \in Requests : Active(s) => locks[req[s].key] \in Requests
      BY DEF LockInv
    <2>4. (\A s \in Requests : Active(s) =>
             req[s].key \in Keys /\ req[s].lock \in Requests /\ locks[req[s].key] = req[s].lock)'
      <3>1. ASSUME NEW s \in Requests, s # r, Active(s)'
            PROVE  (req[s].key \in Keys /\ req[s].lock \in Requests
                      /\ locks[req[s].key] = req[s].lock)'
        BY <1>0, <2>1, <2>3, <3>1, NobodyFact DEF LockInv, Active
      <3>. QED  BY <1>0, <2>1, <3>1
    <2>5. (\A s \in Requests : ~Active(s) => req[s].lock = Nobody)'
      BY <2>1 DEF LockInv, Active
    <2>6. (\A s \in Requests : req[s].pc = "idle" =>
             (\A q \in Requests : req[q].lock # s) /\ (\A j \in Keys : locks[j] # s))'
      <3>. SUFFICES ASSUME NEW s \in Requests, req'[s].pc = "idle"
                    PROVE  (\A q \in Requests : req'[q].lock # s) /\ (\A j \in Keys : locks'[j] # s)
        OBVIOUS
      <3>1. s # r /\ req[s].pc = "idle"
        BY <2>1
      <3>2. l # s
        BY <2>1, <3>1 DEF LockInv
      <3>. QED  BY <1>0, <2>1, <3>1, <3>2 DEF LockInv
    <2>7. (\A m \in Requests : IsFiniteSet(Users(m)) /\ refs[m] = Cardinality(Users(m)))'
      <3>1. Users(l)' = Users(l) \cup {r} /\ r \notin Users(l)
        BY <2>1, <2>2, NobodyFact DEF Users
      <3>2. ASSUME NEW m \in Requests, m # l PROVE Users(m)' = Users(m) /\ refs'[m] = refs[m]
        BY <1>0, <2>1, <2>2, <3>2, NobodyFact DEF Users
      <3>3. IsFiniteSet(Users(l)') /\ refs'[l] = Cardinality(Users(l)')
        <4>1. IsFiniteSet(Users(l)) /\ refs[l] = Cardinality(Users(l))
          BY DEF LockInv
        <4>2. refs'[l] = refs[l] + 1
          BY <1>0, <2>1
        <4>. QED  BY <3>1, <4>1, <4>2, FS_AddElement
      <3>. QED  BY <3>2, <3>3 DEF LockInv
    <2>8. (\A s \in Requests : Working(s) => holder[req[s].lock] = s)'
      BY <2>1, <2>2 DEF LockInv, Working
    <2>. QED  BY <2>4, <2>5, <2>6, <2>7, <2>8 DEF LockInv
  <1>2. ASSUME NEW r \in Requests, Acquire(r) PROVE LockInv'
    <2>1. /\ \A s \in Requests : s # r => req'[s] = req[s]
          /\ req[r].pc = "wait" /\ req'[r].pc = "lookup"
          /\ req'[r].key = req[r].key /\ req'[r].lock = req[r].lock
          /\ holder[req[r].lock] = Nobody /\ holder' = [holder EXCEPT ![req[r].lock] = r]
          /\ locks' = locks /\ refs' = refs /\ req[r].lock \in Requests
      BY <1>0, <1>2 DEF Acquire, Goto, ReqRec, LockInv, Active
    <2>2. \A l \in Requests : Users(l)' = Users(l)
      BY <2>1 DEF Users
    <2>3. (\A s \in Requests : Working(s) => holder[req[s].lock] = s)'
      <3>. SUFFICES ASSUME NEW s \in Requests, Working(s)', s # r
                    PROVE  holder'[req[s].lock] = s
        BY <1>0, <2>1
      <3>1. holder[req[s].lock] = s /\ req[s].lock \in Requests
        BY <2>1 DEF LockInv, Working, Active
      <3>. QED  BY <1>0, <2>1, <3>1, NobodyFact
    <2>. QED  BY <2>1, <2>2, <2>3 DEF LockInv, Active
  <1>3. ASSUME NEW r \in Requests, Unlock(r) PROVE LockInv'
    <2>1. /\ \A s \in Requests : s # r => req'[s] = req[s]
          /\ req[r].pc = "unlock" /\ req'[r].pc = "reclaim"
          /\ req'[r].key = req[r].key /\ req'[r].lock = req[r].lock
          /\ holder' = [holder EXCEPT ![req[r].lock] = Nobody]
          /\ locks' = locks /\ refs' = refs /\ req[r].lock \in Requests
          /\ holder[req[r].lock] = r
      BY <1>0, <1>3 DEF Unlock, Goto, ReqRec, LockInv, Active, Working
    <2>2. \A l \in Requests : Users(l)' = Users(l)
      BY <2>1 DEF Users
    <2>3. (\A s \in Requests : Working(s) => holder[req[s].lock] = s)'
      <3>. SUFFICES ASSUME NEW s \in Requests, Working(s)', s # r
                    PROVE  holder'[req[s].lock] = s
        BY <2>1 DEF Working
      <3>1. holder[req[s].lock] = s /\ req[s].lock \in Requests
        BY <2>1 DEF LockInv, Working, Active
      <3>. QED  BY <1>0, <2>1, <3>1
    <2>. QED  BY <2>1, <2>2, <2>3 DEF LockInv, Active
  <1>4. ASSUME NEW r \in Requests, Reclaim(r) PROVE LockInv'
    <2>a. PICK l \in Requests : l = req[r].lock
      BY <1>4 DEF Reclaim, LockInv, Active
    <2>1. /\ \A s \in Requests : s # r => req'[s] = req[s]
          /\ req[r].pc = "reclaim" /\ req'[r].pc = "done" /\ req'[r].lock = Nobody
          /\ refs' = [refs EXCEPT ![l] = @ - 1]
          /\ locks' = IF refs[l] = 1 THEN [locks EXCEPT ![req[r].key] = Nobody] ELSE locks
          /\ holder' = holder /\ req[r].key \in Keys
      BY <1>0, <1>4, <2>a DEF Reclaim, Key, NoReq, LockInv, Active
    <2>2. r \in Users(l) /\ IsFiniteSet(Users(l)) /\ refs[l] = Cardinality(Users(l))
      BY <2>1, <2>a DEF Users, LockInv
    <2>3. refs[l] = 1 => Users(l) = {r}
      <3>. SUFFICES ASSUME refs[l] = 1 PROVE Users(l) = {r}
        OBVIOUS
      <3>1. PICK x : Users(l) = {x}
        BY <2>2, FS_Singleton
      <3>. QED  BY <2>2, <3>1
    <2>4. (\A s \in Requests : Active(s) =>
             req[s].key \in Keys /\ req[s].lock \in Requests /\ locks[req[s].key] = req[s].lock)'
      <3>. SUFFICES ASSUME NEW s \in Requests, Active(s)', s # r
                    PROVE  req[s].key \in Keys /\ req[s].lock \in Requests
                             /\ locks'[req[s].key] = req[s].lock
        BY <2>1 DEF Active
      <3>1. Active(s) /\ req[s].key \in Keys /\ req[s].lock \in Requests
              /\ locks[req[s].key] = req[s].lock
        BY <2>1 DEF Active, LockInv
      <3>2. CASE refs[l] = 1
        <4>1. req[s].lock # l
          BY <2>3, <3>2 DEF Users
        <4>2. req[s].key # req[r].key
          BY <2>1, <2>a, <3>1, <4>1 DEF LockInv, Active
        <4>. QED  BY <1>0, <2>1, <3>1, <3>2, <4>2
      <3>3. CASE refs[l] # 1
        BY <2>1, <3>1, <3>3
      <3>. QED  BY <3>2, <3>3
    <2>5. (\A s \in Requests : ~Active(s) => req[s].lock = Nobody)'
      BY <2>1 DEF LockInv, Active
    <2>6. (\A s \in Requests : req[s].pc = "idle" =>
             (\A q \in Requests : req[q].lock # s) /\ (\A j \in Keys : locks[j] # s))'
      <3>. SUFFICES ASSUME NEW s \in Requests, req'[s].pc = "idle"
                    PROVE  (\A q \in Requests : req'[q].lock # s) /\ (\A j \in Keys : locks'[j] # s)
        OBVIOUS
      <3>1. s # r /\ req[s].pc = "idle"
        BY <2>1
      <3>. QED  BY <1>0, <2>1, <3>1, NobodyFact DEF LockInv
    <2>7. (\A m \in Requests : IsFiniteSet(Users(m)) /\ refs[m] = Cardinality(Users(m)))'
      <3>1. Users(l)' = Users(l) \ {r}
        BY <2>1, NobodyFact DEF Users
      <3>2. ASSUME NEW m \in Requests, m # l PROVE Users(m)' = Users(m) /\ refs'[m] = refs[m]
        BY <1>0, <2>1, <2>a, <3>2, NobodyFact DEF Users
      <3>3. IsFiniteSet(Users(l)') /\ refs'[l] = Cardinality(Users(l)')
        BY <1>0, <2>1, <2>2, <3>1, FS_RemoveElement
      <3>. QED  BY <3>2, <3>3 DEF LockInv
    <2>8. (\A s \in Requests : Working(s) => holder[req[s].lock] = s)'
      BY <2>1 DEF LockInv, Working
    <2>. QED  BY <2>4, <2>5, <2>6, <2>7, <2>8 DEF LockInv
  <1>5. ASSUME NEW r \in Requests,
               \/ Lookup(r) \/ ClearOwn(r) \/ PodState(r) \/ PodLabel(r) \/ RemoveStale(r)
               \/ Create(r) \/ StartContainer(r) \/ StartFails(r) \/ RemoveFailed(r)
               \/ Post(r) \/ PostFails(r) \/ Fails(r)
        PROVE  LockInv'
    BY <1>5, InsideStep, LockInside
  <1>6. ASSUME UNCHANGED <<keyed, req>> PROVE LockInv'
    BY <1>6, LockInside DEF Inside
  <1>7. ASSUME NEW r \in Requests, Supersede(r) PROVE LockInv'
    BY <1>6, <1>7 DEF Supersede, SupAge, SupList, SupCheck, SupStop, SupRemove, SupEnds
  <1>8. CASE Retag \/ \E n \in Names : Crash(n)
    BY <1>6, <1>8 DEF Retag, Crash
  <1>9. CASE UNCHANGED vars
    BY <1>6, <1>9 DEF vars
  <1>. QED
    BY <1>1, <1>2, <1>3, <1>4, <1>5, <1>7, <1>8, <1>9 DEF Next, Request

-----------------------------------------------------------------------------
(* Containers.                                                             *)

\* A request never goes back to before its docker create, or its start.
PcMono ==
  \A s \in Requests : (Past(s) => Past(s)') /\ (Settled(s) => Settled(s)')

LEMMA PcMonoStep ==
  ASSUME TypeOK, [Next]_vars
  PROVE  PcMono
  <1>0. req \in [Requests -> ReqRec] /\ \A s \in Requests : req[s] \in ReqRec
    BY DEF TypeOK
  <1>. USE <1>0 DEF PcMono, At, Goto, Answer, Past, Settled, ReqRec
  <1>1. ASSUME NEW r \in Requests, Lock(r) PROVE PcMono
    BY <1>1 DEF Lock
  <1>2. ASSUME NEW r \in Requests, Acquire(r) PROVE PcMono
    BY <1>2 DEF Acquire
  <1>3. ASSUME NEW r \in Requests, Unlock(r) PROVE PcMono
    BY <1>3 DEF Unlock
  <1>4. ASSUME NEW r \in Requests, Reclaim(r) PROVE PcMono
    BY <1>4 DEF Reclaim, NoReq
  <1>5. ASSUME NEW r \in Requests, Lookup(r) PROVE PcMono
    BY <1>5 DEF Lookup
  <1>6. ASSUME NEW r \in Requests, ClearOwn(r) PROVE PcMono
    BY <1>6 DEF ClearOwn
  <1>7. ASSUME NEW r \in Requests, PodState(r) PROVE PcMono
    BY <1>7 DEF PodState
  <1>8. ASSUME NEW r \in Requests, PodLabel(r) PROVE PcMono
    BY <1>8 DEF PodLabel
  <1>9. ASSUME NEW r \in Requests, RemoveStale(r) PROVE PcMono
    BY <1>9 DEF RemoveStale
  <1>10. ASSUME NEW r \in Requests, Create(r) PROVE PcMono
    BY <1>10 DEF Create
  <1>11. ASSUME NEW r \in Requests, StartContainer(r) PROVE PcMono
    BY <1>11 DEF StartContainer
  <1>12. ASSUME NEW r \in Requests, StartFails(r) PROVE PcMono
    BY <1>12 DEF StartFails
  <1>13. ASSUME NEW r \in Requests, RemoveFailed(r) PROVE PcMono
    BY <1>13 DEF RemoveFailed
  <1>14. ASSUME NEW r \in Requests, Post(r) PROVE PcMono
    BY <1>14 DEF Post
  <1>15. ASSUME NEW r \in Requests, PostFails(r) PROVE PcMono
    BY <1>15 DEF PostFails
  <1>16. ASSUME NEW r \in Requests, Fails(r) PROVE PcMono
    BY <1>16 DEF Fails
  <1>17. ASSUME UNCHANGED req PROVE PcMono
    BY <1>17
  <1>18. ASSUME NEW r \in Requests, Supersede(r) PROVE PcMono
    BY <1>17, <1>18 DEF Supersede, SupAge, SupList, SupCheck, SupStop, SupRemove, SupEnds
  <1>19. CASE Retag \/ \E n \in Names : Crash(n)
    BY <1>17, <1>19 DEF Retag, Crash
  <1>20. CASE UNCHANGED vars
    BY <1>17, <1>20 DEF vars
  <1>. HIDE DEF PcMono
  <1>. QED
    BY <1>1, <1>2, <1>3, <1>4, <1>5, <1>6, <1>7, <1>8, <1>9, <1>10, <1>11, <1>12, <1>13, <1>14, <1>15, <1>16, <1>18, <1>19, <1>20
       DEF Next, Request

\* The container of name n is the one it was.
Same(n) == Exists(n) /\ cont'[n].id = cont[n].id /\ cont'[n].born = cont[n].born

\* A step that brings no container into being ...
Kept == clock' = clock /\ \A n \in Names : Exists(n)' => Same(n)

\* ... and one that starts none.
Shrinks == \A n \in Names : Running(n)' => Running(n) /\ Same(n)

LEMMA RemovedShrinks ==
  ASSUME TypeOK, NEW n \in Names, Removed(n), clock' = clock
  PROVE  Kept /\ Shrinks /\ ~Exists(n)'
  BY DEF TypeOK, Removed, Kept, Shrinks, Same, Running, Exists

LEMMA StoppedShrinks ==
  ASSUME TypeOK, ContInv, NEW n \in Names, Running(n), clock' = clock,
         cont' = [cont EXCEPT ![n].running = FALSE]
  PROVE  Kept /\ Shrinks
  <1>1. \A m \in Names : /\ m # n => cont'[m] = cont[m]
                         /\ cont'[m].id = cont[m].id /\ cont'[m].born = cont[m].born
        /\ ~cont'[n].running
    BY DEF TypeOK, ContRec
  <1>. QED  BY <1>1 DEF Kept, Shrinks, Same, Running, Exists

LEMMA UntouchedShrinks ==
  ASSUME UNCHANGED <<cont, clock>>
  PROVE  Kept /\ Shrinks
  BY DEF Kept, Shrinks, Same, Running, Exists

\* What docker create does.
LEMMA CreateEffect ==
  ASSUME TypeOK, LockInv, NameInv, ContInv, NEW r \in Requests, Create(r)
  PROVE  \/ UNCHANGED <<cont, clock>>
         \/ /\ NameOf(r) \in Names /\ ~Exists(NameOf(r)) /\ clock' = clock + 1
            /\ cont'[NameOf(r)].id = r /\ cont'[NameOf(r)].born = clock + 1
            /\ ~cont'[NameOf(r)].running
            /\ \A n \in Names : n # NameOf(r) => cont'[n] = cont[n]
  <1>1. NameOf(r) \in Names
    BY NameOfIn DEF Create, At
  <1>2. cont \in [Names -> ContRec]
    BY DEF TypeOK
  <1>3. CASE Exists(NameOf(r))
    BY <1>3 DEF Create, docker
  <1>4. CASE ~Exists(NameOf(r))
    <2>1. /\ cont' = [cont EXCEPT ![NameOf(r)] =
                        [id |-> r, running |-> FALSE, born |-> clock + 1]]
          /\ clock' = clock + 1
      BY <1>4 DEF Create
    <2>. QED  BY <1>1, <1>2, <1>4, <2>1
  <1>. QED  BY <1>3, <1>4

\* What docker start does.
LEMMA StartEffect ==
  ASSUME TypeOK, LockInv, NameInv, ContInv, NEW r \in Requests, StartContainer(r)
  PROVE  /\ NameOf(r) \in Names /\ Exists(NameOf(r)) /\ Kept
         /\ \A n \in Names : n # NameOf(r) => cont'[n] = cont[n]
         /\ \A n \in Names : Exists(n)' => Same(n)
         /\ \A n \in Names : Same(n) \/ ~Exists(n)
  <1>1. NameOf(r) \in Names /\ Exists(NameOf(r)) /\ cont \in [Names -> ContRec]
    BY NameOfIn DEF StartContainer, At, TypeOK
  <1>2. /\ cont' = [cont EXCEPT ![NameOf(r)].running = TRUE] /\ clock' = clock
    BY DEF StartContainer
  <1>3. \A m \in Names : /\ m # NameOf(r) => cont'[m] = cont[m]
                         /\ cont'[m].id = cont[m].id /\ cont'[m].born = cont[m].born
    BY <1>1, <1>2 DEF ContRec
  <1>. QED  BY <1>1, <1>2, <1>3 DEF Kept, Same, Exists

\* Only docker create and docker start add to what exists and what runs.
LEMMA ShrinkStep ==
  ASSUME TypeOK, LockInv, NameInv, ContInv, SupInv, [Next]_vars,
         \A r \in Requests : ~Create(r) /\ ~StartContainer(r)
  PROVE  Kept /\ Shrinks
  <1>. USE DEF At, keyed, docker
  <1>1. ASSUME NEW r \in Requests,
               \/ Lock(r) \/ Acquire(r) \/ Unlock(r) \/ Reclaim(r) \/ Lookup(r) \/ PodState(r)
               \/ PodLabel(r) \/ StartFails(r) \/ Post(r) \/ PostFails(r) \/ Fails(r)
               \/ SupAge(r) \/ SupList(r) \/ SupCheck(r) \/ SupEnds(r)
        PROVE  Kept /\ Shrinks
    BY <1>1, UntouchedShrinks
       DEF Lock, Acquire, Unlock, Reclaim, Lookup, PodState, PodLabel, StartFails, Post,
           PostFails, Fails, SupAge, SupList, SupCheck, SupEnds
  <1>2. ASSUME NEW r \in Requests, ClearOwn(r) \/ RemoveStale(r) \/ RemoveFailed(r)
        PROVE  Kept /\ Shrinks
    BY <1>2, NameOfIn, RemovedShrinks DEF ClearOwn, RemoveStale, RemoveFailed
  <1>3. ASSUME NEW r \in Requests, SupStop(r) PROVE Kept /\ Shrinks
    <2>1. sup[r].cur \in Names
      BY <1>3 DEF SupStop, SupInv, SupOK
    <2>. QED  BY <1>3, <2>1, StoppedShrinks, UntouchedShrinks DEF SupStop
  <1>4. ASSUME NEW r \in Requests, SupRemove(r) PROVE Kept /\ Shrinks
    <2>1. sup[r].cur \in Names
      BY <1>4 DEF SupRemove, SupInv, SupOK
    <2>. QED  BY <1>4, <2>1, RemovedShrinks, UntouchedShrinks DEF SupRemove
  <1>5. CASE Retag \/ UNCHANGED vars
    BY <1>5, UntouchedShrinks DEF Retag, vars
  <1>6. ASSUME NEW n \in Names, Crash(n) PROVE Kept /\ Shrinks
    BY <1>6, StoppedShrinks DEF Crash
  <1>. QED  BY <1>1, <1>2, <1>3, <1>4, <1>5, <1>6 DEF Next, Request, Supersede

LEMMA NameStep ==
  ASSUME TypeOK, NameInv, [Next]_vars
  PROVE  NameInv'
  <1>0. req \in [Requests -> ReqRec] /\ tag \in Builds /\ \A s \in Requests : req[s] \in ReqRec
    BY DEF TypeOK
  <1>. USE <1>0 DEF NameInv, At, Goto, Answer, ReqRec
  <1>1. ASSUME NEW r \in Requests, Lock(r) PROVE NameInv'
    BY <1>1 DEF Lock
  <1>2. ASSUME NEW r \in Requests, Acquire(r) PROVE NameInv'
    BY <1>2 DEF Acquire
  <1>3. ASSUME NEW r \in Requests, Unlock(r) PROVE NameInv'
    BY <1>3 DEF Unlock
  <1>4. ASSUME NEW r \in Requests, Reclaim(r) PROVE NameInv'
    BY <1>4 DEF Reclaim, NoReq
  <1>5. ASSUME NEW r \in Requests, Lookup(r) PROVE NameInv'
    BY <1>5 DEF Lookup
  <1>6. ASSUME NEW r \in Requests, ClearOwn(r) PROVE NameInv'
    BY <1>6 DEF ClearOwn
  <1>7. ASSUME NEW r \in Requests, PodState(r) PROVE NameInv'
    BY <1>7 DEF PodState
  <1>8. ASSUME NEW r \in Requests, PodLabel(r) PROVE NameInv'
    BY <1>8 DEF PodLabel
  <1>9. ASSUME NEW r \in Requests, RemoveStale(r) PROVE NameInv'
    BY <1>9 DEF RemoveStale
  <1>10. ASSUME NEW r \in Requests, Create(r) PROVE NameInv'
    BY <1>10 DEF Create
  <1>11. ASSUME NEW r \in Requests, StartContainer(r) PROVE NameInv'
    BY <1>11 DEF StartContainer
  <1>12. ASSUME NEW r \in Requests, StartFails(r) PROVE NameInv'
    BY <1>12 DEF StartFails
  <1>13. ASSUME NEW r \in Requests, RemoveFailed(r) PROVE NameInv'
    BY <1>13 DEF RemoveFailed
  <1>14. ASSUME NEW r \in Requests, Post(r) PROVE NameInv'
    BY <1>14 DEF Post
  <1>15. ASSUME NEW r \in Requests, PostFails(r) PROVE NameInv'
    BY <1>15 DEF PostFails
  <1>16. ASSUME NEW r \in Requests, Fails(r) PROVE NameInv'
    BY <1>16 DEF Fails
  <1>17. ASSUME UNCHANGED req PROVE NameInv'
    BY <1>17
  <1>18. ASSUME NEW r \in Requests, Supersede(r) PROVE NameInv'
    BY <1>17, <1>18 DEF Supersede, SupAge, SupList, SupCheck, SupStop, SupRemove, SupEnds
  <1>19. CASE Retag \/ \E n \in Names : Crash(n)
    BY <1>17, <1>19 DEF Retag, Crash
  <1>20. CASE UNCHANGED vars
    BY <1>17, <1>20 DEF vars
  <1>. HIDE DEF NameInv
  <1>. QED
    BY <1>1, <1>2, <1>3, <1>4, <1>5, <1>6, <1>7, <1>8, <1>9, <1>10, <1>11, <1>12, <1>13, <1>14, <1>15, <1>16, <1>18, <1>19, <1>20
       DEF Next, Request

LEMMA ContStep ==
  ASSUME TypeOK, LockInv, NameInv, ContInv, SupInv, [Next]_vars
  PROVE  ContInv'
  <1>1. PcMono
    BY PcMonoStep
  <1>2. ASSUME Kept PROVE ContInv'
    <2>1. \A n \in Names : Exists(n)' => Same(n) /\ clock' = clock
      BY <1>2 DEF Kept
    <2>. QED  BY <1>1, <2>1 DEF ContInv, Same, PcMono
  <1>3. ASSUME NEW r \in Requests, StartContainer(r) PROVE ContInv'
    BY <1>2, <1>3, StartEffect
  <1>4. ASSUME NEW r \in Requests, Create(r) PROVE ContInv'
    <2>1. CASE UNCHANGED <<cont, clock>>
      BY <1>2, <2>1, UntouchedShrinks
    <2>2. CASE /\ NameOf(r) \in Names /\ ~Exists(NameOf(r)) /\ clock' = clock + 1
               /\ cont'[NameOf(r)].id = r /\ cont'[NameOf(r)].born = clock + 1
               /\ ~cont'[NameOf(r)].running
               /\ \A n \in Names : n # NameOf(r) => cont'[n] = cont[n]
      <3>. DEFINE m == NameOf(r)
      <3>1. ~Past(r) /\ Past(r)' /\ clock \in Nat
        <4>1. req[r].pc = "create" /\ clock \in Nat /\ req \in [Requests -> ReqRec]
                /\ req[r] \in ReqRec
          BY <1>4 DEF Create, At, TypeOK
        <4>2. req'[r].pc \in {"boot", "unlock"}
          BY <1>4, <4>1 DEF Create, Goto, Answer, ReqRec
        <4>. QED  BY <4>1, <4>2 DEF Past
      <3>2. \A n \in Names : n # m => Exists(n)' = Exists(n)
        BY <2>2 DEF Exists
      <3>3. \A n \in Names : n # m /\ Exists(n) =>
              /\ cont'[n].id \in Requests /\ cont'[n].id # r /\ Past(cont[n].id)'
              /\ cont'[n].born \in Nat /\ 1 <= cont'[n].born /\ cont'[n].born <= clock
        BY <1>1, <2>2, <3>1 DEF ContInv, PcMono, TypeOK, ContRec
      <3>. HIDE DEF m
      <3>4. (\A n \in Names : Exists(n) =>
               /\ cont[n].id \in Requests /\ Past(cont[n].id)
               /\ 1 <= cont[n].born /\ cont[n].born <= clock)'
        BY <2>2, <3>1, <3>2, <3>3 DEF m
      <3>5. (\A n, k \in Names : Exists(n) /\ Exists(k) /\ n # k =>
               cont[n].id # cont[k].id /\ cont[n].born # cont[k].born)'
        <4>. SUFFICES ASSUME NEW n \in Names, NEW k \in Names, Exists(n)', Exists(k)', n # k
                      PROVE  cont'[n].id # cont'[k].id /\ cont'[n].born # cont'[k].born
          OBVIOUS
        <4>1. CASE n # m /\ k # m
          BY <2>2, <3>2, <4>1 DEF ContInv, m
        <4>2. CASE n = m \/ k = m
          BY <2>2, <3>1, <3>2, <3>3, <4>2 DEF m
        <4>. QED  BY <4>1, <4>2
      <3>. QED  BY <3>4, <3>5 DEF ContInv
    <2>. QED  BY <1>4, <2>1, <2>2, CreateEffect
  <1>5. CASE \A r \in Requests : ~Create(r) /\ ~StartContainer(r)
    BY <1>2, <1>5, ShrinkStep
  <1>. QED  BY <1>3, <1>4, <1>5

-----------------------------------------------------------------------------
(* Supersession.                                                           *)

\* A goroutine that does not move keeps what it knows.
LEMMA SupKept ==
  ASSUME TypeOK, PcMono, NEW s \in Requests, SupOK(s), sup'[s] = sup[s],
         clock' \in Nat, clock <= clock',
         \A n \in Names : Exists(n)' => Same(n) \/ ~Past(cont'[n].id)
  PROVE  SupOK(s)'
  <1>1. sup[s].born \in Nat /\ clock \in Nat
    BY DEF TypeOK, SupRec
  <1>2. sup[s].pc # "none" => Settled(s)'
    BY DEF SupOK, PcMono
  <1>3. sup[s].pc \in {"list", "loop", "stop", "rm"} => sup[s].born <= clock'
    BY <1>1 DEF SupOK
  <1>4. ASSUME sup[s].pc \in {"stop", "rm"}
        PROVE  /\ sup[s].seen \in Requests /\ Past(sup[s].seen) /\ sup[s].cur \in Names
               /\ \A n \in Names : Exists(n) /\ cont[n].id = sup[s].seen =>
                    cont[n].born < sup[s].born
    BY <1>4 DEF SupOK
  <1>5. ASSUME sup[s].pc \in {"stop", "rm"}
        PROVE  /\ (\A q \in Requests : q = sup[s].seen => Past(q)')
               /\ \A n \in Names : Exists(n)' /\ cont'[n].id = sup[s].seen =>
                    cont'[n].born < sup[s].born
    BY <1>4, <1>5 DEF PcMono, Same
  <1>. QED  BY <1>2, <1>3, <1>4, <1>5 DEF SupOK, Past

LEMMA SupStep ==
  ASSUME TypeOK, LockInv, NameInv, ContInv, SupInv, [Next]_vars
  PROVE  SupInv'
  <1>. USE DEF At, keyed, docker
  <1>0. PcMono /\ sup \in [Requests -> SupRec] /\ clock \in Nat /\ cont \in [Names -> ContRec]
    BY PcMonoStep DEF TypeOK
  <1>1. ASSUME Kept, NEW s \in Requests, sup'[s] = sup[s] PROVE SupOK(s)'
    BY <1>0, <1>1, SupKept DEF Kept, SupInv
  <1>2. ASSUME NEW r \in Requests, Create(r) PROVE SupInv'
    <2>1. sup' = sup
      BY <1>2 DEF Create
    <2>2. CASE UNCHANGED <<cont, clock>>
      BY <1>1, <2>1, <2>2, UntouchedShrinks DEF SupInv
    <2>3. CASE /\ NameOf(r) \in Names /\ ~Exists(NameOf(r)) /\ clock' = clock + 1
               /\ cont'[NameOf(r)].id = r /\ cont'[NameOf(r)].born = clock + 1
               /\ ~cont'[NameOf(r)].running
               /\ \A n \in Names : n # NameOf(r) => cont'[n] = cont[n]
      <3>1. ~Past(r)
        BY <1>2 DEF Create, Past
      <3>2. \A n \in Names : Exists(n)' => Same(n) \/ ~Past(cont'[n].id)
        BY <2>3, <3>1 DEF Same, Exists
      <3>. QED  BY <1>0, <2>1, <2>3, <3>2, SupKept DEF SupInv
    <2>. QED  BY <1>2, <2>2, <2>3, CreateEffect
  <1>3. ASSUME NEW r \in Requests, StartContainer(r) PROVE SupInv'
    <2>1. Kept /\ NameOf(r) \in Names
      BY <1>3, StartEffect
    <2>2. \A s \in Requests : s # r => sup'[s] = sup[s]
      BY <1>0, <1>3 DEF StartContainer
    <2>3. sup'[r] = sup[r] \/ sup'[r] = [NoSup EXCEPT !.pc = "age", !.keep = NameOf(r)]
      BY <1>0, <1>3 DEF StartContainer
    <2>4. Settled(r)'
      BY <1>3 DEF StartContainer, Settled, TypeOK, ReqRec
    <2>5. SupOK(r)'
      <3>1. CASE sup'[r] = sup[r]
        BY <1>1, <2>1, <3>1
      <3>2. CASE sup'[r] = [NoSup EXCEPT !.pc = "age", !.keep = NameOf(r)]
        <4>1. sup'[r].pc = "age" /\ sup'[r].keep \in Names
          BY <2>1, <3>2 DEF NoSup
        <4>. QED  BY <2>4, <4>1 DEF SupOK
      <3>. QED  BY <2>3, <3>1, <3>2
    <2>. QED  BY <1>1, <2>1, <2>2, <2>5 DEF SupInv
  <1>4. CASE \A r \in Requests : ~Create(r) /\ ~StartContainer(r)
    <2>1. Kept
      BY <1>4, ShrinkStep
    <2>2. ASSUME UNCHANGED sup PROVE SupInv'
      BY <1>1, <2>1, <2>2 DEF SupInv
    <2>3. ASSUME NEW r \in Requests, \A s \in Requests : s # r => sup'[s] = sup[s], SupOK(r)'
          PROVE  SupInv'
      BY <1>1, <2>1, <2>3 DEF SupInv
    <2>a. ASSUME NEW r \in Requests, sup' = [sup EXCEPT ![r] = NoSup] PROVE SupInv'
      <3>1. (\A s \in Requests : s # r => sup'[s] = sup[s]) /\ sup'[r].pc = "none"
        BY <1>0, <2>a DEF NoSup
      <3>2. SupOK(r)'
        BY <3>1 DEF SupOK
      <3>. QED  BY <2>3, <3>1, <3>2
    <2>4. ASSUME NEW r \in Requests, SupAge(r) PROVE SupInv'
      <3>1. CASE Exists(sup[r].keep) /\ sup' = [sup EXCEPT ![r].pc = "list", ![r].born = cont[sup[r].keep].born]
        <4>1. \A s \in Requests : s # r => sup'[s] = sup[s]
          BY <1>0, <3>1
        <4>2. Settled(r)' /\ clock' = clock /\ sup[r].keep \in Names
          BY <1>0, <2>4 DEF SupAge, SupInv, SupOK, PcMono
        <4>3. sup'[r].pc = "list" /\ sup'[r].born = cont[sup[r].keep].born
          BY <1>0, <3>1 DEF SupRec
        <4>4. sup'[r].born <= clock'
          BY <3>1, <4>2, <4>3 DEF ContInv
        <4>5. SupOK(r)'
          BY <4>2, <4>3, <4>4 DEF SupOK
        <4>. QED  BY <2>3, <4>1, <4>5
      <3>. QED  BY <2>4, <2>a, <3>1 DEF SupAge
    <2>5. ASSUME NEW r \in Requests, SupList(r) PROVE SupInv'
      <3>. DEFINE todo == {n \in AllPods : Running(n)} \ {sup[r].keep}
      <3>1. CASE sup' = [sup EXCEPT ![r].pc = "loop", ![r].todo = todo]
        <4>. HIDE DEF todo
        <4>1. \A s \in Requests : s # r => sup'[s] = sup[s]
          BY <1>0, <3>1
        <4>2. sup[r] \in SupRec
          BY <1>0
        <4>3. sup'[r].pc = "loop" /\ sup'[r].born = sup[r].born
          BY <1>0, <3>1, <4>2 DEF SupRec
        <4>4. clock' = clock /\ Settled(r)' /\ sup[r].born <= clock
          BY <1>0, <2>5 DEF SupList, SupInv, SupOK, PcMono
        <4>5. SupOK(r)'
          BY <4>3, <4>4 DEF SupOK
        <4>. QED  BY <2>3, <4>1, <4>5
      <3>. QED  BY <2>5, <2>a, <3>1 DEF SupList
    <2>6. ASSUME NEW r \in Requests, SupCheck(r) PROVE SupInv'
      <3>1. \A s \in Requests : s # r => sup'[s] = sup[s]
        BY <1>0, <2>6 DEF SupCheck
      <3>2. /\ cont' = cont /\ clock' = clock /\ req' = req /\ sup[r] \in SupRec
            /\ Settled(r) /\ sup[r].born <= clock /\ sup[r].pc = "loop"
        BY <1>0, <2>6 DEF SupCheck, SupInv, SupOK
      <3>3. PICK n \in sup[r].todo :
              \/ sup' = IF Exists(n) /\ cont[n].born < sup[r].born
                       THEN [sup EXCEPT ![r].pc = "stop", ![r].cur = n, ![r].seen = cont[n].id]
                       ELSE [sup EXCEPT ![r].todo = @ \ {n}]
              \/ sup' = [sup EXCEPT ![r].todo = @ \ {n}]
        BY <2>6 DEF SupCheck
      <3>4. n \in Names
        BY <3>2 DEF SupRec
      <3>5. CASE /\ Exists(n) /\ cont[n].born < sup[r].born
                 /\ sup' = [sup EXCEPT ![r].pc = "stop", ![r].cur = n, ![r].seen = cont[n].id]
        <4>1. /\ sup'[r].pc = "stop" /\ sup'[r].cur = n /\ sup'[r].seen = cont[n].id
              /\ sup'[r].born = sup[r].born
          BY <1>0, <3>2, <3>3, <3>5 DEF SupRec
        <4>2. cont[n].id \in Requests /\ Past(cont[n].id)
          BY <3>4, <3>5 DEF ContInv
        <4>3. \A m \in Names : Exists(m) /\ cont[m].id = cont[n].id => cont[m].born < sup[r].born
          BY <3>4, <3>5 DEF ContInv
        <4>4. SupOK(r)'
          BY <3>2, <3>4, <4>1, <4>2, <4>3 DEF SupOK, Settled, Past, Exists
        <4>. QED  BY <2>3, <3>1, <4>4
      <3>6. CASE sup' = [sup EXCEPT ![r].todo = @ \ {n}]
        <4>1. sup'[r].pc = "loop" /\ sup'[r].born = sup[r].born
          BY <1>0, <3>2, <3>6 DEF SupRec
        <4>2. SupOK(r)'
          BY <3>2, <4>1 DEF SupOK, Settled
        <4>. QED  BY <2>3, <3>1, <4>2
      <3>. QED  BY <3>3, <3>5, <3>6
    <2>7. ASSUME NEW r \in Requests, SupStop(r) PROVE SupInv'
      <3>1. \A s \in Requests : s # r => sup'[s] = sup[s]
        BY <1>0, <2>7 DEF SupStop
      <3>2. /\ sup'[r].pc = "rm" /\ sup'[r].born = sup[r].born /\ sup'[r].cur = sup[r].cur
            /\ sup'[r].seen = sup[r].seen /\ clock' = clock /\ req' = req /\ sup[r].pc = "stop"
        <4>1. sup[r] \in SupRec
          BY <1>0
        <4>. QED  BY <1>0, <2>7, <4>1 DEF SupStop, SupRec
      <3>3. /\ sup[r].seen \in Requests /\ Past(sup[r].seen) /\ Settled(r)
            /\ sup[r].born <= clock /\ sup[r].cur \in Names
            /\ \A n \in Names : Exists(n) /\ cont[n].id = sup[r].seen =>
                 cont[n].born < sup[r].born
        BY <3>2 DEF SupInv, SupOK
      <3>4. \A n \in Names : Exists(n)' /\ cont'[n].id = sup[r].seen =>
                 cont'[n].born < sup[r].born
        BY <2>1, <3>3 DEF Kept, Same
      <3>5. SupOK(r)'
        BY <3>2, <3>3, <3>4 DEF SupOK, Past, Settled
      <3>. QED  BY <2>3, <3>1, <3>5
    <2>8. ASSUME NEW r \in Requests, SupRemove(r) PROVE SupInv'
      <3>1. \A s \in Requests : s # r => sup'[s] = sup[s]
        BY <1>0, <2>8 DEF SupRemove
      <3>2. /\ sup'[r].pc = "loop" /\ sup'[r].born = sup[r].born /\ clock' = clock
            /\ req' = req /\ sup[r].pc = "rm"
        <4>1. sup[r] \in SupRec
          BY <1>0
        <4>. QED  BY <1>0, <2>8, <4>1 DEF SupRemove, SupRec
      <3>3. SupOK(r)'
        BY <3>2 DEF SupInv, SupOK, Settled
      <3>. QED  BY <2>3, <3>1, <3>3
    <2>9. ASSUME NEW r \in Requests, SupEnds(r) PROVE SupInv'
      BY <2>9, <2>a DEF SupEnds
    <2>10. ASSUME NEW r \in Requests, Lock(r) \/ Request(r) PROVE SupInv'
      BY <1>4, <2>2, <2>10
         DEF Lock, Request, Acquire, Unlock, Reclaim, Lookup, ClearOwn, PodState, PodLabel,
             RemoveStale, StartFails, RemoveFailed, Post, PostFails, Fails
    <2>11. CASE Retag \/ (\E n \in Names : Crash(n)) \/ UNCHANGED vars
      BY <2>2, <2>11 DEF Retag, Crash, vars
    <2>. QED
      BY <2>4, <2>5, <2>6, <2>7, <2>8, <2>9, <2>10, <2>11 DEF Next, Supersede
  <1>. QED  BY <1>2, <1>3, <1>4

LEMMA RobbedStep ==
  ASSUME TypeOK, LockInv, NameInv, ContInv, SupInv, YoungestSurvives, [Next]_vars
  PROVE  YoungestSurvives'
  <1>. USE DEF YoungestSurvives, history
  <1>1. ASSUME NEW r \in Requests, sup[r].pc \in {"stop", "rm"}, Taken(r, sup[r].cur)
        PROVE  ~robbed'
    <2>1. /\ sup[r].cur \in Names /\ sup[r].born <= clock
          /\ \A n \in Names : Exists(n) /\ cont[n].id = sup[r].seen => cont[n].born < sup[r].born
      BY <1>1 DEF SupInv, SupOK
    <2>2. clock \in Nat /\ sup[r].born \in Nat /\ cont[sup[r].cur].born \in Nat
      BY <2>1 DEF TypeOK, SupRec, ContRec
    <2>3. ~(Running(sup[r].cur) /\ cont[sup[r].cur].id = sup[r].seen /\ cont[sup[r].cur].born = clock)
      BY <2>1, <2>2 DEF Running
    <2>. QED  BY <1>1, <2>3 DEF Taken
  <1>2. ASSUME NEW r \in Requests, SupStop(r) PROVE ~robbed'
    BY <1>1, <1>2 DEF SupStop
  <1>3. ASSUME NEW r \in Requests, SupRemove(r) PROVE ~robbed'
    BY <1>1, <1>3 DEF SupRemove
  <1>4. ASSUME NEW r \in Requests, Lock(r) \/ Request(r) PROVE ~robbed'
    BY <1>4
       DEF Lock, Request, Acquire, Unlock, Reclaim, Lookup, ClearOwn, PodState, PodLabel,
           RemoveStale, Create, StartContainer, StartFails, RemoveFailed, Post, PostFails, Fails
  <1>5. ASSUME NEW r \in Requests, SupAge(r) \/ SupList(r) \/ SupCheck(r) \/ SupEnds(r)
        PROVE  ~robbed'
    BY <1>5 DEF SupAge, SupList, SupCheck, SupEnds
  <1>6. CASE Retag \/ (\E n \in Names : Crash(n)) \/ UNCHANGED vars
    BY <1>6 DEF Retag, Crash, vars
  <1>. QED  BY <1>2, <1>3, <1>4, <1>5, <1>6 DEF Next, Supersede

-----------------------------------------------------------------------------
(* One pod per image reference.                                            *)

\* Two running pods, the first one older.
Pair(o, y) == Running(Pod(o)) /\ Running(Pod(y)) /\ cont[Pod(o)].born < cont[Pod(y)].born

LEMMA PairStep ==
  ASSUME TypeOK, LockInv, NameInv, ContInv, SupInv, PairInv, [Next]_vars
  PROVE  PairInv'
  <1>. USE DEF keyed, docker, history
  <1>. SUFFICES ASSUME NEW o \in Builds, NEW y \in Builds, Pair(o, y)', cont'[Pod(o)].id \notin spared'
                PROVE  \E r \in Requests : Doom(r, o, y)'
    BY DEF PairInv, Pair
  <1>0. /\ sup \in [Requests -> SupRec] /\ \A r \in Requests : sup[r] \in SupRec
        /\ cont \in [Names -> ContRec] /\ \A n \in Names : cont[n] \in ContRec
        /\ Pod(o) \in Names /\ Pod(y) \in Names /\ Pod(o) \in AllPods
    BY NamesFacts DEF TypeOK, AllPods
  <1>a. Pair(o, y) /\ cont[Pod(o)].id \notin spared => \E r \in Requests : Doom(r, o, y)
    BY DEF PairInv, Pair
  <1>b. ASSUME Shrinks PROVE Pair(o, y) /\ Same(Pod(o)) /\ Same(Pod(y))
    BY <1>0, <1>b DEF Shrinks, Pair, Same
  <1>1. ASSUME Shrinks, UNCHANGED <<sup, spared>> PROVE \E r \in Requests : Doom(r, o, y)'
    <2>1. PICK r \in Requests : Doom(r, o, y)
      BY <1>a, <1>b, <1>1 DEF Same
    <2>2. Doom(r, o, y)'
      BY <1>b, <1>1, <2>1 DEF Doom, Retires, Same
    <2>. QED  BY <2>2
  <1>2. ASSUME NEW q \in Requests, Create(q) PROVE \E r \in Requests : Doom(r, o, y)'
    <2>1. Shrinks
      <3>1. CASE UNCHANGED <<cont, clock>>
        BY <3>1, UntouchedShrinks
      <3>2. CASE /\ NameOf(q) \in Names
                 /\ ~cont'[NameOf(q)].running
                 /\ \A n \in Names : n # NameOf(q) => cont'[n] = cont[n]
        BY <3>2 DEF Shrinks, Same, Running, Exists
      <3>. QED  BY <1>2, <3>1, <3>2, CreateEffect
    <2>. QED  BY <1>1, <1>2, <2>1 DEF Create
  <1>3. ASSUME NEW q \in Requests, StartContainer(q) PROVE \E r \in Requests : Doom(r, o, y)'
    <2>1. /\ NameOf(q) \in Names /\ Exists(NameOf(q))
          /\ \A n \in Names : n # NameOf(q) => cont'[n] = cont[n]
          /\ \A n \in Names : Exists(n)' => Same(n)
      BY <1>3, StartEffect
    <2>2. Same(Pod(o)) /\ Same(Pod(y)) /\ cont[Pod(o)].born < cont[Pod(y)].born
      BY <1>0, <2>1 DEF Pair, Running, Same
    <2>3. cont[Pod(o)].id \notin spared
      BY <1>3, <2>2 DEF StartContainer, Same
    <2>4. sup[q].pc = "none"
      BY <1>3 DEF StartContainer, At, SupInv, SupOK, Settled
    <2>5. CASE req[q].packed
      <3>2. sup' = [sup EXCEPT ![q] = [NoSup EXCEPT !.pc = "age", !.keep = NameOf(q)]]
        BY <1>3, <2>5 DEF StartContainer
      <3>3. CASE NameOf(q) = Pod(y)
        <4>1. sup'[q].pc = "age" /\ sup'[q].keep = Pod(y)
          BY <1>0, <3>2, <3>3 DEF NoSup
        <4>. QED  BY <4>1 DEF Doom, Retires
      <3>1. CASE NameOf(q) = Pod(o)
        <4>1. Pod(y) # Pod(o) /\ Running(Pod(y)) /\ cont[Pod(y)].born > cont[Pod(o)].born
          <5>1. Pod(y) # Pod(o)
            BY <1>0, <2>2 DEF ContRec
          <5>2. cont'[Pod(y)] = cont[Pod(y)]
            BY <1>0, <2>1, <3>1, <5>1
          <5>. QED  BY <1>0, <2>2, <5>1, <5>2 DEF Pair, Running, Exists, ContRec
        <4>2. ~Missed(Pod(o))
          BY <1>3, <2>2, <2>5, <3>1 DEF StartContainer, Same
        <4>3. PICK s \in Requests : Retires(s, Pod(o), Pod(y))
          BY <4>1, <4>2 DEF Missed
        <4>4. s # q /\ sup'[s] = sup[s]
          BY <1>0, <2>4, <3>2, <4>3 DEF Retires
        <4>. QED  BY <2>2, <4>3, <4>4 DEF Doom, Retires, Same
      <3>4. CASE NameOf(q) # Pod(y) /\ NameOf(q) # Pod(o)
        <4>1. Pair(o, y)
          BY <1>0, <2>1, <2>2, <3>4 DEF Pair, Running, Exists
        <4>2. PICK r \in Requests : Doom(r, o, y)
          BY <1>a, <2>3, <4>1
        <4>3. r # q /\ sup'[r] = sup[r]
          BY <1>0, <2>4, <3>2, <4>2 DEF Doom, Retires
        <4>. QED  BY <2>2, <4>2, <4>3 DEF Doom, Retires, Same
      <3>. QED  BY <3>1, <3>3, <3>4
    <2>6. CASE ~req[q].packed
      <3>1. NameOf(q) # Pod(o) /\ NameOf(q) # Pod(y)
        <4>1. Key(q) \in Keys
          BY <1>3 DEF StartContainer, At, LockInv, Active, Key
        <4>. QED  BY <2>6, <4>1, NamesFacts DEF NameOf
      <3>2. Pair(o, y)
        BY <1>0, <2>1, <2>2, <3>1 DEF Pair, Running, Exists
      <3>3. PICK r \in Requests : Doom(r, o, y)
        BY <1>a, <2>3, <3>2
      <3>4. sup' = sup
        BY <1>3, <2>6 DEF StartContainer
      <3>. QED  BY <2>2, <3>3, <3>4 DEF Doom, Retires, Same
    <2>. QED  BY <2>5, <2>6
  <1>4. CASE \A q \in Requests : ~Create(q) /\ ~StartContainer(q)
    <2>1. Shrinks /\ Pair(o, y) /\ Same(Pod(o)) /\ Same(Pod(y))
      BY <1>4, <1>b, ShrinkStep
    <2>2. Running(Pod(o)) /\ Running(Pod(y)) /\ cont[Pod(o)].born < cont[Pod(y)].born
          /\ cont'[Pod(o)].born = cont[Pod(o)].born /\ Pod(o) # Pod(y)
          /\ Exists(Pod(o))' /\ cont[Pod(o)].born \in Nat /\ cont[Pod(y)].born \in Nat
      BY <1>0, <2>1 DEF Pair, Same, Running, ContRec
    \* What is left is the goroutine's own steps, when it is the one that dooms o.
    <2>3. ASSUME NEW q \in Requests, \A s \in Requests : s # q => sup'[s] = sup[s],
                 spared \subseteq spared', Doom(q, o, y) => Doom(q, o, y)'
          PROVE  \E r \in Requests : Doom(r, o, y)'
      <3>1. PICK r \in Requests : Doom(r, o, y)
        BY <1>a, <2>1, <2>3 DEF Same
      <3>2. CASE r = q
        BY <2>3, <3>1, <3>2
      <3>3. CASE r # q
        BY <2>2, <2>3, <3>1, <3>3 DEF Doom, Retires
      <3>. QED  BY <3>2, <3>3
    \* A goroutine that gives up has spared what it doomed.
    <2>a. ASSUME NEW names, NEW born, Spare(names, born), Pod(o) \in names
          PROVE  ~(cont[Pod(o)].born < born)
      BY <2>1, <2>2, <2>a DEF Spare, Same
    <2>b. ASSUME NEW names, NEW born, Spare(names, born) PROVE spared \subseteq spared'
      BY <2>b DEF Spare
    <2>c. ASSUME NEW q \in Requests, sup' = [sup EXCEPT ![q] = NoSup], spared \subseteq spared', ~Doom(q, o, y)
          PROVE  \E r \in Requests : Doom(r, o, y)'
      BY <1>0, <2>3, <2>c
    <2>4. ASSUME NEW q \in Requests, SupAge(q) PROVE \E r \in Requests : Doom(r, o, y)'
      <3>1. sup[q].pc = "age"
        BY <2>4 DEF SupAge
      <3>2. CASE /\ Exists(sup[q].keep) /\ UNCHANGED spared
                 /\ sup' = [sup EXCEPT ![q].pc = "list", ![q].born = cont[sup[q].keep].born]
        <4>1. \A s \in Requests : s # q => sup'[s] = sup[s]
          BY <1>0, <3>2
        <4>2. ASSUME sup[q].keep = Pod(y) PROVE Doom(q, o, y)'
          <5>1. sup'[q].pc = "list" /\ sup'[q].born = cont[Pod(y)].born /\ sup'[q].keep = Pod(y)
            BY <1>0, <3>2, <4>2 DEF SupRec
          <5>. QED  BY <2>2, <5>1 DEF Doom, Retires
        <4>. QED  BY <2>3, <3>1, <3>2, <4>1, <4>2 DEF Doom, Retires
      <3>3. CASE sup' = [sup EXCEPT ![q] = NoSup] /\ Spare(AllPods, cont[sup[q].keep].born)
        <4>1. ~Doom(q, o, y)
          BY <1>0, <2>2, <2>a, <3>1, <3>3 DEF Doom, Retires
        <4>. QED  BY <2>b, <2>c, <3>3, <4>1
      <3>4. CASE sup' = [sup EXCEPT ![q] = NoSup] /\ UNCHANGED spared /\ ~Exists(sup[q].keep)
        <4>1. ~Doom(q, o, y)
          BY <2>2, <3>1, <3>4 DEF Doom, Retires, Running
        <4>. QED  BY <2>c, <3>4, <4>1
      <3>. QED  BY <2>4, <3>2, <3>3, <3>4 DEF SupAge
    <2>5. ASSUME NEW q \in Requests, SupList(q) PROVE \E r \in Requests : Doom(r, o, y)'
      <3>. DEFINE todo == {n \in AllPods : Running(n)} \ {sup[q].keep}
      <3>1. sup[q].pc = "list"
        BY <2>5 DEF SupList
      <3>2. CASE sup' = [sup EXCEPT ![q].pc = "loop", ![q].todo = todo] /\ UNCHANGED spared
        <4>1. sup[q].keep # Pod(o) => Pod(o) \in todo
          BY <1>0, <2>2
        <4>. HIDE DEF todo
        <4>2. \A s \in Requests : s # q => sup'[s] = sup[s]
          BY <1>0, <3>2
        <4>3. ASSUME sup[q].keep # Pod(o), cont[Pod(o)].born < sup[q].born PROVE Doom(q, o, y)'
          <5>1. sup'[q].pc = "loop" /\ sup'[q].born = sup[q].born /\ sup'[q].todo = todo
            BY <1>0, <3>2 DEF SupRec
          <5>. QED  BY <2>2, <4>1, <4>3, <5>1 DEF Doom
        <4>. QED  BY <2>3, <3>1, <3>2, <4>2, <4>3 DEF Doom, Retires
      <3>3. CASE sup' = [sup EXCEPT ![q] = NoSup] /\ Spare(AllPods, sup[q].born)
        <4>1. ~Doom(q, o, y)
          BY <1>0, <2>2, <2>a, <3>1, <3>3 DEF Doom, Retires
        <4>. QED  BY <2>b, <2>c, <3>3, <4>1
      <3>. QED  BY <2>5, <3>2, <3>3 DEF SupList
    <2>6. ASSUME NEW q \in Requests, SupCheck(q) PROVE \E r \in Requests : Doom(r, o, y)'
      <3>1. sup[q].pc = "loop"
        BY <2>6 DEF SupCheck
      <3>2. PICK n \in sup[q].todo :
              \/ /\ sup' = IF Exists(n) /\ cont[n].born < sup[q].born
                       THEN [sup EXCEPT ![q].pc = "stop", ![q].cur = n, ![q].seen = cont[n].id]
                       ELSE [sup EXCEPT ![q].todo = @ \ {n}]
                 /\ UNCHANGED spared
              \/ /\ sup' = [sup EXCEPT ![q].todo = @ \ {n}]
                 /\ Spare({n}, sup[q].born)
        BY <2>6 DEF SupCheck
      <3>3. (\A s \in Requests : s # q => sup'[s] = sup[s]) /\ spared \subseteq spared'
        BY <1>0, <2>b, <3>2
      <3>4. ASSUME Pod(o) \in sup[q].todo, cont[Pod(o)].born < sup[q].born PROVE Doom(q, o, y)'
        <4>1. CASE sup' = [sup EXCEPT ![q].pc = "stop", ![q].cur = n, ![q].seen = cont[n].id]
          <5>1. sup'[q].pc = "stop" /\ sup'[q].born = sup[q].born /\ sup'[q].todo = sup[q].todo
            BY <1>0, <4>1 DEF SupRec
          <5>. QED  BY <2>2, <3>4, <5>1 DEF Doom
        <4>2. CASE sup' = [sup EXCEPT ![q].todo = @ \ {n}] /\ n # Pod(o)
          <5>1. sup'[q].pc = "loop" /\ sup'[q].born = sup[q].born
                /\ sup'[q].todo = sup[q].todo \ {n}
            BY <1>0, <3>1, <4>2 DEF SupRec
          <5>. QED  BY <2>2, <3>4, <4>2, <5>1 DEF Doom
        <4>3. CASE Spare({n}, sup[q].born) /\ n = Pod(o)
          BY <2>a, <3>4, <4>3
        <4>4. CASE ~(Exists(n) /\ cont[n].born < sup[q].born) /\ n = Pod(o)
          BY <2>2, <3>4, <4>4 DEF Running
        <4>. QED  BY <3>2, <4>1, <4>2, <4>3, <4>4
      <3>. QED  BY <2>3, <3>1, <3>3, <3>4 DEF Doom, Retires
    <2>7. ASSUME NEW q \in Requests, SupStop(q) PROVE \E r \in Requests : Doom(r, o, y)'
      <3>1. (\A s \in Requests : s # q => sup'[s] = sup[s]) /\ spared' = spared /\ sup[q].pc = "stop"
        BY <1>0, <2>7 DEF SupStop
      <3>2. sup'[q].pc = "rm" /\ sup'[q].born = sup[q].born /\ sup'[q].todo = sup[q].todo
        BY <1>0, <2>7 DEF SupStop, SupRec
      <3>. QED  BY <2>2, <2>3, <3>1, <3>2 DEF Doom, Retires
    <2>8. ASSUME NEW q \in Requests, SupRemove(q) PROVE \E r \in Requests : Doom(r, o, y)'
      <3>1. (\A s \in Requests : s # q => sup'[s] = sup[s]) /\ spared \subseteq spared' /\ sup[q].pc = "rm"
        BY <1>0, <2>8, <2>b DEF SupRemove
      <3>2. /\ sup'[q].pc = "loop" /\ sup'[q].born = sup[q].born
            /\ sup'[q].todo = sup[q].todo \ {sup[q].cur}
        BY <1>0, <2>8 DEF SupRemove, SupRec
      <3>3. sup[q].cur \in Names /\ clock' = clock
        BY <2>8, <3>1 DEF SupRemove, SupInv, SupOK
      <3>4. CASE Removed(sup[q].cur)
        <4>1. sup[q].cur # Pod(o)
          BY <2>2, <3>3, <3>4, RemovedShrinks
        <4>. QED  BY <2>2, <2>3, <3>1, <3>2, <4>1 DEF Doom, Retires
      <3>5. CASE Spare({sup[q].cur}, sup[q].born)
        <4>1. sup[q].cur = Pod(o) => ~(cont[Pod(o)].born < sup[q].born)
          BY <2>a, <3>5
        <4>. QED  BY <2>2, <2>3, <3>1, <3>2, <4>1 DEF Doom, Retires
      <3>. QED  BY <2>8, <3>4, <3>5 DEF SupRemove
    <2>9. ASSUME NEW q \in Requests, SupEnds(q) PROVE \E r \in Requests : Doom(r, o, y)'
      <3>1. sup' = [sup EXCEPT ![q] = NoSup] /\ sup[q].pc = "loop"
        BY <2>9 DEF SupEnds
      <3>2. CASE sup[q].todo = {} /\ UNCHANGED spared
        BY <2>c, <3>1, <3>2 DEF Doom, Retires
      <3>3. CASE Spare(sup[q].todo, sup[q].born)
        <4>1. ~Doom(q, o, y)
          BY <2>a, <3>1, <3>3 DEF Doom, Retires
        <4>. QED  BY <2>b, <2>c, <3>1, <3>3, <4>1
      <3>. QED  BY <2>9, <3>2, <3>3 DEF SupEnds
    <2>10. ASSUME NEW q \in Requests, Lock(q) \/ Request(q)
           PROVE  \E r \in Requests : Doom(r, o, y)'
      <3>1. UNCHANGED <<sup, spared>>
        BY <1>4, <2>10
           DEF Lock, Request, Acquire, Unlock, Reclaim, Lookup, ClearOwn, PodState, PodLabel,
               RemoveStale, StartFails, RemoveFailed, Post, PostFails, Fails
      <3>. QED  BY <1>1, <2>1, <3>1
    <2>11. CASE Retag \/ (\E n \in Names : Crash(n)) \/ UNCHANGED vars
      BY <1>1, <2>1, <2>11 DEF Retag, Crash, vars
    <2>. QED
      BY <2>4, <2>5, <2>6, <2>7, <2>8, <2>9, <2>10, <2>11 DEF Next, Supersede
  <1>. QED  BY <1>2, <1>3, <1>4

-----------------------------------------------------------------------------
(* The inductive invariant and what follows from it.                       *)

LEMMA InitInv == Init => IInv
  <1>. SUFFICES ASSUME Init PROVE IInv
    OBVIOUS
  <1>1. \A r \in Requests : req[r].pc = "idle" /\ sup[r].pc = "none"
    BY DEF Init, NoReq, NoSup
  <1>2. \A n \in Names : ~Exists(n)
    BY DEF Init, Exists
  <1>3. NameInv /\ ContInv /\ SupInv
    BY <1>1, <1>2 DEF NameInv, ContInv, SupInv, SupOK
  <1>4. YoungestSurvives
    BY DEF Init, YoungestSurvives
  <1>5. PairInv
    BY <1>2, NamesFacts DEF PairInv, Running
  <1>. QED  BY <1>3, <1>4, <1>5, TypeInit, LockInit DEF IInv

LEMMA StepInv == IInv /\ [Next]_vars => IInv'
  BY TypeStep, LockStep, NameStep, ContStep, SupStep, RobbedStep, PairStep DEF IInv

(* Every variable keeps its type: docker is only ever asked about names, and *)
(* no reference count goes below zero.                                       *)
THEOREM TypeCorrect == Spec => []TypeOK
  <1>1. IInv => TypeOK
    BY DEF IInv
  <1>. QED  BY <1>1, InitInv, StepInv, PTL DEF Spec

(* controller_handlers.go:21: whatever requests come and go, and however    *)
(* often a key's lock is thrown away and made anew, no two of them work on  *)
(* one key at the same time.                                                *)
THEOREM OneHolderHolds == Spec => []OneHolder
  <1>1. IInv => OneHolder
    <2>. SUFFICES ASSUME IInv, NEW r \in Requests, NEW s \in Requests, Working(r), Working(s),
                         Key(r) = Key(s)
                  PROVE  r = s
      BY DEF OneHolder
    <2>1. req[r].lock = req[s].lock
      BY DEF IInv, LockInv, Working, Active, Key
    <2>. QED  BY <2>1 DEF IInv, LockInv
  <1>. QED  BY <1>1, InitInv, StepInv, PTL DEF Spec

(* docker_runtime.go:637: a goroutine never takes the youngest pod out of   *)
(* service, provided the container is the one whose age it has read.        *)
THEOREM YoungestSurvivesHolds == Spec => []YoungestSurvives
  <1>1. IInv => YoungestSurvives
    BY DEF IInv
  <1>. QED  BY <1>1, InitInv, StepInv, PTL DEF Spec

(* docker_runtime.go:125: when requests and goroutines are done, one pod at *)
(* most runs, not counting those a goroutine passed over.                   *)
THEOREM OnePodPerRefHolds == Spec => []OnePodPerRef
  <1>1. IInv => OnePodPerRef
    <2>. DEFINE S == {b \in Builds : Running(Pod(b)) /\ cont[Pod(b)].id \notin spared}
    <2>. SUFFICES ASSUME IInv, Quiet
                  PROVE  Cardinality(S) <= 1
      BY DEF OnePodPerRef
    <2>1. \A r \in Requests, o, y \in Builds : ~Doom(r, o, y)
      BY DEF Quiet, Doom, Retires
    <2>2. ASSUME NEW o \in S, NEW y \in S PROVE o = y
      <3>1. cont[Pod(o)].born \in Nat /\ cont[Pod(y)].born \in Nat
        BY NamesFacts DEF IInv, TypeOK, ContRec
      <3>2. cont[Pod(o)].born = cont[Pod(y)].born
        BY <2>1, <3>1 DEF IInv, PairInv
      <3>3. Pod(o) = Pod(y)
        BY <3>2, NamesFacts DEF IInv, ContInv, Running
      <3>. QED  BY <3>3, NamesFacts
    <2>3. CASE S = {}
      BY <2>3, FS_EmptySet
    <2>4. CASE S # {}
      <3>1. PICK b \in S : TRUE
        BY <2>4
      <3>2. S = {b}
        BY <2>2
      <3>. HIDE DEF S
      <3>3. Cardinality(S) = 1
        BY <3>2, FS_Singleton
      <3>. QED  BY <3>3 DEF S
    <2>. QED  BY <2>3, <2>4
  <1>. QED  BY <1>1, InitInv, StepInv, PTL DEF Spec

-----------------------------------------------------------------------------
(***************************************************************************)
(* PodWatch: for any number of keys, creates and partitions and any sizes  *)
(* of the channels.                                                        *)
(*                                                                         *)
(* A transition is on its way to the consumer in one of five places, in    *)
(* the order the consumer will see them: the last word on a key is in the  *)
(* pod's channel, else on the wire, else in the reader's hand, else in the *)
(* output channel, else what the consumer already holds (Told).  Moving a  *)
(* transition along does not change the last word; publishing it and       *)
(* taking the snapshot do, and then it says what the pod's map says, or    *)
(* the key is astray.                                                      *)
(***************************************************************************)

UpMarks == {"start", "starting", "running"}
LastUp(q, k) ==
  \E i \in DOMAIN q : /\ q[i][1] = k /\ q[i][2] \in UpMarks
                      /\ \A j \in DOMAIN q : j > i => q[j][1] # k

\* The last word on a key that is on its way to the consumer, or its view.
Told(k) ==
  IF k \in KeysOf(ch) THEN LastUp(ch, k)
  ELSE IF k \in KeysOf(wire) THEN LastUp(wire, k)
  ELSE IF pc = "send" /\ pending[1] = k THEN pending[2] = "start"
  ELSE IF k \in KeysOf(out) THEN LastUp(out, k)
  ELSE view[k] = "start"

\* Only a connected reader has anything on the wire, and a handler that has
\* not taken its snapshot has written nothing.
StreamInv ==
  /\ pc \notin {"read", "send"} => sub = "none" /\ wire = <<>>
  /\ sub = "none" => ch = <<>>
  /\ sub = "subscribed" => wire = <<>>
  /\ pc = "send" => pending \in PodKeys \X Actions
  /\ pc # "send" => pending = <<>>

\* A pod that is not followed has no reader of its own any more.
DiscoveryInv == ~followed => pc = "none"

\* Where a sandbox is in the map, its create and its teardown agree.
SandboxInv ==
  \A k \in PodKeys :
    /\ creator[k] = "starting" => sb[k] = "starting"
    /\ teardown[k] \in {"stopping", "freeing"} <=> sb[k] = "stopping"

Following == alive /\ ~left /\ pc \notin {"destroying", "ended"}
IsUp(k) == sb[k] \in Ups
Published(k) == creator[k] # "starting" /\ teardown[k] # "stopping"
ToldInv == Following => \A k \in PodKeys \ astray : Published(k) => (Told(k) <=> IsUp(k))

WatchInv == WatchTypeOK /\ StreamInv /\ DiscoveryInv /\ SandboxInv /\ ToldInv

-----------------------------------------------------------------------------
(* The last word of a queue. *)

LEMMA IsASeq ==
  ASSUME NEW S, NEW n \in Nat, NEW f \in [1..n -> S]
  PROVE  f \in Seq(S)
  BY SMT

LEMMA LastOfAppend ==
  ASSUME NEW T, NEW q \in Seq(PodKeys \X T), NEW m \in PodKeys \X T
  PROVE  /\ Append(q, m) \in Seq(PodKeys \X T) /\ Len(Append(q, m)) = Len(q) + 1
         /\ KeysOf(Append(q, m)) = KeysOf(q) \cup {m[1]}
         /\ LastUp(Append(q, m), m[1]) <=> m[2] \in UpMarks
         /\ \A k : k # m[1] => (LastUp(Append(q, m), k) <=> LastUp(q, k))
  <1>. DEFINE n == Len(q)
              r == Append(q, m)
  <1>1. r \in Seq(PodKeys \X T) /\ Len(r) = n + 1 /\ n \in Nat
    OBVIOUS
  <1>2. DOMAIN q = 1..n /\ DOMAIN r = 1..(n + 1) /\ r[n + 1] = m /\ \A i \in 1..n : r[i] = q[i]
    OBVIOUS
  <1>. HIDE DEF n, r
  <1>3. KeysOf(r) = KeysOf(q) \cup {m[1]}
    <2>1. KeysOf(q) = {q[i][1] : i \in 1..n} /\ KeysOf(r) = {r[i][1] : i \in 1..(n + 1)}
      BY <1>2 DEF KeysOf
    <2>2. ASSUME NEW i \in 1..(n + 1) PROVE r[i][1] \in {q[j][1] : j \in 1..n} \cup {m[1]}
      <3>1. i \in 1..n \/ i = n + 1
        BY <1>1
      <3>. QED  BY <3>1, <1>2
    <2>3. ASSUME NEW i \in 1..n PROVE q[i][1] \in {r[j][1] : j \in 1..(n + 1)}
      <3>1. i \in 1..(n + 1) /\ r[i] = q[i]
        BY <1>1, <1>2
      <3>. QED  BY <3>1
    <2>4. m[1] \in {r[j][1] : j \in 1..(n + 1)}
      <3>1. n + 1 \in 1..(n + 1)
        BY <1>1
      <3>. QED  BY <3>1, <1>2
    <2>. QED  BY <2>1, <2>2, <2>3, <2>4
  <1>4. LastUp(r, m[1]) <=> m[2] \in UpMarks
    <2>1. n + 1 \in 1..(n + 1) /\ \A j \in 1..(n + 1) : ~(j > n + 1) /\ (j # n + 1 => n + 1 > j)
      BY <1>1
    <2>. QED  BY <2>1, <1>2 DEF LastUp
  <1>5. ASSUME NEW k, k # m[1] PROVE LastUp(r, k) <=> LastUp(q, k)
    <2>1. ASSUME LastUp(r, k) PROVE LastUp(q, k)
      <3>1. PICK i \in 1..(n + 1) : r[i][1] = k /\ r[i][2] \in UpMarks
                                    /\ \A j \in 1..(n + 1) : j > i => r[j][1] # k
        BY <2>1, <1>2 DEF LastUp
      <3>2. i \in 1..n
        BY <3>1, <1>5, <1>1, <1>2
      <3>3. \A j \in 1..n : j \in 1..(n + 1)
        BY <1>1
      <3>. QED  BY <3>1, <3>2, <3>3, <1>2 DEF LastUp
    <2>2. ASSUME LastUp(q, k) PROVE LastUp(r, k)
      <3>1. PICK i \in 1..n : q[i][1] = k /\ q[i][2] \in UpMarks
                              /\ \A j \in 1..n : j > i => q[j][1] # k
        BY <2>2, <1>2 DEF LastUp
      <3>2. i \in 1..(n + 1) /\ \A j \in 1..(n + 1) : j \in 1..n \/ j = n + 1
        BY <1>1
      <3>. QED  BY <3>1, <3>2, <1>5, <1>2 DEF LastUp
    <2>. QED  BY <2>1, <2>2
  <1>. QED  BY <1>1, <1>3, <1>4, <1>5 DEF n, r

LEMMA LastOfTail ==
  ASSUME NEW T, NEW q \in Seq(PodKeys \X T), q # <<>>
  PROVE  /\ Head(q) \in PodKeys \X T /\ Tail(q) \in Seq(PodKeys \X T) /\ Len(Tail(q)) = Len(q) - 1
         /\ KeysOf(q) = KeysOf(Tail(q)) \cup {Head(q)[1]}
         /\ \A k \in KeysOf(Tail(q)) : LastUp(q, k) <=> LastUp(Tail(q), k)
         /\ Head(q)[1] \notin KeysOf(Tail(q)) => (LastUp(q, Head(q)[1]) <=> Head(q)[2] \in UpMarks)
  <1>. DEFINE n == Len(q)
              r == Tail(q)
              h == Head(q)
  <1>1. r \in Seq(PodKeys \X T) /\ Len(r) = n - 1 /\ n \in Nat /\ n > 0 /\ h \in PodKeys \X T
    OBVIOUS
  <1>2. DOMAIN q = 1..n /\ DOMAIN r = 1..(n - 1) /\ q[1] = h
    OBVIOUS
  <1>3. \A i \in 1..(n - 1) : r[i] = q[i + 1]
    OBVIOUS
  <1>. HIDE DEF n, r, h
  <1>4. KeysOf(q) = KeysOf(r) \cup {h[1]}
    <2>1. ASSUME NEW i \in 1..n PROVE q[i][1] \in KeysOf(r) \cup {h[1]}
      <3>1. CASE i = 1
        BY <3>1, <1>2
      <3>2. CASE i # 1
        <4>1. i - 1 \in 1..(n - 1) /\ r[i - 1] = q[i]
          BY <3>2, <1>1, <1>3
        <4>. QED  BY <4>1, <1>2 DEF KeysOf
      <3>. QED  BY <3>1, <3>2
    <2>2. ASSUME NEW i \in 1..(n - 1) PROVE r[i][1] \in KeysOf(q)
      <3>1. i + 1 \in 1..n /\ r[i] = q[i + 1]
        BY <1>1, <1>3
      <3>. QED  BY <3>1, <1>2 DEF KeysOf
    <2>3. h[1] \in KeysOf(q)
      BY <1>1, <1>2 DEF KeysOf
    <2>4. KeysOf(q) = {q[i][1] : i \in 1..n} /\ KeysOf(r) = {r[i][1] : i \in 1..(n - 1)}
      BY <1>2 DEF KeysOf
    <2>. QED  BY <2>1, <2>2, <2>3, <2>4
  <1>5. ASSUME NEW k \in KeysOf(r) PROVE LastUp(q, k) <=> LastUp(r, k)
    <2>1. PICK x \in 1..(n - 1) : r[x][1] = k
      BY <1>2 DEF KeysOf
    <2>2. x + 1 \in 1..n /\ q[x + 1][1] = k
      BY <2>1, <1>1, <1>3
    <2>3. ASSUME LastUp(q, k) PROVE LastUp(r, k)
      <3>1. PICK i \in 1..n : q[i][1] = k /\ q[i][2] \in UpMarks /\ \A j \in 1..n : j > i => q[j][1] # k
        BY <2>3, <1>2 DEF LastUp
      <3>2. i # 1
        BY <3>1, <2>2, <2>1, <1>1
      <3>3. i - 1 \in 1..(n - 1) /\ r[i - 1] = q[i]
        BY <3>2, <1>1, <1>3
      <3>4. \A j \in 1..(n - 1) : j > i - 1 => r[j][1] # k
        BY <3>1, <1>1, <1>3
      <3>. QED  BY <3>1, <3>3, <3>4, <1>2 DEF LastUp
    <2>4. ASSUME LastUp(r, k) PROVE LastUp(q, k)
      <3>1. PICK i \in 1..(n - 1) : r[i][1] = k /\ r[i][2] \in UpMarks
                                    /\ \A j \in 1..(n - 1) : j > i => r[j][1] # k
        BY <2>4, <1>2 DEF LastUp
      <3>2. i + 1 \in 1..n /\ q[i + 1] = r[i]
        BY <1>1, <1>3
      <3>3. ASSUME NEW j \in 1..n, j > i + 1 PROVE q[j][1] # k
        <4>1. j - 1 \in 1..(n - 1) /\ j - 1 > i /\ r[j - 1] = q[j]
          BY <3>3, <1>1, <1>3
        <4>. QED  BY <4>1, <3>1
      <3>. QED  BY <3>1, <3>2, <3>3, <1>2 DEF LastUp
    <2>. QED  BY <2>3, <2>4
  <1>6. ASSUME h[1] \notin KeysOf(r) PROVE LastUp(q, h[1]) <=> h[2] \in UpMarks
    <2>1. ASSUME NEW j \in 1..n, j > 1 PROVE q[j][1] # h[1]
      <3>1. j - 1 \in 1..(n - 1) /\ r[j - 1] = q[j]
        BY <2>1, <1>1, <1>3
      <3>. QED  BY <3>1, <1>6, <1>2 DEF KeysOf
    <2>. QED  BY <2>1, <1>1, <1>2 DEF LastUp
  <1>. QED  BY <1>1, <1>4, <1>5, <1>6 DEF n, r, h

LEMMA KeysOfEmpty == KeysOf(<<>>) = {}
  BY DEF KeysOf

\* The frames of a snapshot, in any order: one for each sandbox in the map.
LEMMA Frames ==
  ASSUME WatchTypeOK, NEW H \in SUBSET PodKeys, \A k \in H : sb[k] \in Statuses, NEW f,
         LET found == {<<k, sb[k]>> : k \in H} IN f \in Bijection(1..Cardinality(found), found)
  PROVE  /\ f \in Seq(PodKeys \X Statuses) /\ Len(f) <= Cardinality(PodKeys)
         /\ KeysOf(f) = H
         /\ \A k \in H : LastUp(f, k) <=> sb[k] \in UpMarks
  <1>. DEFINE S == {<<k, sb[k]>> : k \in H}
              g == [k \in H |-> <<k, sb[k]>>]
              n == Cardinality(S)
  <1>1. IsFiniteSet(H) /\ Cardinality(H) <= Cardinality(PodKeys)
    BY WatchAssumption, FS_Subset
  <1>2. g \in Bijection(H, S)
    BY DEF Bijection, Injection, Surjection, IsInjective
  <1>3. IsFiniteSet(S) /\ n = Cardinality(H)
    BY <1>1, <1>2, FS_Bijection DEF ExistsBijection
  <1>4. n \in Nat
    BY <1>3, FS_CardinalityType
  <1>5. f \in [1..n -> S] /\ IsInjective(f)
    BY DEF Bijection, Injection
  <1>6. f \in Surjection(1..n, S)
    BY DEF Bijection
  <1>7. S \subseteq PodKeys \X Statuses
    OBVIOUS
  <1>8. f \in Seq(PodKeys \X Statuses) /\ Len(f) = n /\ DOMAIN f = 1..n
    <2>1. f \in [1..n -> PodKeys \X Statuses]
      BY <1>5, <1>7
    <2>. HIDE DEF S, n
    <2>. QED  BY <2>1, <1>4
  <1>9. \A i \in 1..n : f[i][1] \in H /\ f[i] = <<f[i][1], sb[f[i][1]]>>
    BY <1>5
  <1>10. \A k \in H : \E i \in 1..n : f[i] = <<k, sb[k]>>
    BY <1>6 DEF Surjection
  <1>11. \A i, j \in 1..n : f[i][1] = f[j][1] => i = j
    BY <1>5, <1>9 DEF IsInjective
  <1>. HIDE DEF n, S
  <1>12. KeysOf(f) = H
    BY <1>8, <1>9, <1>10 DEF KeysOf
  <1>13. ASSUME NEW k \in H PROVE LastUp(f, k) <=> sb[k] \in UpMarks
    <2>1. PICK i \in 1..n : f[i] = <<k, sb[k]>>
      BY <1>10
    <2>2. \A j \in 1..n : j # i => f[j][1] # k
      BY <2>1, <1>11
    <2>. QED  BY <2>1, <2>2, <1>4, <1>8 DEF LastUp
  <1>. QED  BY <1>1, <1>3, <1>8, <1>12, <1>13


-----------------------------------------------------------------------------
(* What a step does to the last word on a key. *)

LEMMA ToldSame ==
  ASSUME UNCHANGED <<ch, wire, pending, out, view>>, pc' = "send" <=> pc = "send"
  PROVE  \A k : Told(k)' <=> Told(k)
  BY DEF Told

\* Every key that was right and is still followed stays right, when neither
\* the last word nor the map changes.
LEMMA ToldKept ==
  ASSUME ToldInv, Following' => Following, astray \subseteq astray',
         UNCHANGED <<sb, creator, teardown>>,
         Following' => \A k \in PodKeys \ astray' : Told(k)' <=> Told(k)
  PROVE  ToldInv'
  BY DEF ToldInv, Published, IsUp

LEMMA PublishEffect ==
  ASSUME WatchTypeOK, StreamInv, NEW k \in PodKeys, NEW s \in Statuses, Publish(k, s),
         UNCHANGED <<wire, pc, pending, out, view>>
  PROVE  /\ ch' \in Seq(PodKeys \X Statuses) /\ Len(ch') <= ChanCap
         /\ sub = "none" => ch' = <<>>
         /\ astray' \subseteq PodKeys
         /\ \A j \in PodKeys \ astray' : j # k => j \notin astray /\ (Told(j)' <=> Told(j))
         /\ k \notin astray' => (s \in Ups <=> sb[k] \in Ups) /\ (Told(k)' <=> s \in UpMarks)
  <1>1. CASE sub # "none" /\ Len(ch) < ChanCap
    <2>1. ch' = Append(ch, <<k, s>>)
          /\ astray' = IF s \in Ups <=> sb[k] \in Ups THEN astray \ {k} ELSE astray \cup {k}
      BY <1>1 DEF Publish
    <2>2. ch \in Seq(PodKeys \X Statuses) /\ Len(ch) \in Nat /\ ChanCap \in Nat /\ astray \subseteq PodKeys
      BY WatchAssumption DEF WatchTypeOK
    <2>. DEFINE m == <<k, s>>
    <2>3. m \in PodKeys \X Statuses /\ m[1] = k /\ m[2] = s /\ ch' = Append(ch, m)
      BY <2>1
    <2>. HIDE DEF m
    <2>4. /\ ch' \in Seq(PodKeys \X Statuses) /\ Len(ch') = Len(ch) + 1
          /\ KeysOf(ch') = KeysOf(ch) \cup {k}
          /\ LastUp(ch', k) <=> s \in UpMarks
          /\ \A j : j # k => (LastUp(ch', j) <=> LastUp(ch, j))
      <3>1. /\ Append(ch, m) \in Seq(PodKeys \X Statuses) /\ Len(Append(ch, m)) = Len(ch) + 1
            /\ KeysOf(Append(ch, m)) = KeysOf(ch) \cup {m[1]}
            /\ LastUp(Append(ch, m), m[1]) <=> m[2] \in UpMarks
            /\ \A j : j # m[1] => (LastUp(Append(ch, m), j) <=> LastUp(ch, j))
        BY <2>2, <2>3, LastOfAppend
      <3>. QED  BY <2>3, <3>1
    <2>5. Told(k)' <=> s \in UpMarks
      BY <2>4 DEF Told
    <2>6. \A j : j # k => (Told(j)' <=> Told(j))
      BY <2>4 DEF Told
    <2>. QED  BY <1>1, <2>1, <2>2, <2>4, <2>5, <2>6
  <1>2. CASE ~(sub # "none" /\ Len(ch) < ChanCap)
    <2>1. astray' = astray \cup {k} /\ ch' = ch
      BY <1>2 DEF Publish
    <2>2. \A j : Told(j)' <=> Told(j)
      BY <2>1, ToldSame
    <2>. QED  BY <2>1, <2>2 DEF WatchTypeOK, StreamInv
  <1>. QED  BY <1>1, <1>2

\* A step of one sandbox's create or teardown that publishes s.
LEMMA PublishTold ==
  ASSUME WatchInv, NEW k \in PodKeys, NEW s \in Statuses, Publish(k, s),
         UNCHANGED <<alive, left, wire, pc, pending, out, view, sb>>,
         \A j \in PodKeys : j # k => creator'[j] = creator[j] /\ teardown'[j] = teardown[j]
  PROVE  ToldInv'
  <1>. SUFFICES ASSUME Following', NEW j \in PodKeys \ astray', Published(j)'
                PROVE  Told(j)' <=> IsUp(j)'
    BY DEF ToldInv
  <1>1. IsUp(j)' <=> IsUp(j)
    BY DEF IsUp
  <1>2. CASE j = k
    <2>1. s \in UpMarks <=> s \in Ups
      BY DEF Statuses, UpMarks, Ups
    <2>2. (s \in Ups <=> sb[k] \in Ups) /\ (Told(k)' <=> s \in UpMarks)
      BY <1>2, PublishEffect DEF WatchInv
    <2>. QED  BY <1>1, <1>2, <2>1, <2>2 DEF IsUp
  <1>3. CASE j # k
    <2>1. j \notin astray /\ (Told(j)' <=> Told(j))
      BY <1>3, PublishEffect DEF WatchInv
    <2>2. Published(j) /\ Following
      BY <1>3 DEF Published, Following
    <2>. QED  BY <1>1, <2>1, <2>2 DEF WatchInv, ToldInv
  <1>. QED  BY <1>2, <1>3

\* A step that changes the map at one key, whose word it does not concern.
LEMMA MapTold ==
  ASSUME WatchInv, NEW k \in PodKeys, UNCHANGED <<alive, left, astray, ch, wire, pc, pending, out, view>>,
         \A j \in PodKeys : j # k =>
            creator'[j] = creator[j] /\ teardown'[j] = teardown[j] /\ sb'[j] = sb[j],
         Published(k)' => Published(k) /\ (IsUp(k)' <=> IsUp(k))
  PROVE  ToldInv'
  <1>. SUFFICES ASSUME Following', NEW j \in PodKeys \ astray', Published(j)'
                PROVE  Told(j)' <=> IsUp(j)'
    BY DEF ToldInv
  <1>1. Told(j)' <=> Told(j)
    BY ToldSame
  <1>2. Following /\ Published(j) /\ (IsUp(j)' <=> IsUp(j)) /\ j \notin astray
    <2>1. CASE j = k
      BY <2>1 DEF Following
    <2>2. CASE j # k
      BY <2>2 DEF Following, Published, IsUp
    <2>. QED  BY <2>1, <2>2
  <1>. QED  BY <1>1, <1>2 DEF WatchInv, ToldInv


-----------------------------------------------------------------------------
(* A transition moves along, and is consumed. *)

LEMMA SnapshotTold ==
  ASSUME WatchInv, Snapshot
  PROVE  /\ ToldInv' /\ wire' \in Seq(PodKeys \X Statuses)
         /\ Len(wire') <= WireCap + Cardinality(PodKeys)
  <1>. DEFINE H == {k \in PodKeys : sb[k] # "none"}
              S == {<<k, sb[k]>> : k \in H}
  <1>1. PICK f \in Bijection(1..Cardinality(S), S) : wire' = wire \o f
    BY DEF Snapshot
  <1>2. wire = <<>> /\ sub = "subscribed" /\ astray' = astray \ (H \ KeysOf(ch))
        /\ UNCHANGED <<pod, ch, reader, out, view, left>>
    BY DEF Snapshot, WatchInv, StreamInv
  <1>3. H \in SUBSET PodKeys /\ \A k \in H : sb[k] \in Statuses
    BY DEF WatchInv, WatchTypeOK, Statuses
  <1>4. /\ f \in Seq(PodKeys \X Statuses) /\ Len(f) <= Cardinality(PodKeys)
        /\ KeysOf(f) = H
        /\ \A k \in H : LastUp(f, k) <=> sb[k] \in UpMarks
    <2>1. WatchTypeOK
      BY DEF WatchInv
    <2>. HIDE DEF H
    <2>. QED  BY <2>1, <1>1, <1>3, Frames
  <1>5. wire' = f
    BY <1>1, <1>2, <1>4
  <1>6. Len(f) \in Nat /\ Cardinality(PodKeys) \in Nat /\ WireCap \in Nat
    BY <1>4, WatchAssumption, FS_CardinalityType
  <1>7. ASSUME Following', NEW k \in PodKeys \ astray', Published(k)' PROVE Told(k)' <=> IsUp(k)'
    <2>1. Following /\ Published(k) /\ (IsUp(k)' <=> IsUp(k))
      BY <1>2, <1>7 DEF Following, Published, IsUp, pod, reader
    <2>2. ch' = ch /\ pc' = pc /\ pending' = pending /\ out' = out /\ view' = view
      BY <1>2 DEF reader
    <2>3. CASE k \in KeysOf(ch)
      <3>1. k \notin astray
        BY <1>2, <1>7, <2>3
      <3>2. Told(k)' <=> Told(k)
        BY <2>2, <2>3 DEF Told
      <3>. QED  BY <2>1, <3>1, <3>2 DEF WatchInv, ToldInv
    <2>4. CASE k \notin KeysOf(ch) /\ k \in H
      <3>1. Told(k)' <=> LastUp(f, k)
        BY <1>4, <1>5, <2>2, <2>4 DEF Told
      <3>2. LastUp(f, k) <=> sb[k] \in UpMarks
        BY <1>4, <2>4
      <3>3. sb[k] \in UpMarks <=> IsUp(k)
        BY <1>3, <2>4 DEF IsUp, UpMarks, Ups, Statuses
      <3>. QED  BY <2>1, <3>1, <3>2, <3>3
    <2>5. CASE k \notin KeysOf(ch) /\ k \notin H
      <3>1. k \notin astray
        BY <1>2, <1>7, <2>5
      <3>2. k \notin KeysOf(wire) /\ k \notin KeysOf(wire')
        BY <1>2, <1>4, <1>5, <2>5, KeysOfEmpty
      <3>3. Told(k)' <=> Told(k)
        BY <2>2, <2>5, <3>2 DEF Told
      <3>. QED  BY <2>1, <3>1, <3>3 DEF WatchInv, ToldInv
    <2>. QED  BY <2>3, <2>4, <2>5
  <1>. QED  BY <1>4, <1>5, <1>6, <1>7 DEF ToldInv

LEMMA ForwardTold ==
  ASSUME WatchInv, Forward
  PROVE  /\ ToldInv'
         /\ wire' \in Seq(PodKeys \X Statuses) /\ ch' \in Seq(PodKeys \X Statuses)
         /\ Len(wire') <= WireCap + Cardinality(PodKeys) /\ Len(ch') <= ChanCap
  <1>. DEFINE m == Head(ch)
  <1>1. ch \in Seq(PodKeys \X Statuses) /\ wire \in Seq(PodKeys \X Statuses) /\ ch # <<>>
        /\ Len(ch) \in Nat /\ Len(wire) \in Nat /\ Len(ch) <= ChanCap /\ Len(wire) < WireCap
        /\ ChanCap \in Nat /\ WireCap \in Nat /\ Cardinality(PodKeys) \in Nat
    BY WatchAssumption, FS_CardinalityType DEF WatchInv, WatchTypeOK, Forward
  <1>2. wire' = Append(wire, m) /\ ch' = Tail(ch)
        /\ UNCHANGED <<alive, sb, creator, teardown, pc, pending, out, view, left, astray>>
    BY DEF Forward, pod, reader
  <1>3. /\ m \in PodKeys \X Statuses /\ ch' \in Seq(PodKeys \X Statuses) /\ Len(ch') = Len(ch) - 1
        /\ KeysOf(ch) = KeysOf(ch') \cup {m[1]}
        /\ \A k \in KeysOf(ch') : LastUp(ch, k) <=> LastUp(ch', k)
        /\ m[1] \notin KeysOf(ch') => (LastUp(ch, m[1]) <=> m[2] \in UpMarks)
    <2>1. /\ m \in PodKeys \X Statuses /\ Tail(ch) \in Seq(PodKeys \X Statuses) /\ Len(Tail(ch)) = Len(ch) - 1
          /\ KeysOf(ch) = KeysOf(Tail(ch)) \cup {m[1]}
          /\ \A k \in KeysOf(Tail(ch)) : LastUp(ch, k) <=> LastUp(Tail(ch), k)
          /\ m[1] \notin KeysOf(Tail(ch)) => (LastUp(ch, m[1]) <=> m[2] \in UpMarks)
      BY <1>1, LastOfTail
    <2>. QED  BY <1>2, <2>1
  <1>. HIDE DEF m
  <1>4. /\ wire' \in Seq(PodKeys \X Statuses) /\ Len(wire') = Len(wire) + 1
        /\ KeysOf(wire') = KeysOf(wire) \cup {m[1]}
        /\ LastUp(wire', m[1]) <=> m[2] \in UpMarks
        /\ \A k : k # m[1] => (LastUp(wire', k) <=> LastUp(wire, k))
    <2>1. wire \in Seq(PodKeys \X Statuses) /\ m \in PodKeys \X Statuses
      BY <1>1, <1>3
    <2>2. /\ Append(wire, m) \in Seq(PodKeys \X Statuses) /\ Len(Append(wire, m)) = Len(wire) + 1
          /\ KeysOf(Append(wire, m)) = KeysOf(wire) \cup {m[1]}
          /\ LastUp(Append(wire, m), m[1]) <=> m[2] \in UpMarks
          /\ \A k : k # m[1] => (LastUp(Append(wire, m), k) <=> LastUp(wire, k))
      BY <2>1, LastOfAppend
    <2>. QED  BY <1>2, <2>2
  <1>5. ASSUME NEW k \in PodKeys PROVE Told(k)' <=> Told(k)
    <2>1. CASE k \in KeysOf(ch')
      BY <2>1, <1>3 DEF Told
    <2>2. CASE k \notin KeysOf(ch') /\ k = m[1]
      BY <2>2, <1>3, <1>4 DEF Told
    <2>3. CASE k \notin KeysOf(ch') /\ k # m[1]
      BY <2>3, <1>2, <1>3, <1>4 DEF Told
    <2>. QED  BY <2>1, <2>2, <2>3
  <1>6. ToldInv'
    <2>1. Following' => Following
      BY <1>2 DEF Following
    <2>. QED  BY <2>1, <1>2, <1>5, ToldKept DEF WatchInv
  <1>. QED  BY <1>1, <1>3, <1>4, <1>6

LEMMA ScanTold ==
  ASSUME WatchInv, Scan
  PROVE  /\ ToldInv' /\ wire' \in Seq(PodKeys \X Statuses) /\ Len(wire') <= Len(wire)
         /\ pc' = "send" /\ pending' \in PodKeys \X Actions /\ hosted' \subseteq PodKeys
  <1>. DEFINE m == Head(wire)
              a == MapPodStatus(m[2])
  <1>1. wire \in Seq(PodKeys \X Statuses) /\ wire # <<>> /\ Len(wire) \in Nat /\ hosted \subseteq PodKeys
    BY DEF WatchInv, WatchTypeOK, Scan
  <1>2. /\ m \in PodKeys \X Statuses /\ Tail(wire) \in Seq(PodKeys \X Statuses)
        /\ Len(Tail(wire)) = Len(wire) - 1
        /\ KeysOf(wire) = KeysOf(Tail(wire)) \cup {m[1]}
        /\ \A k \in KeysOf(Tail(wire)) : LastUp(wire, k) <=> LastUp(Tail(wire), k)
        /\ m[1] \notin KeysOf(Tail(wire)) => (LastUp(wire, m[1]) <=> m[2] \in UpMarks)
    BY <1>1, LastOfTail
  <1>3. a \in Actions /\ (a = "start" <=> m[2] \in UpMarks)
    <2>1. m[2] \in Statuses
      BY <1>2
    <2>. QED  BY <2>1 DEF MapPodStatus, Statuses, Actions, UpMarks
  <1>4. wire' = Tail(wire) /\ pending' = <<m[1], a>> /\ pc' = "send" /\ pc = "read"
        /\ (hosted' = hosted \cup {m[1]} \/ hosted' = hosted \ {m[1]} \/ hosted' = hosted)
        /\ UNCHANGED <<alive, sb, creator, teardown, ch, out, view, left, astray>>
    <2>1. /\ hosted' = CASE a = "start" -> hosted \cup {m[1]}
                         [] a = "destroy" -> hosted \ {m[1]}
                         [] OTHER -> hosted
          /\ IF a = "unknown" THEN UNCHANGED <<pending, pc>>
             ELSE pending' = <<m[1], a>> /\ pc' = "send"
          /\ wire' = Tail(wire) /\ pc = "read"
          /\ UNCHANGED <<alive, sb, creator, teardown, ch, out, view, left, astray>>
      BY DEF Scan, pod
    <2>. HIDE DEF a, m
    <2>. QED  BY <1>3, <2>1 DEF Actions
  <1>. HIDE DEF m, a
  <1>5. pending' \in PodKeys \X Actions /\ pending'[1] = m[1] /\ pending'[2] = a
    BY <1>2, <1>3, <1>4
  <1>6. ASSUME NEW k \in PodKeys PROVE Told(k)' <=> Told(k)
    <2>1. CASE k \in KeysOf(ch)
      BY <2>1, <1>4 DEF Told
    <2>2. CASE k \notin KeysOf(ch) /\ k \in KeysOf(wire')
      BY <2>2, <1>2, <1>4 DEF Told
    <2>3. CASE k \notin KeysOf(ch) /\ k \notin KeysOf(wire') /\ k = m[1]
      BY <2>3, <1>2, <1>3, <1>4, <1>5 DEF Told
    <2>4. CASE k \notin KeysOf(ch) /\ k \notin KeysOf(wire') /\ k # m[1]
      BY <2>4, <1>2, <1>4, <1>5 DEF Told
    <2>. QED  BY <2>1, <2>2, <2>3, <2>4
  <1>7. ToldInv'
    <2>1. Following' => Following
      BY <1>4 DEF Following
    <2>. QED  BY <2>1, <1>4, <1>6, ToldKept DEF WatchInv
  <1>. QED  BY <1>1, <1>2, <1>4, <1>5, <1>7

LEMMA SendTold ==
  ASSUME WatchInv, Send
  PROVE  ToldInv' /\ out' \in Seq(PodKeys \X Actions) /\ Len(out') <= OutCap
  <1>1. out \in Seq(PodKeys \X Actions) /\ Len(out) \in Nat /\ OutCap \in Nat /\ Len(out) < OutCap
        /\ pending \in PodKeys \X Actions
    BY WatchAssumption DEF WatchInv, WatchTypeOK, StreamInv, Send
  <1>2. out' = Append(out, pending) /\ pc = "send" /\ pc' = "read"
        /\ UNCHANGED <<alive, sb, creator, teardown, ch, wire, view, left, astray>>
    BY DEF Send, pod, server
  <1>3. /\ out' \in Seq(PodKeys \X Actions) /\ Len(out') = Len(out) + 1
        /\ KeysOf(out') = KeysOf(out) \cup {pending[1]}
        /\ LastUp(out', pending[1]) <=> pending[2] \in UpMarks
        /\ \A k : k # pending[1] => (LastUp(out', k) <=> LastUp(out, k))
    <2>1. /\ Append(out, pending) \in Seq(PodKeys \X Actions) /\ Len(Append(out, pending)) = Len(out) + 1
          /\ KeysOf(Append(out, pending)) = KeysOf(out) \cup {pending[1]}
          /\ LastUp(Append(out, pending), pending[1]) <=> pending[2] \in UpMarks
          /\ \A k : k # pending[1] => (LastUp(Append(out, pending), k) <=> LastUp(out, k))
      BY <1>1, LastOfAppend
    <2>. QED  BY <1>2, <2>1
  <1>4. pending[2] \in UpMarks <=> pending[2] = "start"
    BY <1>1 DEF Actions, UpMarks
  <1>5. ASSUME NEW k \in PodKeys PROVE Told(k)' <=> Told(k)
    <2>1. CASE k = pending[1]
      BY <2>1, <1>2, <1>3, <1>4 DEF Told
    <2>2. CASE k # pending[1]
      BY <2>2, <1>2, <1>3 DEF Told
    <2>. QED  BY <2>1, <2>2
  <1>6. ToldInv'
    <2>1. Following' => Following
      BY <1>2 DEF Following
    <2>. QED  BY <2>1, <1>2, <1>5, ToldKept DEF WatchInv
  <1>. QED  BY <1>1, <1>3, <1>6

LEMMA ConsumeTold ==
  ASSUME WatchInv, Consume
  PROVE  /\ ToldInv' /\ out' \in Seq(PodKeys \X Actions) /\ Len(out') <= OutCap
         /\ view' \in [PodKeys -> Actions \cup {"none"}]
  <1>. DEFINE m == Head(out)
  <1>1. out \in Seq(PodKeys \X Actions) /\ Len(out) \in Nat /\ OutCap \in Nat /\ Len(out) <= OutCap
        /\ out # <<>> /\ view \in [PodKeys -> Actions \cup {"none"}]
    BY WatchAssumption DEF WatchInv, WatchTypeOK, Consume
  <1>2. view' = [view EXCEPT ![m[1]] = m[2]] /\ out' = Tail(out)
        /\ UNCHANGED <<alive, sb, creator, teardown, ch, wire, pc, pending, left, astray>>
    BY DEF Consume, pod, server, reader
  <1>3. /\ m \in PodKeys \X Actions /\ out' \in Seq(PodKeys \X Actions) /\ Len(out') = Len(out) - 1
        /\ KeysOf(out) = KeysOf(out') \cup {m[1]}
        /\ \A k \in KeysOf(out') : LastUp(out, k) <=> LastUp(out', k)
        /\ m[1] \notin KeysOf(out') => (LastUp(out, m[1]) <=> m[2] \in UpMarks)
    <2>1. /\ m \in PodKeys \X Actions /\ Tail(out) \in Seq(PodKeys \X Actions) /\ Len(Tail(out)) = Len(out) - 1
          /\ KeysOf(out) = KeysOf(Tail(out)) \cup {m[1]}
          /\ \A k \in KeysOf(Tail(out)) : LastUp(out, k) <=> LastUp(Tail(out), k)
          /\ m[1] \notin KeysOf(Tail(out)) => (LastUp(out, m[1]) <=> m[2] \in UpMarks)
      BY <1>1, LastOfTail
    <2>. QED  BY <1>2, <2>1
  <1>. HIDE DEF m
  <1>4. m[2] \in UpMarks <=> m[2] = "start"
    BY <1>3 DEF Actions, UpMarks
  <1>5. view'[m[1]] = m[2] /\ \A k \in PodKeys : k # m[1] => view'[k] = view[k]
    BY <1>1, <1>2, <1>3
  <1>6. ASSUME NEW k \in PodKeys PROVE Told(k)' <=> Told(k)
    <2>1. CASE k \in KeysOf(out')
      BY <2>1, <1>2, <1>3 DEF Told
    <2>2. CASE k \notin KeysOf(out') /\ k = m[1]
      BY <2>2, <1>2, <1>3, <1>4, <1>5 DEF Told
    <2>3. CASE k \notin KeysOf(out') /\ k # m[1]
      BY <2>3, <1>2, <1>3, <1>5 DEF Told
    <2>. QED  BY <2>1, <2>2, <2>3
  <1>7. ToldInv'
    <2>1. Following' => Following
      BY <1>2 DEF Following
    <2>. QED  BY <2>1, <1>2, <1>6, ToldKept DEF WatchInv
  <1>8. view' \in [PodKeys -> Actions \cup {"none"}]
    BY <1>1, <1>2, <1>3
  <1>. QED  BY <1>1, <1>3, <1>7, <1>8

\* What is kept of a cancelled reader.
OldReaders == [pending : (PodKeys \X Actions) \cup {<<>>}, hosted : SUBSET PodKeys]

LEMMA OldEntry ==
  ASSUME WatchTypeOK, NEW i \in DOMAIN old
  PROVE  /\ old[i].pending \in (PodKeys \X Actions) \cup {<<>>} /\ old[i].hosted \subseteq PodKeys
         /\ [old EXCEPT ![i].pending = <<>>] \in Seq(OldReaders)
         /\ \A k : [old EXCEPT ![i].hosted = @ \ {k}] \in Seq(OldReaders)
  <1>1. old \in Seq(OldReaders)
    BY DEF WatchTypeOK, OldReaders
  <1>2. Len(old) \in Nat /\ DOMAIN old = 1..Len(old) /\ old \in [1..Len(old) -> OldReaders]
    BY <1>1
  <1>3. old[i] \in OldReaders
    BY <1>2
  <1>4. /\ old[i].pending \in (PodKeys \X Actions) \cup {<<>>} /\ old[i].hosted \subseteq PodKeys
        /\ [old[i] EXCEPT !.pending = <<>>] \in OldReaders
        /\ \A k : [old[i] EXCEPT !.hosted = @ \ {k}] \in OldReaders
    BY <1>3 DEF OldReaders
  <1>5. ASSUME NEW r \in OldReaders PROVE [old EXCEPT ![i] = r] \in Seq(OldReaders)
    <2>1. [old EXCEPT ![i] = r] \in [1..Len(old) -> OldReaders]
      BY <1>2
    <2>. QED  BY <1>2, <2>1, IsASeq
  <1>. QED  BY <1>4, <1>5

LEMMA UnderWayKeys ==
  ASSUME WatchInv
  PROVE  \A k : k \in UnderWay <=> k \in KeysOf(ch) \/ k \in KeysOf(wire) \/ (pc = "send" /\ pending[1] = k)
  <1>1. pending # <<>> <=> pc = "send"
    BY DEF WatchInv, StreamInv
  <1>. QED  BY <1>1 DEF UnderWay

\* What a cancelled reader still sends: the stream's last word comes later, or
\* this is the last word, and right or the key astray.
LEMMA StaleTold ==
  ASSUME WatchInv, NEW m \in PodKeys \X Actions, out' = Append(out, m), astray' = Misled(m[1], m[2]),
         UNCHANGED <<alive, left, sb, creator, teardown, ch, wire, pc, pending, view>>
  PROVE  ToldInv'
  <1>. SUFFICES ASSUME Following', NEW k \in PodKeys \ astray', Published(k)'
                PROVE  Told(k)' <=> IsUp(k)'
    BY DEF ToldInv
  <1>1. out \in Seq(PodKeys \X Actions)
    BY DEF WatchInv, WatchTypeOK
  <1>2. /\ KeysOf(out') = KeysOf(out) \cup {m[1]}
        /\ LastUp(out', m[1]) <=> m[2] \in UpMarks
        /\ \A j : j # m[1] => (LastUp(out', j) <=> LastUp(out, j))
    <2>1. /\ KeysOf(Append(out, m)) = KeysOf(out) \cup {m[1]}
          /\ LastUp(Append(out, m), m[1]) <=> m[2] \in UpMarks
          /\ \A j : j # m[1] => (LastUp(Append(out, m), j) <=> LastUp(out, j))
      BY <1>1, LastOfAppend
    <2>. QED  BY <2>1
  <1>3. Following /\ Published(k) /\ (IsUp(k)' <=> IsUp(k)) /\ k \notin astray
    BY DEF Following, Published, IsUp, Misled
  <1>4. Told(k) <=> IsUp(k)
    BY <1>3 DEF WatchInv, ToldInv
  <1>5. CASE k # m[1] \/ k \in UnderWay
    <2>1. CASE k \in UnderWay
      BY <1>3, <1>4, <2>1, UnderWayKeys DEF Told
    <2>2. CASE k # m[1]
      BY <1>2, <1>3, <1>4, <2>2 DEF Told
    <2>. QED  BY <1>5, <2>1, <2>2
  <1>6. CASE k = m[1] /\ k \notin UnderWay
    <2>1. m[2] = "start" <=> IsUp(k)
      BY <1>6 DEF Misled, IsUp
    <2>2. Told(k)' <=> LastUp(out', k)
      BY <1>2, <1>6, UnderWayKeys DEF Told
    <2>3. m[2] \in UpMarks <=> m[2] = "start"
      BY DEF Actions, UpMarks
    <2>. QED  BY <1>2, <1>3, <1>6, <2>1, <2>2, <2>3
  <1>. QED  BY <1>5, <1>6

-----------------------------------------------------------------------------
(* The parts of the invariant, one step per action. *)

LEMMA StreamStep ==
  ASSUME WatchInv, [WatchNext]_watchVars
  PROVE  StreamInv'
  <1>. USE DEF WatchInv, StreamInv
  <1>1. ASSUME NEW k \in PodKeys, CreatePacked(k) PROVE StreamInv'
    BY <1>1 DEF CreatePacked, pod, server, reader, bounds
  <1>2. ASSUME NEW k \in PodKeys, PublishStarting(k) PROVE StreamInv'
    <2>1. "starting" \in Statuses /\ Publish(k, "starting") /\ UNCHANGED <<sub, wire, pc, pending, out, view>>
      BY <1>2 DEF PublishStarting, Statuses, reader
    <2>2. sub = "none" => ch' = <<>>
      BY <2>1, PublishEffect
    <2>. QED  BY <2>1, <2>2
  <1>3. ASSUME NEW k \in PodKeys, Ready(k) PROVE StreamInv'
    BY <1>3 DEF Ready, pod, server, reader, bounds
  <1>4. ASSUME NEW k \in PodKeys, PublishRunning(k) PROVE StreamInv'
    <2>1. "running" \in Statuses /\ Publish(k, "running") /\ UNCHANGED <<sub, wire, pc, pending, out, view>>
      BY <1>4 DEF PublishRunning, Statuses, reader
    <2>2. sub = "none" => ch' = <<>>
      BY <2>1, PublishEffect
    <2>. QED  BY <2>1, <2>2
  <1>5. ASSUME NEW k \in PodKeys, Stop(k) PROVE StreamInv'
    BY <1>5 DEF Stop, pod, server, reader, bounds
  <1>6. ASSUME NEW k \in PodKeys, PublishStopping(k) PROVE StreamInv'
    <2>1. "stopping" \in Statuses /\ Publish(k, "stopping") /\ UNCHANGED <<sub, wire, pc, pending, out, view>>
      BY <1>6 DEF PublishStopping, Statuses, reader
    <2>2. sub = "none" => ch' = <<>>
      BY <2>1, PublishEffect
    <2>. QED  BY <2>1, <2>2
  <1>7. ASSUME NEW k \in PodKeys, Forget(k) PROVE StreamInv'
    BY <1>7 DEF Forget, pod, server, reader, bounds
  <1>8. ASSUME NEW k \in PodKeys, NEW s \in Late, PublishLate(k, s) PROVE StreamInv'
    <2>1. s \in Statuses /\ Publish(k, s) /\ UNCHANGED <<sub, wire, pc, pending, out, view>>
      BY <1>8 DEF PublishLate, Late, Statuses, reader
    <2>2. sub = "none" => ch' = <<>>
      BY <2>1, PublishEffect
    <2>. QED  BY <2>1, <2>2
  <1>9. CASE PodDies
    BY <1>9 DEF PodDies, pod, server, reader, bounds
  <1>10. CASE Partition
    BY <1>10 DEF Partition, pod, server, reader, bounds
  <1>11. CASE Heal
    BY <1>11 DEF Heal, pod, server, reader, bounds
  <1>12. CASE Snapshot
    BY <1>12 DEF Snapshot, reader, pod
  <1>13. CASE Forward
    BY <1>13 DEF Forward, pod, server, reader, bounds
  <1>14. CASE Connect
    BY <1>14 DEF Connect, pod, server, reader, bounds
  <1>15. CASE ConnectFails
    BY <1>15 DEF ConnectFails, pod, server, reader, bounds
  <1>16. CASE Backoff
    BY <1>16 DEF Backoff, pod, server, reader, bounds
  <1>17. CASE Scan
    <2>1. pc' = "send" /\ pending' \in PodKeys \X Actions
      BY <1>17, ScanTold
    <2>. QED  BY <1>17, <2>1 DEF Scan
  <1>18. CASE Send
    BY <1>18 DEF Send, pod, server, reader, bounds
  <1>19. CASE SendAbandoned
    BY <1>19 DEF SendAbandoned, pod, server, reader, bounds
  <1>20. CASE Break
    BY <1>20 DEF Break, pod, server, reader, bounds
  <1>21. CASE StreamCancelled
    BY <1>21 DEF StreamCancelled, pod, server, reader, bounds
  <1>22. ASSUME NEW i \in DOMAIN old, OldSends(i) PROVE StreamInv'
    BY <1>22 DEF OldSends, pod, server, reader, bounds
  <1>23. CASE EmitDestroyed
    BY <1>23 DEF EmitDestroyed, pod, server, reader, bounds
  <1>24. CASE Refresh
    BY <1>24 DEF Refresh, pod, server, reader, bounds
  <1>25. CASE Follow
    BY <1>25 DEF Follow, pod, server, DiscoveryInv
  <1>26. CASE Drop
    BY <1>26 DEF Drop, Unfollowed, pod, server, reader, bounds
  <1>27. CASE Consume
    BY <1>27 DEF Consume, pod, server, reader, bounds
  <1>28. CASE Leave
    BY <1>28 DEF Leave, pod, server, reader, bounds
  <1>29. CASE UNCHANGED watchVars
    BY <1>29 DEF watchVars, pod, server, reader, bounds
  <1>30. ASSUME NEW i \in DOMAIN old, OldAbandons(i) PROVE StreamInv'
    BY <1>30 DEF OldAbandons, pod, server, reader, bounds
  <1>31. ASSUME NEW i \in DOMAIN old, OldDestroys(i) PROVE StreamInv'
    BY <1>31 DEF OldDestroys, pod, server, reader, bounds
  <1>32. CASE RefreshFails
    BY <1>32 DEF RefreshFails, pod, server, reader, bounds
  <1>. QED
    BY <1>1, <1>2, <1>3, <1>4, <1>5, <1>6, <1>7, <1>8, <1>9, <1>10, <1>11, <1>12, <1>13, <1>14, <1>15,
       <1>16, <1>17, <1>18, <1>19, <1>20, <1>21, <1>22, <1>23, <1>24, <1>25, <1>26, <1>27, <1>28, <1>29,
       <1>30, <1>31, <1>32
    DEF WatchNext, PodStep, Reader, OldReader

LEMMA DiscoveryStep ==
  ASSUME WatchInv, [WatchNext]_watchVars
  PROVE  DiscoveryInv'
  <1>. USE DEF WatchInv, DiscoveryInv
  <1>1. ASSUME NEW k \in PodKeys, CreatePacked(k) PROVE DiscoveryInv'
    BY <1>1 DEF CreatePacked, pod, server, reader, bounds
  <1>2. ASSUME NEW k \in PodKeys, PublishStarting(k) PROVE DiscoveryInv'
    BY <1>2 DEF PublishStarting, pod, server, reader, bounds
  <1>3. ASSUME NEW k \in PodKeys, Ready(k) PROVE DiscoveryInv'
    BY <1>3 DEF Ready, pod, server, reader, bounds
  <1>4. ASSUME NEW k \in PodKeys, PublishRunning(k) PROVE DiscoveryInv'
    BY <1>4 DEF PublishRunning, pod, server, reader, bounds
  <1>5. ASSUME NEW k \in PodKeys, Stop(k) PROVE DiscoveryInv'
    BY <1>5 DEF Stop, pod, server, reader, bounds
  <1>6. ASSUME NEW k \in PodKeys, PublishStopping(k) PROVE DiscoveryInv'
    BY <1>6 DEF PublishStopping, pod, server, reader, bounds
  <1>7. ASSUME NEW k \in PodKeys, Forget(k) PROVE DiscoveryInv'
    BY <1>7 DEF Forget, pod, server, reader, bounds
  <1>8. ASSUME NEW k \in PodKeys, NEW s \in Late, PublishLate(k, s) PROVE DiscoveryInv'
    BY <1>8 DEF PublishLate, pod, server, reader, bounds
  <1>9. CASE PodDies
    BY <1>9 DEF PodDies, pod, server, reader, bounds
  <1>10. CASE Partition
    BY <1>10 DEF Partition, pod, server, reader, bounds
  <1>11. CASE Heal
    BY <1>11 DEF Heal, pod, server, reader, bounds
  <1>12. CASE Snapshot
    BY <1>12 DEF Snapshot, pod, server, reader, bounds
  <1>13. CASE Forward
    BY <1>13 DEF Forward, pod, server, reader, bounds
  <1>14. CASE Connect
    BY <1>14 DEF Connect, pod, server, reader, bounds
  <1>15. CASE ConnectFails
    BY <1>15 DEF ConnectFails, pod, server, reader, bounds
  <1>16. CASE Backoff
    BY <1>16 DEF Backoff, pod, server, reader, bounds
  <1>17. CASE Scan
    BY <1>17 DEF Scan, pod, server, reader, bounds
  <1>18. CASE Send
    BY <1>18 DEF Send, pod, server, reader, bounds
  <1>19. CASE SendAbandoned
    BY <1>19 DEF SendAbandoned, pod, server, reader, bounds
  <1>20. CASE Break
    BY <1>20 DEF Break, pod, server, reader, bounds
  <1>21. CASE StreamCancelled
    BY <1>21 DEF StreamCancelled, pod, server, reader, bounds
  <1>22. ASSUME NEW i \in DOMAIN old, OldSends(i) PROVE DiscoveryInv'
    BY <1>22 DEF OldSends, pod, server, reader, bounds
  <1>23. CASE EmitDestroyed
    BY <1>23 DEF EmitDestroyed, pod, server, reader, bounds
  <1>24. CASE Refresh
    <2>1. alive \in BOOLEAN /\ listed \in BOOLEAN
      BY DEF WatchTypeOK
    <2>. QED  BY <1>24, <2>1 DEF Refresh, pod, server, reader, bounds
  <1>25. CASE Follow
    BY <1>25 DEF Follow, pod, server, reader, bounds
  <1>26. CASE Drop
    BY <1>26 DEF Drop, Unfollowed, pod, server, reader, bounds
  <1>27. CASE Consume
    BY <1>27 DEF Consume, pod, server, reader, bounds
  <1>28. CASE Leave
    BY <1>28 DEF Leave, pod, server, reader, bounds
  <1>29. CASE UNCHANGED watchVars
    BY <1>29 DEF watchVars, pod, server, reader, bounds
  <1>30. ASSUME NEW i \in DOMAIN old, OldAbandons(i) PROVE DiscoveryInv'
    BY <1>30 DEF OldAbandons, pod, server, reader, bounds
  <1>31. ASSUME NEW i \in DOMAIN old, OldDestroys(i) PROVE DiscoveryInv'
    BY <1>31 DEF OldDestroys, pod, server, reader, bounds
  <1>32. CASE RefreshFails
    BY <1>32 DEF RefreshFails, pod, server, reader, bounds
  <1>. QED
    BY <1>1, <1>2, <1>3, <1>4, <1>5, <1>6, <1>7, <1>8, <1>9, <1>10, <1>11, <1>12, <1>13, <1>14, <1>15,
       <1>16, <1>17, <1>18, <1>19, <1>20, <1>21, <1>22, <1>23, <1>24, <1>25, <1>26, <1>27, <1>28, <1>29,
       <1>30, <1>31, <1>32
    DEF WatchNext, PodStep, Reader, OldReader

LEMMA SandboxStep ==
  ASSUME WatchInv, [WatchNext]_watchVars
  PROVE  SandboxInv'
  <1>. USE DEF WatchInv, SandboxInv
  <1>1. ASSUME NEW k \in PodKeys, CreatePacked(k) PROVE SandboxInv'
    <2>1. sb \in [PodKeys -> {"none", "starting", "running", "stopping"}]
          /\ creator \in [PodKeys -> {"idle", "starting", "booting", "ready"}]
          /\ teardown \in [PodKeys -> {"idle", "stopping", "freeing"}]
      BY DEF WatchTypeOK
    <2>. QED  BY <1>1, <2>1 DEF CreatePacked
  <1>2. ASSUME NEW k \in PodKeys, PublishStarting(k) PROVE SandboxInv'
    <2>1. sb \in [PodKeys -> {"none", "starting", "running", "stopping"}]
          /\ creator \in [PodKeys -> {"idle", "starting", "booting", "ready"}]
          /\ teardown \in [PodKeys -> {"idle", "stopping", "freeing"}]
      BY DEF WatchTypeOK
    <2>. QED  BY <1>2, <2>1 DEF PublishStarting
  <1>3. ASSUME NEW k \in PodKeys, Ready(k) PROVE SandboxInv'
    <2>1. sb \in [PodKeys -> {"none", "starting", "running", "stopping"}]
          /\ creator \in [PodKeys -> {"idle", "starting", "booting", "ready"}]
          /\ teardown \in [PodKeys -> {"idle", "stopping", "freeing"}]
      BY DEF WatchTypeOK
    <2>. QED  BY <1>3, <2>1 DEF Ready
  <1>4. ASSUME NEW k \in PodKeys, PublishRunning(k) PROVE SandboxInv'
    <2>1. sb \in [PodKeys -> {"none", "starting", "running", "stopping"}]
          /\ creator \in [PodKeys -> {"idle", "starting", "booting", "ready"}]
          /\ teardown \in [PodKeys -> {"idle", "stopping", "freeing"}]
      BY DEF WatchTypeOK
    <2>. QED  BY <1>4, <2>1 DEF PublishRunning
  <1>5. ASSUME NEW k \in PodKeys, Stop(k) PROVE SandboxInv'
    <2>1. sb \in [PodKeys -> {"none", "starting", "running", "stopping"}]
          /\ creator \in [PodKeys -> {"idle", "starting", "booting", "ready"}]
          /\ teardown \in [PodKeys -> {"idle", "stopping", "freeing"}]
      BY DEF WatchTypeOK
    <2>. QED  BY <1>5, <2>1 DEF Stop
  <1>6. ASSUME NEW k \in PodKeys, PublishStopping(k) PROVE SandboxInv'
    <2>1. sb \in [PodKeys -> {"none", "starting", "running", "stopping"}]
          /\ creator \in [PodKeys -> {"idle", "starting", "booting", "ready"}]
          /\ teardown \in [PodKeys -> {"idle", "stopping", "freeing"}]
      BY DEF WatchTypeOK
    <2>. QED  BY <1>6, <2>1 DEF PublishStopping
  <1>7. ASSUME NEW k \in PodKeys, Forget(k) PROVE SandboxInv'
    <2>1. sb \in [PodKeys -> {"none", "starting", "running", "stopping"}]
          /\ creator \in [PodKeys -> {"idle", "starting", "booting", "ready"}]
          /\ teardown \in [PodKeys -> {"idle", "stopping", "freeing"}]
      BY DEF WatchTypeOK
    <2>. QED  BY <1>7, <2>1 DEF Forget
  <1>8. ASSUME NEW k \in PodKeys, NEW s \in Late, PublishLate(k, s) PROVE SandboxInv'
    <2>1. sb \in [PodKeys -> {"none", "starting", "running", "stopping"}]
          /\ creator \in [PodKeys -> {"idle", "starting", "booting", "ready"}]
          /\ teardown \in [PodKeys -> {"idle", "stopping", "freeing"}]
      BY DEF WatchTypeOK
    <2>. QED  BY <1>8, <2>1 DEF PublishLate
  <1>9. CASE PodDies
    BY <1>9 DEF PodDies, pod, server, reader, bounds
  <1>10. CASE Partition
    BY <1>10 DEF Partition, pod, server, reader, bounds
  <1>11. CASE Heal
    BY <1>11 DEF Heal, pod, server, reader, bounds
  <1>12. CASE Snapshot
    BY <1>12 DEF Snapshot, pod, server, reader, bounds
  <1>13. CASE Forward
    BY <1>13 DEF Forward, pod, server, reader, bounds
  <1>14. CASE Connect
    BY <1>14 DEF Connect, pod, server, reader, bounds
  <1>15. CASE ConnectFails
    BY <1>15 DEF ConnectFails, pod, server, reader, bounds
  <1>16. CASE Backoff
    BY <1>16 DEF Backoff, pod, server, reader, bounds
  <1>17. CASE Scan
    BY <1>17 DEF Scan, pod, server, reader, bounds
  <1>18. CASE Send
    BY <1>18 DEF Send, pod, server, reader, bounds
  <1>19. CASE SendAbandoned
    BY <1>19 DEF SendAbandoned, pod, server, reader, bounds
  <1>20. CASE Break
    BY <1>20 DEF Break, pod, server, reader, bounds
  <1>21. CASE StreamCancelled
    BY <1>21 DEF StreamCancelled, pod, server, reader, bounds
  <1>22. ASSUME NEW i \in DOMAIN old, OldSends(i) PROVE SandboxInv'
    BY <1>22 DEF OldSends, pod, server, reader, bounds
  <1>23. CASE EmitDestroyed
    BY <1>23 DEF EmitDestroyed, pod, server, reader, bounds
  <1>24. CASE Refresh
    BY <1>24 DEF Refresh, pod, server, reader, bounds
  <1>25. CASE Follow
    BY <1>25 DEF Follow, pod, server, reader, bounds
  <1>26. CASE Drop
    BY <1>26 DEF Drop, Unfollowed, pod, server, reader, bounds
  <1>27. CASE Consume
    BY <1>27 DEF Consume, pod, server, reader, bounds
  <1>28. CASE Leave
    BY <1>28 DEF Leave, pod, server, reader, bounds
  <1>29. CASE UNCHANGED watchVars
    BY <1>29 DEF watchVars, pod, server, reader, bounds
  <1>30. ASSUME NEW i \in DOMAIN old, OldAbandons(i) PROVE SandboxInv'
    BY <1>30 DEF OldAbandons, pod, server, reader, bounds
  <1>31. ASSUME NEW i \in DOMAIN old, OldDestroys(i) PROVE SandboxInv'
    BY <1>31 DEF OldDestroys, pod, server, reader, bounds
  <1>32. CASE RefreshFails
    BY <1>32 DEF RefreshFails, pod, server, reader, bounds
  <1>. QED
    BY <1>1, <1>2, <1>3, <1>4, <1>5, <1>6, <1>7, <1>8, <1>9, <1>10, <1>11, <1>12, <1>13, <1>14, <1>15,
       <1>16, <1>17, <1>18, <1>19, <1>20, <1>21, <1>22, <1>23, <1>24, <1>25, <1>26, <1>27, <1>28, <1>29,
       <1>30, <1>31, <1>32
    DEF WatchNext, PodStep, Reader, OldReader

LEMMA ToldStep ==
  ASSUME WatchInv, [WatchNext]_watchVars
  PROVE  ToldInv'
  <1>1. ASSUME NEW k \in PodKeys, CreatePacked(k) PROVE ToldInv'
    <2>1. sb \in [PodKeys -> {"none", "starting", "running", "stopping"}]
          /\ creator \in [PodKeys -> {"idle", "starting", "booting", "ready"}]
          /\ teardown \in [PodKeys -> {"idle", "stopping", "freeing"}]
      BY DEF WatchInv, WatchTypeOK
    <2>2. UNCHANGED <<alive, left, astray, ch, wire, pc, pending, out, view>>
      BY <1>1 DEF CreatePacked, server, reader
    <2>3. \A j \in PodKeys : j # k =>
            creator'[j] = creator[j] /\ teardown'[j] = teardown[j] /\ sb'[j] = sb[j]
      BY <1>1, <2>1 DEF CreatePacked
    <2>4. Published(k)' => Published(k) /\ (IsUp(k)' <=> IsUp(k))
      BY <1>1, <2>1 DEF CreatePacked, Published, IsUp, Ups, WatchInv, SandboxInv
    <2>. QED  BY <2>2, <2>3, <2>4, MapTold
  <1>2. ASSUME NEW k \in PodKeys, PublishStarting(k) PROVE ToldInv'
    <2>1. sb \in [PodKeys -> {"none", "starting", "running", "stopping"}]
          /\ creator \in [PodKeys -> {"idle", "starting", "booting", "ready"}]
          /\ teardown \in [PodKeys -> {"idle", "stopping", "freeing"}]
      BY DEF WatchInv, WatchTypeOK
    <2>2. "starting" \in Statuses /\ Publish(k, "starting")
          /\ UNCHANGED <<alive, left, wire, pc, pending, out, view, sb>>
      BY <1>2 DEF PublishStarting, Statuses, reader
    <2>3. \A j \in PodKeys : j # k => creator'[j] = creator[j] /\ teardown'[j] = teardown[j]
      BY <1>2, <2>1 DEF PublishStarting
    <2>. QED  BY <2>2, <2>3, PublishTold
  <1>3. ASSUME NEW k \in PodKeys, Ready(k) PROVE ToldInv'
    <2>1. sb \in [PodKeys -> {"none", "starting", "running", "stopping"}]
          /\ creator \in [PodKeys -> {"idle", "starting", "booting", "ready"}]
          /\ teardown \in [PodKeys -> {"idle", "stopping", "freeing"}]
      BY DEF WatchInv, WatchTypeOK
    <2>2. UNCHANGED <<alive, left, astray, ch, wire, pc, pending, out, view>>
      BY <1>3 DEF Ready, server, reader
    <2>3. \A j \in PodKeys : j # k =>
            creator'[j] = creator[j] /\ teardown'[j] = teardown[j] /\ sb'[j] = sb[j]
      BY <1>3, <2>1 DEF Ready
    <2>4. Published(k)' => Published(k) /\ (IsUp(k)' <=> IsUp(k))
      BY <1>3, <2>1 DEF Ready, Published, IsUp, Ups, WatchInv, SandboxInv
    <2>. QED  BY <2>2, <2>3, <2>4, MapTold
  <1>4. ASSUME NEW k \in PodKeys, PublishRunning(k) PROVE ToldInv'
    <2>1. sb \in [PodKeys -> {"none", "starting", "running", "stopping"}]
          /\ creator \in [PodKeys -> {"idle", "starting", "booting", "ready"}]
          /\ teardown \in [PodKeys -> {"idle", "stopping", "freeing"}]
      BY DEF WatchInv, WatchTypeOK
    <2>2. "running" \in Statuses /\ Publish(k, "running")
          /\ UNCHANGED <<alive, left, wire, pc, pending, out, view, sb>>
      BY <1>4 DEF PublishRunning, Statuses, reader
    <2>3. \A j \in PodKeys : j # k => creator'[j] = creator[j] /\ teardown'[j] = teardown[j]
      BY <1>4, <2>1 DEF PublishRunning
    <2>. QED  BY <2>2, <2>3, PublishTold
  <1>5. ASSUME NEW k \in PodKeys, Stop(k) PROVE ToldInv'
    <2>1. sb \in [PodKeys -> {"none", "starting", "running", "stopping"}]
          /\ creator \in [PodKeys -> {"idle", "starting", "booting", "ready"}]
          /\ teardown \in [PodKeys -> {"idle", "stopping", "freeing"}]
      BY DEF WatchInv, WatchTypeOK
    <2>2. UNCHANGED <<alive, left, astray, ch, wire, pc, pending, out, view>>
      BY <1>5 DEF Stop, server, reader
    <2>3. \A j \in PodKeys : j # k =>
            creator'[j] = creator[j] /\ teardown'[j] = teardown[j] /\ sb'[j] = sb[j]
      BY <1>5, <2>1 DEF Stop
    <2>4. Published(k)' => Published(k) /\ (IsUp(k)' <=> IsUp(k))
      BY <1>5, <2>1 DEF Stop, Published, IsUp, Ups, WatchInv, SandboxInv
    <2>. QED  BY <2>2, <2>3, <2>4, MapTold
  <1>6. ASSUME NEW k \in PodKeys, PublishStopping(k) PROVE ToldInv'
    <2>1. sb \in [PodKeys -> {"none", "starting", "running", "stopping"}]
          /\ creator \in [PodKeys -> {"idle", "starting", "booting", "ready"}]
          /\ teardown \in [PodKeys -> {"idle", "stopping", "freeing"}]
      BY DEF WatchInv, WatchTypeOK
    <2>2. "stopping" \in Statuses /\ Publish(k, "stopping")
          /\ UNCHANGED <<alive, left, wire, pc, pending, out, view, sb>>
      BY <1>6 DEF PublishStopping, Statuses, reader
    <2>3. \A j \in PodKeys : j # k => creator'[j] = creator[j] /\ teardown'[j] = teardown[j]
      BY <1>6, <2>1 DEF PublishStopping
    <2>. QED  BY <2>2, <2>3, PublishTold
  <1>7. ASSUME NEW k \in PodKeys, Forget(k) PROVE ToldInv'
    <2>1. sb \in [PodKeys -> {"none", "starting", "running", "stopping"}]
          /\ creator \in [PodKeys -> {"idle", "starting", "booting", "ready"}]
          /\ teardown \in [PodKeys -> {"idle", "stopping", "freeing"}]
      BY DEF WatchInv, WatchTypeOK
    <2>2. UNCHANGED <<alive, left, astray, ch, wire, pc, pending, out, view>>
      BY <1>7 DEF Forget, server, reader
    <2>3. \A j \in PodKeys : j # k =>
            creator'[j] = creator[j] /\ teardown'[j] = teardown[j] /\ sb'[j] = sb[j]
      BY <1>7, <2>1 DEF Forget
    <2>4. Published(k)' => Published(k) /\ (IsUp(k)' <=> IsUp(k))
      BY <1>7, <2>1 DEF Forget, Published, IsUp, Ups, WatchInv, SandboxInv
    <2>. QED  BY <2>2, <2>3, <2>4, MapTold
  <1>8. ASSUME NEW k \in PodKeys, NEW s \in Late, PublishLate(k, s) PROVE ToldInv'
    <2>1. sb \in [PodKeys -> {"none", "starting", "running", "stopping"}]
          /\ creator \in [PodKeys -> {"idle", "starting", "booting", "ready"}]
          /\ teardown \in [PodKeys -> {"idle", "stopping", "freeing"}]
      BY DEF WatchInv, WatchTypeOK
    <2>2. s \in Statuses /\ Publish(k, s)
          /\ UNCHANGED <<alive, left, wire, pc, pending, out, view, sb>>
      BY <1>8 DEF PublishLate, Late, Statuses, reader
    <2>3. \A j \in PodKeys : j # k => creator'[j] = creator[j] /\ teardown'[j] = teardown[j]
      BY <1>8, <2>1 DEF PublishLate
    <2>. QED  BY <2>2, <2>3, PublishTold
  <1>9. CASE PodDies
    BY <1>9 DEF PodDies, ToldInv, Following
  <1>10. CASE Partition
    <2>1. UNCHANGED <<sb, creator, teardown, astray>> /\ (Following' => Following)
      BY <1>10 DEF Partition, Following, pod, reader
    <2>2. UNCHANGED <<ch, wire, pending, out, view>> /\ (pc' = "send" <=> pc = "send")
      BY <1>10 DEF Partition, server, reader
    <2>. QED  BY <2>1, <2>2, ToldSame, ToldKept DEF WatchInv
  <1>11. CASE Heal
    <2>1. UNCHANGED <<sb, creator, teardown, astray>> /\ (Following' => Following)
      BY <1>11 DEF Heal, Following, pod, reader
    <2>2. UNCHANGED <<ch, wire, pending, out, view>> /\ (pc' = "send" <=> pc = "send")
      BY <1>11 DEF Heal, server, reader
    <2>. QED  BY <2>1, <2>2, ToldSame, ToldKept DEF WatchInv
  <1>12. CASE Snapshot
    BY <1>12, SnapshotTold
  <1>13. CASE Forward
    BY <1>13, ForwardTold
  <1>14. CASE Connect
    <2>1. UNCHANGED <<sb, creator, teardown, astray, pending, out, view>> /\ (Following' => Following)
          /\ pc = "connect" /\ pc' = "read" /\ ch' = <<>> /\ wire' = <<>>
      BY <1>14 DEF Connect, Following, pod
    <2>2. ch = <<>> /\ wire = <<>>
      BY <2>1 DEF WatchInv, StreamInv
    <2>. QED  BY <2>1, <2>2, ToldSame, ToldKept DEF WatchInv
  <1>15. CASE ConnectFails
    <2>1. UNCHANGED <<sb, creator, teardown, astray>> /\ (Following' => Following)
      BY <1>15 DEF ConnectFails, Following, pod, reader
    <2>2. UNCHANGED <<ch, wire, pending, out, view>> /\ (pc' = "send" <=> pc = "send")
      BY <1>15 DEF ConnectFails, server, reader
    <2>. QED  BY <2>1, <2>2, ToldSame, ToldKept DEF WatchInv
  <1>16. CASE Backoff
    <2>1. UNCHANGED <<sb, creator, teardown, astray>> /\ (Following' => Following)
      BY <1>16 DEF Backoff, Following, pod, reader
    <2>2. UNCHANGED <<ch, wire, pending, out, view>> /\ (pc' = "send" <=> pc = "send")
      BY <1>16 DEF Backoff, server, reader
    <2>. QED  BY <2>1, <2>2, ToldSame, ToldKept DEF WatchInv
  <1>17. CASE Scan
    BY <1>17, ScanTold
  <1>18. CASE Send
    BY <1>18, SendTold
  <1>19. CASE SendAbandoned
    BY <1>19 DEF SendAbandoned, ToldInv, Following
  <1>20. CASE Break
    <2>1. UNCHANGED <<sb, creator, teardown, pending, out, view>> /\ (Following' => Following)
          /\ pc = "read" /\ pc' # "send" /\ ch' = <<>> /\ wire' = <<>>
          /\ astray' = astray \cup KeysOf(ch) \cup KeysOf(wire)
      BY <1>20 DEF Break, Following, pod
    <2>2. \A k \in PodKeys \ astray' : Told(k)' <=> Told(k)
      BY <2>1, KeysOfEmpty DEF Told
    <2>. QED  BY <2>1, <2>2, ToldKept DEF WatchInv
  <1>21. CASE StreamCancelled
    BY <1>21 DEF StreamCancelled, ToldInv, Following
  <1>22. ASSUME NEW i \in DOMAIN old, OldSends(i) PROVE ToldInv'
    <2>1. old[i].pending \in PodKeys \X Actions
      BY <1>22, OldEntry DEF OldSends, WatchInv
    <2>. DEFINE m == old[i].pending
    <2>2. /\ out' = Append(out, m) /\ astray' = Misled(m[1], m[2]) /\ Len(out) < OutCap
          /\ UNCHANGED <<alive, left, sb, creator, teardown, ch, wire, pc, pending, view>>
      BY <1>22 DEF OldSends, pod, server, reader
    <2>. HIDE DEF m
    <2>. QED  BY <2>1, <2>2, StaleTold DEF m
  <1>23. CASE EmitDestroyed
    <2>1. pc' \in {"destroying", "ended"}
      BY <1>23 DEF EmitDestroyed
    <2>. QED  BY <2>1 DEF ToldInv, Following
  <1>24. CASE Refresh
    <2>1. UNCHANGED <<sb, creator, teardown, astray>> /\ (Following' => Following)
      BY <1>24 DEF Refresh, Following, pod, reader
    <2>2. UNCHANGED <<ch, wire, pending, out, view>> /\ (pc' = "send" <=> pc = "send")
      BY <1>24 DEF Refresh, server, reader
    <2>. QED  BY <2>1, <2>2, ToldSame, ToldKept DEF WatchInv
  <1>25. CASE Follow
    <2>1. UNCHANGED <<sb, creator, teardown, astray, ch, wire, pending, out, view, alive, left>>
          /\ ~followed /\ listed /\ pc' = "connect"
      BY <1>25 DEF Follow, pod, server
    <2>2. pc = "none"
      BY <2>1 DEF WatchInv, DiscoveryInv
    <2>3. Following' => Following
      BY <2>1, <2>2 DEF Following
    <2>. QED  BY <2>1, <2>2, <2>3, ToldSame, ToldKept DEF WatchInv
  <1>26. CASE Drop
    <2>. SUFFICES ASSUME Following', NEW k \in PodKeys \ astray', Published(k)'
                  PROVE  Told(k)' <=> IsUp(k)'
      BY DEF ToldInv
    <2>1. UNCHANGED <<alive, left, sb, creator, teardown, out, view>> /\ pc' = "none" /\ ch' = <<>> /\ wire' = <<>>
          /\ astray' = IF pc \in {"destroying", "ended"} THEN PodKeys ELSE astray \cup UnderWay
      BY <1>26 DEF Drop, Unfollowed, pod
    <2>2. Following /\ k \notin astray /\ k \notin UnderWay /\ Published(k) /\ (IsUp(k)' <=> IsUp(k))
      BY <2>1 DEF Following, Published, IsUp
    <2>3. k \notin KeysOf(ch) /\ k \notin KeysOf(wire) /\ (pc = "send" => pending[1] # k)
      BY <2>2, UnderWayKeys
    <2>4. Told(k)' <=> Told(k)
      BY <2>1, <2>3, KeysOfEmpty DEF Told
    <2>. QED  BY <2>2, <2>4 DEF WatchInv, ToldInv
  <1>27. CASE Consume
    BY <1>27, ConsumeTold
  <1>28. CASE Leave
    BY <1>28 DEF Leave, ToldInv, Following
  <1>29. CASE UNCHANGED watchVars
    <2>1. UNCHANGED <<sb, creator, teardown, astray>> /\ (Following' => Following)
      BY <1>29 DEF watchVars, Following, pod, reader
    <2>2. UNCHANGED <<ch, wire, pending, out, view>> /\ (pc' = "send" <=> pc = "send")
      BY <1>29 DEF watchVars, server, reader
    <2>. QED  BY <2>1, <2>2, ToldSame, ToldKept DEF WatchInv
  <1>30. ASSUME NEW i \in DOMAIN old, OldAbandons(i) PROVE ToldInv'
    <2>1. UNCHANGED <<sb, creator, teardown, astray>> /\ (Following' => Following)
      BY <1>30 DEF OldAbandons, Following, pod, reader
    <2>2. UNCHANGED <<ch, wire, pending, out, view>> /\ (pc' = "send" <=> pc = "send")
      BY <1>30 DEF OldAbandons, server, reader
    <2>. QED  BY <2>1, <2>2, ToldSame, ToldKept DEF WatchInv
  <1>31. ASSUME NEW i \in DOMAIN old, OldDestroys(i) PROVE ToldInv'
    <2>1. PICK k \in old[i].hosted :
            /\ out' = Append(out, <<k, "destroy">>) /\ astray' = Misled(k, "destroy") /\ Len(out) < OutCap
            /\ UNCHANGED <<alive, left, sb, creator, teardown, ch, wire, pc, pending, view>>
      BY <1>31 DEF OldDestroys, pod, server, reader
    <2>. DEFINE m == <<k, "destroy">>
    <2>2. m \in PodKeys \X Actions /\ m[1] = k /\ m[2] = "destroy"
      BY <2>1, <1>31, OldEntry DEF WatchInv, Actions
    <2>3. out' = Append(out, m) /\ astray' = Misled(m[1], m[2])
      BY <2>1, <2>2
    <2>. HIDE DEF m
    <2>. QED  BY <2>1, <2>2, <2>3, StaleTold
  <1>32. CASE RefreshFails
    <2>1. UNCHANGED <<sb, creator, teardown, astray>> /\ (Following' => Following)
      BY <1>32 DEF RefreshFails, Following, pod, reader
    <2>2. UNCHANGED <<ch, wire, pending, out, view>> /\ (pc' = "send" <=> pc = "send")
      BY <1>32 DEF RefreshFails, server, reader
    <2>. QED  BY <2>1, <2>2, ToldSame, ToldKept DEF WatchInv
  <1>. QED
    BY <1>1, <1>2, <1>3, <1>4, <1>5, <1>6, <1>7, <1>8, <1>9, <1>10, <1>11, <1>12, <1>13, <1>14, <1>15,
       <1>16, <1>17, <1>18, <1>19, <1>20, <1>21, <1>22, <1>23, <1>24, <1>25, <1>26, <1>27, <1>28, <1>29,
       <1>30, <1>31, <1>32
    DEF WatchNext, PodStep, Reader, OldReader

LEMMA WatchTypeStep ==
  ASSUME WatchInv, [WatchNext]_watchVars
  PROVE  WatchTypeOK'
  <1>1. ASSUME NEW k \in PodKeys, CreatePacked(k) PROVE WatchTypeOK'
    BY <1>1 DEF WatchInv, WatchTypeOK, CreatePacked, pod, server, reader, bounds
  <1>2. ASSUME NEW k \in PodKeys, PublishStarting(k) PROVE WatchTypeOK'
    <2>1. "starting" \in Statuses /\ Publish(k, "starting") /\ UNCHANGED <<wire, pc, pending, out, view>>
      BY <1>2 DEF PublishStarting, Statuses, reader
    <2>2. ch' \in Seq(PodKeys \X Statuses) /\ Len(ch') <= ChanCap /\ astray' \subseteq PodKeys
      BY <2>1, PublishEffect DEF WatchInv
    <2>. QED  BY <1>2, <2>2 DEF WatchInv, WatchTypeOK, PublishStarting, pod, server, reader, bounds
  <1>3. ASSUME NEW k \in PodKeys, Ready(k) PROVE WatchTypeOK'
    BY <1>3 DEF WatchInv, WatchTypeOK, Ready, pod, server, reader, bounds
  <1>4. ASSUME NEW k \in PodKeys, PublishRunning(k) PROVE WatchTypeOK'
    <2>1. "running" \in Statuses /\ Publish(k, "running") /\ UNCHANGED <<wire, pc, pending, out, view>>
      BY <1>4 DEF PublishRunning, Statuses, reader
    <2>2. ch' \in Seq(PodKeys \X Statuses) /\ Len(ch') <= ChanCap /\ astray' \subseteq PodKeys
      BY <2>1, PublishEffect DEF WatchInv
    <2>. QED  BY <1>4, <2>2 DEF WatchInv, WatchTypeOK, PublishRunning, pod, server, reader, bounds
  <1>5. ASSUME NEW k \in PodKeys, Stop(k) PROVE WatchTypeOK'
    BY <1>5 DEF WatchInv, WatchTypeOK, Stop, pod, server, reader, bounds
  <1>6. ASSUME NEW k \in PodKeys, PublishStopping(k) PROVE WatchTypeOK'
    <2>1. "stopping" \in Statuses /\ Publish(k, "stopping") /\ UNCHANGED <<wire, pc, pending, out, view>>
      BY <1>6 DEF PublishStopping, Statuses, reader
    <2>2. ch' \in Seq(PodKeys \X Statuses) /\ Len(ch') <= ChanCap /\ astray' \subseteq PodKeys
      BY <2>1, PublishEffect DEF WatchInv
    <2>. QED  BY <1>6, <2>2 DEF WatchInv, WatchTypeOK, PublishStopping, pod, server, reader, bounds
  <1>7. ASSUME NEW k \in PodKeys, Forget(k) PROVE WatchTypeOK'
    <2>1. owes' \in [PodKeys -> [Late -> Nat]]
      <3>1. PICK n \in {0, 1} : owes' = [owes EXCEPT ![k] = [running |-> @.running + n, stopped |-> @.stopped + 1]]
        BY <1>7 DEF Forget
      <3>2. [running |-> owes[k].running + n, stopped |-> owes[k].stopped + 1] \in [Late -> Nat]
        BY DEF WatchInv, WatchTypeOK, Late
      <3>. QED  BY <3>1, <3>2 DEF WatchInv, WatchTypeOK
    <2>. QED  BY <1>7, <2>1 DEF WatchInv, WatchTypeOK, Forget, pod, server, reader, bounds
  <1>8. ASSUME NEW k \in PodKeys, NEW s \in Late, PublishLate(k, s) PROVE WatchTypeOK'
    <2>1. s \in Statuses /\ Publish(k, s) /\ UNCHANGED <<wire, pc, pending, out, view>>
      BY <1>8 DEF PublishLate, Late, Statuses, reader
    <2>2. ch' \in Seq(PodKeys \X Statuses) /\ Len(ch') <= ChanCap /\ astray' \subseteq PodKeys
      BY <2>1, PublishEffect DEF WatchInv
    <2>3. owes' \in [PodKeys -> [Late -> Nat]]
      BY <1>8 DEF PublishLate, WatchInv, WatchTypeOK
    <2>. QED  BY <1>8, <2>2, <2>3 DEF WatchInv, WatchTypeOK, PublishLate, pod, server, reader, bounds
  <1>9. CASE PodDies
    <2>1. <<>> \in Seq(PodKeys \X Statuses) /\ Len(<<>>) = 0
      OBVIOUS
    <2>2. ChanCap \in Nat /\ WireCap \in Nat /\ Cardinality(PodKeys) \in Nat
      BY WatchAssumption, FS_CardinalityType
    <2>3. {alive', reachable', listed', followed', down', left'} \subseteq BOOLEAN
      BY <1>9 DEF WatchInv, WatchTypeOK, PodDies, reader
    <2>4. /\ sb' = [k \in PodKeys |-> "none"] /\ sub' = "none" /\ ch' = <<>>
          /\ creator' = [k \in PodKeys |-> "idle"] /\ teardown' = [k \in PodKeys |-> "idle"]
          /\ owes' = [k \in PodKeys |-> [s \in Late |-> 0]]
          /\ UNCHANGED <<wire, pc, hosted, pending, old, out, view, astray, lost, creates, drops>>
      BY <1>9 DEF PodDies, reader, bounds
    <2>. QED  BY <2>1, <2>2, <2>3, <2>4 DEF WatchInv, WatchTypeOK
  <1>10. CASE Partition
    <2>1. {alive', reachable', listed', followed', down', left'} \subseteq BOOLEAN
      BY <1>10 DEF WatchInv, WatchTypeOK, Partition, reader
    <2>2. UNCHANGED <<sb, creator, teardown, owes, server, pc, hosted, pending, old, out, view, astray, lost, creates>>
          /\ drops' = drops + 1
      BY <1>10 DEF Partition, reader
    <2>. QED  BY <2>1, <2>2 DEF WatchInv, WatchTypeOK, server
  <1>11. CASE Heal
    BY <1>11 DEF WatchInv, WatchTypeOK, Heal, pod, server, reader, bounds
  <1>12. CASE Snapshot
    <2>1. wire' \in Seq(PodKeys \X Statuses) /\ Len(wire') <= WireCap + Cardinality(PodKeys)
      BY <1>12, SnapshotTold
    <2>2. UNCHANGED <<pod, ch, reader, listed, followed, old, out, view, lost, left, bounds>>
          /\ sub' = "streaming" /\ astray' \subseteq astray
      BY <1>12 DEF Snapshot
    <2>. QED  BY <2>1, <2>2 DEF WatchInv, WatchTypeOK, pod, server, reader, bounds
  <1>13. CASE Forward
    <2>1. /\ wire' \in Seq(PodKeys \X Statuses) /\ Len(wire') <= WireCap + Cardinality(PodKeys)
          /\ ch' \in Seq(PodKeys \X Statuses) /\ Len(ch') <= ChanCap
      BY <1>13, ForwardTold
    <2>. QED  BY <1>13, <2>1 DEF WatchInv, WatchTypeOK, Forward, pod, server, reader, bounds
  <1>14. CASE Connect
    <2>1. <<>> \in Seq(PodKeys \X Statuses) /\ Len(<<>>) = 0
      OBVIOUS
    <2>2. ChanCap \in Nat /\ WireCap \in Nat /\ Cardinality(PodKeys) \in Nat
      BY WatchAssumption, FS_CardinalityType
    <2>. QED  BY <1>14, <2>1, <2>2 DEF WatchInv, WatchTypeOK, Connect, pod, server, reader, bounds
  <1>15. CASE ConnectFails
    BY <1>15 DEF WatchInv, WatchTypeOK, ConnectFails, pod, server, reader, bounds
  <1>16. CASE Backoff
    BY <1>16 DEF WatchInv, WatchTypeOK, Backoff, pod, server, reader, bounds
  <1>17. CASE Scan
    <2>1. /\ wire' \in Seq(PodKeys \X Statuses) /\ Len(wire') <= Len(wire) /\ pc' = "send"
          /\ pending' \in PodKeys \X Actions /\ hosted' \subseteq PodKeys
      BY <1>17, ScanTold
    <2>2. UNCHANGED <<pod, sub, ch, down, listed, followed, old, out, view, astray, lost, left, bounds>>
      BY <1>17 DEF Scan
    <2>3. Len(wire) \in Nat /\ Len(wire') \in Nat /\ WireCap \in Nat /\ Cardinality(PodKeys) \in Nat
      BY <2>1, WatchAssumption, FS_CardinalityType DEF WatchInv, WatchTypeOK
    <2>. QED  BY <2>1, <2>2, <2>3 DEF WatchInv, WatchTypeOK, pod, server, reader, bounds
  <1>18. CASE Send
    <2>1. out' \in Seq(PodKeys \X Actions) /\ Len(out') <= OutCap
      BY <1>18, SendTold
    <2>. QED  BY <1>18, <2>1 DEF WatchInv, WatchTypeOK, Send, pod, server, reader, bounds
  <1>19. CASE SendAbandoned
    <2>1. <<>> \in Seq(PodKeys \X Statuses) /\ Len(<<>>) = 0
      OBVIOUS
    <2>2. ChanCap \in Nat /\ WireCap \in Nat /\ Cardinality(PodKeys) \in Nat
      BY WatchAssumption, FS_CardinalityType
    <2>3. lost' \subseteq PodKeys
      BY <1>19 DEF SendAbandoned, WatchInv, WatchTypeOK, StreamInv
    <2>. QED  BY <1>19, <2>1, <2>2, <2>3 DEF WatchInv, WatchTypeOK, SendAbandoned, pod, server, reader, bounds
  <1>20. CASE Break
    <2>1. <<>> \in Seq(PodKeys \X Statuses) /\ Len(<<>>) = 0
      OBVIOUS
    <2>2. ChanCap \in Nat /\ WireCap \in Nat /\ Cardinality(PodKeys) \in Nat
      BY WatchAssumption, FS_CardinalityType
    <2>3. KeysOf(ch) \subseteq PodKeys /\ KeysOf(wire) \subseteq PodKeys
      BY DEF KeysOf, WatchInv, WatchTypeOK
    <2>4. {alive', reachable', listed', followed', down', left'} \subseteq BOOLEAN
      BY <1>20 DEF WatchInv, WatchTypeOK, Break, pod
    <2>5. /\ sub' = "none" /\ ch' = <<>> /\ wire' = <<>> /\ pc' \in {"backoff", "destroying"}
          /\ astray' = astray \cup KeysOf(ch) \cup KeysOf(wire)
          /\ UNCHANGED <<sb, creator, teardown, owes, hosted, pending, old, out, view, lost, creates, drops>>
      BY <1>20 DEF Break, pod, bounds
    <2>. QED  BY <2>1, <2>2, <2>3, <2>4, <2>5 DEF WatchInv, WatchTypeOK
  <1>21. CASE StreamCancelled
    <2>1. <<>> \in Seq(PodKeys \X Statuses) /\ Len(<<>>) = 0
      OBVIOUS
    <2>2. ChanCap \in Nat /\ WireCap \in Nat /\ Cardinality(PodKeys) \in Nat
      BY WatchAssumption, FS_CardinalityType
    <2>. QED  BY <1>21, <2>1, <2>2 DEF WatchInv, WatchTypeOK, StreamCancelled, pod, server, reader, bounds
  <1>22. ASSUME NEW i \in DOMAIN old, OldSends(i) PROVE WatchTypeOK'
    <2>1. old[i].pending \in PodKeys \X Actions
      BY <1>22, OldEntry DEF OldSends, WatchInv
    <2>2. out \in Seq(PodKeys \X Actions) /\ Len(out) \in Nat /\ OutCap \in Nat /\ Len(out) < OutCap
      BY <1>22, WatchAssumption DEF OldSends, WatchInv, WatchTypeOK
    <2>3. out' \in Seq(PodKeys \X Actions) /\ Len(out') <= OutCap
      BY <1>22, <2>1, <2>2 DEF OldSends
    <2>4. astray' \subseteq PodKeys
      BY <1>22, <2>1 DEF OldSends, Misled, WatchInv, WatchTypeOK
    <2>5. old' \in Seq([pending : (PodKeys \X Actions) \cup {<<>>}, hosted : SUBSET PodKeys])
      BY <1>22, OldEntry DEF OldSends, WatchInv, OldReaders
    <2>. QED  BY <1>22, <2>3, <2>4, <2>5 DEF WatchInv, WatchTypeOK, OldSends, pod, server, reader, bounds
  <1>23. CASE EmitDestroyed
    <2>1. out' \in Seq(PodKeys \X Actions) /\ Len(out') <= OutCap /\ hosted' \subseteq PodKeys
          /\ pc' \in {"destroying", "ended"}
      <3>1. out \in Seq(PodKeys \X Actions) /\ Len(out) \in Nat /\ Len(out) <= OutCap
            /\ OutCap \in Nat /\ hosted \subseteq PodKeys
        BY WatchAssumption DEF WatchInv, WatchTypeOK
      <3>2. CASE hosted' = hosted /\ out' = out
        BY <1>23, <3>1, <3>2 DEF EmitDestroyed
      <3>3. ASSUME NEW k \in hosted, Len(out) < OutCap, out' = Append(out, <<k, "destroy">>),
                   hosted' = hosted \ {k}, pc' = pc
            PROVE  out' \in Seq(PodKeys \X Actions) /\ Len(out') <= OutCap
        BY <3>1, <3>3 DEF Actions
      <3>. QED  BY <1>23, <3>1, <3>2, <3>3 DEF EmitDestroyed
    <2>. QED  BY <1>23, <2>1 DEF WatchInv, WatchTypeOK, EmitDestroyed, pod, server, reader, bounds
  <1>24. CASE Refresh
    BY <1>24 DEF WatchInv, WatchTypeOK, Refresh, pod, server, reader, bounds
  <1>25. CASE Follow
    BY <1>25 DEF WatchInv, WatchTypeOK, Follow, pod, server, reader, bounds
  <1>26. CASE Drop
    <2>1. <<>> \in Seq(PodKeys \X Statuses) /\ Len(<<>>) = 0
      OBVIOUS
    <2>2. ChanCap \in Nat /\ WireCap \in Nat /\ Cardinality(PodKeys) \in Nat
      BY WatchAssumption, FS_CardinalityType
    <2>3. UnderWay \subseteq PodKeys
      BY DEF UnderWay, KeysOf, WatchInv, WatchTypeOK
    <2>4. old' \in Seq([pending : (PodKeys \X Actions) \cup {<<>>}, hosted : SUBSET PodKeys])
      BY <1>26 DEF Drop, WatchInv, WatchTypeOK
    <2>5. {alive', reachable', listed', followed', down', left'} \subseteq BOOLEAN
      BY <1>26 DEF WatchInv, WatchTypeOK, Drop, Unfollowed, pod
    <2>6. /\ sub' = "none" /\ ch' = <<>> /\ wire' = <<>> /\ pc' = "none" /\ hosted' = {} /\ pending' = <<>>
          /\ astray' \in {PodKeys, astray \cup UnderWay}
          /\ UNCHANGED <<sb, creator, teardown, owes, out, view, lost, creates, drops>>
      BY <1>26 DEF Drop, Unfollowed, pod, bounds
    <2>. QED  BY <2>1, <2>2, <2>3, <2>4, <2>5, <2>6 DEF WatchInv, WatchTypeOK
  <1>27. CASE Consume
    <2>1. out' \in Seq(PodKeys \X Actions) /\ Len(out') <= OutCap
          /\ view' \in [PodKeys -> Actions \cup {"none"}]
      BY <1>27, ConsumeTold
    <2>. QED  BY <1>27, <2>1 DEF WatchInv, WatchTypeOK, Consume, pod, server, reader, bounds
  <1>28. CASE Leave
    BY <1>28 DEF WatchInv, WatchTypeOK, Leave, pod, server, reader, bounds
  <1>29. CASE UNCHANGED watchVars
    BY <1>29 DEF WatchInv, WatchTypeOK, watchVars, pod, server, reader, bounds
  <1>30. ASSUME NEW i \in DOMAIN old, OldAbandons(i) PROVE WatchTypeOK'
    <2>1. old[i].pending \in PodKeys \X Actions
      BY <1>30, OldEntry DEF OldAbandons, WatchInv
    <2>2. lost' \subseteq PodKeys
      BY <1>30, <2>1 DEF OldAbandons, WatchInv, WatchTypeOK
    <2>3. old' \in Seq([pending : (PodKeys \X Actions) \cup {<<>>}, hosted : SUBSET PodKeys])
      BY <1>30, OldEntry DEF OldAbandons, WatchInv, OldReaders
    <2>. QED  BY <1>30, <2>2, <2>3 DEF WatchInv, WatchTypeOK, OldAbandons, pod, server, reader, bounds
  <1>31. ASSUME NEW i \in DOMAIN old, OldDestroys(i) PROVE WatchTypeOK'
    <2>1. PICK k \in old[i].hosted :
            /\ out' = Append(out, <<k, "destroy">>) /\ astray' = Misled(k, "destroy")
            /\ old' = [old EXCEPT ![i].hosted = @ \ {k}]
      BY <1>31 DEF OldDestroys
    <2>2. k \in PodKeys
      BY <1>31, <2>1, OldEntry DEF WatchInv
    <2>3. out \in Seq(PodKeys \X Actions) /\ Len(out) \in Nat /\ OutCap \in Nat /\ Len(out) < OutCap
      BY <1>31, WatchAssumption DEF OldDestroys, WatchInv, WatchTypeOK
    <2>4. out' \in Seq(PodKeys \X Actions) /\ Len(out') <= OutCap
      BY <2>1, <2>2, <2>3 DEF Actions
    <2>5. astray' \subseteq PodKeys
      BY <2>1, <2>2 DEF Misled, WatchInv, WatchTypeOK
    <2>6. old' \in Seq([pending : (PodKeys \X Actions) \cup {<<>>}, hosted : SUBSET PodKeys])
      BY <1>31, <2>1, OldEntry DEF WatchInv, OldReaders
    <2>. QED  BY <1>31, <2>4, <2>5, <2>6 DEF WatchInv, WatchTypeOK, OldDestroys, pod, server, reader, bounds
  <1>32. CASE RefreshFails
    <2>1. {alive', reachable', listed', followed', down', left'} \subseteq BOOLEAN
      BY <1>32 DEF WatchInv, WatchTypeOK, RefreshFails, pod, reader
    <2>2. UNCHANGED <<sb, creator, teardown, owes, server, pc, hosted, pending, old, out, view, astray, lost, creates>>
          /\ drops' = drops + 1
      BY <1>32 DEF RefreshFails, pod, reader
    <2>. QED  BY <2>1, <2>2 DEF WatchInv, WatchTypeOK, server
  <1>. QED
    BY <1>1, <1>2, <1>3, <1>4, <1>5, <1>6, <1>7, <1>8, <1>9, <1>10, <1>11, <1>12, <1>13, <1>14, <1>15,
       <1>16, <1>17, <1>18, <1>19, <1>20, <1>21, <1>22, <1>23, <1>24, <1>25, <1>26, <1>27, <1>28, <1>29,
       <1>30, <1>31, <1>32
    DEF WatchNext, PodStep, Reader, OldReader

LEMMA WatchInitInv == WatchInit => WatchInv
  <1>. SUFFICES ASSUME WatchInit PROVE WatchInv
    OBVIOUS
  <1>1. <<>> \in Seq(PodKeys \X Statuses) /\ <<>> \in Seq(PodKeys \X Actions) /\ Len(<<>>) = 0
    OBVIOUS
  <1>2. ChanCap \in Nat /\ WireCap \in Nat /\ OutCap \in Nat /\ Cardinality(PodKeys) \in Nat
    BY WatchAssumption, FS_CardinalityType
  <1>3. WatchTypeOK
    <2>1. {alive, reachable, listed, followed, down, left} \subseteq BOOLEAN
      BY DEF WatchInit
    <2>2. /\ sb \in [PodKeys -> {"none", "starting", "running", "stopping"}]
          /\ creator \in [PodKeys -> {"idle", "starting", "booting", "ready"}]
          /\ teardown \in [PodKeys -> {"idle", "stopping", "freeing"}]
          /\ view \in [PodKeys -> Actions \cup {"none"}]
      BY DEF WatchInit
    <2>3. /\ sub = "none" /\ ch = <<>> /\ wire = <<>> /\ pc = "none" /\ pending = <<>> /\ out = <<>>
          /\ hosted = {} /\ astray = {} /\ lost = {} /\ creates = 0 /\ drops = 0
          /\ old = <<>> /\ owes = [k \in PodKeys |-> [s \in Late |-> 0]]
      BY DEF WatchInit
    <2>. QED  BY <1>1, <1>2, <2>1, <2>2, <2>3 DEF WatchTypeOK
  <1>4. StreamInv /\ DiscoveryInv /\ SandboxInv
    BY DEF WatchInit, StreamInv, DiscoveryInv, SandboxInv
  <1>5. \A k \in PodKeys : ~Told(k) /\ ~IsUp(k)
    BY KeysOfEmpty DEF WatchInit, Told, IsUp, Ups
  <1>. QED  BY <1>3, <1>4, <1>5 DEF WatchInv, ToldInv

(* The invariant holds whatever the pod, the network and the consumer do.   *)
THEOREM WatchInvariance == WatchSpec => []WatchInv
  <1>1. WatchInv /\ [WatchNext]_watchVars => WatchInv'
    BY WatchTypeStep, StreamStep, DiscoveryStep, SandboxStep, ToldStep DEF WatchInv
  <1>. QED  BY <1>1, WatchInitInv, PTL DEF WatchSpec

(* lifecycle.go:44: channel, wire and output stay within their sizes, and   *)
(* what is in them well formed.                                             *)
THEOREM WatchTypeCorrect == WatchSpec => []WatchTypeOK
  <1>1. WatchInv => WatchTypeOK
    BY DEF WatchInv
  <1>. QED  BY <1>1, WatchInvariance, PTL

(* handlers.go:88, docker_runtime.go:1150: a consumer that has caught up    *)
(* holds up exactly the sandboxes the pod has up, except for keys that are  *)
(* astray.                                                                  *)
THEOREM ConvergedHolds == WatchSpec => []Converged
  <1>1. WatchInv => Converged
    <2>. SUFFICES ASSUME WatchInv, CaughtUp, NEW k \in PodKeys \ astray
                  PROVE  view[k] = "start" <=> sb[k] \in Ups
      BY DEF Converged
    <2>1. Following /\ Published(k)
      BY DEF CaughtUp, Following, Published
    <2>2. Told(k) <=> view[k] = "start"
      BY KeysOfEmpty DEF CaughtUp, Told
    <2>. QED  BY <2>1, <2>2 DEF WatchInv, ToldInv, IsUp
  <1>. QED  BY <1>1, WatchInvariance, PTL
=============================================================================

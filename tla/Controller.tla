----------------------------- MODULE Controller -----------------------------
(* The controller's create path under the docker runtime                     *)
(* (internal/api/controller: controller_handlers.go, docker_runtime.go).     *)
(*                                                                           *)
(* A request for a key takes the key's lock from the keyed mutex, looks for  *)
(* the key's own container and, if there is none, starts the sandbox: packed *)
(* into the pod of its image's current build, or in a container of its own.  *)
(* Every docker command is a step, because requests for different keys run   *)
(* concurrently and docker resolves containers by name. A request that       *)
(* creates a pod leaves a goroutine behind that retires the older builds.    *)
(*                                                                           *)
(* One image reference is modelled; Builds are the image ids its tag moves   *)
(* through. Each request creates at most one container, so the uuid it gives *)
(* that container is the request itself.                                     *)
EXTENDS Naturals, FiniteSets

CONSTANTS Keys, Requests, Builds, MaxFaults, MaxTags, MaxActive

ASSUME ControllerAssumption ==
  /\ Keys # {} /\ Builds # {} /\ MaxFaults \in Nat /\ MaxTags \in Nat /\ MaxActive \in Nat
  /\ "nobody" \notin Requests \cup Keys \cup Builds

VARIABLES
  locks,    \* keyedMutex.locks: key -> its refLock, named by its first taker
  refs,     \* refLock.refs
  holder,   \* refLock.mu: the request inside, or Nobody
  req,      \* the requests: [pc, key, packed, lock, build, host, answer]
  tag,      \* the build the image reference resolves to
  cont,     \* docker's containers by name: [id, running, born], or NoCont
  inside,   \* container id -> keys its sandboxd serves
  clock,    \* the creation times docker has given out
  sup,      \* the supersedeOldImagePods goroutine of each request
  robbed,   \* history: supersession has stopped the youngest pod, age checked
  spared,   \* history: containers no goroutine retires, by a race or a failed command
  faults, tags

vars == <<locks, refs, holder, req, tag, cont, inside, clock, sup,
          robbed, spared, faults, tags>>

Nobody == "nobody"
Pod(b) == <<"pod", b>>       \* podNameForImage
Own(k) == <<"sandbox", k>>   \* containerNameFor
Names  == {Pod(b) : b \in Builds} \cup {Own(k) : k \in Keys}
Key(r) == req[r].key
NoReq  == [pc |-> "idle", key |-> Nobody, packed |-> TRUE, lock |-> Nobody,
           build |-> Nobody, host |-> Nobody, answer |-> "none"]
NoCont == [id |-> Nobody, running |-> FALSE, born |-> 0]
NoSup  == [pc |-> "none", keep |-> <<>>, born |-> 0, todo |-> {}, cur |-> <<>>, seen |-> Nobody]

Exists(n)    == cont[n] # NoCont
Running(n)   == Exists(n) /\ cont[n].running
Where(i)     == {n \in Names : Exists(n) /\ cont[n].id = i}
Reachable(i) == \E n \in Where(i) : Running(n)

Init ==
  /\ locks = [k \in Keys |-> Nobody]
  /\ refs = [r \in Requests |-> 0]
  /\ holder = [r \in Requests |-> Nobody]
  /\ req = [r \in Requests |-> NoReq]
  /\ tag \in Builds
  /\ cont = [n \in Names |-> NoCont]
  /\ inside = [r \in Requests |-> {}]
  /\ clock = 0
  /\ sup = [r \in Requests |-> NoSup]
  /\ robbed = FALSE /\ spared = {}
  /\ faults = 0 /\ tags = 0

keyed == <<locks, refs, holder>>
docker == <<cont, inside, clock>>
world == <<tag, tags>>
history == <<robbed, spared>>

(* Commands that fail, answers that are lost, deadlines that pass and pods    *)
(* that die are bounded together.                                             *)
Fault == faults < MaxFaults /\ faults' = faults + 1

At(r, pc) == req[r].pc = pc
Goto(r, pc) == req' = [req EXCEPT ![r].pc = pc]
Answer(r, a) == req' = [req EXCEPT ![r].pc = "unlock", ![r].answer = a]

(* docker rm -f <name>: by name, whichever container has it. *)
Removed(n) ==
  /\ cont' = [cont EXCEPT ![n] = NoCont]
  /\ inside' = IF Exists(n) THEN [inside EXCEPT ![cont[n].id] = {}] ELSE inside

-----------------------------------------------------------------------------
(* The keyed mutex. *)

Lock(r) ==
  /\ At(r, "idle")
  /\ Cardinality({s \in Requests : req[s].pc \notin {"idle", "done"}}) < MaxActive
  /\ \E p \in BOOLEAN, k \in Keys :
       LET l == IF locks[k] = Nobody THEN r ELSE locks[k]
       IN /\ locks' = [locks EXCEPT ![k] = l]
          /\ refs' = [refs EXCEPT ![l] = @ + 1]
          /\ req' = [req EXCEPT ![r].pc = "wait", ![r].key = k, ![r].packed = p, ![r].lock = l]
  /\ UNCHANGED <<holder, docker, sup, faults, world, history>>

Acquire(r) ==
  /\ At(r, "wait") /\ holder[req[r].lock] = Nobody
  /\ holder' = [holder EXCEPT ![req[r].lock] = r]
  /\ Goto(r, "lookup")
  /\ UNCHANGED <<locks, refs, docker, sup, faults, world, history>>

Unlock(r) ==
  /\ At(r, "unlock")
  /\ holder' = [holder EXCEPT ![req[r].lock] = Nobody]
  /\ Goto(r, "reclaim")
  /\ UNCHANGED <<locks, refs, docker, sup, faults, world, history>>

Reclaim_Always(r) ==
  /\ At(r, "reclaim")
  /\ refs' = [refs EXCEPT ![req[r].lock] = @ - 1]
  /\ locks' = [locks EXCEPT ![Key(r)] = Nobody]
  /\ req' = [req EXCEPT ![r] = [NoReq EXCEPT !.pc = "done"]]
  /\ UNCHANGED <<holder, docker, sup, faults, world, history>>

Reclaim(r) ==
  /\ At(r, "reclaim")
  /\ refs' = [refs EXCEPT ![req[r].lock] = @ - 1]
  /\ locks' = IF refs[req[r].lock] = 1 THEN [locks EXCEPT ![Key(r)] = Nobody] ELSE locks
  /\ req' = [req EXCEPT ![r] = [NoReq EXCEPT !.pc = "done"]]
  /\ UNCHANGED <<holder, docker, sup, faults, world, history>>

-----------------------------------------------------------------------------
(* GetOrCreateSandbox and DockerRuntime.Start. *)

(* Lookup, then Start. Only a request that holds the key's lock removes the  *)
(* key's own container, so the lookup's two inspects are one step; a request *)
(* that finds it answers 200 with its id. A packed start reads the image id; *)
(* the other one clears a lingering container of the key's name first.       *)
Lookup(r) ==
  /\ At(r, "lookup")
  /\ IF Running(Own(Key(r)))
       THEN req' = [req EXCEPT ![r].pc = "unlock", ![r].answer = "found",
                               ![r].host = cont[Own(Key(r))].id]
       ELSE req' = [req EXCEPT ![r].pc = IF req[r].packed THEN "state" ELSE "clear",
                               ![r].build = IF req[r].packed THEN tag ELSE @]
  /\ UNCHANGED <<keyed, docker, sup, faults, world, history>>

ClearOwn(r) ==
  /\ At(r, "clear")
  /\ Removed(Own(Key(r)))
  /\ Goto(r, "create")
  /\ UNCHANGED <<keyed, clock, sup, faults, world, history>>

NameOf(r) == IF req[r].packed THEN Pod(req[r].build) ELSE Own(Key(r))

PodState(r) ==
  /\ At(r, "state")
  /\ Goto(r, IF Running(NameOf(r)) THEN "podlabel" ELSE IF Exists(NameOf(r)) THEN "rm" ELSE "create")
  /\ UNCHANGED <<keyed, docker, sup, faults, world, history>>

PodLabel(r) ==
  /\ At(r, "podlabel")
  /\ IF Exists(NameOf(r))
       THEN req' = [req EXCEPT ![r].pc = "post", ![r].host = cont[NameOf(r)].id]
       ELSE Answer(r, "error")
  /\ UNCHANGED <<keyed, docker, sup, faults, world, history>>

RemoveStale(r) ==
  /\ At(r, "rm")
  /\ Removed(NameOf(r))
  /\ Goto(r, "create")
  /\ UNCHANGED <<keyed, clock, sup, faults, world, history>>

(* docker create: the name is taken atomically. The command may have done its *)
(* work and still report an error (a cancelled request).                      *)
Create(r) ==
  /\ At(r, "create")
  /\ IF Exists(NameOf(r))
       THEN Answer(r, "error") /\ UNCHANGED <<docker, faults>>
       ELSE /\ cont' = [cont EXCEPT ![NameOf(r)] =
                 [id |-> r, running |-> FALSE, born |-> clock + 1]]
            /\ clock' = clock + 1
            /\ \/ Goto(r, "boot") /\ UNCHANGED faults
               \/ Answer(r, "error") /\ Fault
            /\ UNCHANGED inside
  /\ UNCHANGED <<keyed, sup, world, history>>

StartContainer_NoSupersede(r) ==
  /\ At(r, "boot") /\ Exists(NameOf(r))
  /\ cont' = [cont EXCEPT ![NameOf(r)].running = TRUE]
  /\ req' = [req EXCEPT ![r].pc = "post", ![r].host = r]
  /\ UNCHANGED <<keyed, inside, clock, sup, faults, world, history>>

(* docker start; on success a pack pod's creator leaves a goroutine behind   *)
(* that retires the older builds. A pod that starts when a younger one runs, *)
(* whose goroutine has its list already, is missed by that goroutine.        *)
Retires(s, n, y) ==
  \/ sup[s].pc = "age" /\ sup[s].keep = y
  \/ sup[s].pc = "list" /\ sup[s].keep # n /\ cont[n].born < sup[s].born

Missed(n) ==
  \E b \in Builds : /\ Running(Pod(b)) /\ cont[Pod(b)].born > cont[n].born
                    /\ \A s \in Requests : ~Retires(s, n, Pod(b))

StartContainer(r) ==
  /\ At(r, "boot") /\ Exists(NameOf(r))
  /\ cont' = [cont EXCEPT ![NameOf(r)].running = TRUE]
  /\ req' = [req EXCEPT ![r].pc = "post", ![r].host = r]
  /\ sup' = IF req[r].packed
              THEN [sup EXCEPT ![r] = [NoSup EXCEPT !.pc = "age", !.keep = NameOf(r)]] ELSE sup
  /\ spared' = IF req[r].packed /\ Missed(NameOf(r)) THEN spared \cup {cont[NameOf(r)].id} ELSE spared
  /\ UNCHANGED <<keyed, inside, clock, faults, world, robbed>>

StartFails(r) ==
  /\ At(r, "boot")
  /\ IF Exists(NameOf(r)) THEN Fault ELSE UNCHANGED faults
  /\ Goto(r, "rmfailed")
  /\ UNCHANGED <<keyed, docker, sup, world, history>>

RemoveFailed(r) ==
  /\ At(r, "rmfailed")
  /\ Removed(NameOf(r))
  /\ Answer(r, "error")
  /\ UNCHANGED <<keyed, clock, sup, faults, world, history>>

(* packCreateSandbox: one POST that the pod accepts. The answer may be lost. *)
Post(r) ==
  /\ At(r, "post") /\ Reachable(req[r].host)
  /\ inside' = IF req[r].packed THEN inside ELSE [inside EXCEPT ![r] = {Key(r)}]
  /\ \/ Answer(r, "created") /\ UNCHANGED faults
     \/ Answer(r, "error") /\ Fault
  /\ UNCHANGED <<keyed, cont, clock, sup, world, history>>

(* The pod rejects the config, or is not reachable until the timeout. *)
PostFails(r) ==
  /\ At(r, "post")
  /\ IF Reachable(req[r].host) THEN Fault ELSE UNCHANGED faults
  /\ Answer(r, "error")
  /\ UNCHANGED <<keyed, docker, sup, world, history>>

(* Any docker query fails, the body does not bind, the image does not pull. *)
Fails(r) ==
  /\ req[r].pc \in {"lookup", "state", "podlabel", "create"}
  /\ Fault
  /\ Answer(r, "error")
  /\ UNCHANGED <<keyed, docker, sup, world, history>>

-----------------------------------------------------------------------------
(* supersedeOldImagePods: everything by name, on its own context, and none of *)
(* it retried: a command that fails is logged.                               *)

AllPods == {Pod(b) : b \in Builds}

(* The goroutine passes over what runs under these names and is older. *)
Spare(names, born) ==
  spared' = spared \cup {cont[n].id : n \in {m \in names : Running(m) /\ cont[m].born < born}}

(* Without the age of the pod to keep it stops nothing. *)
SupAge(r) ==
  /\ sup[r].pc = "age"
  /\ \/ /\ Exists(sup[r].keep)
        /\ sup' = [sup EXCEPT ![r].pc = "list", ![r].born = cont[sup[r].keep].born]
        /\ UNCHANGED <<spared, faults>>
     \/ /\ sup' = [sup EXCEPT ![r] = NoSup]
        /\ IF Exists(sup[r].keep) THEN Fault /\ Spare(AllPods, cont[sup[r].keep].born)
                                  ELSE UNCHANGED <<spared, faults>>
  /\ UNCHANGED <<keyed, req, docker, world, robbed>>

(* docker ps, or its error. *)
SupList(r) ==
  /\ sup[r].pc = "list"
  /\ \/ /\ sup' = [sup EXCEPT ![r].pc = "loop",
                     ![r].todo = {n \in AllPods : Running(n)} \ {sup[r].keep}]
        /\ UNCHANGED <<spared, faults>>
     \/ /\ Fault /\ Spare(AllPods, sup[r].born)
        /\ sup' = [sup EXCEPT ![r] = NoSup]
  /\ UNCHANGED <<keyed, req, docker, world, robbed>>

SupCheck_AnyAge(r) ==
  /\ sup[r].pc = "loop" /\ sup[r].todo # {}
  /\ \E n \in sup[r].todo :
       sup' = IF Exists(n)
                THEN [sup EXCEPT ![r].pc = "stop", ![r].cur = n, ![r].seen = cont[n].id]
                ELSE [sup EXCEPT ![r].todo = @ \ {n}]
  /\ UNCHANGED <<keyed, req, docker, faults, world, history>>

(* A pod whose age cannot be read is passed over, like one that is not older. *)
SupCheck(r) ==
  /\ sup[r].pc = "loop"
  /\ \E n \in sup[r].todo :
       \/ /\ sup' = IF Exists(n) /\ cont[n].born < sup[r].born
                     THEN [sup EXCEPT ![r].pc = "stop", ![r].cur = n, ![r].seen = cont[n].id]
                     ELSE [sup EXCEPT ![r].todo = @ \ {n}]
          /\ UNCHANGED <<spared, faults>>
       \/ /\ Exists(n) /\ Fault /\ Spare({n}, sup[r].born)
          /\ sup' = [sup EXCEPT ![r].todo = @ \ {n}]
  /\ UNCHANGED <<keyed, req, docker, world, robbed>>

(* A container of name n leaves service at the goroutine's hands. *)
Taken(r, n) ==
  robbed' = (robbed \/ /\ Running(n)
                       /\ cont[n].id = sup[r].seen
                       /\ cont[n].born = clock)

(* docker stop: the pod drains and exits, or the command fails. *)
SupStop(r) ==
  /\ sup[r].pc = "stop"
  /\ sup' = [sup EXCEPT ![r].pc = "rm"]
  /\ LET n == sup[r].cur
     IN \/ /\ Running(n)
           /\ cont' = [cont EXCEPT ![n].running = FALSE]
           /\ inside' = [inside EXCEPT ![cont[n].id] = {}]
           /\ Taken(r, n)
        \/ UNCHANGED <<cont, inside, robbed>>
  /\ UNCHANGED <<keyed, req, clock, faults, world, spared>>

(* docker rm -f, or its failure, which leaves a pod running if the stop failed too. *)
SupRemove(r) ==
  /\ sup[r].pc = "rm"
  /\ \/ /\ Removed(sup[r].cur)
        /\ Taken(r, sup[r].cur)
        /\ UNCHANGED <<spared, faults>>
     \/ /\ Exists(sup[r].cur) /\ Fault /\ Spare({sup[r].cur}, sup[r].born)
        /\ UNCHANGED <<cont, inside, robbed>>
  /\ sup' = [sup EXCEPT ![r].pc = "loop", ![r].todo = @ \ {sup[r].cur}, ![r].cur = <<>>, ![r].seen = Nobody]
  /\ UNCHANGED <<keyed, req, clock, world>>

(* The list is done, or the goroutine's own deadline has passed. *)
SupEnds(r) ==
  /\ sup[r].pc = "loop"
  /\ IF sup[r].todo = {} THEN UNCHANGED <<spared, faults>>
                         ELSE Fault /\ Spare(sup[r].todo, sup[r].born)
  /\ sup' = [sup EXCEPT ![r] = NoSup]
  /\ UNCHANGED <<keyed, req, docker, world, robbed>>

-----------------------------------------------------------------------------
(* The environment. *)

(* A rebuild, or a roll back, moves the tag. *)
Retag ==
  /\ tags < MaxTags
  /\ tags' = tags + 1
  /\ tag' \in Builds \ {tag}
  /\ UNCHANGED <<keyed, req, docker, sup, history, faults>>

(* A pod dies; its container stays, exited. A key's own container also exits *)
(* when its sandbox is shut down.                                            *)
Crash(n) ==
  /\ Running(n) /\ Fault
  /\ cont' = [cont EXCEPT ![n].running = FALSE]
  /\ inside' = [inside EXCEPT ![cont[n].id] = {}]
  /\ UNCHANGED <<keyed, req, clock, sup, history, tag, tags>>

Request(r) ==
  \/ Acquire(r) \/ Unlock(r) \/ Reclaim(r)
  \/ Lookup(r) \/ ClearOwn(r)
  \/ PodState(r) \/ PodLabel(r) \/ RemoveStale(r) \/ Create(r)
  \/ StartContainer(r) \/ StartFails(r) \/ RemoveFailed(r)
  \/ Post(r) \/ PostFails(r) \/ Fails(r)

Supersede(r) ==
  SupAge(r) \/ SupList(r) \/ SupCheck(r) \/ SupStop(r) \/ SupRemove(r) \/ SupEnds(r)

Next ==
  \/ \E r \in Requests : Lock(r) \/ Request(r) \/ Supersede(r)
  \/ Retag
  \/ \E n \in Names : Crash(n)

Spec == Init /\ [][Next]_vars

-----------------------------------------------------------------------------
ReqStates == {"idle", "wait", "lookup", "clear", "state", "podlabel", "rm", "create", "boot",
              "rmfailed", "post", "unlock", "reclaim", "done"}
SupStates == {"none", "age", "list", "loop", "stop", "rm"}

Answers == {"none", "found", "created", "error"}

ReqRec == [pc : ReqStates, key : Keys \cup {Nobody}, packed : BOOLEAN,
           lock : Requests \cup {Nobody}, build : Builds \cup {Nobody},
           host : Requests \cup {Nobody}, answer : Answers]
ContRec == [id : Requests \cup {Nobody}, running : BOOLEAN, born : Nat]
SupRec == [pc : SupStates, keep : Names \cup {<<>>}, born : Nat, todo : SUBSET Names,
           cur : Names \cup {<<>>}, seen : Requests \cup {Nobody}]

TypeOK ==
  /\ locks \in [Keys -> Requests \cup {Nobody}]
  /\ refs \in [Requests -> Nat]
  /\ holder \in [Requests -> Requests \cup {Nobody}]
  /\ req \in [Requests -> ReqRec]
  /\ tag \in Builds
  /\ cont \in [Names -> ContRec]
  /\ inside \in [Requests -> SUBSET Keys]
  /\ clock \in Nat
  /\ sup \in [Requests -> SupRec]
  /\ robbed \in BOOLEAN /\ spared \subseteq Requests \cup {Nobody}
  /\ faults \in Nat /\ tags \in Nat

Working(r) == req[r].pc \notin {"idle", "wait", "reclaim", "done"}

(* controller_handlers.go:21: two requests for one key never work at the same *)
(* time, although a key's lock is thrown away and made anew.                  *)
OneHolder ==
  \A r, s \in Requests : r # s /\ Working(r) /\ Working(s) => Key(r) # Key(s)

(* docker_runtime.go:637: whatever rebuilds, roll backs and faults overlap,   *)
(* supersession never takes the youngest pod out of service, provided the      *)
(* container it stops is the one whose age it has read (docker addresses it by *)
(* name, and the name may have been reused: see README).                       *)
YoungestSurvives == ~robbed

Quiet == \A r \in Requests : req[r].pc \in {"idle", "done"} /\ sup[r].pc = "none"

(* docker_runtime.go:125: once requests and goroutines are done, one pod per   *)
(* image reference is running, not counting the very pods a goroutine passed   *)
(* over: because one of its commands failed or its time was up, or because the *)
(* pod was started after the goroutine of a younger one had made its list.     *)
OnePodPerRef ==
  Quiet => Cardinality({b \in Builds : Running(Pod(b)) /\ cont[Pod(b)].id \notin spared}) <= 1
=============================================================================

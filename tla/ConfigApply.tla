---------------------------- MODULE ConfigApply ----------------------------
(***************************************************************************)
(* PUT /v1/<key>/config: concurrent ApplyConfig requests                   *)
(* (internal/api/handlers/config.go) on one ConfigStore                    *)
(* (internal/api/config_store.go), the config.apply event they publish,    *)
(* and the watcher goroutine of createPacked that turns it into running    *)
(* state.                                                                  *)
(*                                                                         *)
(* A config has four parts: image, boot (cpu, memory, entrypoint, cwd,     *)
(* tty, env), run (egress, fs) and events, the observed event types.  The  *)
(* event stream is the watcher's channel only, with two kinds of event.    *)
(***************************************************************************)
EXTENDS Naturals, Sequences, FiniteSets

CONSTANTS
  Requests,    \* PUT requests, one apply each
  Images, NoImage,
  Boots, Runs,
  EventSets,   \* the events filters a request may ask for
  Boot0, Run0, \* the parts of the create request's config
  Partly,      \* the mounts a failed reconcile leaves: some started, stopped or re-ACLed, some not
  SubDepth,    \* capacity of the watcher's channel
  MaxOther,    \* bound on other events published meanwhile
  Booting      \* start at registration, or with the watcher subscribed

ASSUME ImageAssumption == NoImage \notin Images
ASSUME PartAssumption  == Boot0 \in Boots /\ Run0 \in Runs /\ Partly \notin Runs /\ Booting \in BOOLEAN
ASSUME DepthAssumption == SubDepth \in Nat \ {0} /\ MaxOther \in Nat

VARIABLES
  store,     \* ConfigStore.cfg
  applyMu,   \* the requests inside Apply's TryLock
  filter,    \* Broker.filter
  started,   \* Sandbox.started
  watch,     \* the watcher: none, idle, woken, read, egress
  wcfg,      \* the run part the watcher has read
  chan,      \* the watcher's channel
  live,      \* what is in force: the egress policy and the mounts
  failure,   \* how far the watcher's last turn got: none, "spec" (nothing done), "fs" (egress only)
  missed,    \* was the last config.apply not delivered to the watcher?
  pc,        \* where each request is
  current,   \* the config it read
  desired,   \* the config it applies, frozen from "frozen" on
  base,      \* the config its changes are relative to
  others     \* other events published

reqVars   == <<pc, current, desired, base>>
watchVars == <<watch, wcfg, live, failure>>
vars == <<store, applyMu, filter, started, watchVars, chan, missed, reqVars, others>>

Kinds   == {"config.apply", "other"}

ASSUME EventAssumption == EventSets \subseteq SUBSET Kinds

Configs == [image : Images \union {NoImage}, boot : Boots, run : Runs, events : EventSets]

\* What the store may hold; a created sandbox observes every kind of event.
StoredConfigs == [image : Images \union {NoImage}, boot : Boots, run : Runs,
                  events : EventSets \union {Kinds}]

Config0 == [image |-> NoImage, boot |-> Boot0, run |-> Run0, events |-> Kinds]

Init ==
  /\ store = Config0
  /\ applyMu = {}
  /\ filter = Kinds
  /\ started = ~Booting
  /\ watch = IF Booting THEN "none" ELSE "idle"
  /\ wcfg = Run0
  /\ chan = <<>>
  /\ live = [egress |-> Run0, fs |-> Run0]
  /\ failure = "none"
  /\ missed = FALSE
  /\ pc = [r \in Requests |-> "new"]
  /\ current = [r \in Requests |-> Config0]
  /\ desired = [r \in Requests |-> Config0]
  /\ base = [r \in Requests |-> Config0]
  /\ others = 0

-----------------------------------------------------------------------------
(* Broker.publish, as the watcher sees it.                                 *)

Delivers(k) == k \in filter /\ watch # "none" /\ Len(chan) < SubDepth

Publish(k) ==
  /\ chan' = IF Delivers(k) THEN Append(chan, k) ELSE chan
  /\ missed' = IF k = "config.apply" THEN ~Delivers(k) ELSE missed

-----------------------------------------------------------------------------
(* ApplyConfig.                                                            *)

\* A valid body arrives; the current config is read.
ReadCurrent(r, d) ==
  /\ pc[r] = "new"
  /\ pc' = [pc EXCEPT ![r] = "read"]
  /\ current' = [current EXCEPT ![r] = store]
  /\ desired' = [desired EXCEPT ![r] = d]
  /\ UNCHANGED <<store, applyMu, filter, started, watchVars, chan, missed, base, others>>

freezeImmutable(c, d, s) ==
  [d EXCEPT !.image = IF c.image # NoImage THEN c.image ELSE d.image,
            !.boot = IF s THEN c.boot ELSE d.boot]

Freeze(r) ==
  /\ pc[r] = "read"
  /\ pc' = [pc EXCEPT ![r] = "frozen"]
  /\ desired' = [desired EXCEPT ![r] = freezeImmutable(current[r], desired[r], started)]
  /\ UNCHANGED <<store, applyMu, filter, started, watchVars, chan, missed, current, base, others>>

\* Faulty variant: the lock is not taken.
TryLock_Skip(r) ==
  /\ pc[r] = "frozen"
  /\ applyMu' = applyMu \union {r}
  /\ base' = [base EXCEPT ![r] = store]
  /\ pc' = [pc EXCEPT ![r] = "locked"]
  /\ UNCHANGED <<store, filter, started, watchVars, chan, missed, current, desired, others>>

\* Apply takes the lock and diffs against the current config.
TryLock(r) ==
  /\ pc[r] = "frozen" /\ applyMu = {}
  /\ applyMu' = {r}
  /\ base' = [base EXCEPT ![r] = store]
  /\ pc' = [pc EXCEPT ![r] = "locked"]
  /\ UNCHANGED <<store, filter, started, watchVars, chan, missed, current, desired, others>>

\* ErrApplyInProgress: 409, nothing changed.
Conflict(r) ==
  /\ pc[r] = "frozen" /\ applyMu # {}
  /\ pc' = [pc EXCEPT ![r] = "conflict"]
  /\ UNCHANGED <<store, applyMu, filter, started, watchVars, chan, missed, current, desired, base,
                 others>>

Commit(r) ==
  /\ pc[r] = "locked"
  /\ store' = desired[r]
  /\ applyMu' = applyMu \ {r}
  /\ pc' = [pc EXCEPT ![r] = "applied"]
  /\ UNCHANGED <<filter, started, watchVars, chan, missed, current, desired, base, others>>

SetFilter(r) ==
  /\ pc[r] = "applied"
  /\ filter' = desired[r].events
  /\ pc' = [pc EXCEPT ![r] = "filtered"]
  /\ UNCHANGED <<store, applyMu, started, watchVars, chan, missed, current, desired, base, others>>

PublishApply(r) ==
  /\ pc[r] = "filtered"
  /\ Publish("config.apply")
  /\ pc' = [pc EXCEPT ![r] = "published"]
  /\ UNCHANGED <<store, applyMu, filter, started, watchVars, current, desired, base, others>>

\* system.config-changed, then 200.
PublishChanged(r) ==
  /\ pc[r] = "published"
  /\ Publish("other")
  /\ pc' = [pc EXCEPT ![r] = "done"]
  /\ UNCHANGED <<store, applyMu, filter, started, watchVars, current, desired, base, others>>

\* Anything else the sandbox publishes.
OtherEvent ==
  /\ others < MaxOther
  /\ others' = others + 1
  /\ Publish("other")
  /\ UNCHANGED <<store, applyMu, filter, started, watchVars, reqVars>>

-----------------------------------------------------------------------------
(* The end of createPacked, and its watcher.                               *)
SetStarted ==
  /\ ~started
  /\ started' = TRUE
  /\ UNCHANGED <<store, applyMu, filter, watchVars, chan, missed, reqVars, others>>

\* The replay of Subscribe(0) is discarded.
WatchSubscribe ==
  /\ started /\ watch = "none"
  /\ watch' = "idle"
  /\ UNCHANGED <<store, applyMu, filter, started, wcfg, live, failure, chan, missed, reqVars, others>>

WatchTake ==
  /\ watch = "idle" /\ chan # <<>>
  /\ chan' = Tail(chan)
  /\ watch' = IF Head(chan) = "config.apply" THEN "woken" ELSE "idle"
  /\ UNCHANGED <<store, applyMu, filter, started, wcfg, live, failure, missed, reqVars, others>>

\* Faulty variant: the config the watcher was created with is used again.
WatchGet_Cached ==
  /\ watch = "woken"
  /\ watch' = "read"
  /\ UNCHANGED <<store, applyMu, filter, started, wcfg, live, failure, chan, missed, reqVars, others>>

WatchGet ==
  /\ watch = "woken"
  /\ watch' = "read"
  /\ wcfg' = store.run
  /\ UNCHANGED <<store, applyMu, filter, started, live, failure, chan, missed, reqVars, others>>

\* The config is not a spec (specFromConfig): logged, and nothing is applied.
WatchGetFails ==
  /\ watch = "woken"
  /\ watch' = "idle"
  /\ failure' = "spec"
  /\ UNCHANGED <<store, applyMu, filter, started, wcfg, live, chan, missed, reqVars, others>>

WatchSetEgress ==
  /\ watch = "read"
  /\ watch' = "egress"
  /\ live' = [live EXCEPT !.egress = wcfg]
  /\ UNCHANGED <<store, applyMu, filter, started, wcfg, failure, chan, missed, reqVars, others>>

\* Faulty variant: the watcher stops at a reconcile that fails.
WatchReconcile_Stop ==
  /\ watch = "egress"
  /\ \/ watch' = "idle" /\ live' = [live EXCEPT !.fs = wcfg] /\ failure' = "none"
     \/ watch' = "stopped" /\ live' = [live EXCEPT !.fs = Partly] /\ failure' = "fs"
  /\ UNCHANGED <<store, applyMu, filter, started, wcfg, chan, missed, reqVars, others>>

\* Reconcile is level-triggered and goes on past a mount that fails: it ends
\* with every mount as desired, or with an error that is logged.
WatchReconcile ==
  /\ watch = "egress"
  /\ watch' = "idle"
  /\ \/ live' = [live EXCEPT !.fs = wcfg] /\ failure' = "none"
     \/ live' = [live EXCEPT !.fs = Partly] /\ failure' = "fs"
  /\ UNCHANGED <<store, applyMu, filter, started, wcfg, chan, missed, reqVars, others>>

Watcher == WatchTake \/ WatchGet \/ WatchGetFails \/ WatchSetEgress \/ WatchReconcile

-----------------------------------------------------------------------------
Apply(r) ==
  \/ Freeze(r) \/ TryLock(r) \/ Conflict(r) \/ Commit(r) \/ SetFilter(r)
  \/ PublishApply(r) \/ PublishChanged(r)

Done == (\A r \in Requests : pc[r] \in {"done", "conflict"}) /\ UNCHANGED vars

Next ==
  \/ \E r \in Requests, d \in Configs : ReadCurrent(r, d)
  \/ \E r \in Requests : Apply(r)
  \/ OtherEvent
  \/ SetStarted
  \/ WatchSubscribe
  \/ Watcher
  \/ Done

Spec == Init /\ [][Next]_vars

(* A handler that has begun runs to its answer, and the watcher runs.      *)
Fairness ==
  /\ \A r \in Requests : WF_vars(Apply(r))
  /\ WF_vars(SetStarted) /\ WF_vars(WatchSubscribe) /\ WF_vars(Watcher)

FairSpec == Spec /\ Fairness

-----------------------------------------------------------------------------
(* The state is well formed: the store, the requests and the watcher hold  *)
(* configs, and the watcher's channel stays within its capacity.           *)
TypeOK ==
  /\ store \in StoredConfigs
  /\ current \in [Requests -> StoredConfigs]
  /\ desired \in [Requests -> StoredConfigs]
  /\ base \in [Requests -> StoredConfigs]
  /\ applyMu \subseteq Requests
  /\ filter \in SUBSET Kinds
  /\ started \in BOOLEAN /\ missed \in BOOLEAN
  /\ watch \in {"none", "idle", "woken", "read", "egress"}
  /\ wcfg \in Runs
  /\ chan \in Seq(Kinds) /\ Len(chan) <= SubDepth
  /\ live \in [egress : Runs, fs : Runs \union {Partly}]
  /\ failure \in {"none", "spec", "fs"}
  /\ pc \in [Requests -> {"new", "read", "frozen", "locked", "applied", "filtered", "published",
                          "done", "conflict"}]
  /\ others \in 0..MaxOther

(* The changes Apply reports are the changes it makes: the config it       *)
(* diffed against is still the stored one when it writes.                  *)
ChangesExact == \A r \in Requests : pc[r] = "locked" => base[r] = store

\* No apply is under way and the watcher has nothing left to do.
Settled ==
  /\ \A r \in Requests : pc[r] \in {"new", "read", "frozen", "done", "conflict"}
  /\ watch = "idle" /\ chan = <<>>

\* What the watcher's last turn owes: all of the stored config, its egress
\* policy alone after a failed reconcile, nothing after a config it cannot read.
InForce ==
  /\ failure # "spec" => live.egress = store.run
  /\ failure = "none" => live.fs = store.run

(* Once the last config.apply event has been handled, the policy and the   *)
(* mounts in force are those of the stored config, however the applies     *)
(* overlapped and whatever failed before: the watcher reads the store and  *)
(* not the event.  A turn that fails leaves out no more than what failed:  *)
(* a mount that cannot be made does not hold back the egress policy.       *)
ReconciledToStore == (Settled /\ ~missed) => InForce

(* The stored config comes into force and stays so, as far as the last     *)
(* turn did not fail, unless its event is not delivered to the watcher.    *)
EventuallyInForce == <>[](missed \/ InForce)

=============================================================================

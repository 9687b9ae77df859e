----------------------------- MODULE MCPackPod -----------------------------
(* Small instances of the pack pod for TLC.                                *)
EXTENDS PackPod, TLC

CONSTANTS r1, r2, k1, k2, d1, d2

SameKey == [r \in Requests |-> k1]
TwoKeys == r1 :> k1 @@ r2 :> k2

Setting(key, requests, deletes, addrs, launches, configs, fails, lapses) ==
  [key |-> key, requests |-> requests, deletes |-> deletes, addrs |-> addrs,
   launches |-> launches, applies |-> configs,
   createFails |-> fails, reloadLapses |-> lapses, drainLapses |-> lapses]

\* Two creates of a key, then of two keys, contend for one slot and may fail;
\* one sandbox with a config apply, two deletes and every wait free to lapse;
\* two creates contend for the launch semaphore.
FourWorlds ==
  {Setting(SameKey, {r1, r2}, {d1}, {1}, 2, 0, TRUE, FALSE),
   Setting(TwoKeys, {r1, r2}, {d1}, {1}, 2, 0, TRUE, FALSE),
   Setting(SameKey, {r1}, {d1, d2}, {1}, 1, 1, TRUE, TRUE),
   Setting(TwoKeys, {r1, r2}, {}, {1, 2}, 1, 0, FALSE, FALSE)}
=============================================================================

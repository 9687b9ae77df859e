--------------------------- MODULE EgressPromise ---------------------------
(***************************************************************************)
(* What setEgress and waitApplied promise createPacked, without files,     *)
(* signals or generations.  Each write to a source's policy has a number.  *)
(* sbxproxy enforces one of the writes, moves only forward and never ahead *)
(* of what was stored; a write may be confirmed once it, or a later one,   *)
(* is enforced.                                                            *)
(***************************************************************************)
EXTENDS Naturals

CONSTANT IPs

VARIABLES
  stored,     \* the number of the last write to each source's policy
  enforced,   \* the number of the write sbxproxy enforces, 0 for none
  acked       \* the confirmed writes, <<source, number>>

promiseVars == <<stored, enforced, acked>>

PromiseInit ==
  /\ stored = [i \in IPs |-> 0]
  /\ enforced = [i \in IPs |-> 0]
  /\ acked = {}

Store(i) ==
  /\ stored' = [stored EXCEPT ![i] = stored[i] + 1]
  /\ UNCHANGED <<enforced, acked>>

Install ==
  /\ enforced' \in [IPs -> Nat]
  /\ \A i \in IPs : enforced[i] <= enforced'[i] /\ enforced'[i] <= stored[i]
  /\ UNCHANGED <<stored, acked>>

Confirmable(i, v) == enforced[i] >= v

Ack(i, v) ==
  /\ Confirmable(i, v)
  /\ acked' = acked \union {<<i, v>>}
  /\ UNCHANGED <<stored, enforced>>

PromiseNext ==
  \/ \E i \in IPs : Store(i)
  \/ Install
  \/ \E i \in IPs : \E v \in 1..stored[i] : Ack(i, v)

Spec == PromiseInit /\ [][PromiseNext]_promiseVars
=============================================================================

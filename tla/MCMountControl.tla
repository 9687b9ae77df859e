--------------------------- MODULE MCMountControl ---------------------------
(* Finite instances of MountControl.                                       *)
EXTENDS MountControl

CONSTANTS w1, w2

\* Two sandboxes of the key, two workspaces, two ACL versions, a config apply
\* each; one sandbox whose create may fail, whose teardown may overtake a
\* reconcile, and whose acks may be late.
TwoWorlds ==
  {[paths |-> {w1, w2}, boxes |-> 2, acls |-> 2, applies |-> 1,
    lapse |-> FALSE, createFails |-> FALSE, overtaken |-> FALSE],
   [paths |-> {w1}, boxes |-> 1, acls |-> 1, applies |-> 2,
    lapse |-> TRUE, createFails |-> TRUE, overtaken |-> TRUE]}
=============================================================================

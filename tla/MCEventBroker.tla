--------------------------- MODULE MCEventBroker ---------------------------
(* Finite instances of EventBroker.                                        *)
EXTENDS EventBroker
=============================================================================

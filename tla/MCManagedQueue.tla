--------------------------- MODULE MCManagedQueue ---------------------------
(* ManagedQueue with two producers and two consumers; liveness is checked   *)
(* without symmetry.                                                        *)
EXTENDS ManagedQueue
=============================================================================

---------------------------- MODULE MCOrchestrator ----------------------------
(* Model values for Orchestrator; see MCOrchestrator*.cfg.                     *)
EXTENDS Orchestrator

\* A bound on the interleavings: the API calls when one of the requests is over and its
\* stream gone. Nothing forces the API to call, so the bound takes away no progress.
ApiCallsLater ==
  LET r == CHOOSE r \in Pullers : TRUE IN
  (\E a \in Admins : pc[a] = "call" /\ pc'[a] # "call") =>
    pc[r] = "done" /\ live[r] = None /\ leaving[r] = "no"

BoundedSpec == Init /\ [][Next /\ ApiCallsLater]_vars /\ Fairness
=============================================================================

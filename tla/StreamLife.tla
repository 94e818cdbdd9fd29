----------------------------- MODULE StreamLife -----------------------------
(* What an application promises about each of its input streams, whoever       *)
(* publishes, refuses, times out or deletes it: the application lists it, the  *)
(* media router gets it, the observers (the transcoder, the orchestrator) hear *)
(* of it; then it goes in the order unlisted, withdrawn from the observers,    *)
(* gone from the media router. Each happens at most once, and no stream comes  *)
(* back. A stream that the media router refuses is listed and nothing more.    *)

CONSTANT Streams

VARIABLE life   \* how far each stream has come

Init == life = [s \in Streams |-> "none"]

Comes(s, from, to) == life[s] = from /\ life' = [life EXCEPT ![s] = to]

List(s) == Comes(s, "none", "listed")
Route(s) == Comes(s, "listed", "routed")
Announce(s) == Comes(s, "routed", "announced")
Unlist(s) == Comes(s, "announced", "unlisted")
Withdraw(s) == Comes(s, "unlisted", "withdrawn")
Unroute(s) == Comes(s, "withdrawn", "gone")

\* A stream that was never announced leaves at once.
Drop(s) == Comes(s, "listed", "gone")

Next ==
  \E s \in Streams :
    \/ List(s) \/ Route(s) \/ Announce(s)
    \/ Unlist(s) \/ Withdraw(s) \/ Unroute(s) \/ Drop(s)

Spec == Init /\ [][Next]_life
=============================================================================

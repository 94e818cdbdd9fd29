-------------------------- MODULE ApplicationLife --------------------------
(* What the orchestrator promises about an application, whoever creates,       *)
(* refuses or deletes it: the parts of the server (its modules and, after      *)
(* them, the orchestrator itself as an observer) take it one by one in their   *)
(* order, each once. One that a module refuses is observed all the same and    *)
(* then leaves like one that is whole: the parts that have it give it up from  *)
(* the last to the first, and it does not come back. Nothing is promised any   *)
(* more of one that is deleted while it grows.                                 *)
EXTENDS Naturals

CONSTANT Last   \* the parts are numbered from 1 to Last

VARIABLES
  life,   \* how far the application has come
  held    \* the parts that have it

vars == <<life, held>>

Init == life = "none" /\ held = {}

Begin == life = "none" /\ life' = "growing" /\ UNCHANGED held

\* Its name is taken, or nobody asks for it.
Forgo == life = "none" /\ life' = "gone" /\ UNCHANGED held

\* The next part takes it; it is whole when the last one has.
Join ==
  /\ life = "growing"
  /\ \E k \in 1..Last :
       /\ held = 1..(k - 1) /\ held' = 1..k
       /\ life' = IF k = Last THEN "whole" ELSE "growing"

Refuse == life = "growing" /\ life' = "refused" /\ UNCHANGED held

Observe == life = "refused" /\ life' = "failed" /\ held' = held \cup {Last}

Leave == life \in {"whole", "failed"} /\ life' = "leaving" /\ UNCHANGED held

\* The last part that has it gives it up.
Quit ==
  /\ life = "leaving"
  /\ \E k \in held : (\A j \in held : j <= k) /\ held' = held \ {k}
  /\ life' = IF held' = {} THEN "gone" ELSE "leaving"

\* It is deleted while its creation goes on.
Break == life \in {"growing", "refused"} /\ life' = "broken" /\ held' = {}

Next ==
  Begin \/ Forgo \/ Join \/ Refuse \/ Observe \/ Leave \/ Quit \/ Break

Spec == Init /\ [][Next]_vars
=============================================================================

--------------------------- MODULE MCPullProvider ---------------------------
(* PullProvider with two requests, for one name or for two; the streams share *)
(* one motor id or have one each.                                             *)
EXTENDS PullProvider, TLC

CONSTANTS r1, r2, n1, n2

MCWants == {r1 :> n1 @@ r2 :> n1, r1 :> n1 @@ r2 :> n2}
=============================================================================

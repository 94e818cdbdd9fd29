--------------------------- MODULE MCLLHlsStream ----------------------------
(* LLHlsStream with two connections of one player, which share a session, and a track  *)
(* of two parts.                                                                       *)
EXTENDS LLHlsStream, TLC

CONSTANTS c1, c2, video

MCPlayers == {c1 :> c1 @@ c2 :> c1}

MCWants == {[kind |-> "playlist"], [kind |-> "chunklist", track |-> video, part |-> 2]}

MCParts == video :> 2
=============================================================================

--------------------------- MODULE MCPushProvider ---------------------------
(* PushProvider with a few connections; names and handles are assigned to them *)
(* in every possible way by Init.                                              *)
EXTENDS PushProvider
=============================================================================

---------------------------- MODULE MCMediaRoute ----------------------------
(* MediaRoute with few streams, packets and places in the buffer. *)
EXTENDS MediaRoute
=============================================================================

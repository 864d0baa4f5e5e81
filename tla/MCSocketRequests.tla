-------------------------- MODULE MCSocketRequests --------------------------
(* TLC instances of SocketRequests. *)
EXTENDS SocketRequests
===========================================================================

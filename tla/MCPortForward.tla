---------------------------- MODULE MCPortForward ----------------------------
(* Small instances of the port-forwarding service: remote rules, the only   *)
(* kind whose binding must be undone at the server, all of one server.      *)
EXTENDS PortForward

CONSTANT v1

MCServerOf == [r \in Rule |-> v1]
=============================================================================

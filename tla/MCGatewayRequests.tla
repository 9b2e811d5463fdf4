-------------------------- MODULE MCGatewayRequests --------------------------
(* Instances of GatewayRequests for TLC. *)
EXTENDS GatewayRequests
=============================================================================

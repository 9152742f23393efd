-------------------------- MODULE MCGatewaySession --------------------------
(* Instances of GatewaySession for TLC.                                    *)
EXTENDS GatewaySession

CONSTANTS l1, l2
=============================================================================

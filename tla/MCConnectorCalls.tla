-------------------------- MODULE MCConnectorCalls --------------------------
(* Sessions of one process for TLC. *)
EXTENDS ConnectorCalls

CONSTANTS s1, s2
=============================================================================

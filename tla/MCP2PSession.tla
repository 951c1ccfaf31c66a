------------------------------ MODULE MCP2PSession ------------------------------
(* Receivers for P2PSession: each listens on a port of its own.                *)
EXTENDS P2PSession

MCDistinctPorts == [r \in Receivers |-> 9000 + r]
=============================================================================

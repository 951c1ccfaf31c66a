------------------------------ MODULE MCP2PFlood ------------------------------
(* The values of the constants of P2PFlood for TLC come from the cfg files. *)
EXTENDS P2PFlood
=============================================================================

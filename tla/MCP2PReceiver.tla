----------------------------- MODULE MCP2PReceiver -----------------------------
(* The values of the constants of P2PReceiver for TLC come from the cfg files. *)
EXTENDS P2PReceiver
=============================================================================

----------------------------- MODULE MCP2PSender -----------------------------
(* Small sizes for P2PSender: every remainder of file by segment and of      *)
(* segments by receivers occurs, the empty file and the exact fit included.  *)
EXTENDS P2PSender

MCFileSizes == 0 .. 7
MCSegmentSizes == 1 .. 3
MCReceiverCounts == 1 .. 4
=============================================================================

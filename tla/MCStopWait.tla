------------------------------ MODULE MCStopWait ------------------------------
(* File sizes for StopWait: the empty file, whole blocks, short last chunks.   *)
EXTENDS StopWait

MCAllSizes == 0 .. 6
MCWholeBlocks == {2, 4}
=============================================================================

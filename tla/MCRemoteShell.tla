----------------------------- MODULE MCRemoteShell -----------------------------
(* One file for RemoteShell, in the server's own directory and not above it.   *)
EXTENDS RemoteShell

MCDisk == [l \in Levels |-> [f \in Files |-> IF l = StartLevel THEN 1 ELSE Absent]]
=============================================================================

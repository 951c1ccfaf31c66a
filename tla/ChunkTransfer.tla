---------------------------- MODULE ChunkTransfer ----------------------------
(***************************************************************************)
(* What a stop-and-wait transfer promises: the receiver's file grows by    *)
(* one chunk at a time, always the next one, never beyond the last.        *)
(***************************************************************************)
EXTENDS Naturals, Sequences

VARIABLES chunks,     \* the number of chunks the file has
          written     \* the chunks in the receiver's file

vars == <<chunks, written>>

Init == /\ chunks \in Nat
        /\ written = << >>

WriteNext ==
    /\ Len(written) < chunks
    /\ written' = Append(written, Len(written))
    /\ UNCHANGED chunks

Spec == Init /\ [][WriteNext]_vars

=============================================================================

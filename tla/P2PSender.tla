------------------------------ MODULE P2PSender ------------------------------
(***************************************************************************)
(* The sending process of Final Project/p2p.c: Prepare_File_Via_Seg        *)
(* measures the file, Send_Info announces how many segments each receiver  *)
(* will get, Send_Segment reads the file again and deals the pieces out.   *)
(*                                                                         *)
(* Between the measuring and the reading the sender waits until all its    *)
(* receivers have connected, which may take minutes and in which the file  *)
(* may be replaced by one of another size or removed (FileReplaced,        *)
(* FileRemoved).  What the waiting itself does is the subject of           *)
(* P2PSession; bytes are counted, not kept.                                *)
(***************************************************************************)
EXTENDS SegmentPlan, Sequences

CONSTANTS FileSizes, SegmentSizes, ReceiverCounts

ASSUME SizesAssumption ==
    /\ FileSizes \subseteq Nat
    /\ SegmentSizes \subseteq Nat \ {0}
    /\ ReceiverCounts \subseteq Nat \ {0}

VARIABLES
    pc,
    disk_size, file_there,       \* what is in the file now, if it is there
    total_file_size,             \* what Prepare_File_Via_Seg saw
    segment_size, receiver_MAX,  \* the options -g and -n
    segment_count,
    announced,                   \* segment_from_receiver_cnt of each receiver
    rr_index, nth_segment,       \* the loop of Send_Segment
    offset,                      \* the position of its FILE
    sent                         \* sent[i]: the segments written to receiver i

diskVars == <<disk_size, file_there>>
optionVars == <<segment_size, receiver_MAX>>
infoVars == <<total_file_size, segment_count, announced>>
loopVars == <<rr_index, nth_segment, offset, sent>>
vars == <<pc, diskVars, optionVars, infoVars, loopVars>>

Receivers == 0 .. (receiver_MAX - 1)

Init ==
    /\ pc = "prepare"
    /\ disk_size \in FileSizes
    /\ file_there \in BOOLEAN
    /\ segment_size \in SegmentSizes
    /\ receiver_MAX \in ReceiverCounts
    /\ total_file_size = 0
    /\ segment_count = 0
    /\ announced = [i \in Receivers |-> 0]
    /\ rr_index = 0
    /\ nth_segment = 0
    /\ offset = 0
    /\ sent = [i \in Receivers |-> << >>]

Prepare_File_Via_Seg ==
    /\ pc = "prepare"
    /\ file_there
    /\ total_file_size' = disk_size
    /\ segment_count' = SegmentCount(disk_size, segment_size)
    /\ pc' = "wait"
    /\ UNCHANGED <<diskVars, optionVars, announced, loopVars>>

\* Without the file it exits.
NoSuchFile ==
    /\ pc = "prepare"
    /\ ~file_there
    /\ pc' = "failed"
    /\ UNCHANGED <<diskVars, optionVars, infoVars, loopVars>>

\* Somebody overwrites the file while the sender waits for its receivers.
FileReplaced ==
    /\ pc = "wait"
    /\ disk_size' \in FileSizes \ {disk_size}
    /\ file_there' = TRUE
    /\ UNCHANGED <<pc, optionVars, infoVars, loopVars>>

\* ... or removes it.
FileRemoved ==
    /\ pc = "wait"
    /\ file_there
    /\ file_there' = FALSE
    /\ UNCHANGED <<pc, disk_size, optionVars, infoVars, loopVars>>

\* Send_Segment opens the file again, and exits if it is gone: the receivers
\* were promised segments and get none.
Reopened == IF file_there THEN "send" ELSE "failed"

Send_Info ==
    /\ pc = "wait"
    /\ announced' = [i \in Receivers |->
                        SegmentsFor(i, segment_count, receiver_MAX)]
    /\ pc' = Reopened
    /\ UNCHANGED <<diskVars, optionVars, total_file_size, segment_count,
                   loopVars>>

\* What fread(buffer, 1, segment_size, file) returns.
BytesRead ==
    IF offset + segment_size <= disk_size THEN segment_size
    ELSE IF offset <= disk_size THEN disk_size - offset ELSE 0

\* A slip in the break: it waits for one segment too many.
LoopOverTooLate(n) == n > segment_count

\* The break of the loop, after n segments.
LoopOver(n) == n >= segment_count

\* One round of the loop that reads something: the piece goes to the receiver
\* whose turn it is.  Print_Sender_Progress then divides by the measured size.
SendPiece ==
    /\ pc = "send"
    /\ BytesRead > 0
    /\ sent' = [sent EXCEPT ![rr_index] =
                    Append(@, [nthSegment |-> nth_segment,
                               sement_size |-> BytesRead])]
    /\ offset' = offset + BytesRead
    /\ rr_index' = NextIndex(rr_index, receiver_MAX)
    /\ nth_segment' = nth_segment + 1
    /\ pc' = IF total_file_size = 0 THEN "crashed"
             ELSE IF LoopOver(nth_segment + 1) THEN "close"
             ELSE "send"
    /\ UNCHANGED <<diskVars, optionVars, infoVars>>

\* One that reads nothing: fread returns 0 at the end of the file, never -1,
\* so the loop only ends here when nothing was announced.
ReadNothing ==
    /\ pc = "send"
    /\ BytesRead = 0
    /\ pc' = IF LoopOver(nth_segment) THEN "close" ELSE "send"
    /\ UNCHANGED <<diskVars, optionVars, infoVars, loopVars>>

Close_Sockets ==
    /\ pc = "close"
    /\ pc' = "closed"
    /\ UNCHANGED <<diskVars, optionVars, infoVars, loopVars>>

Next ==
    \/ Prepare_File_Via_Seg
    \/ NoSuchFile
    \/ FileReplaced
    \/ FileRemoved
    \/ Send_Info
    \/ SendPiece
    \/ ReadNothing
    \/ Close_Sockets

Spec == Init /\ [][Next]_vars

\* The process runs; nobody has to replace its file.
FairSpec ==
    Spec /\ WF_vars(Prepare_File_Via_Seg \/ NoSuchFile \/ Send_Info
                        \/ SendPiece \/ ReadNothing \/ Close_Sockets)

-----------------------------------------------------------------------------
(* Properties. *)

TypeOK ==
    /\ pc \in {"prepare", "wait", "send", "close", "closed", "crashed", "failed"}
    /\ disk_size \in FileSizes
    /\ file_there \in BOOLEAN
    /\ total_file_size \in FileSizes \cup {0}
    /\ segment_size \in SegmentSizes
    /\ receiver_MAX \in ReceiverCounts
    /\ segment_count \in Nat
    /\ announced \in [Receivers -> Nat]
    /\ rr_index \in Receivers
    /\ nth_segment \in Nat
    /\ offset \in Nat
    /\ sent \in [Receivers -> Seq([nthSegment : Nat, sement_size : Nat])]

Finished == pc \in {"close", "closed"}

\* A sender that gets to the end has written to each receiver as many segments
\* as it announced to it, even when the file has grown or shrunk since:
\* announcing divides the measured count, dealing goes round in turns.
DealtAsAnnounced ==
    Finished => \A i \in Receivers : Len(sent[i]) = announced[i]

\* If the file stayed as it was, the segments are exactly the file: numbered
\* without a gap in the order of the bytes, all full except maybe the last.
\* A receiver puts segment k at slot k and writes the slots one after another.
SegmentsAreTheFile ==
    Finished /\ disk_size = total_file_size =>
        /\ offset = total_file_size
        /\ \A i \in Receivers : \A k \in DOMAIN sent[i] :
            LET n == i + (k - 1) * receiver_MAX
                end == (n + 1) * segment_size
            IN  sent[i][k] =
                    [nthSegment |-> n,
                     sement_size |-> IF end <= total_file_size
                                     THEN segment_size
                                     ELSE total_file_size - n * segment_size]

\* The sender gets to the end, or ends for want of a file or on the empty file
\* that grew, unless the file lost segments while it waited: then it reads
\* nothing for ever.
EndsUnlessShrunk ==
    <>( \/ pc \in {"closed", "crashed", "failed"}
        \/ pc = "send" /\ SegmentCount(disk_size, segment_size) < segment_count)

=============================================================================

----------------------------- MODULE SegmentPlan -----------------------------
(***************************************************************************)
(* How the sender of the peer-to-peer program cuts a file into segments    *)
(* and deals them out: the arithmetic of Prepare_File_Via_Seg, Send_Info   *)
(* and Send_Segment.  Sizes are byte counts; a segment is known by its     *)
(* number nthSegment, a receiver by its number nth_receiver.               *)
(***************************************************************************)
EXTENDS Integers

\* A slip in the rounding: whole segments only.
SegmentCountRoundedDown(fileSize, segmentSize) == fileSize \div segmentSize

\* file_info->segment_count: the number of pieces, the last one maybe short.
SegmentCount(fileSize, segmentSize) ==
    (fileSize + segmentSize - 1) \div segmentSize

\* A slip in Send_Info: the remainder is announced to nobody.
SegmentsForWithoutRemainder(i, segmentCount, receivers) ==
    segmentCount \div receivers

\* segment_from_receiver_cnt: the number of segments announced to receiver i,
\* each_segment_count plus one for the first `remainder' receivers.
SegmentsFor(i, segmentCount, receivers) ==
    (segmentCount \div receivers)
        + (IF i < segmentCount % receivers THEN 1 ELSE 0)

\* The round-robin step of Send_Segment.
NextIndex(rr, receivers) ==
    IF rr + 1 >= receivers THEN 0 ELSE rr + 1

=============================================================================

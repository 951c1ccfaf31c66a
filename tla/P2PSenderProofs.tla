--------------------------- MODULE P2PSenderProofs ---------------------------
(***************************************************************************)
(* What holds of the sender for every file, segment size and number of     *)
(* receivers.                                                              *)
(*                                                                         *)
(* The argument: after n segments the turn is n modulo the receivers, each *)
(* receiver has had what Send_Info would announce for n segments, and the  *)
(* position in the file is n segments, or the end.  The loop ends at the   *)
(* measured count, also when the file is no longer the one measured.       *)
(***************************************************************************)
EXTENDS P2PSender, TLAPS

\* Nothing is dealt before the announcement.
NotStartedInv ==
    pc \in {"prepare", "wait"} => nth_segment = 0 /\ offset = 0

\* What was measured and announced.
AnnouncedInv ==
    /\ pc = "prepare" => total_file_size = 0
    /\ pc \notin {"prepare", "failed"} =>
        segment_count = SegmentCount(total_file_size, segment_size)
    /\ pc \notin {"prepare", "wait", "failed"} =>
        \A i \in Receivers :
            announced[i] = SegmentsFor(i, segment_count, receiver_MAX)

\* The turn, and how many segments each receiver has had.
TurnInv ==
    /\ rr_index = nth_segment % receiver_MAX
    /\ \A i \in Receivers :
        Len(sent[i]) = SegmentsFor(i, nth_segment, receiver_MAX)

\* The loop stops at the measured count.
LoopInv ==
    /\ pc = "send" => \/ nth_segment < segment_count
                      \/ nth_segment = 0 /\ segment_count = 0
    /\ Finished => nth_segment = segment_count

\* Where segment n of a file of that size ends, and what it is.
EndOf(n) ==
    IF n * segment_size <= total_file_size THEN n * segment_size
    ELSE total_file_size

Piece(n) ==
    [nthSegment |-> n,
     sement_size |-> IF (n + 1) * segment_size <= total_file_size
                     THEN segment_size
                     ELSE total_file_size - n * segment_size]

\* As long as the file is the one measured, what was dealt is what it has.
BytesInv ==
    disk_size = total_file_size =>
        /\ offset = EndOf(nth_segment)
        /\ \A i \in Receivers : \A k \in DOMAIN sent[i] :
            sent[i][k] = Piece(i + (k - 1) * receiver_MAX)

IInv ==
    /\ TypeOK
    /\ NotStartedInv
    /\ AnnouncedInv
    /\ TurnInv
    /\ LoopInv
    /\ BytesInv

-----------------------------------------------------------------------------
(* Arithmetic of turns and positions. *)

\* The next turn of the round robin, and the place of a segment in its turn.
LEMMA NextTurn ==
    ASSUME NEW M \in Nat \ {0}, NEW n \in Nat
    PROVE  /\ n % M \in 0 .. (M - 1)
           /\ n \div M \in Nat
           /\ n = (n % M) + (n \div M) * M
           /\ (n + 1) % M = NextIndex(n % M, M)
           /\ (n + 1) \div M = (n \div M) + (IF n % M = M - 1 THEN 1 ELSE 0)
  <1>1. n % M \in 0 .. (M - 1) /\ n \div M \in Nat
    OBVIOUS
  <1>2. n = (n % M) + (n \div M) * M
    OBVIOUS
  <1>3. /\ (n + 1) % M = NextIndex(n % M, M)
        /\ (n + 1) \div M = (n \div M) + (IF n % M = M - 1 THEN 1 ELSE 0)
    BY DEF NextIndex
  <1> QED BY <1>1, <1>2, <1>3

\* One more segment dealt is one more announced to the receiver in turn.
LEMMA NextDealt ==
    ASSUME NEW M \in Nat \ {0}, NEW n \in Nat, NEW i \in 0 .. (M - 1)
    PROVE  /\ SegmentsFor(i, n, M) \in Nat
           /\ SegmentsFor(i, n + 1, M) =
                SegmentsFor(i, n, M) + (IF i = n % M THEN 1 ELSE 0)
           /\ SegmentsFor(n % M, n, M) = n \div M
           /\ SegmentsFor(i, 0, M) = 0
  <1>1. /\ n % M \in 0 .. (M - 1)
        /\ n \div M \in Nat
        /\ (n + 1) % M = NextIndex(n % M, M)
        /\ (n + 1) \div M = (n \div M) + (IF n % M = M - 1 THEN 1 ELSE 0)
    BY NextTurn
  <1> DEFINE q == n \div M
             t == n % M
  <1>2. /\ SegmentsFor(i, n, M) = q + (IF i < t THEN 1 ELSE 0)
        /\ SegmentsFor(n % M, n, M) = q + (IF t < t THEN 1 ELSE 0)
        /\ SegmentsFor(i, n + 1, M) =
                q + (IF t = M - 1 THEN 1 ELSE 0)
                  + (IF i < NextIndex(t, M) THEN 1 ELSE 0)
    BY <1>1 DEF SegmentsFor
  <1> HIDE DEF q, t
  <1>3. /\ q \in Nat /\ t \in 0 .. (M - 1)
        /\ n \div M = q /\ n % M = t
    BY <1>1 DEF q, t
  <1>4. /\ SegmentsFor(i, n, M) \in Nat /\ SegmentsFor(n % M, n, M) = n \div M
        /\ SegmentsFor(i, n + 1, M) =
                SegmentsFor(i, n, M) + (IF i = n % M THEN 1 ELSE 0)
    BY <1>2, <1>3 DEF NextIndex
  <1>5. SegmentsFor(i, 0, M) = 0
    <2>1. 0 \div M = 0 /\ 0 % M = 0
      OBVIOUS
    <2> QED BY <2>1 DEF SegmentsFor
  <1> QED BY <1>4, <1>5

\* The count of segments rounds up.
LEMMA CountRoundsUp ==
    ASSUME NEW s \in Nat \ {0}, NEW f \in Nat
    PROVE  /\ SegmentCount(f, s) \in Nat
           /\ f <= SegmentCount(f, s) * s
           /\ f = 0 => SegmentCount(f, s) = 0
           /\ f # 0 => SegmentCount(f, s) # 0
  <1> DEFINE c == (f + s - 1) \div s
             r == (f + s - 1) % s
  <1>1. /\ c \in Nat /\ r \in 0 .. (s - 1)
        /\ f + s - 1 = r + c * s
    BY NextTurn, f + s - 1 \in Nat
  <1>2. SegmentCount(f, s) = c
    BY DEF SegmentCount
  <1> HIDE DEF c, r
  <1>3. c * s \in Nat
    BY <1>1
  <1>4. f <= c * s
    BY <1>1, <1>3
  <1>5. c = 0 => c * s = 0
    BY <1>1
  <1>6. f = 0 => c = 0
    <2>1. c # 0 => c * s >= s
      BY <1>1
    <2> QED BY <2>1, <1>1, <1>3
  <1>7. f # 0 => c # 0
    BY <1>4, <1>5
  <1> QED BY <1>1, <1>2, <1>4, <1>6, <1>7

\* The options and sizes as numbers.
LEMMA Sizes ==
    ASSUME TypeOK
    PROVE  /\ disk_size \in Nat /\ total_file_size \in Nat
           /\ segment_size \in Nat \ {0} /\ receiver_MAX \in Nat \ {0}
           /\ nth_segment \in Nat /\ offset \in Nat /\ segment_count \in Nat
           /\ BytesRead \in Nat
           /\ BytesRead > 0 => offset + BytesRead <= disk_size
  <1>1. /\ disk_size \in Nat /\ total_file_size \in Nat
        /\ segment_size \in Nat \ {0} /\ receiver_MAX \in Nat \ {0}
        /\ nth_segment \in Nat /\ offset \in Nat /\ segment_count \in Nat
    BY SizesAssumption DEF TypeOK
  <1>2. BytesRead \in Nat /\ (BytesRead > 0 => offset + BytesRead <= disk_size)
    BY <1>1 DEF BytesRead
  <1> QED BY <1>1, <1>2

\* Before the first turn nobody has had a segment.
LEMMA NothingDealt ==
    ASSUME TypeOK, TurnInv, nth_segment = 0
    PROVE  \A i \in Receivers : DOMAIN sent[i] = {}
  <1> SUFFICES ASSUME NEW i \in Receivers
               PROVE  DOMAIN sent[i] = {}
    OBVIOUS
  <1>1. receiver_MAX \in Nat \ {0} /\ i \in 0 .. (receiver_MAX - 1)
    BY Sizes DEF Receivers
  <1>2. SegmentsFor(i, 0, receiver_MAX) = 0
    BY <1>1, NextDealt, 0 \in Nat
  <1>3. Len(sent[i]) = 0 /\ sent[i] \in Seq([nthSegment : Nat, sement_size : Nat])
    BY <1>2 DEF TurnInv, TypeOK
  <1> QED BY <1>3

-----------------------------------------------------------------------------
(* The invariant holds at the start and every action keeps it. *)

LEMMA InitInv == ASSUME Init PROVE IInv
  <1>1. /\ segment_size \in Nat \ {0} /\ receiver_MAX \in Nat \ {0}
        /\ disk_size \in Nat
    BY SizesAssumption DEF Init
  <1>2. TypeOK
    BY <1>1 DEF Init, TypeOK, Receivers
  <1>3. NotStartedInv /\ AnnouncedInv /\ LoopInv
    BY DEF Init, NotStartedInv, AnnouncedInv, LoopInv, Finished
  <1>4. TurnInv
    <2>1. \A i \in 0 .. (receiver_MAX - 1) : SegmentsFor(i, 0, receiver_MAX) = 0
      BY <1>1, NextDealt, 0 \in Nat
    <2>2. 0 % receiver_MAX = 0
      BY <1>1
    <2> QED BY <2>1, <2>2 DEF Init, TurnInv, Receivers
  <1>5. BytesInv
    <2>1. 0 * segment_size = 0
      BY <1>1
    <2> QED BY <2>1 DEF Init, BytesInv, EndOf
  <1> QED BY <1>2, <1>3, <1>4, <1>5 DEF IInv

LEMMA PrepareInv ==
    ASSUME IInv, Prepare_File_Via_Seg
    PROVE  IInv'
  <1> USE DEF IInv, Prepare_File_Via_Seg, diskVars, optionVars, loopVars
  <1>1. /\ disk_size \in Nat /\ segment_size \in Nat \ {0}
    BY Sizes
  <1>2. TypeOK'
    BY <1>1, CountRoundsUp DEF TypeOK, Receivers
  <1>3. NotStartedInv' /\ AnnouncedInv' /\ LoopInv'
    BY DEF NotStartedInv, AnnouncedInv, LoopInv, Finished
  <1>4. TurnInv'
    BY DEF TurnInv, Receivers
  <1>5. BytesInv'
    <2>1. nth_segment = 0 /\ offset = 0 /\ 0 * segment_size = 0
      BY <1>1 DEF NotStartedInv
    <2>2. \A i \in Receivers : DOMAIN sent[i] = {}
      BY <2>1, NothingDealt
    <2> QED BY <1>1, <2>1, <2>2 DEF BytesInv, EndOf, Receivers
  <1> QED BY <1>2, <1>3, <1>4, <1>5

LEMMA ReplacedInv ==
    ASSUME IInv, FileReplaced \/ FileRemoved
    PROVE  IInv'
  <1> USE DEF IInv, FileReplaced, FileRemoved, diskVars, optionVars, infoVars, loopVars
  <1>1. TypeOK'
    BY DEF TypeOK, Receivers
  <1>2. NotStartedInv' /\ AnnouncedInv' /\ LoopInv'
    BY DEF NotStartedInv, AnnouncedInv, LoopInv, Finished, Receivers
  <1>3. TurnInv'
    BY DEF TurnInv, Receivers
  <1>4. BytesInv'
    <2>1. nth_segment = 0 /\ offset = 0 /\ 0 * segment_size = 0
      BY Sizes DEF NotStartedInv
    <2>2. \A i \in Receivers : DOMAIN sent[i] = {}
      BY <2>1, NothingDealt
    <2> QED BY Sizes, <2>1, <2>2 DEF BytesInv, EndOf, Receivers
  <1> QED BY <1>1, <1>2, <1>3, <1>4

LEMMA InfoInv ==
    ASSUME IInv, Send_Info
    PROVE  IInv'
  <1> USE DEF IInv, Send_Info, Reopened, diskVars, optionVars, loopVars
  <1>1. TypeOK'
    <2>1. \A i \in Receivers :
            SegmentsFor(i, segment_count, receiver_MAX) \in Nat
      BY Sizes, NextDealt DEF Receivers
    <2> QED BY <2>1 DEF TypeOK, Receivers
  <1>2. NotStartedInv' /\ AnnouncedInv'
    BY DEF NotStartedInv, AnnouncedInv, Receivers
  <1>3. LoopInv'
    BY Sizes DEF NotStartedInv, LoopInv, Finished
  <1>4. TurnInv' /\ BytesInv'
    BY DEF TurnInv, BytesInv, EndOf, Piece, Receivers
  <1> QED BY <1>1, <1>2, <1>3, <1>4

LEMMA PieceInv ==
    ASSUME IInv, SendPiece
    PROVE  IInv'
  <1> USE DEF IInv, diskVars, optionVars, infoVars
  <1> DEFINE seg == [nthSegment |-> nth_segment, sement_size |-> BytesRead]
  <1>1. /\ disk_size \in Nat /\ total_file_size \in Nat
        /\ segment_size \in Nat \ {0} /\ receiver_MAX \in Nat \ {0}
        /\ nth_segment \in Nat /\ offset \in Nat /\ segment_count \in Nat
        /\ BytesRead \in Nat
    BY Sizes
  <1>2. /\ pc = "send" /\ BytesRead > 0
        /\ sent' = [sent EXCEPT ![rr_index] = Append(sent[rr_index], seg)]
        /\ offset' = offset + BytesRead
        /\ rr_index' = NextIndex(rr_index, receiver_MAX)
        /\ nth_segment' = nth_segment + 1
        /\ UNCHANGED <<disk_size, file_there, segment_size, receiver_MAX,
                       total_file_size, segment_count, announced>>
    BY DEF SendPiece
  <1>3. /\ rr_index = nth_segment % receiver_MAX
        /\ rr_index \in 0 .. (receiver_MAX - 1)
        /\ rr_index' = nth_segment' % receiver_MAX
        /\ rr_index' \in 0 .. (receiver_MAX - 1)
    <2>1. rr_index = nth_segment % receiver_MAX
      BY DEF TurnInv
    <2>2. nth_segment + 1 \in Nat
      BY <1>1
    <2> QED BY <2>1, <2>2, <1>1, <1>2, NextTurn
  <1>4. /\ seg \in [nthSegment : Nat, sement_size : Nat]
        /\ \A i \in Receivers : sent[i] \in Seq([nthSegment : Nat, sement_size : Nat])
        /\ DOMAIN sent = Receivers
        /\ rr_index \in Receivers /\ Receivers' = Receivers
        /\ Receivers = 0 .. (receiver_MAX - 1)
    BY <1>1, <1>2, <1>3 DEF TypeOK, Receivers
  <1> HIDE DEF seg
  <1>5. /\ sent'[rr_index] = Append(sent[rr_index], seg)
        /\ \A i \in Receivers \ {rr_index} : sent'[i] = sent[i]
    BY <1>2, <1>4
  <1>6. TypeOK'
    <2>1. sent' \in [Receivers -> Seq([nthSegment : Nat, sement_size : Nat])]
      BY <1>2, <1>4 DEF TypeOK
    <2>2. pc' \in {"crashed", "close", "send"}
      BY DEF SendPiece
    <2>3. /\ disk_size' = disk_size /\ total_file_size' = total_file_size
          /\ file_there' = file_there
          /\ segment_size' = segment_size /\ receiver_MAX' = receiver_MAX
          /\ segment_count' = segment_count /\ announced' = announced
          /\ nth_segment' \in Nat /\ offset' \in Nat
          /\ rr_index' \in Receivers
      BY <1>1, <1>2, <1>3, <1>4
    <2> QED BY <2>1, <2>2, <2>3, <1>4 DEF TypeOK
  <1>7. NotStartedInv' /\ AnnouncedInv'
    BY <1>2, <1>4 DEF SendPiece, NotStartedInv, AnnouncedInv
  <1>8. LoopInv'
    <2>1. total_file_size # 0 => nth_segment < segment_count
      BY <1>1, <1>2, CountRoundsUp DEF LoopInv, AnnouncedInv
    <2> QED BY <2>1, <1>1, <1>2 DEF SendPiece, LoopInv, Finished, LoopOver
  <1>9. TurnInv'
    <2> SUFFICES ASSUME NEW i \in Receivers
                 PROVE  Len(sent'[i]) = SegmentsFor(i, nth_segment + 1, receiver_MAX)
      BY <1>2, <1>3, <1>4 DEF TurnInv
    <2>1. /\ Len(sent[i]) = SegmentsFor(i, nth_segment, receiver_MAX)
          /\ SegmentsFor(i, nth_segment + 1, receiver_MAX) =
                SegmentsFor(i, nth_segment, receiver_MAX)
                    + (IF i = rr_index THEN 1 ELSE 0)
          /\ SegmentsFor(i, nth_segment, receiver_MAX) \in Nat
      <3>1. i \in 0 .. (receiver_MAX - 1)
        BY <1>4
      <3>2. Len(sent[i]) = SegmentsFor(i, nth_segment, receiver_MAX)
        BY DEF TurnInv
      <3> QED BY <3>1, <3>2, <1>1, <1>3, NextDealt
    <2>2. Len(sent'[i]) = Len(sent[i]) + (IF i = rr_index THEN 1 ELSE 0)
      BY <1>4, <1>5
    <2> QED BY <2>1, <2>2
  <1>10. BytesInv'
    <2> SUFFICES ASSUME disk_size = total_file_size
                 PROVE  BytesInv'
      BY <1>2 DEF BytesInv
    <2>1. /\ offset = EndOf(nth_segment)
          /\ \A i \in Receivers : \A k \in DOMAIN sent[i] :
                sent[i][k] = Piece(i + (k - 1) * receiver_MAX)
      BY DEF BytesInv
    <2> DEFINE at == nth_segment * segment_size
    <2>2. at \in Nat /\ (nth_segment + 1) * segment_size = at + segment_size
      BY <1>1
    <2>3. offset = (IF at <= total_file_size THEN at ELSE total_file_size)
      BY <2>1 DEF EndOf
    <2> HIDE DEF at
    <2>4. /\ at <= total_file_size
          /\ offset = at
          /\ BytesRead = IF at + segment_size <= total_file_size THEN segment_size
                         ELSE total_file_size - at
      BY <1>1, <1>2, <2>2, <2>3 DEF BytesRead
    <2>5. offset' = EndOf(nth_segment + 1)
      BY <1>1, <1>2, <2>2, <2>4 DEF EndOf
    <2>6. seg = Piece(nth_segment)
      BY <2>2, <2>4 DEF seg, Piece, at
    <2>7. nth_segment = rr_index + Len(sent[rr_index]) * receiver_MAX
      <3>1. SegmentsFor(rr_index, nth_segment, receiver_MAX)
                = nth_segment \div receiver_MAX
        BY <1>1, <1>3, NextDealt
      <3>2. Len(sent[rr_index]) = nth_segment \div receiver_MAX
        BY <3>1, <1>4 DEF TurnInv
      <3>3. nth_segment = (nth_segment % receiver_MAX)
                            + (nth_segment \div receiver_MAX) * receiver_MAX
        BY <1>1, NextTurn
      <3> QED BY <3>2, <3>3, <1>3
    <2>8. ASSUME NEW i \in Receivers, NEW k \in DOMAIN sent'[i]
          PROVE  sent'[i][k] = Piece(i + (k - 1) * receiver_MAX)
      <3>1. CASE i = rr_index
        <4>1. /\ Len(sent[i]) \in Nat
              /\ k \in DOMAIN sent[i] \/ k = Len(sent[i]) + 1
              /\ k \in DOMAIN sent[i] => sent'[i][k] = sent[i][k]
              /\ k = Len(sent[i]) + 1 => sent'[i][k] = seg
          <5>1. /\ sent[i] \in Seq([nthSegment : Nat, sement_size : Nat])
                /\ sent'[i] = Append(sent[i], seg)
            BY <1>4, <1>5, <3>1
          <5>2. k \in DOMAIN Append(sent[i], seg)
            BY <5>1
          <5> QED BY <5>1, <5>2, <1>4
        <4>2. CASE k \in DOMAIN sent[i]
          BY <4>1, <4>2, <2>1
        <4>3. CASE k = Len(sent[i]) + 1
          <5>1. k - 1 = Len(sent[i])
            BY <4>1, <4>3
          <5> QED BY <4>1, <4>3, <5>1, <2>6, <2>7, <3>1
        <4> QED BY <4>1, <4>2, <4>3
      <3>2. CASE i # rr_index
        BY <3>2, <1>5, <2>1, <2>8
      <3> QED BY <3>1, <3>2
    <2> QED BY <1>2, <1>4, <2>5, <2>8 DEF BytesInv, EndOf, Piece
  <1> QED BY <1>6, <1>7, <1>8, <1>9, <1>10

LEMMA OtherInv ==
    ASSUME IInv, NoSuchFile \/ ReadNothing \/ Close_Sockets \/ UNCHANGED vars
    PROVE  IInv'
  <1> USE DEF IInv, diskVars, optionVars, infoVars, loopVars, vars
  <1>1. /\ UNCHANGED <<disk_size, file_there, segment_size, receiver_MAX,
                       total_file_size, segment_count, announced, rr_index,
                       nth_segment, offset, sent>>
        /\ Receivers' = Receivers
    BY DEF NoSuchFile, ReadNothing, Close_Sockets, Receivers
  <1>2. TypeOK'
    <2>1. pc' \in {"close", "send", "closed", "failed", pc}
      BY DEF NoSuchFile, ReadNothing, Close_Sockets
    <2> QED BY <1>1, <2>1 DEF TypeOK
  <1>3. NotStartedInv' /\ AnnouncedInv'
    BY <1>1 DEF NoSuchFile, ReadNothing, Close_Sockets, NotStartedInv, AnnouncedInv
  <1>4. LoopInv'
    BY <1>1, Sizes DEF NoSuchFile, ReadNothing, Close_Sockets, LoopInv, Finished, LoopOver
  <1>5. TurnInv' /\ BytesInv'
    BY <1>1 DEF TurnInv, BytesInv, EndOf, Piece
  <1> QED BY <1>2, <1>3, <1>4, <1>5

-----------------------------------------------------------------------------

\* The inductive invariant of the sender.
THEOREM InvariantHolds == Spec => []IInv
  <1>1. ASSUME IInv, [Next]_vars
        PROVE  IInv'
    BY <1>1, PrepareInv, ReplacedInv, InfoInv, PieceInv, OtherInv DEF Next
  <1> QED BY InitInv, <1>1, PTL DEF Spec

\* The sender's variables keep their types: the turn is always a receiver, and
\* no count goes below zero.
THEOREM TypeCorrect == Spec => []TypeOK
  <1>1. IInv => TypeOK
    BY DEF IInv
  <1> QED BY InvariantHolds, <1>1, PTL

\* Send_Info's division and Send_Segment's turns agree for every file, segment
\* size and number of receivers, and for a file that changed in between.
THEOREM DealtAsAnnouncedAlways == Spec => []DealtAsAnnounced
  <1>1. ASSUME IInv
        PROVE  DealtAsAnnounced
    BY <1>1 DEF IInv, TurnInv, AnnouncedInv, LoopInv, DealtAsAnnounced, Finished
  <1> QED BY InvariantHolds, <1>1, PTL

\* What the receivers get of a file that stayed as it was is that file.
THEOREM SegmentsAreTheFileAlways == Spec => []SegmentsAreTheFile
  <1>1. ASSUME IInv
        PROVE  SegmentsAreTheFile
    <2> SUFFICES ASSUME Finished, disk_size = total_file_size
                 PROVE  /\ offset = total_file_size
                        /\ \A i \in Receivers : \A k \in DOMAIN sent[i] :
                            sent[i][k] = Piece(i + (k - 1) * receiver_MAX)
      BY DEF SegmentsAreTheFile, Piece
    <2>1. /\ total_file_size <= nth_segment * segment_size
          /\ total_file_size \in Nat /\ nth_segment * segment_size \in Nat
      <3>1. /\ total_file_size \in Nat /\ segment_size \in Nat \ {0}
            /\ nth_segment \in Nat
        BY <1>1, Sizes DEF IInv
      <3>2. nth_segment = SegmentCount(total_file_size, segment_size)
        BY <1>1 DEF IInv, AnnouncedInv, LoopInv, Finished
      <3> QED BY <3>1, <3>2, CountRoundsUp
    <2> QED BY <1>1, <2>1 DEF IInv, BytesInv, EndOf
  <1> QED BY InvariantHolds, <1>1, PTL

=============================================================================

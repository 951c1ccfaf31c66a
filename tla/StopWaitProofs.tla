---------------------------- MODULE StopWaitProofs ----------------------------
(***************************************************************************)
(* What holds of the stop-and-wait transfer for every buffer size, every   *)
(* file and any number of lost, repeated and reordered datagrams, provided *)
(* the network never repeats an acknowledgement.                           *)
(*                                                                         *)
(* The argument: at most one acknowledgement is ever in flight, it is the  *)
(* one for the packet the sender waits on, and a packet in flight carries  *)
(* the chunk its number says.                                              *)
(***************************************************************************)
EXTENDS StopWait, TLAPS

\* Without repeated acknowledgements.
NoDupAck == "dup_ack" \notin Faults

\* The position of the sender's loop follows from its program counter.
SenderInv ==
    /\ sender_pc \in {"info", "read"} => chunks_read = pkt_seq
    /\ sender_pc \in {"wait", "recvfrom"} =>
        /\ chunks_read = pkt_seq + 1
        /\ current_file = pkt_seq
        /\ current_file * BUF_SIZE < file_size
    /\ sender_pc = "closed" => chunks_read \in {pkt_seq, pkt_seq + 1}

\* A packet in flight carries a chunk of the file under its own number.
DataInv ==
    \A d \in data_net :
        /\ d.chunk = d.sequence
        /\ d.sequence < chunks_read
        /\ d.chunk * BUF_SIZE < file_size

\* The only acknowledgement in flight is for the packet sent last.
AckInv ==
    /\ ack_seq \in {pkt_seq, pkt_seq + 1}
    /\ ack_seq <= chunks_read
    /\ \A a \in ack_net : a.sequence = pkt_seq /\ ack_seq = pkt_seq + 1
    /\ \A a, b \in ack_net : a = b

\* The receiver has the first ack_seq chunks and no others.
FileInv ==
    /\ written = [i \in 1 .. ack_seq |-> i - 1]
    /\ read_len = IF ack_seq * BUF_SIZE <= file_size
                  THEN ack_seq * BUF_SIZE ELSE file_size
    /\ receiver_pc = "done" => Complete

IInv == TypeOK /\ SenderInv /\ DataInv /\ AckInv /\ FileInv

-----------------------------------------------------------------------------
(* Arithmetic of chunks. *)

\* Multiplying by the block size keeps the order of chunk positions.
LEMMA MulMono ==
    ASSUME NEW a \in Nat, NEW b \in Nat, a <= b
    PROVE  a * BUF_SIZE <= b * BUF_SIZE
  <1>1. PICK c \in Nat : b = a + c
    <2>1. b - a \in Nat /\ b = a + (b - a)
      OBVIOUS
    <2> QED BY <2>1
  <1>2. c * BUF_SIZE \in Nat /\ a * BUF_SIZE \in Nat
    BY StopWaitAssumption
  <1>3. b * BUF_SIZE = a * BUF_SIZE + c * BUF_SIZE
    BY <1>1, StopWaitAssumption
  <1> QED BY <1>2, <1>3

\* The chunks of a file are those that start before its end; there are as many
\* as Chunks of the abstract specification says.
LEMMA ChunkCount ==
    ASSUME NEW k \in Nat, NEW size \in Nat, k * BUF_SIZE < size
    PROVE  /\ (size + BUF_SIZE - 1) \div BUF_SIZE \in Nat
           /\ k < (size + BUF_SIZE - 1) \div BUF_SIZE
  <1> DEFINE n == size + BUF_SIZE - 1
             q == n \div BUF_SIZE
  <1>1. BUF_SIZE \in Nat /\ BUF_SIZE > 0
    BY StopWaitAssumption
  <1>2. n \in Nat
    BY <1>1
  <1>3. q \in Int /\ n = BUF_SIZE * q + (n % BUF_SIZE) /\ n % BUF_SIZE \in 0 .. (BUF_SIZE - 1)
    BY <1>1, <1>2, Z3 DEF n, q
  <1> QED BY <1>1, <1>2, <1>3

-----------------------------------------------------------------------------
(* The inductive invariant. *)

USE DEF Copies

LEMMA InitInv ==
    ASSUME Init
    PROVE  IInv
  <1> USE StopWaitAssumption DEF Init
  <1>1. TypeOK
    <2>1. info_net \in BOOLEAN /\ alarm \in BOOLEAN
      BY Zenon
    <2>2. written \in Seq(Nat) /\ faults \in 0 .. MaxFaults
      OBVIOUS
    <2> QED BY <2>1, <2>2 DEF TypeOK
  <1>2. SenderInv /\ DataInv /\ AckInv
    BY DEF SenderInv, DataInv, AckInv
  <1>3. FileInv
    <2>1. written = [i \in 1 .. ack_seq |-> i - 1]
      OBVIOUS
    <2>2. ack_seq * BUF_SIZE = 0 /\ 0 <= file_size
      OBVIOUS
    <2> QED BY <2>1, <2>2 DEF FileInv
  <1> QED BY <1>1, <1>2, <1>3 DEF IInv

\* The sender's own steps and the timeout.
LEMMA SenderKeepsInv ==
    ASSUME IInv, Sender \/ Timeout
    PROVE  IInv'
  <1> USE StopWaitAssumption DEF IInv, TypeOK, Data, Ack
  <1>1. CASE Send_File_Info
    BY <1>1 DEF Send_File_Info, receiverVars, SenderInv, DataInv, AckInv,
                FileInv, Complete
  <1>2. CASE ReadAndSend
    <2> USE <1>2 DEF ReadAndSend, Saved, Send_Packet, receiverVars
    <2>1. chunks_read * BUF_SIZE < file_size
      BY DEF SenderReadLen
    <2>2. PICK c \in Copies :
            data_net' = data_net \cup {[sequence |-> pkt_seq,
                                        chunk |-> chunks_read, copy |-> c]}
      OBVIOUS
    <2>3. TypeOK'
      BY <2>2
    <2>4. SenderInv'
      BY <2>1 DEF SenderInv
    <2>5. DataInv'
      BY <2>1, <2>2 DEF DataInv, SenderInv
    <2>6. AckInv' /\ FileInv'
      BY DEF AckInv, FileInv, Complete
    <2> QED BY <2>3, <2>4, <2>5, <2>6
  <1>3. CASE SenderClose
    BY <1>3 DEF SenderClose, receiverVars, nets, SenderInv, DataInv, AckInv,
                FileInv, Complete
  <1>4. CASE EnterRecvfrom
    BY <1>4 DEF EnterRecvfrom, receiverVars, nets, SenderInv, DataInv, AckInv,
                FileInv, Complete
  <1>5. ASSUME NEW a \in ack_net, Wait_For_ACK(a)
        PROVE  IInv'
    <2> USE <1>5 DEF Wait_For_ACK, receiverVars
    <2>1. a.sequence = pkt_seq /\ ack_seq = pkt_seq + 1 /\ ack_net' = {}
      BY DEF AckInv
    <2>2. TypeOK'
      OBVIOUS
    <2>3. SenderInv' /\ DataInv' /\ AckInv' /\ FileInv'
      BY <2>1 DEF SenderInv, DataInv, AckInv, FileInv, Complete
    <2> QED BY <2>2, <2>3
  <1>6. CASE Timeout
    <2> USE <1>6 DEF Timeout, Resent, Send_Packet, receiverVars
    <2>1. PICK c \in Copies :
            data_net' = data_net \cup {[sequence |-> pkt_seq,
                                        chunk |-> current_file, copy |-> c]}
      OBVIOUS
    <2>2. TypeOK'
      BY <2>1
    <2>3. DataInv'
      BY <2>1 DEF DataInv, SenderInv
    <2>4. SenderInv' /\ AckInv' /\ FileInv'
      BY DEF SenderInv, AckInv, FileInv, Complete
    <2> QED BY <2>2, <2>3, <2>4
  <1> QED BY <1>1, <1>2, <1>3, <1>4, <1>5, <1>6 DEF Sender

\* The receiver writes the next chunk of the file, and only then acknowledges.
LEMMA RecvPacketKeepsInv ==
    ASSUME IInv, NEW d \in data_net, RecvPacket(d)
    PROVE  IInv'
  <1> USE StopWaitAssumption DEF IInv, TypeOK, Data, Ack, RecvPacket, Expected,
      Acked, senderVars
  <1>1. d.sequence = ack_seq /\ d.chunk = ack_seq
        /\ ack_seq < chunks_read /\ ack_seq * BUF_SIZE < file_size
    BY DEF DataInv
  <1>2. ack_seq = pkt_seq /\ ack_net = {}
    BY <1>1 DEF AckInv, SenderInv
  <1>3. PICK c \in Copies :
          ack_net' = {[sequence |-> ack_seq, copy |-> c]}
    BY <1>1, <1>2
  <1>4. (ack_seq + 1) * BUF_SIZE = ack_seq * BUF_SIZE + BUF_SIZE
    OBVIOUS
  <1>5. read_len' = IF ack_seq' * BUF_SIZE <= file_size
                    THEN ack_seq' * BUF_SIZE ELSE file_size
    BY <1>1, <1>4 DEF FileInv, ChunkBytes
  <1>6. written' = [i \in 1 .. ack_seq' |-> i - 1]
    BY <1>1 DEF FileInv
  <1>7. TypeOK'
    BY <1>1, <1>3, <1>5
  <1>8. SenderInv' /\ DataInv'
    BY DEF SenderInv, DataInv
  <1>9. AckInv'
    BY <1>1, <1>2, <1>3 DEF AckInv
  <1>10. FileInv'
    BY <1>5, <1>6 DEF FileInv, Complete
  <1> QED BY <1>7, <1>8, <1>9, <1>10

LEMMA ReceiverKeepsInv ==
    ASSUME IInv, Receiver
    PROVE  IInv'
  <1> USE StopWaitAssumption DEF IInv, TypeOK
  <1>1. CASE RecvInfo
    BY <1>1 DEF RecvInfo, senderVars, SenderInv, DataInv, AckInv, FileInv,
                Complete
  <1>2. CASE DropInfo
    BY <1>2 DEF DropInfo, senderVars, receiverVars, SenderInv, DataInv,
                AckInv, FileInv, Complete
  <1>3. CASE ReceiverDone
    BY <1>3 DEF ReceiverDone, senderVars, nets, SenderInv, DataInv, AckInv,
                FileInv, Complete
  <1>4. ASSUME NEW d \in data_net, MisreadInfo(d)
        PROVE  IInv'
    BY <1>4 DEF MisreadInfo, senderVars, SenderInv, DataInv, AckInv, FileInv,
                Complete
  <1>5. ASSUME NEW d \in data_net, RecvPacket(d)
        PROVE  IInv'
    BY <1>5, RecvPacketKeepsInv
  <1>6. ASSUME NEW d \in data_net, WriteToNull(d)
        PROVE  IInv'
    BY <1>6 DEF WriteToNull, senderVars, SenderInv, DataInv, AckInv, FileInv,
                Complete
  <1>7. ASSUME NEW d \in data_net, DropPacket(d)
        PROVE  IInv'
    BY <1>7 DEF DropPacket, senderVars, receiverVars, SenderInv, DataInv,
                AckInv, FileInv, Complete
  <1> QED BY <1>1, <1>2, <1>3, <1>4, <1>5, <1>6, <1>7 DEF Receiver

\* Losing, repeating a data packet, discarding, an alarm too early.
LEMMA NetworkKeepsInv ==
    ASSUME IInv, Network, NoDupAck
    PROVE  IInv'
  <1> USE StopWaitAssumption DEF IInv, TypeOK
  <1>1. CASE DiscardData
    BY <1>1 DEF DiscardData, senderVars, receiverVars, SenderInv, DataInv,
                AckInv, FileInv, Complete
  <1>2. CASE DiscardAck
    BY <1>2 DEF DiscardAck, senderVars, receiverVars, SenderInv, DataInv,
                AckInv, FileInv, Complete
  <1>3. CASE LoseInfo
    <2> USE <1>3 DEF LoseInfo, Fault, receiverVars
    <2>1. TypeOK'
      <3>1. faults' \in 0 .. MaxFaults
        OBVIOUS
      <3>2. info_net' \in BOOLEAN /\ alarm' \in BOOLEAN
        BY Zenon
      <3> QED BY <3>1, <3>2
    <2>2. SenderInv' /\ DataInv' /\ AckInv' /\ FileInv'
      BY DEF SenderInv, DataInv, AckInv, FileInv, Complete
    <2> QED BY <2>1, <2>2
  <1>4. CASE EarlyAlarm
    <2> USE <1>4 DEF EarlyAlarm, Fault, receiverVars, nets
    <2>1. TypeOK'
      <3>1. faults' \in 0 .. MaxFaults
        OBVIOUS
      <3>2. info_net' \in BOOLEAN /\ alarm' \in BOOLEAN
        BY Zenon
      <3> QED BY <3>1, <3>2
    <2>2. SenderInv' /\ DataInv' /\ AckInv' /\ FileInv'
      BY DEF SenderInv, DataInv, AckInv, FileInv, Complete
    <2> QED BY <2>1, <2>2
  <1>5. ASSUME NEW d \in data_net, LoseData(d)
        PROVE  IInv'
    BY <1>5 DEF LoseData, Fault, receiverVars, SenderInv, DataInv, AckInv,
                FileInv, Complete
  <1>6. ASSUME NEW d \in data_net, DupData(d)
        PROVE  IInv'
    <2> USE <1>6 DEF DupData, Fault, receiverVars
    <2>1. PICK c \in Copies :
            data_net' = data_net \cup {[sequence |-> d.sequence,
                                        chunk |-> d.chunk, copy |-> c]}
      OBVIOUS
    <2>2. TypeOK'
      BY <2>1 DEF Data
    <2>3. DataInv'
      BY <2>1 DEF DataInv
    <2>4. SenderInv' /\ AckInv' /\ FileInv'
      BY DEF SenderInv, AckInv, FileInv, Complete
    <2> QED BY <2>2, <2>3, <2>4
  <1>7. ASSUME NEW a \in ack_net, LoseAck(a)
        PROVE  IInv'
    BY <1>7 DEF LoseAck, Fault, receiverVars, SenderInv, DataInv, AckInv,
                FileInv, Complete
  <1>8. ASSUME NEW a \in ack_net, DupAck(a)
        PROVE  IInv'
    BY <1>8 DEF DupAck, Fault, NoDupAck
  <1> QED BY <1>1, <1>2, <1>3, <1>4, <1>5, <1>6, <1>7, <1>8 DEF Network

LEMMA NextKeepsInv ==
    ASSUME NoDupAck, IInv, [Next]_vars
    PROVE  IInv'
  <1>1. CASE Next
    BY <1>1, SenderKeepsInv, ReceiverKeepsInv, NetworkKeepsInv DEF Next
  <1>2. CASE UNCHANGED vars
    BY <1>2 DEF vars, senderVars, receiverVars, nets, IInv, TypeOK, SenderInv,
                DataInv, AckInv, FileInv, Complete, Data, Ack
  <1> QED BY <1>1, <1>2

-----------------------------------------------------------------------------
(* The theorems. *)

\* The inductive invariant holds throughout: lines 78-112 of stop_wait_clnt.c
\* against lines 74-104 of stop_wait_serv.c.
THEOREM InvariantHolds ==
    ASSUME NoDupAck
    PROVE  Spec => []IInv
  BY InitInv, NextKeepsInv, PTL DEF Spec

\* Types.
THEOREM TypeCorrect ==
    ASSUME NoDupAck
    PROVE  Spec => []TypeOK
  <1>1. IInv => TypeOK
    BY DEF IInv
  <1> QED BY <1>1, InvariantHolds, PTL

\* Whatever is lost, repeated or reordered, the receiver's file is a prefix of
\* the sender's (the test seq == ack_seq, stop_wait_serv.c line 93).
THEOREM PrefixAlways ==
    ASSUME NoDupAck
    PROVE  Spec => []WrittenIsPrefix
  <1>1. IInv => WrittenIsPrefix
    BY StopWaitAssumption
    DEF IInv, TypeOK, FileInv, AckInv, WrittenIsPrefix
  <1> QED BY <1>1, InvariantHolds, PTL

\* The sender never sees an acknowledgement it does not expect (the test
\* ack_seq == pkt_seq, stop_wait_clnt.c line 149).
THEOREM InStepAlways ==
    ASSUME NoDupAck
    PROVE  Spec => []InStep
  <1>1. IInv => InStep
    BY DEF IInv, TypeOK, AckInv, InStep
  <1> QED BY <1>1, InvariantHolds, PTL

\* A receiver whose loop ends has the whole file (stop_wait_serv.c line 74).
THEOREM WholeWhenDone ==
    ASSUME NoDupAck
    PROVE  Spec => []DoneIsWhole
  <1>1. ASSUME IInv
        PROVE  DoneIsWhole
    <2> USE <1>1, StopWaitAssumption DEF IInv, TypeOK
    <2> SUFFICES ASSUME receiver_pc = "done"
                 PROVE  /\ read_len = file_size
                        /\ \A k \in 0 .. file_size :
                            k * BUF_SIZE < file_size => k < ack_seq
      BY DEF DoneIsWhole
    <2>1. read_len = file_size /\ ack_seq * BUF_SIZE >= file_size
      BY DEF FileInv, Complete
    <2>2. ASSUME NEW k \in 0 .. file_size, k * BUF_SIZE < file_size
          PROVE  k < ack_seq
      <3>1. CASE ack_seq <= k
        <4>1. ack_seq * BUF_SIZE <= k * BUF_SIZE
          BY <3>1, MulMono
        <4> QED BY <4>1, <2>1, <2>2
      <3> QED BY <3>1
    <2> QED BY <2>1, <2>2
  <1> QED BY <1>1, InvariantHolds, PTL

\* The transfer implements ChunkTransfer: a step of either program or of the
\* network appends the next chunk, or leaves the file alone.
THEOREM ImplementsChunkTransfer ==
    ASSUME NoDupAck
    PROVE  Spec => ChunkTransferSpec
  <1> DEFINE n == (file_size + BUF_SIZE - 1) \div BUF_SIZE
  <1>1. Init => CT!Init
    <2> SUFFICES ASSUME Init PROVE n \in Nat /\ written = << >>
      BY DEF CT!Init
    <2>1. file_size \in Nat /\ BUF_SIZE \in Nat /\ BUF_SIZE > 0
      BY StopWaitAssumption DEF Init
    <2>2. n \in Nat
      BY <2>1
    <2> QED BY <2>2 DEF Init
  <1>2. ASSUME IInv, [Next]_vars
        PROVE  [CT!WriteNext]_CT!vars
    <2> USE <1>2, StopWaitAssumption DEF IInv, TypeOK
    <2>1. CASE \E d \in data_net : RecvPacket(d)
      <3> PICK d \in data_net : RecvPacket(d)
        BY <2>1
      <3>1. d.chunk = ack_seq /\ ack_seq * BUF_SIZE < file_size
        BY DEF RecvPacket, Expected, DataInv, Data
      <3>2. Len(written) = ack_seq
        BY DEF FileInv
      <3>3. ack_seq < n
        BY <3>1, ChunkCount
      <3>4. written' = Append(written, ack_seq) /\ file_size' = file_size
        BY <3>1 DEF RecvPacket
      <3>5. n' = n
        BY <3>4
      <3> QED BY <3>2, <3>3, <3>4, <3>5 DEF CT!WriteNext
    <2>2. CASE ~(\E d \in data_net : RecvPacket(d))
      <3>1. written' = written /\ file_size' = file_size
        BY <2>2 DEF Next, Sender, Receiver, Network, Send_File_Info,
            ReadAndSend, SenderClose, EnterRecvfrom, Wait_For_ACK, Timeout,
            RecvInfo, DropInfo, ReceiverDone, MisreadInfo, WriteToNull,
            DropPacket, DiscardData, DiscardAck, LoseInfo, EarlyAlarm,
            LoseData, DupData, LoseAck, DupAck, Fault, receiverVars, vars
      <3> QED BY <3>1 DEF CT!vars
    <2> QED BY <2>1, <2>2
  <1> QED BY <1>1, <1>2, InvariantHolds, PTL
          DEF Spec, ChunkTransferSpec, CT!Spec

-----------------------------------------------------------------------------
(* The file information that was lost.  This needs no bound on what the     *)
(* network does: acknowledgements that do not exist cannot be repeated.     *)

\* A receiver that waits for the file information, or took something else for
\* it, has neither written nor acknowledged anything.
SilentInv ==
    /\ receiver_pc = "info" \/ fp = "null" =>
        /\ ack_net = {} /\ pkt_seq = 0 /\ written = << >>
        /\ receiver_pc # "done"
    /\ receiver_pc = "info" => fp = "none"

LEMMA NextKeepsSilentInv ==
    ASSUME SilentInv, [Next]_vars
    PROVE  SilentInv'
  <1> USE DEF SilentInv, senderVars, receiverVars, nets
  <1>1. CASE Sender \/ Timeout
    BY <1>1 DEF Sender, Send_File_Info, ReadAndSend, SenderClose, EnterRecvfrom,
                Wait_For_ACK, Timeout, Send_Packet
  <1>2. CASE Receiver
    BY <1>2 DEF Receiver, RecvInfo, DropInfo, MisreadInfo, RecvPacket,
                WriteToNull, DropPacket, ReceiverDone, Complete
  <1>3. CASE Network
    BY <1>3 DEF Network, Fault, LoseInfo, LoseData, LoseAck, DupData, DupAck,
                EarlyAlarm, DiscardData, DiscardAck
  <1>4. CASE UNCHANGED vars
    BY <1>4 DEF vars
  <1> QED BY <1>1, <1>2, <1>3, <1>4 DEF Next

\* A receiver that took a data packet for the file information never
\* acknowledges or writes anything, whatever the network does
\* (stop_wait_serv.c line 56, stop_wait_clnt.c line 180).
THEOREM MisreadIsSilentAlways == Spec => []MisreadIsSilent
  <1>1. Init => SilentInv
    BY DEF Init, SilentInv
  <1>2. SilentInv => MisreadIsSilent
    BY DEF SilentInv, MisreadIsSilent
  <1> QED BY <1>1, <1>2, NextKeepsSilentInv, PTL DEF Spec

-----------------------------------------------------------------------------
(* Repeated acknowledgements.  The sender then runs ahead, and sends several *)
(* chunks under one number; but chunks and numbers still grow together, and  *)
(* the receiver takes one packet of each number, in turn.                    *)

OrderTypes ==
    /\ chunks_read \in Nat /\ pkt_seq \in Nat /\ current_file \in Nat
    /\ written \in Seq(Nat) /\ ack_seq = Len(written)
    /\ data_net \subseteq Data

\* Chunk k was sent under the number n, or may still be.
InTurn(n, k) ==
    /\ \A d \in data_net : d.sequence < n => d.chunk < k
    /\ \A i \in 1 .. Len(written) : i <= n => written[i] < k

OrderInv ==
    /\ OrderTypes
    /\ \A d \in data_net :
        d.sequence <= pkt_seq /\ d.chunk < chunks_read /\ InTurn(d.sequence, d.chunk)
    /\ Len(written) <= pkt_seq + 1
    /\ \A i \in 1 .. Len(written) : written[i] < chunks_read
    /\ sender_pc \in {"wait", "recvfrom"} =>
        /\ current_file < chunks_read
        /\ InTurn(pkt_seq, current_file)
    /\ WrittenInOrder

\* What is sent goes behind what was sent under lower numbers.
LEMMA SendInTurn ==
    ASSUME OrderInv, NEW k \in Nat, NEW c \in Copies, k <= chunks_read,
           InTurn(pkt_seq, k),
           data_net' = data_net \cup {[sequence |-> pkt_seq, chunk |-> k, copy |-> c]},
           chunks_read' \in Nat, chunks_read <= chunks_read', k < chunks_read',
           UNCHANGED <<pkt_seq, written, ack_seq>>,
           current_file' = k
    PROVE  OrderInv'
  <1> DEFINE new == [sequence |-> pkt_seq, chunk |-> k, copy |-> c]
  <1>1. new \in Data /\ new.sequence = pkt_seq /\ new.chunk = k
    BY StopWaitAssumption DEF OrderInv, OrderTypes, Data
  <1>2. \A d \in data_net' : d \in data_net \/ d = new
    OBVIOUS
  <1> HIDE DEF new
  <1>3. OrderTypes'
    BY <1>1, <1>2 DEF OrderInv, OrderTypes
  <1>4. InTurn(pkt_seq, k)'
    BY <1>1, <1>2 DEF OrderInv, OrderTypes, InTurn
  <1>5. ASSUME NEW d \in data_net'
        PROVE  /\ d.sequence <= pkt_seq' /\ d.chunk < chunks_read'
               /\ InTurn(d.sequence, d.chunk)'
    <2>1. CASE d = new
      BY <1>1, <1>4, <2>1 DEF OrderInv, OrderTypes, InTurn
    <2>2. CASE d \in data_net
      <3>1. d.sequence \in Nat /\ d.chunk \in Nat
            /\ d.sequence <= pkt_seq /\ d.chunk < chunks_read
            /\ InTurn(d.sequence, d.chunk)
        BY <2>2 DEF OrderInv, OrderTypes, Data
      <3>2. \A e \in data_net' : e.sequence < d.sequence => e.chunk < d.chunk
        BY <1>1, <1>2, <3>1 DEF OrderInv, OrderTypes, InTurn
      <3> QED BY <3>1, <3>2 DEF OrderInv, OrderTypes, InTurn
    <2> QED BY <1>2, <2>1, <2>2
  <1>6. /\ Len(written') <= pkt_seq' + 1
        /\ \A i \in 1 .. Len(written') : written'[i] < chunks_read'
    BY DEF OrderInv, OrderTypes
  <1> QED BY <1>3, <1>4, <1>5, <1>6 DEF OrderInv, WrittenInOrder

\* Steps after which fewer packets, or copies of them, are in flight.
LEMMA FewerInOrder ==
    ASSUME OrderInv,
           data_net' \subseteq Data,
           \A d \in data_net' : \E e \in data_net :
                d.sequence = e.sequence /\ d.chunk = e.chunk,
           UNCHANGED <<chunks_read, pkt_seq, current_file, written, ack_seq>>,
           sender_pc' \in {"wait", "recvfrom"} => sender_pc \in {"wait", "recvfrom"}
    PROVE  OrderInv'
  <1>1. ASSUME NEW n, NEW k, InTurn(n, k)
        PROVE  InTurn(n, k)'
    BY <1>1 DEF InTurn
  <1>2. OrderTypes' /\ WrittenInOrder'
    BY DEF OrderInv, OrderTypes, WrittenInOrder
  <1>3. ASSUME NEW d \in data_net'
        PROVE  /\ d.sequence <= pkt_seq' /\ d.chunk < chunks_read'
               /\ InTurn(d.sequence, d.chunk)'
    <2>1. PICK e \in data_net : d.sequence = e.sequence /\ d.chunk = e.chunk
      OBVIOUS
    <2> QED BY <1>1, <2>1 DEF OrderInv
  <1> QED BY <1>1, <1>2, <1>3 DEF OrderInv

LEMMA NextKeepsOrderInv ==
    ASSUME OrderInv, [Next]_vars
    PROVE  OrderInv'
  <1> USE DEF senderVars, receiverVars, nets
  <1>1. CASE ReadAndSend
    <2>1. PICK c \in Copies :
            data_net' = data_net \cup
                {[sequence |-> pkt_seq, chunk |-> chunks_read, copy |-> c]}
      BY <1>1 DEF ReadAndSend, Send_Packet
    <2>2. InTurn(pkt_seq, chunks_read)
      BY DEF OrderInv, OrderTypes, InTurn
    <2>3. /\ chunks_read \in Nat /\ chunks_read' = chunks_read + 1
          /\ current_file' = chunks_read
          /\ UNCHANGED <<pkt_seq, written, ack_seq>>
      BY <1>1 DEF ReadAndSend, Saved, OrderInv, OrderTypes
    <2> QED BY <2>1, <2>2, <2>3, SendInTurn
  <1>2. CASE Timeout
    <2>1. PICK c \in Copies :
            data_net' = data_net \cup
                {[sequence |-> pkt_seq, chunk |-> current_file, copy |-> c]}
      BY <1>2 DEF Timeout, Resent, Send_Packet
    <2>2. /\ InTurn(pkt_seq, current_file) /\ current_file < chunks_read
          /\ current_file \in Nat /\ chunks_read \in Nat
      BY <1>2 DEF Timeout, OrderInv, OrderTypes
    <2>3. UNCHANGED <<chunks_read, current_file, pkt_seq, written, ack_seq>>
      BY <1>2 DEF Timeout
    <2> QED BY <2>1, <2>2, <2>3, SendInTurn
  <1>3. ASSUME NEW a \in ack_net, Wait_For_ACK(a)
        PROVE  OrderInv'
    <2>1. /\ pkt_seq' \in {pkt_seq, pkt_seq + 1} /\ pkt_seq \in Nat
          /\ sender_pc' = "read"
          /\ UNCHANGED <<chunks_read, current_file, written, ack_seq, data_net>>
      BY <1>3 DEF Wait_For_ACK, OrderInv, OrderTypes
    <2>2. OrderTypes' /\ WrittenInOrder'
      BY <2>1 DEF OrderInv, OrderTypes, WrittenInOrder
    <2>3. \A d \in data_net : d.sequence \in Nat
      BY DEF OrderInv, OrderTypes, Data
    <2>4. Len(written) \in Nat
      BY DEF OrderInv, OrderTypes
    <2> QED BY <2>1, <2>2, <2>3, <2>4 DEF OrderInv, InTurn
  <1>4. ASSUME NEW d \in data_net, RecvPacket(d)
        PROVE  OrderInv'
    <2>1. /\ d.sequence = ack_seq /\ written' = Append(written, d.chunk)
          /\ ack_seq' = ack_seq + 1 /\ data_net' = data_net \ {d}
          /\ UNCHANGED <<sender_pc, chunks_read, pkt_seq, current_file>>
      BY <1>4 DEF RecvPacket, Expected
    <2>2. /\ written \in Seq(Nat) /\ ack_seq = Len(written) /\ d.chunk \in Nat
          /\ \A e \in data_net : e.sequence \in Nat /\ e.chunk \in Nat
          /\ chunks_read \in Nat /\ pkt_seq \in Nat /\ current_file \in Nat
      BY DEF OrderInv, OrderTypes, Data
    <2>3. /\ Len(written') = Len(written) + 1 /\ written' \in Seq(Nat)
          /\ Len(written) \in Nat
          /\ \A i \in 1 .. Len(written) : written'[i] = written[i]
          /\ written'[Len(written) + 1] = d.chunk
      BY <2>1, <2>2
    <2>4. OrderTypes'
      BY <2>1, <2>2, <2>3 DEF OrderInv, OrderTypes
    <2>5. \A i \in 1 .. Len(written) : written[i] < d.chunk
      BY <2>1, <2>2 DEF OrderInv, InTurn
    <2>6. WrittenInOrder'
      <3> SUFFICES ASSUME NEW i \in 1 .. Len(written'), NEW j \in 1 .. Len(written'),
                          i < j
                   PROVE  written'[i] < written'[j]
        BY DEF WrittenInOrder
      <3>1. i \in 1 .. Len(written)
        BY <2>3
      <3>2. CASE j \in 1 .. Len(written)
        BY <2>3, <3>1, <3>2 DEF OrderInv, WrittenInOrder
      <3>3. CASE j = Len(written) + 1
        BY <2>3, <2>5, <3>1, <3>3
      <3> QED BY <2>3, <3>2, <3>3
    <2>7. ASSUME NEW n \in Nat, NEW k \in Nat, InTurn(n, k),
                 Len(written) < n => d.chunk < k
          PROVE  InTurn(n, k)'
      BY <2>1, <2>3, <2>7 DEF InTurn
    <2>8. \A e \in data_net' : InTurn(e.sequence, e.chunk)'
      <3> SUFFICES ASSUME NEW e \in data_net'
                   PROVE  InTurn(e.sequence, e.chunk)'
        OBVIOUS
      <3>1. e \in data_net /\ InTurn(e.sequence, e.chunk)
        BY <2>1 DEF OrderInv
      <3>2. Len(written) < e.sequence => d.chunk < e.chunk
        BY <2>1, <2>2, <3>1 DEF InTurn
      <3> QED BY <2>2, <2>7, <3>1, <3>2
    <2>9. sender_pc' \in {"wait", "recvfrom"} => InTurn(pkt_seq, current_file)'
      <3> SUFFICES ASSUME sender_pc' \in {"wait", "recvfrom"}
                   PROVE  InTurn(pkt_seq, current_file)'
        OBVIOUS
      <3>1. InTurn(pkt_seq, current_file)
        BY <2>1 DEF OrderInv
      <3>2. Len(written) < pkt_seq => d.chunk < current_file
        BY <2>1, <2>2, <3>1 DEF InTurn
      <3> QED BY <2>1, <2>2, <2>7, <3>1, <3>2
    <2>10. /\ Len(written') <= pkt_seq' + 1
           /\ \A i \in 1 .. Len(written') : written'[i] < chunks_read'
           /\ \A e \in data_net' : e.sequence <= pkt_seq' /\ e.chunk < chunks_read'
           /\ sender_pc' \in {"wait", "recvfrom"} => current_file' < chunks_read'
      BY <2>1, <2>2, <2>3 DEF OrderInv
    <2> QED BY <2>4, <2>6, <2>8, <2>9, <2>10 DEF OrderInv
  <1>5. ASSUME NEW d \in data_net, DupData(d)
        PROVE  OrderInv'
    <2>1. PICK c \in Copies :
            data_net' = data_net \cup {[sequence |-> d.sequence,
                                        chunk |-> d.chunk, copy |-> c]}
      BY <1>5 DEF DupData
    <2>2. data_net' \subseteq Data
      BY <2>1, StopWaitAssumption DEF OrderInv, OrderTypes, Data
    <2>3. UNCHANGED <<sender_pc, chunks_read, pkt_seq, current_file, written, ack_seq>>
      BY <1>5 DEF DupData, Fault
    <2> QED BY <2>1, <2>2, <2>3, FewerInOrder
  <1>6. CASE /\ ~ReadAndSend /\ ~Timeout
             /\ ~\E a \in ack_net : Wait_For_ACK(a)
             /\ ~\E d \in data_net : RecvPacket(d) \/ DupData(d)
    <2>1. /\ data_net' \subseteq data_net
          /\ UNCHANGED <<chunks_read, pkt_seq, current_file, written, ack_seq>>
          /\ sender_pc' \in {"wait", "recvfrom"} => sender_pc \in {"wait", "recvfrom"}
      BY <1>6 DEF Next, Sender, Receiver, Network, Send_File_Info,
         SenderClose, EnterRecvfrom, RecvInfo, DropInfo, ReceiverDone,
         MisreadInfo, WriteToNull, DropPacket, DiscardData, DiscardAck,
         LoseInfo, EarlyAlarm, LoseData, LoseAck, DupAck, Fault, vars
    <2>2. data_net' \subseteq Data
      BY <2>1 DEF OrderInv, OrderTypes
    <2> QED BY <2>1, <2>2, FewerInOrder
  <1> QED BY <1>1, <1>2, <1>3, <1>4, <1>5, <1>6

\* No chunk is written twice or out of order, whatever the network loses,
\* repeats and reorders, acknowledgements included (stop_wait_serv.c line 93).
THEOREM WrittenInOrderAlways == Spec => []WrittenInOrder
  <1>1. Init => OrderInv
    BY StopWaitAssumption DEF Init, OrderInv, OrderTypes, InTurn, WrittenInOrder
  <1>2. OrderInv => WrittenInOrder
    BY DEF OrderInv
  <1> QED BY <1>1, <1>2, NextKeepsOrderInv, PTL DEF Spec

=============================================================================

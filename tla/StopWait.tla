------------------------------- MODULE StopWait -------------------------------
(***************************************************************************)
(* The stop-and-wait file transfer over UDP of the second homework: the    *)
(* sender stop_wait_clnt.c and the receiver stop_wait_serv.c.              *)
(*                                                                         *)
(* A chunk of the file is known by its position; a data packet carries a   *)
(* sequence number and a chunk, which are the same thing only as long as   *)
(* the protocol works.  The network holds numbered copies of datagrams, at *)
(* most MaxCopies of each, and delivers them in any order.  What else may  *)
(* go wrong is in Faults, at most MaxFaults times:                         *)
(*   lose_info, lose_data, lose_ack   a datagram disappears                *)
(*   dup_data, dup_ack                a datagram is duplicated             *)
(*   overtake                         data arrives before the file info    *)
(*   early_alarm                      the alarm goes off before recvfrom   *)
(*                                    is entered                           *)
(***************************************************************************)
EXTENDS Integers, Sequences

CONSTANTS BUF_SIZE, FileSizes, Faults, MaxFaults, MaxCopies

ASSUME StopWaitAssumption ==
    /\ BUF_SIZE \in Nat \ {0}
    /\ FileSizes \subseteq Nat
    /\ MaxFaults \in Nat
    /\ MaxCopies \in Nat \ {0}

VARIABLES
    file_size,
    sender_pc,     \* "info", "read", "wait" (before recvfrom), "recvfrom", "closed"
    chunks_read,   \* chunks fread from the file
    pkt_seq,
    current_file,  \* the chunk saved for resending; its sequence is pkt_seq
    alarm,         \* an alarm is pending
    receiver_pc,   \* "info", "data", "done", "crashed"
    fp,            \* the receiver's file: "none", "open", or "null"
    ack_seq,
    read_len,      \* bytes the receiver has written
    written,       \* the chunks they belong to
    info_net, data_net, ack_net,   \* datagrams in flight
    faults         \* faults that may still happen

senderVars == <<sender_pc, chunks_read, pkt_seq, current_file, alarm>>
receiverVars == <<receiver_pc, fp, ack_seq, read_len, written>>
nets == <<info_net, data_net, ack_net>>
vars == <<file_size, senderVars, receiverVars, nets, faults>>

Copies == 1 .. MaxCopies
Data == [sequence : Nat, chunk : Nat, copy : Copies]
Ack == [sequence : Nat, copy : Copies]

Init ==
    /\ file_size \in FileSizes
    /\ sender_pc = "info"
    /\ chunks_read = 0
    /\ pkt_seq = 0
    /\ current_file = 0
    /\ alarm = FALSE
    /\ receiver_pc = "info"
    /\ fp = "none"
    /\ ack_seq = 0
    /\ read_len = 0
    /\ written = << >>
    /\ info_net = FALSE
    /\ data_net = {}
    /\ ack_net = {}
    /\ faults = MaxFaults

-----------------------------------------------------------------------------
(* The file and its chunks. *)

SenderReadLen ==
    IF chunks_read * BUF_SIZE <= file_size THEN chunks_read * BUF_SIZE
    ELSE file_size

ChunkBytes(k) ==
    IF (k + 1) * BUF_SIZE <= file_size THEN BUF_SIZE
    ELSE file_size - k * BUF_SIZE

-----------------------------------------------------------------------------
(* The sender. *)

Send_File_Info ==
    /\ sender_pc = "info"
    /\ info_net' = TRUE
    /\ sender_pc' = "read"
    /\ UNCHANGED <<file_size, chunks_read, pkt_seq, current_file, alarm,
                   receiverVars, data_net, ack_net, faults>>

\* sendto and alarm(2), as Send_Packet does them, with a free copy number.
Send_Packet(k) ==
    /\ \E c \in Copies :
        LET d == [sequence |-> pkt_seq, chunk |-> k, copy |-> c]
        IN  d \notin data_net /\ data_net' = data_net \cup {d}
    /\ alarm' = TRUE

\* A slip: what is to be sent next is sent again.
ResentNext == chunks_read

\* The chunk that Save_File keeps for resending, and the one that is resent.
Saved == chunks_read
Resent == current_file

\* One round of the loop up to Wait_For_ACK: a chunk that is not full is the
\* last, and for that one the loop is left without waiting.
ReadAndSend ==
    /\ sender_pc = "read"
    /\ SenderReadLen < file_size
    /\ Send_Packet(chunks_read)
    /\ current_file' = Saved
    /\ chunks_read' = chunks_read + 1
    /\ sender_pc' = IF ChunkBytes(chunks_read) < BUF_SIZE
                    THEN "closed" ELSE "wait"
    /\ UNCHANGED <<file_size, pkt_seq, receiverVars, info_net, ack_net, faults>>

SenderClose ==
    /\ sender_pc = "read"
    /\ SenderReadLen >= file_size
    /\ sender_pc' = "closed"
    /\ UNCHANGED <<file_size, chunks_read, pkt_seq, current_file, alarm,
                   receiverVars, nets, faults>>

EnterRecvfrom ==
    /\ sender_pc = "wait"
    /\ sender_pc' = "recvfrom"
    /\ UNCHANGED <<file_size, chunks_read, pkt_seq, current_file, alarm,
                   receiverVars, nets, faults>>

\* SIGALRM interrupts recvfrom, which returns -1: send the packet again.
Timeout ==
    /\ sender_pc = "recvfrom"
    /\ alarm
    /\ Send_Packet(Resent)
    /\ sender_pc' = "wait"
    /\ UNCHANGED <<file_size, chunks_read, pkt_seq, current_file,
                   receiverVars, info_net, ack_net, faults>>

\* Any acknowledgement ends the waiting; only the right one stops the alarm
\* and moves the sequence number on.
Wait_For_ACK(a) ==
    /\ sender_pc = "recvfrom"
    /\ a \in ack_net
    /\ ack_net' = ack_net \ {a}
    /\ pkt_seq' = IF a.sequence = pkt_seq THEN pkt_seq + 1 ELSE pkt_seq
    /\ alarm' = (alarm /\ a.sequence # pkt_seq)
    /\ sender_pc' = "read"
    /\ UNCHANGED <<file_size, chunks_read, current_file, receiverVars,
                   info_net, data_net, faults>>

-----------------------------------------------------------------------------
(* The receiver. *)

RecvInfo ==
    /\ receiver_pc = "info"
    /\ info_net
    /\ info_net' = FALSE
    /\ fp' = "open"
    /\ receiver_pc' = "data"
    /\ UNCHANGED <<file_size, senderVars, ack_seq, read_len, written,
                   data_net, ack_net, faults>>

\* Whatever comes first is taken for the file info.  A data packet has a zero
\* byte where the name should start, so fopen fails, and its message_size is
\* the upper half of the file size, which is then never reached.
MisreadInfo(d) ==
    /\ receiver_pc = "info"
    /\ d \in data_net
    /\ info_net => "overtake" \in Faults
    /\ data_net' = data_net \ {d}
    /\ fp' = "null"
    /\ receiver_pc' = "data"
    /\ UNCHANGED <<file_size, senderVars, ack_seq, read_len, written,
                   info_net, ack_net, faults>>

\* A slip in the loop condition: it never ends.
CompleteTooLate == fp = "open" /\ read_len > file_size

\* The loop condition read_len < file_size, with the size the receiver believes.
Complete == fp = "open" /\ read_len >= file_size

\* The file info that comes late has the name where a packet has its sequence
\* number: dropped.
DropInfo ==
    /\ receiver_pc = "data"
    /\ ~Complete
    /\ info_net
    /\ info_net' = FALSE
    /\ UNCHANGED <<file_size, senderVars, receiverVars, data_net, ack_net,
                   faults>>

\* Two slips: every packet is written, or the old ones as well.
ExpectedAny(d) == TRUE
ExpectedOld(d) == d.sequence <= ack_seq

\* The packet has the sequence number the receiver waits for.
Expected(d) == d.sequence = ack_seq

\* A slip: the acknowledgement is built after the counter was incremented.
AckedNext(d) == d.sequence + 1

\* The sequence number of the acknowledgement.
Acked(d) == d.sequence

\* The expected packet is written and acknowledged, once.
RecvPacket(d) ==
    /\ receiver_pc = "data"
    /\ ~Complete
    /\ d \in data_net
    /\ Expected(d)
    /\ fp = "open"
    /\ written' = Append(written, d.chunk)
    /\ read_len' = read_len + ChunkBytes(d.chunk)
    /\ \E c \in Copies :
        LET a == [sequence |-> Acked(d), copy |-> c]
        IN  a \notin ack_net /\ ack_net' = ack_net \cup {a}
    /\ ack_seq' = ack_seq + 1
    /\ data_net' = data_net \ {d}
    /\ UNCHANGED <<file_size, senderVars, receiver_pc, fp, info_net, faults>>

\* fwrite to the file that could not be opened.
WriteToNull(d) ==
    /\ receiver_pc = "data"
    /\ d \in data_net
    /\ Expected(d)
    /\ fp = "null"
    /\ receiver_pc' = "crashed"
    /\ data_net' = data_net \ {d}
    /\ UNCHANGED <<file_size, senderVars, fp, ack_seq, read_len, written,
                   info_net, ack_net, faults>>

\* Any other packet is ignored, without an acknowledgement.
DropPacket(d) ==
    /\ receiver_pc = "data"
    /\ ~Complete
    /\ d \in data_net
    /\ ~Expected(d)
    /\ data_net' = data_net \ {d}
    /\ UNCHANGED <<file_size, senderVars, receiverVars, info_net, ack_net,
                   faults>>

\* The loop is over; the throughput is the size divided by the clock ticks the
\* loop took, of which there may be none when it had nothing to do.
ReceiverDone ==
    /\ receiver_pc = "data"
    /\ Complete
    /\ receiver_pc' \in {"done"} \cup (IF file_size = 0 THEN {"crashed"} ELSE {})
    /\ UNCHANGED <<file_size, senderVars, fp, ack_seq, read_len, written,
                   nets, faults>>

-----------------------------------------------------------------------------
(* What the network and the clock may do. *)

Fault(kind) ==
    /\ kind \in Faults
    /\ faults > 0
    /\ faults' = faults - 1
    /\ UNCHANGED <<file_size, receiverVars, sender_pc, chunks_read, pkt_seq,
                   current_file>>

LoseInfo ==
    /\ info_net
    /\ Fault("lose_info")
    /\ info_net' = FALSE
    /\ UNCHANGED <<alarm, data_net, ack_net>>

LoseData(d) ==
    /\ d \in data_net
    /\ Fault("lose_data")
    /\ data_net' = data_net \ {d}
    /\ UNCHANGED <<alarm, info_net, ack_net>>

LoseAck(a) ==
    /\ a \in ack_net
    /\ Fault("lose_ack")
    /\ ack_net' = ack_net \ {a}
    /\ UNCHANGED <<alarm, info_net, data_net>>

DupData(d) ==
    /\ d \in data_net
    /\ Fault("dup_data")
    /\ \E c \in Copies :
        data_net' = data_net \cup {[sequence |-> d.sequence,
                                    chunk |-> d.chunk, copy |-> c]}
    /\ UNCHANGED <<alarm, info_net, ack_net>>

DupAck(a) ==
    /\ a \in ack_net
    /\ Fault("dup_ack")
    /\ \E c \in Copies :
        ack_net' = ack_net \cup {[sequence |-> a.sequence, copy |-> c]}
    /\ UNCHANGED <<alarm, info_net, data_net>>

\* The handler only prints: recvfrom is then entered with no alarm to end it.
EarlyAlarm ==
    /\ sender_pc = "wait"
    /\ alarm
    /\ Fault("early_alarm")
    /\ alarm' = FALSE
    /\ UNCHANGED nets

\* What arrives for a program that has closed its socket is thrown away.
DiscardData ==
    /\ receiver_pc \in {"done", "crashed"}
    /\ data_net # {}
    /\ data_net' = {}
    /\ UNCHANGED <<file_size, senderVars, receiverVars, info_net, ack_net,
                   faults>>

DiscardAck ==
    /\ sender_pc = "closed"
    /\ ack_net # {}
    /\ ack_net' = {}
    /\ UNCHANGED <<file_size, senderVars, receiverVars, info_net, data_net,
                   faults>>

-----------------------------------------------------------------------------
Sender ==
    \/ Send_File_Info
    \/ ReadAndSend
    \/ SenderClose
    \/ EnterRecvfrom
    \/ \E a \in ack_net : Wait_For_ACK(a)

Receiver ==
    \/ RecvInfo
    \/ DropInfo
    \/ ReceiverDone
    \/ \E d \in data_net : \/ MisreadInfo(d)
                           \/ RecvPacket(d)
                           \/ WriteToNull(d)
                           \/ DropPacket(d)

Network ==
    \/ DiscardData
    \/ DiscardAck
    \/ LoseInfo
    \/ EarlyAlarm
    \/ \E d \in data_net : LoseData(d) \/ DupData(d)
    \/ \E a \in ack_net : LoseAck(a) \/ DupAck(a)

Next == Sender \/ Timeout \/ Receiver \/ Network

Spec == Init /\ [][Next]_vars

\* Both programs run, an alarm that is pending goes off, what the network does
\* not lose it delivers, and an acknowledgement that has arrived is not passed
\* over for timeouts for ever.
FairSpec ==
    /\ Spec
    /\ WF_vars(Sender)
    /\ WF_vars(Timeout)
    /\ WF_vars(Receiver)
    /\ WF_vars(DiscardData)
    /\ SF_vars(\E a \in ack_net : Wait_For_ACK(a))

-----------------------------------------------------------------------------
(* Properties. *)

TypeOK ==
    /\ file_size \in FileSizes
    /\ sender_pc \in {"info", "read", "wait", "recvfrom", "closed"}
    /\ chunks_read \in Nat
    /\ pkt_seq \in Nat
    /\ current_file \in Nat
    /\ alarm \in BOOLEAN
    /\ receiver_pc \in {"info", "data", "done", "crashed"}
    /\ fp \in {"none", "open", "null"}
    /\ ack_seq \in Nat
    /\ read_len \in Int
    /\ written \in Seq(Nat)
    /\ info_net \in BOOLEAN
    /\ data_net \subseteq Data
    /\ ack_net \subseteq Ack
    /\ faults \in 0 .. MaxFaults

\* The receiver's file is always a prefix of the sender's, chunk for chunk, and
\* no longer: nothing twice, nothing skipped, nothing out of order, however the
\* network loses, repeats and reorders the packets.
WrittenIsPrefix ==
    /\ written = [i \in 1 .. ack_seq |-> i - 1]
    /\ ack_seq <= chunks_read
    /\ read_len <= file_size

\* The two counters stay in step: the receiver is at most one ahead, and an
\* acknowledgement in flight is the one the sender waits for, so `DROP wrong
\* packet' is never printed.
InStep ==
    /\ ack_seq \in {pkt_seq, pkt_seq + 1}
    /\ sender_pc # "closed" =>
        \A a \in ack_net : a.sequence = pkt_seq /\ pkt_seq < ack_seq

\* A receiver that ends has the whole file, byte for byte.
DoneIsWhole ==
    receiver_pc = "done" =>
        /\ read_len = file_size
        /\ \A k \in 0 .. file_size : k * BUF_SIZE < file_size => k < ack_seq

\* The transfer implements the abstract one.
CT == INSTANCE ChunkTransfer
        WITH chunks <- (file_size + BUF_SIZE - 1) \div BUF_SIZE
ChunkTransferSpec == CT!Spec

\* Acknowledgements repeated by the network make the sender run ahead with
\* chunks under the wrong number.  The file then has gaps, but even so no chunk
\* is in it twice or before one that precedes it.
WrittenInOrder ==
    \A i, j \in 1 .. Len(written) : i < j => written[i] < written[j]

\* A receiver that took a data packet for the file info acknowledges nothing
\* and writes nothing, so the sender never believes that a chunk arrived.
MisreadIsSilent ==
    fp = "null" => /\ pkt_seq = 0 /\ ack_net = {}
                   /\ written = << >>
                   /\ receiver_pc # "done"

\* The four ways to hang.  The receiver never repeats an acknowledgement that
\* was lost; without its info it takes data for it, or waits; the last packet is
\* not waited for, so nobody sends it again; an alarm that went off before
\* recvfrom was entered does not interrupt it.
AckLost ==
    /\ sender_pc \in {"wait", "recvfrom"}
    /\ ack_seq > pkt_seq
    /\ \A a \in ack_net : a.sequence # pkt_seq

InfoLost ==
    \/ fp = "null"
    \/ receiver_pc = "info" /\ sender_pc # "info" /\ ~info_net

Arriving == \E d \in data_net : d.sequence = ack_seq

EndLost ==
    /\ sender_pc = "closed" /\ receiver_pc = "data"
    /\ read_len < file_size /\ ~Arriving

AlarmMissed ==
    /\ sender_pc = "recvfrom" /\ ~alarm
    /\ ack_seq = pkt_seq /\ ~Arriving

BothEnd == sender_pc = "closed" /\ receiver_pc \in {"done", "crashed"}

\* Whatever is lost, repeated or reordered, both programs end, unless they meet
\* one of these four; there is no fifth way to hang.
EndsOrLoses ==
    <>[](BothEnd \/ AckLost \/ InfoLost \/ EndLost \/ AlarmMissed)

=============================================================================

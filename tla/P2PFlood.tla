------------------------------- MODULE P2PFlood -------------------------------
(***************************************************************************)
(* The transfer phase of the peer-to-peer program (Final Project/p2p.c):   *)
(* one sender deals S segments round robin to N receivers, and every       *)
(* receiver floods what it got from the sender to all the others.          *)
(*                                                                         *)
(* The module starts where P2PSession ends: every pair of receivers shares *)
(* one TCP connection and every receiver knows how many segments to expect *)
(* from the sender.  A receiver is a process with one thread per stream:   *)
(* accpt_snd_seg (with the flood_segment thread it starts and joins), one  *)
(* accpt_rcv_seg per peer, and main, which writes the file and exits when  *)
(* it is signalled.  An action is one critical section of `mutx', one      *)
(* blocking read of a whole segment, or one blocking write of a segment.   *)
(* How the threads of one receiver interleave inside those sections is the *)
(* subject of P2PReceiver.  A signal that finds main not waiting yet is    *)
(* lost here as it is there.                                               *)
(*                                                                         *)
(* A TCP stream is a sequence of segments of which it buffers Capacity: a  *)
(* write that leaves more in it blocks until the reader has taken enough.  *)
(* With Capacity 0, for segments larger than the buffers of a socket,      *)
(* every write waits for its reader.  A flood writes to the peers in the   *)
(* order in which their connections were made, and waits for a slow reader *)
(* though the next one is ready.                                           *)
(***************************************************************************)
EXTENDS SegmentPlan, Sequences, FiniteSets

CONSTANTS N,         \* receiver_MAX of the sender, max_receiver_cnt
          S,         \* file_info->segment_count
          Capacity   \* whole segments a TCP stream buffers

ASSUME NAssumption == N \in Nat \ {0}
ASSUME SAssumption == S \in Nat
ASSUME CapacityAssumption == Capacity \in Nat

Receivers == 0 .. (N - 1)
Segments == 0 .. (S - 1)
Peers(r) == Receivers \ {r}

VARIABLES
    rr_index, nth_segment,   \* the sender's loop
    sender_closed,           \* the sender has closed its sockets
    from_sender,             \* the stream from the sender to each receiver
    link,                    \* link[q][r]: the stream from q to r
    segment_array,           \* the numbers of the slots that are filled
    current_segment_cnt,     \* segments received
    finished_segment_cnt,    \* segments received and, if owned, flooded
    snd_pc, snd_i,           \* accpt_snd_seg: where it is, its loop counter
    flood_seg, flood_to,     \* flood_segment: its segment, the peers left
    rcv_pc,                  \* rcv_pc[r][q]: the thread of r that reads q
    recv_sock_array,         \* the peers in the order of their connections
    signalled,               \* cond_finish was signalled, and main waited for it
    missed,                  \* ... only before main waited, and to no effect
    exited,                  \* main has closed the sockets and returned
    file                     \* the slots main wrote to the file

senderVars == <<rr_index, nth_segment, sender_closed>>
countVars == <<segment_array, current_segment_cnt, finished_segment_cnt>>
sndVars == <<snd_pc, snd_i, flood_seg, flood_to>>
waitVars == <<signalled, missed>>
mainVars == <<recv_sock_array, exited, file>>
vars == <<senderVars, from_sender, link, countVars, sndVars, rcv_pc,
          waitVars, mainVars>>

\* The orders in which the sockets of r's peers can come into its array:
\* conn_receiver connects to the later ones one after the other, beside it
\* accpt_receiver takes the earlier ones in whatever order they come.
Orders(r) ==
    {s \in [1 .. (N - 1) -> Peers(r)] :
        \A i, j \in 1 .. (N - 1) :
            i < j => s[i] # s[j] /\ (s[i] > r /\ s[j] > r => s[i] < s[j])}

Init ==
    /\ rr_index = 0
    /\ nth_segment = 0
    /\ sender_closed = FALSE
    /\ from_sender = [r \in Receivers |-> << >>]
    /\ link = [q \in Receivers |-> [r \in Receivers |-> << >>]]
    /\ segment_array = [r \in Receivers |-> {}]
    /\ current_segment_cnt = [r \in Receivers |-> 0]
    /\ finished_segment_cnt = [r \in Receivers |-> 0]
    /\ snd_pc = [r \in Receivers |-> "read"]
    /\ snd_i = [r \in Receivers |-> 0]
    /\ flood_seg = [r \in Receivers |-> 0]
    /\ flood_to = [r \in Receivers |-> {}]
    /\ rcv_pc = [r \in Receivers |-> [q \in Peers(r) |-> "read"]]
    /\ recv_sock_array \in [Receivers -> UNION {Orders(r) : r \in Receivers}]
    /\ \A r \in Receivers : recv_sock_array[r] \in Orders(r)
    /\ signalled = [r \in Receivers |-> FALSE]
    /\ missed = [r \in Receivers |-> FALSE]
    /\ exited = [r \in Receivers |-> FALSE]
    /\ file = [r \in Receivers |-> {}]

-----------------------------------------------------------------------------
(* The sender: Send_Segment, then Close_Sockets. *)

\* The break of the loop.
AllSent == nth_segment >= S

\* The writes so far have returned: each stream buffers what is left in it.
SenderFree == \A r \in Receivers : Len(from_sender[r]) <= Capacity

\* Read the next piece of the file and write it to the receiver whose turn it
\* is.
SendSegment ==
    /\ ~AllSent
    /\ SenderFree
    /\ from_sender' = [from_sender EXCEPT ![rr_index] =
                            Append(@, nth_segment)]
    /\ nth_segment' = nth_segment + 1
    /\ rr_index' = NextIndex(rr_index, N)
    /\ UNCHANGED <<sender_closed, link, countVars, sndVars, rcv_pc,
                   waitVars, mainVars>>

SenderClose ==
    /\ AllSent
    /\ SenderFree
    /\ ~sender_closed
    /\ sender_closed' = TRUE
    /\ UNCHANGED <<rr_index, nth_segment, from_sender, link, countVars,
                   sndVars, rcv_pc, waitVars, mainVars>>

-----------------------------------------------------------------------------
(* A receiver. *)

\* pthread_cond_signal(&cond_finish) if enough.  The other threads run while
\* main is still joining those of the set-up: a signal finds it waiting or not
\* there yet, and in that case is lost.  Once found waiting it stays so.
SignalIf(r, enough) ==
    IF enough /\ ~signalled[r]
    THEN \E waiting \in BOOLEAN :
            /\ signalled' = [signalled EXCEPT ![r] = waiting]
            /\ missed' = [missed EXCEPT ![r] = ~waiting]
    ELSE UNCHANGED waitVars

\* Two slips: to signal one segment early, and to signal when everything is
\* received while some of it is not flooded yet.
SignalOneEarly(r) == SignalIf(r, finished_segment_cnt[r] + 1 >= S)

SignalIfReceived(r) == SignalIf(r, current_segment_cnt[r] >= S)

\* Signal main when everything is finished.
SignalIfFinished(r) == SignalIf(r, finished_segment_cnt[r] >= S)

\* A slip: the flood takes the slot of the last arrival, by the count.
FloodedByCount(r) == current_segment_cnt[r]

\* The segment whose slot is handed to the flood: the one just read.
Flooded(r) == Head(from_sender[r])

\* One round of accpt_snd_seg: read a segment from the sender, store and count
\* it, start the thread that floods it.
ReadFromSender(r) ==
    /\ ~exited[r]
    /\ snd_pc[r] = "read"
    /\ snd_i[r] < SegmentsFor(r, S, N)
    /\ from_sender[r] # << >>
    /\ segment_array' = [segment_array EXCEPT ![r] =
                            @ \cup {Head(from_sender[r])}]
    /\ flood_seg' = [flood_seg EXCEPT ![r] = Flooded(r)]
    /\ from_sender' = [from_sender EXCEPT ![r] = Tail(@)]
    /\ current_segment_cnt' = [current_segment_cnt EXCEPT ![r] = @ + 1]
    /\ flood_to' = [flood_to EXCEPT ![r] = Peers(r)]
    /\ snd_pc' = [snd_pc EXCEPT ![r] = "flood"]
    /\ UNCHANGED <<senderVars, link, finished_segment_cnt, snd_i, rcv_pc,
                   waitVars, mainVars>>

\* q is the peer whose turn it is in the loop over recv_sock_array.
NextInLine(r, q) ==
    \E i \in 1 .. (N - 1) :
        /\ recv_sock_array[r][i] = q
        /\ \A j \in 1 .. (i - 1) : recv_sock_array[r][j] \notin flood_to[r]

\* The last write of the flood has returned.
FloodFree(r) == \A q \in Peers(r) : Len(link[r][q]) <= Capacity

\* A slip: the index over the sockets is not advanced.
FloodWriteAgain(r, q) ==
    /\ ~exited[r]
    /\ snd_pc[r] = "flood"
    /\ q \in flood_to[r]
    /\ NextInLine(r, q)
    /\ FloodFree(r)
    /\ link' = [link EXCEPT ![r][q] = Append(@, flood_seg[r])]
    /\ UNCHANGED <<senderVars, from_sender, countVars, sndVars, rcv_pc,
                   waitVars, mainVars>>

\* flood_segment writes its segment to the next peer.
FloodWrite(r, q) ==
    /\ ~exited[r]
    /\ snd_pc[r] = "flood"
    /\ q \in flood_to[r]
    /\ NextInLine(r, q)
    /\ FloodFree(r)
    /\ link' = [link EXCEPT ![r][q] = Append(@, flood_seg[r])]
    /\ flood_to' = [flood_to EXCEPT ![r] = @ \ {q}]
    /\ UNCHANGED <<senderVars, from_sender, countVars, snd_pc, snd_i,
                   flood_seg, rcv_pc, waitVars, mainVars>>

\* ... and counts it as finished once every peer has it.
FloodCount(r) ==
    /\ ~exited[r]
    /\ snd_pc[r] = "flood"
    /\ flood_to[r] = {}
    /\ FloodFree(r)
    /\ finished_segment_cnt' = [finished_segment_cnt EXCEPT ![r] = @ + 1]
    /\ snd_pc' = [snd_pc EXCEPT ![r] = "signal"]
    /\ UNCHANGED <<senderVars, from_sender, link, segment_array,
                   current_segment_cnt, snd_i, flood_seg, flood_to, rcv_pc,
                   waitVars, mainVars>>

\* A slip: only the threads that read from peers signal.
FloodEndsSilently(r) ==
    /\ ~exited[r]
    /\ snd_pc[r] = "signal"
    /\ snd_pc' = [snd_pc EXCEPT ![r] = "read"]
    /\ snd_i' = [snd_i EXCEPT ![r] = @ + 1]
    /\ UNCHANGED <<senderVars, from_sender, link, countVars, flood_seg,
                   flood_to, rcv_pc, waitVars, mainVars>>

\* Its second critical section; accpt_snd_seg joins it and goes on.
FloodSignal(r) ==
    /\ ~exited[r]
    /\ snd_pc[r] = "signal"
    /\ SignalIfFinished(r)
    /\ snd_pc' = [snd_pc EXCEPT ![r] = "read"]
    /\ snd_i' = [snd_i EXCEPT ![r] = @ + 1]
    /\ UNCHANGED <<senderVars, from_sender, link, countVars, flood_seg,
                   flood_to, rcv_pc, mainVars>>

\* A slip: the flood holds mutx over its writes, and nobody else counts then.
ReadersRunBesideNoFlood(r) == ~exited[r] /\ snd_pc[r] # "flood"

\* The threads that read from peers run beside the flood.
ReadersRun(r) == ~exited[r]

\* accpt_rcv_seg: read a segment from peer q, store it and count it twice.
ReadFromPeer(r, q) ==
    /\ ReadersRun(r)
    /\ rcv_pc[r][q] = "read"
    /\ link[q][r] # << >>
    /\ segment_array' = [segment_array EXCEPT ![r] =
                            @ \cup {Head(link[q][r])}]
    /\ link' = [link EXCEPT ![q][r] = Tail(@)]
    /\ current_segment_cnt' = [current_segment_cnt EXCEPT ![r] = @ + 1]
    /\ finished_segment_cnt' = [finished_segment_cnt EXCEPT ![r] = @ + 1]
    /\ rcv_pc' = [rcv_pc EXCEPT ![r][q] = "check"]
    /\ UNCHANGED <<senderVars, from_sender, sndVars, waitVars, mainVars>>

\* Everything has been received.
Received(r) == current_segment_cnt[r] >= S

\* Leave the loop if so.
CheckReceived(r, q) ==
    /\ ~exited[r]
    /\ rcv_pc[r][q] = "check"
    /\ rcv_pc' = [rcv_pc EXCEPT ![r][q] =
                    IF Received(r) THEN "signal" ELSE "read"]
    /\ UNCHANGED <<senderVars, from_sender, link, countVars, sndVars,
                   waitVars, mainVars>>

\* read returned 0: the peer has closed its end and everything it sent is read.
PeerEof(r, q) ==
    /\ ~exited[r]
    /\ rcv_pc[r][q] = "read"
    /\ exited[q]
    /\ link[q][r] = << >>
    /\ rcv_pc' = [rcv_pc EXCEPT ![r][q] = "signal"]
    /\ UNCHANGED <<senderVars, from_sender, link, countVars, sndVars,
                   waitVars, mainVars>>

\* After the loop.
PeerSignal(r, q) ==
    /\ ~exited[r]
    /\ rcv_pc[r][q] = "signal"
    /\ SignalIfFinished(r)
    /\ rcv_pc' = [rcv_pc EXCEPT ![r][q] = "done"]
    /\ UNCHANGED <<senderVars, from_sender, link, countVars, sndVars,
                   mainVars>>

\* Wait_All_Segment after the wait: write the first current_segment_cnt slots to
\* the file, close the sockets; main returns and takes its threads with it.
Exit(r) ==
    /\ ~exited[r]
    /\ signalled[r]
    /\ file' = [file EXCEPT ![r] = 0 .. (current_segment_cnt[r] - 1)]
    /\ exited' = [exited EXCEPT ![r] = TRUE]
    /\ UNCHANGED <<senderVars, from_sender, link, countVars, sndVars, rcv_pc,
                   waitVars, recv_sock_array>>

-----------------------------------------------------------------------------
SenderStep == SendSegment \/ SenderClose

SndThread(r) ==
    \/ ReadFromSender(r)
    \/ \E q \in Peers(r) : FloodWrite(r, q)
    \/ FloodCount(r)
    \/ FloodSignal(r)

RcvThread(r, q) ==
    \/ ReadFromPeer(r, q)
    \/ CheckReceived(r, q)
    \/ PeerEof(r, q)
    \/ PeerSignal(r, q)

ReceiverStep(r) ==
    \/ SndThread(r)
    \/ \E q \in Peers(r) : RcvThread(r, q)
    \/ Exit(r)

Next == SenderStep \/ \E r \in Receivers : ReceiverStep(r)

Spec == Init /\ [][Next]_vars

\* Every thread is scheduled and TCP delivers what is written.  Nothing is
\* assumed of signals: one that comes before main waits is lost.
Fairness ==
    /\ WF_vars(SenderStep)
    /\ \A r \in Receivers :
        /\ WF_vars(SndThread(r))
        /\ \A q \in Peers(r) : WF_vars(RcvThread(r, q))
        /\ WF_vars(Exit(r))

FairSpec == Spec /\ Fairness

-----------------------------------------------------------------------------
(* Properties. *)

\* The elements of a stream, and whether one occurs in it twice.
Carried(stream) == {stream[i] : i \in DOMAIN stream}
HasRepeat(stream) ==
    \E i, j \in DOMAIN stream : i # j /\ stream[i] = stream[j]

TypeOK ==
    /\ rr_index \in Receivers
    /\ nth_segment \in 0 .. S
    /\ sender_closed \in BOOLEAN
    /\ from_sender \in [Receivers -> Seq(Segments)]
    /\ link \in [Receivers -> [Receivers -> Seq(Segments)]]
    /\ segment_array \in [Receivers -> SUBSET Segments]
    /\ current_segment_cnt \in [Receivers -> 0 .. S]
    /\ finished_segment_cnt \in [Receivers -> 0 .. S]
    /\ snd_pc \in [Receivers -> {"read", "flood", "signal"}]
    /\ snd_i \in [Receivers -> Nat]
    /\ flood_seg \in [Receivers -> Segments \cup {0}]
    /\ flood_to \in [Receivers -> SUBSET Receivers]
    /\ DOMAIN rcv_pc = Receivers
    /\ \A r \in Receivers :
        rcv_pc[r] \in [Peers(r) -> {"read", "check", "signal", "done"}]
    /\ recv_sock_array \in [Receivers -> [1 .. (N - 1) -> Receivers]]
    /\ signalled \in [Receivers -> BOOLEAN]
    /\ missed \in [Receivers -> BOOLEAN]
    /\ exited \in [Receivers -> BOOLEAN]
    /\ file \in [Receivers -> SUBSET Segments]

\* The file a receiver leaves behind holds every segment, and each slot it was
\* written from had been filled: `current_segment_cnt' counts streams, not
\* slots, and nothing but the bookkeeping of the flood ties the two together
\* (Wait_All_Segment, line 436).
WholeFile ==
    \A r \in Receivers :
        exited[r] => file[r] = Segments /\ segment_array[r] = Segments

\* A receiver that exits owes its peers nothing: exiting kills the flood
\* thread, and the segments only this receiver got from the sender with it
\* (the purpose of finished_segment_cnt beside current_segment_cnt).
OwesNothing ==
    \A r \in Receivers :
        exited[r] => /\ flood_to[r] = {}
                     /\ from_sender[r] = << >>
                     /\ nth_segment = S

\* Nobody writes to a stream whose reader has left its loop or exited, and
\* nothing is left in it: a write to a dead peer would raise SIGPIPE, unread
\* data at close would reset the connection and destroy what the peer has not
\* read, and a full stream nobody reads would block the flood for ever.
ReaderOutlivesWriter ==
    \A r \in Receivers : \A q \in Peers(r) :
        exited[r] \/ rcv_pc[r][q] \in {"signal", "done"} =>
            /\ link[q][r] = << >>
            /\ r \notin flood_to[q]
            /\ from_sender[q] = << >>

\* No segment reaches a receiver twice, over one stream or over two: counting
\* arrivals is counting slots only because of this.
EachSegmentOnce ==
    \A r \in Receivers :
        LET Streams == {from_sender[r]} \cup {link[q][r] : q \in Peers(r)}
        IN  /\ \A st \in Streams : ~HasRepeat(st)
            /\ \A st \in Streams : Carried(st) \cap segment_array[r] = {}
            /\ \A q \in Peers(r) :
                /\ Carried(from_sender[r]) \cap Carried(link[q][r]) = {}
                /\ r \in flood_to[q] =>
                    /\ flood_seg[q] \notin Carried(link[q][r])
                    /\ flood_seg[q] \notin segment_array[r]
                /\ \A p \in Peers(r) \ {q} :
                    Carried(link[p][r]) \cap Carried(link[q][r]) = {}

\* Send_Info announces to each receiver exactly what the round robin of
\* Send_Segment then deals to it: one more and accpt_snd_seg leaves a segment
\* unread, one less and it waits for a segment that never comes.
DealtAsAnnounced ==
    nth_segment = S =>
        \A r \in Receivers :
            snd_i[r] + Len(from_sender[r])
                + (IF snd_pc[r] = "read" THEN 0 ELSE 1) = SegmentsFor(r, S, N)

\* The thread that makes finished_segment_cnt reach the segment count, or
\* another one after it, has yet to signal main, or has signalled, if only to
\* a main that was not waiting: three kinds of thread share the duty and each
\* checks after its own count.
SignalNotForgotten ==
    \A r \in Receivers :
        finished_segment_cnt[r] >= S /\ S > 0 =>
            \/ signalled[r] \/ missed[r]
            \/ snd_pc[r] = "signal"
            \/ \E q \in Peers(r) : rcv_pc[r][q] \in {"check", "signal"}

\* Every receiver ends with its file written, unless main missed every signal,
\* and then the others end all the same: the floods write in a fixed order, wait
\* for their readers and cross each other, and no cycle of them stands still.
AllExit == \A r \in Receivers : <>[](exited[r] \/ missed[r])

\* The refinement mapping: what a receiver has is what its slots hold.
D == INSTANCE Dissemination WITH got <- segment_array, complete <- exited

\* The flood implements the abstract dissemination.
DisseminationSpec == D!Spec

=============================================================================

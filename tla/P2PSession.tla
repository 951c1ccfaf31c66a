------------------------------ MODULE P2PSession ------------------------------
(***************************************************************************)
(* How the peer-to-peer program (Final Project/p2p.c) gets to the state in *)
(* which P2PFlood starts: the receivers report to the sender, the sender   *)
(* tells all of them who the others are, and they connect to each other.   *)
(*                                                                         *)
(* Receivers are processes on hosts of their own, each listening on        *)
(* Port[r]; more of them may be started than the N the sender waits for.   *)
(* An address is known by the receiver that listens there.  TCP is reduced *)
(* to its queues: connect puts the caller into the queue of the listening  *)
(* socket and returns at once, accept takes the first one out.  A receiver *)
(* whose connect or read fails leaves through error_handling: it has       *)
(* "failed".  One of MayCrash may also be "killed".                        *)
(*                                                                         *)
(* The segments are left out: the sender may close as soon as it has sent  *)
(* its last list, which lets it go earlier than the program does.          *)
(***************************************************************************)
EXTENDS SegmentPlan, Sequences, FiniteSets, SequencesExt

CONSTANTS Receivers, Port,
          N,         \* receiver_MAX of the sender, max_receiver_cnt
          MayCrash   \* receivers that may be killed

ASSUME SessionAssumption ==
    /\ N \in Nat \ {0}
    /\ IsFiniteSet(Receivers) /\ N <= Cardinality(Receivers)
    /\ Port \in [Receivers -> Nat \ {0}]
    /\ MayCrash \subseteq Receivers

VARIABLES
    sender_pc,          \* where the sender is
    sender_queue,       \* receivers connected but not yet accepted
    sender_sock_array,  \* recv_sock_array of the sender
    sender_list,        \* its receiver_array: who says hello, in turn
    lists_sent,         \* receivers the sender has sent receiver_array to
    pc,                 \* where each receiver is
    hello,              \* the receivers that have written their hello
    this_receiver,      \* its number nth_receiver
    receiver_array,     \* the others, as Receive_Info stored them
    conn_i,             \* the loop counter of conn_receiver
    accepted,           \* the loop counter of accpt_receiver
    backlog,            \* the queue of its listening socket
    recv_sock_array     \* its peers, in the order they were saved

senderVars == <<sender_pc, sender_sock_array, sender_list, lists_sent>>
infoVars == <<this_receiver, receiver_array>>
meshVars == <<conn_i, accepted, backlog, recv_sock_array>>
vars == <<senderVars, sender_queue, pc, hello, infoVars, meshVars>>

current_receiver_cnt == Len(sender_list)
Uninitialized == [nth |-> -1]    \* an entry malloc left as it was
Dead(r) == pc[r] \in {"failed", "killed"}

Init ==
    /\ sender_pc = "accept"
    /\ sender_queue = << >>
    /\ sender_sock_array = << >>
    /\ sender_list = << >>
    /\ lists_sent = 0
    /\ pc = [r \in Receivers |-> "off"]
    /\ hello = {}
    /\ this_receiver = [r \in Receivers |-> 0]
    /\ receiver_array = [r \in Receivers |-> << >>]
    /\ conn_i = [r \in Receivers |-> 0]
    /\ accepted = [r \in Receivers |-> 0]
    /\ backlog = [r \in Receivers |-> << >>]
    /\ recv_sock_array = [r \in Receivers |-> << >>]

-----------------------------------------------------------------------------
(* The sender: Wait_Receiver_Connection, Send_Info, Close_Sockets. *)

Accept ==
    /\ sender_pc = "accept"
    /\ sender_queue # << >>
    /\ sender_sock_array' = Append(sender_sock_array, Head(sender_queue))
    /\ sender_queue' = Tail(sender_queue)
    /\ sender_pc' = "hello"
    /\ UNCHANGED <<sender_list, lists_sent, pc, hello, infoVars, meshVars>>

\* Read the hello of the receiver accepted last; nobody else is accepted
\* before it has come.  If the receiver died first, read returns 0 and what
\* malloc left in the structure is registered: here, port 0.
NoPort == 0

\* A slip: they are numbered after the count has been incremented.
NextNumberAfter == current_receiver_cnt + 1

\* The break of the loop, and the number of the receiver accepted last.
Enough == current_receiver_cnt + 1 >= N
NextNumber == current_receiver_cnt

ReadHello ==
    LET r == Last(sender_sock_array)
    IN  /\ sender_pc = "hello"
        /\ r \in hello \/ Dead(r)
        /\ sender_list' = Append(sender_list,
                            [nth |-> NextNumber, adr |-> r,
                             port |-> IF r \in hello THEN Port[r] ELSE NoPort])
        /\ sender_pc' = IF Enough THEN "send" ELSE "accept"
        /\ UNCHANGED <<sender_queue, sender_sock_array, lists_sent, pc,
                       hello, infoVars, meshVars>>

\* The loop over the receivers ends after n of them.
AllLists(n) == n >= N

\* file_info has gone to everybody; the next receiver gets the whole list.
SendList ==
    /\ sender_pc = "send"
    /\ lists_sent' = lists_sent + 1
    /\ sender_pc' = IF AllLists(lists_sent') THEN "close" ELSE "send"
    /\ UNCHANGED <<sender_queue, sender_sock_array, sender_list, pc, hello, infoVars,
                   meshVars>>

\* A second write to a receiver that has gone raises SIGPIPE.
SenderKilled ==
    /\ sender_pc = "send"
    /\ Dead(sender_sock_array[lists_sent + 1])
    /\ sender_pc' = "closed"
    /\ UNCHANGED <<sender_queue, sender_sock_array, sender_list, lists_sent,
                   pc, hello, infoVars, meshVars>>

\* The listening socket goes with the others, and with it whoever is still in
\* its queue.
Close_Sockets ==
    /\ sender_pc = "close"
    /\ sender_pc' = "closed"
    /\ UNCHANGED <<sender_queue, sender_sock_array, sender_list, lists_sent,
                   pc, hello, infoVars, meshVars>>

-----------------------------------------------------------------------------
(* A receiver reports to the sender. *)

\* Started by its user: Initialize_Socket binds and listens first of all.
Initialize_Socket(r) ==
    /\ pc[r] = "off"
    /\ pc' = [pc EXCEPT ![r] = "listening"]
    /\ UNCHANGED <<senderVars, sender_queue, hello, infoVars, meshVars>>

\* Connect_To_Sender, first half; connect is refused when the sender is gone.
ConnectSender(r) ==
    /\ pc[r] = "listening"
    /\ IF sender_pc = "closed"
       THEN /\ pc' = [pc EXCEPT ![r] = "failed"]
            /\ UNCHANGED sender_queue
       ELSE /\ pc' = [pc EXCEPT ![r] = "connected"]
            /\ sender_queue' = Append(sender_queue, r)
    /\ UNCHANGED <<senderVars, hello, infoVars, meshVars>>

\* Second half: tell the sender the port this receiver listens on.
WriteHello(r) ==
    /\ pc[r] = "connected"
    /\ pc' = [pc EXCEPT ![r] = "wait_info"]
    /\ hello' = hello \cup {r}
    /\ UNCHANGED <<senderVars, sender_queue, infoVars, meshVars>>

Served(r) == \E i \in 1 .. lists_sent : sender_sock_array[i] = r

\* The sender is gone before it has sent the list: the connection is reset, or
\* read returns 0 and this receiver goes on to connect to addresses nobody has
\* stored; either way it does not get far.
LostSender(r) ==
    /\ pc[r] = "wait_info"
    /\ sender_pc = "closed"
    /\ ~Served(r)
    /\ pc' = [pc EXCEPT ![r] = "failed"]
    /\ UNCHANGED <<senderVars, sender_queue, hello, infoVars, meshVars>>

\* Receive_Info: the entry with this receiver's port is this receiver, the
\* last one if there are several; the others are stored in the order they
\* come, as many as there is room for.
IsMine(r, e) == e.port = Port[r]

\* Two slips in where conn_receiver starts: it connects to everybody, or
\* leaves out the first of those after it.
FirstTargetOfAll(nth) == 0
FirstTargetSkipped(nth) == nth + 1

\* Its loop starts at the own number: the entries before it are the receivers
\* that connect to this one.
FirstTarget(nth) == nth

Others(r) == {j \in 1 .. Len(sender_list) : ~IsMine(r, sender_list[j])}

Receive_Info(r) ==
    LET mine == sender_list[Max((1 .. Len(sender_list)) \ Others(r))]
        Other(i) == {j \in Others(r) : Cardinality(Others(r) \cap (1 .. j)) = i}
        room == [i \in 1 .. (N - 1) |->
                    IF Other(i) = {} THEN Uninitialized
                    ELSE sender_list[CHOOSE j \in Other(i) : TRUE]]
    IN  /\ pc[r] = "wait_info"
        /\ Served(r)
        /\ this_receiver' = [this_receiver EXCEPT ![r] = mine.nth]
        /\ receiver_array' = [receiver_array EXCEPT ![r] = room]
        /\ conn_i' = [conn_i EXCEPT ![r] = FirstTarget(mine.nth)]
        /\ pc' = [pc EXCEPT ![r] = "mesh"]
        /\ UNCHANGED <<senderVars, sender_queue, hello, accepted, backlog,
                       recv_sock_array>>

-----------------------------------------------------------------------------
(* The receivers connect to each other. *)

Alive(q) == pc[q] # "off" /\ ~Dead(q)

\* One round of conn_receiver.
ConnReceiver(r) ==
    /\ pc[r] = "mesh"
    /\ conn_i[r] < N - 1
    /\ LET target == receiver_array[r][conn_i[r] + 1]
       IN  /\ target # Uninitialized
           /\ Alive(target.adr)
           /\ backlog' = [backlog EXCEPT ![target.adr] = Append(@, r)]
           /\ recv_sock_array' = [recv_sock_array EXCEPT ![r] =
                                    Append(@, target.adr)]
    /\ conn_i' = [conn_i EXCEPT ![r] = @ + 1]
    /\ UNCHANGED <<senderVars, sender_queue, pc, hello, infoVars, accepted>>

\* connect() error; an entry that was never stored leads here too.
ConnRefused(r) ==
    /\ pc[r] = "mesh"
    /\ conn_i[r] < N - 1
    /\ LET target == receiver_array[r][conn_i[r] + 1]
       IN  target # Uninitialized => ~Alive(target.adr)
    /\ pc' = [pc EXCEPT ![r] = "failed"]
    /\ UNCHANGED <<senderVars, sender_queue, hello, infoVars, meshVars>>

\* A slip in its condition: it waits for one connection too many.
MoreToAcceptTooLate(r) == accepted[r] <= this_receiver[r]

\* The condition of the loop of accpt_receiver: as many connections as there
\* are receivers with a lower number.
MoreToAccept(r) == accepted[r] < this_receiver[r]

\* One round of accpt_receiver.
AccptReceiver(r) ==
    /\ pc[r] = "mesh"
    /\ MoreToAccept(r)
    /\ backlog[r] # << >>
    /\ recv_sock_array' = [recv_sock_array EXCEPT ![r] =
                            Append(@, Head(backlog[r]))]
    /\ backlog' = [backlog EXCEPT ![r] = Tail(@)]
    /\ accepted' = [accepted EXCEPT ![r] = @ + 1]
    /\ UNCHANGED <<senderVars, sender_queue, pc, hello, infoVars, conn_i>>

\* Make_Connection_W_Receivers_ThreadInit has joined both threads.
MeshJoined(r) ==
    /\ pc[r] = "mesh"
    /\ conn_i[r] >= N - 1
    /\ ~MoreToAccept(r)
    /\ pc' = [pc EXCEPT ![r] = "meshed"]
    /\ UNCHANGED <<senderVars, sender_queue, hello, infoVars, meshVars>>

\* The peer died before it accepted: accpt_rcv_seg gets a read() error.
PeerReset(r) ==
    /\ pc[r] \in {"mesh", "meshed"}
    /\ \E q \in Receivers : Dead(q) /\ r \in ToSet(backlog[q])
    /\ pc' = [pc EXCEPT ![r] = "failed"]
    /\ UNCHANGED <<senderVars, sender_queue, hello, infoVars, meshVars>>

Crash(r) ==
    /\ r \in MayCrash
    /\ Alive(r)
    /\ pc' = [pc EXCEPT ![r] = "killed"]
    /\ UNCHANGED <<senderVars, sender_queue, hello, infoVars, meshVars>>

-----------------------------------------------------------------------------
Sender == Accept \/ ReadHello \/ SendList \/ SenderKilled \/ Close_Sockets

Receiver(r) ==
    \/ Initialize_Socket(r)
    \/ ConnectSender(r)
    \/ WriteHello(r)
    \/ LostSender(r)
    \/ Receive_Info(r)
    \/ ConnReceiver(r)
    \/ ConnRefused(r)
    \/ AccptReceiver(r)
    \/ PeerReset(r)
    \/ MeshJoined(r)

Next == Sender \/ \E r \in Receivers : Receiver(r) \/ Crash(r)

Spec == Init /\ [][Next]_vars

\* The sender runs, every receiver is started and runs; its two threads of the
\* mesh phase are scheduled independently.
Fairness ==
    /\ WF_vars(Sender)
    /\ \A r \in Receivers :
        /\ WF_vars(Receiver(r))
        /\ WF_vars(ConnReceiver(r))
        /\ WF_vars(AccptReceiver(r))

FairSpec == Spec /\ Fairness

-----------------------------------------------------------------------------
(* Properties. *)

Entries == [nth : 0 .. (N - 1), adr : Receivers, port : Nat]

TypeOK ==
    /\ sender_pc \in {"accept", "hello", "send", "close", "closed"}
    /\ ToSet(sender_queue) \cup ToSet(sender_sock_array) \subseteq Receivers
    /\ ToSet(sender_list) \subseteq Entries
    /\ lists_sent \in 0 .. N
    /\ pc \in [Receivers -> {"off", "listening", "connected", "wait_info",
                             "mesh", "meshed", "failed", "killed"}]
    /\ hello \subseteq Receivers
    /\ this_receiver \in [Receivers -> 0 .. (N - 1)]
    /\ conn_i \in [Receivers -> 0 .. (N - 1)]
    /\ accepted \in [Receivers -> 0 .. (N - 1)]
    /\ \A r \in Receivers :
        /\ ToSet(receiver_array[r]) \subseteq Entries \cup {Uninitialized}
        /\ Len(receiver_array[r]) \in {0, N - 1}
        /\ ToSet(backlog[r]) \cup ToSet(recv_sock_array[r]) \subseteq Receivers
        /\ Len(recv_sock_array[r]) <= N - 1

Participants == ToSet(sender_sock_array)
SomeoneKilled == \E r \in Receivers : pc[r] = "killed"
PastInfo(r) == pc[r] \in {"mesh", "meshed"}

\* Every receiver finds its own number in the list the sender made, the same
\* one the sender deals segments by, although it looks for a port there; no
\* list, index or count leaves its range.
NumbersAgree ==
    /\ TypeOK
    /\ \A r \in Receivers :
        PastInfo(r) => sender_sock_array[this_receiver[r] + 1] = r

\* A pair of receivers shares at most one connection: the lower number
\* connects, the higher accepts.  With two, each segment would arrive twice;
\* with both connecting, both would also wait to accept.
PairsConnectOnce ==
    \A r \in Receivers :
        /\ IsInjective(recv_sock_array[r] \o backlog[r])
        /\ \A q \in ToSet(recv_sock_array[r] \o backlog[r]) :
            /\ q # r
            /\ r \in ToSet(recv_sock_array[q] \o backlog[q])

\* When the threads of a receiver are joined it is connected to all the others
\* and nobody is left waiting at its door.  One that died after it was accepted
\* counts among them.
MeshComplete ==
    \A r \in Receivers :
        pc[r] = "meshed" =>
            /\ ToSet(recv_sock_array[r]) = Participants \ {r}
            /\ backlog[r] = << >>

\* "Then Execute n Receivers based on the MAX Receiver count declared in
\* Sender" (README.txt): once they run, all who were accepted get their mesh,
\* one waiting for another's connect never closes a circle, and each of the
\* others is turned away.  Unless somebody is killed.
EveryoneSettles ==
    <>(\/ SomeoneKilled
       \/ /\ Cardinality({r \in Receivers : pc[r] = "meshed"}) = N
          /\ \A r \in Receivers : pc[r] \in {"meshed", "failed"})

=============================================================================

------------------------------ MODULE FileServers ------------------------------
(***************************************************************************)
(* The file servers of the class exercises, which send one file to every   *)
(* client that connects, and their client file_client.c, which reads it to *)
(* the end, says thank you and leaves.  Both servers send from a thread    *)
(* per client.  The one of exercise 1 joins the thread before it goes on   *)
(* with its select loop, which then reads the thanks and closes.  The one  *)
(* of exercise 3 goes on accepting; its thread also closes the connection. *)
(*                                                                         *)
(* A file is the numbers of its blocks; the last one is short.  A stream   *)
(* holds at most Capacity blocks, so that a client that does not read      *)
(* blocks the thread that sends to it.  In exercise 3 threads get the      *)
(* address of one variable of main; overtaken remembers that main accepted *)
(* again before a thread had read it.                                      *)
(***************************************************************************)
EXTENDS Integers, SequencesExt, FiniteSetsExt

CONSTANTS Clients,
          Sleepers,       \* clients that may stop reading or be killed
          Blocks,         \* of the file
          Capacity, MAX_CLNT,
          Nobody

ASSUME FileServersAssumption ==
    /\ IsFiniteSet(Clients) /\ Sleepers \subseteq Clients /\ Nobody \notin Clients
    /\ Blocks \in Nat \ {0} /\ Capacity \in Nat \ {0}
    /\ MAX_CLNT \in Nat /\ MAX_CLNT > Cardinality(Clients)

VARIABLES
    server,           \* which one runs: select or threads
    alive,
    main_pc,
    clnt_sock,        \* the variable whose address threads are given
    clnt_cnt, clnt_socks,
    files,            \* descriptor -> its client, or Nobody
    pc, sock, sent,   \* of the threads
    conn,             \* client -> how far it is
    received,
    backlog,          \* clients that wait for accept
    stream,           \* client -> blocks on their way to it
    shut,             \* clients whose stream has been ended
    thanks,           \* clients whose message has not been read
    overtaken         \* history

main == <<main_pc, clnt_sock, clnt_cnt, clnt_socks>>
threads == <<pc, sock, sent>>
client == <<conn, received>>
net == <<files, backlog, stream, shut, thanks>>
vars == <<server, alive, main, threads, client, net, overtaken>>

Threads == 1 .. Cardinality(Clients)
Descriptors == 1 .. Cardinality(Clients)

Init ==
    /\ server \in {"select", "threads"} /\ alive = TRUE
    /\ main_pc = "accept" /\ clnt_sock = 0
    /\ clnt_cnt = 0 /\ clnt_socks = [i \in 0 .. MAX_CLNT - 1 |-> 0]
    /\ files = [d \in Descriptors |-> Nobody]
    /\ pc = [t \in Threads |-> "none"]
    /\ sock = [t \in Threads |-> 0] /\ sent = [t \in Threads |-> 0]
    /\ conn = [c \in Clients |-> "away"] /\ received = [c \in Clients |-> << >>]
    /\ stream = [c \in Clients |-> << >>]
    /\ backlog = {} /\ shut = {} /\ thanks = {}
    /\ overtaken = FALSE

-----------------------------------------------------------------------------
(* The main threads. *)

\* accept; exercise 1 then puts the descriptor into the set of select.
Accept(c) ==
    /\ alive /\ main_pc = "accept"
    /\ c \in backlog
    /\ backlog' = backlog \ {c}
    /\ clnt_sock' = Min({d \in Descriptors : files[d] = Nobody})
    /\ files' = [files EXCEPT ![clnt_sock'] = c]
    /\ main_pc' = IF server = "select" THEN "create" ELSE "save"
    /\ overtaken' = (overtaken \/ \E t \in Threads : pc[t] = "start")
    /\ UNCHANGED <<server, alive, clnt_cnt, clnt_socks, threads, client, stream,
                   shut, thanks>>

SaveClient ==
    /\ alive /\ main_pc = "save"
    /\ clnt_socks' = [clnt_socks EXCEPT ![clnt_cnt] = clnt_sock]
    /\ clnt_cnt' = clnt_cnt + 1
    /\ main_pc' = "create"
    /\ UNCHANGED <<server, alive, clnt_sock, threads, client, net, overtaken>>

CreateThread ==
    /\ alive /\ main_pc = "create"
    /\ pc' = [pc EXCEPT ![Min({t \in Threads : pc[t] = "none"})] = "start"]
    /\ main_pc' = IF server = "select" THEN "join" ELSE "accept"
    /\ UNCHANGED <<server, alive, clnt_sock, clnt_cnt, clnt_socks, sock, sent,
                   client, net, overtaken>>

\* pthread_join of exercise 1.
Join ==
    /\ alive /\ main_pc = "join"
    /\ \A t \in Threads : pc[t] \in {"none", "done"}
    /\ main_pc' = "accept"
    /\ UNCHANGED <<server, alive, clnt_sock, clnt_cnt, clnt_socks, threads, client,
                   net, overtaken>>

\* A message of a client in the select loop is printed.  What a reset makes of
\* it is no different.
ReadMessage(c) ==
    /\ alive /\ server = "select" /\ main_pc = "accept"
    /\ c \in thanks /\ \E d \in Descriptors : files[d] = c
    /\ thanks' = thanks \ {c}
    /\ UNCHANGED <<server, alive, main, threads, client, files, backlog,
                   stream, shut, overtaken>>

\* read returns 0: the descriptor is taken out of the set and closed.
CloseClient(d) ==
    /\ alive /\ server = "select" /\ main_pc = "accept"
    /\ files[d] # Nobody
    /\ conn[files[d]] \in {"done", "killed"} /\ files[d] \notin thanks
    /\ files' = [files EXCEPT ![d] = Nobody]
    /\ UNCHANGED <<server, alive, main, threads, client, backlog, stream,
                   shut, thanks, overtaken>>

-----------------------------------------------------------------------------
(* Send_File and handle_clnt, the threads. *)

Start(t) ==
    /\ alive /\ pc[t] = "start"
    /\ sock' = [sock EXCEPT ![t] = clnt_sock]
    /\ pc' = [pc EXCEPT ![t] = "send"]
    /\ UNCHANGED <<server, alive, main, sent, client, net, overtaken>>

\* A slip: the short block ends the loop before it is written.
ShortBlockLeft(t) == sent'[t] >= Blocks - 1

LastBlock(t) == sent'[t] >= Blocks

\* One turn of the loop.  write fails on a descriptor that is closed by now,
\* and raises SIGPIPE when the stream has been ended, or maybe when the client
\* is gone.
SendBlock(t) ==
    /\ alive /\ pc[t] = "send"
    /\ LET c == files[sock[t]]
       IN  IF c = Nobody THEN UNCHANGED <<stream, alive>>
           ELSE IF c \in shut THEN alive' = FALSE /\ UNCHANGED stream
           ELSE IF conn[c] = "killed" THEN alive' \in BOOLEAN /\ UNCHANGED stream
           ELSE /\ Len(stream[c]) < Capacity
                /\ stream' = [stream EXCEPT ![c] = Append(@, sent[t] + 1)]
                /\ UNCHANGED alive
    /\ sent' = [sent EXCEPT ![t] = @ + 1]
    /\ pc' = [pc EXCEPT ![t] = IF LastBlock(t) THEN "shutdown" ELSE "send"]
    /\ UNCHANGED <<server, main, sock, client, files, backlog, shut, thanks,
                   overtaken>>

\* A slip: exercise 1 without it, as its comment at line 141 warns.
LeftOpen(t) == IF server = "select" THEN {} ELSE {files[sock[t]]}

Ended(t) == {files[sock[t]]}

Shutdown(t) ==
    /\ alive /\ pc[t] = "shutdown"
    /\ shut' = shut \cup (Ended(t) \ {Nobody})
    /\ pc' = [pc EXCEPT ![t] = IF server = "select" THEN "done" ELSE "remove"]
    /\ UNCHANGED <<server, alive, main, sock, sent, client, files, backlog, stream,
                   thanks, overtaken>>

\* The loop increments before it copies, as in homework 4: entry i stays, its
\* successor is lost.
Removed(i) ==
    [j \in DOMAIN clnt_socks |->
        IF j \in i + 1 .. clnt_cnt - 1 THEN clnt_socks[j + 1] ELSE clnt_socks[j]]

RemoveClient(t) ==
    /\ alive /\ pc[t] = "remove"
    /\ LET at == {i \in 0 .. clnt_cnt - 1 : clnt_socks[i] = sock[t]}
       IN  clnt_socks' = IF at = {} THEN clnt_socks ELSE Removed(Min(at))
    /\ clnt_cnt' = clnt_cnt - 1
    /\ pc' = [pc EXCEPT ![t] = "close"]
    /\ UNCHANGED <<server, alive, main_pc, clnt_sock, sock, sent, client, net,
                   overtaken>>

Close(t) ==
    /\ alive /\ pc[t] = "close"
    /\ shut' = shut \cup ({files[sock[t]]} \ {Nobody})
    /\ files' = [files EXCEPT ![sock[t]] = Nobody]
    /\ pc' = [pc EXCEPT ![t] = "done"]
    /\ UNCHANGED <<server, alive, main, sock, sent, client, backlog, stream,
                   thanks, overtaken>>

-----------------------------------------------------------------------------
(* file_client.c *)

Connect(c) ==
    /\ alive /\ conn[c] = "away"
    /\ conn' = [conn EXCEPT ![c] = "reading"]
    /\ backlog' = backlog \cup {c}
    /\ UNCHANGED <<server, alive, main, threads, received, files, stream, shut,
                   thanks, overtaken>>

ReadBlocks(c) ==
    /\ conn[c] = "reading" /\ stream[c] # << >>
    /\ received' = [received EXCEPT ![c] = @ \o stream[c]]
    /\ stream' = [stream EXCEPT ![c] = << >>]
    /\ UNCHANGED <<server, alive, main, threads, conn, files, backlog, shut,
                   thanks, overtaken>>

\* The end of the stream, which the end of the server brings too: thank you,
\* and close.
Finish(c) ==
    /\ conn[c] = "reading" /\ stream[c] = << >>
    /\ c \in shut \/ ~alive
    /\ conn' = [conn EXCEPT ![c] = "done"]
    /\ thanks' = thanks \cup {c}
    /\ UNCHANGED <<server, alive, main, threads, received, files, backlog,
                   stream, shut, overtaken>>

\* The end of the server resets a connection it has not accepted: read returns
\* -1, and fwrite of so many bytes may end the client.
Reset(c) ==
    /\ conn[c] = "reading" /\ c \in backlog /\ ~alive
    /\ conn' = [conn EXCEPT ![c] = "killed"]
    /\ UNCHANGED <<server, alive, main, threads, received, net, overtaken>>

Kill(c) ==
    /\ c \in Sleepers /\ conn[c] = "reading"
    /\ conn' = [conn EXCEPT ![c] = "killed"]
    /\ stream' = [stream EXCEPT ![c] = << >>]
    /\ UNCHANGED <<server, alive, main, threads, received, files, backlog, shut,
                   thanks, overtaken>>

-----------------------------------------------------------------------------
MainStep ==
    \/ \E c \in Clients : Accept(c) \/ ReadMessage(c)
    \/ SaveClient \/ CreateThread \/ Join
    \/ \E d \in Descriptors : CloseClient(d)

ThreadStep(t) ==
    Start(t) \/ SendBlock(t) \/ Shutdown(t) \/ RemoveClient(t) \/ Close(t)

ClientStep(c) == ReadBlocks(c) \/ Finish(c) \/ Reset(c)

Next ==
    \/ MainStep
    \/ \E t \in Threads : ThreadStep(t)
    \/ \E c \in Clients : ClientStep(c) \/ Connect(c) \/ Kill(c)

Spec == Init /\ [][Next]_vars

\* Threads are scheduled; select and accept come to every client; only
\* sleepers may stop reading.
Fairness ==
    /\ WF_vars(MainStep)
    /\ \A t \in Threads : WF_vars(ThreadStep(t))
    /\ \A c \in Clients \ Sleepers : WF_vars(ClientStep(c))

-----------------------------------------------------------------------------
(* Properties. *)

\* A client that has read to the end has the whole file, every block once and
\* in order, however threads and clients overlap.  Unless a thread was overtaken,
\* or the server died before it had ended this client's stream: what the client
\* then has is the beginning of the file, which it cannot tell from the whole.
WholeFile ==
    \/ overtaken
    \/ \A c \in Clients :
        /\ IsPrefix(received[c] \o stream[c], [k \in 1 .. Blocks |-> k])
        /\ conn[c] = "done" /\ (alive \/ c \in shut) => Len(received[c]) = Blocks

\* A sleeper that the select server is sending to: its loop waits with it.
Asleep ==
    /\ alive /\ server = "select"
    /\ \E t \in Threads : pc[t] = "send" /\ files[sock[t]] \in Sleepers

\* Every client that reads gets the end of its file, and its descriptor is
\* closed, though others do not read; also when the server dies.  But exercise 1
\* serves nobody as long as one sleeper does not read its file, and of two
\* clients whose threads were mixed up one waits forever.
Served ==
    \A c \in Clients \ Sleepers :
        []<>(\/ conn[c] = "away"
             \/ conn[c] # "reading" /\ (~alive \/ \A d \in Descriptors : files[d] # c)
             \/ overtaken \/ Asleep)

=============================================================================

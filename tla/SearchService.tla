----------------------------- MODULE SearchService -----------------------------
(***************************************************************************)
(* Clients and server of the search engine at work: the main thread of     *)
(* search_server.c with its table of clients, one thread per client, and   *)
(* the two threads of search_clnt.c, one that sends the search word after  *)
(* every key and one that displays what arrives.                           *)
(*                                                                         *)
(* A client types the same text again and again, so that a search word is  *)
(* the number of its characters.  What a read returns is the sequence of   *)
(* the words it took off the stream, and an answer carries that message:   *)
(* what the server searches for is their concatenation.  SearchTrie has    *)
(* what an answer contains.                                                *)
(*                                                                         *)
(* main gives every thread the address of one variable: a thread that has  *)
(* not read it yet when main accepts again is overtaken, and serves the    *)
(* wrong connection.  The history variable overtaken remembers it: what    *)
(* the code promises to a single client it promises only until then.       *)
(***************************************************************************)
EXTENDS Integers, SequencesExt, FiniteSetsExt

CONSTANTS Clients,
          MaxWord,        \* characters of the longest search word
          MaxKeys,        \* bound: keys a client presses
          MAX_CLNT,       \* entries of clnt_socks
          None            \* no client

ASSUME ServiceAssumption ==
    /\ IsFiniteSet(Clients) /\ None \notin Clients
    /\ MaxWord \in Nat \ {0} /\ MaxKeys \in Nat
    /\ MAX_CLNT \in Nat /\ MAX_CLNT > Cardinality(Clients)

VARIABLES
    main_pc,      \* where main is in its loop: accept, save or create
    clnt_sock,    \* the variable of main whose address every thread is given
    clnt_cnt, clnt_socks,
    files,        \* the client an open descriptor leads to, or None
    backlog,      \* connections that wait for accept
    pc,           \* thread -> where it is in handle_clnt
    sock,         \* thread -> its own clnt_sock
    file,         \* thread -> the connection its read is waiting on
    msg,          \* thread -> whose words it read last, and which
    conn,         \* client -> not there yet, there, or gone
    word_in_search, keys,
    stream,       \* client -> words sent to the server and not read yet
    answers,      \* client -> messages answered and not displayed yet
    shown,        \* client -> the word whose result is displayed
    alive,        \* the server runs
    overtaken     \* history: main has overtaken a thread

mainVars == <<main_pc, clnt_sock>>
table == <<clnt_cnt, clnt_socks>>
threads == <<pc, sock, file, msg>>
client == <<conn, word_in_search, keys, shown>>
vars == <<mainVars, table, files, backlog, threads, client, stream, answers, alive,
          overtaken>>

Threads == 1 .. Cardinality(Clients)
Descriptors == 1 .. Cardinality(Clients)
Words == 0 .. MaxWord
Garbled == -1      \* what shows a result that is not that of one word
NoMsg == [from |-> None, words |-> << >>]

Init ==
    /\ main_pc = "accept" /\ clnt_sock = 0
    /\ clnt_cnt = 0 /\ clnt_socks = [i \in 0 .. MAX_CLNT - 1 |-> 0]
    /\ files = [d \in Descriptors |-> None]
    /\ backlog = << >>
    /\ pc = [t \in Threads |-> "none"]
    /\ sock = [t \in Threads |-> 0]
    /\ file = [t \in Threads |-> None]
    /\ msg = [t \in Threads |-> NoMsg]
    /\ conn = [c \in Clients |-> "away"]
    /\ word_in_search = [c \in Clients |-> 0]
    /\ keys = [c \in Clients |-> 0]
    /\ stream = [c \in Clients |-> << >>]
    /\ answers = [c \in Clients |-> << >>]
    /\ shown = [c \in Clients |-> 0]
    /\ alive = TRUE
    /\ overtaken = FALSE

-----------------------------------------------------------------------------
(* The main thread. *)

\* accept: the lowest free descriptor.  Threads that were created and have not
\* read clnt_sock yet will find the new value there.
Accept ==
    /\ alive /\ main_pc = "accept" /\ backlog # << >>
    /\ clnt_sock' = Min({d \in Descriptors : files[d] = None})
    /\ files' = [files EXCEPT ![clnt_sock'] = Head(backlog)]
    /\ backlog' = Tail(backlog)
    /\ main_pc' = "save"
    /\ overtaken' = (overtaken \/ \E t \in Threads : pc[t] = "start")
    /\ UNCHANGED <<table, threads, client, stream, answers, alive>>

\* Under the mutex.
SaveClient ==
    /\ alive /\ main_pc = "save"
    /\ clnt_socks' = [clnt_socks EXCEPT ![clnt_cnt] = clnt_sock]
    /\ clnt_cnt' = clnt_cnt + 1
    /\ main_pc' = "create"
    /\ UNCHANGED <<clnt_sock, files, backlog, threads, client, stream, answers,
                   alive, overtaken>>

\* A slip: main closes the descriptor it gave to the thread.
ClosedByMain == [files EXCEPT ![clnt_sock] = None]

\* main keeps the descriptor open: the thread uses the same one.
LeftOpen == files

CreateThread ==
    /\ alive /\ main_pc = "create"
    /\ LET t == Min({u \in Threads : pc[u] = "none"})
       IN  pc' = [pc EXCEPT ![t] = "start"]
    /\ files' = LeftOpen
    /\ main_pc' = "accept"
    /\ UNCHANGED <<clnt_sock, table, backlog, sock, file, msg, client, stream,
                   answers, alive, overtaken>>

-----------------------------------------------------------------------------
(* handle_clnt, the thread of a client. *)

Start(t) ==
    /\ alive /\ pc[t] = "start"
    /\ sock' = [sock EXCEPT ![t] = clnt_sock]
    /\ pc' = [pc EXCEPT ![t] = "read"]
    /\ UNCHANGED <<mainVars, table, files, backlog, file, msg, client, stream,
                   answers, alive, overtaken>>

\* read is called: it waits on the connection behind the descriptor.  A closed
\* descriptor is an error, which the loop takes for a word: msg is searched
\* for as it is.
CallRead(t) ==
    /\ alive /\ pc[t] = "read"
    /\ file' = [file EXCEPT ![t] = files[sock[t]]]
    /\ pc' = [pc EXCEPT ![t] = IF file'[t] = None THEN "answer" ELSE "wait"]
    /\ UNCHANGED <<mainVars, table, files, backlog, sock, msg, client, stream,
                   answers, alive, overtaken>>

\* read returns what is there, as many words as have arrived by now.
ReadWords(t) ==
    /\ alive /\ pc[t] = "wait"
    /\ \E n \in 1 .. Len(stream[file[t]]) :
        /\ msg' = [msg EXCEPT ![t] =
                    [from |-> file[t], words |-> SubSeq(stream[file[t]], 1, n)]]
        /\ stream' = [stream EXCEPT ![file[t]] = SubSeq(@, n + 1, Len(@))]
    /\ pc' = [pc EXCEPT ![t] = "answer"]
    /\ file' = [file EXCEPT ![t] = None]
    /\ UNCHANGED <<mainVars, table, files, backlog, sock, client, answers,
                   alive, overtaken>>

\* The client has gone: the end of the stream, 0.
ReadEnd(t) ==
    /\ alive /\ pc[t] = "wait"
    /\ conn[file[t]] = "left" /\ stream[file[t]] = << >>
    /\ pc' = [pc EXCEPT ![t] = "remove"]
    /\ file' = [file EXCEPT ![t] = None]
    /\ UNCHANGED <<mainVars, table, files, backlog, sock, msg, client, stream,
                   answers, alive, overtaken>>

\* The client has gone without having read all answers and its connection is
\* reset: -1, once, and msg is searched for as it is.
ReadReset(t) ==
    /\ alive /\ pc[t] = "wait"
    /\ conn[file[t]] = "reset"
    /\ conn' = [conn EXCEPT ![file[t]] = "left"]
    /\ pc' = [pc EXCEPT ![t] = "answer"]
    /\ file' = [file EXCEPT ![t] = None]
    /\ UNCHANGED <<mainVars, table, files, backlog, sock, msg, word_in_search,
                   keys, shown, stream, answers, alive, overtaken>>

\* A slip: the answer goes to the variable of main, not to its copy.
AnswerToLatest(t) == clnt_sock

AnswerSock(t) == sock[t]

\* SearchEngine writes the count and the words.  On a closed descriptor the
\* writes fail, to a client that is gone they may raise SIGPIPE.
Answer(t) ==
    /\ alive /\ pc[t] = "answer"
    /\ pc' = [pc EXCEPT ![t] = "read"]
    /\ LET c == files[AnswerSock(t)]
       IN  IF c = None THEN UNCHANGED <<answers, alive>>
           ELSE IF conn[c] = "here"
           THEN /\ answers' = [answers EXCEPT ![c] = Append(@, msg[t])]
                /\ UNCHANGED alive
           ELSE alive' \in BOOLEAN /\ UNCHANGED answers
    /\ UNCHANGED <<mainVars, table, files, backlog, sock, file, msg, client,
                   stream, overtaken>>

\* while (i++ < clnt_cnt - 1) moves the entries behind the one after i, which
\* is lost, and leaves the entry i itself where it is.
Shifted(i) ==
    [j \in DOMAIN clnt_socks |->
        IF j \in i + 1 .. clnt_cnt - 1 THEN clnt_socks[j + 1] ELSE clnt_socks[j]]

\* A slip: only a client that is found in the table is counted out.
CountedOutIfFound(at) == IF at = {} THEN clnt_cnt ELSE clnt_cnt - 1

CountedOut(at) == clnt_cnt - 1

\* Under the mutex.
RemoveClient(t) ==
    /\ alive /\ pc[t] = "remove"
    /\ LET at == {i \in 0 .. clnt_cnt - 1 : clnt_socks[i] = sock[t]}
       IN  /\ clnt_socks' = IF at = {} THEN clnt_socks ELSE Shifted(Min(at))
           /\ clnt_cnt' = CountedOut(at)
    /\ pc' = [pc EXCEPT ![t] = "close"]
    /\ UNCHANGED <<mainVars, files, backlog, sock, file, msg, client, stream,
                   answers, alive, overtaken>>

Close(t) ==
    /\ alive /\ pc[t] = "close"
    /\ files' = [files EXCEPT ![sock[t]] = None]
    /\ pc' = [pc EXCEPT ![t] = "done"]
    /\ UNCHANGED <<mainVars, table, backlog, sock, file, msg, client, stream,
                   answers, alive, overtaken>>

-----------------------------------------------------------------------------
(* search_clnt.c *)

Connect(c) ==
    /\ alive /\ conn[c] = "away"
    /\ conn' = [conn EXCEPT ![c] = "here"]
    /\ backlog' = Append(backlog, c)
    /\ UNCHANGED <<mainVars, table, files, threads, word_in_search, keys,
                   shown, stream, answers, alive, overtaken>>

MayPressKey(c) == conn[c] = "here" /\ keys[c] < MaxKeys

\* A slip: the word is sent before the new character is put behind it.
SentWordBefore(c) == word_in_search[c]

SentWord(c) == word_in_search'[c]

\* A character, and the word is sent.
TypeCharacter(c) ==
    /\ MayPressKey(c) /\ word_in_search[c] < MaxWord
    /\ keys' = [keys EXCEPT ![c] = @ + 1]
    /\ word_in_search' = [word_in_search EXCEPT ![c] = @ + 1]
    /\ stream' = [stream EXCEPT ![c] = Append(@, SentWord(c))]
    /\ UNCHANGED <<mainVars, table, files, backlog, threads, conn, shown,
                   answers, alive, overtaken>>

\* Print_Result(0) when no character is left.
DisplayAfterBackspace(c) == IF word_in_search'[c] = 0 THEN 0 ELSE shown[c]

\* Nothing is erased of an empty word.
Erased(c) == IF word_in_search[c] = 0 THEN 0 ELSE word_in_search[c] - 1

\* Backspace: the shorter word is sent, unless it is empty.
Backspace(c) ==
    /\ MayPressKey(c)
    /\ keys' = [keys EXCEPT ![c] = @ + 1]
    /\ word_in_search' = [word_in_search EXCEPT ![c] = Erased(c)]
    /\ shown' = [shown EXCEPT ![c] = DisplayAfterBackspace(c)]
    /\ stream' = IF word_in_search'[c] > 0
                 THEN [stream EXCEPT ![c] = Append(@, SentWord(c))]
                 ELSE stream
    /\ UNCHANGED <<mainVars, table, files, backlog, threads, conn, answers,
                   alive, overtaken>>

\* recv_search_result: the oldest answer is received and displayed.
Display(c) ==
    /\ conn[c] = "here" /\ answers[c] # << >>
    /\ LET searched == Head(answers[c]).words
       IN  shown' = [shown EXCEPT ![c] =
                        IF Len(searched) = 1 THEN searched[1] ELSE Garbled]
    /\ answers' = [answers EXCEPT ![c] = Tail(@)]
    /\ UNCHANGED <<mainVars, table, files, backlog, threads, conn,
                   word_in_search, keys, stream, alive, overtaken>>

\* Ctrl-D or a kill.  If answers were not read the connection is reset and
\* what the client had sent is lost with it.
Leave(c) ==
    /\ conn[c] = "here"
    /\ IF answers[c] = << >>
       THEN /\ conn' = [conn EXCEPT ![c] = "left"]
            /\ UNCHANGED <<stream, answers>>
       ELSE /\ conn' = [conn EXCEPT ![c] = "reset"]
            /\ stream' = [stream EXCEPT ![c] = << >>]
            /\ answers' = [answers EXCEPT ![c] = << >>]
    /\ UNCHANGED <<mainVars, table, files, backlog, threads, word_in_search,
                   keys, shown, alive, overtaken>>

-----------------------------------------------------------------------------
ThreadStep(t) ==
    \/ Start(t) \/ CallRead(t) \/ ReadWords(t) \/ ReadEnd(t) \/ ReadReset(t)
    \/ Answer(t) \/ RemoveClient(t) \/ Close(t)

MainStep == Accept \/ SaveClient \/ CreateThread

ClientStep(c) ==
    \/ Connect(c) \/ TypeCharacter(c) \/ Backspace(c) \/ Display(c) \/ Leave(c)

Next ==
    \/ MainStep
    \/ \E t \in Threads : ThreadStep(t)
    \/ \E c \in Clients : ClientStep(c)

Spec == Init /\ [][Next]_vars

\* Threads are scheduled and what is sent arrives; nobody has to connect, type
\* or leave.
FairSpec ==
    /\ Spec
    /\ WF_vars(MainStep)
    /\ \A t \in Threads : WF_vars(ThreadStep(t))
    /\ \A c \in Clients : WF_vars(Display(c))

-----------------------------------------------------------------------------
(* Properties. *)

Messages == [from : Clients \cup {None}, words : Seq(Words)]

TypeOK ==
    /\ main_pc \in {"accept", "save", "create"}
    /\ clnt_sock \in Descriptors \cup {0}
    /\ clnt_cnt \in 0 .. Cardinality(Clients)
    /\ clnt_socks \in [0 .. MAX_CLNT - 1 -> Descriptors \cup {0}]
    /\ files \in [Descriptors -> Clients \cup {None}]
    /\ backlog \in Seq(Clients) /\ IsInjective(backlog)
    /\ pc \in [Threads ->
                {"none", "start", "read", "wait", "answer", "remove", "close", "done"}]
    /\ sock \in [Threads -> Descriptors \cup {0}]
    /\ file \in [Threads -> Clients \cup {None}]
    /\ msg \in [Threads -> Messages]
    /\ conn \in [Clients -> {"away", "here", "left", "reset"}]
    /\ word_in_search \in [Clients -> Words]
    /\ keys \in [Clients -> 0 .. MaxKeys]
    /\ stream \in [Clients -> Seq(Words \ {0})]
    /\ answers \in [Clients -> Seq(Messages)]
    /\ shown \in [Clients -> Words \cup {Garbled}]
    /\ alive \in BOOLEAN
    /\ overtaken \in BOOLEAN

\* Threads that serve a client or are about to remove it from the table.
InTable == {t \in Threads : pc[t] \in {"start", "read", "wait", "answer", "remove"}}

\* clnt_cnt is the number of clients whose thread has not counted them out,
\* though the removal takes the wrong entries out of the table and a client
\* may not be found there any more.
CountMatches ==
    clnt_cnt = Cardinality(InTable) + (IF main_pc = "create" THEN 1 ELSE 0)

\* No two threads use one descriptor, and as long as a thread uses a
\* descriptor it is open: so no client loses its connection to the thread of
\* another one.  Unless a thread was overtaken.
OwnDescriptor ==
    LET serving == {t \in Threads :
                        pc[t] \in {"read", "wait", "answer", "remove", "close"}}
    IN  \/ overtaken
        \/ /\ \A t \in serving : files[sock[t]] # None
           /\ \A t, u \in serving : t # u => sock[t] # sock[u]

\* A client gets answers to its own words only, though descriptors are used
\* again for other clients.  Unless a thread was overtaken.
AnswersToAsker ==
    \/ overtaken
    \/ \A c \in Clients : \A i \in 1 .. Len(answers[c]) :
            answers[c][i].from = c

\* What client c displays goes with the word it has typed; or is the result of
\* words that one read took for one; or the word is erased: then the list was
\* cleared, but an answer that came later stays on the screen.
UpToDate(c) ==
    word_in_search[c] = 0 \/ shown[c] \in {word_in_search[c], Garbled}

\* A client that stays is served: what it displays catches up with a word that
\* it has typed or shortened, however fast it types and whatever the others do.
\* Not promised is the result itself when the server took several words for one
\* (Garbled), nor an empty list for an erased word, nor anything once a thread
\* was overtaken.
LastWordShown ==
    \A c \in Clients :
        []<>(conn[c] # "here" \/ ~alive \/ overtaken \/ UpToDate(c))

=============================================================================

# Formal models of Network-CAMP

The repository is a collection of network programs in C, written one per
assignment: a peer-to-peer file distributor (`Final Project`), a stop-and-wait
file transfer over UDP (homework 2), a remote shell (homework 3), a search
service (homework 4), a directory download (homework 1) and two file servers of
class exercises (실습#1, 실습#3). The programs do not depend on each other. This
directory holds TLA+ models of them, TLC runs, and TLAPS proofs.

    tlc -config P2PFlood_three.cfg MCP2PFlood.tla     model-check a run
    tlapm P2PFloodProofs.tla                          check proofs

`PROJECT.json` lists runs, theorems, hazards, and for each definition the source
lines it models.

## 1. Inventory

### Peer-to-peer file distributor: `Final Project/p2p.c`

One program, two modes. The *sender* cuts a file into segments, waits for
`receiver_MAX` receivers, tells them about each other and deals the segments
round robin. Each *receiver* connects to all the others, stores what the sender
gives it and floods it to its peers; it exits when it has all segments and has
flooded its own.

| part | state | operations | modelled in |
|---|---|---|---|
| segment arithmetic | - | segment count, round robin, share of each receiver | `SegmentPlan` |
| sender, file side | `file_info`, `rr_index`, `nth_segment`, file position | `Prepare_File_Via_Seg`, `Send_Info`, `Send_Segment`, `Close_Sockets` | `P2PSender` |
| session set-up | `recv_sock_array`, `receiver_array`, `current_receiver_cnt`, `this_receiver`, listen queues | `Wait_Receiver_Connection`, `Connect_To_Sender`, `Receive_Info`, `conn_receiver`, `accpt_receiver` | `P2PSession` |
| one receiver's threads | `mutx`, `cond`, `cond_finish`, the two counters, `segment_array` | `accpt_snd_seg`, `flood_segment`, `accpt_rcv_seg`, `Wait_All_Segment` and the thread creation | `P2PReceiver` |
| the transfer as a whole | the streams, all receivers' slots and counters | the same handlers of all processes | `P2PFlood`, abstractly `Dissemination` |
| options, progress display | globals, timers | `Set_Variables`, `Print_*` | not modelled |

Interaction: TCP streams between processes; shared memory, one mutex and two
condition variables inside a receiver. Hard behaviours: condition variables
waited for without predicates (lines 428, 735), one of them without holding the
mutex; blocking writes of a flood from the thread that should read; exit of a
process while others still need it; identification by port; connection order;
receivers that die during set-up; a file that changes while the sender waits.

What makes it correct: dealt equals announced; every receiver exits with the
whole file; nobody exits owing segments; nobody writes to a gone reader; each
segment arrives once; the mesh is complete and without double connections;
counters are exact; main is woken, and only when all is done.

### Stop-and-wait transfer: homework 2

The *sender* (`stop_wait_clnt.c`) sends the file's description, then one packet
after another, and repeats a packet when the 2-second alarm interrupts the wait
for its acknowledgement. The *receiver* (`stop_wait_serv.c`) writes packets
with the expected sequence number and acknowledges them; others it drops.
State: the two sequence counters, the saved packet, the alarm, the files, the
datagrams in flight. Hard: loss, duplication, reordering, alarms that race with
answers, the last packet, the unacknowledged description. Correct when the
written file is a prefix of the file, whole at the end, and both sides end.
Modelled in `StopWait`, abstractly `ChunkTransfer`.

### Search service: homework 4

The server (`search_server.c`, `trie.c`) loads words with search counts into a
trie and an array, accepts clients, one thread for each; a thread reads search
words and answers with the (at most ten) most searched words found. The client
(`search_clnt.c`) sends its word after every key and displays the words of the
newest answer that contain what is typed. State: trie and array; client table
and count; descriptors; per thread its copy of the socket and buffer; per client
the typed word and the display. Hard: a variable of `main` shared by address
with all threads, a faulty removal loop, reuse of descriptors, unframed
requests, answers that arrive after the word was changed; in the algorithm, the
greedy recursive match and the sort. Modelled in `SearchTrie` (what is found) and
`SearchService` (who gets it).

### Remote shell: homework 3

The server (`simple_remote_shell_serv.c`) keeps a table `client_t_array` of its
clients' directories and serves requests in an epoll loop; every request gets a
thread, which the loop joins. The client (`simple_remote_shell_clnt.c`) shows the
directory, then reads a command: download, upload, change directory, quit. State:
`client_cnt` and the table; the descriptors; the running request; the files; the
two streams of each client, what it was shown, how much of a file it has. Hard:
`client_cnt--` without compaction (line 147), uploads that read past their end
(393), also into the middle of the next request, an event loop that one client
blocks (163), unchecked results of `fopen` (392), a test for the server's own
directory that never fires (332), files that are empty, missing or changed by
another client meanwhile (client 198, 266, 290). Correct when each client finds its
own entry, both streams keep their framing, the server stays up and every command
ends with the directory shown again. Modelled in `RemoteShell`.

### Directory download: homework 1

The server (`download_serv.c`) sends one client the list of its files and then
the files whose index the client (`download_clnt.c`) asks for. Neither says where a
file ends: the client counts to the size in the list. State: the list and the
files, the index, the count, two streams. Hard: empty files and lists, files that
change or are deleted after the list was made, indices past the end, a client that
leaves. Correct when both sides agree what comes next. Modelled in `Download`.

### File servers: class exercises 실습#1 and 실습#3

Both send one file to each client that connects; `file_client.c` reads it to the
end, says thank you and closes. `file_multi_serv.c` has a select loop that joins
its sending thread; `multiple_access_serv.c` the accept loop, shared variable and
removal loop of the search server. State: descriptors, table, per thread how
much it has sent, per client the blocks received. Hard: the shared variable, the
order of shutdown and close, clients that do not read, a SIGPIPE that ends the server
and with it every stream. Correct when whoever has read to the end has the whole file,
and everybody who reads is served. Modelled in
`FileServers`.

## 2. Modules

Every module starts with a comment that says what it models; definitions keep
the names of the source's functions and variables. `MC*` modules hold the values
of constants for TLC. Definitions introduced by "A slip:" are faulty variants of
the definition after them; nothing uses them, they exist to see that the
properties notice such a mistake.

**SegmentPlan** has `SegmentCount`, `SegmentsFor` (the share `Send_Info`
announces), `NextIndex` (one turn of the round robin).

**P2PSender** is the sending process step by step, with the bytes counted and a
file that may be replaced or removed while it waits for receivers (`FileReplaced`,
`FileRemoved`). Without the file the process exits, at the start or when it opens it again
(`NoSuchFile`, `Reopened`).

**P2PSession** has one action per step of the hand-shake: accept, read of a
hello, sending of one list, and at each receiver the listen, the connect to the
sender, the hello, `Receive_Info`, one connect or accept at a time. TCP is its
queues. More receivers may run than the sender waits for; those of `MayCrash`
may be killed, which the model keeps apart from failing because of somebody else.

**P2PReceiver** is one receiver at the grain of its threads. The mutex is a flag
and increments are a load and a store, because `Wait_All_Segment` calls
`pthread_cond_wait` on a mutex it does not hold: the C library then frees it
under its holder. Condition variables have no memory. A wait may also return
unsignalled; the history variable `woken_for_nothing` remembers that it did.

**P2PFlood** puts the sender and all receivers together. A stream buffers `Capacity`
segments, and a write returns when at most that many are unread: with 0, when
its reader has taken it. A flood writes to its peers in the order of
`recv_sock_array`, whatever that order is, and stays with one until the write
returns. A signal that comes before main waits for it is lost (`missed`).
P2PFlood starts where P2PSession ends and takes each
critical section as one step, which `ExactUntilMainWaits` of P2PReceiver
justifies for the time before main waits; what goes wrong after that stays in
P2PReceiver. **Dissemination** is what it promises: every receiver gets each
segment once, from the sender or from the segment's owner, and completes with all.

**StopWait** has both programs and the network. A datagram in flight is a record
with a copy number; faults are drawn from the set `Faults`, at most `MaxFaults`
times, so that each run says which faults it admits. **ChunkTransfer** is its
abstraction: the file grows by the next chunk.

**RemoteShell** makes each handler one step, because the event loop joins its
thread; only the upload, which reads several times, is several. Directories are a
chain of levels, a file is its size in pieces, and a read takes any part of what has
arrived. A read of an upload may end inside the request behind the data and leave
the "rest" of it, which is then read as a request of any kind: what it contains is what
memory held before, and the model assumes only that no file or directory has that
name. Opening a file or a directory may be refused (thread "denied"). The server lists a directory with the sizes of the files of the same name
in its own directory, as `CreateArrayFromDirectory` does. The history variables
`out_of_order`, `cut` and `excused` name what the code does not provide for (see
Exceptions); `where` is the directory a client's own moves have led it to.

**Download** has the server's loop over indices and the client's loop over bytes, and
files that change or are deleted meanwhile;
a piece in the stream carries the index of its file, so that a mix-up is visible.
`starved` and `overfull` remember that the client got less or more than it waits
for. **FileServers** has both one-file servers; `server` says which one runs. A
stream holds `Capacity` blocks, so that a `Sleeper` (a client that may stop reading)
blocks the thread that sends to it. When the server dies every stream ends behind what
was sent, and who was not accepted yet is reset. `MCFileServers` runs Download and
FileServers side by side, as a behaviour is one of either.

**SearchTrie** has the trie, the recursive search and collection as recursive
functions, the bubble sort pass by pass, the cut and the client's filter. A
word is a sequence over a small alphabet, in lower case as both programs compare it.

**SearchService** has the accepting thread (accept, save, create), the threads
of `handle_clnt` (read the argument, call read, get words, end or an error,
answer, remove, close) and the clients (connect, type, erase, display, leave).
A search word is the length of the typed text; a message is the sequence of words
a read took off the stream. Descriptors are numbers and the lowest free one is
used. The history variable `overtaken` remembers that `main` accepted while a thread
had not read its argument yet; the promises to a single client hold only until
then. Abstracted: an answer (its count and its words) is written and received in
one step.

## 3. Runs

*Passing runs* (the properties' comments state them in full):

| run | instance | shows |
|---|---|---|
| `sender` | files of 0..7 bytes, segments of 1..3, 1..4 receivers | dealing, announcing and cutting agree for every remainder; the sender ends unless the file shrank |
| `flood_three` | 3 receivers, 2 segments, capacity 0, sockets in every order | obligations among three parties: one owns nothing, one finishes early; floods that wait for their readers and cross each other come to an end, and everybody exits whose main was not signalled too early; refinement of `Dissemination` |
| `receiver` | receiver 1 of 3, 4 segments, spurious wakeups | what the mutex guarantees, and that the three known ways to hang are the only ones |
| `session` | 4 receivers started, 3 wanted, two may be killed | numbers agree, one connection per pair, complete meshes; all settle if nobody is killed |
| `stopwait` | files of up to a few chunks; loss of anything, repeated data, early alarms | prefix, step, wholeness; refinement of `ChunkTransfer`; both sides end but for four named losses |
| `stopwait_dup_ack` | repeated acknowledgements too | what is written stays in order |
| `search` | all data of 3 lines over 14 words of two letters, searches of up to 2 letters, cut at 2 | the walk finds exactly the words with the search word as a subsequence, once |
| `service` | 2 clients, words of up to 2, 3 keys each, typing ahead | as long as no thread is overtaken no client reaches another one's connection and every display catches up with the word typed; the count is always right |
| `shell` | 2 clients, 3 directory levels, local files of 0..2 pieces, 4 connections and commands | each finds its own entry, both streams keep their framing, the server stays up, the directory is shown again, but for the exceptions below |
| `fileservers` | 2 files of 0..2 pieces that change or are deleted; 2 clients of a file of 3 blocks, one may sleep or be killed, which may kill the server | files stay apart and whole, and nobody waits forever but in the cases named |

*Violations.* Each of these runs checks one statement of a comment
against what the code does; `PROJECT.json` (findings) quotes it.

| run | statement | how it fails |
|---|---|---|
| `receiver_lost_finish` | p2p.c:427 waits for the end | the last signal precedes main's wait |
| `shell_above` | simple_remote_shell_serv.c:331 "Cannot move higher than where the server is at" | a client's directory is a full path (`realpath`, 213-217), the test compares it with "./", and `..` leads above |

*Exceptions.* Some properties of passing runs hold only with an exception, and
each exception is a real weakness of the code, named where it is stated:

* `EndsOrLoses` of P2PReceiver: `LostCond` (the mesh threads signal before the
  sender's thread waits, p2p.c:735), `LostFinish` (the run above), `LostUpdate`
  (main, which did not hold the mutex, has freed it for a second thread and an
  increment is lost, p2p.c:428).
* `WokenWhenDone`, `FloodsWhenMeshed`: a spurious wakeup is taken for the event,
  as no predicate is checked after the wait.
* `AllExit`: `missed`, a receiver whose main was not waiting yet when the last signal
  came; the run `receiver_lost_finish` shows how that happens. The others end all the
  same.
* `MeshComplete` counts connections made: a peer that died after it was accepted is
  counted (p2p.c:967).
* `EndsOrLoses` of StopWait: a lost acknowledgement (the receiver drops the repetition
  without acknowledging it, stop_wait_serv.c:93), a lost description, a lost last
  packet (nobody waits for its acknowledgement, stop_wait_clnt.c:106), an alarm that goes off before `recvfrom` is entered.
* `LastWordShown`: `Garbled`, the result of two words that were read as one
  (search_server.c:84); and the erased word: its list is cleared, but an answer that
  comes later fills it again (search_clnt.c:129-130, 152), and nothing is sent for the
  empty word that would correct it.
* `FindsEachMatchOnce` is stated for subsequences, as the walk skips characters,
  although search_server.c:119 speaks of prefixes; `PrefixesDisplayed` for what
  is left after the client's own filter, and for answers that were not cut: of a longer
  one the words that the filter would have kept may be missing.
* `CountMatches` speaks of the count only: the removal loop (search_server.c:95)
  increments before it copies, keeps the entry of the client that left and drops
  its successor.
* `OwnDirectory` says that a client is where its moves led it, above the server's own
  directory too: what the comment on that promises is refuted by `shell_above`.
* The properties of RemoteShell: `out_of_order` (a client left before one that came
  later: its entry stays, the last one drops out of reach, and the next request of
  that client dereferences a null pointer, simple_remote_shell_serv.c:147); `cut` (a
  client was killed in the middle of a command, and the server's read or write
  ends it for all); `excused` (the client's file was empty, had another size
  than shown, did not exist, or its next request came too early and was read as
  part of an upload, whole or up to its middle: the server's loop then reads the rest,
  `RequestsFramed`); `denied` (the server could not open a file to write or to read, or a
  directory: it ends for all, simple_remote_shell_serv.c:243, 392). While the server
  reads from an excused client it serves no other.
* `FilesApart` of Download: `overfull` (a file has grown since the list was
  made, download_clnt.c:92). `PromptAgain`: `starved` (an empty list, an empty file
  or one that has shrunk: both sides read, line 84), or the server has ended, as it does
  when it cannot open a file.
* `WholeFile` and `Served` of FileServers: `overtaken`, as in SearchService
  (multiple_access_serv.c:63). `WholeFile` also excepts the clients whose stream was ended by the
  server's death: they have the beginning of the file and take it for the
  whole (file_client.c:39). `Served` also excepts the time for which the select server sends
  to a sleeper (file_multi_serv.c:87).
* P2PSession is run, and proved, with distinct ports: a receiver finds itself in the list by
  its port alone (p2p.c:529), and with equal ports on two hosts set-up would not end.

### Bounds

* P2P: three receivers give a third party that must not be cut off; two segments
  leave one receiver without any of its own, and capacity 0 makes every write wait for
  its reader, so that two floods that write to each other's process wait for each
  other's reading threads. No receiver gets a second segment of its own at this size: the safety
  properties and the refinement are proved for all sizes, but `AllExit` is checked at this
  size only. The sender's rounds are in `sender`, with up to seven segments.
* P2PReceiver: receiver 1 of 3 has a peer to accept and a peer to connect to;
  with four segments one of the peers owns two. For a signal that is lost one
  peer and two segments are enough.
* P2PSession: four receivers for three places give a latecomer, who is turned
  away; two named receivers may die, either or both, at any time; all ports are
  distinct. The safety properties are proved for any number of receivers.
* StopWait: files up to a few chunks include the empty file, an exact multiple
  and a short last chunk. Two copies of a datagram suffice for a duplicate beside
  its original; three faults for a loss, its repetition, and the loss of that. The
  theorems cover all values. `MaxFaults` is a bound in the guards.
* SearchTrie: words of up to three letters over two contain repeated letters,
  prefixes of each other, and gaps; three lines give duplicates, ties, and one
  word more than the cut of 2 (10 in the code).
* SearchService: two clients are enough for the removal loop to drop an entry
  that is later looked for, for one thread to be overtaken, and for a descriptor
  that is used again by the second client after the first has left. `MaxKeys`
  bounds the keys of a client: three make a word of two letters and a shorter one sent
  after it, three words in one read, or a word that is erased and typed anew.
* RemoteShell: three levels, the server started at the middle one, so that a client
  can move above it and below; a buffer of two pieces and files of up to two
  (one on the server at first), so that a file may be empty, come in one read or in
  two, and a read may take the next request along; two clients to be out of order
  and to change each other's file. `MaxCommands` counts the connections and commands
  of both: four are two clients with one command each, or one with three.
* Download: `MaxLeft` bounds what may be left over in the streams when the user
  chooses again, which only happens after an exception.
* FileServers: two clients and three blocks over a stream of one block: a thread
  blocks in the middle of the file, the other client comes before, during and after.
* `CHECK_DEADLOCK FALSE` everywhere: the programs end, or wait for clients.

### Fairness

Threads are scheduled by the operating system, so every thread has weak fairness;
a thread blocked on a read, a full stream, a mutex or a condition variable is
disabled. TCP delivers what was written. In StopWait the network delivers what
it does not lose, a pending alarm goes off, and an acknowledgement that has
arrived is not passed over for timeouts forever (strong fairness of
`Wait_For_ACK`: the alarm is armed for two seconds and the answer is read within
microseconds). In RemoteShell the event
loop has strong fairness for each client, as `epoll_wait` returns all that are ready
and the loop serves each of them, while a request of another client disables the
step in between. In FileServers only clients that are no `Sleepers` are fair:
nobody can be relied on to read. No fairness is assumed of users, crashes, faults, spurious
wakeups, or a file's replacement, nor that a signal in P2PFlood finds main waiting.

## 4. Proofs

TLAPS proves these for all values of the constants.

**P2PFloodProofs** assumes only `N \in Nat \ {0}`, `S \in Nat`, `Capacity \in Nat`.
The safety properties are not inductive: that nobody exits owing
segments depends on who still holds which segment. `IInv` says where each
segment is:

* `SenderInv`, `FromSenderInv`: the sender's loop; a stream from the sender holds
  its receiver's segments only, in order, none before those already read;
* `HeldInv`, `FloodInv`: a slot is filled with an own segment that was read, or
  one that its owner has flooded; what is being flooded is filled at the owner;
* `LinkInv`: a stream between peers holds segments of its writer, none twice,
  none that the reader already has; each flooded segment is in the stream or has
  arrived;
* `CountInv`, `DealtInv`: `current_segment_cnt` is the cardinality of the slots,
  `finished_segment_cnt` the same without the segment that is being flooded;
* `MainInv`, `ReaderInv`: a signal has been given, was missed or is due once everything
  is finished; a thread that has left its loop has nothing left to read.

There is one lemma per action; `NextKeepsInv` joins them. From `IInv` follow
`TypeOK`, `WholeFile`, `OwesNothing`, `ReaderOutlivesWriter`, `EachSegmentOnce`,
`DealtAsAnnounced`, `SignalNotForgotten`, and `ImplementsDissemination` (every
step is a step of `Dissemination` or stutters). `SegmentPlan`'s arithmetic is
in the lemmas `NextTurn`, `NextDealt` and `SegmentCardinality`.

**StopWaitProofs** assumes `NoDupAck`: the network repeats no acknowledgement.
With repeated ones `InStep` and `WrittenIsPrefix` are false, so that the
assumption is needed. `IInv` ties the packets
in flight to the two counters: a data packet carries the chunk of its number and
is not newer than the sender's, an acknowledgement in flight is the awaited one,
`read_len` is the number of bytes of the chunks written. From it follow `TypeOK`,
`WrittenIsPrefix`, `InStep`, `DoneIsWhole` and `ImplementsChunkTransfer`.

Two theorems do without `NoDupAck`. `WrittenInOrderAlways`, from `OrderInv`: a
packet sent under a higher number carries a later chunk, whatever made the sender
go on, and the receiver takes numbers in order; so the file may get gaps but no
chunk twice or early. `MisreadIsSilentAlways`, from `SilentInv`: a receiver that
took a data packet for the file's description never acknowledges or writes.

**P2PSenderProofs** assumes only that sizes are natural numbers and segments and
receivers at least one. After n segments the turn is n modulo the receivers, each
receiver has had the share `Send_Info` would announce for n, and the position in the
file is n segments or its end (`TurnInv`, `BytesInv`); the loop stops at the measured
count (`LoopInv`). From it follow `DealtAsAnnounced`, also for a file that has been
replaced, and `SegmentsAreTheFile`.

**P2PReceiverProofs** assumes the constants' assumption of the module. Four
layers: `BaseInv` bounds how far each thread is (no thread reads more than was
announced, only peers with a socket have a thread). `UpperInv` does not need the
mutex: what is stored in a counter is one more than what was loaded, what was loaded is at most
what has been counted, and what has been counted are different segments, so that
no counter ever passes `segment_count`, lost updates or not. `ExactInv` is the
mutex, up to main's wait. From the first two follows what the signals mean: if
`finished_segment_cnt` is S then all S segments have been counted as finished, the
last own one among them (`AllFinished`), which gives `WokenWhenDone`;
`FloodsWhenMeshed` is the same argument over sockets (`AllMeshed`).

**SearchServiceProofs** assumes what SearchService and SearchTrie assume of their
constants, and has two parts. The service: each
accepted client has one thread made for it, or about to be made (`AcceptedInv`), so
that the count counts threads, and a free descriptor and thread exist when main
needs one. (That the client table is large enough is an assumption, `MAX_CLNT >
Cardinality(Clients)`: search_server.c:65 does not check it.) As long as nobody was overtaken, descriptors in use are open and all
different (`OwnInv`), and a thread answers the client it has read from (`MsgInv`). From these
follow `CountMatches`, `OwnDescriptor` and `AnswersToAsker`.

The engine's part is about the recursive functions of SearchTrie, for every alphabet,
every `data.txt` and every search word. Theorems of the library about induction and
recursion take predicates as parameters, which the provers cannot instantiate; so
they are proved here for sets: `Induction`, from a smallest counterexample, and
`Recursion`, that a function whose value depends on arguments of smaller size only exists.
Then:

* A walk collects the labels of the words at and below a node, each once (`Collects`),
  by induction over the depth that is left: `Gathered` is one node with its children,
  `Completed` and `FoundNodes` are the two walks of trie.c.
* `Embeds(k, s, w)`: the first k characters of s occur in w in their order. `MeetsNext`
  and `NotMetYet` say that going on to the next character whenever it is met misses
  nothing, which is what makes the greedy walk complete; `AboveLinear` and `MetAt` say that no
  word lies below two of the nodes it stops at, which is why no word is found twice.
* A pass of the bubble sort keeps the numbers it passes over and carries the least
  of them to their end (`Passed`, `BubbleStep`); after i passes the last i places are final
  (`Sorted`, `PassStep`). `FoldLeft` over sets of numbers is unrolled by `Folding`.

The invariant `EngineInv` has the trie lead to the last line of each word (`DataInv`) and
the result be that of the last search (`ResultInv`); it implies `FindsEachMatchOnce`,
`SendsMostSearched` and `PrefixesDisplayed`.

**RemoteShellProofs** assumes the module's assumption. What a client has sent and the
server has not read is the tail of one command and perhaps the request for the directory
that follows it; which tail depends on what the client waits for and what
the server's thread has still to read (`ReadInv`, `SentInv`, over all sizes of files
and all ways the pieces may be read), and a directory in the other stream answers the last
request (`AnswerInv`). Until a client leaves out of order the entries in use and the
connected clients belong together one to one (`TableInv`), and each entry has the level
its client's moves led to. That gives `OwnDirectory`, `RequestsFramed`, `RepliesFramed` and
`StaysUp`. A rest of a request occurs only at the head of what an excused client has sent;
a server that is down without the other causes has a thread that was denied what it
opens. (That the table is large enough is assumed, `EPOLL_SIZE >= Cardinality(Clients)`:
simple_remote_shell_serv.c:479 does not check it.) The proof of `TypeOK` showed that `where` has no bound once a client has
left out of order: requests of a client are then applied to an entry that is not its own, whose
directory does not say how far that client could still go down.

**P2PSessionProofs** assumes the module's assumption and `DistinctPorts`. The
sender's list is the sequence of those it accepted, each with its number and with its
port or dead (`SenderInv`, `QueueInv`), so that a receiver that looks for its port
finds its own place and keeps the entries behind it (`Informed`). Whom it has called
then follows from its place and how far its loop is (`Calls`); those at its door and
those it is connected to are exactly the ones it has called or that have called it
(`EdgeInv`). That gives `NumbersAgree` and `PairsConnectOnce`; `MeshComplete` is by
counting: with `this_receiver` calls accepted and the rest made, nobody is missing.

**FileServersProofs** assumes `FileServersAssumption`. As in the search server there
are as many threads and descriptors as accepted clients (`AcceptedInv`). Unless a thread
was overtaken, the descriptors that threads use are open, all different, and not
the one just accepted (`OwnInv`); hence one thread writes to a client's stream, what has
arrived or is on its way is what that thread has sent, and a stream is ended by its
thread after its last block only (`StreamInv`). That gives `WholeFile` for both servers; a
stream that only the death of the server ends holds a prefix.

The same module has the directory download, under `DownloadAssumption`. Unless a file
has grown, the one request of the client is on its way, or being answered, or answered,
and then what the client has counted and what is still in the stream do not exceed what
it was told (`RequestInv`); hence `FilesApart`.

Model-checked only: the liveness properties (`EndsUnlessShrunk`, `AllExit`,
`EveryoneSettles`, both `EndsOrLoses`, `LastWordShown`, `ShownAgain`, `PromptAgain` and
`Served`), because their fairness is about ENABLED, which TLAPS here does not
support. Every safety property and both refinements that the passing runs check are proved.

## 5. Not modelled, and why

* Output (progress bars, colours, throughput), option parsing and terminal
  settings: no property is about them. The elapsed time in the progress display is an
  int that may overflow; nothing depends on it.
* Contents: of a file, a segment, a chunk or a block only the number or the
  size is kept. That homework 3 opens a file of a listed directory by its name in the
  server's own directory is modelled for the sizes, not for the contents.
* The limits of fixed buffers (`word_array[100]`, `msg[100]`, `FILE_COUNT`): the
  code does not check them, and what happens beyond is undefined.
* Short reads of a structure over TCP (segment headers, lists, directory entries,
  an answer's words): streams carry whole items, except for the rest of a request behind
  an upload in the remote shell. Short reads of data, which the loops
  of the code provide for, are modelled.
* Death of a receiver during the P2P transfer: `write` raises SIGPIPE in the
  sender and in all peers, the code has no answer to it.
* Equal ports of two receivers on different hosts (p2p.c:529): the model's
  receivers have distinct ones.

## 6. How the project is ordered

The peer-to-peer program comes first, from its whole (P2PFlood) to its parts, as its
interleavings are the hardest; then the transfer over a faulty network, the
search service, and the servers of the other assignments. What could follow: a
run of the flood with several rounds (it settles within seconds for two receivers
and five segments); segment headers that arrive in parts; receivers that die
during the transfer, once the code handles it.

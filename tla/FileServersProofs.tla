-------------------------- MODULE FileServersProofs --------------------------
(***************************************************************************)
(* What the file servers of the class exercises give every client, for any *)
(* number of clients and blocks, whoever stops reading or is killed; and   *)
(* what holds of the directory download, which is the last part.           *)
(*                                                                         *)
(* The argument: as long as no thread was overtaken, the descriptors that  *)
(* threads send to are open, all different, and not the one main has just  *)
(* accepted; so a client's stream is written by one thread, from the first *)
(* block on, and ended only when all blocks are in it, or by the end of    *)
(* the server.                                                             *)
(***************************************************************************)
EXTENDS Download, FileServers, FiniteSetTheorems, WellFoundedInduction, TLAPS

Phases == {"none", "start", "send", "shutdown", "remove", "close", "done"}

Types ==
    /\ server \in {"select", "threads"}
    /\ main_pc \in {"accept", "save", "create", "join"}
    /\ clnt_sock \in Descriptors \cup {0}
    /\ files \in [Descriptors -> Clients \cup {Nobody}]
    /\ pc \in [Threads -> Phases]
    /\ sock \in [Threads -> Descriptors \cup {0}]
    /\ sent \in [Threads -> Nat]
    /\ conn \in [Clients -> {"away", "reading", "done", "killed"}]
    /\ received \in [Clients -> Seq(Nat)]
    /\ stream \in [Clients -> Seq(Nat)]
    /\ backlog \subseteq Clients

Accepted == {c \in Clients : conn[c] # "away"} \ backlog

Created == {t \in Threads : pc[t] # "none"}

\* Each open descriptor leads to an accepted client, each to another one, and
\* as many clients were accepted as threads were or are about to be created.
AcceptedInv ==
    /\ \A c \in backlog : conn[c] # "away"
    /\ \A d \in Descriptors :
        files[d] # Nobody =>
            /\ files[d] \in Accepted
            /\ \A e \in Descriptors : files[e] = files[d] => e = d
    /\ Cardinality(Accepted) =
        Cardinality(Created) + (IF main_pc \in {"save", "create"} THEN 1 ELSE 0)

\* How far a thread is with its file; the select server has one at a time.
SentInv ==
    /\ \A t \in Threads :
        /\ pc[t] \in {"none", "start"} => sent[t] = 0
        /\ pc[t] = "send" => sent[t] < Blocks
        /\ pc[t] = "shutdown" => sent[t] = Blocks
    /\ server = "select" /\ main_pc # "join" =>
        \A t \in Threads : pc[t] \in {"none", "done"}

\* clnt_sock still belongs to the connection accepted last.
Holding == main_pc \in {"save", "create"} \/ \E t \in Threads : pc[t] = "start"

Active == {"send", "shutdown", "remove", "close"}

\* Without overtaking, the descriptors in use are open and all different.
OwnInv ==
    overtaken \/
        /\ \A t \in Threads : pc[t] = "start" =>
            /\ main_pc \in {"accept", "join"}
            /\ \A u \in Threads : pc[u] = "start" => u = t
        /\ Holding => clnt_sock \in Descriptors /\ files[clnt_sock] # Nobody
        /\ \A t \in Threads : pc[t] \in Active =>
            /\ sock[t] \in Descriptors /\ files[sock[t]] # Nobody
            /\ Holding => sock[t] # clnt_sock
            /\ \A u \in Threads : pc[u] \in Active /\ u # t => sock[t] # sock[u]

Arrived(c) == Len(received[c]) + Len(stream[c])

\* The blocks that have come and those on their way are the first of the file.
Ordered(c) ==
    /\ \A i \in 1 .. Len(received[c]) : received[c][i] = i
    /\ \A i \in 1 .. Len(stream[c]) : stream[c][i] = Len(received[c]) + i
    /\ Arrived(c) <= Blocks

New(c) == Arrived(c) = 0 /\ c \notin shut

\* Without overtaking, what has arrived is what the client's thread has sent.
StreamInv ==
    overtaken \/
        /\ \A c \in Clients :
            /\ Ordered(c)
            /\ conn[c] = "away" \/ c \in backlog => New(c)
            /\ c \in shut => conn[c] = "killed" \/ Arrived(c) = Blocks
            /\ conn[c] = "done" => Len(stream[c]) = 0 /\ (alive => c \in shut)
        /\ Holding => New(files[clnt_sock])
        /\ \A t \in Threads :
            /\ pc[t] \in {"send", "shutdown"} =>
                /\ files[sock[t]] \notin shut
                /\ \/ conn[files[sock[t]]] = "killed"
                   \/ Arrived(files[sock[t]]) = sent[t]
            /\ pc[t] \in {"remove", "close"} => files[sock[t]] \in shut

IInv == Types /\ AcceptedInv /\ SentInv /\ OwnInv /\ StreamInv

-----------------------------------------------------------------------------
(* Smallest numbers and counts. *)

\* A set of numbers from an interval has a smallest one, and Min is it.
LEMMA MinOfInterval ==
    ASSUME NEW m \in Nat, NEW A \in SUBSET (0 .. m), A # {}
    PROVE  Min(A) \in A /\ \A a \in A : Min(A) <= a
  <1> DEFINE T == {0 .. a : a \in A}
  <1>1. T \subseteq FiniteSubsetsOf(0 .. m) /\ T # {}
    <2>1. \A a \in A : 0 .. a \in SUBSET (0 .. m)
      OBVIOUS
    <2>2. \A a \in A : IsFiniteSet(0 .. a)
      BY FS_Interval
    <2> QED BY <2>1, <2>2 DEF FiniteSubsetsOf
  <1>2. PICK x \in T : \A y \in T : <<y, x>> \notin StrictSubsetOrdering(0 .. m)
    <2> HIDE DEF T
    <2>1. IsWellFoundedOn(StrictSubsetOrdering(0 .. m), FiniteSubsetsOf(0 .. m))
      BY FS_StrictSubsetOrderingWellFounded
    <2> QED BY <1>1, <2>1, WFMin
  <1>3. PICK a \in A : x = 0 .. a
    BY <1>2
  <1>4. \A b \in A : a <= b
    <2> SUFFICES ASSUME NEW b \in A, b < a
                 PROVE  FALSE
      OBVIOUS
    <2>1. 0 .. b \in SUBSET (0 .. m) /\ 0 .. a \in SUBSET (0 .. m)
      OBVIOUS
    <2>2. 0 .. b \subseteq 0 .. a /\ a \in 0 .. a /\ a \notin 0 .. b
      OBVIOUS
    <2>3. <<0 .. b, x>> \in StrictSubsetOrdering(0 .. m)
      BY <1>3, <2>1, <2>2 DEF StrictSubsetOrdering
    <2> QED BY <1>2, <2>3
  <1> QED BY <1>4 DEF Min

\* As many threads and descriptors as there are clients.
LEMMA Counts ==
    /\ Cardinality(Clients) \in Nat
    /\ IsFiniteSet(Threads) /\ Cardinality(Threads) = Cardinality(Clients)
    /\ IsFiniteSet(Descriptors) /\ Cardinality(Descriptors) = Cardinality(Clients)
  <1>1. Cardinality(Clients) \in Nat
    BY FileServersAssumption, FS_CardinalityType
  <1>2. /\ IsFiniteSet(1 .. Cardinality(Clients))
        /\ Cardinality(1 .. Cardinality(Clients)) = Cardinality(Clients)
    BY <1>1, FS_Interval
  <1> QED BY <1>1, <1>2 DEF Threads, Descriptors

\* A set of threads is finite.
LEMMA ThreadSets ==
    ASSUME NEW A \in SUBSET Threads
    PROVE  IsFiniteSet(A) /\ Cardinality(A) \in Nat
  BY Counts, FS_Subset, FS_CardinalityType

\* Adding and removing a thread counts.
LEMMA CountThreads ==
    ASSUME NEW A \in SUBSET Threads, NEW t \in Threads
    PROVE  /\ t \notin A => Cardinality(A \cup {t}) = Cardinality(A) + 1
           /\ t \in A => Cardinality(A \ {t}) = Cardinality(A) - 1
  BY ThreadSets, FS_AddElement, FS_RemoveElement

\* The same for clients.
LEMMA CountClients ==
    ASSUME NEW A \in SUBSET Clients, NEW c \in Clients
    PROVE  /\ IsFiniteSet(A)
           /\ Cardinality(A) \in 0 .. Cardinality(Clients)
           /\ c \notin A => /\ Cardinality(A \cup {c}) = Cardinality(A) + 1
                            /\ Cardinality(A) < Cardinality(Clients)
  <1>1. IsFiniteSet(A) /\ Cardinality(A) <= Cardinality(Clients)
        /\ (Cardinality(Clients) = Cardinality(A) => Clients = A)
    BY FileServersAssumption, FS_Subset
  <1>2. Cardinality(A) \in Nat /\ Cardinality(Clients) \in Nat
    BY <1>1, Counts, FS_CardinalityType
  <1>3. c \notin A => Cardinality(A \cup {c}) = Cardinality(A) + 1
    BY <1>1, FS_AddElement
  <1> QED BY <1>1, <1>2, <1>3

-----------------------------------------------------------------------------
(* What main needs is there when it needs it. *)

\* A client that waits for accept finds a free descriptor.
LEMMA FreeDescriptor ==
    ASSUME IInv, NEW c \in backlog
    PROVE  \E d \in Descriptors : files[d] = Nobody
  <1> SUFFICES ASSUME \A d \in Descriptors : files[d] # Nobody
               PROVE  FALSE
    OBVIOUS
  <1> DEFINE f == [d \in Descriptors |-> files[d]]
  <1>1. f \in Injection(Descriptors, Accepted)
    <2>1. f \in [Descriptors -> Accepted]
      BY DEF IInv, AcceptedInv
    <2>2. IsInjective(f)
      BY DEF IInv, AcceptedInv, IsInjective
    <2> QED BY <2>1, <2>2 DEF Injection
  <1>2. c \in Clients /\ c \notin Accepted /\ Accepted \in SUBSET Clients
    BY DEF IInv, Types, Accepted
  <1>3. Cardinality(Accepted) < Cardinality(Clients) /\ IsFiniteSet(Accepted)
    BY <1>2, CountClients
  <1>4. Cardinality(Accepted) \in Nat
    BY <1>3, FS_CardinalityType
  <1>5. Cardinality(Descriptors) <= Cardinality(Accepted)
    <2> HIDE DEF f
    <2> QED BY <1>1, <1>3, FS_Injection
  <1> QED BY <1>3, <1>4, <1>5, Counts

\* main finds a thread it has not created yet.
LEMMA FreeThread ==
    ASSUME IInv, main_pc = "create"
    PROVE  \E t \in Threads : pc[t] = "none"
  <1>1. Accepted \in SUBSET Clients /\ Created \in SUBSET Threads
    BY DEF Accepted, Created
  <1>2. Cardinality(Accepted) = Cardinality(Created) + 1
    BY DEF IInv, AcceptedInv
  <1>3. Cardinality(Accepted) <= Cardinality(Clients)
    BY <1>1, FileServersAssumption, FS_Subset
  <1>4. IsFiniteSet(Created) /\ Cardinality(Created) \in Nat
    BY <1>1, ThreadSets
  <1>5. Cardinality(Clients) \in Nat /\ Cardinality(Threads) = Cardinality(Clients)
    BY Counts
  <1>6. Created # Threads
    BY <1>2, <1>3, <1>4, <1>5
  <1> QED BY <1>1, <1>6 DEF Created

-----------------------------------------------------------------------------
(* The invariant holds at the start and every action keeps it. *)

LEMMA InitInv == Init => IInv
  <1> SUFFICES ASSUME Init PROVE IInv
    OBVIOUS
  <1>1. Types
    BY DEF Init, Types, Phases
  <1>2. Created = {} /\ Accepted = {}
    BY DEF Init, Created, Accepted
  <1>3. AcceptedInv
    BY <1>2, FS_EmptySet DEF Init, AcceptedInv
  <1>4. SentInv /\ OwnInv
    BY DEF Init, SentInv, OwnInv, Holding, Active
  <1>5. StreamInv
    BY FileServersAssumption DEF Init, StreamInv, Ordered, New, Arrived, Holding
  <1> QED BY <1>1, <1>3, <1>4, <1>5 DEF IInv

\* Steps that accept nobody and create nothing.
LEMMA AcceptedFrame ==
    ASSUME IInv,
           UNCHANGED backlog,
           main_pc' \in {"save", "create"} <=> main_pc \in {"save", "create"},
           \A c \in Clients : conn'[c] = "away" <=> conn[c] = "away",
           \A t \in Threads : pc'[t] = "none" <=> pc[t] = "none",
           \A d \in Descriptors : files'[d] \in {files[d], Nobody}
    PROVE  AcceptedInv'
  <1>1. Accepted' = Accepted /\ Created' = Created
    BY DEF Accepted, Created
  <1>2. \A c \in backlog : c \in Clients
    BY DEF IInv, Types
  <1> QED BY <1>1, <1>2 DEF IInv, AcceptedInv

\* The select server sends from one thread only, so nobody is overtaken there.
LEMMA AcceptInv ==
    ASSUME IInv, NEW c \in Clients, Accept(c) PROVE IInv'
  <1> DEFINE free == {d \in Descriptors : files[d] = Nobody}
  <1>1. clnt_sock' \in Descriptors /\ files[clnt_sock'] = Nobody
    <2>1. /\ free # {} /\ free \in SUBSET (0 .. Cardinality(Clients))
          /\ Cardinality(Clients) \in Nat
      BY FreeDescriptor, Counts DEF Accept, Descriptors
    <2>2. Min(free) \in free
      <3> HIDE DEF free
      <3> QED BY <2>1, MinOfInterval
    <2> QED BY <2>2 DEF Accept
  <1>2. /\ c \in backlog /\ backlog' = backlog \ {c}
        /\ files' = [files EXCEPT ![clnt_sock'] = c]
        /\ files \in [Descriptors -> Clients \cup {Nobody}]
        /\ main_pc = "accept" /\ main_pc' \in {"create", "save"}
        /\ UNCHANGED <<server, alive, pc, sock, sent, conn, received, stream, shut>>
    BY DEF Accept, IInv, Types, threads, client
  <1>3. /\ files' \in [Descriptors -> Clients \cup {Nobody}]
        /\ files'[clnt_sock'] = c
        /\ \A d \in Descriptors \ {clnt_sock'} : files'[d] = files[d]
    BY <1>1, <1>2
  <1>4. Types'
    BY <1>1, <1>2, <1>3 DEF IInv, Types
  <1>5. AcceptedInv'
    <2>1. Accepted' = Accepted \cup {c} /\ c \notin Accepted /\ Created' = Created
      BY <1>2 DEF Accepted, Created, IInv, AcceptedInv
    <2>2. Cardinality(Accepted \cup {c}) = Cardinality(Accepted) + 1
      BY <2>1, CountClients, Accepted \in SUBSET Clients DEF Accepted
    <2>3. Cardinality(Created) \in Nat
      BY ThreadSets, Created \in SUBSET Threads DEF Created
    <2>4. Cardinality(Accepted') = Cardinality(Created') + 1
      BY <1>2, <2>1, <2>2, <2>3 DEF IInv, AcceptedInv
    <2>5. \A d \in backlog' : conn'[d] # "away"
      BY <1>2 DEF IInv, AcceptedInv
    <2>6. c # Nobody /\ \A d \in Descriptors : files[d] # c
      BY <2>1, FileServersAssumption DEF IInv, AcceptedInv
    <2>7. ASSUME NEW d \in Descriptors, files'[d] # Nobody
          PROVE  /\ files'[d] \in Accepted'
                 /\ \A e \in Descriptors : files'[e] = files'[d] => e = d
      BY <1>3, <2>1, <2>6, <2>7 DEF IInv, AcceptedInv
    <2> QED BY <1>2, <2>4, <2>5, <2>7 DEF AcceptedInv
  <1>6. SentInv'
    BY <1>2 DEF IInv, SentInv
  <1>7. OwnInv' /\ StreamInv'
    <2> SUFFICES ASSUME ~overtaken'
                 PROVE  OwnInv' /\ StreamInv'
      BY DEF OwnInv, StreamInv
    <2>1. ~overtaken /\ \A t \in Threads : pc[t] # "start"
      BY DEF Accept
    <2>2. c # Nobody
      BY FileServersAssumption
    <2>3. \A t \in Threads : pc[t] \in Active =>
            /\ sock[t] \in Descriptors /\ files[sock[t]] # Nobody
            /\ \A u \in Threads : pc[u] \in Active /\ u # t => sock[t] # sock[u]
      BY <2>1 DEF IInv, OwnInv
    <2>4. \A t \in Threads : pc[t] \in Active =>
            sock[t] # clnt_sock' /\ files'[sock[t]] = files[sock[t]]
      BY <1>1, <1>3, <2>3
    <2>5. OwnInv'
      BY <1>1, <1>2, <1>3, <2>1, <2>2, <2>3, <2>4 DEF OwnInv, Holding
    <2>6. New(c)' /\ \A d \in Clients : Ordered(d)' = Ordered(d) /\ New(d)' = New(d)
                                        /\ Arrived(d)' = Arrived(d)
      <3>1. New(c)
        BY <1>2, <2>1 DEF IInv, StreamInv
      <3> QED BY <1>2, <3>1 DEF Ordered, New, Arrived
    <2>7. StreamInv'
      <3>1. \A d \in Clients :
            /\ Ordered(d)'
            /\ conn'[d] = "away" \/ d \in backlog' => New(d)'
            /\ d \in shut' => conn'[d] = "killed" \/ Arrived(d)' = Blocks
            /\ conn'[d] = "done" => Len(stream'[d]) = 0 /\ (alive' => d \in shut')
        BY <1>2, <2>1, <2>6 DEF IInv, StreamInv
      <3>2. \A t \in Threads : pc[t] \in Active => files[sock[t]] \in Clients
        BY <1>2, <2>3
      <3>3. \A t \in Threads :
            /\ pc[t] \in {"send", "shutdown"} =>
                /\ files'[sock[t]] \notin shut'
                /\ \/ conn'[files'[sock[t]]] = "killed"
                   \/ Arrived(files[sock[t]])' = sent[t]
            /\ pc[t] \in {"remove", "close"} => files'[sock[t]] \in shut'
        <4> SUFFICES ASSUME NEW t \in Threads, pc[t] \in Active
                     PROVE  /\ pc[t] \in {"send", "shutdown"} =>
                                 /\ files'[sock[t]] \notin shut'
                                 /\ \/ conn'[files'[sock[t]]] = "killed"
                                    \/ Arrived(files[sock[t]])' = sent[t]
                            /\ pc[t] \in {"remove", "close"} => files'[sock[t]] \in shut'
          BY DEF Active
        <4>1. files'[sock[t]] = files[sock[t]] /\ files[sock[t]] \in Clients
          BY <2>4, <3>2
        <4>2. Arrived(files[sock[t]])' = Arrived(files[sock[t]])
          BY <1>2, <4>1 DEF Arrived
        <4> QED BY <1>2, <2>1, <4>1, <4>2 DEF IInv, StreamInv
      <3>4. New(files[clnt_sock])'
        BY <1>2, <1>3, <2>6 DEF New, Arrived
      <3> QED BY <1>2, <3>1, <3>3, <3>4 DEF StreamInv
    <2> QED BY <2>5, <2>7
  <1> QED BY <1>4, <1>5, <1>6, <1>7 DEF IInv

\* main goes on and leaves everything else as it is.
LEMMA MainFrame ==
    ASSUME IInv,
           UNCHANGED <<server, alive, clnt_sock, threads, client, files, backlog, stream,
                       shut, overtaken>>,
           \/ main_pc' = main_pc
           \/ main_pc = "save" /\ main_pc' = "create"
           \/ /\ main_pc = "join" /\ main_pc' = "accept"
              /\ \A t \in Threads : pc[t] \in {"none", "done"}
    PROVE  IInv'
  <1> USE DEF threads, client
  <1>1. main_pc' \in {"save", "create"} <=> main_pc \in {"save", "create"}
    OBVIOUS
  <1>2. Types'
    BY DEF IInv, Types
  <1>3. AcceptedInv'
    BY <1>1, AcceptedFrame
  <1>4. SentInv'
    BY DEF IInv, SentInv
  <1>5. Holding' <=> Holding
    BY <1>1 DEF Holding
  <1>6. OwnInv'
    BY <1>5 DEF IInv, OwnInv
  <1>7. StreamInv'
    BY <1>5 DEF IInv, StreamInv, Ordered, New, Arrived
  <1> QED BY <1>2, <1>3, <1>4, <1>6, <1>7 DEF IInv

LEMMA SaveInv == ASSUME IInv, SaveClient PROVE IInv'
  BY MainFrame DEF SaveClient, net

LEMMA JoinInv == ASSUME IInv, Join PROVE IInv'
  BY MainFrame DEF Join, net

LEMMA ReadMessageInv ==
    ASSUME IInv, NEW c \in Clients, ReadMessage(c) PROVE IInv'
  BY MainFrame DEF ReadMessage, main

LEMMA CreateInv == ASSUME IInv, CreateThread PROVE IInv'
  <1> DEFINE free == {u \in Threads : pc[u] = "none"}
  <1>1. PICK t : t = Min(free)
    OBVIOUS
  <1>2. t \in Threads /\ pc[t] = "none"
    <2>1. /\ free # {} /\ free \in SUBSET (0 .. Cardinality(Clients))
          /\ Cardinality(Clients) \in Nat
      BY FreeThread, Counts DEF CreateThread, Threads
    <2>2. Min(free) \in free
      <3> HIDE DEF free
      <3> QED BY <2>1, MinOfInterval
    <2> QED BY <1>1, <2>2
  <1>3. /\ pc' = [pc EXCEPT ![t] = "start"]
        /\ main_pc = "create"
        /\ main_pc' = IF server = "select" THEN "join" ELSE "accept"
        /\ UNCHANGED <<server, alive, clnt_sock, files, backlog, sock, sent, conn, received,
                       stream, shut, overtaken>>
    BY <1>1 DEF CreateThread, client, net
  <1>4. /\ pc'[t] = "start" /\ \A u \in Threads \ {t} : pc'[u] = pc[u]
        /\ pc' \in [Threads -> Phases]
    BY <1>2, <1>3 DEF IInv, Types, Phases
  <1>5. Types'
    BY <1>3, <1>4 DEF IInv, Types
  <1>6. AcceptedInv'
    <2>1. /\ Created' = Created \cup {t} /\ t \notin Created /\ Accepted' = Accepted
          /\ Created \in SUBSET Threads
      BY <1>2, <1>3, <1>4 DEF Created, Accepted
    <2>2. Cardinality(Created') = Cardinality(Created) + 1 /\ Cardinality(Created) \in Nat
      BY <1>2, <2>1, CountThreads, ThreadSets
    <2> QED BY <1>3, <2>1, <2>2 DEF IInv, AcceptedInv
  <1>7. SentInv'
    BY <1>2, <1>3, <1>4 DEF IInv, SentInv
  <1>8. OwnInv' /\ StreamInv'
    <2> SUFFICES ASSUME ~overtaken
                 PROVE  OwnInv' /\ StreamInv'
      BY <1>3 DEF OwnInv, StreamInv
    <2>1. Holding /\ \A u \in Threads : pc[u] # "start"
      BY <1>3 DEF Holding, IInv, OwnInv
    <2>2. \A u \in Threads : pc'[u] \in Active => pc[u] \in Active /\ pc'[u] = pc[u]
      BY <1>4 DEF Active
    <2>3. OwnInv'
      BY <1>2, <1>3, <1>4, <2>1, <2>2 DEF IInv, OwnInv
    <2>4. \A u \in Threads : pc'[u] \in {"send", "shutdown", "remove", "close"}
            => pc[u] = pc'[u]
      BY <1>4
    <2>5. StreamInv'
      BY <1>3, <2>1, <2>4 DEF IInv, StreamInv, Ordered, New, Arrived
    <2> QED BY <2>3, <2>5
  <1> QED BY <1>5, <1>6, <1>7, <1>8 DEF IInv

\* The select loop closes a descriptor while no thread runs.
LEMMA CloseClientInv ==
    ASSUME IInv, NEW d \in Descriptors, CloseClient(d) PROVE IInv'
  <1>1. /\ server = "select" /\ main_pc = "accept"
        /\ files' = [files EXCEPT ![d] = Nobody]
        /\ UNCHANGED <<server, alive, main_pc, clnt_sock, backlog, pc, sock, sent, conn,
                       received, stream, shut, overtaken>>
    BY DEF CloseClient, main, threads, client
  <1>2. /\ \A t \in Threads : pc[t] \in {"none", "done"}
        /\ ~Holding /\ ~Holding'
    BY <1>1 DEF IInv, SentInv, Holding
  <1>3. Types'
    BY <1>1 DEF IInv, Types
  <1>4. \A e \in Descriptors : files'[e] \in {files[e], Nobody}
    BY <1>1 DEF IInv, Types
  <1>5. AcceptedInv'
    BY <1>1, <1>4, AcceptedFrame
  <1>6. SentInv'
    BY <1>1 DEF IInv, SentInv
  <1>7. OwnInv'
    BY <1>1, <1>2 DEF IInv, OwnInv, Active
  <1>8. StreamInv'
    BY <1>1, <1>2 DEF IInv, StreamInv, Ordered, New, Arrived
  <1> QED BY <1>3, <1>5, <1>6, <1>7, <1>8 DEF IInv

-----------------------------------------------------------------------------
(* The threads. *)

LEMMA StartInv == ASSUME IInv, NEW t \in Threads, Start(t) PROVE IInv'
  <1>1. /\ pc[t] = "start"
        /\ sock' = [sock EXCEPT ![t] = clnt_sock]
        /\ pc' = [pc EXCEPT ![t] = "send"]
        /\ UNCHANGED <<server, alive, main_pc, clnt_sock, files, backlog, sent, conn,
                       received, stream, shut, overtaken>>
    BY DEF Start, main, client, net
  <1>2. /\ pc'[t] = "send" /\ sock'[t] = clnt_sock
        /\ \A u \in Threads \ {t} : pc'[u] = pc[u] /\ sock'[u] = sock[u]
        /\ pc' \in [Threads -> Phases]
        /\ sock' \in [Threads -> Descriptors \cup {0}]
    BY <1>1 DEF IInv, Types, Phases
  <1>3. Types'
    BY <1>1, <1>2 DEF IInv, Types
  <1>4. AcceptedInv'
    <2>1. \A u \in Threads : pc'[u] = "none" <=> pc[u] = "none"
      BY <1>1, <1>2
    <2> QED BY <1>1, <2>1, AcceptedFrame
  <1>5. SentInv'
    <2>1. sent[t] = 0 /\ 0 < Blocks
      BY <1>1, FileServersAssumption DEF IInv, SentInv
    <2>2. ~(server = "select" /\ main_pc # "join")
      BY <1>1 DEF IInv, SentInv
    <2> QED BY <1>1, <1>2, <2>1, <2>2 DEF IInv, SentInv
  <1>6. OwnInv' /\ StreamInv'
    <2> SUFFICES ASSUME ~overtaken
                 PROVE  OwnInv' /\ StreamInv'
      BY <1>1 DEF OwnInv, StreamInv
    <2>1. /\ Holding /\ main_pc \in {"accept", "join"}
          /\ \A u \in Threads : pc[u] = "start" => u = t
          /\ clnt_sock \in Descriptors /\ files[clnt_sock] # Nobody
      BY <1>1 DEF Holding, IInv, OwnInv
    <2>2. ~Holding' /\ \A u \in Threads : pc'[u] # "start"
      BY <1>1, <1>2, <2>1 DEF Holding
    <2>3. \A u \in Threads \ {t} : pc'[u] \in Active =>
            /\ pc[u] \in Active /\ sock[u] \in Descriptors /\ files[sock[u]] # Nobody
            /\ sock[u] # clnt_sock
            /\ \A v \in Threads : pc[v] \in Active /\ v # u => sock[u] # sock[v]
      BY <1>2, <2>1 DEF IInv, OwnInv
    <2>4. OwnInv'
      <3> SUFFICES ASSUME NEW u \in Threads, pc'[u] \in Active
                   PROVE  /\ sock'[u] \in Descriptors /\ files[sock'[u]] # Nobody
                          /\ \A v \in Threads : pc'[v] \in Active /\ v # u
                                => sock'[u] # sock'[v]
        BY <1>1, <2>2 DEF OwnInv
      <3>1. CASE u = t
        BY <1>2, <2>1, <2>3, <3>1
      <3>2. CASE u # t
        BY <1>2, <2>1, <2>3, <3>2
      <3> QED BY <3>1, <3>2
    <2>5. New(files[clnt_sock]) /\ sent[t] = 0
      BY <1>1, <2>1 DEF IInv, StreamInv, SentInv
    <2>6. StreamInv'
      <3>1. \A c \in Clients :
            /\ Ordered(c)'
            /\ conn[c] = "away" \/ c \in backlog => New(c)'
            /\ c \in shut => conn[c] = "killed" \/ Arrived(c)' = Blocks
            /\ conn[c] = "done" => Len(stream[c]) = 0 /\ (alive' => c \in shut)
        BY <1>1 DEF IInv, StreamInv, Ordered, New, Arrived
      <3>2. \A u \in Threads :
            /\ pc'[u] \in {"send", "shutdown"} =>
                /\ files[sock'[u]] \notin shut
                /\ \/ conn[files[sock'[u]]] = "killed"
                   \/ Arrived(files[sock[u]])' = sent[u]
            /\ pc'[u] \in {"remove", "close"} => files[sock'[u]] \in shut
        <4> SUFFICES ASSUME NEW u \in Threads
                     PROVE  /\ pc'[u] \in {"send", "shutdown"} =>
                                /\ files[sock'[u]] \notin shut
                                /\ \/ conn[files[sock'[u]]] = "killed"
                                   \/ Arrived(files[sock[u]])' = sent[u]
                            /\ pc'[u] \in {"remove", "close"} => files[sock'[u]] \in shut
          OBVIOUS
        <4>1. CASE u = t
          BY <1>1, <1>2, <2>5, <4>1 DEF New, Arrived
        <4>2. CASE u # t
          BY <1>1, <1>2, <4>2 DEF IInv, StreamInv, Arrived
        <4> QED BY <4>1, <4>2
      <3> QED BY <1>1, <2>2, <3>1, <3>2 DEF StreamInv
    <2> QED BY <2>4, <2>6
  <1> QED BY <1>3, <1>4, <1>5, <1>6 DEF IInv

\* A thread that has its descriptor goes on.
LEMMA ThreadFrame ==
    ASSUME IInv, NEW t \in Threads, NEW x \in Active \cup {"done"},
           pc[t] \in Active, pc' = [pc EXCEPT ![t] = x],
           UNCHANGED <<server, main_pc, clnt_sock, files, backlog, sock, conn,
                       overtaken>>
    PROVE  /\ AcceptedInv' /\ OwnInv'
           /\ Holding' <=> Holding
           /\ pc' \in [Threads -> Phases]
           /\ pc'[t] = x /\ \A u \in Threads \ {t} : pc'[u] = pc[u]
           /\ server = "select" => main_pc = "join"
  <1>1. /\ pc'[t] = x /\ \A u \in Threads \ {t} : pc'[u] = pc[u]
        /\ pc' \in [Threads -> Phases]
    BY DEF IInv, Types, Phases, Active
  <1>2. AcceptedInv'
    <2>1. \A u \in Threads : pc'[u] = "none" <=> pc[u] = "none"
      BY <1>1 DEF Active
    <2> QED BY <2>1, AcceptedFrame
  <1>3. /\ \A u \in Threads : pc'[u] = "start" <=> pc[u] = "start"
        /\ \A u \in Threads : pc'[u] \in Active => pc[u] \in Active
    BY <1>1 DEF Active
  <1>4. Holding' <=> Holding
    BY <1>3 DEF Holding
  <1>5. OwnInv'
    BY <1>3, <1>4 DEF IInv, OwnInv
  <1>6. server = "select" => main_pc = "join"
    BY DEF IInv, SentInv, Active
  <1> QED BY <1>1, <1>2, <1>4, <1>5, <1>6

\* Whose stream a thread writes to, and that nobody else does.
LEMMA OwnClient ==
    ASSUME IInv, ~overtaken, NEW t \in Threads, pc[t] \in Active
    PROVE  /\ sock[t] \in Descriptors
           /\ files[sock[t]] \in Clients /\ files[sock[t]] # Nobody
           /\ conn[files[sock[t]]] # "away" /\ files[sock[t]] \notin backlog
           /\ Holding => /\ sock[t] # clnt_sock
                         /\ files[clnt_sock] \in Clients
                         /\ files[clnt_sock] # files[sock[t]]
           /\ \A u \in Threads : pc[u] \in Active /\ u # t =>
                /\ sock[u] # sock[t]
                /\ files[sock[u]] \in Clients
                /\ files[sock[u]] # files[sock[t]]
  <1>1. /\ sock[t] \in Descriptors /\ files[sock[t]] # Nobody
        /\ Holding => /\ clnt_sock \in Descriptors /\ files[clnt_sock] # Nobody
                      /\ sock[t] # clnt_sock
        /\ \A u \in Threads : pc[u] \in Active =>
            /\ sock[u] \in Descriptors /\ files[sock[u]] # Nobody
            /\ u # t => sock[t] # sock[u]
    BY DEF IInv, OwnInv
  <1>2. \A d \in Descriptors : files[d] # Nobody =>
            /\ files[d] \in Clients /\ conn[files[d]] # "away" /\ files[d] \notin backlog
            /\ \A e \in Descriptors : files[e] = files[d] => e = d
    BY DEF IInv, AcceptedInv, Accepted
  <1> QED BY <1>1, <1>2

\* Appending a number to a stream of numbers.
LEMMA AppendBlock ==
    ASSUME NEW s \in Seq(Nat), NEW k \in Nat
    PROVE  /\ Append(s, k) \in Seq(Nat)
           /\ Len(s) \in Nat
           /\ Len(Append(s, k)) = Len(s) + 1
           /\ \A i \in 1 .. Len(s) : Append(s, k)[i] = s[i]
           /\ Append(s, k)[Len(s) + 1] = k
  OBVIOUS

\* A block more for client c: everything else stays.
LEMMA SendBlockInv ==
    ASSUME IInv, NEW t \in Threads, SendBlock(t) PROVE IInv'
  <1>1. /\ pc[t] = "send"
        /\ sent' = [sent EXCEPT ![t] = sent[t] + 1]
        /\ pc' = [pc EXCEPT ![t] = IF LastBlock(t) THEN "shutdown" ELSE "send"]
        /\ alive
        /\ UNCHANGED <<server, main_pc, clnt_sock, files, backlog, sock, conn,
                       received, shut, overtaken>>
    BY DEF SendBlock, main, client
  <1>2. /\ sent[t] \in Nat /\ sent[t] < Blocks /\ Blocks \in Nat
        /\ sent'[t] = sent[t] + 1
        /\ \A u \in Threads \ {t} : sent'[u] = sent[u]
        /\ sent' \in [Threads -> Nat]
    BY <1>1, FileServersAssumption DEF IInv, Types, SentInv
  <1>3. PICK x : x = IF LastBlock(t) THEN "shutdown" ELSE "send"
    OBVIOUS
  <1>4. /\ x \in {"send", "shutdown"}
        /\ x = "send" => sent'[t] < Blocks
        /\ x = "shutdown" => sent'[t] = Blocks
    BY <1>2, <1>3 DEF LastBlock
  <1>5. /\ AcceptedInv' /\ OwnInv' /\ (Holding' <=> Holding)
        /\ pc' \in [Threads -> Phases]
        /\ pc'[t] = x /\ \A u \in Threads \ {t} : pc'[u] = pc[u]
        /\ server = "select" => main_pc = "join"
    BY <1>1, <1>3, <1>4, ThreadFrame DEF Active
  <1>6. \/ stream' = stream
        \/ /\ files[sock[t]] # Nobody /\ conn[files[sock[t]]] # "killed"
           /\ stream' = [stream EXCEPT ![files[sock[t]]] = Append(@, sent[t] + 1)]
    BY DEF SendBlock
  <1>7. stream' \in [Clients -> Seq(Nat)]
    <2>1. stream \in [Clients -> Seq(Nat)] /\ sent[t] + 1 \in Nat
      BY <1>2 DEF IInv, Types
    <2>2. CASE stream' = stream
      BY <2>1, <2>2
    <2>3. CASE stream' = [stream EXCEPT ![files[sock[t]]] = Append(@, sent[t] + 1)]
      <3>1. \A c \in Clients : Append(stream[c], sent[t] + 1) \in Seq(Nat)
        BY <2>1, AppendBlock
      <3> QED BY <2>1, <2>3, <3>1
    <2> QED BY <1>6, <2>2, <2>3
  <1>8. Types'
    BY <1>1, <1>2, <1>5, <1>7 DEF IInv, Types
  <1>9. SentInv'
    BY <1>1, <1>2, <1>4, <1>5 DEF IInv, SentInv
  <1>10. StreamInv'
    <2> SUFFICES ASSUME ~overtaken
                 PROVE  StreamInv'
      BY <1>1 DEF StreamInv
    <2>1. PICK c : c = files[sock[t]]
      OBVIOUS
    <2>2. /\ c \in Clients /\ c # Nobody /\ conn[c] # "away" /\ c \notin backlog
          /\ c \notin shut
          /\ conn[c] = "killed" \/ Arrived(c) = sent[t]
          /\ Holding => files[clnt_sock] # c /\ files[clnt_sock] \in Clients
          /\ \A u \in Threads : pc[u] \in Active /\ u # t =>
                files[sock[u]] # c /\ files[sock[u]] \in Clients
      BY <1>1, <2>1, OwnClient DEF IInv, StreamInv, Active
    <2>3. conn[c] # "done"
      BY <1>1, <2>2 DEF IInv, StreamInv
    <2>4. \A d \in Clients \ {c} : stream'[d] = stream[d]
      BY <1>6, <2>1 DEF IInv, Types
    <2>5. \A d \in Clients \ {c} : /\ Arrived(d)' = Arrived(d)
                                   /\ Ordered(d)' = Ordered(d)
                                   /\ New(d)' = New(d)
      BY <1>1, <2>4 DEF Arrived, Ordered, New
    <2>6. Ordered(c)' /\ (conn[c] = "killed" \/ Arrived(c)' = sent'[t])
      <3>1. Ordered(c) /\ received[c] \in Seq(Nat) /\ stream[c] \in Seq(Nat)
            /\ received'[c] = received[c]
        BY <1>1, <2>2 DEF IInv, StreamInv, Types
      <3>2. CASE conn[c] = "killed"
        <4>1. stream' = stream
          BY <1>6, <2>1, <3>2
        <4>2. Ordered(c)'
          BY <3>1, <4>1 DEF Ordered, Arrived
        <4> QED BY <3>2, <4>2
      <3>3. conn[c] # "killed" =>
              stream' = [stream EXCEPT ![c] = Append(@, sent[t] + 1)]
        BY <2>1, <2>2 DEF SendBlock
      <3>4. CASE conn[c] # "killed"
        <4>1. stream'[c] = Append(stream[c], sent[t] + 1)
          BY <2>2, <3>3, <3>4 DEF IInv, Types
        <4>2. /\ stream'[c] \in Seq(Nat) /\ Len(stream[c]) \in Nat
              /\ Len(stream'[c]) = Len(stream[c]) + 1
              /\ \A i \in 1 .. Len(stream[c]) : stream'[c][i] = stream[c][i]
              /\ stream'[c][Len(stream[c]) + 1] = sent[t] + 1
          BY <1>2, <3>1, <4>1, AppendBlock
        <4>3. Len(received[c]) \in Nat /\ Len(received[c]) + Len(stream[c]) = sent[t]
          <5>1. Len(received[c]) \in Nat
            BY <3>1
          <5>2. Arrived(c) = sent[t]
            BY <2>2, <3>4
          <5> QED BY <5>1, <5>2 DEF Arrived
        <4>4. Arrived(c)' = sent'[t] /\ Arrived(c)' <= Blocks
          <5>1. PICK a \in Nat : a = Len(received[c])
            BY <4>3
          <5>2. PICK b \in Nat : b = Len(stream[c])
            BY <4>2
          <5>3. a + b = sent[t] /\ Arrived(c)' = a + (b + 1)
            BY <3>1, <4>2, <4>3, <5>1, <5>2 DEF Arrived
          <5>4. a + (b + 1) = (a + b) + 1
            OBVIOUS
          <5> QED BY <1>2, <5>3, <5>4
        <4>5. \A i \in 1 .. Len(stream'[c]) : stream'[c][i] = Len(received[c]) + i
          <5> SUFFICES ASSUME NEW i \in 1 .. (Len(stream[c]) + 1)
                       PROVE  stream'[c][i] = Len(received[c]) + i
            BY <4>2
          <5>1. CASE i = Len(stream[c]) + 1
            <6>1. PICK a \in Nat : a = Len(received[c])
              BY <4>3
            <6>2. PICK b \in Nat : b = Len(stream[c])
              BY <4>2
            <6>3. (a + b) + 1 = a + (b + 1)
              OBVIOUS
            <6> QED BY <4>2, <4>3, <5>1, <6>1, <6>2, <6>3
          <5>2. CASE i # Len(stream[c]) + 1
            <6>1. i \in 1 .. Len(stream[c])
              BY <4>2, <5>2
            <6> QED BY <3>1, <4>2, <6>1 DEF Ordered
          <5> QED BY <5>1, <5>2
        <4> QED BY <3>1, <4>4, <4>5 DEF Ordered
      <3> QED BY <3>2, <3>4
    <2>7. \A d \in Clients :
            /\ Ordered(d)'
            /\ conn[d] = "away" \/ d \in backlog => New(d)'
            /\ d \in shut => conn[d] = "killed" \/ Arrived(d)' = Blocks
            /\ conn[d] = "done" => Len(stream'[d]) = 0 /\ (alive' => d \in shut)
      BY <1>1, <2>2, <2>3, <2>4, <2>5, <2>6 DEF IInv, StreamInv
    <2>8. Holding => New(files[clnt_sock])'
      <3> SUFFICES ASSUME Holding PROVE New(files[clnt_sock])'
        OBVIOUS
      <3>1. New(files[clnt_sock]) /\ files[clnt_sock] \in Clients \ {c}
        BY <2>2 DEF IInv, StreamInv
      <3> QED BY <1>1, <2>4, <3>1 DEF New, Arrived
    <2>9. ASSUME NEW u \in Threads
          PROVE  /\ pc'[u] \in {"send", "shutdown"} =>
                     /\ files[sock[u]] \notin shut
                     /\ \/ conn[files[sock[u]]] = "killed"
                        \/ Arrived(files[sock[u]])' = sent'[u]
                 /\ pc'[u] \in {"remove", "close"} => files[sock[u]] \in shut
      <3>1. CASE u = t
        <4>1. Arrived(files[sock[u]])' = Arrived(c)'
          BY <1>1, <2>1, <3>1 DEF Arrived
        <4> QED BY <1>4, <1>5, <2>1, <2>2, <2>6, <3>1, <4>1
      <3>2. CASE u # t /\ pc[u] \in Active
        <4>1. files[sock[u]] \in Clients \ {c}
          BY <2>2, <3>2
        <4>2. Arrived(files[sock[u]])' = Arrived(files[sock[u]])
          BY <1>1, <2>4, <4>1 DEF Arrived
        <4> QED BY <1>2, <1>5, <3>2, <4>2 DEF IInv, StreamInv
      <3>3. CASE u # t /\ pc[u] \notin Active
        BY <1>5, <3>3 DEF Active
      <3> QED BY <3>1, <3>2, <3>3
    <2> QED BY <1>1, <1>5, <2>7, <2>8, <2>9 DEF StreamInv
  <1> QED BY <1>5, <1>8, <1>9, <1>10 DEF IInv

\* The stream is ended when all blocks are in it.
LEMMA ShutdownInv == ASSUME IInv, NEW t \in Threads, Shutdown(t) PROVE IInv'
  <1>1. PICK x : x = IF server = "select" THEN "done" ELSE "remove"
    OBVIOUS
  <1>2. /\ pc[t] = "shutdown" /\ pc' = [pc EXCEPT ![t] = x]
        /\ shut' = shut \cup ({files[sock[t]]} \ {Nobody})
        /\ UNCHANGED <<server, alive, main_pc, clnt_sock, files, backlog, sock, sent, conn,
                       received, stream, overtaken>>
    BY <1>1 DEF Shutdown, Ended, main, client
  <1>3. /\ AcceptedInv' /\ OwnInv' /\ (Holding' <=> Holding)
        /\ pc' \in [Threads -> Phases]
        /\ pc'[t] = x /\ \A u \in Threads \ {t} : pc'[u] = pc[u]
        /\ server = "select" => main_pc = "join"
    BY <1>1, <1>2, ThreadFrame DEF Active
  <1>4. Types'
    BY <1>2, <1>3 DEF IInv, Types
  <1>5. SentInv'
    BY <1>1, <1>2, <1>3 DEF IInv, SentInv
  <1>6. StreamInv'
    <2> SUFFICES ASSUME ~overtaken
                 PROVE  StreamInv'
      BY <1>2 DEF StreamInv
    <2>1. PICK c : c = files[sock[t]]
      OBVIOUS
    <2>2. /\ c \in Clients /\ c # Nobody /\ conn[c] # "away" /\ c \notin backlog
          /\ conn[c] = "killed" \/ Arrived(c) = Blocks
          /\ Holding => files[clnt_sock] # c
          /\ \A u \in Threads : pc[u] \in Active /\ u # t => files[sock[u]] # c
          /\ shut' = shut \cup {c}
      BY <1>2, <2>1, OwnClient DEF IInv, StreamInv, SentInv, Active
    <2>3. \A d \in Clients : /\ Arrived(d)' = Arrived(d)
                             /\ Ordered(d)' = Ordered(d)
                             /\ d # c => New(d)' = New(d)
      BY <1>2, <2>2 DEF Arrived, Ordered, New
    <2>4. \A d \in Clients :
            /\ Ordered(d)'
            /\ conn[d] = "away" \/ d \in backlog => New(d)'
            /\ d \in shut' => conn[d] = "killed" \/ Arrived(d)' = Blocks
            /\ conn[d] = "done" => Len(stream[d]) = 0 /\ (alive' => d \in shut')
      BY <1>2, <2>2, <2>3 DEF IInv, StreamInv
    <2>5. Holding => New(files[clnt_sock])'
      BY <1>2, <2>2 DEF IInv, StreamInv, New, Arrived
    <2>6. ASSUME NEW u \in Threads
          PROVE  /\ pc'[u] \in {"send", "shutdown"} =>
                     /\ files[sock[u]] \notin shut'
                     /\ \/ conn[files[sock[u]]] = "killed"
                        \/ Arrived(files[sock[u]])' = sent[u]
                 /\ pc'[u] \in {"remove", "close"} => files[sock[u]] \in shut'
      <3>1. CASE u = t
        BY <1>1, <1>3, <2>1, <2>2, <3>1
      <3>2. CASE u # t /\ pc[u] \in Active
        <4>1. Arrived(files[sock[u]])' = Arrived(files[sock[u]])
          BY <1>2 DEF Arrived
        <4> QED BY <1>3, <2>2, <3>2, <4>1 DEF IInv, StreamInv
      <3>3. CASE u # t /\ pc[u] \notin Active
        BY <1>3, <3>3 DEF Active
      <3> QED BY <3>1, <3>2, <3>3
    <2> QED BY <1>2, <1>3, <2>4, <2>5, <2>6 DEF StreamInv
  <1> QED BY <1>3, <1>4, <1>5, <1>6 DEF IInv

LEMMA RemoveInv == ASSUME IInv, NEW t \in Threads, RemoveClient(t) PROVE IInv'
  <1>1. /\ pc[t] = "remove" /\ pc' = [pc EXCEPT ![t] = "close"]
        /\ UNCHANGED <<server, alive, main_pc, clnt_sock, files, backlog, sock, sent, conn,
                       received, stream, shut, overtaken>>
    BY DEF RemoveClient, client, net
  <1>2. /\ AcceptedInv' /\ OwnInv' /\ (Holding' <=> Holding)
        /\ pc' \in [Threads -> Phases]
        /\ pc'[t] = "close" /\ \A u \in Threads \ {t} : pc'[u] = pc[u]
        /\ server = "select" => main_pc = "join"
    BY <1>1, ThreadFrame DEF Active
  <1>3. Types' /\ SentInv'
    BY <1>1, <1>2 DEF IInv, Types, SentInv
  <1>4. StreamInv'
    BY <1>1, <1>2 DEF IInv, StreamInv, Ordered, New, Arrived
  <1> QED BY <1>2, <1>3, <1>4 DEF IInv

\* A descriptor is closed by the last thread that uses it.
LEMMA CloseInv == ASSUME IInv, NEW t \in Threads, Close(t) PROVE IInv'
  <1>1. /\ pc[t] = "close" /\ pc' = [pc EXCEPT ![t] = "done"]
        /\ shut' = shut \cup ({files[sock[t]]} \ {Nobody})
        /\ files' = [files EXCEPT ![sock[t]] = Nobody]
        /\ UNCHANGED <<server, alive, main_pc, clnt_sock, backlog, sock, sent, conn,
                       received, stream, overtaken>>
    BY DEF Close, main, client
  <1>2. /\ pc'[t] = "done" /\ \A u \in Threads \ {t} : pc'[u] = pc[u]
        /\ pc' \in [Threads -> Phases]
        /\ files' \in [Descriptors -> Clients \cup {Nobody}]
        /\ \A d \in Descriptors : files'[d] \in {files[d], Nobody}
        /\ \A d \in Descriptors : d # sock[t] => files'[d] = files[d]
    BY <1>1 DEF IInv, Types, Phases
  <1>3. Types'
    BY <1>1, <1>2 DEF IInv, Types
  <1>4. AcceptedInv'
    <2>1. \A u \in Threads : pc'[u] = "none" <=> pc[u] = "none"
      BY <1>1, <1>2
    <2> QED BY <1>1, <1>2, <2>1, AcceptedFrame
  <1>5. SentInv'
    BY <1>1, <1>2 DEF IInv, SentInv
  <1>6. OwnInv' /\ StreamInv'
    <2> SUFFICES ASSUME ~overtaken
                 PROVE  OwnInv' /\ StreamInv'
      BY <1>1 DEF OwnInv, StreamInv
    <2>1. /\ sock[t] \in Descriptors
          /\ Holding => sock[t] # clnt_sock /\ files[clnt_sock] # files[sock[t]]
          /\ \A u \in Threads : pc[u] \in Active /\ u # t => sock[u] # sock[t]
      BY <1>1, OwnClient DEF Active
    <2>2. \A u \in Threads : /\ pc'[u] \in Active => pc[u] \in Active /\ u # t
                             /\ pc'[u] = "start" <=> pc[u] = "start"
      BY <1>1, <1>2 DEF Active
    <2>3. Holding' <=> Holding
      BY <1>1, <2>2 DEF Holding
    <2>4. \A u \in Threads : pc'[u] \in Active =>
            sock[u] \in Descriptors /\ files'[sock[u]] = files[sock[u]]
      BY <1>2, <2>1, <2>2 DEF IInv, OwnInv
    <2>5. Holding => clnt_sock \in Descriptors /\ files'[clnt_sock] = files[clnt_sock]
      BY <1>2, <2>1 DEF IInv, OwnInv
    <2>6. OwnInv'
      BY <1>1, <2>2, <2>3, <2>4, <2>5 DEF IInv, OwnInv
    <2>7. shut' = shut
      BY <1>1 DEF IInv, StreamInv
    <2>8. \A c \in Clients : /\ Arrived(c)' = Arrived(c)
                             /\ Ordered(c)' = Ordered(c)
                             /\ New(c)' = New(c)
      BY <1>1, <2>7 DEF Arrived, Ordered, New
    <2>9. Holding => New(files[clnt_sock])'
      BY <1>1, <2>5, <2>7 DEF IInv, StreamInv, New, Arrived
    <2>10. ASSUME NEW u \in Threads
           PROVE  /\ pc'[u] \in {"send", "shutdown"} =>
                      /\ files'[sock[u]] \notin shut
                      /\ \/ conn[files'[sock[u]]] = "killed"
                         \/ Arrived(files[sock[u]])' = sent[u]
                  /\ pc'[u] \in {"remove", "close"} => files'[sock[u]] \in shut
      <3>1. CASE pc'[u] \in Active
        <4>1. files'[sock[u]] = files[sock[u]] /\ pc'[u] = pc[u]
          BY <1>2, <2>2, <2>4, <3>1
        <4>2. Arrived(files[sock[u]])' = Arrived(files[sock[u]])
          BY <1>1, <4>1 DEF Arrived
        <4> QED BY <4>1, <4>2 DEF IInv, StreamInv
      <3>2. CASE pc'[u] \notin Active
        BY <3>2 DEF Active
      <3> QED BY <3>1, <3>2
    <2>11. StreamInv'
      BY <1>1, <2>3, <2>7, <2>8, <2>9, <2>10 DEF IInv, StreamInv
    <2> QED BY <2>6, <2>11
  <1> QED BY <1>3, <1>4, <1>5, <1>6 DEF IInv

-----------------------------------------------------------------------------
(* The clients. *)

LEMMA ConnectInv == ASSUME IInv, NEW c \in Clients, Connect(c) PROVE IInv'
  <1>1. /\ conn[c] = "away" /\ conn' = [conn EXCEPT ![c] = "reading"]
        /\ backlog' = backlog \cup {c}
        /\ UNCHANGED <<server, alive, main_pc, clnt_sock, files, pc, sock, sent, received,
                       stream, shut, overtaken>>
    BY DEF Connect, main, threads
  <1>2. /\ conn'[c] = "reading" /\ \A d \in Clients \ {c} : conn'[d] = conn[d]
        /\ conn' \in [Clients -> {"away", "reading", "done", "killed"}]
    BY <1>1 DEF IInv, Types
  <1>3. Types'
    BY <1>1, <1>2 DEF IInv, Types
  <1>4. AcceptedInv'
    <2>1. Accepted' = Accepted /\ Created' = Created
      BY <1>1, <1>2 DEF Accepted, Created
    <2>2. \A d \in backlog' : conn'[d] # "away"
      BY <1>1, <1>2 DEF IInv, AcceptedInv, Types
    <2> QED BY <1>1, <2>1, <2>2 DEF IInv, AcceptedInv
  <1>5. SentInv' /\ OwnInv'
    BY <1>1 DEF IInv, SentInv, OwnInv, Holding
  <1>6. StreamInv'
    <2> SUFFICES ASSUME ~overtaken
                 PROVE  StreamInv'
      BY <1>1 DEF StreamInv
    <2>1. \A d \in Clients : /\ Arrived(d)' = Arrived(d)
                             /\ Ordered(d)' = Ordered(d)
                             /\ New(d)' = New(d)
      BY <1>1 DEF Arrived, Ordered, New
    <2>2. New(c)
      BY <1>1 DEF IInv, StreamInv
    <2>3. \A d \in Clients :
            /\ Ordered(d)'
            /\ conn'[d] = "away" \/ d \in backlog' => New(d)'
            /\ d \in shut => conn'[d] = "killed" \/ Arrived(d)' = Blocks
            /\ conn'[d] = "done" => Len(stream[d]) = 0 /\ (alive' => d \in shut)
      BY <1>1, <1>2, <2>1, <2>2 DEF IInv, StreamInv, New
    <2>4. ASSUME NEW t \in Threads, pc[t] \in Active
          PROVE  conn'[files[sock[t]]] = conn[files[sock[t]]]
      <3>1. files[sock[t]] \in Clients \ {c}
        BY <1>1, <2>4, OwnClient
      <3> QED BY <1>2, <3>1
    <2>5. Holding' <=> Holding
      BY <1>1 DEF Holding
    <2>6. Holding => New(files[clnt_sock])'
      BY <1>1 DEF IInv, StreamInv, New, Arrived
    <2>7. \A t \in Threads :
            /\ pc[t] \in {"send", "shutdown"} =>
                /\ files[sock[t]] \notin shut
                /\ \/ conn'[files[sock[t]]] = "killed"
                   \/ Arrived(files[sock[t]])' = sent[t]
            /\ pc[t] \in {"remove", "close"} => files[sock[t]] \in shut
      <3>1. \A t \in Threads : Arrived(files[sock[t]])' = Arrived(files[sock[t]])
        BY <1>1 DEF Arrived
      <3> QED BY <2>4, <3>1 DEF IInv, StreamInv, Active
    <2> QED BY <1>1, <2>3, <2>5, <2>6, <2>7 DEF StreamInv
  <1> QED BY <1>3, <1>4, <1>5, <1>6 DEF IInv

\* A step of a client leaves the server's side as it is.
LEMMA ClientFrame ==
    ASSUME IInv,
           UNCHANGED <<server, alive, main, threads, files, backlog, overtaken>>,
           \A d \in Clients : conn'[d] = "away" <=> conn[d] = "away"
    PROVE  AcceptedInv' /\ SentInv' /\ OwnInv' /\ (Holding' <=> Holding)
  <1> USE DEF main, threads
  <1>1. AcceptedInv'
    BY AcceptedFrame
  <1>2. SentInv'
    BY DEF IInv, SentInv
  <1>3. Holding' <=> Holding
    BY DEF Holding
  <1>4. OwnInv'
    BY <1>3 DEF IInv, OwnInv
  <1> QED BY <1>1, <1>2, <1>3, <1>4

\* What was on its way is appended to what has come.
LEMMA ConcatBlocks ==
    ASSUME NEW p \in Seq(Nat), NEW q \in Seq(Nat),
           \A i \in 1 .. Len(p) : p[i] = i,
           \A i \in 1 .. Len(q) : q[i] = Len(p) + i
    PROVE  /\ p \o q \in Seq(Nat)
           /\ Len(p \o q) = Len(p) + Len(q)
           /\ \A i \in 1 .. Len(p \o q) : (p \o q)[i] = i
  <1>1. PICK s : s = p \o q
    OBVIOUS
  <1>2. /\ Len(p) \in Nat /\ Len(q) \in Nat
        /\ s \in Seq(Nat) /\ Len(s) = Len(p) + Len(q)
        /\ \A i \in 1 .. Len(p) : s[i] = p[i]
        /\ \A i \in 1 .. Len(q) : s[Len(p) + i] = q[i]
    BY <1>1
  <1>3. ASSUME NEW i \in 1 .. Len(s)
        PROVE  s[i] = i
    <2>1. CASE i <= Len(p)
      <3>1. i \in 1 .. Len(p)
        BY <1>2, <2>1
      <3>2. s[i] = p[i] /\ p[i] = i
        BY <1>2, <3>1
      <3> QED BY <3>2
    <2>2. CASE i > Len(p)
      <3>1. PICK n \in Nat, m \in Nat : n = Len(p) /\ m = Len(q)
        BY <1>2
      <3>2. i \in 1 .. n + m /\ i > n
        BY <1>2, <2>2, <3>1
      <3>3. PICK k \in 1 .. m : i = n + k
        <4>1. i - n \in 1 .. m /\ i = n + (i - n)
          BY <3>2
        <4> QED BY <4>1
      <3>4. s[n + k] = q[k]
        BY <1>2, <3>1
      <3>5. q[k] = n + k
        BY <3>1
      <3> QED BY <3>3, <3>4, <3>5
    <2> QED BY <1>2, <2>1, <2>2
  <1> QED BY <1>1, <1>2, <1>3

LEMMA ReadBlocksInv == ASSUME IInv, NEW c \in Clients, ReadBlocks(c) PROVE IInv'
  <1>1. /\ conn[c] = "reading" /\ stream[c] # << >>
        /\ received' = [received EXCEPT ![c] = received[c] \o stream[c]]
        /\ stream' = [stream EXCEPT ![c] = << >>]
        /\ UNCHANGED <<server, alive, main, threads, conn, files, backlog, shut, overtaken>>
    BY DEF ReadBlocks
  <1>2. /\ received[c] \in Seq(Nat) /\ stream[c] \in Seq(Nat)
        /\ received \in [Clients -> Seq(Nat)] /\ stream \in [Clients -> Seq(Nat)]
        /\ received[c] \o stream[c] \in Seq(Nat)
    BY DEF IInv, Types
  <1>3. /\ received'[c] = received[c] \o stream[c] /\ stream'[c] = << >>
        /\ \A d \in Clients \ {c} : received'[d] = received[d] /\ stream'[d] = stream[d]
        /\ received' \in [Clients -> Seq(Nat)] /\ stream' \in [Clients -> Seq(Nat)]
    BY <1>1, <1>2
  <1>4. Types'
    BY <1>1, <1>3 DEF IInv, Types, main, threads
  <1>5. AcceptedInv' /\ SentInv' /\ OwnInv' /\ (Holding' <=> Holding)
    BY <1>1, ClientFrame
  <1>6. StreamInv'
    <2> SUFFICES ASSUME ~overtaken
                 PROVE  StreamInv'
      BY <1>1 DEF StreamInv
    <2>1. Ordered(c)
      BY DEF IInv, StreamInv
    <2>2. /\ Len(received'[c]) = Len(received[c]) + Len(stream[c])
          /\ \A i \in 1 .. Len(received'[c]) : received'[c][i] = i
          /\ Len(stream'[c]) = 0
      <3>1. /\ \A i \in 1 .. Len(received[c]) : received[c][i] = i
            /\ \A i \in 1 .. Len(stream[c]) : stream[c][i] = Len(received[c]) + i
        BY <2>1 DEF Ordered
      <3>2. PICK s : s = received[c] \o stream[c]
        OBVIOUS
      <3>3. /\ Len(s) = Len(received[c]) + Len(stream[c])
            /\ \A i \in 1 .. Len(s) : s[i] = i
        BY <1>2, <3>1, <3>2, ConcatBlocks
      <3>4. Len(stream'[c]) = 0
        BY <1>3
      <3> QED BY <1>3, <3>2, <3>3, <3>4
    <2>3. Arrived(c)' = Arrived(c)
      BY <1>2, <2>2 DEF Arrived
    <2>4. Ordered(c)'
      <3>1. Arrived(c)' <= Blocks
        BY <2>1, <2>3 DEF Ordered
      <3>2. \A i \in 1 .. Len(stream'[c]) : stream'[c][i] = Len(received'[c]) + i
        BY <2>2
      <3> QED BY <2>2, <3>1, <3>2 DEF Ordered
    <2>5. \A d \in Clients : Arrived(d)' = Arrived(d)
      BY <1>3, <2>3 DEF Arrived
    <2>6. \A d \in Clients : Ordered(d)' /\ New(d)' = New(d)
      <3>1. \A d \in Clients \ {c} : Ordered(d)'
        <4> SUFFICES ASSUME NEW d \in Clients \ {c} PROVE Ordered(d)'
          OBVIOUS
        <4>1. Ordered(d) /\ received'[d] = received[d] /\ stream'[d] = stream[d]
          BY <1>3 DEF IInv, StreamInv
        <4>2. Arrived(d)' = Arrived(d)
          BY <2>5
        <4> QED BY <4>1, <4>2 DEF Ordered
      <3> QED BY <1>1, <2>4, <2>5, <3>1 DEF New
    <2>7. Holding => New(files[clnt_sock])'
      <3> SUFFICES ASSUME Holding PROVE New(files[clnt_sock])'
        OBVIOUS
      <3>1. New(files[clnt_sock]) /\ files[clnt_sock] \in Clients
        BY DEF IInv, StreamInv, OwnInv, Types
      <3>2. Arrived(files[clnt_sock])' = Arrived(files[clnt_sock])
        BY <1>1, <1>3, <2>3, <3>1 DEF Arrived, main
      <3> QED BY <1>1, <3>1, <3>2 DEF New, main
    <2>8. \A t \in Threads : pc[t] \in Active =>
            Arrived(files[sock[t]])' = Arrived(files[sock[t]])
      <3> SUFFICES ASSUME NEW t \in Threads, pc[t] \in Active
                   PROVE  Arrived(files[sock[t]])' = Arrived(files[sock[t]])
        OBVIOUS
      <3>1. files[sock[t]] \in Clients
        BY OwnClient
      <3> QED BY <1>1, <1>3, <2>3, <3>1 DEF Arrived, threads
    <2> QED BY <1>1, <1>3, <1>5, <2>2, <2>5, <2>6, <2>7, <2>8
        DEF IInv, StreamInv, Active, main, threads
  <1> QED BY <1>4, <1>5, <1>6 DEF IInv

\* The end of the stream comes after the last block.
LEMMA FinishInv == ASSUME IInv, NEW c \in Clients, Finish(c) PROVE IInv'
  <1>1. /\ conn[c] = "reading" /\ stream[c] = << >> /\ (c \in shut \/ ~alive)
        /\ conn' = [conn EXCEPT ![c] = "done"]
        /\ UNCHANGED <<server, alive, main, threads, received, files, backlog, stream, shut,
                       overtaken>>
    BY DEF Finish
  <1>2. /\ conn'[c] = "done" /\ \A d \in Clients \ {c} : conn'[d] = conn[d]
        /\ conn' \in [Clients -> {"away", "reading", "done", "killed"}]
    BY <1>1 DEF IInv, Types
  <1>3. Types'
    BY <1>1, <1>2 DEF IInv, Types, main, threads
  <1>4. AcceptedInv' /\ SentInv' /\ OwnInv' /\ (Holding' <=> Holding)
    <2>1. \A d \in Clients : conn'[d] = "away" <=> conn[d] = "away"
      BY <1>1, <1>2
    <2> QED BY <1>1, <2>1, ClientFrame
  <1>5. StreamInv'
    <2> SUFFICES ASSUME ~overtaken
                 PROVE  StreamInv'
      BY <1>1 DEF StreamInv
    <2>1. \A d \in Clients : /\ Arrived(d)' = Arrived(d)
                             /\ Ordered(d)' = Ordered(d)
                             /\ New(d)' = New(d)
      BY <1>1 DEF Arrived, Ordered, New
    <2>2. Len(stream[c]) = 0
      BY <1>1
    <2>3. \A d \in Clients :
            /\ Ordered(d)'
            /\ conn'[d] = "away" \/ d \in backlog => New(d)'
            /\ d \in shut => conn'[d] = "killed" \/ Arrived(d)' = Blocks
            /\ conn'[d] = "done" => Len(stream[d]) = 0 /\ (alive' => d \in shut)
      BY <1>1, <1>2, <2>1, <2>2 DEF IInv, StreamInv
    <2>4. Holding => New(files[clnt_sock])'
      BY <1>1 DEF IInv, StreamInv, New, Arrived, main
    <2>5. \A t \in Threads :
            /\ pc[t] \in {"send", "shutdown"} =>
                /\ files[sock[t]] \notin shut
                /\ \/ conn'[files[sock[t]]] = "killed"
                   \/ Arrived(files[sock[t]])' = sent[t]
            /\ pc[t] \in {"remove", "close"} => files[sock[t]] \in shut
      <3>1. \A t \in Threads : Arrived(files[sock[t]])' = Arrived(files[sock[t]])
        BY <1>1 DEF Arrived, threads
      <3>2. \A t \in Threads : pc[t] \in Active /\ conn[files[sock[t]]] = "killed" =>
              conn'[files[sock[t]]] = "killed"
        BY <1>1, <1>2, OwnClient
      <3> QED BY <3>1, <3>2 DEF IInv, StreamInv, Active
    <2> QED BY <1>1, <1>4, <2>3, <2>4, <2>5 DEF StreamInv, main, threads
  <1> QED BY <1>3, <1>4, <1>5 DEF IInv

LEMMA ResetInv == ASSUME IInv, NEW c \in Clients, Reset(c) PROVE IInv'
  <1>1. /\ conn[c] = "reading" /\ c \in backlog
        /\ conn' = [conn EXCEPT ![c] = "killed"]
        /\ UNCHANGED <<server, alive, main, threads, received, files, backlog, stream, shut,
                       overtaken>>
    BY DEF Reset, net
  <1>2. /\ conn'[c] = "killed" /\ \A d \in Clients \ {c} : conn'[d] = conn[d]
        /\ conn' \in [Clients -> {"away", "reading", "done", "killed"}]
    BY <1>1 DEF IInv, Types
  <1>3. Types'
    BY <1>1, <1>2 DEF IInv, Types, main, threads
  <1>4. AcceptedInv' /\ SentInv' /\ OwnInv' /\ (Holding' <=> Holding)
    <2>1. \A d \in Clients : conn'[d] = "away" <=> conn[d] = "away"
      BY <1>1, <1>2
    <2> QED BY <1>1, <2>1, ClientFrame
  <1>5. StreamInv'
    <2> SUFFICES ASSUME ~overtaken
                 PROVE  StreamInv'
      BY <1>1 DEF StreamInv
    <2>1. \A d \in Clients : /\ Arrived(d)' = Arrived(d)
                             /\ Ordered(d)' = Ordered(d)
                             /\ New(d)' = New(d)
      BY <1>1 DEF Arrived, Ordered, New
    <2>2. \A d \in Clients :
            /\ Ordered(d)'
            /\ conn'[d] = "away" \/ d \in backlog => New(d)'
            /\ d \in shut => conn'[d] = "killed" \/ Arrived(d)' = Blocks
            /\ conn'[d] = "done" => Len(stream[d]) = 0 /\ (alive' => d \in shut)
      BY <1>1, <1>2, <2>1 DEF IInv, StreamInv
    <2>3. Holding => New(files[clnt_sock])'
      BY <1>1 DEF IInv, StreamInv, New, Arrived, main
    <2>4. \A t \in Threads :
            /\ pc[t] \in {"send", "shutdown"} =>
                /\ files[sock[t]] \notin shut
                /\ \/ conn'[files[sock[t]]] = "killed"
                   \/ Arrived(files[sock[t]])' = sent[t]
            /\ pc[t] \in {"remove", "close"} => files[sock[t]] \in shut
      <3>1. \A t \in Threads : Arrived(files[sock[t]])' = Arrived(files[sock[t]])
        BY <1>1 DEF Arrived, threads
      <3>2. \A t \in Threads : pc[t] \in Active /\ conn[files[sock[t]]] = "killed" =>
              conn'[files[sock[t]]] = "killed"
        BY <1>1, <1>2, OwnClient
      <3> QED BY <3>1, <3>2 DEF IInv, StreamInv, Active
    <2> QED BY <1>1, <1>4, <2>2, <2>3, <2>4 DEF StreamInv, main, threads
  <1> QED BY <1>3, <1>4, <1>5 DEF IInv

LEMMA KillInv == ASSUME IInv, NEW c \in Clients, Kill(c) PROVE IInv'
  <1>1. /\ conn[c] = "reading"
        /\ conn' = [conn EXCEPT ![c] = "killed"]
        /\ stream' = [stream EXCEPT ![c] = << >>]
        /\ UNCHANGED <<server, alive, main, threads, received, files, backlog, shut,
                       overtaken>>
    BY DEF Kill
  <1>2. /\ conn'[c] = "killed" /\ \A d \in Clients \ {c} : conn'[d] = conn[d]
        /\ conn' \in [Clients -> {"away", "reading", "done", "killed"}]
        /\ stream'[c] = << >> /\ \A d \in Clients \ {c} : stream'[d] = stream[d]
        /\ stream' \in [Clients -> Seq(Nat)]
    BY <1>1 DEF IInv, Types
  <1>3. Types'
    BY <1>1, <1>2 DEF IInv, Types, main, threads
  <1>4. AcceptedInv' /\ SentInv' /\ OwnInv' /\ (Holding' <=> Holding)
    <2>1. \A d \in Clients : conn'[d] = "away" <=> conn[d] = "away"
      BY <1>1, <1>2
    <2> QED BY <1>1, <2>1, ClientFrame
  <1>5. StreamInv'
    <2> SUFFICES ASSUME ~overtaken
                 PROVE  StreamInv'
      BY <1>1 DEF StreamInv
    <2>1. /\ Ordered(c) /\ Len(received[c]) \in Nat /\ Len(stream[c]) \in Nat
          /\ Len(stream'[c]) = 0 /\ Blocks \in Nat
      BY <1>2, FileServersAssumption DEF IInv, StreamInv, Types
    <2>2. Arrived(c)' = Len(received[c]) /\ Arrived(c)' <= Arrived(c)
      <3>1. PICK a \in Nat, b \in Nat : a = Len(received[c]) /\ b = Len(stream[c])
        BY <2>1
      <3>2. Arrived(c) = a + b
        BY <3>1 DEF Arrived
      <3>3. Arrived(c)' = a + 0
        BY <1>1, <2>1, <3>1 DEF Arrived
      <3>4. a + 0 = a /\ a <= a + b
        <4>1. \A x, y \in Nat : x + 0 = x /\ x <= x + y
          OBVIOUS
        <4>2. a \in Nat /\ b \in Nat
          OBVIOUS
        <4> QED BY <4>1, <4>2
      <3> QED BY <3>1, <3>2, <3>3, <3>4
    <2>3. Ordered(c)' /\ (New(c) => New(c)')
      <3>1. PICK a \in Nat, b \in Nat : a = Arrived(c)' /\ b = Len(stream[c])
                                      /\ Arrived(c) = a + b
        BY <2>1, <2>2 DEF Arrived
      <3>2. Arrived(c)' <= Blocks
        BY <2>1, <3>1 DEF Ordered
      <3>3. Arrived(c) = 0 => Arrived(c)' = 0
        BY <3>1
      <3>4. Ordered(c)'
        BY <1>1, <2>1, <3>2 DEF Ordered
      <3> QED BY <1>1, <3>3, <3>4 DEF New
    <2>4. \A d \in Clients \ {c} : /\ Arrived(d)' = Arrived(d)
                                   /\ Ordered(d)' = Ordered(d)
                                   /\ New(d)' = New(d)
      BY <1>1, <1>2 DEF Arrived, Ordered, New
    <2>5. \A d \in Clients :
            /\ Ordered(d)'
            /\ conn'[d] = "away" \/ d \in backlog => New(d)'
            /\ d \in shut => conn'[d] = "killed" \/ Arrived(d)' = Blocks
            /\ conn'[d] = "done" => Len(stream'[d]) = 0 /\ (alive' => d \in shut)
      BY <1>1, <1>2, <2>3, <2>4 DEF IInv, StreamInv
    <2>6. Holding => New(files[clnt_sock])'
      <3> SUFFICES ASSUME Holding PROVE New(files[clnt_sock])'
        OBVIOUS
      <3>1. New(files[clnt_sock]) /\ files[clnt_sock] \in Clients
        BY DEF IInv, StreamInv, OwnInv, Types
      <3>2. UNCHANGED <<files, clnt_sock, shut, received>>
        BY <1>1 DEF main
      <3>3. Arrived(files[clnt_sock])' = 0
        <4>1. CASE files[clnt_sock] = c
          BY <1>1, <2>3, <3>1, <4>1 DEF New, main
        <4>2. CASE files[clnt_sock] # c
          BY <1>2, <3>1, <3>2, <4>2 DEF New, Arrived
        <4> QED BY <4>1, <4>2
      <3> QED BY <3>1, <3>2, <3>3 DEF New
    <2>7. \A t \in Threads :
            /\ pc[t] \in {"send", "shutdown"} =>
                /\ files[sock[t]] \notin shut
                /\ \/ conn'[files[sock[t]]] = "killed"
                   \/ Arrived(files[sock[t]])' = sent[t]
            /\ pc[t] \in {"remove", "close"} => files[sock[t]] \in shut
      <3> SUFFICES ASSUME NEW t \in Threads, pc[t] \in Active
                   PROVE  /\ pc[t] \in {"send", "shutdown"} =>
                               /\ files[sock[t]] \notin shut
                               /\ \/ conn'[files[sock[t]]] = "killed"
                                  \/ Arrived(files[sock[t]])' = sent[t]
                          /\ pc[t] \in {"remove", "close"} => files[sock[t]] \in shut
        BY DEF Active
      <3>1. files[sock[t]] \in Clients
        BY OwnClient
      <3>2. CASE files[sock[t]] = c
        BY <1>2, <3>2 DEF IInv, StreamInv
      <3>3. CASE files[sock[t]] # c
        <4>1. /\ conn'[files[sock[t]]] = conn[files[sock[t]]]
              /\ Arrived(files[sock[t]])' = Arrived(files[sock[t]])
          BY <1>1, <1>2, <3>1, <3>3 DEF Arrived, threads
        <4> QED BY <4>1 DEF IInv, StreamInv
      <3> QED BY <3>2, <3>3
    <2> QED BY <1>1, <1>4, <2>5, <2>6, <2>7 DEF StreamInv, main, threads
  <1> QED BY <1>3, <1>4, <1>5 DEF IInv

-----------------------------------------------------------------------------

\* The inductive invariant of the two file servers.
THEOREM InvariantHolds == Spec => []IInv
  <1>1. ASSUME IInv, [Next]_vars
        PROVE  IInv'
    <2>1. CASE MainStep
      BY <1>1, <2>1, AcceptInv, ReadMessageInv, SaveInv, CreateInv, JoinInv,
         CloseClientInv DEF MainStep
    <2>2. CASE \E t \in Threads : ThreadStep(t)
      BY <1>1, <2>2, StartInv, SendBlockInv, ShutdownInv, RemoveInv, CloseInv
      DEF ThreadStep
    <2>3. CASE \E c \in Clients : ClientStep(c) \/ Connect(c) \/ Kill(c)
      BY <1>1, <2>3, ReadBlocksInv, FinishInv, ResetInv, ConnectInv, KillInv
      DEF ClientStep
    <2>4. CASE UNCHANGED vars
      BY <1>1, <2>4, MainFrame DEF vars, main, net
    <2> QED BY <1>1, <2>1, <2>2, <2>3, <2>4 DEF Next
  <1> QED BY InitInv, <1>1, PTL DEF Spec

\* However many clients a file server has, whoever stops reading or is killed,
\* and however its threads overlap, what a client has got is the beginning of
\* the file, and all of it once it has read to the end.  Unless main accepted
\* again before a thread had read its argument (multiple_access_serv.c,
\* file_multi_serv.c), or SIGPIPE ended the server in the middle of the file:
\* the client reads the same end then.
THEOREM WholeFileAlways == Spec => []WholeFile
  <1>1. ASSUME IInv, ~overtaken, NEW c \in Clients
        PROVE  /\ IsPrefix(received[c] \o stream[c], [k \in 1 .. Blocks |-> k])
               /\ conn[c] = "done" /\ (alive \/ c \in shut) =>
                    Len(received[c]) = Blocks
    <2>1. /\ received[c] \in Seq(Nat) /\ stream[c] \in Seq(Nat)
          /\ Len(received[c]) \in Nat /\ Len(stream[c]) \in Nat /\ Blocks \in Nat
      BY <1>1, FileServersAssumption DEF IInv, Types
    <2>2. /\ Ordered(c)
          /\ c \in shut => conn[c] = "killed" \/ Arrived(c) = Blocks
          /\ conn[c] = "done" => Len(stream[c]) = 0 /\ (alive => c \in shut)
      BY <1>1 DEF IInv, StreamInv
    <2>3. conn[c] = "done" /\ (alive \/ c \in shut) => Len(received[c]) = Blocks
      <3>1. PICK a \in Nat, b \in Nat : a = Len(received[c]) /\ b = Len(stream[c])
        BY <2>1
      <3> SUFFICES ASSUME conn[c] = "done", alive \/ c \in shut
                   PROVE  Len(received[c]) = Blocks
        OBVIOUS
      <3>2. Arrived(c) = a + b
        BY <3>1 DEF Arrived
      <3>3. Arrived(c) = Blocks
        BY <2>2
      <3>4. b = 0
        BY <2>2, <3>1
      <3>5. a = Blocks
        BY <2>1, <3>1, <3>2, <3>3, <3>4
      <3> QED BY <3>1, <3>5
    <2>4. PICK s : s = received[c] \o stream[c]
      OBVIOUS
    <2>5. /\ s \in Seq(Nat) /\ Len(s) \in Nat /\ Len(s) <= Blocks
          /\ \A i \in 1 .. Len(s) : s[i] = i
      <3>1. /\ s \in Seq(Nat) /\ Len(s) = Arrived(c)
            /\ \A i \in 1 .. Len(s) : s[i] = i
        BY <2>1, <2>2, <2>4, ConcatBlocks DEF Ordered, Arrived
      <3> QED BY <2>2, <3>1 DEF Ordered
    <2>6. PICK f : f = [k \in 1 .. Blocks |-> k]
      OBVIOUS
    <2>7. /\ f \in Seq(Nat) /\ Len(f) = Blocks
          /\ \A i \in 1 .. Len(s) : f[i] = i
      BY <2>1, <2>5, <2>6
    <2>8. SubSeq(s, 1, Len(s)) = SubSeq(f, 1, Len(s))
      <3>1. PICK n \in Nat : n = Len(s)
        BY <2>5
      <3>2. SubSeq(s, 1, n) = [i \in 1 .. n |-> i]
        BY <2>5, <3>1
      <3>3. SubSeq(f, 1, n) = [i \in 1 .. n |-> i]
        <4>1. f \in Seq(Nat) /\ n <= Len(f)
          BY <2>5, <2>7, <3>1
        <4>2. \A i \in 1 .. n : f[i] = i
          BY <2>7, <3>1
        <4> QED BY <3>1, <4>1, <4>2
      <3> QED BY <3>1, <3>2, <3>3
    <2>9. IsPrefix(s, f)
      BY <2>5, <2>7, <2>8 DEF IsPrefix
    <2> QED BY <2>3, <2>4, <2>6, <2>9
  <1>2. IInv => WholeFile
    BY <1>1 DEF WholeFile
  <1> QED BY InvariantHolds, <1>2, PTL

-----------------------------------------------------------------------------
(* The directory download of homework 1, for every number of files, all sizes *)
(* and every buffer.                                                          *)
(*                                                                            *)
(* The argument: a request is on its way to the server, or being answered, or *)
(* answered; what the client has counted of the answer and what is still in   *)
(* the stream never exceed the size it was told, so when it stops counting    *)
(* the stream is empty.                                                       *)

\* The types of the variables.
DownloadTypes ==
    /\ serv_pc \in {"accept", "index", "send"}
    /\ clnt_pc \in {"list", "prompt", "receive", "gone"}
    /\ file_t_array \in [Indices -> Nat]
    /\ disk \in [Indices -> Nat \cup {Absent}]
    /\ request_index \in Int /\ chosen_index \in Int /\ file_len \in Nat
    /\ to_serv \in Seq(Int) /\ to_clnt \in Seq(Int)

Asked == serv_pc = "index" /\ to_serv = <<chosen_index>>

Answering ==
    serv_pc = "send" /\ request_index = chosen_index /\ to_serv = << >>

Answered ==
    /\ serv_pc = "index" /\ to_serv = << >>
    /\ file_len + Len(to_clnt) <= Told
    /\ \A k \in 1 .. Len(to_clnt) : to_clnt[k] = chosen_index

\* Where the one request of the client is.
RequestInv ==
    \/ overfull \/ clnt_pc = "gone"
    \/ /\ clnt_pc = "list" => to_serv = << >> /\ to_clnt = << >> /\ serv_pc # "send"
       /\ clnt_pc = "prompt" =>
            to_serv = << >> /\ to_clnt = << >> /\ serv_pc = "index"
       /\ clnt_pc = "receive" =>
            \/ Asked /\ to_clnt = << >> /\ file_len = 0
            \/ Answering /\ to_clnt = << >> /\ file_len = 0
            \/ Answered

DownloadIInv == DownloadTypes /\ RequestInv

LEMMA DownloadInitInv == ASSUME DownloadInit PROVE DownloadIInv
  <1>1. PICK count \in 0 .. FILE_COUNT : file_t_array \in [0 .. count - 1 -> FileSizes]
    BY DEF DownloadInit
  <1>2. file_t_array \in [Indices -> Nat]
    BY <1>1, DownloadAssumption DEF Indices
  <1>3. DownloadTypes
    BY <1>2 DEF DownloadInit, DownloadTypes
  <1>4. RequestInv
    BY DEF DownloadInit, RequestInv
  <1> QED BY <1>3, <1>4 DEF DownloadIInv

\* What the client was told is a number.
LEMMA ToldType == ASSUME DownloadTypes PROVE Told \in Nat
  BY DEF DownloadTypes, Told

LEMMA ServerKeepsInv == ASSUME DownloadIInv, ServerStep PROVE DownloadIInv'
  <1> USE DEF DownloadIInv, serv, clnt
  <1>1. CASE SendList
    <2>1. DownloadTypes'
      BY <1>1 DEF SendList, DownloadTypes, Indices
    <2>2. RequestInv'
      BY <1>1 DEF SendList, RequestInv, Asked, Answering, Answered, Told,
                  DownloadTypes
    <2> QED BY <2>1, <2>2
  <1>2. CASE GetClientRequestIndex
    <2>1. /\ to_serv \in Seq(Int) /\ to_serv # << >>
          /\ to_serv' = Tail(to_serv) /\ request_index' = Head(to_serv)
          /\ serv_pc = "index" /\ serv_pc' = "send"
          /\ UNCHANGED <<clnt_pc, chosen_index, file_len, disk, file_t_array,
                         to_clnt, overfull>>
      BY <1>2 DEF GetClientRequestIndex, DownloadTypes
    <2>2. DownloadTypes'
      BY <2>1 DEF DownloadTypes, Indices
    <2>3. Asked => Tail(to_serv) = << >> /\ Head(to_serv) = chosen_index
      BY DEF Asked, DownloadTypes
    <2>4. RequestInv'
      BY <2>1, <2>3 DEF RequestInv, Asked, Answering, Answered
    <2> QED BY <2>2, <2>4
  <1>3. CASE RequestEnd
    BY <1>3 DEF RequestEnd, DownloadTypes, Indices, RequestInv
  <1>4. CASE Send_File /\ ~Opened
    <2>1. /\ serv_pc = "send" /\ serv_pc' = "index"
          /\ UNCHANGED <<to_clnt, overfull, request_index, clnt_pc, chosen_index,
                         file_len, disk, file_t_array, to_serv>>
      BY <1>4 DEF Send_File
    <2>2. DownloadTypes'
      BY <2>1 DEF DownloadTypes, Indices
    <2>3. Answering /\ to_clnt = << >> /\ file_len = 0 => Answered'
      <3>1. Len(<< >>) = 0 /\ Told' = Told /\ Told \in Nat
        BY <2>1, ToldType DEF Told, Indices
      <3> QED BY <2>1, <3>1 DEF Answering, Answered
    <2>4. RequestInv'
      BY <2>1, <2>3 DEF RequestInv, Asked, Answered
    <2> QED BY <2>2, <2>4
  <1>5. CASE Send_File /\ Opened
    <2> DEFINE size == disk[request_index]
               told == file_t_array[request_index]
               pieces == [k \in 1 .. size |-> request_index]
    <2>1. /\ serv_pc = "send" /\ serv_pc' = "index"
          /\ overfull \/ size > told => overfull'
          /\ to_clnt' = to_clnt \/ to_clnt' = to_clnt \o pieces
          /\ UNCHANGED <<request_index, clnt_pc, chosen_index, file_len, disk,
                         file_t_array, to_serv>>
      BY <1>5 DEF Send_File
    <2>2. /\ size \in Nat /\ told \in Nat /\ request_index \in Int
          /\ pieces \in Seq(Int) /\ Len(pieces) = size
          /\ \A k \in 1 .. size : pieces[k] = request_index
      BY <1>5 DEF Opened, DownloadTypes
    <2>3. Answering => told = Told
      BY <1>5 DEF Opened, Answering, Told
    <2> HIDE DEF size, told, pieces
    <2>4. to_clnt' \in Seq(Int)
      <3>1. to_clnt \in Seq(Int)
        BY DEF DownloadTypes
      <3>2. to_clnt \o pieces \in Seq(Int)
        BY <2>2, <3>1
      <3> QED BY <2>1, <3>1, <3>2
    <2>5. DownloadTypes'
      BY <2>1, <2>4 DEF DownloadTypes, Indices
    <2>6. RequestInv'
      <3> SUFFICES ASSUME ~overfull', clnt_pc # "gone"
                   PROVE  RequestInv'
        BY <2>1 DEF RequestInv
      <3>1. ~overfull /\ size <= told
        BY <2>1, <2>2
      <3>2. clnt_pc = "receive" /\ Answering /\ to_clnt = << >> /\ file_len = 0
        BY <2>1, <3>1 DEF RequestInv, Asked, Answered, DownloadTypes
      <3>3. to_clnt' = << >> \/ to_clnt' = pieces
        BY <2>1, <2>2, <3>2
      <3>4. /\ Len(to_clnt') <= told
            /\ \A k \in 1 .. Len(to_clnt') : to_clnt'[k] = request_index
        BY <2>2, <3>1, <3>3
      <3>5. Told' = Told /\ Len(to_clnt') \in Nat
        BY <2>1, <2>4 DEF Told, Indices
      <3>6. Answered'
        BY <2>1, <2>3, <3>2, <3>4, <3>5 DEF Answered, Answering
      <3> QED BY <2>1, <3>2, <3>6 DEF RequestInv
    <2> QED BY <2>5, <2>6
  <1> QED BY <1>1, <1>2, <1>3, <1>4, <1>5 DEF ServerStep

LEMMA ClientKeepsInv ==
    ASSUME DownloadIInv, FileChanges \/ Choose \/ Receive \/ Leave
    PROVE  DownloadIInv'
  <1> USE DEF DownloadIInv, serv, clnt
  <1>1. CASE FileChanges
    <2>1. disk' \in [Indices -> Nat \cup {Absent}]
      BY <1>1, DownloadAssumption DEF FileChanges, DownloadTypes
    <2> QED BY <1>1, <2>1 DEF FileChanges, DownloadTypes, Indices, RequestInv, Asked,
                              Answering, Answered, Told
  <1>2. CASE Choose
    <2>1. /\ clnt_pc = "prompt" /\ clnt_pc' = "receive"
          /\ chosen_index' \in Int /\ file_len' = 0
          /\ to_serv' = Append(to_serv, chosen_index')
          /\ UNCHANGED <<serv_pc, request_index, disk, file_t_array, to_clnt, overfull>>
      BY <1>2, DownloadAssumption DEF Choose, FromZero
    <2>2. DownloadTypes'
      BY <2>1 DEF DownloadTypes, Indices
    <2>3. to_serv = << >> => to_serv' = <<chosen_index'>>
      BY <2>1
    <2> QED BY <2>1, <2>2, <2>3 DEF RequestInv, Asked
  <1>3. CASE Receive
    <2>1. PICK n \in 1 .. Min({Len(to_clnt), BUFSIZE}) :
            /\ file_len' = file_len + n
            /\ to_clnt' = SubSeq(to_clnt, n + 1, Len(to_clnt))
      BY <1>3 DEF Receive
    <2>2. n \in 1 .. Len(to_clnt)
      <3>1. Len(to_clnt) \in Nat /\ BUFSIZE \in Nat
        BY DownloadAssumption DEF DownloadTypes
      <3>2. Min({Len(to_clnt), BUFSIZE}) <= Len(to_clnt)
        <4>1. \E x \in {Len(to_clnt), BUFSIZE} :
                \A y \in {Len(to_clnt), BUFSIZE} : x <= y
          BY <3>1
        <4> QED BY <3>1, <4>1 DEF Min
      <3>3. Min({Len(to_clnt), BUFSIZE}) \in Nat
        <4>1. \E x \in {Len(to_clnt), BUFSIZE} :
                \A y \in {Len(to_clnt), BUFSIZE} : x <= y
          BY <3>1
        <4> QED BY <3>1, <4>1 DEF Min
      <3> QED BY <3>1, <3>2, <3>3
    <2>3. /\ clnt_pc = "receive"
          /\ clnt_pc' = IF file_len' >= Told' THEN "prompt" ELSE "receive"
          /\ UNCHANGED <<serv_pc, request_index, chosen_index, disk, file_t_array,
                         to_serv, overfull>>
      <3>1. /\ clnt_pc = "receive"
            /\ clnt_pc' = IF Received THEN "prompt" ELSE "receive"
            /\ UNCHANGED <<serv_pc, request_index, chosen_index, disk, file_t_array,
                           to_serv, overfull>>
        BY <1>3 DEF Receive
      <3>2. Told' = Told
        BY <3>1 DEF Told, Indices
      <3> QED BY <3>1, <3>2 DEF Received
    <2>4. /\ to_clnt \in Seq(Int) /\ Len(to_clnt) \in Nat /\ file_len \in Nat
          /\ to_clnt' \in Seq(Int) /\ Len(to_clnt') = Len(to_clnt) - n
          /\ \A k \in 1 .. Len(to_clnt') : to_clnt'[k] = to_clnt[n + k]
      <3>1. to_clnt \in Seq(Int) /\ Len(to_clnt) \in Nat /\ file_len \in Nat
        BY DEF DownloadTypes
      <3> QED BY <2>1, <2>2, <3>1
    <2>5. DownloadTypes'
      <3>1. clnt_pc' \in {"prompt", "receive"}
        BY <2>3
      <3>2. file_len' \in Nat /\ n \in Nat
        BY <2>1, <2>2, <2>4
      <3> QED BY <2>3, <2>4, <3>1, <3>2 DEF DownloadTypes, Indices
    <2>6. n \in Nat /\ file_len' + Len(to_clnt') = file_len + Len(to_clnt)
      <3>1. file_len' = file_len + n /\ n \in Nat
        BY <2>1, <2>2, <2>4
      <3>2. Len(to_clnt') = Len(to_clnt) - n /\ Len(to_clnt) \in Nat /\ file_len \in Nat
        BY <2>4
      <3> QED BY <3>1, <3>2
    <2>7. RequestInv'
      <3> SUFFICES ASSUME ~overfull
                   PROVE  RequestInv'
        BY <2>3 DEF RequestInv
      <3>1. Answered /\ to_clnt # << >>
        BY <2>2, <2>3, <2>4 DEF RequestInv
      <3>2. Told' = Told /\ Told \in Nat
        BY <2>3, ToldType DEF Told, Indices
      <3>3. Answered'
        <4>1. file_len' + Len(to_clnt') <= Told'
          BY <2>6, <3>1, <3>2 DEF Answered
        <4>2. ASSUME NEW k \in 1 .. Len(to_clnt')
              PROVE  to_clnt'[k] = chosen_index
          <5>1. n + k \in 1 .. Len(to_clnt) /\ to_clnt'[k] = to_clnt[n + k]
            BY <2>2, <2>4
          <5> QED BY <3>1, <5>1 DEF Answered
        <4> QED BY <2>3, <3>1, <4>1, <4>2 DEF Answered
      <3>4. CASE file_len' >= Told'
        <4>1. Len(to_clnt') = 0
          <5>1. /\ file_len' + Len(to_clnt') <= Told' /\ Told' \in Nat
                /\ file_len' \in Nat /\ Len(to_clnt') \in Nat
            BY <2>4, <2>5, <3>2, <3>3 DEF Answered, DownloadTypes
          <5> QED BY <3>4, <5>1
        <4>2. to_clnt' = << >>
          BY <2>4, <4>1
        <4> QED BY <2>3, <3>1, <3>4, <4>2 DEF RequestInv, Answered
      <3>5. CASE ~(file_len' >= Told')
        BY <2>3, <3>3, <3>5 DEF RequestInv
      <3> QED BY <3>4, <3>5
    <2> QED BY <2>5, <2>7
  <1>4. CASE Leave
    BY <1>4 DEF Leave, DownloadTypes, Indices, RequestInv
  <1> QED BY <1>1, <1>2, <1>3, <1>4

-----------------------------------------------------------------------------

\* The inductive invariant of the download.
THEOREM DownloadInvariantHolds == DownloadSpec => []DownloadIInv
  <1>1. ASSUME DownloadIInv, [DownloadNext]_downloadVars
        PROVE  DownloadIInv'
    <2>1. CASE UNCHANGED downloadVars
      BY <1>1, <2>1 DEF downloadVars, serv, clnt, DownloadIInv, DownloadTypes,
                        Indices, RequestInv,
                        Asked, Answering, Answered, Told
    <2> QED BY <1>1, <2>1, ServerKeepsInv, ClientKeepsInv DEF DownloadNext
  <1> QED BY DownloadInitInv, <1>1, PTL DEF DownloadSpec

\* Files of any sizes are kept apart by nothing but counting: as long as none
\* has grown since the list was made, each gets its own pieces and all of them
\* (download_clnt.c, the loop after the index is sent).
THEOREM FilesApartAlways == DownloadSpec => []FilesApart
  <1>1. DownloadIInv => FilesApart
    BY DEF DownloadIInv, RequestInv, Answered, FilesApart, DownloadTypes
  <1> QED BY DownloadInvariantHolds, <1>1, PTL

=============================================================================

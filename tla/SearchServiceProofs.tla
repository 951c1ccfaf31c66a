------------------------- MODULE SearchServiceProofs -------------------------
(***************************************************************************)
(* What holds of the search server for every number of clients, whatever   *)
(* they type and however often the server's threads are overtaken; and of  *)
(* its search engine for every data.txt, every search word and every size  *)
(* of the alphabet.                                                        *)
(*                                                                         *)
(* The service: every client that was accepted has had one thread made     *)
(* for it, or is the one main is about to make; so the counter counts the  *)
(* threads that have not counted themselves out, and there is a free       *)
(* descriptor and a free thread when main needs one.  As long as no thread *)
(* was overtaken the descriptors in use are open and all different, which  *)
(* is what lets an answer find its client.                                 *)
(*                                                                         *)
(* The engine: a walk collects, each once, the labels of the words at and  *)
(* below a node (Collects), by induction over the depth that is left.  A   *)
(* word has the characters of the search word in their order exactly if    *)
(* they are met on its path (Embeds), and the nodes at which the last of   *)
(* them is met first lie beside each other, never one above another.  The  *)
(* bubble sort is followed comparison by comparison (Passed) and pass by   *)
(* pass (Sorted).  The library's theorems about induction and recursion    *)
(* take predicates, so both are proved here for sets (Induction,           *)
(* Recursion).                                                             *)
(***************************************************************************)
EXTENDS SearchService, SearchTrie, FiniteSetTheorems, WellFoundedInduction, TLAPS

-----------------------------------------------------------------------------
(* The service: its invariant. *)

Serving == {"read", "wait", "answer", "remove", "close"}

Accepted == {c \in Clients : conn[c] # "away"} \ ToSet(backlog)

Created == {t \in Threads : pc[t] # "none"}

\* Each open descriptor leads to an accepted client, each to another one, and
\* as many clients were accepted as threads were or are about to be created.
AcceptedInv ==
    /\ \A c \in ToSet(backlog) : conn[c] # "away"
    /\ \A d \in Descriptors :
        files[d] # None =>
            /\ files[d] \in Accepted
            /\ \A e \in Descriptors : files[e] = files[d] => e = d
    /\ Cardinality(Accepted) =
        Cardinality(Created) + (IF main_pc = "accept" THEN 0 ELSE 1)

\* Variables are set before they are used.
SetInv ==
    /\ main_pc # "accept" => clnt_sock # 0
    /\ \A t \in Threads :
        /\ pc[t] # "none" => clnt_sock # 0
        /\ pc[t] \in Serving => sock[t] # 0
        /\ pc[t] = "wait" => file[t] # None

\* clnt_sock still belongs to the connection accepted last.
Holding == main_pc # "accept" \/ \E t \in Threads : pc[t] = "start"

\* Without overtaking, the descriptors in use are open and all different.
OwnInv ==
    overtaken \/
        /\ \A t \in Threads : pc[t] = "start" =>
            /\ main_pc = "accept"
            /\ \A u \in Threads : pc[u] = "start" => u = t
        /\ Holding => files[clnt_sock] # None
        /\ \A t \in Threads : pc[t] \in Serving =>
            /\ files[sock[t]] # None
            /\ Holding => sock[t] # clnt_sock
            /\ \A u \in Threads : pc[u] \in Serving /\ u # t => sock[t] # sock[u]

\* Without overtaking, a thread answers the client it has read from, or one
\* that is no longer there.
MsgInv ==
    overtaken \/
        \A t \in Threads :
            /\ pc[t] = "wait" => file[t] = files[sock[t]]
            /\ pc[t] = "answer" => \/ msg[t].from = files[sock[t]]
                                   \/ conn[files[sock[t]]] # "here"

IInv ==
    /\ TypeOK
    /\ AcceptedInv
    /\ SetInv
    /\ CountMatches
    /\ OwnInv
    /\ MsgInv
    /\ AnswersToAsker

-----------------------------------------------------------------------------
(* Smallest numbers, counts and sequences. *)

\* A set of numbers from an interval has a smallest one, and Min is it.
LEMMA MinOfInterval ==
    ASSUME NEW m \in Nat, NEW A \in SUBSET (0 .. m), A # {}
    PROVE  Min(A) \in A /\ \A a \in A : Min(A) <= a
  <1> DEFINE T == {0 .. a : a \in A}
  <1>1. T \subseteq FiniteSubsetsOf(0 .. m) /\ T # {}
    <2>1. \A a \in A : 0 .. a \in SUBSET (0 .. m)
      OBVIOUS
    <2>2. \A a \in A : IsFiniteSet(0 .. a)
      BY FS_Interval
    <2> QED BY <2>1, <2>2 DEF FiniteSubsetsOf
  <1>2. PICK x \in T : \A y \in T : <<y, x>> \notin StrictSubsetOrdering(0 .. m)
    <2> HIDE DEF T
    <2>1. IsWellFoundedOn(StrictSubsetOrdering(0 .. m), FiniteSubsetsOf(0 .. m))
      BY FS_StrictSubsetOrderingWellFounded
    <2> QED BY <1>1, <2>1, WFMin
  <1>3. PICK a \in A : x = 0 .. a
    BY <1>2
  <1>4. \A b \in A : a <= b
    <2> SUFFICES ASSUME NEW b \in A, b < a
                 PROVE  FALSE
      OBVIOUS
    <2>1. 0 .. b \in SUBSET (0 .. m) /\ 0 .. a \in SUBSET (0 .. m)
      OBVIOUS
    <2>2. 0 .. b \subseteq 0 .. a /\ a \in 0 .. a /\ a \notin 0 .. b
      OBVIOUS
    <2>3. <<0 .. b, x>> \in StrictSubsetOrdering(0 .. m)
      BY <1>3, <2>1, <2>2 DEF StrictSubsetOrdering
    <2> QED BY <1>2, <2>3
  <1> QED BY <1>4 DEF Min

\* Adding to a queue whose members are all different.
LEMMA AppendQueue ==
    ASSUME NEW T, NEW q \in Seq(T), IsInjective(q), NEW x \in T, x \notin ToSet(q)
    PROVE  /\ Append(q, x) \in Seq(T)
           /\ IsInjective(Append(q, x))
           /\ ToSet(Append(q, x)) = ToSet(q) \cup {x}
  <1> DEFINE q2 == Append(q, x)
  <1>1. /\ q2 \in Seq(T) /\ Len(q) \in Nat
        /\ DOMAIN q = 1 .. Len(q) /\ DOMAIN q2 = 1 .. (Len(q) + 1)
        /\ \A i \in 1 .. Len(q) : q2[i] = q[i]
        /\ q2[Len(q) + 1] = x
    OBVIOUS
  <1> HIDE DEF q2
  <1>2. \A i \in DOMAIN q2 : i \in DOMAIN q \/ i = Len(q) + 1
    BY <1>1
  <1>3. ToSet(q2) = ToSet(q) \cup {x}
    <2>1. ToSet(q2) \subseteq ToSet(q) \cup {x}
      BY <1>1, <1>2 DEF ToSet
    <2>2. ToSet(q) \cup {x} \subseteq ToSet(q2)
      <3>1. \A i \in DOMAIN q : i \in DOMAIN q2 /\ q2[i] = q[i]
        BY <1>1
      <3>2. Len(q) + 1 \in DOMAIN q2
        BY <1>1
      <3> QED BY <3>1, <3>2, <1>1 DEF ToSet
    <2> QED BY <2>1, <2>2
  <1>4. IsInjective(q2)
    <2> SUFFICES ASSUME NEW i \in DOMAIN q2, NEW j \in DOMAIN q2, q2[i] = q2[j]
                 PROVE  i = j
      BY DEF IsInjective
    <2>1. CASE i \in DOMAIN q /\ j \in DOMAIN q
      BY <1>1, <2>1 DEF IsInjective
    <2>2. CASE ~(i \in DOMAIN q /\ j \in DOMAIN q)
      BY <1>1, <1>2, <2>2 DEF ToSet
    <2> QED BY <2>1, <2>2
  <1> QED BY <1>1, <1>3, <1>4 DEF q2

\* Taking the first of a queue whose members are all different.
LEMMA TailQueue ==
    ASSUME NEW T, NEW q \in Seq(T), IsInjective(q), q # << >>
    PROVE  /\ Tail(q) \in Seq(T) /\ IsInjective(Tail(q))
           /\ Head(q) \in T /\ Head(q) \in ToSet(q)
           /\ ToSet(Tail(q)) = ToSet(q) \ {Head(q)}
  <1>1. /\ Tail(q) \in Seq(T) /\ Head(q) \in T /\ Len(q) \in Nat
        /\ Len(q) > 0 /\ DOMAIN q = 1 .. Len(q)
        /\ DOMAIN Tail(q) = 1 .. (Len(q) - 1)
        /\ Head(q) = q[1]
        /\ \A i \in 1 .. (Len(q) - 1) : Tail(q)[i] = q[i + 1]
    OBVIOUS
  <1>2. IsInjective(Tail(q))
    BY <1>1 DEF IsInjective
  <1>3. Head(q) \in ToSet(q)
    BY <1>1 DEF ToSet
  <1>4. ToSet(Tail(q)) \subseteq ToSet(q) \ {Head(q)}
    BY <1>1 DEF ToSet, IsInjective
  <1>5. ToSet(q) \ {Head(q)} \subseteq ToSet(Tail(q))
    <2> SUFFICES ASSUME NEW i \in 1 .. Len(q), i # 1
                 PROVE  q[i] \in ToSet(Tail(q))
      BY <1>1 DEF ToSet
    <2> DEFINE j == i - 1
    <2>1. j \in DOMAIN Tail(q) /\ j + 1 = i
      BY <1>1
    <2>2. Tail(q)[j] = q[i]
      BY <2>1, <1>1
    <2> QED BY <2>1, <2>2 DEF ToSet
  <1> QED BY <1>1, <1>2, <1>3, <1>4, <1>5

\* As many threads and descriptors as there are clients.
LEMMA Population ==
    /\ Cardinality(Clients) \in Nat
    /\ IsFiniteSet(Threads) /\ Cardinality(Threads) = Cardinality(Clients)
    /\ IsFiniteSet(Descriptors) /\ Cardinality(Descriptors) = Cardinality(Clients)
  <1>1. Cardinality(Clients) \in Nat
    BY ServiceAssumption, FS_CardinalityType
  <1>2. /\ IsFiniteSet(1 .. Cardinality(Clients))
        /\ Cardinality(1 .. Cardinality(Clients)) = Cardinality(Clients)
    BY <1>1, FS_Interval
  <1> QED BY <1>1, <1>2 DEF Threads, Descriptors

\* A set of threads is finite.
LEMMA ThreadSets ==
    ASSUME NEW A \in SUBSET Threads
    PROVE  IsFiniteSet(A) /\ Cardinality(A) \in Nat
  BY Population, FS_Subset, FS_CardinalityType

\* Adding and removing a thread counts.
LEMMA CountThreads ==
    ASSUME NEW A \in SUBSET Threads, NEW t \in Threads
    PROVE  /\ t \notin A => Cardinality(A \cup {t}) = Cardinality(A) + 1
           /\ t \in A => Cardinality(A \ {t}) = Cardinality(A) - 1
  BY ThreadSets, FS_AddElement, FS_RemoveElement

\* The same for clients.
LEMMA CountClients ==
    ASSUME NEW A \in SUBSET Clients, NEW c \in Clients
    PROVE  /\ IsFiniteSet(A)
           /\ Cardinality(A) \in 0 .. Cardinality(Clients)
           /\ c \notin A => /\ Cardinality(A \cup {c}) = Cardinality(A) + 1
                            /\ Cardinality(A) < Cardinality(Clients)
  <1>1. IsFiniteSet(A) /\ Cardinality(A) <= Cardinality(Clients)
        /\ (Cardinality(Clients) = Cardinality(A) => Clients = A)
    BY ServiceAssumption, FS_Subset
  <1>2. Cardinality(A) \in Nat /\ Cardinality(Clients) \in Nat
    BY <1>1, Population, FS_CardinalityType
  <1>3. c \notin A => Cardinality(A \cup {c}) = Cardinality(A) + 1
    BY <1>1, FS_AddElement
  <1> QED BY <1>1, <1>2, <1>3

-----------------------------------------------------------------------------
(* What main needs is there when it needs it. *)

\* A client that waits for accept finds a free descriptor.
LEMMA FreeDescriptor ==
    ASSUME IInv, main_pc = "accept", backlog # << >>
    PROVE  \E d \in Descriptors : files[d] = None
  <1> SUFFICES ASSUME \A d \in Descriptors : files[d] # None
               PROVE  FALSE
    OBVIOUS
  <1> DEFINE f == [d \in Descriptors |-> files[d]]
  <1>1. f \in Injection(Descriptors, Accepted)
    <2>1. f \in [Descriptors -> Accepted]
      BY DEF IInv, AcceptedInv
    <2>2. IsInjective(f)
      BY DEF IInv, AcceptedInv, IsInjective
    <2> QED BY <2>1, <2>2 DEF Injection
  <1>2. Head(backlog) \in Clients /\ Head(backlog) \notin Accepted
        /\ Accepted \in SUBSET Clients
    BY TailQueue DEF IInv, TypeOK, Accepted
  <1>3. Cardinality(Accepted) < Cardinality(Clients) /\ IsFiniteSet(Accepted)
    BY <1>2, CountClients
  <1>4. Cardinality(Accepted) \in Nat
    BY <1>3, FS_CardinalityType
  <1>5. Cardinality(Descriptors) <= Cardinality(Accepted)
    <2> HIDE DEF f
    <2> QED BY <1>1, <1>3, FS_Injection
  <1> QED BY <1>3, <1>4, <1>5, Population

\* main finds a thread it has not created yet, and room in the table.
LEMMA FreeThread ==
    ASSUME IInv, main_pc # "accept"
    PROVE  /\ \E t \in Threads : pc[t] = "none"
           /\ Cardinality(InTable) < Cardinality(Clients)
  <1>1. Accepted \in SUBSET Clients /\ Created \in SUBSET Threads
        /\ InTable \in SUBSET Created
    BY DEF Accepted, Created, InTable
  <1>2. Cardinality(Accepted) = Cardinality(Created) + 1
    BY DEF IInv, AcceptedInv
  <1>3. Cardinality(Accepted) <= Cardinality(Clients)
    BY <1>1, ServiceAssumption, FS_Subset
  <1>4. /\ IsFiniteSet(Created) /\ Cardinality(Created) \in Nat
        /\ Cardinality(InTable) <= Cardinality(Created)
        /\ IsFiniteSet(InTable) /\ Cardinality(InTable) \in Nat
    BY <1>1, Population, FS_Subset, FS_CardinalityType
  <1>5. Cardinality(Clients) \in Nat /\ Cardinality(Threads) = Cardinality(Clients)
    BY Population
  <1>6. Created # Threads
    BY <1>2, <1>3, <1>4, <1>5
  <1> QED BY <1>1, <1>2, <1>3, <1>4, <1>5, <1>6 DEF Created

-----------------------------------------------------------------------------
(* The invariant holds at the start and every action keeps it. *)

LEMMA InitInv == ASSUME Init PROVE IInv
  <1>1. TypeOK
    <2>1. Cardinality(Clients) \in Nat /\ NoMsg \in Messages
      BY Population DEF NoMsg, Messages
    <2>2. << >> \in Seq(Clients) /\ IsInjective(<< >>)
      BY DEF IsInjective
    <2>3. alive \in BOOLEAN /\ overtaken \in BOOLEAN
      BY Zenon DEF Init
    <2>4. /\ main_pc \in {"accept", "save", "create"}
          /\ clnt_sock \in Descriptors \cup {0}
          /\ clnt_cnt \in 0 .. Cardinality(Clients)
      BY <2>1 DEF Init
    <2>5. /\ clnt_socks \in [0 .. MAX_CLNT - 1 -> Descriptors \cup {0}]
          /\ files \in [Descriptors -> Clients \cup {None}]
          /\ pc \in [Threads ->
                {"none", "start", "read", "wait", "answer", "remove", "close", "done"}]
          /\ sock \in [Threads -> Descriptors \cup {0}]
          /\ file \in [Threads -> Clients \cup {None}]
          /\ msg \in [Threads -> Messages]
      BY <2>1 DEF Init
    <2>6. /\ conn \in [Clients -> {"away", "here", "left", "reset"}]
          /\ word_in_search \in [Clients -> Words]
          /\ keys \in [Clients -> 0 .. MaxKeys]
          /\ shown \in [Clients -> Words \cup {Garbled}]
      BY ServiceAssumption DEF Init, Words
    <2>7. /\ stream \in [Clients -> Seq(Words \ {0})]
          /\ answers \in [Clients -> Seq(Messages)]
      BY DEF Init
    <2>8. backlog \in Seq(Clients) /\ IsInjective(backlog)
      BY <2>2 DEF Init
    <2> QED BY <2>4, <2>5, <2>6, <2>7, <2>8, <2>3 DEF TypeOK
  <1>2. Created = {} /\ InTable = {} /\ Accepted = {} /\ ToSet(backlog) = {}
    BY DEF Init, Created, InTable, Accepted, ToSet
  <1>3. AcceptedInv
    BY <1>2, FS_EmptySet DEF Init, AcceptedInv
  <1>4. SetInv /\ OwnInv /\ MsgInv
    BY DEF Init, SetInv, OwnInv, MsgInv, Serving, Holding
  <1>5. CountMatches
    BY <1>2, FS_EmptySet DEF Init, CountMatches
  <1>6. AnswersToAsker
    BY DEF Init, AnswersToAsker
  <1> QED BY <1>1, <1>3, <1>4, <1>5, <1>6 DEF IInv

\* Steps that accept nobody and create nothing.
LEMMA AcceptedFrame ==
    ASSUME IInv,
           UNCHANGED <<backlog, main_pc>>,
           \A c \in Clients : conn'[c] = "away" <=> conn[c] = "away",
           \A t \in Threads : pc'[t] = "none" <=> pc[t] = "none",
           \A d \in Descriptors : files'[d] \in {files[d], None}
    PROVE  AcceptedInv'
  <1>1. Accepted' = Accepted /\ Created' = Created
    BY DEF Accepted, Created
  <1>2. \A c \in ToSet(backlog) : c \in Clients
    BY DEF IInv, TypeOK, ToSet
  <1> QED BY <1>1, <1>2 DEF IInv, AcceptedInv

\* A thread that serves a client goes on doing so.
LEMMA ServingStep ==
    ASSUME IInv, NEW t \in Threads, NEW x \in Serving,
           pc[t] \in Serving, pc' = [pc EXCEPT ![t] = x],
           UNCHANGED <<main_pc, clnt_sock, files, backlog, sock, overtaken>>,
           \A c \in Clients : conn'[c] = "away" <=> conn[c] = "away"
    PROVE  /\ AcceptedInv' /\ OwnInv'
           /\ pc'[t] = x
           /\ \A u \in Threads \ {t} : pc'[u] = pc[u]
           /\ sock[t] \in Descriptors
           /\ x \in {"read", "wait", "answer", "remove"}
              /\ pc[t] \in {"read", "wait", "answer", "remove"} => InTable' = InTable
  <1>1. /\ pc \in [Threads ->
                {"none", "start", "read", "wait", "answer", "remove", "close", "done"}]
        /\ sock \in [Threads -> Descriptors \cup {0}]
    BY DEF IInv, TypeOK
  <1>2. /\ pc'[t] = x /\ \A u \in Threads \ {t} : pc'[u] = pc[u]
        /\ sock[t] \in Descriptors
    BY <1>1 DEF IInv, SetInv, Serving
  <1>3. AcceptedInv'
    <2>1. \A u \in Threads : pc'[u] = "none" <=> pc[u] = "none"
      BY <1>2 DEF Serving
    <2> QED BY <2>1, AcceptedFrame
  <1>4. /\ \A u \in Threads : pc'[u] = "start" <=> pc[u] = "start"
        /\ \A u \in Threads : pc'[u] \in Serving <=> pc[u] \in Serving
    BY <1>2 DEF Serving
  <1>5. Holding' <=> Holding
    BY <1>4 DEF Holding
  <1>6. OwnInv'
    BY <1>4, <1>5 DEF IInv, OwnInv
  <1>7. x \in {"read", "wait", "answer", "remove"}
        /\ pc[t] \in {"read", "wait", "answer", "remove"} => InTable' = InTable
    BY <1>2 DEF InTable
  <1> QED BY <1>2, <1>3, <1>6, <1>7

LEMMA AcceptInv == ASSUME IInv, Accept PROVE IInv'
  <1> DEFINE free == {d \in Descriptors : files[d] = None}
             c == Head(backlog)
  <1>1. clnt_sock' \in Descriptors /\ files[clnt_sock'] = None /\ clnt_sock' # 0
    <2>1. /\ free # {} /\ free \in SUBSET (0 .. Cardinality(Clients))
          /\ Cardinality(Clients) \in Nat
      BY FreeDescriptor, Population DEF Accept, Descriptors
    <2>2. Min(free) \in free
      <3> HIDE DEF free
      <3> QED BY <2>1, MinOfInterval
    <2> QED BY <2>2 DEF Accept, Descriptors
  <1>2. /\ backlog' \in Seq(Clients) /\ IsInjective(backlog')
        /\ c \in Clients /\ c \in ToSet(backlog)
        /\ ToSet(backlog') = ToSet(backlog) \ {c}
    BY TailQueue DEF Accept, IInv, TypeOK
  <1>3. /\ files' = [files EXCEPT ![clnt_sock'] = c]
        /\ files \in [Descriptors -> Clients \cup {None}]
        /\ main_pc = "accept" /\ main_pc' = "save"
        /\ UNCHANGED <<clnt_cnt, clnt_socks, pc, sock, file, msg, conn,
                       word_in_search, keys, shown, stream, answers, alive>>
    BY DEF Accept, IInv, TypeOK, table, threads, client
  <1> HIDE DEF c
  <1>4. /\ files' \in [Descriptors -> Clients \cup {None}]
        /\ files'[clnt_sock'] = c
        /\ \A d \in Descriptors \ {clnt_sock'} : files'[d] = files[d]
    BY <1>1, <1>2, <1>3
  <1>5. TypeOK'
    <2>1. overtaken' \in BOOLEAN
      BY DEF Accept, IInv, TypeOK
    <2>2. alive' \in BOOLEAN
      BY <1>3 DEF IInv, TypeOK
    <2> QED BY <1>1, <1>2, <1>3, <1>4, <2>1, <2>2 DEF IInv, TypeOK
  <1>6. AcceptedInv'
    <2>1. Accepted' = Accepted \cup {c} /\ c \notin Accepted /\ Created' = Created
      BY <1>2, <1>3 DEF Accepted, Created, IInv, AcceptedInv
    <2>2. Cardinality(Accepted \cup {c}) = Cardinality(Accepted) + 1
      BY <2>1, <1>2, CountClients, Accepted \in SUBSET Clients DEF Accepted
    <2>3. Cardinality(Created) \in Nat
      BY ThreadSets, Created \in SUBSET Threads DEF Created
    <2>4. Cardinality(Accepted') = Cardinality(Created') + 1
      BY <1>3, <2>1, <2>2, <2>3 DEF IInv, AcceptedInv
    <2>5. \A d \in ToSet(backlog') : conn'[d] # "away"
      BY <1>2, <1>3 DEF IInv, AcceptedInv
    <2>6. c # None /\ \A d \in Descriptors : files[d] # c
      BY <1>2, <2>1, ServiceAssumption DEF IInv, AcceptedInv
    <2>7. ASSUME NEW d \in Descriptors, files'[d] # None
          PROVE  /\ files'[d] \in Accepted'
                 /\ \A e \in Descriptors : files'[e] = files'[d] => e = d
      BY <1>4, <2>1, <2>6, <2>7 DEF IInv, AcceptedInv
    <2> QED BY <1>3, <2>4, <2>5, <2>7 DEF AcceptedInv
  <1>7. SetInv'
    BY <1>1, <1>3 DEF IInv, SetInv
  <1>8. CountMatches'
    BY <1>3 DEF IInv, CountMatches, InTable
  <1>9. OwnInv'
    <2> SUFFICES ASSUME ~overtaken'
                 PROVE  OwnInv'
      BY DEF OwnInv
    <2>1. ~overtaken /\ \A t \in Threads : pc[t] # "start"
      BY DEF Accept
    <2>2. c # None
      BY <1>2, ServiceAssumption
    <2>3. \A t \in Threads : pc[t] \in Serving =>
            /\ sock[t] \in Descriptors
            /\ files[sock[t]] # None
            /\ \A u \in Threads : pc[u] \in Serving /\ u # t => sock[t] # sock[u]
      BY <2>1 DEF IInv, OwnInv, SetInv, TypeOK
    <2>4. \A t \in Threads : pc[t] \in Serving => sock[t] # clnt_sock'
      BY <1>1, <2>3
    <2> QED BY <1>3, <1>4, <2>1, <2>2, <2>3, <2>4 DEF OwnInv, Holding
  <1>10. MsgInv'
    <2> SUFFICES ASSUME ~overtaken'
                 PROVE  MsgInv'
      BY DEF MsgInv
    <2>1. ~overtaken
      BY DEF Accept
    <2>2. \A t \in Threads : pc[t] \in Serving => files'[sock[t]] = files[sock[t]]
      BY <1>1, <1>4, <2>1 DEF IInv, OwnInv, SetInv, TypeOK
    <2> QED BY <1>3, <2>1, <2>2 DEF IInv, MsgInv, Serving
  <1>11. AnswersToAsker'
    BY <1>3 DEF Accept, IInv, AnswersToAsker
  <1> QED BY <1>5, <1>6, <1>7, <1>8, <1>9, <1>10, <1>11 DEF IInv

LEMMA SaveInv == ASSUME IInv, SaveClient PROVE IInv'
  <1>1. /\ main_pc = "save" /\ main_pc' = "create"
        /\ clnt_cnt' = clnt_cnt + 1
        /\ clnt_socks' = [clnt_socks EXCEPT ![clnt_cnt] = clnt_sock]
        /\ UNCHANGED <<clnt_sock, files, backlog, pc, sock, file, msg, conn,
                       word_in_search, keys, shown, stream, answers, alive,
                       overtaken>>
    BY DEF SaveClient, threads, client
  <1>2. clnt_cnt + 1 \in 0 .. Cardinality(Clients)
    <2>1. /\ Cardinality(InTable) < Cardinality(Clients)
          /\ Cardinality(Clients) \in Nat
          /\ Cardinality(InTable) \in Nat
      BY <1>1, FreeThread, Population, ThreadSets, InTable \in SUBSET Threads
         DEF InTable
    <2>2. clnt_cnt = Cardinality(InTable) + 0
      BY <1>1 DEF IInv, CountMatches
    <2> QED BY <2>1, <2>2
  <1>3. TypeOK'
    <2>1. alive' \in BOOLEAN /\ overtaken' \in BOOLEAN
      BY <1>1 DEF IInv, TypeOK
    <2> QED BY <1>1, <1>2, <2>1 DEF IInv, TypeOK
  <1>4. AcceptedInv'
    BY <1>1 DEF IInv, AcceptedInv, Accepted, Created
  <1>5. SetInv' /\ OwnInv' /\ MsgInv' /\ AnswersToAsker'
    BY <1>1 DEF IInv, SetInv, OwnInv, Holding, MsgInv, AnswersToAsker
  <1>6. CountMatches'
    <2>1. InTable' = InTable /\ Cardinality(InTable) \in Nat
      BY <1>1, ThreadSets, InTable \in SUBSET Threads DEF InTable
    <2> QED BY <1>1, <2>1 DEF IInv, CountMatches
  <1> QED BY <1>3, <1>4, <1>5, <1>6 DEF IInv

LEMMA CreateInv == ASSUME IInv, CreateThread PROVE IInv'
  <1> DEFINE free == {u \in Threads : pc[u] = "none"}
             t == Min(free)
  <1>1. t \in Threads /\ pc[t] = "none"
    <2>1. /\ free # {} /\ free \in SUBSET (0 .. Cardinality(Clients))
          /\ Cardinality(Clients) \in Nat
      BY FreeThread, Population DEF CreateThread, Threads
    <2>2. Min(free) \in free
      <3> HIDE DEF free
      <3> QED BY <2>1, MinOfInterval
    <2> QED BY <2>2
  <1>2. /\ pc' = [pc EXCEPT ![t] = "start"]
        /\ main_pc = "create" /\ main_pc' = "accept"
        /\ UNCHANGED <<clnt_sock, clnt_cnt, clnt_socks, files, backlog, sock,
                       file, msg, conn, word_in_search, keys, shown, stream,
                       answers, alive, overtaken>>
    BY DEF CreateThread, LeftOpen, table, client
  <1> HIDE DEF t
  <1>3. /\ pc'[t] = "start" /\ \A u \in Threads \ {t} : pc'[u] = pc[u]
        /\ pc' \in [Threads ->
                {"none", "start", "read", "wait", "answer", "remove", "close", "done"}]
    BY <1>1, <1>2 DEF IInv, TypeOK
  <1>4. TypeOK'
    <2>1. alive' \in BOOLEAN /\ overtaken' \in BOOLEAN
      BY <1>2 DEF IInv, TypeOK
    <2> QED BY <1>2, <1>3, <2>1 DEF IInv, TypeOK
  <1>5. /\ Created' = Created \cup {t} /\ t \notin Created
        /\ InTable' = InTable \cup {t} /\ t \notin InTable
        /\ Accepted' = Accepted
        /\ Created \in SUBSET Threads /\ InTable \in SUBSET Threads
    BY <1>1, <1>2, <1>3 DEF Created, InTable, Accepted
  <1>6. /\ Cardinality(Created') = Cardinality(Created) + 1
        /\ Cardinality(InTable') = Cardinality(InTable) + 1
        /\ Cardinality(Created) \in Nat /\ Cardinality(InTable) \in Nat
    BY <1>1, <1>5, CountThreads, ThreadSets
  <1>7. AcceptedInv'
    BY <1>2, <1>5, <1>6 DEF IInv, AcceptedInv
  <1>8. SetInv'
    BY <1>1, <1>2, <1>3 DEF IInv, SetInv, Serving
  <1>9. CountMatches'
    BY <1>2, <1>6 DEF IInv, CountMatches
  <1>10. OwnInv'
    <2> SUFFICES ASSUME ~overtaken
                 PROVE  OwnInv'
      BY <1>2 DEF OwnInv
    <2>1. \A u \in Threads : pc[u] # "start"
      BY <1>2 DEF IInv, OwnInv
    <2>2. \A u \in Threads : pc'[u] = "start" => u = t
      BY <1>3, <2>1
    <2>3. \A u \in Threads : pc'[u] \in Serving => pc[u] \in Serving
      BY <1>3 DEF Serving
    <2>4. Holding
      BY <1>2 DEF Holding
    <2> QED BY <1>2, <2>2, <2>3, <2>4 DEF IInv, OwnInv
  <1>11. MsgInv' /\ AnswersToAsker'
    BY <1>2, <1>3 DEF IInv, MsgInv, AnswersToAsker
  <1> QED BY <1>4, <1>7, <1>8, <1>9, <1>10, <1>11 DEF IInv

LEMMA StartInv == ASSUME IInv, NEW t \in Threads, Start(t) PROVE IInv'
  <1>1. /\ pc[t] = "start" /\ pc' = [pc EXCEPT ![t] = "read"]
        /\ sock' = [sock EXCEPT ![t] = clnt_sock]
        /\ UNCHANGED <<main_pc, clnt_sock, clnt_cnt, clnt_socks, files, backlog,
                       file, msg, conn, word_in_search, keys, shown, stream,
                       answers, alive, overtaken>>
    BY DEF Start, mainVars, table, client
  <1>2. /\ pc \in [Threads ->
                {"none", "start", "read", "wait", "answer", "remove", "close", "done"}]
        /\ sock \in [Threads -> Descriptors \cup {0}]
        /\ clnt_sock \in Descriptors
    BY <1>1 DEF IInv, TypeOK, SetInv
  <1>3. /\ pc'[t] = "read" /\ \A u \in Threads \ {t} : pc'[u] = pc[u]
        /\ sock'[t] = clnt_sock /\ \A u \in Threads \ {t} : sock'[u] = sock[u]
    BY <1>1, <1>2
  <1>4. TypeOK'
    <2>1. alive' \in BOOLEAN /\ overtaken' \in BOOLEAN
      BY <1>1 DEF IInv, TypeOK
    <2> QED BY <1>1, <1>2, <2>1 DEF IInv, TypeOK
  <1>5. AcceptedInv'
    <2>1. \A u \in Threads : pc'[u] = "none" <=> pc[u] = "none"
      BY <1>1, <1>3
    <2> QED BY <1>1, <2>1, AcceptedFrame
  <1>6. SetInv'
    BY <1>1, <1>2, <1>3, 0 \notin Descriptors DEF IInv, SetInv, Serving, Descriptors
  <1>7. CountMatches'
    <2>1. InTable' = InTable
      BY <1>1, <1>3 DEF InTable
    <2> QED BY <1>1, <2>1 DEF IInv, CountMatches
  <1>8. OwnInv'
    <2> SUFFICES ASSUME ~overtaken
                 PROVE  OwnInv'
      BY <1>1 DEF OwnInv
    <2>1. main_pc = "accept" /\ (\A u \in Threads : pc[u] = "start" => u = t)
          /\ Holding /\ files[clnt_sock] # None
      BY <1>1 DEF IInv, OwnInv, Holding
    <2>2. \A u \in Threads : pc'[u] # "start"
      BY <1>3, <2>1
    <2>3. ~Holding'
      BY <1>1, <2>1, <2>2 DEF Holding
    <2>4. \A u \in Threads \ {t} : pc'[u] \in Serving =>
            /\ files[sock[u]] # None /\ sock[u] # clnt_sock
            /\ \A v \in Threads : pc[v] \in Serving /\ v # u => sock[u] # sock[v]
      BY <1>3, <2>1 DEF IInv, OwnInv
    <2> QED BY <1>1, <1>3, <2>1, <2>2, <2>3, <2>4 DEF OwnInv
  <1>9. MsgInv' /\ AnswersToAsker'
    BY <1>1, <1>3 DEF IInv, MsgInv, AnswersToAsker
  <1> QED BY <1>4, <1>5, <1>6, <1>7, <1>8, <1>9 DEF IInv

LEMMA CallReadInv == ASSUME IInv, NEW t \in Threads, CallRead(t) PROVE IInv'
  <1> DEFINE x == IF file'[t] = None THEN "answer" ELSE "wait"
  <1>1. /\ pc[t] = "read" /\ pc' = [pc EXCEPT ![t] = x]
        /\ file' = [file EXCEPT ![t] = files[sock[t]]]
        /\ UNCHANGED <<main_pc, clnt_sock, clnt_cnt, clnt_socks, files, backlog,
                       sock, msg, conn, word_in_search, keys, shown, stream,
                       answers, alive, overtaken>>
    BY DEF CallRead, mainVars, table, client
  <1>2. x \in {"answer", "wait"} /\ x \in Serving /\ pc[t] \in Serving
    BY <1>1 DEF Serving
  <1>3. /\ AcceptedInv' /\ OwnInv'
        /\ pc'[t] = x /\ \A u \in Threads \ {t} : pc'[u] = pc[u]
        /\ sock[t] \in Descriptors /\ InTable' = InTable
    <2> HIDE DEF x
    <2> QED BY <1>1, <1>2, ServingStep
  <1>4. /\ files[sock[t]] \in Clients \cup {None}
        /\ file'[t] = files[sock[t]]
        /\ \A u \in Threads \ {t} : file'[u] = file[u]
        /\ file' \in [Threads -> Clients \cup {None}]
    BY <1>1, <1>3 DEF IInv, TypeOK
  <1>5. TypeOK'
    <2>1. alive' \in BOOLEAN /\ overtaken' \in BOOLEAN
      BY <1>1 DEF IInv, TypeOK
    <2> QED BY <1>1, <1>2, <1>4, <2>1 DEF IInv, TypeOK
  <1>6. SetInv'
    BY <1>1, <1>2, <1>3, <1>4 DEF IInv, SetInv, Serving
  <1>7. CountMatches' /\ AnswersToAsker'
    BY <1>1, <1>3 DEF IInv, CountMatches, AnswersToAsker
  <1>8. MsgInv'
    <2>1. ~overtaken => files[sock[t]] # None
      BY <1>1, <1>2 DEF IInv, OwnInv
    <2> QED BY <1>1, <1>3, <1>4, <2>1 DEF IInv, MsgInv
  <1> QED BY <1>3, <1>5, <1>6, <1>7, <1>8 DEF IInv

LEMMA ReadWordsInv == ASSUME IInv, NEW t \in Threads, ReadWords(t) PROVE IInv'
  <1> DEFINE s == stream[file[t]]
  <1>1. PICK n \in 1 .. Len(s) :
            /\ msg' = [msg EXCEPT ![t] = [from |-> file[t], words |-> SubSeq(s, 1, n)]]
            /\ stream' = [stream EXCEPT ![file[t]] = SubSeq(s, n + 1, Len(s))]
    BY DEF ReadWords
  <1>2. /\ pc[t] = "wait" /\ pc' = [pc EXCEPT ![t] = "answer"]
        /\ file' = [file EXCEPT ![t] = None]
        /\ UNCHANGED <<main_pc, clnt_sock, clnt_cnt, clnt_socks, files, backlog,
                       sock, conn, word_in_search, keys, shown, answers, alive,
                       overtaken>>
    BY DEF ReadWords, mainVars, table, client
  <1>3. /\ AcceptedInv' /\ OwnInv'
        /\ pc'[t] = "answer" /\ \A u \in Threads \ {t} : pc'[u] = pc[u]
        /\ sock[t] \in Descriptors /\ InTable' = InTable
    BY <1>2, ServingStep DEF Serving
  <1>4. file[t] \in Clients
    BY <1>2 DEF IInv, TypeOK, SetInv
  <1>5. /\ SubSeq(s, 1, n) \in Seq(Words)
        /\ SubSeq(s, n + 1, Len(s)) \in Seq(Words \ {0})
    <2>1. s \in Seq(Words \ {0})
      BY <1>4 DEF IInv, TypeOK
    <2> HIDE DEF s
    <2>2. \A i \in 1 .. Len(s) : s[i] \in Words \ {0}
      BY <2>1
    <2> QED BY <2>1, <2>2
  <1> HIDE DEF s
  <1>6. /\ msg' \in [Threads -> Messages]
        /\ msg'[t].from = file[t] /\ \A u \in Threads \ {t} : msg'[u] = msg[u]
    <2>1. [from |-> file[t], words |-> SubSeq(s, 1, n)] \in Messages
      BY <1>4, <1>5 DEF Messages
    <2> QED BY <1>1, <2>1 DEF IInv, TypeOK
  <1>7. TypeOK'
    <2>1. alive' \in BOOLEAN /\ overtaken' \in BOOLEAN
      BY <1>2 DEF IInv, TypeOK
    <2>2. stream' \in [Clients -> Seq(Words \ {0})]
      BY <1>1, <1>4, <1>5 DEF IInv, TypeOK
    <2> QED BY <1>2, <1>6, <2>1, <2>2 DEF IInv, TypeOK
  <1>8. SetInv'
    BY <1>2, <1>3 DEF IInv, SetInv, Serving, TypeOK
  <1>9. CountMatches' /\ AnswersToAsker'
    BY <1>2, <1>3 DEF IInv, CountMatches, AnswersToAsker
  <1>10. MsgInv'
    BY <1>2, <1>3, <1>6 DEF IInv, MsgInv, TypeOK
  <1> QED BY <1>3, <1>7, <1>8, <1>9, <1>10 DEF IInv

LEMMA ReadEndInv == ASSUME IInv, NEW t \in Threads, ReadEnd(t) PROVE IInv'
  <1>1. /\ pc[t] = "wait" /\ pc' = [pc EXCEPT ![t] = "remove"]
        /\ file' = [file EXCEPT ![t] = None]
        /\ UNCHANGED <<main_pc, clnt_sock, clnt_cnt, clnt_socks, files, backlog,
                       sock, msg, conn, word_in_search, keys, shown, stream,
                       answers, alive, overtaken>>
    BY DEF ReadEnd, mainVars, table, client
  <1>2. /\ AcceptedInv' /\ OwnInv'
        /\ pc'[t] = "remove" /\ \A u \in Threads \ {t} : pc'[u] = pc[u]
        /\ sock[t] \in Descriptors /\ InTable' = InTable
    BY <1>1, ServingStep DEF Serving
  <1>3. TypeOK'
    <2>1. alive' \in BOOLEAN /\ overtaken' \in BOOLEAN
      BY <1>1 DEF IInv, TypeOK
    <2> QED BY <1>1, <2>1 DEF IInv, TypeOK
  <1>4. SetInv' /\ MsgInv'
    BY <1>1, <1>2 DEF IInv, SetInv, MsgInv, Serving, TypeOK
  <1>5. CountMatches' /\ AnswersToAsker'
    BY <1>1, <1>2 DEF IInv, CountMatches, AnswersToAsker
  <1> QED BY <1>2, <1>3, <1>4, <1>5 DEF IInv

LEMMA ReadResetInv == ASSUME IInv, NEW t \in Threads, ReadReset(t) PROVE IInv'
  <1>1. /\ pc[t] = "wait" /\ pc' = [pc EXCEPT ![t] = "answer"]
        /\ conn[file[t]] = "reset" /\ conn' = [conn EXCEPT ![file[t]] = "left"]
        /\ file' = [file EXCEPT ![t] = None]
        /\ UNCHANGED <<main_pc, clnt_sock, clnt_cnt, clnt_socks, files, backlog,
                       sock, msg, word_in_search, keys, shown, stream, answers,
                       alive, overtaken>>
    BY DEF ReadReset, mainVars, table
  <1>2. /\ file[t] \in Clients
        /\ conn \in [Clients -> {"away", "here", "left", "reset"}]
    BY <1>1 DEF IInv, TypeOK, SetInv
  <1>3. /\ \A c \in Clients : conn'[c] = "away" <=> conn[c] = "away"
        /\ \A c \in Clients : conn'[c] = "here" => conn[c] = "here"
        /\ conn'[file[t]] = "left"
    BY <1>1, <1>2
  <1>4. /\ AcceptedInv' /\ OwnInv'
        /\ pc'[t] = "answer" /\ \A u \in Threads \ {t} : pc'[u] = pc[u]
        /\ sock[t] \in Descriptors /\ InTable' = InTable
    BY <1>1, <1>3, ServingStep DEF Serving
  <1>5. TypeOK'
    <2>1. alive' \in BOOLEAN /\ overtaken' \in BOOLEAN
      BY <1>1 DEF IInv, TypeOK
    <2> QED BY <1>1, <1>2, <2>1 DEF IInv, TypeOK
  <1>6. SetInv'
    BY <1>1, <1>4 DEF IInv, SetInv, Serving, TypeOK
  <1>7. CountMatches' /\ AnswersToAsker'
    BY <1>1, <1>4 DEF IInv, CountMatches, AnswersToAsker
  <1>8. MsgInv'
    <2> SUFFICES ASSUME ~overtaken, NEW u \in Threads
                 PROVE  /\ pc'[u] = "wait" => file'[u] = files[sock[u]]
                        /\ pc'[u] = "answer" => \/ msg[u].from = files[sock[u]]
                                                \/ conn'[files[sock[u]]] # "here"
      BY <1>1 DEF MsgInv
    <2>1. CASE u = t
      BY <1>1, <1>3, <1>4, <2>1 DEF IInv, MsgInv
    <2>2. CASE u # t
      <3>1. pc'[u] = pc[u] /\ file'[u] = file[u]
        BY <1>1, <1>4, <2>2 DEF IInv, TypeOK
      <3>2. pc[u] = "answer" => files[sock[u]] \in Clients
        BY DEF IInv, OwnInv, SetInv, TypeOK, Serving
      <3> QED BY <1>3, <3>1, <3>2 DEF IInv, MsgInv
    <2> QED BY <2>1, <2>2
  <1> QED BY <1>4, <1>5, <1>6, <1>7, <1>8 DEF IInv

LEMMA AnswerInv == ASSUME IInv, NEW t \in Threads, Answer(t) PROVE IInv'
  <1> DEFINE c == files[sock[t]]
  <1>1. /\ pc[t] = "answer" /\ pc' = [pc EXCEPT ![t] = "read"]
        /\ UNCHANGED <<main_pc, clnt_sock, clnt_cnt, clnt_socks, files, backlog,
                       sock, file, msg, conn, word_in_search, keys, shown,
                       stream, overtaken>>
        /\ \/ c # None /\ conn[c] = "here"
              /\ answers' = [answers EXCEPT ![c] = Append(answers[c], msg[t])]
           \/ answers' = answers
    BY DEF Answer, AnswerSock, mainVars, table, client
  <1>2. /\ AcceptedInv' /\ OwnInv'
        /\ pc'[t] = "read" /\ \A u \in Threads \ {t} : pc'[u] = pc[u]
        /\ sock[t] \in Descriptors /\ InTable' = InTable
    BY <1>1, ServingStep DEF Serving
  <1>3. /\ c \in Clients \cup {None}
        /\ answers \in [Clients -> Seq(Messages)] /\ msg[t] \in Messages
    BY <1>2 DEF IInv, TypeOK
  <1> HIDE DEF c
  <1>4. answers' \in [Clients -> Seq(Messages)]
    <2>1. CASE answers' = answers
      BY <1>3, <2>1
    <2>2. CASE answers' # answers
      <3>1. /\ c \in Clients
            /\ answers' = [answers EXCEPT ![c] = Append(answers[c], msg[t])]
        BY <1>1, <1>3, <2>2
      <3>2. Append(answers[c], msg[t]) \in Seq(Messages)
        BY <1>3, <3>1
      <3> QED BY <1>3, <3>1, <3>2
    <2> QED BY <2>1, <2>2
  <1>5. TypeOK'
    <2>1. overtaken' \in BOOLEAN
      BY <1>1 DEF IInv, TypeOK
    <2>2. alive' \in BOOLEAN
      BY Zenon DEF Answer, IInv, TypeOK
    <2> QED BY <1>1, <1>4, <2>1, <2>2 DEF IInv, TypeOK
  <1>6. SetInv' /\ MsgInv'
    BY <1>1, <1>2 DEF IInv, SetInv, MsgInv, Serving
  <1>7. CountMatches'
    BY <1>1, <1>2 DEF IInv, CountMatches
  <1>8. AnswersToAsker'
    <2> SUFFICES ASSUME ~overtaken, answers' # answers,
                        NEW d \in Clients, NEW i \in 1 .. Len(answers'[d])
                 PROVE  answers'[d][i].from = d
      BY <1>1 DEF IInv, AnswersToAsker
    <2>1. /\ c \in Clients /\ conn[c] = "here"
          /\ answers' = [answers EXCEPT ![c] = Append(answers[c], msg[t])]
      BY <1>1, <1>3
    <2>2. msg[t].from = c
      BY <1>1, <2>1 DEF IInv, MsgInv, c
    <2>3. CASE d # c
      BY <1>3, <2>1, <2>3 DEF IInv, AnswersToAsker
    <2>4. CASE d = c
      <3>1. answers'[c] = Append(answers[c], msg[t]) /\ answers[c] \in Seq(Messages)
        BY <1>3, <2>1
      <3>2. CASE i \in 1 .. Len(answers[c])
        BY <2>1, <2>4, <3>1, <3>2 DEF IInv, AnswersToAsker
      <3>3. CASE i = Len(answers[c]) + 1
        BY <2>2, <2>4, <3>1, <3>3
      <3> QED BY <2>4, <3>1, <3>2, <3>3
    <2> QED BY <2>3, <2>4
  <1> QED BY <1>2, <1>5, <1>6, <1>7, <1>8 DEF IInv

LEMMA RemoveInv == ASSUME IInv, NEW t \in Threads, RemoveClient(t) PROVE IInv'
  <1> DEFINE at == {i \in 0 .. clnt_cnt - 1 : clnt_socks[i] = sock[t]}
  <1>1. /\ pc[t] = "remove" /\ pc' = [pc EXCEPT ![t] = "close"]
        /\ clnt_socks' = IF at = {} THEN clnt_socks ELSE Shifted(Min(at))
        /\ clnt_cnt' = clnt_cnt - 1
        /\ UNCHANGED <<main_pc, clnt_sock, files, backlog, sock, file, msg, conn,
                       word_in_search, keys, shown, stream, answers, alive,
                       overtaken>>
    BY DEF RemoveClient, CountedOut, mainVars, client
  <1>2. /\ AcceptedInv' /\ OwnInv'
        /\ pc'[t] = "close" /\ \A u \in Threads \ {t} : pc'[u] = pc[u]
        /\ sock[t] \in Descriptors
    BY <1>1, ServingStep DEF Serving
  <1>3. InTable' = InTable \ {t} /\ t \in InTable /\ InTable \in SUBSET Threads
    BY <1>1, <1>2 DEF InTable
  <1>4. /\ Cardinality(InTable') = Cardinality(InTable) - 1
        /\ Cardinality(InTable) \in Nat /\ Cardinality(InTable') \in Nat
    BY <1>3, CountThreads, ThreadSets
  <1>5. CountMatches'
    BY <1>1, <1>4 DEF IInv, CountMatches
  <1>6. /\ clnt_cnt \in 0 .. Cardinality(Clients) /\ Cardinality(Clients) \in Nat
        /\ clnt_cnt' \in 0 .. Cardinality(Clients) /\ clnt_cnt < MAX_CLNT
        /\ MAX_CLNT \in Nat
    <2>1. clnt_cnt \in 0 .. Cardinality(Clients) /\ Cardinality(Clients) \in Nat
      BY Population DEF IInv, TypeOK
    <2>2. clnt_cnt' \in Nat
      BY <1>1, <1>4, <1>5 DEF CountMatches
    <2> QED BY <1>1, <2>1, <2>2, ServiceAssumption
  <1>7. clnt_socks' \in [0 .. MAX_CLNT - 1 -> Descriptors \cup {0}]
    <2>1. clnt_socks \in [0 .. MAX_CLNT - 1 -> Descriptors \cup {0}]
      BY DEF IInv, TypeOK
    <2>2. CASE at = {}
      BY <1>1, <2>1, <2>2
    <2>3. CASE at # {}
      <3> DEFINE m == Min(at)
      <3>1. m \in 0 .. clnt_cnt
        <4>1. at \in SUBSET (0 .. clnt_cnt) /\ clnt_cnt \in Nat
          BY <1>6
        <4> HIDE DEF at
        <4> QED BY <4>1, <2>3, MinOfInterval
      <3> HIDE DEF m
      <3>2. \A j \in 0 .. MAX_CLNT - 1 :
              j \in m + 1 .. clnt_cnt - 1 => j + 1 \in 0 .. MAX_CLNT - 1
        BY <1>6, <3>1
      <3>3. clnt_socks' = Shifted(m)
        BY <1>1, <2>3 DEF m
      <3> QED BY <2>1, <3>2, <3>3 DEF Shifted
    <2> QED BY <2>2, <2>3
  <1>8. TypeOK'
    <2>1. alive' \in BOOLEAN /\ overtaken' \in BOOLEAN
      BY <1>1 DEF IInv, TypeOK
    <2> QED BY <1>1, <1>6, <1>7, <2>1 DEF IInv, TypeOK
  <1>9. SetInv' /\ MsgInv' /\ AnswersToAsker'
    BY <1>1, <1>2 DEF IInv, SetInv, MsgInv, Serving, AnswersToAsker
  <1> QED BY <1>2, <1>5, <1>8, <1>9 DEF IInv

LEMMA CloseInv == ASSUME IInv, NEW t \in Threads, Close(t) PROVE IInv'
  <1>1. /\ pc[t] = "close" /\ pc' = [pc EXCEPT ![t] = "done"]
        /\ files' = [files EXCEPT ![sock[t]] = None]
        /\ UNCHANGED <<main_pc, clnt_sock, clnt_cnt, clnt_socks, backlog, sock,
                       file, msg, conn, word_in_search, keys, shown, stream,
                       answers, alive, overtaken>>
    BY DEF Close, mainVars, table, client
  <1>2. /\ sock[t] \in Descriptors
        /\ pc'[t] = "done" /\ \A u \in Threads \ {t} : pc'[u] = pc[u]
        /\ files'[sock[t]] = None
        /\ \A d \in Descriptors \ {sock[t]} : files'[d] = files[d]
    BY <1>1 DEF IInv, TypeOK, SetInv, Serving
  <1>3. TypeOK'
    <2>1. alive' \in BOOLEAN /\ overtaken' \in BOOLEAN
      BY <1>1 DEF IInv, TypeOK
    <2> QED BY <1>1, <2>1 DEF IInv, TypeOK
  <1>4. AcceptedInv'
    <2>1. \A u \in Threads : pc'[u] = "none" <=> pc[u] = "none"
      BY <1>1, <1>2
    <2> QED BY <1>1, <1>2, <2>1, AcceptedFrame
  <1>5. SetInv'
    BY <1>1, <1>2 DEF IInv, SetInv, Serving
  <1>6. CountMatches' /\ AnswersToAsker'
    <2>1. InTable' = InTable
      BY <1>1, <1>2 DEF InTable
    <2> QED BY <1>1, <2>1 DEF IInv, CountMatches, AnswersToAsker
  <1>7. OwnInv' /\ MsgInv'
    <2> SUFFICES ASSUME ~overtaken
                 PROVE  OwnInv' /\ MsgInv'
      BY <1>1 DEF OwnInv, MsgInv
    <2>1. /\ \A u \in Threads : pc'[u] = "start" <=> pc[u] = "start"
          /\ \A u \in Threads : pc'[u] \in Serving => pc[u] \in Serving /\ u # t
      BY <1>1, <1>2 DEF Serving
    <2>2. Holding' <=> Holding
      BY <1>1, <2>1 DEF Holding
    <2>3. \A u \in Threads : pc[u] \in Serving /\ u # t => files'[sock[u]] = files[sock[u]]
      BY <1>1, <1>2 DEF IInv, OwnInv, SetInv, TypeOK, Serving
    <2>4. Holding => clnt_sock \in Descriptors /\ files'[clnt_sock] = files[clnt_sock]
      BY <1>1, <1>2 DEF IInv, OwnInv, SetInv, TypeOK, Serving, Holding
    <2>5. OwnInv'
      BY <1>1, <2>1, <2>2, <2>3, <2>4 DEF IInv, OwnInv
    <2>6. MsgInv'
      BY <1>1, <1>2, <2>1, <2>3 DEF IInv, MsgInv, Serving
    <2> QED BY <2>5, <2>6
  <1> QED BY <1>3, <1>4, <1>5, <1>6, <1>7 DEF IInv

LEMMA ConnectInv == ASSUME IInv, NEW c \in Clients, Connect(c) PROVE IInv'
  <1>1. /\ conn[c] = "away" /\ conn' = [conn EXCEPT ![c] = "here"]
        /\ backlog' = Append(backlog, c)
        /\ UNCHANGED <<main_pc, clnt_sock, clnt_cnt, clnt_socks, files, pc, sock,
                       file, msg, word_in_search, keys, shown, stream, answers,
                       alive, overtaken>>
    BY DEF Connect, mainVars, table, threads
  <1>2. /\ backlog' \in Seq(Clients) /\ IsInjective(backlog')
        /\ ToSet(backlog') = ToSet(backlog) \cup {c}
    <2>1. /\ backlog \in Seq(Clients) /\ IsInjective(backlog)
          /\ c \notin ToSet(backlog)
      BY <1>1 DEF IInv, TypeOK, AcceptedInv
    <2> QED BY <1>1, <2>1, AppendQueue
  <1>3. /\ conn' \in [Clients -> {"away", "here", "left", "reset"}]
        /\ conn'[c] = "here" /\ \A d \in Clients \ {c} : conn'[d] = conn[d]
    BY <1>1 DEF IInv, TypeOK
  <1>4. TypeOK'
    <2>1. alive' \in BOOLEAN /\ overtaken' \in BOOLEAN
      BY <1>1 DEF IInv, TypeOK
    <2> QED BY <1>1, <1>2, <1>3, <2>1 DEF IInv, TypeOK
  <1>5. Accepted' = Accepted /\ Created' = Created /\ c \notin Accepted
    BY <1>1, <1>2, <1>3 DEF Accepted, Created
  <1>6. AcceptedInv'
    <2>1. \A d \in ToSet(backlog) : d \in Clients
      BY DEF IInv, TypeOK, ToSet
    <2> QED BY <1>1, <1>2, <1>3, <1>5, <2>1 DEF IInv, AcceptedInv
  <1>7. SetInv' /\ OwnInv' /\ AnswersToAsker' /\ CountMatches'
    BY <1>1 DEF IInv, SetInv, OwnInv, Holding, AnswersToAsker, CountMatches, InTable
  <1>8. MsgInv'
    <2>1. ~overtaken => \A t \in Threads : pc[t] = "answer" =>
            files[sock[t]] \in Clients \ {c}
      BY <1>5 DEF IInv, OwnInv, SetInv, TypeOK, AcceptedInv, Accepted, Serving
    <2> QED BY <1>1, <1>3, <2>1 DEF IInv, MsgInv
  <1> QED BY <1>4, <1>6, <1>7, <1>8 DEF IInv

LEMMA LeaveInv == ASSUME IInv, NEW c \in Clients, Leave(c) PROVE IInv'
  <1>1. /\ conn[c] = "here"
        /\ \E x \in {"left", "reset"} : conn' = [conn EXCEPT ![c] = x]
        /\ stream' \in {stream, [stream EXCEPT ![c] = << >>]}
        /\ answers' \in {answers, [answers EXCEPT ![c] = << >>]}
        /\ UNCHANGED <<main_pc, clnt_sock, clnt_cnt, clnt_socks, files, backlog,
                       pc, sock, file, msg, word_in_search, keys, shown, alive,
                       overtaken>>
    BY DEF Leave, mainVars, table, threads
  <1>2. /\ conn' \in [Clients -> {"away", "here", "left", "reset"}]
        /\ conn'[c] \in {"left", "reset"}
        /\ \A d \in Clients \ {c} : conn'[d] = conn[d]
    BY <1>1 DEF IInv, TypeOK
  <1>3. TypeOK'
    <2>1. alive' \in BOOLEAN /\ overtaken' \in BOOLEAN
      BY <1>1 DEF IInv, TypeOK
    <2>2. << >> \in Seq(Words \ {0}) /\ << >> \in Seq(Messages)
      OBVIOUS
    <2>3. stream' \in [Clients -> Seq(Words \ {0})]
      BY <1>1, <2>2 DEF IInv, TypeOK
    <2>4. answers' \in [Clients -> Seq(Messages)]
      BY <1>1, <2>2 DEF IInv, TypeOK
    <2> QED BY <1>1, <1>2, <2>1, <2>3, <2>4 DEF IInv, TypeOK
  <1>4. AcceptedInv'
    <2>1. \A d \in Clients : conn'[d] = "away" <=> conn[d] = "away"
      BY <1>1, <1>2
    <2> QED BY <1>1, <2>1, AcceptedFrame
  <1>5. SetInv' /\ OwnInv' /\ CountMatches'
    BY <1>1 DEF IInv, SetInv, OwnInv, Holding, CountMatches, InTable
  <1>6. MsgInv'
    <2>1. ~overtaken => \A t \in Threads : pc[t] = "answer" => files[sock[t]] \in Clients
      BY DEF IInv, OwnInv, SetInv, TypeOK, Serving
    <2> QED BY <1>1, <1>2, <2>1 DEF IInv, MsgInv
  <1>7. AnswersToAsker'
    BY <1>1 DEF IInv, TypeOK, AnswersToAsker
  <1> QED BY <1>3, <1>4, <1>5, <1>6, <1>7 DEF IInv

\* What a client types, erases and displays leaves the server alone.
LEMMA KeyInv ==
    ASSUME IInv, NEW c \in Clients, TypeCharacter(c) \/ Backspace(c) \/ Display(c)
    PROVE  IInv'
  <1>1. UNCHANGED <<main_pc, clnt_sock, clnt_cnt, clnt_socks, files, backlog, pc,
                    sock, file, msg, conn, alive, overtaken>>
    BY DEF TypeCharacter, Backspace, Display, mainVars, table, threads
  <1>2. alive' \in BOOLEAN /\ overtaken' \in BOOLEAN
    BY <1>1 DEF IInv, TypeOK
  <1>3. AcceptedInv' /\ SetInv' /\ OwnInv' /\ MsgInv' /\ CountMatches'
    BY <1>1 DEF IInv, AcceptedInv, Accepted, Created, SetInv, OwnInv, Holding,
                MsgInv, CountMatches, InTable
  <1>4. /\ word_in_search \in [Clients -> 0 .. MaxWord]
        /\ keys \in [Clients -> 0 .. MaxKeys]
        /\ stream \in [Clients -> Seq((0 .. MaxWord) \ {0})]
        /\ answers \in [Clients -> Seq(Messages)]
        /\ shown \in [Clients -> Words \cup {Garbled}]
        /\ MaxWord \in Nat /\ MaxKeys \in Nat
    BY ServiceAssumption DEF IInv, TypeOK, Words
  <1>5. CASE TypeCharacter(c)
    <2>1. /\ word_in_search' \in [Clients -> 0 .. MaxWord]
          /\ word_in_search'[c] \in (0 .. MaxWord) \ {0}
          /\ keys' \in [Clients -> 0 .. MaxKeys]
      BY <1>4, <1>5 DEF TypeCharacter, MayPressKey
    <2>2. stream' \in [Clients -> Seq((0 .. MaxWord) \ {0})]
      BY <1>4, <1>5, <2>1 DEF TypeCharacter, SentWord
    <2>3. shown' = shown /\ answers' = answers
      BY <1>5 DEF TypeCharacter
    <2>4. TypeOK'
      BY <1>1, <1>2, <2>1, <2>2, <2>3 DEF IInv, TypeOK, Words
    <2>5. AnswersToAsker'
      BY <1>1, <2>3 DEF IInv, AnswersToAsker
    <2> QED BY <1>3, <2>4, <2>5 DEF IInv
  <1>6. CASE Backspace(c)
    <2>1. /\ word_in_search' \in [Clients -> 0 .. MaxWord]
          /\ word_in_search'[c] \in 0 .. MaxWord
          /\ keys' \in [Clients -> 0 .. MaxKeys]
      BY <1>4, <1>6 DEF Backspace, MayPressKey, Erased
    <2>2. stream' \in [Clients -> Seq((0 .. MaxWord) \ {0})]
      BY <1>4, <1>6, <2>1 DEF Backspace, SentWord
    <2>3. shown' \in [Clients -> Words \cup {Garbled}] /\ answers' = answers
      BY <1>4, <1>6 DEF Backspace, DisplayAfterBackspace, Words
    <2>4. TypeOK'
      BY <1>1, <1>2, <2>1, <2>2, <2>3 DEF IInv, TypeOK, Words
    <2>5. AnswersToAsker'
      BY <1>1, <2>3 DEF IInv, AnswersToAsker
    <2> QED BY <1>3, <2>4, <2>5 DEF IInv
  <1>7. CASE Display(c)
    <2>1. /\ answers[c] # << >> /\ answers' = [answers EXCEPT ![c] = Tail(answers[c])]
          /\ UNCHANGED <<word_in_search, keys, stream>>
      BY <1>7 DEF Display
    <2>2. /\ answers[c] \in Seq(Messages)
          /\ Head(answers[c]) \in Messages
          /\ Tail(answers[c]) \in Seq(Messages)
          /\ Len(Tail(answers[c])) = Len(answers[c]) - 1 /\ Len(answers[c]) \in Nat
          /\ \A i \in 1 .. Len(Tail(answers[c])) : Tail(answers[c])[i] = answers[c][i + 1]
      BY <1>4, <2>1
    <2>3. answers' \in [Clients -> Seq(Messages)]
      BY <1>4, <2>1, <2>2
    <2>4. shown' \in [Clients -> Words \cup {Garbled}]
      <3>1. Head(answers[c]).words \in Seq(Words)
        BY <2>2 DEF Messages
      <3>2. Len(Head(answers[c]).words) = 1 => Head(answers[c]).words[1] \in Words
        BY <3>1
      <3> QED BY <1>4, <1>7, <3>2 DEF Display
    <2>5. TypeOK'
      BY <1>1, <1>2, <2>1, <2>3, <2>4 DEF IInv, TypeOK
    <2>6. AnswersToAsker'
      <3> SUFFICES ASSUME ~overtaken, NEW d \in Clients, NEW i \in 1 .. Len(answers'[d])
                   PROVE  answers'[d][i].from = d
        BY <1>1 DEF AnswersToAsker
      <3>1. CASE d # c
        BY <1>4, <2>1, <3>1 DEF IInv, AnswersToAsker
      <3>2. CASE d = c
        <4>1. /\ answers'[c] = Tail(answers[c])
              /\ i \in 1 .. Len(Tail(answers[c]))
              /\ i + 1 \in 1 .. Len(answers[c])
          BY <1>4, <2>1, <2>2, <3>2
        <4> QED BY <2>2, <3>2, <4>1 DEF IInv, AnswersToAsker
      <3> QED BY <3>1, <3>2
    <2> QED BY <1>3, <2>5, <2>6 DEF IInv
  <1> QED BY <1>5, <1>6, <1>7

LEMMA StutterInv == ASSUME IInv, UNCHANGED vars PROVE IInv'
  <1> USE DEF vars, mainVars, table, threads, client
  <1>1. TypeOK'
    <2>1. alive' \in BOOLEAN /\ overtaken' \in BOOLEAN
      BY DEF IInv, TypeOK
    <2> QED BY <2>1 DEF IInv, TypeOK
  <1>2. AcceptedInv' /\ SetInv' /\ CountMatches'
    BY DEF IInv, AcceptedInv, Accepted, Created, SetInv, CountMatches, InTable
  <1>3. OwnInv' /\ MsgInv' /\ AnswersToAsker'
    BY DEF IInv, OwnInv, Holding, MsgInv, AnswersToAsker
  <1> QED BY <1>1, <1>2, <1>3 DEF IInv

-----------------------------------------------------------------------------

\* The inductive invariant of the search service.
THEOREM InvariantHolds == Spec => []IInv
  <1>1. ASSUME IInv, [Next]_vars
        PROVE  IInv'
    <2>1. CASE MainStep
      BY <1>1, <2>1, AcceptInv, SaveInv, CreateInv DEF MainStep
    <2>2. CASE \E t \in Threads : ThreadStep(t)
      BY <1>1, <2>2, StartInv, CallReadInv, ReadWordsInv, ReadEndInv, ReadResetInv,
         AnswerInv, RemoveInv, CloseInv DEF ThreadStep
    <2>3. CASE \E c \in Clients : ClientStep(c)
      BY <1>1, <2>3, ConnectInv, KeyInv, LeaveInv DEF ClientStep
    <2>4. CASE UNCHANGED vars
      BY <1>1, <2>4, StutterInv
    <2> QED BY <1>1, <2>1, <2>2, <2>3, <2>4 DEF Next
  <1> QED BY InitInv, <1>1, PTL DEF Spec

\* All variables of server and clients keep their types, the counter of the
\* table among them.  That the table has room is the assumption on MAX_CLNT:
\* the server compares clnt_cnt with nothing before it writes an entry.
THEOREM TypeCorrect == Spec => []TypeOK
  <1>1. IInv => TypeOK
    BY DEF IInv
  <1> QED BY InvariantHolds, <1>1, PTL

\* clnt_cnt counts the clients being served, for any number of clients, though
\* the table behind it loses entries (search_server.c).
THEOREM CountMatchesAlways == Spec => []CountMatches
  <1>1. IInv => CountMatches
    BY DEF IInv
  <1> QED BY InvariantHolds, <1>1, PTL

\* As long as no thread was overtaken, threads use open descriptors and never
\* the same one (search_server.c).
THEOREM OwnDescriptorAlways == Spec => []OwnDescriptor
  <1>1. IInv => OwnDescriptor
    BY DEF IInv, OwnInv, OwnDescriptor, Serving
  <1> QED BY InvariantHolds, <1>1, PTL

\* As long as no thread was overtaken, whoever gets an answer has asked.
THEOREM AnswersToAskerAlways == Spec => []AnswersToAsker
  <1>1. IInv => AnswersToAsker
    BY DEF IInv
  <1> QED BY InvariantHolds, <1>1, PTL

-----------------------------------------------------------------------------
(* The engine: induction and recursion, with sets in place of predicates. *)

\* A set of numbers from an interval has a largest one, and Max is it.
LEMMA MaxOfInterval ==
    ASSUME NEW m \in Nat, NEW A \in SUBSET (1 .. m), A # {}
    PROVE  Max(A) \in A /\ \A a \in A : a <= Max(A)
  <1> DEFINE B == {b \in 0 .. m : \A a \in A : a <= b}
  <1>1. m \in B
    OBVIOUS
  <1>2. PICK b \in B : \A c \in B : b <= c
    <2>1. B \in SUBSET (0 .. m) /\ B # {}
      BY <1>1
    <2> HIDE DEF B
    <2>2. Min(B) \in B /\ \A a \in B : Min(B) <= a
      BY <2>1, MinOfInterval
    <2> QED BY <2>2
  <1>3. b \in A
    <2> SUFFICES ASSUME b \notin A PROVE FALSE
      OBVIOUS
    <2>1. \A a \in A : a <= b /\ a # b /\ a \in 1 .. m
      OBVIOUS
    <2>2. \A a \in A : a <= b - 1 /\ a >= 1
      BY <2>1
    <2>3. PICK a \in A : TRUE
      OBVIOUS
    <2>4. a >= 1 /\ a <= b - 1 /\ a \in 1 .. m
      BY <2>1, <2>2, <2>3
    <2>5. b - 1 \in B
      BY <2>2, <2>4
    <2> QED BY <1>2, <2>5
  <1>4. \A a \in A : a <= b
    OBVIOUS
  <1> QED BY <1>3, <1>4 DEF Max

\* A set of numbers up to n is finite, with at most n members.
LEMMA PartOfInterval ==
    ASSUME NEW n \in Nat, NEW s \in SUBSET (1 .. n)
    PROVE  IsFiniteSet(s) /\ Cardinality(s) \in 0 .. n
  <1> DEFINE all == 1 .. n
  <1>1. IsFiniteSet(all) /\ Cardinality(all) = n
    BY FS_Interval
  <1>2. s \in SUBSET all
    OBVIOUS
  <1> HIDE DEF all
  <1>3. IsFiniteSet(s) /\ Cardinality(s) <= n
    BY <1>1, <1>2, FS_Subset
  <1>4. Cardinality(s) \in Nat
    BY <1>3, FS_CardinalityType
  <1> QED BY <1>3, <1>4

\* A set that has 0 and with each number the next one has all of them.
LEMMA Induction ==
    ASSUME NEW T, 0 \in T, \A n \in Nat : n \in T => n + 1 \in T
    PROVE  \A n \in Nat : n \in T
  <1> SUFFICES ASSUME NEW m \in Nat, m \notin T
               PROVE  FALSE
    OBVIOUS
  <1> DEFINE U == {n \in 0 .. m : n \notin T}
  <1>1. U \in SUBSET (0 .. m) /\ U # {}
    OBVIOUS
  <1>2. PICK n \in U : \A a \in U : n <= a
    <2> HIDE DEF U
    <2>1. Min(U) \in U /\ \A a \in U : Min(U) <= a
      BY <1>1, MinOfInterval
    <2> QED BY <2>1
  <1>3. n \in Nat /\ n # 0
    BY <1>2
  <1>4. n - 1 \in Nat /\ n - 1 \notin U /\ n - 1 \in 0 .. m
    BY <1>2, <1>3
  <1>5. n - 1 + 1 \in T
    BY <1>4
  <1> QED BY <1>2, <1>3, <1>5

\* The elements of S have sizes up to D, and what G makes of an element and a
\* function into V depends on the function's values at smaller elements only.
FromSmaller(S, V, D, size, G) ==
    /\ V # {} /\ D \in Nat
    /\ size \in [S -> 0 .. D]
    /\ G \in [S \X [S -> V] -> V]
    /\ \A x \in S : \A g, h \in [S -> V] :
        (\A y \in S : size[y] < size[x] => g[y] = h[y]) => G[<<x, g>>] = G[<<x, h>>]

Solves(f, S, V, G) == f \in [S -> V] /\ \A x \in S : f[x] = G[<<x, f>>]

\* So there is a function whose values G computes.
LEMMA Recursion ==
    ASSUME NEW S, NEW V, NEW D, NEW size, NEW G, FromSmaller(S, V, D, size, G)
    PROVE  \E f : Solves(f, S, V, G)
  <1> USE DEF FromSmaller, Solves
  <1> DEFINE Done(n, f) == \A x \in S : size[x] < n => f[x] = G[<<x, f>>]
             T == {n \in Nat : \E f \in [S -> V] : Done(n, f)}
  <1>1. 0 \in T
    <2>1. PICK v \in V : TRUE
      OBVIOUS
    <2>2. [x \in S |-> v] \in [S -> V]
      OBVIOUS
    <2>3. Done(0, [x \in S |-> v])
      OBVIOUS
    <2> QED BY <2>2, <2>3
  <1>2. ASSUME NEW n \in Nat, n \in T PROVE n + 1 \in T
    <2>1. PICK f \in [S -> V] : Done(n, f)
      BY <1>2
    <2>2. PICK g \in [S -> V] :
            \A x \in S : g[x] = IF size[x] < n THEN f[x] ELSE G[<<x, f>>]
      <3> DEFINE g == [x \in S |-> IF size[x] < n THEN f[x] ELSE G[<<x, f>>]]
      <3>1. \A x \in S : <<x, f>> \in S \X [S -> V]
        OBVIOUS
      <3>2. \A x \in S : G[<<x, f>>] \in V
        BY <3>1
      <3>3. g \in [S -> V]
        BY <3>2
      <3>4. \A x \in S : g[x] = IF size[x] < n THEN f[x] ELSE G[<<x, f>>]
        OBVIOUS
      <3> QED BY <3>3, <3>4
    <2>3. ASSUME NEW x \in S, size[x] < n + 1 PROVE g[x] = G[<<x, g>>]
      <3>1. \A y \in S : size[y] < size[x] => g[y] = f[y]
        <4>1. \A y \in S : size[y] \in Nat
          OBVIOUS
        <4>2. \A y \in S : size[y] < size[x] => size[y] < n
          BY <2>3, <4>1
        <4> QED BY <2>2, <4>2
      <3>2. G[<<x, g>>] = G[<<x, f>>]
        BY <3>1
      <3>3. g[x] = G[<<x, f>>]
        BY <2>1, <2>2
      <3> QED BY <3>2, <3>3
    <2> QED BY <2>3
  <1>3. D + 1 \in T
    <2> HIDE DEF T
    <2> QED BY <1>1, <1>2, Induction
  <1>4. PICK f \in [S -> V] : Done(D + 1, f)
    BY <1>3
  <1> QED BY <1>4

-----------------------------------------------------------------------------
(* Sequences put together. *)

LEMMA Concatenated ==
    ASSUME NEW V, NEW s \in Seq(V), NEW t \in Seq(V)
    PROVE  /\ s \o t \in Seq(V)
           /\ \A x : x \in ToSet(s \o t) <=> x \in ToSet(s) \/ x \in ToSet(t)
           /\ IsInjective(s) /\ IsInjective(t) /\ ToSet(s) \cap ToSet(t) = {} =>
                IsInjective(s \o t)
  <1> DEFINE u == s \o t
  <1>1. PICK m \in Nat, n \in Nat :
            /\ m = Len(s) /\ n = Len(t)
            /\ u \in Seq(V) /\ Len(u) = m + n
            /\ DOMAIN s = 1 .. m /\ DOMAIN t = 1 .. n /\ DOMAIN u = 1 .. (m + n)
            /\ \A i \in 1 .. m : u[i] = s[i]
            /\ \A i \in 1 .. (m + n) : i > m => u[i] = t[i - m]
    OBVIOUS
  <1> HIDE DEF u
  <1>2. \A i \in DOMAIN u :
            \/ i \in DOMAIN s /\ u[i] = s[i]
            \/ i \notin DOMAIN s /\ i - m \in DOMAIN t /\ u[i] = t[i - m]
    BY <1>1
  <1>3. \A x : x \in ToSet(u) <=> x \in ToSet(s) \/ x \in ToSet(t)
    <2>1. ASSUME NEW x, x \in ToSet(u) PROVE x \in ToSet(s) \/ x \in ToSet(t)
      BY <1>2, <2>1 DEF ToSet
    <2>2. ASSUME NEW x, x \in ToSet(s) PROVE x \in ToSet(u)
      <3>1. \A i \in DOMAIN s : i \in DOMAIN u /\ u[i] = s[i]
        BY <1>1
      <3> QED BY <2>2, <3>1 DEF ToSet
    <2>3. ASSUME NEW x, x \in ToSet(t) PROVE x \in ToSet(u)
      <3>1. ASSUME NEW i \in DOMAIN t PROVE m + i \in DOMAIN u /\ u[m + i] = t[i]
        <4>1. i \in 1 .. n
          BY <1>1
        <4>2. PICK j \in 1 .. (m + n) : j = m + i /\ j > m /\ j - m = i
          <5>1. m + i \in 1 .. (m + n) /\ m + i > m /\ m + i - m = i
            BY <4>1
          <5> QED BY <5>1
        <4>3. u[j] = t[j - m]
          BY <1>1, <4>2
        <4> QED BY <1>1, <4>2, <4>3
      <3> QED BY <2>3, <3>1 DEF ToSet
    <2> QED BY <2>1, <2>2, <2>3
  <1>4. ASSUME IsInjective(s), IsInjective(t), ToSet(s) \cap ToSet(t) = {}
        PROVE  IsInjective(u)
    <2> SUFFICES ASSUME NEW i \in DOMAIN u, NEW j \in DOMAIN u, u[i] = u[j]
                 PROVE  i = j
      BY DEF IsInjective
    <2>1. CASE i \in DOMAIN s /\ j \in DOMAIN s
      BY <1>1, <1>4, <2>1 DEF IsInjective
    <2>2. CASE i \notin DOMAIN s /\ j \notin DOMAIN s
      <3>1. i - m = j - m
        BY <1>2, <1>4, <2>2 DEF IsInjective
      <3>2. i \in Int /\ j \in Int
        BY <1>1
      <3> QED BY <1>1, <3>1, <3>2
    <2>3. CASE i \in DOMAIN s /\ j \notin DOMAIN s
      <3>1. u[i] \in ToSet(s)
        BY <1>2, <2>3 DEF ToSet
      <3>2. u[j] \in ToSet(t)
        BY <1>2, <2>3 DEF ToSet
      <3> QED BY <1>4, <3>1, <3>2
    <2>4. CASE i \notin DOMAIN s /\ j \in DOMAIN s
      <3>1. u[i] \in ToSet(t)
        BY <1>2, <2>4 DEF ToSet
      <3>2. u[j] \in ToSet(s)
        BY <1>2, <2>4 DEF ToSet
      <3> QED BY <1>4, <3>1, <3>2
    <2> QED BY <2>1, <2>2, <2>3, <2>4
  <1> QED BY <1>1, <1>3, <1>4 DEF u

LEMMA Singletons == ASSUME NEW V, NEW x \in V PROVE << x >> \in Seq(V)
  OBVIOUS

\* What FlattenSeq makes of a sequence of sequences.
LEMMA Flattened ==
    ASSUME NEW V, NEW seqs \in Seq(Seq(V))
    PROVE  /\ FlattenSeq(seqs) \in Seq(V)
           /\ \A x : x \in ToSet(FlattenSeq(seqs)) <=>
                \E i \in 1 .. Len(seqs) : x \in ToSet(seqs[i])
           /\ /\ \A i \in 1 .. Len(seqs) : IsInjective(seqs[i])
              /\ \A i, j \in 1 .. Len(seqs) :
                    i # j => ToSet(seqs[i]) \cap ToSet(seqs[j]) = {}
              => IsInjective(FlattenSeq(seqs))
  <1>1. PICK n \in Nat : n = Len(seqs) /\ seqs \in [1 .. n -> Seq(V)]
    OBVIOUS
  <1>2. CASE n = 0
    <2>1. FlattenSeq(seqs) = << >> /\ Len(seqs) = 0
      BY <1>1, <1>2 DEF FlattenSeq
    <2>2. ToSet(<< >>) = {} /\ IsInjective(<< >>)
      BY DEF ToSet, IsInjective
    <2> QED BY <2>1, <2>2
  <1>3. CASE n # 0
    <2> DEFINE Flat(f) == f = [i \in 1 .. n |->
                                IF i = 1 THEN seqs[i] ELSE f[i - 1] \o seqs[i]]
               flatten == CHOOSE f : Flat(f)
    <2>1. FlattenSeq(seqs) = flatten[n]
      BY <1>1, <1>3 DEF FlattenSeq
    <2>2. \E f : Flat(f)
      <3> DEFINE S == 1 .. n
                 W == Seq(V)
                 G == [x \in S \X [S -> W] |->
                        IF x[1] = 1 THEN seqs[x[1]] ELSE x[2][x[1] - 1] \o seqs[x[1]]]
                 size == [i \in S |-> i]
      <3>1. G \in [S \X [S -> W] -> W]
        <4>1. ASSUME NEW i \in S, NEW f \in [S -> W]
              PROVE  (IF i = 1 THEN seqs[i] ELSE f[i - 1] \o seqs[i]) \in W
          <5>1. seqs[i] \in W
            BY <1>1
          <5>2. CASE i # 1
            <6>1. i - 1 \in S
              BY <5>2
            <6>2. f[i - 1] \in W
              BY <6>1
            <6> QED BY <5>1, <5>2, <6>2
          <5> QED BY <5>1, <5>2
        <4> QED BY <4>1
      <3>2. \A i \in S, f \in [S -> W] :
                G[<<i, f>>] = IF i = 1 THEN seqs[i] ELSE f[i - 1] \o seqs[i]
        OBVIOUS
      <3>3. size \in [S -> 0 .. n] /\ W # {} /\ \A i \in S : size[i] = i
        OBVIOUS
      <3>4. ASSUME NEW i \in S, NEW f \in [S -> W], NEW g \in [S -> W],
                   \A j \in S : size[j] < size[i] => f[j] = g[j]
            PROVE  G[<<i, f>>] = G[<<i, g>>]
        <4>1. CASE i = 1
          <5> HIDE DEF G, size, W, S
          <5>1. G[<<i, f>>] = seqs[i] /\ G[<<i, g>>] = seqs[i]
            BY <3>2, <4>1
          <5> QED BY <5>1
        <4>2. CASE i # 1
          <5>1. i - 1 \in S /\ i - 1 < i
            BY <4>2
          <5> HIDE DEF G, size, W, S
          <5>2. size[i - 1] = i - 1 /\ size[i] = i
            BY <3>3, <5>1
          <5>3. f[i - 1] = g[i - 1]
            BY <3>4, <5>1, <5>2
          <5>4. /\ G[<<i, f>>] = f[i - 1] \o seqs[i]
                /\ G[<<i, g>>] = g[i - 1] \o seqs[i]
            BY <3>2, <4>2
          <5> QED BY <5>3, <5>4
        <4> QED BY <4>1, <4>2
      <3> HIDE DEF G, size, W, S
      <3>5. FromSmaller(S, W, n, size, G)
        BY <3>1, <3>3, <3>4 DEF FromSmaller
      <3>6. PICK f : Solves(f, S, W, G)
        BY <3>5, Recursion
      <3>7. f \in [S -> W] /\ \A i \in S : f[i] = G[<<i, f>>]
        BY <3>6 DEF Solves
      <3>8. \A i \in S : f[i] = IF i = 1 THEN seqs[i] ELSE f[i - 1] \o seqs[i]
        BY <3>2, <3>7
      <3>9. f = [i \in S |-> f[i]]
        BY <3>7
      <3>10. Flat(f)
        <4>1. f = [i \in S |-> IF i = 1 THEN seqs[i] ELSE f[i - 1] \o seqs[i]]
          BY <3>8, <3>9
        <4> QED BY <4>1 DEF S
      <3> QED BY <3>10
    <2>3. Flat(flatten)
      BY <2>2
    <2> HIDE DEF flatten
    <2> DEFINE Good(k) ==
                /\ flatten[k] \in Seq(V)
                /\ \A x : x \in ToSet(flatten[k]) <=>
                    \E i \in 1 .. k : x \in ToSet(seqs[i])
                /\ /\ \A i \in 1 .. n : IsInjective(seqs[i])
                   /\ \A i, j \in 1 .. n :
                        i # j => ToSet(seqs[i]) \cap ToSet(seqs[j]) = {}
                   => IsInjective(flatten[k])
               T == {k \in Nat : k < n => Good(k + 1)}
    <2>4. 0 \in T
      <3>1. flatten[1] = seqs[1] /\ 1 \in 1 .. n
        BY <1>3, <2>3
      <3>2. \A i \in 1 .. 1 : i = 1
        OBVIOUS
      <3>3. \A x : x \in ToSet(flatten[1]) <=> \E i \in 1 .. 1 : x \in ToSet(seqs[i])
        BY <3>1, <3>2
      <3>4. flatten[1] \in Seq(V)
        BY <1>1, <3>1
      <3>5. Good(1)
        BY <3>1, <3>3, <3>4
      <3>6. 0 + 1 = 1
        OBVIOUS
      <3> HIDE DEF Good
      <3> QED BY <3>5, <3>6
    <2>5. ASSUME NEW k \in Nat, k \in T, k + 1 < n PROVE Good(k + 2)
      <3>1. Good(k + 1)
        <4> HIDE DEF Good
        <4> QED BY <2>5
      <3>2. /\ flatten[k + 2] = flatten[k + 1] \o seqs[k + 2]
            /\ k + 2 \in 1 .. n /\ seqs[k + 2] \in Seq(V)
        <4> HIDE DEF T
        <4>1. k + 1 < n
          BY <2>5
        <4>2. PICK j \in 1 .. n : j = k + 2 /\ j # 1 /\ j - 1 = k + 1
          <5>1. k + 2 \in 1 .. n /\ k + 2 # 1 /\ k + 2 - 1 = k + 1
            BY <4>1
          <5> QED BY <5>1
        <4>3. flatten[j] = flatten[j - 1] \o seqs[j]
          BY <2>3, <4>2
        <4> QED BY <1>1, <4>2, <4>3
      <3>3. \A i \in 1 .. k + 2 : i \in 1 .. k + 1 \/ i = k + 2
        OBVIOUS
      <3>4. \A x : x \in ToSet(flatten[k + 2]) <=>
                    \E i \in 1 .. k + 2 : x \in ToSet(seqs[i])
        <4>1. \A x : x \in ToSet(flatten[k + 2]) <=>
                    x \in ToSet(flatten[k + 1]) \/ x \in ToSet(seqs[k + 2])
          BY <3>1, <3>2, Concatenated
        <4>2. \A i \in 1 .. k + 1 : i \in 1 .. k + 2
          OBVIOUS
        <4> QED BY <3>1, <3>2, <3>3, <4>1, <4>2
      <3>5. ASSUME \A i \in 1 .. n : IsInjective(seqs[i]),
                   \A i, j \in 1 .. n :
                        i # j => ToSet(seqs[i]) \cap ToSet(seqs[j]) = {}
            PROVE  IsInjective(flatten[k + 2])
        <4>1. ToSet(flatten[k + 1]) \cap ToSet(seqs[k + 2]) = {}
          <5>1. \A i \in 1 .. k + 1 : i \in 1 .. n /\ i # k + 2
            BY <2>5
          <5> QED BY <3>1, <3>2, <3>5, <5>1
        <4>2. IsInjective(flatten[k + 1]) /\ IsInjective(seqs[k + 2])
          BY <3>1, <3>2, <3>5
        <4>3. flatten[k + 1] \in Seq(V)
          BY <3>1
        <4> QED BY <3>2, <4>1, <4>2, <4>3, Concatenated
      <3>6. flatten[k + 2] \in Seq(V)
        BY <3>1, <3>2
      <3> QED BY <3>4, <3>5, <3>6
    <2>6. n - 1 \in T
      <3>1. \A k \in Nat : k \in T => k + 1 \in T
        <4>1. ASSUME NEW k \in Nat, k \in T, k + 1 < n PROVE Good(k + 1 + 1)
          <5>1. k + 1 + 1 = k + 2
            OBVIOUS
          <5> HIDE DEF Good
          <5> QED BY <2>5, <4>1, <5>1
        <4> HIDE DEF Good
        <4> QED BY <4>1
      <3>2. n - 1 \in Nat
        BY <1>3
      <3> HIDE DEF T
      <3> QED BY <2>4, <3>1, <3>2, Induction
    <2>7. Good(n)
      <3>1. n - 1 + 1 = n /\ n - 1 < n
        OBVIOUS
      <3> HIDE DEF Good
      <3> QED BY <2>6, <3>1
    <2> QED BY <1>1, <2>1, <2>7
  <1> QED BY <1>2, <1>3

-----------------------------------------------------------------------------
(* Subsequences, and paths of the trie. *)

Letters == 0 .. (N - 1)
Strings == Seq(Letters)

\* The first k characters of s occur in w in their order.
Embeds(k, s, w) ==
    \E at \in [1 .. k -> 1 .. Len(w)] :
        /\ \A i \in 1 .. k : w[at[i]] = s[i]
        /\ \A i, j \in 1 .. k : i < j => at[i] < at[j]

LEMMA EmbedsNothing == ASSUME NEW s, NEW w PROVE Embeds(0, s, w)
  <1> DEFINE at == [i \in 1 .. 0 |-> 1]
  <1>1. at \in [1 .. 0 -> 1 .. Len(w)] /\ \A i \in 1 .. 0 : FALSE
    OBVIOUS
  <1> QED BY <1>1 DEF Embeds

LEMMA EmbedsInNothing == ASSUME NEW k \in Nat \ {0}, NEW s PROVE ~Embeds(k, s, << >>)
  <1> SUFFICES ASSUME NEW at \in [1 .. k -> 1 .. Len(<< >>)]
               PROVE  FALSE
    BY DEF Embeds
  <1>1. 1 \in 1 .. k /\ Len(<< >>) = 0
    OBVIOUS
  <1>2. at[1] \in 1 .. 0
    BY <1>1
  <1> QED BY <1>2

LEMMA EmbedsLess ==
    ASSUME NEW k \in Nat, NEW m \in Nat, m <= k, NEW s, NEW w, Embeds(k, s, w)
    PROVE  Embeds(m, s, w)
  <1>1. PICK at \in [1 .. k -> 1 .. Len(w)] :
            /\ \A i \in 1 .. k : w[at[i]] = s[i]
            /\ \A i, j \in 1 .. k : i < j => at[i] < at[j]
    BY DEF Embeds
  <1> DEFINE a == [i \in 1 .. m |-> at[i]]
  <1>2. \A i \in 1 .. m : i \in 1 .. k /\ a[i] = at[i]
    OBVIOUS
  <1>3. a \in [1 .. m -> 1 .. Len(w)]
    BY <1>2
  <1> HIDE DEF a
  <1>4. \A i \in 1 .. m : w[a[i]] = s[i]
    BY <1>1, <1>2
  <1>5. \A i, j \in 1 .. m : i < j => a[i] < a[j]
    BY <1>1, <1>2
  <1> QED BY <1>3, <1>4, <1>5 DEF Embeds

\* p is a beginning of w: the node p lies on the path to the node w.
Above(p, w) == Len(p) <= Len(w) /\ \A i \in 1 .. Len(p) : w[i] = p[i]

LEMMA EmbedsBelow ==
    ASSUME NEW k \in Nat, NEW s, NEW p \in Strings, NEW w \in Strings, Above(p, w),
           Embeds(k, s, p)
    PROVE  Embeds(k, s, w)
  <1>1. PICK at \in [1 .. k -> 1 .. Len(p)] :
            /\ \A i \in 1 .. k : p[at[i]] = s[i]
            /\ \A i, j \in 1 .. k : i < j => at[i] < at[j]
    BY DEF Embeds
  <1>2. PICK m \in Nat, n \in Nat : m = Len(p) /\ n = Len(w) /\ m <= n
    BY DEF Above, Strings
  <1>3. \A i \in 1 .. k : at[i] \in 1 .. n /\ w[at[i]] = p[at[i]]
    BY <1>2 DEF Above
  <1>4. at \in [1 .. k -> 1 .. Len(w)]
    BY <1>2, <1>3
  <1>5. \A i \in 1 .. k : w[at[i]] = s[i]
    BY <1>1, <1>3
  <1> QED BY <1>1, <1>4, <1>5 DEF Embeds

\* One character more of w lets at most one character more of s occur.
LEMMA EmbedsStep ==
    ASSUME NEW k \in Nat, NEW s, NEW p \in Strings, NEW c \in Letters
    PROVE  Embeds(k + 1, s, Append(p, c)) <=>
                Embeds(k + 1, s, p) \/ (Embeds(k, s, p) /\ s[k + 1] = c)
  <1>1. PICK n \in Nat, w \in Strings :
            /\ n = Len(p) /\ w = Append(p, c) /\ Len(w) = n + 1
            /\ \A i \in 1 .. n : w[i] = p[i]
            /\ w[n + 1] = c
    <2>1. PICK n \in Nat : n = Len(p)
      BY DEF Strings
    <2>2. /\ Append(p, c) \in Strings /\ Len(Append(p, c)) = n + 1
          /\ \A i \in 1 .. n : Append(p, c)[i] = p[i]
          /\ Append(p, c)[n + 1] = c
      BY <2>1 DEF Strings
    <2> QED BY <2>1, <2>2
  <1>2. ASSUME Embeds(k + 1, s, w), ~(Embeds(k, s, p) /\ s[k + 1] = c)
        PROVE  Embeds(k + 1, s, p)
    <2>1. PICK at \in [1 .. k + 1 -> 1 .. n + 1] :
            /\ \A i \in 1 .. k + 1 : w[at[i]] = s[i]
            /\ \A i, j \in 1 .. k + 1 : i < j => at[i] < at[j]
      BY <1>1, <1>2 DEF Embeds
    <2>2. k + 1 \in 1 .. k + 1 /\ \A i \in 1 .. k : i \in 1 .. k + 1 /\ i < k + 1
      OBVIOUS
    <2>3. at[k + 1] \in 1 .. n + 1 /\ \A i \in 1 .. k + 1 : at[i] \in 1 .. n + 1
      BY <2>2
    <2>4. CASE at[k + 1] = n + 1
      <3>1. s[k + 1] = c
        BY <1>1, <2>1, <2>2, <2>4
      <3>2. \A i \in 1 .. k : at[i] \in 1 .. n
        <4>1. \A i \in 1 .. k : at[i] < n + 1 /\ at[i] \in 1 .. n + 1
          BY <2>1, <2>2, <2>3, <2>4
        <4> QED BY <4>1
      <3> DEFINE a == [i \in 1 .. k |-> at[i]]
      <3>3. a \in [1 .. k -> 1 .. Len(p)] /\ \A i \in 1 .. k : a[i] = at[i]
        BY <1>1, <3>2
      <3> HIDE DEF a
      <3>4. \A i \in 1 .. k : p[a[i]] = s[i]
        BY <1>1, <2>1, <2>2, <3>2, <3>3
      <3>5. \A i, j \in 1 .. k : i < j => a[i] < a[j]
        BY <2>1, <2>2, <3>3
      <3> QED BY <1>2, <3>1, <3>3, <3>4, <3>5 DEF Embeds
    <2>5. CASE at[k + 1] # n + 1
      <3>1. \A i \in 1 .. k + 1 : at[i] \in 1 .. n
        <4>1. \A i \in 1 .. k + 1 : i = k + 1 \/ i < k + 1
          OBVIOUS
        <4>2. at[k + 1] <= n
          BY <2>3, <2>5
        <4>3. \A i \in 1 .. k + 1 : i < k + 1 => at[i] < at[k + 1]
          BY <2>1, <2>2
        <4>4. \A i \in 1 .. k + 1 : at[i] \in 1 .. n + 1 /\ at[i] <= n
          BY <2>3, <4>1, <4>2, <4>3
        <4> QED BY <4>4
      <3>2. at \in [1 .. k + 1 -> 1 .. Len(p)]
        BY <1>1, <3>1
      <3>3. \A i \in 1 .. k + 1 : p[at[i]] = s[i]
        BY <1>1, <2>1, <3>1
      <3> QED BY <2>1, <3>2, <3>3 DEF Embeds
    <2> QED BY <2>4, <2>5
  <1>3. ASSUME Embeds(k + 1, s, p) PROVE Embeds(k + 1, s, w)
    <2>1. Above(p, w) /\ k + 1 \in Nat
      BY <1>1 DEF Above
    <2> QED BY <1>3, <2>1, EmbedsBelow
  <1>4. ASSUME Embeds(k, s, p), s[k + 1] = c PROVE Embeds(k + 1, s, w)
    <2>1. PICK at \in [1 .. k -> 1 .. n] :
            /\ \A i \in 1 .. k : p[at[i]] = s[i]
            /\ \A i, j \in 1 .. k : i < j => at[i] < at[j]
      BY <1>1, <1>4 DEF Embeds
    <2> DEFINE a == [i \in 1 .. k + 1 |-> IF i = k + 1 THEN n + 1 ELSE at[i]]
    <2>2. /\ \A i \in 1 .. k + 1 : i = k + 1 \/ i \in 1 .. k
          /\ k + 1 \notin 1 .. k /\ k + 1 \in 1 .. k + 1
          /\ \A i \in 1 .. k : i \in 1 .. k + 1
      OBVIOUS
    <2>3. a[k + 1] = n + 1 /\ \A i \in 1 .. k : a[i] = at[i] /\ a[i] \in 1 .. n
      BY <2>2
    <2>4. a \in [1 .. k + 1 -> 1 .. Len(w)]
      <3>1. \A i \in 1 .. k : at[i] \in 1 .. n + 1
        OBVIOUS
      <3> QED BY <1>1, <2>2, <3>1
    <2> HIDE DEF a
    <2>5. \A i \in 1 .. k + 1 : w[a[i]] = s[i]
      <3>1. w[a[k + 1]] = s[k + 1]
        BY <1>1, <1>4, <2>3
      <3>2. ASSUME NEW i \in 1 .. k PROVE w[a[i]] = s[i]
        <4>1. a[i] \in 1 .. n /\ a[i] = at[i]
          BY <2>3
        <4> QED BY <1>1, <2>1, <4>1
      <3> QED BY <2>2, <3>1, <3>2
    <2>6. ASSUME NEW i \in 1 .. k + 1, NEW j \in 1 .. k + 1, i < j
          PROVE  a[i] < a[j]
      <3>1. i \in 1 .. k
        BY <2>6
      <3>2. CASE j = k + 1
        BY <2>3, <3>1, <3>2
      <3>3. CASE j \in 1 .. k
        BY <2>1, <2>3, <2>6, <3>1, <3>3
      <3> QED BY <2>2, <3>2, <3>3
    <2> QED BY <2>4, <2>5, <2>6 DEF Embeds
  <1> QED BY <1>1, <1>2, <1>3, <1>4

LEMMA AboveTop == ASSUME NEW x \in Strings PROVE Above(<< >>, x) /\ Above(x, x)
  <1>1. Len(<< >>) = 0 /\ Len(x) \in Nat
    BY DEF Strings
  <1> QED BY <1>1 DEF Above

LEMMA AboveAbove ==
    ASSUME NEW p \in Strings, NEW q \in Strings, NEW x \in Strings, Above(p, q), Above(q, x)
    PROVE  Above(p, x)
  <1>1. PICK l \in Nat, m \in Nat, n \in Nat :
            l = Len(p) /\ m = Len(q) /\ n = Len(x) /\ l <= m /\ m <= n
    BY DEF Above, Strings
  <1>2. \A i \in 1 .. l : i \in 1 .. m /\ q[i] = p[i]
    BY <1>1 DEF Above
  <1>3. \A i \in 1 .. m : x[i] = q[i]
    BY <1>1 DEF Above
  <1> QED BY <1>1, <1>2, <1>3 DEF Above

LEMMA AboveOrEqual ==
    ASSUME NEW p \in Strings, NEW x \in Strings, Above(p, x)
    PROVE  \/ p = x
           \/ Len(p) < Len(x) /\ x[Len(p) + 1] \in Letters
  <1>1. PICK m \in Nat, n \in Nat : m = Len(p) /\ n = Len(x) /\ m <= n
    BY DEF Above, Strings
  <1>2. CASE m = n
    <2>1. \A i \in 1 .. n : x[i] = p[i]
      BY <1>1, <1>2 DEF Above
    <2>2. p \in [1 .. n -> Letters] /\ x \in [1 .. n -> Letters]
      <3>1. \A s \in Seq(Letters) : s \in [1 .. Len(s) -> Letters]
        OBVIOUS
      <3>2. Len(p) = n /\ Len(x) = n
        BY <1>1, <1>2
      <3>3. p \in Seq(Letters) /\ x \in Seq(Letters)
        BY DEF Strings
      <3>4. p \in [1 .. Len(p) -> Letters] /\ x \in [1 .. Len(x) -> Letters]
        BY <3>1, <3>3
      <3> QED BY <3>2, <3>4
    <2> QED BY <2>1, <2>2
  <1>3. CASE m < n
    <2>1. m + 1 \in 1 .. n
      BY <1>3
    <2>2. \A i \in 1 .. n : x[i] \in Letters
      BY <1>1 DEF Strings
    <2> QED BY <1>1, <1>3, <2>1, <2>2
  <1> QED BY <1>1, <1>2, <1>3

LEMMA AboveChild ==
    ASSUME NEW p \in Strings, NEW c \in Letters, NEW x \in Strings
    PROVE  Above(Append(p, c), x) <=>
                Above(p, x) /\ Len(p) < Len(x) /\ x[Len(p) + 1] = c
  <1>1. PICK m \in Nat, n \in Nat, q \in Strings :
            /\ m = Len(p) /\ n = Len(x) /\ q = Append(p, c) /\ Len(q) = m + 1
            /\ \A i \in 1 .. m : q[i] = p[i]
            /\ q[m + 1] = c
    <2>1. PICK m \in Nat, n \in Nat : m = Len(p) /\ n = Len(x)
      BY DEF Strings
    <2>2. /\ Append(p, c) \in Strings /\ Len(Append(p, c)) = m + 1
          /\ \A i \in 1 .. m : Append(p, c)[i] = p[i]
          /\ Append(p, c)[m + 1] = c
      BY <2>1 DEF Strings
    <2> QED BY <2>1, <2>2
  <1>2. \A i \in 1 .. m + 1 : i \in 1 .. m \/ i = m + 1
    OBVIOUS
  <1>3. m + 1 \in 1 .. m + 1 /\ \A i \in 1 .. m : i \in 1 .. m + 1
    OBVIOUS
  <1>4. m + 1 <= n <=> m < n
    OBVIOUS
  <1>5. ASSUME Above(q, x) PROVE Above(p, x) /\ m < n /\ x[m + 1] = c
    <2>1. m + 1 <= n /\ \A i \in 1 .. m + 1 : x[i] = q[i]
      BY <1>1, <1>5 DEF Above
    <2>2. m <= n /\ \A i \in 1 .. m : x[i] = p[i]
      BY <1>1, <1>3, <2>1
    <2> QED BY <1>1, <1>3, <1>4, <2>1, <2>2 DEF Above
  <1>6. ASSUME Above(p, x), m < n, x[m + 1] = c PROVE Above(q, x)
    <2>1. \A i \in 1 .. m + 1 : x[i] = q[i]
      BY <1>1, <1>2, <1>6 DEF Above
    <2> QED BY <1>1, <1>4, <1>6, <2>1 DEF Above
  <1> QED BY <1>1, <1>5, <1>6

-----------------------------------------------------------------------------
(* Walks over the trie. *)

\* A trie has the path to each of its nodes and is not deeper than D.
IsTrie(trie, D) ==
    /\ D \in Nat
    /\ << >> \in trie.nodes
    /\ trie.nodes \subseteq Strings
    /\ \A x \in trie.nodes : Len(x) <= D
    /\ \A p \in Strings : \A x \in trie.nodes : Above(p, x) => p \in trie.nodes
    /\ DOMAIN trie.is_leaf \subseteq trie.nodes

\* r has the labels of the nodes in P at a node and below it, each once.
Collects(r, V, P, label, top) ==
    /\ r \in Seq(V)
    /\ IsInjective(r)
    /\ \A v : v \in ToSet(r) <=> \E x \in P : Above(top, x) /\ label[x] = v

\* So has what was collected at the children of a node, but for the node itself.
LEMMA Gathered ==
    ASSUME NEW trie, NEW D, IsTrie(trie, D), NEW node \in trie.nodes,
           NEW V, NEW P, P \subseteq trie.nodes, NEW label, label \in [P -> V],
           IsInjective(label),
           NEW seqs, seqs \in [1 .. N -> Seq(V)],
           \A i \in 1 .. N :
            /\ Child(node, i) \in trie.nodes =>
                Collects(seqs[i], V, P, label, Child(node, i))
            /\ Child(node, i) \notin trie.nodes => seqs[i] = << >>
    PROVE  Collects(FlattenSeq(seqs), V, P \ {node}, label, node)
  <1>1. /\ node \in Strings /\ P \subseteq Strings
        /\ \A p \in Strings : \A x \in P : Above(p, x) => p \in trie.nodes
    BY DEF IsTrie
  <1>2. N \in Nat /\ \A i \in 1 .. N : i - 1 \in Letters
    BY SearchAssumption DEF Letters
  <1>3. \A i \in 1 .. N : Child(node, i) \in Strings
    BY <1>1, <1>2 DEF Child, Strings
  <1>4. \A i \in 1 .. N : \A x \in P :
            Above(Child(node, i), x) <=>
                Above(node, x) /\ Len(node) < Len(x) /\ x[Len(node) + 1] = i - 1
    BY <1>1, <1>2, AboveChild DEF Child
  <1>5. seqs \in Seq(Seq(V)) /\ Len(seqs) = N
    BY <1>2
  <1>6. \A i \in 1 .. N : \A v : v \in ToSet(seqs[i]) <=>
            \E x \in P : Above(Child(node, i), x) /\ label[x] = v
    <2> SUFFICES ASSUME NEW i \in 1 .. N
                 PROVE  \A v : v \in ToSet(seqs[i]) <=>
                            \E x \in P : Above(Child(node, i), x) /\ label[x] = v
      OBVIOUS
    <2>1. CASE Child(node, i) \in trie.nodes
      BY <2>1 DEF Collects
    <2>2. CASE Child(node, i) \notin trie.nodes
      <3>1. ToSet(seqs[i]) = {}
        BY <2>2 DEF ToSet
      <3> QED BY <1>1, <1>3, <2>2, <3>1
    <2> QED BY <2>1, <2>2
  <1>7. \A i \in 1 .. N : IsInjective(seqs[i])
    <2>1. IsInjective(<< >>)
      BY DEF IsInjective
    <2> QED BY <2>1 DEF Collects
  <1>8. ASSUME NEW i \in 1 .. N, NEW j \in 1 .. N, i # j
        PROVE  ToSet(seqs[i]) \cap ToSet(seqs[j]) = {}
    <2> SUFFICES ASSUME NEW v, v \in ToSet(seqs[i]), v \in ToSet(seqs[j])
                 PROVE  FALSE
      OBVIOUS
    <2>1. PICK x \in P : Above(Child(node, i), x) /\ label[x] = v
      BY <1>6
    <2>2. PICK y \in P : Above(Child(node, j), y) /\ label[y] = v
      BY <1>6
    <2>3. x = y
      BY <2>1, <2>2 DEF IsInjective
    <2>4. x[Len(node) + 1] = i - 1 /\ x[Len(node) + 1] = j - 1
      BY <1>4, <2>1, <2>2, <2>3
    <2> QED BY <1>8, <2>4
  <1>9. /\ FlattenSeq(seqs) \in Seq(V)
        /\ \A v : v \in ToSet(FlattenSeq(seqs)) <=>
                \E i \in 1 .. N : v \in ToSet(seqs[i])
        /\ IsInjective(FlattenSeq(seqs))
    BY <1>5, <1>7, <1>8, Flattened
  <1>10. ASSUME NEW v
         PROVE  (\E i \in 1 .. N : v \in ToSet(seqs[i])) <=>
                    \E x \in P \ {node} : Above(node, x) /\ label[x] = v
    <2>1. ASSUME NEW i \in 1 .. N, v \in ToSet(seqs[i])
          PROVE  \E x \in P \ {node} : Above(node, x) /\ label[x] = v
      <3>1. PICK x \in P : Above(Child(node, i), x) /\ label[x] = v
        BY <1>6, <2>1
      <3>2. Above(node, x) /\ Len(node) < Len(x)
        BY <1>4, <3>1
      <3>3. x # node
        BY <1>1, <3>2 DEF Strings
      <3> QED BY <3>1, <3>2, <3>3
    <2>2. ASSUME NEW x \in P \ {node}, Above(node, x), label[x] = v
          PROVE  \E i \in 1 .. N : v \in ToSet(seqs[i])
      <3>1. Len(node) < Len(x) /\ x[Len(node) + 1] \in Letters
        BY <1>1, <2>2, AboveOrEqual
      <3>2. PICK i \in 1 .. N : x[Len(node) + 1] = i - 1
        <4>1. \A c \in Letters : \E i \in 1 .. N : c = i - 1
          <5> SUFFICES ASSUME NEW c \in Letters PROVE \E i \in 1 .. N : c = i - 1
            OBVIOUS
          <5>1. c + 1 \in 1 .. N /\ c \in Int
            BY <1>2 DEF Letters
          <5>2. PICK i \in 1 .. N : i = c + 1
            BY <5>1
          <5>3. c = i - 1
            BY <5>1, <5>2
          <5> QED BY <5>3
        <4> QED BY <3>1, <4>1
      <3>3. Above(Child(node, i), x)
        BY <1>4, <2>2, <3>1, <3>2
      <3> QED BY <1>6, <2>2, <3>3
    <2> QED BY <2>1, <2>2
  <1> QED BY <1>9, <1>10 DEF Collects

LEMMA ChildBelow ==
    ASSUME NEW trie, NEW D, IsTrie(trie, D), NEW node \in trie.nodes, NEW i \in 1 .. N,
           Child(node, i) \in trie.nodes
    PROVE  D - Len(Child(node, i)) < D - Len(node) /\ D - Len(Child(node, i)) \in 0 .. D
  <1>1. node \in Strings /\ D \in Nat /\ Len(Child(node, i)) <= D
    BY DEF IsTrie
  <1>2. PICK n \in Nat : n = Len(node)
    BY <1>1 DEF Strings
  <1>3. Len(Child(node, i)) = n + 1
    BY <1>1, <1>2 DEF Strings, Child
  <1> QED BY <1>1, <1>2, <1>3

\* Find_Complete_InChild finds the complete words below a node, each once.
LEMMA Completed ==
    ASSUME NEW trie, NEW D, IsTrie(trie, D), NEW V,
           trie.is_leaf \in [DOMAIN trie.is_leaf -> V], IsInjective(trie.is_leaf),
           NEW top \in trie.nodes
    PROVE  Collects(Find_Complete_InChild(trie, top), V, DOMAIN trie.is_leaf,
                    trie.is_leaf, top)
  <1> DEFINE P == DOMAIN trie.is_leaf
             Here(node) == IF node \in P THEN << trie.is_leaf[node] >> ELSE << >>
             Parts(f, node) == [i \in 1 .. N |->
                                IF Child(node, i) \in trie.nodes
                                THEN f[Child(node, i)] ELSE << >>]
             Body(f, node) == Here(node) \o FlattenSeq(Parts(f, node))
             Walk(f) == f = [node \in trie.nodes |-> Body(f, node)]
             complete == CHOOSE f : Walk(f)
  <1>1. Find_Complete_InChild(trie, top) = complete[top]
    BY DEF Find_Complete_InChild
  <1>2. N \in Nat
    BY SearchAssumption
  <1>3. ASSUME NEW node \in trie.nodes PROVE Here(node) \in Seq(V)
    <2>1. node \in P => trie.is_leaf[node] \in V
      OBVIOUS
    <2> QED BY <2>1
  <1>4. \E f : Walk(f)
    <2> DEFINE S == trie.nodes
               W == Seq(V)
               G == [x \in S \X [S -> W] |-> Body(x[2], x[1])]
               size == [x \in S |-> D - Len(x)]
    <2>1. ASSUME NEW node \in S, NEW f \in [S -> W] PROVE Body(f, node) \in W
      <3>1. Parts(f, node) \in Seq(Seq(V))
        <4>1. \A i \in 1 .. N :
                (IF Child(node, i) \in S THEN f[Child(node, i)] ELSE << >>) \in Seq(V)
          OBVIOUS
        <4> QED BY <1>2, <4>1
      <3>2. FlattenSeq(Parts(f, node)) \in Seq(V)
        <4> HIDE DEF Parts
        <4> QED BY <3>1, Flattened
      <3> HIDE DEF Here, Parts
      <3> QED BY <1>3, <3>2
    <2>2. G \in [S \X [S -> W] -> W]
      <3> HIDE DEF Body
      <3> QED BY <2>1
    <2>3. \A node \in S : \A f \in [S -> W] : G[<<node, f>>] = Body(f, node)
      <3> HIDE DEF Body
      <3> QED OBVIOUS
    <2>4. size \in [S -> 0 .. D] /\ \A x \in S : size[x] = D - Len(x)
      <3>1. \A x \in S : D - Len(x) \in 0 .. D
        BY DEF IsTrie, Strings
      <3> QED BY <3>1
    <2>5. ASSUME NEW node \in S, NEW f \in [S -> W], NEW g \in [S -> W],
                 \A y \in S : size[y] < size[node] => f[y] = g[y]
          PROVE  Body(f, node) = Body(g, node)
      <3>1. \A i \in 1 .. N : Child(node, i) \in S => f[Child(node, i)] = g[Child(node, i)]
        <4> HIDE DEF size
        <4> QED BY <2>4, <2>5, ChildBelow
      <3>2. Parts(f, node) = Parts(g, node)
        BY <3>1
      <3> HIDE DEF Parts, Here
      <3> QED BY <3>2
    <2> HIDE DEF G, size, W, Body
    <2>6. D \in Nat /\ W # {}
      BY <1>3 DEF IsTrie, W
    <2>7. FromSmaller(S, W, D, size, G)
      <3> HIDE DEF S
      <3>1. ASSUME NEW x \in S, NEW g \in [S -> W], NEW h \in [S -> W],
                   \A y \in S : size[y] < size[x] => g[y] = h[y]
            PROVE  G[<<x, g>>] = G[<<x, h>>]
        <4>1. Body(g, x) = Body(h, x)
          BY <2>5, <3>1
        <4> QED BY <2>3, <4>1
      <3> QED BY <2>2, <2>4, <2>6, <3>1 DEF FromSmaller
    <2>8. PICK f : Solves(f, S, W, G)
      BY <2>7, Recursion
    <2>9. f = [node \in S |-> Body(f, node)]
      BY <2>3, <2>8 DEF Solves
    <2> QED BY <2>9
  <1>5. \A node \in trie.nodes : complete[node] = Body(complete, node)
    <2>1. Walk(complete)
      BY <1>4
    <2> HIDE DEF complete, Body
    <2> QED BY <2>1
  <1> HIDE DEF complete
  <1> DEFINE Good(node) == Collects(complete[node], V, P, trie.is_leaf, node)
             T == {k \in Nat : \A node \in trie.nodes : D - Len(node) < k => Good(node)}
  <1>6. 0 \in T
    <2>1. \A node \in trie.nodes : ~(D - Len(node) < 0)
      BY DEF IsTrie, Strings
    <2> QED BY <2>1
  <1>7. ASSUME NEW k \in Nat, k \in T, NEW node \in trie.nodes, D - Len(node) < k + 1
        PROVE  Good(node)
    <2> DEFINE seqs == Parts(complete, node)
    <2>1. \A i \in 1 .. N : Child(node, i) \in trie.nodes =>
            Collects(complete[Child(node, i)], V, P, trie.is_leaf, Child(node, i))
      <3> SUFFICES ASSUME NEW i \in 1 .. N, Child(node, i) \in trie.nodes
                   PROVE  Good(Child(node, i))
        OBVIOUS
      <3>1. D - Len(Child(node, i)) < k
        <4>1. D - Len(node) \in Int
          BY DEF IsTrie, Strings
        <4> QED BY <1>7, <4>1, ChildBelow
      <3> HIDE DEF Good
      <3> QED BY <1>7, <3>1
    <2>2. /\ \A i \in 1 .. N : Child(node, i) \in trie.nodes =>
                seqs[i] = complete[Child(node, i)]
          /\ \A i \in 1 .. N : Child(node, i) \notin trie.nodes => seqs[i] = << >>
      OBVIOUS
    <2>3. seqs \in [1 .. N -> Seq(V)]
      <3>1. \A i \in 1 .. N : Child(node, i) \in trie.nodes =>
                complete[Child(node, i)] \in Seq(V)
        BY <2>1 DEF Collects
      <3> QED BY <3>1
    <2>4. complete[node] = Here(node) \o FlattenSeq(seqs)
      <3> HIDE DEF Here, Parts
      <3> QED BY <1>5
    <2> HIDE DEF seqs
    <2>5. P \subseteq trie.nodes
      BY DEF IsTrie
    <2>6. Collects(FlattenSeq(seqs), V, P \ {node}, trie.is_leaf, node)
      BY <2>1, <2>2, <2>3, <2>5, Gathered
    <2>7. /\ IsInjective(Here(node))
          /\ \A v : v \in ToSet(Here(node)) <=> node \in P /\ v = trie.is_leaf[node]
      BY DEF IsInjective, ToSet
    <2>8. node \in Strings
      BY DEF IsTrie
    <2>9. ToSet(Here(node)) \cap ToSet(FlattenSeq(seqs)) = {}
      <3> SUFFICES ASSUME NEW v, v \in ToSet(Here(node)), v \in ToSet(FlattenSeq(seqs))
                   PROVE  FALSE
        OBVIOUS
      <3> HIDE DEF Here
      <3>1. PICK x \in P \ {node} : trie.is_leaf[x] = v
        BY <2>6 DEF Collects
      <3> QED BY <2>7, <3>1 DEF IsInjective
    <2> HIDE DEF Here
    <2>10. /\ complete[node] \in Seq(V)
           /\ IsInjective(complete[node])
           /\ \A v : v \in ToSet(complete[node]) <=>
                v \in ToSet(Here(node)) \/ v \in ToSet(FlattenSeq(seqs))
      <3>1. Here(node) \in Seq(V) /\ FlattenSeq(seqs) \in Seq(V)
            /\ IsInjective(FlattenSeq(seqs))
        BY <1>3, <2>6 DEF Collects
      <3> QED BY <2>4, <2>7, <2>9, <3>1, Concatenated
    <2>11. ASSUME NEW v
           PROVE  v \in ToSet(complete[node]) <=>
                    \E x \in P : Above(node, x) /\ trie.is_leaf[x] = v
      <3>1. v \in ToSet(FlattenSeq(seqs)) <=>
                \E x \in P \ {node} : Above(node, x) /\ trie.is_leaf[x] = v
        BY <2>6 DEF Collects
      <3> QED BY <2>7, <2>8, <2>10, <3>1, AboveTop
    <2> QED BY <2>10, <2>11 DEF Collects
  <1>8. D + 1 \in T
    <2>1. \A k \in Nat : k \in T => k + 1 \in T
      <3> HIDE DEF Good
      <3> QED BY <1>7
    <2>2. D + 1 \in Nat
      BY DEF IsTrie
    <2> HIDE DEF T
    <2> QED BY <1>6, <2>1, <2>2, Induction
  <1>9. D - Len(top) < D + 1
    BY DEF IsTrie, Strings
  <1>10. Good(top)
    <2> HIDE DEF Good
    <2> QED BY <1>8, <1>9
  <1> QED BY <1>1, <1>10

\* At x the last character of s is met: not before.
MetAt(s, x) ==
    /\ Embeds(Len(s), s, x)
    /\ \A q \in Strings : Above(q, x) /\ q # x => ~Embeds(Len(s), s, q)

Firsts(trie, s) == {x \in trie.nodes : MetAt(s, x)}
Themselves(S) == [x \in S |-> x]

\* Down to x exactly n characters of s have been met.
Met(n, s, x) == Embeds(n, s, x) /\ ~Embeds(n + 1, s, x)

LEMMA AboveLast ==
    ASSUME NEW p \in Strings, NEW c \in Letters, NEW q \in Strings, Above(q, Append(p, c))
    PROVE  q = Append(p, c) \/ Above(q, p)
  <1>1. PICK n \in Nat, w \in Strings :
            /\ n = Len(p) /\ w = Append(p, c) /\ Len(w) = n + 1
            /\ \A i \in 1 .. n : w[i] = p[i]
    <2>1. PICK n \in Nat : n = Len(p)
      BY DEF Strings
    <2>2. /\ Append(p, c) \in Strings /\ Len(Append(p, c)) = n + 1
          /\ \A i \in 1 .. n : Append(p, c)[i] = p[i]
      BY <2>1 DEF Strings
    <2> QED BY <2>1, <2>2
  <1>2. q = w \/ Len(q) < n + 1
    BY <1>1, AboveOrEqual
  <1>3. PICK m \in Nat : m = Len(q)
    BY DEF Strings
  <1>4. ASSUME m < n + 1 PROVE Above(q, p)
    <2>1. m <= n /\ \A i \in 1 .. m : i \in 1 .. n
      BY <1>4
    <2>2. \A i \in 1 .. m : w[i] = q[i]
      BY <1>1, <1>3 DEF Above
    <2> QED BY <1>1, <1>3, <2>1, <2>2 DEF Above
  <1> QED BY <1>1, <1>2, <1>3, <1>4

\* What is met at a child when n characters were met above it.
LEMMA MeetsNext ==
    ASSUME NEW s \in Strings, NEW p \in Strings, NEW c \in Letters,
           NEW n \in 0 .. Len(s) - 1, Met(n, s, p)
    PROVE  /\ c = s[n + 1] /\ n + 1 = Len(s) => MetAt(s, Append(p, c))
           /\ c = s[n + 1] /\ n + 1 # Len(s) => Met(n + 1, s, Append(p, c))
           /\ c # s[n + 1] => Met(n, s, Append(p, c))
  <1> DEFINE w == Append(p, c)
  <1>1. PICK l \in Nat : l = Len(s) /\ n \in Nat /\ n + 1 <= l
    BY DEF Strings
  <1>2. w \in Strings
    BY DEF Strings
  <1>3. Embeds(n, s, w)
    <2>1. Above(p, w)
      BY <1>2, AboveTop, AboveChild
    <2> QED BY <1>1, <1>2, <2>1, EmbedsBelow DEF Met
  <1>4. Embeds(n + 1, s, w) <=> c = s[n + 1]
    BY <1>1, EmbedsStep DEF Met
  <1>5. ASSUME c = s[n + 1], n + 1 = l PROVE MetAt(s, w)
    <2>1. \A q \in Strings : Above(q, w) /\ q # w => ~Embeds(n + 1, s, q)
      <3> SUFFICES ASSUME NEW q \in Strings, Above(q, w), q # w, Embeds(n + 1, s, q)
                   PROVE  FALSE
        OBVIOUS
      <3>1. Above(q, p)
        BY AboveLast
      <3>2. Embeds(n + 1, s, p)
        BY <1>1, <3>1, EmbedsBelow
      <3> QED BY <3>2 DEF Met
    <2> QED BY <1>1, <1>4, <1>5, <2>1 DEF MetAt
  <1>6. ASSUME c = s[n + 1] PROVE Met(n + 1, s, w)
    <2>1. ~Embeds(n + 2, s, w)
      <3> SUFFICES ASSUME Embeds(n + 2, s, w) PROVE FALSE
        OBVIOUS
      <3>1. n + 1 \in Nat /\ n + 1 + 1 = n + 2 /\ n + 2 \in Nat /\ n + 1 <= n + 2
        BY <1>1
      <3>2. Embeds(n + 1 + 1, s, p) \/ Embeds(n + 1, s, p)
        BY <3>1, EmbedsStep
      <3>3. Embeds(n + 1, s, p)
        BY <3>1, <3>2, EmbedsLess
      <3> QED BY <3>3 DEF Met
    <2>2. n + 1 + 1 = n + 2
      BY <1>1
    <2> QED BY <1>4, <1>6, <2>1, <2>2 DEF Met
  <1>7. ASSUME c # s[n + 1] PROVE Met(n, s, w)
    BY <1>3, <1>4, <1>7 DEF Met
  <1> QED BY <1>1, <1>5, <1>6, <1>7

\* Where fewer than all characters are met, the last one is not met at or above.
LEMMA NotMetYet ==
    ASSUME NEW s \in Strings, NEW x \in Strings, NEW n \in 0 .. Len(s) - 1, Met(n, s, x)
    PROVE  ~MetAt(s, x)
  <1>1. n + 1 \in Nat /\ Len(s) \in Nat /\ n + 1 <= Len(s)
    BY DEF Strings
  <1> QED BY <1>1, EmbedsLess DEF Met, MetAt

\* Find_Match_Prefix_Node finds the nodes where the last character of the search
\* word is met, each once.
LEMMA FoundNodes ==
    ASSUME NEW trie, NEW D, IsTrie(trie, D), NEW s \in Strings, s # << >>
    PROVE  Collects(Find_Match_Prefix_Node(trie, s), trie.nodes, Firsts(trie, s),
                    Themselves(Firsts(trie, s)), << >>)
  <1> DEFINE V == trie.nodes
             P == Firsts(trie, s)
             label == Themselves(P)
             S == V \X (0 .. Len(s) - 1)
             Hit(at) == at[1] # << >> /\ Last(at[1]) = s[at[2] + 1]
             Onwards(at) == IF Hit(at) THEN at[2] + 1 ELSE at[2]
             Parts(f, at) == [i \in 1 .. N |->
                                IF Child(at[1], i) \in V
                                THEN f[<< Child(at[1], i), Onwards(at) >>] ELSE << >>]
             Body(f, at) == IF Hit(at) /\ Onwards(at) = Len(s) THEN << at[1] >>
                            ELSE FlattenSeq(Parts(f, at))
             Walk(f) == f = [at \in S |-> Body(f, at)]
             find == CHOOSE f : Walk(f)
  <1>1. Find_Match_Prefix_Node(trie, s) = find[<< << >>, 0 >>]
    BY DEF Find_Match_Prefix_Node
  <1>2. N \in Nat /\ Len(s) \in Nat /\ Len(s) # 0
    BY SearchAssumption DEF Strings
  <1>3. V \subseteq Strings /\ << >> \in V /\ D \in Nat
    BY DEF IsTrie
  <1>4. ASSUME NEW at \in S, ~(Hit(at) /\ Onwards(at) = Len(s))
        PROVE  Onwards(at) \in 0 .. Len(s) - 1
    BY <1>2, <1>4
  <1>5. \E f : Walk(f)
    <2> DEFINE W == Seq(V)
               G == [x \in S \X [S -> W] |-> Body(x[2], x[1])]
               size == [at \in S |-> D - Len(at[1])]
    <2>1. ASSUME NEW at \in S, NEW f \in [S -> W] PROVE Body(f, at) \in W
      <3>1. CASE Hit(at) /\ Onwards(at) = Len(s)
        <4>1. at[1] \in V
          OBVIOUS
        <4>2. \A x \in V : << x >> \in Seq(V)
          BY Singletons
        <4>3. << at[1] >> \in W
          BY <4>1, <4>2
        <4> HIDE DEF Hit, Onwards, Parts, W
        <4> QED BY <3>1, <4>3
      <3>2. CASE ~(Hit(at) /\ Onwards(at) = Len(s))
        <4>1. Onwards(at) \in 0 .. Len(s) - 1
          BY <1>4, <3>2
        <4>2. Parts(f, at) \in Seq(Seq(V))
          <5> HIDE DEF Onwards, Hit
          <5>1. ASSUME NEW i \in 1 .. N, Child(at[1], i) \in V
                PROVE  f[<< Child(at[1], i), Onwards(at) >>] \in Seq(V)
            <6>1. << Child(at[1], i), Onwards(at) >> \in S
              BY <4>1, <5>1
            <6> HIDE DEF S
            <6> QED BY <6>1
          <5>2. \A i \in 1 .. N :
                  (IF Child(at[1], i) \in V
                   THEN f[<< Child(at[1], i), Onwards(at) >>] ELSE << >>) \in Seq(V)
            <6> HIDE DEF V
            <6>1. << >> \in Seq(V)
              OBVIOUS
            <6> QED BY <5>1, <6>1
          <5>3. Parts(f, at) \in [1 .. N -> Seq(V)]
            BY <5>2
          <5> HIDE DEF Parts
          <5> QED BY <1>2, <5>3
        <4> HIDE DEF Parts, Hit, Onwards
        <4>3. FlattenSeq(Parts(f, at)) \in Seq(V)
          BY <4>2, Flattened
        <4> QED BY <3>2, <4>3
      <3> QED BY <3>1, <3>2
    <2>2. G \in [S \X [S -> W] -> W]
      <3> HIDE DEF Body, S
      <3> QED BY <2>1
    <2>3. \A at \in S : \A f \in [S -> W] : G[<<at, f>>] = Body(f, at)
      <3> HIDE DEF Body, S
      <3> QED OBVIOUS
    <2>4. size \in [S -> 0 .. D] /\ \A at \in S : size[at] = D - Len(at[1])
      <3>1. \A x \in V : D - Len(x) \in 0 .. D
        BY DEF IsTrie, Strings
      <3> QED BY <3>1
    <2>5. ASSUME NEW at \in S, NEW f \in [S -> W], NEW g \in [S -> W],
                 \A y \in S : size[y] < size[at] => f[y] = g[y]
          PROVE  Body(f, at) = Body(g, at)
      <3>1. CASE Hit(at) /\ Onwards(at) = Len(s)
        <4> HIDE DEF Hit, Onwards, Parts
        <4> QED BY <3>1
      <3>2. CASE ~(Hit(at) /\ Onwards(at) = Len(s))
        <4>1. Onwards(at) \in 0 .. Len(s) - 1
          BY <1>4, <3>2
        <4> HIDE DEF Hit, Onwards
        <4>2. ASSUME NEW i \in 1 .. N, Child(at[1], i) \in V
              PROVE  f[<< Child(at[1], i), Onwards(at) >>] =
                     g[<< Child(at[1], i), Onwards(at) >>]
          <5>1. PICK y \in S : y = << Child(at[1], i), Onwards(at) >>
            BY <4>1, <4>2
          <5>2. size[y] = D - Len(Child(at[1], i)) /\ size[at] = D - Len(at[1])
            <6> HIDE DEF size, S
            <6>1. y[1] = Child(at[1], i)
              BY <5>1
            <6> QED BY <2>4, <6>1
          <5>3. at[1] \in V
            OBVIOUS
          <5>4. size[y] < size[at]
            BY <4>2, <5>2, <5>3, ChildBelow
          <5> HIDE DEF size, S
          <5> QED BY <2>5, <5>1, <5>4
        <4>3. Parts(f, at) = Parts(g, at)
          BY <4>2
        <4> HIDE DEF Parts
        <4> QED BY <4>3
      <3> QED BY <3>1, <3>2
    <2> HIDE DEF G, size, W, Body, S
    <2>6. W # {}
      <3>1. << >> \in Seq(V)
        OBVIOUS
      <3> QED BY <3>1 DEF W
    <2>7. FromSmaller(S, W, D, size, G)
      <3>1. ASSUME NEW x \in S, NEW g \in [S -> W], NEW h \in [S -> W],
                   \A y \in S : size[y] < size[x] => g[y] = h[y]
            PROVE  G[<<x, g>>] = G[<<x, h>>]
        <4>1. Body(g, x) = Body(h, x)
          BY <2>5, <3>1
        <4> QED BY <2>3, <4>1
      <3> QED BY <1>3, <2>2, <2>4, <2>6, <3>1 DEF FromSmaller
    <2>8. PICK f : Solves(f, S, W, G)
      BY <2>7, Recursion
    <2>9. f = [at \in S |-> Body(f, at)]
      BY <2>3, <2>8 DEF Solves
    <2> QED BY <2>9
  <1>6. \A at \in S : find[at] = Body(find, at)
    <2>1. Walk(find)
      BY <1>5
    <2> HIDE DEF find, Body, S
    <2> QED BY <2>1
  <1> HIDE DEF find
  <1>7. \A node \in V : \A n \in 0 .. Len(s) - 1 :
            find[<<node, n>>] =
                LET hit == node # << >> /\ Last(node) = s[n + 1]
                    next == IF hit THEN n + 1 ELSE n
                IN  IF hit /\ next = Len(s) THEN << node >>
                    ELSE FlattenSeq([i \in 1 .. N |->
                            IF Child(node, i) \in V
                            THEN find[<< Child(node, i), next >>] ELSE << >>])
    <2> SUFFICES ASSUME NEW node \in V, NEW n \in 0 .. Len(s) - 1
                 PROVE  find[<<node, n>>] =
                LET hit == node # << >> /\ Last(node) = s[n + 1]
                    next == IF hit THEN n + 1 ELSE n
                IN  IF hit /\ next = Len(s) THEN << node >>
                    ELSE FlattenSeq([i \in 1 .. N |->
                            IF Child(node, i) \in V
                            THEN find[<< Child(node, i), next >>] ELSE << >>])
      OBVIOUS
    <2>1. << node, n >> \in S
      OBVIOUS
    <2>2. find[<<node, n>>] = Body(find, <<node, n>>)
      <3> HIDE DEF Body, S
      <3> QED BY <1>6, <2>1
    <2> QED BY <2>2
  <1> HIDE DEF S
  <1> DEFINE Entered(node, n) ==
                \/ node = << >> /\ n = 0
                \/ \E p \in V : \E i \in 1 .. N : node = Child(p, i) /\ Met(n, s, p)
             Good(node, n) == Collects(find[<<node, n>>], V, P, label, node)
             T == {k \in Nat : \A node \in V : \A n \in 0 .. Len(s) - 1 :
                        D - Len(node) < k /\ Entered(node, n) => Good(node, n)}
  <1>8. 0 \in T
    <2>1. \A node \in V : ~(D - Len(node) < 0)
      BY DEF IsTrie, Strings
    <2> HIDE DEF Good, Entered
    <2> QED BY <2>1
  <1>9. P \subseteq V /\ label \in [P -> V] /\ IsInjective(label)
        /\ \A x \in P : label[x] = x
    BY DEF Firsts, Themselves, IsInjective
  <1>10. ASSUME NEW k \in Nat, k \in T, NEW node \in V, NEW n \in 0 .. Len(s) - 1,
                D - Len(node) < k + 1, Entered(node, n)
         PROVE  Good(node, n)
    <2> DEFINE hit == node # << >> /\ Last(node) = s[n + 1]
               next == IF hit THEN n + 1 ELSE n
               seqs == [i \in 1 .. N |->
                            IF Child(node, i) \in V
                            THEN find[<< Child(node, i), next >>] ELSE << >>]
    <2>1. find[<<node, n>>] = IF hit /\ next = Len(s) THEN << node >> ELSE FlattenSeq(seqs)
      BY <1>7
    <2>2. /\ hit /\ next = Len(s) => MetAt(s, node)
          /\ ~(hit /\ next = Len(s)) => Met(next, s, node)
      <3>1. CASE node = << >> /\ n = 0
        <4>1. Embeds(0, s, << >>)
          BY EmbedsNothing
        <4>2. ~Embeds(0 + 1, s, << >>)
          <5>1. 0 + 1 \in Nat \ {0}
            OBVIOUS
          <5> QED BY <5>1, EmbedsInNothing
        <4>3. Met(0, s, << >>)
          BY <4>1, <4>2 DEF Met
        <4> QED BY <3>1, <4>3
      <3>2. CASE node # << >>
        <4>1. PICK p \in V, i \in 1 .. N : node = Child(p, i) /\ Met(n, s, p)
          BY <1>10, <3>2
        <4>2. PICK c : c = i - 1 /\ c \in Letters /\ node = Append(p, c)
          BY <1>2, <4>1 DEF Child, Letters
        <4>3. Last(node) = c
          <5>1. p \in Seq(Letters)
            BY <1>3 DEF Strings
          <5>2. PICK m \in Nat : m = Len(p)
            BY <5>1
          <5>3. Len(node) = m + 1 /\ node[m + 1] = c
            BY <4>2, <5>1, <5>2
          <5> QED BY <5>3 DEF Last
        <4>4. p \in Strings
          BY <1>3
        <4>5. /\ c = s[n + 1] /\ n + 1 = Len(s) => MetAt(s, node)
              /\ c = s[n + 1] /\ n + 1 # Len(s) => Met(n + 1, s, node)
              /\ c # s[n + 1] => Met(n, s, node)
          BY <4>1, <4>2, <4>4, MeetsNext
        <4> QED BY <3>2, <4>3, <4>5
      <3>3. CASE node = << >> /\ n # 0
        <4>1. PICK p \in V, i \in 1 .. N : node = Child(p, i)
          BY <1>10, <3>3
        <4>2. p \in Seq(Letters)
          BY <1>3 DEF Strings
        <4>3. Append(p, i - 1) # << >>
          BY <4>2
        <4> QED BY <3>3, <4>1, <4>3 DEF Child
      <3> QED BY <3>1, <3>2, <3>3
    <2>3. CASE hit /\ next = Len(s)
      <3>1. find[<<node, n>>] = << node >> /\ MetAt(s, node)
        <4> HIDE DEF hit, next, seqs
        <4> QED BY <2>1, <2>2, <2>3
      <3>2. node \in P /\ node \in Strings
        BY <1>3, <3>1 DEF Firsts
      <3>3. << node >> \in Seq(V) /\ IsInjective(<< node >>)
            /\ \A v : v \in ToSet(<< node >>) <=> v = node
        <4>1. << node >> \in Seq(V)
          BY Singletons
        <4>2. DOMAIN << node >> = {1} /\ << node >>[1] = node
          OBVIOUS
        <4>3. IsInjective(<< node >>)
          BY <4>2 DEF IsInjective
        <4>4. \A v : v \in ToSet(<< node >>) <=> v = node
          BY <4>2 DEF ToSet
        <4> QED BY <4>1, <4>3, <4>4
      <3>4. ASSUME NEW x \in P, Above(node, x) PROVE x = node
        <4>1. MetAt(s, x)
          BY DEF Firsts
        <4> QED BY <3>1, <3>2, <3>4, <4>1 DEF MetAt
      <3>5. \A v : v = node <=> \E x \in P : Above(node, x) /\ label[x] = v
        <4> HIDE DEF P, label
        <4> QED BY <1>9, <3>2, <3>4, AboveTop
      <3> HIDE DEF P, label
      <3> QED BY <3>1, <3>3, <3>5 DEF Collects
    <2>4. CASE ~(hit /\ next = Len(s))
      <3>1. next \in 0 .. Len(s) - 1
        BY <1>2, <2>4
      <3>2. find[<<node, n>>] = FlattenSeq(seqs) /\ Met(next, s, node)
        <4> HIDE DEF hit, next, seqs
        <4> QED BY <2>1, <2>2, <2>4
      <3> HIDE DEF hit, next
      <3>3. ASSUME NEW i \in 1 .. N, Child(node, i) \in V
            PROVE  Collects(find[<< Child(node, i), next >>], V, P, label, Child(node, i))
        <4>1. D - Len(Child(node, i)) < k
          <5>1. D - Len(node) \in Int
            BY DEF IsTrie, Strings
          <5> QED BY <1>10, <3>3, <5>1, ChildBelow
        <4>2. Entered(Child(node, i), next)
          BY <3>2
        <4>3. Good(Child(node, i), next)
          <5> HIDE DEF Good, Entered
          <5> QED BY <1>10, <3>1, <3>3, <4>1, <4>2
        <4> QED BY <4>3
      <3>4. /\ \A i \in 1 .. N : Child(node, i) \in V =>
                    seqs[i] = find[<< Child(node, i), next >>]
            /\ \A i \in 1 .. N : Child(node, i) \notin V => seqs[i] = << >>
        OBVIOUS
      <3>5. seqs \in [1 .. N -> Seq(V)]
        <4>1. \A i \in 1 .. N : Child(node, i) \in V =>
                    find[<< Child(node, i), next >>] \in Seq(V)
          BY <3>3 DEF Collects
        <4>2. \A i \in 1 .. N :
                (IF Child(node, i) \in V
                 THEN find[<< Child(node, i), next >>] ELSE << >>) \in Seq(V)
          <5> HIDE DEF V
          <5>1. << >> \in Seq(V)
            OBVIOUS
          <5> QED BY <4>1, <5>1
        <4> QED BY <4>2
      <3> HIDE DEF seqs, label, P
      <3>6. Collects(FlattenSeq(seqs), V, P \ {node}, label, node)
        BY <1>9, <3>3, <3>4, <3>5, Gathered
      <3>7. node \notin P
        BY <1>3, <3>1, <3>2, NotMetYet DEF P, Firsts
      <3>8. P \ {node} = P
        BY <3>7
      <3> QED BY <3>2, <3>6, <3>8
    <2> HIDE DEF hit, next, seqs, Good
    <2> QED BY <2>3, <2>4
  <1>11. D + 1 \in T
    <2>1. \A k \in Nat : k \in T => k + 1 \in T
      <3> HIDE DEF Good, Entered
      <3> QED BY <1>10
    <2>2. D + 1 \in Nat
      BY <1>3
    <2> HIDE DEF T
    <2> QED BY <1>8, <2>1, <2>2, Induction
  <1>12. Good(<< >>, 0)
    <2>1. D - Len(<< >>) < D + 1 /\ 0 \in 0 .. Len(s) - 1
      BY <1>2, <1>3
    <2>2. Entered(<< >>, 0)
      OBVIOUS
    <2> HIDE DEF Good, Entered
    <2> QED BY <1>3, <1>11, <2>1, <2>2
  <1> QED BY <1>1, <1>12

LEMMA SameString ==
    ASSUME NEW p \in Strings, NEW q \in Strings, Len(p) = Len(q),
           \A i \in 1 .. Len(p) : p[i] = q[i]
    PROVE  p = q
  <1>1. PICK n \in Nat : n = Len(p) /\ n = Len(q)
    BY DEF Strings
  <1>2. p \in [1 .. n -> Letters] /\ q \in [1 .. n -> Letters]
    <2>1. \A s \in Seq(Letters) : s \in [1 .. Len(s) -> Letters]
      OBVIOUS
    <2>2. p \in [1 .. Len(p) -> Letters] /\ q \in [1 .. Len(q) -> Letters]
      BY <2>1 DEF Strings
    <2> QED BY <1>1, <2>2
  <1> QED BY <1>1, <1>2

\* The beginning of length k of x.
LEMMA Beginning ==
    ASSUME NEW x \in Strings, NEW k \in 0 .. Len(x)
    PROVE  /\ SubSeq(x, 1, k) \in Strings
           /\ Len(SubSeq(x, 1, k)) = k
           /\ Above(SubSeq(x, 1, k), x)
           /\ \A q \in Strings : Above(q, x) /\ Len(q) = k => q = SubSeq(x, 1, k)
  <1>1. PICK n \in Nat : n = Len(x) /\ k \in Nat /\ k <= n
    BY DEF Strings
  <1>2. PICK b \in Strings :
            /\ b = SubSeq(x, 1, k) /\ Len(b) = k
            /\ \A i \in 1 .. k : b[i] = x[i]
    <2>1. x \in Seq(Letters)
      BY DEF Strings
    <2>2. SubSeq(x, 1, k) \in Seq(Letters)
      BY <1>1, <2>1
    <2>3. Len(SubSeq(x, 1, k)) = k
      BY <1>1, <2>1
    <2>4. \A i \in 1 .. k : SubSeq(x, 1, k)[i] = x[i]
      BY <1>1, <2>1
    <2> QED BY <2>2, <2>3, <2>4 DEF Strings
  <1>3. Above(b, x)
    BY <1>1, <1>2 DEF Above
  <1>4. ASSUME NEW q \in Strings, Above(q, x), Len(q) = k PROVE q = b
    <2>1. \A i \in 1 .. k : x[i] = q[i]
      BY <1>4 DEF Above
    <2>2. Len(q) = Len(b) /\ \A i \in 1 .. Len(q) : q[i] = b[i]
      BY <1>2, <1>4, <2>1
    <2> QED BY <2>2, SameString
  <1> QED BY <1>2, <1>3, <1>4

LEMMA AboveLinear ==
    ASSUME NEW p \in Strings, NEW q \in Strings, NEW x \in Strings, Above(p, x), Above(q, x)
    PROVE  Above(p, q) \/ Above(q, p)
  <1>1. PICK m \in Nat, n \in Nat : m = Len(p) /\ n = Len(q)
    BY DEF Strings
  <1>2. (\A i \in 1 .. m : x[i] = p[i]) /\ \A i \in 1 .. n : x[i] = q[i]
    BY <1>1 DEF Above
  <1>3. CASE m <= n
    <2>1. \A i \in 1 .. m : i \in 1 .. n
      BY <1>3
    <2> QED BY <1>1, <1>2, <1>3, <2>1 DEF Above
  <1>4. CASE n <= m
    <2>1. \A i \in 1 .. n : i \in 1 .. m
      BY <1>4
    <2> QED BY <1>1, <1>2, <1>4, <2>1 DEF Above
  <1> QED BY <1>3, <1>4

\* Where s occurs there is a first place where its last character is met.
LEMMA FirstMeeting ==
    ASSUME NEW s \in Strings, NEW x \in Strings, Embeds(Len(s), s, x)
    PROVE  \E f \in Strings : Above(f, x) /\ MetAt(s, f)
  <1> DEFINE A == {k \in 0 .. Len(x) : Embeds(Len(s), s, SubSeq(x, 1, k))}
  <1>1. Len(x) \in Nat /\ Len(s) \in Nat
    BY DEF Strings
  <1>2. Len(x) \in A
    <2>1. Len(x) \in 0 .. Len(x)
      BY <1>1
    <2>2. x = SubSeq(x, 1, Len(x))
      BY <2>1, Beginning, AboveTop
    <2>3. Embeds(Len(s), s, SubSeq(x, 1, Len(x)))
      BY <2>2
    <2> QED BY <2>1, <2>3
  <1>3. A \in SUBSET (0 .. Len(x)) /\ A # {}
    BY <1>2
  <1>4. PICK k \in A : \A a \in A : k <= a
    <2> HIDE DEF A
    <2>1. Min(A) \in A /\ \A a \in A : Min(A) <= a
      BY <1>1, <1>3, MinOfInterval
    <2> QED BY <2>1
  <1>5. PICK f \in Strings : f = SubSeq(x, 1, k) /\ Len(f) = k /\ Above(f, x)
    BY <1>4, Beginning
  <1>6. \A q \in Strings : Above(q, f) /\ q # f => ~Embeds(Len(s), s, q)
    <2> SUFFICES ASSUME NEW q \in Strings, Above(q, f), q # f, Embeds(Len(s), s, q)
                 PROVE  FALSE
      OBVIOUS
    <2>1. Len(q) < Len(f) /\ Len(q) \in Nat /\ k \in 0 .. Len(x)
      BY AboveOrEqual DEF Strings
    <2>2. Above(q, x)
      BY <1>5, AboveAbove
    <2>3. PICK m \in 0 .. Len(x) : m = Len(q) /\ m < k
      BY <1>1, <1>5, <2>1
    <2>4. q = SubSeq(x, 1, m)
      BY <2>2, <2>3, Beginning
    <2>5. m \in A
      BY <2>4
    <2>6. k <= m
      BY <1>4, <2>5
    <2> QED BY <2>1, <2>3, <2>6
  <1>7. Embeds(Len(s), s, f)
    BY <1>4, <1>5
  <1> QED BY <1>5, <1>6, <1>7 DEF MetAt

\* What SearchEngine collects: the words in which s occurs, each once.
LEMMA WordsFound ==
    ASSUME NEW trie, NEW D, IsTrie(trie, D), NEW s \in Strings, s # << >>, NEW V,
           trie.is_leaf \in [DOMAIN trie.is_leaf -> V], IsInjective(trie.is_leaf)
    PROVE  LET words == Get_Complete_Words(trie, Find_Match_Prefix_Node(trie, s))
           IN  /\ words \in Seq(V)
               /\ IsInjective(words)
               /\ \A v : v \in ToSet(words) <=>
                    \E x \in DOMAIN trie.is_leaf :
                        Embeds(Len(s), s, x) /\ trie.is_leaf[x] = v
  <1> DEFINE P == DOMAIN trie.is_leaf
             Nodes == Find_Match_Prefix_Node(trie, s)
             Parts(found) == [i \in 1 .. Len(found) |-> Find_Complete_InChild(trie, found[i])]
  <1>1. PICK found : found = Nodes
    OBVIOUS
  <1>2. /\ found \in Seq(trie.nodes) /\ IsInjective(found)
        /\ \A x : x \in ToSet(found) <=> x \in trie.nodes /\ MetAt(s, x)
    <2>1. Collects(found, trie.nodes, Firsts(trie, s), Themselves(Firsts(trie, s)), << >>)
      BY <1>1, FoundNodes
    <2>2. \A x \in Firsts(trie, s) : Above(<< >>, x) /\ Themselves(Firsts(trie, s))[x] = x
      BY AboveTop DEF IsTrie, Firsts, Themselves
    <2>3. \A x : x \in ToSet(found) <=> x \in Firsts(trie, s)
      BY <2>1, <2>2 DEF Collects
    <2> QED BY <2>1, <2>3 DEF Collects, Firsts
  <1>3. Get_Complete_Words(trie, Nodes) = FlattenSeq(Parts(found))
    BY <1>1 DEF Get_Complete_Words
  <1>4. PICK n \in Nat : n = Len(found) /\ DOMAIN found = 1 .. n
                         /\ \A i \in 1 .. n : found[i] \in trie.nodes
    BY <1>2
  <1> DEFINE seqs == Parts(found)
  <1>5. \A i \in 1 .. n : Collects(seqs[i], V, P, trie.is_leaf, found[i])
    <2> SUFFICES ASSUME NEW i \in 1 .. n
                 PROVE  Collects(seqs[i], V, P, trie.is_leaf, found[i])
      OBVIOUS
    <2>1. seqs[i] = Find_Complete_InChild(trie, found[i])
      BY <1>4
    <2> HIDE DEF seqs
    <2> QED BY <1>4, <2>1, Completed
  <1>6. seqs \in Seq(Seq(V)) /\ Len(seqs) = n
    <2>1. \A i \in 1 .. n : Find_Complete_InChild(trie, found[i]) \in Seq(V)
      BY <1>4, <1>5 DEF Collects
    <2> QED BY <1>4, <2>1
  <1> HIDE DEF seqs
  <1>7. P \subseteq trie.nodes /\ trie.nodes \subseteq Strings
    BY DEF IsTrie
  <1>8. ASSUME NEW i \in 1 .. n, NEW j \in 1 .. n, i # j
        PROVE  ToSet(seqs[i]) \cap ToSet(seqs[j]) = {}
    <2> SUFFICES ASSUME NEW v, v \in ToSet(seqs[i]), v \in ToSet(seqs[j])
                 PROVE  FALSE
      OBVIOUS
    <2>1. PICK x \in P : Above(found[i], x) /\ trie.is_leaf[x] = v
      BY <1>5 DEF Collects
    <2>2. PICK y \in P : Above(found[j], y) /\ trie.is_leaf[y] = v
      BY <1>5 DEF Collects
    <2>3. x = y
      BY <2>1, <2>2 DEF IsInjective
    <2>4. found[i] # found[j]
      BY <1>2, <1>4, <1>8 DEF IsInjective
    <2>5. MetAt(s, found[i]) /\ MetAt(s, found[j])
      BY <1>2, <1>4 DEF ToSet
    <2>6. found[i] \in Strings /\ found[j] \in Strings /\ x \in Strings
      BY <1>4, <1>7
    <2>7. Above(found[i], found[j]) \/ Above(found[j], found[i])
      BY <2>1, <2>2, <2>3, <2>6, AboveLinear
    <2> QED BY <2>4, <2>5, <2>6, <2>7 DEF MetAt
  <1>9. \A i \in 1 .. n : IsInjective(seqs[i])
    BY <1>5 DEF Collects
  <1>10. /\ FlattenSeq(seqs) \in Seq(V) /\ IsInjective(FlattenSeq(seqs))
         /\ \A v : v \in ToSet(FlattenSeq(seqs)) <=> \E i \in 1 .. n : v \in ToSet(seqs[i])
    BY <1>6, <1>8, <1>9, Flattened
  <1>11. ASSUME NEW v
         PROVE  (\E i \in 1 .. n : v \in ToSet(seqs[i])) <=>
                    \E x \in P : Embeds(Len(s), s, x) /\ trie.is_leaf[x] = v
    <2>1. ASSUME NEW i \in 1 .. n, v \in ToSet(seqs[i])
          PROVE  \E x \in P : Embeds(Len(s), s, x) /\ trie.is_leaf[x] = v
      <3>1. PICK x \in P : Above(found[i], x) /\ trie.is_leaf[x] = v
        BY <1>5, <2>1 DEF Collects
      <3>2. Embeds(Len(s), s, found[i])
        BY <1>2, <1>4 DEF ToSet, MetAt
      <3>3. Embeds(Len(s), s, x)
        <4>1. Len(s) \in Nat
          BY DEF Strings
        <4> QED BY <1>4, <1>7, <3>1, <3>2, <4>1, EmbedsBelow
      <3> QED BY <3>1, <3>3
    <2>2. ASSUME NEW x \in P, Embeds(Len(s), s, x), trie.is_leaf[x] = v
          PROVE  \E i \in 1 .. n : v \in ToSet(seqs[i])
      <3>1. PICK f \in Strings : Above(f, x) /\ MetAt(s, f)
        BY <1>7, <2>2, FirstMeeting
      <3>2. f \in trie.nodes
        BY <1>7, <3>1 DEF IsTrie
      <3>3. f \in ToSet(found)
        BY <1>2, <3>1, <3>2
      <3>4. PICK i \in 1 .. n : found[i] = f
        BY <1>4, <3>3 DEF ToSet
      <3> QED BY <1>5, <2>2, <3>1, <3>4 DEF Collects
    <2> QED BY <2>1, <2>2
  <1> QED BY <1>3, <1>10, <1>11 DEF seqs

-----------------------------------------------------------------------------
(* The bubble sort. *)

\* A fold over the numbers up to n, the last of a set of them first taken away.
Folds(it, n, V, base, g) ==
    /\ it \in [SUBSET (1 .. n) -> V]
    /\ \A s \in SUBSET (1 .. n) :
            it[s] = IF s = {} THEN base ELSE g[<< it[s \ {Max(s)}], Max(s) >>]

LEMMA Folding ==
    ASSUME NEW n \in Nat, NEW V, NEW base \in V, NEW g, g \in [V \X (1 .. n) -> V]
    PROVE  \E it : Folds(it, n, V, base, g)
  <1> DEFINE S == SUBSET (1 .. n)
             Body(f, s) == IF s = {} THEN base ELSE g[<< f[s \ {Max(s)}], Max(s) >>]
             G == [x \in S \X [S -> V] |-> Body(x[2], x[1])]
             size == [s \in S |-> Cardinality(s)]
  <1>1. ASSUME NEW s \in S, s # {}
        PROVE  Max(s) \in s /\ Max(s) \in 1 .. n /\ s \ {Max(s)} \in S
    <2>1. Max(s) \in s
      BY <1>1, MaxOfInterval
    <2> QED BY <2>1
  <1>2. ASSUME NEW s \in S, NEW f \in [S -> V] PROVE Body(f, s) \in V
    <2>1. CASE s = {}
      BY <2>1
    <2>2. CASE s # {}
      <3>1. f[s \ {Max(s)}] \in V /\ Max(s) \in 1 .. n
        BY <1>1, <2>2
      <3> QED BY <2>2, <3>1
    <2> QED BY <2>1, <2>2
  <1>3. G \in [S \X [S -> V] -> V]
    <2> HIDE DEF Body, S
    <2> QED BY <1>2
  <1>4. \A s \in S : \A f \in [S -> V] : G[<<s, f>>] = Body(f, s)
    <2> HIDE DEF Body, S
    <2> QED OBVIOUS
  <1>5. ASSUME NEW s \in S
        PROVE  /\ IsFiniteSet(s) /\ Cardinality(s) \in 0 .. n
               /\ s # {} => Cardinality(s \ {Max(s)}) < Cardinality(s)
    <2>1. s \in SUBSET (1 .. n)
      OBVIOUS
    <2>2. IsFiniteSet(s) /\ Cardinality(s) \in 0 .. n
      <3> HIDE DEF S
      <3> QED BY <2>1, PartOfInterval
    <2>3. Cardinality(s) \in Nat
      BY <2>2
    <2>4. s # {} => Cardinality(s \ {Max(s)}) = Cardinality(s) - 1
      BY <1>1, <2>2, FS_RemoveElement
    <2> QED BY <2>2, <2>3, <2>4
  <1>6. size \in [S -> 0 .. n] /\ \A s \in S : size[s] = Cardinality(s)
    BY <1>5
  <1> HIDE DEF G, size, S
  <1>7. ASSUME NEW s \in S, NEW f \in [S -> V], NEW h \in [S -> V],
               \A y \in S : size[y] < size[s] => f[y] = h[y]
        PROVE  G[<<s, f>>] = G[<<s, h>>]
    <2>1. CASE s = {}
      BY <1>4, <2>1
    <2>2. CASE s # {}
      <3>1. s \ {Max(s)} \in S
        BY <1>1, <2>2
      <3>2. size[s \ {Max(s)}] < size[s]
        BY <1>5, <1>6, <2>2, <3>1
      <3>3. f[s \ {Max(s)}] = h[s \ {Max(s)}]
        BY <1>7, <3>1, <3>2
      <3> QED BY <1>4, <3>3
    <2> QED BY <2>1, <2>2
  <1>8. FromSmaller(S, V, n, size, G)
    BY <1>3, <1>6, <1>7 DEF FromSmaller
  <1>9. PICK f : Solves(f, S, V, G)
    BY <1>8, Recursion
  <1>10. \A s \in S : f[s] = Body(f, s)
    BY <1>4, <1>9 DEF Solves
  <1>11. f \in [S -> V]
    BY <1>9 DEF Solves
  <1>12. Folds(f, n, V, base, g)
    BY <1>10, <1>11 DEF Folds, S
  <1> QED BY <1>12

\* The last of the numbers up to k + 1.
LEMMA LastNumber ==
    ASSUME NEW n \in Nat, NEW k \in Nat, k < n
    PROVE  /\ 1 .. (k + 1) \in SUBSET (1 .. n) /\ 1 .. (k + 1) # {}
           /\ Max(1 .. (k + 1)) = k + 1
           /\ 1 .. (k + 1) \ {k + 1} = 1 .. k
  <1>1. 1 .. (k + 1) \in SUBSET (1 .. n) /\ k + 1 \in 1 .. (k + 1)
    OBVIOUS
  <1>2. 1 .. (k + 1) # {}
    BY <1>1
  <1>3. Max(1 .. (k + 1)) \in 1 .. (k + 1) /\ \A a \in 1 .. (k + 1) : a <= Max(1 .. (k + 1))
    BY <1>1, <1>2, MaxOfInterval
  <1>4. Max(1 .. (k + 1)) = k + 1
    BY <1>1, <1>3
  <1>5. 1 .. (k + 1) \ {k + 1} = 1 .. k
    OBVIOUS
  <1> QED BY <1>1, <1>2, <1>4, <1>5

\* The arrays of L word numbers.
Arrays(L) == [1 .. L -> Indices]

LEMMA ArraysAreSequences ==
    ASSUME NEW L \in Nat
    PROVE  /\ \A a \in Arrays(L) : a \in Seq(Indices) /\ Len(a) = L
           /\ \A a \in Seq(Indices) : Len(a) = L => a \in Arrays(L)
  BY DEF Arrays

Counted == \A i \in Indices : Count(i) \in Nat

LEMMA BubbleKeepsType ==
    ASSUME NEW L \in Nat, NEW a \in Arrays(L), NEW j \in 1 .. (L - 1)
    PROVE  Bubble(a, j) \in Arrays(L)
  <1>1. j \in 1 .. L /\ j + 1 \in 1 .. L
    OBVIOUS
  <1>2. a[j] \in Indices /\ a[j + 1] \in Indices
    BY <1>1 DEF Arrays
  <1> QED BY <1>1, <1>2 DEF Bubble, Arrays

\* What a pass has done to array a after comparing the first j pairs.
Passed(a, b, L, j) ==
    /\ b \in Arrays(L)
    /\ \A p \in 1 .. L : p > j + 1 => b[p] = a[p]
    /\ \A p \in 1 .. L : p <= j + 1 => \E q \in 1 .. L : q <= j + 1 /\ b[p] = a[q]
    /\ \A q \in 1 .. L : q <= j + 1 => \E p \in 1 .. L : p <= j + 1 /\ b[p] = a[q]
    /\ \A p \in 1 .. j : Count(b[p]) >= Count(b[j + 1])

\* One more comparison.
LEMMA BubbleStep ==
    ASSUME NEW L \in Nat, NEW a \in Arrays(L), NEW b, NEW j \in Nat, j + 1 < L,
           Counted, Passed(a, b, L, j)
    PROVE  Passed(a, Bubble(b, j + 1), L, j + 1)
  <1> DEFINE c == Bubble(b, j + 1)
             k == j + 1
  <1>1. k \in 1 .. L /\ k + 1 \in 1 .. L /\ k \in 1 .. (L - 1) /\ k \in Nat
    OBVIOUS
  <1>2. b \in Arrays(L)
    BY DEF Passed
  <1>3. c \in Arrays(L)
    BY <1>1, <1>2, BubbleKeepsType
  <1>4. \A p \in 1 .. L : b[p] \in Indices /\ Count(b[p]) \in Nat
    BY <1>2 DEF Arrays, Counted
  <1>5. Passed(a, b, L, j)
    OBVIOUS
  <1>6. /\ \A p \in 1 .. L : p # k /\ p # k + 1 => c[p] = b[p]
        /\ \/ c[k] = b[k + 1] /\ c[k + 1] = b[k] /\ Count(b[k]) < Count(b[k + 1])
           \/ c[k] = b[k] /\ c[k + 1] = b[k + 1] /\ ~(Count(b[k]) < Count(b[k + 1]))
    <2>1. CASE Count(b[k]) < Count(b[k + 1])
      <3>1. c = [b EXCEPT ![k] = b[k + 1], ![k + 1] = b[k]]
        BY <2>1 DEF Bubble
      <3>2. DOMAIN b = 1 .. L
        BY <1>2 DEF Arrays
      <3>3. PICK l \in 1 .. L : l = k + 1 /\ l # k
        BY <1>1
      <3> HIDE DEF c, k
      <3> QED BY <1>1, <2>1, <3>1, <3>2, <3>3
    <2>2. CASE ~(Count(b[k]) < Count(b[k + 1]))
      <3>1. c = b
        BY <2>2 DEF Bubble
      <3> HIDE DEF c, k
      <3> QED BY <2>2, <3>1
    <2> QED BY <2>1, <2>2
  <1> HIDE DEF c
  <1>7. \A p \in 1 .. L : p > k + 1 => c[p] = a[p]
    BY <1>5, <1>6 DEF Passed
  <1>8. ASSUME NEW p \in 1 .. L, p <= k + 1
        PROVE  \E q \in 1 .. L : q <= k + 1 /\ c[p] = a[q]
    <2>1. PICK r \in 1 .. L : r <= k + 1 /\ c[p] = b[r]
      <3>1. CASE p = k
        BY <1>1, <1>6, <3>1
      <3>2. CASE p = k + 1
        BY <1>1, <1>6, <3>2
      <3>3. CASE p # k /\ p # k + 1
        BY <1>6, <1>8, <3>3
      <3> QED BY <3>1, <3>2, <3>3
    <2>2. CASE r = k + 1
      <3>1. b[r] = a[r]
        BY <1>1, <1>5, <2>2 DEF Passed
      <3> QED BY <2>1, <3>1
    <2>3. CASE r # k + 1
      <3>1. r <= j + 1
        BY <1>1, <2>1, <2>3
      <3>2. PICK q \in 1 .. L : q <= j + 1 /\ b[r] = a[q]
        BY <1>5, <3>1 DEF Passed
      <3> QED BY <1>1, <2>1, <3>2
    <2> QED BY <2>2, <2>3
  <1>9. ASSUME NEW q \in 1 .. L, q <= k + 1
        PROVE  \E p \in 1 .. L : p <= k + 1 /\ c[p] = a[q]
    <2>1. PICK r \in 1 .. L : r <= k + 1 /\ b[r] = a[q]
      <3>1. CASE q = k + 1
        <4>1. b[q] = a[q]
          BY <1>1, <1>5, <3>1 DEF Passed
        <4> QED BY <1>9, <4>1
      <3>2. CASE q # k + 1
        <4>1. q <= j + 1
          BY <1>1, <1>9, <3>2
        <4>2. PICK r \in 1 .. L : r <= j + 1 /\ b[r] = a[q]
          BY <1>5, <4>1 DEF Passed
        <4> QED BY <1>1, <4>2
      <3> QED BY <3>1, <3>2
    <2>2. \E p \in 1 .. L : p <= k + 1 /\ c[p] = b[r]
      <3>1. CASE r = k
        BY <1>1, <1>6, <3>1
      <3>2. CASE r = k + 1
        BY <1>1, <1>6, <3>2
      <3>3. CASE r # k /\ r # k + 1
        BY <1>6, <2>1, <3>3
      <3> QED BY <3>1, <3>2, <3>3
    <2> QED BY <2>1, <2>2
  <1>10. ASSUME NEW p \in 1 .. k PROVE Count(c[p]) >= Count(c[k + 1])
    <2>1. p \in 1 .. L
      BY <1>1
    <2>2. p # k => p \in 1 .. j /\ Count(b[p]) >= Count(b[k]) /\ c[p] = b[p]
      <3>1. p # k => p \in 1 .. j /\ p # k + 1
        BY <1>1
      <3> QED BY <1>5, <1>6, <2>1, <3>1 DEF Passed
    <2>3. Count(b[p]) \in Nat /\ Count(b[k]) \in Nat /\ Count(b[k + 1]) \in Nat
      BY <1>1, <1>4, <2>1
    <2> QED BY <1>6, <2>2, <2>3
  <1> QED BY <1>3, <1>7, <1>8, <1>9, <1>10 DEF Passed, c, k

\* A pass compares its pairs one after the other.
LEMMA PassSteps ==
    ASSUME NEW L \in Nat, NEW a \in Arrays(L), NEW i \in Nat, i < L
    PROVE  \E f : /\ f[0] = a /\ f[L - 1 - i] = Pass(a, i)
                  /\ \A k \in 0 .. (L - 2 - i) :
                        f[k] \in Arrays(L) => f[k + 1] = Bubble(f[k], k + 1)
  <1> DEFINE n == L - 1 - i
             V == Arrays(L)
             sq == [j \in 1 .. n |-> j]
             g == [x \in V \X (1 .. n) |-> Bubble(x[1], x[2])]
             Body(it, s) == IF s = {} THEN a
                            ELSE Bubble(it[s \ {Max(s)}], sq[Max(s)])
             whole == CHOOSE it : it = [s \in SUBSET (1 .. n) |-> Body(it, s)]
  <1>1. n \in Nat /\ n < L
    OBVIOUS
  <1>2. Len(a) = L
    BY ArraysAreSequences
  <1>3. Pass(a, i) = whole[1 .. n]
    <2>1. LastPair(a, i) = n
      BY <1>2 DEF LastPair
    <2>2. DOMAIN sq = 1 .. n
      OBVIOUS
    <2> QED BY <2>1, <2>2 DEF Pass, FoldLeft, MapThenFoldSet
  <1>4. g \in [V \X (1 .. n) -> V]
    <2>1. ASSUME NEW x \in V, NEW j \in 1 .. n PROVE Bubble(x, j) \in V
      BY <1>1, BubbleKeepsType
    <2> HIDE DEF V, n
    <2> QED BY <2>1
  <1>5. \A x \in V, j \in 1 .. n : g[<< x, j >>] = Bubble(x, j)
    <2> HIDE DEF V, n
    <2> QED OBVIOUS
  <1> HIDE DEF g, V, n
  <1>6. PICK it : Folds(it, n, V, a, g)
    <2>1. a \in V
      BY DEF V
    <2>2. n \in Nat
      BY <1>1
    <2> QED BY <1>4, <2>1, <2>2, Folding
  <1>7. ASSUME NEW s \in SUBSET (1 .. n), s # {}
        PROVE  Max(s) \in 1 .. n /\ s \ {Max(s)} \in SUBSET (1 .. n)
    BY <1>1, <1>7, MaxOfInterval
  <1>8. ASSUME NEW s \in SUBSET (1 .. n) PROVE it[s] = Body(it, s)
    <2>1. CASE s = {}
      BY <1>6, <2>1 DEF Folds
    <2>2. CASE s # {}
      <3>1. it[s \ {Max(s)}] \in V /\ Max(s) \in 1 .. n
        BY <1>6, <1>7, <2>2 DEF Folds
      <3>2. sq[Max(s)] = Max(s)
        BY <3>1
      <3> QED BY <1>5, <1>6, <2>2, <3>1, <3>2 DEF Folds
    <2> QED BY <2>1, <2>2
  <1>9. it = [s \in SUBSET (1 .. n) |-> Body(it, s)]
    <2> HIDE DEF Body
    <2> QED BY <1>6, <1>8 DEF Folds
  <1>10. whole = [s \in SUBSET (1 .. n) |-> Body(whole, s)]
    <2> HIDE DEF Body
    <2> QED BY <1>9
  <1>11. \A s \in SUBSET (1 .. n) : whole[s] = Body(whole, s)
    <2> HIDE DEF Body, whole
    <2> QED BY <1>10
  <1> HIDE DEF whole
  <1> DEFINE f == [k \in 0 .. n |-> whole[1 .. k]]
  <1>12. f[0] = a /\ f[n] = whole[1 .. n]
    <2>1. whole[1 .. 0] = a
      <3>1. 1 .. 0 = {} /\ {} \in SUBSET (1 .. n)
        OBVIOUS
      <3> QED BY <1>11, <3>1
    <2> QED BY <1>1, <2>1
  <1>13. ASSUME NEW k \in 0 .. (n - 1)
         PROVE  f[k + 1] = Bubble(f[k], k + 1)
    <2>1. k \in Nat /\ k < n /\ k \in 0 .. n /\ k + 1 \in 0 .. n /\ k + 1 \in 1 .. n
      BY <1>1
    <2>2. f[k] = whole[1 .. k] /\ f[k + 1] = whole[1 .. (k + 1)]
      BY <2>1
    <2>3. /\ 1 .. (k + 1) \in SUBSET (1 .. n) /\ 1 .. (k + 1) # {}
          /\ Max(1 .. (k + 1)) = k + 1 /\ 1 .. (k + 1) \ {k + 1} = 1 .. k
      BY <1>1, <2>1, LastNumber
    <2>4. whole[1 .. (k + 1)] = Body(whole, 1 .. (k + 1))
      BY <1>11, <2>3
    <2>5. sq[k + 1] = k + 1
      BY <2>1
    <2>6. Body(whole, 1 .. (k + 1)) = Bubble(whole[1 .. k], k + 1)
      BY <2>3, <2>5
    <2> HIDE DEF f, Body
    <2> QED BY <2>2, <2>4, <2>6
  <1>14. L - 2 - i = n - 1
    BY DEF n
  <1> HIDE DEF f
  <1>15. f[0] = a /\ f[n] = Pass(a, i)
    BY <1>3, <1>12
  <1> QED BY <1>13, <1>14, <1>15 DEF n

\* A pass.
LEMMA PassWorks ==
    ASSUME NEW L \in Nat, NEW a \in Arrays(L), NEW i \in Nat, i < L, Counted
    PROVE  Passed(a, Pass(a, i), L, L - 1 - i)
  <1>1. PICK f : /\ f[0] = a /\ f[L - 1 - i] = Pass(a, i)
                 /\ \A k \in 0 .. (L - 2 - i) :
                        f[k] \in Arrays(L) => f[k + 1] = Bubble(f[k], k + 1)
    BY PassSteps
  <1> DEFINE T == {k \in Nat : k <= L - 1 - i => Passed(a, f[k], L, k)}
  <1>2. 0 \in T
    <2>1. Passed(a, a, L, 0)
      BY DEF Passed
    <2> QED BY <1>1, <2>1
  <1>3. ASSUME NEW k \in Nat, k \in T PROVE k + 1 \in T
    <2> SUFFICES ASSUME k + 1 <= L - 1 - i
                 PROVE  Passed(a, f[k + 1], L, k + 1)
      OBVIOUS
    <2>1. Passed(a, f[k], L, k) /\ k \in 0 .. (L - 2 - i) /\ k + 1 < L
      BY <1>3
    <2>2. f[k] \in Arrays(L)
      BY <2>1 DEF Passed
    <2>3. f[k + 1] = Bubble(f[k], k + 1)
      BY <1>1, <2>1, <2>2
    <2>4. Passed(a, Bubble(f[k], k + 1), L, k + 1)
      BY <2>1, BubbleStep
    <2> QED BY <2>3, <2>4
  <1> HIDE DEF T
  <1>4. L - 1 - i \in T
    <2>1. L - 1 - i \in Nat
      OBVIOUS
    <2> QED BY <1>2, <1>3, <2>1, Induction
  <1> QED BY <1>1, <1>4 DEF T

\* What the passes done so far have made of array a: its last numbers are in
\* their places.
Sorted(a, b, L, i) ==
    /\ b \in Arrays(L)
    /\ \A x : (\E p \in 1 .. L : b[p] = x) <=> \E q \in 1 .. L : a[q] = x
    /\ \A p, q \in 1 .. L : p < q /\ q > L - i => Count(b[p]) >= Count(b[q])

\* One more pass.
LEMMA PassStep ==
    ASSUME NEW L \in Nat, NEW a \in Arrays(L), NEW b, NEW i \in Nat, i < L,
           Counted, Sorted(a, b, L, i)
    PROVE  Sorted(a, Pass(b, i), L, i + 1)
  <1> DEFINE c == Pass(b, i)
             m == L - i
  <1>1. m \in 1 .. L /\ m - 1 \in 0 .. L /\ L - 1 - i = m - 1 /\ L - (i + 1) = m - 1
    OBVIOUS
  <1>2. b \in Arrays(L)
    BY DEF Sorted
  <1>3. Passed(b, c, L, m - 1)
    BY <1>1, <1>2, PassWorks
  <1> HIDE DEF c
  <1>4. /\ c \in Arrays(L)
        /\ \A p \in 1 .. L : p > m => c[p] = b[p]
        /\ \A p \in 1 .. L : p <= m => \E q \in 1 .. L : q <= m /\ c[p] = b[q]
        /\ \A q \in 1 .. L : q <= m => \E p \in 1 .. L : p <= m /\ c[p] = b[q]
        /\ \A p \in 1 .. (m - 1) : Count(c[p]) >= Count(c[m])
    <2>1. m - 1 + 1 = m
      BY <1>1
    <2> HIDE DEF m
    <2> QED BY <1>3, <2>1 DEF Passed
  <1>5. ASSUME NEW x
        PROVE  (\E p \in 1 .. L : c[p] = x) <=> \E q \in 1 .. L : b[q] = x
    <2>1. ASSUME NEW p \in 1 .. L, c[p] = x PROVE \E q \in 1 .. L : b[q] = x
      <3>1. CASE p > m
        BY <1>4, <2>1, <3>1
      <3>2. CASE p <= m
        BY <1>4, <2>1, <3>2
      <3> QED BY <1>1, <3>1, <3>2
    <2>2. ASSUME NEW q \in 1 .. L, b[q] = x PROVE \E p \in 1 .. L : c[p] = x
      <3>1. CASE q > m
        BY <1>4, <2>2, <3>1
      <3>2. CASE q <= m
        BY <1>4, <2>2, <3>2
      <3> QED BY <1>1, <3>1, <3>2
    <2> QED BY <2>1, <2>2
  <1>6. ASSUME NEW p \in 1 .. L, NEW q \in 1 .. L, p < q, q > m - 1
        PROVE  Count(c[p]) >= Count(c[q])
    <2>1. CASE q = m
      <3>1. p \in 1 .. (m - 1)
        BY <1>1, <1>6, <2>1
      <3> QED BY <1>4, <2>1, <3>1
    <2>2. CASE q > m
      <3>1. c[q] = b[q]
        BY <1>4, <2>2
      <3>2. PICK r \in 1 .. L : r < q /\ c[p] = b[r]
        <4>1. CASE p > m
          BY <1>4, <1>6, <4>1
        <4>2. CASE p <= m
          <5>1. PICK r \in 1 .. L : r <= m /\ c[p] = b[r]
            BY <1>4, <4>2
          <5>2. r < q
            BY <1>1, <2>2, <5>1
          <5> QED BY <5>1, <5>2
        <4> QED BY <1>1, <4>1, <4>2
      <3>3. Count(b[r]) >= Count(b[q])
        BY <2>2, <3>2 DEF Sorted
      <3> QED BY <3>1, <3>2, <3>3
    <2> QED BY <1>1, <1>6, <2>1, <2>2
  <1>7. \A x : (\E p \in 1 .. L : c[p] = x) <=> \E q \in 1 .. L : a[q] = x
    BY <1>5 DEF Sorted
  <1> QED BY <1>1, <1>4, <1>6, <1>7 DEF Sorted, c

\* The sort makes its passes one after the other.
LEMMA SortSteps ==
    ASSUME NEW L \in Nat \ {0}, NEW a \in Arrays(L), Counted
    PROVE  \E f : /\ f[0] = a /\ f[L - 1] = Sort_Array(a)
                  /\ \A k \in 0 .. (L - 2) :
                        f[k] \in Arrays(L) => f[k + 1] = Pass(f[k], k)
  <1> DEFINE n == L - 1
             V == Arrays(L)
             sq == [j \in 1 .. n |-> j - 1]
             g == [x \in V \X (1 .. n) |-> Pass(x[1], x[2] - 1)]
             Body(it, s) == IF s = {} THEN a
                            ELSE Pass(it[s \ {Max(s)}], sq[Max(s)])
             whole == CHOOSE it : it = [s \in SUBSET (1 .. n) |-> Body(it, s)]
  <1>1. n \in Nat /\ n < L
    OBVIOUS
  <1>2. Len(a) = L
    BY ArraysAreSequences
  <1>3. Sort_Array(a) = whole[1 .. n]
    <2>1. DOMAIN sq = 1 .. n
      OBVIOUS
    <2> QED BY <1>2, <2>1 DEF Sort_Array, FoldLeft, MapThenFoldSet
  <1>4. g \in [V \X (1 .. n) -> V]
    <2>1. ASSUME NEW x \in V, NEW j \in 1 .. n PROVE Pass(x, j - 1) \in V
      <3>1. j - 1 \in Nat /\ j - 1 < L
        BY <1>1
      <3>2. Passed(x, Pass(x, j - 1), L, L - 1 - (j - 1))
        BY <3>1, PassWorks
      <3> QED BY <3>2 DEF Passed
    <2> HIDE DEF V, n
    <2> QED BY <2>1
  <1>5. \A x \in V, j \in 1 .. n : g[<< x, j >>] = Pass(x, j - 1)
    <2> HIDE DEF V, n
    <2> QED OBVIOUS
  <1> HIDE DEF g, V, n
  <1>6. PICK it : Folds(it, n, V, a, g)
    <2>1. a \in V
      BY DEF V
    <2>2. n \in Nat
      BY <1>1
    <2> QED BY <1>4, <2>1, <2>2, Folding
  <1>7. ASSUME NEW s \in SUBSET (1 .. n), s # {}
        PROVE  Max(s) \in 1 .. n /\ s \ {Max(s)} \in SUBSET (1 .. n)
    BY <1>1, <1>7, MaxOfInterval
  <1>8. ASSUME NEW s \in SUBSET (1 .. n) PROVE it[s] = Body(it, s)
    <2>1. CASE s = {}
      BY <1>6, <2>1 DEF Folds
    <2>2. CASE s # {}
      <3>1. it[s \ {Max(s)}] \in V /\ Max(s) \in 1 .. n
        BY <1>6, <1>7, <2>2 DEF Folds
      <3>2. sq[Max(s)] = Max(s) - 1
        BY <3>1
      <3> QED BY <1>5, <1>6, <2>2, <3>1, <3>2 DEF Folds
    <2> QED BY <2>1, <2>2
  <1>9. it = [s \in SUBSET (1 .. n) |-> Body(it, s)]
    <2> HIDE DEF Body
    <2> QED BY <1>6, <1>8 DEF Folds
  <1>10. whole = [s \in SUBSET (1 .. n) |-> Body(whole, s)]
    <2> HIDE DEF Body
    <2> QED BY <1>9
  <1>11. \A s \in SUBSET (1 .. n) : whole[s] = Body(whole, s)
    <2> HIDE DEF Body, whole
    <2> QED BY <1>10
  <1> HIDE DEF whole
  <1> DEFINE f == [k \in 0 .. n |-> whole[1 .. k]]
  <1>12. f[0] = a /\ f[n] = whole[1 .. n]
    <2>1. whole[1 .. 0] = a
      <3>1. 1 .. 0 = {} /\ {} \in SUBSET (1 .. n)
        OBVIOUS
      <3> QED BY <1>11, <3>1
    <2> QED BY <1>1, <2>1
  <1>13. ASSUME NEW k \in 0 .. (n - 1)
         PROVE  f[k + 1] = Pass(f[k], k)
    <2>1. k \in Nat /\ k < n /\ k \in 0 .. n /\ k + 1 \in 0 .. n /\ k + 1 \in 1 .. n
      BY <1>1
    <2>2. f[k] = whole[1 .. k] /\ f[k + 1] = whole[1 .. (k + 1)]
      BY <2>1
    <2>3. /\ 1 .. (k + 1) \in SUBSET (1 .. n) /\ 1 .. (k + 1) # {}
          /\ Max(1 .. (k + 1)) = k + 1 /\ 1 .. (k + 1) \ {k + 1} = 1 .. k
      BY <1>1, <2>1, LastNumber
    <2>4. whole[1 .. (k + 1)] = Body(whole, 1 .. (k + 1))
      BY <1>11, <2>3
    <2>5. sq[k + 1] = k
      BY <2>1
    <2>6. Body(whole, 1 .. (k + 1)) = Pass(whole[1 .. k], k)
      BY <2>3, <2>5
    <2> HIDE DEF f, Body
    <2> QED BY <2>2, <2>4, <2>6
  <1>14. L - 2 = n - 1
    BY DEF n
  <1> HIDE DEF f
  <1>15. f[0] = a /\ f[n] = Sort_Array(a)
    BY <1>3, <1>12
  <1> QED BY <1>13, <1>14, <1>15 DEF n

\* The bubble sort sorts, in decreasing order of search count.
LEMMA SortWorks ==
    ASSUME NEW L \in Nat \ {0}, NEW a \in Arrays(L), Counted
    PROVE  /\ Sort_Array(a) \in Arrays(L)
           /\ \A x : (\E p \in 1 .. L : Sort_Array(a)[p] = x) <=>
                        \E q \in 1 .. L : a[q] = x
           /\ \A p, q \in 1 .. L :
                p < q => Count(Sort_Array(a)[p]) >= Count(Sort_Array(a)[q])
  <1>1. PICK f : /\ f[0] = a /\ f[L - 1] = Sort_Array(a)
                 /\ \A k \in 0 .. (L - 2) :
                        f[k] \in Arrays(L) => f[k + 1] = Pass(f[k], k)
    BY SortSteps
  <1> DEFINE T == {k \in Nat : k <= L - 1 => Sorted(a, f[k], L, k)}
  <1>2. 0 \in T
    <2>1. Sorted(a, a, L, 0)
      BY DEF Sorted
    <2> QED BY <1>1, <2>1
  <1>3. ASSUME NEW k \in Nat, k \in T PROVE k + 1 \in T
    <2> SUFFICES ASSUME k + 1 <= L - 1
                 PROVE  Sorted(a, f[k + 1], L, k + 1)
      OBVIOUS
    <2>1. Sorted(a, f[k], L, k) /\ k \in 0 .. (L - 2) /\ k < L
      BY <1>3
    <2>2. f[k] \in Arrays(L)
      BY <2>1 DEF Sorted
    <2>3. f[k + 1] = Pass(f[k], k)
      BY <1>1, <2>1, <2>2
    <2>4. Sorted(a, Pass(f[k], k), L, k + 1)
      BY <2>1, PassStep
    <2> QED BY <2>3, <2>4
  <1> HIDE DEF T
  <1>4. Sorted(a, f[L - 1], L, L - 1)
    <2>1. L - 1 \in Nat
      OBVIOUS
    <2>2. L - 1 \in T
      BY <1>2, <1>3, <2>1, Induction
    <2> QED BY <2>2 DEF T
  <1>5. Sorted(a, Sort_Array(a), L, L - 1)
    BY <1>1, <1>4
  <1> QED BY <1>5 DEF Sorted

-----------------------------------------------------------------------------
(* The engine. *)

LEMMA NoCharacters == ASSUME NEW s \in Strings, Len(s) = 0 PROVE s = << >>
  <1>1. << >> \in Strings
    BY DEF Strings
  <1>2. Len(<< >>) = 0 /\ \A i \in 1 .. 0 : FALSE
    OBVIOUS
  <1> QED BY <1>1, <1>2, SameString

\* insert_trie leaves a trie.
LEMMA Inserted ==
    ASSUME NEW trie, NEW D, IsTrie(trie, D), NEW word \in Strings, NEW count
    PROVE  \E E : IsTrie(insert_trie(trie, word, count), E)
  <1> DEFINE new == insert_trie(trie, word, count)
             path == {SubSeq(word, 1, i) : i \in 1 .. Len(word)}
  <1>1. PICK n \in Nat : n = Len(word)
    BY DEF Strings
  <1>2. /\ new.nodes = trie.nodes \cup path
        /\ new.is_leaf = [w \in DOMAIN trie.is_leaf \cup {word} |->
                            IF w = word THEN count ELSE trie.is_leaf[w]]
    BY DEF insert_trie
  <1> HIDE DEF new
  <1>3. \A i \in 1 .. n : /\ SubSeq(word, 1, i) \in Strings
                          /\ Len(SubSeq(word, 1, i)) = i
                          /\ Above(SubSeq(word, 1, i), word)
    <2>1. \A i \in 1 .. n : i \in 0 .. Len(word)
      BY <1>1
    <2> QED BY <2>1, Beginning
  <1>4. D \in Nat /\ << >> \in trie.nodes /\ trie.nodes \subseteq Strings
    BY DEF IsTrie
  <1>5. PICK E \in Nat : E >= D /\ E >= n
    <2>1. D >= n \/ n >= D
      BY <1>4
    <2>2. D >= D /\ n >= n
      BY <1>4
    <2> QED BY <1>4, <2>1, <2>2
  <1>6. new.nodes \subseteq Strings
    BY <1>1, <1>2, <1>3, <1>4
  <1>7. ASSUME NEW x \in new.nodes PROVE Len(x) <= E
    <2>1. CASE x \in trie.nodes
      <3>1. Len(x) <= D /\ Len(x) \in Nat
        BY <1>4, <2>1 DEF IsTrie, Strings
      <3> QED BY <1>4, <1>5, <3>1
    <2>2. CASE x \in path
      <3>1. PICK i \in 1 .. n : x = SubSeq(word, 1, i)
        BY <1>1, <2>2
      <3>2. Len(x) = i
        BY <1>3, <3>1
      <3> QED BY <1>5, <3>2
    <2> QED BY <1>2, <2>1, <2>2
  <1>8. ASSUME NEW p \in Strings, NEW x \in new.nodes, Above(p, x)
        PROVE  p \in new.nodes
    <2>1. CASE x \in trie.nodes
      BY <1>2, <1>8, <2>1 DEF IsTrie
    <2>2. CASE x \in path
      <3>1. PICK i \in 1 .. n : x = SubSeq(word, 1, i)
        BY <1>1, <2>2
      <3>2. x \in Strings /\ Len(x) = i /\ Above(x, word)
        BY <1>3, <3>1
      <3>3. Above(p, word)
        BY <1>8, <3>2, AboveAbove
      <3>4. PICK k \in Nat : k = Len(p)
        BY DEF Strings
      <3>5. k <= n /\ k \in 0 .. Len(word)
        BY <1>1, <3>3, <3>4 DEF Above
      <3>6. p = SubSeq(word, 1, k)
        BY <3>3, <3>4, <3>5, Beginning
      <3>7. CASE k = 0
        <4>1. p = << >>
          BY <3>4, <3>7, NoCharacters
        <4> QED BY <1>2, <1>4, <4>1
      <3>8. CASE k # 0
        <4>1. k \in 1 .. Len(word)
          BY <1>1, <3>5, <3>8
        <4> QED BY <1>2, <3>6, <4>1
      <3> QED BY <3>7, <3>8
    <2> QED BY <1>2, <2>1, <2>2
  <1>9. DOMAIN new.is_leaf \subseteq new.nodes
    <2>1. word \in new.nodes
      <3>1. Above(word, word)
        BY AboveTop
      <3>2. word = SubSeq(word, 1, n)
        BY <1>1, <3>1, Beginning
      <3>3. CASE n = 0
        <4>1. word = << >>
          BY <1>1, <3>3, NoCharacters
        <4> QED BY <1>2, <1>4, <4>1
      <3>4. CASE n # 0
        <4>1. n \in 1 .. Len(word)
          BY <1>1, <3>4
        <4> QED BY <1>2, <3>2, <4>1
      <3> QED BY <3>3, <3>4
    <2>2. DOMAIN trie.is_leaf \subseteq trie.nodes
      BY DEF IsTrie
    <2>3. DOMAIN new.is_leaf = DOMAIN trie.is_leaf \cup {word}
      BY <1>2
    <2> QED BY <1>2, <2>1, <2>2, <2>3
  <1>10. IsTrie(new, E)
    <2>1. << >> \in new.nodes
      BY <1>2, <1>4
    <2> QED BY <1>6, <1>7, <1>8, <1>9, <2>1 DEF IsTrie
  <1> QED BY <1>10 DEF new

\* The data: the trie leads to the last line of each word.
DataInv ==
    /\ loading \in BOOLEAN
    /\ word_array \in Seq([word : DataWords, search_count : Counts])
    /\ \E D : IsTrie(root, D)
    /\ root.is_leaf \in [DOMAIN root.is_leaf -> Indices]
    /\ \A i \in Indices : word_array[i].word \in DOMAIN root.is_leaf
    /\ \A w \in DOMAIN root.is_leaf :
        /\ w # << >>
        /\ word_array[root.is_leaf[w]].word = w
        /\ \A j \in Indices : word_array[j].word = w => j <= root.is_leaf[w]

\* The answer: nothing is searched for before the data is read; and what is
\* sent is all of what was found, if that is not too much.
ResultInv ==
    /\ search_word \in Searches \cup {<< >>}
    /\ loading => search_word = << >>
    /\ search_word = << >> => temp_array = << >> /\ sent = << >>
    /\ temp_array \in Seq(Indices) /\ sent \in Seq(Indices)
    /\ search_word # << >> =>
        /\ IsInjective(temp_array)
        /\ ToSet(temp_array) =
            {i \in Current : IsSubsequence(search_word, word_array[i].word)}
    /\ SendsMostSearched
    /\ Len(temp_array) <= Limit => ToSet(sent) = ToSet(temp_array)

EngineInv == DataInv /\ ResultInv

LEMMA EngineInitInv == ASSUME EngineInit PROVE EngineInv
  <1>1. Indices = {} /\ << >> \in Seq(Indices)
    BY DEF EngineInit, Indices
  <1>2. root.nodes = {<< >>} /\ root.is_leaf = << >> /\ DOMAIN root.is_leaf = {}
    BY DEF EngineInit, EmptyTrie
  <1>3. IsTrie(root, 0)
    <2>1. << >> \in Strings /\ Len(<< >>) = 0
      BY DEF Strings
    <2>2. ASSUME NEW p \in Strings, Above(p, << >>) PROVE p = << >>
      <3>1. PICK n \in Nat : n = Len(p)
        BY DEF Strings
      <3>2. n = 0
        BY <2>2, <3>1 DEF Above
      <3> QED BY <3>1, <3>2, NoCharacters
    <2> QED BY <1>2, <2>1, <2>2 DEF IsTrie
  <1>4. DataInv
    <2>1. root.is_leaf \in [DOMAIN root.is_leaf -> Indices]
      BY <1>1, <1>2
    <2>2. << >> \in Seq([word : DataWords, search_count : Counts])
      <3> DEFINE V == [word : DataWords, search_count : Counts]
      <3> HIDE DEF V
      <3>1. << >> \in Seq(V)
        OBVIOUS
      <3> QED BY <3>1 DEF V
    <2> QED BY <1>1, <1>2, <1>3, <2>1, <2>2 DEF EngineInit, DataInv
  <1>5. ResultInv
    <2>1. temp_array = << >> /\ sent = << >> /\ search_word = << >>
      BY DEF EngineInit
    <2>2. Len(<< >>) = 0 /\ ToSet(<< >>) = {} /\ Limit \in Nat
      BY SearchAssumption DEF ToSet
    <2> QED BY <1>1, <2>1, <2>2 DEF ResultInv, SendsMostSearched
  <1> QED BY <1>4, <1>5 DEF EngineInv

\* The words of data.txt are strings of characters.
LEMMA WordsAreStrings ==
    /\ DataWords \subseteq Strings /\ << >> \notin DataWords
    /\ Searches \subseteq Strings /\ << >> \notin Searches
  BY SearchAssumption DEF Strings, Letters

LEMMA ReadInv == ASSUME EngineInv, ReadData_MakeTrie PROVE EngineInv'
  <1>1. PICK word \in DataWords, count \in Counts :
            /\ word_array' = Append(word_array, [word |-> word, search_count |-> count])
            /\ root' = insert_trie(root, word, Len(word_array'))
    BY DEF ReadData_MakeTrie
  <1> DEFINE line == [word |-> word, search_count |-> count]
             V == [word : DataWords, search_count : Counts]
             before == root.is_leaf
  <1>2. line \in V /\ line.word = word
    OBVIOUS
  <1>3. DataInv /\ ResultInv
    BY DEF EngineInv
  <1>4. PICK n \in Nat : n = Len(word_array)
    BY <1>3 DEF DataInv
  <1>5. word_array \in Seq(V) /\ word_array' = Append(word_array, line)
    BY <1>1, <1>3 DEF DataInv
  <1> HIDE DEF V, line
  <1>6. /\ word_array' \in Seq(V) /\ Len(word_array') = n + 1
        /\ \A i \in 1 .. n : word_array'[i] = word_array[i]
        /\ word_array'[n + 1] = line
    BY <1>2, <1>4, <1>5
  <1>7. Indices = 1 .. n /\ Indices' = 1 .. (n + 1)
    BY <1>4, <1>6 DEF Indices
  <1>8. word \in Strings /\ word # << >>
    BY WordsAreStrings
  <1>9. /\ \E E : IsTrie(root', E)
        /\ root'.is_leaf = [w \in DOMAIN before \cup {word} |->
                                IF w = word THEN n + 1 ELSE before[w]]
    <2>1. PICK D : IsTrie(root, D)
      BY <1>3 DEF DataInv
    <2>2. root' = insert_trie(root, word, n + 1)
      BY <1>1, <1>6
    <2>3. \E E : IsTrie(insert_trie(root, word, n + 1), E)
      BY <1>8, <2>1, Inserted
    <2>4. root'.is_leaf = [w \in DOMAIN root.is_leaf \cup {word} |->
                            IF w = word THEN n + 1 ELSE root.is_leaf[w]]
      BY <2>2 DEF insert_trie
    <2> QED BY <2>2, <2>3, <2>4
  <1> DEFINE after == root'.is_leaf
  <1>10. /\ DOMAIN after = DOMAIN before \cup {word}
         /\ \A w \in DOMAIN after : after[w] = IF w = word THEN n + 1 ELSE before[w]
    BY <1>9
  <1>11. /\ before \in [DOMAIN before -> 1 .. n]
         /\ \A i \in 1 .. n : word_array[i].word \in DOMAIN before
         /\ \A w \in DOMAIN before :
                /\ w # << >> /\ word_array[before[w]].word = w
                /\ \A j \in 1 .. n : word_array[j].word = w => j <= before[w]
    BY <1>3, <1>7 DEF DataInv
  <1> HIDE DEF after, before
  <1>12. after \in [DOMAIN after -> Indices']
    <2>1. \A w \in DOMAIN after : after[w] \in 1 .. (n + 1)
      BY <1>10, <1>11
    <2>2. after = [w \in DOMAIN after |-> after[w]]
      BY <1>9, <1>10 DEF after
    <2> QED BY <1>7, <2>1, <2>2
  <1>13. \A i \in 1 .. (n + 1) : word_array'[i].word \in DOMAIN after
    <2>1. \A i \in 1 .. (n + 1) : i \in 1 .. n \/ i = n + 1
      OBVIOUS
    <2> QED BY <1>2, <1>6, <1>10, <1>11, <2>1
  <1>14. ASSUME NEW w \in DOMAIN after
         PROVE  /\ w # << >>
                /\ word_array'[after[w]].word = w
                /\ \A j \in 1 .. (n + 1) : word_array'[j].word = w => j <= after[w]
    <2>1. CASE w = word
      BY <1>2, <1>6, <1>8, <1>10, <2>1
    <2>2. CASE w # word
      <3>1. w \in DOMAIN before /\ after[w] = before[w] /\ before[w] \in 1 .. n
        BY <1>10, <1>11, <2>2
      <3>2. ASSUME NEW j \in 1 .. (n + 1), word_array'[j].word = w PROVE j <= before[w]
        <4>1. j # n + 1
          BY <1>2, <1>6, <2>2, <3>2
        <4>2. j \in 1 .. n /\ word_array[j].word = w
          BY <1>6, <3>2, <4>1
        <4> QED BY <1>11, <3>1, <4>2
      <3> QED BY <1>6, <1>11, <3>1, <3>2
    <2> QED BY <2>1, <2>2
  <1>15. DataInv'
    <2>1. loading' \in BOOLEAN
      BY <1>3 DEF ReadData_MakeTrie, DataInv
    <2>2. word_array' \in Seq([word : DataWords, search_count : Counts])
      BY <1>6 DEF V
    <2> QED BY <1>7, <1>9, <1>12, <1>13, <1>14, <2>1, <2>2 DEF DataInv, after
  <1>16. ResultInv'
    <2>1. /\ search_word = << >> /\ temp_array = << >> /\ sent = << >>
          /\ search_word' = << >> /\ temp_array' = << >> /\ sent' = << >>
          /\ loading' = loading
      BY <1>3 DEF ReadData_MakeTrie, ResultInv
    <2>2. Len(<< >>) = 0 /\ ToSet(<< >>) = {} /\ Limit \in Nat
      BY SearchAssumption DEF ToSet
    <2>3. << >> \in Seq(Indices')
      OBVIOUS
    <2> QED BY <2>1, <2>2, <2>3 DEF ResultInv, SendsMostSearched
  <1> QED BY <1>15, <1>16 DEF EngineInv

LEMMA EndOfDataInv == ASSUME EngineInv, EndOfData PROVE EngineInv'
  <1>1. /\ loading' = FALSE /\ word_array' = word_array /\ root' = root
        /\ search_word' = search_word /\ temp_array' = temp_array /\ sent' = sent
    BY DEF EndOfData
  <1>2. Indices' = Indices /\ Current' = Current /\ SendsMostSearched' = SendsMostSearched
    BY <1>1 DEF Indices, Current, SendsMostSearched, Count
  <1>3. DataInv'
    BY <1>1, <1>2 DEF EngineInv, DataInv
  <1>4. ResultInv'
    BY <1>1, <1>2 DEF EngineInv, ResultInv, IsSubsequence
  <1> QED BY <1>3, <1>4 DEF EngineInv

\* There is nothing to sort in an empty array.
LEMMA SortNothing == Sort_Array(<< >>) = << >>
  <1> DEFINE sq == [j \in 1 .. (0 - 1) |-> j - 1]
             Body(it, s) == IF s = {} THEN << >>
                            ELSE Pass(it[s \ {Max(s)}], sq[Max(s)])
             whole == CHOOSE it : it = [s \in SUBSET {} |-> Body(it, s)]
             nothing == [s \in SUBSET {} |-> << >>]
  <1>1. Sort_Array(<< >>) = whole[{}]
    <2>1. DOMAIN sq = {} /\ Len(<< >>) = 0
      OBVIOUS
    <2> QED BY <2>1 DEF Sort_Array, FoldLeft, MapThenFoldSet
  <1>2. nothing = [s \in SUBSET {} |-> Body(nothing, s)]
    <2>1. \A s \in SUBSET {} : s = {} /\ Body(nothing, s) = << >>
      OBVIOUS
    <2> HIDE DEF Body
    <2> QED BY <2>1
  <1>3. whole = [s \in SUBSET {} |-> Body(whole, s)]
    <2> HIDE DEF Body, nothing
    <2> QED BY <1>2
  <1>4. whole[{}] = Body(whole, {})
    <2> HIDE DEF Body, whole
    <2>1. {} \in SUBSET {}
      OBVIOUS
    <2> QED BY <1>3, <2>1
  <1> HIDE DEF whole
  <1> QED BY <1>1, <1>4

\* The beginning of the sorted array is what was searched for most.
LEMMA Answered ==
    ASSUME NEW a \in Seq(Indices), Counted
    PROVE  /\ MostSearched(a) \in Seq(Indices)
           /\ Len(MostSearched(a)) <= Limit
           /\ ToSet(MostSearched(a)) \subseteq ToSet(a)
           /\ \A i, j \in 1 .. Len(MostSearched(a)) :
                i < j => Count(MostSearched(a)[i]) >= Count(MostSearched(a)[j])
           /\ \A i \in ToSet(a) \ ToSet(MostSearched(a)) :
                /\ Len(MostSearched(a)) = Limit
                /\ \A j \in ToSet(MostSearched(a)) : Count(i) <= Count(j)
           /\ Len(a) <= Limit => ToSet(MostSearched(a)) = ToSet(a)
  <1>1. PICK L \in Nat : L = Len(a)
    OBVIOUS
  <1>2. PICK b \in Arrays(L) :
            /\ b = Sort_Array(a)
            /\ \A x : (\E p \in 1 .. L : b[p] = x) <=> \E q \in 1 .. L : a[q] = x
            /\ \A p, q \in 1 .. L : p < q => Count(b[p]) >= Count(b[q])
    <2>1. CASE L = 0
      <3>1. a = << >>
        <4> DEFINE V == Indices
        <4>1. a \in Seq(V) /\ Len(a) = 0
          BY <1>1, <2>1
        <4> HIDE DEF V
        <4>2. a \in [1 .. 0 -> V] /\ << >> \in [1 .. 0 -> V]
          BY <4>1
        <4> QED BY <4>2
      <3>2. Sort_Array(a) = a
        BY <3>1, SortNothing
      <3>3. a \in Arrays(L)
        BY <1>1, ArraysAreSequences
      <3> QED BY <2>1, <3>2, <3>3
    <2>2. CASE L # 0
      <3>1. L \in Nat \ {0} /\ a \in Arrays(L)
        BY <1>1, <2>2, ArraysAreSequences
      <3> QED BY <3>1, SortWorks
    <2> QED BY <2>1, <2>2
  <1>3. b \in Seq(Indices) /\ Len(b) = L
    BY ArraysAreSequences
  <1>4. Limit \in Nat
    BY SearchAssumption
  <1>5. PICK m \in Nat : m = (IF L > Limit THEN Limit ELSE L) /\ m <= L /\ m <= Limit
    <2>1. CASE L > Limit
      BY <1>4, <2>1
    <2>2. CASE ~(L > Limit)
      BY <1>4, <2>2
    <2> QED BY <2>1, <2>2
  <1>6. MostSearched(a) = SubSeq(b, 1, m)
    BY <1>2, <1>3, <1>5 DEF MostSearched
  <1>7. PICK s : /\ s = MostSearched(a) /\ s \in Seq(Indices) /\ Len(s) = m
                 /\ \A i \in 1 .. m : s[i] = b[i]
    <2> DEFINE V == Indices
    <2>1. b \in Seq(V)
      BY <1>3
    <2> HIDE DEF V
    <2>2. SubSeq(b, 1, m) \in Seq(V)
      BY <1>3, <1>5, <2>1
    <2>3. Len(SubSeq(b, 1, m)) = m
      BY <1>3, <1>5, <2>1
    <2>4. \A i \in 1 .. m : SubSeq(b, 1, m)[i] = b[i]
      BY <1>3, <1>5, <2>1
    <2>5. MostSearched(a) \in Seq(Indices)
      BY <1>6, <2>2 DEF V
    <2> QED BY <1>6, <2>3, <2>4, <2>5
  <1>8. ToSet(a) = {b[p] : p \in 1 .. L}
    <2>1. \A x : x \in ToSet(a) <=> \E q \in 1 .. L : a[q] = x
      BY <1>1 DEF ToSet
    <2>2. \A x : x \in {b[p] : p \in 1 .. L} <=> \E p \in 1 .. L : b[p] = x
      OBVIOUS
    <2> QED BY <1>2, <2>1, <2>2
  <1>9. ToSet(s) = {b[p] : p \in 1 .. m}
    BY <1>7 DEF ToSet
  <1>10. \A p \in 1 .. m : p \in 1 .. L
    BY <1>5
  <1>11. ToSet(s) \subseteq ToSet(a)
    BY <1>8, <1>9, <1>10
  <1>12. \A i, j \in 1 .. Len(s) : i < j => Count(s[i]) >= Count(s[j])
    <2>1. ASSUME NEW i \in 1 .. m, NEW j \in 1 .. m, i < j
          PROVE  Count(s[i]) >= Count(s[j])
      <3>1. Count(b[i]) >= Count(b[j])
        BY <1>2, <1>10, <2>1
      <3> QED BY <1>7, <3>1
    <2> QED BY <1>7, <2>1
  <1>13. ASSUME NEW i \in ToSet(a) \ ToSet(s)
         PROVE  Len(s) = Limit /\ \A j \in ToSet(s) : Count(i) <= Count(j)
    <2>1. PICK p \in 1 .. L : i = b[p]
      BY <1>8
    <2>2. p > m
      BY <1>9, <2>1
    <2>3. m = Limit
      BY <1>5, <2>2
    <2>4. ASSUME NEW j \in ToSet(s) PROVE Count(i) <= Count(j)
      <3>1. PICK q \in 1 .. m : j = b[q]
        BY <1>9
      <3>2. q < p /\ q \in 1 .. L
        BY <1>10, <2>2
      <3>3. Count(b[q]) >= Count(b[p])
        BY <1>2, <3>2
      <3>4. b[p] \in Indices /\ b[q] \in Indices
        BY <3>2 DEF Arrays
      <3>5. Count(b[q]) \in Nat /\ Count(b[p]) \in Nat
        BY <3>4 DEF Counted
      <3> QED BY <2>1, <3>1, <3>3, <3>5
    <2> QED BY <1>7, <2>3, <2>4
  <1>14. L <= Limit => ToSet(s) = ToSet(a)
    <2>1. L <= Limit => m = L
      BY <1>4, <1>5
    <2> QED BY <1>8, <1>9, <2>1
  <1> QED BY <1>1, <1>5, <1>7, <1>11, <1>12, <1>13, <1>14

LEMMA SearchInv == ASSUME EngineInv, SearchEngine PROVE EngineInv'
  <1>1. PICK search \in Searches :
            /\ search_word' = search
            /\ temp_array' = Get_Complete_Words(root, Find_Match_Prefix_Node(root, search))
    BY DEF SearchEngine
  <1>2. /\ sent' = MostSearched(temp_array') /\ ~loading /\ loading' = loading
        /\ word_array' = word_array /\ root' = root
    BY DEF SearchEngine
  <1>3. DataInv /\ ResultInv
    BY DEF EngineInv
  <1>4. Indices' = Indices /\ Current' = Current
    BY <1>2 DEF Indices, Current
  <1>5. search \in Strings /\ search # << >>
    BY WordsAreStrings
  <1> DEFINE leaf == root.is_leaf
  <1>6. /\ leaf \in [DOMAIN leaf -> Indices]
        /\ \A i \in Indices : word_array[i].word \in DOMAIN leaf
        /\ \A w \in DOMAIN leaf :
            /\ word_array[leaf[w]].word = w
            /\ \A j \in Indices : word_array[j].word = w => j <= leaf[w]
    BY <1>3 DEF DataInv
  <1>7. IsInjective(leaf)
    <2>1. ASSUME NEW v \in DOMAIN leaf, NEW w \in DOMAIN leaf, leaf[v] = leaf[w] PROVE v = w
      BY <1>6, <2>1
    <2> QED BY <2>1 DEF IsInjective
  <1>8. PICK found :
            /\ found = temp_array' /\ found \in Seq(Indices) /\ IsInjective(found)
            /\ \A v : v \in ToSet(found) <=>
                \E x \in DOMAIN leaf : Embeds(Len(search), search, x) /\ leaf[x] = v
    <2>1. PICK D : IsTrie(root, D)
      BY <1>3 DEF DataInv
    <2> QED BY <1>1, <1>5, <1>6, <1>7, <2>1, WordsFound
  <1>9. ToSet(found) = {i \in Current : IsSubsequence(search, word_array[i].word)}
    <2>1. \A w : IsSubsequence(search, w) <=> Embeds(Len(search), search, w)
      BY DEF IsSubsequence, Embeds
    <2>2. ASSUME NEW x \in DOMAIN leaf, Embeds(Len(search), search, x)
          PROVE  leaf[x] \in Current /\ IsSubsequence(search, word_array[leaf[x]].word)
      <3>1. leaf[x] \in Indices /\ word_array[leaf[x]].word = x
        BY <1>6
      <3>2. leaf[x] \in Current
        BY <1>6, <3>1 DEF Current
      <3> QED BY <2>1, <2>2, <3>1, <3>2
    <2>3. ASSUME NEW i \in Current, IsSubsequence(search, word_array[i].word)
          PROVE  \E x \in DOMAIN leaf : Embeds(Len(search), search, x) /\ leaf[x] = i
      <3>1. /\ i \in Indices
            /\ \A j \in Indices : word_array[j].word = word_array[i].word => j <= i
        BY DEF Current
      <3>2. PICK x \in DOMAIN leaf : x = word_array[i].word
        BY <1>6, <3>1
      <3>3. leaf[x] \in Indices /\ leaf[x] <= i /\ i <= leaf[x]
        BY <1>6, <3>1, <3>2
      <3>4. leaf[x] = i
        BY <3>1, <3>3 DEF Indices
      <3> QED BY <2>1, <2>3, <3>2, <3>4
    <2> HIDE DEF leaf
    <2> QED BY <1>8, <2>2, <2>3
  <1>10. Counted
    <2>1. ASSUME NEW i \in Indices PROVE word_array[i].search_count \in Nat
      <3> DEFINE V == [word : DataWords, search_count : Counts]
      <3>1. word_array \in Seq(V)
        BY <1>3 DEF DataInv
      <3> HIDE DEF V
      <3>2. word_array[i] \in V
        BY <3>1 DEF Indices
      <3> QED BY <3>2, SearchAssumption DEF V
    <2> QED BY <2>1 DEF Counted, Count
  <1>11. DataInv'
    BY <1>2, <1>3, <1>4 DEF DataInv
  <1>12. \A i : Count(i)' = Count(i)
    BY <1>2 DEF Count
  <1>13. /\ sent' \in Seq(Indices)
         /\ (Len(temp_array) <= Limit => ToSet(sent) = ToSet(temp_array))'
    <2>1. sent' = MostSearched(found)
      BY <1>2, <1>8
    <2> QED BY <1>8, <1>10, <2>1, Answered
  <1>14. SendsMostSearched'
    <2>1. sent' = MostSearched(found)
      <3>1. MostSearched(temp_array') = MostSearched(found)
        BY <1>8
      <3> QED BY <1>2, <3>1
    <2>2. PICK s : s = sent' /\ s = MostSearched(found)
      BY <2>1
    <2>3. /\ Len(s) <= Limit
          /\ ToSet(s) \subseteq ToSet(found)
          /\ \A i, j \in 1 .. Len(s) : i < j => Count(s[i]) >= Count(s[j])
          /\ \A i \in ToSet(found) \ ToSet(s) :
                /\ Len(s) = Limit
                /\ \A j \in ToSet(s) : Count(i) <= Count(j)
      BY <1>8, <1>10, <2>2, Answered
    <2> QED BY <1>2, <1>8, <2>2, <2>3 DEF SendsMostSearched, Count
  <1>15. ResultInv'
    <2>1. search_word' \in Searches /\ search_word' # << >> /\ search_word' = search
      BY <1>1, <1>5
    <2>2. ToSet(found) =
            {i \in Current' : IsSubsequence(search, word_array'[i].word)}
      BY <1>2, <1>4, <1>9
    <2> QED BY <1>2, <1>4, <1>8, <1>13, <1>14, <2>1, <2>2 DEF ResultInv, IsSubsequence
  <1> QED BY <1>11, <1>15 DEF EngineInv

\* EngineInv always holds: the trie leads to the last line of each word, and
\* what was found, sorted and sent is what the properties below say.
THEOREM EngineInvariantHolds == EngineSpec => []EngineInv
  <1>1. EngineInit => EngineInv
    BY EngineInitInv
  <1>2. EngineInv /\ [EngineNext]_engineVars => EngineInv'
    <2> SUFFICES ASSUME EngineInv, [EngineNext]_engineVars
                 PROVE  EngineInv'
      OBVIOUS
    <2>1. CASE ReadData_MakeTrie
      BY <2>1, ReadInv
    <2>2. CASE EndOfData
      BY <2>2, EndOfDataInv
    <2>3. CASE SearchEngine
      BY <2>3, SearchInv
    <2>4. CASE UNCHANGED engineVars
      <3>1. /\ loading' = loading /\ word_array' = word_array /\ root' = root
            /\ search_word' = search_word /\ temp_array' = temp_array /\ sent' = sent
        BY <2>4 DEF engineVars
      <3>2. Indices' = Indices /\ Current' = Current /\ SendsMostSearched' = SendsMostSearched
        BY <3>1 DEF Indices, Current, SendsMostSearched, Count
      <3>3. DataInv'
        BY <3>1, <3>2 DEF EngineInv, DataInv
      <3>4. ResultInv'
        BY <3>1, <3>2 DEF EngineInv, ResultInv, IsSubsequence
      <3> QED BY <3>3, <3>4 DEF EngineInv
    <2> QED BY <2>1, <2>2, <2>3, <2>4 DEF EngineNext
  <1> QED BY <1>1, <1>2, PTL DEF EngineSpec

\* The walk over the trie (Find_Match_Prefix_Node, Get_Complete_Words) finds
\* the current line of every word that has the characters of the search word in
\* their order, each once, and no other; the trie and the arrays are well formed.
THEOREM FindsEachMatchOnceAlways == EngineSpec => []FindsEachMatchOnce
  <1>1. EngineInv => FindsEachMatchOnce
    <2> SUFFICES ASSUME EngineInv PROVE FindsEachMatchOnce
      OBVIOUS
    <2>1. DataInv /\ ResultInv
      BY DEF EngineInv
    <2>2. ToSet(word_array) \subseteq [word : DataWords, search_count : Counts]
      <3> DEFINE V == [word : DataWords, search_count : Counts]
      <3>1. word_array \in Seq(V)
        BY <2>1 DEF DataInv
      <3> HIDE DEF V
      <3>2. ToSet(word_array) \subseteq V
        BY <3>1 DEF ToSet
      <3> QED BY <3>2 DEF V
    <2>3. /\ root.nodes \subseteq Seq(0 .. (N - 1))
          /\ DOMAIN root.is_leaf \subseteq root.nodes \ {<< >>}
      <3>1. PICK D : IsTrie(root, D)
        BY <2>1 DEF DataInv
      <3> QED BY <2>1, <3>1 DEF IsTrie, DataInv, Strings, Letters
    <2>4. ToSet(temp_array) \cup ToSet(sent) \subseteq Indices
      <3> DEFINE V == Indices
      <3>1. temp_array \in Seq(V) /\ sent \in Seq(V)
        BY <2>1 DEF ResultInv
      <3> HIDE DEF V
      <3>2. ToSet(temp_array) \cup ToSet(sent) \subseteq V
        BY <3>1 DEF ToSet
      <3> QED BY <3>2 DEF V
    <2>5. EngineTypes
      BY <2>1, <2>2, <2>3, <2>4 DEF EngineTypes, DataInv, ResultInv
    <2> QED BY <2>1, <2>5 DEF FindsEachMatchOnce, ResultInv
  <1> QED BY <1>1, EngineInvariantHolds, PTL

\* The bubble sort and the cut after Limit words (Sort_Array, the loop that
\* sends) leave the words that were searched for most, in decreasing order.
THEOREM SendsMostSearchedAlways == EngineSpec => []SendsMostSearched
  <1>1. EngineInv => SendsMostSearched
    BY DEF EngineInv, ResultInv
  <1> QED BY <1>1, EngineInvariantHolds, PTL

\* The strstr of the client (Print_Result) displays each word that begins with
\* the search word, unless too many words were found for it.
THEOREM PrefixesDisplayedAlways == EngineSpec => []PrefixesDisplayed
  <1>1. EngineInv => PrefixesDisplayed
    <2> SUFFICES ASSUME EngineInv, search_word # << >>, Len(temp_array) <= Limit,
                        NEW i \in Current, IsPrefix(search_word, word_array[i].word)
                 PROVE  i \in Displayed
      BY DEF PrefixesDisplayed
    <2> DEFINE s == search_word
               w == word_array[i].word
    <2>1. DataInv /\ ResultInv
      BY DEF EngineInv
    <2>2. s \in Strings
      BY <2>1, WordsAreStrings DEF ResultInv
    <2>3. w \in Strings
      <3> DEFINE V == [word : DataWords, search_count : Counts]
      <3>1. word_array \in Seq(V) /\ i \in 1 .. Len(word_array)
        BY <2>1 DEF DataInv, Current, Indices
      <3> HIDE DEF V
      <3>2. word_array[i] \in V
        BY <3>1
      <3> QED BY <3>2, WordsAreStrings DEF V
    <2>4. PICK k \in Nat, n \in Nat : k = Len(s) /\ n = Len(w)
      BY <2>2, <2>3 DEF Strings
    <2> HIDE DEF s, w
    <2>5. k <= n /\ SubSeq(s, 1, k) = SubSeq(w, 1, k)
      BY <2>4 DEF IsPrefix, s, w
    <2>6. Above(s, s) /\ k \in 0 .. Len(s) /\ k \in 0 .. Len(w)
      BY <2>2, <2>4, <2>5, AboveTop
    <2>7. s = SubSeq(s, 1, k)
      BY <2>2, <2>4, <2>6, Beginning
    <2>8. s = SubSeq(w, 1, k)
      BY <2>5, <2>7
    <2>9. Above(s, w)
      BY <2>3, <2>6, <2>8, Beginning
    <2>10. IsSubsequence(s, w)
      <3> DEFINE at == [j \in 1 .. k |-> j]
      <3>1. at \in [1 .. Len(s) -> 1 .. Len(w)]
        BY <2>4, <2>5
      <3>2. \A j \in 1 .. Len(s) : w[at[j]] = s[j]
        BY <2>4, <2>9 DEF Above
      <3>3. \A j, l \in 1 .. Len(s) : j < l => at[j] < at[l]
        BY <2>4
      <3> QED BY <3>1, <3>2, <3>3 DEF IsSubsequence
    <2>11. HasInside(w, s)
      <3>1. 0 \in 0 .. (Len(w) - Len(s)) /\ SubSeq(w, 0 + 1, 0 + Len(s)) = s
        BY <2>4, <2>5, <2>8
      <3> QED BY <3>1 DEF HasInside
    <2>12. i \in ToSet(sent)
      BY <2>1, <2>10 DEF ResultInv, s, w
    <2> QED BY <2>11, <2>12 DEF Displayed, s, w
  <1> QED BY <1>1, EngineInvariantHolds, PTL

=============================================================================

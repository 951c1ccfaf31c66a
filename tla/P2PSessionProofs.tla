--------------------------- MODULE P2PSessionProofs ---------------------------
(***************************************************************************)
(* What holds of the set-up of a peer-to-peer session for any number of    *)
(* receivers, any of which may be killed, as long as no two of them listen *)
(* on the same port number.                                                *)
(*                                                                         *)
(* The argument: the sender's list is the sequence of those it accepted,   *)
(* each with its port or dead, so that a receiver which looks for its own  *)
(* port finds its own place.  Who calls whom is then determined by places  *)
(* and by how far each loop has come: the peers of a receiver and the      *)
(* queue at its door are exactly those it has called and those that have   *)
(* called it, and somebody called by r stands behind r in the list.        *)
(***************************************************************************)
EXTENDS P2PSession, FiniteSetTheorems, TLAPS

\* Two receivers with one port number, on different hosts, would take each
\* other's entry for their own.
DistinctPorts == \A q, r \in Receivers : Port[q] = Port[r] => q = r

Phases == {"off", "listening", "connected", "wait_info", "mesh", "meshed",
           "failed", "killed"}

Types ==
    /\ sender_pc \in {"accept", "hello", "send", "close", "closed"}
    /\ sender_queue \in Seq(Receivers)
    /\ sender_sock_array \in Seq(Receivers)
    /\ sender_list \in Seq(Entries)
    /\ lists_sent \in Nat
    /\ pc \in [Receivers -> Phases]
    /\ hello \subseteq Receivers
    /\ this_receiver \in [Receivers -> Nat]
    /\ conn_i \in [Receivers -> Nat]
    /\ accepted \in [Receivers -> Nat]
    /\ receiver_array \in [Receivers -> Seq(Entries)]
    /\ backlog \in [Receivers -> Seq(Receivers)]
    /\ recv_sock_array \in [Receivers -> Seq(Receivers)]

\* Entry i is about the receiver accepted as number i - 1.
Listed(i) ==
    /\ sender_list[i].nth = i - 1
    /\ sender_list[i].adr = sender_sock_array[i]
    /\ \/ sender_list[i].port = Port[sender_sock_array[i]]
       \/ Dead(sender_sock_array[i]) /\ sender_list[i].port = NoPort

Full == Len(sender_sock_array) = N /\ Len(sender_list) = N

SenderInv ==
    /\ sender_pc = "accept" =>
        /\ Len(sender_sock_array) = Len(sender_list)
        /\ Len(sender_list) < N
    /\ sender_pc = "hello" =>
        /\ Len(sender_sock_array) = Len(sender_list) + 1
        /\ Len(sender_list) < N
    /\ sender_pc \in {"send", "close", "closed"} => Full
    /\ lists_sent > 0 => Full
    /\ lists_sent <= N
    /\ sender_pc = "send" => lists_sent < N
    /\ \A i \in 1 .. Len(sender_list) : Listed(i)

\* Nobody is accepted twice.
QueueInv ==
    /\ IsInjective(sender_queue)
    /\ IsInjective(sender_sock_array)
    /\ ToSet(sender_queue) \cap ToSet(sender_sock_array) = {}
    /\ \A r \in ToSet(sender_queue) \cup ToSet(sender_sock_array) :
        pc[r] \notin {"off", "listening"}

Fresh(r) ==
    /\ this_receiver[r] = 0 /\ conn_i[r] = 0 /\ accepted[r] = 0
    /\ recv_sock_array[r] = << >> /\ receiver_array[r] = << >>

\* r knows its place, and whom it has still to call.
Informed(r) ==
    /\ Full
    /\ this_receiver[r] < N
    /\ sender_sock_array[this_receiver[r] + 1] = r
    /\ this_receiver[r] <= conn_i[r] /\ conn_i[r] <= N - 1
    /\ accepted[r] <= this_receiver[r]
    /\ Len(recv_sock_array[r]) = accepted[r] + conn_i[r] - this_receiver[r]
    /\ Len(receiver_array[r]) = N - 1
    /\ \A i \in (this_receiver[r] + 1) .. (N - 1) :
        receiver_array[r][i] = sender_list[i + 1]

ReceiverInv ==
    \A r \in Receivers :
        /\ Fresh(r) \/ Informed(r)
        /\ PastInfo(r) => Informed(r)
        /\ pc[r] \in {"off", "listening", "connected", "wait_info"} => Fresh(r)
        /\ pc[r] = "meshed" =>
            conn_i[r] = N - 1 /\ accepted[r] = this_receiver[r]

\* q has called r: r is behind q in the list and q's loop has passed it.
Calls(q, r) ==
    \E j \in (this_receiver[q] + 2) .. (conn_i[q] + 1) : sender_sock_array[j] = r

Peers(r) == ToSet(backlog[r]) \cup ToSet(recv_sock_array[r])

EdgeInv ==
    \A r \in Receivers :
        /\ IsInjective(backlog[r]) /\ IsInjective(recv_sock_array[r])
        /\ ToSet(backlog[r]) \cap ToSet(recv_sock_array[r]) = {}
        /\ \A q \in ToSet(backlog[r]) : Calls(q, r)
        /\ \A q \in Receivers : q \in Peers(r) <=> Calls(q, r) \/ Calls(r, q)

IInv == Types /\ SenderInv /\ QueueInv /\ ReceiverInv /\ EdgeInv

-----------------------------------------------------------------------------

\* Adding to a queue whose members are all different.
LEMMA AppendQueue ==
    ASSUME NEW T, NEW q \in Seq(T), IsInjective(q), NEW x \in T, x \notin ToSet(q)
    PROVE  /\ Append(q, x) \in Seq(T)
           /\ IsInjective(Append(q, x))
           /\ ToSet(Append(q, x)) = ToSet(q) \cup {x}
  <1> DEFINE q2 == Append(q, x)
  <1>1. /\ q2 \in Seq(T) /\ Len(q) \in Nat
        /\ DOMAIN q = 1 .. Len(q) /\ DOMAIN q2 = 1 .. (Len(q) + 1)
        /\ \A i \in 1 .. Len(q) : q2[i] = q[i]
        /\ q2[Len(q) + 1] = x
    OBVIOUS
  <1> HIDE DEF q2
  <1>2. \A i \in DOMAIN q2 : i \in DOMAIN q \/ i = Len(q) + 1
    BY <1>1
  <1>3. ToSet(q2) = ToSet(q) \cup {x}
    <2>1. ToSet(q2) \subseteq ToSet(q) \cup {x}
      BY <1>1, <1>2 DEF ToSet
    <2>2. ToSet(q) \cup {x} \subseteq ToSet(q2)
      <3>1. \A i \in DOMAIN q : i \in DOMAIN q2 /\ q2[i] = q[i]
        BY <1>1
      <3>2. Len(q) + 1 \in DOMAIN q2
        BY <1>1
      <3> QED BY <3>1, <3>2, <1>1 DEF ToSet
    <2> QED BY <2>1, <2>2
  <1>4. IsInjective(q2)
    <2> SUFFICES ASSUME NEW i \in DOMAIN q2, NEW j \in DOMAIN q2, q2[i] = q2[j]
                 PROVE  i = j
      BY DEF IsInjective
    <2>1. CASE i \in DOMAIN q /\ j \in DOMAIN q
      BY <1>1, <2>1 DEF IsInjective
    <2>2. CASE ~(i \in DOMAIN q /\ j \in DOMAIN q)
      BY <1>1, <1>2, <2>2 DEF ToSet
    <2> QED BY <2>1, <2>2
  <1> QED BY <1>1, <1>3, <1>4 DEF q2

\* Taking the first of a queue whose members are all different.
LEMMA TailQueue ==
    ASSUME NEW T, NEW q \in Seq(T), IsInjective(q), q # << >>
    PROVE  /\ Tail(q) \in Seq(T) /\ IsInjective(Tail(q))
           /\ Head(q) \in T /\ Head(q) \in ToSet(q)
           /\ ToSet(Tail(q)) = ToSet(q) \ {Head(q)}
  <1>1. /\ Tail(q) \in Seq(T) /\ Head(q) \in T /\ Len(q) \in Nat
        /\ Len(q) > 0 /\ DOMAIN q = 1 .. Len(q)
        /\ DOMAIN Tail(q) = 1 .. (Len(q) - 1)
        /\ Head(q) = q[1]
        /\ \A i \in 1 .. (Len(q) - 1) : Tail(q)[i] = q[i + 1]
    OBVIOUS
  <1>2. IsInjective(Tail(q))
    BY <1>1 DEF IsInjective
  <1>3. Head(q) \in ToSet(q)
    BY <1>1 DEF ToSet
  <1>4. ToSet(Tail(q)) \subseteq ToSet(q) \ {Head(q)}
    BY <1>1 DEF ToSet, IsInjective
  <1>5. ToSet(q) \ {Head(q)} \subseteq ToSet(Tail(q))
    <2> SUFFICES ASSUME NEW i \in 1 .. Len(q), i # 1
                 PROVE  q[i] \in ToSet(Tail(q))
      BY <1>1 DEF ToSet
    <2> DEFINE j == i - 1
    <2>1. j \in DOMAIN Tail(q) /\ j + 1 = i
      BY <1>1
    <2>2. Tail(q)[j] = q[i]
      BY <2>1, <1>1
    <2> QED BY <2>1, <2>2 DEF ToSet
  <1> QED BY <1>1, <1>2, <1>3, <1>4, <1>5

\* What is in a sequence is an element of its set.
LEMMA InQueue ==
    ASSUME NEW T, NEW q \in Seq(T), NEW i \in 1 .. Len(q)
    PROVE  q[i] \in ToSet(q) /\ q[i] \in T
  <1>1. i \in DOMAIN q
    OBVIOUS
  <1> QED BY <1>1 DEF ToSet

LEMMA SetOfQueue ==
    ASSUME NEW T, NEW q \in Seq(T)
    PROVE  ToSet(q) \subseteq T
  <1>1. DOMAIN q = 1 .. Len(q) /\ \A i \in 1 .. Len(q) : q[i] \in T
    OBVIOUS
  <1> QED BY <1>1 DEF ToSet

LEMMA EmptyQueue ==
    /\ IsInjective(<< >>) /\ ToSet(<< >>) = {}
  <1>1. DOMAIN << >> = {}
    OBVIOUS
  <1> QED BY <1>1 DEF IsInjective, ToSet

-----------------------------------------------------------------------------

\* Each entry of the list is about somebody the sender has accepted.
LEMMA ListedAccepted ==
    ASSUME IInv, NEW i \in 1 .. Len(sender_list)
    PROVE  Listed(i) /\ i \in 1 .. Len(sender_sock_array)
  <1>1. PICK n \in Nat, m \in Nat : n = Len(sender_list) /\ m = Len(sender_sock_array)
    BY DEF IInv, Types
  <1>2. Listed(i)
    BY DEF IInv, SenderInv
  <1>3. n <= m
    <2>1. CASE sender_pc = "accept"
      BY <1>1, <2>1 DEF IInv, SenderInv
    <2>2. CASE sender_pc = "hello"
      <3>1. m = n + 1
        BY <1>1, <2>2 DEF IInv, SenderInv
      <3> QED BY <1>1, <3>1
    <2>3. CASE sender_pc \in {"send", "close", "closed"}
      BY <1>1, <2>3 DEF IInv, SenderInv, Full
    <2> QED BY <2>1, <2>2, <2>3 DEF IInv, Types
  <1>4. i \in 1 .. m
    BY <1>1, <1>3
  <1> QED BY <1>1, <1>2, <1>4

LEMMA InitInv == Init => IInv
  <1> SUFFICES ASSUME Init PROVE IInv
    OBVIOUS
  <1> USE DEF Init
  <1>1. Types
    BY DEF Types, Phases
  <1>2. SenderInv
    BY SessionAssumption DEF SenderInv
  <1>3. QueueInv
    BY EmptyQueue DEF QueueInv
  <1>4. ReceiverInv
    BY DEF ReceiverInv, Fresh, PastInfo
  <1>5. EdgeInv
    BY EmptyQueue DEF EdgeInv, Calls, Peers
  <1> QED BY <1>1, <1>2, <1>3, <1>4, <1>5 DEF IInv

\* Nothing but where a receiver is changes, and it goes to a place that fits
\* what it knows.
LEMMA PhaseInv ==
    ASSUME IInv, NEW r \in Receivers, NEW x \in Phases,
           pc' = [pc EXCEPT ![r] = x],
           hello' \subseteq Receivers,
           UNCHANGED <<senderVars, sender_queue, infoVars, meshVars>>,
           x \in {"off", "listening"} => pc[r] \in {"off", "listening"},
           x \in {"off", "listening", "connected", "wait_info"} => Fresh(r),
           x \in {"mesh", "meshed"} => Informed(r),
           x = "meshed" => conn_i[r] = N - 1 /\ accepted[r] = this_receiver[r],
           Dead(r) => x \in {"failed", "killed"}
    PROVE  IInv'
  <1> USE DEF senderVars, infoVars, meshVars
  <1>1. Types'
    BY DEF IInv, Types
  <1>2. /\ pc \in [Receivers -> Phases] /\ pc'[r] = x
        /\ \A q \in Receivers : q # r => pc'[q] = pc[q]
    BY DEF IInv, Types
  <1>3. SenderInv'
    <2>1. \A q \in Receivers : Dead(q) => Dead(q)'
      BY <1>2 DEF Dead
    <2>2. ASSUME NEW i \in 1 .. Len(sender_list)
          PROVE  Listed(i)'
      <3>1. Listed(i) /\ i \in 1 .. Len(sender_sock_array)
        BY ListedAccepted
      <3>2. sender_sock_array[i] \in Receivers
        BY <3>1 DEF IInv, Types
      <3> QED BY <3>1, <3>2, <2>1 DEF Listed
    <2> QED BY <2>2 DEF IInv, SenderInv, Full
  <1>4. QueueInv'
    <2>1. ToSet(sender_queue) \cup ToSet(sender_sock_array) \subseteq Receivers
      BY SetOfQueue DEF IInv, Types
    <2> QED BY <1>2, <2>1 DEF IInv, QueueInv
  <1>5. ReceiverInv'
    <2> SUFFICES ASSUME NEW q \in Receivers
                 PROVE  /\ Fresh(q) \/ Informed(q)
                        /\ PastInfo(q)' => Informed(q)
                        /\ pc'[q] \in {"off", "listening", "connected", "wait_info"}
                            => Fresh(q)
                        /\ pc'[q] = "meshed" =>
                            conn_i[q] = N - 1 /\ accepted[q] = this_receiver[q]
      BY DEF ReceiverInv, Fresh, Informed, Full
    <2> QED BY <1>2 DEF IInv, ReceiverInv, PastInfo
  <1>6. EdgeInv'
    BY DEF IInv, EdgeInv, Calls, Peers
  <1> QED BY <1>1, <1>3, <1>4, <1>5, <1>6 DEF IInv

LEMMA InitializeSocketInv ==
    ASSUME IInv, NEW r \in Receivers, Initialize_Socket(r) PROVE IInv'
  <1>1. "listening" \in Phases /\ Fresh(r) /\ hello' \subseteq Receivers /\ ~Dead(r)
    BY DEF IInv, Types, ReceiverInv, Initialize_Socket, Phases, Dead
  <1> QED BY <1>1, PhaseInv DEF Initialize_Socket

LEMMA WriteHelloInv ==
    ASSUME IInv, NEW r \in Receivers, WriteHello(r) PROVE IInv'
  <1>1. "wait_info" \in Phases /\ Fresh(r) /\ hello' \subseteq Receivers /\ ~Dead(r)
    BY DEF IInv, Types, ReceiverInv, WriteHello, Phases, Dead
  <1> QED BY <1>1, PhaseInv DEF WriteHello

\* Whoever leaves, leaves everything as it is.
LEMMA LeaveInv ==
    ASSUME IInv, NEW r \in Receivers, NEW x \in {"failed", "killed"},
           pc' = [pc EXCEPT ![r] = x],
           UNCHANGED <<senderVars, sender_queue, hello, infoVars, meshVars>>
    PROVE  IInv'
  <1>1. x \in Phases /\ hello' \subseteq Receivers
    BY DEF IInv, Types, Phases
  <1> QED BY <1>1, PhaseInv

LEMMA MeshJoinedInv ==
    ASSUME IInv, NEW r \in Receivers, MeshJoined(r) PROVE IInv'
  <1>1. "meshed" \in Phases /\ Informed(r) /\ hello' \subseteq Receivers /\ ~Dead(r)
    BY DEF IInv, Types, ReceiverInv, MeshJoined, Phases, Dead, PastInfo
  <1>2. conn_i[r] = N - 1 /\ accepted[r] = this_receiver[r]
    <2>1. /\ conn_i[r] \in Nat /\ accepted[r] \in Nat /\ this_receiver[r] \in Nat
          /\ conn_i[r] >= N - 1 /\ conn_i[r] <= N - 1
          /\ ~(accepted[r] < this_receiver[r]) /\ accepted[r] <= this_receiver[r]
      BY <1>1 DEF MeshJoined, MoreToAccept, Informed, IInv, Types
    <2> QED BY <2>1, SessionAssumption
  <1> QED BY <1>1, <1>2, PhaseInv DEF MeshJoined

\* The sender gets on with its lists, or ends.
LEMMA SendInv ==
    ASSUME IInv, SendList \/ SenderKilled \/ Close_Sockets PROVE IInv'
  <1>1. /\ UNCHANGED <<sender_queue, sender_sock_array, sender_list, pc, hello,
                       infoVars, meshVars>>
        /\ Full /\ lists_sent \in Nat /\ N \in Nat
        /\ lists_sent <= N
    BY SessionAssumption
    DEF SendList, SenderKilled, Close_Sockets, IInv, SenderInv, Types
  <1>2. /\ sender_pc' \in {"send", "close", "closed"}
        /\ lists_sent' \in Nat /\ lists_sent' <= N
        /\ sender_pc' = "send" => lists_sent' < N
    <2>1. CASE SendList
      <3>1. lists_sent' = lists_sent + 1 /\ lists_sent < N
        BY <2>1 DEF SendList, IInv, SenderInv
      <3>2. /\ sender_pc' \in {"send", "close"}
            /\ sender_pc' = "send" => ~(lists_sent' >= N)
        BY <2>1 DEF SendList, AllLists
      <3> QED BY <1>1, <3>1, <3>2
    <2>2. CASE SenderKilled \/ Close_Sockets
      BY <1>1, <2>2 DEF SenderKilled, Close_Sockets
    <2> QED BY <2>1, <2>2
  <1> USE DEF infoVars, meshVars
  <1>3. Types'
    BY <1>1, <1>2 DEF IInv, Types
  <1>4. SenderInv'
    <2>1. \A i \in 1 .. Len(sender_list) : Listed(i)'
      BY <1>1 DEF IInv, SenderInv, Listed, Dead
    <2>2. Full'
      BY <1>1 DEF Full
    <2>3. sender_pc' \notin {"accept", "hello"}
      BY <1>2
    <2> QED BY <1>1, <1>2, <2>1, <2>2, <2>3 DEF SenderInv
  <1>5. QueueInv' /\ EdgeInv'
    BY <1>1 DEF IInv, QueueInv, EdgeInv, Calls, Peers
  <1>6. ReceiverInv'
    <2>1. \A r \in Receivers : /\ Fresh(r) => Fresh(r)'
                               /\ Informed(r) => Informed(r)'
                               /\ PastInfo(r)' = PastInfo(r)
      BY <1>1 DEF Fresh, Informed, Full, PastInfo
    <2> QED BY <1>1, <2>1 DEF IInv, ReceiverInv
  <1> QED BY <1>3, <1>4, <1>5, <1>6 DEF IInv

\* Before the list is full no receiver knows anything and nobody has called.
LEMMA NobodyInformed ==
    ASSUME IInv, ~Full
    PROVE  /\ \A r \in Receivers : Fresh(r) /\ ~PastInfo(r) /\ pc[r] # "meshed"
           /\ \A r \in Receivers : (this_receiver[r] + 2) .. (conn_i[r] + 1) = {}
  <1>1. \A r \in Receivers : Fresh(r) /\ ~PastInfo(r) /\ pc[r] # "meshed"
    BY DEF IInv, ReceiverInv, Informed, PastInfo
  <1>2. \A r \in Receivers : (this_receiver[r] + 2) .. (conn_i[r] + 1) = {}
    BY <1>1 DEF Fresh
  <1> QED BY <1>1, <1>2

\* While the sender makes its list the receivers' side keeps its invariant.
LEMMA ListingInv ==
    ASSUME IInv, ~Full, UNCHANGED <<pc, infoVars, meshVars>>
    PROVE  ReceiverInv' /\ EdgeInv'
  <1> USE DEF infoVars, meshVars
  <1>1. ReceiverInv'
    BY NobodyInformed DEF ReceiverInv, Fresh, PastInfo, IInv
  <1>2. \A q, r \in Receivers : ~Calls(q, r) /\ ~Calls(q, r)'
    BY NobodyInformed DEF Calls
  <1>3. EdgeInv'
    <2> SUFFICES ASSUME NEW r \in Receivers
                 PROVE  /\ IsInjective(backlog[r]) /\ IsInjective(recv_sock_array[r])
                        /\ ToSet(backlog[r]) \cap ToSet(recv_sock_array[r]) = {}
                        /\ ToSet(backlog[r]) = {}
                        /\ \A q \in Receivers : q \notin Peers(r)
      BY <1>2 DEF EdgeInv, Peers
    <2>1. ToSet(backlog[r]) \subseteq Receivers
      BY SetOfQueue DEF IInv, Types
    <2> QED BY <1>2, <2>1 DEF IInv, EdgeInv
  <1> QED BY <1>1, <1>3

LEMMA AcceptInv == ASSUME IInv, Accept PROVE IInv'
  <1> DEFINE h == Head(sender_queue)
  <1>1. /\ h \in Receivers /\ h \in ToSet(sender_queue)
        /\ h \notin ToSet(sender_sock_array)
        /\ Tail(sender_queue) \in Seq(Receivers)
        /\ IsInjective(Tail(sender_queue))
        /\ ToSet(Tail(sender_queue)) = ToSet(sender_queue) \ {h}
    BY TailQueue DEF Accept, IInv, Types, QueueInv
  <1>2. /\ Append(sender_sock_array, h) \in Seq(Receivers)
        /\ IsInjective(Append(sender_sock_array, h))
        /\ ToSet(Append(sender_sock_array, h)) = ToSet(sender_sock_array) \cup {h}
    <2>1. /\ sender_sock_array \in Seq(Receivers)
          /\ IsInjective(sender_sock_array)
      BY DEF IInv, Types, QueueInv
    <2> HIDE DEF h
    <2> QED BY <1>1, <2>1, AppendQueue
  <1>3. /\ Len(sender_sock_array) = Len(sender_list) /\ Len(sender_list) < N
        /\ sender_sock_array' = Append(sender_sock_array, h)
        /\ sender_queue' = Tail(sender_queue) /\ sender_pc' = "hello"
        /\ UNCHANGED <<sender_list, lists_sent, pc, hello, infoVars, meshVars>>
    BY DEF Accept, IInv, SenderInv
  <1> HIDE DEF h
  <1>4. Types'
    BY <1>1, <1>2, <1>3 DEF IInv, Types, infoVars, meshVars
  <1>5. SenderInv'
    <2>1. /\ sender_sock_array \in Seq(Receivers) /\ Len(sender_list) \in Nat
          /\ lists_sent \in Nat /\ N \in Nat
      BY SessionAssumption DEF IInv, Types
    <2>2. /\ Len(sender_sock_array') = Len(sender_list) + 1
          /\ \A i \in 1 .. Len(sender_list) : sender_sock_array'[i] = sender_sock_array[i]
      BY <1>1, <1>3, <2>1
    <2>3. lists_sent = 0 /\ lists_sent <= N
      BY <1>3, <2>1 DEF IInv, SenderInv, Full
    <2>4. \A i \in 1 .. Len(sender_list) : Listed(i)'
      BY <1>3, <2>2 DEF IInv, SenderInv, Listed, Dead
    <2> QED BY <1>3, <2>1, <2>2, <2>3, <2>4 DEF SenderInv
  <1>6. QueueInv'
    BY <1>1, <1>2, <1>3 DEF IInv, QueueInv
  <1>7. ~Full
    BY <1>3, SessionAssumption DEF Full
  <1>8. ReceiverInv' /\ EdgeInv'
    BY <1>3, <1>7, ListingInv
  <1> QED BY <1>4, <1>5, <1>6, <1>8 DEF IInv

LEMMA ReadHelloInv == ASSUME IInv, ReadHello PROVE IInv'
  <1>1. PICK n \in Nat : n = Len(sender_list)
    BY DEF IInv, Types
  <1>r. PICK r : r = Last(sender_sock_array)
    OBVIOUS
  <1>e. PICK e : e = [nth |-> n, adr |-> r,
                      port |-> IF r \in hello THEN Port[r] ELSE NoPort]
    OBVIOUS
  <1>2. /\ N \in Nat /\ n < N
        /\ Len(sender_sock_array) = n + 1
        /\ r = sender_sock_array[n + 1]
        /\ r \in Receivers
        /\ r \in hello \/ Dead(r)
    <2>1. /\ N \in Nat /\ n < N
          /\ Len(sender_sock_array) = n + 1
          /\ r \in hello \/ Dead(r)
      BY <1>1, <1>r, SessionAssumption DEF ReadHello, IInv, SenderInv, Types
    <2>2. r = sender_sock_array[n + 1]
      BY <1>r, <2>1 DEF Last
    <2>3. r \in Receivers
      BY <2>1, <2>2 DEF IInv, Types
    <2> QED BY <2>1, <2>2, <2>3
  <1>3. /\ sender_list' = Append(sender_list, e)
        /\ sender_pc' = IF n + 1 >= N THEN "send" ELSE "accept"
        /\ UNCHANGED <<sender_queue, sender_sock_array, lists_sent, pc,
                       hello, infoVars, meshVars>>
    BY <1>1, <1>r, <1>e DEF ReadHello, NextNumber, Enough, current_receiver_cnt
  <1>4. e \in Entries
    <2>1. Port[r] \in Nat /\ NoPort \in Nat /\ n \in 0 .. (N - 1)
      BY <1>2, SessionAssumption DEF NoPort
    <2> QED BY <1>e, <1>2, <2>1 DEF Entries
  <1>5. /\ sender_list' \in Seq(Entries) /\ Len(sender_list') = n + 1
        /\ \A i \in 1 .. n : sender_list'[i] = sender_list[i]
        /\ sender_list'[n + 1] = e
    BY <1>1, <1>3, <1>4 DEF IInv, Types
  <1>6. /\ e.nth = n /\ e.adr = r
        /\ \/ e.port = Port[r]
           \/ Dead(r) /\ e.port = NoPort
    BY <1>e, <1>2
  <1>7. Types'
    <2>1. sender_pc' \in {"accept", "send"}
      BY <1>3
    <2> QED BY <1>3, <1>5, <2>1 DEF IInv, Types, infoVars, meshVars
  <1>8. SenderInv'
    <2>1. /\ sender_pc' \in {"accept", "send"}
          /\ sender_pc' = "accept" => n + 1 < N
          /\ sender_pc' = "send" => n + 1 = N
      BY <1>2, <1>3
    <2>2. lists_sent = 0
      BY <1>1, <1>2 DEF IInv, Types, SenderInv, Full
    <2>3. \A i \in 1 .. n : Listed(i)'
      BY <1>1, <1>3, <1>5 DEF IInv, SenderInv, Listed, Dead
    <2>4. Listed(n + 1)'
      <3>1. UNCHANGED sender_sock_array /\ Dead(r)' = Dead(r)
        BY <1>3 DEF Dead
      <3> QED BY <1>2, <1>5, <1>6, <3>1 DEF Listed
    <2>5. \A i \in 1 .. (n + 1) : i \in 1 .. n \/ i = n + 1
      BY <1>2
    <2>6. \A i \in 1 .. Len(sender_list') : Listed(i)'
      BY <1>5, <2>3, <2>4, <2>5
    <2>7. (sender_pc' = "send") => Full'
      BY <1>2, <1>3, <1>5, <2>1 DEF Full
    <2>8. UNCHANGED sender_sock_array /\ lists_sent' = 0
      BY <1>3, <2>2
    <2> QED BY <1>2, <1>5, <2>1, <2>6, <2>7, <2>8 DEF SenderInv
  <1>9. QueueInv'
    BY <1>3 DEF IInv, QueueInv
  <1>10. ~Full
    BY <1>1, <1>2 DEF Full
  <1>11. ReceiverInv' /\ EdgeInv'
    BY <1>3, <1>10, ListingInv
  <1> QED BY <1>7, <1>8, <1>9, <1>11 DEF IInv

LEMMA ConnectSenderInv ==
    ASSUME IInv, NEW r \in Receivers, ConnectSender(r) PROVE IInv'
  <1>1. CASE sender_pc = "closed"
    BY <1>1, LeaveInv DEF ConnectSender
  <1>2. CASE sender_pc # "closed"
    <2>1. /\ pc[r] = "listening"
          /\ pc' = [pc EXCEPT ![r] = "connected"]
          /\ sender_queue' = Append(sender_queue, r)
          /\ UNCHANGED <<senderVars, hello, infoVars, meshVars>>
      BY <1>2 DEF ConnectSender
    <2>2. r \notin ToSet(sender_queue) \cup ToSet(sender_sock_array)
      BY <2>1 DEF IInv, QueueInv
    <2>3. /\ Append(sender_queue, r) \in Seq(Receivers)
          /\ IsInjective(Append(sender_queue, r))
          /\ ToSet(Append(sender_queue, r)) = ToSet(sender_queue) \cup {r}
      BY <2>2, AppendQueue DEF IInv, Types, QueueInv
    <2>4. /\ pc \in [Receivers -> Phases] /\ pc'[r] = "connected"
          /\ \A q \in Receivers : q # r => pc'[q] = pc[q]
          /\ pc' \in [Receivers -> Phases]
      BY <2>1 DEF IInv, Types, Phases
    <2> USE DEF senderVars, infoVars, meshVars
    <2>5. Types'
      BY <2>1, <2>3, <2>4 DEF IInv, Types
    <2>6. SenderInv'
      <3>1. \A q \in Receivers : Dead(q) => Dead(q)'
        BY <2>1, <2>4 DEF Dead
      <3>2. ASSUME NEW i \in 1 .. Len(sender_list)
            PROVE  Listed(i)'
        <4>1. Listed(i) /\ i \in 1 .. Len(sender_sock_array)
          BY ListedAccepted
        <4>2. sender_sock_array[i] \in Receivers
          BY <4>1 DEF IInv, Types
        <4> QED BY <2>1, <4>1, <4>2, <3>1 DEF Listed
      <3> QED BY <2>1, <3>2 DEF IInv, SenderInv, Full
    <2>7. QueueInv'
      <3>1. ToSet(sender_queue) \cup ToSet(sender_sock_array) \subseteq Receivers
        BY SetOfQueue DEF IInv, Types
      <3> QED BY <2>1, <2>2, <2>3, <2>4, <3>1 DEF IInv, QueueInv
    <2>8. ReceiverInv'
      <3>1. \A q \in Receivers : /\ Fresh(q) => Fresh(q)'
                                 /\ Informed(q) => Informed(q)'
        BY <2>1 DEF Fresh, Informed, Full
      <3>2. \A q \in Receivers : q # r => PastInfo(q)' = PastInfo(q)
        BY <2>1, <2>4 DEF PastInfo
      <3>3. Fresh(r)' /\ ~PastInfo(r)'
        BY <2>1, <2>4, <3>1 DEF IInv, ReceiverInv, PastInfo
      <3> QED BY <2>1, <2>4, <3>1, <3>2, <3>3 DEF IInv, ReceiverInv
    <2>9. EdgeInv'
      <3>1. UNCHANGED <<backlog, recv_sock_array>>
        BY <2>1
      <3>2. \A p, q \in Receivers : Calls(p, q)' <=> Calls(p, q)
        BY <2>1 DEF Calls
      <3>3. \A q \in Receivers : Peers(q)' = Peers(q)
        BY <3>1 DEF Peers
      <3>4. \A q \in Receivers : ToSet(backlog[q]) \subseteq Receivers
        BY SetOfQueue DEF IInv, Types
      <3> QED BY <3>1, <3>2, <3>3, <3>4 DEF IInv, EdgeInv
    <2> QED BY <2>5, <2>6, <2>7, <2>8, <2>9 DEF IInv
  <1> QED BY <1>1, <1>2

-----------------------------------------------------------------------------

\* A receiver that is sent the list stands in it, alone with its port.
LEMMA OwnPlace ==
    ASSUME IInv, DistinctPorts, NEW r \in Receivers, pc[r] = "wait_info", Served(r)
    PROVE  /\ Full
           /\ \E m \in 0 .. (N - 1) :
                /\ sender_sock_array[m + 1] = r
                /\ sender_list[m + 1].nth = m
                /\ Others(r) = (1 .. N) \ {m + 1}
  <1>1. PICK k \in 1 .. lists_sent : sender_sock_array[k] = r
    BY DEF Served
  <1>2. Full /\ lists_sent \in Nat /\ lists_sent <= N /\ N \in Nat
    BY <1>1, SessionAssumption DEF IInv, Types, SenderInv
  <1>3. /\ k \in 1 .. N /\ k - 1 \in 0 .. (N - 1) /\ (k - 1) + 1 = k
        /\ Len(sender_sock_array) = N /\ Len(sender_list) = N
    BY <1>2 DEF Full
  <1>4. \A i \in 1 .. N : /\ Listed(i) /\ sender_sock_array[i] \in Receivers
                          /\ sender_sock_array[i] = r => i = k
    <2>1. \A i \in 1 .. N : sender_sock_array[i] = r => i = k
      <3>1. DOMAIN sender_sock_array = 1 .. N
        BY <1>3 DEF IInv, Types
      <3> QED BY <1>1, <1>3, <3>1 DEF IInv, QueueInv, IsInjective
    <2> QED BY <1>3, <2>1 DEF IInv, Types, SenderInv
  <1>5. /\ sender_list[k].nth = k - 1
        /\ sender_list[k].port = Port[r]
    BY <1>1, <1>3, <1>4 DEF Listed, Dead
  <1>6. ASSUME NEW i \in 1 .. N, i # k
        PROVE  sender_list[i].port # Port[r]
    <2>1. Port[sender_sock_array[i]] # Port[r]
      BY <1>4, <1>6 DEF DistinctPorts
    <2>2. Port[r] # NoPort
      BY SessionAssumption DEF NoPort
    <2> QED BY <1>4, <2>1, <2>2 DEF Listed
  <1>7. Others(r) = (1 .. N) \ {k}
    BY <1>3, <1>5, <1>6 DEF Others, IsMine
  <1> QED BY <1>1, <1>2, <1>3, <1>5, <1>7

\* The numbers from 1 to N but one, counted off.
LEMMA CountedOff ==
    ASSUME NEW m \in 0 .. (N - 1), NEW j \in (1 .. N) \ {m + 1}
    PROVE  Cardinality(((1 .. N) \ {m + 1}) \cap (1 .. j)) =
             IF j <= m THEN j ELSE j - 1
  <1>1. N \in Nat /\ m \in Nat /\ j \in Nat /\ j \in Int /\ 1 \in Int
    BY SessionAssumption
  <1>2. IsFiniteSet(1 .. j) /\ Cardinality(1 .. j) = j
    BY <1>1, FS_Interval
  <1>3. CASE j <= m
    <2>1. ((1 .. N) \ {m + 1}) \cap (1 .. j) = 1 .. j
      BY <1>1, <1>3
    <2> QED BY <1>2, <1>3, <2>1
  <1>4. CASE ~(j <= m)
    <2>1. /\ ((1 .. N) \ {m + 1}) \cap (1 .. j) = (1 .. j) \ {m + 1}
          /\ m + 1 \in 1 .. j
      BY <1>1, <1>4
    <2>2. Cardinality((1 .. j) \ {m + 1}) = Cardinality(1 .. j) - 1
      BY <1>2, <2>1, FS_RemoveElement
    <2> QED BY <1>2, <1>4, <2>1, <2>2
  <1> QED BY <1>3, <1>4

\* What Receive_Info stores: its own number, and the list without itself.
LEMMA Stored ==
    ASSUME IInv, DistinctPorts, NEW r \in Receivers, Receive_Info(r)
    PROVE  \E m \in 0 .. (N - 1) :
             /\ Full /\ sender_sock_array[m + 1] = r
             /\ this_receiver' = [this_receiver EXCEPT ![r] = m]
             /\ conn_i' = [conn_i EXCEPT ![r] = m]
             /\ receiver_array' = [receiver_array EXCEPT ![r] =
                  [i \in 1 .. (N - 1) |-> sender_list[IF i <= m THEN i ELSE i + 1]]]
  <1>1. pc[r] = "wait_info" /\ Served(r)
    BY DEF Receive_Info
  <1>2. Full
    BY <1>1, OwnPlace
  <1>3. PICK m \in 0 .. (N - 1) :
          /\ sender_sock_array[m + 1] = r
          /\ sender_list[m + 1].nth = m
          /\ Others(r) = (1 .. N) \ {m + 1}
    BY <1>1, OwnPlace
  <1>4. N \in Nat /\ m \in Nat /\ m + 1 \in 1 .. N /\ Len(sender_list) = N
    BY <1>2, SessionAssumption DEF Full
  <1> DEFINE O == Others(r)
             mine == sender_list[Max((1 .. Len(sender_list)) \ O)]
             Other(i) == {j \in O : Cardinality(O \cap (1 .. j)) = i}
             room == [i \in 1 .. (N - 1) |->
                        IF Other(i) = {} THEN Uninitialized
                        ELSE sender_list[CHOOSE j \in Other(i) : TRUE]]
  <1>5. /\ this_receiver' = [this_receiver EXCEPT ![r] = mine.nth]
        /\ receiver_array' = [receiver_array EXCEPT ![r] = room]
        /\ conn_i' = [conn_i EXCEPT ![r] = mine.nth]
    BY DEF Receive_Info, FirstTarget
  <1>6. mine.nth = m
    <2>1. (1 .. Len(sender_list)) \ O = {m + 1}
      BY <1>3, <1>4
    <2>2. Max({m + 1}) = m + 1
      BY <1>4 DEF Max
    <2> QED BY <1>3, <2>1, <2>2
  <1>7. ASSUME NEW i \in 1 .. (N - 1)
        PROVE  Other(i) = {IF i <= m THEN i ELSE i + 1}
    <2>1. \A j \in O : /\ j \in 1 .. N /\ j # m + 1
                       /\ Cardinality(O \cap (1 .. j)) = IF j <= m THEN j ELSE j - 1
      BY <1>3, CountedOff
    <2>2. \A j \in O : Cardinality(O \cap (1 .. j)) = i
                          <=> j = (IF i <= m THEN i ELSE i + 1)
      <3> SUFFICES ASSUME NEW j \in O
                   PROVE  Cardinality(O \cap (1 .. j)) = i
                            <=> j = (IF i <= m THEN i ELSE i + 1)
        OBVIOUS
      <3>1. PICK c : c = Cardinality(O \cap (1 .. j))
        OBVIOUS
      <3>2. /\ j \in 1 .. N /\ j # m + 1
            /\ c = IF j <= m THEN j ELSE j - 1
        BY <2>1, <3>1
      <3>3. c = i <=> j = (IF i <= m THEN i ELSE i + 1)
        BY <1>4, <3>2
      <3> QED BY <3>1, <3>3
    <2>3. (IF i <= m THEN i ELSE i + 1) \in O
      BY <1>3, <1>4
    <2> QED BY <2>2, <2>3
  <1>8. room = [i \in 1 .. (N - 1) |-> sender_list[IF i <= m THEN i ELSE i + 1]]
    <2>1. ASSUME NEW i \in 1 .. (N - 1)
          PROVE  /\ Other(i) # {}
                 /\ (CHOOSE j \in Other(i) : TRUE) = (IF i <= m THEN i ELSE i + 1)
      BY <1>7
    <2> DEFINE first(i) == CHOOSE j \in Other(i) : TRUE
    <2>2. \A i \in 1 .. (N - 1) :
            (IF Other(i) = {} THEN Uninitialized ELSE sender_list[first(i)])
              = sender_list[IF i <= m THEN i ELSE i + 1]
      <3> SUFFICES ASSUME NEW i \in 1 .. (N - 1)
                   PROVE  sender_list[first(i)]
                            = sender_list[IF i <= m THEN i ELSE i + 1]
        BY <2>1
      <3> QED BY <2>1
    <2> HIDE DEF Other, first
    <2>3. room = [i \in 1 .. (N - 1) |->
                    IF Other(i) = {} THEN Uninitialized ELSE sender_list[first(i)]]
      BY DEF first
    <2> HIDE DEF room
    <2> QED BY <2>2, <2>3
  <1> HIDE DEF mine, room
  <1> QED BY <1>2, <1>3, <1>5, <1>6, <1>8

LEMMA ReceiveInfoInv ==
    ASSUME IInv, DistinctPorts, NEW r \in Receivers, Receive_Info(r) PROVE IInv'
  <1>1. PICK m \in 0 .. (N - 1) :
          /\ Full /\ sender_sock_array[m + 1] = r
          /\ this_receiver' = [this_receiver EXCEPT ![r] = m]
          /\ conn_i' = [conn_i EXCEPT ![r] = m]
          /\ receiver_array' = [receiver_array EXCEPT ![r] =
               [i \in 1 .. (N - 1) |-> sender_list[IF i <= m THEN i ELSE i + 1]]]
    BY Stored
  <1>2. /\ pc[r] = "wait_info" /\ pc' = [pc EXCEPT ![r] = "mesh"]
        /\ UNCHANGED <<senderVars, sender_queue, hello, accepted, backlog,
                       recv_sock_array>>
    BY DEF Receive_Info
  <1>3. PICK room : room =
          [i \in 1 .. (N - 1) |-> sender_list[IF i <= m THEN i ELSE i + 1]]
    OBVIOUS
  <1>4. N \in Nat \ {0} /\ m \in Nat /\ m <= N - 1 /\ Len(sender_list) = N
    BY <1>1, SessionAssumption DEF Full
  <1>5. /\ room \in Seq(Entries) /\ Len(room) = N - 1
        /\ \A i \in (m + 1) .. (N - 1) : room[i] = sender_list[i + 1]
    <2>1. \A i \in 1 .. (N - 1) :
            sender_list[IF i <= m THEN i ELSE i + 1] \in Entries
      BY <1>4 DEF IInv, Types
    <2>2. room \in [1 .. (N - 1) -> Entries]
      BY <1>3, <2>1
    <2>3. N - 1 \in Nat
      BY <1>4
    <2>4. room \in Seq(Entries) /\ Len(room) = N - 1
      BY <2>2, <2>3
    <2> QED BY <1>3, <1>4, <2>4
  <1>6. Types'
    <2>1. "mesh" \in Phases
      BY DEF Phases
    <2> QED BY <1>1, <1>2, <1>3, <1>4, <1>5, <2>1 DEF IInv, Types, senderVars
  <1>7. /\ pc'[r] = "mesh" /\ this_receiver'[r] = m /\ conn_i'[r] = m
        /\ receiver_array'[r] = room
        /\ \A q \in Receivers : q # r =>
            /\ pc'[q] = pc[q] /\ this_receiver'[q] = this_receiver[q]
            /\ conn_i'[q] = conn_i[q] /\ receiver_array'[q] = receiver_array[q]
    BY <1>1, <1>2, <1>3 DEF IInv, Types
  <1> USE DEF senderVars
  <1>8. SenderInv'
    <2>1. \A q \in Receivers : Dead(q) => Dead(q)'
      BY <1>2, <1>7 DEF Dead
    <2>2. ASSUME NEW i \in 1 .. Len(sender_list)
          PROVE  Listed(i)'
      <3>1. Listed(i) /\ i \in 1 .. Len(sender_sock_array)
        BY ListedAccepted
      <3>2. sender_sock_array[i] \in Receivers
        BY <3>1 DEF IInv, Types
      <3> QED BY <1>2, <3>1, <3>2, <2>1 DEF Listed
    <2> QED BY <1>2, <2>2 DEF IInv, SenderInv, Full
  <1>9. QueueInv'
    <2>1. ToSet(sender_queue) \cup ToSet(sender_sock_array) \subseteq Receivers
      BY SetOfQueue DEF IInv, Types
    <2> QED BY <1>2, <1>7, <2>1 DEF IInv, QueueInv
  <1>10. Fresh(r)
    BY <1>2 DEF IInv, ReceiverInv
  <1>11. ReceiverInv'
    <2>1. \A q \in Receivers : q # r => /\ Fresh(q) => Fresh(q)'
                                        /\ Informed(q) => Informed(q)'
                                        /\ PastInfo(q)' = PastInfo(q)
      BY <1>2, <1>7 DEF Fresh, Informed, Full, PastInfo
    <2>2. Len(recv_sock_array[r]) = 0
      BY <1>10 DEF Fresh
    <2>3. Informed(r)'
      BY <1>1, <1>2, <1>4, <1>5, <1>7, <1>10, <2>2 DEF Fresh, Informed, Full
    <2> QED BY <1>2, <1>7, <2>1, <2>3 DEF IInv, ReceiverInv
  <1>12. EdgeInv'
    <2>1. \A q, p \in Receivers : Calls(q, p)' = Calls(q, p)
      <3> SUFFICES ASSUME NEW q \in Receivers, NEW p \in Receivers
                   PROVE  Calls(q, p)' = Calls(q, p)
        OBVIOUS
      <3>1. CASE q = r
        <4>1. (this_receiver[r] + 2) .. (conn_i[r] + 1) = {}
          BY <1>10 DEF Fresh
        <4>2. (m + 2) .. (m + 1) = {}
          BY <1>4
        <4> QED BY <1>7, <3>1, <4>1, <4>2 DEF Calls
      <3>2. CASE q # r
        BY <1>2, <1>7, <3>2 DEF Calls
      <3> QED BY <3>1, <3>2
    <2>2. \A q \in Receivers : ToSet(backlog[q]) \subseteq Receivers
      BY SetOfQueue DEF IInv, Types
    <2> QED BY <1>2, <2>1, <2>2 DEF IInv, EdgeInv, Peers
  <1> QED BY <1>6, <1>8, <1>9, <1>11, <1>12 DEF IInv

-----------------------------------------------------------------------------

\* Whoever has called somebody knows its place, and the other stands behind it.
LEMMA Forward ==
    ASSUME IInv, NEW q \in Receivers, NEW r \in Receivers, Calls(q, r)
    PROVE  /\ Informed(q)
           /\ \E j \in (this_receiver[q] + 2) .. N :
                /\ sender_sock_array[j] = r
                /\ \A k \in 1 .. N : sender_sock_array[k] = r => k = j
  <1>1. PICK j \in (this_receiver[q] + 2) .. (conn_i[q] + 1) :
          sender_sock_array[j] = r
    BY DEF Calls
  <1>2. Informed(q)
    BY <1>1 DEF IInv, ReceiverInv, Fresh
  <1>3. /\ this_receiver[q] \in Nat /\ conn_i[q] \in Nat /\ conn_i[q] <= N - 1
        /\ N \in Nat
    BY <1>2, SessionAssumption DEF IInv, Types, Informed
  <1>4. j \in (this_receiver[q] + 2) .. N /\ j \in 1 .. N
    BY <1>3
  <1>5. DOMAIN sender_sock_array = 1 .. N
    BY <1>2 DEF Informed, Full, IInv, Types
  <1>6. \A k \in 1 .. N : sender_sock_array[k] = r => k = j
    BY <1>1, <1>4, <1>5 DEF IInv, QueueInv, IsInjective
  <1> QED BY <1>1, <1>2, <1>4, <1>6

\* Nobody calls itself, and of two only one calls the other.
LEMMA OneCalls ==
    ASSUME IInv, NEW q \in Receivers, NEW r \in Receivers, Calls(q, r)
    PROVE  q # r /\ ~Calls(r, q)
  <1>1. PICK j \in (this_receiver[q] + 2) .. N :
          /\ sender_sock_array[j] = r
          /\ \A k \in 1 .. N : sender_sock_array[k] = r => k = j
    BY Forward
  <1>2. /\ Informed(q) /\ N \in Nat
        /\ this_receiver[q] \in Nat /\ this_receiver[r] \in Nat
    BY Forward, SessionAssumption DEF IInv, Types
  <1>3. sender_sock_array[this_receiver[q] + 1] = q /\ this_receiver[q] + 1 \in 1 .. N
    BY <1>2 DEF Informed
  <1>4. q # r
    BY <1>1, <1>2, <1>3
  <1>5. ASSUME Calls(r, q) PROVE FALSE
    <2>1. PICK i \in (this_receiver[r] + 2) .. N :
            /\ sender_sock_array[i] = q
            /\ \A k \in 1 .. N : sender_sock_array[k] = q => k = i
      BY <1>5, Forward
    <2>2. Informed(r)
      BY <1>5, Forward
    <2>3. sender_sock_array[this_receiver[r] + 1] = r /\ this_receiver[r] + 1 \in 1 .. N
      BY <1>2, <2>2 DEF Informed
    <2>4. this_receiver[r] + 1 = j /\ this_receiver[q] + 1 = i
      BY <1>1, <1>3, <2>1, <2>3
    <2> QED BY <1>2, <2>4
  <1> QED BY <1>4, <1>5

\* One call: the called one, q, has r at its door and r has its socket.
LEMMA CallInv ==
    ASSUME IInv, NEW r \in Receivers, NEW q \in Receivers,
           PastInfo(r), conn_i[r] < N - 1,
           sender_sock_array[conn_i[r] + 2] = q,
           backlog' = [backlog EXCEPT ![q] = Append(@, r)],
           recv_sock_array' = [recv_sock_array EXCEPT ![r] = Append(@, q)],
           conn_i' = [conn_i EXCEPT ![r] = @ + 1],
           UNCHANGED <<senderVars, sender_queue, pc, hello, infoVars, accepted>>
    PROVE  IInv'
  <1>1. /\ Informed(r) /\ N \in Nat
        /\ conn_i[r] \in Nat /\ this_receiver[r] \in Nat /\ accepted[r] \in Nat
        /\ DOMAIN sender_sock_array = 1 .. N
        /\ this_receiver[r] <= conn_i[r]
    <2>1. Informed(r) /\ Len(sender_sock_array) = N
      BY DEF IInv, ReceiverInv, Informed, Full
    <2> QED BY <2>1, SessionAssumption DEF IInv, Types, Informed
  <1>2. \A i, j \in 1 .. N : sender_sock_array[i] = sender_sock_array[j] => i = j
    BY <1>1 DEF IInv, QueueInv, IsInjective
  <1>3. ~Calls(r, q)
    <2> SUFFICES ASSUME NEW j \in (this_receiver[r] + 2) .. (conn_i[r] + 1),
                        sender_sock_array[j] = q
                 PROVE  FALSE
      BY DEF Calls
    <2>1. j \in 1 .. N /\ conn_i[r] + 2 \in 1 .. N /\ j # conn_i[r] + 2
      BY <1>1
    <2> QED BY <1>2, <2>1
  <1>4. q # r /\ ~Calls(q, r)
    <2>1. /\ this_receiver[r] + 1 \in 1 .. N /\ conn_i[r] + 2 \in 1 .. N
          /\ sender_sock_array[this_receiver[r] + 1] = r
          /\ this_receiver[r] + 1 < conn_i[r] + 2
      <3>1. sender_sock_array[this_receiver[r] + 1] = r
        BY <1>1 DEF Informed
      <3> QED BY <1>1, <3>1
    <2>2. q # r
      BY <1>2, <2>1
    <2>3. ASSUME Calls(q, r) PROVE FALSE
      <3>1. PICK j \in (this_receiver[q] + 2) .. N : sender_sock_array[j] = r
        BY <2>3, Forward
      <3>2. Informed(q) /\ this_receiver[q] \in Nat
        BY <2>3, Forward DEF IInv, Types
      <3>3. j \in 1 .. N /\ this_receiver[q] + 1 \in 1 .. N
            /\ sender_sock_array[this_receiver[q] + 1] = q
        <4>1. this_receiver[q] < N /\ sender_sock_array[this_receiver[q] + 1] = q
          BY <3>2 DEF Informed
        <4>2. this_receiver[q] + 1 \in 1 .. N
          <5>1. \A k \in Nat : k < N => k + 1 \in 1 .. N
            BY <1>1
          <5> QED BY <3>2, <4>1, <5>1
        <4>3. j \in 1 .. N
          BY <3>1, <3>2, <1>1
        <4> QED BY <4>1, <4>2, <4>3
      <3>4. j = this_receiver[r] + 1 /\ this_receiver[q] + 1 = conn_i[r] + 2
        BY <1>2, <2>1, <3>1, <3>3
      <3> QED BY <1>1, <2>1, <3>1, <3>2, <3>4
    <2> QED BY <2>2, <2>3
  <1>5. r \notin Peers(q) /\ q \notin Peers(r)
    BY <1>3, <1>4 DEF IInv, EdgeInv
  <1>6. /\ Append(backlog[q], r) \in Seq(Receivers)
        /\ IsInjective(Append(backlog[q], r))
        /\ ToSet(Append(backlog[q], r)) = ToSet(backlog[q]) \cup {r}
    BY <1>5, AppendQueue DEF IInv, Types, EdgeInv, Peers
  <1>7. /\ Append(recv_sock_array[r], q) \in Seq(Receivers)
        /\ IsInjective(Append(recv_sock_array[r], q))
        /\ ToSet(Append(recv_sock_array[r], q)) = ToSet(recv_sock_array[r]) \cup {q}
        /\ Len(Append(recv_sock_array[r], q)) = Len(recv_sock_array[r]) + 1
    <2>1. recv_sock_array[r] \in Seq(Receivers)
      BY DEF IInv, Types
    <2>2. IsInjective(recv_sock_array[r]) /\ q \notin ToSet(recv_sock_array[r])
      BY <1>5 DEF IInv, EdgeInv, Peers
    <2> QED BY <2>1, <2>2, AppendQueue
  <1> USE DEF senderVars, infoVars
  <1>8. Types'
    <2>1. conn_i' \in [Receivers -> Nat]
      <3>1. conn_i \in [Receivers -> Nat]
        BY DEF IInv, Types
      <3>2. conn_i[r] + 1 \in Nat
        BY <1>1
      <3>3. conn_i' = [conn_i EXCEPT ![r] = conn_i[r] + 1]
        OBVIOUS
      <3> QED BY <3>1, <3>2, <3>3
    <2>2. backlog' \in [Receivers -> Seq(Receivers)]
      BY <1>6 DEF IInv, Types
    <2>3. recv_sock_array' \in [Receivers -> Seq(Receivers)]
      BY <1>7 DEF IInv, Types
    <2> QED BY <2>1, <2>2, <2>3 DEF IInv, Types
  <1>9. /\ backlog'[q] = Append(backlog[q], r)
        /\ recv_sock_array'[r] = Append(recv_sock_array[r], q)
        /\ conn_i'[r] = conn_i[r] + 1
        /\ \A p \in Receivers : p # q => backlog'[p] = backlog[p]
        /\ \A p \in Receivers : p # r => /\ recv_sock_array'[p] = recv_sock_array[p]
                                         /\ conn_i'[p] = conn_i[p]
    BY DEF IInv, Types
  <1>10. SenderInv' /\ QueueInv'
    BY DEF IInv, SenderInv, QueueInv, Listed, Full, Dead
  <1>11. ReceiverInv'
    <2>1. \A p \in Receivers : p # r => /\ Fresh(p) => Fresh(p)'
                                        /\ Informed(p) => Informed(p)'
      BY <1>9 DEF Fresh, Informed, Full
    <2>2. Informed(r)'
      <3>1. Len(recv_sock_array[r]) = accepted[r] + conn_i[r] - this_receiver[r]
        BY <1>1 DEF Informed
      <3>2. Len(recv_sock_array'[r]) = accepted[r] + conn_i'[r] - this_receiver[r]
        <4>1. Len(recv_sock_array'[r]) = Len(recv_sock_array[r]) + 1
          BY <1>7, <1>9
        <4>2. conn_i'[r] = conn_i[r] + 1
          BY <1>9
        <4>3. accepted[r] + conn_i[r] - this_receiver[r] + 1
                = accepted[r] + (conn_i[r] + 1) - this_receiver[r]
          BY <1>1
        <4> QED BY <3>1, <4>1, <4>2, <4>3
      <3>3. this_receiver[r] <= conn_i'[r] /\ conn_i'[r] <= N - 1
        BY <1>1, <1>9
      <3> QED BY <1>1, <3>2, <3>3 DEF Informed, Full
    <2>3. pc[r] = "meshed" => FALSE
      BY <1>1 DEF IInv, ReceiverInv
    <2> QED BY <1>9, <2>1, <2>2, <2>3 DEF IInv, ReceiverInv, PastInfo
  <1>12. \A x, y \in Receivers : Calls(x, y)' <=> Calls(x, y) \/ (x = r /\ y = q)
    <2> SUFFICES ASSUME NEW x \in Receivers, NEW y \in Receivers
                 PROVE  Calls(x, y)' <=> Calls(x, y) \/ (x = r /\ y = q)
      OBVIOUS
    <2>1. CASE x # r
      BY <1>9, <2>1 DEF Calls
    <2>2. CASE x = r
      <3>1. (this_receiver[r] + 2) .. (conn_i[r] + 1 + 1)
              = ((this_receiver[r] + 2) .. (conn_i[r] + 1)) \cup {conn_i[r] + 2}
        BY <1>1
      <3> QED BY <1>9, <2>2, <3>1 DEF Calls
    <2> QED BY <2>1, <2>2
  <1>13. EdgeInv'
    <2>1. \A p \in Receivers : ToSet(backlog[p]) \subseteq Receivers
      BY SetOfQueue DEF IInv, Types
    <2>2. \A p \in Receivers :
            /\ ToSet(backlog'[p]) = ToSet(backlog[p]) \cup {s \in {r} : p = q}
            /\ ToSet(recv_sock_array'[p]) =
                 ToSet(recv_sock_array[p]) \cup {s \in {q} : p = r}
      BY <1>6, <1>7, <1>9
    <2>3. \A p \in Receivers : IsInjective(backlog'[p]) /\ IsInjective(recv_sock_array'[p])
      BY <1>6, <1>7, <1>9 DEF IInv, EdgeInv
    <2>4. \A p \in Receivers : ToSet(backlog'[p]) \cap ToSet(recv_sock_array'[p]) = {}
      <3>1. \A p \in Receivers : ToSet(backlog[p]) \cap ToSet(recv_sock_array[p]) = {}
        BY DEF IInv, EdgeInv
      <3> SUFFICES ASSUME NEW p \in Receivers, NEW x \in ToSet(backlog'[p]),
                          x \in ToSet(recv_sock_array'[p])
                   PROVE  FALSE
        OBVIOUS
      <3>2. /\ x \in ToSet(backlog[p]) \/ (x = r /\ p = q)
            /\ x \in ToSet(recv_sock_array[p]) \/ (x = q /\ p = r)
        <4>1. x \in ToSet(backlog[p]) \cup {s \in {r} : p = q}
          BY <2>2
        <4>2. x \in ToSet(recv_sock_array[p]) \cup {s \in {q} : p = r}
          BY <2>2
        <4> QED BY <4>1, <4>2
      <3> QED BY <1>4, <1>5, <3>1, <3>2 DEF Peers
    <2>5. \A p \in Receivers : \A x \in ToSet(backlog'[p]) : Calls(x, p)'
      <3>1. \A p \in Receivers : \A x \in ToSet(backlog[p]) : Calls(x, p)
        BY DEF IInv, EdgeInv
      <3> SUFFICES ASSUME NEW p \in Receivers, NEW x \in ToSet(backlog'[p])
                   PROVE  Calls(x, p)'
        OBVIOUS
      <3>2. x \in ToSet(backlog[p]) \/ (x = r /\ p = q)
        BY <2>2
      <3>3. x \in Receivers
        BY <2>1, <3>2
      <3> QED BY <1>12, <3>1, <3>2, <3>3
    <2>6. \A p, x \in Receivers : x \in Peers(p)' <=> Calls(x, p)' \/ Calls(p, x)'
      <3>1. \A p, x \in Receivers : x \in Peers(p) <=> Calls(x, p) \/ Calls(p, x)
        BY DEF IInv, EdgeInv
      <3>2. \A p, x \in Receivers :
              x \in Peers(p)' <=> \/ x \in Peers(p)
                                  \/ p = q /\ x = r
                                  \/ p = r /\ x = q
        BY <2>2 DEF Peers
      <3> QED BY <1>12, <3>1, <3>2
    <2> QED BY <2>3, <2>4, <2>5, <2>6 DEF EdgeInv
  <1> QED BY <1>8, <1>10, <1>11, <1>13 DEF IInv

LEMMA ConnReceiverInv ==
    ASSUME IInv, NEW r \in Receivers, ConnReceiver(r) PROVE IInv'
  <1>1. PastInfo(r) /\ Informed(r) /\ conn_i[r] < N - 1
    BY DEF ConnReceiver, IInv, ReceiverInv, PastInfo
  <1>2. /\ conn_i[r] \in Nat /\ this_receiver[r] \in Nat /\ N \in Nat
        /\ this_receiver[r] <= conn_i[r] /\ Len(sender_list) = N
        /\ Len(sender_sock_array) = N
    BY <1>1, SessionAssumption DEF IInv, Types, Informed, Full
  <1>3. /\ conn_i[r] + 1 \in (this_receiver[r] + 1) .. (N - 1)
        /\ (conn_i[r] + 1) + 1 = conn_i[r] + 2
        /\ conn_i[r] + 2 \in 1 .. N
    BY <1>1, <1>2
  <1>4. receiver_array[r][conn_i[r] + 1] = sender_list[conn_i[r] + 2]
    BY <1>1, <1>3 DEF Informed
  <1>5. PICK q : q = receiver_array[r][conn_i[r] + 1].adr
    OBVIOUS
  <1>6. sender_sock_array[conn_i[r] + 2] = q
    BY <1>2, <1>3, <1>4, <1>5 DEF IInv, SenderInv, Listed
  <1>7. q \in Receivers
    BY <1>2, <1>3, <1>6 DEF IInv, Types
  <1>8. /\ backlog' = [backlog EXCEPT ![q] = Append(@, r)]
        /\ recv_sock_array' = [recv_sock_array EXCEPT ![r] = Append(@, q)]
        /\ conn_i' = [conn_i EXCEPT ![r] = @ + 1]
        /\ UNCHANGED <<senderVars, sender_queue, pc, hello, infoVars, accepted>>
    BY <1>5 DEF ConnReceiver
  <1> QED BY <1>1, <1>6, <1>7, <1>8, CallInv

LEMMA AccptReceiverInv ==
    ASSUME IInv, NEW r \in Receivers, AccptReceiver(r) PROVE IInv'
  <1>1. PICK h : h = Head(backlog[r])
    OBVIOUS
  <1>2. /\ pc[r] = "mesh" /\ accepted[r] < this_receiver[r] /\ backlog[r] # << >>
        /\ recv_sock_array' = [recv_sock_array EXCEPT ![r] = Append(@, h)]
        /\ backlog' = [backlog EXCEPT ![r] = Tail(@)]
        /\ accepted' = [accepted EXCEPT ![r] = @ + 1]
        /\ UNCHANGED <<senderVars, sender_queue, pc, hello, infoVars, conn_i>>
    BY <1>1 DEF AccptReceiver, MoreToAccept
  <1>3. /\ h \in Receivers /\ h \in ToSet(backlog[r])
        /\ Tail(backlog[r]) \in Seq(Receivers)
        /\ IsInjective(Tail(backlog[r]))
        /\ ToSet(Tail(backlog[r])) = ToSet(backlog[r]) \ {h}
    BY <1>1, <1>2, TailQueue DEF IInv, Types, EdgeInv
  <1>4. /\ Append(recv_sock_array[r], h) \in Seq(Receivers)
        /\ IsInjective(Append(recv_sock_array[r], h))
        /\ ToSet(Append(recv_sock_array[r], h)) = ToSet(recv_sock_array[r]) \cup {h}
        /\ Len(Append(recv_sock_array[r], h)) = Len(recv_sock_array[r]) + 1
    <2>1. recv_sock_array[r] \in Seq(Receivers)
      BY DEF IInv, Types
    <2>2. IsInjective(recv_sock_array[r]) /\ h \notin ToSet(recv_sock_array[r])
      BY <1>3 DEF IInv, EdgeInv
    <2> QED BY <1>3, <2>1, <2>2, AppendQueue
  <1> USE DEF senderVars, infoVars
  <1>5. Types'
    <2>1. accepted' \in [Receivers -> Nat]
      <3>1. accepted \in [Receivers -> Nat] /\ accepted[r] + 1 \in Nat
        BY DEF IInv, Types
      <3>2. accepted' = [accepted EXCEPT ![r] = accepted[r] + 1]
        BY <1>2
      <3> QED BY <3>1, <3>2
    <2>2. backlog' \in [Receivers -> Seq(Receivers)]
      BY <1>2, <1>3 DEF IInv, Types
    <2>3. recv_sock_array' \in [Receivers -> Seq(Receivers)]
      BY <1>2, <1>4 DEF IInv, Types
    <2> QED BY <1>2, <2>1, <2>2, <2>3 DEF IInv, Types
  <1>6. /\ backlog'[r] = Tail(backlog[r])
        /\ recv_sock_array'[r] = Append(recv_sock_array[r], h)
        /\ accepted'[r] = accepted[r] + 1
        /\ \A p \in Receivers : p # r => /\ recv_sock_array'[p] = recv_sock_array[p]
                                         /\ backlog'[p] = backlog[p]
                                         /\ accepted'[p] = accepted[p]
    BY <1>2 DEF IInv, Types
  <1>7. SenderInv' /\ QueueInv'
    BY <1>2 DEF IInv, SenderInv, QueueInv, Listed, Full, Dead
  <1>8. ReceiverInv'
    <2>1. \A p \in Receivers : p # r => /\ Fresh(p) => Fresh(p)'
                                        /\ Informed(p) => Informed(p)'
      BY <1>2, <1>6 DEF Fresh, Informed, Full
    <2>2. Informed(r) /\ accepted[r] \in Nat /\ this_receiver[r] \in Nat
          /\ conn_i[r] \in Nat
      BY <1>2 DEF IInv, Types, ReceiverInv, PastInfo
    <2>3. Informed(r)'
      <3>1. PICK a \in Nat, b \in Nat, k \in Nat, l \in Nat :
              /\ a = accepted[r] /\ b = this_receiver[r] /\ k = conn_i[r]
              /\ l = Len(recv_sock_array[r])
        BY <2>2 DEF IInv, Types
      <3>2. l = a + k - b /\ a < b
        BY <1>2, <2>2, <3>1 DEF Informed
      <3>3. l + 1 = (a + 1) + k - b /\ a + 1 <= b
        BY <3>2
      <3>4. /\ accepted'[r] = a + 1 /\ this_receiver'[r] = b /\ conn_i'[r] = k
            /\ Len(recv_sock_array'[r]) = l + 1
        BY <1>2, <1>4, <1>6, <3>1
      <3>5. UNCHANGED <<sender_sock_array, sender_list, receiver_array,
                        this_receiver, conn_i>>
        BY <1>2
      <3> QED BY <2>2, <3>1, <3>3, <3>4, <3>5 DEF Informed, Full
    <2> QED BY <1>2, <1>6, <2>1, <2>3 DEF IInv, ReceiverInv, PastInfo
  <1>9. EdgeInv'
    <2>1. \A x, y \in Receivers : Calls(x, y)' = Calls(x, y)
      BY <1>2 DEF Calls
    <2>2. \A p \in Receivers : ToSet(backlog[p]) \subseteq Receivers
      BY SetOfQueue DEF IInv, Types
    <2>3. \A p \in Receivers : Peers(p)' = Peers(p)
      BY <1>3, <1>4, <1>6 DEF Peers
    <2>4. \A p \in Receivers : IsInjective(backlog'[p]) /\ IsInjective(recv_sock_array'[p])
      BY <1>3, <1>4, <1>6 DEF IInv, EdgeInv
    <2>5. \A p \in Receivers : ToSet(backlog'[p]) \cap ToSet(recv_sock_array'[p]) = {}
      BY <1>3, <1>4, <1>6 DEF IInv, EdgeInv
    <2>6. \A p \in Receivers : ToSet(backlog'[p]) \subseteq ToSet(backlog[p])
      BY <1>3, <1>6
    <2> QED BY <2>1, <2>2, <2>3, <2>4, <2>5, <2>6 DEF IInv, EdgeInv
  <1> QED BY <1>5, <1>7, <1>8, <1>9 DEF IInv

-----------------------------------------------------------------------------

\* The inductive invariant of the session set-up.
THEOREM InvariantHolds == ASSUME DistinctPorts PROVE Spec => []IInv
  <1>1. ASSUME IInv, [Next]_vars
        PROVE  IInv'
    <2>1. CASE Sender
      BY <1>1, <2>1, AcceptInv, ReadHelloInv, SendInv DEF Sender
    <2>2. ASSUME NEW r \in Receivers, Receiver(r)
          PROVE  IInv'
      BY <1>1, <2>2, InitializeSocketInv, ConnectSenderInv, WriteHelloInv, LeaveInv,
         ReceiveInfoInv, ConnReceiverInv, AccptReceiverInv, MeshJoinedInv
      DEF Receiver, LostSender, ConnRefused, PeerReset
    <2>3. ASSUME NEW r \in Receivers, Crash(r)
          PROVE  IInv'
      BY <1>1, <2>3, LeaveInv DEF Crash
    <2>4. CASE UNCHANGED vars
      <3> USE <2>4 DEF vars, senderVars, infoVars, meshVars
      <3>1. Types' /\ SenderInv' /\ QueueInv'
        BY <1>1 DEF IInv, Types, SenderInv, QueueInv, Listed, Full, Dead
      <3>2. ReceiverInv'
        <4>1. \A r \in Receivers : /\ Fresh(r)' = Fresh(r)
                                   /\ Informed(r)' = Informed(r)
                                   /\ PastInfo(r)' = PastInfo(r)
          BY DEF Fresh, Informed, Full, PastInfo
        <4> QED BY <1>1, <4>1 DEF IInv, ReceiverInv
      <3>3. EdgeInv'
        BY <1>1 DEF IInv, EdgeInv, Calls, Peers
      <3> QED BY <3>1, <3>2, <3>3 DEF IInv
    <2> QED BY <1>1, <2>1, <2>2, <2>3, <2>4 DEF Next
  <1> QED BY InitInv, <1>1, PTL DEF Spec

-----------------------------------------------------------------------------

\* A queue without repetitions is as long as its set is large.
LEMMA CountQueue ==
    ASSUME NEW T, NEW q \in Seq(T), IsInjective(q)
    PROVE  IsFiniteSet(ToSet(q)) /\ Cardinality(ToSet(q)) = Len(q)
  <1>1. /\ Len(q) \in Nat /\ Len(q) \in Int /\ 1 \in Int
        /\ DOMAIN q = 1 .. Len(q) /\ q \in [1 .. Len(q) -> T]
    OBVIOUS
  <1>2. q \in [1 .. Len(q) -> ToSet(q)]
    BY <1>1 DEF ToSet
  <1>3. q \in Bijection(1 .. Len(q), ToSet(q))
    BY <1>1, <1>2 DEF Bijection, Injection, Surjection, IsInjective, ToSet
  <1>4. ExistsBijection(1 .. Len(q), ToSet(q))
    BY <1>3 DEF ExistsBijection
  <1>5. IsFiniteSet(1 .. Len(q)) /\ Cardinality(1 .. Len(q)) = Len(q)
    BY <1>1, FS_Interval
  <1> QED BY <1>4, <1>5, FS_Bijection

\* Two queues with nothing in common, one after the other.
LEMMA ConcatQueue ==
    ASSUME NEW T, NEW p \in Seq(T), NEW q \in Seq(T),
           IsInjective(p), IsInjective(q), ToSet(p) \cap ToSet(q) = {}
    PROVE  IsInjective(p \o q) /\ ToSet(p \o q) = ToSet(p) \cup ToSet(q)
  <1>1. PICK s : s = p \o q
    OBVIOUS
  <1>2. /\ Len(p) \in Nat /\ Len(q) \in Nat
        /\ DOMAIN p = 1 .. Len(p) /\ DOMAIN q = 1 .. Len(q)
        /\ DOMAIN s = 1 .. (Len(p) + Len(q))
        /\ \A i \in 1 .. Len(p) : s[i] = p[i]
        /\ \A i \in 1 .. Len(q) : s[Len(p) + i] = q[i]
    BY <1>1
  <1>3. ASSUME NEW i \in DOMAIN s
        PROVE  \/ i \in DOMAIN p /\ s[i] = p[i]
               \/ i - Len(p) \in DOMAIN q /\ s[i] = q[i - Len(p)]
    <2>1. CASE i <= Len(p)
      BY <1>2, <2>1
    <2>2. CASE i > Len(p)
      <3>1. i - Len(p) \in 1 .. Len(q) /\ Len(p) + (i - Len(p)) = i
        BY <1>2, <2>2
      <3> QED BY <1>2, <3>1
    <2> QED BY <1>2, <2>1, <2>2
  <1>4. ToSet(s) \subseteq ToSet(p) \cup ToSet(q)
    BY <1>3 DEF ToSet
  <1>5. ToSet(p) \cup ToSet(q) \subseteq ToSet(s)
    <2>1. \A i \in DOMAIN p : i \in DOMAIN s /\ s[i] = p[i]
      BY <1>2
    <2>2. \A i \in DOMAIN q : Len(p) + i \in DOMAIN s /\ s[Len(p) + i] = q[i]
      BY <1>2
    <2> QED BY <2>1, <2>2 DEF ToSet
  <1>6. IsInjective(s)
    <2> SUFFICES ASSUME NEW i \in DOMAIN s, NEW j \in DOMAIN s, s[i] = s[j]
                 PROVE  i = j
      BY DEF IsInjective
    <2>1. CASE i \in DOMAIN p /\ s[i] = p[i]
      <3>1. s[i] \in ToSet(p)
        BY <2>1 DEF ToSet
      <3>2. j \in DOMAIN p /\ s[j] = p[j]
        BY <1>3, <3>1 DEF ToSet
      <3> QED BY <2>1, <3>2 DEF IsInjective
    <2>2. CASE i - Len(p) \in DOMAIN q /\ s[i] = q[i - Len(p)]
      <3>1. s[i] \in ToSet(q)
        BY <2>2 DEF ToSet
      <3>2. j - Len(p) \in DOMAIN q /\ s[j] = q[j - Len(p)]
        BY <1>3, <3>1 DEF ToSet
      <3>3. i - Len(p) = j - Len(p)
        BY <2>2, <3>2 DEF IsInjective
      <3> QED BY <1>2, <3>3
    <2> QED BY <1>3, <2>1, <2>2
  <1> QED BY <1>1, <1>4, <1>5, <1>6

\* However many receivers there are and whoever is killed, each finds its own
\* number in the list (Receive_Info) and no list, index or count leaves its range.
THEOREM NumbersAgreeAlways == ASSUME DistinctPorts PROVE Spec => []NumbersAgree
  <1>1. ASSUME IInv
        PROVE  NumbersAgree
    <2>1. N \in Nat \ {0}
      BY SessionAssumption
    <2>2. ASSUME NEW r \in Receivers
          PROVE  /\ this_receiver[r] \in 0 .. (N - 1) /\ conn_i[r] \in 0 .. (N - 1)
                 /\ accepted[r] \in 0 .. (N - 1)
                 /\ Len(receiver_array[r]) \in {0, N - 1}
                 /\ Len(recv_sock_array[r]) <= N - 1
      <3>1. this_receiver[r] \in Nat /\ conn_i[r] \in Nat /\ accepted[r] \in Nat
        BY <1>1 DEF IInv, Types
      <3>2. CASE Fresh(r)
        <4>1. Len(recv_sock_array[r]) = 0 /\ Len(receiver_array[r]) = 0
          BY <3>2 DEF Fresh
        <4> QED BY <2>1, <3>2, <4>1 DEF Fresh
      <3>3. CASE Informed(r)
        <4>1. /\ this_receiver[r] < N /\ conn_i[r] <= N - 1
              /\ accepted[r] <= this_receiver[r]
              /\ Len(recv_sock_array[r]) = accepted[r] + conn_i[r] - this_receiver[r]
              /\ Len(receiver_array[r]) = N - 1
          BY <3>3 DEF Informed
        <4> QED BY <2>1, <3>1, <4>1
      <3> QED BY <1>1, <3>2, <3>3 DEF IInv, ReceiverInv
    <2>3. /\ ToSet(sender_queue) \cup ToSet(sender_sock_array) \subseteq Receivers
          /\ ToSet(sender_list) \subseteq Entries
          /\ \A r \in Receivers :
              /\ ToSet(receiver_array[r]) \subseteq Entries
              /\ ToSet(backlog[r]) \cup ToSet(recv_sock_array[r]) \subseteq Receivers
      BY <1>1, SetOfQueue DEF IInv, Types
    <2>4. /\ this_receiver \in [Receivers -> 0 .. (N - 1)]
          /\ conn_i \in [Receivers -> 0 .. (N - 1)]
          /\ accepted \in [Receivers -> 0 .. (N - 1)]
      BY <1>1, <2>2 DEF IInv, Types
    <2>5. lists_sent \in 0 .. N
      BY <1>1, <2>1 DEF IInv, Types, SenderInv
    <2>6. TypeOK
      BY <1>1, <2>2, <2>3, <2>4, <2>5 DEF IInv, Types, TypeOK, Phases
    <2> QED BY <1>1, <2>6 DEF NumbersAgree, IInv, ReceiverInv, Informed
  <1> QED BY InvariantHolds, <1>1, PTL

\* However the calls of the receivers interleave, a pair of them has one
\* connection at most, and both know of it (conn_receiver, accpt_receiver).
THEOREM PairsConnectOnceAlways ==
    ASSUME DistinctPorts PROVE Spec => []PairsConnectOnce
  <1>1. ASSUME IInv
        PROVE  PairsConnectOnce
    <2>1. ASSUME NEW r \in Receivers
          PROVE  /\ IsInjective(recv_sock_array[r] \o backlog[r])
                 /\ ToSet(recv_sock_array[r] \o backlog[r]) = Peers(r)
                 /\ Peers(r) \subseteq Receivers
      <3>1. recv_sock_array[r] \in Seq(Receivers) /\ backlog[r] \in Seq(Receivers)
        BY <1>1 DEF IInv, Types
      <3>2. /\ IsInjective(recv_sock_array[r]) /\ IsInjective(backlog[r])
            /\ ToSet(recv_sock_array[r]) \cap ToSet(backlog[r]) = {}
        BY <1>1 DEF IInv, EdgeInv
      <3> QED BY <3>1, <3>2, ConcatQueue, SetOfQueue DEF Peers
    <2>2. ASSUME NEW r \in Receivers, NEW q \in Peers(r)
          PROVE  q # r /\ r \in Peers(q)
      <3>1. q \in Receivers
        BY <2>1
      <3>2. Calls(q, r) \/ Calls(r, q)
        BY <1>1, <3>1 DEF IInv, EdgeInv
      <3>3. q # r
        BY <1>1, <3>1, <3>2, OneCalls
      <3>4. r \in Peers(q)
        BY <1>1, <3>1, <3>2 DEF IInv, EdgeInv
      <3> QED BY <3>3, <3>4
    <2> QED BY <2>1, <2>2 DEF PairsConnectOnce
  <1> QED BY InvariantHolds, <1>1, PTL

\* A receiver whose connecting and accepting threads are joined is connected to
\* all the others (Make_Connection_W_Receivers_ThreadInit).
THEOREM MeshCompleteAlways == ASSUME DistinctPorts PROVE Spec => []MeshComplete
  <1>1. ASSUME IInv, NEW r \in Receivers, pc[r] = "meshed"
        PROVE  /\ ToSet(recv_sock_array[r]) = Participants \ {r}
               /\ backlog[r] = << >>
    <2>1. /\ Informed(r) /\ conn_i[r] = N - 1 /\ accepted[r] = this_receiver[r]
          /\ N \in Nat \ {0} /\ this_receiver[r] \in Nat
          /\ sender_sock_array \in Seq(Receivers)
          /\ recv_sock_array[r] \in Seq(Receivers)
          /\ backlog[r] \in Seq(Receivers)
          /\ Len(sender_sock_array) = N
      BY <1>1, SessionAssumption
      DEF IInv, Types, ReceiverInv, PastInfo, Informed, Full
    <2>2. Len(recv_sock_array[r]) = N - 1
      BY <2>1 DEF Informed
    <2>3. IsFiniteSet(Participants) /\ Cardinality(Participants) = N
      BY <1>1, <2>1, CountQueue DEF Participants, IInv, QueueInv
    <2>4. r \in Participants
      <3>1. this_receiver[r] + 1 \in 1 .. Len(sender_sock_array)
            /\ sender_sock_array[this_receiver[r] + 1] = r
        BY <2>1 DEF Informed
      <3> QED BY <2>1, <3>1, InQueue DEF Participants
    <2>5. /\ IsFiniteSet(Participants \ {r})
          /\ Cardinality(Participants \ {r}) = N - 1
      BY <2>3, <2>4, FS_RemoveElement
    <2>6. Cardinality(ToSet(recv_sock_array[r])) = N - 1
      BY <1>1, <2>1, <2>2, CountQueue DEF IInv, EdgeInv
    <2>7. ASSUME NEW q \in Peers(r)
          PROVE  q \in Participants \ {r}
      <3>1. q \in Receivers
        BY <2>1, SetOfQueue DEF Peers
      <3>2. Calls(q, r) \/ Calls(r, q)
        BY <1>1, <3>1 DEF IInv, EdgeInv
      <3>3. q # r
        BY <1>1, <3>1, <3>2, OneCalls
      <3>4. CASE Calls(r, q)
        <4>1. PICK j \in (this_receiver[r] + 2) .. N : sender_sock_array[j] = q
          BY <1>1, <3>1, <3>4, Forward
        <4>2. j \in 1 .. Len(sender_sock_array)
          BY <2>1
        <4> QED BY <2>1, <3>3, <4>1, <4>2, InQueue DEF Participants
      <3>5. CASE Calls(q, r)
        <4>1. Informed(q) /\ this_receiver[q] \in Nat
          BY <1>1, <3>1, <3>5, Forward DEF IInv, Types
        <4>2. /\ this_receiver[q] + 1 \in 1 .. Len(sender_sock_array)
              /\ sender_sock_array[this_receiver[q] + 1] = q
          BY <2>1, <4>1 DEF Informed
        <4> QED BY <2>1, <3>3, <4>2, InQueue DEF Participants
      <3> QED BY <3>2, <3>4, <3>5
    <2>8. ToSet(recv_sock_array[r]) = Participants \ {r}
      <3>1. ToSet(recv_sock_array[r]) \in SUBSET (Participants \ {r})
        BY <2>7 DEF Peers
      <3> QED BY <2>5, <2>6, <3>1, FS_Subset
    <2>9. backlog[r] = << >>
      <3>1. ToSet(backlog[r]) = {}
        BY <1>1, <2>7, <2>8 DEF Peers, IInv, EdgeInv
      <3>2. ASSUME backlog[r] # << >> PROVE FALSE
        <4>1. 1 \in DOMAIN backlog[r]
          BY <2>1, <3>2
        <4> QED BY <3>1, <4>1 DEF ToSet
      <3> QED BY <3>2
    <2> QED BY <2>8, <2>9
  <1>2. IInv => MeshComplete
    BY <1>1 DEF MeshComplete
  <1> QED BY InvariantHolds, <1>2, PTL

=============================================================================

-------------------------- MODULE P2PReceiverProofs --------------------------
(***************************************************************************)
(* What holds of the threads of one receiver for every number of receivers *)
(* and segments.                                                           *)
(*                                                                         *)
(* The argument is in layers, each resting on the ones before.  BaseInv:   *)
(* how far each thread may be.  UpperInv: even when two threads are in a   *)
(* critical section at once, a counter never exceeds the number of its     *)
(* increments, for what is stored is one more than what was read, and the  *)
(* increments are of different segments.  ExactInv: until main waits, the  *)
(* mutex excludes and the counters are exact.  DoneInv and MeshedInv then  *)
(* say what the two signals mean.                                          *)
(***************************************************************************)
EXTENDS P2PReceiver, FiniteSetTheorems, TLAPS

Receivers == 0 .. (N - 1)

\* snd has read a segment that it has not done with yet.
SndBusy == {"lock", "store", "unlock", "flood", "flood_lock", "flood_store",
            "flood_unlock", "flood_signal"}
RcvBusy == {"lock", "store_current", "load_finished", "store_finished"}

ThreadTypes ==
    /\ mutx \in BOOLEAN
    /\ main_pc \in {"create_snd", "create_mesh", "join", "wait", "waiting",
                    "relock", "write", "exited"}
    /\ conn_pc \in {"none", "loop", "done"}
    /\ accpt_pc \in {"none", "loop", "done"}
    /\ snd_pc \in snd_labels
    /\ rcv_pc \in [Peers -> rcv_labels]
    /\ woken_for_nothing \in BOOLEAN

\* The sockets of the higher peers are those of the first connections, and
\* only a peer with a socket has a thread.
MeshBase ==
    /\ conn_i \in Me .. (N - 1)
    /\ recv_sock_array \subseteq Peers
    /\ \A q \in Peers :
        /\ q \notin recv_sock_array => rcv_pc[q] = "none" /\ rcv_cnt[q] = 0
        /\ q > Me /\ q \in recv_sock_array => q <= conn_i

\* Nobody reads more than was announced.
SndBase ==
    /\ snd_i \in 0 .. SegmentsFor(Me, S, N)
    /\ snd_pc \in SndBusy => snd_i < SegmentsFor(Me, S, N)
    /\ main_pc = "create_snd" => snd_pc = "none"

RcvBase ==
    /\ rcv_cnt \in [Peers -> Nat]
    /\ \A q \in Peers :
        /\ rcv_cnt[q] <= SegmentsFor(q, S, N)
        /\ rcv_pc[q] \in RcvBusy => rcv_cnt[q] > 0

\* What has been read is in its slot.
SlotBase ==
    /\ segment_array \subseteq Segments
    /\ \A k \in Nat :
        k < snd_i + (IF snd_pc \in SndBusy THEN 1 ELSE 0) =>
            Dealt(Me, k) \in segment_array
    /\ \A q \in Peers : \A k \in Nat :
        k < rcv_cnt[q] => Dealt(q, k) \in segment_array

BaseInv == ThreadTypes /\ MeshBase /\ SndBase /\ RcvBase /\ SlotBase

-----------------------------------------------------------------------------
(* The segments of the receivers. *)

LEMMA Numbers ==
    /\ N \in Nat \ {0} /\ S \in Nat /\ Me \in Receivers
    /\ Me \notin Peers /\ Peers \subseteq Receivers
    /\ \A i \in Receivers : i = Me \/ i \in Peers
    /\ \A i \in Receivers : SegmentsFor(i, S, N) \in Nat
  <1>1. N \in Nat \ {0} /\ S \in Nat /\ Me \in Receivers
    BY ConstantsAssumption DEF Receivers
  <1>2. S \div N \in Nat /\ S % N \in Nat
    BY <1>1
  <1>3. \A i \in Receivers : SegmentsFor(i, S, N) \in Nat
    BY <1>2 DEF SegmentsFor
  <1> QED BY <1>1, <1>3 DEF Peers, Receivers

LEMMA Products ==
    ASSUME NEW a \in Nat, NEW b \in Nat, NEW c \in Nat, a < b
    PROVE  a * c + c <= b * c
  <1>1. PICK d \in Nat : b = a + 1 + d
    BY b - a - 1 \in Nat, b = a + 1 + (b - a - 1)
  <1>2. b * c = a * c + c + d * c
    BY <1>1
  <1>3. d * c \in Nat /\ a * c \in Nat
    BY <1>1
  <1> QED BY <1>2, <1>3

\* The deal gives each receiver segments of the file ...
LEMMA DealtIsSegment ==
    ASSUME NEW i \in Receivers, NEW k \in Nat, k < SegmentsFor(i, S, N)
    PROVE  Dealt(i, k) \in Segments
  <1> DEFINE d == S \div N
             m == S % N
  <1>1. /\ N \in Nat \ {0} /\ S \in Nat /\ i \in 0 .. (N - 1)
        /\ d \in Nat /\ m \in 0 .. (N - 1)
        /\ S = m + d * N
    BY Numbers DEF Receivers
  <1>2. k < d + (IF i < m THEN 1 ELSE 0)
    BY DEF SegmentsFor
  <1> HIDE DEF d, m
  <1>3. CASE k < d
    <2>1. k * N + N <= d * N /\ k * N \in Nat /\ d * N \in Nat
      BY <1>1, <1>3, Products
    <2> QED BY <1>1, <2>1 DEF Dealt, Segments
  <1>4. CASE k = d /\ i < m
    <2>1. k * N = d * N /\ k * N \in Nat
      BY <1>1, <1>4
    <2> QED BY <1>1, <1>4, <2>1 DEF Dealt, Segments
  <1> QED BY <1>1, <1>2, <1>3, <1>4

\* ... and no segment to two of them, nor twice to one.
LEMMA DealtOnce ==
    ASSUME NEW i \in Receivers, NEW j \in Receivers, NEW k \in Nat, NEW l \in Nat,
           Dealt(i, k) = Dealt(j, l)
    PROVE  i = j /\ k = l
  <1>1. /\ N \in Nat \ {0} /\ i \in 0 .. (N - 1) /\ j \in 0 .. (N - 1)
        /\ k * N \in Nat /\ l * N \in Nat
        /\ i + k * N = j + l * N
    BY Numbers DEF Receivers, Dealt
  <1>2. ~(k < l)
    <2>1. ASSUME k < l PROVE k * N + N <= l * N
      BY <1>1, <2>1, Products
    <2> QED BY <1>1, <2>1
  <1>3. ~(l < k)
    <2>1. ASSUME l < k PROVE l * N + N <= k * N
      BY <1>1, <2>1, Products
    <2> QED BY <1>1, <2>1
  <1>4. k = l
    BY <1>2, <1>3
  <1> QED BY <1>1, <1>4

-----------------------------------------------------------------------------
(* Counting segments. *)

\* As many segments of each receiver as f says, and no more than there are.
Within(f) ==
    /\ f \in [Receivers -> Nat]
    /\ \A i \in Receivers : f[i] <= SegmentsFor(i, S, N)

LEMMA CountedMember ==
    ASSUME NEW f \in [Receivers -> Nat], NEW i \in Receivers, NEW k \in Nat
    PROVE  Dealt(i, k) \in Counted(f) <=> k < f[i]
  <1>1. ASSUME k < f[i]
        PROVE  Dealt(i, k) \in Counted(f)
    <2>1. k \in 0 .. (f[i] - 1)
      BY <1>1
    <2> QED BY <2>1 DEF Counted, Receivers
  <1>2. ASSUME Dealt(i, k) \in Counted(f)
        PROVE  k < f[i]
    <2>1. PICK j \in Receivers : \E l \in 0 .. (f[j] - 1) : Dealt(i, k) = Dealt(j, l)
      BY <1>2 DEF Counted, Receivers
    <2>2. PICK l \in 0 .. (f[j] - 1) : Dealt(i, k) = Dealt(j, l)
      BY <2>1
    <2>3. i = j /\ k = l
      BY <2>2, DealtOnce, l \in Nat
    <2> QED BY <2>2, <2>3
  <1> QED BY <1>1, <1>2

LEMMA CountedBound ==
    ASSUME NEW f, Within(f)
    PROVE  /\ Counted(f) \subseteq Segments
           /\ IsFiniteSet(Counted(f))
           /\ Cardinality(Counted(f)) \in 0 .. S
           /\ Cardinality(Counted(f)) = S => Counted(f) = Segments
  <1>1. IsFiniteSet(Segments) /\ Cardinality(Segments) = S
    <2>1. 0 \in Int /\ S - 1 \in Int /\ S \in Nat
      BY Numbers
    <2>2. /\ IsFiniteSet(0 .. (S - 1))
          /\ Cardinality(0 .. (S - 1)) = IF 0 > S - 1 THEN 0 ELSE (S - 1) - 0 + 1
      BY <2>1, FS_Interval
    <2> QED BY <2>1, <2>2 DEF Segments
  <1>2. Counted(f) \subseteq Segments
    <2> SUFFICES ASSUME NEW i \in Receivers, NEW k \in 0 .. (f[i] - 1)
                 PROVE  Dealt(i, k) \in Segments
      BY DEF Counted, Receivers
    <2>1. /\ f[i] \in Nat /\ f[i] <= SegmentsFor(i, S, N)
          /\ SegmentsFor(i, S, N) \in Nat
      BY Numbers DEF Within
    <2>2. k \in Nat /\ k < SegmentsFor(i, S, N)
      BY <2>1
    <2> QED BY <2>2, DealtIsSegment
  <1>3. /\ IsFiniteSet(Counted(f))
        /\ Cardinality(Counted(f)) <= S
        /\ Cardinality(Counted(f)) = S => Counted(f) = Segments
    BY <1>1, <1>2, FS_Subset
  <1>4. Cardinality(Counted(f)) \in Nat
    BY <1>3, FS_CardinalityType
  <1> QED BY <1>2, <1>3, <1>4, Numbers

\* One more of receiver i is one more in all.
LEMMA CountedGrows ==
    ASSUME NEW f, NEW i \in Receivers, Within(f), Within([f EXCEPT ![i] = @ + 1])
    PROVE  /\ Cardinality(Counted([f EXCEPT ![i] = @ + 1])) =
                Cardinality(Counted(f)) + 1
           /\ Cardinality(Counted(f)) + 1 \in 0 .. S
  <1> DEFINE g == [f EXCEPT ![i] = @ + 1]
             new == Dealt(i, f[i])
  <1>1. /\ f \in [Receivers -> Nat] /\ g \in [Receivers -> Nat]
        /\ g[i] = f[i] + 1 /\ \A j \in Receivers : j # i => g[j] = f[j]
        /\ Within(g)
    BY DEF Within
  <1> HIDE DEF g
  <1>2. new \notin Counted(f)
    BY <1>1, CountedMember
  <1>3. Counted(g) = Counted(f) \cup {new}
    <2>1. ASSUME NEW j \in Receivers, NEW k \in 0 .. (g[j] - 1)
          PROVE  Dealt(j, k) \in Counted(f) \cup {new}
      <3>1. CASE j = i /\ k = f[i]
        BY <3>1
      <3>2. CASE ~(j = i /\ k = f[i])
        <4>1. k \in Nat /\ k < f[j] /\ f[j] \in Nat
          BY <1>1, <3>2
        <4> QED BY <4>1, <1>1, CountedMember
      <3> QED BY <3>1, <3>2
    <2>2. ASSUME NEW j \in Receivers, NEW k \in 0 .. (f[j] - 1)
          PROVE  Dealt(j, k) \in Counted(g)
      <3>1. k \in Nat /\ k < g[j] /\ g[j] \in Nat
        BY <1>1
      <3> QED BY <3>1, <1>1, CountedMember
    <2>3. new \in Counted(g)
      <3>1. f[i] \in Nat /\ f[i] < g[i]
        BY <1>1
      <3> QED BY <3>1, <1>1, CountedMember
    <2>4. Counted(g) \subseteq Counted(f) \cup {new}
      BY <2>1 DEF Counted, Receivers
    <2>5. Counted(f) \subseteq Counted(g)
      BY <2>2 DEF Counted, Receivers
    <2> QED BY <2>3, <2>4, <2>5
  <1>4. IsFiniteSet(Counted(f)) /\ Cardinality(Counted(g)) \in 0 .. S
    BY <1>1, CountedBound
  <1>5. Cardinality(Counted(g)) = Cardinality(Counted(f)) + 1
    BY <1>2, <1>3, <1>4, FS_AddElement
  <1> QED BY <1>4, <1>5 DEF g

-----------------------------------------------------------------------------
(* How far the threads are. *)

LEMMA InitBase == ASSUME Init PROVE BaseInv
  <1>1. ThreadTypes
    BY DEF Init, ThreadTypes, snd_labels, rcv_labels
  <1>2. MeshBase
    BY Numbers DEF Init, MeshBase, Receivers
  <1>3. SndBase
    BY Numbers DEF Init, SndBase, SndBusy
  <1>4. RcvBase
    BY Numbers DEF Init, RcvBase, RcvBusy
  <1>5. SlotBase
    BY DEF Init, SlotBase, SndBusy
  <1> QED BY <1>1, <1>2, <1>3, <1>4, <1>5 DEF BaseInv

\* The actions of main and of the mesh do not read segments.
LEMMA MainKeepsBase == ASSUME BaseInv, Main \/ SpuriousFinish PROVE BaseInv'
  <1> USE DEF connVars, sndVars, rcvVars, counters
  <1>1. ThreadTypes'
    BY DEF BaseInv, ThreadTypes, Main, SpuriousFinish, snd_labels,
       Receive_Segment_From_Sender_ThreadInit,
       Make_Connection_W_Receivers_ThreadInit, JoinMesh, WaitFinish,
       WokenFinish, WriteFileAndExit
  <1>2. MeshBase' /\ RcvBase'
    BY DEF BaseInv, MeshBase, RcvBase, Main, SpuriousFinish,
       Receive_Segment_From_Sender_ThreadInit,
       Make_Connection_W_Receivers_ThreadInit, JoinMesh, WaitFinish,
       WokenFinish, WriteFileAndExit
  <1>3. SndBase' /\ SlotBase'
    BY DEF BaseInv, SndBase, SlotBase, SndBusy, Main, SpuriousFinish,
       Receive_Segment_From_Sender_ThreadInit,
       Make_Connection_W_Receivers_ThreadInit, JoinMesh, WaitFinish,
       WokenFinish, WriteFileAndExit
  <1> QED BY <1>1, <1>2, <1>3 DEF BaseInv

LEMMA SavePeerKeepsBase ==
    ASSUME BaseInv, NEW q \in Peers, SavePeer(q), q \notin recv_sock_array,
           conn_i' \in Me .. (N - 1), conn_i <= conn_i', q > Me => q <= conn_i',
           conn_pc' = conn_pc, accpt_pc' = accpt_pc
    PROVE  BaseInv'
  <1> USE DEF sndVars, counters
  <1>1. q \in Receivers /\ conn_i \in Int /\ conn_i' \in Int
    BY Numbers DEF BaseInv, MeshBase, Receivers
  <1>2. ThreadTypes'
    BY DEF BaseInv, ThreadTypes, SavePeer, rcv_labels
  <1>3. MeshBase'
    <2>1. \A p \in Peers : p \in Int
      BY Numbers DEF Receivers
    <2>2. Me \in Int
      BY Numbers DEF Receivers
    <2> QED BY <1>1, <2>1, <2>2 DEF BaseInv, MeshBase, ThreadTypes, SavePeer
  <1>4. SndBase' /\ RcvBase' /\ SlotBase'
    BY DEF BaseInv, SndBase, RcvBase, SlotBase, ThreadTypes, SavePeer, SndBusy,
           RcvBusy
  <1> QED BY <1>2, <1>3, <1>4 DEF BaseInv

LEMMA MeshKeepsBase ==
    ASSUME BaseInv, conn_receiver \/ accpt_receiver
    PROVE  BaseInv'
  <1>1. /\ N \in Int /\ Me \in 0 .. (N - 1) /\ conn_i \in Me .. (N - 1)
        /\ \A q \in Peers : q \in Int
    BY Numbers DEF BaseInv, MeshBase, Receivers
  <1>2. CASE Connect
    <2>1. /\ conn_i + 1 \in Peers /\ conn_i + 1 \notin recv_sock_array
          /\ conn_i' \in Me .. (N - 1) /\ conn_i <= conn_i'
          /\ conn_i + 1 > Me /\ conn_i + 1 <= conn_i'
      BY <1>1, <1>2 DEF Connect, MoreToConnect, receiver_MAX, Peers, BaseInv,
                        MeshBase
    <2> QED BY <1>2, <2>1, SavePeerKeepsBase DEF Connect
  <1>3. CASE Accept
    <2>1. PICK q \in Peers \ recv_sock_array : q < Me /\ SavePeer(q)
      BY <1>3 DEF Accept
    <2>2. ~(q > Me) /\ conn_i <= conn_i
      BY <1>1, <2>1
    <2> QED BY <1>1, <1>3, <2>1, <2>2, SavePeerKeepsBase DEF Accept
  <1>4. CASE ConnDone \/ AccptDone
    <2> USE <1>4 DEF ConnDone, AccptDone, SignalCond, rcvVars, counters
    <2>1. ThreadTypes'
      BY DEF BaseInv, ThreadTypes, snd_labels
    <2>2. MeshBase' /\ RcvBase'
      BY DEF BaseInv, MeshBase, RcvBase
    <2>3. SndBase' /\ SlotBase'
      BY DEF BaseInv, SndBase, SlotBase, SndBusy
    <2> QED BY <2>1, <2>2, <2>3 DEF BaseInv
  <1> QED BY <1>2, <1>3, <1>4 DEF conn_receiver, accpt_receiver

LEMMA SndKeepsBase ==
    ASSUME BaseInv, accpt_snd_seg \/ SpuriousCond
    PROVE  BaseInv'
  <1> USE DEF connVars, rcvVars, counters
  <1>1. /\ SegmentsFor(Me, S, N) \in Nat /\ snd_i \in 0 .. SegmentsFor(Me, S, N)
        /\ Me \in Receivers
    BY Numbers DEF BaseInv, SndBase
  <1>2. CASE SndRead
    <2> USE <1>2 DEF SndRead
    <2>1. ThreadTypes' /\ MeshBase' /\ RcvBase'
      BY DEF BaseInv, ThreadTypes, MeshBase, RcvBase, snd_labels
    <2>2. SndBase'
      BY <1>1 DEF BaseInv, SndBase, SndBusy
    <2>3. SlotBase'
      <3>1. Dealt(Me, snd_i) \in Segments
        BY <1>1, DealtIsSegment
      <3>2. \A k \in Nat : k < snd_i' + 1 => k < snd_i \/ k = snd_i
        BY <1>1
      <3>3. \A k \in Nat : k < snd_i => Dealt(Me, k) \in segment_array
        BY <1>1 DEF BaseInv, SlotBase, SndBusy
      <3> QED BY <3>1, <3>2, <3>3 DEF BaseInv, SlotBase, SndBusy
    <2> QED BY <2>1, <2>2, <2>3 DEF BaseInv
  <1>3. CASE FloodSignal
    <2> USE <1>3 DEF FloodSignal, SignalFinish
    <2>1. ThreadTypes' /\ MeshBase' /\ RcvBase'
      BY DEF BaseInv, ThreadTypes, MeshBase, RcvBase, snd_labels
    <2>2. SndBase'
      BY <1>1 DEF BaseInv, SndBase, SndBusy
    <2>3. SlotBase'
      BY <1>1 DEF BaseInv, SlotBase, SndBusy
    <2> QED BY <2>1, <2>2, <2>3 DEF BaseInv
  <1>4. CASE \/ WaitCond \/ SpuriousCond \/ WokenCond \/ SndLock \/ SndStore
             \/ SndUnlock \/ FloodWrite \/ FloodLock \/ FloodStore \/ FloodUnlock
    <2> USE <1>4 DEF WaitCond, SpuriousCond, WokenCond, SndLock, SndStore,
                     SndUnlock, FloodWrite, FloodLock, FloodStore, FloodUnlock
    <2>1. ThreadTypes'
      BY DEF BaseInv, ThreadTypes, snd_labels
    <2>2. MeshBase' /\ RcvBase'
      BY DEF BaseInv, MeshBase, RcvBase
    <2>3. SndBase'
      BY DEF BaseInv, SndBase, SndBusy
    <2>4. SlotBase'
      BY DEF BaseInv, SlotBase, SndBusy
    <2> QED BY <2>1, <2>2, <2>3, <2>4 DEF BaseInv
  <1> QED BY <1>2, <1>3, <1>4 DEF accpt_snd_seg

LEMMA RcvKeepsBase ==
    ASSUME BaseInv, NEW q \in Peers, accpt_rcv_seg(q) \/ RcvEof(q)
    PROVE  BaseInv'
  <1> USE DEF connVars, sndVars, counters, RcvGoto
  <1>1. /\ q \in Receivers /\ SegmentsFor(q, S, N) \in Nat /\ rcv_cnt[q] \in Nat
        /\ rcv_cnt[q] <= SegmentsFor(q, S, N)
        /\ rcv_pc[q] # "none" => q \in recv_sock_array
    BY Numbers DEF BaseInv, RcvBase, MeshBase
  <1>2. CASE RcvRead(q)
    <2> USE <1>2 DEF RcvRead
    <2>1. ThreadTypes' /\ SndBase'
      BY DEF BaseInv, ThreadTypes, SndBase, rcv_labels, SndBusy
    <2>2. MeshBase'
      BY <1>1 DEF BaseInv, MeshBase, ThreadTypes, RcvBase
    <2>3. RcvBase'
      BY <1>1 DEF BaseInv, RcvBase, ThreadTypes, RcvBusy
    <2>4. SlotBase'
      <3>1. Dealt(q, rcv_cnt[q]) \in Segments
        BY <1>1, DealtIsSegment
      <3>2. \A k \in Nat : k < rcv_cnt[q] + 1 => k < rcv_cnt[q] \/ k = rcv_cnt[q]
        BY <1>1
      <3>3. \A p \in Peers : rcv_cnt'[p] =
                IF p = q THEN rcv_cnt[q] + 1 ELSE rcv_cnt[p]
        BY DEF BaseInv, RcvBase
      <3> QED BY <3>1, <3>2, <3>3 DEF BaseInv, SlotBase
    <2> QED BY <2>1, <2>2, <2>3, <2>4 DEF BaseInv
  <1>3. CASE \/ RcvLock(q) \/ RcvStoreCurrent(q) \/ RcvLoadFinished(q)
             \/ RcvStoreFinished(q) \/ RcvUnlock(q) \/ RcvCheck(q) \/ RcvEof(q)
             \/ RcvSignal(q)
    <2> USE <1>3 DEF RcvLock, RcvStoreCurrent, RcvLoadFinished,
                     RcvStoreFinished, RcvUnlock, RcvCheck, RcvEof, RcvSignal,
                     SignalFinish
    <2>1. ThreadTypes'
      BY DEF BaseInv, ThreadTypes, rcv_labels
    <2>2. MeshBase'
      BY <1>1 DEF BaseInv, MeshBase, ThreadTypes
    <2>3. RcvBase'
      BY DEF BaseInv, RcvBase, ThreadTypes, RcvBusy
    <2>4. SndBase' /\ SlotBase'
      BY DEF BaseInv, SndBase, SlotBase, SndBusy
    <2> QED BY <2>1, <2>2, <2>3, <2>4 DEF BaseInv
  <1> QED BY <1>2, <1>3 DEF accpt_rcv_seg

LEMMA StepKeepsBase == ASSUME BaseInv, [Next]_vars PROVE BaseInv'
  <1>1. CASE UNCHANGED vars
    BY <1>1 DEF vars, connVars, sndVars, rcvVars, counters, BaseInv, ThreadTypes,
                MeshBase, SndBase, RcvBase, SlotBase
  <1> QED BY <1>1, MainKeepsBase, MeshKeepsBase, SndKeepsBase, RcvKeepsBase
          DEF Next, Environment

LEMMA BaseHolds == Spec => []BaseInv
  BY InitBase, StepKeepsBase, PTL DEF Spec

-----------------------------------------------------------------------------
(* What the threads have counted. *)

LEMMA Counts ==
    ASSUME BaseInv
    PROVE  /\ Within(CurrentOf) /\ Within(FinishedOf)
           /\ CurrentIncrements \in 0 .. S /\ FinishedIncrements \in 0 .. S
  <1>1. /\ snd_i \in 0 .. SegmentsFor(Me, S, N)
        /\ snd_pc \in SndBusy => snd_i < SegmentsFor(Me, S, N)
        /\ \A q \in Peers : /\ rcv_cnt[q] \in Nat
                            /\ rcv_cnt[q] <= SegmentsFor(q, S, N)
                            /\ rcv_pc[q] \in RcvBusy => rcv_cnt[q] > 0
    BY DEF BaseInv, SndBase, RcvBase
  <1>2. /\ CurrentOf = [i \in Receivers |-> CurrentOf[i]]
        /\ \A i \in Receivers : /\ CurrentOf[i] \in Nat
                                /\ CurrentOf[i] <= SegmentsFor(i, S, N)
    BY <1>1, Numbers DEF CurrentOf, Receivers, SndBusy, RcvBusy
  <1>3. /\ FinishedOf = [i \in Receivers |-> FinishedOf[i]]
        /\ \A i \in Receivers : /\ FinishedOf[i] \in Nat
                                /\ FinishedOf[i] <= SegmentsFor(i, S, N)
    BY <1>1, Numbers DEF FinishedOf, Receivers, SndBusy, RcvBusy
  <1>4. Within(CurrentOf) /\ Within(FinishedOf)
    BY <1>2, <1>3 DEF Within
  <1> QED BY <1>4, CountedBound DEF CurrentIncrements, FinishedIncrements

LEMMA CountsWithin == BaseInv => Within(CurrentOf) /\ Within(FinishedOf)
  BY Counts

LEMMA CountsWithinNext == BaseInv' => Within(CurrentOf)' /\ Within(FinishedOf)'
  BY CountsWithin, PTL

LEMMA OneMore ==
    ASSUME NEW f \in [Receivers -> Nat], NEW g \in [Receivers -> Nat],
           NEW i \in Receivers, g[i] = f[i] + 1,
           \A j \in Receivers \ {i} : g[j] = f[j]
    PROVE  g = [f EXCEPT ![i] = @ + 1]
  OBVIOUS

\* A store of one counter counts one more segment there, and only there.
LEMMA CurrentGrows ==
    ASSUME BaseInv, BaseInv', NEW i \in Receivers,
           CurrentOf' = [CurrentOf EXCEPT ![i] = @ + 1], FinishedOf' = FinishedOf
    PROVE  /\ CurrentIncrements' = CurrentIncrements + 1
           /\ FinishedIncrements' = FinishedIncrements
           /\ CurrentIncrements + 1 \in 0 .. S
  <1>1. Within(CurrentOf)
    BY Counts
  <1>2. Within(CurrentOf')
    BY CountsWithinNext DEF Within
  <1>3. Within([CurrentOf EXCEPT ![i] = @ + 1])
    BY <1>2
  <1> QED BY <1>1, <1>3, CountedGrows DEF CurrentIncrements, FinishedIncrements

LEMMA FinishedGrows ==
    ASSUME BaseInv, BaseInv', NEW i \in Receivers,
           FinishedOf' = [FinishedOf EXCEPT ![i] = @ + 1], CurrentOf' = CurrentOf
    PROVE  /\ FinishedIncrements' = FinishedIncrements + 1
           /\ CurrentIncrements' = CurrentIncrements
           /\ FinishedIncrements + 1 \in 0 .. S
  <1>1. Within(FinishedOf)
    BY Counts
  <1>2. Within(FinishedOf')
    BY CountsWithinNext DEF Within
  <1>3. Within([FinishedOf EXCEPT ![i] = @ + 1])
    BY <1>2
  <1> QED BY <1>1, <1>3, CountedGrows DEF CurrentIncrements, FinishedIncrements

LEMMA SndCounts ==
    ASSUME BaseInv, BaseInv', accpt_snd_seg \/ SpuriousCond
    PROVE  /\ SndStore =>
                /\ CurrentIncrements' = CurrentIncrements + 1
                /\ FinishedIncrements' = FinishedIncrements
                /\ CurrentIncrements + 1 \in 0 .. S
           /\ FloodStore =>
                /\ FinishedIncrements' = FinishedIncrements + 1
                /\ CurrentIncrements' = CurrentIncrements
                /\ FinishedIncrements + 1 \in 0 .. S
           /\ ~SndStore /\ ~FloodStore =>
                /\ CurrentIncrements' = CurrentIncrements
                /\ FinishedIncrements' = FinishedIncrements
  <1>1. snd_i \in Nat /\ Me \in Receivers
    BY Numbers DEF BaseInv, SndBase
  <1>w. /\ Within(CurrentOf) /\ Within(FinishedOf)
        /\ Within(CurrentOf') /\ Within(FinishedOf')
    BY CountsWithin, CountsWithinNext DEF Within
  <1>2. ASSUME SndStore
        PROVE  /\ CurrentOf' = [CurrentOf EXCEPT ![Me] = @ + 1]
               /\ FinishedOf' = FinishedOf
    <2>1. FinishedOf' = FinishedOf
      BY <1>2 DEF SndStore, FinishedOf, rcvVars
    <2>2. /\ CurrentOf'[Me] = CurrentOf[Me] + 1
          /\ \A i \in Receivers \ {Me} : CurrentOf'[i] = CurrentOf[i]
      BY <1>1, <1>2 DEF SndStore, CurrentOf, Receivers, rcvVars
    <2> QED BY <1>1, <1>w, <2>1, <2>2, OneMore DEF Within
  <1>3. ASSUME FloodStore
        PROVE  /\ FinishedOf' = [FinishedOf EXCEPT ![Me] = @ + 1]
               /\ CurrentOf' = CurrentOf
    <2>1. CurrentOf' = CurrentOf
      BY <1>3 DEF FloodStore, CurrentOf, rcvVars
    <2>2. /\ FinishedOf'[Me] = FinishedOf[Me] + 1
          /\ \A i \in Receivers \ {Me} : FinishedOf'[i] = FinishedOf[i]
      BY <1>1, <1>3 DEF FloodStore, FinishedOf, Receivers, rcvVars
    <2> QED BY <1>1, <1>w, <2>1, <2>2, OneMore DEF Within
  <1>4. ASSUME ~SndStore, ~FloodStore
        PROVE  CurrentOf' = CurrentOf /\ FinishedOf' = FinishedOf
    <2>1. UNCHANGED <<rcv_pc, rcv_cnt>>
      BY <1>4 DEF accpt_snd_seg, SpuriousCond, WaitCond, WokenCond, SndRead,
                  SndLock, SndUnlock, FloodWrite, FloodLock, FloodUnlock,
                  FloodSignal, rcvVars
    <2>2. snd_i' + (IF snd_pc' \in {"unlock", "flood", "flood_lock",
                        "flood_store", "flood_unlock", "flood_signal"}
                    THEN 1 ELSE 0) =
          snd_i + (IF snd_pc \in {"unlock", "flood", "flood_lock",
                        "flood_store", "flood_unlock", "flood_signal"}
                   THEN 1 ELSE 0)
      BY <1>1, <1>4 DEF accpt_snd_seg, SpuriousCond, WaitCond, WokenCond, SndRead,
                  SndLock, SndUnlock, FloodWrite, FloodLock, FloodUnlock,
                  FloodSignal
    <2>3. snd_i' + (IF snd_pc' \in {"flood_unlock", "flood_signal"}
                    THEN 1 ELSE 0) =
          snd_i + (IF snd_pc \in {"flood_unlock", "flood_signal"}
                   THEN 1 ELSE 0)
      BY <1>1, <1>4 DEF accpt_snd_seg, SpuriousCond, WaitCond, WokenCond, SndRead,
                  SndLock, SndUnlock, FloodWrite, FloodLock, FloodUnlock,
                  FloodSignal
    <2> QED BY <2>1, <2>2, <2>3 DEF CurrentOf, FinishedOf
  <1> QED BY <1>1, <1>2, <1>3, <1>4, CurrentGrows, FinishedGrows
          DEF CurrentIncrements, FinishedIncrements

LEMMA RcvCounts ==
    ASSUME BaseInv, BaseInv', NEW q \in Peers, accpt_rcv_seg(q) \/ RcvEof(q)
    PROVE  /\ RcvStoreCurrent(q) =>
                /\ CurrentIncrements' = CurrentIncrements + 1
                /\ FinishedIncrements' = FinishedIncrements
                /\ CurrentIncrements + 1 \in 0 .. S
           /\ RcvStoreFinished(q) =>
                /\ FinishedIncrements' = FinishedIncrements + 1
                /\ CurrentIncrements' = CurrentIncrements
                /\ FinishedIncrements + 1 \in 0 .. S
           /\ ~RcvStoreCurrent(q) /\ ~RcvStoreFinished(q) =>
                /\ CurrentIncrements' = CurrentIncrements
                /\ FinishedIncrements' = FinishedIncrements
  <1>1. /\ q \in Receivers /\ q # Me
        /\ \A p \in Peers : rcv_cnt[p] \in Nat
        /\ rcv_pc \in [Peers -> rcv_labels]
        /\ rcv_cnt \in [Peers -> Nat]
        /\ \A i \in Receivers : i = Me \/ i \in Peers
    BY Numbers DEF BaseInv, RcvBase, ThreadTypes
  <1>w. /\ Within(CurrentOf) /\ Within(FinishedOf)
        /\ Within(CurrentOf') /\ Within(FinishedOf')
    BY CountsWithin, CountsWithinNext DEF Within
  <1>2. ASSUME RcvStoreCurrent(q)
        PROVE  /\ CurrentOf' = [CurrentOf EXCEPT ![q] = @ + 1]
               /\ FinishedOf' = FinishedOf
    <2>1. /\ rcv_pc[q] = "store_current" /\ rcv_pc'[q] = "load_finished"
          /\ \A p \in Peers \ {q} : rcv_pc'[p] = rcv_pc[p]
          /\ UNCHANGED <<rcv_cnt, snd_pc, snd_i>>
      BY <1>1, <1>2 DEF RcvStoreCurrent, RcvGoto, sndVars
    <2>2. FinishedOf' = FinishedOf
      BY <1>1, <2>1 DEF FinishedOf, Receivers
    <2>3. /\ CurrentOf'[q] = CurrentOf[q] + 1
          /\ \A i \in Receivers \ {q} : CurrentOf'[i] = CurrentOf[i]
      BY <1>1, <2>1 DEF CurrentOf, Receivers
    <2> QED BY <1>1, <1>w, <2>2, <2>3, OneMore DEF Within
  <1>3. ASSUME RcvStoreFinished(q)
        PROVE  /\ FinishedOf' = [FinishedOf EXCEPT ![q] = @ + 1]
               /\ CurrentOf' = CurrentOf
    <2>1. /\ rcv_pc[q] = "store_finished" /\ rcv_pc'[q] = "unlock"
          /\ \A p \in Peers \ {q} : rcv_pc'[p] = rcv_pc[p]
          /\ UNCHANGED <<rcv_cnt, snd_pc, snd_i>>
      BY <1>1, <1>3 DEF RcvStoreFinished, RcvGoto, sndVars
    <2>2. CurrentOf' = CurrentOf
      BY <1>1, <2>1 DEF CurrentOf, Receivers
    <2>3. /\ FinishedOf'[q] = FinishedOf[q] + 1
          /\ \A i \in Receivers \ {q} : FinishedOf'[i] = FinishedOf[i]
      BY <1>1, <2>1 DEF FinishedOf, Receivers
    <2> QED BY <1>1, <1>w, <2>2, <2>3, OneMore DEF Within
  <1>4. ASSUME ~RcvStoreCurrent(q), ~RcvStoreFinished(q)
        PROVE  CurrentOf' = CurrentOf /\ FinishedOf' = FinishedOf
    <2>1. UNCHANGED <<snd_pc, snd_i>>
      BY <1>4 DEF accpt_rcv_seg, RcvRead, RcvLock, RcvLoadFinished, RcvUnlock,
                  RcvCheck, RcvEof, RcvSignal, sndVars
    <2>2. \A p \in Peers :
            rcv_cnt'[p] - (IF rcv_pc'[p] \in {"lock", "store_current"}
                           THEN 1 ELSE 0) =
            rcv_cnt[p] - (IF rcv_pc[p] \in {"lock", "store_current"}
                          THEN 1 ELSE 0)
      BY <1>1, <1>4 DEF accpt_rcv_seg, RcvRead, RcvLock, RcvLoadFinished,
                        RcvUnlock, RcvCheck, RcvEof, RcvSignal, RcvGoto
    <2>3. \A p \in Peers :
            rcv_cnt'[p] - (IF rcv_pc'[p] \in {"lock", "store_current",
                                        "load_finished", "store_finished"}
                           THEN 1 ELSE 0) =
            rcv_cnt[p] - (IF rcv_pc[p] \in {"lock", "store_current",
                                        "load_finished", "store_finished"}
                          THEN 1 ELSE 0)
      BY <1>1, <1>4 DEF accpt_rcv_seg, RcvRead, RcvLock, RcvLoadFinished,
                        RcvUnlock, RcvCheck, RcvEof, RcvSignal, RcvGoto
    <2> QED BY <1>1, <2>1, <2>2, <2>3 DEF CurrentOf, FinishedOf, Receivers
  <1> QED BY <1>1, <1>2, <1>3, <1>4, CurrentGrows, FinishedGrows
          DEF CurrentIncrements, FinishedIncrements

\* Main and the mesh count nothing; a peer that gets its thread has counted
\* nothing yet.
LEMMA OthersCount ==
    ASSUME BaseInv, Main \/ SpuriousFinish \/ conn_receiver \/ accpt_receiver
    PROVE  /\ CurrentIncrements' = CurrentIncrements
           /\ FinishedIncrements' = FinishedIncrements
           /\ InSection' = InSection
           /\ UNCHANGED <<snd_i, snd_tmp, rcv_tmp, rcv_cnt, counters,
                          segment_array>>
           /\ \A l \in SndBusy : (snd_pc' = l) <=> (snd_pc = l)
           /\ \A q \in Peers : \A l \in RcvBusy \cup {"unlock"} :
                (rcv_pc'[q] = l) <=> (rcv_pc[q] = l)
  <1>1. /\ UNCHANGED <<snd_i, snd_tmp, rcv_tmp, rcv_cnt, counters, segment_array>>
        /\ \A l \in SndBusy : (snd_pc' = l) <=> (snd_pc = l)
    BY DEF Main, SpuriousFinish, conn_receiver, accpt_receiver, SavePeer,
           Receive_Segment_From_Sender_ThreadInit, BaseInv, SndBase, SndBusy,
           Make_Connection_W_Receivers_ThreadInit, JoinMesh, WaitFinish,
           WokenFinish, WriteFileAndExit, Connect, ConnDone, Accept, AccptDone,
           SignalCond, sndVars, rcvVars, counters
  <1>2. \A q \in Peers : \A l \in RcvBusy \cup {"unlock"} :
            (rcv_pc'[q] = l) <=> (rcv_pc[q] = l)
    <2>1. CASE UNCHANGED rcv_pc
      BY <2>1
    <2>2. CASE Connect
      <3>1. conn_i + 1 \in Peers /\ conn_i + 1 \notin recv_sock_array
        BY <2>2, Numbers DEF Connect, MoreToConnect, receiver_MAX, Peers, BaseInv,
                             MeshBase, Receivers
      <3> QED BY <2>2, <3>1 DEF Connect, SavePeer, BaseInv, MeshBase,
                                ThreadTypes, RcvBusy
    <2>3. CASE Accept
      BY <2>3 DEF Accept, SavePeer, BaseInv, MeshBase, ThreadTypes, RcvBusy
    <2> QED BY <2>1, <2>2, <2>3 DEF Main, SpuriousFinish, conn_receiver,
           accpt_receiver, Receive_Segment_From_Sender_ThreadInit,
           Make_Connection_W_Receivers_ThreadInit, JoinMesh, WaitFinish,
           WokenFinish, WriteFileAndExit, ConnDone, AccptDone, rcvVars
  <1>3. CurrentOf' = CurrentOf /\ FinishedOf' = FinishedOf
    BY <1>1, <1>2, Numbers DEF CurrentOf, FinishedOf, Receivers, SndBusy, RcvBusy
  <1>4. InSection' = InSection
    BY <1>1, <1>2 DEF InSection, SndBusy, RcvBusy
  <1> QED BY <1>1, <1>2, <1>3, <1>4 DEF CurrentIncrements, FinishedIncrements

-----------------------------------------------------------------------------
(* A counter never exceeds what has been counted. *)

UpperInv ==
    /\ current_segment_cnt \in 0 .. CurrentIncrements
    /\ finished_segment_cnt \in 0 .. FinishedIncrements
    /\ snd_tmp \in 0 .. S
    /\ rcv_tmp \in [Peers -> 0 .. S]
    /\ file \subseteq Segments
    /\ snd_pc = "store" => snd_tmp <= CurrentIncrements
    /\ snd_pc = "flood_store" => snd_tmp <= FinishedIncrements
    /\ \A q \in Peers :
        /\ rcv_pc[q] = "store_current" => rcv_tmp[q] <= CurrentIncrements
        /\ rcv_pc[q] = "store_finished" => rcv_tmp[q] <= FinishedIncrements

LEMMA InitUpper == ASSUME Init PROVE UpperInv
  <1>1. CurrentIncrements \in 0 .. S /\ FinishedIncrements \in 0 .. S
    BY InitBase, Counts
  <1> QED BY <1>1, Numbers DEF Init, UpperInv

LEMMA SndKeepsUpper ==
    ASSUME BaseInv, BaseInv', UpperInv, accpt_snd_seg \/ SpuriousCond
    PROVE  UpperInv'
  <1> DEFINE c == CurrentIncrements
             f == FinishedIncrements
  <1>1. /\ c \in 0 .. S /\ f \in 0 .. S /\ S \in Nat
        /\ c' = c \/ c' = c + 1
        /\ f' = f \/ f' = f + 1
        /\ SndStore => c' = c + 1 /\ c + 1 \in 0 .. S
        /\ FloodStore => f' = f + 1 /\ f + 1 \in 0 .. S
    BY Counts, SndCounts, Numbers
  <1>2. /\ current_segment_cnt \in 0 .. c /\ finished_segment_cnt \in 0 .. f
        /\ snd_tmp \in 0 .. S
        /\ snd_pc = "store" => snd_tmp <= c
        /\ snd_pc = "flood_store" => snd_tmp <= f
        /\ rcv_tmp \in [Peers -> 0 .. S]
        /\ file \subseteq Segments
        /\ \A q \in Peers :
            /\ rcv_pc[q] = "store_current" => rcv_tmp[q] <= c
            /\ rcv_pc[q] = "store_finished" => rcv_tmp[q] <= f
    BY DEF UpperInv
  <1> HIDE DEF c, f
  <1>3. UNCHANGED <<rcv_pc, rcv_tmp, file>>
    BY DEF accpt_snd_seg, SpuriousCond, WaitCond, WokenCond, SndRead, SndLock,
           SndStore, SndUnlock, FloodWrite, FloodLock, FloodStore, FloodUnlock,
           FloodSignal, rcvVars
  <1>4. \A q \in Peers :
            /\ rcv_pc'[q] = "store_current" => rcv_tmp'[q] <= c'
            /\ rcv_pc'[q] = "store_finished" => rcv_tmp'[q] <= f'
    BY <1>1, <1>2, <1>3
  <1>5. /\ current_segment_cnt' \in 0 .. c' /\ finished_segment_cnt' \in 0 .. f'
        /\ snd_tmp' \in 0 .. S
        /\ snd_pc' = "store" => snd_tmp' <= c'
        /\ snd_pc' = "flood_store" => snd_tmp' <= f'
    <2>1. CASE SndStore
      BY <1>1, <1>2, <2>1 DEF SndStore
    <2>2. CASE FloodStore
      BY <1>1, <1>2, <2>2 DEF FloodStore
    <2>3. CASE SndLock
      BY <1>1, <1>2, <2>3 DEF SndLock, counters
    <2>4. CASE FloodLock
      BY <1>1, <1>2, <2>4 DEF FloodLock, counters
    <2>5. CASE \/ WaitCond \/ SpuriousCond \/ WokenCond \/ SndRead \/ SndUnlock
               \/ FloodWrite \/ FloodUnlock \/ FloodSignal
      <3>1. /\ UNCHANGED <<snd_tmp, counters>>
            /\ snd_pc' \notin {"store", "flood_store"}
        BY <2>5 DEF WaitCond, SpuriousCond, WokenCond, SndRead, SndUnlock,
                    FloodWrite, FloodUnlock, FloodSignal
      <3> QED BY <1>1, <1>2, <3>1 DEF counters
    <2> QED BY <2>1, <2>2, <2>3, <2>4, <2>5 DEF accpt_snd_seg
  <1> QED BY <1>2, <1>3, <1>4, <1>5 DEF UpperInv, c, f

LEMMA RcvKeepsUpper ==
    ASSUME BaseInv, BaseInv', UpperInv, NEW q \in Peers,
           accpt_rcv_seg(q) \/ RcvEof(q)
    PROVE  UpperInv'
  <1> DEFINE c == CurrentIncrements
             f == FinishedIncrements
  <1>1. /\ c \in 0 .. S /\ f \in 0 .. S /\ S \in Nat
        /\ c' = c \/ c' = c + 1
        /\ f' = f \/ f' = f + 1
        /\ RcvStoreCurrent(q) => c' = c + 1 /\ c + 1 \in 0 .. S
        /\ RcvStoreFinished(q) => f' = f + 1 /\ f + 1 \in 0 .. S
    BY Counts, RcvCounts, Numbers
  <1>2. /\ current_segment_cnt \in 0 .. c /\ finished_segment_cnt \in 0 .. f
        /\ snd_tmp \in 0 .. S
        /\ snd_pc = "store" => snd_tmp <= c
        /\ snd_pc = "flood_store" => snd_tmp <= f
        /\ rcv_tmp \in [Peers -> 0 .. S]
        /\ file \subseteq Segments
        /\ \A p \in Peers :
            /\ rcv_pc[p] = "store_current" => rcv_tmp[p] <= c
            /\ rcv_pc[p] = "store_finished" => rcv_tmp[p] <= f
        /\ rcv_pc \in [Peers -> rcv_labels]
    BY DEF UpperInv, BaseInv, ThreadTypes
  <1> HIDE DEF c, f
  <1>3. UNCHANGED <<snd_pc, snd_tmp, file>>
    BY DEF accpt_rcv_seg, RcvRead, RcvLock, RcvStoreCurrent, RcvLoadFinished,
           RcvStoreFinished, RcvUnlock, RcvCheck, RcvEof, RcvSignal, sndVars
  <1>4. /\ current_segment_cnt' \in 0 .. c' /\ finished_segment_cnt' \in 0 .. f'
        /\ rcv_tmp' \in [Peers -> 0 .. S]
        /\ \A p \in Peers :
            /\ rcv_pc'[p] = "store_current" => rcv_tmp'[p] <= c'
            /\ rcv_pc'[p] = "store_finished" => rcv_tmp'[p] <= f'
    <2>1. CASE RcvStoreCurrent(q)
      BY <1>1, <1>2, <2>1 DEF RcvStoreCurrent, RcvGoto
    <2>2. CASE RcvStoreFinished(q)
      BY <1>1, <1>2, <2>2 DEF RcvStoreFinished, RcvGoto
    <2>3. CASE RcvLock(q)
      BY <1>1, <1>2, <2>3 DEF RcvLock, RcvGoto, counters
    <2>4. CASE RcvLoadFinished(q)
      BY <1>1, <1>2, <2>4 DEF RcvLoadFinished, RcvGoto, counters
    <2>5. CASE \/ RcvRead(q) \/ RcvUnlock(q) \/ RcvCheck(q) \/ RcvEof(q)
               \/ RcvSignal(q)
      <3>1. /\ UNCHANGED <<rcv_tmp, counters>>
            /\ rcv_pc'[q] \notin {"store_current", "store_finished"}
            /\ \A p \in Peers : p # q => rcv_pc'[p] = rcv_pc[p]
        BY <1>2, <2>5 DEF RcvRead, RcvUnlock, RcvCheck, RcvEof, RcvSignal, RcvGoto
      <3> QED BY <1>1, <1>2, <3>1 DEF counters
    <2> QED BY <2>1, <2>2, <2>3, <2>4, <2>5 DEF accpt_rcv_seg
  <1>5. /\ snd_tmp' \in 0 .. S
        /\ snd_pc' = "store" => snd_tmp' <= c'
        /\ snd_pc' = "flood_store" => snd_tmp' <= f'
    BY <1>1, <1>2, <1>3
  <1> QED BY <1>2, <1>3, <1>4, <1>5 DEF UpperInv, c, f

LEMMA OthersKeepUpper ==
    ASSUME BaseInv, UpperInv,
           Main \/ SpuriousFinish \/ conn_receiver \/ accpt_receiver
    PROVE  UpperInv'
  <1>1. /\ CurrentIncrements' = CurrentIncrements
        /\ FinishedIncrements' = FinishedIncrements
        /\ UNCHANGED <<snd_tmp, rcv_tmp, counters>>
        /\ \A l \in SndBusy : (snd_pc' = l) <=> (snd_pc = l)
        /\ \A q \in Peers : \A l \in RcvBusy \cup {"unlock"} :
                (rcv_pc'[q] = l) <=> (rcv_pc[q] = l)
    BY OthersCount
  <1>2. file' \subseteq Segments
    <2>1. CASE WriteFileAndExit
      <3>1. /\ current_segment_cnt \in Nat /\ current_segment_cnt <= S
            /\ S \in Nat
        BY Counts, Numbers DEF UpperInv
      <3> QED BY <2>1, <3>1 DEF WriteFileAndExit, Segments
    <2>2. CASE UNCHANGED file
      BY <2>2 DEF UpperInv
    <2> QED BY <2>1, <2>2 DEF Main, SpuriousFinish, conn_receiver,
           accpt_receiver, Receive_Segment_From_Sender_ThreadInit,
           Make_Connection_W_Receivers_ThreadInit, JoinMesh, WaitFinish,
           WokenFinish, Connect, ConnDone, Accept, AccptDone, SavePeer
  <1> QED BY <1>1, <1>2 DEF UpperInv, counters, SndBusy, RcvBusy

LEMMA UpperHolds == Spec => []UpperInv
  <1>1. ASSUME BaseInv, BaseInv', UpperInv, UNCHANGED vars
        PROVE  UpperInv'
    <2>1. /\ CurrentIncrements' = CurrentIncrements
          /\ FinishedIncrements' = FinishedIncrements
      BY <1>1 DEF vars, sndVars, rcvVars, CurrentIncrements, FinishedIncrements,
                  Counted, CurrentOf, FinishedOf
    <2> QED BY <1>1, <2>1 DEF UpperInv, vars, sndVars, rcvVars, counters
  <1>2. ASSUME BaseInv, BaseInv', UpperInv, [Next]_vars
        PROVE  UpperInv'
    BY <1>1, <1>2, SndKeepsUpper, RcvKeepsUpper, OthersKeepUpper
       DEF Next, Environment
  <1> QED BY <1>2, InitUpper, BaseHolds, PTL DEF Spec

-----------------------------------------------------------------------------
(* Until main waits the mutex excludes. *)

BeforeWait == main_pc \in {"create_snd", "create_mesh", "join", "wait"}

ExactInv ==
    BeforeWait =>
        /\ ~mutx => InSection = {}
        /\ \A a, b \in InSection : a = b
        /\ current_segment_cnt = CurrentIncrements
        /\ finished_segment_cnt = FinishedIncrements
        /\ snd_pc = "store" => snd_tmp = current_segment_cnt
        /\ snd_pc = "flood_store" => snd_tmp = finished_segment_cnt
        /\ \A q \in Peers :
            /\ rcv_pc[q] = "store_current" => rcv_tmp[q] = current_segment_cnt
            /\ rcv_pc[q] = "store_finished" => rcv_tmp[q] = finished_segment_cnt

LEMMA Sections ==
    /\ Me \in InSection <=>
        snd_pc \in {"store", "unlock", "flood_store", "flood_unlock"}
    /\ \A q \in Peers :
        q \in InSection <=> rcv_pc[q] \in {"store_current", "load_finished",
                                           "store_finished", "unlock"}
    /\ InSection \subseteq Peers \cup {Me}
    /\ Me \notin Peers
  BY Numbers DEF InSection

LEMMA SectionsNext ==
    /\ Me \in InSection' <=>
        snd_pc' \in {"store", "unlock", "flood_store", "flood_unlock"}
    /\ \A q \in Peers :
        q \in InSection' <=> rcv_pc'[q] \in {"store_current", "load_finished",
                                             "store_finished", "unlock"}
    /\ InSection' \subseteq Peers \cup {Me}
  BY Numbers DEF InSection

LEMMA InitExact == ASSUME Init PROVE ExactInv
  <1>1. /\ current_segment_cnt \in 0 .. CurrentIncrements
        /\ finished_segment_cnt \in 0 .. FinishedIncrements
    BY InitUpper DEF UpperInv
  <1>2. \A i \in Receivers : CurrentOf[i] = 0 /\ FinishedOf[i] = 0
    BY Numbers DEF Init, CurrentOf, FinishedOf, Receivers
  <1>3. Counted(CurrentOf) = {} /\ Counted(FinishedOf) = {}
    BY <1>2 DEF Counted, Receivers
  <1>4. CurrentIncrements = 0 /\ FinishedIncrements = 0
    BY <1>3, FS_EmptySet DEF CurrentIncrements, FinishedIncrements
  <1>5. InSection = {}
    BY DEF Init, InSection
  <1> QED BY <1>4, <1>5 DEF Init, ExactInv

LEMMA SndKeepsExact ==
    ASSUME BaseInv, BaseInv', ExactInv, accpt_snd_seg \/ SpuriousCond
    PROVE  ExactInv'
  <1> SUFFICES ASSUME BeforeWait' PROVE ExactInv'
    BY DEF ExactInv
  <1>1. BeforeWait
    BY DEF accpt_snd_seg, SpuriousCond, WaitCond, WokenCond, SndRead, SndLock,
           SndStore, SndUnlock, FloodWrite, FloodLock, FloodStore, FloodUnlock,
           FloodSignal, SignalFinish, BeforeWait
  <1>2. /\ UNCHANGED <<rcv_pc, rcv_tmp>>
        /\ InSection' \ {Me} = InSection \ {Me}
    <2>1. UNCHANGED <<rcv_pc, rcv_tmp>>
      BY DEF accpt_snd_seg, SpuriousCond, WaitCond, WokenCond, SndRead, SndLock,
           SndStore, SndUnlock, FloodWrite, FloodLock, FloodStore, FloodUnlock,
           FloodSignal, rcvVars
    <2> QED BY <2>1, Numbers DEF InSection
  <1>3. CASE \/ SndLock \/ FloodLock
    <2>1. /\ ~mutx /\ mutx' /\ UNCHANGED counters
          /\ ~SndStore /\ ~FloodStore
          /\ \/ snd_pc' = "store" /\ snd_tmp' = current_segment_cnt
             \/ snd_pc' = "flood_store" /\ snd_tmp' = finished_segment_cnt
      BY <1>3 DEF SndLock, FloodLock, SndStore, FloodStore
    <2>2. InSection = {}
      BY <1>1, <2>1 DEF ExactInv
    <2>3. InSection' = {Me}
      BY <1>2, <2>1, <2>2, SectionsNext
    <2>4. /\ CurrentIncrements' = CurrentIncrements
          /\ FinishedIncrements' = FinishedIncrements
      BY <2>1, SndCounts
    <2> QED BY <1>1, <1>2, <2>1, <2>3, <2>4 DEF ExactInv, counters
  <1>4. CASE SndStore \/ FloodStore
    <2>1. /\ Me \in InSection
          /\ \A q \in Peers : q \notin InSection
      BY <1>1, <1>4, Sections DEF SndStore, FloodStore, ExactInv
    <2>2. \A q \in Peers : rcv_pc[q] \notin {"store_current", "store_finished"}
      BY <2>1, Sections
    <2>3. Me \in InSection'
      BY <1>4, SectionsNext DEF SndStore, FloodStore
    <2>4. InSection' = InSection /\ InSection = {Me}
      BY <1>2, <2>1, <2>3, Sections
    <2>5. CASE SndStore
      BY <1>1, <1>2, <2>2, <2>4, <2>5, SndCounts DEF SndStore, ExactInv
    <2>6. CASE FloodStore
      BY <1>1, <1>2, <2>2, <2>4, <2>6, SndCounts DEF FloodStore, ExactInv
    <2> QED BY <1>4, <2>5, <2>6
  <1>5. CASE \/ WaitCond \/ SpuriousCond \/ WokenCond \/ SndRead \/ SndUnlock
             \/ FloodWrite \/ FloodUnlock \/ FloodSignal
    <2>1. /\ ~SndStore /\ ~FloodStore
          /\ UNCHANGED counters
          /\ snd_pc' \notin {"store", "unlock", "flood_store", "flood_unlock"}
      BY <1>5 DEF WaitCond, SpuriousCond, WokenCond, SndRead, SndUnlock,
                  FloodWrite, FloodUnlock, FloodSignal, SndStore, FloodStore
    <2>2. /\ CurrentIncrements' = CurrentIncrements
          /\ FinishedIncrements' = FinishedIncrements
      BY <2>1, SndCounts
    <2>3. InSection' = InSection \ {Me}
      BY <1>2, <2>1, SectionsNext
    <2>4. ~mutx' => InSection' = {}
      <3>1. CASE SndUnlock \/ FloodUnlock
        <4>1. Me \in InSection
          BY <3>1, Sections DEF SndUnlock, FloodUnlock
        <4>2. \A a \in InSection : a = Me
          BY <1>1, <4>1 DEF ExactInv
        <4> QED BY <2>3, <4>2
      <3>2. CASE mutx' = mutx
        BY <1>1, <2>3, <3>2 DEF ExactInv
      <3> QED BY <1>5, <3>1, <3>2 DEF WaitCond, SpuriousCond, WokenCond, SndRead,
                  FloodWrite, FloodSignal
    <2> QED BY <1>1, <1>2, <2>1, <2>2, <2>3, <2>4 DEF ExactInv, counters
  <1> QED BY <1>3, <1>4, <1>5 DEF accpt_snd_seg

LEMMA RcvKeepsExact ==
    ASSUME BaseInv, BaseInv', UpperInv, ExactInv, NEW q \in Peers,
           accpt_rcv_seg(q) \/ RcvEof(q)
    PROVE  ExactInv'
  <1> SUFFICES ASSUME BeforeWait' PROVE ExactInv'
    BY DEF ExactInv
  <1>1. /\ BeforeWait
        /\ rcv_pc \in [Peers -> rcv_labels] /\ rcv_tmp \in [Peers -> 0 .. S]
    BY DEF accpt_rcv_seg, RcvRead, RcvLock, RcvStoreCurrent, RcvLoadFinished,
           RcvStoreFinished, RcvUnlock, RcvCheck, RcvEof, RcvSignal,
           SignalFinish, BeforeWait, BaseInv, ThreadTypes, UpperInv
  <1>2. /\ UNCHANGED <<snd_pc, snd_tmp>>
        /\ \A p \in Peers \ {q} :
            rcv_pc'[p] = rcv_pc[p] /\ rcv_tmp'[p] = rcv_tmp[p]
    BY <1>1 DEF accpt_rcv_seg, RcvRead, RcvLock, RcvStoreCurrent, RcvLoadFinished,
           RcvStoreFinished, RcvUnlock, RcvCheck, RcvEof, RcvSignal, RcvGoto,
           sndVars
  <1>2a. InSection' \ {q} = InSection \ {q}
    <2>1. Me # q
      BY Numbers
    <2> QED BY <1>2, <2>1, Sections, SectionsNext
  <1>3. CASE RcvLock(q)
    <2>1. /\ ~mutx /\ mutx' /\ UNCHANGED counters
          /\ ~RcvStoreCurrent(q) /\ ~RcvStoreFinished(q)
          /\ rcv_pc'[q] = "store_current" /\ rcv_tmp'[q] = current_segment_cnt
      BY <1>1, <1>3 DEF RcvLock, RcvGoto, RcvStoreCurrent, RcvStoreFinished
    <2>2. InSection = {}
      BY <1>1, <2>1 DEF ExactInv
    <2>3. InSection' = {q}
      BY <1>2a, <2>1, <2>2, SectionsNext
    <2>4. /\ CurrentIncrements' = CurrentIncrements
          /\ FinishedIncrements' = FinishedIncrements
      BY <2>1, RcvCounts
    <2> QED BY <1>1, <1>2, <2>1, <2>3, <2>4 DEF ExactInv, counters
  <1>4. CASE \/ RcvStoreCurrent(q) \/ RcvLoadFinished(q) \/ RcvStoreFinished(q)
    <2>1. q \in InSection
      BY <1>4, Sections DEF RcvStoreCurrent, RcvLoadFinished, RcvStoreFinished
    <2>2. InSection = {q}
      BY <1>1, <2>1 DEF ExactInv
    <2>3. /\ snd_pc \notin {"store", "flood_store"}
          /\ \A p \in Peers \ {q} :
                rcv_pc[p] \notin {"store_current", "store_finished"}
      BY <2>2, Sections
    <2>4. InSection' = {q}
      <3>1. q \in InSection'
        BY <1>1, <1>4, SectionsNext DEF RcvStoreCurrent, RcvLoadFinished,
           RcvStoreFinished, RcvGoto
      <3> QED BY <1>2a, <2>2, <3>1
    <2>5. /\ mutx' = mutx /\ mutx
      BY <1>1, <1>4, <2>2 DEF ExactInv, RcvStoreCurrent, RcvLoadFinished,
                              RcvStoreFinished
    <2>6. CASE RcvStoreCurrent(q)
      <3>1. /\ rcv_pc'[q] = "load_finished"
            /\ current_segment_cnt' = current_segment_cnt + 1
            /\ finished_segment_cnt' = finished_segment_cnt
        BY <1>1, <2>6 DEF RcvStoreCurrent, RcvGoto, ExactInv
      <3> QED BY <1>1, <1>2, <2>3, <2>4, <2>5, <2>6, <3>1, RcvCounts DEF ExactInv
    <2>7. CASE RcvStoreFinished(q)
      <3>1. /\ rcv_pc'[q] = "unlock"
            /\ finished_segment_cnt' = finished_segment_cnt + 1
            /\ current_segment_cnt' = current_segment_cnt
        BY <1>1, <2>7 DEF RcvStoreFinished, RcvGoto, ExactInv
      <3> QED BY <1>1, <1>2, <2>3, <2>4, <2>5, <2>7, <3>1, RcvCounts DEF ExactInv
    <2>8. CASE RcvLoadFinished(q)
      <3>1. /\ rcv_pc'[q] = "store_finished"
            /\ rcv_tmp'[q] = finished_segment_cnt
            /\ UNCHANGED counters
            /\ ~RcvStoreCurrent(q) /\ ~RcvStoreFinished(q)
        BY <1>1, <2>8 DEF RcvLoadFinished, RcvGoto, RcvStoreCurrent,
                          RcvStoreFinished
      <3> QED BY <1>1, <1>2, <2>3, <2>4, <2>5, <3>1, RcvCounts
              DEF ExactInv, counters
    <2> QED BY <1>4, <2>6, <2>7, <2>8
  <1>5. CASE \/ RcvRead(q) \/ RcvUnlock(q) \/ RcvCheck(q) \/ RcvEof(q)
             \/ RcvSignal(q)
    <2>1. /\ ~RcvStoreCurrent(q) /\ ~RcvStoreFinished(q)
          /\ UNCHANGED counters
          /\ rcv_pc'[q] \notin {"store_current", "load_finished",
                                "store_finished", "unlock"}
      BY <1>1, <1>5 DEF RcvRead, RcvUnlock, RcvCheck, RcvEof, RcvSignal, RcvGoto,
                        RcvStoreCurrent, RcvStoreFinished
    <2>2. /\ CurrentIncrements' = CurrentIncrements
          /\ FinishedIncrements' = FinishedIncrements
      BY <2>1, RcvCounts
    <2>3. InSection' = InSection \ {q}
      BY <1>2a, <2>1, SectionsNext
    <2>4. ~mutx' => InSection' = {}
      <3>1. CASE RcvUnlock(q)
        <4>1. q \in InSection
          BY <3>1, Sections DEF RcvUnlock
        <4>2. \A a \in InSection : a = q
          BY <1>1, <4>1 DEF ExactInv
        <4> QED BY <2>3, <4>2
      <3>2. CASE mutx' = mutx
        BY <1>1, <2>3, <3>2 DEF ExactInv
      <3> QED BY <1>5, <3>1, <3>2 DEF RcvRead, RcvCheck, RcvEof, RcvSignal
    <2> QED BY <1>1, <1>2, <2>1, <2>2, <2>3, <2>4 DEF ExactInv, counters
  <1> QED BY <1>3, <1>4, <1>5 DEF accpt_rcv_seg

LEMMA OthersKeepExact ==
    ASSUME BaseInv, ExactInv,
           Main \/ SpuriousFinish \/ conn_receiver \/ accpt_receiver
    PROVE  ExactInv'
  <1> SUFFICES ASSUME BeforeWait' PROVE ExactInv'
    BY DEF ExactInv
  <1>1. BeforeWait /\ mutx' = mutx
    BY DEF BeforeWait, Main, SpuriousFinish, conn_receiver, accpt_receiver,
           Receive_Segment_From_Sender_ThreadInit,
           Make_Connection_W_Receivers_ThreadInit, JoinMesh, WaitFinish,
           WokenFinish, WriteFileAndExit, Connect, ConnDone, Accept, AccptDone,
           SavePeer
  <1> QED BY <1>1, OthersCount DEF ExactInv, counters, SndBusy, RcvBusy

LEMMA ExactHolds == Spec => []ExactInv
  <1>1. ASSUME ExactInv, UNCHANGED vars
        PROVE  ExactInv'
    <2>1. /\ CurrentIncrements' = CurrentIncrements
          /\ FinishedIncrements' = FinishedIncrements
          /\ InSection' = InSection
      BY <1>1 DEF vars, sndVars, rcvVars, CurrentIncrements, FinishedIncrements,
                  Counted, CurrentOf, FinishedOf, InSection
    <2> QED BY <1>1, <2>1 DEF ExactInv, BeforeWait, vars, sndVars, rcvVars,
                              counters
  <1>2. ASSUME BaseInv, BaseInv', UpperInv, ExactInv, [Next]_vars
        PROVE  ExactInv'
    BY <1>1, <1>2, SndKeepsExact, RcvKeepsExact, OthersKeepExact
       DEF Next, Environment
  <1> QED BY <1>2, InitExact, BaseHolds, UpperHolds, PTL DEF Spec

-----------------------------------------------------------------------------
(* What the two signals mean. *)

MeshedInv ==
    ~woken_for_nothing /\ snd_pc \notin {"none", "lock_cond", "waiting"} =>
        recv_sock_array = Peers

\* SegmentsFor(Me) is what this receiver owes; finished_segment_cnt = S means
\* that each of the S segments is among those counted, the last own one too.
LEMMA AllFinished ==
    ASSUME BaseInv, UpperInv, finished_segment_cnt >= S
    PROVE  /\ segment_array = Segments
           /\ OwnWritten = SegmentsFor(Me, S, N)
  <1>1. /\ FinishedIncrements \in 0 .. S
        /\ finished_segment_cnt \in 0 .. FinishedIncrements
        /\ Within(FinishedOf) /\ Within(CurrentOf)
        /\ S \in Nat /\ Me \in Receivers
    BY Counts, Numbers DEF UpperInv
  <1>2. FinishedIncrements = S
    BY <1>1
  <1>3. Counted(FinishedOf) = Segments
    BY <1>1, <1>2, CountedBound DEF FinishedIncrements
  <1>4. Counted(FinishedOf) \subseteq segment_array
    <2>1. ASSUME NEW i \in Receivers, NEW k \in 0 .. (FinishedOf[i] - 1)
          PROVE  Dealt(i, k) \in segment_array
      <3>1. k \in Nat /\ k < FinishedOf[i]
        BY <1>1 DEF Within
      <3>2. CASE i = Me
        <4>1. /\ FinishedOf[Me] <= snd_i + (IF snd_pc \in SndBusy THEN 1 ELSE 0)
              /\ FinishedOf[Me] \in Nat
          BY <1>1 DEF FinishedOf, Receivers, SndBusy, BaseInv, SndBase, Within
        <4> QED BY <1>1, <3>1, <3>2, <4>1 DEF BaseInv, SlotBase, SndBase
      <3>3. CASE i # Me
        <4>1. i \in Peers
          BY <3>3, Numbers
        <4>2. FinishedOf[i] <= rcv_cnt[i] /\ FinishedOf[i] \in Nat
          BY <1>1, <3>3, <4>1 DEF FinishedOf, Receivers, BaseInv, RcvBase, Within
        <4>3. k < rcv_cnt[i]
          BY <3>1, <4>1, <4>2 DEF BaseInv, RcvBase
        <4> QED BY <3>1, <4>1, <4>3 DEF BaseInv, SlotBase
      <3> QED BY <3>2, <3>3
    <2> QED BY <2>1 DEF Counted, Receivers
  <1>5. segment_array = Segments
    BY <1>3, <1>4 DEF BaseInv, SlotBase
  <1>6. /\ SegmentsFor(Me, S, N) \in Nat /\ snd_i \in 0 .. SegmentsFor(Me, S, N)
        /\ snd_pc \in SndBusy => snd_i < SegmentsFor(Me, S, N)
        /\ FinishedOf[Me] <= OwnWritten
        /\ FinishedOf[Me] \in Nat /\ OwnWritten \in Nat
        /\ OwnWritten <= SegmentsFor(Me, S, N)
    BY <1>1, Numbers DEF BaseInv, SndBase, SndBusy, FinishedOf, OwnWritten,
                         Receivers, Within
  <1>7. FinishedOf[Me] >= SegmentsFor(Me, S, N)
    <2>1. CASE SegmentsFor(Me, S, N) = 0
      BY <1>6, <2>1
    <2>2. CASE SegmentsFor(Me, S, N) # 0
      <3> DEFINE last == SegmentsFor(Me, S, N) - 1
      <3>1. last \in Nat /\ last < SegmentsFor(Me, S, N)
        BY <1>6, <2>2
      <3>2. Dealt(Me, last) \in Counted(FinishedOf)
        BY <1>1, <1>3, <3>1, DealtIsSegment
      <3>3. last < FinishedOf[Me]
        BY <1>1, <3>1, <3>2, CountedMember DEF Within
      <3> QED BY <1>6, <3>1, <3>3
    <2> QED BY <2>1, <2>2
  <1> QED BY <1>5, <1>6, <1>7

\* A socket for each of the N - 1 peers is a socket for all.
LEMMA AllMeshed ==
    ASSUME BaseInv, current_receiver_cnt >= receiver_MAX
    PROVE  recv_sock_array = Peers
  <1>1. 0 \in Int /\ N - 1 \in Int /\ N \in Nat \ {0} /\ Me \in 0 .. (N - 1)
    BY Numbers DEF Receivers
  <1>2. IsFiniteSet(0 .. (N - 1)) /\ Cardinality(0 .. (N - 1)) = N
    <2>1. /\ IsFiniteSet(0 .. (N - 1))
          /\ Cardinality(0 .. (N - 1)) = IF 0 > N - 1 THEN 0 ELSE (N - 1) - 0 + 1
      BY <1>1, FS_Interval
    <2> QED BY <1>1, <2>1
  <1>3. IsFiniteSet(Peers) /\ Cardinality(Peers) = N - 1
    <2> DEFINE R == 0 .. (N - 1)
    <2>1. IsFiniteSet(R) /\ Cardinality(R) = N /\ Me \in R
      BY <1>1, <1>2
    <2> HIDE DEF R
    <2>2. /\ IsFiniteSet(R \ {Me})
          /\ Cardinality(R \ {Me}) = Cardinality(R) - 1
      BY <2>1, FS_RemoveElement
    <2> QED BY <2>1, <2>2 DEF Peers, R
  <1>4. /\ recv_sock_array \subseteq Peers
        /\ Cardinality(recv_sock_array) >= N - 1
    BY DEF BaseInv, MeshBase, current_receiver_cnt, receiver_MAX
  <1>5. /\ Cardinality(recv_sock_array) <= Cardinality(Peers)
        /\ Cardinality(recv_sock_array) = Cardinality(Peers) =>
                recv_sock_array = Peers
        /\ Cardinality(recv_sock_array) \in Nat
    BY <1>3, <1>4, FS_Subset, FS_CardinalityType
  <1> QED BY <1>1, <1>3, <1>4, <1>5

LEMMA InitSignals == ASSUME Init PROVE WokenWhenDone /\ MeshedInv
  BY DEF Init, WokenWhenDone, MeshedInv

\* Nothing once received or flooded is taken back.
LEMMA DoneStays ==
    ASSUME BaseInv, BaseInv', [Next]_vars
    PROVE  /\ segment_array = Segments => segment_array' = Segments
           /\ OwnWritten = SegmentsFor(Me, S, N) =>
                OwnWritten' = SegmentsFor(Me, S, N)
  <1>1. /\ snd_i \in 0 .. SegmentsFor(Me, S, N)
        /\ SegmentsFor(Me, S, N) \in Nat
        /\ snd_pc \in SndBusy => snd_i < SegmentsFor(Me, S, N)
        /\ segment_array \subseteq Segments /\ segment_array' \subseteq Segments
    BY Numbers DEF BaseInv, SndBase, SlotBase
  <1>2. CASE accpt_snd_seg \/ SpuriousCond
    <2>1. segment_array \subseteq segment_array'
      BY <1>2 DEF accpt_snd_seg, SpuriousCond, WaitCond, WokenCond, SndRead,
         SndLock, SndStore, SndUnlock, FloodWrite, FloodLock, FloodStore,
         FloodUnlock, FloodSignal
    <2>2. OwnWritten = SegmentsFor(Me, S, N) =>
            OwnWritten' = SegmentsFor(Me, S, N)
      BY <1>1, <1>2 DEF accpt_snd_seg, SpuriousCond, WaitCond, WokenCond, SndRead,
         SndLock, SndStore, SndUnlock, FloodWrite, FloodLock, FloodStore,
         FloodUnlock, FloodSignal, OwnWritten, SndBusy
    <2> QED BY <1>1, <2>1, <2>2
  <1>3. ASSUME NEW q \in Peers, accpt_rcv_seg(q) \/ RcvEof(q)
        PROVE  segment_array \subseteq segment_array' /\ OwnWritten' = OwnWritten
    BY <1>3 DEF accpt_rcv_seg, RcvRead, RcvLock, RcvStoreCurrent,
       RcvLoadFinished, RcvStoreFinished, RcvUnlock, RcvCheck, RcvEof, RcvSignal,
       OwnWritten, sndVars
  <1>4. CASE Main \/ SpuriousFinish \/ conn_receiver \/ accpt_receiver
    BY <1>4, OthersCount DEF OwnWritten, SndBusy
  <1>5. CASE UNCHANGED vars
    BY <1>5 DEF vars, sndVars, OwnWritten
  <1> QED BY <1>1, <1>2, <1>3, <1>4, <1>5 DEF Next, Environment

LEMMA StepKeepsWoken ==
    ASSUME BaseInv, BaseInv', UpperInv, WokenWhenDone, [Next]_vars
    PROVE  WokenWhenDone'
  <1> DEFINE after == {"relock", "write", "exited"}
             SignalledOrNot ==
                /\ woken_for_nothing => woken_for_nothing'
                /\ \/ main_pc' \in after => main_pc \in after
                   \/ finished_segment_cnt >= S
                   \/ woken_for_nothing'
  <1>1. SignalledOrNot
    <2>1. CASE accpt_snd_seg \/ SpuriousCond
      BY <2>1 DEF accpt_snd_seg, SpuriousCond, WaitCond, WokenCond, SndRead,
         SndLock, SndStore, SndUnlock, FloodWrite, FloodLock, FloodStore,
         FloodUnlock, FloodSignal, SignalFinish
    <2>2. ASSUME NEW q \in Peers, accpt_rcv_seg(q) \/ RcvEof(q)
          PROVE  SignalledOrNot
      BY <2>2 DEF accpt_rcv_seg, RcvRead, RcvLock, RcvStoreCurrent,
         RcvLoadFinished, RcvStoreFinished, RcvUnlock, RcvCheck, RcvEof,
         RcvSignal, SignalFinish
    <2>3. CASE Main \/ SpuriousFinish \/ conn_receiver \/ accpt_receiver
      BY <2>3 DEF Main, SpuriousFinish, conn_receiver, accpt_receiver,
         Receive_Segment_From_Sender_ThreadInit,
         Make_Connection_W_Receivers_ThreadInit, JoinMesh, WaitFinish,
         WokenFinish, WriteFileAndExit, Connect, ConnDone, Accept, AccptDone,
         SavePeer
    <2>4. CASE UNCHANGED vars
      BY <2>4 DEF vars
    <2> QED BY <2>1, <2>2, <2>3, <2>4 DEF Next, Environment
  <1>2. finished_segment_cnt >= S =>
            /\ segment_array = Segments
            /\ OwnWritten = SegmentsFor(Me, S, N)
    BY AllFinished
  <1> QED BY <1>1, <1>2, DoneStays DEF WokenWhenDone

LEMMA StepKeepsMeshed ==
    ASSUME BaseInv, BaseInv', MeshedInv, [Next]_vars
    PROVE  MeshedInv'
  <1> DEFINE before == {"none", "lock_cond", "waiting"}
  <1>1. /\ woken_for_nothing => woken_for_nothing'
        /\ recv_sock_array \subseteq recv_sock_array'
        /\ recv_sock_array' \subseteq Peers
        /\ \/ snd_pc' \notin before => snd_pc \notin before
           \/ current_receiver_cnt >= receiver_MAX
           \/ woken_for_nothing'
    <2>1. recv_sock_array' \subseteq Peers
      BY DEF BaseInv, MeshBase
    <2>2. CASE accpt_snd_seg \/ SpuriousCond
      BY <2>1, <2>2 DEF accpt_snd_seg, SpuriousCond, WaitCond, WokenCond, SndRead,
         SndLock, SndStore, SndUnlock, FloodWrite, FloodLock, FloodStore,
         FloodUnlock, FloodSignal, connVars
    <2>3. ASSUME NEW q \in Peers, accpt_rcv_seg(q) \/ RcvEof(q)
          PROVE  UNCHANGED <<recv_sock_array, snd_pc, woken_for_nothing>>
      BY <2>3 DEF accpt_rcv_seg, RcvRead, RcvLock, RcvStoreCurrent,
         RcvLoadFinished, RcvStoreFinished, RcvUnlock, RcvCheck, RcvEof,
         RcvSignal, connVars, sndVars
    <2>4. CASE Main \/ SpuriousFinish \/ conn_receiver \/ accpt_receiver
      BY <2>1, <2>4 DEF Main, SpuriousFinish, conn_receiver, accpt_receiver,
         Receive_Segment_From_Sender_ThreadInit,
         Make_Connection_W_Receivers_ThreadInit, JoinMesh, WaitFinish,
         WokenFinish, WriteFileAndExit, Connect, ConnDone, Accept, AccptDone,
         SavePeer, SignalCond, connVars, sndVars
    <2>5. CASE UNCHANGED vars
      BY <2>5, <2>1 DEF vars, connVars, sndVars
    <2> QED BY <2>1, <2>2, <2>3, <2>4, <2>5 DEF Next, Environment
  <1>2. current_receiver_cnt >= receiver_MAX => recv_sock_array = Peers
    BY AllMeshed
  <1> QED BY <1>1, <1>2 DEF MeshedInv

-----------------------------------------------------------------------------
(* The theorems. *)

LEMMA SegmentsForAtMost ==
    ASSUME NEW i \in Receivers
    PROVE  SegmentsFor(i, S, N) <= S
  <1> DEFINE d == S \div N
             m == S % N
  <1>1. /\ N \in Nat \ {0} /\ S \in Nat /\ i \in 0 .. (N - 1)
        /\ d \in Nat /\ m \in 0 .. (N - 1)
        /\ S = m + d * N
    BY Numbers DEF Receivers
  <1>2. d <= d * N
    <2>1. d * N = d + d * (N - 1) /\ d * (N - 1) \in Nat
      BY <1>1
    <2> QED BY <1>1, <2>1
  <1>3. SegmentsFor(i, S, N) = d + (IF i < m THEN 1 ELSE 0)
    BY DEF SegmentsFor
  <1> HIDE DEF d, m
  <1> QED BY <1>1, <1>2, <1>3

\* The layers together.
Inv == BaseInv /\ UpperInv /\ ExactInv /\ WokenWhenDone /\ MeshedInv

\* The invariant of the threads holds in every reachable state.
THEOREM InvariantHolds == Spec => []Inv
  <1>1. Init => WokenWhenDone /\ MeshedInv
    BY InitSignals
  <1>2. BaseInv /\ BaseInv' /\ UpperInv /\ (WokenWhenDone /\ MeshedInv)
            /\ [Next]_vars
        => (WokenWhenDone /\ MeshedInv)'
    BY StepKeepsWoken, StepKeepsMeshed
  <1>3. Spec => [](WokenWhenDone /\ MeshedInv)
    BY <1>1, <1>2, BaseHolds, UpperHolds, PTL DEF Spec
  <1>4. BaseInv /\ UpperInv /\ ExactInv /\ (WokenWhenDone /\ MeshedInv) => Inv
    BY DEF Inv
  <1> QED BY <1>3, <1>4, BaseHolds, UpperHolds, ExactHolds, PTL

LEMMA InvTypes == ASSUME Inv PROVE TypeOK
  <1>1. /\ S \in Nat /\ Me \in Receivers /\ \A q \in Peers : q \in Receivers
        /\ SegmentsFor(Me, S, N) \in Nat /\ SegmentsFor(Me, S, N) <= S
        /\ \A q \in Peers : /\ SegmentsFor(q, S, N) \in Nat
                            /\ SegmentsFor(q, S, N) <= S
        /\ CurrentIncrements \in 0 .. S /\ FinishedIncrements \in 0 .. S
    BY Numbers, SegmentsForAtMost, Counts DEF Inv
  <1>2. snd_i \in 0 .. S /\ rcv_cnt \in [Peers -> 0 .. S]
    <2>1. snd_i \in 0 .. S
      BY <1>1 DEF Inv, BaseInv, SndBase
    <2>2. \A q \in Peers : rcv_cnt[q] \in 0 .. S
      BY <1>1 DEF Inv, BaseInv, RcvBase
    <2> QED BY <2>1, <2>2 DEF Inv, BaseInv, RcvBase
  <1>3. current_segment_cnt \in 0 .. S /\ finished_segment_cnt \in 0 .. S
    BY <1>1 DEF Inv, UpperInv
  <1>4. /\ mutx \in BOOLEAN /\ woken_for_nothing \in BOOLEAN
        /\ snd_pc \in snd_labels
        /\ rcv_pc \in [Peers -> rcv_labels]
        /\ main_pc \in {"create_snd", "create_mesh", "join", "wait", "waiting",
                        "relock", "write", "exited"}
        /\ {conn_pc, accpt_pc} \subseteq {"none", "loop", "done"}
    BY Zenon DEF Inv, BaseInv, ThreadTypes
  <1> QED BY <1>2, <1>3, <1>4 DEF Inv, BaseInv, MeshBase, SlotBase, UpperInv,
                                  TypeOK, receiver_MAX

\* The variables keep their types: no counter passes segment_count and no slot
\* beyond it is filled, also when two threads are in a critical section.
THEOREM TypeCorrect == Spec => []TypeOK
  <1>1. Inv => TypeOK
    BY InvTypes
  <1> QED BY <1>1, InvariantHolds, PTL

\* Until main waits, one thread at a time is in a critical section and no
\* update of a counter is lost, for any numbers of receivers and segments.
THEOREM ExactUntilMainWaitsAlways == Spec => []ExactUntilMainWaits
  <1>1. ASSUME Inv PROVE ExactUntilMainWaits
    <2>1. ASSUME BeforeWait PROVE Cardinality(InSection) <= 1
      <3>1. \A a, b \in InSection : a = b
        BY <1>1, <2>1 DEF Inv, ExactInv
      <3>2. CASE InSection = {}
        BY <3>2, FS_EmptySet
      <3>3. CASE InSection # {}
        <4>1. PICK a : a \in InSection
          BY <3>3
        <4>2. InSection = {a}
          BY <3>1, <4>1
        <4>3. Cardinality({a}) = 1
          BY FS_Singleton
        <4> QED BY <4>2, <4>3
      <3> QED BY <3>2, <3>3
    <2> QED BY <1>1, <2>1, InvTypes DEF Inv, ExactInv, BeforeWait,
                                        ExactUntilMainWaits
  <1> QED BY <1>1, InvariantHolds, PTL

\* Main is signalled only when the whole file is there and everything of its
\* own is flooded.
THEOREM WokenWhenDoneAlways == Spec => []WokenWhenDone
  <1>1. Inv => WokenWhenDone
    BY DEF Inv
  <1> QED BY <1>1, InvariantHolds, PTL

\* No segment is flooded before every peer has its socket.
THEOREM FloodsWhenMeshedAlways == Spec => []FloodsWhenMeshed
  <1>1. Inv => FloodsWhenMeshed
    BY DEF Inv, MeshedInv, FloodsWhenMeshed
  <1> QED BY <1>1, InvariantHolds, PTL

=============================================================================

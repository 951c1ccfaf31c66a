---------------------------- MODULE P2PFloodProofs ----------------------------
(***************************************************************************)
(* What holds of the flood for every number of receivers and segments and  *)
(* every capacity of the streams.                                          *)
(*                                                                         *)
(* The argument: a segment travels from the sender to its owner and from   *)
(* there to each peer, and for each receiver it is in exactly one of the   *)
(* places on that way; hence the counters count slots, and a receiver that *)
(* has counted S of them has every one.                                    *)
(***************************************************************************)
EXTENDS P2PFlood, FiniteSetTheorems, TLAPS

\* The turn of the round robin is the number of the next segment modulo N.
SenderInv ==
    /\ rr_index = nth_segment % N
    /\ sender_closed => nth_segment = S

\* A segment on its way from the sender is new to its owner.
FromSenderInv ==
    \A r \in Receivers :
        /\ ~HasRepeat(from_sender[r])
        /\ \A n \in Carried(from_sender[r]) :
            n < nth_segment /\ n % N = r /\ n \notin segment_array[r]

\* Whoever has a segment, its owner has it.
HeldInv ==
    \A r \in Receivers : \A n \in segment_array[r] :
        n < nth_segment /\ n \in segment_array[n % N]

\* A segment on its way from its owner is new to the peer.
LinkInv ==
    \A r \in Receivers : \A q \in Peers(r) :
        /\ ~HasRepeat(link[q][r])
        /\ \A n \in Carried(link[q][r]) :
            /\ n % N = q
            /\ n \in segment_array[q]
            /\ n \notin segment_array[r]

\* A flood that is going on has yet to reach the peers in flood_to.
FloodInv ==
    \A q \in Receivers :
        /\ flood_to[q] \subseteq Peers(q)
        /\ snd_pc[q] # "flood" => flood_to[q] = {}
        /\ snd_pc[q] = "flood" =>
            /\ flood_seg[q] \in segment_array[q]
            /\ flood_seg[q] % N = q
            /\ \A r \in flood_to[q] :
                /\ flood_seg[q] \notin segment_array[r]
                /\ flood_seg[q] \notin Carried(link[q][r])

\* The counters count slots.
CountInv ==
    \A r \in Receivers :
        /\ current_segment_cnt[r] = Cardinality(segment_array[r])
        /\ finished_segment_cnt[r] =
            current_segment_cnt[r] - (IF snd_pc[r] = "flood" THEN 1 ELSE 0)

\* Main is signalled, and exits, when everything is finished.
MainInv ==
    \A r \in Receivers :
        /\ signalled[r] => finished_segment_cnt[r] = S
        /\ exited[r] => signalled[r] /\ file[r] = Segments

\* A thread that has left its loop has nothing more to read.
ReaderInv ==
    \A r \in Receivers : \A q \in Peers(r) :
        rcv_pc[r][q] \in {"signal", "done"} =>
            /\ nth_segment = S
            /\ link[q][r] = << >>
            /\ r \notin flood_to[q]
            /\ from_sender[q] = << >>

\* What each receiver has had from the sender so far is what Send_Info would
\* announce for the segments sent so far.
DealtInv ==
    \A r \in Receivers :
        snd_i[r] + Len(from_sender[r])
            + (IF snd_pc[r] = "read" THEN 0 ELSE 1)
                = SegmentsFor(r, nth_segment, N)

IInv ==
    /\ TypeOK
    /\ SenderInv
    /\ FromSenderInv
    /\ HeldInv
    /\ LinkInv
    /\ FloodInv
    /\ CountInv
    /\ MainInv
    /\ ReaderInv
    /\ DealtInv
    /\ SignalNotForgotten

-----------------------------------------------------------------------------
(* Streams, counts and turns. *)

LEMMA AppendStream ==
    ASSUME NEW T, NEW st \in Seq(T), NEW x \in T
    PROVE  /\ Append(st, x) \in Seq(T)
           /\ Carried(Append(st, x)) = Carried(st) \cup {x}
           /\ ~HasRepeat(st) /\ x \notin Carried(st) => ~HasRepeat(Append(st, x))
           /\ Len(Append(st, x)) = Len(st) + 1
  <1> DEFINE st2 == Append(st, x)
  <1>1. /\ st2 \in Seq(T) /\ Len(st) \in Nat /\ Len(st2) = Len(st) + 1
        /\ DOMAIN st = 1 .. Len(st) /\ DOMAIN st2 = 1 .. (Len(st) + 1)
        /\ \A i \in 1 .. Len(st) : st2[i] = st[i]
        /\ st2[Len(st) + 1] = x
    OBVIOUS
  <1> HIDE DEF st2
  <1>2. Carried(st2) = Carried(st) \cup {x}
    <2>1. \A i \in DOMAIN st : i \in DOMAIN st2 /\ st2[i] = st[i]
      BY <1>1
    <2>2. \A i \in DOMAIN st2 : i \in DOMAIN st \/ i = Len(st) + 1
      BY <1>1
    <2>3. Len(st) + 1 \in DOMAIN st2
      BY <1>1
    <2>4. Carried(st) \cup {x} \subseteq Carried(st2)
      BY <2>1, <2>3, <1>1 DEF Carried
    <2>5. Carried(st2) \subseteq Carried(st) \cup {x}
      BY <2>1, <2>2, <1>1 DEF Carried
    <2> QED BY <2>4, <2>5
  <1>3. ASSUME ~HasRepeat(st), x \notin Carried(st)
        PROVE  ~HasRepeat(st2)
    <2> SUFFICES ASSUME NEW i \in DOMAIN st2, NEW j \in DOMAIN st2,
                        i # j, st2[i] = st2[j]
                 PROVE  FALSE
      BY DEF HasRepeat
    <2>1. CASE i \in DOMAIN st /\ j \in DOMAIN st
      BY <1>1, <1>3, <2>1 DEF HasRepeat
    <2>2. CASE ~(i \in DOMAIN st /\ j \in DOMAIN st)
      BY <1>1, <1>3, <2>2 DEF Carried
    <2> QED BY <2>1, <2>2
  <1> QED BY <1>1, <1>2, <1>3 DEF st2

LEMMA TailStream ==
    ASSUME NEW T, NEW st \in Seq(T), st # << >>
    PROVE  /\ Tail(st) \in Seq(T)
           /\ Head(st) \in T
           /\ Carried(st) = Carried(Tail(st)) \cup {Head(st)}
           /\ ~HasRepeat(st) => /\ ~HasRepeat(Tail(st))
                                /\ Head(st) \notin Carried(Tail(st))
           /\ Len(Tail(st)) = Len(st) - 1
  <1>1. /\ Tail(st) \in Seq(T) /\ Head(st) \in T /\ Len(st) \in Nat
        /\ Len(st) > 0 /\ Len(Tail(st)) = Len(st) - 1
        /\ Head(st) = st[1]
        /\ \A i \in 1 .. Len(Tail(st)) : Tail(st)[i] = st[i + 1]
    OBVIOUS
  <1>2. Carried(st) \subseteq Carried(Tail(st)) \cup {Head(st)}
    <2> SUFFICES ASSUME NEW i \in 1 .. Len(st), i # 1
                 PROVE  st[i] \in Carried(Tail(st))
      BY <1>1 DEF Carried
    <2> DEFINE j == i - 1
    <2>1. j \in 1 .. Len(Tail(st)) /\ j + 1 = i
      BY <1>1
    <2>2. j \in DOMAIN Tail(st) /\ Tail(st)[j] = st[i]
      BY <2>1, <1>1
    <2> QED BY <2>2 DEF Carried
  <1>3. Carried(Tail(st)) \cup {Head(st)} \subseteq Carried(st)
    BY <1>1 DEF Carried
  <1>4. ASSUME ~HasRepeat(st)
        PROVE  ~HasRepeat(Tail(st)) /\ Head(st) \notin Carried(Tail(st))
    BY <1>1, <1>4 DEF HasRepeat, Carried
  <1> QED BY <1>1, <1>2, <1>3, <1>4

LEMMA EmptyStream ==
    ASSUME NEW T, NEW st \in Seq(T), Carried(st) = {}
    PROVE  st = << >>
  <1>1. ASSUME st # << >>
        PROVE  FALSE
    BY <1>1, TailStream
  <1> QED BY <1>1

\* The next turn of the round robin.
LEMMA NextTurn ==
    ASSUME NEW n \in Nat
    PROVE  /\ n % N \in Receivers
           /\ (n + 1) % N = NextIndex(n % N, N)
           /\ (n + 1) \div N = (n \div N) + (IF n % N = N - 1 THEN 1 ELSE 0)
           /\ n \div N \in Nat
  BY NAssumption DEF Receivers, NextIndex

\* One more segment sent is one more announced to the receiver whose turn it is.
LEMMA NextDealt ==
    ASSUME NEW n \in Nat, NEW r \in Receivers
    PROVE  /\ SegmentsFor(r, n, N) \in Nat
           /\ SegmentsFor(r, n + 1, N) =
                SegmentsFor(r, n, N) + (IF r = n % N THEN 1 ELSE 0)
  <1>1. /\ n % N \in Receivers
        /\ (n + 1) % N = NextIndex(n % N, N)
        /\ (n + 1) \div N = (n \div N) + (IF n % N = N - 1 THEN 1 ELSE 0)
        /\ n \div N \in Nat
    BY NextTurn
  <1> HIDE DEF Receivers
  <1>2. r \in 0 .. (N - 1) /\ n % N \in 0 .. (N - 1)
    BY <1>1 DEF Receivers
  <1>3. CASE n % N = N - 1
    BY <1>1, <1>2, <1>3, NAssumption DEF SegmentsFor, NextIndex
  <1>4. CASE n % N # N - 1
    BY <1>1, <1>2, <1>4, NAssumption DEF SegmentsFor, NextIndex
  <1> QED BY <1>3, <1>4

\* A set of segments has at most S of them, and with S it has all.
LEMMA SegmentCardinality ==
    ASSUME NEW A \in SUBSET Segments
    PROVE  /\ IsFiniteSet(A)
           /\ Cardinality(A) \in 0 .. S
           /\ Cardinality(A) = S => A = Segments
           /\ \A n \in Segments \ A :
                Cardinality(A \cup {n}) = Cardinality(A) + 1
           /\ Cardinality(Segments) = S
  <1>1. IsFiniteSet(Segments) /\ Cardinality(Segments) = S
    BY FS_Interval, SAssumption DEF Segments
  <1>2. IsFiniteSet(A) /\ Cardinality(A) \in Nat /\ Cardinality(A) <= S
    BY <1>1, FS_Subset, FS_CardinalityType
  <1>3. Cardinality(A) = S => A = Segments
    BY <1>1, FS_Subset
  <1>4. \A n \in Segments \ A : Cardinality(A \cup {n}) = Cardinality(A) + 1
    BY <1>2, FS_AddElement
  <1> QED BY <1>1, <1>2, <1>3, <1>4, SAssumption

-----------------------------------------------------------------------------
(* The invariant holds at the start and every action keeps it. *)

LEMMA InitInv == ASSUME Init PROVE IInv
  <1>1. TypeOK
    <2>1. /\ sender_closed \in BOOLEAN
          /\ signalled \in [Receivers -> BOOLEAN]
          /\ missed \in [Receivers -> BOOLEAN]
          /\ exited \in [Receivers -> BOOLEAN]
      BY Zenon DEF Init
    <2>2. /\ DOMAIN rcv_pc = Receivers
          /\ \A r \in Receivers :
                rcv_pc[r] \in [Peers(r) -> {"read", "check", "signal", "done"}]
      BY DEF Init
    <2>3. /\ rr_index \in Receivers /\ nth_segment \in 0 .. S
          /\ from_sender \in [Receivers -> Seq(Segments)]
          /\ link \in [Receivers -> [Receivers -> Seq(Segments)]]
      BY NAssumption, SAssumption DEF Init, Receivers
    <2>4. /\ segment_array \in [Receivers -> SUBSET Segments]
          /\ current_segment_cnt \in [Receivers -> 0 .. S]
          /\ finished_segment_cnt \in [Receivers -> 0 .. S]
          /\ snd_pc \in [Receivers -> {"read", "flood", "signal"}]
          /\ snd_i \in [Receivers -> Nat]
          /\ flood_seg \in [Receivers -> Segments \cup {0}]
          /\ flood_to \in [Receivers -> SUBSET Receivers]
          /\ file \in [Receivers -> SUBSET Segments]
      BY SAssumption DEF Init
    <2>5. recv_sock_array \in [Receivers -> [1 .. (N - 1) -> Receivers]]
      <3>1. \A r \in Receivers : Orders(r) \subseteq [1 .. (N - 1) -> Receivers]
        BY DEF Orders, Peers
      <3> QED BY <3>1 DEF Init
    <2> QED BY <2>1, <2>2, <2>3, <2>4, <2>5 DEF TypeOK
  <1>2. SenderInv
    BY NAssumption DEF Init, SenderInv
  <1>3. FromSenderInv /\ HeldInv /\ LinkInv
    BY DEF Init, FromSenderInv, HeldInv, LinkInv, HasRepeat, Carried, Peers
  <1>4. FloodInv /\ ReaderInv
    BY DEF Init, FloodInv, ReaderInv, Peers
  <1>5. CountInv
    BY FS_EmptySet DEF Init, CountInv
  <1>6. MainInv
    BY DEF Init, MainInv
  <1>7. DealtInv
    <2> SUFFICES ASSUME NEW r \in Receivers
                 PROVE  SegmentsFor(r, 0, N) = 0
      BY DEF Init, DealtInv
    <2> QED BY NAssumption DEF SegmentsFor, Receivers
  <1>8. SignalNotForgotten
    BY SAssumption DEF Init, SignalNotForgotten
  <1> QED BY <1>1, <1>2, <1>3, <1>4, <1>5, <1>6, <1>7, <1>8 DEF IInv

LEMMA SendSegmentKeepsInv == ASSUME IInv, SendSegment PROVE IInv'
  <1> USE DEF SendSegment, AllSent, senderVars, countVars, sndVars, waitVars, mainVars
  <1>1. /\ nth_segment \in Segments /\ rr_index \in Receivers
        /\ from_sender[rr_index] \in Seq(Segments)
        /\ rr_index = nth_segment % N /\ nth_segment \in Nat
        /\ N \in Nat
    BY SAssumption, NAssumption DEF IInv, TypeOK, SenderInv, Segments
  <1>2. /\ from_sender'[rr_index] \in Seq(Segments)
        /\ Carried(from_sender'[rr_index]) =
            Carried(from_sender[rr_index]) \cup {nth_segment}
        /\ ~HasRepeat(from_sender[rr_index])
                /\ nth_segment \notin Carried(from_sender[rr_index]) =>
            ~HasRepeat(from_sender'[rr_index])
        /\ Len(from_sender'[rr_index]) = Len(from_sender[rr_index]) + 1
        /\ \A r \in Receivers :
            r # rr_index => from_sender'[r] = from_sender[r]
        /\ from_sender' \in [Receivers -> Seq(Segments)]
    BY <1>1, AppendStream DEF IInv, TypeOK
  <1>3. TypeOK'
    <2>1. rr_index' \in Receivers
      <3>1. rr_index' = (nth_segment + 1) % N /\ nth_segment + 1 \in Nat
        BY <1>1, NextTurn
      <3> QED BY <3>1, NextTurn
    <2>2. nth_segment' \in 0 .. S
      BY <1>1, SAssumption DEF Segments
    <2> QED BY <1>2, <2>1, <2>2 DEF IInv, TypeOK
  <1>4. SenderInv'
    BY <1>1, NextTurn DEF IInv, SenderInv
  <1>5. FromSenderInv'
    <2>1. /\ \A n \in Carried(from_sender[rr_index]) : n < nth_segment
          /\ \A n \in segment_array[rr_index] : n < nth_segment
      BY <1>1 DEF IInv, FromSenderInv, HeldInv
    <2>2. /\ nth_segment \notin Carried(from_sender[rr_index])
          /\ nth_segment \notin segment_array[rr_index]
      BY <1>1, <2>1
    <2>3. \A r \in Receivers : \A n \in Carried(from_sender[r]) :
            n < nth_segment' /\ n % N = r /\ n \notin segment_array[r]
      <3> SUFFICES ASSUME NEW r \in Receivers,
                          NEW n \in Carried(from_sender[r])
                   PROVE  n < nth_segment' /\ n % N = r
                            /\ n \notin segment_array[r]
        OBVIOUS
      <3>1. n \in Segments
        BY DEF IInv, TypeOK, Carried
      <3>2. n < nth_segment /\ n % N = r /\ n \notin segment_array[r]
        BY DEF IInv, FromSenderInv
      <3>3. n < nth_segment + 1
        BY <3>1, <3>2, <1>1, SAssumption DEF Segments
      <3> QED BY <3>2, <3>3
    <2>4. ~HasRepeat(from_sender'[rr_index])
      BY <2>2, <1>1, <1>2 DEF IInv, FromSenderInv
    <2>5. \A r \in Receivers : ~HasRepeat(from_sender'[r])
      BY <2>4, <1>2 DEF IInv, FromSenderInv
    <2> QED BY <1>1, <1>2, <2>2, <2>3, <2>5 DEF FromSenderInv
  <1>6. HeldInv'
    <2> SUFFICES ASSUME NEW r \in Receivers, NEW n \in segment_array[r]
                 PROVE  n < nth_segment + 1 /\ n \in segment_array[n % N]
      BY DEF HeldInv
    <2>1. n \in Segments /\ n < nth_segment /\ n \in segment_array[n % N]
      BY DEF IInv, TypeOK, HeldInv
    <2> QED BY <2>1, <1>1, SAssumption DEF Segments
  <1>7. LinkInv' /\ FloodInv' /\ CountInv' /\ MainInv' /\ SignalNotForgotten'
    BY DEF IInv, LinkInv, FloodInv, CountInv, MainInv, SignalNotForgotten
  <1>8. ReaderInv'
    BY SAssumption DEF IInv, TypeOK, ReaderInv
  <1>9. DealtInv'
    <2> SUFFICES ASSUME NEW r \in Receivers
                 PROVE  snd_i[r] + Len(from_sender'[r])
                            + (IF snd_pc[r] = "read" THEN 0 ELSE 1)
                                = SegmentsFor(r, nth_segment + 1, N)
      BY DEF DealtInv
    <2>1. snd_i[r] \in Nat /\ Len(from_sender[r]) \in Nat
      BY DEF IInv, TypeOK
    <2>2. snd_i[r] + Len(from_sender[r])
            + (IF snd_pc[r] = "read" THEN 0 ELSE 1)
                = SegmentsFor(r, nth_segment, N)
      BY DEF IInv, DealtInv
    <2>3. /\ SegmentsFor(r, nth_segment, N) \in Nat
          /\ SegmentsFor(r, nth_segment + 1, N) =
                SegmentsFor(r, nth_segment, N)
                    + (IF r = nth_segment % N THEN 1 ELSE 0)
      BY <1>1, NextDealt
    <2>4. CASE r = rr_index
      <3>1. Len(from_sender'[r]) = Len(from_sender[r]) + 1
        BY <1>2, <2>4
      <3>2. SegmentsFor(r, nth_segment + 1, N) =
                SegmentsFor(r, nth_segment, N) + 1
        BY <1>1, <2>3, <2>4
      <3>3. (IF snd_pc[r] = "read" THEN 0 ELSE 1) \in Nat
        OBVIOUS
      <3> QED BY <2>1, <2>2, <2>3, <3>1, <3>2, <3>3
    <2>5. CASE r # rr_index
      <3>1. from_sender'[r] = from_sender[r]
        BY <1>2, <2>5
      <3>2. SegmentsFor(r, nth_segment + 1, N) = SegmentsFor(r, nth_segment, N)
        BY <1>1, <2>3, <2>5
      <3> QED BY <2>2, <3>1, <3>2
    <2> QED BY <2>4, <2>5
  <1> QED BY <1>3, <1>4, <1>5, <1>6, <1>7, <1>8, <1>9 DEF IInv

LEMMA SenderCloseKeepsInv == ASSUME IInv, SenderClose PROVE IInv'
  <1> USE DEF SenderClose, AllSent, senderVars, countVars, sndVars, waitVars, mainVars
  <1>1. TypeOK'
    BY DEF IInv, TypeOK
  <1>2. SenderInv'
    BY SAssumption DEF IInv, TypeOK, SenderInv
  <1>3. FromSenderInv' /\ HeldInv' /\ LinkInv' /\ FloodInv' /\ CountInv'
            /\ MainInv' /\ ReaderInv' /\ DealtInv' /\ SignalNotForgotten'
    BY DEF IInv, FromSenderInv, HeldInv, LinkInv, FloodInv, CountInv, MainInv,
           ReaderInv, DealtInv, SignalNotForgotten
  <1> QED BY <1>1, <1>2, <1>3 DEF IInv

\* A segment a receiver does not have yet makes its counters one larger, and
\* leaves them at most S.
LEMMA NewSlot ==
    ASSUME TypeOK, CountInv, NEW r \in Receivers,
           NEW n \in Segments, n \notin segment_array[r]
    PROVE  /\ Cardinality(segment_array[r] \cup {n}) = current_segment_cnt[r] + 1
           /\ current_segment_cnt[r] + 1 \in 0 .. S
           /\ finished_segment_cnt[r] + 1 \in 0 .. S
           /\ finished_segment_cnt[r] < S
  <1>1. segment_array[r] \in SUBSET Segments
    BY DEF TypeOK
  <1>2. Cardinality(segment_array[r] \cup {n}) =
            Cardinality(segment_array[r]) + 1
    BY <1>1, SegmentCardinality
  <1>3. Cardinality(segment_array[r] \cup {n}) \in 0 .. S
    BY <1>1, SegmentCardinality
  <1>4. /\ current_segment_cnt[r] = Cardinality(segment_array[r])
        /\ current_segment_cnt[r] \in 0 .. S
        /\ finished_segment_cnt[r] \in 0 .. S
        /\ finished_segment_cnt[r] <= current_segment_cnt[r]
    <2>1. /\ finished_segment_cnt[r] \in 0 .. S
          /\ current_segment_cnt[r] \in 0 .. S
          /\ current_segment_cnt[r] = Cardinality(segment_array[r])
          /\ finished_segment_cnt[r] =
                current_segment_cnt[r] - (IF snd_pc[r] = "flood" THEN 1 ELSE 0)
      BY DEF TypeOK, CountInv
    <2>2. CASE snd_pc[r] = "flood"
      BY <2>1, <2>2, SAssumption
    <2>3. CASE snd_pc[r] # "flood"
      BY <2>1, <2>3, SAssumption
    <2> QED BY <2>1, <2>2, <2>3
  <1> QED BY <1>2, <1>3, <1>4, SAssumption

LEMMA ReadFromSenderKeepsInv ==
    ASSUME IInv, NEW r \in Receivers, ReadFromSender(r)
    PROVE  IInv'
  <1> USE DEF ReadFromSender, Flooded, senderVars, waitVars, mainVars
  <1> DEFINE n == Head(from_sender[r])
  <1>1. /\ from_sender[r] \in Seq(Segments) /\ from_sender[r] # << >>
        /\ Carried(from_sender[r]) = Carried(Tail(from_sender[r])) \cup {n}
        /\ Tail(from_sender[r]) \in Seq(Segments)
        /\ Len(Tail(from_sender[r])) = Len(from_sender[r]) - 1
        /\ n \in Segments
        /\ ~HasRepeat(from_sender[r]) =>
            ~HasRepeat(Tail(from_sender[r])) /\ n \notin Carried(Tail(from_sender[r]))
    BY TailStream DEF IInv, TypeOK
  <1>2. /\ segment_array' = [segment_array EXCEPT ![r] = @ \cup {n}]
        /\ flood_seg' = [flood_seg EXCEPT ![r] = n]
    OBVIOUS
  <1> HIDE DEF n
  <1>3. /\ n < nth_segment /\ n % N = r
        /\ \A p \in Receivers : n \notin segment_array[p]
    <2>1. n < nth_segment /\ n % N = r /\ n \notin segment_array[r]
      BY <1>1 DEF IInv, FromSenderInv
    <2> QED BY <2>1 DEF IInv, HeldInv
  <1>4. /\ Cardinality(segment_array[r] \cup {n}) = current_segment_cnt[r] + 1
        /\ current_segment_cnt[r] + 1 \in 0 .. S
    BY <1>1, <1>3, NewSlot DEF IInv
  <1>5. /\ segment_array'[r] = segment_array[r] \cup {n}
        /\ flood_seg'[r] = n
        /\ from_sender'[r] = Tail(from_sender[r])
        /\ current_segment_cnt'[r] = current_segment_cnt[r] + 1
        /\ flood_to'[r] = Peers(r)
        /\ snd_pc[r] = "read" /\ snd_pc'[r] = "flood"
        /\ \A p \in Receivers \ {r} :
            /\ segment_array'[p] = segment_array[p]
            /\ flood_seg'[p] = flood_seg[p]
            /\ from_sender'[p] = from_sender[p]
            /\ current_segment_cnt'[p] = current_segment_cnt[p]
            /\ flood_to'[p] = flood_to[p]
            /\ snd_pc'[p] = snd_pc[p]
    BY <1>2 DEF IInv, TypeOK
  <1>6. TypeOK'
    <2>1. segment_array' \in [Receivers -> SUBSET Segments]
      <3>1. segment_array \in [Receivers -> SUBSET Segments]
        BY DEF IInv, TypeOK
      <3>2. segment_array[r] \cup {n} \in SUBSET Segments
        BY <1>1, <3>1
      <3> QED BY <1>2, <3>1, <3>2
    <2>2. flood_seg' \in [Receivers -> Segments \cup {0}]
      BY <1>1, <1>2, <1>4 DEF IInv, TypeOK
    <2>3. from_sender' \in [Receivers -> Seq(Segments)]
      BY <1>1, <1>2, <1>4 DEF IInv, TypeOK
    <2>4. current_segment_cnt' \in [Receivers -> 0 .. S]
      BY <1>1, <1>2, <1>4 DEF IInv, TypeOK
    <2>5. flood_to' \in [Receivers -> SUBSET Receivers]
      BY <1>1, <1>2, <1>4 DEF IInv, TypeOK, Peers
    <2>6. snd_pc' \in [Receivers -> {"read", "flood", "signal"}]
      BY <1>1, <1>2, <1>4 DEF IInv, TypeOK
    <2> QED BY <2>1, <2>2, <2>3, <2>4, <2>5, <2>6 DEF IInv, TypeOK
  <1>7. SenderInv'
    BY DEF IInv, SenderInv
  <1>8. FromSenderInv'
    BY <1>1, <1>5 DEF IInv, FromSenderInv
  <1>9. HeldInv'
    BY <1>3, <1>5 DEF IInv, HeldInv
  <1>10. LinkInv'
    BY <1>3, <1>5 DEF IInv, LinkInv, Peers
  <1>11. FloodInv'
    <2>1. \A p \in Peers(r) : n \notin Carried(link[r][p])
      BY <1>3 DEF IInv, LinkInv, Peers
    <2>2. \A q \in Receivers \ {r} :
            snd_pc[q] = "flood" => flood_seg[q] # n
      BY <1>3 DEF IInv, FloodInv
    <2> QED BY <1>3, <1>5, <2>1, <2>2 DEF IInv, FloodInv, Peers
  <1>12. CountInv'
    <2>1. \A p \in Receivers : finished_segment_cnt'[p] = finished_segment_cnt[p]
      OBVIOUS
    <2>2. current_segment_cnt[r] \in Nat
      BY SAssumption DEF IInv, TypeOK
    <2>3. finished_segment_cnt[r] = current_segment_cnt[r]
      BY <1>5, <2>2 DEF IInv, CountInv
    <2>4. /\ current_segment_cnt'[r] = Cardinality(segment_array'[r])
          /\ finished_segment_cnt'[r] = current_segment_cnt'[r] - 1
      <3>1. finished_segment_cnt'[r] = current_segment_cnt[r]
        BY <2>1, <2>3
      <3>2. current_segment_cnt'[r] = Cardinality(segment_array'[r])
        BY <1>4, <1>5
      <3>3. current_segment_cnt'[r] = current_segment_cnt[r] + 1
        BY <1>5
      <3> HIDE DEF ReadFromSender
      <3> QED BY <2>2, <3>1, <3>2, <3>3
    <2>5. \A p \in Receivers \ {r} :
            /\ current_segment_cnt'[p] = Cardinality(segment_array'[p])
            /\ finished_segment_cnt'[p] =
                current_segment_cnt'[p]
                    - (IF snd_pc'[p] = "flood" THEN 1 ELSE 0)
      BY <1>5, <2>1 DEF IInv, CountInv
    <2> QED BY <1>5, <2>4, <2>5 DEF CountInv
  <1>13. MainInv'
    BY DEF IInv, MainInv
  <1>14. ReaderInv'
    BY <1>1, <1>5 DEF IInv, ReaderInv, Peers
  <1>15. DealtInv'
    <2>1. snd_i[r] \in Nat /\ Len(from_sender[r]) \in Nat
      BY <1>1 DEF IInv, TypeOK
    <2>2. snd_i[r] + Len(from_sender[r]) = SegmentsFor(r, nth_segment, N)
      BY <1>5, <2>1 DEF IInv, DealtInv
    <2>3. snd_i[r] + Len(from_sender'[r]) + 1 = SegmentsFor(r, nth_segment, N)
      <3>1. Len(from_sender'[r]) = Len(from_sender[r]) - 1
        BY <1>1, <1>5
      <3> HIDE DEF ReadFromSender
      <3> QED BY <3>1, <2>1, <2>2
    <2>4. \A p \in Receivers \ {r} :
            snd_i[p] + Len(from_sender'[p])
                + (IF snd_pc'[p] = "read" THEN 0 ELSE 1)
                    = SegmentsFor(p, nth_segment, N)
      BY <1>5 DEF IInv, DealtInv
    <2> QED BY <1>5, <2>3, <2>4 DEF DealtInv
  <1>16. SignalNotForgotten'
    BY <1>5 DEF IInv, SignalNotForgotten
  <1> QED BY <1>6, <1>7, <1>8, <1>9, <1>10, <1>11, <1>12, <1>13, <1>14, <1>15,
             <1>16 DEF IInv


LEMMA FloodWriteKeepsInv ==
    ASSUME IInv, NEW r \in Receivers, NEW q \in Peers(r), FloodWrite(r, q)
    PROVE  IInv'
  <1> USE DEF FloodWrite, senderVars, countVars, waitVars, mainVars
  <1>1. /\ q \in Receivers /\ q # r /\ r \in Peers(q)
        /\ link[r][q] \in Seq(Segments)
        /\ flood_seg[r] \in Segments /\ snd_pc[r] = "flood"
        /\ flood_seg[r] \in segment_array[r] /\ flood_seg[r] % N = r
        /\ flood_seg[r] \notin segment_array[q]
        /\ flood_seg[r] \notin Carried(link[r][q])
    <2>1. q \in Receivers /\ q # r /\ r \in Peers(q)
      BY DEF Peers
    <2> QED BY <2>1 DEF IInv, TypeOK, FloodInv
  <1>2. /\ link'[r][q] = Append(link[r][q], flood_seg[r])
        /\ \A p, o \in Receivers :
            ~(p = r /\ o = q) => link'[p][o] = link[p][o]
        /\ flood_to'[r] = flood_to[r] \ {q}
        /\ \A p \in Receivers \ {r} : flood_to'[p] = flood_to[p]
    BY <1>1 DEF IInv, TypeOK
  <1>3. /\ link'[r][q] \in Seq(Segments)
        /\ Carried(link'[r][q]) = Carried(link[r][q]) \cup {flood_seg[r]}
        /\ ~HasRepeat(link[r][q]) => ~HasRepeat(link'[r][q])
    BY <1>1, <1>2, AppendStream
  <1>4. TypeOK'
    <2>1. link' \in [Receivers -> [Receivers -> Seq(Segments)]]
      <3>1. link' = [link EXCEPT ![r][q] = link'[r][q]]
        BY <1>2 DEF IInv, TypeOK
      <3> QED BY <1>1, <1>3, <3>1 DEF IInv, TypeOK
    <2>2. flood_to' \in [Receivers -> SUBSET Receivers]
      BY <1>1, <1>2 DEF IInv, TypeOK
    <2> QED BY <2>1, <2>2 DEF IInv, TypeOK
  <1>5. LinkInv'
    BY <1>1, <1>2, <1>3 DEF IInv, LinkInv, Peers
  <1>6. FloodInv'
    BY <1>1, <1>2, <1>3 DEF IInv, FloodInv, Peers
  <1>7. ReaderInv'
    <2>1. rcv_pc[q][r] \notin {"signal", "done"}
      BY <1>1 DEF IInv, ReaderInv
    <2> QED BY <1>1, <1>2, <2>1 DEF IInv, ReaderInv, Peers
  <1>8. SenderInv' /\ FromSenderInv' /\ HeldInv' /\ CountInv' /\ MainInv'
            /\ DealtInv' /\ SignalNotForgotten'
    BY DEF IInv, SenderInv, FromSenderInv, HeldInv, CountInv, MainInv,
           DealtInv, SignalNotForgotten
  <1> QED BY <1>4, <1>5, <1>6, <1>7, <1>8 DEF IInv

LEMMA FloodCountKeepsInv ==
    ASSUME IInv, NEW r \in Receivers, FloodCount(r)
    PROVE  IInv'
  <1> USE DEF FloodCount, senderVars, waitVars, mainVars
  <1>1. /\ finished_segment_cnt[r] \in 0 .. S
        /\ current_segment_cnt[r] \in 0 .. S
        /\ finished_segment_cnt[r] = current_segment_cnt[r] - 1
    BY DEF IInv, TypeOK, CountInv
  <1>2. /\ finished_segment_cnt'[r] = current_segment_cnt[r]
        /\ snd_pc[r] = "flood" /\ snd_pc'[r] = "signal"
        /\ \A p \in Receivers \ {r} :
            /\ finished_segment_cnt'[p] = finished_segment_cnt[p]
            /\ snd_pc'[p] = snd_pc[p]
    BY <1>1, SAssumption DEF IInv, TypeOK
  <1>3. TypeOK'
    <2>1. /\ finished_segment_cnt' \in [Receivers -> 0 .. S]
          /\ snd_pc' \in [Receivers -> {"read", "flood", "signal"}]
      BY <1>1, <1>2 DEF IInv, TypeOK
    <2> QED BY <2>1 DEF IInv, TypeOK
  <1>4. FloodInv'
    BY <1>2 DEF IInv, FloodInv
  <1>5. CountInv'
    <2>1. /\ current_segment_cnt'[r] = Cardinality(segment_array'[r])
          /\ finished_segment_cnt'[r] = current_segment_cnt'[r] - 0
      BY <1>1, <1>2, SAssumption DEF IInv, CountInv
    <2>2. \A p \in Receivers \ {r} :
            /\ current_segment_cnt'[p] = Cardinality(segment_array'[p])
            /\ finished_segment_cnt'[p] =
                current_segment_cnt'[p]
                    - (IF snd_pc'[p] = "flood" THEN 1 ELSE 0)
      BY <1>2 DEF IInv, CountInv
    <2> QED BY <1>2, <2>1, <2>2 DEF CountInv
  <1>6. MainInv'
    <2>1. ~signalled[r]
      BY <1>1, SAssumption DEF IInv, MainInv
    <2> QED BY <1>2, <2>1 DEF IInv, MainInv
  <1>7. DealtInv'
    BY <1>2 DEF IInv, DealtInv
  <1>8. SignalNotForgotten'
    BY <1>2 DEF IInv, SignalNotForgotten
  <1>9. SenderInv' /\ FromSenderInv' /\ HeldInv' /\ LinkInv' /\ ReaderInv'
    BY DEF IInv, SenderInv, FromSenderInv, HeldInv, LinkInv, ReaderInv
  <1> QED BY <1>3, <1>4, <1>5, <1>6, <1>7, <1>8, <1>9 DEF IInv

\* A signal is given when everything is finished, to a waiting main or in vain.
LEMMA SignalEffect ==
    ASSUME TypeOK, NEW r \in Receivers, SignalIfFinished(r)
    PROVE  /\ signalled'[r] => signalled[r] \/ finished_segment_cnt[r] >= S
           /\ signalled[r] => signalled'[r]
           /\ missed[r] => missed'[r] \/ signalled'[r]
           /\ finished_segment_cnt[r] >= S => signalled'[r] \/ missed'[r]
           /\ \A p \in Receivers \ {r} :
                signalled'[p] = signalled[p] /\ missed'[p] = missed[p]
           /\ signalled' \in [Receivers -> BOOLEAN]
           /\ missed' \in [Receivers -> BOOLEAN]
  <1> DEFINE enough == finished_segment_cnt[r] >= S
  <1>1. SignalIf(r, enough)
    BY DEF SignalIfFinished
  <1> HIDE DEF enough
  <1>2. signalled \in [Receivers -> BOOLEAN] /\ missed \in [Receivers -> BOOLEAN]
    BY DEF TypeOK
  <1>3. CASE enough /\ ~signalled[r]
    <2>1. PICK waiting \in BOOLEAN :
            /\ signalled' = [signalled EXCEPT ![r] = waiting]
            /\ missed' = [missed EXCEPT ![r] = ~waiting]
      BY <1>1, <1>3 DEF SignalIf
    <2>2. /\ signalled' \in [Receivers -> BOOLEAN]
          /\ missed' \in [Receivers -> BOOLEAN]
      BY <2>1, <1>2, Zenon
    <2>3. /\ signalled'[r] = waiting /\ missed'[r] = ~waiting
          /\ \A p \in Receivers \ {r} :
                signalled'[p] = signalled[p] /\ missed'[p] = missed[p]
      BY <2>1, <1>2
    <2> QED BY <1>3, <2>2, <2>3 DEF enough
  <1>4. CASE ~(enough /\ ~signalled[r])
    BY <1>1, <1>2, <1>4 DEF SignalIf, enough, waitVars
  <1> QED BY <1>3, <1>4

LEMMA FloodSignalKeepsInv ==
    ASSUME IInv, NEW r \in Receivers, FloodSignal(r)
    PROVE  IInv'
  <1> USE DEF FloodSignal, senderVars, countVars, waitVars, mainVars
  <1>1. /\ snd_pc[r] = "signal" /\ snd_pc'[r] = "read"
        /\ snd_i'[r] = snd_i[r] + 1
        /\ \A p \in Receivers \ {r} :
            snd_pc'[p] = snd_pc[p] /\ snd_i'[p] = snd_i[p]
    BY DEF IInv, TypeOK
  <1>2. /\ signalled'[r] => signalled[r] \/ finished_segment_cnt[r] >= S
        /\ signalled[r] => signalled'[r]
        /\ missed[r] => missed'[r] \/ signalled'[r]
        /\ finished_segment_cnt[r] >= S => signalled'[r] \/ missed'[r]
        /\ \A p \in Receivers \ {r} :
            signalled'[p] = signalled[p] /\ missed'[p] = missed[p]
        /\ signalled' \in [Receivers -> BOOLEAN]
        /\ missed' \in [Receivers -> BOOLEAN]
    BY SignalEffect DEF IInv
  <1>3. TypeOK'
    <2>1. /\ snd_pc' \in [Receivers -> {"read", "flood", "signal"}]
          /\ snd_i' \in [Receivers -> Nat]
      BY <1>1 DEF IInv, TypeOK
    <2> QED BY <1>2, <2>1 DEF IInv, TypeOK
  <1>4. FloodInv' /\ CountInv'
    BY <1>1 DEF IInv, FloodInv, CountInv
  <1>5. MainInv'
    <2>1. finished_segment_cnt[r] >= S => finished_segment_cnt[r] = S
      BY SAssumption DEF IInv, TypeOK
    <2> QED BY <1>2, <2>1 DEF IInv, MainInv
  <1>6. DealtInv'
    <2>1. /\ snd_i'[r] + Len(from_sender[r]) + 0
                = SegmentsFor(r, nth_segment, N)
      <3>1. snd_i[r] \in Nat /\ Len(from_sender[r]) \in Nat
        BY DEF IInv, TypeOK
      <3>2. snd_i[r] + Len(from_sender[r]) + 1 = SegmentsFor(r, nth_segment, N)
        BY <1>1 DEF IInv, DealtInv
      <3>3. snd_i'[r] = snd_i[r] + 1
        BY <1>1
      <3> HIDE DEF FloodSignal
      <3> QED BY <3>1, <3>2, <3>3
    <2> QED BY <1>1, <2>1 DEF IInv, DealtInv
  <1>7. SignalNotForgotten'
    BY <1>1, <1>2 DEF IInv, SignalNotForgotten
  <1>8. SenderInv' /\ FromSenderInv' /\ HeldInv' /\ LinkInv' /\ ReaderInv'
    BY DEF IInv, SenderInv, FromSenderInv, HeldInv, LinkInv, ReaderInv
  <1> QED BY <1>3, <1>4, <1>5, <1>6, <1>7, <1>8 DEF IInv


LEMMA ReadFromPeerKeepsInv ==
    ASSUME IInv, NEW r \in Receivers, NEW q \in Peers(r), ReadFromPeer(r, q)
    PROVE  IInv'
  <1> USE DEF ReadFromPeer, ReadersRun, senderVars, sndVars, waitVars, mainVars
  <1> DEFINE n == Head(link[q][r])
  <1>1. /\ q \in Receivers /\ q # r /\ r \in Peers(q)
        /\ link[q][r] \in Seq(Segments) /\ link[q][r] # << >>
    BY DEF IInv, TypeOK, Peers
  <1>2. /\ Carried(link[q][r]) = Carried(Tail(link[q][r])) \cup {n}
        /\ Tail(link[q][r]) \in Seq(Segments)
        /\ n \in Segments
        /\ ~HasRepeat(link[q][r]) =>
            ~HasRepeat(Tail(link[q][r])) /\ n \notin Carried(Tail(link[q][r]))
    BY <1>1, TailStream
  <1>3. segment_array' = [segment_array EXCEPT ![r] = @ \cup {n}]
    OBVIOUS
  <1> HIDE DEF n
  <1>4. /\ n % N = q /\ n \in segment_array[q] /\ n \notin segment_array[r]
        /\ n < nth_segment
    BY <1>1, <1>2 DEF IInv, LinkInv, HeldInv
  <1>5. /\ Cardinality(segment_array[r] \cup {n}) = current_segment_cnt[r] + 1
        /\ current_segment_cnt[r] + 1 \in 0 .. S
        /\ finished_segment_cnt[r] + 1 \in 0 .. S
        /\ finished_segment_cnt[r] < S
    BY <1>2, <1>4, NewSlot DEF IInv
  <1>6. /\ segment_array'[r] = segment_array[r] \cup {n}
        /\ link'[q][r] = Tail(link[q][r])
        /\ current_segment_cnt'[r] = current_segment_cnt[r] + 1
        /\ finished_segment_cnt'[r] = finished_segment_cnt[r] + 1
        /\ \A p \in Receivers \ {r} :
            /\ segment_array'[p] = segment_array[p]
            /\ current_segment_cnt'[p] = current_segment_cnt[p]
            /\ finished_segment_cnt'[p] = finished_segment_cnt[p]
        /\ \A p, o \in Receivers :
            ~(p = q /\ o = r) => link'[p][o] = link[p][o]
    BY <1>1, <1>3 DEF IInv, TypeOK
  <1>7. /\ rcv_pc[r][q] = "read" /\ rcv_pc'[r][q] = "check"
        /\ DOMAIN rcv_pc' = Receivers
        /\ rcv_pc'[r] \in [Peers(r) -> {"read", "check", "signal", "done"}]
        /\ \A p \in Receivers : \A o \in Peers(p) :
            ~(p = r /\ o = q) => rcv_pc'[p][o] = rcv_pc[p][o]
        /\ \A p \in Receivers \ {r} : rcv_pc'[p] = rcv_pc[p]
    BY DEF IInv, TypeOK
  <1>8. TypeOK'
    <2>1. /\ segment_array' \in [Receivers -> SUBSET Segments]
          /\ link' \in [Receivers -> [Receivers -> Seq(Segments)]]
          /\ current_segment_cnt' \in [Receivers -> 0 .. S]
          /\ finished_segment_cnt' \in [Receivers -> 0 .. S]
      <3>1. segment_array' \in [Receivers -> SUBSET Segments]
        <4>1. segment_array \in [Receivers -> SUBSET Segments]
          BY DEF IInv, TypeOK
        <4>2. segment_array[r] \cup {n} \in SUBSET Segments
          BY <1>2, <4>1
        <4> HIDE DEF ReadFromPeer
        <4> QED BY <1>3, <4>1, <4>2
      <3>2. link' \in [Receivers -> [Receivers -> Seq(Segments)]]
        BY <1>1, <1>2 DEF IInv, TypeOK
      <3>3. /\ current_segment_cnt' \in [Receivers -> 0 .. S]
            /\ finished_segment_cnt' \in [Receivers -> 0 .. S]
        BY <1>5 DEF IInv, TypeOK
      <3> QED BY <3>1, <3>2, <3>3
    <2>2. \A p \in Receivers :
            rcv_pc'[p] \in [Peers(p) -> {"read", "check", "signal", "done"}]
      BY <1>7 DEF IInv, TypeOK
    <2> QED BY <1>7, <2>1, <2>2 DEF IInv, TypeOK
  <1>9. FromSenderInv'
    BY <1>1, <1>4, <1>6 DEF IInv, FromSenderInv
  <1>10. HeldInv'
    BY <1>1, <1>4, <1>6 DEF IInv, HeldInv
  <1>11. LinkInv'
    <2> SUFFICES ASSUME NEW p \in Receivers, NEW o \in Peers(p)
                 PROVE  /\ ~HasRepeat(link'[o][p])
                        /\ \A m \in Carried(link'[o][p]) :
                            /\ m % N = o
                            /\ m \in segment_array'[o]
                            /\ m \notin segment_array'[p]
      BY DEF LinkInv
    <2>1. o \in Receivers /\ o # p
      BY DEF Peers
    <2>2. CASE p = r /\ o = q
      BY <1>1, <1>2, <1>6, <2>2 DEF IInv, LinkInv
    <2>3. CASE ~(p = r /\ o = q)
      BY <1>4, <1>6, <2>1, <2>3 DEF IInv, LinkInv
    <2> QED BY <2>2, <2>3
  <1>12. FloodInv'
    <2> SUFFICES ASSUME NEW p \in Receivers, snd_pc[p] = "flood"
                 PROVE  /\ flood_seg[p] \in segment_array'[p]
                        /\ flood_seg[p] % N = p
                        /\ \A o \in flood_to[p] :
                            /\ flood_seg[p] \notin segment_array'[o]
                            /\ flood_seg[p] \notin Carried(link'[p][o])
      BY DEF IInv, FloodInv
    <2>1. /\ flood_seg[p] \in segment_array'[p]
          /\ flood_seg[p] % N = p
      BY <1>6 DEF IInv, FloodInv
    <2>2. ASSUME NEW o \in flood_to[p]
          PROVE  /\ flood_seg[p] \notin segment_array'[o]
                 /\ flood_seg[p] \notin Carried(link'[p][o])
      <3>1. /\ o \in Receivers
            /\ flood_seg[p] \notin segment_array[o]
            /\ flood_seg[p] \notin Carried(link[p][o])
        BY DEF IInv, TypeOK, FloodInv
      <3>2. CASE p = q /\ o = r
        BY <1>2, <1>6, <3>1, <3>2
      <3>3. CASE ~(p = q /\ o = r)
        BY <1>4, <1>6, <2>1, <3>1, <3>3
      <3> QED BY <3>2, <3>3
    <2> QED BY <2>1, <2>2
  <1>13. CountInv'
    <2>1. /\ current_segment_cnt[r] \in Nat
          /\ finished_segment_cnt[r] =
                current_segment_cnt[r] - (IF snd_pc[r] = "flood" THEN 1 ELSE 0)
      BY SAssumption DEF IInv, TypeOK, CountInv
    <2>2. /\ current_segment_cnt'[r] = Cardinality(segment_array'[r])
          /\ finished_segment_cnt'[r] =
                current_segment_cnt'[r] - (IF snd_pc[r] = "flood" THEN 1 ELSE 0)
      <3>1. (IF snd_pc[r] = "flood" THEN 1 ELSE 0) \in Nat
        OBVIOUS
      <3> HIDE DEF ReadFromPeer
      <3> QED BY <1>5, <1>6, <2>1, <3>1
    <2>3. \A p \in Receivers \ {r} :
            /\ current_segment_cnt'[p] = Cardinality(segment_array'[p])
            /\ finished_segment_cnt'[p] =
                current_segment_cnt'[p]
                    - (IF snd_pc[p] = "flood" THEN 1 ELSE 0)
      BY <1>6 DEF IInv, CountInv
    <2> QED BY <2>2, <2>3 DEF CountInv
  <1>14. MainInv'
    <2>1. ~signalled[r]
      BY <1>5, SAssumption DEF IInv, MainInv
    <2> QED BY <1>6, <2>1 DEF IInv, MainInv
  <1>15. ReaderInv'
    <2>1. \A p \in Receivers : \A o \in Peers(p) :
            rcv_pc'[p][o] \in {"signal", "done"} =>
                rcv_pc[p][o] \in {"signal", "done"} /\ ~(p = r /\ o = q)
      BY <1>7
    <2> QED BY <1>6, <2>1 DEF IInv, ReaderInv, Peers
  <1>16. SignalNotForgotten'
    BY <1>6, <1>7 DEF IInv, SignalNotForgotten
  <1>17. SenderInv' /\ DealtInv'
    BY DEF IInv, SenderInv, DealtInv
  <1> QED BY <1>8, <1>9, <1>10, <1>11, <1>12, <1>13, <1>14, <1>15, <1>16,
             <1>17 DEF IInv

\* A receiver that has finished everything has every segment and floods none;
\* one that has every segment has nothing more to get, and the sender nothing
\* more to send.
LEMMA NothingLeft ==
    ASSUME IInv, NEW r \in Receivers
    PROVE  /\ finished_segment_cnt[r] >= S \/ current_segment_cnt[r] >= S =>
                /\ current_segment_cnt[r] = S
                /\ segment_array[r] = Segments
           /\ finished_segment_cnt[r] >= S =>
                snd_pc[r] # "flood" /\ flood_to[r] = {}
           /\ segment_array[r] = Segments =>
                /\ nth_segment = S
                /\ \A q \in Receivers : from_sender[q] = << >>
                /\ \A q \in Peers(r) :
                    link[q][r] = << >> /\ r \notin flood_to[q]
  <1>1. /\ segment_array[r] \in SUBSET Segments
        /\ current_segment_cnt[r] \in 0 .. S
        /\ finished_segment_cnt[r] \in 0 .. S
        /\ current_segment_cnt[r] = Cardinality(segment_array[r])
        /\ snd_pc[r] = "flood" =>
            finished_segment_cnt[r] = current_segment_cnt[r] - 1
        /\ snd_pc[r] # "flood" =>
            finished_segment_cnt[r] = current_segment_cnt[r] - 0
    BY DEF IInv, TypeOK, CountInv
  <1>2. finished_segment_cnt[r] >= S =>
            snd_pc[r] # "flood" /\ current_segment_cnt[r] = S
    BY <1>1, SAssumption
  <1>3. current_segment_cnt[r] >= S => current_segment_cnt[r] = S
    BY <1>1, SAssumption
  <1>4. current_segment_cnt[r] = S => segment_array[r] = Segments
    BY <1>1, SegmentCardinality
  <1>5. snd_pc[r] # "flood" => flood_to[r] = {}
    BY DEF IInv, FloodInv
  <1>6. ASSUME segment_array[r] = Segments
        PROVE  /\ nth_segment = S
               /\ \A q \in Receivers : from_sender[q] = << >>
               /\ \A q \in Peers(r) :
                    link[q][r] = << >> /\ r \notin flood_to[q]
    <2>1. nth_segment = S
      <3>1. nth_segment \in 0 .. S
        BY DEF IInv, TypeOK
      <3>2. CASE S = 0
        BY <3>1, <3>2
      <3>3. CASE S # 0
        <4>1. S - 1 \in segment_array[r]
          BY <1>6, <3>3, SAssumption DEF Segments
        <4>2. S - 1 < nth_segment
          BY <4>1 DEF IInv, HeldInv
        <4> QED BY <3>1, <4>2, SAssumption
      <3> QED BY <3>2, <3>3
    <2>2. ASSUME NEW q \in Receivers
          PROVE  from_sender[q] = << >>
      <3>1. from_sender[q] \in Seq(Segments)
        BY DEF IInv, TypeOK
      <3>2. ASSUME NEW n \in Carried(from_sender[q])
            PROVE  FALSE
        <4>1. n \in segment_array[r]
          BY <1>6, <3>1 DEF Carried
        <4>2. n % N = q /\ n \notin segment_array[q]
          BY DEF IInv, FromSenderInv
        <4> QED BY <4>1, <4>2 DEF IInv, HeldInv
      <3> QED BY <3>1, <3>2, EmptyStream
    <2>3. ASSUME NEW q \in Peers(r)
          PROVE  link[q][r] = << >> /\ r \notin flood_to[q]
      <3>1. q \in Receivers /\ link[q][r] \in Seq(Segments)
        BY DEF IInv, TypeOK, Peers
      <3>2. ASSUME NEW n \in Carried(link[q][r])
            PROVE  FALSE
        <4>1. n \in segment_array[r]
          BY <1>6, <3>1 DEF Carried
        <4> QED BY <4>1 DEF IInv, LinkInv
      <3>3. link[q][r] = << >>
        BY <3>1, <3>2, EmptyStream
      <3>4. ASSUME r \in flood_to[q]
            PROVE  FALSE
        <4>1. /\ flood_seg[q] \in segment_array[q]
              /\ flood_seg[q] \notin segment_array[r]
          BY <3>1, <3>4 DEF IInv, FloodInv
        <4> QED BY <1>6, <3>1, <4>1 DEF IInv, TypeOK
      <3> QED BY <3>3, <3>4
    <2> QED BY <2>1, <2>2, <2>3
  <1> QED BY <1>1, <1>2, <1>3, <1>4, <1>5, <1>6


LEMMA CheckReceivedKeepsInv ==
    ASSUME IInv, NEW r \in Receivers, NEW q \in Peers(r), CheckReceived(r, q)
    PROVE  IInv'
  <1> USE DEF CheckReceived, Received, senderVars, countVars, sndVars, waitVars, mainVars
  <1>1. /\ rcv_pc[r][q] = "check"
        /\ current_segment_cnt[r] >= S => rcv_pc'[r][q] = "signal"
        /\ ~(current_segment_cnt[r] >= S) => rcv_pc'[r][q] = "read"
        /\ DOMAIN rcv_pc' = Receivers
        /\ rcv_pc'[r] \in [Peers(r) -> {"read", "check", "signal", "done"}]
        /\ \A p \in Receivers : \A o \in Peers(p) :
            ~(p = r /\ o = q) => rcv_pc'[p][o] = rcv_pc[p][o]
        /\ \A p \in Receivers \ {r} : rcv_pc'[p] = rcv_pc[p]
    BY DEF IInv, TypeOK
  <1>2. TypeOK'
    <2>1. \A p \in Receivers :
            rcv_pc'[p] \in [Peers(p) -> {"read", "check", "signal", "done"}]
      BY <1>1 DEF IInv, TypeOK
    <2> QED BY <1>1, <2>1 DEF IInv, TypeOK
  <1>3. ReaderInv'
    <2>1. rcv_pc'[r][q] = "signal" =>
            /\ nth_segment = S
            /\ link[q][r] = << >>
            /\ r \notin flood_to[q]
            /\ from_sender[q] = << >>
      BY <1>1, NothingLeft DEF Peers
    <2> QED BY <1>1, <2>1 DEF IInv, ReaderInv
  <1>4. SignalNotForgotten'
    <2>1. finished_segment_cnt[r] >= S => current_segment_cnt[r] >= S
      <3>1. finished_segment_cnt[r] >= S => current_segment_cnt[r] = S
        BY NothingLeft
      <3> QED BY <3>1, SAssumption
    <2> QED BY <1>1, <2>1 DEF IInv, SignalNotForgotten
  <1>5. SenderInv' /\ FromSenderInv' /\ HeldInv' /\ LinkInv' /\ FloodInv'
            /\ CountInv' /\ MainInv' /\ DealtInv'
    BY DEF IInv, SenderInv, FromSenderInv, HeldInv, LinkInv, FloodInv,
           CountInv, MainInv, DealtInv
  <1> QED BY <1>2, <1>3, <1>4, <1>5 DEF IInv

LEMMA PeerEofKeepsInv ==
    ASSUME IInv, NEW r \in Receivers, NEW q \in Peers(r), PeerEof(r, q)
    PROVE  IInv'
  <1> USE DEF PeerEof, senderVars, countVars, sndVars, waitVars, mainVars
  <1>1. /\ rcv_pc'[r][q] = "signal"
        /\ DOMAIN rcv_pc' = Receivers
        /\ rcv_pc'[r] \in [Peers(r) -> {"read", "check", "signal", "done"}]
        /\ \A p \in Receivers : \A o \in Peers(p) :
            ~(p = r /\ o = q) => rcv_pc'[p][o] = rcv_pc[p][o]
        /\ \A p \in Receivers \ {r} : rcv_pc'[p] = rcv_pc[p]
    BY DEF IInv, TypeOK
  <1>2. TypeOK'
    <2>1. \A p \in Receivers :
            rcv_pc'[p] \in [Peers(p) -> {"read", "check", "signal", "done"}]
      BY <1>1 DEF IInv, TypeOK
    <2> QED BY <1>1, <2>1 DEF IInv, TypeOK
  <1>3. ReaderInv'
    <2>1. q \in Receivers /\ finished_segment_cnt[q] = S
      BY DEF IInv, MainInv, Peers
    <2>2. finished_segment_cnt[q] >= S
      BY <2>1, SAssumption
    <2>3. /\ nth_segment = S /\ link[q][r] = << >>
          /\ r \notin flood_to[q] /\ from_sender[q] = << >>
      BY <2>1, <2>2, NothingLeft
    <2> QED BY <1>1, <2>3 DEF IInv, ReaderInv
  <1>4. SignalNotForgotten'
    BY <1>1 DEF IInv, SignalNotForgotten
  <1>5. SenderInv' /\ FromSenderInv' /\ HeldInv' /\ LinkInv' /\ FloodInv'
            /\ CountInv' /\ MainInv' /\ DealtInv'
    BY DEF IInv, SenderInv, FromSenderInv, HeldInv, LinkInv, FloodInv,
           CountInv, MainInv, DealtInv
  <1> QED BY <1>2, <1>3, <1>4, <1>5 DEF IInv

LEMMA PeerSignalKeepsInv ==
    ASSUME IInv, NEW r \in Receivers, NEW q \in Peers(r), PeerSignal(r, q)
    PROVE  IInv'
  <1> USE DEF PeerSignal, senderVars, countVars, sndVars, waitVars, mainVars
  <1>1. /\ rcv_pc[r][q] = "signal" /\ rcv_pc'[r][q] = "done"
        /\ DOMAIN rcv_pc' = Receivers
        /\ rcv_pc'[r] \in [Peers(r) -> {"read", "check", "signal", "done"}]
        /\ \A p \in Receivers : \A o \in Peers(p) :
            ~(p = r /\ o = q) => rcv_pc'[p][o] = rcv_pc[p][o]
        /\ \A p \in Receivers \ {r} : rcv_pc'[p] = rcv_pc[p]
    BY DEF IInv, TypeOK
  <1>2. /\ signalled'[r] => signalled[r] \/ finished_segment_cnt[r] >= S
        /\ signalled[r] => signalled'[r]
        /\ missed[r] => missed'[r] \/ signalled'[r]
        /\ finished_segment_cnt[r] >= S => signalled'[r] \/ missed'[r]
        /\ \A p \in Receivers \ {r} :
            signalled'[p] = signalled[p] /\ missed'[p] = missed[p]
        /\ signalled' \in [Receivers -> BOOLEAN]
        /\ missed' \in [Receivers -> BOOLEAN]
    BY SignalEffect DEF IInv
  <1>3. TypeOK'
    <2>1. \A p \in Receivers :
            rcv_pc'[p] \in [Peers(p) -> {"read", "check", "signal", "done"}]
      BY <1>1 DEF IInv, TypeOK
    <2> QED BY <1>1, <1>2, <2>1 DEF IInv, TypeOK
  <1>4. MainInv'
    <2>1. finished_segment_cnt[r] >= S => finished_segment_cnt[r] = S
      BY SAssumption DEF IInv, TypeOK
    <2> QED BY <1>2, <2>1 DEF IInv, MainInv
  <1>5. ReaderInv'
    BY <1>1 DEF IInv, ReaderInv
  <1>6. SignalNotForgotten'
    BY <1>1, <1>2 DEF IInv, SignalNotForgotten
  <1>7. SenderInv' /\ FromSenderInv' /\ HeldInv' /\ LinkInv' /\ FloodInv'
            /\ CountInv' /\ DealtInv'
    BY DEF IInv, SenderInv, FromSenderInv, HeldInv, LinkInv, FloodInv,
           CountInv, DealtInv
  <1> QED BY <1>3, <1>4, <1>5, <1>6, <1>7 DEF IInv

LEMMA ExitKeepsInv ==
    ASSUME IInv, NEW r \in Receivers, Exit(r)
    PROVE  IInv'
  <1> USE DEF Exit, senderVars, countVars, sndVars, waitVars
  <1>1. current_segment_cnt[r] = S
    <2>1. finished_segment_cnt[r] >= S
      BY SAssumption DEF IInv, MainInv
    <2> QED BY <2>1, NothingLeft
  <1>2. /\ file'[r] = Segments /\ exited'[r] = TRUE
        /\ \A p \in Receivers \ {r} :
            file'[p] = file[p] /\ exited'[p] = exited[p]
    BY <1>1 DEF IInv, TypeOK, Segments
  <1>3. TypeOK'
    <2>1. file' \in [Receivers -> SUBSET Segments]
      BY <1>1 DEF IInv, TypeOK, Segments
    <2>2. exited' \in [Receivers -> BOOLEAN]
      BY Zenon DEF IInv, TypeOK
    <2> QED BY <2>1, <2>2 DEF IInv, TypeOK
  <1>4. MainInv'
    BY <1>2 DEF IInv, MainInv
  <1>5. SenderInv' /\ FromSenderInv' /\ HeldInv' /\ LinkInv' /\ FloodInv'
            /\ CountInv' /\ ReaderInv' /\ DealtInv' /\ SignalNotForgotten'
    BY DEF IInv, SenderInv, FromSenderInv, HeldInv, LinkInv, FloodInv,
           CountInv, ReaderInv, DealtInv, SignalNotForgotten
  <1> QED BY <1>3, <1>4, <1>5 DEF IInv

LEMMA NextKeepsInv == ASSUME IInv, [Next]_vars PROVE IInv'
  <1>1. CASE SenderStep
    BY <1>1, SendSegmentKeepsInv, SenderCloseKeepsInv DEF SenderStep
  <1>2. ASSUME NEW r \in Receivers, SndThread(r)
        PROVE  IInv'
    BY <1>2, ReadFromSenderKeepsInv, FloodWriteKeepsInv, FloodCountKeepsInv,
       FloodSignalKeepsInv DEF SndThread
  <1>3. ASSUME NEW r \in Receivers, NEW q \in Peers(r), RcvThread(r, q)
        PROVE  IInv'
    BY <1>3, ReadFromPeerKeepsInv, CheckReceivedKeepsInv, PeerEofKeepsInv,
       PeerSignalKeepsInv DEF RcvThread
  <1>4. ASSUME NEW r \in Receivers, Exit(r)
        PROVE  IInv'
    BY <1>4, ExitKeepsInv
  <1>5. CASE UNCHANGED vars
    <2> USE <1>5 DEF vars, senderVars, countVars, sndVars, waitVars, mainVars
    <2>1. TypeOK'
      BY DEF IInv, TypeOK
    <2>2. SenderInv' /\ FromSenderInv' /\ HeldInv' /\ LinkInv' /\ FloodInv'
      BY DEF IInv, SenderInv, FromSenderInv, HeldInv, LinkInv, FloodInv
    <2>3. CountInv' /\ MainInv' /\ ReaderInv' /\ DealtInv' /\ SignalNotForgotten'
      BY DEF IInv, CountInv, MainInv, ReaderInv, DealtInv, SignalNotForgotten
    <2> QED BY <2>1, <2>2, <2>3 DEF IInv
  <1> QED BY <1>1, <1>2, <1>3, <1>4, <1>5 DEF Next, ReceiverStep


-----------------------------------------------------------------------------
(* The theorems. *)

\* Every reachable state satisfies the invariant.
THEOREM InvariantHolds == Spec => []IInv
  <1>1. Init => IInv
    BY InitInv
  <1>2. IInv /\ [Next]_vars => IInv'
    BY NextKeepsInv
  <1> QED BY <1>1, <1>2, PTL DEF Spec

\* The counters, the streams and the threads of every receiver stay in their
\* ranges: no counter passes segment_count, no slot beyond it is filled.
THEOREM TypeCorrect == Spec => []TypeOK
  <1>1. IInv => TypeOK
    BY DEF IInv
  <1> QED BY <1>1, InvariantHolds, PTL

\* A receiver that has exited has written every segment, each from a filled slot.
THEOREM WholeFileAlways == Spec => []WholeFile
  <1>1. ASSUME IInv, NEW r \in Receivers, exited[r]
        PROVE  file[r] = Segments /\ segment_array[r] = Segments
    <2>1. file[r] = Segments /\ finished_segment_cnt[r] = S
      BY <1>1 DEF IInv, MainInv
    <2>2. finished_segment_cnt[r] >= S
      BY <2>1, SAssumption
    <2> QED BY <1>1, <2>1, <2>2, NothingLeft
  <1>2. IInv => WholeFile
    BY <1>1 DEF WholeFile
  <1> QED BY <1>2, InvariantHolds, PTL

\* A receiver that has exited has no flood to finish and nothing to read.
THEOREM OwesNothingAlways == Spec => []OwesNothing
  <1>1. ASSUME IInv, NEW r \in Receivers, exited[r]
        PROVE  flood_to[r] = {} /\ from_sender[r] = << >> /\ nth_segment = S
    <2>1. finished_segment_cnt[r] >= S
      BY <1>1, SAssumption DEF IInv, MainInv
    <2> QED BY <1>1, <2>1, NothingLeft
  <1>2. IInv => OwesNothing
    BY <1>1 DEF OwesNothing
  <1> QED BY <1>2, InvariantHolds, PTL

\* Nobody writes, or will write, to a thread that has stopped reading.
THEOREM ReaderOutlivesWriterAlways == Spec => []ReaderOutlivesWriter
  <1>1. ASSUME IInv, NEW r \in Receivers, NEW q \in Peers(r),
               exited[r] \/ rcv_pc[r][q] \in {"signal", "done"}
        PROVE  /\ link[q][r] = << >>
               /\ r \notin flood_to[q]
               /\ from_sender[q] = << >>
    <2>1. CASE rcv_pc[r][q] \in {"signal", "done"}
      BY <1>1, <2>1 DEF IInv, ReaderInv
    <2>2. CASE exited[r]
      <3>1. finished_segment_cnt[r] >= S /\ q \in Receivers
        BY <1>1, <2>2, SAssumption DEF IInv, MainInv, Peers
      <3> QED BY <1>1, <3>1, NothingLeft
    <2> QED BY <1>1, <2>1, <2>2
  <1>2. IInv => ReaderOutlivesWriter
    BY <1>1 DEF ReaderOutlivesWriter
  <1> QED BY <1>2, InvariantHolds, PTL

\* Whatever the interleaving of the floods, a segment reaches a receiver once.
THEOREM EachSegmentOnceAlways == Spec => []EachSegmentOnce
  <1>1. ASSUME IInv, NEW r \in Receivers
        PROVE  /\ ~HasRepeat(from_sender[r])
               /\ Carried(from_sender[r]) \cap segment_array[r] = {}
    BY <1>1 DEF IInv, FromSenderInv
  <1>2. ASSUME IInv, NEW r \in Receivers, NEW q \in Peers(r)
        PROVE  /\ ~HasRepeat(link[q][r])
               /\ Carried(link[q][r]) \cap segment_array[r] = {}
               /\ Carried(from_sender[r]) \cap Carried(link[q][r]) = {}
               /\ r \in flood_to[q] =>
                    /\ flood_seg[q] \notin Carried(link[q][r])
                    /\ flood_seg[q] \notin segment_array[r]
               /\ \A p \in Peers(r) \ {q} :
                    Carried(link[p][r]) \cap Carried(link[q][r]) = {}
    <2>1. q \in Receivers /\ q # r
      BY DEF Peers
    <2>2. \A p \in Peers(r) : \A n \in Carried(link[p][r]) :
            n % N = p /\ n \notin segment_array[r]
      BY <1>2 DEF IInv, LinkInv
    <2>3. \A n \in Carried(from_sender[r]) : n % N = r
      BY <1>2 DEF IInv, FromSenderInv
    <2>4. ~HasRepeat(link[q][r])
      BY <1>2 DEF IInv, LinkInv
    <2>5. r \in flood_to[q] => /\ flood_seg[q] \notin Carried(link[q][r])
                               /\ flood_seg[q] \notin segment_array[r]
      BY <1>2, <2>1 DEF IInv, FloodInv
    <2> QED BY <2>1, <2>2, <2>3, <2>4, <2>5
  <1>3. IInv => EachSegmentOnce
    BY <1>1, <1>2 DEF EachSegmentOnce
  <1> QED BY <1>3, InvariantHolds, PTL

\* The round robin deals each receiver what Send_Info announced to it, for
\* every number of segments and of receivers.
THEOREM DealtAsAnnouncedAlways == Spec => []DealtAsAnnounced
  <1>1. IInv => DealtAsAnnounced
    BY DEF IInv, DealtInv, DealtAsAnnounced
  <1> QED BY <1>1, InvariantHolds, PTL

\* Once everything is finished, some thread has signalled main or is about to.
THEOREM SignalNotForgottenAlways == Spec => []SignalNotForgotten
  <1>1. IInv => SignalNotForgotten
    BY DEF IInv
  <1> QED BY <1>1, InvariantHolds, PTL

\* The transfer phase implements the abstract dissemination of the segments.
THEOREM ImplementsDissemination == Spec => DisseminationSpec
  <1>1. Init => D!Init
    BY DEF Init, D!Init, Receivers, D!Receivers
  <1>2. IInv /\ [Next]_vars => [D!Next]_(D!vars)
    <2> SUFFICES ASSUME IInv, [Next]_vars
                 PROVE  D!Next \/ UNCHANGED <<segment_array, exited>>
      BY DEF D!vars
    <2>1. CASE SenderStep \/ UNCHANGED vars
      BY <2>1 DEF SenderStep, SendSegment, SenderClose, vars, countVars, waitVars, mainVars
    <2>2. ASSUME NEW r \in Receivers, ReadFromSender(r)
          PROVE  D!Next
      <3> DEFINE n == Head(from_sender[r])
      <3>1. n \in Segments /\ n \in Carried(from_sender[r])
        BY <2>2, TailStream DEF ReadFromSender, IInv, TypeOK
      <3>2. n % N = r /\ n \notin segment_array[r]
        BY <3>1 DEF IInv, FromSenderInv
      <3>3. /\ segment_array' = [segment_array EXCEPT ![r] = @ \cup {n}]
            /\ exited' = exited
        BY <2>2 DEF ReadFromSender, waitVars, mainVars
      <3> HIDE DEF n
      <3>4. D!Get(r, n)
        BY <3>2, <3>3 DEF D!Get, D!Owner
      <3> QED BY <3>1, <3>4 DEF D!Next, Receivers, Segments, D!Receivers,
                                D!Segments
    <2>3. ASSUME NEW r \in Receivers, NEW q \in Peers(r), ReadFromPeer(r, q)
          PROVE  D!Next
      <3> DEFINE n == Head(link[q][r])
      <3>1. q \in Receivers /\ link[q][r] \in Seq(Segments)
        BY DEF IInv, TypeOK, Peers
      <3>2. n \in Segments /\ n \in Carried(link[q][r])
        BY <2>3, <3>1, TailStream DEF ReadFromPeer
      <3>3. n % N = q /\ n \in segment_array[q] /\ n \notin segment_array[r]
        BY <3>2 DEF IInv, LinkInv
      <3>4. /\ segment_array' = [segment_array EXCEPT ![r] = @ \cup {n}]
            /\ exited' = exited
        BY <2>3 DEF ReadFromPeer, waitVars, mainVars
      <3> HIDE DEF n
      <3>5. D!Get(r, n)
        BY <3>3, <3>4 DEF D!Get, D!Owner
      <3> QED BY <3>2, <3>5 DEF D!Next, Receivers, Segments, D!Receivers,
                                D!Segments
    <2>4. ASSUME NEW r \in Receivers, Exit(r)
          PROVE  D!Next
      <3>1. finished_segment_cnt[r] >= S
        BY <2>4, SAssumption DEF Exit, IInv, MainInv
      <3>2. segment_array[r] = Segments
        BY <3>1, NothingLeft
      <3>3. D!Complete(r)
        BY <2>4, <3>2 DEF Exit, countVars, D!Complete, Segments, D!Segments
      <3> QED BY <3>3 DEF D!Next, Receivers, D!Receivers
    <2>5. ASSUME NEW r \in Receivers,
                 \/ FloodCount(r)
                 \/ FloodSignal(r)
                 \/ \E q \in Peers(r) :
                        \/ FloodWrite(r, q)
                        \/ CheckReceived(r, q)
                        \/ PeerEof(r, q)
                        \/ PeerSignal(r, q)
          PROVE  UNCHANGED <<segment_array, exited>>
      BY <2>5 DEF FloodCount, FloodSignal, FloodWrite, CheckReceived, PeerEof,
                  PeerSignal, countVars, waitVars, mainVars
    <2> QED BY <2>1, <2>2, <2>3, <2>4, <2>5
            DEF Next, ReceiverStep, SndThread, RcvThread
  <1> QED BY <1>1, <1>2, InvariantHolds, PTL DEF Spec, DisseminationSpec, D!Spec


=============================================================================

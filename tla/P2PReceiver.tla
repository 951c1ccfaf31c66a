----------------------------- MODULE P2PReceiver -----------------------------
(***************************************************************************)
(* The threads inside one receiving process of Final Project/p2p.c, seen   *)
(* from the moment Receive_Info returns to the moment main exits.          *)
(*                                                                         *)
(*   main    creates the others, joins conn and accpt, waits for           *)
(*           cond_finish, writes the file and exits;                       *)
(*   conn    connects to the receivers with a higher number;               *)
(*   accpt   accepts those with a lower one;                               *)
(*   snd     waits for cond, then reads this receiver's own segments from  *)
(*           the sender and floods each to the peers (accpt_snd_seg and    *)
(*           the flood_segment threads it joins);                          *)
(*   rcv[q]  reads the segments of peer q (accpt_rcv_seg).                 *)
(*                                                                         *)
(* All use the one mutex `mutx'.  A condition variable remembers nothing:  *)
(* a signal that finds nobody waiting is lost.  Main calls                 *)
(* pthread_cond_wait(&cond_finish, &mutx) without having locked mutx: what *)
(* the C library does is to mark it free, whoever holds it, and from then  *)
(* on two threads may be in a critical section.  Hence mutx is a flag, and *)
(* the increments of the two counters are a load and a store.  Sections    *)
(* that only touch shared state once are one step.                         *)
(*                                                                         *)
(* The peers and the sender are the environment: a read of a segment that  *)
(* is on its way returns sooner or later.  A wait may also return without  *)
(* a signal, as POSIX allows; woken_for_nothing remembers that one did.    *)
(***************************************************************************)
EXTENDS SegmentPlan, FiniteSets

CONSTANTS N, S,      \* max_receiver_cnt and segment_count of file_info
          Me         \* this_receiver.nth_receiver

ASSUME ConstantsAssumption ==
    /\ N \in Nat \ {0}
    /\ S \in Nat
    /\ Me \in 0 .. (N - 1)

Segments == 0 .. (S - 1)
Peers == (0 .. (N - 1)) \ {Me}
receiver_MAX == N - 1      \* Receive_Info does not count this receiver

VARIABLES
    mutx,                    \* TRUE when locked
    main_pc, conn_pc, accpt_pc, snd_pc,
    conn_i, snd_i,           \* loop counters of conn and snd
    snd_tmp,                 \* the value snd loaded and has not stored yet
    rcv_pc, rcv_tmp,         \* the same for each rcv[q]
    rcv_cnt,                 \* segments rcv[q] has read
    recv_sock_array,         \* the peers this receiver has a socket for
    segment_array,           \* the slots that are filled
    current_segment_cnt, finished_segment_cnt,
    file,                    \* the slots written to the file
    woken_for_nothing        \* history: a wait has returned unsignalled

connVars == <<conn_pc, accpt_pc, conn_i, recv_sock_array>>
sndVars == <<snd_pc, snd_i, snd_tmp>>
rcvVars == <<rcv_pc, rcv_tmp, rcv_cnt>>
counters == <<current_segment_cnt, finished_segment_cnt>>
vars == <<mutx, main_pc, connVars, sndVars, rcvVars, segment_array, counters,
          file, woken_for_nothing>>

current_receiver_cnt == Cardinality(recv_sock_array)
Running == main_pc # "exited"

Init ==
    /\ mutx = FALSE
    /\ main_pc = "create_snd"
    /\ conn_pc = "none"
    /\ accpt_pc = "none"
    /\ snd_pc = "none"
    /\ conn_i = Me
    /\ snd_i = 0
    /\ snd_tmp = 0
    /\ rcv_pc = [q \in Peers |-> "none"]
    /\ rcv_tmp = [q \in Peers |-> 0]
    /\ rcv_cnt = [q \in Peers |-> 0]
    /\ recv_sock_array = {}
    /\ segment_array = {}
    /\ current_segment_cnt = 0
    /\ finished_segment_cnt = 0
    /\ file = {}
    /\ woken_for_nothing = FALSE

-----------------------------------------------------------------------------
(* main *)

Receive_Segment_From_Sender_ThreadInit ==
    /\ main_pc = "create_snd"
    /\ snd_pc' = "lock_cond"
    /\ main_pc' = "create_mesh"
    /\ UNCHANGED <<mutx, connVars, snd_i, snd_tmp, rcvVars, segment_array,
                   counters, file, woken_for_nothing>>

Make_Connection_W_Receivers_ThreadInit ==
    /\ main_pc = "create_mesh"
    /\ conn_pc' = "loop"
    /\ accpt_pc' = "loop"
    /\ main_pc' = "join"
    /\ UNCHANGED <<mutx, conn_i, recv_sock_array, sndVars, rcvVars,
                   segment_array, counters, file, woken_for_nothing>>

JoinMesh ==
    /\ main_pc = "join"
    /\ conn_pc = "done" /\ accpt_pc = "done"
    /\ main_pc' = "wait"
    /\ UNCHANGED <<mutx, connVars, sndVars, rcvVars, segment_array, counters,
                   file, woken_for_nothing>>

\* pthread_cond_wait unlocks a mutex this thread never locked.
WaitFinish ==
    /\ main_pc = "wait"
    /\ mutx' = FALSE
    /\ main_pc' = "waiting"
    /\ UNCHANGED <<connVars, sndVars, rcvVars, segment_array, counters, file,
                   woken_for_nothing>>

SpuriousFinish ==
    /\ main_pc = "waiting"
    /\ main_pc' = "relock"
    /\ woken_for_nothing' = TRUE
    /\ UNCHANGED <<mutx, connVars, sndVars, rcvVars, segment_array, counters,
                   file>>

\* pthread_cond_wait locks the mutex again before it returns.
WokenFinish ==
    /\ main_pc = "relock"
    /\ ~mutx
    /\ mutx' = TRUE
    /\ main_pc' = "write"
    /\ UNCHANGED <<connVars, sndVars, rcvVars, segment_array, counters, file,
                   woken_for_nothing>>

\* Write the file, close the sockets, return from main: the process is gone.
WriteFileAndExit ==
    /\ main_pc = "write"
    /\ file' = 0 .. (current_segment_cnt - 1)
    /\ main_pc' = "exited"
    /\ UNCHANGED <<mutx, connVars, sndVars, rcvVars, segment_array, counters,
                   woken_for_nothing>>

Main ==
    \/ Receive_Segment_From_Sender_ThreadInit
    \/ Make_Connection_W_Receivers_ThreadInit
    \/ JoinMesh
    \/ WaitFinish
    \/ WokenFinish
    \/ WriteFileAndExit

-----------------------------------------------------------------------------
(* conn and accpt *)

\* Save the socket of a new peer and start the thread that reads from it.
SavePeer(q) ==
    /\ ~mutx
    /\ recv_sock_array' = recv_sock_array \cup {q}
    /\ rcv_pc' = [rcv_pc EXCEPT ![q] = "read"]
    /\ UNCHANGED <<mutx, main_pc, sndVars, rcv_tmp, rcv_cnt, segment_array,
                   counters, file, woken_for_nothing>>

\* The condition of the loop of conn_receiver.
MoreToConnect == conn_i < receiver_MAX

\* Entry i of receiver_array, from the own number on, is receiver i + 1.
Connect ==
    /\ conn_pc = "loop"
    /\ MoreToConnect
    /\ SavePeer(conn_i + 1)
    /\ conn_i' = conn_i + 1
    /\ UNCHANGED <<conn_pc, accpt_pc>>

\* The lower peers connect in any order.
Accept ==
    /\ accpt_pc = "loop"
    /\ \E q \in Peers \ recv_sock_array : q < Me /\ SavePeer(q)
    /\ UNCHANGED <<conn_pc, accpt_pc, conn_i>>

\* A slip: whichever of conn and accpt ends first gives the signal.
SignalCondAtOnce ==
    snd_pc' = IF snd_pc = "waiting" THEN "relock" ELSE snd_pc

\* pthread_cond_signal(&cond): of no effect unless snd is waiting.
SignalCond ==
    snd_pc' = IF current_receiver_cnt >= receiver_MAX /\ snd_pc = "waiting"
              THEN "relock" ELSE snd_pc

ConnDone ==
    /\ conn_pc = "loop"
    /\ ~MoreToConnect
    /\ ~mutx
    /\ SignalCond
    /\ conn_pc' = "done"
    /\ UNCHANGED <<mutx, main_pc, accpt_pc, conn_i, recv_sock_array, snd_i,
                   snd_tmp, rcvVars, segment_array, counters, file,
                   woken_for_nothing>>

AccptDone ==
    /\ accpt_pc = "loop"
    /\ \A q \in Peers : q < Me => q \in recv_sock_array
    /\ ~mutx
    /\ SignalCond
    /\ accpt_pc' = "done"
    /\ UNCHANGED <<mutx, main_pc, conn_pc, conn_i, recv_sock_array, snd_i,
                   snd_tmp, rcvVars, segment_array, counters, file,
                   woken_for_nothing>>

conn_receiver == Connect \/ ConnDone
accpt_receiver == Accept \/ AccptDone

-----------------------------------------------------------------------------
(* snd *)

\* A slip: to signal when all is received, flooded or not.
SignalReceived ==
    main_pc' = IF current_segment_cnt >= S /\ main_pc = "waiting"
               THEN "relock" ELSE main_pc

\* pthread_cond_signal(&cond_finish): of no effect unless main is waiting.
SignalFinish ==
    main_pc' = IF finished_segment_cnt >= S /\ main_pc = "waiting"
               THEN "relock" ELSE main_pc

\* Lock mutx and wait for cond, which unlocks it.
WaitCond ==
    /\ snd_pc = "lock_cond"
    /\ ~mutx
    /\ snd_pc' = "waiting"
    /\ UNCHANGED <<mutx, main_pc, connVars, snd_i, snd_tmp, rcvVars,
                   segment_array, counters, file, woken_for_nothing>>

SpuriousCond ==
    /\ snd_pc = "waiting"
    /\ snd_pc' = "relock"
    /\ woken_for_nothing' = TRUE
    /\ UNCHANGED <<mutx, main_pc, connVars, snd_i, snd_tmp, rcvVars,
                   segment_array, counters, file>>

\* The wait locks mutx again, the next statement unlocks it.
WokenCond ==
    /\ snd_pc = "relock"
    /\ ~mutx
    /\ snd_pc' = "read"
    /\ UNCHANGED <<mutx, main_pc, connVars, snd_i, snd_tmp, rcvVars,
                   segment_array, counters, file, woken_for_nothing>>

\* The k-th segment of receiver i, counting from 0: the sender deals in turns.
Dealt(i, k) == i + k * N

SndRead ==
    /\ snd_pc = "read"
    /\ snd_i < SegmentsFor(Me, S, N)
    /\ segment_array' = segment_array \cup {Dealt(Me, snd_i)}
    /\ snd_pc' = "lock"
    /\ UNCHANGED <<mutx, main_pc, connVars, snd_i, snd_tmp, rcvVars, counters,
                   file, woken_for_nothing>>

\* A slip: the counter is read before the mutex is taken.
SndLockLate ==
    /\ snd_pc = "lock"
    /\ mutx' = TRUE
    /\ snd_tmp' = current_segment_cnt
    /\ snd_pc' = "store"
    /\ UNCHANGED <<main_pc, connVars, snd_i, rcvVars, segment_array, counters,
                   file, woken_for_nothing>>

SndLock ==
    /\ snd_pc = "lock"
    /\ ~mutx
    /\ mutx' = TRUE
    /\ snd_tmp' = current_segment_cnt
    /\ snd_pc' = "store"
    /\ UNCHANGED <<main_pc, connVars, snd_i, rcvVars, segment_array, counters,
                   file, woken_for_nothing>>

SndStore ==
    /\ snd_pc = "store"
    /\ current_segment_cnt' = snd_tmp + 1
    /\ snd_pc' = "unlock"
    /\ UNCHANGED <<mutx, main_pc, connVars, snd_i, snd_tmp, rcvVars,
                   segment_array, finished_segment_cnt, file,
                   woken_for_nothing>>

SndUnlock ==
    /\ snd_pc = "unlock"
    /\ mutx' = FALSE
    /\ snd_pc' = "flood"
    /\ UNCHANGED <<main_pc, connVars, snd_i, snd_tmp, rcvVars, segment_array,
                   counters, file, woken_for_nothing>>

\* flood_segment writes to the first current_receiver_cnt sockets ...
FloodWrite ==
    /\ snd_pc = "flood"
    /\ snd_pc' = "flood_lock"
    /\ UNCHANGED <<mutx, main_pc, connVars, snd_i, snd_tmp, rcvVars,
                   segment_array, counters, file, woken_for_nothing>>

\* ... and enters its first critical section.
FloodLock ==
    /\ snd_pc = "flood_lock"
    /\ ~mutx
    /\ mutx' = TRUE
    /\ snd_tmp' = finished_segment_cnt
    /\ snd_pc' = "flood_store"
    /\ UNCHANGED <<main_pc, connVars, snd_i, rcvVars, segment_array, counters,
                   file, woken_for_nothing>>

FloodStore ==
    /\ snd_pc = "flood_store"
    /\ finished_segment_cnt' = snd_tmp + 1
    /\ snd_pc' = "flood_unlock"
    /\ UNCHANGED <<mutx, main_pc, connVars, snd_i, snd_tmp, rcvVars,
                   segment_array, current_segment_cnt, file,
                   woken_for_nothing>>

FloodUnlock ==
    /\ snd_pc = "flood_unlock"
    /\ mutx' = FALSE
    /\ snd_pc' = "flood_signal"
    /\ UNCHANGED <<main_pc, connVars, snd_i, snd_tmp, rcvVars, segment_array,
                   counters, file, woken_for_nothing>>

\* Its second critical section; snd joins it.
FloodSignal ==
    /\ snd_pc = "flood_signal"
    /\ ~mutx
    /\ SignalFinish
    /\ snd_i' = snd_i + 1
    /\ snd_pc' = "read"
    /\ UNCHANGED <<mutx, connVars, snd_tmp, rcvVars, segment_array, counters,
                   file, woken_for_nothing>>

accpt_snd_seg ==
    \/ WaitCond
    \/ WokenCond
    \/ SndRead
    \/ SndLock
    \/ SndStore
    \/ SndUnlock
    \/ FloodWrite
    \/ FloodLock
    \/ FloodStore
    \/ FloodUnlock
    \/ FloodSignal

-----------------------------------------------------------------------------
(* rcv[q] *)

RcvGoto(q, label) == rcv_pc' = [rcv_pc EXCEPT ![q] = label]

RcvRead(q) ==
    /\ rcv_pc[q] = "read"
    /\ rcv_cnt[q] < SegmentsFor(q, S, N)
    /\ segment_array' = segment_array \cup {Dealt(q, rcv_cnt[q])}
    /\ rcv_cnt' = [rcv_cnt EXCEPT ![q] = @ + 1]
    /\ RcvGoto(q, "lock")
    /\ UNCHANGED <<mutx, main_pc, connVars, sndVars, rcv_tmp, counters, file,
                   woken_for_nothing>>

RcvLock(q) ==
    /\ rcv_pc[q] = "lock"
    /\ ~mutx
    /\ mutx' = TRUE
    /\ rcv_tmp' = [rcv_tmp EXCEPT ![q] = current_segment_cnt]
    /\ RcvGoto(q, "store_current")
    /\ UNCHANGED <<main_pc, connVars, sndVars, rcv_cnt, segment_array,
                   counters, file, woken_for_nothing>>

RcvStoreCurrent(q) ==
    /\ rcv_pc[q] = "store_current"
    /\ current_segment_cnt' = rcv_tmp[q] + 1
    /\ RcvGoto(q, "load_finished")
    /\ UNCHANGED <<mutx, main_pc, connVars, sndVars, rcv_tmp, rcv_cnt,
                   segment_array, finished_segment_cnt, file,
                   woken_for_nothing>>

RcvLoadFinished(q) ==
    /\ rcv_pc[q] = "load_finished"
    /\ rcv_tmp' = [rcv_tmp EXCEPT ![q] = finished_segment_cnt]
    /\ RcvGoto(q, "store_finished")
    /\ UNCHANGED <<mutx, main_pc, connVars, sndVars, rcv_cnt, segment_array,
                   counters, file, woken_for_nothing>>

RcvStoreFinished(q) ==
    /\ rcv_pc[q] = "store_finished"
    /\ finished_segment_cnt' = rcv_tmp[q] + 1
    /\ RcvGoto(q, "unlock")
    /\ UNCHANGED <<mutx, main_pc, connVars, sndVars, rcv_tmp, rcv_cnt,
                   segment_array, current_segment_cnt, file,
                   woken_for_nothing>>

RcvUnlock(q) ==
    /\ rcv_pc[q] = "unlock"
    /\ mutx' = FALSE
    /\ RcvGoto(q, "check")
    /\ UNCHANGED <<main_pc, connVars, sndVars, rcv_tmp, rcv_cnt, segment_array,
                   counters, file, woken_for_nothing>>

\* The loop condition reads current_segment_cnt without the mutex.
RcvCheck(q) ==
    /\ rcv_pc[q] = "check"
    /\ RcvGoto(q, IF current_segment_cnt >= S THEN "signal" ELSE "read")
    /\ UNCHANGED <<mutx, main_pc, connVars, sndVars, rcv_tmp, rcv_cnt,
                   segment_array, counters, file, woken_for_nothing>>

\* The segments of its own that this receiver has written to all its peers.
OwnWritten ==
    snd_i + (IF snd_pc \in {"flood_lock", "flood_store", "flood_unlock",
                            "flood_signal"} THEN 1 ELSE 0)

\* read returns 0: the peer has exited, so it has sent all its segments and
\* has got all of this receiver's.
RcvEof(q) ==
    /\ rcv_pc[q] = "read"
    /\ rcv_cnt[q] = SegmentsFor(q, S, N)
    /\ OwnWritten = SegmentsFor(Me, S, N)
    /\ RcvGoto(q, "signal")
    /\ UNCHANGED <<mutx, main_pc, connVars, sndVars, rcv_tmp, rcv_cnt,
                   segment_array, counters, file, woken_for_nothing>>

\* A slip: the thread ends without a signal.
RcvEndsSilently(q) ==
    /\ rcv_pc[q] = "signal"
    /\ ~mutx
    /\ RcvGoto(q, "done")
    /\ UNCHANGED <<mutx, main_pc, connVars, sndVars, rcv_tmp, rcv_cnt,
                   segment_array, counters, file, woken_for_nothing>>

RcvSignal(q) ==
    /\ rcv_pc[q] = "signal"
    /\ ~mutx
    /\ SignalFinish
    /\ RcvGoto(q, "done")
    /\ UNCHANGED <<mutx, connVars, sndVars, rcv_tmp, rcv_cnt, segment_array,
                   counters, file, woken_for_nothing>>

accpt_rcv_seg(q) ==
    \/ RcvRead(q)
    \/ RcvLock(q)
    \/ RcvStoreCurrent(q)
    \/ RcvLoadFinished(q)
    \/ RcvStoreFinished(q)
    \/ RcvUnlock(q)
    \/ RcvCheck(q)
    \/ RcvSignal(q)

-----------------------------------------------------------------------------
Environment ==
    \/ SpuriousFinish
    \/ SpuriousCond
    \/ \E q \in Peers : RcvEof(q)

Next ==
    /\ Running
    /\ \/ Main
       \/ conn_receiver
       \/ accpt_receiver
       \/ accpt_snd_seg
       \/ \E q \in Peers : accpt_rcv_seg(q)
       \/ Environment

Spec == Init /\ [][Next]_vars

\* Every thread runs, and what is on its way over TCP arrives.  That a peer
\* exits, or that a wait returns for no reason, cannot be relied on.
Fairness ==
    /\ WF_vars(Running /\ Main)
    /\ WF_vars(Running /\ conn_receiver)
    /\ WF_vars(Running /\ accpt_receiver)
    /\ WF_vars(Running /\ accpt_snd_seg)
    /\ \A q \in Peers : WF_vars(Running /\ accpt_rcv_seg(q))

FairSpec == Spec /\ Fairness

-----------------------------------------------------------------------------
(* Properties. *)

snd_labels == {"none", "lock_cond", "waiting", "relock", "read", "lock",
               "store", "unlock", "flood", "flood_lock", "flood_store",
               "flood_unlock", "flood_signal"}
rcv_labels == {"none", "read", "lock", "store_current", "load_finished",
               "store_finished", "unlock", "check", "signal", "done"}

TypeOK ==
    /\ mutx \in BOOLEAN
    /\ main_pc \in {"create_snd", "create_mesh", "join", "wait", "waiting",
                    "relock", "write", "exited"}
    /\ {conn_pc, accpt_pc} \subseteq {"none", "loop", "done"}
    /\ conn_i \in Me .. receiver_MAX
    /\ snd_pc \in snd_labels
    /\ snd_i \in 0 .. S
    /\ snd_tmp \in 0 .. S
    /\ rcv_pc \in [Peers -> rcv_labels]
    /\ rcv_tmp \in [Peers -> 0 .. S]
    /\ rcv_cnt \in [Peers -> 0 .. S]
    /\ recv_sock_array \subseteq Peers
    /\ segment_array \subseteq Segments
    /\ current_segment_cnt \in 0 .. S
    /\ finished_segment_cnt \in 0 .. S
    /\ file \subseteq Segments
    /\ woken_for_nothing \in BOOLEAN

\* The threads between a lock and the unlock that goes with it.
InSection ==
    {q \in Peers : rcv_pc[q] \in {"store_current", "load_finished",
                                  "store_finished", "unlock"}}
        \cup (IF snd_pc \in {"store", "unlock", "flood_store", "flood_unlock"}
              THEN {Me} ELSE {})

\* How many segments of each receiver the threads have counted, how many they
\* have counted as finished, and which those are.
CurrentOf ==
    [i \in 0 .. (N - 1) |->
        IF i = Me
        THEN snd_i + (IF snd_pc \in {"unlock", "flood", "flood_lock",
                                     "flood_store", "flood_unlock",
                                     "flood_signal"} THEN 1 ELSE 0)
        ELSE rcv_cnt[i] - (IF rcv_pc[i] \in {"lock", "store_current"}
                           THEN 1 ELSE 0)]

FinishedOf ==
    [i \in 0 .. (N - 1) |->
        IF i = Me
        THEN snd_i + (IF snd_pc \in {"flood_unlock", "flood_signal"}
                      THEN 1 ELSE 0)
        ELSE rcv_cnt[i] - (IF rcv_pc[i] \in {"lock", "store_current",
                                             "load_finished", "store_finished"}
                           THEN 1 ELSE 0)]

Counted(f) == UNION {{Dealt(i, k) : k \in 0 .. (f[i] - 1)} : i \in 0 .. (N - 1)}

CurrentIncrements == Cardinality(Counted(CurrentOf))
FinishedIncrements == Cardinality(Counted(FinishedOf))

\* Until main waits for cond_finish (line 428) the mutex does its work: one
\* thread in a critical section, no update lost.  No counter or index leaves
\* its range then or later.
ExactUntilMainWaits ==
    /\ TypeOK
    /\ main_pc \in {"create_snd", "create_mesh", "join", "wait"} =>
        /\ Cardinality(InSection) <= 1
        /\ current_segment_cnt = CurrentIncrements
        /\ finished_segment_cnt = FinishedIncrements

\* When main has been signalled every slot is filled and every own segment
\* has been written to all the peers: main may write the file and kill the
\* threads.  After a spurious wakeup nothing is checked (line 428).
WokenWhenDone ==
    main_pc \in {"relock", "write", "exited"} /\ ~woken_for_nothing =>
        /\ segment_array = Segments
        /\ OwnWritten = SegmentsFor(Me, S, N)

\* No segment is flooded before every peer has its socket in recv_sock_array:
\* flood_segment would skip the missing ones and never come back to them.
\* Again a spurious wakeup (line 735) is not noticed.
FloodsWhenMeshed ==
    snd_pc = "flood" /\ ~woken_for_nothing => recv_sock_array = Peers

\* The three ways to lose what main waits for: both mesh threads are through
\* before snd waits; the last signal is given before main waits; an update of
\* a counter is overwritten.
LostCond ==
    snd_pc = "lock_cond" /\ conn_pc = "done" /\ accpt_pc = "done"

LostFinish ==
    /\ main_pc \in {"create_mesh", "join", "wait"}
    /\ finished_segment_cnt >= S
    /\ snd_pc \notin {"flood_unlock", "flood_signal"}
    /\ \A q \in Peers : rcv_pc[q] \notin {"unlock", "check", "signal"}

LostUpdate ==
    \/ current_segment_cnt < CurrentIncrements
    \/ finished_segment_cnt < FinishedIncrements

\* A receiver whose peers and sender deliver ends, unless it meets one of these
\* three; there is no fourth way to hang.
EndsOrLoses == <>(~Running \/ LostCond \/ LostFinish \/ LostUpdate)

\* "Wait for end of all receive and send of segments", line 427: at the end of
\* all receiving and sending the wait is over.  The interleavings of the code
\* refute it, without the help of a spurious wakeup.
MainGoesOn == finished_segment_cnt >= S ~> ~Running \/ woken_for_nothing

=============================================================================

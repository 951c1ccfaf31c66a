---------------------------- MODULE Dissemination ----------------------------
(***************************************************************************)
(* What the transfer phase of p2p.c promises, without streams, threads or  *)
(* counters: every segment has one owner, which gets it from the sender,   *)
(* everybody else gets it from a copy the owner already has, nobody gets a *)
(* segment twice, and whoever completes its file has all of them.          *)
(***************************************************************************)
EXTENDS Integers

CONSTANTS N, S

Receivers == 0 .. (N - 1)
Segments == 0 .. (S - 1)
Owner(n) == n % N

VARIABLES got,        \* got[r]: the segments r has
          complete    \* complete[r]: r has written its file

vars == <<got, complete>>

Init == /\ got = [r \in Receivers |-> {}]
        /\ complete = [r \in Receivers |-> FALSE]

Get(r, n) ==
    /\ n \notin got[r]
    /\ Owner(n) = r \/ n \in got[Owner(n)]
    /\ got' = [got EXCEPT ![r] = @ \cup {n}]
    /\ UNCHANGED complete

Complete(r) ==
    /\ got[r] = Segments
    /\ ~complete[r]
    /\ complete' = [complete EXCEPT ![r] = TRUE]
    /\ UNCHANGED got

Next == \E r \in Receivers : Complete(r) \/ \E n \in Segments : Get(r, n)

Spec == Init /\ [][Next]_vars

=============================================================================

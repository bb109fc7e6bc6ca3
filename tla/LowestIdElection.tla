-------------------------- MODULE LowestIdElection --------------------------
(***************************************************************************)
(* What the ESP-NOW mesh promises about leadership, without beacons,       *)
(* clocks or timers: a board that wakes comes to believe in itself, may    *)
(* change its mind any number of times but only towards a lower id, and    *)
(* only towards a board that has woken; a reset forgets everything.        *)
(***************************************************************************)
EXTENDS Naturals

CONSTANT Ids

VARIABLES
  leaderOf,  \* the board each board believes in, 0 while it has no opinion
  woken      \* the boards that have ever been up

vars == <<leaderOf, woken>>

Init == leaderOf = [n \in Ids |-> 0] /\ woken = {}

Wake(n) == woken' = woken \cup {n} /\ UNCHANGED leaderOf

PutForward(n) ==
  /\ n \in woken /\ leaderOf[n] = 0
  /\ leaderOf' = [leaderOf EXCEPT ![n] = n]
  /\ UNCHANGED woken

Defer(n, m) ==
  /\ m \in woken /\ m < leaderOf[n]
  /\ leaderOf' = [leaderOf EXCEPT ![n] = m]
  /\ UNCHANGED woken

Forget(n) ==
  /\ leaderOf' = [leaderOf EXCEPT ![n] = 0]
  /\ UNCHANGED woken

Next == \E n \in Ids :
  \/ Wake(n) \/ PutForward(n) \/ Forget(n)
  \/ \E m \in Ids : Defer(n, m)

Spec == Init /\ [][Next]_vars
=============================================================================

---------------------------- MODULE BoundedQueue ----------------------------
(***************************************************************************)
(* What the ring between the two cores promises: a queue of Capacity items *)
(* that takes an item in or gives its oldest one out in a single step, and *)
(* turns an item away only when it is full.  It may be cleared before its  *)
(* first item is taken.                                                    *)
(***************************************************************************)
EXTENDS Naturals, Sequences

CONSTANTS Items, Capacity

VARIABLES
  queue,  \* the items that wait
  taken,  \* every item given out so far
  lost    \* how many were turned away

vars == <<queue, taken, lost>>

Init == queue = <<>> /\ taken = <<>> /\ lost = 0

Put(item) ==
  /\ Len(queue) < Capacity
  /\ queue' = Append(queue, item)
  /\ UNCHANGED <<taken, lost>>

TurnAway ==
  /\ Len(queue) = Capacity
  /\ lost' = lost + 1
  /\ UNCHANGED <<queue, taken>>

TakeOldest ==
  /\ queue # <<>>
  /\ taken' = Append(taken, Head(queue))
  /\ queue' = Tail(queue)
  /\ UNCHANGED lost

Clear ==
  /\ taken = <<>>
  /\ queue' = <<>>
  /\ UNCHANGED <<taken, lost>>

Next == (\E item \in Items : Put(item)) \/ TurnAway \/ TakeOldest \/ Clear

Spec == Init /\ [][Next]_vars
=============================================================================

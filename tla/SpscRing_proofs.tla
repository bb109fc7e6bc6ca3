-------------------------- MODULE SpscRing_proofs --------------------------
(***************************************************************************)
(* The ring of edge_processing.c is correct for every number of slots and  *)
(* every stream of frames: proofs of the invariants and of the action      *)
(* property of SpscRing.                                                   *)
(*                                                                         *)
(* The argument ties the two indices to the two histories: head is         *)
(* Len(accepted) modulo Slots and tail is Len(delivered) modulo Slots, so  *)
(* the frames not yet taken lie in a window of fewer than Slots positions, *)
(* where distinct positions are distinct slots.                            *)
(***************************************************************************)
EXTENDS SpscRing, TLAPS, SequenceTheorems

-----------------------------------------------------------------------------
(* Remainders modulo a positive N.                                         *)

(* A remainder is an index.                                                *)
LEMMA ModInRange ==
  ASSUME NEW N \in Nat \ {0}, NEW k \in Nat
  PROVE  k % N \in 0..(N - 1)
BY Z3

(* Division with remainder.                                                *)
LEMMA ModDiv ==
  ASSUME NEW N \in Nat \ {0}, NEW k \in Nat
  PROVE  k = N * (k \div N) + (k % N) /\ (k \div N) \in Int
BY Z3

(* A number written as a multiple of N plus an index has that remainder.   *)
LEMMA ModIs ==
  ASSUME NEW N \in Nat \ {0}, NEW m \in Nat, NEW q \in Int, NEW r \in 0..(N - 1),
         m = N * q + r
  PROVE  m % N = r
<1> DEFINE Q == m \div N
           R == m % N
<1>1. m = N * Q + R /\ Q \in Int /\ R \in 0..(N - 1)
  BY ModDiv, ModInRange
<1> HIDE DEF Q, R
<1>2. CASE Q >= q + 1
  <2>1. N * Q >= N * (q + 1)
    BY <1>1, <1>2, Z3
  <2> QED BY <1>1, <2>1, Z3
<1>3. CASE q >= Q + 1
  <2>1. N * q >= N * (Q + 1)
    BY <1>1, <1>3, Z3
  <2> QED BY <1>1, <2>1, Z3
<1>4. CASE q = Q
  <2>1. R = r
    BY <1>1, <1>4, Z3
  <2> QED BY <2>1 DEF R
<1> QED BY <1>1, <1>2, <1>3, <1>4, Z3

(* One turn of the ring leads back to the same slot.                       *)
LEMMA ModSame ==
  ASSUME NEW N \in Nat \ {0}, NEW j \in Nat
  PROVE  (j + N) % N = j % N
<1> DEFINE P == j \div N
           S == j % N
<1>1. j = N * P + S /\ P \in Int /\ S \in 0..(N - 1)
  BY ModDiv, ModInRange
<1> HIDE DEF P, S
<1>2. j + N = N * (P + 1) + S
  BY <1>1, Z3
<1>3. j + N \in Nat /\ P + 1 \in Int
  BY <1>1
<1>4. (j + N) % N = S
  BY <1>1, <1>2, <1>3, ModIs, Z3
<1> QED BY <1>4 DEF S

(* Two positions less than one turn apart are different slots.             *)
LEMMA ModInjective ==
  ASSUME NEW N \in Nat \ {0}, NEW j \in Nat, NEW k \in Nat,
         j < k, k - j < N
  PROVE  j % N # k % N
<1> SUFFICES ASSUME j % N = k % N
             PROVE  FALSE
  OBVIOUS
<1> DEFINE Q == k \div N
           R == k % N
           P == j \div N
<1>1. k = N * Q + R /\ j = N * P + R /\ Q \in Int /\ P \in Int /\ R \in Int
  BY ModDiv, ModInRange
<1> HIDE DEF Q, R, P
<1>2. CASE Q >= P + 1
  <2>1. N * Q >= N * (P + 1)
    BY <1>1, <1>2, Z3
  <2> QED BY <1>1, <2>1, Z3
<1>3. CASE Q <= P
  <2>1. N * Q <= N * P
    BY <1>1, <1>3, Z3
  <2> QED BY <1>1, <2>1, Z3
<1> QED BY <1>1, <1>2, <1>3, Z3

(* The successor of a slot is the slot of the successor.                   *)
LEMMA ModSucc ==
  ASSUME NEW N \in Nat \ {0}, NEW k \in Nat
  PROVE  ((k % N) + 1) % N = (k + 1) % N
<1> DEFINE M == k % N
           Q == k \div N
<1>1. k = N * Q + M /\ Q \in Int /\ M \in 0..(N - 1)
  BY ModDiv, ModInRange
<1> HIDE DEF M, Q
<1>2. CASE M + 1 < N
  <2>1. M + 1 = N * 0 + (M + 1) /\ k + 1 = N * Q + (M + 1)
    BY <1>1, Z3
  <2>2. M + 1 \in 0..(N - 1) /\ M + 1 \in Nat /\ k + 1 \in Nat
    BY <1>1, <1>2
  <2>3. (M + 1) % N = M + 1
    BY <2>1, <2>2, ModIs, Z3
  <2>4. (k + 1) % N = M + 1
    BY <1>1, <2>1, <2>2, ModIs, Z3
  <2> QED BY <2>3, <2>4 DEF M
<1>3. CASE M + 1 = N
  <2>1. M + 1 = N * 1 + 0 /\ k + 1 = N * (Q + 1) + 0
    BY <1>1, <1>3, Z3
  <2>2. 0 \in 0..(N - 1) /\ M + 1 \in Nat /\ k + 1 \in Nat /\ Q + 1 \in Int
    BY <1>1
  <2>3. (M + 1) % N = 0
    BY <2>1, <2>2, ModIs, Z3
  <2>4. (k + 1) % N = 0
    BY <2>1, <2>2, ModIs, Z3
  <2> QED BY <2>3, <2>4 DEF M
<1> QED BY <1>1, <1>2, <1>3

-----------------------------------------------------------------------------
(* The inductive invariant.                                                *)

(* The DSP task has not begun before it is started.                        *)
NotStarted ==
  phase # "consuming" => popping = "idle" /\ tail = 0 /\ delivered = <<>>

(* The indices count the histories, and the window holds at most Slots - 1 *)
(* frames.                                                                 *)
Window ==
  /\ head = Len(accepted) % Slots
  /\ tail = Len(delivered) % Slots
  /\ Len(delivered) <= Len(accepted)
  /\ Len(accepted) - Len(delivered) <= Slots - 1

(* The slots of the window hold the frames not yet taken, except between   *)
(* the memset of the slots and that of the indices.                        *)
Stored ==
  phase # "cleared" =>
    \A k \in 1..Len(accepted) :
      k > Len(delivered) =>
        /\ iq[(k - 1) % Slots] = accepted[k]
        /\ meta[(k - 1) % Slots] = accepted[k]

(* What ring_push has done so far.                                         *)
Pushed ==
  pushing # "idle" =>
    /\ Len(accepted) - Len(delivered) <= Slots - 2
    /\ pushing \in {"meta", "publish"} => iq[head] = frames
    /\ pushing = "publish" => meta[head] = frames

(* What ring_pop has done so far.                                          *)
Popped ==
  popping # "idle" =>
    /\ Len(delivered) < Len(accepted)
    /\ popping \in {"meta", "advance"} => out.iq = accepted[Len(delivered) + 1]
    /\ popping = "advance" => out.meta = accepted[Len(delivered) + 1]

RingInv ==
  /\ TypeOK
  /\ NotStarted
  /\ Window
  /\ Stored
  /\ Pushed
  /\ Popped
  /\ InOrderAndWhole
(* The slots of two positions of the window: what Full means.              *)
LEMMA FullMeansFull ==
  ASSUME RingInv
  PROVE  Full <=> Backlog = Slots - 1
<1> DEFINE a == Len(accepted)
           d == Len(delivered)
<1>1. a \in Nat /\ d \in Nat /\ d <= a /\ a - d <= Slots - 1
  BY SlotsAssumption DEF RingInv, TypeOK, Window
<1>2. Full <=> (a + 1) % Slots = d % Slots
  BY <1>1, ModSucc, SlotsAssumption DEF RingInv, Window, Full, Succ
<1> HIDE DEF a, d
<1>3. CASE a - d = Slots - 1
  <2>1. a + 1 = d + Slots
    BY <1>1, <1>3, SlotsAssumption
  <2>2. (a + 1) % Slots = d % Slots
    BY <1>1, <2>1, ModSame, SlotsAssumption
  <2> QED BY <1>2, <1>3, <2>2 DEF Backlog, a, d
<1>4. CASE a - d # Slots - 1
  <2>1. d < a + 1 /\ (a + 1) - d < Slots /\ a + 1 \in Nat
    BY <1>1, <1>4, SlotsAssumption
  <2>2. d % Slots # (a + 1) % Slots
    BY <1>1, <2>1, ModInjective, SlotsAssumption
  <2> QED BY <1>2, <1>4, <2>2 DEF Backlog, a, d
<1> QED BY <1>3, <1>4

(* The window's slots are not the one ring_push writes.                    *)
LEMMA HeadIsFree ==
  ASSUME RingInv, NEW k \in 1..Len(accepted), k > Len(delivered)
  PROVE  (k - 1) % Slots # head /\ (k - 1) % Slots \in Index
<1>1. Len(accepted) \in Nat /\ Len(delivered) \in Nat /\ k - 1 \in Nat
  BY DEF RingInv, TypeOK
<1>2. k - 1 < Len(accepted) /\ Len(accepted) - (k - 1) < Slots
  BY <1>1, SlotsAssumption DEF RingInv, Window
<1>3. (k - 1) % Slots # Len(accepted) % Slots
  BY <1>1, <1>2, ModInjective, SlotsAssumption
<1> QED BY <1>1, <1>3, ModInRange, SlotsAssumption DEF RingInv, Window, Index

-----------------------------------------------------------------------------

LEMMA InitRing == Init => RingInv
<1> SUFFICES ASSUME Init
             PROVE  RingInv
  OBVIOUS
<1>1. 0 % Slots = 0 /\ 0 \in Index
  BY SlotsAssumption, Z3 DEF Index
<1>2. TypeOK
  BY <1>1 DEF Init, TypeOK, EmptySlot
<1>3. Window
  BY <1>1, SlotsAssumption DEF Init, Window
<1> QED BY <1>2, <1>3 DEF Init, RingInv, NotStarted, Stored, Pushed, Popped, InOrderAndWhole

LEMMA StepRing == RingInv /\ [Next]_vars => RingInv'
<1> SUFFICES ASSUME RingInv, [Next]_vars
             PROVE  RingInv'
  OBVIOUS
<1> USE SlotsAssumption
<1>1. CASE ClearSlots
  <2>1. TypeOK'
    BY <1>1 DEF ClearSlots, RingInv, TypeOK, producer, consumer
  <2> QED BY <1>1, <2>1 DEF ClearSlots, RingInv, NotStarted, Window, Stored, Pushed,
             Popped, InOrderAndWhole, producer, consumer
<1>2. CASE ClearIndices
  <2>1. 0 % Slots = 0 /\ 0 \in Index
    BY Z3 DEF Index
  <2>2. TypeOK'
    BY <1>2, <2>1 DEF ClearIndices, RingInv, TypeOK, producer, consumer
  <2>3. delivered' = <<>> /\ accepted' = <<>> /\ tail' = 0 /\ popping' = "idle"
        /\ head' = 0 /\ pushing' = "idle"
    BY <1>2 DEF ClearIndices, RingInv, NotStarted, producer, consumer
  <2>4. Window'
    BY <2>1, <2>3 DEF Window
  <2> QED BY <2>2, <2>3, <2>4 DEF RingInv, NotStarted, Stored, Pushed, Popped, InOrderAndWhole
<1>3. CASE StartTask
  <2>1. TypeOK'
    BY <1>3 DEF StartTask, RingInv, TypeOK, producer, consumer
  <2> QED BY <1>3, <2>1 DEF StartTask, RingInv, NotStarted, Window, Stored, Pushed,
             Popped, InOrderAndWhole, producer, consumer
<1>4. CASE Drop
  <2>1. TypeOK'
    BY <1>4 DEF Drop, RingInv, TypeOK, consumer
  <2> QED BY <1>4, <2>1 DEF Drop, RingInv, NotStarted, Window, Stored, Pushed,
             Popped, InOrderAndWhole, consumer
<1>5. CASE BeginPush
  <2>1. TypeOK'
    BY <1>5 DEF BeginPush, RingInv, TypeOK, consumer
  <2>2. Backlog <= Slots - 2
    <3>1. Backlog # Slots - 1
      BY <1>5, FullMeansFull DEF BeginPush
    <3>2. Backlog \in Int /\ Backlog <= Slots - 1
      BY DEF RingInv, Window, TypeOK, Backlog
    <3> QED BY <3>1, <3>2
  <2>3. Pushed'
    BY <1>5, <2>2 DEF BeginPush, Pushed, Backlog
  <2> QED BY <1>5, <2>1, <2>3 DEF BeginPush, RingInv, NotStarted, Window, Stored,
             Popped, InOrderAndWhole, consumer
<1>6. CASE WriteIq
  <2>1. TypeOK'
    BY <1>6 DEF WriteIq, RingInv, TypeOK, consumer
  <2>2. Stored'
    <3>1. ASSUME NEW k \in 1..Len(accepted), k > Len(delivered)
          PROVE  iq'[(k - 1) % Slots] = iq[(k - 1) % Slots]
      BY <1>6, <3>1, HeadIsFree DEF WriteIq, RingInv, TypeOK
    <3> QED BY <1>6, <3>1 DEF WriteIq, RingInv, Stored
  <2>3. Pushed'
    BY <1>6 DEF WriteIq, RingInv, TypeOK, Pushed
  <2> QED BY <1>6, <2>1, <2>2, <2>3 DEF WriteIq, RingInv, NotStarted, Window, Popped,
             InOrderAndWhole, consumer
<1>7. CASE WriteMeta
  <2>1. TypeOK'
    BY <1>7 DEF WriteMeta, RingInv, TypeOK, consumer
  <2>2. Stored'
    <3>1. ASSUME NEW k \in 1..Len(accepted), k > Len(delivered)
          PROVE  meta'[(k - 1) % Slots] = meta[(k - 1) % Slots]
      BY <1>7, <3>1, HeadIsFree DEF WriteMeta, RingInv, TypeOK
    <3> QED BY <1>7, <3>1 DEF WriteMeta, RingInv, Stored
  <2>3. Pushed'
    BY <1>7 DEF WriteMeta, RingInv, TypeOK, Pushed
  <2> QED BY <1>7, <2>1, <2>2, <2>3 DEF WriteMeta, RingInv, NotStarted, Window, Popped,
             InOrderAndWhole, consumer
<1>8. CASE Publish
  <2>1. /\ Len(accepted) \in Nat /\ Len(delivered) \in Nat
        /\ Len(accepted') = Len(accepted) + 1
        /\ accepted'[Len(accepted) + 1] = frames
        /\ \A k \in 1..Len(accepted) : accepted'[k] = accepted[k]
    BY <1>8 DEF Publish, RingInv, TypeOK
  <2>2. head' = Len(accepted') % Slots
    BY <1>8, <2>1, ModSucc DEF Publish, RingInv, Window, Succ
  <2>3. TypeOK'
    <3>1. head' \in Index
      <4>1. Len(accepted') \in Nat
        BY <2>1
      <4> QED BY <2>2, <4>1, ModInRange DEF Index
    <3>2. accepted' \in Seq(Nat)
      BY <1>8 DEF Publish, RingInv, TypeOK
    <3> QED BY <1>8, <3>1, <3>2 DEF Publish, RingInv, TypeOK, consumer
  <2>4. Window'
    BY <1>8, <2>1, <2>2 DEF Publish, RingInv, Window, Pushed
  <2>5. Stored'
    <3>1. iq[head] = frames /\ meta[head] = frames
      BY <1>8 DEF Publish, RingInv, Pushed
    <3>2. iq[((Len(accepted) + 1) - 1) % Slots] = frames
          /\ meta[((Len(accepted) + 1) - 1) % Slots] = frames
      BY <2>1, <3>1 DEF RingInv, Window
    <3> SUFFICES ASSUME phase # "cleared", NEW k \in 1..(Len(accepted) + 1), k > Len(delivered)
                 PROVE  /\ iq[(k - 1) % Slots] = accepted'[k]
                        /\ meta[(k - 1) % Slots] = accepted'[k]
      BY <1>8, <2>1 DEF Publish, Stored
    <3>3. CASE k = Len(accepted) + 1
      BY <2>1, <3>2, <3>3
    <3>4. CASE k \in 1..Len(accepted)
      BY <2>1, <3>4 DEF RingInv, Stored
    <3> QED BY <2>1, <3>3, <3>4
  <2>6. Popped'
    BY <1>8, <2>1 DEF Publish, RingInv, Popped, consumer
  <2>7. InOrderAndWhole'
    BY <1>8, <2>1 DEF Publish, RingInv, InOrderAndWhole
  <2> QED BY <1>8, <2>3, <2>4, <2>5, <2>6, <2>7 DEF Publish, RingInv, NotStarted, Pushed, consumer
<1>9. CASE BeginPop
  <2>1. TypeOK'
    BY <1>9 DEF BeginPop, RingInv, TypeOK, producer
  <2>2. Len(delivered) < Len(accepted)
    BY <1>9 DEF BeginPop, RingInv, Window, TypeOK
  <2> QED BY <1>9, <2>1, <2>2 DEF BeginPop, RingInv, NotStarted, Window, Stored, Pushed,
             Popped, InOrderAndWhole, producer
<1>10. ASSUME popping # "idle"
       PROVE  iq[tail] = accepted[Len(delivered) + 1] /\ meta[tail] = accepted[Len(delivered) + 1]
  <2>1. Len(accepted) \in Nat /\ Len(delivered) \in Nat /\ Len(delivered) < Len(accepted)
    BY <1>10 DEF RingInv, TypeOK, Popped
  <2>2. phase # "cleared"
    BY <1>10 DEF RingInv, NotStarted
  <2>3. Len(delivered) + 1 \in 1..Len(accepted) /\ (Len(delivered) + 1) - 1 = Len(delivered)
    BY <2>1
  <2> QED BY <2>1, <2>2, <2>3 DEF RingInv, Stored, Window
<1>11. CASE ReadIq
  <2>1. out' = [iq |-> iq[tail], meta |-> out.meta]
    BY <1>11 DEF ReadIq, RingInv, TypeOK
  <2>2. TypeOK'
    BY <1>11, <2>1 DEF ReadIq, RingInv, TypeOK, producer
  <2>3. Popped'
    BY <1>10, <1>11, <2>1 DEF ReadIq, RingInv, Popped
  <2> QED BY <1>11, <2>2, <2>3 DEF ReadIq, RingInv, NotStarted, Window, Stored, Pushed,
             InOrderAndWhole, producer
<1>12. CASE ReadMeta
  <2>1. out' = [iq |-> out.iq, meta |-> meta[tail]]
    BY <1>12 DEF ReadMeta, RingInv, TypeOK
  <2>2. TypeOK'
    BY <1>12, <2>1 DEF ReadMeta, RingInv, TypeOK, producer
  <2>3. Popped'
    BY <1>10, <1>12, <2>1 DEF ReadMeta, RingInv, Popped
  <2> QED BY <1>12, <2>2, <2>3 DEF ReadMeta, RingInv, NotStarted, Window, Stored, Pushed,
             InOrderAndWhole, producer
<1>13. CASE Advance
  <2>1. /\ Len(accepted) \in Nat /\ Len(delivered) \in Nat
        /\ Len(delivered) < Len(accepted)
        /\ Len(delivered') = Len(delivered) + 1
        /\ delivered'[Len(delivered) + 1] = out
        /\ \A k \in 1..Len(delivered) : delivered'[k] = delivered[k]
    BY <1>13 DEF Advance, RingInv, TypeOK, Popped
  <2>2. tail' = Len(delivered') % Slots
    BY <1>13, <2>1, ModSucc DEF Advance, RingInv, Window, Succ
  <2>3. TypeOK'
    <3>1. tail' \in Index
      <4>1. Len(delivered') \in Nat
        BY <2>1
      <4> QED BY <2>2, <4>1, ModInRange DEF Index
    <3>2. delivered' \in Seq([iq : Nat, meta : Nat])
      BY <1>13 DEF Advance, RingInv, TypeOK
    <3> QED BY <1>13, <3>1, <3>2 DEF Advance, RingInv, TypeOK, producer
  <2>4. Window'
    BY <1>13, <2>1, <2>2 DEF Advance, RingInv, Window
  <2>5. Stored'
    <3> SUFFICES ASSUME phase # "cleared", NEW k \in 1..Len(accepted), k > Len(delivered) + 1
                 PROVE  /\ iq[(k - 1) % Slots] = accepted[k]
                        /\ meta[(k - 1) % Slots] = accepted[k]
      BY <1>13, <2>1 DEF Advance, Stored
    <3>1. k > Len(delivered)
      BY <2>1
    <3> QED BY <3>1 DEF RingInv, Stored
  <2>8. Pushed'
    <3>1. Len(accepted) - (Len(delivered) + 1) <= Len(accepted) - Len(delivered)
      BY <2>1
    <3>2. /\ pushing' = pushing /\ frames' = frames /\ head' = head
          /\ iq' = iq /\ meta' = meta /\ accepted' = accepted
      BY <1>13 DEF Advance, producer
    <3>3. pushing # "idle" => Len(accepted') - Len(delivered') <= Slots - 2
      BY <2>1, <3>2 DEF RingInv, Pushed
    <3> QED BY <3>2, <3>3 DEF RingInv, Pushed
  <2>6. InOrderAndWhole'
    <3>1. out = [iq |-> accepted[Len(delivered) + 1], meta |-> accepted[Len(delivered) + 1]]
      BY <1>13 DEF Advance, RingInv, TypeOK, Popped
    <3>2. \A k \in 1..(Len(delivered) + 1) :
            delivered'[k] = [iq |-> accepted[k], meta |-> accepted[k]]
      <4> TAKE k \in 1..(Len(delivered) + 1)
      <4>1. CASE k = Len(delivered) + 1
        BY <2>1, <3>1, <4>1
      <4>2. CASE k \in 1..Len(delivered)
        BY <2>1, <4>2 DEF RingInv, InOrderAndWhole
      <4> QED BY <2>1, <4>1, <4>2
    <3> QED BY <1>13, <2>1, <3>2 DEF Advance, InOrderAndWhole
  <2>7. NotStarted'
    BY <1>13 DEF Advance, RingInv, NotStarted
  <2> QED BY <1>13, <2>3, <2>4, <2>5, <2>6, <2>7, <2>8 DEF Advance, RingInv, Popped
<1>14. CASE UNCHANGED vars
  BY <1>14 DEF vars, producer, consumer, RingInv, TypeOK, NotStarted, Window, Stored, Pushed,
     Popped, InOrderAndWhole
<1> QED BY <1>1, <1>2, <1>3, <1>4, <1>5, <1>6, <1>7, <1>8, <1>9, <1>11, <1>12, <1>13, <1>14
       DEF Next, Producer, Consumer

LEMMA RingInvariant == Spec => []RingInv
BY InitRing, StepRing, PTL DEF Spec

-----------------------------------------------------------------------------
(* The results.                                                            *)

(* Every variable keeps its type, whatever the size of the ring.           *)
THEOREM TypeCorrect == Spec => []TypeOK
<1>1. RingInv => TypeOK
  BY DEF RingInv
<1> QED BY <1>1, RingInvariant, PTL

(* The CSI callback never writes the slot the DSP task is copying.         *)
THEOREM CoresNeverShareASlot == Spec => []NoSharedSlot
<1>1. RingInv => NoSharedSlot
  <2> SUFFICES ASSUME RingInv, pushing # "idle", popping # "idle"
               PROVE  head # tail
    BY DEF NoSharedSlot
  <2>1. Len(accepted) \in Nat /\ Len(delivered) \in Nat /\ Len(delivered) < Len(accepted)
        /\ Len(accepted) - Len(delivered) < Slots
    BY SlotsAssumption DEF RingInv, TypeOK, Popped, Pushed
  <2> QED BY <2>1, ModInjective, SlotsAssumption DEF RingInv, Window
<1> QED BY <1>1, RingInvariant, PTL

(* The DSP task receives the accepted frames in order and whole, whatever  *)
(* the interleaving of the cores and whatever the size of the ring.        *)
THEOREM DeliveryIsFaithful == Spec => []InOrderAndWhole
<1>1. RingInv => InOrderAndWhole
  BY DEF RingInv
<1> QED BY <1>1, RingInvariant, PTL

(* The ring drops a frame only when Slots - 1 frames wait in it.           *)
THEOREM OnlyAFullRingDrops == Spec => DropOnlyWhenFull
<1>1. RingInv /\ [Next]_vars => [drops' # drops => Backlog = Slots - 1]_vars
  <2> SUFFICES ASSUME RingInv, Next, drops' # drops
               PROVE  Backlog = Slots - 1
    BY DEF vars
  <2>1. Drop
    BY DEF Next, Producer, Consumer, ClearSlots, ClearIndices, StartTask, BeginPush, WriteIq,
       WriteMeta, Publish, BeginPop, ReadIq, ReadMeta, Advance, producer
  <2> QED BY <2>1, FullMeansFull DEF Drop
<1> QED BY <1>1, RingInvariant, PTL DEF Spec, DropOnlyWhenFull

-----------------------------------------------------------------------------
(* The ring is a queue.                                                    *)

Slot == [iq : Nat, meta : Nat]

(* The frame in the hands of ring_push is one the radio has delivered.     *)
FrameInv == frames <= MaxFrames /\ (pushing # "idle" => frames > 0)

LEMMA FrameInvariant == Spec => [](RingInv /\ FrameInv)
<1>1. Init => FrameInv
  BY FramesAssumption DEF Init, FrameInv
<1>2. RingInv /\ FrameInv /\ [Next]_vars => FrameInv'
  BY FramesAssumption
  DEF RingInv, TypeOK, FrameInv, Next, Producer, Consumer, ClearSlots, ClearIndices, StartTask,
      Drop, BeginPush, WriteIq, WriteMeta, Publish, BeginPop, ReadIq, ReadMeta, Advance,
      producer, vars
<1> QED BY <1>1, <1>2, RingInvariant, PTL DEF Spec

(* The end of a sequence of frames, as slots.                              *)
LEMMA SlotsOfTheEnd ==
  ASSUME NEW a \in Seq(Nat), NEW d \in Nat, d <= Len(a),
         NEW w, w = [k \in 1..(Len(a) - d) |-> Whole(a[d + k])]
  PROVE  /\ w \in Seq(Slot) /\ Len(w) = Len(a) - d
         /\ \A k \in 1..(Len(a) - d) : w[k] = Whole(a[d + k])
<1> DEFINE n == Len(a) - d
<1>1. n \in Nat
  BY LenProperties
<1>2. \A k \in 1..n : a[d + k] \in Nat
  <2> TAKE k \in 1..n
  <2>1. d + k \in 1..Len(a)
    BY LenProperties
  <2> QED BY <2>1, ElementOfSeq
<1>3. \A k \in 1..n : Whole(a[d + k]) \in Slot
  BY <1>2 DEF Whole, Slot
<1>4. w \in [1..n -> Slot]
  BY <1>3
<1>5. w \in Seq(Slot)
  BY <1>1, <1>4, SeqDef
<1>6. Len(w) = n
  <2>1. DOMAIN w = 1..n
    OBVIOUS
  <2>2. DOMAIN w = 1..Len(w) /\ Len(w) \in Nat
    BY <1>5, LenProperties
  <2> HIDE DEF n
  <2> QED BY <1>1, <2>1, <2>2
<1> QED BY <1>5, <1>6

(* What waits in the ring, in any state of its invariant.                  *)
LEMMA WaitingSlots ==
  ASSUME RingInv
  PROVE  /\ Waiting \in Seq(Slot) /\ Len(Waiting) = Backlog /\ Backlog \in Nat
         /\ \A k \in 1..Backlog : Waiting[k] = Whole(accepted[Len(delivered) + k])
<1>1. accepted \in Seq(Nat) /\ Len(delivered) \in Nat /\ Len(delivered) <= Len(accepted)
  BY DEF RingInv, TypeOK, Window
<1>2. Backlog \in Nat
  BY <1>1 DEF Backlog
<1> QED BY <1>1, <1>2, SlotsOfTheEnd DEF Waiting, Backlog

(* The same after a step.                                                  *)
LEMMA WaitingSlotsNext ==
  ASSUME RingInv'
  PROVE  /\ Waiting' \in Seq(Slot) /\ Len(Waiting') = Backlog'
         /\ \A k \in 1..Backlog' : Waiting'[k] = Whole(accepted'[Len(delivered') + k])
<1>1. accepted' \in Seq(Nat) /\ Len(delivered') \in Nat /\ Len(delivered') <= Len(accepted')
  BY DEF RingInv, TypeOK, Window
<1> QED BY <1>1, SlotsOfTheEnd DEF Waiting, Backlog

(* A published frame goes to the end of the queue.                         *)
LEMMA PublishPuts ==
  ASSUME RingInv, FrameInv, RingInv', Publish
  PROVE  Queue!Put(Whole(frames)) /\ Whole(frames) \in {Whole(frame) : frame \in 1..MaxFrames}
<1>1. /\ pushing = "publish" /\ accepted' = Append(accepted, frames)
      /\ UNCHANGED <<delivered, drops>>
  BY DEF Publish, producer
<1>2. /\ accepted \in Seq(Nat) /\ frames \in Nat
      /\ Len(accepted) \in Nat /\ Len(delivered) \in Nat
      /\ Len(accepted') = Len(accepted) + 1 /\ accepted'[Len(accepted) + 1] = frames
      /\ \A k \in 1..Len(accepted) : accepted'[k] = accepted[k]
  <2>1. accepted \in Seq(Nat) /\ frames \in Nat /\ Len(delivered) \in Nat
    BY DEF RingInv, TypeOK
  <2> QED BY <1>1, <2>1, AppendProperties, LenProperties
<1>3. Whole(frames) \in Slot /\ frames \in 1..MaxFrames
  BY <1>1, <1>2, FramesAssumption DEF FrameInv, Whole, Slot
<1>4. Len(Waiting) < Slots - 1
  BY <1>1, <1>2, WaitingSlots, SlotsAssumption DEF RingInv, Pushed, Backlog
<1>5. Waiting' = Append(Waiting, Whole(frames))
  <2> DEFINE old == Waiting
             new == Waiting'
             put == Append(Waiting, Whole(frames))
  <2>1. old \in Seq(Slot) /\ Len(old) = Backlog /\ Backlog \in Nat
        /\ \A k \in 1..Backlog : old[k] = Whole(accepted[Len(delivered) + k])
    BY WaitingSlots
  <2>2. new \in Seq(Slot) /\ Len(new) = Backlog'
        /\ \A k \in 1..Backlog' : new[k] = Whole(accepted'[Len(delivered) + k])
    BY <1>1, WaitingSlotsNext
  <2>3. Backlog' = Backlog + 1 /\ Backlog = Len(accepted) - Len(delivered)
    BY <1>1, <1>2 DEF Backlog
  <2> HIDE DEF old, new
  <2>4. put \in Seq(Slot) /\ Len(put) = Backlog + 1 /\ put[Backlog + 1] = Whole(frames)
        /\ \A k \in 1..Backlog : put[k] = old[k]
    BY <1>3, <2>1, AppendProperties DEF old
  <2> HIDE DEF put
  <2>5. ASSUME NEW k \in 1..(Backlog + 1) PROVE new[k] = put[k]
    <3>1. CASE k = Backlog + 1
      <4>1. Len(delivered) + k = Len(accepted) + 1
        BY <1>2, <2>1, <2>3, <3>1
      <4> QED BY <1>2, <2>1, <2>2, <2>3, <2>4, <3>1, <4>1
    <3>2. CASE k \in 1..Backlog
      <4>1. Len(delivered) + k \in 1..Len(accepted)
        BY <1>2, <2>1, <2>3, <3>2
      <4>2. accepted'[Len(delivered) + k] = accepted[Len(delivered) + k]
        BY <1>2, <4>1
      <4>3. new[k] = Whole(accepted'[Len(delivered) + k])
        BY <2>2, <2>3
      <4>4. put[k] = Whole(accepted[Len(delivered) + k])
        BY <2>1, <2>4, <3>2
      <4> QED BY <4>2, <4>3, <4>4
    <3> QED BY <2>1, <3>1, <3>2
  <2>6. new = put
    BY <2>2, <2>3, <2>4, <2>5, SeqEqual
  <2> QED BY <2>6 DEF new, put
<1> QED BY <1>1, <1>3, <1>4, <1>5 DEF Queue!Put

(* The slot that ring_pop hands on is the oldest frame of the queue.       *)
LEMMA AdvanceTakes ==
  ASSUME RingInv, RingInv', Advance
  PROVE  Queue!TakeOldest
<1>1. /\ popping = "advance" /\ delivered' = Append(delivered, out)
      /\ UNCHANGED <<accepted, drops>>
  BY DEF Advance, producer
<1>2. /\ Len(delivered) \in Nat /\ Len(accepted) \in Nat
      /\ Len(delivered') = Len(delivered) + 1 /\ Len(delivered) < Len(accepted)
  <2>1. delivered \in Seq(Slot) /\ accepted \in Seq(Nat) /\ out \in Slot
    BY DEF RingInv, TypeOK, Slot
  <2>2. Len(delivered) < Len(accepted)
    BY <1>1 DEF RingInv, Popped
  <2> QED BY <1>1, <2>1, <2>2, AppendProperties, LenProperties
<1>3. out = Whole(accepted[Len(delivered) + 1])
  BY <1>1 DEF RingInv, TypeOK, Popped, Whole
<1> DEFINE old == Waiting
           new == Waiting'
<1>4. old \in Seq(Slot) /\ Len(old) = Backlog /\ Backlog \in Nat
      /\ \A k \in 1..Backlog : old[k] = Whole(accepted[Len(delivered) + k])
  BY WaitingSlots
<1>5. new \in Seq(Slot) /\ Len(new) = Backlog'
      /\ \A k \in 1..Backlog' : new[k] = Whole(accepted[Len(delivered) + 1 + k])
  BY <1>1, <1>2, WaitingSlotsNext
<1>6. Backlog' = Backlog - 1 /\ Backlog = Len(accepted) - Len(delivered)
  BY <1>1, <1>2 DEF Backlog
<1> HIDE DEF old, new
<1>7. Backlog > 0 /\ old # <<>>
  BY <1>2, <1>4, <1>6, EmptySeq
<1>8. Head(old) = out
  <2>1. Head(old) = old[1] /\ 1 \in 1..Backlog
    BY <1>4, <1>7
  <2> QED BY <1>3, <1>4, <2>1
<1>9. Tail(old) \in Seq(Slot) /\ Len(Tail(old)) = Backlog - 1
      /\ \A k \in 1..(Backlog - 1) : Tail(old)[k] = old[k + 1]
  BY <1>4, <1>7, HeadTailProperties
<1>10. ASSUME NEW k \in 1..(Backlog - 1) PROVE new[k] = Tail(old)[k]
  <2>1. k + 1 \in 1..Backlog /\ Len(delivered) + 1 + k = Len(delivered) + (k + 1)
    BY <1>2, <1>4
  <2>2. old[k + 1] = Whole(accepted[Len(delivered) + 1 + k])
    BY <1>4, <2>1
  <2>3. new[k] = Whole(accepted[Len(delivered) + 1 + k])
    BY <1>5, <1>6
  <2> QED BY <1>9, <2>2, <2>3
<1>11. new = Tail(old)
  BY <1>5, <1>6, <1>9, <1>10, SeqEqual
<1> QED BY <1>1, <1>7, <1>8, <1>11 DEF Queue!TakeOldest, old, new

(* With all its half-written and half-copied slots the ring is a queue of  *)
(* Slots - 1 whole frames, for every size and every interleaving.          *)
THEOREM RingIsQueue == Spec => ImplementsQueue
<1>1. Init => Queue!Init
  <2> SUFFICES ASSUME Init PROVE Queue!Init
    OBVIOUS
  <2>1. RingInv /\ accepted = <<>> /\ delivered = <<>> /\ drops = 0
    BY InitRing DEF Init
  <2>2. Waiting \in Seq(Slot) /\ Len(Waiting) = 0
    BY <2>1, WaitingSlots DEF Backlog
  <2>3. Waiting = <<>>
    BY <2>2, EmptySeq
  <2> QED BY <2>1, <2>3 DEF Queue!Init
<1>2. (RingInv /\ FrameInv) /\ (RingInv /\ FrameInv)' /\ [Next]_vars
        => [Queue!Next]_(Queue!vars)
  <2> SUFFICES ASSUME RingInv, FrameInv, RingInv', [Next]_vars
               PROVE  [Queue!Next]_(Queue!vars)
    OBVIOUS
  <2>1. CASE Publish
    BY <2>1, PublishPuts DEF Queue!Next
  <2>2. CASE Advance
    BY <2>2, AdvanceTakes DEF Queue!Next
  <2>3. CASE Drop
    <3>1. Len(Waiting) = Slots - 1
      BY <2>3, WaitingSlots, FullMeansFull DEF Drop
    <3>2. drops' = drops + 1 /\ Waiting' = Waiting /\ delivered' = delivered
      BY <2>3 DEF Drop, Waiting, Backlog
    <3> QED BY <3>1, <3>2 DEF Queue!Next, Queue!TurnAway
  <2>4. CASE ClearIndices
    <3>1. delivered = <<>> /\ delivered' = <<>> /\ accepted' = <<>> /\ drops' = drops
      BY <2>4 DEF ClearIndices, RingInv, NotStarted, producer
    <3>2. Waiting' \in Seq(Slot) /\ Len(Waiting') = Backlog'
      BY WaitingSlotsNext
    <3>3. Backlog' = 0
      BY <3>1 DEF Backlog
    <3>4. Waiting' = <<>>
      BY <3>2, <3>3, EmptySeq
    <3> QED BY <3>1, <3>4 DEF Queue!Next, Queue!Clear
  <2>5. CASE UNCHANGED <<accepted, delivered, drops>>
    BY <2>5 DEF Waiting, Backlog, Queue!vars
  <2> QED BY <2>1, <2>2, <2>3, <2>4, <2>5
          DEF Next, Producer, Consumer, ClearSlots, StartTask, BeginPush, WriteIq, WriteMeta,
              BeginPop, ReadIq, ReadMeta, producer, vars
<1> QED BY <1>1, <1>2, FrameInvariant, PTL DEF Spec, ImplementsQueue, Queue!Spec
=============================================================================

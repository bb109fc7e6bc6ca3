-------------------------- MODULE EspNowSync_proofs --------------------------
(***************************************************************************)
(* Proofs about EspNowSync, for any set of boards and any timeout, EMA     *)
(* weight, delay and bounds.                                               *)
(***************************************************************************)
EXTENDS EspNowSync, TLAPS

USE EmaAssumption, DelayAssumption

LEMMA IdsAreNumbers == \A n \in Ids : n \in Nat /\ n # 0
BY IdsAssumption

(* Floor division by a positive number never overshoots: the EMA's step    *)
(* lies between 0 and the whole error (line 143).                          *)
LEMMA DivisionShrinks ==
  ASSUME NEW x \in Int, NEW k \in Nat \ {0}
  PROVE  /\ x \div k \in Int
         /\ x >= 0 => 0 <= x \div k /\ x \div k <= x
         /\ x <= 0 => x <= x \div k /\ x \div k <= 0
<1> DEFINE q == x \div k
<1>1. q \in Int /\ k * q <= x /\ x < k * q + k
  BY SMT
<1> HIDE DEF q
<1>2. ASSUME x >= 0 PROVE 0 <= q /\ q <= x
  <2>1. q >= 0
    <3>1. SUFFICES ASSUME q <= -1 PROVE FALSE
      BY <1>1
    <3>2. k * q <= k * (-1)
      BY <1>1, <3>1
    <3> QED BY <1>1, <1>2, <3>2
  <2>2. q <= k * q
    BY <1>1, <2>1
  <2> QED BY <1>1, <2>1, <2>2
<1>3. ASSUME x <= 0 PROVE x <= q /\ q <= 0
  <2>1. q <= 0
    <3>1. SUFFICES ASSUME q >= 1 PROVE FALSE
      BY <1>1
    <3>2. k * q >= k * 1
      BY <1>1, <3>1
    <3> QED BY <1>1, <1>3, <3>2
  <2>2. x <= q
    <3>1. SUFFICES ASSUME q <= x - 1 PROVE FALSE
      BY <1>1
    <3>2. k * q + k <= k * x
      <4>1. k * (q + 1) <= k * x
        BY <1>1, <3>1
      <4> QED BY <1>1, <4>1
    <3>3. k * x <= x
      BY <1>3
    <3> QED BY <1>1, <3>2, <3>3
  <2> QED BY <2>1, <2>2
<1> QED BY <1>1, <1>2, <1>3 DEF q

-----------------------------------------------------------------------------
(* Type correctness.                                                       *)

(* A frame that survives a tick stays a frame, one tick older.             *)
LEMMA AgedBeacon ==
  ASSUME NEW b \in Beacons, b.age < MaxDelay
  PROVE  /\ [b EXCEPT !.age = @ + 1] \in Beacons
         /\ [b EXCEPT !.age = @ + 1].from = b.from
         /\ [b EXCEPT !.age = @ + 1].to = b.to
         /\ [b EXCEPT !.age = @ + 1].met = b.met
         /\ [b EXCEPT !.age = @ + 1].age = b.age + 1
BY SMT DEF Beacons

LEMMA InitTypeOK == Init => TypeOK
BY DEF Init, TypeOK, Phases, TimerPhases

LEMMA NextTypeOK == TypeOK /\ [Next]_vars => TypeOK'
<1> SUFFICES ASSUME TypeOK, [Next]_vars PROVE TypeOK'
  OBVIOUS
<1> USE DEF TypeOK
<1>1. CASE Tick
  <2>1. air' \subseteq Beacons
    BY <1>1, AgedBeacon DEF Tick
  <2>2. clk' \in [Ids -> Nat]
    BY <1>1 DEF Tick
  <2> QED BY <1>1, <2>1, <2>2 DEF Tick, board, samples
<1>2. ASSUME NEW b \in air, Lose(b) PROVE TypeOK'
  BY <1>2 DEF Lose, board, samples
<1>3. ASSUME NEW n \in Ids, BoardStep(n) PROVE TypeOK'
  <2>1. CASE Register(n)
    BY <2>1 DEF Register, board, samples, Phases
  <2>2. CASE BecomeCandidate(n)
    BY <2>2 DEF BecomeCandidate, samples, Phases
  <2>3. CASE IdentifyLeader(n)
    BY <2>3 DEF IdentifyLeader, samples, Phases
  <2>4. CASE StartTimer(n)
    BY <2>4 DEF StartTimer, samples, Phases
  <2>5. CASE Crash(n)
    <3>1. truth' \in [Ids -> [lo : Int, hi : Int]]
      BY <2>5 DEF Crash
    <3> QED BY <2>5, <3>1 DEF Crash, Phases, TimerPhases
  <2>6. CASE TimerFires(n)
    BY <2>6 DEF TimerFires, board, samples, TimerPhases
  <2>7. CASE TimerTests(n)
    BY <2>7 DEF TimerTests, board, samples, TimerPhases
  <2>8. CASE TimerPromotes(n)
    <3>1. /\ isLeader' \in [Ids -> BOOLEAN]
          /\ leaderId' \in [Ids -> Ids \cup {0}]
          /\ offset' \in [Ids -> Int]
      <4>1. CASE Promotes(n)
        <5>1. /\ isLeader' = [isLeader EXCEPT ![n] = TRUE]
              /\ leaderId' = [leaderId EXCEPT ![n] = n]
              /\ offset' = [offset EXCEPT ![n] = 0]
          BY <2>8, <4>1 DEF TimerPromotes
        <5> QED BY <5>1
      <4>2. CASE ~Promotes(n)
        BY <2>8, <4>2 DEF TimerPromotes
      <4> QED BY <4>1, <4>2
    <3> QED BY <2>8, <3>1 DEF TimerPromotes, samples, TimerPhases
  <2>9. CASE ReadsFlag(n)
    BY <2>9 DEF ReadsFlag, board, samples, TimerPhases
  <2>10. ASSUME NEW receivers \in SUBSET (Ids \ {n}), SendBeacon(n, receivers)
         PROVE  TypeOK'
    <3>1. \A m \in Ids : BeaconTo(n, m) \in Beacons
      BY SMT DEF BeaconTo, Beacons
    <3>2. air' \subseteq Beacons
      BY <2>10, <3>1 DEF SendBeacon
    <3> QED BY <2>10, <3>2 DEF SendBeacon, board, samples, TimerPhases
  <2>11. ASSUME NEW b \in air, OnRecv(n, b) PROVE TypeOK'
    <3>1. b.from \in Ids /\ b.epoch \in Nat /\ b.met \in Nat
      BY SMT DEF Beacons
    <3>2. RawOffset(n, b) \in Int
      BY <3>1 DEF RawOffset
    <3>3. Smooth(n, RawOffset(n, b)) \in Int
      <4>1. smoothed[n] \in Int /\ RawOffset(n, b) - smoothed[n] \in Int
        BY <3>2
      <4>2. (RawOffset(n, b) - smoothed[n]) \div EmaDiv \in Int
        BY <4>1, DivisionShrinks
      <4> QED BY <3>2, <4>1, <4>2 DEF Smooth
    <3>4. NewLeader(n, b) \in Ids \cup {0} /\ StillLeads(n, b) \in BOOLEAN
      BY <3>1 DEF NewLeader, StillLeads
    <3>5. leaderId' \in [Ids -> Ids \cup {0}] /\ isLeader' \in [Ids -> BOOLEAN]
      BY <2>11, <3>4 DEF OnRecv
    <3>6. CASE Measures(n, b)
      <4>1. /\ offset' = [offset EXCEPT ![n] = RawOffset(n, b)]
            /\ smoothed' = [smoothed EXCEPT ![n] = Smooth(n, RawOffset(n, b))]
            /\ seeded' = [seeded EXCEPT ![n] = TRUE]
            /\ lastSeen' = [lastSeen EXCEPT ![n] = clk[n]]
            /\ heard' = [heard EXCEPT ![n] = @ \cup {b.from}]
            /\ truth' = [truth EXCEPT ![n] = Widened(n, TrueOffset(b))]
        BY <2>11, <3>6 DEF OnRecv
      <4>2. /\ offset' \in [Ids -> Int] /\ smoothed' \in [Ids -> Int]
            /\ seeded' \in [Ids -> BOOLEAN] /\ lastSeen' \in [Ids -> Nat]
            /\ heard' \in [Ids -> SUBSET Ids]
        BY <3>1, <3>2, <3>3, <4>1
      <4>3. TrueOffset(b) \in Int /\ truth[n].lo \in Int /\ truth[n].hi \in Int
        BY <3>1 DEF TrueOffset
      <4>4. Widened(n, TrueOffset(b)) \in [lo : Int, hi : Int]
        BY <4>3 DEF Widened
      <4>5. truth' \in [Ids -> [lo : Int, hi : Int]]
        BY <4>1, <4>4
      <4> QED BY <2>11, <3>5, <4>2, <4>5 DEF OnRecv
    <3>7. CASE ~Measures(n, b)
      BY <2>11, <3>5, <3>7 DEF OnRecv, samples
    <3> QED BY <3>6, <3>7
  <2> QED BY <1>3, <2>1, <2>2, <2>3, <2>4, <2>5, <2>6, <2>7, <2>8, <2>9, <2>10, <2>11
          DEF BoardStep, InitRuns, TimerRuns
<1>4. CASE UNCHANGED vars
  BY <1>4 DEF vars, board, samples
<1> QED BY <1>1, <1>2, <1>3, <1>4 DEF Next

(* Every variable keeps its type, whatever the set of boards.              *)
THEOREM TypeCorrect == Spec => []TypeOK
<1> QED BY InitTypeOK, NextTypeOK, PTL DEF Spec

-----------------------------------------------------------------------------
(* Leadership.  The timer callback runs only once init is over, and from   *)
(* the moment init has named the board (line 218) its leader is never a    *)
(* higher id: adoption only lowers it, and the promotion test fails.       *)

LeadershipInv ==
  \A n \in Ids :
    /\ timer[n] # "idle" => pc[n] = "running"
    /\ HasOpinion(n) => /\ leaderId[n] # 0 /\ leaderId[n] <= n
                        /\ isLeader[n] => leaderId[n] = n

(* A board that has named itself never promotes itself.                    *)
LEMMA PromotionIsDead ==
  ASSUME TypeOK, LeadershipInv, NEW n \in Ids, timer[n] = "doubting"
  PROVE  ~Promotes(n)
<1>1. leaderId[n] # 0 /\ leaderId[n] <= n
  BY DEF LeadershipInv, HasOpinion
<1>2. leaderId[n] \in Nat /\ n \in Nat
  <2>1. leaderId[n] \in Ids \cup {0}
    BY DEF TypeOK
  <2> QED BY <2>1, IdsAreNumbers
<1> QED BY <1>1, <1>2 DEF Promotes

LEMMA InitLeadership == Init => LeadershipInv
BY DEF Init, LeadershipInv, HasOpinion

LEMMA NextLeadership ==
  TypeOK /\ LeadershipInv /\ [Next]_vars => LeadershipInv'
<1> SUFFICES ASSUME TypeOK, LeadershipInv, [Next]_vars PROVE LeadershipInv'
  OBVIOUS
<1>1. CASE Tick
  BY <1>1 DEF Tick, board, LeadershipInv, HasOpinion
<1>2. ASSUME NEW b \in air, Lose(b) PROVE LeadershipInv'
  BY <1>2 DEF Lose, board, LeadershipInv, HasOpinion
<1>3. ASSUME NEW n \in Ids, BoardStep(n) PROVE LeadershipInv'
  <2> USE DEF LeadershipInv, HasOpinion, TypeOK
  <2>1. CASE Register(n)
    BY <2>1 DEF Register, board
  <2>2. CASE BecomeCandidate(n)
    BY <2>2 DEF BecomeCandidate
  <2>3. CASE IdentifyLeader(n)
    BY <2>3, IdsAreNumbers DEF IdentifyLeader
  <2>4. CASE StartTimer(n)
    BY <2>4 DEF StartTimer
  <2>5. CASE Crash(n)
    BY <2>5 DEF Crash
  <2>6. CASE TimerFires(n)
    BY <2>6 DEF TimerFires, board
  <2>7. CASE TimerPromotes(n)
    <3>1. ~Promotes(n)
      BY <2>7, PromotionIsDead DEF TimerPromotes
    <3>2. UNCHANGED <<isLeader, leaderId, pc>>
      BY <2>7, <3>1 DEF TimerPromotes
    <3> QED BY <2>7, <3>2 DEF TimerPromotes
  <2>9. CASE TimerTests(n) \/ ReadsFlag(n)
    BY <2>9 DEF TimerTests, ReadsFlag, board
  <2>10. ASSUME NEW receivers \in SUBSET (Ids \ {n}), SendBeacon(n, receivers)
         PROVE  LeadershipInv'
    BY <2>10 DEF SendBeacon, board
  <2>8. ASSUME NEW b \in air, OnRecv(n, b) PROVE LeadershipInv'
    <3>1. b.from \in Ids
      BY SMT DEF Beacons
    <3>2. leaderId[n] \in Nat /\ b.from \in Nat \ {0} /\ n \in Nat
      <4>1. leaderId[n] \in Ids \cup {0}
        OBVIOUS
      <4> QED BY <3>1, <4>1, IdsAreNumbers
    <3>3. HasOpinion(n) =>
            /\ NewLeader(n, b) # 0 /\ NewLeader(n, b) <= n
            /\ StillLeads(n, b) => NewLeader(n, b) = n
      BY <3>2 DEF NewLeader, StillLeads, StepsDown, Adopts
    <3>4. /\ leaderId' = [leaderId EXCEPT ![n] = NewLeader(n, b)]
          /\ isLeader' = [isLeader EXCEPT ![n] = StillLeads(n, b)]
          /\ UNCHANGED <<pc, timer>>
      BY <2>8 DEF OnRecv
    <3> QED BY <3>3, <3>4
  <2> QED BY <1>3, <2>1, <2>2, <2>3, <2>4, <2>5, <2>6, <2>7, <2>8, <2>9, <2>10
          DEF BoardStep, InitRuns, TimerRuns
<1>4. CASE UNCHANGED vars
  BY <1>4 DEF vars, board, LeadershipInv, HasOpinion
<1> QED BY <1>1, <1>2, <1>3, <1>4 DEF Next

(* Past init a board follows itself or a lower id and leads only under its *)
(* own (on_recv against c6_sync_espnow_init, lines 105-233).               *)
THEOREM LowestIdAlwaysWins == Spec => []LowestIdWins
<1>1. TypeOK /\ LeadershipInv => LowestIdWins
  BY DEF LeadershipInv, LowestIdWins, HasOpinion, Operational
<1> QED
  BY <1>1, InitTypeOK, NextTypeOK, InitLeadership, NextLeadership, PTL DEF Spec

(* A board that stepped down leads again only after a reset: no follower   *)
(* takes over from a leader that fell silent (lines 174-189).              *)
THEOREM NoTakeover == Spec => NoSecondReign
<1> DEFINE Reign == \A n \in Ids :
             Operational(n) /\ ~isLeader[n] /\ pc'[n] # "off" => ~isLeader'[n]
<1>1. TypeOK /\ LeadershipInv /\ [Next]_vars => Reign
  <2> SUFFICES ASSUME TypeOK, LeadershipInv, [Next]_vars,
                      NEW n \in Ids, Operational(n), ~isLeader[n], pc'[n] # "off"
               PROVE  ~isLeader'[n]
    OBVIOUS
  <2>1. ASSUME NEW m \in Ids, TimerPromotes(m) PROVE ~isLeader'[n]
    <3>1. ~Promotes(m)
      BY <2>1, PromotionIsDead DEF TimerPromotes
    <3> QED BY <2>1, <3>1 DEF TimerPromotes
  <2>2. ASSUME NEW m \in Ids, NEW b \in air, OnRecv(m, b) PROVE ~isLeader'[n]
    <3>1. isLeader' = [isLeader EXCEPT ![m] = StillLeads(m, b)]
      BY <2>2 DEF OnRecv
    <3> QED BY <3>1 DEF StillLeads, TypeOK
  <2>3. ASSUME NEW m \in Ids,
               \/ Register(m) \/ BecomeCandidate(m) \/ IdentifyLeader(m)
               \/ StartTimer(m) \/ Crash(m) \/ TimerFires(m) \/ TimerTests(m)
               \/ ReadsFlag(m)
               \/ \E receivers \in SUBSET (Ids \ {m}) : SendBeacon(m, receivers)
        PROVE  ~isLeader'[n]
    BY <2>3 DEF Register, BecomeCandidate, IdentifyLeader, StartTimer, Crash,
                TimerFires, TimerTests, ReadsFlag, SendBeacon, board, Operational, TypeOK
  <2>4. ASSUME Tick \/ (\E b \in air : Lose(b)) \/ UNCHANGED vars
        PROVE  ~isLeader'[n]
    BY <2>4 DEF Tick, Lose, vars, board
  <2> QED BY <2>1, <2>2, <2>3, <2>4 DEF Next, BoardStep, InitRuns, TimerRuns
<1>2. TypeOK /\ LeadershipInv /\ [Next]_vars => [Reign]_vars
  BY <1>1
<1> QED
  BY <1>2, InitTypeOK, NextTypeOK, InitLeadership, NextLeadership, PTL
  DEF Spec, NoSecondReign
-----------------------------------------------------------------------------
(* What the frames in the air and the history say: a frame comes from a    *)
(* board that has been up, its receiver is up, and the receiver's clock    *)
(* has advanced no further since than the frame is old.                    *)

FramesInv ==
  \A b \in air :
    /\ boots[b.from] >= 1 /\ pc[b.to] # "off"
    /\ b.met <= clk[b.to] /\ clk[b.to] <= b.met + b.age

SamplesInv ==
  \A n \in Ids :
    /\ pc[n] = "off" => ~seeded[n]
    /\ pc[n] # "off" => boots[n] >= 1

HistoryInv == FramesInv /\ SamplesInv

LEMMA InitHistory == Init => HistoryInv
BY DEF Init, HistoryInv, FramesInv, SamplesInv

LEMMA NextHistory ==
  TypeOK /\ LeadershipInv /\ HistoryInv /\ [Next]_vars => HistoryInv'
<1> SUFFICES ASSUME TypeOK, LeadershipInv, HistoryInv, [Next]_vars
             PROVE  HistoryInv'
  OBVIOUS
<1> USE DEF HistoryInv, FramesInv, SamplesInv, TypeOK
<1>a. \A b \in air : /\ b.from \in Ids /\ b.to \in Ids /\ b.epoch \in Nat
                     /\ b.met \in Nat /\ b.age \in 0..MaxDelay
  BY SMT DEF Beacons
<1>1. CASE Tick
  <2>1. SamplesInv'
    BY <1>1 DEF Tick, board
  <2>2. ASSUME NEW b \in air'
        PROVE  /\ boots'[b.from] >= 1 /\ pc'[b.to] # "off"
               /\ b.met <= clk'[b.to] /\ clk'[b.to] <= b.met + b.age
    <3>1. PICK x \in air : x.age < MaxDelay /\ b = [x EXCEPT !.age = @ + 1]
      BY <1>1 DEF Tick
    <3>2. b.from = x.from /\ b.to = x.to /\ b.met = x.met /\ b.age = x.age + 1
      BY <3>1, AgedBeacon
    <3>3. /\ x.to \in Ids /\ x.met \in Nat /\ x.age \in Nat
          /\ boots[x.from] >= 1 /\ pc[x.to] # "off"
          /\ x.met <= clk[x.to] /\ clk[x.to] <= x.met + x.age
      BY <1>a
    <3>4. clk'[x.to] \in {clk[x.to], clk[x.to] + 1}
      BY <1>1, <3>3 DEF Tick
    <3>5. boots' = boots /\ pc' = pc
      BY <1>1 DEF Tick
    <3>6. clk[x.to] \in Nat
      BY <3>3
    <3>7. x.met <= clk'[x.to] /\ clk'[x.to] <= x.met + (x.age + 1)
      BY <3>3, <3>4, <3>6
    <3> QED BY <3>2, <3>3, <3>5, <3>7
  <2> QED BY <2>1, <2>2
<1>2. ASSUME NEW b \in air, Lose(b) PROVE HistoryInv'
  BY <1>2 DEF Lose, board
<1>3. ASSUME NEW n \in Ids, BoardStep(n) PROVE HistoryInv'
  <2>1. CASE Register(n)
    BY <1>a, <2>1 DEF Register, board
  <2>2. CASE BecomeCandidate(n)
    BY <1>a, <2>2 DEF BecomeCandidate
  <2>3. CASE IdentifyLeader(n)
    BY <1>a, <2>3 DEF IdentifyLeader
  <2>4. CASE StartTimer(n)
    BY <1>a, <2>4 DEF StartTimer
  <2>5. CASE Crash(n)
    BY <1>a, <2>5 DEF Crash
  <2>6. CASE TimerFires(n) \/ TimerTests(n) \/ TimerPromotes(n) \/ ReadsFlag(n)
    BY <1>a, <2>6 DEF TimerFires, TimerTests, TimerPromotes, ReadsFlag, board
  <2>7. ASSUME NEW receivers \in SUBSET (Ids \ {n}), SendBeacon(n, receivers)
        PROVE  HistoryInv'
    <3>1. UNCHANGED <<pc, clk, seeded, boots>> /\ timer[n] = "leading"
      BY <2>7 DEF SendBeacon, board
    <3>2. SamplesInv'
      BY <3>1
    <3>3. pc[n] # "off"
      BY <3>1 DEF LeadershipInv
    <3>4. ASSUME NEW b \in air', b \notin air
          PROVE  \E m \in Ids : /\ Receiving(m) /\ b.from = n /\ b.to = m
                                /\ b.met = clk[m] /\ b.age = 0
      <4>1. PICK m \in receivers : Receiving(m) /\ b = BeaconTo(n, m)
        BY <2>7, <3>4 DEF SendBeacon
      <4> QED BY <4>1 DEF BeaconTo
    <3>5. FramesInv'
      BY <1>a, <3>1, <3>3, <3>4 DEF Receiving
    <3> QED BY <3>2, <3>5
  <2>8. ASSUME NEW b \in air, OnRecv(n, b) PROVE HistoryInv'
    <3>1. air' = air \ {b} /\ UNCHANGED <<pc, clk, boots>> /\ pc[n] # "off"
      BY <2>8 DEF OnRecv, Receiving
    <3>2. FramesInv'
      BY <1>a, <3>1
    <3>3. seeded' = [seeded EXCEPT ![n] = TRUE] \/ seeded' = seeded
      BY <2>8 DEF OnRecv
    <3>4. SamplesInv'
      BY <3>1, <3>3
    <3> QED BY <3>2, <3>4
  <2> QED BY <1>3, <2>1, <2>2, <2>3, <2>4, <2>5, <2>6, <2>7, <2>8 DEF BoardStep, InitRuns, TimerRuns
<1>4. CASE UNCHANGED vars
  BY <1>4 DEF vars, board
<1> QED BY <1>1, <1>2, <1>3, <1>4 DEF Next
-----------------------------------------------------------------------------
(* Accuracy.  A sample is short of the true offset at its sending by what  *)
(* the receiver's clock gained on the way, at most MaxDelay; an EMA of     *)
(* such samples cannot leave the span of the true offsets, so widened.     *)

LEMMA EmaStaysBetween ==
  ASSUME NEW lo \in Int, NEW hi \in Int, NEW s \in Int, NEW r \in Int,
         lo <= s, s <= hi, lo <= r, r <= hi
  PROVE  lo <= s + (r - s) \div EmaDiv /\ s + (r - s) \div EmaDiv <= hi
<1> DEFINE d == (r - s) \div EmaDiv
<1>1. r - s \in Int
  OBVIOUS
<1>2. /\ d \in Int
      /\ r - s >= 0 => 0 <= d /\ d <= r - s
      /\ r - s <= 0 => r - s <= d /\ d <= 0
  BY <1>1, DivisionShrinks
<1> HIDE DEF d
<1>3. lo <= s + d /\ s + d <= hi
  BY <1>2
<1> QED BY <1>3 DEF d

AccuracyInv ==
  \A n \in Ids : seeded[n] =>
    smoothed[n] <= truth[n].hi /\ truth[n].lo - MaxDelay <= smoothed[n]

LEMMA InitAccuracy == Init => AccuracyInv
BY DEF Init, AccuracyInv

LEMMA NextAccuracy ==
  TypeOK /\ HistoryInv /\ AccuracyInv /\ [Next]_vars => AccuracyInv'
<1> SUFFICES ASSUME TypeOK, HistoryInv, AccuracyInv, [Next]_vars
             PROVE  AccuracyInv'
  OBVIOUS
<1>1. CASE UNCHANGED <<smoothed, seeded, truth>>
  BY <1>1 DEF AccuracyInv
<1>2. ASSUME NEW n \in Ids, Crash(n) PROVE AccuracyInv'
  BY <1>2 DEF Crash, AccuracyInv, TypeOK
<1>3. ASSUME NEW n \in Ids, NEW b \in air, OnRecv(n, b), Measures(n, b)
      PROVE  AccuracyInv'
  <2> DEFINE raw == RawOffset(n, b)
             x == TrueOffset(b)
             new == Smooth(n, raw)
             span == Widened(n, x)
  <2>1. /\ smoothed' = [smoothed EXCEPT ![n] = new]
        /\ seeded' = [seeded EXCEPT ![n] = TRUE]
        /\ truth' = [truth EXCEPT ![n] = span]
        /\ b.to = n
    BY <1>3 DEF OnRecv
  <2>2. /\ b.epoch \in Nat /\ b.met \in Nat /\ b.age \in Nat /\ b.age <= MaxDelay
        /\ clk[n] \in Nat
    BY SMT DEF TypeOK, Beacons
  <2>3. b.met <= clk[n] /\ clk[n] <= b.met + b.age
    BY <2>1 DEF HistoryInv, FramesInv
  <2>4. raw \in Int /\ x \in Int /\ raw <= x /\ x - MaxDelay <= raw
    BY <2>2, <2>3 DEF RawOffset, TrueOffset
  <2>5. smoothed[n] \in Int /\ truth[n].lo \in Int /\ truth[n].hi \in Int
    BY DEF TypeOK
  <2> HIDE DEF raw, x
  <2>6. new <= span.hi /\ span.lo - MaxDelay <= new
    <3>1. CASE ~seeded[n]
      BY <2>4, <3>1 DEF Smooth, Widened
    <3>2. CASE seeded[n]
      <4> DEFINE lo == IF x < truth[n].lo THEN x ELSE truth[n].lo
                 hi == IF x > truth[n].hi THEN x ELSE truth[n].hi
                 low == lo - MaxDelay
      <4>1. span.lo = lo /\ span.hi = hi
        BY <3>2 DEF Widened
      <4>2. new = smoothed[n] + (raw - smoothed[n]) \div EmaDiv
        BY <3>2 DEF Smooth
      <4>3. smoothed[n] <= truth[n].hi /\ truth[n].lo - MaxDelay <= smoothed[n]
        BY <3>2 DEF AccuracyInv
      <4>4. /\ low \in Int /\ hi \in Int
            /\ low <= smoothed[n] /\ smoothed[n] <= hi /\ low <= raw /\ raw <= hi
        BY <2>4, <2>5, <4>3
      <4> HIDE DEF lo, hi, new, span
      <4>5. lo - MaxDelay <= new /\ new <= hi
        <5> HIDE DEF low
        <5>1. low <= new /\ new <= hi
          BY <2>4, <2>5, <4>2, <4>4, EmaStaysBetween
        <5> QED BY <5>1 DEF low
      <4> QED BY <4>1, <4>5
    <3> QED BY <3>1, <3>2
  <2> HIDE DEF new, span
  <2>7. smoothed'[n] = new /\ truth'[n] = span
    BY <2>1 DEF TypeOK
  <2>8. \A m \in Ids \ {n} : /\ smoothed'[m] = smoothed[m] /\ truth'[m] = truth[m]
                            /\ seeded'[m] = seeded[m]
    BY <2>1 DEF TypeOK
  <2> QED BY <2>6, <2>7, <2>8 DEF AccuracyInv
<1>4. ASSUME NEW n \in Ids, NEW b \in air, OnRecv(n, b), ~Measures(n, b)
      PROVE  AccuracyInv'
  BY <1>1, <1>4 DEF OnRecv, samples
<1>5. ASSUME NEW n \in Ids, BoardStep(n) PROVE AccuracyInv'
  <2>1. CASE \/ Register(n) \/ BecomeCandidate(n) \/ IdentifyLeader(n) \/ StartTimer(n)
             \/ TimerFires(n) \/ TimerTests(n) \/ TimerPromotes(n) \/ ReadsFlag(n)
             \/ \E receivers \in SUBSET (Ids \ {n}) : SendBeacon(n, receivers)
    BY <1>1, <2>1 DEF Register, BecomeCandidate, IdentifyLeader, StartTimer, TimerFires,
                      TimerTests, TimerPromotes, ReadsFlag, SendBeacon, board, samples
  <2> QED BY <1>2, <1>3, <1>4, <1>5, <2>1 DEF BoardStep, InitRuns, TimerRuns
<1>6. CASE Tick \/ (\E b \in air : Lose(b)) \/ UNCHANGED vars
  BY <1>1, <1>6 DEF Tick, Lose, vars, board, samples
<1> QED BY <1>5, <1>6 DEF Next

(* However the clocks drift, a valid follower's offset lies between the    *)
(* true offsets at the sending of its samples, but for the delivery delay, *)
(* for every EMA weight (on_recv and get_epoch_us, lines 105-244).         *)
THEOREM FollowersAreAccurate == Spec => []SyncAccuracy
<1>1. AccuracyInv => SyncAccuracy
  <2> SUFFICES ASSUME AccuracyInv, NEW n \in Ids, seeded[n]
               PROVE  EpochOffset(n) <= truth[n].hi /\ EpochOffset(n) >= truth[n].lo - MaxDelay
    BY DEF SyncAccuracy
  <2>1. EpochOffset(n) = smoothed[n]
    BY DEF EpochOffset
  <2> QED BY <2>1 DEF AccuracyInv
<1> QED
  BY <1>1, InitTypeOK, NextTypeOK, InitLeadership, NextLeadership, InitHistory,
     NextHistory, InitAccuracy, NextAccuracy, PTL DEF Spec
-----------------------------------------------------------------------------
(* A follower has measured its offset against the board it names.          *)

(* This holds from the moment init names the board, and that is inductive. *)
MeasuredInv ==
  \A n \in Ids : HasOpinion(n) /\ leaderId[n] # n =>
    seeded[n] /\ leaderId[n] \in heard[n]

LEMMA NextMeasured ==
  TypeOK /\ LeadershipInv /\ HistoryInv /\ MeasuredInv /\ [Next]_vars
  => MeasuredInv'
<1> SUFFICES ASSUME TypeOK, LeadershipInv, HistoryInv, MeasuredInv, [Next]_vars
             PROVE  MeasuredInv'
  OBVIOUS
<1> USE DEF MeasuredInv, HasOpinion, TypeOK
<1>1. CASE Tick
  BY <1>1 DEF Tick, board, samples
<1>2. ASSUME NEW b \in air, Lose(b) PROVE MeasuredInv'
  BY <1>2 DEF Lose, board, samples
<1>3. ASSUME NEW n \in Ids, BoardStep(n) PROVE MeasuredInv'
  <2>1. CASE Register(n) \/ BecomeCandidate(n) \/ IdentifyLeader(n)
             \/ StartTimer(n) \/ Crash(n) \/ TimerFires(n) \/ TimerTests(n)
             \/ ReadsFlag(n)
             \/ \E receivers \in SUBSET (Ids \ {n}) : SendBeacon(n, receivers)
    BY <2>1 DEF Register, BecomeCandidate, IdentifyLeader, StartTimer, Crash,
                TimerFires, TimerTests, ReadsFlag, SendBeacon, board, samples
  <2>2. CASE TimerPromotes(n)
    <3>1. ~Promotes(n)
      BY <2>2, PromotionIsDead DEF TimerPromotes
    <3> QED BY <2>2, <3>1 DEF TimerPromotes, samples
  <2>3. ASSUME NEW b \in air, OnRecv(n, b) PROVE MeasuredInv'
    <3>1. b.from \in Ids
      BY SMT DEF Beacons
    <3>2. leaderId' = [leaderId EXCEPT ![n] = NewLeader(n, b)] /\ pc' = pc
      BY <2>3 DEF OnRecv
    <3>3. CASE Measures(n, b)
      <4>1. /\ seeded' = [seeded EXCEPT ![n] = TRUE]
            /\ heard' = [heard EXCEPT ![n] = @ \cup {b.from}]
            /\ b.from = NewLeader(n, b)
        BY <2>3, <3>3 DEF OnRecv, Measures
      <4> QED BY <3>1, <3>2, <4>1
    <3>4. CASE ~Measures(n, b)
      <4>1. UNCHANGED <<seeded, heard>>
        BY <2>3, <3>4 DEF OnRecv, samples
      <4>2. HasOpinion(n) => NewLeader(n, b) = leaderId[n]
        <5>1. SUFFICES ASSUME HasOpinion(n), Adopts(n, b) PROVE FALSE
          BY DEF NewLeader
        <5>2. leaderId[n] # 0 /\ leaderId[n] <= n
          BY <5>1 DEF LeadershipInv
        <5>3. leaderId[n] \in Nat /\ b.from \in Nat /\ n \in Nat
          <6>1. leaderId[n] \in Ids \cup {0}
            OBVIOUS
          <6> QED BY <3>1, <6>1, IdsAreNumbers
        <5>4. b.from < n
          BY <5>1, <5>2, <5>3 DEF Adopts
        <5> QED BY <3>4, <5>1, <5>4 DEF Measures, StillLeads, StepsDown, NewLeader
      <4> QED BY <3>2, <4>1, <4>2
    <3> QED BY <3>3, <3>4
  <2> QED BY <1>3, <2>1, <2>2, <2>3 DEF BoardStep, InitRuns, TimerRuns
<1>4. CASE UNCHANGED vars
  BY <1>4 DEF vars, board, samples
<1> QED BY <1>1, <1>2, <1>3, <1>4 DEF Next

(* Adoption and measurement never come apart (on_recv, lines 120-145).     *)
THEOREM FollowersMeasured == Spec => []FollowsWhatItMeasured
<1>1. Init => MeasuredInv
  BY DEF Init, MeasuredInv, HasOpinion
<1>2. MeasuredInv => FollowsWhatItMeasured
  BY DEF MeasuredInv, FollowsWhatItMeasured, HasOpinion, Operational
<1> QED
  BY <1>1, <1>2, InitTypeOK, NextTypeOK, InitLeadership, NextLeadership,
     InitHistory, NextHistory, NextMeasured, PTL DEF Spec

-----------------------------------------------------------------------------
(* Refinement: the protocol implements the election.                       *)

LEMMA StepImplementsElection ==
  TypeOK /\ LeadershipInv /\ HistoryInv /\ [Next]_vars
  => [Election!Next]_(Election!vars)
<1> SUFFICES ASSUME TypeOK, LeadershipInv, HistoryInv, [Next]_vars
             PROVE  [Election!Next]_(Election!vars)
  OBVIOUS
<1> DEFINE opinions == [n \in Ids |-> Opinion(n)]
           woken    == {n \in Ids : boots[n] > 0}
<1> USE DEF Opinion, HasOpinion
<1>1. ASSUME UNCHANGED <<pc, leaderId, boots>> PROVE UNCHANGED Election!vars
  BY <1>1 DEF Election!vars
<1>2. CASE Tick \/ (\E b \in air : Lose(b)) \/ UNCHANGED vars
  BY <1>1, <1>2 DEF Tick, Lose, vars, board
<1>3. ASSUME NEW n \in Ids, BoardStep(n) PROVE [Election!Next]_(Election!vars)
  <2>1. CASE Register(n)
    <3>1. /\ pc[n] = "off" /\ pc' = [pc EXCEPT ![n] = "registered"]
          /\ boots' = [boots EXCEPT ![n] = @ + 1] /\ leaderId' = leaderId
      BY <2>1 DEF Register, board
    <3>2. opinions' = opinions
      BY <3>1 DEF TypeOK
    <3>3. woken' = woken \cup {n}
      BY <3>1 DEF TypeOK
    <3>4. Election!Wake(n)
      BY <3>2, <3>3 DEF Election!Wake
    <3> QED BY <3>4 DEF Election!Next
  <2>2. CASE BecomeCandidate(n) \/ StartTimer(n)
    <3>1. opinions' = opinions /\ woken' = woken
      BY <2>2 DEF BecomeCandidate, StartTimer, TypeOK
    <3> QED BY <3>1 DEF Election!vars
  <2>3. CASE IdentifyLeader(n)
    <3>1. /\ pc[n] = "candidate" /\ pc' = [pc EXCEPT ![n] = "identified"]
          /\ leaderId' = [leaderId EXCEPT ![n] = n] /\ boots' = boots
      BY <2>3 DEF IdentifyLeader
    <3>2. opinions' = [opinions EXCEPT ![n] = n] /\ opinions[n] = 0 /\ woken' = woken
      BY <3>1 DEF TypeOK
    <3>3. n \in woken
      <4>1. boots[n] >= 1 /\ boots[n] \in Nat
        BY <3>1 DEF HistoryInv, SamplesInv, TypeOK
      <4> QED BY <4>1
    <3>4. Election!PutForward(n)
      BY <3>2, <3>3 DEF Election!PutForward
    <3> QED BY <3>4 DEF Election!Next
  <2>4. CASE Crash(n)
    <3>1. /\ pc' = [pc EXCEPT ![n] = "off"] /\ boots' = boots
          /\ leaderId' = [leaderId EXCEPT ![n] = 0]
      BY <2>4 DEF Crash
    <3>2. opinions' = [opinions EXCEPT ![n] = 0] /\ woken' = woken
      BY <3>1 DEF TypeOK
    <3>3. Election!Forget(n)
      BY <3>2 DEF Election!Forget
    <3> QED BY <3>3 DEF Election!Next
  <2>5. CASE TimerFires(n) \/ TimerTests(n) \/ ReadsFlag(n)
             \/ \E receivers \in SUBSET (Ids \ {n}) : SendBeacon(n, receivers)
    BY <1>1, <2>5 DEF TimerFires, TimerTests, ReadsFlag, SendBeacon, board
  <2>6. CASE TimerPromotes(n)
    <3>1. ~Promotes(n)
      BY <2>6, PromotionIsDead DEF TimerPromotes
    <3> QED BY <1>1, <2>6, <3>1 DEF TimerPromotes
  <2>7. ASSUME NEW b \in air, OnRecv(n, b) PROVE [Election!Next]_(Election!vars)
    <3>1. /\ leaderId' = [leaderId EXCEPT ![n] = NewLeader(n, b)]
          /\ pc' = pc /\ boots' = boots
      BY <2>7 DEF OnRecv
    <3>2. b.from \in Ids
      BY SMT DEF Beacons, TypeOK
    <3>3. CASE ~HasOpinion(n) \/ ~Adopts(n, b)
      <4>1. opinions' = opinions /\ woken' = woken
        BY <3>1, <3>3 DEF NewLeader, TypeOK
      <4> QED BY <4>1 DEF Election!vars
    <3>4. CASE HasOpinion(n) /\ Adopts(n, b)
      <4>1. opinions' = [opinions EXCEPT ![n] = b.from] /\ woken' = woken
        BY <3>1, <3>4 DEF NewLeader, TypeOK
      <4>2. b.from < opinions[n]
        BY <3>4 DEF Adopts, LeadershipInv
      <4>3. b.from \in woken
        BY <3>2 DEF HistoryInv, FramesInv, TypeOK
      <4>4. Election!Defer(n, b.from)
        BY <4>1, <4>2, <4>3 DEF Election!Defer
      <4> QED BY <3>2, <4>4 DEF Election!Next
    <3> QED BY <3>3, <3>4
  <2> QED BY <1>3, <2>1, <2>2, <2>3, <2>4, <2>5, <2>6, <2>7 DEF BoardStep, InitRuns, TimerRuns
<1> QED BY <1>2, <1>3 DEF Next

(* Opinions only move downwards, towards boards that exist, whatever is    *)
(* lost, late, reset or interrupted.                                       *)
THEOREM ProtocolIsElection == Spec => ImplementsElection
<1>1. Init => Election!Init
  BY DEF Init, Election!Init, Opinion, HasOpinion
<1> QED
  BY <1>1, InitTypeOK, NextTypeOK, InitLeadership, NextLeadership, InitHistory,
     NextHistory, StepImplementsElection, PTL
  DEF Spec, ImplementsElection, Election!Spec
=============================================================================

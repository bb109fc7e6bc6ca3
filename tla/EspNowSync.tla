----------------------------- MODULE EspNowSync -----------------------------
(***************************************************************************)
(* The ESP-NOW time-sync protocol of main/c6_sync_espnow.c, on a set of    *)
(* boards that share one channel.  Every board boots as a candidate        *)
(* leader, broadcasts its clock every BEACON_PERIOD_MS, and defers to the  *)
(* lowest MAC it hears; a follower stamps its frames with its own clock    *)
(* plus the (smoothed) offset to the leader's clock.                       *)
(*                                                                         *)
(* A board runs three contexts that interleave: app_main executing         *)
(* c6_sync_espnow_init (the receive callback is live from its first        *)
(* statement on), on_recv in the WiFi task, and beacon_timer_cb in the     *)
(* FreeRTOS timer task, which on_recv preempts.  The boards' crystals      *)
(* drift: no two clocks need to advance together.                          *)
(***************************************************************************)
EXTENDS Integers

CONSTANTS
  Ids,        \* the boards, each named by its MAC packed into an integer
  Timeout,    \* VALID_WINDOW_MS, in clock ticks
  EmaDiv,     \* 2 ^ OFFSET_EMA_SHIFT: the EMA keeps 1/EmaDiv of each error
  MaxDelay,   \* a frame not delivered after this many ticks is lost
  MaxClock,   \* bound: the highest value of a board's clock
  MaxBoots,   \* bound: how often each of the boards may boot
  MaxUptime   \* bound: the highest clock at which a board resets

ASSUME IdsAssumption == Ids \subseteq Nat \ {0}
ASSUME TimeoutAssumption == Timeout \in Nat
ASSUME EmaAssumption == EmaDiv \in Nat \ {0}
ASSUME DelayAssumption == MaxDelay \in Nat
ASSUME BoundsAssumption ==
  MaxClock \in Nat /\ MaxBoots \in [Ids -> Nat] /\ MaxUptime \in Nat

VARIABLES
  pc,        \* where app_main is in c6_sync_espnow_init
  clk,       \* esp_timer_get_time(): restarts from 0 at every boot
  isLeader,  \* s_is_leader
  leaderId,  \* s_leader_id
  offset,    \* s_offset_us
  smoothed,  \* s_offset_us_smoothed
  seeded,    \* s_smoothed_seeded
  lastSeen,  \* s_last_seen_us
  timer,     \* where beacon_timer_cb is
  now,       \* the clock value beacon_timer_cb has read
  air,       \* beacons in flight, one record per receiver
  boots,     \* history: how often each board has booted
  heard,     \* history: the boards a board took offsets from since it booted
  truth      \* history: the least and the greatest true offset among its samples

board == <<isLeader, leaderId, offset, smoothed, seeded, lastSeen>>
samples == <<heard, truth>>
vars == <<pc, clk, board, timer, now, air, boots, samples>>

-----------------------------------------------------------------------------

(* "off": powered down.  "registered": on_recv is live.  "candidate":      *)
(* s_is_leader is set.  "identified": s_leader_id is set.  "running": the  *)
(* beacon timer is started.  "mute": xTimerCreate failed.                  *)
Phases == {"off", "registered", "candidate", "identified", "running", "mute"}

(* "armed": the clock is read.  "doubting": no leader is known to be       *)
(* alive.  "decided": send_beacon begins.  "leading": it has read that the *)
(* board leads.                                                            *)
TimerPhases == {"idle", "armed", "doubting", "decided", "leading"}

(* Only beacons whose leader_flag is set are kept: one without it changes  *)
(* nothing but the receiver's diagnostic counters.  There is a history in  *)
(* them: what the receiver's clock was at the time of sending.             *)
Beacons == [from : Ids, to : Ids, epoch : Nat, met : Nat, age : 0..MaxDelay]

Receiving(n) == pc[n] # "off"
Operational(n) == pc[n] \in {"running", "mute"}

(* now_us - s_last_seen_us on uint64_t: a read of the clock that precedes  *)
(* the last beacon wraps round and counts as expired.                      *)
Expired(t, n) == t - lastSeen[n] > Timeout \/ t < lastSeen[n]

(* c6_sync_espnow_is_valid, of a board that does not lead.                 *)
ValidFollower(n) == ~isLeader[n] /\ clk[n] - lastSeen[n] < Timeout

(* What c6_sync_espnow_get_epoch_us adds to the local clock.               *)
EpochOffset(n) == IF seeded[n] THEN smoothed[n] ELSE offset[n]

Init ==
  /\ pc = [n \in Ids |-> "off"]
  /\ clk = [n \in Ids |-> 0]
  /\ isLeader = [n \in Ids |-> FALSE]
  /\ leaderId = [n \in Ids |-> 0]
  /\ offset = [n \in Ids |-> 0]
  /\ smoothed = [n \in Ids |-> 0]
  /\ seeded = [n \in Ids |-> FALSE]
  /\ lastSeen = [n \in Ids |-> 0]
  /\ timer = [n \in Ids |-> "idle"]
  /\ now = [n \in Ids |-> 0]
  /\ air = {}
  /\ boots = [n \in Ids |-> 0]
  /\ heard = [n \in Ids |-> {}]
  /\ truth = [n \in Ids |-> [lo |-> 0, hi |-> 0]]

-----------------------------------------------------------------------------

(* esp_now_register_recv_cb: from here on_recv runs beside app_main.       *)
Register(n) ==
  /\ pc[n] = "off" /\ boots[n] < MaxBoots[n]
  /\ pc' = [pc EXCEPT ![n] = "registered"]
  /\ boots' = [boots EXCEPT ![n] = @ + 1]
  /\ UNCHANGED <<clk, board, timer, now, air, samples>>

BecomeCandidate(n) ==
  /\ pc[n] = "registered"
  /\ pc' = [pc EXCEPT ![n] = "candidate"]
  /\ isLeader' = [isLeader EXCEPT ![n] = TRUE]
  /\ UNCHANGED <<clk, leaderId, offset, smoothed, seeded, lastSeen,
                 timer, now, air, boots, samples>>

IdentifyLeader(n) ==
  /\ pc[n] = "candidate"
  /\ pc' = [pc EXCEPT ![n] = "identified"]
  /\ leaderId' = [leaderId EXCEPT ![n] = n]
  /\ UNCHANGED <<clk, isLeader, offset, smoothed, seeded, lastSeen,
                 timer, now, air, boots, samples>>

(* The rest of init: s_last_seen_us, then the periodic timer, which may    *)
(* not be created.  main.c goes on either way.                             *)
StartTimer(n) ==
  /\ pc[n] = "identified"
  /\ \E outcome \in {"running", "mute"} : pc' = [pc EXCEPT ![n] = outcome]
  /\ lastSeen' = [lastSeen EXCEPT ![n] = clk[n]]
  /\ UNCHANGED <<clk, isLeader, leaderId, offset, smoothed, seeded,
                 timer, now, air, boots, samples>>

(* A reset of the board clears its statics, its clock and the frames       *)
(* addressed to it; what it already broadcast stays in the air.  The       *)
(* bounds: it has a boot left, and its clock has not come far.             *)
Crash(n) ==
  /\ pc[n] # "off" /\ boots[n] < MaxBoots[n] /\ clk[n] <= MaxUptime
  /\ pc' = [pc EXCEPT ![n] = "off"]
  /\ clk' = [clk EXCEPT ![n] = 0]
  /\ isLeader' = [isLeader EXCEPT ![n] = FALSE]
  /\ leaderId' = [leaderId EXCEPT ![n] = 0]
  /\ offset' = [offset EXCEPT ![n] = 0]
  /\ smoothed' = [smoothed EXCEPT ![n] = 0]
  /\ seeded' = [seeded EXCEPT ![n] = FALSE]
  /\ lastSeen' = [lastSeen EXCEPT ![n] = 0]
  /\ timer' = [timer EXCEPT ![n] = "idle"]
  /\ now' = [now EXCEPT ![n] = 0]
  /\ air' = {b \in air : b.to # n}
  /\ heard' = [heard EXCEPT ![n] = {}]
  /\ truth' = [truth EXCEPT ![n] = [lo |-> 0, hi |-> 0]]
  /\ UNCHANGED boots

-----------------------------------------------------------------------------

(* Mutants: the comparison turned round; the leader that does not step     *)
(* down.                                                                   *)
AdoptsHighest(n, b) == leaderId[n] = 0 \/ b.from > leaderId[n]
NeverStepsDown(n, b) == FALSE

(* on_recv: defer to a lower id than the leader known so far ...           *)
Adopts(n, b) == leaderId[n] = 0 \/ b.from < leaderId[n]
StepsDown(n, b) == Adopts(n, b) /\ b.from < n

(* Mutant: the offset with its sign reversed.                              *)
OffsetReversed(n, b) == clk[n] - b.epoch

(* ... and, as a follower of the sender, measure the offset to it.         *)
RawOffset(n, b) == b.epoch - clk[n]
Smooth(n, raw) ==
  IF seeded[n] THEN smoothed[n] + (raw - smoothed[n]) \div EmaDiv ELSE raw

NewLeader(n, b) == IF Adopts(n, b) THEN b.from ELSE leaderId[n]
StillLeads(n, b) == isLeader[n] /\ ~StepsDown(n, b)

(* Mutant: the beacon that makes its sender the leader is not measured.    *)
MeasuresNext(n, b) == ~StillLeads(n, b) /\ b.from = leaderId[n]

Measures(n, b) == ~StillLeads(n, b) /\ b.from = NewLeader(n, b)

(* The offset there was when the frame was sent, and the span it makes     *)
(* with those of the samples before.                                       *)
TrueOffset(b) == b.epoch - b.met
Widened(n, x) ==
  IF seeded[n]
  THEN [lo |-> IF x < truth[n].lo THEN x ELSE truth[n].lo,
        hi |-> IF x > truth[n].hi THEN x ELSE truth[n].hi]
  ELSE [lo |-> x, hi |-> x]

OnRecv(n, b) ==
  /\ b.to = n /\ Receiving(n)
  /\ leaderId' = [leaderId EXCEPT ![n] = NewLeader(n, b)]
  /\ isLeader' = [isLeader EXCEPT ![n] = StillLeads(n, b)]
  /\ IF Measures(n, b)
     THEN /\ offset' = [offset EXCEPT ![n] = RawOffset(n, b)]
          /\ smoothed' = [smoothed EXCEPT ![n] = Smooth(n, RawOffset(n, b))]
          /\ seeded' = [seeded EXCEPT ![n] = TRUE]
          /\ lastSeen' = [lastSeen EXCEPT ![n] = clk[n]]
          /\ heard' = [heard EXCEPT ![n] = @ \cup {b.from}]
          /\ truth' = [truth EXCEPT ![n] = Widened(n, TrueOffset(b))]
     ELSE UNCHANGED <<offset, smoothed, seeded, lastSeen, samples>>
  /\ air' = air \ {b}
  /\ UNCHANGED <<pc, clk, timer, now, boots>>

Lose(b) == air' = air \ {b} /\ UNCHANGED <<pc, clk, board, timer, now, boots, samples>>

(* beacon_timer_cb, which on_recv may preempt between any two of its       *)
(* steps.  It reads the clock.                                             *)
TimerFires(n) ==
  /\ pc[n] = "running" /\ timer[n] = "idle"
  /\ timer' = [timer EXCEPT ![n] = "armed"]
  /\ now' = [now EXCEPT ![n] = clk[n]]
  /\ UNCHANGED <<pc, clk, board, air, boots, samples>>

(* Mutant: the promotion test admits the board's own id.                   *)
PromotesItself(n) == n <= leaderId[n]

(* It tests s_is_leader and the age of the last beacon ...                 *)
Doubts(n) == ~isLeader[n] /\ Expired(now[n], n)

TimerTests(n) ==
  /\ timer[n] = "armed"
  /\ timer' = [timer EXCEPT ![n] = IF Doubts(n) THEN "doubting" ELSE "decided"]
  /\ now' = [now EXCEPT ![n] = 0]   \* the local is dead: one value for it
  /\ UNCHANGED <<pc, clk, board, air, boots, samples>>

(* ... and the id, before it promotes the board.                           *)
Promotes(n) == leaderId[n] = 0 \/ n < leaderId[n]

TimerPromotes(n) ==
  /\ timer[n] = "doubting"
  /\ IF Promotes(n)
     THEN /\ isLeader' = [isLeader EXCEPT ![n] = TRUE]
          /\ leaderId' = [leaderId EXCEPT ![n] = n]
          /\ offset' = [offset EXCEPT ![n] = 0]
     ELSE UNCHANGED <<isLeader, leaderId, offset>>
  /\ timer' = [timer EXCEPT ![n] = "decided"]
  /\ UNCHANGED <<pc, clk, smoothed, seeded, lastSeen, now, air, boots, samples>>

(* send_beacon reads the flag ...                                          *)
ReadsFlag(n) ==
  /\ timer[n] = "decided"
  /\ timer' = [timer EXCEPT ![n] = IF isLeader[n] THEN "leading" ELSE "idle"]
  /\ UNCHANGED <<pc, clk, board, now, air, boots, samples>>

(* ... then the clock, and broadcasts, though the board may have stepped   *)
(* down since.  Any set of boards may hear the frame; bound: one frame of  *)
(* a sender is on its way to a receiver, a later one that reaches the      *)
(* receiver stands for both.                                               *)
BeaconTo(n, m) ==
  [from |-> n, to |-> m, epoch |-> clk[n], met |-> clk[m], age |-> 0]

SendBeacon(n, receivers) ==
  /\ timer[n] = "leading"
  /\ timer' = [timer EXCEPT ![n] = "idle"]
  /\ LET reached == {r \in receivers : Receiving(r)}
     IN  air' = {b \in air : b.from # n \/ b.to \notin reached}
                  \cup {BeaconTo(n, m) : m \in reached}
  /\ UNCHANGED <<pc, clk, board, now, boots, samples>>

(* Time passes: the clocks of the boards that are powered advance, each at *)
(* its own rate and none by more than a tick; old frames are lost.         *)
Tick ==
  /\ \A n \in Ids : clk[n] < MaxClock
  /\ \E slow \in SUBSET Ids :
       clk' = [n \in Ids |-> IF pc[n] = "off" THEN 0
                             ELSE IF n \in slow THEN clk[n] ELSE clk[n] + 1]
  /\ air' = {[b EXCEPT !.age = @ + 1] : b \in {x \in air : x.age < MaxDelay}}
  /\ UNCHANGED <<pc, board, timer, now, boots, samples>>

InitRuns(n) == Register(n) \/ BecomeCandidate(n) \/ IdentifyLeader(n) \/ StartTimer(n)
TimerRuns(n) ==
  \/ TimerFires(n) \/ TimerTests(n) \/ TimerPromotes(n) \/ ReadsFlag(n)
  \/ \E receivers \in SUBSET (Ids \ {n}) : SendBeacon(n, receivers)

BoardStep(n) == InitRuns(n) \/ TimerRuns(n) \/ Crash(n) \/ \E b \in air : OnRecv(n, b)

Next ==
  \/ Tick
  \/ \E b \in air : Lose(b)
  \/ \E n \in Ids : BoardStep(n)

Spec == Init /\ [][Next]_vars

(* The scheduler runs init and then the timer callback, a board that       *)
(* resets boots again, and the channel is fair to the board with the       *)
(* lowest MAC: if it broadcasts for ever it is heard again and again by    *)
(* every board.                                                            *)
Lowest == CHOOSE n \in Ids : \A m \in Ids : n <= m

Heard(n, m) == \E receivers \in SUBSET (Ids \ {n}) :
                 m \in receivers /\ SendBeacon(n, receivers)
Takes(m, n) == \E b \in air : b.from = n /\ OnRecv(m, b)

FairSpec ==
  /\ Spec
  /\ \A n \in Ids : WF_vars(InitRuns(n) \/ TimerRuns(n))
  /\ \A m \in Ids \ {Lowest} : SF_vars(Heard(Lowest, m)) /\ SF_vars(Takes(m, Lowest))

-----------------------------------------------------------------------------

TypeOK ==
  /\ pc \in [Ids -> Phases]
  /\ clk \in [Ids -> Nat]
  /\ isLeader \in [Ids -> BOOLEAN]
  /\ leaderId \in [Ids -> Ids \cup {0}]
  /\ offset \in [Ids -> Int]
  /\ smoothed \in [Ids -> Int]
  /\ seeded \in [Ids -> BOOLEAN]
  /\ lastSeen \in [Ids -> Nat]
  /\ timer \in [Ids -> TimerPhases]
  /\ now \in [Ids -> Nat]
  /\ air \subseteq Beacons
  /\ boots \in [Ids -> Nat]
  /\ heard \in [Ids -> SUBSET Ids]
  /\ truth \in [Ids -> [lo : Int, hi : Int]]

(* A board past init follows itself or a lower id, and claims to lead only *)
(* under its own id: however on_recv cut into c6_sync_espnow_init, no      *)
(* board ends up deferring upwards or leading in another board's name.     *)
LowestIdWins ==
  \A n \in Ids : Operational(n) =>
    /\ leaderId[n] # 0 /\ leaderId[n] <= n
    /\ isLeader[n] => leaderId[n] = n

(* A follower has measured its offset against the very board it names as   *)
(* leader: adoption and measurement (lines 120-143) never come apart.      *)
FollowsWhatItMeasured ==
  \A n \in Ids : Operational(n) /\ leaderId[n] # n =>
    seeded[n] /\ leaderId[n] \in heard[n]

(* A valid follower stamps its frames with a time that was true: the       *)
(* offset lies between the least and the greatest offset there really was  *)
(* when its samples were sent, short of it by no more than the delivery    *)
(* delay, however the clocks drift, whatever frames were lost, delayed or  *)
(* overtaken, and however the EMA rounds.  A change of leader does not     *)
(* start the EMA afresh, so the samples are those since the last reset.    *)
SyncAccuracy ==
  \A n \in Ids : Operational(n) /\ seeded[n] /\ ValidFollower(n) =>
    /\ EpochOffset(n) <= truth[n].hi
    /\ EpochOffset(n) >= truth[n].lo - MaxDelay

(* Once a board has stepped down, only a reset makes it lead again: the    *)
(* promotion branch of beacon_timer_cb (lines 178-186) never takes over    *)
(* from a leader that fell silent.                                         *)
NoSecondReign ==
  [][\A n \in Ids : Operational(n) /\ ~isLeader[n] /\ pc'[n] # "off"
       => ~isLeader'[n]]_vars

(* If the board with the lowest MAC keeps running, the mesh settles: that  *)
(* board alone leads and every other follows it.                           *)
Settled ==
  \A n \in Ids : leaderId[n] = Lowest /\ (isLeader[n] <=> n = Lowest)
Agreement == <>[](pc[Lowest] = "running") => <>[]Settled

(* A board has an opinion once init has named the board itself as leader.  *)
HasOpinion(n) == pc[n] \in {"identified", "running", "mute"}
Opinion(n) == IF HasOpinion(n) THEN leaderId[n] ELSE 0

Election == INSTANCE LowestIdElection WITH
  leaderOf <- [n \in Ids |-> Opinion(n)],
  woken <- {n \in Ids : boots[n] > 0}

(* The protocol, with its races in init, lost and late frames, timeouts    *)
(* and resets, is an election in which opinions only ever move downwards,  *)
(* towards boards that exist.                                              *)
ImplementsElection == Election!Spec
=============================================================================

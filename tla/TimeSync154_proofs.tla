------------------------- MODULE TimeSync154_proofs -------------------------
(***************************************************************************)
(* The 802.15.4 time sync for any set of boards and any window.  Both      *)
(* properties rest on the period: no beacon is in flight for a whole one,  *)
(* and every timer fires in it.                                            *)
(***************************************************************************)
EXTENDS TimeSync154, TLAPS

(* A beacon in flight was sent in this period, by another board.           *)
AirInv == \A s, b \in Boards : <<s, b>> \in air => s # b /\ silence[s] = 0

(* A follower has heard the board whose clock it shows since that board    *)
(* was last heard of.                                                      *)
LedInv ==
  \A b \in Boards :
    Operational(b) /\ ~leads[b] => clock[b] # b /\ silence[clock[b]] <= age[b]

(* The timer callback decides in the period it fires in.                   *)
DueInv == \A b \in Boards : decision[b] # "none" => phase[b] = "running" /\ b \in due

(* A follower past the window is about to be seen by its timer.            *)
TurnInv ==
  \A b \in Boards :
    phase[b] = "running" /\ ~leads[b] =>
      /\ age[b] <= Window + 1
      /\ age[b] = Window + 1 => b \in due /\ decision[b] # "keep"

SyncInv == TypeOK /\ AirInv /\ LedInv /\ DueInv /\ TurnInv

-----------------------------------------------------------------------------

LEMMA OlderIsOlder ==
  ASSUME NEW m \in 0..(Window + 2), NEW n \in 0..(Window + 2)
  PROVE  /\ Older(n) \in 0..(Window + 2)
         /\ n <= Window => Older(n) = n + 1
         /\ m <= n => Older(m) <= Older(n)
BY WindowAssumption DEF Older

(* A beacon adopted in init or in the timer callback keeps the invariant:  *)
(* it is from this period, and an open decision turns to "promote".        *)
LEMMA AdoptKeeps ==
  ASSUME SyncInv, NEW s \in Boards, NEW b \in Boards, Receive(s, b)
  PROVE  SyncInv'
<1> USE WindowAssumption DEF SyncInv
<1>1. /\ <<s, b>> \in air /\ Receiving(b) /\ air' = air \ {<<s, b>>}
      /\ clock' = [clock EXCEPT ![b] = s]
      /\ age' = [age EXCEPT ![b] = 0]
      /\ leads' = [leads EXCEPT ![b] = FALSE]
      /\ decision' = [decision EXCEPT ![b] = IF @ = "none" THEN @ ELSE "promote"]
      /\ UNCHANGED <<phase, due, boots, silence>>
  BY DEF Receive, Adopt
<1>2. s # b /\ silence[s] = 0
  BY <1>1 DEF AirInv
<1>3. TypeOK'
  BY <1>1 DEF TypeOK
<1>4. AirInv'
  BY <1>1 DEF AirInv
<1>5. LedInv'
  BY <1>1, <1>2 DEF LedInv, Operational, TypeOK
<1>6. DueInv'
  BY <1>1 DEF DueInv, TypeOK
<1>7. TurnInv'
  BY <1>1 DEF TurnInv, TypeOK
<1> QED BY <1>3, <1>4, <1>5, <1>6, <1>7

(* The steps of the timer callback.                                        *)
LEMMA TimerKeeps ==
  ASSUME SyncInv, NEW b \in Boards, Timer(b)
  PROVE  SyncInv'
<1> USE WindowAssumption DEF SyncInv
<1>1. CASE TimerReadsClock(b)
  <2>1. TypeOK'
    BY <1>1 DEF TimerReadsClock, statics, TypeOK
  <2>2. AirInv' /\ LedInv'
    BY <1>1 DEF TimerReadsClock, statics, AirInv, LedInv, Operational
  <2>3. DueInv'
    BY <1>1 DEF TimerReadsClock, statics, DueInv, TypeOK
  <2>4. TurnInv'
    BY <1>1 DEF TimerReadsClock, statics, TurnInv, TypeOK
  <2> QED BY <2>1, <2>2, <2>3, <2>4
<1>2. CASE SendBeacon(b)
  <2>1. TypeOK'
    BY <1>2 DEF SendBeacon, Done, statics, TypeOK
  <2>2. AirInv'
    BY <1>2 DEF SendBeacon, Done, statics, AirInv, TypeOK
  <2>3. LedInv'
    BY <1>2 DEF SendBeacon, Done, statics, LedInv, Operational, TypeOK
  <2>4. DueInv'
    BY <1>2 DEF SendBeacon, Done, statics, DueInv, TypeOK
  <2>5. TurnInv'
    BY <1>2 DEF SendBeacon, Done, statics, TurnInv, TypeOK
  <2> QED BY <2>1, <2>2, <2>3, <2>4, <2>5
<1>3. CASE Promote(b)
  <2>1. TypeOK'
    BY <1>3 DEF Promote, Done, TypeOK
  <2>2. AirInv' /\ LedInv'
    BY <1>3 DEF Promote, Done, AirInv, LedInv, Operational, TypeOK
  <2>3. DueInv'
    BY <1>3 DEF Promote, Done, DueInv, TypeOK
  <2>4. TurnInv'
    BY <1>3 DEF Promote, Done, TurnInv, TypeOK
  <2> QED BY <2>1, <2>2, <2>3, <2>4
<1>4. CASE KeepFollowing(b)
  <2>1. TypeOK'
    BY <1>4 DEF KeepFollowing, Done, statics, TypeOK
  <2>2. AirInv' /\ LedInv'
    BY <1>4 DEF KeepFollowing, Done, statics, AirInv, LedInv, Operational
  <2>3. DueInv'
    BY <1>4 DEF KeepFollowing, Done, statics, DueInv, TypeOK
  <2>4. TurnInv'
    BY <1>4 DEF KeepFollowing, Done, statics, TurnInv, TypeOK
  <2> QED BY <2>1, <2>2, <2>3, <2>4
<1> QED BY <1>1, <1>2, <1>3, <1>4 DEF Timer

(* init's two steps and a reset.                                           *)
LEMMA BootKeeps ==
  ASSUME SyncInv, NEW b \in Boards, Enable(b) \/ StartAsCandidate(b) \/ Reset(b)
  PROVE  SyncInv'
<1> USE WindowAssumption, BootsAssumption DEF SyncInv
<1>1. CASE Enable(b)
  <2>1. TypeOK'
    BY <1>1 DEF Enable, statics, TypeOK, Phases
  <2>2. AirInv' /\ LedInv'
    BY <1>1 DEF Enable, statics, AirInv, LedInv, Operational, TypeOK
  <2>3. DueInv' /\ TurnInv'
    BY <1>1 DEF Enable, statics, DueInv, TurnInv, TypeOK
  <2> QED BY <2>1, <2>2, <2>3
<1>2. CASE StartAsCandidate(b)
  <2>1. TypeOK'
    BY <1>2 DEF StartAsCandidate, TypeOK, Phases
  <2>2. AirInv' /\ LedInv'
    BY <1>2 DEF StartAsCandidate, AirInv, LedInv, Operational, TypeOK
  <2>3. DueInv' /\ TurnInv'
    BY <1>2 DEF StartAsCandidate, DueInv, TurnInv, TypeOK
  <2> QED BY <2>1, <2>2, <2>3
<1>3. CASE Reset(b)
  <2>1. TypeOK'
    BY <1>3 DEF Reset, TypeOK, Phases
  <2>2. AirInv' /\ LedInv'
    BY <1>3 DEF Reset, AirInv, LedInv, Operational, TypeOK
  <2>3. DueInv' /\ TurnInv'
    BY <1>3 DEF Reset, DueInv, TurnInv, TypeOK
  <2> QED BY <2>1, <2>2, <2>3
<1> QED BY <1>1, <1>2, <1>3

(* A period passes: nothing is in flight and nothing is undecided.         *)
LEMMA TickKeeps ==
  ASSUME SyncInv, Tick
  PROVE  SyncInv'
<1> USE WindowAssumption DEF SyncInv
<1>1. /\ due = {} /\ air = {} /\ air' = {}
      /\ age' = [b \in Boards |-> Older(age[b])]
      /\ silence' = [b \in Boards |-> Older(silence[b])]
      /\ due' = {b \in Boards : phase[b] = "running"}
      /\ UNCHANGED <<phase, leads, clock, decision, boots>>
  BY DEF Tick
<1>2. TypeOK'
  BY <1>1, OlderIsOlder DEF TypeOK
<1>3. AirInv'
  BY <1>1 DEF AirInv
<1>4. LedInv'
  <2> SUFFICES ASSUME NEW b \in Boards, Operational(b), ~leads[b]
               PROVE  clock[b] # b /\ Older(silence[clock[b]]) <= Older(age[b])
    BY <1>1 DEF LedInv, Operational, TypeOK
  <2>1. clock[b] # b /\ clock[b] \in Boards /\ silence[clock[b]] <= age[b]
    BY DEF LedInv, TypeOK
  <2>2. silence[clock[b]] \in 0..(Window + 2) /\ age[b] \in 0..(Window + 2)
    BY <2>1 DEF TypeOK
  <2> QED BY <2>1, <2>2, OlderIsOlder
<1>5. DueInv'
  BY <1>1 DEF DueInv
<1>6. TurnInv'
  <2> SUFFICES ASSUME NEW b \in Boards, phase[b] = "running", ~leads[b]
               PROVE  /\ Older(age[b]) <= Window + 1
                      /\ decision[b] # "keep"
    BY <1>1 DEF TurnInv
  <2>1. age[b] \in 0..(Window + 2) /\ age[b] <= Window + 1 /\ age[b] # Window + 1
    BY <1>1 DEF TurnInv, TypeOK
  <2>2. age[b] <= Window
    BY <2>1
  <2>3. decision[b] = "none"
    BY <1>1 DEF DueInv
  <2> QED BY <2>1, <2>2, <2>3, OlderIsOlder
<1> QED BY <1>2, <1>3, <1>4, <1>5, <1>6

LEMMA SyncInvariant == Spec => []SyncInv
<1>1. Init => SyncInv
  BY WindowAssumption, BootsAssumption
  DEF Init, SyncInv, TypeOK, Phases, AirInv, LedInv, DueInv, TurnInv, Operational
<1>2. SyncInv /\ [Next]_vars => SyncInv'
  <2> SUFFICES ASSUME SyncInv, [Next]_vars PROVE SyncInv'
    OBVIOUS
  <2>1. ASSUME NEW s \in Boards, NEW b \in Boards, Lose(s, b) PROVE SyncInv'
    BY <2>1 DEF Lose, statics, SyncInv, TypeOK, AirInv, LedInv, DueInv, TurnInv, Operational
  <2>2. CASE UNCHANGED vars
    BY <2>2 DEF vars, statics, SyncInv, TypeOK, AirInv, LedInv, DueInv, TurnInv, Operational
  <2> QED BY <2>1, <2>2, AdoptKeeps, TimerKeeps, BootKeeps, TickKeeps DEF Next
<1> QED BY <1>1, <1>2, PTL DEF Spec

(* No age or silence passes the window by more than two periods.           *)
THEOREM TypeCorrect == Spec => []TypeOK
  BY SyncInvariant, PTL DEF SyncInv

(* A valid follower shows the clock of another board that was on the air   *)
(* within the window, for every number of boards and every race.           *)
THEOREM FollowersWereLed == Spec => []ValidFollowerWasLed
<1>1. SyncInv => ValidFollowerWasLed
  <2> SUFFICES ASSUME SyncInv, NEW b \in Boards,
                      Operational(b), ~leads[b], age[b] < Window
               PROVE  clock[b] # b /\ silence[clock[b]] < Window
    BY DEF ValidFollowerWasLed, IsValid
  <2>1. clock[b] # b /\ clock[b] \in Boards /\ silence[clock[b]] <= age[b]
    BY DEF SyncInv, LedInv, TypeOK
  <2>2. silence[clock[b]] \in Nat /\ age[b] \in Nat
    BY <2>1 DEF SyncInv, TypeOK
  <2> QED BY <2>1, <2>2, WindowAssumption
<1> QED BY <1>1, SyncInvariant, PTL

(* No running board is without a leader past the window and a period.      *)
THEOREM SilenceEnds == Spec => []SilenceIsShort
<1>1. SyncInv => SilenceIsShort
  BY DEF SyncInv, TurnInv, SilenceIsShort
<1> QED BY <1>1, SyncInvariant, PTL
=============================================================================

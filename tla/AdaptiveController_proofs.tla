----------------------- MODULE AdaptiveController_proofs -----------------------
(***************************************************************************)
(* The controller keeps state and profile together and its mesh messages   *)
(* in the order of their epochs, for every threshold, window and stream of *)
(* packets, torn reads included.  The profile needs no help; the epochs    *)
(* rest on the anomaly taking the epoch that the transition then leaves;   *)
(* the yield rests on what the ages of the windows say about the run.      *)
(***************************************************************************)
EXTENDS AdaptiveController, TLAPS

EpochInv == epoch \in Nat /\ closed \in Nat /\ closed < epoch

ControllerInv == EpochInv /\ ProfileFollowsState

(* Whatever the policy decides, applying it gives the new state its        *)
(* profile.                                                                *)
LEMMA DecisionFits ==
  ASSUME ProfileFollowsState, NEW o, NEW d, d = Decide(state, o),
         state' = d.state, profile' = IF d.changeProfile THEN d.profile ELSE profile
  PROVE  ProfileFollowsState'
<1>1. CASE d = Decision("DEGRADED", "PASSIVE_LOW_RATE", state # "DEGRADED")
  <2>1. CASE state = "DEGRADED"
    <3>1. (state # "DEGRADED") = FALSE
      BY <2>1
    <3>2. d = Decision("DEGRADED", "PASSIVE_LOW_RATE", FALSE)
      BY <1>1, <3>1, Zenon
    <3> QED BY <2>1, <3>2 DEF Decision, ProfileFollowsState
  <2>2. CASE state # "DEGRADED"
    <3>1. (state # "DEGRADED") = TRUE
      BY <2>2
    <3>2. d = Decision("DEGRADED", "PASSIVE_LOW_RATE", TRUE)
      BY <1>1, <3>1, Zenon
    <3> QED BY <3>2 DEF Decision, ProfileFollowsState
  <2> QED BY <2>1, <2>2
<1>2. CASE d = Decision("ALERT", "FAST_MOTION", TRUE)
  BY <1>2 DEF Decision, ProfileFollowsState
<1>3. CASE d = Decision("SENSE_ACTIVE", "FAST_MOTION", TRUE)
  BY <1>3 DEF Decision, ProfileFollowsState
<1>4. CASE d = Decision("SENSE_IDLE", "RESP_HIGH_SENS", TRUE)
  BY <1>4 DEF Decision, ProfileFollowsState
<1>5. CASE d = Decision("SENSE_IDLE", "PASSIVE_LOW_RATE", state # "SENSE_IDLE")
  BY <1>5 DEF Decision, ProfileFollowsState
<1> QED BY <1>1, <1>2, <1>3, <1>4, <1>5 DEF Decide

(* A step keeps the invariant and never sends behind a closed epoch.       *)
LEMMA StepInOrder ==
  ASSUME ControllerInv, [Next]_vars
  PROVE  ControllerInv' /\ (mesh' # mesh => mesh'.epoch > closed)
<1> USE DEF ControllerInv, EpochInv
<1>1. CASE Apply
  <2> DEFINE d == Decide(state, obs)
  <2>1. /\ state' = d.state
        /\ Announce(d.state)
        /\ epoch' = IF d.state # state THEN epoch + 1 ELSE epoch
        /\ profile' = IF d.changeProfile THEN d.profile ELSE profile
    BY <1>1 DEF Apply
  <2>2. ProfileFollowsState'
    BY <2>1, DecisionFits
  <2> HIDE DEF d
  <2>3. CASE d.state # state /\ d.state \in {"ALERT", "DEGRADED"}
    <3>1. mesh' = [type |-> "anomaly", epoch |-> epoch] /\ closed' = epoch /\ epoch' = epoch + 1
      BY <2>1, <2>3 DEF Announce
    <3> QED BY <2>2, <3>1
  <2>4. CASE ~(d.state # state /\ d.state \in {"ALERT", "DEGRADED"})
    <3>1. mesh' = mesh /\ closed' = closed /\ (epoch' = epoch + 1 \/ epoch' = epoch)
      BY <2>1, <2>4 DEF Announce, meshVars
    <3> QED BY <2>2, <3>1
  <2> QED BY <2>3, <2>4
<1>2. CASE SlowTick
  <2>1. /\ mesh' = [type |-> "health", epoch |-> epoch]
        /\ UNCHANGED <<state, profile, epoch, closed>>
    BY <1>2 DEF SlowTick
  <2> QED BY <2>1 DEF ProfileFollowsState
<1>3. CASE UNCHANGED <<state, profile, epoch, meshVars>>
  BY <1>3 DEF meshVars, ProfileFollowsState
<1>4. ASSUME NEW e, PublishMotion(e)
      PROVE  UNCHANGED <<state, profile, epoch, meshVars>>
  BY <1>4 DEF PublishMotion, meshVars
<1>5. ASSUME NEW r, FastTick(r)
      PROVE  UNCHANGED <<state, profile, epoch, meshVars>>
  BY <1>5 DEF FastTick, meshVars
<1>6. PublishPresence \/ NoPacket \/ ReadMotion \/ ReadPresence \/ Emit \/ UNCHANGED vars
        => UNCHANGED <<state, profile, epoch, meshVars>>
  BY DEF PublishPresence, NoPacket, ReadMotion, ReadPresence, Emit, vars, meshVars
<1> QED BY <1>1, <1>2, <1>3, <1>4, <1>5, <1>6 DEF Next

LEMMA ControllerInvariant == Spec => []ControllerInv
<1>1. Init => ControllerInv
  BY DEF Init, ControllerInv, EpochInv, ProfileFollowsState
<1>2. ControllerInv /\ [Next]_vars => ControllerInv'
  BY StepInOrder
<1> QED BY <1>1, <1>2, PTL DEF Spec

(* A degraded node is in PASSIVE_LOW_RATE and an active one in             *)
(* FAST_MOTION.                                                            *)
THEOREM ProfileIsPinned == Spec => []ProfileFollowsState
<1>1. ControllerInv => ProfileFollowsState
  BY DEF ControllerInv
<1> QED BY <1>1, ControllerInvariant, PTL

(* An anomaly is the last mesh message of its epoch.                       *)
THEOREM EpochsOrderMessages == Spec => AnomalyClosesItsEpoch
<1>1. ControllerInv /\ [Next]_vars => [mesh' # mesh => mesh'.epoch > closed]_vars
  BY StepInOrder
<1> QED BY <1>1, ControllerInvariant, PTL DEF Spec, AnomalyClosesItsEpoch

-----------------------------------------------------------------------------
(* The yield window.  The ticks in the window are the last age ones, so a  *)
(* run as long as the window fills it with its own rate; the window before *)
(* was closed at run - age, so a run that is a whole window longer still   *)
(* has measured itself.  A run of Delay ticks is longer than both windows. *)

YieldTypes ==
  /\ age \in 0..WindowTicks /\ run \in 0..Delay
  /\ yield \in Rates /\ rate \in Rates /\ mix \subseteq Rates
  /\ motion \in Nat /\ presence \in Nat /\ writing \subseteq Energies
  /\ obs \in [yield : Rates, anomaly : {FALSE}, motion : Nat, presence : Nat]

WindowInv ==
  /\ run > 0 => started
  /\ age = 0 => mix = Nothing
  /\ run >= age => mix \subseteq {rate}
  /\ run - age > WindowTicks => yield = rate

DecidedInv ==
  /\ run = Delay => obs.yield = rate
  /\ run = Delay /\ pc \in {"idle", "emit"} => (state = "DEGRADED" <=> obs.yield = "low")

YieldInv == YieldTypes /\ WindowInv /\ DecidedInv

(* A turn of the window between two ticks: the run does not grow.          *)
LEMMA TurnBetweenTicks ==
  ASSUME YieldTypes, WindowInv, Yield(age, mix), UNCHANGED <<rate, run>>
  PROVE  /\ age' \in 0..WindowTicks /\ yield' \in Rates /\ mix' \subseteq Rates
         /\ WindowInv'
<1> USE TicksAssumption DEF YieldTypes, WindowInv, Delay, Nothing
<1>1. CASE StartWindow
  BY <1>1 DEF StartWindow
<1>2. CASE KeepWindow(age, mix)
  BY <1>2 DEF KeepWindow
<1>3. CASE CloseWindow(age, mix)
  BY <1>3 DEF CloseWindow
<1> QED BY <1>1, <1>2, <1>3 DEF Yield

(* The tick's own turn: the run and the window grow together.              *)
LEMMA TurnOfTick ==
  ASSUME YieldTypes, WindowInv, NEW r \in Rates, Yield(age + 1, mix \cup {r}),
         rate' = r, run' = IF r = rate THEN IF run < Delay THEN run + 1 ELSE Delay ELSE 1
  PROVE  /\ age' \in 0..WindowTicks /\ run' \in 0..Delay
         /\ yield' \in Rates /\ mix' \subseteq Rates
         /\ WindowInv'
<1> USE TicksAssumption DEF YieldTypes, WindowInv, Delay, Nothing
<1>1. CASE StartWindow
  <2>1. run = 0 /\ run' = 1
    BY <1>1 DEF StartWindow
  <2> QED BY <1>1, <2>1 DEF StartWindow
<1>2. CASE KeepWindow(age + 1, mix \cup {r})
  <2>1. CASE r = rate
    BY <1>2, <2>1 DEF KeepWindow
  <2>2. CASE r # rate
    <3>1. run' = 1 /\ age' = age + 1 /\ mix' = mix \cup {r} /\ started' /\ yield' = yield
      BY <1>2, <2>2 DEF KeepWindow
    <3> QED BY <1>2, <2>2, <3>1 DEF KeepWindow
  <2> QED BY <2>1, <2>2
<1>3. CASE CloseWindow(age + 1, mix \cup {r})
  <2>1. CASE r = rate
    BY <1>3, <2>1 DEF CloseWindow
  <2>2. CASE r # rate
    BY <1>3, <2>2 DEF CloseWindow
  <2> QED BY <2>1, <2>2
<1> QED BY <1>1, <1>2, <1>3 DEF Yield

(* Delay leaves a whole window beside the one that is open.                *)
LEMMA LongerThanBoth ==
  ASSUME NEW a \in 0..WindowTicks
  PROVE  Delay - a > WindowTicks
<1>1. WindowTicks \in Nat /\ Delay = WindowTicks + WindowTicks + 3
  BY TicksAssumption DEF Delay
<1> QED BY <1>1

LEMMA StepInYield ==
  ASSUME YieldInv, [Next]_vars
  PROVE  YieldInv'
<1> USE DEF YieldInv
<1>1. ASSUME NEW r \in Rates, FastTick(r)  PROVE YieldInv'
  <2>1. /\ age' \in 0..WindowTicks /\ run' \in 0..Delay
        /\ yield' \in Rates /\ mix' \subseteq Rates
        /\ WindowInv'
    BY <1>1, TurnOfTick DEF FastTick
  <2>2. /\ obs' = [obs EXCEPT !.yield = yield'] /\ rate' = r /\ pc' = "motion"
        /\ UNCHANGED <<motion, presence, writing>>
    BY <1>1 DEF FastTick, dspVars
  <2>3. YieldTypes'
    BY <2>1, <2>2 DEF YieldTypes
  <2>4. obs'.yield = yield'
    BY <2>2 DEF YieldTypes
  <2>5. run' = Delay => yield' = rate'
    <3>1. run' - age' > WindowTicks => yield' = rate'
      BY <2>1 DEF WindowInv
    <3>2. age' \in 0..WindowTicks
      BY <2>1
    <3>3. Delay - age' > WindowTicks
      BY <3>2, LongerThanBoth
    <3> QED BY <3>1, <3>3
  <2> QED BY <2>1, <2>2, <2>3, <2>4, <2>5 DEF DecidedInv
<1>2. CASE Emit \/ SlowTick
  <2>1. /\ Yield(age, mix) /\ pc \in {"idle", "emit"}
        /\ UNCHANGED <<state, obs, rate, run, motion, presence, writing>>
    BY <1>2 DEF Emit, SlowTick, dspVars
  <2>2. /\ age' \in 0..WindowTicks /\ yield' \in Rates /\ mix' \subseteq Rates
        /\ WindowInv'
    BY <2>1, TurnBetweenTicks
  <2> QED BY <2>1, <2>2 DEF YieldTypes, DecidedInv
<1>3. CASE Apply
  <2> DEFINE d == Decide(state, obs)
  <2>1. /\ pc = "decide" /\ state' = d.state
        /\ UNCHANGED <<yieldVars, dspVars, obs, rate, run>>
    BY <1>3 DEF Apply
  <2>2. d.state = "DEGRADED" <=> ~Healthy(obs)
    BY DEF Decide, Decision
  <2>3. Healthy(obs) <=> obs.yield # "low"
    BY DEF Healthy, YieldTypes, Rates
  <2> HIDE DEF d
  <2> QED BY <2>1, <2>2, <2>3 DEF YieldTypes, WindowInv, DecidedInv, yieldVars, dspVars
<1>4. CASE NoPacket \/ ReadMotion \/ ReadPresence
  <2>1. /\ UNCHANGED <<yieldVars, dspVars, rate, run>>
        /\ pc' \in {"presence", "decide"}
    BY <1>4 DEF NoPacket, ReadMotion, ReadPresence
  <2>2. /\ obs' \in [yield : Rates, anomaly : {FALSE}, motion : Nat, presence : Nat]
        /\ obs'.yield = obs.yield
    <3>1. CASE NoPacket
      BY <3>1 DEF NoPacket, YieldTypes
    <3>2. CASE ReadMotion
      BY <3>2 DEF ReadMotion, YieldTypes
    <3>3. CASE ReadPresence
      BY <3>3 DEF ReadPresence, YieldTypes
    <3> QED BY <1>4, <3>1, <3>2, <3>3
  <2> QED BY <2>1, <2>2 DEF YieldTypes, WindowInv, DecidedInv, yieldVars, dspVars
<1>5. ASSUME NEW e \in Energies, PublishMotion(e)  PROVE YieldInv'
  BY <1>5, EnergiesAssumption
  DEF PublishMotion, yieldVars, YieldTypes, WindowInv, DecidedInv
<1>6. CASE PublishPresence
  BY <1>6, EnergiesAssumption
  DEF PublishPresence, Nothing, yieldVars, YieldTypes, WindowInv, DecidedInv
<1>7. CASE UNCHANGED vars
  BY <1>7 DEF vars, yieldVars, dspVars, YieldTypes, WindowInv, DecidedInv
<1> QED BY <1>1, <1>2, <1>3, <1>4, <1>5, <1>6, <1>7 DEF Next

(* Whoever turns the window, a collapse or a recovery that has lasted for  *)
(* Delay ticks has reached the state.                                      *)
THEOREM CollapseIsNoticed == Spec => []YieldIsNoticed
<1>1. Init => YieldInv
  BY TicksAssumption
  DEF Init, YieldInv, YieldTypes, WindowInv, DecidedInv, Rates, Nothing, Delay
<1>2. YieldInv /\ [Next]_vars => YieldInv'
  BY StepInYield
<1>3. YieldInv => YieldIsNoticed
  BY DEF YieldInv, DecidedInv, YieldTypes, YieldIsNoticed, Rates
<1> QED BY <1>1, <1>2, <1>3, PTL DEF Spec

-----------------------------------------------------------------------------
(* Types.  The bound on the epochs holds back the tick, not the decision:  *)
(* a tick under way has an epoch left to open.                             *)

TypesInv == TypeOK /\ (pc \in {"motion", "presence", "decide"} => epoch < MaxEpoch)

(* The divider counts the ticks modulo EmitEvery.                          *)
LEMMA DividerTurns ==
  ASSUME NEW n \in 0..(EmitEvery - 1)
  PROVE  (n + 1) % EmitEvery \in 0..(EmitEvery - 1)
BY TicksAssumption

LEMMA DecisionTypes ==
  ASSUME NEW st \in States, NEW o
  PROVE  Decide(st, o).state \in States /\ Decide(st, o).profile \in Profiles
BY DEF Decide, Decision, States, Profiles

(* A turn of the window, in a tick or between two, keeps its types.        *)
LEMMA TurnTypes ==
  ASSUME TypeOK, NEW a \in Nat, NEW m \in SUBSET Rates, Yield(a, m)
  PROVE  started' \in BOOLEAN /\ age' \in 0..WindowTicks /\ yield' \in Rates /\ mix' \subseteq Rates
<1> USE TicksAssumption DEF TypeOK
<1>1. CASE StartWindow
  BY <1>1 DEF StartWindow, Nothing
<1>2. CASE KeepWindow(a, m)
  BY <1>2 DEF KeepWindow
<1>3. CASE CloseWindow(a, m)
  BY <1>3 DEF CloseWindow, Nothing
<1> QED BY <1>1, <1>2, <1>3 DEF Yield

LEMMA StepInTypes ==
  ASSUME TypesInv, [Next]_vars
  PROVE  TypesInv'
<1> USE DEF TypesInv
<1>1. ASSUME NEW r \in Rates, FastTick(r) PROVE TypesInv'
  <2>1. age + 1 \in Nat /\ mix \cup {r} \in SUBSET Rates
    BY TicksAssumption DEF TypeOK
  <2>2. started' \in BOOLEAN /\ age' \in 0..WindowTicks /\ yield' \in Rates /\ mix' \subseteq Rates
    BY <1>1, <2>1, TurnTypes DEF FastTick
  <2>3. rate' \in Rates /\ run' \in 0..Delay
    BY <1>1, TicksAssumption DEF FastTick, TypeOK, Delay
  <2>4. obs' \in [yield : Rates, anomaly : {FALSE}, motion : 0..100, presence : Nat]
    BY <1>1, <2>2 DEF FastTick, TypeOK
  <2>5. /\ pc' = "motion" /\ epoch < MaxEpoch
        /\ UNCHANGED <<state, profile, epoch, slowOn, dspVars, divider, feature, meshVars>>
    BY <1>1 DEF FastTick
  <2> QED BY <2>2, <2>3, <2>4, <2>5 DEF TypeOK, dspVars, meshVars
<1>2. CASE Emit
  <2>1. started' \in BOOLEAN /\ age' \in 0..WindowTicks /\ yield' \in Rates /\ mix' \subseteq Rates
    <3>1. age \in Nat /\ mix \in SUBSET Rates
      BY TicksAssumption DEF TypeOK
    <3> QED BY <1>2, <3>1, TurnTypes DEF Emit
  <2>2. feature' \in [mode : Profiles, degraded : BOOLEAN]
    <3>1. (state = "DEGRADED") \in BOOLEAN
      OBVIOUS
    <3> DEFINE flag == state = "DEGRADED"
    <3>2. feature' = [mode |-> profile, degraded |-> flag]
      BY <1>2 DEF Emit
    <3> HIDE DEF flag
    <3> QED BY <3>1, <3>2 DEF TypeOK, flag
  <2>3. /\ pc' = "idle"
        /\ UNCHANGED <<state, profile, epoch, slowOn, dspVars, obs, divider, rate, run, meshVars>>
    BY <1>2 DEF Emit
  <2> QED BY <2>1, <2>2, <2>3 DEF TypeOK, dspVars, meshVars
<1>3. CASE SlowTick
  <2>1. started' \in BOOLEAN /\ age' \in 0..WindowTicks /\ yield' \in Rates /\ mix' \subseteq Rates
    <3>1. age \in Nat /\ mix \in SUBSET Rates
      BY TicksAssumption DEF TypeOK
    <3> QED BY <1>3, <3>1, TurnTypes DEF SlowTick
  <2>2. /\ mesh' = [type |-> "health", epoch |-> epoch] /\ epoch \in Nat
        /\ UNCHANGED <<state, profile, epoch, slowOn, dspVars, pc, obs, divider, feature,
                       rate, run, closed>>
    BY <1>3, TicksAssumption DEF SlowTick, TypeOK
  <2> QED BY <2>1, <2>2 DEF TypeOK, dspVars
<1>4. CASE Apply
  <2> DEFINE d == Decide(state, obs)
  <2>1. d.state \in States /\ d.profile \in Profiles
    BY DecisionTypes DEF TypeOK
  <2>2. /\ pc = "decide" /\ state' = d.state /\ Announce(d.state)
        /\ epoch' = IF d.state # state THEN epoch + 1 ELSE epoch
        /\ profile' = IF d.changeProfile THEN d.profile ELSE profile
        /\ divider' = (divider + 1) % EmitEvery /\ pc' \in {"emit", "idle"}
        /\ UNCHANGED <<slowOn, yieldVars, dspVars, obs, feature, rate, run>>
    BY <1>4 DEF Apply
  <2> HIDE DEF d
  <2>3. epoch' \in 1..MaxEpoch /\ epoch \in Nat
    BY <2>2, TicksAssumption DEF TypeOK
  <2>4. profile' \in Profiles
    BY <2>1, <2>2 DEF TypeOK
  <2>5. divider' \in 0..(EmitEvery - 1)
    BY <2>2, DividerTurns DEF TypeOK
  <2>6. mesh' \in [type : {"none", "anomaly", "health"}, epoch : Nat] /\ closed' \in Nat
    BY <2>2, <2>3 DEF Announce, meshVars, TypeOK
  <2> QED BY <2>1, <2>2, <2>3, <2>4, <2>5, <2>6 DEF TypeOK, yieldVars, dspVars
<1>5. CASE NoPacket \/ ReadMotion \/ ReadPresence
  <2>1. obs' \in [yield : Rates, anomaly : {FALSE}, motion : 0..100, presence : Nat]
    <3>1. CASE NoPacket
      <4>1. 0 \in 0..100 /\ 0 \in Nat
        OBVIOUS
      <4>2. obs \in [yield : Rates, anomaly : {FALSE}, motion : 0..100, presence : Nat]
        BY DEF TypeOK
      <4>3. [obs EXCEPT !.motion = 0, !.presence = 0]
              \in [yield : Rates, anomaly : {FALSE}, motion : 0..100, presence : Nat]
        BY <4>1, <4>2, Zenon
      <4> QED BY <3>1, <4>3 DEF NoPacket
    <3>2. CASE ReadMotion
      <4> DEFINE m == IF motion > 100 THEN 100 ELSE motion
      <4>1. m \in 0..100
        BY DEF TypeOK
      <4> HIDE DEF m
      <4>2. obs \in [yield : Rates, anomaly : {FALSE}, motion : 0..100, presence : Nat]
        BY DEF TypeOK
      <4>3. [obs EXCEPT !.motion = m]
              \in [yield : Rates, anomaly : {FALSE}, motion : 0..100, presence : Nat]
        BY <4>1, <4>2, Zenon
      <4> QED BY <3>2, <4>3 DEF ReadMotion, m
    <3>3. CASE ReadPresence
      <4>1. presence \in Nat
        BY DEF TypeOK
      <4>2. obs \in [yield : Rates, anomaly : {FALSE}, motion : 0..100, presence : Nat]
        BY DEF TypeOK
      <4>3. [obs EXCEPT !.presence = presence]
              \in [yield : Rates, anomaly : {FALSE}, motion : 0..100, presence : Nat]
        BY <4>1, <4>2, Zenon
      <4> QED BY <3>3, <4>3 DEF ReadPresence
    <3> QED BY <1>5, <3>1, <3>2, <3>3
  <2>2. /\ pc \in {"motion", "presence"} /\ pc' \in {"presence", "decide"}
        /\ UNCHANGED <<state, profile, epoch, slowOn, yieldVars, dspVars, divider, feature,
                       rate, run, meshVars>>
    BY <1>5 DEF NoPacket, ReadMotion, ReadPresence
  <2> QED BY <2>1, <2>2 DEF TypeOK, yieldVars, dspVars, meshVars
<1>6. ASSUME NEW e \in Energies, PublishMotion(e) PROVE TypesInv'
  BY <1>6, EnergiesAssumption DEF PublishMotion, TypeOK, yieldVars, meshVars
<1>7. CASE PublishPresence
  BY <1>7, EnergiesAssumption DEF PublishPresence, Nothing, TypeOK, yieldVars, meshVars
<1>8. CASE UNCHANGED vars
  BY <1>8 DEF vars, TypeOK, yieldVars, dspVars, meshVars
<1> QED BY <1>1, <1>2, <1>3, <1>4, <1>5, <1>6, <1>7, <1>8 DEF Next

(* The controller stays within its types: however reads tear, a score is a *)
(* percentage once it is clamped, and no tick runs past the last epoch.    *)
THEOREM TypeCorrect == Spec => []TypeOK
<1>1. Init => TypesInv
  <2> SUFFICES ASSUME Init PROVE TypesInv
    OBVIOUS
  <2>1. /\ epoch \in 1..MaxEpoch /\ age \in 0..WindowTicks /\ divider \in 0..(EmitEvery - 1)
        /\ run \in 0..Delay /\ motion \in Nat /\ presence \in Nat /\ closed \in Nat
    BY TicksAssumption DEF Init, Delay
  <2>2. slowOn \in BOOLEAN /\ started \in BOOLEAN /\ valid \in BOOLEAN
    BY DEF Init
  <2>3. /\ state \in States /\ profile \in Profiles /\ yield \in Rates /\ mix \subseteq Rates
        /\ writing \subseteq Energies /\ rate \in Rates /\ pc = "idle"
    BY DEF Init, States, Profiles, Rates, Nothing
  <2>4. obs \in [yield : Rates, anomaly : {FALSE}, motion : 0..100, presence : Nat]
    BY DEF Init, Rates
  <2>5. feature \in [mode : Profiles, degraded : BOOLEAN]
    BY DEF Init, Profiles
  <2>6. mesh \in [type : {"none", "anomaly", "health"}, epoch : Nat]
    BY DEF Init
  <2> QED BY <2>1, <2>2, <2>3, <2>4, <2>5, <2>6 DEF TypesInv, TypeOK
<1>2. TypesInv /\ [Next]_vars => TypesInv'
  BY StepInTypes
<1> QED BY <1>1, <1>2, PTL DEF Spec, TypesInv
=============================================================================

-------------------------- MODULE AdaptiveController --------------------------
(***************************************************************************)
(* The adaptive controller of main/adaptive_controller.c and its policy in *)
(* adaptive_controller_decide.c, with what it reads: the packet yield of   *)
(* csi_collector.c and the vitals packet of edge_processing.c.             *)
(*                                                                         *)
(* The loops are FreeRTOS timers, so their callbacks run one after the     *)
(* other on the timer task.  The DSP task publishes its packet meanwhile,  *)
(* without a lock: the two words the controller uses are written one after *)
(* the other and read one after the other.                                 *)
(*                                                                         *)
(* Time is counted in fast ticks.  The yield is reduced to its comparison  *)
(* with min_pkt_yield; a score is a percentage.  The medium loop only      *)
(* logs; force_state has no caller in the firmware; the change_channel and *)
(* calibration requests are never set by the policy.                       *)
(***************************************************************************)
EXTENDS Naturals

CONSTANTS
  Energies,        \* the motion energies the DSP task publishes
  MotionThreshold, \* motion_threshold, 20
  WindowTicks,     \* fast ticks in the 1 s yield window, 5
  EmitEvery,       \* fast ticks per feature_state packet, 5
  MaxEpoch         \* bound: epochs

ASSUME EnergiesAssumption == Energies \subseteq Nat /\ MotionThreshold \in Nat \ {0}
ASSUME TicksAssumption == WindowTicks \in Nat \ {0} /\ EmitEvery \in Nat \ {0} /\ MaxEpoch \in Nat \ {0}

VARIABLES
  state, profile, epoch,      \* s_state, s_current_profile of the radio binding, s_mesh_epoch
  slowOn,                     \* whether the slow timer was started
  started, age, yield,        \* the static window of csi_collector_get_pkt_yield_per_sec
  mix,                        \* the rates seen in that window
  motion, presence, writing,  \* s_latest_pkt: its two words, and the energy being written
  valid,                      \* s_pkt_valid
  pc, obs,                    \* the fast loop: where it is, and its observation
  divider,                    \* s_emit_divider
  feature,                    \* the last feature_state packet: mode and degraded flag
  rate, run,                  \* history: the CSI rate of the last tick, and its run of ticks
  mesh, closed                \* history: the last mesh message, the epoch of the last anomaly

yieldVars == <<started, age, yield, mix>>
dspVars == <<motion, presence, writing, valid>>
meshVars == <<mesh, closed>>
vars == <<state, profile, epoch, slowOn, yieldVars, dspVars, pc, obs, divider, feature,
          rate, run, meshVars>>

States == {"RADIO_INIT", "SENSE_IDLE", "SENSE_ACTIVE", "ALERT", "DEGRADED"}
Profiles == {"PASSIVE_LOW_RATE", "FAST_MOTION", "RESP_HIGH_SENS"}
Rates == {"low", "ok"}
Nothing == {}

(* A collapse or a recovery that began within one window is measured by    *)
(* the next one at the latest; a window closes at most one tick late, and  *)
(* the tick that closes it may already have decided.                       *)
Delay == 2 * (WindowTicks + 1) + 1

(* The timers are started in order; when a later start fails the fast loop *)
(* runs all the same, from the state the failed init left behind.          *)
Init ==
  /\ \/ state = "SENSE_IDLE" /\ slowOn = TRUE
     \/ state = "RADIO_INIT" /\ slowOn = FALSE
  /\ profile = "PASSIVE_LOW_RATE" /\ epoch = 1
  /\ started = FALSE /\ age = 0 /\ yield = "low" /\ mix = Nothing
  /\ motion = 0 /\ presence = 0 /\ writing = Nothing /\ valid = FALSE
  /\ pc = "idle" /\ obs = [yield |-> "low", anomaly |-> FALSE, motion |-> 0, presence |-> 0]
  /\ divider = 0 /\ feature = [mode |-> "PASSIVE_LOW_RATE", degraded |-> FALSE]
  /\ rate = "ok" /\ run = 0
  /\ mesh = [type |-> "none", epoch |-> 0] /\ closed = 0

-----------------------------------------------------------------------------
(* send_vitals_packet on the DSP task: presence_score is motion_energy.    *)

PublishMotion(e) ==
  /\ writing = Nothing
  /\ writing' = {e} /\ motion' = e
  /\ UNCHANGED <<state, profile, epoch, slowOn, yieldVars, presence, valid, pc, obs, divider,
                 feature, rate, run, meshVars>>

PublishPresence ==
  /\ \E e \in writing : presence' = e
  /\ writing' = Nothing /\ valid' = TRUE
  /\ UNCHANGED <<state, profile, epoch, slowOn, yieldVars, motion, pc, obs, divider, feature,
                 rate, run, meshVars>>

-----------------------------------------------------------------------------
(* csi_collector_get_pkt_yield_per_sec.  Ticks and microseconds drift, so  *)
(* the window of WindowTicks ticks may turn out just too short.            *)

StartWindow ==
  /\ ~started
  /\ started' = TRUE /\ age' = 0 /\ mix' = Nothing
  /\ UNCHANGED yield

(* Mutant: every call moves the start of the window.                       *)
KeepWindowSliding(a, m) ==
  /\ started /\ a <= WindowTicks
  /\ age' = 0 /\ mix' = m
  /\ UNCHANGED <<started, yield>>

KeepWindow(a, m) ==
  /\ started /\ a <= WindowTicks
  /\ age' = a /\ mix' = m
  /\ UNCHANGED <<started, yield>>

CloseWindow(a, m) ==
  /\ started /\ a >= WindowTicks
  /\ yield' \in m
  /\ age' = 0 /\ mix' = Nothing
  /\ UNCHANGED started

(* a and m: the age of the window and the rates seen in it.                *)
Yield(a, m) == StartWindow \/ KeepWindow(a, m) \/ CloseWindow(a, m)

-----------------------------------------------------------------------------
(* adaptive_controller_decide.                                             *)

Healthy(o) == o.yield = "ok"
Moving(o) == o.motion >= MotionThreshold
StablePresence(o) == o.presence >= 50 /\ o.motion < 5

Decision(st, p, set) == [state |-> st, profile |-> p, changeProfile |-> set]

(* Mutant: a collapse changes the state and leaves the profile.            *)
DecideUnpinned(current, o) ==
  CASE ~Healthy(o) -> Decision("DEGRADED", "PASSIVE_LOW_RATE", FALSE)
    [] Healthy(o) /\ Moving(o) -> Decision("SENSE_ACTIVE", "FAST_MOTION", TRUE)
    [] OTHER -> Decision("SENSE_IDLE", "PASSIVE_LOW_RATE", current # "SENSE_IDLE")

Decide(current, o) ==
  CASE ~Healthy(o) ->
         Decision("DEGRADED", "PASSIVE_LOW_RATE", current # "DEGRADED")
    [] Healthy(o) /\ o.anomaly ->
         Decision("ALERT", "FAST_MOTION", TRUE)
    [] Healthy(o) /\ ~o.anomaly /\ Moving(o) ->
         Decision("SENSE_ACTIVE", "FAST_MOTION", TRUE)
    [] Healthy(o) /\ ~o.anomaly /\ ~Moving(o) /\ StablePresence(o) ->
         Decision("SENSE_IDLE", "RESP_HIGH_SENS", TRUE)
    [] OTHER ->
         Decision("SENSE_IDLE", "PASSIVE_LOW_RATE", current # "SENSE_IDLE")

-----------------------------------------------------------------------------
(* fast_loop_cb, one step per access to what other tasks write.            *)

(* The callback fires: the health part of collect_observation.             *)
FastTick(r) ==
  /\ pc = "idle" /\ epoch < MaxEpoch
  /\ rate' = r /\ run' = IF r = rate THEN IF run < Delay THEN run + 1 ELSE Delay ELSE 1
  /\ Yield(age + 1, mix \cup {r})
  /\ obs' = [obs EXCEPT !.yield = yield']
  /\ pc' = "motion"
  /\ UNCHANGED <<state, profile, epoch, slowOn, dspVars, divider, feature, meshVars>>

(* edge_get_vitals finds no packet yet: the observation keeps its zeros.   *)
NoPacket ==
  /\ pc = "motion" /\ ~valid
  /\ obs' = [obs EXCEPT !.motion = 0, !.presence = 0]
  /\ pc' = "decide"
  /\ UNCHANGED <<state, profile, epoch, slowOn, yieldVars, dspVars, divider, feature,
                 rate, run, meshVars>>

(* edge_get_vitals: the memcpy of s_latest_pkt, word by word.              *)
ReadMotion ==
  /\ pc = "motion" /\ valid
  /\ obs' = [obs EXCEPT !.motion = IF motion > 100 THEN 100 ELSE motion]
  /\ pc' = "presence"
  /\ UNCHANGED <<state, profile, epoch, slowOn, yieldVars, dspVars, divider, feature,
                 rate, run, meshVars>>

ReadPresence ==
  /\ pc = "presence"
  /\ obs' = [obs EXCEPT !.presence = presence]
  /\ pc' = "decide"
  /\ UNCHANGED <<state, profile, epoch, slowOn, yieldVars, dspVars, divider, feature,
                 rate, run, meshVars>>

(* Mutant: the epoch is advanced before the anomaly is sent.               *)
AnnounceNewEpoch(new) ==
  IF new # state /\ new \in {"ALERT", "DEGRADED"}
  THEN mesh' = [type |-> "anomaly", epoch |-> epoch + 1] /\ closed' = epoch + 1
  ELSE UNCHANGED meshVars

(* rv_mesh_send_anomaly on the way into ALERT or DEGRADED; what becomes of *)
(* the datagram changes nothing here.                                      *)
Announce(new) ==
  IF new # state /\ new \in {"ALERT", "DEGRADED"}
  THEN mesh' = [type |-> "anomaly", epoch |-> epoch] /\ closed' = epoch
  ELSE UNCHANGED meshVars

(* apply_decision, and the tick's turn of the divider.                     *)
Apply ==
  LET d == Decide(state, obs) IN
  /\ pc = "decide"
  /\ state' = d.state
  /\ Announce(d.state)
  /\ epoch' = IF d.state # state THEN epoch + 1 ELSE epoch
  /\ profile' = IF d.changeProfile THEN d.profile ELSE profile
  /\ divider' = (divider + 1) % EmitEvery
  /\ pc' = IF divider + 1 >= EmitEvery THEN "emit" ELSE "idle"
  /\ UNCHANGED <<slowOn, yieldVars, dspVars, obs, feature, rate, run>>

(* emit_feature_state: get_health turns the yield window as well.          *)
Emit ==
  /\ pc = "emit"
  /\ Yield(age, mix)
  /\ feature' = [mode |-> profile, degraded |-> state = "DEGRADED"]
  /\ pc' = "idle"
  /\ UNCHANGED <<state, profile, epoch, slowOn, dspVars, obs, divider, rate, run, meshVars>>

(* slow_loop_cb: HEALTH, whose get_health turns the yield window too.      *)
SlowTick ==
  /\ slowOn /\ pc = "idle"
  /\ Yield(age, mix)
  /\ mesh' = [type |-> "health", epoch |-> epoch]
  /\ UNCHANGED <<state, profile, epoch, slowOn, dspVars, pc, obs, divider, feature, rate, run,
                 closed>>

-----------------------------------------------------------------------------

Next ==
  \/ \E e \in Energies : PublishMotion(e)
  \/ PublishPresence
  \/ \E r \in Rates : FastTick(r)
  \/ NoPacket \/ ReadMotion \/ ReadPresence \/ Apply \/ Emit
  \/ SlowTick

Spec == Init /\ [][Next]_vars

-----------------------------------------------------------------------------

TypeOK ==
  /\ state \in States /\ profile \in Profiles /\ epoch \in 1..MaxEpoch /\ slowOn \in BOOLEAN
  /\ started \in BOOLEAN /\ age \in 0..WindowTicks /\ yield \in Rates /\ mix \subseteq Rates
  /\ motion \in Nat /\ presence \in Nat /\ writing \subseteq Energies
  /\ valid \in BOOLEAN
  /\ pc \in {"idle", "motion", "presence", "decide", "emit"}
  /\ obs \in [yield : Rates, anomaly : {FALSE}, motion : 0..100, presence : Nat]
  /\ divider \in 0..(EmitEvery - 1)
  /\ feature \in [mode : Profiles, degraded : BOOLEAN]
  /\ rate \in Rates /\ run \in 0..Delay
  /\ mesh \in [type : {"none", "anomaly", "health"}, epoch : Nat] /\ closed \in Nat

(* A receiver can order the node's mesh messages by epoch: an anomaly is   *)
(* the last message of its epoch, across every later transition and tick.  *)
AnomalyClosesItsEpoch == [][mesh' # mesh => mesh'.epoch > closed]_vars

(* A degraded node is pinned to PASSIVE_LOW_RATE and an active one runs    *)
(* FAST_MOTION, whatever was captured before and however reads tore.       *)
ProfileFollowsState ==
  /\ state = "DEGRADED" => profile = "PASSIVE_LOW_RATE"
  /\ state \in {"SENSE_ACTIVE", "ALERT"} => profile = "FAST_MOTION"

(* A yield that has collapsed for Delay ticks has degraded the node, and   *)
(* one that has been fine for as long has not left it degraded: the cached *)
(* yield never outlives two windows, whoever else turns the window.        *)
YieldIsNoticed ==
  run = Delay /\ pc = "idle" => (rate = "low" <=> state = "DEGRADED")
=============================================================================
